--------------------------- MODULE GmailConnection --------------------------
(***************************************************************************)
(* The tokens of one Google account connected to a workspace               *)
(* (gmail_oauth.py, the Gmail routes of main.py, gmail_connections in      *)
(* supabase_client.py).                                                    *)
(*                                                                         *)
(* An OAuth callback exchanges a code, reads the stored row to keep its    *)
(* refresh token if Google sent none, and upserts.  Whoever calls Gmail    *)
(* works on a copy of the row; a 401 makes it mint an access token from    *)
(* the refresh token, once.  An ingest run writes a minted token back when *)
(* it ends, the label picker does not.  Requests and runs interleave       *)
(* between these calls.  Watermarks and mails are the matter of GmailSync. *)
(***************************************************************************)
EXTENDS Naturals, FiniteSets

CONSTANTS Callbacks,         \* OAuth callbacks that may run at the same time
          Users,             \* who calls Gmail: "ingest", "picker"
          TokenFailures,     \* what may fail in Supabase: "read", "write"
          MaxConnects,       \* bound: codes exchanged
          MaxTokenExpiries,  \* bound: access tokens that expire
          MaxCallFailures,   \* bound: refreshes that fail though Google would grant them
          MaxMinted          \* bound: tokens after which no minted token is lost

ASSUME GmailConnectionAssumption ==
  /\ Users \subseteq {"ingest", "picker"} /\ TokenFailures \subseteq {"read", "write"}
  /\ MaxConnects \in Nat /\ MaxTokenExpiries \in Nat /\ MaxCallFailures \in Nat
  /\ MaxMinted \in Nat

VARIABLES conn,                    \* the row of gmail_connections, or None
          grants,                  \* refresh tokens Google accepts
          accepted,                \* access tokens Google accepts
          lastToken,               \* tokens issued so far: the last one
          lastRowId,               \* the last row id
          cb,                      \* callback -> its local variables
          use,                     \* user -> its local variables
          connects, tokenExpiries, callFailures  \* how often (bounds)

tokenVars == <<conn, grants, accepted, lastToken, lastRowId, cb, use, connects,
               tokenExpiries, callFailures>>

Blank == 0
NoRow == [id |-> 0, access |-> Blank, refresh |-> Blank]
NoCall == [pc |-> "idle", access |-> Blank, refresh |-> Blank, old |-> Blank, fresh |-> FALSE]
NoUse == [pc |-> "idle", row |-> NoRow, minted |-> FALSE]

TokenInit ==
  /\ conn = NoRow /\ grants = {} /\ accepted = {} /\ lastToken = 0 /\ lastRowId = 0
  /\ cb = [c \in Callbacks |-> NoCall] /\ use = [u \in Users |-> NoUse]
  /\ connects = 0 /\ tokenExpiries = 0 /\ callFailures = 0

-----------------------------------------------------------------------------
(* Google.                                                                 *)

\* An access token reaches its expiry.
TokenExpires(a) ==
  /\ a \in accepted /\ tokenExpiries < MaxTokenExpiries
  /\ accepted' = accepted \ {a} /\ tokenExpiries' = tokenExpiries + 1
  /\ UNCHANGED <<conn, grants, lastToken, lastRowId, cb, use, connects, callFailures>>

\* The account's owner withdraws the application's access.
Withdraw ==
  /\ grants # {} /\ grants' = {} /\ accepted' = {}
  /\ UNCHANGED <<conn, lastToken, lastRowId, cb, use, connects, tokenExpiries, callFailures>>

-----------------------------------------------------------------------------
(* gmail_oauth_callback and upsert_gmail_connection.                       *)

\* exchange_code, fetch_user_info: while it has a grant, the account may be
\* sent no new refresh token.
ExchangeGoogleCode(c) ==
  /\ cb[c].pc = "idle" /\ connects < MaxConnects
  /\ lastToken' = lastToken + 1 /\ connects' = connects + 1
  /\ accepted' = accepted \cup {lastToken'}
  /\ \E refresh \in {lastToken'} \cup (IF grants = {} THEN {} ELSE {Blank}) :
       /\ grants' = grants \cup ({refresh} \ {Blank})
       /\ cb' = [cb EXCEPT ![c] = [pc |-> "read", access |-> lastToken',
                                   refresh |-> refresh, old |-> Blank, fresh |-> FALSE]]
  /\ UNCHANGED <<conn, lastRowId, use, tokenExpiries, callFailures>>

\* What was read is fresh (history) until another callback writes the row.
ReadExisting(c) ==
  /\ cb[c].pc = "read"
  /\ cb' = [cb EXCEPT ![c].pc = "upsert", ![c].old = conn.refresh, ![c].fresh = TRUE]
  /\ UNCHANGED <<conn, grants, accepted, lastToken, lastRowId, use, connects,
                 tokenExpiries, callFailures>>

\* A failed read is logged and taken for no row.
ReadExistingFails(c) ==
  /\ "read" \in TokenFailures /\ cb[c].pc = "read"
  /\ cb' = [cb EXCEPT ![c].pc = "upsert", ![c].old = Blank]
  /\ UNCHANGED <<conn, grants, accepted, lastToken, lastRowId, use, connects,
                 tokenExpiries, callFailures>>

\* Mutant of EffectiveRefresh: what Google sent, blank or not.
SentRefresh(c) == cb[c].refresh

EffectiveRefresh(c) == IF cb[c].refresh # Blank THEN cb[c].refresh ELSE cb[c].old

UpsertRow(c) ==
  /\ cb[c].pc = "upsert"
  /\ lastRowId' = IF conn = NoRow THEN lastRowId + 1 ELSE lastRowId
  /\ conn' = [id |-> IF conn = NoRow THEN lastRowId' ELSE conn.id,
              access |-> cb[c].access, refresh |-> EffectiveRefresh(c)]
  /\ cb' = [d \in Callbacks |-> IF d = c THEN NoCall ELSE [cb[d] EXCEPT !.fresh = FALSE]]
  /\ UNCHANGED <<grants, accepted, lastToken, use, connects, tokenExpiries, callFailures>>

UpsertRowFails(c) ==
  /\ "write" \in TokenFailures /\ cb[c].pc = "upsert"
  /\ cb' = [cb EXCEPT ![c] = NoCall]
  /\ UNCHANGED <<conn, grants, accepted, lastToken, lastRowId, use, connects,
                 tokenExpiries, callFailures>>

\* DELETE /api/gmail/connections: Google is not told.
DeleteRow ==
  /\ conn # NoRow /\ conn' = NoRow
  /\ UNCHANGED <<grants, accepted, lastToken, lastRowId, cb, use, connects, tokenExpiries,
                 callFailures>>

-----------------------------------------------------------------------------
(* Calls to Gmail.                                                         *)

\* A run without a refresh token is dead-lettered, the picker tries.
BeginUse(u) ==
  /\ use[u].pc = "idle" /\ conn # NoRow
  /\ IF u = "ingest" THEN conn.refresh # Blank ELSE lastToken < MaxMinted
  /\ use' = [use EXCEPT ![u] = [pc |-> "call", row |-> conn, minted |-> FALSE]]
  /\ UNCHANGED <<conn, grants, accepted, lastToken, lastRowId, cb, connects, tokenExpiries,
                 callFailures>>

Usable(u) == use[u].row.access \in accepted
Called(u) == [use EXCEPT ![u].pc = "called"]

\* _authed_request with a token Gmail takes.
Call(u) ==
  /\ use[u].pc = "call" /\ Usable(u)
  /\ use' = Called(u)
  /\ UNCHANGED <<conn, grants, accepted, lastToken, lastRowId, cb, connects, tokenExpiries,
                 callFailures>>

\* Mutant of CallRefreshed: a 401 is an error like any other.
CallGivesUp(u) ==
  /\ use[u].pc \in {"call", "called"} /\ ~Usable(u) /\ use[u].row.refresh \in grants
  /\ use' = Called(u)
  /\ UNCHANGED <<conn, grants, accepted, lastToken, lastRowId, cb, connects, tokenExpiries,
                 callFailures>>

\* The first call or a later one of the run gets a 401.
CallRefreshed(u) ==
  /\ use[u].pc \in {"call", "called"} /\ ~Usable(u) /\ use[u].row.refresh \in grants
  /\ lastToken' = lastToken + 1 /\ accepted' = accepted \cup {lastToken'}
  /\ use' = [Called(u) EXCEPT ![u].row.access = lastToken', ![u].minted = TRUE]
  /\ UNCHANGED <<conn, grants, lastRowId, cb, connects, tokenExpiries, callFailures>>

\* GmailApiError: the run's labels fail, the picker shows what is stored.  Either Google
\* does not accept the refresh token, or the refresh failed in another way.
CallRaises(u) ==
  /\ use[u].pc = "call" /\ ~Usable(u)
  /\ IF use[u].row.refresh \notin grants THEN UNCHANGED callFailures
     ELSE callFailures < MaxCallFailures /\ callFailures' = callFailures + 1
  /\ use' = Called(u)
  /\ UNCHANGED <<conn, grants, accepted, lastToken, lastRowId, cb, connects, tokenExpiries>>

Persists(u) == u = "ingest" /\ use[u].minted /\ conn.id = use[u].row.id

\* End of ingest_for_gmail_connection, of gmail_labels_list.
EndUse(u) ==
  /\ use[u].pc = "called"
  /\ \/ Persists(u) /\ conn' = [conn EXCEPT !.access = use[u].row.access]
     \/ (("write" \in TokenFailures /\ lastToken < MaxMinted) \/ ~Persists(u)) /\ UNCHANGED conn
  /\ use' = [use EXCEPT ![u] = NoUse]
  /\ UNCHANGED <<grants, accepted, lastToken, lastRowId, cb, connects, tokenExpiries,
                 callFailures>>

TokenNext ==
  \/ Withdraw \/ DeleteRow \/ \E a \in accepted : TokenExpires(a)
  \/ \E c \in Callbacks :
       ExchangeGoogleCode(c) \/ ReadExisting(c) \/ ReadExistingFails(c)
       \/ UpsertRow(c) \/ UpsertRowFails(c)
  \/ \E u \in Users :
       BeginUse(u) \/ Call(u) \/ CallRefreshed(u) \/ CallRaises(u) \/ EndUse(u)

TokenSpec == TokenInit /\ [][TokenNext]_tokenVars

\* The scheduler starts a run every few minutes, and what was begun goes on.
TokenLiveSpec ==
  /\ TokenSpec /\ WF_tokenVars(BeginUse("ingest"))
  /\ \A u \in Users :
       WF_tokenVars(Call(u) \/ CallRefreshed(u) \/ CallRaises(u)) /\ WF_tokenVars(EndUse(u))

-----------------------------------------------------------------------------
(* Properties.                                                             *)

(* A stored refresh token is only ever blanked by a reconnect that Google  *)
(* sent none for and whose read of the row failed or was overtaken by      *)
(* another reconnect; never by one that read what is stored, a run that    *)
(* ends, a picker or a failed write, in whatever order they come.          *)
RefreshTokenKept ==
  [][conn.id = conn'.id /\ conn.refresh # Blank /\ conn'.refresh = Blank =>
       \E c \in Callbacks : cb[c].pc = "upsert" /\ ~cb[c].fresh /\ cb'[c].pc = "idle"]_tokenVars

(* upsert_gmail_connection: "If `refresh_token` is blank on update,        *)
(* preserve the previously-stored one rather than overwriting with empty". *)
BlankPreserves ==
  [][conn.id = conn'.id /\ conn.refresh # Blank => conn'.refresh # Blank]_tokenVars

Connected == conn.refresh \in grants

(* A connection whose refresh token Google accepts gets an access token    *)
(* Google accepts, "so the new token survives restarts", whatever expires, *)
(* reconnects and overtakes.                                               *)
TokensRenew == Connected ~> (conn.access \in accepted \/ ~Connected)
=============================================================================

---------------------------- MODULE RateLimiter -----------------------------
(***************************************************************************)
(* One bucket of the in-process rate limiter (rate_limit.py).              *)
(*                                                                         *)
(* The dependency of a route names the client, looks the limit up and      *)
(* calls hit(), which reads the clock before it takes the lock: threads    *)
(* enter in another order than they read the time.  Under the lock the     *)
(* front of the client's deque is pruned and the hit appended or refused.  *)
(*                                                                         *)
(* Time is counted in ticks, TicksPerSecond of them in a second, since     *)
(* retry_after is cut to whole seconds.  Buckets share nothing but the     *)
(* lock.                                                                   *)
(***************************************************************************)
EXTENDS Naturals, Sequences, FiniteSets, FiniteSetsExt, SequencesExt

CONSTANTS Clients, ClientOf(_),  \* who sends a request, and from which address
          Threads,               \* the thread pool
          Limits,                \* values the environment gives the limit
          Window,                \* WINDOW_SECONDS, in ticks
          TicksPerSecond,
          Delay,                 \* bound: how long a thread waits for the lock
          MaxNow                 \* bound

ASSUME RateAssumption ==
  /\ Limits \subseteq Nat \ {0} /\ Limits # {} /\ IsFiniteSet(Limits)
  /\ {Window, TicksPerSecond, Delay, MaxNow} \subseteq Nat
  /\ TicksPerSecond > 0 /\ Delay < Window

VARIABLES rateClock,  \* time.monotonic()
          limit,      \* the limit in force
          hits,       \* client -> deque of times
          calls,      \* thread -> the hit() it executes
          told,       \* client -> when its first refusal promised admission (history)
          log         \* admitted hits: who, and when the lock was held (history)

rateVars == <<rateClock, limit, hits, calls, told, log>>

ClientIds == {ClientOf(u) : u \in Clients}
Free == [pc |-> "free"]

RateInit ==
  /\ rateClock = 1 /\ limit \in Limits
  /\ hits = [c \in ClientIds |-> <<>>]
  /\ calls = [t \in Threads |-> Free]
  /\ told = [c \in ClientIds |-> 0]
  /\ log = <<>>

-----------------------------------------------------------------------------
(* The user id in the logging context is not set yet when a route's        *)
(* dependency runs (and would be set in another thread's context): what is *)
(* left is the API key or the address.                                     *)
_client_id_from(u) == ClientOf(u)

Waiting == {t \in Threads : calls[t].pc = "waiting"}

\* Nobody waits for the lock longer than Delay.
Advance ==
  /\ rateClock < MaxNow
  /\ \A t \in Waiting : rateClock < calls[t].now + Delay
  /\ rateClock' = rateClock + 1
  /\ UNCHANGED <<limit, hits, calls, told, log>>

\* The environment is read at each request.
Retune(l) ==
  /\ l # limit /\ limit' = l
  /\ UNCHANGED <<rateClock, hits, calls, told, log>>

\* hit(): now = time.monotonic(), before the lock.
Hit(t, u) ==
  /\ calls[t].pc = "free"
  /\ calls' = [calls EXCEPT ![t] = [pc |-> "waiting", user |-> u, client |-> _client_id_from(u),
                                now |-> rateClock, limit |-> limit]]
  /\ UNCHANGED <<rateClock, limit, hits, told, log>>

\* Mutant of Prune: a hit leaves one second too early.
PruneEarly(dq, now) ==
  LET young == {i \in DOMAIN dq : dq[i] + Window >= now + TicksPerSecond}
  IN IF young = {} THEN <<>> ELSE SubSeq(dq, Min(young), Len(dq))

\* while dq and dq[0] < cutoff: dq.popleft()
Prune(dq, now) ==
  LET young == {i \in DOMAIN dq : dq[i] + Window >= now}
  IN IF young = {} THEN <<>> ELSE SubSeq(dq, Min(young), Len(dq))

\* Mutant of RetryAfter: half the wait.
RetryAfterHalf(dq, now) == Max({1, (dq[1] + Window - now) \div (2 * TicksPerSecond)})

RetryAfter(dq, now) == Max({1, (dq[1] + Window - now) \div TicksPerSecond})

\* Under the lock: the hit is admitted ...
Enter(t) ==
  /\ calls[t].pc = "waiting"
  /\ LET c == calls[t].client
         dq == Prune(hits[c], calls[t].now)
     IN /\ Len(dq) < calls[t].limit
        /\ hits' = [hits EXCEPT ![c] = Append(dq, calls[t].now)]
        /\ told' = [told EXCEPT ![c] = 0]
        /\ log' = Append(log, [user |-> calls[t].user, client |-> c, at |-> rateClock])
  /\ calls' = [calls EXCEPT ![t] = Free]
  /\ UNCHANGED <<rateClock, limit>>

\* ... or refused: 429 with retry_after.  The client is told "about": the
\* promise counted here is a second more than what it is told.
Refuse(t) ==
  /\ calls[t].pc = "waiting"
  /\ LET c == calls[t].client
         dq == Prune(hits[c], calls[t].now)
     IN /\ Len(dq) >= calls[t].limit
        /\ hits' = [hits EXCEPT ![c] = dq]
        /\ told' = [told EXCEPT ![c] =
             IF @ # 0 THEN @
             ELSE calls[t].now + (RetryAfter(dq, calls[t].now) + 1) * TicksPerSecond]
  /\ calls' = [calls EXCEPT ![t] = Free]
  /\ UNCHANGED <<rateClock, limit, log>>

RateNext ==
  \/ Advance
  \/ \E l \in Limits : Retune(l)
  \/ \E t \in Threads : (\E u \in Clients : Hit(t, u)) \/ Enter(t) \/ Refuse(t)

RateSpec == RateInit /\ [][RateNext]_rateVars

-----------------------------------------------------------------------------
(* Properties.                                                             *)

(* However threads overtake each other between reading the clock and       *)
(* taking the lock, and whatever the limit was before, no client gets more *)
(* than the highest limit through in any interval shorter than the window  *)
(* by the longest wait for the lock.                                       *)
WithinLimit ==
  \A i \in DOMAIN log :
    Cardinality({j \in DOMAIN log : /\ log[j].client = log[i].client
                                    /\ log[j].at \in log[i].at .. log[i].at + Window - Delay})
      <= Max(Limits)

(* While the limit stays, a client that was refused and waits one second   *)
(* more than it was told is admitted, unless it got a hit in before.       *)
RetryAdmits ==
  [][\A t \in Threads :
       calls[t].pc = "waiting" /\ calls'[t].pc = "free" /\ log' = log =>
         \/ told[calls[t].client] = 0
         \/ calls[t].now < told[calls[t].client]]_rateVars

(* The docstring of _client_id_from: "1. Supabase user id ... so a single  *)
(* user is throttled across workspaces": who is refused has used the limit *)
(* up alone.                                                               *)
ThrottledAlone ==
  [][\A t \in Threads :
       calls[t].pc = "waiting" /\ calls'[t].pc = "free" /\ log' = log =>
         Cardinality({i \in DOMAIN log : log[i].user = calls[t].user}) >= calls[t].limit]_rateVars
=============================================================================

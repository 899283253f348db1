----------------------------- MODULE SavedAnswers ----------------------------
(***************************************************************************)
(* Bookmarked answers: the panel and the Save buttons of the web client    *)
(* (App.jsx), the rows of saved_answers, and links that share them with    *)
(* the public (shared_links, main.py).                                     *)
(*                                                                         *)
(* Saving is optimistic: the item gets an id of the client's, the row it   *)
(* is stored as another, and the reply swaps them.  Removing takes the     *)
(* item off the panel and asks the server to delete the id it had.  When   *)
(* the page loads, the panel is replaced by what the server lists.  Links  *)
(* go with the answer they share.  Requests are answered in any order or   *)
(* fail, silently, and the user waits for none of them.                    *)
(*                                                                         *)
(* The n-th answer saved has the id n on the server and -n before.  The    *)
(* limits of panel (50) and list (100) are left out; no route sets an      *)
(* expiry.                                                                 *)
(***************************************************************************)
EXTENDS Integers, FiniteSets

CONSTANTS Slots,                        \* positions of answers on the timeline
          Members,                      \* of the workspace: who may share and revoke
          Readers,                      \* of public links
          MaxShown,                     \* bound: answers shown
          MaxSaves, MaxLinks, MaxLoads  \* bounds

ASSUME SavedAssumption == {MaxShown, MaxSaves, MaxLinks, MaxLoads} \subseteq Nat

VARIABLES slot,                           \* position -> the answer there and its savedId (0: none)
          answers, saves, tokens, loads,  \* how often (bounds); the last number given
          panel,                          \* ids the panel shows
          saving,                         \* POSTs of saved answers: the number, the position, how far
          deletes,                        \* ids in DELETEs under way
          list,                           \* the page's first GET: how far, the rows it read, and
                                          \* the numbers without a request since (history)
          rows,                           \* saved_answers: the numbers
          of,                             \* number -> the answer it bookmarks
          links,                          \* shared_links
          read,                           \* reader -> GET /api/shared
          withdrawn,                      \* tokens that were revoked or lost their answer (history)
          strayed                         \* numbers that the user did not wait for, or a request of
                                          \* which failed, and no list has put right since (history)

client == <<slot, answers, saves, panel, saving, list, of, strayed>>
savedVars == <<slot, answers, saves, tokens, loads, panel, saving, deletes, list, rows, of, links,
          read, withdrawn, strayed>>

Empty == [turn |-> 0, savedId |-> 0]
NoRead == [pc |-> "idle", token |-> 0, saved |-> 0, late |-> FALSE]

SavedInit ==
  /\ slot = [i \in Slots |-> Empty] /\ answers = 0 /\ saves = 0 /\ tokens = 0 /\ loads = 1
  /\ panel = {} /\ saving = {} /\ deletes = {} /\ rows = {}
  /\ list = [pc |-> "asked", rows |-> {}, calm |-> 1..MaxSaves] /\ strayed = {}
  /\ of = [n \in 1..MaxSaves |-> 0] /\ links = {}
  /\ read = [r \in Readers |-> NoRead] /\ withdrawn = {}

Number(id) == IF id < 0 THEN -id ELSE id
Numbers(ids) == {Number(id) : id \in ids}
SavesOf(ps) == {p.n : p \in ps}

Waiting == saving # {} \/ deletes # {} \/ list.pc # "idle"

\* The user acts on these numbers; a list under way will not show it.
Touched(ns) == [list EXCEPT !.calm = @ \ ns]
Hasty(ns) == IF list.pc = "idle" THEN {} ELSE ns

-----------------------------------------------------------------------------
(* The user.                                                               *)

\* An answer is complete.
Answer(i) ==
  /\ answers < MaxShown /\ slot[i].turn = 0
  /\ answers' = answers + 1 /\ slot' = [slot EXCEPT ![i].turn = answers']
  /\ UNCHANGED <<saves, tokens, loads, panel, saving, deletes, list, rows, of, links,
                 read, withdrawn, strayed>>

ClearChat ==
  /\ slot' = [i \in Slots |-> Empty] /\ slot' # slot
  /\ strayed' = strayed \cup SavesOf(saving)
  /\ UNCHANGED <<answers, saves, tokens, loads, panel, saving, deletes, list, rows, of,
                 links, read, withdrawn>>

\* handleSaveAnswer.
Save(i) ==
  /\ saves < MaxSaves /\ slot[i].turn # 0 /\ slot[i].savedId = 0
  /\ saves' = saves + 1
  /\ of' = [of EXCEPT ![saves'] = slot[i].turn]
  /\ panel' = panel \cup {-saves'}
  /\ slot' = [slot EXCEPT ![i].savedId = -saves']
  /\ saving' = saving \cup {[n |-> saves', at |-> i, pc |-> "sent"]}
  /\ list' = Touched({saves'}) /\ strayed' = strayed \cup Hasty({saves'})
  /\ UNCHANGED <<answers, tokens, loads, deletes, rows, links, read, withdrawn>>

Unmarked(ids) ==
  [i \in Slots |-> IF slot[i].savedId \in ids THEN [slot[i] EXCEPT !.savedId = 0] ELSE slot[i]]

\* handleUnsaveAnswer, handleDeleteSavedItem, handleClearSavedAnswers.  Who
\* removes an item that still has the client's id did not wait for the save.
Remove(ids, marks) ==
  /\ ids # {}
  /\ panel' = panel \ ids /\ slot' = Unmarked(marks) /\ deletes' = deletes \cup ids
  /\ list' = Touched(Numbers(ids))
  /\ strayed' = strayed \cup Hasty(Numbers(ids)) \cup Numbers({id \in ids : id < 0})
  /\ UNCHANGED <<answers, saves, tokens, loads, saving, rows, of, links, read, withdrawn>>

Marks == {slot[i].savedId : i \in Slots} \ {0}

\* The page is loaded again: the panel comes from localStorage, replies to
\* earlier requests are not awaited.
Load ==
  /\ loads < MaxLoads /\ loads' = loads + 1
  /\ slot' = [i \in Slots |-> Empty]
  /\ saving' = {[p EXCEPT !.pc = "left"] : p \in {q \in saving : q.pc # "stored"}}
  /\ list' = [pc |-> "asked", rows |-> {},
              calm |-> (1..MaxSaves) \ (SavesOf(saving') \cup Numbers(deletes))]
  /\ strayed' = strayed \cup SavesOf(saving) \cup Numbers(deletes)
  /\ UNCHANGED <<answers, saves, tokens, panel, deletes, rows, of, links, read, withdrawn>>

-----------------------------------------------------------------------------
(* Requests of the page.                                                   *)

\* create_saved_answer.
StoreRow(p) ==
  /\ p.pc \in {"sent", "left"} /\ rows' = rows \cup {p.n}
  /\ saving' = (saving \ {p}) \cup (IF p.pc = "sent" THEN {[p EXCEPT !.pc = "stored"]} ELSE {})
  /\ UNCHANGED <<slot, answers, saves, tokens, loads, panel, deletes, list, of, links,
                 read, withdrawn, strayed>>

\* The insert fails, or its reply is lost: the item stays as it is.
SaveFails(p) ==
  /\ saving' = saving \ {p} /\ strayed' = strayed \cup {p.n}
  /\ UNCHANGED <<slot, answers, saves, tokens, loads, panel, deletes, list, rows, of,
                 links, read, withdrawn>>

Swapped(ids, n) == IF -n \in ids THEN (ids \ {-n}) \cup {n} ELSE ids

\* The reply: whatever is at the position by now is marked saved.
Saved(p) ==
  /\ p.pc = "stored" /\ saving' = saving \ {p}
  /\ panel' = Swapped(panel, p.n)
  /\ slot' = IF slot[p.at].turn = 0 THEN slot ELSE [slot EXCEPT ![p.at].savedId = p.n]
  /\ UNCHANGED <<answers, saves, tokens, loads, deletes, list, rows, of, links, read,
                 withdrawn, strayed>>

LinksOf(ids) == {l \in links : l.saved \in ids}
Tokens(ls) == {l.token : l \in ls}

\* delete_saved_answer; an id of the client's is not found.
Deleted(id) ==
  /\ deletes' = deletes \ {id} /\ rows' = rows \ {id}
  /\ links' = links \ LinksOf({id})
  /\ withdrawn' = withdrawn \cup Tokens(LinksOf({id}))
  /\ UNCHANGED <<slot, answers, saves, tokens, loads, panel, saving, list, of, read, strayed>>

DeleteFails(id) ==
  /\ deletes' = deletes \ {id} /\ strayed' = strayed \cup {Number(id)}
  /\ UNCHANGED <<slot, answers, saves, tokens, loads, panel, saving, list, rows, of, links,
                 read, withdrawn>>

NoList == [pc |-> "idle", rows |-> {}, calm |-> {}]

\* list_saved_answers,
Listed ==
  /\ list.pc = "asked" /\ list' = [list EXCEPT !.pc = "read", !.rows = rows]
  /\ UNCHANGED <<slot, answers, saves, tokens, loads, panel, saving, deletes, rows, of,
                 links, read, withdrawn, strayed>>

\* Mutant of Shown: what the panel has is kept.
ShownBeside ==
  /\ list.pc = "read" /\ panel' = panel \cup list.rows /\ list' = NoList
  /\ strayed' = strayed \ list.calm
  /\ UNCHANGED <<slot, answers, saves, tokens, loads, saving, deletes, rows, of, links,
                 read, withdrawn>>

\* its reply,
Shown ==
  /\ list.pc = "read" /\ panel' = list.rows /\ list' = NoList
  /\ strayed' = strayed \ list.calm
  /\ UNCHANGED <<slot, answers, saves, tokens, loads, saving, deletes, rows, of, links,
                 read, withdrawn>>

\* or none: the panel keeps "the local fallback".
ListFails ==
  /\ list.pc # "idle" /\ list' = NoList
  /\ UNCHANGED <<slot, answers, saves, tokens, loads, panel, saving, deletes, rows, of,
                 links, read, withdrawn, strayed>>

-----------------------------------------------------------------------------
(* Links.                                                                  *)

\* saved_answers_share: any member shares any answer of the workspace.
Share(m, n) ==
  /\ n \in rows /\ tokens < MaxLinks /\ tokens' = tokens + 1
  /\ links' = links \cup {[token |-> tokens', saved |-> n, by |-> m, revoked |-> FALSE]}
  /\ UNCHANGED <<client, loads, deletes, rows, read, withdrawn>>

\* revoke_share_link: its creator only.
Revoke(m, l) ==
  /\ l.by = m /\ links' = (links \ {l}) \cup {[l EXCEPT !.revoked = TRUE]}
  /\ withdrawn' = withdrawn \cup {l.token}
  /\ UNCHANGED <<client, tokens, loads, deletes, rows, read>>

\* shared_answer_public: somebody opens a link,
Open(r, token) ==
  /\ read[r].pc \in {"idle", "served"}
  /\ read' = [read EXCEPT ![r] = [pc |-> "link", token |-> token, saved |-> 0,
                                  late |-> token \in withdrawn]]
  /\ UNCHANGED <<client, tokens, loads, deletes, rows, links, withdrawn>>

Valid(token) == {l \in links : l.token = token /\ ~l.revoked}

\* its row is read,
ReadLink(r) ==
  /\ read[r].pc = "link"
  /\ \E l \in Valid(read[r].token) :
       read' = [read EXCEPT ![r].pc = "answer", ![r].saved = l.saved]
  /\ UNCHANGED <<client, tokens, loads, deletes, rows, links, withdrawn>>

\* and then the answer it shares,
ReadAnswer(r) ==
  /\ read[r].pc = "answer" /\ read[r].saved \in rows
  /\ read' = [read EXCEPT ![r].pc = "served"]
  /\ UNCHANGED <<client, tokens, loads, deletes, rows, links, withdrawn>>

\* unless either is not there or the read fails.
NotFound(r) ==
  /\ read[r].pc \in {"link", "answer"} /\ read' = [read EXCEPT ![r] = NoRead]
  /\ UNCHANGED <<client, tokens, loads, deletes, rows, links, withdrawn>>

SavedNext ==
  \/ ClearChat \/ Load \/ Listed \/ Shown \/ ListFails \/ Remove(panel, Marks)
  \/ \E i \in Slots : Answer(i) \/ Save(i)
  \/ \E id \in panel \cup Marks : Remove({id}, {id})
  \/ \E p \in saving : StoreRow(p) \/ Saved(p) \/ SaveFails(p)
  \/ \E id \in deletes : Deleted(id) \/ DeleteFails(id)
  \/ \E m \in Members : (\E n \in rows : Share(m, n)) \/ \E l \in links : Revoke(m, l)
  \/ \E r \in Readers :
       ReadLink(r) \/ ReadAnswer(r) \/ NotFound(r) \/ \E token \in 1..tokens : Open(r, token)

SavedSpec == SavedInit /\ [][SavedNext]_savedVars

-----------------------------------------------------------------------------
(* Properties.                                                             *)

(* An answer saved once is on the panel once, under the client's id or the *)
(* server's, whatever reply or list comes first.                           *)
OnceOnPanel == \A n \in 1..saves : n \notin panel \/ -n \notin panel

(* What is lost or overtaken stays with its item, until the next load made *)
(* in peace: any other answer is on the panel exactly if its row is there, *)
(* once its requests were answered, and the Save buttons that show it      *)
(* saved are those of the answer it bookmarks.  handleClearSavedAnswers    *)
(* relies on it: "the next backend reconcile will surface anything that's  *)
(* left".                                                                  *)
Reconciles ==
  \A n \in (1..saves) \ strayed :
    /\ n \notin SavesOf(saving) \cup Numbers(deletes) =>
         (n \in panel <=> n \in rows) /\ -n \notin panel
    /\ \A i \in Slots : slot[i].savedId \in {n, -n} => of[n] = slot[i].turn

(* A link that was revoked, or whose answer was deleted, is "not found" to *)
(* whoever opens it afterwards.                                            *)
WithdrawnNotServed == \A r \in Readers : read[r].pc = "served" => ~read[r].late

(* The panel, the marks and the public page follow the rows.               *)
SavedAgree == OnceOnPanel /\ Reconciles /\ WithdrawnNotServed

(* "backend is the source of truth": once every request was answered the   *)
(* panel shows the rows of the server.  handleUnsaveAnswer relies on it    *)
(* when it ignores that an id is not found: "404 just means it was never   *)
(* persisted".                                                             *)
PanelIsBackend == ~Waiting => panel = rows

(* The reply to a save updates "the assistant entry's savedId so the Save  *)
(* button stays in sync": an answer marked as saved is the one bookmarked. *)
MarksAgree ==
  \A i \in Slots : slot[i].savedId # 0 => of[Number(slot[i].savedId)] = slot[i].turn
==============================================================================

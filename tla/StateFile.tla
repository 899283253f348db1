----------------------------- MODULE StateFile ------------------------------
(***************************************************************************)
(* How ingestion_state.json is written (IngestionState.locked, save_locked *)
(* and _save in backend/ingestion/ingestion_state.py): take the advisory   *)
(* lock on the .lock file, load the file, change the copy, write it to the *)
(* one .tmp file all writers share, rename it over the file, unlock.       *)
(*                                                                         *)
(* Writers are the threads and processes of the realtime path, the         *)
(* scheduler and the CLI; flock excludes them all, since each opens the    *)
(* lock file for itself.  The body of locked() and the write may raise, a  *)
(* writer may die anywhere; the kernel then releases its lock.  A read of  *)
(* the file that fails (OSError) is taken for an empty file.  Without      *)
(* fcntl nothing is locked.                                                *)
(***************************************************************************)

CONSTANTS Writers,  \* threads and processes that update the file
          Updates,  \* updates (what one locked section changes)
          NoWriter,
          HasFcntl  \* does the platform have fcntl?

ASSUME WritersAssumption == NoWriter \notin Writers /\ HasFcntl \in BOOLEAN

\* A file cut off in the middle; _load takes it for an empty one.
Torn == {"torn"}
Absent == {"absent"}

VARIABLES file,     \* the updates in ingestion_state.json
          tmp,      \* the .tmp file
          lock,     \* who holds the lock
          pc, mem,  \* per writer: where it is, and its copy
          upd,      \* per writer: its update
          issued,   \* updates begun so far
          blind     \* of these, the ones whose writer could not read the file

fileVars == <<file, tmp, lock, pc, mem, upd, issued, blind>>

ASSUME UpdatesAssumption == "torn" \notin Updates /\ "absent" \notin Updates

FileTypeOK ==
  /\ file \in (SUBSET Updates) \cup {Torn}
  /\ tmp \in (SUBSET Updates) \cup {Torn, Absent}
  /\ lock \in Writers \cup {NoWriter}
  /\ pc \in [Writers -> {"idle", "lock", "load", "open", "write", "replace", "unlock"}]
  /\ mem \in [Writers -> SUBSET Updates]
  /\ upd \in [Writers -> SUBSET Updates]
  /\ issued \in SUBSET Updates
  /\ blind \in SUBSET Updates

FileInit ==
  /\ file = {} /\ tmp = Absent /\ lock = NoWriter
  /\ pc = [w \in Writers |-> "idle"]
  /\ mem = [w \in Writers |-> {}]
  /\ upd = [w \in Writers |-> {}]
  /\ issued = {} /\ blind = {}

Goto(w, label) == pc' = [pc EXCEPT ![w] = label]

BeginUpdate(w) ==
  /\ pc[w] = "idle"
  /\ \E u \in Updates \ issued :
       upd' = [upd EXCEPT ![w] = {u}] /\ issued' = issued \cup {u}
  /\ Goto(w, "lock")
  /\ UNCHANGED <<file, tmp, lock, mem, blind>>

\* flock(LOCK_EX)
Acquire(w) ==
  /\ pc[w] = "lock"
  /\ IF HasFcntl THEN lock = NoWriter /\ lock' = w ELSE UNCHANGED lock
  /\ Goto(w, "load")
  /\ UNCHANGED <<file, tmp, mem, upd, issued, blind>>

\* Mutant of Load: the copy of an earlier section is used again.
LoadCached(w) ==
  /\ pc[w] = "load"
  /\ mem' = [mem EXCEPT ![w] = @ \cup upd[w]]
  /\ Goto(w, "open")
  /\ UNCHANGED <<file, tmp, lock, upd, issued, blind>>

\* A fresh load under the lock, then the body's changes to the copy.
Load(w) ==
  /\ pc[w] = "load"
  /\ mem' = [mem EXCEPT ![w] = (IF file = Torn THEN {} ELSE file) \cup upd[w]]
  /\ Goto(w, "open")
  /\ UNCHANGED <<file, tmp, lock, upd, issued, blind>>

\* The read fails, a file that is all right: _load logs it and leaves the copy empty.
LoadFails(w) ==
  /\ pc[w] = "load"
  /\ mem' = [mem EXCEPT ![w] = upd[w]]
  /\ blind' = blind \cup upd[w]
  /\ Goto(w, "open")
  /\ UNCHANGED <<file, tmp, lock, upd, issued>>

\* open("w") truncates what an earlier writer may have left.
OpenTmp(w) ==
  /\ pc[w] = "open"
  /\ tmp' = Torn
  /\ Goto(w, "write")
  /\ UNCHANGED <<file, lock, mem, upd, issued, blind>>

WriteTmp(w) ==
  /\ pc[w] = "write"
  /\ tmp' = mem[w]
  /\ Goto(w, "replace")
  /\ UNCHANGED <<file, lock, mem, upd, issued, blind>>

\* os.replace; it raises when another writer has moved the file away.
Replace(w) ==
  /\ pc[w] = "replace"
  /\ IF tmp = Absent THEN UNCHANGED <<file, tmp>> ELSE file' = tmp /\ tmp' = Absent
  /\ Goto(w, "unlock")
  /\ UNCHANGED <<lock, mem, upd, issued, blind>>

\* Mutant of Raise: the unlock is not in a finally block.
RaiseKeepsLock(w) ==
  /\ pc[w] \in {"load", "open", "write"}
  /\ Goto(w, "idle")
  /\ UNCHANGED <<file, tmp, lock, mem, upd, issued, blind>>

\* The body, or the write (a full disk), raises: nothing is renamed.
Raise(w) ==
  /\ pc[w] \in {"load", "open", "write"}
  /\ Goto(w, "unlock")
  /\ UNCHANGED <<file, tmp, lock, mem, upd, issued, blind>>

Unlock(w) ==
  /\ pc[w] = "unlock"
  /\ lock' = IF lock = w THEN NoWriter ELSE lock
  /\ Goto(w, "idle")
  /\ UNCHANGED <<file, tmp, mem, upd, issued, blind>>

Crash(w) ==
  /\ pc[w] # "idle"
  /\ lock' = IF lock = w THEN NoWriter ELSE lock
  /\ Goto(w, "idle")
  /\ UNCHANGED <<file, tmp, mem, upd, issued, blind>>

Step(w) ==
  Acquire(w) \/ Load(w) \/ OpenTmp(w) \/ WriteTmp(w) \/ Replace(w) \/ Raise(w) \/ Unlock(w)

FileNext == \E w \in Writers : BeginUpdate(w) \/ Step(w) \/ LoadFails(w) \/ Crash(w)

FileSpec == FileInit /\ [][FileNext]_fileVars

\* A writer that runs goes on. (There are finitely many updates, so a waiter
\* is served when flock keeps serving someone; its order is not assumed.)
FileFairness == \A w \in Writers : WF_fileVars(Step(w))
FileLiveSpec == FileSpec /\ FileFairness

-----------------------------------------------------------------------------
(* Properties.                                                             *)

(* A writer renames the whole file as it was when it took the lock plus    *)
(* its own update, or its update alone if its own read of the file failed: *)
(* never a torn file, and no loss for which it was not the one that could  *)
(* not read.                                                               *)
ReplaceIsComplete ==
  \A w \in Writers :
    pc[w] = "replace" => /\ tmp = mem[w]
                         /\ mem[w] = (IF upd[w] \subseteq blind THEN {} ELSE file) \cup upd[w]

(* Every change of the file is one update applied to all earlier ones, or  *)
(* the fresh start of a writer whose read failed.                          *)
Atomic == INSTANCE AtomicUpdates WITH value <- file
ImplementsAtomicUpdates == Atomic!Spec

(* Not checked by a run, for the code breaks it: save_locked is "Cross-    *)
(* process-safe" and "reloads the state file from disk to incorporate any  *)
(* concurrent writes" (ingestion_state.py:265-269), so an update that      *)
(* reached the file stays in it.  A read that fails loses all of them.     *)
NoLostUpdates == [][file \subseteq file']_fileVars

(* The lock is never kept by a writer that raised or died: everyone who    *)
(* asks for it gets through.                                               *)
WritersFinish == \A w \in Writers : pc[w] = "lock" ~> pc[w] = "idle"
=============================================================================

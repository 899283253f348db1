--------------------------- MODULE AtomicUpdates ----------------------------
(***************************************************************************)
(* What the ingestion state file promises its writers: every update that   *)
(* reaches the file is applied, as one step, to all that reached it        *)
(* before.  The value of the file is the set of updates it contains.  Only *)
(* a writer that could not read the file (its update is blind) may start   *)
(* it over.                                                                *)
(***************************************************************************)
CONSTANT Updates

VARIABLES value, blind

Init == value = {} /\ blind = {}

Fresh(u) == u \notin value \cup blind

Apply(u) == Fresh(u) /\ value' = value \cup {u} /\ UNCHANGED blind

FailedRead(u) == Fresh(u) /\ blind' = blind \cup {u} /\ UNCHANGED value

StartOver(u) == u \in blind \ value /\ value' = {u} /\ UNCHANGED blind

Next == \E u \in Updates : Apply(u) \/ FailedRead(u) \/ StartOver(u)

Spec == Init /\ [][Next]_<<value, blind>>
=============================================================================

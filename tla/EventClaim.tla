----------------------------- MODULE EventClaim -----------------------------
(***************************************************************************)
(* What the webhook promises about a Slack event that is delivered several *)
(* times to several worker processes: it is handed to the realtime handler *)
(* at most once, and the handler runs at most once for each hand-over (a   *)
(* worker that dies in between runs it not at all).                        *)
(***************************************************************************)
EXTENDS Naturals

CONSTANT Events

VARIABLES handed,  \* how often each event was given to the handler
          runs     \* how often the handler ran for it

TypeOK == handed \in [Events -> 0 .. 1] /\ runs \in [Events -> 0 .. 1]

Init == handed = [e \in Events |-> 0] /\ runs = [e \in Events |-> 0]

Hand(e) ==
  /\ handed[e] = 0
  /\ handed' = [handed EXCEPT ![e] = 1]
  /\ UNCHANGED runs

Run(e) ==
  /\ runs[e] < handed[e]
  /\ runs' = [runs EXCEPT ![e] = @ + 1]
  /\ UNCHANGED handed

Next == \E e \in Events : Hand(e) \/ Run(e)

Spec == Init /\ [][Next]_<<handed, runs>>
=============================================================================

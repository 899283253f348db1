-------------------------- MODULE MCConnectorsProofs --------------------------
(***************************************************************************)
(* The connectors side by side: each part's step keeps its own invariant,   *)
(* and the other parts' invariants because their variables do not change.   *)
(***************************************************************************)
EXTENDS MCConnectors, ConnectorProofs, SyncProofs

PartsInv == TypeOK /\ CInv /\ SInv /\ GInv /\ FInv

LEMMA PartsInit == ConnectorsInit => PartsInv
<1>1. Init => TypeOK
  BY InitDInv DEF DInv
<1> QED BY <1>1, CInvInit, SInvInit, GInvInit, FInvInit DEF ConnectorsInit, PartsInv

LEMMA PartsImplyTypes == PartsInv => Types
<1>1. CInv => ConnectionTypeOK
  BY DEF CInv
<1>2. SInv => SelectionTypeOK
  BY DEF SInv
<1>3. GInv => GmailTypeOK
  BY DEF GInv
<1>4. FInv => SchedulerTypeOK
  BY DEF FInv
<1> QED BY <1>1, <1>2, <1>3, <1>4 DEF PartsInv, Types

\* What a step of the composition is for each part: a step of its own or
\* none.
LEMMA PartsStep ==
  ASSUME [ConnectorsNext]_<<part, vars, connectionVars, selectionVars, tokenVars, gmailVars,
                            schedulerVars>>
  PROVE  /\ [Next]_vars
         /\ [ConnectionNext]_connectionVars
         /\ [SelectionNext]_selectionVars
         /\ [GmailNext]_gmailVars
         /\ [SchedulerNext]_schedulerVars
<1>1. CASE ConnectorsNext
  BY <1>1, Zenon DEF ConnectorsNext
<1>2. CASE UNCHANGED <<part, vars, connectionVars, selectionVars, tokenVars, gmailVars,
                       schedulerVars>>
  BY <1>2, Zenon
<1> QED BY <1>1, <1>2

(* Every part keeps its types, whichever of them moves, for any workers,   *)
(* callers, savers, runs and jobs.                                         *)
THEOREM ConnectorsTypeCorrect == ConnectorsSpec => []Types
<1>1. ASSUME PartsInv,
             [ConnectorsNext]_<<part, vars, connectionVars, selectionVars, tokenVars, gmailVars,
                                schedulerVars>>
      PROVE  PartsInv'
  <2>1. TypeOK'
    BY <1>1, PartsStep, TypeStep, Zenon DEF PartsInv
  <2>2. CInv'
    BY <1>1, PartsStep, CInvNext, Zenon DEF PartsInv
  <2>3. SInv'
    BY <1>1, PartsStep, SInvNext, Zenon DEF PartsInv
  <2>4. GInv'
    BY <1>1, PartsStep, GInvStep, Zenon DEF PartsInv
  <2>5. FInv'
    BY <1>1, PartsStep, FInvStep, Zenon DEF PartsInv
  <2> QED BY <2>1, <2>2, <2>3, <2>4, <2>5, Zenon DEF PartsInv
<1> QED BY <1>1, PartsInit, PartsImplyTypes, PTL DEF ConnectorsSpec
==============================================================================

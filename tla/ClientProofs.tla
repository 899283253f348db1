---------------------------- MODULE ClientProofs ----------------------------
(***************************************************************************)
(* Theorems about the web client: saved answers and share links, the label  *)
(* picker, the channel picker and the chat page.                            *)
(***************************************************************************)
EXTENDS ChatClient, SavedAnswers, LabelPicker, ChannelPicker, TLAPS

-----------------------------------------------------------------------------
(* SavedAnswers, for any answers, members and links.                       *)

Saving == [n : 1..MaxSaves, at : Slots, pc : {"sent", "left", "stored"}]
Link   == [token : Nat, saved : Nat, by : Members, revoked : BOOLEAN]
Reads  == [pc : {"idle", "link", "answer", "served"}, token : Nat, saved : Nat, late : BOOLEAN]

SlotTypes == slot \in [Slots -> [turn : Nat, savedId : Int]]
ListTypes == list \in [pc : {"idle", "asked", "read"}, rows : SUBSET Nat, calm : SUBSET Nat]

PageTypes ==
  /\ answers \in Nat /\ saves \in 0..MaxSaves /\ tokens \in Nat /\ loads \in Nat
  /\ panel \in SUBSET Int /\ saving \in SUBSET Saving /\ deletes \in SUBSET Int
  /\ rows \in SUBSET (1..saves) /\ of \in [1..MaxSaves -> Nat]

LinkTypes ==
  /\ links \in SUBSET Link /\ read \in [Readers -> Reads] /\ withdrawn \in SUBSET (1..tokens)

\* Numbers are given in order, to one save each.
NumbersGiven ==
  /\ \A id \in panel \cup deletes : id <= saves /\ -id <= saves
  /\ list.rows \subseteq 1..saves
  /\ \A p \in saving : p.n <= saves
  /\ \A p, q \in saving : p.n = q.n => p = q
  /\ \A i \in Slots : /\ slot[i].savedId <= saves /\ -slot[i].savedId <= saves
                      /\ slot[i].savedId # 0 => slot[i].turn # 0

\* An answer whose save, list and deletes nothing has come between.
OnItsWay(n, p) ==
  /\ p.pc # "left" /\ n \notin deletes /\ n \notin panel /\ -n \in panel
  /\ n \in rows <=> p.pc = "stored"
  /\ slot[p.at].turn = of[n] /\ slot[p.at].turn # 0
  /\ \A i \in Slots : slot[i].savedId # n

Arrived(n) == -n \notin panel /\ (n \in panel <=> n \in rows /\ n \notin deletes)

PlainOK(n) ==
  /\ -n \notin deletes
  /\ \A p \in saving : p.n = n => OnItsWay(n, p)
  /\ (\A p \in saving : p.n # n) => Arrived(n)
  /\ \A i \in Slots : slot[i].savedId \in {n, -n} => of[n] = slot[i].turn

\* A number nothing has happened to since the list was asked for.
CalmOK(n) ==
  /\ n \notin deletes /\ -n \notin deletes
  /\ \A p \in saving : p.n # n
  /\ \A i \in Slots : slot[i].savedId \notin {n, -n}
  /\ list.pc = "read" => (n \in list.rows <=> n \in rows)

Peace ==
  /\ list.pc # "idle" => \A n \in 1..saves : n \in list.calm \/ n \in strayed
  /\ \A n \in 1..saves : n \in list.calm => CalmOK(n)
  /\ \A n \in 1..saves : n \notin strayed => PlainOK(n)

PageInv == SlotTypes /\ ListTypes /\ PageTypes /\ NumbersGiven /\ OnceOnPanel /\ Peace

\* Tokens are of one link each; who comes late finds none that is valid.
LinksFollow ==
  /\ \A l \in links : l.token \in 1..tokens
  /\ \A k, l \in links : k.token = l.token => k = l
  /\ \A l \in links : l.token \in withdrawn => l.revoked
  /\ \A r \in Readers : read[r].late => read[r].pc = "link" /\ read[r].token \in withdrawn

AInv == PageInv /\ LinkTypes /\ LinksFollow
-----------------------------------------------------------------------------
(* The panel and its marks.                                                *)

LEMMA AInvInit == SavedInit => AInv
<1> SUFFICES ASSUME SavedInit PROVE AInv
  OBVIOUS
<1> USE SavedAssumption
<1>1. SlotTypes /\ ListTypes /\ PageTypes /\ LinkTypes
  BY DEF SavedInit, Empty, NoRead, SlotTypes, ListTypes, PageTypes, LinkTypes, Reads
<1>2. NumbersGiven /\ OnceOnPanel /\ Peace /\ LinksFollow
  BY DEF SavedInit, Empty, NoRead, NumbersGiven, OnceOnPanel, Peace, LinksFollow
<1> QED BY <1>1, <1>2 DEF AInv, PageInv

LEMMA NumbersIn ==
  ASSUME NEW ids \in SUBSET Int, NEW n \in Nat
  PROVE  n \in Numbers(ids) <=> n \in ids \/ -n \in ids
<1>1. \A id \in ids : Number(id) = n <=> id = n \/ id = -n
  BY DEF Number
<1>2. n \in Numbers(ids) <=> \E id \in ids : Number(id) = n
  BY DEF Numbers
<1> QED BY <1>1, <1>2

LEMMA SavesIn == \A ps, n : n \in SavesOf(ps) <=> \E p \in ps : p.n = n
BY DEF SavesOf

\* Of the links.
LinksStay == UNCHANGED <<links, read, withdrawn, tokens>>

LEMMA LinksQuiet == ASSUME AInv, LinksStay, PageInv' PROVE AInv'
BY DEF AInv, LinkTypes, LinksFollow, LinksStay

LEMMA AnswerKeeps == ASSUME AInv, NEW i \in Slots, Answer(i) PROVE AInv'
<1>1. /\ slot[i].turn = 0 /\ answers' \in Nat /\ LinksStay
      /\ UNCHANGED <<saves, tokens, loads, panel, saving, deletes, list, rows, of, strayed>>
  BY DEF AInv, PageInv, PageTypes, Answer, LinksStay
<1>2. /\ slot' \in [Slots -> [turn : Nat, savedId : Int]]
      /\ \A j \in Slots : slot'[j].savedId = slot[j].savedId /\ (j # i => slot'[j] = slot[j])
  BY DEF AInv, PageInv, SlotTypes, PageTypes, Answer
<1>3. slot[i].savedId = 0
  BY <1>1 DEF AInv, PageInv, NumbersGiven
<1>4. SlotTypes' /\ ListTypes' /\ PageTypes' /\ NumbersGiven' /\ OnceOnPanel'
  <2>1. SlotTypes' /\ ListTypes' /\ PageTypes'
    BY <1>1, <1>2 DEF AInv, PageInv, SlotTypes, ListTypes, PageTypes
  <2>2. NumbersGiven' /\ OnceOnPanel'
    BY <1>1, <1>2, <1>3 DEF AInv, PageInv, NumbersGiven, OnceOnPanel
  <2> QED BY <2>1, <2>2
<1>5. ASSUME NEW n \in 1..saves, n \notin strayed PROVE PlainOK(n)'
  <2>1. PlainOK(n) /\ n # 0 /\ -n # 0
    BY <1>5 DEF AInv, PageInv, Peace, PageTypes
  <2>2. \A p \in saving : p.n = n => p.at \in Slots /\ p.at # i
    BY <1>1, <2>1 DEF PlainOK, OnItsWay, AInv, PageInv, PageTypes, Saving
  <2> QED BY <1>1, <1>2, <1>3, <2>1, <2>2 DEF PlainOK, OnItsWay, Arrived
<1>6. Peace'
  BY <1>1, <1>2, <1>5 DEF AInv, PageInv, Peace, CalmOK
<1> QED BY <1>1, <1>4, <1>6, LinksQuiet DEF AInv, PageInv

LEMMA ClearKeeps == ASSUME AInv, ClearChat PROVE AInv'
<1>1. /\ slot' = [i \in Slots |-> Empty] /\ strayed' = strayed \cup SavesOf(saving) /\ LinksStay
      /\ UNCHANGED <<answers, saves, tokens, loads, panel, saving, deletes, list, rows, of>>
  BY DEF ClearChat, LinksStay
<1>2. /\ \A i \in Slots : slot'[i].savedId = 0 /\ slot'[i].turn = 0
      /\ slot' \in [Slots -> [turn : Nat, savedId : Int]]
  BY <1>1 DEF Empty
<1>3. SlotTypes' /\ ListTypes' /\ PageTypes'
  BY <1>1, <1>2 DEF AInv, PageInv, SlotTypes, ListTypes, PageTypes
<1>4. NumbersGiven' /\ OnceOnPanel'
  BY <1>1, <1>2 DEF AInv, PageInv, NumbersGiven, OnceOnPanel, PageTypes
<1>5. ASSUME NEW n \in 1..saves, n \notin strayed' PROVE PlainOK(n)'
  <2>1. PlainOK(n) /\ (\A p \in saving : p.n # n) /\ n # 0 /\ -n # 0
    BY <1>1, <1>5, SavesIn DEF AInv, PageInv, Peace, PageTypes
  <2> QED BY <1>1, <1>2, <2>1 DEF PlainOK, Arrived
<1>6. ASSUME NEW n \in 1..saves, n \in list.calm PROVE CalmOK(n)'
  <2>1. n # 0 /\ -n # 0 /\ CalmOK(n)
    BY <1>6 DEF AInv, PageInv, Peace, PageTypes
  <2> QED BY <1>1, <1>2, <2>1 DEF CalmOK
<1>7. Peace'
  BY <1>1, <1>5, <1>6 DEF AInv, PageInv, Peace
<1> QED BY <1>1, <1>3, <1>4, <1>7, LinksQuiet DEF AInv, PageInv

\* What a number is does not change when others are saved, removed or asked for.
LEMMA SaveAnswerKeeps == ASSUME AInv, NEW i \in Slots, Save(i) PROVE AInv'
<1> USE SavedAssumption
<1>0. PICK k \in Nat : k = saves + 1
  BY DEF AInv, PageInv, PageTypes
<1>00. PICK new : new = [n |-> k, at |-> i, pc |-> "sent"]
  OBVIOUS
<1>1. /\ saves' = k /\ k \in 1..MaxSaves /\ saving' = saving \cup {new} /\ panel' = panel \cup {-k}
      /\ of' = [of EXCEPT ![k] = slot[i].turn] /\ slot[i].turn # 0 /\ slot[i].savedId = 0
      /\ list' = [list EXCEPT !.calm = @ \ {k}]
      /\ strayed' = strayed \cup (IF list.pc = "idle" THEN {} ELSE {k})
      /\ LinksStay /\ UNCHANGED <<answers, tokens, loads, deletes, rows>>
  BY <1>0, <1>00 DEF AInv, PageInv, PageTypes, Save, Touched, Hasty, LinksStay
<1>2. /\ slot' \in [Slots -> [turn : Nat, savedId : Int]]
      /\ \A j \in Slots : /\ slot'[j].turn = slot[j].turn
                          /\ slot'[j].savedId = IF j = i THEN -k ELSE slot[j].savedId
  <2>1. slot' = [slot EXCEPT ![i].savedId = -k]
    BY <1>1 DEF Save
  <2>2. -k \in Int /\ \A j \in Slots : slot[j] \in [turn : Nat, savedId : Int]
    BY <1>1 DEF AInv, PageInv, SlotTypes
  <2> QED BY <2>1, <2>2 DEF AInv, PageInv, SlotTypes
<1>3. /\ list' \in [pc : {"idle", "asked", "read"}, rows : SUBSET Nat, calm : SUBSET Nat]
      /\ list'.pc = list.pc /\ list'.rows = list.rows /\ list'.calm = list.calm \ {k}
  BY <1>1 DEF AInv, PageInv, ListTypes
<1>3a. new \in Saving /\ new.n = k /\ new.at = i /\ new.pc = "sent"
  BY <1>1, <1>00 DEF Saving
<1>4. SlotTypes' /\ ListTypes' /\ PageTypes'
  <2>1. saving' \in SUBSET Saving /\ panel' \in SUBSET Int /\ of' \in [1..MaxSaves -> Nat]
        /\ rows' \in SUBSET (1..saves') /\ saves' \in 0..MaxSaves
    BY <1>0, <1>1, <1>3a DEF AInv, PageInv, PageTypes, SlotTypes
  <2> QED BY <1>1, <1>2, <1>3, <2>1 DEF AInv, PageInv, SlotTypes, ListTypes, PageTypes
<1>5. NumbersGiven'
  <2>1. /\ \A id \in panel' \cup deletes' : id <= saves' /\ -id <= saves'
        /\ list'.rows \subseteq 1..saves'
    BY <1>0, <1>1, <1>3 DEF AInv, PageInv, NumbersGiven, PageTypes
  <2>2. /\ \A p \in saving' : p.n <= saves'
        /\ \A p, q \in saving' : p.n = q.n => p = q
    BY <1>0, <1>1, <1>3a DEF AInv, PageInv, NumbersGiven, PageTypes, Saving
  <2>3. ASSUME NEW j \in Slots
        PROVE  /\ slot'[j].savedId <= saves' /\ -slot'[j].savedId <= saves'
               /\ slot'[j].savedId # 0 => slot'[j].turn # 0
    <3>1. /\ slot[j].savedId <= saves /\ -slot[j].savedId <= saves
          /\ slot[j].savedId # 0 => slot[j].turn # 0
          /\ slot[j].savedId \in Int /\ saves \in Nat
      BY DEF AInv, PageInv, NumbersGiven, SlotTypes, PageTypes
    <3>2. CASE j = i
      BY <1>0, <1>1, <1>2, <3>1, <3>2
    <3>3. CASE j # i
      BY <1>0, <1>1, <1>2, <3>1, <3>3
    <3> QED BY <3>2, <3>3
  <2> QED BY <2>1, <2>2, <2>3 DEF NumbersGiven
<1>6. OnceOnPanel'
  <2>1. k \notin panel
    BY <1>0, <1>1 DEF AInv, PageInv, NumbersGiven, PageTypes
  <2>2. ASSUME NEW n \in 1..saves' PROVE n \notin panel' \/ -n \notin panel'
    <3>1. n \in Nat /\ n # 0 /\ n # -k /\ (n = k \/ (n \in 1..saves /\ -n # -k))
      BY <1>0, <1>1, <2>2 DEF AInv, PageInv, PageTypes
    <3> QED BY <1>1, <2>1, <3>1 DEF AInv, PageInv, OnceOnPanel
  <2> QED BY <2>2 DEF OnceOnPanel
<1>7. ASSUME NEW n \in 1..saves, n \notin strayed' PROVE PlainOK(n)'
  <2>1. /\ PlainOK(n) /\ n # k /\ -n # -k /\ n # -k /\ -n # k
        /\ of'[n] = of[n] /\ UNCHANGED <<rows, deletes>>
    BY <1>0, <1>1, <1>7 DEF AInv, PageInv, Peace, PageTypes
  <2>2. (n \in panel' <=> n \in panel) /\ (-n \in panel' <=> -n \in panel)
    BY <1>1, <2>1
  <2>3. \A p \in saving' : p.n = n => p \in saving /\ p.at \in Slots
    BY <1>0, <1>1, <1>3a, <2>1 DEF AInv, PageInv, PageTypes, Saving
  <2>4. \A p \in saving' : p.n = n => OnItsWay(n, p)'
    BY <1>2, <2>1, <2>2, <2>3 DEF PlainOK, OnItsWay
  <2> QED BY <1>1, <1>2, <2>1, <2>2, <2>4 DEF PlainOK, Arrived
<1>8. k \notin strayed' => PlainOK(k)'
  <2>0. of'[k] = slot[i].turn /\ k \notin rows /\ k \notin deletes /\ -k \notin deletes /\ k # -k
    BY <1>0, <1>1 DEF AInv, PageInv, PageTypes, NumbersGiven
  <2>1. k \notin panel' /\ -k \in panel' /\ \A j \in Slots : slot'[j].savedId # k
    <3>1. k \notin panel /\ \A j \in Slots : slot[j].savedId # k
      BY <1>0, <1>1 DEF AInv, PageInv, NumbersGiven, PageTypes
    <3> QED BY <1>1, <1>2, <2>0, <3>1
  <2>2. \A p \in saving' : p.n = k => p = new
    BY <1>0, <1>1, <1>3a DEF AInv, PageInv, NumbersGiven, PageTypes, Saving
  <2>3. OnItsWay(k, new)'
    BY <1>0, <1>1, <1>2, <1>3a, <2>0, <2>1 DEF OnItsWay
  <2>4. \A j \in Slots : slot'[j].savedId \in {k, -k} => j = i
    <3>1. \A j \in Slots : slot[j].savedId # -k
      BY <1>0, <1>1 DEF AInv, PageInv, NumbersGiven, SlotTypes, PageTypes
    <3> QED BY <1>2, <2>1, <3>1
  <2> QED BY <1>0, <1>1, <1>2, <1>3a, <2>0, <2>2, <2>3, <2>4 DEF PlainOK
<1>9. ASSUME NEW n \in 1..saves, n \in list'.calm PROVE CalmOK(n)'
  <2>1. CalmOK(n) /\ n # k /\ -n # -k /\ n # -k /\ -n # k
    BY <1>0, <1>1, <1>3, <1>9 DEF AInv, PageInv, Peace, PageTypes
  <2> QED BY <1>1, <1>2, <1>3, <1>3a, <2>1 DEF CalmOK
<1>10. Peace'
  <2>1. \A n \in 1..saves' : n \in 1..saves \/ n = k
    BY <1>0, <1>1 DEF AInv, PageInv, PageTypes
  <2> QED BY <1>1, <1>3, <1>7, <1>8, <1>9, <2>1 DEF AInv, PageInv, Peace
<1> QED BY <1>1, <1>4, <1>5, <1>6, <1>10, LinksQuiet DEF AInv, PageInv

LEMMA UnsaveKeeps ==
  ASSUME AInv, NEW ids \in SUBSET (panel \cup Marks), NEW marks, Remove(ids, marks)
  PROVE  AInv'
<1>0. ids \in SUBSET Int /\ \A id \in ids : id <= saves /\ -id <= saves
  <2>1. \A i \in Slots : /\ slot[i].savedId \in Int
                         /\ slot[i].savedId <= saves /\ -slot[i].savedId <= saves
    BY DEF AInv, PageInv, SlotTypes, NumbersGiven
  <2>2. \A id \in Marks : id \in Int /\ id <= saves /\ -id <= saves
    BY <2>1 DEF Marks
  <2>3. \A id \in panel : id \in Int /\ id <= saves /\ -id <= saves
    BY DEF AInv, PageInv, PageTypes, NumbersGiven
  <2> QED BY <2>2, <2>3
<1>1. /\ panel' = panel \ ids /\ slot' = Unmarked(marks) /\ deletes' = deletes \cup ids
      /\ list' = [list EXCEPT !.calm = @ \ Numbers(ids)]
      /\ strayed' = strayed \cup (IF list.pc = "idle" THEN {} ELSE Numbers(ids))
                            \cup Numbers({id \in ids : id < 0})
      /\ LinksStay /\ UNCHANGED <<answers, saves, tokens, loads, saving, rows, of>>
  BY DEF Remove, Touched, Hasty, LinksStay
<1>2. /\ slot' \in [Slots -> [turn : Nat, savedId : Int]]
      /\ \A j \in Slots : /\ slot'[j].turn = slot[j].turn
                          /\ slot'[j].savedId \in {slot[j].savedId, 0}
  <2>1. \A j \in Slots : /\ slot[j] \in [turn : Nat, savedId : Int]
                         /\ [slot[j] EXCEPT !.savedId = 0] \in [turn : Nat, savedId : Int]
    BY DEF AInv, PageInv, SlotTypes
  <2> QED BY <1>1, <2>1 DEF Unmarked
<1>3. /\ list' \in [pc : {"idle", "asked", "read"}, rows : SUBSET Nat, calm : SUBSET Nat]
      /\ list'.pc = list.pc /\ list'.rows = list.rows /\ list'.calm = list.calm \ Numbers(ids)
  BY <1>1 DEF AInv, PageInv, ListTypes
<1>4. SlotTypes' /\ ListTypes' /\ PageTypes'
  BY <1>0, <1>1, <1>2, <1>3 DEF AInv, PageInv, SlotTypes, ListTypes, PageTypes
<1>5. NumbersGiven' /\ OnceOnPanel'
  <2>1. NumbersGiven'
    <3>1. /\ \A id \in panel' \cup deletes' : id <= saves /\ -id <= saves
          /\ list'.rows \subseteq 1..saves
      BY <1>0, <1>1, <1>3 DEF AInv, PageInv, NumbersGiven
    <3>2. ASSUME NEW j \in Slots
          PROVE  /\ slot'[j].savedId <= saves /\ -slot'[j].savedId <= saves
                 /\ slot'[j].savedId # 0 => slot'[j].turn # 0
      <4>1. -0 <= saves /\ 0 <= saves
        BY DEF AInv, PageInv, PageTypes
      <4> QED BY <1>2, <4>1 DEF AInv, PageInv, NumbersGiven
    <3> QED BY <1>1, <3>1, <3>2 DEF AInv, PageInv, NumbersGiven
  <2> QED BY <1>1, <2>1 DEF AInv, PageInv, OnceOnPanel
<1>6. ASSUME NEW n \in 1..saves
      PROVE  /\ n \in Nat /\ n # 0 /\ -n # 0 /\ n # -n
             /\ n \in Numbers(ids) <=> n \in ids \/ -n \in ids
             /\ -n \in ids => n \in strayed'
  <2>1. n \in Nat /\ n # 0 /\ -n # 0 /\ n # -n /\ -n < 0
    BY DEF AInv, PageInv, PageTypes
  <2> QED BY <1>0, <1>1, <2>1, NumbersIn
<1>7. ASSUME NEW n \in 1..saves, n \notin strayed' PROVE PlainOK(n)'
  <2>1. PlainOK(n) /\ -n \notin ids
    BY <1>1, <1>6, <1>7 DEF AInv, PageInv, Peace
  <2>2. \A j \in Slots : slot'[j].savedId \in {n, -n} => of[n] = slot'[j].turn
    BY <1>2, <1>6, <2>1 DEF PlainOK
  <2>3. ASSUME NEW p \in saving, p.n = n PROVE OnItsWay(n, p)'
    <3>1. OnItsWay(n, p) /\ p.at \in Slots
      BY <2>1, <2>3 DEF PlainOK, AInv, PageInv, PageTypes, Saving
    <3>2. n \notin ids
      BY <3>1 DEF OnItsWay, Marks
    <3> QED BY <1>1, <1>2, <1>6, <2>1, <3>1, <3>2 DEF OnItsWay
  <2>4. (\A p \in saving : p.n # n) => Arrived(n)'
    BY <1>1, <2>1 DEF PlainOK, Arrived
  <2> QED BY <1>1, <2>1, <2>2, <2>3, <2>4 DEF PlainOK
<1>8. ASSUME NEW n \in 1..saves, n \in list'.calm PROVE CalmOK(n)'
  BY <1>1, <1>2, <1>3, <1>6, <1>8 DEF AInv, PageInv, Peace, CalmOK
<1>9. Peace'
  BY <1>1, <1>3, <1>6, <1>7, <1>8 DEF AInv, PageInv, Peace
<1> QED BY <1>1, <1>4, <1>5, <1>9, LinksQuiet DEF AInv, PageInv

LEMMA LoadKeeps == ASSUME AInv, Load PROVE AInv'
<1> DEFINE left == {q \in saving : q.pc # "stored"}
<1>1. /\ slot' = [i \in Slots |-> Empty] /\ LinksStay
      /\ saving' = {[p EXCEPT !.pc = "left"] : p \in left}
      /\ list' = [pc |-> "asked", rows |-> {},
                  calm |-> (1..MaxSaves) \ (SavesOf(saving') \cup Numbers(deletes))]
      /\ strayed' = strayed \cup SavesOf(saving) \cup Numbers(deletes)
      /\ UNCHANGED <<answers, saves, tokens, panel, deletes, rows, of>> /\ loads' = loads + 1
  BY DEF Load, LinksStay
<1>2. /\ \A i \in Slots : slot'[i].savedId = 0 /\ slot'[i].turn = 0
      /\ slot' \in [Slots -> [turn : Nat, savedId : Int]]
  BY <1>1 DEF Empty
<1>3. \A q \in saving' : q \in Saving /\ q.pc = "left" /\ \E p \in left : q.n = p.n
                         /\ q = [p EXCEPT !.pc = "left"]
  <2>1. \A p \in left : /\ [p EXCEPT !.pc = "left"] \in Saving
                        /\ [p EXCEPT !.pc = "left"].n = p.n
                        /\ [p EXCEPT !.pc = "left"].pc = "left"
    BY DEF AInv, PageInv, PageTypes, Saving
  <2> QED BY <1>1, <2>1
<1>4. SlotTypes' /\ ListTypes' /\ PageTypes'
  <2>1. ListTypes'
    BY <1>1, SavedAssumption DEF ListTypes
  <2>2. PageTypes'
    <3>1. saving' \in SUBSET Saving
      BY <1>3
    <3> QED BY <1>1, <3>1 DEF AInv, PageInv, PageTypes
  <2> QED BY <1>1, <1>2, <2>1, <2>2 DEF SlotTypes
<1>5. NumbersGiven' /\ OnceOnPanel'
  <2>1. /\ \A p \in saving' : p.n <= saves
        /\ \A p, q \in saving' : p.n = q.n => p = q
    BY <1>3 DEF AInv, PageInv, NumbersGiven
  <2>2. NumbersGiven'
    BY <1>1, <1>2, <2>1 DEF AInv, PageInv, NumbersGiven, PageTypes
  <2> QED BY <1>1, <2>2 DEF AInv, PageInv, OnceOnPanel
<1>6. ASSUME NEW n \in 1..saves
      PROVE  /\ n \in 1..MaxSaves /\ n \in Nat /\ n # 0 /\ -n # 0
             /\ n \in Numbers(deletes) <=> n \in deletes \/ -n \in deletes
  <2>1. n \in 1..MaxSaves /\ n \in Nat /\ n # 0 /\ -n # 0 /\ deletes \in SUBSET Int
    BY SavedAssumption DEF AInv, PageInv, PageTypes
  <2> QED BY <2>1, NumbersIn
<1>7. \A p \in saving' : \E q \in saving : q.n = p.n
  BY <1>3
<1>8. ASSUME NEW n \in 1..saves, n \notin strayed' PROVE PlainOK(n)'
  <2>1. PlainOK(n) /\ \A p \in saving \cup saving' : p.n # n
    BY <1>1, <1>7, <1>8, SavesIn DEF AInv, PageInv, Peace
  <2> QED BY <1>1, <1>2, <1>6, <2>1 DEF PlainOK, Arrived
<1>9. ASSUME NEW n \in 1..saves
      PROVE  (n \in list'.calm \/ n \in strayed') /\ (n \in list'.calm => CalmOK(n)')
  <2>1. CASE n \in SavesOf(saving') \cup Numbers(deletes)
    <3>1. n \in strayed'
      BY <1>1, <1>7, <2>1, SavesIn
    <3> QED BY <1>1, <2>1, <3>1
  <2>2. CASE n \notin SavesOf(saving') \cup Numbers(deletes)
    <3>1. n \in list'.calm
      BY <1>1, <1>6, <2>2
    <3>2. CalmOK(n)'
      BY <1>1, <1>2, <1>6, <2>2, SavesIn DEF CalmOK
    <3> QED BY <3>1, <3>2
  <2> QED BY <2>1, <2>2
<1>10. Peace'
  BY <1>1, <1>8, <1>9 DEF Peace
<1> QED BY <1>1, <1>4, <1>5, <1>10, LinksQuiet DEF AInv, PageInv

LEMMA StoreKeeps == ASSUME AInv, NEW p \in saving, StoreRow(p) PROVE AInv'
<1> DEFINE new == [p EXCEPT !.pc = "stored"]
<1>1. /\ p \in Saving /\ p.pc \in {"sent", "left"} /\ rows' = rows \cup {p.n}
      /\ saving' = (saving \ {p}) \cup (IF p.pc = "sent" THEN {new} ELSE {})
      /\ LinksStay /\ UNCHANGED <<slot, answers, saves, tokens, loads, panel, deletes, list, of, strayed>>
      /\ p.n \in 1..saves
  BY DEF AInv, PageInv, PageTypes, NumbersGiven, StoreRow, LinksStay, Saving
<1>2. new \in Saving /\ new.n = p.n /\ new.at = p.at /\ new.pc = "stored"
  BY <1>1 DEF Saving
<1> HIDE DEF new
<1>3. \A q \in saving : q.n = p.n => q = p
  BY DEF AInv, PageInv, NumbersGiven
<1>4. SlotTypes' /\ ListTypes' /\ PageTypes' /\ OnceOnPanel'
  <2>1. saving' \in SUBSET Saving /\ rows' \in SUBSET (1..saves)
    BY <1>1, <1>2 DEF AInv, PageInv, PageTypes
  <2> QED BY <1>1, <2>1 DEF AInv, PageInv, SlotTypes, ListTypes, PageTypes, OnceOnPanel
<1>5. NumbersGiven'
  <2>1. /\ \A q \in saving' : q.n <= saves
        /\ \A q, r \in saving' : q.n = r.n => q = r
    BY <1>1, <1>2, <1>3 DEF AInv, PageInv, NumbersGiven, PageTypes
  <2> QED BY <1>1, <2>1 DEF AInv, PageInv, NumbersGiven
<1>6. ASSUME NEW n \in 1..saves, n \notin strayed PROVE PlainOK(n)'
  <2>1. PlainOK(n)
    BY <1>6 DEF AInv, PageInv, Peace
  <2>2. CASE n # p.n
    <3>1. \A q : q.n = n => (q \in saving' <=> q \in saving)
      BY <1>1, <1>2, <2>2
    <3> QED BY <1>1, <2>1, <2>2, <3>1 DEF PlainOK, OnItsWay, Arrived
  <2>3. CASE n = p.n
    <3>1. OnItsWay(n, p)
      BY <2>1, <2>3 DEF PlainOK
    <3>2. p.pc = "sent" /\ new \in saving' /\ \A q \in saving' : q.n = n => q = new
      BY <1>1, <1>2, <1>3, <2>3, <3>1 DEF OnItsWay
    <3>3. OnItsWay(n, new)'
      BY <1>1, <1>2, <2>3, <3>1 DEF OnItsWay
    <3> QED BY <1>1, <1>2, <2>1, <2>3, <3>2, <3>3 DEF PlainOK
  <2> QED BY <2>2, <2>3
<1>7. ASSUME NEW n \in 1..saves, n \in list.calm PROVE CalmOK(n)'
  <2>1. CalmOK(n) /\ n # p.n
    BY <1>7 DEF AInv, PageInv, Peace, CalmOK
  <2> QED BY <1>1, <1>2, <2>1 DEF CalmOK
<1>8. Peace'
  BY <1>1, <1>6, <1>7 DEF AInv, PageInv, Peace
<1> QED BY <1>1, <1>4, <1>5, <1>8, LinksQuiet DEF AInv, PageInv

\* A save that is no longer under way, of a number that is not plain.
LEMMA SaveFailsKeeps == ASSUME AInv, NEW p \in saving, SaveFails(p) PROVE AInv'
<1>1. /\ saving' = saving \ {p} /\ strayed' = strayed \cup {p.n} /\ LinksStay
      /\ UNCHANGED <<slot, answers, saves, tokens, loads, panel, deletes, list, rows, of>>
  BY DEF SaveFails, LinksStay
<1>2. SlotTypes' /\ ListTypes' /\ PageTypes' /\ OnceOnPanel' /\ NumbersGiven'
  BY <1>1 DEF AInv, PageInv, SlotTypes, ListTypes, PageTypes, OnceOnPanel, NumbersGiven
<1>3. ASSUME NEW n \in 1..saves, n \notin strayed' PROVE PlainOK(n)'
  <2>1. PlainOK(n) /\ n # p.n
    BY <1>1, <1>3 DEF AInv, PageInv, Peace
  <2> QED BY <1>1, <2>1 DEF PlainOK, OnItsWay, Arrived
<1>4. Peace'
  BY <1>1, <1>3 DEF AInv, PageInv, Peace, CalmOK
<1> QED BY <1>1, <1>2, <1>4, LinksQuiet DEF AInv, PageInv

LEMMA AnswerSavedKeeps == ASSUME AInv, NEW p \in saving, Saved(p) PROVE AInv'
<1> DEFINE marked == slot[p.at].turn # 0
<1>1. /\ p \in Saving /\ p.pc = "stored" /\ saving' = saving \ {p}
      /\ panel' = IF -p.n \in panel THEN (panel \ {-p.n}) \cup {p.n} ELSE panel
      /\ LinksStay /\ UNCHANGED <<answers, saves, tokens, loads, deletes, list, rows, of, strayed>>
      /\ p.n \in 1..saves /\ p.n \in Nat /\ p.n # 0 /\ p.n # -p.n
  BY DEF AInv, PageInv, PageTypes, NumbersGiven, Saved, Swapped, LinksStay, Saving
<1>2. /\ slot' \in [Slots -> [turn : Nat, savedId : Int]]
      /\ \A j \in Slots : /\ slot'[j].turn = slot[j].turn
                          /\ slot'[j].savedId = IF marked /\ j = p.at THEN p.n ELSE slot[j].savedId
  <2>1. slot' = IF ~marked THEN slot ELSE [slot EXCEPT ![p.at].savedId = p.n]
    BY DEF Saved
  <2>2. p.at \in Slots /\ p.n \in Int /\ \A j \in Slots : slot[j] \in [turn : Nat, savedId : Int]
    BY <1>1 DEF AInv, PageInv, SlotTypes, Saving
  <2>3. CASE marked
    BY <2>1, <2>2, <2>3 DEF AInv, PageInv, SlotTypes
  <2>4. CASE ~marked
    BY <2>1, <2>4 DEF AInv, PageInv, SlotTypes
  <2> QED BY <2>3, <2>4
<1>3. SlotTypes' /\ ListTypes' /\ PageTypes'
  <2>1. panel' \in SUBSET Int /\ saving' \in SUBSET Saving
    <3>1. panel \in SUBSET Int /\ p.n \in Int /\ saving \in SUBSET Saving
      BY <1>1 DEF AInv, PageInv, PageTypes
    <3>2. \A id \in panel' : id \in panel \/ id = p.n
      BY <1>1
    <3> QED BY <1>1, <3>1, <3>2
  <2> QED BY <1>1, <1>2, <2>1 DEF AInv, PageInv, SlotTypes, ListTypes, PageTypes
<1>4. NumbersGiven'
  <2>1. \A id \in panel' \cup deletes' : id <= saves /\ -id <= saves
    BY <1>1 DEF AInv, PageInv, NumbersGiven, PageTypes
  <2>2. \A j \in Slots : /\ slot'[j].savedId <= saves /\ -slot'[j].savedId <= saves
                         /\ slot'[j].savedId # 0 => slot'[j].turn # 0
    BY <1>1, <1>2 DEF AInv, PageInv, NumbersGiven, PageTypes
  <2> QED BY <1>1, <2>1, <2>2 DEF AInv, PageInv, NumbersGiven
<1>5. OnceOnPanel'
  BY <1>1 DEF AInv, PageInv, OnceOnPanel, PageTypes
<1>6. \A q \in saving : q.n = p.n => q = p
  BY DEF AInv, PageInv, NumbersGiven
<1>7. ASSUME NEW n \in 1..saves, n \notin strayed PROVE PlainOK(n)'
  <2>1. PlainOK(n) /\ n \in Nat /\ n # 0
    BY <1>7 DEF AInv, PageInv, Peace, PageTypes
  <2>2. CASE n # p.n
    <3>1. n # p.n /\ n # -p.n /\ -n # p.n /\ -n # -p.n
      BY <1>1, <2>1, <2>2
    <3>2. (n \in panel' <=> n \in panel) /\ (-n \in panel' <=> -n \in panel)
      BY <1>1, <3>1
    <3>3. \A q : q.n = n => (q \in saving' <=> q \in saving)
      BY <1>1, <2>2
    <3>4. \A j \in Slots : slot'[j].savedId \in {n, -n} => slot'[j].savedId = slot[j].savedId
      BY <1>2, <3>1
    <3>5. ASSUME NEW q \in saving', q.n = n PROVE OnItsWay(n, q)'
      <4>1. OnItsWay(n, q) /\ q.at \in Slots
        BY <2>1, <3>3, <3>5 DEF PlainOK, AInv, PageInv, PageTypes, Saving
      <4> QED BY <1>1, <1>2, <3>2, <3>4, <4>1 DEF OnItsWay
    <3> QED BY <1>1, <1>2, <2>1, <3>2, <3>3, <3>4, <3>5 DEF PlainOK, Arrived
  <2>3. CASE n = p.n
    <3>1. OnItsWay(n, p) /\ p.at \in Slots
      BY <1>1, <2>1, <2>3 DEF PlainOK, Saving
    <3>2. marked /\ slot[p.at].turn = of[n]
      BY <2>3, <3>1 DEF OnItsWay
    <3>3. \A q \in saving' : q.n # n
      BY <1>1, <1>6, <2>3
    <3>4. Arrived(n)'
      BY <1>1, <2>3, <3>1 DEF OnItsWay, Arrived
    <3>5. \A j \in Slots : slot'[j].savedId \in {n, -n} => of[n] = slot'[j].turn
      BY <1>2, <2>1, <2>3, <3>2 DEF PlainOK
    <3> QED BY <1>1, <2>1, <3>3, <3>4, <3>5 DEF PlainOK
  <2> QED BY <2>2, <2>3
<1>8. ASSUME NEW n \in 1..saves, n \in list.calm PROVE CalmOK(n)'
  <2>1. CalmOK(n) /\ n # p.n /\ -n # p.n
    BY <1>1, <1>8 DEF AInv, PageInv, Peace, CalmOK, PageTypes
  <2> QED BY <1>1, <1>2, <2>1 DEF CalmOK
<1>9. Peace'
  BY <1>1, <1>7, <1>8 DEF AInv, PageInv, Peace
<1> QED BY <1>1, <1>3, <1>4, <1>5, <1>9, LinksQuiet DEF AInv, PageInv

LEMMA ListKeeps == ASSUME AInv, Listed \/ ListFails PROVE AInv'
<1>1. /\ LinksStay /\ list.pc # "idle"
      /\ UNCHANGED <<slot, answers, saves, tokens, loads, panel, saving, deletes, rows, of, strayed>>
  BY DEF Listed, ListFails, LinksStay
<1>2. \/ list' = [list EXCEPT !.pc = "read", !.rows = rows]
      \/ list' = [pc |-> "idle", rows |-> {}, calm |-> {}]
  BY DEF Listed, ListFails, NoList
<1>3. /\ ListTypes' /\ list'.rows \subseteq 1..saves
      /\ list'.pc # "idle" => list'.calm = list.calm
      /\ list'.calm \subseteq list.calm
      /\ list'.pc = "read" => list'.rows = rows
  <2>1. list.rows \subseteq 1..saves /\ rows \subseteq 1..saves /\ rows \in SUBSET Nat
    BY DEF AInv, PageInv, NumbersGiven, PageTypes
  <2>2. CASE list' = [list EXCEPT !.pc = "read", !.rows = rows]
    <3>1. /\ list'.pc = "read" /\ list'.rows = rows /\ list'.calm = list.calm
          /\ list' \in [pc : {"idle", "asked", "read"}, rows : SUBSET Nat, calm : SUBSET Nat]
      BY <2>1, <2>2 DEF AInv, PageInv, ListTypes
    <3> QED BY <2>1, <3>1 DEF ListTypes
  <2>3. CASE list' = [pc |-> "idle", rows |-> {}, calm |-> {}]
    BY <2>3 DEF ListTypes
  <2> QED BY <1>2, <2>2, <2>3
<1>4. SlotTypes' /\ PageTypes' /\ OnceOnPanel' /\ NumbersGiven'
  BY <1>1, <1>3 DEF AInv, PageInv, SlotTypes, PageTypes, OnceOnPanel, NumbersGiven
<1>5. Peace'
  BY <1>1, <1>3 DEF AInv, PageInv, Peace, CalmOK, PlainOK, OnItsWay, Arrived
<1> QED BY <1>1, <1>3, <1>4, <1>5, LinksQuiet DEF AInv, PageInv

LEMMA ShownKeeps == ASSUME AInv, Shown PROVE AInv'
<1>1. /\ LinksStay /\ list.pc = "read" /\ panel' = list.rows /\ strayed' = strayed \ list.calm
      /\ list' = [pc |-> "idle", rows |-> {}, calm |-> {}]
      /\ UNCHANGED <<slot, answers, saves, tokens, loads, saving, deletes, rows, of>>
  BY DEF Shown, NoList, LinksStay
<1>2. panel' \subseteq 1..saves /\ panel' \in SUBSET Int
  BY <1>1 DEF AInv, PageInv, NumbersGiven, PageTypes
<1>3. SlotTypes' /\ PageTypes' /\ ListTypes'
  BY <1>1, <1>2 DEF AInv, PageInv, SlotTypes, PageTypes, ListTypes
<1>4. NumbersGiven' /\ OnceOnPanel'
  <2>1. \A id \in panel' : id <= saves /\ -id <= saves
    BY <1>2 DEF AInv, PageInv, PageTypes
  <2>2. NumbersGiven'
    BY <1>1, <2>1 DEF AInv, PageInv, NumbersGiven
  <2>3. \A n \in 1..saves : -n \notin panel'
    BY <1>2 DEF AInv, PageInv, PageTypes
  <2> QED BY <1>1, <2>2, <2>3 DEF OnceOnPanel
<1>5. ASSUME NEW n \in 1..saves, n \notin strayed' PROVE PlainOK(n)'
  <2>1. n \in list.calm /\ CalmOK(n) /\ n # 0
    BY <1>1, <1>5 DEF AInv, PageInv, Peace, PageTypes
  <2>2. -n \notin panel' /\ (n \in panel' <=> n \in rows)
    BY <1>1, <1>2, <2>1 DEF CalmOK, AInv, PageInv, PageTypes
  <2> QED BY <1>1, <2>1, <2>2 DEF CalmOK, PlainOK, Arrived
<1>6. Peace'
  BY <1>1, <1>5 DEF Peace
<1> QED BY <1>1, <1>3, <1>4, <1>6, LinksQuiet DEF AInv, PageInv

-----------------------------------------------------------------------------
(* Deletes, and the links.                                                 *)

LEMMA DeletedKeeps == ASSUME AInv, NEW id \in deletes, Deleted(id) PROVE AInv'
<1>1. /\ deletes' = deletes \ {id} /\ rows' = rows \ {id} /\ links' = links \ LinksOf({id})
      /\ withdrawn' = withdrawn \cup Tokens(LinksOf({id}))
      /\ UNCHANGED <<slot, answers, saves, tokens, loads, panel, saving, list, of, read, strayed>>
  BY DEF Deleted
<1>2. SlotTypes' /\ PageTypes' /\ ListTypes' /\ NumbersGiven' /\ OnceOnPanel'
  BY <1>1 DEF AInv, PageInv, SlotTypes, PageTypes, ListTypes, NumbersGiven, OnceOnPanel
<1>3. ASSUME NEW n \in 1..saves, n \notin strayed PROVE PlainOK(n)'
  <2>1. PlainOK(n)
    BY <1>3 DEF AInv, PageInv, Peace
  <2>2. \A p \in saving : p.n = n => OnItsWay(n, p)'
    BY <1>1, <2>1 DEF PlainOK, OnItsWay
  <2> QED BY <1>1, <2>1, <2>2 DEF PlainOK, Arrived
<1>4. ASSUME NEW n \in 1..saves, n \in list.calm PROVE CalmOK(n)'
  BY <1>1, <1>4 DEF AInv, PageInv, Peace, CalmOK
<1>5. Peace'
  BY <1>1, <1>3, <1>4 DEF AInv, PageInv, Peace
<1>6. LinkTypes'
  <2>1. withdrawn' \in SUBSET (1..tokens)
    <3>1. Tokens(LinksOf({id})) \in SUBSET (1..tokens)
      BY DEF AInv, LinksFollow, LinksOf, Tokens
    <3> QED BY <1>1, <3>1 DEF AInv, LinkTypes
  <2> QED BY <1>1, <2>1 DEF AInv, LinkTypes, LinksOf
<1>7. LinksFollow'
  BY <1>1 DEF AInv, LinksFollow, LinksOf, Tokens
<1> QED BY <1>2, <1>5, <1>6, <1>7 DEF AInv, PageInv

LEMMA DeleteFailsKeeps == ASSUME AInv, NEW id \in deletes, DeleteFails(id) PROVE AInv'
<1>1. /\ deletes' = deletes \ {id} /\ strayed' = strayed \cup {Number(id)} /\ LinksStay
      /\ UNCHANGED <<slot, answers, saves, tokens, loads, panel, saving, list, rows, of>>
  BY DEF DeleteFails, LinksStay
<1>2. SlotTypes' /\ PageTypes' /\ ListTypes' /\ NumbersGiven' /\ OnceOnPanel'
  BY <1>1 DEF AInv, PageInv, SlotTypes, PageTypes, ListTypes, NumbersGiven, OnceOnPanel
<1>3. ASSUME NEW n \in 1..saves, n \notin strayed' PROVE PlainOK(n)'
  <2>1. PlainOK(n) /\ n # id
    BY <1>1, <1>3 DEF AInv, PageInv, Peace, Number, PageTypes
  <2> QED BY <1>1, <2>1 DEF PlainOK, OnItsWay, Arrived
<1>4. Peace'
  BY <1>1, <1>3 DEF AInv, PageInv, Peace, CalmOK
<1> QED BY <1>1, <1>2, <1>4, LinksQuiet DEF AInv, PageInv

\* Actions that leave the page and its requests alone.
LEMMA PageStays ==
  ASSUME AInv, UNCHANGED <<client, loads, deletes, rows>>, tokens' \in Nat
  PROVE  PageInv'
<1>1. SlotTypes' /\ PageTypes' /\ ListTypes' /\ NumbersGiven' /\ OnceOnPanel'
  BY DEF AInv, PageInv, SlotTypes, PageTypes, ListTypes, NumbersGiven, OnceOnPanel, client
<1>2. Peace'
  BY DEF AInv, PageInv, Peace, CalmOK, PlainOK, OnItsWay, Arrived, client
<1> QED BY <1>1, <1>2 DEF PageInv

LEMMA ShareKeeps == ASSUME AInv, NEW m \in Members, NEW n \in rows, Share(m, n) PROVE AInv'
<1> DEFINE new == [token |-> tokens + 1, saved |-> n, by |-> m, revoked |-> FALSE]
<1>1. /\ tokens' = tokens + 1 /\ new \in Link /\ links' = links \cup {new}
      /\ UNCHANGED <<read, withdrawn>> /\ new.token = tokens + 1 /\ tokens' \in Nat
  BY DEF AInv, PageInv, PageTypes, Share, Link
<1> HIDE DEF new
<1>2. LinkTypes'
  BY <1>1 DEF AInv, PageInv, PageTypes, LinkTypes
<1>3. LinksFollow'
  BY <1>1 DEF AInv, PageInv, PageTypes, LinkTypes, LinksFollow
<1> QED BY <1>1, <1>2, <1>3, PageStays DEF AInv, Share

LEMMA RevokeKeeps == ASSUME AInv, NEW m \in Members, NEW l \in links, Revoke(m, l) PROVE AInv'
<1> DEFINE new == [l EXCEPT !.revoked = TRUE]
<1>1. /\ l \in Link /\ new \in Link /\ new.token = l.token /\ new.revoked
      /\ links' = (links \ {l}) \cup {new} /\ withdrawn' = withdrawn \cup {l.token}
      /\ UNCHANGED <<read, tokens>> /\ l.token \in 1..tokens /\ tokens' \in Nat
  BY DEF AInv, PageInv, PageTypes, LinkTypes, Revoke, Link, LinksFollow
<1> HIDE DEF new
<1>2. LinkTypes'
  BY <1>1 DEF AInv, LinkTypes
<1>3. LinksFollow'
  BY <1>1 DEF AInv, LinkTypes, LinksFollow
<1> QED BY <1>1, <1>2, <1>3, PageStays DEF AInv, Revoke

LEMMA ReaderKeeps ==
  ASSUME AInv, NEW r \in Readers,
         ReadLink(r) \/ ReadAnswer(r) \/ NotFound(r) \/ \E token \in 1..tokens : Open(r, token)
  PROVE  AInv'
<1>0. read[r] \in Reads /\ NoRead \in Reads /\ ~NoRead.late
  BY DEF AInv, LinkTypes, NoRead, Reads
<1>1. PICK new \in Reads : /\ read' = [read EXCEPT ![r] = new]
                           /\ new.late => new.pc = "link" /\ new.token \in withdrawn
  <2>1. ASSUME NEW l \in Valid(read[r].token),
               read' = [read EXCEPT ![r].pc = "answer", ![r].saved = l.saved]
        PROVE  \E new \in Reads : /\ read' = [read EXCEPT ![r] = new]
                                  /\ new.late => new.pc = "link" /\ new.token \in withdrawn
    <3> DEFINE new == [read[r] EXCEPT !.pc = "answer", !.saved = l.saved]
    <3>1. new \in Reads /\ new.late = read[r].late
      <4>1. l.saved \in Nat
        BY <2>1 DEF Valid, AInv, LinkTypes, Link
      <4> QED BY <1>0, <4>1 DEF Reads
    <3>2. ~read[r].late
      BY <2>1 DEF Valid, AInv, LinksFollow, LinkTypes, Link
    <3>3. read' = [read EXCEPT ![r] = new]
      BY <1>0, <2>1 DEF AInv, LinkTypes, Reads
    <3> HIDE DEF new
    <3> QED BY <3>1, <3>2, <3>3
  <2>2. CASE ReadAnswer(r)
    <3> DEFINE new == [read[r] EXCEPT !.pc = "served"]
    <3>0. ~read[r].late
      BY <2>2 DEF AInv, ReadAnswer, LinksFollow
    <3>1. new \in Reads /\ ~new.late
      BY <1>0, <3>0 DEF Reads
    <3>2. read' = [read EXCEPT ![r] = new]
      BY <2>2 DEF ReadAnswer, AInv, LinkTypes
    <3> HIDE DEF new
    <3> QED BY <3>1, <3>2
  <2>3. CASE NotFound(r)
    BY <1>0, <2>3 DEF NotFound
  <2>4. ASSUME NEW token \in 1..tokens, Open(r, token)
        PROVE  \E new \in Reads : /\ read' = [read EXCEPT ![r] = new]
                                  /\ new.late => new.pc = "link" /\ new.token \in withdrawn
    <3> DEFINE new == [pc |-> "link", token |-> token, saved |-> 0, late |-> (token \in withdrawn)]
    <3>1. new \in Reads
      <4>1. (token \in withdrawn) \in BOOLEAN /\ token \in Nat
        BY DEF AInv, PageInv, PageTypes
      <4>2. \A b \in BOOLEAN : [pc |-> "link", token |-> token, saved |-> 0, late |-> b] \in Reads
        BY <4>1 DEF Reads
      <4> QED BY <4>1, <4>2, Zenon
    <3> WITNESS new \in Reads
    <3> QED BY <2>4 DEF Open
  <2> QED BY <2>1, <2>2, <2>3, <2>4 DEF ReadLink
<1>2. UNCHANGED <<client, tokens, loads, deletes, rows, links, withdrawn>>
  BY DEF ReadLink, ReadAnswer, NotFound, Open
<1>3. LinkTypes' /\ tokens' \in Nat
  BY <1>1, <1>2 DEF AInv, PageInv, PageTypes, LinkTypes
<1>4. LinksFollow'
  BY <1>1, <1>2 DEF AInv, LinkTypes, LinksFollow
<1> QED BY <1>2, <1>3, <1>4, PageStays DEF AInv

LEMMA AInvStep == AInv /\ [SavedNext]_savedVars => AInv'
<1> SUFFICES ASSUME AInv, [SavedNext]_savedVars PROVE AInv'
  OBVIOUS
<1>1. CASE UNCHANGED savedVars
  <2>1. UNCHANGED <<client, loads, deletes, rows, links, read, withdrawn, tokens>>
    BY <1>1 DEF savedVars, client
  <2>2. tokens' \in Nat
    BY <2>1 DEF AInv, PageInv, PageTypes
  <2> QED BY <2>1, <2>2, PageStays, LinksQuiet DEF LinksStay
<1>4. CASE ClearChat \/ Load \/ Listed \/ Shown \/ ListFails
  BY <1>4, ClearKeeps, LoadKeeps, ListKeeps, ShownKeeps
<1>5. CASE Remove(panel, Marks) \/ \E id \in panel \cup Marks : Remove({id}, {id})
  <2>1. \A id \in panel \cup Marks : {id} \in SUBSET (panel \cup Marks)
    OBVIOUS
  <2>2. panel \in SUBSET (panel \cup Marks)
    OBVIOUS
  <2> QED BY <1>5, <2>1, <2>2, UnsaveKeeps
<1>6. CASE \E i \in Slots : Answer(i) \/ Save(i)
  BY <1>6, AnswerKeeps, SaveAnswerKeeps
<1>7. CASE \E p \in saving : StoreRow(p) \/ Saved(p) \/ SaveFails(p)
  BY <1>7, StoreKeeps, AnswerSavedKeeps, SaveFailsKeeps
<1>8. CASE \E id \in deletes : Deleted(id) \/ DeleteFails(id)
  BY <1>8, DeletedKeeps, DeleteFailsKeeps
<1>9. CASE \E m \in Members : (\E n \in rows : Share(m, n)) \/ \E l \in links : Revoke(m, l)
  BY <1>9, ShareKeeps, RevokeKeeps
<1>10. CASE \E r \in Readers : ReadLink(r) \/ ReadAnswer(r) \/ NotFound(r)
                               \/ \E token \in 1..tokens : Open(r, token)
  BY <1>10, ReaderKeeps
<1> QED BY <1>1, <1>4, <1>5, <1>6, <1>7, <1>8, <1>9, <1>10 DEF SavedNext

(* However hasty the user and whatever requests fail: an answer saved once *)
(* is on the panel once; an answer whose save, list and deletes nothing    *)
(* came between since a load made in peace is on the panel exactly if its  *)
(* row is there, and marked where it stands; and a link that was withdrawn *)
(* is served to nobody who opens it later, for any number of answers,      *)
(* saves, links, members and readers (App.jsx, main.py).                   *)
THEOREM SavedAgreeCorrect == SavedSpec => []SavedAgree
<1>1. AInv => SavedAgree
  <2> SUFFICES ASSUME AInv PROVE SavedAgree
    OBVIOUS
  <2>1. OnceOnPanel
    BY DEF AInv, PageInv
  <2>2. ASSUME NEW n \in 1..saves, n \notin strayed
        PROVE  /\ n \notin SavesOf(saving) \cup Numbers(deletes) =>
                    (n \in panel <=> n \in rows) /\ -n \notin panel
               /\ \A i \in Slots : slot[i].savedId \in {n, -n} => of[n] = slot[i].turn
    <3>1. PlainOK(n) /\ n \in Nat /\ deletes \in SUBSET Int
      BY <2>2 DEF AInv, PageInv, Peace, PageTypes
    <3>2. n \notin SavesOf(saving) \cup Numbers(deletes) => n \notin deletes /\ Arrived(n)
      BY <3>1, SavesIn, NumbersIn DEF PlainOK
    <3> QED BY <3>1, <3>2 DEF PlainOK, Arrived
  <2>3. Reconciles
    BY <2>2 DEF Reconciles
  <2>4. WithdrawnNotServed
    BY DEF AInv, LinksFollow, WithdrawnNotServed
  <2> QED BY <2>1, <2>3, <2>4 DEF SavedAgree
<1> QED BY <1>1, AInvInit, AInvStep, PTL DEF SavedSpec

-----------------------------------------------------------------------------
(* LabelPicker, for any accounts and labels.                               *)

Whose    == Accounts \cup {NoAccount}
LabelGet == [n : Nat, acc : Whose, save : BOOLEAN, pc : {"asked", "read"}, ids : SUBSET Labels,
             on : SUBSET Labels, fresh : BOOLEAN]
LabelPost    == [n : Nat, acc : Accounts, ids : SUBSET Labels, own : BOOLEAN, of : Whose]
LabelRemoval == [acc : Accounts, own : BOOLEAN]

StoreTypes ==
  /\ conns \in SUBSET Accounts /\ chosenLabels \in [Accounts -> SUBSET Labels]
  /\ \A a \in Accounts : chosenLabels[a] \subseteq LabelsOf(a)

PanelTypes ==
  /\ listed \in SUBSET Accounts /\ account \in Whose /\ labelsOf \in Whose
  /\ labels \in SUBSET Labels /\ labelsN \in Nat
  /\ {labelsFresh, labelsTouched} \subseteq BOOLEAN

RequestTypes ==
  /\ gets \in SUBSET LabelGet /\ labelPosts \in SUBSET LabelPost
  /\ removals \in SUBSET LabelRemoval /\ labelLoads \in Nat /\ labelSaves \in Nat

\* Every list, on its way and on screen, is one list of one account.
Lists ==
  /\ \A g \in gets : /\ g.n <= labelLoads
                     /\ g.on \subseteq g.ids
                     /\ g.ids # {} => g.ids \subseteq LabelsOf(g.acc)
  /\ labelsN <= labelLoads
  /\ ScreenIsOneList

\* A list that was read and not overtaken by a save says what is stored, if it is the newest.
TicksFollow ==
  /\ \A g \in gets : /\ g.pc = "read" /\ g.fresh /\ g.n = labelLoads /\ g.ids # {}
                     /\ g.acc \in conns
                     => g.on = chosenLabels[g.acc]
  /\ /\ labels # {} /\ labelsN = labelLoads /\ labelsFresh /\ ~labelsTouched
     /\ labelsOf \in conns
     => selectedIds = chosenLabels[labelsOf]

BInv == StoreTypes /\ PanelTypes /\ RequestTypes /\ Lists /\ NewestIsActive /\ TicksFollow
-----------------------------------------------------------------------------
LEMMA BInvInit == LabelInit => BInv
<1> SUFFICES ASSUME LabelInit PROVE BInv
  OBVIOUS
<1>1. StoreTypes
  BY DEF LabelInit, StoreTypes
<1>2. PanelTypes /\ RequestTypes
  BY DEF LabelInit, PanelTypes, RequestTypes, Whose
<1>3. Lists /\ NewestIsActive /\ TicksFollow
  BY DEF LabelInit, Lists, ScreenIsOneList, NewestIsActive, TicksFollow
<1> QED BY <1>1, <1>2, <1>3 DEF BInv

\* refreshLabels up to its request: the newest list is one of a.
Asked(a) ==
  /\ \E g \in LabelGet : /\ gets' = gets \cup {g}
                         /\ g.acc = a /\ g.pc = "asked" /\ g.n = labelLoads'
                         /\ g.ids = {} /\ g.on = {}
  /\ labelLoads' = labelLoads + 1

LEMMA AskOne ==
  ASSUME labelLoads \in Nat, NEW a \in Whose, NEW s \in BOOLEAN, AskLabels(a, s)
  PROVE  Asked(a)
<1> DEFINE g == [n |-> labelLoads + 1, acc |-> a, save |-> s, pc |-> "asked", ids |-> {}, on |-> {},
                 fresh |-> FALSE]
<1>1. /\ g \in LabelGet /\ g.acc = a /\ g.pc = "asked" /\ g.n = labelLoads + 1
      /\ g.ids = {} /\ g.on = {}
  BY DEF LabelGet
<1>2. gets' = gets \cup {g} /\ labelLoads' = labelLoads + 1
  BY DEF AskLabels
<1> HIDE DEF g
<1> QED BY <1>1, <1>2 DEF Asked

\* What was asked for before is not the newest any more.
LEMMA AskedKeeps ==
  ASSUME BInv, NEW a \in Whose, Asked(a), a = account' \/ account' = NoAccount,
         StoreTypes', conns' \subseteq conns,
         listed' \in SUBSET Accounts, account' \in Whose,
         UNCHANGED <<labels, selectedIds, labelsOf, labelsN, labelsFresh, labelsTouched>>,
         labelPosts' \in SUBSET LabelPost, removals' \in SUBSET LabelRemoval, labelSaves' \in Nat
  PROVE  BInv'
<1>1. PICK h \in LabelGet : /\ gets' = gets \cup {h}
                            /\ h.acc = a /\ h.pc = "asked" /\ h.n = labelLoads'
                            /\ h.ids = {} /\ h.on = {}
  BY DEF Asked
<1>2. labelLoads' = labelLoads + 1 /\ labelLoads \in Nat
  BY DEF Asked, BInv, RequestTypes
<1>3. PanelTypes' /\ RequestTypes'
  BY <1>1, <1>2 DEF BInv, PanelTypes, RequestTypes
<1>4. /\ \A g \in gets : g.n \in Nat /\ g.n <= labelLoads /\ g.n # labelLoads'
      /\ labelsN \in Nat /\ labelsN <= labelLoads /\ labelsN # labelLoads'
  BY <1>2 DEF BInv, Lists, RequestTypes, PanelTypes, LabelGet
<1>5. Lists'
  BY <1>1, <1>2, <1>4 DEF BInv, Lists, ScreenIsOneList
<1>6. NewestIsActive'
  BY <1>1, <1>2, <1>4 DEF NewestIsActive
<1>7. TicksFollow'
  BY <1>1, <1>2, <1>4 DEF TicksFollow
<1> QED BY <1>3, <1>5, <1>6, <1>7 DEF BInv

\* No list is asked for, and none is shown that was not.
LEMMA QuietKeeps ==
  ASSUME BInv, StoreTypes', PanelTypes', RequestTypes', Lists', labelLoads' = labelLoads,
         account' = account, gets' \subseteq gets,
         UNCHANGED <<labels, labelsOf, labelsN, labelsFresh>>,
         \A a \in conns' : a \in conns /\ chosenLabels'[a] = chosenLabels[a],
         labelsTouched' \/ UNCHANGED <<labelsTouched, selectedIds>>
  PROVE  BInv'
<1>1. NewestIsActive'
  BY DEF BInv, NewestIsActive
<1>2. TicksFollow'
  BY DEF BInv, TicksFollow
<1> QED BY <1>1, <1>2 DEF BInv

\* Another account becomes the active one.
LEMMA EffectKeeps ==
  ASSUME BInv, NEW a \in Whose, Effect(a), account' = a,
         UNCHANGED <<labelServer, labelPosts, removals, labelSaves>>,
         listed' \in SUBSET Accounts
  PROVE  BInv'
<1>1. StoreTypes' /\ UNCHANGED <<conns, chosenLabels, labelPosts, removals, labelSaves>>
  BY DEF BInv, StoreTypes, labelServer
<1>2. CASE a = account
  <2>1. UNCHANGED <<labels, selectedIds, labelsOf, labelsN, labelsFresh, labelsTouched, gets, labelLoads>>
    BY <1>2 DEF Effect, labelList
  <2>2. PanelTypes' /\ RequestTypes' /\ Lists'
    BY <1>1, <2>1 DEF BInv, PanelTypes, RequestTypes, Lists, ScreenIsOneList
  <2> QED BY <1>1, <1>2, <2>1, <2>2, QuietKeeps
<1>3. CASE a = NoAccount /\ a # account
  <2>1. /\ labels' = {} /\ selectedIds' = {} /\ labelsOf' = NoAccount /\ labelsN' = 0
        /\ labelsFresh' = FALSE /\ labelsTouched' = FALSE /\ UNCHANGED <<gets, labelLoads>>
    BY <1>3 DEF Effect, ClearLabels, ShowLabels
  <2>2. PanelTypes' /\ RequestTypes'
    BY <1>1, <2>1 DEF BInv, PanelTypes, RequestTypes, Whose
  <2>4. labelLoads >= 0
    BY DEF BInv, RequestTypes
  <2>5. Lists'
    BY <2>1, <2>4 DEF BInv, Lists, ScreenIsOneList
  <2>3. NewestIsActive' /\ TicksFollow'
    BY <1>1, <1>3, <2>1 DEF BInv, NewestIsActive, TicksFollow
  <2> QED BY <1>1, <2>2, <2>3, <2>5 DEF BInv
<1>4. CASE a # NoAccount /\ a # account
  <2>1. Asked(a) /\ UNCHANGED labelList
    BY <1>4, AskOne DEF Effect, BInv, RequestTypes
  <2> QED BY <1>1, <2>1, AskedKeeps DEF labelList, BInv, RequestTypes
<1> QED BY <1>2, <1>3, <1>4

LEMMA ConnectionsKeep == ASSUME BInv, Connections PROVE BInv'
<1>1. PICK accs \in {conns} \cup (IF LabelFailures THEN {{}} ELSE {}) :
        \E a \in First(accs) : listed' = accs /\ account' = a /\ Effect(a)
  BY DEF Connections
<1>2. PICK a \in First(accs) : listed' = accs /\ account' = a /\ Effect(a)
  BY <1>1
<1>3. accs \in SUBSET Accounts /\ a \in Whose
  BY DEF First, BInv, StoreTypes, PanelTypes, Whose
<1> QED BY <1>2, <1>3, EffectKeeps DEF Connections

LEMMA LabelsSwitchKeeps == ASSUME BInv, NEW a \in Accounts, SwitchAccount(a) PROVE BInv'
BY EffectKeeps DEF SwitchAccount, BInv, PanelTypes, Whose

LEMMA LabelsReadKeeps == ASSUME BInv, NEW g \in gets, ReadLabels(g) PROVE BInv'
<1>1. g \in LabelGet /\ g.acc \in Whose /\ g.n <= labelLoads
  BY DEF BInv, RequestTypes, Lists, LabelGet
<1>2. UNCHANGED <<conns, chosenLabels, listed, account, labels, selectedIds, labelsOf, labelsN,
                  labelsFresh, labelsTouched, labelPosts, removals, labelLoads, labelSaves>>
  BY DEF ReadLabels, labelServer, labelScreen, labelList
<1>3. PICK h \in LabelGet :
        /\ gets' = (gets \ {g}) \cup {h} /\ h.acc = g.acc /\ h.n = g.n
        /\ h.on \subseteq h.ids
        /\ h.ids # {} => /\ h.acc \in conns /\ h.ids = LabelsOf(h.acc)
                         /\ h.on = chosenLabels[h.acc]
  <2> DEFINE none == [ids |-> {}, on |-> {}]
             all  == [ids |-> LabelsOf(g.acc), on |-> chosenLabels[g.acc]]
             got(x) == [g EXCEPT !.pc = "read", !.ids = x.ids, !.on = x.on, !.fresh = TRUE]
  <2>1. PICK x : /\ gets' = (gets \ {g}) \cup {got(x)}
                 /\ x = none \/ (g.acc \in conns /\ x = all)
    BY DEF ReadLabels
  <2>2. CASE x = none
    <3>1. got(x) = [g EXCEPT !.pc = "read", !.ids = {}, !.on = {}, !.fresh = TRUE]
      BY <2>2
    <3>2. got(x) \in LabelGet /\ got(x).acc = g.acc /\ got(x).n = g.n /\ got(x).ids = {}
          /\ got(x).on = {}
      BY <1>1, <3>1 DEF LabelGet
    <3> HIDE DEF got
    <3> QED BY <2>1, <3>2
  <2>3. CASE g.acc \in conns /\ x = all
    <3>1. LabelsOf(g.acc) \in SUBSET Labels /\ chosenLabels[g.acc] \in SUBSET LabelsOf(g.acc)
      BY <2>3, PickerAssumption DEF BInv, StoreTypes
    <3>2. got(x) = [g EXCEPT !.pc = "read", !.ids = LabelsOf(g.acc), !.on = chosenLabels[g.acc],
                               !.fresh = TRUE]
      BY <2>3
    <3>3. /\ got(x) \in LabelGet /\ got(x).acc = g.acc /\ got(x).n = g.n
          /\ got(x).ids = LabelsOf(g.acc) /\ got(x).on = chosenLabels[g.acc]
      BY <1>1, <3>1, <3>2 DEF LabelGet
    <3> HIDE DEF got
    <3> QED BY <2>1, <2>3, <3>1, <3>3
  <2> QED BY <2>1, <2>2, <2>3
<1>4. StoreTypes' /\ PanelTypes' /\ RequestTypes'
  BY <1>2, <1>3 DEF BInv, StoreTypes, PanelTypes, RequestTypes
<1>5. Lists'
  BY <1>1, <1>2, <1>3 DEF BInv, Lists, ScreenIsOneList
<1>6. NewestIsActive' /\ TicksFollow'
  BY <1>2, <1>3 DEF BInv, NewestIsActive, TicksFollow
<1> QED BY <1>4, <1>5, <1>6 DEF BInv

LEMMA LabelsArriveKeeps == ASSUME BInv, NEW g \in gets, LabelsArrive(g) PROVE BInv'
<1>1. g \in LabelGet /\ g.pc = "read" /\ gets' = gets \ {g}
  BY DEF BInv, RequestTypes, LabelsArrive
<1>2. /\ labels' = g.ids /\ selectedIds' = g.on /\ labelsOf' = g.acc /\ labelsTouched' = FALSE
      /\ labelsN' = g.n /\ labelsFresh' = g.fresh
      /\ UNCHANGED <<conns, chosenLabels, listed, account, labelPosts, removals, labelLoads, labelSaves>>
  BY <1>1 DEF LabelsArrive, ShowLabels, labelServer, labelScreen
<1>3. StoreTypes' /\ PanelTypes' /\ RequestTypes'
  BY <1>1, <1>2 DEF BInv, StoreTypes, PanelTypes, RequestTypes, LabelGet
<1>4. Lists'
  BY <1>1, <1>2 DEF BInv, Lists, ScreenIsOneList
<1>5. NewestIsActive' /\ TicksFollow'
  BY <1>1, <1>2 DEF BInv, NewestIsActive, TicksFollow
<1> QED BY <1>3, <1>4, <1>5 DEF BInv

LEMMA LabelsRefreshKeeps == ASSUME BInv, RefreshLabels PROVE BInv'
<1>1. Asked(account) /\ account \in Whose
  BY AskOne DEF RefreshLabels, BInv, RequestTypes, PanelTypes
<1>2. UNCHANGED <<conns, chosenLabels, listed, account, labels, selectedIds, labelsOf, labelsN,
                  labelsFresh, labelsTouched, labelPosts, removals, labelSaves>>
  BY DEF RefreshLabels, labelServer, labelScreen, labelList
<1>3. StoreTypes'
  BY <1>2 DEF BInv, StoreTypes
<1> QED BY <1>1, <1>2, <1>3, AskedKeeps DEF BInv, PanelTypes, RequestTypes

LEMMA LabelsToggleKeeps == ASSUME BInv, NEW l \in Labels, Toggle(l) PROVE BInv'
<1>1. /\ selectedIds' \subseteq labels /\ labelsTouched' = TRUE
      /\ UNCHANGED <<conns, chosenLabels, listed, account, labels, labelsOf, labelsN, labelsFresh,
                     gets, labelPosts, removals, labelLoads, labelSaves>>
  BY DEF Toggle, BInv, Lists, ScreenIsOneList, labelServer, labelScreen
<1>2. StoreTypes' /\ PanelTypes' /\ RequestTypes' /\ Lists'
  BY <1>1 DEF BInv, StoreTypes, PanelTypes, RequestTypes, Lists, ScreenIsOneList
<1> QED BY <1>1, <1>2, QuietKeeps

LEMMA LabelsSaveKeeps == ASSUME BInv, SaveLabels PROVE BInv'
<1> DEFINE p == [n |-> labelSaves + 1, acc |-> account, ids |-> selectedIds, own |-> TRUE,
                 of |-> labelsOf]
<1>1. p \in LabelPost
  BY DEF SaveLabels, LabelPost, BInv, PanelTypes, RequestTypes, Whose, Lists, ScreenIsOneList
<1>2. /\ labelPosts' = labelPosts \cup {p} /\ labelSaves' = labelSaves + 1
      /\ UNCHANGED <<conns, chosenLabels, listed, account, labels, selectedIds, labelsOf, labelsN,
                     labelsFresh, labelsTouched, gets, removals, labelLoads>>
  BY DEF SaveLabels, labelServer, labelScreen, labelList
<1> HIDE DEF p
<1>3. StoreTypes' /\ PanelTypes' /\ RequestTypes' /\ Lists'
  BY <1>1, <1>2 DEF BInv, StoreTypes, PanelTypes, RequestTypes, Lists, ScreenIsOneList
<1> QED BY <1>2, <1>3, QuietKeeps

LEMMA RemoveKeeps == ASSUME BInv, RemoveAccount PROVE BInv'
<1> DEFINE d == [acc |-> account, own |-> TRUE]
<1>1. d \in LabelRemoval
  BY DEF RemoveAccount, LabelRemoval, BInv, PanelTypes, Whose
<1>2. /\ removals' = removals \cup {d}
      /\ UNCHANGED <<conns, chosenLabels, listed, account, labels, selectedIds, labelsOf, labelsN,
                     labelsFresh, labelsTouched, gets, labelPosts, labelLoads, labelSaves>>
  BY DEF RemoveAccount, labelServer, labelScreen, labelList
<1> HIDE DEF d
<1>3. StoreTypes' /\ PanelTypes' /\ RequestTypes' /\ Lists'
  BY <1>1, <1>2 DEF BInv, StoreTypes, PanelTypes, RequestTypes, Lists, ScreenIsOneList
<1> QED BY <1>2, <1>3, QuietKeeps

LEMMA MountKeeps ==
  ASSUME BInv, Reopen \/ \E a \in Accounts : ConnectAccount(a)
  PROVE  BInv'
<1>1. /\ labelPosts' = LabelsLeft(labelPosts) /\ removals' = LabelsLeft(removals) /\ gets' = {}
      /\ listed' = {} /\ account' = NoAccount /\ labels' = {} /\ selectedIds' = {}
      /\ labelsOf' = NoAccount /\ labelsN' = 0 /\ labelsFresh' = FALSE /\ labelsTouched' = FALSE
      /\ UNCHANGED <<chosenLabels, labelSaves>> /\ labelLoads' = labelLoads + 1
      /\ conns' \in SUBSET Accounts
  BY DEF Reopen, ConnectAccount, Mount, ClearLabels, ShowLabels, labelServer, BInv, StoreTypes
<1>2. labelPosts' \in SUBSET LabelPost /\ removals' \in SUBSET LabelRemoval
  <2>1. \A p \in LabelPost : [p EXCEPT !.own = FALSE] \in LabelPost
    BY DEF LabelPost
  <2>2. \A d \in LabelRemoval : [d EXCEPT !.own = FALSE] \in LabelRemoval
    BY DEF LabelRemoval
  <2> QED BY <1>1, <2>1, <2>2 DEF LabelsLeft, BInv, RequestTypes
<1>5. StoreTypes'
  BY <1>1 DEF BInv, StoreTypes
<1>6. PanelTypes'
  BY <1>1 DEF PanelTypes, Whose
<1>7. RequestTypes'
  BY <1>1, <1>2 DEF BInv, RequestTypes
<1>4. Lists' /\ NewestIsActive' /\ TicksFollow'
  BY <1>1 DEF BInv, Lists, ScreenIsOneList, NewestIsActive, TicksFollow, RequestTypes
<1> QED BY <1>4, <1>5, <1>6, <1>7 DEF BInv

LEMMA SavedKeeps == ASSUME BInv, NEW p \in labelPosts, LabelsSaved(p) PROVE BInv'
<1>1. p \in LabelPost /\ p.acc \in Accounts /\ p.ids \in SUBSET Labels /\ labelPosts' = labelPosts \ {p}
  BY DEF BInv, RequestTypes, LabelsSaved, LabelPost
<1>2. PICK o \in LabelOutcomes(p.acc \in conns) :
        /\ chosenLabels' = IF o.done THEN [chosenLabels EXCEPT ![p.acc] = p.ids \cap LabelsOf(p.acc)]
                           ELSE chosenLabels
        /\ IF p.own /\ o.ok
           THEN AskLabels(account, TRUE) /\ UNCHANGED labelsFresh
           ELSE /\ gets' = (IF o.done THEN {[g EXCEPT !.fresh = FALSE] : g \in gets} ELSE gets)
                /\ labelsFresh' = (labelsFresh /\ ~o.done)
                /\ labelLoads' = labelLoads
  BY DEF LabelsSaved
<1>3. UNCHANGED <<conns, listed, account, labels, selectedIds, labelsOf, labelsN, labelsTouched,
                  removals, labelSaves>>
  BY DEF LabelsSaved, labelScreen
<1>4. StoreTypes'
  <2>1. /\ chosenLabels' \in [Accounts -> SUBSET Labels]
        /\ \A a \in Accounts : \/ chosenLabels'[a] = chosenLabels[a]
                               \/ chosenLabels'[a] = p.ids \cap LabelsOf(a)
    BY <1>1, <1>2 DEF BInv, StoreTypes
  <2> QED BY <1>3, <2>1 DEF BInv, StoreTypes
<1>5. CASE p.own /\ o.ok
  <2>1. Asked(account) /\ account \in Whose
    BY <1>2, <1>5, AskOne DEF BInv, RequestTypes, PanelTypes
  <2> QED BY <1>1, <1>2, <1>3, <1>4, <1>5, <2>1, AskedKeeps DEF BInv, PanelTypes, RequestTypes
<1>6. CASE ~(p.own /\ o.ok) /\ ~o.done
  <2>1. /\ gets' = gets /\ labelLoads' = labelLoads /\ chosenLabels' = chosenLabels
        /\ labelsFresh' = labelsFresh
    BY <1>2, <1>6 DEF BInv, PanelTypes
  <2>2. PanelTypes' /\ RequestTypes' /\ Lists'
    BY <1>1, <1>3, <2>1 DEF BInv, PanelTypes, RequestTypes, Lists, ScreenIsOneList
  <2> QED BY <1>3, <1>4, <2>1, <2>2, QuietKeeps
<1>7. CASE ~(p.own /\ o.ok) /\ o.done
  <2> DEFINE old(g) == [g EXCEPT !.fresh = FALSE]
  <2>1. gets' = {old(g) : g \in gets} /\ labelLoads' = labelLoads /\ labelsFresh' = FALSE
    BY <1>2, <1>7
  <2>2. \A g \in gets : /\ old(g) \in LabelGet /\ old(g).fresh = FALSE /\ old(g).n = g.n
                        /\ old(g).acc = g.acc /\ old(g).ids = g.ids /\ old(g).on = g.on
    BY DEF BInv, RequestTypes, LabelGet
  <2> HIDE DEF old
  <2>3. PanelTypes' /\ RequestTypes'
    BY <1>1, <1>3, <2>1, <2>2 DEF BInv, PanelTypes, RequestTypes
  <2>4. Lists'
    BY <1>3, <2>1, <2>2 DEF BInv, Lists, ScreenIsOneList
  <2>5. NewestIsActive' /\ TicksFollow'
    BY <1>3, <2>1, <2>2 DEF BInv, NewestIsActive, TicksFollow
  <2> QED BY <1>4, <2>3, <2>4, <2>5 DEF BInv
<1> QED BY <1>5, <1>6, <1>7

LEMMA RemovedKeeps == ASSUME BInv, NEW d \in removals, Removed(d) PROVE BInv'
<1>1. d.acc \in Accounts /\ removals' = removals \ {d}
  BY DEF BInv, RequestTypes, Removed, LabelRemoval
<1>2. PICK o \in LabelOutcomes(d.acc \in conns) :
       /\ conns' = IF o.done THEN conns \ {d.acc} ELSE conns
       /\ chosenLabels' = IF o.done THEN [chosenLabels EXCEPT ![d.acc] = {}] ELSE chosenLabels
  BY DEF Removed
<1>3. UNCHANGED <<listed, account, labels, selectedIds, labelsOf, labelsN, labelsFresh, labelsTouched,
                  gets, labelPosts, labelLoads, labelSaves>>
  BY DEF Removed, labelList
<1>4. /\ conns' \in SUBSET Accounts /\ chosenLabels' \in [Accounts -> SUBSET Labels]
      /\ \A a \in Accounts : chosenLabels'[a] \in {{}, chosenLabels[a]}
      /\ \A a \in conns' : a \in conns /\ chosenLabels'[a] = chosenLabels[a]
  BY <1>1, <1>2 DEF BInv, StoreTypes
<1>5. StoreTypes' /\ PanelTypes' /\ RequestTypes'
  BY <1>1, <1>3, <1>4 DEF BInv, StoreTypes, PanelTypes, RequestTypes
<1>6. Lists'
  BY <1>3 DEF BInv, Lists, ScreenIsOneList
<1> QED BY <1>3, <1>4, <1>5, <1>6, QuietKeeps

LEMMA BInvStep == BInv /\ [LabelNext]_labelVars => BInv'
<1> SUFFICES ASSUME BInv, [LabelNext]_labelVars PROVE BInv'
  OBVIOUS
<1>1. CASE UNCHANGED labelVars
  BY <1>1 DEF labelVars, BInv, StoreTypes, PanelTypes, RequestTypes, Lists, ScreenIsOneList,
     NewestIsActive, TicksFollow
<1>2. CASE LabelNext
  BY <1>2, ConnectionsKeep, LabelsRefreshKeeps, LabelsSaveKeeps, RemoveKeeps, MountKeeps, LabelsReadKeeps, LabelsArriveKeeps,
     LabelsSwitchKeeps, LabelsToggleKeeps, SavedKeeps, RemovedKeeps DEF LabelNext
<1> QED BY <1>1, <1>2

(* Whatever the user does while labels load, the list on screen is one     *)
(* list of one account, the newest list is the active account's, and when  *)
(* it is on screen its ticks are what is stored unless he has changed them *)
(* or a save nobody waits for took effect since; for any accounts, labels  *)
(* and failures.                                                           *)
THEOREM LabelsAgreeCorrect == LabelSpec => []LabelsAgree
<1>1. BInv => LabelsAgree
  <2> SUFFICES ASSUME BInv PROVE LabelsAgree
    OBVIOUS
  <2>1. ScreenIsOneList /\ NewestIsActive
    BY DEF BInv, Lists
  <2>2. NewestTicks
    <3>1. account \in conns => account # NoAccount
      BY PickerAssumption DEF BInv, StoreTypes
    <3> QED BY <2>1, <3>1 DEF BInv, TicksFollow, NewestTicks, NewestIsActive
  <2> QED BY <2>1, <2>2 DEF LabelsAgree
<1> QED BY <1>1, BInvInit, BInvStep, PTL DEF LabelSpec

-----------------------------------------------------------------------------
(* ChannelPicker, for any workspaces and channels.                         *)

WhoseChannels == Workspaces \cup {NoWorkspace}
Req == [n : Nat, kind : {"get", "save", "disconnect"}, pc : {"token", "sent", "read"}, own : BOOLEAN,
        at : Workspaces, to : WhoseChannels, chans : SUBSET PanelChannels, ids : SUBSET PanelChannels,
        bots : SUBSET PanelChannels, of : WhoseChannels, moved : BOOLEAN, stale : BOOLEAN,
        found : BOOLEAN]

RowTypes ==
  /\ installed \in SUBSET Workspaces /\ home \in Workspaces
  /\ chosen \in [Workspaces -> SUBSET PanelChannels]
  /\ storedBots \in [Workspaces -> SUBSET PanelChannels]
  /\ \A w \in Workspaces : storedBots[w] \subseteq chosen[w] /\ chosen[w] \subseteq ChannelsOf(w)

ViewTypes ==
  /\ {connected, moved, touched, loading} \subseteq BOOLEAN
  /\ busy \in {"no", "save", "disconnect"}
  /\ channelsOf \in WhoseChannels /\ shown \in SUBSET PanelChannels /\ requests \in Nat
  /\ WholeChannelList
  /\ connected \/ shown # {} => channelsOf \in Workspaces
  /\ channelsOf \in Workspaces /\ ~moved => channelsOf = home

\* The panel has one request under way, and shows it.
OneOwn ==
  /\ \A r, s \in reqs : r.own /\ s.own => r = s
  /\ \A r \in reqs : r.own => CASE r.kind = "get"  -> loading
                                [] r.kind = "save" -> ~loading /\ busy = "save"
                                [] OTHER           -> ~loading /\ busy = "disconnect"

\* A list on its way is one of the workspace it was sent to.
ListReq(r) ==
  /\ r.own /\ r.bots \subseteq r.ids /\ r.ids \subseteq r.chans
  /\ r.pc = "token" => ~r.moved
  /\ r.pc # "token" /\ ~r.moved => r.to = home
  /\ r.pc # "read" => r.chans = {}
  /\ r.pc = "read" => r.chans \subseteq ChannelsOf(r.to)
  /\ r.chans # {} /\ ~r.stale => r.ids = chosen[r.to] /\ r.bots = storedBots[r.to]

\* A save of the panel has its ticks.
SaveReq(r) ==
  /\ r.bots \subseteq r.ids /\ r.of \in Workspaces
  /\ ~r.moved => r.of = (IF r.pc = "token" THEN home ELSE r.to)
  /\ r.own => r.of = channelsOf /\ r.ids = ticked /\ r.bots = botTicked

ReqOK(r) ==
  /\ r \in Req
  /\ r.pc # "token" => r.to \in Workspaces
  /\ r.pc = "read" => r.kind = "get"
  /\ r.kind = "get" => ListReq(r)
  /\ r.kind = "save" => SaveReq(r)

PInv == RowTypes /\ ViewTypes /\ OneOwn /\ (\A r \in reqs : ReqOK(r)) /\ ChannelTicksPersisted
-----------------------------------------------------------------------------
LEMMA NoneActive == NoWorkspace \notin Workspaces
BY ChannelAssumption

LEMMA PInvInit == ChannelInit => PInv
<1> SUFFICES ASSUME ChannelInit PROVE PInv
  OBVIOUS
<1>1. RowTypes
  BY DEF ChannelInit, RowTypes
<1>2. ViewTypes /\ OneOwn /\ ChannelTicksPersisted /\ reqs = {}
  BY NoneActive DEF ChannelInit, ViewTypes, WholeChannelList, OneOwn, ChannelTicksPersisted, WhoseChannels
<1> QED BY <1>1, <1>2 DEF PInv

\* jsonFetch makes one request more.
NewReq(r, kind, ids, botIds) ==
  /\ r \in Req /\ r.kind = kind /\ r.own /\ r.ids = ids /\ r.bots = botIds /\ r.chans = {}
  /\ r.of = channelsOf /\ r.pc \in {"token", "sent"} /\ r.moved = (kind # "get" /\ moved)
  /\ r.pc = "sent" => r.to = home

LEMMA AskReq ==
  ASSUME PInv, NEW rest, NEW kind \in {"get", "save", "disconnect"}, NEW ids \in SUBSET PanelChannels,
         NEW botIds \in SUBSET PanelChannels, Ask(rest, kind, ids, botIds)
  PROVE  /\ requests' \in Nat
         /\ \E r \in Req : NewReq(r, kind, ids, botIds) /\ reqs' = rest \cup {r}
<1>1. requests' \in Nat /\ home \in Workspaces /\ channelsOf \in WhoseChannels /\ requests \in Nat
      /\ (kind # "get" /\ moved) \in BOOLEAN
  BY DEF Ask, PInv, ViewTypes, WholeChannelList, RowTypes
<1> DEFINE r == Request(kind, home, ids, botIds)
           q == [Request(kind, NoWorkspace, ids, botIds) EXCEPT !.pc = "token"]
<1>2. r \in Req /\ q \in Req
  <2>1. \A w \in WhoseChannels, pc \in {"token", "sent"} :
          [n |-> requests + 1, kind |-> kind, pc |-> pc, own |-> TRUE, at |-> home, to |-> w,
           chans |-> {}, ids |-> ids, bots |-> botIds, of |-> channelsOf,
           moved |-> kind # "get" /\ moved, stale |-> FALSE, found |-> FALSE] \in Req
    BY <1>1 DEF Req
  <2>2. home \in WhoseChannels /\ NoWorkspace \in WhoseChannels
    BY <1>1 DEF WhoseChannels
  <2>3. r \in Req /\ Request(kind, NoWorkspace, ids, botIds) \in Req
    BY <2>1, <2>2 DEF Request
  <2> QED BY <2>3 DEF Req
<1>3. NewReq(r, kind, ids, botIds) /\ NewReq(q, kind, ids, botIds)
  BY <1>2 DEF NewReq, Request
<1>4. reqs' = rest \cup {r} \/ reqs' = rest \cup {q}
  BY DEF Ask
<1> HIDE DEF r, q
<1> QED BY <1>1, <1>2, <1>3, <1>4

\* Requests of a panel that was closed.
LeftReq(r) ==
  /\ r \in Req /\ ~r.own /\ r.kind # "get" /\ r.pc # "read"
  /\ r.pc # "token" => r.to \in Workspaces
  /\ r.kind = "save" => /\ r.bots \subseteq r.ids /\ r.of \in Workspaces
                        /\ ~r.moved => r.of = (IF r.pc = "token" THEN home ELSE r.to)

LEMMA LeftReqs == ASSUME PInv, NEW r \in Left PROVE LeftReq(r) /\ \E q \in reqs : r.pc = q.pc
<1>1. PICK q \in reqs : q.kind # "get" /\ r = [q EXCEPT !.own = FALSE]
  BY DEF Left
<1>2. ReqOK(q)
  BY DEF PInv
<1> DEFINE s == [q EXCEPT !.own = FALSE]
<1>3. /\ s \in Req /\ ~s.own /\ s.kind = q.kind /\ s.pc = q.pc /\ s.to = q.to /\ s.bots = q.bots
      /\ s.ids = q.ids /\ s.of = q.of /\ s.moved = q.moved
  BY <1>2 DEF ReqOK, Req
<1>4. r = s
  BY <1>1
<1> HIDE DEF s
<1>5. q.kind = "save" => /\ q.bots \subseteq q.ids /\ q.of \in Workspaces
                         /\ ~q.moved => q.of = (IF q.pc = "token" THEN home ELSE q.to)
  BY <1>2 DEF ReqOK, SaveReq
<1> QED BY <1>1, <1>2, <1>3, <1>4, <1>5 DEF LeftReq, ReqOK

LEMMA OwnLists == ASSUME PInv, NEW r \in reqs, r.kind = "get" PROVE r.own
BY DEF PInv, ReqOK, ListReq

\* Enabled buttons: the panel has no request under way.
LEMMA NoneOwn == ASSUME PInv, ~loading, busy = "no", NEW r \in reqs PROVE ~r.own /\ r.kind # "get"
<1>1. r.kind \in {"get", "save", "disconnect"}
  BY DEF PInv, ReqOK, Req
<1> QED BY <1>1, OwnLists DEF PInv, OneOwn

LEMMA OpenKeeps == ASSUME PInv, OpenPanel PROVE PInv'
<1>1. PICK q \in Req : NewReq(q, "get", {}, {}) /\ reqs' = Left \cup {q}
  BY AskReq DEF OpenPanel
<1>2. /\ Unmounted /\ loading' = TRUE /\ busy' = "no" /\ requests' \in Nat
      /\ UNCHANGED <<installed, chosen, storedBots, home>>
  BY AskReq DEF OpenPanel, server
<1>3. RowTypes' /\ ViewTypes' /\ ChannelTicksPersisted'
  BY <1>2, NoneActive DEF PInv, RowTypes, ViewTypes, WholeChannelList, ChannelTicksPersisted, Unmounted,
      WhoseChannels
<1>4. OneOwn'
  <2>1. \A r \in Left : ~r.own
    BY LeftReqs DEF LeftReq
  <2> QED BY <1>1, <1>2, <2>1 DEF OneOwn, NewReq
<1>5. ASSUME NEW r \in reqs' PROVE ReqOK(r)'
  <2>1. CASE r \in Left
    BY <1>2, <2>1, LeftReqs DEF LeftReq, ReqOK, SaveReq
  <2>2. CASE r = q
    BY <1>1, <1>2, <2>2 DEF NewReq, ReqOK, ListReq, PInv, RowTypes
  <2> QED BY <1>1, <1>5, <2>1, <2>2
<1> QED BY <1>3, <1>4, <1>5 DEF PInv

\* What a request is stays true when only the panel's own things move.
LEMMA OthersOK ==
  ASSUME NEW r, ReqOK(r), ~r.own, UNCHANGED <<chosen, storedBots, home>>
  PROVE  ReqOK(r)'
BY DEF ReqOK, ListReq, SaveReq

LEMMA ChannelsRefreshKeeps == ASSUME PInv, RefreshChannels PROVE PInv'
<1>1. PICK q \in Req : NewReq(q, "get", {}, {}) /\ reqs' = reqs \cup {q}
  BY AskReq DEF RefreshChannels
<1>2. /\ loading' = TRUE /\ busy' = busy /\ requests' \in Nat
      /\ UNCHANGED <<installed, chosen, storedBots, home, connected, shown, ticked, botTicked,
                     channelsOf, moved, touched>>
  BY AskReq DEF RefreshChannels, server, panelVars
<1>3. RowTypes' /\ ViewTypes' /\ ChannelTicksPersisted'
  BY <1>2 DEF PInv, RowTypes, ViewTypes, WholeChannelList, ChannelTicksPersisted
<1>4. \A r \in reqs : ~r.own
  BY NoneOwn DEF RefreshChannels, Enabled
<1>5. OneOwn'
  BY <1>1, <1>2, <1>4 DEF OneOwn, NewReq
<1>6. ASSUME NEW r \in reqs' PROVE ReqOK(r)'
  <2>1. CASE r \in reqs
    BY <1>2, <1>4, <2>1, OthersOK DEF PInv
  <2>2. CASE r = q
    BY <1>1, <1>2, <2>2 DEF NewReq, ReqOK, ListReq, PInv, RowTypes
  <2> QED BY <1>1, <1>6, <2>1, <2>2
<1> QED BY <1>3, <1>5, <1>6 DEF PInv

LEMMA ChannelsToggleKeeps ==
  ASSUME PInv, NEW c \in PanelChannels, ToggleChannel(c) \/ ToggleBots(c)
  PROVE  PInv'
<1>1. /\ ~loading /\ busy # "save" /\ touched' = TRUE
      /\ UNCHANGED <<installed, chosen, storedBots, home, connected, shown, channelsOf, moved, loading, busy,
                     reqs, requests>>
      /\ ticked' \subseteq shown /\ botTicked' \subseteq ticked'
  BY DEF ToggleChannel, ToggleBots, PInv, ViewTypes, WholeChannelList, server
<1>2. RowTypes' /\ ViewTypes' /\ ChannelTicksPersisted' /\ OneOwn'
  BY <1>1 DEF PInv, RowTypes, ViewTypes, WholeChannelList, ChannelTicksPersisted, OneOwn
<1>3. ASSUME NEW r \in reqs PROVE ReqOK(r)'
  <2>1. r.kind = "save" => ~r.own
    BY <1>1 DEF PInv, OneOwn
  <2> QED BY <1>1, <2>1 DEF PInv, ReqOK, ListReq, SaveReq
<1> QED BY <1>1, <1>2, <1>3 DEF PInv

LEMMA ChannelsSaveKeeps == ASSUME PInv, SaveChannels PROVE PInv'
<1>1. PICK q \in Req : NewReq(q, "save", ticked, botTicked \cap ticked) /\ reqs' = reqs \cup {q}
  BY AskReq DEF SaveChannels, PInv, ViewTypes, WholeChannelList
<1>2. /\ busy' = "save" /\ ~loading /\ requests' \in Nat /\ channelsOf \in Workspaces
      /\ UNCHANGED <<installed, chosen, storedBots, home, connected, shown, ticked, botTicked,
                     channelsOf, moved, touched, loading>>
  BY AskReq DEF SaveChannels, Enabled, server, panelVars, PInv, ViewTypes, WholeChannelList
<1>3. RowTypes' /\ ViewTypes' /\ ChannelTicksPersisted'
  BY <1>2 DEF PInv, RowTypes, ViewTypes, WholeChannelList, ChannelTicksPersisted
<1>4. \A r \in reqs : ~r.own
  BY NoneOwn DEF SaveChannels, Enabled
<1>5. OneOwn'
  BY <1>1, <1>2, <1>4 DEF OneOwn, NewReq
<1>6. ASSUME NEW r \in reqs' PROVE ReqOK(r)'
  <2>1. CASE r \in reqs
    BY <1>2, <1>4, <2>1, OthersOK DEF PInv
  <2>2. CASE r = q
    <3>1. /\ botTicked \cap ticked = botTicked /\ botTicked \subseteq ticked /\ home \in Workspaces
          /\ ~moved => channelsOf = home
      BY <1>2 DEF PInv, ViewTypes, WholeChannelList, RowTypes
    <3> QED BY <1>1, <1>2, <2>2, <3>1 DEF NewReq, ReqOK, SaveReq
  <2> QED BY <1>1, <1>6, <2>1, <2>2
<1> QED BY <1>3, <1>5, <1>6 DEF PInv

LEMMA DisconnectKeeps == ASSUME PInv, Disconnect PROVE PInv'
<1>1. PICK q \in Req : NewReq(q, "disconnect", {}, {}) /\ reqs' = reqs \cup {q}
  BY AskReq DEF Disconnect
<1>2. /\ busy' = "disconnect" /\ ~loading /\ requests' \in Nat
      /\ UNCHANGED <<installed, chosen, storedBots, home, connected, shown, ticked, botTicked,
                     channelsOf, moved, touched, loading>>
  BY AskReq, SMTT(30) DEF Disconnect, Enabled, server, panelVars
<1>3. RowTypes' /\ ViewTypes' /\ ChannelTicksPersisted'
  BY <1>2 DEF PInv, RowTypes, ViewTypes, WholeChannelList, ChannelTicksPersisted
<1>4. \A r \in reqs : ~r.own
  BY NoneOwn DEF Disconnect, Enabled
<1>5. OneOwn'
  BY <1>1, <1>2, <1>4 DEF OneOwn, NewReq
<1>6. ASSUME NEW r \in reqs' PROVE ReqOK(r)'
  <2>1. CASE r \in reqs
    BY <1>2, <1>4, <2>1, OthersOK DEF PInv
  <2>2. CASE r = q
    BY <1>1, <1>2, <2>2 DEF NewReq, ReqOK, PInv, RowTypes
  <2> QED BY <1>1, <1>6, <2>1, <2>2
<1> QED BY <1>3, <1>5, <1>6 DEF PInv

LEMMA ConnectKeeps == ASSUME PInv, Connect PROVE PInv'
<1>1. /\ Unmounted /\ reqs' = Left /\ installed' = installed \cup {home}
      /\ UNCHANGED <<chosen, storedBots, home, loading, busy, requests>>
  BY DEF Connect
<1>2. RowTypes' /\ ViewTypes' /\ ChannelTicksPersisted'
  BY <1>1, NoneActive DEF PInv, RowTypes, ViewTypes, WholeChannelList, ChannelTicksPersisted, Unmounted,
      WhoseChannels
<1>3. OneOwn'
  BY <1>1, LeftReqs DEF OneOwn, LeftReq
<1>4. ASSUME NEW r \in reqs' PROVE ReqOK(r)'
  BY <1>1, LeftReqs DEF LeftReq, ReqOK, SaveReq
<1> QED BY <1>2, <1>3, <1>4 DEF PInv

LEMMA ChannelsSwitchKeeps == ASSUME PInv, NEW w \in Workspaces, Switch(w) PROVE PInv'
<1>1. /\ reqs' = {Moved(r) : r \in reqs} /\ home' = w /\ moved' = TRUE
      /\ UNCHANGED <<installed, chosen, storedBots, connected, shown, ticked, botTicked, channelsOf,
                     touched, loading, busy, requests>>
  BY DEF Switch, server
<1>2. RowTypes' /\ ViewTypes' /\ ChannelTicksPersisted'
  BY <1>1 DEF PInv, RowTypes, ViewTypes, WholeChannelList, ChannelTicksPersisted
<1>3. ASSUME NEW r \in reqs
      PROVE  /\ Moved(r) \in Req /\ Moved(r).kind = r.kind /\ Moved(r).pc = r.pc
             /\ Moved(r).own = r.own /\ Moved(r).to = r.to /\ Moved(r).of = r.of
             /\ Moved(r).chans = r.chans /\ Moved(r).ids = r.ids /\ Moved(r).bots = r.bots
             /\ Moved(r).stale = r.stale
             /\ r.kind = "get" => (Moved(r).moved <=> r.moved \/ r.pc # "token")
             /\ r.kind # "get" => (Moved(r).moved <=> r.moved \/ r.pc = "token")
  <2> DEFINE f == r.moved \/ (IF r.kind = "get" THEN r.pc # "token" ELSE r.pc = "token")
  <2>1. r \in Req /\ f \in BOOLEAN
    BY DEF PInv, ReqOK, Req
  <2>2. Moved(r) = [r EXCEPT !.moved = f]
    BY DEF Moved
  <2>3. f <=> IF r.kind = "get" THEN r.moved \/ r.pc # "token" ELSE r.moved \/ r.pc = "token"
    BY <2>1 DEF Req
  <2> HIDE DEF f
  <2> QED BY <2>1, <2>2, <2>3 DEF Req
<1>4. OneOwn'
  <2>1. ASSUME NEW s \in reqs', NEW t \in reqs', s.own, t.own PROVE s = t
    <3>1. PICK q \in reqs : s = Moved(q)
      BY <1>1
    <3>2. PICK p \in reqs : t = Moved(p)
      BY <1>1
    <3>3. q = p
      BY <1>3, <2>1, <3>1, <3>2 DEF PInv, OneOwn
    <3> QED BY <3>1, <3>2, <3>3
  <2>2. ASSUME NEW s \in reqs', s.own
        PROVE  CASE s.kind = "get"  -> loading
                 [] s.kind = "save" -> ~loading /\ busy = "save"
                 [] OTHER           -> ~loading /\ busy = "disconnect"
    <3>1. PICK q \in reqs : s = Moved(q)
      BY <1>1
    <3> QED BY <1>3, <2>2, <3>1 DEF PInv, OneOwn
  <2> QED BY <1>1, <2>1, <2>2 DEF OneOwn
<1>5. ASSUME NEW s \in reqs' PROVE ReqOK(s)'
  <2>1. PICK q \in reqs : s = Moved(q)
    BY <1>1
  <2>2. ReqOK(q)
    BY DEF PInv
  <2>3. s.kind = "get" => ListReq(s)'
    BY <1>1, <1>3, <2>1, <2>2 DEF ReqOK, ListReq
  <2>4. s.kind = "save" => SaveReq(s)'
    BY <1>1, <1>3, <2>1, <2>2 DEF ReqOK, SaveReq
  <2> QED BY <1>3, <2>1, <2>2, <2>3, <2>4 DEF ReqOK
<1> QED BY <1>2, <1>4, <1>5 DEF PInv

-----------------------------------------------------------------------------
(* One request goes on: q replaces r.                                      *)

LEMMA Replace ==
  ASSUME PInv, NEW r \in reqs, NEW q \in Req, reqs' = (reqs \ {r}) \cup {q},
         UNCHANGED <<installed, chosen, storedBots, home, connected, shown, ticked, botTicked,
                     channelsOf, moved, touched, loading, busy, requests>>,
         q.own = r.own, q.kind = r.kind, ReqOK(q)
  PROVE  PInv'
<1>1. RowTypes' /\ ViewTypes' /\ ChannelTicksPersisted'
  BY DEF PInv, RowTypes, ViewTypes, WholeChannelList, ChannelTicksPersisted
<1>2. OneOwn'
  BY DEF PInv, OneOwn
<1>3. \A s \in reqs' : ReqOK(s)'
  BY DEF PInv, ReqOK, ListReq, SaveReq
<1> QED BY <1>1, <1>2, <1>3 DEF PInv

LEMMA SendKeeps == ASSUME PInv, NEW r \in reqs, Send(r) PROVE PInv'
<1> DEFINE q == [r EXCEPT !.pc = "sent", !.to = home]
<1>1. ReqOK(r) /\ r.pc = "token" /\ reqs' = (reqs \ {r}) \cup {q} /\ home \in Workspaces
  BY DEF PInv, Send, RowTypes
<1>2. /\ q \in Req /\ q.own = r.own /\ q.kind = r.kind /\ q.pc = "sent" /\ q.to = home /\ q.of = r.of
      /\ q.ids = r.ids /\ q.bots = r.bots /\ q.chans = r.chans /\ q.stale = r.stale
      /\ q.moved = r.moved
  BY <1>1 DEF ReqOK, Req, WhoseChannels
<1> HIDE DEF q
<1>3. ReqOK(q)
  BY <1>1, <1>2 DEF ReqOK, ListReq, SaveReq
<1>4. UNCHANGED <<installed, chosen, storedBots, home, connected, shown, ticked, botTicked,
                  channelsOf, moved, touched, loading, busy, requests>>
  BY DEF Send, server, panelVars
<1> QED BY <1>1, <1>2, <1>3, <1>4, Replace

LEMMA ChannelsReadKeeps == ASSUME PInv, NEW r \in reqs, Read(r) PROVE PInv'
<1>1. /\ ReqOK(r) /\ r.kind = "get" /\ r.pc = "sent" /\ r.to \in Workspaces /\ r.own
      /\ r.chans = {} /\ r.ids = {} /\ r.bots = {}
      /\ ~r.moved => r.to = home
  BY DEF PInv, Read, ReqOK, ListReq, RowTypes
<1>2. /\ ChannelsOf(r.to) \in SUBSET PanelChannels /\ chosen[r.to] \in SUBSET ChannelsOf(r.to)
      /\ storedBots[r.to] \in SUBSET chosen[r.to]
  BY <1>1, ChannelAssumption DEF PInv, RowTypes
<1>3. PICK q \in Req :
        /\ reqs' = (reqs \ {r}) \cup {q} /\ q.own = r.own /\ q.kind = r.kind /\ q.pc = "read" /\ q.to = r.to
        /\ q.moved = r.moved
        /\ \/ q.chans = {} /\ q.ids = {} /\ q.bots = {}
           \/ q.chans = ChannelsOf(r.to) /\ q.ids = chosen[r.to] /\ q.bots = storedBots[r.to]
  <2> DEFINE full  == [r EXCEPT !.pc = "read", !.found = TRUE, !.chans = ChannelsOf(r.to),
                                !.ids = chosen[r.to], !.bots = storedBots[r.to]]
             none  == [r EXCEPT !.pc = "read"]
             empty == [r EXCEPT !.pc = "read", !.found = TRUE]
  <2>1. /\ full \in Req /\ full.moved = r.moved /\ full.own = r.own /\ full.kind = r.kind /\ full.pc = "read" /\ full.to = r.to
        /\ full.chans = ChannelsOf(r.to) /\ full.ids = chosen[r.to] /\ full.bots = storedBots[r.to]
    BY <1>1, <1>2 DEF ReqOK, Req
  <2>2. /\ none \in Req /\ none.moved = r.moved /\ none.own = r.own /\ none.kind = r.kind /\ none.pc = "read" /\ none.to = r.to
        /\ none.chans = {} /\ none.ids = {} /\ none.bots = {}
    BY <1>1 DEF ReqOK, Req
  <2>3. /\ empty \in Req /\ empty.moved = r.moved /\ empty.own = r.own /\ empty.kind = r.kind /\ empty.pc = "read"
        /\ empty.to = r.to /\ empty.chans = {} /\ empty.ids = {} /\ empty.bots = {}
    BY <1>1 DEF ReqOK, Req
  <2>4. \/ reqs' = (reqs \ {r}) \cup {full} \/ reqs' = (reqs \ {r}) \cup {none}
        \/ reqs' = (reqs \ {r}) \cup {empty}
    BY DEF Read
  <2> HIDE DEF full, none, empty
  <2> QED BY <2>1, <2>2, <2>3, <2>4
<1>4. ReqOK(q)
  BY <1>1, <1>2, <1>3 DEF ReqOK, ListReq
<1>5. UNCHANGED <<installed, chosen, storedBots, home, connected, shown, ticked, botTicked,
                  channelsOf, moved, touched, loading, busy, requests>>
  BY DEF Read, server, panelVars
<1> QED BY <1>3, <1>4, <1>5, Replace

LEMMA ChannelsArriveKeeps == ASSUME PInv, NEW r \in reqs, Arrive(r) PROVE PInv'
<1>1. /\ ReqOK(r) /\ r.own /\ ListReq(r) /\ r.pc = "read" /\ r.to \in Workspaces /\ reqs' = reqs \ {r}
      /\ r \in Req
  BY DEF PInv, Arrive, ReqOK, ListReq
<1>2. /\ connected' = r.found /\ shown' = r.chans /\ ticked' = r.ids /\ botTicked' = r.bots
      /\ channelsOf' = r.to /\ moved' = r.moved /\ touched' = r.stale /\ loading' = FALSE /\ busy' = "no"
      /\ UNCHANGED <<installed, chosen, storedBots, home, requests>>
  BY <1>1 DEF Arrive, server
<1>3. \A s \in reqs' : ~s.own
  BY <1>1 DEF PInv, OneOwn
<1>4. RowTypes' /\ ChannelTicksPersisted' /\ OneOwn'
  BY <1>1, <1>2, <1>3 DEF PInv, RowTypes, ChannelTicksPersisted, OneOwn, ListReq
<1>5. ViewTypes'
  <2>1. r.found \in BOOLEAN /\ r.moved \in BOOLEAN /\ r.stale \in BOOLEAN /\ r.chans \in SUBSET PanelChannels
    BY <1>1 DEF Req
  <2> QED BY <1>1, <1>2, <2>1 DEF PInv, ViewTypes, WholeChannelList, RowTypes, ListReq, WhoseChannels
<1>6. ASSUME NEW s \in reqs' PROVE ReqOK(s)'
  BY <1>1, <1>2, <1>3, OthersOK DEF PInv
<1> QED BY <1>4, <1>5, <1>6 DEF PInv

-----------------------------------------------------------------------------
(* Answers to saves and disconnects.                                       *)

\* Those that were not read yet stay as they are; the others may be stale.
LEMMA OthersAre ==
  ASSUME PInv, NEW r \in reqs, NEW s \in Others(r)
  PROVE  /\ \E q \in reqs \ {r} : s.own = q.own /\ s.kind = q.kind
         /\ s \in Req /\ (s.pc # "token" => s.to \in Workspaces) /\ (s.pc = "read" => s.kind = "get")
         /\ s.kind = "get" => ListReq(s) /\ (~r.own /\ s.pc = "read" => s.stale)
         /\ s.kind = "save" => SaveReq(s)
<1>1. PICK q \in reqs \ {r} : s = IF ~r.own /\ q.pc = "read" THEN [q EXCEPT !.stale = TRUE] ELSE q
  BY DEF Others
<1>2. ReqOK(q)
  BY DEF PInv
<1>3. CASE ~r.own /\ q.pc = "read"
  <2> DEFINE t == [q EXCEPT !.stale = TRUE]
  <2>1. /\ t \in Req /\ t.own = q.own /\ t.kind = q.kind /\ t.pc = q.pc /\ t.to = q.to /\ t.of = q.of
        /\ t.ids = q.ids /\ t.bots = q.bots /\ t.chans = q.chans /\ t.stale
        /\ t.moved = q.moved
    BY <1>2 DEF ReqOK, Req
  <2>2. s = t
    BY <1>1, <1>3
  <2> HIDE DEF t
  <2> QED BY <1>2, <1>3, <2>1, <2>2 DEF ReqOK, ListReq
<1>4. CASE r.own \/ q.pc # "read"
  BY <1>1, <1>2, <1>4 DEF ReqOK
<1> QED BY <1>3, <1>4

LEMMA OutcomesAre ==
  ASSUME NEW found \in BOOLEAN, NEW o \in Outcomes(found)
  PROVE  o.done \in BOOLEAN /\ o.ok \in BOOLEAN /\ (o.done => found) /\ (o.ok => o.done)
<1> DEFINE Outcome == {x \in [done : BOOLEAN, ok : BOOLEAN] : (x.done => found) /\ (x.ok => x.done)}
<1>1. [done |-> found, ok |-> found] \in Outcome /\ [done : {FALSE, found}, ok : {FALSE}] \subseteq Outcome
  OBVIOUS
<1>2. o \in Outcome
  <2> HIDE DEF Outcome
  <2> QED BY <1>1 DEF Outcomes
<1> QED BY <1>2

\* What an answer to nobody changes is noted in what was shown or read before.
LEMMA OthersKeep ==
  ASSUME PInv, NEW r \in reqs, r.kind # "get", home' = home, NEW s \in Others(r),
         UNCHANGED <<ticked, botTicked, channelsOf>> \/ r.own
  PROVE  ReqOK(s)'
<1>1. PICK q \in reqs \ {r} : s.own = q.own /\ s.kind = q.kind
  BY OthersAre
<1>2. /\ s \in Req /\ (s.pc # "token" => s.to \in Workspaces) /\ (s.pc = "read" => s.kind = "get")
      /\ s.kind = "get" => ListReq(s) /\ (~r.own /\ s.pc = "read" => s.stale)
      /\ s.kind = "save" => SaveReq(s)
  BY OthersAre
<1>3. r.own => ~s.own
  BY <1>1 DEF PInv, OneOwn
<1>4. s.kind = "get" => s.own
  BY <1>1, OwnLists
<1>5. s.kind = "get" => ListReq(s)'
  BY <1>2, <1>3, <1>4 DEF ListReq
<1>6. s.kind = "save" => SaveReq(s)'
  BY <1>2, <1>3 DEF SaveReq
<1> QED BY <1>2, <1>5, <1>6 DEF ReqOK

LEMMA OthersOwn ==
  ASSUME PInv, NEW r \in reqs, NEW s \in Others(r)
  PROVE  /\ r.own => ~s.own
         /\ s.own => CASE s.kind = "get"  -> loading
                        [] s.kind = "save" -> ~loading /\ busy = "save"
                        [] OTHER           -> ~loading /\ busy = "disconnect"
BY OthersAre DEF PInv, OneOwn

LEMMA OthersAreOne ==
  ASSUME PInv, NEW r \in reqs, NEW s \in Others(r), NEW t \in Others(r), s.own, t.own
  PROVE  s = t
<1>1. PICK q \in reqs \ {r} : s = IF ~r.own /\ q.pc = "read" THEN [q EXCEPT !.stale = TRUE] ELSE q
  BY DEF Others
<1>2. PICK p \in reqs \ {r} : t = IF ~r.own /\ p.pc = "read" THEN [p EXCEPT !.stale = TRUE] ELSE p
  BY DEF Others
<1>3. ReqOK(q) /\ ReqOK(p)
  BY DEF PInv
<1>4. q.own = s.own /\ p.own = t.own
  BY <1>1, <1>2, <1>3 DEF ReqOK, Req
<1> QED BY <1>1, <1>2, <1>4 DEF PInv, OneOwn

LEMMA ChannelsSavedKeeps == ASSUME PInv, NEW r \in reqs, ChannelsSaved(r) PROVE PInv'
<1>1. /\ ReqOK(r) /\ r.kind = "save" /\ r.pc = "sent" /\ r.to \in Workspaces /\ SaveReq(r)
      /\ r \in Req /\ r.own \in BOOLEAN
  BY DEF PInv, ChannelsSaved, ReqOK, SaveReq, Req
<1>2. (r.to \in installed) \in BOOLEAN
  OBVIOUS
<1>3. PICK o \in Outcomes(r.to \in installed) :
        /\ chosen' = IF o.done THEN [chosen EXCEPT ![r.to] = r.ids \cap ChannelsOf(r.to)] ELSE chosen
        /\ storedBots' = IF o.done THEN [storedBots EXCEPT ![r.to] = r.bots \cap ChannelsOf(r.to)]
                         ELSE storedBots
        /\ IF r.own /\ o.ok THEN Ask(Others(r), "get", {}, {}) /\ loading' = TRUE /\ busy' = busy
           ELSE /\ reqs' = Others(r) /\ busy' = (IF r.own THEN "no" ELSE busy)
                /\ UNCHANGED <<loading, requests>>
  BY DEF ChannelsSaved
<1>4. o.done \in BOOLEAN /\ o.ok \in BOOLEAN /\ (o.ok => o.done)
  BY <1>2, OutcomesAre
<1>5. /\ touched' = (touched \/ ~r.own)
      /\ UNCHANGED <<installed, home, connected, shown, ticked, botTicked, channelsOf, moved>>
  BY DEF ChannelsSaved
<1>6. \/ chosen' = chosen /\ storedBots' = storedBots
      \/ /\ chosen' = [chosen EXCEPT ![r.to] = r.ids \cap ChannelsOf(r.to)]
         /\ storedBots' = [storedBots EXCEPT ![r.to] = r.bots \cap ChannelsOf(r.to)]
  BY <1>3, <1>4
<1>7. RowTypes'
  <2>1. r.ids \in SUBSET PanelChannels /\ r.bots \in SUBSET PanelChannels /\ r.bots \subseteq r.ids
    BY <1>1 DEF Req, SaveReq
  <2> QED BY <1>1, <1>5, <1>6, <2>1 DEF PInv, RowTypes
<1>8. ChannelTicksPersisted'
  <2>1. CASE ~r.own
    BY <1>5, <2>1 DEF ChannelTicksPersisted
  <2>2. CASE r.own
    <3>1. r.ids = ticked /\ r.bots = botTicked
      BY <1>1, <2>2 DEF SaveReq
    <3>2. CASE shown # {} /\ r.to = channelsOf
      <4>1. ticked \cap ChannelsOf(r.to) = ticked /\ botTicked \cap ChannelsOf(r.to) = botTicked
        BY <3>2 DEF PInv, ViewTypes, WholeChannelList
      <4> QED BY <1>1, <1>5, <1>6, <2>2, <3>1, <3>2, <4>1 DEF ChannelTicksPersisted, PInv, RowTypes
    <3>3. CASE ~(shown # {} /\ r.to = channelsOf)
      <4>1. shown # {} => chosen'[channelsOf] = chosen[channelsOf]
                          /\ storedBots'[channelsOf] = storedBots[channelsOf]
        BY <1>1, <1>6, <3>3 DEF PInv, RowTypes, ViewTypes
      <4> QED BY <1>5, <2>2, <4>1 DEF ChannelTicksPersisted, PInv
    <3> QED BY <3>2, <3>3
  <2> QED BY <1>1, <2>1, <2>2
<1>9. \A s \in Others(r) : ReqOK(s)'
  BY <1>1, <1>5, OthersKeep
<1>10. CASE r.own /\ o.ok
  <2>1. Ask(Others(r), "get", {}, {}) /\ loading' = TRUE /\ busy' = busy
    BY <1>3, <1>10
  <2>2. PICK q \in Req : NewReq(q, "get", {}, {}) /\ reqs' = Others(r) \cup {q}
    BY <2>1, AskReq
  <2>3. requests' \in Nat
    BY <2>1 DEF Ask, PInv, ViewTypes, WholeChannelList
  <2>4. ViewTypes'
    BY <1>1, <1>5, <2>1, <2>3 DEF PInv, ViewTypes, WholeChannelList
  <2>5. \A s \in Others(r) : ~s.own
    BY <1>10, OthersOwn
  <2>6. OneOwn'
    BY <2>1, <2>2, <2>5 DEF OneOwn, NewReq
  <2>7. ReqOK(q)'
    BY <1>5, <2>2 DEF NewReq, ReqOK, ListReq, PInv, RowTypes
  <2> QED BY <1>7, <1>8, <1>9, <2>2, <2>4, <2>6, <2>7 DEF PInv
<1>11. CASE ~(r.own /\ o.ok)
  <2>1. reqs' = Others(r) /\ busy' = (IF r.own THEN "no" ELSE busy) /\ UNCHANGED <<loading, requests>>
    BY <1>3, <1>11
  <2>2. ViewTypes'
    BY <1>1, <1>5, <2>1 DEF PInv, ViewTypes, WholeChannelList
  <2>3. OneOwn'
    BY <2>1, OthersOwn, OthersAreOne DEF OneOwn
  <2> QED BY <1>7, <1>8, <1>9, <2>1, <2>2, <2>3 DEF PInv
<1> QED BY <1>10, <1>11

LEMMA DisconnectedKeeps == ASSUME PInv, NEW r \in reqs, Disconnected(r) PROVE PInv'
<1>1. /\ ReqOK(r) /\ r.kind = "disconnect" /\ r.pc = "sent" /\ r.to \in Workspaces
      /\ r.own \in BOOLEAN
  BY DEF PInv, Disconnected, ReqOK, Req
<1>2. (r.to \in installed) \in BOOLEAN
  OBVIOUS
<1>3. PICK o \in Outcomes(r.to \in installed) :
        /\ installed' = IF o.done THEN installed \ {r.to} ELSE installed
        /\ chosen' = IF o.done THEN [chosen EXCEPT ![r.to] = {}] ELSE chosen
        /\ storedBots' = IF o.done THEN [storedBots EXCEPT ![r.to] = {}] ELSE storedBots
        /\ IF r.own /\ o.ok THEN Unmounted
           ELSE touched' = TRUE /\ UNCHANGED <<connected, shown, ticked, botTicked, channelsOf, moved>>
  BY DEF Disconnected
<1>4. o.done \in BOOLEAN /\ o.ok \in BOOLEAN
  BY <1>2, OutcomesAre
<1>5. reqs' = Others(r) /\ busy' = (IF r.own THEN "no" ELSE busy) /\ UNCHANGED <<home, loading, requests>>
  BY DEF Disconnected
<1>6. RowTypes'
  BY <1>1, <1>3, <1>4, <1>5 DEF PInv, RowTypes
<1>7. ViewTypes' /\ ChannelTicksPersisted'
  <2>1. CASE r.own /\ o.ok
    BY <1>3, <1>5, <2>1, NoneActive DEF PInv, ViewTypes, WholeChannelList, ChannelTicksPersisted, Unmounted,
      WhoseChannels
  <2>2. CASE ~(r.own /\ o.ok)
    BY <1>1, <1>3, <1>5, <2>2 DEF PInv, ViewTypes, WholeChannelList, ChannelTicksPersisted
  <2> QED BY <2>1, <2>2
<1>8. OneOwn'
  BY <1>5, OthersOwn, OthersAreOne DEF OneOwn
<1>9. UNCHANGED <<ticked, botTicked, channelsOf>> \/ r.own
  BY <1>3
<1>10. \A s \in Others(r) : ReqOK(s)'
  BY <1>1, <1>5, <1>9, OthersKeep
<1> QED BY <1>5, <1>6, <1>7, <1>8, <1>10 DEF PInv

-----------------------------------------------------------------------------
LEMMA PInvStep == ASSUME PInv, [ChannelNext]_channelVars PROVE PInv'
<1>1. CASE OpenPanel
  BY <1>1, OpenKeeps
<1>2. CASE RefreshChannels
  BY <1>2, ChannelsRefreshKeeps
<1>3. CASE SaveChannels
  BY <1>3, ChannelsSaveKeeps
<1>4. CASE Disconnect
  BY <1>4, DisconnectKeeps
<1>5. CASE Connect
  BY <1>5, ConnectKeeps
<1>6. CASE \E c \in PanelChannels : ToggleChannel(c) \/ ToggleBots(c)
  BY <1>6, ChannelsToggleKeeps
<1>7. CASE \E w \in Workspaces : Switch(w)
  BY <1>7, ChannelsSwitchKeeps
<1>8. CASE \E r \in reqs : Send(r) \/ Read(r) \/ Arrive(r) \/ ChannelsSaved(r) \/ Disconnected(r)
  BY <1>8, SendKeeps, ChannelsReadKeeps, ChannelsArriveKeeps, ChannelsSavedKeeps, DisconnectedKeeps
<1>9. CASE UNCHANGED channelVars
  BY <1>9 DEF channelVars, PInv, RowTypes, ViewTypes, WholeChannelList, OneOwn, ReqOK, ListReq, SaveReq, ChannelTicksPersisted
<1> QED BY <1>1, <1>2, <1>3, <1>4, <1>5, <1>6, <1>7, <1>8, <1>9 DEF ChannelNext

(* Wherever requests go and whenever the workspace is switched: the panel  *)
(* shows one list, its ticks are what is stored for its workspace unless   *)
(* one side was changed since, and a save goes to that workspace unless    *)
(* another one was made active meanwhile (SlackSettings.jsx handleSave and *)
(* refresh, authHeaders).                                                  *)
THEOREM ChannelsAgreeCorrect == ChannelSpec => []ChannelsAgree
<1>1. ChannelInit => PInv
  BY PInvInit
<1>2. PInv /\ [ChannelNext]_channelVars => PInv'
  BY PInvStep
<1>3. PInv => ChannelsAgree
  BY DEF PInv, ChannelsAgree, SavedWhereShown, ViewTypes, ReqOK, SaveReq
<1> QED BY <1>1, <1>2, <1>3, PTL DEF ChannelSpec

-----------------------------------------------------------------------------
(* ChatClient, for any number of turns and clears.                         *)

USE ChatAssumption

ChatSessions == [state : {"none", "asked", "known", "failed"}, id : Nat, answer : BOOLEAN]
MessagesOf == [turn : Turns, role : {"user", "assistant"}, session : Nat]

SessionsOK ==
  /\ session \in [Turns -> ChatSessions]
  /\ turns \in 0..MaxTurns /\ current \in Nat
  /\ posts \cup messages \subseteq MessagesOf
  \* Turns that were not asked have no session.
  /\ \A t \in Turns : session[t].state # "none" => t <= turns

(* A message goes to the session its turn knows, which never changes.      *)
MessagesFollow ==
  \A m \in messages \cup posts : /\ session[m.turn].state = "known"
                                 /\ m.session = session[m.turn].id

MInv == SessionsOK /\ MessagesFollow

-----------------------------------------------------------------------------
LEMMA TurnsAreNat == Turns \subseteq Nat \ {0} /\ \A t \in Turns : t <= MaxTurns
BY DEF Turns

LEMMA MInvInit == ChatInit => MInv
BY DEF ChatInit, MInv, SessionsOK, MessagesFollow, ChatSessions, None, NoSession

\* The messages a turn is mirrored by.
LEMMA MirroredType ==
  ASSUME NEW t \in Turns, NEW role \in {"user", "assistant"}, NEW s \in ChatSessions,
         NEW m \in Mirrored(t, role, s)
  PROVE  m \in MessagesOf /\ s.state = "known" /\ m.turn = t /\ m.session = s.id
BY DEF Mirrored, Message, MessagesOf, ChatSessions

\* Turn t gets session s and new messages that agree with it; a session that
\* messages of t may be in already stays what it is.
LEMMA SessionStep ==
  ASSUME MInv, NEW t \in Turns, NEW s \in ChatSessions, NEW new,
         session' = [session EXCEPT ![t] = s],
         session[t].state = "known" => s.state = "known" /\ s.id = session[t].id,
         \A m \in new : m \in MessagesOf /\ s.state = "known" /\ m.turn = t /\ m.session = s.id,
         posts' = posts \cup new, messages' = messages,
         turns' \in 0..MaxTurns, turns <= turns', current' \in Nat,
         s.state # "none" => t <= turns'
  PROVE  MInv'
<1>1. /\ session' \in [Turns -> ChatSessions]
      /\ \A u \in Turns : session'[u] = IF u = t THEN s ELSE session[u]
  BY DEF MInv, SessionsOK
<1>2. (posts \cup messages)' \subseteq MessagesOf
  BY DEF MInv, SessionsOK
<1>3. \A u \in Turns : session'[u].state # "none" => u <= turns'
  BY <1>1, TurnsAreNat DEF MInv, SessionsOK
<1>4. SessionsOK'
  BY <1>1, <1>2, <1>3 DEF SessionsOK
<1>5. ASSUME NEW m \in messages' \cup posts'
      PROVE  session'[m.turn].state = "known" /\ m.session = session'[m.turn].id
  <2>1. CASE m \in new
    BY <1>1, <2>1
  <2>2. CASE m \in messages \cup posts
    <3>1. /\ m.turn \in Turns /\ session[m.turn].state = "known"
          /\ m.session = session[m.turn].id
      BY <2>2 DEF MInv, SessionsOK, MessagesFollow, MessagesOf
    <3> QED BY <1>1, <3>1
  <2> QED BY <1>5, <2>1, <2>2
<1> QED BY <1>4, <1>5 DEF MInv, MessagesFollow

\* A step that posts nothing new and leaves the sessions alone.
LEMMA QuietStep ==
  ASSUME MInv, UNCHANGED <<session, turns>>, current' \in Nat,
         messages' \cup posts' \subseteq messages \cup posts
  PROVE  MInv'
BY DEF MInv, SessionsOK, MessagesFollow

LEMMA SubmitKeeps == ASSUME MInv, NEW t \in Turns, Submit(t) PROVE MInv'
<1> DEFINE s == Ensured(t)
<1>1. /\ t = turns + 1 /\ turns' = t /\ UNCHANGED <<current, messages>>
      /\ session' = [session EXCEPT ![t] = s] /\ posts' = posts \cup Mirrored(t, "user", s)
  BY DEF Submit
<1>2. s \in ChatSessions
  BY DEF MInv, SessionsOK, Ensured, None, NoSession, ChatSessions
<1>3. session[t].state = "none"
  BY <1>1, TurnsAreNat DEF MInv, SessionsOK
<1> HIDE DEF s
<1>4. \A m \in Mirrored(t, "user", s) :
        m \in MessagesOf /\ s.state = "known" /\ m.turn = t /\ m.session = s.id
  BY <1>2, MirroredType
<1>5. turns' \in 0..MaxTurns /\ turns <= turns' /\ t <= turns' /\ current' \in Nat
  BY <1>1, TurnsAreNat DEF MInv, SessionsOK
<1> QED BY <1>1, <1>2, <1>3, <1>4, <1>5, SessionStep

LEMMA CreatedKeeps == ASSUME MInv, NEW t \in Turns, Created(t) PROVE MInv'
<1> DEFINE s == [session[t] EXCEPT !.state = "known", !.id = t]
           new == Mirrored(t, "user", s)
                    \cup IF s.answer THEN Mirrored(t, "assistant", s) ELSE {}
<1>1. /\ session[t].state = "asked" /\ session' = [session EXCEPT ![t] = s]
      /\ posts' = posts \cup new /\ current' = t /\ UNCHANGED <<messages, turns>>
  BY DEF Created
<1>2. s \in ChatSessions
  BY TurnsAreNat DEF MInv, SessionsOK, ChatSessions
<1> HIDE DEF s
<1>3. \A m \in new : m \in MessagesOf /\ s.state = "known" /\ m.turn = t /\ m.session = s.id
  BY <1>2, MirroredType
<1> HIDE DEF new
<1>4. turns' \in 0..MaxTurns /\ turns <= turns' /\ t <= turns' /\ current' \in Nat
  BY <1>1, TurnsAreNat DEF MInv, SessionsOK
<1> QED BY <1>1, <1>2, <1>3, <1>4, SessionStep

LEMMA CreateFailsKeeps == ASSUME MInv, NEW t \in Turns, CreateFails(t) PROVE MInv'
<1> DEFINE s == [session[t] EXCEPT !.state = "failed"]
           new == {m \in MessagesOf : FALSE}
<1>1. /\ session[t].state = "asked" /\ session' = [session EXCEPT ![t] = s]
      /\ UNCHANGED <<posts, messages, turns, current>>
  BY DEF CreateFails
<1>2. s \in ChatSessions
  BY DEF MInv, SessionsOK, ChatSessions
<1>3. posts' = posts \cup new
      /\ \A m \in new : m \in MessagesOf /\ s.state = "known" /\ m.turn = t /\ m.session = s.id
  BY <1>1
<1> HIDE DEF s, new
<1>4. /\ turns' \in 0..MaxTurns /\ turns <= turns' /\ t <= turns' /\ current' \in Nat
  BY <1>1, TurnsAreNat DEF MInv, SessionsOK
<1> QED BY <1>1, <1>2, <1>3, <1>4, SessionStep

LEMMA DoneKeeps == ASSUME MInv, NEW t \in Turns, Done(t) PROVE MInv'
<1> DEFINE s == [session[t] EXCEPT !.answer = TRUE]
           new == Mirrored(t, "assistant", session[t])
<1>1. /\ session' = [session EXCEPT ![t] = s] /\ posts' = posts \cup new
      /\ UNCHANGED <<messages, turns, current>>
  BY DEF Done
<1>2. session[t] \in ChatSessions
  BY DEF MInv, SessionsOK
<1>3. s \in ChatSessions /\ s.state = session[t].state /\ s.id = session[t].id
  BY <1>2 DEF ChatSessions
<1> HIDE DEF s
<1>4. \A m \in new : m \in MessagesOf /\ s.state = "known" /\ m.turn = t /\ m.session = s.id
  BY <1>2, <1>3, MirroredType
<1> HIDE DEF new
<1>5. turns' \in 0..MaxTurns /\ turns <= turns' /\ current' \in Nat
      /\ (s.state # "none" => t <= turns')
  BY <1>1, <1>3, TurnsAreNat DEF MInv, SessionsOK
<1> QED BY <1>1, <1>3, <1>4, <1>5, SessionStep

LEMMA MInvStep == MInv /\ [ChatNext]_chatVars => MInv'
<1> SUFFICES ASSUME MInv, [ChatNext]_chatVars PROVE MInv'
  OBVIOUS
<1>1. current \in Nat /\ 0 \in Nat
  BY DEF MInv, SessionsOK
<1>2. CASE Stop \/ Clear \/ UNCHANGED chatVars
  <2>1. UNCHANGED <<session, turns, posts, messages>> /\ current' \in {current, 0}
    BY <1>2 DEF Stop, Clear, NoSession, chatVars
  <2> QED BY <1>1, <2>1, QuietStep
<1>3. ASSUME NEW m \in posts, Stored(m) \/ Lost(m) PROVE MInv'
  <2>1. /\ UNCHANGED <<session, turns, current>>
        /\ messages' \cup posts' \subseteq messages \cup posts
    BY <1>3 DEF Stored, Lost
  <2> QED BY <1>1, <2>1, QuietStep
<1>4. ASSUME NEW t \in Turns, Token(t) \/ Close(t) \/ Break(t) PROVE MInv'
  <2>1. UNCHANGED <<session, turns, posts, messages, current>>
    BY <1>4 DEF Token, Close, Break
  <2> QED BY <1>1, <2>1, QuietStep
<1>5. ASSUME NEW t \in Turns, Submit(t) \/ Created(t) \/ CreateFails(t) \/ Done(t)
      PROVE  MInv'
  BY <1>5, SubmitKeeps, CreatedKeeps, CreateFailsKeeps, DoneKeeps
<1> QED BY <1>2, <1>3, <1>4, <1>5 DEF ChatNext, Network

LEMMA MInvTurn == MInv => TurnInOneSession
BY DEF MInv, MessagesFollow, TurnInOneSession

(* Whatever is cleared, stopped, late or lost, the messages of a turn are  *)
(* posted to one session: mirrorChatMessage captures the session's promise *)
(* once (App.jsx).                                                         *)
THEOREM TurnCorrect == ChatSpec => []TurnInOneSession
<1> QED BY MInvInit, MInvStep, MInvTurn, PTL DEF ChatSpec

-----------------------------------------------------------------------------
(* Streams, whose access tokens may be late.                               *)

StreamStates == {"none", "token", "open", "done", "closed"}
BubbleStates == {"none", "streaming", "answered", "failed", "stopped"}

StreamTypes ==
  /\ stream \in [Turns -> StreamStates] /\ bubble \in [Turns -> BubbleStates]
  /\ turns \in 0..MaxTurns /\ active \in 0..turns /\ aborted \subseteq 1..turns

SInv == StreamTypes /\ AbortReaches /\ BubblesAlive

LEMMA SInvInit == ChatInit => SInv
BY DEF ChatInit, SInv, StreamTypes, AbortReaches, BubblesAlive, Live, StreamStates, BubbleStates

\* A stream ends, and so does its bubble; whatever finally does, others are not touched.
LEMMA EndKeeps ==
  ASSUME SInv, NEW t \in Turns, NEW s \in BubbleStates \ {"streaming"},
         stream' = [stream EXCEPT ![t] = "closed"],
         Closed(t), bubble' = Patched(bubble, t, s), UNCHANGED turns,
         aborted \subseteq aborted', aborted' \subseteq 1..turns
  PROVE  SInv'
<1>1. \A u \in Turns : stream'[u] = IF u = t THEN "closed" ELSE stream[u]
  BY DEF SInv, StreamTypes
<1>2. /\ bubble' \in [Turns -> BubbleStates]
      /\ \A u \in Turns : IF u = t THEN bubble'[u] # "streaming" ELSE bubble'[u] = bubble[u]
  BY DEF SInv, StreamTypes, Patched, BubbleStates
<1>3. active' = (IF active = t THEN 0 ELSE active) /\ turns' = turns
  BY DEF Closed
<1>4. StreamTypes'
  <2>1. stream' \in [Turns -> StreamStates]
    BY DEF SInv, StreamTypes, StreamStates
  <2>2. active' \in 0..turns' /\ turns' \in 0..MaxTurns
    BY <1>3, TurnsAreNat DEF SInv, StreamTypes
  <2> QED BY <1>2, <1>3, <2>1, <2>2 DEF StreamTypes
<1>5. ASSUME NEW u \in Turns, Live(u)' PROVE active' = u
  <2>1. stream'[u] \in {"token", "open", "done"} /\ u \notin aborted'
    BY <1>5 DEF Live
  <2>2. u # t
    BY <1>1, <2>1
  <2>3. u \notin aborted
    BY <2>1
  <2>4. Live(u)
    BY <1>1, <2>1, <2>2, <2>3 DEF Live
  <2> QED BY <1>3, <2>2, <2>4 DEF SInv, AbortReaches
<1>6. AbortReaches' /\ BubblesAlive'
  BY <1>1, <1>2, <1>5 DEF SInv, AbortReaches, BubblesAlive
<1> QED BY <1>4, <1>6 DEF SInv

LEMMA SubmitStreams == ASSUME SInv, NEW t \in Turns, Submit(t) PROVE SInv'
<1>1. /\ t = turns + 1 /\ turns' = t /\ active' = t /\ aborted' = aborted \cup ({active} \ {0})
      /\ bubble' = [IF Abortable(active) THEN Patched(bubble, active, "stopped") ELSE bubble
                    EXCEPT ![t] = "streaming"]
  BY DEF Submit
<1>2. PICK pc \in {"token", "open"} :
        stream' = [u \in Turns |-> IF u = t THEN pc
                                   ELSE IF u = active /\ Abortable(u) THEN "closed" ELSE stream[u]]
  BY DEF Submit
<1>3. \A u \in Turns : stream'[u] = IF u = t THEN pc
                                    ELSE IF u = active /\ Abortable(u) THEN "closed" ELSE stream[u]
  BY <1>2
<1>4. /\ bubble' \in [Turns -> BubbleStates]
      /\ \A u \in Turns \ {t} :
           IF u = active /\ Abortable(u) THEN bubble'[u] # "streaming" ELSE bubble'[u] = bubble[u]
  BY <1>1 DEF SInv, StreamTypes, Patched, BubbleStates, Abortable
<1>5. StreamTypes'
  <2>1. turns' \in 0..MaxTurns /\ active' \in 0..turns' /\ aborted' \subseteq 1..turns'
    BY <1>1, TurnsAreNat DEF SInv, StreamTypes
  <2>2. stream' \in [Turns -> StreamStates]
    BY <1>2 DEF SInv, StreamTypes, StreamStates
  <2> QED BY <1>4, <2>1, <2>2 DEF StreamTypes
<1>6. AbortReaches'
  <2>1. ASSUME NEW u \in Turns, u # t, Live(u)' PROVE FALSE
    <3>1. Live(u) /\ u # active
      BY <1>1, <1>3, <2>1, TurnsAreNat DEF Live, Turns
    <3> QED BY <3>1 DEF SInv, AbortReaches
  <2> QED BY <1>1, <2>1 DEF AbortReaches
<1>7. BubblesAlive'
  BY <1>3, <1>4 DEF SInv, BubblesAlive
<1> QED BY <1>5, <1>6, <1>7 DEF SInv

LEMMA ClearStreams == ASSUME SInv, Clear PROVE SInv'
<1>1. /\ stream' = [t \in Turns |-> IF t = active /\ Abortable(t) THEN "closed" ELSE stream[t]]
      /\ bubble' = [t \in Turns |-> "none"]
      /\ active' = 0 /\ aborted' = aborted \cup ({active} \ {0}) /\ UNCHANGED turns
  BY DEF Clear
<1>2. StreamTypes'
  BY <1>1, TurnsAreNat DEF SInv, StreamTypes, StreamStates, BubbleStates
<1>3. AbortReaches'
  <2>1. ASSUME NEW t \in Turns, Live(t)' PROVE FALSE
    <3>1. Live(t) /\ t # active
      BY <1>1, <2>1, TurnsAreNat DEF Live, Turns
    <3> QED BY <3>1 DEF SInv, AbortReaches
  <2> QED BY <2>1 DEF AbortReaches
<1>4. BubblesAlive'
  BY <1>1 DEF BubblesAlive
<1> QED BY <1>2, <1>3, <1>4 DEF SInv

LEMMA StopStreams == ASSUME SInv, Stop PROVE SInv'
<1>1. /\ active # 0 /\ active \in Turns /\ aborted' = aborted \cup {active} /\ UNCHANGED turns
      /\ aborted' \subseteq 1..turns
  BY TurnsAreNat DEF Stop, SInv, StreamTypes, Turns
<1>2. CASE Abortable(active)
  <2>1. /\ stream' = [stream EXCEPT ![active] = "closed"] /\ Closed(active)
        /\ bubble' = Patched(bubble, active, "stopped")
    BY <1>2 DEF Stop
  <2> QED BY <1>1, <2>1, EndKeeps DEF BubbleStates
<1>3. CASE ~Abortable(active)
  <2>1. UNCHANGED <<stream, active, bubble>>
    BY <1>3 DEF Stop
  <2> QED BY <1>1, <2>1 DEF SInv, StreamTypes, AbortReaches, BubblesAlive, Live
<1> QED BY <1>2, <1>3

LEMMA TokenStreams == ASSUME SInv, NEW t \in Turns, Token(t) PROVE SInv'
<1>1. UNCHANGED <<turns, aborted>> /\ stream[t] = "token"
  BY DEF Token
<1>2. CASE t \in aborted
  <2>1. /\ stream' = [stream EXCEPT ![t] = "closed"] /\ Closed(t)
        /\ bubble' = Patched(bubble, t, "stopped")
    BY <1>2 DEF Token
  <2> QED BY <1>1, <2>1, EndKeeps DEF BubbleStates, SInv, StreamTypes
<1>3. CASE t \notin aborted
  <2>1. stream' = [stream EXCEPT ![t] = "open"] /\ UNCHANGED <<active, bubble>>
    BY <1>3 DEF Token
  <2> QED BY <1>1, <2>1 DEF SInv, StreamTypes, StreamStates, AbortReaches, BubblesAlive, Live
<1> QED BY <1>2, <1>3

LEMMA SInvStep == SInv /\ [ChatNext]_chatVars => SInv'
<1> SUFFICES ASSUME SInv, [ChatNext]_chatVars PROVE SInv'
  OBVIOUS
<1>1. ASSUME NEW t \in Turns, Submit(t) \/ Token(t) PROVE SInv'
  BY <1>1, SubmitStreams, TokenStreams
<1>2. ASSUME NEW t \in Turns, Close(t) PROVE SInv'
  <2>1. /\ stream[t] = "done" /\ stream' = [stream EXCEPT ![t] = "closed"] /\ Closed(t)
        /\ UNCHANGED <<turns, aborted, bubble>>
    BY <1>2 DEF Close
  <2>2. AbortReaches' /\ BubblesAlive'
    BY <2>1 DEF SInv, StreamTypes, AbortReaches, BubblesAlive, Live, Closed
  <2>3. StreamTypes'
    BY <2>1, TurnsAreNat DEF SInv, StreamTypes, StreamStates, Closed
  <2> QED BY <2>2, <2>3 DEF SInv
<1>3. ASSUME NEW t \in Turns, Break(t) PROVE SInv'
  <2>1. /\ stream' = [stream EXCEPT ![t] = "closed"] /\ Closed(t)
        /\ bubble' = Patched(bubble, t, "failed") /\ UNCHANGED <<turns, aborted>>
    BY <1>3 DEF Break
  <2> QED BY <2>1, EndKeeps DEF BubbleStates, SInv, StreamTypes
<1>4. ASSUME NEW t \in Turns, Done(t) PROVE SInv'
  <2>1. /\ stream[t] = "open" /\ stream' = [stream EXCEPT ![t] = "done"]
        /\ bubble' = Patched(bubble, t, "answered") /\ UNCHANGED <<turns, aborted, active>>
    BY <1>4 DEF Done
  <2>2. /\ bubble' \in [Turns -> BubbleStates]
        /\ \A u \in Turns : IF u = t THEN bubble'[u] # "streaming" ELSE bubble'[u] = bubble[u]
    BY <2>1 DEF SInv, StreamTypes, Patched, BubbleStates
  <2> QED BY <2>1, <2>2 DEF SInv, StreamTypes, StreamStates, AbortReaches, BubblesAlive, Live
<1>5. ASSUME NEW t \in Turns, Created(t) \/ CreateFails(t) PROVE SInv'
  <2>1. UNCHANGED <<stream, bubble, turns, aborted, active>>
    BY <1>5 DEF Created, CreateFails
  <2> QED BY <2>1 DEF SInv, StreamTypes, AbortReaches, BubblesAlive, Live
<1>6. ASSUME NEW m \in posts, Stored(m) \/ Lost(m) PROVE SInv'
  <2>1. UNCHANGED <<stream, bubble, turns, aborted, active>>
    BY <1>6 DEF Stored, Lost
  <2> QED BY <2>1 DEF SInv, StreamTypes, AbortReaches, BubblesAlive, Live
<1>7. CASE UNCHANGED chatVars
  BY <1>7 DEF chatVars, SInv, StreamTypes, AbortReaches, BubblesAlive, Live
<1> QED BY <1>1, <1>2, <1>3, <1>4, <1>5, <1>6, <1>7, ClearStreams, StopStreams
        DEF ChatNext, Network

(* Besides, however late access tokens come and whatever a stale finally   *)
(* does to the form, the stream that nobody aborted is the one the next    *)
(* abort reaches, and a bubble that streams has a request to settle it.    *)
THEOREM TurnWholeCorrect == ChatSpec => []TurnIsWhole
<1>1. MInv /\ SInv => TurnIsWhole
  BY MInvTurn DEF TurnIsWhole, SInv
<1> QED BY <1>1, MInvInit, MInvStep, SInvInit, SInvStep, PTL DEF ChatSpec
=============================================================================

---------------------------- MODULE AnswersProofs ----------------------------
(***************************************************************************)
(* Theorems about questions: the rate limit, the structured memory, the     *)
(* sources of an answer, the alias map, the answers and their cache.        *)
(***************************************************************************)
EXTENDS QueryAnswers, RateLimiter, MemoryStore, Recall, AliasMap, NumberSets, FunctionTheorems,
        SequenceTheorems

-----------------------------------------------------------------------------
(* RateLimiter, for any clients, threads, limits and times.                *)

\* hit() between reading the clock and taking the lock; an admitted hit.
WaitingHits == [pc : {"waiting"}, user : Clients, client : ClientIds, now : Nat, limit : Limits]
Admitted == [user : Clients, client : ClientIds, at : Nat]

RateTypes ==
  /\ rateClock \in Nat /\ limit \in Limits
  /\ hits \in [ClientIds -> Seq(Nat)] /\ told \in [ClientIds -> Nat]
  /\ calls \in [Threads -> WaitingHits \cup {Free}] /\ log \in Seq(Admitted)

\* Nobody waits for the lock longer than Delay.
WaitsAreShort ==
  \A t \in Waiting : calls[t].now <= rateClock /\ rateClock <= calls[t].now + Delay

\* f finds for every time in the deque dq of c a hit in the log lg that is at
\* most Delay later, and misses no hit of c that is within the window at now.
Counts(f, dq, c, lg, now) ==
  /\ \A k \in 1..Len(dq) : lg[f[k]].at <= dq[k] + Delay
  /\ \A j \in DOMAIN lg :
       lg[j].client = c /\ lg[j].at + Window >= now + Delay => \E k \in 1..Len(dq) : f[k] = j

DequesCount ==
  \A c \in ClientIds : \E f \in [1..Len(hits[c]) -> DOMAIN log] :
    Counts(f, hits[c], c, log, rateClock)

LInv == RateTypes /\ WaitsAreShort /\ DequesCount /\ WithinLimit

-----------------------------------------------------------------------------
(* Smallest and largest numbers of a set.                                   *)

LEMMA MinIsLeast ==
  ASSUME NEW S \in SUBSET Nat, S # {}
  PROVE  Min(S) \in S /\ \A y \in S : Min(S) <= y
BY LeastExists DEF Min

LEMMA MaxIsLargest == Max(Limits) \in Limits /\ \A l \in Limits : l <= Max(Limits)
<1>1. \E x \in Limits : \A y \in Limits : x >= y
  <2>1. \E x \in Limits : \A y \in Limits : y <= x
    BY MaxExists, RateAssumption
  <2> QED BY <2>1, RateAssumption
<1> QED BY <1>1, RateAssumption DEF Max

\* The elements that a sequence of n positions lists are at most n.
LEMMA ListedAreFew ==
  ASSUME NEW n \in Nat, NEW D, NEW f \in [1..n -> D], NEW S \in SUBSET {f[k] : k \in 1..n}
  PROVE  Cardinality(S) \in Nat /\ Cardinality(S) <= n
<1> DEFINE R == {f[k] : k \in 1..n}
<1>1. f \in Surjection(1..n, R)
  BY DEF Surjection
<1>2. IsFiniteSet(R) /\ Cardinality(R) <= n
  <2>1. IsFiniteSet(1..n) /\ Cardinality(1..n) = n
    BY FS_Interval
  <2> HIDE DEF R
  <2> QED BY <1>1, <2>1, FS_Surjection
<1>3. S \in SUBSET R
  OBVIOUS
<1>4. Cardinality(S) <= Cardinality(R) /\ IsFiniteSet(S)
  BY <1>2, <1>3, FS_Subset
<1> QED BY <1>2, <1>4, FS_CardinalityType

-----------------------------------------------------------------------------
(* Prune takes off a prefix of hits that are too old.                       *)

LEMMA PruneDropsOld ==
  ASSUME NEW dq \in Seq(Nat), NEW now \in Nat
  PROVE  /\ Prune(dq, now) \in Seq(Nat)
         /\ \E m \in 0..Len(dq) :
              /\ Len(Prune(dq, now)) = Len(dq) - m
              /\ \A k \in 1..Len(dq) - m : Prune(dq, now)[k] = dq[k + m]
              /\ \A k \in 1..m : dq[k] + Window < now
         /\ Prune(dq, now) # <<>> => Prune(dq, now)[1] + Window >= now
<1> DEFINE young == {i \in DOMAIN dq : dq[i] + Window >= now}
<1>0. DOMAIN dq = 1..Len(dq) /\ Len(dq) \in Nat /\ Window \in Nat
  BY RateAssumption
<1>1. CASE young = {}
  <2>1. Prune(dq, now) = <<>>
    BY <1>1 DEF Prune
  <2>2. \A k \in 1..Len(dq) : dq[k] \in Nat /\ ~(dq[k] + Window >= now)
    BY <1>0, <1>1
  <2>3. \A k \in 1..Len(dq) : dq[k] + Window < now
    BY <1>0, <2>2
  <2>4. Len(dq) \in 0..Len(dq) /\ Len(<<>>) = 0 /\ <<>> \in Seq(Nat)
    BY <1>0
  <2>5. \A k \in 1..Len(dq) - Len(dq) : FALSE
    BY <1>0
  <2>6. \E m \in 0..Len(dq) :
           /\ Len(<<>>) = Len(dq) - m
           /\ \A k \in 1..Len(dq) - m : <<>>[k] = dq[k + m]
           /\ \A k \in 1..m : dq[k] + Window < now
    <3>1. WITNESS Len(dq) \in 0..Len(dq)
    <3> QED BY <1>0, <2>3, <2>4, <2>5
  <2> HIDE DEF young
  <2> QED BY <2>1, <2>4, <2>6
<1>2. CASE young # {}
  <2> DEFINE b == Min(young)
  <2>0. young \in SUBSET Nat
    BY <1>0
  <2> HIDE DEF young
  <2>1. b \in young /\ \A y \in young : b <= y
    BY <1>2, <2>0, MinIsLeast
  <2> USE DEF young
  <2>2. b \in 1..Len(dq) /\ dq[b] + Window >= now
    BY <1>0, <2>1
  <2>3. Prune(dq, now) = SubSeq(dq, b, Len(dq))
    BY <1>2 DEF Prune
  <2> HIDE DEF b
  <2>4. /\ Prune(dq, now) \in Seq(Nat)
        /\ Len(Prune(dq, now)) = Len(dq) - b + 1
        /\ \A k \in 1..Len(dq) - b + 1 : Prune(dq, now)[k] = dq[b + k - 1]
    BY <1>0, <2>2, <2>3, SubSeqProperties
  <2>5. \A k \in 1..b - 1 : dq[k] + Window < now
    <3> SUFFICES ASSUME NEW k \in 1..b - 1 PROVE dq[k] + Window < now
      OBVIOUS
    <3>1. k \in DOMAIN dq /\ k < b /\ dq[k] \in Nat
      BY <1>0, <2>2
    <3>2. ~(b <= k)
      BY <2>2, <3>1, <1>0
    <3>3. k \notin young
      BY <2>1, <3>2
    <3> QED BY <1>0, <3>1, <3>3
  <2>6. b - 1 \in 0..Len(dq)
    BY <2>2, <1>0
  <2>7. \A k \in 1..Len(dq) - (b - 1) : Prune(dq, now)[k] = dq[k + (b - 1)]
    BY <1>0, <2>2, <2>4
  <2>8. Prune(dq, now)[1] + Window >= now
    <3>1. 1 \in 1..Len(dq) - b + 1 /\ b + 1 - 1 = b
      BY <1>0, <2>2
    <3> QED BY <2>2, <2>4, <3>1
  <2>9. Len(Prune(dq, now)) = Len(dq) - (b - 1)
    BY <1>0, <2>2, <2>4
  <2> QED BY <2>4, <2>5, <2>6, <2>7, <2>8, <2>9
<1> QED BY <1>1, <1>2
-----------------------------------------------------------------------------
LEMMA RateConstants ==
  /\ Window \in Nat /\ Delay \in Nat /\ TicksPerSecond \in Nat /\ TicksPerSecond > 0
  /\ Delay < Window /\ Limits \subseteq Nat
BY RateAssumption

LEMMA FreeIsFree == Free \notin WaitingHits /\ Free.pc = "free" /\ \A h \in WaitingHits : h.pc = "waiting"
BY DEF Free, WaitingHits

LEMMA WaitingFields ==
  ASSUME RateTypes, NEW t \in Threads, calls[t].pc = "waiting"
  PROVE  /\ t \in Waiting /\ calls[t] \in WaitingHits
         /\ calls[t].client \in ClientIds /\ calls[t].user \in Clients
         /\ calls[t].now \in Nat /\ calls[t].limit \in Limits
<1>1. calls[t] \in WaitingHits \cup {Free}
  BY DEF RateTypes
<1>2. calls[t] \in WaitingHits
  BY <1>1, FreeIsFree
<1> QED BY <1>2 DEF Waiting, WaitingHits

LEMMA LogFields ==
  ASSUME RateTypes
  PROVE  /\ DOMAIN log = 1..Len(log) /\ Len(log) \in Nat
         /\ \A j \in DOMAIN log : log[j] \in Admitted /\ log[j].at \in Nat /\ log[j].client \in ClientIds
<1>1. log \in Seq(Admitted)
  BY DEF RateTypes
<1>2. DOMAIN log = 1..Len(log) /\ Len(log) \in Nat /\ \A j \in DOMAIN log : log[j] \in Admitted
  BY <1>1
<1> QED BY <1>2 DEF Admitted

LEMMA DequeFields ==
  ASSUME RateTypes, NEW c \in ClientIds
  PROVE  hits[c] \in Seq(Nat) /\ Len(hits[c]) \in Nat /\ \A k \in 1..Len(hits[c]) : hits[c][k] \in Nat
<1>1. hits[c] \in Seq(Nat)
  BY DEF RateTypes
<1> QED BY <1>1

\* What Prune takes off is outside of the window, whenever the lock was got.
LEMMA PrunedCounts ==
  ASSUME RateTypes, WaitsAreShort, DequesCount, NEW t \in Threads, calls[t].pc = "waiting",
         NEW c, c = calls[t].client, NEW dq, dq = Prune(hits[c], calls[t].now)
  PROVE  /\ dq \in Seq(Nat)
         /\ \E g \in [1..Len(dq) -> DOMAIN log] : Counts(g, dq, c, log, rateClock)
<1>1. c \in ClientIds /\ calls[t].now \in Nat /\ calls[t].now <= rateClock /\ rateClock \in Nat
  BY WaitingFields DEF WaitsAreShort, RateTypes
<1> DEFINE old == hits[c]
<1>2. PICK f \in [1..Len(old) -> DOMAIN log] : Counts(f, old, c, log, rateClock)
  BY <1>1 DEF DequesCount
<1>3. old \in Seq(Nat) /\ Len(old) \in Nat /\ \A k \in 1..Len(old) : old[k] \in Nat
  BY <1>1, DequeFields
<1>0. dq = Prune(old, calls[t].now)
  OBVIOUS
<1> HIDE DEF old
<1>4. PICK m \in 0..Len(old) :
         /\ Len(dq) = Len(old) - m
         /\ \A k \in 1..Len(old) - m : dq[k] = old[k + m]
         /\ \A k \in 1..m : old[k] + Window < calls[t].now
  BY <1>0, <1>1, <1>3, PruneDropsOld, ZenonT(60)
<1>5. dq \in Seq(Nat)
  BY <1>0, <1>1, <1>3, PruneDropsOld
<1> DEFINE g == [k \in 1..Len(dq) |-> f[k + m]]
<1>6. g \in [1..Len(dq) -> DOMAIN log]
  BY <1>3, <1>4
<1>7. \A k \in 1..Len(dq) : log[g[k]].at <= dq[k] + Delay
  <2> SUFFICES ASSUME NEW k \in 1..Len(dq) PROVE log[g[k]].at <= dq[k] + Delay
    OBVIOUS
  <2>1. k + m \in 1..Len(old) /\ g[k] = f[k + m] /\ dq[k] = old[k + m]
    BY <1>3, <1>4
  <2> QED BY <1>2, <2>1 DEF Counts
<1>8. ASSUME NEW j \in DOMAIN log, log[j].client = c, log[j].at + Window >= rateClock + Delay
      PROVE  \E k \in 1..Len(dq) : g[k] = j
  <2>1. PICK k \in 1..Len(old) : f[k] = j
    BY <1>2, <1>8 DEF Counts
  <2>2. log[j].at <= old[k] + Delay
    BY <1>2, <2>1 DEF Counts
  <2>3. log[j].at \in Nat /\ old[k] \in Nat
    BY <1>3, LogFields
  <2>4. ~(k <= m)
    <3> SUFFICES ASSUME k <= m PROVE FALSE
      OBVIOUS
    <3>1. k \in 1..m /\ old[k] + Window < calls[t].now
      BY <1>3, <1>4
    <3> QED BY <1>1, <1>8, <2>2, <2>3, <3>1, RateConstants
  <2>5. k - m \in 1..Len(dq) /\ (k - m) + m = k
    BY <1>3, <1>4, <2>4
  <2> QED BY <2>1, <2>5
<1>9. Counts(g, dq, c, log, rateClock)
  BY <1>7, <1>8 DEF Counts
<1> QED BY <1>5, <1>6, <1>9

-----------------------------------------------------------------------------
LEMMA LInvInit == RateInit => LInv
<1> SUFFICES ASSUME RateInit PROVE LInv
  OBVIOUS
<1>1. RateTypes
  BY DEF RateInit, RateTypes
<1>2. WaitsAreShort
  BY FreeIsFree DEF RateInit, WaitsAreShort, Waiting
<1>3. log = <<>> /\ DOMAIN log = {}
  BY DEF RateInit
<1>4. DequesCount
  <2> SUFFICES ASSUME NEW c \in ClientIds
               PROVE  \E f \in [1..Len(hits[c]) -> DOMAIN log] : Counts(f, hits[c], c, log, rateClock)
    BY DEF DequesCount
  <2>1. Len(hits[c]) = 0
    BY DEF RateInit
  <2>2. [k \in 1..0 |-> 0] \in [1..Len(hits[c]) -> DOMAIN log]
    BY <2>1
  <2> QED BY <1>3, <2>1, <2>2 DEF Counts
<1>5. WithinLimit
  BY <1>3 DEF WithinLimit
<1> QED BY <1>1, <1>2, <1>4, <1>5 DEF LInv

\* Time passes: hits leave the window, none comes into it.
LEMMA AdvanceKeeps == ASSUME LInv, Advance PROVE LInv'
<1> USE DEF LInv
<1>1. rateClock \in Nat /\ rateClock' = rateClock + 1 /\ UNCHANGED <<limit, hits, calls, told, log>>
  BY DEF Advance, RateTypes
<1>2. RateTypes'
  BY <1>1 DEF RateTypes
<1>3. WaitsAreShort'
  <2> SUFFICES ASSUME NEW t \in Waiting PROVE calls[t].now <= rateClock + 1 /\ rateClock + 1 <= calls[t].now + Delay
    BY <1>1 DEF WaitsAreShort, Waiting
  <2>1. calls[t].now \in Nat
    BY WaitingFields DEF Waiting
  <2> QED BY <1>1, <2>1, RateConstants DEF WaitsAreShort, Advance
<1>4. DequesCount'
  <2> SUFFICES ASSUME NEW c \in ClientIds
               PROVE  \E f \in [1..Len(hits[c]) -> DOMAIN log] : Counts(f, hits[c], c, log, rateClock + 1)
    BY <1>1 DEF DequesCount
  <2>1. PICK f \in [1..Len(hits[c]) -> DOMAIN log] : Counts(f, hits[c], c, log, rateClock)
    BY DEF DequesCount
  <2>2. ASSUME NEW j \in DOMAIN log, log[j].at + Window >= rateClock + 1 + Delay
        PROVE  log[j].at + Window >= rateClock + Delay
    BY <1>1, <2>2, LogFields, RateConstants
  <2>3. Counts(f, hits[c], c, log, rateClock + 1)
    BY <1>1, <2>1, <2>2 DEF Counts
  <2> QED BY <2>3
<1>5. WithinLimit'
  BY <1>1 DEF WithinLimit
<1> QED BY <1>2, <1>3, <1>4, <1>5

LEMMA RetuneKeeps == ASSUME LInv, NEW l \in Limits, Retune(l) PROVE LInv'
<1>1. limit' \in Limits /\ UNCHANGED <<rateClock, hits, calls, told, log>>
  BY DEF Retune
<1>2. RateTypes' /\ WaitsAreShort'
  BY <1>1 DEF LInv, RateTypes, WaitsAreShort, Waiting
<1>3. DequesCount' /\ WithinLimit'
  BY <1>1 DEF LInv, DequesCount, Counts, WithinLimit
<1> QED BY <1>2, <1>3 DEF LInv

LEMMA HitKeeps == ASSUME LInv, NEW t \in Threads, NEW u \in Clients, Hit(t, u) PROVE LInv'
<1> USE DEF LInv
<1> DEFINE h == [pc |-> "waiting", user |-> u, client |-> _client_id_from(u), now |-> rateClock, limit |-> limit]
<1>1. calls' = [calls EXCEPT ![t] = h] /\ UNCHANGED <<rateClock, limit, hits, told, log>>
  BY DEF Hit
<1>2. h \in WaitingHits
  BY DEF RateTypes, WaitingHits, _client_id_from, ClientIds
<1>3. RateTypes'
  BY <1>1, <1>2 DEF RateTypes
<1>4. WaitsAreShort'
  <2> SUFFICES ASSUME NEW w \in Threads, calls'[w].pc = "waiting"
               PROVE  calls'[w].now <= rateClock /\ rateClock <= calls'[w].now + Delay
    BY <1>1 DEF WaitsAreShort, Waiting
  <2>1. CASE w = t
    <3>1. calls'[w].now = rateClock
      BY <1>1, <2>1 DEF RateTypes
    <3> QED BY <3>1, RateConstants DEF RateTypes
  <2>2. CASE w # t
    BY <1>1, <2>2 DEF WaitsAreShort, Waiting, RateTypes
  <2> QED BY <2>1, <2>2
<1>5. DequesCount' /\ WithinLimit'
  BY <1>1 DEF DequesCount, Counts, WithinLimit
<1> QED BY <1>3, <1>4, <1>5

\* A call that ends: nobody waits longer for it.
LEMMA FreedWaits ==
  ASSUME RateTypes, WaitsAreShort, NEW t \in Threads, calls' = [calls EXCEPT ![t] = Free],
         rateClock' = rateClock
  PROVE  calls' \in [Threads -> WaitingHits \cup {Free}] /\ WaitsAreShort'
<1>1. calls' \in [Threads -> WaitingHits \cup {Free}]
  BY DEF RateTypes
<1>2. \A w \in Threads : calls'[w].pc = "waiting" => w # t /\ calls'[w] = calls[w]
  BY FreeIsFree DEF RateTypes
<1> QED BY <1>1, <1>2 DEF WaitsAreShort, Waiting

LEMMA QuotientBound ==
  ASSUME NEW a \in Nat, NEW b \in Nat, b > 0
  PROVE  a \div b \in Nat /\ a < ((a \div b) + 1) * b
<1>1. a \div b \in Nat
  OBVIOUS
<1>2. a < ((a \div b) + 1) * b
  OBVIOUS
<1> QED BY <1>1, <1>2

\* What a refused client is told, and a second more, is past the time its
\* oldest hit leaves the window.
LEMMA RetryIsLater ==
  ASSUME NEW dq \in Seq(Nat), dq # <<>>, NEW now \in Nat, dq[1] + Window >= now
  PROVE  /\ RetryAfter(dq, now) \in Nat
         /\ dq[1] + Window < now + (RetryAfter(dq, now) + 1) * TicksPerSecond
<1>1. dq[1] \in Nat /\ Window \in Nat /\ TicksPerSecond \in Nat /\ TicksPerSecond > 0
  BY RateConstants
<1> DEFINE wait == dq[1] + Window - now
           q == wait \div TicksPerSecond
           r == RetryAfter(dq, now)
<1>2. wait \in Nat
  BY <1>1
<1>3. q \in Nat /\ wait < (q + 1) * TicksPerSecond
  BY <1>1, <1>2, QuotientBound
<1>4. r \in {1, q} /\ r >= q
  <2> HIDE DEF q
  <2>1. \E x \in {1, q} : \A y \in {1, q} : x >= y
    BY <1>3
  <2> USE DEF q
  <2>2. r = Max({1, q})
    BY DEF RetryAfter
  <2> HIDE DEF q, r
  <2> QED BY <2>1, <2>2 DEF Max
<1> HIDE DEF q, r, wait
<1>5. r \in Nat
  BY <1>3, <1>4
<1>6. (q + 1) * TicksPerSecond <= (r + 1) * TicksPerSecond
  BY <1>1, <1>3, <1>4, <1>5
<1>7. (r + 1) * TicksPerSecond \in Nat /\ (q + 1) * TicksPerSecond \in Nat
  BY <1>1, <1>3, <1>5
<1>8. wait < (r + 1) * TicksPerSecond
  BY <1>2, <1>3, <1>6, <1>7
<1> QED BY <1>1, <1>5, <1>7, <1>8, SMTT(30) DEF wait, r

LEMMA RefuseKeeps == ASSUME LInv, NEW t \in Threads, Refuse(t) PROVE LInv'
<1> USE DEF LInv
<1> DEFINE c == calls[t].client
           dq == Prune(hits[c], calls[t].now)
<1>1. /\ calls[t].pc = "waiting" /\ hits' = [hits EXCEPT ![c] = dq]
      /\ calls' = [calls EXCEPT ![t] = Free] /\ UNCHANGED <<rateClock, limit, log>>
  BY DEF Refuse
<1>2. dq \in Seq(Nat) /\ \E g \in [1..Len(dq) -> DOMAIN log] : Counts(g, dq, c, log, rateClock)
  BY <1>1, PrunedCounts
<1>3. c \in ClientIds /\ calls[t].now \in Nat
  BY <1>1, WaitingFields
<1>4. told' \in [ClientIds -> Nat]
  <2>1. dq # <<>>
    BY <1>1, <1>2, WaitingFields, RateAssumption DEF Refuse
  <2>2. hits[c] \in Seq(Nat)
    BY <1>3, DequeFields
  <2>3. RetryAfter(dq, calls[t].now) \in Nat
    BY <1>2, <1>3, <2>1, <2>2, PruneDropsOld, RetryIsLater
  <2>4. calls[t].now + (RetryAfter(dq, calls[t].now) + 1) * TicksPerSecond \in Nat
    BY <1>3, <2>3, RateConstants
  <2> HIDE DEF c, dq
  <2> QED BY <1>3, <2>4 DEF RateTypes, Refuse, c, dq
<1>5. RateTypes' /\ WaitsAreShort'
  BY <1>1, <1>2, <1>3, <1>4, FreedWaits DEF RateTypes
<1>6. DequesCount'
  <2> SUFFICES ASSUME NEW d \in ClientIds
               PROVE  \E f \in [1..Len(hits'[d]) -> DOMAIN log] : Counts(f, hits'[d], d, log, rateClock)
    BY <1>1 DEF DequesCount
  <2>1. CASE d = c
    BY <1>1, <1>2, <1>3, <2>1 DEF RateTypes
  <2>2. CASE d # c
    BY <1>1, <1>3, <2>2 DEF RateTypes, DequesCount
  <2> QED BY <2>1, <2>2
<1>7. WithinLimit'
  BY <1>1 DEF WithinLimit
<1> QED BY <1>5, <1>6, <1>7

LEMMA EnterKeeps == ASSUME LInv, NEW t \in Threads, Enter(t) PROVE LInv'
<1> USE DEF LInv
<1> DEFINE c == calls[t].client
           dq == Prune(hits[c], calls[t].now)
           hit == [user |-> calls[t].user, client |-> c, at |-> rateClock]
           n == Len(log) + 1
<1>1. /\ calls[t].pc = "waiting" /\ hits' = [hits EXCEPT ![c] = Append(dq, calls[t].now)]
      /\ Len(dq) < calls[t].limit /\ told' = [told EXCEPT ![c] = 0] /\ log' = Append(log, hit)
      /\ calls' = [calls EXCEPT ![t] = Free] /\ UNCHANGED <<rateClock, limit>>
  BY DEF Enter
<1>2. dq \in Seq(Nat) /\ \E g \in [1..Len(dq) -> DOMAIN log] : Counts(g, dq, c, log, rateClock)
  BY <1>1, PrunedCounts
<1>3. /\ c \in ClientIds /\ calls[t].now \in Nat /\ rateClock \in Nat
      /\ calls[t].user \in Clients /\ calls[t].limit \in Limits
      /\ rateClock <= calls[t].now + Delay
  BY <1>1, WaitingFields DEF WaitsAreShort, RateTypes
<1>4. hit \in Admitted
  BY <1>3 DEF Admitted
<1>5. RateTypes' /\ WaitsAreShort'
  <2>1. hits' \in [ClientIds -> Seq(Nat)]
    BY <1>1, <1>2, <1>3 DEF RateTypes
  <2>2. log' \in Seq(Admitted)
    BY <1>1, <1>4 DEF RateTypes
  <2> QED BY <1>1, <1>3, <2>1, <2>2, FreedWaits DEF RateTypes
<1>6. /\ DOMAIN log' = DOMAIN log \cup {n} /\ n \notin DOMAIN log /\ log'[n] = hit
      /\ \A j \in DOMAIN log : log'[j] = log[j]
  BY <1>1, <1>4, LogFields DEF RateTypes
<1>7. PICK g \in [1..Len(dq) -> DOMAIN log] : Counts(g, dq, c, log, rateClock)
  BY <1>2
<1> DEFINE dq2 == Append(dq, calls[t].now)
           g2 == [k \in 1..Len(dq2) |-> IF k = Len(dq2) THEN n ELSE g[k]]
<1>8. /\ Len(dq2) = Len(dq) + 1 /\ Len(dq) \in Nat /\ dq2[Len(dq2)] = calls[t].now
      /\ \A k \in 1..Len(dq) : dq2[k] = dq[k]
  BY <1>2, <1>3
<1> HIDE DEF dq, dq2, hit, n
<1>9. g2 \in [1..Len(dq2) -> DOMAIN log']
  BY <1>6, <1>8
<1>10. Counts(g2, dq2, c, log', rateClock)
  <2>1. ASSUME NEW k \in 1..Len(dq2) PROVE log'[g2[k]].at <= dq2[k] + Delay
    <3>1. CASE k = Len(dq2)
      BY <1>3, <1>6, <1>8, <3>1 DEF hit
    <3>2. CASE k # Len(dq2)
      <4>1. k \in 1..Len(dq) /\ g2[k] = g[k] /\ dq2[k] = dq[k] /\ g[k] \in DOMAIN log
        BY <1>8, <3>2
      <4> QED BY <1>6, <1>7, <4>1 DEF Counts
    <3> QED BY <3>1, <3>2
  <2>2. ASSUME NEW j \in DOMAIN log', log'[j].client = c, log'[j].at + Window >= rateClock + Delay
        PROVE  \E k \in 1..Len(dq2) : g2[k] = j
    <3>1. CASE j = n
      <4>1. Len(dq2) \in 1..Len(dq2) /\ g2[Len(dq2)] = n
        BY <1>8
      <4> QED BY <3>1, <4>1
    <3>2. CASE j \in DOMAIN log
      <4>1. PICK k \in 1..Len(dq) : g[k] = j
        BY <1>6, <1>7, <2>2, <3>2 DEF Counts
      <4>2. k \in 1..Len(dq2) /\ g2[k] = g[k]
        BY <1>8
      <4> QED BY <4>1, <4>2
    <3> QED BY <1>6, <3>1, <3>2
  <2> QED BY <1>1, <2>1, <2>2 DEF Counts
<1>11. DequesCount'
  <2> SUFFICES ASSUME NEW d \in ClientIds
               PROVE  \E f \in [1..Len(hits'[d]) -> DOMAIN log'] : Counts(f, hits'[d], d, log', rateClock)
    BY <1>1 DEF DequesCount
  <2>1. CASE d = c
    <3>1. hits'[d] = dq2
      BY <1>1, <1>3, <2>1 DEF RateTypes, dq2, dq
    <3> QED BY <1>9, <1>10, <2>1, <3>1
  <2>2. CASE d # c
    <3>1. hits'[d] = hits[d]
      BY <1>1, <1>3, <2>2 DEF RateTypes
    <3>2. PICK f \in [1..Len(hits[d]) -> DOMAIN log] : Counts(f, hits[d], d, log, rateClock)
      BY DEF DequesCount
    <3>3. f \in [1..Len(hits[d]) -> DOMAIN log']
      BY <1>6
    <3>4. ASSUME NEW k \in 1..Len(hits[d]) PROVE log'[f[k]].at <= hits[d][k] + Delay
      BY <1>6, <3>2 DEF Counts
    <3>5. ASSUME NEW j \in DOMAIN log', log'[j].client = d, log'[j].at + Window >= rateClock + Delay
          PROVE  \E k \in 1..Len(hits[d]) : f[k] = j
      <4>1. j \in DOMAIN log /\ log'[j] = log[j]
        BY <1>6, <2>2, <3>5 DEF hit
      <4> QED BY <3>2, <3>5, <4>1 DEF Counts
    <3>6. Counts(f, hits'[d], d, log', rateClock)
      BY <1>1, <3>1, <3>4, <3>5 DEF Counts
    <3> QED BY <3>1, <3>3, <3>6
  <2> QED BY <2>1, <2>2
<1>12. WithinLimit'
  <2> SUFFICES ASSUME NEW i \in DOMAIN log'
               PROVE  Cardinality({j \in DOMAIN log' :
                        /\ log'[j].client = log'[i].client
                        /\ log'[j].at \in log'[i].at .. log'[i].at + Window - Delay}) <= Max(Limits)
    BY DEF WithinLimit
  <2> DEFINE S == {j \in DOMAIN log' :
                     /\ log'[j].client = log'[i].client
                     /\ log'[j].at \in log'[i].at .. log'[i].at + Window - Delay}
  <2>1. \A j \in DOMAIN log' : log'[j].at \in Nat
    BY <1>3, <1>6, LogFields DEF hit
  <2>2. CASE n \in S
    <3>1. log'[i].client = c /\ rateClock <= log'[i].at + Window - Delay
      BY <1>3, <1>6, <2>1, <2>2, RateConstants DEF hit
    <3>2. \A j \in S : log'[j].client = c /\ log'[j].at + Window >= rateClock + Delay
      BY <1>3, <2>1, <3>1, RateConstants
    <3>3. S \in SUBSET {g2[k] : k \in 1..Len(dq2)}
      <4>1. \A j \in S : \E k \in 1..Len(dq2) : g2[k] = j
        BY <1>1, <1>10, <3>2 DEF Counts
      <4> HIDE DEF S, g2
      <4> QED BY <4>1
    <3> HIDE DEF S, g2
    <3>4. Len(dq2) \in Nat
      BY <1>8
    <3>5. Cardinality(S) \in Nat /\ Cardinality(S) <= Len(dq2)
      BY <1>9, <3>3, <3>4, ListedAreFew
    <3>6. Len(dq) < calls[t].limit
      BY <1>1
    <3>7. calls[t].limit \in Nat
      BY <1>3, RateConstants
    <3>8. Len(dq2) <= calls[t].limit
      BY <1>8, <3>6, <3>7
    <3>9. calls[t].limit <= Max(Limits) /\ Max(Limits) \in Nat
      BY <1>3, MaxIsLargest, RateConstants
    <3>10. Cardinality(S) <= Max(Limits)
      BY <3>4, <3>5, <3>7, <3>8, <3>9
    <3> USE DEF S
    <3> QED BY <3>10
  <2>3. CASE n \notin S
    <3>1. i \in DOMAIN log
      BY <1>3, <1>6, <2>1, <2>3, RateConstants DEF hit
    <3>2. S = {j \in DOMAIN log : /\ log[j].client = log[i].client
                                  /\ log[j].at \in log[i].at .. log[i].at + Window - Delay}
      BY <1>6, <2>3, <3>1
    <3> QED BY <3>1, <3>2 DEF WithinLimit
  <2> QED BY <2>2, <2>3
<1> QED BY <1>5, <1>11, <1>12

LEMMA LInvStep == LInv /\ [RateNext]_rateVars => LInv'
<1> SUFFICES ASSUME LInv, [RateNext]_rateVars PROVE LInv'
  OBVIOUS
<1>1. CASE UNCHANGED rateVars
  <2>1. UNCHANGED <<rateClock, limit, hits, calls, told, log>>
    BY <1>1 DEF rateVars
  <2>2. RateTypes'
    BY <2>1 DEF LInv, RateTypes
  <2>3. WaitsAreShort'
    BY <2>1 DEF LInv, WaitsAreShort, Waiting
  <2>4. DequesCount'
    BY <2>1 DEF LInv, DequesCount
  <2>5. WithinLimit'
    BY <2>1 DEF LInv, WithinLimit
  <2> QED BY <2>2, <2>3, <2>4, <2>5 DEF LInv
<1>2. CASE RateNext
  BY <1>2, AdvanceKeeps, RetuneKeeps, HitKeeps, EnterKeeps, RefuseKeeps DEF RateNext
<1> QED BY <1>1, <1>2

(* For any clients, threads, limits and window: however threads overtake   *)
(* each other on the way to the lock, no more than the highest limit gets  *)
(* through in an interval (rate_limit.hit).                                *)
THEOREM LimitHolds == RateSpec => []WithinLimit
<1>1. LInv => WithinLimit
  BY DEF LInv
<1> QED BY <1>1, LInvInit, LInvStep, PTL DEF RateSpec

-----------------------------------------------------------------------------
(* While the limit stays: what a refused client was told.                   *)

\* The oldest hit that a promise was about is the first of the deque, and
\* leaves the window before the time that was promised.
PromisesHold ==
  \A c \in ClientIds :
    /\ Len(hits[c]) <= limit
    /\ told[c] # 0 /\ hits[c] # <<>> => hits[c][1] + Window < told[c]

LEMMA RefusedEarly ==
  ASSUME LInv, PromisesHold, Limits = {limit}, NEW t \in Threads, Refuse(t)
  PROVE  LET c == calls[t].client
         IN  /\ told[c] = 0 \/ (calls[t].now < told[c] /\ hits'[c] = hits[c])
             /\ hits'[c] # <<>> /\ Len(hits'[c]) <= limit
             /\ told[c] = 0 => hits'[c][1] + Window < told'[c]
<1> USE DEF LInv
<1> DEFINE c == calls[t].client
           now == calls[t].now
           old == hits[c]
           dq == Prune(old, now)
<1>1. /\ calls[t].pc = "waiting" /\ hits' = [hits EXCEPT ![c] = dq] /\ Len(dq) >= calls[t].limit
      /\ told' = [told EXCEPT ![c] = IF @ # 0 THEN @ ELSE now + (RetryAfter(dq, now) + 1) * TicksPerSecond]
  BY DEF Refuse
<1>2. /\ c \in ClientIds /\ now \in Nat /\ calls[t].limit = limit /\ limit \in Nat /\ limit > 0
      /\ told[c] \in Nat /\ Window \in Nat
  BY <1>1, WaitingFields, RateConstants, RateAssumption DEF RateTypes
<1>3. old \in Seq(Nat) /\ Len(old) \in Nat /\ Len(old) <= limit
  BY <1>2, DequeFields DEF PromisesHold
<1>4. hits'[c] = dq
  BY <1>1, <1>2 DEF RateTypes
<1>5. told[c] # 0 /\ old # <<>> => old[1] + Window < told[c]
  BY <1>2 DEF PromisesHold
<1>6. told[c] = 0 => told'[c] = now + (RetryAfter(dq, now) + 1) * TicksPerSecond
  BY <1>1, <1>2 DEF RateTypes
<1>7. Len(dq) >= limit
  BY <1>1, <1>2
<1> HIDE DEF c, now, old, dq
<1>8. /\ dq \in Seq(Nat) /\ (dq # <<>> => dq[1] + Window >= now)
      /\ \E m \in 0..Len(old) : Len(dq) = Len(old) - m /\ \A k \in 1..Len(old) - m : dq[k] = old[k + m]
  BY <1>2, <1>3, PruneDropsOld DEF dq
<1>9. Len(dq) \in Nat /\ dq # <<>>
  BY <1>2, <1>7, <1>8
<1>10. Len(dq) = Len(old) /\ \A k \in 1..Len(old) : dq[k] = old[k]
  BY <1>2, <1>3, <1>7, <1>8
<1>11. dq = old
  <2>1. dq \in Seq(Nat) /\ Len(dq) = Len(old) /\ \A k \in 1..Len(dq) : dq[k] = old[k]
    BY <1>8, <1>10
  <2> QED BY <1>3, <2>1, SeqEqual
<1>12. CASE told[c] = 0
  <2>1. dq[1] + Window < now + (RetryAfter(dq, now) + 1) * TicksPerSecond
    BY <1>2, <1>8, <1>9, RetryIsLater
  <2> QED BY <1>3, <1>4, <1>6, <1>9, <1>10, <1>12, <2>1 DEF c
<1>13. CASE told[c] # 0
  <2>1. old[1] \in Nat /\ old[1] + Window >= now /\ old[1] + Window < told[c]
    BY <1>3, <1>5, <1>8, <1>9, <1>11, <1>13
  <2>2. now < told[c]
    BY <1>2, <2>1
  <2> QED BY <1>3, <1>4, <1>9, <1>10, <1>11, <1>13, <2>2 DEF c, now, old
<1> QED BY <1>12, <1>13

LEMMA PromisesStep ==
  ASSUME LInv, PromisesHold, Limits = {limit}, [RateNext]_rateVars
  PROVE  PromisesHold'
<1> USE DEF LInv
<1>1. CASE UNCHANGED <<limit, hits, told>>
  BY <1>1 DEF PromisesHold
<1>2. ASSUME NEW l \in Limits, Retune(l) PROVE PromisesHold'
  BY <1>2 DEF Retune
<1>3. ASSUME NEW t \in Threads, Refuse(t) PROVE PromisesHold'
  <2> DEFINE c == calls[t].client
  <2>1. c \in ClientIds /\ limit' = limit /\ DOMAIN hits' = ClientIds /\ DOMAIN told' = ClientIds
    BY <1>3, WaitingFields DEF Refuse, RateTypes
  <2>2. \A d \in ClientIds : d # c => hits'[d] = hits[d] /\ told'[d] = told[d]
    BY <1>3, <2>1 DEF Refuse, RateTypes
  <2>3. told[c] # 0 => told'[c] = told[c]
    BY <1>3, <2>1 DEF Refuse, RateTypes
  <2>4. /\ told[c] = 0 \/ hits'[c] = hits[c]
        /\ Len(hits'[c]) <= limit
        /\ told[c] = 0 => hits'[c][1] + Window < told'[c]
    BY <1>3, RefusedEarly
  <2> HIDE DEF c
  <2> QED BY <2>1, <2>2, <2>3, <2>4 DEF PromisesHold
<1>4. ASSUME NEW t \in Threads, Enter(t) PROVE PromisesHold'
  <2> DEFINE c == calls[t].client
             dq == Prune(hits[c], calls[t].now)
  <2>1. /\ c \in ClientIds /\ calls[t].now \in Nat /\ calls[t].limit = limit /\ limit \in Nat
        /\ hits[c] \in Seq(Nat)
    BY <1>4, WaitingFields, DequeFields, RateConstants DEF Enter
  <2>2. dq \in Seq(Nat) /\ Len(dq) < limit
    BY <1>4, <2>1, PruneDropsOld DEF Enter
  <2>3. Len(Append(dq, calls[t].now)) <= limit
    BY <2>1, <2>2
  <2>4. hits'[c] = Append(dq, calls[t].now) /\ told'[c] = 0 /\ limit' = limit
    BY <1>4, <2>1 DEF Enter, RateTypes
  <2>5. \A d \in ClientIds : d # c => hits'[d] = hits[d] /\ told'[d] = told[d]
    BY <1>4, <2>1 DEF Enter, RateTypes
  <2> HIDE DEF c, dq
  <2> QED BY <2>1, <2>3, <2>4, <2>5 DEF PromisesHold
<1> QED BY <1>1, <1>2, <1>3, <1>4 DEF RateNext, Advance, Hit, rateVars

(* For any clients, threads and window: while the limit stays, a client    *)
(* that was refused (429 with retry_after) and waits a second more than it *)
(* was told is not refused again before a hit of its own was admitted.     *)
THEOREM RetryHolds ==
  ASSUME NEW l, Limits = {l}
  PROVE  RateSpec => RetryAdmits
<1> DEFINE A == \A t \in Threads :
                  calls[t].pc = "waiting" /\ calls'[t].pc = "free" /\ log' = log =>
                    \/ told[calls[t].client] = 0
                    \/ calls[t].now < told[calls[t].client]
<1>1. LInv => Limits = {limit}
  BY DEF LInv, RateTypes
<1>2. RateInit => PromisesHold
  <2> SUFFICES ASSUME RateInit, NEW c \in ClientIds
               PROVE  Len(hits[c]) <= limit /\ hits[c] = <<>>
    BY DEF PromisesHold
  <2>1. hits[c] = <<>> /\ limit \in Nat
    BY RateConstants DEF RateInit
  <2> QED BY <2>1
<1>3. LInv /\ PromisesHold /\ [RateNext]_rateVars => PromisesHold'
  BY <1>1, PromisesStep
<1>4. LInv /\ PromisesHold /\ [RateNext]_rateVars => [A]_rateVars
  <2> SUFFICES ASSUME LInv, PromisesHold, RateNext, NEW t \in Threads,
                      calls[t].pc = "waiting", calls'[t].pc = "free", log' = log
               PROVE  told[calls[t].client] = 0 \/ calls[t].now < told[calls[t].client]
    OBVIOUS
  <2>1. Refuse(t)
    <3>1. ASSUME calls' = calls PROVE FALSE
      BY <3>1
    <3>2. ASSUME NEW w \in Threads, NEW u \in Clients, Hit(w, u) PROVE FALSE
      BY <3>2 DEF Hit, LInv, RateTypes
    <3>3. ASSUME NEW w \in Threads, Enter(w) PROVE FALSE
      <4>1. log \in Seq(Admitted) /\ Len(log) \in Nat
        BY DEF LInv, RateTypes
      <4>2. \E h : log' = Append(log, h)
        BY <3>3 DEF Enter
      <4> QED BY <4>1, <4>2
    <3>4. ASSUME NEW w \in Threads, Refuse(w) PROVE w = t
      BY <3>4 DEF Refuse, LInv, RateTypes
    <3> QED BY <3>1, <3>2, <3>3, <3>4 DEF RateNext, Advance, Retune
  <2> QED BY <1>1, <2>1, RefusedEarly
<1>5. RateSpec => [][A]_rateVars
  BY <1>2, <1>3, <1>4, LInvInit, LInvStep, PTL DEF RateSpec
<1> QED BY <1>5, PTL DEF RetryAdmits

-----------------------------------------------------------------------------
(* MemoryStore, for any sources, texts and workers.                        *)

MTasks == [pc : {"upload", "persist"}, path : Paths, src : Sources, text : Texts]

MemoryTypes ==
  /\ texts \in [Sources -> Texts \cup {NoText}]
  /\ said \in [Sources -> SUBSET Texts]
  /\ task \in [Workers -> MTasks \cup {NoTask}]
  /\ \A r \in rows : r.src \in Sources
  /\ persisted \in SUBSET Docs

\* An ingestion works on a text that its source has shown; what a source
\* shows now, it has shown.
TextsWereSaid ==
  /\ \A s \in Sources : texts[s] # NoText => texts[s] \in said[s]
  /\ \A w \in Workers : task[w] # NoTask => task[w].text \in said[task[w].src]

RowWasSaid(r) ==
  \E t \in said[r.src] :
    /\ ~Clash(RowsOf(r.src, t))
    /\ \/ r.kind = "summary" /\ r.canon = t.name
       \/ \E p \in t.body : p.canon = r.canon

MInv == MemoryTypes /\ TextsWereSaid /\ MemoriesWereSaid

-----------------------------------------------------------------------------
LEMMA FactCanon == ASSUME NEW p PROVE Fact(p).canon = p.canon
<1>1. CASE p.by \in ActionPatterns
  BY <1>1 DEF Fact
<1>2. CASE p.by \notin ActionPatterns /\ p.by \in DecisionPatterns
  BY <1>2 DEF Fact
<1>3. CASE p.by \notin ActionPatterns /\ p.by \notin DecisionPatterns
  BY <1>3 DEF Fact
<1> QED BY <1>1, <1>2, <1>3

LEMMA FactsAreSaid ==
  ASSUME NEW t, NEW f \in Facts(t)
  PROVE  \/ f.kind = "summary" /\ f.canon = t.name
         \/ \E p \in t.body : p.canon = f.canon
<1>1. CASE f = [kind |-> "summary", canon |-> t.name, type |-> ""]
  BY <1>1
<1>2. CASE \E q \in Stripped(t) : f = Fact(q)
  BY <1>2, FactCanon DEF Stripped
<1> QED BY <1>1, <1>2 DEF Facts

LEMMA NotIdle == NoTask \notin MTasks /\ NoTask.pc = "idle" /\ \A e \in MTasks : e.pc # "idle"
BY DEF NoTask, MTasks

LEMMA RowFields ==
  ASSUME NEW src, NEW f
  PROVE  Row(src, f).src = src /\ Row(src, f).kind = f.kind /\ Row(src, f).canon = f.canon
BY DEF Row

LEMMA MInvInit == MemoryInit => MInv
BY DEF MemoryInit, MInv, MemoryTypes, TextsWereSaid, MemoriesWereSaid, NoText, NoTask

LEMMA SayKeeps == ASSUME MInv, NEW s \in Sources, NEW t \in Texts, Say(s, t) PROVE MInv'
<1> USE DEF MInv, MemoryTypes
<1>1. /\ said' \in [Sources -> SUBSET Texts] /\ texts' \in [Sources -> Texts \cup {NoText}]
      /\ task' = task /\ rows' = rows /\ persisted' = persisted
  BY DEF Say
<1>2. \A x \in Sources : said[x] \subseteq said'[x] /\ (texts'[x] = texts[x] \/ texts'[x] \in said'[x])
  BY DEF Say
<1>3. TextsWereSaid'
  BY <1>1, <1>2, NotIdle DEF TextsWereSaid, MTasks
<1>4. MemoriesWereSaid'
  <2> SUFFICES ASSUME NEW r \in rows PROVE RowWasSaid(r)'
    BY <1>1 DEF MemoriesWereSaid, RowWasSaid
  <2>1. RowWasSaid(r) /\ r.src \in Sources
    BY DEF MemoriesWereSaid, RowWasSaid
  <2> QED BY <2>1, <1>2 DEF RowWasSaid
<1> QED BY <1>1, <1>3, <1>4

LEMMA DeleteSaid == ASSUME MInv, NEW s \in Sources, Delete(s) PROVE MInv'
<1> USE DEF MInv, MemoryTypes, Delete
<1>1. MemoryTypes'
  OBVIOUS
<1>2. TextsWereSaid'
  BY DEF TextsWereSaid
<1>3. MemoriesWereSaid'
  BY DEF MemoriesWereSaid
<1> QED BY <1>1, <1>2, <1>3

\* One worker's task becomes n; nothing else changes, except what is sent.
LEMMA TaskSaid ==
  ASSUME MInv, NEW w \in Workers, NEW n \in MTasks \cup {NoTask},
         task' = [task EXCEPT ![w] = n], UNCHANGED <<texts, rows, said, persisted>>,
         n # NoTask => n.text \in said[n.src]
  PROVE  MInv'
<1> USE DEF MInv, MemoryTypes
<1>1. MemoryTypes'
  OBVIOUS
<1>2. TextsWereSaid'
  BY DEF TextsWereSaid
<1>3. MemoriesWereSaid'
  BY DEF MemoriesWereSaid
<1> QED BY <1>1, <1>2, <1>3

LEMMA BeginSaid ==
  ASSUME MInv, NEW w \in Workers, NEW s \in Sources, NEW path \in Paths, Begin(w, s, path)
  PROVE  MInv'
<1> DEFINE n == [pc |-> "upload", path |-> path, src |-> s, text |-> texts[s]]
<1>1. texts[s] \in Texts /\ texts[s] \in said[s]
  BY DEF MInv, MemoryTypes, TextsWereSaid, Begin
<1>2. n \in MTasks /\ n.text = texts[s] /\ n.src = s
  BY <1>1 DEF MTasks
<1>3. task' = [task EXCEPT ![w] = n] /\ UNCHANGED <<texts, rows, said, persisted>>
  BY DEF Begin
<1> HIDE DEF n
<1> QED BY <1>1, <1>2, <1>3, TaskSaid

LEMMA OnSaid ==
  ASSUME MInv, NEW w \in Workers, task[w].pc = "upload"
  PROVE  LET n == [task[w] EXCEPT !.pc = "persist"]
         IN  n \in MTasks /\ n.text \in said[n.src]
BY NotIdle DEF MInv, MemoryTypes, TextsWereSaid, MTasks

LEMMA UploadSaid == ASSUME MInv, NEW w \in Workers, Upload(w) \/ Refused(w) \/ Fail(w) PROVE MInv'
<1> DEFINE n == [task[w] EXCEPT !.pc = "persist"]
<1>1. UNCHANGED <<texts, rows, said, persisted>>
  BY DEF Upload, Refused, Fail
<1>2. ASSUME task[w].pc = "upload", task' = [task EXCEPT ![w] = n] PROVE MInv'
  <2>1. n \in MTasks /\ n.text \in said[n.src]
    BY <1>2, OnSaid
  <2> HIDE DEF n
  <2> QED BY <1>1, <1>2, <2>1, TaskSaid
<1>3. ASSUME task' = [task EXCEPT ![w] = NoTask] PROVE MInv'
  BY <1>1, <1>3, TaskSaid
<1>4. \/ task' = [task EXCEPT ![w] = n] /\ task[w].pc = "upload"
      \/ task' = [task EXCEPT ![w] = NoTask]
  BY DEF Upload, Refused, Fail
<1> QED BY <1>2, <1>3, <1>4

LEMMA Persisting ==
  ASSUME MInv, NEW w \in Workers, task[w].pc = "persist"
  PROVE  /\ task[w] \in MTasks /\ task[w].src \in Sources /\ task[w].text \in Texts
         /\ task[w].text \in said[task[w].src] /\ Document(w) \in Docs
BY NotIdle DEF MInv, MemoryTypes, TextsWereSaid, MTasks, Document, Docs

LEMMA PersistSaid == ASSUME MInv, NEW w \in Workers, Persist(w) PROVE MInv'
<1> DEFINE new == RowsOf(task[w].src, task[w].text)
<1>1. task[w].src \in Sources /\ task[w].text \in said[task[w].src] /\ Document(w) \in Docs
  BY Persisting DEF Persist
<1>2. /\ UNCHANGED <<texts, said>> /\ task' = [task EXCEPT ![w] = NoTask]
      /\ persisted' = persisted \cup {Document(w)}
  BY DEF Persist
<1>3. rows' = rows \/ (~Clash(new) /\ rows' \subseteq rows \cup new)
  BY DEF Persist, Upsert
<1>4. ~Clash(new) => \A r \in new : r.src \in Sources /\ RowWasSaid(r)
  <2> SUFFICES ASSUME ~Clash(new), NEW f \in Facts(task[w].text)
               PROVE  Row(task[w].src, f).src \in Sources /\ RowWasSaid(Row(task[w].src, f))
    BY DEF RowsOf
  <2> QED BY <1>1, RowFields, FactsAreSaid DEF RowWasSaid
<1> HIDE DEF new
<1>5. MemoryTypes'
  BY <1>1, <1>2, <1>3, <1>4 DEF MInv, MemoryTypes
<1>6. TextsWereSaid'
  BY <1>2 DEF MInv, MemoryTypes, TextsWereSaid
<1>7. MemoriesWereSaid'
  BY <1>2, <1>3, <1>4 DEF MInv, MemoriesWereSaid, RowWasSaid
<1> QED BY <1>5, <1>6, <1>7 DEF MInv

LEMMA MInvStep == MInv /\ [MemoryNext]_memoryVars => MInv'
<1> SUFFICES ASSUME MInv, [MemoryNext]_memoryVars PROVE MInv'
  OBVIOUS
<1>1. CASE MemoryNext
  BY <1>1, SayKeeps, DeleteSaid, BeginSaid, UploadSaid, PersistSaid DEF MemoryNext
<1>2. CASE UNCHANGED memoryVars
  BY <1>2 DEF memoryVars, MInv, MemoryTypes, TextsWereSaid, MemoriesWereSaid
<1> QED BY <1>1, <1>2

-----------------------------------------------------------------------------
LEMMA RememberedStep ==
  ASSUME MInv, Remembered, [MemoryNext]_memoryVars
  PROVE  Remembered'
<1>1. ASSUME UNCHANGED <<rows, persisted>> PROVE Remembered'
  BY <1>1 DEF Remembered, RowFor
<1>2. ASSUME NEW w \in Workers, Persist(w) PROVE Remembered'
  <2> DEFINE new == RowsOf(task[w].src, task[w].text)
  <2>1. task[w].text \in Texts /\ Document(w).src = task[w].src /\ Document(w).text = task[w].text
    BY <1>2, Persisting DEF Persist, Document
  <2>3. /\ rows' = IF Clash(new) THEN rows
                    ELSE {r \in rows : Key(r) \notin {Key(s) : s \in new}} \cup new
        /\ persisted' = persisted \cup {Document(w)}
    BY <1>2 DEF Persist, Upsert
  <2>4. \A f \in Facts(task[w].text) : Row(task[w].src, f) \in new
    BY DEF RowsOf
  <2> HIDE DEF new
  <2>5. ASSUME NEW r \in rows
        PROVE  \E s \in rows' : s.src = r.src /\ s.kind = r.kind /\ s.canon = r.canon
    <3>1. CASE r \in rows'
      BY <3>1
    <3>2. CASE r \notin rows'
      <4>1. PICK s \in new : Key(s) = Key(r)
        BY <2>3, <3>2
      <4>2. s \in rows' /\ s.src = r.src /\ s.kind = r.kind /\ s.canon = r.canon
        BY <2>3, <3>2, <4>1 DEF Key
      <4> QED BY <4>2
    <3> QED BY <3>1, <3>2
  <2>6. ASSUME NEW d \in persisted', ~Clash(RowsOf(d.src, d.text)), NEW f \in Facts(d.text)
        PROVE  \E r \in rows' : r.src = d.src /\ r.kind = f.kind /\ r.canon = f.canon
    <3>1. CASE d \in persisted
      <4>1. PICK r \in rows : r.src = d.src /\ r.kind = f.kind /\ r.canon = f.canon
        BY <2>6, <3>1 DEF Remembered, RowFor
      <4> QED BY <4>1, <2>5
    <3>2. CASE d = Document(w)
      <4>1. f \in Facts(task[w].text) /\ d.src = task[w].src /\ ~Clash(new)
        BY <2>1, <2>6, <3>2 DEF new
      <4>2. Row(task[w].src, f) \in rows'
        BY <2>3, <2>4, <4>1
      <4> QED BY <4>1, <4>2, RowFields
    <3> QED BY <2>3, <3>1, <3>2
  <2> QED BY <2>6 DEF Remembered, RowFor
<1>3. UNCHANGED <<rows, persisted>> \/ \E w \in Workers : Persist(w)
  BY DEF MemoryNext, memoryVars, Say, Delete, Begin, Upload, Refused, Fail
<1> QED BY <1>1, <1>2, <1>3

(* What is remembered was said where it is said to have been, in a text    *)
(* that Postgres took, and all that such a text says is remembered for     *)
(* ever: whatever fails, whatever calls the same words by two types, and   *)
(* however the ingestions of a source's texts overlap.                     *)
THEOREM MemoryFaithfulCorrect == MemorySpec => []MemoryIsFaithful
<1>1. MemorySpec => []MInv
  BY MInvInit, MInvStep, PTL DEF MemorySpec
<1>2. MemoryInit => Remembered
  BY DEF MemoryInit, Remembered
<1>3. MInv /\ Remembered /\ [MemoryNext]_memoryVars => Remembered'
  BY RememberedStep
<1>4. MInv /\ Remembered => MemoryIsFaithful
  BY DEF MInv, MemoryIsFaithful
<1> QED BY <1>1, <1>2, <1>3, <1>4, PTL DEF MemorySpec

-----------------------------------------------------------------------------
(* Lists.                                                                  *)

\* The keys put D in one order.
Ordered(D, key) ==
  /\ \A i \in D : ~Before(key, i, i)
  /\ \A i, j \in D : i # j => Before(key, i, j) \/ Before(key, j, i)
  /\ \A i, j, k \in D : Before(key, i, j) /\ Before(key, j, k) => Before(key, i, k)

Ahead(D, key, i) == {j \in D : Before(key, j, i)}
Rank(D, key, i) == Cardinality(Ahead(D, key, i)) + 1

\* Whoever is k-th has k - 1 before it, and there is one for each k.
LEMMA SortedPlaces ==
  ASSUME NEW D, IsFiniteSet(D), NEW key, Ordered(D, key)
  PROVE  /\ Sorted(D, key) \in Bijection(1..Cardinality(D), D)
         /\ \A m, n \in 1..Cardinality(D) :
              m < n => Before(key, Sorted(D, key)[m], Sorted(D, key)[n])
         /\ \A i \in D : /\ Cardinality(Ahead(D, key, i)) + 1 \in 1..Cardinality(D)
                         /\ Sorted(D, key)[Cardinality(Ahead(D, key, i)) + 1] = i
<1> DEFINE size == Cardinality(D)
           A(i) == Ahead(D, key, i)
           rank == [i \in D |-> Cardinality(A(i))]
           o == Sorted(D, key)
<1>s. size \in Nat
  BY FS_CardinalityType
<1>1. ASSUME NEW i \in D
      PROVE  IsFiniteSet(A(i)) /\ Cardinality(A(i)) \in Nat /\ Cardinality(A(i)) < size
  <2>1. A(i) \in SUBSET D /\ i \notin A(i)
    BY DEF Ahead, Ordered
  <2> HIDE DEF A
  <2>2. IsFiniteSet(A(i)) /\ Cardinality(A(i)) <= size /\ Cardinality(A(i)) # size
    BY <2>1, FS_Subset
  <2> QED BY <2>2, <1>s, FS_CardinalityType
<1>2. ASSUME NEW i \in D, NEW j \in D, Before(key, i, j) PROVE rank[i] < rank[j]
  <2>1. A(i) \in SUBSET A(j) /\ i \in A(j) /\ i \notin A(i)
    BY <1>2 DEF Ahead, Ordered
  <2> HIDE DEF A
  <2>2. Cardinality(A(i)) <= Cardinality(A(j)) /\ Cardinality(A(i)) # Cardinality(A(j))
    BY <1>1, <2>1, FS_Subset
  <2> QED BY <1>1, <2>2
<1>r. rank \in [D -> 0..size - 1]
  BY <1>1, <1>s
<1>o. o = [k \in 1..size |-> CHOOSE i \in D : Cardinality(A(i)) = k - 1]
  BY DEF Sorted, Ahead
<1>c. \A i \in D : rank[i] = Cardinality(A(i))
  OBVIOUS
<1> HIDE DEF size, A, rank, o
<1>3. rank \in Injection(D, 0..size - 1)
  <2>1. ASSUME NEW i \in D, NEW j \in D, rank[i] = rank[j] PROVE i = j
    <3>1. rank[i] \in Int /\ rank[j] \in Int
      BY <1>r
    <3>2. ~Before(key, i, j) /\ ~Before(key, j, i)
      BY <1>2, <2>1, <3>1
    <3> QED BY <3>2 DEF Ordered
  <2> QED BY <1>r, <2>1 DEF Injection, IsInjective
<1>4. rank \in Surjection(D, 0..size - 1)
  <2>1. IsFiniteSet(0..size - 1) /\ Cardinality(0..size - 1) = size
    BY <1>s, FS_Interval
  <2> QED BY <1>3, <2>1, FS_Injection DEF size
<1>5. ASSUME NEW k \in 1..size PROVE o[k] \in D /\ rank[o[k]] = k - 1
  <2>1. k - 1 \in 0..size - 1
    BY <1>s
  <2>2. PICK i \in D : rank[i] = k - 1
    BY <1>4, <2>1 DEF Surjection
  <2>3. o[k] = CHOOSE j \in D : Cardinality(A(j)) = k - 1
    BY <1>o
  <2> QED BY <1>c, <2>2, <2>3
<1>6. ASSUME NEW i \in D PROVE rank[i] + 1 \in 1..size /\ o[rank[i] + 1] = i
  <2>1. rank[i] \in 0..size - 1
    BY <1>r
  <2>2. rank[i] + 1 \in 1..size
    BY <1>s, <2>1
  <2>3. rank[o[rank[i] + 1]] = rank[i] /\ o[rank[i] + 1] \in D
    BY <1>5, <2>1, <2>2
  <2> QED BY <1>3, <2>2, <2>3 DEF Injection, IsInjective
<1>7. o \in Bijection(1..size, D)
  <2>1. o \in [1..size -> D]
    <3>1. o = [k \in 1..size |-> o[k]]
      BY <1>o
    <3> QED BY <1>5, <3>1
  <2>2. \A m, n \in 1..size : o[m] = o[n] => m = n
    BY <1>5, <1>s
  <2> QED BY <1>6, <2>1, <2>2 DEF Bijection, Injection, Surjection, IsInjective
<1>8. ASSUME NEW m \in 1..size, NEW n \in 1..size, m < n PROVE Before(key, o[m], o[n])
  <2>1. o[m] \in D /\ o[n] \in D /\ rank[o[m]] = m - 1 /\ rank[o[n]] = n - 1
    BY <1>5
  <2>2. o[m] # o[n] /\ ~Before(key, o[n], o[m])
    BY <1>2, <1>8, <1>s, <2>1
  <2> QED BY <2>1, <2>2 DEF Ordered
<1> QED BY <1>6, <1>7, <1>8 DEF size, o, rank, A

Numbers(length) == [1..length -> Int]

\* Lists of numbers of one length are ordered, ties by the positions.
LEMMA LexOrdered ==
  ASSUME NEW L \in Nat, NEW D \in SUBSET Nat, NEW key, \A i \in D : key[i] \in Numbers(L)
  PROVE  Ordered(D, key)
<1>0. \A i \in D : key[i] \in [1..L -> Int]
  BY DEF Numbers
<1>l. \A i, j \in D : LexLess(key[i], key[j]) <=>
        \E n \in 1..L : key[i][n] < key[j][n] /\ \A m \in 1..n-1 : key[i][m] = key[j][m]
  BY <1>0 DEF LexLess
<1>t. \A i \in D : \A n \in 1..L : key[i][n] \in Int
  BY <1>0
<1>1. ASSUME NEW i \in D PROVE ~Before(key, i, i)
  BY <1>l, <1>t DEF Before
<1>2. ASSUME NEW i \in D, NEW j \in D, key[i] # key[j]
      PROVE  LexLess(key[i], key[j]) \/ LexLess(key[j], key[i])
  <2> DEFINE S == {n \in 1..L : key[i][n] # key[j][n]}
  <2>1. S # {}
    <3>1. SUFFICES ASSUME \A n \in 1..L : key[i][n] = key[j][n] PROVE FALSE
      OBVIOUS
    <3>2. key[i] \in [1..L -> Int] /\ key[j] \in [1..L -> Int]
      BY <1>0
    <3>3. key[i] = key[j]
      BY <3>1, <3>2
    <3> QED BY <1>2, <3>3
  <2>2. PICK n \in S : \A m \in S : n <= m
    <3>1. S \in SUBSET Nat
      OBVIOUS
    <3> HIDE DEF S
    <3> QED BY <2>1, <3>1, LeastExists
  <2>3. \A m \in 1..n-1 : key[i][m] = key[j][m]
    BY <2>2
  <2>4. n \in 1..L /\ key[i][n] # key[j][n] /\ key[i][n] \in Int /\ key[j][n] \in Int
    BY <1>t, <2>2
  <2>5. CASE key[i][n] < key[j][n]
    BY <1>l, <2>3, <2>4, <2>5
  <2>6. CASE key[j][n] < key[i][n]
    <3>1. \A m \in 1..n-1 : key[j][m] = key[i][m]
      BY <2>3
    <3> QED BY <1>l, <2>4, <2>6, <3>1
  <2> QED BY <2>4, <2>5, <2>6
<1>3. ASSUME NEW i \in D, NEW j \in D, NEW k \in D, LexLess(key[i], key[j]), LexLess(key[j], key[k])
      PROVE  LexLess(key[i], key[k])
  <2>1. PICK m \in 1..L : key[i][m] < key[j][m] /\ \A p \in 1..m-1 : key[i][p] = key[j][p]
    BY <1>l, <1>3
  <2>2. PICK n \in 1..L : key[j][n] < key[k][n] /\ \A p \in 1..n-1 : key[j][p] = key[k][p]
    BY <1>l, <1>3
  <2>3. CASE m < n
    <3>1. key[j][m] = key[k][m]
      BY <2>2, <2>3
    <3>2. ASSUME NEW p \in 1..m-1 PROVE key[i][p] = key[k][p]
      <4>1. p \in 1..n-1
        BY <2>3
      <4> QED BY <2>1, <2>2, <4>1
    <3>3. key[i][m] < key[k][m]
      BY <2>1, <3>1
    <3> QED BY <1>l, <3>2, <3>3
  <2>4. CASE n < m
    <3>1. key[i][n] = key[j][n]
      BY <2>1, <2>4
    <3>2. \A p \in 1..n-1 : key[i][p] = key[k][p]
      BY <2>1, <2>2, <2>4
    <3>3. key[i][n] < key[k][n]
      BY <2>2, <3>1
    <3> QED BY <1>l, <3>2, <3>3
  <2>5. CASE m = n
    <3>1. \A p \in 1..n-1 : key[i][p] = key[k][p]
      BY <2>1, <2>2, <2>5
    <3>2. key[i][n] < key[k][n]
      BY <1>t, <2>1, <2>2, <2>5
    <3> QED BY <1>l, <3>1, <3>2
  <2> QED BY <2>3, <2>4, <2>5
<1>4. ASSUME NEW i \in D, NEW j \in D, NEW k \in D, Before(key, i, j), Before(key, j, k)
      PROVE  Before(key, i, k)
  <2>1. i \in Nat /\ j \in Nat /\ k \in Nat
    OBVIOUS
  <2>2. CASE key[i] = key[j]
    BY <1>4, <2>1, <2>2, <1>1 DEF Before
  <2>3. CASE key[j] = key[k]
    BY <1>4, <2>1, <2>3, <1>1 DEF Before
  <2>4. CASE key[i] # key[j] /\ key[j] # key[k]
    BY <1>3, <1>4, <2>4 DEF Before
  <2> QED BY <2>2, <2>3, <2>4
<1>5. ASSUME NEW i \in D, NEW j \in D, i # j PROVE Before(key, i, j) \/ Before(key, j, i)
  <2>1. CASE key[i] = key[j]
    <3>1. i < j \/ j < i
      BY <1>5
    <3>2. key[j] = key[i]
      BY <2>1
    <3> QED BY <2>1, <3>1, <3>2 DEF Before
  <2>2. CASE key[i] # key[j]
    BY <1>2, <2>2 DEF Before
  <2> QED BY <2>1, <2>2
<1> QED BY <1>1, <1>4, <1>5 DEF Ordered

\* t has elements of s, none of them from one place twice.
Places(t, s) == {p \in Injection(DOMAIN t, DOMAIN s) : \A k \in DOMAIN t : t[k] = s[p[k]]}
Sub(t, s) == Places(t, s) # {}

LEMMA SeqOfFunction ==
  ASSUME NEW X, NEW n \in Nat, NEW f \in [1..n -> X]
  PROVE  f \in Seq(X) /\ Len(f) = n /\ DOMAIN f = 1..n
<1>1. f \in Seq(X)
  BY SeqDef
<1>2. DOMAIN f = 1..n
  OBVIOUS
<1>3. DOMAIN f = 1..Len(f) /\ Len(f) \in Nat
  BY <1>1, LenProperties
<1> QED BY <1>1, <1>2, <1>3

LEMMA SortedByList ==
  ASSUME NEW X, NEW s \in Seq(X), NEW L \in Nat, NEW key, \A i \in DOMAIN s : key[i] \in Numbers(L)
  PROVE  /\ SortedBy(s, key) \in Seq(X) /\ Len(SortedBy(s, key)) = Len(s) /\ Sub(SortedBy(s, key), s)
         /\ \A m, n \in DOMAIN s : m < n =>
              \E i, j \in DOMAIN s : /\ SortedBy(s, key)[m] = s[i] /\ SortedBy(s, key)[n] = s[j]
                                     /\ Before(key, i, j)
         /\ \A i \in DOMAIN s : \E n \in DOMAIN s :
              SortedBy(s, key)[n] = s[i] /\ n = Rank(DOMAIN s, key, i)
<1> DEFINE D == DOMAIN s
           o == Sorted(D, key)
           t == SortedBy(s, key)
<1>1. D = 1..Len(s) /\ Len(s) \in Nat /\ s \in [D -> X]
  BY LenProperties
<1>2. IsFiniteSet(D) /\ Cardinality(D) = Len(s)
  <2>1. ASSUME NEW n \in Nat PROVE IsFiniteSet(1..n) /\ Cardinality(1..n) = n
    BY FS_Interval
  <2> QED BY <1>1, <2>1
<1>3. Ordered(D, key)
  BY <1>1, LexOrdered
<1>4. /\ o \in Bijection(D, D)
      /\ \A m, n \in D : m < n => Before(key, o[m], o[n])
      /\ \A i \in D : /\ Cardinality(Ahead(D, key, i)) + 1 \in D
                      /\ o[Cardinality(Ahead(D, key, i)) + 1] = i
  BY <1>1, <1>2, <1>3, SortedPlaces
<1>5. t = [k \in D |-> s[o[k]]]
  BY DEF SortedBy
<1>6. o \in [D -> D] /\ o \in Injection(D, D)
  BY <1>4 DEF Bijection, Injection
<1> HIDE DEF D, o, t
<1>7. t \in [D -> X]
  BY <1>1, <1>5, <1>6
<1>8. t \in Seq(X) /\ Len(t) = Len(s) /\ DOMAIN t = D
  BY <1>1, <1>7, SeqOfFunction
<1>9. Sub(t, s)
  BY <1>5, <1>6, <1>8 DEF Sub, Places, D
<1>10. \A m, n \in D : m < n => \E i, j \in D : t[m] = s[i] /\ t[n] = s[j] /\ Before(key, i, j)
  BY <1>4, <1>5, <1>6
<1>11. ASSUME NEW i \in D
       PROVE  \E n \in D : t[n] = s[i] /\ n = Rank(D, key, i)
  <2> DEFINE n == Cardinality(Ahead(D, key, i)) + 1
  <2>1. n \in D /\ o[n] = i
    BY <1>4
  <2> HIDE DEF n
  <2>2. t[n] = s[i]
    BY <1>5, <2>1
  <2> QED BY <2>1, <2>2 DEF n, Rank
<1> QED BY <1>4, <1>8, <1>9, <1>10, <1>11 DEF D, t

LEMMA AtList ==
  ASSUME NEW X, NEW s \in Seq(X), NEW D \in SUBSET DOMAIN s
  PROVE  /\ At(s, D) \in Seq(X) /\ Len(At(s, D)) = Cardinality(D) /\ Sub(At(s, D), s)
         /\ \E p \in Bijection(1..Cardinality(D), D) : \A k \in 1..Cardinality(D) : At(s, D)[k] = s[p[k]]
         /\ IsFiniteSet(D) /\ Cardinality(D) \in Nat
<1> DEFINE key == [n \in D |-> <<n>>]
           o == Sorted(D, key)
           t == At(s, D)
           size == Cardinality(D)
<1>1. DOMAIN s = 1..Len(s) /\ Len(s) \in Nat /\ s \in [DOMAIN s -> X]
  BY LenProperties
<1>2. D \in SUBSET Nat
  BY <1>1
<1>3. IsFiniteSet(D) /\ size \in Nat
  <2>1. IsFiniteSet(DOMAIN s)
    <3>1. ASSUME NEW n \in Nat PROVE IsFiniteSet(1..n)
      BY FS_Interval
    <3> QED BY <1>1, <3>1
  <2> QED BY <2>1, FS_Subset, FS_CardinalityType
<1>4. \A i \in D : key[i] \in Numbers(1)
  BY <1>2 DEF Numbers
<1> HIDE DEF key
<1>5. o \in Bijection(1..size, D)
  BY <1>2, <1>3, <1>4, LexOrdered, SortedPlaces
<1>6. t = [k \in 1..size |-> s[o[k]]]
  BY DEF At, key
<1>7. o \in [1..size -> D] /\ \A m, n \in 1..size : o[m] = o[n] => m = n
  BY <1>5 DEF Bijection, Injection, IsInjective
<1> HIDE DEF o, t, size
<1>8. t \in [1..size -> X]
  BY <1>1, <1>6, <1>7
<1>9. t \in Seq(X) /\ Len(t) = size /\ DOMAIN t = 1..size
  BY <1>3, <1>8, SeqOfFunction
<1>10. Sub(t, s)
  <2>1. o \in Injection(DOMAIN t, DOMAIN s)
    BY <1>7, <1>9 DEF Injection, IsInjective
  <2>2. \A k \in DOMAIN t : t[k] = s[o[k]]
    BY <1>6, <1>9
  <2> QED BY <2>1, <2>2 DEF Sub, Places
<1>11. \A k \in 1..size : t[k] = s[o[k]]
  BY <1>6
<1> QED BY <1>3, <1>5, <1>9, <1>10, <1>11 DEF t, size

LEMMA SubTrans ==
  ASSUME NEW r, NEW s, NEW t, Sub(r, s), Sub(s, t)
  PROVE  Sub(r, t)
<1>1. PICK p \in Places(r, s) : TRUE
  BY DEF Sub
<1>2. PICK q \in Places(s, t) : TRUE
  BY DEF Sub
<1> DEFINE pq == [k \in DOMAIN r |-> q[p[k]]]
<1>3. /\ p \in [DOMAIN r -> DOMAIN s] /\ q \in [DOMAIN s -> DOMAIN t]
      /\ \A m, n \in DOMAIN r : p[m] = p[n] => m = n
      /\ \A m, n \in DOMAIN s : q[m] = q[n] => m = n
      /\ \A k \in DOMAIN r : r[k] = s[p[k]]
      /\ \A k \in DOMAIN s : s[k] = t[q[k]]
  BY <1>1, <1>2 DEF Places, Injection, IsInjective
<1>4. pq \in Injection(DOMAIN r, DOMAIN t)
  BY <1>3 DEF Injection, IsInjective
<1>5. \A k \in DOMAIN r : r[k] = t[pq[k]]
  BY <1>3
<1> QED BY <1>4, <1>5 DEF Sub, Places

LEMMA SubSelf == ASSUME NEW s PROVE Sub(s, s)
<1> DEFINE p == [k \in DOMAIN s |-> k]
<1>1. p \in Injection(DOMAIN s, DOMAIN s) /\ \A k \in DOMAIN s : s[k] = s[p[k]]
  BY DEF Injection, IsInjective
<1> QED BY <1>1 DEF Sub, Places

LEMMA MinOfTwo ==
  ASSUME NEW a \in Nat, NEW b \in Nat
  PROVE  Min({a, b}) = IF a <= b THEN a ELSE b
BY DEF Min

\* The first that there is room for.
LEMMA CappedList ==
  ASSUME NEW X, NEW s \in Seq(X), ask.topK \in Nat
  PROVE  LET n == IF Len(s) <= ask.topK THEN Len(s) ELSE ask.topK
         IN /\ Capped(s) \in Seq(X) /\ Len(Capped(s)) = n /\ Sub(Capped(s), s)
            /\ \A k \in 1..n : Capped(s)[k] = s[k]
<1> DEFINE n == IF Len(s) <= ask.topK THEN Len(s) ELSE ask.topK
           t == Capped(s)
<1>1. DOMAIN s = 1..Len(s) /\ Len(s) \in Nat /\ s \in [DOMAIN s -> X]
  BY LenProperties
<1>2. t = SubSeq(s, 1, n) /\ n \in Nat /\ n <= Len(s)
  BY <1>1, MinOfTwo DEF Capped
<1> HIDE DEF n, t
<1>3. \A k \in 1..n : s[k] \in X
  BY <1>1, <1>2
<1>4. t \in Seq(X) /\ Len(t) = n /\ \A k \in 1..n : t[k] = s[k]
  BY <1>2, <1>3, SubSeqProperties
<1>5. DOMAIN t = 1..n
  BY <1>4, LenProperties
<1>6. Sub(t, s)
  <2> DEFINE p == [k \in 1..n |-> k]
  <2>1. p \in Injection(DOMAIN t, DOMAIN s) /\ \A k \in DOMAIN t : t[k] = s[p[k]]
    BY <1>1, <1>2, <1>4, <1>5 DEF Injection, IsInjective
  <2> QED BY <2>1 DEF Sub, Places
<1> QED BY <1>4, <1>6 DEF t, n

-----------------------------------------------------------------------------
(* Recall: what the lists of one question hold.                            *)

Inputs ==
  /\ ask \in Asks /\ response \in Responses /\ memories \in MemoryLists
  /\ Len(response) <= ask.topK \/ ask.recency

\* The provers do not know that a literal is a string.
Strings == STRING \cup {Unknown, "memory"}
SourceNames == Strings \cup {ToString(n) : n \in Nat}
Cards == [index : Nat, doc : Strings, key : Strings, source : SourceNames, channel : Strings,
          user : Strings, sender : Strings, type : Strings, ts : Nat, permalink : Strings]
Items == [card : Cards, text : BOOLEAN, place : Nat, hits : Nat, subject : Nat]

LEMMA CardType ==
  ASSUME NEW c \in Chunk, NEW n \in Nat
  PROVE  Card(c, n) \in Cards /\ Card(c, n).doc = c.doc
<1>1. Entry(c) \subseteq StateEntry
  BY RecallAssumption DEF Entry
<1>2. Source(c, n) \in SourceNames
  BY DEF Source, SourceNames, Strings, Chunk
<1>3. CASE Entry(c) # {}
  <2> DEFINE e == CHOOSE x \in Entry(c) : TRUE
  <2>1. e \in StateEntry
    BY <1>1, <1>3
  <2> HIDE DEF e
  <2> DEFINE source == IF e.channel # Unknown THEN e.channel ELSE Source(c, n)
  <2>2. source \in SourceNames
    BY <1>2, <2>1 DEF SourceNames, Strings, StateEntry
  <2>3. Card(c, n) = [index |-> n, doc |-> c.doc, key |-> e.key,
           source |-> source, channel |-> e.channel, user |-> e.user, sender |-> Unknown,
           type |-> e.type, ts |-> e.ts, permalink |-> e.permalink]
    BY <1>3 DEF Card, e
  <2> HIDE DEF source
  <2>4. /\ e.key \in STRING /\ e.channel \in STRING /\ e.user \in STRING /\ e.type \in STRING
        /\ e.ts \in Nat /\ e.permalink \in STRING /\ c.doc \in STRING
    BY <2>1 DEF StateEntry, Chunk
  <2>5. /\ e.key \in Strings /\ e.channel \in Strings /\ e.user \in Strings /\ e.type \in Strings
        /\ e.permalink \in Strings /\ c.doc \in Strings /\ Unknown \in Strings
    BY <2>4 DEF Strings
  <2>6. Card(c, n) \in Cards
    BY <2>2, <2>3, <2>4, <2>5 DEF Cards
  <2> QED BY <2>3, <2>6
<1>4. CASE Entry(c) = {}
  <2>1. Card(c, n) = [index |-> n, doc |-> c.doc, key |-> c.key, source |-> Source(c, n),
          channel |-> c.head.channel, user |-> Unknown, sender |-> c.head.sender,
          type |-> c.head.type, ts |-> c.head.ts, permalink |-> c.head.permalink]
    BY <1>4 DEF Card
  <2>2. c.head \in Header
    BY DEF Chunk
  <2>3. /\ c.doc \in STRING /\ c.key \in STRING /\ c.head.channel \in STRING
        /\ c.head.sender \in STRING /\ c.head.type \in STRING /\ c.head.ts \in Nat
        /\ c.head.permalink \in STRING
    BY <2>2 DEF Chunk, Header
  <2>4. /\ c.doc \in Strings /\ c.key \in Strings /\ c.head.channel \in Strings
        /\ c.head.sender \in Strings /\ c.head.type \in Strings /\ c.head.permalink \in Strings
        /\ Unknown \in Strings
    BY <2>3 DEF Strings
  <2>5. Card(c, n) \in Cards
    BY <1>2, <2>1, <2>3, <2>4 DEF Cards
  <2> QED BY <2>1, <2>5
<1> QED BY <1>3, <1>4

LEMMA SearchedType == ASSUME NEW n \in Nat PROVE Searched(n) \in Nat
BY DEF Searched

LEMMA SnippetsList ==
  ASSUME Inputs
  PROVE  /\ Snippets \in Seq(Items) /\ Len(Snippets) <= Len(response)
         /\ \A n \in DOMAIN Snippets : \E m \in DOMAIN response :
              /\ Snippets[n].card = Card(response[m], m) /\ Snippets[n].place = m
<1> DEFINE item(n) == [card |-> Card(response[n], n), text |-> response[n].text, place |-> n,
                       hits |-> Searched(response[n].hits), subject |-> Searched(response[n].subject)]
           all == [n \in DOMAIN response |-> item(n)]
           D == {n \in DOMAIN all : all[n].text /\ Passes(all[n].card)}
<1>1. /\ response \in Seq(Chunk) /\ Len(response) \in Nat /\ DOMAIN response = 1..Len(response)
      /\ response \in [1..Len(response) -> Chunk]
  BY RecallAssumption, LenProperties DEF Inputs
<1>2. ASSUME NEW n \in 1..Len(response) PROVE item(n) \in Items
  <2>1. response[n] \in Chunk /\ n \in Nat
    BY <1>1
  <2>2. Card(response[n], n) \in Cards
    BY <2>1, CardType
  <2>3. Searched(response[n].hits) \in Nat /\ Searched(response[n].subject) \in Nat
    BY <2>1, SearchedType DEF Chunk
  <2> QED BY <2>1, <2>2, <2>3 DEF Items, Chunk
<1>3. Snippets = At(all, D)
  BY DEF Snippets
<1> HIDE DEF item
<1>4. all \in [1..Len(response) -> Items]
  BY <1>1, <1>2
<1> HIDE DEF all
<1>5. all \in Seq(Items) /\ DOMAIN all = 1..Len(response)
  BY <1>1, <1>4, SeqOfFunction
<1> HIDE DEF D
<1>6. D \in SUBSET DOMAIN all
  BY DEF D
<1>7. /\ Snippets \in Seq(Items) /\ Len(Snippets) = Cardinality(D) /\ Sub(Snippets, all)
  BY <1>3, <1>5, <1>6, AtList
<1>8. Cardinality(D) <= Len(response)
  <2>1. IsFiniteSet(1..Len(response)) /\ Cardinality(1..Len(response)) = Len(response)
    <3>1. ASSUME NEW n \in Nat PROVE IsFiniteSet(1..n) /\ Cardinality(1..n) = n
      BY FS_Interval
    <3> QED BY <1>1, <3>1
  <2> QED BY <1>5, <1>6, <2>1, FS_Subset
<1>9. ASSUME NEW n \in DOMAIN Snippets
      PROVE  \E m \in DOMAIN response : /\ Snippets[n].card = Card(response[m], m)
                                        /\ Snippets[n].place = m
  <2>1. PICK p \in Injection(DOMAIN Snippets, DOMAIN all) :
          \A k \in DOMAIN Snippets : Snippets[k] = all[p[k]]
    BY <1>7 DEF Sub, Places
  <2>2. p[n] \in DOMAIN response /\ Snippets[n] = all[p[n]]
    BY <1>1, <1>5, <2>1 DEF Injection
  <2>3. all[p[n]] = item(p[n])
    BY <2>2 DEF all
  <2> QED BY <2>2, <2>3 DEF item
<1> QED BY <1>7, <1>8, <1>9

LEMMA NoBias ==
  ASSUME NEW x, x.channel = Unknown, x.user = Unknown, x.sender = Unknown PROVE Bias(x) = 0
BY DEF Bias

\* Memories come after all snippets, each with a place of its own.
LEMMA MemoriesList ==
  ASSUME Inputs
  PROVE  /\ Memories \in Seq(Items)
         /\ ask.recency => Memories = <<>>
         /\ \A n \in DOMAIN Memories :
              /\ \E k \in DOMAIN memories : /\ Memories[n].card.doc = memories[k].doc
                                            /\ Memories[n].card.key = memories[k].key
              /\ Bias(Memories[n].card) = 0 /\ Memories[n].place > Len(Snippets)
         /\ \A m, n \in DOMAIN Memories : Memories[m].place = Memories[n].place => m = n
<1> DEFINE item(k) == [card |-> [index |-> 0, doc |-> memories[k].doc, key |-> memories[k].key,
                         source |-> memories[k].key, channel |-> Unknown, user |-> Unknown,
                         sender |-> Unknown, type |-> "memory", ts |-> memories[k].ts, permalink |-> Unknown],
               text |-> TRUE, place |-> MemoriesFrom(Len(Snippets)) + k - 1,
               hits |-> Searched(memories[k].hits), subject |-> 0]
           all == [k \in DOMAIN memories |-> item(k)]
           D == {k \in DOMAIN all : Passes(all[k].card)}
<1>1. /\ memories \in Seq(Memory) /\ Len(memories) \in Nat /\ DOMAIN memories = 1..Len(memories)
      /\ memories \in [1..Len(memories) -> Memory]
  BY RecallAssumption, LenProperties DEF Inputs
<1>s. Len(Snippets) \in Nat
  BY SnippetsList, LenProperties
<1>2. ASSUME NEW k \in 1..Len(memories)
      PROVE  /\ item(k) \in Items /\ item(k).card.doc = memories[k].doc
             /\ item(k).card.key = memories[k].key
             /\ Bias(item(k).card) = 0 /\ item(k).place = Len(Snippets) + k
  <2>1. memories[k] \in Memory /\ k \in Nat
    BY <1>1
  <2>2. Searched(memories[k].hits) \in Nat
    BY <2>1, SearchedType DEF Memory
  <2>3. MemoriesFrom(Len(Snippets)) + k - 1 = Len(Snippets) + k /\ Len(Snippets) + k \in Nat
    BY <1>s, <2>1 DEF MemoriesFrom
  <2>4. item(k).card.channel = Unknown /\ item(k).card.user = Unknown /\ item(k).card.sender = Unknown
    OBVIOUS
  <2>5. Bias(item(k).card) = 0
    <3> DEFINE x == item(k).card
    <3>1. x.channel = Unknown /\ x.user = Unknown /\ x.sender = Unknown
      BY <2>4
    <3> HIDE DEF item
    <3> HIDE DEF x
    <3>2. Bias(x) = 0
      BY <3>1, NoBias
    <3> QED BY <3>2 DEF x
  <2>6. item(k).card \in Cards
    <3>1. /\ memories[k].doc \in STRING /\ memories[k].key \in STRING /\ memories[k].ts \in Nat
          /\ memories[k].key \in SourceNames
      BY <2>1 DEF Memory, SourceNames, Strings
    <3>2. item(k).card = [index |-> 0, doc |-> memories[k].doc, key |-> memories[k].key,
                          source |-> memories[k].key, channel |-> Unknown, user |-> Unknown,
                          sender |-> Unknown, type |-> "memory", ts |-> memories[k].ts,
                          permalink |-> Unknown]
      OBVIOUS
    <3>3. Unknown \in Strings /\ "memory" \in Strings /\ 0 \in Nat
      BY DEF Strings
    <3>4. memories[k].doc \in Strings /\ memories[k].key \in Strings
      BY <3>1 DEF Strings
    <3> HIDE DEF item
    <3> QED BY <3>1, <3>2, <3>3, <3>4 DEF Cards
  <2> QED BY <2>1, <2>2, <2>3, <2>5, <2>6 DEF Items
<1>3. Memories = IF ask.recency THEN <<>> ELSE At(all, D)
  BY DEF Memories
<1> HIDE DEF item
<1>4. all \in [1..Len(memories) -> Items]
  BY <1>1, <1>2
<1>a. \A k \in 1..Len(memories) : all[k] = item(k)
  BY <1>1
<1> HIDE DEF all
<1>5. all \in Seq(Items) /\ DOMAIN all = 1..Len(memories)
  BY <1>1, <1>4, SeqOfFunction
<1> HIDE DEF D
<1>6. D \in SUBSET DOMAIN all
  BY DEF D
<1>7. CASE ask.recency
  <2>1. Memories = <<>> /\ DOMAIN Memories = {}
    BY <1>3, <1>7
  <2> QED BY <2>1
<1>8. CASE ~ask.recency
  <2>1. Memories \in Seq(Items) /\ Sub(Memories, all)
    BY <1>3, <1>5, <1>6, <1>8, AtList
  <2>2. PICK p \in Injection(DOMAIN Memories, DOMAIN all) :
          \A n \in DOMAIN Memories : Memories[n] = all[p[n]]
    BY <2>1 DEF Sub, Places
  <2>3. \A n \in DOMAIN Memories : p[n] \in 1..Len(memories) /\ Memories[n] = item(p[n])
    BY <1>5, <1>a, <2>2 DEF Injection
  <2>4. \A m, n \in DOMAIN Memories : p[m] = p[n] => m = n
    BY <2>2 DEF Injection, IsInjective
  <2>5. ASSUME NEW n \in DOMAIN Memories
        PROVE  /\ \E k \in DOMAIN memories : /\ Memories[n].card.doc = memories[k].doc
                                             /\ Memories[n].card.key = memories[k].key
               /\ Bias(Memories[n].card) = 0 /\ Memories[n].place > Len(Snippets)
               /\ Memories[n].place = Len(Snippets) + p[n]
    <3>1. p[n] \in 1..Len(memories) /\ Memories[n] = item(p[n]) /\ p[n] \in DOMAIN memories
      BY <1>1, <2>3
    <3>2. /\ item(p[n]).card.doc = memories[p[n]].doc /\ item(p[n]).card.key = memories[p[n]].key
          /\ Bias(item(p[n]).card) = 0 /\ item(p[n]).place = Len(Snippets) + p[n]
      BY <1>2, <3>1
    <3>3. Len(Snippets) + p[n] > Len(Snippets)
      BY <1>s, <3>1
    <3> QED BY <3>1, <3>2, <3>3
  <2>6. ASSUME NEW m \in DOMAIN Memories, NEW n \in DOMAIN Memories,
               Memories[m].place = Memories[n].place
        PROVE  m = n
    <3>1. p[m] = p[n]
      BY <1>s, <2>3, <2>5, <2>6
    <3> QED BY <2>4, <3>1
  <2> QED BY <1>8, <2>1, <2>5, <2>6
<1> QED BY <1>7, <1>8

LEMMA CandidatesList ==
  ASSUME Inputs, NEW extra \in Seq(Items)
  PROVE  /\ Candidates(extra) \in Seq(Items) /\ Sub(Candidates(extra), Snippets \o extra)
         /\ \A m, n \in DOMAIN Candidates(extra) :
              Candidates(extra)[m].card.key = Candidates(extra)[n].card.key =>
                m = n \/ Candidates(extra)[m].card.key = Unknown
<1> DEFINE s == Snippets \o extra
           D == {n \in DOMAIN s :
                   \A m \in 1..n-1 : s[n].card.key = Unknown \/ s[m].card.key # s[n].card.key}
           t == Candidates(extra)
<1>1. s \in Seq(Items)
  BY SnippetsList, ConcatProperties
<1>2. t = At(s, D)
  BY DEF Candidates, Deduped
<1>f. /\ D \in SUBSET DOMAIN s
      /\ \A n \in D : \A m \in 1..n-1 : s[n].card.key = Unknown \/ s[m].card.key # s[n].card.key
  OBVIOUS
<1> HIDE DEF s, D
<1>d. DOMAIN s = 1..Len(s) /\ Len(s) \in Nat
  BY <1>1, LenProperties
<1> HIDE DEF t
<1>3. /\ t \in Seq(Items) /\ Sub(t, s) /\ Len(t) = Cardinality(D)
      /\ \E p \in Bijection(1..Cardinality(D), D) : \A k \in 1..Cardinality(D) : t[k] = s[p[k]]
  <2>1. D \in SUBSET DOMAIN s
    BY <1>f
  <2>2. /\ At(s, D) \in Seq(Items) /\ Sub(At(s, D), s) /\ Len(At(s, D)) = Cardinality(D)
        /\ \E p \in Bijection(1..Cardinality(D), D) :
             \A k \in 1..Cardinality(D) : At(s, D)[k] = s[p[k]]
    BY <1>1, <2>1, AtList
  <2> QED BY <1>2, <2>2
<1>4. PICK p \in Bijection(1..Len(t), D) : \A k \in 1..Len(t) : t[k] = s[p[k]]
  BY <1>3
<1>5. /\ \A k \in 1..Len(t) : p[k] \in D
      /\ \A m, n \in 1..Len(t) : p[m] = p[n] => m = n
  BY <1>4 DEF Bijection, Injection, IsInjective
<1>6. DOMAIN t = 1..Len(t)
  BY <1>3, LenProperties
<1>7. ASSUME NEW m \in DOMAIN t, NEW n \in DOMAIN t, t[m].card.key = t[n].card.key, t[m].card.key # Unknown
      PROVE  m = n
  <2>1. p[m] \in D /\ p[n] \in D /\ s[p[m]].card.key = s[p[n]].card.key /\ s[p[m]].card.key # Unknown
    BY <1>4, <1>5, <1>6, <1>7
  <2>2. p[m] \in 1..Len(s) /\ p[n] \in 1..Len(s)
    BY <1>d, <1>f, <2>1
  <2>3. \A i, j \in 1..Len(s) : i < j => i \in 1..j-1
    BY <1>d
  <2>4. ~(p[m] < p[n]) /\ ~(p[n] < p[m])
    BY <1>f, <2>1, <2>2, <2>3
  <2>5. p[m] = p[n]
    BY <1>d, <2>2, <2>4
  <2> QED BY <1>5, <1>6, <2>5
<1> QED BY <1>3, <1>7 DEF s, t

LEMMA BiasType == ASSUME NEW x PROVE Bias(x) \in Nat
BY DEF Bias

LEMMA NewestBound ==
  ASSUME NEW s \in Seq(Items)
  PROVE  /\ Newest(s) \in Nat /\ Newest(s) >= 1
         /\ \A n \in DOMAIN s : s[n].card.ts \in Nat /\ s[n].card.ts <= Newest(s)
<1> DEFINE f == [n \in DOMAIN s |-> s[n].card.ts]
           T == {x.card.ts : x \in ToSet(s)}
           S == {1} \cup T
<1>1. DOMAIN s = 1..Len(s) /\ Len(s) \in Nat /\ s \in [DOMAIN s -> Items]
  BY LenProperties
<1>2. \A n \in DOMAIN s : s[n].card.ts \in Nat
  BY <1>1 DEF Items, Cards
<1>3. f \in Surjection(DOMAIN s, T)
  BY DEF ToSet, Surjection
<1>4. IsFiniteSet(DOMAIN s)
  <2>1. ASSUME NEW n \in Nat PROVE IsFiniteSet(1..n)
    BY FS_Interval
  <2> QED BY <1>1, <2>1
<1> HIDE DEF f
<1>5. IsFiniteSet(T)
  BY <1>3, <1>4, FS_Surjection
<1>6. T \in SUBSET Nat /\ \A n \in DOMAIN s : s[n].card.ts \in T
  BY <1>2 DEF ToSet
<1>n. Newest(s) = Max(S)
  BY DEF Newest
<1> HIDE DEF T
<1>7. IsFiniteSet(S) /\ S \in SUBSET Nat /\ 1 \in S
  <2>1. IsFiniteSet({1})
    BY FS_Singleton
  <2>2. IsFiniteSet(S)
    BY <1>5, <2>1, FS_Union
  <2> QED BY <1>6, <2>2
<1>8. \A n \in DOMAIN s : s[n].card.ts \in S
  BY <1>6
<1> HIDE DEF S
<1>9. PICK x \in S : \A y \in S : y <= x
  BY <1>7, MaxExists
<1>10. \A y \in S : x >= y
  BY <1>7, <1>9
<1>11. Max(S) \in S /\ \A y \in S : Max(S) >= y
  BY <1>10 DEF Max
<1> QED BY <1>7, <1>8, <1>11, <1>n

LEMMA ScoreType ==
  ASSUME NEW x \in Items, NEW newest \in Nat
  PROVE  HybridScore(x, newest) \in Int
<1> DEFINE relevance == x.hits * W_KEYWORD_HIT + x.subject * W_SUBJECT_HIT + Bias(x.card) * W_CHANNEL_MATCH
<1>1. /\ x.hits \in Nat /\ x.subject \in Nat /\ x.card.ts \in Nat /\ Bias(x.card) \in Nat
  BY BiasType DEF Items, Cards
<1>2. relevance \in Nat
  BY <1>1 DEF W_KEYWORD_HIT, W_SUBJECT_HIT, W_CHANNEL_MATCH
<1>3. HybridScore(x, newest) = relevance * newest + x.card.ts * W_RECENCY
  BY DEF HybridScore
<1> HIDE DEF relevance
<1> QED BY <1>1, <1>2, <1>3 DEF W_RECENCY

LEMMA ItemNumbers ==
  ASSUME NEW s \in Seq(Items), NEW n \in DOMAIN s
  PROVE  /\ s[n] \in Items /\ s[n].hits \in Int /\ s[n].subject \in Int /\ s[n].place \in Nat
         /\ s[n].card.ts \in Int /\ Bias(s[n].card) \in Int
<1>1. s[n] \in Items
  BY LenProperties
<1> QED BY <1>1, BiasType DEF Items, Cards

BiasKey(s) == [n \in DOMAIN s |-> <<-Bias(s[n].card), s[n].place>>]

LEMMA ByBiasList ==
  ASSUME NEW s \in Seq(Items)
  PROVE  /\ ByBias(s) \in Seq(Items) /\ Sub(ByBias(s), s) /\ DOMAIN ByBias(s) = DOMAIN s
         /\ \A q \in DOMAIN s : \E n \in DOMAIN s :
              ByBias(s)[n] = s[q] /\ n = Rank(DOMAIN s, BiasKey(s), q)
<1> DEFINE key == BiasKey(s)
<1>1. \A n \in DOMAIN s : key[n] \in Numbers(2)
  BY ItemNumbers DEF BiasKey, Numbers
<1>2. ByBias(s) = SortedBy(s, key)
  BY DEF ByBias, BiasKey
<1> HIDE DEF key
<1>3. /\ SortedBy(s, key) \in Seq(Items) /\ Sub(SortedBy(s, key), s)
      /\ Len(SortedBy(s, key)) = Len(s)
      /\ \A q \in DOMAIN s : \E n \in DOMAIN s :
           SortedBy(s, key)[n] = s[q] /\ n = Rank(DOMAIN s, key, q)
  BY <1>1, SortedByList
<1>5. DOMAIN SortedBy(s, key) = DOMAIN s
  BY <1>3, LenProperties
<1> QED BY <1>2, <1>3, <1>5 DEF key

LEMMA ByHitsList ==
  ASSUME NEW s \in Seq(Items)
  PROVE  ByHits(s) \in Seq(Items) /\ Sub(ByHits(s), s)
<1> DEFINE key == [n \in DOMAIN s |-> <<-s[n].hits, -s[n].subject, -Bias(s[n].card),
                                        -s[n].card.ts, s[n].place>>]
<1>1. \A n \in DOMAIN s : key[n] \in Numbers(5)
  <2>1. ASSUME NEW a \in Int, NEW b \in Int, NEW c \in Int, NEW d \in Int, NEW e \in Int
        PROVE  <<a, b, c, d, e>> \in Numbers(5)
    BY DEF Numbers
  <2>2. ASSUME NEW n \in DOMAIN s PROVE key[n] \in Numbers(5)
    <3>1. /\ -s[n].hits \in Int /\ -s[n].subject \in Int /\ -Bias(s[n].card) \in Int
          /\ -s[n].card.ts \in Int /\ s[n].place \in Int
      BY ItemNumbers
    <3> QED BY <2>1, <3>1
  <2> QED BY <2>2
<1>2. ByHits(s) = SortedBy(s, key)
  BY DEF ByHits
<1> HIDE DEF key
<1>3. SortedBy(s, key) \in Seq(Items) /\ Sub(SortedBy(s, key), s)
  BY <1>1, SortedByList
<1> QED BY <1>2, <1>3

\* In hybrid order the score falls.
LEMMA ByHybridList ==
  ASSUME NEW s \in Seq(Items)
  PROVE  /\ ByHybrid(s) \in Seq(Items) /\ Sub(ByHybrid(s), s) /\ Len(ByHybrid(s)) = Len(s)
         /\ \A m, n \in DOMAIN s : m < n =>
              HybridScore(ByHybrid(s)[m], Newest(s)) >= HybridScore(ByHybrid(s)[n], Newest(s))
<1> DEFINE score(x) == HybridScore(x, Newest(s))
           key == [n \in DOMAIN s |-> <<-score(s[n]), s[n].place>>]
<1>1. \A n \in DOMAIN s : s[n] \in Items /\ score(s[n]) \in Int /\ s[n].place \in Nat
  BY ItemNumbers, NewestBound, ScoreType
<1>2. ByHybrid(s) = SortedBy(s, key)
  BY DEF ByHybrid
<1> HIDE DEF score
<1>3. \A n \in DOMAIN s : key[n] \in Numbers(2)
  BY <1>1 DEF Numbers
<1>4. \A n \in DOMAIN s : key[n][1] = -score(s[n]) /\ key[n] = <<-score(s[n]), s[n].place>>
  OBVIOUS
<1>5. ASSUME NEW i \in DOMAIN s, NEW j \in DOMAIN s, Before(key, i, j)
      PROVE  score(s[i]) >= score(s[j])
  <2>1. CASE key[i] = key[j]
    BY <1>1, <1>4, <2>1
  <2>2. CASE LexLess(key[i], key[j])
    <3>1. PICK n \in 1..2 : key[i][n] < key[j][n] /\ \A m \in 1..n-1 : key[i][m] = key[j][m]
      BY <1>3, <2>2 DEF LexLess, Numbers
    <3>2. CASE n = 1
      BY <1>1, <1>4, <3>1, <3>2
    <3>3. CASE n = 2
      <4>1. key[i][1] = key[j][1]
        BY <3>1, <3>3
      <4> QED BY <1>1, <1>4, <4>1
    <3> QED BY <3>2, <3>3
  <2> QED BY <1>5, <2>1, <2>2 DEF Before
<1> HIDE DEF key
<1>6. /\ SortedBy(s, key) \in Seq(Items) /\ Sub(SortedBy(s, key), s) /\ Len(SortedBy(s, key)) = Len(s)
      /\ \A m, n \in DOMAIN s : m < n =>
           \E i, j \in DOMAIN s : /\ SortedBy(s, key)[m] = s[i] /\ SortedBy(s, key)[n] = s[j]
                                  /\ Before(key, i, j)
  BY <1>3, SortedByList
<1>7. \A m, n \in DOMAIN s : m < n => score(ByHybrid(s)[m]) >= score(ByHybrid(s)[n])
  BY <1>2, <1>5, <1>6
<1> QED BY <1>2, <1>6, <1>7 DEF score

LEMMA RecentList ==
  ASSUME NEW s \in Seq(Items)
  PROVE  Recent(s) \in Seq(Items) /\ Sub(Recent(s), s)
<1> DEFINE d == Dated(s)
           key == [n \in DOMAIN d |-> <<-d[n].card.ts>>]
           D == {n \in DOMAIN s : Kind(s[n].card) # Unknown /\ s[n].card.ts # 0}
<1>1. d = At(s, D) /\ D \in SUBSET DOMAIN s
  BY DEF Dated
<1> HIDE DEF D
<1>2. Recent(s) = SortedBy(d, key)
  BY DEF Recent
<1> HIDE DEF d
<1>3. d \in Seq(Items) /\ Sub(d, s)
  BY <1>1, AtList
<1>4. \A n \in DOMAIN d : key[n] \in Numbers(1)
  BY <1>3, ItemNumbers DEF Numbers
<1> HIDE DEF key
<1>5. SortedBy(d, key) \in Seq(Items) /\ Sub(SortedBy(d, key), d)
  BY <1>3, <1>4, SortedByList
<1> QED BY <1>2, <1>3, <1>5, SubTrans

\* Ranking adds nothing and takes nothing twice.
LEMMA RankedList ==
  ASSUME NEW s \in Seq(Items)
  PROVE  Ranked(s) \in Seq(Items) /\ Sub(Ranked(s), s)
<1> DEFINE D == {n \in DOMAIN s : s[n].hits > 0}
<1>1. Matched(s) = At(s, D) /\ D \in SUBSET DOMAIN s
  BY DEF Matched
<1> HIDE DEF D
<1>2. Matched(s) \in Seq(Items) /\ Sub(Matched(s), s)
  BY <1>1, AtList
<1>3. ByHits(Matched(s)) \in Seq(Items) /\ Sub(ByHits(Matched(s)), s)
  BY <1>2, ByHitsList, SubTrans
<1>4. \/ Ranked(s) = Recent(s) \/ Ranked(s) = ByHits(Matched(s))
      \/ Ranked(s) = ByHybrid(s) \/ Ranked(s) = ByBias(s)
  BY DEF Ranked
<1> QED BY <1>3, <1>4, RecentList, ByHybridList, ByBiasList

-----------------------------------------------------------------------------
(* Recall: what the LLM sees and the user is shown.                        *)

Final == Capped(Ranked(Candidates(Memories)))
Numbered(s) == [n \in DOMAIN s |-> [s[n].card EXCEPT !.index = n]]

RInv ==
  /\ Inputs /\ pc \in {"ask", "answer", "insufficient", "done"}
  /\ context = IF pc = "ask" THEN <<>> ELSE Numbered(Final)
  /\ shown = IF pc = "done" THEN Capped(Cleaned(context)) ELSE <<>>
  /\ cited = IF pc = "done"
             THEN (1 .. Len(context) + 1) \cap {card.index : card \in ToSet(shown)} ELSE {}

LEMMA CandidatesStay ==
  ASSUME UNCHANGED <<ask, response, memories>>
  PROVE  Candidates(Memories)' = Candidates(Memories)
BY DEF Candidates, Memories, Snippets, Searched, Passes

LEMMA RankedStay ==
  ASSUME UNCHANGED <<ask, response, memories>>
  PROVE  Ranked(Candidates(Memories))' = Ranked(Candidates(Memories))
BY CandidatesStay DEF Ranked, Bias, ByBias, ByHits, ByHybrid, HybridScore

LEMMA FinalStays ==
  ASSUME UNCHANGED <<ask, response, memories>>
  PROVE  Final' = Final
BY RankedStay DEF Final, Capped

LEMMA RInvStep == RInv /\ [RecallNext]_recallVars => RInv'
<1> SUFFICES ASSUME RInv, [RecallNext]_recallVars PROVE RInv'
  OBVIOUS
<1>1. UNCHANGED <<ask, response, memories>>
  BY DEF RecallNext, Prepare, Finalize, recallVars
<1>2. Final' = Final /\ Inputs'
  BY <1>1, FinalStays DEF RInv, Inputs
<1>3. CASE Prepare
  <2>1. context' = Numbered(Final) /\ pc = "ask" /\ pc' \in {"answer", "insufficient"}
        /\ shown' = shown /\ cited' = cited
    BY <1>3 DEF Prepare, Numbered, Final
  <2> QED BY <1>2, <2>1 DEF RInv, Numbered
<1>4. CASE Finalize
  <2>1. /\ pc = "answer" /\ pc' = "done" /\ context' = context
        /\ shown' = Capped(Cleaned(context))
        /\ cited' = (1 .. Len(context) + 1) \cap {card.index : card \in ToSet(shown')}
    BY <1>4 DEF Finalize
  <2>2. (Capped(Cleaned(context)))' = Capped(Cleaned(context))
    BY <1>1, <2>1 DEF Capped
  <2> QED BY <1>2, <2>1, <2>2 DEF RInv, Numbered
<1>5. CASE UNCHANGED recallVars
  <2>1. UNCHANGED <<pc, context, shown, cited>>
    BY <1>5 DEF recallVars
  <2>2. (Capped(Cleaned(context)))' = Capped(Cleaned(context))
    BY <1>1, <2>1 DEF Capped
  <2> QED BY <1>2, <2>1, <2>2 DEF RInv, Numbered
<1> QED BY <1>3, <1>4, <1>5 DEF RecallNext

LEMMA FinalList ==
  ASSUME Inputs
  PROVE  /\ Candidates(Memories) \in Seq(Items) /\ Ranked(Candidates(Memories)) \in Seq(Items)
         /\ Final \in Seq(Items) /\ Sub(Final, Candidates(Memories)) /\ ask.topK \in Nat
<1>1. Candidates(Memories) \in Seq(Items)
  BY MemoriesList, CandidatesList
<1>2. /\ Ranked(Candidates(Memories)) \in Seq(Items)
      /\ Sub(Ranked(Candidates(Memories)), Candidates(Memories))
  BY <1>1, RankedList
<1>3. ask.topK \in Nat
  BY RecallAssumption DEF Inputs
<1>4. Final \in Seq(Items) /\ Sub(Final, Ranked(Candidates(Memories)))
  BY <1>2, <1>3, CappedList DEF Final
<1>5. Sub(Final, Candidates(Memories))
  BY <1>2, <1>4, SubTrans
<1> QED BY <1>1, <1>2, <1>3, <1>4, <1>5

LEMMA NumberedList ==
  ASSUME NEW s \in Seq(Items)
  PROVE  /\ Numbered(s) \in Seq(Cards) /\ DOMAIN Numbered(s) = DOMAIN s
         /\ Len(Numbered(s)) = Len(s)
         /\ \A n \in DOMAIN s : /\ Numbered(s)[n].index = n /\ Numbered(s)[n].doc = s[n].card.doc
                                /\ Numbered(s)[n].key = s[n].card.key
<1>1. DOMAIN s = 1..Len(s) /\ Len(s) \in Nat
  BY LenProperties
<1>2. ASSUME NEW n \in DOMAIN s
      PROVE  /\ [s[n].card EXCEPT !.index = n] \in Cards
             /\ Numbered(s)[n].index = n /\ Numbered(s)[n].doc = s[n].card.doc
             /\ Numbered(s)[n].key = s[n].card.key
  <2>0. s[n] \in Items
    BY ItemNumbers
  <2>1. s[n].card \in Cards /\ n \in Nat
    BY <1>1, <2>0 DEF Items
  <2> DEFINE c == s[n].card
  <2>2. Numbered(s)[n] = [c EXCEPT !.index = n]
    BY DEF Numbered
  <2> HIDE DEF c
  <2>3. /\ [c EXCEPT !.index = n] \in Cards /\ [c EXCEPT !.index = n].index = n
        /\ [c EXCEPT !.index = n].doc = c.doc /\ [c EXCEPT !.index = n].key = c.key
    BY <2>1 DEF Cards, c
  <2> QED BY <2>2, <2>3 DEF c
<1>3. Numbered(s) \in [1..Len(s) -> Cards]
  BY <1>1, <1>2 DEF Numbered
<1>4. Numbered(s) \in Seq(Cards) /\ Len(Numbered(s)) = Len(s) /\ DOMAIN Numbered(s) = DOMAIN s
  BY <1>1, <1>3, SeqOfFunction
<1> QED BY <1>2, <1>4

LEMMA CleanedList ==
  ASSUME NEW s \in Seq(Cards)
  PROVE  Cleaned(s) \in Seq(Cards) /\ Sub(Cleaned(s), s)
<1> DEFINE D == {n \in DOMAIN s : Rich(s[n])}
           rich == At(s, D)
           pool == IF rich # <<>> THEN rich ELSE s
           E == {n \in DOMAIN pool : \A m \in 1..n-1 : CardKey(pool[m]) # CardKey(pool[n])}
<1>1. Cleaned(s) = At(pool, E)
  BY DEF Cleaned
<1>2. D \in SUBSET DOMAIN s
  OBVIOUS
<1> HIDE DEF D
<1>3. rich \in Seq(Cards) /\ Sub(rich, s)
  BY <1>2, AtList
<1> HIDE DEF rich
<1>4. pool \in Seq(Cards) /\ Sub(pool, s)
  BY <1>3, SubSelf
<1>5. E \in SUBSET DOMAIN pool
  OBVIOUS
<1> HIDE DEF pool, E
<1>6. At(pool, E) \in Seq(Cards) /\ Sub(At(pool, E), pool)
  BY <1>4, <1>5, AtList
<1> QED BY <1>1, <1>4, <1>6, SubTrans

\* What is seen is numbered by its places; what is shown is part of it.
LEMMA ContextList ==
  ASSUME RInv
  PROVE  /\ context \in Seq(Cards) /\ \A n \in DOMAIN context : context[n].index = n
         /\ shown \in Seq(Cards) /\ Sub(shown, context)
<1>1. Final \in Seq(Items) /\ ask.topK \in Nat
  BY FinalList DEF RInv
<1>2. context \in Seq(Cards) /\ \A n \in DOMAIN context : context[n].index = n
  <2>1. CASE pc = "ask"
    <3>1. context = <<>>
      BY <2>1 DEF RInv
    <3>2. <<>> \in Seq(Cards) /\ DOMAIN <<>> = {}
      BY EmptySeq
    <3> QED BY <3>1, <3>2
  <2>2. CASE pc # "ask"
    BY <1>1, <2>2, NumberedList DEF RInv
  <2> QED BY <2>1, <2>2
<1>3. shown \in Seq(Cards) /\ Sub(shown, context)
  <2>1. CASE pc = "done"
    <3>1. Cleaned(context) \in Seq(Cards) /\ Sub(Cleaned(context), context)
      BY <1>2, CleanedList
    <3>2. /\ Capped(Cleaned(context)) \in Seq(Cards)
          /\ Sub(Capped(Cleaned(context)), Cleaned(context))
      BY <1>1, <3>1, CappedList
    <3>3. shown = Capped(Cleaned(context))
      BY <2>1 DEF RInv
    <3> QED BY <3>1, <3>2, <3>3, SubTrans
  <2>2. CASE pc # "done"
    <3>1. shown = <<>>
      BY <2>2 DEF RInv
    <3>2. <<>> \in Seq(Cards) /\ DOMAIN <<>> = {}
      BY EmptySeq
    <3>3. Sub(<<>>, context)
      <4> DEFINE p == [k \in {} |-> 1]
      <4>1. p \in Injection(DOMAIN <<>>, DOMAIN context)
        BY <3>2 DEF Injection, IsInjective
      <4>2. \A k \in DOMAIN <<>> : <<>>[k] = context[p[k]]
        BY <3>2
      <4> QED BY <4>1, <4>2 DEF Sub, Places
    <3> QED BY <3>1, <3>2, <3>3
  <2> QED BY <2>1, <2>2
<1> QED BY <1>2, <1>3

LEMMA InvResolves == RInv => CitationsResolve
<1> SUFFICES ASSUME RInv, NEW n \in cited
             PROVE  /\ n \in DOMAIN context
                    /\ Cardinality({k \in DOMAIN shown : shown[k].index = n}) = 1
                    /\ \A k \in DOMAIN shown : shown[k].index = n => shown[k].doc = context[n].doc
  BY DEF CitationsResolve
<1>1. PICK p \in Injection(DOMAIN shown, DOMAIN context) : \A k \in DOMAIN shown : shown[k] = context[p[k]]
  BY ContextList DEF Sub, Places
<1>2. /\ \A k \in DOMAIN shown : p[k] \in DOMAIN context /\ shown[k].index = p[k]
      /\ \A j, k \in DOMAIN shown : p[j] = p[k] => j = k
  BY <1>1, ContextList DEF Injection, IsInjective
<1>3. PICK k \in DOMAIN shown : shown[k].index = n
  BY DEF RInv, ToSet
<1>4. {j \in DOMAIN shown : shown[j].index = n} = {k}
  BY <1>2, <1>3
<1>5. Cardinality({k}) = 1
  BY FS_Singleton
<1> QED BY <1>1, <1>2, <1>3, <1>4, <1>5

\* The card of a candidate has the document and the key that were found.
LEMMA FoundCard ==
  ASSUME Inputs, NEW n \in DOMAIN Candidates(Memories)
  PROVE  \E x \in {Card(response[i], i) : i \in DOMAIN response} \cup ToSet(memories) :
           Candidates(Memories)[n].card.doc = x.doc /\ Candidates(Memories)[n].card.key = x.key
<1> DEFINE t == Candidates(Memories)
           s == Snippets \o Memories
           found == {Card(response[i], i) : i \in DOMAIN response} \cup ToSet(memories)
<1>1. PICK p \in Injection(DOMAIN t, DOMAIN s) : \A k \in DOMAIN t : t[k] = s[p[k]]
  BY MemoriesList, CandidatesList DEF Sub, Places
<1>2. p[n] \in DOMAIN s /\ t[n] = s[p[n]]
  BY <1>1 DEF Injection
<1>3. Snippets \in Seq(Items) /\ Memories \in Seq(Items)
  BY SnippetsList, MemoriesList
<1>4. /\ Len(Snippets) \in Nat /\ Len(Memories) \in Nat
      /\ DOMAIN Snippets = 1..Len(Snippets) /\ DOMAIN Memories = 1..Len(Memories)
  BY <1>3, LenProperties
<1>5. /\ Len(s) = Len(Snippets) + Len(Memories) /\ DOMAIN s = 1..Len(s)
      /\ \A i \in 1..Len(s) : s[i] = IF i <= Len(Snippets) THEN Snippets[i]
                                     ELSE Memories[i - Len(Snippets)]
  BY <1>3, ConcatProperties, LenProperties
<1> HIDE DEF s, t
<1>6. CASE p[n] <= Len(Snippets)
  <2>1. p[n] \in DOMAIN Snippets /\ t[n] = Snippets[p[n]]
    BY <1>2, <1>4, <1>5, <1>6
  <2>2. PICK m \in DOMAIN response : Snippets[p[n]].card = Card(response[m], m)
    BY <2>1, SnippetsList
  <2>3. Card(response[m], m) \in found
    OBVIOUS
  <2> QED BY <2>1, <2>2, <2>3 DEF t
<1>7. CASE p[n] > Len(Snippets)
  <2> DEFINE q == p[n] - Len(Snippets)
  <2>1. q \in DOMAIN Memories /\ t[n] = Memories[q]
    BY <1>2, <1>4, <1>5, <1>7
  <2> HIDE DEF q
  <2>2. PICK k \in DOMAIN memories : /\ Memories[q].card.doc = memories[k].doc
                                     /\ Memories[q].card.key = memories[k].key
    BY <2>1, MemoriesList
  <2>3. memories[k] \in found
    BY DEF ToSet
  <2> QED BY <2>1, <2>2, <2>3 DEF t
<1>8. p[n] \in Int /\ Len(Snippets) \in Int
  BY <1>2, <1>4, <1>5
<1> QED BY <1>6, <1>7, <1>8

LEMMA InvOnce == RInv => OncePerDocument
<1> SUFFICES ASSUME RInv, NEW m \in DOMAIN context, NEW n \in DOMAIN context,
                    context[m].key # Unknown, context[n].key # Unknown,
                    context[m].doc = context[n].doc
             PROVE  m = n
  BY DEF OncePerDocument
<1> DEFINE t == Candidates(Memories)
<1>1. Final \in Seq(Items) /\ Sub(Final, t) /\ Inputs
  BY FinalList DEF RInv
<1>2. context = Numbered(Final)
  <2>1. pc = "ask" => DOMAIN context = {}
    BY DEF RInv
  <2> QED BY <2>1 DEF RInv
<1>3. /\ m \in DOMAIN Final /\ n \in DOMAIN Final
      /\ \A i \in {m, n} : context[i].doc = Final[i].card.doc /\ context[i].key = Final[i].card.key
  BY <1>1, <1>2, NumberedList
<1>4. PICK p \in Injection(DOMAIN Final, DOMAIN t) : \A k \in DOMAIN Final : Final[k] = t[p[k]]
  BY <1>1 DEF Sub, Places
<1>5. /\ p[m] \in DOMAIN t /\ p[n] \in DOMAIN t /\ (p[m] = p[n] => m = n)
      /\ Final[m] = t[p[m]] /\ Final[n] = t[p[n]]
  BY <1>3, <1>4 DEF Injection, IsInjective
<1> DEFINE found == {Card(response[i], i) : i \in DOMAIN response} \cup ToSet(memories)
<1>6. PICK x \in found : t[p[m]].card.doc = x.doc /\ t[p[m]].card.key = x.key
  BY <1>1, <1>5, FoundCard
<1>7. PICK y \in found : t[p[n]].card.doc = y.doc /\ t[p[n]].card.key = y.key
  BY <1>1, <1>5, FoundCard
<1>8. \A u, v \in found : u.doc = v.doc => u.key = v.key \/ Unknown \in {u.key, v.key}
  BY <1>1, OneKey DEF Inputs
<1> HIDE DEF found
<1>9. x.doc = y.doc /\ x.key # Unknown /\ y.key # Unknown
  BY <1>3, <1>5, <1>6, <1>7
<1>10. x.key = y.key
  BY <1>8, <1>9
<1>11. t[p[m]].card.key = t[p[n]].card.key /\ t[p[m]].card.key # Unknown
  BY <1>6, <1>7, <1>9, <1>10
<1>12. p[m] = p[n]
  BY <1>1, <1>5, <1>11, MemoriesList, CandidatesList
<1> QED BY <1>5, <1>12

\* Ten times what a newest one adds is more than a newest one adds.
LEMMA TenfoldOrder ==
  ASSUME NEW a \in Nat, NEW b \in Nat, NEW newest \in Nat, newest >= 1,
         NEW x \in Nat, x <= newest, NEW y \in Nat,
         10 * a * newest + x >= 10 * b * newest + y
  PROVE  a >= b
<1>1. SUFFICES ASSUME a < b PROVE FALSE
  OBVIOUS
<1>2. PICK d \in Nat : b = a + 1 + d
  <2>1. b - a - 1 \in Nat /\ b = a + 1 + (b - a - 1)
    BY <1>1
  <2> QED BY <2>1
<1>3. 10 * b * newest = 10 * a * newest + 10 * newest + 10 * (d * newest)
  BY <1>2
<1>4. d * newest \in Nat /\ a * newest \in Nat
  OBVIOUS
<1>5. x >= 10 * newest
  BY <1>3, <1>4
<1> QED BY <1>5

LEMMA InvTies == RInv => RecencyBreaksTies
<1> DEFINE s == Candidates(Memories)
           t == ByHybrid(s)
           newest == Newest(s)
           Relevance(x) == x.hits * W_KEYWORD_HIT + x.subject * W_SUBJECT_HIT
                             + Bias(x.card) * W_CHANNEL_MATCH
           tenth(x) == x.hits * 10 + x.subject * 8 + Bias(x.card) * 5
<1> SUFFICES ASSUME RInv, NEW m \in DOMAIN t, NEW n \in DOMAIN t, m < n
             PROVE  Relevance(t[m]) >= Relevance(t[n])
  BY DEF RecencyBreaksTies
<1>1. s \in Seq(Items)
  BY FinalList DEF RInv
<1>2. /\ newest \in Nat /\ newest >= 1
      /\ \A i \in DOMAIN s : s[i].card.ts \in Nat /\ s[i].card.ts <= newest
  BY <1>1, NewestBound
<1>3. /\ t \in Seq(Items) /\ Sub(t, s) /\ Len(t) = Len(s)
      /\ \A i, j \in DOMAIN s : i < j => HybridScore(t[i], newest) >= HybridScore(t[j], newest)
  BY <1>1, ByHybridList
<1> HIDE DEF s, t, newest
<1>4. DOMAIN t = DOMAIN s
  BY <1>1, <1>3, LenProperties
<1>5. HybridScore(t[m], newest) >= HybridScore(t[n], newest)
  BY <1>3, <1>4
<1>6. PICK p \in Injection(DOMAIN t, DOMAIN s) : \A k \in DOMAIN t : t[k] = s[p[k]]
  BY <1>3 DEF Sub, Places
<1>7. ASSUME NEW k \in DOMAIN t
      PROVE  /\ t[k].card.ts \in Nat /\ t[k].card.ts <= newest
             /\ tenth(t[k]) \in Nat /\ Relevance(t[k]) = 10 * tenth(t[k])
             /\ HybridScore(t[k], newest) = 10 * tenth(t[k]) * newest + t[k].card.ts
  <2>1. t[k].card.ts \in Nat /\ t[k].card.ts <= newest
    BY <1>2, <1>6 DEF Injection
  <2>2. t[k].hits \in Nat /\ t[k].subject \in Nat /\ Bias(t[k].card) \in Nat
    <3>1. t[k] \in Items
      BY <1>3, ItemNumbers
    <3> QED BY <3>1, BiasType DEF Items
  <2>3. tenth(t[k]) \in Nat /\ Relevance(t[k]) = 10 * tenth(t[k])
    BY <2>2 DEF W_KEYWORD_HIT, W_SUBJECT_HIT, W_CHANNEL_MATCH
  <2>4. HybridScore(t[k], newest) = Relevance(t[k]) * newest + t[k].card.ts * W_RECENCY
    BY DEF HybridScore
  <2> HIDE DEF Relevance, tenth
  <2>5. HybridScore(t[k], newest) = 10 * tenth(t[k]) * newest + t[k].card.ts
    BY <2>1, <2>3, <2>4 DEF W_RECENCY
  <2> QED BY <2>1, <2>3, <2>5
<1> HIDE DEF Relevance, tenth
<1>8. tenth(t[m]) >= tenth(t[n])
  BY <1>2, <1>5, <1>7, TenfoldOrder
<1> QED BY <1>7, <1>8

\* Whatever passes the filters is among the first that HydraDB returned, also
\* where memories are ranked with it: each one before it has a place of its own.
LEMMA SnippetsFirst ==
  ASSUME Inputs, NEW q \in DOMAIN Candidates(Memories), NEW i \in DOMAIN Snippets,
         NEW p \in Injection(DOMAIN Candidates(Memories), DOMAIN (Snippets \o Memories)),
         \A k \in DOMAIN Candidates(Memories) : Candidates(Memories)[k] = (Snippets \o Memories)[p[k]],
         p[q] = i
  PROVE  \E n \in DOMAIN ByBias(Candidates(Memories)) :
           n <= Len(response) /\ ByBias(Candidates(Memories))[n] = Snippets[i]
<1> DEFINE s == Candidates(Memories)
           all == Snippets \o Memories
           L == Len(Snippets)
           key == BiasKey(s)
           A == Ahead(DOMAIN s, key, q)
           place(k) == IF p[k] <= L THEN p[k] ELSE s[k].place
           g == [k \in A \cup {q} |-> place(k)]
<1>1. /\ s \in Seq(Items) /\ Snippets \in Seq(Items) /\ Memories \in Seq(Items)
      /\ Len(Snippets) <= Len(response) /\ Len(response) \in Nat
  BY FinalList, SnippetsList, MemoriesList, RecallAssumption, LenProperties DEF Inputs
<1>2. /\ L \in Nat /\ Len(Memories) \in Nat /\ DOMAIN s = 1..Len(s) /\ Len(s) \in Nat
      /\ DOMAIN Snippets = 1..L /\ DOMAIN Memories = 1..Len(Memories)
  BY <1>1, LenProperties
<1>3. /\ DOMAIN all = 1..L + Len(Memories)
      /\ \A k \in DOMAIN all : all[k] = IF k <= L THEN Snippets[k] ELSE Memories[k - L]
  BY <1>1, <1>2, ConcatProperties, LenProperties
<1>4. ASSUME NEW n \in DOMAIN s
      PROVE  s[n].place \in Nat /\ Bias(s[n].card) \in Nat
  BY <1>1, ItemNumbers, BiasType
<1>5. \A n \in DOMAIN s : key[n] = <<-Bias(s[n].card), s[n].place>>
  BY DEF BiasKey
<1>k. \A n \in DOMAIN s : key[n] \in [1..2 -> Int] /\ key[n][1] = -Bias(s[n].card) /\ key[n][2] = s[n].place
  <2>1. ASSUME NEW a \in Int, NEW b \in Int
        PROVE  <<a, b>> \in [1..2 -> Int] /\ <<a, b>>[1] = a /\ <<a, b>>[2] = b
    OBVIOUS
  <2>2. \A n \in DOMAIN s : -Bias(s[n].card) \in Int /\ s[n].place \in Int
    BY <1>4
  <2> HIDE DEF key
  <2>3. ASSUME NEW n \in DOMAIN s
        PROVE  key[n] \in [1..2 -> Int] /\ key[n][1] = -Bias(s[n].card) /\ key[n][2] = s[n].place
    <3> DEFINE a == -Bias(s[n].card)
               b == s[n].place
    <3>1. a \in Int /\ b \in Int /\ key[n] = <<a, b>>
      BY <1>5, <2>2
    <3> HIDE DEF a, b
    <3>2. key[n] \in [1..2 -> Int] /\ key[n][1] = a /\ key[n][2] = b
      BY <2>1, <3>1
    <3> QED BY <3>2 DEF a, b
  <2> QED BY <2>3
<1>p. /\ \A k \in DOMAIN s : p[k] \in DOMAIN all /\ s[k] = all[p[k]]
      /\ \A j, k \in DOMAIN s : p[j] = p[k] => j = k
      /\ p[q] = i /\ q \in DOMAIN s /\ i \in 1..L
  BY <1>2 DEF Injection, IsInjective
<1>a. A \subseteq DOMAIN s /\ q \notin A /\ \A k \in A : Before(key, k, q)
  <2>1. ~Before(key, q, q)
    <3>1. DOMAIN key[q] = 1..2 /\ key[q][1] \in Int /\ key[q][2] \in Int
      BY <1>k, <1>p
    <3>2. q \in Nat
      BY <1>2, <1>p
    <3> HIDE DEF key, s
    <3>3. ~LexLess(key[q], key[q])
      BY <3>1 DEF LexLess
    <3> QED BY <3>2, <3>3 DEF Before
  <2> QED BY <2>1 DEF Ahead
<1> HIDE DEF s, all, L, key, A
<1>q. s[q] = Snippets[i] /\ s[q].place \in Nat /\ s[q].place <= Len(response)
  <2>1. s[q] = Snippets[i]
    BY <1>p, <1>2, <1>3
  <2>2. PICK m \in DOMAIN response : Snippets[i].place = m
    BY SnippetsList
  <2>3. DOMAIN response = 1..Len(response)
    BY RecallAssumption, LenProperties DEF Inputs
  <2> QED BY <1>1, <2>1, <2>2, <2>3
\* A memory before the snippet has an earlier place, for it is not biased.
<1>6. ASSUME NEW k \in A, p[k] > L
      PROVE  /\ s[k].place > L /\ s[k].place <= s[q].place
             /\ p[k] - L \in DOMAIN Memories /\ s[k] = Memories[p[k] - L]
  <2>1. k \in DOMAIN s /\ p[k] \in DOMAIN all /\ s[k] = all[p[k]]
    BY <1>a, <1>p
  <2>2. p[k] - L \in DOMAIN Memories /\ s[k] = Memories[p[k] - L]
    BY <1>2, <1>3, <1>6, <2>1
  <2>3. Bias(s[k].card) = 0 /\ s[k].place > L
    BY <2>2, MemoriesList DEF L
  <2>4. /\ key[k][1] = -Bias(s[k].card) /\ key[k][2] = s[k].place
        /\ key[q][1] = -Bias(s[q].card) /\ key[q][2] = s[q].place
        /\ Bias(s[q].card) \in Nat /\ s[k].place \in Nat /\ s[q].place \in Nat
    BY <1>4, <1>k, <1>p, <2>1
  <2>5. CASE key[k] = key[q]
    BY <2>2, <2>3, <2>4, <2>5
  <2>6. CASE LexLess(key[k], key[q])
    <3>1. DOMAIN key[k] = 1..2
      BY <1>k, <2>1
    <3>2. PICK n \in 1..2 : key[k][n] < key[q][n] /\ \A m \in 1..n-1 : key[k][m] = key[q][m]
      BY <2>6, <3>1 DEF LexLess
    <3>3. n # 1
      BY <2>3, <2>4, <3>2
    <3>4. n = 2
      BY <3>3
    <3>5. key[k][2] < key[q][2]
      BY <3>2, <3>4
    <3> QED BY <2>2, <2>3, <2>4, <3>5
  <2> QED BY <1>a, <2>5, <2>6 DEF Before
<1>7. ASSUME NEW k \in A \cup {q}
      PROVE  /\ k \in DOMAIN s /\ p[k] \in Nat /\ p[k] >= 1
             /\ place(k) \in 1..Len(response) /\ (p[k] > L => place(k) > L)
  <2>1. k \in DOMAIN s /\ p[k] \in Nat /\ p[k] >= 1
    BY <1>a, <1>p, <1>3, <1>2
  <2>2. CASE p[k] <= L
    BY <1>1, <1>2, <2>1, <2>2 DEF L
  <2>3. CASE p[k] > L
    <3>1. k \in A
      BY <1>2, <1>p, <2>3
    <3>2. s[k].place > L /\ s[k].place <= s[q].place /\ s[k].place \in Nat
      BY <1>4, <1>6, <2>1, <2>3, <3>1
    <3> QED BY <1>1, <1>2, <1>q, <2>1, <2>3, <3>2
  <2> QED BY <1>2, <2>1, <2>2, <2>3
<1>8. ASSUME NEW j \in A \cup {q}, NEW k \in A \cup {q}, place(j) = place(k) PROVE j = k
  <2>1. /\ j \in DOMAIN s /\ k \in DOMAIN s /\ p[j] \in Nat /\ p[k] \in Nat
        /\ (p[j] > L => place(j) > L) /\ (p[k] > L => place(k) > L)
    BY <1>7
  <2>2. CASE p[j] <= L /\ p[k] <= L
    BY <1>p, <1>8, <2>1, <2>2
  <2>3. CASE p[j] > L /\ p[k] > L
    <3>1. j \in A /\ k \in A
      BY <1>2, <1>p, <2>3
    <3>2. /\ p[j] - L \in DOMAIN Memories /\ s[j] = Memories[p[j] - L]
          /\ p[k] - L \in DOMAIN Memories /\ s[k] = Memories[p[k] - L]
      BY <1>6, <2>3, <3>1
    <3>3. s[j].place = s[k].place
      BY <1>2, <1>8, <2>1, <2>3
    <3>4. p[j] - L = p[k] - L
      BY <3>2, <3>3, MemoriesList
    <3>5. p[j] = p[k]
      BY <1>2, <2>1, <3>4
    <3> QED BY <1>p, <2>1, <3>5
  <2>4. (p[j] <= L => place(j) <= L) /\ (p[k] <= L => place(k) <= L)
    OBVIOUS
  <2>5. place(j) \in Nat /\ place(k) \in Nat
    BY <1>7
  <2> QED BY <1>2, <1>8, <2>1, <2>2, <2>3, <2>4, <2>5
<1> HIDE DEF place
<1>9. g \in Injection(A \cup {q}, 1..Len(response))
  BY <1>7, <1>8 DEF Injection, IsInjective
<1>10. /\ IsFiniteSet(A \cup {q}) /\ Cardinality(A \cup {q}) <= Len(response)
  <2>1. ASSUME NEW n \in Nat PROVE IsFiniteSet(1..n) /\ Cardinality(1..n) = n
    BY FS_Interval
  <2>2. IsFiniteSet(1..Len(response)) /\ Cardinality(1..Len(response)) = Len(response)
    BY <1>1, <2>1
  <2> QED BY <1>9, <2>2, FS_Injection
<1>11. IsFiniteSet(A) /\ Cardinality(A \cup {q}) = Cardinality(A) + 1
  <2>1. IsFiniteSet(A)
    <3>1. A \in SUBSET (A \cup {q})
      OBVIOUS
    <3> QED BY <1>10, <3>1, FS_Subset
  <2> QED BY <1>a, <2>1, FS_AddElement
<1>12. PICK n \in DOMAIN s : ByBias(s)[n] = s[q] /\ n = Cardinality(A) + 1
  BY <1>1, <1>p, ByBiasList DEF A, key, Rank
<1>13. n \in DOMAIN ByBias(s) /\ ByBias(s)[n] = Snippets[i]
  BY <1>1, <1>12, <1>q, ByBiasList
<1> QED BY <1>10, <1>11, <1>12, <1>13 DEF s

\* The positions that no earlier one makes a duplicate.
First(s) ==
  {n \in DOMAIN s : \A m \in 1..n-1 : s[n].card.key = Unknown \/ s[m].card.key # s[n].card.key}

LEMMA FirstsStay ==
  ASSUME NEW s \in Seq(Items)
  PROVE  \E p \in Injection(DOMAIN Deduped(s), DOMAIN s) :
           /\ \A k \in DOMAIN Deduped(s) : Deduped(s)[k] = s[p[k]] /\ p[k] \in First(s)
           /\ \A i \in First(s) : \E k \in DOMAIN Deduped(s) : p[k] = i
<1> DEFINE D == First(s)
           t == Deduped(s)
<1>1. t = At(s, D) /\ D \in SUBSET DOMAIN s
  BY DEF Deduped, First
<1> HIDE DEF D, t
<1>2. /\ t \in Seq(Items) /\ Len(t) = Cardinality(D)
      /\ \E p \in Bijection(1..Cardinality(D), D) : \A k \in 1..Cardinality(D) : t[k] = s[p[k]]
  BY <1>1, AtList
<1>3. PICK p \in Bijection(1..Len(t), D) : \A k \in 1..Len(t) : t[k] = s[p[k]]
  BY <1>2
<1>4. DOMAIN t = 1..Len(t)
  BY <1>2, LenProperties
<1>5. /\ p \in [DOMAIN t -> D] /\ \A j, k \in DOMAIN t : p[j] = p[k] => j = k
      /\ \A i \in D : \E k \in DOMAIN t : p[k] = i
  BY <1>3, <1>4 DEF Bijection, Injection, Surjection, IsInjective
<1>6. p \in Injection(DOMAIN t, DOMAIN s)
  BY <1>1, <1>5 DEF Injection, IsInjective
<1>7. \A k \in DOMAIN t : t[k] = s[p[k]] /\ p[k] \in D
  BY <1>3, <1>4, <1>5
<1> QED BY <1>5, <1>6, <1>7 DEF D, t

LEMMA InvCrowds == RInv => MemoriesCrowdOutNothing
<1> DEFINE c == Candidates(Memories)
           none == Candidates(<<>>)
           without == Capped(Ranked(none))
<1> SUFFICES ASSUME RInv, pc \in {"answer", "done"}, ask.mode = "default", NEW x \in ToSet(without)
             PROVE  \E card \in ToSet(context) : card.doc = x.card.doc
  BY DEF MemoriesCrowdOutNothing
<1>1. /\ Inputs /\ context = Numbered(Final) /\ c \in Seq(Items) /\ Final \in Seq(Items)
      /\ Ranked(c) \in Seq(Items) /\ ask.topK \in Nat
  BY FinalList DEF RInv
<1>2. ASSUME NEW n \in DOMAIN Final, Final[n].card.doc = x.card.doc
      PROVE  \E card \in ToSet(context) : card.doc = x.card.doc
  <2>1. n \in DOMAIN context /\ context[n].doc = x.card.doc
    BY <1>1, <1>2, NumberedList
  <2> QED BY <2>1 DEF ToSet
<1>3. CASE ask.recency
  <2>1. Final = without
    BY <1>1, <1>3, MemoriesList DEF Final
  <2>2. PICK n \in DOMAIN Final : Final[n] = x
    BY <2>1 DEF ToSet
  <2> QED BY <1>2, <2>2
<1>4. CASE ~ask.recency
  <2> DEFINE s0 == Snippets \o <<>>
             s1 == Snippets \o Memories
             L == Len(Snippets)
  <2>1. /\ <<>> \in Seq(Items) /\ Len(<<>>) = 0
        /\ Snippets \in Seq(Items) /\ Memories \in Seq(Items)
    BY <1>1, SnippetsList, MemoriesList, EmptySeq
  <2>2. s0 \in Seq(Items) /\ s1 \in Seq(Items) /\ none = Deduped(s0) /\ c = Deduped(s1)
    BY <2>1, ConcatProperties DEF Candidates
  <2>3. /\ L \in Nat /\ Len(Memories) \in Nat
        /\ DOMAIN s0 = 1..L /\ \A j \in 1..L : s0[j] = Snippets[j]
        /\ DOMAIN s1 = 1..L + Len(Memories) /\ \A j \in 1..L : s1[j] = Snippets[j]
    BY <2>1, <2>2, ConcatProperties, LenProperties
  <2>4. PICK k \in DOMAIN none : none[k] = x
    <3>1. none \in Seq(Items)
      BY <1>1, <2>1, CandidatesList
    <3>2. Ranked(none) \in Seq(Items) /\ Sub(Ranked(none), none)
      BY <3>1, RankedList
    <3>3. Sub(without, Ranked(none))
      BY <1>1, <3>2, CappedList
    <3>4. Sub(without, none)
      BY <3>2, <3>3, SubTrans
    <3>5. PICK p \in Injection(DOMAIN without, DOMAIN none) :
            \A j \in DOMAIN without : without[j] = none[p[j]]
      BY <3>4 DEF Sub, Places
    <3>6. PICK j \in DOMAIN without : without[j] = x
      BY DEF ToSet
    <3>7. p[j] \in DOMAIN none /\ none[p[j]] = x
      BY <3>5, <3>6 DEF Injection
    <3> QED BY <3>7
  <2> HIDE DEF s0, s1, L, none, c
  <2>5. PICK i \in First(s0) : s0[i] = x
    BY <2>2, <2>4, FirstsStay
  <2>6. i \in 1..L /\ i \in DOMAIN Snippets /\ Snippets[i] = x
    <3>1. i \in 1..L
      BY <2>3, <2>5 DEF First
    <3>2. DOMAIN Snippets = 1..L
      BY <2>1, LenProperties DEF L
    <3> QED BY <2>3, <2>5, <3>1, <3>2
  <2>7. i \in First(s1)
    <3>1. i \in DOMAIN s1
      BY <2>3, <2>6
    <3>2. s1[i] = s0[i] /\ \A m \in 1..i-1 : s1[m] = s0[m]
      BY <2>3, <2>6
    <3> QED BY <2>5, <3>1, <3>2 DEF First
  <2>8. PICK p \in Injection(DOMAIN c, DOMAIN s1) :
          /\ \A j \in DOMAIN c : c[j] = s1[p[j]]
          /\ \A j \in First(s1) : \E q \in DOMAIN c : p[q] = j
    BY <2>2, FirstsStay
  <2>9. PICK q \in DOMAIN c : p[q] = i
    BY <2>7, <2>8
  <2>10. PICK n \in DOMAIN ByBias(c) : n <= Len(response) /\ ByBias(c)[n] = Snippets[i]
    BY <1>1, <2>6, <2>8, <2>9, SnippetsFirst DEF c, s1
  <2>11. Ranked(c) = ByBias(c)
    BY <1>4 DEF Ranked
  <2>12. n \in 1..Len(Ranked(c)) /\ n <= ask.topK
    <3>1. DOMAIN Ranked(c) = 1..Len(Ranked(c)) /\ Len(Ranked(c)) \in Nat
      BY <1>1, LenProperties
    <3>2. Len(response) \in Nat
      BY <1>1, RecallAssumption, LenProperties DEF Inputs
    <3>3. Len(response) <= ask.topK
      BY <1>1, <1>4 DEF Inputs
    <3> QED BY <1>1, <2>10, <2>11, <3>1, <3>2, <3>3
  <2> DEFINE size == IF Len(Ranked(c)) <= ask.topK THEN Len(Ranked(c)) ELSE ask.topK
  <2>13. Len(Final) = size /\ \A j \in 1..size : Final[j] = Ranked(c)[j]
    BY <1>1, CappedList DEF Final, c
  <2>14. n \in 1..size
    BY <2>12
  <2>15. n \in DOMAIN Final /\ Final[n] = x
    BY <1>1, <2>6, <2>10, <2>11, <2>13, <2>14, LenProperties
  <2> QED BY <1>2, <2>15
<1> QED BY <1>3, <1>4

(* What is cited and shown can be trusted: a citation that stays in the    *)
(* answer leads to the one source with its number (_strip_invalid_         *)
(* citations), a document with a key is seen once (dedupe_by_stable_key),  *)
(* memories push no snippet out of HydraDB's order, and recency breaks     *)
(* ties only (_hybrid_score).                                              *)
THEOREM SourcesSoundCorrect == RecallSpec => []SourcesAreSound
<1>1. RecallInit => RInv
  BY DEF RecallInit, RInv, Inputs
<1>2. RInv => SourcesAreSound
  BY InvResolves, InvOnce, InvCrowds, InvTies DEF SourcesAreSound
<1> QED BY <1>1, <1>2, RInvStep, PTL DEF RecallSpec

-----------------------------------------------------------------------------
(* Iteration.                                                               *)

Chain(step, a, n, u) == u = [i \in 0..n |-> IF i = 0 THEN a ELSE step[u[i - 1]]]

LEMMA ChainExists ==
  ASSUME NEW step, NEW a, NEW n \in Nat
  PROVE  \E u : Chain(step, a, n, u)
<1> DEFINE S == {m \in Nat : \E u : Chain(step, a, m, u)}
<1>1. 0 \in S
  <2>1. Chain(step, a, 0, [i \in 0..0 |-> a])
    BY DEF Chain
  <2> QED BY <2>1
<1>2. ASSUME NEW m \in Nat, m \in S PROVE m + 1 \in S
  <2>1. PICK u : Chain(step, a, m, u)
    BY <1>2
  <2> DEFINE v == [i \in 0..m + 1 |-> IF i <= m THEN u[i] ELSE step[u[m]]]
  <2>2. ASSUME NEW i \in 0..m + 1 PROVE v[i] = IF i = 0 THEN a ELSE step[v[i - 1]]
    <3>1. CASE i = 0
      BY <2>1, <3>1 DEF Chain
    <3>2. CASE i \in 1..m
      BY <2>1, <3>2 DEF Chain
    <3>3. CASE i = m + 1
      BY <3>3
    <3> QED BY <3>1, <3>2, <3>3
  <2>3. Chain(step, a, m + 1, v)
    BY <2>2 DEF Chain
  <2> QED BY <2>3
<1> HIDE DEF S
<1>3. Nat \subseteq S
  BY <1>1, <1>2, NatInduct
<1> QED BY <1>3 DEF S

LEMMA ChainUnique ==
  ASSUME NEW step, NEW a, NEW m \in Nat, NEW n \in Nat, NEW u, NEW v,
         Chain(step, a, m, u), Chain(step, a, n, v)
  PROVE  \A i \in Nat : i <= m /\ i <= n => u[i] = v[i]
<1> DEFINE S == {i \in Nat : i <= m /\ i <= n => u[i] = v[i]}
<1>1. 0 \in S
  BY DEF Chain
<1>2. ASSUME NEW i \in Nat, i \in S PROVE i + 1 \in S
  <2>1. SUFFICES ASSUME i + 1 <= m, i + 1 <= n PROVE u[i + 1] = v[i + 1]
    OBVIOUS
  <2>2. u[i + 1] = step[u[i]] /\ v[i + 1] = step[v[i]]
    BY <2>1 DEF Chain
  <2> QED BY <1>2, <2>1, <2>2
<1> HIDE DEF S
<1>3. Nat \subseteq S
  BY <1>1, <1>2, NatInduct
<1> QED BY <1>3 DEF S

LEMMA IteratedChain ==
  ASSUME NEW step, NEW a, NEW n \in Nat
  PROVE  \E u : Chain(step, a, n, u) /\ Iterated(step, a, n) = u[n]
<1> DEFINE u == CHOOSE w : Chain(step, a, n, w)
<1>1. Chain(step, a, n, u)
  BY ChainExists
<1>2. Iterated(step, a, n) = u[n]
  BY DEF Iterated, Chain
<1> QED BY <1>1, <1>2

LEMMA IteratedZero ==
  ASSUME NEW step, NEW a
  PROVE  Iterated(step, a, 0) = a
BY IteratedChain DEF Chain

LEMMA IteratedNext ==
  ASSUME NEW step, NEW a, NEW n \in Nat
  PROVE  Iterated(step, a, n + 1) = step[Iterated(step, a, n)]
<1>1. PICK u : Chain(step, a, n, u) /\ Iterated(step, a, n) = u[n]
  BY IteratedChain
<1>2. PICK v : Chain(step, a, n + 1, v) /\ Iterated(step, a, n + 1) = v[n + 1]
  BY IteratedChain
<1>3. v[n + 1] = step[v[n]]
  BY <1>2 DEF Chain
<1>4. u[n] = v[n]
  BY <1>1, <1>2, ChainUnique
<1> QED BY <1>1, <1>2, <1>3, <1>4

LEMMA IteratedType ==
  ASSUME NEW D, NEW step \in [D -> D], NEW a \in D
  PROVE  \A n \in Nat : Iterated(step, a, n) \in D
<1> DEFINE S == {n \in Nat : Iterated(step, a, n) \in D}
<1>1. 0 \in S
  BY IteratedZero
<1>2. ASSUME NEW n \in Nat, n \in S PROVE n + 1 \in S
  BY <1>2, IteratedNext
<1> HIDE DEF S
<1>3. Nat \subseteq S
  BY <1>1, <1>2, NatInduct
<1> QED BY <1>3 DEF S

LEMMA IteratedShift ==
  ASSUME NEW step, NEW a
  PROVE  \A n \in Nat : Iterated(step, step[a], n) = Iterated(step, a, n + 1)
<1> DEFINE S == {n \in Nat : Iterated(step, step[a], n) = Iterated(step, a, n + 1)}
<1>1. 0 \in S
  <2>1. Iterated(step, a, 0 + 1) = step[a]
    BY IteratedNext, IteratedZero
  <2> QED BY <2>1, IteratedZero
<1>2. ASSUME NEW n \in Nat, n \in S PROVE n + 1 \in S
  <2>1. Iterated(step, step[a], n + 1) = step[Iterated(step, a, n + 1)]
    BY <1>2, IteratedNext
  <2> QED BY <2>1, IteratedNext
<1> HIDE DEF S
<1>3. Nat \subseteq S
  BY <1>1, <1>2, NatInduct
<1> QED BY <1>3 DEF S

-----------------------------------------------------------------------------
(* Union-find.                                                             *)

\* A union-find: each key is a root or hangs below one of a lesser order.
Forest(f) ==
  /\ DOMAIN f \subseteq Signatures /\ f \in [DOMAIN f -> DOMAIN f]
  /\ \A k \in DOMAIN f : f[k] = k \/ Order[f[k]] < Order[k]

LEMMA ForestFinite ==
  ASSUME NEW f, Forest(f)
  PROVE  /\ IsFiniteSet(DOMAIN f) /\ Cardinality(DOMAIN f) \in Nat
         /\ \A k \in DOMAIN f : Order[k] \in Nat
BY AliasAssumption, FS_Subset, FS_CardinalityType DEF Forest

\* As long as a key has not come to a root, it has seen only new keys.
LEMMA StepsAreNew ==
  ASSUME NEW f, Forest(f), NEW k \in DOMAIN f, NEW n \in Nat,
         f[Iterated(f, k, n)] # Iterated(f, k, n)
  PROVE  \A m \in Nat : \A i \in 0..m : m <= n + 1 /\ i < m =>
           Order[Iterated(f, k, m)] < Order[Iterated(f, k, i)]
<1> DEFINE U(i) == Iterated(f, k, i)
           S == {m \in Nat : \A i \in 0..m : m <= n + 1 /\ i < m => Order[U(m)] < Order[U(i)]}
<1>t. \A i \in Nat : U(i) \in DOMAIN f /\ Order[U(i)] \in Nat /\ U(i + 1) = f[U(i)]
  <2>1. f \in [DOMAIN f -> DOMAIN f]
    BY DEF Forest
  <2>2. \A i \in Nat : U(i) \in DOMAIN f
    BY <2>1, IteratedType
  <2> QED BY <2>2, ForestFinite, IteratedNext
\* Who is at a root stays there.
<1>r. ASSUME NEW m \in Nat, m <= n, f[U(m)] = U(m) PROVE FALSE
  <2> DEFINE T == {j \in Nat : U(m + j) = U(m)}
  <2> HIDE DEF U
  <2>1. 0 \in T
    OBVIOUS
  <2>2. ASSUME NEW j \in Nat, j \in T PROVE j + 1 \in T
    <3>1. U((m + j) + 1) = f[U(m + j)]
      BY <1>t
    <3>2. (m + j) + 1 = m + (j + 1)
      OBVIOUS
    <3> QED BY <1>r, <2>2, <3>1, <3>2
  <2> HIDE DEF T
  <2>3. n - m \in Nat /\ m + (n - m) = n
    BY <1>r
  <2>4. n - m \in T
    BY <2>1, <2>2, <2>3, NatInduct
  <2>5. U(n) = U(m)
    BY <2>3, <2>4 DEF T
  <2>6. f[U(n)] # U(n)
    BY DEF U
  <2> QED BY <1>r, <2>5, <2>6
<1>1. 0 \in S
  OBVIOUS
<1>2. ASSUME NEW m \in Nat, m \in S PROVE m + 1 \in S
  <2> HIDE DEF U
  <2>1. SUFFICES ASSUME NEW i \in 0..m, m + 1 <= n + 1 PROVE Order[U(m + 1)] < Order[U(i)]
    BY DEF S
  <2>2. Order[U(m + 1)] < Order[U(m)]
    <3>1. f[U(m)] # U(m)
      BY <1>r, <2>1
    <3> QED BY <1>t, <3>1 DEF Forest
  <2>3. CASE i = m
    BY <2>2, <2>3
  <2>4. CASE i < m
    <3>1. Order[U(m)] < Order[U(i)]
      BY <1>2, <2>1, <2>4 DEF S
    <3> QED BY <1>t, <2>2, <3>1
  <2> QED BY <2>3, <2>4
<1> HIDE DEF S, U
<1>3. Nat \subseteq S
  BY <1>1, <1>2, NatInduct
<1> QED BY <1>3 DEF S, U

\* There are not enough keys for as many steps as there are keys.
LEMMA RootIsRoot ==
  ASSUME NEW f, Forest(f), NEW k \in DOMAIN f
  PROVE  Root(f, k) \in DOMAIN f /\ f[Root(f, k)] = Root(f, k)
<1> DEFINE n == Cardinality(DOMAIN f)
           g == [i \in 0..n |-> Iterated(f, k, i)]
<1>t. n \in Nat /\ IsFiniteSet(DOMAIN f) /\ \A i \in DOMAIN f : Order[i] \in Nat
  BY ForestFinite
<1>u. \A i \in Nat : Iterated(f, k, i) \in DOMAIN f
  BY IteratedType DEF Forest
<1>1. SUFFICES ASSUME f[Iterated(f, k, n)] # Iterated(f, k, n) PROVE FALSE
  BY <1>t, <1>u DEF Root
<1>2. \A m \in Nat : \A i \in 0..m : m <= n + 1 /\ i < m =>
        Order[Iterated(f, k, m)] < Order[Iterated(f, k, i)]
  BY <1>1, <1>t, StepsAreNew
<1>3. ASSUME NEW i \in 0..n, NEW j \in 0..n, i < j PROVE g[i] # g[j]
  <2>1. Order[g[j]] < Order[g[i]]
    BY <1>2, <1>3, <1>t
  <2>2. Order[g[j]] \in Nat
    BY <1>t, <1>u
  <2> QED BY <2>1, <2>2
<1>4. g \in Injection(0..n, DOMAIN f)
  <2>1. g \in [0..n -> DOMAIN f]
    BY <1>t, <1>u
  <2> HIDE DEF g
  <2>2. \A i, j \in 0..n : g[i] = g[j] => i = j
    BY <1>3, <1>t
  <2> QED BY <2>1, <2>2 DEF Injection, IsInjective
<1>5. Cardinality(0..n) <= n
  BY <1>4, <1>t, FS_Injection
<1>6. Cardinality(0..n) = n + 1
  BY <1>t, FS_Interval
<1> QED BY <1>5, <1>6, <1>t

LEMMA RootOfParent ==
  ASSUME NEW f, Forest(f), NEW k \in DOMAIN f
  PROVE  Root(f, f[k]) = Root(f, k)
<1>1. Cardinality(DOMAIN f) \in Nat
  BY ForestFinite
<1>2. Root(f, f[k]) = f[Root(f, k)]
  BY <1>1, IteratedShift, IteratedNext DEF Root
<1> QED BY <1>2, RootIsRoot

\* Every key on the way has the same root.
LEMMA RootOfPath ==
  ASSUME NEW f, Forest(f), NEW k \in DOMAIN f
  PROVE  \A n \in Nat : /\ Iterated(f, k, n) \in DOMAIN f
                        /\ Root(f, Iterated(f, k, n)) = Root(f, k)
                        /\ Iterated(f, k, n) = k \/ Order[Iterated(f, k, n)] < Order[k]
<1> DEFINE U(n) == Iterated(f, k, n)
           S == {n \in Nat : Root(f, U(n)) = Root(f, k) /\ (U(n) = k \/ Order[U(n)] < Order[k])}
<1>t. \A n \in Nat : U(n) \in DOMAIN f /\ Order[U(n)] \in Nat /\ U(n + 1) = f[U(n)]
  <2>1. \A n \in Nat : U(n) \in DOMAIN f
    BY IteratedType DEF Forest
  <2> QED BY <2>1, ForestFinite, IteratedNext
<1>z. U(0) = k
  BY IteratedZero
<1> HIDE DEF U
<1>1. 0 \in S
  BY <1>z
<1>2. ASSUME NEW n \in Nat, n \in S PROVE n + 1 \in S
  <2>1. Root(f, U(n + 1)) = Root(f, k)
    BY <1>2, <1>t, RootOfParent
  <2>2. U(n + 1) = U(n) \/ Order[U(n + 1)] < Order[U(n)]
    BY <1>t DEF Forest
  <2>3. Order[k] \in Nat
    BY <1>t, <1>z
  <2>4. U(n + 1) = k \/ Order[U(n + 1)] < Order[k]
    BY <1>2, <1>t, <2>2, <2>3
  <2> QED BY <2>1, <2>4
<1> HIDE DEF S
<1>3. Nat \subseteq S
  BY <1>1, <1>2, NatInduct
<1> QED BY <1>3, <1>t DEF S, U

LEMMA RootBelow ==
  ASSUME NEW f, Forest(f), NEW k \in DOMAIN f
  PROVE  /\ Root(f, k) = k \/ Order[Root(f, k)] < Order[k]
         /\ Root(f, Root(f, k)) = Root(f, k)
BY RootOfPath, ForestFinite DEF Root

\* r gives roots if it is the key at a root and follows f elsewhere.
LEMMA RootUnique ==
  ASSUME NEW f, Forest(f), NEW r,
         \A k \in DOMAIN f : r[k] = IF f[k] = k THEN k ELSE r[f[k]]
  PROVE  \A k \in DOMAIN f : Root(f, k) = r[k]
<1> SUFFICES ASSUME NEW k \in DOMAIN f PROVE Root(f, k) = r[k]
  OBVIOUS
<1> DEFINE U(n) == Iterated(f, k, n)
           S == {n \in Nat : r[U(n)] = r[k]}
<1>t. \A n \in Nat : U(n) \in DOMAIN f /\ U(n + 1) = f[U(n)]
  BY IteratedType, IteratedNext DEF Forest
<1>z. U(0) = k /\ \A n \in Nat : n = Cardinality(DOMAIN f) => Root(f, k) = U(n)
  BY IteratedZero DEF Root
<1> HIDE DEF U
<1>1. 0 \in S
  BY <1>z
<1>2. ASSUME NEW n \in Nat, n \in S PROVE n + 1 \in S
  BY <1>2, <1>t
<1> HIDE DEF S
<1>3. Nat \subseteq S
  BY <1>1, <1>2, NatInduct
<1>4. r[Root(f, k)] = r[k]
  BY <1>3, <1>z, ForestFinite DEF S
<1> QED BY <1>4, RootIsRoot

\* A key without a parent is its own root.
LEMMA RootOfRoot ==
  ASSUME NEW f, Forest(f), NEW k \in DOMAIN f, f[k] = k
  PROVE  Root(f, k) = k
<1>1. \A n \in Nat : Iterated(f, k, n) = k
  <2> DEFINE S == {n \in Nat : Iterated(f, k, n) = k}
  <2>1. 0 \in S
    BY IteratedZero
  <2>2. ASSUME NEW n \in Nat, n \in S PROVE n + 1 \in S
    BY <2>2, IteratedNext
  <2> HIDE DEF S
  <2>3. Nat \subseteq S
    BY <2>1, <2>2, NatInduct
  <2> QED BY <2>3 DEF S
<1> QED BY <1>1, ForestFinite DEF Root

\* Path compression changes no root.
LEMMA FoundKeepsRoots ==
  ASSUME NEW f, Forest(f), NEW k \in DOMAIN f
  PROVE  /\ Forest(FoundRoot(f, k)) /\ DOMAIN FoundRoot(f, k) = DOMAIN f
         /\ \A j \in DOMAIN f : Root(FoundRoot(f, k), j) = Root(f, j)
         /\ \A j \in DOMAIN f : f[j] = j => FoundRoot(f, k)[j] = j
<1> DEFINE g == FoundRoot(f, k)
           r == [j \in DOMAIN f |-> Root(f, j)]
<1>t. /\ f \in [DOMAIN f -> DOMAIN f] /\ DOMAIN f \subseteq Signatures
      /\ \A j \in DOMAIN f : f[j] = j \/ Order[f[j]] < Order[j]
  BY DEF Forest
<1>d. DOMAIN g = DOMAIN f /\ \A j \in DOMAIN f : g[j] = IF j \in Path(f, k) THEN Root(f, k) ELSE f[j]
  BY DEF FoundRoot
<1>p. \A j \in Path(f, k) : j \in DOMAIN f /\ Root(f, j) = Root(f, k)
  BY RootOfPath, ForestFinite DEF Path
<1>r. \A j \in DOMAIN f : Root(f, j) \in DOMAIN f /\ (Root(f, j) = j \/ Order[Root(f, j)] < Order[j])
  BY RootIsRoot, RootBelow
<1> HIDE DEF g
<1>1. ASSUME NEW j \in DOMAIN f PROVE g[j] \in DOMAIN f /\ (g[j] = j \/ Order[g[j]] < Order[j])
  BY <1>t, <1>d, <1>p, <1>r
<1>2. Forest(g)
  <2>1. g \in [DOMAIN g -> DOMAIN g]
    <3>1. g = [j \in DOMAIN f |-> g[j]]
      BY <1>d DEF g, FoundRoot
    <3> QED BY <1>1, <1>d, <3>1
  <2> QED BY <1>1, <1>d, <1>t, <2>1 DEF Forest
<1>3. ASSUME NEW j \in DOMAIN f PROVE r[j] = IF g[j] = j THEN j ELSE r[g[j]]
  <2>1. CASE j \in Path(f, k)
    <3>1. g[j] = Root(f, j)
      BY <1>d, <1>p, <2>1
    <3>2. Root(f, Root(f, j)) = Root(f, j)
      BY RootBelow
    <3> QED BY <1>r, <3>1, <3>2
  <2>2. CASE j \notin Path(f, k)
    <3>1. g[j] = f[j]
      BY <1>d, <2>2
    <3>2. CASE f[j] = j
      BY <3>1, <3>2, RootOfRoot
    <3>3. CASE f[j] # j
      BY <1>t, <3>1, <3>3, RootOfParent
    <3> QED BY <3>2, <3>3
  <2> QED BY <2>1, <2>2
<1> HIDE DEF r
<1>4. \A j \in DOMAIN g : Root(g, j) = r[j]
  BY <1>2, <1>3, <1>d, RootUnique
<1>5. ASSUME NEW j \in DOMAIN f, f[j] = j PROVE g[j] = j
  <2>1. Root(f, j) = j
    BY <1>5, RootOfRoot
  <2> QED BY <1>5, <1>d, <1>p, <2>1
<1> QED BY <1>2, <1>4, <1>5, <1>d DEF g, r

Lesser(a, b)  == IF Order[a] <= Order[b] THEN a ELSE b
Greater(a, b) == IF Order[a] <= Order[b] THEN b ELSE a

\* A union gives the trees of a and b the lesser of their roots.
LEMMA UnitedRoots ==
  ASSUME NEW f, Forest(f), NEW a \in DOMAIN f, NEW b \in DOMAIN f
  PROVE  /\ Forest(United(f, a, b)) /\ DOMAIN United(f, a, b) = DOMAIN f
         /\ \A k \in DOMAIN f :
              Root(United(f, a, b), k) =
                IF Root(f, k) = Greater(Root(f, a), Root(f, b)) THEN Lesser(Root(f, a), Root(f, b))
                ELSE Root(f, k)
<1> DEFINE ra == Root(f, a)
           rb == Root(f, b)
           lo == Lesser(ra, rb)
           hi == Greater(ra, rb)
           g == FoundRoot(FoundRoot(f, a), b)
           h == United(f, a, b)
           r == [k \in DOMAIN f |-> IF Root(f, k) = hi THEN lo ELSE Root(f, k)]
<1>1. /\ Forest(g) /\ DOMAIN g = DOMAIN f
      /\ \A j \in DOMAIN f : Root(g, j) = Root(f, j)
  BY FoundKeepsRoots
<1>t. /\ g \in [DOMAIN f -> DOMAIN f] /\ DOMAIN f \subseteq Signatures
      /\ \A j \in DOMAIN f : g[j] = j \/ Order[g[j]] < Order[j]
  BY <1>1 DEF Forest
<1>r. ra \in DOMAIN f /\ rb \in DOMAIN f /\ g[ra] = ra /\ g[rb] = rb
  BY <1>1, RootIsRoot
<1> HIDE DEF g, ra, rb
<1>h. h = [g EXCEPT ![hi] = lo]
  BY DEF United, g, ra, rb, Lesser, Greater
<1>l. lo \in DOMAIN f /\ hi \in DOMAIN f /\ g[lo] = lo /\ g[hi] = hi
  BY <1>r DEF Lesser, Greater
<1>o. lo = hi \/ Order[lo] < Order[hi]
  <2>1. Order[ra] \in Nat /\ Order[rb] \in Nat /\ (ra # rb => Order[ra] # Order[rb])
    BY <1>r, <1>t, AliasAssumption
  <2> QED BY <2>1 DEF Lesser, Greater
<1> HIDE DEF h, lo, hi
<1>d. /\ h \in [DOMAIN f -> DOMAIN f]
      /\ \A j \in DOMAIN f : h[j] = IF j = hi THEN lo ELSE g[j]
  BY <1>h, <1>l, <1>t
<1>2. Forest(h)
  BY <1>d, <1>o, <1>t DEF Forest
<1>s. \A k \in DOMAIN f : /\ Root(f, k) \in DOMAIN f /\ (g[k] = k => Root(f, k) = k)
                          /\ Root(f, g[k]) = Root(f, k)
  BY <1>1, <1>t, RootIsRoot, RootOfRoot, RootOfParent
<1>3. ASSUME NEW k \in DOMAIN f PROVE r[k] = IF h[k] = k THEN k ELSE r[h[k]]
  <2>1. CASE k = hi
    <3>1. Root(f, k) = hi /\ Root(f, lo) = lo
      BY <1>l, <1>s, <2>1
    <3> QED BY <1>d, <1>l, <2>1, <3>1
  <2>2. CASE k # hi
    <3>1. h[k] = g[k]
      BY <1>d, <2>2
    <3>2. CASE g[k] = k
      BY <1>s, <2>2, <3>1, <3>2
    <3>3. CASE g[k] # k
      BY <1>s, <1>t, <3>1, <3>3
    <3> QED BY <3>2, <3>3
  <2> QED BY <2>1, <2>2
<1> HIDE DEF r
<1>4. \A k \in DOMAIN h : Root(h, k) = r[k]
  BY <1>2, <1>3, <1>d, RootUnique
<1> QED BY <1>2, <1>4, <1>d DEF h, r, lo, hi, ra, rb

\* setdefault: a key that was not known is a root.
LEMMA AddedRoots ==
  ASSUME NEW f, Forest(f), NEW keys \in SUBSET Signatures
  PROVE  /\ Forest(Added(f, keys)) /\ DOMAIN Added(f, keys) = DOMAIN f \cup keys
         /\ \A k \in DOMAIN f \cup keys :
              Root(Added(f, keys), k) = IF k \in DOMAIN f THEN Root(f, k) ELSE k
<1> DEFINE g == Added(f, keys)
           r == [k \in DOMAIN f \cup keys |-> IF k \in DOMAIN f THEN Root(f, k) ELSE k]
<1>1. Forest(g) /\ DOMAIN g = DOMAIN f \cup keys
  BY DEF Forest, Added
<1>2. ASSUME NEW k \in DOMAIN g PROVE r[k] = IF g[k] = k THEN k ELSE r[g[k]]
  <2>1. CASE k \in DOMAIN f
    <3>1. g[k] = f[k] /\ f[k] \in DOMAIN f
      BY <2>1 DEF Added, Forest
    <3>2. Root(f, f[k]) = Root(f, k) /\ (f[k] = k => Root(f, k) = k)
      BY <2>1, RootOfParent, RootOfRoot
    <3> QED BY <2>1, <3>1, <3>2
  <2>2. CASE k \notin DOMAIN f
    BY <1>1, <2>2 DEF Added
  <2> QED BY <2>1, <2>2
<1> HIDE DEF g, r
<1>3. \A k \in DOMAIN g : Root(g, k) = r[k]
  BY <1>1, <1>2, RootUnique
<1> QED BY <1>1, <1>3 DEF g, r

-----------------------------------------------------------------------------
(* build_alias_map, for any ids, names, pairs and order of repr.           *)

\* What joins connect with each other is on one side of C.
Whole(C, J) == \A j \in J : j.of[1] \in C <=> j.of[2] \in C

\* What is joined has one root, and roots are among what joins connect.
Agree(f, J) ==
  \A j \in J : /\ j.of[1] \in DOMAIN f /\ j.of[2] \in DOMAIN f
               /\ Root(f, j.of[1]) = Root(f, j.of[2])
Stays(f, J) == \A C \in SUBSET DOMAIN f : Whole(C, J) => \A k \in C : Root(f, k) \in C

AliasInv ==
  /\ aliases \subseteq Known /\ pairs \subseteq Pairs
  /\ phase \in {"single", "pair", "done"}
  /\ phase = "single" => left \subseteq aliases
  /\ phase = "pair" => left \subseteq pairs
  /\ Forest(parent) /\ Agree(parent, joined) /\ Stays(parent, joined)

LEMMA AddedKeeps ==
  ASSUME NEW f, Forest(f), NEW J, Agree(f, J), Stays(f, J), NEW keys \in SUBSET Signatures
  PROVE  Agree(Added(f, keys), J) /\ Stays(Added(f, keys), J)
<1> DEFINE g == Added(f, keys)
<1>1. /\ DOMAIN g = DOMAIN f \cup keys
      /\ \A k \in DOMAIN g : Root(g, k) = IF k \in DOMAIN f THEN Root(f, k) ELSE k
  BY AddedRoots
<1> HIDE DEF g
<1>2. Agree(g, J)
  BY <1>1 DEF Agree
<1>3. ASSUME NEW C \in SUBSET DOMAIN g, Whole(C, J), NEW k \in C PROVE Root(g, k) \in C
  <2>1. Whole(C \cap DOMAIN f, J)
    BY <1>3 DEF Whole, Agree
  <2>2. CASE k \in DOMAIN f
    BY <1>1, <2>1, <2>2 DEF Stays
  <2>3. CASE k \notin DOMAIN f
    BY <1>1, <2>3
  <2> QED BY <2>2, <2>3
<1> QED BY <1>2, <1>3 DEF Stays, g

LEMMA UnitedKeeps ==
  ASSUME NEW f, Forest(f), NEW J, Agree(f, J), Stays(f, J),
         NEW x, x.of[1] \in DOMAIN f, x.of[2] \in DOMAIN f
  PROVE  LET g == United(f, x.of[1], x.of[2]) IN Agree(g, J \cup {x}) /\ Stays(g, J \cup {x})
<1> DEFINE a == x.of[1]
           b == x.of[2]
           g == United(f, a, b)
           lo == Lesser(Root(f, a), Root(f, b))
           hi == Greater(Root(f, a), Root(f, b))
<1>1. /\ DOMAIN g = DOMAIN f
      /\ \A k \in DOMAIN f : Root(g, k) = IF Root(f, k) = hi THEN lo ELSE Root(f, k)
  BY UnitedRoots
<1>2. {lo, hi} = {Root(f, a), Root(f, b)}
  BY DEF Lesser, Greater
<1> HIDE DEF g, lo, hi
<1>3. ASSUME NEW j \in J \cup {x}
      PROVE  j.of[1] \in DOMAIN g /\ j.of[2] \in DOMAIN g /\ Root(g, j.of[1]) = Root(g, j.of[2])
  <2>1. CASE j \in J
    BY <1>1, <2>1 DEF Agree
  <2>2. CASE j = x
    BY <1>1, <1>2, <2>2
  <2> QED BY <2>1, <2>2
<1>4. ASSUME NEW C \in SUBSET DOMAIN g, Whole(C, J \cup {x}), NEW k \in C PROVE Root(g, k) \in C
  <2>1. Whole(C, J) /\ Whole(DOMAIN f \ C, J) /\ (a \in C <=> b \in C)
    BY <1>1, <1>4 DEF Whole, Agree
  <2>2. /\ \A i \in C : Root(f, i) \in C
        /\ \A i \in DOMAIN f \ C : Root(f, i) \in DOMAIN f \ C
    BY <1>1, <2>1 DEF Stays
  <2>3. Root(f, a) \in C <=> Root(f, b) \in C
    BY <1>1, <2>1, <2>2
  <2>4. lo \in C <=> hi \in C
    BY <1>2, <2>3
  <2> QED BY <1>1, <2>2, <2>4
<1> QED BY <1>3, <1>4 DEF Agree, Stays, g

LEMMA AliasInitInv == AliasInit => AliasInv
<1> SUFFICES ASSUME AliasInit PROVE AliasInv
  OBVIOUS
<1>1. Forest(parent) /\ Known = aliases
  BY DEF AliasInit, Forest, Known
<1>2. Stays(parent, joined)
  <2>1. \A k \in Known : Root(parent, k) = k
    <3>1. \A k \in Known : parent[k] = k
      BY DEF AliasInit, Known
    <3> QED BY <1>1, <3>1, RootOfRoot DEF Known
  <2> QED BY <2>1 DEF Stays, Known
<1> QED BY <1>1, <1>2 DEF AliasInit, AliasInv, Agree, Single

LEMMA FirstNameKeeps ==
  ASSUME AliasInv, NEW s \in Names, FirstName(s)
  PROVE  AliasInv'
<1>1. CASE Cardinality(NameCandidates(s)) = 1
  <2>1. PICK m \in NameCandidates(s) :
          /\ parent' = United(parent, s, m)
          /\ joined' = joined \cup {[rule |-> "first_name", of |-> <<s, m>>]}
    BY <1>1 DEF FirstName
  <2> DEFINE x == [rule |-> "first_name", of |-> <<s, m>>]
  <2>2. s \in DOMAIN parent /\ m \in DOMAIN parent
    BY DEF FirstName, NameCandidates, Multi, AliasInv, Known
  <2>3. x.of[1] = s /\ x.of[2] = m
    OBVIOUS
  <2> HIDE DEF x
  <2>4. Agree(parent', joined') /\ Stays(parent', joined')
    BY <2>1, <2>2, <2>3, UnitedKeeps DEF AliasInv, x
  <2>5. Forest(parent') /\ DOMAIN parent' = DOMAIN parent
    BY <2>1, <2>2, UnitedRoots DEF AliasInv
  <2> QED BY <2>4, <2>5 DEF AliasInv, FirstName, Known
<1>2. CASE Cardinality(NameCandidates(s)) # 1
  BY <1>2 DEF AliasInv, FirstName, Known
<1> QED BY <1>1, <1>2

LEMMA AdjacentKeeps ==
  ASSUME AliasInv, NEW p \in Pairs, Adjacent(p)
  PROVE  AliasInv'
<1> DEFINE f == Added(parent, {p[1], p[2]})
           x == [rule |-> "adjacency", of |-> p]
<1>1. {p[1], p[2]} \in SUBSET Signatures
  BY AliasAssumption DEF Signatures
<1>2. /\ Forest(f) /\ DOMAIN f = DOMAIN parent \cup {p[1], p[2]}
      /\ Agree(f, joined) /\ Stays(f, joined)
  BY <1>1, AddedRoots, AddedKeeps DEF AliasInv
<1>3. parent' = United(f, p[1], p[2]) /\ joined' = joined \cup {x} /\ x.of = p
  BY DEF Adjacent
<1> HIDE DEF f, x
<1>4. Agree(parent', joined') /\ Stays(parent', joined')
  BY <1>2, <1>3, UnitedKeeps
<1>5. Forest(parent') /\ DOMAIN parent' = DOMAIN f
  <2>1. p[1] \in DOMAIN f /\ p[2] \in DOMAIN f
    BY <1>2
  <2>2. Forest(United(f, p[1], p[2])) /\ DOMAIN United(f, p[1], p[2]) = DOMAIN f
    BY <1>2, <2>1, UnitedRoots
  <2> QED BY <1>3, <2>2
<1> QED BY <1>2, <1>4, <1>5 DEF AliasInv, Adjacent, Known

LEMMA AliasStep == AliasInv /\ [AliasNext]_aliasVars => AliasInv'
<1> SUFFICES ASSUME AliasInv, [AliasNext]_aliasVars PROVE AliasInv'
  OBVIOUS
<1>1. ASSUME NEW s \in Names, FirstName(s) PROVE AliasInv'
  BY <1>1, FirstNameKeeps
<1>2. ASSUME NEW p \in Pairs, Adjacent(p) PROVE AliasInv'
  BY <1>2, AdjacentKeeps
<1>3. CASE FirstNamesDone
  BY <1>3 DEF AliasInv, FirstNamesDone, Known
<1>4. CASE AdjacentDone
  BY <1>4 DEF AliasInv, AdjacentDone, Known
<1>5. CASE UNCHANGED aliasVars
  BY <1>5 DEF AliasInv, aliasVars, Known
<1> QED BY <1>1, <1>2, <1>3, <1>4, <1>5 DEF AliasNext

-----------------------------------------------------------------------------
(* Groups.                                                                 *)

\* Spreading from k reaches what joins connect to it, and no more.
LEMMA GroupIsWhole ==
  ASSUME AliasInv, NEW k \in Known
  PROVE  /\ Group(k) \subseteq Known /\ k \in Group(k) /\ Whole(Group(k), joined)
         /\ \A C \in SUBSET Known : k \in C /\ Whole(C, joined) => Group(k) \subseteq C
<1> DEFINE N(n) == Iterated(Spread, {k}, n)
           size == Cardinality(Known)
<1>j. \A j \in joined : j.of[1] \in Known /\ j.of[2] \in Known
  BY DEF AliasInv, Agree, Known
<1>k. IsFiniteSet(Known) /\ size \in Nat
  BY ForestFinite DEF AliasInv, Known
<1>s. /\ Spread \in [SUBSET Known -> SUBSET Known]
      /\ \A S \in SUBSET Known :
           Spread[S] = S \cup UNION {{j.of[1], j.of[2]} : j \in {i \in joined : {i.of[1], i.of[2]} \cap S # {}}}
  <2>1. \A S \in SUBSET Known :
           UNION {e \in Joins : e \cap S # {}}
             = UNION {{j.of[1], j.of[2]} : j \in {i \in joined : {i.of[1], i.of[2]} \cap S # {}}}
    BY DEF Joins
  <2>2. \A S \in SUBSET Known : S \cup UNION {e \in Joins : e \cap S # {}} \in SUBSET Known
    BY <1>j DEF Joins
  <2> QED BY <2>1, <2>2 DEF Spread
<1>g. Group(k) = N(size)
  BY DEF Group
<1>n. \A n \in Nat : N(n) \in SUBSET Known /\ N(n + 1) = Spread[N(n)] /\ N(n) \subseteq N(n + 1)
  <2>1. \A n \in Nat : N(n) \in SUBSET Known
    <3>1. {k} \in SUBSET Known
      OBVIOUS
    <3> QED BY <1>s, <3>1, IteratedType
  <2>2. \A S \in SUBSET Known : S \subseteq Spread[S]
    BY <1>s
  <2>3. \A n \in Nat : N(n + 1) = Spread[N(n)]
    BY IteratedNext
  <2> HIDE DEF N
  <2> QED BY <2>1, <2>2, <2>3
<1>z. N(0) = {k}
  BY IteratedZero
<1> HIDE DEF N, size
\* A set that does not grow any more is whole.
<1>w. ASSUME NEW S \in SUBSET Known, Spread[S] = S PROVE Whole(S, joined)
  BY <1>s, <1>w DEF Whole
\* Whether it has stopped growing or not, size steps are enough.
<1>1. Spread[N(size)] = N(size)
  <2>1. SUFFICES ASSUME Spread[N(size)] # N(size) PROVE FALSE
    OBVIOUS
  <2>2. ASSUME NEW m \in Nat, m <= size, Spread[N(m)] = N(m) PROVE FALSE
    <3> DEFINE T == {i \in Nat : N(m + i) = N(m)}
    <3>1. 0 \in T
      OBVIOUS
    <3>2. ASSUME NEW i \in Nat, i \in T PROVE i + 1 \in T
      <4>1. N((m + i) + 1) = Spread[N(m + i)]
        BY <1>n
      <4>2. (m + i) + 1 = m + (i + 1)
        OBVIOUS
      <4> QED BY <2>2, <3>2, <4>1, <4>2
    <3> HIDE DEF T
    <3>3. size - m \in Nat /\ m + (size - m) = size
      BY <1>k, <2>2
    <3>4. size - m \in T
      BY <3>1, <3>2, <3>3, NatInduct
    <3>5. N(size) = N(m)
      BY <3>3, <3>4 DEF T
    <3> QED BY <2>1, <2>2, <3>5
  <2> DEFINE S == {m \in Nat : m <= size => Cardinality(N(m)) >= m + 1}
  <2>c. \A m \in Nat : IsFiniteSet(N(m)) /\ Cardinality(N(m)) \in Nat /\ Cardinality(N(m)) <= size
    BY <1>k, <1>n, FS_Subset, FS_CardinalityType DEF size
  <2>3. 0 \in S
    BY <1>z, FS_Singleton
  <2>4. ASSUME NEW m \in Nat, m \in S PROVE m + 1 \in S
    <3>1. SUFFICES ASSUME m + 1 <= size PROVE Cardinality(N(m + 1)) >= m + 2
      OBVIOUS
    <3>2. N(m) # N(m + 1) /\ N(m) \in SUBSET N(m + 1)
      BY <1>k, <1>n, <2>2, <3>1
    <3>3. Cardinality(N(m)) <= Cardinality(N(m + 1)) /\ Cardinality(N(m)) # Cardinality(N(m + 1))
      BY <2>c, <3>2, FS_Subset
    <3>4. Cardinality(N(m)) >= m + 1
      BY <1>k, <2>4, <3>1
    <3> QED BY <2>c, <3>3, <3>4
  <2> HIDE DEF S
  <2>5. Nat \subseteq S
    BY <2>3, <2>4, NatInduct
  <2>6. Cardinality(N(size)) >= size + 1
    BY <1>k, <2>5 DEF S
  <2> QED BY <1>k, <2>6, <2>c
<1>2. Group(k) \subseteq Known /\ Whole(Group(k), joined)
  BY <1>1, <1>g, <1>k, <1>n, <1>w
<1>3. k \in Group(k)
  <2> DEFINE S == {n \in Nat : k \in N(n)}
  <2>1. 0 \in S
    BY <1>z
  <2>2. ASSUME NEW n \in Nat, n \in S PROVE n + 1 \in S
    BY <1>n, <2>2
  <2> HIDE DEF S
  <2>3. Nat \subseteq S
    BY <2>1, <2>2, NatInduct
  <2> QED BY <1>g, <1>k, <2>3 DEF S
<1>4. ASSUME NEW C \in SUBSET Known, k \in C, Whole(C, joined) PROVE Group(k) \subseteq C
  <2> DEFINE S == {n \in Nat : N(n) \subseteq C}
  <2>1. 0 \in S
    BY <1>z, <1>4
  <2>2. ASSUME NEW n \in Nat, n \in S PROVE n + 1 \in S
    <3>1. N(n) \in SUBSET Known /\ N(n) \subseteq C /\ N(n + 1) = Spread[N(n)]
      BY <1>n, <2>2
    <3>2. ASSUME NEW j \in joined, {j.of[1], j.of[2]} \cap N(n) # {}
          PROVE  {j.of[1], j.of[2]} \subseteq C
      BY <1>4, <3>1, <3>2 DEF Whole
    <3>3. ASSUME NEW i \in Spread[N(n)] PROVE i \in C
      <4>1. \/ i \in N(n)
            \/ \E j \in joined : {j.of[1], j.of[2]} \cap N(n) # {} /\ i \in {j.of[1], j.of[2]}
        BY <1>s, <3>1, <3>3
      <4> QED BY <3>1, <3>2, <4>1
    <3> QED BY <3>1, <3>3
  <2> HIDE DEF S
  <2>3. Nat \subseteq S
    BY <2>1, <2>2, NatInduct
  <2> QED BY <1>g, <1>k, <2>3 DEF S
<1> QED BY <1>2, <1>3, <1>4

LEMMA InvMakesRootLeast == AliasInv => RootIsLeast
<1> SUFFICES ASSUME AliasInv, NEW k \in Known
             PROVE  Root(parent, k) = CHOOSE r \in Group(k) : \A j \in Group(k) : Order[r] <= Order[j]
  BY DEF RootIsLeast
<1> DEFINE g == Group(k)
           r == Root(parent, k)
           same == {j \in Known : Root(parent, j) = r}
<1>1. g \subseteq Known /\ k \in g /\ Whole(g, joined)
  BY GroupIsWhole
<1>2. r \in g
  BY <1>1 DEF AliasInv, Stays, Known
<1>3. Whole(same, joined)
  BY DEF Whole, AliasInv, Agree, Known
<1>4. g \subseteq same
  BY <1>3, GroupIsWhole
<1> HIDE DEF g
<1>5. \A j \in g : Order[r] <= Order[j]
  <2>1. \A j \in g : j \in DOMAIN parent /\ Root(parent, j) = r
    BY <1>1, <1>4 DEF Known
  <2>2. \A j \in DOMAIN parent : Order[j] \in Nat
    BY ForestFinite DEF AliasInv
  <2>3. \A j \in g : r = j \/ Order[r] < Order[j]
    BY <2>1, RootBelow DEF AliasInv
  <2> QED BY <1>2, <2>1, <2>2, <2>3
<1>6. \A j \in g : (\A i \in g : Order[j] <= Order[i]) => j = r
  <2>1. \A j \in g : j \in Signatures /\ Order[j] \in Nat
    BY <1>1, ForestFinite DEF AliasInv, Forest, Known
  <2>2. ASSUME NEW j \in g, \A i \in g : Order[j] <= Order[i] PROVE j = r
    <3>1. Order[j] = Order[r]
      BY <1>2, <1>5, <2>1, <2>2
    <3> QED BY <1>2, <2>1, <3>1, AliasAssumption
  <2> QED BY <2>2
<1> HIDE DEF r
<1>7. \E j \in g : \A i \in g : Order[j] <= Order[i]
  BY <1>2, <1>5
<1>8. (CHOOSE j \in g : \A i \in g : Order[j] <= Order[i]) = r
  BY <1>6, <1>7
<1> QED BY <1>8 DEF g, r

(* Whatever ids and names rows mention and in whatever order they come,    *)
(* two signatures have one root if and only if joins connect them, the     *)
(* least of all they connect.                                              *)
THEOREM RootLeastCorrect == AliasSpec => []RootIsLeast
<1>1. AliasSpec => []AliasInv
  BY AliasInitInv, AliasStep, PTL DEF AliasSpec
<1> QED BY <1>1, InvMakesRootLeast, PTL

-----------------------------------------------------------------------------
(* QueryAnswers, for any questions, requests, TTL and size.                *)

USE AnswersAssumption

CacheEntries == [answer : Answers, expires : Nat]
Asking == [pc : {"memory", "recall"}, q : Questions, scope : Scopes, talk : Talks,
           stream : BOOLEAN]
Answered == [pc : {"llm", "put"}, q : Questions, scope : Scopes, talk : Talks,
             stream : BOOLEAN, answer : Answers]

LiveNow == {q \in Questions : Live(q)}

\* A request before its snippets: only memory asks without a conversation.
Looking(r) == r \in Asking /\ (r.pc = "memory" => r.talk = "none")

\* What is cached for q: its answer, outside of conversations, whose expiry
\* counts from a time the request was still allowed to take.
Sound(q, entry, now) ==
  /\ entry \in CacheEntries /\ entry.answer.q = q /\ entry.answer.talk = "none"
  /\ entry.expires <= now + TTL
  /\ entry.expires <= entry.answer.at + Slow + TTL

\* What a request has to give: the answer to its own question, recalled not
\* longer ago than a request takes.
FreshEntry(r, now) ==
  /\ r \in Answered /\ r.answer.q = r.q /\ r.answer.talk = r.talk /\ r.answer.scope = r.scope
  /\ r.answer.at <= now /\ now <= r.answer.at + Slow

ClockOK == clock \in 1..MaxClock
CacheOK ==
  /\ DOMAIN cache = Questions /\ cache = [q \in Questions |-> cache[q]]
  /\ \A q \in Questions : cache[q] = Missing \/ Sound(q, cache[q], clock)
RoomOK == IsFiniteSet(LiveNow) /\ Cardinality(LiveNow) <= Size
RequestsOK ==
  /\ req = [t \in Requests |-> req[t]]
  /\ \A t \in Requests : req[t] = Nothing \/ Looking(req[t]) \/ FreshEntry(req[t], clock)
GivenOK == AnswersOwnQuestion /\ StaleForTTL

AInv == ClockOK /\ CacheOK /\ RoomOK /\ RequestsOK /\ GivenOK

-----------------------------------------------------------------------------
LEMMA Constants ==
  /\ TTL \in Nat /\ TTL > 0 /\ Slow \in Nat /\ Size \in Nat /\ Size > 0
  /\ MaxClock \in Nat /\ MaxClock > 0 /\ "none" \in Talks
BY DEF Talks

LEMMA NothingLives == ASSUME NEW q \in Questions, clock \in Nat, cache[q] = Missing PROVE ~Live(q)
BY DEF Live, Missing

LEMMA AInvInit == AnswersInit => AInv
<1> SUFFICES ASSUME AnswersInit PROVE AInv
  OBVIOUS
<1>1. ClockOK /\ CacheOK /\ RequestsOK
  BY Constants DEF AnswersInit, ClockOK, CacheOK, RequestsOK
<1>2. LiveNow = {}
  BY NothingLives DEF LiveNow, AnswersInit
<1>3. RoomOK
  BY <1>2, FS_EmptySet, Constants DEF RoomOK
<1>4. GivenOK
  BY DEF AnswersInit, GivenOK, AnswersOwnQuestion, StaleForTTL
<1> QED BY <1>1, <1>3, <1>4 DEF AInv

-----------------------------------------------------------------------------
\* The requests other than t stay as they are, t becomes r.
LEMMA OneRequest ==
  ASSUME AInv, NEW t \in Requests, NEW r, req' = [req EXCEPT ![t] = r], UNCHANGED clock,
         r = Nothing \/ Looking(r) \/ FreshEntry(r, clock)
  PROVE  RequestsOK'
<1>1. \A u \in Requests : req'[u] = IF u = t THEN r ELSE req[u]
  BY DEF AInv, RequestsOK
<1>2. req' = [u \in Requests |-> req'[u]]
  BY DEF AInv, RequestsOK
<1> QED BY <1>1, <1>2 DEF AInv, RequestsOK

\* What is asked of the cache only stays true.
LEMMA CacheStays == ASSUME AInv, UNCHANGED <<clock, cache>> PROVE (ClockOK /\ CacheOK /\ RoomOK)'
BY DEF AInv, ClockOK, CacheOK, RoomOK, LiveNow, Live

LEMMA GivenStays == ASSUME AInv, UNCHANGED given PROVE GivenOK'
BY DEF AInv, GivenOK, AnswersOwnQuestion, StaleForTTL

\* The kinds of request by their pc.
LEMMA Kinds ==
  ASSUME AInv, NEW t \in Requests
  PROVE  /\ req[t].pc \in {"memory", "recall"} => Looking(req[t])
         /\ req[t].pc \in {"llm", "put"} => FreshEntry(req[t], clock)
BY DEF AInv, RequestsOK, Nothing, Looking, Asking, FreshEntry, Answered

LEMMA TickKeeps == ASSUME AInv, Tick PROVE AInv'
<1>1. clock' = clock + 1 /\ ClockOK' /\ clock \in Nat /\ UNCHANGED <<cache, req, given>>
  BY Constants DEF AInv, ClockOK, Tick
<1>2. CacheOK'
  <2>1. ASSUME NEW q \in Questions PROVE cache[q] = Missing \/ Sound(q, cache[q], clock')
    BY <1>1, Constants DEF AInv, CacheOK, Sound, CacheEntries, Answers
  <2> QED BY <1>1, <2>1 DEF AInv, CacheOK
<1>3. RoomOK'
  <2>1. LiveNow' \subseteq LiveNow
    <3> SUFFICES ASSUME NEW q \in Questions, clock' < cache[q].expires PROVE clock < cache[q].expires
      BY <1>1 DEF LiveNow, Live
    <3>1. cache[q].expires \in Nat
      BY DEF AInv, CacheOK, Sound, CacheEntries, Missing
    <3> QED BY <1>1, <3>1
  <2>2. IsFiniteSet(LiveNow') /\ Cardinality(LiveNow') <= Cardinality(LiveNow)
    BY <2>1, FS_Subset DEF AInv, RoomOK
  <2>3. Cardinality(LiveNow) \in Nat /\ Cardinality(LiveNow') \in Nat
    BY <2>2, FS_CardinalityType DEF AInv, RoomOK
  <2> QED BY <2>2, <2>3, Constants DEF AInv, RoomOK
<1>4. RequestsOK'
  <2>1. ASSUME NEW t \in Requests PROVE req[t] = Nothing \/ Looking(req[t]) \/ FreshEntry(req[t], clock')
    <3>1. CASE FreshEntry(req[t], clock)
      <4>1. req[t].pc \in {"llm", "put"} /\ req[t].answer.at \in Nat
        BY <3>1, Constants DEF FreshEntry, Answered, Answers
      <4>2. clock < req[t].answer.at + Slow
        BY <4>1 DEF Tick
      <4> QED BY <1>1, <3>1, <4>1, <4>2, Constants DEF FreshEntry
    <3> QED BY <3>1 DEF AInv, RequestsOK
  <2> QED BY <1>1, <2>1 DEF AInv, RequestsOK
<1>5. GivenOK'
  BY <1>1, GivenStays
<1> QED BY <1>1, <1>2, <1>3, <1>4, <1>5 DEF AInv

-----------------------------------------------------------------------------
(* The cache.                                                               *)

\* Storing an answer outside of conversations.
LEMMA PutKeeps ==
  ASSUME AInv, NEW q \in Questions, NEW a \in Answers, a.q = q, a.talk = "none",
         clock <= a.at + Slow, Put(q, a), UNCHANGED clock
  PROVE  (ClockOK /\ CacheOK /\ RoomOK)'
<1> DEFINE entry == [answer |-> a, expires |-> clock + TTL]
<1>1. PICK kept \in SUBSET LiveNow :
        /\ Cardinality(LiveNow \ kept) =
             IF q \notin LiveNow /\ Cardinality(LiveNow) >= Size THEN 1 ELSE 0
        /\ cache' = [k \in Questions |-> IF k = q THEN entry
                                         ELSE IF k \in kept THEN cache[k] ELSE Missing]
  BY DEF Put, LiveNow
<1>2. ClockOK' /\ clock \in Nat /\ a.at \in Nat
  BY Constants DEF AInv, ClockOK, Answers
<1>3. entry \in CacheEntries /\ Sound(q, entry, clock)
  BY <1>2, Constants DEF Sound, CacheEntries
<1> HIDE DEF entry
<1>4. CacheOK'
  <2>1. \A k \in Questions : cache'[k] = IF k = q THEN entry
                                         ELSE IF k \in kept THEN cache[k] ELSE Missing
    BY <1>1
  <2>2. DOMAIN cache' = Questions /\ cache' = [k \in Questions |-> cache'[k]]
    BY <1>1
  <2>3. \A k \in Questions : cache'[k] = Missing \/ Sound(k, cache'[k], clock')
    BY <2>1, <1>3 DEF AInv, CacheOK
  <2> QED BY <2>2, <2>3 DEF CacheOK
<1>5. RoomOK'
  <2>1. LiveNow' \subseteq kept \cup {q}
    <3> SUFFICES ASSUME NEW k \in Questions, k # q, k \notin kept, clock' < cache'[k].expires
                 PROVE FALSE
      BY DEF LiveNow, Live
    <3>1. cache'[k] = Missing
      BY <1>1
    <3> QED BY <3>1, <1>2 DEF Missing
  <2>2. IsFiniteSet(LiveNow) /\ Cardinality(LiveNow) \in Nat /\ Cardinality(LiveNow) <= Size
    BY FS_CardinalityType DEF AInv, RoomOK
  <2>3. /\ IsFiniteSet(kept) /\ Cardinality(kept) \in Nat
        /\ IsFiniteSet(LiveNow \ kept)
        /\ Cardinality(LiveNow \ kept) = Cardinality(LiveNow) - Cardinality(kept)
    <3>1. LiveNow \cap kept = kept
      OBVIOUS
    <3>2. IsFiniteSet(kept) /\ IsFiniteSet(LiveNow \ kept)
      BY <2>2, FS_Subset
    <3>3. Cardinality(LiveNow \ kept) = Cardinality(LiveNow) - Cardinality(LiveNow \cap kept)
      BY <2>2, FS_Difference
    <3> QED BY <3>1, <3>2, <3>3, FS_CardinalityType
  <2>4. /\ IsFiniteSet(kept \cup {q})
        /\ Cardinality(kept \cup {q}) =
             IF q \in kept THEN Cardinality(kept) ELSE Cardinality(kept) + 1
    BY <2>3, FS_AddElement
  <2>5. Cardinality(kept \cup {q}) <= Size
    <3>1. CASE q \in LiveNow
      <4>1. Cardinality(LiveNow \ kept) = 0
        BY <1>1, <3>1
      <4>2. LiveNow \ kept = {}
        BY <4>1, <2>3, FS_EmptySet
      <4> QED BY <4>2, <2>2, <2>3, <2>4, <3>1
    <3>2. CASE q \notin LiveNow /\ Cardinality(LiveNow) >= Size
      BY <1>1, <3>2, <2>2, <2>3, <2>4, Constants
    <3>3. CASE q \notin LiveNow /\ ~(Cardinality(LiveNow) >= Size)
      BY <1>1, <3>3, <2>2, <2>3, <2>4, Constants
    <3> QED BY <3>1, <3>2, <3>3
  <2>6. IsFiniteSet(LiveNow') /\ Cardinality(LiveNow') <= Cardinality(kept \cup {q})
    BY <2>1, <2>4, FS_Subset
  <2>7. Cardinality(LiveNow') \in Nat /\ Cardinality(kept \cup {q}) \in Nat
    BY <2>4, <2>6, FS_CardinalityType
  <2> QED BY <2>5, <2>6, <2>7, Constants DEF RoomOK
<1> QED BY <1>2, <1>4, <1>5

\* A response to request t with answer a.
LEMMA RespondKeeps ==
  ASSUME AInv, NEW t \in Requests, NEW a \in Answers, Respond(t, a),
         a.q = req[t].q, a.talk = req[t].talk, a.scope = req[t].scope, clock < a.at + TTL + Slow
  PROVE  GivenOK'
<1>1. given' = [kind |-> "answer",
                to |-> [q |-> req[t].q, scope |-> req[t].scope, talk |-> req[t].talk],
                answer |-> a, when |-> clock, cached |-> FALSE]
  BY DEF Respond, Asked
<1> QED BY <1>1 DEF GivenOK, AnswersOwnQuestion, StaleForTTL

-----------------------------------------------------------------------------
(* The routes.                                                              *)

LEMMA ReceiveKeeps ==
  ASSUME AInv, NEW t \in Requests, NEW q \in Questions, NEW scope \in Scopes, NEW talk \in Talks,
         NEW stream \in BOOLEAN, Receive(t, q, scope, talk, stream)
  PROVE  AInv'
<1> DEFINE r == [pc |-> IF talk = "none" /\ ~stream THEN "memory" ELSE "recall",
                 q |-> q, scope |-> scope, talk |-> talk, stream |-> stream]
<1>1. req' = [req EXCEPT ![t] = r] /\ UNCHANGED <<clock, cache, given>>
  BY DEF Receive
<1>2. Looking(r)
  BY DEF Looking, Asking
<1> HIDE DEF r
<1>3. RequestsOK'
  BY <1>1, <1>2, OneRequest
<1> QED BY <1>1, <1>3, CacheStays, GivenStays DEF AInv

LEMMA ReceiveCachedKeeps ==
  ASSUME AInv, NEW q \in Questions, NEW scope \in Scopes, NEW talk \in Talks,
         ReceiveCached(q, scope, talk)
  PROVE  AInv'
<1>1. /\ talk = "none" /\ Live(q) /\ UNCHANGED <<clock, cache, req>>
      /\ given' = [kind |-> "answer", to |-> [q |-> q, scope |-> scope, talk |-> talk],
                   answer |-> cache[q].answer, when |-> clock, cached |-> TRUE]
  BY DEF ReceiveCached, Found, UsesCache
<1>2. clock \in Nat
  BY Constants DEF AInv, ClockOK
<1>3. Sound(q, cache[q], clock) /\ clock < cache[q].expires
  BY <1>1, <1>2, NothingLives DEF AInv, CacheOK, Live
<1>4. cache[q].answer.at \in Nat /\ cache[q].expires \in Nat
  BY <1>3, Constants DEF Sound, CacheEntries, Answers
<1>5. clock < cache[q].answer.at + TTL + Slow
  BY <1>2, <1>3, <1>4, Constants DEF Sound
<1>6. GivenOK'
  BY <1>1, <1>3, <1>5 DEF Sound, GivenOK, AnswersOwnQuestion, StaleForTTL
<1>7. RequestsOK'
  BY <1>1 DEF AInv, RequestsOK
<1> QED BY <1>1, <1>6, <1>7, CacheStays DEF AInv

LEMMA FromMemoryKeeps == ASSUME AInv, NEW t \in Requests, FromMemory(t) PROVE AInv'
<1> DEFINE a == [q |-> req[t].q, scope |-> req[t].scope, talk |-> "none", at |-> clock]
<1>1. /\ Respond(t, a) /\ req' = [req EXCEPT ![t] = Nothing] /\ UNCHANGED <<clock, cache>>
      /\ req[t].pc = "memory"
  BY DEF FromMemory
<1>2. req[t] \in Asking /\ req[t].talk = "none" /\ clock \in 0..MaxClock
  BY <1>1, Kinds, Constants DEF AInv, ClockOK, Looking
<1>3. a \in Answers
  BY <1>2, Constants DEF Asking, Answers
<1>4. /\ a.q = req[t].q /\ a.talk = req[t].talk /\ a.scope = req[t].scope
      /\ clock < a.at + TTL + Slow
  BY <1>2, Constants
<1> HIDE DEF a
<1>5. GivenOK'
  BY <1>1, <1>3, <1>4, RespondKeeps
<1>6. RequestsOK'
  BY <1>1, OneRequest
<1> QED BY <1>1, <1>5, <1>6, CacheStays DEF AInv

LEMMA NotFromMemoryKeeps == ASSUME AInv, NEW t \in Requests, NotFromMemory(t) PROVE AInv'
<1>1. /\ req' = [req EXCEPT ![t] = [req[t] EXCEPT !.pc = "recall"]] /\ req[t].pc = "memory"
      /\ UNCHANGED <<clock, cache, given>>
  BY DEF NotFromMemory
<1>2. Looking([req[t] EXCEPT !.pc = "recall"])
  BY <1>1, Kinds DEF Looking, Asking
<1>3. RequestsOK'
  BY <1>1, <1>2, OneRequest
<1> QED BY <1>1, <1>3, CacheStays, GivenStays DEF AInv

\* The request gets its answer, of this moment.
LEMMA RecallKeeps == ASSUME AInv, NEW t \in Requests, Recall(t) PROVE AInv'
<1> DEFINE a == [q |-> req[t].q, scope |-> req[t].scope, talk |-> req[t].talk, at |-> clock]
           r == [pc |-> "llm", q |-> req[t].q, scope |-> req[t].scope, talk |-> req[t].talk,
                 stream |-> req[t].stream, answer |-> a]
<1>1. req' = [req EXCEPT ![t] = r] /\ req[t].pc = "recall" /\ UNCHANGED <<clock, cache, given>>
  BY DEF Recall
<1>2. req[t] \in Asking /\ clock \in 0..MaxClock
  BY <1>1, Kinds, Constants DEF AInv, ClockOK, Looking
<1>3. /\ a \in Answers /\ a.q = req[t].q /\ a.talk = req[t].talk /\ a.scope = req[t].scope
      /\ a.at = clock
  BY <1>2 DEF Asking, Answers
<1> HIDE DEF a
<1>4. FreshEntry(r, clock)
  BY <1>2, <1>3, Constants DEF Asking, FreshEntry, Answered
<1> HIDE DEF r
<1>5. RequestsOK'
  BY <1>1, <1>4, OneRequest
<1> QED BY <1>1, <1>5, CacheStays, GivenStays DEF AInv

LEMMA WithoutAnswerKeeps == ASSUME AInv, NEW t \in Requests, WithoutAnswer(t) PROVE AInv'
<1>1. /\ req' = [req EXCEPT ![t] = Nothing] /\ given' = [kind |-> "fallback"]
      /\ UNCHANGED <<clock, cache>>
  BY DEF WithoutAnswer
<1>2. RequestsOK'
  BY <1>1, OneRequest
<1>3. GivenOK'
  BY <1>1 DEF GivenOK, AnswersOwnQuestion, StaleForTTL
<1> QED BY <1>1, <1>2, <1>3, CacheStays DEF AInv

\* What FreshEntry says of the answer at hand.
LEMMA FreshAnswer ==
  ASSUME AInv, NEW t \in Requests, req[t].pc \in {"llm", "put"}
  PROVE  /\ req[t].q \in Questions /\ req[t].answer \in Answers
         /\ req[t].answer.q = req[t].q /\ req[t].answer.talk = req[t].talk
         /\ req[t].answer.scope = req[t].scope
         /\ clock <= req[t].answer.at + Slow
         /\ clock < req[t].answer.at + TTL + Slow
<1>1. FreshEntry(req[t], clock) /\ clock \in Nat
  BY Kinds, Constants DEF AInv, ClockOK
<1>2. req[t].answer \in Answers /\ req[t].answer.at \in Nat
  BY <1>1, Constants DEF FreshEntry, Answered, Answers
<1> QED BY <1>1, <1>2, Constants DEF FreshEntry, Answered

\* Both places that store an answer.
LEMMA StoreKeeps ==
  ASSUME AInv, NEW t \in Requests, req[t].pc \in {"llm", "put"}, UNCHANGED clock,
         IF UsesCache(req[t].talk) THEN Put(req[t].q, req[t].answer) ELSE UNCHANGED cache
  PROVE  (ClockOK /\ CacheOK /\ RoomOK)'
<1>1. CASE UsesCache(req[t].talk)
  BY <1>1, FreshAnswer, PutKeeps DEF UsesCache
<1>2. CASE ~UsesCache(req[t].talk)
  BY <1>2, CacheStays
<1> QED BY <1>1, <1>2

LEMMA AnswerKeeps == ASSUME AInv, NEW t \in Requests, Answer(t) PROVE AInv'
<1>1. /\ req[t].pc \in {"llm", "put"} /\ Respond(t, req[t].answer)
      /\ req' = [req EXCEPT ![t] = Nothing] /\ UNCHANGED clock
      /\ IF UsesCache(req[t].talk) THEN Put(req[t].q, req[t].answer) ELSE UNCHANGED cache
  BY DEF Answer
<1>2. (ClockOK /\ CacheOK /\ RoomOK)'
  BY <1>1, StoreKeeps
<1>3. GivenOK'
  BY <1>1, FreshAnswer, RespondKeeps
<1>4. RequestsOK'
  BY <1>1, OneRequest
<1> QED BY <1>2, <1>3, <1>4 DEF AInv

LEMMA AnswerStreamKeeps == ASSUME AInv, NEW t \in Requests, AnswerStream(t) PROVE AInv'
<1>1. /\ req[t].pc \in {"llm", "put"} /\ Respond(t, req[t].answer)
      /\ req' = [req EXCEPT ![t] = [req[t] EXCEPT !.pc = "put"]] /\ UNCHANGED <<clock, cache>>
  BY DEF AnswerStream
<1>2. FreshEntry([req[t] EXCEPT !.pc = "put"], clock)
  BY <1>1, Kinds DEF FreshEntry, Answered
<1>3. RequestsOK'
  BY <1>1, <1>2, OneRequest
<1>4. GivenOK'
  BY <1>1, FreshAnswer, RespondKeeps
<1> QED BY <1>1, <1>3, <1>4, CacheStays DEF AInv

LEMMA PutStreamKeeps == ASSUME AInv, NEW t \in Requests, PutStream(t) PROVE AInv'
<1>1. /\ req[t].pc \in {"llm", "put"} /\ req' = [req EXCEPT ![t] = Nothing]
      /\ UNCHANGED <<clock, given>>
      /\ IF UsesCache(req[t].talk) THEN Put(req[t].q, req[t].answer) ELSE UNCHANGED cache
  BY DEF PutStream
<1>2. (ClockOK /\ CacheOK /\ RoomOK)'
  BY <1>1, StoreKeeps
<1>3. RequestsOK'
  BY <1>1, OneRequest
<1> QED BY <1>1, <1>2, <1>3, GivenStays DEF AInv

LEMMA LeaveKeeps == ASSUME AInv, NEW t \in Requests, Leave(t) PROVE AInv'
<1>1. req' = [req EXCEPT ![t] = Nothing] /\ UNCHANGED <<clock, cache, given>>
  BY DEF Leave
<1>2. RequestsOK'
  BY <1>1, OneRequest
<1> QED BY <1>1, <1>2, CacheStays, GivenStays DEF AInv

-----------------------------------------------------------------------------
LEMMA AInvStep == AInv /\ [AnswersNext]_answersVars => AInv'
<1> SUFFICES ASSUME AInv, [AnswersNext]_answersVars PROVE AInv'
  OBVIOUS
<1>1. CASE Tick
  BY <1>1, TickKeeps
<1>2. ASSUME NEW q \in Questions, NEW scope \in Scopes, NEW talk \in Talks,
             ReceiveCached(q, scope, talk)
      PROVE  AInv'
  BY <1>2, ReceiveCachedKeeps
<1>3. ASSUME NEW q \in Questions, NEW scope \in Scopes, NEW talk \in Talks,
             NEW t \in Requests, NEW stream \in BOOLEAN, Receive(t, q, scope, talk, stream)
      PROVE  AInv'
  BY <1>3, ReceiveKeeps
<1>4. ASSUME NEW t \in Requests,
             FromMemory(t) \/ NotFromMemory(t) \/ Recall(t) \/ WithoutAnswer(t)
      PROVE  AInv'
  BY <1>4, FromMemoryKeeps, NotFromMemoryKeeps, RecallKeeps, WithoutAnswerKeeps
<1>5. ASSUME NEW t \in Requests,
             Answer(t) \/ AnswerStream(t) \/ PutStream(t) \/ Leave(t)
      PROVE  AInv'
  BY <1>5, AnswerKeeps, AnswerStreamKeeps, PutStreamKeeps, LeaveKeeps
<1>6. CASE UNCHANGED answersVars
  <2>1. UNCHANGED <<clock, cache, req, given>>
    BY <1>6 DEF answersVars
  <2>2. RequestsOK'
    BY <2>1 DEF AInv, RequestsOK
  <2> QED BY <2>1, <2>2, CacheStays, GivenStays DEF AInv
<1> QED BY <1>1, <1>2, <1>3, <1>4, <1>5, <1>6 DEF AnswersNext

LEMMA AInvAlways == AnswersSpec => []AInv
<1> QED BY AInvInit, AInvStep, PTL DEF AnswersSpec

\* What the invariant says of the cache is what the runs check of it.
LEMMA AInvImplies == AInv => CacheIsSound
<1> SUFFICES ASSUME AInv PROVE CacheIsSound
  OBVIOUS
<1>1. clock \in 0..MaxClock
  BY Constants DEF AInv, ClockOK
<1>2. ASSUME NEW q \in Cached
      PROVE  /\ cache[q].answer \in Answers /\ cache[q].answer.q = q
             /\ cache[q].expires <= clock + TTL
  BY <1>2 DEF Cached, AInv, CacheOK, Sound, CacheEntries
<1>3. AnswersTypeOK
  BY <1>1, <1>2 DEF AInv, RoomOK, LiveNow, AnswersTypeOK
<1> QED BY <1>3 DEF AInv, GivenOK, CacheIsSound

-----------------------------------------------------------------------------
(* However requests overlap, a response answers the question it was asked, *)
(* in its conversation (for its workspace, unless it is a hit of the cache *)
(* outside of conversations), from snippets not older than the TTL and the time  *)
(* of a request, and the cache keeps to its size (query_cache.py, main.py: *)
(* invalidate_all is never called).                                        *)
THEOREM CacheSoundCorrect == AnswersSpec => []CacheIsSound
<1> QED BY AInvAlways, AInvImplies, PTL
=============================================================================

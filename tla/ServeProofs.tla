---------------------------- MODULE ServeProofs ----------------------------
(* Theorems of Backups: a prune never costs one of the newest dumps, and    *)
(* the loop implements DumpClock.  Theorems of Serve: the interval task     *)
(* beside the loop takes none of that away.                                 *)
EXTENDS Serve, FiniteSetTheorems, WellFoundedInduction, TLAPS

\* The dumps newer than one of stamp k.
Newer(k) == {j \in store : j > k}

\* What every key that a prune has still to delete leaves behind it.
PruneInv == \A k \in loop.stale \cup hand.stale : Cardinality(Newer(k)) >= AtLeastOne

\* The statement of NewestDumpsKept about one step.
KeptStep ==
  \A k \in store \ store' : Cardinality({j \in store' : j > k}) >= AtLeastOne

-----------------------------------------------------------------------------
(* The newest dump.                                                         *)

\* A finite set of numbers has a largest.
LEMMA LargestExists ==
  ASSUME NEW S \in SUBSET Int, IsFiniteSet(S), S # {}
  PROVE  \E k \in S : \A j \in S : j <= k
<1> DEFINE Above(k) == {j \in S : j > k}
           T == {Above(k) : k \in S}
<1>1. T \subseteq FiniteSubsetsOf(S)
  BY FS_Subset DEF FiniteSubsetsOf
<1>2. T # {}
  OBVIOUS
<1> HIDE DEF T
<1>3. PICK x \in T : \A y \in T : ~ (<<y, x>> \in StrictSubsetOrdering(S))
  BY <1>1, <1>2, FS_StrictSubsetOrderingWellFounded, WFMin
<1>4. PICK k \in S : x = Above(k)
  BY <1>3 DEF T
<1>5. SUFFICES ASSUME NEW j \in S, ~ (j <= k) PROVE FALSE
  BY <1>4
<1>6. Above(j) \in T
  BY <1>5 DEF T
<1>7. Above(j) \subseteq Above(k) /\ Above(j) # Above(k)
  <2>1. j > k
    BY <1>5
  <2>2. j \in Above(k) /\ j \notin Above(j)
    BY <2>1
  <2>3. \A i \in S : i > j => i > k
    <3>1. S \subseteq Int
      OBVIOUS
    <3> QED BY <2>1, <3>1
  <2>4. Above(j) \subseteq Above(k)
    BY <2>3
  <2> QED BY <2>2, <2>4
<1>8. <<Above(j), x>> \in StrictSubsetOrdering(S)
  BY <1>1, <1>3, <1>4, <1>6, <1>7 DEF StrictSubsetOrdering, FiniteSubsetsOf
<1> QED BY <1>3, <1>6, <1>8

\* The stored dumps are finitely many.
LEMMA StoreFinite ==
  ASSUME NEW S \in SUBSET Stamps PROVE IsFiniteSet(S) /\ S \in SUBSET Nat
<1> DEFINE b == MaxTime + Ahead
<1>1. b \in Int
  BY BackupsAssumption
<1>2. S \subseteq 0..b
  BY DEF Stamps
<1>3. S \subseteq Nat
  BY <1>1, <1>2
<1> HIDE DEF b
<1>4. IsFiniteSet(0..b)
  BY <1>1, FS_Interval
<1> QED BY <1>2, <1>3, <1>4, FS_Subset

\* The newest dump is one, and none is newer.
LEMMA NewestIs ==
  ASSUME store \subseteq Stamps, store # {}
  PROVE  Newest \in store /\ \A j \in store : j <= Newest
<1>1. IsFiniteSet(store) /\ store \in SUBSET Nat
  BY StoreFinite
<1>2. store \in SUBSET Int
  BY <1>1
<1>3. \E k \in store : \A j \in store : j <= k
  BY <1>1, <1>2, LargestExists
<1> QED BY <1>3 DEF Newest

-----------------------------------------------------------------------------
(* Types.                                                                   *)

\* What is left to wait is a number of ticks.
LEMMA WaitForType ==
  ASSUME BackupsTypeOK PROVE WaitFor \in Nat
<1>1. now \in Nat /\ Interval \in Nat /\ store \subseteq Stamps
  BY BackupsAssumption DEF BackupsTypeOK
<1>2. store # {} => Newest \in Nat
  BY <1>1, NewestIs, StoreFinite
<1> QED BY <1>1, <1>2 DEF WaitFor

\* The loop's record keeps its type through the steps that build it anew.
LEMMA LoopType ==
  ASSUME BackupsTypeOK, NEW pc \in LoopPc, NEW wake \in Nat,
         NEW stamp \in Stamps, NEW stale \in SUBSET Stamps
  PROVE  Process(pc, stamp, stale, wake)
           \in [pc : LoopPc, stamp : Stamps, stale : SUBSET Stamps, wake : Nat]
BY DEF Process

LEMMA HandType ==
  ASSUME BackupsTypeOK, NEW pc \in HandPc,
         NEW stamp \in Stamps, NEW stale \in SUBSET Stamps
  PROVE  Process(pc, stamp, stale, 0)
           \in [pc : HandPc, stamp : Stamps, stale : SUBSET Stamps, wake : Nat]
BY DEF Process

LEMMA InitType == Init => BackupsTypeOK
<1>1. 0 \in Stamps /\ Interval \in Interval..MaxTime /\ 0 \in 0..MaxHands
  BY BackupsAssumption DEF Stamps
<1> QED BY <1>1 DEF Init, BackupsTypeOK, At, Process, LoopPc, HandPc

\* Every step keeps the types.
LEMMA StepType ==
  ASSUME BackupsTypeOK, [Next]_vars PROVE BackupsTypeOK'
<1> USE DEF BackupsTypeOK
<1>1. /\ now \in Nat /\ Interval \in Nat /\ Retry \in Nat /\ WaitFor \in Nat
      /\ now \in Stamps /\ 0 \in Stamps /\ {} \in SUBSET Stamps
  BY BackupsAssumption, WaitForType DEF Stamps
<1>2. StaleKeys \in SUBSET Stamps
  BY DEF StaleKeys
<1>3. CASE Boot
  BY <1>1, <1>3, LoopType DEF Boot, At, LoopPc
<1>4. CASE Look
  BY <1>1, <1>4, LoopType DEF Look, Sleep, LoopPc
<1>5. CASE LookFails
  BY <1>1, <1>5, LoopType DEF LookFails, Sleep, LoopPc
<1>6. CASE Wake
  BY <1>1, <1>6, LoopType DEF Wake, LoopPc
<1>7. CASE DumpFails
  BY <1>1, <1>7, LoopType DEF DumpFails, Pause, LoopPc
<1>8. CASE Put
  <2>1. now + Retry \in Nat /\ loop.stamp \in Stamps
    BY <1>1
  <2>2. loop' \in [pc : LoopPc, stamp : Stamps, stale : SUBSET Stamps, wake : Nat]
    BY <1>1, <1>8, <2>1, LoopType DEF Put, Pause, At, LoopPc
  <2>3. store' \subseteq Stamps /\ taken' \in Stamps /\ fault' \in BOOLEAN
    BY <1>8, <2>1 DEF Put
  <2> QED BY <1>8, <2>2, <2>3 DEF Put
<1>9. CASE List
  BY <1>1, <1>2, <1>9, LoopType DEF List, At, LoopPc
<1>10. CASE ListFails
  BY <1>1, <1>10, LoopType DEF ListFails, Pause, LoopPc
<1>11. CASE Delete
  <2>1. PICK k \in loop.stale :
          /\ store' \in {store, store \ {k}}
          /\ loop' = IF loop.stale = {k} THEN At("look")
                     ELSE [loop EXCEPT !.stale = @ \ {k}]
    BY <1>11 DEF Delete
  <2>2. loop' \in [pc : LoopPc, stamp : Stamps, stale : SUBSET Stamps, wake : Nat]
    BY <1>1, <2>1, LoopType DEF At, LoopPc
  <2> QED BY <1>11, <2>1, <2>2 DEF Delete
<1>12. CASE Resume
  BY <1>1, <1>12, LoopType DEF Resume, At, LoopPc
<1>13. CASE Crash
  BY <1>1, <1>13, LoopType DEF Crash, At, LoopPc
<1>14. CASE HandStart
  <2>1. PICK ahead \in 0..Ahead : hand' = Process("dump", now + ahead, {}, 0)
    BY <1>14 DEF HandStart
  <2>2. now + ahead \in Stamps /\ hands + 1 \in 0..MaxHands
    BY <1>14, BackupsAssumption DEF HandStart, Stamps
  <2>3. hand' \in [pc : HandPc, stamp : Stamps, stale : SUBSET Stamps, wake : Nat]
    BY <1>1, <2>1, <2>2, HandType DEF HandPc
  <2> QED BY <1>14, <2>2, <2>3 DEF HandStart
<1>15. CASE HandPut
  BY <1>1, <1>15, HandType DEF HandPut, At, HandPc
<1>16. CASE HandList
  BY <1>1, <1>2, <1>16, HandType DEF HandList, At, HandPc
<1>17. CASE HandDelete
  <2>1. PICK k \in hand.stale :
          /\ store' \in {store, store \ {k}}
          /\ hand' = IF hand.stale = {k} THEN At("idle")
                     ELSE [hand EXCEPT !.stale = @ \ {k}]
    BY <1>17 DEF HandDelete
  <2>2. hand' \in [pc : HandPc, stamp : Stamps, stale : SUBSET Stamps, wake : Nat]
    BY <1>1, <2>1, HandType DEF At, HandPc
  <2> QED BY <1>17, <2>1, <2>2 DEF HandDelete
<1>18. CASE HandEnds
  BY <1>1, <1>18, HandType DEF HandEnds, At, HandPc
<1>19. CASE Tick
  BY <1>1, <1>19, BackupsAssumption DEF Tick
<1>20. CASE UNCHANGED vars
  BY <1>20 DEF vars
<1> QED BY <1>3, <1>4, <1>5, <1>6, <1>7, <1>8, <1>9, <1>10, <1>11, <1>12, <1>13,
           <1>14, <1>15, <1>16, <1>17, <1>18, <1>19, <1>20
        DEF Next, LoopStep, HandStep

-----------------------------------------------------------------------------
(* Pruning.                                                                 *)

\* What both prunes have still to delete.
Pending == loop.stale \cup hand.stale

\* A set that holds as many newer dumps as another holds at least as many.
LEMMA MoreNewer ==
  ASSUME NEW S \in SUBSET Stamps, NEW T \in SUBSET S, Cardinality(T) >= AtLeastOne
  PROVE  Cardinality(S) >= AtLeastOne
<1>1. IsFiniteSet(S)
  BY StoreFinite
<1>2. IsFiniteSet(T) /\ Cardinality(T) <= Cardinality(S)
  BY <1>1, FS_Subset
<1>3. Cardinality(S) \in Nat /\ Cardinality(T) \in Nat /\ AtLeastOne \in Nat
  BY <1>1, <1>2, FS_CardinalityType, BackupsAssumption DEF AtLeastOne
<1> QED BY <1>2, <1>3

\* A dump may arrive, and nothing new becomes pending.
LEMMA DumpsArrive ==
  ASSUME BackupsTypeOK, BackupsTypeOK', PruneInv, store \subseteq store',
         Pending' \subseteq Pending
  PROVE  PruneInv' /\ KeptStep
<1>1. SUFFICES ASSUME NEW k \in Pending' PROVE Cardinality(Newer(k)') >= AtLeastOne
  BY DEF PruneInv, Pending, KeptStep
<1>2. Newer(k) \in SUBSET (Newer(k)') /\ Newer(k)' \in SUBSET Stamps
  BY DEF Newer, BackupsTypeOK
<1>3. Cardinality(Newer(k)) >= AtLeastOne
  BY <1>1 DEF PruneInv, Pending
<1> QED BY <1>2, <1>3, MoreNewer

\* A listing makes stale keys pending, and the store stays.
LEMMA KeysListed ==
  ASSUME PruneInv, store' = store, Pending' \subseteq Pending \cup StaleKeys
  PROVE  PruneInv' /\ KeptStep
BY DEF PruneInv, KeptStep, Pending, StaleKeys, Newer

\* A pending key goes, whatever the other process still has pending: a key
\* older than it keeps all that this one had.
LEMMA KeyGoes ==
  ASSUME BackupsTypeOK, PruneInv, NEW k \in Pending,
         store' \in {store, store \ {k}}, Pending' \subseteq Pending
  PROVE  PruneInv' /\ KeptStep
<1>1. /\ k \in Nat /\ Pending \in SUBSET Nat /\ store \in SUBSET Nat
      /\ Pending \in SUBSET Stamps
  <2>1. Pending \in SUBSET Stamps /\ store \in SUBSET Stamps
    BY DEF BackupsTypeOK, Pending
  <2> QED BY <2>1, StoreFinite
<1>2. Cardinality(Newer(k)) >= AtLeastOne
  BY DEF PruneInv, Pending
<1>3. {j \in store' : j > k} = Newer(k)
  BY <1>1 DEF Newer
<1>4. KeptStep
  BY <1>2, <1>3 DEF KeptStep
<1>5. ASSUME NEW m \in Pending' PROVE Cardinality(Newer(m)') >= AtLeastOne
  <2>1. m \in Pending /\ m \in Nat
    BY <1>1
  <2>2. Newer(m)' \in SUBSET Stamps
    BY DEF Newer, BackupsTypeOK
  <2>3. CASE store' = store
    BY <2>1, <2>3 DEF PruneInv, Pending, Newer
  <2>4. CASE store' = store \ {k} /\ m < k
    <3>1. ASSUME NEW j \in Newer(k) PROVE j \in store' /\ j > m
      <4>1. j \in store /\ j \in Nat /\ j > k
        BY <1>1, <3>1 DEF Newer
      <4> QED BY <1>1, <2>1, <2>4, <4>1
    <3>2. Newer(k) \in SUBSET (Newer(m)')
      BY <3>1 DEF Newer
    <3> QED BY <1>2, <2>2, <3>2, MoreNewer
  <2>5. CASE store' = store \ {k} /\ ~ (m < k)
    <3>1. Newer(m)' = Newer(m)
      BY <1>1, <2>1, <2>5 DEF Newer
    <3> QED BY <2>1, <3>1 DEF PruneInv, Pending
  <2> QED BY <2>3, <2>4, <2>5
<1> QED BY <1>4, <1>5 DEF PruneInv, Pending

\* Every step keeps what a prune leaves behind, and no step loses a dump that
\* is to be kept.
LEMMA StepPrune ==
  ASSUME BackupsTypeOK, BackupsTypeOK', PruneInv, [Next]_vars
  PROVE  PruneInv' /\ KeptStep
<1>1. CASE Boot \/ Look \/ LookFails \/ Wake \/ DumpFails \/ Put \/ ListFails \/ Resume \/ Crash
  <2>1. store \subseteq store' /\ Pending' \subseteq Pending
    BY <1>1 DEF Boot, Look, LookFails, Wake, DumpFails, Put, ListFails, Resume, Crash,
                Sleep, Pause, At, Process, Pending
  <2> QED BY <2>1, DumpsArrive
<1>2. CASE HandStart \/ HandPut \/ HandEnds \/ Tick \/ UNCHANGED vars
  <2>1. store \subseteq store' /\ Pending' \subseteq Pending
    BY <1>2 DEF HandStart, HandPut, HandEnds, Tick, vars, At, Process, Pending
  <2> QED BY <2>1, DumpsArrive
<1>3. CASE List \/ HandList
  <2>1. store' = store /\ Pending' \subseteq Pending \cup StaleKeys
    BY <1>3 DEF List, HandList, At, Process, Pending
  <2> QED BY <2>1, KeysListed
<1>4. CASE Delete
  <2>1. PICK k \in loop.stale :
          /\ store' \in {store, store \ {k}}
          /\ loop' = IF loop.stale = {k} THEN At("look")
                     ELSE [loop EXCEPT !.stale = @ \ {k}]
    BY <1>4 DEF Delete
  <2>2. k \in Pending /\ hand' = hand /\ loop'.stale \subseteq loop.stale
    BY <1>4, <2>1 DEF Delete, At, Process, Pending, BackupsTypeOK
  <2>3. Pending' \subseteq Pending
    BY <2>2 DEF Pending
  <2> QED BY <2>1, <2>2, <2>3, KeyGoes
<1>5. CASE HandDelete
  <2>1. PICK k \in hand.stale :
          /\ store' \in {store, store \ {k}}
          /\ hand' = IF hand.stale = {k} THEN At("idle")
                     ELSE [hand EXCEPT !.stale = @ \ {k}]
    BY <1>5 DEF HandDelete
  <2>2. k \in Pending /\ loop' = loop /\ hand'.stale \subseteq hand.stale
    BY <1>5, <2>1 DEF HandDelete, At, Process, Pending, BackupsTypeOK
  <2>3. Pending' \subseteq Pending
    BY <2>2 DEF Pending
  <2> QED BY <2>1, <2>2, <2>3, KeyGoes
<1> QED BY <1>1, <1>2, <1>3, <1>4, <1>5 DEF Next, LoopStep, HandStep

\* Backups keeps its types, for any cadence and any number of dumps kept.
THEOREM BackupsTypes == Spec => []BackupsTypeOK
<1> QED BY InitType, StepType, PTL DEF Spec

\* Whatever the loop and the command list and delete at the same time, a dump
\* goes only when as many newer ones stay as are to be kept (prune, stale_keys).
THEOREM NewestAreKept == Spec => NewestDumpsKept
<1>1. Init => PruneInv
  BY DEF Init, At, Process, PruneInv
<1>2. BackupsTypeOK /\ BackupsTypeOK' /\ PruneInv /\ [Next]_vars => PruneInv' /\ [KeptStep]_vars
  BY StepPrune
<1>3. KeptStep <=> (\A k \in store \ store' :
        Cardinality({j \in store' : j > k}) >= AtLeastOne)
  BY DEF KeptStep
<1> QED BY <1>1, <1>2, <1>3, BackupsTypes, PTL DEF Spec, NewestDumpsKept

-----------------------------------------------------------------------------
(* The loop implements DumpClock.                                           *)

\* The stamp of the newest dump, as DumpClock sees it.
NewestOrNone == IF store = {} THEN 0 ELSE Newest

\* The loop dumps no sooner than an interval after its last dump, because
\* every dump it took, or a newer one, is there when it looks.
PacedInv ==
  /\ taken <= now /\ taken <= NewestOrNone
  /\ loop.pc = "sleep" => loop.wake >= taken + Interval
  /\ loop.pc = "dump" => /\ loop.stamp \in (taken + Interval)..now
                         /\ now <= loop.stamp + MaxDump

\* While nothing has failed since the last dump, the newest is no older than an
\* interval, or than a dump where one has just been stored.
PromptInv ==
  fault = FALSE =>
    /\ store # {}
    /\ loop.pc = "dump" => loop.stamp <= NewestOrNone + Interval
    /\ loop.pc = "list" => now <= NewestOrNone + MaxDump
    /\ loop.pc # "dump" => now <= NewestOrNone + Interval
    /\ loop.pc = "sleep" => loop.wake <= now \/ loop.wake <= NewestOrNone + Interval
    /\ loop.pc = "pause" => loop.wake <= NewestOrNone + Interval

ClockInv == BackupsTypeOK /\ PruneInv /\ PacedInv /\ PromptInv

\* The numbers behind it.
LEMMA ClockTypes ==
  ASSUME BackupsTypeOK
  PROVE  /\ now \in Nat /\ taken \in Nat /\ NewestOrNone \in Nat
         /\ loop.stamp \in Nat /\ loop.wake \in Nat /\ hand.stamp \in Nat
         /\ Interval \in Nat /\ MaxDump \in Nat /\ Retry \in Nat
         /\ Retry + MaxDump <= Interval /\ now >= Interval /\ fault \in BOOLEAN
<1>1. Stamps \in SUBSET Nat
  BY StoreFinite
<1>2. NewestOrNone \in Nat
  BY <1>1, NewestIs DEF NewestOrNone, BackupsTypeOK
<1>3. /\ taken \in Stamps /\ loop.stamp \in Stamps /\ loop.wake \in Nat
      /\ hand.stamp \in Stamps /\ fault \in BOOLEAN
  BY DEF BackupsTypeOK
<1>4. now \in Nat /\ now >= Interval
  BY BackupsAssumption DEF BackupsTypeOK
<1> QED BY <1>1, <1>2, <1>3, <1>4, BackupsAssumption

\* A dump that arrives is the newest, or the newest stays.
LEMMA NewestWith ==
  ASSUME BackupsTypeOK, NEW s \in Stamps, store' = store \cup {s}
  PROVE  /\ NewestOrNone' = IF s > NewestOrNone THEN s ELSE NewestOrNone
         /\ store' # {}
<1>1. /\ store' \subseteq Stamps /\ store' # {} /\ s \in Nat
      /\ store \in SUBSET Nat /\ store' \in SUBSET Nat
  BY StoreFinite DEF BackupsTypeOK
<1>2. Newest' \in store' /\ \A j \in store' : j <= Newest'
  <2>1. \E k \in store' : \A j \in store' : j <= k
    <3>1. IsFiniteSet(store') /\ store' \in SUBSET Int
      BY <1>1, StoreFinite
    <3> QED BY <1>1, <3>1, LargestExists
  <2> QED BY <2>1 DEF Newest
<1>3. NewestOrNone' = Newest' /\ Newest' \in Nat
  BY <1>1, <1>2 DEF NewestOrNone
<1>4. CASE store = {}
  BY <1>1, <1>2, <1>3, <1>4 DEF NewestOrNone
<1>5. CASE store # {}
  <2>1. Newest \in store /\ \A j \in store : j <= Newest
    BY <1>5, NewestIs DEF BackupsTypeOK
  <2>2. NewestOrNone = Newest /\ Newest \in Nat
    BY <1>1, <1>5, <2>1 DEF NewestOrNone
  <2> QED BY <1>1, <1>2, <1>3, <2>1, <2>2
<1> QED BY <1>1, <1>4, <1>5

\* A prune leaves the newest dump.
LEMMA NewestWithout ==
  ASSUME BackupsTypeOK, PruneInv, NEW k \in Pending, store' \in {store, store \ {k}}
  PROVE  NewestOrNone' = NewestOrNone /\ (store # {} => store' # {})
<1>1. CASE store' = store
  BY <1>1 DEF NewestOrNone, Newest
<1>2. CASE store' # store
  <2>1. k \in store /\ store' = store \ {k} /\ store # {}
    BY <1>2
  <2>2. Newest \in store /\ (\A j \in store : j <= Newest)
        /\ store \in SUBSET Nat /\ k \in Nat
    BY <2>1, NewestIs, StoreFinite DEF BackupsTypeOK
  <2>3. Newer(k) # {}
    <3>1. Cardinality(Newer(k)) >= AtLeastOne /\ AtLeastOne \in Nat \ {0}
      BY BackupsAssumption DEF PruneInv, Pending, AtLeastOne
    <3> QED BY <3>1, FS_EmptySet
  <2>4. PICK j \in store : j > k
    BY <2>3 DEF Newer
  <2>5. Newest # k
    BY <2>2, <2>4
  <2>6. Newest \in store' /\ \A i \in store' : i <= Newest
    BY <2>1, <2>2, <2>5
  <2>7. \A m \in store' : (\A i \in store' : i <= m) => m = Newest
    BY <2>1, <2>2, <2>6
  <2>8. Newest' = Newest
    <3>1. Newest' \in store' /\ \A i \in store' : i <= Newest'
      BY <2>6 DEF Newest
    <3> QED BY <2>7, <3>1
  <2> QED BY <2>1, <2>6, <2>8 DEF NewestOrNone
<1> QED BY <1>1, <1>2

\* What the loop waits, once it has looked.
LEMMA WaitForIs ==
  ASSUME BackupsTypeOK, taken <= now, taken <= NewestOrNone
  PROVE  /\ WaitFor \in Nat
         /\ now + WaitFor >= taken + Interval
         /\ store # {} => now + WaitFor <= now \/ now + WaitFor <= NewestOrNone + Interval
<1>1. store # {} => NewestOrNone = Newest
  BY DEF NewestOrNone
<1>2. store = {} => NewestOrNone = 0
  BY DEF NewestOrNone
<1>3. WaitFor \in Nat
  BY WaitForType
<1>4. CASE store = {}
  BY <1>2, <1>3, <1>4, ClockTypes DEF WaitFor
<1>5. CASE store # {}
  BY <1>1, <1>3, <1>5, ClockTypes DEF WaitFor
<1> QED BY <1>4, <1>5

\* A step of DumpClock, or none.
ClockStep == [Clock!Next]_(Clock!vars)

\* The steps that move none of what DumpClock sees, or only report a failure.
LEMMA QuietClock ==
  ASSUME now' = now, taken' = taken, NewestOrNone' = NewestOrNone,
         fault' \in {fault, TRUE}
  PROVE  ClockStep
<1>1. CASE fault' = fault
  BY <1>1 DEF ClockStep, Clock!vars, NewestOrNone
<1>2. CASE fault' = TRUE
  <2>1. Clock!Fails
    BY <1>2 DEF Clock!Fails, NewestOrNone
  <2> QED BY <2>1 DEF ClockStep, Clock!Next
<1> QED BY <1>1, <1>2

\* The same store has the same newest dump.
LEMMA SameStore ==
  ASSUME store' = store PROVE NewestOrNone' = NewestOrNone
BY DEF NewestOrNone, Newest

\* The loop moves, and stores nothing.
LEMMA LoopClock ==
  ASSUME ClockInv, BackupsTypeOK',
         Boot \/ Look \/ LookFails \/ Wake \/ DumpFails \/ List \/ ListFails \/ Resume \/ Crash
  PROVE  PacedInv' /\ PromptInv' /\ ClockStep
<1> USE ClockTypes DEF ClockInv
<1>1. /\ now' = now /\ taken' = taken /\ store' = store
      /\ NewestOrNone' = NewestOrNone /\ fault' \in {fault, TRUE}
  BY SameStore DEF Boot, Look, LookFails, Wake, DumpFails, List, ListFails, Resume, Crash,
                   Sleep, Pause
<1>2. ClockStep
  BY <1>1, QuietClock
<1>3. CASE Boot \/ Resume
  BY <1>1, <1>2, <1>3 DEF Boot, Resume, At, Process, PacedInv, PromptInv
<1>4. CASE Look
  <2>1. /\ WaitFor \in Nat
        /\ now + WaitFor >= taken + Interval
        /\ store # {} => now + WaitFor <= now \/ now + WaitFor <= NewestOrNone + Interval
    BY WaitForIs DEF PacedInv
  <2>2. loop.pc = "look" /\ loop' = Process("sleep", 0, {}, now + WaitFor) /\ fault' = fault
    BY <1>4 DEF Look, Sleep
  <2>3. loop'.pc = "sleep" /\ loop'.wake = now + WaitFor
    BY <2>2 DEF Process
  <2>4. PacedInv'
    BY <1>1, <2>1, <2>3 DEF PacedInv
  <2>5. PromptInv'
    BY <1>1, <2>1, <2>2, <2>3 DEF PromptInv
  <2> QED BY <1>2, <2>4, <2>5
<1>5. CASE LookFails
  <2>1. loop'.pc = "sleep" /\ loop'.wake = now + Interval /\ fault' = TRUE
    BY <1>5 DEF LookFails, Sleep, Process
  <2> QED BY <1>1, <1>2, <2>1 DEF PacedInv, PromptInv
<1>6. CASE Wake
  <2>1. /\ loop.pc = "sleep" /\ now >= loop.wake /\ fault' = fault
        /\ loop'.pc = "dump" /\ loop'.stamp = now
    BY <1>6 DEF Wake, Process
  <2> QED BY <1>1, <1>2, <2>1 DEF PacedInv, PromptInv
<1>7. CASE DumpFails
  <2>1. loop'.pc = "pause" /\ fault' = TRUE
    BY <1>7 DEF DumpFails, Pause, Process
  <2> QED BY <1>1, <1>2, <2>1 DEF PacedInv, PromptInv
<1>8. CASE List
  <2>1. loop.pc = "list" /\ loop'.pc \in {"look", "delete"} /\ fault' = fault
    BY <1>8 DEF List, At, Process
  <2> QED BY <1>1, <1>2, <2>1 DEF PacedInv, PromptInv
<1>9. CASE ListFails
  <2>1. /\ loop.pc = "list" /\ loop'.pc = "pause" /\ loop'.wake = now + Retry
        /\ fault' = fault
    BY <1>9 DEF ListFails, Pause, Process
  <2> QED BY <1>1, <1>2, <2>1 DEF PacedInv, PromptInv
<1>10. CASE Crash
  <2>1. loop'.pc = "down" /\ (fault' = FALSE => fault = FALSE /\ loop.pc # "dump")
    BY <1>10 DEF Crash, At, Process
  <2> QED BY <1>1, <1>2, <2>1 DEF PacedInv, PromptInv
<1> QED BY <1>3, <1>4, <1>5, <1>6, <1>7, <1>8, <1>9, <1>10

\* The loop stores its dump: a scheduled dump of DumpClock.
LEMMA PutClock ==
  ASSUME ClockInv, BackupsTypeOK', Put
  PROVE  PacedInv' /\ PromptInv' /\ ClockStep
<1> USE ClockTypes DEF ClockInv
<1>1. /\ loop.pc = "dump" /\ loop.stamp \in Stamps /\ store' = store \cup {loop.stamp}
      /\ taken' = loop.stamp /\ now' = now /\ fault' \in BOOLEAN
      /\ \/ loop'.pc = "list" /\ fault' = FALSE
         \/ loop'.pc = "pause" /\ fault' = TRUE
  BY DEF Put, Pause, At, Process, BackupsTypeOK
<1>2. /\ NewestOrNone' = IF loop.stamp > NewestOrNone THEN loop.stamp ELSE NewestOrNone
      /\ store' # {}
  BY <1>1, NewestWith
<1>3. /\ loop.stamp \in (taken + Interval)..now /\ now <= loop.stamp + MaxDump
  BY <1>1 DEF PacedInv
<1>4. PacedInv'
  BY <1>1, <1>2, <1>3 DEF PacedInv
<1>5. PromptInv'
  BY <1>1, <1>2, <1>3 DEF PromptInv
<1>6. Clock!Scheduled
  BY <1>1, <1>2, <1>3 DEF Clock!Scheduled, NewestOrNone
<1> QED BY <1>4, <1>5, <1>6 DEF ClockStep, Clock!Next

\* A prune of either process is no step of DumpClock.
LEMMA PruneClock ==
  ASSUME ClockInv, BackupsTypeOK', Delete \/ HandDelete
  PROVE  PacedInv' /\ PromptInv' /\ ClockStep
<1> USE ClockTypes DEF ClockInv
<1>1. /\ now' = now /\ taken' = taken /\ fault' = fault
      /\ \E k \in Pending : store' \in {store, store \ {k}}
      /\ \/ loop' = loop
         \/ loop.pc = "delete" /\ loop'.pc \in {"look", "delete"}
  BY DEF Delete, HandDelete, Pending, At, Process, BackupsTypeOK
<1>2. NewestOrNone' = NewestOrNone /\ (store # {} => store' # {})
  BY <1>1, NewestWithout
<1>3. PacedInv'
  BY <1>1, <1>2 DEF PacedInv
<1>4. PromptInv'
  BY <1>1, <1>2 DEF PromptInv
<1> QED BY <1>1, <1>2, <1>3, <1>4, QuietClock

\* The command stores its dump, which may or may not be the newest.
LEMMA HandClock ==
  ASSUME ClockInv, BackupsTypeOK', HandStart \/ HandPut \/ HandList \/ HandEnds
  PROVE  PacedInv' /\ PromptInv' /\ ClockStep
<1> USE ClockTypes DEF ClockInv
<1>1. now' = now /\ taken' = taken /\ fault' = fault /\ loop' = loop
  BY DEF HandStart, HandPut, HandList, HandEnds
<1>2. NewestOrNone' >= NewestOrNone /\ NewestOrNone' \in Nat /\ (store # {} => store' # {})
  <2>1. CASE store' = store
    BY <2>1, SameStore
  <2>2. CASE HandPut
    <3>1. hand.stamp \in Stamps /\ store' = store \cup {hand.stamp}
      BY <2>2 DEF HandPut, BackupsTypeOK
    <3> QED BY <3>1, NewestWith
  <2> QED BY <2>1, <2>2 DEF HandStart, HandList, HandEnds
<1>3. PacedInv'
  BY <1>1, <1>2 DEF PacedInv
<1>4. PromptInv'
  BY <1>1, <1>2 DEF PromptInv
<1>5. CASE NewestOrNone' = NewestOrNone
  BY <1>1, <1>3, <1>4, <1>5, QuietClock
<1>6. CASE NewestOrNone' # NewestOrNone
  <2>1. NewestOrNone' \in Nat /\ NewestOrNone' > NewestOrNone
    BY <1>2, <1>6
  <2>2. Clock!ByHand
    BY <1>1, <2>1 DEF Clock!ByHand, NewestOrNone
  <2> QED BY <1>3, <1>4, <2>2 DEF ClockStep, Clock!Next
<1> QED BY <1>5, <1>6

\* Time passes only as far as DumpClock allows.
LEMMA TickClock ==
  ASSUME ClockInv, BackupsTypeOK', Tick
  PROVE  PacedInv' /\ PromptInv' /\ ClockStep
<1> USE ClockTypes DEF ClockInv
<1>1. /\ Resting /\ now' = now + 1 /\ fault' = (fault \/ loop.pc = "down")
      /\ store' = store /\ loop' = loop /\ taken' = taken
      /\ NewestOrNone' = NewestOrNone
  BY SameStore DEF Tick
<1>2. fault' \in {fault, TRUE} /\ (fault' = FALSE => fault = FALSE /\ loop.pc # "down")
  BY <1>1
<1>3. fault' = FALSE => now - NewestOrNone < Interval + MaxDump
  BY <1>1, <1>2 DEF Resting, PromptInv
<1>4. PacedInv'
  BY <1>1 DEF PacedInv, Resting
<1>5. PromptInv'
  BY <1>1, <1>2 DEF PromptInv, Resting
<1>6. Clock!Pass
  BY <1>1, <1>2, <1>3 DEF Clock!Pass, NewestOrNone
<1> QED BY <1>4, <1>5, <1>6 DEF ClockStep, Clock!Next

\* Every step keeps the invariant, and is a step of DumpClock or none.
LEMMA StepClock ==
  ASSUME ClockInv, [Next]_vars
  PROVE  ClockInv' /\ ClockStep
<1>1. BackupsTypeOK' /\ PruneInv'
  BY StepType, StepPrune DEF ClockInv
<1>2. CASE Boot \/ Look \/ LookFails \/ Wake \/ DumpFails \/ List \/ ListFails \/ Resume \/ Crash
  BY <1>1, <1>2, LoopClock DEF ClockInv
<1>3. CASE Put
  BY <1>1, <1>3, PutClock DEF ClockInv
<1>4. CASE Delete \/ HandDelete
  BY <1>1, <1>4, PruneClock DEF ClockInv
<1>5. CASE HandStart \/ HandPut \/ HandList \/ HandEnds
  BY <1>1, <1>5, HandClock DEF ClockInv
<1>6. CASE Tick
  BY <1>1, <1>6, TickClock DEF ClockInv
<1>7. CASE UNCHANGED vars
  <2>1. NewestOrNone' = NewestOrNone
    BY <1>7, SameStore DEF vars
  <2>2. ClockStep
    BY <1>7, <2>1, QuietClock DEF vars
  <2>3. PacedInv' /\ PromptInv'
    BY <1>7, <2>1 DEF vars, ClockInv, PacedInv, PromptInv
  <2> QED BY <1>1, <2>2, <2>3 DEF ClockInv
<1> QED BY <1>2, <1>3, <1>4, <1>5, <1>6, <1>7 DEF Next, LoopStep, HandStep

\* The invariant holds at the start, and the start is DumpClock's.
LEMMA InitClock == Init => ClockInv /\ Clock!Init
<1> SUFFICES ASSUME Init PROVE ClockInv /\ Clock!Init
  OBVIOUS
<1>1. BackupsTypeOK /\ PruneInv
  BY InitType DEF Init, At, Process, PruneInv
<1>2. PacedInv /\ PromptInv
  BY BackupsAssumption DEF Init, At, Process, PacedInv, PromptInv, NewestOrNone
<1>3. Clock!Init
  BY DEF Init, Clock!Init
<1> QED BY <1>1, <1>2, <1>3 DEF ClockInv

\* Backups implements DumpClock: dumps are an interval apart through any number
\* of restarts, and the newest gets no older than an interval and a dump without
\* a failure to show for it (backup_interval, wait_for).
THEOREM LoopKeepsTime == Spec => KeepsTime
<1>1. ClockInv /\ [Next]_vars => ClockInv' /\ [Clock!Next]_(Clock!vars)
  BY StepClock DEF ClockStep
<1> QED BY <1>1, InitClock, PTL DEF Spec, KeepsTime, Clock!Spec

-----------------------------------------------------------------------------
(* The serve process.                                                       *)

\* What a tick posts about a run is one of the messages.
LEMMA MessageType ==
  Message(result) \in {"none", "stalled", "ok", "reasons"}
BY DEF Message

\* Every step of the process is a step of Backups or leaves all of it alone.
LEMMA ServeIsBackups ==
  ASSUME [ServeNext]_serveVars PROVE [Next]_vars
<1>1. CASE ServeBoot
  BY <1>1 DEF ServeBoot, Next
<1>2. CASE ServeCrash
  BY <1>2 DEF ServeCrash, Next
<1>3. CASE BackupStep
  BY <1>3 DEF BackupStep, Next
<1>4. CASE TickStep \/ FeedStalls \/ HistoryRead \/ UNCHANGED serveVars
  BY <1>4 DEF TickStep, StartTick, ConnectSource, ConnectFails, RunCloses, RunSkipped,
              RunDies, Signal, FeedStalls, HistoryRead, serveVars
<1> QED BY <1>1, <1>2, <1>3, <1>4 DEF ServeNext

\* No step of the loop, of the command or of the clock brings the loop up or
\* down: only the process does.
LEMMA LoopStaysUp ==
  ASSUME BackupsTypeOK, LoopStep \/ HandStep \/ Tick
  PROVE  loop.pc = "down" <=> loop'.pc = "down"
<1>1. CASE Look \/ LookFails \/ Wake \/ DumpFails \/ Put \/ List \/ ListFails \/ Resume
  BY <1>1 DEF Look, LookFails, Wake, DumpFails, Put, List, ListFails, Resume,
              Sleep, Pause, At, Process
<1>2. CASE Delete
  <2>1. PICK k \in loop.stale :
          loop' = IF loop.stale = {k} THEN At("look")
                  ELSE [loop EXCEPT !.stale = @ \ {k}]
    BY <1>2 DEF Delete
  <2> QED BY <1>2, <2>1 DEF Delete, At, Process, BackupsTypeOK
<1>3. CASE HandStep \/ Tick
  BY <1>3 DEF HandStep, HandStart, HandPut, HandList, HandDelete, HandEnds, Tick
<1> QED BY <1>1, <1>2, <1>3 DEF LoopStep

LEMMA ServeInitType == ServeInit => TypeOK
<1> SUFFICES ASSUME ServeInit PROVE TypeOK
  OBVIOUS
<1>1. BackupsTypeOK
  BY InitType DEF ServeInit
<1>2. loop.pc = "down"
  BY DEF ServeInit, Init, At, Process
<1>3. Nothing \in Closed
  BY DEF Nothing, Closed
<1> QED BY <1>1, <1>2, <1>3 DEF ServeInit, TypeOK

\* Every step keeps the types, and the two loops together.
LEMMA ServeStepType ==
  ASSUME TypeOK, [ServeNext]_serveVars PROVE TypeOK'
<1> USE DEF TypeOK
<1>1. BackupsTypeOK'
  BY ServeIsBackups, StepType
<1>2. CASE ServeBoot
  BY <1>1, <1>2 DEF ServeBoot, Boot, At, Process
<1>3. CASE ServeCrash
  BY <1>1, <1>3 DEF ServeCrash, Crash, At, Process, Nothing, Closed
<1>4. CASE BackupStep
  BY <1>1, <1>4, LoopStaysUp DEF BackupStep, signals
<1>5. CASE StartTick \/ ConnectSource \/ ConnectFails \/ RunSkipped \/ RunDies
  BY <1>1, <1>5 DEF StartTick, ConnectSource, ConnectFails, RunSkipped, RunDies, vars
<1>6. CASE RunCloses
  BY <1>1, <1>6 DEF RunCloses, vars
<1>7. CASE Signal
  BY <1>1, <1>7, MessageType DEF Signal, vars, Nothing, Closed
<1>8. CASE FeedStalls \/ HistoryRead
  BY <1>1, <1>8 DEF FeedStalls, HistoryRead, vars
<1>9. CASE UNCHANGED serveVars
  BY <1>1, <1>9 DEF serveVars, signals, vars
<1> QED BY <1>2, <1>3, <1>4, <1>5, <1>6, <1>7, <1>8, <1>9 DEF ServeNext, TickStep

\* The backup loop and the interval task live and die together, and what the
\* process signals is always one of the messages (serve, ingest_interval).
THEOREM ServeTypes == ServeSpec => []TypeOK
BY ServeInitType, ServeStepType, PTL DEF ServeSpec

\* The process, with its runs, signals and restarts, is a system of Backups.
THEOREM ServeImplementsBackups == ServeSpec => Spec
<1>1. ServeInit => Init
  BY DEF ServeInit
<1>2. [ServeNext]_serveVars => [Next]_vars
  BY ServeIsBackups
<1> QED BY <1>1, <1>2, PTL DEF ServeSpec, Spec

\* In the serve process too a prune never costs a dump that is to be kept.
THEOREM ServeKeepsNewest == ServeSpec => NewestDumpsKept
BY ServeImplementsBackups, NewestAreKept, PTL

\* In the serve process too dumps are an interval apart, and the newest gets
\* no older than an interval and a dump without a failure to show for it.
THEOREM ServeKeepsTime == ServeSpec => KeepsTime
BY ServeImplementsBackups, LoopKeepsTime, PTL

=============================================================================

-------------------------- MODULE SlowStepsProofs --------------------------
(* Theorems of SlowSteps: a slow step marks itself done only when it got    *)
(* all the way through, and a run that ends ok finished what it began.      *)
EXTENDS SlowSteps, FiniteSetTheorems, WellFoundedInduction, TLAPS

\* Where the kind in hand points, and whose cards a page holds.
PlaceInv ==
  /\ pc \in WalkPc \cup MetaPc => run.kind = 0
  /\ pc \in {"ref", "ref_fetch", "ref_parse"} => run.kind \in 1..Len(RefKinds)
  /\ pc \in WalkPc => run.step \in {"discovery_ran", "new_assets_ran"}
  /\ pc \in RefPc => run.step = "reference_ran"
  /\ pc = "walk_parse" => run.chunk \subseteq released

\* A card the walk owes is known, or is in the page in hand, or on a page that
\* is still to come: the page in hand, and from there the one it names.
Beyond(c, pages) ==
  c \in Listed(run.after) /\ Position(c, Listed(run.after)) > pages * PageSize

WalkInv ==
  run.complete =>
    /\ pc \in {"walk", "walk_fetch"} =>
         run.page > 0 /\ \A c \in run.owed \ known : Beyond(c, run.page - 1)
    /\ pc = "walk_parse" =>
         \A c \in run.owed \ (known \cup run.chunk) :
           run.next # 0 /\ Beyond(c, run.next - 1)
    /\ pc = "walk_done" => run.owed \subseteq known

\* Every page before the one in hand was parsed or passed over, and so are
\* those that the page in hand passes over.
Accounted(k, p) ==
  [step |-> "reference_ran", kind |-> k, page |-> p] \in run.parsed \cup run.passed
RefInv ==
  pc \in RefPc /\ run.complete =>
    /\ \A k \in 1..Len(RefKinds), p \in 1..RefPages :
         k < run.kind \/ (k = run.kind /\ p < run.page) => Accounted(k, p)
    /\ pc = "ref_parse" =>
         \A p \in 1..RefPages :
           p > run.page /\ (run.next = 0 \/ p < run.next) => Accounted(run.kind, p)
    /\ pc = "ref_done" => run.kind > Len(RefKinds)

\* A run that is not degraded has finished what it began, but for the step it
\* is in, which is complete so far.
InStep == IF pc \in WalkPc \cup RefPc THEN {run.step} ELSE {}
BegunInv ==
  /\ pc # "idle" => run.status = "running"
  /\ pc # "idle" /\ ~run.degraded =>
       /\ run.begun \ {"metadata_ran"} \subseteq run.flags \cup InStep
       /\ InStep # {} => run.complete

IInv == TypeOK /\ PlaceInv /\ WalkInv /\ RefInv /\ BegunInv /\ OkMeansWalked

\* The statements of the action properties about one step.
WalkWholeStep ==
  \A s \in {"discovery_ran", "new_assets_ran"} :
    s \in run'.flags \ run.flags => run.owed \subseteq known
ReferenceWholeStep ==
  "reference_ran" \in run'.flags \ run.flags =>
    \A k \in 1..Len(RefKinds), p \in 1..RefPages :
      [step |-> "reference_ran", kind |-> k, page |-> p] \in run.parsed \cup run.passed
MetadataDoneStep ==
  "metadata_ran" \in run'.flags \ run.flags =>
    NeedingMetadata(known, seenAge) = {} \/ (pc = "metadata" /\ left = 0)

-----------------------------------------------------------------------------
(* The operators.                                                           *)

\* What the constants are.
LEMMA NatAssumption ==
  /\ Card \subseteq Nat \ {0} /\ IsFiniteSet(Card) /\ FirstCards \subseteq Card
  /\ PageSize \in Nat /\ PageSize > 0 /\ MetaBatch \in Nat /\ MetaBatch > 0
  /\ Len(RefKinds) \in Nat /\ RefPages \in Nat /\ RefPages > 0
  /\ MaxPages \in Nat /\ DailyBudget \in Nat
  /\ Cadence \in [Step -> Nat] /\ MetadataCadence \in Nat
  /\ Stale \in Nat /\ Never = Stale + 1
<1>1. Cadence \in [Step -> Nat]
  <2>1. /\ DiscoveryCadence \in Nat /\ NewAssetsCadence \in Nat
        /\ MetadataCadence \in Nat /\ ReferenceCadence \in Nat
    BY CardAssumption
  <2>2. ASSUME NEW s \in Step PROVE Cadence[s] \in Nat
    BY <2>1 DEF Step, Cadence
  <2> QED BY <2>2 DEF Cadence
<1> QED BY <1>1, CardAssumption DEF Stale, Never

\* A finite set of numbers has a largest.
LEMMA LargestExists ==
  ASSUME NEW S \in SUBSET Nat, IsFiniteSet(S), S # {}
  PROVE  \E k \in S : \A j \in S : k >= j
<1> DEFINE Above(k) == {j \in S : j > k}
           T == {Above(k) : k \in S}
<1>1. T \subseteq FiniteSubsetsOf(S) /\ T # {}
  <2>1. T # {}
    OBVIOUS
  <2>2. T \subseteq FiniteSubsetsOf(S)
    BY FS_Subset DEF FiniteSubsetsOf
  <2> QED BY <2>1, <2>2
<1> HIDE DEF T
<1>2. PICK x \in T : \A y \in T : ~ (<<y, x>> \in StrictSubsetOrdering(S))
  BY <1>1, FS_StrictSubsetOrderingWellFounded, WFMin
<1>3. PICK k \in S : x = Above(k)
  BY <1>2 DEF T
<1>4. SUFFICES ASSUME NEW j \in S, ~ (k >= j) PROVE FALSE
  BY <1>3
<1>5. j \in Nat /\ k \in Nat /\ j > k
  BY <1>4
<1>6. Above(j) \in T /\ Above(j) \subseteq Above(k) /\ j \in Above(k) /\ j \notin Above(j)
  <2>1. Above(j) \in T
    BY DEF T
  <2>2. \A i \in S : i > j => i > k
    <3>1. S \subseteq Nat
      OBVIOUS
    <3> QED BY <1>5, <3>1
  <2>3. j \in Above(k) /\ j \notin Above(j)
    BY <1>5
  <2>4. Above(j) \subseteq Above(k)
    BY <2>2
  <2> QED BY <2>1, <2>3, <2>4
<1>7. <<Above(j), x>> \in StrictSubsetOrdering(S)
  BY <1>1, <1>2, <1>3, <1>6 DEF StrictSubsetOrdering, FiniteSubsetsOf
<1> QED BY <1>2, <1>6, <1>7

\* The watermark is a number.
LEMMA WatermarkType ==
  ASSUME known \subseteq Card PROVE Watermark \in Nat
<1>1. IsFiniteSet(known) /\ known \in SUBSET Nat
  BY NatAssumption, FS_Subset
<1>2. CASE known = {}
  BY <1>2 DEF Watermark
<1>3. CASE known # {}
  <2>1. \E k \in known : \A j \in known : k >= j
    BY <1>1, <1>3, LargestExists
  <2>2. Max(known) \in known
    BY <2>1 DEF Max
  <2> QED BY <1>1, <1>3, <2>2 DEF Watermark
<1> QED BY <1>2, <1>3

\* The places in a list are numbered up to its length.
LEMMA PositionIs ==
  ASSUME NEW list \in SUBSET Card, NEW c \in list
  PROVE  /\ Position(c, list) \in Nat /\ Cardinality(list) \in Nat
         /\ 0 < Position(c, list) /\ Position(c, list) <= Cardinality(list)
<1> DEFINE S == {d \in list : d <= c}
<1>1. IsFiniteSet(list) /\ S \in SUBSET list /\ c \in S
  <2>1. IsFiniteSet(list)
    BY NatAssumption, FS_Subset
  <2>2. c \in Nat
    BY NatAssumption
  <2> QED BY <2>1, <2>2
<1>2. IsFiniteSet(S) /\ Cardinality(S) <= Cardinality(list)
  BY <1>1, FS_Subset
<1>3. Cardinality(S) \in Nat /\ Cardinality(list) \in Nat /\ Cardinality(S) # 0
  BY <1>1, <1>2, FS_CardinalityType, FS_EmptySet
<1> QED BY <1>2, <1>3 DEF Position

\* A card that is released pushes others on, and none back.
LEMMA PositionGrows ==
  ASSUME NEW list \in SUBSET Card, NEW longer \in SUBSET Card, list \subseteq longer,
         NEW c \in list
  PROVE  Position(c, list) <= Position(c, longer)
<1> DEFINE S == {d \in list : d <= c}
           T == {d \in longer : d <= c}
<1>1. IsFiniteSet(T)
  BY NatAssumption, FS_Subset
<1>2. S \in SUBSET T
  OBVIOUS
<1> QED BY <1>1, <1>2, FS_Subset DEF Position

\* A card on a page to come that the answer to that page does not leave out is
\* in it, or on a page that the answer still has come.
LEMMA GivenOrBeyond ==
  ASSUME TypeOK, NEW page \in Nat, page > 0, NEW next \in Nat, NEW cards,
         NEW c, Beyond(c, page - 1), c \notin LeftOut(Listed(run.after), page, cards, next)
  PROVE  c \in cards \/ (next # 0 /\ Beyond(c, next - 1))
<1> DEFINE list == Listed(run.after)
           place == Position(c, list)
<1>1. list \in SUBSET Card /\ c \in list /\ place > (page - 1) * PageSize
  BY DEF Listed, Beyond, TypeOK
<1>2. place \in Nat
  BY <1>1, PositionIs
<1>3. page * PageSize \in Nat
  BY NatAssumption
<1>4. CASE place <= page * PageSize
  BY <1>1, <1>4 DEF PageOf, LeftOut
<1>5. CASE place > page * PageSize
  <2>1. next # 0 /\ ~ (place <= (next - 1) * PageSize)
    BY <1>1, <1>5 DEF LeftOut
  <2>2. next - 1 \in Nat
    BY <2>1
  <2>3. (next - 1) * PageSize \in Nat
    BY <2>2, NatAssumption
  <2>4. place > (next - 1) * PageSize
    BY <1>2, <2>1, <2>3
  <2> QED BY <1>1, <2>1, <2>4 DEF Beyond
<1> QED BY <1>2, <1>3, <1>4, <1>5

\* The pages that an answer may name are numbers, and so is the one it should.
LEMMA NextType ==
  ASSUME TypeOK
  PROVE  /\ Named \subseteq Nat
         /\ NextOf(Listed(run.after), run.page) \in Nat /\ NextOfList(run.page) \in Nat
<1>1. run.page + 1 \in Nat
  BY DEF TypeOK, RunState
<1>2. Named \subseteq Nat
  BY NatAssumption DEF Named
<1> QED BY <1>1, <1>2 DEF NextOf, NextOfList

\* Beyond a page stays beyond it, whatever is released.
LEMMA StaysBeyond ==
  ASSUME TypeOK, TypeOK', released \subseteq released', run'.after = run.after,
         NEW c, NEW pages \in Nat, Beyond(c, pages)
  PROVE  Beyond(c, pages)'
<1> DEFINE list == Listed(run.after)
           longer == {d \in released' : d > run.after}
<1>1. list \in SUBSET Card /\ c \in list /\ Position(c, list) > pages * PageSize
  BY DEF Listed, Beyond, TypeOK
<1>2. longer \in SUBSET Card /\ list \subseteq longer
  BY DEF Listed, TypeOK
<1> HIDE DEF list, longer
<1>3. Position(c, list) <= Position(c, longer)
  BY <1>1, <1>2, PositionGrows
<1>4. Position(c, list) \in Nat /\ Position(c, longer) \in Nat
  BY <1>1, <1>2, PositionIs
<1>5. pages * PageSize \in Nat
  BY NatAssumption
<1>6. Position(c, longer) > pages * PageSize
  BY <1>1, <1>3, <1>4, <1>5
<1>7. Listed(run.after)' = longer
  BY DEF Listed, longer
<1> QED BY <1>1, <1>2, <1>6, <1>7 DEF Beyond, Position

-----------------------------------------------------------------------------
(* Types.                                                                   *)

\* The answers a run takes in hand.
LEMMA InHandType ==
  ASSUME TypeOK, PlaceInv, pc \in WalkPc \cup MetaPc \cup {"ref", "ref_fetch", "ref_parse"}
  PROVE  InHand \in Answer
<1>1. run.kind \in 0..Len(RefKinds)
  BY NatAssumption DEF PlaceInv
<1>2. run.step \in Step /\ run.page \in Nat
  BY DEF TypeOK, RunState
<1> QED BY <1>1, <1>2 DEF InHand, Answer

LEMMA PutType ==
  ASSUME TypeOK, InHand \in Answer, NEW kind
  PROVE  Put(kind) \in SUBSET Object
<1>1. run.archive \in SUBSET Object /\ run.page \in Nat
  BY DEF TypeOK, RunState
<1>2. Prefix(kind) \in {"assets", "metadata"}
  BY DEF Prefix
<1> QED BY <1>1, <1>2 DEF Put, Object

LEMMA ApplyType ==
  ASSUME TypeOK, NEW cards PROVE ApplyAttributes(cards) \in [Card -> 0..Never]
<1>1. seenAge \in [Card -> 0..Never] /\ 0 \in 0..Never
  BY NatAssumption DEF TypeOK
<1> QED BY <1>1 DEF ApplyAttributes

LEMMA FreshType ==
  ASSUME TypeOK PROVE FreshRun \in RunState
<1>1. stepAge \in [Step -> Nat]
  BY DEF TypeOK
<1> QED BY <1>1 DEF FreshRun, RunState, Status, Step

LEMMA EndedType ==
  ASSUME TypeOK, NEW status \in Status PROVE EndedRun(status) \in RunState
<1>1. run.begun \in SUBSET Step /\ run.flags \in SUBSET Step
  BY DEF TypeOK, RunState
<1>2. Cadence \in [Step -> Nat]
  BY NatAssumption
<1>3. FreshRun \in RunState
  BY FreshType
<1> QED BY <1>1, <1>2, <1>3 DEF EndedRun, RunState

LEMMA InitTypes == Init => TypeOK
<1> SUFFICES ASSUME Init PROVE TypeOK
  OBVIOUS
<1>1. seenAge \in [Card -> 0..Never]
  BY NatAssumption DEF Init
<1>2. stepAge = Cadence /\ Cadence \in [Step -> Nat]
  BY NatAssumption DEF Init
<1>3. run \in RunState
  BY <1>2 DEF Init, FreshRun, RunState, Status, Step
<1> QED BY <1>1, <1>2, <1>3, NatAssumption DEF Init, TypeOK, Pc

\* A flag is recorded.
LEMMA RecordType ==
  ASSUME TypeOK, NEW s \in Step, NEW r \in RunState, RecordStep(s, r)
  PROVE  run' \in RunState /\ stepAge' \in [Step -> Nat]
<1>1. stepAge \in [Step -> Nat]
  BY DEF TypeOK
<1>2. r.flags \cup {s} \in SUBSET Step
  BY DEF RunState
<1>3. run' \in RunState
  BY <1>2 DEF RecordStep, RunState
<1> QED BY <1>1, <1>3 DEF RecordStep

\* A run without the locals of a step is a run.
LEMMA StepEndedIs ==
  ASSUME NEW r \in RunState
  PROVE  /\ StepEnded(r) \in RunState /\ StepEnded(r).status = r.status
         /\ StepEnded(r).begun = r.begun /\ StepEnded(r).flags = r.flags
         /\ StepEnded(r).degraded = r.degraded
<1>1. /\ 0 \in Nat /\ {} \in SUBSET Card /\ TRUE \in BOOLEAN
      /\ 0 \in Nat
  OBVIOUS
<1>2. StepEnded(r) \in RunState
  BY ONLY <1>1, r \in RunState, Zenon DEF StepEnded, RunState
<1> QED BY ONLY <1>2, r \in RunState DEF StepEnded, RunState

LEMMA EndStepType ==
  ASSUME TypeOK, NEW s \in Step, NEW done, EndStep(s, done)
  PROVE  run' \in RunState /\ stepAge' \in [Step -> Nat]
<1>1. StepEnded(run) \in RunState /\ stepAge \in [Step -> Nat]
  BY StepEndedIs DEF TypeOK
<1>2. CASE RecordStep(s, StepEnded(run))
  BY <1>1, <1>2, RecordType
<1>3. CASE run' = StepEnded(run) /\ stepAge' = stepAge
  BY <1>1, <1>3
<1> QED BY <1>2, <1>3 DEF EndStep

\* A request is taken from what is left.
LEMMA TakeType ==
  ASSUME TypeOK, Take PROVE left' \in 0..DailyBudget
BY NatAssumption DEF TypeOK, Take

\* A step that stops short leaves a run.
LEMMA ShortType ==
  ASSUME NEW r \in RunState, NEW to, StopShort(r, to) PROVE run' \in RunState /\ pc' = to
BY DEF StopShort, RunState

\* An answer is received.
LEMMA ReceivedPage ==
  ASSUME TypeOK, InHand \in Answer, NEW cards \in SUBSET Card, NEW next \in Nat,
         ReceivePage(cards, next)
  PROVE  /\ run' \in RunState
         /\ run'.status = run.status /\ run'.degraded = run.degraded
         /\ run'.flags = run.flags /\ run'.begun = run.begun
         /\ run'.kind = run.kind /\ run'.step = run.step /\ run'.page = run.page
         /\ run'.complete = run.complete /\ run'.after = run.after
         /\ run'.chunk = cards /\ run'.next = next
         /\ run'.owed = run.owed \ LeftOut(Listed(run.after), run.page, cards, next)
<1>1. Put("AssetList") \in SUBSET Object
  BY PutType
<1> DEFINE archive == Put("AssetList")
           pages == run.pages + 1
           owed == run.owed \ LeftOut(Listed(run.after), run.page, cards, next)
<1>2. /\ run \in RunState
      /\ run' = [run EXCEPT !.pages = pages, !.archive = archive, !.chunk = cards,
                            !.next = next, !.owed = owed]
  BY DEF ReceivePage, TypeOK
<1>3. archive \in SUBSET Object /\ pages \in Nat /\ owed \in SUBSET Card
  BY <1>1, <1>2 DEF RunState
<1> HIDE DEF archive, pages, owed
<1>4. run' \in RunState
  BY ONLY <1>2, <1>3, cards \in SUBSET Card, next \in Nat, Zenon DEF RunState
<1>5. /\ run'.status = run.status /\ run'.degraded = run.degraded
      /\ run'.flags = run.flags /\ run'.begun = run.begun
      /\ run'.kind = run.kind /\ run'.step = run.step /\ run'.page = run.page
      /\ run'.complete = run.complete /\ run'.after = run.after
      /\ run'.chunk = cards /\ run'.next = next /\ run'.owed = owed
  BY ONLY <1>2 DEF RunState
<1> QED BY <1>4, <1>5 DEF owed

LEMMA ReceivedList ==
  ASSUME TypeOK, InHand \in Answer, NEW next \in Nat, ReceiveList(next)
  PROVE  /\ run' \in RunState
         /\ run'.status = run.status /\ run'.degraded = run.degraded
         /\ run'.flags = run.flags /\ run'.begun = run.begun
         /\ run'.kind = run.kind /\ run'.step = run.step /\ run'.page = run.page
         /\ run'.complete = run.complete /\ run'.parsed = run.parsed
         /\ run'.next = next /\ run'.passed = run.passed \cup PassedOver(next)
<1>1. Put("AssetList") \in SUBSET Object
  BY PutType
<1>2. PassedOver(next) \in SUBSET Answer
  <2>1. ASSUME NEW p \in 1..RefPages PROVE [InHand EXCEPT !.page = p] \in Answer
    <3>1. p \in Nat
      BY NatAssumption
    <3> QED BY <3>1 DEF Answer
  <2> QED BY <2>1 DEF PassedOver
<1> DEFINE archive == Put("AssetList")
           pages == run.pages + 1
           passed == run.passed \cup PassedOver(next)
<1>3. /\ run \in RunState
      /\ run' = [run EXCEPT !.pages = pages, !.archive = archive, !.next = next,
                            !.passed = passed]
  BY DEF ReceiveList, TypeOK
<1>4. archive \in SUBSET Object /\ pages \in Nat /\ passed \in SUBSET Answer
  BY <1>1, <1>2, <1>3 DEF RunState
<1> HIDE DEF archive, pages, passed
<1>5. run' \in RunState
  BY ONLY <1>3, <1>4, next \in Nat, Zenon DEF RunState
<1>6. /\ run'.status = run.status /\ run'.degraded = run.degraded
      /\ run'.flags = run.flags /\ run'.begun = run.begun
      /\ run'.kind = run.kind /\ run'.step = run.step /\ run'.page = run.page
      /\ run'.complete = run.complete /\ run'.parsed = run.parsed
      /\ run'.next = next /\ run'.passed = passed
  BY ONLY <1>3 DEF RunState
<1> QED BY <1>5, <1>6 DEF passed

\* The walk goes where the page in hand says.
LEMMA NextPageIs ==
  ASSUME TypeOK, NEW r \in RunState, NextPage(r)
  PROVE  /\ run' \in RunState /\ pc' \in {"walk", "walk_done"}
         /\ run'.status = r.status /\ run'.begun = r.begun /\ run'.flags = r.flags
         /\ run'.kind = r.kind /\ run'.step = r.step
         /\ run'.after = r.after /\ run'.owed = r.owed
         /\ \/ /\ run'.degraded = r.degraded /\ run'.complete = r.complete
               /\ \/ pc' = "walk" /\ run.next > run.page /\ run'.page = run.next
                  \/ pc' = "walk_done" /\ run.next = 0
            \/ run'.degraded = TRUE /\ run'.complete = FALSE /\ pc' = "walk_done"
<1>1. run.next \in Nat
  BY DEF TypeOK, RunState
<1>2. CASE run.next > run.page /\ run' = [r EXCEPT !.page = run.next] /\ pc' = "walk"
  BY ONLY <1>1, <1>2, r \in RunState DEF RunState
<1>3. CASE run.next = 0 /\ run' = r /\ pc' = "walk_done"
  BY <1>3
<1>4. CASE StopShort(r, "walk_done")
  BY ONLY <1>4, r \in RunState DEF StopShort, RunState
<1> QED BY <1>2, <1>3, <1>4 DEF NextPage

\* The steps of a walk.
LEMMA WalkTypes ==
  ASSUME TypeOK, PlaceInv,
         \/ MaybeDiscover \/ MaybeDiscoverNew \/ WalkTake \/ WalkFetch \/ WalkParse \/ WalkDone
         \/ WalkFetchFails \/ WalkFetchMisleads \/ WalkParseFails
  PROVE  TypeOK'
<1> USE DEF TypeOK
<1>1. Watermark \in Nat
  <2>1. known \subseteq Card
    OBVIOUS
  <2> QED BY <2>1, WatermarkType
<1>2. Listed(run.after) \in SUBSET Card /\ Listed(run.after) \subseteq released
  BY DEF Listed
<1>3. ASSUME NEW s \in Step, NEW after \in Nat, BeginWalk(s, after)
      PROVE  run' \in RunState /\ pc' \in Pc
  <2>1. Listed(after) \in SUBSET Card
    BY DEF Listed
  <2> QED BY <1>3, <2>1 DEF BeginWalk, RunState, Pc, WalkPc
<1>4. CASE MaybeDiscover
  BY <1>3, <1>4 DEF MaybeDiscover, Step, Pc
<1>5. CASE MaybeDiscoverNew
  BY <1>1, <1>3, <1>5 DEF MaybeDiscoverNew, Step, Pc
<1>6. CASE WalkTake \/ WalkFetchFails
  <2>1. run' \in RunState /\ pc' \in Pc
    <3>1. \/ StopShort(run, "walk_done")
          \/ run' = run /\ pc' = "walk_fetch"
      BY <1>6 DEF WalkTake, WalkFetchFails
    <3> QED BY <3>1, ShortType DEF Pc, WalkPc
  <2>2. left' \in 0..DailyBudget
    BY <1>6, NatAssumption DEF WalkTake, WalkFetchFails, Take
  <2> QED BY <1>6, <2>1, <2>2 DEF WalkTake, WalkFetchFails
<1>7. CASE WalkFetch \/ WalkFetchMisleads
  <2>1. InHand \in Answer
    BY <1>7, InHandType DEF WalkFetch, WalkFetchMisleads, WalkPc
  <2>2. PageOf(Listed(run.after), run.page) \in SUBSET Card
    BY <1>2 DEF PageOf
  <2>3. \E cards \in SUBSET Card, next \in Nat : ReceivePage(cards, next)
    BY <1>7, <2>2, NextType DEF WalkFetch, WalkFetchMisleads
  <2>4. run' \in RunState
    BY <2>1, <2>3, ReceivedPage
  <2> QED BY <1>7, <2>4 DEF WalkFetch, WalkFetchMisleads, Pc, WalkPc
<1>8. CASE WalkParse \/ WalkParseFails
  <2>1. pc = "walk_parse" /\ InHand \in Answer
    BY <1>8, InHandType DEF WalkParse, WalkParseFails, WalkPc
  <2>2. Parsed \in RunState
    BY <2>1 DEF Parsed, RunState
  <2>3. run' \in RunState /\ pc' \in {"walk", "walk_done"}
    <3>1. CASE WalkParse
      <4>1. [Parsed EXCEPT !.degraded = @ \/ run.chunk \cap repointed # {}] \in RunState
        BY ONLY <2>2 DEF RunState
      <4> QED BY <3>1, <4>1, NextPageIs DEF WalkParse
    <3>2. CASE WalkParseFails
      <4>1. [Parsed EXCEPT !.degraded = TRUE, !.complete = FALSE] \in RunState
        BY ONLY <2>2 DEF RunState
      <4>2. CASE StopShort(run, "walk_done")
        BY <4>2, ShortType
      <4> QED BY <3>2, <4>1, <4>2, NextPageIs DEF WalkParseFails
    <3> QED BY <1>8, <3>1, <3>2
  <2>4. pc' \in Pc
    BY <2>3 DEF Pc, WalkPc
  <2>5. known' \in {known, known \cup run.chunk} /\ run.chunk \subseteq released
    BY <1>8, <2>1 DEF WalkParse, WalkParseFails, PlaceInv
  <2>6. seenAge' \in [Card -> 0..Never]
    BY <1>8, ApplyType DEF WalkParse, WalkParseFails
  <2> QED BY <1>8, <2>3, <2>4, <2>5, <2>6 DEF WalkParse, WalkParseFails
<1>9. CASE WalkDone
  <2>1. run.step \in Step /\ AfterWalk \in Pc
    BY DEF RunState, AfterWalk, Pc
  <2> QED BY <1>9, <2>1, EndStepType DEF WalkDone
<1> QED BY <1>4, <1>5, <1>6, <1>7, <1>8, <1>9

\* The steps of the metadata.
LEMMA MetaTypes ==
  ASSUME TypeOK, PlaceInv,
         \/ MaybeRefreshMetadata \/ MetaTake \/ MetaFetch \/ MetaParse \/ MetaDone
         \/ MetaFetchFails \/ MetaParseFails
  PROVE  TypeOK'
<1> USE DEF TypeOK
<1>1. CASE MaybeRefreshMetadata
  <2>1. CASE ~IsDue("metadata_ran")
    BY <1>1, <2>1 DEF MaybeRefreshMetadata, Pc
  <2>2. CASE IsDue("metadata_ran")
    <3>1. PICK stale \in StaleCards :
            LET r == [run EXCEPT !.begun = @ \cup {"metadata_ran"},
                        !.step = "metadata_ran", !.kind = 0, !.complete = TRUE,
                        !.todo = stale, !.asked = 0] IN
            IF stale = {} THEN RecordStep("metadata_ran", r) /\ pc' = "reference"
                          ELSE run' = r /\ stepAge' = stepAge /\ pc' = "meta"
      BY <1>1, <2>2 DEF MaybeRefreshMetadata
    <3> DEFINE r == [run EXCEPT !.begun = @ \cup {"metadata_ran"},
                       !.step = "metadata_ran", !.kind = 0, !.complete = TRUE,
                       !.todo = stale, !.asked = 0]
    <3>2. stale \in SUBSET Card
      BY DEF StaleCards, Oldest, NeedingMetadata
    <3>3. r \in RunState
      BY <3>2 DEF RunState, Step
    <3>4. run' \in RunState /\ stepAge' \in [Step -> Nat] /\ pc' \in Pc
      BY <3>1, <3>3, RecordType DEF Step, Pc, MetaPc
    <3> QED BY <1>1, <3>4 DEF MaybeRefreshMetadata
  <2> QED BY <2>1, <2>2
<1>2. CASE MetaTake
  <2>1. run' \in RunState
    <3>1. CASE run' = run
      BY <3>1
    <3>2. CASE run' # run
      <4> DEFINE asked == run.asked + 1
      <4>1. PICK chunk \in Oldest(run.todo, MetaBatch) :
              run' = [run EXCEPT !.todo = @ \ chunk, !.chunk = chunk,
                                 !.page = run.asked, !.next = 0, !.asked = asked]
        BY <1>2, <3>2 DEF MetaTake
      <4>2. /\ run \in RunState /\ chunk \in SUBSET Card /\ run.todo \ chunk \in SUBSET Card
            /\ run.asked \in Nat /\ asked \in Nat /\ 0 \in Nat
        BY DEF Oldest, RunState
      <4> HIDE DEF asked
      <4> QED BY ONLY <4>1, <4>2, Zenon DEF RunState
    <3> QED BY <3>1, <3>2
  <2>2. left' \in 0..DailyBudget
    <3>1. left' = left \/ Take
      BY <1>2 DEF MetaTake
    <3> QED BY <3>1, TakeType
  <2> QED BY <1>2, <2>1, <2>2 DEF MetaTake, Pc, MetaPc
<1>3. CASE MetaFetch
  <2>1. InHand \in Answer
    BY <1>3, InHandType DEF MetaFetch, MetaPc
  <2>2. Put("Metadata") \in SUBSET Object
    BY <2>1, PutType
  <2>3. run' \in RunState
    BY <1>3, <2>2 DEF MetaFetch, RunState
  <2> QED BY <1>3, <2>3 DEF MetaFetch, Pc, MetaPc
<1>4. CASE MetaFetchFails
  <2>1. PICK to \in {"meta", "meta_done"} : StopShort(run, to)
    BY <1>4 DEF MetaFetchFails
  <2>2. run' \in RunState /\ pc' = to
    BY <2>1, ShortType
  <2>3. pc' \in Pc
    BY ONLY <2>2, to \in {"meta", "meta_done"} DEF Pc, MetaPc
  <2> QED BY <1>4, <2>2, <2>3 DEF MetaFetchFails
<1>5. CASE MetaParse \/ MetaParseFails
  <2>1. InHand \in Answer
    BY <1>5, InHandType DEF MetaParse, MetaParseFails, MetaPc
  <2>2. Parsed \in RunState
    BY <2>1 DEF Parsed, RunState
  <2>3. run' \in RunState
    <3>1. CASE MetaParse
      BY <2>2, <3>1 DEF MetaParse, RunState
    <3>2. CASE MetaParseFails
      <4>1. StopShort(run, "meta") \/ run' = Parsed
        BY <3>2 DEF MetaParseFails
      <4> QED BY <2>2, <4>1, ShortType
    <3> QED BY <1>5, <3>1, <3>2
  <2>4. seenAge' \in [Card -> 0..Never]
    BY <1>5, ApplyType DEF MetaParse, MetaParseFails
  <2>5. pc' \in Pc
    BY <1>5 DEF MetaParse, MetaParseFails, StopShort, Pc, MetaPc
  <2> QED BY <1>5, <2>3, <2>4, <2>5 DEF MetaParse, MetaParseFails
<1>6. CASE MetaDone
  <2>1. "metadata_ran" \in Step
    BY DEF Step
  <2> QED BY <1>6, <2>1, EndStepType DEF MetaDone, Pc
<1> QED BY <1>1, <1>2, <1>3, <1>4, <1>5, <1>6

\* The steps of the reference lists.
LEMMA RefTypes ==
  ASSUME TypeOK, PlaceInv,
         \/ MaybeRefresh \/ RefTake \/ RefFetch \/ RefParse \/ RefDone
         \/ RefFetchFails \/ RefFetchMisleads \/ RefParseFails
  PROVE  TypeOK'
<1> USE DEF TypeOK
<1>1. ASSUME NEW r \in RunState, NEW short \in BOOLEAN, NextKind(r, short)
      PROVE  run' \in RunState /\ pc' \in Pc
  <2> DEFINE kind == r.kind + 1
  <2>1. PICK d \in BOOLEAN, c \in BOOLEAN :
          run' = [r EXCEPT !.kind = kind, !.page = 1, !.pages = 0,
                           !.degraded = d, !.complete = c]
    BY ONLY <1>1 DEF NextKind, RunState
  <2>2. kind \in Nat /\ 0 \in Nat /\ 1 \in Nat
    BY ONLY r \in RunState DEF RunState
  <2> HIDE DEF kind
  <2>3. run' \in RunState
    BY ONLY <2>1, <2>2, r \in RunState, Zenon DEF RunState
  <2> QED BY <1>1, <2>3 DEF NextKind, Pc, RefPc
<1>2. CASE MaybeRefresh
  <2> DEFINE begun == run.begun \cup {"reference_ran"}
             step == "reference_ran"
  <2>1. \/ run' = [run EXCEPT !.begun = begun, !.step = step, !.kind = 1, !.page = 1,
                              !.pages = 0, !.complete = TRUE]
        \/ run' = run
    BY <1>2 DEF MaybeRefresh
  <2>2. /\ run \in RunState /\ step \in Step /\ begun \in SUBSET Step
        /\ 0 \in Nat /\ 1 \in Nat /\ TRUE \in BOOLEAN
    BY DEF RunState, Step
  <2> HIDE DEF begun, step
  <2>3. [run EXCEPT !.begun = begun, !.step = step, !.kind = 1, !.page = 1,
                    !.pages = 0, !.complete = TRUE] \in RunState
    BY ONLY <2>2, Zenon DEF RunState
  <2>4. run' \in RunState
    BY ONLY <2>1, <2>2, <2>3, Zenon
  <2> QED BY <1>2, <2>4 DEF MaybeRefresh, Pc, RefPc
<1>3. CASE RefTake
  <2>1. run' \in RunState /\ pc' \in Pc
    <3>1. CASE NextKind(run, TRUE)
      BY <1>1, <3>1
    <3>2. CASE StopShort(run, "ref_done")
      BY <3>2, ShortType DEF Pc, RefPc
    <3>3. CASE pc' = "ref_fetch" /\ run' = run
      BY <3>3 DEF Pc, RefPc
    <3> QED BY <1>3, <3>1, <3>2, <3>3 DEF RefTake
  <2>2. left' \in 0..DailyBudget
    <3>1. left' = left \/ Take
      BY <1>3 DEF RefTake
    <3> QED BY <3>1, TakeType
  <2> QED BY <1>3, <2>1, <2>2 DEF RefTake
<1>4. CASE RefFetch \/ RefFetchMisleads
  <2>1. InHand \in Answer
    BY <1>4, InHandType DEF RefFetch, RefFetchMisleads
  <2>2. \E next \in Nat : ReceiveList(next)
    BY <1>4, NextType DEF RefFetch, RefFetchMisleads
  <2>3. run' \in RunState
    BY <2>1, <2>2, ReceivedList
  <2> QED BY <1>4, <2>3 DEF RefFetch, RefFetchMisleads, Pc, RefPc
<1>5. CASE RefFetchFails
  BY <1>1, <1>5 DEF RefFetchFails
<1>6. CASE RefParse \/ RefParseFails
  <2>1. InHand \in Answer
    BY <1>6, InHandType DEF RefParse, RefParseFails
  <2>2. Parsed \in RunState
    BY <2>1 DEF Parsed, RunState
  <2>3. [Parsed EXCEPT !.page = run.next] \in RunState /\ "ref" \in Pc
    <3>1. run.next \in Nat
      BY DEF RunState
    <3>2. [Parsed EXCEPT !.page = run.next] \in RunState
      BY ONLY <2>2, <3>1 DEF RunState
    <3> QED BY <3>2 DEF Pc, RefPc
  <2>4. run' \in RunState /\ pc' \in Pc
    BY <1>1, <1>6, <2>2, <2>3 DEF RefParse, RefParseFails
  <2> QED BY <1>6, <2>4 DEF RefParse, RefParseFails
<1>7. CASE RefDone
  <2>1. "reference_ran" \in Step
    BY DEF Step
  <2> QED BY <1>7, <2>1, EndStepType DEF RefDone, Pc
<1> QED BY <1>2, <1>3, <1>4, <1>5, <1>6, <1>7

\* The steps around them.
LEMMA OtherTypes ==
  ASSUME TypeOK, PlaceInv,
         \/ Start \/ Prices \/ Close \/ StatementFails \/ Killed \/ Tick
         \/ (\E c \in Card : Release(c) \/ Repoint(c)) \/ UNCHANGED vars
  PROVE  TypeOK'
<1> USE DEF TypeOK
<1>1. CASE Start
  BY <1>1, FreshType DEF Start, Pc
<1>2. CASE Prices
  <2>1. run' \in RunState
    <3>1. PICK d \in BOOLEAN : run' = [run EXCEPT !.degraded = @ \/ d \/ left = 0]
      BY <1>2 DEF Prices
    <3>2. PICK e \in BOOLEAN : run' = [run EXCEPT !.degraded = e]
      BY <3>1
    <3>3. run \in RunState
      OBVIOUS
    <3> QED BY ONLY <3>2, <3>3, Zenon DEF RunState
  <2>2. left' \in 0..DailyBudget
    BY <1>2, NatAssumption DEF Prices
  <2> QED BY <1>2, <2>1, <2>2 DEF Prices, Pc
<1>3. CASE Close
  BY <1>3, EndedType DEF Close, Pc, Status
<1>4. CASE StatementFails \/ Killed
  <2>1. /\ released' = released /\ repointed' = repointed /\ left' = left /\ pc' \in Pc
        /\ run' \in RunState
    BY <1>4, EndedType DEF StatementFails, Killed, Pc, Status
  <2>2. stepAge' \in [Step -> Nat]
    BY <1>4 DEF StatementFails, Killed, RunState
  <2>3. known \subseteq known' /\ known' \subseteq released /\ seenAge' \in [Card -> 0..Never]
    BY <1>4, ApplyType DEF StatementFails, Killed, PartlyStored, PlaceInv
  <2> QED BY <2>1, <2>2, <2>3
<1>5. CASE Tick
  <2>1. stepAge' \in [Step -> Nat]
    BY <1>5, NatAssumption DEF Tick
  <2>2. seenAge' \in [Card -> 0..Never]
    BY <1>5, NatAssumption DEF Tick
  <2>3. left' \in 0..DailyBudget
    BY <1>5, NatAssumption DEF Tick
  <2> QED BY <1>5, <2>1, <2>2, <2>3 DEF Tick
<1>6. CASE \E c \in Card : Release(c) \/ Repoint(c)
  BY <1>6 DEF Release, Repoint
<1>7. CASE UNCHANGED vars
  BY <1>7 DEF vars
<1> QED BY <1>1, <1>2, <1>3, <1>4, <1>5, <1>6, <1>7

\* Every step keeps the types.
LEMMA StepTypes ==
  ASSUME TypeOK, PlaceInv, [Next]_vars PROVE TypeOK'
BY WalkTypes, MetaTypes, RefTypes, OtherTypes
DEF Next, Work, Fault, Misled, Discovery, Metadata, Reference

-----------------------------------------------------------------------------
(* Where a run is, and what its walks and lists have left.                  *)

\* Between two of the steps there is nothing to say of either.
LEMMA BetweenSteps ==
  ASSUME pc' \in {"idle", "discover", "discover_new", "metadata", "reference", "prices", "close"}
  PROVE  PlaceInv' /\ WalkInv' /\ RefInv'
<1>1. pc' \notin WalkPc \cup MetaPc \cup RefPc \cup {"ref", "ref_fetch", "ref_parse"}
  BY DEF WalkPc, MetaPc, RefPc
<1>2. PlaceInv' /\ RefInv'
  BY <1>1 DEF PlaceInv, RefInv
<1>3. WalkInv'
  BY <1>1 DEF WalkInv, WalkPc
<1> QED BY <1>2, <1>3

\* A walk begins: every card of the list is on a page to come.
LEMMA WalkBegins ==
  ASSUME TypeOK, TypeOK', NEW s \in {"discovery_ran", "new_assets_ran"}, NEW after \in Nat,
         BeginWalk(s, after), released' = released
  PROVE  PlaceInv' /\ WalkInv' /\ RefInv'
<1>1. /\ run'.kind = 0 /\ run'.step = s /\ run'.page = 1 /\ run'.after = after
      /\ run'.owed = Listed(after) /\ pc' = "walk"
  BY DEF BeginWalk, TypeOK, RunState
<1>2. PlaceInv' /\ RefInv'
  BY <1>1 DEF PlaceInv, RefInv, WalkPc, RefPc, MetaPc
<1>3. ASSUME NEW c \in Listed(after) PROVE Beyond(c, 0)'
  <2>1. Listed(after) \in SUBSET Card
    BY DEF Listed, TypeOK
  <2>2. Position(c, Listed(after)) > 0
    BY <2>1, PositionIs
  <2>3. 0 * PageSize = 0
    BY NatAssumption
  <2>4. Listed(run.after)' = Listed(after)
    BY <1>1 DEF Listed
  <2> QED BY <2>2, <2>3, <2>4 DEF Beyond, Position
<1>4. run'.page > 0 /\ run'.page - 1 = 0
  BY <1>1
<1>5. WalkInv'
  BY <1>1, <1>3, <1>4 DEF WalkInv
<1> QED BY <1>2, <1>5

\* A walk that has stopped short promises nothing more.
LEMMA WalkStops ==
  ASSUME TypeOK, PlaceInv, NEW r \in RunState, NEW to \in WalkPc, StopShort(r, to),
         r.kind = run.kind, r.step = run.step, pc \in WalkPc, to # "walk_parse"
  PROVE  PlaceInv' /\ WalkInv' /\ RefInv'
<1>1. run'.complete = FALSE /\ run'.kind = 0 /\ run'.step = run.step /\ pc' = to
  BY DEF StopShort, RunState, PlaceInv
<1>2. pc' \notin RefPc /\ pc' \notin MetaPc
  BY <1>1 DEF WalkPc, RefPc, MetaPc
<1>3. pc' # "walk_parse" /\ pc' \notin {"ref", "ref_fetch", "ref_parse"}
  BY <1>1, <1>2 DEF RefPc
<1> QED BY <1>1, <1>2, <1>3 DEF PlaceInv, WalkInv, RefInv

\* A page is taken, and its answer is the page or is not.
LEMMA PageFetched ==
  ASSUME TypeOK, TypeOK', PlaceInv, WalkInv,
         WalkTake \/ WalkFetch \/ WalkFetchMisleads \/ WalkFetchFails
  PROVE  PlaceInv' /\ WalkInv' /\ RefInv'
<1> USE DEF TypeOK
<1>1. CASE WalkFetchFails \/ (WalkTake /\ pc' = "walk_done")
  <2>1. StopShort(run, "walk_done") /\ pc \in WalkPc
    BY <1>1 DEF WalkFetchFails, WalkTake, WalkPc
  <2> QED BY <2>1, WalkStops DEF WalkPc
<1>2. CASE WalkTake /\ pc' # "walk_done"
  <2>1. /\ pc = "walk" /\ pc' = "walk_fetch" /\ run' = run
        /\ known' = known /\ released' = released
    BY <1>2 DEF WalkTake, StopShort
  <2>2. PlaceInv' /\ RefInv'
    BY <2>1 DEF PlaceInv, RefInv, WalkPc, MetaPc, RefPc
  <2>3. WalkInv'
    BY <2>1 DEF WalkInv, Beyond, Listed, Position
  <2> QED BY <2>2, <2>3
<1>3. CASE WalkFetch \/ WalkFetchMisleads
  <2> DEFINE list == Listed(run.after)
  <2>1. /\ pc = "walk_fetch" /\ pc' = "walk_parse" /\ known' = known /\ released' = released
        /\ InHand \in Answer
    BY <1>3, InHandType DEF WalkFetch, WalkFetchMisleads, WalkPc
  <2>2. PageOf(list, run.page) \in SUBSET Card /\ PageOf(list, run.page) \subseteq released
    BY DEF PageOf, Listed
  <2>3. PICK cards \in SUBSET Card, next \in Nat :
          ReceivePage(cards, next) /\ cards \subseteq released
    BY <1>3, <2>2, NextType DEF WalkFetch, WalkFetchMisleads
  <2>4. /\ run'.kind = run.kind /\ run'.step = run.step /\ run'.complete = run.complete
        /\ run'.after = run.after /\ run'.chunk = cards /\ run'.next = next
        /\ run'.owed = run.owed \ LeftOut(list, run.page, cards, next)
    BY <2>1, <2>3, ReceivedPage
  <2>5. PlaceInv' /\ RefInv'
    BY <2>1, <2>3, <2>4 DEF PlaceInv, RefInv, WalkPc, MetaPc, RefPc
  <2>6. ASSUME run.complete, NEW c \in run'.owed \ (known \cup cards)
        PROVE  next # 0 /\ Beyond(c, next - 1)
    <3>1. run.page \in Nat /\ run.page > 0 /\ Beyond(c, run.page - 1)
      BY <2>1, <2>4, <2>6 DEF WalkInv, RunState
    <3>2. c \notin LeftOut(list, run.page, cards, next)
      BY <2>4
    <3> QED BY <2>6, <3>1, <3>2, GivenOrBeyond
  <2>7. \A c, n : Beyond(c, n) => Beyond(c, n)'
    BY <2>1, <2>4 DEF Beyond, Listed, Position
  <2>8. run.complete =>
          \A c \in run'.owed \ (known' \cup run'.chunk) : run'.next # 0 /\ Beyond(c, next - 1)'
    BY <2>1, <2>4, <2>6, <2>7
  <2>9. WalkInv'
    BY <2>1, <2>4, <2>8 DEF WalkInv
  <2> QED BY <2>5, <2>9
<1> QED BY <1>1, <1>2, <1>3

\* A page is parsed and its cards are known; those beyond it are on the page
\* it names.
LEMMA PageLeft ==
  ASSUME TypeOK, PlaceInv, WalkInv, pc = "walk_parse", released' = released,
         known' = known \cup run.chunk, NEW r \in RunState, NextPage(r),
         r.kind = run.kind, r.step = run.step, r.after = run.after, r.owed = run.owed,
         r.complete => run.complete
  PROVE  PlaceInv' /\ WalkInv' /\ RefInv'
<1>1. /\ run'.kind = 0 /\ run'.step = run.step /\ pc' \in {"walk", "walk_done"}
      /\ run.step \in {"discovery_ran", "new_assets_ran"}
      /\ run'.after = run.after /\ run'.owed = run.owed
      /\ run.page \in Nat /\ run.next \in Nat
  BY NextPageIs DEF PlaceInv, WalkPc, TypeOK, RunState
<1>2. /\ run'.complete => run.complete
      /\ run'.complete /\ pc' = "walk" => run.next > run.page /\ run'.page = run.next
      /\ run'.complete /\ pc' = "walk_done" => run.next = 0
  BY NextPageIs
<1>3. PlaceInv' /\ RefInv'
  BY <1>1 DEF PlaceInv, RefInv, WalkPc, MetaPc, RefPc
<1>4. ASSUME run'.complete, NEW c \in run'.owed \ known'
      PROVE  run.next # 0 /\ Beyond(c, run.next - 1)
  BY <1>1, <1>2, <1>4 DEF WalkInv
<1>5. \A c, n : Beyond(c, n) => Beyond(c, n)'
  BY <1>1 DEF Beyond, Listed, Position
<1>6. CASE run'.complete /\ pc' = "walk_done"
  <2>1. run'.owed \subseteq known'
    BY <1>2, <1>4, <1>6
  <2> QED BY <1>3, <1>6, <2>1 DEF WalkInv
<1>7. CASE run'.complete /\ pc' = "walk"
  <2>1. run'.page > 0 /\ run'.page = run.next
    BY <1>1, <1>2, <1>7
  <2>2. ASSUME NEW c \in run'.owed \ known' PROVE Beyond(c, run.page - 1)'
    <3>1. Beyond(c, run.next - 1)
      BY <1>4, <1>7, <2>2
    <3>2. \A n : n = run.next - 1 => Beyond(c, n)'
      BY <1>5, <3>1
    <3> QED BY <2>1, <3>2
  <2> QED BY <1>3, <1>7, <2>1, <2>2 DEF WalkInv
<1>8. CASE ~run'.complete
  BY <1>3, <1>8 DEF WalkInv
<1> QED BY <1>1, <1>6, <1>7, <1>8

\* A page is parsed, or is not.
LEMMA PageParsed ==
  ASSUME TypeOK, PlaceInv, WalkInv, WalkParse \/ WalkParseFails
  PROVE  PlaceInv' /\ WalkInv' /\ RefInv'
<1>1. pc = "walk_parse" /\ pc \in WalkPc /\ released' = released /\ run \in RunState
  BY DEF WalkParse, WalkParseFails, WalkPc, TypeOK
<1>2. InHand \in Answer
  BY <1>1, InHandType
<1>3. /\ Parsed \in RunState /\ Parsed.kind = run.kind /\ Parsed.step = run.step
      /\ Parsed.complete = run.complete
      /\ Parsed.after = run.after /\ Parsed.owed = run.owed
  BY <1>1, <1>2 DEF Parsed, RunState
<1>4. CASE WalkParse
  <2> DEFINE r == [Parsed EXCEPT !.degraded = @ \/ run.chunk \cap repointed # {}]
  <2>1. /\ r \in RunState /\ r.kind = run.kind /\ r.step = run.step
        /\ r.complete = run.complete /\ r.after = run.after /\ r.owed = run.owed
    BY ONLY <1>3 DEF RunState
  <2>2. NextPage(r) /\ known' = known \cup run.chunk
    BY <1>4 DEF WalkParse
  <2> HIDE DEF r
  <2> QED BY <1>1, <2>1, <2>2, PageLeft
<1>5. CASE StopShort(run, "walk_done")
  BY <1>1, <1>5, WalkStops DEF WalkPc
<1>6. CASE /\ known' = known \cup run.chunk
           /\ NextPage([Parsed EXCEPT !.degraded = TRUE, !.complete = FALSE])
  <2> DEFINE r == [Parsed EXCEPT !.degraded = TRUE, !.complete = FALSE]
  <2>1. /\ r \in RunState /\ r.kind = run.kind /\ r.step = run.step
        /\ r.complete = FALSE /\ r.after = run.after /\ r.owed = run.owed
    BY ONLY <1>3 DEF RunState
  <2>2. NextPage(r)
    BY <1>6
  <2> HIDE DEF r
  <2> QED BY <1>1, <1>6, <2>1, <2>2, PageLeft
<1> QED BY <1>4, <1>5, <1>6 DEF WalkParseFails

\* The steps of a walk keep the account of what it has left.
LEMMA WalkSteps ==
  ASSUME TypeOK, TypeOK', PlaceInv, WalkInv,
         \/ MaybeDiscover \/ MaybeDiscoverNew \/ WalkTake \/ WalkFetch \/ WalkParse \/ WalkDone
         \/ WalkFetchFails \/ WalkFetchMisleads \/ WalkParseFails
  PROVE  PlaceInv' /\ WalkInv' /\ RefInv'
<1>1. CASE MaybeDiscover
  BY <1>1, WalkBegins, BetweenSteps DEF MaybeDiscover
<1>2. CASE MaybeDiscoverNew
  <2>1. Watermark \in Nat
    <3>1. known \subseteq Card
      BY DEF TypeOK
    <3> QED BY <3>1, WatermarkType
  <2> QED BY <1>2, <2>1, WalkBegins, BetweenSteps DEF MaybeDiscoverNew
<1>3. CASE WalkDone
  <2>1. pc' \in {"discover_new", "metadata"}
    BY <1>3 DEF WalkDone, AfterWalk
  <2> QED BY <2>1, BetweenSteps
<1> QED BY <1>1, <1>2, <1>3, PageFetched, PageParsed

\* The metadata step is at no walk and at no list.
LEMMA MetaSteps ==
  ASSUME TypeOK, PlaceInv,
         \/ MaybeRefreshMetadata \/ MetaTake \/ MetaFetch \/ MetaParse \/ MetaDone
         \/ MetaFetchFails \/ MetaParseFails
  PROVE  PlaceInv' /\ WalkInv' /\ RefInv'
<1> USE DEF TypeOK
<1>1. CASE pc' \notin MetaPc
  <2>1. pc' \in {"reference"}
    BY <1>1 DEF MaybeRefreshMetadata, MetaTake, MetaFetch, MetaParse, MetaDone,
                MetaFetchFails, MetaParseFails, StopShort, MetaPc
  <2> QED BY <2>1, BetweenSteps
<1>2. CASE pc' \in MetaPc
  <2>1. pc' \notin WalkPc /\ pc' \notin RefPc /\ pc' \notin {"ref", "ref_fetch", "ref_parse"}
    BY <1>2 DEF MetaPc, WalkPc, RefPc
  <2>2. RefInv' /\ WalkInv'
    BY <2>1 DEF RefInv, WalkInv, WalkPc
  <2>3. run'.kind = 0
    <3>1. CASE MaybeRefreshMetadata
      BY <1>2, <3>1 DEF MaybeRefreshMetadata, MetaPc, RunState
    <3>2. CASE MetaTake
      BY <3>2 DEF MetaTake, PlaceInv, MetaPc, RunState
    <3>3. CASE MetaFetch \/ MetaFetchFails
      BY <3>3 DEF MetaFetch, MetaFetchFails, StopShort, PlaceInv, MetaPc, RunState
    <3>4. CASE MetaParse \/ MetaParseFails
      BY <3>4 DEF MetaParse, MetaParseFails, Parsed, StopShort, PlaceInv, MetaPc, RunState
    <3>5. CASE MetaDone
      BY <1>2, <3>5 DEF MetaDone, MetaPc
    <3> QED BY <3>1, <3>2, <3>3, <3>4, <3>5
  <2> QED BY <2>1, <2>2, <2>3 DEF PlaceInv, WalkPc
<1> QED BY <1>1, <1>2

\* A list ends, whole or not, and the next begins if there is one.
LEMMA ListEnds ==
  ASSUME TypeOK, PlaceInv, RefInv, NEW r \in RunState, NEW short \in BOOLEAN,
         NextKind(r, short), pc \in {"ref", "ref_fetch", "ref_parse"},
         r.kind = run.kind, r.step = run.step, r.complete = run.complete,
         run.parsed \subseteq r.parsed, r.passed = run.passed,
         short \/ \A p \in 1..RefPages : p < run.page \/
            [step |-> "reference_ran", kind |-> run.kind, page |-> p] \in r.parsed \cup r.passed
  PROVE  PlaceInv' /\ WalkInv' /\ RefInv'
<1>1. /\ run'.kind = run.kind + 1 /\ run'.step = "reference_ran" /\ run'.page = 1
      /\ run'.complete = (run.complete /\ ~short) /\ run'.parsed = r.parsed
      /\ run'.passed = r.passed
      /\ pc' = IF run.kind < Len(RefKinds) THEN "ref" ELSE "ref_done"
  BY DEF NextKind, RunState, PlaceInv, RefPc
<1>2. run.kind \in 1..Len(RefKinds) /\ Len(RefKinds) \in Nat
  BY NatAssumption DEF PlaceInv
<1>3. pc' \in RefPc /\ pc' \notin WalkPc /\ pc' \notin MetaPc /\ pc' # "ref_fetch" /\ pc' # "ref_parse"
  BY <1>1 DEF RefPc, WalkPc, MetaPc
<1>4. pc' = "ref" => run.kind + 1 \in 1..Len(RefKinds)
  BY <1>1, <1>2
<1>5. PlaceInv' /\ WalkInv'
  BY <1>1, <1>3, <1>4 DEF PlaceInv, WalkInv, WalkPc
<1>6. ASSUME run.complete, ~short, NEW k \in 1..Len(RefKinds), NEW p \in 1..RefPages,
             k < run.kind + 1 \/ (k = run.kind + 1 /\ p < 1)
      PROVE  [step |-> "reference_ran", kind |-> k, page |-> p] \in r.parsed \cup r.passed
  <2>1. k < run.kind \/ k = run.kind
    BY <1>2, <1>6
  <2>2. \A i \in 1..Len(RefKinds), n \in 1..RefPages :
          i < run.kind \/ (i = run.kind /\ n < run.page) =>
            [step |-> "reference_ran", kind |-> i, page |-> n] \in r.parsed \cup r.passed
    BY <1>6 DEF RefInv, RefPc, Accounted
  <2>3. CASE k < run.kind
    BY <2>2, <2>3
  <2>4. CASE k = run.kind /\ p < run.page
    BY <2>2, <2>4
  <2>5. CASE k = run.kind /\ ~ (p < run.page)
    BY <1>6, <2>5
  <2> QED BY <2>1, <2>3, <2>4, <2>5
<1>7. pc' = "ref_done" => run'.kind > Len(RefKinds)
  BY <1>1, <1>2
<1>8. run'.complete => run.complete /\ ~short
  BY <1>1
<1>9. RefInv'
  BY <1>1, <1>3, <1>6, <1>7, <1>8 DEF RefInv, Accounted
<1> QED BY <1>5, <1>9

\* A list ends in a step that is not complete any more.
LEMMA ListMissed ==
  ASSUME TypeOK, PlaceInv, NEW r \in RunState, NEW short \in BOOLEAN, NextKind(r, short),
         pc \in {"ref", "ref_fetch", "ref_parse"},
         r.kind = run.kind, r.step = run.step, r.complete = FALSE
  PROVE  PlaceInv' /\ WalkInv' /\ RefInv'
<1>1. /\ run'.kind = run.kind + 1 /\ run'.step = "reference_ran" /\ run'.complete = FALSE
      /\ pc' = IF run.kind < Len(RefKinds) THEN "ref" ELSE "ref_done"
  BY DEF NextKind, RunState, PlaceInv, RefPc
<1>2. run.kind \in 1..Len(RefKinds) /\ Len(RefKinds) \in Nat
  BY NatAssumption DEF PlaceInv
<1>3. pc' = "ref" => run.kind + 1 \in 1..Len(RefKinds)
  BY <1>1, <1>2
<1>4. pc' \notin WalkPc /\ pc' \notin MetaPc /\ pc' # "ref_fetch" /\ pc' # "ref_parse"
  BY <1>1 DEF WalkPc, MetaPc
<1> QED BY <1>1, <1>3, <1>4 DEF PlaceInv, WalkInv, RefInv, WalkPc

\* What is before the page that is named next, or all there is when none is,
\* is parsed or passed over once the page in hand is parsed.
LEMMA ParsedOrPassed ==
  ASSUME TypeOK, PlaceInv, RefInv, run.complete, pc = "ref_parse", NEW p \in 1..RefPages,
         run.next = 0 \/ p < run.next
  PROVE  \/ p < run.page
         \/ [step |-> "reference_ran", kind |-> run.kind, page |-> p]
               \in run.parsed \cup {InHand} \cup run.passed
<1>1. run.page \in Nat /\ p \in Nat /\ run.step = "reference_ran" /\ pc \in RefPc
  BY NatAssumption DEF TypeOK, RunState, PlaceInv, RefPc
<1>2. CASE p = run.page
  BY <1>1, <1>2 DEF InHand
<1>3. CASE p > run.page
  BY <1>1, <1>3 DEF RefInv, Accounted
<1> QED BY <1>1, <1>2, <1>3

\* A page of a list is parsed and the one it names is to come.
LEMMA PageEnds ==
  ASSUME TypeOK, PlaceInv, RefInv, pc = "ref_parse", InHand \in Answer, run.next > run.page,
         run' = [Parsed EXCEPT !.page = run.next], pc' = "ref"
  PROVE  PlaceInv' /\ WalkInv' /\ RefInv'
<1>1. /\ run'.kind = run.kind /\ run'.step = "reference_ran" /\ run'.page = run.next
      /\ run'.complete = run.complete /\ run'.parsed = run.parsed \cup {InHand}
      /\ run'.passed = run.passed
      /\ run.step = "reference_ran" /\ run.page \in Nat /\ run.next \in Nat
  BY DEF Parsed, TypeOK, RunState, PlaceInv, RefPc
<1>2. PlaceInv' /\ WalkInv'
  BY <1>1 DEF PlaceInv, WalkInv, WalkPc, MetaPc, RefPc
<1>3. ASSUME run.complete, NEW k \in 1..Len(RefKinds), NEW p \in 1..RefPages,
             k < run.kind \/ (k = run.kind /\ p < run.next)
      PROVE  Accounted(k, p)'
  <2>1. \A i \in 1..Len(RefKinds), n \in 1..RefPages :
          i < run.kind \/ (i = run.kind /\ n < run.page) => Accounted(i, n)
    BY <1>3 DEF RefInv, RefPc
  <2>2. CASE k < run.kind \/ (k = run.kind /\ p < run.page)
    BY <1>1, <2>1, <2>2 DEF Accounted
  <2>3. CASE k = run.kind /\ p < run.next /\ ~ (p < run.page)
    BY <1>1, <1>3, <2>3, ParsedOrPassed DEF Accounted
  <2> QED BY <1>3, <2>2, <2>3
<1>4. RefInv'
  BY <1>1, <1>3 DEF RefInv
<1> QED BY <1>2, <1>4

\* The steps of the reference lists keep the account of what was parsed.
LEMMA RefSteps ==
  ASSUME TypeOK, PlaceInv, RefInv,
         \/ MaybeRefresh \/ RefTake \/ RefFetch \/ RefParse \/ RefDone
         \/ RefFetchFails \/ RefFetchMisleads \/ RefParseFails
  PROVE  PlaceInv' /\ WalkInv' /\ RefInv'
<1> USE DEF TypeOK
<1>1. run \in RunState
  OBVIOUS
<1>2. CASE pc' \in {"reference", "prices"}
  BY <1>2, BetweenSteps
<1>3. CASE MaybeRefresh /\ pc' # "prices"
  <2>1. /\ run'.kind = 1 /\ run'.page = 1 /\ run'.step = "reference_ran" /\ pc' = "ref"
        /\ RefKinds # <<>>
    BY <1>3 DEF MaybeRefresh, RunState
  <2>2. 1 \in 1..Len(RefKinds)
    BY <2>1, CardAssumption
  <2>3. \A k \in 1..Len(RefKinds), p \in 1..RefPages : ~ (k < 1 \/ (k = 1 /\ p < 1))
    BY NatAssumption
  <2>4. PlaceInv' /\ WalkInv'
    BY <2>1, <2>2 DEF PlaceInv, WalkInv, WalkPc, MetaPc, RefPc
  <2>5. RefInv'
    BY <2>1, <2>3 DEF RefInv
  <2> QED BY <2>4, <2>5
<1>4. CASE NextKind(run, TRUE) /\ pc \in {"ref", "ref_fetch", "ref_parse"}
  BY <1>1, <1>4, ListEnds
<1>5. CASE StopShort(run, "ref_done") /\ pc = "ref"
  <2>1. run'.complete = FALSE /\ run'.step = "reference_ran" /\ pc' = "ref_done"
    BY <1>5 DEF StopShort, RunState, PlaceInv, RefPc
  <2> QED BY <2>1 DEF PlaceInv, WalkInv, RefInv, WalkPc, MetaPc, RefPc
<1>6. CASE run' = run /\ pc = "ref" /\ pc' = "ref_fetch"
  BY <1>6 DEF PlaceInv, WalkInv, RefInv, Accounted, WalkPc, MetaPc, RefPc
<1>7. CASE RefFetch \/ RefFetchMisleads
  <2>1. /\ pc = "ref_fetch" /\ pc' = "ref_parse" /\ run.step = "reference_ran"
        /\ InHand \in Answer
    BY <1>7, InHandType DEF RefFetch, RefFetchMisleads, PlaceInv, RefPc
  <2>2. PICK next \in Nat : ReceiveList(next)
    BY <1>7, NextType DEF RefFetch, RefFetchMisleads
  <2>3. /\ run'.kind = run.kind /\ run'.step = run.step /\ run'.page = run.page
        /\ run'.complete = run.complete /\ run'.parsed = run.parsed
        /\ run'.next = next /\ run'.passed = run.passed \cup PassedOver(next)
    BY <2>1, <2>2, ReceivedList
  <2>4. PlaceInv' /\ WalkInv'
    BY <2>1, <2>3 DEF PlaceInv, WalkInv, WalkPc, MetaPc, RefPc
  <2>5. ASSUME NEW p \in 1..RefPages, p > run.page, next = 0 \/ p < next
        PROVE  Accounted(run.kind, p)'
    <3>1. [InHand EXCEPT !.page = p] \in PassedOver(next)
      BY <2>5 DEF PassedOver
    <3>2. [InHand EXCEPT !.page = p] = [step |-> "reference_ran", kind |-> run.kind, page |-> p]
      BY <2>1 DEF InHand
    <3> QED BY <2>3, <3>1, <3>2 DEF Accounted
  <2>6. \A k, p : Accounted(k, p) => Accounted(k, p)'
    BY <2>3 DEF Accounted
  <2>7. \A p \in 1..RefPages :
          p > run'.page /\ (run'.next = 0 \/ p < run'.next) => Accounted(run.kind, p)'
    BY <2>3, <2>5
  <2>8. RefInv'
    BY <2>1, <2>3, <2>6, <2>7 DEF RefInv, RefPc
  <2> QED BY <2>4, <2>8
<1>8. CASE RefParse \/ RefParseFails
  <2>1. pc = "ref_parse" /\ run.step = "reference_ran"
    BY <1>8 DEF RefParse, RefParseFails, PlaceInv, RefPc
  <2>2. InHand \in Answer
    BY <2>1, InHandType
  <2>3. /\ Parsed \in RunState /\ Parsed.kind = run.kind /\ Parsed.step = run.step
        /\ Parsed.complete = run.complete /\ Parsed.parsed = run.parsed \cup {InHand}
        /\ Parsed.passed = run.passed /\ run.complete \in BOOLEAN
    BY <2>2 DEF Parsed, RunState
  <2>4. CASE NextKind(Parsed, FALSE) /\ run.next = 0
    <3>1. CASE run.complete
      <4>1. ASSUME NEW p \in 1..RefPages
            PROVE  \/ p < run.page
                   \/ [step |-> "reference_ran", kind |-> run.kind, page |-> p]
                         \in Parsed.parsed \cup Parsed.passed
        BY <2>1, <2>3, <2>4, <3>1, ParsedOrPassed
      <4> QED BY <2>1, <2>3, <2>4, <4>1, ListEnds
    <3>2. CASE ~run.complete
      BY <2>1, <2>3, <2>4, <3>2, ListMissed
    <3> QED BY <3>1, <3>2
  <2>5. CASE NextKind(Parsed, TRUE)
    BY <2>1, <2>3, <2>5, ListEnds
  <2>6. CASE run.next > run.page /\ run' = [Parsed EXCEPT !.page = run.next] /\ pc' = "ref"
    BY <2>1, <2>2, <2>6, PageEnds
  <2>7. CASE NextKind(run, TRUE)
    BY <1>4, <2>1, <2>7
  <2> QED BY <1>8, <2>4, <2>5, <2>6, <2>7 DEF RefParse, RefParseFails
<1> QED BY <1>2, <1>3, <1>4, <1>5, <1>6, <1>7, <1>8
        DEF MaybeRefresh, RefTake, RefFetchFails, RefDone

\* Around the steps a run stays where it is, or is between them.
LEMMA OtherSteps ==
  ASSUME TypeOK, TypeOK', PlaceInv, WalkInv, RefInv,
         \/ Start \/ Prices \/ Close \/ StatementFails \/ Killed \/ Tick
         \/ (\E c \in Card : Release(c) \/ Repoint(c)) \/ UNCHANGED vars
  PROVE  PlaceInv' /\ WalkInv' /\ RefInv'
<1>1. CASE Start \/ Prices \/ Close \/ StatementFails \/ Killed \/ Tick
  <2>1. pc' \in {"idle", "discover", "close"}
    BY <1>1 DEF Start, Prices, Close, StatementFails, Killed, Tick
  <2> QED BY <2>1, BetweenSteps
<1>2. CASE (\E c \in Card : Release(c) \/ Repoint(c)) \/ UNCHANGED vars
  <2>1. /\ pc' = pc /\ run' = run /\ known' = known /\ released \subseteq released'
        /\ run \in RunState
    BY <1>2 DEF Release, Repoint, vars, TypeOK
  <2>2. PlaceInv' /\ RefInv'
    BY <2>1 DEF PlaceInv, RefInv, Accounted
  <2>3. \A c : \A n \in Nat : Beyond(c, n) => Beyond(c, n)'
    BY <2>1, StaysBeyond
  <2>4. WalkInv'
    BY <2>1, <2>3 DEF WalkInv, RunState
  <2> QED BY <2>2, <2>4
<1> QED BY <1>1, <1>2

\* Every step keeps the account.
LEMMA StepPlaces ==
  ASSUME TypeOK, PlaceInv, WalkInv, RefInv, [Next]_vars
  PROVE  TypeOK' /\ PlaceInv' /\ WalkInv' /\ RefInv'
<1>1. TypeOK'
  BY StepTypes
<1> QED BY <1>1, WalkSteps, MetaSteps, RefSteps, OtherSteps
        DEF Next, Work, Fault, Misled, Discovery, Metadata, Reference

-----------------------------------------------------------------------------
(* What a run has begun, and what it marks done.                            *)

Begun == BegunInv /\ OkMeansWalked
Marked == WalkWholeStep /\ ReferenceWholeStep /\ MetadataDoneStep

\* Nothing is marked by a step that adds no flag.
LEMMA NothingMarked ==
  ASSUME run'.flags \subseteq run.flags PROVE Marked
BY DEF Marked, WalkWholeStep, ReferenceWholeStep, MetadataDoneStep

\* A step that ends adds its flag, or none.
LEMMA EndStepIs ==
  ASSUME TypeOK, NEW s \in Step, NEW done \in BOOLEAN, EndStep(s, done)
  PROVE  /\ run'.status = run.status /\ run'.begun = run.begun /\ run'.degraded = run.degraded
         /\ run'.flags = IF done THEN run.flags \cup {s} ELSE run.flags
<1> DEFINE r == StepEnded(run)
<1>1. /\ r \in RunState /\ r.status = run.status /\ r.begun = run.begun
      /\ r.flags = run.flags /\ r.degraded = run.degraded
  BY StepEndedIs DEF TypeOK
<1> HIDE DEF r
<1>2. CASE done /\ RecordStep(s, r)
  BY <1>1, <1>2 DEF RecordStep, RunState
<1>3. CASE ~done /\ run' = r
  BY <1>1, <1>3
<1> QED BY <1>2, <1>3 DEF EndStep, r

\* A run goes on in the step it is in, or between two of them.
LEMMA GoesOn ==
  ASSUME Begun, pc # "idle", pc' # "idle", run'.status = run.status,
         run'.begun \ {"metadata_ran"} = run.begun \ {"metadata_ran"},
         run.flags \subseteq run'.flags, InStep' = InStep,
         ~run'.degraded => ~run.degraded /\ (InStep # {} => run'.complete = run.complete)
  PROVE  Begun'
<1>1. run'.status = "running"
  BY DEF Begun, BegunInv
<1>2. ASSUME ~run'.degraded
      PROVE  /\ run'.begun \ {"metadata_ran"} \subseteq run'.flags \cup InStep'
             /\ InStep' # {} => run'.complete
  BY <1>2 DEF Begun, BegunInv
<1> QED BY <1>1, <1>2 DEF Begun, BegunInv, OkMeansWalked

\* A run begins a step.
LEMMA StepBegins ==
  ASSUME Begun, pc # "idle", InStep = {}, NEW s \in Step,
         pc' \in WalkPc \cup RefPc, run'.step = s, run'.status = run.status,
         run'.begun = run.begun \cup {s}, run'.flags = run.flags,
         run'.degraded = run.degraded, run'.complete = TRUE
  PROVE  Begun'
<1>1. InStep' = {s} /\ pc' # "idle" /\ run'.status = "running"
  BY DEF InStep, Begun, BegunInv, WalkPc, RefPc
<1> QED BY <1>1 DEF Begun, BegunInv, OkMeansWalked

\* A run leaves a step: it marks it, or it is degraded.
LEMMA StepEnds ==
  ASSUME TypeOK, Begun, pc \in WalkPc \cup RefPc,
         pc' \in {"discover_new", "metadata", "prices"},
         EndStep(run.step, run.complete)
  PROVE  Begun'
<1>1. /\ InStep = {run.step} /\ pc # "idle" /\ InStep' = {} /\ pc' # "idle"
  BY DEF InStep, WalkPc, RefPc
<1>2. /\ run'.status = run.status /\ run'.begun = run.begun /\ run'.degraded = run.degraded
      /\ run.complete => run'.flags = run.flags \cup {run.step}
      /\ ~run.complete => run'.flags = run.flags
  BY EndStepIs DEF TypeOK, RunState
<1>3. run'.status = "running"
  BY <1>1, <1>2 DEF Begun, BegunInv
<1>4. ASSUME ~run'.degraded
      PROVE  run'.begun \ {"metadata_ran"} \subseteq run'.flags
  <2>1. run.complete /\ run.begun \ {"metadata_ran"} \subseteq run.flags \cup {run.step}
    BY <1>1, <1>2, <1>4 DEF Begun, BegunInv
  <2> QED BY <1>2, <2>1
<1> QED BY <1>1, <1>3, <1>4 DEF Begun, BegunInv, OkMeansWalked

\* Which places are in a step.
LEMMA InStepIs ==
  /\ pc \in WalkPc \cup RefPc => InStep = {run.step} /\ pc # "idle"
  /\ pc \in MetaPc \cup {"idle", "discover", "discover_new", "metadata", "reference",
                         "prices", "close"} => InStep = {}
  /\ pc' \in WalkPc \cup RefPc => InStep' = {run'.step} /\ pc' # "idle"
  /\ pc' \in MetaPc \cup {"idle", "discover", "discover_new", "metadata", "reference",
                          "prices", "close"} => InStep' = {}
BY DEF InStep, WalkPc, RefPc, MetaPc

\* A run stops short in the step it is in, and is degraded.
LEMMA StoppedShort ==
  ASSUME Begun, NEW r \in RunState, NEW to, StopShort(r, to),
         r.status = run.status, r.begun = run.begun, r.flags = run.flags, r.step = run.step,
         \/ pc \in WalkPc \cup RefPc /\ to \in WalkPc \cup RefPc
         \/ pc \in MetaPc /\ to \in MetaPc
  PROVE  Begun' /\ Marked
<1>1. /\ run'.status = run.status /\ run'.begun = run.begun /\ run'.flags = run.flags
      /\ run'.step = run.step /\ run'.degraded = TRUE /\ pc' = to
  BY DEF StopShort, RunState
<1>2. InStep' = InStep /\ pc # "idle" /\ pc' # "idle"
  <2>1. "idle" \notin MetaPc
    BY DEF MetaPc
  <2> QED BY <1>1, <2>1, InStepIs
<1>3. Begun'
  BY <1>1, <1>2, GoesOn
<1> QED BY <1>1, <1>3, NothingMarked

\* A run that only moves on, in the same step and as degraded as before or
\* more so.
LEMMA MovesOn ==
  ASSUME Begun, run'.status = run.status, run'.begun = run.begun, run'.flags = run.flags,
         run'.step = run.step,
         ~run'.degraded => ~run.degraded /\ run'.complete = run.complete,
         \/ pc \in WalkPc \cup RefPc /\ pc' \in WalkPc \cup RefPc
         \/ pc \in MetaPc /\ pc' \in MetaPc
  PROVE  Begun' /\ Marked
<1>1. InStep' = InStep /\ pc # "idle" /\ pc' # "idle"
  <2>1. "idle" \notin MetaPc
    BY DEF MetaPc
  <2> QED BY <2>1, InStepIs
<1>2. Begun'
  BY <1>1, GoesOn
<1> QED BY <1>2, NothingMarked

\* A step that is not due is passed over.
LEMMA NotDue ==
  ASSUME Begun, run' = run, pc # "idle", pc' # "idle", InStep = {}, InStep' = {}
  PROVE  Begun' /\ Marked
<1>1. Begun'
  BY GoesOn
<1> QED BY <1>1, NothingMarked

\* Walks: what is degraded says so, and a walk is marked when it was whole.
LEMMA WalkBegun ==
  ASSUME TypeOK, PlaceInv, WalkInv, Begun,
         \/ MaybeDiscover \/ MaybeDiscoverNew \/ WalkTake \/ WalkFetch \/ WalkParse \/ WalkDone
         \/ WalkFetchFails \/ WalkFetchMisleads \/ WalkParseFails
  PROVE  Begun' /\ Marked
<1>1. run \in RunState
  BY DEF TypeOK
<1>2. ASSUME NEW s \in {"discovery_ran", "new_assets_ran"}, NEW after,
             BeginWalk(s, after), pc \in {"discover", "discover_new"}
      PROVE  Begun' /\ Marked
  <2>1. /\ run'.status = run.status /\ run'.begun = run.begun \cup {s}
        /\ run'.flags = run.flags /\ run'.degraded = run.degraded
        /\ run'.complete = TRUE /\ run'.step = s /\ pc' \in WalkPc /\ s \in Step
    BY <1>1, <1>2 DEF BeginWalk, RunState, WalkPc, Step
  <2>2. Begun'
    BY <1>2, <2>1, InStepIs, StepBegins
  <2> QED BY <2>1, <2>2, NothingMarked
<1>3. CASE MaybeDiscover
  BY <1>2, <1>3, NotDue, InStepIs DEF MaybeDiscover
<1>4. CASE MaybeDiscoverNew
  BY <1>2, <1>4, NotDue, InStepIs DEF MaybeDiscoverNew
<1>5. CASE WalkFetchFails \/ WalkTake
  <2>1. /\ pc \in WalkPc /\ {"walk_done", "walk_fetch"} \subseteq WalkPc
        /\ StopShort(run, "walk_done") \/ (run' = run /\ pc' = "walk_fetch")
    BY <1>5 DEF WalkFetchFails, WalkTake, WalkPc
  <2>2. CASE StopShort(run, "walk_done")
    BY <1>1, <2>1, <2>2, StoppedShort
  <2>3. CASE run' = run /\ pc' = "walk_fetch"
    BY <2>1, <2>3, MovesOn
  <2> QED BY <2>1, <2>2, <2>3
<1>6. CASE WalkFetch \/ WalkFetchMisleads
  <2>1. pc \in WalkPc /\ pc' \in WalkPc /\ pc = "walk_fetch"
    BY <1>6 DEF WalkFetch, WalkFetchMisleads, WalkPc
  <2>2. PageOf(Listed(run.after), run.page) \in SUBSET Card /\ InHand \in Answer
    BY <2>1, InHandType DEF PageOf, Listed, TypeOK
  <2>3. \E cards \in SUBSET Card, next \in Nat : ReceivePage(cards, next)
    BY <1>6, <2>2, NextType DEF WalkFetch, WalkFetchMisleads
  <2>4. /\ run'.status = run.status /\ run'.begun = run.begun /\ run'.flags = run.flags
        /\ run'.degraded = run.degraded /\ run'.complete = run.complete
        /\ run'.step = run.step
    BY <2>2, <2>3, ReceivedPage
  <2> QED BY <2>1, <2>4, MovesOn
<1>7. CASE WalkParse \/ WalkParseFails
  <2>1. pc = "walk_parse" /\ pc \in WalkPc /\ {"walk", "walk_done"} \subseteq WalkPc
    BY <1>7 DEF WalkParse, WalkParseFails, WalkPc
  <2>2. InHand \in Answer
    BY <2>1, InHandType
  <2>3. /\ Parsed \in RunState /\ Parsed.status = run.status /\ Parsed.begun = run.begun
        /\ Parsed.flags = run.flags /\ Parsed.step = run.step
        /\ Parsed.degraded = run.degraded /\ Parsed.complete = run.complete
    BY <1>1, <2>2 DEF Parsed, RunState
  <2>4. ASSUME NEW r \in RunState, NextPage(r), r.status = run.status, r.begun = run.begun,
               r.flags = run.flags, r.step = run.step,
               ~r.degraded => ~run.degraded /\ r.complete = run.complete
        PROVE  Begun' /\ Marked
    <3>1. /\ run'.status = run.status /\ run'.begun = run.begun /\ run'.flags = run.flags
          /\ run'.step = run.step /\ pc' \in WalkPc
          /\ ~run'.degraded => ~run.degraded /\ run'.complete = run.complete
      BY <2>1, <2>4, NextPageIs
    <3> QED BY <2>1, <3>1, MovesOn
  <2>5. CASE WalkParse
    <3> DEFINE r == [Parsed EXCEPT !.degraded = @ \/ run.chunk \cap repointed # {}]
    <3>1. /\ r \in RunState /\ r.status = run.status /\ r.begun = run.begun
          /\ r.flags = run.flags /\ r.step = run.step /\ r.complete = run.complete
          /\ ~r.degraded => ~run.degraded
      BY ONLY <2>3 DEF RunState
    <3>2. NextPage(r)
      BY <2>5 DEF WalkParse
    <3> HIDE DEF r
    <3> QED BY <2>4, <3>1, <3>2
  <2>6. CASE StopShort(run, "walk_done")
    BY <1>1, <2>1, <2>6, StoppedShort
  <2>7. CASE NextPage([Parsed EXCEPT !.degraded = TRUE, !.complete = FALSE])
    <3> DEFINE r == [Parsed EXCEPT !.degraded = TRUE, !.complete = FALSE]
    <3>1. /\ r \in RunState /\ r.status = run.status /\ r.begun = run.begun
          /\ r.flags = run.flags /\ r.step = run.step /\ r.degraded = TRUE
      BY ONLY <2>3 DEF RunState
    <3>2. NextPage(r)
      BY <2>7
    <3> HIDE DEF r
    <3> QED BY <2>4, <3>1, <3>2
  <2> QED BY <1>7, <2>5, <2>6, <2>7 DEF WalkParseFails
<1>8. CASE WalkDone
  <2>1. /\ pc \in WalkPc /\ pc' \in {"discover_new", "metadata"}
        /\ EndStep(run.step, run.complete) /\ run.step \in Step /\ run.complete \in BOOLEAN
    BY <1>1, <1>8 DEF WalkDone, WalkPc, AfterWalk, RunState
  <2>2. Begun'
    BY <2>1, StepEnds
  <2>3. run'.flags = IF run.complete THEN run.flags \cup {run.step} ELSE run.flags
    BY <2>1, EndStepIs
  <2>4. CASE ~run.complete
    BY <2>2, <2>3, <2>4, NothingMarked
  <2>5. CASE run.complete
    <3>1. run.step \in {"discovery_ran", "new_assets_ran"}
      BY <2>1 DEF PlaceInv
    <3>2. run.owed \subseteq known
      BY <1>8, <2>5 DEF WalkDone, WalkInv
    <3>3. Marked
      BY <2>3, <3>1, <3>2
      DEF Marked, WalkWholeStep, ReferenceWholeStep, MetadataDoneStep
    <3> QED BY <2>2, <3>3
  <2> QED BY <2>1, <2>4, <2>5
<1> QED BY <1>3, <1>4, <1>5, <1>6, <1>7, <1>8

\* The first of none, or none of them at all: the day had no request left.
LEMMA NoneOldest ==
  ASSUME TypeOK, {} \in StaleCards
  PROVE  NeedingMetadata(known, seenAge) = {} \/ left = 0
<1> DEFINE needing == NeedingMetadata(known, seenAge)
<1>1. needing \in SUBSET Card
  BY DEF NeedingMetadata, TypeOK
<1>2. IsFiniteSet(needing) /\ Cardinality(needing) \in Nat
  BY <1>1, NatAssumption, FS_Subset, FS_CardinalityType
<1>3. Cardinality({}) = IF Cardinality(needing) < left * MetaBatch
                        THEN Cardinality(needing) ELSE left * MetaBatch
  BY DEF StaleCards, Oldest
<1>4. Cardinality({}) = 0
  BY FS_EmptySet
<1>5. Cardinality(needing) = 0 \/ left * MetaBatch = 0
  BY <1>2, <1>3, <1>4
<1>6. left \in Nat
  BY NatAssumption DEF TypeOK
<1>7. left * MetaBatch = 0 => left = 0
  BY <1>6, NatAssumption
<1> QED BY <1>2, <1>5, <1>7, FS_EmptySet

\* Metadata: the step is marked when nothing is outstanding, or the day has no
\* request left.
LEMMA MetaBegun ==
  ASSUME TypeOK, PlaceInv, Begun,
         \/ MaybeRefreshMetadata \/ MetaTake \/ MetaFetch \/ MetaParse \/ MetaDone
         \/ MetaFetchFails \/ MetaParseFails
  PROVE  Begun' /\ Marked
<1>1. run \in RunState
  BY DEF TypeOK
<1>2. CASE MaybeRefreshMetadata
  <2>1. /\ pc = "metadata" /\ pc' \in {"reference", "meta"}
        /\ InStep = {} /\ InStep' = {} /\ pc' # "idle"
    BY <1>2, InStepIs DEF MaybeRefreshMetadata, MetaPc
  <2>2. CASE run' = run
    BY <2>1, <2>2, NotDue
  <2>3. CASE ~(run' = run)
    <3>1. PICK stale \in StaleCards :
            LET r == [run EXCEPT !.begun = @ \cup {"metadata_ran"},
                        !.step = "metadata_ran", !.kind = 0, !.complete = TRUE,
                        !.todo = stale, !.asked = 0] IN
            IF stale = {} THEN RecordStep("metadata_ran", r) /\ pc' = "reference"
                          ELSE run' = r /\ stepAge' = stepAge /\ pc' = "meta"
      BY <1>2, <2>3 DEF MaybeRefreshMetadata
    <3> DEFINE r == [run EXCEPT !.begun = @ \cup {"metadata_ran"},
                       !.step = "metadata_ran", !.kind = 0, !.complete = TRUE,
                       !.todo = stale, !.asked = 0]
    <3>2. /\ r.status = run.status /\ r.begun = run.begun \cup {"metadata_ran"}
          /\ r.flags = run.flags /\ r.degraded = run.degraded
      BY <1>1 DEF RunState
    <3>3. [r EXCEPT !.flags = @ \cup {"metadata_ran"}].status = run.status
          /\ [r EXCEPT !.flags = @ \cup {"metadata_ran"}].begun = run.begun \cup {"metadata_ran"}
          /\ [r EXCEPT !.flags = @ \cup {"metadata_ran"}].flags = run.flags \cup {"metadata_ran"}
          /\ [r EXCEPT !.flags = @ \cup {"metadata_ran"}].degraded = run.degraded
      BY <1>1 DEF RunState
    <3> HIDE DEF r
    <3>4. run' = r \/ (stale = {} /\ run' = [r EXCEPT !.flags = @ \cup {"metadata_ran"}])
      BY <3>1 DEF RecordStep, r
    <3>5. /\ run'.status = run.status /\ run'.begun = run.begun \cup {"metadata_ran"}
          /\ run'.degraded = run.degraded
          /\ run'.flags = run.flags
               \/ (stale = {} /\ run'.flags = run.flags \cup {"metadata_ran"})
      BY <3>2, <3>3, <3>4
    <3>6. Begun'
      BY <2>1, <3>5, GoesOn
    <3>7. Marked
      BY <2>1, <3>5, NothingMarked, NoneOldest
      DEF Marked, WalkWholeStep, ReferenceWholeStep, MetadataDoneStep
    <3> QED BY <3>6, <3>7
  <2> QED BY <2>2, <2>3
<1>3. CASE MetaTake
  <2>1. /\ pc \in MetaPc /\ pc' \in MetaPc
        /\ run'.status = run.status /\ run'.begun = run.begun /\ run'.flags = run.flags
        /\ run'.degraded = run.degraded /\ InStep = {} /\ InStep' = {}
    BY <1>1, <1>3, InStepIs DEF MetaTake, MetaPc, RunState
  <2> QED BY <2>1, GoesOn, NothingMarked DEF MetaPc
<1>4. CASE MetaFetch
  <2>1. /\ pc \in MetaPc /\ pc' \in MetaPc
        /\ run'.status = run.status /\ run'.begun = run.begun /\ run'.flags = run.flags
        /\ run'.degraded = run.degraded /\ InStep = {} /\ InStep' = {}
    BY <1>1, <1>4, InStepIs DEF MetaFetch, MetaPc, RunState
  <2> QED BY <2>1, GoesOn, NothingMarked DEF MetaPc
<1>5. CASE MetaFetchFails
  BY <1>1, <1>5, StoppedShort DEF MetaFetchFails, MetaPc
<1>6. CASE MetaParse \/ MetaParseFails
  <2>1. pc = "meta_parse" /\ pc \in MetaPc /\ "meta" \in MetaPc
    BY <1>6 DEF MetaParse, MetaParseFails, MetaPc
  <2>2. InHand \in Answer
    BY <2>1, InHandType
  <2>3. /\ Parsed \in RunState /\ Parsed.status = run.status /\ Parsed.begun = run.begun
        /\ Parsed.flags = run.flags /\ Parsed.step = run.step
        /\ Parsed.degraded = run.degraded /\ Parsed.complete = run.complete
    BY <1>1, <2>2 DEF Parsed, RunState
  <2>4. CASE StopShort(run, "meta")
    BY <1>1, <2>1, <2>4, StoppedShort
  <2>5. CASE run' = Parsed /\ pc' = "meta"
    BY <2>1, <2>3, <2>5, MovesOn
  <2>6. CASE MetaParse
    <3>1. /\ run'.status = run.status /\ run'.begun = run.begun /\ run'.flags = run.flags
          /\ ~run'.degraded => ~run.degraded
          /\ run'.complete = run.complete /\ run'.step = run.step
      BY <2>3, <2>6 DEF MetaParse, RunState
    <3> QED BY <2>1, <2>6, <3>1, MovesOn DEF MetaParse
  <2> QED BY <1>6, <2>4, <2>5, <2>6 DEF MetaParseFails
<1>7. CASE MetaDone
  <2>1. /\ pc \in MetaPc /\ pc # "idle" /\ pc' = "reference" /\ pc' # "idle"
        /\ InStep = {} /\ InStep' = {}
    BY <1>7, InStepIs DEF MetaDone, MetaPc
  <2> DEFINE done == run.complete /\ NeedingMetadata(known, seenAge) = {}
  <2>2. EndStep("metadata_ran", done) /\ "metadata_ran" \in Step /\ done \in BOOLEAN
    BY <1>1, <1>7 DEF MetaDone, Step, RunState
  <2>3. /\ run'.status = run.status /\ run'.begun = run.begun /\ run'.degraded = run.degraded
        /\ run'.flags = IF done THEN run.flags \cup {"metadata_ran"} ELSE run.flags
    BY <2>2, EndStepIs
  <2>4. Begun'
    BY <2>1, <2>3, GoesOn
  <2>5. Marked
    BY <2>3 DEF Marked, WalkWholeStep, ReferenceWholeStep, MetadataDoneStep
  <2> QED BY <2>4, <2>5
<1> QED BY <1>2, <1>3, <1>4, <1>5, <1>6, <1>7

\* A list that ends in the step of the lists: short of its end, it degrades
\* the run.
LEMMA ListBegun ==
  ASSUME Begun, NEW r \in RunState, NEW short \in BOOLEAN, NextKind(r, short), pc \in RefPc,
         r.status = run.status, r.begun = run.begun, r.flags = run.flags, r.step = run.step,
         r.degraded = run.degraded, r.complete = run.complete
  PROVE  Begun' /\ Marked
<1>1. /\ run'.status = run.status /\ run'.begun = run.begun /\ run'.flags = run.flags
      /\ run'.step = run.step
      /\ run'.degraded = (run.degraded \/ short) /\ run'.complete = (run.complete /\ ~short)
      /\ run.complete \in BOOLEAN
  BY DEF NextKind, RunState
<1>2. pc' \in RefPc
  BY DEF NextKind, RefPc
<1>3. ~run'.degraded => ~run.degraded /\ run'.complete = run.complete
  <2>1. CASE short
    BY <1>1, <2>1
  <2>2. CASE ~short
    BY <1>1, <2>2
  <2> QED BY <2>1, <2>2
<1> QED BY <1>1, <1>2, <1>3, MovesOn

\* Reference lists: the step is marked when every page of every list was
\* parsed or passed over.
LEMMA RefBegun ==
  ASSUME TypeOK, PlaceInv, RefInv, Begun,
         \/ MaybeRefresh \/ RefTake \/ RefFetch \/ RefParse \/ RefDone
         \/ RefFetchFails \/ RefFetchMisleads \/ RefParseFails
  PROVE  Begun' /\ Marked
<1>1. run \in RunState
  BY DEF TypeOK
<1>2. CASE MaybeRefresh
  <2>1. pc = "reference" /\ pc # "idle" /\ InStep = {}
    BY <1>2, InStepIs DEF MaybeRefresh
  <2>2. CASE pc' = "prices"
    <3>1. run' = run /\ InStep' = {} /\ pc' # "idle"
      BY <1>2, <2>2, InStepIs DEF MaybeRefresh
    <3> QED BY <2>1, <3>1, NotDue
  <2>3. CASE pc' # "prices"
    <3>1. /\ pc' = "ref"
          /\ run' = [run EXCEPT !.begun = @ \cup {"reference_ran"},
                       !.step = "reference_ran", !.kind = 1, !.page = 1,
                       !.pages = 0, !.complete = TRUE]
      BY <1>2, <2>3 DEF MaybeRefresh
    <3>2. /\ run'.status = run.status /\ run'.begun = run.begun \cup {"reference_ran"}
          /\ run'.flags = run.flags /\ run'.degraded = run.degraded
          /\ run'.complete = TRUE /\ run'.step = "reference_ran"
      BY ONLY <1>1, <3>1 DEF RunState
    <3>3. pc' \in RefPc /\ "reference_ran" \in Step
      BY <3>1 DEF RefPc, Step
    <3>4. Begun'
      BY <2>1, <3>2, <3>3, StepBegins
    <3> QED BY <3>2, <3>4, NothingMarked
  <2> QED BY <2>2, <2>3
<1>3. CASE RefTake
  <2>1. /\ pc \in RefPc /\ {"ref_done", "ref_fetch"} \subseteq RefPc
        /\ \/ StopShort(run, "ref_done") \/ NextKind(run, TRUE)
           \/ run' = run /\ pc' = "ref_fetch"
    BY <1>3 DEF RefTake, RefPc
  <2>2. CASE StopShort(run, "ref_done")
    BY <1>1, <2>1, <2>2, StoppedShort
  <2>3. CASE NextKind(run, TRUE)
    BY <1>1, <2>1, <2>3, ListBegun
  <2>4. CASE run' = run /\ pc' = "ref_fetch"
    BY <2>1, <2>4, MovesOn
  <2> QED BY <2>1, <2>2, <2>3, <2>4
<1>4. CASE RefFetch \/ RefFetchMisleads
  <2>1. pc = "ref_fetch" /\ pc \in RefPc /\ pc' \in RefPc /\ InHand \in Answer
    BY <1>4, InHandType DEF RefFetch, RefFetchMisleads, RefPc
  <2>2. \E next \in Nat : ReceiveList(next)
    BY <1>4, NextType DEF RefFetch, RefFetchMisleads
  <2>3. /\ run'.status = run.status /\ run'.begun = run.begun /\ run'.flags = run.flags
        /\ run'.degraded = run.degraded /\ run'.complete = run.complete
        /\ run'.step = run.step
    BY <2>1, <2>2, ReceivedList
  <2> QED BY <2>1, <2>3, MovesOn
<1>5. CASE RefFetchFails
  BY <1>1, <1>5, ListBegun DEF RefFetchFails, RefPc
<1>6. CASE RefParse \/ RefParseFails
  <2>1. pc = "ref_parse" /\ pc \in RefPc /\ "ref" \in RefPc
    BY <1>6 DEF RefParse, RefParseFails, RefPc
  <2>2. InHand \in Answer
    BY <2>1, InHandType
  <2>3. /\ Parsed \in RunState /\ Parsed.status = run.status /\ Parsed.begun = run.begun
        /\ Parsed.flags = run.flags /\ Parsed.step = run.step
        /\ Parsed.degraded = run.degraded /\ Parsed.complete = run.complete
    BY <1>1, <2>2 DEF Parsed, RunState
  <2>4. CASE NextKind(Parsed, FALSE) \/ NextKind(Parsed, TRUE) \/ NextKind(run, TRUE)
    BY <1>1, <2>1, <2>3, <2>4, ListBegun
  <2>5. CASE run' = [Parsed EXCEPT !.page = run.next] /\ pc' = "ref"
    <3>1. /\ run'.status = run.status /\ run'.begun = run.begun /\ run'.flags = run.flags
          /\ run'.degraded = run.degraded /\ run'.complete = run.complete
          /\ run'.step = run.step
      BY <2>3, <2>5 DEF RunState
    <3> QED BY <2>1, <2>5, <3>1, MovesOn
  <2> QED BY <1>6, <2>4, <2>5 DEF RefParse, RefParseFails
<1>7. CASE RefDone
  <2>1. /\ pc \in RefPc /\ pc' = "prices" /\ run.step = "reference_ran"
        /\ EndStep(run.step, run.complete) /\ run.step \in Step /\ run.complete \in BOOLEAN
    BY <1>1, <1>7 DEF RefDone, RefPc, PlaceInv, RunState
  <2>2. Begun'
    BY <2>1, StepEnds
  <2>3. run'.flags = IF run.complete THEN run.flags \cup {"reference_ran"} ELSE run.flags
    BY <2>1, EndStepIs
  <2>4. CASE ~run.complete
    BY <2>2, <2>3, <2>4, NothingMarked
  <2>5. CASE run.complete
    <3>1. ASSUME NEW k \in 1..Len(RefKinds), NEW p \in 1..RefPages
          PROVE  [step |-> "reference_ran", kind |-> k, page |-> p] \in run.parsed \cup run.passed
      <4>1. run.kind > Len(RefKinds) /\ run.kind \in Nat
        BY <1>1, <1>7, <2>1, <2>5 DEF RefDone, RefInv, RunState
      <4>2. k < run.kind
        BY <4>1, NatAssumption
      <4> QED BY <2>1, <2>5, <4>2 DEF RefInv, Accounted
    <3>2. Marked
      BY <2>3, <3>1 DEF Marked, WalkWholeStep, ReferenceWholeStep, MetadataDoneStep
    <3> QED BY <2>2, <3>2
  <2> QED BY <2>1, <2>4, <2>5
<1> QED BY <1>2, <1>3, <1>4, <1>5, <1>6, <1>7

\* A run starts with nothing begun, and ends ok only when it is not degraded.
LEMMA OtherBegun ==
  ASSUME TypeOK, Begun,
         \/ Start \/ Prices \/ Close \/ StatementFails \/ Killed \/ Tick
         \/ (\E c \in Card : Release(c) \/ Repoint(c)) \/ UNCHANGED vars
  PROVE  Begun' /\ Marked
<1>1. run \in RunState /\ FreshRun \in RunState
  BY FreshType DEF TypeOK
<1>2. CASE Start
  <2>1. /\ run'.flags = {} /\ run'.begun = {} /\ run'.status = "running" /\ InStep' = {}
    BY <1>2, InStepIs DEF Start, FreshRun
  <2>2. Begun'
    BY <2>1 DEF Begun, BegunInv, OkMeansWalked
  <2> QED BY <2>1, <2>2, NothingMarked
<1>3. CASE Prices
  <2>1. /\ run'.status = run.status /\ run'.begun = run.begun /\ run'.flags = run.flags
        /\ ~run'.degraded => ~run.degraded
    BY <1>1, <1>3 DEF Prices, RunState
  <2>2. pc # "idle" /\ pc' # "idle" /\ InStep = {} /\ InStep' = {}
    BY <1>3, InStepIs DEF Prices
  <2> QED BY <2>1, <2>2, GoesOn, NothingMarked
<1>4. ASSUME NEW status \in Status
      PROVE  /\ EndedRun(status).flags = run.flags /\ EndedRun(status).begun = run.begun
             /\ EndedRun(status).status = status
  BY <1>1 DEF EndedRun, RunState
<1>5. CASE Close
  <2>1. /\ pc = "close" /\ pc' = "idle"
        /\ run' = EndedRun(IF run.degraded THEN "degraded" ELSE "ok")
    BY <1>5 DEF Close
  <2>2. /\ run'.flags = run.flags /\ run'.begun = run.begun
        /\ run'.status = "ok" => ~run.degraded
    BY <1>4, <2>1 DEF Status
  <2>3. InStep = {}
    BY <2>1, InStepIs
  <2>4. Begun'
    BY <2>1, <2>2, <2>3 DEF Begun, BegunInv, OkMeansWalked
  <2> QED BY <2>2, <2>4, NothingMarked
<1>6. CASE StatementFails \/ Killed
  <2>1. pc' = "idle" /\ (run' = EndedRun("failed") \/ run' = EndedRun("killed"))
    BY <1>6 DEF StatementFails, Killed
  <2>2. run'.flags = run.flags /\ run'.status \in {"failed", "killed"}
    BY <1>4, <2>1 DEF Status
  <2>3. Begun'
    BY <2>1, <2>2 DEF Begun, BegunInv, OkMeansWalked
  <2> QED BY <2>2, <2>3, NothingMarked
<1>7. CASE Tick \/ (\E c \in Card : Release(c) \/ Repoint(c)) \/ UNCHANGED vars
  <2>1. pc' = pc /\ run' = run
    BY <1>7 DEF Tick, Release, Repoint, vars
  <2>2. Begun'
    BY <2>1 DEF Begun, BegunInv, OkMeansWalked, InStep
  <2> QED BY <2>1, <2>2, NothingMarked
<1> QED BY <1>2, <1>3, <1>5, <1>6, <1>7

-----------------------------------------------------------------------------
(* The theorems.                                                            *)

LEMMA InitInv == Init => IInv
<1> SUFFICES ASSUME Init PROVE IInv
  OBVIOUS
<1>1. TypeOK
  BY InitTypes
<1>2. pc = "idle" /\ run.status = "none"
  BY DEF Init, FreshRun
<1>3. PlaceInv /\ WalkInv /\ RefInv
  BY <1>2 DEF PlaceInv, WalkInv, RefInv, WalkPc, MetaPc, RefPc
<1>4. BegunInv /\ OkMeansWalked
  BY <1>2 DEF BegunInv, OkMeansWalked
<1> QED BY <1>1, <1>3, <1>4 DEF IInv

\* Every step keeps the invariant, and marks a step only as it should.
LEMMA StepInv ==
  ASSUME IInv, [Next]_vars PROVE IInv' /\ Marked
<1>1. TypeOK' /\ PlaceInv' /\ WalkInv' /\ RefInv'
  BY StepPlaces DEF IInv
<1>2. Begun' /\ Marked
  BY WalkBegun, MetaBegun, RefBegun, OtherBegun
  DEF IInv, Begun, Next, Work, Fault, Misled, Discovery, Metadata, Reference
<1> QED BY <1>1, <1>2 DEF IInv, Begun

\* SlowSteps keeps its types: no request is made beyond the budget of the day,
\* every card it holds was published, and only identifiers it holds are given
\* to another card.
THEOREM SlowStepsTypes == Spec => []TypeOK
<1>1. IInv => TypeOK
  BY DEF IInv
<1> QED BY <1>1, InitInv, StepInv, PTL DEF Spec

\* A run that ends ok finished every walk and every list it began
\* (walk, reference::maybe_refresh).
THEOREM OkRunsWalked == Spec => []OkMeansWalked
<1>1. IInv => OkMeansWalked
  BY DEF IInv
<1> QED BY <1>1, InitInv, StepInv, PTL DEF Spec

\* A walk marked done knows every card its list held as it began but for those
\* that an answer left out, whatever is published while it runs, whatever the
\* answers say and wherever it was cut (walk: complete).
THEOREM WalksAreWhole == Spec => WalkDoneIsWhole
<1>1. IInv /\ [Next]_vars => [WalkWholeStep]_vars
  BY StepInv DEF Marked
<1>2. WalkWholeStep <=> \A s \in {"discovery_ran", "new_assets_ran"} :
                          s \in run'.flags \ run.flags => run.owed \subseteq known
  BY DEF WalkWholeStep
<1> QED BY <1>1, <1>2, InitInv, StepInv, PTL DEF Spec, WalkDoneIsWhole

\* The reference step marked done parsed every page of every list but for those
\* that an answer passed over (reference::maybe_refresh: complete).
THEOREM ReferencesAreWhole == Spec => ReferenceDoneIsWhole
<1>1. IInv /\ [Next]_vars => [ReferenceWholeStep]_vars
  BY StepInv DEF Marked
<1>2. ReferenceWholeStep <=>
        ("reference_ran" \in run'.flags \ run.flags =>
           \A k \in 1..Len(RefKinds), p \in 1..RefPages :
             [step |-> "reference_ran", kind |-> k, page |-> p]
               \in run.parsed \cup run.passed)
  BY DEF ReferenceWholeStep
<1> QED BY <1>1, <1>2, InitInv, StepInv, PTL DEF Spec, ReferenceDoneIsWhole

\* The metadata step marked done left no card that needs attributes, or the
\* day had no request left when it looked (maybe_refresh_metadata).
THEOREM MetadataIsDone == Spec => MetadataDoneUnlessBroke
<1>1. IInv /\ [Next]_vars => [MetadataDoneStep]_vars
  BY StepInv DEF Marked
<1>2. MetadataDoneStep <=>
        ("metadata_ran" \in run'.flags \ run.flags =>
           NeedingMetadata(known, seenAge) = {} \/ (pc = "metadata" /\ left = 0))
  BY DEF MetadataDoneStep
<1> QED BY <1>1, <1>2, InitInv, StepInv, PTL DEF Spec, MetadataDoneUnlessBroke

=============================================================================

--------------------------- MODULE ScheduleProofs ---------------------------
(* Theorems of Schedule: the rows of asset_poll_state agree with the        *)
(* attributes of their cards and, wherever the price loop reads them, with  *)
(* the covered set, for any cards, coverage, budget and backoff; and what   *)
(* was read stays inside the trust window when the rotation fits in it.     *)
EXTENDS Schedule, FiniteSetTheorems, FunctionTheorems, TLAPS

\* A run that was through ensure_poll_state has a row for every covered card.
EnsuredInv == pc = "drop" => Covered \subseteq Held

SchedInv == TypeOK /\ IntervalHonest /\ CoverageExact /\ EnsuredInv

-----------------------------------------------------------------------------
(* Rows.                                                                    *)

LEMMA Bounds ==
  /\ Null \in Nat /\ OldAge \in Nat /\ OldAge < Null
  /\ MaxBackoff - 1 \in Nat /\ DailyBudget \in Nat /\ Fast \in Nat /\ Slow \in Nat
<1>1. Slow * MaxBackoff \in Nat /\ TrustWindow \in Nat
  BY ScheduleAssumption DEF ScheduleAssumption, TrustWindow
<1>2. OldAge \in Nat
  BY <1>1 DEF OldAge
<1> QED BY <1>1, <1>2, ScheduleAssumption DEF ScheduleAssumption, Null

LEMMA NoRowIsRow == NoRow \in Row
BY Bounds DEF NoRow, Row

\* The row of a card that enters the covered set.
LEMMA NewRowIsRow ==
  ASSUME NEW v \in Value
  PROVE  /\ [NoRow EXCEPT !.held = TRUE, !.interval = PollInterval(v)] \in Row
         /\ [NoRow EXCEPT !.held = TRUE, !.interval = PollInterval(v)].held = TRUE
         /\ [NoRow EXCEPT !.held = TRUE, !.interval = PollInterval(v)].interval = PollInterval(v)
BY NoRowIsRow DEF NoRow, Row, PollInterval

\* A poll leaves a row of the same interval.
LEMMA PolledIsRow ==
  ASSUME polls \in [Asset -> Row], NEW a \in Asset, NEW refused
  PROVE  /\ Polled(a, refused) \in Row
         /\ Polled(a, refused).held = polls[a].held
         /\ Polled(a, refused).interval = polls[a].interval
<1> DEFINE counts == [m \in Market |->
             IF m \in refused THEN Smaller(polls[a].failures[m] + 1, MaxBackoff - 1)
                              ELSE 0]
<1>1. polls[a] \in Row /\ polls[a].failures \in [Market -> 0..(MaxBackoff - 1)]
  BY DEF Row
<1>2. ASSUME NEW m \in Market
      PROVE  counts[m] \in 0..(MaxBackoff - 1)
  BY <1>1, <1>2, Bounds DEF Smaller
<1>3. counts \in [Market -> 0..(MaxBackoff - 1)] /\ 0 \in 0..Null
  BY <1>2, Bounds
<1>4. Polled(a, refused) = [polls[a] EXCEPT !.age = 0, !.failures = counts]
  BY DEF Polled
<1> HIDE DEF counts
<1> QED BY <1>1, <1>3, <1>4 DEF Row

LEMMA OlderIsRow ==
  ASSUME polls \in [Asset -> Row], NEW a \in Asset
  PROVE  /\ [polls[a] EXCEPT !.age = Older(@)] \in Row
         /\ [polls[a] EXCEPT !.age = Older(@)].held = polls[a].held
         /\ [polls[a] EXCEPT !.age = Older(@)].interval = polls[a].interval
<1>1. polls[a] \in Row /\ polls[a].age \in 0..Null
  BY DEF Row
<1>2. Older(polls[a].age) \in 0..Null
  BY <1>1, Bounds DEF Older
<1> QED BY <1>1, <1>2 DEF Row

\* What the LIMIT takes is part of what it is given.
LEMMA FirstIsPart ==
  ASSUME NEW set, NEW n, NEW S \in First(set, n)
  PROVE  S \subseteq set
BY DEF First

-----------------------------------------------------------------------------
(* The invariant.                                                           *)

LEMMA ScheduleInit == Init => SchedInv
<1> SUFFICES ASSUME Init PROVE SchedInv
  OBVIOUS
<1>1. polls \in [Asset -> Row] /\ Held = {}
  BY NoRowIsRow DEF Init, Held, NoRow
<1>2. value \in [Asset -> Value] /\ newer \in [Asset -> SUBSET Asset] /\ left \in 0..DailyBudget
  BY Bounds DEF Init, Value
<1>3. TypeOK
  BY <1>1, <1>2 DEF Init, TypeOK, Pc
<1>4. IntervalHonest
  BY <1>1 DEF IntervalHonest
<1> QED BY <1>3, <1>4 DEF Init, SchedInv, CoverageExact, EnsuredInv

\* A step that leaves the rows and the attributes, and does not pass a stage of
\* apply_coverage.
LEMMA QuietStep ==
  ASSUME SchedInv, UNCHANGED <<value, polls>>, TypeOK',
         pc' \in {"due", "batch", "fetch", "store"} => pc \in {"due", "batch", "fetch", "store"},
         pc' = "drop" => pc = "drop"
  PROVE  SchedInv'
BY DEF SchedInv, IntervalHonest, CoverageExact, EnsuredInv, Held, Covered, Ahead

\* The same of a step that rewrites rows, but not which are there nor their
\* intervals.
LEMMA RowsStep ==
  ASSUME SchedInv, UNCHANGED value, TypeOK',
         \A a \in Asset : /\ polls'[a].held = polls[a].held
                          /\ polls'[a].interval = polls[a].interval,
         pc' \in {"due", "batch", "fetch", "store"} => pc \in {"due", "batch", "fetch", "store"},
         pc' = "drop" => pc = "drop"
  PROVE  SchedInv'
<1>1. Held' = Held /\ Covered' = Covered
  BY DEF Held, Covered, Ahead
<1>2. IntervalHonest'
  BY <1>1 DEF SchedInv, IntervalHonest, Held
<1> QED BY <1>1, <1>2 DEF SchedInv, CoverageExact, EnsuredInv

LEMMA ScheduleStep ==
  ASSUME SchedInv, [Next]_vars
  PROVE  SchedInv'
<1> USE DEF Pc
<1>1. TypeOK
  BY DEF SchedInv
<1>2. CASE StartRun \/ StepsDone \/ Fetch \/ EndRun \/ Spend
  <2>1. left' \in 0..DailyBudget
    BY <1>1, <1>2, Bounds DEF StartRun, StepsDone, Fetch, EndRun, Spend, TypeOK
  <2>2. pc' \in Pc /\ served' \in BOOLEAN
    BY <1>1, <1>2 DEF StartRun, StepsDone, Fetch, EndRun, Spend, TypeOK
  <2>3. UNCHANGED <<value, polls, newer, todo, chunk>>
    BY <1>2 DEF StartRun, StepsDone, Fetch, EndRun, Spend
  <2>4. TypeOK'
    BY <1>1, <2>1, <2>2, <2>3 DEF TypeOK
  <2> QED BY <1>2, <2>4, QuietStep DEF StartRun, StepsDone, Fetch, EndRun, Spend
<1>3. CASE FetchBroken \/ LoseBatch \/ Abort
  <2>1. TypeOK'
    BY <1>1, <1>3 DEF FetchBroken, LoseBatch, Abort, TypeOK
  <2> QED BY <1>3, <2>1, QuietStep DEF FetchBroken, LoseBatch, Abort
<1>4. CASE Plan
  <2>1. todo' \subseteq Asset
    BY <1>4, FirstIsPart DEF Plan, Held
  <2>2. TypeOK'
    BY <1>1, <1>4, <2>1 DEF Plan, TypeOK
  <2> QED BY <1>4, <2>2, QuietStep DEF Plan
<1>5. CASE TakeBatch
  <2>1. chunk' \subseteq todo
    BY <1>5, FirstIsPart DEF TakeBatch
  <2>2. TypeOK'
    BY <1>1, <1>5, <2>1, Bounds DEF TakeBatch, TypeOK
  <2> QED BY <1>5, <2>2, QuietStep DEF TakeBatch
<1>6. CASE StoreBatch
  <2>1. PICK refused \in [chunk -> SUBSET Market] :
          polls' = [a \in Asset |-> IF a \in chunk THEN Polled(a, refused[a]) ELSE polls[a]]
    BY <1>6 DEF StoreBatch
  <2>2. polls \in [Asset -> Row]
    BY <1>1 DEF TypeOK
  <2>3. ASSUME NEW a \in Asset
        PROVE  /\ polls'[a] \in Row
               /\ polls'[a].held = polls[a].held
               /\ polls'[a].interval = polls[a].interval
    BY <2>1, <2>2, <2>3, PolledIsRow
  <2>4. polls' \in [Asset -> Row]
    BY <2>1, <2>3
  <2>5. newer' \in [Asset -> SUBSET Asset]
    BY <1>1, <1>6 DEF StoreBatch, TypeOK
  <2>6. TypeOK'
    BY <1>1, <1>6, <2>4, <2>5 DEF StoreBatch, TypeOK
  <2> QED BY <1>6, <2>3, <2>6, RowsStep DEF StoreBatch
<1>7. CASE Tick
  <2>1. polls \in [Asset -> Row] /\ polls' = [a \in Asset |-> [polls[a] EXCEPT !.age = Older(@)]]
    BY <1>1, <1>7 DEF Tick, TypeOK
  <2>2. ASSUME NEW a \in Asset
        PROVE  /\ polls'[a] \in Row
               /\ polls'[a].held = polls[a].held
               /\ polls'[a].interval = polls[a].interval
    BY <2>1, <2>2, OlderIsRow
  <2>4. polls' \in [Asset -> Row] /\ left' \in 0..DailyBudget
    BY <1>7, <2>1, <2>2, Bounds DEF Tick
  <2>3. TypeOK'
    BY <1>1, <1>7, <2>4 DEF Tick, TypeOK
  <2> QED BY <1>7, <2>2, <2>3, RowsStep DEF Tick
<1>8. ASSUME NEW a \in Asset, NEW v \in Value, Learn(a, v)
      PROVE  SchedInv'
  <2>1. /\ pc = "steps" /\ pc' = "steps"
        /\ value' = [value EXCEPT ![a] = v] /\ value \in [Asset -> Value]
        /\ polls \in [Asset -> Row]
    BY <1>1, <1>8 DEF Learn, TypeOK
  <2>2. [polls[a] EXCEPT !.interval = PollInterval(v)] \in Row
    BY <2>1 DEF Row, PollInterval
  <2>3. polls' \in [Asset -> Row] /\ value' \in [Asset -> Value]
    BY <1>8, <2>1, <2>2 DEF Learn
  <2>4. TypeOK'
    BY <1>1, <1>8, <2>1, <2>3 DEF Learn, TypeOK
  <2>5. ASSUME NEW b \in Held'
        PROVE  polls'[b].interval = PollInterval(value'[b])
    <3>1. CASE b = a
      BY <1>8, <2>1, <2>5, <3>1 DEF Learn, Held, Row
    <3>2. CASE b # a
      <4>1. b \in Asset /\ polls'[b] = polls[b] /\ value'[b] = value[b]
        BY <1>8, <2>1, <2>5, <3>2 DEF Learn, Held
      <4>2. b \in Held
        BY <2>5, <4>1 DEF Held
      <4> QED BY <4>1, <4>2 DEF SchedInv, IntervalHonest
    <3> QED BY <3>1, <3>2
  <2>6. IntervalHonest'
    BY <2>5 DEF IntervalHonest
  <2> QED BY <2>1, <2>4, <2>6 DEF SchedInv, CoverageExact, EnsuredInv
<1>9. CASE EnsurePollState
  <2> DEFINE added == Covered \ Held
  <2>1. /\ polls' = [a \in Asset |->
              IF a \in added
              THEN [NoRow EXCEPT !.held = TRUE, !.interval = PollInterval(value[a])]
              ELSE polls[a]]
        /\ value' = value /\ pc' = "drop"
    BY <1>9 DEF EnsurePollState
  <2>2. polls \in [Asset -> Row] /\ value \in [Asset -> Value]
    BY <1>1 DEF TypeOK
  <2>3. ASSUME NEW a \in Asset
        PROVE  /\ polls'[a] \in Row
               /\ polls'[a].held <=> a \in Held \cup Covered
               /\ a \in added => polls'[a].interval = PollInterval(value[a])
               /\ a \notin added => polls'[a] = polls[a]
    <3>1. value[a] \in Value
      BY <2>2
    <3>2. CASE a \in added
      BY <2>1, <3>1, <3>2, NewRowIsRow
    <3>3. CASE a \notin added
      BY <2>1, <2>2, <3>3 DEF Held
    <3> QED BY <3>2, <3>3
  <2>4. newer' \in [Asset -> SUBSET Asset]
    BY <1>1, <1>9 DEF EnsurePollState, TypeOK, Held
  <2>5. TypeOK'
    BY <1>1, <1>9, <2>1, <2>3, <2>4 DEF EnsurePollState, TypeOK
  <2>6. IntervalHonest'
    BY <2>1, <2>3 DEF SchedInv, IntervalHonest, Held
  <2>7. Covered' \subseteq Held'
    BY <2>1, <2>3 DEF Covered, Ahead, Held
  <2> QED BY <2>1, <2>5, <2>6, <2>7 DEF SchedInv, CoverageExact, EnsuredInv
<1>10. CASE DropOutside
  <2>1. /\ polls' = [a \in Asset |-> IF a \in Covered THEN polls[a] ELSE NoRow]
        /\ value' = value /\ pc = "drop" /\ pc' = "due"
    BY <1>10 DEF DropOutside
  <2>2. polls \in [Asset -> Row] /\ Covered \subseteq Held
    BY <1>1, <2>1 DEF TypeOK, SchedInv, EnsuredInv
  <2>3. newer' \in [Asset -> SUBSET Asset]
    BY <1>1, <1>10 DEF DropOutside, TypeOK, Covered
  <2>4. polls' \in [Asset -> Row]
    BY <2>1, <2>2, NoRowIsRow
  <2>5. TypeOK'
    BY <1>1, <1>10, <2>3, <2>4 DEF DropOutside, TypeOK
  <2>6. Held' = Covered
    BY <2>1, <2>2 DEF Held, NoRow, Covered
  <2>7. Covered' = Covered
    BY <2>1 DEF Covered, Ahead
  <2>8. IntervalHonest'
    BY <2>1, <2>2, <2>6 DEF SchedInv, IntervalHonest, Held
  <2> QED BY <2>1, <2>5, <2>6, <2>7, <2>8 DEF SchedInv, CoverageExact, EnsuredInv
<1>11. CASE UNCHANGED vars
  <2>1. TypeOK'
    BY <1>1, <1>11 DEF vars, TypeOK
  <2> QED BY <1>11, <2>1, QuietStep DEF vars
<1> QED
  BY <1>2, <1>3, <1>4, <1>5, <1>6, <1>7, <1>8, <1>9, <1>10, <1>11
     DEF Next, Run, Steps

-----------------------------------------------------------------------------
(* The theorems.                                                            *)

LEMMA ScheduleKept == Spec => []SchedInv
<1>1. SchedInv /\ [Next]_vars => SchedInv'
  BY ScheduleStep
<1> QED BY ScheduleInit, <1>1, PTL DEF Spec

\* Every variable of the schedule stays in its type.
THEOREM ScheduleTypes == Spec => []TypeOK
<1>1. SchedInv => TypeOK
  BY DEF SchedInv
<1> QED BY <1>1, ScheduleKept, PTL

\* A row's interval is that of its card's attributes, whichever of discovery and
\* the metadata step wrote last.
THEOREM IntervalsAreHonest == Spec => []IntervalHonest
<1>1. SchedInv => IntervalHonest
  BY DEF SchedInv
<1> QED BY <1>1, ScheduleKept, PTL

\* The price loop sees rows for exactly the covered cards, whatever a run that
\* was cut short left behind.
THEOREM CoverageIsExact == Spec => []CoverageExact
<1>1. SchedInv => CoverageExact
  BY DEF SchedInv
<1> QED BY <1>1, ScheduleKept, PTL

-----------------------------------------------------------------------------
(* The trust window.  A card of which a price was read falls due within     *)
(* Slow days.  From then on every day that does not read it reads DayReads  *)
(* cards that were before it, and those are after it from then on.  Others  *)
(* come before it only by entering the covered set, which they do once.     *)

\* A card whose fetch fails costs its request and no other card's turn: with
\* larger batches it takes those with it that are asked for beside it.
FaultsAlone == Broken # {} => BatchSize = 1 /\ Cardinality(Broken) <= DailyBudget

\* What a day reads of the cards that can be fetched.
DayReads == IF FaultsAlone THEN DailyBudget * BatchSize - Cardinality(Broken) ELSE 0

\* Covered cards that may be read before card a.
Before(a) == (Covered \ newer[a]) \ {a}

\* Cards of E that may still enter the covered set, and come before a then.
ToEnter(E, a) == {b \in E \ {a} : value[b] = 0}

\* A card of which a price was read the last time it was asked for.
Quoted(a) == polls[a].age # Null /\ \E m \in Market : polls[a].failures[m] = 0

\* Days that a was due and not read.
Missed(a) == IF polls[a].age > Slow THEN polls[a].age - Slow ELSE 0

\* What may still be read before a, and what a has seen pass.
Queue(E, a) == Cardinality(Before(a)) + Cardinality(ToEnter(E, a))
Wait(E, a) == Queue(E, a) + Missed(a) * DayReads
Longest(E, a) == (Coverage - 1) + Cardinality(E \ {a})

Loop == {"batch", "fetch", "store"}

\* The cards in hand have rows, and only the price loop has any in hand; none
\* is stored that cannot be fetched.
HandInv ==
  /\ \A a \in Broken : polls[a].age = Null
  /\ pc = "store" => chunk \cap Broken = {}
  /\ Cardinality(chunk) <= BatchSize
  /\ pc \notin {"fetch", "store"} => chunk = {}
  /\ pc \notin Loop => todo = {}
  /\ todo \cup chunk \subseteq Held /\ todo \cap chunk = {}

\* The first price loop of a day finds the whole day's requests.
DayInv == ~served /\ pc \notin Loop => left = DailyBudget

\* A card has never seen more pass than there were.
WaitInv(E) == \A a \in Held : Quoted(a) => Wait(E, a) <= Longest(E, a)

\* While the first price loop reads what it planned, those it did not plan will
\* have seen a day's worth pass when nothing is left in hand.
PlanInv(E) ==
  ~served /\ pc \in Loop =>
    \A a \in Held : Quoted(a) /\ polls[a].age >= Slow /\ a \notin todo \cup chunk =>
      /\ todo \cup chunk \subseteq Before(a)
      /\ Wait(E, a) + DayReads <= Longest(E, a) + Cardinality((todo \cup chunk) \ Broken)

\* Once it is through, every card that is still due has seen them pass.
ServedInv(E) ==
  served => \A a \in Held : Quoted(a) /\ polls[a].age >= Slow =>
              Wait(E, a) + DayReads <= Longest(E, a)

TrustInv(E) == HandInv /\ DayInv /\ WaitInv(E) /\ PlanInv(E) /\ ServedInv(E)

LEMMA PartIsFinite ==
  ASSUME NEW S \in SUBSET Asset PROVE IsFiniteSet(S) /\ Cardinality(S) \in Nat
BY ScheduleAssumption, FS_Subset, FS_CardinalityType DEF ScheduleAssumption

LEMMA DayReadsNat == DayReads \in Nat
<1>1. CASE Broken = {}
  BY <1>1, FS_EmptySet, ScheduleAssumption DEF ScheduleAssumption, DayReads
<1>2. CASE Broken # {}
  BY <1>2, PartIsFinite, ScheduleAssumption DEF ScheduleAssumption, DayReads, FaultsAlone
<1> QED BY <1>1, <1>2

LEMMA Products ==
  ASSUME NEW m \in Nat
  PROVE  /\ m * DayReads \in Nat
         /\ (m + 1) * DayReads = m * DayReads + DayReads
         /\ \A n \in Nat : m <= n => m * DayReads <= n * DayReads
<1>1. \A r \in Nat : /\ m * r \in Nat /\ (m + 1) * r = m * r + r
                     /\ \A n \in Nat : m <= n => m * r <= n * r
  OBVIOUS
<1> QED BY ONLY <1>1, DayReadsNat

\* The order of most_valuable_assets is a strict total order.
LEMMA AheadIsOrder ==
  ASSUME value \in [Asset -> Value], NEW a \in Asset, NEW b \in Asset
  PROVE  /\ ~Ahead(a, a)
         /\ a # b => Ahead(a, b) \/ Ahead(b, a)
         /\ \A c \in Asset : Ahead(c, a) /\ Ahead(a, b) => Ahead(c, b)
<1>1. \A c \in Asset : c \in Nat /\ value[c] \in 0..2
  BY ScheduleAssumption DEF ScheduleAssumption, Value
<1> QED BY <1>1 DEF Ahead

\* There are at most Coverage covered cards.
LEMMA CoveredIsSmall ==
  ASSUME value \in [Asset -> Value]
  PROVE  Cardinality(Covered) <= Coverage
<1> DEFINE ahead(a) == {b \in Asset : Ahead(b, a)}
           rank == [a \in Covered |-> Cardinality(ahead(a))]
           ranks == 0..(Coverage - 1)
<1>1. Coverage \in Nat /\ Covered \subseteq Asset
  BY ScheduleAssumption DEF ScheduleAssumption, Covered
<1>2. ASSUME NEW a \in Covered
      PROVE  /\ IsFiniteSet(ahead(a)) /\ Cardinality(ahead(a)) \in Nat
             /\ Cardinality(ahead(a)) < Coverage
  BY <1>2, PartIsFinite DEF Covered
<1>3. rank \in [Covered -> ranks]
  BY <1>1, <1>2
<1>4. ASSUME NEW a \in Covered, NEW b \in Covered, Ahead(a, b)
      PROVE  rank[a] # rank[b]
  <2>1. ahead(a) \subseteq ahead(b) /\ a \in ahead(b) /\ a \notin ahead(a)
    BY <1>1, <1>4, AheadIsOrder
  <2>2. Cardinality(ahead(b)) # Cardinality(ahead(a))
    BY <1>2, <2>1, FS_Subset
  <2> QED BY <2>2
<1>5. rank \in Injection(Covered, ranks)
  <2>1. ASSUME NEW a \in Covered, NEW b \in Covered, rank[a] = rank[b]
        PROVE  a = b
    <3>1. a # b => Ahead(a, b) \/ Ahead(b, a)
      BY <1>1, AheadIsOrder
    <3> QED BY <1>4, <2>1, <3>1
  <2> QED BY <1>3, <2>1, Fun_IsInj
<1>6. IsFiniteSet(ranks) /\ Cardinality(ranks) = Coverage
  BY <1>1, FS_Interval
<1> HIDE DEF ranks, rank
<1> QED BY <1>5, <1>6, FS_Injection

\* Attributes that arrive can bring in no card but their own.
LEMMA OnlyOwnEnters ==
  ASSUME TypeOK, TypeOK', NEW b \in Asset, NEW v \in Value, value[b] = 0, Learn(b, v)
  PROVE  Covered' \subseteq Covered \cup {b}
<1> DEFINE ahead(a) == {c \in Asset : Ahead(c, a)}
<1>1. /\ value \in [Asset -> Value] /\ value' = [value EXCEPT ![b] = v]
      /\ v \in 1..2 /\ \A c \in Asset : c \in Nat /\ value[c] \in 0..2
  BY ScheduleAssumption DEF ScheduleAssumption, TypeOK, Learn, Value
<1>2. ASSUME NEW a \in Covered', a # b
      PROVE  a \in Covered
  <2>1. a \in Asset /\ Cardinality(ahead(a)') < Coverage
    BY <1>2 DEF Covered
  <2>2. ahead(a) \subseteq ahead(a)'
    <3>1. ASSUME NEW c \in Asset, Ahead(c, a)
          PROVE  Ahead(c, a)'
      BY <1>1, <1>2, <2>1, <3>1 DEF Ahead
    <3> QED BY <3>1
  <2>3. Cardinality(ahead(a)) <= Cardinality(ahead(a)')
    BY <2>2, PartIsFinite, FS_Subset
  <2>4. /\ Cardinality(ahead(a)) \in Nat /\ Cardinality(ahead(a)') \in Nat /\ Coverage \in Nat
    BY PartIsFinite, ScheduleAssumption DEF ScheduleAssumption
  <2> QED BY <2>1, <2>3, <2>4 DEF Covered
<1> QED BY <1>2

\* The numbers are numbers.
LEMMA WaitIsNat ==
  ASSUME TypeOK, NEW E \in SUBSET Asset, NEW a \in Asset
  PROVE  /\ Before(a) \in SUBSET Asset /\ IsFiniteSet(Before(a)) /\ Cardinality(Before(a)) \in Nat
         /\ ToEnter(E, a) \in SUBSET Asset /\ IsFiniteSet(ToEnter(E, a))
         /\ Cardinality(ToEnter(E, a)) \in Nat
         /\ polls[a] \in Row /\ polls[a].age \in Nat
         /\ Missed(a) \in Nat /\ Missed(a) * DayReads \in Nat
         /\ Queue(E, a) \in Nat /\ Wait(E, a) \in Nat /\ Longest(E, a) \in Int
<1>1. Before(a) \in SUBSET Asset /\ ToEnter(E, a) \in SUBSET Asset
  BY DEF Before, ToEnter, Covered
<1>2. /\ IsFiniteSet(Before(a)) /\ Cardinality(Before(a)) \in Nat
      /\ IsFiniteSet(ToEnter(E, a)) /\ Cardinality(ToEnter(E, a)) \in Nat
  BY <1>1, PartIsFinite
<1>3. polls[a] \in Row /\ polls[a].age \in Nat /\ Slow \in Nat
  BY Bounds DEF TypeOK, Row
<1>4. Missed(a) \in Nat
  BY <1>3 DEF Missed
<1>5. Missed(a) * DayReads \in Nat
  BY <1>4, Products
<1>6. Cardinality(E \ {a}) \in Nat /\ Coverage \in Nat
  BY PartIsFinite, ScheduleAssumption DEF ScheduleAssumption
<1>7. Queue(E, a) \in Nat
  BY <1>2 DEF Queue
<1>8. Wait(E, a) \in Nat
  BY <1>5, <1>7 DEF Wait
<1>9. Longest(E, a) \in Int
  BY <1>6 DEF Longest
<1> QED BY ONLY <1>1, <1>2, <1>3, <1>4, <1>5, <1>7, <1>8, <1>9

LEMMA NextWaitIsNat ==
  ASSUME TypeOK', NEW E \in SUBSET Asset, NEW a \in Asset
  PROVE  Wait(E, a)' \in Nat
<1>1. Before(a)' \in SUBSET Asset /\ ToEnter(E, a)' \in SUBSET Asset
  BY DEF Before, ToEnter, Covered
<1>2. Cardinality(Before(a)') \in Nat /\ Cardinality(ToEnter(E, a)') \in Nat
  BY <1>1, PartIsFinite
<1>3. polls'[a].age \in Nat /\ Slow \in Nat
  BY Bounds DEF TypeOK, Row
<1>4. Missed(a)' \in Nat
  BY <1>3 DEF Missed
<1>5. Missed(a)' * DayReads \in Nat
  BY <1>4, Products
<1>6. Wait(E, a)' = (Cardinality(Before(a)') + Cardinality(ToEnter(E, a)')) + Missed(a)' * DayReads
  BY DEF Wait, Queue, DayReads
<1> QED BY ONLY <1>2, <1>5, <1>6

\* Where nobody new comes before a card and it grows no older, its wait does
\* not grow.
LEMMA WaitStands ==
  ASSUME TypeOK, TypeOK', NEW E \in SUBSET Asset, NEW a \in Asset, value' = value,
         Before(a)' \subseteq Before(a), polls'[a].age = polls[a].age
  PROVE  Wait(E, a)' <= Wait(E, a)
<1>1. ToEnter(E, a)' = ToEnter(E, a)
  BY DEF ToEnter
<1>2. Cardinality(Before(a)') <= Cardinality(Before(a))
  BY WaitIsNat, FS_Subset
<1>3. Missed(a)' = Missed(a)
  BY DEF Missed
<1>4. /\ Cardinality(Before(a)) \in Nat /\ Cardinality(Before(a)') \in Nat
      /\ Cardinality(ToEnter(E, a)) \in Nat /\ Missed(a) * DayReads \in Nat
  <2>1. Before(a)' \in SUBSET Asset
    BY DEF Before, Covered
  <2> QED BY <2>1, WaitIsNat, PartIsFinite
<1> QED BY <1>1, <1>2, <1>3, <1>4 DEF Wait, Queue

-----------------------------------------------------------------------------
(* The steps of a day.                                                      *)

\* What holds of every card with a row before and after a step: who has a
\* row, whether it is quoted, and that nothing is added to its wait.
Unhurried(E) ==
  \A a \in Held' : Quoted(a)' =>
    /\ a \in Held /\ Quoted(a) /\ polls'[a].age = polls[a].age
    /\ pc' \in Loop => Before(a)' = Before(a)
    /\ Wait(E, a)' <= Wait(E, a)

\* Such a step, outside the price loop or within it with the same cards in
\* hand, keeps the promises.
LEMMA UnhurriedStep ==
  ASSUME TypeOK, TypeOK', NEW E \in SUBSET Asset, TrustInv(E), Unhurried(E),
         served' = served,
         ~served /\ pc' \in Loop =>
           /\ pc \in Loop /\ todo' \cup chunk' \subseteq todo \cup chunk
           /\ (todo' \cup chunk') \ Broken = (todo \cup chunk) \ Broken,
         HandInv', DayInv'
  PROVE  TrustInv(E)'
<1>1. \A a \in Held' : a \in Asset
  BY DEF Held
<1>2. \A a \in Asset : Wait(E, a) \in Nat /\ Longest(E, a) \in Int /\ Longest(E, a)' = Longest(E, a)
  BY WaitIsNat DEF Longest
<1>3. DayReads \in Nat /\ DayReads' = DayReads
  BY DayReadsNat DEF DayReads
<1>4. \A a \in Asset : Wait(E, a)' \in Nat
  BY NextWaitIsNat
<1>5. Cardinality((todo \cup chunk) \ Broken) \in Nat
  BY PartIsFinite DEF TypeOK
<1>6. WaitInv(E)'
  BY <1>1, <1>2, <1>4 DEF TrustInv, WaitInv, Unhurried
<1>7. ServedInv(E)'
  <2> SUFFICES ASSUME served', NEW a \in Held', Quoted(a)', polls'[a].age >= Slow
               PROVE  Wait(E, a)' + DayReads <= Longest(E, a)
    BY <1>1, <1>2, <1>3 DEF ServedInv
  <2>1. Wait(E, a) + DayReads <= Longest(E, a) /\ Wait(E, a)' <= Wait(E, a)
    BY DEF TrustInv, ServedInv, Unhurried
  <2> QED BY <1>1, <1>2, <1>3, <1>4, <2>1
<1>8. PlanInv(E)'
  <2> SUFFICES ASSUME ~served', pc' \in Loop, NEW a \in Held', Quoted(a)', polls'[a].age >= Slow,
                      a \notin todo' \cup chunk'
               PROVE  /\ todo' \cup chunk' \subseteq Before(a)'
                      /\ Wait(E, a)' + DayReads
                           <= Longest(E, a) + Cardinality((todo' \cup chunk') \ Broken)
    BY <1>1, <1>2, <1>3 DEF PlanInv, Loop
  <2>1. a \in Asset /\ a \in Held /\ Quoted(a) /\ polls[a].age >= Slow
    BY <1>1 DEF Unhurried
  <2>2. a \notin Broken
    BY <2>1 DEF TrustInv, HandInv, Quoted
  <2>3. /\ pc \in Loop /\ todo' \cup chunk' \subseteq todo \cup chunk
        /\ (todo' \cup chunk') \ Broken = (todo \cup chunk) \ Broken
    OBVIOUS
  <2>4. a \notin todo \cup chunk
    BY <2>2, <2>3
  <2>5. /\ todo \cup chunk \subseteq Before(a)
        /\ Wait(E, a) + DayReads <= Longest(E, a) + Cardinality((todo \cup chunk) \ Broken)
        /\ Wait(E, a)' <= Wait(E, a) /\ Before(a)' = Before(a)
    BY <2>1, <2>3, <2>4 DEF TrustInv, PlanInv, Unhurried
  <2>6. Wait(E, a)' + DayReads <= Longest(E, a) + Cardinality((todo \cup chunk) \ Broken)
    BY ONLY <1>2, <1>3, <1>4, <1>5, <2>1, <2>5
  <2> QED BY <2>3, <2>5, <2>6
<1> QED BY <1>6, <1>7, <1>8 DEF TrustInv

\* A step that leaves the rows, their order and the attributes hurries nobody.
LEMMA RowsStandStill ==
  ASSUME TypeOK, NEW E \in SUBSET Asset, UNCHANGED <<value, polls, newer>>
  PROVE  /\ Unhurried(E) /\ Held' = Held /\ Covered' = Covered
         /\ \A a \in Asset : /\ Before(a)' = Before(a) /\ Wait(E, a)' = Wait(E, a)
                             /\ Quoted(a)' = Quoted(a)
<1>1. Held' = Held /\ Covered' = Covered
  BY DEF Held, Covered, Ahead
<1>2. ASSUME NEW a \in Asset
      PROVE  /\ Before(a)' = Before(a) /\ Wait(E, a)' = Wait(E, a)
             /\ Quoted(a)' = Quoted(a) /\ Wait(E, a) \in Nat
  <2>1. Before(a)' = Before(a) /\ ToEnter(E, a)' = ToEnter(E, a) /\ Missed(a)' = Missed(a)
    BY <1>1 DEF Before, ToEnter, Missed
  <2> QED BY <2>1, WaitIsNat DEF Wait, Queue, Quoted
<1> QED BY <1>1, <1>2 DEF Unhurried, Held

LEMMA ControlKeepsTrust ==
  ASSUME TypeOK, TypeOK', NEW E \in SUBSET Asset, TrustInv(E),
         StartRun \/ StepsDone \/ Fetch \/ UNCHANGED vars
  PROVE  TrustInv(E)'
<1>1. /\ UNCHANGED <<value, polls, newer, todo, chunk, left, served>>
      /\ pc' \in Loop <=> pc \in Loop
      /\ pc' \notin {"fetch", "store"} => pc \notin {"fetch", "store"}
      /\ pc' = "store" => chunk \cap Broken = {}
  BY DEF StartRun, StepsDone, Fetch, vars, Loop, TrustInv, HandInv
<1>2. Unhurried(E) /\ Held' = Held
  BY <1>1, RowsStandStill
<1>3. HandInv' /\ DayInv'
  BY <1>1, <1>2 DEF TrustInv, HandInv, DayInv
<1> QED BY <1>1, <1>2, <1>3, UnhurriedStep

LEMMA TakeKeepsTrust ==
  ASSUME TypeOK, TypeOK', NEW E \in SUBSET Asset, TrustInv(E), TakeBatch
  PROVE  TrustInv(E)'
<1>1. /\ UNCHANGED <<value, polls, newer, served>>
      /\ pc = "batch" /\ pc' = "fetch" /\ chunk = {}
      /\ chunk' \in First(todo, BatchSize) /\ chunk' \subseteq todo /\ todo' = todo \ chunk'
  BY FirstIsPart DEF TakeBatch, TrustInv, HandInv
<1>2. Unhurried(E) /\ Held' = Held
  BY <1>1, RowsStandStill
<1>3. Cardinality(chunk') <= BatchSize
  <2>1. Cardinality(todo) \in Nat /\ BatchSize \in Nat
    BY PartIsFinite, ScheduleAssumption DEF TypeOK, ScheduleAssumption
  <2> QED BY <1>1, <2>1 DEF First, Smaller
<1>4. HandInv' /\ DayInv'
  BY <1>1, <1>2, <1>3 DEF TrustInv, HandInv, DayInv, Loop
<1>5. todo' \cup chunk' = todo \cup chunk
  BY <1>1
<1> QED BY <1>1, <1>2, <1>4, <1>5, UnhurriedStep DEF Loop

\* A batch of one that cannot be fetched takes no other card's turn.
LEMMA SkipKeepsTrust ==
  ASSUME FaultsAlone, TypeOK, TypeOK', NEW E \in SUBSET Asset, TrustInv(E), FetchBroken
  PROVE  TrustInv(E)'
<1>1. /\ UNCHANGED <<value, polls, newer, todo, left, served>>
      /\ pc = "fetch" /\ pc' = "batch" /\ chunk \cap Broken # {} /\ chunk' = {}
  BY DEF FetchBroken
<1>2. Unhurried(E) /\ Held' = Held
  BY <1>1, RowsStandStill
<1>3. HandInv' /\ DayInv'
  <2>1. Cardinality({}) = 0 /\ BatchSize \in Nat
    BY FS_EmptySet, ScheduleAssumption DEF ScheduleAssumption
  <2> QED BY <1>1, <1>2, <2>1 DEF TrustInv, HandInv, DayInv, Loop
<1>4. chunk \subseteq Broken
  <2>1. PICK b \in Broken : b \in chunk
    BY <1>1
  <2>2. /\ IsFiniteSet(chunk) /\ Cardinality(chunk) \in Nat /\ Cardinality(chunk) <= 1
        /\ {b} \in SUBSET chunk /\ Cardinality({b}) = 1
    BY <2>1, PartIsFinite, FS_Singleton DEF TypeOK, TrustInv, HandInv, FaultsAlone
  <2>3. chunk = {b}
    BY <2>2, FS_Subset
  <2> QED BY <2>3
<1> QED BY <1>1, <1>2, <1>3, <1>4, UnhurriedStep DEF Loop

LEMMA EnsureKeepsTrust ==
  ASSUME TypeOK, TypeOK', NEW E \in SUBSET Asset, TrustInv(E), EnsurePollState
  PROVE  TrustInv(E)'
<1>1. /\ UNCHANGED <<value, todo, chunk, left, served>> /\ pc = "ensure" /\ pc' = "drop"
      /\ polls \in [Asset -> Row]
  BY DEF EnsurePollState, TypeOK
<1>2. ASSUME NEW a \in Asset
      PROVE  \/ a \in Covered \ Held /\ polls'[a].age = Null /\ polls'[a].held
             \/ polls'[a] = polls[a] /\ newer'[a] = newer[a]
  BY <1>2 DEF EnsurePollState, NoRow
<1>3. Covered' = Covered /\ Held \subseteq Held'
  BY <1>1, <1>2 DEF Held, Covered, Ahead
<1>4. Unhurried(E)
  <2> SUFFICES ASSUME NEW a \in Asset, a \in Held', Quoted(a)'
               PROVE  /\ a \in Held /\ Quoted(a) /\ polls'[a].age = polls[a].age
                      /\ Before(a)' = Before(a) /\ Wait(E, a)' <= Wait(E, a)
    BY DEF Unhurried, Held
  <2>1. polls'[a] = polls[a] /\ newer'[a] = newer[a]
    BY <1>2 DEF Quoted, Null, OldAge, TrustWindow
  <2>2. Before(a)' = Before(a)
    BY <1>3, <2>1 DEF Before
  <2>3. a \in Held /\ Quoted(a)
    BY <2>1 DEF Held, Quoted, Null, OldAge, TrustWindow
  <2> QED BY <1>1, <2>1, <2>2, <2>3, WaitStands
<1>5. HandInv' /\ DayInv'
  <2>1. \A a \in Broken : polls'[a].age = Null
    BY <1>2, ScheduleAssumption DEF ScheduleAssumption, TrustInv, HandInv
  <2> QED BY <1>1, <1>3, <2>1 DEF TrustInv, HandInv, DayInv, Loop
<1> QED BY <1>1, <1>4, <1>5, UnhurriedStep DEF Loop

LEMMA DropKeepsTrust ==
  ASSUME TypeOK, TypeOK', NEW E \in SUBSET Asset, TrustInv(E), DropOutside
  PROVE  TrustInv(E)'
<1>1. /\ UNCHANGED <<value, todo, chunk, left, served>> /\ pc = "drop" /\ pc' = "due"
      /\ todo = {} /\ chunk = {}
  BY DEF DropOutside, TrustInv, HandInv, Loop
<1>2. ASSUME NEW a \in Asset
      PROVE  \/ polls'[a] = NoRow
             \/ a \in Covered /\ polls'[a] = polls[a] /\ newer'[a] = newer[a] \cap Covered
  BY <1>2 DEF DropOutside
<1>3. Covered' = Covered
  BY <1>1 DEF Covered, Ahead
<1>4. Unhurried(E)
  <2> SUFFICES ASSUME NEW a \in Asset, a \in Held', Quoted(a)'
               PROVE  /\ a \in Held /\ Quoted(a) /\ polls'[a].age = polls[a].age
                      /\ Before(a)' = Before(a) /\ Wait(E, a)' <= Wait(E, a)
    BY DEF Unhurried, Held
  <2>1. polls'[a] = polls[a] /\ newer'[a] = newer[a] \cap Covered
    BY <1>2 DEF Held, NoRow
  <2>2. Before(a)' = Before(a)
    BY <1>3, <2>1 DEF Before
  <2>3. a \in Held /\ Quoted(a)
    BY <2>1 DEF Held, Quoted, Null, OldAge, TrustWindow
  <2> QED BY <1>1, <2>1, <2>2, <2>3, WaitStands
<1>5. HandInv' /\ DayInv'
  <2>1. \A a \in Broken : polls'[a].age = Null
    BY <1>2, ScheduleAssumption DEF ScheduleAssumption, TrustInv, HandInv, NoRow
  <2> QED BY <1>1, <2>1 DEF TrustInv, HandInv, DayInv, Loop
<1> QED BY <1>1, <1>4, <1>5, UnhurriedStep DEF Loop

\* What the plan leaves out has to see a day's worth pass.
LEMMA PlanKeepsTrust ==
  ASSUME TypeOK, TypeOK', NEW E \in SUBSET Asset, TrustInv(E), IntervalHonest, CoverageExact, Plan
  PROVE  TrustInv(E)'
<1> DEFINE due == {a \in Held : IsDue(a)}
<1>1. /\ UNCHANGED <<value, polls, newer, chunk, left, served>>
      /\ pc = "due" /\ pc' = "batch" /\ chunk = {} /\ todo = {}
      /\ todo' \in First(due, left * BatchSize) /\ todo' \subseteq due
      /\ Held = Covered
  BY FirstIsPart DEF Plan, TrustInv, HandInv, Loop, CoverageExact
<1>2. /\ Unhurried(E) /\ Held' = Held /\ Covered' = Covered
      /\ \A a \in Asset : /\ Before(a)' = Before(a) /\ Wait(E, a)' = Wait(E, a)
                          /\ Quoted(a)' = Quoted(a)
  BY <1>1, RowsStandStill
<1>3. HandInv' /\ DayInv'
  BY <1>1, <1>2 DEF TrustInv, HandInv, DayInv, Loop
<1>4. CASE served
  BY <1>1, <1>2, <1>3, <1>4, UnhurriedStep
<1>5. CASE ~served
  <2>1. left * BatchSize = DailyBudget * BatchSize
    BY <1>1, <1>5 DEF TrustInv, DayInv, Loop
  <2>2. ASSUME NEW a \in Held, Quoted(a), polls[a].age >= Slow, a \notin todo'
        PROVE  todo' \subseteq Before(a) /\ DayReads <= Cardinality(todo' \ Broken)
    <3>1. a \in Asset /\ polls[a] \in Row /\ polls[a].age \in Nat
      BY <2>2, WaitIsNat DEF Held
    <3>2. polls[a].interval <= Slow /\ polls[a].interval \in Nat
      BY <2>2, Bounds, ScheduleAssumption DEF IntervalHonest, PollInterval, ScheduleAssumption
    <3>3. IsDue(a)
      <4>1. PICK m \in Market : polls[a].failures[m] = 0
        BY <2>2 DEF Quoted
      <4>2. Smaller(polls[a].failures[m] + 1, MaxBackoff) = 1
        BY <4>1, ScheduleAssumption DEF Smaller, ScheduleAssumption
      <4>3. polls[a].interval * Smaller(polls[a].failures[m] + 1, MaxBackoff) = polls[a].interval
        BY <3>2, <4>2
      <4> QED BY <2>2, <3>1, <3>2, <4>3, Bounds DEF IsDue
    <3>4. a \in due \ todo'
      BY <2>2, <3>3
    <3>5. todo' \subseteq Before(a)
      <4>1. \A c \in todo' : c \notin newer[a]
        BY <1>1, <3>4 DEF First
      <4>2. todo' \subseteq Covered /\ a \notin todo'
        BY <1>1, <2>2
      <4> QED BY <4>1, <4>2 DEF Before
    <3>6. Cardinality(todo') # Cardinality(due)
      <4>1. due \in SUBSET Asset
        BY DEF Held
      <4> QED BY <1>1, <3>4, <4>1, PartIsFinite, FS_Subset
    <3>7. Cardinality(todo') = DailyBudget * BatchSize
      BY <1>1, <2>1, <3>6 DEF First, Smaller
    <3>8. DayReads <= Cardinality(todo' \ Broken)
      <4>1. /\ IsFiniteSet(todo') /\ Cardinality(todo') \in Nat
            /\ Broken \in SUBSET Asset /\ IsFiniteSet(Broken) /\ Cardinality(Broken) \in Nat
            /\ Cardinality(todo' \ Broken) \in Nat
        BY PartIsFinite, ScheduleAssumption DEF TypeOK, ScheduleAssumption
      <4>2. Cardinality(todo' \ Broken) = Cardinality(todo') - Cardinality(todo' \cap Broken)
        BY <4>1, FS_Difference
      <4>3. Cardinality(todo' \cap Broken) <= Cardinality(Broken)
        BY <4>1, FS_Intersection
      <4>4. Cardinality(todo' \cap Broken) \in Nat
        BY <4>1, FS_Intersection, FS_CardinalityType
      <4> QED BY <3>7, <4>1, <4>2, <4>3, <4>4 DEF DayReads
    <3> QED BY <3>5, <3>8
  <2>3. WaitInv(E)'
    BY <1>2 DEF TrustInv, WaitInv, Longest, Held
  <2>4. ServedInv(E)'
    BY <1>1, <1>5 DEF ServedInv
  <2>5. PlanInv(E)'
    <3>1. ASSUME NEW a \in Held, Quoted(a), polls[a].age >= Slow, a \notin todo' \cup chunk'
          PROVE  /\ todo' \cup chunk' \subseteq Before(a)
                 /\ Wait(E, a) + DayReads
                      <= Longest(E, a) + Cardinality((todo' \cup chunk') \ Broken)
      <4>1. todo' \subseteq Before(a) /\ DayReads <= Cardinality(todo' \ Broken)
        BY <2>2, <3>1
      <4>2. todo' \cup chunk' = todo'
        BY <1>1
      <4>3. Wait(E, a) <= Longest(E, a)
        BY <3>1 DEF TrustInv, WaitInv
      <4>4. Wait(E, a) \in Nat /\ Longest(E, a) \in Int /\ Cardinality(todo' \ Broken) \in Nat
        BY WaitIsNat, PartIsFinite DEF Held, TypeOK
      <4>5. Wait(E, a) + DayReads <= Longest(E, a) + Cardinality(todo' \ Broken)
        BY ONLY <4>1, <4>3, <4>4, DayReadsNat
      <4> QED BY ONLY <4>1, <4>2, <4>5
    <3>2. DayReads' = DayReads
      BY DEF DayReads, FaultsAlone
    <3>3. \A a \in Held : /\ polls'[a] = polls[a] /\ Quoted(a)' = Quoted(a)
                          /\ Before(a)' = Before(a) /\ Wait(E, a)' = Wait(E, a)
                          /\ Longest(E, a)' = Longest(E, a)
      BY <1>1, <1>2 DEF Held, Longest
    <3> QED BY ONLY <1>2, <3>1, <3>2, <3>3 DEF PlanInv
  <2> QED BY <1>3, <2>3, <2>4, <2>5 DEF TrustInv
<1> QED BY <1>4, <1>5

\* A batch that is stored has passed every card it does not hold.
LEMMA StoreKeepsTrust ==
  ASSUME TypeOK, TypeOK', NEW E \in SUBSET Asset, TrustInv(E), CoverageExact, StoreBatch
  PROVE  TrustInv(E)'
<1>1. /\ UNCHANGED <<value, todo, left, served>>
      /\ pc = "store" /\ pc' = "batch" /\ chunk' = {}
      /\ Held = Covered /\ todo \cup chunk \subseteq Held /\ todo \cap chunk = {}
      /\ polls \in [Asset -> Row] /\ chunk \cap Broken = {}
  BY DEF StoreBatch, TrustInv, HandInv, CoverageExact, TypeOK
<1>2. PICK refused \in [chunk -> SUBSET Market] :
        polls' = [a \in Asset |-> IF a \in chunk THEN Polled(a, refused[a]) ELSE polls[a]]
  BY DEF StoreBatch
<1>3. ASSUME NEW a \in Asset
      PROVE  /\ polls'[a].held = polls[a].held
             /\ a \in chunk => polls'[a].age = 0 /\ newer'[a] = {}
             /\ a \notin chunk => polls'[a] = polls[a]
             /\ a \in Held \ chunk => newer'[a] = newer[a] \cup chunk
  <2>1. CASE a \in chunk
    <3>1. Polled(a, refused[a]).age = 0 /\ Polled(a, refused[a]).held = polls[a].held
      BY <1>1 DEF Polled, Row
    <3> QED BY <1>2, <2>1, <3>1 DEF StoreBatch
  <2>2. CASE a \notin chunk
    BY <1>2, <2>2 DEF StoreBatch
  <2> QED BY <2>1, <2>2
<1>4. Held' = Held /\ Covered' = Covered
  BY <1>1, <1>3 DEF Held, Covered, Ahead
<1>5. HandInv' /\ DayInv'
  <2>1. Cardinality({}) = 0 /\ BatchSize \in Nat /\ Broken \subseteq Asset
    BY FS_EmptySet, ScheduleAssumption DEF ScheduleAssumption
  <2>2. \A a \in Broken : polls'[a] = polls[a]
    BY <1>1, <1>3, <2>1
  <2> QED BY <1>1, <1>4, <2>1, <2>2 DEF TrustInv, HandInv, DayInv, Loop
<1>6. Slow \in Nat \ {0} /\ DayReads \in Nat
  BY ScheduleAssumption, DayReadsNat DEF ScheduleAssumption
<1>7. ASSUME NEW a \in chunk
      PROVE  /\ Wait(E, a)' <= Longest(E, a) /\ ~(polls'[a].age >= Slow)
  <2>1. a \in Covered /\ a \in Asset /\ Before(a)' = Covered \ {a} /\ polls'[a].age = 0
    BY <1>1, <1>3, <1>4 DEF Before, Held
  <2>2. Covered \in SUBSET Asset /\ value \in [Asset -> Value]
    BY DEF Covered, TypeOK
  <2>3. /\ Cardinality(Covered \ {a}) = Cardinality(Covered) - 1
        /\ Cardinality(Covered) <= Coverage /\ Cardinality(Covered) \in Nat
    BY <2>1, <2>2, PartIsFinite, FS_RemoveElement, CoveredIsSmall
  <2>4. ToEnter(E, a)' \in SUBSET (E \ {a}) /\ IsFiniteSet(E \ {a})
    BY PartIsFinite DEF ToEnter
  <2>5. /\ Cardinality(ToEnter(E, a)') <= Cardinality(E \ {a})
        /\ Cardinality(ToEnter(E, a)') \in Nat /\ Cardinality(E \ {a}) \in Nat
    BY <2>4, FS_Subset, FS_CardinalityType
  <2>6. Missed(a)' = 0
    BY <1>6, <2>1 DEF Missed
  <2>7. Missed(a)' * DayReads = 0
    BY ONLY <1>6, <2>6
  <2>8. Wait(E, a)' = (Cardinality(Before(a)') + Cardinality(ToEnter(E, a)')) + Missed(a)' * DayReads
    BY DEF Wait, Queue, DayReads
  <2>9. Coverage \in Nat
    BY ScheduleAssumption DEF ScheduleAssumption
  <2>10. Wait(E, a)' <= Longest(E, a)
    BY ONLY <2>1, <2>3, <2>5, <2>7, <2>8, <2>9 DEF Longest
  <2> QED BY <1>6, <2>1, <2>10
<1>8. ASSUME NEW a \in Held, a \notin chunk
      PROVE  /\ a \in Asset /\ Before(a)' = Before(a) \ chunk /\ Quoted(a)' = Quoted(a)
             /\ polls'[a] = polls[a] /\ Wait(E, a)' <= Wait(E, a)
             /\ chunk \subseteq Before(a) => Wait(E, a)' + Cardinality(chunk) = Wait(E, a)
  <2>1. a \in Asset /\ polls'[a] = polls[a] /\ Before(a)' = Before(a) \ chunk
    BY <1>3, <1>4, <1>8 DEF Before, Held
  <2>2. Quoted(a)' = Quoted(a) /\ Missed(a)' = Missed(a) /\ ToEnter(E, a)' = ToEnter(E, a)
    BY <1>1, <2>1 DEF Quoted, Missed, ToEnter
  <2>3. Wait(E, a)' <= Wait(E, a)
    BY <1>1, <2>1, WaitStands
  <2>4. ASSUME chunk \subseteq Before(a)
        PROVE  Wait(E, a)' + Cardinality(chunk) = Wait(E, a)
    <3>1. Before(a) \cap chunk = chunk
      BY <2>4
    <3>2. Cardinality(Before(a) \ chunk) = Cardinality(Before(a)) - Cardinality(Before(a) \cap chunk)
      BY <2>1, WaitIsNat, FS_Difference
    <3>3. Cardinality(Before(a)') = Cardinality(Before(a)) - Cardinality(chunk)
      BY ONLY <2>1, <3>1, <3>2
    <3>4. /\ Cardinality(Before(a)) \in Nat /\ Cardinality(ToEnter(E, a)) \in Nat
          /\ Missed(a) * DayReads \in Nat /\ Cardinality(chunk) \in Nat
      BY <2>1, WaitIsNat, PartIsFinite DEF TypeOK
    <3>5. /\ Wait(E, a)' = (Cardinality(Before(a)') + Cardinality(ToEnter(E, a))) + Missed(a) * DayReads
          /\ Wait(E, a) = (Cardinality(Before(a)) + Cardinality(ToEnter(E, a))) + Missed(a) * DayReads
      BY <2>2 DEF Wait, Queue, DayReads
    <3> QED BY ONLY <3>3, <3>4, <3>5
  <2> QED BY <2>1, <2>2, <2>3, <2>4
<1>9. \A a \in Held : a \in Asset /\ Wait(E, a) \in Nat /\ Wait(E, a)' \in Nat /\ Longest(E, a) \in Int
  BY WaitIsNat, NextWaitIsNat DEF Held
<1>10. /\ Cardinality(chunk) \in Nat /\ Cardinality(todo \ Broken) \in Nat
       /\ Cardinality((todo \cup chunk) \ Broken) = Cardinality(todo \ Broken) + Cardinality(chunk)
  <2>1. /\ IsFiniteSet(chunk) /\ Cardinality(chunk) \in Nat
        /\ IsFiniteSet(todo \ Broken) /\ Cardinality(todo \ Broken) \in Nat
    BY PartIsFinite DEF TypeOK
  <2>2. /\ (todo \cup chunk) \ Broken = (todo \ Broken) \cup chunk
        /\ (todo \ Broken) \cap chunk = {}
    BY <1>1
  <2>3. Cardinality((todo \ Broken) \cup chunk) = Cardinality(todo \ Broken) + Cardinality(chunk)
    <3>1. Cardinality((todo \ Broken) \cup chunk)
            = Cardinality(todo \ Broken) + Cardinality(chunk) - Cardinality((todo \ Broken) \cap chunk)
      BY ONLY <2>1, FS_Union
    <3>2. Cardinality((todo \ Broken) \cap chunk) = 0
      BY ONLY <2>2, FS_EmptySet
    <3> QED BY ONLY <2>1, <3>1, <3>2
  <2> QED BY ONLY <2>1, <2>2, <2>3
<1>11. WaitInv(E)'
  <2> SUFFICES ASSUME NEW a \in Held, Quoted(a)'
               PROVE  Wait(E, a)' <= Longest(E, a)
    BY <1>4 DEF WaitInv, Longest
  <2>1. CASE a \in chunk
    BY <1>7, <2>1
  <2>2. CASE a \notin chunk
    <3>1. Wait(E, a)' <= Wait(E, a) /\ Wait(E, a) <= Longest(E, a)
      BY <1>8, <2>2 DEF TrustInv, WaitInv
    <3> QED BY <1>9, <3>1
  <2> QED BY <2>1, <2>2
<1>12. ServedInv(E)'
  <2> SUFFICES ASSUME served', NEW a \in Held, Quoted(a)', polls'[a].age >= Slow
               PROVE  Wait(E, a)' + DayReads <= Longest(E, a)
    BY <1>4 DEF ServedInv, Longest, DayReads, FaultsAlone
  <2>1. a \notin chunk
    BY <1>7
  <2>2. Wait(E, a)' <= Wait(E, a) /\ Wait(E, a) + DayReads <= Longest(E, a)
    BY <1>1, <1>8, <2>1 DEF TrustInv, ServedInv
  <2> QED BY <1>6, <1>9, <2>2
<1>13. PlanInv(E)'
  <2> SUFFICES ASSUME ~served', NEW a \in Held, Quoted(a)', polls'[a].age >= Slow,
                      a \notin todo' \cup chunk'
               PROVE  /\ todo' \cup chunk' \subseteq Before(a)'
                      /\ Wait(E, a)' + DayReads
                           <= Longest(E, a) + Cardinality((todo' \cup chunk') \ Broken)
    BY <1>4 DEF PlanInv, Longest, DayReads, FaultsAlone
  <2>1. a \notin chunk /\ a \notin todo \cup chunk
    BY <1>1, <1>7
  <2>2. /\ todo \cup chunk \subseteq Before(a)
        /\ Wait(E, a) + DayReads <= Longest(E, a) + Cardinality((todo \cup chunk) \ Broken)
    BY <1>1, <1>8, <2>1 DEF TrustInv, PlanInv, Loop
  <2>3. Wait(E, a)' + Cardinality(chunk) = Wait(E, a) /\ Before(a)' = Before(a) \ chunk
    BY <1>8, <2>1, <2>2
  <2>4. todo' \cup chunk' \subseteq Before(a)' /\ (todo' \cup chunk') \ Broken = todo \ Broken
    BY <1>1, <2>2, <2>3
  <2>5. Wait(E, a)' + DayReads <= Longest(E, a) + Cardinality(todo \ Broken)
    BY ONLY <1>6, <1>9, <1>10, <2>2, <2>3
  <2> QED BY <2>4, <2>5
<1> QED BY <1>5, <1>11, <1>12, <1>13 DEF TrustInv

LEMMA EndKeepsTrust ==
  ASSUME TypeOK, TypeOK', NEW E \in SUBSET Asset, TrustInv(E), EndRun
  PROVE  TrustInv(E)'
<1>1. /\ UNCHANGED <<value, polls, newer, todo, chunk>>
      /\ pc = "batch" /\ pc' = "idle" /\ served' /\ todo = {} /\ chunk = {}
  BY DEF EndRun, TrustInv, HandInv
<1>2. /\ Held' = Held
      /\ \A a \in Asset : Wait(E, a)' = Wait(E, a) /\ Quoted(a)' = Quoted(a)
  BY <1>1, RowsStandStill
<1>3. HandInv' /\ DayInv' /\ PlanInv(E)'
  BY <1>1, <1>2 DEF TrustInv, HandInv, DayInv, PlanInv, Loop
<1>4. WaitInv(E)'
  BY <1>2 DEF TrustInv, WaitInv, Longest, Held
<1>5. ASSUME NEW a \in Held, Quoted(a), polls[a].age >= Slow
      PROVE  Wait(E, a) + DayReads <= Longest(E, a)
  <2>1. CASE served
    BY <1>5, <2>1 DEF TrustInv, ServedInv
  <2>2. CASE ~served
    <3>1. Wait(E, a) + DayReads <= Longest(E, a) + Cardinality((todo \cup chunk) \ Broken)
      BY <1>1, <1>5, <2>2 DEF TrustInv, PlanInv, Loop
    <3>2. Cardinality((todo \cup chunk) \ Broken) = 0
      BY <1>1, FS_EmptySet
    <3>3. Longest(E, a) \in Int
      BY WaitIsNat DEF Held
    <3> QED BY <3>1, <3>2, <3>3
  <2> QED BY <2>1, <2>2
<1>6. ServedInv(E)'
  BY <1>1, <1>2, <1>5 DEF ServedInv, Longest, Held, DayReads
<1> QED BY <1>3, <1>4, <1>6 DEF TrustInv

\* A day passes only when its price loop is through.
LEMMA TickKeepsTrust ==
  ASSUME TypeOK, TypeOK', NEW E \in SUBSET Asset, TrustInv(E), served, Tick
  PROVE  TrustInv(E)'
<1>1. /\ UNCHANGED <<value, newer, todo, chunk>> /\ pc = "idle" /\ pc' = "idle"
      /\ left' = DailyBudget /\ ~served' /\ polls \in [Asset -> Row]
      /\ polls' = [a \in Asset |-> [polls[a] EXCEPT !.age = Older(@)]]
  BY DEF Tick, TypeOK
<1>2. ASSUME NEW a \in Asset
      PROVE  /\ polls'[a].held = polls[a].held /\ polls'[a].failures = polls[a].failures
             /\ polls'[a].age = Older(polls[a].age)
  BY <1>1 DEF Row
<1>3. Held' = Held /\ Covered' = Covered
  BY <1>1, <1>2 DEF Held, Covered, Ahead
<1>4. HandInv' /\ DayInv' /\ PlanInv(E)' /\ ServedInv(E)'
  <2>1. \A a \in Broken : polls'[a].age = polls[a].age
    BY <1>2, Bounds, ScheduleAssumption DEF ScheduleAssumption, Older, TrustInv, HandInv
  <2> QED BY <1>1, <1>3, <2>1 DEF TrustInv, HandInv, DayInv, PlanInv, ServedInv, Loop
<1>5. ASSUME NEW a \in Held, Quoted(a)'
      PROVE  Wait(E, a)' <= Longest(E, a)
  <2>1. a \in Asset /\ polls[a].age \in Nat /\ polls'[a].age = Older(polls[a].age)
    BY <1>2, WaitIsNat DEF Held
  <2>2. Quoted(a)
    BY <1>2, <1>5, <2>1, Bounds DEF Quoted, Older
  <2>3. Before(a)' = Before(a) /\ ToEnter(E, a)' = ToEnter(E, a)
    BY <1>1, <1>3 DEF Before, ToEnter
  <2>4. /\ Wait(E, a)' = Queue(E, a) + Missed(a)' * DayReads
        /\ Wait(E, a) = Queue(E, a) + Missed(a) * DayReads
        /\ Wait(E, a) <= Longest(E, a)
    BY <2>2, <2>3 DEF Wait, Queue, DayReads, TrustInv, WaitInv
  <2>5. /\ Queue(E, a) \in Nat /\ Missed(a) \in Nat /\ Longest(E, a) \in Int
        /\ Missed(a) * DayReads \in Nat /\ DayReads \in Nat /\ Wait(E, a) \in Nat
    BY <2>1, WaitIsNat, DayReadsNat
  <2>6. CASE Missed(a)' = Missed(a)
    BY ONLY <2>4, <2>6
  <2>7. CASE Missed(a)' # Missed(a)
    <3>1. Missed(a)' = Missed(a) + 1 /\ polls[a].age >= Slow
      BY <2>1, <2>7, Bounds DEF Missed, Older
    <3>2. Missed(a)' * DayReads = Missed(a) * DayReads + DayReads
      BY ONLY <2>5, <3>1, Products
    <3>3. Wait(E, a) + DayReads <= Longest(E, a)
      BY <2>2, <3>1 DEF TrustInv, ServedInv
    <3> QED BY ONLY <2>4, <2>5, <3>2, <3>3
  <2> QED BY <2>6, <2>7
<1>6. WaitInv(E)'
  BY <1>3, <1>5 DEF WaitInv, Longest
<1> QED BY <1>4, <1>6 DEF TrustInv

\* Attributes that arrive bring a card before others once.
LEMMA LearnKeepsTrust ==
  ASSUME TypeOK, TypeOK', NEW E \in SUBSET Asset, TrustInv(E), Covered' \ Covered \subseteq E,
         NEW b \in Asset, NEW v \in Value, value[b] = 0, Learn(b, v)
  PROVE  TrustInv(E)'
<1>1. /\ UNCHANGED <<pc, newer, todo, chunk, left, served>> /\ pc = "steps"
      /\ value' = [value EXCEPT ![b] = v] /\ value \in [Asset -> Value] /\ v # 0
      /\ polls \in [Asset -> Row]
  BY DEF Learn, TypeOK
<1>2. ASSUME NEW a \in Asset
      PROVE  /\ polls'[a].held = polls[a].held /\ polls'[a].failures = polls[a].failures
             /\ polls'[a].age = polls[a].age
  BY <1>1 DEF Learn, Row
<1>3. Held' = Held /\ Covered' \subseteq Covered \cup {b}
  BY <1>2, OnlyOwnEnters DEF Held
<1>4. HandInv' /\ DayInv'
  <2>1. \A a \in Broken : polls'[a].age = polls[a].age
    BY <1>2, ScheduleAssumption DEF ScheduleAssumption
  <2> QED BY <1>1, <1>3, <2>1 DEF TrustInv, HandInv, DayInv, Loop
<1>5. ASSUME NEW a \in Asset
      PROVE  Wait(E, a)' <= Wait(E, a)
  <2>1. /\ IsFiniteSet(Before(a)) /\ Cardinality(Before(a)) \in Nat
        /\ IsFiniteSet(ToEnter(E, a)) /\ Cardinality(ToEnter(E, a)) \in Nat
        /\ Missed(a) * DayReads \in Nat
    BY WaitIsNat
  <2>2. Before(a)' \in SUBSET Asset /\ ToEnter(E, a)' \in SUBSET Asset
    BY DEF Before, ToEnter, Covered
  <2>3. Cardinality(Before(a)') \in Nat /\ Cardinality(ToEnter(E, a)') \in Nat
    BY <2>2, PartIsFinite
  <2>4. ToEnter(E, a)' \subseteq ToEnter(E, a) /\ b \notin ToEnter(E, a)'
    BY <1>1 DEF ToEnter
  <2>5. Cardinality(Before(a)') + Cardinality(ToEnter(E, a)')
          <= Cardinality(Before(a)) + Cardinality(ToEnter(E, a))
    <3>1. CASE Before(a)' \subseteq Before(a)
      <4>1. /\ Cardinality(Before(a)') <= Cardinality(Before(a))
            /\ Cardinality(ToEnter(E, a)') <= Cardinality(ToEnter(E, a))
        BY <2>1, <2>4, <3>1, FS_Subset
      <4> QED BY ONLY <2>1, <2>3, <4>1
    <3>2. CASE ~(Before(a)' \subseteq Before(a))
      <4>1. Before(a)' \subseteq Before(a) \cup {b} /\ b \in Covered' \ Covered /\ b # a
        BY <1>1, <1>3, <3>2 DEF Before
      <4>2. b \in ToEnter(E, a)
        BY <4>1 DEF ToEnter
      <4>3. b \notin Before(a)
        BY <4>1 DEF Before
      <4>4. /\ IsFiniteSet(Before(a) \cup {b})
            /\ Cardinality(Before(a) \cup {b}) = Cardinality(Before(a)) + 1
        BY <2>1, <4>3, FS_AddElement
      <4>5. Cardinality(Before(a)') <= Cardinality(Before(a)) + 1
        BY <4>1, <4>4, FS_Subset
      <4>6. /\ IsFiniteSet(ToEnter(E, a) \ {b})
            /\ Cardinality(ToEnter(E, a) \ {b}) = Cardinality(ToEnter(E, a)) - 1
        BY <2>1, <4>2, FS_RemoveElement
      <4>7. ToEnter(E, a)' \subseteq ToEnter(E, a) \ {b}
        BY <2>4
      <4>8. Cardinality(ToEnter(E, a)') <= Cardinality(ToEnter(E, a)) - 1
        BY <4>6, <4>7, FS_Subset
      <4> QED BY ONLY <2>1, <2>3, <4>5, <4>8
    <3> QED BY <3>1, <3>2
  <2>6. Missed(a)' = Missed(a)
    BY <1>2 DEF Missed
  <2>7. /\ Wait(E, a)' = (Cardinality(Before(a)') + Cardinality(ToEnter(E, a)')) + Missed(a) * DayReads
        /\ Wait(E, a) = (Cardinality(Before(a)) + Cardinality(ToEnter(E, a))) + Missed(a) * DayReads
    BY <2>6 DEF Wait, Queue, DayReads
  <2> QED BY ONLY <2>1, <2>3, <2>5, <2>7
<1>6. Unhurried(E)
  BY <1>1, <1>2, <1>3, <1>5 DEF Unhurried, Held, Quoted, Loop
<1> QED BY <1>1, <1>4, <1>6, UnhurriedStep DEF Loop

LEMMA TrustInit ==
  ASSUME Init, NEW E \in SUBSET Asset PROVE TrustInv(E)
<1>1. Held = {}
  BY DEF Init, Held, NoRow
<1>2. \A a \in Broken : polls[a].age = Null
  BY ScheduleAssumption DEF ScheduleAssumption, Init, NoRow
<1>3. Cardinality({}) <= BatchSize
  BY FS_EmptySet, ScheduleAssumption DEF ScheduleAssumption
<1> QED BY <1>1, <1>2, <1>3 DEF Init, TrustInv, HandInv, DayInv, WaitInv, PlanInv, ServedInv, Loop

\* What a day does keeps the promises, when only cards of E enter the covered
\* set and those that cannot be fetched are asked for alone.
LEMMA TrustStep ==
  ASSUME FaultsAlone, NEW E \in SUBSET Asset, SchedInv, SchedInv', TrustInv(E),
         [DailyNext]_vars, [Covered' \ Covered \subseteq E]_vars
  PROVE  TrustInv(E)'
<1>1. TypeOK /\ TypeOK' /\ IntervalHonest /\ CoverageExact
  BY DEF SchedInv
<1>2. CASE StartRun \/ StepsDone \/ Fetch \/ UNCHANGED vars
  BY <1>1, <1>2, ControlKeepsTrust
<1>3. CASE EnsurePollState
  BY <1>1, <1>3, EnsureKeepsTrust
<1>4. CASE DropOutside
  BY <1>1, <1>4, DropKeepsTrust
<1>5. CASE Plan
  BY <1>1, <1>5, PlanKeepsTrust
<1>6. CASE TakeBatch
  BY <1>1, <1>6, TakeKeepsTrust
<1>7. CASE FetchBroken
  BY <1>1, <1>7, SkipKeepsTrust
<1>8. CASE StoreBatch
  BY <1>1, <1>8, StoreKeepsTrust
<1>9. CASE EndRun
  BY <1>1, <1>9, EndKeepsTrust
<1>10. CASE served /\ Tick
  BY <1>1, <1>10, TickKeepsTrust
<1>11. ASSUME NEW b \in Asset, NEW v \in Value, value[b] = 0, Learn(b, v)
       PROVE  TrustInv(E)'
  <2>1. Covered' \ Covered \subseteq E
    BY DEF vars, Covered, Ahead
  <2> QED BY <1>1, <1>11, <2>1, LearnKeepsTrust
<1> QED
  BY <1>2, <1>3, <1>4, <1>5, <1>6, <1>7, <1>8, <1>9, <1>10, <1>11 DEF DailyNext, Run

\* The days that StaysTrusted is about are days of the schedule.
LEMMA DaysAreDays == DailySpec => Spec
<1>1. DailyNext => Next
  BY DEF DailyNext, Next, Steps
<1> QED BY <1>1, PTL DEF DailySpec, Spec

\* The covered cards, and those that may still enter beside a card, can be
\* read between the end of the slowest band and that of the trust window.
RotationFits(E) ==
  \A a \in Asset : Coverage + Cardinality(E \ {a}) <= (Slow + 1) * DayReads

LEMMA FittingIsTrusted ==
  ASSUME NEW E \in SUBSET Asset, RotationFits(E), TypeOK, TrustInv(E)
  PROVE  StaysTrusted
<1> SUFFICES ASSUME NEW a \in Held, Quoted(a), ~(polls[a].age <= TrustWindow)
             PROVE  FALSE
  BY DEF StaysTrusted, Quoted
<1>1. /\ a \in Asset /\ polls[a].age \in Nat /\ Slow \in Nat /\ Missed(a) \in Nat
      /\ Queue(E, a) \in Nat /\ Missed(a) * DayReads \in Nat
  BY WaitIsNat, Bounds DEF Held
<1>2. Missed(a) >= Slow + 1
  BY <1>1 DEF Missed, TrustWindow
<1>3. (Slow + 1) * DayReads <= Missed(a) * DayReads /\ (Slow + 1) * DayReads \in Nat
  BY <1>1, <1>2, Products
<1>4. Queue(E, a) + Missed(a) * DayReads <= (Coverage - 1) + Cardinality(E \ {a})
  BY DEF TrustInv, WaitInv, Wait, Longest
<1>5. Coverage + Cardinality(E \ {a}) <= (Slow + 1) * DayReads
  BY <1>1 DEF RotationFits
<1>6. Coverage \in Nat /\ Cardinality(E \ {a}) \in Nat
  BY PartIsFinite, ScheduleAssumption DEF ScheduleAssumption
<1> QED BY ONLY <1>1, <1>3, <1>4, <1>5, <1>6

\* With one full run a day, a card of which a price was read stays inside the
\* trust window as long as it is covered, when cards that cannot be fetched are
\* asked for alone and the covered cards, with the cards of Entrants that may enter
\* later, fit in the days the window leaves after the slowest band.  Entrants = {} is a covered set
\* that stands still; Entrants = Asset asks nothing of it.
THEOREM PricesStayTrusted ==
  ASSUME FaultsAlone, NEW Entrants \in SUBSET Asset, RotationFits(Entrants)
  PROVE  DailySpec /\ [][Covered' \ Covered \subseteq Entrants]_vars => []StaysTrusted
<1>1. Init => TrustInv(Entrants)
  BY TrustInit
<1>2. /\ SchedInv /\ SchedInv' /\ TrustInv(Entrants)
      /\ [DailyNext]_vars /\ [Covered' \ Covered \subseteq Entrants]_vars
      => TrustInv(Entrants)'
  BY TrustStep
<1>3. SchedInv /\ TrustInv(Entrants) => StaysTrusted
  BY FittingIsTrusted DEF SchedInv
<1>4. DailySpec => []SchedInv
  BY DaysAreDays, ScheduleKept, PTL
<1> QED BY <1>1, <1>2, <1>3, <1>4, PTL DEF DailySpec

\* The same without a word about the covered set, when there are few enough
\* cards at all.
COROLLARY FewCardsStayTrusted ==
  ASSUME FaultsAlone, RotationFits(Asset)
  PROVE  DailySpec => []StaysTrusted
<1>1. Init => TrustInv(Asset)
  BY TrustInit
<1>2. SchedInv /\ SchedInv' /\ TrustInv(Asset) /\ [DailyNext]_vars => TrustInv(Asset)'
  <2>1. Covered' \ Covered \subseteq Asset
    BY DEF Covered
  <2> QED BY <2>1, TrustStep
<1>3. SchedInv /\ TrustInv(Asset) => StaysTrusted
  BY FittingIsTrusted DEF SchedInv
<1>4. DailySpec => []SchedInv
  BY DaysAreDays, ScheduleKept, PTL
<1> QED BY <1>1, <1>2, <1>3, <1>4, PTL DEF DailySpec

=============================================================================

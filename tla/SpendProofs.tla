---------------------------- MODULE SpendProofs ----------------------------
(* Theorems of IngestRuns about what a day costs: no day sees more than two *)
(* budgets, and the run control implements DailySpend, for any number of    *)
(* processes and runs and any budget.                                       *)
EXTENDS IngestRunsProofs

\* Program points at which a process may hold a part of its budget.
Holding == Spending \cup {"predict", "close"}

\* The requests made on day d by runs of earlier days.
OverOn(d) == SentOn(d) \ SentByRunsOf(d)

\* A run of an earlier day that has not read its budget yet found nobody who
\* could have made a request today, because it held the lock over midnight.
FreshInv ==
  /\ \A t \in DOMAIN sentOn : sentOn[t] <= day
  /\ \A p \in Proc : proc[p].pc = "budget" /\ row[proc[p].run].day # day => SentOn(day) = {}

\* Nobody keeps a budget outside of these program points.
EmptyInv == \A p \in Proc : proc[p].pc \notin Holding => proc[p].remaining = 0

\* Nobody holds more than a day's budget.
GrantInv == \A p \in Proc : MayMake(p) <= DailyBudget

\* No day saw more than a budget from runs of earlier days, and the one that is
\* at work cannot exceed it with all it may still make.
OverInv ==
  /\ \A d \in Nat : Cardinality(OverOn(d)) <= DailyBudget
  /\ \A p \in Proc :
       proc[p].pc \in Holding /\ row[proc[p].run].day # day =>
         Cardinality(OverOn(day)) + MayMake(p) <= DailyBudget

SpendInv == FreshInv /\ EmptyInv /\ GrantInv /\ OverInv

-----------------------------------------------------------------------------
(* The steps that make no request and read no budget.                       *)

\* They leave nobody more to make, and put nobody before its budget but for a
\* run of today.
Thrifty == \A q \in Proc :
  /\ proc'[q].pc \in Holding =>
       /\ proc[q].pc \in Holding /\ proc'[q].run = proc[q].run
       /\ MayMake(q)' <= MayMake(q)
  /\ proc'[q].pc \notin Holding => proc'[q].remaining = 0
  /\ proc'[q].pc = "budget" => \/ proc[q].pc = "budget" /\ proc'[q].run = proc[q].run
                               \/ row'[proc'[q].run].day = day

\* A process that stays as it is was thrifty.
LEMMA StaysThrifty ==
  ASSUME TypeInv, EmptyInv, NEW q \in Proc, proc'[q] = proc[q]
  PROVE  /\ proc'[q].pc \in Holding =>
              /\ proc[q].pc \in Holding /\ proc'[q].run = proc[q].run
              /\ MayMake(q)' <= MayMake(q)
         /\ proc'[q].pc \notin Holding => proc'[q].remaining = 0
         /\ proc'[q].pc = "budget" => \/ proc[q].pc = "budget" /\ proc'[q].run = proc[q].run
                                      \/ row'[proc'[q].run].day = day
<1>1. MayMake(q) \in Nat /\ MayMake(q)' = MayMake(q)
  BY DEF MayMake, InHand, TypeInv, TypeOK, ProcState
<1> QED BY <1>1 DEF EmptyInv

\* What a process does to itself where it does not move its budget.
LEMMA MovesThrifty ==
  ASSUME TypeInv, EmptyInv, NEW p \in Proc, proc'[p].pc # "budget",
         proc'[p].remaining = proc[p].remaining, proc'[p].run = proc[p].run,
         proc'[p].pc \in Holding <=> proc[p].pc \in Holding,
         InHand(p)' <= InHand(p),
         \A q \in Proc : q # p => proc'[q] = proc[q]
  PROVE  Thrifty
<1>1. MayMake(p)' <= MayMake(p)
  BY DEF MayMake, InHand, TypeInv, TypeOK, ProcState
<1>2. ASSUME NEW q \in Proc, q # p PROVE proc'[q] = proc[q]
  BY <1>2
<1> QED BY <1>1, <1>2, StaysThrifty DEF Thrifty, EmptyInv

\* A process that ends up with nothing.
LEMMA EmptyThrifty ==
  ASSUME TypeInv, EmptyInv, NEW p \in Proc,
         proc'[p].remaining = 0, proc'[p].pc \notin Holding, proc'[p].pc # "budget",
         \A q \in Proc : q # p => proc'[q] = proc[q]
  PROVE  Thrifty
BY StaysThrifty DEF Thrifty

\* A command that returns keeps nothing.
LEMMA ReturnThrifty ==
  ASSUME TypeInv, EmptyInv, NEW p \in Proc, Return(p) PROVE Thrifty
<1>1. proc'[p].pc = "release" /\ \A q \in Proc : q # p => proc'[q] = proc[q]
  BY ReturnFrame
<1>2. proc'[p].remaining = 0
  BY DEF Return, IdleProc, TypeInv, TypeOK
<1> QED BY <1>1, <1>2, EmptyThrifty DEF Holding, Spending, StepPc, PricePc

\* All steps but the two fetches and the reading of the budget are thrifty.
LEMMA ThriftySteps ==
  ASSUME TypeInv, EmptyInv, NEW p \in Proc,
         StartIngest(p) \/ StartReplay(p) \/ Crash(p) \/ Release(p)
         \/ StatementFails(p) \/ SessionEnds(p) \/ Replay(p)
         \/ (Ingest(p) /\ ~ReadBudget(p) /\ ~StepFetch(p) /\ ~Fetch(p))
  PROVE  Thrifty
<1> USE DEF TypeInv, TypeOK, ProcState, At, Go, InHand, Holding, Spending, StepPc, PricePc
<1>1. CASE StartIngest(p)
  BY <1>1, MovesThrifty DEF StartIngest
<1>2. CASE StartReplay(p)
  BY <1>2, MovesThrifty DEF StartReplay
<1>3. CASE TryLock(p, "try_lock", "open") \/ TryLock(p, "r_try_lock", "r_source")
  BY <1>3, MovesThrifty DEF TryLock
<1>4. CASE OpenRun(p, "open", "budget", "ingest")
  <2>1. PICK r \in RunId :
          /\ row' = [row EXCEPT ![r] = [NoRow EXCEPT !.status = "running",
                                          !.kind = "ingest", !.day = day]]
          /\ proc' = [proc EXCEPT ![p].pc = "budget", ![p].run = r]
    BY <1>4 DEF OpenRun
  <2>2. /\ proc'[p].pc = "budget" /\ row'[proc'[p].run].day = day
        /\ proc'[p].remaining = proc[p].remaining /\ proc[p].pc = "open"
    BY <1>4, <2>1 DEF OpenRun, NoRow
  <2>3. \A q \in Proc : q # p => proc'[q] = proc[q]
    BY <2>1
  <2> QED BY <2>2, <2>3, StaysThrifty DEF Thrifty, EmptyInv
<1>5. CASE StepTake(p) \/ TakeBatch(p)
  <2>1. /\ proc'[p].pc \in {"step_record", "record"} /\ proc[p].pc \in {"steps", "batch"}
        /\ proc'[p].run = proc[p].run /\ proc[p].remaining \in Nat
        /\ proc'[p].remaining = proc[p].remaining - 1
        /\ \A q \in Proc : q # p => proc'[q] = proc[q]
    BY <1>5 DEF StepTake, TakeBatch
  <2>2. MayMake(p)' <= MayMake(p)
    BY <2>1 DEF MayMake
  <2> QED BY <2>1, <2>2, StaysThrifty DEF Thrifty
<1>6. CASE StepRecord(p) \/ RecordBatch(p)
  BY <1>6, MovesThrifty DEF StepRecord, RecordBatch
<1>7. CASE StepBeat(p)
  BY <1>7, MovesThrifty DEF StepBeat
<1>8. CASE StepsDone(p)
  BY <1>8, MovesThrifty DEF StepsDone, Degrade
<1>9. CASE PlanBatches(p)
  <2>1. /\ proc[p].pc = "due" /\ proc'[p].pc \in {"predict", "batch"}
        /\ proc'[p].run = proc[p].run /\ proc'[p].remaining = proc[p].remaining
        /\ \A q \in Proc : q # p => proc'[q] = proc[q]
    BY <1>9, PlanFrame
  <2> QED BY ONLY <2>1, TypeInv, EmptyInv, MovesThrifty
          DEF InHand, Holding, Spending, StepPc, PricePc
<1>10. CASE ArchivePut(p)
  BY <1>10, MovesThrifty DEF ArchivePut, EndBatch, NextBatch
<1>11. CASE RecordKey(p)
  BY <1>11, MovesThrifty DEF RecordKey
<1>12. CASE StoreBatch(p)
  BY <1>12, MovesThrifty DEF StoreBatch, EndBatch, NextBatch
<1>13. CASE Predict(p)
  BY <1>13, MovesThrifty DEF Predict
<1>14. CASE CloseRun(p) \/ ReplayFail(p)
  BY <1>14, ReturnThrifty DEF CloseRun, ReplayFail
<1>15. CASE ReplaySource(p)
  <2>1. CASE Return(p)
    BY <2>1, ReturnThrifty
  <2>2. CASE ~Return(p)
    <3>1. /\ proc[p].pc = "r_source" /\ proc'[p].pc = "r_open"
          /\ proc'[p].remaining = proc[p].remaining /\ proc'[p].run = proc[p].run
          /\ \A q \in Proc : q # p => proc'[q] = proc[q]
      BY <1>15, <2>2 DEF ReplaySource
    <3> QED BY ONLY <3>1, TypeInv, EmptyInv, MovesThrifty
            DEF InHand, Holding, Spending, StepPc, PricePc
  <2> QED BY <2>1, <2>2
<1>16. CASE OpenRun(p, "r_open", "r_replace", "replay")
  <2>1. PICK r \in RunId : proc' = [proc EXCEPT ![p].pc = "r_replace", ![p].run = r]
    BY <1>16 DEF OpenRun
  <2>2. /\ proc'[p].pc = "r_replace" /\ proc[p].pc = "r_open"
        /\ proc'[p].remaining = proc[p].remaining
        /\ \A q \in Proc : q # p => proc'[q] = proc[q]
    BY <1>16, <2>1 DEF OpenRun
  <2>3. proc'[p].remaining = 0
    BY <2>2 DEF EmptyInv
  <2> QED BY <2>2, <2>3, EmptyThrifty
<1>17. CASE ReplayReplace(p)
  <2>1. CASE Go(p, "r_close")
    BY <1>17, <2>1, MovesThrifty DEF ReplayReplace
  <2>2. CASE Go(p, "r_fail")
    BY <1>17, <2>2, MovesThrifty DEF ReplayReplace
  <2> QED BY <1>17, <2>1, <2>2 DEF ReplayReplace
<1>18. CASE ReplayClose(p)
  <2>1. CASE Return(p)
    BY <2>1, ReturnThrifty
  <2>2. CASE Go(p, "r_fail")
    BY <1>18, <2>2, MovesThrifty DEF ReplayClose
  <2> QED BY <1>18, <2>1, <2>2 DEF ReplayClose
<1>19. CASE Release(p) \/ Crash(p)
  <2>1. /\ proc'[p].pc \in {"idle", "dead"} /\ proc'[p].remaining = 0
        /\ \A q \in Proc : q # p => proc'[q] = proc[q]
    BY <1>19 DEF Release, Crash, IdleProc
  <2> QED BY <2>1, EmptyThrifty
<1>20. CASE StatementFails(p)
  <2>1. CASE Return(p)
    BY <2>1, ReturnThrifty
  <2>2. CASE Go(p, "idle") /\ proc[p].pc \in {"try_lock", "r_try_lock"}
    BY <2>2, MovesThrifty
  <2>3. CASE /\ proc[p].pc \in {"steps", "step_record", "step_beat", "due",
                                "batch", "record", "key", "predict"}
             /\ proc' = [proc EXCEPT ![p].pc = "close", ![p].error = TRUE]
    BY <2>3, MovesThrifty
  <2> QED BY <1>20, <2>1, <2>2, <2>3 DEF StatementFails
<1>21. CASE SessionEnds(p)
  BY <1>21, MovesThrifty DEF SessionEnds
<1> QED
  BY <1>1, <1>2, <1>3, <1>4, <1>5, <1>6, <1>7, <1>8, <1>9, <1>10, <1>11, <1>12, <1>13,
     <1>14, <1>15, <1>16, <1>17, <1>18, <1>19, <1>20, <1>21
  DEF Ingest, Replay

-----------------------------------------------------------------------------
(* The refinement mapping, and the steps that only forfeit.                 *)

MadeNow == Cardinality(SentByRunsOf(day))
OverNow == Cardinality(OverOn(day))
Promise == IF WorksForToday THEN MayMake(lock) ELSE 0
Carried == IF WorksForBefore THEN MayMake(lock) ELSE 0

\* A step of DailySpend, or none.
SpendStep == [Spend!Next]_(Spend!vars)

\* What a process may make is a number, and nothing where it holds no budget.
LEMMA MayMakeType ==
  ASSUME TypeInv, NEW p \in Proc
  PROVE  /\ MayMake(p) \in Nat
         /\ proc[p].remaining = 0 /\ proc[p].pc \notin Holding => MayMake(p) = 0
BY DEF TypeInv, TypeOK, ProcState, MayMake, InHand, Holding, Spending, StepPc, PricePc

\* The requests of a day are finitely many.
LEMMA OverFinite ==
  ASSUME TypeInv, SpendSurvivesCrash, NEW d
  PROVE  /\ IsFiniteSet(SentOn(d)) /\ IsFiniteSet(OverOn(d))
         /\ Cardinality(OverOn(d)) \in Nat /\ Cardinality(SentByRunsOf(d)) \in Nat
<1>1. IsFiniteSet(requests) /\ SentOn(d) \subseteq requests
  BY DEF TypeInv, SentOn, SpendSurvivesCrash
<1>2. OverOn(d) \subseteq requests
  BY <1>1 DEF OverOn
<1> QED BY <1>1, <1>2, FS_Subset, FS_CardinalityType, SentFinite

\* A step that makes no request changes what no day saw.
LEMMA QuietOver ==
  ASSUME TypeInv, CountedInv, RowFrame, sentOn' = sentOn, NEW d
  PROVE  /\ SentOn(d)' = SentOn(d) /\ OverOn(d)' = OverOn(d)
         /\ SentByRunsOf(d)' = SentByRunsOf(d)
BY QuietStep DEF SentOn, OverOn

\* An open run keeps its day.
LEMMA RunKeepsDay ==
  ASSUME TypeInv, RowInv, RowFrame, NEW q \in Proc, proc[q].pc \in HasRun
  PROVE  proc[q].run \in RunId /\ row'[proc[q].run].day = row[proc[q].run].day
BY DEF TypeInv, RunKnown, RowInv, RowFrame

LEMMA HoldersWork == Holding \subseteq HasRun /\ Holding \subseteq Working
                     /\ "budget" \in HasRun /\ "budget" \in Working
BY DEF Holding, Spending, HasRun, Working, IngestPc

\* A thrifty step promises no more than before.
LEMMA ThriftyPromise ==
  ASSUME TypeInv, TypeInv', LockInv, RowInv, RowFrame, day' = day, Thrifty
  PROVE  /\ Promise \in Nat /\ Carried \in Nat
         /\ Promise' \in 0..Promise /\ Carried' \in 0..Carried
<1>1. \A q \in Proc : MayMake(q) \in Nat /\ MayMake(q)' \in Nat
  BY DEF TypeInv, TypeOK, ProcState, MayMake, InHand
<1>2. Promise \in Nat /\ Carried \in Nat
  BY <1>1 DEF Promise, Carried, WorksForToday, WorksForBefore
<1>3. CASE lock' \notin Proc
  BY <1>2, <1>3 DEF Promise, Carried, WorksForToday, WorksForBefore
<1>4. CASE lock' \in Proc
  <2>0. PICK q \in Proc : q = lock'
    BY <1>4
  <2>1. CASE proc'[q].pc \notin Holding
    <3>1. MayMake(q)' = 0
      BY <2>1 DEF Thrifty, MayMake, InHand, Holding, Spending, StepPc, PricePc
    <3>2. MayMake(lock)' = 0
      BY <2>0, <3>1 DEF MayMake, InHand
    <3> QED BY <1>2, <3>2 DEF Promise, Carried
  <2>2. CASE proc'[q].pc \in Holding
    <3>1. /\ proc[q].pc \in Holding /\ proc'[q].run = proc[q].run
          /\ MayMake(q)' <= MayMake(q)
      BY <2>2 DEF Thrifty
    <3>2. lock = q
      BY <3>1, HoldersWork DEF LockInv
    <3>3. proc[q].run \in RunId /\ row'[proc[q].run].day = row[proc[q].run].day
      BY <3>1, HoldersWork, RunKeepsDay
    <3>4. MayMake(lock)' = MayMake(q)' /\ MayMake(lock) = MayMake(q)
      BY <2>0, <3>2 DEF MayMake, InHand
    <3>5. (WorksForToday' <=> WorksForToday) /\ (WorksForBefore' <=> WorksForBefore)
      BY <2>0, <3>1, <3>2, <3>3 DEF WorksForToday, WorksForBefore
    <3> QED BY <1>1, <1>2, <3>1, <3>4, <3>5 DEF Promise, Carried
  <2> QED BY <2>1, <2>2
<1> QED BY <1>3, <1>4

\* A thrifty step that makes no request keeps the invariant, and forfeits.
LEMMA ThriftyStep ==
  ASSUME IInv, TypeInv', SpendInv, RowFrame, sentOn' = sentOn, day' = day, Thrifty
  PROVE  SpendInv' /\ SpendStep
<1> USE DEF IInv, SpendInv
<1>1. \A d : /\ SentOn(d)' = SentOn(d) /\ OverOn(d)' = OverOn(d)
             /\ SentByRunsOf(d)' = SentByRunsOf(d)
  BY QuietOver
<1>2. \A q \in Proc : MayMake(q) \in Nat /\ MayMake(q)' \in Nat
  BY DEF TypeInv, TypeOK, ProcState, MayMake, InHand
<1>3. FreshInv'
  <2>1. \A t \in DOMAIN sentOn' : sentOn'[t] <= day'
    BY DEF FreshInv
  <2>2. ASSUME NEW q \in Proc, proc'[q].pc = "budget", row'[proc'[q].run].day # day
        PROVE  SentOn(day)' = {}
    <3>1. proc[q].pc = "budget" /\ proc'[q].run = proc[q].run
      BY <2>2 DEF Thrifty
    <3>2. row[proc[q].run].day # day
      BY <2>2, <3>1, HoldersWork, RunKeepsDay
    <3> QED BY <1>1, <3>1, <3>2 DEF FreshInv
  <2> QED BY <2>1, <2>2 DEF FreshInv
<1>4. EmptyInv'
  BY DEF Thrifty, EmptyInv
<1>5. GrantInv'
  <2>1. ASSUME NEW q \in Proc PROVE MayMake(q)' <= DailyBudget
    <3>1. CASE proc'[q].pc \in Holding
      <4>1. MayMake(q)' <= MayMake(q) /\ MayMake(q) <= DailyBudget
        BY <3>1 DEF Thrifty, GrantInv
      <4> QED BY <1>2, <4>1, NatAssumption
    <3>2. CASE proc'[q].pc \notin Holding
      <4>1. MayMake(q)' = 0
        BY <3>2 DEF Thrifty, MayMake, InHand, Holding, Spending, StepPc, PricePc
      <4> QED BY <4>1, NatAssumption
    <3> QED BY <3>1, <3>2
  <2> QED BY <2>1 DEF GrantInv
<1>6. OverInv'
  <2>1. \A d \in Nat : Cardinality(OverOn(d))' <= DailyBudget
    BY <1>1 DEF OverInv
  <2>2. ASSUME NEW q \in Proc, proc'[q].pc \in Holding, row'[proc'[q].run].day # day
        PROVE  Cardinality(OverOn(day))' + MayMake(q)' <= DailyBudget
    <3>1. /\ proc[q].pc \in Holding /\ proc'[q].run = proc[q].run
          /\ MayMake(q)' <= MayMake(q)
      BY <2>2 DEF Thrifty
    <3>2. row[proc[q].run].day # day
      BY <2>2, <3>1, HoldersWork, RunKeepsDay
    <3>3. Cardinality(OverOn(day)) + MayMake(q) <= DailyBudget
      BY <3>1, <3>2 DEF OverInv
    <3>4. Cardinality(OverOn(day)) \in Nat /\ Cardinality(OverOn(day))' = Cardinality(OverOn(day))
      BY <1>1, OverFinite DEF CountedInv
    <3> QED BY <1>2, <3>1, <3>3, <3>4, NatAssumption
  <2> QED BY <2>1, <2>2 DEF OverInv
<1>7. SpendStep
  <2>1. MadeNow' = MadeNow /\ OverNow' = OverNow
    BY <1>1 DEF MadeNow, OverNow
  <2>2. Promise' \in 0..Promise /\ Carried' \in 0..Carried
    BY ThriftyPromise
  <2>3. Spend!Forfeit
    BY <2>1, <2>2 DEF Spend!Forfeit, MadeNow, OverNow, OverOn, Promise, Carried
  <2> QED BY <2>3 DEF SpendStep, Spend!Next
<1> QED BY <1>3, <1>4, <1>5, <1>6, <1>7

-----------------------------------------------------------------------------
(* Making a request, reading the budget, midnight.                          *)

\* While one process holds a budget or stands before it, nobody else does.
LEMMA OneAtWork ==
  ASSUME LockInv, NEW p \in Proc, proc[p].pc \in Holding \cup {"budget"}
  PROVE  /\ lock = p
         /\ \A q \in Proc : q # p => proc[q].pc \notin Holding \cup {"budget"}
BY HoldersWork DEF LockInv

\* What making a request changes.
LEMMA SendFrame ==
  ASSUME TypeInv, NEW p \in Proc, StepFetch(p) \/ Fetch(p)
  PROVE  /\ proc[p].pc \in {"step_fetch", "fetch"} /\ proc[p].run \in RunId
         /\ row' = row /\ day' = day /\ lock' = lock /\ Send(p)
         /\ proc'[p].run = proc[p].run
         /\ proc'[p].pc \in {"steps", "put", "predict", "batch"}
         /\ MayMake(p) \in Nat /\ MayMake(p)' \in Nat /\ MayMake(p)' = MayMake(p) - 1
         /\ \A q \in Proc : q # p => proc'[q] = proc[q]
<1>1. /\ proc[p].pc \in {"step_fetch", "fetch"} /\ proc[p].run \in RunId
      /\ row' = row /\ day' = day /\ lock' = lock /\ Send(p)
      /\ proc'[p].run = proc[p].run
      /\ proc'[p].remaining = proc[p].remaining /\ proc[p].remaining \in Nat
      /\ proc'[p].pc \in {"steps", "put", "predict", "batch"}
      /\ \A q \in Proc : q # p => proc'[q] = proc[q]
  BY DEF StepFetch, Fetch, Degrade, EndBatch, NextBatch, At, Go, TypeInv, TypeOK,
         ProcState, RunKnown, HasRun, StepPc, PricePc
<1>2. MayMake(p)' = proc[p].remaining /\ MayMake(p) = proc[p].remaining + 1
  BY <1>1 DEF MayMake, InHand
<1> QED BY <1>1, <1>2

\* A request made adds one, or nothing, to one of the two counts of today; a
\* count of another day can only lose.
LEMMA SendCounts ==
  ASSUME TypeInv, SpendSurvivesCrash, NEW p \in Proc, Send(p), row' = row, day' = day
  PROVE  /\ \A d \in Nat : d # day => OverOn(d)' \subseteq OverOn(d)
         /\ row[proc[p].run].day = day =>
              /\ OverNow' = OverNow
              /\ MadeNow' \in {MadeNow, MadeNow + 1}
         /\ row[proc[p].run].day # day =>
              /\ MadeNow' = MadeNow
              /\ OverNow' \in {OverNow, OverNow + 1}
<1>1. \A d \in Nat : d # day => SentOn(d)' \subseteq SentOn(d)
  BY DEF Send, SentOn
<1>2. SentOn(day)' = SentOn(day) \cup {Token(p)}
  BY DEF Send, SentOn
<1>3. \A d \in Nat : d # day => OverOn(d)' \subseteq OverOn(d)
  BY <1>1 DEF OverOn, SentByRunsOf
<1>4. CASE row[proc[p].run].day = day
  <2>1. OverOn(day)' = OverOn(day) /\ SentByRunsOf(day)' = SentByRunsOf(day) \cup {Token(p)}
    BY <1>2, <1>4 DEF OverOn, SentByRunsOf, Token
  <2>2. IsFiniteSet(SentByRunsOf(day))
    BY SentFinite
  <2>3. Cardinality(SentByRunsOf(day) \cup {Token(p)}) \in {MadeNow, MadeNow + 1}
    BY <2>2, FS_AddElement DEF MadeNow
  <2> QED BY <1>3, <1>4, <2>1, <2>3 DEF OverNow, MadeNow
<1>5. CASE row[proc[p].run].day # day
  <2>1. SentByRunsOf(day)' = SentByRunsOf(day) /\ OverOn(day)' = OverOn(day) \cup {Token(p)}
    BY <1>2, <1>5 DEF OverOn, SentByRunsOf, Token
  <2>2. IsFiniteSet(OverOn(day))
    BY OverFinite
  <2>3. Cardinality(OverOn(day) \cup {Token(p)}) \in {OverNow, OverNow + 1}
    BY <2>2, FS_AddElement DEF OverNow
  <2> QED BY <1>3, <1>5, <2>1, <2>3 DEF OverNow, MadeNow
<1> QED BY <1>4, <1>5

\* Making the request in hand keeps the invariant; it is a call of DailySpend,
\* or nothing but a forfeit.
LEMMA SendSpend ==
  ASSUME IInv, IInv', SpendInv, NEW p \in Proc, StepFetch(p) \/ Fetch(p)
  PROVE  SpendInv' /\ SpendStep
<1> USE NatAssumption DEF IInv, SpendInv
<1>1. /\ proc[p].pc \in {"step_fetch", "fetch"} /\ proc[p].run \in RunId
      /\ row' = row /\ day' = day /\ lock' = lock /\ Send(p)
      /\ proc'[p].run = proc[p].run
      /\ proc'[p].pc \in {"steps", "put", "predict", "batch"}
      /\ MayMake(p) \in Nat /\ MayMake(p)' \in Nat /\ MayMake(p)' = MayMake(p) - 1
      /\ \A q \in Proc : q # p => proc'[q] = proc[q]
  BY SendFrame
<1>2. proc[p].pc \in Holding /\ proc'[p].pc \in Holding /\ proc'[p].pc # "budget"
  BY <1>1 DEF Holding, Spending, StepPc, PricePc
<1>3. lock = p /\ \A q \in Proc : q # p => proc'[q].pc \notin Holding \cup {"budget"}
  BY <1>1, <1>2, OneAtWork
<1>4. /\ \A d \in Nat : d # day => OverOn(d)' \subseteq OverOn(d)
      /\ row[proc[p].run].day = day =>
           OverNow' = OverNow /\ MadeNow' \in {MadeNow, MadeNow + 1}
      /\ row[proc[p].run].day # day =>
           MadeNow' = MadeNow /\ OverNow' \in {OverNow, OverNow + 1}
  BY <1>1, SendCounts DEF CountedInv
<1>5. /\ OverNow \in Nat /\ MadeNow \in Nat /\ day \in Nat
      /\ OverNow <= DailyBudget
      /\ row[proc[p].run].day # day => OverNow + MayMake(p) <= DailyBudget
  BY <1>2, OverFinite DEF CountedInv, OverNow, MadeNow, OverInv, TypeInv, TypeOK
<1>6. FreshInv'
  BY <1>1, <1>2, <1>3, <1>5 DEF FreshInv, Send
<1>7. EmptyInv'
  BY <1>1, <1>2 DEF EmptyInv
<1>8. GrantInv'
  <2>1. ASSUME NEW q \in Proc, q # p PROVE MayMake(q)' = MayMake(q)
    BY <1>1, <2>1 DEF MayMake, InHand
  <2>2. MayMake(p)' <= DailyBudget
    BY <1>1 DEF GrantInv
  <2> QED BY <2>1, <2>2 DEF GrantInv
<1>9. OverInv'
  <2>1. OverNow' <= DailyBudget
    BY <1>1, <1>4, <1>5
  <2>2. ASSUME NEW d \in Nat PROVE Cardinality(OverOn(d))' <= DailyBudget
    <3>1. CASE d = day
      BY <1>1, <2>1, <3>1 DEF OverNow
    <3>2. CASE d # day
      <4>1. OverOn(d)' \subseteq OverOn(d)
        BY <1>4, <3>2
      <4>2. /\ Cardinality(OverOn(d)') <= Cardinality(OverOn(d))
            /\ Cardinality(OverOn(d)') \in Nat /\ Cardinality(OverOn(d)) \in Nat
        BY <4>1, OverFinite, FS_Subset, FS_CardinalityType DEF CountedInv
      <4>3. Cardinality(OverOn(d)) <= DailyBudget
        BY DEF OverInv
      <4> QED BY <4>2, <4>3
    <3> QED BY <3>1, <3>2
  <2>3. row[proc[p].run].day # day => OverNow' + MayMake(p)' <= DailyBudget
    BY <1>1, <1>4, <1>5
  <2>4. ASSUME NEW q \in Proc, proc'[q].pc \in Holding, row'[proc'[q].run].day # day'
        PROVE  Cardinality(OverOn(day))' + MayMake(q)' <= DailyBudget
    <3>1. q = p
      BY <1>3, <2>4
    <3> QED BY <1>1, <2>3, <2>4, <3>1 DEF OverNow
  <2> QED BY <2>2, <2>4 DEF OverInv
<1>10. SpendStep
  <2>1. /\ row[proc[p].run].day = day =>
             Promise = MayMake(p) /\ Carried = 0 /\ Promise' = MayMake(p)' /\ Carried' = 0
        /\ row[proc[p].run].day # day =>
             Promise = 0 /\ Carried = MayMake(p) /\ Promise' = 0 /\ Carried' = MayMake(p)'
    BY <1>1, <1>3 DEF Promise, Carried, WorksForToday, WorksForBefore, MayMake, InHand
  <2>2. CASE row[proc[p].run].day = day /\ MadeNow' = MadeNow + 1
    <3>1. Promise > 0 /\ Promise' = Promise - 1 /\ Carried' = Carried /\ OverNow' = OverNow
      BY <1>1, <1>4, <2>1, <2>2
    <3>2. Spend!Call
      BY <1>1, <2>2, <3>1 DEF Spend!Call, MadeNow, OverNow, OverOn, Promise, Carried
    <3> QED BY <3>2 DEF SpendStep, Spend!Next
  <2>3. CASE row[proc[p].run].day # day /\ OverNow' = OverNow + 1
    <3>1. Carried > 0 /\ Carried' = Carried - 1 /\ Promise' = Promise /\ MadeNow' = MadeNow
      BY <1>1, <1>4, <2>1, <2>3
    <3>2. Spend!CallOver
      BY <1>1, <2>3, <3>1 DEF Spend!CallOver, MadeNow, OverNow, OverOn, Promise, Carried
    <3> QED BY <3>2 DEF SpendStep, Spend!Next
  <2>4. CASE MadeNow' = MadeNow /\ OverNow' = OverNow
    <3>1. Promise' \in 0..Promise /\ Carried' \in 0..Carried
      BY <1>1, <2>1
    <3>2. Spend!Forfeit
      BY <1>1, <2>4, <3>1 DEF Spend!Forfeit, MadeNow, OverNow, OverOn, Promise, Carried
    <3> QED BY <3>2 DEF SpendStep, Spend!Next
  <2> QED BY <1>4, <2>2, <2>3, <2>4
<1> QED BY <1>6, <1>7, <1>8, <1>9, <1>10

\* Reading the budget keeps the invariant and is a grant.
LEMMA ReadSpend ==
  ASSUME IInv, IInv', SpendInv, RowFrame, NEW p \in Proc, ReadBudget(p)
  PROVE  SpendInv' /\ SpendStep
<1> USE NatAssumption DEF IInv, SpendInv
<1>1. /\ proc[p].pc = "budget" /\ proc'[p].pc = "steps" /\ proc[p].run \in RunId
      /\ proc'[p].run = proc[p].run
      /\ row' = row /\ day' = day /\ lock' = lock /\ sentOn' = sentOn
      /\ proc'[p].remaining = SaturatingSub(DailyBudget, SpentToday)
      /\ \A q \in Proc : q # p => proc'[q] = proc[q]
  BY DEF ReadBudget, At, TypeInv, TypeOK, ProcState, RunKnown, HasRun
<1>2. /\ SpentToday \in Nat /\ MadeNow <= SpentToday /\ MadeNow \in Nat /\ day \in Nat
      /\ MadeNow <= DailyBudget
  BY SentFinite DEF CountedInv, MadeNow, BudgetInv, TypeInv, TypeOK
<1>3. /\ MayMake(p)' \in 0..(DailyBudget - MadeNow) /\ MayMake(p)' \in 0..DailyBudget
  BY <1>1, <1>2 DEF MayMake, InHand, SaturatingSub
<1>4. MayMake(p) = 0
  BY <1>1 DEF EmptyInv, MayMake, InHand, Holding, Spending, StepPc, PricePc
<1>5. lock = p /\ \A q \in Proc : q # p => proc'[q].pc \notin Holding \cup {"budget"}
  BY <1>1, OneAtWork
<1>6. \A d : /\ SentOn(d)' = SentOn(d) /\ OverOn(d)' = OverOn(d)
             /\ SentByRunsOf(d)' = SentByRunsOf(d)
  BY <1>1, QuietOver
<1>7. row[proc[p].run].day # day => MadeNow = 0 /\ OverNow = 0
  <2>1. row[proc[p].run].day # day => SentByRunsOf(day) = {} /\ OverOn(day) = {}
    BY <1>1 DEF FreshInv, SentByRunsOf, OverOn
  <2> QED BY <2>1, FS_EmptySet DEF MadeNow, OverNow
<1>8. FreshInv'
  BY <1>1, <1>5 DEF FreshInv
<1>9. EmptyInv'
  BY <1>1 DEF EmptyInv, Holding, Spending, StepPc
<1>10. GrantInv'
  <2>1. ASSUME NEW q \in Proc, q # p PROVE MayMake(q)' = MayMake(q)
    BY <1>1, <2>1 DEF MayMake, InHand
  <2> QED BY <1>3, <2>1 DEF GrantInv
<1>11. OverInv'
  <2>1. \A d \in Nat : Cardinality(OverOn(d))' <= DailyBudget
    BY <1>6 DEF OverInv
  <2>2. ASSUME NEW q \in Proc, proc'[q].pc \in Holding, row'[proc'[q].run].day # day'
        PROVE  Cardinality(OverOn(day))' + MayMake(q)' <= DailyBudget
    <3>1. q = p
      BY <1>5, <2>2
    <3>2. Cardinality(OverOn(day))' = 0
      BY <1>1, <1>6, <1>7, <2>2, <3>1 DEF OverNow
    <3> QED BY <1>3, <3>1, <3>2
  <2> QED BY <1>1, <2>1, <2>2 DEF OverInv
<1>12. SpendStep
  <2>1. MadeNow' = MadeNow /\ OverNow' = OverNow
    BY <1>1, <1>6 DEF MadeNow, OverNow
  <2>2. Promise = 0 /\ Carried = 0
    BY <1>4, <1>5 DEF Promise, Carried
  <2>3. /\ row[proc[p].run].day = day => Promise' = MayMake(p)' /\ Carried' = 0
        /\ row[proc[p].run].day # day => Promise' = 0 /\ Carried' = MayMake(p)'
    BY <1>1, <1>5 DEF Promise, Carried, WorksForToday, WorksForBefore, MayMake, InHand
  <2>4. CASE row[proc[p].run].day = day
    <3>1. Promise' \in 0..(DailyBudget - MadeNow) /\ Carried' = Carried
      BY <1>3, <2>2, <2>3, <2>4
    <3>2. Spend!Grant
      BY <1>1, <2>1, <2>2, <3>1 DEF Spend!Grant, MadeNow, OverNow, OverOn, Promise, Carried
    <3> QED BY <3>2 DEF SpendStep, Spend!Next
  <2>5. CASE row[proc[p].run].day # day
    <3>1. Carried' \in 0..DailyBudget /\ Promise' = Promise /\ MadeNow = 0 /\ OverNow = 0
      BY <1>3, <1>7, <2>2, <2>3, <2>5
    <3>2. Spend!GrantOver
      BY <1>1, <2>1, <2>2, <3>1
         DEF Spend!GrantOver, MadeNow, OverNow, OverOn, Promise, Carried
    <3> QED BY <3>2 DEF SpendStep, Spend!Next
  <2> QED BY <2>4, <2>5
<1> QED BY <1>8, <1>9, <1>10, <1>11, <1>12

\* Midnight carries what is promised into a day that has seen no request.
LEMMA MidnightSpend ==
  ASSUME IInv, IInv', SpendInv, RowFrame, Midnight
  PROVE  SpendInv' /\ SpendStep
<1> USE NatAssumption DEF IInv, SpendInv
<1>1. /\ day \in Nat /\ day' = day + 1 /\ proc' = proc /\ row' = row /\ lock' = lock
      /\ sentOn' = sentOn
  BY DEF Midnight, TypeInv, TypeOK
<1>2. \A t \in DOMAIN sentOn : sentOn[t] \in Nat /\ sentOn[t] < day'
  BY <1>1 DEF FreshInv, TypeInv, TypeOK
<1>3. SentOn(day)' = {} /\ SentByRunsOf(day)' = {} /\ OverOn(day)' = {}
  <2>1. SentOn(day)' = {}
    BY <1>1, <1>2 DEF SentOn
  <2> QED BY <2>1 DEF SentByRunsOf, OverOn
<1>4. MadeNow' = 0 /\ OverNow' = 0
  BY <1>3, FS_EmptySet DEF MadeNow, OverNow
<1>5. \A q \in Proc : MayMake(q) \in Nat /\ MayMake(q)' = MayMake(q)
  BY <1>1 DEF TypeInv, TypeOK, ProcState, MayMake, InHand
<1>6. FreshInv'
  BY <1>1, <1>2, <1>3 DEF FreshInv
<1>7. EmptyInv' /\ GrantInv'
  BY <1>1, <1>5 DEF EmptyInv, GrantInv
<1>8. OverInv'
  <2>1. \A d \in Nat : Cardinality(OverOn(d))' <= DailyBudget
    BY <1>1, QuietOver DEF OverInv
  <2>2. Cardinality(OverOn(day))' = 0
    BY <1>4 DEF OverNow
  <2> QED BY <1>1, <1>5, <2>1, <2>2 DEF OverInv, GrantInv
<1>9. SpendStep
  <2>1. \A r \in RunId : row[r].day # day'
    BY <1>1 DEF RowInv, TypeInv, TypeOK, RunRow
  <2>2. MayMake(lock)' = MayMake(lock)
    BY <1>1 DEF MayMake, InHand
  <2>3. Promise' = 0 /\ Carried' = Promise + Carried
    <3>1. CASE lock \in Proc /\ proc[lock].run \in RunId
      BY <1>1, <1>5, <2>1, <2>2, <3>1 DEF Promise, Carried, WorksForToday, WorksForBefore
    <3>2. CASE ~ (lock \in Proc /\ proc[lock].run \in RunId)
      BY <1>1, <3>2 DEF Promise, Carried, WorksForToday, WorksForBefore
    <3> QED BY <3>1, <3>2
  <2>4. Spend!NewDay
    BY <1>1, <1>4, <2>3 DEF Spend!NewDay, MadeNow, OverNow, OverOn, Promise, Carried
  <2> QED BY <2>4 DEF SpendStep, Spend!Next
<1> QED BY <1>6, <1>7, <1>8, <1>9

-----------------------------------------------------------------------------
(* The theorems.                                                            *)

\* The start is DailySpend's.
LEMMA InitSpend == Init => SpendInv /\ Spend!Init
<1> SUFFICES ASSUME Init PROVE SpendInv /\ Spend!Init
  OBVIOUS
<1>1. \A d : SentOn(d) = {} /\ SentByRunsOf(d) = {} /\ OverOn(d) = {}
  BY DEF Init, SentOn, SentByRunsOf, OverOn
<1>2. \A d : Cardinality(OverOn(d)) = 0 /\ Cardinality(SentByRunsOf(d)) = 0
  BY <1>1, FS_EmptySet
<1>3. \A p \in Proc : MayMake(p) = 0 /\ proc[p].remaining = 0 /\ proc[p].pc = "idle"
  BY DEF Init, IdleProc, MayMake, InHand
<1>4. FreshInv /\ EmptyInv
  BY <1>1, <1>3 DEF Init, FreshInv, EmptyInv
<1>5. GrantInv /\ OverInv
  BY <1>2, <1>3, NatAssumption
     DEF GrantInv, OverInv, Holding, Spending, StepPc, PricePc
<1>6. Spend!Init
  BY <1>2, SetAssumption
     DEF Init, Spend!Init, OverOn, WorksForToday, WorksForBefore
<1> QED BY <1>4, <1>5, <1>6 DEF SpendInv

\* Every step keeps the invariant, and is a step of DailySpend or none.
LEMMA StepSpend ==
  ASSUME IInv, IInv', SpendInv, [Next]_vars PROVE SpendInv' /\ SpendStep
<1>1. TypeInv /\ TypeInv' /\ RowFrame
  BY RowStep DEF IInv
<1>2. CASE Hour \/ UNCHANGED vars
  <2>1. proc' = proc /\ sentOn' = sentOn /\ day' = day
    BY <1>2 DEF Hour, vars
  <2>2. Thrifty
    BY <1>1, <2>1, StaysThrifty DEF Thrifty, SpendInv
  <2> QED BY <1>1, <2>1, <2>2, ThriftyStep
<1>3. CASE Midnight
  BY <1>1, <1>3, MidnightSpend
<1>4. ASSUME NEW p \in Proc,
             StartIngest(p) \/ StartReplay(p) \/ Advance(p) \/ Crash(p)
      PROVE  SpendInv' /\ SpendStep
  <2>1. CASE StepFetch(p) \/ Fetch(p)
    BY <2>1, SendSpend
  <2>2. CASE ReadBudget(p)
    BY <1>1, <2>2, ReadSpend
  <2>3. CASE ~StepFetch(p) /\ ~Fetch(p) /\ ~ReadBudget(p)
    <3>1. Thrifty
      BY <1>1, <1>4, <2>3, ThriftySteps DEF Advance, SpendInv
    <3>2. sentOn' = sentOn /\ day' = day
      BY <1>1, <1>4, <2>3, SilentSteps DEF Advance, Silent
    <3> QED BY <1>1, <3>1, <3>2, ThriftyStep
  <2> QED BY <2>1, <2>2, <2>3
<1> QED BY <1>2, <1>3, <1>4 DEF Next

\* The run control implements DailySpend: through every interleaving, crash and
\* failed statement it grants no more than the day has left, and never holds
\* two grants (run_locked, requests_spent_today, try_lock).
THEOREM SpendsLikeDailySpend == Spec => SpendsAsPromised
<1>1. Spec => []IInv
  BY InitIInv, StepIInv, PTL DEF Spec
<1>2. IInv /\ IInv' /\ SpendInv /\ [Next]_vars => SpendInv' /\ [Spend!Next]_(Spend!vars)
  BY StepSpend DEF SpendStep
<1> QED BY <1>1, <1>2, InitSpend, PTL DEF Spec, SpendsAsPromised, Spend!Spec

\* No day sees more requests than two budgets: its own runs keep one, and the
\* one run that was at work at midnight brings no more than another.
THEOREM NoDayTriples == Spec => []DayAtMostDoubled
<1>1. Spec => []IInv
  BY InitIInv, StepIInv, PTL DEF Spec
<1>2. IInv /\ IInv' /\ SpendInv /\ [Next]_vars => SpendInv'
  BY StepSpend
<1>3. IInv /\ SpendInv => DayAtMostDoubled
  <2> SUFFICES ASSUME IInv, SpendInv, NEW d \in 0..day
               PROVE  Cardinality(SentOn(d)) <= 2 * DailyBudget
    BY DEF DayAtMostDoubled
  <2>1. d \in Nat /\ DailyBudget \in Nat
    BY NatAssumption
  <2>2. /\ IsFiniteSet(OverOn(d)) /\ IsFiniteSet(SentByRunsOf(d))
        /\ Cardinality(OverOn(d)) \in Nat /\ Cardinality(SentByRunsOf(d)) \in Nat
    BY OverFinite, SentFinite DEF IInv, CountedInv
  <2>3. SentOn(d) = SentByRunsOf(d) \cup OverOn(d) /\ SentByRunsOf(d) \cap OverOn(d) = {}
    BY DEF OverOn, SentByRunsOf
  <2>4. Cardinality(SentOn(d)) = Cardinality(SentByRunsOf(d)) + Cardinality(OverOn(d))
    <3>1. Cardinality(SentByRunsOf(d) \cap OverOn(d)) = 0
      BY <2>3, FS_EmptySet
    <3>2. Cardinality(SentByRunsOf(d) \cup OverOn(d)) =
            Cardinality(SentByRunsOf(d)) + Cardinality(OverOn(d))
              - Cardinality(SentByRunsOf(d) \cap OverOn(d))
      BY <2>2, FS_Union
    <3> QED BY <2>2, <2>3, <3>1, <3>2
  <2>5. Cardinality(SentByRunsOf(d)) <= DailyBudget /\ Cardinality(OverOn(d)) <= DailyBudget
    BY <2>1 DEF IInv, BudgetInv, SpendInv, OverInv
  <2> QED BY <2>1, <2>2, <2>4, <2>5
<1> QED BY <1>1, <1>2, <1>3, InitSpend, PTL DEF Spec

-----------------------------------------------------------------------------
(* What DailySpend promises.                                                *)

\* What fits still fits when a part of it is forfeited.
LEMMA LessFits ==
  ASSUME NEW a \in Nat, NEW b \in Nat, NEW c \in Nat, NEW d \in Nat, a + b <= d, c <= b
  PROVE  a + c <= d
OBVIOUS

\* One step of DailySpend keeps the two budgets apart.
LEMMA SpendKept ==
  ASSUME Spend!Kept, SpendStep PROVE Spend!Kept'
<1> DEFINE m == Cardinality(SentByRunsOf(day))
           o == Cardinality(SentOn(day) \ SentByRunsOf(day))
           p == IF WorksForToday THEN MayMake(lock) ELSE 0
           c == IF WorksForBefore THEN MayMake(lock) ELSE 0
<1>1. /\ day \in Nat /\ m \in Nat /\ o \in Nat /\ p \in Nat /\ c \in Nat /\ DailyBudget \in Nat
      /\ m + p <= DailyBudget /\ o + c <= DailyBudget
      /\ p = 0 \/ c = 0
  BY NatAssumption DEF Spend!Kept
<1>2. \/ Spend!Grant \/ Spend!GrantOver \/ Spend!Call \/ Spend!CallOver
      \/ Spend!Forfeit \/ Spend!NewDay \/ UNCHANGED <<day, m, o, p, c>>
  BY DEF SpendStep, Spend!Next, Spend!vars
<1>3. Spend!Grant => /\ p = 0 /\ c = 0 /\ p' \in 0..(DailyBudget - m)
                     /\ UNCHANGED <<day, m, o, c>>
  BY DEF Spend!Grant
<1>4. Spend!GrantOver => /\ p = 0 /\ c = 0 /\ m = 0 /\ o = 0 /\ c' \in 0..DailyBudget
                         /\ UNCHANGED <<day, m, o, p>>
  BY DEF Spend!GrantOver
<1>5. Spend!Call => p > 0 /\ p' = p - 1 /\ m' = m + 1 /\ UNCHANGED <<day, o, c>>
  BY DEF Spend!Call
<1>6. Spend!CallOver => c > 0 /\ c' = c - 1 /\ o' = o + 1 /\ UNCHANGED <<day, m, p>>
  BY DEF Spend!CallOver
<1>7. Spend!Forfeit => p' \in 0..p /\ c' \in 0..c /\ UNCHANGED <<day, m, o>>
  BY DEF Spend!Forfeit
<1>8. Spend!NewDay => day' = day + 1 /\ m' = 0 /\ o' = 0 /\ p' = 0 /\ c' = p + c
  BY DEF Spend!NewDay
<1>9. /\ day' \in Nat /\ m' \in Nat /\ o' \in Nat /\ p' \in Nat /\ c' \in Nat
      /\ m' + p' <= DailyBudget /\ o' + c' <= DailyBudget
      /\ p' = 0 \/ c' = 0
  <2> HIDE DEF m, o, p, c
  <2>1. CASE Spend!Grant \/ Spend!GrantOver
    BY ONLY <1>1, <1>3, <1>4, <2>1
  <2>2. CASE Spend!Call \/ Spend!CallOver
    BY ONLY <1>1, <1>5, <1>6, <2>2
  <2>3. CASE Spend!Forfeit
    <3>1. /\ p' \in Nat /\ p' <= p /\ c' \in Nat /\ c' <= c
          /\ day' = day /\ m' = m /\ o' = o
      BY ONLY <1>1, <1>7, <2>3
    <3>2. m + p' <= DailyBudget /\ o + c' <= DailyBudget
      BY ONLY <1>1, <3>1, LessFits
    <3>3. (p = 0 => p' = 0) /\ (c = 0 => c' = 0)
      BY ONLY <3>1
    <3>4. p' = 0 \/ c' = 0
      BY ONLY <1>1, <3>3, Zenon
    <3>5. day' \in Nat /\ m' \in Nat /\ o' \in Nat
      BY ONLY <1>1, <3>1, Zenon
    <3>6. m' + p' <= DailyBudget /\ o' + c' <= DailyBudget
      BY ONLY <3>1, <3>2, Zenon
    <3> QED BY ONLY <3>1, <3>4, <3>5, <3>6, Zenon
  <2>4. CASE Spend!NewDay
    BY ONLY <1>1, <1>8, <2>4
  <2>5. CASE UNCHANGED <<day, m, o, p, c>>
    BY ONLY <1>1, <2>5
  <2> QED BY ONLY <1>2, <2>1, <2>2, <2>3, <2>4, <2>5
<1> QED BY <1>9 DEF Spend!Kept

\* On no day are more calls made than two budgets, by any system that spends as
\* DailySpend promises: the day's own runs keep one and a carried run one more.
THEOREM TwoBudgetsADay == Spend!Spec => []Spend!AtMostDoubled
<1>1. Spend!Init => Spend!Kept
  BY NatAssumption DEF Spend!Init, Spend!Kept
<1>2. Spend!Kept /\ [Spend!Next]_(Spend!vars) => Spend!Kept'
  BY SpendKept DEF SpendStep
<1>3. Spend!Kept => Spend!AtMostDoubled
  BY NatAssumption DEF Spend!Kept, Spend!AtMostDoubled
<1> QED BY <1>1, <1>2, <1>3, PTL DEF Spend!Spec

=============================================================================

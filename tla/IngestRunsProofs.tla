-------------------------- MODULE IngestRunsProofs --------------------------
(* Theorems about IngestRuns, for any number of processes and runs and any *)
(* budget.                                                                 *)
EXTENDS IngestRuns, FiniteSetTheorems, TLAPS

(***************************************************************************)
(* Typing                                                                  *)
(***************************************************************************)

\* A process whose row is open: past open_run and before the return.
HasRun == {"budget", "predict", "close", "r_replace", "r_close", "r_fail"}
             \cup StepPc \cup PricePc

\* A process past open_run knows its run, and a replay past run_replay_source
\* knows the run it re-parses.
RunKnown == \A p \in Proc : proc[p].pc \in HasRun => proc[p].run \in RunId

TypeInv == TypeOK /\ IsFiniteSet(requests) /\ RunKnown

\* The program points and the statuses, so that a step need not expand the sets.
LEMMA Points ==
   /\ "idle" \in Pc /\ "dead" \in Pc /\ "try_lock" \in Pc
   /\ "r_try_lock" \in Pc /\ "open" \in Pc /\ "budget" \in Pc
   /\ "predict" \in Pc /\ "close" \in Pc /\ "release" \in Pc /\ "steps" \in Pc
   /\ "step_record" \in Pc /\ "step_beat" \in Pc /\ "step_fetch" \in Pc
   /\ "due" \in Pc /\ "batch" \in Pc /\ "record" \in Pc /\ "fetch" \in Pc
   /\ "put" \in Pc /\ "key" \in Pc /\ "store" \in Pc /\ "r_source" \in Pc
   /\ "r_open" \in Pc /\ "r_replace" \in Pc /\ "r_close" \in Pc
   /\ "r_fail" \in Pc
   /\ "none" \in Status /\ "running" \in Status /\ "abandoned" \in Status
   /\ "ok" \in Status /\ "degraded" \in Status /\ "failed" \in Status
  /\ "none" \in Kind /\ "ingest" \in Kind /\ "replay" \in Kind /\ 0 \in Age
  /\ \A a \in Age : a <= AbandonAfter => a + 1 \in Age
BY NatAssumption DEF Pc, Working, IngestPc, ReplayPc, StepPc, PricePc, Status,
                     Ended, Kind, Age

\* A process that opened its run names keys and tokens of table ingest_runs.
LEMMA Names ==
  ASSUME TypeInv, NEW p \in Proc, proc[p].pc \in HasRun
  PROVE  Token(p) \in Key /\ BatchKey(p) \in Key
BY DEF TypeInv, TypeOK, RunKnown, ProcState, Token, BatchKey, Key

\* What the steps write into a process and into a run row is of its type.
LEMMA ProcUpdates ==
  ASSUME NEW s \in ProcState, NEW pc \in Pc
  PROVE  /\ [s EXCEPT !.pc = pc] \in ProcState
         /\ [s EXCEPT !.pc = pc, !.error = TRUE] \in ProcState
         /\ \A r \in RunId : [s EXCEPT !.pc = pc, !.run = r] \in ProcState
         /\ \A n \in Nat : [s EXCEPT !.pc = pc, !.remaining = n] \in ProcState
         /\ \A o \in RunId, keys \in SUBSET Key :
              [s EXCEPT !.pc = pc, !.orig = o, !.keys = keys] \in ProcState
BY DEF ProcState

LEMMA RowUpdates ==
  ASSUME NEW f \in [RunId -> RunRow], NEW r \in RunId
  PROVE  /\ \A st \in Status : [f EXCEPT ![r].status = st] \in [RunId -> RunRow]
         /\ \A n \in Nat : [f EXCEPT ![r].due = n] \in [RunId -> RunRow]
         /\ \A k \in Key : [f EXCEPT ![r].keys = @ \cup {k}] \in [RunId -> RunRow]
         /\ [f EXCEPT ![r].age = 0] \in [RunId -> RunRow]
<1>1. f[r] \in RunRow
  OBVIOUS
<1>2. /\ \A st \in Status : [f[r] EXCEPT !.status = st] \in RunRow
      /\ \A n \in Nat : [f[r] EXCEPT !.due = n] \in RunRow
      /\ \A k \in Key : [f[r] EXCEPT !.keys = @ \cup {k}] \in RunRow
      /\ [f[r] EXCEPT !.age = 0] \in RunRow
  BY ONLY <1>1, Points DEF RunRow
<1>3. \A e \in RunRow : [f EXCEPT ![r] = e] \in [RunId -> RunRow]
  OBVIOUS
<1> QED BY <1>2, <1>3

LEMMA ReapedIsTyped ==
  ASSUME row \in [RunId -> RunRow]
  PROVE  Reaped \in [RunId -> RunRow]
<1>1. \A r \in RunId : [row[r] EXCEPT !.status = "abandoned"] \in RunRow
  BY Points DEF RunRow
<1> QED BY <1>1 DEF Reaped

\* A command that returns keeps nothing but its place.
LEMMA ReturnType ==
  ASSUME TypeInv, NEW p \in Proc, Return(p)
  PROVE  proc' \in [Proc -> ProcState] /\ RunKnown'
<1> DEFINE s == [IdleProc EXCEPT !.pc = "release", !.run = proc[p].run]
<1>1. proc \in [Proc -> ProcState] /\ proc[p].run \in RunId \cup {NoRun}
  BY DEF TypeInv, TypeOK, ProcState
<1>2. s \in ProcState /\ s.pc = "release"
  BY <1>1, Points DEF ProcState, IdleProc
<1>3. proc' = [proc EXCEPT ![p] = s]
  BY DEF Return
<1> QED BY ONLY TypeInv, <1>1, <1>2, <1>3
        DEF TypeInv, RunKnown, HasRun, StepPc, PricePc

\* The initial state is typed.
LEMMA InitType == Init => TypeInv
<1> SUFFICES ASSUME Init PROVE TypeInv
  OBVIOUS
<1> USE SetAssumption, NatAssumption, Points DEF Init
<1>1. proc \in [Proc -> ProcState]
  BY DEF IdleProc, ProcState
<1>2. row \in [RunId -> RunRow]
  BY DEF NoRow, RunRow
<1>3. IsFiniteSet(requests)
  BY FS_EmptySet
<1>4. RunKnown
  BY DEF RunKnown, IdleProc, HasRun, StepPc, PricePc
<1> QED BY <1>1, <1>2, <1>3, <1>4 DEF TypeInv, TypeOK, Key

\* Every step keeps the types: one case per action of the two commands.
LEMMA StepType == TypeInv /\ [Next]_vars => TypeInv'
<1> SUFFICES ASSUME TypeInv, [Next]_vars PROVE TypeInv'
  OBVIOUS
<1> USE SetAssumption, NatAssumption, Points
    DEF TypeInv, TypeOK, RunKnown, ProcState, StepPc, PricePc, HasRun, At, Go
<1>1. ASSUME NEW p \in Proc, StartIngest(p) PROVE TypeInv'
  <2>1. row' \in [RunId -> RunRow]
    BY ONLY <1>1, ReapedIsTyped, row \in [RunId -> RunRow] DEF StartIngest
  <2>2. proc' \in [Proc -> ProcState]
    BY <1>1 DEF StartIngest
  <2>3. RunKnown'
    BY <1>1 DEF StartIngest
  <2> QED BY <1>1, <2>1, <2>2, <2>3 DEF StartIngest
<1>2. ASSUME NEW p \in Proc, StartReplay(p) PROVE TypeInv'
  BY <1>2 DEF StartReplay
<1>3. ASSUME NEW p \in Proc, TryLock(p, "try_lock", "open") PROVE TypeInv'
  BY <1>3 DEF TryLock
<1>4. ASSUME NEW p \in Proc, OpenRun(p, "open", "budget", "ingest") PROVE TypeInv'
  <2> PICK r \in RunId :
         /\ row' = [row EXCEPT ![r] = [NoRow EXCEPT !.status = "running",
                                          !.kind = "ingest", !.day = day]]
         /\ proc' = [proc EXCEPT ![p].pc = "budget", ![p].run = r]
    BY <1>4 DEF OpenRun
  <2>1. [NoRow EXCEPT !.status = "running", !.kind = "ingest", !.day = day] \in RunRow
    BY DEF RunRow, NoRow
  <2>2. row' \in [RunId -> RunRow]
    BY <2>1
  <2>3. proc' \in [Proc -> ProcState]
    <3>1. [proc[p] EXCEPT !.pc = "budget", !.run = r] \in ProcState
      <4> HIDE DEF ProcState
      <4> QED BY ONLY ProcUpdates, Points, p \in Proc, r \in RunId, proc \in [Proc -> ProcState]
    <3>2. proc' = [proc EXCEPT ![p] = [proc[p] EXCEPT !.pc = "budget", !.run = r]]
      OBVIOUS
    <3> QED BY <3>1, <3>2
  <2>4. RunKnown'
    OBVIOUS
  <2> QED BY <1>4, <2>2, <2>3, <2>4 DEF OpenRun
<1>5. ASSUME NEW p \in Proc, ReadBudget(p) PROVE TypeInv'
  <2>1. SpentToday \in Nat
    BY FS_CardinalityType, FS_Subset DEF SpentToday
  <2>2. SaturatingSub(DailyBudget, SpentToday) \in Nat
    BY <2>1 DEF SaturatingSub
  <2>3. proc' \in [Proc -> ProcState] /\ RunKnown'
    <3> DEFINE s == [proc[p] EXCEPT !.pc = "steps",
                        !.remaining = SaturatingSub(DailyBudget, SpentToday)]
    <3>1. s \in ProcState
      <4> HIDE DEF ProcState
      <4> QED BY ONLY <2>2, ProcUpdates, Points, p \in Proc, proc \in [Proc -> ProcState]
    <3>2. proc' = [proc EXCEPT ![p] = s]
      BY <1>5 DEF ReadBudget
    <3>3. RunKnown'
      BY <1>5, <3>2 DEF ReadBudget
    <3> QED BY <3>1, <3>2, <3>3
  <2> QED BY <1>5, <2>3 DEF ReadBudget
<1>6. ASSUME NEW p \in Proc, StepTake(p) PROVE TypeInv'
  BY <1>6 DEF StepTake
<1>7. ASSUME NEW p \in Proc, StepRecord(p) PROVE TypeInv'
  <2>1. IsFiniteSet(requests') /\ requests' \subseteq Key
    BY <1>7, Names, FS_AddElement DEF StepRecord, RecordRequest
  <2>2. proc' \in [Proc -> ProcState] /\ RunKnown'
    BY <1>7 DEF StepRecord
  <2> QED BY <1>7, <2>1, <2>2 DEF StepRecord
<1>8. ASSUME NEW p \in Proc, StepBeat(p) PROVE TypeInv'
  <2>1. row' \in [RunId -> RunRow]
    <3>1. proc[p].run \in RunId
      BY <1>8 DEF StepBeat
    <3> QED BY ONLY <1>8, <3>1, RowUpdates, row \in [RunId -> RunRow] DEF StepBeat, Beat
  <2> QED BY <1>8, <2>1 DEF StepBeat
<1>9. ASSUME NEW p \in Proc, StepFetch(p) PROVE TypeInv'
  <2>1. Token(p) \in Key
    BY <1>9, Names DEF StepFetch
  <2>2. proc' \in [Proc -> ProcState] /\ RunKnown'
    BY <1>9 DEF StepFetch, Degrade, EndBatch, NextBatch
  <2>3. DOMAIN sentOn' \subseteq Key /\ sentOn' \in [DOMAIN sentOn' -> Nat]
    BY <1>9, <2>1 DEF StepFetch, Send
  <2> QED BY <1>9, <2>2, <2>3 DEF StepFetch
<1>10. ASSUME NEW p \in Proc, StepsDone(p) PROVE TypeInv'
  BY <1>10 DEF StepsDone, Degrade
<1>11. ASSUME NEW p \in Proc, PlanBatches(p) PROVE TypeInv'
  <2>1. CASE proc[p].remaining = 0
    BY <1>11, <2>1 DEF PlanBatches, Degrade
  <2>2. CASE proc[p].remaining > 0
    <3>0. Affordable(p) \subseteq Nat
      BY DEF Affordable
    <3> PICK n \in Affordable(p) : /\ row' = [row EXCEPT ![proc[p].run].due = n]
                         /\ Go(p, IF n = 0 THEN "predict" ELSE "batch")
      <4>1. proc[p].remaining # 0
        BY <2>2
      <4> QED BY ONLY <1>11, <4>1 DEF PlanBatches
    <3>1. row' \in [RunId -> RunRow]
      <4>1. proc[p].run \in RunId /\ n \in Nat
        BY <1>11, <3>0 DEF PlanBatches
      <4>2. row' = [row EXCEPT ![proc[p].run].due = n]
        OBVIOUS
      <4> QED BY ONLY <4>1, <4>2, RowUpdates, row \in [RunId -> RunRow]
    <3>2. (IF n = 0 THEN "predict" ELSE "batch") \in Pc
      OBVIOUS
    <3>3. proc' \in [Proc -> ProcState]
      <4> HIDE DEF ProcState
      <4>1. [proc[p] EXCEPT !.pc = IF n = 0 THEN "predict" ELSE "batch"] \in ProcState
        BY ONLY <3>2, ProcUpdates, p \in Proc, proc \in [Proc -> ProcState]
      <4> QED BY ONLY <4>1, Go(p, IF n = 0 THEN "predict" ELSE "batch"),
                      proc \in [Proc -> ProcState] DEF Go
    <3>4. RunKnown'
      BY <1>11 DEF PlanBatches
    <3> QED BY <1>11, <3>1, <3>3, <3>4 DEF PlanBatches
  <2> QED BY <1>11, <2>1, <2>2 DEF PlanBatches
<1>12. ASSUME NEW p \in Proc, TakeBatch(p) PROVE TypeInv'
  BY <1>12 DEF TakeBatch, Beat, RunRow
<1>13. ASSUME NEW p \in Proc, RecordBatch(p) PROVE TypeInv'
  <2>1. IsFiniteSet(requests') /\ requests' \subseteq Key
    BY <1>13, Names, FS_AddElement DEF RecordBatch, RecordRequest
  <2>2. proc' \in [Proc -> ProcState] /\ RunKnown'
    BY <1>13 DEF RecordBatch
  <2> QED BY <1>13, <2>1, <2>2 DEF RecordBatch
<1>14. ASSUME NEW p \in Proc, Fetch(p) PROVE TypeInv'
  <2>1. Token(p) \in Key
    BY <1>14, Names DEF Fetch
  <2>2. proc' \in [Proc -> ProcState] /\ RunKnown'
    BY <1>14 DEF Fetch, Degrade, EndBatch, NextBatch
  <2>3. DOMAIN sentOn' \subseteq Key /\ sentOn' \in [DOMAIN sentOn' -> Nat]
    BY <1>14, <2>1 DEF Fetch, Send
  <2> QED BY <1>14, <2>2, <2>3 DEF Fetch
<1>15. ASSUME NEW p \in Proc, ArchivePut(p) PROVE TypeInv'
  <2>1. BatchKey(p) \in Key
    BY <1>15, Names DEF ArchivePut
  <2>2. proc' \in [Proc -> ProcState] /\ RunKnown'
    BY <1>15 DEF ArchivePut, EndBatch, NextBatch
  <2> QED BY <1>15, <2>1, <2>2 DEF ArchivePut
<1>16. ASSUME NEW p \in Proc, RecordKey(p) PROVE TypeInv'
  <2>1. BatchKey(p) \in Key
    BY <1>16, Names DEF RecordKey
  <2>2. row' \in [RunId -> RunRow]
    <3>1. proc[p].run \in RunId
      BY <1>16 DEF RecordKey
    <3> QED BY ONLY <1>16, <2>1, <3>1, RowUpdates, row \in [RunId -> RunRow] DEF RecordKey
  <2> QED BY <1>16, <2>2 DEF RecordKey
<1>17. ASSUME NEW p \in Proc, StoreBatch(p) PROVE TypeInv'
  BY <1>17 DEF StoreBatch, BatchKey, EndBatch, NextBatch
<1>18. ASSUME NEW p \in Proc, Predict(p) PROVE TypeInv'
  BY <1>18 DEF Predict
<1>19. ASSUME NEW p \in Proc, CloseRun(p) PROVE TypeInv'
  <2>1. row' \in [RunId -> RunRow]
    <3>1. RunStatus(p) \subseteq Status
      BY DEF RunStatus
    <3>2. PICK st \in RunStatus(p) : CloseRow(proc[p].run, st)
      BY <1>19 DEF CloseRun
    <3>3. proc[p].run \in RunId
      BY <1>19 DEF CloseRun
    <3> QED BY ONLY <3>1, <3>2, <3>3, RowUpdates, row \in [RunId -> RunRow] DEF CloseRow
  <2>2. proc' \in [Proc -> ProcState] /\ RunKnown'
    BY <1>19, ReturnType DEF CloseRun
  <2> QED BY <1>19, <2>1, <2>2 DEF CloseRun
<1>20. ASSUME NEW p \in Proc, TryLock(p, "r_try_lock", "r_source") PROVE TypeInv'
  BY <1>20 DEF TryLock
<1>21. ASSUME NEW p \in Proc, ReplaySource(p) PROVE TypeInv'
  <2>1. CASE Return(p)
    BY <1>21, <2>1, ReturnType DEF ReplaySource
  <2>2. CASE \E o \in RunId :
               proc' = [proc EXCEPT ![p].pc = "r_open", ![p].orig = o,
                                    ![p].keys = row[o].keys]
    <3> PICK o \in RunId :
               proc' = [proc EXCEPT ![p].pc = "r_open", ![p].orig = o,
                                    ![p].keys = row[o].keys]
      BY <2>2
    <3> DEFINE s == [proc[p] EXCEPT !.pc = "r_open", !.orig = o, !.keys = row[o].keys]
    <3>1. row[o].keys \in SUBSET Key
      BY DEF RunRow
    <3>2. proc' \in [Proc -> ProcState]
      <4>1. s \in ProcState
        <5> HIDE DEF ProcState
        <5> QED BY ONLY <3>1, ProcUpdates, Points, o \in RunId, p \in Proc, proc \in [Proc -> ProcState]
      <4>2. proc' = [proc EXCEPT ![p] = s]
        OBVIOUS
      <4> QED BY <4>1, <4>2
    <3>3. RunKnown'
      OBVIOUS
    <3> QED BY <1>21, <3>2, <3>3 DEF ReplaySource
  <2> QED BY <1>21, <2>1, <2>2 DEF ReplaySource
<1>22. ASSUME NEW p \in Proc, OpenRun(p, "r_open", "r_replace", "replay") PROVE TypeInv'
  <2> PICK r \in RunId :
         /\ row' = [row EXCEPT ![r] = [NoRow EXCEPT !.status = "running",
                                          !.kind = "replay", !.day = day]]
         /\ proc' = [proc EXCEPT ![p].pc = "r_replace", ![p].run = r]
    BY <1>22 DEF OpenRun
  <2>1. [NoRow EXCEPT !.status = "running", !.kind = "replay", !.day = day] \in RunRow
    BY DEF RunRow, NoRow
  <2>2. row' \in [RunId -> RunRow]
    BY <2>1
  <2>3. proc' \in [Proc -> ProcState]
    <3>1. [proc[p] EXCEPT !.pc = "r_replace", !.run = r] \in ProcState
      <4> HIDE DEF ProcState
      <4> QED BY ONLY ProcUpdates, Points, p \in Proc, r \in RunId, proc \in [Proc -> ProcState]
    <3>2. proc' = [proc EXCEPT ![p] = [proc[p] EXCEPT !.pc = "r_replace", !.run = r]]
      OBVIOUS
    <3> QED BY <3>1, <3>2
  <2>4. RunKnown'
    OBVIOUS
  <2> QED BY <1>22, <2>2, <2>3, <2>4 DEF OpenRun
<1>23. ASSUME NEW p \in Proc, ReplayReplace(p) PROVE TypeInv'
  <2>1. proc' \in [Proc -> ProcState] /\ RunKnown'
    <3>1. Go(p, "r_close") \/ Go(p, "r_fail")
      BY <1>23 DEF ReplayReplace
    <3>2. proc' \in [Proc -> ProcState]
      BY <3>1
    <3>3. RunKnown'
      BY <1>23, <3>1 DEF ReplayReplace
    <3> QED BY <3>2, <3>3
  <2>2. ASSUME NEW new \in SUBSET Insertable(p), SwapRows(p, new)
        PROVE  DOMAIN owner' \subseteq Key /\ owner' \in [DOMAIN owner' -> RunId]
    BY <1>23, <2>2 DEF ReplayReplace, SwapRows, Insertable, Owned
  <2>3. DOMAIN owner' \subseteq Key /\ owner' \in [DOMAIN owner' -> RunId]
    BY <1>23, <2>2 DEF ReplayReplace
  <2> QED BY <1>23, <2>1, <2>3 DEF ReplayReplace
<1>24. ASSUME NEW p \in Proc, ReplayClose(p) PROVE TypeInv'
  <2>1. row' \in [RunId -> RunRow]
    <3>1. CASE row' = row
      BY <3>1
    <3>2. CASE ReplayClosed(p)
      <4> DEFINE s == [row[proc[p].run] EXCEPT !.status = "ok", !.keys = proc[p].keys]
      <4>1. proc[p].run \in RunId /\ proc[p].keys \in SUBSET Key
        BY <1>24 DEF ReplayClose
      <4>2. s \in RunRow
        <5>1. row[proc[p].run] \in RunRow
          BY <4>1
        <5> QED BY ONLY <4>1, <5>1, Points DEF RunRow
      <4>3. row' = [row EXCEPT ![proc[p].run] = s]
        BY <3>2, <4>1 DEF ReplayClosed
      <4> QED BY <4>1, <4>2, <4>3
    <3> QED BY <1>24, <3>1, <3>2 DEF ReplayClose
  <2>2. proc' \in [Proc -> ProcState] /\ RunKnown'
    <3>1. CASE Return(p)
      BY <3>1, ReturnType
    <3>2. CASE Go(p, "r_fail")
      BY <1>24, <3>2 DEF ReplayClose
    <3> QED BY <1>24, <3>1, <3>2 DEF ReplayClose
  <2> QED BY <1>24, <2>1, <2>2 DEF ReplayClose
<1>25. ASSUME NEW p \in Proc, ReplayFail(p) PROVE TypeInv'
  <2>1. proc[p].run \in RunId
    BY <1>25 DEF ReplayFail
  <2>2. row' \in [RunId -> RunRow]
    BY ONLY <1>25, <2>1, RowUpdates, Points, row \in [RunId -> RunRow] DEF ReplayFail, CloseRow
  <2>3. proc' \in [Proc -> ProcState] /\ RunKnown'
    BY <1>25, ReturnType DEF ReplayFail
  <2> QED BY <1>25, <2>2, <2>3 DEF ReplayFail
<1>26. ASSUME NEW p \in Proc, Release(p) PROVE TypeInv'
  BY <1>26 DEF Release, IdleProc
<1>27. ASSUME NEW p \in Proc, StatementFails(p) PROVE TypeInv'
  <2>1. CASE Return(p)
    BY <1>27, <2>1, ReturnType DEF StatementFails
  <2>2. CASE Go(p, "idle")
    <3>1. proc' = [proc EXCEPT ![p] = [proc[p] EXCEPT !.pc = "idle"]]
      BY ONLY <2>2 DEF Go
    <3>2. [proc[p] EXCEPT !.pc = "idle"] \in ProcState
      <4> HIDE DEF ProcState
      <4> QED BY ONLY ProcUpdates, Points, p \in Proc, proc \in [Proc -> ProcState]
    <3>3. proc' \in [Proc -> ProcState]
      BY ONLY <3>1, <3>2, proc \in [Proc -> ProcState]
    <3>4. RunKnown'
      BY <3>1
    <3> QED BY <1>27, <3>3, <3>4 DEF StatementFails
  <2>3. CASE /\ proc[p].pc \in {"steps", "step_record", "step_beat", "due",
                                "batch", "record", "key", "predict"}
             /\ proc' = [proc EXCEPT ![p].pc = "close", ![p].error = TRUE]
    <3>1. [proc[p] EXCEPT !.pc = "close", !.error = TRUE] \in ProcState
      <4> HIDE DEF ProcState
      <4> QED BY ONLY ProcUpdates, Points, p \in Proc, proc \in [Proc -> ProcState]
    <3>2. proc' = [proc EXCEPT ![p] = [proc[p] EXCEPT !.pc = "close", !.error = TRUE]]
      BY <2>3
    <3>3. proc' \in [Proc -> ProcState]
      BY <3>1, <3>2
    <3>4. RunKnown'
      BY <2>3
    <3> QED BY <1>27, <3>3, <3>4 DEF StatementFails
  <2> QED BY <1>27, <2>1, <2>2, <2>3 DEF StatementFails
<1>28. ASSUME NEW p \in Proc, SessionEnds(p) PROVE TypeInv'
  BY <1>28 DEF SessionEnds
<1>29. ASSUME NEW p \in Proc, Crash(p) PROVE TypeInv'
  BY <1>29 DEF Crash, IdleProc
<1>30. CASE Hour
  <2>1. row' \in [RunId -> RunRow]
    <3>1. row' = [r \in RunId |->
                    IF row[r].status = "running" /\ row[r].age <= AbandonAfter
                    THEN [row[r] EXCEPT !.age = @ + 1] ELSE row[r]]
      BY ONLY <1>30 DEF Hour
    <3>2. \A r \in RunId : row[r].age <= AbandonAfter => row[r].age + 1 \in Age
      BY ONLY NatAssumption, row \in [RunId -> RunRow] DEF RunRow, Age
    <3>3. \A r \in RunId : row[r].age <= AbandonAfter =>
                              [row[r] EXCEPT !.age = @ + 1] \in RunRow
      BY ONLY <3>2, row \in [RunId -> RunRow] DEF RunRow
    <3> QED BY ONLY <3>1, <3>3, row \in [RunId -> RunRow]
  <2>2. UNCHANGED <<lock, proc, requests, sentOn, archive, polled, owner, day>>
    BY ONLY <1>30 DEF Hour
  <2>3. RunKnown'
    BY ONLY <2>2, RunKnown
  <2> QED BY ONLY <2>1, <2>2, <2>3, TypeInv
<1>31. CASE Midnight
  BY <1>31 DEF Midnight
<1>32. CASE UNCHANGED vars
  BY <1>32 DEF vars
<1>99. QED
  BY <1>1, <1>2, <1>3, <1>4, <1>5, <1>6, <1>7, <1>8, <1>9, <1>10, <1>11, <1>12, <1>13, <1>14, <1>15, <1>16, <1>17, <1>18, <1>19, <1>20, <1>21, <1>22, <1>23, <1>24, <1>25, <1>26, <1>27, <1>28, <1>29, <1>30, <1>31, <1>32 DEF Next, Advance, Ingest, Replay

\* Every variable of the run control stays in its type.
THEOREM TypeCorrect == Spec => []TypeOK
<1>1. Spec => []TypeInv
  BY InitType, StepType, PTL DEF Spec
<1>2. TypeInv => TypeOK
  BY DEF TypeInv
<1> QED BY <1>1, <1>2, PTL

\* A step that only moves a process leaves the rest of it, and the others, alone.
LEMMA GoFrame ==
  ASSUME TypeInv, NEW p \in Proc, NEW c, Go(p, c)
  PROVE  /\ proc'[p].pc = c /\ proc'[p].run = proc[p].run
         /\ proc'[p].remaining = proc[p].remaining
         /\ proc'[p].requests = proc[p].requests
         /\ \A q \in Proc : q # p => proc'[q] = proc[q]
<1>1. proc \in [Proc -> ProcState]
  BY DEF TypeInv, TypeOK
<1> QED BY ONLY <1>1, Go(p, c) DEF Go, ProcState

\* A command that returns leaves the other processes alone.
LEMMA ReturnFrame ==
  ASSUME TypeInv, NEW p \in Proc, Return(p)
  PROVE  /\ proc'[p].pc = "release" /\ proc'[p].run = proc[p].run
         /\ \A q \in Proc : q # p => proc'[q] = proc[q]
<1>1. proc \in [Proc -> ProcState]
  BY DEF TypeInv, TypeOK
<1> QED BY ONLY <1>1, Return(p) DEF Return, IdleProc, ProcState

\* The plan of the price loop leaves the other processes alone.
LEMMA PlanFrame ==
  ASSUME TypeInv, NEW p \in Proc, PlanBatches(p)
  PROVE  /\ proc[p].pc = "due" /\ proc'[p].pc \in {"predict", "batch"}
         /\ proc'[p].run = proc[p].run
         /\ proc'[p].remaining = proc[p].remaining
         /\ \A q \in Proc : q # p => proc'[q] = proc[q]
         /\ \A r \in RunId : /\ row'[r].day = row[r].day
                             /\ row'[r].status = row[r].status
<1> USE DEF TypeInv, TypeOK
<1>1. proc[p].pc = "due" /\ proc[p].run \in RunId
  BY DEF PlanBatches, At, RunKnown, HasRun, PricePc
<1>2. CASE Degrade(p, "predict") /\ row' = row
  BY <1>1, <1>2 DEF Degrade, ProcState
<1>3. ASSUME NEW n \in Affordable(p),
             row' = [row EXCEPT ![proc[p].run].due = n],
             Go(p, IF n = 0 THEN "predict" ELSE "batch")
      PROVE  /\ proc'[p].pc \in {"predict", "batch"}
             /\ proc'[p].run = proc[p].run
             /\ proc'[p].remaining = proc[p].remaining
             /\ \A q \in Proc : q # p => proc'[q] = proc[q]
             /\ \A r \in RunId : /\ row'[r].day = row[r].day
                                 /\ row'[r].status = row[r].status
  <2>1. \A r \in RunId : row'[r].day = row[r].day /\ row'[r].status = row[r].status
    BY <1>1, <1>3 DEF RunRow
  <2> QED BY <1>3, <2>1, GoFrame
<1>4. \/ Degrade(p, "predict") /\ row' = row
      \/ \E n \in Affordable(p) : /\ row' = [row EXCEPT ![proc[p].run].due = n]
                                 /\ Go(p, IF n = 0 THEN "predict" ELSE "batch")
  BY DEF PlanBatches
<1> QED BY <1>1, <1>2, <1>3, <1>4

(***************************************************************************)
(* The daily budget                                                        *)
(***************************************************************************)

\* Whoever is at work holds the lock.
LockInv == \A p \in Proc : proc[p].pc \in Working => lock = p

\* Whoever is at work keeps or takes the lock; a step of one process puts no
\* other to work.
LEMMA StepLock ==
  ASSUME TypeInv, LockInv, [Next]_vars PROVE LockInv'
<1> USE SetAssumption DEF TypeInv, TypeOK, ProcState, Working, IngestPc, ReplayPc,
                          StepPc, PricePc, At, Go, LockInv
<1>1. ASSUME NEW p \in Proc, StartIngest(p) PROVE LockInv'
  BY <1>1 DEF StartIngest, Reaped
<1>2. ASSUME NEW p \in Proc, StartReplay(p) PROVE LockInv'
  BY <1>2 DEF StartReplay
<1>3. ASSUME NEW p \in Proc, TryLock(p, "try_lock", "open") PROVE LockInv'
  BY <1>3 DEF TryLock
<1>4. ASSUME NEW p \in Proc, OpenRun(p, "open", "budget", "ingest") PROVE LockInv'
  BY <1>4 DEF OpenRun, NoRow
<1>5. ASSUME NEW p \in Proc, ReadBudget(p) PROVE LockInv'
  BY <1>5 DEF ReadBudget
<1>6. ASSUME NEW p \in Proc, StepTake(p) PROVE LockInv'
  BY <1>6 DEF StepTake
<1>7. ASSUME NEW p \in Proc, StepRecord(p) PROVE LockInv'
  BY <1>7 DEF StepRecord, RecordRequest
<1>8. ASSUME NEW p \in Proc, StepBeat(p) PROVE LockInv'
  BY <1>8 DEF StepBeat, Beat
<1>9. ASSUME NEW p \in Proc, StepFetch(p) PROVE LockInv'
  BY <1>9 DEF StepFetch, Degrade, Send
<1>10. ASSUME NEW p \in Proc, StepsDone(p) PROVE LockInv'
  BY <1>10 DEF StepsDone, Degrade
<1>11. ASSUME NEW p \in Proc, PlanBatches(p) PROVE LockInv'
  <2>1. lock' = lock
    BY ONLY <1>11 DEF PlanBatches
  <2>2. /\ proc[p].pc = "due" /\ proc'[p].pc \in {"predict", "batch"}
        /\ \A q \in Proc : q # p => proc'[q].pc = proc[q].pc
    BY ONLY <1>11, PlanFrame, TypeInv, p \in Proc
  <2> QED BY <2>1, <2>2
<1>12. ASSUME NEW p \in Proc, TakeBatch(p) PROVE LockInv'
  BY <1>12 DEF TakeBatch, Beat
<1>13. ASSUME NEW p \in Proc, RecordBatch(p) PROVE LockInv'
  BY <1>13 DEF RecordBatch, RecordRequest
<1>14. ASSUME NEW p \in Proc, Fetch(p) PROVE LockInv'
  BY <1>14 DEF Fetch, Degrade, EndBatch, NextBatch, Send
<1>15. ASSUME NEW p \in Proc, ArchivePut(p) PROVE LockInv'
  BY <1>15 DEF ArchivePut, EndBatch, NextBatch
<1>16. ASSUME NEW p \in Proc, RecordKey(p) PROVE LockInv'
  BY <1>16 DEF RecordKey
<1>17. ASSUME NEW p \in Proc, StoreBatch(p) PROVE LockInv'
  BY <1>17 DEF StoreBatch, EndBatch, NextBatch
<1>18. ASSUME NEW p \in Proc, Predict(p) PROVE LockInv'
  BY <1>18 DEF Predict
<1>19. ASSUME NEW p \in Proc, CloseRun(p) PROVE LockInv'
  BY <1>19 DEF CloseRun, RunStatus, CloseRow, Return, IdleProc
<1>20. ASSUME NEW p \in Proc, TryLock(p, "r_try_lock", "r_source") PROVE LockInv'
  BY <1>20 DEF TryLock
<1>21. ASSUME NEW p \in Proc, ReplaySource(p) PROVE LockInv'
  BY <1>21 DEF ReplaySource, Return, IdleProc
<1>22. ASSUME NEW p \in Proc, OpenRun(p, "r_open", "r_replace", "replay") PROVE LockInv'
  BY <1>22 DEF OpenRun, NoRow
<1>23. ASSUME NEW p \in Proc, ReplayReplace(p) PROVE LockInv'
  BY <1>23 DEF ReplayReplace
<1>24. ASSUME NEW p \in Proc, ReplayClose(p) PROVE LockInv'
  BY <1>24 DEF ReplayClose, ReplayClosed, Return, IdleProc
<1>25. ASSUME NEW p \in Proc, ReplayFail(p) PROVE LockInv'
  BY <1>25 DEF ReplayFail, CloseRow, Return, IdleProc
<1>26. ASSUME NEW p \in Proc, Release(p) PROVE LockInv'
  BY <1>26 DEF Release, IdleProc
<1>27. ASSUME NEW p \in Proc, StatementFails(p) PROVE LockInv'
  BY <1>27 DEF StatementFails, Return, IdleProc
<1>28. ASSUME NEW p \in Proc, SessionEnds(p) PROVE LockInv'
  BY <1>28 DEF SessionEnds
<1>29. ASSUME NEW p \in Proc, Crash(p) PROVE LockInv'
  BY <1>29 DEF Crash, IdleProc
<1>30. CASE Hour
  BY <1>30 DEF Hour
<1>31. CASE Midnight
  BY <1>31 DEF Midnight
<1>32. CASE UNCHANGED vars
  BY <1>32 DEF vars
<1>99. QED
  BY <1>1, <1>2, <1>3, <1>4, <1>5, <1>6, <1>7, <1>8, <1>9, <1>10, <1>11, <1>12, <1>13, <1>14, <1>15, <1>16, <1>17, <1>18, <1>19, <1>20, <1>21, <1>22, <1>23, <1>24, <1>25, <1>26, <1>27, <1>28, <1>29, <1>30, <1>31, <1>32
  DEF Next, Advance, Ingest, Replay

\* An opened row keeps its day for ever, and no row is from a later day.
RowInv ==
  /\ \A r \in RunId : row[r].day <= day
  /\ \A p \in Proc : proc[p].pc \in HasRun => row[proc[p].run].status # "none"

\* The rows of open runs exist and belong to their processes after every step.
LEMMA StepRow ==
  ASSUME TypeInv, LockInv, RowInv, [Next]_vars PROVE RowInv'
<1> USE SetAssumption DEF TypeInv, TypeOK, RunKnown, ProcState, RunRow, StepPc,
                          PricePc, HasRun, At, Go, RowInv
<1>1. ASSUME NEW p \in Proc, StartIngest(p) PROVE RowInv'
  BY <1>1 DEF StartIngest, Reaped
<1>2. ASSUME NEW p \in Proc, StartReplay(p) PROVE RowInv'
  BY <1>2 DEF StartReplay
<1>3. ASSUME NEW p \in Proc, TryLock(p, "try_lock", "open") PROVE RowInv'
  <2>1. row' = row /\ day' = day
    BY <1>3 DEF TryLock
  <2>2. \A q \in Proc : proc'[q].pc \in HasRun =>
          proc[q].pc \in HasRun /\ proc'[q].run = proc[q].run
    BY <1>3 DEF TryLock
  <2> QED BY ONLY <2>1, <2>2, RowInv DEF RowInv
<1>4. ASSUME NEW p \in Proc, OpenRun(p, "open", "budget", "ingest") PROVE RowInv'
  BY <1>4 DEF OpenRun, NoRow
<1>5. ASSUME NEW p \in Proc, ReadBudget(p) PROVE RowInv'
  BY <1>5 DEF ReadBudget
<1>6. ASSUME NEW p \in Proc, StepTake(p) PROVE RowInv'
  BY <1>6 DEF StepTake
<1>7. ASSUME NEW p \in Proc, StepRecord(p) PROVE RowInv'
  BY <1>7 DEF StepRecord, RecordRequest
<1>8. ASSUME NEW p \in Proc, StepBeat(p) PROVE RowInv'
  BY <1>8 DEF StepBeat, Beat
<1>9. ASSUME NEW p \in Proc, StepFetch(p) PROVE RowInv'
  <2>1. row' = row /\ day' = day
    BY <1>9 DEF StepFetch
  <2>2. \A q \in Proc : proc'[q].pc \in HasRun =>
          proc[q].pc \in HasRun /\ proc'[q].run = proc[q].run
    BY <1>9 DEF StepFetch, Degrade
  <2> QED BY ONLY <2>1, <2>2, RowInv DEF RowInv
<1>10. ASSUME NEW p \in Proc, StepsDone(p) PROVE RowInv'
  <2>1. row' = row /\ day' = day
    BY <1>10 DEF StepsDone
  <2>2. \A q \in Proc : proc'[q].pc \in HasRun =>
          proc[q].pc \in HasRun /\ proc'[q].run = proc[q].run
    BY <1>10 DEF StepsDone, Degrade
  <2> QED BY ONLY <2>1, <2>2, RowInv DEF RowInv
<1>11. ASSUME NEW p \in Proc, PlanBatches(p) PROVE RowInv'
  <2>1. /\ day' = day
        /\ \A r \in RunId : /\ row'[r].day = row[r].day
                            /\ row'[r].status = "none" => row[r].status = "none"
    BY <1>11, PlanFrame DEF PlanBatches
  <2>2. \A q \in Proc : proc'[q].pc \in HasRun =>
          proc[q].pc \in HasRun /\ proc'[q].run = proc[q].run
    BY <1>11, PlanFrame
  <2> QED BY ONLY <2>1, <2>2, TypeInv, RowInv DEF RowInv, TypeInv, RunKnown
<1>12. ASSUME NEW p \in Proc, TakeBatch(p) PROVE RowInv'
  BY <1>12 DEF TakeBatch, Beat
<1>13. ASSUME NEW p \in Proc, RecordBatch(p) PROVE RowInv'
  BY <1>13 DEF RecordBatch, RecordRequest
<1>14. ASSUME NEW p \in Proc, Fetch(p) PROVE RowInv'
  BY <1>14 DEF Fetch, Degrade, EndBatch, NextBatch, Send
<1>15. ASSUME NEW p \in Proc, ArchivePut(p) PROVE RowInv'
  <2>1. row' = row /\ requests' = requests /\ day' = day
    BY ONLY <1>15 DEF ArchivePut
  <2>2. CASE Go(p, "key")
    BY <1>15, <2>1, <2>2 DEF ArchivePut
  <2>3. CASE EndBatch(p, TRUE)
    <3>1. /\ proc'[p].run = proc[p].run /\ proc[p].pc = "put"
          /\ \A q \in Proc : q # p => proc'[q] = proc[q]
      BY ONLY <1>15, <2>3, p \in Proc, proc \in [Proc -> ProcState]
         DEF ArchivePut, EndBatch, At, ProcState
    <3> QED BY <2>1, <3>1
  <2> QED BY <1>15, <2>2, <2>3 DEF ArchivePut
<1>16. ASSUME NEW p \in Proc, RecordKey(p) PROVE RowInv'
  BY <1>16 DEF RecordKey
<1>17. ASSUME NEW p \in Proc, StoreBatch(p) PROVE RowInv'
  BY <1>17 DEF StoreBatch, EndBatch, NextBatch
<1>18. ASSUME NEW p \in Proc, Predict(p) PROVE RowInv'
  BY <1>18 DEF Predict
<1>19. ASSUME NEW p \in Proc, CloseRun(p) PROVE RowInv'
  BY <1>19 DEF CloseRun, RunStatus, CloseRow, Return, IdleProc
<1>20. ASSUME NEW p \in Proc, TryLock(p, "r_try_lock", "r_source") PROVE RowInv'
  <2>1. row' = row /\ day' = day
    BY <1>20 DEF TryLock
  <2>2. \A q \in Proc : proc'[q].pc \in HasRun =>
          proc[q].pc \in HasRun /\ proc'[q].run = proc[q].run
    BY <1>20 DEF TryLock
  <2> QED BY ONLY <2>1, <2>2, RowInv DEF RowInv
<1>21. ASSUME NEW p \in Proc, ReplaySource(p) PROVE RowInv'
  <2>1. row' = row /\ day' = day
    BY <1>21 DEF ReplaySource
  <2>2. \A q \in Proc : proc'[q].pc \in HasRun =>
          proc[q].pc \in HasRun /\ proc'[q].run = proc[q].run
    <3>1. CASE Return(p)
      BY <3>1, ReturnFrame
    <3>2. CASE ~Return(p)
      BY <1>21, <3>2 DEF ReplaySource
    <3> QED BY <3>1, <3>2
  <2> QED BY ONLY <2>1, <2>2, RowInv DEF RowInv
<1>22. ASSUME NEW p \in Proc, OpenRun(p, "r_open", "r_replace", "replay") PROVE RowInv'
  BY <1>22 DEF OpenRun, NoRow
<1>23. ASSUME NEW p \in Proc, ReplayReplace(p) PROVE RowInv'
  BY <1>23 DEF ReplayReplace
<1>24. ASSUME NEW p \in Proc, ReplayClose(p) PROVE RowInv'
  <2>1. /\ day' = day
        /\ \A r \in RunId : /\ row'[r].day = row[r].day
                            /\ row'[r].status = "none" => row[r].status = "none"
    BY <1>24 DEF ReplayClose, ReplayClosed
  <2>2. \A q \in Proc : proc'[q].pc \in HasRun =>
          proc[q].pc \in HasRun /\ proc'[q].run = proc[q].run
    <3>1. CASE Return(p)
      BY <3>1, ReturnFrame
    <3>2. CASE ~Return(p)
      BY <1>24, <3>2 DEF ReplayClose
    <3> QED BY <3>1, <3>2
  <2> QED BY ONLY <2>1, <2>2, TypeInv, RowInv DEF RowInv, TypeInv, RunKnown
<1>25. ASSUME NEW p \in Proc, ReplayFail(p) PROVE RowInv'
  BY <1>25 DEF ReplayFail, CloseRow, Return, IdleProc
<1>26. ASSUME NEW p \in Proc, Release(p) PROVE RowInv'
  BY <1>26 DEF Release, IdleProc
<1>27. ASSUME NEW p \in Proc, StatementFails(p) PROVE RowInv'
  <2>1. row' = row /\ day' = day
    BY <1>27 DEF StatementFails
  <2>2. \A q \in Proc : proc'[q].pc \in HasRun =>
          proc[q].pc \in HasRun /\ proc'[q].run = proc[q].run
    <3>1. CASE Return(p)
      BY <3>1, ReturnFrame
    <3>2. CASE ~Return(p)
      BY <1>27, <3>2 DEF StatementFails
    <3> QED BY <3>1, <3>2
  <2> QED BY ONLY <2>1, <2>2, RowInv DEF RowInv
<1>28. ASSUME NEW p \in Proc, SessionEnds(p) PROVE RowInv'
  BY <1>28 DEF SessionEnds
<1>29. ASSUME NEW p \in Proc, Crash(p) PROVE RowInv'
  BY <1>29 DEF Crash, IdleProc
<1>30. CASE Hour
  BY <1>30 DEF Hour
<1>31. CASE Midnight
  BY <1>31 DEF Midnight
<1>32. CASE UNCHANGED vars
  BY <1>32 DEF vars
<1>99. QED
  BY <1>1, <1>2, <1>3, <1>4, <1>5, <1>6, <1>7, <1>8, <1>9, <1>10, <1>11, <1>12, <1>13, <1>14, <1>15, <1>16, <1>17, <1>18, <1>19, <1>20, <1>21, <1>22, <1>23, <1>24, <1>25, <1>26, <1>27, <1>28, <1>29, <1>30, <1>31, <1>32
  DEF Next, Advance, Ingest, Replay

\* An open row stays open and keeps its day.
RowFrame == \A r \in RunId : row[r].status # "none" =>
              row'[r].status # "none" /\ row'[r].day = row[r].day

\* A row that exists keeps its day.
LEMMA RowStep ==
  ASSUME TypeInv, [Next]_vars PROVE RowFrame
<1> USE DEF TypeInv, TypeOK, RunKnown, RunRow, StepPc, PricePc, HasRun, At, Go, RowFrame
<1>1. ASSUME NEW p \in Proc, StartIngest(p) PROVE RowFrame
  BY <1>1 DEF StartIngest, Reaped
<1>2. ASSUME NEW p \in Proc, StartReplay(p) PROVE RowFrame
  BY <1>2 DEF StartReplay
<1>3. ASSUME NEW p \in Proc, TryLock(p, "try_lock", "open") PROVE RowFrame
  BY <1>3 DEF TryLock
<1>4. ASSUME NEW p \in Proc, OpenRun(p, "open", "budget", "ingest") PROVE RowFrame
  BY <1>4 DEF OpenRun, NoRow
<1>5. ASSUME NEW p \in Proc, ReadBudget(p) PROVE RowFrame
  BY <1>5 DEF ReadBudget
<1>6. ASSUME NEW p \in Proc, StepTake(p) PROVE RowFrame
  BY <1>6 DEF StepTake
<1>7. ASSUME NEW p \in Proc, StepRecord(p) PROVE RowFrame
  BY <1>7 DEF StepRecord, RecordRequest
<1>8. ASSUME NEW p \in Proc, StepBeat(p) PROVE RowFrame
  BY <1>8 DEF StepBeat, Beat
<1>9. ASSUME NEW p \in Proc, StepFetch(p) PROVE RowFrame
  BY <1>9 DEF StepFetch, Send
<1>10. ASSUME NEW p \in Proc, StepsDone(p) PROVE RowFrame
  BY <1>10 DEF StepsDone
<1>11. ASSUME NEW p \in Proc, PlanBatches(p) PROVE RowFrame
  BY <1>11, PlanFrame
<1>12. ASSUME NEW p \in Proc, TakeBatch(p) PROVE RowFrame
  BY <1>12 DEF TakeBatch, Beat
<1>13. ASSUME NEW p \in Proc, RecordBatch(p) PROVE RowFrame
  BY <1>13 DEF RecordBatch, RecordRequest
<1>14. ASSUME NEW p \in Proc, Fetch(p) PROVE RowFrame
  BY <1>14 DEF Fetch, Send
<1>15. ASSUME NEW p \in Proc, ArchivePut(p) PROVE RowFrame
  BY <1>15 DEF ArchivePut
<1>16. ASSUME NEW p \in Proc, RecordKey(p) PROVE RowFrame
  BY <1>16 DEF RecordKey
<1>17. ASSUME NEW p \in Proc, StoreBatch(p) PROVE RowFrame
  BY <1>17 DEF StoreBatch
<1>18. ASSUME NEW p \in Proc, Predict(p) PROVE RowFrame
  BY <1>18 DEF Predict
<1>19. ASSUME NEW p \in Proc, CloseRun(p) PROVE RowFrame
  BY <1>19 DEF CloseRun, RunStatus, CloseRow
<1>20. ASSUME NEW p \in Proc, TryLock(p, "r_try_lock", "r_source") PROVE RowFrame
  BY <1>20 DEF TryLock
<1>21. ASSUME NEW p \in Proc, ReplaySource(p) PROVE RowFrame
  BY <1>21 DEF ReplaySource
<1>22. ASSUME NEW p \in Proc, OpenRun(p, "r_open", "r_replace", "replay") PROVE RowFrame
  BY <1>22 DEF OpenRun, NoRow
<1>23. ASSUME NEW p \in Proc, ReplayReplace(p) PROVE RowFrame
  BY <1>23 DEF ReplayReplace
<1>24. ASSUME NEW p \in Proc, ReplayClose(p) PROVE RowFrame
  BY <1>24 DEF ReplayClose, ReplayClosed
<1>25. ASSUME NEW p \in Proc, ReplayFail(p) PROVE RowFrame
  BY <1>25 DEF ReplayFail, CloseRow
<1>26. ASSUME NEW p \in Proc, Release(p) PROVE RowFrame
  BY <1>26 DEF Release, IdleProc
<1>27. ASSUME NEW p \in Proc, StatementFails(p) PROVE RowFrame
  BY <1>27 DEF StatementFails
<1>28. ASSUME NEW p \in Proc, SessionEnds(p) PROVE RowFrame
  BY <1>28 DEF SessionEnds
<1>29. ASSUME NEW p \in Proc, Crash(p) PROVE RowFrame
  BY <1>29 DEF Crash, IdleProc
<1>30. CASE Hour
  BY <1>30 DEF Hour
<1>31. CASE Midnight
  BY <1>31 DEF Midnight
<1>32. CASE UNCHANGED vars
  BY <1>32 DEF vars
<1>99. QED
  BY <1>1, <1>2, <1>3, <1>4, <1>5, <1>6, <1>7, <1>8, <1>9, <1>10, <1>11, <1>12, <1>13, <1>14, <1>15, <1>16, <1>17, <1>18, <1>19, <1>20, <1>21, <1>22, <1>23, <1>24, <1>25, <1>26, <1>27, <1>28, <1>29, <1>30, <1>31, <1>32
  DEF Next, Advance, Ingest, Replay

\* A request is counted before it is made, in a row that is open.
CountedInv ==
  /\ SpendSurvivesCrash
  /\ \A t \in requests : row[t[1]].status # "none"
  /\ \A p \in Proc : proc[p].pc \in {"step_beat", "step_fetch", "fetch"} =>
       Token(p) \in requests

\* Every step that makes a request makes one that is already counted.
LEMMA StepCounted ==
  ASSUME TypeInv, RowInv, CountedInv, RowFrame, [Next]_vars
  PROVE  CountedInv'
<1> USE DEF TypeInv, TypeOK, RunKnown, ProcState, StepPc, PricePc, HasRun, RowInv,
            RowFrame, At, Go, Token, Key, CountedInv, SpendSurvivesCrash
<1>1. ASSUME NEW p \in Proc, StartIngest(p) PROVE CountedInv'
  BY <1>1 DEF StartIngest, Reaped
<1>2. ASSUME NEW p \in Proc, StartReplay(p) PROVE CountedInv'
  BY <1>2 DEF StartReplay
<1>3. ASSUME NEW p \in Proc, TryLock(p, "try_lock", "open") PROVE CountedInv'
  BY <1>3 DEF TryLock
<1>4. ASSUME NEW p \in Proc, OpenRun(p, "open", "budget", "ingest") PROVE CountedInv'
  BY <1>4 DEF OpenRun, NoRow
<1>5. ASSUME NEW p \in Proc, ReadBudget(p) PROVE CountedInv'
  BY <1>5 DEF ReadBudget
<1>6. ASSUME NEW p \in Proc, StepTake(p) PROVE CountedInv'
  BY <1>6 DEF StepTake
<1>7. ASSUME NEW p \in Proc, StepRecord(p) PROVE CountedInv'
  BY <1>7 DEF StepRecord, RecordRequest
<1>8. ASSUME NEW p \in Proc, StepBeat(p) PROVE CountedInv'
  BY <1>8 DEF StepBeat, Beat
<1>9. ASSUME NEW p \in Proc, StepFetch(p) PROVE CountedInv'
  BY <1>9 DEF StepFetch, Degrade, Send
<1>10. ASSUME NEW p \in Proc, StepsDone(p) PROVE CountedInv'
  BY <1>10 DEF StepsDone, Degrade
<1>11. ASSUME NEW p \in Proc, PlanBatches(p) PROVE CountedInv'
  <2>1. requests' = requests /\ sentOn' = sentOn
    BY <1>11 DEF PlanBatches
  <2>2. \A q \in Proc : proc'[q].pc \in {"step_beat", "step_fetch", "fetch"} =>
          proc'[q] = proc[q]
    BY <1>11, PlanFrame
  <2> QED BY ONLY <2>1, <2>2, TypeInv, CountedInv, RowFrame
          DEF TypeInv, TypeOK, Key, CountedInv, RowFrame, Token, SpendSurvivesCrash
<1>12. ASSUME NEW p \in Proc, TakeBatch(p) PROVE CountedInv'
  BY <1>12 DEF TakeBatch, Beat
<1>13. ASSUME NEW p \in Proc, RecordBatch(p) PROVE CountedInv'
  BY <1>13 DEF RecordBatch, RecordRequest
<1>14. ASSUME NEW p \in Proc, Fetch(p) PROVE CountedInv'
  BY <1>14 DEF Fetch, Degrade, EndBatch, NextBatch, Send
<1>15. ASSUME NEW p \in Proc, ArchivePut(p) PROVE CountedInv'
  <2>1. requests' = requests /\ sentOn' = sentOn
    BY <1>15 DEF ArchivePut
  <2>2. \A q \in Proc : proc'[q].pc \in {"step_beat", "step_fetch", "fetch"} =>
          proc'[q] = proc[q]
    <3>1. CASE Go(p, "key")
      BY <3>1, GoFrame
    <3>2. CASE ~Go(p, "key")
      BY <1>15, <3>2 DEF ArchivePut, EndBatch, NextBatch
    <3> QED BY <3>1, <3>2
  <2> QED BY ONLY <2>1, <2>2, TypeInv, CountedInv, RowFrame
          DEF TypeInv, TypeOK, Key, CountedInv, RowFrame, Token, SpendSurvivesCrash
<1>16. ASSUME NEW p \in Proc, RecordKey(p) PROVE CountedInv'
  BY <1>16 DEF RecordKey
<1>17. ASSUME NEW p \in Proc, StoreBatch(p) PROVE CountedInv'
  BY <1>17 DEF StoreBatch, EndBatch, NextBatch
<1>18. ASSUME NEW p \in Proc, Predict(p) PROVE CountedInv'
  BY <1>18 DEF Predict
<1>19. ASSUME NEW p \in Proc, CloseRun(p) PROVE CountedInv'
  BY <1>19 DEF CloseRun, RunStatus, CloseRow, Return, IdleProc
<1>20. ASSUME NEW p \in Proc, TryLock(p, "r_try_lock", "r_source") PROVE CountedInv'
  BY <1>20 DEF TryLock
<1>21. ASSUME NEW p \in Proc, ReplaySource(p) PROVE CountedInv'
  <2>1. requests' = requests /\ sentOn' = sentOn
    BY <1>21 DEF ReplaySource
  <2>2. \A q \in Proc : proc'[q].pc \in {"step_beat", "step_fetch", "fetch"} =>
          proc'[q] = proc[q]
    <3>1. CASE Return(p)
      BY <3>1, ReturnFrame
    <3>2. CASE ~Return(p)
      BY <1>21, <3>2 DEF ReplaySource
    <3> QED BY <3>1, <3>2
  <2> QED BY ONLY <2>1, <2>2, TypeInv, CountedInv, RowFrame
          DEF TypeInv, TypeOK, Key, CountedInv, RowFrame, Token, SpendSurvivesCrash
<1>22. ASSUME NEW p \in Proc, OpenRun(p, "r_open", "r_replace", "replay") PROVE CountedInv'
  BY <1>22 DEF OpenRun, NoRow
<1>23. ASSUME NEW p \in Proc, ReplayReplace(p) PROVE CountedInv'
  BY <1>23 DEF ReplayReplace
<1>24. ASSUME NEW p \in Proc, ReplayClose(p) PROVE CountedInv'
  <2>1. requests' = requests /\ sentOn' = sentOn
    BY <1>24 DEF ReplayClose
  <2>2. \A q \in Proc : proc'[q].pc \in {"step_beat", "step_fetch", "fetch"} =>
          proc'[q] = proc[q]
    <3>1. CASE Return(p)
      BY <3>1, ReturnFrame
    <3>2. CASE ~Return(p)
      BY <1>24, <3>2 DEF ReplayClose
    <3> QED BY <3>1, <3>2
  <2> QED BY ONLY <2>1, <2>2, TypeInv, CountedInv, RowFrame
          DEF TypeInv, TypeOK, Key, CountedInv, RowFrame, Token, SpendSurvivesCrash
<1>25. ASSUME NEW p \in Proc, ReplayFail(p) PROVE CountedInv'
  BY <1>25 DEF ReplayFail, CloseRow, Return, IdleProc
<1>26. ASSUME NEW p \in Proc, Release(p) PROVE CountedInv'
  BY <1>26 DEF Release, IdleProc
<1>27. ASSUME NEW p \in Proc, StatementFails(p) PROVE CountedInv'
  <2>1. requests' = requests /\ sentOn' = sentOn
    BY <1>27 DEF StatementFails
  <2>2. \A q \in Proc : proc'[q].pc \in {"step_beat", "step_fetch", "fetch"} =>
          proc'[q] = proc[q]
    <3>1. CASE Return(p)
      BY <3>1, ReturnFrame
    <3>2. CASE ~Return(p)
      BY <1>27, <3>2 DEF StatementFails
    <3> QED BY <3>1, <3>2
  <2> QED BY ONLY <2>1, <2>2, TypeInv, CountedInv, RowFrame
          DEF TypeInv, TypeOK, Key, CountedInv, RowFrame, Token, SpendSurvivesCrash
<1>28. ASSUME NEW p \in Proc, SessionEnds(p) PROVE CountedInv'
  BY <1>28 DEF SessionEnds
<1>29. ASSUME NEW p \in Proc, Crash(p) PROVE CountedInv'
  BY <1>29 DEF Crash, IdleProc
<1>30. CASE Hour
  BY <1>30 DEF Hour
<1>31. CASE Midnight
  BY <1>31 DEF Midnight
<1>32. CASE UNCHANGED vars
  BY <1>32 DEF vars
<1>99. QED
  BY <1>1, <1>2, <1>3, <1>4, <1>5, <1>6, <1>7, <1>8, <1>9, <1>10, <1>11, <1>12, <1>13, <1>14, <1>15, <1>16, <1>17, <1>18, <1>19, <1>20, <1>21, <1>22, <1>23, <1>24, <1>25, <1>26, <1>27, <1>28, <1>29, <1>30, <1>31, <1>32
  DEF Next, Advance, Ingest, Replay

\* Steps of a process that still has requests to make.
Spending == StepPc \cup PricePc

\* No day was overspent by its own runs, and the run at work, if it started
\* today, cannot overspend today with all that it may still make.
BudgetInv ==
  /\ \A d \in Nat : Cardinality(SentByRunsOf(d)) <= DailyBudget
  /\ \A p \in Proc :
       proc[p].pc \in Spending /\ row[proc[p].run].day = day =>
         Cardinality(SentByRunsOf(day)) + MayMake(p) <= DailyBudget

\* The steps that make no request and read no budget leave nobody more to make.
Frugal == \A q \in Proc : proc'[q].pc \in Spending =>
  /\ proc[q].pc \in Spending /\ proc'[q].run = proc[q].run
  /\ MayMake(q)' <= MayMake(q)

\* The requests made on a day are finitely many, and counted among the spent.
LEMMA SentFinite ==
  ASSUME TypeInv, SpendSurvivesCrash, NEW d
  PROVE  /\ IsFiniteSet(SentByRunsOf(d)) /\ Cardinality(SentByRunsOf(d)) \in Nat
         /\ Cardinality(SentByRunsOf(day)) <= SpentToday /\ SpentToday \in Nat
<1>1. IsFiniteSet(requests) /\ day \in Nat
  BY DEF TypeInv, TypeOK
<1>2. SentByRunsOf(d) \subseteq requests /\ SentByRunsOf(day) \subseteq requests
  BY DEF SentByRunsOf, SentOn, SpendSurvivesCrash
<1>3. SentByRunsOf(day) \subseteq {t \in requests : row[t[1]].day >= day}
  BY <1>1, <1>2 DEF SentByRunsOf
<1>4. IsFiniteSet({t \in requests : row[t[1]].day >= day})
  BY <1>1, FS_Subset
<1> QED BY <1>1, <1>2, <1>3, <1>4, FS_Subset, FS_CardinalityType DEF SpentToday

\* A step that makes no request changes no day's count.
LEMMA QuietStep ==
  ASSUME TypeInv, CountedInv, RowFrame, sentOn' = sentOn, NEW d
  PROVE  SentByRunsOf(d)' = SentByRunsOf(d)
<1>1. \A t \in DOMAIN sentOn : row'[t[1]].day = row[t[1]].day
  BY DEF TypeInv, TypeOK, Key, CountedInv, SpendSurvivesCrash, RowFrame
<1> QED BY <1>1 DEF SentByRunsOf, SentOn

\* A step that makes no request and raises no allowance keeps the budget.
LEMMA FrugalStep ==
  ASSUME TypeInv, TypeInv', RowInv, CountedInv, RowFrame, BudgetInv,
         sentOn' = sentOn, day' = day, Frugal
  PROVE  BudgetInv'
<1>1. \A d : SentByRunsOf(d)' = SentByRunsOf(d)
  BY QuietStep
<1>2. \A d \in Nat : Cardinality(SentByRunsOf(d))' <= DailyBudget
  BY <1>1 DEF BudgetInv
<1>3. Cardinality(SentByRunsOf(day))' = Cardinality(SentByRunsOf(day))
  BY <1>1
<1>4. ASSUME NEW q \in Proc, proc'[q].pc \in Spending, row'[proc'[q].run].day = day
      PROVE  Cardinality(SentByRunsOf(day))' + MayMake(q)' <= DailyBudget
  <2>1. /\ proc[q].pc \in Spending /\ proc'[q].run = proc[q].run
        /\ MayMake(q)' <= MayMake(q)
    BY <1>4 DEF Frugal
  <2>2. row[proc[q].run].day = day
    BY <1>4, <2>1 DEF TypeInv, RunKnown, RowInv, RowFrame, HasRun, Spending
  <2>3. Cardinality(SentByRunsOf(day)) + MayMake(q) <= DailyBudget
    BY <2>1, <2>2 DEF BudgetInv
  <2>4. MayMake(q) \in Nat /\ MayMake(q)' \in Nat
    BY DEF MayMake, InHand, TypeInv, TypeOK, ProcState
  <2>5. Cardinality(SentByRunsOf(day)) \in Nat
    BY SentFinite DEF CountedInv
  <2> QED BY <1>3, <2>1, <2>3, <2>4, <2>5, NatAssumption
<1> QED BY <1>2, <1>4 DEF BudgetInv

Silent == Frugal /\ sentOn' = sentOn /\ day' = day

\* All steps but the two fetches, the reading of the budget and midnight are
\* silent.
LEMMA SilentSteps ==
  ASSUME TypeInv, NEW p \in Proc,
         StartIngest(p) \/ StartReplay(p) \/ Crash(p) \/ Release(p)
         \/ StatementFails(p) \/ SessionEnds(p) \/ Replay(p)
         \/ (Ingest(p) /\ ~ReadBudget(p) /\ ~StepFetch(p) /\ ~Fetch(p))
  PROVE  Silent
<1> USE DEF TypeInv, TypeOK, RunKnown, ProcState, StepPc, PricePc, HasRun, At, Go,
            Spending, InHand, MayMake, Silent, Frugal
<1>1. CASE StartIngest(p)
  BY <1>1 DEF StartIngest, Reaped
<1>2. CASE StartReplay(p)
  BY <1>2 DEF StartReplay
<1>3. CASE TryLock(p, "try_lock", "open")
  BY <1>3 DEF TryLock
<1>4. CASE OpenRun(p, "open", "budget", "ingest")
  BY <1>4 DEF OpenRun, NoRow
<1>5. CASE StepTake(p)
  BY <1>5 DEF StepTake
<1>6. CASE StepRecord(p)
  BY <1>6 DEF StepRecord, RecordRequest
<1>7. CASE StepBeat(p)
  BY <1>7 DEF StepBeat, Beat
<1>8. CASE StepsDone(p)
  BY <1>8 DEF StepsDone, Degrade
<1>9. CASE PlanBatches(p)
  <2>1. sentOn' = sentOn /\ day' = day
    BY <1>9 DEF PlanBatches
  <2>2. /\ proc[p].pc = "due" /\ proc'[p].pc \in {"predict", "batch"}
        /\ proc'[p].run = proc[p].run /\ proc'[p].remaining = proc[p].remaining
        /\ \A q \in Proc : q # p => proc'[q] = proc[q]
    BY <1>9, PlanFrame
  <2>3. \A q \in Proc : proc[q].remaining \in Nat
    OBVIOUS
  <2> QED BY ONLY <2>1, <2>2, <2>3
          DEF Silent, Frugal, MayMake, InHand, Spending, StepPc, PricePc
<1>10. CASE TakeBatch(p)
  BY <1>10 DEF TakeBatch, Beat
<1>11. CASE RecordBatch(p)
  BY <1>11 DEF RecordBatch, RecordRequest
<1>12. CASE ArchivePut(p)
  BY <1>12 DEF ArchivePut, EndBatch, NextBatch
<1>13. CASE RecordKey(p)
  BY <1>13 DEF RecordKey
<1>14. CASE StoreBatch(p)
  BY <1>14 DEF StoreBatch, EndBatch, NextBatch
<1>15. CASE Predict(p)
  BY <1>15 DEF Predict
<1>16. CASE CloseRun(p)
  BY <1>16 DEF CloseRun, RunStatus, CloseRow, Return, IdleProc
<1>17. CASE TryLock(p, "r_try_lock", "r_source")
  BY <1>17 DEF TryLock
<1>18. CASE ReplaySource(p)
  <2>1. sentOn' = sentOn /\ day' = day
    BY <1>18 DEF ReplaySource
  <2>2. \A q \in Proc : proc'[q].pc \in Spending => proc'[q] = proc[q]
    <3>1. CASE Return(p)
      BY <3>1, ReturnFrame
    <3>2. CASE ~Return(p)
      BY <1>18, <3>2 DEF ReplaySource
    <3> QED BY <3>1, <3>2
  <2>3. \A q \in Proc : proc[q].remaining \in Nat
    OBVIOUS
  <2> QED BY ONLY <2>1, <2>2, <2>3 DEF Silent, Frugal, MayMake, InHand
<1>19. CASE OpenRun(p, "r_open", "r_replace", "replay")
  BY <1>19 DEF OpenRun, NoRow
<1>20. CASE ReplayReplace(p)
  BY <1>20 DEF ReplayReplace
<1>21. CASE ReplayClose(p)
  <2>1. sentOn' = sentOn /\ day' = day
    BY <1>21 DEF ReplayClose
  <2>2. \A q \in Proc : proc'[q].pc \in Spending => proc'[q] = proc[q]
    <3>1. CASE Return(p)
      BY <3>1, ReturnFrame
    <3>2. CASE ~Return(p)
      BY <1>21, <3>2 DEF ReplayClose
    <3> QED BY <3>1, <3>2
  <2>3. \A q \in Proc : proc[q].remaining \in Nat
    OBVIOUS
  <2> QED BY ONLY <2>1, <2>2, <2>3 DEF Silent, Frugal, MayMake, InHand
<1>22. CASE ReplayFail(p)
  BY <1>22 DEF ReplayFail, CloseRow, Return, IdleProc
<1>23. CASE Release(p)
  BY <1>23 DEF Release, IdleProc
<1>24. CASE StatementFails(p)
  <2>1. sentOn' = sentOn /\ day' = day
    BY <1>24 DEF StatementFails
  <2>2. \A q \in Proc : proc'[q].pc \in Spending => proc'[q] = proc[q]
    <3>1. CASE Return(p)
      BY <3>1, ReturnFrame
    <3>2. CASE ~Return(p)
      BY <1>24, <3>2 DEF StatementFails
    <3> QED BY <3>1, <3>2
  <2>3. \A q \in Proc : proc[q].remaining \in Nat
    OBVIOUS
  <2> QED BY ONLY <2>1, <2>2, <2>3 DEF Silent, Frugal, MayMake, InHand
<1>25. CASE SessionEnds(p)
  BY <1>25 DEF SessionEnds
<1>26. CASE Crash(p)
  BY <1>26 DEF Crash, IdleProc
<1> QED
  BY <1>1, <1>2, <1>3, <1>4, <1>5, <1>6, <1>7, <1>8, <1>9, <1>10, <1>11, <1>12, <1>13, <1>14, <1>15, <1>16, <1>17, <1>18, <1>19, <1>20, <1>21, <1>22, <1>23, <1>24, <1>25, <1>26
  DEF Ingest, Replay

\* Making the request in hand adds at most one to the count of today, and the
\* process has one less to make.
LEMMA SendStep ==
  ASSUME TypeInv, TypeInv', LockInv, RowInv, CountedInv, CountedInv', BudgetInv,
         NEW p \in Proc, StepFetch(p) \/ Fetch(p)
  PROVE  BudgetInv'
<1>1. /\ proc[p].pc \in {"step_fetch", "fetch"} /\ proc[p].run \in RunId
      /\ row' = row /\ day' = day /\ Send(p) /\ proc'[p].run = proc[p].run
      /\ proc'[p].remaining = proc[p].remaining
      /\ proc'[p].pc \notin {"step_record", "step_beat", "step_fetch",
                             "record", "fetch"}
      /\ \A q \in Proc : q # p => proc'[q] = proc[q]
  BY DEF StepFetch, Fetch, Degrade, EndBatch, NextBatch, At, Go, TypeInv, TypeOK,
         ProcState, RunKnown, HasRun, StepPc, PricePc
<1>2. MayMake(p)' = proc[p].remaining /\ MayMake(p) = proc[p].remaining + 1
      /\ proc[p].remaining \in Nat
  BY <1>1 DEF MayMake, InHand, TypeInv, TypeOK, ProcState
<1>3. \A q \in Proc : q # p => proc'[q].pc \notin Spending
  <2>1. proc[p].pc \in Working /\ lock = p
    BY <1>1 DEF LockInv, Working, IngestPc, StepPc, PricePc
  <2>2. \A q \in Proc : q # p => proc[q].pc \notin Working
    BY <2>1 DEF LockInv
  <2> QED BY <1>1, <2>2 DEF Working, IngestPc, Spending
<1>4. \A d \in Nat : SentByRunsOf(d)' \subseteq
        IF d = day /\ row[proc[p].run].day = day
        THEN SentByRunsOf(d) \cup {Token(p)} ELSE SentByRunsOf(d)
  BY <1>1 DEF Send, Token, SentByRunsOf, SentOn
<1>5. \A d \in Nat : /\ IsFiniteSet(SentByRunsOf(d))
                     /\ Cardinality(SentByRunsOf(d)) \in Nat
                     /\ Cardinality(SentByRunsOf(d) \cup {Token(p)})
                          <= Cardinality(SentByRunsOf(d)) + 1
  <2> TAKE d \in Nat
  <2>1. IsFiniteSet(SentByRunsOf(d)) /\ Cardinality(SentByRunsOf(d)) \in Nat
    BY SentFinite DEF CountedInv
  <2>2. Cardinality(SentByRunsOf(d) \cup {Token(p)}) =
          IF Token(p) \in SentByRunsOf(d) THEN Cardinality(SentByRunsOf(d))
          ELSE Cardinality(SentByRunsOf(d)) + 1
    BY <2>1, FS_AddElement
  <2> QED BY ONLY <2>1, <2>2
<1>6. CASE row[proc[p].run].day = day
  <2>1. Cardinality(SentByRunsOf(day)) + MayMake(p) <= DailyBudget
    BY <1>1, <1>6 DEF BudgetInv, Spending, StepPc, PricePc
  <2>2. Cardinality(SentByRunsOf(day))' <= Cardinality(SentByRunsOf(day)) + 1
    <3>1. day \in Nat
      BY DEF TypeInv, TypeOK
    <3>2. IsFiniteSet(SentByRunsOf(day) \cup {Token(p)})
      BY <1>5, <3>1, FS_AddElement
    <3>3. SentByRunsOf(day)' \subseteq SentByRunsOf(day) \cup {Token(p)}
      BY <1>1, <1>4, <1>6, <3>1
    <3>4. /\ Cardinality(SentByRunsOf(day)') <= Cardinality(SentByRunsOf(day) \cup {Token(p)})
          /\ Cardinality(SentByRunsOf(day)') \in Nat
          /\ Cardinality(SentByRunsOf(day) \cup {Token(p)}) \in Nat
      BY <3>2, <3>3, FS_Subset, FS_CardinalityType
    <3> QED BY <1>5, <3>1, <3>4
  <2>3. \A d \in Nat : d # day => Cardinality(SentByRunsOf(d))' <= DailyBudget
    <3> TAKE d \in Nat
    <3> HAVE d # day
    <3>1. SentByRunsOf(d)' \subseteq SentByRunsOf(d)
      BY <1>4
    <3>2. Cardinality(SentByRunsOf(d)') <= Cardinality(SentByRunsOf(d))
          /\ Cardinality(SentByRunsOf(d)') \in Nat
      BY <1>5, <3>1, FS_Subset, FS_CardinalityType
    <3>3. Cardinality(SentByRunsOf(d)) <= DailyBudget
      BY DEF BudgetInv
    <3>4. Cardinality(SentByRunsOf(d)) \in Nat /\ DailyBudget \in Nat
      BY <1>5, NatAssumption
    <3> QED BY ONLY <3>2, <3>3, <3>4
  <2>4. Cardinality(SentByRunsOf(day))' + MayMake(p)' <= DailyBudget
        /\ Cardinality(SentByRunsOf(day))' <= DailyBudget
    <3>0. \A d \in Nat : Cardinality(SentByRunsOf(d)') \in Nat
      <4> TAKE d \in Nat
      <4>1. IsFiniteSet(SentByRunsOf(d) \cup {Token(p)})
        BY <1>5, FS_AddElement
      <4> QED BY <1>4, <4>1, FS_Subset, FS_CardinalityType
    <3>1. Cardinality(SentByRunsOf(day))' \in Nat /\ Cardinality(SentByRunsOf(day)) \in Nat
      BY <1>1, <1>5, <3>0 DEF TypeInv, TypeOK
    <3> QED BY <1>2, <2>1, <2>2, <3>1, NatAssumption
  <2> QED BY <1>1, <1>3, <2>3, <2>4 DEF BudgetInv
<1>7. CASE row[proc[p].run].day # day
  <2>1. \A d \in Nat : Cardinality(SentByRunsOf(d))' <= DailyBudget
    <3> TAKE d \in Nat
    <3>1. SentByRunsOf(d)' \subseteq SentByRunsOf(d)
      BY <1>4, <1>7
    <3>2. Cardinality(SentByRunsOf(d)') <= Cardinality(SentByRunsOf(d))
          /\ Cardinality(SentByRunsOf(d)') \in Nat
      BY <1>5, <3>1, FS_Subset, FS_CardinalityType
    <3>3. Cardinality(SentByRunsOf(d)) <= DailyBudget
      BY DEF BudgetInv
    <3>4. Cardinality(SentByRunsOf(d)) \in Nat /\ DailyBudget \in Nat
      BY <1>5, NatAssumption
    <3> QED BY ONLY <3>2, <3>3, <3>4
  <2> QED BY <1>1, <1>3, <1>7, <2>1 DEF BudgetInv
<1> QED BY <1>6, <1>7

\* The budget a run reads is what today's own requests leave.
LEMMA ReadStep ==
  ASSUME TypeInv, LockInv, CountedInv, RowFrame, BudgetInv, NEW p \in Proc, ReadBudget(p)
  PROVE  BudgetInv'
<1>1. /\ proc[p].pc = "budget" /\ row' = row /\ day' = day /\ sentOn' = sentOn
      /\ \A q \in Proc : q # p => proc'[q] = proc[q]
  BY DEF ReadBudget, At, TypeInv, TypeOK
<1>2. MayMake(p)' = SaturatingSub(DailyBudget, SpentToday)
  BY SentFinite DEF ReadBudget, MayMake, InHand, TypeInv, TypeOK, ProcState,
     CountedInv, SaturatingSub
<1>3. \A q \in Proc : q # p => proc'[q].pc \notin Spending
  BY <1>1 DEF LockInv, Working, IngestPc, Spending
<1>4. \A d : SentByRunsOf(d)' = SentByRunsOf(d)
  BY <1>1, QuietStep
<1>5. \A d \in Nat : Cardinality(SentByRunsOf(d))' <= DailyBudget
  BY <1>4 DEF BudgetInv
<1>6. Cardinality(SentByRunsOf(day))' + MayMake(p)' <= DailyBudget
  <2>1. Cardinality(SentByRunsOf(day))' = Cardinality(SentByRunsOf(day))
    BY <1>1, <1>4
  <2>2. /\ Cardinality(SentByRunsOf(day)) <= SpentToday /\ SpentToday \in Nat
        /\ Cardinality(SentByRunsOf(day)) \in Nat
    BY SentFinite DEF CountedInv
  <2>3. Cardinality(SentByRunsOf(day)) <= DailyBudget
    BY DEF BudgetInv, TypeInv, TypeOK
  <2> QED BY <1>2, <2>1, <2>2, <2>3, NatAssumption DEF SaturatingSub
<1> QED BY <1>1, <1>3, <1>5, <1>6 DEF BudgetInv

\* After midnight the run at work did not start today.
LEMMA MidnightStep ==
  ASSUME TypeInv, RowInv, CountedInv, RowFrame, BudgetInv, Midnight
  PROVE  BudgetInv'
<1>1. \A d : SentByRunsOf(d)' = SentByRunsOf(d)
  BY QuietStep DEF Midnight
<1>2. \A p \in Proc : proc[p].pc \in Spending => row[proc[p].run].day < day'
  BY DEF Midnight, TypeInv, TypeOK, RunKnown, RunRow, RowInv, HasRun, Spending
<1> QED BY <1>1, <1>2 DEF BudgetInv, Midnight, TypeInv, TypeOK, RunKnown, RunRow,
                          HasRun, Spending

\* The inductive invariant: the budget holds because whoever spends has the
\* lock, and every request is counted, before it is made, in a row that keeps
\* the day it was opened on.
IInv == TypeInv /\ LockInv /\ RowInv /\ CountedInv /\ BudgetInv

\* The inductive invariant holds at the start.
LEMMA InitIInv == Init => IInv
<1> SUFFICES ASSUME Init PROVE IInv
  OBVIOUS
<1>1. TypeInv
  BY InitType
<1>2. LockInv /\ RowInv
  BY DEF Init, LockInv, RowInv, IdleProc, NoRow, Working, IngestPc, ReplayPc,
         StepPc, PricePc, HasRun
<1>3. CountedInv
  BY DEF Init, CountedInv, SpendSurvivesCrash, IdleProc
<1>4. \A d \in Nat : SentByRunsOf(d) = {}
  BY DEF Init, SentByRunsOf, SentOn
<1>5. BudgetInv
  <2>1. \A d \in Nat : Cardinality(SentByRunsOf(d)) = 0
    BY <1>4, FS_EmptySet
  <2> QED BY <2>1, NatAssumption
     DEF Init, BudgetInv, IdleProc, Spending, StepPc, PricePc
<1> QED BY <1>1, <1>2, <1>3, <1>5 DEF IInv

\* Every step keeps the inductive invariant.
LEMMA StepIInv == IInv /\ [Next]_vars => IInv'
<1> SUFFICES ASSUME IInv, [Next]_vars PROVE IInv'
  OBVIOUS
<1> USE DEF IInv
<1>1. TypeInv' /\ LockInv' /\ RowInv' /\ RowFrame
  BY StepType, StepLock, StepRow, RowStep
<1>2. CountedInv'
  BY <1>1, StepCounted
<1>3. ASSUME Silent PROVE BudgetInv'
  BY <1>1, <1>3, FrugalStep DEF Silent
<1>4. ASSUME Hour \/ UNCHANGED vars PROVE BudgetInv'
  <2>1. Silent
    BY <1>4 DEF Hour, vars, Silent, Frugal, MayMake, InHand, TypeInv, TypeOK, ProcState
  <2> QED BY <1>3, <2>1
<1>5. ASSUME Midnight PROVE BudgetInv'
  BY <1>1, <1>5, MidnightStep
<1>6. ASSUME NEW p \in Proc,
             StartIngest(p) \/ StartReplay(p) \/ Advance(p) \/ Crash(p)
      PROVE  BudgetInv'
  <2>1. CASE StepFetch(p) \/ Fetch(p)
    BY <1>1, <1>2, <2>1, SendStep
  <2>2. CASE ReadBudget(p)
    BY <1>1, <2>2, ReadStep
  <2>3. CASE ~StepFetch(p) /\ ~Fetch(p) /\ ~ReadBudget(p)
    <3>1. Silent
      BY <1>6, <2>3, SilentSteps DEF Advance
    <3> QED BY <1>3, <3>1
  <2> QED BY <2>1, <2>2, <2>3
<1>7. BudgetInv'
  BY <1>4, <1>5, <1>6 DEF Next
<1> QED BY <1>1, <1>2, <1>7

\* On no day do the runs that started on it make more requests than the budget.
THEOREM BudgetIsKept == Spec => []DailyBudgetKept
<1>1. Spec => []IInv
  BY InitIInv, StepIInv, PTL DEF Spec
<1>2. IInv => DailyBudgetKept
  BY DEF IInv, BudgetInv, DailyBudgetKept, TypeInv, TypeOK
<1> QED BY <1>1, <1>2, PTL

\* Whatever a process was killed at, the requests it made are counted.
THEOREM SpendIsCounted == Spec => []SpendSurvivesCrash
<1>1. Spec => []IInv
  BY InitIInv, StepIInv, PTL DEF Spec
<1>2. IInv => SpendSurvivesCrash
  BY DEF IInv, CountedInv
<1> QED BY <1>1, <1>2, PTL

=============================================================================

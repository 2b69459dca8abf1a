---------------------------- MODULE ArchiveProofs ----------------------------
(* Theorems of IngestRuns about what a run leaves behind, for any number of *)
(* processes and runs: how its row ends and what the end means, the keys of *)
(* its payloads, and the run its observations are filed under.              *)
EXTENDS IngestRunsProofs

(***************************************************************************)
(* The end of a run                                                        *)
(***************************************************************************)

\* Program points of a process with an open ingest run, or with a replay's.
IngestOpen == {"budget", "predict", "close"} \cup StepPc \cup PricePc
ReplayOpen == {"r_replace", "r_close", "r_fail"}

\* A process that ingests works under a row of its kind that nobody but the
\* reaper has ended, and one that replays under a row of a replay.
OpenInv ==
  /\ \A p \in Proc : proc[p].pc \in IngestOpen =>
       /\ row[proc[p].run].kind = "ingest"
       /\ row[proc[p].run].status \in {"running", "abandoned"}
  /\ \A p \in Proc : proc[p].pc \in ReplayOpen => row[proc[p].run].kind = "replay"

\* The statement of EndedIsFinal about one step.
FinalStep ==
  \A r \in RunId : row[r].kind = "ingest" /\ row[r].status \in Ended =>
    row'[r].status = row[r].status

\* Nobody enters these program points, or changes its run there.
NobodyEnters(S) ==
  \A q \in Proc : proc'[q].pc \in S => proc[q].pc \in S /\ proc'[q].run = proc[q].run

\* A step that ends no run other than by reaping it, and opens none.
EndsNothing ==
  /\ \A r \in RunId :
       /\ row'[r].kind = row[r].kind
       /\ \/ row'[r].status = row[r].status
          \/ row[r].status = "running" /\ row'[r].status = "abandoned"
  /\ NobodyEnters(IngestOpen) /\ NobodyEnters(ReplayOpen)

\* Such a step keeps the invariant and every end.
LEMMA EndsNothingKeeps ==
  ASSUME TypeInv, OpenInv, EndsNothing PROVE OpenInv' /\ FinalStep
<1>1. FinalStep
  BY DEF EndsNothing, FinalStep, Ended
<1>2. \A q \in Proc : proc[q].pc \in IngestOpen \cup ReplayOpen => proc[q].run \in RunId
  BY DEF TypeInv, RunKnown, HasRun, IngestOpen, ReplayOpen
<1>3. \A q \in Proc : proc'[q].pc \in IngestOpen =>
        row'[proc'[q].run].kind = "ingest" /\ row'[proc'[q].run].status \in {"running", "abandoned"}
  BY <1>2 DEF EndsNothing, NobodyEnters, OpenInv
<1>4. \A q \in Proc : proc'[q].pc \in ReplayOpen => row'[proc'[q].run].kind = "replay"
  BY <1>2 DEF EndsNothing, NobodyEnters, OpenInv
<1> QED BY <1>1, <1>3, <1>4 DEF OpenInv

\* Steps that only reap, touch the heartbeat or change what a row lists.
IdleStep(p) ==
  \/ StartIngest(p) \/ StartReplay(p) \/ TryLock(p, "try_lock", "open")
  \/ TryLock(p, "r_try_lock", "r_source") \/ ReadBudget(p)
  \/ StepTake(p) \/ StepRecord(p) \/ StepBeat(p) \/ StepFetch(p) \/ StepsDone(p)
  \/ PlanBatches(p) \/ TakeBatch(p) \/ RecordBatch(p) \/ Fetch(p)
  \/ ArchivePut(p) \/ RecordKey(p) \/ StoreBatch(p) \/ Predict(p)
  \/ ReplaySource(p) \/ ReplayReplace(p)
  \/ Release(p) \/ StatementFails(p) \/ SessionEnds(p) \/ Crash(p)

\* They end nothing.
LEMMA IdleEndsNothing ==
  ASSUME TypeInv, NEW p \in Proc, IdleStep(p) PROVE EndsNothing
<1> USE DEF TypeInv, TypeOK, RunKnown, ProcState, RunRow, StepPc, PricePc, HasRun,
            IngestOpen, ReplayOpen, At, Go, EndsNothing, NobodyEnters
<1>1. CASE StartIngest(p)
  BY <1>1 DEF StartIngest, Reaped
<1>2. CASE StartReplay(p)
  BY <1>2 DEF StartReplay
<1>3. CASE TryLock(p, "try_lock", "open")
  <2>1. row' = row
    BY <1>3 DEF TryLock
  <2>2. NobodyEnters(IngestOpen) /\ NobodyEnters(ReplayOpen)
    <3>1. CASE Go(p, "open")
      BY <3>1, GoFrame
    <3>2. CASE Go(p, "idle")
      BY <3>2, GoFrame
    <3> QED BY <1>3, <3>1, <3>2 DEF TryLock
  <2> QED BY <2>1, <2>2
<1>4. CASE TryLock(p, "r_try_lock", "r_source")
  <2>1. row' = row
    BY <1>4 DEF TryLock
  <2>2. NobodyEnters(IngestOpen) /\ NobodyEnters(ReplayOpen)
    <3>1. CASE Go(p, "r_source")
      BY <3>1, GoFrame
    <3>2. CASE Go(p, "idle")
      BY <3>2, GoFrame
    <3> QED BY <1>4, <3>1, <3>2 DEF TryLock
  <2> QED BY <2>1, <2>2
<1>5. CASE ReadBudget(p)
  BY <1>5 DEF ReadBudget
<1>6. CASE StepTake(p)
  BY <1>6 DEF StepTake
<1>7. CASE StepRecord(p)
  BY <1>7 DEF StepRecord
<1>8. CASE StepBeat(p)
  BY <1>8 DEF StepBeat, Beat
<1>9. CASE StepFetch(p)
  <2>1. row' = row
    BY <1>9 DEF StepFetch
  <2>2. NobodyEnters(IngestOpen)
    BY <1>9 DEF StepFetch, Degrade
  <2>3. NobodyEnters(ReplayOpen)
    BY <1>9 DEF StepFetch, Degrade
  <2> QED BY <2>1, <2>2, <2>3
<1>10. CASE StepsDone(p)
  BY <1>10 DEF StepsDone, Degrade
<1>11. CASE PlanBatches(p)
  <2>1. row' = row \/ \E n \in Affordable(p) : row' = [row EXCEPT ![proc[p].run].due = n]
    BY ONLY <1>11 DEF PlanBatches
  <2>2. \A r \in RunId : row'[r].kind = row[r].kind /\ row'[r].status = row[r].status
    <3>1. CASE row' = row
      BY ONLY <3>1
    <3>2. ASSUME NEW n \in Affordable(p), row' = [row EXCEPT ![proc[p].run].due = n],
                 NEW r \in RunId
          PROVE  row'[r].kind = row[r].kind /\ row'[r].status = row[r].status
      <4>1. /\ row[r] \in RunRow
            /\ row'[r] = row[r] \/ row'[r] = [row[r] EXCEPT !.due = n]
        BY ONLY <3>2, row \in [RunId -> RunRow]
      <4> QED BY ONLY <4>1 DEF RunRow
    <3> QED BY ONLY <2>1, <3>1, <3>2
  <2>3. NobodyEnters(IngestOpen) /\ NobodyEnters(ReplayOpen)
    BY <1>11, PlanFrame
  <2> QED BY <2>2, <2>3
<1>12. CASE TakeBatch(p)
  BY <1>12 DEF TakeBatch, Beat
<1>13. CASE RecordBatch(p)
  BY <1>13 DEF RecordBatch
<1>14. CASE Fetch(p)
  <2>1. /\ row' = row /\ proc[p].pc = "fetch"
        /\ Go(p, "put") \/ Degrade(p, "predict") \/ EndBatch(p, TRUE)
    BY <1>14 DEF Fetch
  <2>2. /\ proc'[p].run = proc[p].run /\ proc'[p].pc \in {"put", "predict", "batch"}
        /\ \A q \in Proc : q # p => proc'[q] = proc[q]
    BY <2>1 DEF Degrade, EndBatch, NextBatch
  <2> QED BY <2>1, <2>2
<1>15. CASE ArchivePut(p)
  <2>1. row' = row
    BY <1>15 DEF ArchivePut
  <2>2. NobodyEnters(IngestOpen) /\ NobodyEnters(ReplayOpen)
    <3>1. CASE Go(p, "key")
      BY <1>15, <3>1, GoFrame DEF ArchivePut
    <3>2. CASE EndBatch(p, TRUE)
      <4>1. /\ proc[p].pc = "put" /\ proc'[p].run = proc[p].run
            /\ proc'[p].pc \in {"batch", "predict"}
            /\ \A q \in Proc : q # p => proc'[q] = proc[q]
        BY <1>15, <3>2 DEF ArchivePut, EndBatch, NextBatch
      <4> QED BY <4>1
    <3> QED BY <1>15, <3>1, <3>2 DEF ArchivePut
  <2> QED BY <2>1, <2>2
<1>16. CASE RecordKey(p)
  BY <1>16 DEF RecordKey
<1>17. CASE StoreBatch(p)
  BY <1>17 DEF StoreBatch, EndBatch, NextBatch
<1>18. CASE Predict(p)
  BY <1>18 DEF Predict
<1>19. CASE ReplaySource(p)
  <2>1. row' = row
    BY <1>19 DEF ReplaySource
  <2>2. CASE Return(p)
    BY <2>1, <2>2, ReturnFrame
  <2>3. CASE ~Return(p)
    <3>1. NobodyEnters(IngestOpen)
      BY <1>19, <2>3 DEF ReplaySource
    <3>2. NobodyEnters(ReplayOpen)
      BY <1>19, <2>3 DEF ReplaySource
    <3> QED BY <2>1, <3>1, <3>2
  <2> QED BY <2>2, <2>3
<1>20. CASE ReplayReplace(p)
  BY <1>20 DEF ReplayReplace
<1>21. CASE Release(p)
  BY <1>21 DEF Release, IdleProc
<1>22. CASE StatementFails(p)
  <2>1. row' = row
    BY <1>22 DEF StatementFails
  <2>2. CASE Return(p)
    BY <2>1, <2>2, ReturnFrame
  <2>3. CASE /\ proc[p].pc \in {"steps", "step_record", "step_beat", "due", "batch",
                                "record", "key", "predict"}
             /\ proc' = [proc EXCEPT ![p].pc = "close", ![p].error = TRUE]
    <3>1. NobodyEnters(IngestOpen)
      BY <2>3
    <3>2. NobodyEnters(ReplayOpen)
      BY <2>3
    <3> QED BY <2>1, <3>1, <3>2
  <2>4. CASE proc[p].pc \in {"try_lock", "r_try_lock"} /\ Go(p, "idle")
    BY <2>1, <2>4, GoFrame
  <2> QED BY <1>22, <2>2, <2>3, <2>4 DEF StatementFails
<1>23. CASE SessionEnds(p)
  BY <1>23 DEF SessionEnds
<1>24. CASE Crash(p)
  BY <1>24 DEF Crash, IdleProc
<1> QED BY <1>1, <1>2, <1>3, <1>4, <1>5, <1>6, <1>7, <1>8, <1>9, <1>10, <1>11, <1>12, <1>13, <1>14, <1>15, <1>16, <1>17, <1>18, <1>19, <1>20, <1>21, <1>22, <1>23, <1>24 DEF IdleStep

\* A new row runs, under the process that opened it.
LEMMA OpenStep ==
  ASSUME TypeInv, LockInv, OpenInv, NEW p \in Proc,
         OpenRun(p, "open", "budget", "ingest")
           \/ OpenRun(p, "r_open", "r_replace", "replay")
  PROVE  OpenInv' /\ FinalStep
<1>1. PICK o \in RunId, kind \in {"ingest", "replay"} :
        /\ row[o].status = "none"
        /\ row' = [row EXCEPT ![o] = [NoRow EXCEPT !.status = "running",
                                       !.kind = kind, !.day = day]]
        /\ proc' = [proc EXCEPT ![p].pc = IF kind = "ingest" THEN "budget" ELSE "r_replace",
                                ![p].run = o]
  BY DEF OpenRun
<1>2. proc \in [Proc -> ProcState] /\ row \in [RunId -> RunRow] /\ proc[p].pc \in Working
  BY DEF OpenRun, At, TypeInv, TypeOK, Working, IngestPc, ReplayPc
<1>3. /\ row'[o].kind = kind /\ row'[o].status = "running"
      /\ \A r \in RunId : r # o => row'[r] = row[r]
  BY <1>1, <1>2 DEF NoRow
<1>4. /\ proc'[p].pc = IF kind = "ingest" THEN "budget" ELSE "r_replace"
      /\ proc'[p].run = o
      /\ \A q \in Proc : q # p => proc'[q] = proc[q]
  BY <1>1, <1>2 DEF ProcState
<1>5. \A q \in Proc : q # p => proc'[q].pc \notin IngestOpen \cup ReplayOpen
  BY <1>2, <1>4 DEF LockInv, IngestOpen, ReplayOpen, Working, IngestPc, ReplayPc
<1>6. OpenInv'
  BY <1>3, <1>4, <1>5 DEF OpenInv, IngestOpen, ReplayOpen, StepPc, PricePc
<1>7. FinalStep
  BY <1>1, <1>3 DEF FinalStep, Ended
<1> QED BY <1>6, <1>7

\* The step that closes a row closes that of the one process at work, which has
\* not been ended if it is an ingest run's.
LEMMA CloseStep ==
  ASSUME TypeInv, LockInv, OpenInv, NEW p \in Proc,
         CloseRun(p) \/ ReplayClose(p) \/ ReplayFail(p)
  PROVE  OpenInv' /\ FinalStep
<1>1. /\ proc[p].pc \in {"close", "r_close", "r_fail"}
      /\ proc[p].run \in RunId /\ row \in [RunId -> RunRow]
  BY DEF CloseRun, ReplayClose, ReplayFail, At, TypeInv, TypeOK, RunKnown, HasRun
<1>2. \A q \in Proc : q # p => proc[q].pc \notin Working
  BY <1>1 DEF LockInv, Working, IngestPc, ReplayPc
<1>3. /\ proc'[p].pc \in {"release", "r_fail"} /\ proc'[p].run = proc[p].run
      /\ proc[p].pc = "close" => proc'[p].pc = "release"
      /\ \A q \in Proc : q # p => proc'[q] = proc[q]
  <2>1. CASE Return(p)
    BY <2>1, ReturnFrame
  <2>2. CASE Go(p, "r_fail") /\ proc[p].pc = "r_close"
    BY <2>2, GoFrame
  <2> QED BY <1>1, <2>1, <2>2 DEF CloseRun, ReplayClose, ReplayFail, At
<1>4. /\ \A r \in RunId : row'[r].kind = row[r].kind
      /\ \A r \in RunId : r # proc[p].run => row'[r] = row[r]
  <2>1. CASE CloseRun(p)
    BY <1>1, <2>1 DEF CloseRun, CloseRow, RunRow
  <2>2. CASE ReplayClose(p)
    BY <1>1, <2>2 DEF ReplayClose, ReplayClosed, RunRow
  <2>3. CASE ReplayFail(p)
    BY <1>1, <2>3 DEF ReplayFail, CloseRow, RunRow
  <2> QED BY <2>1, <2>2, <2>3
<1>5. OpenInv'
  <2>1. \A q \in Proc : proc'[q].pc \notin IngestOpen
    BY <1>2, <1>3 DEF IngestOpen, StepPc, PricePc, Working, IngestPc
  <2>2. \A q \in Proc : proc'[q].pc \in ReplayOpen =>
          q = p /\ proc[p].pc \in ReplayOpen
    BY <1>1, <1>2, <1>3 DEF ReplayOpen, Working, ReplayPc
  <2> QED BY <1>1, <1>3, <1>4, <2>1, <2>2 DEF OpenInv
<1>6. FinalStep
  BY <1>1, <1>4 DEF FinalStep, OpenInv, Ended, IngestOpen, ReplayOpen
<1> QED BY <1>5, <1>6

\* No run is open when the system starts.
LEMMA InitOpen == Init => OpenInv
BY DEF Init, OpenInv, IdleProc, IngestOpen, ReplayOpen, StepPc, PricePc

\* Every step keeps the invariant, and every end.
LEMMA StepOpen ==
  TypeInv /\ LockInv /\ OpenInv /\ [Next]_vars => OpenInv' /\ FinalStep
<1> SUFFICES ASSUME TypeInv, LockInv, OpenInv, [Next]_vars PROVE OpenInv' /\ FinalStep
  OBVIOUS
<1>1. ASSUME NEW p \in Proc, IdleStep(p) PROVE OpenInv' /\ FinalStep
  BY <1>1, IdleEndsNothing, EndsNothingKeeps
<1>2. ASSUME NEW p \in Proc,
             OpenRun(p, "open", "budget", "ingest")
               \/ OpenRun(p, "r_open", "r_replace", "replay")
      PROVE  OpenInv' /\ FinalStep
  BY <1>2, OpenStep
<1>3. ASSUME NEW p \in Proc, CloseRun(p) \/ ReplayClose(p) \/ ReplayFail(p)
      PROVE  OpenInv' /\ FinalStep
  BY <1>3, CloseStep
<1>4. CASE Hour
  <2>1. EndsNothing
    BY <1>4 DEF Hour, EndsNothing, NobodyEnters, TypeInv, TypeOK, RunRow
  <2> QED BY <2>1, EndsNothingKeeps
<1>5. CASE Midnight \/ UNCHANGED vars
  <2>1. EndsNothing
    BY <1>5 DEF Midnight, vars, EndsNothing, NobodyEnters
  <2> QED BY <2>1, EndsNothingKeeps
<1> QED BY <1>1, <1>2, <1>3, <1>4, <1>5
        DEF Next, Advance, Ingest, Replay, IdleStep

\* The status an ingest run ended with never changes.
THEOREM EndsAreFinal == Spec => EndedIsFinal
<1>1. Spec => [](TypeInv /\ LockInv)
  <2>1. Spec => []IInv
    BY InitIInv, StepIInv, PTL DEF Spec
  <2> QED BY <2>1, PTL DEF IInv
<1>2. Spec => []OpenInv
  BY <1>1, InitOpen, StepOpen, PTL DEF Spec
<1>3. TypeInv /\ LockInv /\ OpenInv /\ [Next]_vars => [FinalStep]_vars
  BY StepOpen
<1>4. FinalStep <=> (\A r \in RunId :
        row[r].kind = "ingest" /\ row[r].status \in Ended => row'[r].status = row[r].status)
  BY DEF FinalStep
<1> QED BY <1>1, <1>2, <1>3, <1>4, PTL DEF Spec, EndedIsFinal

(***************************************************************************)
(* Nothing is stored that could not be replayed                            *)
(***************************************************************************)

\* The payload is in the object store, and the run that fetched it says so.
Secured(k) == k \in archive /\ k \in row[k[1]].keys

\* Program points at which a process has a key in hand.
ReplayKeyPc == {"r_open", "r_replace", "r_close"}
RebuildPc == {"r_replace", "r_close"}
KeyPc == {"key", "store"} \cup ReplayKeyPc

\* Every key in a row, in a process that replays or under an observation is
\* secured, the price loop secures its own key before it stores, and a
\* replacement lists nothing before it closes.
KeyInv ==
  /\ ArchiveBeforeRows
  /\ \A r \in RunId : row[r].status = "none" => row[r].keys = {}
  /\ \A r \in RunId : \A k \in row[r].keys : Secured(k)
  /\ \A p \in Proc : proc[p].pc = "key" => BatchKey(p) \in archive
  /\ \A p \in Proc : proc[p].pc = "store" => Secured(BatchKey(p))
  /\ \A p \in Proc : proc[p].pc \in ReplayKeyPc => \A k \in proc[p].keys : Secured(k)
  /\ \A p \in Proc : proc[p].pc \in RebuildPc => row[proc[p].run].keys = {}

\* A step that stores nothing, lists nothing and hands nobody a key.
Quiet ==
  /\ archive \subseteq archive' /\ polled' = polled /\ owner' = owner
  /\ \A r \in RunId : /\ row'[r].keys = row[r].keys
                      /\ row'[r].status = "none" => row[r].status = "none"
  /\ \A q \in Proc : proc'[q].pc \in KeyPc => proc'[q] = proc[q]

\* A key is a run and a number, so it names a row.
LEMMA KeyRun ==
  ASSUME TypeInv
  PROVE  /\ \A r \in RunId : row[r].keys \subseteq Key
         /\ polled \subseteq Key /\ DOMAIN owner \subseteq Key
         /\ \A p \in Proc : proc[p].keys \subseteq Key
         /\ \A k \in Key : k[1] \in RunId
BY DEF TypeInv, TypeOK, RunRow, ProcState, Key

\* A quiet step keeps every key where it is.
LEMMA QuietKeys ==
  ASSUME TypeInv, KeyInv, Quiet PROVE KeyInv'
<1>1. \A k \in Key : Secured(k) => Secured(k)'
  BY KeyRun DEF Quiet, Secured
<1>2. \A q \in Proc : proc'[q].pc \in KeyPc =>
        proc[q].pc = proc'[q].pc /\ BatchKey(q)' = BatchKey(q) /\ proc'[q].keys = proc[q].keys
  BY DEF Quiet, BatchKey
<1>3. ArchiveBeforeRows'
  BY <1>1, KeyRun DEF KeyInv, ArchiveBeforeRows, Quiet, Secured
<1>4. /\ \A r \in RunId : row'[r].status = "none" => row'[r].keys = {}
      /\ \A r \in RunId : \A k \in row'[r].keys : Secured(k)'
  BY <1>1, KeyRun DEF KeyInv, Quiet
<1>5. /\ \A q \in Proc : proc'[q].pc = "key" => BatchKey(q)' \in archive'
      /\ \A q \in Proc : proc'[q].pc = "store" => Secured(BatchKey(q))'
  <2>1. \A q \in Proc : proc[q].pc = "store" => BatchKey(q) \in Key
    BY Names DEF HasRun, PricePc
  <2> QED BY <1>1, <1>2, <2>1 DEF KeyInv, Quiet, KeyPc, Secured
<1>6. \A q \in Proc : proc'[q].pc \in ReplayKeyPc => \A k \in proc'[q].keys : Secured(k)'
  BY <1>1, <1>2, KeyRun DEF KeyInv, KeyPc
<1>7. \A q \in Proc : proc'[q].pc \in RebuildPc => row'[proc'[q].run].keys = {}
  <2>1. \A q \in Proc : proc[q].pc \in RebuildPc => proc[q].run \in RunId
    BY DEF TypeInv, RunKnown, RebuildPc, HasRun
  <2> QED BY <2>1 DEF KeyInv, Quiet, KeyPc, ReplayKeyPc, RebuildPc
<1> QED BY <1>3, <1>4, <1>5, <1>6, <1>7 DEF KeyInv

\* The steps that handle no key.
KeylessStep(p) ==
  \/ StartIngest(p) \/ StartReplay(p) \/ TryLock(p, "try_lock", "open")
  \/ TryLock(p, "r_try_lock", "r_source") \/ ReadBudget(p)
  \/ StepTake(p) \/ StepRecord(p) \/ StepBeat(p) \/ StepFetch(p) \/ StepsDone(p)
  \/ PlanBatches(p) \/ TakeBatch(p) \/ RecordBatch(p) \/ Fetch(p)
  \/ Predict(p) \/ CloseRun(p) \/ ReplayFail(p) \/ Release(p)
  \/ StatementFails(p) \/ SessionEnds(p) \/ Crash(p)

\* They are quiet.
LEMMA KeylessIsQuiet ==
  ASSUME TypeInv, NEW p \in Proc, KeylessStep(p) PROVE Quiet
<1> USE DEF TypeInv, TypeOK, RunKnown, ProcState, RunRow, StepPc, PricePc, HasRun,
            KeyPc, ReplayKeyPc, At, Go, Quiet
<1>1. CASE StartIngest(p)
  BY <1>1 DEF StartIngest, Reaped
<1>2. CASE StartReplay(p)
  BY <1>2 DEF StartReplay
<1>3. CASE TryLock(p, "try_lock", "open")
  BY <1>3 DEF TryLock
<1>4. CASE TryLock(p, "r_try_lock", "r_source")
  BY <1>4 DEF TryLock
<1>5. CASE ReadBudget(p)
  BY <1>5 DEF ReadBudget
<1>6. CASE StepTake(p)
  BY <1>6 DEF StepTake
<1>7. CASE StepRecord(p)
  BY <1>7 DEF StepRecord
<1>8. CASE StepBeat(p)
  BY <1>8 DEF StepBeat, Beat
<1>9. CASE StepFetch(p)
  BY <1>9 DEF StepFetch, Degrade
<1>10. CASE StepsDone(p)
  BY <1>10 DEF StepsDone, Degrade
<1>11. CASE PlanBatches(p)
  <2>1. archive' = archive /\ polled' = polled /\ owner' = owner
    BY <1>11 DEF PlanBatches
  <2>2. row' = row \/ \E n \in Affordable(p) : row' = [row EXCEPT ![proc[p].run].due = n]
    BY ONLY <1>11 DEF PlanBatches
  <2>3. \A r \in RunId : row'[r].keys = row[r].keys
    <3>1. row \in [RunId -> RunRow]
      OBVIOUS
    <3>2. CASE row' = row
      BY <3>2
    <3>3. CASE \E n \in Affordable(p) : row' = [row EXCEPT ![proc[p].run].due = n]
      <4>1. PICK n \in Affordable(p) : row' = [row EXCEPT ![proc[p].run].due = n]
        BY <3>3
      <4>2. \A r \in RunId : row'[r] = row[r] \/ row'[r] = [row[r] EXCEPT !.due = n]
        BY ONLY <3>1, <4>1
      <4> QED BY ONLY <3>1, <4>2 DEF RunRow
    <3> QED BY <2>2, <3>2, <3>3
  <2>4. /\ \A r \in RunId : row'[r].status = row[r].status
        /\ \A q \in Proc : proc'[q].pc \in KeyPc => proc'[q] = proc[q]
    BY <1>11, PlanFrame
  <2> QED BY <2>1, <2>3, <2>4
<1>12. CASE TakeBatch(p)
  BY <1>12 DEF TakeBatch, Beat
<1>13. CASE RecordBatch(p)
  BY <1>13 DEF RecordBatch
<1>14. CASE Fetch(p)
  BY <1>14 DEF Fetch, Degrade, EndBatch, NextBatch
<1>15. CASE Predict(p)
  BY <1>15 DEF Predict
<1>16. CASE CloseRun(p)
  BY <1>16 DEF CloseRun, RunStatus, CloseRow, Return, IdleProc
<1>17. CASE ReplayFail(p)
  BY <1>17 DEF ReplayFail, CloseRow, Return, IdleProc
<1>18. CASE Release(p)
  BY <1>18 DEF Release, IdleProc
<1>19. CASE StatementFails(p)
  <2>1. archive' = archive /\ polled' = polled /\ owner' = owner /\ row' = row
    BY <1>19 DEF StatementFails
  <2>2. \A q \in Proc : proc'[q].pc \in KeyPc => proc'[q] = proc[q]
    <3>1. CASE Return(p)
      BY <3>1, ReturnFrame
    <3>2. CASE ~Return(p)
      BY <1>19, <3>2 DEF StatementFails
    <3> QED BY <3>1, <3>2
  <2> QED BY <2>1, <2>2
<1>20. CASE SessionEnds(p)
  BY <1>20 DEF SessionEnds
<1>21. CASE Crash(p)
  BY <1>21 DEF Crash, IdleProc
<1> QED BY <1>1, <1>2, <1>3, <1>4, <1>5, <1>6, <1>7, <1>8, <1>9, <1>10, <1>11, <1>12, <1>13, <1>14, <1>15, <1>16, <1>17, <1>18, <1>19, <1>20, <1>21 DEF KeylessStep

\* What is secured stays so, as long as no object and no key is removed.
LEMMA StaysSecured ==
  ASSUME TypeInv, archive \subseteq archive',
         \A r \in RunId : row[r].keys \subseteq row'[r].keys
  PROVE  \A k \in Key : Secured(k) => Secured(k)'
BY KeyRun DEF Secured

\* A new row lists nothing, and a replay that opens its row keeps its keys.
LEMMA OpenKeys ==
  ASSUME TypeInv, KeyInv, NEW p \in Proc,
         OpenRun(p, "open", "budget", "ingest")
           \/ OpenRun(p, "r_open", "r_replace", "replay")
  PROVE  KeyInv'
<1>1. /\ archive' = archive /\ polled' = polled /\ owner' = owner
  BY DEF OpenRun
<1>2. \A r \in RunId : /\ row'[r].keys = row[r].keys
                       /\ row'[r].status = "none" => row[r].status = "none"
  <2>1. PICK o \in RunId, kind \in Kind :
          /\ row[o].status = "none"
          /\ row' = [row EXCEPT ![o] = [NoRow EXCEPT !.status = "running",
                                         !.kind = kind, !.day = day]]
    BY DEF OpenRun, Kind
  <2>2. row \in [RunId -> RunRow] /\ row[o].keys = {}
    BY <2>1 DEF KeyInv, TypeInv, TypeOK
  <2>3. row'[o].keys = {} /\ row'[o].status = "running"
    BY <2>1, <2>2 DEF NoRow
  <2>4. \A r \in RunId : r # o => row'[r] = row[r]
    BY <2>1, <2>2
  <2> QED BY <2>2, <2>3, <2>4
<1>3. \A q \in Proc : /\ proc'[q].pc \in {"key", "store"} => proc'[q] = proc[q]
                      /\ proc'[q].pc \in ReplayKeyPc =>
                           proc[q].pc \in ReplayKeyPc /\ proc'[q].keys = proc[q].keys
  BY DEF OpenRun, At, ReplayKeyPc, TypeInv, TypeOK, ProcState
<1>4. \A k \in Key : Secured(k) => Secured(k)'
  BY <1>1, <1>2, StaysSecured
<1>5. ArchiveBeforeRows'
  BY <1>1, <1>4, KeyRun DEF KeyInv, ArchiveBeforeRows, Secured
<1>6. /\ \A r \in RunId : row'[r].status = "none" => row'[r].keys = {}
      /\ \A r \in RunId : \A k \in row'[r].keys : Secured(k)'
  BY <1>2, <1>4, KeyRun DEF KeyInv
<1>7. /\ \A q \in Proc : proc'[q].pc = "key" => BatchKey(q)' \in archive'
      /\ \A q \in Proc : proc'[q].pc = "store" => Secured(BatchKey(q))'
  <2>1. \A q \in Proc : proc[q].pc = "store" => BatchKey(q) \in Key
    BY Names DEF HasRun, PricePc
  <2>2. \A q \in Proc : proc'[q].pc \in {"key", "store"} =>
          proc[q].pc = proc'[q].pc /\ BatchKey(q)' = BatchKey(q)
    BY <1>3 DEF BatchKey
  <2> QED BY <1>1, <1>4, <2>1, <2>2 DEF KeyInv, Secured
<1>8. \A q \in Proc : proc'[q].pc \in ReplayKeyPc => \A k \in proc'[q].keys : Secured(k)'
  BY <1>3, <1>4, KeyRun DEF KeyInv
<1>9. \A q \in Proc : proc'[q].pc \in RebuildPc => row'[proc'[q].run].keys = {}
  <2>1. \A q \in Proc : proc'[q].pc \in RebuildPc =>
          \/ proc'[q] = proc[q]
          \/ proc'[q].run \in RunId /\ row[proc'[q].run].status = "none"
    BY DEF OpenRun, RebuildPc, TypeInv, TypeOK, ProcState
  <2>2. \A q \in Proc : proc[q].pc \in RebuildPc => proc[q].run \in RunId
    BY DEF TypeInv, RunKnown, RebuildPc, HasRun
  <2> QED BY <1>2, <2>1, <2>2 DEF KeyInv
<1> QED BY <1>5, <1>6, <1>7, <1>8, <1>9 DEF KeyInv

\* One process moves and none of the others is touched; nothing is stored.
OnlyMoves(p) ==
  /\ polled' = polled /\ owner' = owner
  /\ archive \subseteq archive'
  /\ \A r \in RunId : /\ row[r].keys \subseteq row'[r].keys
                      /\ row'[r].status = row[r].status
  /\ \A q \in Proc : q # p => proc'[q] = proc[q]

\* What the others had in hand is still secured after such a step.
LEMMA OthersKeys ==
  ASSUME TypeInv, KeyInv, NEW p \in Proc, OnlyMoves(p)
  PROVE  /\ ArchiveBeforeRows'
         /\ \A r \in RunId : \A k \in row[r].keys : Secured(k)'
         /\ \A q \in Proc : q # p /\ proc'[q].pc = "key" => BatchKey(q)' \in archive'
         /\ \A q \in Proc : q # p /\ proc'[q].pc = "store" => Secured(BatchKey(q))'
         /\ \A q \in Proc : q # p /\ proc'[q].pc \in ReplayKeyPc =>
              \A k \in proc'[q].keys : Secured(k)'
<1>1. \A k \in Key : Secured(k) => Secured(k)'
  BY StaysSecured DEF OnlyMoves
<1>2. ArchiveBeforeRows'
  BY <1>1, KeyRun DEF OnlyMoves, KeyInv, ArchiveBeforeRows, Secured
<1>3. \A q \in Proc : proc[q].pc = "store" => BatchKey(q) \in Key
  BY Names DEF HasRun, PricePc
<1>4. \A q \in Proc : q # p => proc'[q] = proc[q] /\ BatchKey(q)' = BatchKey(q)
  BY DEF OnlyMoves, BatchKey
<1>5. \A r \in RunId : \A k \in row[r].keys : Secured(k)'
  BY <1>1, KeyRun DEF KeyInv
<1>6. /\ \A q \in Proc : q # p /\ proc'[q].pc = "key" => BatchKey(q)' \in archive'
      /\ \A q \in Proc : q # p /\ proc'[q].pc = "store" => Secured(BatchKey(q))'
  BY <1>1, <1>3, <1>4 DEF KeyInv, OnlyMoves
<1>7. \A q \in Proc : q # p /\ proc'[q].pc \in ReplayKeyPc =>
        \A k \in proc'[q].keys : Secured(k)'
  BY <1>1, <1>4, KeyRun DEF KeyInv
<1> QED BY <1>2, <1>5, <1>6, <1>7

\* The key is recorded of an object that is there.
LEMMA PutKeys ==
  ASSUME TypeInv, KeyInv, NEW p \in Proc, ArchivePut(p) PROVE KeyInv'
<1>1. CASE archive' = archive \cup {BatchKey(p)} /\ Go(p, "key")
  <2>1. OnlyMoves(p)
    BY <1>1, GoFrame DEF ArchivePut, OnlyMoves
  <2>2. row' = row /\ proc'[p].pc = "key" /\ BatchKey(p)' \in archive'
    <3>1. proc'[p].pc = "key" /\ BatchKey(p)' = BatchKey(p)
      BY <1>1 DEF Go, BatchKey, TypeInv, TypeOK, ProcState
    <3> QED BY <1>1, <3>1 DEF ArchivePut
  <2> QED BY <2>1, <2>2, OthersKeys DEF KeyInv, ReplayKeyPc, RebuildPc, OnlyMoves
<1>2. CASE archive' \in {archive, archive \cup {BatchKey(p)}} /\ EndBatch(p, TRUE)
  <2>1. Quiet
    BY <1>2 DEF ArchivePut, EndBatch, NextBatch, Quiet, KeyPc, ReplayKeyPc,
                TypeInv, TypeOK, ProcState
  <2> QED BY <2>1, QuietKeys
<1> QED BY <1>1, <1>2 DEF ArchivePut

\* The key is recorded in the row of the run that fetched the payload.
LEMMA RecordKeys ==
  ASSUME TypeInv, LockInv, RowInv, KeyInv, NEW p \in Proc, RecordKey(p) PROVE KeyInv'
<1> DEFINE k == BatchKey(p)
<1>1. /\ proc[p].pc = "key" /\ proc[p].run \in RunId /\ row \in [RunId -> RunRow]
      /\ k \in archive /\ k[1] = proc[p].run
  BY DEF RecordKey, At, KeyInv, TypeInv, TypeOK, RunKnown, HasRun, PricePc, BatchKey
<1>2. /\ \A r \in RunId : /\ row[r].keys \subseteq row'[r].keys
                          /\ row'[r].keys \subseteq row[r].keys \cup {k}
                          /\ row'[r].status = row[r].status
      /\ k \in row'[proc[p].run].keys
      /\ \A r \in RunId : r # proc[p].run => row'[r] = row[r]
  BY <1>1 DEF RecordKey, RunRow
<1>3. OnlyMoves(p)
  BY <1>2, GoFrame DEF RecordKey, OnlyMoves
<1>4. proc'[p].pc = "store" /\ BatchKey(p)' = k
  BY DEF RecordKey, Go, BatchKey, TypeInv, TypeOK, ProcState
<1>5. k \in archive' /\ k \in row'[k[1]].keys
  BY <1>1, <1>2 DEF RecordKey
<1>6. \A r \in RunId : row'[r].status = "none" => row'[r].keys = {}
  <2>1. row[proc[p].run].status # "none"
    BY <1>1 DEF RowInv, HasRun, PricePc
  <2> QED BY <1>2, <2>1 DEF KeyInv
<1>7. \A r \in RunId : \A l \in row'[r].keys : Secured(l)'
  BY <1>2, <1>3, <1>5, OthersKeys DEF Secured
<1>8. Secured(BatchKey(p))'
  BY <1>4, <1>5 DEF Secured
<1>9. \A q \in Proc : proc'[q].pc \notin RebuildPc
  <2>1. \A q \in Proc : q # p => proc[q].pc \notin Working
    BY <1>1 DEF LockInv, Working, IngestPc, PricePc
  <2> QED BY <1>3, <1>4, <2>1 DEF OnlyMoves, RebuildPc, Working, ReplayPc
<1> QED BY <1>3, <1>4, <1>6, <1>7, <1>8, <1>9, OthersKeys DEF KeyInv, ReplayKeyPc

\* What is stored was secured before.
LEMMA StoreKeys ==
  ASSUME TypeInv, KeyInv, NEW p \in Proc, StoreBatch(p) PROVE KeyInv'
<1>1. /\ archive' = archive /\ row' = row
      /\ polled' \subseteq polled \cup {BatchKey(p)}
      /\ DOMAIN owner' \subseteq DOMAIN owner \cup {BatchKey(p)}
  BY DEF StoreBatch
<1>2. Secured(BatchKey(p)) /\ BatchKey(p) \in Key
  BY Names DEF StoreBatch, At, KeyInv, HasRun, PricePc
<1>3. ArchiveBeforeRows'
  BY <1>1, <1>2 DEF KeyInv, ArchiveBeforeRows, Secured
<1>4. \A q \in Proc : proc'[q].pc \in KeyPc => proc'[q] = proc[q]
  BY DEF StoreBatch, EndBatch, NextBatch, KeyPc, ReplayKeyPc, TypeInv, TypeOK, ProcState
<1>5. \A q \in Proc : proc'[q].pc \in KeyPc =>
        proc[q].pc = proc'[q].pc /\ BatchKey(q)' = BatchKey(q) /\ proc'[q].keys = proc[q].keys
  BY <1>4 DEF BatchKey
<1>6. \A q \in Proc : proc'[q].pc \in RebuildPc => row'[proc'[q].run].keys = {}
  BY <1>1, <1>4 DEF KeyInv, KeyPc, ReplayKeyPc, RebuildPc
<1>7. \A k : Secured(k)' <=> Secured(k)
  BY <1>1 DEF Secured
<1>8. /\ \A r \in RunId : row'[r].status = "none" => row'[r].keys = {}
      /\ \A r \in RunId : \A k \in row'[r].keys : Secured(k)'
  BY <1>1, <1>7 DEF KeyInv
<1>9. /\ \A q \in Proc : proc'[q].pc = "key" => BatchKey(q)' \in archive'
      /\ \A q \in Proc : proc'[q].pc = "store" => Secured(BatchKey(q))'
      /\ \A q \in Proc : proc'[q].pc \in ReplayKeyPc => \A k \in proc'[q].keys : Secured(k)'
  BY <1>1, <1>5, <1>7 DEF KeyInv, KeyPc, Secured
<1> QED BY <1>3, <1>6, <1>8, <1>9 DEF KeyInv

\* A replay takes its keys from a row, where they are secured.
LEMMA SourceKeys ==
  ASSUME TypeInv, KeyInv, NEW p \in Proc, ReplaySource(p) PROVE KeyInv'
<1>1. archive' = archive /\ row' = row /\ polled' = polled /\ owner' = owner
  BY DEF ReplaySource
<1>2. CASE Return(p)
  <2>1. Quiet
    BY <1>1, <1>2, ReturnFrame DEF Quiet, KeyPc, ReplayKeyPc
  <2> QED BY <2>1, QuietKeys
<1>3. ASSUME NEW o \in RunId,
             proc' = [proc EXCEPT ![p].pc = "r_open", ![p].orig = o,
                                  ![p].keys = row[o].keys]
      PROVE  KeyInv'
  <2>1. /\ proc'[p].pc = "r_open" /\ proc'[p].keys = row[o].keys
        /\ \A q \in Proc : q # p => proc'[q] = proc[q]
    BY <1>3 DEF TypeInv, TypeOK, ProcState
  <2>2. OnlyMoves(p)
    BY <1>1, <2>1 DEF OnlyMoves
  <2>3. \A k \in row[o].keys : Secured(k)'
    BY <2>2, OthersKeys
  <2> QED BY <1>1, <2>1, <2>2, <2>3, OthersKeys DEF KeyInv, RebuildPc
<1> QED BY <1>2, <1>3 DEF ReplaySource

\* What a replay writes comes from its keys.
LEMMA ReplaceKeys ==
  ASSUME TypeInv, KeyInv, NEW p \in Proc, ReplayReplace(p) PROVE KeyInv'
<1>1. archive' = archive /\ row' = row /\ polled' = polled
  BY DEF ReplayReplace
<1>2. DOMAIN owner' \subseteq DOMAIN owner \cup proc[p].keys
  BY DEF ReplayReplace, SwapRows, Insertable
<1>3. \A k \in proc[p].keys : Secured(k)
  BY DEF ReplayReplace, At, KeyInv, ReplayKeyPc
<1>4. ArchiveBeforeRows'
  BY <1>1, <1>2, <1>3 DEF KeyInv, ArchiveBeforeRows, Secured
<1>5. \A q \in Proc : /\ proc'[q].pc \in {"key", "store"} => proc'[q] = proc[q]
                      /\ proc'[q].pc \in ReplayKeyPc =>
                           proc[q].pc \in ReplayKeyPc /\ proc'[q].keys = proc[q].keys
  BY DEF ReplayReplace, At, Go, ReplayKeyPc, TypeInv, TypeOK, ProcState
<1>6. \A q \in Proc : proc'[q].pc \in {"key", "store"} =>
        proc[q].pc = proc'[q].pc /\ BatchKey(q)' = BatchKey(q)
  BY <1>5 DEF BatchKey
<1>7. \A q \in Proc : proc'[q].pc \in RebuildPc =>
        proc[q].pc \in RebuildPc /\ proc'[q].run = proc[q].run
  BY DEF ReplayReplace, At, Go, RebuildPc, TypeInv, TypeOK, ProcState
<1>8. \A k : Secured(k)' <=> Secured(k)
  BY <1>1 DEF Secured
<1>9. /\ \A r \in RunId : row'[r].status = "none" => row'[r].keys = {}
      /\ \A r \in RunId : \A k \in row'[r].keys : Secured(k)'
      /\ \A q \in Proc : proc'[q].pc \in RebuildPc => row'[proc'[q].run].keys = {}
  BY <1>1, <1>7, <1>8 DEF KeyInv
<1>10. /\ \A q \in Proc : proc'[q].pc = "key" => BatchKey(q)' \in archive'
       /\ \A q \in Proc : proc'[q].pc = "store" => Secured(BatchKey(q))'
       /\ \A q \in Proc : proc'[q].pc \in ReplayKeyPc => \A k \in proc'[q].keys : Secured(k)'
  BY <1>1, <1>5, <1>6, <1>8 DEF KeyInv, Secured
<1> QED BY <1>4, <1>9, <1>10 DEF KeyInv

\* The replacement lists what the replay read.
LEMMA CloseKeys ==
  ASSUME TypeInv, LockInv, RowInv, KeyInv, NEW p \in Proc, ReplayClose(p) PROVE KeyInv'
<1>1. /\ archive' = archive /\ polled' = polled /\ owner' = owner
      /\ proc[p].pc = "r_close" /\ proc[p].run \in RunId
      /\ row[proc[p].run].status # "none" /\ row \in [RunId -> RunRow]
  BY DEF ReplayClose, At, RowInv, TypeInv, TypeOK, RunKnown, HasRun
<1>2. \A k \in proc[p].keys : Secured(k)
  BY <1>1 DEF KeyInv, ReplayKeyPc
<1>3. /\ proc'[p].pc \notin KeyPc
      /\ \A q \in Proc : q # p => proc'[q] = proc[q]
  <2>1. CASE Return(p)
    BY <2>1, ReturnFrame DEF KeyPc, ReplayKeyPc
  <2>2. CASE Go(p, "r_fail")
    BY <2>2, GoFrame DEF KeyPc, ReplayKeyPc
  <2> QED BY <2>1, <2>2 DEF ReplayClose
<1>4. CASE row' = row
  <2>1. Quiet
    BY <1>1, <1>3, <1>4 DEF Quiet
  <2> QED BY <2>1, QuietKeys
<1>5. CASE ReplayClosed(p)
  <2>1. /\ row'[proc[p].run].keys = proc[p].keys /\ row'[proc[p].run].status = "ok"
        /\ row[proc[p].run].keys = {}
        /\ \A r \in RunId : r # proc[p].run => row'[r] = row[r]
    BY <1>1, <1>5 DEF ReplayClosed, RunRow, KeyInv, RebuildPc
  <2>2. \A k \in Key : Secured(k) => Secured(k)'
    BY <1>1, <2>1, StaysSecured
  <2>3. ArchiveBeforeRows'
    BY <1>1, <2>2, KeyRun DEF KeyInv, ArchiveBeforeRows, Secured
  <2>4. /\ \A r \in RunId : row'[r].status = "none" => row'[r].keys = {}
        /\ \A r \in RunId : \A k \in row'[r].keys : Secured(k)'
    BY <1>2, <2>1, <2>2, KeyRun DEF KeyInv
  <2>5. \A q \in Proc : proc'[q].pc \notin KeyPc
    <3>1. \A q \in Proc : q # p => proc[q].pc \notin Working
      BY <1>1 DEF LockInv, Working, ReplayPc
    <3> QED BY <1>3, <3>1 DEF KeyPc, ReplayKeyPc, Working, IngestPc, PricePc, ReplayPc
  <2> QED BY <2>3, <2>4, <2>5 DEF KeyInv, KeyPc, ReplayKeyPc, RebuildPc
<1> QED BY <1>4, <1>5 DEF ReplayClose

\* Nothing is archived, recorded, stored or replayed when the system starts.
LEMMA InitKeys == Init => KeyInv
BY DEF Init, KeyInv, ArchiveBeforeRows, Secured, IdleProc, NoRow, ReplayKeyPc, RebuildPc

\* Every step keeps what is secured and secures what it stores.
LEMMA StepKeys ==
  TypeInv /\ LockInv /\ RowInv /\ KeyInv /\ [Next]_vars => KeyInv'
<1> SUFFICES ASSUME TypeInv, LockInv, RowInv, KeyInv, [Next]_vars PROVE KeyInv'
  OBVIOUS
<1>1. ASSUME NEW p \in Proc, KeylessStep(p) PROVE KeyInv'
  BY <1>1, KeylessIsQuiet, QuietKeys
<1>2. ASSUME NEW p \in Proc,
             OpenRun(p, "open", "budget", "ingest")
               \/ OpenRun(p, "r_open", "r_replace", "replay")
      PROVE  KeyInv'
  BY <1>2, OpenKeys
<1>3. ASSUME NEW p \in Proc, ArchivePut(p) \/ RecordKey(p) \/ StoreBatch(p) PROVE KeyInv'
  BY <1>3, PutKeys, RecordKeys, StoreKeys
<1>4. ASSUME NEW p \in Proc, ReplaySource(p) \/ ReplayReplace(p) \/ ReplayClose(p)
      PROVE  KeyInv'
  BY <1>4, SourceKeys, ReplaceKeys, CloseKeys
<1>5. CASE Hour
  <2>1. Quiet
    BY <1>5 DEF Hour, Quiet, TypeInv, TypeOK, RunRow
  <2> QED BY <2>1, QuietKeys
<1>6. CASE Midnight \/ UNCHANGED vars
  <2>1. Quiet
    BY <1>6 DEF Midnight, vars, Quiet
  <2> QED BY <2>1, QuietKeys
<1> QED BY <1>1, <1>2, <1>3, <1>4, <1>5, <1>6
        DEF Next, Advance, Ingest, Replay, KeylessStep

\* Whatever is killed or fails at any point, nothing in the ledger comes from a
\* payload that is not in the archive or that its run does not list.
THEOREM ArchivedBeforeStored == Spec => []ArchiveBeforeRows
<1>1. Spec => [](TypeInv /\ LockInv /\ RowInv)
  <2>1. Spec => []IInv
    BY InitIInv, StepIInv, PTL DEF Spec
  <2> QED BY <2>1, PTL DEF IInv
<1>2. Spec => []KeyInv
  BY <1>1, InitKeys, StepKeys, PTL DEF Spec
<1>3. KeyInv => ArchiveBeforeRows
  BY DEF KeyInv
<1> QED BY <1>2, <1>3, PTL

(***************************************************************************)
(* The run an observation is filed under lists its payload                 *)
(***************************************************************************)

\* A replacement that was not closed ok.
Unclosed(r) == row[r].kind = "replay" /\ row[r].status \in {"running", "abandoned", "failed"}

\* Nothing is filed under a replacement before its swap, and afterwards only what
\* the replay read; the replacement is then still open.
OwnerInv ==
  /\ RowsReplayable
  /\ \A k \in DOMAIN owner : row[owner[k]].status # "none"
  /\ \A p \in Proc : proc[p].pc \in RebuildPc =>
       row[proc[p].run].status \in {"running", "abandoned"}
  /\ \A p \in Proc : proc[p].pc = "r_replace" =>
       \A k \in DOMAIN owner : owner[k] # proc[p].run
  /\ \A p \in Proc : proc[p].pc = "r_close" =>
       \A k \in DOMAIN owner : owner[k] = proc[p].run => k \in proc[p].keys

\* The rows keep their keys, and no run but a replacement ends.
MildStep ==
  /\ owner' = owner
  /\ \A r \in RunId : /\ row[r].keys \subseteq row'[r].keys
                      /\ row'[r].kind = row[r].kind
                      /\ row'[r].status = "none" => row[r].status = "none"
                      /\ Unclosed(r) => Unclosed(r)'
  /\ \A q \in Proc : proc'[q].pc \in RebuildPc =>
       /\ proc'[q] = proc[q]
       /\ \/ row'[proc[q].run].status = row[proc[q].run].status
          \/ row'[proc[q].run].status = "abandoned"

\* Such a step keeps the invariant.
LEMMA MildKeeps ==
  ASSUME TypeInv, OwnerInv, MildStep PROVE OwnerInv'
<1>1. \A k \in DOMAIN owner : owner[k] \in RunId
  BY DEF TypeInv, TypeOK
<1>2. RowsReplayable'
  BY <1>1 DEF MildStep, OwnerInv, RowsReplayable, Unclosed
<1>3. \A k \in DOMAIN owner' : row'[owner'[k]].status # "none"
  BY <1>1 DEF MildStep, OwnerInv
<1>4. /\ \A q \in Proc : proc'[q].pc \in RebuildPc =>
           row'[proc'[q].run].status \in {"running", "abandoned"}
      /\ \A q \in Proc : proc'[q].pc = "r_replace" =>
           \A k \in DOMAIN owner' : owner'[k] # proc'[q].run
      /\ \A q \in Proc : proc'[q].pc = "r_close" =>
           \A k \in DOMAIN owner' : owner'[k] = proc'[q].run => k \in proc'[q].keys
  BY DEF MildStep, OwnerInv, RebuildPc
<1> QED BY <1>2, <1>3, <1>4 DEF OwnerInv

\* A quiet step that ends nothing is mild.
LEMMA QuietIsMild ==
  ASSUME TypeInv, Quiet, EndsNothing PROVE MildStep
<1>1. \A q \in Proc : proc'[q].pc \in RebuildPc => proc'[q] = proc[q] /\ proc[q].run \in RunId
  BY DEF Quiet, KeyPc, ReplayKeyPc, RebuildPc, TypeInv, RunKnown, HasRun
<1> QED BY <1>1 DEF Quiet, EndsNothing, MildStep, Unclosed

\* The steps of one process that file nothing and open no row.
LEMMA MildSteps ==
  ASSUME TypeInv, LockInv, OpenInv, OwnerInv, KeyInv, NEW p \in Proc,
         \/ IdleStep(p) /\ ~StoreBatch(p) /\ ~ReplayReplace(p)
         \/ CloseRun(p) \/ ReplayFail(p)
  PROVE  MildStep
<1>1. CASE IdleStep(p) /\ KeylessStep(p)
  BY <1>1, IdleEndsNothing, KeylessIsQuiet, QuietIsMild
<1>2. CASE ArchivePut(p) \/ RecordKey(p) \/ ReplaySource(p)
  <2>1. EndsNothing
    BY <1>2, IdleEndsNothing DEF IdleStep
  <2>2. owner' = owner
    BY <1>2 DEF ArchivePut, RecordKey, ReplaySource
  <2>3. \A r \in RunId : row[r].keys \subseteq row'[r].keys
    <3>1. CASE RecordKey(p)
      BY <3>1 DEF RecordKey, TypeInv, TypeOK, RunRow
    <3>2. CASE ArchivePut(p) \/ ReplaySource(p)
      BY <3>2 DEF ArchivePut, ReplaySource
    <3> QED BY <1>2, <3>1, <3>2
  <2>4. \A q \in Proc : proc'[q].pc \notin RebuildPc
    <3>1. proc[p].pc \in Working
      BY <1>2 DEF ArchivePut, RecordKey, ReplaySource, At, Working, IngestPc, PricePc, ReplayPc
    <3>2. \A q \in Proc : q # p => proc[q].pc \notin Working
      BY <3>1 DEF LockInv
    <3>3. \A q \in Proc : q # p => proc'[q] = proc[q]
      BY <1>2 DEF ArchivePut, RecordKey, ReplaySource, Go, EndBatch, Return, TypeInv, TypeOK
    <3>4. proc'[p].pc \notin RebuildPc
      BY <2>1, <1>2 DEF EndsNothing, NobodyEnters, RebuildPc, ReplayOpen, ArchivePut,
                        RecordKey, ReplaySource, At
    <3> QED BY <3>2, <3>3, <3>4 DEF RebuildPc, Working, ReplayPc
  <2> QED BY <2>1, <2>2, <2>3, <2>4 DEF MildStep, EndsNothing, Unclosed
<1>3. CASE CloseRun(p) \/ ReplayFail(p)
  <2>1. /\ owner' = owner /\ proc[p].run \in RunId /\ row \in [RunId -> RunRow]
        /\ proc[p].pc \in {"close", "r_fail"}
    BY <1>3 DEF CloseRun, ReplayFail, At, TypeInv, TypeOK, RunKnown, HasRun
  <2>2. \A q \in Proc : proc'[q].pc \notin RebuildPc
    <3>1. \A q \in Proc : q # p => proc[q].pc \notin Working
      BY <2>1 DEF LockInv, Working, IngestPc, ReplayPc
    <3> QED BY <1>3, <3>1, ReturnFrame DEF CloseRun, ReplayFail, RebuildPc, Working, ReplayPc
  <2>3. /\ \A r \in RunId : r # proc[p].run => row'[r] = row[r]
        /\ row'[proc[p].run].keys = row[proc[p].run].keys
        /\ row'[proc[p].run].kind = row[proc[p].run].kind
        /\ row'[proc[p].run].status \in Ended
        /\ ReplayFail(p) => row'[proc[p].run].status = "failed"
    <3>1. CASE CloseRun(p)
      <4>1. PICK s \in Ended : row' = [row EXCEPT ![proc[p].run].status = s]
        BY <3>1 DEF CloseRun, CloseRow, RunStatus, Ended
      <4>2. ~ReplayFail(p)
        BY <3>1 DEF CloseRun, ReplayFail, At
      <4> QED BY <2>1, <4>1, <4>2 DEF RunRow
    <3>2. CASE ReplayFail(p)
      BY <2>1, <3>2 DEF ReplayFail, CloseRow, RunRow, Ended
    <3> QED BY <1>3, <3>1, <3>2
  <2>4. CloseRun(p) => ~Unclosed(proc[p].run)
    BY DEF CloseRun, At, OpenInv, IngestOpen, Unclosed
  <2> QED BY <1>3, <2>1, <2>2, <2>3, <2>4 DEF MildStep, Unclosed, Ended
<1> QED BY <1>1, <1>2, <1>3 DEF IdleStep, KeylessStep

\* Nothing is filed under a row that was just opened.
LEMMA OpenOwner ==
  ASSUME TypeInv, LockInv, KeyInv, OwnerInv, NEW p \in Proc,
         OpenRun(p, "open", "budget", "ingest")
           \/ OpenRun(p, "r_open", "r_replace", "replay")
  PROVE  OwnerInv'
<1>1. PICK o \in RunId, kind \in {"ingest", "replay"} :
        /\ row[o].status = "none"
        /\ row' = [row EXCEPT ![o] = [NoRow EXCEPT !.status = "running",
                                       !.kind = kind, !.day = day]]
        /\ proc' = [proc EXCEPT ![p].pc = IF kind = "ingest" THEN "budget" ELSE "r_replace",
                                ![p].run = o]
  BY DEF OpenRun
<1>2. /\ proc \in [Proc -> ProcState] /\ row \in [RunId -> RunRow]
      /\ proc[p].pc \in Working /\ owner' = owner
      /\ \A k \in DOMAIN owner : owner[k] \in RunId
  BY DEF OpenRun, At, TypeInv, TypeOK, Working, IngestPc, ReplayPc
<1>3. /\ row'[o].status = "running"
      /\ \A r \in RunId : r # o => row'[r] = row[r]
  BY <1>1, <1>2 DEF NoRow
<1>4. /\ proc'[p].pc \in {"budget", "r_replace"} /\ proc'[p].run = o
      /\ \A q \in Proc : q # p => proc'[q] = proc[q]
  BY <1>1, <1>2 DEF ProcState
<1>5. \A q \in Proc : proc'[q].pc \in RebuildPc => q = p /\ proc'[q].pc = "r_replace"
  <2>1. \A q \in Proc : q # p => proc[q].pc \notin RebuildPc
    BY <1>2 DEF LockInv, RebuildPc, Working, ReplayPc
  <2> QED BY <1>4, <2>1 DEF RebuildPc
<1>6. \A k \in DOMAIN owner : owner[k] # o
  BY <1>1 DEF OwnerInv
<1>7. RowsReplayable' /\ \A k \in DOMAIN owner' : row'[owner'[k]].status # "none"
  BY <1>2, <1>3, <1>6 DEF OwnerInv, RowsReplayable
<1>8. /\ \A q \in Proc : proc'[q].pc \in RebuildPc =>
           row'[proc'[q].run].status \in {"running", "abandoned"}
      /\ \A q \in Proc : proc'[q].pc = "r_replace" =>
           \A k \in DOMAIN owner' : owner'[k] # proc'[q].run
      /\ \A q \in Proc : proc'[q].pc # "r_close"
  BY <1>2, <1>3, <1>4, <1>5, <1>6 DEF RebuildPc
<1> QED BY <1>7, <1>8 DEF OwnerInv

\* A batch is filed under the run that listed its key.
LEMMA StoreOwner ==
  ASSUME TypeInv, LockInv, RowInv, KeyInv, OwnerInv, NEW p \in Proc, StoreBatch(p)
  PROVE  OwnerInv'
<1> DEFINE k == BatchKey(p)
<1>1. /\ proc[p].pc = "store" /\ proc[p].run \in RunId /\ row' = row
      /\ row[proc[p].run].status # "none" /\ k \in row[proc[p].run].keys
  BY DEF StoreBatch, At, TypeInv, RunKnown, HasRun, PricePc, RowInv, KeyInv, Secured, BatchKey
<1>2. \A l \in DOMAIN owner' : \/ l = k /\ owner'[l] = proc[p].run
                               \/ l \in DOMAIN owner /\ owner'[l] = owner[l]
  <2> HIDE DEF k
  <2>1. CASE owner' = owner
    BY <2>1
  <2>2. CASE owner' = [l \in DOMAIN owner \cup {k} |->
                         IF l = k THEN proc[p].run ELSE owner[l]]
    BY <2>2
  <2>3. \/ owner' = owner
        \/ owner' = [l \in DOMAIN owner \cup {k} |->
                       IF l = k THEN proc[p].run ELSE owner[l]]
    BY DEF StoreBatch, k
  <2> QED BY <2>1, <2>2, <2>3
<1>3. \A q \in Proc : proc'[q].pc \notin RebuildPc
  <2>1. \A q \in Proc : q # p => proc[q].pc \notin Working
    BY <1>1 DEF LockInv, Working, IngestPc, PricePc
  <2>2. \A q \in Proc : proc'[q].pc \in KeyPc => proc'[q] = proc[q]
    BY DEF StoreBatch, EndBatch, NextBatch, KeyPc, ReplayKeyPc, TypeInv, TypeOK, ProcState
  <2> QED BY <1>1, <2>1, <2>2 DEF RebuildPc, KeyPc, ReplayKeyPc, Working, ReplayPc
<1>4. RowsReplayable' /\ \A l \in DOMAIN owner' : row'[owner'[l]].status # "none"
  BY <1>1, <1>2 DEF OwnerInv, RowsReplayable
<1> QED BY <1>3, <1>4 DEF OwnerInv, RebuildPc

\* A swap files under the replacement what the replay read, and no more.
LEMMA ReplaceOwner ==
  ASSUME TypeInv, LockInv, OpenInv, OwnerInv, NEW p \in Proc, ReplayReplace(p)
  PROVE  OwnerInv'
<1>1. /\ proc[p].pc = "r_replace" /\ proc[p].run \in RunId /\ row' = row
      /\ Unclosed(proc[p].run)
  BY DEF ReplayReplace, At, TypeInv, RunKnown, HasRun, OpenInv, ReplayOpen, OwnerInv,
         RebuildPc, Unclosed
<1>2. \A k \in DOMAIN owner' :
        \/ k \in proc[p].keys /\ owner'[k] = proc[p].run
        \/ k \in DOMAIN owner /\ owner'[k] = owner[k]
  BY DEF ReplayReplace, SwapRows, Insertable
<1>3. /\ proc'[p].pc \in {"r_close", "r_fail"} /\ proc'[p].run = proc[p].run
      /\ proc'[p].keys = proc[p].keys
      /\ \A q \in Proc : q # p => proc'[q] = proc[q]
  BY DEF ReplayReplace, Go, TypeInv, TypeOK, ProcState
<1>4. \A q \in Proc : proc'[q].pc \in RebuildPc => q = p /\ proc'[q].pc = "r_close"
  <2>1. \A q \in Proc : q # p => proc[q].pc \notin Working
    BY <1>1 DEF LockInv, Working, ReplayPc
  <2> QED BY <1>3, <2>1 DEF RebuildPc, Working, ReplayPc
<1>5. RowsReplayable' /\ \A k \in DOMAIN owner' : row'[owner'[k]].status # "none"
  BY <1>1, <1>2 DEF OwnerInv, RowsReplayable, Unclosed
<1>6. \A k \in DOMAIN owner' : owner'[k] = proc[p].run => k \in proc[p].keys
  BY <1>1, <1>2 DEF OwnerInv
<1>7. row[proc[p].run].status \in {"running", "abandoned"}
  BY <1>1 DEF OwnerInv, RebuildPc
<1> QED BY <1>1, <1>3, <1>4, <1>5, <1>6, <1>7 DEF OwnerInv, RebuildPc

\* The close lists what the swap filed.
LEMMA CloseOwner ==
  ASSUME TypeInv, LockInv, RowInv, KeyInv, OpenInv, OwnerInv, NEW p \in Proc, ReplayClose(p)
  PROVE  OwnerInv'
<1>1. /\ proc[p].pc = "r_close" /\ proc[p].run \in RunId /\ owner' = owner
      /\ row \in [RunId -> RunRow] /\ \A k \in DOMAIN owner : owner[k] \in RunId
  BY DEF ReplayClose, At, TypeInv, TypeOK, RunKnown, HasRun
<1>2. \A q \in Proc : proc'[q].pc \notin RebuildPc
  <2>1. \A q \in Proc : q # p => proc[q].pc \notin Working
    BY <1>1 DEF LockInv, Working, ReplayPc
  <2>2. CASE Return(p)
    BY <2>1, <2>2, ReturnFrame DEF RebuildPc, Working, ReplayPc
  <2>3. CASE Go(p, "r_fail")
    BY <2>1, <2>3, GoFrame DEF RebuildPc, Working, ReplayPc
  <2> QED BY <2>2, <2>3 DEF ReplayClose
<1>3. RowsReplayable' /\ \A k \in DOMAIN owner' : row'[owner'[k]].status # "none"
  <2>1. CASE row' = row
    BY <1>1, <2>1 DEF OwnerInv, RowsReplayable
  <2>2. CASE ReplayClosed(p)
    <3>1. /\ row'[proc[p].run].keys = proc[p].keys /\ row'[proc[p].run].status = "ok"
          /\ \A r \in RunId : r # proc[p].run => row'[r] = row[r]
      BY <1>1, <2>2 DEF ReplayClosed, RunRow
    <3>2. \A k \in DOMAIN owner : owner[k] = proc[p].run => k \in proc[p].keys
      BY <1>1 DEF OwnerInv
    <3> QED BY <1>1, <3>1, <3>2 DEF OwnerInv, RowsReplayable
  <2> QED BY <2>1, <2>2 DEF ReplayClose
<1> QED BY <1>2, <1>3 DEF OwnerInv, RebuildPc

\* Nothing is filed when the system starts.
LEMMA InitOwner == Init => OwnerInv
BY DEF Init, OwnerInv, RowsReplayable, IdleProc, RebuildPc

\* Every step keeps the invariant.
LEMMA StepOwner ==
  TypeInv /\ LockInv /\ RowInv /\ KeyInv /\ OpenInv /\ OwnerInv /\ [Next]_vars => OwnerInv'
<1> SUFFICES ASSUME TypeInv, LockInv, RowInv, KeyInv, OpenInv, OwnerInv, [Next]_vars
             PROVE  OwnerInv'
  OBVIOUS
<1>1. ASSUME NEW p \in Proc,
             \/ IdleStep(p) /\ ~StoreBatch(p) /\ ~ReplayReplace(p)
             \/ CloseRun(p) \/ ReplayFail(p)
      PROVE  OwnerInv'
  BY <1>1, MildSteps, MildKeeps
<1>2. ASSUME NEW p \in Proc,
             OpenRun(p, "open", "budget", "ingest")
               \/ OpenRun(p, "r_open", "r_replace", "replay")
      PROVE  OwnerInv'
  BY <1>2, OpenOwner
<1>3. ASSUME NEW p \in Proc, StoreBatch(p) \/ ReplayReplace(p) \/ ReplayClose(p)
      PROVE  OwnerInv'
  BY <1>3, StoreOwner, ReplaceOwner, CloseOwner
<1>4. CASE Hour \/ Midnight \/ UNCHANGED vars
  <2>1. Quiet /\ EndsNothing
    <3>1. CASE Hour
      BY <3>1 DEF Hour, Quiet, EndsNothing, NobodyEnters, TypeInv, TypeOK, RunRow
    <3>2. CASE Midnight \/ UNCHANGED vars
      BY <3>2 DEF Midnight, vars, Quiet, EndsNothing, NobodyEnters
    <3> QED BY <1>4, <3>1, <3>2
  <2> QED BY <2>1, QuietIsMild, MildKeeps
<1> QED BY <1>1, <1>2, <1>3, <1>4 DEF Next, Advance, Ingest, Replay, IdleStep

\* An observation is filed under a run that lists its payload, unless a replay
\* was not closed ok after its swap.
THEOREM ObservationsReplayable == Spec => []RowsReplayable
<1>1. Spec => [](TypeInv /\ LockInv /\ RowInv)
  <2>1. Spec => []IInv
    BY InitIInv, StepIInv, PTL DEF Spec
  <2> QED BY <2>1, PTL DEF IInv
<1>2. Spec => []KeyInv
  BY <1>1, InitKeys, StepKeys, PTL DEF Spec
<1>3. Spec => []OpenInv
  BY <1>1, InitOpen, StepOpen, PTL DEF Spec
<1>4. Spec => []OwnerInv
  BY <1>1, <1>2, <1>3, InitOwner, StepOwner, PTL DEF Spec
<1>5. OwnerInv => RowsReplayable
  BY DEF OwnerInv
<1> QED BY <1>4, <1>5, PTL

(***************************************************************************)
(* A run that ended ok polled everything that was due                      *)
(***************************************************************************)

\* Inside the loop over the batches that were planned, and after it.
LoopPc  == {"batch", "record", "fetch", "put", "key", "store"}
AfterPc == {"predict", "close"}

\* The batches of run r below n were polled.
PolledBelow(r, n) == \A b \in 0..(n - 1) : <<r, b>> \in polled

\* The loop has polled every batch it has passed, unless it degraded the run, and
\* ends with the last one; what it has filed so far are batches it has passed.
PollAt(p) ==
  /\ proc[p].pc \notin LoopPc \cup AfterPc => proc[p].batch = 0
  /\ proc[p].pc \in LoopPc =>
       /\ proc[p].batch < row[proc[p].run].due
       /\ proc[p].degraded \/ PolledBelow(proc[p].run, proc[p].batch)
  /\ proc[p].pc \in AfterPc =>
       proc[p].degraded \/ proc[p].error \/ PolledBelow(proc[p].run, row[proc[p].run].due)
  /\ proc[p].pc \in IngestOpen =>
       \A k \in DOMAIN owner : k[1] = proc[p].run => k[2] < proc[p].batch

PollInv == OkMeansEverythingPolled /\ \A p \in Proc : PollAt(p)

\* What a step leaves of a process: it is not moved into the loop or out of it,
\* and does not forget that it failed.
Follows(q) ==
  /\ proc'[q].pc \notin LoopPc \cup AfterPc =>
       proc'[q].batch = 0 \/ (proc'[q].batch = proc[q].batch /\ proc[q].pc \notin LoopPc \cup AfterPc)
  /\ proc'[q].pc \in LoopPc =>
       /\ proc[q].pc \in LoopPc /\ proc'[q].run = proc[q].run
       /\ proc'[q].batch = proc[q].batch /\ proc'[q].degraded = proc[q].degraded
  /\ proc'[q].pc \in AfterPc =>
       \/ proc'[q].degraded \/ proc'[q].error
       \/ /\ proc[q].pc \in AfterPc /\ proc'[q].run = proc[q].run
          /\ proc'[q].degraded = proc[q].degraded /\ proc'[q].error = proc[q].error
  /\ proc'[q].pc \in IngestOpen =>
       /\ proc[q].pc \in IngestOpen /\ proc'[q].run = proc[q].run
       /\ proc'[q].batch = proc[q].batch

\* A step that plans, stores and ends nothing.
Passes ==
  /\ polled' = polled /\ owner' = owner
  /\ \A r \in RunId :
       /\ row'[r].due = row[r].due
       /\ row'[r].kind = "ingest" /\ row'[r].status = "ok" =>
            row[r].kind = "ingest" /\ row[r].status = "ok"
  /\ \A q \in Proc : Follows(q)

\* Such a step keeps the invariant.
LEMMA PassesKeeps ==
  ASSUME TypeInv, PollInv, Passes PROVE PollInv'
<1>1. OkMeansEverythingPolled'
  BY DEF Passes, PollInv, OkMeansEverythingPolled
<1>2. \A q \in Proc : proc'[q].pc \notin LoopPc \cup AfterPc => proc'[q].batch = 0
  BY DEF Passes, Follows, PollInv, PollAt
<1>3. \A q \in Proc : proc[q].pc \in LoopPc \cup AfterPc \cup IngestOpen => proc[q].run \in RunId
  BY DEF TypeInv, RunKnown, HasRun, LoopPc, AfterPc, IngestOpen, PricePc
<1>4. ASSUME NEW q \in Proc, proc'[q].pc \in LoopPc
      PROVE  /\ proc'[q].batch < row'[proc'[q].run].due
             /\ proc'[q].degraded \/ PolledBelow(proc[q].run, proc[q].batch)'
  <2>1. /\ proc[q].pc \in LoopPc /\ proc'[q].run = proc[q].run
        /\ proc'[q].batch = proc[q].batch /\ proc'[q].degraded = proc[q].degraded
    BY <1>4 DEF Passes, Follows
  <2>2. proc[q].batch < row[proc[q].run].due
        /\ (proc[q].degraded \/ PolledBelow(proc[q].run, proc[q].batch))
    BY <2>1 DEF PollInv, PollAt
  <2>3. polled' = polled /\ row'[proc[q].run].due = row[proc[q].run].due
    BY <1>3, <2>1 DEF Passes
  <2> QED BY <2>1, <2>2, <2>3 DEF PolledBelow
<1>5. ASSUME NEW q \in Proc, proc'[q].pc \in AfterPc
      PROVE  proc'[q].degraded \/ proc'[q].error
               \/ PolledBelow(proc[q].run, row[proc[q].run].due)'
  <2>1. \/ proc'[q].degraded \/ proc'[q].error
        \/ /\ proc[q].pc \in AfterPc /\ proc'[q].run = proc[q].run
           /\ proc'[q].degraded = proc[q].degraded /\ proc'[q].error = proc[q].error
    BY <1>5 DEF Passes, Follows
  <2>2. proc[q].pc \in AfterPc =>
          proc[q].degraded \/ proc[q].error \/ PolledBelow(proc[q].run, row[proc[q].run].due)
    BY DEF PollInv, PollAt
  <2>3. polled' = polled /\ (proc[q].pc \in AfterPc => row'[proc[q].run].due = row[proc[q].run].due)
    BY <1>3 DEF Passes
  <2> QED BY <2>1, <2>2, <2>3 DEF PolledBelow
<1>6. \A q \in Proc : proc'[q].pc \in IngestOpen =>
        \A k \in DOMAIN owner' : k[1] = proc'[q].run => k[2] < proc'[q].batch
  BY DEF Passes, Follows, PollInv, PollAt
<1> QED BY <1>1, <1>2, <1>4, <1>5, <1>6 DEF PollInv, PollAt

\* The steps that pass.
PassStep(p) ==
  \/ StartIngest(p) \/ StartReplay(p) \/ TryLock(p, "try_lock", "open")
  \/ TryLock(p, "r_try_lock", "r_source") \/ ReadBudget(p)
  \/ StepTake(p) \/ StepRecord(p) \/ StepBeat(p) \/ StepFetch(p) \/ StepsDone(p)
  \/ TakeBatch(p) \/ RecordBatch(p) \/ RecordKey(p) \/ Predict(p) \/ ReplaySource(p)
  \/ Release(p) \/ StatementFails(p) \/ SessionEnds(p) \/ Crash(p)

LEMMA PassStepsPass ==
  ASSUME TypeInv, PollInv, NEW p \in Proc, PassStep(p) PROVE Passes
<1>0. EndsNothing
  BY IdleEndsNothing DEF PassStep, IdleStep
<1>a. proc \in [Proc -> ProcState] /\ row \in [RunId -> RunRow]
  BY DEF TypeInv, TypeOK
<1>b. polled' = polled /\ owner' = owner
  BY DEF PassStep, StartIngest, StartReplay, TryLock, ReadBudget, StepTake, StepRecord,
         StepBeat, StepFetch, StepsDone, TakeBatch, RecordBatch, RecordKey, Predict,
         ReplaySource, Release, StatementFails, SessionEnds, Crash
<1>c. \A r \in RunId : row'[r].due = row[r].due
  <2>1. CASE StartIngest(p)
    BY <1>a, <2>1 DEF StartIngest, Reaped, RunRow
  <2>2. CASE StepBeat(p) \/ TakeBatch(p)
    BY <1>a, <2>2 DEF StepBeat, TakeBatch, Beat, RunRow
  <2>3. CASE RecordKey(p)
    BY <1>a, <2>3 DEF RecordKey, RunRow
  <2>4. CASE row' = row
    BY <2>4
  <2> QED BY <2>1, <2>2, <2>3, <2>4
          DEF PassStep, StartReplay, TryLock, ReadBudget, StepTake, StepRecord, StepFetch,
              StepsDone, RecordBatch, Predict, ReplaySource, Release, StatementFails,
              SessionEnds, Crash
<1>d. \A q \in Proc : q # p => proc'[q] = proc[q]
  BY <1>a, ReturnFrame
     DEF PassStep, StartIngest, StartReplay, TryLock, ReadBudget, StepTake, StepRecord,
         StepBeat, StepFetch, StepsDone, TakeBatch, RecordBatch, RecordKey, Predict,
         ReplaySource, Release, StatementFails, SessionEnds, Crash, Go, Degrade
<1>e. \A q \in Proc : q # p => Follows(q)
  BY <1>d DEF Follows
<1>f. Follows(p)
  <2>1. CASE StartIngest(p) \/ StartReplay(p)
    BY ONLY <1>a, <2>1
       DEF StartIngest, StartReplay, Follows, At, Go, LoopPc, AfterPc, IngestOpen, StepPc, PricePc, ProcState
  <2>2. CASE TryLock(p, "try_lock", "open") \/ TryLock(p, "r_try_lock", "r_source")
    BY ONLY <1>a, <2>2
       DEF TryLock, Follows, At, Go, LoopPc, AfterPc, IngestOpen, StepPc, PricePc, ProcState
  <2>3. CASE ReadBudget(p)
    BY ONLY <1>a, <2>3
       DEF ReadBudget, Follows, At, Go, LoopPc, AfterPc, IngestOpen, StepPc, PricePc, ProcState
  <2>4. CASE StepTake(p) \/ StepRecord(p) \/ StepBeat(p)
    BY ONLY <1>a, <2>4
       DEF StepTake, StepRecord, StepBeat, Follows, At, Go, LoopPc, AfterPc, IngestOpen, StepPc, PricePc, ProcState
  <2>5. CASE StepFetch(p) \/ StepsDone(p)
    BY ONLY <1>a, <2>5
       DEF StepFetch, StepsDone, Degrade, Follows, At, Go, LoopPc, AfterPc, IngestOpen, StepPc, PricePc, ProcState
  <2>6. CASE TakeBatch(p)
    BY ONLY <1>a, <2>6
       DEF TakeBatch, Follows, At, Go, LoopPc, AfterPc, IngestOpen, StepPc, PricePc, ProcState
  <2>7. CASE RecordBatch(p) \/ RecordKey(p) \/ Predict(p)
    BY ONLY <1>a, <2>7
       DEF RecordBatch, RecordKey, Predict, Follows, At, Go, LoopPc, AfterPc, IngestOpen, StepPc, PricePc, ProcState
  <2>r. CASE Return(p)
    BY ONLY <1>a, <2>r
       DEF Return, IdleProc, Follows, LoopPc, AfterPc, IngestOpen, StepPc, PricePc, ProcState
  <2>8. CASE ReplaySource(p)
    <3>1. ASSUME NEW o \in RunId, At(p, "r_source"),
                 proc' = [proc EXCEPT ![p].pc = "r_open", ![p].orig = o, ![p].keys = row[o].keys]
          PROVE  Follows(p)
      BY ONLY <1>a, <3>1
         DEF Follows, At, Go, LoopPc, AfterPc, IngestOpen, StepPc, PricePc, ProcState
    <3> QED BY ONLY <2>8, <2>r, <3>1 DEF ReplaySource
  <2>9. CASE Release(p) \/ SessionEnds(p) \/ Crash(p)
    BY ONLY <1>a, <2>9
       DEF Release, SessionEnds, Crash, IdleProc, Follows, At, Go, LoopPc, AfterPc, IngestOpen, StepPc, PricePc, ProcState
  <2>10. CASE StatementFails(p)
    <3>1. CASE proc' = [proc EXCEPT ![p].pc = "close", ![p].error = TRUE]
      <4>1. /\ proc'[p].pc = "close" /\ proc'[p].error /\ proc'[p].run = proc[p].run
            /\ proc'[p].batch = proc[p].batch
        BY ONLY <1>a, <3>1 DEF ProcState
      <4>2. proc[p].pc \in IngestOpen
        BY ONLY <1>0, <4>1 DEF EndsNothing, NobodyEnters, IngestOpen
      <4> QED BY ONLY <4>1, <4>2 DEF Follows, LoopPc, AfterPc
    <3>2. CASE proc[p].pc \in {"try_lock", "r_try_lock"} /\ Go(p, "idle")
      BY ONLY <1>a, <3>2
         DEF Follows, At, Go, LoopPc, AfterPc, IngestOpen, StepPc, PricePc, ProcState
    <3> QED BY ONLY <2>10, <2>r, <3>1, <3>2 DEF StatementFails
  <2> QED BY <2>1, <2>2, <2>3, <2>4, <2>5, <2>6, <2>7, <2>8, <2>9, <2>10 DEF PassStep
<1> QED BY <1>0, <1>b, <1>c, <1>e, <1>f DEF Passes, EndsNothing

\* A step of the one process at work is a matter of that process.
LEMMA AlonePoll ==
  ASSUME TypeInv, LockInv, PollInv, NEW p \in Proc, proc[p].pc \in Working,
         \A q \in Proc : q # p => proc'[q] = proc[q],
         OkMeansEverythingPolled', PollAt(p)'
  PROVE  PollInv'
<1>1. ASSUME NEW q \in Proc, q # p PROVE PollAt(q)'
  <2>1. proc'[q] = proc[q] /\ proc[q].pc \notin Working
    BY <1>1 DEF LockInv
  <2>2. proc[q].pc \notin LoopPc \cup AfterPc \cup IngestOpen
    BY <2>1 DEF LoopPc, AfterPc, IngestOpen, StepPc, PricePc, Working, IngestPc
  <2>3. proc[q].batch = 0
    BY <2>2 DEF PollInv, PollAt
  <2> QED BY <2>1, <2>2, <2>3 DEF PollAt
<1> QED BY <1>1 DEF PollInv

\* A new row has no batch yet, and nothing is filed of it.
LEMMA OpenPoll ==
  ASSUME TypeInv, LockInv, KeyInv, PollInv, NEW p \in Proc,
         OpenRun(p, "open", "budget", "ingest")
           \/ OpenRun(p, "r_open", "r_replace", "replay")
  PROVE  PollInv'
<1>1. PICK o \in RunId, kind \in {"ingest", "replay"} :
        /\ row[o].status = "none"
        /\ row' = [row EXCEPT ![o] = [NoRow EXCEPT !.status = "running",
                                       !.kind = kind, !.day = day]]
        /\ proc' = [proc EXCEPT ![p].pc = IF kind = "ingest" THEN "budget" ELSE "r_replace",
                                ![p].run = o]
  BY DEF OpenRun
<1>2. /\ proc \in [Proc -> ProcState] /\ row \in [RunId -> RunRow]
      /\ proc[p].pc \in {"open", "r_open"} /\ owner' = owner /\ polled' = polled
  BY DEF OpenRun, At, TypeInv, TypeOK
<1>3. /\ row'[o].status = "running"
      /\ \A r \in RunId : r # o => row'[r] = row[r]
  BY <1>1, <1>2 DEF NoRow
<1>4. /\ proc'[p].pc \in {"budget", "r_replace"} /\ proc'[p].run = o
      /\ proc'[p].batch = proc[p].batch
      /\ \A q \in Proc : q # p => proc'[q] = proc[q]
  BY <1>1, <1>2 DEF ProcState
<1>5. proc[p].batch = 0
  BY <1>2 DEF PollInv, PollAt, LoopPc, AfterPc
<1>6. \A k \in DOMAIN owner : k[1] # o
  BY <1>1, KeyRun DEF KeyInv, ArchiveBeforeRows
<1>7. PollAt(p)'
  BY <1>2, <1>4, <1>5, <1>6 DEF PollAt, LoopPc, AfterPc
<1>8. OkMeansEverythingPolled'
  BY <1>2, <1>3 DEF PollInv, OkMeansEverythingPolled
<1>9. proc[p].pc \in Working
  BY <1>2 DEF Working, IngestPc, ReplayPc
<1> QED BY <1>4, <1>7, <1>8, <1>9, AlonePoll

\* The plan starts the loop at the first batch, or ends it when there is none.
LEMMA PlanPoll ==
  ASSUME TypeInv, LockInv, OpenInv, PollInv, NEW p \in Proc, PlanBatches(p) PROVE PollInv'
<1>1. /\ proc \in [Proc -> ProcState] /\ row \in [RunId -> RunRow] /\ proc[p].run \in RunId
      /\ proc[p].pc = "due" /\ owner' = owner /\ polled' = polled
  BY DEF PlanBatches, At, TypeInv, TypeOK, RunKnown, HasRun, PricePc
<1>2. proc[p].batch = 0 /\ \A k \in DOMAIN owner : k[1] = proc[p].run => k[2] < 0
  BY <1>1 DEF PollInv, PollAt, LoopPc, AfterPc, IngestOpen, PricePc
<1>3. row[proc[p].run].status # "ok"
  BY <1>1 DEF OpenInv, IngestOpen, PricePc
<1>4. CASE Degrade(p, "predict") /\ row' = row
  <2>1. /\ proc'[p].pc = "predict" /\ proc'[p].degraded /\ proc'[p].run = proc[p].run
        /\ proc'[p].batch = proc[p].batch /\ \A q \in Proc : q # p => proc'[q] = proc[q]
    BY <1>1, <1>4 DEF Degrade, ProcState
  <2>2. PollAt(p)'
    BY <1>1, <1>2, <2>1 DEF PollAt, LoopPc, AfterPc
  <2>3. OkMeansEverythingPolled'
    BY <1>1, <1>4 DEF PollInv, OkMeansEverythingPolled
  <2> QED BY <1>1, <2>1, <2>2, <2>3, AlonePoll DEF Working, IngestPc, PricePc
<1>5. ASSUME NEW n \in Affordable(p),
             row' = [row EXCEPT ![proc[p].run].due = n],
             Go(p, IF n = 0 THEN "predict" ELSE "batch")
      PROVE  PollInv'
  <2>1. n \in Nat
    BY NatAssumption DEF Affordable
  <2>2. /\ row'[proc[p].run].due = n
        /\ row'[proc[p].run].status = row[proc[p].run].status
        /\ \A r \in RunId : r # proc[p].run => row'[r] = row[r]
    BY ONLY <1>1, <1>5 DEF RunRow
  <2>3. /\ proc'[p].pc = IF n = 0 THEN "predict" ELSE "batch"
        /\ proc'[p].run = proc[p].run /\ proc'[p].batch = proc[p].batch
        /\ \A q \in Proc : q # p => proc'[q] = proc[q]
    BY ONLY <1>1, <1>5 DEF Go, ProcState
  <2>4. PolledBelow(proc[p].run, 0)'
    BY DEF PolledBelow
  <2>5. PollAt(p)'
    BY ONLY <1>1, <1>2, <2>1, <2>2, <2>3, <2>4 DEF PollAt, PolledBelow, LoopPc, AfterPc
  <2>6. OkMeansEverythingPolled'
    BY <1>1, <1>3, <2>2 DEF PollInv, OkMeansEverythingPolled
  <2> QED BY <1>1, <2>3, <2>5, <2>6, AlonePoll DEF Working, IngestPc, PricePc
<1> QED BY <1>4, <1>5 DEF PlanBatches

\* A process moves on from its batch: to the next one while there is one.
LEMMA EndBatchFrame ==
  ASSUME TypeInv, PollInv, NEW p \in Proc, proc[p].pc \in {"fetch", "put", "store"},
         NEW failed \in BOOLEAN, EndBatch(p, failed)
  PROVE  /\ proc[p].batch \in Nat /\ proc[p].run \in RunId
         /\ row[proc[p].run].due \in Nat /\ proc[p].batch < row[proc[p].run].due
         /\ proc'[p].run = proc[p].run /\ proc'[p].batch = proc[p].batch + 1
         /\ proc'[p].degraded = (proc[p].degraded \/ failed)
         /\ \/ proc'[p].pc = "batch" /\ proc[p].batch + 1 < row[proc[p].run].due
            \/ proc'[p].pc = "predict" /\ proc[p].batch + 1 = row[proc[p].run].due
         /\ \A q \in Proc : q # p => proc'[q] = proc[q]
<1>1. /\ proc \in [Proc -> ProcState] /\ row \in [RunId -> RunRow] /\ proc[p].run \in RunId
  BY DEF TypeInv, TypeOK, RunKnown, HasRun, PricePc
<1>2. proc[p].batch \in Nat /\ row[proc[p].run].due \in Nat
  BY <1>1 DEF ProcState, RunRow
<1>3. proc[p].batch < row[proc[p].run].due
  BY DEF PollInv, PollAt, LoopPc
<1>4. /\ proc'[p].run = proc[p].run /\ proc'[p].batch = proc[p].batch + 1
      /\ proc'[p].degraded = (proc[p].degraded \/ failed)
      /\ proc'[p].pc = NextBatch(p)
      /\ \A q \in Proc : q # p => proc'[q] = proc[q]
  BY <1>1 DEF EndBatch, ProcState
<1>5. \/ NextBatch(p) = "batch" /\ proc[p].batch + 1 < row[proc[p].run].due
      \/ NextBatch(p) = "predict" /\ proc[p].batch + 1 = row[proc[p].run].due
  BY <1>2, <1>3 DEF NextBatch
<1> QED BY <1>1, <1>2, <1>3, <1>4, <1>5

\* A batch that is not fetched or not archived degrades the run.
LEMMA FetchPoll ==
  ASSUME TypeInv, LockInv, PollInv, NEW p \in Proc, Fetch(p) \/ ArchivePut(p) PROVE PollInv'
<1>1. /\ proc \in [Proc -> ProcState] /\ proc[p].pc \in {"fetch", "put"}
      /\ row' = row /\ owner' = owner /\ polled' = polled
  BY DEF Fetch, ArchivePut, At, TypeInv, TypeOK
<1>2. OkMeansEverythingPolled'
  BY <1>1 DEF PollInv, OkMeansEverythingPolled
<1>3. proc[p].pc \in Working /\ proc[p].pc \in LoopPc /\ proc[p].pc \in IngestOpen
  BY <1>1 DEF Working, IngestPc, PricePc, LoopPc, IngestOpen
<1>4. /\ \A k \in DOMAIN owner : k[1] = proc[p].run => k[2] < proc[p].batch
      /\ proc[p].batch < row[proc[p].run].due
      /\ proc[p].degraded \/ PolledBelow(proc[p].run, proc[p].batch)
  BY <1>3 DEF PollInv, PollAt
<1>5. CASE Go(p, "put") \/ Go(p, "key")
  <2>1. /\ proc'[p].pc \in {"put", "key"} /\ proc'[p].run = proc[p].run
        /\ proc'[p].batch = proc[p].batch /\ proc'[p].degraded = proc[p].degraded
        /\ \A q \in Proc : q # p => proc'[q] = proc[q]
    BY <1>1, <1>5 DEF Go, ProcState
  <2>2. PollAt(p)'
    BY <1>1, <1>4, <2>1 DEF PollAt, PolledBelow, LoopPc, AfterPc
  <2> QED BY <1>2, <1>3, <2>1, <2>2, AlonePoll
<1>6. CASE Degrade(p, "predict")
  <2>1. /\ proc'[p].pc = "predict" /\ proc'[p].degraded /\ proc'[p].run = proc[p].run
        /\ proc'[p].batch = proc[p].batch /\ \A q \in Proc : q # p => proc'[q] = proc[q]
    BY <1>1, <1>6 DEF Degrade, ProcState
  <2>2. PollAt(p)'
    BY <1>1, <1>4, <2>1 DEF PollAt, LoopPc, AfterPc
  <2> QED BY <1>2, <1>3, <2>1, <2>2, AlonePoll
<1>7. CASE EndBatch(p, TRUE)
  <2>1. /\ proc[p].batch \in Nat /\ proc'[p].run = proc[p].run
        /\ proc'[p].batch = proc[p].batch + 1 /\ proc'[p].degraded
        /\ \/ proc'[p].pc = "batch" /\ proc[p].batch + 1 < row[proc[p].run].due
           \/ proc'[p].pc = "predict"
        /\ \A q \in Proc : q # p => proc'[q] = proc[q]
    BY <1>1, <1>7, EndBatchFrame
  <2>2. \A k \in DOMAIN owner' : k[1] = proc'[p].run => k[2] < proc'[p].batch
    BY <1>1, <1>4, <2>1, KeyRun DEF Key
  <2>3. PollAt(p)'
    BY <1>1, <2>1, <2>2 DEF PollAt, LoopPc, AfterPc
  <2> QED BY <1>2, <1>3, <2>1, <2>3, AlonePoll
<1> QED BY <1>5, <1>6, <1>7 DEF Fetch, ArchivePut

\* A batch that is stored is polled, and the loop has passed it; one whose
\* transaction fails degrades the run.
LEMMA StorePoll ==
  ASSUME TypeInv, LockInv, PollInv, NEW p \in Proc, StoreBatch(p) PROVE PollInv'
<1>1. /\ proc \in [Proc -> ProcState] /\ proc[p].pc = "store" /\ row' = row
      /\ polled \subseteq polled'
  BY DEF StoreBatch, At, TypeInv, TypeOK
<1>2. OkMeansEverythingPolled'
  BY <1>1 DEF PollInv, OkMeansEverythingPolled
<1>3. proc[p].pc \in Working /\ proc[p].pc \in LoopPc /\ proc[p].pc \in IngestOpen
  BY <1>1 DEF Working, IngestPc, PricePc, LoopPc, IngestOpen
<1>4. /\ \A k \in DOMAIN owner : k[1] = proc[p].run => k[2] < proc[p].batch
      /\ proc[p].degraded \/ PolledBelow(proc[p].run, proc[p].batch)
  BY <1>3 DEF PollInv, PollAt
<1>5. PICK failed \in BOOLEAN :
        /\ EndBatch(p, failed)
        /\ failed \/ BatchKey(p) \in polled'
  BY DEF StoreBatch
<1>6. /\ proc[p].batch \in Nat /\ row[proc[p].run].due \in Nat
      /\ proc'[p].run = proc[p].run /\ proc'[p].batch = proc[p].batch + 1
      /\ proc'[p].degraded = (proc[p].degraded \/ failed)
      /\ \/ proc'[p].pc = "batch" /\ proc[p].batch + 1 < row[proc[p].run].due
         \/ proc'[p].pc = "predict" /\ proc[p].batch + 1 = row[proc[p].run].due
      /\ \A q \in Proc : q # p => proc'[q] = proc[q]
  BY <1>1, <1>5, EndBatchFrame
<1>7. \A k \in DOMAIN owner' : k \in DOMAIN owner \/ k = BatchKey(p)
  BY DEF StoreBatch
<1>8. \A k \in DOMAIN owner' : k[1] = proc[p].run => k[2] < proc[p].batch + 1
  BY <1>4, <1>6, <1>7, KeyRun DEF Key, BatchKey
<1>9. proc[p].degraded \/ failed \/ \A b \in 0..proc[p].batch : <<proc[p].run, b>> \in polled'
  <2> SUFFICES ASSUME ~proc[p].degraded, ~failed, NEW b \in 0..proc[p].batch
               PROVE  <<proc[p].run, b>> \in polled'
    OBVIOUS
  <2>1. CASE b = proc[p].batch
    BY <1>5, <2>1 DEF BatchKey
  <2>2. CASE b # proc[p].batch
    BY <1>1, <1>4, <1>6, <2>2 DEF PolledBelow
  <2> QED BY <2>1, <2>2
<1>10. PollAt(p)'
  <2>1. (proc[p].batch + 1) - 1 = proc[p].batch
    BY <1>6
  <2>2. CASE proc'[p].pc = "batch"
    BY <1>1, <1>6, <1>8, <1>9, <2>1, <2>2 DEF PollAt, PolledBelow, LoopPc, AfterPc
  <2>3. CASE proc'[p].pc = "predict" /\ proc[p].batch + 1 = row[proc[p].run].due
    BY <1>1, <1>6, <1>8, <1>9, <2>1, <2>3 DEF PollAt, PolledBelow, LoopPc, AfterPc
  <2> QED BY <1>6, <2>2, <2>3
<1> QED BY <1>2, <1>3, <1>6, <1>10, AlonePoll

\* A command that returns is out of the loop.
LEMMA ReturnPoll ==
  ASSUME TypeInv, NEW p \in Proc, Return(p) PROVE PollAt(p)'
<1>1. proc'[p].pc = "release" /\ proc'[p].batch = 0
  BY DEF Return, IdleProc, TypeInv, TypeOK
<1> QED BY <1>1 DEF PollAt, LoopPc, AfterPc, IngestOpen, StepPc, PricePc

\* A run closes ok only when nothing was degraded and nothing failed.
LEMMA ClosePoll ==
  ASSUME TypeInv, LockInv, OpenInv, PollInv, NEW p \in Proc, CloseRun(p) PROVE PollInv'
<1>1. /\ proc[p].pc = "close" /\ proc[p].run \in RunId /\ row \in [RunId -> RunRow]
      /\ polled' = polled
  BY DEF CloseRun, At, TypeInv, TypeOK, RunKnown, HasRun
<1>2. proc[p].degraded \/ proc[p].error \/ PolledBelow(proc[p].run, row[proc[p].run].due)
  BY <1>1 DEF PollInv, PollAt, AfterPc
<1>3. PICK s \in RunStatus(p) : row' = [row EXCEPT ![proc[p].run].status = s]
  BY DEF CloseRun, CloseRow
<1>4. s = "ok" => PolledBelow(proc[p].run, row[proc[p].run].due)
  BY <1>2, <1>3 DEF RunStatus
<1>5. /\ row'[proc[p].run].status = s /\ row'[proc[p].run].due = row[proc[p].run].due
      /\ \A r \in RunId : r # proc[p].run => row'[r] = row[r]
  BY <1>1, <1>3 DEF RunRow
<1>6. OkMeansEverythingPolled'
  BY <1>1, <1>4, <1>5 DEF PollInv, OkMeansEverythingPolled, PolledBelow
<1>7. Return(p)
  BY DEF CloseRun
<1>8. PollAt(p)'
  BY <1>7, ReturnPoll
<1> QED BY <1>1, <1>6, <1>7, <1>8, ReturnFrame, AlonePoll DEF Working, IngestPc

\* A replay polls nothing, and ends no ingest run.
LEMMA ReplayPoll ==
  ASSUME TypeInv, LockInv, OpenInv, PollInv, NEW p \in Proc,
         ReplayReplace(p) \/ ReplayClose(p) \/ ReplayFail(p)
  PROVE  PollInv'
<1>1. /\ proc[p].pc \in ReplayOpen /\ proc[p].run \in RunId
      /\ proc \in [Proc -> ProcState] /\ row \in [RunId -> RunRow]
      /\ polled' = polled /\ row[proc[p].run].kind = "replay"
  BY DEF ReplayReplace, ReplayClose, ReplayFail, At, ReplayOpen, OpenInv, TypeInv, TypeOK,
         RunKnown, HasRun
<1>2. proc[p].batch = 0
  BY <1>1 DEF PollInv, PollAt, ReplayOpen, LoopPc, AfterPc
<1>3. \A r \in RunId : /\ row'[r].kind = row[r].kind
                       /\ r # proc[p].run => row'[r] = row[r]
  <2>1. CASE row' = row
    BY <2>1
  <2>2. CASE ReplayClosed(p)
    BY <1>1, <2>2 DEF ReplayClosed, RunRow
  <2>3. CASE CloseRow(proc[p].run, "failed")
    BY <1>1, <2>3 DEF CloseRow, RunRow
  <2> QED BY <2>1, <2>2, <2>3 DEF ReplayReplace, ReplayClose, ReplayFail
<1>4. OkMeansEverythingPolled'
  BY <1>1, <1>3 DEF PollInv, OkMeansEverythingPolled
<1>5. proc[p].pc \in Working
  BY <1>1 DEF ReplayOpen, Working, ReplayPc
<1>6. CASE Return(p)
  BY <1>4, <1>5, <1>6, ReturnPoll, ReturnFrame, AlonePoll
<1>7. CASE Go(p, "r_close") \/ Go(p, "r_fail")
  <2>1. /\ proc'[p].pc \in {"r_close", "r_fail"} /\ proc'[p].batch = 0
        /\ \A q \in Proc : q # p => proc'[q] = proc[q]
    BY <1>1, <1>2, <1>7 DEF Go, ProcState
  <2>2. PollAt(p)'
    BY <2>1 DEF PollAt, LoopPc, AfterPc, IngestOpen, StepPc, PricePc
  <2> QED BY <1>4, <1>5, <2>1, <2>2, AlonePoll
<1> QED BY <1>6, <1>7 DEF ReplayReplace, ReplayClose, ReplayFail

LEMMA InitPoll == Init => PollInv
BY DEF Init, PollInv, PollAt, OkMeansEverythingPolled, IdleProc, NoRow, LoopPc, AfterPc,
       IngestOpen, StepPc, PricePc

\* Every step keeps the invariant.
LEMMA StepPoll ==
  TypeInv /\ LockInv /\ KeyInv /\ OpenInv /\ PollInv /\ [Next]_vars => PollInv'
<1> SUFFICES ASSUME TypeInv, LockInv, KeyInv, OpenInv, PollInv, [Next]_vars PROVE PollInv'
  OBVIOUS
<1>1. ASSUME NEW p \in Proc, PassStep(p) PROVE PollInv'
  BY <1>1, PassStepsPass, PassesKeeps
<1>2. ASSUME NEW p \in Proc,
             OpenRun(p, "open", "budget", "ingest")
               \/ OpenRun(p, "r_open", "r_replace", "replay")
      PROVE  PollInv'
  BY <1>2, OpenPoll
<1>3. ASSUME NEW p \in Proc,
             PlanBatches(p) \/ Fetch(p) \/ ArchivePut(p) \/ StoreBatch(p) \/ CloseRun(p)
      PROVE  PollInv'
  BY <1>3, PlanPoll, FetchPoll, StorePoll, ClosePoll
<1>4. ASSUME NEW p \in Proc, ReplayReplace(p) \/ ReplayClose(p) \/ ReplayFail(p)
      PROVE  PollInv'
  BY <1>4, ReplayPoll
<1>5. CASE Hour \/ Midnight \/ UNCHANGED vars
  <2>1. /\ polled' = polled /\ owner' = owner /\ proc' = proc
        /\ \A r \in RunId : /\ row'[r].due = row[r].due /\ row'[r].kind = row[r].kind
                            /\ row'[r].status = row[r].status
    <3>1. CASE Hour
      BY <3>1 DEF Hour, TypeInv, TypeOK, RunRow
    <3>2. CASE Midnight \/ UNCHANGED vars
      BY <3>2 DEF Midnight, vars
    <3> QED BY <1>5, <3>1, <3>2
  <2>2. Passes
    BY <2>1 DEF Passes, Follows
  <2> QED BY <2>2, PassesKeeps
<1> QED BY <1>1, <1>2, <1>3, <1>4, <1>5 DEF Next, Advance, Ingest, Replay, PassStep

\* What the other invariants of this module need of the run control.
LEMMA RunControl == Spec => [](TypeInv /\ LockInv /\ RowInv /\ KeyInv /\ OpenInv /\ OwnerInv /\ PollInv)
<1>1. Spec => [](TypeInv /\ LockInv /\ RowInv)
  <2>1. Spec => []IInv
    BY InitIInv, StepIInv, PTL DEF Spec
  <2> QED BY <2>1, PTL DEF IInv
<1>2. Spec => []KeyInv
  BY <1>1, InitKeys, StepKeys, PTL DEF Spec
<1>3. Spec => []OpenInv
  BY <1>1, InitOpen, StepOpen, PTL DEF Spec
<1>4. Spec => []OwnerInv
  BY <1>1, <1>2, <1>3, InitOwner, StepOwner, PTL DEF Spec
<1>5. Spec => []PollInv
  BY <1>1, <1>2, <1>3, InitPoll, StepPoll, PTL DEF Spec
<1> QED BY <1>1, <1>2, <1>3, <1>4, <1>5, PTL

\* A run that ended ok stored a poll for every batch that was due.
THEOREM OkPolledEverything == Spec => []OkMeansEverythingPolled
<1>1. PollInv => OkMeansEverythingPolled
  BY DEF PollInv
<1> QED BY <1>1, RunControl, PTL

(***************************************************************************)
(* Observations leave a run only by a replay of it                         *)
(***************************************************************************)

\* The statement of OnlyReplayMovesRows about one step.
MoveStep ==
  \A r \in RunId : ~(Owned(r) \subseteq Owned(r)') =>
    \E p \in Proc : /\ proc[p].pc = "r_replace" /\ proc[p].orig = r
                    /\ ~(Owned(proc[p].run)' \subseteq Owned(proc[p].run))

\* A batch is new when it is stored, so nobody's observations are overwritten.
LEMMA StoreMoves ==
  ASSUME TypeInv, PollInv, NEW p \in Proc, StoreBatch(p), NEW r \in RunId
  PROVE  Owned(r) \subseteq Owned(r)'
<1>1. proc[p].pc = "store" /\ proc[p].batch \in Nat
  BY DEF StoreBatch, At, TypeInv, TypeOK, ProcState
<1>2. BatchKey(p) \notin DOMAIN owner
  BY <1>1 DEF PollInv, PollAt, IngestOpen, PricePc, BatchKey
<1>3. \/ owner' = owner
      \/ owner' = [k \in DOMAIN owner \cup {BatchKey(p)} |->
                     IF k = BatchKey(p) THEN proc[p].run ELSE owner[k]]
  BY DEF StoreBatch
<1> QED BY <1>2, <1>3 DEF Owned

\* A swap takes only what the original holds, and only when it files something.
LEMMA ReplaceMoves ==
  ASSUME TypeInv, OwnerInv, NEW p \in Proc, ReplayReplace(p), NEW r \in RunId,
         ~(Owned(r) \subseteq Owned(r)')
  PROVE  /\ proc[p].pc = "r_replace" /\ proc[p].orig = r
         /\ ~(Owned(proc[p].run)' \subseteq Owned(proc[p].run))
<1>1. /\ proc[p].pc = "r_replace"
      /\ \A k \in DOMAIN owner : owner[k] # proc[p].run
      /\ proc'[p].run = proc[p].run
  BY DEF ReplayReplace, At, Go, OwnerInv, TypeInv, TypeOK, ProcState
<1>2. PICK k \in Owned(r) : k \notin Owned(r)'
  OBVIOUS
<1>3. PICK new \in SUBSET Insertable(p) : SwapAllowed(p, new) /\ SwapRows(p, new)
  BY <1>2 DEF ReplayReplace, Owned
<1>4. \A j \in new : j \in DOMAIN owner' /\ owner'[j] = proc[p].run
  BY <1>3 DEF SwapRows
<1>5. r = proc[p].orig
  <2> SUFFICES ASSUME r # proc[p].orig PROVE FALSE
    OBVIOUS
  <2>1. k \in DOMAIN owner /\ owner[k] = r /\ k \notin new
    BY <1>2, <1>3 DEF Owned, Insertable
  <2>2. k \in DOMAIN owner \ Owned(proc[p].orig)
    BY <2>1 DEF Owned
  <2>3. k \in DOMAIN owner' /\ owner'[k] = r
    BY <1>3, <2>1, <2>2 DEF SwapRows
  <2> QED BY <1>2, <2>3 DEF Owned
<1>6. new # {}
  BY <1>2, <1>3, <1>5 DEF SwapAllowed
<1>7. PICK j \in new : TRUE
  BY <1>6
<1>8. j \in Owned(proc[p].run)' /\ j \notin Owned(proc[p].run)
  BY <1>1, <1>4 DEF Owned
<1> QED BY <1>1, <1>5, <1>8

LEMMA StepMoves ==
  TypeInv /\ OwnerInv /\ PollInv /\ [Next]_vars => MoveStep
<1> SUFFICES ASSUME TypeInv, OwnerInv, PollInv, [Next]_vars, NEW r \in RunId,
                    ~(Owned(r) \subseteq Owned(r)')
             PROVE  \E p \in Proc : /\ proc[p].pc = "r_replace" /\ proc[p].orig = r
                                    /\ ~(Owned(proc[p].run)' \subseteq Owned(proc[p].run))
  BY DEF MoveStep
<1>1. owner' # owner
  BY DEF Owned
<1>2. PICK p \in Proc : StartIngest(p) \/ StartReplay(p) \/ Advance(p) \/ Crash(p)
  BY <1>1 DEF Next, vars, Hour, Midnight
<1>3. ~(StartIngest(p) \/ StartReplay(p) \/ Crash(p) \/ Release(p)
          \/ StatementFails(p) \/ SessionEnds(p))
  BY <1>1 DEF StartIngest, StartReplay, Crash, Release, StatementFails, SessionEnds
<1>4. Ingest(p) => StoreBatch(p)
  BY <1>1
     DEF Ingest, TryLock, OpenRun, ReadBudget, StepTake, StepRecord, StepBeat, StepFetch,
         StepsDone, PlanBatches, TakeBatch, RecordBatch, Fetch, ArchivePut, RecordKey,
         Predict, CloseRun
<1>5. Replay(p) => ReplayReplace(p)
  BY <1>1 DEF Replay, TryLock, ReplaySource, OpenRun, ReplayClose, ReplayFail
<1>6. StoreBatch(p) \/ ReplayReplace(p)
  BY <1>2, <1>3, <1>4, <1>5 DEF Advance
<1> QED BY <1>6, StoreMoves, ReplaceMoves

\* Observations leave a run only by a replay of that run, which files at least one
\* payload under its replacement.
THEOREM ReplayAloneMoves == Spec => OnlyReplayMovesRows
<1>1. TypeInv /\ OwnerInv /\ PollInv /\ [Next]_vars => [MoveStep]_vars
  BY StepMoves
<1>2. MoveStep <=> \A r \in RunId : ~(Owned(r) \subseteq Owned(r)') =>
        \E p \in Proc : /\ proc[p].pc = "r_replace" /\ proc[p].orig = r
                        /\ ~(Owned(proc[p].run)' \subseteq Owned(proc[p].run))
  BY DEF MoveStep
<1> QED BY <1>1, <1>2, RunControl, PTL DEF Spec, OnlyReplayMovesRows

=============================================================================

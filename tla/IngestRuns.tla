----------------------------- MODULE IngestRuns -----------------------------
(***************************************************************************)
(* The control of the `ingest` and `replay` commands: the advisory lock,   *)
(* the run rows of table ingest_runs, the daily request budget, the        *)
(* archive-before-parse rule of the price loop, the reaper, and what a     *)
(* crash or a failed statement leaves behind at every await.               *)
(*                                                                         *)
(* A process is the serve loop or one invocation of the command line.      *)
(* Every await on the database, the archive or the provider is one step,   *)
(* so another process can run, or this one can die, between any two.       *)
(*                                                                         *)
(* A payload is known only by its key, a pair <<run, batch>>.  Prices      *)
(* inside it, and which of them are new, belong to module Ledger; here a   *)
(* payload either has rows in market_observations or has none.             *)
(***************************************************************************)
EXTENDS Integers, FiniteSets

CONSTANTS Proc,         \* processes: the serve loop, invocations of the CLI
          Server,       \* the serve loop, which only ingests
          Replayer,     \* processes that may run the replay command
          RunId,        \* identifiers of rows in ingest_runs
          NoProc,       \* nobody holds the lock
          NoRun,        \* no run
          DailyBudget,  \* config.daily_request_budget
          AbandonAfter, \* hours without a heartbeat before a run is reaped
          MaxBatches,   \* bound: price batches due in one run
          MaxDay        \* bound: midnights that pass

ASSUME SetAssumption == /\ Server \in Proc /\ NoProc \notin Proc
                        /\ Replayer \subseteq Proc \ {Server}
                        /\ NoRun \notin RunId
ASSUME NatAssumption == /\ DailyBudget \in Nat /\ AbandonAfter \in Nat
                        /\ MaxBatches \in Nat /\ MaxDay \in Nat

VARIABLES lock,      \* the session holding pg_advisory_lock(INGEST_LOCK)
          proc,      \* each process: where it is and its local state
          row,       \* table ingest_runs
          requests,  \* requests counted in the run rows: pairs <<run, n>>
          sentOn,    \* provider calls really made: <<run, n>> -> the UTC day
          archive,   \* keys of the price payloads in the object store
          polled,    \* batches whose write_polls transaction committed
          owner,     \* payload -> the run its observations are filed under
          day        \* the UTC day of the database clock

vars == <<lock, proc, row, requests, sentOn, archive, polled, owner, day>>

-----------------------------------------------------------------------------
Key == RunId \X Nat

Ended  == {"ok", "degraded", "failed"}
Status == {"none", "running", "abandoned"} \cup Ended
Kind   == {"none", "ingest", "replay"}
Age    == 0..(AbandonAfter + 1)

\* Steps of a process that hold the lock, in the order of the code.
StepPc   == {"steps", "step_record", "step_beat", "step_fetch"}
PricePc  == {"due", "batch", "record", "fetch", "put", "key", "store"}
IngestPc == {"open", "budget", "predict", "close"} \cup StepPc \cup PricePc
ReplayPc == {"r_source", "r_open", "r_replace", "r_close", "r_fail"}
Working  == IngestPc \cup ReplayPc \cup {"release"}
Pc       == Working \cup {"idle", "try_lock", "r_try_lock", "dead"}

ProcState == [pc : Pc,
              run : RunId \cup {NoRun},   \* the row this process opened
              orig : RunId \cup {NoRun},  \* replay: the run being re-parsed
              keys : SUBSET Key,          \* replay: the keys it recorded
              remaining : Nat,            \* Budget.remaining
              requests : Nat,             \* tally.requests
              batch : Nat,                \* index in due.chunks(batch_size)
              degraded : BOOLEAN,         \* tally.degraded is not empty
              error : BOOLEAN]            \* execute returned an error

\* kind and due are history: the row has no column for them while it runs.
RunRow == [status : Status, kind : Kind,
           day : Nat,                     \* the day of started_at
           age : Age,                     \* hours since heartbeat_at, capped
           keys : SUBSET Key,             \* metadata.price_keys
           due : Nat]                     \* price batches the run planned

IdleProc == [pc |-> "idle", run |-> NoRun, orig |-> NoRun, keys |-> {},
             remaining |-> 0, requests |-> 0, batch |-> 0,
             degraded |-> FALSE, error |-> FALSE]

NoRow == [status |-> "none", kind |-> "none", day |-> 0, age |-> 0,
          keys |-> {}, due |-> 0]

Init == /\ lock = NoProc
        /\ proc = [p \in Proc |-> IdleProc]
        /\ row = [r \in RunId |-> NoRow]
        /\ requests = {}
        /\ sentOn = [t \in {} |-> 0]
        /\ archive = {} /\ polled = {}
        /\ owner = [k \in {} |-> NoRun]
        /\ day = 0

-----------------------------------------------------------------------------
(* Helpers.  At(p, pc) guards a step, Go(p, pc) is the new local state.    *)

At(p, pc) == proc[p].pc = pc
Go(p, pc) == proc' = [proc EXCEPT ![p].pc = pc]
Degrade(p, pc) == proc' = [proc EXCEPT ![p].pc = pc, ![p].degraded = TRUE]
Token(p) == <<proc[p].run, proc[p].requests>>
BatchKey(p) == <<proc[p].run, proc[p].batch>>

\* Mutant: the count is kept in memory until the run closes.
RecordAtClose(p) == requests' = requests

\* record_request: one more request counted in this run's metadata.
RecordRequest(p) == requests' = requests \cup {Token(p)}

\* touch_heartbeat: heartbeat_at = now().
Beat(p) == row' = [row EXCEPT ![proc[p].run].age = 0]

\* The call to the provider leaves the process, on this UTC day.
Send(p) ==
  sentOn' = [t \in DOMAIN sentOn \cup {Token(p)} |->
               IF t = Token(p) THEN day ELSE sentOn[t]]

\* close_run: an UPDATE by id, whatever the status of the row is by then.
CloseRow(r, status) == row' = [row EXCEPT ![r].status = status]

\* Mutant: only runs that ended are summed.
SpentByEndedRuns ==
  Cardinality({t \in requests : row[t[1]].day >= day /\ row[t[1]].status \in Ended})

\* requests_spent_today: the sum over the runs that started today.
SpentToday == Cardinality({t \in requests : row[t[1]].day >= day})

\* u32::saturating_sub.
SaturatingSub(a, b) == IF a > b THEN a - b ELSE 0

\* Where the loop over due.chunks(batch_size) goes after this batch.
NextBatch(p) ==
  IF proc[p].batch + 1 < row[proc[p].run].due THEN "batch" ELSE "predict"

\* Mutant: a batch that failed is skipped without degrading the run.
EndBatchQuietly(p, failed) ==
  proc' = [proc EXCEPT ![p].pc = NextBatch(p), ![p].batch = @ + 1]

\* The payload in hand is finished: stored, skipped or failed.
EndBatch(p, failed) ==
  proc' = [proc EXCEPT ![p].pc = NextBatch(p), ![p].batch = @ + 1,
                       ![p].degraded = @ \/ failed]

-----------------------------------------------------------------------------
(* `run`: reap, try the lock, open the row, read the budget.               *)

\* Mutants: the reaper forgets the status, or is never called.
ReapedAnyStatus ==
  [r \in RunId |-> IF row[r].age > AbandonAfter
                   THEN [row[r] EXCEPT !.status = "abandoned"] ELSE row[r]]
ReapedNever == row

\* reap_abandoned_runs, before the lock is tried.
Reaped == [r \in RunId |->
             IF row[r].status = "running" /\ row[r].age > AbandonAfter
             THEN [row[r] EXCEPT !.status = "abandoned"] ELSE row[r]]

StartIngest(p) ==
  /\ At(p, "idle")
  /\ row' = Reaped
  /\ Go(p, "try_lock")
  /\ UNCHANGED <<lock, requests, sentOn, archive, polled, owner, day>>

\* try_lock on a session of its own; None means Skipped, never a wait.
TryLock(p, from, to) ==
  /\ At(p, from)
  /\ \/ lock = NoProc /\ lock' = p /\ Go(p, to)
     \/ lock # NoProc /\ lock' = lock /\ Go(p, "idle")
  /\ UNCHANGED <<row, requests, sentOn, archive, polled, owner, day>>

\* open_run: a new row, running, its heartbeat now.
OpenRun(p, from, to, kind) ==
  /\ At(p, from)
  /\ \E r \in RunId :
       /\ row[r].status = "none"
       /\ row' = [row EXCEPT ![r] = [NoRow EXCEPT !.status = "running",
                                       !.kind = kind, !.day = day]]
       /\ proc' = [proc EXCEPT ![p].pc = to, ![p].run = r]
  /\ UNCHANGED <<lock, requests, sentOn, archive, polled, owner, day>>

\* Mutant: every run has a budget of its own.
ReadBudgetPerRun(p) ==
  /\ At(p, "budget")
  /\ proc' = [proc EXCEPT ![p].pc = "steps", ![p].remaining = DailyBudget]
  /\ UNCHANGED <<lock, row, requests, sentOn, archive, polled, owner, day>>

\* The budget is what the day has left once every run of today is counted.
ReadBudget(p) ==
  /\ At(p, "budget")
  /\ proc' = [proc EXCEPT ![p].pc = "steps",
                 ![p].remaining = SaturatingSub(DailyBudget, SpentToday)]
  /\ UNCHANGED <<lock, row, requests, sentOn, archive, polled, owner, day>>

-----------------------------------------------------------------------------
(* The slow steps of `execute` (discovery, metadata, reference data) seen  *)
(* as what they share with the price loop: each pays for a request,        *)
(* records it, touches the heartbeat and asks.  Their pages are archived   *)
(* under other prefixes and their own control is in module SlowSteps.      *)

\* Mutant: the answer of budget.take is ignored.
StepTakeUnchecked(p) ==
  /\ At(p, "steps")
  /\ proc' = [proc EXCEPT ![p].pc = "step_record",
                 ![p].remaining = @ - 1, ![p].requests = @ + 1]
  /\ UNCHANGED <<lock, row, requests, sentOn, archive, polled, owner, day>>

StepTake(p) ==
  /\ At(p, "steps")
  /\ proc[p].remaining > 0
  /\ proc' = [proc EXCEPT ![p].pc = "step_record",
                 ![p].remaining = @ - 1, ![p].requests = @ + 1]
  /\ UNCHANGED <<lock, row, requests, sentOn, archive, polled, owner, day>>

StepRecord(p) ==
  /\ At(p, "step_record")
  /\ RecordRequest(p) /\ Go(p, "step_beat")
  /\ UNCHANGED <<lock, row, sentOn, archive, polled, owner, day>>

StepBeat(p) ==
  /\ At(p, "step_beat")
  /\ Beat(p) /\ Go(p, "step_fetch")
  /\ UNCHANGED <<lock, requests, sentOn, archive, polled, owner, day>>

\* A page that is not fetched, archived or parsed degrades the run.
StepFetch(p) ==
  /\ At(p, "step_fetch")
  /\ Send(p)
  /\ Go(p, "steps") \/ Degrade(p, "steps")
  /\ UNCHANGED <<lock, row, requests, archive, polled, owner, day>>

\* The slow steps are over; one may have been stopped by the budget.
StepsDone(p) ==
  /\ At(p, "steps")
  /\ Go(p, "due") \/ Degrade(p, "due")
  /\ UNCHANGED <<lock, row, requests, sentOn, archive, polled, owner, day>>

-----------------------------------------------------------------------------
(* ingest_prices.                                                          *)

\* due_external_ids LIMIT remaining * batch_size, cut in chunks.
Affordable(p) == {n \in 0..MaxBatches : n <= proc[p].remaining}

PlanBatches(p) ==
  /\ At(p, "due")
  /\ \/ /\ proc[p].remaining = 0
        /\ Degrade(p, "predict") /\ row' = row
     \/ /\ proc[p].remaining > 0
        /\ \E n \in Affordable(p) :
             /\ row' = [row EXCEPT ![proc[p].run].due = n]
             /\ Go(p, IF n = 0 THEN "predict" ELSE "batch")
  /\ UNCHANGED <<lock, requests, sentOn, archive, polled, owner, day>>

\* budget.take, then touch_heartbeat.
TakeBatch(p) ==
  /\ At(p, "batch")
  /\ proc[p].remaining > 0
  /\ Beat(p)
  /\ proc' = [proc EXCEPT ![p].pc = "record",
                 ![p].remaining = @ - 1, ![p].requests = @ + 1]
  /\ UNCHANGED <<lock, requests, sentOn, archive, polled, owner, day>>

RecordBatch(p) ==
  /\ At(p, "record")
  /\ RecordRequest(p) /\ Go(p, "fetch")
  /\ UNCHANGED <<lock, row, sentOn, archive, polled, owner, day>>

\* fetch_and_archive, the provider: an envelope, RateLimited or Other.
Fetch(p) ==
  /\ At(p, "fetch")
  /\ Send(p)
  /\ \/ Go(p, "put")
     \/ Degrade(p, "predict")
     \/ EndBatch(p, TRUE)
  /\ UNCHANGED <<lock, row, requests, archive, polled, owner, day>>

\* Mutant: a payload whose put failed is parsed all the same.
ArchivePutIgnored(p) ==
  /\ At(p, "put")
  /\ archive' \in {archive, archive \cup {BatchKey(p)}} /\ Go(p, "key")
  /\ UNCHANGED <<lock, row, requests, sentOn, polled, owner, day>>

\* fetch_and_archive, the object store.  A put that reports an error may
\* have stored the object all the same.
ArchivePut(p) ==
  /\ At(p, "put")
  /\ \/ archive' = archive \cup {BatchKey(p)} /\ Go(p, "key")
     \/ archive' \in {archive, archive \cup {BatchKey(p)}} /\ EndBatch(p, TRUE)
  /\ UNCHANGED <<lock, row, requests, sentOn, polled, owner, day>>

\* record_price_key, before the payload is parsed.
RecordKey(p) ==
  /\ At(p, "key")
  /\ row' = [row EXCEPT ![proc[p].run].keys = @ \cup {BatchKey(p)}]
  /\ Go(p, "store")
  /\ UNCHANGED <<lock, requests, sentOn, archive, polled, owner, day>>

\* ingest_batch: parse, then write_polls in one transaction.  A payload that
\* does not parse, or a transaction that fails, only degrades the run; a
\* commit may add no observation when every price is unchanged or refused.
StoreBatch(p) ==
  /\ At(p, "store")
  /\ \/ /\ polled' = polled \cup {BatchKey(p)}
        /\ \/ owner' = owner
           \/ owner' = [k \in DOMAIN owner \cup {BatchKey(p)} |->
                          IF k = BatchKey(p) THEN proc[p].run ELSE owner[k]]
        /\ EndBatch(p, FALSE)
     \/ UNCHANGED <<polled, owner>> /\ EndBatch(p, TRUE)
  /\ UNCHANGED <<lock, row, requests, sentOn, archive, day>>

-----------------------------------------------------------------------------
(* The end of run_locked, and of `run`.                                    *)

\* predict::maybe_record spends no request and touches no run state here.
Predict(p) ==
  /\ At(p, "predict")
  /\ Go(p, "close")
  /\ UNCHANGED <<lock, row, requests, sentOn, archive, polled, owner, day>>

\* Failed on error; else degraded when any step said so, when a drift check
\* says so, or when everything seen was rejected.
RunStatus(p) ==
  IF proc[p].error THEN {"failed"}
  ELSE IF proc[p].degraded THEN {"degraded"} ELSE {"ok", "degraded"}

\* run_locked and replay_locked return: the budget and the tally are dropped.
Return(p) ==
  proc' = [proc EXCEPT ![p] = [IdleProc EXCEPT !.pc = "release",
                                               !.run = proc[p].run]]

CloseRun(p) ==
  /\ At(p, "close")
  /\ \E s \in RunStatus(p) : CloseRow(proc[p].run, s)
  /\ Return(p)
  /\ UNCHANGED <<lock, requests, sentOn, archive, polled, owner, day>>

\* Mutant: the lock's connection goes back to a pool and its session lives on.
ReleaseToPool(p) ==
  /\ At(p, "release")
  /\ proc' = [proc EXCEPT ![p] = IdleProc]
  /\ UNCHANGED <<lock, row, requests, sentOn, archive, polled, owner, day>>

\* lock.release on every path: the session ends, the locals are gone.
Release(p) ==
  /\ At(p, "release")
  /\ lock' = IF lock = p THEN NoProc ELSE lock
  /\ proc' = [proc EXCEPT ![p] = IdleProc]
  /\ UNCHANGED <<row, requests, sentOn, archive, polled, owner, day>>

-----------------------------------------------------------------------------
(* `replay`: the one writer that removes observations.  It neither reaps   *)
(* nor touches a heartbeat.                                                *)

StartReplay(p) ==
  /\ At(p, "idle") /\ p \in Replayer
  /\ Go(p, "r_try_lock")
  /\ UNCHANGED <<lock, row, requests, sentOn, archive, polled, owner, day>>

\* run_replay_source: the run must exist and have archived a payload.
ReplaySource(p) ==
  /\ At(p, "r_source")
  /\ \E o \in RunId :
       \/ /\ row[o].keys # {}
          /\ proc' = [proc EXCEPT ![p].pc = "r_open", ![p].orig = o,
                                  ![p].keys = row[o].keys]
       \/ row[o].keys = {} /\ Return(p)
  /\ UNCHANGED <<lock, row, requests, sentOn, archive, polled, owner, day>>

Owned(r) == {k \in DOMAIN owner : owner[k] = r}

\* What the new parse can insert: a payload whose observations are already
\* filed under a third run meets ON CONFLICT DO NOTHING.
Insertable(p) ==
  {k \in proc[p].keys : k \in DOMAIN owner => owner[k] = proc[p].orig}

\* replace_run_observations commits: the original's rows are deleted and the
\* payloads in new are written under the replacement.
SwapRows(p, new) ==
  owner' = [k \in (DOMAIN owner \ Owned(proc[p].orig)) \cup new |->
              IF k \in new THEN proc[p].run ELSE owner[k]]

\* Mutant: an empty rewrite commits.
SwapAlways(p, new) == TRUE

\* An empty rewrite over existing rows is refused and rolled back.
SwapAllowed(p, new) == Owned(proc[p].orig) # {} => new # {}

\* replay_batches up to the commit: every payload is read and parsed before
\* anything is deleted.  The commit can succeed and still report an error.
ReplayReplace(p) ==
  /\ At(p, "r_replace")
  /\ \/ /\ proc[p].keys \subseteq archive
        /\ \E new \in SUBSET Insertable(p) :
             SwapAllowed(p, new) /\ SwapRows(p, new)
        /\ Go(p, "r_close") \/ Go(p, "r_fail")
     \/ owner' = owner /\ Go(p, "r_fail")
  /\ UNCHANGED <<lock, row, requests, sentOn, archive, polled, day>>

\* Mutant: the replacement does not list the payloads it was rebuilt from.
ReplayClosedWithoutKeys(p) ==
  row' = [row EXCEPT ![proc[p].run].status = "ok"]

\* The replacement closes ok and takes the keys over.
ReplayClosed(p) ==
  row' = [row EXCEPT ![proc[p].run].status = "ok",
                     ![proc[p].run].keys = proc[p].keys]

ReplayClose(p) ==
  /\ At(p, "r_close")
  /\ \/ ReplayClosed(p) /\ Return(p)
     \/ ReplayClosed(p) /\ Go(p, "r_fail")    \* applied, reported as error
     \/ row' = row /\ Go(p, "r_fail")
  /\ UNCHANGED <<lock, requests, sentOn, archive, polled, owner, day>>

ReplayFail(p) ==
  /\ At(p, "r_fail")
  /\ CloseRow(proc[p].run, "failed")
  /\ Return(p)
  /\ UNCHANGED <<lock, requests, sentOn, archive, polled, owner, day>>

-----------------------------------------------------------------------------
(* Failures and the environment.                                           *)

\* Where the `?` of a failed statement returns to: out of execute, so that the
\* run still closes, as failed; or out of run_locked, with the row left alone.
StatementFails(p) ==
  /\ \/ /\ proc[p].pc \in {"steps", "step_record", "step_beat", "due", "batch",
                           "record", "key", "predict"}
        /\ proc' = [proc EXCEPT ![p].pc = "close", ![p].error = TRUE]
     \/ /\ proc[p].pc \in {"open", "budget", "close", "r_source", "r_open", "r_fail"}
        /\ Return(p)
     \/ proc[p].pc \in {"try_lock", "r_try_lock"} /\ Go(p, "idle")
  /\ UNCHANGED <<lock, row, requests, sentOn, archive, polled, owner, day>>

\* The process is killed; its locals are lost, its session lingers.
Crash(p) ==
  /\ proc[p].pc \notin {"idle", "dead"}
  /\ proc' = [proc EXCEPT ![p] = [IdleProc EXCEPT !.pc = "dead"]]
  /\ UNCHANGED <<lock, row, requests, sentOn, archive, polled, owner, day>>

\* The database notices that the connection is gone, and the process restarts.
SessionEnds(p) ==
  /\ At(p, "dead")
  /\ lock' = IF lock = p THEN NoProc ELSE lock
  /\ Go(p, "idle")
  /\ UNCHANGED <<row, requests, sentOn, archive, polled, owner, day>>

\* One hour passes.  Only running rows are read for their heartbeat.
Hour ==
  /\ row' = [r \in RunId |->
               IF row[r].status = "running" /\ row[r].age <= AbandonAfter
               THEN [row[r] EXCEPT !.age = @ + 1] ELSE row[r]]
  /\ UNCHANGED <<lock, proc, requests, sentOn, archive, polled, owner, day>>

Midnight ==
  /\ day < MaxDay
  /\ day' = day + 1
  /\ UNCHANGED <<lock, proc, row, requests, sentOn, archive, polled, owner>>

Ingest(p) ==
  \/ TryLock(p, "try_lock", "open")
  \/ OpenRun(p, "open", "budget", "ingest")
  \/ ReadBudget(p)
  \/ StepTake(p) \/ StepRecord(p) \/ StepBeat(p) \/ StepFetch(p) \/ StepsDone(p)
  \/ PlanBatches(p) \/ TakeBatch(p) \/ RecordBatch(p) \/ Fetch(p)
  \/ ArchivePut(p) \/ RecordKey(p) \/ StoreBatch(p)
  \/ Predict(p) \/ CloseRun(p)

Replay(p) ==
  \/ TryLock(p, "r_try_lock", "r_source")
  \/ ReplaySource(p)
  \/ OpenRun(p, "r_open", "r_replace", "replay")
  \/ ReplayReplace(p) \/ ReplayClose(p) \/ ReplayFail(p)

\* A command that has started, until it returns or its process restarts.
Advance(p) ==
  Ingest(p) \/ Replay(p) \/ Release(p) \/ StatementFails(p) \/ SessionEnds(p)

Next == \/ \E p \in Proc : StartIngest(p) \/ StartReplay(p) \/ Advance(p) \/ Crash(p)
        \/ Hour \/ Midnight

Spec == Init /\ [][Next]_vars

\* Every await returns (the provider and the outbound client have a timeout,
\* the pool an acquire timeout), a killed container restarts, the serve loop
\* keeps ticking, and hours pass.
FairSpec ==
  /\ Spec
  /\ \A p \in Proc : WF_vars(Advance(p))
  /\ WF_vars(StartIngest(Server)) /\ WF_vars(Hour)

-----------------------------------------------------------------------------
(* Properties.                                                             *)

\* Every variable stays in its type.
TypeOK ==
  /\ lock \in Proc \cup {NoProc}
  /\ proc \in [Proc -> ProcState]
  /\ row \in [RunId -> RunRow]
  /\ requests \subseteq Key
  /\ DOMAIN sentOn \subseteq Key /\ sentOn \in [DOMAIN sentOn -> Nat]
  /\ archive \subseteq Key /\ polled \subseteq Key
  /\ DOMAIN owner \subseteq Key /\ owner \in [DOMAIN owner -> RunId]
  /\ day \in Nat

\* The requests made on day d, and those of them by runs that started on it.
SentOn(d) == {t \in DOMAIN sentOn : sentOn[t] = d}
SentByRunsOf(d) == {t \in SentOn(d) : row[t[1]].day = d}

\* The runs that start on a day never make more requests on that day than
\* daily_request_budget, however they interleave, fail, crash and restart:
\* each reads what the day has left under the lock, and counts a request in
\* its row before it makes it (requests_spent_today, record_request).
DailyBudgetKept == \A d \in 0..day : Cardinality(SentByRunsOf(d)) <= DailyBudget

\* Counting the run that was working at midnight as well, a day sees at most
\* twice the budget: only one run can hold the lock across a midnight, and it
\* brings no more than one budget over (run_locked reads the budget once).
DayAtMostDoubled == \A d \in 0..day : Cardinality(SentOn(d)) <= 2 * DailyBudget

\* What the process may still ask of the provider: what is left of its budget
\* and the request it has taken and not made.
InHand(p) == IF proc[p].pc \in {"step_record", "step_beat", "step_fetch",
                                "record", "fetch"} THEN 1 ELSE 0
MayMake(p) == proc[p].remaining + InHand(p)

\* The holder of the lock works for a run that started today, or earlier.
WorksForToday == lock \in Proc /\ proc[lock].run \in RunId
                   /\ row[proc[lock].run].day = day
WorksForBefore == lock \in Proc /\ proc[lock].run \in RunId
                   /\ row[proc[lock].run].day # day

\* The run control seen as the promise of module DailySpend.
Spend == INSTANCE DailySpend WITH
           Budget  <- DailyBudget,
           made    <- Cardinality(SentByRunsOf(day)),
           over    <- Cardinality(SentOn(day) \ SentByRunsOf(day)),
           promise <- IF WorksForToday THEN MayMake(lock) ELSE 0,
           carried <- IF WorksForBefore THEN MayMake(lock) ELSE 0

\* With all its locks, rows, crashes and failed statements the run control
\* does to the provider only what DailySpend allows: it never grants what the
\* day no longer has, and never has two grants out (run_locked, try_lock).
SpendsAsPromised == Spend!Spec

\* A request that reached the provider is counted in its run's row whatever
\* happens to the process afterwards (record_request comes before the fetch).
SpendSurvivesCrash == DOMAIN sentOn \subseteq requests

\* No poll and no observation comes from a payload that was not archived, nor
\* from one whose key its run had not recorded: a run killed at any point can
\* be replayed (fetch_and_archive, record_price_key).
ArchiveBeforeRows ==
  \A k \in polled \cup DOMAIN owner : k \in archive /\ k \in row[k[1]].keys

\* A payload's observations are filed under a run that lists its key, unless a
\* replay died or failed after its swap committed (replay_batches writes
\* price_keys only in close_run).
RowsReplayable ==
  \A k \in DOMAIN owner :
    \/ k \in row[owner[k]].keys
    \/ row[owner[k]].kind = "replay"
       /\ row[owner[k]].status \in {"running", "abandoned", "failed"}

\* A run that ends ok has stored a poll for every batch that was due: each
\* way of losing a batch degrades the run (Fetched::Skip, Fetched::Stop, a
\* payload that does not parse, a transaction that fails).
OkMeansEverythingPolled ==
  \A r \in RunId : row[r].kind = "ingest" /\ row[r].status = "ok" =>
    \A b \in 0..(row[r].due - 1) : <<r, b>> \in polled

\* The status an ingest run ended with never changes: the reaper takes only
\* running rows, and a late close_run is the run's own and comes once.
EndedIsFinal ==
  [][\A r \in RunId :
       row[r].kind = "ingest" /\ row[r].status \in Ended => row'[r].status = row[r].status]_vars

\* Observations leave a run only by a replay of that run, which files at least
\* one payload under its replacement (replace_run_observations).
OnlyReplayMovesRows ==
  [][\A r \in RunId : ~(Owned(r) \subseteq Owned(r)') =>
       \E p \in Proc : /\ proc[p].pc = "r_replace" /\ proc[p].orig = r
                       /\ ~(Owned(proc[p].run)' \subseteq Owned(proc[p].run))]_vars

\* Every row that is running is some day no longer so: its process closes it,
\* or it stops touching the heartbeat and a later start reaps it.
EveryRunEnds ==
  \A r \in RunId : row[r].status = "running" ~> row[r].status # "running"

\* Nobody keeps the lock for ever, so no run locks out the later ones.
LockIsFreed == \A p \in Proc : lock = p ~> lock # p

=============================================================================

------------------------------- MODULE Serve -------------------------------
(***************************************************************************)
(* The serve process: the backup loop of module Backups and, beside it,    *)
(* the interval task, which starts a run on every tick and says how it     *)
(* went: a heartbeat, a message to a channel, and what the health endpoint *)
(* answers meanwhile.  Both loops live and die with the process.           *)
(*                                                                         *)
(* A run is one step here (module IngestRuns has its steps): what counts   *)
(* is how it ends and whether it wrote a poll.                             *)
(***************************************************************************)
EXTENDS Backups

VARIABLES tick,      \* ingest_interval: where it is
          source,    \* the provider was connected
          result,    \* how the run of this tick closed
          stalled,   \* the newest poll is older than max_poll_age_seconds
          readable,  \* the poll history can be read
          said,      \* what the tick posted
          beaten     \* the tick sent a heartbeat

signals == <<tick, source, result, stalled, readable, said, beaten>>
serveVars == <<vars, signals>>

-----------------------------------------------------------------------------
(* A run as RunOutcome::Completed reports it: whether execute returned an  *)
(* error, the kinds of the reasons it degraded for, and whether it         *)
(* rejected all it read.                                                   *)

Closed == [error : BOOLEAN, reasons : SUBSET {"routine", "fault"}, all_rejected : BOOLEAN]
Nothing == [error |-> FALSE, reasons |-> {}, all_rejected |-> FALSE]

\* run_locked and Tally::status.
Status(run) == IF run.error THEN "failed"
               ELSE IF run.reasons # {} \/ run.all_rejected THEN "degraded" ELSE "ok"

\* What happened that is not routine.
Faulty(run) == run.error \/ run.all_rejected \/ "fault" \in run.reasons

\* poll_age of ingest_once: an error of the query is taken for no history.
KnownStalled == readable /\ stalled

\* Mutant: what the run says comes first.
MessageRunFirst(run) ==
  IF Status(run) = "ok" THEN "ok"
  ELSE IF KnownStalled THEN "stalled" ELSE "none"

\* notify::message: a stall before anything, then ok, then the reasons that
\* are not routine, if there are any.
Message(run) ==
  IF KnownStalled THEN "stalled"
  ELSE IF Status(run) = "ok" THEN "ok"
  ELSE IF "fault" \in run.reasons THEN "reasons" ELSE "none"

\* health: why the endpoint answers 503.
HealthReasons ==
  (IF readable THEN {} ELSE {"the poll history cannot be read"})
    \cup (IF KnownStalled THEN {"no poll"} ELSE {})

-----------------------------------------------------------------------------
ServeInit == /\ Init
             /\ tick = "off" /\ source = FALSE /\ result = Nothing
             /\ stalled = FALSE /\ readable = TRUE
             /\ said = "none" /\ beaten = FALSE

\* Both loops are spawned.
ServeBoot ==
  /\ Boot /\ tick' = "wait"
  /\ UNCHANGED <<source, result, stalled, readable, said, beaten>>

\* ticker.tick(): the provider is connected once, then every tick runs.
StartTick ==
  /\ tick = "wait"
  /\ tick' = IF source THEN "run" ELSE "connect"
  /\ said' = "none" /\ beaten' = FALSE
  /\ UNCHANGED <<vars, source, result, stalled, readable>>

ConnectSource ==
  /\ tick = "connect" /\ tick' = "run" /\ source' = TRUE
  /\ UNCHANGED <<vars, result, stalled, readable, said, beaten>>

\* The provider is down: no run, and the next tick tries again.
ConnectFails ==
  /\ tick = "connect" /\ tick' = "wait"
  /\ UNCHANGED <<vars, source, result, stalled, readable, said, beaten>>

\* The run closes; one that wrote a poll ends a stall.
RunCloses ==
  /\ tick = "run" /\ tick' = "signal"
  /\ result' \in Closed
  /\ \E polled \in BOOLEAN : stalled' = (stalled /\ ~polled)
  /\ UNCHANGED <<vars, source, readable, said, beaten>>

\* Another process holds the lock.
RunSkipped ==
  /\ tick = "run" /\ tick' = "wait"
  /\ UNCHANGED <<vars, source, result, stalled, readable, said, beaten>>

\* Mutant: a task that panicked takes the loop with it.
RunDiesWithLoop ==
  /\ tick = "run" /\ tick' = "off"
  /\ UNCHANGED <<vars, source, result, stalled, readable, said, beaten>>

\* The run returns an error or panics in a task of its own: it is logged.
RunDies ==
  /\ tick = "run" /\ tick' = "wait"
  /\ UNCHANGED <<vars, source, result, stalled, readable, said, beaten>>

\* heartbeat::send and notify::send; either may not arrive, which changes
\* nothing.
Signal ==
  /\ tick = "signal" /\ tick' = "wait"
  /\ beaten' \in {FALSE, Status(result) = "ok"}
  /\ said' \in {"none", Message(result)}
  /\ result' = Nothing
  /\ UNCHANGED <<vars, source, stalled, readable>>

\* No poll for longer than the limit.
FeedStalls ==
  /\ stalled' = TRUE
  /\ UNCHANGED <<vars, tick, source, result, readable, said, beaten>>

\* The database answers the age query, or does not.
HistoryRead ==
  /\ readable' = ~readable
  /\ UNCHANGED <<vars, tick, source, result, stalled, said, beaten>>

ServeCrash ==
  /\ Crash /\ tick' = "off" /\ source' = FALSE /\ result' = Nothing
  /\ said' = "none" /\ beaten' = FALSE
  /\ UNCHANGED <<stalled, readable>>

TickStep == \/ StartTick \/ ConnectSource \/ ConnectFails
            \/ RunCloses \/ RunSkipped \/ RunDies \/ Signal

BackupStep == (LoopStep \/ HandStep \/ Tick) /\ UNCHANGED signals

ServeNext == \/ ServeBoot \/ ServeCrash \/ BackupStep
             \/ TickStep \/ FeedStalls \/ HistoryRead

ServeSpec == ServeInit /\ [][ServeNext]_serveVars

\* The task goes on; now and then the provider can be connected, a run
\* closes, and a message arrives.
Arrives == Signal /\ said' = Message(result)
FairServe == /\ ServeSpec
             /\ WF_serveVars(TickStep)
             /\ SF_serveVars(ConnectSource) /\ SF_serveVars(RunCloses)
             /\ SF_serveVars(Arrives)

-----------------------------------------------------------------------------
(* Properties.                                                             *)

\* Every variable stays in its type, and the two loops live and die together.
TypeOK ==
  /\ BackupsTypeOK
  /\ tick = "off" <=> loop.pc = "down"
  /\ tick \in {"off", "wait", "connect", "run", "signal"}
  /\ source \in BOOLEAN /\ result \in Closed
  /\ stalled \in BOOLEAN /\ readable \in BOOLEAN
  /\ said \in {"none", "stalled", "ok", "reasons"} /\ beaten \in BOOLEAN

\* A stall that the health endpoint shows is announced in the channel again
\* and again while it lasts, whatever the runs say of themselves and however
\* many of them are skipped, fail or panic (ingest_interval, message).
StallIsAnnounced ==
  <>[](loop.pc # "down" /\ "no poll" \in HealthReasons) => []<>(said = "stalled")

-----------------------------------------------------------------------------
(* What the repository says of the code and the code does not do.          *)

\* "a message the moment something goes wrong that is not routine"
\* (notify.rs:5): a run that closed with a fault is not passed over when its
\* message arrives.
FaultsAreReported ==
  [][Arrives /\ Faulty(result) => said' # "none"]_serveVars

=============================================================================

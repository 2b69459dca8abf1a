------------------------------ MODULE Backups ------------------------------
(***************************************************************************)
(* The nightly database dumps: the loop of the serve process, which looks  *)
(* at the newest key, sleeps until a dump is due, dumps, stores and        *)
(* prunes, and the `backup` command, which does the same by hand at any    *)
(* time, on another host and with another clock.  The names of the stored  *)
(* dumps are the only memory: the process may be killed at any step.       *)
(*                                                                         *)
(* The clock counts ticks much longer than a listing or a delete of the    *)
(* loop takes.  A dump is named by the stamp it carries; two of one stamp  *)
(* have one key.                                                           *)
(***************************************************************************)
EXTENDS Integers, FiniteSets

CONSTANTS Interval,  \* BACKUP_INTERVAL
          Retry,     \* RETRY_AFTER_A_FAILED_DUMP
          MaxDump,   \* the longest a dump of the loop takes
          Keep,      \* config.backup_keep
          Ahead,     \* how far the clock of another host may be ahead
          MaxHands,  \* bound: dumps by hand
          MaxTime    \* bound: ticks

ASSUME BackupsAssumption ==
  /\ Interval \in Nat \ {0} /\ Retry \in Nat /\ MaxDump \in Nat
  /\ Retry + MaxDump <= Interval
  /\ Keep \in Nat /\ Ahead \in Nat /\ MaxHands \in Nat
  /\ MaxTime \in Nat /\ MaxTime >= Interval

VARIABLES now,       \* the clock
          store,     \* the stamps of the dumps under backup/pg
          loop,      \* backup_interval
          hand,      \* the `backup` command
          hands,     \* history: dumps started by hand
          taken,     \* history: the stamp of the loop's last stored dump
          fault      \* history: something failed since

vars == <<now, store, loop, hand, hands, taken, fault>>

-----------------------------------------------------------------------------
(* A process that dumps: where it is, the stamp of its dump, the keys its  *)
(* prune has still to delete, and when a sleeping loop wakes.              *)

Process(pc, stamp, stale, wake) ==
  [pc |-> pc, stamp |-> stamp, stale |-> stale, wake |-> wake]
At(pc) == Process(pc, 0, {}, 0)

LoopPc == {"down", "look", "sleep", "pause", "dump", "list", "delete"}
HandPc == {"idle", "dump", "list", "delete"}

\* The clock starts where a dump could already be an interval old.
Init == /\ now = Interval
        /\ store = {}
        /\ loop = At("down") /\ hand = At("idle") /\ hands = 0
        /\ taken = 0 /\ fault = TRUE

\* newest_taken_at: the last of the sorted keys.
Newest == CHOOSE k \in store : \A j \in store : j <= k

\* wait_for: zero without a dump, an interval after one stamped ahead of us,
\* else what is left of the interval.
WaitFor ==
  IF store = {} THEN 0
  ELSE IF Newest > now THEN Interval
  ELSE IF Interval > now - Newest THEN Interval - (now - Newest) ELSE 0

\* Mutant: the sort is the wrong way round.
StaleKeysInverted == {k \in store : Cardinality({j \in store : j < k}) >= Keep}

AtLeastOne == IF Keep > 1 THEN Keep ELSE 1

\* stale_keys: all but the newest `keep`, and never all.
StaleKeys == {k \in store : Cardinality({j \in store : j > k}) >= AtLeastOne}

-----------------------------------------------------------------------------
(* backup_interval.                                                        *)

Boot ==
  /\ loop.pc = "down" /\ loop' = At("look")
  /\ UNCHANGED <<now, store, hand, hands, taken, fault>>

Sleep(wait) == loop' = Process("sleep", 0, {}, now + wait)

Look ==
  /\ loop.pc = "look" /\ Sleep(WaitFor)
  /\ UNCHANGED <<now, store, hand, hands, taken, fault>>

\* Mutant: without a history the loop dumps.
LookFailsBlind ==
  /\ loop.pc = "look" /\ Sleep(0) /\ fault' = TRUE
  /\ UNCHANGED <<now, store, hand, hands, taken>>

\* The listing fails: a full interval, so as not to dump blind.
LookFails ==
  /\ loop.pc = "look" /\ Sleep(Interval) /\ fault' = TRUE
  /\ UNCHANGED <<now, store, hand, hands, taken>>

\* backup::run, stamped when it is called; the loop does not look again.
Wake ==
  /\ loop.pc = "sleep" /\ now >= loop.wake
  /\ loop' = Process("dump", now, {}, 0)
  /\ UNCHANGED <<now, store, hand, hands, taken, fault>>

Pause == loop' = Process("pause", 0, {}, now + Retry)

DumpFails ==
  /\ loop.pc = "dump" /\ Pause /\ fault' = TRUE
  /\ UNCHANGED <<now, store, hand, hands, taken>>

\* put_bytes: the dump is stored; when the answer is lost it was stored all
\* the same and the loop takes it for a failure.
Put ==
  /\ loop.pc = "dump"
  /\ store' = store \cup {loop.stamp}
  /\ taken' = loop.stamp
  /\ \/ loop' = At("list") /\ fault' = FALSE
     \/ Pause /\ fault' = TRUE
  /\ UNCHANGED <<now, hand, hands>>

\* prune: the keys to delete are chosen once.
List ==
  /\ loop.pc = "list"
  /\ loop' = IF StaleKeys = {} THEN At("look") ELSE Process("delete", 0, StaleKeys, 0)
  /\ UNCHANGED <<now, store, hand, hands, taken, fault>>

\* The dump is stored, and yet the run reports an error.
ListFails ==
  /\ loop.pc = "list" /\ Pause
  /\ UNCHANGED <<now, store, hand, hands, taken, fault>>

\* The oldest first; a delete that fails is passed over.
Delete ==
  /\ loop.pc = "delete"
  /\ \E k \in loop.stale :
       /\ \A j \in loop.stale : k <= j
       /\ store' \in {store, store \ {k}}
       /\ loop' = IF loop.stale = {k} THEN At("look")
                  ELSE [loop EXCEPT !.stale = @ \ {k}]
  /\ UNCHANGED <<now, hand, hands, taken, fault>>

\* The pause after a failure is over.
Resume ==
  /\ loop.pc = "pause" /\ now >= loop.wake
  /\ loop' = At("look")
  /\ UNCHANGED <<now, store, hand, hands, taken, fault>>

\* The process is killed or deployed again, which is no fault where it only
\* waited or tidied up.
Crash ==
  /\ loop.pc # "down" /\ loop' = At("down")
  /\ fault' = (fault \/ loop.pc = "dump")
  /\ UNCHANGED <<now, store, hand, hands, taken>>

-----------------------------------------------------------------------------
(* fc-market backup.                                                       *)

HandStart ==
  /\ hand.pc = "idle" /\ hands < MaxHands
  /\ \E ahead \in 0..Ahead : hand' = Process("dump", now + ahead, {}, 0)
  /\ hands' = hands + 1
  /\ UNCHANGED <<now, store, loop, taken, fault>>

HandPut ==
  /\ hand.pc = "dump"
  /\ store' = store \cup {hand.stamp}
  /\ hand' = At("list")
  /\ UNCHANGED <<now, loop, hands, taken, fault>>

HandList ==
  /\ hand.pc = "list"
  /\ hand' = IF StaleKeys = {} THEN At("idle") ELSE Process("delete", 0, StaleKeys, 0)
  /\ UNCHANGED <<now, store, loop, hands, taken, fault>>

HandDelete ==
  /\ hand.pc = "delete"
  /\ \E k \in hand.stale :
       /\ \A j \in hand.stale : k <= j
       /\ store' \in {store, store \ {k}}
       /\ hand' = IF hand.stale = {k} THEN At("idle")
                  ELSE [hand EXCEPT !.stale = @ \ {k}]
  /\ UNCHANGED <<now, loop, hands, taken, fault>>

\* pg_dump, the store or the operator ends the command.
HandEnds ==
  /\ hand.pc # "idle" /\ hand' = At("idle")
  /\ UNCHANGED <<now, store, loop, hands, taken, fault>>

-----------------------------------------------------------------------------
\* The loop's own work is done before a tick; only its sleeps and its dump
\* last.  A tick the process is not up for is a fault.
Resting ==
  \/ loop.pc = "down"
  \/ loop.pc \in {"sleep", "pause"} /\ now < loop.wake
  \/ loop.pc = "dump" /\ now < loop.stamp + MaxDump

Tick ==
  /\ now < MaxTime /\ Resting
  /\ now' = now + 1
  /\ fault' = (fault \/ loop.pc = "down")
  /\ UNCHANGED <<store, loop, hand, hands, taken>>

LoopStep == \/ Look \/ LookFails \/ Wake \/ DumpFails \/ Put
            \/ List \/ ListFails \/ Delete \/ Resume
HandStep == HandStart \/ HandPut \/ HandList \/ HandDelete \/ HandEnds

Next == Boot \/ LoopStep \/ Crash \/ HandStep \/ Tick

Spec == Init /\ [][Next]_vars

-----------------------------------------------------------------------------
(* Properties.                                                             *)

Stamps == 0..(MaxTime + Ahead)

\* Every variable stays in its type.
BackupsTypeOK ==
  /\ now \in Interval..MaxTime
  /\ store \subseteq Stamps
  /\ loop \in [pc : LoopPc, stamp : Stamps, stale : SUBSET Stamps, wake : Nat]
  /\ hand \in [pc : HandPc, stamp : Stamps, stale : SUBSET Stamps, wake : Nat]
  /\ hands \in 0..MaxHands
  /\ taken \in Stamps /\ fault \in BOOLEAN

\* A dump that goes leaves behind as many newer ones as are to be kept, also
\* when the loop and a command prune at once, each from a listing the other has
\* made stale, and while late and ill stamped dumps arrive (prune, stale_keys).
NewestDumpsKept ==
  [][\A k \in store \ store' : Cardinality({j \in store' : j > k}) >= AtLeastOne]_vars

Clock == INSTANCE DumpClock WITH newest <- IF store = {} THEN 0 ELSE Newest

\* The loop implements DumpClock: its dumps are an interval apart through crash
\* loops and failed listings, and the newest dump gets no older than an interval
\* and a dump, however often the process is deployed again, unless a dump or a
\* listing failed or the process stayed down (backup_interval, wait_for).
KeepsTime == Clock!Spec

=============================================================================

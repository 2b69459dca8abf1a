----------------------------- MODULE DumpClock -----------------------------
(***************************************************************************)
(* What the backup loop promises, with none of its mechanism: scheduled    *)
(* dumps are at least an interval apart, however often the process is      *)
(* restarted; the newest dump kept is never lost; and it never gets older  *)
(* than an interval and the length of a dump, unless something failed      *)
(* since the last scheduled one.  Module Backups is shown to implement     *)
(* this one.                                                               *)
(***************************************************************************)
EXTENDS Integers

CONSTANTS Interval,   \* between two scheduled dumps
          MaxDump     \* the longest a dump takes

VARIABLES now,        \* the clock
          taken,      \* when the last scheduled dump was taken
          newest,     \* when the newest dump that is kept was taken
          fault       \* something failed since the last scheduled dump

vars == <<now, taken, newest, fault>>

Init == now = Interval /\ taken = 0 /\ newest = 0 /\ fault = TRUE

\* Time passes, but not beyond the promise.
Pass == /\ fault' \/ now - newest < Interval + MaxDump
        /\ now' = now + 1
        /\ fault' \in {fault, TRUE}
        /\ UNCHANGED <<taken, newest>>

Scheduled == /\ taken' \in (taken + Interval)..now
             /\ newest' = IF taken' > newest THEN taken' ELSE newest
             /\ fault' \in BOOLEAN
             /\ UNCHANGED now

\* A dump that is not the loop's; its clock may be ahead.
ByHand == /\ newest' \in Nat /\ newest' > newest
          /\ UNCHANGED <<now, taken, fault>>

Fails == fault' = TRUE /\ UNCHANGED <<now, taken, newest>>

Next == Pass \/ Scheduled \/ ByHand \/ Fails

Spec == Init /\ [][Next]_vars

=============================================================================

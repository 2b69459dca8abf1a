----------------------------- MODULE DailySpend -----------------------------
(***************************************************************************)
(* What the run control promises the provider, with none of its mechanism: *)
(* no lock, no run rows, no processes.  A day has a budget.  A run is      *)
(* granted what the day has left, makes its calls out of that, and may     *)
(* lose the rest; at midnight what it still holds is carried into the new  *)
(* day, where it comes on top of that day's own budget.                    *)
(* Module IngestRuns is shown to implement this one.                       *)
(***************************************************************************)
EXTENDS Integers

CONSTANT Budget

VARIABLES day,     \* the UTC day
          made,    \* calls made today by runs that started today
          over,    \* calls made today by a run of an earlier day
          promise, \* calls the run of today that is at work may still make
          carried  \* calls a run of an earlier day may still make

vars == <<day, made, over, promise, carried>>

Init == day = 0 /\ made = 0 /\ over = 0 /\ promise = 0 /\ carried = 0

\* A run of today reads its budget: no more than today's runs have left.
Grant == /\ promise = 0 /\ carried = 0
         /\ promise' \in 0..(Budget - made)
         /\ UNCHANGED <<day, made, over, carried>>

\* A run that was opened before midnight and reads its budget after it: the
\* new day has seen no call yet, so it is granted up to a whole budget.
GrantOver == /\ promise = 0 /\ carried = 0 /\ made = 0 /\ over = 0
             /\ carried' \in 0..Budget
             /\ UNCHANGED <<day, made, over, promise>>

Call == /\ promise > 0
        /\ promise' = promise - 1 /\ made' = made + 1
        /\ UNCHANGED <<day, over, carried>>

CallOver == /\ carried > 0
            /\ carried' = carried - 1 /\ over' = over + 1
            /\ UNCHANGED <<day, made, promise>>

\* A run ends, dies or fails, and what it had not used is gone.
Forfeit == /\ promise' \in 0..promise /\ carried' \in 0..carried
           /\ UNCHANGED <<day, made, over>>

\* Midnight: nobody has called on the new day, and whoever is at work has
\* become a run of an earlier day.
NewDay == /\ day' = day + 1
          /\ made' = 0 /\ over' = 0 /\ promise' = 0
          /\ carried' = promise + carried

Next == Grant \/ GrantOver \/ Call \/ CallOver \/ Forfeit \/ NewDay

Spec == Init /\ [][Next]_vars

-----------------------------------------------------------------------------
\* A day's own runs keep its budget, one carried run keeps one more, and only
\* one run at a time holds a promise.
Kept == /\ day \in Nat /\ made \in Nat /\ over \in Nat
        /\ promise \in Nat /\ carried \in Nat
        /\ made + promise <= Budget
        /\ over + carried <= Budget
        /\ promise = 0 \/ carried = 0

\* What the provider can see on one day is at most two budgets.
AtMostDoubled == made + over <= 2 * Budget

=============================================================================

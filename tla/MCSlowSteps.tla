---------------------------- MODULE MCSlowSteps -----------------------------
(* SlowSteps on small instances: one reference list, two or none.      *)
EXTENDS SlowSteps

Lists == <<"league", "nation">>
OneList == <<"league">>
NoList == <<>>

=============================================================================

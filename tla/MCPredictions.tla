--------------------------- MODULE MCPredictions ---------------------------
(* Predictions on two cards and two markets. *)
EXTENDS Predictions

\* Dear in one market and cheap in the other, or cheap in one and refused in
\* the other.
SomeQuotes == {<<3, 2>>, <<2, 0>>}

\* The better parser refuses one price and finds the other on the floor.
SomeReparses == {<<1, 0, 1>>}

\* A base card, a promotional one that comes first by name, and one that was
\* listed without a rating.
Base == [class |-> 1, cohort |-> 1, name |-> 2]
Promo == [class |-> 2, cohort |-> 2, name |-> 1]
Listed == [class |-> Unrated, cohort |-> 3, name |-> 2]
SomeAttr == {Base, Promo, Listed}

\* One card has its rating, the other is new.
OneListed == {<<Base, Listed>>}

=============================================================================

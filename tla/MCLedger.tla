------------------------------ MODULE MCLedger ------------------------------
(* Ledger on small instances.  "p" is read alike by both parsers, "odd" is *)
(* misread by the first as what "p" says, "new" cannot be parsed by it,    *)
(* "nil" is no price.                                                      *)
EXTENDS Ledger

Q(pair, raw, at, same) == [pair |-> pair, raw |-> raw, at |-> at, same |-> same]

\* A price, its restatement at the same instant, a stamp that is ahead of an
\* early run and behind a late one, and ways of being refused.
SomeQuotes ==
  {Q("a", "p", 1, TRUE), Q("a", "odd", 1, TRUE), Q("a", "p", 3, TRUE),
   Q("a", "nil", 1, TRUE), Q("a", "new", 0, FALSE), Q("unknown", "p", NoTime, TRUE)}

\* The first three.
FewQuotes ==
  {Q("a", "p", 1, TRUE), Q("a", "odd", 1, TRUE), Q("a", "p", 3, TRUE)}

ReadsByVersion ==
  <<[p |-> 10, odd |-> 10, new |-> Unparsable, nil |-> NoPrice],
    [p |-> 10, odd |-> 12, new |-> 13, nil |-> NoPrice]>>

=============================================================================

---------------------------- MODULE Observations ----------------------------
(***************************************************************************)
(* The two tables every price ends up in, market_observations and          *)
(* ingest_polls, with what all their readers and writers share: the        *)
(* idempotency index, the rows filed under a run, and the one definition   *)
(* of a price worth reasoning from, trusted_latest_prices(as_of, max_age). *)
(*                                                                         *)
(* An observation is [pair, at, price, run, ingested]: observed by the     *)
(* provider at `at`, filed under a run, stored by a transaction that began *)
(* at `ingested`.  A poll is [pair, at, outcome].                          *)
(***************************************************************************)
EXTENDS Integers

CONSTANT MaxAge      \* TRUSTED_PRICE_MAX_AGE_SECONDS

VARIABLES rows,      \* market_observations
          polls      \* ingest_polls

-----------------------------------------------------------------------------
\* What a poll reports; the last two are failures to read.
Outcome == {"written", "unchanged", "rejected", "no_price"}

\* market_observations_idem_idx: the run and ingested_at are not in the key.
Fact(row) == <<row.pair, row.at, row.price>>
Facts(set) == {Fact(row) : row \in set}

\* insert_observation for each: ON CONFLICT DO NOTHING.
Inserted(new, held) == {row \in new : Fact(row) \notin Facts(held)}

\* WHERE ingest_run_id = o.
Held(o) == {row \in rows : row.run = o}

-----------------------------------------------------------------------------
(* trusted_latest_prices(as_of, max_age).                                  *)

\* The newest poll of a pair inside the window.
Live(p, asOf) ==
  LET seen == {poll \in polls : /\ poll.pair = p
                                /\ poll.at <= asOf /\ poll.at > asOf - MaxAge} IN
  {poll \in seen : \A other \in seen : other.at <= poll.at}

\* Mutant: what was known is bounded by the time of the price.
KnownByObservation(p, asOf) == {row \in rows : row.pair = p /\ row.at <= asOf}

\* What was known at that time.
Known(p, asOf) == {row \in rows : row.pair = p /\ row.ingested <= asOf}

\* The rows that ORDER BY observed_at DESC LIMIT 1 may return.
Latest(p, asOf) ==
  {row \in Known(p, asOf) : \A other \in Known(p, asOf) : other.at <= row.at}

Trusted(p, asOf) == \E poll \in Live(p, asOf) : poll.outcome \in {"written", "unchanged"}

\* The prices the query may give for a pair.
Answer(p, asOf) ==
  IF Trusted(p, asOf) THEN {row.price : row \in Latest(p, asOf)} ELSE {}

=============================================================================

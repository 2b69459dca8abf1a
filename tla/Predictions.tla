---------------------------- MODULE Predictions ----------------------------
(***************************************************************************)
(* The claims the last step of a run writes down, and how they are scored: *)
(* which cards are cheap against their class, as of the start of the run,  *)
(* one claim a card, a market at a time, once per cadence.  Runs rewrite   *)
(* the attributes that class and cohort are made of, then read prices, and *)
(* then claim; replays rewrite old prices between runs, and a run may fail *)
(* or die at every statement.                                              *)
(*                                                                         *)
(* One process is at work at a time (module IngestRuns).  Every action     *)
(* that stamps or reads the clock takes one instant of it; the stamps a    *)
(* batch takes while it is written (polled_at, ingested_at) are one.  Of a *)
(* card's attributes three things are kept: its class (rarity, version and *)
(* rating), its cohort (version and rating band) and its name's rank.      *)
(***************************************************************************)
EXTENDS Observations, FiniteSets, Sequences

CONSTANTS Asset,     \* cards; numbers, as the ranking ends with id
          Market,    \* markets; numbers, as they are taken in order
          Price,     \* prices
          Quotes,    \* what a provider may state of a card: a price or a
                     \* refused one (0) for each market
          Reparses,  \* what another parser makes of each price
          Attr,      \* attributes of a card: class, cohort and name
          FirstAttrs, \* the attributes the cards may begin with
          Floor,     \* min_price: what is not above it is at_floor
          MinClass,  \* the class size below which value_ratio is null
          TopN,      \* config.predictions_per_market
          Cadence,   \* config.prediction_cadence_seconds
          Horizon,   \* config.prediction_horizon_seconds
          MaxTime,   \* bound: instants
          MaxBatches, \* bound: batches that are stored
          MaxReplays, \* bound: replays
          MaxRefreshes \* bound: rewritten attributes

ASSUME PredictionsAssumption ==
  /\ Asset \subseteq Nat /\ IsFiniteSet(Asset)
  /\ Market \subseteq Nat /\ IsFiniteSet(Market)
  /\ Price \subseteq Nat \ {0} /\ Floor \in Nat
  /\ Quotes \subseteq [Market -> Price \cup {0}]
  /\ Reparses \subseteq [Price -> Price \cup {0}]
  /\ Attr \subseteq [class : Nat, cohort : Nat, name : Nat]
  /\ FirstAttrs \subseteq [Asset -> Attr]
  /\ MinClass \in Nat /\ TopN \in Nat /\ Cadence \in Nat
  /\ Horizon \in Nat \ {0} /\ MaxAge \in Nat
  /\ MaxTime \in Nat /\ MaxBatches \in Nat /\ MaxReplays \in Nat
  /\ MaxRefreshes \in Nat

VARIABLES now,       \* the clock
          attrs,     \* assets: what is known of each card
          runs,      \* ingest_runs: started, status, step flag
          pc,        \* where the process at work is
          tx,        \* the price batch whose transaction is open
          todo,      \* markets the step has not reached
          picks,     \* picks of the market in hand, not inserted yet
          claims,    \* predictions
          replays,   \* history: when replays changed the ledger
          seen,      \* history: the attributes a step ranked by, by made_at
          refreshes  \* history: how many attributes were rewritten

vars == <<now, attrs, runs, rows, polls, pc, tx, todo, picks, claims,
          replays, seen, refreshes>>

-----------------------------------------------------------------------------
Pair == Asset \X Market
NoBatch == [began |-> 0, new |-> {}, polled |-> {}]
Pc == {"idle", "steps", "prices", "commit", "rank", "insert", "close"}
Status == {"running", "closed", "failed"}

Current == Len(runs)
MadeAt == runs[Current].started
Instant == 1..MaxTime

Init == /\ now = 1 /\ runs = <<>>
        /\ rows = {} /\ polls = {}
        /\ pc = "idle" /\ tx = NoBatch /\ todo = {} /\ picks = {}
        /\ claims = {} /\ replays = {} /\ refreshes = 0
        /\ attrs \in FirstAttrs /\ seen = [t \in Instant |-> attrs]

-----------------------------------------------------------------------------
(* The class median and the picks.                                         *)

Readable(m, asOf) == {a \in Asset : Answer(<<a, m>>, asOf) # {}}

\* What the ranking may read: where two rows of a card share the newest
\* observed_at the query returns either.
Readings(m, asOf) ==
  {f \in [Readable(m, asOf) -> Price] :
     \A a \in DOMAIN f : f[a] \in Answer(<<a, m>>, asOf)}

\* The class of a card that has no rating is in no group.
Unrated == 0

\* Floored cards are in no class and no cohort.
Unfloored(f) == {a \in DOMAIN f : f[a] > Floor}

\* The cards a card is measured against (GROUP BY rarity, version, rating).
Bucket(a, f, of) == {b \in Unfloored(f) : of[b].class = of[a].class}

\* Twice percentile_cont(0.5), and nothing where there is no price.
Median(set, f) ==
  LET below(a) == {b \in set : f[b] < f[a] \/ (f[b] = f[a] /\ b < a)}
      at(k) == f[CHOOSE a \in set : Cardinality(below(a)) = k]
      n == Cardinality(set) IN
  IF set = {} THEN 0 ELSE at((n - 1) \div 2) + at(n \div 2)

\* A row of the valuation, as it is stored: with the median of the class and
\* the cohort the card is in.
Claim(m, a, made, f, of) ==
  [market |-> m, asset |-> a, made |-> made, price |-> f[a],
   median |-> Median(Bucket(a, f, of), f), cohort |-> of[a].cohort]

\* The cards with a value_ratio: it is null in a thin class and without a
\* rating.
Valued(m, asOf, f, of) ==
  {Claim(m, a, asOf, f, of) :
     a \in {a \in Unfloored(f) : /\ of[a].class # Unrated
                                /\ Cardinality(Bucket(a, f, of)) >= MinClass}}

\* ORDER BY value_ratio, name, id.
Cheaper(c, d, of) ==
  \/ c.price * d.median < d.price * c.median
  \/ /\ c.price * d.median = d.price * c.median
     /\ \/ of[c.asset].name < of[d.asset].name
        \/ of[c.asset].name = of[d.asset].name /\ c.asset < d.asset

Cheapest(values, of) ==
  {c \in values : Cardinality({d \in values : Cheaper(d, c, of)}) < TopN}

\* What record_picks may choose for a market as of a time, where the cards
\* have these attributes: the query joins the attributes of today.
Pickings(m, asOf, of) ==
  {Cheapest(Valued(m, asOf, f, of), of) : f \in Readings(m, asOf)}

-----------------------------------------------------------------------------
(* The run up to the claims.                                               *)

Takes == now <= MaxTime /\ now' = now + 1

OpenRun ==
  /\ pc = "idle" /\ Takes
  /\ runs' = Append(runs, [started |-> now, status |-> "running", marked |-> FALSE])
  /\ pc' = "steps"
  /\ UNCHANGED <<attrs, rows, polls, tx, todo, picks, claims, replays, seen, refreshes>>

\* update_asset_attributes, in the walks and the metadata step: whatever the
\* provider states of the card now, a transaction a card.  (To state what is
\* held already changes nothing.)
Refresh(a) ==
  /\ pc = "steps" /\ refreshes < MaxRefreshes
  /\ \E attr \in Attr \ {attrs[a]} : attrs' = [attrs EXCEPT ![a] = attr]
  /\ refreshes' = refreshes + 1
  /\ UNCHANGED <<now, runs, rows, polls, pc, tx, todo, picks, claims, replays, seen>>

\* The slow steps are done, and prices are read.
StartPrices ==
  /\ pc = "steps" /\ pc' = "prices"
  /\ UNCHANGED <<now, attrs, runs, rows, polls, tx, todo, picks, claims,
                 replays, seen, refreshes>>

\* ingest_batch of one card up to the transaction's last insert: each market's
\* pair is priced, now or at some earlier instant, or refused.
BeginBatch(a) ==
  /\ pc = "prices" /\ Takes
  /\ Cardinality({poll.at : poll \in polls}) < MaxBatches
  /\ \E at \in {1, now}, quote \in Quotes :
       LET stated == {[pair |-> <<a, m>>, at |-> at, price |-> quote[m],
                       run |-> Current, ingested |-> now] :
                        m \in {m \in Market : quote[m] # 0}}
           new == Inserted(stated, rows)
           outcome(m) == IF quote[m] = 0 THEN "rejected"
                         ELSE IF \E row \in new : row.pair = <<a, m>>
                         THEN "written" ELSE "unchanged" IN
       tx' = [began |-> now, new |-> new,
              polled |-> {[pair |-> <<a, m>>, at |-> now, outcome |-> outcome(m)] : m \in Market}]
  /\ pc' = "commit"
  /\ UNCHANGED <<attrs, runs, rows, polls, todo, picks, claims, replays, seen, refreshes>>

\* write_polls commits.
CommitBatch ==
  /\ pc = "commit" /\ pc' = "prices"
  /\ rows' = rows \cup tx.new
  /\ polls' = polls \cup tx.polled
  /\ tx' = NoBatch
  /\ UNCHANGED <<now, attrs, runs, todo, picks, claims, replays, seen, refreshes>>

\* The transaction fails: the batch is lost and the loop goes on.
LoseBatch ==
  /\ pc = "commit" /\ pc' = "prices"
  /\ tx' = NoBatch
  /\ UNCHANGED <<now, attrs, runs, rows, polls, todo, picks, claims,
                 replays, seen, refreshes>>

-----------------------------------------------------------------------------
(* maybe_record.                                                           *)

\* Mutant: only a run that was closed counts.
DoneRunsClosed == {r \in DOMAIN runs : runs[r].marked /\ runs[r].status = "closed"}

\* seconds_since_step: the marked runs that did not fail.
DoneRuns == {r \in DOMAIN runs : runs[r].marked /\ runs[r].status # "failed"}

\* is_due, asked when the prices are done.
IsDue == \A r \in DoneRuns : now - runs[r].started >= Cadence

MaybeRecord ==
  /\ pc = "prices" /\ Takes
  /\ IF IsDue
     THEN pc' = "rank" /\ todo' = Market /\ seen' = [seen EXCEPT ![MadeAt] = attrs]
     ELSE pc' = "close" /\ UNCHANGED <<todo, seen>>
  /\ UNCHANGED <<attrs, runs, rows, polls, tx, picks, claims, replays, refreshes>>

\* let made_at = run.started_at.
AsOf == MadeAt

\* record_picks: the ranking of the next market, as of made_at.
Rank ==
  /\ pc = "rank" /\ todo # {}
  /\ \E m \in todo :
       /\ \A n \in todo : m <= n
       /\ todo' = todo \ {m}
       /\ picks' \in Pickings(m, AsOf, attrs)
  /\ pc' = IF picks' = {} THEN "rank" ELSE "insert"
  /\ UNCHANGED <<now, attrs, runs, rows, polls, tx, claims,
                 replays, seen, refreshes>>

\* INSERT INTO predictions for the next pick, a statement each.
InsertClaim ==
  /\ pc = "insert"
  /\ \E c \in picks :
       /\ \A d \in picks : ~Cheaper(d, c, attrs)
       /\ claims' = claims \cup {c}
       /\ picks' = picks \ {c}
  /\ pc' = IF picks' = {} THEN "rank" ELSE "insert"
  /\ UNCHANGED <<now, attrs, runs, rows, polls, tx, todo,
                 replays, seen, refreshes>>

\* Mutant: one market that was claimed marks the step.
MarketsDoneSome == todo # Market

MarketsDone == todo = {}

\* record_step, whatever was written.
MarkStep ==
  /\ pc = "rank" /\ MarketsDone
  /\ runs' = [runs EXCEPT ![Current].marked = TRUE]
  /\ todo' = {} /\ pc' = "close"
  /\ UNCHANGED <<now, attrs, rows, polls, tx, picks, claims,
                 replays, seen, refreshes>>

CloseRun ==
  /\ pc = "close" /\ pc' = "idle"
  /\ runs' = [runs EXCEPT ![Current].status = "closed"]
  /\ UNCHANGED <<now, attrs, rows, polls, tx, todo, picks, claims,
                 replays, seen, refreshes>>

-----------------------------------------------------------------------------
(* Failures and replays.                                                   *)

Leave == pc' = "idle" /\ tx' = NoBatch /\ todo' = {} /\ picks' = {}

\* A statement of the step fails and the run closes failed; record_step may
\* have reached the row all the same.
StatementFails ==
  /\ pc \in {"steps", "prices", "rank", "insert"}
  /\ \E marked \in {FALSE, pc = "rank" /\ MarketsDone} :
       runs' = [runs EXCEPT ![Current] = [@ EXCEPT !.status = "failed", !.marked = marked]]
  /\ Leave
  /\ UNCHANGED <<now, attrs, rows, polls, claims, replays, seen, refreshes>>

\* The process is killed, or close_run fails: the row stays as it is, and an
\* open transaction is rolled back.
Crash ==
  /\ pc # "idle" /\ Leave
  /\ UNCHANGED <<now, attrs, runs, rows, polls, claims,
                 replays, seen, refreshes>>

\* Mutant: a price that is refused now is stored as nothing.
RestatedRefused(r, read) ==
  {[row EXCEPT !.price = read[row.price], !.ingested = now] : row \in Held(r)}

\* The rows of a run as another parser reads them, under the replay's clock.
Restated(r, read) ==
  {[row EXCEPT !.price = read[row.price], !.ingested = now] :
     row \in {row \in Held(r) : read[row.price] # 0}}

\* replace_run_observations, which refuses to leave nothing.
Replay(r) ==
  /\ pc = "idle" /\ Takes /\ Held(r) # {} /\ Cardinality(replays) < MaxReplays
  /\ \E read \in Reparses :
       LET new == Inserted(Restated(r, read), rows \ Held(r)) IN
       /\ new # {}
       /\ rows' = (rows \ Held(r)) \cup new
  /\ replays' = replays \cup {now}
  /\ UNCHANGED <<attrs, runs, polls, pc, tx, todo, picks, claims, seen, refreshes>>

Next == \/ OpenRun \/ StartPrices \/ CommitBatch \/ LoseBatch
        \/ MaybeRecord \/ Rank \/ InsertClaim \/ MarkStep \/ CloseRun
        \/ StatementFails \/ Crash
        \/ \E a \in Asset : Refresh(a) \/ BeginBatch(a)
        \/ \E r \in DOMAIN runs : Replay(r)

Spec == Init /\ [][Next]_vars

-----------------------------------------------------------------------------
(* score_matured(as_of).                                                   *)

\* cohort_move's reading of one end: the median of the claim's cohort, which
\* is the unfloored cards that are of its version and band today.
CohortAt(c, t, of) ==
  {Median({a \in Unfloored(f) : of[a].cohort = c.cohort}, f) : f \in Readings(c.market, t)}

\* Claims that are due and whose card can be read, with the prices it is
\* scored by and both ends of the cohort's move.
Scores(asOf, of) ==
  {[claim |-> c, price_now |-> Answer(<<c.asset, c.market>>, asOf),
    from |-> CohortAt(c, c.made, of), to |-> CohortAt(c, asOf, of)] :
     c \in {c \in claims : /\ c.made + Horizon <= asOf
                           /\ Answer(<<c.asset, c.market>>, asOf) # {}}}

-----------------------------------------------------------------------------
(* Properties.                                                             *)

Row == [pair : Pair, at : Instant, price : Price, run : DOMAIN runs, ingested : Instant]
Poll == [pair : Pair, at : Instant, outcome : Outcome]
ClaimTyped(c) ==
  c.market \in Market /\ c.asset \in Asset /\ c.made \in Instant /\ c.price \in Price

\* Every variable stays in its type.
TypeOK ==
  /\ now \in 1..(MaxTime + 1)
  /\ runs \in Seq([started : Instant, status : Status, marked : BOOLEAN])
  /\ pc \in Pc /\ (pc # "idle" => Current > 0)
  /\ tx.began \in 0..MaxTime
  /\ rows \cup tx.new \subseteq Row
  /\ polls \cup tx.polled \subseteq Poll
  /\ todo \subseteq Market
  /\ \A c \in claims \cup picks : ClaimTyped(c)
  /\ replays \subseteq Instant
  /\ attrs \in [Asset -> Attr] /\ seen \in [Instant -> [Asset -> Attr]]
  /\ refreshes \in 0..MaxRefreshes

ClaimsOf(r, m) == {c \in claims : c.made = runs[r].started /\ c.market = m}

\* A run that is marked has, in every market, exactly the claims that today's
\* ledger gives for its start under the attributes the step saw, as long as no
\* replay has rewritten prices since: what the run itself wrote, late prices,
\* later runs and failures in between change nothing ("recomputes exactly").
\* Under the attributes of a later day the claims may be others: those are not
\* kept.
MarkedClaimsRecompute ==
  \A r \in DOMAIN runs : runs[r].marked /\ (\A t \in replays : t < runs[r].started) =>
    \A m \in Market :
      ClaimsOf(r, m) \in Pickings(m, runs[r].started, seen[runs[r].started])

\* A question about a time is settled once no batch that was stamped at or
\* before it is still open, and no run that would be due by then still claims.
Settled(t) ==
  /\ t < now
  /\ pc = "commit" => t < tx.began
  /\ pc \in {"rank", "insert"} => t < MadeAt + Horizon

\* What was asked of the past and has settled is answered alike for ever, and
\* so are the scores of the claims that were due, for every assignment of
\* attributes to the cards; only a replay may change the one, and a replay or
\* a card's new attributes, which move it between cohorts, the other.
SettledAnswersStand ==
  [][replays' = replays /\ <<rows, polls, claims>>' # <<rows, polls, claims>> =>
       \A t \in 1..MaxTime : Settled(t) =>
         /\ \A p \in Pair : Answer(p, t)' = Answer(p, t)
         /\ \A of \in [Asset -> Attr] : Scores(t, of)' = Scores(t, of)]_vars

\* When the run after r was opened.
Followed(r) == IF r + 1 \in DOMAIN runs THEN runs[r + 1].started ELSE now

\* No run claims again before a whole cadence has passed since a run that was
\* done, however runs fail or die; the claims of a run that failed half way do
\* not count for this (seconds_since_step, is_due).
NoSecondOpinion ==
  \A r, s \in DOMAIN runs :
    /\ r < s /\ runs[r].marked /\ runs[r].status # "failed"
    /\ \E m \in Market : ClaimsOf(s, m) # {}
  => Followed(s) - runs[r].started > Cadence

=============================================================================

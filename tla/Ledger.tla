------------------------------- MODULE Ledger -------------------------------
(***************************************************************************)
(* What a price batch and a replay put into the ledger: the rules that     *)
(* accept or refuse a quote, the idempotency index of market_observations, *)
(* the poll rows, the counts of a run and the swap of a replay under       *)
(* another parser.                                                         *)
(*                                                                         *)
(* The lock keeps writers apart and every write here is one transaction    *)
(* (module IngestRuns has the steps and the crashes in between), so a run  *)
(* of one batch is one action, with the ways it may be cut short between   *)
(* the transaction and the close of its row as choices.  Each action takes *)
(* one instant of the clock: it starts, polls and writes at `now`.         *)
(***************************************************************************)
EXTENDS Observations, FiniteSets, Sequences, FiniteSetsExt

CONSTANTS Pair,      \* (asset, market) pairs that resolve
          Quotes,    \* raw quotes a provider may state
          Version,   \* parser versions, the numbers 1..n in order
          Reads,     \* Reads[v][raw]: the price version v reads, see below
          Released,  \* game.released_at
          Slack,     \* the five minutes of rule 2
          MaxRuns,   \* bound: actions that take an instant
          MaxIngests,\* bound: ingest runs among them
          MaxCut     \* bound: runs and replays among them that end uncounted

\* What a parser makes of a raw price: a number, no usable price (0), or an
\* error that fails the whole payload.
NoPrice == 0
Unparsable == -1
NoTime == -1

End == {"counted", "refused", "uncounted"}

ASSUME LedgerAssumption ==
  /\ \A q \in Quotes : /\ q.pair \in Pair \cup {"unknown"}
                       /\ q.at \in Nat \cup {NoTime} /\ q.same \in BOOLEAN
  /\ \A v \in Version, q \in Quotes : Reads[v][q.raw] \in Nat \cup {Unparsable}
  /\ IsFiniteSet(Pair) /\ Version \subseteq Nat /\ 1 \in Version
  /\ Released \in Nat /\ Slack \in Nat /\ MaxRuns \in Nat
  /\ MaxIngests \in Nat /\ MaxCut \in Nat

VARIABLES now,     \* the clock, also the identifier of the next run
          parser,  \* the parser version deployed
          runs,    \* ingest_runs by identifier, with its archived payload
          last     \* history: what the last action was, and of which run

vars == <<now, parser, runs, rows, polls, last>>

\* An instant is left, and a run may still be cut short if this one is.
MayTake(end) ==
  /\ now <= MaxRuns
  /\ end = "counted" \/ Cardinality({r \in DOMAIN runs : runs[r].end # "counted"}) < MaxCut

-----------------------------------------------------------------------------
Init == /\ now = 1
        /\ parser = 1
        /\ runs = <<>>
        /\ rows = {} /\ polls = {}
        /\ last = [act |-> "none", run |-> 0]

-----------------------------------------------------------------------------
(* Parsing and validation.                                                 *)

Payloads == {<<>>} \cup {<<q>> : q \in Quotes} \cup (Quotes \X Quotes)

Parses(v, payload) == \A i \in DOMAIN payload : Reads[v][payload[i].raw] # Unparsable

\* index_quotes: of the quotes of one pair the last one wins.
Index(payload, p) == payload[Max({i \in DOMAIN payload : payload[i].pair = p})]

Quoted(payload, p) == \E i \in DOMAIN payload : payload[i].pair = p

\* How many quotes contradict the one they overwrite.
Contradicted(v, payload) ==
  Cardinality({j \in DOMAIN payload : \E i \in 1..(j - 1) :
     /\ payload[i].pair = payload[j].pair
     /\ ~\E k \in (i + 1)..(j - 1) : payload[k].pair = payload[i].pair
     /\ \/ Reads[v][payload[i].raw] # Reads[v][payload[j].raw]
        \/ payload[i].at # payload[j].at})

\* timestamp_in_range, rule 2.
InRange(at, started) == at >= Released /\ at <= started + Slack

\* Mutant: a price of nothing passes for a price.
VerdictAnyPrice(v, q, started) ==
  IF ~q.same \/ q.at = NoTime \/ ~InRange(q.at, started) THEN "rejected" ELSE "priced"

\* validate: rule 1 on the name, then the price, then rules 3 and 2.
Verdict(v, q, started) ==
  IF ~q.same THEN "rejected"
  ELSE IF Reads[v][q.raw] = NoPrice THEN "no_price"
  ELSE IF q.at = NoTime \/ ~InRange(q.at, started) THEN "rejected"
  ELSE "priced"

\* The observation a quote becomes, filed under a run.
Observation(v, q, run) ==
  [pair |-> q.pair, at |-> q.at, price |-> Reads[v][q.raw], run |-> run, ingested |-> now]

\* What a payload resolves to under a parser and a start.
Resolved(v, payload, asked, started, run) ==
  {Observation(v, Index(payload, p), run) :
     p \in {p \in asked : /\ Quoted(payload, p)
                          /\ Verdict(v, Index(payload, p), started) = "priced"}}

-----------------------------------------------------------------------------
(* A run of one price batch.                                               *)

\* The outcome of a pair that was asked for; no quote at all is no_price.
PollOutcome(v, payload, p, started, new) ==
  IF ~Quoted(payload, p) THEN "no_price"
  ELSE LET verdict == Verdict(v, Index(payload, p), started) IN
       IF verdict # "priced" THEN verdict
       ELSE IF \E row \in new : row.pair = p THEN "written" ELSE "unchanged"

\* Mutant: a quote that was overwritten is refused without being seen.
SeenWithoutContradicted(v, payload, asked) ==
  Cardinality(asked) + Cardinality({i \in DOMAIN payload : payload[i].pair \notin asked})

\* tally.seen: what was asked, what nobody asked for, what was contradicted.
Seen(v, payload, asked) ==
  Cardinality(asked) + Cardinality({i \in DOMAIN payload : payload[i].pair \notin asked})
    + Contradicted(v, payload)

Rejected(v, payload, outcome) ==
  Cardinality({p \in DOMAIN outcome : outcome[p] \in {"rejected", "no_price"}})
    + Cardinality({i \in DOMAIN payload : payload[i].pair \notin DOMAIN outcome})
    + Contradicted(v, payload)

\* What close_run stores of a run's Tally; a row holds zeros until then.
NoCounts == [seen |-> 0, written |-> 0, unchanged |-> 0, rejected |-> 0]

\* A row of ingest_runs.  `end` is "counted" when it was closed with all its
\* counts, "refused" with those raised before write_polls reported an error, and
\* "uncounted" when it was closed with none or left open.  `stored` is history:
\* the run's transaction was committed.
RunOf(kind, of, payload, asked, stored, end, counts) ==
  [kind |-> kind, of |-> of, started |-> now, payload |-> payload, asked |-> asked,
   parser |-> parser, stored |-> stored, end |-> end, seen |-> counts.seen,
   written |-> counts.written, unchanged |-> counts.unchanged, rejected |-> counts.rejected]

\* ingest_batch raises seen and rejected before the transaction, written and
\* unchanged after it was acknowledged.
BatchCounts(end, payload, asked, outcome, new) ==
  LET seen == Seen(parser, payload, asked)
      rejected == Rejected(parser, payload, outcome) IN
  CASE end = "counted" ->
         [seen |-> seen, written |-> Cardinality(new),
          unchanged |-> Cardinality({p \in asked : outcome[p] = "unchanged"}),
          rejected |-> rejected]
    [] end = "refused" -> [NoCounts EXCEPT !.seen = seen, !.rejected = rejected]
    [] end = "uncounted" -> NoCounts

\* Mutant: the observations are committed before the polls.
WritePollsAfterRows(stored, asked, outcome, new) ==
  /\ rows' = rows \cup new
  /\ IF stored THEN polls' = polls \cup {[pair |-> p, at |-> now, outcome |-> outcome[p]] : p \in asked}
     ELSE polls' = polls

\* write_polls, one transaction, stored or not.
WritePolls(stored, asked, outcome, new) ==
  IF stored
  THEN /\ rows' = rows \cup new
       /\ polls' = polls \cup {[pair |-> p, at |-> now, outcome |-> outcome[p]] : p \in asked}
  ELSE UNCHANGED <<rows, polls>>

\* A run of one batch.  Its payload is archived and its key recorded.  A payload
\* that does not parse, or whose targets cannot be read, is not counted at all;
\* the transaction may fail, or be applied though an error was reported; and a
\* run killed before close_run leaves its row without counts, its batch stored
\* or not.
IngestBatch(payload, asked, stored, end) ==
  LET new == Inserted(Resolved(parser, payload, asked, now, now), rows)
      outcome == [p \in asked |-> PollOutcome(parser, payload, p, now, new)] IN
  /\ stored \/ end # "uncounted" => Parses(parser, payload)
  /\ end = "counted" => stored
  /\ runs' = Append(runs, RunOf("ingest", 0, payload, asked, stored, end,
                                BatchCounts(end, payload, asked, outcome, new)))
  /\ WritePolls(stored, asked, outcome, new)

Ingest ==
  /\ Cardinality({r \in DOMAIN runs : runs[r].kind = "ingest"}) < MaxIngests
  /\ \E payload \in Payloads, asked \in SUBSET Pair \ {{}} :
       \E stored \in BOOLEAN, end \in End :
         MayTake(end) /\ IngestBatch(payload, asked, stored, end)
  /\ last' = [act |-> "ingest", run |-> 0]
  /\ now' = now + 1 /\ parser' = parser

-----------------------------------------------------------------------------
(* Replay.                                                                 *)

\* Mutant: the payload is judged by the clock of the replay.
ReplayStartNow(o) == now

\* run_replay_source: rule 2 is bounded by the start of the run replayed.
ReplayStart(o) == runs[o].started

\* A quote that replay_batches finds is seen, and rejected if its verdict says so.
ReplayCounts(o, new) ==
  LET found == {p \in runs[o].asked : Quoted(runs[o].payload, p)} IN
  [seen |-> Cardinality(found), written |-> Cardinality(new), unchanged |-> 0,
   rejected |-> Cardinality({p \in found :
     Verdict(parser, Index(runs[o].payload, p), ReplayStart(o)) # "priced"})]

\* replay_batches up to the commit of replace_run_observations: the rows of run o
\* are exchanged for what its payload now resolves to, unless that is nothing.
\* resolve_targets gives back every pair the payload was asked for, scheduled or
\* not.  Killed, or met by an error after the commit, the replay has no counts.
ReplaySwaps(o, end) ==
  LET old == Held(o)
      resolved == Resolved(parser, runs[o].payload, runs[o].asked, ReplayStart(o), now)
      new == Inserted(resolved, rows \ old) IN
  /\ Parses(parser, runs[o].payload)
  /\ old = {} \/ new # {}
  /\ end \in {"counted", "uncounted"}
  /\ rows' = (rows \ old) \cup new
  /\ runs' = Append(runs, RunOf("replay", o, runs[o].payload, runs[o].asked, TRUE, end,
               IF end = "counted" THEN ReplayCounts(o, new) ELSE NoCounts))

\* A replay that was refused, met an error or was killed before its commit.
ReplayFails(o) ==
  /\ runs' = Append(runs, RunOf("failed", o, runs[o].payload, runs[o].asked, FALSE,
                                "uncounted", NoCounts))
  /\ rows' = rows

\* A run lists the payload to replay: an ingest run's key is recorded before the
\* batch is stored, a replay's when it closes with its counts.
Listed(r) == runs[r].kind = "ingest" \/ (runs[r].kind = "replay" /\ runs[r].end = "counted")

Replay(o) ==
  /\ Listed(o)
  /\ \/ \E end \in End : MayTake(end) /\ ReplaySwaps(o, end)
     \/ MayTake("uncounted") /\ ReplayFails(o)
  /\ last' = [act |-> "replay", run |-> o]
  /\ now' = now + 1
  /\ UNCHANGED <<parser, polls>>

\* A better parser is deployed.
Upgrade ==
  /\ parser + 1 \in Version
  /\ parser' = parser + 1
  /\ last' = [act |-> "upgrade", run |-> 0]
  /\ UNCHANGED <<now, runs, rows, polls>>

Next == Ingest \/ Upgrade \/ \E o \in DOMAIN runs : Replay(o)

Spec == Init /\ [][Next]_vars

-----------------------------------------------------------------------------
(* Properties.                                                             *)

\* Every variable stays in its type.
TypeOK ==
  /\ now \in 1..(MaxRuns + 1) /\ parser \in Version /\ Len(runs) = now - 1
  /\ \A row \in rows : /\ row.pair \in Pair /\ row.at \in Nat /\ row.price \in Nat \ {0}
                       /\ row.run \in DOMAIN runs /\ row.ingested \in 1..MaxRuns
  /\ \A poll \in polls : poll.pair \in Pair /\ poll.at \in 1..MaxRuns /\ poll.outcome \in Outcome

\* A replay stored after run o that read its payload by another parser than the
\* run it replaced, and so may have taken prices out of the ledger.
CorrectedSince(o) ==
  \E s \in DOMAIN runs : /\ s > o /\ runs[s].kind = "replay"
                        /\ runs[s].parser # runs[runs[s].of].parser

\* Replaying a stored ingest run under the parser that wrote it leaves the
\* ledger's prices as they are, however many runs and replays came between, as
\* long as none of those replays corrected a run, this or another (replay: the original
\* verdicts, not today's; the last quote wins in both).  A correction takes away
\* the prices its run alone had filed, those other runs found unchanged too;
\* a later replay of one of these brings them back.
ReplayReproduces ==
  [][last'.act = "replay" =>
       LET o == last'.run IN
       runs[o].kind = "ingest" /\ runs[o].stored /\ runs[o].parser = parser
         /\ ~CorrectedSince(o)
         => Facts(rows') = Facts(rows)]_vars

\* The pairs of a run's payload that it accepted.
Accepted(r) ==
  {p \in runs[r].asked : /\ Quoted(runs[r].payload, p)
                         /\ Verdict(runs[r].parser, Index(runs[r].payload, p), r) = "priced"}

\* The counts of an ingest run account for everything it saw, contradictions and
\* unasked quotes included: it was written, unchanged or rejected.  All that is
\* ever missing is what was accepted and then lost to the count by an error of
\* write_polls, to the last quote (ingest_batch, Tally, close_run).
CountsAddUp ==
  \A r \in DOMAIN runs : runs[r].kind = "ingest" =>
    runs[r].seen - runs[r].rejected - runs[r].written - runs[r].unchanged
      = IF runs[r].end = "refused" THEN Cardinality(Accepted(r)) ELSE 0

\* For as long as a run is not replayed, the rows filed under it are those its
\* polls report as written, whether or not it lived to be counted, and number
\* what its row says it wrote if it did: later runs, restatements and replays of
\* other runs, themselves killed or refused, neither add to them nor take from
\* them (write_polls, the idempotency index, the delete by ingest_run_id).
WrittenCountHolds ==
  \A r \in DOMAIN runs :
    ~(\E s \in DOMAIN runs : runs[s].kind = "replay" /\ runs[s].of = r) =>
      /\ runs[r].end = "counted" => Cardinality(Held(r)) = runs[r].written
      /\ runs[r].kind = "ingest" => \A p \in Pair :
           (\E row \in Held(r) : row.pair = p)
             <=> [pair |-> p, at |-> r, outcome |-> "written"] \in polls

-----------------------------------------------------------------------------
(* What the repository says of the code and the code does not do.          *)

\* "Replaying one archive twice gives the same table" (design doc :737): a
\* replay under the parser that already wrote the rows changes no price.
ReplayTwiceSame ==
  [][last'.act = "replay" =>
       LET o == last'.run IN
       runs[o].kind = "replay" /\ runs[o].parser = parser
         => Facts(rows') = Facts(rows)]_vars

=============================================================================

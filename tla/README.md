# A TLA+ development of the fc-markets server

The server of this repository (`apps/server`, Rust, Postgres, an object store)
reads the prices of football cards from a provider under a small daily request
budget, archives every answer before it parses it, appends what it parsed to a
bitemporal ledger, and answers questions about the ledger *as of* a stated time.
The hard part of the program is not any one statement: it is that a run is a long
chain of awaits, any of which may fail or be the last thing the process does, that
a second process (the command line beside the serve loop) runs the same code, and
that what one run leaves behind decides what the next one does.

Beside the runs the serve process dumps the database by night and says in a channel how
it is doing, and the last step of a run writes down claims that are scored a week later
against the same ledger.

The modules here model that core. TLC checks them on small instances, TLAPS proves
every safety property the passing runs check, for every instance the stated assumptions on the constants allow. Paths below are relative
to `apps/server/src` unless they begin with `migrations/` or `docs/`.

## Inventory

| Component | State it keeps | Operations | What makes it correct |
|---|---|---|---|
| Run control (`ingest/mod.rs`, `db.rs`) | the advisory lock, rows of `ingest_runs` (status, heartbeat, counted requests, `price_keys`) | `run`, `run_locked`, `reap_abandoned_runs`, `try_lock`, `open_run`, `record_request`, `close_run` | one writer; a day's requests within the budget; every row ends; an end is final |
| Price loop (`ingest/mod.rs`) | `Budget`, `Tally`, the batches still to read | `ingest_prices`, `fetch_and_archive`, `ingest_batch` | archived and listed before any row; a lost batch is never reported as ok |
| Discovery and metadata (`ingest/discovery.rs`) | `asset_source_ids`, `last_seen_at`, step flags on the run row | `maybe_discover`, `maybe_discover_new`, `walk`, `maybe_refresh_metadata`, `apply_attributes` | a step marks itself done only when it read all it was told of; no card is missed for ever |
| Reference lists (`ingest/reference.rs`) | `reference_entities`, a step flag | `maybe_refresh` | as above, over every list |
| Archive (`archive.rs`) | objects by key | `object_key`, `put`, `get` | an answer that was parsed can be read again |
| Poll schedule (`ingest/discovery.rs`, `db.rs`, `domain.rs`) | `asset_poll_state` | `apply_coverage`, `due_external_ids`, `update_asset_attributes`, the poll part of `write_polls` | rows for exactly the covered cards; no healthy card starves; what was read stays inside the trust window |
| Ledger (`ingest/mod.rs`, `db.rs`, `domain.rs`) | `market_observations`, `ingest_polls`, counts | `validate`, `index_quotes`, `write_polls`, `replace_run_observations` | counts account for every quote, also where a transaction or the close fails; a replay reproduces; the index keeps facts once |
| As-of query (`migrations/0008_trust_window.sql`) | none | `trusted_latest_prices` | ingesting later never changes an answer about the past |
| Valuation, cohorts (`analytics/`) | none | statistics over the as-of query and the attributes cards have today | prices only from what was known; attributes are never as of the past |
| Predictions (`ingest/predict.rs`, `analytics/predictions.rs`) | `predictions`, a step flag | `maybe_record`, `record_picks`, `score_matured` | claims recompute from the ledger under the attributes they were ranked by, are made once a cadence, and the prices they are scored by stay |
| Drift checks (`ingest/drift.rs`) | none | queries that may degrade a run | no silent collapse |
| Backups (`backup.rs`, loop in `main.rs`) | dumps in the object store | the loop, `backup` by hand, pruning | an interval between scheduled dumps and no more than that and a dump to the newest, through restarts; pruning never removes the last ones |
| Signals, health (`signals/`, `api.rs`) | none | heartbeat, alert, `/health` | a ledger that stopped is reported |
| Serve loop, command line (`main.rs`) | none | interval task, commands | ticks go on after a failed run |
| Provider adapters (`ingest/futdb.rs`, `ingest/fixture.rs`) | none | HTTP and JSON | answers are inputs here |
| Configuration, identifiers, names (`config.rs`, `ids.rs`, `domain.rs`) | none | parsing | constants here |
| Web frontend (`apps/web`) | none | displays the API's answers | not modelled |

How they interact: the serve loop and the command line call `ingest::run`, which
takes the lock and calls, in this order, discovery, the walk of new assets, the
metadata step, the reference lists, the price loop, the prediction step and the drift
checks. They share the `Budget` and the `Tally` in memory and everything else through
Postgres. `replay` takes the same lock, reads the archive and swaps observations. The
API and the analytics only read. There are no callbacks and no messages: the
interleavings are those of processes at their awaits.

Behaviours that are hard: the budget is read once and spent for hours while other
processes start, die and are reaped; a kill or a failed statement between any two
awaits; a provider that inserts cards while its list is paged; steps that suppress
themselves for a cadence once they claim to be done; a queue that is cut at what
the budget can pay; replays of replays under a changed parser; time in three
roles (observed, ingested, asked about); attributes that have no time at all; counts that reach the row in another statement than the rows they count; claims that are committed one by one; a backup
loop whose only memory is the names of the dumps, beside a command that writes and prunes
the same names; a task that has to outlive the runs it reports on.

## Modules

| Module | Models | State and its counterpart |
|---|---|---|
| `IngestRuns` | run control, price loop and replay as steps of concurrent processes | `lock` the session of `pg_advisory_lock`; `proc[p]` the program point, `Budget` and `Tally` of a process; `row` table `ingest_runs`; `requests` its counted requests; `archive` object keys; `polled`, `owner` committed poll batches, and the run each payload's observations are filed under; `day` the UTC day. `sentOn` is history: the calls really made |
| `DailySpend` | what the run control promises the provider: grants and calls of a day, without locks, rows or processes. `IngestRuns!Spend` is the refinement mapping | `made`, `over` calls of today by runs of today and of an earlier day; `promise`, `carried` what may still be called |
| `SlowSteps` | both walks, the metadata step, the reference lists | `known` `asset_source_ids`; `seenAge` `last_seen_at`; `stepAge` what `seconds_since_step` finds for each flag; `run` the locals and flags of the current run, the page in hand (`chunk`) with what `next_page` makes of it (`next`), and the objects it archived; `released`, `repointed` the provider's list. `owed`, `parsed`, `passed` are history: what a walk still owes, what was parsed, what answers passed over |
| `Schedule` | `asset_poll_state` and the choice of cards | `polls` a row per market of a card; `value` the attributes; `newer` the order of `last_polled_at`; `todo`, `chunk`, `left` locals of the price loop |
| `Observations` | the two tables every price ends in, the idempotency index, and `trusted_latest_prices(as_of, max_age)` | `rows` `market_observations`; `polls` `ingest_polls` |
| `Ledger` | contents of a batch and of a replay, extending `Observations` | `runs` with their archived payloads, how each row ended (`end`) and the counts it was closed with; `parser` the deployed parser |
| `Predictions` | the prediction step, the price batches and replays it lives among, and the scores, extending `Observations` | `attrs` the `assets` columns that class, cohort and rank by name are made of; `runs` start, status and step flag of `ingest_runs`; `tx` the open transaction of a batch; `todo`, `picks` locals of `maybe_record` and `record_picks`; `claims` table `predictions`; `replays`, and `seen`, the attributes a step ranked by, are history |
| `DumpClock` | what the backup loop promises: when dumps are taken and how old the newest may get. `Backups!Clock` is the refinement mapping | `taken`, `newest` stamps; `fault` whether something failed since |
| `Backups` | `backup_interval`, `backup::run` with its prune, and the `backup` command | `store` the stamps in the names under `backup/pg`; `loop`, `hand` the two processes; `taken`, `fault` are history |
| `Serve` | the serve process: `Backups` and beside it `ingest_interval` with its signals, and what `/health` says of the polls | `tick` where the task is; `source` whether the provider was connected; `result` how the run closed; `stalled`, `readable` what the poll age query would find; `said`, `beaten` what the tick sent |
| `IngestRunsProofs`, `ArchiveProofs`, `SpendProofs` | theorems about `IngestRuns`, each module on top of the first; `SpendProofs` also about `DailySpend` | |
| `SlowStepsProofs`, `ScheduleProofs`, `LedgerProofs`, `PredictionsProofs` | theorems about `SlowSteps`, `Schedule`, `Ledger`, `Predictions` | |
| `ServeProofs` | theorems about `Backups` and `Serve` | |
| `MCIngestRuns`, `MCSlowSteps`, `MCLedger`, `MCPredictions` | instances for TLC | |

An action is one await (`IngestRuns`, `Backups`, `Serve`), one request or one parsed answer
(`SlowSteps`), one statement (`Schedule`, `Predictions`) or one transaction with the way its run ends (`Ledger`).
The modules divide the system by what they may ignore: `IngestRuns` proves that one
writer is at work, and `SlowSteps`, `Schedule`, `Ledger` and `Predictions` assume it; they in turn
say what `IngestRuns` leaves open, which cards a batch asks for, which of its prices are new and
what the last step claims. `Serve` composes `Backups` with the interval task and takes a run for one
step, since what it asks is what happens after a run, however that ended.

Where a statement fails matters in the code, and `StatementFails` in
`IngestRuns` follows the `?` operators: from inside `execute` a failure still closes
the row as failed; from `run_locked` around it the row is left running and only the
reaper ends it. A failed batch transaction, a payload that does not parse and a
failed archive write do not return at all, they degrade the run. A write that
reports an error may have been applied, in the archive, in the swap of a replay and in its
close. `Crash` may take a process at any point; its database session lives on
until `SessionEnds`.

## Runs

| Run | Instance | Shows |
|---|---|---|
| `budget` | 2 processes, 2 runs, budget 2, one midnight | `DailyBudgetKept`, `DayAtMostDoubled`, `SpendSurvivesCrash`, `ArchiveBeforeRows`, `OkMeansEverythingPolled`, and `SpendsAsPromised`: `IngestRuns` implements `DailySpend` |
| `runs_end` | serve and a replaying CLI, 2 runs, fair | `RowsReplayable`, `OnlyReplayMovesRows`, `EndedIsFinal`, `EveryRunEnds`, `LockIsFreed` |
| `slow_steps` | 2 cards, the higher one first, pages of one, a list of 2 pages, budget 3, any answer, fair | `OkMeansWalked`, `WalkDoneIsWhole`, `ReferenceDoneIsWhole`, `MetadataDoneUnlessBroke`, `EveryCardKnown`, `AttributesRefreshed` |
| `schedule` | 3 cards of which 2 covered, one broken, one never priced, fair | `IntervalHonest`, `CoverageExact`, `HealthyCardsPolled` |
| `trust` | 4 cards, 3 covered, budget 2 | `StaysTrusted` |
| `ledger` | 1 pair, 6 quotes, payloads of up to two, 2 ingest runs among 4 runs and replays of which 1 ends uncounted, 2 parsers | `CountsAddUp`, `WrittenCountHolds`, `ReplayReproduces` |
| `predictions` | 2 cards, 2 markets, 3 sets of attributes, 6 instants, 2 batches, a replay, a refreshed card | `MarkedClaimsRecompute`, `NoSecondOpinion`, `SettledAnswersStand` |
| `serve` | interval 2, retry 1, dumps of up to 1, keep 2, a dump by hand from a clock that is ahead, fair | `NewestDumpsKept`, `StallIsAnnounced`, and `KeepsTime`: `Backups` implements `DumpClock` |
| `metadata_broke` | 1 card, budget 1 | violated: the metadata step marks itself done when the day has nothing left |
| `archive_keys` | 1 card, 2 lists | violated: page 1 of a later list replaces page 1 of an earlier one in the archive |
| `replay_twice` | 1 pair, 3 quotes, 3 runs | violated: replaying a replay accepts a stamp the original refused |
| `silent_failure` | the interval task alone | violated: a run that failed with an error, or rejected all it read, posts nothing |

Every passing run also checks its module's type invariant, but for `trust`, which shares the module of `schedule`.
The four violated properties are sentences of the repository's own comments and
design; `PROJECT.json` quotes them under `findings`.

### Bounds, and why they are enough

`RunId` has one identifier per run that can be open in a behaviour: two suffice for
one run to be killed or reaped and another to follow, and for a run and its replay.
Two processes are all that can contend for one lock, since a
third only adds another refusal. `MaxDay = 1` has one midnight, which is all
a run can be caught by when what it may still spend is read once. `AbandonAfter = 0` lets the reaper take a run
after a single hour without a heartbeat, so that it meets live runs. Ages in
`SlowSteps` and `Schedule` are capped one past the last value any query
distinguishes. `Stale` is one past the metadata cadence. In `SlowSteps` two cards on pages of one
put a card above and a card below the watermark, a budget of three cannot
pay for a full walk and everything after it, and `MaxPages` is reached by a provider that
claims one page too many. An answer may hold any part of its page and name any page up to one past the most that is read, so two pages are
enough for an end that comes early and for a list that claims too much. The list of reference data has two pages for the same reason. It is the only one, to keep the run small:
that a step with several lists needs every one of them is left to the theorem, which holds for any lists. `Schedule` has more cards than it covers and covers more than
a day can read. `Ledger` bounds the instants by `MaxRuns`, the ingest runs among them by `MaxIngests` and those that end other than counted by `MaxCut`. Two ingest runs
and two replays, with the deployment of the second parser anywhere, hold a replay of a replay, a restatement between a run and its
replay, a run or a replay killed between its transaction and its close among all of these, and what takes four runs: a replay that corrects one run, of which another had found
the prices unchanged, and then the replay of that one.

`Predictions` has six instants: enough for a run that claims, a run that fails in between or claims again
inside or outside the cadence of four, and a batch that is in flight when the past is asked. Two cards rank
against each other and two markets let a step fail between them; a card is of the one class, of the other or without a rating, in a cohort of its own each, and the class that costs
more comes first by name. The quotes are prices above the floor and a refused one; one replay finds a price on the floor or refuses it, and one refreshed card
is enough to change a class, a cohort and the order between a claim and the question about it. `MinClass` is one where the code has five:
a class is thin when it is empty.

`Serve` has intervals of two ticks so that a loop can be caught half way through its sleep, a clock that is
ahead by one tick, one dump by hand that can overlap any dump of the loop, and two dumps to keep. Six ticks hold three intervals.
The rest of `Serve` is finite.

`CHECK_DEADLOCK FALSE` is stated where a bound ends the behaviour: `Ledger` and `Predictions` stop when the instants are
used up, `Serve` when the last tick and dump are.

`SYMMETRY` is used in `budget` only, on identifiers no operator orders.

### Fairness

`IngestRuns`: `Advance(p)` is weakly fair because every await of a command returns
(the outbound client has a timeout, the pool an acquire timeout) and a killed container restarts;
`StartIngest(Server)` because the serve loop ticks for ever whatever a run returned;
`Hour` because time passes. The command line is never obliged to start anything.

`SlowSteps` and `Schedule`: runs go on and days pass, and the faults end some day
(`<>[][~Fault]_vars`): nothing can be promised of a provider that never answers. In
`Schedule` the cards of `Broken` go on failing and those of `Unpriced` go on being
refused all the same. `Serve`: every action of the interval task returns, so its steps are weakly fair; of a step that
may go either way (the provider is reached or not, the run closes or is skipped or dies, a message arrives or
not) the good outcome is strongly fair, since a provider, a lock holder or a webhook that never again
answers leaves nothing to promise. Nothing is assumed of the backup loop: its promises are safety. `DailySpec` (safety only) says that each day has one full run and that nothing
else spends, which is what the trust window is sized for.

## Proofs

`IngestRunsProofs` proves, for any sets of processes and runs and any `DailyBudget`,
`AbandonAfter`, `MaxBatches` and `MaxDay`:

- `TypeCorrect`: `Spec => []TypeOK`;
- `BudgetIsKept`: `Spec => []DailyBudgetKept`;
- `SpendIsCounted`: `Spec => []SpendSurvivesCrash`.

Assumptions: `SetAssumption` (the serve loop is a process, it does not replay,
`NoProc` and `NoRun` are no members) and `NatAssumption`. Neither `Proc` nor `RunId`
is assumed finite; the finiteness of `requests` is an invariant of its own.

The budget is not inductive as it stands. `IInv` adds what carries it:

1. `TypeInv`: types, and a process past `open_run` knows its run;
2. `LockInv`: whoever is at work holds the lock, so at most one process has an
   allowance in memory at any time;
3. `RowInv`: no row is dated ahead, and the row of an open run exists, so a new run
   never takes an identifier under which requests were counted;
4. `CountedInv`: every call made is counted, and a process about to call has
   counted it already;
5. `BudgetInv`: the calls made today by today's runs, together with what the process at
   work may still make (what remains, plus one it has taken and not yet made), are
   within the budget.

The steps fall into classes with one lemma each: `SilentSteps` make no request and give nobody an
allowance, `SendStep` turns one allowed request into one made, `ReadStep` replaces an allowance
by what the day has left (here 4 is used: the sum read from the rows covers all that was
made), `MidnightStep` opens a day with no calls. `StepIInv` puts them together.

`ArchiveProofs` builds on these invariants and proves, for the same constants:

- `EndsAreFinal`: `Spec => EndedIsFinal`;
- `ArchivedBeforeStored`: `Spec => []ArchiveBeforeRows`;
- `ObservationsReplayable`: `Spec => []RowsReplayable`;
- `OkPolledEverything`: `Spec => []OkMeansEverythingPolled`;
- `ReplayAloneMoves`: `Spec => OnlyReplayMovesRows`.

`EndedIsFinal` needs `OpenInv`: a process between `open_run` and the close of an ingest run is at a row of its own
kind that nobody but the reaper has ended. `LockInv` supplies the rest, for no second process can be there.
Its steps are those that end nothing (`EndsNothing`), the opening of a run and the two closes.

`ArchiveBeforeRows` needs `KeyInv`. A key is *secured* when its object is archived and the run that fetched it lists it.
Every key in a row, in the hands of a replay or under an observation is secured; the price loop secures its key before
it stores; and a replacement lists nothing before it closes, so that no close takes a listed key away.
`RowsReplayable` needs `OwnerInv` besides: nothing is filed under a replacement before its swap, and
from the swap to its close only what the replay had read, which is what the close then lists.
`OkMeansEverythingPolled` needs `PollInv`: a process in the price loop that has not degraded has committed a poll for each batch before
the one in hand, and past the loop for every batch it planned. `OnlyReplayMovesRows` follows from it and `OwnerInv`: what the transaction of a batch files was nobody's.

`SpendProofs` shows that `IngestRuns` implements `DailySpend` (`SpendsLikeDailySpend`, `Spec => SpendsAsPromised`), and from that and
an invariant of its own that no day sees three budgets (`NoDayTriples`). On top of `IInv` the mapping needs
`SpendInv`: a run that has not read its budget yet has spent nothing (`FreshInv`); who holds no budget has none left over from
an earlier run (`EmptyInv`), or a grant would appear out of nothing when it next takes the lock; no process may make more calls than one budget (`GrantInv`); and the calls of
today by runs of an earlier day, with those still carried, are within one (`OverInv`). Every step then maps to a grant, a call, a forfeit, a new day or a stutter.
Its theorem about the abstract module closes the circle: `DailySpend` never allows more than two budgets a day (`TwoBudgetsADay`).

`ServeProofs` proves, for any interval, retry, length of a dump (with `BackupsAssumption`: a retry and a dump fit in an interval), number of dumps kept and clock skew:

- `BackupsTypes`: `Spec => []BackupsTypeOK`;
- `NewestAreKept`: `Spec => NewestDumpsKept`. The invariant is `PruneInv`: a key that some prune still means to delete has as many newer dumps
  in the store as are to be kept. Keys go oldest first and stamps only arrive, so neither prune can undermine the other;
- `LoopKeepsTime`: `Spec => KeepsTime`, the refinement of `DumpClock`. `PacedInv` says that whoever sleeps or dumps is an interval past the last scheduled dump,
  `PromptInv` that, unless something failed, it will be up before the newest dump is older than an interval and a dump.

and carries the last two over to the whole process: `ServeImplementsBackups` (`ServeSpec => Spec`) shows that every step of `Serve`, a crash included,
is a step of `Backups` or leaves its variables alone, so `ServeKeepsNewest` and `ServeKeepsTime` hold of the process that also runs the interval task. `ServeTypes` is
the type invariant of the composition.

`SlowStepsProofs` proves, for any cards, page sizes, reference lists, budget and cadences:

- `SlowStepsTypes`: `Spec => []TypeOK`;
- `OkRunsWalked`: `Spec => []OkMeansWalked`;
- `WalksAreWhole`: `Spec => WalkDoneIsWhole`;
- `ReferencesAreWhole`: `Spec => ReferenceDoneIsWhole`;
- `MetadataIsDone`: `Spec => MetadataDoneUnlessBroke`.

`WalkDoneIsWhole` is the argument that paging a list which grows at its head is safe. It is about what the program owes, so it starts from what the answers said: a card that the list held as the
walk began is owed until an answer leaves it out, by not holding it on its page, by ending the list before it or by jumping past it (`LeftOut`). `WalkInv` says that every owed card is known, or on the page
in hand, or on a page still to come: a card that is released meanwhile only pushes others on to later pages, so none can slip past to a page that was read. `PlaceInv` ties page numbers to the
program point, `RefInv` says that every page of the lists done so far, and of the one in hand up to the page in hand, is parsed or was passed over when none was given up so far, and `BegunInv` that a step that began and is neither in hand nor marked has degraded the run.
`MetadataIsDone` needs no invariant beyond the types: the step is done when the query for what needs attributes came back empty, and a query that asks
for more than nothing is empty only if nothing does. One assumption on the constants came out of the proof: the names of the reference lists are a sequence of strings.

`ScheduleProofs` proves, for any cards, markets, coverage, batch size, budget, intervals and backoff:

- `ScheduleTypes`: `Spec => []TypeOK`;
- `IntervalsAreHonest`: `Spec => []IntervalHonest`;
- `CoverageIsExact`: `Spec => []CoverageExact`;
- `PricesStayTrusted`: `DailySpec /\ [][Covered' \ Covered \subseteq Entrants]_vars => []StaysTrusted`, for every set `Entrants` of cards with which the rotation fits in the window
  (`RotationFits`), when cards that cannot be fetched are asked for alone (`FaultsAlone`);
- `FewCardsStayTrusted`: `DailySpec => []StaysTrusted`, when it fits with all cards as `Entrants`.

`CoverageExact` speaks of the price loop, and the only way in is through `DropOutside`. That leaves exactly the covered rows only if `EnsurePollState` has just
added those that were missing and the covered set has not moved in between; `EnsuredInv` says so. An aborted run needs no clause: it gives up its place.

`StaysTrusted` is not true of every instance: a covered set that keeps changing hands the budget to cards that just entered, and a budget too small for the covered set starves
its tail. `RotationFits` says how much is enough: the covered cards, with those that may still enter it once their attributes arrive, are no more than the requests of
`Slow + 1` days pay for. With the defaults of `config.rs` (40,000 covered, 18,000 requests a day, one card a request, the slowest band three days) the covered cards alone
fit with room for 32,000 that enter. Days are whole ones there, and the slow steps of `DailySpec` spend nothing. A price that is read early on one day and late on another is almost a day older than the days between them, and a walk or a metadata step takes its requests from the same budget; so the real margin is about a day
thinner: `Slow` days of requests, 54,000 cards, with room for 14,000. A card that cannot be fetched costs its request every day (`DayReads`) and, in batches of one, no other card's turn; larger batches are excluded by `FaultsAlone`, for a reason (see the limits). The run `trust` meets the bound exactly, with all of its cards as `Entrants`.
The proof counts what may be read before a card (`Wait`). A card of which a price was read falls due within `Slow` days, since its interval is honest and it carries no backoff. From then on a day that does not read it
reads a full day's worth of cards that were before it, because the plan is cut at what the day can pay and takes the oldest first, and all of it is polled but for the cards that cannot be fetched (`PlanInv`, while the plan is being worked off; `ServedInv`, once it is). These are after it then. Nobody else comes before it but
a card that enters the covered set, which takes an arrival of its own attributes (`OnlyOwnEnters`) and so happens once. There are at most `Coverage - 1` others to begin with (`CoveredIsSmall`, `WaitInv`), so no card
can be missed for more than `Slow` days. TLC found no state of the instance of `trust`, nor of one with a broken card, that breaks this invariant.

`LedgerProofs` proves, for any pairs, quotes, parsers, release date and slack:

- `Types`: `Spec => []TypeOK`;
- `CountsTheorem`: `Spec => []CountsAddUp`;
- `WrittenTheorem`: `Spec => []WrittenCountHolds`;
- `ReproducesTheorem`: `Spec => ReplayReproduces`.

`CountsAddUp` and `WrittenCountHolds` are inductive with the types and `RunsInv`. `Balance` counts the quotes of a batch by their verdicts: what is seen is what is rejected with what is accepted, and what is accepted is written or unchanged.
So a row that is closed with all its counts balances, and one whose `write_polls` reported an error lacks what it had accepted. A transaction stores a row and its poll together or neither, whatever becomes of the count, and nothing but a replay of the run takes the row away.
`SaidInv` carries the last: everything an ingest run accepted when it was stored, by the verdicts of its own parser and its own clock, is still a fact of the ledger, unless a replay since then read its payload by another
parser than the run it replaced (`CorrectedSince`). `RunsInv` says that what is filed under a run is something its payload says, and that runs carry the instants they took, in order; so a replay at another time gives the verdicts of the original. The swap deletes only rows of the run replayed and writes them again.
The proof failed at first, and rightly: without the last condition the property is false, by a behaviour of four runs that the bounds of the run did not reach then.
See the limits below. The property names the condition now, and the bounds reach it.

`PredictionsProofs` proves, for any cards, markets, prices, floor, class size, trust window, cadence and horizon:

- `PredictionsTypes`: `Spec => []TypeOK`;
- `AnswersStand`: `Spec => SettledAnswersStand`;
- `ClaimsRecompute`: `Spec => []MarkedClaimsRecompute`;
- `OneOpinionACadence`: `Spec => []NoSecondOpinion`.

`ClockInv` says that everything stamped is stamped with an instant that has passed: starts of runs increase, a batch in flight carries the start of its
transaction, which is after the start of its run, and picks carry the start of theirs. So a commit only adds rows and polls later than any settled question
(`LaterBatch`), and the picks of a start under given attributes are the same for ever after (`PickingsStand`); with the same claims, so are the scores under given attributes (`SameScores`). `HandInv` says that the attributes noted in `seen`
are those of today for as long as the step ranks, since the slow steps are over by then, and what the run in hand has claimed at each stage:
nothing of the markets to do, all of those done, and of the one market between, what is inserted and what is in hand together; so `MarkStep`,
and a failure of it that marked the row all the same, find every market complete. `PaceInv` carries the cadence from `is_due` to the last insert.

Only model-checked: all liveness (`EveryRunEnds`, `LockIsFreed`, `EveryCardKnown`, `AttributesRefreshed`, `HealthyCardsPolled`, `StallIsAnnounced`), since TLAPS does not treat
fairness and `ENABLED` here, and the four violated sentences, which are counterexamples. `StaysTrusted` beyond `RotationFits` is checked on the instance of `trust` alone.

## Assumptions and limits

What the models assume, and where the code does not hold a stronger promise:

- **The lock's session lives as long as its process.** Nothing in a run looks at
  the lock's connection between `try_lock` and `release` (`db.rs:63`). If the server drops that
  session while the pool keeps working, a second run starts and the budget is spent twice.
- **A day may see two budgets.** `requests_spent_today` counts runs that *started* today
  (`db.rs:263`), so a run caught by midnight spends yesterday's allowance today.
  `DailyBudgetKept` is therefore about the runs of a day, and `DayAtMostDoubled` bounds the rest.
- **A row may stay running after its command returned** when a statement between `open_run` and
  `execute`, or `close_run` itself, fails (`ingest/mod.rs:238`). `EveryRunEnds` covers it: the reaper ends it.
- **A replay swaps first and lists its keys when it closes.** Dying in between leaves
  observations under a run that lists no payload (`ingest/mod.rs:643`); `RowsReplayable` names that case.
- **A failed fetch leaves no trace in the schedule** (`ingest/mod.rs:393`): no poll, no
  failure count. Such a card is asked for again by the next run and sorts first, so as many broken
  cards as a day has requests starve the rest. `HealthyCardsPolled` is checked with fewer.
- **In batches of several, a card that cannot be fetched takes others with it.** It is never polled and so sorts first, every day, and the oldest healthy cards share its batch, which is skipped whole (`ingest/mod.rs:393`); TLC finds a healthy
  covered card that leaves the trust window with two cards a batch and one of four broken. The one real provider has batches of one (`ingest/futdb.rs:308`), and the theorem asks for it.
- **A replay moves `ingested_at`**, so answers about times before it change, and claims made before it no longer
  recompute. `SettledAnswersStand` and `MarkedClaimsRecompute` say that nothing else moves them, the attributes of the cards being given.
- **A ranking about the past uses the attributes of today.** `class_median` groups and orders by the rarity, version, rating and name a card has now (`analytics/valuation.rs:36`), and `cohort_move` takes the version and the rating band it has now
  (`analytics/cohort.rs:53`); the walks and the metadata step rewrite all of them. So a claim recomputes only under the attributes its run saw (`seen`, which the program does not keep), and the cohort's move of a score, and with it the score, changes when a rating or a version
  does. The design says so (`docs/superpowers/specs/2026-08-07-fc-market-foundation-design.md:648` and `:776`); the comments "recomputes exactly" (`ingest/predict.rs:39`), "be recomputed exactly" (`analytics/predictions.rs:70`) and the one that a claim cannot be "marked differently on two days"
  (`analytics/predictions.rs:132`) promise more than that. With the attributes of today in the place of `seen`, or with scores under whatever the attributes are, TLC finds both properties violated by one refreshed card.
- **The provider's own account of its list is believed.** An answer whose pagination is missing, or ends early, ends a walk or a list of reference data as complete (`ingest/futdb.rs:393`, `ingest/discovery.rs:316`, `ingest/reference.rs:114`); one that names a page further on than the next skips pages; and one whose items are
  missing or null is an empty page (`ingest/futdb.rs:291`). The step is then marked for its cadence with cards or pages unread, although "only a walk that reached the provider's last page may mark the step done" (`ingest/discovery.rs:197`). `WalkDoneIsWhole` and `ReferenceDoneIsWhole` excuse exactly the cards and the
  pages that an answer left out or passed over, and nothing the program itself lost; a later walk brings such a card (`EveryCardKnown`).
- **Counts are stored apart from the rows.** `close_run` writes them, in a statement of its own (`ingest/mod.rs:280`): a run that is killed after a batch was committed has rows and a written count of 0, and a batch whose transaction fails keeps what it had added to seen and rejected
  (`ingest/mod.rs:432`, `:505`). `CountsAddUp` and `WrittenCountHolds` say what is left to rely on: the polls tell what a run wrote, its row only where it was closed.
- **A question about the last moments is not settled.** `ingested_at` and `polled_at` are the start of a transaction, so a batch that is still open
  when a question is asked commits rows from before it ("the same question always returns the same answer", `analytics/valuation.rs:71`). `Settled` names the condition.
- **Claims do not see the run's own prices.** They are made as of the start of the run, and `trusted_latest_prices` is bounded by `ingested_at`
  (`ingest/predict.rs:40`), although the step runs last "so the claims reason about the prices this run just wrote" (`ingest/mod.rs:341`).
  `MarkedClaimsRecompute` holds because of it.
- **A retry can claim again.** A failed step is retried by a later run with another `made_at`, so the unique key does not stop the
  same card from being claimed twice in a day ("a retry after a failure cannot double count", `analytics/predictions.rs:72`). `NoSecondOpinion` is about runs that were done.
- **Scores depend on the time they are asked for**: two times past the horizon may score one claim differently (`analytics/predictions.rs:131`). They are the same whenever the same time is asked for, as long as no replay and no new attributes came between.
- **The loop does not look again after its sleep** (`main.rs:312`), so a dump by hand during the sleep is followed by a scheduled one. Scheduled dumps are an interval apart (`KeepsTime`), all dumps need not be.
- **With one dump to keep** a dump that was stamped early and stored late can be pruned by its own run, in favour of a newer one (`backup.rs:175`).
- **A newest key that does not parse** makes the wait zero for ever (`backup.rs:75`). Nothing in the program writes such a key, and the model has none.
- **Runs that are skipped, return an error or panic, and ticks that cannot connect the provider, post nothing** (`main.rs:290`); `StallIsAnnounced` needs a run that closes now and then. The requests of `connect_source` are in no run's count (`main.rs:272`).
- **An unreadable poll history is taken for no history** by the alert (`main.rs:215`), not by `/health` (`api.rs:55`); `StallIsAnnounced` speaks of stalls that `/health` shows.
- **Two prices of one instant**: a restatement by a later run lands beside the first price, since the
  index has the price in its key; `Answer` is a set for this reason.
- **A correction takes away what other runs only found unchanged.** A run that meets a price which is already in the ledger writes nothing (`ON CONFLICT DO NOTHING`), and a replay deletes by `ingest_run_id` (`db.rs:965`). When a replay under
  another parser corrects the run that had filed the price, the price is gone, although a later run had read it too; replaying that one brings it back. `ReplayReproduces` excludes the case by name (`CorrectedSince`).
- **A replay whose every price is filed under another run is refused** with the message that it resolved
  nothing (`db.rs:992`).

Abstractions: a payload in `IngestRuns` either has rows or has none; a run in `Ledger` is one
batch at one instant, so it starts, polls and writes at the same time, and a name that was adopted between a run and its replay is held fixed (prices of futdb carry no name); prices are a handful of
raw forms read by two parsers; `SlowSteps` keeps of earlier runs what `is_due`
reads; a card of `Predictions` has a class, a cohort and a name's rank, the ratio is compared by cross multiplication with twice the median, and a return is the pair of medians it is computed from; its instants are
taken by what stamps or asks, one each; a run in `Serve` is one step; one provider and one game; hours and days are counted, not seconds.

Not modelled, and why: the provider adapters, configuration and names are input/output and parsing, and
their results are inputs; the rest of the API, the frontend, market events and the drift queries read and keep no state; counts, volumes and percentages of valuation and cohorts are SQL aggregates over a query that is modelled; `pg_dump` and `scripts/restore.sh` are other programs.

## Plan

Built so far: `IngestRuns` over `DailySpend`, `SlowSteps`, `Schedule`, `Ledger` and `Predictions` over `Observations`, `Serve` over `Backups` over
`DumpClock`, and eight proof modules, which cover every safety property of the passing runs. Next, in this order:

1. `StaysTrusted` for a covered set that a bounded number of cards enters each day, for ever, which needs `DailySpec` to count them.
2. The identity rules of `domain.rs` (how names and versions are folded) as pure operators.

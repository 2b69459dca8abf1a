------------------------------ MODULE Schedule ------------------------------
(***************************************************************************)
(* Which cards are read next: table asset_poll_state.  apply_coverage      *)
(* creates and drops its rows, the attributes set a row's interval, the    *)
(* query for what is due orders it and cuts it at what the day can pay     *)
(* for, and the transaction of a price batch moves it on.                  *)
(*                                                                         *)
(* One run is at work at a time (module IngestRuns).  The clock counts in  *)
(* days.  All rows of a card share one last_polled_at, since a batch       *)
(* writes a poll for every row of the cards it asked for.                  *)
(***************************************************************************)
EXTENDS Integers, FiniteSets

CONSTANTS Asset,        \* cards we hold; numbers, as the ranking ends with id
          Market,       \* markets of the game, one per platform
          Coverage,     \* config.asset_coverage
          BatchSize,    \* Source::price_batch_size
          DailyBudget,  \* requests a day
          Fast, Slow,   \* UPSTREAM_REFRESH_, SLOWEST_POLL_INTERVAL_SECONDS
          MaxBackoff,   \* MAX_FAILURE_BACKOFF
          Broken,       \* cards whose fetch fails every time
          Unpriced      \* cards whose prices are refused every time

ASSUME ScheduleAssumption ==
  /\ Asset \subseteq Nat /\ IsFiniteSet(Asset) /\ IsFiniteSet(Market)
  /\ Coverage \in Nat /\ BatchSize \in Nat \ {0} /\ DailyBudget \in Nat
  /\ Fast \in Nat \ {0} /\ Slow \in Nat /\ Fast <= Slow
  /\ MaxBackoff \in Nat \ {0}
  /\ Broken \subseteq Asset /\ Unpriced \subseteq Asset \ Broken

VARIABLES pc,       \* where the run is
          value,    \* attributes: 2 for a promotion or 75+, 1 below, 0 unknown
          polls,    \* asset_poll_state: a set of rows per card, see Row
          newer,    \* the order of last_polled_at: cards polled after a card
          todo,     \* cards the run still has to ask for
          chunk,    \* the batch in hand
          left,     \* requests the day has left
          served    \* history: a run of today read all it planned

vars == <<pc, value, polls, newer, todo, chunk, left, served>>

-----------------------------------------------------------------------------
Value == 0..2

\* TRUSTED_PRICE_MAX_AGE_SECONDS: twice the slowest band.
TrustWindow == 2 * Slow

\* An age is capped where no query tells it from an older one; Null is
\* last_polled_at IS NULL.
OldAge == IF Slow * MaxBackoff > TrustWindow THEN Slow * MaxBackoff ELSE TrustWindow + 1
Null == OldAge + 1

NoRow == [held |-> FALSE, interval |-> 0, age |-> Null, failures |-> [m \in Market |-> 0]]
Row == [held : BOOLEAN, interval : {0, Fast, Slow}, age : 0..Null,
        failures : [Market -> 0..(MaxBackoff - 1)]]

Pc == {"idle", "steps", "ensure", "drop", "due", "batch", "fetch", "store"}

Init == /\ pc = "idle"
        /\ value = [a \in Asset |-> 0]
        /\ polls = [a \in Asset |-> NoRow]
        /\ newer = [a \in Asset |-> {}]
        /\ todo = {} /\ chunk = {}
        /\ left = DailyBudget
        /\ served = FALSE

-----------------------------------------------------------------------------
(* Helpers.                                                                *)

Held == {a \in Asset : polls[a].held}
Smaller(a, b) == IF a < b THEN a ELSE b

\* poll_interval_seconds.
PollInterval(v) == IF v = 2 THEN Fast ELSE Slow

\* most_valuable_assets: by value, the identifier breaks the tie.
Ahead(a, b) == value[a] > value[b] \/ (value[a] = value[b] /\ a < b)
Covered == {a \in Asset : Cardinality({b \in Asset : Ahead(b, a)}) < Coverage}

\* Mutant: a card that was refused is not tried again.
IsDueNeverRetried(a) == \E m \in Market :
  \/ polls[a].age = Null
  \/ polls[a].age >= polls[a].interval /\ polls[a].failures[m] = 0

\* One row of the card is due: never polled, or its stretched interval is over.
IsDue(a) == \E m \in Market :
  \/ polls[a].age = Null
  \/ polls[a].age >=
       polls[a].interval * Smaller(polls[a].failures[m] + 1, MaxBackoff)

\* Mutant: the LIMIT takes the lowest identifiers.
FirstById(set, n) ==
  {S \in SUBSET set : /\ Cardinality(S) = Smaller(Cardinality(set), n)
                      /\ \A c \in S, d \in set \ S : c < d}

\* ORDER BY last_polled_at NULLS FIRST LIMIT n.  Equal instants come in any
\* order.
First(set, n) ==
  {S \in SUBSET set : /\ Cardinality(S) = Smaller(Cardinality(set), n)
                      /\ \A c \in S, d \in set \ S : c \notin newer[d]}

-----------------------------------------------------------------------------
(* A run up to the price loop.                                             *)

StartRun ==
  /\ pc = "idle" /\ pc' = "steps"
  /\ UNCHANGED <<value, polls, newer, todo, chunk, left, served>>

\* Mutant: the interval of a row is left as discovery set it.
LearnOnly(a, v) ==
  /\ pc = "steps" /\ v # value[a]
  /\ value' = [value EXCEPT ![a] = v]
  /\ UNCHANGED <<pc, polls, newer, todo, chunk, left, served>>

\* update_asset_attributes: the attributes and the interval in one transaction.
Learn(a, v) ==
  /\ pc = "steps" /\ v # value[a]
  /\ value' = [value EXCEPT ![a] = v]
  /\ polls' = IF polls[a].held
              THEN [polls EXCEPT ![a].interval = PollInterval(v)] ELSE polls
  /\ UNCHANGED <<pc, newer, todo, chunk, left, served>>

\* Mutant: the slow steps do not look at what is left.
SpendUnchecked ==
  /\ pc = "steps"
  /\ left' = left - 1
  /\ UNCHANGED <<pc, value, polls, newer, todo, chunk, served>>

\* The slow steps share the budget.
Spend ==
  /\ pc = "steps" /\ left > 0
  /\ left' = left - 1
  /\ UNCHANGED <<pc, value, polls, newer, todo, chunk, served>>

StepsDone ==
  /\ pc = "steps" /\ pc' = "ensure"
  /\ UNCHANGED <<value, polls, newer, todo, chunk, left, served>>

\* ensure_poll_state: rows for what is covered, ON CONFLICT DO NOTHING.
EnsurePollState ==
  /\ pc = "ensure" /\ pc' = "drop"
  /\ LET added == Covered \ Held IN
     /\ polls' = [a \in Asset |->
          IF a \in added
          THEN [NoRow EXCEPT !.held = TRUE, !.interval = PollInterval(value[a])]
          ELSE polls[a]]
     /\ newer' = [a \in Asset |->
          IF a \in added THEN {b \in Held : polls[b].age # Null} ELSE newer[a]]
  /\ UNCHANGED <<value, todo, chunk, left, served>>

\* Mutant: what fell out of the covered set keeps its rows.
DropNothing ==
  /\ pc = "drop" /\ pc' = "due"
  /\ UNCHANGED <<value, polls, newer, todo, chunk, left, served>>

\* drop_poll_state_outside.
DropOutside ==
  /\ pc = "drop" /\ pc' = "due"
  /\ polls' = [a \in Asset |-> IF a \in Covered THEN polls[a] ELSE NoRow]
  /\ newer' = [a \in Asset |-> IF a \in Covered THEN newer[a] \cap Covered ELSE {}]
  /\ UNCHANGED <<value, todo, chunk, left, served>>

-----------------------------------------------------------------------------
(* ingest_prices.                                                          *)

\* due_external_ids LIMIT remaining * batch_size.
Plan ==
  /\ pc = "due"
  /\ todo' \in First({a \in Held : IsDue(a)}, left * BatchSize)
  /\ pc' = "batch"
  /\ UNCHANGED <<value, polls, newer, chunk, left, served>>

\* The next of due.chunks(batch_size) is paid for and asked for.
TakeBatch ==
  /\ pc = "batch" /\ todo # {} /\ left > 0
  /\ left' = left - 1
  /\ chunk' \in First(todo, BatchSize)
  /\ todo' = todo \ chunk'
  /\ pc' = "fetch"
  /\ UNCHANGED <<value, polls, newer, served>>

Fetch ==
  /\ pc = "fetch" /\ chunk \cap Broken = {}
  /\ pc' = "store"
  /\ UNCHANGED <<value, polls, newer, todo, chunk, left, served>>

\* Fetched::Skip: the batch leaves no poll, and the next one is taken.
FetchBroken ==
  /\ pc = "fetch" /\ chunk \cap Broken # {}
  /\ chunk' = {} /\ pc' = "batch"
  /\ UNCHANGED <<value, polls, newer, todo, left, served>>

\* What a poll leaves in a row, by whether it was refused.
Polled(a, refused) ==
  [polls[a] EXCEPT !.age = 0,
     !.failures = [m \in Market |->
        IF m \in refused THEN Smaller(polls[a].failures[m] + 1, MaxBackoff - 1)
                         ELSE 0]]

\* write_polls: every row of the cards asked for, in one transaction.
StoreBatch ==
  /\ pc = "store"
  /\ \E refused \in [chunk -> SUBSET Market] :
       /\ \A a \in chunk : a \in Unpriced => refused[a] = Market
       /\ polls' = [a \in Asset |->
            IF a \in chunk THEN Polled(a, refused[a]) ELSE polls[a]]
  /\ newer' = [a \in Asset |-> IF a \in chunk THEN {}
                               ELSE IF a \in Held THEN newer[a] \cup chunk ELSE {}]
  /\ chunk' = {} /\ pc' = "batch"
  /\ UNCHANGED <<value, todo, left, served>>

EndRun ==
  /\ pc = "batch" /\ todo = {}
  /\ served' = TRUE /\ pc' = "idle"
  /\ UNCHANGED <<value, polls, newer, todo, chunk, left>>

-----------------------------------------------------------------------------
(* Failures and the clock.                                                 *)

\* A fetch, an archive write, a parse or the transaction fails: no poll is
\* written and the loop goes on, or a rate limit leaves it.
LoseBatch ==
  /\ pc \in {"fetch", "store"}
  /\ \/ pc' = "batch" /\ todo' = todo
     \/ pc' = "idle" /\ todo' = {}
  /\ chunk' = {}
  /\ UNCHANGED <<value, polls, newer, left, served>>

\* The run fails or is killed.
Abort ==
  /\ pc # "idle" /\ pc' = "idle"
  /\ todo' = {} /\ chunk' = {}
  /\ UNCHANGED <<value, polls, newer, left, served>>

Older(age) == IF age < OldAge THEN age + 1 ELSE age

Tick ==
  /\ pc = "idle"
  /\ polls' = [a \in Asset |-> [polls[a] EXCEPT !.age = Older(@)]]
  /\ left' = DailyBudget /\ served' = FALSE
  /\ UNCHANGED <<pc, value, newer, todo, chunk>>

Run == \/ StartRun \/ StepsDone \/ EnsurePollState \/ DropOutside
       \/ Plan \/ TakeBatch \/ Fetch \/ FetchBroken \/ StoreBatch \/ EndRun

Steps == Spend \/ \E a \in Asset, v \in Value : Learn(a, v)

Next == Run \/ Steps \/ LoseBatch \/ Abort \/ Tick

Spec == Init /\ [][Next]_vars

\* Every day has a run that reads all it planned, nothing else spends, and a
\* card's attributes arrive once: a covered set that changes every day would
\* hand the whole budget to the cards that just entered.
DailyNext == \/ Run \/ (served /\ Tick)
             \/ \E a \in Asset, v \in Value : value[a] = 0 /\ Learn(a, v)
DailySpec == Init /\ [][DailyNext]_vars

\* Runs go on and days pass; from some time on no batch is lost other than
\* those of the broken cards, no run is cut short, the slow steps are over
\* and the attributes are stable.
FairSpec == /\ Spec
            /\ WF_vars(Run) /\ SF_vars(Tick)
            /\ <>[][Run \/ Tick]_vars

-----------------------------------------------------------------------------
(* Properties.                                                             *)

\* Every variable stays in its type.
TypeOK ==
  /\ pc \in Pc /\ value \in [Asset -> Value] /\ polls \in [Asset -> Row]
  /\ newer \in [Asset -> SUBSET Asset]
  /\ todo \subseteq Asset /\ chunk \subseteq Asset
  /\ left \in 0..DailyBudget
  /\ served \in BOOLEAN

\* A row's interval is that of the attributes its card has, whichever of
\* discovery and the metadata step came last (ensure_poll_state,
\* update_asset_attributes).
IntervalHonest ==
  \A a \in Held : polls[a].interval = PollInterval(value[a])

\* The price loop sees rows for exactly the covered cards, whatever a run that
\* was cut short left behind (apply_coverage).
CoverageExact == pc \in {"due", "batch", "fetch", "store"} => Held = Covered

\* A card of which a price was read stays inside the trust window as long as
\* it is covered: with one full run a day, the rotation brings every such
\* card round in time (TRUSTED_PRICE_MAX_AGE_SECONDS).
StaysTrusted ==
  \A a \in Held : polls[a].age # Null /\ (\E m \in Market : polls[a].failures[m] = 0)
                    => polls[a].age <= TrustWindow

\* A covered card that can be fetched is polled again and again, also one whose
\* prices are refused every time, as long as fewer cards fail to be fetched
\* than a day has requests: the backoff is capped, the oldest come first, and a
\* skipped batch gives its turn to the next.
HealthyCardsPolled ==
  \A a \in Asset \ Broken : []<>(a \in Covered => polls[a].age = 0)

=============================================================================

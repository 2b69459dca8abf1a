----------------------------- MODULE SlowSteps ------------------------------
(***************************************************************************)
(* The slow steps that precede the price loop of a run: the full walk of   *)
(* the asset list, the walk of what the provider added, the metadata step  *)
(* and the reference lists.  Each is gated by a cadence that is read from  *)
(* flags on earlier runs, shares the request budget of the day with the    *)
(* prices, and may mark itself done only when it got all the way through.  *)
(*                                                                         *)
(* One run is at work at a time (the lock is in module IngestRuns), so the *)
(* rows of earlier runs are kept as what is_due reads of them: the age of  *)
(* the newest run that carries each flag.  Cards are numbered as provider  *)
(* identifiers are; a list holds them in ascending order, and the page and *)
(* metadata answers carry attributes, as those of the futdb provider do.   *)
(***************************************************************************)
EXTENDS Integers, FiniteSets, Sequences, FiniteSetsExt

CONSTANTS Card,         \* identifiers the provider may ever publish
          FirstCards,   \* those published when the system starts
          PageSize,     \* cards on a page of the asset list
          MetaBatch,    \* Source::metadata_batch_size
          RefKinds,     \* Source::reference_kinds, in order
          RefPages,     \* pages of each reference list
          MaxPages,     \* MAX_ASSET_LIST_PAGES, MAX_PAGES_PER_LIST
          DailyBudget,  \* config.daily_request_budget
          DiscoveryCadence, NewAssetsCadence, MetadataCadence, ReferenceCadence
                        \* config.*_cadence_seconds, in ticks of the clock

ASSUME CardAssumption ==
  /\ Card \subseteq Nat \ {0} /\ IsFiniteSet(Card) /\ FirstCards \subseteq Card
  /\ PageSize \in Nat \ {0} /\ MetaBatch \in Nat \ {0}
  /\ RefKinds \in Seq(STRING)
  /\ RefPages \in Nat \ {0} /\ MaxPages \in Nat /\ DailyBudget \in Nat
  /\ {DiscoveryCadence, NewAssetsCadence, MetadataCadence, ReferenceCadence}
       \subseteq Nat \ {0}

VARIABLES pc,        \* where the run is
          released,  \* cards the provider publishes
          repointed, \* known identifiers the provider gave to another card
          known,     \* asset_source_ids: cards we hold
          seenAge,   \* assets.last_seen_at, as an age
          stepAge,   \* each step: age of the newest unfailed run flagged so
          left,      \* requests the day has left
          run        \* the locals and the metadata of the current run

vars == <<pc, released, repointed, known, seenAge, stepAge, left, run>>

-----------------------------------------------------------------------------
Step == {"discovery_ran", "new_assets_ran", "metadata_ran", "reference_ran"}

Cadence == [s \in Step |-> CASE s = "discovery_ran"  -> DiscoveryCadence
                             [] s = "new_assets_ran" -> NewAssetsCadence
                             [] s = "metadata_ran"   -> MetadataCadence
                             [] s = "reference_ran"  -> ReferenceCadence]

\* Ages are capped one past what any query tells apart; Never is NULL.
Stale == MetadataCadence + 1
Never == MetadataCadence + 2

WalkPc == {"walk", "walk_fetch", "walk_parse", "walk_done"}
MetaPc == {"meta", "meta_fetch", "meta_parse", "meta_done"}
RefPc  == {"ref", "ref_fetch", "ref_parse", "ref_done"}
Pc == {"idle", "discover", "discover_new", "metadata", "reference", "prices",
       "close"} \cup WalkPc \cup MetaPc \cup RefPc

\* An archived object: its key, of which the source, the date and the run are
\* the same throughout a run, and the answer to the request it was made for.
Answer == [step : Step, kind : 0..Len(RefKinds), page : Nat]
Object == [prefix : {"assets", "metadata"}, batch : Nat, answer : Answer]

Status == {"none", "running", "ok", "degraded", "failed", "killed"}

RunState ==
  [status : Status, degraded : BOOLEAN,
   flags : SUBSET Step,      \* flags in ingest_runs.metadata
   before : [Step -> Nat],   \* stepAge without this run's flags
   begun : SUBSET Step,      \* history: steps this run found due
   step : Step, page : Nat, pages : Nat, kind : Nat, complete : BOOLEAN,
   after : Nat,              \* watermark of the walk
   owed : SUBSET Card,       \* history: what the list held when the walk
                             \* began, less what an answer left out since
   todo : SUBSET Card,       \* metadata: stale cards not yet asked for
   chunk : SUBSET Card,      \* cards of the page or the batch in hand
   next : Nat,               \* next_page of the page in hand, 0 for None
   asked : Nat,              \* metadata: batches taken
   archive : SUBSET Object,  \* what the object store holds of this run
   parsed : SUBSET Answer,   \* history: answers that were parsed
   passed : SUBSET Answer]   \* history: pages of lists that an answer passed over

FreshRun == [status |-> "running", degraded |-> FALSE, flags |-> {},
             before |-> stepAge, begun |-> {}, step |-> "discovery_ran",
             page |-> 0, pages |-> 0, kind |-> 0, complete |-> TRUE, after |-> 0,
             owed |-> {}, todo |-> {}, chunk |-> {}, next |-> 0,
             asked |-> 0, archive |-> {}, parsed |-> {}, passed |-> {}]

\* The locals of a run are gone when it ends.  What it began and what it
\* recorded stay in view until the next run.
EndedRun(status) == [FreshRun EXCEPT !.status = status, !.before = Cadence,
                                     !.begun = run.begun, !.flags = run.flags]

Init == /\ pc = "idle"
        /\ released = FirstCards /\ repointed = {} /\ known = {}
        /\ seenAge = [c \in Card |-> Never]
        /\ stepAge = [s \in Step |-> Cadence[s]]
        /\ left = DailyBudget
        /\ run = [FreshRun EXCEPT !.status = "none", !.before = Cadence]

-----------------------------------------------------------------------------
(* Helpers.                                                                *)

\* is_due: never, or not inside the cadence (an age is capped there).
IsDue(s) == stepAge[s] >= Cadence[s]

\* The pages of the list a walk reads: the catalogue, or what is after a card.
Listed(after) == {c \in released : c > after}
Position(c, list) == Cardinality({d \in list : d <= c})
PageOf(list, page) == {c \in list : /\ Position(c, list) > (page - 1) * PageSize
                                    /\ Position(c, list) <= page * PageSize}
NextOf(list, page) == IF Cardinality(list) > page * PageSize THEN page + 1 ELSE 0

\* What the answer to a page leaves out: cards of the page it does not hold,
\* and cards of pages it passes over, as its last page or by a jump ahead.
LeftOut(list, page, cards, next) ==
  {c \in PageOf(list, page) : c \notin cards} \cup
  {c \in list : /\ Position(c, list) > page * PageSize
                /\ next = 0 \/ Position(c, list) <= (next - 1) * PageSize}

\* The pages an answer may name: any of the list, and one past the most read.
Named == 0..MaxPages + 1

\* highest_external_id, 0 when there is none.
Watermark == IF known = {} THEN 0 ELSE Max(known)

\* The n first of a set in the order of last_seen_at, NULLS FIRST.
Oldest(set, n) ==
  {S \in SUBSET set :
     /\ Cardinality(S) = IF Cardinality(set) < n THEN Cardinality(set) ELSE n
     /\ \A c \in S, d \in set \ S : seenAge[c] >= seenAge[d]}

\* assets_needing_metadata without its LIMIT.
NeedingMetadata(k, age) == {c \in k : age[c] >= Stale}

\* Mutant: the name check is inverted, and only renamed cards are written.
ApplyToRepointed(cards) ==
  [c \in Card |-> IF c \in cards \cap repointed THEN 0 ELSE seenAge[c]]

\* apply_attributes after rule 1: a card the provider renamed is left alone.
ApplyAttributes(cards) ==
  [c \in Card |-> IF c \in cards \ repointed THEN 0 ELSE seenAge[c]]

\* object_key: the prefix is the Kind's, and the reference lists share the
\* Kind of the asset list.
Prefix(kind) == IF kind = "Metadata" THEN "metadata" ELSE "assets"

\* The answer to the request in hand, and Archive::put of it: an object of the
\* same key is replaced.
InHand == [step |-> run.step, kind |-> run.kind, page |-> run.page]
Put(kind) ==
  {o \in run.archive : <<o.prefix, o.batch>> # <<Prefix(kind), run.page>>}
    \cup {[prefix |-> Prefix(kind), batch |-> run.page, answer |-> InHand]}

\* Mutant: the answer of budget.take is ignored.
TakeUnchecked == left' = left - 1

\* budget.take, tally.requests += 1, record_request, touch_heartbeat.
Take == left > 0 /\ left' = left - 1

\* record_step: the flag counts at once, even if this run is later killed.
RecordStep(s, r) ==
  /\ stepAge' = [stepAge EXCEPT ![s] = 0]
  /\ run' = [r EXCEPT !.flags = @ \cup {s}]

\* The locals of a step are gone when it ends.
StepEnded(r) ==
  [r EXCEPT !.kind = 0, !.page = 0, !.pages = 0, !.complete = TRUE, !.after = 0,
            !.owed = {}, !.todo = {}, !.chunk = {}, !.next = 0, !.asked = 0]

\* A step ends, marked done or not.
EndStep(s, done) ==
  \/ done /\ RecordStep(s, StepEnded(run))
  \/ ~done /\ run' = StepEnded(run) /\ stepAge' = stepAge

\* What follows a walk.
AfterWalk == IF run.step = "discovery_ran" THEN "discover_new" ELSE "metadata"

-----------------------------------------------------------------------------
(* The walk of the asset list: maybe_discover, maybe_discover_new, walk.   *)

Start == /\ pc = "idle"
         /\ run' = FreshRun
         /\ pc' = "discover"
         /\ UNCHANGED <<released, repointed, known, seenAge, stepAge, left>>

BeginWalk(s, after) ==
  /\ run' = [run EXCEPT !.begun = @ \cup {s}, !.step = s, !.kind = 0,
               !.page = 1, !.pages = 0, !.complete = TRUE, !.after = after,
               !.owed = Listed(after)]
  /\ pc' = "walk"

\* Mutant: once there is a watermark, the full walk is given up.
MaybeDiscoverOnce ==
  /\ pc = "discover"
  /\ \/ known = {} /\ BeginWalk("discovery_ran", 0)
     \/ known # {} /\ pc' = "discover_new" /\ run' = run
  /\ UNCHANGED <<released, repointed, known, seenAge, stepAge, left>>

MaybeDiscover ==
  /\ pc = "discover"
  /\ \/ IsDue("discovery_ran") /\ BeginWalk("discovery_ran", 0)
     \/ ~IsDue("discovery_ran") /\ pc' = "discover_new" /\ run' = run
  /\ UNCHANGED <<released, repointed, known, seenAge, stepAge, left>>

\* No asset, no watermark: the full walk bootstraps the catalogue.
MaybeDiscoverNew ==
  /\ pc = "discover_new"
  /\ LET due == IsDue("new_assets_ran") /\ known # {} IN
     \/ due /\ BeginWalk("new_assets_ran", Watermark)
     \/ ~due /\ pc' = "metadata" /\ run' = run
  /\ UNCHANGED <<released, repointed, known, seenAge, stepAge, left>>

\* Mutant: a walk that stops short is not done, but nothing says so.
StopShortQuietly(r, to) == run' = [r EXCEPT !.complete = FALSE] /\ pc' = to

\* The walk stops short: the run says so and the step is not done.
StopShort(r, to) ==
  run' = [r EXCEPT !.degraded = TRUE, !.complete = FALSE] /\ pc' = to

WalkTake ==
  /\ pc = "walk"
  /\ \/ run.pages >= MaxPages /\ StopShort(run, "walk_done") /\ left' = left
     \/ run.pages < MaxPages /\ left = 0 /\ StopShort(run, "walk_done") /\ left' = left
     \/ run.pages < MaxPages /\ Take /\ pc' = "walk_fetch" /\ run' = run
  /\ UNCHANGED <<released, repointed, known, seenAge, stepAge>>

\* fetch_and_archive, and what parse_asset_list and next_page will make of it.
ReceivePage(cards, next) ==
  run' = [run EXCEPT !.pages = @ + 1, !.archive = Put("AssetList"),
            !.chunk = cards, !.next = next,
            !.owed = @ \ LeftOut(Listed(run.after), run.page, cards, next)]

\* The page as the provider lists it now.
WalkFetch ==
  /\ pc = "walk_fetch"
  /\ ReceivePage(PageOf(Listed(run.after), run.page), NextOf(Listed(run.after), run.page))
  /\ pc' = "walk_parse"
  /\ UNCHANGED <<released, repointed, known, seenAge, stepAge, left>>

\* The answer is not the list: items missing, or null, or a pagination that is
\* missing, ends early, jumps ahead, goes back or claims one page too many.
WalkFetchMisleads ==
  /\ pc = "walk_fetch"
  /\ LET list == Listed(run.after) IN
     \E cards \in SUBSET PageOf(list, run.page), next \in Named :
       /\ <<cards, next>> # <<PageOf(list, run.page), NextOf(list, run.page)>>
       /\ ReceivePage(cards, next)
  /\ pc' = "walk_parse"
  /\ UNCHANGED <<released, repointed, known, seenAge, stepAge, left>>

WalkFetchFails ==
  /\ pc = "walk_fetch"
  /\ StopShort(run, "walk_done")
  /\ UNCHANGED <<released, repointed, known, seenAge, stepAge, left>>

Parsed == [run EXCEPT !.parsed = @ \cup {InHand}]

\* The page must increase.  None ends the walk, and it is still complete.
NextPage(r) ==
  \/ run.next > run.page /\ run' = [r EXCEPT !.page = run.next] /\ pc' = "walk"
  \/ run.next = 0 /\ run' = r /\ pc' = "walk_done"
  \/ run.next \in 1..run.page /\ StopShort(r, "walk_done")

\* One page: insert what is unknown, harvest its attributes, then go to the
\* next page if the provider says there is one.
WalkParse ==
  /\ pc = "walk_parse"
  /\ known' = known \cup run.chunk
  /\ seenAge' = ApplyAttributes(run.chunk)
  /\ NextPage([Parsed EXCEPT !.degraded = @ \/ run.chunk \cap repointed # {}])
  /\ UNCHANGED <<released, repointed, stepAge, left>>

\* The page does not parse; or its attributes do not, and the walk goes on
\* without them.
WalkParseFails ==
  /\ pc = "walk_parse"
  /\ \/ StopShort(run, "walk_done") /\ UNCHANGED <<known, seenAge>>
     \/ /\ known' = known \cup run.chunk /\ seenAge' = seenAge
        /\ NextPage([Parsed EXCEPT !.degraded = TRUE, !.complete = FALSE])
  /\ UNCHANGED <<released, repointed, stepAge, left>>

\* Mutant: the step is marked whether or not the walk was complete.
WalkDoneAlways ==
  /\ pc = "walk_done"
  /\ EndStep(run.step, TRUE)
  /\ pc' = AfterWalk
  /\ UNCHANGED <<released, repointed, known, seenAge, left>>

WalkDone ==
  /\ pc = "walk_done"
  /\ EndStep(run.step, run.complete)
  /\ pc' = AfterWalk
  /\ UNCHANGED <<released, repointed, known, seenAge, left>>

-----------------------------------------------------------------------------
(* maybe_refresh_metadata.                                                 *)

\* assets_needing_metadata LIMIT remaining * batch_size.
StaleCards == Oldest(NeedingMetadata(known, seenAge), left * MetaBatch)

\* Stale cards up to what the budget pays for.  An empty answer, which is
\* also what LIMIT 0 gives, marks the step done.
MaybeRefreshMetadata ==
  /\ pc = "metadata"
  /\ IF ~IsDue("metadata_ran")
     THEN pc' = "reference" /\ UNCHANGED <<run, stepAge>>
     ELSE \E stale \in StaleCards :
            LET r == [run EXCEPT !.begun = @ \cup {"metadata_ran"},
                        !.step = "metadata_ran", !.kind = 0, !.complete = TRUE,
                        !.todo = stale, !.asked = 0] IN
            IF stale = {} THEN RecordStep("metadata_ran", r) /\ pc' = "reference"
                          ELSE run' = r /\ stepAge' = stepAge /\ pc' = "meta"
  /\ UNCHANGED <<released, repointed, known, seenAge, left>>

\* The loop over stale.chunks(batch_size).
MetaTake ==
  /\ pc = "meta"
  /\ \/ run.todo = {} /\ pc' = "meta_done" /\ UNCHANGED <<run, left>>
     \/ /\ run.todo # {} /\ Take
        /\ \E chunk \in Oldest(run.todo, MetaBatch) :
             run' = [run EXCEPT !.todo = @ \ chunk, !.chunk = chunk,
                                !.page = run.asked, !.next = 0, !.asked = @ + 1]
        /\ pc' = "meta_fetch"
  /\ UNCHANGED <<released, repointed, known, seenAge, stepAge>>

MetaFetch ==
  /\ pc = "meta_fetch"
  /\ run' = [run EXCEPT !.archive = Put("Metadata")]
  /\ pc' = "meta_parse"
  /\ UNCHANGED <<released, repointed, known, seenAge, stepAge, left>>

\* Fetched::Skip goes on to the next batch, Fetched::Stop leaves the loop.
MetaFetchFails ==
  /\ pc = "meta_fetch"
  /\ \E to \in {"meta", "meta_done"} : StopShort(run, to)
  /\ UNCHANGED <<released, repointed, known, seenAge, stepAge, left>>

MetaParse ==
  /\ pc = "meta_parse"
  /\ seenAge' = ApplyAttributes(run.chunk)
  /\ run' = [Parsed EXCEPT !.degraded = @ \/ run.chunk \cap repointed # {}]
  /\ pc' = "meta"
  /\ UNCHANGED <<released, repointed, known, stepAge, left>>

\* The answer does not parse, or leaves out cards that were asked for.
MetaParseFails ==
  /\ pc = "meta_parse"
  /\ \/ StopShort(run, "meta") /\ seenAge' = seenAge
     \/ /\ \E given \in SUBSET run.chunk \ {run.chunk} : seenAge' = ApplyAttributes(given)
        /\ run' = Parsed /\ pc' = "meta"
  /\ UNCHANGED <<released, repointed, known, stepAge, left>>

\* Mutant: the step is done when its capped list is.
MetaDoneByLoop ==
  /\ pc = "meta_done"
  /\ EndStep("metadata_ran", run.complete)
  /\ pc' = "reference"
  /\ UNCHANGED <<released, repointed, known, seenAge, left>>

\* Completion is measured against what is outstanding, not against the loop.
MetaDone ==
  /\ pc = "meta_done"
  /\ EndStep("metadata_ran", run.complete /\ NeedingMetadata(known, seenAge) = {})
  /\ pc' = "reference"
  /\ UNCHANGED <<released, repointed, known, seenAge, left>>

-----------------------------------------------------------------------------
(* reference::maybe_refresh: every list in turn.                           *)

MaybeRefresh ==
  /\ pc = "reference"
  /\ LET due == RefKinds # <<>> /\ IsDue("reference_ran") IN
     \/ /\ due
        /\ run' = [run EXCEPT !.begun = @ \cup {"reference_ran"},
                     !.step = "reference_ran", !.kind = 1, !.page = 1,
                     !.pages = 0, !.complete = TRUE]
        /\ pc' = "ref"
     \/ ~due /\ pc' = "prices" /\ run' = run
  /\ UNCHANGED <<released, repointed, known, seenAge, stepAge, left>>

\* Mutant: a list that stops short does not leave the step incomplete.
NextKindComplete(r, short) ==
  /\ run' = [r EXCEPT !.kind = @ + 1, !.page = 1, !.pages = 0,
                      !.degraded = @ \/ short]
  /\ pc' = IF r.kind < Len(RefKinds) THEN "ref" ELSE "ref_done"

\* The inner loop breaks: the next list, if there is one.
NextKind(r, short) ==
  /\ run' = [r EXCEPT !.kind = @ + 1, !.page = 1, !.pages = 0,
                      !.degraded = @ \/ short, !.complete = @ /\ ~short]
  /\ pc' = IF r.kind < Len(RefKinds) THEN "ref" ELSE "ref_done"

RefTake ==
  /\ pc = "ref"
  /\ \/ run.pages >= MaxPages /\ NextKind(run, TRUE) /\ left' = left
     \/ run.pages < MaxPages /\ left = 0 /\ StopShort(run, "ref_done") /\ left' = left
     \/ run.pages < MaxPages /\ Take /\ pc' = "ref_fetch" /\ run' = run
  /\ UNCHANGED <<released, repointed, known, seenAge, stepAge>>

\* The pages of the list that no answer gives, if this one names the next.
PassedOver(next) ==
  {[InHand EXCEPT !.page = p] :
     p \in {q \in 1..RefPages : q > run.page /\ (next = 0 \/ q < next)}}

ReceiveList(next) ==
  run' = [run EXCEPT !.pages = @ + 1, !.archive = Put("AssetList"),
            !.next = next, !.passed = @ \cup PassedOver(next)]

NextOfList(page) == IF page < RefPages THEN page + 1 ELSE 0

RefFetch ==
  /\ pc = "ref_fetch"
  /\ ReceiveList(NextOfList(run.page))
  /\ pc' = "ref_parse"
  /\ UNCHANGED <<released, repointed, known, seenAge, stepAge, left>>

\* The pagination is missing, ends early, jumps, goes back or claims too much.
RefFetchMisleads ==
  /\ pc = "ref_fetch"
  /\ \E next \in Named \ {NextOfList(run.page)} : ReceiveList(next)
  /\ pc' = "ref_parse"
  /\ UNCHANGED <<released, repointed, known, seenAge, stepAge, left>>

RefFetchFails ==
  /\ pc = "ref_fetch"
  /\ NextKind(run, TRUE)
  /\ UNCHANGED <<released, repointed, known, seenAge, stepAge, left>>

RefParse ==
  /\ pc = "ref_parse"
  /\ \/ run.next > run.page /\ run' = [Parsed EXCEPT !.page = run.next] /\ pc' = "ref"
     \/ run.next = 0 /\ NextKind(Parsed, FALSE)
     \/ run.next \in 1..run.page /\ NextKind(Parsed, TRUE)
  /\ UNCHANGED <<released, repointed, known, seenAge, stepAge, left>>

\* The list does not parse.
RefParseFails ==
  /\ pc = "ref_parse"
  /\ NextKind(run, TRUE)
  /\ UNCHANGED <<released, repointed, known, seenAge, stepAge, left>>

RefDone ==
  /\ pc = "ref_done"
  /\ EndStep("reference_ran", run.complete)
  /\ pc' = "prices"
  /\ UNCHANGED <<released, repointed, known, seenAge, left>>

-----------------------------------------------------------------------------
(* The rest of the run, failures and the environment.                      *)

\* ingest_prices spends some of what is left; with nothing left it degrades.
Prices ==
  /\ pc = "prices"
  /\ left' \in 0..left
  /\ \E d \in BOOLEAN : run' = [run EXCEPT !.degraded = @ \/ d \/ left = 0]
  /\ pc' = "close"
  /\ UNCHANGED <<released, repointed, known, seenAge, stepAge>>

Close ==
  /\ pc = "close"
  /\ run' = EndedRun(IF run.degraded THEN "degraded" ELSE "ok")
  /\ pc' = "idle"
  /\ UNCHANGED <<released, repointed, known, seenAge, stepAge, left>>

\* A page or a batch is stored one card at a time, so a statement that fails
\* leaves any part of it behind.
PartlyStored ==
  \/ UNCHANGED <<known, seenAge>>
  \/ /\ pc = "walk_parse"
     /\ \E some \in SUBSET run.chunk :
          known' = known \cup some /\ seenAge' \in {seenAge, ApplyAttributes(some)}
  \/ /\ pc = "meta_parse" /\ known' = known
     /\ \E some \in SUBSET run.chunk : seenAge' = ApplyAttributes(some)

\* A failed statement ends the run as failed, and is_due then looks past it.
StatementFails ==
  /\ pc # "idle"
  /\ PartlyStored
  /\ stepAge' = run.before
  /\ run' = EndedRun("failed")
  /\ pc' = "idle"
  /\ UNCHANGED <<released, repointed, left>>

\* Killed: the row is reaped as abandoned and its flags still count.
Killed ==
  /\ pc # "idle"
  /\ PartlyStored
  /\ run' = EndedRun("killed")
  /\ pc' = "idle"
  /\ UNCHANGED <<released, repointed, stepAge, left>>

\* The provider publishes a card, above the watermark or below it.
Release(c) ==
  /\ c \notin released
  /\ released' = released \cup {c}
  /\ UNCHANGED <<pc, repointed, known, seenAge, stepAge, left, run>>

\* The provider gives a known identifier to a different card.
Repoint(c) ==
  /\ c \in known
  /\ repointed' = repointed \cup {c}
  /\ UNCHANGED <<pc, released, known, seenAge, stepAge, left, run>>

\* A day between two runs.
Tick ==
  /\ pc = "idle"
  /\ stepAge' = [s \in Step |-> IF stepAge[s] < Cadence[s] THEN stepAge[s] + 1
                                                           ELSE stepAge[s]]
  /\ seenAge' = [c \in Card |-> IF seenAge[c] < Stale THEN seenAge[c] + 1 ELSE seenAge[c]]
  /\ left' = DailyBudget
  /\ UNCHANGED <<pc, released, repointed, known, run>>

Discovery == MaybeDiscover \/ MaybeDiscoverNew \/ WalkTake \/ WalkFetch \/ WalkParse \/ WalkDone
Metadata == MaybeRefreshMetadata \/ MetaTake \/ MetaFetch \/ MetaParse \/ MetaDone
Reference == MaybeRefresh \/ RefTake \/ RefFetch \/ RefParse \/ RefDone
Work == Start \/ Discovery \/ Metadata \/ Reference \/ Prices \/ Close

Misled == WalkFetchMisleads \/ RefFetchMisleads

Fault == \/ WalkFetchFails \/ WalkParseFails \/ MetaFetchFails \/ MetaParseFails
         \/ RefFetchFails \/ RefParseFails \/ Misled \/ StatementFails \/ Killed

Next == Work \/ Fault \/ Tick \/ \E c \in Card : Release(c) \/ Repoint(c)

Spec == Init /\ [][Next]_vars

\* Runs go on, days pass, and from some time on the provider, the archive and
\* the database answer and nothing kills the process.
FairSpec == Spec /\ WF_vars(Work) /\ SF_vars(Tick) /\ <>[][~Fault]_vars

-----------------------------------------------------------------------------
(* Properties.                                                             *)

\* Every variable stays in its type; the budget never goes below zero.
TypeOK ==
  /\ pc \in Pc
  /\ released \subseteq Card /\ repointed \subseteq known /\ known \subseteq released
  /\ seenAge \in [Card -> 0..Never]
  /\ stepAge \in [Step -> Nat]
  /\ left \in 0..DailyBudget
  /\ run \in RunState

\* A walk marks its step done only when every card its list held as the walk
\* began is known, also when cards are inserted behind it or ahead of it while
\* it runs, but for those that one of the provider's own answers left out: a
\* page without them, or a next_page that is None or jumps past them is taken
\* at its word (walk: complete).
WalkDoneIsWhole ==
  [][\A s \in {"discovery_ran", "new_assets_ran"} :
       s \in run'.flags \ run.flags => run.owed \subseteq known]_vars

\* The reference step marks itself done only when every page of every list was
\* parsed, or was passed over by one of the provider's own answers: a list that
\* an answer ends early is believed, and nothing else stops one short of its
\* end (reference::maybe_refresh: complete).
ReferenceDoneIsWhole ==
  [][ "reference_ran" \in run'.flags \ run.flags =>
        \A k \in 1..Len(RefKinds), p \in 1..RefPages :
          [step |-> "reference_ran", kind |-> k, page |-> p]
            \in run.parsed \cup run.passed ]_vars

\* The metadata step marks itself done only when no card it holds needs
\* attributes, unless it found the day without a request left
\* (maybe_refresh_metadata).
MetadataDoneUnlessBroke ==
  [][ "metadata_ran" \in run'.flags \ run.flags =>
        NeedingMetadata(known, seenAge) = {} \/ (pc = "metadata" /\ left = 0) ]_vars

\* A run that ends ok finished every walk and every list it began: whatever
\* cuts one short degrades the run (walk, reference::maybe_refresh).
OkMeansWalked ==
  run.status = "ok" => run.begun \ {"metadata_ran"} \subseteq run.flags

\* Every card the provider publishes is discovered some day, also one that it
\* inserts below the watermark (maybe_discover, maybe_discover_new).
EveryCardKnown == \A c \in Card : c \in released ~> c \in known

\* A known card's attributes are refreshed again and again, unless its
\* identifier was given to a different card (apply_attributes).
AttributesRefreshed ==
  \A c \in Card : c \in known ~> seenAge[c] = 0 \/ c \in repointed

-----------------------------------------------------------------------------
(* What the repository says of the code and the code does not do.          *)

\* "Nothing needs attributes, so the step is genuinely done"
\* (discovery.rs:373): the metadata step is marked only when that is so.
MetadataDoneIsDone ==
  [][ "metadata_ran" \in run'.flags \ run.flags =>
        NeedingMetadata(known, seenAge) = {} ]_vars

\* "Archive before parse, once per response, so replay sees what we saw"
\* (discovery.rs:221): every answer that was parsed stays in the archive.
AnswersKept == \A a \in run.parsed : \E o \in run.archive : o.answer = a

=============================================================================

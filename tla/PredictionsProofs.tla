------------------------- MODULE PredictionsProofs -------------------------
(* Theorems of Predictions: what was claimed recomputes, and what was asked *)
(* of the past is answered alike for ever, for any cards, markets, prices,  *)
(* window, cadence and horizon.                                             *)
EXTENDS Predictions, SequenceTheorems, TLAPS

RunRow == [started : Instant, status : Status, marked : BOOLEAN]

-----------------------------------------------------------------------------
(* The runs.                                                                *)

\* A run that is opened is the last, and leaves the others.
LEMMA RunOpens ==
  ASSUME NEW rs \in Seq(RunRow), NEW new \in RunRow
  PROVE  /\ Append(rs, new) \in Seq(RunRow)
         /\ Len(Append(rs, new)) = Len(rs) + 1 /\ Len(rs) \in Nat
         /\ DOMAIN rs = 1..Len(rs) /\ DOMAIN Append(rs, new) = 1..(Len(rs) + 1)
         /\ Append(rs, new)[Len(rs) + 1] = new
         /\ \A r \in 1..Len(rs) : Append(rs, new)[r] = rs[r]
BY AppendProperties, LenProperties

\* A run that ends or is marked keeps its place, and leaves the others.
LEMMA RunEnds ==
  ASSUME NEW rs \in Seq(RunRow), Len(rs) > 0, NEW e \in RunRow,
         NEW new, new = [rs EXCEPT ![Len(rs)] = e]
  PROVE  /\ new \in Seq(RunRow) /\ Len(new) = Len(rs) /\ Len(rs) \in Nat
         /\ DOMAIN new = 1..Len(rs) /\ DOMAIN rs = 1..Len(rs) /\ Len(rs) \in 1..Len(rs)
         /\ new[Len(rs)] = e
         /\ \A r \in 1..Len(rs) : r # Len(rs) => new[r] = rs[r]
<1>1. Len(rs) \in 1..Len(rs) /\ rs \in [1..Len(rs) -> RunRow] /\ Len(rs) \in Nat
  BY LenProperties
<1>2. new \in Seq(RunRow) /\ Len(new) = Len(rs)
  BY <1>1, ExceptSeq
<1> QED BY <1>1, <1>2, LenProperties

\* The ways a run's row changes once it is there.
LEMMA RunMarked ==
  ASSUME NEW rs \in Seq(RunRow), Len(rs) > 0
  PROVE  /\ \A b \in BOOLEAN : \E e \in RunRow :
              /\ e.started = rs[Len(rs)].started /\ e.marked = b /\ e.status = "failed"
              /\ [rs EXCEPT ![Len(rs)] = [@ EXCEPT !.status = "failed", !.marked = b]]
                 = [rs EXCEPT ![Len(rs)] = e]
         /\ \E e \in RunRow :
              /\ e.started = rs[Len(rs)].started
              /\ e.marked = rs[Len(rs)].marked /\ e.status = "closed"
              /\ [rs EXCEPT ![Len(rs)].status = "closed"] = [rs EXCEPT ![Len(rs)] = e]
         /\ \E e \in RunRow :
              /\ e.started = rs[Len(rs)].started
              /\ e.marked = TRUE /\ e.status = rs[Len(rs)].status
              /\ [rs EXCEPT ![Len(rs)].marked = TRUE] = [rs EXCEPT ![Len(rs)] = e]
<1> DEFINE n == Len(rs)
<1>1. rs[n] \in RunRow
  BY LenProperties
<1>2. ASSUME NEW b \in BOOLEAN
      PROVE  [rs[n] EXCEPT !.status = "failed", !.marked = b] \in RunRow
  BY <1>1 DEF RunRow, Status
<1>3. [rs[n] EXCEPT !.status = "closed"] \in RunRow
  BY <1>1 DEF RunRow, Status
<1>4. [rs[n] EXCEPT !.marked = TRUE] \in RunRow
  BY <1>1 DEF RunRow
<1>5. ASSUME NEW b \in BOOLEAN
      PROVE  \E e \in RunRow :
               /\ e.started = rs[n].started /\ e.marked = b /\ e.status = "failed"
               /\ [rs EXCEPT ![n] = [@ EXCEPT !.status = "failed", !.marked = b]]
                  = [rs EXCEPT ![n] = e]
  <2> [rs[n] EXCEPT !.status = "failed", !.marked = b] \in RunRow
    BY <1>2
  <2> WITNESS [rs[n] EXCEPT !.status = "failed", !.marked = b] \in RunRow
  <2> QED BY <1>1 DEF RunRow
<1>6. \E e \in RunRow :
        /\ e.started = rs[n].started
        /\ e.marked = rs[n].marked /\ e.status = "closed"
        /\ [rs EXCEPT ![n].status = "closed"] = [rs EXCEPT ![n] = e]
  <2> [rs[n] EXCEPT !.status = "closed"] \in RunRow
    BY <1>3
  <2> WITNESS [rs[n] EXCEPT !.status = "closed"] \in RunRow
  <2> QED BY <1>1 DEF RunRow
<1>7. \E e \in RunRow :
        /\ e.started = rs[n].started
        /\ e.marked = TRUE /\ e.status = rs[n].status
        /\ [rs EXCEPT ![n].marked = TRUE] = [rs EXCEPT ![n] = e]
  <2> [rs[n] EXCEPT !.marked = TRUE] \in RunRow
    BY <1>4
  <2> WITNESS [rs[n] EXCEPT !.marked = TRUE] \in RunRow
  <2> QED BY <1>1 DEF RunRow
<1> QED BY <1>5, <1>6, <1>7

-----------------------------------------------------------------------------
(* Types.                                                                   *)

\* A stated price: what is stored for a market.
LEMMA StatedIsRow ==
  ASSUME PredictionsAssumption, NEW a \in Asset, NEW m \in Market, NEW at \in Instant,
         NEW t \in Instant, NEW quote \in Quotes, quote[m] # 0, NEW r \in DOMAIN runs
  PROVE  [pair |-> <<a, m>>, at |-> at, price |-> quote[m], run |-> r, ingested |-> t] \in Row
BY DEF PredictionsAssumption, Row, Pair

\* A row as another parser reads it is a row again.
LEMMA RestatedIsRow ==
  ASSUME PredictionsAssumption, rows \subseteq Row, now \in Instant,
         NEW r, NEW read \in Reparses
  PROVE  Restated(r, read) \subseteq Row
<1> SUFFICES ASSUME NEW row \in Restated(r, read)
             PROVE  row \in Row
  OBVIOUS
<1>1. PICK old \in Held(r) : /\ read[old.price] # 0
                             /\ row = [old EXCEPT !.price = read[old.price], !.ingested = now]
  BY DEF Restated
<1>2. old \in Row
  BY DEF Held
<1>3. read[old.price] \in Price
  BY <1>1, <1>2 DEF PredictionsAssumption, Row
<1> QED BY <1>1, <1>2, <1>3 DEF Row

\* What the ranking picks is a set of claims made at the time asked for, all
\* of one market.
LEMMA PickingsAreClaims ==
  ASSUME NEW m \in Market, NEW t \in Instant, NEW of, NEW set \in Pickings(m, t, of)
  PROVE  \A c \in set : ClaimTyped(c) /\ c.made = t /\ c.market = m
<1>1. PICK f \in Readings(m, t) : set = Cheapest(Valued(m, t, f, of), of)
  BY DEF Pickings
<1>2. f \in [Readable(m, t) -> Price] /\ Readable(m, t) \subseteq Asset
  BY DEF Readings, Readable
<1>3. TAKE c \in set
<1>4. PICK a \in Unfloored(f) : c = Claim(m, a, t, f, of)
  BY <1>1 DEF Cheapest, Valued
<1>5. a \in Asset /\ f[a] \in Price
  BY <1>2, <1>4 DEF Unfloored
<1>6. c.market = m /\ c.asset = a /\ c.made = t /\ c.price = f[a]
  BY <1>4 DEF Claim
<1> QED BY <1>5, <1>6 DEF ClaimTyped

LEMMA TypeInit == Init => TypeOK
<1> SUFFICES ASSUME Init PROVE TypeOK
  OBVIOUS
<1>1. now \in 1..(MaxTime + 1) /\ MaxTime \in Nat
  BY PredictionsAssumption DEF Init, PredictionsAssumption
<1>2. runs \in Seq([started : Instant, status : Status, marked : BOOLEAN])
  BY DEF Init
<1>3. /\ attrs \in [Asset -> Attr] /\ seen \in [Instant -> [Asset -> Attr]]
      /\ refreshes \in 0..MaxRefreshes
  BY PredictionsAssumption DEF Init, PredictionsAssumption
<1> QED BY <1>1, <1>2, <1>3 DEF Init, TypeOK, Pc, NoBatch

\* The attributes stay attributes, and so do those a step saw.
LEMMA AttrsTyped ==
  ASSUME TypeOK, [Next]_vars
  PROVE  /\ attrs' \in [Asset -> Attr] /\ seen' \in [Instant -> [Asset -> Attr]]
         /\ refreshes' \in 0..MaxRefreshes
<1>1. /\ attrs \in [Asset -> Attr] /\ seen \in [Instant -> [Asset -> Attr]]
      /\ refreshes \in 0..MaxRefreshes /\ MaxRefreshes \in Nat
  BY PredictionsAssumption DEF TypeOK, PredictionsAssumption
<1>2. ASSUME NEW a \in Asset, Refresh(a)
      PROVE  /\ attrs' \in [Asset -> Attr] /\ seen' = seen
             /\ refreshes' \in 0..MaxRefreshes
  BY <1>1, <1>2 DEF Refresh
<1>3. CASE MaybeRecord
  BY <1>1, <1>3 DEF MaybeRecord
<1>4. CASE UNCHANGED <<attrs, seen, refreshes>>
  BY <1>1, <1>4
<1> QED
  BY <1>1, <1>2, <1>3, <1>4
     DEF Next, vars, OpenRun, StartPrices, BeginBatch, CommitBatch, LoseBatch, Rank,
         InsertClaim, MarkStep, CloseRun, StatementFails, Crash, Replay

\* The runs of a typed state.
LEMMA RunsTyped ==
  ASSUME TypeOK
  PROVE  /\ runs \in Seq(RunRow) /\ Current \in Nat /\ Current = Len(runs)
         /\ DOMAIN runs = 1..Current
         /\ pc # "idle" => Current > 0 /\ Current \in DOMAIN runs /\ MadeAt \in Instant
         /\ \A r \in DOMAIN runs : runs[r] \in RunRow
<1>1. runs \in Seq(RunRow) /\ (pc # "idle" => Len(runs) > 0)
  BY DEF TypeOK, RunRow, Current
<1>2. DOMAIN runs = 1..Len(runs) /\ Len(runs) \in Nat /\ runs \in [1..Len(runs) -> RunRow]
  BY <1>1, LenProperties
<1> QED BY <1>1, <1>2 DEF Current, MadeAt, RunRow

\* Every step keeps the types.
LEMMA TypeStep ==
  ASSUME TypeOK, [Next]_vars
  PROVE  TypeOK'
<1> USE PredictionsAssumption DEF PredictionsAssumption
<1>r. /\ runs \in Seq(RunRow) /\ Current \in Nat /\ Current = Len(runs)
      /\ DOMAIN runs = 1..Current
      /\ pc # "idle" => Current > 0 /\ Current \in DOMAIN runs /\ MadeAt \in Instant
      /\ \A r \in DOMAIN runs : runs[r] \in RunRow
  BY RunsTyped
<1>t. now \in 1..(MaxTime + 1) /\ (Takes => now \in Instant /\ now' \in 1..(MaxTime + 1))
  BY DEF TypeOK, Takes, Instant
<1>a. /\ attrs' \in [Asset -> Attr] /\ seen' \in [Instant -> [Asset -> Attr]]
      /\ refreshes' \in 0..MaxRefreshes
  BY AttrsTyped
<1>1. CASE OpenRun
  <2> DEFINE new == [started |-> now, status |-> "running", marked |-> FALSE]
  <2>1. new \in RunRow
    BY <1>1, <1>t DEF OpenRun, RunRow, Status
  <2>2. runs' \in Seq(RunRow) /\ Len(runs') = Current + 1 /\ DOMAIN runs \subseteq DOMAIN runs'
    BY <1>1, <1>r, <2>1, RunOpens DEF OpenRun
  <2>3. Row \subseteq Row'
    BY <2>2 DEF Row
  <2> QED BY <1>1, <1>a, <1>t, <1>r, <2>2, <2>3 DEF OpenRun, TypeOK, RunRow, Pc, Current, Poll, ClaimTyped, Instant
<1>2. ASSUME NEW a \in Asset, BeginBatch(a)
      PROVE  TypeOK'
  <2>1. PICK at \in {1, now}, quote \in Quotes :
          LET stated == {[pair |-> <<a, m>>, at |-> at, price |-> quote[m],
                          run |-> Current, ingested |-> now] :
                           m \in {m \in Market : quote[m] # 0}}
              new == Inserted(stated, rows)
              outcome(m) == IF quote[m] = 0 THEN "rejected"
                            ELSE IF \E row \in new : row.pair = <<a, m>>
                            THEN "written" ELSE "unchanged" IN
          tx' = [began |-> now, new |-> new,
                 polled |-> {[pair |-> <<a, m>>, at |-> now, outcome |-> outcome(m)] :
                               m \in Market}]
    BY <1>2 DEF BeginBatch
  <2>2. now \in Instant /\ at \in Instant /\ Current \in DOMAIN runs
    BY <1>2, <1>r, <1>t DEF BeginBatch, Instant
  <2>3. tx'.new \subseteq Row
    <3> DEFINE stated == {[pair |-> <<a, m>>, at |-> at, price |-> quote[m],
                           run |-> Current, ingested |-> now] :
                             m \in {m \in Market : quote[m] # 0}}
    <3>1. \A m \in Market : quote[m] # 0 =>
            [pair |-> <<a, m>>, at |-> at, price |-> quote[m],
             run |-> Current, ingested |-> now] \in Row
      BY ONLY <2>2, StatedIsRow, PredictionsAssumption, a \in Asset, quote \in Quotes
    <3>3. stated \subseteq Row
      BY ONLY <3>1
    <3>2. tx'.new = Inserted(stated, rows)
      BY <2>1
    <3> QED BY <3>3, <3>2 DEF Inserted
  <2>4. tx'.polled \subseteq Poll
    BY <2>1, <2>2 DEF Poll, Pair, Outcome
  <2>5. tx'.began = now
    BY <2>1
  <2>6. UNCHANGED <<runs, rows, polls, todo, picks, claims, replays>> /\ pc' = "commit"
    BY <1>2 DEF BeginBatch
  <2>7. Row' = Row /\ Poll' = Poll
    BY <2>6 DEF Row, Poll, Instant
  <2>8. Takes /\ pc = "prices"
    BY <1>2 DEF BeginBatch
  <2>9. now' \in 1..(MaxTime + 1) /\ tx'.began \in 0..MaxTime
    BY <1>t, <2>2, <2>5, <2>8 DEF Instant
  <2> QED BY <1>a, <1>r, <2>3, <2>4, <2>6, <2>7, <2>8, <2>9 DEF TypeOK, Pc, Current
<1>3. CASE CommitBatch
  BY <1>3, <1>a DEF CommitBatch, TypeOK, Pc, Current, Row, Poll, ClaimTyped, Instant, NoBatch
<1>4. CASE LoseBatch
  BY <1>4, <1>a DEF LoseBatch, TypeOK, Pc, Current, Row, Poll, ClaimTyped, Instant, NoBatch
<1>5. CASE MaybeRecord
  BY <1>5, <1>a, <1>t DEF MaybeRecord, TypeOK, Pc, Current, Row, Poll, ClaimTyped, Instant
<1>6. CASE Rank
  <2>1. PICK m \in todo : todo' = todo \ {m} /\ picks' \in Pickings(m, AsOf, attrs)
    BY <1>6 DEF Rank
  <2>2. m \in Market /\ MadeAt \in Instant
    BY <1>6, <1>r DEF Rank, TypeOK
  <2>3. \A c \in picks' : ClaimTyped(c)
    BY <2>1, <2>2, PickingsAreClaims DEF AsOf
  <2> QED BY <1>6, <1>a, <2>1, <2>3 DEF Rank, TypeOK, Pc, Current, Row, Poll, ClaimTyped, Instant
<1>7. CASE InsertClaim
  BY <1>7, <1>a DEF InsertClaim, TypeOK, Pc, Current, Row, Poll, ClaimTyped, Instant
<1>8. ASSUME NEW e \in RunRow, Current > 0, runs' = [runs EXCEPT ![Len(runs)] = e]
      PROVE  /\ runs' \in Seq([started : Instant, status : Status, marked : BOOLEAN])'
             /\ Row' = Row /\ Current' = Current
  <2>1. runs' \in Seq(RunRow) /\ Len(runs') = Len(runs) /\ DOMAIN runs' = DOMAIN runs
    BY <1>8, <1>r, RunEnds
  <2> QED BY <2>1 DEF Row, Current, RunRow, Poll, Instant
<1>9. CASE MarkStep
  <2>1. PICK e \in RunRow : runs' = [runs EXCEPT ![Len(runs)] = e]
    <3>0. pc # "idle"
      BY ONLY <1>9 DEF MarkStep
    <3>1. Len(runs) > 0 /\ runs \in Seq(RunRow)
      BY ONLY <3>0, <1>r
    <3>2. runs' = [runs EXCEPT ![Len(runs)].marked = TRUE]
      BY ONLY <1>9 DEF MarkStep, Current
    <3>3. \E e \in RunRow : [runs EXCEPT ![Len(runs)].marked = TRUE] = [runs EXCEPT ![Len(runs)] = e]
      BY ONLY <3>1, RunMarked, ZenonT(60)
    <3> QED BY ONLY <3>2, <3>3
  <2> QED BY <1>9, <2>1, <1>a, <1>r, <1>8
          DEF MarkStep, TypeOK, Pc, Poll, ClaimTyped, Instant
<1>10. CASE CloseRun
  <2>1. PICK e \in RunRow : runs' = [runs EXCEPT ![Len(runs)] = e]
    <3>0. pc # "idle"
      BY ONLY <1>10 DEF CloseRun
    <3>1. Len(runs) > 0 /\ runs \in Seq(RunRow)
      BY ONLY <3>0, <1>r
    <3>2. runs' = [runs EXCEPT ![Len(runs)].status = "closed"]
      BY ONLY <1>10 DEF CloseRun, Current
    <3>3. \E e \in RunRow : [runs EXCEPT ![Len(runs)].status = "closed"] = [runs EXCEPT ![Len(runs)] = e]
      BY ONLY <3>1, RunMarked, ZenonT(60)
    <3> QED BY ONLY <3>2, <3>3
  <2> QED BY <1>10, <2>1, <1>a, <1>r, <1>8
          DEF CloseRun, TypeOK, Pc, Poll, ClaimTyped, Instant
<1>11. CASE StatementFails
  <2>1. PICK b \in BOOLEAN :
          runs' = [runs EXCEPT ![Len(runs)] = [@ EXCEPT !.status = "failed", !.marked = b]]
    BY <1>11 DEF StatementFails, Current
  <2>a. Len(runs) > 0 /\ Current > 0 /\ runs \in Seq(RunRow)
    BY <1>11, <1>r DEF StatementFails
  <2>b. \A c \in BOOLEAN : \E e \in RunRow :
          [runs EXCEPT ![Len(runs)] = [@ EXCEPT !.status = "failed", !.marked = c]]
          = [runs EXCEPT ![Len(runs)] = e]
    <3> TAKE c \in BOOLEAN
    <3>1. \E e \in RunRow :
            /\ e.started = runs[Len(runs)].started /\ e.marked = c /\ e.status = "failed"
            /\ [runs EXCEPT ![Len(runs)] = [@ EXCEPT !.status = "failed", !.marked = c]]
               = [runs EXCEPT ![Len(runs)] = e]
      BY ONLY <2>a, c \in BOOLEAN, RunMarked, ZenonT(60)
    <3> QED BY <3>1
  <2>2. PICK e \in RunRow : runs' = [runs EXCEPT ![Len(runs)] = e]
    BY <2>1, <2>b
  <2>3. Row' = Row /\ Current' = Current
        /\ runs' \in Seq([started : Instant, status : Status, marked : BOOLEAN])'
    BY <1>8, <2>a, <2>2
  <2>4. Poll' = Poll
    BY DEF Poll, Instant
  <2>5. /\ pc' = "idle" /\ tx' = NoBatch /\ todo' = {} /\ picks' = {}
        /\ UNCHANGED <<now, rows, polls, claims, replays>>
    BY ONLY <1>11 DEF StatementFails, Leave
  <2> QED BY <1>a, <2>3, <2>4, <2>5 DEF TypeOK, Pc, NoBatch
<1>12. CASE Crash
  BY <1>12, <1>a DEF Crash, Leave, TypeOK, Pc, Current, Row, Poll, ClaimTyped, Instant, NoBatch
<1>13. ASSUME NEW r \in DOMAIN runs, Replay(r)
       PROVE  TypeOK'
  <2>1. PICK read \in Reparses :
          rows' = (rows \ Held(r)) \cup Inserted(Restated(r, read), rows \ Held(r))
    BY <1>13 DEF Replay
  <2>2. rows \subseteq Row /\ now \in Instant
    BY <1>13, <1>t DEF Replay, TypeOK
  <2>3. Restated(r, read) \subseteq Row
    BY <2>2, RestatedIsRow
  <2>4. rows' \subseteq Row
    BY <2>1, <2>2, <2>3 DEF Inserted
  <2> QED BY <1>13, <1>a, <1>t, <2>2, <2>4
          DEF Replay, TypeOK, Pc, Current, Row, Poll, ClaimTyped, Instant
<1>15. CASE StartPrices \/ \E a \in Asset : Refresh(a)
  BY <1>15, <1>a DEF StartPrices, Refresh, TypeOK, Pc, Current, Row, Poll, ClaimTyped, Instant
<1>14. CASE UNCHANGED vars
  BY <1>14, <1>a DEF vars, TypeOK, Pc, Current, Row, Poll, ClaimTyped, Instant
<1> QED BY <1>1, <1>2, <1>3, <1>4, <1>5, <1>6, <1>7, <1>9, <1>10, <1>11, <1>12, <1>13, <1>14, <1>15
        DEF Next

\* OpenRun files a run of its own instant behind the others.
LEMMA OpenedRun ==
  ASSUME TypeOK, OpenRun
  PROVE  /\ DOMAIN runs' = 1..(Current + 1) /\ Current' = Current + 1
         /\ DOMAIN runs = 1..Current /\ Current \in Nat
         /\ \A r \in DOMAIN runs : runs'[r] = runs[r]
         /\ runs'[Current + 1] = [started |-> now, status |-> "running", marked |-> FALSE]
<1> DEFINE new == [started |-> now, status |-> "running", marked |-> FALSE]
<1>1. new \in RunRow
  BY PredictionsAssumption
     DEF PredictionsAssumption, OpenRun, Takes, TypeOK, RunRow, Status, Instant
<1>2. runs \in Seq(RunRow) /\ runs' = Append(runs, new)
  BY RunsTyped DEF OpenRun
<1> HIDE DEF new
<1>3. /\ Len(runs') = Len(runs) + 1 /\ Len(runs) \in Nat
      /\ DOMAIN runs = 1..Len(runs) /\ DOMAIN runs' = 1..(Len(runs) + 1)
      /\ runs'[Len(runs) + 1] = new
      /\ \A r \in 1..Len(runs) : runs'[r] = runs[r]
  BY <1>1, <1>2, RunOpens
<1> QED BY <1>3 DEF Current, new

\* The run in hand is the only one whose row changes afterwards, and its start
\* stands.
LEMMA EndedRunRow ==
  ASSUME TypeOK, MarkStep \/ CloseRun \/ StatementFails
  PROVE  /\ DOMAIN runs' = DOMAIN runs /\ Current' = Current /\ Current \in DOMAIN runs
         /\ \A r \in DOMAIN runs : r # Current => runs'[r] = runs[r]
         /\ runs'[Current].started = MadeAt
         /\ MarkStep => runs'[Current].marked = TRUE
         /\ CloseRun => runs'[Current].marked = runs[Current].marked
         /\ StatementFails =>
              /\ runs'[Current].status = "failed"
              /\ runs'[Current].marked => pc = "rank" /\ MarketsDone
<1> DEFINE n == Len(runs)
<1>1. runs \in Seq(RunRow) /\ n > 0 /\ Current = n /\ n \in DOMAIN runs /\ DOMAIN runs = 1..n
  BY RunsTyped DEF MarkStep, CloseRun, StatementFails
<1>2. ASSUME NEW e \in RunRow, runs' = [runs EXCEPT ![n] = e]
      PROVE  /\ DOMAIN runs' = DOMAIN runs /\ Current' = Current
             /\ \A r \in DOMAIN runs : r # Current => runs'[r] = runs[r]
             /\ runs'[Current] = e
  BY <1>1, <1>2, RunEnds DEF Current
<1>3. CASE MarkStep
  <2>1. PICK e \in RunRow : /\ runs' = [runs EXCEPT ![n] = e]
                            /\ e.started = runs[n].started /\ e.marked = TRUE
    BY <1>1, <1>3, RunMarked DEF MarkStep, Current
  <2> QED BY <1>1, <1>2, <1>3, <2>1 DEF MarkStep, CloseRun, StatementFails, MadeAt, Leave
<1>4. CASE CloseRun
  <2>1. PICK e \in RunRow : /\ runs' = [runs EXCEPT ![n] = e]
                            /\ e.started = runs[n].started /\ e.marked = runs[n].marked
    BY <1>1, <1>4, RunMarked DEF CloseRun, Current
  <2> QED BY <1>1, <1>2, <1>4, <2>1 DEF MarkStep, CloseRun, StatementFails, MadeAt, Leave
<1>5. CASE StatementFails
  <2>1. PICK b \in {FALSE, pc = "rank" /\ MarketsDone} :
          runs' = [runs EXCEPT ![n] = [@ EXCEPT !.status = "failed", !.marked = b]]
    BY <1>5 DEF StatementFails, Current
  <2>2. PICK e \in RunRow :
          /\ e.started = runs[n].started /\ e.marked = b /\ e.status = "failed"
          /\ runs' = [runs EXCEPT ![n] = e]
    <3> b \in BOOLEAN
      OBVIOUS
    <3>1. \E e \in RunRow :
            /\ e.started = runs[n].started /\ e.marked = b /\ e.status = "failed"
            /\ [runs EXCEPT ![n] = [@ EXCEPT !.status = "failed", !.marked = b]]
               = [runs EXCEPT ![n] = e]
      BY <1>1, RunMarked, Zenon
    <3> QED BY <2>1, <3>1
  <2> QED BY <1>1, <1>2, <1>5, <2>1, <2>2 DEF MarkStep, CloseRun, StatementFails, MadeAt, Leave
<1> QED BY <1>3, <1>4, <1>5

-----------------------------------------------------------------------------
(* Clocks: what is stamped, is stamped with an instant that has passed.     *)

StartInv ==
  /\ \A r \in DOMAIN runs : runs[r].started < now
  /\ \A r, s \in DOMAIN runs : r < s => runs[r].started < runs[s].started

MadeInv == \A c \in claims : c.made < now

PastInv == \A t \in replays : t < now

\* A batch in flight is stamped with its transaction's start.
TxInv ==
  IF pc = "commit"
  THEN /\ MadeAt < tx.began
       /\ \A row \in tx.new : row.ingested = tx.began
       /\ \A poll \in tx.polled : poll.at = tx.began
  ELSE tx = NoBatch

\* The picks in hand are of one market that is no longer to do, made at the
\* start of the run.
PickInv ==
  /\ pc # "insert" => picks = {}
  /\ \A c \in picks : c.made = MadeAt

ClockInv == TypeOK /\ StartInv /\ MadeInv /\ PastInv /\ TxInv /\ PickInv

LEMMA ClockInit == Init => ClockInv
BY TypeInit DEF Init, ClockInv, StartInv, MadeInv, PastInv, TxInv, PickInv

\* The clock never goes back.
LEMMA ClockRuns ==
  ASSUME TypeOK, [Next]_vars
  PROVE  now \in Nat /\ now' \in Nat /\ now <= now'
<1>1. now' = now \/ now' = now + 1
  BY DEF Next, vars, OpenRun, Refresh, StartPrices, BeginBatch, CommitBatch, LoseBatch, MaybeRecord, Rank,
         InsertClaim, MarkStep, CloseRun, StatementFails, Crash, Replay, Takes
<1>2. now \in Nat
  BY PredictionsAssumption DEF PredictionsAssumption, TypeOK
<1> QED BY <1>1, <1>2

LEMMA StartStep ==
  ASSUME TypeOK, StartInv, [Next]_vars
  PROVE  StartInv'
<1>1. now \in Nat /\ now' \in Nat /\ now <= now'
  BY ClockRuns
<1>2. \A r \in DOMAIN runs : runs[r].started \in Nat
  BY RunsTyped, PredictionsAssumption DEF RunRow, Instant, PredictionsAssumption
<1>3. CASE OpenRun
  <2>1. now' = now + 1
    BY <1>3 DEF OpenRun, Takes
  <2>2. /\ DOMAIN runs' = 1..(Current + 1) /\ DOMAIN runs = 1..Current /\ Current \in Nat
        /\ \A r \in DOMAIN runs : runs'[r] = runs[r]
        /\ runs'[Current + 1].started = now
    BY <1>3, OpenedRun
  <2>3. \A r \in 1..(Current + 1) : r \in DOMAIN runs \/ r = Current + 1
    BY <2>2
  <2> QED BY <1>1, <1>2, <2>1, <2>2, <2>3 DEF StartInv
<1>4. CASE MarkStep \/ CloseRun \/ StatementFails
  <2>1. DOMAIN runs' = DOMAIN runs /\ \A r \in DOMAIN runs : runs'[r].started = runs[r].started
    BY <1>4, EndedRunRow DEF MadeAt
  <2> QED BY <1>1, <1>2, <2>1 DEF StartInv
<1>5. CASE UNCHANGED runs
  BY <1>1, <1>2, <1>5 DEF StartInv
<1> QED
  BY <1>3, <1>4, <1>5
     DEF Next, vars, OpenRun, Refresh, StartPrices, BeginBatch, CommitBatch, LoseBatch, MaybeRecord, Rank,
         InsertClaim, MarkStep, CloseRun, StatementFails, Crash, Replay

\* The run in hand keeps its start.
LEMMA MadeAtStands ==
  ASSUME TypeOK, [Next]_vars, ~OpenRun
  PROVE  MadeAt' = MadeAt /\ Current' = Current
<1>1. CASE MarkStep \/ CloseRun \/ StatementFails
  BY <1>1, EndedRunRow DEF MadeAt
<1>2. CASE UNCHANGED runs
  BY <1>2 DEF MadeAt, Current
<1> QED
  BY <1>1, <1>2
     DEF Next, vars, Refresh, StartPrices, BeginBatch, CommitBatch, LoseBatch, MaybeRecord, Rank,
         InsertClaim, MarkStep, CloseRun, StatementFails, Crash, Replay

\* What a batch in flight is stamped with.
LEMMA BatchStamped ==
  ASSUME NEW a \in Asset, BeginBatch(a)
  PROVE  /\ tx'.began = now
         /\ \A row \in tx'.new : row.ingested = now
         /\ \A poll \in tx'.polled : poll.at = now
BY DEF BeginBatch, Inserted

LEMMA ClockStep ==
  ASSUME ClockInv, [Next]_vars
  PROVE  ClockInv'
<1> USE DEF ClockInv
<1>1. TypeOK' /\ StartInv'
  BY TypeStep, StartStep
<1>2. now \in Nat /\ now' \in Nat /\ now <= now'
  BY ClockRuns
<1>3. /\ pc # "idle" => MadeAt < now /\ MadeAt \in Nat
      /\ \A c \in claims \cup picks : c.made \in Nat
      /\ \A t \in replays : t \in Nat
  BY RunsTyped, PredictionsAssumption
     DEF StartInv, MadeAt, TypeOK, ClaimTyped, Instant, PredictionsAssumption
<1>4. ~OpenRun => MadeAt' = MadeAt
  BY MadeAtStands
<1>5. MadeInv'
  <2>1. CASE InsertClaim
    BY <1>2, <1>3, <2>1 DEF InsertClaim, MadeInv, PickInv
  <2>2. CASE UNCHANGED claims
    BY <1>2, <1>3, <2>2 DEF MadeInv
  <2> QED
    BY <2>1, <2>2
       DEF Next, vars, OpenRun, Refresh, StartPrices, BeginBatch, CommitBatch, LoseBatch, MaybeRecord, Rank,
           InsertClaim, MarkStep, CloseRun, StatementFails, Crash, Replay
<1>6. PastInv'
  <2>1. ASSUME NEW r \in DOMAIN runs, Replay(r)
        PROVE  PastInv'
    BY <1>2, <1>3, <2>1 DEF Replay, Takes, PastInv
  <2>2. CASE UNCHANGED replays
    BY <1>2, <1>3, <2>2 DEF PastInv
  <2> QED
    BY <2>1, <2>2
       DEF Next, vars, OpenRun, Refresh, StartPrices, BeginBatch, CommitBatch, LoseBatch, MaybeRecord, Rank,
           InsertClaim, MarkStep, CloseRun, StatementFails, Crash, Replay
<1>7. TxInv'
  <2>1. ASSUME NEW a \in Asset, BeginBatch(a)
        PROVE  TxInv'
    <3>1. pc' = "commit" /\ ~OpenRun /\ pc # "idle"
      BY <2>1 DEF BeginBatch, OpenRun
    <3> QED BY <1>3, <1>4, <2>1, <3>1, BatchStamped DEF TxInv
  <2>2. CASE CommitBatch \/ LoseBatch \/ StatementFails \/ Crash
    BY <2>2 DEF CommitBatch, LoseBatch, StatementFails, Crash, Leave, TxInv
  <2>3. CASE /\ tx' = tx /\ pc' # "commit" /\ pc # "commit"
    BY <2>3 DEF TxInv
  <2>4. CASE UNCHANGED vars
    BY <2>4 DEF vars, TxInv, MadeAt, Current
  <2> QED
    BY <2>1, <2>2, <2>3, <2>4
       DEF Next, OpenRun, Refresh, StartPrices, MaybeRecord, Rank, InsertClaim, MarkStep, CloseRun, Replay
<1>8. PickInv'
  <2>1. CASE Rank
    <3>1. PICK m \in todo : picks' \in Pickings(m, MadeAt, attrs)
      BY <2>1 DEF Rank, AsOf
    <3>2. m \in Market /\ MadeAt \in Instant
      BY <2>1, RunsTyped DEF Rank, TypeOK
    <3>3. \A c \in picks' : c.made = MadeAt
      BY <3>1, <3>2, PickingsAreClaims
    <3>4. MadeAt' = MadeAt
      BY <2>1 DEF Rank, MadeAt, Current
    <3> QED BY <2>1, <3>3, <3>4 DEF Rank, PickInv
  <2>2. CASE InsertClaim
    <3>1. MadeAt' = MadeAt
      BY <2>2 DEF InsertClaim, MadeAt, Current
    <3> QED BY <2>2, <3>1 DEF InsertClaim, PickInv
  <2>3. CASE StatementFails \/ Crash
    BY <2>3 DEF StatementFails, Crash, Leave, PickInv
  <2>4. CASE UNCHANGED picks /\ pc # "insert" /\ pc' # "insert"
    BY <2>4 DEF PickInv
  <2>5. CASE UNCHANGED vars
    BY <2>5 DEF vars, PickInv, MadeAt, Current
  <2> QED
    BY <2>1, <2>2, <2>3, <2>4, <2>5
       DEF Next, OpenRun, Refresh, StartPrices, BeginBatch, CommitBatch, LoseBatch, MaybeRecord,
           MarkStep, CloseRun, Replay
<1> QED BY <1>1, <1>5, <1>6, <1>7, <1>8

-----------------------------------------------------------------------------
(* Answers: what settles them.                                              *)

LEMMA SameLedger ==
  ASSUME UNCHANGED <<rows, polls>>
  PROVE  \A p, t : Answer(p, t)' = Answer(p, t)
BY DEF Answer, Trusted, Latest, Known, Live

\* A batch that is stamped after t changes no answer about t.
LEMMA LaterBatch ==
  ASSUME ClockInv, CommitBatch, NEW t \in Nat, t < tx.began
  PROVE  \A p : Answer(p, t)' = Answer(p, t)
<1> TAKE p
<1>1. /\ rows' = rows \cup tx.new /\ polls' = polls \cup tx.polled
      /\ \A row \in tx.new : row.ingested = tx.began
      /\ \A poll \in tx.polled : poll.at = tx.began
      /\ tx.began \in Nat
  BY PredictionsAssumption
     DEF CommitBatch, ClockInv, TxInv, TypeOK, PredictionsAssumption
<1>2. Known(p, t)' = Known(p, t)
  BY <1>1 DEF Known
<1>3. Latest(p, t)' = Latest(p, t)
  BY <1>2 DEF Latest
<1>4. Live(p, t)' = Live(p, t)
  <2> DEFINE asked == {poll \in polls : /\ poll.pair = p
                                        /\ poll.at <= t /\ poll.at > t - MaxAge}
             later == {poll \in polls' : /\ poll.pair = p
                                         /\ poll.at <= t /\ poll.at > t - MaxAge}
  <2>1. asked = later
    BY <1>1
  <2>2. Live(p, t) = {poll \in asked : \A other \in asked : other.at <= poll.at}
    BY DEF Live
  <2>3. Live(p, t)' = {poll \in later : \A other \in later : other.at <= poll.at}
    BY DEF Live
  <2> QED BY <2>1, <2>2, <2>3
<1> QED BY <1>3, <1>4 DEF Answer, Trusted

\* Where the answers about t stand, so do the readings and the picks.
LEMMA SameReadings ==
  ASSUME NEW t, \A p : Answer(p, t)' = Answer(p, t), NEW m
  PROVE  /\ Readings(m, t)' = Readings(m, t)
         /\ \A of : Pickings(m, t, of)' = Pickings(m, t, of)
<1>1. Readable(m, t)' = Readable(m, t)
  BY DEF Readable
<1>2. Readings(m, t)' = Readings(m, t)
  BY <1>1 DEF Readings
<1>3. ASSUME NEW of
      PROVE  Pickings(m, t, of)' = Pickings(m, t, of)
  BY <1>2 DEF Pickings
<1> QED BY <1>2, <1>3

\* The claims that are due at t.
Due(t) == {c \in claims : c.made + Horizon <= t}

\* Where every answer about t and before stands, and no claim comes due, so do
\* the scores.
LEMMA SameScores ==
  ASSUME TypeOK, NEW t \in Nat, Due(t)' = Due(t), NEW of,
         \A u \in Nat : u <= t => \A p : Answer(p, u)' = Answer(p, u)
  PROVE  Scores(t, of)' = Scores(t, of)
<1> DEFINE Scored == {c \in Due(t) : Answer(<<c.asset, c.market>>, t) # {}}
<1>1. Scored' = Scored
  OBVIOUS
<1>2. ASSUME NEW c \in Scored
      PROVE  /\ Answer(<<c.asset, c.market>>, t)' = Answer(<<c.asset, c.market>>, t)
             /\ CohortAt(c, c.made, of)' = CohortAt(c, c.made, of)
             /\ CohortAt(c, t, of)' = CohortAt(c, t, of)
  <2>1. c.made \in Nat /\ c.made <= t
    BY PredictionsAssumption
       DEF Due, TypeOK, ClaimTyped, Instant, PredictionsAssumption
  <2>2. /\ Readings(c.market, c.made)' = Readings(c.market, c.made)
        /\ Readings(c.market, t)' = Readings(c.market, t)
    BY <2>1, SameReadings
  <2> QED BY <2>1, <2>2 DEF CohortAt
<1>3. Scores(t, of) = {[claim |-> c, price_now |-> Answer(<<c.asset, c.market>>, t),
                        from |-> CohortAt(c, c.made, of), to |-> CohortAt(c, t, of)] :
                         c \in Scored}
  BY DEF Scores, Due
<1>4. Scores(t, of)' = {[claim |-> c, price_now |-> Answer(<<c.asset, c.market>>, t)',
                         from |-> CohortAt(c, c.made, of)', to |-> CohortAt(c, t, of)'] :
                          c \in Scored'}
  BY DEF Scores, Due
<1> HIDE DEF Scored
<1> QED BY <1>1, <1>2, <1>3, <1>4

\* What a step may do to a settled answer.
SettledStep ==
  replays' = replays /\ <<rows, polls, claims>>' # <<rows, polls, claims>> =>
    \A t \in 1..MaxTime : Settled(t) =>
      /\ \A p \in Pair : Answer(p, t)' = Answer(p, t)
      /\ \A of \in [Asset -> Attr] : Scores(t, of)' = Scores(t, of)

LEMMA SettledStands ==
  ASSUME ClockInv, [Next]_vars
  PROVE  SettledStep
<1> SUFFICES ASSUME replays' = replays, NEW t \in 1..MaxTime, Settled(t)
             PROVE  /\ \A p \in Pair : Answer(p, t)' = Answer(p, t)
                    /\ \A of \in [Asset -> Attr] : Scores(t, of)' = Scores(t, of)
  BY DEF SettledStep
<1>1. t \in Nat /\ TypeOK
  BY PredictionsAssumption DEF PredictionsAssumption, ClockInv
<1>2. ASSUME \A u \in Nat : u <= t => \A p : Answer(p, u)' = Answer(p, u),
             Due(t)' = Due(t)
      PROVE  /\ \A p \in Pair : Answer(p, t)' = Answer(p, t)
             /\ \A of \in [Asset -> Attr] : Scores(t, of)' = Scores(t, of)
  BY <1>1, <1>2, SameScores
<1>3. CASE CommitBatch
  <2>1. t < tx.began /\ tx.began \in Nat
    BY <1>3, PredictionsAssumption
       DEF CommitBatch, Settled, TypeOK, ClockInv, PredictionsAssumption
  <2>2. \A u \in Nat : u <= t => \A p : Answer(p, u)' = Answer(p, u)
    BY <1>1, <1>3, <2>1, LaterBatch
  <2>3. Due(t)' = Due(t)
    BY <1>3 DEF CommitBatch, Due
  <2> QED BY <1>2, <2>2, <2>3
<1>4. CASE InsertClaim
  <2>1. PICK c \in picks : claims' = claims \cup {c}
    BY <1>4 DEF InsertClaim
  <2>2. c.made = MadeAt /\ t < MadeAt + Horizon
    BY <1>4 DEF InsertClaim, ClockInv, PickInv, Settled
  <2>3. Horizon \in Nat /\ MadeAt \in Nat
    BY <1>1, <1>4, RunsTyped, PredictionsAssumption
       DEF InsertClaim, PredictionsAssumption, Instant
  <2>4. Due(t)' = Due(t)
    BY <1>1, <2>1, <2>2, <2>3 DEF Due
  <2>5. UNCHANGED <<rows, polls>>
    BY <1>4 DEF InsertClaim
  <2> QED BY <1>2, <2>4, <2>5, SameLedger
<1>5. ASSUME NEW r \in DOMAIN runs, Replay(r)
      PROVE  FALSE
  <2>1. now \in replays
    BY <1>5 DEF Replay
  <2>2. now < now /\ now \in Nat
    BY <1>1, <2>1, ClockRuns DEF ClockInv, PastInv
  <2> QED BY <2>2
<1>6. CASE UNCHANGED <<rows, polls, claims>>
  <2>1. Due(t)' = Due(t)
    BY <1>6 DEF Due
  <2> QED BY <1>2, <1>6, <2>1, SameLedger
<1> QED
  BY <1>3, <1>4, <1>5, <1>6
     DEF Next, vars, OpenRun, Refresh, StartPrices, BeginBatch, LoseBatch, MaybeRecord, Rank,
         MarkStep, CloseRun, StatementFails, Crash

-----------------------------------------------------------------------------
(* The cadence.                                                             *)

\* While a run claims, a whole cadence has passed since every run that is done.
PaceInv ==
  pc \in {"rank", "insert"} => \A r \in DoneRuns : now - runs[r].started > Cadence

LEMMA PaceStep ==
  ASSUME ClockInv, PaceInv, [Next]_vars
  PROVE  PaceInv'
<1>1. now \in Nat /\ Cadence \in Nat /\ \A r \in DOMAIN runs : runs[r].started \in Nat
  BY ClockRuns, RunsTyped, PredictionsAssumption
     DEF ClockInv, RunRow, Instant, PredictionsAssumption
<1>2. CASE MaybeRecord
  BY <1>1, <1>2 DEF MaybeRecord, Takes, IsDue, DoneRuns, PaceInv
<1>3. CASE UNCHANGED <<now, runs>> /\ (pc' \in {"rank", "insert"} => pc \in {"rank", "insert"})
  BY <1>3 DEF PaceInv, DoneRuns
<1>4. CASE pc' \notin {"rank", "insert"}
  BY <1>4 DEF PaceInv
<1> QED
  BY <1>2, <1>3, <1>4
     DEF Next, vars, OpenRun, Refresh, StartPrices, BeginBatch, CommitBatch, LoseBatch, Rank, InsertClaim,
         MarkStep, CloseRun, StatementFails, Crash, Replay, Leave

\* A row of the runs keeps its start, and every row but the last all it has.
LEMMA RowsStand ==
  ASSUME TypeOK, [Next]_vars
  PROVE  /\ Current \in Nat /\ DOMAIN runs = 1..Current
         /\ \A r \in DOMAIN runs : r \in DOMAIN runs' /\ runs'[r].started = runs[r].started
         /\ \A r \in DOMAIN runs : r # Current => runs'[r] = runs[r]
         /\ OpenRun => /\ DOMAIN runs' = 1..(Current + 1)
                       /\ runs'[Current + 1].started = now /\ ~runs'[Current + 1].marked
         /\ ~OpenRun => DOMAIN runs' = DOMAIN runs
<1>1. Current \in Nat /\ DOMAIN runs = 1..Current
  BY RunsTyped
<1>2. CASE OpenRun
  BY <1>1, <1>2, OpenedRun
<1>3. CASE MarkStep \/ CloseRun \/ StatementFails
  BY <1>1, <1>3, EndedRunRow
     DEF MadeAt, OpenRun, MarkStep, CloseRun, StatementFails
<1>4. CASE UNCHANGED runs
  <2>1. ~OpenRun
    BY <1>1, <1>4, OpenedRun
  <2> QED BY <1>1, <1>4, <2>1
<1> QED
  BY <1>2, <1>3, <1>4
     DEF Next, vars, Refresh, StartPrices, BeginBatch, CommitBatch, LoseBatch, MaybeRecord, Rank,
         InsertClaim, Crash, Replay

\* The claims of a run that was there are the same after a step that makes
\* none.
LEMMA ClaimsStand ==
  ASSUME TypeOK, [Next]_vars, ~InsertClaim
  PROVE  \A r \in DOMAIN runs : \A m : ClaimsOf(r, m)' = ClaimsOf(r, m)
<1>1. UNCHANGED claims
  BY DEF Next, vars, OpenRun, Refresh, StartPrices, BeginBatch, CommitBatch, LoseBatch, MaybeRecord, Rank,
         MarkStep, CloseRun, StatementFails, Crash, Replay
<1>2. \A r \in DOMAIN runs : runs'[r].started = runs[r].started
  BY RowsStand
<1> QED BY <1>1, <1>2 DEF ClaimsOf

\* A claim that is made is of the run in hand and of one market.
LEMMA ClaimMade ==
  ASSUME ClockInv, InsertClaim
  PROVE  \E c \in picks :
           /\ picks' = picks \ {c} /\ c.made = MadeAt
           /\ \A m : ClaimsOf(Current, m)' =
                       IF m = c.market THEN ClaimsOf(Current, m) \cup {c}
                                       ELSE ClaimsOf(Current, m)
           /\ \A r \in DOMAIN runs : r # Current => \A m : ClaimsOf(r, m)' = ClaimsOf(r, m)
<1>1. PICK c \in picks : claims' = claims \cup {c} /\ picks' = picks \ {c}
  BY DEF InsertClaim
<1>2. c.made = MadeAt /\ runs' = runs
  BY DEF InsertClaim, ClockInv, PickInv
<1>3. \A r \in DOMAIN runs : r # Current => runs[r].started # MadeAt
  <2>1. /\ Current \in Nat /\ DOMAIN runs = 1..Current /\ Current \in DOMAIN runs
        /\ \A r \in DOMAIN runs : runs[r].started \in Nat
    BY RunsTyped, PredictionsAssumption
       DEF ClockInv, RunRow, Instant, InsertClaim, PredictionsAssumption
  <2>2. \A r \in DOMAIN runs : r # Current => runs[r].started < MadeAt
    BY <2>1 DEF ClockInv, StartInv, MadeAt
  <2> QED BY <2>1, <2>2 DEF MadeAt
<1>4. Current' = Current /\ \A r : runs'[r] = runs[r]
  BY <1>2 DEF Current
<1>5. \A m : ClaimsOf(Current, m)' =
               IF m = c.market THEN ClaimsOf(Current, m) \cup {c} ELSE ClaimsOf(Current, m)
  BY <1>1, <1>2, <1>4 DEF ClaimsOf, MadeAt
<1>6. \A r \in DOMAIN runs : r # Current => \A m : ClaimsOf(r, m)' = ClaimsOf(r, m)
  BY <1>1, <1>2, <1>3, <1>4 DEF ClaimsOf
<1> QED BY <1>1, <1>2, <1>5, <1>6

LEMMA OpinionStep ==
  ASSUME ClockInv, PaceInv, NoSecondOpinion, [Next]_vars
  PROVE  NoSecondOpinion'
<1>1. /\ TypeOK /\ now \in Nat /\ now' \in Nat /\ now <= now' /\ Cadence \in Nat
      /\ \A r \in DOMAIN runs : runs[r].started \in Nat
  BY ClockRuns, RunsTyped, PredictionsAssumption
     DEF ClockInv, RunRow, Instant, PredictionsAssumption
<1>2. /\ Current \in Nat /\ DOMAIN runs = 1..Current
      /\ \A r \in DOMAIN runs : r \in DOMAIN runs' /\ runs'[r].started = runs[r].started
      /\ \A r \in DOMAIN runs : r # Current => runs'[r] = runs[r]
      /\ OpenRun => /\ DOMAIN runs' = 1..(Current + 1)
                    /\ runs'[Current + 1].started = now
      /\ ~OpenRun => DOMAIN runs' = DOMAIN runs
  BY <1>1, RowsStand
<1> SUFFICES ASSUME NEW r \in DOMAIN runs', NEW s \in DOMAIN runs', r < s,
                    runs'[r].marked, runs'[r].status # "failed",
                    NEW m \in Market, ClaimsOf(s, m)' # {}
             PROVE  Followed(s)' - runs'[r].started > Cadence
  BY DEF NoSecondOpinion
<1>3. s \in DOMAIN runs
  <2> SUFFICES ASSUME OpenRun, s = Current + 1
               PROVE  FALSE
    BY <1>2
  <2>1. ClaimsOf(s, m)' = {c \in claims : c.made = now /\ c.market = m}
    BY <1>2 DEF ClaimsOf, OpenRun
  <2>2. \A c \in claims : c.made < now /\ c.made \in Nat
    BY PredictionsAssumption
       DEF ClockInv, MadeInv, TypeOK, ClaimTyped, Instant, PredictionsAssumption
  <2> QED BY <1>1, <2>1, <2>2
<1>4. r \in DOMAIN runs /\ r # Current /\ runs'[r] = runs[r] /\ s \in 1..Current /\ s \in Nat
  BY <1>2, <1>3
<1>5. Followed(s)' >= Followed(s) /\ Followed(s)' \in Nat /\ Followed(s) \in Nat
  <2>1. CASE s + 1 \in DOMAIN runs
    <3>1. s + 1 \in DOMAIN runs' /\ runs'[s + 1].started = runs[s + 1].started
      BY <1>2, <2>1
    <3>2. Followed(s) = runs[s + 1].started /\ Followed(s)' = runs'[s + 1].started
      BY <2>1, <3>1 DEF Followed
    <3>3. runs[s + 1].started \in Nat
      BY <1>1, <2>1
    <3> QED BY <3>1, <3>2, <3>3
  <2>2. CASE s + 1 \notin DOMAIN runs /\ OpenRun
    <3>1. s = Current
      BY <1>2, <1>4, <2>2
    <3>2. s + 1 \in DOMAIN runs' /\ runs'[s + 1].started = now
      BY <1>2, <2>2, <3>1
    <3>3. Followed(s) = now /\ Followed(s)' = now
      BY <2>2, <3>2 DEF Followed
    <3> QED BY <1>1, <3>3
  <2>3. CASE s + 1 \notin DOMAIN runs /\ ~OpenRun
    <3>1. Followed(s) = now /\ Followed(s)' = now'
      BY <1>2, <2>3 DEF Followed
    <3> QED BY <1>1, <3>1
  <2> QED BY <2>1, <2>2, <2>3
<1>6. CASE ClaimsOf(s, m) # {}
  <2>1. Followed(s) - runs[r].started > Cadence
    BY <1>3, <1>4, <1>6 DEF NoSecondOpinion
  <2> QED BY <1>1, <1>4, <1>5, <2>1
<1>7. CASE ClaimsOf(s, m) = {}
  <2>1. InsertClaim
    BY <1>1, <1>3, <1>7, ClaimsStand
  <2>2. s = Current
    BY <1>3, <1>7, <2>1, ClaimMade
  <2>3. r \in DoneRuns /\ pc = "insert"
    BY <1>4, <2>1 DEF DoneRuns, InsertClaim
  <2>4. now - runs[r].started > Cadence
    BY <2>3 DEF PaceInv
  <2>5. Followed(s)' = now
    <3>1. s + 1 \notin DOMAIN runs'
      BY <1>2, <2>1, <2>2 DEF InsertClaim, OpenRun
    <3> QED BY <2>1, <3>1 DEF Followed, InsertClaim
  <2> QED BY <1>4, <2>4, <2>5
<1> QED BY <1>6, <1>7


-----------------------------------------------------------------------------
(* The claims of the run in hand.                                           *)

\* What the ranking of a market gives the run in hand.
Given(m) == Pickings(m, MadeAt, attrs)

\* A market is done when the claims are what its ranking gives.
Ranked(m) == ClaimsOf(Current, m) \in Given(m)

\* What the run in hand has claimed at each stage: nothing before it ranks; a
\* market that is no longer to do is done, but for the one whose picks are
\* being inserted.  The attributes it ranks by are those it saw first.
HandInv ==
  /\ pc \in {"steps", "prices", "commit", "rank", "insert"} => ~runs[Current].marked
  /\ pc \in {"rank", "insert"} => seen[MadeAt] = attrs
  /\ pc \in {"steps", "prices", "commit"} => \A m \in Market : ClaimsOf(Current, m) = {}
  /\ pc \in {"rank", "insert"} => \A m \in todo : ClaimsOf(Current, m) = {}
  /\ pc = "rank" => \A m \in Market \ todo : Ranked(m)
  /\ pc = "insert" =>
       \E hand \in Market \ todo :
         /\ \A c \in picks : c.market = hand
         /\ ClaimsOf(Current, hand) \cup picks \in Given(hand)
         /\ \A m \in Market \ todo : m # hand => Ranked(m)

\* The answers of the past stand in every step but a replay.
LEMMA PickingsStand ==
  ASSUME ClockInv, [Next]_vars, UNCHANGED replays,
         NEW t \in Nat, pc = "commit" => t < tx.began
  PROVE  \A m, of : Pickings(m, t, of)' = Pickings(m, t, of)
<1>1. CASE CommitBatch
  BY <1>1, LaterBatch, SameReadings DEF CommitBatch
<1>2. CASE UNCHANGED <<rows, polls>>
  BY <1>2, SameLedger, SameReadings
<1>3. ASSUME NEW r \in DOMAIN runs, Replay(r)
      PROVE  FALSE
  <2>1. now \in replays
    BY <1>3 DEF Replay
  <2>2. now < now /\ now \in Nat
    BY <2>1, ClockRuns DEF ClockInv, PastInv
  <2> QED BY <2>2
<1> QED
  BY <1>1, <1>2, <1>3
     DEF Next, vars, OpenRun, Refresh, StartPrices, BeginBatch, LoseBatch, MaybeRecord, Rank, InsertClaim,
         MarkStep, CloseRun, StatementFails, Crash

LEMMA HandStep ==
  ASSUME ClockInv, HandInv, [Next]_vars
  PROVE  HandInv'
<1>1. TypeOK
  BY DEF ClockInv
<1>2. ASSUME ~OpenRun
      PROVE  /\ MadeAt' = MadeAt /\ Current' = Current
             /\ pc # "idle" => Current \in DOMAIN runs /\ MadeAt \in Nat
             /\ pc # "idle" /\ ~InsertClaim =>
                  \A m : ClaimsOf(Current, m)' = ClaimsOf(Current, m)
  <2>1. MadeAt' = MadeAt /\ Current' = Current
    BY <1>1, <1>2, MadeAtStands
  <2>2. pc # "idle" => Current \in DOMAIN runs /\ MadeAt \in Nat
    BY <1>1, RunsTyped, PredictionsAssumption DEF Instant, PredictionsAssumption
  <2>3. ~InsertClaim => \A r \in DOMAIN runs : \A m : ClaimsOf(r, m)' = ClaimsOf(r, m)
    BY <1>1, ClaimsStand
  <2> QED BY <2>1, <2>2, <2>3 DEF ClaimsOf
<1>3. CASE OpenRun
  <2>1. /\ Current' = Current + 1 /\ ~runs'[Current + 1].marked
        /\ runs'[Current + 1].started = now
    BY <1>1, <1>3, OpenedRun
  <2>2. \A c \in claims : c.made < now /\ c.made \in Nat
    BY PredictionsAssumption
       DEF ClockInv, MadeInv, TypeOK, ClaimTyped, Instant, PredictionsAssumption
  <2>3. \A m : ClaimsOf(Current, m)' = {c \in claims : c.made = now /\ c.market = m}
    BY <1>3, <2>1 DEF OpenRun, ClaimsOf
  <2>4. \A m : ClaimsOf(Current, m)' = {}
    BY <2>2, <2>3, ClockRuns, <1>1
  <2> QED BY <1>3, <2>1, <2>4 DEF OpenRun, HandInv
<1>4. CASE \/ \E a \in Asset : Refresh(a) \/ BeginBatch(a)
           \/ StartPrices \/ CommitBatch \/ LoseBatch
  <2>1. /\ ~OpenRun /\ ~InsertClaim /\ pc \in {"steps", "prices", "commit"}
        /\ pc' \in {"steps", "prices", "commit"} /\ UNCHANGED runs
    BY <1>4 DEF Refresh, StartPrices, BeginBatch, CommitBatch, LoseBatch, OpenRun, InsertClaim
  <2> QED BY <1>2, <2>1 DEF HandInv
<1>5. CASE MaybeRecord
  <2>1. /\ ~OpenRun /\ ~InsertClaim /\ pc = "prices" /\ UNCHANGED runs
        /\ \/ pc' = "close"
           \/ /\ pc' = "rank" /\ todo' = Market
              /\ seen' = [seen EXCEPT ![MadeAt] = attrs] /\ attrs' = attrs
    BY <1>5 DEF MaybeRecord, OpenRun, InsertClaim
  <2>2. MadeAt \in Instant /\ seen \in [Instant -> [Asset -> Attr]]
    BY <1>1, <2>1, RunsTyped DEF TypeOK
  <2>3. pc' = "rank" => seen'[MadeAt'] = attrs'
    BY <1>2, <2>1, <2>2
  <2> QED BY <1>2, <2>1, <2>3 DEF HandInv
<1>6. ASSUME UNCHANGED <<rows, polls, attrs>>, MadeAt' = MadeAt
      PROVE  \A m : Given(m)' = Given(m)
  BY <1>6 DEF Given, Pickings, Readings, Readable, Answer, Trusted, Latest, Known, Live
<1>7. CASE Rank
  <2>1. /\ ~OpenRun /\ ~InsertClaim /\ pc = "rank"
        /\ UNCHANGED <<runs, rows, polls, attrs, seen>>
        /\ pc' = IF picks' = {} THEN "rank" ELSE "insert"
    BY <1>7 DEF Rank, OpenRun, InsertClaim
  <2>2. PICK m \in todo : todo' = todo \ {m} /\ picks' \in Given(m)
    BY <1>7 DEF Rank, AsOf, Given
  <2>3. m \in Market /\ todo \subseteq Market /\ MadeAt \in Instant
    BY <1>1, <2>1, RunsTyped DEF TypeOK
  <2>4. \A c \in picks' : c.market = m
    BY <2>2, <2>3, PickingsAreClaims DEF Given
  <2>5. \A n : /\ ClaimsOf(Current, n)' = ClaimsOf(Current, n)
               /\ Given(n)' = Given(n)
    BY <1>2, <1>6, <2>1
  <2>6. ClaimsOf(Current, m) = {} /\ \A n \in Market \ todo : Ranked(n)
    BY <2>1, <2>2 DEF HandInv
  <2>7. \A n \in Market \ todo : Ranked(n)'
    BY <2>5, <2>6 DEF Ranked
  <2>8. ClaimsOf(Current, m)' \cup picks' \in Given(m)'
    BY <2>2, <2>5, <2>6
  <2>9. \A n \in Market \ todo' : n # m => Ranked(n)'
    BY <2>2, <2>7
  <2>10. picks' = {} => Ranked(m)'
    BY <2>8 DEF Ranked
  <2>11. \A n \in todo' : ClaimsOf(Current, n)' = {}
    BY <2>1, <2>2, <2>5 DEF HandInv
  <2>12. ~runs'[Current'].marked /\ seen'[MadeAt'] = attrs'
    BY <1>2, <2>1 DEF HandInv
  <2>13. CASE picks' = {}
    BY <2>1, <2>9, <2>10, <2>11, <2>12, <2>13 DEF HandInv
  <2>14. CASE picks' # {}
    <3>1. m \in Market \ todo'
      BY <2>2, <2>3
    <3> QED BY <2>1, <2>4, <2>8, <2>9, <2>11, <2>12, <2>14, <3>1 DEF HandInv
  <2> QED BY <2>13, <2>14
<1>8. CASE InsertClaim
  <2>1. /\ ~OpenRun /\ pc = "insert" /\ UNCHANGED <<runs, rows, polls, todo, attrs, seen>>
        /\ pc' = IF picks' = {} THEN "rank" ELSE "insert"
    BY <1>8 DEF InsertClaim, OpenRun
  <2>2. PICK hand \in Market \ todo :
          /\ \A c \in picks : c.market = hand
          /\ ClaimsOf(Current, hand) \cup picks \in Given(hand)
          /\ \A m \in Market \ todo : m # hand => Ranked(m)
    BY <2>1 DEF HandInv
  <2>3. PICK c \in picks :
          /\ picks' = picks \ {c}
          /\ \A m : ClaimsOf(Current, m)' =
                      IF m = c.market THEN ClaimsOf(Current, m) \cup {c}
                                      ELSE ClaimsOf(Current, m)
    BY <1>8, ClaimMade
  <2>4. \A m : Given(m)' = Given(m)
    BY <1>2, <1>6, <2>1
  <2>5. ClaimsOf(Current, hand)' \cup picks' = ClaimsOf(Current, hand) \cup picks
    BY <2>2, <2>3
  <2>6. \A m : m # hand => ClaimsOf(Current, m)' = ClaimsOf(Current, m)
    BY <2>2, <2>3
  <2>7. ClaimsOf(Current, hand)' \cup picks' \in Given(hand)'
    BY <2>2, <2>4, <2>5
  <2>8. \A m \in Market \ todo : m # hand => Ranked(m)'
    BY <2>2, <2>4, <2>6 DEF Ranked
  <2>9. \A m \in todo' : ClaimsOf(Current, m)' = {}
    BY <2>1, <2>2, <2>6 DEF HandInv
  <2>10. ~runs'[Current'].marked /\ seen'[MadeAt'] = attrs'
    BY <1>2, <2>1 DEF HandInv
  <2>11. CASE picks' = {}
    <3>1. Ranked(hand)'
      BY <2>7, <2>11 DEF Ranked
    <3> QED BY <2>1, <2>8, <2>9, <2>10, <2>11, <3>1 DEF HandInv
  <2>12. CASE picks' # {}
    <3>1. \A d \in picks' : d.market = hand
      BY <2>2, <2>3
    <3> QED BY <2>1, <2>2, <2>7, <2>8, <2>9, <2>10, <2>12, <3>1 DEF HandInv
  <2> QED BY <2>11, <2>12
<1>9. CASE pc' \in {"idle", "close"}
  BY <1>9 DEF HandInv
<1>10. CASE UNCHANGED vars
  <2>1. /\ Current' = Current /\ MadeAt' = MadeAt
        /\ UNCHANGED <<runs, pc, todo, picks, claims, rows, polls, attrs, seen>>
    BY <1>10 DEF vars, MadeAt, Current
  <2>2. \A n : ClaimsOf(Current, n)' = ClaimsOf(Current, n)
    BY <2>1 DEF ClaimsOf
  <2>3. \A n : Given(n)' = Given(n)
    BY <1>6, <2>1
  <2>4. \A n : Ranked(n)' <=> Ranked(n)
    BY <2>2, <2>3 DEF Ranked
  <2> QED BY <2>1, <2>2, <2>3, <2>4 DEF HandInv
<1> QED
  BY <1>3, <1>4, <1>5, <1>7, <1>8, <1>9, <1>10
     DEF Next, MarkStep, CloseRun, StatementFails, Crash, Replay, Leave


LEMMA RecomputeStep ==
  ASSUME ClockInv, HandInv, MarkedClaimsRecompute, [Next]_vars
  PROVE  MarkedClaimsRecompute'
<1>1. /\ TypeOK /\ now \in Nat
      /\ \A r \in DOMAIN runs : runs[r].started \in Nat
      /\ pc # "idle" => Current \in DOMAIN runs
  BY RunsTyped, ClockRuns, PredictionsAssumption
     DEF ClockInv, RunRow, Instant, PredictionsAssumption
<1>2. /\ Current \in Nat /\ DOMAIN runs = 1..Current
      /\ \A r \in DOMAIN runs : r \in DOMAIN runs' /\ runs'[r].started = runs[r].started
      /\ \A r \in DOMAIN runs : r # Current => runs'[r] = runs[r]
      /\ OpenRun => /\ DOMAIN runs' = 1..(Current + 1)
                    /\ ~runs'[Current + 1].marked
      /\ ~OpenRun => DOMAIN runs' = DOMAIN runs
  BY <1>1, RowsStand
<1> SUFFICES ASSUME NEW r \in DOMAIN runs', runs'[r].marked,
                    \A t \in replays' : t < runs'[r].started, NEW m \in Market
             PROVE  ClaimsOf(r, m)' \in Pickings(m, runs[r].started, seen[runs[r].started])'
  BY DEF MarkedClaimsRecompute
<1>3. r \in DOMAIN runs /\ r \in 1..Current
  BY <1>2
<1>4. runs[r].started < now /\ runs'[r].started = runs[r].started
  BY <1>2, <1>3 DEF ClockInv, StartInv
<1>5. UNCHANGED replays
  <2>1. ASSUME NEW o \in DOMAIN runs, Replay(o)
        PROVE  FALSE
    <3>1. now \in replays'
      BY <2>1 DEF Replay
    <3>2. now < runs[r].started
      BY <1>4, <3>1
    <3> QED BY <1>1, <1>3, <1>4, <3>2
  <2> QED
    BY <2>1
       DEF Next, vars, OpenRun, Refresh, StartPrices, BeginBatch, CommitBatch, LoseBatch, MaybeRecord, Rank,
           InsertClaim, MarkStep, CloseRun, StatementFails, Crash
<1>6. ASSUME seen'[runs[r].started] = seen[runs[r].started],
             ClaimsOf(r, m)' \in Pickings(m, runs[r].started, seen[runs[r].started])
      PROVE  ClaimsOf(r, m)' \in Pickings(m, runs[r].started, seen[runs[r].started])'
  <2>1. PICK t \in Nat : t = runs[r].started
    BY <1>1, <1>3
  <2>2. ASSUME pc = "commit"
        PROVE  t < tx.began
    <3>1. MadeAt < tx.began /\ Current \in DOMAIN runs /\ MadeAt = runs[Current].started
      BY <1>1, <2>2 DEF ClockInv, TxInv, MadeAt
    <3>2. t <= MadeAt /\ MadeAt \in Nat
      BY <1>1, <1>2, <1>3, <2>1, <3>1 DEF ClockInv, StartInv
    <3>3. tx.began \in Nat
      BY PredictionsAssumption DEF ClockInv, TypeOK, PredictionsAssumption
    <3> QED BY <3>1, <3>2, <3>3
  <2>3. \A of : Pickings(m, t, of)' = Pickings(m, t, of)
    BY <1>5, <2>2, PickingsStand
  <2>4. PICK saw : saw = seen[t]
    OBVIOUS
  <2>5. Pickings(m, runs[r].started, seen[runs[r].started])' = Pickings(m, t, saw)'
    BY <1>4, <1>6, <2>1, <2>4
  <2> QED BY <1>6, <2>1, <2>3, <2>4, <2>5
<1>7. CASE runs[r].marked
  <2>1. ClaimsOf(r, m) \in Pickings(m, runs[r].started, seen[runs[r].started])
    BY <1>3, <1>4, <1>5, <1>7 DEF MarkedClaimsRecompute
  <2>2. ClaimsOf(r, m)' = ClaimsOf(r, m)
    <3>1. CASE ~InsertClaim
      BY <1>1, <1>3, <3>1, ClaimsStand
    <3>2. CASE InsertClaim
      <4>1. r # Current
        BY <1>7, <3>2 DEF HandInv, InsertClaim
      <4> QED BY <1>3, <3>2, <4>1, ClaimMade
    <3> QED BY <3>1, <3>2
  <2>3. seen'[runs[r].started] = seen[runs[r].started]
    <3>1. CASE MaybeRecord
      <4>1. r # Current /\ Current \in DOMAIN runs
        BY <1>1, <1>7, <3>1 DEF HandInv, MaybeRecord
      <4>2. runs[r].started # MadeAt
        BY <1>1, <1>2, <1>3, <4>1 DEF ClockInv, StartInv, MadeAt
      <4>3. runs[r].started \in Instant /\ seen \in [Instant -> [Asset -> Attr]]
        BY <1>1, <1>3, RunsTyped DEF TypeOK, RunRow
      <4>4. UNCHANGED seen \/ seen' = [seen EXCEPT ![MadeAt] = attrs]
        BY <3>1 DEF MaybeRecord
      <4> QED BY <4>2, <4>3, <4>4
    <3>2. CASE UNCHANGED seen
      BY <3>2
    <3> QED
      BY <3>1, <3>2
         DEF Next, vars, OpenRun, Refresh, StartPrices, BeginBatch, CommitBatch, LoseBatch,
             Rank, InsertClaim, MarkStep, CloseRun, StatementFails, Crash, Replay
  <2> QED BY <1>6, <2>1, <2>2, <2>3
<1>8. CASE ~runs[r].marked
  <2>1. r = Current /\ (MarkStep \/ CloseRun \/ StatementFails)
    <3>1. r = Current
      BY <1>2, <1>3, <1>8
    <3>2. runs' # runs
      BY <1>8
    <3>3. ~OpenRun
      <4> SUFFICES ASSUME OpenRun PROVE FALSE
        OBVIOUS
      <4>1. runs'[r] = runs[r]
        BY <1>1, <1>3, OpenedRun
      <4> QED BY <1>8, <4>1
    <3> QED
      BY <3>1, <3>2, <3>3
         DEF Next, vars, Refresh, StartPrices, BeginBatch, CommitBatch, LoseBatch, MaybeRecord, Rank,
             InsertClaim, Crash, Replay
  <2>2. pc = "rank" /\ todo = {} /\ ~InsertClaim
    <3>1. ~CloseRun
      BY <1>1, <1>8, <2>1, EndedRunRow
    <3>2. CASE MarkStep
      BY <3>2 DEF MarkStep, MarketsDone, InsertClaim
    <3>3. CASE StatementFails
      BY <1>1, <2>1, <3>3, EndedRunRow DEF MarketsDone, InsertClaim
    <3> QED BY <2>1, <3>1, <3>2, <3>3
  <2>3. ClaimsOf(r, m) \in Pickings(m, runs[r].started, seen[runs[r].started])
    BY <2>1, <2>2 DEF HandInv, Ranked, Given, MadeAt
  <2>4. ClaimsOf(r, m)' = ClaimsOf(r, m)
    BY <1>1, <1>3, <2>2, ClaimsStand
  <2>5. UNCHANGED seen
    BY <2>1 DEF MarkStep, CloseRun, StatementFails
  <2> QED BY <1>6, <2>3, <2>4, <2>5
<1> QED BY <1>7, <1>8


-----------------------------------------------------------------------------
(* The theorems.                                                            *)

LEMMA ClocksKept == Spec => []ClockInv
<1>1. ClockInv /\ [Next]_vars => ClockInv'
  BY ClockStep
<1> QED BY ClockInit, <1>1, PTL DEF Spec

\* Every variable of the claims' model stays in its type, whatever the cards,
\* the prices, the cadence and the horizon.
THEOREM PredictionsTypes == Spec => []TypeOK
<1>1. ClockInv => TypeOK
  BY DEF ClockInv
<1> QED BY <1>1, ClocksKept, PTL

\* A question about a time that has settled is answered alike for ever, by
\* trusted_latest_prices and by score_matured, unless a replay rewrites what
\* the answer was read from.
THEOREM AnswersStand == Spec => SettledAnswersStand
<1>1. ClockInv /\ [Next]_vars => SettledStep
  BY SettledStands
<1>2. SettledStep <=> (replays' = replays /\ <<rows, polls, claims>>' # <<rows, polls, claims>> =>
                         \A t \in 1..MaxTime : Settled(t) =>
                           /\ \A p \in Pair : Answer(p, t)' = Answer(p, t)
                           /\ \A of \in [Asset -> Attr] : Scores(t, of)' = Scores(t, of))
  BY DEF SettledStep
<1> QED BY <1>1, <1>2, ClocksKept, PTL DEF Spec, SettledAnswersStand

LEMMA ClaimsKept == Spec => [](ClockInv /\ PaceInv /\ HandInv)
<1>1. Init => PaceInv /\ HandInv
  BY DEF Init, PaceInv, HandInv
<1>2. ClockInv /\ PaceInv /\ HandInv /\ [Next]_vars => (ClockInv /\ PaceInv /\ HandInv)'
  BY ClockStep, PaceStep, HandStep
<1> QED BY ClockInit, <1>1, <1>2, PTL DEF Spec

\* A marked run has in every market exactly the claims that the ledger of any
\* later moment gives for its start, as long as no replay has rewritten it: for
\* any cards, markets, prices, window of trust and order of failures.
THEOREM ClaimsRecompute == Spec => []MarkedClaimsRecompute
<1>1. Init => MarkedClaimsRecompute
  BY DEF Init, MarkedClaimsRecompute
<1>2. ClockInv /\ PaceInv /\ HandInv /\ MarkedClaimsRecompute /\ [Next]_vars
      => MarkedClaimsRecompute'
  BY RecomputeStep
<1> QED BY <1>1, <1>2, ClaimsKept, PTL DEF Spec

\* No run claims before a whole cadence has passed since a run that was done,
\* for any cadence.
THEOREM OneOpinionACadence == Spec => []NoSecondOpinion
<1>1. Init => NoSecondOpinion
  BY DEF Init, NoSecondOpinion
<1>2. ClockInv /\ PaceInv /\ HandInv /\ NoSecondOpinion /\ [Next]_vars
      => NoSecondOpinion'
  BY OpinionStep
<1> QED BY <1>1, <1>2, ClaimsKept, PTL DEF Spec

=============================================================================

---------------------------- MODULE LedgerProofs ----------------------------
(* Theorems of Ledger: what a run wrote, counted and left behind, and that  *)
(* a replay under the parser of the run reproduces it.                      *)
EXTENDS Ledger, FiniteSetTheorems, TLAPS

\* The pairs of a payload that a parser and a start take as priced.
Priced(v, payload, asked, started) ==
  {p \in asked : /\ Quoted(payload, p)
                 /\ Verdict(v, Index(payload, p), started) = "priced"}

\* The facts a payload states, whichever run they are filed under.
Said(v, payload, asked, started) ==
  {<<p, Index(payload, p).at, Reads[v][Index(payload, p).raw]>> :
     p \in Priced(v, payload, asked, started)}

\* The start that bounded the quotes of a run.
StartOf(r) == IF runs[r].kind = "ingest" THEN r ELSE runs[r].of

\* The facts run r read in its payload.
SaidBy(r) == Said(runs[r].parser, runs[r].payload, runs[r].asked, StartOf(r))

RunRow ==
  [kind : {"ingest", "replay", "failed"}, of : Nat, started : Nat, payload : Payloads,
   asked : SUBSET Pair, parser : Version, stored : BOOLEAN, end : End, seen : Int,
   written : Int, unchanged : Int, rejected : Int]

\* What the rows of ingest_runs say of each other.
RunsInv ==
  /\ runs \in Seq(RunRow)
  /\ \A r \in DOMAIN runs :
       /\ runs[r].started = r
       /\ runs[r].kind # "ingest" => runs[r].of \in 1..(r - 1)
       /\ \A q \in rows : q.run = r => Fact(q) \in SaidBy(r)
  /\ \A poll \in polls : poll.at \in DOMAIN runs

\* A stored ingest run's facts are in the ledger until a correction may have
\* taken some of them out.
SaidInv ==
  \A o \in DOMAIN runs :
    runs[o].kind = "ingest" /\ runs[o].stored /\ ~CorrectedSince(o) => SaidBy(o) \subseteq Facts(rows)

\* The inductive invariant.
IInv ==
  TypeOK /\ RunsInv /\ SaidInv /\ CountsAddUp /\ WrittenCountHolds

-----------------------------------------------------------------------------
(* Payloads and what they say.                                              *)

\* A payload is a sequence of at most two quotes.
LEMMA PayloadShape ==
  ASSUME NEW payload \in Payloads
  PROVE  /\ DOMAIN payload \subseteq 1..2
         /\ \A i \in DOMAIN payload : payload[i] \in Quotes
<1>1. CASE payload = <<>>
  BY <1>1
<1>2. CASE \E q \in Quotes : payload = <<q>>
  BY <1>2
<1>3. CASE payload \in Quotes \X Quotes
  <2>1. PICK q \in Quotes, u \in Quotes : payload = <<q, u>>
    BY <1>3
  <2> QED BY <2>1
<1> QED BY <1>1, <1>2, <1>3 DEF Payloads

\* The quote kept for a pair is one of its quotes.
LEMMA IndexPicks ==
  ASSUME NEW payload \in Payloads, NEW p, Quoted(payload, p)
  PROVE  \E i \in DOMAIN payload : Index(payload, p) = payload[i] /\ payload[i].pair = p
<1> DEFINE S == {i \in DOMAIN payload : payload[i].pair = p}
<1>1. S # {} /\ S \subseteq 1..2
  BY PayloadShape DEF Quoted
<1>2. \E i \in S : \A j \in S : i >= j
  <2>1. CASE 2 \in S
    BY <1>1, <2>1
  <2>2. CASE 2 \notin S
    BY <1>1, <2>2
  <2> QED BY <2>1, <2>2
<1> HIDE DEF S
<1>3. Max(S) \in S
  BY <1>2 DEF Max
<1>4. Index(payload, p) = payload[Max(S)]
  BY DEF Index, S
<1> QED BY <1>3, <1>4 DEF S

\* A quote that was taken as priced has an instant and, when its payload parsed,
\* a price.
LEMMA PricedQuote ==
  ASSUME NEW v \in Version, NEW payload \in Payloads, NEW asked \in SUBSET Pair,
         NEW started, NEW p \in Priced(v, payload, asked, started), Parses(v, payload)
  PROVE  /\ p \in Pair /\ Index(payload, p).pair = p
         /\ Index(payload, p).at \in Nat
         /\ Reads[v][Index(payload, p).raw] \in Nat \ {0}
<1>1. p \in asked /\ Quoted(payload, p) /\ Verdict(v, Index(payload, p), started) = "priced"
  BY DEF Priced
<1>2. PICK i \in DOMAIN payload : Index(payload, p) = payload[i] /\ payload[i].pair = p
  BY <1>1, IndexPicks
<1> DEFINE q == payload[i]
<1>3. q \in Quotes /\ Reads[v][q.raw] # Unparsable
  BY PayloadShape DEF Parses
<1>4. q.at \in Nat \cup {NoTime} /\ Reads[v][q.raw] \in Nat \cup {Unparsable}
  BY <1>3, LedgerAssumption
<1>5. q.at # NoTime /\ Reads[v][q.raw] # NoPrice
  BY <1>1, <1>2 DEF Verdict
<1> QED BY <1>1, <1>2, <1>3, <1>4, <1>5 DEF NoPrice, NoTime

\* What a payload resolves to, as observations of the pairs priced in it.
LEMMA ResolvedPriced ==
  ASSUME NEW v, NEW payload, NEW asked, NEW started, NEW run
  PROVE  Resolved(v, payload, asked, started, run) =
           {Observation(v, Index(payload, p), run) : p \in Priced(v, payload, asked, started)}
BY DEF Resolved, Priced

\* The facts resolved are what the payload says.
LEMMA ResolvedFacts ==
  ASSUME NEW v, NEW payload \in Payloads, NEW asked, NEW started, NEW run
  PROVE  Facts(Resolved(v, payload, asked, started, run)) = Said(v, payload, asked, started)
<1> DEFINE P == Priced(v, payload, asked, started)
           F(p) == <<p, Index(payload, p).at, Reads[v][Index(payload, p).raw]>>
           O(p) == Observation(v, Index(payload, p), run)
<1>1. \A p \in P : Index(payload, p).pair = p
  BY IndexPicks DEF Priced
<1>2. \A p \in P : Fact(O(p)) = F(p)
  BY <1>1 DEF Fact, Observation
<1>3. Facts({O(p) : p \in P}) = {Fact(O(p)) : p \in P}
  BY DEF Facts
<1>4. {Fact(O(p)) : p \in P} = {F(p) : p \in P}
  BY <1>2
<1> QED BY <1>3, <1>4, ResolvedPriced DEF Said

\* A later start refuses no more than an earlier one.
LEMMA SaidGrows ==
  ASSUME NEW v, NEW payload \in Payloads, NEW asked,
         NEW early \in Nat, NEW late \in Nat, early <= late
  PROVE  Said(v, payload, asked, early) \subseteq Said(v, payload, asked, late)
<1>1. \A p \in Priced(v, payload, asked, early) : p \in Priced(v, payload, asked, late)
  <2> SUFFICES ASSUME NEW p \in Priced(v, payload, asked, early)
               PROVE  p \in Priced(v, payload, asked, late)
    OBVIOUS
  <2> DEFINE q == Index(payload, p)
  <2>1. p \in asked /\ Quoted(payload, p) /\ Verdict(v, q, early) = "priced"
    BY DEF Priced
  <2>2. q \in Quotes
    BY <2>1, IndexPicks, PayloadShape
  <2>3. q.at \in Nat \cup {NoTime}
    BY <2>2, LedgerAssumption
  <2>4. q.at # NoTime /\ InRange(q.at, early)
    BY <2>1 DEF Verdict
  <2>5. InRange(q.at, late)
    BY <2>3, <2>4, LedgerAssumption DEF InRange, NoTime
  <2>6. Verdict(v, q, late) = "priced"
    BY <2>1, <2>5 DEF Verdict
  <2> QED BY <2>1, <2>6 DEF Priced
<1> QED BY <1>1 DEF Said

\* Inserting rows adds their facts.
LEMMA InsertedFacts ==
  ASSUME NEW new, NEW held
  PROVE  Facts(held \cup Inserted(new, held)) = Facts(held) \cup Facts(new)
BY DEF Facts, Inserted

LEMMA FactsOfMore ==
  ASSUME NEW S, NEW T, S \subseteq T
  PROVE  Facts(S) \subseteq Facts(T)
BY DEF Facts

-----------------------------------------------------------------------------
(* The counts of an ingest run.                                             *)

\* A set split in three parts has as many elements as they have together.
LEMMA ThreeParts ==
  ASSUME NEW S, IsFiniteSet(S), NEW A, NEW B, NEW C, S = A \cup B \cup C,
         A \cap B = {}, A \cap C = {}, B \cap C = {}
  PROVE  /\ IsFiniteSet(A) /\ IsFiniteSet(B) /\ IsFiniteSet(C)
         /\ Cardinality(A) \in Nat /\ Cardinality(B) \in Nat /\ Cardinality(C) \in Nat
         /\ Cardinality(S) = Cardinality(A) + Cardinality(B) + Cardinality(C)
<1>1. A \in SUBSET S /\ B \in SUBSET S /\ C \in SUBSET S
  OBVIOUS
<1>2. IsFiniteSet(A) /\ IsFiniteSet(B) /\ IsFiniteSet(C)
  BY <1>1, FS_Subset
<1>3. Cardinality(A) \in Nat /\ Cardinality(B) \in Nat /\ Cardinality(C) \in Nat
  BY <1>2, FS_CardinalityType
<1>4. /\ IsFiniteSet(A \cup B)
      /\ Cardinality(A \cup B) = Cardinality(A) + Cardinality(B) - Cardinality(A \cap B)
  BY <1>2, FS_Union
<1>5. Cardinality((A \cup B) \cup C)
        = Cardinality(A \cup B) + Cardinality(C) - Cardinality((A \cup B) \cap C)
  BY <1>2, <1>4, FS_Union
<1>6. A \cap B = {} /\ (A \cup B) \cap C = {}
  OBVIOUS
<1>7. Cardinality({}) = 0
  BY FS_EmptySet
<1>8. Cardinality(A \cup B) = Cardinality(A) + Cardinality(B)
  BY <1>3, <1>4, <1>6, <1>7
<1>9. Cardinality(A \cup B) \in Nat
  BY <1>4, FS_CardinalityType
<1>10. Cardinality((A \cup B) \cup C) = Cardinality(A) + Cardinality(B) + Cardinality(C)
  <2>1. Cardinality((A \cup B) \cap C) = 0
    BY ONLY <1>6, <1>7
  <2>2. Cardinality((A \cup B) \cup C) = Cardinality(A \cup B) + Cardinality(C) - 0
    BY ONLY <1>5, <2>1
  <2> QED BY ONLY <1>3, <1>8, <1>9, <2>2
<1> QED BY <1>2, <1>3, <1>10

\* Counts of a payload's quotes are numbers.
LEMMA QuoteCounts ==
  ASSUME NEW payload \in Payloads, NEW v, NEW S
  PROVE  /\ Contradicted(v, payload) \in Nat
         /\ Cardinality({i \in DOMAIN payload : payload[i].pair \notin S}) \in Nat
<1>1. \A T \in SUBSET (1..2) : Cardinality(T) \in Nat
  <2>1. IsFiniteSet(1..2)
    <3>1. \A a \in Int, b \in Int : IsFiniteSet(a..b)
      BY FS_Interval
    <3>2. 1 \in Int /\ 2 \in Int
      OBVIOUS
    <3> QED BY ONLY <3>1, <3>2, Zenon
  <2> TAKE T \in SUBSET (1..2)
  <2>2. IsFiniteSet(T)
    BY <2>1, FS_Subset
  <2> QED BY <2>2, FS_CardinalityType
<1>2. DOMAIN payload \subseteq 1..2
  BY PayloadShape
<1> QED BY <1>1, <1>2 DEF Contradicted

\* The rows a batch adds and the outcomes it polls.
Fresh(payload, asked) == Inserted(Resolved(parser, payload, asked, now, now), rows)
Told(payload, asked) ==
  [p \in asked |-> PollOutcome(parser, payload, p, now, Fresh(payload, asked))]

\* The rows a batch adds are one for each pair polled as written, and every
\* pair asked for has one outcome.
LEMMA WrittenPairs ==
  ASSUME NEW payload \in Payloads, NEW asked \in SUBSET Pair
  PROVE  /\ IsFiniteSet(Fresh(payload, asked))
         /\ Cardinality(Fresh(payload, asked))
              = Cardinality({p \in asked : Told(payload, asked)[p] = "written"})
         /\ \A q \in Fresh(payload, asked) : q.pair \in asked
         /\ \A p \in asked :
              /\ Told(payload, asked)[p] \in Outcome
              /\ (\E q \in Fresh(payload, asked) : q.pair = p) <=> Told(payload, asked)[p] = "written"
              /\ Told(payload, asked)[p] \in {"written", "unchanged"}
                   <=> p \in Priced(parser, payload, asked, now)
<1> DEFINE new == Fresh(payload, asked)
           O(p) == Observation(parser, Index(payload, p), now)
           P == Priced(parser, payload, asked, now)
           V == {p \in P : Fact(O(p)) \notin Facts(rows)}
           W == {p \in asked : PollOutcome(parser, payload, p, now, new) = "written"}
           f == [p \in V |-> O(p)]
<1>1. new = {O(p) : p \in V}
  BY ResolvedPriced DEF Inserted, Fresh
<1>2. \A p \in V : O(p).pair = p
  BY IndexPicks DEF Priced, Observation
<1>3. f \in Bijection(V, new)
  <2>1. f \in [V -> new]
    BY <1>1
  <2>2. \A p \in V, u \in V : f[p] = f[u] => p = u
    BY <1>2
  <2>3. \A row \in new : \E p \in V : f[p] = row
    BY <1>1
  <2> HIDE DEF f, V
  <2> QED BY <2>1, <2>2, <2>3 DEF Bijection, Injection, Surjection, IsInjective
<1>4. IsFiniteSet(V)
  <2>1. V \in SUBSET Pair
    BY DEF Priced
  <2> HIDE DEF V
  <2> QED BY <2>1, FS_Subset, LedgerAssumption
<1>5. IsFiniteSet(new) /\ Cardinality(new) = Cardinality(V)
  <2> HIDE DEF f, V
  <2> QED BY <1>3, <1>4, FS_Bijection DEF ExistsBijection
<1>6. \A p \in asked : /\ PollOutcome(parser, payload, p, now, new) = "written" <=> p \in V
                       /\ PollOutcome(parser, payload, p, now, new) \in Outcome
                       /\ PollOutcome(parser, payload, p, now, new) \in {"written", "unchanged"}
                            <=> p \in P
  <2> SUFFICES ASSUME NEW p \in asked
               PROVE  /\ PollOutcome(parser, payload, p, now, new) = "written" <=> p \in V
                      /\ PollOutcome(parser, payload, p, now, new) \in Outcome
                      /\ PollOutcome(parser, payload, p, now, new) \in {"written", "unchanged"}
                           <=> p \in P
    OBVIOUS
  <2> DEFINE verdict == Verdict(parser, Index(payload, p), now)
  <2>1. verdict \in {"rejected", "no_price", "priced"}
    BY DEF Verdict
  <2>2. CASE ~Quoted(payload, p)
    BY <2>2 DEF PollOutcome, Outcome, Priced
  <2>3. CASE Quoted(payload, p) /\ verdict # "priced"
    BY <2>1, <2>3 DEF PollOutcome, Outcome, Priced
  <2>4. CASE Quoted(payload, p) /\ verdict = "priced"
    <3>1. p \in P
      BY <2>4 DEF Priced
    <3>2. (\E row \in new : row.pair = p) <=> p \in V
      <4> HIDE DEF O, V
      <4> QED BY <1>1, <1>2
    <3>3. PollOutcome(parser, payload, p, now, new)
            = IF \E row \in new : row.pair = p THEN "written" ELSE "unchanged"
      BY <2>4 DEF PollOutcome
    <3> QED BY <3>1, <3>2, <3>3 DEF Outcome
  <2> QED BY <2>2, <2>3, <2>4
<1>7. W = V
  BY <1>6 DEF Priced
<1>8. (\A q \in new : q.pair \in V) /\ (\A p \in V : \E q \in new : q.pair = p)
  <2> HIDE DEF V, O
  <2> QED BY <1>1, <1>2
<1>9. V \subseteq asked
  BY DEF Priced
<1>10. \A p \in asked : Told(payload, asked)[p] = PollOutcome(parser, payload, p, now, new)
  BY DEF Told
<1>11. W = {p \in asked : Told(payload, asked)[p] = "written"}
  BY <1>10
<1> HIDE DEF V, W, O, P, new
<1> QED BY <1>4, <1>5, <1>6, <1>7, <1>8, <1>9, <1>10, <1>11 DEF P, new

\* A payload resolves to finitely many observations.
LEMMA ResolvedFinite ==
  ASSUME NEW v, NEW payload, NEW asked \in SUBSET Pair, NEW started, NEW run
  PROVE  IsFiniteSet(Resolved(v, payload, asked, started, run))
<1> DEFINE P == Priced(v, payload, asked, started)
           O(p) == Observation(v, Index(payload, p), run)
           R == {O(p) : p \in P}
           f == [p \in P |-> O(p)]
<1>1. IsFiniteSet(P)
  <2>1. P \in SUBSET Pair
    BY DEF Priced
  <2> HIDE DEF P
  <2> QED BY <2>1, FS_Subset, LedgerAssumption
<1>2. f \in Surjection(P, R)
  <2>1. f \in [P -> R] /\ \A x \in R : \E p \in P : f[p] = x
    OBVIOUS
  <2> HIDE DEF f, R, P
  <2> QED BY <2>1 DEF Surjection
<1> HIDE DEF f, P
<1>3. IsFiniteSet(R)
  <2> HIDE DEF R
  <2> QED BY <1>1, <1>2, FS_Surjection
<1> QED BY <1>3, ResolvedPriced DEF P

\* What a batch has seen is what it wrote, found unchanged and rejected, or what
\* it accepted and rejected.
LEMMA Balance ==
  ASSUME NEW payload \in Payloads, NEW asked \in SUBSET Pair
  PROVE  LET unchanged == Cardinality({p \in asked : Told(payload, asked)[p] = "unchanged"})
             rejected == Rejected(parser, payload, Told(payload, asked))
             written == Cardinality(Fresh(payload, asked))
             accepted == Cardinality(Priced(parser, payload, asked, now)) IN
         /\ written \in Nat /\ unchanged \in Nat /\ rejected \in Nat /\ accepted \in Nat
         /\ Seen(parser, payload, asked) = written + unchanged + rejected
         /\ Seen(parser, payload, asked) = accepted + rejected
<1> DEFINE new == Fresh(payload, asked)
           outcome == Told(payload, asked)
           W == {p \in asked : outcome[p] = "written"}
           U == {p \in asked : outcome[p] = "unchanged"}
           R == {p \in asked : outcome[p] \in {"rejected", "no_price"}}
           P == Priced(parser, payload, asked, now)
           Unasked == Cardinality({i \in DOMAIN payload : payload[i].pair \notin asked})
           Over == Contradicted(parser, payload)
<1>1. /\ Cardinality(new) = Cardinality(W)
      /\ \A p \in asked : outcome[p] \in Outcome
      /\ P = W \cup U
  <2>1. /\ Cardinality(new) = Cardinality(W)
        /\ \A p \in asked : outcome[p] \in Outcome
    BY WrittenPairs
  <2>2. \A p \in asked : outcome[p] \in {"written", "unchanged"} <=> p \in P
    BY WrittenPairs
  <2>3. P = W \cup U
    <3>1. P \subseteq asked
      BY DEF Priced
    <3> HIDE DEF P
    <3> QED BY <2>2, <3>1
  <2> QED BY <2>1, <2>3
<1>2. asked = W \cup U \cup R /\ W \cap U = {} /\ W \cap R = {} /\ U \cap R = {}
  BY <1>1 DEF Outcome
<1>3. IsFiniteSet(asked)
  BY FS_Subset, LedgerAssumption
<1>4. Unasked \in Nat /\ Over \in Nat
  BY QuoteCounts
<1>5. Seen(parser, payload, asked) = Cardinality(asked) + Unasked + Over
  BY DEF Seen
<1>6. Rejected(parser, payload, outcome) = Cardinality(R) + Unasked + Over
  BY DEF Rejected, Told
<1>7. /\ Cardinality(W) \in Nat /\ Cardinality(U) \in Nat /\ Cardinality(R) \in Nat
      /\ Cardinality(asked) = Cardinality(W) + Cardinality(U) + Cardinality(R)
  <2> HIDE DEF W, U, R
  <2> QED BY ONLY <1>2, <1>3, ThreeParts
<1>9. Cardinality(P) \in Nat /\ Cardinality(asked) = Cardinality(P) + Cardinality(R)
  <2> DEFINE none == {}
  <2> HIDE DEF W, U, R, P
  <2>1. asked = P \cup R \cup none /\ P \cap R = {} /\ P \cap none = {} /\ R \cap none = {}
    BY <1>1, <1>2
  <2>2. Cardinality(none) = 0
    BY FS_EmptySet
  <2> HIDE DEF none
  <2>3. /\ Cardinality(P) \in Nat /\ Cardinality(R) \in Nat
        /\ Cardinality(asked) = Cardinality(P) + Cardinality(R) + Cardinality(none)
    BY ONLY <1>3, <2>1, ThreeParts
  <2> QED BY ONLY <2>2, <2>3
<1> HIDE DEF W, U, R, P, Unasked, Over
<1>8. Seen(parser, payload, asked) = Cardinality(W) + Cardinality(U) + (Cardinality(R) + Unasked + Over)
  BY <1>4, <1>5, <1>7
<1>10. Seen(parser, payload, asked) = Cardinality(P) + (Cardinality(R) + Unasked + Over)
  BY <1>4, <1>5, <1>7, <1>9
<1> QED BY <1>1, <1>4, <1>6, <1>7, <1>8, <1>9, <1>10 DEF U, P, new, outcome

-----------------------------------------------------------------------------
(* One step.                                                                *)

\* The rows a payload resolves to are well formed, filed under this run and say
\* what the payload says.
LEMMA NewRows ==
  ASSUME parser \in Version, NEW payload \in Payloads, NEW asked \in SUBSET Pair, NEW started,
         Parses(parser, payload), NEW row \in Resolved(parser, payload, asked, started, now)
  PROVE  /\ row.pair \in Pair /\ row.at \in Nat /\ row.price \in Nat \ {0}
         /\ row.run = now /\ row.ingested = now
         /\ Fact(row) \in Said(parser, payload, asked, started)
<1>1. PICK p \in Priced(parser, payload, asked, started) :
        row = Observation(parser, Index(payload, p), now)
  BY ResolvedPriced
<1>2. /\ p \in Pair /\ Index(payload, p).pair = p
      /\ Index(payload, p).at \in Nat
      /\ Reads[parser][Index(payload, p).raw] \in Nat \ {0}
  BY PricedQuote
<1>3. /\ row.pair = p /\ row.at = Index(payload, p).at /\ row.run = now /\ row.ingested = now
      /\ row.price = Reads[parser][Index(payload, p).raw]
  BY <1>1, <1>2 DEF Observation
<1> QED BY <1>2, <1>3 DEF Fact, Said

\* What a row added to ingest_runs leaves as it was.
LEMMA RunAdded ==
  ASSUME IInv, NEW run \in RunRow, runs' = Append(runs, run), run.started = now,
         run.kind # "ingest" => run.of \in DOMAIN runs
  PROVE  /\ runs' \in Seq(RunRow) /\ Len(runs') = now
         /\ DOMAIN runs = 1..(now - 1) /\ DOMAIN runs' = 1..now /\ now \in Nat \ {0}
         /\ runs'[now] = run
         /\ \A r \in DOMAIN runs' : /\ runs'[r].started = r
                                    /\ runs'[r].kind # "ingest" => runs'[r].of \in 1..(r - 1)
         /\ \A r \in DOMAIN runs : /\ runs'[r] = runs[r] /\ SaidBy(r)' = SaidBy(r)
                                   /\ CorrectedSince(r) => CorrectedSince(r)'
         /\ \A n : n = now => SaidBy(n)' = Said(run.parser, run.payload, run.asked,
                                 IF run.kind = "ingest" THEN n ELSE run.of)
<1>1. runs \in Seq(RunRow) /\ Len(runs) = now - 1 /\ now \in Nat \ {0}
  BY LedgerAssumption DEF IInv, TypeOK, RunsInv
<1>2. runs' \in Seq(RunRow) /\ Len(runs') = now
  BY <1>1
<1>3. DOMAIN runs = 1..(now - 1) /\ DOMAIN runs' = 1..now
  BY <1>1, <1>2
<1>4. runs'[now] = run
  BY <1>1
<1>5. \A r \in DOMAIN runs : runs'[r] = runs[r]
  BY <1>1
<1>6. \A r \in DOMAIN runs : SaidBy(r)' = SaidBy(r)
  BY <1>5 DEF SaidBy, StartOf
<1>7. \A n : n = now => SaidBy(n)' = Said(run.parser, run.payload, run.asked,
                                           IF run.kind = "ingest" THEN n ELSE run.of)
  BY <1>4 DEF SaidBy, StartOf
<1>8. \A r \in DOMAIN runs' : runs'[r].started = r
  BY <1>1, <1>3, <1>4, <1>5 DEF IInv, RunsInv
<1>9. \A r \in DOMAIN runs' : runs'[r].kind # "ingest" => runs'[r].of \in 1..(r - 1)
  BY <1>1, <1>3, <1>4, <1>5 DEF IInv, RunsInv
<1>10. \A r \in DOMAIN runs : CorrectedSince(r) => CorrectedSince(r)'
  <2> SUFFICES ASSUME NEW r \in DOMAIN runs, CorrectedSince(r)
               PROVE  CorrectedSince(r)'
    OBVIOUS
  <2>1. PICK s \in DOMAIN runs : s > r /\ runs[s].kind = "replay"
                                 /\ runs[s].parser # runs[runs[s].of].parser
    BY DEF CorrectedSince
  <2>2. runs[s].of \in 1..(s - 1)
    BY <2>1 DEF IInv, RunsInv
  <2>3. runs[s].of \in DOMAIN runs /\ s \in DOMAIN runs'
    BY <1>1, <1>3, <2>2
  <2>4. runs'[s] = runs[s] /\ runs'[runs[s].of] = runs[runs[s].of]
    BY <1>5, <2>3
  <2> QED BY <2>1, <2>3, <2>4 DEF CorrectedSince
<1> QED BY <1>1, <1>2, <1>3, <1>4, <1>5, <1>6, <1>7, <1>8, <1>9, <1>10

\* A row that is no ingest run's leaves the counts of those as they were.
LEMMA CountsKept ==
  ASSUME IInv, DOMAIN runs = 1..(now - 1), DOMAIN runs' = 1..now, now \in Nat \ {0},
         \A r \in DOMAIN runs : runs'[r] = runs[r],
         \A n : n = now => runs'[n].kind # "ingest"
  PROVE  CountsAddUp'
<1> SUFFICES ASSUME NEW r \in DOMAIN runs', runs'[r].kind = "ingest"
             PROVE  runs'[r].seen - runs'[r].rejected - runs'[r].written - runs'[r].unchanged
                      = IF runs'[r].end = "refused" THEN Cardinality(Accepted(r)') ELSE 0
  BY DEF CountsAddUp
<1>1. r \in DOMAIN runs /\ runs'[r] = runs[r]
  OBVIOUS
<1>2. Accepted(r)' = Accepted(r)
  BY <1>1 DEF Accepted
<1> QED BY <1>1, <1>2 DEF IInv, CountsAddUp

\* A run of one batch keeps the invariant, however it ended.
LEMMA BatchStep ==
  ASSUME IInv, Ingest, NEW payload \in Payloads, NEW asked \in SUBSET Pair \ {{}},
         NEW stored \in BOOLEAN, NEW end \in End, MayTake(end),
         IngestBatch(payload, asked, stored, end)
  PROVE  IInv'
<1> DEFINE new == Fresh(payload, asked)
           outcome == Told(payload, asked)
           unchanged == Cardinality({p \in asked : outcome[p] = "unchanged"})
           seen == Seen(parser, payload, asked)
           rejected == Rejected(parser, payload, outcome)
           accepted == Cardinality(Priced(parser, payload, asked, now))
           polled == {[pair |-> p, at |-> now, outcome |-> outcome[p]] : p \in asked}
           counts == BatchCounts(end, payload, asked, outcome, new)
           run == RunOf("ingest", 0, payload, asked, stored, end, counts)
           added == IF stored THEN new ELSE {}
           reported == IF stored THEN polled ELSE {}
<1>1. /\ stored \/ end # "uncounted" => Parses(parser, payload)
      /\ end = "counted" => stored
      /\ rows' = rows \cup added /\ polls' = polls \cup reported /\ runs' = Append(runs, run)
  <2>1. /\ stored \/ end # "uncounted" => Parses(parser, payload)
        /\ end = "counted" => stored
        /\ runs' = Append(runs, run) /\ WritePolls(stored, asked, outcome, new)
    BY Zenon DEF IngestBatch, Fresh, Told
  <2> HIDE DEF run, new, outcome
  <2>2. rows' = rows \cup added /\ polls' = polls \cup reported
    BY <2>1 DEF WritePolls
  <2> QED BY <2>1, <2>2
<1>2. /\ now \in 1..MaxRuns /\ now' = now + 1 /\ parser' = parser /\ parser \in Version
  BY DEF IInv, TypeOK, Ingest, MayTake
<1>3. /\ Cardinality(new) \in Nat /\ unchanged \in Nat /\ rejected \in Nat /\ accepted \in Nat
      /\ seen = Cardinality(new) + unchanged + rejected /\ seen = accepted + rejected
  BY Balance
<1>4. \A p \in asked : outcome[p] \in Outcome
  BY WrittenPairs
<1>5. \A q \in added : /\ q.pair \in Pair /\ q.at \in Nat /\ q.price \in Nat \ {0}
                       /\ q.run = now /\ q.ingested = now
                       /\ Fact(q) \in Said(parser, payload, asked, now)
  BY <1>1, <1>2, NewRows DEF Inserted, Fresh
<1>6. stored => Said(parser, payload, asked, now) \subseteq Facts(rows')
  <2> DEFINE found == Resolved(parser, payload, asked, now, now)
  <2>1. Facts(found) = Said(parser, payload, asked, now)
    BY ResolvedFacts
  <2>2. Facts(rows \cup Inserted(found, rows)) = Facts(rows) \cup Facts(found)
    BY InsertedFacts
  <2>3. stored => rows' = rows \cup Inserted(found, rows)
    <3> HIDE DEF found, run
    <3> QED BY <1>1 DEF Fresh, found
  <2> HIDE DEF found
  <2> QED BY <2>1, <2>2, <2>3
<1>7. /\ \A q \in new : q.pair \in asked
      /\ \A p \in asked : (\E q \in new : q.pair = p) <=> outcome[p] = "written"
  BY WrittenPairs
<1> HIDE DEF new, outcome, unchanged, seen, rejected, accepted
<1>8. /\ counts.seen \in Int /\ counts.written \in Int /\ counts.unchanged \in Int
      /\ counts.rejected \in Int
      /\ counts.seen - counts.rejected - counts.written - counts.unchanged
           = IF end = "refused" THEN accepted ELSE 0
      /\ end = "counted" => counts.written = Cardinality(new)
  <2>1. CASE end = "counted"
    <3>1. counts = [seen |-> seen, written |-> Cardinality(new), unchanged |-> unchanged,
                    rejected |-> rejected]
      BY <2>1 DEF BatchCounts, seen, rejected, unchanged
    <3> HIDE DEF counts
    <3> QED BY <1>3, <2>1, <3>1
  <2>2. CASE end = "refused"
    <3>1. counts = [seen |-> seen, written |-> 0, unchanged |-> 0, rejected |-> rejected]
      BY <2>2 DEF BatchCounts, NoCounts, seen, rejected
    <3> HIDE DEF counts
    <3> QED BY <1>3, <2>2, <3>1
  <2>3. CASE end = "uncounted"
    BY <2>3 DEF BatchCounts, NoCounts
  <2> QED BY <2>1, <2>2, <2>3 DEF End
<1> HIDE DEF counts
<1>9. run \in RunRow
  BY <1>2, <1>8 DEF RunOf, RunRow
<1>10. /\ run.kind = "ingest" /\ run.started = now /\ run.parser = parser /\ run.payload = payload
       /\ run.asked = asked /\ run.stored = stored /\ run.end = end
       /\ run.seen = counts.seen /\ run.written = counts.written
       /\ run.unchanged = counts.unchanged /\ run.rejected = counts.rejected
  BY DEF RunOf
<1> HIDE DEF run
<1>11. /\ runs' \in Seq(RunRow) /\ Len(runs') = now
       /\ DOMAIN runs = 1..(now - 1) /\ DOMAIN runs' = 1..now /\ now \in Nat \ {0}
       /\ runs'[now] = run
       /\ \A r \in DOMAIN runs' : /\ runs'[r].started = r
                                  /\ runs'[r].kind # "ingest" => runs'[r].of \in 1..(r - 1)
       /\ \A r \in DOMAIN runs : /\ runs'[r] = runs[r] /\ SaidBy(r)' = SaidBy(r)
                                 /\ CorrectedSince(r) => CorrectedSince(r)'
       /\ \A n : n = now => SaidBy(n)' = Said(parser, payload, asked, now)
  BY <1>1, <1>9, <1>10, RunAdded
<1>12. /\ \A q \in rows : q.run \in DOMAIN runs
       /\ \A poll \in polls : poll.at \in DOMAIN runs
       /\ \A poll \in reported : poll.at = now /\ poll.pair \in Pair /\ poll.outcome \in Outcome
       /\ \A p : [pair |-> p, at |-> now, outcome |-> "written"] \in reported
                   <=> stored /\ p \in asked /\ outcome[p] = "written"
  <2> HIDE DEF added
  <2>1. (\A q \in rows : q.run \in DOMAIN runs) /\ (\A poll \in polls : poll.at \in DOMAIN runs)
    BY DEF IInv, TypeOK, RunsInv
  <2>2. \A poll \in reported : poll.at = now /\ poll.pair \in Pair /\ poll.outcome \in Outcome
    BY <1>4
  <2>3. ASSUME NEW p
        PROVE  [pair |-> p, at |-> now, outcome |-> "written"] \in reported
                 <=> stored /\ p \in asked /\ outcome[p] = "written"
    OBVIOUS
  <2> QED BY <2>1, <2>2, <2>3
<1>13. TypeOK'
  <2>1. now' \in 1..(MaxRuns + 1) /\ parser' \in Version /\ Len(runs') = now' - 1
    BY <1>2, <1>11, LedgerAssumption
  <2> HIDE DEF added, reported
  <2>2. \A q \in rows' : /\ q.pair \in Pair /\ q.at \in Nat /\ q.price \in Nat \ {0}
                         /\ q.run \in DOMAIN runs' /\ q.ingested \in 1..MaxRuns
    BY <1>1, <1>2, <1>5, <1>11 DEF IInv, TypeOK
  <2>3. \A poll \in polls' : poll.pair \in Pair /\ poll.at \in 1..MaxRuns /\ poll.outcome \in Outcome
    BY <1>1, <1>2, <1>12 DEF IInv, TypeOK
  <2> QED BY <2>1, <2>2, <2>3 DEF TypeOK
<1> HIDE DEF reported
<1>14. RunsInv'
  <2> HIDE DEF added
  <2>1. ASSUME NEW r \in DOMAIN runs', NEW q \in rows', q.run = r PROVE Fact(q) \in SaidBy(r)'
    <3>1. CASE q \in rows
      BY <1>11, <1>12, <2>1, <3>1 DEF IInv, RunsInv
    <3>2. CASE q \in added
      BY <1>5, <1>11, <2>1, <3>2
    <3> QED BY <1>1, <3>1, <3>2
  <2>2. \A poll \in polls' : poll.at \in DOMAIN runs'
    BY <1>1, <1>11, <1>12
  <2> QED BY <1>11, <2>1, <2>2 DEF RunsInv, Fact
<1>15. SaidInv'
  <2> HIDE DEF added
  <2> SUFFICES ASSUME NEW o \in DOMAIN runs',
                      runs'[o].kind = "ingest", runs'[o].stored, ~CorrectedSince(o)'
               PROVE  SaidBy(o)' \subseteq Facts(rows')
    BY DEF SaidInv, Facts, Fact
  <2>1. CASE o = now
    BY <1>6, <1>10, <1>11, <2>1
  <2>2. CASE o \in DOMAIN runs
    <3>1. SaidBy(o) \subseteq Facts(rows)
      BY <1>11, <2>2 DEF IInv, SaidInv
    <3> QED BY <1>1, <1>11, <2>2, <3>1, FactsOfMore
  <2> QED BY <1>11, <2>1, <2>2
<1>16. CountsAddUp'
  <2> SUFFICES ASSUME NEW r \in DOMAIN runs', runs'[r].kind = "ingest"
               PROVE  runs'[r].seen - runs'[r].rejected - runs'[r].written - runs'[r].unchanged
                        = IF runs'[r].end = "refused" THEN Cardinality(Accepted(r)') ELSE 0
    BY DEF CountsAddUp
  <2>1. CASE r = now
    <3>1. Accepted(r)' = Priced(parser, payload, asked, now)
      BY <1>10, <1>11, <2>1 DEF Accepted, Priced
    <3> QED BY <1>8, <1>10, <1>11, <2>1, <3>1 DEF accepted
  <2>2. CASE r \in DOMAIN runs
    <3>1. Accepted(r)' = Accepted(r)
      BY <1>11, <2>2 DEF Accepted
    <3> QED BY <1>11, <2>2, <3>1 DEF IInv, CountsAddUp
  <2> QED BY <1>11, <2>1, <2>2
<1>17. WrittenCountHolds'
  <2> DEFINE held(r) == {q \in rows' : q.run = r}
             poll(p, r) == [pair |-> p, at |-> r, outcome |-> "written"]
  <2> SUFFICES ASSUME NEW r \in DOMAIN runs',
                      ~ \E s \in DOMAIN runs' : runs'[s].kind = "replay" /\ runs'[s].of = r
               PROVE  /\ runs'[r].end = "counted" => Cardinality(held(r)) = runs'[r].written
                      /\ runs'[r].kind = "ingest" => \A p \in Pair :
                           (\E q \in held(r) : q.pair = p) <=> poll(p, r) \in polls'
    BY DEF WrittenCountHolds, Held
  <2>1. CASE r = now
    <3>1. held(r) = added
      <4> HIDE DEF added
      <4> QED BY <1>1, <1>5, <1>11, <1>12, <2>1
    <3>2. \A p \in Pair : poll(p, r) \in polls' <=> stored /\ p \in asked /\ outcome[p] = "written"
      <4>1. \A p : poll(p, r) \notin polls
        BY <1>11, <1>12, <2>1
      <4> QED BY <1>1, <1>12, <2>1, <4>1
    <3>3. \A p \in Pair : (\E q \in held(r) : q.pair = p)
                             <=> stored /\ p \in asked /\ outcome[p] = "written"
      BY <1>7, <3>1
    <3>4. end = "counted" => Cardinality(held(r)) = counts.written
      BY <1>1, <1>8, <3>1
    <3> HIDE DEF held, poll
    <3> QED BY <1>10, <1>11, <2>1, <3>2, <3>3, <3>4
  <2>2. CASE r \in DOMAIN runs
    <3>1. held(r) = Held(r)
      <4> HIDE DEF added
      <4> QED BY <1>1, <1>5, <1>11, <2>2 DEF Held
    <3>2. \A p \in Pair : poll(p, r) \in polls' <=> poll(p, r) \in polls
      BY <1>1, <1>11, <1>12, <2>2
    <3>3. ~ \E s \in DOMAIN runs : runs[s].kind = "replay" /\ runs[s].of = r
      BY <1>11
    <3>4. /\ runs[r].end = "counted" => Cardinality(Held(r)) = runs[r].written
          /\ runs[r].kind = "ingest" => \A p \in Pair :
               (\E q \in Held(r) : q.pair = p) <=> poll(p, r) \in polls
      BY <2>2, <3>3 DEF IInv, WrittenCountHolds
    <3> HIDE DEF held, poll
    <3> QED BY <1>11, <2>2, <3>1, <3>2, <3>4
  <2> QED BY <1>11, <2>1, <2>2
<1> QED BY <1>13, <1>14, <1>15, <1>16, <1>17 DEF IInv

\* A replay that exchanges the rows of a run keeps the invariant, whether or not it
\* lives to list its keys; one by the parser of the run takes no price away.
LEMMA SwapStep ==
  ASSUME IInv, NEW o \in DOMAIN runs, Replay(o), NEW end \in End, MayTake(end), ReplaySwaps(o, end)
  PROVE  /\ IInv'
         /\ runs[o].parser = parser => Facts(rows) \subseteq Facts(rows')
         /\ \A f \in Facts(rows') : f \in Facts(rows) \/ f \in Said(parser, runs[o].payload, runs[o].asked, o)
<1> DEFINE old == Held(o)
           new == Inserted(Resolved(parser, runs[o].payload, runs[o].asked, ReplayStart(o), now), rows \ old)
           said == Said(parser, runs[o].payload, runs[o].asked, o)
           counts == IF end = "counted" THEN ReplayCounts(o, new) ELSE NoCounts
           run == RunOf("replay", o, runs[o].payload, runs[o].asked, TRUE, end, counts)
<1>1. /\ Parses(parser, runs[o].payload)
      /\ rows' = (rows \ old) \cup new
      /\ runs' = Append(runs, run) /\ parser' = parser /\ polls' = polls
      /\ now' = now + 1 /\ now <= MaxRuns
  BY Zenon DEF Replay, ReplaySwaps, MayTake
<1>2. now \in 1..MaxRuns /\ parser \in Version
  BY <1>1 DEF IInv, TypeOK
<1>3. runs[o] \in RunRow /\ runs[o].payload \in Payloads /\ runs[o].asked \in SUBSET Pair
  <2>1. runs \in Seq(RunRow)
    BY DEF IInv, RunsInv
  <2>2. runs[o] \in RunRow
    BY ONLY <2>1, o \in DOMAIN runs
  <2> QED BY ONLY <2>2 DEF RunRow
<1>4. ReplayStart(o) = o
  BY DEF ReplayStart, IInv, RunsInv
<1>5. \A q \in new : /\ q.pair \in Pair /\ q.at \in Nat /\ q.price \in Nat \ {0}
                     /\ q.run = now /\ q.ingested = now /\ Fact(q) \in said
  BY <1>1, <1>2, <1>3, <1>4, NewRows DEF Inserted
<1>6. Facts(rows') = Facts(rows \ old) \cup said
  <2> DEFINE found == Resolved(parser, runs[o].payload, runs[o].asked, ReplayStart(o), now)
  <2>1. Facts(found) = said
    BY <1>3, <1>4, ResolvedFacts
  <2>2. new = Inserted(found, rows \ old)
    OBVIOUS
  <2> HIDE DEF found, old, said, new
  <2> QED BY <1>1, <2>1, <2>2, InsertedFacts
<1>7. Cardinality(new) \in Nat
  <2>1. IsFiniteSet(Resolved(parser, runs[o].payload, runs[o].asked, ReplayStart(o), now))
    BY <1>3, ResolvedFinite
  <2>2. new \in SUBSET Resolved(parser, runs[o].payload, runs[o].asked, ReplayStart(o), now)
    BY DEF Inserted
  <2> HIDE DEF new
  <2>3. IsFiniteSet(new)
    BY <2>1, <2>2, FS_Subset
  <2> QED BY <2>3, FS_CardinalityType
<1> HIDE DEF new, said
<1>8. /\ counts.seen \in Int /\ counts.written \in Int /\ counts.unchanged \in Int
      /\ counts.rejected \in Int
      /\ end = "counted" => counts.written = Cardinality(new)
  <2> DEFINE found == {p \in runs[o].asked : Quoted(runs[o].payload, p)}
             refused == {p \in found :
                           Verdict(parser, Index(runs[o].payload, p), ReplayStart(o)) # "priced"}
  <2>1. Cardinality(found) \in Nat /\ Cardinality(refused) \in Nat
    <3>1. found \in SUBSET Pair /\ refused \in SUBSET Pair
      BY <1>3
    <3> HIDE DEF found, refused
    <3>2. IsFiniteSet(found) /\ IsFiniteSet(refused)
      BY <3>1, FS_Subset, LedgerAssumption
    <3> QED BY <3>2, FS_CardinalityType
  <2>2. ReplayCounts(o, new) = [seen |-> Cardinality(found), written |-> Cardinality(new),
                                unchanged |-> 0, rejected |-> Cardinality(refused)]
    BY DEF ReplayCounts
  <2> HIDE DEF found, refused
  <2> QED BY <1>7, <2>1, <2>2 DEF NoCounts
<1> HIDE DEF counts
<1>9. run \in RunRow
  BY <1>2, <1>3, <1>8 DEF RunOf, RunRow, IInv, RunsInv
<1>10. /\ run.kind = "replay" /\ run.of = o /\ run.started = now /\ run.parser = parser
       /\ run.payload = runs[o].payload /\ run.asked = runs[o].asked
       /\ run.end = end /\ run.written = counts.written
  BY DEF RunOf
<1> HIDE DEF run
<1>11. /\ runs' \in Seq(RunRow) /\ Len(runs') = now
       /\ DOMAIN runs = 1..(now - 1) /\ DOMAIN runs' = 1..now /\ now \in Nat \ {0}
       /\ runs'[now] = run
       /\ \A r \in DOMAIN runs' : /\ runs'[r].started = r
                                  /\ runs'[r].kind # "ingest" => runs'[r].of \in 1..(r - 1)
       /\ \A r \in DOMAIN runs : /\ runs'[r] = runs[r] /\ SaidBy(r)' = SaidBy(r)
                                 /\ CorrectedSince(r) => CorrectedSince(r)'
       /\ \A n : n = now => SaidBy(n)' = said
  BY <1>1, <1>9, <1>10, RunAdded DEF said
<1>12. \A q \in rows : q.run \in DOMAIN runs
  BY DEF IInv, TypeOK
<1>13. old = {q \in rows : q.run = o}
  BY DEF Held
<1>14. \A q \in rows' : q \in rows \/ q \in new
  BY <1>1
<1>15. TypeOK'
  <2>1. now' \in 1..(MaxRuns + 1) /\ parser' \in Version /\ Len(runs') = now' - 1
    BY <1>1, <1>2, <1>11, LedgerAssumption
  <2>2. \A q \in rows' : /\ q.pair \in Pair /\ q.at \in Nat /\ q.price \in Nat \ {0}
                         /\ q.run \in DOMAIN runs' /\ q.ingested \in 1..MaxRuns
    BY <1>2, <1>5, <1>11, <1>14 DEF IInv, TypeOK
  <2>3. \A poll \in polls' : poll.pair \in Pair /\ poll.at \in 1..MaxRuns /\ poll.outcome \in Outcome
    BY <1>1 DEF IInv, TypeOK
  <2> QED BY <2>1, <2>2, <2>3 DEF TypeOK
<1>16. RunsInv'
  <2>1. ASSUME NEW r \in DOMAIN runs', NEW q \in rows', q.run = r PROVE Fact(q) \in SaidBy(r)'
    <3>1. CASE q \in rows
      BY <1>11, <1>12, <2>1, <3>1 DEF IInv, RunsInv
    <3>2. CASE q \in new
      BY <1>5, <1>11, <2>1, <3>2
    <3> QED BY <1>14, <3>1, <3>2
  <2>2. \A poll \in polls' : poll.at \in DOMAIN runs'
    BY <1>1, <1>11 DEF IInv, RunsInv
  <2> QED BY <1>11, <2>1, <2>2 DEF RunsInv, Fact
<1>17. ASSUME runs[o].parser = parser
       PROVE  Facts(rows) \subseteq Facts(rows')
  <2>1. SaidBy(o) \subseteq said
    <3>1. o \in Nat /\ StartOf(o) \in Nat /\ StartOf(o) <= o
      BY <1>11 DEF StartOf, IInv, RunsInv
    <3> QED BY <1>3, <1>17, <3>1, SaidGrows DEF SaidBy, said
  <2>2. \A q \in old : Fact(q) \in said
    BY <1>13, <2>1 DEF IInv, RunsInv
  <2>3. \A q \in rows : Fact(q) \in Facts(rows \ old) \cup said
    BY <2>2 DEF Facts
  <2> QED BY <1>6, <2>3 DEF Facts
<1>18. \A f \in Facts(rows') : f \in Facts(rows) \/ f \in said
  <2> HIDE DEF old
  <2> QED BY <1>5, <1>14 DEF Facts
<1>19. SaidInv'
  <2> SUFFICES ASSUME NEW r \in DOMAIN runs',
                      runs'[r].kind = "ingest", runs'[r].stored, ~CorrectedSince(r)'
               PROVE  SaidBy(r)' \subseteq Facts(rows')
    BY DEF SaidInv, Facts, Fact
  <2>1. r \in DOMAIN runs
    BY <1>10, <1>11
  <2>2. SaidBy(r) \subseteq Facts(rows)
    BY <1>11, <2>1 DEF IInv, SaidInv
  <2>3. now \in DOMAIN runs' /\ now > r /\ runs'[now].kind = "replay"
        /\ runs'[now].of = o /\ runs'[now].parser = parser /\ runs'[o] = runs[o]
    BY <1>10, <1>11, <2>1
  <2>4. runs[o].parser = parser
    BY <2>3 DEF CorrectedSince
  <2> QED BY <1>11, <1>17, <2>1, <2>2, <2>4
<1>20. CountsAddUp'
  BY <1>10, <1>11, CountsKept
<1>21. WrittenCountHolds'
  <2> DEFINE held(r) == {q \in rows' : q.run = r}
  <2> SUFFICES ASSUME NEW r \in DOMAIN runs',
                      ~ \E s \in DOMAIN runs' : runs'[s].kind = "replay" /\ runs'[s].of = r
               PROVE  /\ runs'[r].end = "counted" => Cardinality(held(r)) = runs'[r].written
                      /\ runs'[r].kind = "ingest" => \A p \in Pair :
                           (\E q \in held(r) : q.pair = p)
                             <=> [pair |-> p, at |-> r, outcome |-> "written"] \in polls
    BY <1>1 DEF WrittenCountHolds, Held
  <2>1. CASE r = now
    <3>1. held(r) = new
      BY <1>1, <1>5, <1>11, <1>12, <2>1
    <3> QED BY <1>8, <1>10, <1>11, <2>1, <3>1
  <2>2. CASE r \in DOMAIN runs
    <3>1. ~ \E s \in DOMAIN runs : runs[s].kind = "replay" /\ runs[s].of = r
      BY <1>11
    <3>2. r # o
      BY <1>10, <1>11
    <3>3. held(r) = Held(r)
      BY <1>1, <1>5, <1>11, <1>13, <2>2, <3>2 DEF Held
    <3>4. /\ runs[r].end = "counted" => Cardinality(Held(r)) = runs[r].written
          /\ runs[r].kind = "ingest" => \A p \in Pair :
               (\E q \in Held(r) : q.pair = p)
                 <=> [pair |-> p, at |-> r, outcome |-> "written"] \in polls
      BY <2>2, <3>1 DEF IInv, WrittenCountHolds
    <3> HIDE DEF held
    <3> QED BY <1>11, <2>2, <3>3, <3>4
  <2> QED BY <1>11, <2>1, <2>2
<1> QED BY <1>15, <1>16, <1>17, <1>18, <1>19, <1>20, <1>21 DEF IInv, said

\* A replay that failed before its commit keeps the invariant and the ledger.
LEMMA FailStep ==
  ASSUME IInv, NEW o \in DOMAIN runs, Replay(o), MayTake("uncounted"), ReplayFails(o)
  PROVE  IInv' /\ rows' = rows
<1> DEFINE run == RunOf("failed", o, runs[o].payload, runs[o].asked, FALSE, "uncounted", NoCounts)
<1>1. /\ runs' = Append(runs, run) /\ rows' = rows /\ polls' = polls /\ parser' = parser
      /\ now' = now + 1 /\ now <= MaxRuns
  BY Zenon DEF Replay, ReplayFails, MayTake
<1>2. now \in 1..MaxRuns /\ parser \in Version
  BY <1>1 DEF IInv, TypeOK
<1>3. runs[o] \in RunRow
  <2>1. runs \in Seq(RunRow)
    BY DEF IInv, RunsInv
  <2> QED BY ONLY <2>1, o \in DOMAIN runs
<1>4. run \in RunRow
  BY <1>2, <1>3 DEF RunOf, RunRow, NoCounts, End, IInv, RunsInv
<1>5. run.kind = "failed" /\ run.started = now /\ run.of = o /\ run.end = "uncounted"
  BY DEF RunOf
<1> HIDE DEF run
<1>6. /\ runs' \in Seq(RunRow) /\ Len(runs') = now
      /\ DOMAIN runs = 1..(now - 1) /\ DOMAIN runs' = 1..now /\ now \in Nat \ {0}
      /\ runs'[now] = run
      /\ \A r \in DOMAIN runs' : /\ runs'[r].started = r
                                 /\ runs'[r].kind # "ingest" => runs'[r].of \in 1..(r - 1)
      /\ \A r \in DOMAIN runs : /\ runs'[r] = runs[r] /\ SaidBy(r)' = SaidBy(r)
                                /\ CorrectedSince(r) => CorrectedSince(r)'
  BY <1>1, <1>4, <1>5, RunAdded
<1>7. \A q \in rows : q.run \in DOMAIN runs
  BY DEF IInv, TypeOK
<1>8. TypeOK'
  BY <1>1, <1>2, <1>6, LedgerAssumption DEF IInv, TypeOK
<1>9. RunsInv'
  <2>1. \A r \in DOMAIN runs' : \A q \in rows' : q.run = r => Fact(q) \in SaidBy(r)'
    BY <1>1, <1>6, <1>7 DEF IInv, RunsInv
  <2>2. \A poll \in polls' : poll.at \in DOMAIN runs'
    BY <1>1, <1>6 DEF IInv, RunsInv
  <2> QED BY <1>6, <2>1, <2>2 DEF RunsInv, Fact
<1>10. SaidInv'
  <2> SUFFICES ASSUME NEW r \in DOMAIN runs',
                      runs'[r].kind = "ingest", runs'[r].stored, ~CorrectedSince(r)'
               PROVE  SaidBy(r)' \subseteq Facts(rows')
    BY DEF SaidInv, Facts, Fact
  <2>1. r \in DOMAIN runs
    BY <1>5, <1>6
  <2> QED BY <1>1, <1>6, <2>1 DEF IInv, SaidInv
<1>11. CountsAddUp'
  BY <1>5, <1>6, CountsKept
<1>12. WrittenCountHolds'
  <2> SUFFICES ASSUME NEW r \in DOMAIN runs',
                      ~ \E s \in DOMAIN runs' : runs'[s].kind = "replay" /\ runs'[s].of = r
               PROVE  /\ runs'[r].end = "counted" => Cardinality(Held(r)) = runs'[r].written
                      /\ runs'[r].kind = "ingest" => \A p \in Pair :
                           (\E q \in Held(r) : q.pair = p)
                             <=> [pair |-> p, at |-> r, outcome |-> "written"] \in polls
    BY <1>1 DEF WrittenCountHolds, Held
  <2>1. CASE r = now
    BY <1>5, <1>6, <2>1
  <2>2. CASE r \in DOMAIN runs
    <3>1. ~ \E s \in DOMAIN runs : runs[s].kind = "replay" /\ runs[s].of = r
      BY <1>6
    <3>2. /\ runs[r].end = "counted" => Cardinality(Held(r)) = runs[r].written
          /\ runs[r].kind = "ingest" => \A p \in Pair :
               (\E q \in Held(r) : q.pair = p)
                 <=> [pair |-> p, at |-> r, outcome |-> "written"] \in polls
      BY <2>2, <3>1 DEF IInv, WrittenCountHolds
    <3> QED BY <1>6, <2>2, <3>2
  <2> QED BY <1>6, <2>1, <2>2
<1> QED BY <1>1, <1>8, <1>9, <1>10, <1>11, <1>12 DEF IInv

\* A replay keeps the invariant, and one by the parser of the run it replays takes
\* no price out of the ledger.
LEMMA ReplayStep ==
  ASSUME IInv, NEW o \in DOMAIN runs, Replay(o)
  PROVE  /\ IInv'
         /\ runs[o].parser = parser => Facts(rows) \subseteq Facts(rows')
         /\ \A f \in Facts(rows') : f \in Facts(rows) \/ f \in Said(parser, runs[o].payload, runs[o].asked, o)
<1>1. CASE MayTake("uncounted") /\ ReplayFails(o)
  BY <1>1, FailStep
<1>2. ASSUME NEW end \in End, MayTake(end), ReplaySwaps(o, end)
      PROVE  /\ IInv'
             /\ runs[o].parser = parser => Facts(rows) \subseteq Facts(rows')
             /\ \A f \in Facts(rows') : f \in Facts(rows) \/ f \in Said(parser, runs[o].payload, runs[o].asked, o)
  BY <1>2, SwapStep
<1> QED BY <1>1, <1>2 DEF Replay

-----------------------------------------------------------------------------
(* The theorems.                                                            *)

LEMMA Initially == Init => IInv
<1> SUFFICES ASSUME Init PROVE IInv
  OBVIOUS
<1>1. runs \in Seq(RunRow) /\ Len(runs) = 0 /\ DOMAIN runs = {} /\ rows = {} /\ polls = {}
  BY DEF Init
<1> QED BY <1>1, LedgerAssumption
        DEF Init, IInv, TypeOK, RunsInv, SaidInv, CountsAddUp, WrittenCountHolds

LEMMA Inductive == IInv /\ [Next]_vars => IInv'
<1> SUFFICES ASSUME IInv, [Next]_vars PROVE IInv'
  OBVIOUS
<1>1. CASE Ingest
  <2>1. PICK payload \in Payloads, asked \in SUBSET Pair \ {{}}, stored \in BOOLEAN, end \in End :
          MayTake(end) /\ IngestBatch(payload, asked, stored, end)
    BY <1>1 DEF Ingest
  <2> QED BY <1>1, <2>1, BatchStep
<1>2. CASE Upgrade
  <2>1. /\ parser' \in Version /\ UNCHANGED <<now, runs, rows, polls>>
    BY <1>2 DEF Upgrade
  <2>2. TypeOK'
    BY <2>1 DEF IInv, TypeOK
  <2>3. \A r : SaidBy(r)' = SaidBy(r)
    BY <2>1 DEF SaidBy, StartOf
  <2>4. RunsInv'
    BY <2>1, <2>3 DEF IInv, RunsInv, Fact
  <2>5. SaidInv'
    BY <2>1, <2>3 DEF IInv, SaidInv, CorrectedSince, Facts, Fact
  <2>6. CountsAddUp' /\ WrittenCountHolds'
    BY <2>1 DEF IInv, CountsAddUp, WrittenCountHolds, Held, Accepted
  <2> QED BY <2>2, <2>4, <2>5, <2>6 DEF IInv
<1>3. CASE \E o \in DOMAIN runs : Replay(o)
  BY <1>3, ReplayStep
<1>4. CASE UNCHANGED vars
  <2>1. UNCHANGED <<now, parser, runs, rows, polls>>
    BY <1>4 DEF vars
  <2>2. \A r : SaidBy(r)' = SaidBy(r)
    BY <2>1 DEF SaidBy, StartOf
  <2>3. TypeOK' /\ WrittenCountHolds'
    BY <2>1 DEF IInv, TypeOK, WrittenCountHolds, Held
  <2>5. CountsAddUp'
    BY <2>1 DEF IInv, CountsAddUp, Accepted
  <2>4. RunsInv' /\ SaidInv'
    BY <2>1, <2>2 DEF IInv, RunsInv, SaidInv, CorrectedSince, Facts, Fact
  <2> QED BY <2>3, <2>4, <2>5 DEF IInv
<1> QED BY <1>1, <1>2, <1>3, <1>4 DEF Next

\* The invariant holds of every state the specification reaches.
LEMMA Invariant == Spec => []IInv
BY Initially, Inductive, PTL DEF Spec

\* Every variable stays in its type: no row without a pair, an instant or a
\* price ever enters market_observations.
THEOREM Types == Spec => []TypeOK
<1>1. IInv => TypeOK
  BY DEF IInv
<1> QED BY <1>1, Invariant, PTL

\* Everything an ingest run saw was written, unchanged or rejected, but for the
\* quotes it had accepted when write_polls reported an error.
THEOREM CountsTheorem == Spec => []CountsAddUp
<1>1. IInv => CountsAddUp
  BY DEF IInv
<1> QED BY <1>1, Invariant, PTL

\* The rows filed under a run that was not replayed are those it polled as written,
\* and number what it wrote if it was counted.
THEOREM WrittenTheorem == Spec => []WrittenCountHolds
<1>1. IInv => WrittenCountHolds
  BY DEF IInv
<1> QED BY <1>1, Invariant, PTL

\* A replay under the parser of the run reproduces the ledger's prices.
THEOREM ReproducesTheorem == Spec => ReplayReproduces
<1> DEFINE A == last'.act = "replay" =>
                  LET o == last'.run IN
                  runs[o].kind = "ingest" /\ runs[o].stored /\ runs[o].parser = parser
                    /\ ~CorrectedSince(o)
                    => Facts(rows') = Facts(rows)
<1>1. IInv /\ [Next]_vars => [A]_vars
  <2> SUFFICES ASSUME IInv, Next PROVE A
    OBVIOUS
  <2>1. CASE Ingest \/ Upgrade
    BY <2>1 DEF Ingest, Upgrade
  <2>2. ASSUME NEW o \in DOMAIN runs, Replay(o) PROVE A
    <3>1. last'.run = o
      BY <2>2 DEF Replay
    <3> SUFFICES ASSUME runs[o].kind = "ingest", runs[o].stored, runs[o].parser = parser,
                        ~CorrectedSince(o)
                 PROVE  Facts(rows') = Facts(rows)
      BY <3>1
    <3>2. SaidBy(o) \subseteq Facts(rows)
      BY DEF IInv, SaidInv
    <3>3. SaidBy(o) = Said(parser, runs[o].payload, runs[o].asked, o)
      BY DEF SaidBy, StartOf
    <3>4. /\ Facts(rows) \subseteq Facts(rows')
          /\ \A f \in Facts(rows') :
               f \in Facts(rows) \/ f \in Said(parser, runs[o].payload, runs[o].asked, o)
      BY <2>2, ReplayStep
    <3> QED BY <3>2, <3>3, <3>4
  <2> QED BY <2>1, <2>2 DEF Next
<1> QED BY <1>1, Invariant, PTL DEF Spec, ReplayReproduces

=============================================================================

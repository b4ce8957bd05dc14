--------------------------- MODULE BarFeed_proofs ---------------------------
(***************************************************************************)
(* Proofs about BarFeed, for any number of minutes, any length of a halt   *)
(* and of the primary bar, any trading and any number of exceptions.       *)
(***************************************************************************)
EXTENDS BarFeed, FiniteSetTheorems, SequenceTheorems, WellFoundedInduction, TLAPS

-----------------------------------------------------------------------------
(* Queues *)

\* A queue has its bars, and a bar added to it.
LEMMA AppendRange ==
  ASSUME NEW S, NEW q \in Seq(S), NEW b \in S
  PROVE  Append(q, b) \in Seq(S) /\ Range(Append(q, b)) = Range(q) \cup {b}
<1>1. Append(q, b) \in Seq(S) /\ Append(q, b) = q \o <<b>>
  OBVIOUS
<1>2. <<b>> \in Seq(S) /\ Range(<<b>>) = {b}
  BY DEF Range
<1> QED
  BY <1>1, <1>2, RangeConcatenation DEF Range

\* A queue is its head and the rest.
LEMMA PopRange ==
  ASSUME NEW S, NEW q \in Seq(S), q # <<>>
  PROVE  /\ Head(q) \in S /\ Tail(q) \in Seq(S)
         /\ Range(q) = {Head(q)} \cup Range(Tail(q))
<1>1. Head(q) \in S /\ Tail(q) \in Seq(S) /\ Head(q) = q[1] /\ Len(q) \in Nat \ {0}
  OBVIOUS
<1>2. Len(Tail(q)) = Len(q) - 1 /\ \A i \in 1..Len(Tail(q)) : Tail(q)[i] = q[i + 1]
  BY <1>1
<1>3. DOMAIN q = 1..Len(q) /\ DOMAIN Tail(q) = 1..(Len(q) - 1)
  BY <1>1, <1>2
<1>4. ASSUME NEW i \in 1..Len(q)  PROVE q[i] \in {Head(q)} \cup Range(Tail(q))
  <2>1. CASE i = 1
    BY <2>1, <1>1
  <2>2. CASE i # 1
    <3>1. i - 1 \in 1..(Len(q) - 1) /\ Tail(q)[i - 1] = q[i]
      BY <2>2, <1>1, <1>2
    <3> QED
      BY <3>1, <1>3 DEF Range
  <2> QED
    BY <2>1, <2>2
<1>5. ASSUME NEW i \in 1..(Len(q) - 1)  PROVE Tail(q)[i] \in Range(q)
  <2>1. i + 1 \in 1..Len(q) /\ Tail(q)[i] = q[i + 1]
    BY <1>1, <1>2
  <2> QED
    BY <2>1, <1>3 DEF Range
<1>6. Head(q) \in Range(q)
  BY <1>1, <1>3 DEF Range
<1> QED
  BY <1>1, <1>3, <1>4, <1>5, <1>6 DEF Range

\* The bar in hand.
LEMMA InHandBar ==
  ASSUME TypeOK, batch # <<>>
  PROVE  /\ Head(batch) \in Bar /\ Minute \in Minutes /\ Tail(batch) \in Seq(Bar)
         /\ Range(batch) = {Head(batch)} \cup Range(Tail(batch))
<1>1. batch \in Seq(Bar)
  BY DEF TypeOK
<1>2. Head(batch) \in Bar /\ Tail(batch) \in Seq(Bar)
  BY <1>1
<1>3. Range(batch) = {Head(batch)} \cup Range(Tail(batch))
  BY <1>1, PopRange
<1> QED
  BY <1>2, <1>3 DEF Minute, Bar

\* Sorting a queue loses no bar and makes none up.
LEMMA InOrderRange ==
  ASSUME NEW S, NEW q \in Seq(S), NEW b \in InOrder(q)
  PROVE  b \in Seq(S) /\ Range(b) = Range(q)
<1>1. PICK p \in Bijection(1..Len(q), 1..Len(q)) : b = [i \in 1..Len(q) |-> q[p[i]]]
  BY DEF InOrder
<1>2. p \in [1..Len(q) -> 1..Len(q)] /\ \A v \in 1..Len(q) : \E w \in 1..Len(q) : p[w] = v
  BY <1>1 DEF Bijection, Surjection
<1>3. Len(q) \in Nat /\ DOMAIN q = 1..Len(q) /\ \A i \in 1..Len(q) : q[i] \in S
  OBVIOUS
<1>4. b \in Seq(S)
  BY <1>1, <1>2, <1>3, IsASeq
<1>5. ASSUME NEW x \in Range(b)  PROVE x \in Range(q)
  BY <1>1, <1>2, <1>3 DEF Range
<1>6. ASSUME NEW x \in Range(q)  PROVE x \in Range(b)
  <2>1. PICK v \in 1..Len(q) : x = q[v]
    BY <1>3 DEF Range
  <2>2. PICK w \in 1..Len(q) : p[w] = v
    BY <1>2
  <2> QED
    BY <1>1, <2>1, <2>2 DEF Range
<1> QED
  BY <1>4, <1>5, <1>6

\* The flat bars a repair hands over are of the minutes it found.
LEMMA QuietBarsRange ==
  ASSUME flats \in SUBSET Minutes, NEW q \in QuietBars
  PROVE  q \in Seq(Bar) /\ \A b \in Range(q) : b.source = "quiet" /\ b.start \in flats
<1>1. IsFiniteSet(flats)
  <2>1. IsFiniteSet(0..MaxMinute)
    BY FS_Interval, MinutesAssumption
  <2> QED
    BY <2>1, FS_Subset DEF Minutes
<1>2. Cardinality(flats) \in Nat
  BY <1>1, FS_CardinalityType
<1>3. PICK ms \in SetToSeqs(flats) : q = [i \in 1..Len(ms) |-> QuietBar(ms[i])]
  BY DEF QuietBars
<1>4. ms \in [1..Cardinality(flats) -> flats]
  BY DEF SetToSeqs
<1>5. ms \in Seq(flats)
  BY <1>2, <1>4, IsASeq
<1>6. \A i \in 1..Len(ms) : QuietBar(ms[i]) \in Bar /\ ms[i] \in flats
  BY <1>5 DEF QuietBar, Bar, Sources
<1>7. q \in Seq(Bar)
  BY <1>3, <1>5, <1>6, IsASeq
<1>8. \A b \in Range(q) : b.source = "quiet" /\ b.start \in flats
  BY <1>3, <1>6 DEF Range, QuietBar
<1> QED
  BY <1>7, <1>8

-----------------------------------------------------------------------------
(* The newest minute held *)

\* A set of minutes has a greatest one.
LEMMA MaxProps ==
  ASSUME NEW N \in Nat, NEW S \in SUBSET (0..N), S # {}
  PROVE  Max(S) \in S /\ \A m \in S : m <= Max(S)
<1> DEFINE T == {N - m : m \in S}
           R == OpToRel(<, Nat)
<1>1. T \subseteq Nat /\ T # {}
  <2>1. \A m \in S : m \in 0..N /\ N - m \in Nat
    <3> HIDE DEF R
    <3> QED
      OBVIOUS
  <2>2. PICK m \in S : TRUE
    OBVIOUS
  <2>3. N - m \in T
    OBVIOUS
  <2> QED
    BY <2>1, <2>3
<1>2. \A x, y \in Nat : <<y, x>> \in R <=> y < x
  BY DEF OpToRel
<1>3. PICK t \in T : \A u \in T : ~(<<u, t>> \in R)
  <2> HIDE DEF T, R
  <2>1. IsWellFoundedOn(R, Nat)
    BY NatLessThanWellFounded DEF R
  <2> QED
    BY <1>1, <2>1, WFMin
<1>4. PICK x \in S : t = N - x
  OBVIOUS
<1>5. \A m \in S : m <= x
  <2> TAKE m \in S
  <2>1. N - m \in T
    OBVIOUS
  <2>2. ~(N - m < t)
    BY <1>1, <1>2, <1>3, <2>1
  <2> QED
    BY <1>4, <2>2
<1> QED
  BY <1>5 DEF Max

\* _last_closed_start is the start of a held bar, and no held bar is newer.
LastIsNewest ==
  /\ bars[lastClosed] # "none"
  /\ \A m \in Minutes : bars[m] # "none" => m <= lastClosed

LEMMA GreatestIsMax ==
  ASSUME NEW S \in SUBSET Minutes, NEW x \in S, \A m \in S : m <= x
  PROVE  Max(S) = x
<1>1. S \in SUBSET (0..MaxMinute)
  BY DEF Minutes
<1>2. Max(S) \in S /\ x <= Max(S)
  BY <1>1, MaxProps, MinutesAssumption
<1>3. Max(S) <= x
  BY <1>2
<1>4. \A a, b \in 0..MaxMinute : a <= b /\ b <= a => a = b
  BY MinutesAssumption
<1>5. x \in 0..MaxMinute /\ Max(S) \in 0..MaxMinute
  BY <1>1, <1>2
<1> QED
  BY <1>2, <1>3, <1>4, <1>5

LEMMA NewestIsLast ==
  ASSUME TypeOK, LastIsNewest
  PROVE  Newest = lastClosed
<1>1. HeldMinutes \in SUBSET Minutes /\ lastClosed \in HeldMinutes
  BY DEF TypeOK, LastIsNewest, HeldMinutes
<1>2. \A m \in HeldMinutes : m <= lastClosed
  BY DEF HeldMinutes, LastIsNewest
<1> QED
  BY <1>1, <1>2, GreatestIsMax DEF Newest

-----------------------------------------------------------------------------
(* The inductive invariant of the feed *)

\* What comes after a noted hole is held or being assembled.
GapsBehind ==
  \A g \in seenGaps : g[2] <= lastClosed \/ (forming # None /\ g[2] <= forming)

InSeenGap(m) == \E g \in seenGaps : m \in MinutesOf(g)

\* A flat bar on its way is of a minute in a noted hole.
QuietInGaps ==
  /\ \A m \in flats : InSeenGap(m)
  /\ \A b \in Range(pending) \cup Range(batch) : b.source = "quiet" => InSeenGap(b.start)

\* REST is asked about a noted hole.
HoleInHand == loop \in {"rest", "splice"} => hole \in seenGaps

\* The handler has its bar in hand; a pass has none.
BatchInHand ==
  /\ loop \in {"saving", "decide", "replaced", "evaluate", "acting"} => batch # <<>>
  /\ loop \in {"repair", "rest", "splice"} => (batch = <<>> <=> caller = "pass")
  /\ loop = "others" => batch = <<>>

FeedInv ==
  /\ TypeOK /\ BatchInHand /\ LastIsNewest
  /\ FormingIsNewer /\ HoleIsNoted /\ GapsBehind
  /\ QuietInGaps /\ HoleInHand

LEMMA FeedInit == Init => FeedInv
<1> SUFFICES ASSUME Init PROVE FeedInv
  OBVIOUS
<1> USE MinutesAssumption, RunAssumption, RaisesAssumption
<1>1. 0 \in Minutes /\ 1 \in Minutes
  BY DEF Minutes
<1>2. observed \in Seq([start : Minutes, flat : BOOLEAN])
  <2>1. PICK run \in {0, MinRun} : observed = [i \in 1..run |-> [start |-> 0, flat |-> TRUE]]
    BY DEF Init
  <2> QED
    BY <1>1, <2>1, IsASeq
<1>3. halt \in HaltState
  BY DEF Init, Primed, HaltState
<1>4. TypeOK
  BY <1>1, <1>2, <1>3 DEF Init, TypeOK, Sources, Places, Gap, Minutes
<1>5. LastIsNewest /\ FormingIsNewer
  BY <1>1, <1>4, NewestIsLast DEF Init, LastIsNewest, FormingIsNewer
<1>6. HoleIsNoted
  BY <1>4, <1>5, NewestIsLast DEF Init, HoleIsNoted, Minutes
<1>7. GapsBehind /\ QuietInGaps /\ HoleInHand /\ BatchInHand
  BY DEF Init, GapsBehind, QuietInGaps, HoleInHand, BatchInHand, Range
<1> QED
  BY <1>4, <1>5, <1>6, <1>7 DEF FeedInv

\* What the invariant says of the builder, and what of the bars on their way.
BuilderInv == LastIsNewest /\ FormingIsNewer /\ HoleIsNoted /\ GapsBehind

LEMMA BuilderStays ==
  ASSUME BuilderInv, UNCHANGED <<forming, lastClosed, seenGaps>>,
         \A m \in Minutes : bars'[m] = "none" <=> bars[m] = "none",
         lastClosed \in Minutes
  PROVE  BuilderInv'
<1>1. HeldMinutes' = HeldMinutes
  BY DEF HeldMinutes
<1> QED
  BY <1>1 DEF BuilderInv, LastIsNewest, FormingIsNewer, HoleIsNoted, GapsBehind, Newest, HeldMinutes

\* Bars leave the queues; their holes stay noted.
LEMMA QuietStays ==
  ASSUME QuietInGaps, seenGaps \subseteq seenGaps', flats' \subseteq flats,
         Range(pending') \cup Range(batch') \subseteq Range(pending) \cup Range(batch)
  PROVE  QuietInGaps'
BY DEF QuietInGaps, InSeenGap

\* The steps of the loop that leave the queues and the builder alone.
Aside ==
  \/ NextMinute \/ AskRest \/ RestFails \/ BarSaved \/ Reconciled

LEMMA AsideKeeps ==
  ASSUME FeedInv, Aside
  PROVE  FeedInv'
<1> USE RunAssumption
<1>1. UNCHANGED <<bars, forming, lastClosed, seenGaps, pending, batch>> /\ flats' \subseteq flats
  BY DEF Aside, NextMinute, AskRest, RestFails, BarSaved, Reconciled, builder, repair
<1>2. BuilderInv'
  BY <1>1, BuilderStays DEF FeedInv, BuilderInv, TypeOK
<1>3. QuietInGaps'
  BY <1>1, QuietStays DEF FeedInv
<1>4. TypeOK' /\ HoleInHand' /\ BatchInHand'
  <2> USE DEF FeedInv, TypeOK, HoleInHand, BatchInHand, builder, repair, history, market, Places
  <2>1. CASE NextMinute
    BY <2>1, MinutesAssumption DEF NextMinute
  <2>2. CASE AskRest
    BY <2>2 DEF AskRest
  <2>3. CASE RestFails
    BY <2>3 DEF RestFails
  <2>4. CASE BarSaved
    BY <2>4 DEF BarSaved
  <2>5. CASE Reconciled
    <3>1. batch # <<>> /\ batch \in Seq(Bar)
      BY <2>5 DEF Reconciled, At
    <3>2. Minute \in Minutes
      BY <3>1, InHandBar
    <3> QED
      BY <2>5, <3>2 DEF Reconciled, At
  <2> QED
    BY <2>1, <2>2, <2>3, <2>4, <2>5 DEF Aside
<1> QED
  BY <1>2, <1>3, <1>4 DEF FeedInv, BuilderInv

\* What an evaluation looks up and what it records.
LEMMA KeyOfMinute ==
  ASSUME TypeOK, NEW m \in Minutes
  PROVE  Key(m) \in Minutes \X Directions /\ Key(m) = <<m, Verdict(HistoryTo(m))>>
<1>1. 0..m \subseteq Minutes
  BY MinutesAssumption DEF Minutes
<1>2. HistoryTo(m) \in HistoriesTo(m)
  BY <1>1 DEF TypeOK, HistoryTo, HistoriesTo, Sources
<1>3. Verdict(HistoryTo(m)) \in Directions
  BY <1>2, VerdictAssumption
<1> QED
  BY <1>3 DEF Key

LEMMA DecisionOfMinute ==
  ASSUME TypeOK, NEW m \in Minutes
  PROVE  /\ DecisionAt(m) \in Decision
         /\ DecisionAt(m).at = m /\ DecisionAt(m).dir = Verdict(HistoryTo(m))
         /\ DecisionAt(m).shown = Len(observed)
         /\ DecisionAt(m).live <=> halt.state = "LIVE"
         /\ DecisionAt(m).settled <=> Settled(m)
<1>1. Key(m)[2] \in Directions /\ Key(m)[2] = Verdict(HistoryTo(m))
  BY KeyOfMinute
<1>2. Len(observed) \in Nat /\ (halt.state = "LIVE") \in BOOLEAN /\ Settled(m) \in BOOLEAN
  BY DEF TypeOK, Settled
<1> QED
  BY <1>1, <1>2 DEF DecisionAt, Decision

\* The handler is done with its bar, or goes on to act on its decision.
Ends == NotABoundary \/ Incomplete \/ Evaluate \/ Acted

LEMMA EndsKeep ==
  ASSUME FeedInv, Ends
  PROVE  FeedInv'
<1>1. /\ UNCHANGED <<bars, forming, lastClosed, gaps, seenGaps, pending, flats>>
      /\ UNCHANGED <<market, repair, reconciled, halt, closed, observed, raises, lost>>
  BY DEF Ends, NotABoundary, Incomplete, Evaluate, Acted, builder, repair
<1>2. batch # <<>> /\ loop \notin {"rest", "splice"}
  BY DEF Ends, NotABoundary, Incomplete, Evaluate, Acted, FeedInv, BatchInHand, At
<1>3. /\ Head(batch) \in Bar /\ Minute \in Minutes /\ Tail(batch) \in Seq(Bar)
      /\ Range(batch) = {Head(batch)} \cup Range(Tail(batch))
  BY <1>2, InHandBar DEF FeedInv
<1>4. batch' = batch \/ batch' = Tail(batch)
  BY DEF Ends, NotABoundary, Incomplete, Evaluate, Acted, Pop
<1>5. loop' = "handle" \/ (loop' = "acting" /\ batch' = batch)
  BY DEF Ends, NotABoundary, Incomplete, Evaluate, Acted, Pop
<1>6. BuilderInv'
  BY <1>1, BuilderStays DEF FeedInv, BuilderInv, TypeOK
<1>7. QuietInGaps'
  BY <1>1, <1>3, <1>4, QuietStays DEF FeedInv
<1>8. HoleInHand' /\ BatchInHand'
  BY <1>2, <1>5 DEF HoleInHand, BatchInHand
<1>9. handled' \subseteq Minutes /\ signals' \subseteq Minutes \X Directions
  <2>1. handled' \subseteq Minutes
    BY <1>3 DEF Ends, NotABoundary, Incomplete, Evaluate, Acted, Pop, FeedInv, TypeOK
  <2>2. signals' = signals \/ signals' = signals \cup {Key(Minute)}
    BY DEF Ends, NotABoundary, Incomplete, Evaluate, Acted
  <2>3. Key(Minute) \in Minutes \X Directions
    BY <1>3, KeyOfMinute DEF FeedInv
  <2> QED
    BY <2>1, <2>2, <2>3 DEF FeedInv, TypeOK
<1>10. decisions' \in Seq(Decision)
  <2>1. decisions \in Seq(Decision)
    BY DEF FeedInv, TypeOK
  <2>2. DecisionAt(Minute) \in Decision
    BY <1>3, DecisionOfMinute DEF FeedInv
  <2>3. decisions' = decisions \/ decisions' = Append(decisions, DecisionAt(Minute))
    BY DEF Ends, NotABoundary, Incomplete, Evaluate, Acted
  <2> QED
    BY <2>1, <2>2, <2>3, AppendRange
<1>11. TypeOK'
  BY <1>1, <1>3, <1>4, <1>5, <1>9, <1>10
  DEF FeedInv, TypeOK, market, repair, Places
<1> QED
  BY <1>6, <1>7, <1>8, <1>11 DEF FeedInv, BuilderInv

\* A repair or a pass hands its flat bars to the queues, which are otherwise
\* put together anew from what they held.
Queues == RepairDone \/ TakeBatch \/ Raise

LEMMA QueuesKeep ==
  ASSUME FeedInv, Queues
  PROVE  FeedInv'
<1>1. /\ UNCHANGED <<bars, forming, lastClosed, gaps, seenGaps>>
      /\ UNCHANGED <<market, hole, asked, caller, reconciled, halt, signals, decisions,
                     observed, closed, handled>>
  BY DEF Queues, RepairDone, TakeBatch, Raise, builder, repair, history
<1>2. /\ flats' \subseteq flats /\ todo' \subseteq todo /\ answer' \subseteq answer
      /\ raises' \in 0..MaxRaises /\ lost' \subseteq lost \cup flats
      /\ loop' \in {"others", "decide", "handle"}
  BY RaisesAssumption
  DEF Queues, RepairDone, TakeBatch, Raise, history, FeedInv, TypeOK
<1>3. flats \in SUBSET Minutes /\ pending \in Seq(Bar) /\ batch \in Seq(Bar)
  BY DEF FeedInv, TypeOK
<1>4. /\ pending' \in Seq(Bar) /\ batch' \in Seq(Bar)
      /\ \A b \in Range(pending') \cup Range(batch') :
           \/ b \in Range(pending) \cup Range(batch)
           \/ b.start \in flats
  <2>1. CASE RepairDone /\ caller = "pass"
    BY <2>1, <1>3 DEF RepairDone
  <2>2. CASE RepairDone /\ caller # "pass"
    <3>1. PICK quiet \in QuietBars : pending' = pending \o quiet
      BY <2>2 DEF RepairDone
    <3>2. quiet \in Seq(Bar) /\ \A b \in Range(quiet) : b.start \in flats
      BY <1>3, QuietBarsRange
    <3>3. pending' \in Seq(Bar) /\ Range(pending') = Range(pending) \cup Range(quiet)
      BY <1>3, <3>1, <3>2, RangeConcatenation
    <3> QED
      BY <1>3, <2>2, <3>2, <3>3 DEF RepairDone
  <2>3. CASE TakeBatch
    <3>1. PICK quiet \in QuietBars : batch' \in InOrder(pending \o quiet)
      BY <2>3 DEF TakeBatch
    <3>2. quiet \in Seq(Bar) /\ \A b \in Range(quiet) : b.start \in flats
      BY <1>3, QuietBarsRange
    <3>3. pending \o quiet \in Seq(Bar) /\ Range(pending \o quiet) = Range(pending) \cup Range(quiet)
      BY <1>3, <3>2, RangeConcatenation
    <3>4. batch' \in Seq(Bar) /\ Range(batch') = Range(pending) \cup Range(quiet)
      BY <3>1, <3>3, InOrderRange
    <3>5. pending' \in Seq(Bar) /\ Range(pending') = {}
      BY <2>3 DEF TakeBatch, Range
    <3> QED
      BY <3>2, <3>4, <3>5
  <2>4. CASE Raise
    <3>1. pending' = batch \o pending /\ batch' = <<>>
      BY <2>4 DEF Raise, PutBack
    <3>2. pending' \in Seq(Bar) /\ Range(pending') = Range(batch) \cup Range(pending)
      BY <1>3, <3>1, RangeConcatenation
    <3>3. batch' \in Seq(Bar) /\ Range(batch') = {}
      BY <3>1 DEF Range
    <3> QED
      BY <3>2, <3>3
  <2> QED
    BY <2>1, <2>2, <2>3, <2>4 DEF Queues
<1>5. QuietInGaps'
  BY <1>1, <1>2, <1>4 DEF FeedInv, QuietInGaps, InSeenGap
<1>6. BuilderInv'
  BY <1>1, BuilderStays DEF FeedInv, BuilderInv, TypeOK
<1>7. HoleInHand'
  BY <1>2 DEF HoleInHand
<1>8. BatchInHand'
  BY DEF Queues, RepairDone, TakeBatch, Raise, FeedInv, BatchInHand
<1>9. TypeOK'
  BY <1>1, <1>2, <1>4 DEF FeedInv, TypeOK, market, Places
<1> QED
  BY <1>5, <1>6, <1>7, <1>8, <1>9 DEF FeedInv, BuilderInv

\* A hole between two minutes that are not neighbours is noted, if it was not.
LEMMA NotedHoles ==
  ASSUME NEW a \in Minutes, NEW b \in Minutes
  PROVE  /\ Noted(a, b) \subseteq Gap
         /\ \A g \in Noted(a, b) : g[2] = b
         /\ \A m \in Minutes : a < m /\ m < b =>
              \E g \in seenGaps \cup Noted(a, b) : m \in MinutesOf(g)
<1>1. Minutes \subseteq Nat /\ a + 1 \in Nat /\ (a + 1 < b => a + 1 \in Minutes)
  BY MinutesAssumption DEF Minutes
<1>2. CASE a + 1 < b
  <2>1. <<a + 1, b>> \in Gap
    BY <1>1, <1>2 DEF Gap
  <2>2. \A m \in Minutes : a < m /\ m < b => m \in MinutesOf(<<a + 1, b>>)
    BY <1>1 DEF MinutesOf
  <2>3. <<a + 1, b>> \in seenGaps \cup Noted(a, b) /\ Noted(a, b) \subseteq {<<a + 1, b>>}
    BY <1>2 DEF Noted
  <2> QED
    BY <2>1, <2>2, <2>3
<1>3. CASE ~(a + 1 < b)
  <2>1. Noted(a, b) = {}
    BY <1>3 DEF Noted
  <2>2. \A m \in Minutes : ~(a < m /\ m < b)
    BY <1>1, <1>3
  <2> QED
    BY <2>1, <2>2
<1> QED
  BY <1>2, <1>3

\* The minute being assembled closes: it is never older than what is held.
LEMMA Closing ==
  ASSUME FeedInv, forming # None, CloseForming
  PROVE  /\ forming \in Minutes /\ lastClosed < forming /\ bars[forming] = "none"
         /\ bars' = [bars EXCEPT ![forming] = "ws"] /\ lastClosed' = forming
         /\ pending' = Append(pending, [start |-> forming, source |-> "ws"])
         /\ closed' = closed \cup {forming}
         /\ GapsOfClose = Noted(lastClosed, forming)
         /\ ~(forming <= Newest)
<1>1. forming \in Minutes /\ lastClosed \in Minutes /\ forming > lastClosed
  BY DEF FeedInv, TypeOK, FormingIsNewer
<1>2. Newest = lastClosed
  BY NewestIsLast DEF FeedInv
<1>3. ~(forming <= Newest)
  BY <1>1, <1>2 DEF Minutes
<1>4. bars[forming] = "none"
  BY <1>1 DEF FeedInv, LastIsNewest, Minutes
<1> QED
  BY <1>1, <1>2, <1>3, <1>4 DEF CloseForming, GapsOfClose

\* Minutes of noted holes are filled.
LEMMA Filling ==
  ASSUME FeedInv, NEW F \in SUBSET Minutes, \A m \in F : InSeenGap(m),
         bars' \in [Minutes -> Sources \cup {"none"}],
         \A m \in Minutes : bars'[m] # "none" <=> bars[m] # "none" \/ m \in F,
         lastClosed' = Max({lastClosed} \cup F), UNCHANGED <<forming, seenGaps>>,
         TypeOK'
  PROVE  BuilderInv'
<1>1. lastClosed \in Minutes /\ seenGaps \subseteq Gap /\ Minutes \subseteq Nat
  BY MinutesAssumption DEF FeedInv, TypeOK, Minutes
<1>2. lastClosed' \in {lastClosed} \cup F /\ \A m \in {lastClosed} \cup F : m <= lastClosed'
  <2>1. {lastClosed} \cup F \in SUBSET (0..MaxMinute) /\ {lastClosed} \cup F # {}
    BY <1>1 DEF Minutes
  <2> HIDE DEF Max
  <2> QED
    BY <2>1, MaxProps, MinutesAssumption
<1>3. lastClosed' \in Minutes /\ lastClosed <= lastClosed'
  BY <1>1, <1>2
<1>4. \A m \in F : m <= lastClosed \/ (forming # None /\ m < forming)
  <2> TAKE m \in F
  <2>1. PICK g \in seenGaps : m \in MinutesOf(g)
    BY DEF InSeenGap
  <2>2. g \in Gap /\ m < g[2]
    BY <1>1, <2>1 DEF MinutesOf, Gap, Minutes
  <2>3. g[2] <= lastClosed \/ (forming # None /\ g[2] <= forming)
    BY DEF FeedInv, GapsBehind
  <2>4. g[2] \in Nat /\ (forming # None => forming \in Nat) /\ m \in Nat
    BY <1>1, <2>2 DEF Gap, FeedInv, TypeOK
  <2> QED
    BY <1>1, <2>2, <2>3, <2>4
<1>5. LastIsNewest'
  BY <1>1, <1>2, <1>3 DEF FeedInv, LastIsNewest
<1>6. Newest' = lastClosed'
  <2>1. HeldMinutes' \in SUBSET Minutes /\ lastClosed' \in HeldMinutes'
    BY <1>3, <1>5 DEF LastIsNewest, HeldMinutes
  <2>2. \A m \in HeldMinutes' : m <= lastClosed'
    BY <1>5 DEF LastIsNewest, HeldMinutes
  <2> QED
    BY <2>1, <2>2, GreatestIsMax DEF Newest
<1>7. FormingIsNewer'
  <2>1. CASE forming # None
    <3>1. forming \in Minutes /\ lastClosed < forming
      BY <2>1 DEF FeedInv, TypeOK, FormingIsNewer
    <3>2. lastClosed' < forming
      BY <1>1, <1>2, <1>4, <3>1
    <3> QED
      BY <1>6, <3>2, <1>3, <3>1, <1>1 DEF FormingIsNewer
  <2>2. CASE forming = None
    BY <2>2 DEF FormingIsNewer
  <2> QED
    BY <2>1, <2>2
<1>8. HoleIsNoted'
  <2> SUFFICES ASSUME NEW m \in Minutes, bars'[m] = "none",
                      m < lastClosed' \/ (forming # None /\ m < forming)
               PROVE  InSeenGap(m)
    BY <1>6 DEF HoleIsNoted, InSeenGap
  <2>1. bars[m] = "none"
    OBVIOUS
  <2>2. m < lastClosed \/ (forming # None /\ m < forming)
    <3>1. CASE lastClosed' \in F /\ ~(lastClosed' <= lastClosed)
      <4>1. forming # None /\ lastClosed' < forming /\ forming \in Minutes
        BY <1>4, <3>1 DEF FeedInv, TypeOK
      <4> QED
        BY <4>1, <1>1, <1>3
    <3>2. CASE lastClosed' <= lastClosed
      BY <3>2, <1>1, <1>3
    <3> QED
      BY <3>1, <3>2, <1>2, <1>1
  <2>3. Newest = lastClosed
    BY NewestIsLast DEF FeedInv
  <2> QED
    BY <2>1, <2>2, <2>3 DEF FeedInv, HoleIsNoted, InSeenGap
<1>9. GapsBehind'
  <2> SUFFICES ASSUME NEW g \in seenGaps
               PROVE  g[2] <= lastClosed' \/ (forming # None /\ g[2] <= forming)
    BY DEF GapsBehind
  <2>1. g[2] \in Minutes
    BY <1>1 DEF Gap
  <2>2. g[2] <= lastClosed \/ (forming # None /\ g[2] <= forming)
    BY DEF FeedInv, GapsBehind
  <2>3. g[2] <= lastClosed => g[2] <= lastClosed'
    <3>1. \A a, b, c \in Nat : a <= b /\ b <= c => a <= c
      OBVIOUS
    <3> QED
      BY <1>1, <1>3, <2>1, <3>1
  <2> QED
    BY <2>2, <2>3
<1> QED
  BY <1>5, <1>7, <1>8, <1>9 DEF BuilderInv

\* REST's traded bars fill the hole they were asked for.
LEMMA RestAnswersKeeps ==
  ASSUME FeedInv, RestAnswers
  PROVE  FeedInv'
<1>1. /\ UNCHANGED <<market, forming, seenGaps, pending, batch, caller, todo, hole, asked,
                     reconciled, halt, signals, history>>
      /\ loop = "rest" /\ hole \in seenGaps
  BY DEF RestAnswers, FeedInv, HoleInHand
<1>2. hole \in Gap /\ MinutesOf(hole) \subseteq Minutes
  <2>1. hole \in Gap
    BY DEF FeedInv, TypeOK
  <2> QED
    BY <2>1, MinutesAssumption DEF Gap, MinutesOf, Minutes
<1>3. PICK absent \in SUBSET MinutesOf(hole) :
        \/ /\ Spliced(hole, absent) = {}
           /\ Settle(absent)
           /\ UNCHANGED <<bars, lastClosed, answer>>
        \/ /\ Splice(Spliced(hole, absent))
           /\ answer' = absent /\ loop' = "splice"
           /\ UNCHANGED <<gaps, flats>>
  BY DEF RestAnswers
<1>4. CASE Settle(absent) /\ UNCHANGED <<bars, lastClosed, answer>>
  <2>1. gaps' \subseteq gaps /\ flats' \subseteq flats \cup MinutesOf(hole) /\ loop' = "repair"
    BY <1>4 DEF Settle, Fillers
  <2>2. BuilderInv'
    BY <1>1, <1>4, BuilderStays DEF FeedInv, BuilderInv, TypeOK
  <2>3. QuietInGaps'
    BY <1>1, <2>1 DEF FeedInv, QuietInGaps, InSeenGap
  <2>4. HoleInHand' /\ BatchInHand'
    BY <1>1, <2>1 DEF FeedInv, HoleInHand, BatchInHand
  <2>5. TypeOK'
    BY <1>1, <1>2, <1>4, <2>1 DEF FeedInv, TypeOK, market, history, Places
  <2> QED
    BY <2>2, <2>3, <2>4, <2>5 DEF FeedInv, BuilderInv
<1>5. CASE /\ Splice(Spliced(hole, absent))
           /\ answer' = absent /\ loop' = "splice"
           /\ UNCHANGED <<gaps, flats>>
  <2> DEFINE F == Spliced(hole, absent)
  <2>1. F \in SUBSET Minutes /\ \A m \in F : InSeenGap(m)
    BY <1>1, <1>2 DEF Spliced, InSeenGap
  <2>2. /\ bars' = [m \in Minutes |-> IF m \in F /\ bars[m] = "none" THEN "rest" ELSE bars[m]]
        /\ lastClosed' = Max({lastClosed, Newest} \cup F)
    BY <1>5 DEF Splice
  <2> HIDE DEF F
  <2>3. lastClosed' = Max({lastClosed} \cup F)
    <3>1. {lastClosed, Newest} \cup F = {lastClosed} \cup F
      BY NewestIsLast DEF FeedInv
    <3> QED
      BY <2>2, <3>1
  <2>4. bars \in [Minutes -> Sources \cup {"none"}] /\ lastClosed \in Minutes
    BY DEF FeedInv, TypeOK
  <2>5. bars' \in [Minutes -> Sources \cup {"none"}]
    BY <2>2, <2>4 DEF Sources
  <2>6. lastClosed' \in Minutes
    <3>1. {lastClosed} \cup F \in SUBSET (0..MaxMinute) /\ {lastClosed} \cup F # {}
      BY <2>1, <2>4 DEF Minutes
    <3> QED
      BY <2>3, <3>1, MaxProps, MinutesAssumption DEF Minutes
  <2>7. \A m \in Minutes : bars'[m] # "none" <=> bars[m] # "none" \/ m \in F
    BY <2>2
  <2>8. TypeOK'
    BY <1>1, <1>2, <1>5, <2>5, <2>6 DEF FeedInv, TypeOK, market, history, Places
  <2>9. BuilderInv'
    BY <1>1, <2>1, <2>3, <2>5, <2>7, <2>8, Filling
  <2>10. QuietInGaps' /\ HoleInHand' /\ BatchInHand'
    BY <1>1, <1>5 DEF FeedInv, QuietInGaps, InSeenGap, HoleInHand, BatchInHand
  <2> QED
    BY <2>8, <2>9, <2>10 DEF FeedInv, BuilderInv
<1> QED
  BY <1>3, <1>4, <1>5

\* The hole is settled once its traded bars are saved.
LEMMA SplicedSavedKeeps ==
  ASSUME FeedInv, SplicedSaved
  PROVE  FeedInv'
<1>1. /\ UNCHANGED <<market, bars, forming, lastClosed, seenGaps, pending, batch, caller,
                     todo, hole, asked, reconciled, halt, signals, history>>
      /\ loop = "splice" /\ hole \in seenGaps /\ answer' = {}
  BY DEF SplicedSaved, FeedInv, HoleInHand
<1>2. hole \in Gap /\ MinutesOf(hole) \subseteq Minutes
  <2>1. hole \in Gap
    BY DEF FeedInv, TypeOK
  <2> QED
    BY <2>1, MinutesAssumption DEF Gap, MinutesOf, Minutes
<1>3. gaps' \subseteq gaps /\ flats' \subseteq flats \cup MinutesOf(hole) /\ loop' = "repair"
  BY DEF SplicedSaved, Settle, Fillers
<1>4. BuilderInv'
  BY <1>1, BuilderStays DEF FeedInv, BuilderInv, TypeOK
<1>5. QuietInGaps'
  BY <1>1, <1>3 DEF FeedInv, QuietInGaps, InSeenGap
<1>6. HoleInHand' /\ BatchInHand'
  BY <1>1, <1>3 DEF FeedInv, HoleInHand, BatchInHand
<1>7. TypeOK'
  BY <1>1, <1>2, <1>3 DEF FeedInv, TypeOK, market, history, Places
<1> QED
  BY <1>4, <1>5, <1>6, <1>7 DEF FeedInv, BuilderInv

\* REST's bars take the place of the socket's, minute for minute.
LEMMA ReconcileKeeps ==
  ASSUME FeedInv, Reconcile
  PROVE  FeedInv'
<1>1. /\ UNCHANGED <<market, forming, lastClosed, gaps, seenGaps, pending, batch, repair,
                     reconciled, halt, signals, history>>
      /\ loop \in {"decide", "replaced"} /\ loop' \in {"replaced", "evaluate"}
  BY DEF Reconcile, At
<1>2. bars \in [Minutes -> Sources \cup {"none"}] /\ lastClosed \in Minutes
  BY DEF FeedInv, TypeOK
<1>3. \/ bars' = bars
      \/ \E served \in SUBSET FromSocket :
           bars' = [m \in Minutes |-> IF m \in served THEN "rest" ELSE bars[m]]
  BY DEF Reconcile
<1>4. /\ bars' \in [Minutes -> Sources \cup {"none"}]
      /\ \A m \in Minutes : bars'[m] = "none" <=> bars[m] = "none"
  BY <1>2, <1>3 DEF FromSocket, Sources
<1>5. BuilderInv'
  BY <1>1, <1>2, <1>4, BuilderStays DEF FeedInv, BuilderInv
<1>6. QuietInGaps' /\ HoleInHand' /\ BatchInHand'
  BY <1>1 DEF repair, FeedInv, QuietInGaps, InSeenGap, HoleInHand, BatchInHand
<1>7. TypeOK'
  BY <1>1, <1>4 DEF FeedInv, TypeOK, market, repair, history, Places
<1> QED
  BY <1>5, <1>6, <1>7 DEF FeedInv, BuilderInv

\* A bar is shown to the detector; a flat one is put where it was missing.
LEMMA HandleBarKeeps ==
  ASSUME FeedInv, HandleBar
  PROVE  FeedInv'
<1> DEFINE bar == Head(batch)
           O == [start : Minutes, flat : BOOLEAN]
           flat == bar.source = "quiet" \/ bar.start \notin traded
           o == [start |-> bar.start, flat |-> flat]
<1>1. /\ UNCHANGED <<market, forming, gaps, seenGaps, pending, repair, reconciled, signals,
                     decisions, closed, raises, lost>>
      /\ loop = "handle" /\ batch # <<>> /\ TypeOK
  BY DEF HandleBar, FeedInv
<1>2. /\ bar \in Bar /\ bar.start \in Minutes /\ Tail(batch) \in Seq(Bar)
      /\ Range(batch) = {bar} \cup Range(Tail(batch))
  BY <1>1, InHandBar DEF Bar
<1>3. \/ batch' = batch /\ loop' = "saving" /\ handled' = handled
      \/ batch' = Tail(batch) /\ loop' = "handle" /\ handled' = handled \cup {bar.start}
  BY <1>1 DEF HandleBar
<1>4. halt' = halt \/ halt' = Observe(flat)
  BY DEF HandleBar, Shown
<1>5. halt' \in HaltState
  <2>1. halt \in HaltState
    BY <1>1 DEF TypeOK
  <2> QED
    BY <1>4, <2>1 DEF Observe, HaltState
<1>6. observed' \in Seq(O)
  <2>1. observed \in Seq(O)
    BY <1>1 DEF TypeOK
  <2>2. observed' = observed \/ observed' = Append(observed, o)
    BY DEF HandleBar, Shown
  <2>3. o \in O
    BY <1>2
  <2> HIDE DEF O, o
  <2> QED
    BY <2>1, <2>2, <2>3, AppendRange
<1>7. \/ UNCHANGED <<bars, lastClosed>>
      \/ /\ bar.source = "quiet" /\ bars[bar.start] = "none"
         /\ bars' = [bars EXCEPT ![bar.start] = "quiet"]
         /\ lastClosed' = Max({lastClosed, bar.start})
  BY DEF HandleBar
<1>8. QuietInGaps' /\ HoleInHand' /\ BatchInHand'
  <2>1. QuietInGaps'
    BY <1>1, <1>2, <1>3, QuietStays DEF FeedInv, repair
  <2> QED
    BY <1>1, <1>3, <2>1 DEF FeedInv, HoleInHand, BatchInHand
<1>9. bars \in [Minutes -> Sources \cup {"none"}] /\ lastClosed \in Minutes
  BY <1>1 DEF TypeOK
<1>10. CASE UNCHANGED <<bars, lastClosed>>
  <2>1. BuilderInv'
    BY <1>1, <1>9, <1>10, BuilderStays DEF FeedInv, BuilderInv
  <2>2. TypeOK'
    <3> HIDE DEF bar
    <3> QED
      BY <1>1, <1>2, <1>3, <1>5, <1>6, <1>10 DEF TypeOK, market, repair, Places
  <2> QED
    BY <1>8, <2>1, <2>2 DEF FeedInv, BuilderInv
<1>11. CASE /\ bar.source = "quiet" /\ bars[bar.start] = "none"
            /\ bars' = [bars EXCEPT ![bar.start] = "quiet"]
            /\ lastClosed' = Max({lastClosed, bar.start})
  <2> DEFINE F == {bar.start}
  <2>1. InSeenGap(bar.start)
    BY <1>2, <1>11 DEF FeedInv, QuietInGaps
  <2>2. F \in SUBSET Minutes /\ \A m \in F : InSeenGap(m)
    BY <1>2, <2>1
  <2>3. lastClosed' = Max({lastClosed} \cup F)
    <3>1. {lastClosed, bar.start} = {lastClosed} \cup F
      OBVIOUS
    <3> QED
      BY <1>11, <3>1
  <2>4. bars' \in [Minutes -> Sources \cup {"none"}]
    BY <1>2, <1>9, <1>11 DEF Sources
  <2>5. \A m \in Minutes : bars'[m] # "none" <=> bars[m] # "none" \/ m \in F
    BY <1>2, <1>9, <1>11
  <2> HIDE DEF F, bar
  <2>6. lastClosed' \in Minutes
    <3>1. {lastClosed} \cup F \in SUBSET (0..MaxMinute) /\ {lastClosed} \cup F # {}
      BY <1>9, <2>2 DEF Minutes
    <3> QED
      BY <2>3, <3>1, MaxProps, MinutesAssumption DEF Minutes
  <2>7. TypeOK'
    BY <1>1, <1>2, <1>3, <1>5, <1>6, <2>4, <2>6 DEF TypeOK, market, repair, Places
  <2>8. BuilderInv'
    BY <1>1, <2>2, <2>3, <2>4, <2>5, <2>7, Filling
  <2> QED
    BY <1>8, <2>7, <2>8 DEF FeedInv, BuilderInv
<1> QED
  BY <1>7, <1>10, <1>11

\* The queue takes the bar the socket closed; it is not a flat one.
LEMMA ClosingQueue ==
  ASSUME FeedInv, forming # None, CloseForming
  PROVE  /\ pending' \in Seq(Bar) /\ closed' \subseteq Minutes
         /\ Range(pending') = Range(pending) \cup {[start |-> forming, source |-> "ws"]}
<1>1. /\ forming \in Minutes /\ closed' = closed \cup {forming}
      /\ pending' = Append(pending, [start |-> forming, source |-> "ws"])
  BY Closing
<1>2. [start |-> forming, source |-> "ws"] \in Bar
  BY <1>1 DEF Bar, Sources
<1>3. pending \in Seq(Bar) /\ closed \subseteq Minutes
  BY DEF FeedInv, TypeOK
<1> QED
  BY <1>1, <1>2, <1>3, AppendRange

\* A pass rolls the minute that is over, and looks at the holes.
LEMMA StartPassKeeps ==
  ASSUME FeedInv, StartPass
  PROVE  FeedInv'
<1>1. /\ UNCHANGED <<market, batch, hole, asked, answer, reconciled, halt, signals,
                     decisions, observed, handled, raises, lost>>
      /\ loop' = "repair" /\ caller' = "pass" /\ todo' = gaps' \ asked /\ flats' = {}
      /\ batch = <<>> /\ TypeOK
  BY DEF StartPass, FeedInv
<1>2. HoleInHand' /\ BatchInHand'
  BY <1>1 DEF HoleInHand, BatchInHand
<1>3. CASE UNCHANGED <<builder, pending, closed>>
  <2>1. BuilderInv'
    BY <1>1, <1>3, BuilderStays DEF FeedInv, BuilderInv, builder, TypeOK
  <2>2. QuietInGaps'
    BY <1>1, <1>3, QuietStays DEF FeedInv, builder
  <2>3. TypeOK'
    BY <1>1, <1>3 DEF builder, TypeOK, market, Places
  <2> QED
    BY <1>2, <2>1, <2>2, <2>3 DEF FeedInv, BuilderInv
<1>4. CASE Roll
  <2>1. forming # None /\ forming' = None
    BY <1>4 DEF Roll
  <2>2. /\ forming \in Minutes /\ lastClosed < forming /\ lastClosed \in Minutes
        /\ bars' = [bars EXCEPT ![forming] = "ws"] /\ lastClosed' = forming
        /\ bars \in [Minutes -> Sources \cup {"none"}] /\ Minutes \subseteq Nat
        /\ seenGaps \subseteq Gap /\ Newest = lastClosed
    BY <1>1, <1>4, <2>1, Closing, NewestIsLast, MinutesAssumption
    DEF Roll, TypeOK, FeedInv, Minutes
  <2>3. /\ seenGaps' = seenGaps \cup GapsOfClose /\ gaps' = gaps \cup GapsOfClose
        /\ GapsOfClose \subseteq Gap /\ \A g \in GapsOfClose : g[2] = forming
    BY <1>4, <2>1, <2>2, Closing, NotedHoles DEF Roll, NoteGaps
  <2>4. /\ pending' \in Seq(Bar) /\ closed' \subseteq Minutes
        /\ Range(pending') = Range(pending) \cup {[start |-> forming, source |-> "ws"]}
    BY <1>4, <2>1, ClosingQueue DEF Roll
  <2>5. bars' \in [Minutes -> Sources \cup {"none"}]
    BY <2>2 DEF Sources
  <2>6. TypeOK'
    BY <1>1, <2>1, <2>2, <2>3, <2>4, <2>5 DEF TypeOK, market, Places
  <2>7. LastIsNewest' /\ FormingIsNewer'
    <3>1. bars'[forming] # "none"
      BY <2>2
    <3>2. \A m \in Minutes : bars'[m] # "none" => m <= forming
      BY <2>2 DEF FeedInv, LastIsNewest
    <3> QED
      BY <2>1, <2>2, <3>1, <3>2 DEF LastIsNewest, FormingIsNewer
  <2>8. Newest' = forming
    <3>1. HeldMinutes' \in SUBSET Minutes /\ forming \in HeldMinutes'
      BY <2>2, <2>7 DEF LastIsNewest, HeldMinutes
    <3>2. \A m \in HeldMinutes' : m <= forming
      BY <2>2, <2>7 DEF LastIsNewest, HeldMinutes
    <3> QED
      BY <3>1, <3>2, GreatestIsMax DEF Newest
  <2>9. HoleIsNoted'
    <3> SUFFICES ASSUME NEW m \in Minutes, bars'[m] = "none", m < forming
                 PROVE  \E g \in seenGaps : m \in MinutesOf(g)
      BY <2>1, <2>3, <2>8 DEF HoleIsNoted
    <3>1. bars[m] = "none"
      BY <2>2
    <3> QED
      BY <2>1, <3>1 DEF FeedInv, HoleIsNoted
  <2>10. GapsBehind'
    <3> SUFFICES ASSUME NEW g \in seenGaps \cup GapsOfClose
                 PROVE  g[2] <= forming
      BY <2>2, <2>3 DEF GapsBehind
    <3>1. g[2] \in Minutes
      BY <2>2, <2>3 DEF Gap
    <3>2. g[2] <= lastClosed \/ g[2] <= forming
      BY <2>2, <2>3, <3>1 DEF FeedInv, GapsBehind
    <3>3. \A a, b, c \in Nat : a <= b /\ b < c => a <= c
      OBVIOUS
    <3> QED
      BY <2>2, <3>1, <3>2, <3>3
  <2>11. QuietInGaps'
    <3>1. seenGaps \subseteq seenGaps' /\ flats' = {} /\ batch' = batch
      BY <1>1, <2>3
    <3>2. \A b \in Range(pending') : b.source = "quiet" => b \in Range(pending)
      BY <2>4
    <3> QED
      BY <3>1, <3>2 DEF FeedInv, QuietInGaps, InSeenGap
  <2> QED
    BY <1>2, <2>6, <2>7, <2>9, <2>10, <2>11 DEF FeedInv
<1> QED
  BY <1>3, <1>4 DEF StartPass

\* An update of a later minute begins it, and notes every hole up to it.
LEMMA UpdateKeeps ==
  ASSUME FeedInv, NEW m \in Minutes, Update(m)
  PROVE  FeedInv'
<1>1. /\ UNCHANGED <<market, batch, loop, repair, reconciled, halt, signals,
                     decisions, observed, handled, raises, lost>>
      /\ forming' = m /\ TypeOK
  BY DEF Update, FeedInv
<1>2. /\ Minutes \subseteq Nat /\ lastClosed \in Minutes /\ seenGaps \subseteq Gap
      /\ Newest = lastClosed /\ lastClosed < m /\ (forming # None => forming < m)
      /\ (forming # None => forming \in Minutes) /\ None \notin Minutes
  <2>1. /\ Minutes \subseteq Nat /\ lastClosed \in Minutes /\ seenGaps \subseteq Gap
        /\ Newest = lastClosed /\ forming \in Minutes \cup {None} /\ None \notin Minutes
    BY <1>1, NewestIsLast, MinutesAssumption DEF TypeOK, FeedInv, Minutes
  <2>2. ~(m <= lastClosed) /\ (forming # None => ~(m < forming)) /\ m # forming
    BY DEF Update, Stale
  <2> QED
    BY <2>1, <2>2
<1>3. HoleInHand' /\ BatchInHand'
  <2>1. seenGaps \subseteq seenGaps'
    BY DEF Update, NoteGaps
  <2> QED
    BY <1>1, <2>1 DEF repair, FeedInv, HoleInHand, BatchInHand
<1>4. CASE forming = None
  <2>1. /\ UNCHANGED <<bars, lastClosed, pending, closed>>
        /\ seenGaps' = seenGaps \cup Noted(lastClosed, m)
        /\ gaps' = gaps \cup Noted(lastClosed, m)
    BY <1>2, <1>4 DEF Update, NoteGaps, GapsOfFirst
  <2>2. /\ Noted(lastClosed, m) \subseteq Gap
        /\ \A g \in Noted(lastClosed, m) : g[2] = m
        /\ \A x \in Minutes : lastClosed < x /\ x < m =>
             \E g \in seenGaps \cup Noted(lastClosed, m) : x \in MinutesOf(g)
    BY <1>2, NotedHoles
  <2>3. Newest' = lastClosed
    BY <1>2, <2>1 DEF Newest, HeldMinutes
  <2>4. LastIsNewest' /\ FormingIsNewer'
    BY <1>1, <1>2, <2>1, <2>3 DEF FeedInv, LastIsNewest, FormingIsNewer
  <2>5. HoleIsNoted'
    <3> SUFFICES ASSUME NEW x \in Minutes, bars[x] = "none", x < lastClosed \/ x < m
                 PROVE  \E g \in seenGaps' : x \in MinutesOf(g)
      BY <1>1, <2>1, <2>3 DEF HoleIsNoted
    <3>1. CASE x < lastClosed
      BY <3>1, <1>2, <2>1 DEF FeedInv, HoleIsNoted
    <3>2. CASE ~(x < lastClosed)
      <4>1. x # lastClosed
        BY DEF FeedInv, LastIsNewest
      <4> QED
        BY <4>1, <3>2, <1>2, <2>1, <2>2
    <3> QED
      BY <3>1, <3>2
  <2>6. GapsBehind'
    BY <1>1, <1>2, <1>4, <2>1, <2>2 DEF FeedInv, GapsBehind
  <2>7. QuietInGaps'
    BY <1>1, <2>1, QuietStays DEF FeedInv, repair
  <2>8. TypeOK'
    BY <1>1, <2>1, <2>2 DEF TypeOK, market, repair, Places
  <2> QED
    BY <1>3, <2>4, <2>5, <2>6, <2>7, <2>8 DEF FeedInv
<1>5. CASE forming # None
  <2> DEFINE N1 == Noted(lastClosed, forming)
             N2 == Noted(forming, m)
  <2>1. CloseForming
    BY <1>5 DEF Update
  <2>2. /\ lastClosed < forming /\ lastClosed' = forming
        /\ bars' = [bars EXCEPT ![forming] = "ws"]
        /\ GapsOfClose = N1 /\ ~(forming <= Newest)
        /\ bars \in [Minutes -> Sources \cup {"none"}]
    BY <1>1, <1>5, <2>1, Closing DEF TypeOK
  <2>14. forming \in Nat /\ m \in Nat /\ lastClosed \in Nat /\ forming < m
    BY <1>2, <1>5
  <2>3. seenGaps' = seenGaps \cup N1 \cup N2 /\ gaps' = gaps \cup N1 \cup N2
    BY <1>5, <2>2 DEF Update, NoteGaps
  <2>4. /\ N1 \cup N2 \subseteq Gap
        /\ \A g \in N1 : g[2] = forming
        /\ \A g \in N2 : g[2] = m
        /\ \A x \in Minutes : forming < x /\ x < m => \E g \in seenGaps \cup N2 : x \in MinutesOf(g)
    BY <1>2, <1>5, NotedHoles
  <2> HIDE DEF N1, N2
  <2>5. /\ pending' \in Seq(Bar) /\ closed' \subseteq Minutes
        /\ Range(pending') = Range(pending) \cup {[start |-> forming, source |-> "ws"]}
    BY <1>5, <2>1, ClosingQueue
  <2>6. bars' \in [Minutes -> Sources \cup {"none"}]
    BY <2>2 DEF Sources
  <2>7. TypeOK'
    BY <1>1, <1>2, <1>5, <2>2, <2>3, <2>4, <2>5, <2>6 DEF TypeOK, market, repair, Places
  <2>8. LastIsNewest'
    <3>1. bars'[forming] # "none"
      BY <1>2, <1>5, <2>2
    <3>2. ASSUME NEW x \in Minutes, bars'[x] # "none"  PROVE x <= forming
      <4>1. CASE x = forming
        BY <4>1, <2>14
      <4>2. CASE x # forming
        <5>1. bars[x] # "none"
          BY <4>2, <3>2, <2>2
        <5>2. x <= lastClosed
          BY <5>1 DEF FeedInv, LastIsNewest
        <5>3. x \in Nat
          BY <1>2
        <5> QED
          BY <5>2, <5>3, <2>2, <2>14
      <4> QED
        BY <4>1, <4>2
    <3> QED
      BY <2>2, <3>1, <3>2 DEF LastIsNewest
  <2>9. Newest' = forming
    <3>1. HeldMinutes' \in SUBSET Minutes /\ forming \in HeldMinutes'
      BY <1>2, <1>5, <2>2, <2>8 DEF LastIsNewest, HeldMinutes
    <3>2. \A x \in HeldMinutes' : x <= forming
      BY <2>2, <2>8 DEF LastIsNewest, HeldMinutes
    <3> QED
      BY <3>1, <3>2, GreatestIsMax DEF Newest
  <2>10. FormingIsNewer'
    BY <1>1, <1>2, <1>5, <2>2, <2>9 DEF FormingIsNewer
  <2>11. HoleIsNoted'
    <3> SUFFICES ASSUME NEW x \in Minutes, bars'[x] = "none", x < forming \/ x < m
                 PROVE  \E g \in seenGaps' : x \in MinutesOf(g)
      BY <1>1, <2>9 DEF HoleIsNoted
    <3>1. bars[x] = "none" /\ x # forming
      BY <1>2, <1>5, <2>2
    <3>2. CASE x < forming
      BY <1>5, <2>3, <3>1, <3>2 DEF FeedInv, HoleIsNoted
    <3>3. CASE ~(x < forming)
      <4>1. forming < x /\ x < m
        <5>1. x \in Nat
          BY <1>2
        <5> QED
          BY <5>1, <2>14, <3>1, <3>3
      <4> QED
        BY <4>1, <2>3, <2>4
    <3> QED
      BY <3>2, <3>3
  <2>12. GapsBehind'
    <3> SUFFICES ASSUME NEW g \in seenGaps \cup N1 \cup N2
                 PROVE  g[2] <= m
      BY <1>1, <1>2, <2>3 DEF GapsBehind
    <3>1. g[2] \in Minutes
      BY <1>2, <2>4 DEF Gap
    <3>2. CASE g \in seenGaps
      <4>1. g[2] <= lastClosed \/ g[2] <= forming
        BY <3>2 DEF FeedInv, GapsBehind
      <4>2. \A a, b, c \in Nat : a <= b /\ b < c => a <= c
        OBVIOUS
      <4>3. lastClosed \in Nat /\ forming \in Nat /\ m \in Nat /\ g[2] \in Nat
        BY <1>2, <1>5, <3>1
      <4>4. lastClosed < m /\ forming < m
        BY <1>2, <1>5
      <4> QED
        BY <4>1, <4>2, <4>3, <4>4
    <3>3. CASE g \in N1
      <4>1. g[2] = forming
        BY <3>3, <2>4
      <4> QED
        BY <4>1, <2>14
    <3>4. CASE g \in N2
      <4>1. g[2] = m
        BY <3>4, <2>4
      <4> QED
        BY <4>1, <2>14
    <3> QED
      BY <3>2, <3>3, <3>4
  <2>13. QuietInGaps'
    <3>1. seenGaps \subseteq seenGaps' /\ flats' = flats /\ batch' = batch
      BY <1>1, <2>3 DEF repair
    <3>2. \A b \in Range(pending') : b.source = "quiet" => b \in Range(pending)
      BY <2>5
    <3> QED
      BY <3>1, <3>2 DEF FeedInv, QuietInGaps, InSeenGap
  <2> QED
    BY <1>3, <2>7, <2>8, <2>10, <2>11, <2>12, <2>13 DEF FeedInv
<1> QED
  BY <1>4, <1>5

LEMMA FeedStep == FeedInv /\ [Next]_vars => FeedInv'
<1> SUFFICES ASSUME FeedInv, [Next]_vars PROVE FeedInv'
  OBVIOUS
<1>1. CASE UNCHANGED vars
  <2>1. UNCHANGED <<bars, forming, lastClosed, seenGaps, flats, pending, batch>>
    BY <1>1 DEF vars, builder, repair
  <2>2. BuilderInv' /\ QuietInGaps'
    BY <2>1, BuilderStays, QuietStays DEF FeedInv, BuilderInv, TypeOK
  <2>3. TypeOK' /\ HoleInHand' /\ BatchInHand'
    BY <1>1 DEF vars, builder, repair, market, history, FeedInv, TypeOK, HoleInHand, BatchInHand
  <2> QED
    BY <2>2, <2>3 DEF FeedInv, BuilderInv
<1>2. CASE \E m \in Minutes : Update(m)
  BY <1>2, UpdateKeeps
<1>3. CASE StartPass
  BY <1>3, StartPassKeeps
<1>4. CASE RestAnswers
  BY <1>4, RestAnswersKeeps
<1>5. CASE SplicedSaved
  BY <1>5, SplicedSavedKeeps
<1>6. CASE HandleBar
  BY <1>6, HandleBarKeeps
<1>7. CASE Reconcile
  BY <1>7, ReconcileKeeps
<1>8. CASE Aside
  BY <1>8, AsideKeeps
<1>9. CASE Ends
  BY <1>9, EndsKeep
<1>10. CASE Queues
  BY <1>10, QueuesKeep
<1> QED
  BY <1>1, <1>2, <1>3, <1>4, <1>5, <1>6, <1>7, <1>8, <1>9, <1>10
  DEF Next, LoopStep, Aside, Ends, Queues

LEMMA FeedInvariance == Spec => []FeedInv
BY FeedInit, FeedStep, PTL DEF Spec

(***************************************************************************)
(* The types of the feed.                                                  *)
(***************************************************************************)
THEOREM TypeCorrect == Spec => []TypeOK
<1>1. FeedInv => TypeOK
  BY DEF FeedInv
<1> QED
  BY <1>1, FeedInvariance, PTL

(***************************************************************************)
(* The minute being assembled is newer than everything held, whatever REST *)
(* and the repair insert: _close_forming never refuses a bar.              *)
(***************************************************************************)
THEOREM FormingStaysNewer == Spec => []FormingIsNewer
<1>1. FeedInv => FormingIsNewer
  BY DEF FeedInv
<1> QED
  BY <1>1, FeedInvariance, PTL

(***************************************************************************)
(* A minute the builder has gone past without a bar is in a noted hole.    *)
(***************************************************************************)
THEOREM NoHoleUnnoted == Spec => []HoleIsNoted
<1>1. FeedInv => HoleIsNoted
  BY DEF FeedInv
<1> QED
  BY <1>1, FeedInvariance, PTL

-----------------------------------------------------------------------------
(* What is held is not taken back *)

\* A held minute stays held, and only a socket bar is ever replaced, by REST's.
Kept == \A m \in Minutes :
          bars[m] # "none" /\ bars'[m] # bars[m] => bars[m] = "ws" /\ bars'[m] = "rest"

LEMMA KeptStep ==
  ASSUME FeedInv, [Next]_vars
  PROVE  Kept
<1> USE DEF Kept
<1>1. CASE UNCHANGED bars
  BY <1>1
<1>2. ASSUME forming # None, CloseForming  PROVE Kept
  BY <1>2, Closing DEF FeedInv, TypeOK
<1>3. CASE \E m \in Minutes : Update(m)
  BY <1>1, <1>2, <1>3 DEF Update
<1>4. CASE StartPass
  BY <1>1, <1>2, <1>4 DEF StartPass, Roll, builder
<1>5. CASE RestAnswers
  BY <1>5 DEF RestAnswers, Splice
<1>6. CASE HandleBar
  BY <1>6 DEF HandleBar, FeedInv, TypeOK
<1>7. CASE Reconcile
  BY <1>7 DEF Reconcile, FromSocket, builder
<1>8. CASE SplicedSaved \/ Aside \/ Ends \/ Queues \/ UNCHANGED vars
  BY <1>1, <1>8 DEF SplicedSaved, Aside, Ends, Queues, NextMinute, AskRest, RestFails,
    BarSaved, Reconciled, NotABoundary, Incomplete, Evaluate, Acted, RepairDone,
    TakeBatch, Raise, builder, vars
<1> QED
  BY <1>3, <1>4, <1>5, <1>6, <1>7, <1>8 DEF Next, LoopStep, Aside, Ends, Queues

(***************************************************************************)
(* A held minute stays held, and only a socket bar is ever replaced, by    *)
(* REST's.                                                                 *)
(***************************************************************************)
THEOREM HistoryIsKept == Spec => HistoryKept
<1>1. FeedInv /\ [Next]_vars =>
        [\A m \in Minutes :
           bars[m] # "none" /\ bars'[m] # bars[m] => bars[m] = "ws" /\ bars'[m] = "rest"]_vars
  BY KeptStep DEF Kept
<1> QED
  BY <1>1, FeedInvariance, PTL DEF Spec, HistoryKept

-----------------------------------------------------------------------------
(* No bar is lost and no decision made twice *)

Queued == Range(pending) \cup Range(batch)

\* The queues give up a bar only to handled.
LEMMA QueueStep ==
  ASSUME FeedInv, [Next]_vars
  PROVE  /\ handled \subseteq handled'
         /\ \A b \in Queued : b \in Queued' \/ b.start \in handled'
         /\ \A m \in closed' \ closed : \E b \in Queued' : b.start = m
<1> USE DEF Queued
<1>1. CASE UNCHANGED <<pending, batch, closed, handled>>
  BY <1>1
<1>2. ASSUME forming # None, CloseForming, UNCHANGED <<batch, handled>>
      PROVE  /\ handled \subseteq handled'
             /\ \A b \in Queued : b \in Queued'
             /\ \A m \in closed' \ closed : \E b \in Queued' : b.start = m
  <2>1. Range(pending') = Range(pending) \cup {[start |-> forming, source |-> "ws"]}
    BY <1>2, ClosingQueue
  <2>2. closed' = closed \cup {forming}
    BY <1>2, Closing
  <2>3. handled \subseteq handled' /\ Queued \subseteq Queued'
    BY <1>2, <2>1
  <2>4. ASSUME NEW m \in closed' \ closed  PROVE \E b \in Queued' : b.start = m
    <3>1. m = forming
      BY <2>2, <2>4
    <3>2. [start |-> forming, source |-> "ws"] \in Queued'
      BY <2>1
    <3> QED
      BY <3>1, <3>2
  <2> QED
    BY <2>3, <2>4
<1>3. CASE \E m \in Minutes : Update(m)
  BY <1>1, <1>2, <1>3 DEF Update
<1>4. CASE StartPass
  <2>1. UNCHANGED <<batch, handled>>
    BY <1>4 DEF StartPass
  <2> QED
    BY <1>1, <1>2, <1>4, <2>1 DEF StartPass, Roll
<1>5. CASE Aside \/ RestAnswers \/ SplicedSaved \/ Reconcile \/ UNCHANGED vars
  BY <1>1, <1>5 DEF Aside, NextMinute, AskRest, RestFails, BarSaved, Reconciled, RestAnswers,
    SplicedSaved, Reconcile, history, vars
<1>6. CASE HandleBar
  <2>1. /\ batch # <<>> /\ TypeOK /\ UNCHANGED <<pending, closed>>
        /\ \/ UNCHANGED <<batch, handled>>
           \/ batch' = Tail(batch) /\ handled' = handled \cup {Head(batch).start}
    BY <1>6 DEF HandleBar, FeedInv
  <2>2. Range(batch) = {Head(batch)} \cup Range(Tail(batch))
    BY <2>1, InHandBar
  <2> QED
    BY <2>1, <2>2
<1>7. CASE Ends
  <2>1. /\ batch # <<>> /\ TypeOK /\ UNCHANGED <<pending, closed>>
        /\ \/ UNCHANGED <<batch, handled>>
           \/ batch' = Tail(batch) /\ handled' = handled \cup {Minute}
    BY <1>7 DEF Ends, NotABoundary, Incomplete, Evaluate, Acted, Pop, FeedInv, BatchInHand, At
  <2>2. Range(batch) = {Head(batch)} \cup Range(Tail(batch))
    BY <2>1, InHandBar
  <2> QED
    BY <2>1, <2>2 DEF Minute
<1>8. CASE Queues
  <2>1. flats \in SUBSET Minutes /\ pending \in Seq(Bar) /\ batch \in Seq(Bar)
    BY DEF FeedInv, TypeOK
  <2>2. UNCHANGED <<closed, handled>>
    BY <1>8 DEF Queues, RepairDone, TakeBatch, Raise, history
  <2>3. Queued \subseteq Queued'
    <3>1. CASE RepairDone /\ caller = "pass"
      BY <3>1 DEF RepairDone
    <3>2. CASE RepairDone /\ caller # "pass"
      <4>1. PICK quiet \in QuietBars : pending' = pending \o quiet
        BY <3>2 DEF RepairDone
      <4>2. Range(pending') = Range(pending) \cup Range(quiet)
        BY <2>1, <4>1, QuietBarsRange, RangeConcatenation
      <4> QED
        BY <3>2, <4>2 DEF RepairDone
    <3>3. CASE TakeBatch
      <4>1. PICK quiet \in QuietBars : batch' \in InOrder(pending \o quiet)
        BY <3>3 DEF TakeBatch
      <4>2. /\ pending \o quiet \in Seq(Bar)
            /\ Range(pending \o quiet) = Range(pending) \cup Range(quiet)
        BY <2>1, QuietBarsRange, RangeConcatenation
      <4>3. Range(batch') = Range(pending) \cup Range(quiet)
        BY <4>1, <4>2, InOrderRange
      <4>4. Range(batch) = {}
        BY <3>3 DEF TakeBatch, FeedInv, BatchInHand, Range
      <4> QED
        BY <4>3, <4>4
    <3>4. CASE Raise
      <4>1. pending' = batch \o pending
        BY <3>4 DEF Raise, PutBack
      <4> QED
        BY <2>1, <4>1, RangeConcatenation
    <3> QED
      BY <1>8, <3>1, <3>2, <3>3, <3>4 DEF Queues
  <2> QED
    BY <2>2, <2>3
<1> QED
  BY <1>3, <1>4, <1>5, <1>6, <1>7, <1>8 DEF Next, LoopStep, Aside, Ends, Queues

(***************************************************************************)
(* A bar the socket closed is handled or queued, whatever raises.          *)
(***************************************************************************)
THEOREM NoBarIsLost == Spec => []NoBarLost
<1>1. Init => NoBarLost
  BY DEF Init, NoBarLost
<1>2. ASSUME FeedInv, NoBarLost, [Next]_vars  PROVE NoBarLost'
  <2> SUFFICES ASSUME NEW m \in closed'
               PROVE  m \in handled' \/ \E b \in Queued' : b.start = m
    BY DEF NoBarLost, QueuedMinutes, Queued
  <2>1. CASE m \in closed
    <3>1. m \in handled \/ \E b \in Queued : b.start = m
      BY <1>2, <2>1 DEF NoBarLost, QueuedMinutes, Queued
    <3> QED
      BY <1>2, <3>1, QueueStep
  <2>2. CASE m \notin closed
    BY <1>2, <2>2, QueueStep
  <2> QED
    BY <2>1, <2>2
<1> QED
  BY <1>1, <1>2, FeedInvariance, PTL DEF Spec

\* Every decision made is on record, and one made on a settled history is
\* still what that history gives.
OnRecord ==
  \A i \in DOMAIN decisions : <<decisions[i].at, decisions[i].dir>> \in signals

StillGiven ==
  \A m \in Minutes : \A i \in DOMAIN decisions :
    decisions[i].at = m /\ decisions[i].settled =>
      Settled(m) /\ decisions[i].dir = Verdict(HistoryTo(m))

DecidedInv == DecidedOnce /\ OnRecord /\ StillGiven

\* A settled history does not change again.
LEMMA SettledStays ==
  ASSUME FeedInv, [Next]_vars, NEW m \in Minutes, Settled(m)
  PROVE  Settled(m)' /\ HistoryTo(m)' = HistoryTo(m)
<1>1. Kept
  BY KeptStep
<1>2. traded' = traded
  BY DEF Next, LoopStep, NextMinute, StartPass, AskRest, RestAnswers, RestFails,
    SplicedSaved, RepairDone, TakeBatch, HandleBar, BarSaved, NotABoundary, Reconcile,
    Reconciled, Incomplete, Evaluate, Acted, Raise, Update, market, vars
<1>3. ASSUME NEW k \in 0..m
      PROVE  /\ bars[k] # "none" /\ bars'[k] # "none"
             /\ k \in traded => bars[k] # "ws" /\ bars'[k] = bars[k]
             /\ bars'[k] = "ws" => bars[k] = "ws"
  <2>1. k \in Minutes
    BY MinutesAssumption DEF Minutes
  <2>2. bars[k] # "none" /\ (bars[k] = "ws" => k \notin traded)
    BY DEF Settled
  <2>3. bars'[k] # bars[k] => bars[k] = "ws" /\ bars'[k] = "rest"
    BY <1>1, <2>1, <2>2 DEF Kept
  <2> QED
    BY <2>2, <2>3
<1>4. Settled(m)'
  BY <1>2, <1>3 DEF Settled
<1>5. HistoryTo(m)' = HistoryTo(m)
  BY <1>2, <1>3 DEF HistoryTo
<1> QED
  BY <1>4, <1>5

\* A decision recorded before.
LEMMA DecisionsTyped ==
  ASSUME TypeOK, NEW i \in DOMAIN decisions
  PROVE  decisions[i] \in Decision /\ decisions[i].at \in Minutes
<1>1. decisions \in Seq(Decision)
  BY DEF TypeOK
<1>2. decisions[i] \in Decision
  BY <1>1
<1> QED
  BY <1>2 DEF Decision

(***************************************************************************)
(* A bar put back is decided again only the other way, and only if its     *)
(* first decision read a history that was not settled.                     *)
(***************************************************************************)
THEOREM NoBarDecidedTwice == Spec => []DecidedOnce
<1>1. Init => DecidedInv
  BY DEF Init, DecidedInv, DecidedOnce, OnRecord, StillGiven
<1>2. ASSUME FeedInv, DecidedInv, [Next]_vars  PROVE DecidedInv'
  <2>1. CASE UNCHANGED <<decisions, signals>>
    <3>1. DecidedOnce' /\ OnRecord'
      BY <1>2, <2>1 DEF DecidedInv, DecidedOnce, OnRecord
    <3>2. StillGiven'
      <4> SUFFICES ASSUME NEW m \in Minutes, NEW i \in DOMAIN decisions,
                          decisions[i].at = m, decisions[i].settled
                   PROVE  Settled(m)' /\ decisions[i].dir = Verdict(HistoryTo(m)')
        BY <2>1 DEF StillGiven
      <4>1. Settled(m) /\ decisions[i].dir = Verdict(HistoryTo(m))
        BY <1>2 DEF DecidedInv, StillGiven
      <4> QED
        BY <1>2, <4>1, SettledStays
    <3> QED
      BY <3>1, <3>2 DEF DecidedInv
  <2>2. CASE Evaluate
    <3>1. PICK m \in Minutes : m = Minute
      <4>1. batch # <<>>
        BY <1>2, <2>2 DEF Evaluate, At, FeedInv, BatchInHand
      <4> QED
        BY <1>2, <4>1, InHandBar DEF FeedInv
    <3>2. PICK d \in Decision : d = DecisionAt(m)
      BY <1>2, DecisionOfMinute DEF FeedInv
    <3>3. \/ UNCHANGED <<decisions, signals>>
          \/ /\ Key(m) \notin signals /\ signals' = signals \cup {Key(m)}
             /\ decisions' = Append(decisions, d)
      BY <2>2, <3>1, <3>2 DEF Evaluate, Recorded
    <3>4. /\ d.at = m /\ d.dir = Verdict(HistoryTo(m)) /\ (d.settled <=> Settled(m))
          /\ Key(m) = <<m, d.dir>>
      BY <1>2, <3>2, DecisionOfMinute, KeyOfMinute DEF FeedInv
    <3>5. bars' = bars /\ traded' = traded
      BY <2>2 DEF Evaluate, builder, market
    <3>6. HistoryTo(m)' = HistoryTo(m) /\ (Settled(m)' <=> Settled(m))
      BY <3>5 DEF HistoryTo, Settled
    <3>7. CASE /\ Key(m) \notin signals /\ signals' = signals \cup {Key(m)}
               /\ decisions' = Append(decisions, d)
      <4>1. PICK n \in Nat : n = Len(decisions) /\ decisions \in Seq(Decision)
        BY <1>2 DEF FeedInv, TypeOK
      <4>2. /\ DOMAIN decisions' = 1..(n + 1) /\ DOMAIN decisions = 1..n
            /\ \A i \in 1..n : decisions'[i] = decisions[i]
            /\ decisions'[n + 1] = d
        BY <3>7, <4>1
      <4>3. \A i \in 1..(n + 1) : i \in 1..n \/ i = n + 1
        BY <4>1
      <4>4. OnRecord'
        BY <1>2, <3>4, <3>7, <4>2, <4>3 DEF DecidedInv, OnRecord
      <4>5. ASSUME NEW k \in Minutes, NEW i \in 1..n, decisions[i].at = k, decisions[i].settled
            PROVE  Settled(k)' /\ decisions[i].dir = Verdict(HistoryTo(k)')
        <5>1. Settled(k) /\ decisions[i].dir = Verdict(HistoryTo(k))
          BY <1>2, <4>2, <4>5 DEF DecidedInv, StillGiven
        <5> QED
          BY <1>2, <5>1, SettledStays
      <4>6. StillGiven'
        <5> SUFFICES ASSUME NEW k \in Minutes, NEW i \in 1..(n + 1),
                            decisions'[i].at = k, decisions'[i].settled
                     PROVE  Settled(k)' /\ decisions'[i].dir = Verdict(HistoryTo(k)')
          BY <4>2 DEF StillGiven
        <5>1. CASE i \in 1..n
          BY <4>2, <4>5, <5>1
        <5>2. CASE i = n + 1
          BY <3>4, <3>6, <4>2, <5>2
        <5> QED
          BY <4>3, <5>1, <5>2
      <4>7. ASSUME NEW i \in 1..n, decisions[i].at = m
            PROVE  ~decisions[i].settled /\ decisions[i].dir # d.dir
        <5>1. <<m, decisions[i].dir>> \in signals
          BY <1>2, <4>2, <4>7 DEF DecidedInv, OnRecord
        <5>2. decisions[i].dir # d.dir
          BY <3>4, <3>7, <5>1
        <5>3. decisions[i].settled => decisions[i].dir = d.dir
          BY <1>2, <3>4, <4>2, <4>7 DEF DecidedInv, StillGiven
        <5> QED
          BY <5>2, <5>3
      <4>8. DecidedOnce'
        <5> SUFFICES ASSUME NEW i \in 1..(n + 1), NEW j \in 1..(n + 1), i < j,
                            decisions'[i].at = decisions'[j].at
                     PROVE  ~decisions'[i].settled /\ decisions'[i].dir # decisions'[j].dir
          BY <4>2 DEF DecidedOnce
        <5>1. i \in 1..n
          BY <4>1
        <5>2. CASE j \in 1..n
          BY <1>2, <4>2, <5>1, <5>2 DEF DecidedInv, DecidedOnce
        <5>3. CASE j = n + 1
          BY <3>4, <4>2, <4>7, <5>1, <5>3
        <5> QED
          BY <4>3, <5>2, <5>3
      <4> QED
        BY <4>4, <4>6, <4>8 DEF DecidedInv
    <3> QED
      BY <2>1, <3>3, <3>7
  <2>3. CASE [Next]_vars /\ ~Evaluate
    <3>1. UNCHANGED <<decisions, signals>>
      BY <2>3 DEF Next, LoopStep, NextMinute, StartPass, AskRest, RestAnswers, RestFails,
        SplicedSaved, RepairDone, TakeBatch, HandleBar, BarSaved, NotABoundary, Reconcile,
        Reconciled, Incomplete, Acted, Raise, Update, history, vars
    <3> QED
      BY <2>1, <3>1
  <2> QED
    BY <1>2, <2>2, <2>3
<1>3. DecidedInv => DecidedOnce
  BY DEF DecidedInv
<1> QED
  BY <1>1, <1>2, <1>3, FeedInvariance, PTL DEF Spec

-----------------------------------------------------------------------------
(* A hole that is settled is filled *)

Filled == HeldMinutes \cup QueuedMinutes \cup flats \cup lost

\* A bar of the socket or of REST is queued only once it is held, and a flat
\* bar is held by the time its handler awaits anything.
QueuedIsHeld == \A b \in Queued : b.source # "quiet" => bars[b.start] # "none"
InHandIsHeld == batch # <<>> /\ loop # "handle" => bars[Minute] # "none"

\* The flat bars found are handed over before the repair is left, and the
\* traded ones are spliced before they are saved.
FlatsInRepair == loop \notin {"repair", "rest", "splice", "others"} => flats = {}
SplicedIsHeld == loop = "splice" => Spliced(hole, answer) \subseteq HeldMinutes

FilledInv ==
  QueuedIsHeld /\ InHandIsHeld /\ FlatsInRepair /\ SplicedIsHeld /\ ClearedIsFilled

\* A sequence of a finite set's elements, each once, has them all.
LEMMA SeqHasAll ==
  ASSUME NEW S, IsFiniteSet(S), NEW f \in SetToSeqs(S)
  PROVE  f \in Seq(S) /\ Range(f) = S
<1> DEFINE D == 1..Cardinality(S)
<1>1. Cardinality(S) \in Nat
  BY FS_CardinalityType
<1>2. f \in [D -> S] /\ \A i, j \in D : i # j => f[i] # f[j]
  BY DEF SetToSeqs
<1>3. f \in Injection(D, S)
  BY <1>2 DEF Injection, IsInjective
<1>4. IsFiniteSet(D) /\ Cardinality(D) = Cardinality(S)
  BY <1>1, FS_Interval
<1>5. f \in Surjection(D, S)
  BY <1>3, <1>4, FS_Injection
<1>6. f \in Seq(S)
  BY <1>1, <1>2, IsASeq
<1> QED
  BY <1>2, <1>5, <1>6 DEF Surjection, Range

LEMMA QueuedBars ==
  ASSUME TypeOK
  PROVE  \A b \in Queued : b \in Bar /\ b.start \in Minutes
<1>1. pending \in Seq(Bar) /\ batch \in Seq(Bar)
  BY DEF TypeOK
<1>2. \A i \in DOMAIN pending : pending[i] \in Bar
  BY <1>1
<1>3. \A i \in DOMAIN batch : batch[i] \in Bar
  BY <1>1
<1>4. \A b \in Queued : b \in Bar
  BY <1>2, <1>3 DEF Queued, Range
<1> QED
  BY <1>4 DEF Bar

\* Every flat bar found is handed over.
LEMMA QuietBarsAll ==
  ASSUME flats \in SUBSET Minutes, NEW q \in QuietBars
  PROVE  \A m \in flats : \E b \in Range(q) : b.start = m
<1>1. IsFiniteSet(flats)
  <2>1. IsFiniteSet(0..MaxMinute)
    BY FS_Interval, MinutesAssumption
  <2> QED
    BY <2>1, FS_Subset DEF Minutes
<1>2. PICK ms \in SetToSeqs(flats) : q = [i \in 1..Len(ms) |-> QuietBar(ms[i])]
  BY DEF QuietBars
<1>3. ms \in Seq(flats) /\ Range(ms) = flats
  BY <1>1, SeqHasAll
<1> SUFFICES ASSUME NEW m \in flats PROVE \E b \in Range(q) : b.start = m
  OBVIOUS
<1>4. PICK i \in 1..Len(ms) : ms[i] = m
  BY <1>3 DEF Range
<1>5. q[i] = QuietBar(m) /\ i \in DOMAIN q
  BY <1>2, <1>4
<1> QED
  BY <1>5 DEF QuietBar, Range

\* What was filled stays filled, and no hole is settled by this step.
LEMMA FilledStays ==
  ASSUME FilledInv, Filled \subseteq Filled',
         seenGaps' \ gaps' \subseteq seenGaps \ gaps
  PROVE  ClearedIsFilled'
  BY DEF FilledInv, ClearedIsFilled, Filled

LEMMA HeldGrows ==
  ASSUME FeedInv, [Next]_vars
  PROVE  HeldMinutes \subseteq HeldMinutes'
<1>1. Kept
  BY KeptStep
<1> QED
  BY <1>1 DEF Kept, HeldMinutes

\* The minute that closes is held and queued.
LEMMA FilledByClosing ==
  ASSUME FeedInv, FilledInv, forming # None, CloseForming, batch' = batch,
         batch = <<>> \/ loop' = loop
  PROVE  /\ QueuedIsHeld' /\ InHandIsHeld'
         /\ HeldMinutes \subseteq HeldMinutes' /\ QueuedMinutes \subseteq QueuedMinutes'
<1>1. /\ forming \in Minutes /\ bars' = [bars EXCEPT ![forming] = "ws"]
      /\ Range(pending') = Range(pending) \cup {[start |-> forming, source |-> "ws"]}
  BY Closing, ClosingQueue
<1>2. bars \in [Minutes -> Sources \cup {"none"}] /\ pending \in Seq(Bar) /\ batch \in Seq(Bar)
  BY DEF FeedInv, TypeOK
<1>3. bars'[forming] = "ws" /\ \A m \in Minutes : bars[m] # "none" => bars'[m] # "none"
  BY <1>1, <1>2
<1>4. HeldMinutes \subseteq HeldMinutes'
  BY <1>3 DEF HeldMinutes
<1>5. QueuedMinutes \subseteq QueuedMinutes'
  BY <1>1 DEF QueuedMinutes
<1>6. \A b \in Queued : b.start \in Minutes
  BY QueuedBars DEF FeedInv
<1>7. QueuedIsHeld'
  BY <1>1, <1>3, <1>6 DEF FilledInv, QueuedIsHeld, Queued
<1>8. InHandIsHeld'
  <2>1. batch # <<>> => Minute \in Minutes
    BY InHandBar DEF FeedInv
  <2> QED
    BY <1>3, <2>1 DEF FilledInv, InHandIsHeld, Minute
<1> QED
  BY <1>4, <1>5, <1>7, <1>8

\* The builder's minute closes, or its holes are noted and nothing closes.
LEMMA FilledOfBuilder ==
  ASSUME FeedInv, FilledInv, StartPass \/ \E m \in Minutes : Update(m)
  PROVE  FilledInv'
<1>1. /\ batch' = batch /\ lost' = lost
      /\ batch = <<>> \/ loop' = loop
      /\ UNCHANGED <<traded, hole, answer>> /\ flats' = flats
      /\ loop' = "repair" \/ loop' = loop
  BY DEF StartPass, Update, FilledInv, FlatsInRepair, market, repair
<1>2. \E found : NoteGaps(found) \/ UNCHANGED <<gaps, seenGaps>>
  BY DEF StartPass, Update, Roll, builder
<1>3. seenGaps' \ gaps' \subseteq seenGaps \ gaps
  BY <1>2 DEF NoteGaps
<1>4. \/ forming # None /\ CloseForming
      \/ UNCHANGED <<bars, pending>>
  BY DEF StartPass, Update, Roll, builder
<1>5. /\ QueuedIsHeld' /\ InHandIsHeld'
      /\ HeldMinutes \subseteq HeldMinutes' /\ QueuedMinutes \subseteq QueuedMinutes'
  <2>1. CASE forming # None /\ CloseForming
    BY <1>1, <2>1, FilledByClosing
  <2>2. CASE UNCHANGED <<bars, pending>>
    BY <1>1, <2>2 DEF FilledInv, QueuedIsHeld, InHandIsHeld, Queued, HeldMinutes, QueuedMinutes, Minute
  <2> QED
    BY <1>4, <2>1, <2>2
<1>6. ClearedIsFilled'
  BY <1>1, <1>3, <1>5, FilledStays DEF Filled
<1>7. FlatsInRepair'
  BY <1>1 DEF FilledInv, FlatsInRepair
<1>8. SplicedIsHeld'
  BY <1>1, <1>5 DEF FilledInv, SplicedIsHeld, Spliced, MinutesOf
<1> QED
  BY <1>5, <1>6, <1>7, <1>8 DEF FilledInv

\* A handler ends: its minute leaves the queue and is held.
LEMMA FilledOfEnds ==
  ASSUME FeedInv, FilledInv, Ends
  PROVE  FilledInv'
<1>1. /\ UNCHANGED <<bars, gaps, seenGaps, pending, flats, lost>>
      /\ loop \in {"decide", "evaluate", "acting"}
      /\ \/ loop' = "handle" /\ batch' = Tail(batch)
         \/ loop' = "acting" /\ batch' = batch
  BY DEF Ends, NotABoundary, Incomplete, Evaluate, Acted, builder, repair, At, Pop
<1>2. batch # <<>>
  BY <1>1 DEF FeedInv, BatchInHand
<1>3. /\ Head(batch) \in Bar /\ Minute \in Minutes
      /\ Range(batch) = {Head(batch)} \cup Range(Tail(batch))
  BY <1>2, InHandBar DEF FeedInv
<1>4. bars[Minute] # "none" /\ Head(batch).start = Minute
  BY <1>1, <1>2 DEF FilledInv, InHandIsHeld, Minute
<1>5. Queued' \subseteq Queued
  BY <1>1, <1>3 DEF Queued
<1>6. Filled \subseteq Filled'
  <2>1. \A b \in Queued : b \in Queued' \/ b = Head(batch)
    BY <1>1, <1>3 DEF Queued
  <2>2. Minute \in HeldMinutes' /\ HeldMinutes' = HeldMinutes
    BY <1>1, <1>3, <1>4 DEF HeldMinutes
  <2> QED
    BY <1>1, <1>4, <2>1, <2>2 DEF Filled, QueuedMinutes, Queued
<1>7. ClearedIsFilled'
  BY <1>1, <1>6, FilledStays
<1>8. QueuedIsHeld' /\ InHandIsHeld'
  BY <1>1, <1>2, <1>5 DEF FilledInv, QueuedIsHeld, InHandIsHeld, Minute
<1>9. FlatsInRepair' /\ SplicedIsHeld'
  BY <1>1 DEF FilledInv, FlatsInRepair, SplicedIsHeld
<1> QED
  BY <1>7, <1>8, <1>9 DEF FilledInv

\* The queues are handed on, the flat bars with them.
LEMMA FilledOfQueues ==
  ASSUME FeedInv, FilledInv, Queues
  PROVE  FilledInv'
<1>0. flats \in SUBSET Minutes /\ pending \in Seq(Bar) /\ batch \in Seq(Bar)
  BY DEF FeedInv, TypeOK
<1>1. UNCHANGED <<bars, gaps, seenGaps, traded, hole>>
  BY DEF Queues, RepairDone, TakeBatch, Raise, builder, market
<1>2. FlatsInRepair' /\ SplicedIsHeld'
  BY DEF Queues, RepairDone, TakeBatch, Raise, FlatsInRepair, SplicedIsHeld
<1>3. CASE RepairDone /\ caller = "pass"
  <2>1. UNCHANGED <<pending, flats, batch, lost>> /\ loop = "repair"
    BY <1>3 DEF RepairDone, history
  <2>2. Filled' = Filled
    BY <1>1, <2>1 DEF Filled, HeldMinutes, QueuedMinutes
  <2>3. ClearedIsFilled'
    BY <1>1, <2>1, <2>2, FilledStays
  <2> QED
    BY <1>1, <1>2, <2>1, <2>3 DEF FilledInv, QueuedIsHeld, InHandIsHeld, Queued, Minute
<1>4. CASE RepairDone /\ caller # "pass"
  <2>1. PICK quiet \in QuietBars : pending' = pending \o quiet
    BY <1>4 DEF RepairDone
  <2>2. /\ UNCHANGED <<batch, lost>> /\ flats' = {} /\ loop = "repair"
    BY <1>4 DEF RepairDone, history
  <2>3. Range(pending') = Range(pending) \cup Range(quiet)
    BY <1>0, <2>1, QuietBarsRange, RangeConcatenation
  <2>4. \A b \in Range(quiet) : b.source = "quiet"
    BY <1>0, QuietBarsRange
  <2>5. \A m \in flats : \E b \in Range(quiet) : b.start = m
    BY <1>0, QuietBarsAll
  <2>6. flats \subseteq QueuedMinutes' /\ QueuedMinutes \subseteq QueuedMinutes'
    BY <2>2, <2>3, <2>5 DEF QueuedMinutes
  <2>7. Filled \subseteq Filled'
    BY <1>1, <2>2, <2>6 DEF Filled, HeldMinutes
  <2>8. ClearedIsFilled'
    BY <1>1, <2>2, <2>7, FilledStays
  <2>9. QueuedIsHeld' /\ InHandIsHeld'
    BY <1>1, <2>2, <2>3, <2>4 DEF FilledInv, QueuedIsHeld, InHandIsHeld, Queued, Minute
  <2> QED
    BY <1>2, <2>8, <2>9 DEF FilledInv
<1>5. CASE TakeBatch
  <2>1. PICK quiet \in QuietBars : batch' \in InOrder(pending \o quiet)
    BY <1>5 DEF TakeBatch
  <2>2. /\ lost' = lost /\ flats' = {} /\ pending' = <<>> /\ loop' = "handle" /\ batch = <<>>
    BY <1>5 DEF TakeBatch, history, FeedInv, BatchInHand
  <2>3. Range(batch') = Range(pending) \cup Range(quiet) /\ Range(pending') = {} /\ Range(batch) = {}
    <3>1. /\ pending \o quiet \in Seq(Bar)
          /\ Range(pending \o quiet) = Range(pending) \cup Range(quiet)
      BY <1>0, QuietBarsRange, RangeConcatenation
    <3>2. Range(batch') = Range(pending) \cup Range(quiet)
      BY <2>1, <3>1, InOrderRange
    <3> QED
      BY <2>2, <3>2 DEF Range
  <2>4. \A b \in Range(quiet) : b.source = "quiet"
    BY <1>0, QuietBarsRange
  <2>5. \A m \in flats : \E b \in Range(quiet) : b.start = m
    BY <1>0, QuietBarsAll
  <2>6. flats \subseteq QueuedMinutes' /\ QueuedMinutes \subseteq QueuedMinutes'
    BY <2>3, <2>5 DEF QueuedMinutes
  <2>7. Filled \subseteq Filled'
    BY <1>1, <2>2, <2>6 DEF Filled, HeldMinutes
  <2>8. ClearedIsFilled'
    BY <1>1, <2>2, <2>7, FilledStays
  <2>9. QueuedIsHeld' /\ InHandIsHeld'
    BY <1>1, <2>2, <2>3, <2>4 DEF FilledInv, QueuedIsHeld, InHandIsHeld, Queued
  <2> QED
    BY <1>2, <2>8, <2>9 DEF FilledInv
<1>6. CASE Raise
  <2>1. /\ pending' = batch \o pending /\ batch' = <<>>
        /\ flats' = {} /\ lost' = lost \cup flats
    BY <1>6 DEF Raise, PutBack
  <2>2. Range(pending') = Range(batch) \cup Range(pending) /\ Range(batch') = {}
    <3>1. Range(pending') = Range(batch) \cup Range(pending)
      BY <1>0, <2>1, RangeConcatenation
    <3>2. Range(batch') = {}
      BY <2>1 DEF Range
    <3> QED
      BY <3>1, <3>2
  <2>3. QueuedIsHeld' /\ InHandIsHeld'
    BY <1>1, <2>1, <2>2 DEF FilledInv, QueuedIsHeld, InHandIsHeld, Queued
  <2>4. Filled \subseteq Filled'
    <3>1. QueuedMinutes' = QueuedMinutes
      BY <2>2 DEF QueuedMinutes
    <3> QED
      BY <1>1, <2>1, <3>1 DEF Filled, HeldMinutes
  <2>5. ClearedIsFilled'
    BY <1>1, <2>4, FilledStays
  <2> QED
    BY <1>2, <2>3, <2>5 DEF FilledInv
<1> QED
  BY <1>3, <1>4, <1>5, <1>6 DEF Queues

\* A hole is settled: REST had all its minutes, traded or flat.
LEMMA FilledBySettling ==
  ASSUME FilledInv, lost' = lost, NEW absent, Settle(absent),
         UNCHANGED <<bars, seenGaps, pending, batch, traded, hole>>,
         Spliced(hole, absent) \subseteq HeldMinutes
  PROVE  ClearedIsFilled'
<1>1. /\ flats' = flats \cup Fillers(hole, absent)
      /\ gaps' = IF Complete(hole, absent) THEN gaps \ {hole} ELSE gaps
  BY DEF Settle
<1>2. HeldMinutes' = HeldMinutes /\ QueuedMinutes' = QueuedMinutes
  BY DEF HeldMinutes, QueuedMinutes
<1>3. Filled \subseteq Filled'
  BY <1>1, <1>2 DEF Filled
<1>4. Complete(hole, absent) => MinutesOf(hole) \subseteq Filled'
  BY <1>1, <1>2 DEF Complete, Filled
<1>5. ASSUME NEW g \in seenGaps' \ gaps'
      PROVE  MinutesOf(g) \subseteq Filled'
  <2>1. CASE g \in seenGaps \ gaps
    BY <1>3, <1>5, <2>1 DEF FilledInv, ClearedIsFilled, Filled
  <2>2. CASE g \notin seenGaps \ gaps
    <3>1. g = hole /\ Complete(hole, absent)
      BY <1>1, <1>5, <2>2
    <3> QED
      BY <1>4, <3>1
  <2> QED
    BY <2>1, <2>2
<1> QED
  BY <1>5 DEF ClearedIsFilled, Filled, MinutesOf

\* REST answers, at once or after what it had is saved.
LEMMA FilledOfRest ==
  ASSUME FeedInv, FilledInv, RestAnswers \/ SplicedSaved
  PROVE  FilledInv'
<1>0. /\ UNCHANGED <<market, seenGaps, pending, batch, hole, history>>
      /\ loop \in {"rest", "splice"} /\ loop' \in {"repair", "splice"}
      /\ bars \in [Minutes -> Sources \cup {"none"}] /\ traded' = traded
  BY DEF RestAnswers, SplicedSaved, Settle, FeedInv, TypeOK, market
<1>1. MinutesOf(hole) \subseteq Minutes
  <2>1. hole \in Gap
    BY DEF FeedInv, TypeOK
  <2> QED
    BY <2>1, MinutesAssumption DEF Gap, MinutesOf, Minutes
<1>2. FlatsInRepair'
  BY <1>0 DEF FlatsInRepair
<1>3. \/ bars' = bars
      \/ \E ms : Splice(ms)
  BY DEF RestAnswers, SplicedSaved
<1>4. \A m \in Minutes : bars[m] # "none" => bars'[m] # "none"
  BY <1>0, <1>3 DEF Splice
<1>5. QueuedIsHeld'
  <2>1. \A b \in Queued : b.start \in Minutes
    BY QueuedBars DEF FeedInv
  <2> QED
    BY <1>0, <1>4, <2>1 DEF FilledInv, QueuedIsHeld, Queued
<1>6. InHandIsHeld'
  <2>1. batch # <<>> => Minute \in Minutes
    BY InHandBar DEF FeedInv
  <2> QED
    BY <1>0, <1>4, <2>1 DEF FilledInv, InHandIsHeld, Minute
<1>7. SplicedIsHeld' /\ ClearedIsFilled'
  <2>1. CASE SplicedSaved
    <3>1. Settle(answer) /\ UNCHANGED bars /\ loop = "splice" /\ lost' = lost
      BY <2>1 DEF SplicedSaved, history
    <3>2. Spliced(hole, answer) \subseteq HeldMinutes
      BY <3>1 DEF FilledInv, SplicedIsHeld
    <3> QED
      BY <1>0, <3>1, <3>2, FilledBySettling DEF SplicedIsHeld, Settle
  <2>2. CASE RestAnswers
    <3>1. PICK absent \in SUBSET MinutesOf(hole) :
            \/ /\ Spliced(hole, absent) = {}
               /\ Settle(absent)
               /\ UNCHANGED <<bars, lastClosed, answer>>
            \/ /\ Splice(Spliced(hole, absent))
               /\ answer' = absent /\ loop' = "splice"
               /\ UNCHANGED <<gaps, flats>>
      BY <2>2 DEF RestAnswers
    <3>2. lost' = lost
      BY <1>0 DEF history
    <3>3. CASE /\ Spliced(hole, absent) = {}
               /\ Settle(absent)
               /\ UNCHANGED <<bars, lastClosed, answer>>
      BY <1>0, <3>2, <3>3, FilledBySettling DEF SplicedIsHeld, Settle
    <3>4. CASE /\ Splice(Spliced(hole, absent))
               /\ answer' = absent /\ loop' = "splice"
               /\ UNCHANGED <<gaps, flats>>
      <4>1. Spliced(hole, absent) \subseteq Minutes
        BY <1>1 DEF Spliced
      <4>2. \A m \in Spliced(hole, absent) : bars'[m] # "none"
        BY <3>4, <4>1 DEF Splice
      <4>3. SplicedIsHeld'
        BY <1>0, <3>4, <4>1, <4>2 DEF SplicedIsHeld, Spliced, MinutesOf, HeldMinutes
      <4>4. Filled \subseteq Filled'
        BY <1>0, <1>4, <3>2, <3>4 DEF Filled, HeldMinutes, QueuedMinutes
      <4>5. ClearedIsFilled'
        BY <1>0, <3>2, <3>4, <4>4, FilledStays
      <4> QED
        BY <4>3, <4>5
    <3> QED
      BY <3>1, <3>3, <3>4
  <2> QED
    BY <2>1, <2>2
<1> QED
  BY <1>2, <1>5, <1>6, <1>7 DEF FilledInv

\* A flat bar is put into the builder before its handler awaits anything.
LEMMA FilledOfBar ==
  ASSUME FeedInv, FilledInv, HandleBar
  PROVE  FilledInv'
<1> DEFINE bar == Head(batch)
<1>1. /\ UNCHANGED <<gaps, seenGaps, pending, flats, lost, traded, hole>>
      /\ loop = "handle" /\ batch # <<>>
      /\ \/ /\ batch' = batch /\ loop' = "saving"
            /\ bar.source # "quiet" \/ bars[bar.start] \in {"none", "quiet"}
            /\ IF bar.source = "quiet" /\ bars[bar.start] = "none"
                 THEN bars' = [bars EXCEPT ![bar.start] = "quiet"]
                 ELSE bars' = bars
         \/ /\ batch' = Tail(batch) /\ loop' = "handle" /\ bars' = bars
            /\ bars[bar.start] \notin {"none", "quiet"}
  BY DEF HandleBar, repair, market
<1>2. /\ bar \in Bar /\ bar.start \in Minutes /\ Minute = bar.start
      /\ Range(batch) = {bar} \cup Range(Tail(batch))
  BY <1>1, InHandBar DEF FeedInv, Bar, Minute
<1>3. bars \in [Minutes -> Sources \cup {"none"}]
  BY DEF FeedInv, TypeOK
<1>4. \A b \in Queued : b.start \in Minutes
  BY QueuedBars DEF FeedInv
<1>5. bar \in Queued
  BY <1>2 DEF Queued
<1> HIDE DEF bar
<1>6. \A m \in Minutes : bars[m] # "none" => bars'[m] # "none"
  BY <1>1, <1>2, <1>3
<1>7. bars'[bar.start] # "none"
  BY <1>1, <1>2, <1>3, <1>5 DEF FilledInv, QueuedIsHeld
<1>8. Queued' \subseteq Queued /\ \A b \in Queued : b \in Queued' \/ b = bar
  BY <1>1, <1>2 DEF Queued
<1>9. QueuedIsHeld'
  BY <1>4, <1>6, <1>8 DEF FilledInv, QueuedIsHeld
<1>10. InHandIsHeld'
  BY <1>1, <1>2, <1>7 DEF InHandIsHeld, Minute
<1>11. Filled \subseteq Filled'
  <2>1. HeldMinutes \subseteq HeldMinutes' /\ bar.start \in HeldMinutes'
    BY <1>2, <1>6, <1>7 DEF HeldMinutes
  <2>2. QueuedMinutes \subseteq QueuedMinutes' \cup {bar.start}
    BY <1>8 DEF QueuedMinutes, Queued
  <2> QED
    BY <1>1, <2>1, <2>2 DEF Filled
<1>12. ClearedIsFilled'
  BY <1>1, <1>11, FilledStays
<1>13. FlatsInRepair' /\ SplicedIsHeld'
  BY <1>1 DEF FilledInv, FlatsInRepair, SplicedIsHeld
<1> QED
  BY <1>9, <1>10, <1>12, <1>13 DEF FilledInv

\* The other steps leave the holes and the queues alone.
LEMMA FilledOfRestless ==
  ASSUME FeedInv, FilledInv, Aside \/ Reconcile \/ UNCHANGED vars
  PROVE  FilledInv'
<1>1. /\ UNCHANGED <<gaps, seenGaps, pending, batch, lost, traded>>
      /\ flats' = flats
      /\ loop' = loop \/ (loop # "handle" /\ loop' \notin {"handle", "splice"})
      /\ loop' = "splice" => UNCHANGED <<hole, answer>>
      /\ loop' \notin {"repair", "rest", "splice", "others"}
           => loop \notin {"repair", "rest", "splice", "others"}
  BY DEF Aside, NextMinute, AskRest, RestFails, BarSaved, Reconciled, Reconcile, vars, builder,
         repair, history, market, FilledInv, FlatsInRepair, At
<1>2. \A m \in Minutes : bars'[m] = "none" <=> bars[m] = "none"
  <2>1. CASE Reconcile
    BY <2>1 DEF Reconcile, FromSocket, FeedInv, TypeOK
  <2>2. CASE Aside \/ UNCHANGED vars
    BY <2>2 DEF Aside, NextMinute, AskRest, RestFails, BarSaved, Reconciled, vars, builder
  <2> QED
    BY <2>1, <2>2
<1>3. HeldMinutes' = HeldMinutes
  BY <1>2 DEF HeldMinutes
<1>4. Filled \subseteq Filled'
  BY <1>1, <1>3 DEF Filled, QueuedMinutes
<1>5. ClearedIsFilled'
  BY <1>1, <1>4, FilledStays
<1>6. QueuedIsHeld'
  <2>1. \A b \in Queued : b.start \in Minutes
    BY QueuedBars DEF FeedInv
  <2> QED
    BY <1>1, <1>2, <2>1 DEF FilledInv, QueuedIsHeld, Queued
<1>7. InHandIsHeld'
  <2>1. batch # <<>> => Minute \in Minutes
    BY InHandBar DEF FeedInv
  <2> QED
    BY <1>1, <1>2, <2>1 DEF FilledInv, InHandIsHeld, Minute
<1>8. FlatsInRepair'
  BY <1>1 DEF FilledInv, FlatsInRepair
<1>9. SplicedIsHeld'
  BY <1>1, <1>3 DEF FilledInv, SplicedIsHeld, Spliced, MinutesOf
<1> QED
  BY <1>5, <1>6, <1>7, <1>8, <1>9 DEF FilledInv

(***************************************************************************)
(* A hole that no longer counts against health is filled, but for the flat *)
(* bars a raising repair threw away.                                       *)
(***************************************************************************)
THEOREM SettledIsFilled == Spec => []ClearedIsFilled
<1>1. Init => FilledInv
  BY DEF Init, FilledInv, QueuedIsHeld, InHandIsHeld, FlatsInRepair, SplicedIsHeld,
         ClearedIsFilled, Queued, Range
<1>2. FeedInv /\ FilledInv /\ [Next]_vars => FilledInv'
  BY FilledOfBuilder, FilledOfEnds, FilledOfQueues, FilledOfRest, FilledOfBar, FilledOfRestless
     DEF Next, LoopStep, Aside, Ends, Queues
<1>3. FilledInv => ClearedIsFilled
  BY DEF FilledInv
<1> QED
  BY <1>1, <1>2, <1>3, FeedInvariance, PTL DEF Spec

-----------------------------------------------------------------------------
(* The detector's state is what it was shown *)

\* A run is counted bar by bar.
RunsCounted ==
  \A i \in 1..(Len(observed) + 1) :
    /\ RunBefore(i) \in 0..(i - 1)
    /\ i <= Len(observed) =>
         RunBefore(i + 1) = IF observed[i].flat THEN RunBefore(i) + 1 ELSE 0

LEMMA RunsAreCounted == TypeOK => RunsCounted
<1> SUFFICES ASSUME TypeOK, NEW i \in 1..(Len(observed) + 1)
             PROVE  /\ RunBefore(i) \in 0..(i - 1)
                    /\ i <= Len(observed) =>
                         RunBefore(i + 1) = IF observed[i].flat THEN RunBefore(i) + 1 ELSE 0
  BY DEF RunsCounted
<1>1. Len(observed) \in Nat /\ i \in Nat /\ i >= 1 /\ i - 1 \in Nat
  BY DEF TypeOK
<1> DEFINE Reals(k) == {0} \cup {j \in 1..(k - 1) : ~observed[j].flat}
<1>2. \A k \in Nat : k >= 1 => RunBefore(k) = (k - 1) - Max(Reals(k))
  BY DEF RunBefore
<1>3. \A k \in Nat : k >= 1 =>
        /\ Max(Reals(k)) \in Reals(k) /\ Reals(k) \subseteq 0..(k - 1)
        /\ \A j \in Reals(k) : j <= Max(Reals(k))
  <2> SUFFICES ASSUME NEW k \in Nat, k >= 1
               PROVE  /\ Max(Reals(k)) \in Reals(k) /\ Reals(k) \subseteq 0..(k - 1)
                      /\ \A j \in Reals(k) : j <= Max(Reals(k))
    OBVIOUS
  <2>1. Reals(k) \in SUBSET (0..(k - 1)) /\ Reals(k) # {} /\ k - 1 \in Nat
    OBVIOUS
  <2> HIDE DEF Reals
  <2> QED
    BY <2>1, MaxProps
<1>4. RunBefore(i) \in 0..(i - 1)
  <2>1. Max(Reals(i)) \in 0..(i - 1)
    BY <1>1, <1>3
  <2> HIDE DEF Reals
  <2> QED
    BY <1>1, <1>2, <2>1
<1>5. ASSUME i <= Len(observed), observed[i].flat
      PROVE  RunBefore(i + 1) = RunBefore(i) + 1
  <2>1. Reals(i + 1) = Reals(i)
    BY <1>1, <1>5
  <2>2. Max(Reals(i)) \in 0..(i - 1)
    BY <1>1, <1>3
  <2> HIDE DEF Reals
  <2>3. RunBefore(i + 1) = i - Max(Reals(i)) /\ RunBefore(i) = (i - 1) - Max(Reals(i))
    <3>1. i + 1 \in Nat /\ i + 1 >= 1 /\ (i + 1) - 1 = i
      BY <1>1
    <3> QED
      BY <1>1, <1>2, <2>1, <3>1
  <2> QED
    BY <1>1, <2>2, <2>3
<1>6. ASSUME i <= Len(observed), ~observed[i].flat
      PROVE  RunBefore(i + 1) = 0
  <2>1. i + 1 \in Nat /\ i + 1 >= 1 /\ (i + 1) - 1 = i
    BY <1>1
  <2>2. i \in Reals(i + 1)
    BY <1>1, <1>6, <2>1
  <2>3. Max(Reals(i + 1)) \in 0..i /\ i <= Max(Reals(i + 1))
    BY <1>3, <2>1, <2>2
  <2> HIDE DEF Reals
  <2>4. Max(Reals(i + 1)) = i
    BY <1>1, <2>3
  <2> QED
    BY <1>1, <1>2, <2>1, <2>4
<1> QED
  BY <1>4, <1>5, <1>6

\* The same after a step.
LEMMA RunsAreCountedAfter == TypeOK' => RunsCounted'
  BY RunsAreCounted, PTL

\* A bar shown does not change what was shown before.
LEMMA ShownStays ==
  ASSUME TypeOK, NEW o, observed' = Append(observed, o)
  PROVE  /\ Len(observed)' = Len(observed) + 1 /\ observed'[Len(observed) + 1] = o
         /\ \A i \in 1..(Len(observed) + 1) : RunBefore(i)' = RunBefore(i)
         /\ \A i \in 1..Len(observed) :
              /\ InHalt(i)' = InHalt(i) /\ IsReopen(i)' = IsReopen(i)
              /\ AfterReopen(i)' = AfterReopen(i) /\ observed'[i] = observed[i]
<1>1. /\ Len(observed) \in Nat /\ Len(observed') = Len(observed) + 1
      /\ observed'[Len(observed) + 1] = o
      /\ \A i \in 1..Len(observed) : observed'[i] = observed[i]
  BY DEF TypeOK
<1>2. ASSUME NEW i \in 1..(Len(observed) + 1)
      PROVE  RunBefore(i)' = RunBefore(i)
  <2>1. \A j \in 1..(i - 1) : observed'[j] = observed[j]
    BY <1>1
  <2>2. {j \in 1..(i - 1) : ~observed'[j].flat} = {j \in 1..(i - 1) : ~observed[j].flat}
    BY <2>1
  <2> QED
    BY <2>2 DEF RunBefore
<1>3. ASSUME NEW i \in 1..Len(observed)
      PROVE  InHalt(i)' = InHalt(i) /\ IsReopen(i)' = IsReopen(i)
  BY <1>1, <1>2 DEF InHalt, IsReopen
<1>4. ASSUME NEW i \in 1..Len(observed)
      PROVE  AfterReopen(i)' = AfterReopen(i)
  <2>1. RunBefore(i) \in 0..(i - 1) /\ RunBefore(i)' = RunBefore(i)
    BY <1>1, <1>2, RunsAreCounted DEF RunsCounted
  <2>2. PICK j \in Int : j = (i - 1) - RunBefore(i)
    BY <1>1, <2>1
  <2>3. j > 0 => j \in 1..Len(observed)
    BY <1>1, <2>1, <2>2
  <2>4. j > 0 => IsReopen(j)' = IsReopen(j)
    BY <1>3, <2>3
  <2> QED
    BY <2>1, <2>2, <2>4 DEF AfterReopen
<1> QED
  BY <1>1, <1>2, <1>3, <1>4

\* The detector knows the flat run; it is live only in a run too short for a
\* halt, and reopening only since a reopen bar.
HaltIsShown ==
  LET n == Len(observed)
  IN /\ halt.run = RunBefore(n + 1)
     /\ halt.state = "LIVE" => halt.run < MinRun
     /\ halt.state = "HALTED" => halt.run >= MinRun
     /\ halt.state = "REOPENING" => n - halt.run > 0 /\ IsReopen(n - halt.run)
     /\ halt.state = "LIVE" /\ n > 0 /\ IsReopen(n) => AfterReopen(n)

\* The bar in hand is the last one shown.
HandIsShown ==
  batch # <<>> /\ loop # "handle" =>
    Len(observed) > 0 /\ observed[Len(observed)].start = Minute

\* A decision is about the bar shown last before it.
DecisionsShown ==
  \A d \in Range(decisions) :
    /\ d.shown > 0 /\ d.shown <= Len(observed) /\ observed[d.shown].start = d.at
    /\ (InHalt(d.shown) \/ IsReopen(d.shown)) /\ ~AfterReopen(d.shown) => ~d.live

HaltInv == HaltIsShown /\ HandIsShown /\ DecisionsShown

LEMMA HaltInit == Init => HaltInv
<1> SUFFICES ASSUME Init PROVE HaltInv
  OBVIOUS
<1>1. PICK run \in {0, MinRun} :
        /\ halt = Primed(run)
        /\ observed = [i \in 1..run |-> [start |-> 0, flat |-> TRUE]]
  BY DEF Init
<1>2. run \in Nat /\ MinRun \in Nat /\ MinRun > 0
  BY RunAssumption
<1>3. observed \in Seq([start : {0}, flat : {TRUE}])
  BY <1>1, <1>2, IsASeq
<1>4. Len(observed) = run /\ \A i \in 1..run : observed[i].flat
  BY <1>1, <1>2, <1>3
<1>5. RunBefore(run + 1) = run
  <2>1. {j \in 1..((run + 1) - 1) : ~observed[j].flat} = {} /\ (run + 1) - 1 = run
    BY <1>2, <1>4
  <2>2. Max({0} \cup {}) = 0
    <3>1. {0} \cup {} \in SUBSET (0..0) /\ {0} \cup {} # {} /\ 0 \in Nat
      OBVIOUS
    <3>2. Max({0} \cup {}) \in {0} \cup {}
      BY <3>1, MaxProps
    <3> QED
      BY <3>2
  <2> QED
    <3>1. RunBefore(run + 1) = ((run + 1) - 1) - Max({0} \cup {})
      BY <2>1 DEF RunBefore
    <3> QED
      BY <1>2, <2>1, <2>2, <3>1
<1>6. /\ halt.run = run
      /\ halt.state = "LIVE" => run < MinRun
      /\ halt.state = "HALTED" => run >= MinRun
      /\ halt.state # "REOPENING"
  <2>1. halt.state = IF run >= MinRun THEN "HALTED" ELSE "LIVE"
    BY <1>1 DEF Primed
  <2>2. halt.run = run
    BY <1>1 DEF Primed
  <2> QED
    BY <1>2, <2>1, <2>2
<1>7. HaltIsShown
  BY <1>2, <1>4, <1>5, <1>6 DEF HaltIsShown, IsReopen
<1>8. DecisionsShown /\ HandIsShown
  BY DEF Init, DecisionsShown, HandIsShown, Range
<1> QED
  BY <1>7, <1>8 DEF HaltInv

\* Only a bar that is shown comes into hand.
LEMMA HandStep ==
  ASSUME FeedInv, HandIsShown, [Next]_vars
  PROVE  HandIsShown'
<1>1. CASE UNCHANGED <<batch, loop, observed>>
  BY <1>1 DEF HandIsShown, Minute
<1>2. CASE batch' = <<>> \/ loop' = "handle"
  BY <1>2 DEF HandIsShown
<1>3. CASE UNCHANGED <<batch, observed>> /\ loop # "handle"
  BY <1>3 DEF HandIsShown, Minute
<1>4. CASE HandleBar
  <2>1. CASE /\ batch' = batch
             /\ \E flat \in BOOLEAN :
                  observed' = Append(observed, [start |-> Minute, flat |-> flat])
    <3>1. PICK flat \in BOOLEAN :
            observed' = Append(observed, [start |-> Minute, flat |-> flat])
      BY <2>1
    <3>2. PICK n \in Nat : n = Len(observed) /\ observed \in Seq([start : Minutes, flat : BOOLEAN])
      BY DEF FeedInv, TypeOK
    <3>3. Len(observed') = n + 1 /\ observed'[n + 1].start = Minute
      BY <3>1, <3>2
    <3>4. n + 1 > 0
      BY <3>2
    <3> QED
      BY <2>1, <3>3, <3>4 DEF HandIsShown, Minute
  <2>2. \/ loop' = "handle"
        \/ /\ batch' = batch
           /\ \E flat \in BOOLEAN :
                observed' = Append(observed, [start |-> Minute, flat |-> flat])
    BY <1>4 DEF HandleBar, Shown, Minute
  <2> QED
    BY <1>2, <2>1, <2>2
<1>5. CASE ~HandleBar
  <2>1. CASE NextMinute \/ (\E m \in Minutes : Update(m)) \/ UNCHANGED vars
    BY <1>1, <2>1 DEF NextMinute, Update, history, vars
  <2>2. CASE StartPass \/ TakeBatch \/ Raise \/ NotABoundary \/ Incomplete \/ Acted
    BY <1>2, <2>2 DEF StartPass, TakeBatch, Raise, NotABoundary, Incomplete, Acted, Pop
  <2>3. CASE AskRest \/ RestAnswers \/ RestFails \/ SplicedSaved \/ RepairDone \/ BarSaved
               \/ Reconcile \/ Reconciled
    BY <1>3, <2>3 DEF AskRest, RestAnswers, RestFails, SplicedSaved, RepairDone, BarSaved,
      Reconcile, Reconciled, At, history
  <2>4. CASE Evaluate
    BY <1>2, <1>3, <2>4 DEF Evaluate, Pop, At
  <2> QED
    BY <1>5, <2>1, <2>2, <2>3, <2>4 DEF Next, LoopStep
<1> QED
  BY <1>4, <1>5

\* The detector shown a bar.
LEMMA HaltObserves ==
  ASSUME TypeOK, TypeOK', HaltIsShown, NEW flat \in BOOLEAN, NEW m,
         halt' = Observe(flat), observed' = Append(observed, [start |-> m, flat |-> flat])
  PROVE  HaltIsShown'
<1>1. PICK n \in Nat, run \in Nat, next \in Nat :
        n = Len(observed) /\ run = halt.run /\ next = halt'.run
  BY DEF TypeOK, HaltState
<1>2. /\ Len(observed') = n + 1 /\ observed'[n + 1].flat = flat
      /\ \A i \in 1..(n + 1) : RunBefore(i)' = RunBefore(i)
      /\ \A i \in 1..n : IsReopen(i)' = IsReopen(i)
  BY <1>1, ShownStays
<1>3. run = RunBefore(n + 1) /\ run \in 0..n
  BY <1>1, RunsAreCounted DEF HaltIsShown, RunsCounted
<1>4. /\ MinRun \in Nat /\ MinRun > 0
      /\ halt.state \in {"LIVE", "HALTED", "REOPENING"}
  BY RunAssumption DEF TypeOK, HaltState
<1>5. RunBefore(n + 1)' = run
  BY <1>2, <1>3
<1>6. RunBefore(n + 2)' = IF flat THEN run + 1 ELSE 0
  <2>1. n + 1 \in 1..(Len(observed') + 1) /\ n + 1 <= Len(observed') /\ (n + 1) + 1 = n + 2
    BY <1>2
  <2> QED
    BY <1>2, <1>5, <2>1, RunsAreCountedAfter DEF RunsCounted
<1>7. IsReopen(n + 1)' <=> ~flat /\ run >= MinRun
  BY <1>2, <1>5 DEF IsReopen
<1>8. AfterReopen(n + 1)' <=> n - run > 0 /\ IsReopen(n - run)
  <2>1. ((n + 1) - 1) - run = n - run /\ (n - run > 0 => n - run \in 1..n)
    BY <1>3
  <2>2. AfterReopen(n + 1)' <=> n - run > 0 /\ IsReopen(n - run)'
    BY <1>5, <2>1 DEF AfterReopen
  <2> QED
    BY <1>2, <2>1, <2>2
<1>9. /\ halt.state = "LIVE" => run < MinRun
      /\ halt.state = "HALTED" => run >= MinRun
      /\ halt.state = "REOPENING" => n - run > 0 /\ IsReopen(n - run)
  BY <1>1 DEF HaltIsShown
<1> SUFFICES /\ next = RunBefore(n + 2)'
             /\ halt'.state = "LIVE" => next < MinRun
             /\ halt'.state = "HALTED" => next >= MinRun
             /\ halt'.state = "REOPENING" => (n + 1) - next > 0 /\ IsReopen((n + 1) - next)'
             /\ halt'.state = "LIVE" /\ IsReopen(n + 1)' => AfterReopen(n + 1)'
  <2>1. Len(observed') = n + 1 /\ (n + 1) + 1 = n + 2 /\ n + 1 > 0 /\ halt'.run = next
    BY <1>1, <1>2
  <2> QED
    BY <2>1 DEF HaltIsShown
<1>10. CASE flat
  <2>1. /\ next = run + 1
        /\ halt'.state = IF run + 1 >= MinRun /\ halt.state = "LIVE" THEN "HALTED" ELSE halt.state
    BY <1>1, <1>10 DEF Observe
  <2>2. next = RunBefore(n + 2)' /\ ~IsReopen(n + 1)'
    BY <1>6, <1>7, <1>10, <2>1
  <2>3. halt'.state = "LIVE" => next < MinRun
    BY <1>4, <2>1
  <2>4. halt'.state = "HALTED" => next >= MinRun
    BY <1>4, <1>9, <2>1
  <2>5. halt'.state = "REOPENING" => (n + 1) - next > 0 /\ IsReopen((n + 1) - next)'
    <3>1. (n + 1) - next = n - run /\ (n - run > 0 => n - run \in 1..n)
      BY <1>3, <2>1
    <3>2. halt'.state = "REOPENING" => halt.state = "REOPENING"
      BY <2>1
    <3> QED
      BY <1>2, <1>9, <3>1, <3>2
  <2> QED
    BY <2>2, <2>3, <2>4, <2>5
<1>11. CASE ~flat
  <2>1. next = 0 /\ halt'.state = IF halt.state = "HALTED" THEN "REOPENING" ELSE "LIVE"
    BY <1>1, <1>11 DEF Observe
  <2>2. next = RunBefore(n + 2)'
    BY <1>6, <1>11, <2>1
  <2>3. halt'.state = "LIVE" => next < MinRun
    BY <1>4, <2>1
  <2>4. halt'.state # "HALTED"
    BY <2>1
  <2>5. halt'.state = "REOPENING" => (n + 1) - next > 0 /\ IsReopen((n + 1) - next)'
    <3>1. (n + 1) - next = n + 1 /\ n + 1 > 0
      BY <2>1
    <3> QED
      BY <1>7, <1>9, <1>11, <2>1, <3>1
  <2>6. halt'.state = "LIVE" /\ IsReopen(n + 1)' => AfterReopen(n + 1)'
    BY <1>4, <1>7, <1>8, <1>9, <2>1
  <2> QED
    BY <2>2, <2>3, <2>4, <2>5, <2>6
<1> QED
  BY <1>10, <1>11

\* What the decisions made say stays true when another bar is shown.
LEMMA DecisionsStay ==
  ASSUME TypeOK, DecisionsShown, decisions' = decisions,
         NEW o, observed' = Append(observed, o)
  PROVE  DecisionsShown'
<1>1. PICK n \in Nat : n = Len(observed) /\ observed \in Seq([start : Minutes, flat : BOOLEAN])
  BY DEF TypeOK
<1>2. /\ Len(observed') = n + 1
      /\ \A i \in 1..n : /\ InHalt(i)' = InHalt(i) /\ IsReopen(i)' = IsReopen(i)
                         /\ AfterReopen(i)' = AfterReopen(i) /\ observed'[i] = observed[i]
  BY <1>1, ShownStays
<1> SUFFICES ASSUME NEW d \in Range(decisions)
             PROVE  /\ d.shown > 0 /\ d.shown <= Len(observed') /\ observed'[d.shown].start = d.at
                    /\ (InHalt(d.shown)' \/ IsReopen(d.shown)') /\ ~AfterReopen(d.shown)' => ~d.live
  BY DEF DecisionsShown
<1>3. d.shown \in Nat
  BY DecisionsTyped DEF Range, Decision
<1>4. /\ d.shown \in 1..n /\ observed[d.shown].start = d.at
      /\ (InHalt(d.shown) \/ IsReopen(d.shown)) /\ ~AfterReopen(d.shown) => ~d.live
  BY <1>1, <1>3 DEF DecisionsShown
<1> QED
  BY <1>1, <1>2, <1>4

LEMMA HaltStep ==
  ASSUME FeedInv, FeedInv', HaltInv, [Next]_vars
  PROVE  HaltInv'
<1>1. TypeOK /\ TypeOK' /\ HandIsShown'
  BY HandStep DEF FeedInv, HaltInv
<1>2. CASE UNCHANGED <<halt, observed, decisions>>
  BY <1>1, <1>2 DEF HaltInv, HaltIsShown, DecisionsShown, InHalt, IsReopen, AfterReopen, RunBefore
<1>3. CASE HandleBar
  <2> DEFINE flat == Head(batch).source = "quiet" \/ Head(batch).start \notin traded
  <2>1. \/ UNCHANGED <<halt, observed, decisions>>
        \/ /\ halt' = Observe(flat) /\ decisions' = decisions
           /\ observed' = Append(observed, [start |-> Head(batch).start, flat |-> flat])
    BY <1>3 DEF HandleBar, Shown
  <2>2. flat \in BOOLEAN
    OBVIOUS
  <2> HIDE DEF flat
  <2>3. CASE /\ halt' = Observe(flat) /\ decisions' = decisions
             /\ observed' = Append(observed, [start |-> Head(batch).start, flat |-> flat])
    <3>1. HaltIsShown'
      BY <1>1, <2>2, <2>3, HaltObserves DEF HaltInv
    <3>2. DecisionsShown'
      BY <1>1, <2>3, DecisionsStay DEF HaltInv
    <3> QED
      BY <1>1, <3>1, <3>2 DEF HaltInv
  <2> QED
    BY <1>2, <2>1, <2>3
<1>4. CASE Evaluate
  <2> DEFINE n == Len(observed)
             d == DecisionAt(Minute)
  <2>1. /\ UNCHANGED <<halt, observed>>
        /\ decisions' = decisions \/ decisions' = Append(decisions, d)
    BY <1>4 DEF Evaluate
  <2>2. /\ decisions \in Seq(Decision) /\ n \in Nat /\ Minute \in Minutes
        /\ n > 0 /\ observed[n].start = Minute
    <3>1. batch # <<>> /\ loop # "handle"
      BY <1>4 DEF Evaluate, At, FeedInv, BatchInHand
    <3> QED
      BY <1>1, <3>1, InHandBar DEF TypeOK, HaltInv, HandIsShown
  <2>3. d \in Decision /\ d.at = Minute /\ d.shown = n /\ (d.live <=> halt.state = "LIVE")
    BY <1>1, <2>2, DecisionOfMinute
  <2>4. (InHalt(n) \/ IsReopen(n)) /\ ~AfterReopen(n) => halt.state # "LIVE"
    <3>1. InHalt(n) => halt.state # "LIVE"
      <4> SUFFICES ASSUME InHalt(n)  PROVE halt.state # "LIVE"
        OBVIOUS
      <4>1. halt.run = RunBefore(n + 1) /\ (halt.state = "LIVE" => halt.run < MinRun)
        BY DEF HaltInv, HaltIsShown
      <4>2. observed[n].flat /\ RunBefore(n) + 1 >= MinRun
        BY DEF InHalt
      <4> HIDE DEF n
      <4>3. n \in 1..Len(observed) /\ n \in 1..(Len(observed) + 1) /\ n + 1 \in 1..(Len(observed) + 1)
        BY <2>2 DEF n
      <4>4. n <= Len(observed)
        BY <4>3, <2>2 DEF n
      <4>5. RunsCounted
        BY <1>1, RunsAreCounted
      <4>6. RunBefore(n + 1) = RunBefore(n) + 1 /\ RunBefore(n) \in Nat
        BY <2>2, <4>2, <4>3, <4>4, <4>5 DEF RunsCounted
      <4>7. MinRun \in Nat /\ halt.run \in Nat /\ halt.run >= MinRun
        BY <4>1, <4>2, <4>6, RunAssumption
      <4> QED
        BY <4>1, <4>7
    <3>2. IsReopen(n) /\ ~AfterReopen(n) => halt.state # "LIVE"
      BY <2>2 DEF HaltInv, HaltIsShown
    <3> QED
      BY <3>1, <3>2
  <2> HIDE DEF d, n
  <2>5. Range(decisions') \subseteq Range(decisions) \cup {d}
    BY <2>1, <2>2, <2>3, AppendRange
  <2>6. DecisionsShown'
    <3> SUFFICES ASSUME NEW c \in Range(decisions')
                 PROVE  /\ c.shown > 0 /\ c.shown <= Len(observed) /\ observed[c.shown].start = c.at
                        /\ (InHalt(c.shown) \/ IsReopen(c.shown)) /\ ~AfterReopen(c.shown) => ~c.live
      BY <2>1 DEF DecisionsShown, InHalt, IsReopen, AfterReopen, RunBefore
    <3>1. CASE c \in Range(decisions)
      BY <3>1 DEF HaltInv, DecisionsShown
    <3>2. CASE c = d
      BY <2>2, <2>3, <2>4, <3>2 DEF n
    <3> QED
      BY <2>5, <3>1, <3>2
  <2>7. HaltIsShown'
    BY <2>1 DEF HaltInv, HaltIsShown, IsReopen, AfterReopen, RunBefore
  <2> QED
    BY <1>1, <2>6, <2>7 DEF HaltInv
<1>5. CASE ~HandleBar /\ ~Evaluate
  <2>1. UNCHANGED <<halt, observed, decisions>>
    BY <1>5 DEF Next, LoopStep, NextMinute, StartPass, AskRest, RestAnswers, RestFails,
        SplicedSaved, RepairDone, TakeBatch, BarSaved, NotABoundary, Reconcile,
        Reconciled, Incomplete, Acted, Raise, Update, history, vars
  <2> QED
    BY <1>2, <2>1
<1> QED
  BY <1>3, <1>4, <1>5

(***************************************************************************)
(* No decision is live in a halt or about the bar that reopened it, unless *)
(* that bar was put back or the halt began right behind a reopen bar.      *)
(***************************************************************************)
THEOREM HaltIsSuppressed == Spec => []HaltSuppresses
<1>1. FeedInv /\ FeedInv' /\ HaltInv /\ [Next]_vars => HaltInv'
  BY HaltStep
<1>2. TypeOK /\ HaltInv => HaltSuppresses
  <2> SUFFICES ASSUME TypeOK, HaltInv, NEW d \in Range(decisions),
                      \/ d.shown > 0 /\ InHalt(d.shown) /\ ~AfterReopen(d.shown)
                      \/ ReopenBar(d) /\ ShownOnce(d)
               PROVE  ~d.live
    BY DEF HaltSuppresses
  <2>1. d.shown \in Nat
    BY DecisionsTyped DEF Range, Decision
  <2>2. d.shown \in ShownOf(d)
    BY <2>1 DEF HaltInv, DecisionsShown, ShownOf
  <2>3. CASE ReopenBar(d) /\ ShownOnce(d)
    <3>1. PICK i \in ShownOf(d) : IsReopen(i) /\ ~AfterReopen(i)
      BY <2>3 DEF ReopenBar
    <3>2. i = d.shown
      BY <2>2, <2>3 DEF ShownOnce
    <3> QED
      BY <3>1, <3>2 DEF HaltInv, DecisionsShown
  <2> QED
    BY <2>3 DEF HaltInv, DecisionsShown
<1>3. FeedInv => TypeOK
  BY DEF FeedInv
<1> QED
  BY <1>1, <1>2, <1>3, HaltInit, FeedInvariance, PTL DEF Spec

=============================================================================

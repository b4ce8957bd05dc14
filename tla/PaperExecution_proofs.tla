----------------------- MODULE PaperExecution_proofs -----------------------
(***************************************************************************)
(* Proofs about PaperExecution, for any finite set of intents on any       *)
(* symbols, any number of settlements, restarts and exceptions.            *)
(***************************************************************************)
EXTENDS PaperExecution, FiniteSetTheorems, SequenceTheorems, WellFoundedInduction, TLAPS

-----------------------------------------------------------------------------
(* Numbers and records *)

LEMMA BoundFacts ==
  MaxOpen \in Nat /\ MaxNow \in Nat /\ MaxRestarts \in Nat /\ MaxRaises \in Nat
BY BoundsAssumption

\* A non-empty set of settlements has a last one.
LEMMA MaxProps ==
  ASSUME NEW N \in Nat, NEW S \in SUBSET (1..N), S # {}
  PROVE  Max(S) \in S /\ \A m \in S : m <= Max(S)
<1> DEFINE T == {N - m : m \in S}
           R == OpToRel(<, Nat)
<1>1. T \subseteq Nat /\ T # {}
  <2>1. \A m \in S : m \in 1..N /\ N - m \in Nat
    <3> HIDE DEF R
    <3> QED
      OBVIOUS
  <2>2. PICK m \in S : TRUE
    OBVIOUS
  <2>3. N - m \in T
    OBVIOUS
  <2> QED
    BY <2>1, <2>3
<1>2. \A x, y \in Nat : <<y, x>> \in R <=> y < x
  BY DEF OpToRel
<1>3. PICK t \in T : \A u \in T : ~(<<u, t>> \in R)
  <2> HIDE DEF T, R
  <2>1. IsWellFoundedOn(R, Nat)
    BY NatLessThanWellFounded DEF R
  <2> QED
    BY <2>1, <1>1, WFMin
<1>4. PICK top \in S : t = N - top
  OBVIOUS
<1>5. \A m \in S : m <= top
  <2> SUFFICES ASSUME NEW m \in S  PROVE m <= top
    OBVIOUS
  <2>1. N - m \in T /\ N - m \in Nat /\ t \in Nat /\ top \in 1..N /\ m \in 1..N
    BY <1>1, <1>4
  <2>2. ~(N - m < t)
    <3> HIDE DEF T, R
    <3> QED
      BY <2>1, <1>2, <1>3
  <2> QED
    BY <2>1, <2>2, <1>4
<1>6. top \in S /\ \A m \in S : top >= m
  <2>1. \A m \in S : m \in Int
    OBVIOUS
  <2> QED
    BY <1>5, <2>1
<1>7. Max(S) \in S /\ \A m \in S : Max(S) >= m
  BY <1>6 DEF Max
<1> QED
  <2>1. \A m \in S : m \in Int
    OBVIOUS
  <2> QED
    BY <1>7, <2>1

LEMMA EvProps ==
  ASSUME NEW kind, NEW t, NEW x, NEW b
  PROVE  /\ Ev(kind, t).kind = kind /\ Ev(kind, t).trade = t
         /\ Ev(kind, t).exit = None /\ Ev(kind, t).at = 0
         /\ [Ev(kind, t) EXCEPT !.exit = x] =
              [kind |-> kind, trade |-> t, exit |-> x, at |-> 0]
         /\ [Ev(kind, t) EXCEPT !.at = b] =
              [kind |-> kind, trade |-> t, exit |-> None, at |-> b]
BY DEF Ev

LEMMA EvType ==
  ASSUME NEW t \in Trades,
         NEW kind \in {"ENTRY_FILL", "EXIT_FILL", "POSITION_OPENED", "POSITION_CLOSED",
                       "FUNDING", "EXPIRED", "CANCELLED"}
  PROVE  /\ Ev(kind, t) \in Event
         /\ \A x \in Exits : [Ev(kind, t) EXCEPT !.exit = x] \in Event
         /\ \A b \in 1..MaxNow : [Ev(kind, t) EXCEPT !.at = b] \in Event
<1>1. MaxNow \in Nat
  BY BoundFacts
<1> QED
  BY <1>1, EvProps DEF Event, Ev

\* How far an event is, as a number.
LEMMA StageProps ==
  ASSUME NEW e \in Event
  PROVE  /\ e.trade \in Trades /\ e.at \in 0..MaxNow /\ e.exit \in Exits \cup {None}
         /\ Stage(e) \in Int
         /\ e.kind \in {"ENTRY_FILL", "EXPIRED", "CANCELLED"} => Stage(e) = 0
         /\ e.kind = "POSITION_OPENED" => Stage(e) = 1
         /\ e.kind = "FUNDING" => Stage(e) = 1 + e.at
         /\ e.kind = "EXIT_FILL" => Stage(e) = MaxNow + 2
         /\ e.kind = "POSITION_CLOSED" => Stage(e) = MaxNow + 3
<1>1. MaxNow \in Nat
  BY BoundFacts
<1>2. /\ e.trade \in Trades /\ e.at \in 0..MaxNow /\ e.exit \in Exits \cup {None}
      /\ e.kind \in {"ENTRY_FILL", "EXIT_FILL", "POSITION_OPENED", "POSITION_CLOSED",
                     "FUNDING", "EXPIRED", "CANCELLED"}
  BY DEF Event
<1>3. /\ e.kind \in {"ENTRY_FILL", "EXPIRED", "CANCELLED"} => Stage(e) = 0
      /\ e.kind = "POSITION_OPENED" => Stage(e) = 1
      /\ e.kind = "FUNDING" => Stage(e) = 1 + e.at
      /\ e.kind = "EXIT_FILL" => Stage(e) = MaxNow + 2
      /\ e.kind = "POSITION_CLOSED" => Stage(e) = MaxNow + 3
  BY DEF Stage
<1>4. Stage(e) \in Int
  BY <1>1, <1>2, <1>3
<1> QED
  BY <1>2, <1>3, <1>4

-----------------------------------------------------------------------------
(* Sequences of events *)

Precedes(e, f) == e.trade = f.trade => Stage(e) < Stage(f)

\* The events of each trade are in the order they happened.
Ordered(s) == \A i, j \in DOMAIN s : i < j => Precedes(s[i], s[j])

\* A set in which the exit follows from the rest of an event is finite.
LEMMA FiniteByName ==
  ASSUME NEW E \in SUBSET Event,
         \A e, f \in E : e.trade = f.trade /\ e.kind = f.kind /\ e.at = f.at => e.exit = f.exit
  PROVE  IsFiniteSet(E)
<1> DEFINE K == {"ENTRY_FILL", "EXIT_FILL", "POSITION_OPENED", "POSITION_CLOSED",
                 "FUNDING", "EXPIRED", "CANCELLED"}
           T == (Trades \X K) \X (0..MaxNow)
           g == [e \in E |-> <<<<e.trade, e.kind>>, e.at>>]
<1>1. IsFiniteSet(K)
  <2>1. K = ((((({"ENTRY_FILL"} \cup {"EXIT_FILL"}) \cup {"POSITION_OPENED"}) \cup {"POSITION_CLOSED"})
               \cup {"FUNDING"}) \cup {"EXPIRED"}) \cup {"CANCELLED"}
    OBVIOUS
  <2>2. \A x : IsFiniteSet({x})
    BY FS_Singleton
  <2> HIDE DEF K
  <2>3. IsFiniteSet({"ENTRY_FILL"} \cup {"EXIT_FILL"})
    BY <2>2, FS_Union
  <2>4. IsFiniteSet(({"ENTRY_FILL"} \cup {"EXIT_FILL"}) \cup {"POSITION_OPENED"})
    BY <2>2, <2>3, FS_Union
  <2>5. IsFiniteSet((({"ENTRY_FILL"} \cup {"EXIT_FILL"}) \cup {"POSITION_OPENED"})
                    \cup {"POSITION_CLOSED"})
    BY <2>2, <2>4, FS_Union
  <2>6. IsFiniteSet(((({"ENTRY_FILL"} \cup {"EXIT_FILL"}) \cup {"POSITION_OPENED"})
                     \cup {"POSITION_CLOSED"}) \cup {"FUNDING"})
    BY <2>2, <2>5, FS_Union
  <2>7. IsFiniteSet((((({"ENTRY_FILL"} \cup {"EXIT_FILL"}) \cup {"POSITION_OPENED"})
                      \cup {"POSITION_CLOSED"}) \cup {"FUNDING"}) \cup {"EXPIRED"})
    BY <2>2, <2>6, FS_Union
  <2> QED
    BY <2>1, <2>2, <2>7, FS_Union
<1>2. IsFiniteSet(T)
  <2>1. IsFiniteSet(0..MaxNow)
    BY BoundFacts, FS_Interval
  <2> HIDE DEF K
  <2>2. IsFiniteSet(Trades \X K)
    BY <1>1, TradesAssumption, FS_Product
  <2> QED
    BY <2>1, <2>2, FS_Product
<1>3. g \in [E -> T]
  BY DEF Event
<1>4. ASSUME NEW e \in E, NEW f \in E, g[e] = g[f]  PROVE e = f
  <2>1. e.trade = f.trade /\ e.kind = f.kind /\ e.at = f.at
    BY <1>4
  <2>2. e.exit = f.exit
    BY <2>1
  <2> QED
    BY <2>1, <2>2 DEF Event
<1>5. g \in Injection(E, T)
  <2> HIDE DEF g, T
  <2> QED
    BY <1>3, <1>4 DEF Injection, IsInjective
<1> QED
  BY <1>2, <1>5, FS_Injection

\* A sequence of all the elements of a finite set has them all.
LEMMA SeqHasAll ==
  ASSUME NEW S, IsFiniteSet(S), NEW f \in SetToSeqs(S)
  PROVE  f \in Seq(S) /\ Range(f) = S
<1> DEFINE D == 1..Cardinality(S)
<1>1. Cardinality(S) \in Nat
  BY FS_CardinalityType
<1>2. f \in [D -> S] /\ \A i, j \in D : i # j => f[i] # f[j]
  BY DEF SetToSeqs
<1>3. f \in Injection(D, S)
  BY <1>2 DEF Injection, IsInjective
<1>4. IsFiniteSet(D) /\ Cardinality(D) = Cardinality(S)
  BY <1>1, FS_Interval
<1>5. f \in Surjection(D, S)
  BY <1>3, <1>4, FS_Injection
<1>6. f \in Seq(S)
  BY <1>1, <1>2, IsASeq
<1> QED
  BY <1>2, <1>5, <1>6 DEF Surjection, Range

\* A pass appends its events, all of them, in order.
LEMMA InTurnProps ==
  ASSUME NEW E \in SUBSET Event, NEW es \in InTurn(E),
         \A e, f \in E : e.trade = f.trade /\ e.kind = f.kind /\ e.at = f.at => e.exit = f.exit
  PROVE  es \in Seq(Event) /\ Range(es) = E /\ Ordered(es)
<1>1. IsFiniteSet(E)
  BY FiniteByName
<1>2. es \in SetToSeqs(E) /\ \A i, j \in DOMAIN es :
        i < j /\ es[i].trade = es[j].trade => Stage(es[i]) < Stage(es[j])
  BY DEF InTurn
<1>3. es \in Seq(E) /\ Range(es) = E
  BY <1>1, <1>2, SeqHasAll
<1>4. es \in Seq(Event)
  BY <1>3
<1>5. Ordered(es)
  BY <1>2 DEF Ordered, Precedes
<1> QED
  BY <1>3, <1>4, <1>5

\* What is appended keeps the order if it comes after what is there.
LEMMA ConcatOrdered ==
  ASSUME NEW p \in Seq(Event), NEW q \in Seq(Event), Ordered(p), Ordered(q),
         \A e \in Range(p), f \in Range(q) : Precedes(e, f)
  PROVE  p \o q \in Seq(Event) /\ Range(p \o q) = Range(p) \cup Range(q) /\ Ordered(p \o q)
<1>1. /\ p \o q \in Seq(Event) /\ Len(p \o q) = Len(p) + Len(q)
      /\ \A i \in 1..Len(p) + Len(q) :
           (p \o q)[i] = IF i <= Len(p) THEN p[i] ELSE q[i - Len(p)]
  BY ConcatProperties
<1>2. Range(p \o q) = Range(p) \cup Range(q)
  BY RangeConcatenation
<1>3. /\ Len(p) \in Nat /\ Len(q) \in Nat
      /\ DOMAIN p = 1..Len(p) /\ DOMAIN q = 1..Len(q) /\ DOMAIN (p \o q) = 1..Len(p) + Len(q)
  BY <1>1
<1>4. ASSUME NEW i \in DOMAIN (p \o q), NEW j \in DOMAIN (p \o q), i < j
      PROVE  Precedes((p \o q)[i], (p \o q)[j])
  <2>1. CASE j <= Len(p)
    <3>1. i \in DOMAIN p /\ j \in DOMAIN p /\ (p \o q)[i] = p[i] /\ (p \o q)[j] = p[j]
      BY <1>1, <1>3, <1>4, <2>1
    <3> QED
      BY <3>1, <1>4 DEF Ordered
  <2>2. CASE i > Len(p)
    <3>1. /\ i - Len(p) \in DOMAIN q /\ j - Len(p) \in DOMAIN q /\ i - Len(p) < j - Len(p)
          /\ (p \o q)[i] = q[i - Len(p)] /\ (p \o q)[j] = q[j - Len(p)]
      BY <1>1, <1>3, <1>4, <2>2
    <3> QED
      BY <3>1 DEF Ordered
  <2>3. CASE i <= Len(p) /\ j > Len(p)
    <3>1. /\ i \in DOMAIN p /\ j - Len(p) \in DOMAIN q
          /\ (p \o q)[i] = p[i] /\ (p \o q)[j] = q[j - Len(p)]
      BY <1>1, <1>3, <1>4, <2>3
    <3>2. p[i] \in Range(p) /\ q[j - Len(p)] \in Range(q)
      BY <3>1 DEF Range
    <3> QED
      BY <3>1, <3>2
  <2> QED
    BY <1>3, <1>4, <2>1, <2>2, <2>3
<1> QED
  BY <1>1, <1>2, <1>4 DEF Ordered

\* The head of an ordered batch comes before the rest of it, and is not in it.
LEMMA PopOrdered ==
  ASSUME NEW q \in Seq(Event), q # <<>>, Ordered(q)
  PROVE  /\ Head(q) \in Event /\ Tail(q) \in Seq(Event) /\ Ordered(Tail(q))
         /\ Range(Tail(q)) = Range(q) \ {Head(q)} /\ Head(q) \in Range(q)
         /\ \A f \in Range(Tail(q)) : Precedes(Head(q), f)
<1>1. /\ Head(q) \in Event /\ Tail(q) \in Seq(Event) /\ Head(q) = q[1]
      /\ Len(q) \in Nat \ {0} /\ DOMAIN q = 1..Len(q)
      /\ DOMAIN Tail(q) = 1..Len(q) - 1 /\ \A i \in 1..Len(q) - 1 : Tail(q)[i] = q[i + 1]
  <2>1. Head(q) \in Event /\ Tail(q) \in Seq(Event) /\ Len(Tail(q)) = Len(q) - 1
    BY HeadTailProperties
  <2>2. \A i \in 1..Len(Tail(q)) : Tail(q)[i] = q[i + 1]
    BY HeadTailProperties
  <2>3. Head(q) = q[1] /\ Len(q) \in Nat \ {0} /\ DOMAIN q = 1..Len(q)
    OBVIOUS
  <2> QED
    BY <2>1, <2>2, <2>3
<1>2. ASSUME NEW i \in 1..Len(q) - 1  PROVE i + 1 \in DOMAIN q /\ 1 \in DOMAIN q /\ 1 < i + 1
  BY <1>1
<1>3. ASSUME NEW f \in Range(Tail(q))
      PROVE  f \in Range(q) /\ Precedes(Head(q), f) /\ f # Head(q)
  <2>1. PICK i \in 1..Len(q) - 1 : f = Tail(q)[i]
    BY <1>1 DEF Range
  <2>2. f = q[i + 1]
    BY <1>1, <2>1
  <2>3. f \in Range(q) /\ Precedes(Head(q), f)
    BY <1>1, <1>2, <2>2 DEF Range, Ordered
  <2>4. ~Precedes(Head(q), Head(q))
    BY <1>1, StageProps DEF Precedes
  <2> QED
    BY <2>3, <2>4
<1>4. ASSUME NEW f \in Range(q), f # Head(q)  PROVE f \in Range(Tail(q))
  <2>1. PICK i \in 1..Len(q) : f = q[i]
    BY <1>1 DEF Range
  <2>2. i - 1 \in 1..Len(q) - 1 /\ f = Tail(q)[i - 1]
    BY <1>1, <1>4, <2>1
  <2> QED
    BY <1>1, <2>2 DEF Range
<1>5. Ordered(Tail(q))
  <2> SUFFICES ASSUME NEW i \in 1..Len(q) - 1, NEW j \in 1..Len(q) - 1, i < j
               PROVE  Precedes(Tail(q)[i], Tail(q)[j])
    BY <1>1 DEF Ordered
  <2>1. i + 1 < j + 1
    BY <1>1
  <2> QED
    BY <2>1, <1>1, <1>2 DEF Ordered
<1>6. Head(q) \in Range(q)
  BY <1>1 DEF Range
<1> QED
  BY <1>1, <1>3, <1>4, <1>5, <1>6

-----------------------------------------------------------------------------
(* What the broker does, trade by trade *)

EventsOf(N, t) == {e \in N : e.trade = t}

\* Every settlement charged is one that was due, and the position has paid it.
Paid(t, N) ==
  /\ pos'[t].opened = pos[t].opened
  /\ pos[t].through <= pos'[t].through /\ pos'[t].through <= now
  /\ pos'[t].fund = pos[t].fund \cup
       {b \in 1..MaxNow : \E e \in N : e.trade = t /\ e.kind = "FUNDING" /\ e.at = b}
  /\ \A e \in EventsOf(N, t) :
       e.kind = "FUNDING" => pos[t].through < e.at /\ e.at <= pos'[t].through

Filled(t, N) ==
  /\ order[t] = "WORKING" /\ order'[t] = "FILLED" /\ pos'[t] = NewPosition
  /\ EventsOf(N, t) = {Ev("ENTRY_FILL", t), Ev("POSITION_OPENED", t)}

Killed(t, N) ==
  /\ order[t] = "WORKING" /\ order'[t] \in {"EXPIRED", "CANCELLED"} /\ pos'[t] = pos[t]
  /\ EventsOf(N, t) = {Ev(order'[t], t)}

Untouched(t, N) ==
  order'[t] = order[t] /\ pos'[t] = pos[t] /\ EventsOf(N, t) = {}

Carried(t, N) ==
  /\ order'[t] = order[t] /\ IsOpen(pos[t]) /\ IsOpen(pos'[t])
  /\ pos'[t].exit = pos[t].exit /\ Paid(t, N)
  /\ \A e \in EventsOf(N, t) : e.kind = "FUNDING"

Closed(t, N) ==
  /\ order'[t] = order[t] /\ IsOpen(pos[t]) /\ pos'[t].status = "CLOSED" /\ Paid(t, N)
  /\ \E e \in EventsOf(N, t) : e.kind = "POSITION_CLOSED"
  /\ \A e \in EventsOf(N, t) : e.kind \in {"FUNDING", "EXIT_FILL", "POSITION_CLOSED"}

Outcome(t, N) ==
  Filled(t, N) \/ Killed(t, N) \/ Untouched(t, N) \/ Carried(t, N) \/ Closed(t, N)

\* A step of the broker: it appends what happened to each trade, in order.
BrokerStep ==
  /\ mode = "up"
  /\ \E es \in Seq(Event) :
       /\ queue' = queue \o es /\ Ordered(es)
       /\ \A t \in Trades : Outcome(t, Range(es))
  /\ order' \in [Trades -> {"none", "WORKING", "FILLED", "EXPIRED", "CANCELLED"}]
  /\ pos' \in [Trades -> Position]
  /\ rate' \subseteq Symbols /\ tightened' \subseteq Trades
  /\ UNCHANGED <<now, mode, batch, loop, risk, database, cut, restarts, raises>>

\* What has been written down lies in the past.
TimesArePast ==
  /\ \A t \in Trades : pos[t].through <= now /\ pos[t].opened <= now /\ posRow[t].opened <= now
  /\ \A f \in fundRow : f[2] <= now

\* An order at work has no position.
WorkingIsFlat == \A t \in Trades : order[t] = "WORKING" => pos[t].status = "none"

LEMMA PositionFields ==
  ASSUME NEW p \in Position
  PROVE  /\ p.status \in Status /\ p.exit \in Exits \cup {None} /\ p.stop \in {0, 1}
         /\ p.fund \in SUBSET (1..MaxNow) /\ p.opened \in 0..MaxNow /\ p.through \in 0..MaxNow
BY DEF Position

\* A position closed, or one whose stop has moved, is the rest of what it was.
LEMMA CloseAtProps ==
  ASSUME NEW p \in Position, NEW x \in Exits \cup {None}
  PROVE  /\ CloseAt(p, x) \in Position /\ CloseAt(p, x).status = "CLOSED"
         /\ CloseAt(p, x).exit = x /\ CloseAt(p, x).fund = p.fund
         /\ CloseAt(p, x).opened = p.opened /\ CloseAt(p, x).through = p.through
<1> DEFINE r == [p EXCEPT !.status = "CLOSED"]
<1>1. /\ r \in Position /\ r.status = "CLOSED" /\ r.exit = p.exit /\ r.fund = p.fund
      /\ r.opened = p.opened /\ r.through = p.through
  BY DEF Position, Status
<1>2. CloseAt(p, x) = [r EXCEPT !.exit = x]
  BY DEF CloseAt, Position
<1> HIDE DEF r
<1> QED
  BY <1>1, <1>2 DEF Position

LEMMA TightenProps ==
  ASSUME NEW p \in Position, NEW q, q = [p EXCEPT !.stop = 1]
  PROVE  /\ q \in Position /\ q.status = p.status /\ q.exit = p.exit /\ q.fund = p.fund
         /\ q.opened = p.opened /\ q.through = p.through
BY DEF Position

LEMMA SettledProps ==
  ASSUME TypeOK, TimesArePast, NEW t \in Trades
  PROVE  /\ Settlements(t) \in SUBSET (1..MaxNow)
         /\ \A b \in Settlements(t) : pos[t].through < b /\ b <= now
         /\ Settled(t) \in Position /\ Settled(t).status = pos[t].status
         /\ Settled(t).exit = pos[t].exit /\ Settled(t).opened = pos[t].opened
         /\ Settled(t).fund = pos[t].fund \cup Settlements(t) /\ Settled(t).through = now
<1>1. pos[t] \in Position /\ now \in 0..MaxNow /\ MaxNow \in Nat
  BY BoundFacts DEF TypeOK
<1>2. /\ pos[t].status \in Status /\ pos[t].exit \in Exits \cup {None} /\ pos[t].stop \in {0, 1}
      /\ pos[t].fund \in SUBSET (1..MaxNow) /\ pos[t].opened \in 0..MaxNow
      /\ pos[t].through \in 0..MaxNow
  BY <1>1, PositionFields
<1>3. /\ Settlements(t) \in SUBSET (1..MaxNow)
      /\ \A b \in Settlements(t) : pos[t].through < b /\ b <= now
  BY <1>1, <1>2 DEF Settlements
<1> DEFINE paid == pos[t].fund \cup Settlements(t)
           r == [pos[t] EXCEPT !.fund = paid]
<1>4. paid \in SUBSET (1..MaxNow)
  BY <1>2, <1>3
<1> HIDE DEF paid
<1>5. /\ r \in Position /\ r.status = pos[t].status /\ r.exit = pos[t].exit
      /\ r.fund = paid /\ r.opened = pos[t].opened
  BY <1>1, <1>4 DEF Position
<1>6. Settled(t) = [r EXCEPT !.through = now]
  BY <1>1 DEF Settled, Position, paid
<1> HIDE DEF r
<1>7. Settled(t) \in Position /\ Settled(t).status = r.status /\ Settled(t).exit = r.exit
      /\ Settled(t).opened = r.opened /\ Settled(t).fund = r.fund /\ Settled(t).through = now
  BY <1>1, <1>5, <1>6 DEF Position
<1> QED
  BY <1>3, <1>5, <1>7 DEF paid

LEMMA NewPositionProps ==
  ASSUME TypeOK
  PROVE  /\ NewPosition \in Position /\ NewPosition.status = "OPEN" /\ NewPosition.exit = None
         /\ NewPosition.fund = {} /\ NewPosition.opened = now /\ NewPosition.through = now
<1> DEFINE p == [NoPosition EXCEPT !.status = "OPEN"]
           q == [p EXCEPT !.opened = now]
<1>1. now \in 0..MaxNow /\ MaxNow \in Nat
  BY BoundFacts DEF TypeOK
<1>2. /\ p \in Position /\ p.status = "OPEN" /\ p.exit = None /\ p.fund = {}
  BY <1>1 DEF NoPosition, Position, Status
<1>3. NewPosition = [q EXCEPT !.through = now]
  BY DEF NewPosition, NoPosition
<1> HIDE DEF p
<1>4. q \in Position /\ q.status = "OPEN" /\ q.exit = None /\ q.fund = {} /\ q.opened = now
  BY <1>1, <1>2 DEF Position
<1> HIDE DEF q
<1> QED
  BY <1>1, <1>3, <1>4 DEF Position

LEMMA NoPositionProps ==
  /\ NoPosition \in Position /\ NoPosition.status = "none" /\ NoPosition.exit = None
  /\ NoPosition.fund = {} /\ NoPosition.opened = 0 /\ NoPosition.through = 0
  /\ NoRow \in Row /\ NoRow.status = "none" /\ NoRow.exit = None
  /\ NoRow.fund = {} /\ NoRow.opened = 0
<1>1. MaxNow \in Nat /\ 0 \in 0..MaxNow
  BY BoundFacts
<1>2. NoPosition \in Position /\ NoRow \in Row
  BY <1>1 DEF NoPosition, NoRow, Position, Row, Status
<1> QED
  BY <1>2 DEF NoPosition, NoRow

\* The events of a close and of an entry, one by one.
LEMMA CloseEventsProps ==
  ASSUME NEW t \in Trades, NEW x \in Exits
  PROVE  /\ CloseEvents(t, x) \in SUBSET Event
         /\ \A e \in CloseEvents(t, x) :
              /\ e.trade = t /\ e.exit = x /\ e.at = 0
              /\ e.kind \in {"EXIT_FILL", "POSITION_CLOSED"}
         /\ \E e \in CloseEvents(t, x) : e.kind = "POSITION_CLOSED"
<1> DEFINE a == [Ev("EXIT_FILL", t) EXCEPT !.exit = x]
           b == [Ev("POSITION_CLOSED", t) EXCEPT !.exit = x]
<1>1. a \in Event /\ a.trade = t /\ a.exit = x /\ a.at = 0 /\ a.kind = "EXIT_FILL"
  BY EvType DEF Ev
<1>2. b \in Event /\ b.trade = t /\ b.exit = x /\ b.at = 0 /\ b.kind = "POSITION_CLOSED"
  BY EvType DEF Ev
<1>3. CloseEvents(t, x) = {a, b}
  BY DEF CloseEvents
<1> HIDE DEF a, b
<1> QED
  BY <1>1, <1>2, <1>3

LEMMA EntryEventsProps ==
  ASSUME NEW t \in Trades, NEW fate \in {"FILLED", "EXPIRED", "CANCELLED"}
  PROVE  /\ EntryEvents(t, fate) \in SUBSET Event
         /\ \A e \in EntryEvents(t, fate) : e.trade = t /\ e.exit = None
         /\ fate = "FILLED" =>
              EntryEvents(t, fate) = {Ev("ENTRY_FILL", t), Ev("POSITION_OPENED", t)}
         /\ fate # "FILLED" => EntryEvents(t, fate) = {Ev(fate, t)}
         /\ \A e \in EntryEvents(t, fate) :
              e.kind \in {"ENTRY_FILL", "POSITION_OPENED", "EXPIRED", "CANCELLED"}
<1> DEFINE a == Ev("ENTRY_FILL", t)
           b == Ev("POSITION_OPENED", t)
           c == Ev(fate, t)
<1>1. a \in Event /\ a.trade = t /\ a.exit = None /\ a.kind = "ENTRY_FILL"
  BY EvType DEF Ev
<1>2. b \in Event /\ b.trade = t /\ b.exit = None /\ b.kind = "POSITION_OPENED"
  BY EvType DEF Ev
<1>3. CASE fate = "FILLED"
  <2>1. EntryEvents(t, fate) = {a, b}
    BY <1>3 DEF EntryEvents
  <2> HIDE DEF a, b, c
  <2>2. /\ EntryEvents(t, fate) \in SUBSET Event
        /\ \A e \in EntryEvents(t, fate) : /\ e.trade = t /\ e.exit = None
                                          /\ e.kind \in {"ENTRY_FILL", "POSITION_OPENED"}
    BY <1>1, <1>2, <2>1
  <2> QED
    BY <1>3, <2>1, <2>2 DEF a, b
<1>4. CASE fate # "FILLED"
  <2>1. EntryEvents(t, fate) = {c}
    BY <1>4 DEF EntryEvents
  <2>2. c.trade = t /\ c.exit = None /\ c.kind = fate
    BY DEF Ev
  <2>3. fate \in {"EXPIRED", "CANCELLED"}
    BY <1>4
  <2>4. c \in Event
    BY <2>3, EvType
  <2> HIDE DEF a, b, c
  <2>5. /\ EntryEvents(t, fate) \in SUBSET Event
        /\ \A e \in EntryEvents(t, fate) : /\ e.trade = t /\ e.exit = None
                                          /\ e.kind \in {"EXPIRED", "CANCELLED"}
    BY <2>1, <2>2, <2>3, <2>4
  <2> QED
    BY <1>4, <2>1, <2>5 DEF c
<1> QED
  BY <1>3, <1>4

LEMMA ChargesProps ==
  ASSUME TypeOK, TimesArePast, NEW t \in Trades
  PROVE  /\ Charges(t) \in SUBSET Event
         /\ \A e \in Charges(t) : /\ e.trade = t /\ e.kind = "FUNDING" /\ e.exit = None
                                  /\ e.at \in Settlements(t)
         /\ \A b \in Settlements(t) : \E e \in Charges(t) : e.at = b
<1>1. Settlements(t) \in SUBSET (1..MaxNow)
  BY SettledProps
<1> DEFINE C(b) == [Ev("FUNDING", t) EXCEPT !.at = b]
<1>2. ASSUME NEW b \in Settlements(t)
      PROVE  /\ C(b) \in Event /\ C(b).trade = t /\ C(b).kind = "FUNDING"
             /\ C(b).exit = None /\ C(b).at = b
  <2>1. b \in 1..MaxNow
    BY <1>1
  <2>2. C(b) \in Event
    BY <2>1, EvType
  <2> QED
    BY <2>2 DEF Ev
<1>3. Charges(t) = {C(b) : b \in Settlements(t)}
  BY DEF Charges
<1> HIDE DEF C
<1> QED
  BY <1>2, <1>3

LEMMA NoEvents ==
  <<>> \in Seq(Event) /\ Range(<<>>) = {} /\ Ordered(<<>>)
BY DEF Range, Ordered

LEMMA OneEvent ==
  ASSUME NEW e \in Event
  PROVE  <<e>> \in Seq(Event) /\ Range(<<e>>) = {e} /\ Ordered(<<e>>)
<1>1. <<e>> \in Seq(Event) /\ DOMAIN <<e>> = {1} /\ <<e>>[1] = e
  OBVIOUS
<1> QED
  BY <1>1 DEF Range, Ordered

LEMMA PaidNothing ==
  ASSUME NEW t \in Trades, NEW N, \A e \in EventsOf(N, t) : e.kind # "FUNDING",
         TypeOK, TimesArePast,
         pos'[t].opened = pos[t].opened, pos'[t].through = pos[t].through,
         pos'[t].fund = pos[t].fund
  PROVE  Paid(t, N)
<1>1. pos[t].through \in 0..MaxNow /\ now \in 0..MaxNow /\ MaxNow \in Nat
  BY BoundFacts, PositionFields DEF TypeOK
<1>2. \A e \in N : ~(e.trade = t /\ e.kind = "FUNDING")
  BY DEF EventsOf
<1>3. {b \in 1..MaxNow : \E e \in N : e.trade = t /\ e.kind = "FUNDING" /\ e.at = b} = {}
  BY <1>2
<1> QED
  BY <1>1, <1>3 DEF Paid, TimesArePast

LEMMA ExpireIsBroker ==
  ASSUME TypeOK, TimesArePast, NEW t \in Trades, Expire(t)
  PROVE  BrokerStep
<1> DEFINE e == Ev("EXPIRED", t)
<1>1. e \in Event /\ e.trade = t
  BY EvType, EvProps
<1>2. queue \in Seq(Event) /\ queue' = queue \o <<e>>
  BY <1>1 DEF Expire, TypeOK
<1>3. <<e>> \in Seq(Event) /\ Range(<<e>>) = {e} /\ Ordered(<<e>>)
  BY <1>1, OneEvent
<1>4. ASSUME NEW u \in Trades  PROVE Outcome(u, {e})
  <2>1. CASE u = t
    <3>1. Killed(u, {e})
      BY <2>1, <1>1 DEF Expire, Killed, TypeOK, Working, EventsOf
    <3> QED
      BY <3>1 DEF Outcome
  <2>2. CASE u # t
    <3>1. Untouched(u, {e})
      BY <2>2, <1>1 DEF Expire, Untouched, TypeOK, EventsOf
    <3> QED
      BY <3>1 DEF Outcome
  <2> QED
    BY <2>1, <2>2
<1>5. /\ order' \in [Trades -> {"none", "WORKING", "FILLED", "EXPIRED", "CANCELLED"}]
      /\ pos' \in [Trades -> Position] /\ rate' \subseteq Symbols /\ tightened' \subseteq Trades
      /\ mode = "up"
      /\ UNCHANGED <<now, mode, batch, loop, risk, database, cut, restarts, raises>>
  BY DEF Expire, TypeOK, At, history
<1> HIDE DEF e
<1> QED
  BY <1>2, <1>3, <1>4, <1>5 DEF BrokerStep

LEMMA SwapStatusIsBroker ==
  ASSUME TypeOK, TimesArePast, NEW s \in Symbols,
         NEW from \in {"OPEN", "SUSPENDED"}, NEW to \in {"OPEN", "SUSPENDED"},
         SwapStatus(s, from, to)
  PROVE  BrokerStep
<1>1. queue' = queue \o <<>>
  BY DEF SwapStatus, TypeOK
<1>2. <<>> \in Seq(Event) /\ Range(<<>>) = {} /\ Ordered(<<>>)
  BY NoEvents
<1>3. \A t \in Trades : pos[t] \in Position
  BY DEF TypeOK
<1>4. to \in Status
  BY DEF Status
<1>5. ASSUME NEW t \in Trades  PROVE Outcome(t, {}) /\ pos'[t] \in Position
  <2>1. CASE t \in On(s) /\ pos[t].status = from
    <3>1. /\ pos'[t] \in Position /\ pos'[t].status = to /\ pos'[t].exit = pos[t].exit
          /\ pos'[t].fund = pos[t].fund /\ pos'[t].opened = pos[t].opened
          /\ pos'[t].through = pos[t].through
      <4>1. pos'[t] = [pos[t] EXCEPT !.status = to]
        BY <2>1 DEF SwapStatus
      <4>2. pos[t] \in Position
        BY <1>3
      <4> QED
        BY <4>1, <4>2, <1>4 DEF Position
    <3>2. EventsOf({}, t) = {}
      BY DEF EventsOf
    <3>3. Paid(t, {})
      BY <3>1, <3>2, PaidNothing
    <3>4. Carried(t, {})
      BY <2>1, <3>1, <3>2, <3>3 DEF Carried, IsOpen, SwapStatus
    <3> QED
      BY <3>1, <3>4 DEF Outcome
  <2>2. CASE ~(t \in On(s) /\ pos[t].status = from)
    <3>1. Untouched(t, {})
      BY <2>2 DEF Untouched, SwapStatus, EventsOf
    <3> QED
      BY <3>1, <1>3 DEF Outcome, Untouched
  <2> QED
    BY <2>1, <2>2
<1>6. pos' \in [Trades -> Position]
  BY <1>5 DEF SwapStatus
<1>7. /\ order' \in [Trades -> {"none", "WORKING", "FILLED", "EXPIRED", "CANCELLED"}]
      /\ rate' \subseteq Symbols /\ tightened' \subseteq Trades /\ mode = "up"
      /\ UNCHANGED <<now, mode, batch, loop, risk, database, cut, restarts, raises>>
  BY DEF SwapStatus, TypeOK, At, history
<1> QED
  BY <1>1, <1>2, <1>5, <1>6, <1>7 DEF BrokerStep

LEMMA SetupInvalidatedIsBroker ==
  ASSUME TypeOK, TimesArePast, NEW t \in Trades, NEW x \in Exits, SetupInvalidated(t, x)
  PROVE  BrokerStep
<1>1. PICK es \in InTurn(CloseEvents(t, x)) : queue' = queue \o es
  BY DEF SetupInvalidated
<1> DEFINE N == CloseEvents(t, x)
<1>2. /\ N \in SUBSET Event
      /\ \A e \in N : e.trade = t /\ e.exit = x /\ e.kind \in {"EXIT_FILL", "POSITION_CLOSED"}
      /\ \E e \in N : e.kind = "POSITION_CLOSED"
  BY CloseEventsProps
<1> HIDE DEF N
<1>3. es \in Seq(Event) /\ Range(es) = N /\ Ordered(es)
  BY <1>1, <1>2, InTurnProps DEF N
<1>4. \A u \in Trades : pos[u] \in Position
  BY DEF TypeOK
<1>5. ASSUME NEW u \in Trades  PROVE Outcome(u, N) /\ pos'[u] \in Position
  <2>1. CASE u = t
    <3>1. pos'[t] = CloseAt(pos[t], x)
      BY DEF SetupInvalidated, TypeOK
    <3>2. /\ pos'[t] \in Position /\ pos'[t].status = "CLOSED" /\ pos'[t].fund = pos[t].fund
          /\ pos'[t].opened = pos[t].opened /\ pos'[t].through = pos[t].through
      <4>1. pos[t] \in Position
        BY <1>4
      <4> QED
        BY <3>1, <4>1, CloseAtProps
    <3>3. EventsOf(N, t) = N
      BY <1>2 DEF EventsOf
    <3>4. Paid(t, N)
      BY <3>2, <3>3, <1>2, PaidNothing
    <3>5. Closed(t, N)
      BY <3>2, <3>3, <3>4, <1>2 DEF Closed, IsOpen, SetupInvalidated
    <3> QED
      BY <2>1, <3>2, <3>5 DEF Outcome
  <2>2. CASE u # t
    <3>1. Untouched(u, N)
      BY <2>2, <1>2 DEF Untouched, SetupInvalidated, EventsOf, TypeOK
    <3> QED
      BY <3>1, <1>4 DEF Outcome, Untouched
  <2> QED
    BY <2>1, <2>2
<1>6. pos' \in [Trades -> Position]
  BY <1>5 DEF SetupInvalidated, TypeOK
<1>7. /\ order' \in [Trades -> {"none", "WORKING", "FILLED", "EXPIRED", "CANCELLED"}]
      /\ rate' \subseteq Symbols /\ tightened' \subseteq Trades /\ mode = "up"
      /\ UNCHANGED <<now, mode, batch, loop, risk, database, cut, restarts, raises>>
  BY DEF SetupInvalidated, TypeOK, At, history
<1> QED
  BY <1>1, <1>3, <1>5, <1>6, <1>7 DEF BrokerStep

LEMMA TickIsBroker ==
  ASSUME TypeOK, TimesArePast, WorkingIsFlat, NEW s \in Symbols, Tick(s)
  PROVE  BrokerStep
<1>1. PICK carried \in BOOLEAN,
           fate \in [Working \cap On(s) -> {"FILLED", "EXPIRED", "CANCELLED"}],
           move \in [{t \in On(s) : pos[t].status = "OPEN"} -> {"hold", "tighten"} \cup Exits] :
        LET known  == carried \/ s \in rate
            owing  == IF known THEN Held \cap On(s) ELSE {}
            filled == {t \in DOMAIN fate : fate[t] = "FILLED"}
            closed == {t \in DOMAIN move : move[t] \in Exits}
            moved  == {t \in DOMAIN move : move[t] = "tighten"}
            settled(t) == IF t \in owing THEN Settled(t) ELSE pos[t]
        IN /\ mode = "up"
           /\ rate' = IF carried THEN rate \cup {s} ELSE rate
           /\ order' = [t \in Trades |-> IF t \in DOMAIN fate THEN fate[t] ELSE order[t]]
           /\ pos' = [t \in Trades |->
                        IF t \in filled THEN NewPosition
                        ELSE IF t \in closed THEN CloseAt(settled(t), move[t])
                        ELSE IF t \in moved THEN [settled(t) EXCEPT !.stop = 1]
                        ELSE settled(t)]
           /\ \E charges \in InTurn(UNION {Charges(t) : t \in owing}),
                 entries \in InTurn(UNION {EntryEvents(t, fate[t]) : t \in DOMAIN fate}),
                 exits   \in InTurn(UNION {CloseEvents(t, move[t]) : t \in closed}) :
                queue' = queue \o charges \o entries \o exits
           /\ tightened' = tightened \cup moved
           /\ UNCHANGED <<now, mode, batch, loop, risk, database, cut, restarts, raises>>
  BY DEF Tick
<1> DEFINE owing  == IF carried \/ s \in rate THEN Held \cap On(s) ELSE {}
           filled == {t \in DOMAIN fate : fate[t] = "FILLED"}
           closed == {t \in DOMAIN move : move[t] \in Exits}
           moved  == {t \in DOMAIN move : move[t] = "tighten"}
           settled(t) == IF t \in owing THEN Settled(t) ELSE pos[t]
           CU == UNION {Charges(t) : t \in owing}
           EU == UNION {EntryEvents(t, fate[t]) : t \in DOMAIN fate}
           XU == UNION {CloseEvents(t, move[t]) : t \in closed}
<1>2. PICK charges \in InTurn(CU), entries \in InTurn(EU), exits \in InTurn(XU) :
        queue' = queue \o charges \o entries \o exits
  BY <1>1
<1>3. /\ mode = "up"
      /\ rate' = IF carried THEN rate \cup {s} ELSE rate
      /\ order' = [t \in Trades |-> IF t \in DOMAIN fate THEN fate[t] ELSE order[t]]
      /\ pos' = [t \in Trades |->
                   IF t \in filled THEN NewPosition
                   ELSE IF t \in closed THEN CloseAt(settled(t), move[t])
                   ELSE IF t \in moved THEN [settled(t) EXCEPT !.stop = 1]
                   ELSE settled(t)]
      /\ tightened' = tightened \cup moved
      /\ UNCHANGED <<now, mode, batch, loop, risk, database, cut, restarts, raises>>
  BY <1>1
<1>4. /\ DOMAIN fate \subseteq Trades /\ \A t \in DOMAIN fate : pos[t].status = "none" /\ order[t] = "WORKING"
      /\ \A t \in DOMAIN fate : fate[t] \in {"FILLED", "EXPIRED", "CANCELLED"}
      /\ DOMAIN move = {t \in On(s) : pos[t].status = "OPEN"} /\ DOMAIN move \subseteq Trades
      /\ \A t \in DOMAIN move : pos[t].status = "OPEN"
      /\ \A t \in closed : t \in DOMAIN move /\ move[t] \in Exits
      /\ \A t \in moved : t \in DOMAIN move
      /\ \A t \in filled : t \in DOMAIN fate /\ fate[t] = "FILLED"
      /\ \A t \in owing : t \in Trades /\ IsOpen(pos[t])
  BY DEF Working, On, WorkingIsFlat, Held
<1>5. /\ CU \in SUBSET Event
      /\ \A e \in CU : /\ e.trade \in owing /\ e.kind = "FUNDING" /\ e.exit = None
                       /\ e.at \in Settlements(e.trade)
      /\ \A t \in owing : \A b \in Settlements(t) :
           \E e \in CU : e.trade = t /\ e.kind = "FUNDING" /\ e.at = b
  <2> HIDE DEF owing
  <2>1. \A t \in owing :
          /\ Charges(t) \in SUBSET Event
          /\ \A e \in Charges(t) : /\ e.trade = t /\ e.kind = "FUNDING" /\ e.exit = None
                                   /\ e.at \in Settlements(t)
          /\ \A b \in Settlements(t) : \E e \in Charges(t) : e.at = b
    BY <1>4, ChargesProps
  <2> QED
    BY <2>1
<1>6. /\ EU \in SUBSET Event
      /\ \A e \in EU : e.trade \in DOMAIN fate /\ e \in EntryEvents(e.trade, fate[e.trade])
      /\ \A e \in EU : e.exit = None
      /\ \A t \in DOMAIN fate : EntryEvents(t, fate[t]) \subseteq EU
  <2>1. \A t \in DOMAIN fate :
          /\ EntryEvents(t, fate[t]) \in SUBSET Event
          /\ \A e \in EntryEvents(t, fate[t]) : e.trade = t /\ e.exit = None
    BY <1>4, EntryEventsProps
  <2> QED
    BY <2>1
<1>7. /\ XU \in SUBSET Event
      /\ \A e \in XU : /\ e.trade \in closed /\ e.kind \in {"EXIT_FILL", "POSITION_CLOSED"}
                       /\ e.exit = move[e.trade]
      /\ \A t \in closed : \E e \in XU : e.trade = t /\ e.kind = "POSITION_CLOSED"
  <2> HIDE DEF closed
  <2>1. \A t \in closed :
          /\ CloseEvents(t, move[t]) \in SUBSET Event
          /\ \A e \in CloseEvents(t, move[t]) :
              e.trade = t /\ e.exit = move[t] /\ e.kind \in {"EXIT_FILL", "POSITION_CLOSED"}
          /\ \E e \in CloseEvents(t, move[t]) : e.kind = "POSITION_CLOSED"
    BY <1>4, CloseEventsProps
  <2> QED
    BY <2>1
<1>8. /\ charges \in Seq(Event) /\ Range(charges) = CU /\ Ordered(charges)
      /\ entries \in Seq(Event) /\ Range(entries) = EU /\ Ordered(entries)
      /\ exits \in Seq(Event) /\ Range(exits) = XU /\ Ordered(exits)
  <2> HIDE DEF CU, EU, XU, closed, owing
  <2>1. charges \in Seq(Event) /\ Range(charges) = CU /\ Ordered(charges)
    <3>1. \A e, f \in CU : e.exit = f.exit
      BY <1>5
    <3>2. CU \in SUBSET Event
      BY <1>5
    <3> QED
      BY <1>2, <3>1, <3>2, InTurnProps
  <2>2. entries \in Seq(Event) /\ Range(entries) = EU /\ Ordered(entries)
    BY <1>2, <1>6, InTurnProps
  <2>3. \A e, f \in XU : e.trade = f.trade => e.exit = f.exit
    BY <1>7
  <2>4. exits \in Seq(Event) /\ Range(exits) = XU /\ Ordered(exits)
    BY <1>2, <1>7, <2>3, InTurnProps
  <2> QED
    BY <2>1, <2>2, <2>4
<1> DEFINE N  == CU \cup EU \cup XU
           es == (charges \o entries) \o exits
<1>9. es \in Seq(Event) /\ Range(es) = N /\ Ordered(es) /\ queue' = queue \o es
  <2> HIDE DEF CU, EU, XU
  <2>1. \A t \in owing : pos[t].status # "none"
    BY <1>4 DEF IsOpen
  <2> HIDE DEF owing, closed
  <2>2. \A e \in CU, f \in EU : Precedes(e, f)
    BY <2>1, <1>4, <1>5, <1>6 DEF Precedes
  <2>3. /\ charges \o entries \in Seq(Event) /\ Range(charges \o entries) = CU \cup EU
        /\ Ordered(charges \o entries)
    BY <2>2, <1>8, ConcatOrdered
  <2>4. ASSUME NEW e \in CU \cup EU, NEW f \in XU, e.trade = f.trade
        PROVE  Stage(e) < Stage(f)
    <3>1. e \in CU
      BY <2>4, <1>4, <1>6, <1>7
    <3>2. e \in Event /\ f \in Event /\ e.kind = "FUNDING" /\ f.kind \in {"EXIT_FILL", "POSITION_CLOSED"}
      BY <3>1, <1>5, <1>7
    <3>3. Stage(e) = 1 + e.at /\ e.at \in 0..MaxNow /\ Stage(f) \in {MaxNow + 2, MaxNow + 3}
      BY <3>2, StageProps
    <3> QED
      BY <3>3, BoundFacts
  <2>5. \A e \in CU \cup EU, f \in XU : Precedes(e, f)
    BY <2>4 DEF Precedes
  <2>6. es \in Seq(Event) /\ Range(es) = (CU \cup EU) \cup XU /\ Ordered(es)
    BY <2>3, <2>5, <1>8, ConcatOrdered
  <2>7. queue \in Seq(Event)
    BY DEF TypeOK
  <2>8. (queue \o charges) \o entries = queue \o (charges \o entries)
    BY <2>7, <1>8, ConcatAssociative
  <2>9. (queue \o (charges \o entries)) \o exits = queue \o es
    <3> DEFINE ce == charges \o entries
    <3>1. ce \in Seq(Event) /\ exits \in Seq(Event)
      BY <2>3, <1>8
    <3> HIDE DEF ce
    <3>2. (queue \o ce) \o exits = queue \o (ce \o exits)
      BY <3>1, <2>7, ConcatAssociative
    <3> QED
      BY <3>2 DEF ce
  <2> QED
    BY <2>6, <2>8, <2>9, <1>2
<1>10. \A t \in Trades : pos[t] \in Position
  BY DEF TypeOK
<1>11. ASSUME NEW t \in Trades
       PROVE  Outcome(t, N) /\ pos'[t] \in Position
              /\ order'[t] \in {"none", "WORKING", "FILLED", "EXPIRED", "CANCELLED"}
  <2>1. pos'[t] = IF t \in filled THEN NewPosition
                  ELSE IF t \in closed THEN CloseAt(settled(t), move[t])
                  ELSE IF t \in moved THEN [settled(t) EXCEPT !.stop = 1]
                  ELSE settled(t)
    BY <1>3
  <2>2. order'[t] = IF t \in DOMAIN fate THEN fate[t] ELSE order[t]
    BY <1>3
  <2>3. order[t] \in {"none", "WORKING", "FILLED", "EXPIRED", "CANCELLED"} /\ pos[t] \in Position
    BY <1>10 DEF TypeOK
  <2>4. /\ settled(t) \in Position /\ settled(t).status = pos[t].status
        /\ settled(t).exit = pos[t].exit /\ settled(t).opened = pos[t].opened
        /\ pos[t].through <= settled(t).through /\ settled(t).through <= now
        /\ t \in owing => /\ settled(t).fund = pos[t].fund \cup Settlements(t)
                          /\ settled(t).through = now
        /\ t \notin owing => settled(t) = pos[t]
    <3>1. pos[t].through \in 0..MaxNow /\ now \in 0..MaxNow /\ pos[t].through <= now
      BY <2>3, PositionFields DEF TypeOK, TimesArePast
    <3>2. pos[t].through <= pos[t].through
      BY <3>1, BoundFacts
    <3> HIDE DEF owing
    <3> QED
      BY <2>3, <3>1, <3>2, SettledProps
  <2>5. \A e \in EventsOf(N, t) : e.kind = "FUNDING" =>
          /\ e \in CU /\ t \in owing /\ e.at \in Settlements(t)
          /\ pos[t].through < e.at /\ e.at <= settled(t).through
    <3>1. ASSUME NEW e \in EventsOf(N, t), e.kind = "FUNDING"
          PROVE  /\ e \in CU /\ t \in owing /\ e.at \in Settlements(t)
                 /\ pos[t].through < e.at /\ e.at <= settled(t).through
      <4>1. e \in N /\ e.trade = t
        BY <3>1 DEF EventsOf
      <4> HIDE DEF CU, EU, XU, owing, closed
      <4>2. e \notin EU
        BY <1>4, <1>6, <3>1, EntryEventsProps
      <4>3. e \in CU
        BY <4>1, <4>2, <3>1, <1>7
      <4>4. t \in owing /\ e.at \in Settlements(t)
        BY <4>1, <4>3, <1>5
      <4> QED
        BY <4>3, <4>4, <2>4, SettledProps
    <3> QED
      BY <3>1
  <2>6. ASSUME pos'[t].opened = settled(t).opened, pos'[t].through = settled(t).through,
               pos'[t].fund = settled(t).fund
        PROVE  Paid(t, N)
    <3> DEFINE paid == {b \in 1..MaxNow : \E e \in N : e.trade = t /\ e.kind = "FUNDING" /\ e.at = b}
    <3>1. settled(t).fund = pos[t].fund \cup paid
      <4>1. CASE t \in owing
        <5>1. Settlements(t) \in SUBSET (1..MaxNow)
          BY SettledProps
        <5>2. Settlements(t) \subseteq paid
          <6> HIDE DEF CU, EU, XU, owing
          <6> QED
            BY <4>1, <5>1, <1>5
        <5>3. paid \subseteq Settlements(t)
          <6> HIDE DEF CU, EU, XU, owing
          <6> QED
            BY <2>5 DEF EventsOf
        <5> QED
          BY <4>1, <5>2, <5>3, <2>4
      <4>2. CASE t \notin owing
        <5>1. paid = {}
          <6> HIDE DEF CU, EU, XU, owing
          <6> QED
            BY <4>2, <2>5 DEF EventsOf
        <5> QED
          BY <4>2, <5>1, <2>4
      <4> QED
        BY <4>1, <4>2
    <3> HIDE DEF N, settled
    <3> QED
      BY <2>4, <2>5, <2>6, <3>1 DEF Paid
  <2>7. CASE t \in DOMAIN fate
    <3>1. t \notin owing /\ t \notin closed /\ t \notin moved /\ pos[t].status = "none"
      BY <2>7, <1>4 DEF IsOpen
    <3>2. EventsOf(N, t) = EntryEvents(t, fate[t])
      <4>1. \A e \in EntryEvents(t, fate[t]) : e.trade = t
        BY <2>7, <1>4, EntryEventsProps
      <4> HIDE DEF CU, EU, XU, owing, closed
      <4> QED
        BY <4>1, <3>1, <2>7, <1>5, <1>6, <1>7 DEF EventsOf
    <3>3. CASE fate[t] = "FILLED"
      <4>1. pos'[t] = NewPosition /\ order'[t] = "FILLED" /\ order[t] = "WORKING"
        BY <2>1, <2>2, <2>7, <3>3, <1>4
      <4>2. EntryEvents(t, fate[t]) = {Ev("ENTRY_FILL", t), Ev("POSITION_OPENED", t)}
        BY <3>3, EntryEventsProps
      <4>3. Filled(t, N)
        BY <4>1, <4>2, <3>2 DEF Filled
      <4> QED
        BY <4>1, <4>3, NewPositionProps DEF Outcome
    <3>4. CASE fate[t] # "FILLED"
      <4>1. t \notin filled /\ fate[t] \in {"EXPIRED", "CANCELLED"}
        BY <3>4, <2>7, <1>4
      <4>2. pos'[t] = pos[t] /\ order'[t] = fate[t] /\ order[t] = "WORKING"
        BY <4>1, <3>1, <2>1, <2>2, <2>4, <2>7, <1>4
      <4>3. EntryEvents(t, fate[t]) = {Ev(fate[t], t)}
        BY <3>4, <4>1, EntryEventsProps
      <4>4. Killed(t, N)
        BY <4>1, <4>2, <4>3, <3>2 DEF Killed
      <4> QED
        BY <4>1, <4>2, <4>4, <2>3 DEF Outcome
    <3> QED
      BY <3>3, <3>4
  <2>8. CASE t \notin DOMAIN fate /\ IsOpen(pos[t])
    <3>1. t \notin filled /\ order'[t] = order[t]
      BY <2>8, <2>2
    <3>2. \A e \in EventsOf(N, t) : e \in CU \/ e \in XU
      <4> HIDE DEF CU, EU, XU
      <4> QED
        BY <2>8, <1>6 DEF EventsOf
    <3>3. CASE t \in closed
      <4>1. pos'[t] = CloseAt(settled(t), move[t]) /\ move[t] \in Exits
        BY <3>1, <3>3, <2>1, <1>4
      <4>2. /\ pos'[t] \in Position /\ pos'[t].status = "CLOSED" /\ pos'[t].fund = settled(t).fund
            /\ pos'[t].opened = settled(t).opened /\ pos'[t].through = settled(t).through
        <5> HIDE DEF settled
        <5> QED
          BY <4>1, <2>4, CloseAtProps
      <4>3. Paid(t, N)
        BY <4>2, <2>6
      <4>4. \E e \in EventsOf(N, t) : e.kind = "POSITION_CLOSED"
        <5> HIDE DEF CU, EU, XU, closed
        <5> QED
          BY <3>3, <1>7 DEF EventsOf
      <4>5. \A e \in EventsOf(N, t) : e.kind \in {"FUNDING", "EXIT_FILL", "POSITION_CLOSED"}
        <5> HIDE DEF CU, EU, XU, closed, N, owing
        <5> QED
          BY <3>2, <1>5, <1>7
      <4>6. Closed(t, N)
        BY <4>2, <4>3, <4>4, <4>5, <3>1, <2>8 DEF Closed
      <4> QED
        BY <4>2, <4>6, <3>1, <2>3 DEF Outcome
    <3>4. CASE t \notin closed
      <4>1. /\ pos'[t] \in Position /\ pos'[t].status = settled(t).status
            /\ pos'[t].exit = settled(t).exit /\ pos'[t].fund = settled(t).fund
            /\ pos'[t].opened = settled(t).opened /\ pos'[t].through = settled(t).through
        <5>1. CASE t \in moved
          <6>1. pos'[t] = [settled(t) EXCEPT !.stop = 1]
            BY <5>1, <3>1, <3>4, <2>1
          <6> HIDE DEF settled
          <6> QED
            BY <6>1, <2>4, TightenProps
        <5>2. CASE t \notin moved
          <6>1. pos'[t] = settled(t)
            BY <5>2, <3>1, <3>4, <2>1
          <6> QED
            BY <6>1, <2>4
        <5> QED
          BY <5>1, <5>2
      <4>2. Paid(t, N)
        BY <4>1, <2>6
      <4>3. \A e \in EventsOf(N, t) : e.kind = "FUNDING"
        <5>1. \A e \in EventsOf(N, t) : e \notin XU
          <6> HIDE DEF CU, EU, XU, closed, N
          <6> QED
            BY <3>4, <1>7 DEF EventsOf
        <5> HIDE DEF CU, EU, XU, closed, N, owing
        <5> QED
          BY <5>1, <3>2, <1>5
      <4>4. Carried(t, N)
        <5> HIDE DEF N, settled
        <5> QED
          BY <4>1, <4>2, <4>3, <3>1, <2>4, <2>8 DEF Carried, IsOpen
      <4> QED
        BY <4>1, <4>4, <3>1, <2>3 DEF Outcome
    <3> QED
      BY <3>3, <3>4
  <2>9. CASE t \notin DOMAIN fate /\ ~IsOpen(pos[t])
    <3>1. t \notin filled /\ t \notin owing /\ t \notin closed /\ t \notin moved
      BY <2>9, <1>4 DEF IsOpen
    <3>2. pos'[t] = pos[t] /\ order'[t] = order[t]
      BY <3>1, <2>1, <2>2, <2>4, <2>9
    <3>3. EventsOf(N, t) = {}
      <4> HIDE DEF CU, EU, XU, owing, closed
      <4> QED
        BY <3>1, <2>9, <1>5, <1>6, <1>7 DEF EventsOf
    <3>4. Untouched(t, N)
      BY <3>2, <3>3 DEF Untouched
    <3> QED
      BY <3>2, <3>4, <2>3 DEF Outcome
  <2> QED
    BY <2>7, <2>8, <2>9
<1>12. /\ order' \in [Trades -> {"none", "WORKING", "FILLED", "EXPIRED", "CANCELLED"}]
       /\ pos' \in [Trades -> Position]
  <2>1. order' = [t \in Trades |-> order'[t]] /\ pos' = [t \in Trades |-> pos'[t]]
    BY <1>3
  <2> QED
    BY <2>1, <1>11
<1>13. rate' \subseteq Symbols /\ tightened' \subseteq Trades
  <2>1. moved \subseteq Trades
    BY <1>4
  <2> QED
    BY <2>1, <1>3 DEF TypeOK
<1> HIDE DEF N, es
<1> QED
  BY <1>3, <1>9, <1>11, <1>12, <1>13 DEF BrokerStep

-----------------------------------------------------------------------------
(* What is still to be written *)

Unhandled == Range(Rest) \cup Range(queue)

\* What the bar loop still has to write is in the order it happened.
InSequence ==
  /\ Ordered(Rest) /\ Ordered(queue)
  /\ \A e \in Range(Rest), f \in Range(queue) : Precedes(e, f)

LoopPlaces == [at : {"bars", "submit", "release", "drain", "save"}, trade : Trades \cup {None}]

\* There is a batch exactly while it is being drained.
BatchInHand ==
  /\ loop.at \in {"drain", "save"} <=> batch # <<>>
  /\ loop.at \in {"submit", "release"} => loop.trade \in Trades

RiskStates == [counted : SUBSET Trades, booked : [Trades -> Seq(Exits \cup {None})]]

\* A process that is down has nothing in memory.
DownIsEmpty ==
  mode = "down" =>
    /\ loop.at = "bars" /\ queue = <<>>
    /\ \A t \in Trades : order[t] = "none" /\ pos[t] = NoPosition

Shape ==
  /\ TypeOK /\ risk \in RiskStates /\ saved \in RiskStates
  /\ BatchInHand /\ DownIsEmpty /\ TimesArePast
  /\ \A e \in Unhandled : e.kind = "FUNDING" => e.at \in 1..now

LEMMA RestProps ==
  ASSUME TypeOK, BatchInHand
  PROVE  /\ Rest \in Seq(Event) /\ queue \in Seq(Event) /\ batch \in Seq(Event)
         /\ \A e \in Unhandled : e \in Event /\ e.trade \in Trades
<1>1. batch \in Seq(Event) /\ queue \in Seq(Event)
  BY DEF TypeOK
<1>2. batch # <<>> => Tail(batch) \in Seq(Event)
  BY <1>1
<1>3. Rest \in Seq(Event)
  BY <1>1, <1>2 DEF Rest, BatchInHand
<1>4. \A e \in Unhandled : e \in Event
  BY <1>1, <1>3 DEF Unhandled, Range
<1> QED
  BY <1>1, <1>3, <1>4 DEF Event

\* Dealing with the head leaves the rest, all of which comes after it.
LEMMA HandleQueue ==
  ASSUME TypeOK, BatchInHand, InSequence, loop.at = "drain",
         queue' = queue, Rest' = Tail(batch)
  PROVE  /\ batch # <<>> /\ Tail(batch) \in Seq(Event)
         /\ Head(batch) \in Event /\ Head(batch) \in Unhandled
         /\ Unhandled' = Unhandled \ {Head(batch)} /\ InSequence'
         /\ \A f \in Unhandled' : Precedes(Head(batch), f)
<1> DEFINE h == Head(batch)
<1>1. batch # <<>> /\ Rest = batch /\ batch \in Seq(Event) /\ queue \in Seq(Event)
  BY RestProps DEF BatchInHand, Rest
<1>2. Ordered(batch) /\ Ordered(queue) /\ \A e \in Range(batch), f \in Range(queue) : Precedes(e, f)
  BY <1>1 DEF InSequence
<1>3. /\ h \in Event /\ Tail(batch) \in Seq(Event) /\ Ordered(Tail(batch))
      /\ Range(Tail(batch)) = Range(batch) \ {h} /\ h \in Range(batch)
      /\ \A f \in Range(Tail(batch)) : Precedes(h, f)
  BY <1>1, <1>2, PopOrdered
<1> HIDE DEF h
<1>4. ~Precedes(h, h)
  BY <1>3, StageProps DEF Precedes
<1>5. h \notin Range(queue)
  BY <1>2, <1>3, <1>4
<1>6. Unhandled' = Range(Tail(batch)) \cup Range(queue)
  BY DEF Unhandled
<1>7. Unhandled = Range(batch) \cup Range(queue)
  BY <1>1 DEF Unhandled
<1>8. InSequence'
  BY <1>2, <1>3 DEF InSequence
<1>9. \A f \in Unhandled' : Precedes(h, f)
  BY <1>2, <1>3, <1>6
<1> QED
  BY <1>1, <1>3, <1>5, <1>6, <1>7, <1>8, <1>9 DEF h

\* Taking the events keeps them, in order.
LEMMA TakeQueue ==
  ASSUME TypeOK, BatchInHand, InSequence, TakeEvents
  PROVE  Unhandled' = Unhandled /\ InSequence'
<1>1. Rest = <<>> /\ Rest' = queue /\ queue' = <<>>
  BY DEF TakeEvents, At, BatchInHand, Rest, Loop
<1>2. Range(<<>>) = {} /\ Ordered(<<>>)
  BY NoEvents
<1>3. Unhandled' = Unhandled
  BY <1>1, <1>2 DEF Unhandled
<1> QED
  BY <1>1, <1>2, <1>3 DEF InSequence

\* What the loop gives up on, or a process takes with it, leaves the rest in order.
LEMMA DropQueue ==
  ASSUME TypeOK, BatchInHand, InSequence, batch' = <<>>, loop' = Bars,
         queue' = queue \/ queue' = <<>>
  PROVE  Unhandled' \subseteq Unhandled /\ InSequence'
<1>1. Rest' = <<>>
  BY DEF Rest, Bars, Loop
<1>2. Range(<<>>) = {} /\ Ordered(<<>>)
  BY NoEvents
<1>3. Range(queue') \subseteq Range(queue) /\ Ordered(queue')
  BY <1>2 DEF InSequence
<1> QED
  BY <1>1, <1>2, <1>3 DEF Unhandled, InSequence

\* A step that touches neither the batch nor the queue leaves all of it.
LEMMA SameQueue ==
  ASSUME InSequence, queue' = queue, Rest' = Rest
  PROVE  Unhandled' = Unhandled /\ InSequence'
BY DEF Unhandled, InSequence

-----------------------------------------------------------------------------
(* The inductive invariant *)

\* An event of the trade is still to be written.
Waits(t, kind) == \E e \in Unhandled : e.trade = t /\ e.kind = kind

\* It will wait after the step.
WillWait(t, kind) == \E e \in Unhandled' : e.trade = t /\ e.kind = kind

Placing(t) == loop.at \in {"submit", "release"} /\ loop.trade = t

\* A trade that has not been entered has left no trace.
Fresh(t) ==
  /\ pos[t].status = "none" /\ posRow[t].status = "none"
  /\ \A e \in Unhandled : e.trade # t
  /\ SettlementsOf(t) = {}
  /\ risk.booked[t] = <<>> /\ saved.booked[t] = <<>>

EntriesAreFresh ==
  \A t \in Trades :
    /\ t \notin seen \/ Placing(t) \/ order[t] = "WORKING" => Fresh(t)
    /\ t \notin seen => order[t] = "none" /\ ~Placing(t)
    /\ Placing(t) => order[t] = "none"

\* What a waiting event says is how the broker stands.
EventsTellTruth ==
  \A e \in Unhandled :
    /\ e.kind = "ENTRY_FILL" => order[e.trade] = "FILLED" /\ e.trade \in Known
    /\ e.kind \in {"EXPIRED", "CANCELLED"} => order[e.trade] = e.kind
    /\ e.kind = "POSITION_OPENED" => posRow[e.trade].status = "none" /\ e.trade \in Known
    /\ e.kind = "FUNDING" => (e.trade \in Known => e.at <= pos[e.trade].through)
    /\ e.kind \in {"EXIT_FILL", "POSITION_CLOSED"} => pos[e.trade].status = "CLOSED"

\* Only a closed row has a result; the broker does not trade on it.
RowsAreSane ==
  \A t \in Trades :
    /\ IsOpen(posRow[t]) => posRow[t].exit = None /\ posRow[t].fund = {}
    /\ IsOpen(pos[t]) => pos[t].exit = None
    /\ posRow[t].status = "CLOSED" => ~IsOpen(pos[t])

\* A result that is booked is of a position that is over and written.
BookedIsOver ==
  \A t \in Trades : \A r \in {risk, saved} : r.booked[t] # <<>> =>
    /\ Len(r.booked[t]) = 1
    /\ ~IsOpen(pos[t]) /\ ~IsOpen(posRow[t])
    /\ ~Waits(t, "POSITION_OPENED") /\ ~Waits(t, "POSITION_CLOSED")

\* The event that reports an order's end.
Report(st) == IF st = "FILLED" THEN "ENTRY_FILL" ELSE st

\* What the rows do not say yet, a waiting event will.
RowsCatchUp ==
  \A t \in Trades \ cut :
    /\ t \in Held => t \in OpenRows \/ Waits(t, "POSITION_OPENED")
    /\ mode = "up" /\ t \in OpenRows => t \in Held \/ Waits(t, "POSITION_CLOSED")
    /\ pos[t].status = "CLOSED" =>
         \/ Waits(t, "POSITION_CLOSED")
         \/ posRow[t].status = "CLOSED" /\ posRow[t].exit = pos[t].exit
    /\ Waits(t, "POSITION_CLOSED") => posRow[t].status # "none" \/ Waits(t, "POSITION_OPENED")
    /\ order[t] # "none" => orderRow[t] = order[t] \/ Waits(t, Report(order[t]))
    /\ loop.at = "submit" /\ loop.trade = t => orderRow[t] = "WORKING"

WaitingSettlements(t) ==
  {b \in 1..MaxNow : \E e \in Unhandled : e.trade = t /\ e.kind = "FUNDING" /\ e.at = b}

\* What a position has paid is in the ledger or waits to be.
FundingCatchesUp ==
  \A t \in Trades \ cut :
    /\ t \in Known => pos[t].fund = SettlementsOf(t) \cup WaitingSettlements(t)
    /\ posRow[t].status = "CLOSED" /\ posRow[t].exit # None =>
         posRow[t].fund = SettlementsOf(t) /\ ~Waits(t, "FUNDING")

IInv ==
  /\ Shape /\ InSequence
  /\ EntriesAreFresh /\ EventsTellTruth /\ RowsAreSane /\ BookedIsOver
  /\ RowsCatchUp /\ FundingCatchesUp

-----------------------------------------------------------------------------
(* The broker keeps the invariant *)

BrokerMoves(N) ==
  /\ \A t \in Trades : Outcome(t, N)
  /\ Unhandled' = Unhandled \cup N

\* What the broker appends comes after what waits.
LEMMA BrokerQueue ==
  ASSUME IInv, BrokerStep
  PROVE  InSequence' /\ \E N \in SUBSET Event : BrokerMoves(N)
<1>1. PICK es \in Seq(Event) : /\ queue' = queue \o es /\ Ordered(es)
                               /\ \A t \in Trades : Outcome(t, Range(es))
  BY DEF BrokerStep
<1> DEFINE N == Range(es)
<1>2. /\ Rest \in Seq(Event) /\ queue \in Seq(Event)
      /\ \A e \in Unhandled : e \in Event /\ e.trade \in Trades
  BY RestProps DEF IInv, Shape
<1>3. \A f \in N : f \in Event /\ f.trade \in Trades
  <2>1. \A i \in DOMAIN es : es[i] \in Event
    OBVIOUS
  <2>2. \A f \in N : f \in Event
    BY <2>1 DEF Range
  <2> QED
    BY <2>2 DEF Event
<1>4. ASSUME NEW e \in Unhandled, NEW f \in N, e.trade = f.trade
      PROVE  Stage(e) < Stage(f)
  <2> DEFINE t == f.trade
  <2>1. /\ t \in Trades /\ e \in Event /\ f \in Event /\ f \in EventsOf(N, t)
        /\ Outcome(t, N) /\ MaxNow \in Nat
    BY <1>1, <1>2, <1>3, BoundFacts DEF EventsOf
  <2>2. ~Fresh(t)
    BY <1>4 DEF Fresh
  <2>3. order[t] # "WORKING"
    BY <2>1, <2>2 DEF IInv, EntriesAreFresh
  <2>4. Carried(t, N) \/ Closed(t, N)
    BY <2>1, <2>3 DEF Outcome, Filled, Killed, Untouched
  <2>5. IsOpen(pos[t]) /\ Paid(t, N) /\ f.kind \in {"FUNDING", "EXIT_FILL", "POSITION_CLOSED"}
    BY <2>1, <2>4 DEF Carried, Closed
  <2>6. e.kind \notin {"EXIT_FILL", "POSITION_CLOSED"}
    BY <1>4, <2>5 DEF IInv, EventsTellTruth, IsOpen
  <2>7. e.kind = "FUNDING" => e.at <= pos[t].through
    BY <1>4, <2>1, <2>5 DEF IInv, EventsTellTruth, IsOpen, Known
  <2>8. f.kind = "FUNDING" => pos[t].through < f.at
    BY <2>1, <2>5 DEF Paid
  <2>9. e.at \in 0..MaxNow /\ f.at \in 0..MaxNow /\ pos[t].through \in 0..MaxNow
    BY <2>1, StageProps, PositionFields DEF IInv, Shape, TypeOK
  <2>10. e.kind \in {"ENTRY_FILL", "EXPIRED", "CANCELLED", "POSITION_OPENED", "FUNDING"}
    BY <2>1, <2>6 DEF Event
  <2>11. /\ Stage(e) \in {0, 1} \/ (e.kind = "FUNDING" /\ Stage(e) = 1 + e.at)
         /\ \/ f.kind = "FUNDING" /\ Stage(f) = 1 + f.at
            \/ Stage(f) \in {MaxNow + 2, MaxNow + 3}
    BY <2>1, <2>5, <2>10, StageProps
  <2> HIDE DEF t
  <2> QED
    BY <2>1, <2>7, <2>8, <2>9, <2>11
<1>5. \A e \in Unhandled, f \in N : Precedes(e, f)
  BY <1>4 DEF Precedes
<1>6. /\ Range(queue \o es) = Range(queue) \cup N /\ Ordered(queue \o es)
  <2>1. Ordered(queue) /\ \A e \in Range(queue), f \in Range(es) : Precedes(e, f)
    BY <1>5 DEF IInv, InSequence, Unhandled
  <2> QED
    BY <2>1, <1>1, <1>2, ConcatOrdered
<1>7. Rest' = Rest
  BY DEF Rest, BrokerStep
<1>8. Unhandled' = Unhandled \cup N
  BY <1>1, <1>6, <1>7 DEF Unhandled
<1>9. InSequence'
  BY <1>1, <1>5, <1>6, <1>7 DEF IInv, InSequence, Unhandled
<1>10. N \in SUBSET Event
  BY <1>3
<1> HIDE DEF N
<1> QED
  BY <1>1, <1>8, <1>9, <1>10 DEF N, BrokerMoves

\* What happens to a trade without a position can only be the end of its order.
LEMMA FreshOutcome ==
  ASSUME NEW t \in Trades, NEW N, Outcome(t, N), pos[t].status = "none"
  PROVE  Filled(t, N) \/ Killed(t, N) \/ Untouched(t, N)
BY DEF Outcome, Carried, Closed, IsOpen

\* A trade with events waiting is at work or over.
LEMMA WaitingOutcome ==
  ASSUME IInv, NEW N, NEW e \in Unhandled, e.trade \in Trades, Outcome(e.trade, N)
  PROVE  Untouched(e.trade, N) \/ Carried(e.trade, N) \/ Closed(e.trade, N)
<1>1. ~Fresh(e.trade)
  BY DEF Fresh
<1>2. order[e.trade] # "WORKING"
  BY <1>1 DEF IInv, EntriesAreFresh
<1> QED
  BY <1>2 DEF Outcome, Filled, Killed

LEMMA BrokerShape ==
  ASSUME IInv, BrokerStep, NEW N \in SUBSET Event, BrokerMoves(N)
  PROVE  Shape'
<1>1. /\ Shape /\ mode = "up" /\ UNCHANGED <<now, mode, batch, loop, risk, database>>
      /\ now \in 0..MaxNow /\ MaxNow \in Nat
  BY BoundFacts DEF IInv, Shape, BrokerStep, TypeOK
<1>2. queue' \in Seq(Event)
  <2>1. PICK es \in Seq(Event) : queue' = queue \o es
    BY DEF BrokerStep
  <2>2. queue \in Seq(Event)
    BY <1>1 DEF Shape, TypeOK
  <2> QED
    BY <2>1, <2>2
<1>3. TypeOK'
  BY <1>1, <1>2 DEF Shape, TypeOK, BrokerStep, database
<1>4. risk' \in RiskStates /\ saved' \in RiskStates /\ BatchInHand' /\ DownIsEmpty'
  BY <1>1 DEF Shape, BatchInHand, DownIsEmpty, database
<1>5. ASSUME NEW t \in Trades
      PROVE  pos'[t].through <= now /\ pos'[t].opened <= now
  <2>1. Outcome(t, N) /\ pos[t].through <= now /\ pos[t].opened <= now /\ now <= now
    BY <1>1 DEF BrokerMoves, Shape, TimesArePast
  <2>2. NewPosition.opened = now /\ NewPosition.through = now
    BY NewPositionProps, <1>1 DEF Shape
  <2> QED
    BY <2>1, <2>2 DEF Outcome, Filled, Killed, Untouched, Carried, Closed, Paid
<1>6. TimesArePast'
  BY <1>1, <1>5 DEF Shape, TimesArePast, database
<1>7. ASSUME NEW e \in N, e.kind = "FUNDING"  PROVE e.at \in 1..now
  <2> DEFINE t == e.trade
  <2>1. e \in Event /\ t \in Trades /\ e.at \in 0..MaxNow /\ e \in EventsOf(N, t) /\ Outcome(t, N)
    BY StageProps DEF EventsOf, BrokerMoves
  <2>2. Ev("ENTRY_FILL", t).kind = "ENTRY_FILL" /\ Ev("POSITION_OPENED", t).kind = "POSITION_OPENED"
    BY DEF Ev
  <2>3. \A k \in {"EXPIRED", "CANCELLED"} : Ev(k, t).kind = k
    BY DEF Ev
  <2>4. ~Filled(t, N) /\ ~Killed(t, N) /\ ~Untouched(t, N)
    BY <1>7, <2>1, <2>2, <2>3 DEF Filled, Killed, Untouched
  <2>5. Paid(t, N)
    BY <2>1, <2>4 DEF Outcome, Carried, Closed
  <2>6. pos[t].through < e.at /\ e.at <= pos'[t].through /\ pos'[t].through <= now
    BY <1>7, <2>1, <2>5 DEF Paid
  <2>7. pos[t].through \in 0..MaxNow /\ pos'[t].through \in 0..MaxNow
    BY <1>1, <1>3, <2>1, PositionFields DEF Shape, TypeOK
  <2> HIDE DEF t
  <2> QED
    BY <1>1, <2>1, <2>6, <2>7
<1>8. \A e \in Unhandled' : e.kind = "FUNDING" => e.at \in 1..now
  BY <1>1, <1>7 DEF Shape, BrokerMoves
<1> QED
  BY <1>1, <1>3, <1>4, <1>6, <1>8 DEF Shape

LEMMA BrokerFresh ==
  ASSUME IInv, BrokerStep, NEW N \in SUBSET Event, BrokerMoves(N)
  PROVE  EntriesAreFresh'
<1> SUFFICES ASSUME NEW t \in Trades
             PROVE  /\ (t \notin seen \/ Placing(t) \/ order[t] = "WORKING" => Fresh(t))'
                    /\ (t \notin seen => order[t] = "none" /\ ~Placing(t))'
                    /\ (Placing(t) => order[t] = "none")'
  BY DEF EntriesAreFresh
<1>1. /\ seen' = seen /\ loop' = loop /\ posRow' = posRow /\ fundRow' = fundRow
      /\ risk' = risk /\ saved' = saved /\ (Placing(t))' = Placing(t)
  BY DEF BrokerStep, database, Placing
<1>2. /\ t \notin seen \/ Placing(t) \/ order[t] = "WORKING" => Fresh(t)
      /\ t \notin seen => order[t] = "none" /\ ~Placing(t)
      /\ Placing(t) => order[t] = "none"
      /\ Outcome(t, N)
  BY DEF IInv, EntriesAreFresh, BrokerMoves
<1>3. ASSUME Fresh(t), Untouched(t, N)  PROVE Fresh(t)'
  <2>1. \A e \in Unhandled' : e.trade # t
    BY <1>3 DEF Fresh, Untouched, BrokerMoves, EventsOf
  <2> QED
    BY <2>1, <1>1, <1>3 DEF Fresh, Untouched, SettlementsOf
<1>4. ASSUME t \notin seen \/ Placing(t)  PROVE Fresh(t)' /\ order'[t] = "none"
  <2>1. Fresh(t) /\ order[t] = "none"
    BY <1>2, <1>4
  <2>2. Untouched(t, N)
    BY <1>2, <2>1, FreshOutcome DEF Fresh, Filled, Killed
  <2> QED
    BY <1>3, <2>1, <2>2 DEF Untouched
<1>5. ASSUME order'[t] = "WORKING"  PROVE Fresh(t)'
  <2>1. ~Filled(t, N) /\ ~Killed(t, N)
    BY <1>5 DEF Filled, Killed
  <2>2. order[t] = "WORKING"
    BY <1>2, <1>5, <2>1 DEF Outcome, Untouched, Carried, Closed
  <2>3. Fresh(t)
    BY <1>2, <2>2
  <2>4. Untouched(t, N)
    BY <1>2, <2>1, <2>3, FreshOutcome DEF Fresh
  <2> QED
    BY <1>3, <2>3, <2>4
<1> QED
  BY <1>1, <1>2, <1>4, <1>5

LEMMA BrokerTruth ==
  ASSUME IInv, BrokerStep, NEW N \in SUBSET Event, BrokerMoves(N)
  PROVE  EventsTellTruth'
<1>1. posRow' = posRow /\ TypeOK /\ TypeOK'
  BY BrokerShape DEF IInv, BrokerStep, database, Shape
<1>2. ASSUME NEW e \in Unhandled, NEW t, t = e.trade
      PROVE  /\ e.kind = "ENTRY_FILL" => order'[t] = "FILLED" /\ t \in Known'
             /\ e.kind \in {"EXPIRED", "CANCELLED"} => order'[t] = e.kind
             /\ e.kind = "POSITION_OPENED" => posRow'[t].status = "none" /\ t \in Known'
             /\ e.kind = "FUNDING" => (t \in Known' => e.at <= pos'[t].through)
             /\ e.kind \in {"EXIT_FILL", "POSITION_CLOSED"} => pos'[t].status = "CLOSED"
  <2>1. /\ e.kind = "ENTRY_FILL" => order[t] = "FILLED" /\ t \in Known
        /\ e.kind \in {"EXPIRED", "CANCELLED"} => order[t] = e.kind
        /\ e.kind = "POSITION_OPENED" => posRow[t].status = "none" /\ t \in Known
        /\ e.kind = "FUNDING" => (t \in Known => e.at <= pos[t].through)
        /\ e.kind \in {"EXIT_FILL", "POSITION_CLOSED"} => pos[t].status = "CLOSED"
    BY <1>2 DEF IInv, EventsTellTruth
  <2>2. e \in Event /\ t \in Trades /\ e.at \in 0..MaxNow /\ MaxNow \in Nat
    BY <1>2, RestProps, StageProps, BoundFacts DEF IInv, Shape
  <2>3. Untouched(t, N) \/ Carried(t, N) \/ Closed(t, N)
    BY <1>2, <2>2, WaitingOutcome DEF BrokerMoves
  <2>4. order'[t] = order[t]
    BY <2>3 DEF Untouched, Carried, Closed
  <2>5. t \in Known => t \in Known'
    BY <2>2, <2>3 DEF Known, Untouched, Carried, Closed, IsOpen
  <2>6. e.kind = "FUNDING" /\ t \in Known' => e.at <= pos'[t].through
    <3>1. pos[t].through \in 0..MaxNow /\ pos'[t].through \in 0..MaxNow
      BY <1>1, <2>2, PositionFields DEF TypeOK
    <3>2. CASE Untouched(t, N)
      BY <2>1, <3>2 DEF Untouched, Known
    <3>3. CASE Carried(t, N) \/ Closed(t, N)
      <4>1. t \in Known /\ pos[t].through <= pos'[t].through
        BY <3>3, <2>2 DEF Carried, Closed, Known, IsOpen, Paid
      <4> QED
        BY <2>1, <2>2, <3>1, <4>1
    <3> QED
      BY <2>3, <3>2, <3>3
  <2>7. e.kind \in {"EXIT_FILL", "POSITION_CLOSED"} => pos'[t].status = "CLOSED"
    BY <2>1, <2>3 DEF Untouched, Carried, Closed, IsOpen
  <2> QED
    BY <1>1, <2>1, <2>4, <2>5, <2>6, <2>7
<1>3. ASSUME NEW e \in N, NEW t, t = e.trade
      PROVE  /\ e.kind = "ENTRY_FILL" => order'[t] = "FILLED" /\ t \in Known'
             /\ e.kind \in {"EXPIRED", "CANCELLED"} => order'[t] = e.kind
             /\ e.kind = "POSITION_OPENED" => posRow'[t].status = "none" /\ t \in Known'
             /\ e.kind = "FUNDING" => (t \in Known' => e.at <= pos'[t].through)
             /\ e.kind \in {"EXIT_FILL", "POSITION_CLOSED"} => pos'[t].status = "CLOSED"
  <2>1. e \in Event /\ t \in Trades /\ e \in EventsOf(N, t) /\ Outcome(t, N)
    BY <1>3, StageProps DEF EventsOf, BrokerMoves
  <2>2. CASE Filled(t, N)
    <3>1. e.kind \in {"ENTRY_FILL", "POSITION_OPENED"}
      BY <2>1, <2>2 DEF Filled, Ev
    <3>2. order[t] = "WORKING" /\ order'[t] = "FILLED" /\ pos'[t] = NewPosition
      BY <2>2 DEF Filled
    <3>3. t \in Known'
      BY <3>2, <2>1, <1>1, NewPositionProps DEF Known
    <3>4. posRow[t].status = "none"
      BY <2>1, <3>2 DEF IInv, EntriesAreFresh, Fresh
    <3> QED
      BY <1>1, <3>1, <3>2, <3>3, <3>4
  <2>3. CASE Killed(t, N)
    <3>1. e.kind = order'[t] /\ order'[t] \in {"EXPIRED", "CANCELLED"}
      BY <2>1, <2>3 DEF Killed, Ev
    <3> QED
      BY <3>1
  <2>4. CASE Untouched(t, N)
    BY <2>1, <2>4 DEF Untouched
  <2>5. CASE Carried(t, N)
    BY <2>1, <2>5 DEF Carried, Paid
  <2>6. CASE Closed(t, N)
    BY <2>1, <2>6 DEF Closed, Paid
  <2> QED
    BY <2>1, <2>2, <2>3, <2>4, <2>5, <2>6 DEF Outcome
<1> SUFFICES ASSUME NEW e \in Unhandled \cup N
             PROVE  /\ e.kind = "ENTRY_FILL" => order'[e.trade] = "FILLED" /\ e.trade \in Known'
                    /\ e.kind \in {"EXPIRED", "CANCELLED"} => order'[e.trade] = e.kind
                    /\ e.kind = "POSITION_OPENED" =>
                         posRow'[e.trade].status = "none" /\ e.trade \in Known'
                    /\ e.kind = "FUNDING" => (e.trade \in Known' => e.at <= pos'[e.trade].through)
                    /\ e.kind \in {"EXIT_FILL", "POSITION_CLOSED"} =>
                         pos'[e.trade].status = "CLOSED"
  BY DEF EventsTellTruth, BrokerMoves
<1> QED
  BY <1>2, <1>3

LEMMA BrokerRows ==
  ASSUME IInv, BrokerStep, NEW N \in SUBSET Event, BrokerMoves(N)
  PROVE  RowsAreSane'
<1> SUFFICES ASSUME NEW t \in Trades
             PROVE  /\ IsOpen(posRow[t]) => posRow[t].exit = None /\ posRow[t].fund = {}
                    /\ IsOpen(pos'[t]) => pos'[t].exit = None
                    /\ posRow[t].status = "CLOSED" => ~IsOpen(pos'[t])
  BY DEF RowsAreSane, BrokerStep, database, IsOpen
<1>1. /\ IsOpen(posRow[t]) => posRow[t].exit = None /\ posRow[t].fund = {}
      /\ IsOpen(pos[t]) => pos[t].exit = None
      /\ posRow[t].status = "CLOSED" => ~IsOpen(pos[t])
      /\ order[t] = "WORKING" => Fresh(t)
  BY DEF IInv, RowsAreSane, EntriesAreFresh
<1>2. NewPosition.exit = None /\ NewPosition.status = "OPEN"
  BY NewPositionProps DEF IInv, Shape
<1>3. Outcome(t, N)
  BY DEF BrokerMoves
<1>4. CASE Filled(t, N)
  BY <1>1, <1>2, <1>4 DEF Filled, Fresh
<1>5. CASE Killed(t, N) \/ Untouched(t, N)
  BY <1>1, <1>5 DEF Killed, Untouched
<1>6. CASE Carried(t, N) \/ Closed(t, N)
  BY <1>1, <1>6 DEF Carried, Closed, IsOpen
<1> QED
  BY <1>3, <1>4, <1>5, <1>6 DEF Outcome

LEMMA BrokerBooked ==
  ASSUME IInv, BrokerStep, NEW N \in SUBSET Event, BrokerMoves(N)
  PROVE  BookedIsOver'
<1> SUFFICES ASSUME NEW t \in Trades, NEW r \in {risk, saved}, r.booked[t] # <<>>
             PROVE  /\ Len(r.booked[t]) = 1
                    /\ ~IsOpen(pos'[t]) /\ ~IsOpen(posRow[t])
                    /\ ~WillWait(t, "POSITION_OPENED") /\ ~WillWait(t, "POSITION_CLOSED")
  <2>1. risk' = risk /\ saved' = saved /\ posRow' = posRow
    BY DEF BrokerStep, database
  <2> QED
    BY <2>1 DEF BookedIsOver, IsOpen, Waits, WillWait
<1>1. /\ Len(r.booked[t]) = 1
      /\ ~IsOpen(pos[t]) /\ ~IsOpen(posRow[t])
      /\ ~Waits(t, "POSITION_OPENED") /\ ~Waits(t, "POSITION_CLOSED")
  BY DEF IInv, BookedIsOver
<1>2. order[t] # "WORKING"
  BY DEF IInv, EntriesAreFresh, Fresh
<1>3. Untouched(t, N)
  BY <1>1, <1>2 DEF BrokerMoves, Outcome, Filled, Killed, Carried, Closed
<1>4. \A e \in Unhandled' : e.trade = t => e \in Unhandled
  BY <1>3 DEF Untouched, EventsOf, BrokerMoves
<1>5. ~WillWait(t, "POSITION_OPENED") /\ ~WillWait(t, "POSITION_CLOSED")
  BY <1>1, <1>4 DEF Waits, WillWait
<1> QED
  BY <1>1, <1>3, <1>5 DEF Untouched

\* What waits goes on waiting while the broker adds to it.
LEMMA BrokerWaits ==
  ASSUME NEW N, BrokerMoves(N), NEW t, NEW kind
  PROVE  /\ Waits(t, kind) => WillWait(t, kind)
         /\ (\E e \in EventsOf(N, t) : e.kind = kind) => WillWait(t, kind)
         /\ WillWait(t, kind) => Waits(t, kind) \/ \E e \in EventsOf(N, t) : e.kind = kind
BY DEF BrokerMoves, Waits, WillWait, EventsOf

LEMMA BrokerCatchUp ==
  ASSUME IInv, BrokerStep, NEW N \in SUBSET Event, BrokerMoves(N)
  PROVE  RowsCatchUp'
<1>1. /\ mode' = mode /\ cut' = cut /\ loop' = loop
      /\ orderRow' = orderRow /\ posRow' = posRow /\ mode = "up"
  BY DEF BrokerStep, database
<1> SUFFICES ASSUME NEW t \in Trades, t \notin cut
    PROVE
      /\ t \in Held' => t \in OpenRows \/ WillWait(t, "POSITION_OPENED")
      /\ t \in OpenRows => t \in Held' \/ WillWait(t, "POSITION_CLOSED")
      /\ pos'[t].status = "CLOSED" =>
           \/ WillWait(t, "POSITION_CLOSED")
           \/ posRow[t].status = "CLOSED" /\ posRow[t].exit = pos'[t].exit
      /\ WillWait(t, "POSITION_CLOSED") => posRow[t].status # "none" \/ WillWait(t, "POSITION_OPENED")
      /\ order'[t] # "none" => orderRow[t] = order'[t] \/ WillWait(t, Report(order'[t]))
      /\ loop.at = "submit" /\ loop.trade = t => orderRow[t] = "WORKING"
  <2>1. OpenRows' = OpenRows
    BY <1>1 DEF OpenRows, IsOpen
  <2> QED
    BY <1>1, <2>1 DEF RowsCatchUp, Waits, WillWait
<1>2. /\ t \in Held => t \in OpenRows \/ Waits(t, "POSITION_OPENED")
      /\ t \in OpenRows => t \in Held \/ Waits(t, "POSITION_CLOSED")
      /\ pos[t].status = "CLOSED" =>
           \/ Waits(t, "POSITION_CLOSED")
           \/ posRow[t].status = "CLOSED" /\ posRow[t].exit = pos[t].exit
      /\ Waits(t, "POSITION_CLOSED") => posRow[t].status # "none" \/ Waits(t, "POSITION_OPENED")
      /\ order[t] # "none" => orderRow[t] = order[t] \/ Waits(t, Report(order[t]))
      /\ loop.at = "submit" /\ loop.trade = t => orderRow[t] = "WORKING"
  BY <1>1 DEF IInv, RowsCatchUp
<1>3. Outcome(t, N)
  BY DEF BrokerMoves
<1>4. \A kind : Waits(t, kind) => WillWait(t, kind)
  BY BrokerWaits
<1>5. \A kind : (\E e \in EventsOf(N, t) : e.kind = kind) => WillWait(t, kind)
  BY BrokerWaits
<1>6. \A kind : WillWait(t, kind) => Waits(t, kind) \/ \E e \in EventsOf(N, t) : e.kind = kind
  BY BrokerWaits
<1>7. CASE Filled(t, N)
  <2> DEFINE a == Ev("ENTRY_FILL", t)
             b == Ev("POSITION_OPENED", t)
  <2>1. EventsOf(N, t) = {a, b} /\ a.kind = "ENTRY_FILL" /\ b.kind = "POSITION_OPENED"
    BY <1>7 DEF Filled, Ev
  <2> HIDE DEF a, b
  <2>2. WillWait(t, "ENTRY_FILL") /\ WillWait(t, "POSITION_OPENED")
    BY <2>1, <1>5
  <2>3. /\ order'[t] = "FILLED" /\ pos'[t].status = "OPEN" /\ Fresh(t)
    BY <1>7, NewPositionProps DEF Filled, IInv, Shape, EntriesAreFresh
  <2>4. t \notin OpenRows
    BY <2>3 DEF Fresh, OpenRows, IsOpen
  <2>5. Report(order'[t]) = "ENTRY_FILL"
    BY <2>3 DEF Report
  <2> QED
    BY <1>2, <2>2, <2>3, <2>4, <2>5
<1>8. CASE Killed(t, N)
  <2>1. /\ Fresh(t) /\ pos'[t] = pos[t]
        /\ order'[t] \in {"EXPIRED", "CANCELLED"} /\ EventsOf(N, t) = {Ev(order'[t], t)}
    BY <1>8 DEF Killed, IInv, EntriesAreFresh
  <2>2. Report(order'[t]) = order'[t] /\ Ev(order'[t], t).kind = order'[t]
    BY <2>1 DEF Report, Ev
  <2>3. WillWait(t, Report(order'[t]))
    BY <2>1, <2>2, <1>5
  <2>4. t \notin OpenRows /\ t \notin Held' /\ pos'[t].status # "CLOSED"
    BY <2>1 DEF Fresh, OpenRows, Held, IsOpen
  <2>5. ~Waits(t, "POSITION_CLOSED")
    BY <2>1 DEF Fresh, Waits
  <2>6. ~WillWait(t, "POSITION_CLOSED")
    BY <2>1, <2>2, <2>5, <1>6
  <2> QED
    BY <1>2, <2>3, <2>4, <2>6
<1>9. CASE Untouched(t, N)
  <2>1. pos'[t] = pos[t] /\ order'[t] = order[t] /\ EventsOf(N, t) = {}
    BY <1>9 DEF Untouched
  <2>2. t \in Held' <=> t \in Held
    BY <2>1 DEF Held, IsOpen
  <2>3. WillWait(t, "POSITION_CLOSED") => Waits(t, "POSITION_CLOSED")
    BY <2>1, <1>6
  <2>4. order[t] # "none" => orderRow[t] = order[t] \/ WillWait(t, Report(order[t]))
    BY <1>2, <1>4
  <2> QED
    BY <1>2, <1>4, <2>1, <2>2, <2>3, <2>4
<1>10. CASE Carried(t, N)
  <2>1. /\ order'[t] = order[t] /\ IsOpen(pos[t]) /\ IsOpen(pos'[t])
        /\ \A e \in EventsOf(N, t) : e.kind = "FUNDING"
    BY <1>10 DEF Carried
  <2>2. t \in Held' /\ t \in Held /\ pos'[t].status # "CLOSED"
    BY <2>1 DEF Held, IsOpen
  <2>3. WillWait(t, "POSITION_CLOSED") => Waits(t, "POSITION_CLOSED")
    BY <2>1, <1>6
  <2>4. order[t] # "none" => orderRow[t] = order[t] \/ WillWait(t, Report(order[t]))
    BY <1>2, <1>4
  <2> QED
    BY <1>2, <1>4, <2>1, <2>2, <2>3, <2>4
<1>11. CASE Closed(t, N)
  <2>1. /\ order'[t] = order[t] /\ IsOpen(pos[t]) /\ pos'[t].status = "CLOSED"
        /\ \E e \in EventsOf(N, t) : e.kind = "POSITION_CLOSED"
    BY <1>11 DEF Closed
  <2>2. t \notin Held' /\ t \in Held
    BY <2>1 DEF Held, IsOpen
  <2>3. WillWait(t, "POSITION_CLOSED")
    BY <2>1, <1>5
  <2>4. t \in OpenRows => posRow[t].status # "none"
    BY DEF OpenRows, IsOpen
  <2>5. order[t] # "none" => orderRow[t] = order[t] \/ WillWait(t, Report(order[t]))
    BY <1>2, <1>4
  <2> QED
    BY <1>2, <1>4, <2>1, <2>2, <2>3, <2>4, <2>5
<1> QED
  BY <1>3, <1>7, <1>8, <1>9, <1>10, <1>11 DEF Outcome

LEMMA BrokerFunding ==
  ASSUME IInv, BrokerStep, NEW N \in SUBSET Event, BrokerMoves(N)
  PROVE  FundingCatchesUp'
<1>1. cut' = cut /\ posRow' = posRow /\ fundRow' = fundRow
  BY DEF BrokerStep, database
<1> SUFFICES ASSUME NEW t \in Trades, t \notin cut
    PROVE
      /\ t \in Known' => pos'[t].fund = SettlementsOf(t) \cup WaitingSettlements(t)'
      /\ posRow[t].status = "CLOSED" /\ posRow[t].exit # None =>
           posRow[t].fund = SettlementsOf(t) /\ ~WillWait(t, "FUNDING")
  <2>1. \A u : SettlementsOf(u)' = SettlementsOf(u)
    BY <1>1 DEF SettlementsOf
  <2> QED
    BY <1>1, <2>1 DEF FundingCatchesUp, Waits, WillWait
<1>2. /\ t \in Known => pos[t].fund = SettlementsOf(t) \cup WaitingSettlements(t)
      /\ posRow[t].status = "CLOSED" /\ posRow[t].exit # None =>
           posRow[t].fund = SettlementsOf(t) /\ ~Waits(t, "FUNDING")
  BY DEF IInv, FundingCatchesUp
<1> DEFINE paid == {b \in 1..MaxNow : \E e \in N : e.trade = t /\ e.kind = "FUNDING" /\ e.at = b}
<1>3. WaitingSettlements(t)' = WaitingSettlements(t) \cup paid
  BY DEF WaitingSettlements, BrokerMoves
<1>4. (\A e \in EventsOf(N, t) : e.kind # "FUNDING") => paid = {}
  BY DEF EventsOf
<1> HIDE DEF paid
<1>5. Outcome(t, N)
  BY DEF BrokerMoves
<1>6. CASE Filled(t, N)
  <2>1. Fresh(t) /\ pos'[t].fund = {}
    BY <1>6, NewPositionProps DEF Filled, IInv, Shape, EntriesAreFresh
  <2>2. WaitingSettlements(t) = {}
    BY <2>1 DEF Fresh, WaitingSettlements
  <2>3. paid = {}
    BY <1>4, <1>6 DEF Filled, Ev
  <2> QED
    BY <1>3, <2>1, <2>2, <2>3 DEF Fresh
<1>7. CASE Killed(t, N)
  <2>1. Fresh(t) /\ pos'[t] = pos[t]
    BY <1>7 DEF Killed, IInv, EntriesAreFresh
  <2> QED
    BY <2>1 DEF Fresh, Known
<1>8. CASE Untouched(t, N)
  <2>1. pos'[t] = pos[t] /\ EventsOf(N, t) = {}
    BY <1>8 DEF Untouched
  <2>2. paid = {} /\ (t \in Known' <=> t \in Known)
    BY <1>4, <2>1 DEF Known
  <2>3. WillWait(t, "FUNDING") => Waits(t, "FUNDING")
    BY <2>1, BrokerWaits
  <2> QED
    BY <1>2, <1>3, <2>1, <2>2, <2>3
<1>9. CASE Carried(t, N) \/ Closed(t, N)
  <2>1. Paid(t, N) /\ IsOpen(pos[t])
    BY <1>9 DEF Carried, Closed
  <2>2. pos'[t].fund = pos[t].fund \cup paid
    BY <2>1 DEF Paid, paid
  <2>3. t \in Known /\ posRow[t].status # "CLOSED"
    BY <2>1 DEF Known, IsOpen, IInv, RowsAreSane
  <2> QED
    BY <1>2, <1>3, <2>2, <2>3
<1> QED
  BY <1>5, <1>6, <1>7, <1>8, <1>9 DEF Outcome

LEMMA BrokerKeeps ==
  ASSUME IInv, BrokerStep
  PROVE  IInv'
<1>1. InSequence' /\ \E N \in SUBSET Event : BrokerMoves(N)
  BY BrokerQueue
<1>2. PICK N \in SUBSET Event : BrokerMoves(N)
  BY <1>1
<1> QED
  BY <1>1, <1>2, BrokerShape, BrokerFresh, BrokerTruth, BrokerRows, BrokerBooked,
     BrokerCatchUp, BrokerFunding DEF IInv

-----------------------------------------------------------------------------
(* The invariant, trade by trade *)

EntryFresh(t) ==
  /\ t \notin seen \/ Placing(t) \/ order[t] = "WORKING" => Fresh(t)
  /\ t \notin seen => order[t] = "none" /\ ~Placing(t)
  /\ Placing(t) => order[t] = "none"

Truth(t) ==
  \A e \in Unhandled : e.trade = t =>
    /\ e.kind = "ENTRY_FILL" => order[t] = "FILLED" /\ pos[t].status # "none"
    /\ e.kind \in {"EXPIRED", "CANCELLED"} => order[t] = e.kind
    /\ e.kind = "POSITION_OPENED" => posRow[t].status = "none" /\ pos[t].status # "none"
    /\ e.kind = "FUNDING" => (pos[t].status # "none" => e.at <= pos[t].through)
    /\ e.kind \in {"EXIT_FILL", "POSITION_CLOSED"} => pos[t].status = "CLOSED"

RowSane(t) ==
  /\ IsOpen(posRow[t]) => posRow[t].exit = None /\ posRow[t].fund = {}
  /\ IsOpen(pos[t]) => pos[t].exit = None
  /\ posRow[t].status = "CLOSED" => ~IsOpen(pos[t])

BookedOver(t) ==
  \A r \in {risk, saved} : r.booked[t] # <<>> =>
    /\ Len(r.booked[t]) = 1
    /\ ~IsOpen(pos[t]) /\ ~IsOpen(posRow[t])
    /\ ~Waits(t, "POSITION_OPENED") /\ ~Waits(t, "POSITION_CLOSED")

RowCatchesUp(t) ==
  t \notin cut =>
    /\ IsOpen(pos[t]) => IsOpen(posRow[t]) \/ Waits(t, "POSITION_OPENED")
    /\ mode = "up" /\ IsOpen(posRow[t]) => IsOpen(pos[t]) \/ Waits(t, "POSITION_CLOSED")
    /\ pos[t].status = "CLOSED" =>
         \/ Waits(t, "POSITION_CLOSED")
         \/ posRow[t].status = "CLOSED" /\ posRow[t].exit = pos[t].exit
    /\ Waits(t, "POSITION_CLOSED") => posRow[t].status # "none" \/ Waits(t, "POSITION_OPENED")
    /\ order[t] # "none" => orderRow[t] = order[t] \/ Waits(t, Report(order[t]))
    /\ loop.at = "submit" /\ loop.trade = t => orderRow[t] = "WORKING"

FundingPaid(t) ==
  t \notin cut =>
    /\ pos[t].status # "none" => pos[t].fund = SettlementsOf(t) \cup WaitingSettlements(t)
    /\ posRow[t].status = "CLOSED" /\ posRow[t].exit # None =>
         posRow[t].fund = SettlementsOf(t) /\ ~Waits(t, "FUNDING")

TradeInv(t) ==
  /\ EntryFresh(t) /\ Truth(t) /\ RowSane(t) /\ BookedOver(t)
  /\ RowCatchesUp(t) /\ FundingPaid(t)

LEMMA Apart == IInv => \A t \in Trades : TradeInv(t)
<1> SUFFICES ASSUME IInv, NEW t \in Trades  PROVE TradeInv(t)
  OBVIOUS
<1>1. EntryFresh(t)
  BY DEF IInv, EntriesAreFresh, EntryFresh
<1>2. Truth(t)
  BY DEF IInv, EventsTellTruth, Truth, Known
<1>3. RowSane(t)
  BY DEF IInv, RowsAreSane, RowSane
<1>4. BookedOver(t)
  BY DEF IInv, BookedIsOver, BookedOver
<1>5. RowCatchesUp(t)
  BY DEF IInv, RowsCatchUp, RowCatchesUp, Held, OpenRows
<1>6. FundingPaid(t)
  BY DEF IInv, FundingCatchesUp, FundingPaid, Known
<1> QED
  BY <1>1, <1>2, <1>3, <1>4, <1>5, <1>6 DEF TradeInv

LEMMA Together == Shape /\ InSequence /\ (\A t \in Trades : TradeInv(t)) => IInv
<1> SUFFICES ASSUME Shape, InSequence, \A t \in Trades : TradeInv(t)  PROVE IInv
  OBVIOUS
<1>1. EntriesAreFresh
  BY DEF TradeInv, EntriesAreFresh, EntryFresh
<1>2. EventsTellTruth
  <2>1. \A e \in Unhandled : e.trade \in Trades
    BY RestProps DEF Shape
  <2>2. \A e \in Unhandled : Truth(e.trade)
    BY <2>1 DEF TradeInv
  <2> QED
    BY <2>1, <2>2 DEF EventsTellTruth, Truth, Known
<1>3. RowsAreSane
  BY DEF TradeInv, RowsAreSane, RowSane
<1>4. BookedIsOver
  BY DEF TradeInv, BookedIsOver, BookedOver
<1>5. RowsCatchUp
  BY DEF TradeInv, RowsCatchUp, RowCatchesUp, Held, OpenRows
<1>6. FundingCatchesUp
  BY DEF TradeInv, FundingCatchesUp, FundingPaid, Known
<1> QED
  BY <1>1, <1>2, <1>3, <1>4, <1>5, <1>6 DEF IInv

LEMMA TogetherAfter == Shape' /\ InSequence' /\ (\A t \in Trades : TradeInv(t))' => IInv'
BY Together, PTL

\* A step that leaves a trade as it is, but for the risk state being saved.
SameTrade(t) ==
  /\ order'[t] = order[t] /\ pos'[t] = pos[t]
  /\ orderRow'[t] = orderRow[t] /\ posRow'[t] = posRow[t]
  /\ {b \in 1..MaxNow : <<t, b>> \in fundRow'} = {b \in 1..MaxNow : <<t, b>> \in fundRow}
  /\ risk'.booked[t] = risk.booked[t]
  /\ saved'.booked[t] = saved.booked[t] \/ saved'.booked[t] = risk.booked[t]
  /\ t \in seen' <=> t \in seen
  /\ mode' = mode /\ cut' = cut
  /\ \A e : e.trade = t => (e \in Unhandled' <=> e \in Unhandled)
  /\ Placing(t)' <=> Placing(t)
  /\ loop'.at = "submit" /\ loop'.trade = t => loop.at = "submit"

LEMMA SameTradeKeeps ==
  ASSUME NEW t \in Trades, TradeInv(t), SameTrade(t)
  PROVE  TradeInv(t)'
<1>1. /\ order'[t] = order[t] /\ pos'[t] = pos[t]
      /\ orderRow'[t] = orderRow[t] /\ posRow'[t] = posRow[t]
      /\ risk'.booked[t] = risk.booked[t]
      /\ saved'.booked[t] = saved.booked[t] \/ saved'.booked[t] = risk.booked[t]
      /\ t \in seen' <=> t \in seen
      /\ mode' = mode /\ cut' = cut
      /\ \A e : e.trade = t => (e \in Unhandled' <=> e \in Unhandled)
      /\ Placing(t)' <=> Placing(t)
      /\ loop'.at = "submit" /\ loop'.trade = t => loop.at = "submit"
  BY DEF SameTrade
<1>2. SettlementsOf(t)' = SettlementsOf(t)
  BY DEF SameTrade, SettlementsOf
<1>3. \A kind : WillWait(t, kind) <=> Waits(t, kind)
  BY <1>1 DEF WillWait, Waits
<1>4. WaitingSettlements(t)' = WaitingSettlements(t)
  BY <1>1 DEF WaitingSettlements
<1>5. Fresh(t) => Fresh(t)'
  BY <1>1, <1>2 DEF Fresh
<1>6. EntryFresh(t)'
  BY <1>1, <1>5 DEF TradeInv, EntryFresh
<1>7. Truth(t)'
  BY <1>1 DEF TradeInv, Truth
<1>8. RowSane(t)'
  BY <1>1 DEF TradeInv, RowSane, IsOpen
<1>9. BookedOver(t)'
  <2>1. \A r \in {risk, saved} : r.booked[t] # <<>> =>
          /\ Len(r.booked[t]) = 1 /\ ~IsOpen(pos[t]) /\ ~IsOpen(posRow[t])
          /\ ~Waits(t, "POSITION_OPENED") /\ ~Waits(t, "POSITION_CLOSED")
    BY DEF TradeInv, BookedOver
  <2>2. \A r \in {risk', saved'} : r.booked[t] # <<>> =>
          /\ Len(r.booked[t]) = 1 /\ ~IsOpen(pos'[t]) /\ ~IsOpen(posRow'[t])
          /\ ~WillWait(t, "POSITION_OPENED") /\ ~WillWait(t, "POSITION_CLOSED")
    BY <1>1, <1>3, <2>1
  <2> QED
    BY <2>2 DEF BookedOver, Waits, WillWait, IsOpen
<1>10. RowCatchesUp(t)'
  <2> SUFFICES ASSUME t \notin cut
      PROVE
        /\ IsOpen(pos'[t]) => IsOpen(posRow'[t]) \/ WillWait(t, "POSITION_OPENED")
        /\ mode' = "up" /\ IsOpen(posRow'[t]) => IsOpen(pos'[t]) \/ WillWait(t, "POSITION_CLOSED")
        /\ pos'[t].status = "CLOSED" =>
             \/ WillWait(t, "POSITION_CLOSED")
             \/ posRow'[t].status = "CLOSED" /\ posRow'[t].exit = pos'[t].exit
        /\ WillWait(t, "POSITION_CLOSED") =>
             posRow'[t].status # "none" \/ WillWait(t, "POSITION_OPENED")
        /\ order'[t] # "none" => orderRow'[t] = order'[t] \/ WillWait(t, Report(order'[t]))
        /\ loop'.at = "submit" /\ loop'.trade = t => orderRow'[t] = "WORKING"
    BY <1>1 DEF RowCatchesUp, Waits, WillWait, IsOpen
  <2>1. loop'.at = "submit" /\ loop'.trade = t => loop.at = "submit" /\ loop.trade = t
    BY <1>1 DEF Placing
  <2> QED
    BY <1>1, <1>3, <2>1 DEF TradeInv, RowCatchesUp
<1>11. FundingPaid(t)'
  BY <1>1, <1>2, <1>3, <1>4 DEF TradeInv, FundingPaid, Waits, WillWait
<1> QED
  BY <1>6, <1>7, <1>8, <1>9, <1>10, <1>11 DEF TradeInv

-----------------------------------------------------------------------------
(* The drain keeps the invariant *)

\* What the head of the batch being dealt with means for the rest.
HeadFacts(h) ==
  /\ h \in Event /\ h.trade \in Trades /\ h \in Unhandled
  /\ Unhandled' = Unhandled \ {h}
  /\ \A f \in Unhandled' : f \in Event /\ (f.trade = h.trade => Stage(h) < Stage(f))
  /\ h.trade \in seen /\ order[h.trade] # "WORKING"
  /\ \A t : ~Placing(t) /\ ~Placing(t)'
  /\ loop'.at # "submit" /\ mode = "up"

LEMMA HandlerQueue ==
  ASSUME IInv, At("drain"), queue' = queue,
         Done \/ (batch' = batch /\ \E t \in Trades : loop' = Loop("save", t))
  PROVE  /\ HeadFacts(Head(batch)) /\ InSequence'
         /\ queue' \in Seq(Event) /\ batch' \in Seq(Event)
         /\ loop' \in LoopPlaces /\ BatchInHand'
<1> DEFINE h == Head(batch)
<1>1. TypeOK /\ BatchInHand /\ InSequence /\ loop.at = "drain" /\ mode = "up"
  BY DEF IInv, Shape, At
<1>2. batch # <<>> /\ batch \in Seq(Event) /\ queue \in Seq(Event)
  BY <1>1 DEF BatchInHand, TypeOK
<1>3. Tail(batch) \in Seq(Event) /\ Len(Tail(batch)) = Len(batch) - 1 /\ Len(batch) \in Nat \ {0}
  BY <1>2
<1>4. /\ batch' \in Seq(Event) /\ loop' \in LoopPlaces /\ BatchInHand'
      /\ loop'.at \in {"bars", "drain", "save"} /\ Rest' = Tail(batch)
  <2>1. CASE Done
    <3>1. batch' = Tail(batch) /\ loop' = IF Len(batch) = 1 THEN Bars ELSE Loop("drain", None)
      BY <2>1 DEF Done
    <3>2. CASE Len(batch) = 1
      <4>1. loop' = [at |-> "bars", trade |-> None]
        BY <3>1, <3>2 DEF Bars, Loop
      <4>2. batch' = <<>>
        BY <3>1, <3>2, <1>3
      <4> QED
        BY <4>1, <4>2, <3>1, <1>3 DEF LoopPlaces, BatchInHand, Rest
    <3>3. CASE Len(batch) # 1
      <4>1. loop' = [at |-> "drain", trade |-> None]
        BY <3>1, <3>3 DEF Loop
      <4>2. Len(batch') # 0 /\ batch' \in Seq(Event)
        <5>1. Len(batch) - 1 # 0
          BY <3>3, <1>3
        <5>2. Len(Tail(batch)) # 0 /\ Tail(batch) \in Seq(Event)
          BY <5>1, <1>3
        <5>3. batch' = Tail(batch)
          BY <3>1
        <5> DEFINE rest == Tail(batch)
        <5> HIDE DEF rest
        <5>4. Len(rest) # 0 /\ rest \in Seq(Event) /\ batch' = rest
          BY <5>2, <5>3 DEF rest
        <5> QED
          BY <5>4
      <4>3. batch' # <<>>
        BY <4>2
      <4>4. batch' = Tail(batch) /\ loop' \in LoopPlaces /\ loop'.at = "drain"
        BY <4>1, <3>1 DEF LoopPlaces
      <4> QED
        BY <4>2, <4>3, <4>4 DEF BatchInHand, Rest
    <3> QED
      BY <3>2, <3>3
  <2>2. CASE batch' = batch /\ \E t \in Trades : loop' = Loop("save", t)
    <3>1. PICK t \in Trades : loop' = [at |-> "save", trade |-> t]
      BY <2>2 DEF Loop
    <3> QED
      BY <2>2, <3>1, <1>2 DEF LoopPlaces, BatchInHand, Rest
  <2> QED
    BY <2>1, <2>2
<1>5. /\ h \in Event /\ h \in Unhandled
      /\ Unhandled' = Unhandled \ {h} /\ InSequence'
      /\ \A f \in Unhandled' : Precedes(h, f)
  BY <1>1, <1>4, HandleQueue
<1>6. \A f \in Unhandled' : f \in Event
  BY <1>1, <1>5, RestProps
<1> HIDE DEF h
<1>7. h.trade \in Trades
  BY <1>5, StageProps
<1>8. ~Fresh(h.trade)
  BY <1>5 DEF Fresh
<1>9. h.trade \in seen /\ order[h.trade] # "WORKING"
  BY <1>7, <1>8 DEF IInv, EntriesAreFresh
<1>10. \A t : ~Placing(t) /\ ~Placing(t)'
  BY <1>1, <1>4 DEF Placing
<1>11. HeadFacts(h)
  BY <1>1, <1>4, <1>5, <1>6, <1>7, <1>9, <1>10 DEF HeadFacts, Precedes
<1> QED
  BY <1>2, <1>4, <1>5, <1>11 DEF h

\* What can still wait once the head of a trade has been dealt with.
LEMMA AfterHead ==
  ASSUME NEW h, HeadFacts(h), NEW f \in Unhandled', f.trade = h.trade
  PROVE  /\ f \in Unhandled /\ f # h
         /\ h.kind = "POSITION_OPENED" => f.kind \in {"FUNDING", "EXIT_FILL", "POSITION_CLOSED"}
         /\ h.kind = "FUNDING" => \/ f.kind = "FUNDING" /\ f.at # h.at
                                  \/ f.kind \in {"EXIT_FILL", "POSITION_CLOSED"}
         /\ h.kind = "EXIT_FILL" => f.kind = "POSITION_CLOSED"
         /\ h.kind # "POSITION_CLOSED"
         /\ f.kind \notin {"ENTRY_FILL", "EXPIRED", "CANCELLED"}
<1>1. h \in Event /\ f \in Event /\ Stage(h) < Stage(f) /\ MaxNow \in Nat
  BY BoundFacts DEF HeadFacts
<1>2. f \in Unhandled /\ f # h
  BY DEF HeadFacts
<1>3. /\ h.at \in 0..MaxNow /\ f.at \in 0..MaxNow /\ Stage(h) \in Int /\ Stage(f) \in Int
  BY <1>1, StageProps
<1>4. /\ f.kind \in {"ENTRY_FILL", "EXPIRED", "CANCELLED"} => Stage(f) = 0
      /\ f.kind = "POSITION_OPENED" => Stage(f) = 1
      /\ f.kind = "FUNDING" => Stage(f) = 1 + f.at
      /\ f.kind = "EXIT_FILL" => Stage(f) = MaxNow + 2
      /\ f.kind = "POSITION_CLOSED" => Stage(f) = MaxNow + 3
  BY <1>1, StageProps
<1>5. /\ h.kind \in {"ENTRY_FILL", "EXPIRED", "CANCELLED"} => Stage(h) = 0
      /\ h.kind = "POSITION_OPENED" => Stage(h) = 1
      /\ h.kind = "FUNDING" => Stage(h) = 1 + h.at
      /\ h.kind = "EXIT_FILL" => Stage(h) = MaxNow + 2
      /\ h.kind = "POSITION_CLOSED" => Stage(h) = MaxNow + 3
  BY <1>1, StageProps
<1>6. /\ h.kind \in {"ENTRY_FILL", "EXIT_FILL", "POSITION_OPENED", "POSITION_CLOSED",
                     "FUNDING", "EXPIRED", "CANCELLED"}
      /\ f.kind \in {"ENTRY_FILL", "EXIT_FILL", "POSITION_OPENED", "POSITION_CLOSED",
                     "FUNDING", "EXPIRED", "CANCELLED"}
  BY <1>1 DEF Event
<1>7. f.kind \notin {"ENTRY_FILL", "EXPIRED", "CANCELLED"}
  BY <1>1, <1>3, <1>4, <1>5, <1>6
<1>8. h.kind # "POSITION_CLOSED"
  BY <1>1, <1>3, <1>4, <1>5, <1>6
<1>9. h.kind = "EXIT_FILL" => f.kind = "POSITION_CLOSED"
  BY <1>1, <1>3, <1>4, <1>5, <1>6
<1>10. h.kind = "FUNDING" => \/ f.kind = "FUNDING" /\ f.at # h.at
                             \/ f.kind \in {"EXIT_FILL", "POSITION_CLOSED"}
  BY <1>1, <1>3, <1>4, <1>5, <1>6
<1>11. h.kind = "POSITION_OPENED" => f.kind \in {"FUNDING", "EXIT_FILL", "POSITION_CLOSED"}
  BY <1>1, <1>3, <1>4, <1>5, <1>6
<1> QED
  BY <1>2, <1>7, <1>8, <1>9, <1>10, <1>11

\* Dealing with an event of one trade leaves the others as they are.
HandlerLeaves(t) ==
  /\ UNCHANGED <<now, order, mode, seen, saved, cut>>
  /\ \A u \in Trades : u # t =>
       /\ pos'[u] = pos[u] /\ orderRow'[u] = orderRow[u] /\ posRow'[u] = posRow[u]
       /\ {b \in 1..MaxNow : <<u, b>> \in fundRow'} = {b \in 1..MaxNow : <<u, b>> \in fundRow}
       /\ risk'.booked[u] = risk.booked[u]

LEMMA HandlerOthers ==
  ASSUME IInv, NEW h, HeadFacts(h), HandlerLeaves(h.trade), NEW u \in Trades, u # h.trade
  PROVE  TradeInv(u)'
<1>1. SameTrade(u)
  BY DEF SameTrade, HandlerLeaves, HeadFacts
<1>2. TradeInv(u)
  BY Apart
<1> QED
  BY <1>1, <1>2, SameTradeKeeps

\* Its own trade stays known, and nothing new waits.
LEMMA HandlerFresh ==
  ASSUME IInv, NEW h, HeadFacts(h), HandlerLeaves(h.trade)
  PROVE  EntryFresh(h.trade)'
BY DEF EntryFresh, HeadFacts, HandlerLeaves

LEMMA HandlerShape ==
  ASSUME IInv, NEW h, HeadFacts(h), NEW t \in Trades, h.trade = t, HandlerLeaves(t),
         TypeOK', BatchInHand',
         risk' \in RiskStates,
         \A f \in fundRow' : f[2] <= now,
         \A u \in Trades : pos'[u].through <= now /\ pos'[u].opened <= now /\ posRow'[u].opened <= now
  PROVE  Shape'
<1>1. now' = now /\ saved' = saved /\ mode' = mode /\ mode = "up"
  BY DEF HandlerLeaves, HeadFacts
<1>2. saved' \in RiskStates /\ DownIsEmpty'
  BY <1>1 DEF IInv, Shape, DownIsEmpty
<1>3. TimesArePast'
  BY <1>1 DEF TimesArePast
<1>4. \A e \in Unhandled' : e.kind = "FUNDING" => e.at \in 1..now
  BY DEF IInv, Shape, HeadFacts
<1> QED
  BY <1>1, <1>2, <1>3, <1>4 DEF Shape

\* Nothing starts waiting, and all but the head goes on.
LEMMA HandlerWaits ==
  ASSUME NEW h, HeadFacts(h), NEW kind
  PROVE  /\ WillWait(h.trade, kind) => Waits(h.trade, kind)
         /\ kind # h.kind => (Waits(h.trade, kind) => WillWait(h.trade, kind))
         /\ Waits(h.trade, h.kind)
BY DEF HeadFacts, Waits, WillWait

\* A result that only leads to a fill, an order or a charge being written.
LEMMA LightHandler ==
  ASSUME IInv, NEW h, HeadFacts(h), NEW t \in Trades, h.trade = t, HandlerLeaves(t),
         h.kind \notin {"POSITION_OPENED", "POSITION_CLOSED"},
         pos' = pos, posRow' = posRow, risk' = risk,
         order[t] # "none" =>
           \/ orderRow'[t] = order[t]
           \/ t \notin cut => WillWait(t, Report(order[t])),
         FundingPaid(t)'
  PROVE  \A u \in Trades : TradeInv(u)'
<1>1. /\ order' = order /\ saved' = saved /\ cut' = cut /\ mode' = mode
      /\ loop'.at # "submit" /\ t \in Trades /\ Unhandled' \subseteq Unhandled
  BY DEF HandlerLeaves, HeadFacts
<1>2. TradeInv(t)
  BY Apart
<1>3. \A kind \in {"POSITION_OPENED", "POSITION_CLOSED"} : WillWait(t, kind) <=> Waits(t, kind)
  BY HandlerWaits
<1>4. EntryFresh(t)'
  BY HandlerFresh
<1>5. Truth(t)'
  BY <1>1, <1>2 DEF TradeInv, Truth
<1>6. RowSane(t)'
  BY <1>2 DEF TradeInv, RowSane, IsOpen
<1>7. BookedOver(t)'
  <2>1. \A r \in {risk, saved} : r.booked[t] # <<>> =>
          /\ Len(r.booked[t]) = 1 /\ ~IsOpen(pos[t]) /\ ~IsOpen(posRow[t])
          /\ ~Waits(t, "POSITION_OPENED") /\ ~Waits(t, "POSITION_CLOSED")
    BY <1>2 DEF TradeInv, BookedOver
  <2> QED
    BY <1>1, <1>3, <2>1 DEF BookedOver, WillWait, Waits, IsOpen
<1>8. RowCatchesUp(t)'
  <2> SUFFICES ASSUME t \notin cut
      PROVE
        /\ IsOpen(pos[t]) => IsOpen(posRow[t]) \/ WillWait(t, "POSITION_OPENED")
        /\ mode = "up" /\ IsOpen(posRow[t]) => IsOpen(pos[t]) \/ WillWait(t, "POSITION_CLOSED")
        /\ pos[t].status = "CLOSED" =>
             \/ WillWait(t, "POSITION_CLOSED")
             \/ posRow[t].status = "CLOSED" /\ posRow[t].exit = pos[t].exit
        /\ WillWait(t, "POSITION_CLOSED") =>
             posRow[t].status # "none" \/ WillWait(t, "POSITION_OPENED")
        /\ order[t] # "none" => orderRow'[t] = order[t] \/ WillWait(t, Report(order[t]))
    BY <1>1 DEF RowCatchesUp, Waits, WillWait, IsOpen
  <2> QED
    BY <1>2, <1>3 DEF TradeInv, RowCatchesUp
<1>9. TradeInv(t)'
  BY <1>4, <1>5, <1>6, <1>7, <1>8 DEF TradeInv
<1> QED
  BY <1>9, HandlerOthers

\* Funding is untouched while nothing about it is written.
LEMMA FundingUntouched ==
  ASSUME IInv, NEW h, HeadFacts(h), NEW t \in Trades, h.trade = t, h.kind # "FUNDING",
         fundRow' = fundRow, pos' = pos, posRow' = posRow, cut' = cut
  PROVE  FundingPaid(t)'
<1>2. FundingPaid(t)
  BY Apart DEF TradeInv
<1>3. WaitingSettlements(t)' = WaitingSettlements(t)
  BY DEF WaitingSettlements, HeadFacts
<1>4. SettlementsOf(t)' = SettlementsOf(t)
  BY DEF SettlementsOf
<1>5. WillWait(t, "FUNDING") <=> Waits(t, "FUNDING")
  BY HandlerWaits
<1> QED
  BY <1>2, <1>3, <1>4, <1>5 DEF FundingPaid, Waits, WillWait

LEMMA EntryFillKeeps ==
  ASSUME IInv, NEW t \in Trades, PersistEntryFill(t)
  PROVE  IInv'
<1>0. PICK h : h = Head(batch)
  OBVIOUS
<1>1. /\ h.kind = "ENTRY_FILL" /\ h.trade = t /\ At("drain") /\ Done
      /\ UNCHANGED <<now, broker, mode, queue, risk, seen, posRow, exitFill, fundRow, saved, history>>
  BY <1>0 DEF PersistEntryFill, Handling
<1>2. /\ HeadFacts(h) /\ InSequence'
      /\ queue' \in Seq(Event) /\ batch' \in Seq(Event) /\ loop' \in LoopPlaces /\ BatchInHand'
  BY <1>0, <1>1, HandlerQueue
<1>3. order[t] = "FILLED" /\ t \in Known
  BY <1>1, <1>2 DEF IInv, EventsTellTruth, HeadFacts
<1>4. entryFill' = entryFill \cup {t} /\ orderRow' = [orderRow EXCEPT ![t] = "FILLED"]
  BY <1>3 DEF PersistEntryFill
<1>5. Shape
  BY DEF IInv
<1>6. TypeOK'
  BY <1>1, <1>2, <1>4, <1>5 DEF Shape, TypeOK, LoopPlaces, broker, history
<1>7. HandlerLeaves(t)
  BY <1>1, <1>4, <1>5 DEF HandlerLeaves, broker, history, Shape, TypeOK
<1>8. pos' = pos /\ posRow' = posRow /\ risk' = risk /\ fundRow' = fundRow /\ cut' = cut
      /\ orderRow'[t] = "FILLED" /\ now' = now
  BY <1>1, <1>4, <1>5 DEF broker, history, Shape, TypeOK
<1>9. Shape'
  BY <1>1, <1>2, <1>5, <1>6, <1>7, <1>8, HandlerShape DEF Shape, TimesArePast
<1>10. FundingPaid(t)'
  BY <1>1, <1>2, <1>8, FundingUntouched
<1>11. \A u \in Trades : TradeInv(u)'
  BY <1>1, <1>2, <1>3, <1>7, <1>8, <1>10, LightHandler
<1> QED
  BY <1>2, <1>9, <1>11, TogetherAfter

LEMMA ExitFillKeeps ==
  ASSUME IInv, NEW t \in Trades, PersistExitFill(t)
  PROVE  IInv'
<1>0. PICK h : h = Head(batch)
  OBVIOUS
<1>1. /\ h.kind = "EXIT_FILL" /\ h.trade = t /\ At("drain") /\ Done
      /\ exitFill' = IF t \in Known /\ exitFill[t] = None
                       THEN [exitFill EXCEPT ![t] = h.exit] ELSE exitFill
      /\ UNCHANGED <<now, broker, mode, queue, risk, seen, orderRow, posRow, entryFill,
                     fundRow, saved, history>>
  BY <1>0 DEF PersistExitFill, Handling
<1>2. /\ HeadFacts(h) /\ InSequence'
      /\ queue' \in Seq(Event) /\ batch' \in Seq(Event) /\ loop' \in LoopPlaces /\ BatchInHand'
  BY <1>0, <1>1, HandlerQueue
<1>3. h.exit \in Exits \cup {None}
  BY <1>2, StageProps DEF HeadFacts
<1>4. Shape
  BY DEF IInv
<1>5. TypeOK'
  <2>1. exitFill' \in [Trades -> Exits \cup {None}]
    BY <1>1, <1>3, <1>4 DEF Shape, TypeOK
  <2> QED
    BY <1>1, <1>2, <1>4, <2>1 DEF Shape, TypeOK, LoopPlaces, broker, history
<1>6. HandlerLeaves(t)
  BY <1>1 DEF HandlerLeaves, broker, history
<1>7. /\ pos' = pos /\ posRow' = posRow /\ risk' = risk /\ fundRow' = fundRow /\ cut' = cut
      /\ orderRow' = orderRow /\ now' = now
  BY <1>1 DEF broker, history
<1>8. Shape'
  BY <1>1, <1>2, <1>4, <1>5, <1>6, <1>7, HandlerShape DEF Shape, TimesArePast
<1>9. FundingPaid(t)'
  BY <1>1, <1>2, <1>7, FundingUntouched
<1>10. order[t] # "none" =>
         \/ orderRow'[t] = order[t]
         \/ t \notin cut => WillWait(t, Report(order[t]))
  <2>1. Report(order[t]) # "EXIT_FILL"
    BY <1>4 DEF Shape, TypeOK, Report
  <2>2. Waits(t, Report(order[t])) => WillWait(t, Report(order[t]))
    BY <1>1, <1>2, <2>1, HandlerWaits
  <2> QED
    BY <1>7, <2>2 DEF IInv, RowsCatchUp
<1>11. \A u \in Trades : TradeInv(u)'
  BY <1>1, <1>2, <1>6, <1>7, <1>9, <1>10, LightHandler
<1> QED
  BY <1>2, <1>8, <1>11, TogetherAfter

LEMMA KillKeeps ==
  ASSUME IInv, NEW t \in Trades, PersistKill(t)
  PROVE  IInv'
<1>0. PICK h : h = Head(batch)
  OBVIOUS
<1>1. /\ h.kind \in {"EXPIRED", "CANCELLED"} /\ h.trade = t /\ At("drain") /\ Done
      /\ orderRow' = [orderRow EXCEPT ![t] = h.kind]
      /\ UNCHANGED <<now, broker, mode, queue, risk, seen, posRow, entryFill,
                     exitFill, fundRow, saved, history>>
  BY <1>0 DEF PersistKill, Handling
<1>2. /\ HeadFacts(h) /\ InSequence'
      /\ queue' \in Seq(Event) /\ batch' \in Seq(Event) /\ loop' \in LoopPlaces /\ BatchInHand'
  BY <1>0, <1>1, HandlerQueue
<1>3. order[t] = h.kind
  BY <1>1, <1>2 DEF IInv, EventsTellTruth, HeadFacts
<1>4. Shape
  BY DEF IInv
<1>5. TypeOK'
  BY <1>1, <1>2, <1>4 DEF Shape, TypeOK, LoopPlaces, broker, history
<1>6. HandlerLeaves(t)
  BY <1>1, <1>4 DEF HandlerLeaves, broker, history, Shape, TypeOK
<1>7. /\ pos' = pos /\ posRow' = posRow /\ risk' = risk /\ fundRow' = fundRow /\ cut' = cut
      /\ orderRow'[t] = order[t] /\ now' = now
  BY <1>1, <1>3, <1>4 DEF broker, history, Shape, TypeOK
<1>8. Shape'
  BY <1>1, <1>2, <1>4, <1>5, <1>6, <1>7, HandlerShape DEF Shape, TimesArePast
<1>9. FundingPaid(t)'
  BY <1>1, <1>2, <1>7, FundingUntouched
<1>10. \A u \in Trades : TradeInv(u)'
  BY <1>1, <1>2, <1>6, <1>7, <1>9, LightHandler
<1> QED
  BY <1>2, <1>8, <1>10, TogetherAfter

LEMMA FundingKeeps ==
  ASSUME IInv, NEW t \in Trades, PersistFunding(t)
  PROVE  IInv'
<1>0. PICK h : h = Head(batch)
  OBVIOUS
<1>1. /\ h.kind = "FUNDING" /\ h.trade = t /\ At("drain") /\ Done
      /\ fundRow' = fundRow \cup {<<t, h.at>>}
      /\ UNCHANGED <<now, broker, mode, queue, risk, seen, orderRow, posRow, entryFill,
                     exitFill, saved, history>>
  BY <1>0 DEF PersistFunding, Handling
<1>2. /\ HeadFacts(h) /\ InSequence'
      /\ queue' \in Seq(Event) /\ batch' \in Seq(Event) /\ loop' \in LoopPlaces /\ BatchInHand'
  BY <1>0, <1>1, HandlerQueue
<1>3. Shape /\ now \in 0..MaxNow /\ MaxNow \in Nat
  BY BoundFacts DEF IInv, Shape, TypeOK
<1>4. h.at \in 1..now /\ h.at \in 1..MaxNow /\ h.at <= now
  <2>1. h.at \in 1..now
    BY <1>1, <1>2, <1>3 DEF Shape, HeadFacts
  <2> QED
    BY <1>3, <2>1
<1>5. TypeOK'
  <2>1. fundRow' \subseteq Trades \X (1..MaxNow)
    BY <1>1, <1>3, <1>4 DEF Shape, TypeOK
  <2> QED
    BY <1>1, <1>2, <1>3, <2>1 DEF Shape, TypeOK, LoopPlaces, broker, history
<1>6. HandlerLeaves(t)
  BY <1>1 DEF HandlerLeaves, broker, history
<1>7. /\ pos' = pos /\ posRow' = posRow /\ risk' = risk /\ cut' = cut
      /\ orderRow' = orderRow /\ now' = now
  BY <1>1 DEF broker, history
<1>8. \A f \in fundRow' : f[2] <= now
  BY <1>1, <1>3, <1>4 DEF Shape, TimesArePast
<1>9. Shape'
  BY <1>1, <1>2, <1>3, <1>5, <1>6, <1>7, <1>8, HandlerShape DEF Shape, TimesArePast
<1>10. FundingPaid(t)'
  <2>1. FundingPaid(t)
    BY Apart DEF TradeInv
  <2>2. SettlementsOf(t)' = SettlementsOf(t) \cup {h.at}
    BY <1>1, <1>4 DEF SettlementsOf
  <2>3. h.at \in WaitingSettlements(t)
    BY <1>1, <1>2, <1>4 DEF WaitingSettlements, HeadFacts
  <2>4. WaitingSettlements(t)' \subseteq WaitingSettlements(t)
    BY <1>2 DEF WaitingSettlements, HeadFacts
  <2>5. WaitingSettlements(t) \subseteq WaitingSettlements(t)' \cup {h.at}
    BY <1>2 DEF WaitingSettlements, HeadFacts
  <2>6. SettlementsOf(t)' \cup WaitingSettlements(t)' = SettlementsOf(t) \cup WaitingSettlements(t)
    BY <2>2, <2>3, <2>4, <2>5
  <2>7. Waits(t, "FUNDING")
    BY <1>1, <1>2, HandlerWaits
  <2> QED
    BY <1>7, <2>1, <2>6, <2>7 DEF FundingPaid
<1>11. order[t] # "none" =>
         \/ orderRow'[t] = order[t]
         \/ t \notin cut => WillWait(t, Report(order[t]))
  <2>1. Report(order[t]) # "FUNDING"
    BY <1>3 DEF Shape, TypeOK, Report
  <2>2. Waits(t, Report(order[t])) => WillWait(t, Report(order[t]))
    BY <1>1, <1>2, <2>1, HandlerWaits
  <2> QED
    BY <1>7, <2>2 DEF IInv, RowsCatchUp
<1>12. \A u \in Trades : TradeInv(u)'
  BY <1>1, <1>2, <1>6, <1>7, <1>10, <1>11, LightHandler
<1> QED
  BY <1>2, <1>9, <1>12, TogetherAfter

LEMMA InsertProps ==
  ASSUME NEW p \in Position
  PROVE  /\ InsertOf(p) \in Row /\ InsertOf(p).status = p.status /\ InsertOf(p).exit = None
         /\ InsertOf(p).fund = {} /\ InsertOf(p).opened = p.opened
<1> DEFINE a == [NoRow EXCEPT !.status = p.status]
           b == [a EXCEPT !.stop = p.stop]
<1>1. p.status \in Status /\ p.stop \in {0, 1} /\ p.opened \in 0..MaxNow
  BY PositionFields
<1>2. NoRow \in Row /\ NoRow.exit = None /\ NoRow.fund = {}
  BY NoPositionProps
<1>3. InsertOf(p) = [b EXCEPT !.opened = p.opened]
  BY DEF InsertOf
<1>4. a \in Row /\ a.status = p.status /\ a.exit = None /\ a.fund = {}
  BY <1>1, <1>2 DEF Row
<1> HIDE DEF a
<1>5. b \in Row /\ b.status = p.status /\ b.exit = None /\ b.fund = {}
  BY <1>1, <1>4 DEF Row
<1> HIDE DEF b
<1> QED
  BY <1>1, <1>3, <1>5 DEF Row

LEMMA UpdatedProps ==
  ASSUME NEW r \in Row, NEW p \in Position
  PROVE  /\ Updated(r, p) \in Row /\ Updated(r, p).status = p.status
         /\ Updated(r, p).exit = p.exit /\ Updated(r, p).fund = p.fund
         /\ Updated(r, p).opened = r.opened
<1> DEFINE a == [r EXCEPT !.status = p.status]
           b == [a EXCEPT !.exit = p.exit]
<1>1. p.status \in Status /\ p.exit \in Exits \cup {None} /\ p.fund \in SUBSET (1..MaxNow)
  BY PositionFields
<1>2. Updated(r, p) = [b EXCEPT !.fund = p.fund]
  BY DEF Updated
<1>3. a \in Row /\ a.status = p.status /\ a.opened = r.opened
  BY <1>1 DEF Row
<1> HIDE DEF a
<1>4. b \in Row /\ b.status = p.status /\ b.exit = p.exit /\ b.opened = r.opened
  BY <1>1, <1>3 DEF Row
<1> HIDE DEF b
<1> QED
  BY <1>1, <1>2, <1>4 DEF Row

\* Nothing more is said of an order by the end of a position's opening or closing.
LEMMA OrderUntouched ==
  ASSUME IInv, NEW h, HeadFacts(h), NEW t \in Trades, h.trade = t,
         h.kind \in {"POSITION_OPENED", "POSITION_CLOSED"}, orderRow' = orderRow, t \notin cut
  PROVE  order[t] # "none" => orderRow'[t] = order[t] \/ WillWait(t, Report(order[t]))
<1>1. Report(order[t]) # h.kind
  BY DEF IInv, Shape, TypeOK, Report
<1>2. Waits(t, Report(order[t])) => WillWait(t, Report(order[t]))
  BY <1>1, HandlerWaits
<1> QED
  BY <1>2 DEF IInv, RowsCatchUp

LEMMA OpenKeeps ==
  ASSUME IInv, NEW t \in Trades, PersistOpen(t)
  PROVE  IInv'
<1>0. PICK h : h = Head(batch)
  OBVIOUS
<1>1. /\ h.kind = "POSITION_OPENED" /\ h.trade = t /\ At("drain") /\ batch' = batch
      /\ t \in Known /\ posRow' = [posRow EXCEPT ![t] = InsertOf(pos[t])]
      /\ risk' = [risk EXCEPT !.counted = @ \cup {t}] /\ loop' = Loop("save", t)
      /\ UNCHANGED <<now, broker, mode, queue, batch, seen, orderRow, entryFill,
                     exitFill, fundRow, saved, history>>
  BY <1>0 DEF PersistOpen, Handling
<1>2. /\ HeadFacts(h) /\ InSequence'
      /\ queue' \in Seq(Event) /\ batch' \in Seq(Event) /\ loop' \in LoopPlaces /\ BatchInHand'
  BY <1>0, <1>1, HandlerQueue
<1>3. Shape /\ pos[t] \in Position /\ posRow[t].status = "none" /\ pos[t].status # "none"
  BY <1>1, <1>2 DEF IInv, Shape, TypeOK, EventsTellTruth, HeadFacts, Known
<1>4. /\ posRow'[t] \in Row /\ posRow'[t].status = pos[t].status /\ posRow'[t].exit = None
      /\ posRow'[t].fund = {} /\ posRow'[t].opened = pos[t].opened
  <2>1. posRow'[t] = InsertOf(pos[t])
    BY <1>1, <1>3 DEF Shape, TypeOK
  <2> QED
    BY <1>3, <2>1, InsertProps
<1>5. /\ posRow' \in [Trades -> Row] /\ \A u \in Trades : u # t => posRow'[u] = posRow[u]
  BY <1>1, <1>3, <1>4 DEF Shape, TypeOK
<1>6. risk' \in RiskStates /\ risk'.booked = risk.booked /\ risk'.counted \subseteq Trades
  BY <1>1, <1>3 DEF Shape, RiskStates
<1>7. /\ pos' = pos /\ order' = order /\ fundRow' = fundRow /\ cut' = cut /\ now' = now
      /\ orderRow' = orderRow /\ saved' = saved /\ mode' = mode
  BY <1>1 DEF broker, history
<1>8. TypeOK'
  BY <1>1, <1>2, <1>3, <1>5, <1>6 DEF Shape, TypeOK, LoopPlaces, broker, history
<1>9. HandlerLeaves(t)
  BY <1>1, <1>5, <1>6 DEF HandlerLeaves, broker, history
<1>10. Shape'
  <2>1. \A u \in Trades :
          pos'[u].through <= now /\ pos'[u].opened <= now /\ posRow'[u].opened <= now
    BY <1>3, <1>4, <1>5, <1>7 DEF Shape, TimesArePast
  <2>2. \A f \in fundRow' : f[2] <= now
    BY <1>3, <1>7 DEF Shape, TimesArePast
  <2> QED
    BY <1>1, <1>2, <1>6, <1>8, <1>9, <2>1, <2>2, HandlerShape
<1>11. TradeInv(t)
  BY Apart
<1>12. \A f \in Unhandled' : f.trade = t =>
         f \in Unhandled /\ f.kind \in {"FUNDING", "EXIT_FILL", "POSITION_CLOSED"}
  BY <1>1, <1>2, AfterHead
<1>13. /\ Waits(t, "POSITION_OPENED") /\ ~WillWait(t, "POSITION_OPENED")
       /\ WillWait(t, "POSITION_CLOSED") <=> Waits(t, "POSITION_CLOSED")
  BY <1>1, <1>2, <1>12, HandlerWaits DEF WillWait
<1>14. EntryFresh(t)'
  BY <1>1, <1>2, <1>9 DEF EntryFresh, HeadFacts, HandlerLeaves
<1>15. Truth(t)'
  BY <1>7, <1>11, <1>12 DEF TradeInv, Truth
<1>16. RowSane(t)'
  BY <1>4, <1>7, <1>11 DEF TradeInv, RowSane, IsOpen
<1>17. BookedOver(t)'
  <2>1. risk.booked[t] = <<>> /\ saved.booked[t] = <<>>
    BY <1>11, <1>13 DEF TradeInv, BookedOver
  <2> QED
    BY <2>1, <1>6, <1>7 DEF BookedOver
<1>18. RowCatchesUp(t)'
  <2> SUFFICES ASSUME t \notin cut
      PROVE
        /\ IsOpen(pos[t]) => IsOpen(posRow'[t])
        /\ IsOpen(posRow'[t]) => IsOpen(pos[t])
        /\ pos[t].status = "CLOSED" => WillWait(t, "POSITION_CLOSED")
        /\ posRow'[t].status # "none"
        /\ order[t] # "none" => orderRow'[t] = order[t] \/ WillWait(t, Report(order[t]))
    BY <1>2, <1>7 DEF RowCatchesUp, Waits, WillWait, IsOpen, HeadFacts
  <2>1. pos[t].status = "CLOSED" => WillWait(t, "POSITION_CLOSED")
    BY <1>3, <1>11, <1>13 DEF TradeInv, RowCatchesUp
  <2>2. order[t] # "none" => orderRow'[t] = order[t] \/ WillWait(t, Report(order[t]))
    BY <1>1, <1>2, <1>7, OrderUntouched
  <2> QED
    BY <1>3, <1>4, <2>1, <2>2 DEF IsOpen
<1>19. FundingPaid(t)'
  <2>1. WaitingSettlements(t)' = WaitingSettlements(t)
    BY <1>1, <1>2 DEF WaitingSettlements, HeadFacts
  <2>2. SettlementsOf(t)' = SettlementsOf(t)
    BY <1>7 DEF SettlementsOf
  <2> QED
    BY <1>4, <1>7, <1>11, <2>1, <2>2 DEF TradeInv, FundingPaid
<1>20. TradeInv(t)'
  BY <1>14, <1>15, <1>16, <1>17, <1>18, <1>19 DEF TradeInv
<1>21. \A u \in Trades : TradeInv(u)'
  BY <1>1, <1>2, <1>9, <1>20, HandlerOthers
<1> QED
  BY <1>2, <1>10, <1>21, TogetherAfter

LEMMA RefusedKeeps ==
  ASSUME IInv, NEW t \in Trades, OpenRefused(t)
  PROVE  IInv'
<1>0. PICK h : h = Head(batch)
  OBVIOUS
<1>1. /\ h.kind = "POSITION_OPENED" /\ h.trade = t /\ At("drain") /\ Done
      /\ t \in Known => RowRefused(t)
      /\ pos' = [pos EXCEPT ![t] = NoPosition]
      /\ UNCHANGED <<now, order, rate, mode, queue, risk, database, history>>
  BY <1>0 DEF OpenRefused, Handling
<1>2. /\ HeadFacts(h) /\ InSequence'
      /\ queue' \in Seq(Event) /\ batch' \in Seq(Event) /\ loop' \in LoopPlaces /\ BatchInHand'
  BY <1>0, <1>1, HandlerQueue
<1>3. Shape /\ posRow[t].status = "none" /\ t \in Known
  BY <1>1, <1>2 DEF IInv, EventsTellTruth, HeadFacts
<1>4. IsOpen(pos[t])
  BY <1>1, <1>3 DEF RowRefused
<1>5. /\ pos'[t].status = "none" /\ pos'[t].through = 0 /\ pos'[t].opened = 0
      /\ pos' \in [Trades -> Position] /\ \A u \in Trades : u # t => pos'[u] = pos[u]
  BY <1>1, <1>3, NoPositionProps DEF Shape, TypeOK
<1>6. /\ order' = order /\ posRow' = posRow /\ orderRow' = orderRow /\ fundRow' = fundRow
      /\ risk' = risk /\ saved' = saved /\ cut' = cut /\ now' = now /\ mode' = mode
      /\ seen' = seen
  BY <1>1 DEF database, history
<1>7. TypeOK'
  BY <1>1, <1>2, <1>3, <1>5 DEF Shape, TypeOK, LoopPlaces, database, history
<1>8. HandlerLeaves(t)
  BY <1>5, <1>6 DEF HandlerLeaves
<1>9. Shape'
  <2>1. now \in 0..MaxNow /\ MaxNow \in Nat
    BY <1>3, BoundFacts DEF Shape, TypeOK
  <2>2. \A u \in Trades :
          pos'[u].through <= now /\ pos'[u].opened <= now /\ posRow'[u].opened <= now
    BY <1>3, <1>5, <1>6, <2>1 DEF Shape, TimesArePast
  <2>3. \A f \in fundRow' : f[2] <= now
    BY <1>3, <1>6 DEF Shape, TimesArePast
  <2>4. risk' \in RiskStates
    BY <1>3, <1>6 DEF Shape
  <2> QED
    BY <1>1, <1>2, <1>7, <1>8, <2>2, <2>3, <2>4, HandlerShape
<1>10. TradeInv(t)
  BY Apart
<1>11. \A f \in Unhandled' : f.trade = t =>
         f \in Unhandled /\ f.kind \in {"FUNDING", "EXIT_FILL", "POSITION_CLOSED"}
  BY <1>1, <1>2, AfterHead
<1>12. \A f \in Unhandled' : f.trade = t => f.kind = "FUNDING"
  BY <1>4, <1>10, <1>11 DEF TradeInv, Truth, IsOpen
<1>13. Waits(t, "POSITION_OPENED") /\ ~WillWait(t, "POSITION_OPENED")
       /\ ~WillWait(t, "POSITION_CLOSED")
  BY <1>1, <1>2, <1>12, HandlerWaits DEF WillWait
<1>14. EntryFresh(t)'
  BY <1>1, <1>2, <1>8 DEF EntryFresh, HeadFacts, HandlerLeaves
<1>15. Truth(t)'
  BY <1>5, <1>12 DEF Truth
<1>16. RowSane(t)'
  BY <1>3, <1>5, <1>6 DEF RowSane, IsOpen
<1>17. BookedOver(t)'
  <2>1. risk.booked[t] = <<>> /\ saved.booked[t] = <<>>
    BY <1>10, <1>13 DEF TradeInv, BookedOver
  <2> QED
    BY <2>1, <1>6 DEF BookedOver
<1>18. RowCatchesUp(t)'
  <2> SUFFICES ASSUME t \notin cut
      PROVE
        /\ ~IsOpen(pos'[t]) /\ ~IsOpen(posRow'[t]) /\ pos'[t].status # "CLOSED"
        /\ ~WillWait(t, "POSITION_CLOSED")
        /\ order[t] # "none" => orderRow'[t] = order[t] \/ WillWait(t, Report(order[t]))
    BY <1>2, <1>6 DEF RowCatchesUp, Waits, WillWait, IsOpen, HeadFacts
  <2>1. order[t] # "none" => orderRow'[t] = order[t] \/ WillWait(t, Report(order[t]))
    BY <1>1, <1>2, <1>6, OrderUntouched
  <2> QED
    BY <1>3, <1>5, <1>6, <1>13, <2>1 DEF IsOpen
<1>19. FundingPaid(t)'
  BY <1>3, <1>5, <1>6 DEF FundingPaid
<1>20. TradeInv(t)'
  BY <1>14, <1>15, <1>16, <1>17, <1>18, <1>19 DEF TradeInv
<1>21. \A u \in Trades : TradeInv(u)'
  BY <1>1, <1>2, <1>8, <1>20, HandlerOthers
<1> QED
  BY <1>2, <1>9, <1>21, TogetherAfter

LEMMA CloseKeeps ==
  ASSUME IInv, NEW t \in Trades, PersistClose(t)
  PROVE  IInv'
<1>0. PICK h : h = Head(batch)
  OBVIOUS
<1>1. /\ h.kind = "POSITION_CLOSED" /\ h.trade = t /\ At("drain") /\ batch' = batch
      /\ posRow' = IF posRow[t].status = "none" THEN posRow
                   ELSE [posRow EXCEPT ![t] = Updated(@, pos[t])]
      /\ risk' = [risk EXCEPT !.booked[t] = Append(@, pos[t].exit)] /\ loop' = Loop("save", t)
      /\ UNCHANGED <<now, broker, mode, queue, batch, seen, orderRow, entryFill,
                     exitFill, fundRow, saved, history>>
  BY <1>0 DEF PersistClose, Handling
<1>2. /\ HeadFacts(h) /\ InSequence'
      /\ queue' \in Seq(Event) /\ batch' \in Seq(Event) /\ loop' \in LoopPlaces /\ BatchInHand'
  BY <1>0, <1>1, HandlerQueue
<1>3. Shape /\ pos[t] \in Position /\ posRow[t] \in Row /\ pos[t].status = "CLOSED"
  BY <1>1, <1>2 DEF IInv, Shape, TypeOK, EventsTellTruth, HeadFacts
<1>5. /\ posRow' \in [Trades -> Row] /\ \A u \in Trades : u # t => posRow'[u] = posRow[u]
      /\ posRow[t].status = "none" => posRow'[t].status = "none"
      /\ posRow[t].status # "none" => /\ posRow'[t].status = "CLOSED"
                                      /\ posRow'[t].exit = pos[t].exit
                                      /\ posRow'[t].fund = pos[t].fund
      /\ posRow'[t].opened = posRow[t].opened
  <2>1. CASE posRow[t].status = "none"
    BY <2>1, <1>1, <1>3 DEF Shape, TypeOK
  <2>2. CASE posRow[t].status # "none"
    <3>1. posRow' = [posRow EXCEPT ![t] = Updated(posRow[t], pos[t])]
      BY <2>2, <1>1
    <3>2. /\ Updated(posRow[t], pos[t]) \in Row
          /\ Updated(posRow[t], pos[t]).status = "CLOSED"
          /\ Updated(posRow[t], pos[t]).exit = pos[t].exit
          /\ Updated(posRow[t], pos[t]).fund = pos[t].fund
          /\ Updated(posRow[t], pos[t]).opened = posRow[t].opened
      BY <1>3, UpdatedProps
    <3> QED
      BY <2>2, <3>1, <3>2, <1>3 DEF Shape, TypeOK
  <2> QED
    BY <2>1, <2>2
<1>6. TradeInv(t)
  BY Apart
<1>7. \A f \in Unhandled' : f.trade # t
  BY <1>1, <1>2, AfterHead
<1>8. Waits(t, "POSITION_CLOSED") /\ \A kind : ~WillWait(t, kind)
  BY <1>1, <1>2, <1>7, HandlerWaits DEF WillWait
<1>9. \A f \in Unhandled : f.trade = t => f = h
  BY <1>2, <1>7 DEF HeadFacts
<1>10. risk.booked[t] = <<>> /\ saved.booked[t] = <<>>
  BY <1>6, <1>8 DEF TradeInv, BookedOver
<1>11. /\ risk' \in RiskStates /\ risk'.counted \subseteq Trades
       /\ Len(risk'.booked[t]) = 1
       /\ \A u \in Trades : u # t => risk'.booked[u] = risk.booked[u]
  <2> DEFINE one == Append(risk.booked[t], pos[t].exit)
  <2>1. one \in Seq(Exits \cup {None}) /\ Len(one) = 1
    <3>1. pos[t].exit \in Exits \cup {None}
      BY <1>3, PositionFields
    <3>2. one = <<pos[t].exit>>
      BY <1>10
    <3> QED
      BY <3>1, <3>2
  <2>2. risk' = [risk EXCEPT !.booked = [risk.booked EXCEPT ![t] = one]]
    BY <1>1
  <2>3. risk.booked \in [Trades -> Seq(Exits \cup {None})] /\ risk.counted \subseteq Trades
    BY <1>3 DEF Shape, RiskStates
  <2> DEFINE D == Seq(Exits \cup {None})
             book == [risk.booked EXCEPT ![t] = one]
  <2> HIDE DEF one
  <2> HIDE DEF D
  <2>4. book \in [Trades -> D] /\ book[t] = one /\ \A u \in Trades : u # t => book[u] = risk.booked[u]
    BY <2>1, <2>3 DEF D
  <2> HIDE DEF book
  <2>5. risk \in [counted : SUBSET Trades, booked : [Trades -> D]]
    BY <1>3 DEF Shape, RiskStates, D
  <2>6. risk' = [risk EXCEPT !.booked = book]
    BY <2>2 DEF book
  <2>7. /\ risk' \in [counted : SUBSET Trades, booked : [Trades -> D]]
        /\ risk'.booked = book /\ risk'.counted = risk.counted
    BY <2>4, <2>5, <2>6
  <2> QED
    BY <2>1, <2>3, <2>4, <2>7 DEF RiskStates, D
<1>12. /\ pos' = pos /\ order' = order /\ fundRow' = fundRow /\ cut' = cut /\ now' = now
       /\ orderRow' = orderRow /\ saved' = saved /\ mode' = mode /\ seen' = seen
  BY <1>1 DEF broker, history
<1>13. TypeOK'
  BY <1>1, <1>2, <1>3, <1>5, <1>11 DEF Shape, TypeOK, LoopPlaces, broker, history
<1>14. HandlerLeaves(t)
  BY <1>5, <1>11, <1>12 DEF HandlerLeaves
<1>15. Shape'
  <2>1. \A u \in Trades :
          pos'[u].through <= now /\ pos'[u].opened <= now /\ posRow'[u].opened <= now
    BY <1>3, <1>5, <1>12 DEF Shape, TimesArePast
  <2>2. \A f \in fundRow' : f[2] <= now
    BY <1>3, <1>12 DEF Shape, TimesArePast
  <2> QED
    BY <1>1, <1>2, <1>11, <1>13, <1>14, <2>1, <2>2, HandlerShape
<1>16. EntryFresh(t)'
  BY <1>1, <1>2, <1>14 DEF EntryFresh, HeadFacts, HandlerLeaves
<1>17. Truth(t)'
  BY <1>7 DEF Truth
<1>18. RowSane(t)'
  BY <1>3, <1>5, <1>12 DEF RowSane, IsOpen
<1>19. BookedOver(t)'
  <2>1. ~IsOpen(pos'[t]) /\ ~IsOpen(posRow'[t])
    BY <1>3, <1>5, <1>12 DEF IsOpen
  <2> QED
    BY <1>8, <1>10, <1>11, <1>12, <2>1 DEF BookedOver, Waits, WillWait, IsOpen
<1>20. ASSUME t \notin cut  PROVE posRow[t].status # "none"
  <2>1. ~Waits(t, "POSITION_OPENED")
    BY <1>1, <1>9 DEF Waits
  <2> QED
    BY <1>6, <1>8, <1>20, <2>1 DEF TradeInv, RowCatchesUp
<1>21. RowCatchesUp(t)'
  <2> SUFFICES ASSUME t \notin cut
      PROVE
        /\ ~IsOpen(pos[t]) /\ ~IsOpen(posRow'[t])
        /\ posRow'[t].status = "CLOSED" /\ posRow'[t].exit = pos[t].exit
        /\ order[t] # "none" => orderRow'[t] = order[t] \/ WillWait(t, Report(order[t]))
    BY <1>2, <1>12 DEF RowCatchesUp, Waits, WillWait, IsOpen, HeadFacts
  <2>1. order[t] # "none" => orderRow'[t] = order[t] \/ WillWait(t, Report(order[t]))
    BY <1>1, <1>2, <1>12, OrderUntouched
  <2> QED
    BY <1>3, <1>5, <1>20, <2>1 DEF IsOpen
<1>22. FundingPaid(t)'
  <2>1. WaitingSettlements(t)' = {} /\ WaitingSettlements(t) = {}
    BY <1>1, <1>7, <1>9 DEF WaitingSettlements
  <2>2. SettlementsOf(t)' = SettlementsOf(t)
    BY <1>12 DEF SettlementsOf
  <2>3. t \notin cut => pos[t].fund = SettlementsOf(t)
    BY <1>3, <1>6, <2>1 DEF TradeInv, FundingPaid
  <2> QED
    BY <1>3, <1>5, <1>8, <1>12, <1>20, <2>1, <2>2, <2>3 DEF FundingPaid, Waits, WillWait
<1>23. TradeInv(t)'
  BY <1>16, <1>17, <1>18, <1>19, <1>21, <1>22 DEF TradeInv
<1>24. \A u \in Trades : TradeInv(u)'
  BY <1>1, <1>2, <1>14, <1>23, HandlerOthers
<1> QED
  BY <1>2, <1>15, <1>24, TogetherAfter

-----------------------------------------------------------------------------
(* Steps that leave every trade as it is *)

LEMMA QuietKeeps ==
  ASSUME IInv, InSequence', Unhandled' = Unhandled,
         UNCHANGED <<order, pos, mode, risk, seen, orderRow, posRow, fundRow, cut>>,
         saved' = saved \/ saved' = risk,
         TypeOK', BatchInHand', now <= now',
         \/ loop' = loop /\ queue' = queue
         \/ /\ mode = "up"
            /\ loop.at \notin {"submit", "release"} /\ loop'.at \notin {"submit", "release"}
  PROVE  IInv'
<1>1. Shape
  BY DEF IInv
<1>2. ASSUME NEW u \in Trades  PROVE TradeInv(u)'
  <2>1. SameTrade(u)
    BY DEF SameTrade, Placing
  <2>2. TradeInv(u)
    BY Apart
  <2> QED
    BY <2>1, <2>2, SameTradeKeeps
<1>3. /\ now \in 0..MaxNow /\ now' \in 0..MaxNow /\ MaxNow \in Nat
      /\ \A t \in Trades : pos[t].through \in 0..MaxNow /\ pos[t].opened \in 0..MaxNow
      /\ \A t \in Trades : posRow[t].opened \in 0..MaxNow
      /\ \A f \in fundRow : f[2] \in 1..MaxNow
  BY <1>1, BoundFacts, PositionFields DEF Shape, TypeOK, Row
<1>4. TimesArePast'
  BY <1>1, <1>3 DEF Shape, TimesArePast
<1>5. \A e \in Unhandled : e.kind = "FUNDING" => e.at \in 1..now'
  BY <1>1, <1>3 DEF Shape
<1>6. DownIsEmpty'
  BY <1>1 DEF Shape, DownIsEmpty
<1>7. Shape'
  BY <1>1, <1>4, <1>5, <1>6 DEF Shape
<1> QED
  BY <1>2, <1>7, TogetherAfter

LEMMA SettlementKeeps ==
  ASSUME IInv, Settlement
  PROVE  IInv'
<1>1. /\ Shape /\ now < MaxNow /\ now' = now + 1
      /\ UNCHANGED <<broker, mode, queue, batch, loop, risk, database, history>>
  BY DEF IInv, Settlement
<1>2. now \in 0..MaxNow /\ MaxNow \in Nat
  BY <1>1, BoundFacts DEF Shape, TypeOK
<1>3. now' \in 0..MaxNow /\ now <= now'
  BY <1>1, <1>2
<1>4. TypeOK'
  BY <1>1, <1>3 DEF Shape, TypeOK, broker, database, history
<1>5. Unhandled' = Unhandled /\ InSequence'
  BY <1>1, SameQueue DEF IInv, Rest
<1>6. BatchInHand'
  BY <1>1 DEF Shape, BatchInHand
<1> QED
  BY <1>1, <1>3, <1>4, <1>5, <1>6, QuietKeeps DEF broker, database, history

LEMMA TakeKeeps ==
  ASSUME IInv, TakeEvents
  PROVE  IInv'
<1>1. /\ Shape /\ mode = "up" /\ loop.at = "bars" /\ queue # <<>>
      /\ batch' = queue /\ queue' = <<>> /\ loop' = [at |-> "drain", trade |-> None]
      /\ UNCHANGED <<now, broker, mode, risk, database, history>>
  BY DEF IInv, TakeEvents, At, Loop
<1>2. loop' \in LoopPlaces /\ loop'.at = "drain"
  BY <1>1 DEF LoopPlaces
<1>3. TypeOK'
  BY <1>1, <1>2 DEF Shape, TypeOK, LoopPlaces, broker, database, history
<1>4. Unhandled' = Unhandled /\ InSequence'
  BY <1>1, TakeQueue DEF IInv, Shape
<1>5. BatchInHand'
  BY <1>1, <1>2 DEF BatchInHand
<1>6. now <= now'
  BY <1>1, BoundFacts DEF Shape, TypeOK
<1> QED
  BY <1>1, <1>2, <1>3, <1>4, <1>5, <1>6, QuietKeeps DEF broker, database, history

LEMMA SaveKeeps ==
  ASSUME IInv, SaveState
  PROVE  IInv'
<1>1. /\ Shape /\ mode = "up" /\ loop.at = "save" /\ Done /\ saved' = risk
      /\ UNCHANGED <<now, broker, mode, queue, risk, seen, orderRow, posRow, entryFill,
                     exitFill, fundRow, history>>
  BY DEF IInv, SaveState, At
<1>2. batch # <<>> /\ batch \in Seq(Event)
  BY <1>1 DEF Shape, BatchInHand, TypeOK
<1>3. Tail(batch) \in Seq(Event) /\ Len(Tail(batch)) = Len(batch) - 1 /\ Len(batch) \in Nat \ {0}
  BY <1>2
<1>4. /\ batch' = Tail(batch)
      /\ \/ Len(batch) = 1 /\ loop' = [at |-> "bars", trade |-> None]
         \/ Len(batch) # 1 /\ loop' = [at |-> "drain", trade |-> None]
  BY <1>1 DEF Done, Bars, Loop
<1>5. loop' \in LoopPlaces /\ loop'.at \in {"bars", "drain"} /\ Rest' = Tail(batch)
  BY <1>4 DEF LoopPlaces, Rest
<1>6. Rest = Tail(batch)
  BY <1>1 DEF Rest
<1>7. Len(batch) = 1 <=> Tail(batch) = <<>>
  <2> DEFINE rest == Tail(batch)
  <2>1. rest \in Seq(Event) /\ (Len(batch) = 1 <=> Len(rest) = 0)
    BY <1>3
  <2> HIDE DEF rest
  <2>2. Len(rest) = 0 <=> rest = <<>>
    BY <2>1
  <2> QED
    BY <2>1, <2>2 DEF rest
<1>11. BatchInHand'
  BY <1>4, <1>7 DEF BatchInHand
<1>8. TypeOK'
  BY <1>1, <1>3, <1>4, <1>5 DEF Shape, TypeOK, LoopPlaces, RiskStates, broker, history
<1>9. Unhandled' = Unhandled /\ InSequence'
  BY <1>1, <1>5, <1>6, SameQueue DEF IInv
<1>10. now <= now'
  BY <1>1, BoundFacts DEF Shape, TypeOK
<1> QED
  BY <1>1, <1>5, <1>8, <1>9, <1>10, <1>11, QuietKeeps DEF broker, history

LEMMA StutterKeeps ==
  ASSUME IInv, UNCHANGED vars
  PROVE  IInv'
<1>1. Shape /\ UNCHANGED <<now, broker, mode, queue, batch, loop, risk, database, history>>
  BY DEF IInv, vars
<1>2. TypeOK'
  BY <1>1 DEF Shape, TypeOK, broker, database, history
<1>3. Unhandled' = Unhandled /\ InSequence'
  BY <1>1, SameQueue DEF IInv, Rest
<1>4. BatchInHand'
  BY <1>1 DEF Shape, BatchInHand
<1>5. now <= now'
  BY <1>1, BoundFacts DEF Shape, TypeOK
<1> QED
  BY <1>1, <1>2, <1>3, <1>4, <1>5, QuietKeeps DEF broker, database, history

-----------------------------------------------------------------------------
(* Exceptions and restarts *)

\* What an exception throws away is of trades that are cut from then on.
LEMMA RaiseKeeps ==
  ASSUME IInv, Raise
  PROVE  IInv'
<1>1. /\ Shape /\ mode = "up" /\ batch' = <<>> /\ loop' = Bars
      /\ cut' = cut \cup {e.trade : e \in Range(Rest)}
      /\ UNCHANGED <<now, broker, mode, queue, risk, database, tightened, restarts>>
  BY DEF IInv, Raise
<1>2. loop' = [at |-> "bars", trade |-> None]
  BY <1>1 DEF Bars, Loop
<1>3. Unhandled' \subseteq Unhandled /\ InSequence'
  BY <1>1, DropQueue DEF IInv, Shape
<1>4. Unhandled' = Range(queue)
  <2>1. Rest' = <<>>
    BY <1>1, <1>2 DEF Rest
  <2> QED
    BY <1>1, <2>1, NoEvents DEF Unhandled
<1>5. TypeOK'
  <2>1. loop' \in LoopPlaces /\ batch' \in Seq(Event)
    BY <1>1, <1>2 DEF LoopPlaces
  <2>2. \A e \in Range(Rest) : e.trade \in Trades
    BY <1>1, RestProps DEF Shape, Unhandled
  <2>3. cut' \subseteq Trades
    BY <1>1, <2>2 DEF Shape, TypeOK
  <2> QED
    BY <1>1, <2>1, <2>3 DEF Shape, TypeOK, LoopPlaces, broker, database
<1>6. BatchInHand' /\ DownIsEmpty'
  BY <1>1, <1>2 DEF BatchInHand, DownIsEmpty
<1>7. TimesArePast' /\ risk' \in RiskStates /\ saved' \in RiskStates
  BY <1>1 DEF Shape, TimesArePast, broker, database
<1>8. Shape'
  BY <1>1, <1>3, <1>5, <1>6, <1>7 DEF Shape
<1>9. ASSUME NEW t \in Trades  PROVE TradeInv(t)'
  <2>1. /\ TradeInv(t) /\ pos' = pos /\ order' = order /\ posRow' = posRow /\ seen' = seen
        /\ risk' = risk /\ saved' = saved /\ fundRow' = fundRow /\ orderRow' = orderRow
        /\ mode' = mode
    BY <1>1, Apart DEF broker, database
  <2>2. Fresh(t) => Fresh(t)'
    BY <1>3, <2>1 DEF Fresh, SettlementsOf
  <2>3. EntryFresh(t)'
    BY <1>2, <2>1, <2>2 DEF TradeInv, EntryFresh, Placing
  <2>4. Truth(t)' /\ RowSane(t)'
    BY <1>3, <2>1 DEF TradeInv, Truth, RowSane, IsOpen
  <2>5. \A kind : WillWait(t, kind) => Waits(t, kind)
    BY <1>3 DEF WillWait, Waits
  <2>6. BookedOver(t)'
    <3>1. \A r \in {risk, saved} : r.booked[t] # <<>> =>
            /\ Len(r.booked[t]) = 1 /\ ~IsOpen(pos[t]) /\ ~IsOpen(posRow[t])
            /\ ~Waits(t, "POSITION_OPENED") /\ ~Waits(t, "POSITION_CLOSED")
      BY <2>1 DEF TradeInv, BookedOver
    <3> QED
      BY <2>1, <2>5, <3>1 DEF BookedOver, Waits, WillWait, IsOpen
  <2>7. CASE t \in cut'
    <3>1. RowCatchesUp(t)' /\ FundingPaid(t)'
      BY <2>7 DEF RowCatchesUp, FundingPaid
    <3> QED
      BY <2>3, <2>4, <2>6, <3>1 DEF TradeInv
  <2>8. CASE t \notin cut'
    <3>1. t \notin cut /\ \A e \in Range(Rest) : e.trade # t
      BY <1>1, <2>8
    <3>2. \A e : e.trade = t => (e \in Unhandled' <=> e \in Unhandled)
      BY <1>4, <3>1 DEF Unhandled
    <3>3. \A kind : WillWait(t, kind) <=> Waits(t, kind)
      BY <3>2 DEF WillWait, Waits
    <3>4. WaitingSettlements(t)' = WaitingSettlements(t)
      BY <3>2 DEF WaitingSettlements
    <3>5. SettlementsOf(t)' = SettlementsOf(t)
      BY <2>1 DEF SettlementsOf
    <3>6. RowCatchesUp(t)'
      BY <1>2, <2>1, <3>1, <3>3 DEF TradeInv, RowCatchesUp, Waits, WillWait, IsOpen
    <3>7. FundingPaid(t)'
      BY <2>1, <3>1, <3>3, <3>4, <3>5 DEF TradeInv, FundingPaid, Waits, WillWait
    <3> QED
      BY <2>3, <2>4, <2>6, <3>6, <3>7 DEF TradeInv
  <2> QED
    BY <2>7, <2>8
<1> QED
  BY <1>3, <1>8, <1>9, TogetherAfter

\* Of a process that is gone only what it has written is left.
LEMMA GoneKeeps ==
  ASSUME IInv, MemoryGone, saved' = saved \/ saved' = risk
  PROVE  IInv'
<1>1. /\ Shape /\ mode' = "down" /\ order' = [t \in Trades |-> "none"]
      /\ pos' = [t \in Trades |-> NoPosition]
      /\ rate' = {} /\ queue' = <<>> /\ batch' = <<>> /\ loop' = Bars /\ risk' = FreshRisk
      /\ cut' = {t \in cut : posRow[t].status = "CLOSED"}
      /\ UNCHANGED <<now, seen, orderRow, posRow, entryFill, exitFill, fundRow,
                     tightened, raises>>
  BY DEF IInv, MemoryGone
<1>2. loop' = [at |-> "bars", trade |-> None]
  BY <1>1 DEF Bars, Loop
<1>3. Unhandled' = {} /\ InSequence'
  <2>1. Rest' = <<>>
    BY <1>1, <1>2 DEF Rest
  <2> QED
    BY <1>1, <2>1, NoEvents DEF Unhandled, InSequence
<1>4. risk' \in RiskStates /\ saved' \in RiskStates
  BY <1>1 DEF Shape, RiskStates, FreshRisk
<1>5. TypeOK'
  <2>1. loop' \in LoopPlaces /\ batch' \in Seq(Event) /\ queue' \in Seq(Event)
    BY <1>1, <1>2 DEF LoopPlaces
  <2>2. pos' \in [Trades -> Position]
    BY <1>1, NoPositionProps
  <2>3. risk'.counted \subseteq Trades /\ saved'.counted \subseteq Trades
    BY <1>4 DEF RiskStates
  <2> QED
    BY <1>1, <2>1, <2>2, <2>3 DEF Shape, TypeOK, LoopPlaces
<1>6. \A t \in Trades : pos'[t] = NoPosition /\ order'[t] = "none"
  BY <1>1
<1>7. BatchInHand' /\ DownIsEmpty'
  BY <1>1, <1>2, <1>6 DEF BatchInHand, DownIsEmpty
<1>8. TimesArePast'
  <2>1. now \in 0..MaxNow /\ MaxNow \in Nat
    BY <1>1, BoundFacts DEF Shape, TypeOK
  <2> QED
    BY <1>1, <1>6, <2>1, NoPositionProps DEF Shape, TimesArePast
<1>9. Shape'
  BY <1>3, <1>4, <1>5, <1>7, <1>8 DEF Shape
<1>10. ASSUME NEW t \in Trades  PROVE TradeInv(t)'
  <2>1. /\ TradeInv(t) /\ pos'[t].status = "none" /\ order'[t] = "none"
        /\ posRow' = posRow /\ seen' = seen /\ fundRow' = fundRow /\ mode' = "down"
        /\ t \notin cut' => t \notin cut \/ posRow[t].status # "CLOSED"
    BY <1>1, <1>6, Apart, NoPositionProps
  <2>2. risk'.booked[t] = <<>>
        /\ (saved'.booked[t] = saved.booked[t] \/ saved'.booked[t] = risk.booked[t])
    BY <1>1 DEF FreshRisk
  <2>3. Fresh(t) => Fresh(t)'
    BY <1>3, <2>1, <2>2 DEF Fresh, SettlementsOf
  <2>4. EntryFresh(t)'
    BY <1>2, <2>1, <2>3 DEF TradeInv, EntryFresh, Placing
  <2>5. Truth(t)'
    BY <1>3 DEF Truth
  <2>6. RowSane(t)'
    BY <2>1 DEF TradeInv, RowSane, IsOpen
  <2>7. BookedOver(t)'
    <3>1. \A r \in {risk, saved} : r.booked[t] # <<>> =>
            Len(r.booked[t]) = 1 /\ ~IsOpen(posRow[t])
      BY <2>1 DEF TradeInv, BookedOver
    <3>2. \A kind : ~WillWait(t, kind)
      BY <1>3 DEF WillWait
    <3> QED
      BY <2>1, <2>2, <3>1, <3>2 DEF BookedOver, Waits, WillWait, IsOpen
  <2>8. RowCatchesUp(t)'
    BY <1>1, <1>2, <1>3, <2>1 DEF RowCatchesUp, Waits, IsOpen
  <2>9. FundingPaid(t)'
    <3>1. SettlementsOf(t)' = SettlementsOf(t)
      BY <2>1 DEF SettlementsOf
    <3> QED
      BY <1>3, <2>1, <3>1 DEF TradeInv, FundingPaid, Waits
  <2> QED
    BY <2>4, <2>5, <2>6, <2>7, <2>8, <2>9 DEF TradeInv
<1> QED
  BY <1>3, <1>9, <1>10, TogetherAfter

\* The position rebuilt from its row and the ledger.
LEMMA RecoveredProps ==
  ASSUME Shape, NEW t \in Trades, IsOpen(posRow[t]), RowSane(t)
  PROVE  /\ Recovered(t) \in Position /\ Recovered(t).status = posRow[t].status
         /\ Recovered(t).exit = None /\ Recovered(t).fund = SettlementsOf(t)
         /\ Recovered(t).through <= now /\ Recovered(t).opened <= now
<1> DEFINE charged == SettlementsOf(t)
           last == IF charged = {} THEN posRow[t].opened ELSE Max(charged)
           fund == IF charged = {} THEN posRow[t].fund ELSE charged
           row == posRow[t]
<1>1. /\ row.status \in Status /\ row.exit = None /\ row.stop \in {0, 1}
      /\ row.fund = {} /\ row.opened \in 0..MaxNow /\ row.opened <= now
      /\ MaxNow \in Nat /\ now \in 0..MaxNow
  BY BoundFacts DEF Shape, TypeOK, TimesArePast, Row, RowSane
<1>2. charged \in SUBSET (1..MaxNow) /\ \A b \in charged : b <= now
  BY DEF Shape, TimesArePast, SettlementsOf
<1>3. fund = charged
  BY <1>1
<1>4. last \in 0..MaxNow /\ last <= now
  <2>1. CASE charged = {}
    BY <1>1, <2>1
  <2>2. CASE charged # {}
    <3>1. Max(charged) \in charged
      BY <1>1, <1>2, <2>2, MaxProps
    <3>2. last = Max(charged)
      BY <2>2
    <3> HIDE DEF charged, last
    <3>3. last \in 1..MaxNow /\ last <= now
      BY <1>2, <3>1, <3>2
    <3> QED
      BY <1>1, <3>3
  <2> QED
    BY <2>1, <2>2
<1>5. Recovered(t) = [status |-> row.status, exit |-> row.exit, stop |-> row.stop,
                      fund |-> fund, opened |-> row.opened, through |-> last]
  BY DEF Recovered
<1> HIDE DEF row, fund, last, charged
<1>6. Recovered(t) \in Position
  BY <1>1, <1>2, <1>3, <1>4, <1>5 DEF Position
<1>7. /\ Recovered(t).status = row.status /\ Recovered(t).exit = None
      /\ Recovered(t).fund = charged /\ Recovered(t).through <= now /\ Recovered(t).opened <= now
  BY <1>1, <1>3, <1>4, <1>5
<1> QED
  BY <1>6, <1>7 DEF row, charged

LEMMA RecoverKeeps ==
  ASSUME IInv, Recover
  PROVE  IInv'
<1>1. /\ Shape /\ mode = "down" /\ mode' = "up" /\ risk' = saved
      /\ pos' = [t \in Trades |-> IF t \in OpenRows THEN Recovered(t) ELSE NoPosition]
      /\ UNCHANGED <<now, order, rate, queue, batch, loop, database, history>>
  BY DEF IInv, Recover
<1>2. /\ loop.at = "bars" /\ queue = <<>> /\ batch = <<>>
      /\ \A t \in Trades : order[t] = "none"
  BY <1>1 DEF Shape, DownIsEmpty, BatchInHand
<1>3. Unhandled' = {} /\ InSequence'
  <2>1. Rest' = <<>> /\ queue' = <<>>
    BY <1>1, <1>2 DEF Rest
  <2> QED
    BY <2>1, NoEvents DEF Unhandled, InSequence
<1>4. ASSUME NEW t \in Trades
      PROVE  \/ /\ IsOpen(posRow[t]) /\ pos'[t] \in Position /\ pos'[t].status = posRow[t].status
                /\ pos'[t].exit = None /\ pos'[t].fund = SettlementsOf(t)
                /\ pos'[t].through <= now /\ pos'[t].opened <= now
             \/ ~IsOpen(posRow[t]) /\ pos'[t] = NoPosition
  <2>1. RowSane(t)
    BY Apart DEF TradeInv
  <2>2. IsOpen(posRow[t]) => pos'[t] = Recovered(t)
    BY <1>1 DEF OpenRows
  <2>3. ~IsOpen(posRow[t]) => pos'[t] = NoPosition
    BY <1>1 DEF OpenRows
  <2> QED
    BY <1>1, <2>1, <2>2, <2>3, RecoveredProps
<1>5. pos' \in [Trades -> Position]
  BY <1>1, <1>4, NoPositionProps
<1>6. risk' \in RiskStates /\ saved' \in RiskStates /\ risk'.counted \subseteq Trades
  BY <1>1 DEF Shape, RiskStates, database
<1>7. TypeOK'
  BY <1>1, <1>5, <1>6 DEF Shape, TypeOK, database, history
<1>8. TimesArePast'
  <2>1. now \in 0..MaxNow /\ MaxNow \in Nat
    BY <1>1, BoundFacts DEF Shape, TypeOK
  <2>2. now' = now /\ posRow' = posRow /\ fundRow' = fundRow
    BY <1>1 DEF database
  <2>3. \A t \in Trades : pos'[t].through <= now /\ pos'[t].opened <= now
    BY <1>4, <2>1, NoPositionProps
  <2> QED
    BY <1>1, <2>2, <2>3 DEF Shape, TimesArePast
<1>9. BatchInHand' /\ DownIsEmpty'
  BY <1>1 DEF Shape, BatchInHand, DownIsEmpty
<1>10. Shape'
  BY <1>3, <1>6, <1>7, <1>8, <1>9 DEF Shape
<1>11. ASSUME NEW t \in Trades  PROVE TradeInv(t)'
  <2>1. /\ TradeInv(t) /\ order'[t] = "none" /\ loop'.at = "bars" /\ posRow' = posRow
        /\ seen' = seen /\ fundRow' = fundRow /\ cut' = cut /\ saved' = saved
        /\ risk' = saved
    BY <1>1, <1>2, Apart DEF database, history
  <2>2. /\ pos'[t].status \in {"none", "OPEN", "SUSPENDED"}
        /\ IsOpen(pos'[t]) <=> IsOpen(posRow[t])
        /\ IsOpen(pos'[t]) => pos'[t].exit = None
        /\ pos'[t].status # "none" => pos'[t].fund = SettlementsOf(t)
    BY <1>4, NoPositionProps DEF IsOpen
  <2>3. posRow[t].status = "none" => pos'[t].status = "none"
    BY <2>2 DEF IsOpen
  <2>4. Fresh(t) => Fresh(t)'
    BY <1>3, <2>1, <2>3 DEF Fresh, SettlementsOf
  <2>5. EntryFresh(t)'
    BY <2>1, <2>4 DEF TradeInv, EntryFresh, Placing
  <2>6. Truth(t)'
    BY <1>3 DEF Truth
  <2>7. RowSane(t)'
    BY <2>1, <2>2 DEF TradeInv, RowSane, IsOpen
  <2>8. \A kind : ~WillWait(t, kind)
    BY <1>3 DEF WillWait
  <2>9. BookedOver(t)'
    <3>1. saved.booked[t] # <<>> => Len(saved.booked[t]) = 1 /\ ~IsOpen(posRow[t])
      BY <2>1 DEF TradeInv, BookedOver
    <3> QED
      BY <2>1, <2>2, <2>8, <3>1 DEF BookedOver, Waits, WillWait, IsOpen
  <2>10. RowCatchesUp(t)'
    BY <2>1, <2>2, <2>8 DEF RowCatchesUp, Waits, WillWait, IsOpen
  <2>11. FundingPaid(t)'
    <3>1. SettlementsOf(t)' = SettlementsOf(t)
      BY <2>1 DEF SettlementsOf
    <3>2. WaitingSettlements(t)' = {}
      BY <1>3 DEF WaitingSettlements
    <3> QED
      BY <2>1, <2>2, <2>8, <3>1, <3>2 DEF TradeInv, FundingPaid, Waits, WillWait
  <2> QED
    BY <2>5, <2>6, <2>7, <2>9, <2>10, <2>11 DEF TradeInv
<1> QED
  BY <1>3, <1>10, <1>11, TogetherAfter

-----------------------------------------------------------------------------
(* Placing an entry *)

\* Until its order works, a trade has left no trace that the step could upset.
LEMMA PlacingKeeps ==
  ASSUME IInv, NEW t \in Trades, Fresh(t), mode = "up",
         Unhandled' = Unhandled, InSequence', TypeOK', BatchInHand',
         UNCHANGED <<now, pos, mode, risk, posRow, fundRow, saved, cut>>,
         \A u \in Trades : u # t =>
           /\ order'[u] = order[u] /\ orderRow'[u] = orderRow[u] /\ (u \in seen' <=> u \in seen)
           /\ ~Placing(u) /\ ~Placing(u)',
         t \in seen', order'[t] \in {"none", "WORKING"}, Placing(t)' => order'[t] = "none",
         t \notin cut /\ (order'[t] = "WORKING" \/ (loop'.at = "submit" /\ loop'.trade = t))
           => orderRow'[t] = "WORKING"
  PROVE  IInv'
<1>1. Shape
  BY DEF IInv
<1>2. Shape'
  BY <1>1 DEF Shape, DownIsEmpty, TimesArePast
<1>3. ASSUME NEW u \in Trades, u # t  PROVE TradeInv(u)'
  <2>1. SameTrade(u)
    BY <1>3 DEF SameTrade, Placing
  <2> QED
    BY <2>1, Apart, SameTradeKeeps
<1>4. TradeInv(t)
  BY Apart
<1>5. \A e \in Unhandled' : e.trade # t
  BY DEF Fresh
<1>6. \A kind : ~WillWait(t, kind) /\ ~Waits(t, kind)
  BY <1>5 DEF WillWait, Waits
<1>7. EntryFresh(t)'
  BY DEF EntryFresh, Fresh, SettlementsOf
<1>8. Truth(t)'
  BY <1>5 DEF Truth
<1>9. RowSane(t)'
  BY <1>4 DEF TradeInv, RowSane, IsOpen
<1>10. BookedOver(t)'
  BY DEF BookedOver, Fresh
<1>11. RowCatchesUp(t)'
  <2> SUFFICES ASSUME t \notin cut
      PROVE
        /\ ~IsOpen(pos[t]) /\ ~IsOpen(posRow[t]) /\ pos[t].status # "CLOSED"
        /\ ~WillWait(t, "POSITION_CLOSED")
        /\ order'[t] # "none" => orderRow'[t] = order'[t]
        /\ loop'.at = "submit" /\ loop'.trade = t => orderRow'[t] = "WORKING"
    BY DEF RowCatchesUp, Waits, WillWait, IsOpen
  <2>1. ~IsOpen(pos[t]) /\ ~IsOpen(posRow[t]) /\ pos[t].status # "CLOSED"
    BY DEF Fresh, IsOpen
  <2> QED
    BY <1>6, <2>1
<1>12. FundingPaid(t)'
  BY DEF FundingPaid, Fresh
<1>13. TradeInv(t)'
  BY <1>7, <1>8, <1>9, <1>10, <1>11, <1>12 DEF TradeInv
<1> QED
  BY <1>2, <1>3, <1>13, TogetherAfter

LEMMA ReserveKeeps ==
  ASSUME IInv, NEW t \in Trades, Reserve(t)
  PROVE  IInv'
<1>1. /\ Shape /\ mode = "up" /\ loop.at = "bars" /\ t \notin seen /\ seen' = seen \cup {t}
      /\ \/ orderRow' = [orderRow EXCEPT ![t] = "WORKING"] /\ loop' = [at |-> "submit", trade |-> t]
         \/ UNCHANGED <<orderRow, loop>>
      /\ UNCHANGED <<now, broker, mode, batch, queue, risk, posRow, entryFill,
                     exitFill, fundRow, saved, history>>
  BY DEF IInv, Reserve, At, Loop
<1>2. Fresh(t) /\ order[t] = "none"
  BY <1>1 DEF IInv, EntriesAreFresh
<1>3. loop' \in LoopPlaces /\ loop'.at \in {"bars", "submit"}
  BY <1>1 DEF Shape, TypeOK, LoopPlaces
<1>4. orderRow' \in [Trades -> {"none", "WORKING", "FILLED", "EXPIRED", "CANCELLED"}]
  BY <1>1 DEF Shape, TypeOK
<1>5. \A u \in Trades : u # t => orderRow'[u] = orderRow[u]
  BY <1>1 DEF Shape, TypeOK
<1>6. loop'.at = "submit" => loop'.trade = t /\ orderRow'[t] = "WORKING"
  BY <1>1 DEF Shape, TypeOK
<1>7. TypeOK'
  BY <1>1, <1>3, <1>4 DEF Shape, TypeOK, LoopPlaces, broker, history
<1>8. Unhandled' = Unhandled /\ InSequence'
  BY <1>1, <1>3, SameQueue DEF IInv, Rest
<1>9. BatchInHand'
  BY <1>1, <1>3, <1>6 DEF Shape, BatchInHand
<1>10. \A u \in Trades : u # t => ~Placing(u) /\ ~Placing(u)'
  BY <1>1, <1>3, <1>6 DEF Placing
<1>11. UNCHANGED <<now, order, pos, mode, risk, posRow, fundRow, saved, cut>>
  BY <1>1 DEF broker, history
<1> QED
  BY <1>1, <1>2, <1>5, <1>6, <1>7, <1>8, <1>9, <1>10, <1>11, PlacingKeeps

LEMMA SubmitKeeps ==
  ASSUME IInv, Submit
  PROVE  IInv'
<1>1. /\ Shape /\ mode = "up" /\ loop.at = "submit" /\ loop.trade \in Trades
      /\ UNCHANGED <<now, pos, rate, mode, queue, batch, risk, database, history>>
  BY DEF IInv, Submit, At, Shape, BatchInHand
<1>2. PICK t \in Trades : t = loop.trade
  BY <1>1
<1>3. \/ /\ order' = [order EXCEPT ![t] = "WORKING"] /\ loop' = [at |-> "bars", trade |-> None]
      \/ order' = order /\ loop' = [at |-> "release", trade |-> t]
  BY <1>2 DEF Submit, Bars, Loop
<1>4. Placing(t)
  BY <1>1, <1>2 DEF Placing
<1>5. Fresh(t) /\ order[t] = "none" /\ t \in seen
  BY <1>4 DEF IInv, EntriesAreFresh
<1>6. t \notin cut => orderRow[t] = "WORKING"
  BY <1>1, <1>2 DEF IInv, RowsCatchUp
<1>7. /\ loop' \in LoopPlaces /\ loop'.at \in {"bars", "release"}
      /\ loop'.at = "release" => loop'.trade = t /\ order'[t] = "none"
  BY <1>3, <1>5 DEF LoopPlaces
<1>8. /\ order' \in [Trades -> {"none", "WORKING", "FILLED", "EXPIRED", "CANCELLED"}]
      /\ order'[t] \in {"none", "WORKING"} /\ \A u \in Trades : u # t => order'[u] = order[u]
  BY <1>1, <1>3, <1>5 DEF Shape, TypeOK
<1>9. TypeOK'
  BY <1>1, <1>7, <1>8 DEF Shape, TypeOK, LoopPlaces, database, history
<1>10. Unhandled' = Unhandled /\ InSequence'
  BY <1>1, <1>7, SameQueue DEF IInv, Rest
<1>11. BatchInHand'
  BY <1>1, <1>7 DEF Shape, BatchInHand
<1>12. \A u \in Trades : u # t => ~Placing(u) /\ ~Placing(u)'
  BY <1>2, <1>7 DEF Placing
<1>13. Placing(t)' => order'[t] = "none"
  BY <1>7 DEF Placing
<1>14. /\ UNCHANGED <<now, pos, mode, risk, posRow, fundRow, saved, cut>>
       /\ orderRow' = orderRow /\ seen' = seen
  BY <1>1 DEF database, history
<1> QED
  BY <1>1, <1>5, <1>6, <1>7, <1>8, <1>9, <1>10, <1>11, <1>12, <1>13, <1>14, PlacingKeeps

LEMMA ReleaseKeeps ==
  ASSUME IInv, Release
  PROVE  IInv'
<1>1. /\ Shape /\ mode = "up" /\ loop.at = "release" /\ loop.trade \in Trades
      /\ loop' = [at |-> "bars", trade |-> None]
      /\ UNCHANGED <<now, broker, mode, queue, batch, risk, seen, posRow, entryFill,
                     exitFill, fundRow, saved, history>>
  BY DEF IInv, Release, At, Shape, BatchInHand, Bars, Loop
<1>2. PICK t \in Trades : t = loop.trade
  BY <1>1
<1>3. orderRow' = [orderRow EXCEPT ![t] = "CANCELLED"]
  BY <1>2 DEF Release
<1>4. Placing(t)
  BY <1>1, <1>2 DEF Placing
<1>5. Fresh(t) /\ order[t] = "none" /\ t \in seen
  BY <1>4 DEF IInv, EntriesAreFresh
<1>6. loop' \in LoopPlaces /\ loop'.at = "bars"
  BY <1>1 DEF LoopPlaces
<1>7. /\ orderRow' \in [Trades -> {"none", "WORKING", "FILLED", "EXPIRED", "CANCELLED"}]
      /\ \A u \in Trades : u # t => orderRow'[u] = orderRow[u]
  BY <1>1, <1>3 DEF Shape, TypeOK
<1>8. TypeOK'
  BY <1>1, <1>6, <1>7 DEF Shape, TypeOK, LoopPlaces, broker, history
<1>9. Unhandled' = Unhandled /\ InSequence'
  BY <1>1, <1>6, SameQueue DEF IInv, Rest
<1>10. BatchInHand'
  BY <1>1, <1>6 DEF Shape, BatchInHand
<1>11. /\ \A u \in Trades : u # t => ~Placing(u) /\ ~Placing(u)'
       /\ ~Placing(t)'
  BY <1>2, <1>6 DEF Placing
<1>12. UNCHANGED <<now, order, pos, mode, risk, posRow, fundRow, saved, cut>>
  BY <1>1 DEF broker, history
<1> QED
  BY <1>1, <1>5, <1>6, <1>7, <1>8, <1>9, <1>10, <1>11, <1>12, PlacingKeeps

-----------------------------------------------------------------------------
(* The theorems *)

LEMMA InitKeeps ==
  ASSUME Init
  PROVE  IInv
<1>1. /\ now = 0 /\ order = [t \in Trades |-> "none"] /\ pos = [t \in Trades |-> NoPosition]
      /\ rate = {} /\ mode = "down" /\ queue = <<>> /\ batch = <<>>
      /\ loop = [at |-> "bars", trade |-> None]
      /\ risk = FreshRisk /\ saved = FreshRisk /\ seen = {}
      /\ orderRow = [t \in Trades |-> "none"] /\ posRow = [t \in Trades |-> NoRow]
      /\ entryFill = {} /\ exitFill = [t \in Trades |-> None] /\ fundRow = {} /\ tightened = {}
      /\ cut = {}
  BY DEF Init, Bars, Loop
<1>2. risk \in RiskStates /\ saved \in RiskStates /\ risk.counted = {} /\ saved.counted = {}
  BY <1>1 DEF RiskStates, FreshRisk
<1>3. \A t \in Trades : /\ order[t] = "none" /\ pos[t] = NoPosition /\ posRow[t] = NoRow
                        /\ risk.booked[t] = <<>> /\ saved.booked[t] = <<>>
  BY <1>1 DEF FreshRisk
<1>4. loop \in LoopPlaces /\ loop.at = "bars"
  BY <1>1 DEF LoopPlaces
<1>5. TypeOK
  <2>1. now \in 0..MaxNow
    BY <1>1, BoundFacts
  <2>2. pos \in [Trades -> Position] /\ posRow \in [Trades -> Row]
    BY <1>1, NoPositionProps
  <2>3. queue \in Seq(Event) /\ batch \in Seq(Event)
    BY <1>1
  <2> QED
    BY <1>1, <1>2, <1>4, <2>1, <2>2, <2>3 DEF TypeOK, LoopPlaces
<1>6. Unhandled = {} /\ InSequence
  <2>1. Rest = <<>>
    BY <1>1, <1>4 DEF Rest
  <2> QED
    BY <1>1, <2>1, NoEvents DEF Unhandled, InSequence
<1>7. Shape
  <2>1. BatchInHand /\ DownIsEmpty
    BY <1>1, <1>3, <1>4 DEF BatchInHand, DownIsEmpty
  <2>2. TimesArePast
    BY <1>1, <1>3, NoPositionProps DEF TimesArePast
  <2> QED
    BY <1>2, <1>5, <1>6, <2>1, <2>2 DEF Shape
<1>8. ASSUME NEW t \in Trades  PROVE TradeInv(t)
  <2>1. /\ pos[t].status = "none" /\ posRow[t].status = "none" /\ order[t] = "none"
        /\ ~Placing(t) /\ SettlementsOf(t) = {}
    BY <1>1, <1>3, <1>4, NoPositionProps DEF Placing, SettlementsOf
  <2>2. \A kind : ~Waits(t, kind)
    BY <1>6 DEF Waits
  <2>3. EntryFresh(t)
    BY <1>3, <1>6, <2>1 DEF EntryFresh, Fresh
  <2>4. Truth(t) /\ RowSane(t) /\ BookedOver(t)
    BY <1>3, <1>6, <2>1 DEF Truth, RowSane, BookedOver, IsOpen
  <2>5. RowCatchesUp(t) /\ FundingPaid(t)
    BY <1>4, <2>1, <2>2 DEF RowCatchesUp, FundingPaid, IsOpen
  <2> QED
    BY <2>3, <2>4, <2>5 DEF TradeInv
<1> QED
  BY <1>6, <1>7, <1>8, Together

\* A broker's step, once no order at work has a position yet.
LEMMA BrokerActionsKeep ==
  ASSUME IInv,
         \/ \E s \in Symbols : Tick(s) \/ Suspend(s) \/ Resume(s)
         \/ \E t \in Trades : Expire(t) \/ \E x \in Exits : SetupInvalidated(t, x)
  PROVE  IInv'
<1>1. TypeOK /\ TimesArePast
  BY DEF IInv, Shape
<1>2. WorkingIsFlat
  BY DEF IInv, EntriesAreFresh, Fresh, WorkingIsFlat
<1>3. CASE \E s \in Symbols : Tick(s)
  BY <1>1, <1>2, <1>3, TickIsBroker, BrokerKeeps
<1>4. CASE \E s \in Symbols : Suspend(s) \/ Resume(s)
  BY <1>1, <1>4, SwapStatusIsBroker, BrokerKeeps DEF Suspend, Resume
<1>5. CASE \E t \in Trades : Expire(t)
  BY <1>1, <1>5, ExpireIsBroker, BrokerKeeps
<1>6. CASE \E t \in Trades : \E x \in Exits : SetupInvalidated(t, x)
  BY <1>1, <1>6, SetupInvalidatedIsBroker, BrokerKeeps
<1> QED
  BY <1>3, <1>4, <1>5, <1>6

LEMMA NextKeeps ==
  ASSUME IInv, [Next]_vars
  PROVE  IInv'
<1>1. CASE UNCHANGED vars
  BY <1>1, StutterKeeps
<1>2. CASE Settlement
  BY <1>2, SettlementKeeps
<1>3. CASE Crash \/ Stop
  BY <1>3, GoneKeeps DEF Crash, Stop
<1>4. CASE Recover
  BY <1>4, RecoverKeeps
<1>5. CASE \E s \in Symbols : Tick(s)
  BY <1>5, BrokerActionsKeep
<1>6. CASE BarWork
  <2>1. CASE Submit \/ Release \/ TakeEvents \/ SaveState
    BY <2>1, SubmitKeeps, ReleaseKeeps, TakeKeeps, SaveKeeps
  <2>2. CASE Raise
    BY <2>2, RaiseKeeps
  <2>3. CASE \E s \in Symbols : Suspend(s) \/ Resume(s)
    BY <2>3, BrokerActionsKeep
  <2>4. ASSUME NEW t \in Trades,
               \/ Reserve(t) \/ Expire(t)
               \/ PersistEntryFill(t) \/ PersistExitFill(t)
               \/ PersistOpen(t) \/ OpenRefused(t) \/ PersistClose(t)
               \/ PersistFunding(t) \/ PersistKill(t)
               \/ \E x \in Exits : SetupInvalidated(t, x)
        PROVE  IInv'
    <3>1. CASE Reserve(t)
      BY <3>1, ReserveKeeps
    <3>2. CASE Expire(t) \/ \E x \in Exits : SetupInvalidated(t, x)
      BY <3>2, BrokerActionsKeep
    <3>3. CASE PersistEntryFill(t) \/ PersistExitFill(t)
      BY <3>3, EntryFillKeeps, ExitFillKeeps
    <3>4. CASE PersistOpen(t) \/ OpenRefused(t) \/ PersistClose(t)
      BY <3>4, OpenKeeps, RefusedKeeps, CloseKeeps
    <3>5. CASE PersistFunding(t) \/ PersistKill(t)
      BY <3>5, FundingKeeps, KillKeeps
    <3> QED
      BY <2>4, <3>1, <3>2, <3>3, <3>4, <3>5
  <2> QED
    BY <1>6, <2>1, <2>2, <2>3, <2>4 DEF BarWork
<1> QED
  BY <1>1, <1>2, <1>3, <1>4, <1>5, <1>6 DEF Next

(***************************************************************************)
(* What the bot knows, in memory and in its rows, is what the events it    *)
(* has yet to write make of one history.                                   *)
(***************************************************************************)
THEOREM Invariance == Spec => []IInv
<1>1. Init => IInv
  BY InitKeeps
<1>2. IInv /\ [Next]_vars => IInv'
  BY NextKeeps
<1> QED
  BY <1>1, <1>2, PTL DEF Spec

(***************************************************************************)
(* Every variable keeps its type: positions, rows and events alike.        *)
(***************************************************************************)
THEOREM TypeCorrect == Spec => []TypeOK
<1>1. IInv => TypeOK
  BY DEF IInv, Shape
<1> QED
  BY <1>1, Invariance, PTL

(***************************************************************************)
(* Once drain_broker_events has nothing left to write, the rows say what   *)
(* the broker holds, whatever ticks and restarts came between, and an      *)
(* exception costs only the trades whose events it threw away.             *)
(***************************************************************************)
THEOREM RowsFollow == Spec => []LedgerFollowsBroker
<1>1. IInv => LedgerFollowsBroker
  <2> SUFFICES ASSUME IInv, Drained, NEW t \in Trades, t \notin cut
               PROVE  /\ t \in OpenRows <=> t \in Held
                      /\ t \in Known => pos[t].exit = posRow[t].exit
                      /\ order[t] # "none" => orderRow[t] = order[t]
    BY DEF LedgerFollowsBroker
  <2>1. loop.at = "bars" /\ mode = "up" /\ queue = <<>> /\ batch = <<>>
    BY DEF Drained, At, IInv, Shape, BatchInHand
  <2>2. Unhandled = {}
    <3>1. Rest = <<>>
      BY <2>1 DEF Rest
    <3> QED
      BY <2>1, <3>1, NoEvents DEF Unhandled
  <2>3. \A kind : ~Waits(t, kind)
    BY <2>2 DEF Waits
  <2>4. /\ t \in Held <=> t \in OpenRows
        /\ pos[t].status = "CLOSED" => posRow[t].exit = pos[t].exit
        /\ order[t] # "none" => orderRow[t] = order[t]
    BY <2>1, <2>3 DEF IInv, RowsCatchUp
  <2>5. t \in Held => pos[t].exit = None /\ (t \in OpenRows => posRow[t].exit = None)
    BY DEF IInv, RowsAreSane, Held, OpenRows
  <2>6. t \in Known => t \in Held \/ pos[t].status = "CLOSED"
    BY PositionFields DEF IInv, Shape, TypeOK, Status, Known, Held, IsOpen
  <2> QED
    BY <2>4, <2>5, <2>6
<1> QED
  BY <1>1, Invariance, PTL

(***************************************************************************)
(* No result is booked twice, in memory or in the saved risk state, and    *)
(* none of a position whose row recovery would trade on.                   *)
(***************************************************************************)
THEOREM BookedAtMostOnce == Spec => []BookedOnce
<1>1. IInv => BookedOnce
  <2> SUFFICES ASSUME IInv, NEW r \in {risk, saved}, NEW t \in Trades
               PROVE  Len(r.booked[t]) <= 1 /\ (t \in OpenRows => r.booked[t] = <<>>)
    BY DEF BookedOnce
  <2> DEFINE booked == r.booked[t]
             n == Len(booked)
  <2>1. booked # <<>> => n = 1 /\ t \notin OpenRows
    BY DEF IInv, BookedIsOver, OpenRows
  <2>2. booked = <<>> => n = 0
    OBVIOUS
  <2> HIDE DEF n
  <2>3. n <= 1
    BY <2>1, <2>2
  <2> QED
    BY <2>1, <2>3 DEF n
<1> QED
  BY <1>1, Invariance, PTL

(***************************************************************************)
(* A closed row has paid exactly the settlements of funding_events, unless *)
(* an exception threw an event of its trade away.                          *)
(***************************************************************************)
THEOREM FundingMatches == Spec => []FundingFollowsLedger
<1>1. IInv => FundingFollowsLedger
  BY DEF IInv, FundingCatchesUp, FundingFollowsLedger
<1> QED
  BY <1>1, Invariance, PTL

=============================================================================

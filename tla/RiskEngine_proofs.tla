------------------------- MODULE RiskEngine_proofs -------------------------
(***************************************************************************)
(* Proofs about RiskEngine, for every value of its constants.  The         *)
(* inductive invariant says how the slots, the saved state and the queue   *)
(* of events hang together: a slot is given back only with the event that  *)
(* moves it, the saved state differs from the one in memory only by what   *)
(* an evaluation or the operator may change, the operator works on halted  *)
(* states alone, and what waits in the queue is at most so much older than *)
(* what is booked as a bar can be late.                                    *)
(***************************************************************************)
EXTENDS RiskEngine, FiniteSetTheorems, TLAPS

-----------------------------------------------------------------------------
(* The inductive invariant *)

\* A process that is gone holds nothing.
DownIsEmpty == mode = "down" => working = {} /\ held = {} /\ queue = <<>>

\* The event of an order whose slot is still taken.
Pending(ev) == ev.kind \in {"opened", "killed"}

\* An order that works, or whose end is still to be booked, has its slot.
WorkingHasSlot == working \subseteq reserved
PendingHasSlot ==
  \A i \in DOMAIN queue : Pending(queue[i]) =>
    queue[i].entry \in reserved /\ queue[i].entry \notin working
PendingOnce ==
  \A i, j \in DOMAIN queue :
    Pending(queue[i]) /\ Pending(queue[j]) /\ queue[i].entry = queue[j].entry => i = j

\* An entry is placed on a later bar than every entry before it.
WorkingSeen == \A e \in working : e[2] <= seen[e[1]]
PendingSeen ==
  \A i \in DOMAIN queue :
    Pending(queue[i]) => queue[i].entry[2] <= seen[queue[i].entry[1]]

\* What the broker holds has an open row or waits for it; what closed does not
\* come back.
OpenedAt(i, e) == i \in DOMAIN queue /\ queue[i].kind = "opened" /\ queue[i].entry = e
ClosedAt(i) == i \in DOMAIN queue /\ queue[i].kind = "closed"
ClosedRows == {c.entry : c \in closes}

RowsKept == shut \subseteq opened /\ ClosedRows \subseteq opened
RowsFresh == reserved \cap opened = {}
RowsSeen == \A e \in reserved \cup opened : e[2] <= seen[e[1]]
HeldHasSlot == \A e \in held : e \in OpenRows \/ \E i \in Nat : OpenedAt(i, e)
ClosedIsGone ==
  \A i \in Nat : ClosedAt(i) => queue[i].entry \notin held \cup working \cup ClosedRows
ClosedHasRow ==
  \A i \in Nat : ClosedAt(i) =>
    \/ queue[i].entry \in opened
    \/ \E j \in Nat : j < i /\ OpenedAt(j, queue[i].entry)
ClosedOnce ==
  \A i, j \in Nat : ClosedAt(i) /\ ClosedAt(j) /\ queue[i].entry = queue[j].entry => i = j

HeldInv ==
  /\ RowsKept /\ RowsFresh /\ RowsSeen
  /\ held \cap working = {} /\ HeldHasSlot
  /\ ClosedIsGone /\ ClosedHasRow /\ ClosedOnce

SlotsInv ==
  /\ IsFiniteSet(reserved) /\ IsFiniteSet(opened)
  /\ WorkingHasSlot /\ PendingHasSlot /\ PendingOnce
  /\ WorkingSeen /\ PendingSeen
  /\ Exposure <= MaxOpen

\* What the slots still free may not lose.
Bounded(r, slots) ==
  r.peak > 0 => Overrun(r) < (DrawDen * MaxLoss) * (MaxOpen - slots)

\* While the halt is not in force the saved state has the money of the one in
\* memory.
SavedTracks ==
  mode = "up" /\ ~mem.halted =>
    saved.eq = mem.eq /\ saved.peak = mem.peak /\ ~saved.halted

\* The operator works on a halted state, and no process goes on without the
\* halt before the command has written.
OperatorInv == cli # {} => saved.halted /\ (mode = "up" => mem.halted)

\* Until a position closes before its row is written.
MoneyInv ==
  SavedTracks /\ (shut = {} => Bounded(mem, Exposure) /\ Bounded(saved, Exposure))

\* A state has the losses of some rows on its clock: the last one it knows is
\* not older than any of theirs by more than a bar can be late.
Remembers(r, rows) ==
  \A c \in rows : c.pnl < 0 => 1 <= r.lastLoss /\ c.at - MaxLag <= r.lastLoss

LossesKept ==
  /\ Remembers(saved, closes \ unsaved)
  /\ mode = "up" => Remembers(mem, closes \ unsaved)
  /\ \A read \in cli : Remembers(read.state, read.rows \ unsaved)

\* What waits to be booked is stamped with a bar that has closed, and is no
\* older than what is booked, or waits before it, by more than that.
QueueOfLosses ==
  /\ \A c \in closes : c.at <= clock
  /\ \A i \in DOMAIN queue : queue[i].kind = "closed" =>
       /\ 1 <= queue[i].at /\ queue[i].at <= clock
       /\ \A c \in closes : c.at - MaxLag <= queue[i].at
       /\ \A j \in DOMAIN queue :
            j < i /\ queue[j].kind = "closed" => queue[j].at - MaxLag <= queue[i].at

LossesInv == LossesKept /\ QueueOfLosses

\* The latch, or the drawdown that will latch again with nothing to lift it.
Flat == latched = "flat" /\ torn = 0
HaltInv ==
  /\ latched # "no" /\ restarts = 0 => mode = "up" /\ mem.halted
  /\ Flat => saved.halted \/ (DrawdownHit(saved) /\ OpenRows = {})
  /\ Flat /\ mode = "up" =>
       \/ mem.halted
       \/ DrawdownHit(mem) /\ OpenRows = {} /\ held = {} /\ working = {} /\ queue = <<>>

RiskInv ==
  /\ TypeOK /\ DownIsEmpty /\ SlotsInv /\ HeldInv
  /\ MoneyInv /\ OperatorInv /\ LossesInv /\ HaltInv

-----------------------------------------------------------------------------
(* Queues, days and risk states *)

LEMMA TailFacts ==
  ASSUME NEW S, NEW q \in Seq(S), q # <<>>
  PROVE  /\ Tail(q) \in Seq(S)
         /\ Head(q) = q[1] /\ 1 \in DOMAIN q /\ q[1] \in S
         /\ \A i \in DOMAIN Tail(q) :
              i \in Nat /\ i >= 1 /\ i + 1 \in DOMAIN q /\ Tail(q)[i] = q[i + 1]
<1>1. Len(q) \in Nat /\ Len(q) >= 1 /\ DOMAIN q = 1..Len(q)
  OBVIOUS
<1>2. Tail(q) \in Seq(S) /\ Len(Tail(q)) = Len(q) - 1 /\ DOMAIN Tail(q) = 1..(Len(q) - 1)
  BY <1>1
<1>3. \A i \in 1..(Len(q) - 1) : Tail(q)[i] = q[i + 1]
  BY <1>1
<1>4. Head(q) = q[1] /\ q[1] \in S
  BY <1>1
<1> QED
  BY <1>1, <1>2, <1>3, <1>4

LEMMA EmptySeq ==
  ASSUME NEW S
  PROVE  <<>> \in Seq(S)
  OBVIOUS

LEMMA AppendFacts ==
  ASSUME NEW S, NEW q \in Seq(S), NEW x \in S
  PROVE  /\ Append(q, x) \in Seq(S)
         /\ \A i \in DOMAIN Append(q, x) :
              \/ i \in DOMAIN q /\ i \in Nat /\ i <= Len(q) /\ Append(q, x)[i] = q[i]
              \/ i = Len(q) + 1 /\ Append(q, x)[i] = x
<1>1. Len(q) \in Nat /\ DOMAIN q = 1..Len(q)
  OBVIOUS
<1>2. Append(q, x) \in Seq(S) /\ DOMAIN Append(q, x) = 1..(Len(q) + 1)
  BY <1>1
<1>3. \A i \in 1..(Len(q) + 1) : i <= Len(q) => Append(q, x)[i] = q[i]
  BY <1>1
<1>4. Append(q, x)[Len(q) + 1] = x
  BY <1>1
<1> QED
  BY <1>1, <1>2, <1>3, <1>4

LEMMA ConstantFacts ==
  /\ StartEquity \in Nat /\ StartEquity > 0 /\ MaxLoss \in Nat /\ MaxLoss > 0
  /\ DayLength \in Nat /\ DayLength > 0 /\ MaxOpen \in Nat /\ MaxOpen > 0
  /\ MaxTrades \in Nat /\ MaxTrades > 0
  /\ DailyNum \in Nat /\ DailyNum > 0 /\ DailyDen \in Nat /\ DailyDen > 0
  /\ DrawNum \in Nat /\ DrawNum > 0 /\ DrawDen \in Nat /\ DrawDen > 0
  /\ MaxStreak \in Nat /\ AfterTrade \in Nat /\ AfterLoss \in Nat /\ PauseSymbol \in Nat
  /\ MaxClock \in Nat /\ MaxClock > 0 /\ MaxPlaced \in Nat
  /\ MaxRestarts \in Nat /\ MaxResumes \in Nat /\ MaxLag \in Nat
  BY LimitsAssumption, WaitsAssumption, BoundsAssumption

\* A position closes at the time of the tick, or of a bar that may be late.
LEMMA CloseCases ==
  ASSUME TypeOK, NEW e, NEW p, Close(e, p) \/ \E t \in Times : Invalidate(e, p, t)
  PROVE  \E at \in Times : clock - MaxLag <= at /\ at <= clock /\ ClosedAs(e, p, at)
<1>1. clock \in Times /\ clock \in Nat /\ MaxLag \in Nat
  BY ConstantFacts DEF TypeOK, Times
<1>2. \A t \in Times : t \in Nat
  BY ConstantFacts DEF Times
<1>3. CASE Close(e, p)
  BY <1>1, <1>3 DEF Close
<1>4. ASSUME NEW t \in Times, Invalidate(e, p, t)
      PROVE  clock - MaxLag <= t /\ t <= clock /\ ClosedAs(e, p, t)
  BY <1>1, <1>2, <1>4 DEF Invalidate
<1> QED
  BY <1>3, <1>4

LEMMA ClosedType ==
  ASSUME NEW e \in Entries, NEW p \in Results, NEW at \in Times
  PROVE  /\ Closed(e, p, at) \in Event /\ Closed(e, p, at).kind = "closed"
         /\ Closed(e, p, at).entry = e /\ Closed(e, p, at).at = at
<1>1. at \in 0..MaxClock
  BY ConstantFacts DEF Times
<1> QED
  BY <1>1 DEF Closed, Event

LEMMA DayIsNat ==
  ASSUME NEW t \in Nat
  PROVE  DayOf(t) \in Nat
  BY ConstantFacts DEF DayOf

LEMMA FreshType == Fresh \in Risk
  BY ConstantFacts DEF Fresh, Risk

LEMMA RolledFacts ==
  ASSUME NEW r \in Risk, NEW t \in Nat
  PROVE  /\ Rolled(r, t) \in Risk
         /\ Rolled(r, t).eq = r.eq /\ Rolled(r, t).peak = r.peak
         /\ Rolled(r, t).lastLoss = r.lastLoss /\ Rolled(r, t).halted = r.halted
<1> DEFINE new == [r EXCEPT !.day = DayOf(t), !.dayStart = r.eq, !.daily = 0,
                            !.trades = 0, !.streak = 0]
           r1 == [r EXCEPT !.day = DayOf(t)]
           r2 == [r1 EXCEPT !.dayStart = r.eq]
           r3 == [r2 EXCEPT !.daily = 0]
           r4 == [r3 EXCEPT !.trades = 0]
           r5 == [r4 EXCEPT !.streak = 0]
<1>1. new \in Risk
  <2>1. new = r5
    OBVIOUS
  <2>2. r.eq \in Int
    BY DEF Risk
  <2>3. r1 \in Risk
    BY DayIsNat DEF Risk
  <2> HIDE DEF r1
  <2>4. r2 \in Risk
    BY <2>2, <2>3 DEF Risk
  <2> HIDE DEF r2
  <2>5. r3 \in Risk
    BY <2>4 DEF Risk
  <2> HIDE DEF r3
  <2>6. r4 \in Risk
    BY <2>5 DEF Risk
  <2> HIDE DEF r4
  <2>7. r5 \in Risk
    BY <2>6 DEF Risk
  <2> QED
    BY <2>1, <2>7
<1>2. new.eq = r.eq /\ new.peak = r.peak /\ new.lastLoss = r.lastLoss
      /\ new.halted = r.halted
  BY DEF Risk
<1>3. Rolled(r, t) = IF r.day = DayOf(t) THEN r ELSE new
  BY DEF Rolled
<1> HIDE DEF new
<1> QED
  BY <1>1, <1>2, <1>3

LEMMA AppliedFacts ==
  ASSUME NEW r \in Risk, NEW s \in Symbols, NEW p \in Int, NEW at \in 0..MaxClock
  PROVE  /\ Applied(r, s, p, at) \in Risk
         /\ Applied(r, s, p, at).eq = r.eq + p
         /\ Applied(r, s, p, at).peak = IF r.eq + p > r.peak THEN r.eq + p ELSE r.peak
         /\ Applied(r, s, p, at).lastLoss = IF p < 0 THEN at ELSE r.lastLoss
         /\ Applied(r, s, p, at).halted = r.halted
<1> DEFINE eq     == r.eq + p
           peak   == IF eq > r.peak THEN eq ELSE r.peak
           streak == IF p < 0 THEN r.streak + 1 ELSE 0
           lost   == IF p < 0 THEN at ELSE r.lastLoss
           by     == [r.lossAt EXCEPT ![s] = IF p < 0 THEN at ELSE @]
           new == [r EXCEPT !.eq = eq, !.daily = r.daily + p, !.peak = peak,
                            !.lastTrade = at, !.streak = streak, !.lastLoss = lost,
                            !.lossAt = by]
           r1 == [r EXCEPT !.eq = eq]
           r2 == [r1 EXCEPT !.daily = r.daily + p]
           r3 == [r2 EXCEPT !.peak = peak]
           r4 == [r3 EXCEPT !.lastTrade = at]
           r5 == [r4 EXCEPT !.streak = streak]
           r6 == [r5 EXCEPT !.lastLoss = lost]
           r7 == [r6 EXCEPT !.lossAt = by]
<1>1. r.eq \in Int /\ r.peak \in Int /\ r.streak \in Nat /\ r.daily \in Int
      /\ r.lastLoss \in 0..MaxClock /\ r.lossAt \in [Symbols -> 0..MaxClock]
  BY DEF Risk
<1>2. eq \in Int /\ peak \in Int /\ streak \in Nat /\ r.daily + p \in Int
      /\ lost \in 0..MaxClock /\ by \in [Symbols -> 0..MaxClock]
  BY <1>1
<1>3. Applied(r, s, p, at) = new
  BY DEF Applied, Risk
<1> HIDE DEF eq, peak, streak, lost, by
<1>4. new \in Risk
  <2>1. new = r7
    OBVIOUS
  <2>2. r1 \in Risk
    BY <1>2 DEF Risk
  <2> HIDE DEF r1
  <2>3. r2 \in Risk
    BY <1>2, <2>2 DEF Risk
  <2> HIDE DEF r2
  <2>4. r3 \in Risk
    BY <1>2, <2>3 DEF Risk
  <2> HIDE DEF r3
  <2>5. r4 \in Risk
    BY <2>4 DEF Risk
  <2> HIDE DEF r4
  <2>6. r5 \in Risk
    BY <1>2, <2>5 DEF Risk
  <2> HIDE DEF r5
  <2>7. r6 \in Risk
    BY <1>2, <2>6 DEF Risk
  <2> HIDE DEF r6
  <2>8. r7 \in Risk
    BY <1>2, <2>7 DEF Risk
  <2> QED
    BY <2>1, <2>8
<1>5. new.eq = eq /\ new.peak = peak /\ new.lastLoss = lost /\ new.halted = r.halted
  BY DEF Risk
<1> HIDE DEF new
<1> QED
  BY <1>3, <1>4, <1>5 DEF eq, peak, lost

LEMMA CountedFacts ==
  ASSUME NEW r \in Risk
  PROVE  /\ Counted(r) \in Risk
         /\ Counted(r).eq = r.eq /\ Counted(r).peak = r.peak
         /\ Counted(r).lastLoss = r.lastLoss /\ Counted(r).halted = r.halted
  BY DEF Counted, Risk

LEMMA ResumedFacts ==
  ASSUME NEW r \in Risk
  PROVE  /\ Resumed(r) \in Risk
         /\ Resumed(r).eq = r.eq /\ Resumed(r).peak = r.eq
         /\ Resumed(r).lastLoss = r.lastLoss /\ ~Resumed(r).halted
  BY DEF Resumed, Risk

LEMMA EventFields ==
  ASSUME NEW ev \in Event
  PROVE  /\ ev.entry \in Entries /\ ev.entry[1] \in Symbols /\ ev.entry[2] \in Times
         /\ ev.pnl \in Int /\ ev.pnl >= -MaxLoss /\ ev.at \in 0..MaxClock
         /\ ev.kind \in {"opened", "killed", "closed"} /\ ev.pnl \in Results \cup {0}
<1>1. ev.entry \in Symbols \X Times /\ ev.at \in 0..MaxClock
      /\ ev.kind \in {"opened", "killed", "closed"} /\ ev.pnl \in Results \cup {0}
  BY DEF Event, Entries
<1>2. ev.pnl \in Int /\ ev.pnl >= -MaxLoss
  <2>1. CASE ev.pnl = 0
    BY <2>1, ConstantFacts
  <2>2. CASE ev.pnl \in Results
    BY <2>2, ResultsAssumption
  <2> QED
    BY <1>1, <2>1, <2>2
<1> QED
  BY <1>1, <1>2 DEF Entries

LEMMA EvType ==
  ASSUME NEW e \in Entries, NEW kind \in {"opened", "killed"}
  PROVE  Ev(kind, e) \in Event
  BY ConstantFacts DEF Ev, Event

-----------------------------------------------------------------------------
(* Types *)

LEMMA InitType == Init => TypeOK
  <1> SUFFICES ASSUME Init PROVE TypeOK
    OBVIOUS
  <1>1. clock \in Times /\ mode \in {"down", "up"}
    BY ConstantFacts DEF Init, Times
  <1>2. mem \in Risk /\ saved \in Risk
    BY FreshType DEF Init
  <1>3. working \subseteq Entries /\ held \subseteq Entries /\ queue \in Seq(Event)
    BY EmptySeq DEF Init
  <1>4. /\ seen \in [Symbols -> 0..MaxClock]
        /\ reserved \subseteq Entries /\ opened \subseteq Entries /\ shut \subseteq Entries
        /\ closes \subseteq Row /\ unsaved \subseteq Row
        /\ cli \subseteq [state : Risk, rows : SUBSET Row]
    BY ConstantFacts DEF Init
  <1>5. latched \in {"no", "flat", "early"}
    BY DEF Init
  <1>6. /\ placed \in 0..MaxPlaced /\ torn \in Nat
        /\ restarts \in 0..MaxRestarts /\ resumes \in 0..MaxResumes
    BY ConstantFacts DEF Init
  <1> QED
    BY <1>1, <1>2, <1>3, <1>4, <1>5, <1>6 DEF TypeOK

\* What an evaluation knows of its bar.
LEMMA ConsideredFacts ==
  ASSUME TypeOK, NEW s \in Symbols, NEW t \in Times, Considered(s, t)
  PROVE  /\ mode = "up" /\ t \in Nat /\ t >= 1 /\ t <= MaxClock
         /\ t > seen[s] /\ Rolled(mem, t) \in Risk
<1>1. t \in Nat /\ t >= 1 /\ t <= MaxClock
  BY ConstantFacts DEF Times
<1>2. Rolled(mem, t) \in Risk
  BY <1>1, RolledFacts DEF TypeOK
<1> QED
  BY <1>1, <1>2 DEF Considered, TypeOK

LEMMA HeadType ==
  ASSUME TypeOK, queue # <<>>
  PROVE  /\ Tail(queue) \in Seq(Event) /\ Head(queue) \in Event
         /\ AfterClose(mem) \in Risk
         /\ ClosedRow \in Row
<1>1. Tail(queue) \in Seq(Event) /\ Head(queue) \in Event
  BY TailFacts DEF TypeOK
<1>2. AfterClose(mem) \in Risk
  BY <1>1, EventFields, AppliedFacts DEF AfterClose, TypeOK
<1> QED
  BY <1>1, <1>2, EventFields DEF ClosedRow, Row

LEMMA StepType == TypeOK /\ [Next]_vars => TypeOK'
<1> SUFFICES ASSUME TypeOK, [Next]_vars PROVE TypeOK'
  OBVIOUS
<1> USE DEF world, process, database, history
<1>1. CASE Bar
  BY <1>1, ConstantFacts DEF Bar, TypeOK, Times
<1>2. ASSUME NEW s \in Symbols, NEW t \in Times, Decline(s, t) PROVE TypeOK'
  BY <1>2, ConsideredFacts DEF Decline, TypeOK
<1>3. ASSUME NEW s \in Symbols, NEW t \in Times, Latch(s, t) PROVE TypeOK'
  <2> DEFINE r == Rolled(mem, t)
  <2>1. r \in Risk
    BY <1>3, ConsideredFacts DEF Latch
  <2>2. mem' = [r EXCEPT !.halted = TRUE] /\ latched' \in {"no", "flat", "early"}
    BY <1>3 DEF Latch
  <2> HIDE DEF r
  <2>3. mem' \in Risk
    BY <2>1, <2>2 DEF Risk
  <2> QED
    BY <1>3, <2>1, <2>2, <2>3 DEF Latch, TypeOK
<1>4. ASSUME NEW s \in Symbols, NEW t \in Times, Place(s, t) PROVE TypeOK'
  <2>1. /\ mem' \in Risk /\ t \in 0..MaxClock
        /\ <<s, t>> \in Entries
    BY <1>4, ConsideredFacts, ConstantFacts DEF Place, Entries
  <2>2. seen' \in [Symbols -> 0..MaxClock]
    BY <1>4, <2>1 DEF Place, TypeOK
  <2>3. placed' \in 0..MaxPlaced
    BY <1>4, ConstantFacts DEF Place, TypeOK
  <2> QED
    BY <1>4, <2>1, <2>2, <2>3 DEF Place, TypeOK
<1>5. ASSUME NEW e \in Entries, Fill(e) PROVE TypeOK'
  <2>1. queue' \in Seq(Event)
    BY <1>5, EvType, AppendFacts DEF Fill, TypeOK
  <2> QED
    BY <1>5, <2>1 DEF Fill, TypeOK
<1>6. ASSUME NEW e \in Entries, Kill(e) PROVE TypeOK'
  <2>1. queue' \in Seq(Event)
    BY <1>6, EvType, AppendFacts DEF Kill, TypeOK
  <2> QED
    BY <1>6, <2>1 DEF Kill, TypeOK
<1>7. ASSUME NEW e \in Entries, NEW p \in Results,
             Close(e, p) \/ \E t \in Times : Invalidate(e, p, t)
      PROVE  TypeOK'
  <2>1. PICK at \in Times : ClosedAs(e, p, at)
    BY <1>7, CloseCases
  <2>2. queue' \in Seq(Event)
    BY <2>1, ClosedType, AppendFacts DEF ClosedAs, TypeOK
  <2> QED
    BY <2>1, <2>2 DEF ClosedAs, TypeOK
<1>8. ASSUME NEW e \in Entries, BookKill(e) PROVE TypeOK'
  BY <1>8, HeadType DEF BookKill, Booking, Next1, TypeOK
<1>9. ASSUME NEW e \in Entries, BookOpen(e) PROVE TypeOK'
  BY <1>9, HeadType, CountedFacts DEF BookOpen, RowWritten, ShutBy, Booking, Next1, TypeOK
<1>10. ASSUME NEW e \in Entries, BookRefused(e) PROVE TypeOK'
  BY <1>10, HeadType DEF BookRefused, Booking, Next1, TypeOK
<1>11. ASSUME NEW e \in Entries, BookClose(e) PROVE TypeOK'
  BY <1>11, HeadType DEF BookClose, Booking, Next1, TypeOK
<1>13. ASSUME MemoryGone, torn' \in Nat, saved' \in Risk, reserved' \subseteq Entries,
              opened' \subseteq Entries, shut' \subseteq Entries,
              closes' \subseteq Row, unsaved' \subseteq Row
       PROVE  TypeOK'
  <2>1. restarts' \in 0..MaxRestarts
    BY <1>13, ConstantFacts DEF MemoryGone, TypeOK
  <2> QED
    BY <1>13, <2>1, FreshType, EmptySeq DEF MemoryGone, TypeOK
<1>14. CASE Crash
  BY <1>13, <1>14 DEF Crash, TypeOK
<1>15. CASE Stop
  BY <1>13, <1>15 DEF Stop, TypeOK
<1>16. ASSUME NEW e \in Entries, CrashInOpen(e) PROVE TypeOK'
  BY <1>13, <1>16 DEF CrashInOpen, ShutBy, TypeOK
<1>17. ASSUME NEW e \in Entries, CrashInClose(e) PROVE TypeOK'
  BY <1>13, <1>17, HeadType DEF CrashInClose, Booking, TypeOK
<1>18. CASE Recover
  BY <1>18 DEF Recover, OpenRows, TypeOK
<1>19. CASE CliRead
  <2>1. resumes' \in 0..MaxResumes
    BY <1>19, ConstantFacts DEF CliRead, TypeOK
  <2>2. cli' \subseteq [state : Risk, rows : SUBSET Row]
    BY <1>19 DEF CliRead, TypeOK
  <2> QED
    BY <1>19, <2>1, <2>2 DEF CliRead, TypeOK
<1>21. CASE CliWrite
  <2>1. PICK read \in cli : saved' = Resumed(read.state)
    BY <1>21 DEF CliWrite
  <2>2. saved' \in Risk
    BY <2>1, ResumedFacts DEF TypeOK
  <2> QED
    BY <1>21, <2>2 DEF CliWrite, TypeOK
<1>20. CASE UNCHANGED vars
  BY <1>20 DEF vars, TypeOK
<1> QED
  BY <1>1, <1>2, <1>3, <1>4, <1>5, <1>6, <1>7, <1>8, <1>9, <1>10, <1>11,
     <1>14, <1>15, <1>16, <1>17, <1>18, <1>19, <1>20, <1>21 DEF Next

\* The state is always of its type.
THEOREM TypeCorrect == Spec => []TypeOK
<1> QED
  BY InitType, StepType, PTL DEF Spec

-----------------------------------------------------------------------------
(* Slots *)

LEMMA SlotTaken ==
  ASSUME NEW R, NEW e, IsFiniteSet(R)
  PROVE  /\ IsFiniteSet(R \cup {e}) /\ Cardinality(R) \in Nat
         /\ Cardinality(R \cup {e}) \in Nat /\ Cardinality(R \cup {e}) <= Cardinality(R) + 1
  BY FS_AddElement, FS_CardinalityType

LEMMA SlotFreed ==
  ASSUME NEW R, NEW e, IsFiniteSet(R)
  PROVE  /\ IsFiniteSet(R \ {e}) /\ Cardinality(R) \in Nat /\ Cardinality(R \ {e}) \in Nat
         /\ Cardinality(R \ {e}) = IF e \in R THEN Cardinality(R) - 1 ELSE Cardinality(R)
  BY FS_RemoveElement, FS_CardinalityType

\* A row more is one open row more at most, a result one less at most.
LEMMA RowOpened ==
  ASSUME NEW O, NEW C, NEW D, NEW e, IsFiniteSet(O), C \subseteq D
  PROVE  /\ IsFiniteSet(O \cup {e}) /\ Cardinality(O \ C) \in Nat
         /\ Cardinality((O \cup {e}) \ D) \in Nat
         /\ Cardinality((O \cup {e}) \ D) <= Cardinality(O \ C) + 1
<1> DEFINE A == O \ C
           B == (O \cup {e}) \ D
<1>1. IsFiniteSet(A) /\ IsFiniteSet(O \cup {e})
  BY FS_Subset, FS_AddElement
<1>2. IsFiniteSet(A \cup {e}) /\ Cardinality(A \cup {e}) <= Cardinality(A) + 1
      /\ Cardinality(A) \in Nat /\ Cardinality(A \cup {e}) \in Nat
  BY <1>1, SlotTaken
<1>3. B \subseteq A \cup {e}
  OBVIOUS
<1>4. Cardinality(B) <= Cardinality(A \cup {e}) /\ Cardinality(B) \in Nat
  BY <1>2, <1>3, FS_Subset, FS_CardinalityType
<1> QED
  BY <1>1, <1>2, <1>4

LEMMA RowClosed ==
  ASSUME IsFiniteSet(opened), opened' = opened, shut' = shut,
         NEW d, closes' = closes \cup {d}
  PROVE  /\ Cardinality(OpenRows) \in Nat
         /\ Cardinality(OpenRows') = IF d.entry \in OpenRows THEN Cardinality(OpenRows) - 1
                                    ELSE Cardinality(OpenRows)
<1>1. OpenRows' = OpenRows \ {d.entry}
  BY DEF OpenRows
<1>2. IsFiniteSet(OpenRows)
  BY FS_Subset DEF OpenRows
<1> QED
  BY <1>1, <1>2, SlotFreed

LEMMA ExposureIsNat ==
  ASSUME IsFiniteSet(reserved), IsFiniteSet(opened)
  PROVE  Exposure \in Nat /\ Cardinality(reserved) \in Nat /\ Cardinality(OpenRows) \in Nat
<1>1. IsFiniteSet(OpenRows)
  BY FS_Subset DEF OpenRows
<1> QED
  BY <1>1, FS_CardinalityType DEF Exposure

\* What the head of the queue says of the rest.
LEMMA HeadFacts ==
  ASSUME TypeOK, SlotsInv, NEW e, queue # <<>>, Pending(Head(queue)), Head(queue).entry = e,
         queue' = Tail(queue), reserved' = reserved \ {e},
         working' = working, seen' = seen
  PROVE  /\ e \in reserved /\ IsFiniteSet(reserved')
         /\ Cardinality(reserved') = Cardinality(reserved) - 1
         /\ WorkingHasSlot' /\ PendingHasSlot' /\ PendingOnce' /\ WorkingSeen' /\ PendingSeen'
<1>1. /\ Head(queue) = queue[1] /\ 1 \in DOMAIN queue
      /\ \A i \in DOMAIN queue' :
           i \in Nat /\ i >= 1 /\ i + 1 \in DOMAIN queue /\ queue'[i] = queue[i + 1]
  BY TailFacts DEF TypeOK
<1>2. e \in reserved /\ e \notin working
  BY <1>1 DEF SlotsInv, PendingHasSlot
<1>3. IsFiniteSet(reserved') /\ Cardinality(reserved') = Cardinality(reserved) - 1
  BY <1>2, SlotFreed DEF SlotsInv
<1>4. ASSUME NEW i \in DOMAIN queue', Pending(queue'[i])
      PROVE  /\ queue'[i].entry \in reserved' /\ queue'[i].entry \notin working'
             /\ queue'[i].entry[2] <= seen'[queue'[i].entry[1]]
  <2>1. i + 1 \in DOMAIN queue /\ i + 1 # 1 /\ queue'[i] = queue[i + 1]
    BY <1>1
  <2>2. queue[i + 1].entry # e
    BY <1>1, <1>4, <2>1 DEF SlotsInv, PendingOnce
  <2> QED
    BY <1>4, <2>1, <2>2 DEF SlotsInv, PendingHasSlot, PendingSeen
<1>5. ASSUME NEW i \in DOMAIN queue', NEW j \in DOMAIN queue',
             Pending(queue'[i]), Pending(queue'[j]), queue'[i].entry = queue'[j].entry
      PROVE  i = j
  <2>1. i + 1 = j + 1
    BY <1>1, <1>5 DEF SlotsInv, PendingOnce
  <2> QED
    BY <1>1, <2>1
<1> QED
  BY <1>2, <1>3, <1>4, <1>5
     DEF SlotsInv, WorkingHasSlot, PendingHasSlot, PendingOnce, WorkingSeen, PendingSeen, Pending

LEMMA StepDown == TypeOK /\ DownIsEmpty /\ [Next]_vars => DownIsEmpty'
  BY DEF TypeOK, DownIsEmpty, Next, vars, world, process, database, history, Bar, Decline, Latch,
         Place, Considered, Fill, Kill, Close, Invalidate, ClosedAs, BookKill, BookOpen, BookRefused, BookClose,
         Booking, RowWritten, Crash, Stop, CrashInOpen, CrashInClose, MemoryGone, Recover,
         CliRead, CliWrite

\* Nothing that holds a slot moves.
LEMMA SlotsSame ==
  ASSUME SlotsInv, UNCHANGED <<reserved, opened, shut, closes, working, seen, queue>>
  PROVE  SlotsInv' /\ Exposure' <= Exposure
<1>1. Exposure \in Nat
  BY ExposureIsNat DEF SlotsInv
<1> QED
  BY <1>1 DEF SlotsInv, WorkingHasSlot, PendingHasSlot, PendingOnce, WorkingSeen, PendingSeen,
              Exposure, OpenRows

\* A slot taken by the head of the queue is given back, or a row opens in it.
LEMMA SlotsGivenBack ==
  ASSUME TypeOK, SlotsInv, NEW e, queue # <<>>, Pending(Head(queue)), Head(queue).entry = e,
         reserved' = reserved \ {e}, closes' = closes, seen' = seen,
         \/ opened' = opened /\ shut' = shut
         \/ opened' = opened \cup {e} /\ shut \subseteq shut',
         \/ queue' = Tail(queue) /\ working' = working
         \/ queue' = <<>> /\ working' = {}
  PROVE  SlotsInv' /\ Exposure' <= Exposure
<1>1. Exposure \in Nat /\ Cardinality(reserved) \in Nat /\ Cardinality(OpenRows) \in Nat
  BY ExposureIsNat DEF SlotsInv
<1>2. e \in reserved
  BY TailFacts DEF TypeOK, SlotsInv, PendingHasSlot
<1>3. IsFiniteSet(reserved') /\ Cardinality(reserved') = Cardinality(reserved) - 1
  BY <1>2, SlotFreed DEF SlotsInv
<1>4. /\ IsFiniteSet(opened') /\ Cardinality(OpenRows') \in Nat
      /\ Cardinality(OpenRows') <= Cardinality(OpenRows) + 1
  <2>1. CASE opened' = opened /\ shut' = shut
    BY <1>1, <2>1 DEF SlotsInv, OpenRows
  <2>2. CASE opened' = opened \cup {e} /\ shut \subseteq shut'
    <3> DEFINE C == shut \cup {c.entry : c \in closes}
               D == shut' \cup {c.entry : c \in closes}
    <3>1. C \subseteq D /\ IsFiniteSet(opened)
      BY <2>2 DEF SlotsInv
    <3>2. OpenRows = opened \ C /\ OpenRows' = (opened \cup {e}) \ D
      BY <2>2 DEF OpenRows
    <3> HIDE DEF C, D
    <3> QED
      BY <2>2, <3>1, <3>2, RowOpened
  <2> QED
    BY <2>1, <2>2
<1>5. Exposure' <= Exposure
  BY <1>1, <1>3, <1>4 DEF Exposure
<1>6. WorkingHasSlot' /\ PendingHasSlot' /\ PendingOnce' /\ WorkingSeen' /\ PendingSeen'
  <2>1. CASE queue' = Tail(queue) /\ working' = working
    BY <2>1, HeadFacts
  <2>2. CASE queue' = <<>> /\ working' = {}
    BY <2>2 DEF WorkingHasSlot, PendingHasSlot, PendingOnce, WorkingSeen, PendingSeen
  <2> QED
    BY <2>1, <2>2
<1> QED
  BY <1>1, <1>3, <1>4, <1>5, <1>6, ConstantFacts DEF SlotsInv, Exposure

\* A row closes, or nothing of the database moves, while the queue loses an
\* event that is not pending, or everything.
LEMMA SlotsOfRows ==
  ASSUME TypeOK, SlotsInv, reserved' = reserved, opened' = opened, shut' = shut, seen' = seen,
         closes' = closes \/ \E d : closes' = closes \cup {d},
         \/ queue # <<>> /\ ~Pending(Head(queue)) /\ queue' = Tail(queue) /\ working' = working
         \/ queue' = <<>> /\ working' = {}
  PROVE  SlotsInv' /\ Exposure' <= Exposure
<1>1. Exposure \in Nat /\ Cardinality(reserved) \in Nat /\ Cardinality(OpenRows) \in Nat
  BY ExposureIsNat DEF SlotsInv
<1>2. Exposure' <= Exposure
  <2>1. CASE closes' = closes
    BY <1>1, <2>1 DEF Exposure, OpenRows
  <2>2. ASSUME NEW d, closes' = closes \cup {d}
        PROVE  Exposure' <= Exposure
    <3>1. Cardinality(OpenRows') \in {Cardinality(OpenRows) - 1, Cardinality(OpenRows)}
      BY <2>2, RowClosed DEF SlotsInv
    <3> QED
      BY <1>1, <3>1 DEF Exposure
  <2> QED
    BY <2>1, <2>2
<1>3. WorkingHasSlot' /\ PendingHasSlot' /\ PendingOnce' /\ WorkingSeen' /\ PendingSeen'
  <2>1. CASE queue' = <<>> /\ working' = {}
    BY <2>1 DEF WorkingHasSlot, PendingHasSlot, PendingOnce, WorkingSeen, PendingSeen
  <2>2. CASE queue # <<>> /\ queue' = Tail(queue) /\ working' = working
    <3>1. \A i \in DOMAIN queue' :
            i \in Nat /\ i >= 1 /\ i + 1 \in DOMAIN queue /\ queue'[i] = queue[i + 1]
      BY <2>2, TailFacts DEF TypeOK
    <3>2. WorkingHasSlot' /\ PendingHasSlot' /\ WorkingSeen' /\ PendingSeen'
      BY <2>2, <3>1 DEF SlotsInv, WorkingHasSlot, PendingHasSlot, WorkingSeen, PendingSeen, Pending
    <3>3. ASSUME NEW i \in DOMAIN queue', NEW j \in DOMAIN queue',
                 Pending(queue'[i]), Pending(queue'[j]), queue'[i].entry = queue'[j].entry
          PROVE  i = j
      <4>1. i + 1 = j + 1
        BY <3>1, <3>3 DEF SlotsInv, PendingOnce
      <4> QED
        BY <3>1, <4>1
    <3> QED
      BY <3>2, <3>3 DEF PendingOnce, Pending
  <2> QED
    BY <2>1, <2>2
<1>4. Exposure' \in Nat
  <2>1. IsFiniteSet(OpenRows') /\ IsFiniteSet(reserved')
    BY FS_Subset DEF SlotsInv, OpenRows
  <2> QED
    BY <2>1, FS_CardinalityType DEF Exposure
<1>5. Exposure' <= MaxOpen
  BY <1>1, <1>2, <1>4, ConstantFacts DEF SlotsInv
<1>6. IsFiniteSet(reserved') /\ IsFiniteSet(opened')
  BY DEF SlotsInv
<1> QED
  BY <1>2, <1>3, <1>5, <1>6 DEF SlotsInv

\* An order ends, and the event of its end waits in the queue.
LEMMA SlotsOfEnd ==
  ASSUME TypeOK, SlotsInv, NEW e \in working, NEW kind \in {"opened", "killed"},
         working' = working \ {e}, queue' = Append(queue, Ev(kind, e)),
         UNCHANGED <<reserved, opened, shut, closes, seen>>
  PROVE  SlotsInv' /\ Exposure' <= Exposure
<1>1. Exposure \in Nat
  BY ExposureIsNat DEF SlotsInv
<1>2. e \in reserved /\ e \in Entries /\ e[2] <= seen[e[1]]
  BY DEF SlotsInv, WorkingHasSlot, WorkingSeen, TypeOK
<1>3. \A i \in DOMAIN queue' :
        \/ i \in DOMAIN queue /\ i \in Nat /\ i <= Len(queue) /\ queue'[i] = queue[i]
        \/ i = Len(queue) + 1 /\ queue'[i] = Ev(kind, e)
  BY <1>2, EvType, AppendFacts DEF TypeOK
<1>4. Ev(kind, e).entry = e
  BY DEF Ev
<1>5. ASSUME NEW i \in DOMAIN queue', Pending(queue'[i])
      PROVE  /\ queue'[i].entry \in reserved' /\ queue'[i].entry \notin working'
             /\ queue'[i].entry[2] <= seen'[queue'[i].entry[1]]
  BY <1>2, <1>3, <1>4, <1>5 DEF SlotsInv, PendingHasSlot, PendingSeen
<1>6. ASSUME NEW i \in DOMAIN queue', NEW j \in DOMAIN queue',
             Pending(queue'[i]), Pending(queue'[j]), queue'[i].entry = queue'[j].entry
      PROVE  i = j
  BY <1>3, <1>4, <1>6 DEF SlotsInv, PendingHasSlot, PendingOnce
<1>7. WorkingHasSlot' /\ WorkingSeen'
  BY DEF SlotsInv, WorkingHasSlot, WorkingSeen
<1> QED
  BY <1>1, <1>5, <1>6, <1>7
     DEF SlotsInv, PendingHasSlot, PendingOnce, PendingSeen, Pending, Exposure, OpenRows

\* A new entry takes a slot.
LEMMA SlotsOfPlace ==
  ASSUME TypeOK, SlotsInv, NEW s \in Symbols, NEW t \in Times, Place(s, t)
  PROVE  SlotsInv' /\ Exposure' \in Nat
<1> DEFINE e == <<s, t>>
<1>1. /\ t \in Nat /\ t > seen[s] /\ e \in Entries /\ e[1] = s /\ e[2] = t
      /\ Exposure < MaxOpen
  BY ConsideredFacts DEF Place, CanReserve, Entries
<1>2. /\ reserved' = reserved \cup {e} /\ working' = working \cup {e}
      /\ queue' = queue /\ opened' = opened /\ shut' = shut /\ closes' = closes
      /\ seen' = [seen EXCEPT ![s] = t]
  BY DEF Place
<1> HIDE DEF e
<1>3. \A x \in Symbols : seen[x] \in Nat /\ seen'[x] \in Nat /\ seen[x] <= seen'[x] /\ seen'[s] = t
  BY <1>1, <1>2, ConstantFacts DEF TypeOK
<1>4. \A i \in DOMAIN queue : queue[i] \in Event
  BY DEF TypeOK
<1>5. \A i \in DOMAIN queue : Pending(queue[i]) => queue[i].entry # e
  <2> SUFFICES ASSUME NEW i \in DOMAIN queue, Pending(queue[i]), queue[i].entry = e PROVE FALSE
    OBVIOUS
  <2>1. t <= seen[s]
    BY <1>1 DEF SlotsInv, PendingSeen
  <2> QED
    BY <1>1, <1>3, <2>1
<1>6. WorkingHasSlot' /\ PendingHasSlot' /\ PendingOnce'
  BY <1>2, <1>5 DEF SlotsInv, WorkingHasSlot, PendingHasSlot, PendingOnce, Pending
<1>7. WorkingSeen'
  <2> SUFFICES ASSUME NEW x \in working' PROVE x[2] <= seen'[x[1]]
    BY DEF WorkingSeen
  <2>1. CASE x = e
    BY <1>1, <1>3, <2>1
  <2>2. CASE x \in working
    <3>1. x[1] \in Symbols /\ x[2] \in Nat /\ x[2] <= seen[x[1]]
      BY <2>2, ConstantFacts DEF SlotsInv, WorkingSeen, TypeOK, Entries, Times
    <3> QED
      BY <1>3, <3>1
  <2> QED
    BY <1>2, <2>1, <2>2
<1>8. PendingSeen'
  <2> SUFFICES ASSUME NEW i \in DOMAIN queue, Pending(queue[i])
               PROVE  queue[i].entry[2] <= seen'[queue[i].entry[1]]
    BY <1>2 DEF PendingSeen, Pending
  <2>1. /\ queue[i].entry[1] \in Symbols /\ queue[i].entry[2] \in Nat
        /\ queue[i].entry[2] <= seen[queue[i].entry[1]]
    BY <1>4, EventFields, ConstantFacts DEF SlotsInv, PendingSeen, Times
  <2> QED
    BY <1>3, <2>1
<1>9. IsFiniteSet(reserved') /\ Exposure' \in Nat /\ Exposure' <= MaxOpen
  <2>1. /\ IsFiniteSet(reserved') /\ Cardinality(reserved') \in Nat
        /\ Cardinality(reserved') <= Cardinality(reserved) + 1
    BY <1>2, SlotTaken DEF SlotsInv
  <2>2. Cardinality(reserved) \in Nat /\ Cardinality(OpenRows) \in Nat
    BY ExposureIsNat DEF SlotsInv
  <2>3. OpenRows' = OpenRows
    BY <1>2 DEF OpenRows
  <2> QED
    BY <1>1, <2>1, <2>2, <2>3, ConstantFacts DEF Exposure
<1> QED
  BY <1>2, <1>6, <1>7, <1>8, <1>9 DEF SlotsInv

LEMMA StepSlots ==
  ASSUME TypeOK, SlotsInv, [Next]_vars
  PROVE  /\ SlotsInv'
         /\ Exposure' <= Exposure \/ \E s \in Symbols, t \in Times : Place(s, t)
<1> DEFINE Fine == SlotsInv' /\ Exposure' <= Exposure
<1> USE DEF world, process, database, history
<1>1. CASE Bar
  BY <1>1, SlotsSame DEF Bar
<1>2. ASSUME NEW s \in Symbols, NEW t \in Times, Decline(s, t) PROVE Fine
  BY <1>2, SlotsSame DEF Decline
<1>3. ASSUME NEW s \in Symbols, NEW t \in Times, Latch(s, t) PROVE Fine
  BY <1>3, SlotsSame DEF Latch
<1>5. ASSUME NEW e \in Entries, Fill(e) PROVE Fine
  BY <1>5, SlotsOfEnd DEF Fill
<1>6. ASSUME NEW e \in Entries, Kill(e) PROVE Fine
  BY <1>6, SlotsOfEnd DEF Kill
<1>7. ASSUME NEW e \in Entries, NEW p \in Results,
             Close(e, p) \/ \E t \in Times : Invalidate(e, p, t)
      PROVE  Fine
  <2>1. PICK at \in Times : ClosedAs(e, p, at)
    BY <1>7, CloseCases
  <2>2. PICK ev \in Event : ev = Closed(e, p, at) /\ ~Pending(ev)
    BY ClosedType DEF Pending
  <2>3. \A i \in DOMAIN queue' :
          \/ i \in DOMAIN queue /\ i \in Nat /\ i <= Len(queue) /\ queue'[i] = queue[i]
          \/ i = Len(queue) + 1 /\ queue'[i] = ev
    BY <2>1, <2>2, AppendFacts DEF TypeOK, ClosedAs
  <2>4. UNCHANGED <<reserved, opened, shut, closes, working, seen>>
    BY <2>1 DEF ClosedAs
  <2>5. Exposure \in Nat /\ Exposure' = Exposure
    BY <2>4, ExposureIsNat DEF SlotsInv, Exposure, OpenRows
  <2>6. PendingHasSlot' /\ PendingOnce' /\ PendingSeen'
    BY <2>2, <2>3, <2>4 DEF SlotsInv, PendingHasSlot, PendingOnce, PendingSeen, Pending
  <2> QED
    BY <2>4, <2>5, <2>6 DEF SlotsInv, WorkingHasSlot, WorkingSeen
<1>8. ASSUME NEW e \in Entries, BookKill(e) PROVE Fine
  BY <1>8, SlotsGivenBack DEF BookKill, Booking, Next1, Pending
<1>9. ASSUME NEW e \in Entries, BookOpen(e) PROVE Fine
  BY <1>9, SlotsGivenBack DEF BookOpen, RowWritten, ShutBy, Booking, Next1, Pending
<1>10. ASSUME NEW e \in Entries, BookRefused(e) PROVE Fine
  BY <1>10, SlotsGivenBack DEF BookRefused, Booking, Next1, Pending
<1>11. ASSUME NEW e \in Entries, BookClose(e) PROVE Fine
  BY <1>11, SlotsOfRows DEF BookClose, Booking, Next1, Pending, ClosedRow
<1>14. CASE Crash
  BY <1>14, SlotsOfRows DEF Crash, MemoryGone
<1>15. CASE Stop
  BY <1>15, SlotsOfRows DEF Stop, MemoryGone
<1>16. ASSUME NEW e \in Entries, CrashInOpen(e) PROVE Fine
  BY <1>16, SlotsGivenBack DEF CrashInOpen, RowWritten, ShutBy, Booking, MemoryGone, Pending
<1>17. ASSUME NEW e \in Entries, CrashInClose(e) PROVE Fine
  BY <1>17, SlotsOfRows DEF CrashInClose, Booking, MemoryGone, ClosedRow
<1>18. CASE Recover
  BY <1>18, SlotsSame DEF Recover
<1>19. CASE CliRead \/ CliWrite
  BY <1>19, SlotsSame DEF CliRead, CliWrite
<1>20. CASE UNCHANGED vars
  BY <1>20, SlotsSame DEF vars
<1> QED
  BY <1>1, <1>2, <1>3, <1>5, <1>6, <1>7, <1>8, <1>9, <1>10, <1>11,
     <1>14, <1>15, <1>16, <1>17, <1>18, <1>19, <1>20, SlotsOfPlace DEF Next

-----------------------------------------------------------------------------
(* The broker's positions and their rows *)

\* The places of a queue whose head is gone, and of one with one event more.
LEMMA TailPlaces ==
  ASSUME NEW S, NEW q \in Seq(S), q # <<>>, NEW i \in Nat
  PROVE  /\ i \in DOMAIN Tail(q) => i + 1 \in DOMAIN q /\ Tail(q)[i] = q[i + 1]
         /\ i + 1 \in DOMAIN q /\ i # 0 => i \in DOMAIN Tail(q)
<1>1. Len(q) \in Nat /\ Len(q) >= 1 /\ DOMAIN q = 1..Len(q)
  OBVIOUS
<1>2. DOMAIN Tail(q) = 1..(Len(q) - 1) /\ \A k \in 1..(Len(q) - 1) : Tail(q)[k] = q[k + 1]
  BY <1>1
<1> QED
  BY <1>1, <1>2

LEMMA AppendPlaces ==
  ASSUME NEW S, NEW q \in Seq(S), NEW x \in S, NEW i \in Nat
  PROVE  /\ Len(q) \in Nat
         /\ i \in DOMAIN q <=> 1 <= i /\ i <= Len(q)
         /\ i \in DOMAIN Append(q, x) <=> 1 <= i /\ i <= Len(q) + 1
         /\ i \in DOMAIN q => Append(q, x)[i] = q[i]
         /\ Append(q, x)[Len(q) + 1] = x
<1>1. Len(q) \in Nat /\ DOMAIN q = 1..Len(q)
  OBVIOUS
<1>2. DOMAIN Append(q, x) = 1..(Len(q) + 1)
  BY <1>1
<1>3. \A k \in 1..(Len(q) + 1) : k <= Len(q) => Append(q, x)[k] = q[k]
  BY <1>1
<1>4. Append(q, x)[Len(q) + 1] = x
  BY <1>1
<1> QED
  BY <1>1, <1>2, <1>3, <1>4

\* Nothing moves but the risk state and the clock.
LEMMA HeldSame ==
  ASSUME HeldInv,
         UNCHANGED <<working, held, queue, seen, reserved, opened, shut, closes>>
  PROVE  HeldInv'
  BY DEF HeldInv, RowsKept, RowsFresh, RowsSeen, HeldHasSlot, ClosedIsGone, ClosedHasRow,
         ClosedOnce, OpenedAt, ClosedAt, ClosedRows, OpenRows

\* A process that is gone leaves only the rows.
LEMMA HeldGone ==
  ASSUME HeldInv, working' = {}, held' \subseteq OpenRows', queue' = <<>>,
         RowsKept', RowsFresh', RowsSeen'
  PROVE  HeldInv'
<1>1. \A i \in Nat : ~ClosedAt(i)'
  BY DEF ClosedAt
<1> QED
  BY <1>1 DEF HeldInv, HeldHasSlot, ClosedIsGone, ClosedHasRow, ClosedOnce

\* An event joins the queue.
LEMMA HeldAppend ==
  ASSUME TypeOK, HeldInv, NEW ev \in Event, queue' = Append(queue, ev),
         UNCHANGED <<seen, reserved, opened, shut, closes>>
  PROVE  /\ RowsKept' /\ RowsFresh' /\ RowsSeen' /\ OpenRows' = OpenRows /\ ClosedRows' = ClosedRows
         /\ \A i \in Nat, e \in Entries : OpenedAt(i, e) => OpenedAt(i, e)'
         /\ ev.kind = "opened" => \E i \in Nat : OpenedAt(i, ev.entry)'
         /\ Len(queue) \in Nat /\ \A i \in Nat : ClosedAt(i) => i <= Len(queue)
         /\ \A i \in Nat : OpenedAt(i, ev.entry) => i <= Len(queue)
         /\ \A i \in Nat : ClosedAt(i)' =>
              \/ ClosedAt(i) /\ queue'[i] = queue[i]
              \/ ev.kind = "closed" /\ i = Len(queue) + 1 /\ queue'[i] = ev
<1>1. RowsKept' /\ RowsFresh' /\ RowsSeen' /\ OpenRows' = OpenRows /\ ClosedRows' = ClosedRows
  BY DEF HeldInv, RowsKept, RowsFresh, RowsSeen, OpenRows, ClosedRows
<1>2. \A i \in Nat :
         /\ Len(queue) \in Nat
         /\ i \in DOMAIN queue <=> 1 <= i /\ i <= Len(queue)
         /\ i \in DOMAIN queue' <=> 1 <= i /\ i <= Len(queue) + 1
         /\ i \in DOMAIN queue => queue'[i] = queue[i]
         /\ queue'[Len(queue) + 1] = ev
  BY AppendPlaces DEF TypeOK
<1>3. Len(queue) \in Nat
  BY <1>2
<1>4. \A i \in Nat, e \in Entries : OpenedAt(i, e) => OpenedAt(i, e)'
  BY <1>2, <1>3 DEF OpenedAt
<1>5. ev.kind = "opened" => \E i \in Nat : OpenedAt(i, ev.entry)'
  <2>1. Len(queue) + 1 \in Nat /\ Len(queue) + 1 \in DOMAIN queue' /\ queue'[Len(queue) + 1] = ev
    BY <1>2, <1>3
  <2> QED
    BY <2>1 DEF OpenedAt
<1>6. \A i \in Nat : ClosedAt(i) => i <= Len(queue)
  BY <1>2, <1>3 DEF ClosedAt
<1>7. \A i \in Nat : OpenedAt(i, ev.entry) => i <= Len(queue)
  BY <1>2, <1>3 DEF OpenedAt
<1>8. \A i \in Nat : ClosedAt(i)' =>
         \/ ClosedAt(i) /\ queue'[i] = queue[i]
         \/ ev.kind = "closed" /\ i = Len(queue) + 1 /\ queue'[i] = ev
  BY <1>2, <1>3 DEF ClosedAt
<1> QED
  BY <1>1, <1>3, <1>4, <1>5, <1>6, <1>7, <1>8

LEMMA HeldOfFill ==
  ASSUME TypeOK, SlotsInv, HeldInv, NEW e \in Entries, Fill(e)
  PROVE  HeldInv'
<1> DEFINE ev == Ev("opened", e)
<1>1. /\ e \in working /\ working' = working \ {e} /\ held' = held \cup {e}
      /\ queue' = Append(queue, ev) /\ UNCHANGED <<seen, reserved, opened, shut, closes>>
      /\ ev \in Event /\ ev.kind = "opened" /\ ev.entry = e
  BY EvType DEF Fill, database, Ev
<1> HIDE DEF ev
<1>2. /\ RowsKept' /\ RowsFresh' /\ RowsSeen' /\ OpenRows' = OpenRows /\ ClosedRows' = ClosedRows
      /\ \A i \in Nat, x \in Entries : OpenedAt(i, x) => OpenedAt(i, x)'
      /\ \E i \in Nat : OpenedAt(i, e)'
      /\ \A i \in Nat : ClosedAt(i)' => ClosedAt(i) /\ queue'[i] = queue[i]
  BY <1>1, HeldAppend
<1>3. HeldHasSlot'
  BY <1>1, <1>2 DEF HeldInv, HeldHasSlot, TypeOK
<1>4. ClosedIsGone' /\ ClosedOnce'
  BY <1>1, <1>2 DEF HeldInv, ClosedIsGone, ClosedOnce
<1>5. ClosedHasRow'
  <2> SUFFICES ASSUME NEW i \in Nat, ClosedAt(i)'
               PROVE  \/ queue'[i].entry \in opened'
                      \/ \E j \in Nat : j < i /\ OpenedAt(j, queue[i].entry)'
    BY <1>2 DEF ClosedHasRow
  <2>1. ClosedAt(i) /\ queue'[i] = queue[i] /\ queue[i].entry \in Entries
    BY <1>2, EventFields DEF TypeOK, ClosedAt
  <2> QED
    BY <1>1, <1>2, <2>1 DEF HeldInv, ClosedHasRow
<1>6. held' \cap working' = {}
  BY <1>1 DEF HeldInv
<1> QED
  BY <1>2, <1>3, <1>4, <1>5, <1>6 DEF HeldInv

LEMMA HeldOfKill ==
  ASSUME TypeOK, SlotsInv, HeldInv, NEW e \in Entries, Kill(e)
  PROVE  HeldInv'
<1> DEFINE ev == Ev("killed", e)
<1>1. /\ e \in working /\ working' = working \ {e} /\ held' = held
      /\ queue' = Append(queue, ev) /\ UNCHANGED <<seen, reserved, opened, shut, closes>>
      /\ ev \in Event /\ ev.kind = "killed" /\ ev.entry = e
  BY EvType DEF Kill, database, Ev
<1> HIDE DEF ev
<1>2. /\ RowsKept' /\ RowsFresh' /\ RowsSeen' /\ OpenRows' = OpenRows /\ ClosedRows' = ClosedRows
      /\ \A i \in Nat, x \in Entries : OpenedAt(i, x) => OpenedAt(i, x)'
      /\ \A i \in Nat : ClosedAt(i)' => ClosedAt(i) /\ queue'[i] = queue[i]
  BY <1>1, HeldAppend
<1>3. HeldHasSlot'
  BY <1>1, <1>2 DEF HeldInv, HeldHasSlot, TypeOK
<1>4. ClosedIsGone' /\ ClosedOnce'
  BY <1>1, <1>2 DEF HeldInv, ClosedIsGone, ClosedOnce
<1>5. ClosedHasRow'
  <2> SUFFICES ASSUME NEW i \in Nat, ClosedAt(i)'
               PROVE  \/ queue'[i].entry \in opened'
                      \/ \E j \in Nat : j < i /\ OpenedAt(j, queue[i].entry)'
    BY <1>2 DEF ClosedHasRow
  <2>1. ClosedAt(i) /\ queue'[i] = queue[i] /\ queue[i].entry \in Entries
    BY <1>2, EventFields DEF TypeOK, ClosedAt
  <2> QED
    BY <1>1, <1>2, <2>1 DEF HeldInv, ClosedHasRow
<1>6. held' \cap working' = {}
  BY <1>1 DEF HeldInv
<1> QED
  BY <1>2, <1>3, <1>4, <1>5, <1>6 DEF HeldInv

LEMMA HeldOfClose ==
  ASSUME TypeOK, SlotsInv, HeldInv, NEW e \in Entries, NEW p \in Results,
         Close(e, p) \/ \E t \in Times : Invalidate(e, p, t)
  PROVE  HeldInv'
<1>0. PICK at \in Times : ClosedAs(e, p, at)
  BY CloseCases
<1> DEFINE ev == Closed(e, p, at)
<1>1. ev \in Event /\ ev.kind = "closed" /\ ev.entry = e
  BY ClosedType
<1>2. /\ e \in held /\ working' = working /\ held' = held \ {e}
      /\ queue' = Append(queue, ev) /\ UNCHANGED <<seen, reserved, opened, shut, closes>>
  BY <1>0 DEF ClosedAs, database
<1> HIDE DEF ev
<1>3. /\ RowsKept' /\ RowsFresh' /\ RowsSeen' /\ OpenRows' = OpenRows /\ ClosedRows' = ClosedRows
      /\ \A i \in Nat, x \in Entries : OpenedAt(i, x) => OpenedAt(i, x)'
      /\ Len(queue) \in Nat /\ \A i \in Nat : ClosedAt(i) => i <= Len(queue)
      /\ \A i \in Nat : OpenedAt(i, e) => i <= Len(queue)
      /\ \A i \in Nat : ClosedAt(i)' =>
           \/ ClosedAt(i) /\ queue'[i] = queue[i]
           \/ i = Len(queue) + 1 /\ queue'[i] = ev
  BY <1>1, <1>2, HeldAppend
<1>4. HeldHasSlot'
  BY <1>2, <1>3 DEF HeldInv, HeldHasSlot, TypeOK
<1>5. e \notin working /\ e \notin ClosedRows
      /\ \A i \in Nat : ClosedAt(i) => queue[i].entry # e
  <2>1. \A i \in Nat : OpenedAt(i, e) => e \in reserved
    BY DEF OpenedAt, SlotsInv, PendingHasSlot, Pending
  <2>2. e \notin ClosedRows
    BY <1>2, <2>1 DEF HeldInv, HeldHasSlot, RowsKept, RowsFresh, OpenRows, ClosedRows
  <2> QED
    BY <1>2, <2>2 DEF HeldInv, ClosedIsGone
<1>6. ClosedIsGone'
  BY <1>1, <1>2, <1>3, <1>5 DEF HeldInv, ClosedIsGone
<1>7. ClosedOnce'
  BY <1>1, <1>2, <1>3, <1>5 DEF HeldInv, ClosedOnce
<1>8. ClosedHasRow'
  <2> SUFFICES ASSUME NEW i \in Nat, ClosedAt(i)'
               PROVE  \/ queue'[i].entry \in opened'
                      \/ \E j \in Nat : j < i /\ OpenedAt(j, queue[i].entry)'
    BY DEF ClosedHasRow, OpenedAt
  <2>1. CASE ClosedAt(i) /\ queue'[i] = queue[i]
    <3>1. queue[i].entry \in Entries
      BY <2>1, EventFields DEF TypeOK, ClosedAt
    <3> QED
      BY <1>2, <1>3, <2>1, <3>1 DEF HeldInv, ClosedHasRow
  <2>2. CASE i = Len(queue) + 1 /\ queue'[i] = ev
    <3>1. e \in opened \/ \E j \in Nat : OpenedAt(j, e)
      BY <1>2 DEF HeldInv, HeldHasSlot, OpenRows
    <3>2. ASSUME NEW j \in Nat, OpenedAt(j, e)
          PROVE  j < i /\ OpenedAt(j, e)'
      BY <1>3, <2>2, <3>2
    <3> QED
      BY <1>1, <1>2, <2>2, <3>1, <3>2
  <2> QED
    BY <1>3, <2>1, <2>2
<1>9. held' \cap working' = {}
  BY <1>2 DEF HeldInv
<1> QED
  BY <1>3, <1>4, <1>6, <1>7, <1>8, <1>9 DEF HeldInv

\* Whatever the broker has or had is a slot or a row.
LEMMA HeldFacts ==
  ASSUME SlotsInv, HeldInv
  PROVE  /\ \A e \in held : e \in reserved \cup OpenRows
         /\ \A i \in Nat : ClosedAt(i) => queue[i].entry \in reserved \cup opened
<1>1. \A i \in Nat : \A e : OpenedAt(i, e) => e \in reserved
  BY DEF OpenedAt, SlotsInv, PendingHasSlot, Pending
<1>2. \A e \in held : e \in reserved \cup OpenRows
  BY <1>1 DEF HeldInv, HeldHasSlot
<1>3. \A i \in Nat : ClosedAt(i) => queue[i].entry \in reserved \cup opened
  BY <1>1 DEF HeldInv, ClosedHasRow
<1> QED
  BY <1>2, <1>3

LEMMA HeldOfPlace ==
  ASSUME TypeOK, SlotsInv, HeldInv, NEW s \in Symbols, NEW t \in Times, Place(s, t)
  PROVE  HeldInv'
<1> DEFINE e == <<s, t>>
<1>1. /\ t \in Nat /\ t > seen[s] /\ e \in Entries /\ e[1] = s /\ e[2] = t
  BY ConsideredFacts DEF Place, Entries
<1>2. /\ reserved' = reserved \cup {e} /\ working' = working \cup {e} /\ held' = held
      /\ queue' = queue /\ opened' = opened /\ shut' = shut /\ closes' = closes
      /\ seen' = [seen EXCEPT ![s] = t]
  BY DEF Place
<1> HIDE DEF e
<1>3. \A x \in Symbols : seen[x] \in Nat /\ seen'[x] \in Nat /\ seen[x] <= seen'[x] /\ seen'[s] = t
  BY <1>1, <1>2, ConstantFacts DEF TypeOK
<1>4. e \notin reserved /\ e \notin opened
  <2> SUFFICES ASSUME e \in reserved \cup opened PROVE FALSE
    OBVIOUS
  <2>1. t <= seen[s]
    BY <1>1 DEF HeldInv, RowsSeen
  <2> QED
    BY <1>1, <1>3, <2>1
<1>5. e \notin held /\ \A i \in Nat : ClosedAt(i) => queue[i].entry # e
  BY <1>4, HeldFacts DEF OpenRows
<1>6. RowsKept' /\ RowsFresh' /\ held' \cap working' = {}
  BY <1>2, <1>4, <1>5 DEF HeldInv, RowsKept, RowsFresh, ClosedRows
<1>7. RowsSeen'
  <2> SUFFICES ASSUME NEW x \in reserved' \cup opened' PROVE x[2] <= seen'[x[1]]
    BY DEF RowsSeen
  <2>1. CASE x = e
    BY <1>1, <1>3, <2>1
  <2>2. CASE x \in reserved \cup opened
    <3>1. x[1] \in Symbols /\ x[2] \in Nat /\ x[2] <= seen[x[1]]
      BY <2>2, ConstantFacts DEF HeldInv, RowsSeen, TypeOK, Entries, Times
    <3> QED
      BY <1>3, <3>1
  <2> QED
    BY <1>2, <2>1, <2>2
<1>8. HeldHasSlot' /\ ClosedHasRow' /\ ClosedOnce'
  BY <1>2 DEF HeldInv, HeldHasSlot, ClosedHasRow, ClosedOnce, OpenedAt, ClosedAt, OpenRows
<1>9. ClosedIsGone'
  BY <1>2, <1>5 DEF HeldInv, ClosedIsGone, ClosedAt, ClosedRows
<1> QED
  BY <1>6, <1>7, <1>8, <1>9 DEF HeldInv

\* The head is booked and leaves the queue.
LEMMA HeldTail ==
  ASSUME TypeOK, queue # <<>>, queue' = Tail(queue)
  PROVE  /\ Head(queue) = queue[1] /\ 1 \in DOMAIN queue
         /\ \A i \in Nat : \A e : OpenedAt(i, e) => i >= 1
         /\ \A i \in Nat : \A e : OpenedAt(i, e) /\ i # 1 => OpenedAt(i - 1, e)' /\ i - 1 \in Nat
         /\ \A i \in Nat : ClosedAt(i)' => ClosedAt(i + 1) /\ queue'[i] = queue[i + 1] /\ i + 1 \in Nat /\ i # 0
<1>1. Head(queue) = queue[1] /\ 1 \in DOMAIN queue
  BY TailFacts DEF TypeOK
<1>2. Len(queue) \in Nat /\ DOMAIN queue = 1..Len(queue)
  BY DEF TypeOK
<1>3. DOMAIN queue' = 1..(Len(queue) - 1)
      /\ \A k \in 1..(Len(queue) - 1) : queue'[k] = queue[k + 1]
  BY <1>2 DEF TypeOK
<1>4. \A i \in Nat : \A e : OpenedAt(i, e) => i >= 1
  BY <1>2 DEF OpenedAt
<1>5. ASSUME NEW i \in Nat, NEW e, OpenedAt(i, e), i # 1
      PROVE  OpenedAt(i - 1, e)' /\ i - 1 \in Nat
  <2>1. i - 1 \in 1..(Len(queue) - 1) /\ (i - 1) + 1 = i
    BY <1>2, <1>5 DEF OpenedAt
  <2> QED
    BY <1>3, <1>5, <2>1 DEF OpenedAt
<1>6. ASSUME NEW i \in Nat, ClosedAt(i)'
      PROVE  ClosedAt(i + 1) /\ queue'[i] = queue[i + 1] /\ i + 1 \in Nat /\ i # 0
  <2>1. i \in 1..(Len(queue) - 1)
    BY <1>3, <1>6 DEF ClosedAt
  <2> QED
    BY <1>2, <1>3, <1>6, <2>1 DEF ClosedAt
<1> QED
  BY <1>1, <1>4, <1>5, <1>6

\* The head closes a position: its row is in the table.
LEMMA ClosedIsOpen ==
  ASSUME TypeOK, HeldInv, NEW e, Booking("closed", e)
  PROVE  /\ ClosedAt(1) /\ queue[1].entry = e /\ ClosedRow.entry = e
         /\ e \in opened /\ e \notin ClosedRows
         /\ shut = {} => ClosedRow.entry \in OpenRows
<1>1. /\ Head(queue) = queue[1] /\ 1 \in DOMAIN queue /\ DOMAIN queue = 1..Len(queue)
      /\ Len(queue) \in Nat
  BY TailFacts DEF TypeOK, Booking
<1>2. ClosedAt(1) /\ queue[1].entry = e /\ ClosedRow.entry = e
  BY <1>1 DEF ClosedAt, Booking, ClosedRow
<1>3. \A j \in Nat : j < 1 => ~OpenedAt(j, e)
  BY <1>1 DEF OpenedAt
<1>4. e \in opened /\ e \notin ClosedRows
  BY <1>2, <1>3 DEF HeldInv, ClosedHasRow, ClosedIsGone
<1> QED
  BY <1>2, <1>4 DEF OpenRows, ClosedRows

\* The head opens a position: it holds a slot and no row.
LEMMA OpenedIsNew ==
  ASSUME TypeOK, SlotsInv, HeldInv, NEW e, Booking("opened", e)
  PROVE  /\ e \in reserved /\ e \notin opened /\ e \notin shut /\ e \notin ClosedRows
         /\ OpenedAt(1, e) /\ \A h : OpenedAt(1, h) => h = e
<1>1. Head(queue) = queue[1] /\ 1 \in DOMAIN queue
  BY TailFacts DEF TypeOK, Booking
<1>2. OpenedAt(1, e) /\ \A h : OpenedAt(1, h) => h = e
  BY <1>1 DEF OpenedAt, Booking
<1>3. e \in reserved
  BY <1>2 DEF OpenedAt, SlotsInv, PendingHasSlot, Pending
<1> QED
  BY <1>2, <1>3 DEF HeldInv, RowsFresh, RowsKept

LEMMA HeldOfKilled ==
  ASSUME TypeOK, SlotsInv, HeldInv, NEW e \in Entries, BookKill(e)
  PROVE  HeldInv'
<1>1. /\ queue # <<>> /\ queue' = Tail(queue) /\ Head(queue).kind = "killed"
      /\ reserved' = reserved \ {e}
      /\ UNCHANGED <<working, held, seen, opened, shut, closes>>
  BY DEF BookKill, Booking, Next1
<1>2. /\ Head(queue) = queue[1]
      /\ \A i \in Nat : \A x : OpenedAt(i, x) => i >= 1
      /\ \A i \in Nat : \A x : OpenedAt(i, x) /\ i # 1 => OpenedAt(i - 1, x)' /\ i - 1 \in Nat
      /\ \A i \in Nat : ClosedAt(i)' => ClosedAt(i + 1) /\ queue'[i] = queue[i + 1] /\ i + 1 \in Nat /\ i # 0
  BY <1>1, HeldTail
<1>3. \A x : ~OpenedAt(1, x)
  BY <1>1, <1>2 DEF OpenedAt
<1>4. RowsKept' /\ RowsFresh' /\ RowsSeen' /\ held' \cap working' = {}
      /\ OpenRows' = OpenRows /\ ClosedRows' = ClosedRows
  BY <1>1 DEF HeldInv, RowsKept, RowsFresh, RowsSeen, OpenRows, ClosedRows
<1>5. HeldHasSlot'
  BY <1>1, <1>2, <1>3, <1>4 DEF HeldInv, HeldHasSlot
<1>6. ClosedIsGone'
  <2> SUFFICES ASSUME NEW i \in Nat, ClosedAt(i)'
               PROVE  queue'[i].entry \notin held' \cup working' \cup ClosedRows'
    BY DEF ClosedIsGone
  <2>1. ClosedAt(i + 1) /\ queue'[i] = queue[i + 1] /\ i + 1 \in Nat
    BY <1>2
  <2> QED
    BY <1>1, <1>4, <2>1 DEF HeldInv, ClosedIsGone
<1>7. ClosedOnce'
  BY <1>2 DEF HeldInv, ClosedOnce
<1>8. ClosedHasRow'
  <2> SUFFICES ASSUME NEW i \in Nat, ClosedAt(i)'
               PROVE  \/ queue'[i].entry \in opened'
                      \/ \E j \in Nat : j < i /\ OpenedAt(j, queue[i].entry)'
    BY DEF ClosedHasRow, OpenedAt
  <2>1. ClosedAt(i + 1) /\ queue'[i] = queue[i + 1] /\ i + 1 \in Nat
    BY <1>2
  <2>2. CASE queue[i + 1].entry \in opened
    BY <1>1, <2>1, <2>2
  <2>3. ASSUME NEW j \in Nat, j < i + 1, OpenedAt(j, queue[i + 1].entry)
        PROVE  j - 1 \in Nat /\ j - 1 < i /\ OpenedAt(j - 1, queue[i].entry)'
    BY <1>2, <1>3, <2>1, <2>3
  <2> QED
    BY <2>1, <2>2, <2>3 DEF HeldInv, ClosedHasRow
<1> QED
  BY <1>4, <1>5, <1>6, <1>7, <1>8 DEF HeldInv

LEMMA HeldOfOpened ==
  ASSUME TypeOK, SlotsInv, HeldInv, NEW e \in Entries, BookOpen(e)
  PROVE  HeldInv'
<1>1. /\ queue # <<>> /\ queue' = Tail(queue) /\ Booking("opened", e)
      /\ reserved' = reserved \ {e} /\ opened' = opened \cup {e}
      /\ shut' = IF e \in held THEN shut ELSE shut \cup {e}
      /\ UNCHANGED <<working, held, seen, closes>>
  BY DEF BookOpen, RowWritten, ShutBy, Booking, Next1
<1>2. /\ \A i \in Nat : \A x : OpenedAt(i, x) => i >= 1
      /\ \A i \in Nat : \A x : OpenedAt(i, x) /\ i # 1 => OpenedAt(i - 1, x)' /\ i - 1 \in Nat
      /\ \A i \in Nat : ClosedAt(i)' => ClosedAt(i + 1) /\ queue'[i] = queue[i + 1] /\ i + 1 \in Nat /\ i # 0
  BY <1>1, HeldTail
<1>3. /\ e \in reserved /\ e \notin opened /\ e \notin shut /\ e \notin ClosedRows
      /\ \A h : OpenedAt(1, h) => h = e
  BY <1>1, OpenedIsNew
<1>4. RowsKept' /\ RowsFresh' /\ RowsSeen' /\ held' \cap working' = {}
      /\ ClosedRows' = ClosedRows
  BY <1>1, <1>3 DEF HeldInv, RowsKept, RowsFresh, RowsSeen, ClosedRows
<1>5. HeldHasSlot'
  <2> SUFFICES ASSUME NEW h \in held
               PROVE  h \in OpenRows' \/ \E i \in Nat : OpenedAt(i, h)'
    BY <1>1 DEF HeldHasSlot
  <2>1. CASE h = e
    BY <1>1, <1>3, <1>4, <2>1 DEF OpenRows, ClosedRows
  <2>2. CASE h # e /\ h \in OpenRows
    BY <1>1, <1>4, <2>2 DEF OpenRows, ClosedRows
  <2>3. ASSUME h # e, NEW i \in Nat, OpenedAt(i, h)
        PROVE  \E k \in Nat : OpenedAt(k, h)'
    BY <1>2, <1>3, <2>3
  <2> QED
    BY <2>1, <2>2, <2>3 DEF HeldInv, HeldHasSlot
<1>6. ClosedIsGone'
  <2> SUFFICES ASSUME NEW i \in Nat, ClosedAt(i)'
               PROVE  queue'[i].entry \notin held' \cup working' \cup ClosedRows'
    BY DEF ClosedIsGone
  <2>1. ClosedAt(i + 1) /\ queue'[i] = queue[i + 1] /\ i + 1 \in Nat
    BY <1>2
  <2> QED
    BY <1>1, <1>4, <2>1 DEF HeldInv, ClosedIsGone
<1>7. ClosedOnce'
  BY <1>2 DEF HeldInv, ClosedOnce
<1>8. ClosedHasRow'
  <2> SUFFICES ASSUME NEW i \in Nat, ClosedAt(i)'
               PROVE  \/ queue'[i].entry \in opened'
                      \/ \E j \in Nat : j < i /\ OpenedAt(j, queue[i].entry)'
    BY DEF ClosedHasRow, OpenedAt
  <2>1. ClosedAt(i + 1) /\ queue'[i] = queue[i + 1] /\ i + 1 \in Nat
    BY <1>2
  <2>2. CASE queue[i + 1].entry \in opened \cup {e}
    BY <1>1, <2>1, <2>2
  <2>3. ASSUME queue[i + 1].entry # e, NEW j \in Nat, j < i + 1,
               OpenedAt(j, queue[i + 1].entry)
        PROVE  j - 1 \in Nat /\ j - 1 < i /\ OpenedAt(j - 1, queue[i].entry)'
    BY <1>2, <1>3, <2>1, <2>3
  <2> QED
    BY <2>1, <2>2, <2>3 DEF HeldInv, ClosedHasRow
<1> QED
  BY <1>4, <1>5, <1>6, <1>7, <1>8 DEF HeldInv

LEMMA HeldOfRefused ==
  ASSUME TypeOK, SlotsInv, HeldInv, NEW e \in Entries, BookRefused(e)
  PROVE  HeldInv'
<1>1. /\ queue # <<>> /\ queue' = Tail(queue) /\ Booking("opened", e)
      /\ reserved' = reserved \ {e} /\ e \in held /\ held' = held \ {e}
      /\ UNCHANGED <<working, seen, opened, shut, closes>>
  BY DEF BookRefused, Booking, Next1
<1>2. /\ \A i \in Nat : \A x : OpenedAt(i, x) => i >= 1
      /\ \A i \in Nat : \A x : OpenedAt(i, x) /\ i # 1 => OpenedAt(i - 1, x)' /\ i - 1 \in Nat
      /\ \A i \in Nat : ClosedAt(i)' => ClosedAt(i + 1) /\ queue'[i] = queue[i + 1] /\ i + 1 \in Nat /\ i # 0
  BY <1>1, HeldTail
<1>3. \A h : OpenedAt(1, h) => h = e
  BY <1>1, OpenedIsNew
<1>4. RowsKept' /\ RowsFresh' /\ RowsSeen' /\ held' \cap working' = {}
      /\ OpenRows' = OpenRows /\ ClosedRows' = ClosedRows
  BY <1>1 DEF HeldInv, RowsKept, RowsFresh, RowsSeen, OpenRows, ClosedRows
<1>5. HeldHasSlot'
  BY <1>1, <1>2, <1>3, <1>4 DEF HeldInv, HeldHasSlot
<1>6. ClosedIsGone'
  <2> SUFFICES ASSUME NEW i \in Nat, ClosedAt(i)'
               PROVE  queue'[i].entry \notin held' \cup working' \cup ClosedRows'
    BY DEF ClosedIsGone
  <2>1. ClosedAt(i + 1) /\ queue'[i] = queue[i + 1] /\ i + 1 \in Nat
    BY <1>2
  <2> QED
    BY <1>1, <1>4, <2>1 DEF HeldInv, ClosedIsGone
<1>7. ClosedOnce'
  BY <1>2 DEF HeldInv, ClosedOnce
<1>8. ClosedHasRow'
  <2> SUFFICES ASSUME NEW i \in Nat, ClosedAt(i)'
               PROVE  \/ queue'[i].entry \in opened'
                      \/ \E j \in Nat : j < i /\ OpenedAt(j, queue[i].entry)'
    BY DEF ClosedHasRow, OpenedAt
  <2>1. ClosedAt(i + 1) /\ queue'[i] = queue[i + 1] /\ i + 1 \in Nat
    BY <1>2
  <2>e. queue[i + 1].entry # e
    BY <1>1, <2>1 DEF HeldInv, ClosedIsGone
  <2>2. CASE queue[i + 1].entry \in opened
    BY <1>1, <2>1, <2>2
  <2>3. ASSUME NEW j \in Nat, j < i + 1, OpenedAt(j, queue[i + 1].entry)
        PROVE  j - 1 \in Nat /\ j - 1 < i /\ OpenedAt(j - 1, queue[i].entry)'
    BY <1>2, <1>3, <2>1, <2>e, <2>3
  <2> QED
    BY <2>1, <2>2, <2>3 DEF HeldInv, ClosedHasRow
<1> QED
  BY <1>4, <1>5, <1>6, <1>7, <1>8 DEF HeldInv

LEMMA HeldOfClosed ==
  ASSUME TypeOK, SlotsInv, HeldInv, NEW e \in Entries, BookClose(e)
  PROVE  HeldInv'
<1>1. /\ queue # <<>> /\ queue' = Tail(queue) /\ Booking("closed", e)
      /\ closes' = closes \cup {ClosedRow}
      /\ UNCHANGED <<working, held, seen, reserved, opened, shut>>
  BY DEF BookClose, Booking, Next1
<1>2. /\ \A i \in Nat : \A x : OpenedAt(i, x) => i >= 1
      /\ \A i \in Nat : \A x : OpenedAt(i, x) /\ i # 1 => OpenedAt(i - 1, x)' /\ i - 1 \in Nat
      /\ \A i \in Nat : ClosedAt(i)' => ClosedAt(i + 1) /\ queue'[i] = queue[i + 1] /\ i + 1 \in Nat /\ i # 0
  BY <1>1, HeldTail
<1>3. /\ ClosedAt(1) /\ queue[1].entry = e /\ e \in opened /\ e \notin held
      /\ ClosedRows' = ClosedRows \cup {e} /\ OpenRows' = OpenRows \ {e}
  <2>1. ClosedAt(1) /\ queue[1].entry = e /\ ClosedRow.entry = e /\ e \in opened
    BY <1>1, ClosedIsOpen
  <2>2. e \notin held
    BY <2>1 DEF HeldInv, ClosedIsGone
  <2> QED
    BY <1>1, <2>1, <2>2 DEF ClosedRows, OpenRows
<1>4. \A x : ~OpenedAt(1, x)
  BY <1>3 DEF OpenedAt, ClosedAt
<1>5. RowsKept' /\ RowsFresh' /\ RowsSeen' /\ held' \cap working' = {}
  BY <1>1, <1>3 DEF HeldInv, RowsKept, RowsFresh, RowsSeen
<1>6. HeldHasSlot'
  BY <1>1, <1>2, <1>3, <1>4 DEF HeldInv, HeldHasSlot
<1>7. ClosedIsGone'
  <2> SUFFICES ASSUME NEW i \in Nat, ClosedAt(i)'
               PROVE  queue'[i].entry \notin held' \cup working' \cup ClosedRows'
    BY DEF ClosedIsGone
  <2>1. ClosedAt(i + 1) /\ queue'[i] = queue[i + 1] /\ i + 1 \in Nat /\ i + 1 # 1 /\ 1 \in Nat
    BY <1>2
  <2>2. queue[i + 1].entry # e
    BY <1>3, <2>1 DEF HeldInv, ClosedOnce
  <2> QED
    BY <1>1, <1>3, <2>1, <2>2 DEF HeldInv, ClosedIsGone
<1>8. ClosedOnce'
  BY <1>2 DEF HeldInv, ClosedOnce
<1>9. ClosedHasRow'
  <2> SUFFICES ASSUME NEW i \in Nat, ClosedAt(i)'
               PROVE  \/ queue'[i].entry \in opened'
                      \/ \E j \in Nat : j < i /\ OpenedAt(j, queue[i].entry)'
    BY DEF ClosedHasRow, OpenedAt
  <2>1. ClosedAt(i + 1) /\ queue'[i] = queue[i + 1] /\ i + 1 \in Nat
    BY <1>2
  <2>2. CASE queue[i + 1].entry \in opened
    BY <1>1, <2>1, <2>2
  <2>3. ASSUME NEW j \in Nat, j < i + 1, OpenedAt(j, queue[i + 1].entry)
        PROVE  j - 1 \in Nat /\ j - 1 < i /\ OpenedAt(j - 1, queue[i].entry)'
    BY <1>2, <1>4, <2>1, <2>3
  <2> QED
    BY <2>1, <2>2, <2>3 DEF HeldInv, ClosedHasRow
<1> QED
  BY <1>5, <1>6, <1>7, <1>8, <1>9 DEF HeldInv

LEMMA StepHeld ==
  ASSUME TypeOK, DownIsEmpty, SlotsInv, HeldInv, [Next]_vars
  PROVE  HeldInv'
<1> USE DEF world, process, database, history
<1>1. CASE Bar
  BY <1>1, HeldSame DEF Bar
<1>2. ASSUME NEW s \in Symbols, NEW t \in Times, Decline(s, t) \/ Latch(s, t)
      PROVE  HeldInv'
  BY <1>2, HeldSame DEF Decline, Latch
<1>3. CASE Crash \/ Stop
  <2>1. /\ working' = {} /\ held' = {} /\ queue' = <<>>
        /\ UNCHANGED <<seen, reserved, opened, shut, closes>>
    BY <1>3 DEF Crash, Stop, MemoryGone
  <2>2. RowsKept' /\ RowsFresh' /\ RowsSeen'
    BY <2>1 DEF HeldInv, RowsKept, RowsFresh, RowsSeen, ClosedRows
  <2> QED
    BY <2>1, <2>2, HeldGone
<1>4. ASSUME NEW e \in Entries, CrashInOpen(e) PROVE HeldInv'
  <2>1. /\ working' = {} /\ held' = {} /\ queue' = <<>> /\ Booking("opened", e)
        /\ reserved' = reserved \ {e} /\ opened' = opened \cup {e}
        /\ shut' \subseteq shut \cup {e} /\ UNCHANGED <<seen, closes>>
    BY <1>4 DEF CrashInOpen, RowWritten, ShutBy, MemoryGone
  <2>2. e \in reserved
    BY <2>1, OpenedIsNew
  <2>3. RowsKept' /\ RowsFresh' /\ RowsSeen'
    BY <2>1, <2>2 DEF HeldInv, RowsKept, RowsFresh, RowsSeen, ClosedRows
  <2> QED
    BY <2>1, <2>3, HeldGone
<1>5. ASSUME NEW e \in Entries, CrashInClose(e) PROVE HeldInv'
  <2>1. /\ working' = {} /\ held' = {} /\ queue' = <<>> /\ Booking("closed", e)
        /\ closes' = closes \cup {ClosedRow} /\ UNCHANGED <<seen, reserved, opened, shut>>
    BY <1>5 DEF CrashInClose, MemoryGone
  <2>2. ClosedRow.entry \in opened
    BY <2>1, ClosedIsOpen
  <2>3. RowsKept' /\ RowsFresh' /\ RowsSeen'
    BY <2>1, <2>2 DEF HeldInv, RowsKept, RowsFresh, RowsSeen, ClosedRows
  <2> QED
    BY <2>1, <2>3, HeldGone
<1>6. CASE Recover
  <2>1. /\ working' = {} /\ queue' = <<>> /\ held' = OpenRows
        /\ UNCHANGED <<seen, reserved, opened, shut, closes>>
    BY <1>6 DEF Recover, DownIsEmpty
  <2>2. RowsKept' /\ RowsFresh' /\ RowsSeen' /\ OpenRows' = OpenRows
    BY <2>1 DEF HeldInv, RowsKept, RowsFresh, RowsSeen, ClosedRows, OpenRows
  <2> QED
    BY <2>1, <2>2, HeldGone
<1>7. CASE CliRead \/ CliWrite
  BY <1>7, HeldSame DEF CliRead, CliWrite
<1>8. CASE UNCHANGED vars
  BY <1>8, HeldSame DEF vars
<1> QED
  BY <1>1, <1>2, <1>3, <1>4, <1>5, <1>6, <1>7, <1>8, HeldOfPlace, HeldOfFill, HeldOfKill,
     HeldOfClose, HeldOfKilled, HeldOfOpened, HeldOfRefused, HeldOfClosed DEF Next

\* The broker's entries and positions have a slot or an open row each.
LEMMA HeldIsExposed ==
  ASSUME SlotsInv, HeldInv
  PROVE  Cardinality(working \cup held) <= Exposure
<1>1. working \cup held \subseteq reserved \cup OpenRows
  BY HeldFacts DEF SlotsInv, WorkingHasSlot
<1>2. IsFiniteSet(reserved) /\ IsFiniteSet(OpenRows)
  BY FS_Subset DEF SlotsInv, OpenRows
<1>3. /\ IsFiniteSet(reserved \cup OpenRows)
      /\ Cardinality(reserved \cup OpenRows)
           = Cardinality(reserved) + Cardinality(OpenRows) - Cardinality(reserved \cap OpenRows)
  BY <1>2, FS_Union
<1>4. IsFiniteSet(reserved \cap OpenRows)
  BY <1>2, FS_Subset
<1>5. /\ Cardinality(reserved) \in Nat /\ Cardinality(OpenRows) \in Nat
      /\ Cardinality(reserved \cap OpenRows) \in Nat
  BY <1>2, <1>4, FS_CardinalityType
<1>6. Cardinality(working \cup held) <= Cardinality(reserved \cup OpenRows)
      /\ Cardinality(working \cup held) \in Nat
  BY <1>1, <1>3, FS_Subset, FS_CardinalityType
<1> QED
  BY <1>3, <1>5, <1>6 DEF Exposure

-----------------------------------------------------------------------------
(* Money *)

\* Room for more slots is room for more loss.
LEMMA RoomGrows ==
  ASSUME NEW a \in Nat, NEW b \in Nat, a <= b, b <= MaxOpen
  PROVE  /\ (DrawDen * MaxLoss) * (MaxOpen - b) <= (DrawDen * MaxLoss) * (MaxOpen - a)
         /\ 0 <= (DrawDen * MaxLoss) * (MaxOpen - b)
         /\ (DrawDen * MaxLoss) * (MaxOpen - b) \in Int
         /\ (DrawDen * MaxLoss) * (MaxOpen - a) \in Int
<1> DEFINE K == DrawDen * MaxLoss
<1>1. K \in Nat /\ MaxOpen \in Nat
  BY ConstantFacts
<1> HIDE DEF K
<1>2. K * (MaxOpen - b) <= K * (MaxOpen - a) /\ 0 <= K * (MaxOpen - b)
      /\ K * (MaxOpen - b) \in Int /\ K * (MaxOpen - a) \in Int
  BY <1>1
<1> QED
  BY <1>2 DEF K

\* The money of a state is what Bounded looks at.
LEMMA BoundedSame ==
  ASSUME NEW r \in Risk, NEW q \in Risk, NEW a \in Nat, NEW b \in Nat, a <= b, b <= MaxOpen,
         Bounded(r, b), q.eq = r.eq, q.peak = r.peak
  PROVE  Bounded(q, a)
<1>1. Overrun(q) = Overrun(r) /\ Overrun(r) \in Int
  BY ConstantFacts DEF Overrun, Risk
<1> QED
  BY <1>1, RoomGrows DEF Bounded

\* A state at its own peak is bounded, and so is one the gates let through.
LEMMA BoundedAtPeak ==
  ASSUME NEW r \in Risk, NEW a \in Nat, a <= MaxOpen, r.peak = r.eq
  PROVE  Bounded(r, a)
<1>1. r.peak \in Int /\ r.peak - r.eq = 0
  BY DEF Risk
<1>2. r.peak > 0 => Overrun(r) < 0 /\ Overrun(r) \in Int
  BY <1>1, ConstantFacts DEF Overrun
<1> QED
  BY <1>1, <1>2, RoomGrows DEF Bounded

LEMMA BoundedByGate ==
  ASSUME NEW r \in Risk, NEW a \in Nat, a <= MaxOpen, ~DrawdownHit(r)
  PROVE  Bounded(r, a)
<1>1. r.peak \in Int /\ r.eq \in Int
  BY DEF Risk
<1>2. r.peak > 0 => Overrun(r) < 0 /\ Overrun(r) \in Int
  BY <1>1, ConstantFacts DEF Overrun, DrawdownHit
<1> QED
  BY <1>1, <1>2, RoomGrows DEF Bounded

\* A result booked costs at most the slot it frees.
LEMMA BoundedByLoss ==
  ASSUME NEW r \in Risk, NEW s \in Symbols, NEW p \in Int, p >= -MaxLoss,
         NEW at \in 0..MaxClock, NEW a \in Nat, a + 1 <= MaxOpen, Bounded(r, a + 1)
  PROVE  Bounded(Applied(r, s, p, at), a)
<1> DEFINE q == Applied(r, s, p, at)
<1>1. q \in Risk /\ q.eq = r.eq + p /\ q.peak = IF r.eq + p > r.peak THEN r.eq + p ELSE r.peak
  BY AppliedFacts
<1>2. r.eq \in Int /\ r.peak \in Int /\ MaxOpen \in Nat
  BY ConstantFacts DEF Risk
<1> HIDE DEF q
<1>3. CASE r.eq + p > r.peak
  BY <1>1, <1>2, <1>3, BoundedAtPeak
     DEF q
<1>4. CASE ~(r.eq + p > r.peak)
  <2> DEFINE K == DrawDen * MaxLoss
  <2>1. q.peak = r.peak
    BY <1>1, <1>4
  <2>2. K \in Nat /\ DrawDen * (-p) <= K /\ DrawDen * (-p) \in Int
    BY ConstantFacts
  <2>3. Overrun(q) = Overrun(r) + DrawDen * (-p) /\ Overrun(r) \in Int
    BY <1>1, <1>2, <2>1, ConstantFacts DEF Overrun
  <2>4. r.peak > 0 => Overrun(r) < K * (MaxOpen - (a + 1))
    BY DEF Bounded
  <2> HIDE DEF K
  <2>5. K * (MaxOpen - a) = K * (MaxOpen - (a + 1)) + K /\ K * (MaxOpen - (a + 1)) \in Int
    BY <1>2, <2>2
  <2>6. r.peak > 0 => Overrun(q) < K * (MaxOpen - a)
    BY <2>2, <2>3, <2>4, <2>5
  <2> QED
    BY <2>1, <2>6 DEF K, Bounded, q
<1> QED
  BY <1>3, <1>4

\* No step but a new entry takes room, and the rest keep the money.
LEMMA MoneySame ==
  ASSUME TypeOK, TypeOK', MoneyInv, Exposure \in Nat, Exposure' \in Nat,
         Exposure' <= Exposure, Exposure <= MaxOpen,
         mem'.eq = mem.eq, mem'.peak = mem.peak,
         mem'.halted = mem.halted \/ mem'.halted,
         mode' = mode, saved' = saved, shut \subseteq shut'
  PROVE  MoneyInv'
<1>1. shut' = {} => Bounded(mem', Exposure') /\ Bounded(saved', Exposure')
  BY BoundedSame DEF TypeOK, MoneyInv
<1>2. SavedTracks'
  BY DEF MoneyInv, SavedTracks, TypeOK, Risk
<1> QED
  BY <1>1, <1>2 DEF MoneyInv, Bounded, Overrun

\* A booking saves the state it leaves in memory.
LEMMA MoneySaved ==
  ASSUME TypeOK', shut' = {} => Bounded(mem', Exposure'), saved' = mem'
  PROVE  MoneyInv'
<1>1. SavedTracks'
  BY DEF SavedTracks, TypeOK, Risk
<1> QED
  BY <1>1 DEF MoneyInv, Bounded, Overrun

LEMMA MoneyGone ==
  ASSUME TypeOK, TypeOK', MoneyInv, MemoryGone, Exposure \in Nat, Exposure' \in Nat,
         Exposure' <= Exposure, Exposure <= MaxOpen, saved' \in {saved, mem},
         shut \subseteq shut'
  PROVE  MoneyInv'
<1>1. mem' = Fresh /\ mode' = "down"
  BY DEF MemoryGone
<1>2. Bounded(mem', Exposure')
  <2>1. Fresh \in Risk /\ Fresh.peak = Fresh.eq /\ Exposure' <= MaxOpen
    BY FreshType, ConstantFacts DEF Fresh
  <2> QED
    BY <1>1, <2>1, BoundedAtPeak
<1>3. shut' = {} => Bounded(saved', Exposure')
  BY BoundedSame DEF TypeOK, MoneyInv
<1> QED
  BY <1>1, <1>2, <1>3 DEF MoneyInv, SavedTracks, Bounded, Overrun

LEMMA ShutGrows ==
  ASSUME [Next]_vars
  PROVE  shut \subseteq shut' /\ (shut' = {} => shut = {})
<1>1. shut \subseteq shut'
  BY DEF Next, vars, world, process, database, history, Bar, Decline, Latch, Place, Fill, Kill,
         Close, Invalidate, ClosedAs, BookKill, BookOpen, BookRefused, BookClose, ShutBy,
         Crash, Stop, CrashInOpen, CrashInClose, MemoryGone, Recover, CliRead, CliWrite
<1> QED
  BY <1>1

\* What the operator works on.
LEMMA StepOperator ==
  ASSUME TypeOK, DownIsEmpty, MoneyInv, OperatorInv, [Next]_vars
  PROVE  OperatorInv'
<1>r. mem \in Risk /\ saved \in Risk /\ mode \in {"down", "up"}
  BY DEF TypeOK
<1> USE DEF world, process, database, history
<1>1. ASSUME NEW s \in Symbols, NEW t \in Times, Decline(s, t) \/ Place(s, t)
      PROVE  OperatorInv'
  <2>1. t \in Nat /\ mem' = Rolled(mem, t) /\ UNCHANGED <<mode, saved, cli>>
    BY <1>1, ConstantFacts DEF Decline, Place, Times
  <2> QED
    BY <1>r, <2>1, RolledFacts DEF OperatorInv
<1>2. ASSUME NEW s \in Symbols, NEW t \in Times, Latch(s, t) PROVE OperatorInv'
  <2>1. t \in Nat /\ mem' = [Rolled(mem, t) EXCEPT !.halted = TRUE]
        /\ UNCHANGED <<mode, saved, cli>>
    BY <1>2, ConstantFacts DEF Latch, Times
  <2>2. Rolled(mem, t) \in Risk
    BY <1>r, <2>1, RolledFacts
  <2>3. mem'.halted
    BY <2>1, <2>2 DEF Risk
  <2> QED
    BY <2>1, <2>3 DEF OperatorInv
<1>3. ASSUME NEW e \in Entries, BookOpen(e) PROVE OperatorInv'
  <2>1. /\ mem' = Counted(mem) /\ saved' = Counted(mem) /\ mode = "up"
        /\ UNCHANGED <<mode, cli>>
    BY <1>3, <1>r DEF BookOpen, RowWritten, Booking, DownIsEmpty
  <2> QED
    BY <1>r, <2>1, CountedFacts DEF OperatorInv
<1>4. ASSUME NEW e \in Entries, BookClose(e) PROVE OperatorInv'
  <2>1. /\ mem' = AfterClose(mem) /\ saved' = AfterClose(mem) /\ mode = "up" /\ queue # <<>>
        /\ UNCHANGED <<mode, cli>>
    BY <1>4, <1>r DEF BookClose, Booking, DownIsEmpty
  <2>2. AfterClose(mem).halted = mem.halted
    BY <1>r, <2>1, HeadType, EventFields, AppliedFacts DEF AfterClose
  <2> QED
    BY <2>1, <2>2 DEF OperatorInv
<1>5. ASSUME NEW e \in Entries,
             \/ Fill(e) \/ Kill(e) \/ BookKill(e) \/ BookRefused(e)
             \/ \E p \in Results : Close(e, p) \/ \E t \in Times : Invalidate(e, p, t)
      PROVE  OperatorInv'
  BY <1>5 DEF Fill, Kill, BookKill, BookRefused, Close, Invalidate, ClosedAs, OperatorInv
<1>6. CASE Bar
  BY <1>6 DEF Bar, OperatorInv
<1>7. CASE Crash
  BY <1>7 DEF Crash, MemoryGone, OperatorInv
<1>8. CASE Stop
  BY <1>8 DEF Stop, MemoryGone, OperatorInv
<1>9. ASSUME NEW e \in Entries, CrashInOpen(e) \/ CrashInClose(e) PROVE OperatorInv'
  BY <1>9 DEF CrashInOpen, CrashInClose, MemoryGone, OperatorInv
<1>10. CASE Recover
  BY <1>10 DEF Recover, OperatorInv
<1>11. CASE CliRead
  BY <1>11, <1>r DEF CliRead, OperatorInv, MoneyInv, SavedTracks
<1>12. CASE CliWrite
  BY <1>12 DEF CliWrite, OperatorInv
<1>13. CASE UNCHANGED vars
  BY <1>13 DEF vars, OperatorInv
<1> QED
  BY <1>1, <1>2, <1>3, <1>4, <1>5, <1>6, <1>7, <1>8, <1>9, <1>10, <1>11, <1>12, <1>13 DEF Next

LEMMA StepMoney ==
  ASSUME TypeOK, TypeOK', SlotsInv, SlotsInv', HeldInv, MoneyInv, OperatorInv, [Next]_vars
  PROVE  MoneyInv'
<1>0. Exposure \in Nat /\ Exposure' \in Nat /\ Exposure <= MaxOpen /\ Exposure' <= MaxOpen
  <2>1. IsFiniteSet(OpenRows') /\ IsFiniteSet(reserved')
    BY FS_Subset DEF SlotsInv, OpenRows
  <2>2. Exposure' \in Nat
    BY <2>1, FS_CardinalityType DEF Exposure
  <2> QED
    BY <2>2, ExposureIsNat DEF SlotsInv
<1>r. mem \in Risk /\ saved \in Risk /\ mem' \in Risk /\ saved' \in Risk
  BY DEF TypeOK
<1> USE DEF world, process, database, history
<1>s. shut \subseteq shut' /\ (shut' = {} => shut = {})
  BY ShutGrows
<1>1. CASE Bar
  BY <1>0, <1>1, <1>s, SlotsSame, MoneySame DEF Bar
<1>2. ASSUME NEW s \in Symbols, NEW t \in Times, Decline(s, t) PROVE MoneyInv'
  <2>1. t \in Nat
    BY ConstantFacts DEF Times
  <2>2. Exposure' = Exposure
    BY <1>2 DEF Decline, Exposure, OpenRows
  <2> QED
    BY <1>0, <1>s, <1>r, <1>2, <2>1, <2>2, RolledFacts, MoneySame DEF Decline
<1>3. ASSUME NEW s \in Symbols, NEW t \in Times, Latch(s, t) PROVE MoneyInv'
  <2>1. t \in Nat
    BY ConstantFacts DEF Times
  <2>2. Exposure' = Exposure
    BY <1>3 DEF Latch, Exposure, OpenRows
  <2>3. mem' = [Rolled(mem, t) EXCEPT !.halted = TRUE] /\ Rolled(mem, t) \in Risk
    BY <1>3, <1>r, <2>1, RolledFacts DEF Latch
  <2>4. /\ mem'.eq = Rolled(mem, t).eq /\ mem'.peak = Rolled(mem, t).peak
        /\ mem'.halted
    BY <2>3 DEF Risk
  <2>5. saved' = saved /\ mode' = mode
    BY <1>3 DEF Latch
  <2> QED
    BY <1>0, <1>s, <1>r, <2>1, <2>2, <2>4, <2>5, RolledFacts, MoneySame
<1>4. ASSUME NEW s \in Symbols, NEW t \in Times, Place(s, t) PROVE MoneyInv'
  <2>1. t \in Nat /\ mode = "up"
    BY <1>4, ConstantFacts DEF Place, Considered, Times
  <2>2. /\ mem' = Rolled(mem, t) /\ ~DrawdownHit(mem') /\ ~mem'.halted
        /\ saved' = saved /\ mode' = mode
    BY <1>4 DEF Place, Allows, ReachesDrawdown
  <2>3. /\ mem'.eq = mem.eq /\ mem'.peak = mem.peak /\ mem'.halted = mem.halted
    BY <1>r, <2>1, <2>2, RolledFacts
  <2>4. saved.peak = mem.peak /\ saved.eq = mem.eq
    BY <2>1, <2>2, <2>3 DEF MoneyInv, SavedTracks
  <2>5. ~DrawdownHit(saved')
    BY <2>2, <2>3, <2>4 DEF DrawdownHit
  <2>6. Bounded(mem', Exposure') /\ Bounded(saved', Exposure')
    BY <1>0, <1>r, <2>2, <2>5, BoundedByGate
  <2>7. SavedTracks'
    BY <2>2, <2>3 DEF MoneyInv, SavedTracks
  <2> QED
    BY <2>6, <2>7 DEF MoneyInv, Bounded, Overrun
<1>5. ASSUME NEW e \in Entries,
             \/ Fill(e) \/ Kill(e)
             \/ \E p \in Results : Close(e, p) \/ \E t \in Times : Invalidate(e, p, t)
      PROVE  MoneyInv'
  <2>1. UNCHANGED <<mem, mode, saved, shut, reserved, opened, closes>>
    BY <1>5 DEF Fill, Kill, Close, Invalidate, ClosedAs
  <2>2. Exposure' = Exposure
    BY <2>1 DEF Exposure, OpenRows
  <2> QED
    BY <1>0, <1>s, <2>1, <2>2, MoneySame
<1>6. ASSUME NEW e \in Entries, BookKill(e) \/ BookRefused(e)
      PROVE  MoneyInv'
  <2>1. Exposure' <= Exposure
    BY <1>6, SlotsGivenBack, SlotsOfRows
       DEF BookKill, BookRefused, Booking, Next1, Pending
  <2> QED
    BY <1>0, <1>s, <1>6, <2>1, MoneySame DEF BookKill, BookRefused
<1>7. ASSUME NEW e \in Entries, BookOpen(e) PROVE MoneyInv'
  <2>1. Exposure' <= Exposure
    BY <1>7, SlotsGivenBack DEF BookOpen, RowWritten, ShutBy, Booking, Next1, Pending
  <2>2. saved' = mem' /\ mem' = Counted(mem)
    BY <1>7 DEF BookOpen
  <2>3. shut' = {} => Bounded(mem', Exposure')
    BY <1>0, <1>r, <1>s, <2>1, <2>2, CountedFacts, BoundedSame DEF MoneyInv
  <2> QED
    BY <2>2, <2>3, MoneySaved
<1>8. ASSUME NEW e \in Entries, BookClose(e) PROVE MoneyInv'
  <2>1. /\ saved' = mem' /\ mem' = AfterClose(mem) /\ closes' = closes \cup {ClosedRow}
        /\ queue # <<>> /\ opened' = opened /\ shut' = shut /\ reserved' = reserved
    BY <1>8 DEF BookClose, Booking
  <2>2. shut = {} => ClosedRow.entry \in OpenRows
    BY <1>8, ClosedIsOpen DEF BookClose
  <2>3. shut = {} => Exposure = Exposure' + 1
    <3>1. Cardinality(OpenRows') =
            IF ClosedRow.entry \in OpenRows THEN Cardinality(OpenRows) - 1
            ELSE Cardinality(OpenRows)
      BY <2>1, RowClosed DEF SlotsInv
    <3> QED
      BY <1>0, <2>1, <2>2, <3>1, ExposureIsNat DEF Exposure, SlotsInv
  <2>4. Head(queue) \in Event
    BY <2>1, HeadType
  <2>5. ASSUME shut' = {} PROVE Bounded(mem', Exposure')
    <3> DEFINE s == Head(queue).entry[1]
               p == Head(queue).pnl
               at == Head(queue).at
    <3>1. s \in Symbols /\ p \in Int /\ p >= -MaxLoss /\ at \in 0..MaxClock
      BY <2>4, EventFields
    <3>2. mem' = Applied(mem, s, p, at)
      BY <2>1 DEF AfterClose
    <3>3. Bounded(mem, Exposure' + 1) /\ Exposure' + 1 <= MaxOpen
      BY <1>0, <2>1, <2>3, <2>5 DEF MoneyInv
    <3> HIDE DEF s, p, at
    <3> QED
      BY <1>0, <1>r, <3>1, <3>2, <3>3, BoundedByLoss
  <2> QED
    BY <2>1, <2>5, MoneySaved
<1>9. CASE Crash
  BY <1>0, <1>s, <1>9, SlotsOfRows, MoneyGone DEF Crash, MemoryGone
<1>10. CASE Stop
  BY <1>0, <1>s, <1>10, SlotsOfRows, MoneyGone DEF Stop, MemoryGone
<1>11. ASSUME NEW e \in Entries, CrashInOpen(e) PROVE MoneyInv'
  <2>1. Exposure' <= Exposure
    BY <1>11, SlotsGivenBack DEF CrashInOpen, RowWritten, ShutBy, Booking, MemoryGone, Pending
  <2> QED
    BY <1>0, <1>s, <1>11, <2>1, MoneyGone DEF CrashInOpen
<1>12. ASSUME NEW e \in Entries, CrashInClose(e) PROVE MoneyInv'
  <2>1. Exposure' <= Exposure
    BY <1>12, SlotsOfRows DEF CrashInClose, Booking, MemoryGone, ClosedRow
  <2> QED
    BY <1>0, <1>s, <1>12, <2>1, MoneyGone DEF CrashInClose
<1>13. CASE Recover
  <2>1. mem' = saved /\ saved' = saved /\ Exposure' = Exposure /\ shut' = shut
    BY <1>13 DEF Recover, Exposure, OpenRows
  <2>2. shut' = {} => Bounded(mem', Exposure')
    BY <2>1 DEF MoneyInv
  <2> QED
    BY <2>1, <2>2, MoneySaved
<1>14. CASE CliRead
  <2>1. UNCHANGED <<mem, mode, saved, shut>> /\ Exposure' = Exposure
    BY <1>14 DEF CliRead, Exposure, OpenRows
  <2> QED
    BY <1>0, <1>s, <2>1, MoneySame
<1>16. CASE CliWrite
  <2>1. PICK read \in cli : saved' = Resumed(read.state)
    BY <1>16 DEF CliWrite
  <2>2. /\ read.state \in Risk /\ mem' = mem /\ mode' = mode /\ shut' = shut
        /\ Exposure' = Exposure /\ (mode = "up" => mem.halted)
    BY <1>16 DEF CliWrite, OperatorInv, TypeOK, Exposure, OpenRows
  <2>3. saved'.peak = saved'.eq
    BY <2>1, <2>2, ResumedFacts
  <2>4. shut' = {} => Bounded(mem', Exposure') /\ Bounded(saved', Exposure')
    BY <1>0, <1>r, <2>2, <2>3, BoundedAtPeak DEF MoneyInv
  <2>5. SavedTracks'
    BY <2>2 DEF SavedTracks
  <2> QED
    BY <2>4, <2>5 DEF MoneyInv, Bounded, Overrun
<1>15. CASE UNCHANGED vars
  <2>1. Exposure' = Exposure
    BY <1>15 DEF vars, Exposure, OpenRows
  <2> QED
    BY <1>0, <1>s, <1>15, <2>1, MoneySame DEF vars
<1> QED
  BY <1>1, <1>2, <1>3, <1>4, <1>5, <1>6, <1>7, <1>8, <1>9, <1>10, <1>11, <1>12,
     <1>13, <1>14, <1>15, <1>16 DEF Next

-----------------------------------------------------------------------------
(* Losses *)

\* Fewer rows, and a state that knows of the same last loss.
LEMMA RemembersSame ==
  ASSUME NEW r, NEW q, NEW C, NEW D, D \subseteq C, Remembers(r, C), q.lastLoss = r.lastLoss
  PROVE  Remembers(q, D)
  BY DEF Remembers

\* Fewer rows are to be remembered, by states that know of the same last loss.
LEMMA KeptSame ==
  ASSUME LossesKept, closes' \ unsaved' \subseteq closes \ unsaved,
         unsaved \subseteq unsaved', cli' = cli,
         saved'.lastLoss = saved.lastLoss,
         mode' = "up" => mode = "up" /\ mem'.lastLoss = mem.lastLoss
  PROVE  LossesKept'
<1>1. Remembers(saved', closes' \ unsaved')
  BY RemembersSame DEF LossesKept
<1>2. mode' = "up" => Remembers(mem', closes' \ unsaved')
  BY RemembersSame DEF LossesKept
<1>3. ASSUME NEW read \in cli'
      PROVE  Remembers(read.state, read.rows \ unsaved')
  <2>1. read \in cli /\ read.rows \ unsaved' \subseteq read.rows \ unsaved
    BY <1>3
  <2> QED
    BY <2>1, RemembersSame DEF LossesKept
<1> QED
  BY <1>1, <1>2, <1>3 DEF LossesKept, Remembers

\* Whatever the losing rows are now, the state in memory and the saved one know
\* of them alike.
LEMMA KeptSaved ==
  ASSUME LossesKept, unsaved' = unsaved, cli' = cli,
         Remembers(saved', closes' \ unsaved'),
         mode' = "up" => mem'.lastLoss = saved'.lastLoss
  PROVE  LossesKept'
<1>1. mode' = "up" => Remembers(mem', closes' \ unsaved')
  BY RemembersSame
<1> QED
  BY <1>1 DEF LossesKept, Remembers

\* The times that are compared.
LEMMA LossTimes ==
  ASSUME TypeOK
  PROVE  /\ clock \in Nat /\ 1 <= clock /\ MaxLag \in Nat
         /\ mem.lastLoss \in Nat /\ saved.lastLoss \in Nat
         /\ \A c \in closes : c.at \in Nat
         /\ \A i \in DOMAIN queue : queue[i] \in Event /\ queue[i].at \in Nat
<1>1. clock \in Nat /\ 1 <= clock /\ MaxLag \in Nat
  BY ConstantFacts DEF TypeOK, Times
<1>2. \A r \in Risk : r.lastLoss \in Nat
  BY ConstantFacts DEF Risk
<1>3. \A c \in Row : c.at \in Nat
  BY ConstantFacts DEF Row
<1>4. \A i \in DOMAIN queue : queue[i] \in Event
  BY DEF TypeOK
<1>5. \A i \in DOMAIN queue : queue[i].at \in Nat
  BY <1>4, EventFields, ConstantFacts
<1> QED
  BY <1>1, <1>2, <1>3, <1>4, <1>5 DEF TypeOK

\* No row closes, and the queue stays or is emptied.
LEMMA QueueSame ==
  ASSUME TypeOK, QueueOfLosses, closes' = closes, clock' \in Nat, clock <= clock',
         queue' = queue \/ queue' = <<>>
  PROVE  QueueOfLosses'
<1>1. \A c \in closes' : c.at <= clock'
  BY LossTimes DEF QueueOfLosses
<1>2. CASE queue' = <<>>
  BY <1>1, <1>2 DEF QueueOfLosses
<1>3. CASE queue' = queue
  <2>1. \A i \in DOMAIN queue : queue[i].kind = "closed" => queue[i].at <= clock'
    BY LossTimes DEF QueueOfLosses
  <2> QED
    BY <1>1, <1>3, <2>1 DEF QueueOfLosses
<1> QED
  BY <1>2, <1>3

\* An event joins the queue.
LEMMA QueueAppended ==
  ASSUME TypeOK, QueueOfLosses, NEW ev \in Event, queue' = Append(queue, ev),
         closes' = closes, clock' = clock,
         ev.kind = "closed" => 1 <= ev.at /\ clock - MaxLag <= ev.at /\ ev.at <= clock
  PROVE  QueueOfLosses'
<1>1. \A i \in DOMAIN queue' :
        \/ i \in DOMAIN queue /\ i \in Nat /\ i <= Len(queue) /\ queue'[i] = queue[i]
        \/ i = Len(queue) + 1 /\ queue'[i] = ev
  BY AppendFacts DEF TypeOK
<1>2. Len(queue) \in Nat /\ ev.at \in Nat
  <2>1. ev.at \in Nat
    BY EventFields, ConstantFacts
  <2> QED
    BY <2>1 DEF TypeOK
<1>3. ASSUME NEW i \in DOMAIN queue', queue'[i].kind = "closed"
      PROVE  /\ 1 <= queue'[i].at /\ queue'[i].at <= clock
             /\ \A c \in closes : c.at - MaxLag <= queue'[i].at
  <2>1. CASE i \in DOMAIN queue /\ queue'[i] = queue[i]
    BY <1>3, <2>1 DEF QueueOfLosses
  <2>2. CASE queue'[i] = ev
    <3>1. \A c \in closes : c.at - MaxLag <= ev.at
      BY <1>2, <1>3, <2>2, LossTimes DEF QueueOfLosses
    <3> QED
      BY <1>3, <2>2, <3>1
  <2> QED
    BY <1>1, <2>1, <2>2
<1>4. ASSUME NEW i \in DOMAIN queue', NEW j \in DOMAIN queue',
             j < i, queue'[i].kind = "closed", queue'[j].kind = "closed"
      PROVE  queue'[j].at - MaxLag <= queue'[i].at
  <2>1. j \in DOMAIN queue /\ queue'[j] = queue[j]
    BY <1>1, <1>2, <1>4
  <2>2. CASE i \in DOMAIN queue /\ queue'[i] = queue[i]
    BY <1>4, <2>1, <2>2 DEF QueueOfLosses
  <2>3. CASE queue'[i] = ev
    <3>1. queue[j].at <= clock /\ queue[j].at \in Nat
      BY <1>4, <2>1, LossTimes DEF QueueOfLosses
    <3> QED
      BY <1>2, <1>4, <2>1, <2>3, <3>1, LossTimes
  <2> QED
    BY <1>1, <2>2, <2>3
<1> QED
  BY <1>3, <1>4 DEF QueueOfLosses

\* The head of the queue is booked, and closes a row if it is a close.
LEMMA QueueBooked ==
  ASSUME TypeOK, QueueOfLosses, queue # <<>>, queue' = Tail(queue), clock' = clock,
         \/ closes' = closes
         \/ Head(queue).kind = "closed" /\ closes' = closes \cup {ClosedRow}
  PROVE  QueueOfLosses'
<1>1. /\ Head(queue) = queue[1] /\ 1 \in DOMAIN queue
      /\ \A i \in DOMAIN queue' :
           i \in Nat /\ i >= 1 /\ i + 1 \in DOMAIN queue /\ queue'[i] = queue[i + 1]
  BY TailFacts DEF TypeOK
<1>2. \A c \in closes' : c \in closes \/ (Head(queue).kind = "closed" /\ c.at = queue[1].at)
  BY <1>1 DEF ClosedRow
<1>3. \A c \in closes' : c.at <= clock
  BY <1>1, <1>2 DEF QueueOfLosses
<1>4. ASSUME NEW i \in DOMAIN queue', queue'[i].kind = "closed"
      PROVE  /\ 1 <= queue'[i].at /\ queue'[i].at <= clock
             /\ \A c \in closes' : c.at - MaxLag <= queue'[i].at
             /\ \A j \in DOMAIN queue' :
                  j < i /\ queue'[j].kind = "closed" => queue'[j].at - MaxLag <= queue'[i].at
  <2>1. i + 1 \in DOMAIN queue /\ 1 < i + 1 /\ queue'[i] = queue[i + 1]
    BY <1>1
  <2>2. \A c \in closes' : c.at - MaxLag <= queue'[i].at
    BY <1>1, <1>2, <1>4, <2>1 DEF QueueOfLosses
  <2>3. ASSUME NEW j \in DOMAIN queue', j < i, queue'[j].kind = "closed"
        PROVE  queue'[j].at - MaxLag <= queue'[i].at
    <3>1. j + 1 \in DOMAIN queue /\ j + 1 < i + 1 /\ queue'[j] = queue[j + 1]
      BY <1>1, <2>3
    <3> QED
      BY <1>4, <2>1, <2>3, <3>1 DEF QueueOfLosses
  <2> QED
    BY <1>4, <2>1, <2>2, <2>3 DEF QueueOfLosses
<1> QED
  BY <1>3, <1>4 DEF QueueOfLosses

\* The row that a close leaves.
LEMMA HeadOfLosses ==
  ASSUME TypeOK, QueueOfLosses, queue # <<>>, Head(queue).kind = "closed"
  PROVE  /\ Head(queue) \in Event /\ 1 <= Head(queue).at /\ Head(queue).at <= clock
         /\ \A c \in closes : c.at - MaxLag <= Head(queue).at
<1>1. Head(queue) = queue[1] /\ 1 \in DOMAIN queue /\ Head(queue) \in Event
  BY TailFacts DEF TypeOK
<1> QED
  BY <1>1 DEF QueueOfLosses

LEMMA StepLosses ==
  ASSUME TypeOK, TypeOK', DownIsEmpty, LossesInv, [Next]_vars
  PROVE  LossesInv'
<1>r. mem \in Risk /\ saved \in Risk /\ mode \in {"down", "up"}
  BY DEF TypeOK
<1>t. clock \in Nat /\ 1 <= clock /\ clock' \in Nat /\ MaxLag \in Nat
  BY ConstantFacts DEF TypeOK, Times
<1>k. LossesKept /\ QueueOfLosses
  BY DEF LossesInv
<1> USE DEF world, process, database, history
<1>1. CASE Bar
  BY <1>k, <1>t, <1>1, KeptSame, QueueSame DEF Bar, LossesInv
<1>2. ASSUME NEW s \in Symbols, NEW t \in Times, Decline(s, t) \/ Latch(s, t) \/ Place(s, t)
      PROVE  LossesInv'
  <2>1. t \in Nat /\ Rolled(mem, t) \in Risk /\ Rolled(mem, t).lastLoss = mem.lastLoss
    BY <1>r, RolledFacts, ConstantFacts DEF Times
  <2>2. mem' \in {Rolled(mem, t), [Rolled(mem, t) EXCEPT !.halted = TRUE]}
    BY <1>2 DEF Decline, Latch, Place
  <2>3. mem'.lastLoss = mem.lastLoss
    BY <2>1, <2>2 DEF Risk
  <2>4. UNCHANGED <<world, mode, queue, saved, closes, unsaved>>
    BY <1>2 DEF Decline, Latch, Place
  <2> QED
    BY <1>k, <1>t, <2>3, <2>4, KeptSame, QueueSame DEF LossesInv
<1>3. ASSUME NEW e \in Entries,
             \/ Fill(e) \/ Kill(e)
             \/ \E p \in Results : Close(e, p) \/ \E t \in Times : Invalidate(e, p, t)
      PROVE  LossesInv'
  <2>1. PICK ev \in Event :
          /\ queue' = Append(queue, ev)
          /\ ev.kind = "closed" => 1 <= ev.at /\ clock - MaxLag <= ev.at /\ ev.at <= clock
    <3>1. CASE Fill(e)
      <4>1. Ev("opened", e) \in Event /\ Ev("opened", e).kind # "closed"
        BY EvType DEF Ev
      <4> QED
        BY <3>1, <4>1 DEF Fill
    <3>2. CASE Kill(e)
      <4>1. Ev("killed", e) \in Event /\ Ev("killed", e).kind # "closed"
        BY EvType DEF Ev
      <4> QED
        BY <3>2, <4>1 DEF Kill
    <3>3. ASSUME NEW p \in Results, Close(e, p) \/ \E t \in Times : Invalidate(e, p, t)
          PROVE  \E ev \in Event :
                   /\ queue' = Append(queue, ev)
                   /\ ev.kind = "closed" => 1 <= ev.at /\ clock - MaxLag <= ev.at /\ ev.at <= clock
      <4>1. PICK at \in Times : clock - MaxLag <= at /\ at <= clock /\ ClosedAs(e, p, at)
        BY <3>3, CloseCases
      <4>2. Closed(e, p, at) \in Event /\ Closed(e, p, at).at = at /\ 1 <= at
        BY ClosedType, ConstantFacts DEF Times
      <4> QED
        BY <4>1, <4>2 DEF ClosedAs
    <3> QED
      BY <1>3, <3>1, <3>2, <3>3
  <2>2. UNCHANGED <<world, mode, mem, saved, closes, unsaved>>
    BY <1>3 DEF Fill, Kill, Close, Invalidate, ClosedAs
  <2> QED
    BY <1>k, <2>1, <2>2, KeptSame, QueueAppended DEF LossesInv
<1>4. ASSUME NEW e \in Entries, BookKill(e) \/ BookRefused(e)
      PROVE  LossesInv'
  <2>1. /\ queue # <<>> /\ queue' = Tail(queue)
        /\ UNCHANGED <<world, mode, mem, saved, closes, unsaved>>
    BY <1>4 DEF BookKill, BookRefused, Booking, Next1
  <2> QED
    BY <1>k, <2>1, KeptSame, QueueBooked DEF LossesInv
<1>5. ASSUME NEW e \in Entries, BookOpen(e) PROVE LossesInv'
  <2>1. /\ queue # <<>> /\ queue' = Tail(queue) /\ saved' = mem' /\ mem' = Counted(mem)
        /\ UNCHANGED <<world, mode, closes, unsaved>> /\ mode = "up"
    BY <1>5, <1>r DEF BookOpen, RowWritten, Booking, Next1, DownIsEmpty
  <2>2. Remembers(saved', closes' \ unsaved')
    <3>1. saved'.lastLoss = mem.lastLoss /\ closes' \ unsaved' = closes \ unsaved
      BY <1>r, <2>1, CountedFacts
    <3> QED
      BY <1>k, <2>1, <3>1, RemembersSame DEF LossesKept
  <2> QED
    BY <1>k, <2>1, <2>2, KeptSaved, QueueBooked DEF LossesInv
<1>6. ASSUME NEW e \in Entries, BookClose(e) PROVE LossesInv'
  <2>1. /\ queue # <<>> /\ queue' = Tail(queue) /\ saved' = mem' /\ mem' = AfterClose(mem)
        /\ UNCHANGED <<world, mode, unsaved>> /\ closes' = closes \cup {ClosedRow}
        /\ mode = "up" /\ Head(queue).kind = "closed"
    BY <1>6, <1>r DEF BookClose, Booking, Next1, DownIsEmpty
  <2>2. /\ Head(queue) \in Event /\ 1 <= Head(queue).at
        /\ \A c \in closes : c.at - MaxLag <= Head(queue).at
    BY <1>k, <2>1, HeadOfLosses
  <2>3. /\ Head(queue).entry[1] \in Symbols /\ Head(queue).pnl \in Int
        /\ Head(queue).at \in 0..MaxClock
    BY <2>2, EventFields
  <2>4. saved'.lastLoss = IF Head(queue).pnl < 0 THEN Head(queue).at ELSE mem.lastLoss
    BY <1>r, <2>1, <2>3, AppliedFacts DEF AfterClose
  <2>5. ASSUME NEW c \in closes' \ unsaved', c.pnl < 0
        PROVE  1 <= saved'.lastLoss /\ c.at - MaxLag <= saved'.lastLoss
    <3>1. CASE Head(queue).pnl < 0 /\ c \in closes
      BY <2>2, <2>4, <3>1
    <3>2. CASE c = ClosedRow
      <4>1. c.pnl = Head(queue).pnl /\ c.at = Head(queue).at /\ c.at \in Nat
        BY <2>3, <3>2, ConstantFacts DEF ClosedRow
      <4> QED
        BY <1>t, <2>2, <2>4, <2>5, <4>1
    <3>3. CASE ~(Head(queue).pnl < 0) /\ c \in closes
      <4>1. Remembers(mem, closes \ unsaved) /\ c \in closes \ unsaved
        BY <1>k, <2>1, <2>5, <3>3 DEF LossesKept
      <4> QED
        BY <2>4, <2>5, <3>3, <4>1 DEF Remembers
    <3> QED
      BY <2>1, <3>1, <3>2, <3>3
  <2>6. Remembers(saved', closes' \ unsaved')
    BY <2>5 DEF Remembers
  <2> QED
    BY <1>k, <2>1, <2>6, KeptSaved, QueueBooked DEF LossesInv
<1>7. CASE Crash
  BY <1>k, <1>t, <1>7, KeptSame, QueueSame DEF Crash, MemoryGone, LossesInv
<1>8. CASE Stop
  <2>1. /\ mode = "up" /\ mode' = "down" /\ saved' = mem /\ queue' = <<>>
        /\ UNCHANGED <<world, closes, unsaved>>
    BY <1>8 DEF Stop, MemoryGone
  <2>2. Remembers(saved', closes' \ unsaved')
    BY <1>k, <2>1 DEF LossesKept
  <2> QED
    BY <1>k, <1>t, <2>1, <2>2, KeptSaved, QueueSame DEF LossesInv
<1>9. ASSUME NEW e \in Entries, CrashInOpen(e) PROVE LossesInv'
  BY <1>k, <1>t, <1>9, KeptSame, QueueSame DEF CrashInOpen, MemoryGone, LossesInv
<1>10. ASSUME NEW e \in Entries, CrashInClose(e) PROVE LossesInv'
  <2>1. /\ mode' = "down" /\ queue' = <<>> /\ queue # <<>> /\ Head(queue).kind = "closed"
        /\ closes' = closes \cup {ClosedRow} /\ unsaved' = unsaved \cup {ClosedRow}
        /\ UNCHANGED <<world, saved>>
    BY <1>10 DEF CrashInClose, Booking, MemoryGone
  <2>2. LossesKept'
    BY <1>k, <2>1, KeptSame
  <2>3. \A c \in closes' : c.at <= clock'
    BY <1>k, <2>1, HeadOfLosses DEF QueueOfLosses, ClosedRow
  <2> QED
    BY <2>1, <2>2, <2>3 DEF LossesInv, QueueOfLosses
<1>11. CASE Recover
  <2>1. mem' = saved /\ saved' = saved /\ UNCHANGED <<world, queue, closes, unsaved>>
    BY <1>11 DEF Recover
  <2>2. Remembers(saved', closes' \ unsaved')
    BY <1>k, <2>1 DEF LossesKept
  <2> QED
    BY <1>k, <1>t, <2>1, <2>2, KeptSaved, QueueSame DEF LossesInv
<1>12. CASE CliRead
  <2>1. /\ cli' = {[state |-> saved, rows |-> closes]}
        /\ UNCHANGED <<clock, mode, mem, saved, queue, closes, unsaved>>
    BY <1>12 DEF CliRead
  <2>2. LossesKept'
    BY <1>k, <2>1 DEF LossesKept, Remembers
  <2> QED
    BY <1>k, <1>t, <2>1, <2>2, QueueSame DEF LossesInv
<1>13. CASE CliWrite
  <2>1. PICK read \in cli :
          /\ saved' = Resumed(read.state) /\ cli' = {}
          /\ unsaved' = unsaved \cup (closes \ read.rows)
          /\ UNCHANGED <<clock, mode, mem, queue, closes>>
    BY <1>13 DEF CliWrite
  <2>2. saved'.lastLoss = read.state.lastLoss
    BY <2>1, ResumedFacts DEF TypeOK
  <2>3. Remembers(read.state, read.rows \ unsaved)
    BY <1>k DEF LossesKept
  <2>4. closes' \ unsaved' \subseteq read.rows \ unsaved
    BY <2>1
  <2>5. Remembers(saved', closes' \ unsaved')
    BY <2>2, <2>3, <2>4, RemembersSame
  <2>6. mode' = "up" => Remembers(mem', closes' \ unsaved')
    <3>1. closes' \ unsaved' \subseteq closes \ unsaved
      BY <2>1
    <3> QED
      BY <1>k, <2>1, <3>1, RemembersSame DEF LossesKept
  <2>7. LossesKept'
    BY <2>1, <2>5, <2>6 DEF LossesKept, Remembers
  <2> QED
    BY <1>k, <1>t, <2>1, <2>7, QueueSame DEF LossesInv
<1>14. CASE UNCHANGED vars
  BY <1>k, <1>t, <1>14, KeptSame, QueueSame DEF vars, LossesInv
<1> QED
  BY <1>1, <1>2, <1>3, <1>4, <1>5, <1>6, <1>7, <1>8, <1>9, <1>10, <1>11, <1>12, <1>13,
     <1>14 DEF Next

\* The gate knows of every losing row, less what a bar can be late.
LEMMA PlaceIsRested ==
  ASSUME TypeOK, LossesInv, NEW s \in Symbols, NEW t \in Times, Place(s, t),
         NEW c \in Losing \ unsaved
  PROVE  t - c.at >= AfterLoss - MaxLag
<1>1. /\ t \in Nat /\ mode = "up" /\ mem \in Risk /\ AfterLoss \in Nat /\ MaxLag \in Nat
      /\ mem.lastLoss \in Nat /\ c.at \in Nat
  BY LossTimes, ConstantFacts DEF Place, Considered, Times, TypeOK, Losing
<1>2. 1 <= mem.lastLoss /\ c.at - MaxLag <= mem.lastLoss
  BY <1>1 DEF LossesInv, LossesKept, Remembers, Losing
<1>3. Elapsed(t, mem.lastLoss, AfterLoss)
  BY <1>1, RolledFacts DEF Place, Allows
<1> QED
  BY <1>1, <1>2, <1>3 DEF Elapsed

-----------------------------------------------------------------------------
(* The halt *)

\* A halted state stays halted, and the drawdown of a bot with nothing open stays.
LEMMA HaltSame ==
  ASSUME HaltInv, latched' = latched, torn' = torn, restarts' = restarts, mode' = mode,
         saved' = saved, OpenRows' = OpenRows,
         mem.halted => mem'.halted,
         \/ mem'.eq = mem.eq /\ mem'.peak = mem.peak
            /\ held' = held /\ working' = working /\ queue' = queue
         \/ held # {} \/ working # {} \/ queue # <<>>
  PROVE  HaltInv'
  BY DEF HaltInv, Flat, DrawdownHit

\* A booking saves what is in memory.
LEMMA HaltBooked ==
  ASSUME HaltInv, DownIsEmpty, queue # <<>>, mode \in {"down", "up"},
         latched' = latched, torn' = torn, restarts' = restarts, mode' = mode,
         saved' = mem', mem.halted => mem'.halted
  PROVE  HaltInv'
  BY DEF HaltInv, Flat, DownIsEmpty

LEMMA HaltGone ==
  ASSUME TypeOK, HaltInv, MemoryGone, saved' \in {saved, mem},
         torn' = torn, OpenRows' = OpenRows
  PROVE  HaltInv'
<1>1. restarts' # 0 /\ mode' = "down" /\ latched' = latched /\ mode = "up"
  BY ConstantFacts DEF MemoryGone, TypeOK
<1>2. (Flat => saved'.halted \/ (DrawdownHit(saved') /\ OpenRows = {}))
  BY <1>1 DEF HaltInv
<1> QED
  BY <1>1, <1>2 DEF HaltInv, Flat, DrawdownHit

\* The gates of an entry are shut while the halt is in force.
LEMMA PlaceIsFree ==
  ASSUME TypeOK, HaltInv, NEW s \in Symbols, NEW t \in Times, Place(s, t)
  PROVE  ~Terminal
<1>1. t \in Nat /\ mode = "up" /\ mem \in Risk
  BY ConstantFacts DEF Place, Considered, Times, TypeOK
<1>2. ~mem.halted /\ ~DrawdownHit(mem)
  BY <1>1, RolledFacts DEF Place, Allows, ReachesDrawdown, DrawdownHit
<1> QED
  BY <1>1, <1>2 DEF HaltInv, Flat, Terminal

LEMMA StepHalt ==
  ASSUME TypeOK, TypeOK', DownIsEmpty, MoneyInv, HaltInv, [Next]_vars
  PROVE  HaltInv'
<1>r. mem \in Risk /\ saved \in Risk /\ mode \in {"down", "up"}
  BY DEF TypeOK
<1> USE DEF world, process, database, history
<1>1. CASE Bar
  BY <1>1, HaltSame DEF Bar, OpenRows
<1>2. ASSUME NEW s \in Symbols, NEW t \in Times, Decline(s, t) PROVE HaltInv'
  <2>1. t \in Nat /\ mem' = Rolled(mem, t)
    BY <1>2, ConstantFacts DEF Decline, Times
  <2>2. mem'.eq = mem.eq /\ mem'.peak = mem.peak /\ mem'.halted = mem.halted
    BY <1>r, <2>1, RolledFacts
  <2> QED
    BY <1>2, <2>2, HaltSame DEF Decline, OpenRows
<1>3. ASSUME NEW s \in Symbols, NEW t \in Times, Latch(s, t) PROVE HaltInv'
  <2>1. t \in Nat /\ mode = "up" /\ mode' = "up"
    BY <1>3, ConstantFacts DEF Latch, Considered, Times
  <2>2. /\ ~Rolled(mem, t).halted /\ DrawdownHit(Rolled(mem, t))
        /\ mem' = [Rolled(mem, t) EXCEPT !.halted = TRUE]
    BY <1>3 DEF Latch, ReachesDrawdown
  <2>3. /\ Rolled(mem, t) \in Risk /\ Rolled(mem, t).eq = mem.eq
        /\ Rolled(mem, t).peak = mem.peak /\ Rolled(mem, t).halted = mem.halted
    BY <1>r, <2>1, RolledFacts
  <2>4. mem'.halted
    BY <2>2, <2>3 DEF Risk
  <2>5. saved.eq = mem.eq /\ saved.peak = mem.peak
    BY <2>1, <2>2, <2>3 DEF MoneyInv, SavedTracks
  <2>6. DrawdownHit(saved)
    BY <2>2, <2>3, <2>5 DEF DrawdownHit
  <2>7. /\ latched' = IF OpenRows = {} THEN "flat" ELSE "early"
        /\ saved' = saved /\ OpenRows' = OpenRows
    BY <1>3 DEF Latch, OpenRows
  <2> QED
    BY <2>1, <2>4, <2>6, <2>7 DEF HaltInv, Flat, DrawdownHit
<1>4. ASSUME NEW s \in Symbols, NEW t \in Times, Place(s, t) PROVE HaltInv'
  <2>1. ~Terminal
    BY <1>4, PlaceIsFree
  <2> QED
    BY <1>4, <2>1 DEF Place, HaltInv, Flat, Terminal
<1>5. ASSUME NEW e \in Entries,
             \/ Fill(e) \/ Kill(e)
             \/ \E p \in Results : Close(e, p) \/ \E t \in Times : Invalidate(e, p, t)
      PROVE  HaltInv'
  <2>1. held # {} \/ working # {}
    BY <1>5 DEF Fill, Kill, Close, Invalidate, ClosedAs
  <2>2. /\ UNCHANGED <<mem, mode, saved, shut, opened, closes, latched, torn, restarts>>
        /\ OpenRows' = OpenRows
    BY <1>5 DEF Fill, Kill, Close, Invalidate, ClosedAs, OpenRows
  <2> QED
    BY <2>1, <2>2, HaltSame
<1>6. ASSUME NEW e \in Entries, BookKill(e) \/ BookRefused(e)
      PROVE  HaltInv'
  <2>1. queue # <<>>
    BY <1>6 DEF BookKill, BookRefused, Booking
  <2> QED
    BY <1>6, <2>1, HaltSame DEF BookKill, BookRefused, OpenRows
<1>7. ASSUME NEW e \in Entries, BookOpen(e) PROVE HaltInv'
  <2>1. queue # <<>> /\ mem' = Counted(mem) /\ saved' = Counted(mem)
    BY <1>7 DEF BookOpen, RowWritten, Booking
  <2>2. mem'.halted = mem.halted
    BY <1>r, <2>1, CountedFacts
  <2> QED
    BY <1>7, <1>r, <2>1, <2>2, HaltBooked DEF BookOpen
<1>8. ASSUME NEW e \in Entries, BookClose(e) PROVE HaltInv'
  <2>1. queue # <<>> /\ mem' = AfterClose(mem) /\ saved' = AfterClose(mem)
    BY <1>8 DEF BookClose, Booking
  <2>2. Head(queue) \in Event
    BY <2>1, HeadType
  <2>3. mem'.halted = mem.halted
    BY <1>r, <2>1, <2>2, EventFields, AppliedFacts DEF AfterClose
  <2> QED
    BY <1>8, <1>r, <2>1, <2>3, HaltBooked DEF BookClose
<1>9. CASE Crash
  BY <1>9, HaltGone DEF Crash, OpenRows
<1>10. CASE Stop
  BY <1>10, HaltGone DEF Stop, OpenRows
<1>11. ASSUME NEW e \in Entries, CrashInOpen(e) \/ CrashInClose(e) PROVE HaltInv'
  <2>1. torn' # 0 /\ MemoryGone
    BY <1>11 DEF CrashInOpen, CrashInClose, TypeOK
  <2>2. restarts' # 0
    BY <2>1, ConstantFacts DEF MemoryGone, TypeOK
  <2> QED
    BY <2>1, <2>2 DEF HaltInv, Flat
<1>12. CASE Recover
  <2>1. /\ mode = "down" /\ mem' = saved /\ saved' = saved /\ held' = OpenRows
        /\ OpenRows' = OpenRows /\ latched' = latched /\ torn' = torn /\ restarts' = restarts
        /\ working' = working /\ queue' = queue
    BY <1>12 DEF Recover, OpenRows
  <2>2. working = {} /\ queue = <<>>
    BY <2>1 DEF DownIsEmpty
  <2> QED
    BY <2>1, <2>2 DEF HaltInv, Flat, DrawdownHit
<1>13. CASE CliRead
  BY <1>13, HaltSame DEF CliRead, OpenRows
<1>15. CASE CliWrite
  BY <1>15 DEF CliWrite, HaltInv, Flat
<1>14. CASE UNCHANGED vars
  BY <1>14, HaltSame DEF vars, OpenRows
<1> QED
  BY <1>1, <1>2, <1>3, <1>4, <1>5, <1>6, <1>7, <1>8, <1>9, <1>10, <1>11, <1>12,
     <1>13, <1>14, <1>15 DEF Next

-----------------------------------------------------------------------------
(* The theorems *)

LEMMA InitInv == Init => RiskInv
<1> SUFFICES ASSUME Init PROVE RiskInv
  OBVIOUS
<1>1. TypeOK
  BY InitType
<1>2. Exposure = 0 /\ IsFiniteSet(reserved) /\ IsFiniteSet(opened)
  <2>1. reserved = {} /\ OpenRows = {} /\ opened = {}
    BY DEF Init, OpenRows
  <2> QED
    BY <2>1, FS_EmptySet DEF Exposure
<1>3. DownIsEmpty /\ HaltInv
  BY DEF Init, DownIsEmpty, HaltInv, Flat
<1>4. SlotsInv
  <2>1. queue = <<>> /\ working = {}
    BY DEF Init
  <2> QED
    BY <1>2, <2>1, ConstantFacts
       DEF SlotsInv, WorkingHasSlot, PendingHasSlot, PendingOnce, WorkingSeen, PendingSeen
<1>5. MoneyInv
  <2>1. mem = Fresh /\ saved = Fresh /\ Fresh.peak = Fresh.eq /\ ~Fresh.halted
    BY DEF Init, Fresh
  <2>2. Bounded(mem, Exposure) /\ Bounded(saved, Exposure)
    BY <1>2, <2>1, FreshType, BoundedAtPeak, ConstantFacts
  <2> QED
    BY <2>1, <2>2 DEF MoneyInv, SavedTracks
<1>6. LossesInv /\ OperatorInv
  <2>1. queue = <<>> /\ closes = {} /\ cli = {}
    BY DEF Init
  <2> QED
    BY <2>1 DEF LossesInv, LossesKept, QueueOfLosses, Remembers, OperatorInv
<1>7. HeldInv
  <2>1. /\ queue = <<>> /\ working = {} /\ held = {} /\ reserved = {} /\ opened = {}
        /\ shut = {} /\ closes = {}
    BY DEF Init
  <2> QED
    BY <2>1 DEF HeldInv, RowsKept, RowsFresh, RowsSeen, HeldHasSlot, ClosedIsGone,
                ClosedHasRow, ClosedOnce, OpenedAt, ClosedAt, ClosedRows
<1> QED
  BY <1>1, <1>3, <1>4, <1>5, <1>6, <1>7 DEF RiskInv

LEMMA StepInv == RiskInv /\ [Next]_vars => RiskInv'
<1> SUFFICES ASSUME RiskInv, [Next]_vars PROVE RiskInv'
  OBVIOUS
<1>1. TypeOK' /\ DownIsEmpty'
  BY StepType, StepDown DEF RiskInv
<1>2. SlotsInv' /\ HeldInv'
  BY StepSlots, StepHeld DEF RiskInv
<1>3. MoneyInv'
  BY <1>1, <1>2, StepMoney DEF RiskInv
<1>4. OperatorInv' /\ LossesInv' /\ HaltInv'
  BY <1>1, StepOperator, StepLosses, StepHalt DEF RiskInv
<1> QED
  BY <1>1, <1>2, <1>3, <1>4 DEF RiskInv

\* The fall from the peak never passes the limit by more than one loss per slot.
THEOREM DrawdownIsBounded == Spec => []DrawdownBounded
<1>1. RiskInv => DrawdownBounded
  <2> SUFFICES ASSUME RiskInv, shut = {}, mem.peak > 0
               PROVE  Overrun(mem) < DrawDen * MaxLoss * MaxOpen
    BY DEF DrawdownBounded
  <2>1. Exposure \in Nat /\ Exposure <= MaxOpen /\ 0 <= Exposure
    BY ExposureIsNat DEF RiskInv, SlotsInv
  <2>2. Overrun(mem) < (DrawDen * MaxLoss) * (MaxOpen - Exposure)
    BY DEF RiskInv, MoneyInv, Bounded
  <2>3. (DrawDen * MaxLoss) * (MaxOpen - Exposure) <= (DrawDen * MaxLoss) * (MaxOpen - 0)
        /\ (DrawDen * MaxLoss) * (MaxOpen - Exposure) \in Int
        /\ (DrawDen * MaxLoss) * (MaxOpen - 0) \in Int
    BY <2>1, RoomGrows
  <2>4. MaxOpen - 0 = MaxOpen
    BY ConstantFacts
  <2>5. Overrun(mem) \in Int
    <3>1. mem.eq \in Int /\ mem.peak \in Int
      BY DEF RiskInv, TypeOK, Risk
    <3> QED
      BY <3>1, ConstantFacts DEF Overrun
  <2> QED
    BY <2>2, <2>3, <2>4, <2>5
<1> QED
  BY <1>1, InitInv, StepInv, PTL DEF Spec

\* The broker never has more entries and positions than there are slots.
THEOREM SlotsAreKept == Spec => []NeverOverexposed
<1>1. RiskInv => NeverOverexposed
  <2> SUFFICES ASSUME RiskInv PROVE NeverOverexposed
    OBVIOUS
  <2>1. SlotsInv /\ HeldInv
    BY DEF RiskInv
  <2>2. Cardinality(working \cup held) <= Exposure /\ Exposure \in Nat /\ Exposure <= MaxOpen
    BY <2>1, HeldIsExposed, ExposureIsNat DEF SlotsInv
  <2>3. Cardinality(working \cup held) \in Nat
    <3>1. working \cup held \subseteq reserved \cup OpenRows
      BY <2>1, HeldFacts DEF SlotsInv, WorkingHasSlot
    <3>2. IsFiniteSet(reserved) /\ IsFiniteSet(OpenRows)
      BY <2>1, FS_Subset DEF SlotsInv, OpenRows
    <3>3. IsFiniteSet(reserved \cup OpenRows)
      BY <3>2, FS_Union
    <3> QED
      BY <3>1, <3>3, FS_Subset, FS_CardinalityType
  <2> QED
    BY <2>2, <2>3, ConstantFacts DEF NeverOverexposed
<1> QED
  BY <1>1, InitInv, StepInv, PTL DEF Spec

\* An entry is placed by Place alone.
LEMMA OnlyPlaces ==
  ASSUME [Next]_vars, ~(working' \subseteq working)
  PROVE  \E s \in Symbols, t \in Times : Place(s, t) /\ working' = working \cup {<<s, t>>}
  BY DEF Next, vars, world, process, database, history, Bar, Decline, Latch,
         Place, Fill, Kill, Close, Invalidate, ClosedAs, BookKill, BookOpen, BookRefused,
         BookClose, Crash, Stop, CrashInOpen, CrashInClose, MemoryGone, Recover,
         CliRead, CliWrite

\* Between the latch and the operator's resume no entry is placed.
THEOREM HaltIsKept == Spec => HaltHolds
<1>1. RiskInv /\ [Next]_vars => [Terminal => working' \subseteq working]_vars
  BY OnlyPlaces, PlaceIsFree DEF RiskInv
<1> QED
  BY <1>1, InitInv, StepInv, PTL DEF Spec, HaltHolds

\* A losing row keeps new entries out for its cooldown, less what a bar can be
\* late.
THEOREM CooldownIsKept == Spec => CooldownHolds
<1>1. RiskInv /\ [Next]_vars =>
        [\A e \in working' \ working : \A c \in Losing \ unsaved :
           e[2] - c.at >= AfterLoss - MaxLag]_vars
  <2> SUFFICES ASSUME RiskInv, [Next]_vars, NEW e \in working' \ working,
                      NEW c \in Losing \ unsaved
               PROVE  e[2] - c.at >= AfterLoss - MaxLag
    OBVIOUS
  <2>1. PICK s \in Symbols, t \in Times : Place(s, t) /\ working' = working \cup {<<s, t>>}
    BY OnlyPlaces
  <2>2. e = <<s, t>>
    BY <2>1
  <2>3. t - c.at >= AfterLoss - MaxLag
    BY <2>1, PlaceIsRested DEF RiskInv
  <2> QED
    BY <2>2, <2>3
<1> QED
  BY <1>1, InitInv, StepInv, PTL DEF Spec, CooldownHolds

-----------------------------------------------------------------------------
(* The day *)

\* What can still lose: the open rows, the orders that work and the positions
\* whose row is still to be written.  The state in memory leaves room for all
\* of it, the saved one for the rows, which is what a restart comes back to; a
\* halted state, saved or in the operator's hands, for all of it, as nothing is
\* placed after the latch.
Awaiting == {queue[i].entry : i \in {j \in DOMAIN queue : queue[j].kind = "opened"}}
AtRisk   == OpenRows \cup working \cup Awaiting

DayBounded(r, slots) ==
  r.dayStart > 0 =>
    DailyDen * (-r.daily) - DailyNum * r.dayStart < (DailyDen * MaxLoss) * (MaxOpen - slots)

HaltedStates == {r \in {saved} : r.halted} \cup {read.state : read \in cli}

DayInv ==
  torn = 0 /\ shut = {} =>
    /\ DayBounded(mem, Cardinality(AtRisk)) /\ DayBounded(saved, Cardinality(OpenRows))
    /\ \A r \in HaltedStates : DayBounded(r, Cardinality(AtRisk))

\* Room for more slots is room for more loss in a day.
LEMMA DayRoomGrows ==
  ASSUME NEW a \in Nat, NEW b \in Nat, a <= b, b <= MaxOpen
  PROVE  /\ (DailyDen * MaxLoss) * (MaxOpen - b) <= (DailyDen * MaxLoss) * (MaxOpen - a)
         /\ 0 <= (DailyDen * MaxLoss) * (MaxOpen - b)
         /\ (DailyDen * MaxLoss) * (MaxOpen - b) \in Int
         /\ (DailyDen * MaxLoss) * (MaxOpen - a) \in Int
<1> DEFINE K == DailyDen * MaxLoss
<1>1. K \in Nat /\ MaxOpen \in Nat
  BY ConstantFacts
<1> HIDE DEF K
<1>2. K * (MaxOpen - b) <= K * (MaxOpen - a) /\ 0 <= K * (MaxOpen - b)
      /\ K * (MaxOpen - b) \in Int /\ K * (MaxOpen - a) \in Int
  BY <1>1
<1> QED
  BY <1>2 DEF K

\* The two sides of the day's bound are integers.
LEMMA DayIsInt ==
  ASSUME NEW r \in Risk
  PROVE  /\ r.daily \in Int /\ r.dayStart \in Int /\ r.eq \in Int
         /\ DailyDen * (-r.daily) - DailyNum * r.dayStart \in Int
<1>1. r.daily \in Int /\ r.dayStart \in Int /\ r.eq \in Int
  BY DEF Risk
<1> QED
  BY <1>1, ConstantFacts

\* The day of a state is what DayBounded looks at.
LEMMA DaySame ==
  ASSUME NEW r \in Risk, NEW q \in Risk, NEW a \in Nat, NEW b \in Nat, a <= b, b <= MaxOpen,
         DayBounded(r, b), q.daily = r.daily, q.dayStart = r.dayStart
  PROVE  DayBounded(q, a)
  BY DayRoomGrows, DayIsInt DEF DayBounded

\* A day that begins has lost nothing.
LEMMA DayAtStart ==
  ASSUME NEW r \in Risk, NEW a \in Nat, a <= MaxOpen, r.daily = 0
  PROVE  DayBounded(r, a)
<1> SUFFICES ASSUME r.dayStart > 0
             PROVE  DailyDen * (-r.daily) - DailyNum * r.dayStart
                      < (DailyDen * MaxLoss) * (MaxOpen - a)
  BY DEF DayBounded
<1> DEFINE d == r.dayStart
           K == (DailyDen * MaxLoss) * (MaxOpen - a)
<1>1. d \in Int /\ d > 0
  BY DayIsInt
<1>2. 0 <= K /\ K \in Int
  BY DayRoomGrows
<1> HIDE DEF d, K
<1>3. DailyNum * d > 0 /\ DailyNum * d \in Int /\ DailyDen * (-0) = 0
  BY <1>1, ConstantFacts
<1>4. DailyDen * (-0) - DailyNum * d < K
  BY <1>2, <1>3
<1> QED
  BY <1>4 DEF d, K

\* The gate lets an entry through only below the limit.
LEMMA DayByGate ==
  ASSUME NEW r \in Risk, NEW a \in Nat, a <= MaxOpen, ~DailyLossHit(r)
  PROVE  DayBounded(r, a)
<1> SUFFICES ASSUME r.dayStart > 0
             PROVE  DailyDen * (-r.daily) - DailyNum * r.dayStart
                      < (DailyDen * MaxLoss) * (MaxOpen - a)
  BY DEF DayBounded
<1> DEFINE l == DailyDen * (-r.daily)
           d == DailyNum * r.dayStart
           K == (DailyDen * MaxLoss) * (MaxOpen - a)
<1>1. DayBase(r) = r.dayStart
  BY DayIsInt DEF DayBase
<1>2. ~(l >= d)
  BY <1>1 DEF DailyLossHit
<1>3. l \in Int /\ d \in Int
  BY DayIsInt, ConstantFacts
<1>4. 0 <= K /\ K \in Int
  BY DayRoomGrows
<1> HIDE DEF l, d, K
<1>5. l - d < K
  BY <1>2, <1>3, <1>4
<1> QED
  BY <1>5 DEF l, d, K

\* An evaluation begins a day or leaves it alone.
LEMMA RolledDay ==
  ASSUME NEW r \in Risk, NEW t \in Nat
  PROVE  Rolled(r, t) = r \/ Rolled(r, t).daily = 0
  BY DEF Rolled, Risk

\* What the other operators of the state do to its day.
LEMMA DayOfStates ==
  ASSUME NEW r \in Risk
  PROVE  /\ Counted(r).daily = r.daily /\ Counted(r).dayStart = r.dayStart
         /\ Resumed(r).daily = r.daily /\ Resumed(r).dayStart = r.dayStart
         /\ [r EXCEPT !.halted = TRUE].daily = r.daily
         /\ [r EXCEPT !.halted = TRUE].dayStart = r.dayStart
  BY DEF Counted, Resumed, Risk

\* An evaluation leaves what is at risk its room.
LEMMA DayRolled ==
  ASSUME NEW r \in Risk, NEW t \in Nat, NEW a \in Nat, a <= MaxOpen, DayBounded(r, a)
  PROVE  DayBounded(Rolled(r, t), a)
  BY RolledDay, RolledFacts, DayAtStart

\* A result booked costs at most the slot it frees.
LEMMA DayByLoss ==
  ASSUME NEW r \in Risk, NEW s \in Symbols, NEW p \in Int, p >= -MaxLoss,
         NEW at \in 0..MaxClock, NEW a \in Nat, a + 1 <= MaxOpen, DayBounded(r, a + 1)
  PROVE  DayBounded(Applied(r, s, p, at), a)
<1> DEFINE q == Applied(r, s, p, at)
<1>1. q \in Risk /\ q.daily = r.daily + p /\ q.dayStart = r.dayStart
  <2>1. q.daily = r.daily + p /\ q.dayStart = r.dayStart
    BY DEF Applied, Risk
  <2> QED
    BY <2>1, AppliedFacts
<1> HIDE DEF q
<1> SUFFICES ASSUME q.dayStart > 0
             PROVE  DailyDen * (-q.daily) - DailyNum * q.dayStart
                      < (DailyDen * MaxLoss) * (MaxOpen - a)
  BY DEF DayBounded, q
<1> DEFINE K == DailyDen * MaxLoss
           l == DailyDen * (-r.daily)
           d == DailyNum * r.dayStart
<1>2. l - d < K * (MaxOpen - (a + 1)) /\ l \in Int /\ d \in Int
  BY <1>1, DayIsInt, ConstantFacts DEF DayBounded
<1>3. K \in Nat /\ MaxOpen \in Nat /\ DailyDen * (-p) <= K /\ DailyDen * (-p) \in Int
  BY ConstantFacts
<1>4. DailyDen * (-q.daily) = l + DailyDen * (-p) /\ DailyNum * q.dayStart = d
  BY <1>1, DayIsInt, ConstantFacts
<1> HIDE DEF K, l, d
<1>5. K * (MaxOpen - a) = K * (MaxOpen - (a + 1)) + K /\ K * (MaxOpen - (a + 1)) \in Int
  BY <1>3
<1>6. DailyDen * (-q.daily) - DailyNum * q.dayStart < K * (MaxOpen - a)
  BY <1>2, <1>3, <1>4, <1>5
<1> QED
  BY <1>6 DEF K

\* What is at risk holds slots, one each.
SlotsCounted ==
  /\ IsFiniteSet(AtRisk) /\ Cardinality(AtRisk) \in Nat /\ Cardinality(AtRisk) <= MaxOpen
  /\ IsFiniteSet(OpenRows) /\ Cardinality(OpenRows) \in Nat
  /\ Cardinality(OpenRows) <= MaxOpen

LEMMA RiskHasSlots == TypeOK /\ SlotsInv => SlotsCounted
<1> SUFFICES ASSUME TypeOK, SlotsInv PROVE SlotsCounted
  OBVIOUS
<1>1. AtRisk \subseteq reserved \cup OpenRows
  BY DEF AtRisk, Awaiting, SlotsInv, WorkingHasSlot, PendingHasSlot, Pending
<1>2. IsFiniteSet(reserved) /\ IsFiniteSet(OpenRows)
  BY FS_Subset DEF SlotsInv, OpenRows
<1>3. /\ IsFiniteSet(reserved \cup OpenRows)
      /\ Cardinality(reserved \cup OpenRows)
           = Cardinality(reserved) + Cardinality(OpenRows) - Cardinality(reserved \cap OpenRows)
  BY <1>2, FS_Union
<1>4. IsFiniteSet(reserved \cap OpenRows)
  BY <1>2, FS_Subset
<1>5. /\ Cardinality(reserved) \in Nat /\ Cardinality(OpenRows) \in Nat
      /\ Cardinality(reserved \cap OpenRows) \in Nat
  BY <1>2, <1>4, FS_CardinalityType
<1>6. IsFiniteSet(AtRisk) /\ Cardinality(AtRisk) <= Cardinality(reserved \cup OpenRows)
      /\ Cardinality(AtRisk) \in Nat
  BY <1>1, <1>3, FS_Subset, FS_CardinalityType
<1>7. Cardinality(reserved) + Cardinality(OpenRows) <= MaxOpen
  BY DEF SlotsInv, Exposure
<1> QED
  BY <1>2, <1>3, <1>5, <1>6, <1>7, ConstantFacts DEF SlotsCounted

\* The same after a step.
LEMMA RiskHasSlotsAfter == TypeOK' /\ SlotsInv' => SlotsCounted'
  BY RiskHasSlots, PTL

\* Less at risk is fewer slots.
LEMMA RiskShrinks ==
  ASSUME NEW R, NEW S, IsFiniteSet(S), R \subseteq S
  PROVE  Cardinality(R) \in Nat /\ Cardinality(S) \in Nat /\ Cardinality(R) <= Cardinality(S)
  BY FS_Subset, FS_CardinalityType

\* A booking leaves nothing at risk that was not.
LEMMA RiskOfTail ==
  ASSUME TypeOK, queue # <<>>, queue' = Tail(queue)
  PROVE  Awaiting' \subseteq Awaiting
<1>1. \A i \in DOMAIN queue' :
        i \in Nat /\ i >= 1 /\ i + 1 \in DOMAIN queue /\ queue'[i] = queue[i + 1]
  BY TailFacts DEF TypeOK
<1> SUFFICES ASSUME NEW i \in DOMAIN queue', queue'[i].kind = "opened"
             PROVE  queue'[i].entry \in Awaiting
  BY DEF Awaiting
<1>2. i + 1 \in DOMAIN queue /\ queue'[i] = queue[i + 1]
  BY <1>1
<1> QED
  BY <1>2 DEF Awaiting

LEMMA RiskOfAppend ==
  ASSUME TypeOK, NEW ev \in Event, queue' = Append(queue, ev)
  PROVE  Awaiting' \subseteq Awaiting \cup (IF ev.kind = "opened" THEN {ev.entry} ELSE {})
<1>1. \A i \in DOMAIN queue' :
        \/ i \in DOMAIN queue /\ queue'[i] = queue[i]
        \/ queue'[i] = ev
  BY AppendFacts DEF TypeOK
<1> SUFFICES ASSUME NEW i \in DOMAIN queue', queue'[i].kind = "opened"
             PROVE  queue'[i].entry \in Awaiting \cup (IF ev.kind = "opened" THEN {ev.entry} ELSE {})
  BY DEF Awaiting
<1>2. CASE i \in DOMAIN queue /\ queue'[i] = queue[i]
  BY <1>2 DEF Awaiting
<1>3. CASE queue'[i] = ev
  BY <1>3
<1> QED
  BY <1>1, <1>2, <1>3

\* A state bounded before is bounded when no more is at risk.
LEMMA DayShrinks ==
  ASSUME SlotsCounted, NEW S, S \subseteq AtRisk, NEW r \in Risk,
         DayBounded(r, Cardinality(AtRisk))
  PROVE  DayBounded(r, Cardinality(S))
<1>1. /\ Cardinality(S) \in Nat /\ Cardinality(AtRisk) \in Nat
      /\ Cardinality(S) <= Cardinality(AtRisk) /\ Cardinality(AtRisk) <= MaxOpen
  BY RiskShrinks DEF SlotsCounted
<1> QED
  BY <1>1, DaySame

LEMMA HaltedType ==
  ASSUME TypeOK
  PROVE  HaltedStates \subseteq Risk
  BY DEF HaltedStates, TypeOK

\* The three parts of the invariant after a step.
LEMMA DayParts ==
  ASSUME torn' = 0 /\ shut' = {} =>
           /\ DayBounded(mem', Cardinality(AtRisk'))
           /\ DayBounded(saved', Cardinality(OpenRows'))
           /\ \A r \in HaltedStates' : DayBounded(r, Cardinality(AtRisk'))
  PROVE  DayInv'
  BY DEF DayInv, DayBounded

\* Nothing more is at risk, and the days stay or begin.
LEMMA DayKept ==
  ASSUME TypeOK, TypeOK', SlotsInv, SlotsInv', DayInv,
         torn' = torn, shut \subseteq shut', AtRisk' \subseteq AtRisk, OpenRows' \subseteq OpenRows,
         saved' = saved, HaltedStates' \subseteq HaltedStates,
         \/ mem'.daily = mem.daily /\ mem'.dayStart = mem.dayStart
         \/ mem'.daily = 0
  PROVE  DayInv'
<1> SUFFICES ASSUME torn' = 0, shut' = {}
             PROVE  /\ DayBounded(mem', Cardinality(AtRisk'))
                    /\ DayBounded(saved', Cardinality(OpenRows'))
                    /\ \A r \in HaltedStates' : DayBounded(r, Cardinality(AtRisk'))
  BY DayParts
<1>1. /\ DayBounded(mem, Cardinality(AtRisk)) /\ DayBounded(saved, Cardinality(OpenRows))
      /\ \A r \in HaltedStates : DayBounded(r, Cardinality(AtRisk))
  BY DEF DayInv
<1>2. /\ SlotsCounted
      /\ Cardinality(AtRisk') \in Nat /\ Cardinality(AtRisk) \in Nat
      /\ Cardinality(AtRisk') <= Cardinality(AtRisk) /\ Cardinality(AtRisk) <= MaxOpen
      /\ Cardinality(OpenRows') \in Nat /\ Cardinality(OpenRows) \in Nat
      /\ Cardinality(OpenRows') <= Cardinality(OpenRows) /\ Cardinality(OpenRows) <= MaxOpen
  BY RiskHasSlots, RiskShrinks DEF SlotsCounted
<1>3. mem \in Risk /\ saved \in Risk /\ mem' \in Risk /\ MaxOpen \in Nat
  BY ConstantFacts DEF TypeOK
<1>4. DayBounded(saved', Cardinality(OpenRows'))
  BY <1>1, <1>2, <1>3, DaySame
<1>5. \A r \in HaltedStates' : DayBounded(r, Cardinality(AtRisk'))
  BY <1>1, <1>2, HaltedType, DayShrinks
<1>6. CASE mem'.daily = mem.daily /\ mem'.dayStart = mem.dayStart
  BY <1>1, <1>2, <1>3, <1>4, <1>5, <1>6, DaySame
<1>7. CASE mem'.daily = 0
  <2>1. Cardinality(AtRisk') <= MaxOpen
    BY <1>2, <1>3
  <2> QED
    BY <1>2, <1>3, <1>4, <1>5, <1>7, <2>1, DayAtStart
<1> QED
  BY <1>6, <1>7

\* A booking or a start leaves the same state in memory and saved.
LEMMA DaySaved ==
  ASSUME TypeOK, TypeOK', SlotsInv, SlotsInv', DayInv, saved' = mem', cli' = cli,
         torn' = torn, shut \subseteq shut', shut' = {} => AtRisk' \subseteq AtRisk,
         torn' = 0 /\ shut' = {} => DayBounded(mem', Cardinality(AtRisk'))
  PROVE  DayInv'
<1> SUFFICES ASSUME torn' = 0, shut' = {}
             PROVE  /\ DayBounded(mem', Cardinality(AtRisk'))
                    /\ DayBounded(saved', Cardinality(OpenRows'))
                    /\ \A r \in HaltedStates' : DayBounded(r, Cardinality(AtRisk'))
  BY DayParts
<1>1. /\ DayBounded(mem', Cardinality(AtRisk'))
      /\ \A r \in HaltedStates : DayBounded(r, Cardinality(AtRisk))
  BY DEF DayInv
<1>2. /\ SlotsCounted /\ IsFiniteSet(AtRisk') /\ Cardinality(AtRisk') \in Nat
      /\ Cardinality(AtRisk') <= MaxOpen /\ OpenRows' \subseteq AtRisk'
  BY RiskHasSlots, RiskHasSlotsAfter DEF AtRisk, SlotsCounted
<1>3. Cardinality(OpenRows') \in Nat /\ Cardinality(OpenRows') <= Cardinality(AtRisk')
  BY <1>2, RiskShrinks
<1>4. mem' \in Risk /\ saved' \in Risk
  BY DEF TypeOK
<1>5. DayBounded(saved', Cardinality(OpenRows'))
  BY <1>1, <1>2, <1>3, <1>4, DaySame
<1>6. \A r \in HaltedStates' : r = mem' \/ r \in HaltedStates
  BY DEF HaltedStates
<1>7. \A r \in HaltedStates : DayBounded(r, Cardinality(AtRisk'))
  BY <1>1, <1>2, HaltedType, DayShrinks
<1> QED
  BY <1>1, <1>5, <1>6, <1>7

\* A process that dies leaves the saved state, or the state in memory, and the rows.
LEMMA DayGone ==
  ASSUME TypeOK, TypeOK', SlotsInv, SlotsInv', DayInv, MemoryGone, torn' = torn,
         saved' \in {saved, mem}, UNCHANGED <<opened, shut, closes>>
  PROVE  DayInv'
<1> SUFFICES ASSUME torn' = 0, shut' = {}
             PROVE  /\ DayBounded(mem', Cardinality(AtRisk'))
                    /\ DayBounded(saved', Cardinality(OpenRows'))
                    /\ \A r \in HaltedStates' : DayBounded(r, Cardinality(AtRisk'))
  BY DayParts
<1>1. /\ DayBounded(mem, Cardinality(AtRisk)) /\ DayBounded(saved, Cardinality(OpenRows))
      /\ \A r \in HaltedStates : DayBounded(r, Cardinality(AtRisk))
  BY DEF DayInv
<1>2. OpenRows' = OpenRows /\ OpenRows \subseteq AtRisk /\ mem' = Fresh
      /\ AtRisk' = OpenRows /\ cli' = cli
  BY DEF OpenRows, AtRisk, Awaiting, MemoryGone, world
<1>3. SlotsCounted /\ SlotsCounted'
  BY RiskHasSlots, RiskHasSlotsAfter
<1>4. mem \in Risk /\ saved \in Risk /\ mem' \in Risk /\ saved' \in Risk
  BY DEF TypeOK
<1>5. DayBounded(mem', Cardinality(AtRisk'))
  <2>1. mem'.daily = 0
    BY <1>2 DEF Fresh
  <2> QED
    BY <1>3, <1>4, <2>1, DayAtStart DEF SlotsCounted
<1>6. DayBounded(mem, Cardinality(OpenRows))
  BY <1>1, <1>2, <1>3, <1>4, DayShrinks
<1>7. \A r \in HaltedStates : DayBounded(r, Cardinality(OpenRows))
  BY <1>1, <1>2, <1>3, HaltedType, DayShrinks
<1>8. \A r \in HaltedStates' : r = mem \/ r \in HaltedStates
  BY <1>2 DEF HaltedStates
<1>9. DayBounded(saved', Cardinality(OpenRows'))
  BY <1>1, <1>2, <1>6
<1> QED
  BY <1>2, <1>5, <1>6, <1>7, <1>8, <1>9

LEMMA StepDay ==
  ASSUME RiskInv, RiskInv', DayInv, [Next]_vars
  PROVE  DayInv'
<1>0. /\ TypeOK /\ TypeOK' /\ SlotsInv /\ SlotsInv' /\ HeldInv /\ DownIsEmpty
      /\ MoneyInv /\ OperatorInv
  BY DEF RiskInv
<1>r. mem \in Risk /\ saved \in Risk /\ mem' \in Risk /\ saved' \in Risk
  BY <1>0 DEF TypeOK
<1>s. shut \subseteq shut' /\ (shut' = {} => shut = {})
  BY ShutGrows
<1>c. SlotsCounted /\ SlotsCounted'
  BY <1>0, RiskHasSlots, RiskHasSlotsAfter
<1> USE DEF world, process, database, history
<1>1. CASE Bar
  <2>1. OpenRows' = OpenRows /\ AtRisk' = AtRisk /\ HaltedStates' = HaltedStates
    BY <1>1 DEF Bar, OpenRows, AtRisk, Awaiting, HaltedStates
  <2> QED
    BY <1>0, <1>1, <1>s, <2>1, DayKept DEF Bar
<1>2. ASSUME NEW s \in Symbols, NEW t \in Times, Decline(s, t) PROVE DayInv'
  <2>1. t \in Nat
    BY ConstantFacts DEF Times
  <2>2. OpenRows' = OpenRows /\ AtRisk' = AtRisk /\ HaltedStates' = HaltedStates
    BY <1>2 DEF Decline, OpenRows, AtRisk, Awaiting, HaltedStates
  <2>3. mem' = mem \/ mem'.daily = 0
    BY <1>2, <1>r, <2>1, RolledDay DEF Decline
  <2> QED
    BY <1>0, <1>2, <1>s, <2>2, <2>3, DayKept DEF Decline
<1>3. ASSUME NEW s \in Symbols, NEW t \in Times, Latch(s, t) PROVE DayInv'
  <2>1. t \in Nat
    BY ConstantFacts DEF Times
  <2>2. OpenRows' = OpenRows /\ AtRisk' = AtRisk /\ HaltedStates' = HaltedStates
    BY <1>3 DEF Latch, OpenRows, AtRisk, Awaiting, HaltedStates
  <2>3. mem' = [Rolled(mem, t) EXCEPT !.halted = TRUE] /\ Rolled(mem, t) \in Risk
    BY <1>3, <1>r, <2>1, RolledFacts DEF Latch
  <2>4. mem'.daily = Rolled(mem, t).daily /\ mem'.dayStart = Rolled(mem, t).dayStart
    BY <2>3, DayOfStates
  <2>5. \/ mem'.daily = mem.daily /\ mem'.dayStart = mem.dayStart
        \/ mem'.daily = 0
    BY <1>r, <2>1, <2>4, RolledDay
  <2>6. saved' = saved /\ torn' = torn
    BY <1>3 DEF Latch
  <2> QED
    BY <1>0, <1>s, <2>2, <2>5, <2>6, DayKept
<1>4. ASSUME NEW s \in Symbols, NEW t \in Times, Place(s, t) PROVE DayInv'
  <2>1. t \in Nat
    BY ConstantFacts DEF Times
  <2>2. mem' = Rolled(mem, t) /\ ~DailyLossHit(mem') /\ saved' = saved /\ torn' = torn /\ shut' = shut
    BY <1>4 DEF Place, Allows, ReachesDrawdown
  <2>3. OpenRows' = OpenRows
    BY <1>4 DEF Place, OpenRows
  <2>4. DayBounded(mem', Cardinality(AtRisk'))
    BY <1>c, <1>r, <2>2, DayByGate DEF SlotsCounted
  <2>5. torn' = 0 /\ shut' = {} => DayBounded(saved', Cardinality(OpenRows'))
    BY <2>2, <2>3 DEF DayInv
  <2>6. HaltedStates' = {}
    <3>1. mode = "up" /\ ~mem.halted /\ cli' = cli
      BY <1>4, <1>r, <2>1, RolledFacts DEF Place, Considered, Allows, ReachesDrawdown
    <3>2. ~saved.halted /\ cli = {}
      BY <1>0, <3>1 DEF MoneyInv, SavedTracks, OperatorInv
    <3> QED
      BY <2>2, <3>1, <3>2 DEF HaltedStates
  <2> QED
    BY <2>4, <2>5, <2>6, DayParts
<1>5. ASSUME NEW e \in Entries, Fill(e) PROVE DayInv'
  <2>1. queue' = Append(queue, Ev("opened", e)) /\ Ev("opened", e) \in Event
        /\ Ev("opened", e).entry = e
    BY <1>5, EvType DEF Fill, Ev
  <2>2. Awaiting' \subseteq Awaiting \cup {e}
    BY <1>0, <2>1, RiskOfAppend
  <2>3. OpenRows' = OpenRows /\ AtRisk' \subseteq AtRisk /\ HaltedStates' = HaltedStates
    BY <1>5, <2>2 DEF Fill, OpenRows, AtRisk, HaltedStates
  <2> QED
    BY <1>0, <1>5, <1>s, <2>3, DayKept DEF Fill
<1>6. ASSUME NEW e \in Entries,
             \/ Kill(e)
             \/ \E p \in Results : Close(e, p) \/ \E t \in Times : Invalidate(e, p, t)
      PROVE  DayInv'
  <2>1. PICK ev \in Event : queue' = Append(queue, ev) /\ ev.kind # "opened"
    <3>1. CASE Kill(e)
      <4>1. Ev("killed", e) \in Event /\ Ev("killed", e).kind # "opened"
        BY EvType DEF Ev
      <4> QED
        BY <3>1, <4>1 DEF Kill
    <3>2. ASSUME NEW p \in Results, Close(e, p) \/ \E t \in Times : Invalidate(e, p, t)
          PROVE  \E ev \in Event : queue' = Append(queue, ev) /\ ev.kind # "opened"
      <4>1. PICK at \in Times : ClosedAs(e, p, at)
        BY <1>0, <3>2, CloseCases
      <4>2. Closed(e, p, at) \in Event /\ Closed(e, p, at).kind # "opened"
        BY ClosedType
      <4> QED
        BY <4>1, <4>2 DEF ClosedAs
    <3> QED
      BY <1>6, <3>1, <3>2
  <2>2. Awaiting' \subseteq Awaiting
    BY <1>0, <2>1, RiskOfAppend
  <2>3. UNCHANGED <<mem, saved, cli, shut, opened, closes, torn>> /\ working' \subseteq working
    BY <1>6 DEF Kill, Close, Invalidate, ClosedAs
  <2>4. OpenRows' = OpenRows /\ AtRisk' \subseteq AtRisk /\ HaltedStates' = HaltedStates
    BY <2>2, <2>3 DEF OpenRows, AtRisk, HaltedStates
  <2> QED
    BY <1>0, <1>s, <2>3, <2>4, DayKept
<1>7. ASSUME NEW e \in Entries, BookKill(e) \/ BookRefused(e) PROVE DayInv'
  <2>1. Awaiting' \subseteq Awaiting
    BY <1>0, <1>7, RiskOfTail DEF BookKill, BookRefused, Booking, Next1
  <2>2. OpenRows' = OpenRows /\ AtRisk' \subseteq AtRisk /\ HaltedStates' = HaltedStates
    BY <1>7, <2>1 DEF BookKill, BookRefused, OpenRows, AtRisk, HaltedStates
  <2> QED
    BY <1>0, <1>7, <1>s, <2>2, DayKept DEF BookKill, BookRefused
<1>8. ASSUME NEW e \in Entries, BookOpen(e) PROVE DayInv'
  <2>1. /\ saved' = mem' /\ mem' = Counted(mem) /\ torn' = torn /\ working' = working
        /\ queue # <<>> /\ queue' = Tail(queue) /\ opened' = opened \cup {e} /\ closes' = closes
        /\ cli' = cli
    BY <1>8 DEF BookOpen, RowWritten, Booking, Next1
  <2>2. e \in Awaiting
    <3>1. OpenedAt(1, e)
      BY <1>0, <1>8, OpenedIsNew DEF BookOpen, RowWritten
    <3> QED
      BY <3>1 DEF OpenedAt, Awaiting
  <2>3. AtRisk' \subseteq AtRisk
    <3>1. Awaiting' \subseteq Awaiting
      BY <1>0, <2>1, RiskOfTail
    <3> QED
      BY <1>s, <2>1, <2>2, <3>1 DEF AtRisk, OpenRows
  <2>4. ASSUME torn' = 0, shut' = {} PROVE DayBounded(mem', Cardinality(AtRisk'))
    <3>1. DayBounded(mem, Cardinality(AtRisk))
      BY <1>s, <2>1, <2>4 DEF DayInv
    <3>2. Cardinality(AtRisk') <= Cardinality(AtRisk)
      BY <1>c, <2>3, RiskShrinks DEF SlotsCounted
    <3>3. mem'.daily = mem.daily /\ mem'.dayStart = mem.dayStart
      BY <1>r, <2>1, DayOfStates
    <3> QED
      BY <1>c, <1>r, <3>1, <3>2, <3>3, DaySame DEF SlotsCounted
  <2> QED
    BY <1>0, <1>s, <2>1, <2>3, <2>4, DaySaved
<1>9. ASSUME NEW e \in Entries, BookClose(e) PROVE DayInv'
  <2>1. /\ saved' = mem' /\ mem' = AfterClose(mem) /\ closes' = closes \cup {ClosedRow}
        /\ queue # <<>> /\ queue' = Tail(queue) /\ opened' = opened /\ shut' = shut
        /\ working' = working /\ torn' = torn /\ cli' = cli
    BY <1>9 DEF BookClose, Booking, Next1
  <2>2. /\ ClosedAt(1) /\ queue[1].entry = e /\ ClosedRow.entry = e
        /\ shut = {} => ClosedRow.entry \in OpenRows
    BY <1>0, <1>9, ClosedIsOpen DEF BookClose
  <2>3. ASSUME shut' = {} PROVE e \in AtRisk /\ AtRisk' \subseteq AtRisk \ {e}
    <3>1. e \in OpenRows /\ e \in opened
      BY <2>1, <2>2, <2>3 DEF OpenRows
    <3>2. e \notin reserved
      BY <1>0, <3>1 DEF HeldInv, RowsFresh
    <3>3. e \notin working /\ e \notin Awaiting
      BY <1>0, <3>2 DEF SlotsInv, WorkingHasSlot, PendingHasSlot, Pending, Awaiting
    <3>4. Awaiting' \subseteq Awaiting
      BY <1>0, <2>1, RiskOfTail
    <3>5. OpenRows' = OpenRows \ {e}
      BY <2>1, <2>2 DEF OpenRows
    <3> QED
      BY <2>1, <3>1, <3>3, <3>4, <3>5 DEF AtRisk
  <2>4. Head(queue) \in Event
    BY <1>0, <2>1, HeadType
  <2>5. ASSUME torn' = 0, shut' = {} PROVE DayBounded(mem', Cardinality(AtRisk'))
    <3> DEFINE s == Head(queue).entry[1]
               p == Head(queue).pnl
               at == Head(queue).at
    <3>1. s \in Symbols /\ p \in Int /\ p >= -MaxLoss /\ at \in 0..MaxClock
      BY <2>4, EventFields
    <3>2. mem' = Applied(mem, s, p, at)
      BY <2>1 DEF AfterClose
    <3>3. DayBounded(mem, Cardinality(AtRisk))
      BY <1>s, <2>1, <2>5 DEF DayInv
    <3>4. /\ Cardinality(AtRisk') \in Nat /\ Cardinality(AtRisk) \in Nat
          /\ Cardinality(AtRisk') + 1 <= Cardinality(AtRisk) /\ Cardinality(AtRisk) <= MaxOpen
      <4>1. IsFiniteSet(AtRisk \ {e}) /\ Cardinality(AtRisk \ {e}) = Cardinality(AtRisk) - 1
            /\ Cardinality(AtRisk) \in Nat
        BY <1>c, <2>3, <2>5, SlotFreed DEF SlotsCounted
      <4>2. Cardinality(AtRisk') \in Nat /\ Cardinality(AtRisk') <= Cardinality(AtRisk \ {e})
        BY <2>3, <2>5, <4>1, RiskShrinks
      <4> QED
        BY <1>c, <4>1, <4>2 DEF SlotsCounted
    <3>5. DayBounded(mem, Cardinality(AtRisk') + 1)
      BY <1>r, <3>3, <3>4, DaySame
    <3>6. Cardinality(AtRisk') + 1 <= MaxOpen
      BY <3>4, ConstantFacts
    <3> HIDE DEF s, p, at
    <3> QED
      BY <1>r, <3>1, <3>2, <3>4, <3>5, <3>6, DayByLoss
  <2> QED
    BY <1>0, <1>s, <2>1, <2>3, <2>5, DaySaved
<1>10. CASE Crash \/ Stop
  BY <1>0, <1>10, DayGone DEF Crash, Stop
<1>11. ASSUME NEW e \in Entries, CrashInOpen(e) \/ CrashInClose(e) PROVE DayInv'
  <2>1. torn' # 0
    BY <1>0, <1>11 DEF CrashInOpen, CrashInClose, TypeOK
  <2> QED
    BY <2>1 DEF DayInv
<1>12. CASE Recover
  <2>1. /\ mem' = saved /\ saved' = saved /\ torn' = torn /\ shut' = shut
        /\ working' = working /\ queue' = queue /\ mode = "down" /\ OpenRows' = OpenRows
        /\ cli' = cli
    BY <1>12 DEF Recover, OpenRows
  <2>2. AtRisk' = OpenRows /\ OpenRows \subseteq AtRisk
    BY <1>0, <2>1 DEF DownIsEmpty, AtRisk, Awaiting
  <2>3. torn' = 0 /\ shut' = {} => DayBounded(mem', Cardinality(AtRisk'))
    BY <2>1, <2>2 DEF DayInv
  <2> QED
    BY <1>0, <1>s, <2>1, <2>2, <2>3, DaySaved
<1>13. CASE CliRead
  <2>1. OpenRows' = OpenRows /\ AtRisk' = AtRisk /\ HaltedStates' \subseteq HaltedStates
    BY <1>13 DEF CliRead, OpenRows, AtRisk, Awaiting, HaltedStates
  <2> QED
    BY <1>0, <1>13, <1>s, <2>1, DayKept DEF CliRead
<1>15. CASE CliWrite
  <2>1. PICK read \in cli : saved' = Resumed(read.state)
    BY <1>15 DEF CliWrite
  <2>2. /\ OpenRows' = OpenRows /\ AtRisk' = AtRisk /\ OpenRows \subseteq AtRisk
        /\ cli' = {} /\ mem' = mem /\ torn' = torn /\ shut' = shut
    BY <1>15 DEF CliWrite, OpenRows, AtRisk, Awaiting
  <2>3. read.state \in Risk /\ read.state \in HaltedStates
    BY <1>0, <2>1 DEF TypeOK, HaltedStates
  <2>4. /\ saved'.daily = read.state.daily /\ saved'.dayStart = read.state.dayStart
        /\ ~saved'.halted
    BY <2>1, <2>3, DayOfStates, ResumedFacts
  <2>5. HaltedStates' = {}
    BY <2>2, <2>4 DEF HaltedStates
  <2>6. ASSUME torn' = 0, shut' = {}
        PROVE  DayBounded(mem', Cardinality(AtRisk')) /\ DayBounded(saved', Cardinality(OpenRows'))
    <3>1. DayBounded(mem, Cardinality(AtRisk)) /\ DayBounded(read.state, Cardinality(AtRisk))
      BY <2>2, <2>3, <2>6 DEF DayInv
    <3>2. DayBounded(read.state, Cardinality(OpenRows))
      BY <1>c, <2>2, <2>3, <3>1, DayShrinks
    <3>3. DayBounded(saved', Cardinality(OpenRows))
      BY <1>c, <1>r, <2>3, <2>4, <3>2, DaySame DEF SlotsCounted
    <3> QED
      BY <2>2, <3>1, <3>3
  <2> QED
    BY <2>5, <2>6, DayParts
<1>14. CASE UNCHANGED vars
  <2>1. OpenRows' = OpenRows /\ AtRisk' = AtRisk /\ HaltedStates' = HaltedStates
    BY <1>14 DEF vars, OpenRows, AtRisk, Awaiting, HaltedStates
  <2> QED
    BY <1>0, <1>14, <1>s, <2>1, DayKept DEF vars
<1> QED
  BY <1>1, <1>2, <1>3, <1>4, <1>5, <1>6, <1>7, <1>8, <1>9, <1>10, <1>11, <1>12, <1>13, <1>14,
     <1>15 DEF Next

\* The day's loss never passes its limit by more than one loss per slot.
THEOREM DayIsBounded == Spec => []DailyBounded
<1>1. Init => DayInv
  <2> SUFFICES ASSUME Init PROVE DayInv
    OBVIOUS
  <2>1. SlotsCounted
    BY InitInv, RiskHasSlots DEF RiskInv
  <2>2. mem = Fresh /\ saved = Fresh /\ Fresh.daily = 0 /\ ~Fresh.halted /\ cli = {}
    BY DEF Init, Fresh
  <2>3. HaltedStates = {}
    BY <2>2 DEF HaltedStates
  <2> QED
    BY <2>1, <2>2, <2>3, FreshType, DayAtStart DEF DayInv, SlotsCounted
<1>2. RiskInv /\ RiskInv' /\ DayInv /\ [Next]_vars => DayInv'
  BY StepDay
<1>3. RiskInv /\ DayInv => DailyBounded
  <2> SUFFICES ASSUME RiskInv, DayInv, torn = 0, shut = {}, mem.dayStart > 0
               PROVE  DailyDen * (-mem.daily) - DailyNum * mem.dayStart
                        < DailyDen * MaxLoss * MaxOpen
    BY DEF DailyBounded
  <2>1. Cardinality(AtRisk) \in Nat /\ Cardinality(AtRisk) <= MaxOpen /\ 0 <= Cardinality(AtRisk)
    BY RiskHasSlots DEF RiskInv, SlotsCounted
  <2>2. DailyDen * (-mem.daily) - DailyNum * mem.dayStart
          < (DailyDen * MaxLoss) * (MaxOpen - Cardinality(AtRisk))
    BY DEF DayInv, DayBounded
  <2>3. (DailyDen * MaxLoss) * (MaxOpen - Cardinality(AtRisk)) <= (DailyDen * MaxLoss) * (MaxOpen - 0)
        /\ (DailyDen * MaxLoss) * (MaxOpen - Cardinality(AtRisk)) \in Int
        /\ (DailyDen * MaxLoss) * (MaxOpen - 0) \in Int
    BY <2>1, DayRoomGrows
  <2>4. MaxOpen - 0 = MaxOpen
    BY ConstantFacts
  <2>5. DailyDen * (-mem.daily) - DailyNum * mem.dayStart \in Int
    BY DayIsInt DEF RiskInv, TypeOK
  <2> QED
    BY <2>2, <2>3, <2>4, <2>5
<1> QED
  BY <1>1, <1>2, <1>3, InitInv, StepInv, PTL DEF Spec
=============================================================================

-------------------------- MODULE FadeLive_proofs --------------------------
(***************************************************************************)
(* Proofs about FadeLive, for any picks on any days, any coins, any limit  *)
(* and any number of things that go wrong.                                 *)
(***************************************************************************)
EXTENDS FadeLive, FiniteSetTheorems, WellFoundedInduction, TLAPS

-----------------------------------------------------------------------------
(* The inductive invariant *)

\* A running account is not shut, and one that reached the floor stays stopped.
StatusShut ==
  /\ status \in {"OFF", "RUNNING"} => shut = "no"
  /\ shut = "over" => status = "STOPPED"

\* No order without a row, and no open row without a fill.
FateOfRow ==
  \A p \in Picks : /\ row[p] = "none" => fate[p] = "none"
                   /\ row[p] = "OPEN" => fate[p] = "filled"

\* The row in hand is what the branch took it for: whatever the venue, the
\* owner and the clock did since, nobody else writes it.
InHand ==
  /\ pass.at \in {"stop", "watch", "buy", "limit", "rest", "market", "left",
                  "sweep", "book", "flat"} => row[It] = "OPEN"
  /\ pass.at \in {"send", "opened"} => row[It] = "SENDING"
  /\ pass.at = "send" => fate[It] = "none" /\ shut = "no"
  /\ pass.at = "opened" => fate[It] = "filled"
  /\ pass.at \in {"sweep", "book", "flat"} => ~Held(It)
  /\ pass.at \in {"buy", "limit", "rest", "market", "left"} => pass.why \in Reasons

\* What the loop still has before it is as it was when it was listed.
Waiting == IF pass.at = "next" THEN pass.todo ELSE pass.todo \ {It}
StillListed ==
  /\ pass.phase = "exits" => \A p \in Waiting : row[p] = "OPEN"
  /\ pass.phase = "entries" => \A p \in Waiting : row[p] = "none" /\ DayOf[p] <= day
  /\ pass.now <= day

Tables == PositionHasRow /\ WithinMaxOpen /\ StatusShut /\ FateOfRow
IInv == TypeOK /\ Tables /\ InHand /\ StillListed

-----------------------------------------------------------------------------
(* Picks, and the pick in hand *)

LEMMA PickFacts ==
  /\ Picks \subseteq Nat /\ IsFiniteSet(Picks)
  /\ \A p \in Picks : DayOf[p] \in Nat /\ SymbolOf[p] \in Symbols
<1>1. DayOf \in Seq(Nat)
  BY PicksAssumption
<1>2. Len(DayOf) \in Nat /\ Picks = 1..Len(DayOf)
  BY <1>1 DEF Picks
<1>3. IsFiniteSet(Picks)
  BY <1>2, FS_Interval
<1>4. \A p \in Picks : DayOf[p] \in Nat
  BY <1>1, <1>2
<1> QED
  BY <1>2, <1>3, <1>4 DEF Symbols

LEMMA BoundFacts == MaxOpen \in Nat /\ MaxDay \in Nat /\ MaxTrouble \in Nat
BY BoundsAssumption

\* The least of a set of ids is one of them.
LEMMA MinIsIn ==
  ASSUME NEW S \in SUBSET Nat, S # {}
  PROVE  Min(S) \in S
<1> DEFINE R == OpToRel(<, Nat)
<1>1. \A x, y \in Nat : <<y, x>> \in R <=> y < x
  BY DEF OpToRel
<1>2. PICK x \in S : \A y \in S : ~(<<y, x>> \in R)
  <2> HIDE DEF R
  <2>1. IsWellFoundedOn(R, Nat)
    BY NatLessThanWellFounded DEF R
  <2> QED
    BY <2>1, WFMin
<1>3. \A y \in S : x =< y
  <2> TAKE y \in S
  <2>1. ~(y < x)
    BY <1>1, <1>2
  <2> QED
    BY <2>1
<1> QED
  BY <1>3 DEF Min

LEMMA HandFacts ==
  ASSUME TypeOK, pass.todo # {}
  PROVE  /\ It \in pass.todo /\ It \in Picks /\ Coin \in Symbols
<1>1. pass.todo \subseteq Picks
  BY DEF TypeOK, Pass
<1>2. It \in pass.todo
  BY <1>1, PickFacts, MinIsIn DEF It
<1> QED
  BY <1>1, <1>2, PickFacts DEF Coin

-----------------------------------------------------------------------------
(* How a pass moves on *)

PassType == pass \in Pass /\ (pass.at \notin {"idle", "next"} => pass.todo # {})

\* The same row stays in hand.
Stays ==
  /\ pass' \in Pass /\ pass'.at \notin {"idle", "next"}
  /\ pass'.todo = pass.todo /\ pass'.phase = pass.phase /\ pass'.now = pass.now

LEMMA IdleFacts ==
  ASSUME TypeOK
  PROVE  Idle \in Pass /\ Idle.at = "idle" /\ Idle.todo = {} /\ Idle.phase = "check" /\ Idle.now = 0
<1>1. 0 \in 0..MaxDay
  BY BoundFacts
<1> QED
  BY <1>1 DEF Idle, Pass

LEMMA DoneFacts ==
  ASSUME TypeOK
  PROVE  /\ Done \in Pass /\ Done.at = "next" /\ Done.todo = pass.todo \ {It}
         /\ Done.phase = pass.phase /\ Done.now = pass.now
<1>1. pass \in Pass
  BY DEF TypeOK
<1>2. pass.todo \in SUBSET Picks /\ pass.phase \in {"check", "exits", "entries"} /\ pass.now \in 0..MaxDay
  BY <1>1 DEF Pass
<1>3. Idle \in Pass
  BY IdleFacts
<1> QED
  BY <1>2, <1>3 DEF Pass, Done

\* A pass that ends or dies has nothing in hand and nothing before it.
LEMMA PassEnds ==
  ASSUME IInv, pass' = Idle, day' \in Nat
  PROVE  PassType' /\ InHand' /\ StillListed'
<1>1. /\ pass' \in Pass /\ pass'.at = "idle" /\ pass'.todo = {} /\ pass'.phase = "check"
      /\ pass'.now = 0
  BY IdleFacts DEF IInv
<1> QED
  BY <1>1 DEF PassType, InHand, StillListed

\* What stays listed, whichever way the loop goes on.
LEMMA ListKept ==
  ASSUME IInv, pass.todo # {}, pass.at # "idle", Stays \/ pass' = Done,
         \A p \in Picks \ {It} : row'[p] = row[p], day' = day
  PROVE  StillListed'
<1>1. Waiting' \subseteq Waiting \ {It} /\ pass'.phase = pass.phase /\ pass'.now = pass.now
  <2>1. CASE Stays
    <3>1. It' = It /\ Waiting' = pass.todo \ {It}
      BY <2>1 DEF Stays, Waiting, It
    <3> QED
      BY <2>1, <3>1 DEF Stays, Waiting
  <2>2. CASE pass' = Done
    <3>1. Waiting' = pass.todo \ {It}
      BY <2>2, DoneFacts DEF Waiting, IInv
    <3> QED
      BY <2>2, <3>1, DoneFacts DEF Waiting, IInv
  <2> QED
    BY <2>1, <2>2
<1>2. Waiting \subseteq Picks
  BY DEF IInv, TypeOK, Pass, Waiting
<1> QED
  BY <1>1, <1>2 DEF StillListed, IInv

\* The row in hand is done with.
LEMMA RowDone ==
  ASSUME IInv, pass.todo # {}, pass.at # "idle", pass' = Done,
         \A p \in Picks \ {It} : row'[p] = row[p], day' = day
  PROVE  PassType' /\ InHand' /\ StillListed'
<1>1. StillListed'
  BY ListKept
<1>2. pass' \in Pass /\ pass'.at = "next"
  BY DoneFacts DEF IInv
<1> QED
  BY <1>1, <1>2 DEF PassType, InHand

\* The row in hand stays there: what is left is what the new place takes it for.
LEMMA RowStays ==
  ASSUME IInv, pass.todo # {}, pass.at # "idle", Stays,
         \A p \in Picks \ {It} : row'[p] = row[p], day' = day
  PROVE  PassType' /\ StillListed' /\ It' = It
<1>1. StillListed'
  BY ListKept
<1> QED
  BY <1>1 DEF PassType, Stays, It

\* The pass stands still.
LEMMA PassWaits ==
  ASSUME IInv, UNCHANGED <<pass, row>>, day' \in Nat, day <= day'
  PROVE  PassType' /\ StillListed' /\ It' = It
<1>1. It' = It /\ Waiting' = Waiting
  BY DEF It, Waiting
<1>2. pass.now \in Nat /\ day \in Nat
  BY BoundFacts DEF IInv, TypeOK, Pass
<1>3. \A p \in Waiting : DayOf[p] \in Nat
  BY PickFacts DEF IInv, TypeOK, Pass, Waiting
<1> QED
  BY <1>1, <1>2, <1>3 DEF PassType, StillListed, IInv, TypeOK

\* What others do leaves the row in hand as it is.
LEMMA HandWaits ==
  ASSUME IInv, UNCHANGED <<pass, row>>, shut = "no" => shut' = "no",
         \A p \in Picks : fate[p] \in {"none", "filled"} => fate'[p] = fate[p],
         \A p \in Picks : fate[p] = "filled" /\ ~Held(p) => ~Held(p)'
  PROVE  InHand'
<1>1. CASE pass.at \in {"idle", "next"}
  BY <1>1 DEF InHand
<1>2. CASE pass.at \notin {"idle", "next"}
  <2>1. It \in Picks /\ It' = It /\ pass.todo # {}
    BY <1>2, HandFacts DEF IInv, TypeOK, It
  <2>2. pass.at \in {"send", "opened"} => /\ row'[It'] = "SENDING"
                                          /\ pass.at = "send" => fate'[It'] = "none" /\ shut' = "no"
                                          /\ pass.at = "opened" => fate'[It'] = "filled"
    BY <2>1 DEF IInv, InHand
  <2>3. pass.at \in {"sweep", "book", "flat"} => ~Held(It)'
    <3>1. pass.at \in {"sweep", "book", "flat"} => row[It] = "OPEN" /\ ~Held(It)
      BY DEF IInv, InHand
    <3>2. row[It] = "OPEN" => fate[It] = "filled"
      BY <2>1 DEF IInv, Tables, FateOfRow
    <3>3. fate[It] = "filled" /\ ~Held(It) => ~(It \in pos'[SymbolOf[It]])
      BY <2>1 DEF Held
    <3> QED
      BY <2>1, <3>1, <3>2, <3>3 DEF Held
  <2>4. pass.at \in {"stop", "watch", "buy", "limit", "rest", "market", "left",
                     "sweep", "book", "flat"} => row'[It'] = "OPEN"
    BY <2>1 DEF IInv, InHand
  <2>5. pass.at \in {"buy", "limit", "rest", "market", "left"} => pass'.why \in Reasons
    BY DEF IInv, InHand
  <2> QED
    BY <2>2, <2>3, <2>4, <2>5 DEF InHand
<1> QED
  BY <1>1, <1>2

-----------------------------------------------------------------------------
(* What a step leaves of the tables *)

LEMMA LiveBounds ==
  ASSUME IInv, Live' \subseteq Live
  PROVE  WithinMaxOpen'
<1>1. IsFiniteSet(Live)
  BY PickFacts, FS_Subset DEF Live
<1>2. Cardinality(Live') <= Cardinality(Live) /\ Cardinality(Live') \in Nat /\ Cardinality(Live) \in Nat
  BY <1>1, FS_Subset, FS_CardinalityType
<1>3. Cardinality(Live) <= MaxOpen /\ MaxOpen \in Nat
  BY BoundFacts DEF IInv, Tables, WithinMaxOpen
<1>4. Cardinality(Live') <= MaxOpen
  BY <1>2, <1>3
<1> QED
  BY <1>4 DEF WithinMaxOpen

\* Nothing is bought, and no order or row changes.
LEMMA RowsKept ==
  ASSUME IInv, UNCHANGED <<fate, row>>, StatusShut',
         \A s \in Symbols : pos'[s] \subseteq pos[s]
  PROVE  Tables'
<1>1. WithinMaxOpen'
  <2>1. Live' = Live
    BY DEF Live
  <2> QED
    BY <2>1, LiveBounds
<1>2. PositionHasRow'
  BY PickFacts DEF IInv, Tables, PositionHasRow, Held
<1> QED
  BY <1>1, <1>2 DEF IInv, Tables, FateOfRow

LEMMA TablesKept ==
  ASSUME IInv, UNCHANGED <<pos, fate, row, status, shut>>
  PROVE  Tables'
<1>1. StatusShut'
  BY DEF IInv, Tables, StatusShut
<1> QED
  BY <1>1, RowsKept

\* Halting shuts the account, and takes none back that is stopped.
LEMMA HaltsShut ==
  ASSUME IInv, Halts
  PROVE  /\ StatusShut' /\ status' \in {"OFF", "RUNNING", "HALTED", "STOPPED"}
         /\ shut' \in {"no", "halt", "over"}
BY DEF Halts, Halted, Shut, StatusShut, IInv, Tables, TypeOK

\* A step that writes only what belongs to the pick in hand, and gives it no
\* slot it did not have.
LEMMA HandWritten ==
  ASSUME IInv, It \in Picks, StatusShut',
         \A p \in Picks \ {It} : /\ row'[p] = row[p] /\ fate'[p] = fate[p]
                                 /\ p \in pos'[SymbolOf[p]] => p \in pos[SymbolOf[p]],
         row'[It] \in {"SENDING", "OPEN"} => row[It] \in {"SENDING", "OPEN"},
         row'[It] = "none" => fate'[It] = "none",
         row'[It] = "OPEN" => fate'[It] = "filled",
         \/ row'[It] \in {"SENDING", "OPEN"} \/ fate'[It] # "filled" \/ It \notin pos'[Coin]
  PROVE  Tables'
<1>1. WithinMaxOpen'
  <2>1. Live' \subseteq Live
    BY DEF Live
  <2> QED
    BY <2>1, LiveBounds
<1>2. PositionHasRow'
  BY DEF IInv, Tables, PositionHasRow, Held, Coin
<1>3. FateOfRow'
  BY DEF IInv, Tables, FateOfRow
<1> QED
  BY <1>1, <1>2, <1>3 DEF Tables

LEMMA TroubleFacts ==
  ASSUME TypeOK, Trouble
  PROVE  trouble' \in 0..MaxTrouble
BY BoundFacts DEF TypeOK, Trouble

-----------------------------------------------------------------------------
(* _reconcile *)

LEMMA StepReconciling ==
  ASSUME IInv, Reconciling
  PROVE  IInv'
<1> USE DEF venue
<1>a. TypeOK /\ Tables /\ InHand /\ StillListed
  BY DEF IInv
<1>b. /\ pass \in Pass /\ day \in Nat /\ day <= day
      /\ pass.todo # {} => It \in Picks /\ It \in pass.todo /\ Coin \in Symbols
  BY <1>a, HandFacts, BoundFacts DEF TypeOK
<1>1. ASSUME NEW foreign \in BOOLEAN, StartPass(foreign)  PROVE IInv'
  <2>1. StatusShut' /\ status' \in {"RUNNING", "HALTED", "STOPPED"} /\ shut' \in {"no", "halt", "over"}
    BY <1>1, <1>a DEF StartPass, Halted, Shut, StatusShut, Tables, TypeOK
  <2>2. Tables'
    BY <1>1, <2>1, RowsKept DEF StartPass
  <2>3. pass' \in Pass /\ pass'.at = "next" /\ pass'.phase = "check" /\ pass'.now = day
    BY <1>1, <1>a, IdleFacts DEF StartPass, Pass, Live, TypeOK
  <2>4. TypeOK'
    BY <1>1, <1>a, <2>1, <2>3 DEF StartPass, TypeOK
  <2>5. InHand' /\ StillListed'
    BY <1>1, <1>b, <2>3 DEF StartPass, InHand, StillListed
  <2> QED
    BY <2>2, <2>4, <2>5 DEF IInv
<1>2. CASE LookupFilled
  <2>1. Tables'
    BY <1>2, TablesKept DEF LookupFilled
  <2>2. Stays /\ pass.todo # {} /\ pass.at # "idle" /\ pass'.at = "opened"
    BY <1>2, <1>b DEF LookupFilled, Turn, Goto, Stays, Pass
  <2>3. PassType' /\ StillListed' /\ It' = It
    BY <1>2, <2>2, RowStays DEF LookupFilled
  <2>4. InHand'
    BY <1>2, <2>2, <2>3 DEF LookupFilled, InHand
  <2>5. TypeOK'
    BY <1>2, <1>a, <2>3 DEF LookupFilled, TypeOK, PassType
  <2> QED
    BY <2>1, <2>3, <2>4, <2>5 DEF IInv
<1>3. CASE LookupEmpty
  <2>1. Tables'
    BY <1>3, <1>a, <1>b, HandWritten
       DEF LookupEmpty, Turn, GivenUp, Tables, StatusShut, TypeOK
  <2>2. PassType' /\ InHand' /\ StillListed'
    BY <1>3, <1>a, <1>b, RowDone DEF LookupEmpty, Turn, TypeOK
  <2>3. TypeOK'
    BY <1>3, <1>a, <1>b, <2>2 DEF LookupEmpty, Turn, GivenUp, TypeOK, PassType
  <2> QED
    BY <2>1, <2>2, <2>3 DEF IInv
<1>4. CASE LookupMisses
  <2>1. Tables'
    BY <1>4, <1>a, <1>b, HandWritten
       DEF LookupMisses, Turn, GivenUp, Tables, StatusShut, TypeOK
  <2>2. PassType' /\ InHand' /\ StillListed'
    BY <1>4, <1>a, <1>b, RowDone DEF LookupMisses, Turn, TypeOK
  <2>3. TypeOK'
    BY <1>4, <1>a, <1>b, <2>2, TroubleFacts DEF LookupMisses, Turn, GivenUp, TypeOK, PassType
  <2> QED
    BY <2>1, <2>2, <2>3 DEF IInv
<1>5. CASE LookupFails
  <2>1. row' = row
    BY <1>5, <1>a DEF LookupFails, Unanswered, TypeOK
  <2>2. Tables'
    BY <1>5, <2>1, HaltsShut, RowsKept DEF LookupFails
  <2>3. PassType' /\ InHand' /\ StillListed'
    BY <1>5, <2>1, RowDone DEF LookupFails, Turn
  <2>4. TypeOK'
    <3>1. trouble' \in 0..MaxTrouble
      BY <1>5, <1>a, TroubleFacts DEF LookupFails
    <3>2. status' \in {"OFF", "RUNNING", "HALTED", "STOPPED"} /\ shut' \in {"no", "halt", "over"}
      BY <1>5, HaltsShut DEF LookupFails
    <3> QED
      BY <1>5, <1>a, <2>1, <2>3, <3>1, <3>2 DEF LookupFails, TypeOK, PassType
  <2> QED
    BY <2>2, <2>3, <2>4 DEF IInv
<1>6. CASE SeesHeld
  <2>1. Tables'
    BY <1>6, TablesKept DEF SeesHeld
  <2>2. Stays /\ pass.todo # {} /\ pass.at # "idle" /\ pass'.at = "stop"
    <3>1. flat[It] \in {"no", "since", "long"}
      BY <1>6, <1>a, <1>b DEF SeesHeld, Turn, TypeOK
    <3> QED
      BY <1>6, <1>b, <3>1 DEF SeesHeld, Turn, Stays, Pass
  <2>3. PassType' /\ StillListed' /\ It' = It
    BY <1>6, <2>2, RowStays DEF SeesHeld
  <2>4. InHand'
    BY <1>6, <2>2, <2>3 DEF SeesHeld, InHand
  <2>5. TypeOK'
    BY <1>6, <1>a, <2>3 DEF SeesHeld, TypeOK, PassType
  <2> QED
    BY <2>1, <2>3, <2>4, <2>5 DEF IInv
<1>7. CASE StopRests
  <2>1. Tables'
    BY <1>7, TablesKept DEF StopRests
  <2>2. PassType' /\ InHand' /\ StillListed'
    BY <1>7, <1>a, RowDone DEF StopRests, TypeOK
  <2>3. TypeOK'
    BY <1>7, <1>a, <2>2 DEF StopRests, TypeOK, PassType
  <2> QED
    BY <2>1, <2>2, <2>3 DEF IInv
<1>8. CASE NoStop
  <2>1. Tables'
    BY <1>8, TablesKept DEF NoStop
  <2>2. Stays /\ pass.todo # {} /\ pass.at # "idle" /\ pass'.at = "buy"
    BY <1>8, <1>a, <1>b DEF NoStop, Stays, Pass, TypeOK, Reasons
  <2>3. PassType' /\ StillListed' /\ It' = It
    BY <1>8, <2>2, RowStays DEF NoStop
  <2>4. InHand'
    BY <1>8, <1>a, <1>b, <2>2, <2>3 DEF NoStop, InHand, Reasons, Pass
  <2>5. TypeOK'
    BY <1>8, <1>a, <2>3 DEF NoStop, TypeOK, PassType
  <2> QED
    BY <2>1, <2>3, <2>4, <2>5 DEF IInv
<1>9. CASE SeesFlat
  <2>1. Tables'
    BY <1>9, TablesKept DEF SeesFlat
  <2>2. Stays /\ pass.todo # {} /\ pass.at # "idle" /\ pass'.at = "flat"
    <3>1. flat[It] \in {"no", "since", "long"}
      BY <1>9, <1>a, <1>b DEF SeesFlat, Turn, TypeOK
    <3> QED
      BY <1>9, <1>b, <3>1 DEF SeesFlat, Turn, Stays, Pass
  <2>3. PassType' /\ StillListed' /\ It' = It
    BY <1>9, <2>2, RowStays DEF SeesFlat
  <2>4. InHand'
    BY <1>9, <2>2, <2>3 DEF SeesFlat, InHand, Held, Coin
  <2>5. TypeOK'
    BY <1>9, <1>a, <2>3 DEF SeesFlat, TypeOK, PassType
  <2> QED
    BY <2>1, <2>3, <2>4, <2>5 DEF IInv
<1>10. CASE WaitForHistory
  <2>1. Tables'
    BY <1>10, TablesKept DEF WaitForHistory
  <2>2. PassType' /\ InHand' /\ StillListed'
    BY <1>10, <1>a, RowDone DEF WaitForHistory, TypeOK
  <2>3. row[It] = "OPEN" /\ It \in Picks
    BY <1>10, <1>a, <1>b DEF WaitForHistory, InHand, TypeOK
  <2>4. TypeOK'
    BY <1>10, <1>a, <2>2, <2>3 DEF WaitForHistory, TypeOK, PassType
  <2> QED
    BY <2>1, <2>2, <2>4 DEF IInv
<1>11. CASE ClosedAtVenue
  <2>1. It \in Picks /\ row[It] = "OPEN" /\ ~Held(It) /\ pass.todo # {}
    BY <1>11, <1>a, <1>b DEF ClosedAtVenue, InHand, TypeOK
  <2>2. Tables'
    BY <1>11, <1>a, <2>1, HandWritten
       DEF ClosedAtVenue, Tables, StatusShut, TypeOK, Held, Coin
  <2>3. Stays /\ pass.at # "idle" /\ pass'.at = "tidy"
    BY <1>11, <1>b, <2>1 DEF ClosedAtVenue, Stays, Pass
  <2>4. PassType' /\ StillListed' /\ It' = It
    BY <1>11, <1>a, <2>1, <2>3, RowStays DEF ClosedAtVenue, TypeOK
  <2>5. InHand'
    BY <2>3 DEF InHand
  <2>6. TypeOK'
    BY <1>11, <1>a, <2>1, <2>4 DEF ClosedAtVenue, TypeOK, PassType
  <2> QED
    BY <2>2, <2>4, <2>5, <2>6 DEF IInv
<1>12. CASE EndCheck
  <2>1. Tables'
    BY <1>12, TablesKept DEF EndCheck
  <2>2. /\ pass' \in Pass /\ pass'.at = "next" /\ pass'.phase = "exits"
        /\ pass'.todo = Overdue /\ pass'.now = pass.now
    BY <1>12, <1>b DEF EndCheck, Pass, Overdue
  <2>3. InHand' /\ StillListed'
    BY <1>12, <1>a, <2>2 DEF EndCheck, InHand, StillListed, Waiting, Overdue
  <2>4. TypeOK'
    BY <1>12, <1>a, <2>2 DEF EndCheck, TypeOK
  <2> QED
    BY <2>1, <2>3, <2>4 DEF IInv
<1> QED
  BY <1>1, <1>2, <1>3, <1>4, <1>5, <1>6, <1>7, <1>8, <1>9, <1>10, <1>11, <1>12 DEF Reconciling

-----------------------------------------------------------------------------
(* _close *)

LEMMA StepClosing ==
  ASSUME IInv, Closing
  PROVE  IInv'
<1> USE DEF venue
<1>a. TypeOK /\ Tables /\ InHand /\ StillListed
  BY DEF IInv
<1>b. /\ pass \in Pass /\ day \in Nat
      /\ pass.todo # {} => It \in Picks /\ It \in pass.todo /\ Coin \in Symbols
      /\ pass.at \notin {"idle", "next"} => pass.todo # {}
      /\ IInv
  BY <1>a, HandFacts, BoundFacts DEF TypeOK, IInv
<1>1. CASE TakeExit
  <2>1. Tables'
    BY <1>1, TablesKept DEF TakeExit
  <2>2. Stays /\ pass.todo # {} /\ pass.at # "idle" /\ pass'.at = "buy"
    <3>1. flat[It] \in {"no", "since", "long"}
      BY <1>1, <1>a, <1>b DEF TakeExit, Turn, TypeOK
    <3> QED
      BY <1>1, <1>b, <3>1 DEF TakeExit, Turn, Stays, Pass, Reasons
  <2>3. PassType' /\ StillListed' /\ It' = It
    BY <1>1, <2>2, RowStays DEF TakeExit
  <2>4. row[It] = "OPEN"
    BY <1>1, <1>a, <1>b DEF TakeExit, Turn, StillListed, Waiting
  <2>5. InHand'
    BY <1>1, <1>b, <2>2, <2>3, <2>4 DEF TakeExit, InHand, Reasons, Pass
  <2>6. TypeOK'
    BY <1>1, <1>a, <2>3 DEF TakeExit, TypeOK, PassType
  <2> QED
    BY <2>1, <2>3, <2>5, <2>6 DEF IInv
<1>2. ASSUME NEW ask \in BOOLEAN, ReadSize(ask)  PROVE IInv'
  <2>1. Tables'
    BY <1>2, TablesKept DEF ReadSize
  <2>2. /\ pass' = [pass EXCEPT !.at = pass'.at]
        /\ pass'.at \in {"sweep", "limit", "market", "halt"}
        /\ pass'.at = "sweep" => pos[Coin] = {}
    BY <1>2, <1>b DEF ReadSize, Goto, Pass
  <2>3. Stays /\ pass.todo # {} /\ pass.at # "idle"
    BY <1>2, <1>b, <2>2 DEF ReadSize, Stays, Pass
  <2>4. PassType' /\ StillListed' /\ It' = It
    BY <1>2, <2>3, RowStays DEF ReadSize
  <2>5. InHand'
    BY <1>2, <1>a, <1>b, <2>2, <2>4 DEF ReadSize, InHand, Held, Coin, Pass
  <2>6. TypeOK'
    BY <1>2, <1>a, <2>4 DEF ReadSize, TypeOK, PassType
  <2> QED
    BY <2>1, <2>4, <2>5, <2>6 DEF IInv
<1>3. CASE LegFills
  <2>1. row[It] = "OPEN" /\ pass.todo # {} /\ Coin \in Symbols
    BY <1>3, <1>a, <1>b DEF LegFills, Legs, InHand
  <2>2. Tables'
    <3>1. \A s \in Symbols : pos'[s] \subseteq pos[s]
      BY <1>3, <1>a DEF LegFills, TypeOK
    <3> QED
      BY <1>3, <1>a, <3>1, RowsKept DEF LegFills, Tables, StatusShut
  <2>3. Stays /\ pass.at # "idle" /\ pass'.at \in {"rest", "left"}
    BY <1>3, <1>b, <2>1 DEF LegFills, AfterLeg, Legs, Stays, Pass
  <2>4. PassType' /\ StillListed' /\ It' = It
    BY <1>3, <2>1, <2>3, RowStays DEF LegFills
  <2>5. InHand'
    BY <1>3, <1>a, <1>b, <2>1, <2>3, <2>4 DEF LegFills, Legs, InHand, Pass
  <2>6. LegOrder \in Picks \X Reasons \X Legs
    BY <1>3, <1>a, <1>b, <2>1 DEF LegFills, LegOrder, Legs, InHand
  <2>7. TypeOK'
    <3>1. pos' \in [Symbols -> SUBSET Picks] /\ last' \in [Symbols -> {"none", "STOP_LOSS", "OTHER"}]
      BY <1>3, <1>a DEF LegFills, TypeOK
    <3> QED
      BY <1>3, <1>a, <2>4, <2>6, <3>1 DEF LegFills, TypeOK, PassType
  <2> QED
    BY <2>2, <2>4, <2>5, <2>7 DEF IInv
<1>4. ASSUME NEW part \in BOOLEAN, LegFallsShort(part)  PROVE IInv'
  <2>1. row[It] = "OPEN" /\ pass.todo # {} /\ It \in Picks
    BY <1>4, <1>a, <1>b DEF LegFallsShort, Legs, InHand
  <2>2. Tables'
    BY <1>4, TablesKept DEF LegFallsShort
  <2>3. Stays /\ pass.at # "idle" /\ pass'.at \in {"rest", "left"} /\ pass'.why = pass.why
    BY <1>4, <1>b, <2>1 DEF LegFallsShort, AfterLeg, Legs, Stays, Pass
  <2>4. PassType' /\ StillListed' /\ It' = It
    BY <1>4, <2>1, <2>3, RowStays DEF LegFallsShort
  <2>5. InHand'
    BY <1>4, <1>a, <2>1, <2>3, <2>4 DEF LegFallsShort, Legs, InHand
  <2>6. LegOrder \in Picks \X Reasons \X Legs
    BY <1>4, <1>a, <2>1 DEF LegFallsShort, LegOrder, Legs, InHand
  <2>7. TypeOK'
    <3>1. last' \in [Symbols -> {"none", "STOP_LOSS", "OTHER"}]
      BY <1>4, <1>a DEF LegFallsShort, TypeOK
    <3>2. trouble' \in 0..MaxTrouble
      BY <1>4, <1>a, TroubleFacts DEF LegFallsShort, TypeOK
    <3> QED
      BY <1>4, <1>a, <2>4, <2>6, <3>1, <3>2 DEF LegFallsShort, TypeOK, PassType
  <2> QED
    BY <2>2, <2>4, <2>5, <2>7 DEF IInv
<1>5. CASE LegRefused
  <2>1. Tables'
    BY <1>5, TablesKept DEF LegRefused
  <2>2. PassType' /\ InHand' /\ StillListed'
    BY <1>5, <1>b, PassEnds DEF LegRefused
  <2>3. TypeOK'
    BY <1>5, <1>a, <2>2 DEF LegRefused, TypeOK, PassType
  <2> QED
    BY <2>1, <2>2, <2>3 DEF IInv
<1>6. ASSUME NEW fills \in BOOLEAN, LegUnanswered(fills)  PROVE IInv'
  <2>1. It \in Picks /\ LegOrder \in Picks \X Reasons \X Legs
    BY <1>6, <1>a, <1>b DEF LegUnanswered, LegOrder, Legs, InHand
  <2>2. Tables'
    <3>1. \A s \in Symbols : pos'[s] \subseteq pos[s]
      BY <1>6, <1>a DEF LegUnanswered, TypeOK
    <3> QED
      BY <1>6, <1>a, <3>1, RowsKept DEF LegUnanswered, Tables, StatusShut
  <2>3. PassType' /\ InHand' /\ StillListed'
    BY <1>6, <1>b, PassEnds DEF LegUnanswered
  <2>4. TypeOK'
    <3>1. pos' \in [Symbols -> SUBSET Picks] /\ last' \in [Symbols -> {"none", "STOP_LOSS", "OTHER"}]
      BY <1>6, <1>a DEF LegUnanswered, TypeOK
    <3>2. trouble' \in 0..MaxTrouble
      BY <1>6, <1>a, TroubleFacts DEF LegUnanswered
    <3> QED
      BY <1>6, <1>a, <2>1, <2>3, <3>1, <3>2 DEF LegUnanswered, TypeOK, PassType
  <2> QED
    BY <2>2, <2>3, <2>4 DEF IInv
<1>7. CASE Sweep
  <2>1. Tables'
    BY <1>7, TablesKept DEF Sweep
  <2>2. PassType' /\ InHand' /\ StillListed'
    <3>1. CASE pass' = Done
      BY <1>7, <1>b, <3>1, RowDone DEF Sweep
    <3>2. CASE pass' # Done
      <4>1. /\ pass' = [pass EXCEPT !.at = pass'.at] /\ pass'.at \in {"halt", "book", "flat"}
            /\ pass'.at \in {"book", "flat"} => pass.at = "sweep"
        <5>1. PICK place \in {"halt", "book", "flat"} :
                /\ pass' = [pass EXCEPT !.at = place]
                /\ place \in {"book", "flat"} => pass.at = "sweep"
          BY <1>7, <3>2 DEF Sweep, Goto
        <5> QED
          BY <1>b, <5>1 DEF Pass
      <4>2. Stays /\ pass.todo # {} /\ pass.at # "idle"
        BY <1>7, <1>b, <4>1 DEF Sweep, Stays, Pass
      <4>3. PassType' /\ StillListed' /\ It' = It
        BY <1>7, <4>2, RowStays DEF Sweep
      <4>4. InHand'
        BY <1>7, <1>a, <4>1, <4>3 DEF Sweep, InHand, Held
      <4> QED
        BY <4>3, <4>4
    <3> QED
      BY <3>1, <3>2
  <2>3. TypeOK'
    BY <1>7, <1>a, <2>2 DEF Sweep, Swept, TypeOK, PassType
  <2> QED
    BY <2>1, <2>2, <2>3 DEF IInv
<1>8. CASE Book
  <2>1. row[It] = "OPEN" /\ ~Held(It) /\ pass.todo # {} /\ It \in Picks
    BY <1>8, <1>a, <1>b DEF Book, InHand
  <2>2. Tables'
    BY <1>8, <1>a, <2>1, HandWritten DEF Book, Tables, StatusShut, TypeOK, Held, Coin
  <2>3. \A p \in Picks \ {It} : row'[p] = row[p]
    BY <1>8, <1>a DEF Book, TypeOK
  <2>4. PassType' /\ InHand' /\ StillListed'
    <3>1. CASE pass' = Done
      BY <1>8, <1>b, <2>3, <3>1, RowDone DEF Book
    <3>2. CASE pass' # Done
      <4>1. Stays /\ pass.todo # {} /\ pass.at # "idle" /\ pass'.at = "halt"
        BY <1>8, <1>b, <3>2 DEF Book, Goto, Stays, Pass
      <4>2. PassType' /\ StillListed'
        BY <1>8, <2>3, <4>1, RowStays DEF Book
      <4>3. InHand'
        BY <4>1 DEF InHand
      <4> QED
        BY <4>2, <4>3
    <3> QED
      BY <3>1, <3>2
  <2>5. TypeOK'
    BY <1>8, <1>a, <2>1, <2>4 DEF Book, TypeOK, PassType
  <2> QED
    BY <2>2, <2>4, <2>5 DEF IInv
<1>9. CASE HaltOrStop
  <2>1. /\ StatusShut' /\ status' \in {"OFF", "RUNNING", "HALTED", "STOPPED"}
        /\ shut' \in {"no", "halt", "over"}
    BY <1>9, HaltsShut DEF HaltOrStop, StatusShut
  <2>2. Tables'
    BY <1>9, <2>1, RowsKept DEF HaltOrStop
  <2>3. PassType' /\ InHand' /\ StillListed'
    BY <1>9, <1>b, RowDone DEF HaltOrStop
  <2>4. TypeOK'
    BY <1>9, <1>a, <2>1, <2>3 DEF HaltOrStop, TypeOK, PassType
  <2> QED
    BY <2>2, <2>3, <2>4 DEF IInv
<1> QED
  BY <1>1, <1>2, <1>3, <1>4, <1>5, <1>6, <1>7, <1>8, <1>9 DEF Closing

-----------------------------------------------------------------------------
(* _entries *)

\* A row that takes a slot while there is room.
LEMMA RoomForIt ==
  ASSUME IInv, It \in Picks, row[It] = "none", HasRoom, row' = [row EXCEPT ![It] = "SENDING"]
  PROVE  WithinMaxOpen'
<1>1. IsFiniteSet(Live) /\ Cardinality(Live) \in Nat /\ It \notin Live
  BY PickFacts, FS_Subset, FS_CardinalityType DEF Live
<1>2. Live' = Live \cup {It}
  BY DEF Live, IInv, TypeOK
<1>3. Cardinality(Live') = Cardinality(Live) + 1
  BY <1>1, <1>2, FS_AddElement
<1>4. Cardinality(Live') <= MaxOpen
  BY <1>1, <1>3, BoundFacts DEF HasRoom
<1> QED
  BY <1>4 DEF WithinMaxOpen

\* What an order of the pick in hand does at the venue.
LEMMA LandsFacts ==
  ASSUME TypeOK, It \in Picks, NEW outcome \in {"filled", "dead", "out"},
         NEW bracket \in BOOLEAN, Lands(outcome, bracket)
  PROVE  /\ pos' \in [Symbols -> SUBSET Picks] /\ stopped' \subseteq Symbols
         /\ fate' \in [Picks -> {"none", "filled", "dead", "out", "missed"}]
         /\ last' = last /\ spent' = spent /\ fate'[It] = outcome
         /\ \A p \in Picks \ {It} : /\ fate'[p] = fate[p]
                                    /\ p \in pos'[SymbolOf[p]] => p \in pos[SymbolOf[p]]
<1>1. Coin \in Symbols
  BY PickFacts DEF Coin
<1>2. /\ pos' \in [Symbols -> SUBSET Picks] /\ stopped' \subseteq Symbols
      /\ \A s \in Symbols : pos'[s] \subseteq pos[s] \cup {It}
  BY <1>1 DEF Lands, TypeOK
<1>3. /\ fate' \in [Picks -> {"none", "filled", "dead", "out", "missed"}] /\ fate'[It] = outcome
      /\ \A p \in Picks \ {It} : fate'[p] = fate[p]
  BY DEF Lands, TypeOK
<1> QED
  BY <1>2, <1>3, PickFacts DEF Lands

\* An entry order leaves, and its row stays SENDING.
LEMMA LandsKeeps ==
  ASSUME IInv, pass.at = "send", NEW outcome \in {"filled", "dead", "out"},
         NEW bracket \in BOOLEAN, Lands(outcome, bracket), row' = row, StatusShut'
  PROVE  Tables'
<1>1. It \in Picks /\ row[It] = "SENDING"
  BY HandFacts DEF IInv, TypeOK, InHand
<1> QED
  BY <1>1, LandsFacts, HandWritten DEF IInv

LEMMA StepEntering ==
  ASSUME IInv, Entering
  PROVE  IInv'
<1>a. TypeOK /\ Tables /\ InHand /\ StillListed
  BY DEF IInv
<1>b. /\ pass \in Pass /\ day \in Nat
      /\ pass.todo # {} => It \in Picks /\ It \in pass.todo /\ Coin \in Symbols
      /\ pass.at \notin {"idle", "next"} => pass.todo # {}
      /\ IInv
  BY <1>a, HandFacts, BoundFacts DEF TypeOK, IInv
<1>1. ASSUME NEW open \in BOOLEAN, EndExits(open)  PROVE IInv'
  <2>1. Tables'
    BY <1>1, TablesKept DEF EndExits, venue
  <2>2. PassType' /\ InHand' /\ StillListed'
    <3>1. CASE pass' = Idle
      BY <1>1, <1>b, <3>1, PassEnds DEF EndExits
    <3>2. CASE pass' # Idle
      <4>1. /\ pass' \in Pass /\ pass'.at = "next" /\ pass'.phase = "entries"
            /\ pass'.todo = Undone /\ pass'.now = pass.now
        BY <1>1, <1>b, <3>2 DEF EndExits, Pass, Undone
      <4>2. \A p \in Undone : row[p] = "none" /\ DayOf[p] = pass.now
        BY DEF Undone
      <4>3. InHand' /\ PassType'
        BY <4>1 DEF InHand, PassType
      <4>4. StillListed'
        BY <1>1, <1>a, <4>1, <4>2 DEF EndExits, StillListed, Waiting
      <4> QED
        BY <4>3, <4>4
    <3> QED
      BY <3>1, <3>2
  <2>3. TypeOK'
    BY <1>1, <1>a, <2>2 DEF EndExits, TypeOK, PassType, venue
  <2> QED
    BY <2>1, <2>2, <2>3 DEF IInv
<1>2. CASE EndEntries
  <2>1. Tables'
    BY <1>2, TablesKept DEF EndEntries, venue
  <2>2. PassType' /\ InHand' /\ StillListed'
    BY <1>2, <1>b, PassEnds DEF EndEntries
  <2>3. TypeOK'
    BY <1>2, <1>a, <2>2 DEF EndEntries, TypeOK, PassType, venue
  <2> QED
    BY <2>1, <2>2, <2>3 DEF IInv
<1>3. ASSUME NEW why \in {None, "FLOOR", "OTHER"}, Skip(why)  PROVE IInv'
  <2>1. /\ It \in Picks /\ row[It] = "none" /\ DayOf[It] <= day
        /\ pass.todo # {} /\ pass.at = "next"
    BY <1>3, <1>a, <1>b DEF Skip, Turn, StillListed, Waiting
  <2>2. Tables'
    <3>1. fate[It] # "filled" /\ StatusShut'
      BY <1>3, <1>a, <2>1 DEF Skip, Tables, FateOfRow, StatusShut
    <3> QED
      BY <1>3, <1>a, <1>b, <2>1, <3>1, HandWritten DEF Skip, TypeOK, venue
  <2>3. \A p \in Picks \ {It} : row'[p] = row[p]
    BY <1>3, <1>a DEF Skip, TypeOK
  <2>4. PassType' /\ InHand' /\ StillListed'
    <3>1. CASE pass' = Done
      BY <1>3, <1>b, <2>1, <2>3, <3>1, RowDone DEF Skip
    <3>2. CASE pass' # Done
      <4>1. Stays /\ pass'.at = "halt"
        BY <1>3, <1>b, <2>1, <3>2 DEF Skip, Stays, Pass
      <4>2. PassType' /\ StillListed'
        BY <1>3, <1>b, <2>1, <2>3, <4>1, RowStays DEF Skip
      <4>3. InHand'
        BY <4>1 DEF InHand
      <4> QED
        BY <4>2, <4>3
    <3> QED
      BY <3>1, <3>2
  <2>5. TypeOK'
    BY <1>3, <1>a, <2>1, <2>4 DEF Skip, TypeOK, PassType, venue
  <2> QED
    BY <2>2, <2>4, <2>5 DEF IInv
<1>4. CASE Reserve
  <2>1. /\ It \in Picks /\ row[It] = "none" /\ DayOf[It] <= day
        /\ pass.todo # {} /\ pass.at = "next"
    BY <1>4, <1>a, <1>b DEF Reserve, Turn, StillListed, Waiting
  <2>2. fate[It] = "none" /\ shut = "no"
    BY <1>4, <1>a, <2>1 DEF Reserve, MayGoOn, Tables, FateOfRow, StatusShut
  <2>3. Tables'
    <3>1. WithinMaxOpen'
      BY <1>4, <1>b, <2>1, RoomForIt DEF Reserve
    <3>2. PositionHasRow' /\ FateOfRow' /\ StatusShut'
      BY <1>4, <1>a, <2>1, <2>2
         DEF Reserve, Tables, PositionHasRow, Held, FateOfRow, StatusShut, TypeOK, venue
    <3> QED
      BY <3>1, <3>2 DEF Tables
  <2>4. Stays /\ pass'.at = "send"
    BY <1>4, <1>b, <2>1 DEF Reserve, Goto, Stays, Pass
  <2>5. PassType' /\ StillListed' /\ It' = It
    BY <1>4, <1>a, <1>b, <2>1, <2>4, RowStays DEF Reserve, TypeOK
  <2>6. InHand'
    BY <1>4, <1>a, <2>1, <2>2, <2>4, <2>5 DEF Reserve, InHand, TypeOK, venue
  <2>7. TypeOK'
    BY <1>4, <1>a, <2>1, <2>5 DEF Reserve, TypeOK, PassType, venue
  <2> QED
    BY <2>3, <2>5, <2>6, <2>7 DEF IInv
<1>5. ASSUME NEW bracket \in BOOLEAN, SendFilled(bracket)  PROVE IInv'
  <2>1. /\ It \in Picks /\ row[It] = "SENDING" /\ fate'[It] = "filled" /\ StatusShut'
        /\ pass.todo # {}
    BY <1>5, <1>a, <1>b, LandsFacts DEF SendFilled, InHand, Tables, StatusShut
  <2>2. Tables'
    BY <1>5, <1>b, <2>1, LandsKeeps DEF SendFilled
  <2>3. Stays /\ pass'.at = "opened" /\ pass.at # "idle"
    BY <1>5, <1>b, <2>1 DEF SendFilled, Goto, Stays, Pass
  <2>4. PassType' /\ StillListed' /\ It' = It
    BY <1>5, <1>b, <2>1, <2>3, RowStays DEF SendFilled
  <2>5. InHand'
    BY <1>5, <2>1, <2>3, <2>4 DEF SendFilled, InHand
  <2>6. TypeOK'
    <3>1. trouble' \in 0..MaxTrouble
      BY <1>5, <1>a, TroubleFacts DEF SendFilled, TypeOK
    <3> QED
      BY <1>5, <1>a, <2>1, <2>4, <3>1, LandsFacts DEF SendFilled, TypeOK, PassType
  <2> QED
    BY <2>2, <2>4, <2>5, <2>6 DEF IInv
<1>6. ASSUME NEW result \in {"SKIPPED", "FAILED"}, SendFails(result)  PROVE IInv'
  <2>1. It \in Picks /\ row[It] = "SENDING" /\ StatusShut' /\ pass.todo # {}
    BY <1>6, <1>a, <1>b DEF SendFails, InHand, Tables, StatusShut
  <2>2. /\ \A p \in Picks \ {It} : row'[p] = row[p]
        /\ row'[It] \in {"SKIPPED", "FAILED"} /\ fate'[It] = "dead"
    BY <1>6, <1>a, <2>1, LandsFacts DEF SendFails, TypeOK
  <2>3. Tables'
    BY <1>6, <1>a, <1>b, <2>1, <2>2, LandsFacts, HandWritten DEF SendFails
  <2>4. PassType' /\ InHand' /\ StillListed'
    BY <1>6, <1>b, <2>1, <2>2, RowDone DEF SendFails
  <2>5. TypeOK'
    BY <1>6, <1>a, <2>1, <2>4, LandsFacts DEF SendFails, TypeOK, PassType
  <2> QED
    BY <2>3, <2>4, <2>5 DEF IInv
<1>7. ASSUME NEW outcome \in {"filled", "dead", "out"}, SendUnanswered(outcome)  PROVE IInv'
  <2>1. It \in Picks /\ row[It] = "SENDING" /\ pass.todo # {}
    BY <1>7, <1>a, <1>b DEF SendUnanswered, InHand
  <2>2. Tables'
    BY <1>7, <1>b, LandsKeeps, HaltsShut DEF SendUnanswered
  <2>3. PassType' /\ InHand' /\ StillListed'
    BY <1>7, <1>b, <2>1, RowDone DEF SendUnanswered
  <2>4. TypeOK'
    <3>1. /\ trouble' \in 0..MaxTrouble
          /\ status' \in {"OFF", "RUNNING", "HALTED", "STOPPED"} /\ shut' \in {"no", "halt", "over"}
      BY <1>7, <1>a, <1>b, TroubleFacts, HaltsShut DEF SendUnanswered
    <3> QED
      BY <1>7, <1>a, <2>1, <2>3, <3>1, LandsFacts DEF SendUnanswered, TypeOK, PassType
  <2> QED
    BY <2>2, <2>3, <2>4 DEF IInv
<1>8. ASSUME NEW outcome \in {"filled", "dead", "out"}, SendDies(outcome)  PROVE IInv'
  <2>1. It \in Picks /\ StatusShut'
    BY <1>8, <1>a, <1>b DEF SendDies, Tables, StatusShut
  <2>2. Tables'
    BY <1>8, <1>b, <2>1, LandsKeeps DEF SendDies
  <2>3. PassType' /\ InHand' /\ StillListed'
    BY <1>8, <1>b, PassEnds DEF SendDies
  <2>4. TypeOK'
    <3>1. trouble' \in 0..MaxTrouble
      BY <1>8, <1>a, TroubleFacts DEF SendDies
    <3> QED
      BY <1>8, <1>a, <2>1, <2>3, <3>1, LandsFacts DEF SendDies, TypeOK, PassType
  <2> QED
    BY <2>2, <2>3, <2>4 DEF IInv
<1>9. CASE Opened
  <2>1. It \in Picks /\ row[It] = "SENDING" /\ fate[It] = "filled" /\ pass.todo # {}
    BY <1>9, <1>a, <1>b DEF Opened, InHand
  <2>2. Tables'
    BY <1>9, <1>a, <1>b, <2>1, HandWritten DEF Opened, Tables, StatusShut, TypeOK, venue
  <2>3. Stays /\ pass'.at = "watch" /\ pass.at # "idle"
    BY <1>9, <1>b, <2>1 DEF Opened, Goto, Stays, Pass
  <2>4. PassType' /\ StillListed' /\ It' = It
    BY <1>9, <1>a, <1>b, <2>1, <2>3, RowStays DEF Opened, TypeOK
  <2>5. InHand'
    BY <1>9, <1>a, <2>1, <2>3, <2>4 DEF Opened, InHand, TypeOK
  <2>6. TypeOK'
    BY <1>9, <1>a, <2>1, <2>4 DEF Opened, TypeOK, PassType, venue
  <2> QED
    BY <2>2, <2>4, <2>5, <2>6 DEF IInv
<1> QED
  BY <1>1, <1>2, <1>3, <1>4, <1>5, <1>6, <1>7, <1>8, <1>9 DEF Entering

-----------------------------------------------------------------------------
(* Everybody else *)

LEMMA StepOthers ==
  ASSUME IInv, Others
  PROVE  IInv'
<1> USE DEF venue
<1>a. TypeOK /\ Tables /\ InHand /\ StillListed
  BY DEF IInv
<1>b. day \in Nat /\ day <= day /\ IInv
  BY <1>a, BoundFacts DEF TypeOK, IInv
<1>1. CASE Abort
  <2>1. Tables'
    BY <1>1, TablesKept DEF Abort
  <2>2. PassType' /\ InHand' /\ StillListed'
    BY <1>1, <1>b, PassEnds DEF Abort
  <2>3. TypeOK'
    BY <1>1, <1>a, <2>2, TroubleFacts DEF Abort, TypeOK, PassType
  <2> QED
    BY <2>1, <2>2, <2>3 DEF IInv
<1>2. CASE TurnOff
  <2>1. /\ StatusShut' /\ status' \in {"OFF", "RUNNING", "HALTED", "STOPPED"}
        /\ trouble' \in 0..MaxTrouble
    BY <1>2, <1>a, TroubleFacts DEF TurnOff, SwitchedOff, Tables, StatusShut, TypeOK
  <2>2. Tables'
    BY <1>2, <2>1, RowsKept DEF TurnOff
  <2>3. PassType' /\ StillListed' /\ It' = It
    BY <1>2, <1>b, PassWaits DEF TurnOff
  <2>4. InHand'
    BY <1>2, <1>b, HandWaits DEF TurnOff, Held
  <2>5. TypeOK'
    BY <1>2, <1>a, <2>1, <2>3 DEF TurnOff, TypeOK, PassType
  <2> QED
    BY <2>2, <2>3, <2>4, <2>5 DEF IInv
<1>3. CASE TurnOn
  <2>1. Tables'
    BY <1>3, TablesKept DEF TurnOn
  <2>2. PassType' /\ StillListed'
    BY <1>3, <1>b, PassWaits DEF TurnOn
  <2>3. InHand'
    BY <1>3, <1>b, HandWaits DEF TurnOn, Held
  <2>4. TypeOK'
    BY <1>3, <1>a, <2>2 DEF TurnOn, TypeOK, PassType
  <2> QED
    BY <2>1, <2>2, <2>3, <2>4 DEF IInv
<1>4. CASE Resume
  <2>1. StatusShut' /\ shut' \in {"no", "halt", "over"} /\ (shut = "no" => shut' = "no")
    BY <1>4, <1>a DEF Resume, Tables, StatusShut, TypeOK
  <2>2. Tables'
    BY <1>4, <2>1, RowsKept DEF Resume
  <2>3. PassType' /\ StillListed'
    BY <1>4, <1>b, PassWaits DEF Resume
  <2>4. InHand'
    BY <1>4, <1>b, <2>1, HandWaits DEF Resume, Held
  <2>5. TypeOK'
    BY <1>4, <1>a, <2>1, <2>3 DEF Resume, TypeOK, PassType
  <2> QED
    BY <2>2, <2>3, <2>4, <2>5 DEF IInv
<1>5. CASE Midnight
  <2>1. Tables'
    BY <1>5, TablesKept DEF Midnight
  <2>2. day' \in 0..MaxDay /\ day' \in Nat /\ day <= day'
    BY <1>5, <1>a, BoundFacts DEF Midnight, TypeOK
  <2>3. PassType' /\ StillListed'
    BY <1>5, <1>b, <2>2, PassWaits DEF Midnight
  <2>4. InHand'
    BY <1>5, <1>b, HandWaits DEF Midnight, Held
  <2>5. TypeOK'
    <3>1. \A p \in Picks : row[p] # "none" => DayOf[p] <= day'
      BY <1>a, <2>2, <1>b, PickFacts DEF TypeOK
    <3> QED
      BY <1>5, <1>a, <2>2, <2>3, <3>1 DEF Midnight, TypeOK, PassType
  <2> QED
    BY <2>1, <2>3, <2>4, <2>5 DEF IInv
<1>6. ASSUME NEW s \in Symbols, StopFires(s) \/ \E seen \in BOOLEAN : EndsOddly(s, seen)
      PROVE  IInv'
  <2>1. /\ UNCHANGED <<fate, row, flat, status, on, pass, day, shut, spent>>
        /\ pos' = [pos EXCEPT ![s] = {}] /\ stopped' \subseteq stopped
        /\ last' \in [Symbols -> {"none", "STOP_LOSS", "OTHER"}] /\ trouble' \in 0..MaxTrouble
    BY <1>6, <1>a, TroubleFacts DEF StopFires, EndsOddly, TypeOK
  <2>2. pos' \in [Symbols -> SUBSET Picks] /\ \A c \in Symbols : pos'[c] \subseteq pos[c]
    BY <1>a, <2>1 DEF TypeOK
  <2>3. Tables'
    BY <1>a, <1>b, <2>1, <2>2, RowsKept DEF Tables, StatusShut
  <2>4. PassType' /\ StillListed'
    BY <1>b, <2>1, PassWaits
  <2>5. InHand'
    BY <1>b, <2>1, <2>2, HandWaits, PickFacts DEF Held
  <2>6. TypeOK'
    BY <1>a, <2>1, <2>2, <2>4 DEF TypeOK, PassType
  <2> QED
    BY <2>3, <2>4, <2>5, <2>6 DEF IInv
<1>7. ASSUME NEW s \in Symbols, StopVanishes(s)  PROVE IInv'
  <2>1. Tables'
    BY <1>7, TablesKept DEF StopVanishes
  <2>2. PassType' /\ StillListed'
    BY <1>7, <1>b, PassWaits DEF StopVanishes
  <2>3. InHand'
    BY <1>7, <1>b, HandWaits DEF StopVanishes, Held
  <2>4. TypeOK'
    BY <1>7, <1>a, <2>2, TroubleFacts DEF StopVanishes, TypeOK, PassType
  <2> QED
    BY <2>1, <2>2, <2>3, <2>4 DEF IInv
<1>8. ASSUME NEW p \in Picks, FillsLate(p)  PROVE IInv'
  <2>1. /\ fate' \in [Picks -> {"none", "filled", "dead", "out", "missed"}]
        /\ fate[p] = "out" /\ (fate'[p] = "filled" => row[p] = "SENDING")
        /\ fate'[p] \in {"filled", "missed"}
        /\ \A q \in Picks \ {p} : fate'[q] = fate[q]
    BY <1>8, <1>a DEF FillsLate, TypeOK
  <2>2. /\ SymbolOf[p] \in Symbols /\ pos' \in [Symbols -> SUBSET Picks]
        /\ \A c \in Symbols : pos'[c] \subseteq pos[c] \cup {p}
    BY <1>8, <1>a, PickFacts DEF FillsLate, TypeOK
  <2>3. Tables'
    <3>1. WithinMaxOpen'
      <4>1. Live' = Live
        BY <1>8 DEF FillsLate, Live
      <4> QED
        BY <1>b, <4>1, LiveBounds
    <3>2. PositionHasRow'
      BY <1>8, <1>a, <2>1, <2>2, PickFacts DEF FillsLate, Tables, PositionHasRow, Held
    <3>3. FateOfRow' /\ StatusShut'
      BY <1>8, <1>a, <2>1 DEF FillsLate, Tables, FateOfRow, StatusShut
    <3> QED
      BY <3>1, <3>2, <3>3 DEF Tables
  <2>4. PassType' /\ StillListed'
    BY <1>8, <1>b, PassWaits DEF FillsLate
  <2>5. InHand'
    <3>1. \A q \in Picks : fate[q] \in {"none", "filled"} => fate'[q] = fate[q]
      BY <2>1
    <3>2. \A q \in Picks : fate[q] = "filled" /\ ~Held(q) => ~(q \in pos'[SymbolOf[q]])
      BY <2>1, <2>2, PickFacts DEF Held
    <3> QED
      BY <1>8, <1>b, <3>1, <3>2, HandWaits DEF FillsLate, Held
  <2>6. TypeOK'
    BY <1>8, <1>a, <2>1, <2>2, <2>4 DEF FillsLate, TypeOK, PassType
  <2> QED
    BY <2>3, <2>4, <2>5, <2>6 DEF IInv
<1>9. ASSUME NEW p \in Picks, FlatLong(p)  PROVE IInv'
  <2>1. Tables'
    BY <1>9, TablesKept DEF FlatLong
  <2>2. PassType' /\ StillListed'
    BY <1>9, <1>b, PassWaits DEF FlatLong
  <2>3. InHand'
    BY <1>9, <1>b, HandWaits DEF FlatLong, Held
  <2>4. TypeOK'
    BY <1>9, <1>a, <2>2 DEF FlatLong, TypeOK, PassType
  <2> QED
    BY <2>1, <2>2, <2>3, <2>4 DEF IInv
<1> QED
  BY <1>1, <1>2, <1>3, <1>4, <1>5, <1>6, <1>7, <1>8, <1>9 DEF Others

-----------------------------------------------------------------------------
(* The theorems *)

LEMMA InitIInv == Init => IInv
<1> SUFFICES ASSUME Init PROVE IInv
  OBVIOUS
<1>1. TypeOK
  <2>1. Idle \in Pass /\ 0 \in 0..MaxDay /\ 0 \in 0..MaxTrouble
    BY BoundFacts DEF Idle, Pass
  <2> QED
    BY <2>1 DEF Init, TypeOK, Idle
<1>2. WithinMaxOpen
  <2>1. Live = {}
    BY DEF Init, Live
  <2> QED
    BY <2>1, FS_EmptySet, BoundFacts DEF WithinMaxOpen
<1>3. PositionHasRow /\ FateOfRow /\ StatusShut
  BY DEF Init, PositionHasRow, FateOfRow, StatusShut
<1>4. InHand /\ StillListed
  BY DEF Init, InHand, StillListed, Idle
<1> QED
  BY <1>1, <1>2, <1>3, <1>4 DEF IInv, Tables

LEMMA Inductive == IInv /\ [Next]_vars => IInv'
<1> SUFFICES ASSUME IInv, [Next]_vars PROVE IInv'
  OBVIOUS
<1>1. CASE Next
  BY <1>1, StepReconciling, StepClosing, StepEntering, StepOthers DEF Next, Process
<1>2. CASE UNCHANGED vars
  <2>1. UNCHANGED <<pos, stopped, last, spent, fate, row, flat, status, on, pass, day, shut, trouble>>
    BY <1>2 DEF vars, venue
  <2>2. day \in Nat /\ day <= day
    BY BoundFacts DEF IInv, TypeOK
  <2>3. Tables'
    BY <2>1, TablesKept
  <2>4. StillListed' /\ PassType'
    BY <2>1, <2>2, PassWaits
  <2>5. InHand'
    BY <2>1, HandWaits DEF Held
  <2>6. TypeOK'
    BY <2>1 DEF IInv, TypeOK
  <2> QED
    BY <2>3, <2>4, <2>5, <2>6 DEF IInv
<1> QED
  BY <1>1, <1>2

\* IInv is an invariant of every behaviour.
THEOREM Invariant == Spec => []IInv
BY InitIInv, Inductive, PTL DEF Spec

\* Every variable keeps its type, and the row in hand is always one.
THEOREM TypeCorrect == Spec => []TypeOK
<1>1. IInv => TypeOK
  BY DEF IInv
<1> QED
  BY <1>1, Invariant, PTL

\* No position is forgotten before it is flat: the row of an entry that filled
\* stays worked on while its contracts are at the venue.
THEOREM NoneForgotten == Spec => []PositionHasRow
<1>1. IInv => PositionHasRow
  BY DEF IInv, Tables
<1> QED
  BY <1>1, Invariant, PTL

\* Rows that hold or may hold a position never exceed MAX_OPEN.
THEOREM SlotsBounded == Spec => []WithinMaxOpen
<1>1. IInv => WithinMaxOpen
  BY DEF IInv, Tables
<1> QED
  BY <1>1, Invariant, PTL

\* A pick is sold once, and none while the account is shut.
THEOREM SoldOnceNeverShut == Spec => SoldOnceAndNotShut
<1>1. IInv => (Sends => fate[It] = "none" /\ shut = "no")
  BY DEF IInv, InHand, Sends
<1> QED
  BY <1>1, Invariant, PTL DEF SoldOnceAndNotShut, Spec

============================================================================

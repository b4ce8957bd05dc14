--------------------- MODULE LiveExecution_gate_proofs ---------------------
(***************************************************************************)
(* LiveExecution implements ExposureGate: the inductive invariant of       *)
(* LiveExecution_proofs makes every step one step of the gate, or none.    *)
(***************************************************************************)
EXTENDS LiveExecution_proofs

USE DEF dbVars, venueVars, barVars, pollVars, At, BarIdle, PollIdle, Gate!gateVars

GateStep == [Gate!Next]_(Gate!gateVars)

(***************************************************************************)
(* Only entries of the model are live or hold a slot.                      *)
(***************************************************************************)
LEMMA OnlyIntents ==
  ASSUME IInv
  PROVE  Live \subseteq Intents /\ Holding \subseteq Intents
BY DEF IInv, TypeOK, Live, InFlight, Holding, Reserving, OpenRows

(***************************************************************************)
(* A step that only ends what is live finishes it, and a step that only    *)
(* frees slots gives them back: what is live keeps its slot.               *)
(***************************************************************************)
LEMMA FinishOrGiveBack ==
  ASSUME IInv, IInv', Holding' \subseteq Holding, Live' \subseteq Live,
         Holding' = Holding \/ Live' = Live
  PROVE  GateStep
<1>1. CASE Holding' = Holding
  <2>1. Gate!Finish(Live \ Live')
    BY <1>1 DEF Gate!Finish
  <2>2. Live \ Live' \in SUBSET Intents
    BY OnlyIntents
  <2> QED
    BY <2>1, <2>2 DEF GateStep, Gate!Next
<1>2. CASE Live' = Live
  <2>1. Gate!GiveBack(Holding \ Holding')
    BY <1>2 DEF Gate!GiveBack, IInv, LiveHoldsSlot
  <2>2. Holding \ Holding' \in SUBSET Intents
    BY OnlyIntents
  <2> QED
    BY <2>1, <2>2 DEF GateStep, Gate!Next
<1> QED
  BY <1>1, <1>2

(***************************************************************************)
(* The reservation acquires: the database counts at least the holders.     *)
(***************************************************************************)
LEMMA ReserveAcquires ==
  ASSUME IInv, Reserve
  PROVE  GateStep
<1> DEFINE i == bar.intent
<1>1. i \in Intents /\ order[i] = None /\ row[i] = None /\ EffectiveExposure < MaxOpen
  BY DEF IInv, BarHoldsSlot, RowsFollowFate, Reserve, CanReserve
<1>2. i \notin Holding
  BY <1>1, NoneAssumption DEF Holding, Reserving, OpenRows
<1>3. Cardinality(Holding) < MaxOpen
  BY <1>1, GateCountsHolding, FS_CardinalityType, MaxOpenAssumption DEF IInv
<1>4. Holding' = Holding \cup {i}
  <2>1. i \notin linked
    BY <1>1 DEF IInv, RowsFollowFate
  <2>2. order' = [order EXCEPT ![i] = "WORKING"] /\ UNCHANGED <<linked, row>>
    BY DEF Reserve
  <2> HIDE DEF i
  <2>3. Reserving' = Reserving \cup {i} /\ OpenRows' = OpenRows
    BY <1>1, <2>1, <2>2, NoneAssumption
    DEF IInv, TypeOK, Reserving, OpenRows, Terminal, OrderStatus, Pending
  <2> QED
    BY <2>3 DEF Holding
<1>5. Live' = Live
  BY DEF Reserve, Live, InFlight
<1>6. Gate!Cardinality(Holding) = Cardinality(Holding)
  BY DEF Gate!Cardinality, Cardinality
<1>7. Gate!Acquire(i)
  BY <1>2, <1>3, <1>4, <1>5, <1>6 DEF Gate!Acquire
<1> QED
  BY <1>1, <1>7 DEF GateStep, Gate!Next

(***************************************************************************)
(* An order about to be sent holds its slot and is not live.               *)
(***************************************************************************)
LEMMA SubmittingIsHolding ==
  ASSUME IInv, NEW i \in Intents, Submitting(i)
  PROVE  i \in Holding \ Live /\ fate[i] = "unsent"
<1>1. order[i] = "WORKING" /\ fate[i] = "unsent"
  BY DEF IInv, BarHoldsSlot, Submitting
<1>2. i \notin linked
  BY <1>1 DEF IInv, RowsFollowFate
<1>3. i \in Holding
  BY <1>1, <1>2, NoneAssumption DEF Holding, Reserving, Terminal, OrderStatus, Pending
<1>4. i \notin Live
  BY <1>1 DEF IInv, PositionsLanded, Live, InFlight
<1> QED
  BY <1>1, <1>3, <1>4

LEMMA SubmitAmbiguousGoesLive ==
  ASSUME IInv, NEW i \in Intents, SubmitAmbiguous(i)
  PROVE  GateStep
<1>1. i \in Holding \ Live /\ fate[i] = "unsent"
  BY SubmittingIsHolding DEF SubmitAmbiguous
<1>2. Live' = Live \cup {i} /\ Holding' = Holding
  BY <1>1 DEF IInv, TypeOK, SubmitAmbiguous, Live, InFlight, Holding, Reserving, OpenRows
<1>3. Gate!GoLive(i)
  BY <1>1, <1>2 DEF Gate!GoLive
<1> QED
  BY <1>3 DEF GateStep, Gate!Next

(***************************************************************************)
(* A fill goes live, unless it nets the symbol's position to nothing: then *)
(* what was live there is finished.                                        *)
(***************************************************************************)
LEMMA SubmitFilledGoesLiveOrNets ==
  ASSUME IInv, IInv', NEW i \in Intents, SubmitFilled(i)
  PROVE  GateStep
<1>1. i \in Holding \ Live /\ fate[i] = "unsent"
  BY SubmittingIsHolding DEF SubmitFilled
<1>2. /\ fate' = [fate EXCEPT ![i] = "landed"]
      /\ pos'[SymbolOf[i]] \in {{}, pos[SymbolOf[i]] \cup {i}}
      /\ \A s \in Symbols : s # SymbolOf[i] => pos'[s] = pos[s]
  BY FillMoves DEF IInv, SubmitFilled
<1>3. SymbolOf[i] \in Symbols /\ Holding' = Holding
  BY SymbolOfAssumption DEF SubmitFilled, Holding, Reserving, OpenRows
<1>4. InFlight' = InFlight
  BY <1>1, <1>2 DEF IInv, TypeOK, InFlight
<1>5. CASE pos'[SymbolOf[i]] = {}
  <2>1. Live' \subseteq Live
    BY <1>2, <1>4, <1>5 DEF Live
  <2> QED
    BY <1>3, <2>1, FinishOrGiveBack
<1>6. CASE pos'[SymbolOf[i]] = pos[SymbolOf[i]] \cup {i}
  <2>1. Live' = Live \cup {i}
    BY <1>2, <1>3, <1>4, <1>6 DEF Live
  <2>2. Gate!GoLive(i)
    BY <1>1, <1>3, <2>1 DEF Gate!GoLive
  <2> QED
    BY <2>2 DEF GateStep, Gate!Next
<1> QED
  BY <1>2, <1>5, <1>6

(***************************************************************************)
(* The venue only ends what is live: an entry that lands was live before.  *)
(***************************************************************************)
LEMMA VenueFinishes ==
  ASSUME IInv, IInv', Venue
  PROVE  GateStep
<1>1. Holding' = Holding
  BY DEF Venue, VenueLands, VenueDrops, VenueCloses, Holding, Reserving, OpenRows
<1>2. ASSUME NEW i \in Intents, VenueLands(i) PROVE Live' \subseteq Live
  <2>1. /\ fate' = [fate EXCEPT ![i] = "landed"]
        /\ pos'[SymbolOf[i]] \in {{}, pos[SymbolOf[i]] \cup {i}}
        /\ \A s \in Symbols : s # SymbolOf[i] => pos'[s] = pos[s]
    BY <1>2, FillMoves DEF IInv, VenueLands
  <2>2. i \in InFlight /\ InFlight' \subseteq InFlight
    BY <1>2, <2>1 DEF IInv, TypeOK, VenueLands, InFlight
  <2> QED
    BY <2>1, <2>2 DEF Live
<1>3. ASSUME NEW i \in Intents, VenueDrops(i) PROVE Live' \subseteq Live
  BY <1>3 DEF IInv, TypeOK, VenueDrops, Live, InFlight
<1>4. ASSUME NEW s \in Symbols, VenueCloses(s) PROVE Live' \subseteq Live
  BY <1>4 DEF IInv, TypeOK, VenueCloses, Live, InFlight
<1> QED
  BY <1>1, <1>2, <1>3, <1>4, FinishOrGiveBack DEF Venue

(***************************************************************************)
(* Recording an open moves the slot from the order row to the position row.*)
(***************************************************************************)
LEMMA RecordingOpenKeepsSlot ==
  ASSUME IInv, (\E s \in Symbols : PersistOpen(s)) \/ LinkOrder \/ FillOrder
  PROVE  Holding' = Holding
<1>1. ASSUME NEW s \in Symbols, PersistOpen(s) PROVE Holding' = Holding
  <2>1. /\ entryCid[s] \in Intents /\ row[entryCid[s]] = None
        /\ order[entryCid[s]] = "WORKING" /\ entryCid[s] \notin linked
    BY <1>1 DEF IInv, TypeOK, RowsFollowFate, Attributable, PersistOpen, Recordable
  <2> QED
    BY <1>1, <2>1, NoneAssumption
    DEF IInv, TypeOK, PersistOpen, Holding, Reserving, OpenRows, Terminal, OrderStatus, Pending
<1>2. CASE LinkOrder
  BY <1>2 DEF IInv, TypeOK, OpeningHasRow, LinkOrder, PollLoopAt, Holding, Reserving, OpenRows
<1>3. CASE FillOrder
  BY <1>3, NoneAssumption
  DEF IInv, TypeOK, OpeningHasRow, FillOrder, PollLoopAt, Holding, Reserving, OpenRows, Terminal,
      OrderStatus
<1> QED
  BY <1>1, <1>2, <1>3

(***************************************************************************)
(* The steps that touch neither the venue nor an order's slot, and the     *)
(* ones that free slots.                                                   *)
(***************************************************************************)
LEMMA LedgerStepsGiveBack ==
  ASSUME IInv,
         \/ ReleaseDeclined \/ RecordVanished \/ Sweep \/ SweepCut
         \/ \E s \in Symbols : PersistClose(s)
  PROVE  Holding' \subseteq Holding /\ Live' = Live
<1>1. Live' = Live
  BY DEF ReleaseDeclined, RecordVanished, Sweep, SweepCut, PersistClose, Live, InFlight
<1>2. CASE ReleaseDeclined
  BY <1>1, <1>2 DEF IInv, TypeOK, ReleaseDeclined, Holding, Reserving, OpenRows, Terminal
<1>3. CASE RecordVanished \/ \E s \in Symbols : PersistClose(s)
  <2>1. /\ \A i \in Intents : row'[i] \in {row[i], "CLOSED"}
        /\ UNCHANGED <<order, linked>>
    BY <1>3 DEF RecordVanished, PersistClose, CloseRow
  <2> QED
    BY <1>1, <2>1 DEF Holding, Reserving, OpenRows
<1>4. CASE Sweep \/ SweepCut
  <2>1. /\ \A i \in Intents : order'[i] \in {order[i], "CANCELLED"}
        /\ UNCHANGED <<row, linked>>
    BY <1>4 DEF IInv, TypeOK, Sweep, SweepCut, Release
  <2> QED
    BY <1>1, <2>1 DEF Holding, Reserving, OpenRows, Terminal
<1> QED
  BY <1>1, <1>2, <1>3, <1>4

LEMMA NextRefinesGate ==
  ASSUME IInv, IInv', [Next]_vars
  PROVE  GateStep
<1>1. CASE Reserve
  BY <1>1, ReserveAcquires
<1>2. ASSUME NEW i \in Intents, SubmitAmbiguous(i) \/ SubmitFilled(i) PROVE GateStep
  BY <1>2, SubmitAmbiguousGoesLive, SubmitFilledGoesLiveOrNets
<1>3. CASE Venue
  BY <1>3, VenueFinishes
<1>4. ASSUME NEW i \in Intents, SubmitDidNotOpen(i) PROVE GateStep
  <2>1. fate[i] = "unsent"
    BY <1>4, SubmittingIsHolding DEF SubmitDidNotOpen
  <2>2. Live' = Live /\ Holding' = Holding
    BY <1>4, <2>1
    DEF IInv, TypeOK, SubmitDidNotOpen, Live, InFlight, Holding, Reserving, OpenRows
  <2> QED
    BY <2>2, FinishOrGiveBack
<1>5. CASE (\E s \in Symbols : PersistOpen(s)) \/ LinkOrder \/ FillOrder
  <2>1. Live' = Live
    BY <1>5 DEF PersistOpen, LinkOrder, FillOrder, Live, InFlight
  <2> QED
    BY <1>5, <2>1, RecordingOpenKeepsSlot, FinishOrGiveBack
<1>6. CASE \/ ReleaseDeclined \/ RecordVanished \/ Sweep \/ SweepCut
           \/ \E s \in Symbols : PersistClose(s)
  BY <1>6, LedgerStepsGiveBack, FinishOrGiveBack
<1>7. CASE UNCHANGED <<order, linked, row, fate, pos>>
  BY <1>7 DEF GateStep, Holding, Reserving, OpenRows, Live, InFlight
<1> QED
  BY <1>1, <1>2, <1>3, <1>4, <1>5, <1>6, <1>7
  DEF Next, BarLoop, Submit, Handle, Reconcile, Recover, vars, Evaluate, ReserveRefused,
      SubmitRefusedLocally, PollVenue, OpenNotRecorded, CloseNotRecorded, HandlerRaises,
      PeriodicReconcileAgrees, PeriodicReconcileHalts, PeriodicPrime, Crash, Start,
      ReconcileAgrees, StartRefused, Prime

(***************************************************************************)
(* The live bot, its database and the venue together implement the gate.   *)
(***************************************************************************)
THEOREM BotImplementsGate == Spec => GateSpec
<1>1. Init => Gate!Init
  BY NoneAssumption DEF Init, Gate!Init, Holding, Reserving, OpenRows, Live, InFlight
<1>2. IInv /\ IInv' /\ [Next]_vars => GateStep
  BY NextRefinesGate
<1> QED
  BY <1>1, <1>2, Inductive, PTL DEF Spec, GateSpec, Gate!Spec, GateStep

=============================================================================

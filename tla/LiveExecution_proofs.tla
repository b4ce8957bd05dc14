------------------------ MODULE LiveExecution_proofs ------------------------
(***************************************************************************)
(* Proofs about LiveExecution, for any symbols, intents, sizes, limit and  *)
(* faults: IInv is inductive, and from it the slot, ledger and order       *)
(* properties, and the refinement of ExposureGate.                         *)
(***************************************************************************)
EXTENDS LiveExecution, FiniteSetTheorems, TLAPS

(***************************************************************************)
(* Sets of intents are finite, so holding no more slots than before keeps  *)
(* the limit.                                                              *)
(***************************************************************************)
LEMMA SubsetWithinLimit ==
  ASSUME NEW S, NEW T, S \subseteq Intents, T \subseteq S, Cardinality(S) <= MaxOpen
  PROVE  Cardinality(T) <= MaxOpen
<1>1. IsFiniteSet(S)
  BY IntentsAssumption, FS_Subset
<1>2. IsFiniteSet(T) /\ Cardinality(T) <= Cardinality(S)
  BY <1>1, FS_Subset
<1>3. Cardinality(S) \in Nat /\ Cardinality(T) \in Nat
  BY <1>1, <1>2, FS_CardinalityType
<1> QED
  BY <1>2, <1>3, MaxOpenAssumption

(***************************************************************************)
(* The gate's count is at least the number of entries that hold a slot.    *)
(***************************************************************************)
LEMMA GateCountsHolding ==
  ASSUME TypeOK
  PROVE  /\ IsFiniteSet(Holding)
         /\ EffectiveExposure \in Nat
         /\ Cardinality(Holding) <= EffectiveExposure
<1>1. IsFiniteSet(Reserving) /\ IsFiniteSet(OpenRows)
  BY IntentsAssumption, FS_Subset DEF Reserving, OpenRows
<1>2. /\ IsFiniteSet(Holding)
      /\ Cardinality(Holding) =
           Cardinality(Reserving) + Cardinality(OpenRows) - Cardinality(Reserving \cap OpenRows)
  BY <1>1, FS_Union DEF Holding
<1>3. IsFiniteSet(Reserving \cap OpenRows)
  BY <1>1, FS_Subset
<1>4. /\ Cardinality(Reserving) \in Nat
      /\ Cardinality(OpenRows) \in Nat
      /\ Cardinality(Reserving \cap OpenRows) \in Nat
  BY <1>1, <1>3, FS_CardinalityType
<1> QED
  BY <1>2, <1>4 DEF EffectiveExposure

(***************************************************************************)
(* What a fill can do to the venue, whatever the sizes: the position of    *)
(* the symbol grows by the fill or becomes flat.                           *)
(***************************************************************************)
LEMMA FillMoves ==
  ASSUME TypeOK, NEW i \in Intents, Fill(i)
  PROVE  /\ fate' = [fate EXCEPT ![i] = "landed"]
         /\ pos' \in [Symbols -> SUBSET Intents]
         /\ pos'[SymbolOf[i]] \in {{}, pos[SymbolOf[i]] \cup {i}}
         /\ \A s \in Symbols : s # SymbolOf[i] => pos'[s] = pos[s]
         /\ latest' \in [Symbols -> Trade \cup {None}]
<1>1. SymbolOf[i] \in Symbols
  BY SymbolOfAssumption
<1>2. [kind |-> "entry", of |-> {i}] \in Trade
  BY DEF Trade
<1> QED
  BY <1>1, <1>2 DEF Fill, TypeOK

-----------------------------------------------------------------------------
(* The inductive invariant, one lemma per action *)

USE DEF dbVars, venueVars, barVars, pollVars, At, BarIdle, PollIdle

LEMMA InitIInv == Init => IInv
<1> SUFFICES ASSUME Init PROVE IInv
  OBVIOUS
<1>1. Holding = {}
  BY NoneAssumption DEF Init, Holding, Reserving, OpenRows
<1>2. Cardinality(Holding) = 0
  BY <1>1, FS_EmptySet
<1>3. Live = {}
  BY DEF Init, Live, InFlight
<1>4. TypeOK
  BY DEF Init, TypeOK, Fate
<1>5. BarHoldsSlot /\ OpeningHasRow /\ StartIsQuiet
  BY DEF Init, BarHoldsSlot, OpeningHasRow, StartIsQuiet, Recovering
<1>6. RowsFollowFate /\ PositionsLanded /\ Attributable /\ ClosesAreGone /\ ClosedRowIsGone
  BY NoneAssumption
  DEF Init, RowsFollowFate, PositionsLanded, Attributable, ClosesAreGone, ClosedRowIsGone
<1>7. HoldingWithinLimit /\ LiveHoldsSlot
  BY <1>2, <1>3, MaxOpenAssumption DEF HoldingWithinLimit, LiveHoldsSlot
<1> QED
  BY <1>4, <1>5, <1>6, <1>7 DEF IInv

LEMMA EvaluateKeeps ==
  ASSUME IInv, NEW i \in Intents, Evaluate(i)
  PROVE  IInv'
<1>1. TypeOK'
  BY DEF IInv, TypeOK, Evaluate
<1>2. BarHoldsSlot' /\ StartIsQuiet'
  BY DEF IInv, BarHoldsSlot, StartIsQuiet, Evaluate, BarLoopRuns, Recovering, InFlight
<1> QED
  BY <1>1, <1>2
  DEF IInv, Evaluate, RowsFollowFate, PositionsLanded, Attributable, OpeningHasRow,
      ClosesAreGone, OpenRowOn, HoldingWithinLimit, LiveHoldsSlot, ClosedRowIsGone,
      Holding, Reserving, OpenRows, Live, InFlight

LEMMA ReserveKeeps ==
  ASSUME IInv, Reserve
  PROVE  IInv'
<1> DEFINE i == bar.intent
<1>1. i \in Intents /\ order[i] = None /\ fate[i] = "unsent" /\ EffectiveExposure < MaxOpen
  BY DEF IInv, BarHoldsSlot, RowsFollowFate, Reserve, CanReserve
<1>2. TypeOK'
  BY DEF IInv, TypeOK, Reserve, OrderStatus, Pending
<1>3. RowsFollowFate' /\ Attributable'
  BY <1>1 DEF IInv, TypeOK, RowsFollowFate, Attributable, Reserve
<1>4. BarHoldsSlot' /\ StartIsQuiet'
  BY <1>1 DEF IInv, TypeOK, BarHoldsSlot, StartIsQuiet, Reserve, BarLoopRuns, Recovering
<1>5. OpeningHasRow'
  BY <1>1 DEF IInv, TypeOK, OpeningHasRow, RowsFollowFate, Reserve
<1>6. Holding' \subseteq Holding \cup {i} /\ Holding \subseteq Holding'
  BY <1>1 DEF IInv, TypeOK, Reserve, Holding, Reserving, OpenRows, Terminal
<1>7. HoldingWithinLimit'
  <2>1. /\ IsFiniteSet(Holding) /\ EffectiveExposure \in Nat
        /\ Cardinality(Holding) <= EffectiveExposure
    BY GateCountsHolding DEF IInv
  <2>2. /\ IsFiniteSet(Holding \cup {i})
        /\ Cardinality(Holding \cup {i}) <= Cardinality(Holding) + 1
    <3>1. /\ IsFiniteSet(Holding \cup {i})
          /\ \/ Cardinality(Holding \cup {i}) = Cardinality(Holding)
             \/ Cardinality(Holding \cup {i}) = Cardinality(Holding) + 1
      BY <2>1, FS_AddElement
    <3> QED
      BY <2>1, <3>1, FS_CardinalityType
  <2>3. Cardinality(Holding') <= Cardinality(Holding \cup {i})
    BY <1>6, <2>2, FS_Subset
  <2> QED
    BY <1>1, <1>6, <2>1, <2>2, <2>3, MaxOpenAssumption, FS_CardinalityType, FS_Subset
    DEF HoldingWithinLimit
<1>8. LiveHoldsSlot' /\ ClosedRowIsGone'
  BY <1>6 DEF IInv, LiveHoldsSlot, ClosedRowIsGone, Live, InFlight, Reserve
<1> QED
  BY <1>2, <1>3, <1>4, <1>5, <1>7, <1>8
  DEF IInv, Reserve, PositionsLanded, ClosesAreGone, OpenRowOn, OpenRows

LEMMA ReserveRefusedKeeps ==
  ASSUME IInv, ReserveRefused
  PROVE  IInv'
<1>1. TypeOK'
  BY DEF IInv, TypeOK, ReserveRefused
<1>2. BarHoldsSlot' /\ StartIsQuiet'
  BY DEF IInv, BarHoldsSlot, StartIsQuiet, ReserveRefused, BarLoopRuns, Recovering, InFlight
<1> QED
  BY <1>1, <1>2
  DEF IInv, ReserveRefused, RowsFollowFate, PositionsLanded, Attributable, OpeningHasRow,
      ClosesAreGone, OpenRowOn, HoldingWithinLimit, LiveHoldsSlot, ClosedRowIsGone,
      Holding, Reserving, OpenRows, Live, InFlight

(***************************************************************************)
(* An entry not sent yet has no row, no link and no place at the venue.    *)
(***************************************************************************)
LEMMA UnsentIsNowhere ==
  ASSUME IInv, NEW i \in Intents, fate[i] = "unsent"
  PROVE  row[i] = None /\ i \notin linked /\ i \notin Live
BY DEF IInv, TypeOK, RowsFollowFate, PositionsLanded, Live, InFlight

(***************************************************************************)
(* The entry being submitted: its order holds a slot, nothing was sent.    *)
(***************************************************************************)
LEMMA SubmittingHoldsSlot ==
  ASSUME IInv, NEW i \in Intents, Submitting(i)
  PROVE  /\ mode = "running"
         /\ order[i] = "WORKING" /\ order[i] # None /\ fate[i] = "unsent"
         /\ row[i] = None /\ i \notin linked /\ i \notin Live
         /\ i \in Reserving
<1>1. mode = "running" /\ order[i] = "WORKING" /\ fate[i] = "unsent"
  BY DEF IInv, BarHoldsSlot, Submitting, BarLoopRuns
<1>2. row[i] = None /\ i \notin linked /\ i \notin Live
  BY <1>1, UnsentIsNowhere
<1> QED
  BY <1>1, <1>2, NoneAssumption DEF Reserving, Terminal, OrderStatus, Pending

LEMMA SubmitRefusedLocallyKeeps ==
  ASSUME IInv, NEW i \in Intents, SubmitRefusedLocally(i)
  PROVE  IInv'
<1>1. /\ mode = "running" /\ order[i] = "WORKING" /\ fate[i] = "unsent" /\ row[i] = None
  BY SubmittingHoldsSlot DEF SubmitRefusedLocally
<1>2. TypeOK'
  BY DEF IInv, TypeOK, SubmitRefusedLocally
<1>3. BarHoldsSlot' /\ StartIsQuiet'
  BY <1>1, NoneAssumption
  DEF IInv, TypeOK, BarHoldsSlot, StartIsQuiet, Attributable, SubmitRefusedLocally, Recovering
<1> QED
  BY <1>2, <1>3
  DEF IInv, SubmitRefusedLocally, RowsFollowFate, PositionsLanded, Attributable, OpeningHasRow,
      ClosesAreGone, OpenRowOn, HoldingWithinLimit, LiveHoldsSlot, ClosedRowIsGone,
      Holding, Reserving, OpenRows, Live, InFlight

LEMMA SubmitDidNotOpenKeeps ==
  ASSUME IInv, NEW i \in Intents, SubmitDidNotOpen(i)
  PROVE  IInv'
<1>1. /\ mode = "running" /\ order[i] = "WORKING" /\ order[i] # None /\ fate[i] = "unsent"
      /\ row[i] = None /\ i \notin Live
  BY SubmittingHoldsSlot DEF SubmitDidNotOpen
<1>2. TypeOK'
  BY SymbolOfAssumption DEF IInv, TypeOK, SubmitDidNotOpen, Unattribute, Fate
<1>3. RowsFollowFate' /\ PositionsLanded'
  BY <1>1 DEF IInv, TypeOK, RowsFollowFate, PositionsLanded, SubmitDidNotOpen
<1>4. Attributable'
  BY <1>1, SymbolOfAssumption DEF IInv, TypeOK, Attributable, SubmitDidNotOpen, Unattribute
<1>5. BarHoldsSlot'
  BY <1>1, SymbolOfAssumption, NoneAssumption
  DEF IInv, TypeOK, Attributable, BarHoldsSlot, SubmitDidNotOpen, Unattribute
<1>6. Live' = Live
  BY <1>1 DEF IInv, TypeOK, SubmitDidNotOpen, Live, InFlight
<1>7. StartIsQuiet' /\ OpeningHasRow'
  BY <1>1 DEF IInv, TypeOK, StartIsQuiet, OpeningHasRow, SubmitDidNotOpen, Recovering
<1> QED
  BY <1>2, <1>3, <1>4, <1>5, <1>6, <1>7
  DEF IInv, SubmitDidNotOpen, ClosesAreGone, OpenRowOn, HoldingWithinLimit, LiveHoldsSlot,
      ClosedRowIsGone, Holding, Reserving, OpenRows

LEMMA SubmitFilledKeeps ==
  ASSUME IInv, NEW i \in Intents, SubmitFilled(i)
  PROVE  IInv'
<1>1. /\ mode = "running" /\ order[i] = "WORKING" /\ order[i] # None /\ fate[i] = "unsent"
      /\ row[i] = None /\ i \in Reserving
  BY SubmittingHoldsSlot DEF SubmitFilled
<1>2. /\ fate' = [fate EXCEPT ![i] = "landed"]
      /\ pos' \in [Symbols -> SUBSET Intents]
      /\ pos'[SymbolOf[i]] \in {{}, pos[SymbolOf[i]] \cup {i}}
      /\ \A s \in Symbols : s # SymbolOf[i] => pos'[s] = pos[s]
      /\ latest' \in [Symbols -> Trade \cup {None}]
  BY FillMoves DEF IInv, SubmitFilled
<1>3. SymbolOf[i] \in Symbols
  BY SymbolOfAssumption
<1>4. TypeOK'
  BY <1>2, <1>3 DEF IInv, TypeOK, SubmitFilled, Attribute, Fate
<1>5. RowsFollowFate' /\ PositionsLanded'
  BY <1>1, <1>2, <1>3, NoneAssumption
  DEF IInv, TypeOK, RowsFollowFate, PositionsLanded, SubmitFilled
<1>6. Attributable' /\ BarHoldsSlot'
  BY <1>1, <1>2, <1>3 DEF IInv, TypeOK, Attributable, BarHoldsSlot, SubmitFilled, Attribute
<1>7. Live' \subseteq Live \cup {i}
  BY <1>2, <1>3 DEF IInv, TypeOK, Live, InFlight
<1>8. LiveHoldsSlot' /\ ClosedRowIsGone'
  BY <1>1, <1>7, NoneAssumption
  DEF IInv, LiveHoldsSlot, ClosedRowIsGone, Holding, Reserving, OpenRows, SubmitFilled
<1>9. ClosesAreGone'
  BY <1>1, <1>2, <1>3, NoneAssumption
  DEF IInv, TypeOK, ClosesAreGone, OpenRowOn, OpenRows, SubmitFilled
<1>10. StartIsQuiet' /\ OpeningHasRow' /\ HoldingWithinLimit'
  BY <1>1
  DEF IInv, TypeOK, StartIsQuiet, OpeningHasRow, HoldingWithinLimit, Holding, Reserving, OpenRows,
      SubmitFilled, Recovering
<1> QED
  BY <1>4, <1>5, <1>6, <1>8, <1>9, <1>10 DEF IInv

LEMMA SubmitAmbiguousKeeps ==
  ASSUME IInv, NEW i \in Intents, SubmitAmbiguous(i)
  PROVE  IInv'
<1>1. /\ mode = "running" /\ order[i] = "WORKING" /\ order[i] # None /\ fate[i] = "unsent"
      /\ row[i] = None /\ i \in Reserving
  BY SubmittingHoldsSlot DEF SubmitAmbiguous
<1>2. SymbolOf[i] \in Symbols
  BY SymbolOfAssumption
<1>3. TypeOK'
  BY <1>2 DEF IInv, TypeOK, SubmitAmbiguous, Attribute, Fate
<1>4. RowsFollowFate' /\ PositionsLanded'
  BY <1>1 DEF IInv, TypeOK, RowsFollowFate, PositionsLanded, SubmitAmbiguous
<1>5. Attributable' /\ BarHoldsSlot'
  BY <1>1, <1>2 DEF IInv, TypeOK, Attributable, BarHoldsSlot, SubmitAmbiguous, Attribute
<1>6. Live' = Live \cup {i}
  BY <1>1 DEF IInv, TypeOK, SubmitAmbiguous, Live, InFlight
<1>7. LiveHoldsSlot' /\ ClosedRowIsGone'
  BY <1>1, <1>6, NoneAssumption
  DEF IInv, LiveHoldsSlot, ClosedRowIsGone, Holding, Reserving, OpenRows, SubmitAmbiguous
<1>8. StartIsQuiet' /\ OpeningHasRow' /\ HoldingWithinLimit'
  BY <1>1
  DEF IInv, TypeOK, StartIsQuiet, OpeningHasRow, HoldingWithinLimit, Holding, Reserving, OpenRows,
      SubmitAmbiguous, Recovering
<1> QED
  BY <1>3, <1>4, <1>5, <1>7, <1>8
  DEF IInv, SubmitAmbiguous, ClosesAreGone, OpenRowOn, OpenRows

LEMMA ReleaseDeclinedKeeps ==
  ASSUME IInv, ReleaseDeclined
  PROVE  IInv'
<1> DEFINE i == bar.intent
<1>1. /\ mode = "running" /\ i \in Intents
      /\ order[i] = "WORKING" /\ row[i] = None
      /\ fate[i] \in {"unsent", "died"}
      /\ \A s \in Symbols : entryCid[s] # i
  BY DEF IInv, BarHoldsSlot, ReleaseDeclined, BarLoopRuns
<1>2. TypeOK'
  BY DEF IInv, TypeOK, ReleaseDeclined, OrderStatus, Terminal
<1>3. RowsFollowFate' /\ Attributable'
  BY <1>1, NoneAssumption
  DEF IInv, TypeOK, RowsFollowFate, Attributable, ReleaseDeclined, OrderStatus, Terminal
<1>4. BarHoldsSlot' /\ StartIsQuiet' /\ OpeningHasRow'
  BY <1>1, NoneAssumption
  DEF IInv, TypeOK, BarHoldsSlot, StartIsQuiet, OpeningHasRow, ReleaseDeclined, Recovering
<1>5. Holding \ {i} \subseteq Holding' /\ Holding' \subseteq Holding
  BY <1>1 DEF IInv, TypeOK, Holding, Reserving, OpenRows, Terminal, ReleaseDeclined
<1>6. HoldingWithinLimit'
  BY <1>5, SubsetWithinLimit DEF IInv, HoldingWithinLimit, Holding, Reserving, OpenRows
<1>7. i \notin Live
  BY <1>1 DEF IInv, TypeOK, PositionsLanded, Live, InFlight
<1>8. LiveHoldsSlot' /\ ClosedRowIsGone'
  BY <1>5, <1>7
  DEF IInv, LiveHoldsSlot, ClosedRowIsGone, Live, InFlight, ReleaseDeclined
<1> QED
  BY <1>2, <1>3, <1>4, <1>6, <1>8
  DEF IInv, ReleaseDeclined, PositionsLanded, ClosesAreGone, OpenRowOn, OpenRows

(* The venue *)

LEMMA VenueLandsKeeps ==
  ASSUME IInv, NEW i \in Intents, VenueLands(i)
  PROVE  IInv'
<1>1. /\ fate[i] = "flight" /\ row[i] = None /\ i \in Live
      /\ order[i] # None /\ mode \notin Recovering
  BY DEF IInv, TypeOK, RowsFollowFate, StartIsQuiet, Live, InFlight, VenueLands
<1>2. /\ fate' = [fate EXCEPT ![i] = "landed"]
      /\ pos' \in [Symbols -> SUBSET Intents]
      /\ pos'[SymbolOf[i]] \in {{}, pos[SymbolOf[i]] \cup {i}}
      /\ \A s \in Symbols : s # SymbolOf[i] => pos'[s] = pos[s]
      /\ latest' \in [Symbols -> Trade \cup {None}]
  BY FillMoves DEF IInv, VenueLands
<1>3. SymbolOf[i] \in Symbols
  BY SymbolOfAssumption
<1>4. TypeOK'
  BY <1>2 DEF IInv, TypeOK, VenueLands, Fate
<1>5. RowsFollowFate' /\ PositionsLanded'
  BY <1>1, <1>2, <1>3 DEF IInv, TypeOK, RowsFollowFate, PositionsLanded, VenueLands
<1>6. Attributable' /\ BarHoldsSlot'
  BY <1>1, <1>2 DEF IInv, TypeOK, Attributable, BarHoldsSlot, VenueLands
<1>7. Live' \subseteq Live
  BY <1>1, <1>2, <1>3 DEF IInv, TypeOK, Live, InFlight
<1>8. LiveHoldsSlot' /\ ClosedRowIsGone'
  BY <1>7 DEF IInv, LiveHoldsSlot, ClosedRowIsGone, Holding, Reserving, OpenRows, VenueLands
<1>9. ClosesAreGone'
  BY <1>1, <1>2, <1>3, NoneAssumption
  DEF IInv, TypeOK, ClosesAreGone, OpenRowOn, OpenRows, VenueLands
<1>10. StartIsQuiet' /\ OpeningHasRow' /\ HoldingWithinLimit'
  BY <1>1
  DEF IInv, TypeOK, StartIsQuiet, OpeningHasRow, HoldingWithinLimit, Holding, Reserving, OpenRows,
      VenueLands
<1> QED
  BY <1>4, <1>5, <1>6, <1>8, <1>9, <1>10 DEF IInv

LEMMA VenueDropsKeeps ==
  ASSUME IInv, NEW i \in Intents, VenueDrops(i)
  PROVE  IInv'
<1>1. PICK f \in {"lost", "died"} : fate' = [fate EXCEPT ![i] = f]
  BY DEF VenueDrops
<1>2. fate[i] = "flight" /\ order[i] # None
  BY DEF IInv, RowsFollowFate, VenueDrops
<1>3. TypeOK'
  BY <1>1 DEF IInv, TypeOK, VenueDrops, Fate
<1>4. RowsFollowFate' /\ PositionsLanded'
  BY <1>1, <1>2 DEF IInv, TypeOK, RowsFollowFate, PositionsLanded, VenueDrops
<1>5. Attributable' /\ BarHoldsSlot'
  BY <1>1, <1>2 DEF IInv, TypeOK, Attributable, BarHoldsSlot, VenueDrops
<1>6. Live' \subseteq Live /\ InFlight' \subseteq InFlight
  BY <1>1 DEF IInv, TypeOK, Live, InFlight, VenueDrops
<1>7. LiveHoldsSlot' /\ ClosedRowIsGone'
  BY <1>6 DEF IInv, LiveHoldsSlot, ClosedRowIsGone, Holding, Reserving, OpenRows, VenueDrops
<1>8. StartIsQuiet' /\ OpeningHasRow' /\ HoldingWithinLimit'
  BY <1>6
  DEF IInv, TypeOK, StartIsQuiet, OpeningHasRow, HoldingWithinLimit, Holding, Reserving, OpenRows,
      VenueDrops
<1> QED
  BY <1>3, <1>4, <1>5, <1>7, <1>8 DEF IInv, VenueDrops, ClosesAreGone, OpenRowOn, OpenRows

LEMMA VenueClosesKeeps ==
  ASSUME IInv, NEW s \in Symbols, VenueCloses(s)
  PROVE  IInv'
<1>1. [kind |-> "exit", of |-> pos[s]] \in Trade
  BY DEF IInv, TypeOK, Trade
<1>2. TypeOK'
  BY <1>1 DEF IInv, TypeOK, VenueCloses
<1>3. \A x \in Symbols : pos'[x] \subseteq pos[x]
  BY DEF IInv, TypeOK, VenueCloses
<1>4. Live' \subseteq Live
  BY <1>3 DEF Live, InFlight, VenueCloses
<1>5. PositionsLanded' /\ ClosesAreGone'
  BY <1>3 DEF IInv, PositionsLanded, ClosesAreGone, OpenRowOn, OpenRows, VenueCloses
<1>6. LiveHoldsSlot' /\ ClosedRowIsGone'
  BY <1>4 DEF IInv, LiveHoldsSlot, ClosedRowIsGone, Holding, Reserving, OpenRows, VenueCloses
<1> QED
  BY <1>2, <1>5, <1>6
  DEF IInv, VenueCloses, RowsFollowFate, Attributable, BarHoldsSlot, OpeningHasRow, StartIsQuiet,
      HoldingWithinLimit, Holding, Reserving, OpenRows, InFlight

(* The poll loop *)

LEMMA PollVenueKeeps ==
  ASSUME IInv, PollVenue
  PROVE  IInv'
<1>1. \A s \in Symbols : Closed(s) \in Diff => pos[s] = {} /\ Opened(s) \notin Diff
  BY DEF Diff, Closed, Opened, Seen, Held
<1>2. Diff \subseteq Event /\ Seen \subseteq Symbols
  BY DEF IInv, TypeOK, Diff, Seen, Event
<1>3. TypeOK'
  BY <1>2 DEF IInv, TypeOK, PollVenue
<1>4. ClosesAreGone'
  BY <1>1 DEF IInv, ClosesAreGone, OpenRowOn, OpenRows, PollVenue, Opened, Closed
<1>5. StartIsQuiet' /\ OpeningHasRow'
  BY DEF IInv, StartIsQuiet, OpeningHasRow, PollVenue, PollLoopAt, Recovering, InFlight
<1> QED
  BY <1>3, <1>4, <1>5
  DEF IInv, PollVenue, RowsFollowFate, PositionsLanded, Attributable, BarHoldsSlot,
      HoldingWithinLimit, LiveHoldsSlot, ClosedRowIsGone, Holding, Reserving, OpenRows, Live, InFlight

LEMMA PersistOpenKeeps ==
  ASSUME IInv, NEW s \in Symbols, PersistOpen(s)
  PROVE  IInv'
<1> DEFINE i == entryCid[s]
<1>1. /\ i \in Intents /\ SymbolOf[i] = s
      /\ fate[i] \in {"landed", "died"} /\ row[i] = None
      /\ order[i] = "WORKING" /\ i \notin linked
      /\ mode = "running" /\ Opened(s) \in events /\ Closed(s) \notin events
  BY DEF IInv, TypeOK, RowsFollowFate, Attributable, ClosesAreGone, PersistOpen, PollLoopAt, Recordable
<1>2. TypeOK'
  BY <1>1 DEF IInv, TypeOK, PersistOpen
<1>3. RowsFollowFate' /\ Attributable'
  BY <1>1, NoneAssumption DEF IInv, TypeOK, RowsFollowFate, Attributable, PersistOpen
<1>4. BarHoldsSlot'
  BY <1>1 DEF IInv, TypeOK, BarHoldsSlot, PersistOpen
<1>5. OpeningHasRow' /\ StartIsQuiet'
  BY <1>1 DEF IInv, TypeOK, OpeningHasRow, StartIsQuiet, PersistOpen, Recovering, Opened
<1>6. ClosesAreGone'
  BY <1>1 DEF IInv, TypeOK, ClosesAreGone, OpenRowOn, OpenRows, On, PersistOpen, Opened, Closed
<1>7. Holding' = Holding
  BY <1>1, NoneAssumption
  DEF IInv, TypeOK, Holding, Reserving, OpenRows, PersistOpen, OrderStatus, Pending, Terminal
<1>8. HoldingWithinLimit' /\ LiveHoldsSlot'
  BY <1>7 DEF IInv, HoldingWithinLimit, LiveHoldsSlot, Live, InFlight, PersistOpen
<1>9. ClosedRowIsGone'
  BY <1>1 DEF IInv, TypeOK, ClosedRowIsGone, Live, InFlight, PersistOpen
<1> QED
  BY <1>2, <1>3, <1>4, <1>5, <1>6, <1>8, <1>9 DEF IInv, PositionsLanded, PersistOpen

LEMMA LinkOrderKeeps ==
  ASSUME IInv, LinkOrder
  PROVE  IInv'
<1> DEFINE i == poll.intent
<1>1. /\ i \in Intents /\ row[i] = "OPEN" /\ row[i] # None
      /\ mode = "running" /\ order[i] = "WORKING"
      /\ Opened(SymbolOf[i]) \in events
  BY NoneAssumption DEF IInv, OpeningHasRow, LinkOrder, PollLoopAt
<1>2. TypeOK'
  BY <1>1 DEF IInv, TypeOK, LinkOrder
<1>3. RowsFollowFate' /\ OpeningHasRow' /\ StartIsQuiet'
  BY <1>1
  DEF IInv, TypeOK, RowsFollowFate, OpeningHasRow, StartIsQuiet, LinkOrder, Recovering, Opened
<1>4. Holding' = Holding
  BY <1>1 DEF IInv, TypeOK, Holding, Reserving, OpenRows, LinkOrder
<1> QED
  BY <1>2, <1>3, <1>4
  DEF IInv, LinkOrder, PositionsLanded, Attributable, BarHoldsSlot, ClosesAreGone, OpenRowOn, OpenRows,
      HoldingWithinLimit, LiveHoldsSlot, ClosedRowIsGone, Live, InFlight

LEMMA FillOrderKeeps ==
  ASSUME IInv, FillOrder
  PROVE  IInv'
<1> DEFINE i == poll.intent
<1>1. /\ i \in Intents /\ row[i] = "OPEN" /\ row[i] # None
      /\ i \in linked /\ fate[i] \in {"landed", "died"} /\ mode = "running"
  BY NoneAssumption DEF IInv, OpeningHasRow, RowsFollowFate, FillOrder, PollLoopAt
<1>2. TypeOK'
  BY <1>1 DEF IInv, TypeOK, FillOrder, OrderStatus, Terminal
<1>3. RowsFollowFate' /\ Attributable'
  BY <1>1, NoneAssumption
  DEF IInv, TypeOK, RowsFollowFate, Attributable, FillOrder, OrderStatus, Terminal
<1>4. BarHoldsSlot'
  BY <1>1 DEF IInv, TypeOK, BarHoldsSlot, FillOrder
<1>5. OpeningHasRow' /\ StartIsQuiet'
  BY <1>1 DEF IInv, OpeningHasRow, StartIsQuiet, FillOrder, Recovering
<1>6. ClosesAreGone'
  BY DEF IInv, ClosesAreGone, OpenRowOn, OpenRows, FillOrder, Opened, Closed
<1>7. Holding' = Holding
  BY <1>1 DEF IInv, TypeOK, Holding, Reserving, OpenRows, FillOrder
<1> QED
  BY <1>2, <1>3, <1>4, <1>5, <1>6, <1>7
  DEF IInv, FillOrder, PositionsLanded, HoldingWithinLimit, LiveHoldsSlot, ClosedRowIsGone, Live, InFlight

(***************************************************************************)
(* Dropping an event, or all of them, while no open is being recorded.     *)
(***************************************************************************)
LEMMA DroppingEventsKeeps ==
  ASSUME IInv, mode = "running",
         events' \subseteq events, poll' \in {poll, PollIdle}, poll'.at = "idle",
         UNCHANGED <<dbVars, venueVars, mode, ready, barVars, entryCid, cache>>
  PROVE  IInv'
<1>1. TypeOK'
  BY DEF IInv, TypeOK
<1>2. OpeningHasRow' /\ StartIsQuiet' /\ ClosesAreGone'
  BY DEF IInv, OpeningHasRow, StartIsQuiet, ClosesAreGone, OpenRowOn, OpenRows, Recovering
<1> QED
  BY <1>1, <1>2
  DEF IInv, RowsFollowFate, PositionsLanded, Attributable, BarHoldsSlot,
      HoldingWithinLimit, LiveHoldsSlot, ClosedRowIsGone, Holding, Reserving, OpenRows, Live, InFlight

LEMMA PollStepsKeep ==
  ASSUME IInv,
         \/ \E s \in Symbols : OpenNotRecorded(s) \/ CloseNotRecorded(s)
         \/ HandlerRaises
  PROVE  IInv'
<1>1. /\ mode = "running" /\ events' \subseteq events
      /\ poll' \in {poll, PollIdle} /\ poll'.at = "idle"
      /\ UNCHANGED <<dbVars, venueVars, mode, ready, barVars, entryCid, cache>>
  BY DEF OpenNotRecorded, CloseNotRecorded, HandlerRaises, PollLoopAt
<1> QED
  BY <1>1, DroppingEventsKeeps

(***************************************************************************)
(* Closing open rows whose fills are gone from the venue, the step that    *)
(* _persist_close and the start-up recording have in common.               *)
(***************************************************************************)
LEMMA ClosingGoneRows ==
  ASSUME IInv, NEW S \in SUBSET OpenRows, S \cap Live = {}, CloseRow(S),
         UNCHANGED <<signals, order, linked, venueVars>>
  PROVE  /\ row' \in [Intents -> {None, "OPEN", "CLOSED"}]
         /\ exit' \in [Intents -> Trade \cup {None}]
         /\ \A i \in Intents : row'[i] = row[i] \/ (row[i] = "OPEN" /\ row'[i] = "CLOSED")
         /\ RowsFollowFate' /\ LiveHoldsSlot' /\ ClosedRowIsGone' /\ HoldingWithinLimit'
<1>1. S \subseteq Intents /\ (\A i \in S : row[i] = "OPEN")
  BY DEF OpenRows
<1>2. /\ row' = [i \in Intents |-> IF i \in S THEN "CLOSED" ELSE row[i]]
      /\ exit' = [i \in Intents |-> IF i \in S THEN latest[SymbolOf[i]] ELSE exit[i]]
  BY DEF CloseRow
<1>3. row' \in [Intents -> {None, "OPEN", "CLOSED"}] /\ exit' \in [Intents -> Trade \cup {None}]
  BY <1>2, SymbolOfAssumption DEF IInv, TypeOK
<1>4. RowsFollowFate'
  BY <1>1, <1>2, NoneAssumption DEF IInv, RowsFollowFate
<1>5. Holding' \subseteq Holding /\ Holding \ S \subseteq Holding'
  BY <1>1, <1>2 DEF Holding, Reserving, OpenRows
<1>6. HoldingWithinLimit'
  BY <1>5, SubsetWithinLimit DEF IInv, HoldingWithinLimit, Holding, Reserving, OpenRows
<1>7. Live' = Live
  BY DEF Live, InFlight
<1>8. LiveHoldsSlot' /\ ClosedRowIsGone'
  BY <1>2, <1>5, <1>7 DEF IInv, LiveHoldsSlot, ClosedRowIsGone
<1> QED
  BY <1>1, <1>2, <1>3, <1>4, <1>6, <1>8

LEMMA PersistCloseKeeps ==
  ASSUME IInv, NEW s \in Symbols, PersistClose(s)
  PROVE  IInv'
<1>1. OpenRowOn(s) \in SUBSET OpenRows /\ OpenRowOn(s) \cap Live = {}
  BY NoneAssumption
  DEF IInv, TypeOK, RowsFollowFate, PositionsLanded, ClosesAreGone, PersistClose, OpenRowOn, OpenRows,
      On, Live, InFlight
<1>2. CloseRow(OpenRowOn(s)) /\ UNCHANGED <<signals, order, linked, venueVars>>
  BY DEF PersistClose
<1>3. /\ row' \in [Intents -> {None, "OPEN", "CLOSED"}]
      /\ exit' \in [Intents -> Trade \cup {None}]
      /\ \A i \in Intents : row'[i] = row[i] \/ (row[i] = "OPEN" /\ row'[i] = "CLOSED")
      /\ RowsFollowFate' /\ LiveHoldsSlot' /\ ClosedRowIsGone' /\ HoldingWithinLimit'
  BY <1>1, <1>2, ClosingGoneRows
<1>4. TypeOK'
  BY <1>3 DEF IInv, TypeOK, PersistClose
<1>5. Attributable' /\ BarHoldsSlot'
  BY <1>3, NoneAssumption DEF IInv, TypeOK, Attributable, BarHoldsSlot, PersistClose
<1>6. OpeningHasRow' /\ StartIsQuiet'
  BY DEF IInv, OpeningHasRow, StartIsQuiet, PersistClose, PollLoopAt, Recovering
<1>7. ClosesAreGone'
  BY <1>3 DEF IInv, ClosesAreGone, OpenRowOn, OpenRows, PersistClose
<1> QED
  BY <1>3, <1>4, <1>5, <1>6, <1>7 DEF IInv, PositionsLanded, PersistClose

LEMMA ReconcileKeeps ==
  ASSUME IInv, Reconcile
  PROVE  IInv'
<1>1. /\ mode = "running" /\ poll'.at \in {"idle", "prime"}
      /\ UNCHANGED <<dbVars, venueVars, mode, barVars, entryCid, events>>
  BY DEF Reconcile, PeriodicReconcileAgrees, PeriodicReconcileHalts, PeriodicPrime, PollLoopAt
<1>2. TypeOK'
  <2>1. /\ ready' \in BOOLEAN /\ cache' \subseteq Symbols
        /\ poll' \in {poll, At("prime", None), PollIdle} /\ UNCHANGED unresolved
    BY DEF IInv, TypeOK, Reconcile, PeriodicReconcileAgrees, PeriodicReconcileHalts, PeriodicPrime, Seen
  <2> QED
    BY <1>1, <2>1 DEF IInv, TypeOK
<1>3. OpeningHasRow' /\ StartIsQuiet'
  BY <1>1 DEF IInv, OpeningHasRow, StartIsQuiet, Recovering
<1> QED
  BY <1>1, <1>2, <1>3
  DEF IInv, RowsFollowFate, PositionsLanded, Attributable, BarHoldsSlot, ClosesAreGone, OpenRowOn,
      HoldingWithinLimit, LiveHoldsSlot, ClosedRowIsGone, Holding, Reserving, OpenRows, Live, InFlight

(* Crash and restart *)

(***************************************************************************)
(* Outside a running process only the database and the venue matter.       *)
(***************************************************************************)
LEMMA DownKeeps ==
  ASSUME IInv, ProcessGone,
         UNCHANGED <<signals, linked, row, exit, venueVars>>,
         order' \in [Intents -> OrderStatus \cup {None}],
         \A i \in Intents : order'[i] = None => order[i] = None,
         Holding' \subseteq Holding, Live \subseteq Holding'
  PROVE  IInv'
<1>1. TypeOK'
  BY DEF IInv, TypeOK, ProcessGone
<1>2. RowsFollowFate' /\ PositionsLanded'
  BY DEF IInv, RowsFollowFate, PositionsLanded
<1>3. Attributable' /\ BarHoldsSlot' /\ OpeningHasRow' /\ ClosesAreGone' /\ StartIsQuiet'
  BY DEF ProcessGone, Attributable, BarHoldsSlot, OpeningHasRow, ClosesAreGone, StartIsQuiet, Recovering
<1>4. HoldingWithinLimit'
  BY SubsetWithinLimit DEF IInv, HoldingWithinLimit, Holding, Reserving, OpenRows
<1>5. LiveHoldsSlot' /\ ClosedRowIsGone'
  BY DEF IInv, LiveHoldsSlot, ClosedRowIsGone, Live, InFlight
<1> QED
  BY <1>1, <1>2, <1>3, <1>4, <1>5 DEF IInv

LEMMA StopKeeps ==
  ASSUME IInv, Crash \/ StartRefused
  PROVE  IInv'
<1>1. ProcessGone /\ UNCHANGED <<dbVars, venueVars>>
  BY DEF Crash, StartRefused
<1>2. Holding' = Holding
  BY <1>1 DEF Holding, Reserving, OpenRows
<1> QED
  BY <1>1, <1>2, DownKeeps DEF IInv, TypeOK, LiveHoldsSlot

LEMMA StartKeeps ==
  ASSUME IInv, Start
  PROVE  IInv'
BY DEF IInv, Start, TypeOK, Recovering, RowsFollowFate, PositionsLanded, Attributable, BarHoldsSlot,
       OpeningHasRow, ClosesAreGone, OpenRowOn, StartIsQuiet, HoldingWithinLimit, LiveHoldsSlot,
       ClosedRowIsGone, Holding, Reserving, OpenRows, Live, InFlight

LEMMA RecordVanishedKeeps ==
  ASSUME IInv, RecordVanished
  PROVE  IInv'
<1>1. PICK S \in SUBSET {i \in Intents : ProvenClosed(i)} : CloseRow(S)
  BY DEF RecordVanished
<1>2. mode = "vanished" /\ InFlight = {} /\ mode' = "reconcile"
  BY DEF IInv, StartIsQuiet, RecordVanished, Recovering
<1>3. S \in SUBSET OpenRows /\ S \cap Live = {}
  BY <1>2 DEF IInv, TypeOK, PositionsLanded, ProvenClosed, Held, OpenRows, Live
<1>4. UNCHANGED <<signals, order, linked, venueVars>>
  BY DEF RecordVanished
<1>5. /\ row' \in [Intents -> {None, "OPEN", "CLOSED"}]
      /\ exit' \in [Intents -> Trade \cup {None}]
      /\ RowsFollowFate' /\ LiveHoldsSlot' /\ ClosedRowIsGone' /\ HoldingWithinLimit'
  BY <1>1, <1>3, <1>4, ClosingGoneRows
<1>6. TypeOK'
  BY <1>5 DEF IInv, TypeOK, RecordVanished, Recovering
<1>7. PositionsLanded' /\ Attributable' /\ BarHoldsSlot' /\ OpeningHasRow' /\ ClosesAreGone' /\ StartIsQuiet'
  BY <1>2
  DEF IInv, PositionsLanded, Attributable, BarHoldsSlot, OpeningHasRow, ClosesAreGone, StartIsQuiet,
      RecordVanished, InFlight
<1> QED
  BY <1>5, <1>6, <1>7 DEF IInv

LEMMA RecoverReadsKeep ==
  ASSUME IInv, ReconcileAgrees \/ Prime
  PROVE  IInv'
<1>1. /\ mode \in Recovering /\ mode' \in Recovering
      /\ cache' \subseteq Symbols
      /\ UNCHANGED <<dbVars, venueVars, ready, barVars, entryCid, events, poll>>
  BY DEF IInv, TypeOK, ReconcileAgrees, Prime, Seen, Recovering
<1>2. TypeOK' /\ StartIsQuiet' /\ Attributable'
  BY <1>1 DEF IInv, TypeOK, StartIsQuiet, Attributable, Recovering, InFlight
<1> QED
  BY <1>1, <1>2
  DEF IInv, RowsFollowFate, PositionsLanded, BarHoldsSlot, OpeningHasRow, ClosesAreGone, OpenRowOn,
      HoldingWithinLimit, LiveHoldsSlot, ClosedRowIsGone, Holding, Reserving, OpenRows, Live, InFlight

(***************************************************************************)
(* The sweep's release: what it cancels is not at the venue.               *)
(***************************************************************************)
LEMMA ReleaseFreesOnlyDead ==
  ASSUME IInv, mode = "sweep", NEW S \in SUBSET Releasable, Release(S), UNCHANGED <<linked, row>>
  PROVE  /\ order' \in [Intents -> OrderStatus \cup {None}]
         /\ \A i \in Intents : order[i] \in Terminal \cup {None} => order'[i] = order[i]
         /\ \A i \in Intents : order'[i] \in {order[i], "CANCELLED"}
         /\ Holding' \subseteq Holding /\ Live \subseteq Holding'
<1>1. order' = [i \in Intents |-> IF i \in S THEN "CANCELLED" ELSE order[i]]
  BY DEF Release
<1>2. S \subseteq Reserving /\ S \cap Live = {}
  BY DEF IInv, TypeOK, StartIsQuiet, Recovering, PositionsLanded, Releasable, Held, Live, InFlight
<1>3. order' \in [Intents -> OrderStatus \cup {None}]
  BY <1>1 DEF IInv, TypeOK, OrderStatus, Terminal
<1>4. \A i \in Intents : order[i] \in Terminal \cup {None} => order'[i] = order[i]
  BY <1>1, <1>2 DEF Reserving
<1>5. Holding' \subseteq Holding /\ Holding \ S \subseteq Holding'
  BY <1>1, <1>2 DEF Holding, Reserving, OpenRows, Terminal
<1> QED
  BY <1>1, <1>2, <1>3, <1>4, <1>5 DEF IInv, LiveHoldsSlot

LEMMA SweepKeeps ==
  ASSUME IInv, Sweep
  PROVE  IInv'
<1>1. /\ order' \in [Intents -> OrderStatus \cup {None}]
      /\ \A i \in Intents : order'[i] = None => order[i] = None
      /\ Holding' \subseteq Holding /\ Live \subseteq Holding'
  <2>1. CASE Release(Releasable)
    BY <2>1, ReleaseFreesOnlyDead, NoneAssumption DEF Sweep, OrderStatus, Terminal
  <2>2. CASE order' = order
    BY <2>2 DEF IInv, TypeOK, LiveHoldsSlot, Sweep, Holding, Reserving, OpenRows
  <2> QED
    BY <2>1, <2>2 DEF Sweep
<1>2. /\ mode = "sweep" /\ bar = BarIdle /\ events = {} /\ poll = PollIdle
      /\ \A s \in Symbols : entryCid[s] = None
  BY DEF IInv, StartIsQuiet, Attributable, Sweep, Recovering
<1>3. TypeOK'
  BY <1>1 DEF IInv, TypeOK, Sweep
<1>4. RowsFollowFate' /\ PositionsLanded'
  BY <1>1 DEF IInv, RowsFollowFate, PositionsLanded, Sweep
<1>5. Attributable' /\ BarHoldsSlot' /\ OpeningHasRow' /\ ClosesAreGone' /\ StartIsQuiet'
  BY <1>2
  DEF Attributable, BarHoldsSlot, OpeningHasRow, ClosesAreGone, StartIsQuiet, Sweep, Recovering
<1>6. HoldingWithinLimit'
  BY <1>1, SubsetWithinLimit DEF IInv, HoldingWithinLimit, Holding, Reserving, OpenRows
<1>7. LiveHoldsSlot' /\ ClosedRowIsGone'
  BY <1>1 DEF IInv, LiveHoldsSlot, ClosedRowIsGone, Live, InFlight, Sweep
<1> QED
  BY <1>3, <1>4, <1>5, <1>6, <1>7 DEF IInv

LEMMA SweepCutKeeps ==
  ASSUME IInv, SweepCut
  PROVE  IInv'
<1>1. PICK S \in SUBSET Releasable : Release(S)
  BY DEF SweepCut
<1> QED
  BY <1>1, ReleaseFreesOnlyDead, DownKeeps, NoneAssumption DEF SweepCut, OrderStatus, Terminal

LEMMA NextKeepsIInv ==
  ASSUME IInv, [Next]_vars
  PROVE  IInv'
<1>1. CASE BarLoop
  BY <1>1, EvaluateKeeps, ReserveKeeps, ReserveRefusedKeeps, SubmitRefusedLocallyKeeps,
     SubmitDidNotOpenKeeps, SubmitFilledKeeps, SubmitAmbiguousKeeps, ReleaseDeclinedKeeps
  DEF BarLoop, Submit
<1>2. CASE PollVenue \/ Handle \/ HandlerRaises
  BY <1>2, PollVenueKeeps, PersistOpenKeeps, PersistCloseKeeps,
     LinkOrderKeeps, FillOrderKeeps, PollStepsKeep
  DEF Handle
<1>3. CASE Reconcile
  BY <1>3, ReconcileKeeps
<1>4. CASE Recover \/ Crash \/ SweepCut
  BY <1>4, StopKeeps, StartKeeps, RecordVanishedKeeps, RecoverReadsKeep, SweepKeeps, SweepCutKeeps
  DEF Recover
<1>5. CASE Venue
  BY <1>5, VenueLandsKeeps, VenueDropsKeeps, VenueClosesKeeps DEF Venue
<1>6. CASE UNCHANGED vars
  BY <1>6
  DEF vars, IInv, TypeOK, RowsFollowFate, PositionsLanded, Attributable, BarHoldsSlot, OpeningHasRow,
      ClosesAreGone, OpenRowOn, StartIsQuiet, HoldingWithinLimit, LiveHoldsSlot, ClosedRowIsGone,
      Holding, Reserving, OpenRows, Live, InFlight
<1> QED
  BY <1>1, <1>2, <1>3, <1>4, <1>5, <1>6 DEF Next

(***************************************************************************)
(* The inductive invariant holds in every reachable state.                 *)
(***************************************************************************)
THEOREM Inductive == Spec => []IInv
<1>1. Init => IInv
  BY InitIInv
<1>2. IInv /\ [Next]_vars => IInv'
  BY NextKeepsIInv
<1> QED
  BY <1>1, <1>2, PTL DEF Spec

-----------------------------------------------------------------------------
(* Safety *)

(***************************************************************************)
(* Type correctness, for any symbols, intents, sizes, limit and faults.    *)
(***************************************************************************)
THEOREM TypeCorrect == Spec => []TypeOK
BY Inductive, PTL DEF IInv

(***************************************************************************)
(* A slot is never given back while its entry can still be a position.     *)
(***************************************************************************)
THEOREM SlotsOutliveOrders == Spec => []LiveHoldsSlot
BY Inductive, PTL DEF IInv

(***************************************************************************)
(* Never more than max_open_positions entries are live at the venue.       *)
(***************************************************************************)
THEOREM LiveBounded == Spec => []LiveWithinLimit
<1>1. IInv => LiveWithinLimit
  BY SubsetWithinLimit
  DEF IInv, LiveHoldsSlot, HoldingWithinLimit, LiveWithinLimit, Holding, Reserving, OpenRows
<1> QED
  BY <1>1, Inductive, PTL

(***************************************************************************)
(* A ledger row is closed only when its fill has left the venue.           *)
(***************************************************************************)
THEOREM ClosedRowsAreGone == Spec => []ClosedRowIsGone
BY Inductive, PTL DEF IInv

(***************************************************************************)
(* An order marked FILLED has its position row and its link.               *)
(***************************************************************************)
THEOREM FilledOrdersHaveRows == Spec => []FilledHasRow
<1>1. Init => FilledHasRow
  BY NoneAssumption DEF Init, FilledHasRow, OrderStatus, Terminal
<1>2. ASSUME IInv, FilledHasRow, [Next]_vars PROVE FilledHasRow'
  <2>1. CASE Reserve \/ ReleaseDeclined
    BY <1>2, <2>1 DEF IInv, TypeOK, FilledHasRow, Reserve, ReleaseDeclined
  <2>2. CASE \E s \in Symbols : PersistOpen(s)
    BY <1>2, <2>2, NoneAssumption DEF IInv, TypeOK, FilledHasRow, PersistOpen
  <2>3. CASE LinkOrder
    BY <1>2, <2>3 DEF FilledHasRow, LinkOrder
  <2>4. CASE FillOrder
    BY <1>2, <2>4, NoneAssumption DEF IInv, TypeOK, OpeningHasRow, FilledHasRow, FillOrder, PollLoopAt
  <2>5. CASE (\E s \in Symbols : PersistClose(s)) \/ RecordVanished
    <3>1. PICK S : CloseRow(S)
      BY <1>2, <2>5 DEF PersistClose, RecordVanished
    <3> QED
      BY <1>2, <2>5, <3>1, NoneAssumption DEF FilledHasRow, CloseRow, PersistClose, RecordVanished
  <2>6. CASE Sweep \/ SweepCut
    BY <1>2, <2>6 DEF FilledHasRow, Sweep, SweepCut, Release
  <2>7. CASE UNCHANGED <<order, linked, row>>
    BY <1>2, <2>7 DEF FilledHasRow
  <2> QED
    BY <1>2, <2>1, <2>2, <2>3, <2>4, <2>5, <2>6, <2>7
    DEF Next, BarLoop, Submit, Handle, Reconcile, Recover, Venue, vars, Evaluate, ReserveRefused,
        SubmitRefusedLocally, SubmitDidNotOpen, SubmitFilled, SubmitAmbiguous, PollVenue,
        OpenNotRecorded, CloseNotRecorded, HandlerRaises, PeriodicReconcileAgrees,
        PeriodicReconcileHalts, PeriodicPrime, Crash, Start, ReconcileAgrees, StartRefused, Prime,
        VenueLands, VenueDrops, VenueCloses
<1> QED
  BY <1>1, <1>2, Inductive, PTL DEF Spec

(***************************************************************************)
(* What the table says of the statuses the live path writes.               *)
(***************************************************************************)
LEMMA WorkingMoves ==
  /\ CanTransition("WORKING", "FILLED")
  /\ \A st \in Pending : CanTransition(st, "CANCELLED")
  BY DEF CanTransition, Allowed, OrderStatus, Pending, Terminal, Filling, Cancelled

(***************************************************************************)
(* Every change of an entry order's status is a move of the table, or the  *)
(* refusal of a working order: no terminal status ever changes again.      *)
(***************************************************************************)
THEOREM MovesFollowTable == Spec => OrderMovesAllowed
<1> DEFINE Moves(i) == CanTransition(order[i], order'[i]) \/ NeverOpened(order[i], order'[i])
<1>1. ASSUME IInv, [Next]_vars
      PROVE  [\A i \in Intents : order[i] # None => Moves(i)]_vars
  <2>1. CASE Reserve
    BY <1>1, <2>1 DEF IInv, TypeOK, Reserve, CanReserve, CanTransition
  <2>2. CASE ReleaseDeclined
    BY <1>1, <2>2, WorkingMoves
    DEF IInv, TypeOK, BarHoldsSlot, ReleaseDeclined, NeverOpened, CanTransition
  <2>3. CASE FillOrder
    BY <1>1, <2>3, WorkingMoves
    DEF IInv, TypeOK, OpeningHasRow, FillOrder, PollLoopAt, CanTransition
  <2>4. CASE Sweep \/ SweepCut
    BY <1>1, <2>4, WorkingMoves
    DEF IInv, TypeOK, Sweep, SweepCut, Release, Releasable, Reserving, OrderStatus, CanTransition
  <2>5. CASE UNCHANGED order
    BY <2>5 DEF CanTransition
  <2> QED
    BY <1>1, <2>1, <2>2, <2>3, <2>4, <2>5
    DEF Next, BarLoop, Submit, Handle, Reconcile, Recover, Venue, vars, Evaluate, ReserveRefused,
        SubmitRefusedLocally, SubmitDidNotOpen, SubmitFilled, SubmitAmbiguous, PollVenue,
        PersistOpen, LinkOrder, PersistClose, RecordVanished,
        OpenNotRecorded, CloseNotRecorded, HandlerRaises, PeriodicReconcileAgrees,
        PeriodicReconcileHalts, PeriodicPrime, Crash, Start, ReconcileAgrees, StartRefused, Prime,
        VenueLands, VenueDrops, VenueCloses
<1> QED
  BY <1>1, Inductive, PTL DEF Spec, OrderMovesAllowed

(***************************************************************************)
(* While a request of unknown outcome may still land, its symbol is        *)
(* blocked; the entry about to be sent is on no blocked symbol.            *)
(***************************************************************************)
THEOREM UnknownStaysBlocked == Spec => []UnknownBlocks
<1>1. Init => UnknownBlocks
  BY DEF Init, UnknownBlocks, InFlight
<1>2. ASSUME IInv, UnknownBlocks, [Next]_vars PROVE UnknownBlocks'
  <2>1. CASE Reserve
    BY <1>2, <2>1 DEF UnknownBlocks, Reserve, CanReserve, InFlight
  <2>2. ASSUME NEW i \in Intents, SubmitAmbiguous(i) PROVE UnknownBlocks'
    BY <1>2, <2>2 DEF IInv, TypeOK, UnknownBlocks, SubmitAmbiguous, InFlight
  <2>3. ASSUME NEW i \in Intents, SubmitDidNotOpen(i) \/ SubmitFilled(i) PROVE UnknownBlocks'
    BY <1>2, <2>3 DEF IInv, TypeOK, UnknownBlocks, SubmitDidNotOpen, SubmitFilled, Fill, InFlight
  <2>4. ASSUME NEW i \in Intents, VenueLands(i) \/ VenueDrops(i) PROVE UnknownBlocks'
    BY <1>2, <2>4 DEF IInv, TypeOK, UnknownBlocks, VenueLands, VenueDrops, Fill, InFlight
  <2>5. CASE Sweep
    BY <1>2, <2>5 DEF IInv, UnknownBlocks, StartIsQuiet, Sweep, Recovering, InFlight
  <2>6. CASE Start \/ RecordVanished \/ ReconcileAgrees \/ Prime
    BY <1>2, <2>6
    DEF IInv, UnknownBlocks, StartIsQuiet, Start, RecordVanished, ReconcileAgrees, Prime, Recovering
  <2>7. CASE Crash \/ SweepCut \/ StartRefused
    BY <1>2, <2>7 DEF UnknownBlocks, Crash, SweepCut, StartRefused, ProcessGone
  <2>8. CASE UNCHANGED <<fate, mode, unresolved>> /\ (bar' = bar \/ bar'.at # "reserved")
    BY <1>2, <2>8 DEF UnknownBlocks, InFlight
  <2> QED
    BY <1>2, <2>1, <2>2, <2>3, <2>4, <2>5, <2>6, <2>7, <2>8
    DEF Next, BarLoop, Submit, Handle, Reconcile, Recover, Venue, vars, Evaluate, ReserveRefused,
        SubmitRefusedLocally, ReleaseDeclined, PollVenue, PersistOpen, LinkOrder, FillOrder,
        OpenNotRecorded, PersistClose, CloseNotRecorded, HandlerRaises, PeriodicReconcileAgrees,
        PeriodicReconcileHalts, PeriodicPrime, VenueCloses
<1> QED
  BY <1>1, <1>2, Inductive, PTL DEF Spec

(***************************************************************************)
(* No entry is sent beside one whose outcome is unknown.                   *)
(***************************************************************************)
THEOREM NothingSentBesideUnknown == Spec => NoEntryBesideUnknown
<1>1. ASSUME IInv, UnknownBlocks, [Next]_vars
      PROVE  [\A i \in Intents : Sent(i) => On(SymbolOf[i]) \cap InFlight = {}]_vars
  <2> SUFFICES ASSUME NEW i \in Intents, Sent(i), NEW j \in On(SymbolOf[i]) \cap InFlight
               PROVE  FALSE
    BY <1>1
  <2>1. Submitting(i)
    <3>1. CASE \E k \in Intents : Submit(k)
      BY <1>1, <3>1
      DEF IInv, TypeOK, Sent, Submit, SubmitRefusedLocally, SubmitDidNotOpen, SubmitFilled,
          SubmitAmbiguous, Fill
    <3>2. CASE \E k \in Intents : VenueLands(k) \/ VenueDrops(k)
      BY <1>1, <3>2 DEF IInv, TypeOK, Sent, VenueLands, VenueDrops, Fill
    <3>3. CASE UNCHANGED fate
      BY <3>3 DEF Sent
    <3> QED
      BY <1>1, <3>1, <3>2, <3>3
      DEF Next, BarLoop, Handle, Reconcile, Recover, Venue, vars, Evaluate, Reserve, ReserveRefused,
          ReleaseDeclined, PollVenue, PersistOpen, LinkOrder, FillOrder, OpenNotRecorded,
          PersistClose, CloseNotRecorded, HandlerRaises, PeriodicReconcileAgrees,
          PeriodicReconcileHalts, PeriodicPrime, Crash, SweepCut, Start, RecordVanished,
          ReconcileAgrees, StartRefused, Prime, Sweep, VenueCloses
  <2> QED
    BY <1>1, <2>1 DEF UnknownBlocks, Submitting, BarLoopRuns, On, InFlight
<1> QED
  BY <1>1, Inductive, UnknownStaysBlocked, PTL DEF Spec, NoEntryBesideUnknown

=============================================================================

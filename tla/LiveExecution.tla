--------------------------- MODULE LiveExecution ---------------------------
(***************************************************************************)
(* The life of an entry in the live bot: approved by the risk engine,      *)
(* given an exposure slot in the database, sent once to the venue, seen    *)
(* (or not) by the position poll, recorded in the ledger, closed by the    *)
(* venue, and, across crashes, reconciled with the venue by the next       *)
(* process.  Three actors interleave: the bar loop (app/runtime/bot.py     *)
(* _place), the poll loop (live/runtime.py _poll_loop) and the venue.      *)
(* Both loops are asyncio tasks of one process and a venue call is         *)
(* synchronous, so they interleave only where they await the database.     *)
(***************************************************************************)
EXTENDS Integers, FiniteSets, FiniteSetsExt, OrderState

CONSTANTS
  Symbols,      \* the trade universe
  Intents,      \* risk-approved intents; intent_id, signal_key and client_order_id are derived from each other
  SymbolOf,     \* the symbol of an intent
  Qty,          \* signed contracts the intent's order fills, + long, - short
  MaxOpen,      \* RiskConfig.max_open_positions
  Faults,       \* the faults this instance admits
  None          \* "no intent", "no order row", "nothing traded yet"

ASSUME IntentsAssumption == IsFiniteSet(Intents)
ASSUME NoneAssumption == None \notin Intents \cup OrderStatus \cup {"OPEN", "CLOSED"}
ASSUME SymbolOfAssumption == SymbolOf \in [Intents -> Symbols]
ASSUME QtyAssumption == Qty \in [Intents -> Int \ {0}]
ASSUME MaxOpenAssumption == MaxOpen \in Nat
ASSUME FaultsAssumption == Faults \subseteq {"crash", "raise", "blind"}

VARIABLES
  \* durable: the database
  signals,      \* intents whose signal row exists
  order,        \* status of the intent's entry order row
  linked,       \* intents whose order row carries a position_uid
  row,          \* status of the intent's position row
  exit,         \* whose closing order the position row was closed with
  \* the venue
  fate,         \* what became of the intent's order
  pos,          \* symbol -> the intents whose fills make up the open position
  latest,       \* symbol -> the newest filled order in the venue's history
  \* memory of the process
  mode,         \* where start-up is, or "running", or "down"
  ready,        \* TradingBot.ready
  bar,          \* the bar loop's entry in progress
  unresolved,   \* _unresolved_entries
  entryCid,     \* LiveBroker._entry_cid and _pending
  cache,        \* symbols in LiveBroker.positions
  events,       \* events of the last poll not handled yet
  poll          \* the poll loop's step

dbVars    == <<signals, order, linked, row, exit>>
venueVars == <<fate, pos, latest>>
barVars   == <<bar, unresolved>>
pollVars  == <<cache, events, poll>>
vars == <<dbVars, venueVars, mode, ready, barVars, entryCid, pollVars>>

-----------------------------------------------------------------------------
(* Values *)

Fate        == {"unsent", "flight", "landed", "died", "lost"}
Recovering  == {"vanished", "reconcile", "prime", "sweep"}
Event       == [kind : {"POSITION_OPENED", "POSITION_CLOSED"}, sym : Symbols]
Trade       == [kind : {"entry", "exit"}, of : SUBSET Intents]

At(step, i) == [at |-> step, intent |-> i]
BarIdle  == At("idle", None)
PollIdle == At("idle", None)

(***************************************************************************)
(* The signed size of a position, as get_positions reports it.             *)
(***************************************************************************)
NetSize(S) == MapThenSumSet(LAMBDA i : Qty[i], S)

On(s)    == {i \in Intents : SymbolOf[i] = s}
Held(s)  == pos[s] # {}
OpenRows == {i \in Intents : row[i] = "OPEN"}
\* Fault variant: the symbol filter forgotten.
OpenRowAnywhere(s) == OpenRows

OpenRowOn(s) == OpenRows \cap On(s)
InFlight == {i \in Intents : fate[i] = "flight"}

(***************************************************************************)
(* An entry order row holds a slot until it is terminal or carries the     *)
(* position it became; the gate counts those rows plus the open positions. *)
(***************************************************************************)
Reserving == {i \in Intents : order[i] \notin Terminal \cup {None} /\ i \notin linked}

EffectiveExposure == Cardinality(OpenRows) + Cardinality(Reserving)

(***************************************************************************)
(* reconcile(): signed sizes agree on every symbol.                        *)
(***************************************************************************)
Agree == \A s \in Symbols : NetSize(pos[s]) = NetSize(OpenRowOn(s))

(***************************************************************************)
(* The venue and the database may move at any await; the second venue read *)
(* of reconcile_with_venue follows the first with no await between, so the *)
(* bar loop is held while poll.at = "prime".                               *)
(***************************************************************************)
BarLoopRuns == mode = "running" /\ poll.at # "prime"

Init ==
  /\ signals = {}
  /\ order = [i \in Intents |-> None]
  /\ linked = {}
  /\ row = [i \in Intents |-> None]
  /\ exit = [i \in Intents |-> None]
  /\ fate = [i \in Intents |-> "unsent"]
  /\ pos = [s \in Symbols |-> {}]
  /\ latest = [s \in Symbols |-> None]
  /\ mode = "down"
  /\ ready = FALSE
  /\ bar = BarIdle
  /\ unresolved = {}
  /\ entryCid = [s \in Symbols |-> None]
  /\ cache = {}
  /\ events = {}
  /\ poll = PollIdle

-----------------------------------------------------------------------------
(* The bar loop: app/runtime/bot.py *)

(***************************************************************************)
(* _process_explanation: the risk engine reads the broker's CACHE, and the *)
(* signal row is written before anything is placed, so a bar queued again  *)
(* after an error finds its signal recorded and stops.                     *)
(***************************************************************************)
Evaluate(i) ==
  /\ BarLoopRuns /\ bar = BarIdle
  /\ i \notin signals
  /\ SymbolOf[i] \notin cache
  /\ Cardinality(cache) < MaxOpen
  /\ signals' = signals \cup {i}
  /\ bar' = At("approved", i)
  /\ UNCHANGED <<order, linked, row, exit, venueVars, mode, ready, unresolved,
                 entryCid, pollVars>>

(***************************************************************************)
(* _place up to the reservation: count and insert in one transaction.      *)
(***************************************************************************)
\* Fault variant: the symbol of an unknown outcome is not blocked.
CanReserveUnblocked(i) == EffectiveExposure < MaxOpen /\ order[i] = None

CanReserve(i) ==
  /\ SymbolOf[i] \notin unresolved
  /\ EffectiveExposure < MaxOpen
  /\ order[i] = None

Reserve ==
  /\ BarLoopRuns /\ bar.at = "approved"
  /\ CanReserve(bar.intent)
  /\ order' = [order EXCEPT ![bar.intent] = "WORKING"]
  /\ bar' = At("reserved", bar.intent)
  /\ UNCHANGED <<signals, linked, row, exit, venueVars, mode, ready, unresolved,
                 entryCid, pollVars>>

ReserveRefused ==
  /\ BarLoopRuns /\ bar.at = "approved"
  /\ ~CanReserve(bar.intent)
  /\ bar' = BarIdle
  /\ UNCHANGED <<dbVars, venueVars, mode, ready, unresolved, entryCid, pollVars>>

-----------------------------------------------------------------------------
(* LiveBroker.submit_order and LiveClient.place_order: one synchronous call *)

(***************************************************************************)
(* A fill of i at the venue joins the symbol's position; fills that net to *)
(* zero leave it flat.                                                     *)
(***************************************************************************)
Fill(i) ==
  LET s == SymbolOf[i]
      built == pos[s] \cup {i}
  IN /\ fate' = [fate EXCEPT ![i] = "landed"]
     /\ pos' = [pos EXCEPT ![s] = IF NetSize(built) = 0 THEN {} ELSE built]
     /\ latest' = [latest EXCEPT ![s] = [kind |-> "entry", of |-> {i}]]

(***************************************************************************)
(* _entry_cid and _pending are written BEFORE the order is sent, and taken *)
(* out again only on a definite refusal or an unfilled IOC.                *)
(***************************************************************************)
Attribute(i) == entryCid' = [entryCid EXCEPT ![SymbolOf[i]] = i]

\* Fault variant: a refused order stays attributed.
UnattributeForgotten(i) == entryCid' = [entryCid EXCEPT ![SymbolOf[i]] = i]

Unattribute(i) == entryCid' = [entryCid EXCEPT ![SymbolOf[i]] = None]

Submitting(i) == BarLoopRuns /\ bar.at = "reserved" /\ i = bar.intent

(* OpeningRefused: kill switch, suspended feed, dislocated book, leverage. *)
SubmitRefusedLocally(i) ==
  /\ Submitting(i)
  /\ bar' = At("declined", i)
  /\ UNCHANGED <<dbVars, venueVars, mode, ready, unresolved, entryCid, pollVars>>

(* VenueRejected, or EntryDidNotFill: the outcome is known, nothing opened. *)
SubmitDidNotOpen(i) ==
  /\ Submitting(i)
  /\ fate' = [fate EXCEPT ![i] = "died"]
  /\ Unattribute(i)
  /\ bar' = At("declined", i)
  /\ UNCHANGED <<dbVars, pos, latest, mode, ready, unresolved, pollVars>>

(* The order landed and its row came back, from the POST or from the lookup. *)
SubmitFilled(i) ==
  /\ Submitting(i)
  /\ Fill(i)
  /\ Attribute(i)
  /\ bar' = BarIdle
  /\ UNCHANGED <<dbVars, mode, ready, unresolved, pollVars>>

\* Fault variant: an unknown outcome is treated as "nothing opened".
SubmitAmbiguousReleases(i) ==
  /\ Submitting(i)
  /\ fate' = [fate EXCEPT ![i] = "flight"]
  /\ Attribute(i)
  /\ bar' = At("declined", i)
  /\ UNCHANGED <<dbVars, pos, latest, mode, ready, unresolved, pollVars>>

(***************************************************************************)
(* AmbiguousWrite: the response was not seen and the lookup did not find   *)
(* the order or failed.  The request may still land.  _place holds the     *)
(* slot, blocks the symbol and re-raises.                                  *)
(***************************************************************************)
SubmitAmbiguous(i) ==
  /\ Submitting(i)
  /\ fate' = [fate EXCEPT ![i] = "flight"]
  /\ Attribute(i)
  /\ unresolved' = unresolved \cup {SymbolOf[i]}
  /\ bar' = BarIdle
  /\ UNCHANGED <<dbVars, pos, latest, mode, ready, pollVars>>

(* _place's handler: no position can result, so the slot is given back. *)
ReleaseDeclined ==
  /\ BarLoopRuns /\ bar.at = "declined"
  /\ order' = [order EXCEPT ![bar.intent] = "REJECTED"]
  /\ bar' = BarIdle
  /\ UNCHANGED <<signals, linked, row, exit, venueVars, mode, ready, unresolved,
                 entryCid, pollVars>>

-----------------------------------------------------------------------------
(* The venue *)

VenueLands(i) ==
  /\ fate[i] = "flight"
  /\ Fill(i)
  /\ UNCHANGED <<dbVars, mode, ready, barVars, entryCid, pollVars>>

(* The request never arrived, or its IOC found no liquidity. *)
VenueDrops(i) ==
  /\ fate[i] = "flight"
  /\ fate' \in {[fate EXCEPT ![i] = "lost"], [fate EXCEPT ![i] = "died"]}
  /\ UNCHANGED <<dbVars, pos, latest, mode, ready, barVars, entryCid, pollVars>>

(* A bracket leg, a liquidation, or a reduce-only close this bot asked for. *)
VenueCloses(s) ==
  /\ Held(s)
  /\ pos' = [pos EXCEPT ![s] = {}]
  /\ latest' = [latest EXCEPT ![s] = [kind |-> "exit", of |-> pos[s]]]
  /\ UNCHANGED <<dbVars, fate, mode, ready, barVars, entryCid, pollVars>>

-----------------------------------------------------------------------------
(* The poll loop: LiveTradingBot._poll_loop and LiveBroker.poll *)

PollLoopAt(p) == mode = "running" /\ poll.at = p

Seen == {s \in Symbols : Held(s)}

(* The difference between the venue's positions and the cache, as events. *)
Diff ==
  {[kind |-> "POSITION_OPENED", sym |-> s] : s \in Seen \ cache}
    \cup {[kind |-> "POSITION_CLOSED", sym |-> s] : s \in cache \ Seen}

PollVenue ==
  /\ PollLoopAt("idle") /\ events = {}
  /\ events' = Diff
  /\ cache' = Seen
  /\ UNCHANGED <<dbVars, venueVars, mode, ready, barVars, entryCid, poll>>

Opened(s) == [kind |-> "POSITION_OPENED", sym |-> s]
Closed(s) == [kind |-> "POSITION_CLOSED", sym |-> s]

(***************************************************************************)
(* _persist_open: attribute the position to the intent last sent on the    *)
(* symbol, look that order up, and insert the row.  open_record takes the  *)
(* intent's quantity when the order row reports nothing filled, so a row   *)
(* is opened for any order the venue knows.  open_position refuses a       *)
(* signal that has a row and a symbol that has an open one.                *)
(***************************************************************************)
Recordable(s) ==
  LET i == entryCid[s]
  IN /\ i # None /\ fate[i] \in {"landed", "died"}
     /\ row[i] = None /\ OpenRowOn(s) = {}

PersistOpen(s) ==
  /\ PollLoopAt("idle") /\ Opened(s) \in events
  /\ Recordable(s)
  /\ row' = [row EXCEPT ![entryCid[s]] = "OPEN"]
  /\ poll' = At("link", entryCid[s])
  /\ UNCHANGED <<signals, order, linked, exit, venueVars, mode, ready, barVars,
                 entryCid, cache, events>>

\* Fault variant: the position is recorded and the order never linked to it.
LinkOrderForgotten ==
  /\ PollLoopAt("link")
  /\ poll' = At("fill", poll.intent)
  /\ UNCHANGED <<dbVars, venueVars, mode, ready, barVars, entryCid, cache, events>>

(* record_order_fill, then update_order_status: two further transactions. *)
LinkOrder ==
  /\ PollLoopAt("link")
  /\ linked' = linked \cup {poll.intent}
  /\ poll' = At("fill", poll.intent)
  /\ UNCHANGED <<signals, order, row, exit, venueVars, mode, ready, barVars,
                 entryCid, cache, events>>

FillOrder ==
  /\ PollLoopAt("fill")
  /\ order' = [order EXCEPT ![poll.intent] = "FILLED"]
  /\ events' = events \ {Opened(SymbolOf[poll.intent])}
  /\ poll' = PollIdle
  /\ UNCHANGED <<signals, linked, row, exit, venueVars, mode, ready, barVars,
                 entryCid, cache>>

(* UNATTRIBUTED_POSITION, no venue order, or DUPLICATE_POSITION_REFUSED. *)
OpenNotRecorded(s) ==
  /\ PollLoopAt("idle") /\ Opened(s) \in events
  /\ ~Recordable(s)
  /\ events' = events \ {Opened(s)}
  /\ UNCHANGED <<dbVars, venueVars, mode, ready, barVars, entryCid, cache, poll>>

(***************************************************************************)
(* _persist_close: the open row of the symbol is closed with the newest    *)
(* filled order in the venue's history, whatever that order is.            *)
(***************************************************************************)
CloseRow(S) ==
  /\ row' = [i \in Intents |-> IF i \in S THEN "CLOSED" ELSE row[i]]
  /\ exit' = [i \in Intents |-> IF i \in S THEN latest[SymbolOf[i]] ELSE exit[i]]

OpensHandled == \A ev \in events : ev.kind = "POSITION_CLOSED"

PersistClose(s) ==
  /\ PollLoopAt("idle") /\ OpensHandled /\ Closed(s) \in events
  /\ OpenRowOn(s) # {} /\ latest[s] # None
  /\ CloseRow(OpenRowOn(s))
  /\ events' = events \ {Closed(s)}
  /\ UNCHANGED <<signals, order, linked, venueVars, mode, ready, barVars,
                 entryCid, cache, poll>>

(* No open row to close, or no closing order found: logged, nothing written. *)
CloseNotRecorded(s) ==
  /\ PollLoopAt("idle") /\ OpensHandled /\ Closed(s) \in events
  /\ OpenRowOn(s) = {} \/ latest[s] = None
  /\ events' = events \ {Closed(s)}
  /\ UNCHANGED <<dbVars, venueVars, mode, ready, barVars, entryCid, cache, poll>>

(***************************************************************************)
(* A venue or database error while an event is handled: the loop's except  *)
(* logs it, and what was left of the poll's events goes with the exception.*)
(***************************************************************************)
HandlerRaises ==
  /\ "raise" \in Faults
  /\ mode = "running" /\ events # {}
  /\ events' = {}
  /\ poll' = PollIdle
  /\ UNCHANGED <<dbVars, venueVars, mode, ready, barVars, entryCid, cache>>

-----------------------------------------------------------------------------
(* Reconciliation: every RECONCILE_SECONDS, and at start-up *)

PeriodicReconcileAgrees ==
  /\ PollLoopAt("idle") /\ events = {}
  /\ Agree
  /\ poll' = At("prime", None)
  /\ UNCHANGED <<dbVars, venueVars, mode, ready, barVars, entryCid, cache, events>>

PeriodicReconcileHalts ==
  /\ PollLoopAt("idle") /\ events = {}
  /\ ~Agree \/ "blind" \in Faults
  /\ ready' = FALSE
  /\ UNCHANGED <<dbVars, venueVars, mode, barVars, entryCid, pollVars>>

(***************************************************************************)
(* "Prime the broker's cache": a second venue read whose events nobody     *)
(* takes.  If it fails the exception leaves the cache as it was.           *)
(***************************************************************************)
PeriodicPrime ==
  /\ PollLoopAt("prime")
  /\ \/ cache' = Seen
     \/ "blind" \in Faults /\ cache' = cache
  /\ poll' = PollIdle
  /\ UNCHANGED <<dbVars, venueVars, mode, ready, barVars, entryCid, events>>

-----------------------------------------------------------------------------
(* Crash and restart: __main__, start, recover *)

ProcessGone ==
  /\ mode' = "down"
  /\ ready' = FALSE
  /\ bar' = BarIdle
  /\ unresolved' = {}
  /\ entryCid' = [s \in Symbols |-> None]
  /\ cache' = {}
  /\ events' = {}
  /\ poll' = PollIdle

Crash ==
  /\ "crash" \in Faults
  /\ mode # "down"
  /\ ProcessGone
  /\ UNCHANGED <<dbVars, venueVars>>

(***************************************************************************)
(* ENVIRONMENT: the venue refuses a request whose signature is older than  *)
(* five seconds (live/auth.py), and a restart takes longer than that, so   *)
(* nothing the previous process sent is still on its way.                  *)
(***************************************************************************)
Start ==
  /\ mode = "down"
  /\ InFlight = {}
  /\ mode' = "vanished"
  /\ UNCHANGED <<dbVars, venueVars, ready, barVars, entryCid, pollVars>>

(***************************************************************************)
(* _record_proven_vanished_closes.  The newest filled order proves the     *)
(* close of a row whose symbol the venue holds flat when it is reduce-only *)
(* and fills the row's whole size on the other side; that it was placed    *)
(* after the row was opened needs no clock, an entry that landed being in  *)
(* that history.  A history that cannot be read skips its row.             *)
(***************************************************************************)
ProvenClosed(i) ==
  LET s == SymbolOf[i]
  IN /\ row[i] = "OPEN" /\ ~Held(s)
     /\ latest[s] # None /\ latest[s].kind = "exit"
     /\ NetSize(latest[s].of) = Qty[i]

RecordVanished ==
  /\ mode = "vanished"
  /\ \E S \in SUBSET {i \in Intents : ProvenClosed(i)} :
       /\ "blind" \notin Faults => \A i \in Intents : ProvenClosed(i) => i \in S
       /\ CloseRow(S)
  /\ mode' = "reconcile"
  /\ UNCHANGED <<signals, order, linked, venueVars, ready, barVars, entryCid, pollVars>>

ReconcileAgrees ==
  /\ mode = "reconcile"
  /\ Agree
  /\ mode' = "prime"
  /\ UNCHANGED <<dbVars, venueVars, ready, barVars, entryCid, pollVars>>

(* A disagreement or an unreadable venue: recovery_error, and main exits. *)
StartRefused ==
  /\ \/ mode = "reconcile" /\ ~Agree
     \/ mode \in {"reconcile", "prime"} /\ "blind" \in Faults
  /\ ProcessGone
  /\ UNCHANGED <<dbVars, venueVars>>

Prime ==
  /\ mode = "prime"
  /\ cache' = Seen
  /\ mode' = "sweep"
  /\ UNCHANGED <<dbVars, venueVars, ready, barVars, entryCid, events, poll>>

(***************************************************************************)
(* _release_orphaned_entries: cancel the entry rows of earlier processes   *)
(* on symbols where the venue shows nothing.  An unreadable venue skips    *)
(* the sweep, and a crash part way leaves the rest for the next start.     *)
(***************************************************************************)
\* Fault variant: the sweep does not look at the venue.
ReleasableUnchecked == Reserving

Releasable == {i \in Reserving : ~Held(SymbolOf[i])}

\* Fault variant: a status the order table does not know.
ReleaseAsOrphaned(S) == order' = [i \in Intents |-> IF i \in S THEN "ORPHANED" ELSE order[i]]

Release(S) == order' = [i \in Intents |-> IF i \in S THEN "CANCELLED" ELSE order[i]]

Sweep ==
  /\ mode = "sweep"
  /\ \/ Release(Releasable)
     \/ "blind" \in Faults /\ order' = order
  /\ mode' = "running"
  /\ ready' = TRUE
  /\ UNCHANGED <<signals, linked, row, exit, venueVars, barVars, entryCid, pollVars>>

SweepCut ==
  /\ "crash" \in Faults
  /\ mode = "sweep"
  /\ \E S \in SUBSET Releasable : Release(S)
  /\ ProcessGone
  /\ UNCHANGED <<signals, linked, row, exit, venueVars>>

-----------------------------------------------------------------------------

Submit(i) ==
  \/ SubmitRefusedLocally(i)
  \/ SubmitDidNotOpen(i)
  \/ SubmitFilled(i)
  \/ SubmitAmbiguous(i)

BarLoop ==
  \/ \E i \in Intents : Evaluate(i) \/ Submit(i)
  \/ Reserve
  \/ ReserveRefused
  \/ ReleaseDeclined

Handle ==
  \/ \E s \in Symbols :
       PersistOpen(s) \/ OpenNotRecorded(s) \/ PersistClose(s) \/ CloseNotRecorded(s)
  \/ LinkOrder
  \/ FillOrder

Reconcile ==
  \/ PeriodicReconcileAgrees
  \/ PeriodicReconcileHalts
  \/ PeriodicPrime

Recover ==
  \/ Start
  \/ RecordVanished
  \/ ReconcileAgrees
  \/ StartRefused
  \/ Prime
  \/ Sweep

Venue ==
  \/ \E i \in Intents : VenueLands(i) \/ VenueDrops(i)
  \/ \E s \in Symbols : VenueCloses(s)

Next ==
  \/ BarLoop
  \/ PollVenue
  \/ Handle
  \/ HandlerRaises
  \/ Reconcile
  \/ Recover
  \/ Crash
  \/ SweepCut
  \/ Venue

Spec == Init /\ [][Next]_vars

-----------------------------------------------------------------------------
(* Properties *)

TypeOK ==
  /\ signals \subseteq Intents
  /\ order \in [Intents -> OrderStatus \cup {None}]
  /\ linked \subseteq Intents
  /\ row \in [Intents -> {None, "OPEN", "CLOSED"}]
  /\ exit \in [Intents -> Trade \cup {None}]
  /\ fate \in [Intents -> Fate]
  /\ pos \in [Symbols -> SUBSET Intents]
  /\ latest \in [Symbols -> Trade \cup {None}]
  /\ mode \in Recovering \cup {"down", "running"}
  /\ ready \in BOOLEAN
  /\ bar \in [at : {"idle", "approved", "reserved", "declined"}, intent : Intents \cup {None}]
  /\ unresolved \subseteq Symbols
  /\ entryCid \in [Symbols -> Intents \cup {None}]
  /\ cache \subseteq Symbols
  /\ events \subseteq Event
  /\ poll \in [at : {"idle", "link", "fill", "prime"}, intent : Intents \cup {None}]

(***************************************************************************)
(* Entries that are a position at the venue or may still become one, and   *)
(* entries that hold an exposure slot.                                     *)
(***************************************************************************)
Live    == InFlight \cup UNION {pos[s] : s \in Symbols}
Holding == Reserving \cup OpenRows

(***************************************************************************)
(* No more entries than max_open_positions are ever live at the venue,     *)
(* whatever is lost, late, raised or crashed (reserve_entry_slot, _place,  *)
(* _release_orphaned_entries).                                             *)
(***************************************************************************)
LiveWithinLimit == Cardinality(Live) <= MaxOpen

(***************************************************************************)
(* A slot is never given back while its entry can still be a position: not *)
(* by the exception handler of _place, not by recording a close, not by    *)
(* the start-up sweep (bot.py: "a wrongly released one can open a second   *)
(* position beside a live one").                                           *)
(***************************************************************************)
LiveHoldsSlot == Live \subseteq Holding

(***************************************************************************)
(* The bot implements the abstract gate: every step of either loop, of     *)
(* recovery, of a crash or of the venue is one step of it, or none.        *)
(***************************************************************************)
Gate == INSTANCE ExposureGate WITH holding <- Holding, live <- Live

GateSpec == Gate!Spec

(***************************************************************************)
(* A ledger row is closed only when the fill it records has left the venue *)
(* (_persist_close, _record_proven_vanished_closes).                       *)
(***************************************************************************)
ClosedRowIsGone == \A i \in Intents : row[i] = "CLOSED" => i \notin Live

(***************************************************************************)
(* An entry order marked FILLED has its position row and the link to it:   *)
(* _persist_open writes the row first, the link second, the status last,   *)
(* so a crash between them never leaves a filled order without its trade.  *)
(***************************************************************************)
FilledHasRow == \A i \in Intents : order[i] = "FILLED" => i \in linked /\ row[i] # None

(***************************************************************************)
(* An entry order moves only as the table allows, although                 *)
(* update_order_status checks nothing: in particular a terminal order      *)
(* stays what it is ("Nothing may move it out").  The one exception is the *)
(* release of a slot whose order never opened: WORKING to REJECTED.        *)
(***************************************************************************)
NeverOpened(current, requested) == current = "WORKING" /\ requested = "REJECTED"

OrderMovesAllowed ==
  [][\A i \in Intents : order[i] # None =>
       CanTransition(order[i], order'[i]) \/ NeverOpened(order[i], order'[i])]_vars

(***************************************************************************)
(* No entry is sent on a symbol while an earlier entry on it may still     *)
(* land with an unknown outcome, in this process or after a restart        *)
(* (_unresolved_entries).                                                  *)
(***************************************************************************)
Sent(i) == fate[i] = "unsent" /\ fate'[i] # "unsent"

NoEntryBesideUnknown ==
  [][\A i \in Intents : Sent(i) => On(SymbolOf[i]) \cap InFlight = {}]_vars

(***************************************************************************)
(* Why slots are safe, step by step: the inductive invariant behind        *)
(* LiveWithinLimit, LiveHoldsSlot and ClosedRowIsGone.                     *)
(***************************************************************************)
\* A database row exists only for what was sent, and a link only for a row.
RowsFollowFate ==
  \A i \in Intents :
    /\ order[i] = None => fate[i] = "unsent"
    /\ row[i] # None => fate[i] \in {"landed", "died"}
    /\ i \in linked => row[i] # None

\* A venue position is made of landed orders of its symbol.
PositionsLanded == \A s \in Symbols : \A i \in pos[s] : SymbolOf[i] = s /\ fate[i] = "landed"

\* An intent the broker can still attribute to holds its slot or has its row.
Attributable ==
  \A s \in Symbols : entryCid[s] # None =>
    /\ mode = "running" /\ SymbolOf[entryCid[s]] = s
    /\ fate[entryCid[s]] # "unsent"
    /\ row[entryCid[s]] = None => order[entryCid[s]] = "WORKING"

\* The bar loop's entry in progress has a working order and no position.
BarHoldsSlot ==
  /\ bar.at \in {"approved", "reserved", "declined"} => bar.intent \in Intents
  /\ bar.at = "reserved" => order[bar.intent] = "WORKING" /\ fate[bar.intent] = "unsent"
  /\ bar.at = "declined" =>
       /\ order[bar.intent] = "WORKING" /\ row[bar.intent] = None
       /\ fate[bar.intent] \in {"unsent", "died"}
       /\ \A s \in Symbols : entryCid[s] # bar.intent

\* While _persist_open is between its transactions the row is open.
OpeningHasRow ==
  /\ poll.at \in {"link", "fill"} =>
       /\ poll.intent \in Intents /\ row[poll.intent] = "OPEN"
       /\ order[poll.intent] = "WORKING"
       /\ Opened(SymbolOf[poll.intent]) \in events
  /\ poll.at = "fill" => poll.intent \in linked

\* A close waiting to be recorded concerns no fill still at the venue.
ClosesAreGone ==
  \A s \in Symbols : Closed(s) \in events =>
    /\ Opened(s) \notin events
    /\ OpenRowOn(s) \cap pos[s] = {}

\* Start-up finds nothing on its way to the venue and no loop running.
StartIsQuiet ==
  /\ mode \in Recovering => InFlight = {}
  /\ mode # "running" => bar = BarIdle /\ events = {} /\ poll = PollIdle

HoldingWithinLimit == Cardinality(Holding) <= MaxOpen

IInv ==
  /\ TypeOK
  /\ RowsFollowFate
  /\ PositionsLanded
  /\ Attributable
  /\ BarHoldsSlot
  /\ OpeningHasRow
  /\ ClosesAreGone
  /\ StartIsQuiet
  /\ HoldingWithinLimit
  /\ LiveHoldsSlot
  /\ ClosedRowIsGone

\* What a request of unknown outcome blocks (NoEntryBesideUnknown).
UnknownBlocks ==
  /\ \A i \in InFlight : mode = "running" => SymbolOf[i] \in unresolved
  /\ bar.at = "reserved" => SymbolOf[bar.intent] \notin unresolved

(***************************************************************************)
(* LiveBroker.poll: "a missed poll costs latency and not correctness".     *)
(* Every fill of a running process reaches the ledger.                     *)
(***************************************************************************)
EveryFillRecorded ==
  \A i \in Intents : (fate[i] = "landed" /\ mode = "running") ~> (row[i] # None \/ mode = "down")

(***************************************************************************)
(* Both loops of a running process keep iterating: each catches every      *)
(* exception and sleeps a bounded time.                                    *)
(***************************************************************************)
Fairness ==
  /\ WF_vars(PollVenue)
  /\ WF_vars(Handle)
  /\ WF_vars(PeriodicPrime)
  /\ WF_vars(BarLoop)
  /\ WF_vars(Recover)

FairSpec == Spec /\ Fairness

=============================================================================

--------------------------- MODULE PaperExecution ---------------------------
(***************************************************************************)
(* The paper bot's execution.  The broker (app/execution/paper_broker.py)  *)
(* lives in memory and moves on every tick, inside the socket callback;    *)
(* what it did waits as events until the bar loop (app/runtime/bot.py)     *)
(* writes them to the database one await at a time.  A restart rebuilds    *)
(* the broker from the position rows, the funding ledger and the risk      *)
(* state.  The order, the exit order and the position of one approved      *)
(* intent share its name, as their deterministic uids do.                  *)
(***************************************************************************)
EXTENDS Integers, FiniteSets, SequencesExt

CONSTANTS
  Trades,       \* approved intents, each with the position it may become
  Symbols,      \* the trade universe
  SymbolOf,     \* the symbol of an intent
  Exits,        \* what a close may be booked at: price, reason, result
  None,         \* "no exit yet"
  MaxOpen,      \* max_open_positions
  MaxNow,       \* bound: funding settlements that pass
  MaxRestarts,  \* bound: restarts, by a crash or by stop()
  MaxRaises     \* bound: exceptions out of a database call

ASSUME TradesAssumption == IsFiniteSet(Trades)
ASSUME SymbolOfAssumption == SymbolOf \in [Trades -> Symbols]
ASSUME NoneAssumption == None \notin Exits
ASSUME BoundsAssumption == {MaxOpen, MaxNow, MaxRestarts, MaxRaises} \subseteq Nat

VARIABLES
  \* the market
  now,          \* settlements passed, in market time
  \* PaperBroker
  order,        \* status of the entry order
  pos,          \* the position in broker.positions
  rate,         \* symbols whose funding rate this process has seen
  \* TradingBot
  mode,         \* "down" or "up"
  queue,        \* _pending_events
  batch,        \* the events drain_broker_events has taken
  loop,         \* what the bar loop awaits, and for which trade
  risk,         \* RiskState: what it has counted and booked
  \* the database
  seen,         \* signal rows: an evaluation is acted on once
  orderRow,     \* paper_orders, entries
  posRow,       \* positions
  entryFill,    \* paper_fills of entries
  exitFill,     \* paper_fills of exits
  fundRow,      \* funding_events, by position and settlement
  saved,        \* strategy_state
  \* history
  tightened,    \* positions whose stop the ladder or the trail has moved
  cut,          \* trades an exception has kept an event of from the rows
  restarts, raises

broker == <<order, pos, rate>>
database == <<seen, orderRow, posRow, entryFill, exitFill, fundRow, saved>>
history == <<tightened, cut, restarts, raises>>
vars == <<now, broker, mode, queue, batch, loop, risk, database, history>>

-----------------------------------------------------------------------------

Status == {"none", "OPEN", "SUSPENDED", "CLOSED"}

Position == [status : Status, exit : Exits \cup {None}, stop : {0, 1},
             fund : SUBSET (1..MaxNow), opened : 0..MaxNow, through : 0..MaxNow]

Row == [status : Status, exit : Exits \cup {None}, stop : {0, 1},
        fund : SUBSET (1..MaxNow), opened : 0..MaxNow]

Event == [kind : {"ENTRY_FILL", "EXIT_FILL", "POSITION_OPENED", "POSITION_CLOSED",
                  "FUNDING", "EXPIRED", "CANCELLED"},
          trade : Trades, exit : Exits \cup {None}, at : 0..MaxNow]

Ev(kind, t) == [kind |-> kind, trade |-> t, exit |-> None, at |-> 0]

NoPosition == [status |-> "none", exit |-> None, stop |-> 0,
               fund |-> {}, opened |-> 0, through |-> 0]
NoRow == [status |-> "none", exit |-> None, stop |-> 0, fund |-> {}, opened |-> 0]

FreshRisk == [counted |-> {}, booked |-> [t \in Trades |-> <<>>]]

IsOpen(r) == r.status \in {"OPEN", "SUSPENDED"}

On(s)       == {t \in Trades : SymbolOf[t] = s}
Held        == {t \in Trades : IsOpen(pos[t])}
Known       == {t \in Trades : pos[t].status # "none"}
Working     == {t \in Trades : order[t] = "WORKING"}
OpenRows    == {t \in Trades : IsOpen(posRow[t])}
WorkingRows == {t \in Trades : orderRow[t] = "WORKING"}

\* _EXPOSURE_SQL
Exposure == Cardinality(OpenRows) + Cardinality(WorkingRows)

\* How far its trade has come when the broker appends an event.
Stage(e) ==
  CASE e.kind \in {"ENTRY_FILL", "EXPIRED", "CANCELLED"} -> 0
    [] e.kind = "POSITION_OPENED" -> 1
    [] e.kind = "FUNDING"         -> 1 + e.at
    [] e.kind = "EXIT_FILL"       -> MaxNow + 2
    [] e.kind = "POSITION_CLOSED" -> MaxNow + 3

\* What one pass over the orders or positions appends: one trade after
\* another in the dict's order, the events of each as they happen.
InTurn(events) ==
  {es \in SetToSeqs(events) : \A i, j \in DOMAIN es :
     i < j /\ es[i].trade = es[j].trade =>
       /\ Stage(es[i]) < Stage(es[j])
       /\ \A k \in i..j : es[k].trade = es[i].trade}

Loop(at, t) == [at |-> at, trade |-> t]
Bars == Loop("bars", None)
At(place) == mode = "up" /\ loop.at = place

Init ==
  /\ now = 0
  /\ order = [t \in Trades |-> "none"]
  /\ pos = [t \in Trades |-> NoPosition]
  /\ rate = {}
  /\ mode = "down"
  /\ queue = <<>> /\ batch = <<>> /\ loop = Bars
  /\ risk = FreshRisk /\ saved = FreshRisk
  /\ seen = {}
  /\ orderRow = [t \in Trades |-> "none"]
  /\ posRow = [t \in Trades |-> NoRow]
  /\ entryFill = {}
  /\ exitFill = [t \in Trades |-> None]
  /\ fundRow = {}
  /\ tightened = {} /\ cut = {} /\ restarts = 0 /\ raises = 0

-----------------------------------------------------------------------------
(* The broker *)

\* Fault variant: the half-open interval taken closed at its start.
SettlementsClosedStart(t) == (pos[t].through..now) \ pos[t].fund

\* Settlements a position has crossed since it was last checked.
Settlements(t) == ((pos[t].through + 1)..now) \ pos[t].fund

Settled(t) == [pos[t] EXCEPT !.fund = @ \cup Settlements(t), !.through = now]

Charges(t) == {[Ev("FUNDING", t) EXCEPT !.at = b] : b \in Settlements(t)}

CloseAt(p, x) == [p EXCEPT !.status = "CLOSED", !.exit = x]

\* The exit order is created just before its fill and holds nothing of its own.
CloseEvents(t, x) ==
  {[Ev("EXIT_FILL", t) EXCEPT !.exit = x], [Ev("POSITION_CLOSED", t) EXCEPT !.exit = x]}

\* A working entry fills and opens its position, or is killed.
EntryEvents(t, fate) ==
  IF fate = "FILLED" THEN {Ev("ENTRY_FILL", t), Ev("POSITION_OPENED", t)} ELSE {Ev(fate, t)}

NewPosition == [NoPosition EXCEPT !.status = "OPEN", !.opened = now, !.through = now]

(***************************************************************************)
(* One tick, wholly inside the socket callback.  Funding is settled first  *)
(* if a rate is known; then every working entry of the symbol fills or is  *)
(* killed (expired, ran away, no room in the budget); then every armed     *)
(* position holds, moves its stop or closes.  A position this tick opened  *)
(* is not armed yet, a suspended one does not trigger.                     *)
(***************************************************************************)
Tick(s) ==
  \E carried \in BOOLEAN,
     fate \in [Working \cap On(s) -> {"FILLED", "EXPIRED", "CANCELLED"}],
     move \in [{t \in On(s) : pos[t].status = "OPEN"} -> {"hold", "tighten"} \cup Exits] :
    LET known  == carried \/ s \in rate
        owing  == IF known THEN Held \cap On(s) ELSE {}
        filled == {t \in DOMAIN fate : fate[t] = "FILLED"}
        closed == {t \in DOMAIN move : move[t] \in Exits}
        moved  == {t \in DOMAIN move : move[t] = "tighten"}
        settled(t) == IF t \in owing THEN Settled(t) ELSE pos[t]
    IN /\ mode = "up"
       /\ rate' = IF carried THEN rate \cup {s} ELSE rate
       /\ order' = [t \in Trades |-> IF t \in DOMAIN fate THEN fate[t] ELSE order[t]]
       /\ pos' = [t \in Trades |->
                    IF t \in filled THEN NewPosition
                    ELSE IF t \in closed THEN CloseAt(settled(t), move[t])
                    ELSE IF t \in moved THEN [settled(t) EXCEPT !.stop = 1]
                    ELSE settled(t)]
       /\ \E charges \in InTurn(UNION {Charges(t) : t \in owing}),
             entries \in InTurn(UNION {EntryEvents(t, fate[t]) : t \in DOMAIN fate}),
             exits   \in InTurn(UNION {CloseEvents(t, move[t]) : t \in closed}) :
            queue' = queue \o charges \o entries \o exits
       /\ tightened' = tightened \cup moved
       /\ UNCHANGED <<now, mode, batch, loop, risk, database, cut, restarts, raises>>

\* Market time crosses a settlement.
Settlement ==
  /\ now < MaxNow
  /\ now' = now + 1
  /\ UNCHANGED <<broker, mode, queue, batch, loop, risk, database, history>>

-----------------------------------------------------------------------------
(* The bar loop: evaluate, place, sweep, suspend *)

(***************************************************************************)
(* The engine approves on the broker's positions, the signal is recorded   *)
(* and the gate counts and inserts in one transaction.  A refused entry    *)
(* leaves its signal row behind.                                           *)
(***************************************************************************)
CanReserve == Exposure < MaxOpen

Reserve(t) ==
  /\ At("bars") /\ t \notin seen
  /\ Held \cap On(SymbolOf[t]) = {} /\ Cardinality(Held) < MaxOpen
  /\ seen' = seen \cup {t}
  /\ \/ /\ CanReserve
        /\ orderRow' = [orderRow EXCEPT ![t] = "WORKING"]
        /\ loop' = Loop("submit", t)
     \/ ~CanReserve /\ UNCHANGED <<orderRow, loop>>
  /\ UNCHANGED <<now, broker, mode, queue, batch, risk, posRow, entryFill,
                 exitFill, fundRow, saved, history>>

\* submit_order; a position may have opened on the symbol since the approval.
Submit ==
  /\ At("submit")
  /\ IF Held \cap On(SymbolOf[loop.trade]) = {}
       THEN order' = [order EXCEPT ![loop.trade] = "WORKING"] /\ loop' = Bars
       ELSE loop' = Loop("release", loop.trade) /\ UNCHANGED order
  /\ UNCHANGED <<now, pos, rate, mode, queue, batch, risk, database, history>>

\* The broker declined: the slot goes back.
Release ==
  /\ At("release")
  /\ orderRow' = [orderRow EXCEPT ![loop.trade] = "CANCELLED"]
  /\ loop' = Bars
  /\ UNCHANGED <<now, broker, mode, queue, batch, risk, seen, posRow, entryFill,
                 exitFill, fundRow, saved, history>>

\* expire_stale_entries, on market time.
Expire(t) ==
  /\ At("bars") /\ t \in Working
  /\ order' = [order EXCEPT ![t] = "EXPIRED"]
  /\ queue' = Append(queue, Ev("EXPIRED", t))
  /\ UNCHANGED <<now, pos, rate, mode, batch, loop, risk, database, history>>

\* close_if_setup_invalidated, on a closed primary bar.
SetupInvalidated(t, x) ==
  /\ At("bars") /\ pos[t].status = "OPEN"
  /\ pos' = [pos EXCEPT ![t] = CloseAt(@, x)]
  /\ \E es \in InTurn(CloseEvents(t, x)) : queue' = queue \o es
  /\ UNCHANGED <<now, order, rate, mode, batch, loop, risk, database, history>>

\* The halt detector suspends and resumes the positions of a symbol.
SwapStatus(s, from, to) ==
  /\ At("bars")
  /\ \E t \in On(s) : pos[t].status = from
  /\ pos' = [t \in Trades |-> IF t \in On(s) /\ pos[t].status = from
                              THEN [pos[t] EXCEPT !.status = to] ELSE pos[t]]
  /\ UNCHANGED <<now, order, rate, mode, queue, batch, loop, risk, database, history>>

Suspend(s) == SwapStatus(s, "OPEN", "SUSPENDED")
Resume(s)  == SwapStatus(s, "SUSPENDED", "OPEN")

-----------------------------------------------------------------------------
(* The bar loop: drain_broker_events *)

TakeEvents ==
  /\ At("bars") /\ queue # <<>>
  /\ batch' = queue /\ queue' = <<>>
  /\ loop' = Loop("drain", None)
  /\ UNCHANGED <<now, broker, mode, risk, database, history>>

\* The head of the batch is done with; the loop goes on with the rest.
Done ==
  /\ batch' = Tail(batch)
  /\ loop' = IF Len(batch) = 1 THEN Bars ELSE Loop("drain", None)

Handling(kind, t) == At("drain") /\ Head(batch).kind = kind /\ Head(batch).trade = t

(***************************************************************************)
(* record_fill: once per deterministic uid, with the order advanced in the *)
(* same transaction.  A fill whose position the broker does not know goes  *)
(* to quarantine instead.                                                  *)
(***************************************************************************)
PersistEntryFill(t) ==
  /\ Handling("ENTRY_FILL", t) /\ Done
  /\ IF t \in Known
       THEN /\ entryFill' = entryFill \cup {t}
            /\ orderRow' = [orderRow EXCEPT ![t] = "FILLED"]
       ELSE UNCHANGED <<entryFill, orderRow>>
  /\ UNCHANGED <<now, broker, mode, queue, risk, seen, posRow, exitFill, fundRow, saved, history>>

PersistExitFill(t) ==
  /\ Handling("EXIT_FILL", t) /\ Done
  /\ exitFill' = IF t \in Known /\ exitFill[t] = None
                   THEN [exitFill EXCEPT ![t] = Head(batch).exit] ELSE exitFill
  /\ UNCHANGED <<now, broker, mode, queue, risk, seen, orderRow, posRow, entryFill,
                 fundRow, saved, history>>

\* The columns open_position inserts: a result is only ever updated in.
InsertOf(p) == [NoRow EXCEPT !.status = p.status, !.stop = p.stop, !.opened = p.opened]

\* Fault variants: update_position without the exit, without the status.
UpdatedNoExit(r, p) == [r EXCEPT !.status = p.status, !.fund = p.fund]
UpdatedNoStatus(r, p) == [r EXCEPT !.exit = p.exit, !.fund = p.fund]

\* The columns update_position writes; the stop is not among them.
Updated(r, p) == [r EXCEPT !.status = p.status, !.exit = p.exit, !.fund = p.fund]

\* The unique indexes of positions: one row per signal, one open per symbol.
RowRefused(t) ==
  \/ posRow[t].status # "none"
  \/ IsOpen(pos[t]) /\ OpenRows \cap On(SymbolOf[t]) # {}

(***************************************************************************)
(* _persist_open writes the position as it is by now.  A row the database  *)
(* refuses takes the broker's position with it.                            *)
(***************************************************************************)
PersistOpen(t) ==
  /\ Handling("POSITION_OPENED", t) /\ t \in Known /\ ~RowRefused(t)
  /\ posRow' = [posRow EXCEPT ![t] = InsertOf(pos[t])]
  /\ risk' = [risk EXCEPT !.counted = @ \cup {t}]
  /\ loop' = Loop("save", t)
  /\ UNCHANGED <<now, broker, mode, queue, batch, seen, orderRow, entryFill,
                 exitFill, fundRow, saved, history>>

OpenRefused(t) ==
  /\ Handling("POSITION_OPENED", t) /\ (t \in Known => RowRefused(t)) /\ Done
  /\ pos' = [pos EXCEPT ![t] = NoPosition]
  /\ UNCHANGED <<now, order, rate, mode, queue, risk, database, history>>

(***************************************************************************)
(* _persist_close updates the row, books the result in memory and sets the *)
(* broker's equity to it; the risk state is saved in a second write.  A    *)
(* position whose row was refused was open and is gone: it never closes.   *)
(***************************************************************************)
PersistClose(t) ==
  /\ Handling("POSITION_CLOSED", t) /\ t \in Known
  /\ posRow' = IF posRow[t].status = "none" THEN posRow
               ELSE [posRow EXCEPT ![t] = Updated(@, pos[t])]
  /\ risk' = [risk EXCEPT !.booked[t] = Append(@, pos[t].exit)]
  /\ loop' = Loop("save", t)
  /\ UNCHANGED <<now, broker, mode, queue, batch, seen, orderRow, entryFill,
                 exitFill, fundRow, saved, history>>

SaveState ==
  /\ At("save") /\ Done
  /\ saved' = risk
  /\ UNCHANGED <<now, broker, mode, queue, risk, seen, orderRow, posRow, entryFill,
                 exitFill, fundRow, history>>

\* record_funding: once per position and settlement.
PersistFunding(t) ==
  /\ Handling("FUNDING", t) /\ Done
  /\ fundRow' = fundRow \cup {<<t, Head(batch).at>>}
  /\ UNCHANGED <<now, broker, mode, queue, risk, seen, orderRow, posRow, entryFill,
                 exitFill, saved, history>>

\* update_order_status of an entry the broker killed.
PersistKill(t) ==
  /\ \E kind \in {"EXPIRED", "CANCELLED"} :
       Handling(kind, t) /\ orderRow' = [orderRow EXCEPT ![t] = kind]
  /\ Done
  /\ UNCHANGED <<now, broker, mode, queue, risk, seen, posRow, entryFill,
                 exitFill, fundRow, saved, history>>

\* What is left of the batch: during a save its head has been dealt with.
Rest == IF loop.at = "save" THEN Tail(batch) ELSE batch

(***************************************************************************)
(* A database call raises.  The loop logs it and goes on with its next     *)
(* pass; the rest of the batch is a local that is gone.                    *)
(***************************************************************************)
Raise ==
  /\ raises < MaxRaises
  /\ mode = "up" /\ loop.at \in {"release", "drain", "save"}
  /\ raises' = raises + 1 /\ cut' = cut \cup {e.trade : e \in Range(Rest)}
  /\ batch' = <<>> /\ loop' = Bars
  /\ UNCHANGED <<now, broker, mode, queue, risk, database, tightened, restarts>>

-----------------------------------------------------------------------------
(* Restarts *)

\* What a process that is gone takes with it.
MemoryGone ==
  /\ mode = "up" /\ restarts < MaxRestarts
  /\ mode' = "down" /\ restarts' = restarts + 1
  /\ cut' = {t \in cut : posRow[t].status = "CLOSED"}
  /\ order' = [t \in Trades |-> "none"]
  /\ pos' = [t \in Trades |-> NoPosition]
  /\ rate' = {} /\ queue' = <<>> /\ batch' = <<>> /\ loop' = Bars
  /\ risk' = FreshRisk
  /\ UNCHANGED <<now, seen, orderRow, posRow, entryFill, exitFill, fundRow,
                 tightened, raises>>

Crash == MemoryGone /\ UNCHANGED saved

\* stop(): the tasks are cancelled where they stand, then the state is saved.
Stop == MemoryGone /\ saved' = risk

SettlementsOf(t) == {b \in 1..MaxNow : <<t, b>> \in fundRow}

\* Fault variant: the watermark comes from the ledger, the total from the row.
RecoveredRowTotal(t) ==
  LET charged == SettlementsOf(t)
      last == IF charged = {} THEN posRow[t].opened ELSE Max(charged)
  IN [status |-> posRow[t].status, exit |-> posRow[t].exit, stop |-> posRow[t].stop,
      fund |-> posRow[t].fund, opened |-> posRow[t].opened, through |-> last]

Recovered(t) ==
  LET charged == SettlementsOf(t)
      last == IF charged = {} THEN posRow[t].opened ELSE Max(charged)
  IN [status |-> posRow[t].status, exit |-> posRow[t].exit, stop |-> posRow[t].stop,
      fund |-> IF charged = {} THEN posRow[t].fund ELSE charged,
      opened |-> posRow[t].opened, through |-> last]

Recover ==
  /\ mode = "down" /\ mode' = "up"
  /\ risk' = saved
  /\ pos' = [t \in Trades |-> IF t \in OpenRows THEN Recovered(t) ELSE NoPosition]
  /\ UNCHANGED <<now, order, rate, queue, batch, loop, database, history>>

-----------------------------------------------------------------------------

BarWork ==
  \/ Submit \/ Release \/ TakeEvents \/ SaveState \/ Raise
  \/ \E t \in Trades :
       \/ Reserve(t) \/ Expire(t)
       \/ PersistEntryFill(t) \/ PersistExitFill(t)
       \/ PersistOpen(t) \/ OpenRefused(t) \/ PersistClose(t)
       \/ PersistFunding(t) \/ PersistKill(t)
       \/ \E x \in Exits : SetupInvalidated(t, x)
  \/ \E s \in Symbols : Suspend(s) \/ Resume(s)

Next ==
  \/ BarWork \/ Settlement \/ Crash \/ Stop \/ Recover
  \/ \E s \in Symbols : Tick(s)

Spec == Init /\ [][Next]_vars

-----------------------------------------------------------------------------
(* Properties *)

TypeOK ==
  /\ now \in 0..MaxNow
  /\ order \in [Trades -> {"none", "WORKING", "FILLED", "EXPIRED", "CANCELLED"}]
  /\ pos \in [Trades -> Position]
  /\ rate \subseteq Symbols
  /\ mode \in {"down", "up"}
  /\ queue \in Seq(Event) /\ batch \in Seq(Event)
  /\ loop \in [at : {"bars", "submit", "release", "drain", "save"}, trade : Trades \cup {None}]
  /\ orderRow \in [Trades -> {"none", "WORKING", "FILLED", "EXPIRED", "CANCELLED"}]
  /\ posRow \in [Trades -> Row]
  /\ exitFill \in [Trades -> Exits \cup {None}]
  /\ entryFill \cup seen \cup tightened \cup cut \cup risk.counted \cup saved.counted \subseteq Trades
  /\ fundRow \subseteq Trades \X (1..MaxNow)

\* The bar loop has written everything the broker has done.
Drained == At("bars") /\ queue = <<>>

(***************************************************************************)
(* Once the events are drained the rows say what the broker holds, however *)
(* ticks and drains interleaved and whatever a restart cut.  The only      *)
(* excuse is an event of this very trade that an exception threw away, and *)
(* a restart takes it back unless the row is closed.                       *)
(***************************************************************************)
LedgerFollowsBroker ==
  Drained => \A t \in Trades \ cut :
    /\ t \in OpenRows <=> t \in Held
    /\ t \in Known => pos[t].exit = posRow[t].exit
    /\ order[t] # "none" => orderRow[t] = order[t]

(***************************************************************************)
(* A result is booked into the risk state at most once, through restarts   *)
(* and exceptions alike, and a row still open is not booked: recovery will *)
(* trade it on.                                                            *)
(***************************************************************************)
BookedOnce ==
  \A r \in {risk, saved} : \A t \in Trades :
    /\ Len(r.booked[t]) <= 1
    /\ t \in OpenRows => r.booked[t] = <<>>

(***************************************************************************)
(* The funding a closed row has paid is the funding in the ledger, also    *)
(* when a restart fell between the charge and its row, unless an exception *)
(* threw an event of the trade away.                                       *)
(***************************************************************************)
FundingFollowsLedger ==
  \A t \in Trades \ cut :
    posRow[t].status = "CLOSED" /\ posRow[t].exit # None => posRow[t].fund = SettlementsOf(t)

(***************************************************************************)
(* "Monotone in the position's favour": a stop that was tightened stays    *)
(* tightened while the position is open.                                   *)
(***************************************************************************)
StopStaysTight == \A t \in tightened : IsOpen(pos[t]) => pos[t].stop = 1

=============================================================================

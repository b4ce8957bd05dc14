----------------------------- MODULE RiskEngine -----------------------------
(***************************************************************************)
(* The risk state and its gates (app/risk/engine.py) inside the bot that   *)
(* uses them (app/runtime/bot.py).  An evaluation reads the state in       *)
(* memory and the broker's open positions; what the broker does on ticks   *)
(* reaches the state only when the bar loop books the event, and the       *)
(* state reaches the database only with an open, a close or stop().  An    *)
(* entry is named by its symbol and the close of the bar it was decided    *)
(* on.  A fill and the opening of its position are booked together here;   *)
(* PaperExecution takes them apart.  The operator's resume command is a    *)
(* process of its own: it reads the saved state, and writes it back whole  *)
(* in a later transaction.                                                 *)
(***************************************************************************)
EXTENDS Integers, FiniteSets, SequencesExt

CONSTANTS
  Symbols,         \* the trade universe
  Results,         \* what a position may make or lose
  StartEquity,     \* starting_equity
  MaxLoss,         \* the most one position loses
  DayLength,       \* bars in a UTC day
  MaxOpen,         \* max_open_positions
  MaxTrades,       \* max_trades_per_day
  MaxStreak,       \* max_consecutive_losses, 0 for no limit
  DailyNum, DailyDen,  \* max_daily_loss_pct, a fraction of the day's first equity
  DrawNum, DrawDen,    \* max_drawdown_pct, a fraction of the peak
  AfterTrade,      \* cooldown_after_trade_seconds, in bars
  AfterLoss,       \* cooldown_after_loss_seconds, in bars
  PauseSymbol,     \* pause_symbol_after_loss_seconds, in bars
  MaxClock,        \* bound: bars that close
  MaxPlaced,       \* bound: entries placed
  MaxLag,          \* bound: how many bars late an evaluation may be
  MaxRestarts,     \* bound: restarts
  MaxResumes       \* bound: resumes by the operator

ASSUME ResultsAssumption == Results \subseteq Int /\ \A p \in Results : p >= -MaxLoss
ASSUME LimitsAssumption ==
  /\ {StartEquity, MaxLoss, DayLength, MaxOpen, MaxTrades,
      DailyNum, DailyDen, DrawNum, DrawDen} \subseteq Nat \ {0}
  /\ DailyNum < DailyDen /\ DrawNum < DrawDen
ASSUME WaitsAssumption == {MaxStreak, AfterTrade, AfterLoss, PauseSymbol} \subseteq Nat
ASSUME BoundsAssumption ==
  MaxClock \in Nat \ {0} /\ {MaxPlaced, MaxLag, MaxRestarts, MaxResumes} \subseteq Nat

VARIABLES
  clock,      \* bars closed, the market's time
  \* the process
  mode,       \* "down" or "up"
  mem,        \* TradingBot.state
  working,    \* entry orders the broker works
  held,       \* open positions of the broker
  queue,      \* _pending_events
  \* the database
  saved,      \* strategy_state
  seen,       \* the last bar of a symbol whose signal was acted on
  reserved,   \* entry orders that hold a slot
  opened,     \* positions with a row
  shut,       \* those whose row was written closed, the position being gone by then
  closes,     \* the results of the closed rows
  \* the operator
  cli,        \* what a resume command has read and not written back: the state,
              \* and the rows closed by then
  \* history
  latched,    \* whether the drawdown halt has latched since the last resume:
              \* "no", "flat" with every row closed, "early" with a close to book
  placed,     \* entries placed
  torn,       \* processes that died between a row and the state
  unsaved,    \* closed rows whose result such a death, or a resume that wrote
              \* back an older state, kept from the saved state
  restarts, resumes

process == <<mode, mem, working, held, queue>>
database == <<saved, seen, reserved, opened, shut, closes>>
world == <<clock, cli>>
history == <<latched, placed, torn, unsaved, restarts, resumes>>
vars == <<world, process, database, history>>

-----------------------------------------------------------------------------

Times   == 1..MaxClock
Entries == Symbols \X Times

DayOf(t) == 1 + t \div DayLength

Risk == [eq : Int, peak : Int, day : Nat, dayStart : Int, daily : Int,
         trades : Nat, streak : Nat, lastTrade : 0..MaxClock, lastLoss : 0..MaxClock,
         lossAt : [Symbols -> 0..MaxClock], halted : BOOLEAN]

\* RiskState.fresh
Fresh == [eq |-> StartEquity, peak |-> StartEquity, day |-> 0, dayStart |-> StartEquity,
          daily |-> 0, trades |-> 0, streak |-> 0, lastTrade |-> 0, lastLoss |-> 0,
          lossAt |-> [s \in Symbols |-> 0], halted |-> FALSE]

Event == [kind : {"opened", "killed", "closed"}, entry : Entries,
          pnl : Results \cup {0}, at : 0..MaxClock]

Ev(kind, e) == [kind |-> kind, entry |-> e, pnl |-> 0, at |-> 0]
Closed(e, p, at) == [kind |-> "closed", entry |-> e, pnl |-> p, at |-> at]

Row == [entry : Entries, pnl : Results \cup {0}, at : 0..MaxClock]

On(S, s) == {e \in S : e[1] = s}
OpenRows == opened \ (shut \cup {c.entry : c \in closes})

\* _EXPOSURE_SQL
Exposure == Cardinality(reserved) + Cardinality(OpenRows)

-----------------------------------------------------------------------------
(* RiskState *)

\* roll_day: the day differs, whichever way.
Rolled(r, t) ==
  IF r.day = DayOf(t) THEN r
  ELSE [r EXCEPT !.day = DayOf(t), !.dayStart = r.eq, !.daily = 0, !.trades = 0,
                 !.streak = 0]

\* Fault variants: a loss leaves no time behind; a win takes one off the streak.
AppliedNoLossTime(r, s, p, at) ==
  LET eq == r.eq + p
  IN [r EXCEPT !.eq = eq, !.daily = @ + p, !.peak = IF eq > @ THEN eq ELSE @,
               !.lastTrade = at, !.streak = IF p < 0 THEN @ + 1 ELSE 0]

AppliedStreakDown(r, s, p, at) ==
  LET eq == r.eq + p
  IN [r EXCEPT !.eq = eq, !.daily = @ + p, !.peak = IF eq > @ THEN eq ELSE @,
               !.lastTrade = at, !.streak = IF p < 0 THEN @ + 1 ELSE @ - 1,
               !.lastLoss = IF p < 0 THEN at ELSE @,
               !.lossAt[s] = IF p < 0 THEN at ELSE @]

\* apply_close
Applied(r, s, p, at) ==
  LET eq == r.eq + p
  IN [r EXCEPT !.eq = eq, !.daily = @ + p, !.peak = IF eq > @ THEN eq ELSE @,
               !.lastTrade = at,
               !.streak = IF p < 0 THEN @ + 1 ELSE 0,
               !.lastLoss = IF p < 0 THEN at ELSE @,
               !.lossAt[s] = IF p < 0 THEN at ELSE @]

\* resume
Resumed(r) == [r EXCEPT !.halted = FALSE, !.peak = r.eq]

\* daily_loss_pct and drawdown_pct against their limits
DayBase(r)      == IF r.dayStart = 0 THEN r.eq ELSE r.dayStart
DailyLossHit(r) == DayBase(r) > 0 /\ DailyDen * (-r.daily) >= DailyNum * DayBase(r)
DrawdownHit(r)  == r.peak > 0 /\ DrawDen * (r.peak - r.eq) >= DrawNum * r.peak

-----------------------------------------------------------------------------
(* RiskEngine.evaluate *)

\* Fault variant: the latch is not looked at.
ReachesDrawdownHalted(r, s) ==
  On(held, s) = {} /\ Cardinality(held) < MaxOpen /\ ~DailyLossHit(r)

\* The gates an evaluation passes before it looks at the drawdown.
ReachesDrawdown(r, s) ==
  ~r.halted /\ On(held, s) = {} /\ Cardinality(held) < MaxOpen /\ ~DailyLossHit(r)

\* A time of 0 is "never".
Elapsed(t, last, wait) == last = 0 \/ t - last >= wait

\* Every gate that reads the risk state or the positions.
Allows(r, s, t) ==
  /\ ReachesDrawdown(r, s) /\ ~DrawdownHit(r)
  /\ r.trades < MaxTrades
  /\ MaxStreak > 0 => r.streak < MaxStreak
  /\ Elapsed(t, r.lastTrade, AfterTrade)
  /\ Elapsed(t, r.lastLoss, AfterLoss)
  /\ Elapsed(t, r.lossAt[s], PauseSymbol)

(***************************************************************************)
(* A detected setup on the bar that closed at t, perhaps some bars late:   *)
(* the day is rolled to the bar's day.  A bar put back after an exception  *)
(* is evaluated again; one whose entry was placed is not.                  *)
(***************************************************************************)
Considered(s, t) ==
  /\ mode = "up"
  /\ t > seen[s] /\ t \in (clock - MaxLag)..clock

\* Refused by a gate, or for its market, session, geometry or size.
Decline(s, t) ==
  /\ Considered(s, t)
  /\ mem' = Rolled(mem, t)
  /\ UNCHANGED <<world, mode, working, held, queue, database,
                 latched, placed, torn, unsaved, restarts, resumes>>

\* halt(): the drawdown limit met while flat.
Latch(s, t) ==
  LET r == Rolled(mem, t)
  IN /\ Considered(s, t)
     /\ ReachesDrawdown(r, s) /\ DrawdownHit(r) /\ held = {}
     /\ mem' = [r EXCEPT !.halted = TRUE]
     /\ latched' = IF OpenRows = {} THEN "flat" ELSE "early"
     /\ UNCHANGED <<world, mode, working, held, queue, database, placed, torn, unsaved,
                    restarts, resumes>>

\* Fault variant: the gate counts the broker's positions, not the rows.
CanReserveHeld == Cardinality(held) < MaxOpen

CanReserve == Exposure < MaxOpen

\* Approved, of a size that is not nothing, a slot reserved, the order submitted.
Place(s, t) ==
  /\ Considered(s, t)
  /\ placed < MaxPlaced /\ placed' = placed + 1
  /\ Allows(Rolled(mem, t), s, t) /\ mem.eq > 0 /\ CanReserve
  /\ mem' = Rolled(mem, t)
  /\ seen' = [seen EXCEPT ![s] = t]
  /\ reserved' = reserved \cup {<<s, t>>}
  /\ working' = working \cup {<<s, t>>}
  /\ UNCHANGED <<world, mode, held, queue, saved, opened, shut, closes,
                 latched, torn, unsaved, restarts, resumes>>

-----------------------------------------------------------------------------
(* The market and the broker *)

Bar ==
  /\ clock < MaxClock
  /\ clock' = clock + 1
  /\ UNCHANGED <<cli, process, database, history>>

Fill(e) ==
  /\ e \in working
  /\ working' = working \ {e} /\ held' = held \cup {e}
  /\ queue' = Append(queue, Ev("opened", e))
  /\ UNCHANGED <<world, mode, mem, database, history>>

\* Expired, or cancelled because the price ran away.
Kill(e) ==
  /\ e \in working
  /\ working' = working \ {e}
  /\ queue' = Append(queue, Ev("killed", e))
  /\ UNCHANGED <<world, mode, mem, held, database, history>>

ClosedAs(e, p, at) ==
  /\ e \in held
  /\ held' = held \ {e}
  /\ queue' = Append(queue, Closed(e, p, at))
  /\ UNCHANGED <<world, mode, mem, working, database, history>>

\* By its stop, its target or its age, at the time of the tick.
Close(e, p) == ClosedAs(e, p, clock)

\* By an evaluation of its symbol, whatever comes of it: the setup no longer
\* holds.  The time is the close of the evaluated bar, which may be late.
Invalidate(e, p, t) == t \in (clock - MaxLag)..clock /\ ClosedAs(e, p, t)

-----------------------------------------------------------------------------
(* The bar loop books what the broker did *)

Booking(kind, e) == queue # <<>> /\ Head(queue).kind = kind /\ Head(queue).entry = e
Next1 == queue' = Tail(queue)

BookKill(e) ==
  /\ Booking("killed", e) /\ Next1
  /\ reserved' = reserved \ {e}
  /\ UNCHANGED <<world, mode, mem, working, held, saved, seen, opened, shut, closes, history>>

Counted(r) == [r EXCEPT !.trades = @ + 1]

\* The row is written as the position is by now, and an open one is refused
\* beside another open row of its symbol.
RowWritten(e) == Booking("opened", e) /\ (e \in held => On(OpenRows, e[1]) = {})
ShutBy(e) == IF e \in held THEN shut ELSE shut \cup {e}

BookOpen(e) ==
  /\ RowWritten(e) /\ Next1
  /\ reserved' = reserved \ {e} /\ opened' = opened \cup {e} /\ shut' = ShutBy(e)
  /\ mem' = Counted(mem) /\ saved' = Counted(mem)
  /\ UNCHANGED <<world, mode, working, held, seen, closes, history>>

\* One open row per symbol: the broker forgets the second position.
BookRefused(e) ==
  /\ Booking("opened", e) /\ Next1
  /\ e \in held /\ On(OpenRows, e[1]) # {}
  /\ reserved' = reserved \ {e} /\ held' = held \ {e}
  /\ UNCHANGED <<world, mode, mem, working, saved, seen, opened, shut, closes, history>>

ClosedRow == [entry |-> Head(queue).entry, pnl |-> Head(queue).pnl, at |-> Head(queue).at]
AfterClose(r) == Applied(r, Head(queue).entry[1], Head(queue).pnl, Head(queue).at)

BookClose(e) ==
  /\ Booking("closed", e) /\ Next1
  /\ closes' = closes \cup {ClosedRow}
  /\ mem' = AfterClose(mem) /\ saved' = AfterClose(mem)
  /\ UNCHANGED <<world, mode, working, held, seen, reserved, opened, shut, history>>

-----------------------------------------------------------------------------
(* Restarts and the operator *)

MemoryGone ==
  /\ mode = "up" /\ restarts < MaxRestarts
  /\ mode' = "down" /\ restarts' = restarts + 1
  /\ mem' = Fresh /\ working' = {} /\ held' = {} /\ queue' = <<>>
  /\ UNCHANGED <<world, seen, latched, placed, resumes>>

Crash == MemoryGone /\ UNCHANGED <<saved, reserved, opened, shut, closes, torn, unsaved>>

\* stop() saves the state.
Stop ==
  MemoryGone /\ saved' = mem /\ UNCHANGED <<reserved, opened, shut, closes, torn, unsaved>>

\* The row of an open or of a close is written and the state is not.
CrashInOpen(e) ==
  /\ RowWritten(e)
  /\ MemoryGone /\ torn' = torn + 1
  /\ reserved' = reserved \ {e} /\ opened' = opened \cup {e} /\ shut' = ShutBy(e)
  /\ UNCHANGED <<saved, closes, unsaved>>

CrashInClose(e) ==
  /\ Booking("closed", e)
  /\ MemoryGone /\ torn' = torn + 1
  /\ closes' = closes \cup {ClosedRow} /\ unsaved' = unsaved \cup {ClosedRow}
  /\ UNCHANGED <<saved, reserved, opened, shut>>

Recover ==
  /\ mode = "down" /\ mode' = "up"
  /\ mem' = saved /\ held' = OpenRows
  /\ UNCHANGED <<world, working, queue, database, history>>

\* The resume command works on the saved state, whether or not the bot runs.
\* It reads a state that is halted; one command runs at a time.
CliRead ==
  /\ saved.halted /\ cli = {} /\ resumes < MaxResumes
  /\ cli' = {[state |-> saved, rows |-> closes]}
  /\ resumes' = resumes + 1
  /\ UNCHANGED <<clock, process, database, latched, placed, torn, unsaved, restarts>>

\* It writes back the state it read, over whatever the bot has saved meanwhile.
CliWrite ==
  \E read \in cli :
    /\ saved' = Resumed(read.state)
    /\ cli' = {} /\ latched' = "no"
    /\ unsaved' = unsaved \cup (closes \ read.rows)
    /\ UNCHANGED <<clock, process, seen, reserved, opened, shut, closes,
                   placed, torn, restarts, resumes>>

-----------------------------------------------------------------------------

Init ==
  /\ clock = 1 /\ mode = "up"
  /\ mem = Fresh /\ saved = Fresh
  /\ working = {} /\ held = {} /\ queue = <<>>
  /\ seen = [s \in Symbols |-> 0]
  /\ reserved = {} /\ opened = {} /\ shut = {} /\ closes = {}
  /\ cli = {}
  /\ latched = "no" /\ placed = 0 /\ torn = 0 /\ unsaved = {}
  /\ restarts = 0 /\ resumes = 0

Next ==
  \/ Bar \/ Crash \/ Stop \/ Recover \/ CliRead \/ CliWrite
  \/ \E s \in Symbols, t \in Times : Decline(s, t) \/ Latch(s, t) \/ Place(s, t)
  \/ \E e \in Entries :
       \/ Fill(e) \/ Kill(e)
       \/ \E p \in Results : Close(e, p) \/ \E t \in Times : Invalidate(e, p, t)
       \/ BookKill(e) \/ BookOpen(e) \/ BookRefused(e) \/ BookClose(e)
       \/ CrashInOpen(e) \/ CrashInClose(e)

Spec == Init /\ [][Next]_vars

-----------------------------------------------------------------------------
(* Properties *)

TypeOK ==
  /\ clock \in Times /\ mode \in {"down", "up"}
  /\ mem \in Risk /\ saved \in Risk
  /\ working \subseteq Entries /\ held \subseteq Entries /\ queue \in Seq(Event)
  /\ seen \in [Symbols -> 0..MaxClock]
  /\ reserved \subseteq Entries /\ opened \subseteq Entries /\ shut \subseteq Entries
  /\ closes \subseteq Row /\ unsaved \subseteq Row
  /\ cli \subseteq [state : Risk, rows : SUBSET Row]
  /\ latched \in {"no", "flat", "early"}
  /\ placed \in 0..MaxPlaced /\ torn \in Nat /\ restarts \in 0..MaxRestarts /\ resumes \in 0..MaxResumes

\* The gate counts rows, which lag the broker; still the broker never has
\* more entries and positions than max_open_positions, through restarts.
NeverOverexposed == Cardinality(working \cup held) <= MaxOpen

\* The drawdown limit bounds the fall: gates that read a state behind the
\* broker let through at most one loss per slot, because a slot is not free
\* in the database before its result is booked.
\* (A position that closed before its row was written gives its slot back
\* before its result is booked.)
Overrun(r) == DrawDen * (r.peak - r.eq) - DrawNum * r.peak
DrawdownBounded == shut = {} /\ mem.peak > 0 => Overrun(mem) < DrawDen * MaxLoss * MaxOpen

\* The same for the day's loss, measured from the equity the day began with.
\* (A process that died between the row of an open and the state comes back
\* with the counters of an earlier day.)
DailyBounded ==
  torn = 0 /\ shut = {} /\ mem.dayStart > 0 =>
    DailyDen * (-mem.daily) - DailyNum * mem.dayStart < DailyDen * MaxLoss * MaxOpen

\* Between the latch and the operator's resume the process places no entry;
\* when every row was closed at the latch, neither does one that starts later
\* without the latch, unless it died between the row of an open and the state.
Terminal  == latched # "no" /\ (restarts = 0 \/ (latched = "flat" /\ torn = 0))
HaltHolds == [][Terminal => working' \subseteq working]_vars

Losing == {c \in closes : c.pnl < 0}

\* A losing row keeps new entries out for its cooldown, across restarts, less
\* what a bar can be late: the last loss booked may be stamped with the close
\* of a late bar, but by no more than that does it undo a newer one.  (A result
\* that a death or a resume kept from the saved state keeps no entry out.)
CooldownHolds ==
  [][\A e \in working' \ working : \A c \in Losing \ unsaved :
       e[2] - c.at >= AfterLoss - MaxLag]_vars

\* The same without the allowance: cooldown_after_loss counts from the loss.
\* Not kept: the loss of a late invalidation, booked last, is the one that counts.
CooldownIsFull ==
  [][\A e \in working' \ working : \A c \in Losing \ unsaved : e[2] - c.at >= AfterLoss]_vars

\* The saved state is persisted with every close: it has the result of every
\* closed row, unless the process died between the two.  Not kept: a resume
\* writes back the state it has read.
SavedIsBooked ==
  torn = 0 => saved.eq = StartEquity + MapThenSumSet(LAMBDA c : c.pnl, closes)

\* The halt is terminal (halt's docstring): only the operator ends it.
HaltIsTerminal == [][latched # "no" => working' \subseteq working]_vars
=============================================================================

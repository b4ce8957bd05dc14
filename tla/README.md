# Formal models of deltabt

TLA+ models of the trading system in this repository, the TLC runs that check
them on small instances, and TLAPS proofs that hold for every instance. Every
definition is translated from the Python source; `PROJECT.json` maps each one to
its lines. Paths below are relative to the repository root.

    tlc -workers 2 -config LiveExecution_safety.cfg MCLiveExecution
    tlc -workers 2 -config RiskEngine_safety.cfg MCRiskEngine
    tlapm RiskEngine_proofs.tla

Each `<Module>_<question>.cfg` goes with `MC<Module>.tla`; each
`<Module>_proofs.tla` holds the theorems about `<Module>.tla`.

## 1. Inventory

The repository holds a research backtester (`deltabt/`), a paper-trading bot
(`app/`) and its live subclass (`live/`). The bot is one asyncio process with
three long-running tasks, a PostgreSQL database and an exchange (the *venue*).

| Component | State it keeps | Operations | Interacts with |
|---|---|---|---|
| Bar loop, `app/runtime/bot.py` `_process_bars`, `_process_explanation`, `_place` | bar queue, `ready`, per-symbol histories | evaluate a bar, ask risk, reserve a slot, send, record | candle builder (bars in), risk engine, repository, broker |
| Exposure gate and ledger, `app/persistence/repository.py` | rows: signal, order, position, fill | `record_signal`, `reserve_entry_slot`, `update_order_status`, `open_position`, `record_order_fill`, `update_position` | called by the bar loop and the poll loop, one transaction each |
| Order lifecycle, `app/execution/order_state.py` | - | statuses, terminal set, allowed moves | repository, bot |
| Live broker, `live/broker.py` | `positions` cache, `_pending`, `_entry_cid` | `submit_order`, `poll`, `close_position`, cancels | venue client, bar loop, poll loop |
| Live runtime, `live/runtime.py` | `_bracket_checks`, `_flattening`, `_unresolved_entries` | poll loop, `_persist_open`, `_persist_close`, bracket check, flatten, time stop, `recover` | broker, repository |
| Venue client, `live/client.py`, `live/auth.py` | one HTTP session | `place_order` with lookup of an ambiguous answer | venue |
| Reconciliation, `live/reconcile.py` | - | signed sizes, venue against ledger | runtime |
| Risk engine, `app/risk/engine.py` | `RiskState`: day counters, streak, peak, halt latches | `roll_day`, `evaluate`, `apply_close`, `halt`, `resume` | bar loop, repository |
| Paper broker, `app/execution/paper_broker.py` | positions, equity, event list, funding watermark | fills, stop and target, funding, `drain_broker_events` | tick path, bar loop |
| Shadow exits, `app/execution/shadow_exits.py` | open shadows, unwritten rows | follow a closed trade under other exits | tick path, repository |
| Candle builder, `app/market_data/candle_builder.py` | the forming candle, holes, history | ingest, clock roll, gap repair, REST reconciliation | web socket, REST, bar queue |
| Halt detector, `app/market_data/market_state.py` | state per symbol, reopen bars | classify a bar, skip the reopen | bar loop |
| Funding ledger, `app/portfolio/funding.py` | watermark, event ids | settle each boundary once | paper broker, repository |
| Instance lock, `app/persistence/lock.py` | one database session | acquire, hold, release | start-up |
| Live gainer fade, `live/fade_live.py` | rows of picks, status of the account | pass: reconcile, exit, enter; resume | venue, its own tables, the paper picks of `live/fade.py` |
| Learning, grading, reports, health, API, notifications | rows and counters | observe | everything, read-only |
| Recorders and archive, `deltabt/data/` | daily partitions, manifests, checkpoints, one lock per recorder | poll, append, describe, audit, rebuild, back up | venue, file system |
| Backtester, `deltabt/` | data frames | simulate | - |

**What is hard here.**

* *Interleaving.* The bar loop, the poll loop and the tick path interleave at
  every `await` of the database; the venue moves at any time.
* *Ambiguity.* An order whose answer is lost may have filled, may still fill, or
  never arrived (`live/client.py:336`).
* *Partial failure.* Recording an open is three transactions; a poll's events are
  handled one by one and an exception drops the rest.
* *Restart.* The ledger is durable, the broker's attribution is not; start-up has
  to decide from the venue what became of rows of an earlier process.
* *Guessing.* Which order closed a position is inferred from history.

**What makes each component right.** Live path: never more entries live than
slots; a slot outlives its order; a recorded close is a real close; an order's
status is final once terminal; an order is sent once. Protection: a position
without its stop, ill filled or too old is asked to close, once, and no other is. Paper path: the
ledger ends up with what the broker did, across a crash. Risk: losses are counted
once, halts do not un-latch, the limits overrun by a bounded amount. Bars: each
minute is evaluated once, in order, and never in a halt. Fade: one order per pick,
no position forgotten, nothing sold while halted, what is due is bought back.
Archive: what was recorded stays, and is described as what it is. Lock: two
instances never trade. The full list is `hazards` in `PROJECT.json`,
each at its line.

## 2. Plan

The most important behaviour first: the paths that move money, then what they
decide on. Everything down to 8 is built.

1. `OrderState`: the lifecycle table (constant module).
2. `LiveExecution`: entry path, poll, recovery, venue, with the abstract
   specification `ExposureGate`; `LiveExecution_proofs`,
   `LiveExecution_gate_proofs`.
3. `LiveProtection`: bracket check, flatten, time stop, close outcomes, restart;
   `LiveProtection_proofs`.
4. `PaperExecution`: paper broker, event drain, funding, restart;
   `PaperExecution_proofs`.
5. `BarFeed`: candle builder, gap repair, bar queue, halt detector, evaluation;
   `BarFeed_proofs`.
6. `RiskEngine`: counters, gates and latches across restarts; `RiskEngine_proofs`.
7. `FadeLive`: the real-money fade account; `FadeLive_proofs`.
8. `MarketArchive`: recorders, manifests, audit and backup;
   `MarketArchive_proofs`.
9. Not built: the lock with two processes; the send-and-lookup protocol of the client
   as a module that refines the outcomes `LiveExecution` and `FadeLive` assume; shadow
   exits.

The modules share no variables. Each takes its neighbours as an environment that
may do whatever the neighbour's module shows it can do: `RiskEngine` and
`LiveExecution` take the evaluation of a bar as a choice, `BarFeed` ends where an
evaluation is acted on, `LiveProtection` begins where an entry fills.

| Run | Expect | Module | States | Property and what it shows |
|---|---|---|---|---|
| `safety` | pass | `LiveExecution` | 697,000 | the ledger, the slots and the statuses under every fault, and the refinement of `ExposureGate` |
| `fills` | violation | `LiveExecution` | - | opened and closed between two polls: never recorded |
| `protect` | pass | `LiveProtection` | 349,000 | a close is asked for once, never of a healthy position; recorded positions stay watched |
| `protect_liveness` | pass | `LiveProtection` | 108,000 | what loses its stop is asked to close |
| `paper` | pass | `PaperExecution` | 1,366,000 | the ledger agrees with the broker, results and funding are booked once |
| `paper_stop` | violation | `PaperExecution` | - | a restart loosens a tightened stop |
| `bars` | pass | `BarFeed` | 489,000 | no bar lost, none decided twice on REST's history, no hole unnoted, halts kept, each bar handled |
| `bars_reopen` | violation | `BarFeed` | - | the reopen bar of a second halt is traded |
| `risk` | pass | `RiskEngine` | 1,346,000 | slots, drawdown, daily loss, halt and cooldown, through late bars, restarts and a resume |
| `risk_halt` | violation | `RiskEngine` | - | a latched halt is lifted by a crash and a win |
| `fade` | pass | `FadeLive` | 641,000 | no position forgotten, none sold while shut, due positions bought back |
| `archive` | pass | `MarketArchive` | 1,916,000 | no snapshot merged away, days described as recorded are, a backup reported OK is whole |

Every violation is a run of the code as it is; `PROJECT.json` quotes the sentence
it contradicts.

## 3. The live entry path

`LiveExecution` follows one entry (an *intent*) from the engine's approval to its
recorded close. `intent_id`, `signal_key` and `client_order_id` are derived from
each other in the code, so an intent stands for all three.

### State

| Variable | Code |
|---|---|
| `signals` | rows of `signals` (`record_signal` refuses a second one) |
| `order`, `linked` | `orders.status` and `orders.position_uid` of the entry order |
| `row`, `exit` | `positions.status`, and the venue order the close was recorded from |
| `fate`, `pos`, `latest` | the venue: what became of the order, the fills a symbol's position is built of, the newest filled order in its history |
| `mode`, `ready` | start-up steps of `TradingBot.start` and `recover`; `TradingBot.ready` |
| `bar` | where `_place` is between two awaits |
| `unresolved`, `entryCid`, `cache` | `_unresolved_entries`, `LiveBroker._entry_cid` with `_pending`, `LiveBroker.positions` |
| `events`, `poll` | what the last `poll()` returned and is not handled; where `_persist_open` or a reconcile is |

### Actions and atomicity

Venue calls are synchronous (`requests`), database calls are awaited. A stretch of
code between two awaits is one action, and each database transaction is one
action, so the loops interleave exactly where asyncio lets them.

* Bar loop: `Evaluate` (risk on the *cached* positions, then the signal row),
  `Reserve` / `ReserveRefused` (count and insert in one transaction), the four
  outcomes of `submit_order`, and `ReleaseDeclined` (the exception handler of
  `_place`).
* Poll loop: `PollVenue` (diff of two snapshots), `PersistOpen`, `LinkOrder`,
  `FillOrder` (three transactions), `OpenNotRecorded`, `PersistClose`,
  `CloseNotRecorded`, `HandlerRaises`, and the periodic reconcile in two venue
  reads (`PeriodicReconcileAgrees`, `PeriodicPrime`), the bar loop being held
  between them because no await separates them.
* Recovery: `Start`, `RecordVanished`, `ReconcileAgrees`, `Prime`, `Sweep`;
  `StartRefused`; `Crash` anywhere, `SweepCut` in the middle of the sweep.
* Venue: `VenueLands`, `VenueDrops`, `VenueCloses`.

`Faults` admits `"crash"`, `"raise"` (a handler of one event raises) and `"blind"`
(a venue read fails). `OrderState` is the lifecycle table.

### One assumption about the environment

`Start` requires that nothing sent by the previous process is still on its way.
The venue refuses a request whose signature is more than five seconds old
(`live/auth.py:12-13`, `live/auth.py:46-53`); a container restart with its
database connection and warm-up takes longer. Without it the sweep could release
a slot whose order then lands, and nothing in the code would prevent it.

### Abstractions

Sizes are signed integers of the intent (`Qty`): a fill is whole, because the
model tells apart only whether a position is there and whether sizes agree.
Prices, fees, funding and exit reasons are left out. Only market entries exist:
the engine emits no other (`app/risk/engine.py:544`), so the limit and
good-till-cancelled branches, and the expiry of resting orders, are unreachable.
`FILL` events of the live broker only log and are not events here. The
single-instance lock is assumed held.

### Runs, bounds, fairness

`safety` checks under `Faults = {"crash", "raise", "blind"}`: types, the gate
(`LiveHoldsSlot`), the ledger (`ClosedRowIsGone`,
`FilledHasRow`), the statuses (`OrderMovesAllowed`), the block of a symbol whose
order has no outcome (`NoEntryBesideUnknown`), and the refinement `GateSpec`. `fills` needs no fault:
`poll` takes "the next one sees the same difference" for granted, which fails for
a position whose whole life fits between two polls.

Two symbols, two intents on one and one on the other, `MaxOpen = 2`. Two intents
on one symbol is what stacking, mis-attribution and a retry beside an unknown
outcome need; the second symbol is what makes a per-symbol check differ from a
global one; a limit of two below three intents is what lets the gate refuse.
Nothing else is bounded: every intent is used at most once because its signal row
is durable, so the state space is finite. The proofs remove the bounds.

Only `fills` uses `FairSpec`: weak fairness of the bar loop, the poll loop with its
handlers, and recovery. Both loops catch every exception, sleep a bounded time and
go round again (`live/runtime.py:830-879`), so an enabled step of theirs is
eventually taken. The venue, a crash and a raising handler are never forced.

`_place` writes `WORKING -> REJECTED` for an entry that did not open
(`app/runtime/bot.py:1384`), which the table of `order_state.py` does not list:
`OrderMovesAllowed` names it (`NeverOpened`) as the one exception.

## 4. The protection of open positions

`LiveProtection` takes up where an entry fills. The bot holds each position to
three conditions and asks the venue to close it when one fails: its fill matches
the geometry risk approved (`_flatten_if_entry_invalid`, once, when the row is
written), its stop is at the venue and ahead of liquidation (`_verify_brackets`,
first after a grace, then every minute), and it is younger than
`max_hold_seconds` (`_enforce_time_stop`, every twelfth iteration). All three run
in the poll loop, and all three act through one mark per symbol, `_flattening`.

### State

| Variable | Code |
|---|---|
| `life`, `stopped`, `valid`, `old`, `cut` | the venue: each position's life, and what `protective_legs`, the fill price, the clock and `get_positions` would say of it |
| `row` | `positions.status` |
| `mode` | steps of `recover` |
| `sent`, `cache` | `LiveBroker._entry_cid`, `LiveBroker.positions` |
| `mark`, `due` | `_flattening`, `_bracket_checks` (no entry, not yet due, due) |
| `events`, `left`, `step` | where the poll loop is: events of the poll still to handle, symbols the pass still has to look at, the await it stands at |
| `asked` | history only: positions this process asked to close for safety |
| `struck` | history only: symbols an exception left half dealt with |

### Actions

An iteration is `PollVenue`; for each event, opens first, `PersistOpen` and
`WatchOpened` or `FlattenInvalid`, or `PersistClose` and `CloseHandled`; then
`VerifySkips`, `VerifyPasses` or `VerifyFlattens` per symbol; in some iterations
`TimeStop` or `HoldSkips` per open row; in some the two reads of a reconcile
(`ReconcileAgrees`, `Prime`). A flatten is two steps, `BeginFlatten` (mark, drop the
check, then await) and `AskClose` (the order), with the bar loop and the venue
free to move in between. `EntryFills` is the bar loop; `PositionEnds`,
`StopVanishes`, `Ages` and `DeadlinePasses` are the venue and the clocks.
`RecordVanished`, `RecoverAgrees`, `RecoverPrimes` are `recover`.

`Hazards` says what an instance admits:

| Hazard | Meaning |
|---|---|
| `crash` | the process dies at any step and starts again |
| `raise` | a database or venue error ends an iteration at any await; its events are lost, and `struck` keeps their symbols until the next close of the symbol is handled or the process restarts |
| `blind` | a read of legs, positions or history fails |
| `refuse`, `partial` | the venue refuses the close, or fills a part of it |
| `between` | the venue moves between the two reads of a reconcile |

### Abstractions

Stop and liquidation prices are one fact, whether the stop protects. `sent` is
the trade sent last on the symbol; two entries on one symbol before a poll are
`LiveExecution`'s subject, so `EntryFills` asks for a flat symbol. The exit of the
bar loop is one of the ways a position ends. Exit price, reason and profit of a
close are left out. A divergence found by a reconcile clears `ready`, which
nothing here reads. A rejected or unanswered close is reported by the code and
not retried: both are `refuse`.

### Runs

| Run | Expect | Shows |
|---|---|---|
| `protect` | pass | under all six hazards: a close is asked for once (`AskedOnce`), never of a recorded position that is healthy (`HealthyRowNotClosed`); on a symbol no exception struck, recorded positions stay watched (`WatchedOrAsked`) and marks are fresh (`MarkIsForThisPosition`) |
| `protect_liveness` | pass | under `crash`, `refuse`, `partial`: what loses its stop is asked to close |

**Bounds.** One symbol and two trades in turn: what goes wrong here is state of
one position outliving it and meeting the next one on the same symbol, and every
map of the code is keyed by symbol. A third trade would meet the second as the
second met the first. The proofs remove the bound. No counter is capped.

**Fairness.** `FairSpec` assumes that the poll loop takes its enabled steps
(`WF(PollLoop)`: it catches every exception and sleeps a bounded time), that the
pass of the time stop comes up again and again (`SF` of `Verified` going to
`"hold"`: the iteration counter reaches every twelfth), and that deadlines pass.
No venue step is forced, and recovery is not either: `Over` is satisfied while
the process is down. `raise` and `blind` are not admitted in
`protect_liveness`: a read that fails for ever keeps a check from ever deciding,
and an error at the wrong await loses the check for good.

## 5. The paper bot

### 5.1 Execution

`PaperExecution` is the same entry path with `PaperBroker` in the venue's place.
The broker lives in memory and moves inside the socket callback; what it did
waits in `_pending_events` until the bar loop writes it.

| Variable | Code |
|---|---|
| `order`, `pos` | the entry order and the position in the broker; `pos` has its status, exit, stop (first or tightened), settlements paid and the funding watermark |
| `rate` | symbols whose funding rate the process has seen |
| `queue`, `batch`, `loop` | `_pending_events`, what `drain_broker_events` took, the await the bar loop stands at |
| `risk`, `saved` | what `RiskState` has counted and booked, in memory and in `strategy_state` |
| `seen`, `orderRow`, `posRow`, `entryFill`, `exitFill`, `fundRow` | the tables, one transaction per action |
| `now` | funding settlements passed in market time |

`Tick` is a whole `on_tick`: funding, fills and kills of working orders, exits,
ladder and trail. Each of the three passes appends its events `InTurn`: one trade after
another in any order (the dict's), those of one trade as they happen (`Stage`). The bar loop reserves, submits, releases,
expires, closes an invalidated setup, suspends and resumes; then it drains, one action per await
(`PersistEntryFill`, `PersistOpen`, `PersistClose`, `SaveState`, `PersistFunding`,
`PersistKill`, `PersistExitFill`). `Raise` is an exception out of one of them: the
events behind it are gone. `Crash` and `Stop` end a process at any await, `Recover`
rebuilds the broker from rows, funding ledger and risk state.

Prices, sizes and rates are left out: an exit is one of a few (`Exits`), a stop is
the first one or a tightened one. The bar replay of the offline runs is not
modelled.

`paper`: two intents on one symbol (whose orders can work together, the case the
unique index on open rows is for), two exits, one settlement, one restart, one
exception. A restart between every two writes and a settlement on either side of it
are in reach; a second restart would meet the rows the first one left, which recovery
makes the same as those of a crash. An exception loses the events behind it: see the
section "What the code does not promise". `cut` says what that costs:
`LedgerFollowsBroker` and `FundingFollowsLedger` excuse the trades that had an event
thrown away and hold of all others; a restart, which rebuilds the broker from the rows,
takes every trade whose row is not closed out of `cut` again. Deadlock is not checked: once intents and bounds are used up the
model stops.

`paper_stop` shows a disagreement: `update_position` writes no stop, so a restart
replaces a tightened stop by the first one.

### 5.2 Bars

`BarFeed` is one symbol's minutes from the socket to a decision.

| Variable | Code |
|---|---|
| `clock`, `traded` | the minute in progress; minutes with a trade, as REST knows them |
| `bars`, `forming`, `lastClosed`, `gaps`, `seenGaps` | `SymbolCandleBuilder` |
| `pending`, `batch`, `loop` | `_pending_bars`, the bars taken and not yet handled, the await the loop stands at |
| `caller`, `todo`, `hole`, `asked`, `answer`, `flats` | a gap repair: who asked, holes left, `_repaired_gaps`, REST's answer, `quiet_out` |
| `reconciled`, `halt`, `signals` | `_reconciled_through`, `HaltDetector`, recorded evaluations with their direction, the part of the idempotency key that an evaluation can change |
| `decisions`, `observed`, `closed`, `handled`, `lost` | history only; `lost` are the minutes of flat bars a raising repair threw away |

`Update` is a candle update of the socket, of any minute up to the one in progress,
so updates are late, repeated and skipped; `Roll` is the clock; `StartPass`, `AskRest`,
`RestAnswers`, `RestFails`, `SplicedSaved`, `RepairDone` are the gap repair, with any part
of a hole's minutes missing in REST; `TakeBatch`, `HandleBar`, `BarSaved`, `NotABoundary`,
`Incomplete`, `Reconcile`, `Reconciled`, `Evaluate`, `Acted` handle a bar; `Raise` throws at
any await and puts the bars back.

A decision is what the strategy makes of the history it reads, `Verdict(HistoryTo(m))`, a
constant of the module: the theorems hold for every strategy. The runs use one whose
direction turns with each minute that is filled in or replaced (`MCVerdict`), the worst case
for the idempotency key, which holds the direction (`app/runtime/bot.py:1144`). A bar put
back behind `record_signal` is evaluated again. `DecidedOnce` says what the key then still
gives: a bar decided on a *settled* history (each minute held, as REST has it) is decided
once, since nothing changes such a history (`HistoryKept`); a bar decided on any other is
decided again only in another direction. `HaltSuppresses` speaks of bars, not of showings:
no decision made in a halt is live, nor one about the bar that reopened it, unless that bar
was put back and shown to the detector again, or the halt began right behind another one's
reopen bar. What the two properties leave out, the code does: see the end of this section.

`bars`: five minutes, a halt of one flat bar, a primary bar of two minutes, one
exception. That holds two primary bars, a hole between them, a halt with its reopen
bar, and an exception at each await. Coins meet only in a pass's order, so one is
enough. Prices are left out. The market stops at `MaxMinute`, hence no deadlock check.
**Fairness:** `WF(LoopStep)`; `_process_bars` catches every exception, sleeps and goes
round again. The socket and exceptions are never forced. `EveryBarHandled` is then
the claim that no bar is stuck behind one that raised.

`bars_reopen` shows a disagreement: a halt that begins right behind the reopen bar of
another one is not entered, and its own reopen bar is traded.

Two more are stated in the module and refuted by TLC under the constants of `bars`, with
`Spec` in place of `FairSpec`; they have no run of their own.

* `PutBackReopenSkipped`: `on_closed_1m` shows a bar to the halt detector before its
  awaits. When one of them raises on the reopen bar, the bar is put back and shown again
  (`app/runtime/bot.py:1866`); the detector, `REOPENING` since the first showing, takes it
  for the bar behind the reopen and goes `LIVE`, and the reopen bar is evaluated as live.
  `docs/failure_modes.md:71` says "The reopen bar is skipped explicitly; trading resumes only
  after a genuine post-reopen bar has closed."
* `OncePerBar`: a minute was missing or still the socket's when the bar was decided, an
  exception behind the record puts the bar back, the history is completed, and the strategy
  goes the other way. That is a new key (`app/runtime/bot.py:1144`), so the bar gives a second
  signal, and may give a second order. `docs/forward_test_audit.md:307` says "Duplicate
  signals, orders, fills and positions are impossible at the database level", and
  `app/runtime/bot.py:1399` relies on it: "signal idempotency stops the retry from submitting
  again".

### 5.3 Risk

`RiskEngine` is `RiskState`, with its gates, in the bot that uses it.

| Variable | Code |
|---|---|
| `clock` | bars closed |
| `mem`, `saved` | `TradingBot.state`, `strategy_state`: equity, peak, day and its counters, streak, cooldowns, halt |
| `working`, `held`, `queue` | the broker's orders and positions, `_pending_events` |
| `seen`, `reserved`, `opened`, `shut`, `closes` | signal, order and position rows; `shut` are rows written closed at once because the position had already ended |
| `cli` | what a resume command has read and not yet written back |
| `latched`, `placed`, `torn`, `unsaved`, `restarts`, `resumes` | history and bounds; `unsaved` are the closed rows whose result a crash, or a resume that wrote back an older state, kept from the saved one |

An evaluation is `Decline`, `Latch` (the drawdown halt) or `Place`, of a bar that may be
late; `Fill`, `Kill`, `Close` are the broker on a tick; `Invalidate` closes a position because
an evaluation finds its setup gone, and stamps the close with the evaluated bar's own time,
which may be late; `BookKill`, `BookOpen`,
`BookRefused`, `BookClose` are the drain, which the state hears from first; `CrashInOpen` and
`CrashInClose` die between a row and the state; `Stop` saves. The resume command is two
transactions beside a running bot: `CliRead` reads a halted state, `CliWrite` writes it back
whole, over whatever the bot has saved meanwhile. The engine's gates that look at one setup only are the
choice between `Decline` and `Place`. A handler that raises is `PaperExecution`'s subject.

`CooldownHolds` allows for the lateness: losses can be booked out of order, and the last one
booked sets `last_loss_at`, so a losing row keeps entries out for `cooldown_after_loss` less
what a bar can be late. It excuses the rows whose result never reached the saved state.

`risk`: two symbols, two slots, results -2 and +1 on an equity of 8, limits of a fifth,
days of two bars, two bars, three entries, evaluations and invalidations up to one bar late,
one restart, one resume. One loss is above a limit, so both slots can overrun it; the second
bar begins a new day, so a close can fall on the wrong side of a roll and a late bar can take
the day back; a restart can fall between every two writes, a booking between the resume's
two transactions, and a late loss behind a newer one. `MaxLag` is not a constant of the code:
a bar is late by as long as it was put back, or its minute was being repaired. The theorems
hold for any lateness. Deadlock is not checked, because of the bounds.

`risk_halt` shows a disagreement: a halt latched while a close is still in the queue is
in memory only; a crash reopens the position, its win lifts the drawdown, and
entries resume with no operator. It has three bars and no lateness.

Two more are stated in the module and refuted by TLC under the constants of `risk`; they
have no run of their own.

* `CooldownIsFull`, which is `CooldownHolds` without the allowance: a loss is booked, then a
  position is closed by the invalidation of a bar that closed before it
  (`app/execution/paper_broker.py:1071`). `apply_close` sets `last_loss_at` to the older time
  (`app/runtime/bot.py:1682`), and an entry passes inside the cooldown of the first loss.
  `docs/risk.md:63` has "cooldown_after_loss = 3600s # 60m, deliberately longer".
* `SavedIsBooked`: the resume command reads, the bot books a close and saves, the command
  writes back what it read (`app/cli.py:242`, `266`). The saved state has lost the close: its
  equity, its streak, its cooldown. If the process ends before its next save, that is what the
  next one starts from; if it does not, that save undoes the resume. `docs/risk.md:172`
  says "Persisted to `strategy_state` after every position open and close".

## 6. The fade account

`FadeLive` is the real-money account of `live/fade_live.py`.

| Variable | Code |
|---|---|
| `pos`, `stopped`, `last`, `spent`, `fate` | Delta: whose contracts a coin's short is, its resting stop, the newest filled buy in its history, exit ids used, what became of an entry |
| `row`, `flat` | `fade_live_positions.status`, `flat_since` |
| `status`, `on` | `fade_live_state`; whether `from_env` built an account |
| `pass` | where the pass is, which rows are left, which one is in hand, which reason and leg |
| `shut` | history: why nothing may be sold |

A pass is `StartPass` (or `Unknown`: an unknown coin halts it); per row the lookup
(`LookupFilled`, `LookupEmpty`, `LookupMisses`, `LookupFails`), the stop (`StopRests`,
`NoStop`) or the wait for an explanation (`SeesFlat`, `WaitForHistory`, `ClosedAtVenue`);
exits with two legs (`TakeExit`, `ReadSize`, `LegFills`, `LegFallsShort`, `LegRefused`,
`LegUnanswered`), `Sweep`, `Book`, `HaltOrStop`; entries (`Reserve`, then one of four
outcomes of the send, `Opened`). `Abort` ends it at any line, by a crash or an
exception. `TurnOff` and `TurnOn` are restarts with the wallet outside and inside its
band, `Resume` is the owner. The venue fires stops, closes by hand, lands late orders.

`fade`: a coin picked on two days and another one, two slots, two troubles (any two of
the events listed in `MaxTrouble`'s comment). A repeated coin is what confuses rows
with contracts, and two troubles are what a halt in the middle of an exit takes.
**Fairness:** `WF(Process)`: `FadeRunner` makes a pass every 30 s and catches what it
raises (`live/fade.py:263-279`). No venue step, crash or resume is forced.
`DueIsBoughtBack` excuses an exit whose ids are used up and an account that is off: both
are in the section "What the code does not promise".

Prices and sizes are left out, as is the paper twin `live/fade.py`, whose picks are
the input.

## 7. The market archive

`MarketArchive` is the recorders, their partitions and manifests, the audit, the
rebuild and the backup.

| Variable | Code |
|---|---|
| `part`, `man`, `check` | partitions, manifests, checkpoints, by dataset and day |
| `proc` | a recorder: its kind, service or `--once`, step, batch, dataset, what it read |
| `hand` | `refresh_manifests` of the audit, or `rebuild_manifest` |
| `copy` | the backup: verified or not, its list, what it copied |
| `minute` | the clock |
| `undescribed`, `audited`, `moved`, `raced` | history only |

A partition is the set of its observations and a hash of it is the partition itself.
Every read and every `os.replace` is an action: `Start`, `StartOnce`, `Poll`, `Fetch`,
`ReadPartition`, `ReplacePartition`, `Describe`, `WriteManifest`, `WriteCheckpoint`, and
`Raise` and `Die` between any two. `Audit`, `Glob`, `Rebuild`, `DescribeByHand`, `WriteByHand`
are the two operators' tools; `StartBackup`, `Verify`, `ListItems`, `CopyPartition`, `CheckCopy`,
`CopyManifest`, `CopyFails`, `EndBackup` the backup. `Alter` is a change nobody recorded.

`archive`: two processes of either kind, one dataset each, days of two minutes, a look-back
of two, three minutes, two polls, two troubles. The clock crosses a midnight with
batches on both sides of it, and two troubles let a crash meet an audit, a `--once` run meet
the service, an edit meet a rebuild. The proofs hold for any datasets per recorder; the run
has one each, for the state space. Deadlock is not checked, because of the bounds. There is
no liveness here: nothing promises that a day is ever sealed, if the recorder is off.

## 8. What the code does not promise

Properties above that carry an excuse carry it for one of these. They were found while
modelling; those without a run are plain readings of the code.

*Entry path.* `ready` is cleared by a running disagreement with the venue and read by nothing
on the way to an order (`live/runtime.py:868`). The engine reads the poll's cache, so between a
fill and the next poll a second entry can go into the same position (`live/broker.py:896`). The
closing order of a row is guessed as the newest filled order of its symbol
(`live/runtime.py:91`). The second read of a reconcile produces events nobody handles
(`live/runtime.py:456`). The time stop judges the venue's position by the ledger's row
(`live/runtime.py:751`).

*Protection.* An exception in the writes of `_persist_open` leaves the position without its
bracket check (`live/runtime.py:533`). A flatten is asked for once: one
immediate-or-cancel order, its result unread, and what it does not fill stays
(`live/runtime.py:551`, `617`). The geometry of a fill is checked once, after its row is
written; a crash in between leaves it unchecked (`live/runtime.py:626`).

*Paper bot and risk.* An entry can be approved within the cooldown of a loss the queue has not
booked (`app/runtime/bot.py:1173`, `1816`; compare `docs/risk.md:17`, `63`), and the cooldown
of one that is booked is cut short by a late invalidation booked after it
(`app/runtime/bot.py:1682`; `CooldownIsFull`). A late bar of the day before clears the day's
counters (`app/risk/engine.py:83`). A resume can overwrite a result
(`app/cli.py:266`; `SavedIsBooked`). An entry order that was reserving at a crash keeps
its slot for good (`app/runtime/bot.py:431`): fewer entries, never more. A position that
closes before its row is written frees its slot before its loss counts, which
`DrawdownBounded` and `DailyBounded` exclude (`shut = {}`). An exception between the row of
a fill and that of its position can overdraw the slots. Nothing calls
`SingleInstanceLock.is_alive` (`app/persistence/lock.py:79`), so a dropped connection goes
unnoticed and a second instance may start.

*Bars.* Two reopen bars are traded: that of a halt right behind another one's reopen bar
(`app/market_data/market_state.py:103`, run `bars_reopen`), and one whose handler raised and
which is shown twice (`app/runtime/bot.py:1866`; `PutBackReopenSkipped`). A bar put back can be
acted on twice, once each way (`app/runtime/bot.py:1144`; `OncePerBar`). The flat bars in the
hands of a repair that raised are gone (`lost`).

*Fade.* An account restarted outside its balance band is switched off with positions open, and
their 24 h exits do not run (`live/fade_live.py:563`; line 22 there and
`docs/fade_live_prereg.md` say they do). Exit ids are reused, so an exit that fell short
or was aborted cannot be repeated, and its refusal ends every pass before the exits behind it
(`live/orders.py:19`, `live/fade_live.py:392`). A lookup that returns `None` is taken for an
order that failed, which the client leaves to its caller to decide. A crash between an exit's
buy and its row books `MANUAL_CLOSE` and halts for nothing; an abort between `CLOSED` and the
halt loses the halt. The stop of an old trade counts as protection, `last_close` may be an older close, and a
resume may clear a newer halt. While an old row waits its 300 s, its coin can be sold again, and the old
row's time exit then buys the new position back.

*Archive.* `--once` runs outside the lock (`deltabt/data/quote_recorder.py:315-329`), so it can
merge away a snapshot of the service; the docstring of `single_instance`
(`deltabt/data/archive.py:448-459`) reads otherwise. `SnapshotsKept` excuses exactly that
(`raced`). The audit's refresh labels rebuilt and mismatched days as recorded
(`deltabt/data/archive.py:381`, `scripts/vol_data_audit.py:35`), against the docstring of
`rebuild_manifest`. An audit that overlaps a day's last append leaves a stale manifest. An edit of
yesterday's candles in a day's first minutes is described again by the recorder. The backup copies manifests
after partitions, so while recorders run a manifest in the copy may describe more than the
copy holds (`deltabt/data/backup.py:24-26` reads otherwise); `BackupIsWhole` leaves out what was
replaced meanwhile (`moved`). The backup's check for manifests without a partition is left
out of `MarketArchive`, which only lets more backups report OK.

## 9. What is proved

### The entry path

`LiveExecution_proofs` and `LiveExecution_gate_proofs`, for any finite set of
intents, any symbols and sizes, any limit and any set of faults. Assumptions:
the constants' types, and that `None` is none of the other values.

`LiveHoldsSlot` (what is live holds a slot) is not inductive: whether a slot may
be released depends on where the bar loop is, on what the broker can attribute,
on what a pending close event means, and on start-up being quiet. `IInv` adds
those facts:

* `RowsFollowFate`, `PositionsLanded`: rows exist only for what was sent, venue
  positions are made of landed orders;
* `Attributable`: what `_entry_cid` names was sent in this process, and holds its
  slot until it has its row. This is the conjunct the `Unattribute` step of a
  refusal is for: with it forgotten, a later fill on the symbol revives an order
  that never opened;
* `BarHoldsSlot`: the entry in progress has a `WORKING` row and, once declined,
  nothing can become of it: what makes `_place`'s release safe;
* `OpeningHasRow`: between the three transactions of `_persist_open` the row is
  open, so the order may lose its slot to it;
* `ClosesAreGone`: a close event still queued concerns no fill at the venue;
* `StartIsQuiet`: recovery runs with nothing in flight and no loop active;
* `HoldingWithinLimit`: at most `MaxOpen` hold a slot. The gate counts orders plus
  positions, so an order that is being linked counts twice: the count is an upper
  bound of the holders (`GateCountsHolding`), which is the safe direction.

Each action has a lemma that it keeps `IInv`; `Inductive` combines them. From it:
`LiveBounded`, `SlotsOutliveOrders`, `ClosedRowsAreGone`, `FilledOrdersHaveRows`,
`TerminalStays`, `UnknownStaysBlocked`, `NothingSentBesideUnknown`, and the
refinement `BotImplementsGate`: reserving acquires, an order that leaves goes
live, the venue finishes, and every release gives back only what is not live.

### Protection

`LiveProtection_proofs`, for any symbols and trades. `AskedOnce` and
`HealthyRowNotClosed` speak of one moment, just before the order; what makes them
true is that the awaits before it change nothing they rest on. `IInv` says why:

* `AskedAreMarked`: an open position that was asked for keeps its symbol marked, so
  every later check skips it. Marks are cleared by a close event only, and
  `EventsAreCurrent`: such an event, however long it waited, concerns no open
  position that was asked for;
* `AskingIsSafe`: what a check found at the mark is still so at the order;
* `StepsHaveEvents`: which events are left at which step, so that a flatten in the
  middle of the events is never of a symbol whose close is waiting;
* `RowsAreOfOpened`, `SentIsNewest`: one open row per symbol, given to the newest
  trade, which makes the row the time stop reads that of the recorded position,
  and the invalid fill the only position of its symbol.

It is inductive under every hazard: `ClosesAreAskedOnce`, `HealthyRowsAreKept`.
`WatchInv` adds what holds of the symbols that are not `struck`: `MarkNeedsRow` (a
mark or a check goes with an open row, so a new row finds no mark) and
`RecordedIsCovered` (watched, asked for, or in hand). `RecordedIsCached` and
`ClosesHaveNoRow` hold of every symbol: dropping a check for want of a cached
position, or of an open one, concerns no recorded position, and a close that is
handled leaves no recorded position behind, which is why it heals a struck symbol.
It is inductive under every hazard too (`IterationRaisesWatches`: an exception costs
the symbols it struck and no other): `RecordedStayWatched`, `MarksAreFresh`. On a
struck symbol both fail: a check that was not scheduled is lost until the restart,
and a mark left behind spares the next position there its flatten.

### Bars

`BarFeed_proofs`, for any number of minutes, any thresholds and any number of
exceptions. `FeedInv` relates the builder, the repair and the queue:
`FormingIsNewer` (the forming minute is newer than the history, which is what makes
a closed minute final), `GapsBehind` (a noted hole lies behind the newest bar),
`QuietInGaps` (a flat bar on its way belongs to a noted hole) and `HoleInHand` (the
hole REST was asked about is one), so that no update and no answer can open a hole
nobody noted: `NoHoleUnnoted`, `HistoryIsKept`, `NoBarIsLost`.

`NoBarDecidedTwice` holds for every strategy. `DecidedInv` says that each decision is on
record with its direction (`OnRecord`) and that what was decided on a settled history is
still what that history gives (`StillGiven`); `SettledStays` shows that a settled history
never changes, so its key is found when the bar comes again.

Two more invariants stand on it. `FilledInv` follows a minute of a hole from REST's answer
into the history: what the queue holds from the socket or REST is in the history already,
a flat bar is there by the time its handler awaits anything, and a repair is not left with
flat bars in hand. So a hole that has left `gaps` is filled (`SettledIsFilled`), but for
the flat bars (`lost`) that a repair had found when it raised: its holes are settled, and
nobody asks about them again. `HaltInv` says what the detector's state means in terms of the bars it
was shown (`HaltIsShown`: its run is the flat bars behind the last real one, `REOPENING`
only after a reopen bar) and that the bar in hand is the last one shown (`HandIsShown`), which
is what makes the flag each decision took right for the bar it was about
(`DecisionsShown`). A bar shown once was shown where the decision was made, whence
`HaltIsSuppressed`; it needs no assumption on exceptions.

### The paper bot

`PaperExecution_proofs`, for any finite set of intents, any symbols, exits, limit and
bounds. The rows lag the broker by the events that wait, and those wait in the order of
their trade: an opening before its charges, those before its close. `IInv` says what
that leaves of each trade:

* `InSequence`: what is left of the batch and what is in the queue is in order, so
  the head of the batch is the oldest event of its trade. During a save the head is
  still in the batch and already dealt with; `Rest` leaves it out;
* `EventsTellTruth`: an event that waits still describes the broker. An opening
  waits only while there is no row, which is why `_persist_open` can be refused only by
  another trade on the symbol, and then of a position that is open: one that had closed
  would have been inserted;
* `RowsCatchUp`: where row and broker differ, the event that will repair it waits;
  `FundingCatchesUp`: what a position has paid is in the ledger or waits. Both speak of
  the trades that are not `cut`: `RaiseKeeps` shows that an exception changes nothing
  for the others, `GoneKeeps` that a restart gives back all but the rows closed wrongly;
* `BookedIsOver`: what is booked is over in memory and in its row, and neither its
  opening nor its close waits, so no close is booked again, also not from a
  state that `stop()` saved in the middle of a drain;
* `EntriesAreFresh`: an intent not yet placed, or whose order works, has left no
  trace that a fill could collide with.

The broker's actions (`Tick`, `Expire`, `SetupInvalidated`, `Suspend`, `Resume`) are shown
to be instances of one step, `BrokerStep`, which gives every trade one of five outcomes and
appends what they report, in order; the invariant is proved of that step once, and of each
handler of the drain for its own trade only (`SameTradeKeeps` covers the others). From
`IInv`: `TypeCorrect`, `RowsFollow`, `BookedAtMostOnce`, `FundingMatches`, for any number
of restarts and exceptions at any await.

### Risk

`RiskEngine_proofs`, for any symbols, results, limits and bounds. The gates read rows
and a state that lag the broker, and `RiskInv` says by how much: `SlotsInv` (what
works, or waits to be booked as opened or killed, has its slot, once), `HeldInv` (what
the broker holds has an open row or an event that will give it one, and what has
closed does not come back: without it a close event could be booked twice, or free a
slot still in use), `MoneyInv` (the drawdown overruns its limit by less than one loss
for each slot not taken, in memory and in the saved state alike), `OperatorInv` (a command
between its two transactions works on a halted state, and the process beside it, if any, is
halted: so what it writes back lags by closes only, and no entry was let through on the
money it forgets), `LossesInv` (each state in play knows a last loss that is no older than
any losing row by more than a bar can be late: `Remembers`, for the state in memory, the
saved one and the one the command has read; and the same of what waits in the queue),
`HaltInv` (a latch is in the saved state, or the drawdown that caused it will latch it
again with nothing left to lift it). From it `SlotsAreKept`, `DrawdownIsBounded`,
`HaltIsKept`, `CooldownIsKept`.

The day needs an invariant of its own, `DayInv`: the loss of the day, plus one loss for
each position that is open, working or waiting for its row (`AtRisk`), stays within the
bound, in memory; in the saved state the same holds of the open rows, which are all a
restart, or a resume that writes an older state, comes back to (`HaltedStates`). A new day starts from zero, which is below the limit whatever
is at risk, so the bound survives midnight. From it `DayIsBounded`.

### The fade account

`FadeLive_proofs`, for any picks, coins and limit. `IInv` says that the row in hand is
what its branch took it for (`InHand`: between two awaits of a pass nobody else writes
it), that the rows still to visit are as they were listed (`StillListed`), that a
running account is not shut (`StatusShut`), and that no order is without a row and no
open row without a fill (`FateOfRow`). From it `NoneForgotten`, `SlotsBounded` (never
more than `MaxOpen` rows at work) and `SoldOnceNeverShut`.

### The archive

`MarketArchive_proofs`, for any processes, any datasets per recorder, any day length and
look-back. The lock keeps recorders of one kind apart (`Order`), so what a recorder
holds in memory still is what it replaces or describes (`Holds`); alterations are
numbered, so none brings a described content back (`Stamped`); each partition the backup
has passed is verified and, once copied, equal to the copy, unless it was replaced
meanwhile (`Copying`). From it `ManifestsFollow`, `NothingRelabelled`, `BackupWhole` and
`SnapshotsStay`.

## 10. What is not proved, and what is not modelled

**Only model-checked.** Liveness, which is out of the prover's reach:
`UnprotectedIsAsked`, `EveryBarHandled`, `DueIsBoughtBack`, `UnprotectedIsBoughtBack`.
Every safety invariant, every action property and the refinement that the passing runs
check is a theorem.

**Proved, and not run.** `LiveWithinLimit` (`LiveBounded`) and `WithinMaxOpen`
(`SlotsBounded`) are theorems; they say less than `GateSpec` and `SoldOnceAndNotShut`,
which are run, or follow from the same invariant. `FormingIsNewer`, `HistoryKept` and
`UnknownBlocks` are too.

**Stated, and refuted.** `PutBackReopenSkipped`, `OncePerBar`, `CooldownIsFull` and
`SavedIsBooked`, see 5.2 and 5.3.

**Not modelled.** The send-and-lookup protocol of `live/client.py`, whose outcomes
`LiveExecution` and `FadeLive` take as choices; the instance lock; shadow exits; limit
orders, which the engine never emits; the numeric parts (indicators, strategy rules,
sizing, the backtester), whose floats no model checker here enumerates; configuration,
reports, health, API, learning and grading, which read the rows above and change none of
them; scripts and deployment. `PROJECT.json` gives the reason for each. The map covers a
small share of the repository for that reason: most of its lines are research, reports
and numeric code without a state that outlives a call.

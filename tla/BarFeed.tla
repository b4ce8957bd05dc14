------------------------------ MODULE BarFeed ------------------------------
(***************************************************************************)
(* One symbol's minutes on their way from the socket to a decision.  The   *)
(* candle builder (app/market_data/candle_builder.py) closes bars inside   *)
(* the socket callback and by the clock, and notes holes; the bar loop     *)
(* (app/runtime/bot.py) asks REST about the holes, hands the closed bars   *)
(* to on_closed_1m in order, feeds the halt detector                       *)
(* (app/market_data/market_state.py) and evaluates when the strategy's own *)
(* bar closes.  Every await lets the socket in, and most of them can       *)
(* raise.  A minute is its number; prices are left out, who traded is not, *)
(* and a decision is whatever the strategy makes of the history it reads.  *)
(***************************************************************************)
EXTENDS Integers, FiniteSets, SequencesExt

CONSTANTS
  MaxMinute,    \* bound: minutes the market goes through
  MinRun,       \* halt_min_run: flat bars that make a halt
  Step,         \* minutes of the strategy's primary bar
  None,         \* "nothing is forming"
  Verdict(_),   \* evaluate_spec: the direction a history of minutes gives
  MaxRaises     \* bound: exceptions out of an await

ASSUME MinutesAssumption == MaxMinute \in Nat \ {0} /\ None \notin Nat
ASSUME RunAssumption == {MinRun, Step} \subseteq Nat \ {0}
ASSUME RaisesAssumption == MaxRaises \in Nat

Minutes == 0..MaxMinute
Sources == {"ws", "rest", "quiet"}
Directions == {"none", "long", "short"}

\* A history reaches to the minute it is read at, its last one.
HistoriesTo(m) == [0..m -> Sources \cup {"none"}]
ASSUME VerdictAssumption == \A m \in Minutes : \A h \in HistoriesTo(m) : Verdict(h) \in Directions

VARIABLES
  \* the market
  clock,        \* the minute in progress
  traded,       \* minutes with a trade, as REST knows them
  \* SymbolCandleBuilder
  bars,         \* source of each held minute, "none" if not held
  forming,      \* the minute being assembled, or None
  lastClosed,   \* _last_closed_start
  gaps,         \* noted holes <<first missing, first after>>
  seenGaps,     \* _seen_gaps
  \* TradingBot
  pending,      \* _pending_bars, written by the socket and by the loop
  batch,        \* bars _process_pending_bars has taken and not handled
  loop,         \* where the bar loop is
  caller,       \* who asked for the repair: the pass or the handler of a bar
  todo,         \* holes the repair still has to ask about
  hole,         \* the one REST is being asked about
  asked,        \* _repaired_gaps
  answer,       \* the minutes REST did not have, while the others are saved
  flats,        \* quiet_out: flat bars found by this repair
  reconciled,   \* _reconciled_through
  \* HaltDetector
  halt,         \* state and length of the flat run
  \* the database
  signals,      \* evaluations on record, as <<minute, direction>>
  \* history
  decisions,    \* what was recorded, as [at, dir, live, shown, settled]
  observed,     \* what the detector was shown, as [start, flat]
  closed,       \* minutes closed from the socket
  handled,      \* minutes on_closed_1m is done with
  raises,
  lost          \* minutes of the flat bars an exception threw away

market == <<clock, traded>>
builder == <<bars, forming, lastClosed, gaps, seenGaps>>
repair == <<caller, todo, hole, asked, answer, flats>>
history == <<decisions, observed, closed, handled, raises, lost>>
vars == <<market, builder, pending, batch, loop, repair, reconciled, halt, signals, history>>

-----------------------------------------------------------------------------

Gap == {g \in Minutes \X Minutes : g[1] < g[2]}
MinutesOf(g) == g[1]..(g[2] - 1)

Bar == [start : Minutes, source : Sources]

HaltState == [state : {"LIVE", "HALTED", "REOPENING"}, run : Nat]

\* The history held: it always has the last minute of the warm-up.
HeldMinutes == {m \in Minutes : bars[m] # "none"}
Newest == Max(HeldMinutes)

\* prime_from_history: a bot started inside a halt comes up halted.
Primed(run) == [state |-> IF run >= MinRun THEN "HALTED" ELSE "LIVE", run |-> run]

\* warm_up has loaded history up to minute 0, ending in some flat run.
Init ==
  /\ clock = 1
  /\ traded \in SUBSET (1..MaxMinute)
  /\ bars = [m \in Minutes |-> IF m = 0 THEN "rest" ELSE "none"]
  /\ forming = None /\ lastClosed = 0
  /\ gaps = {} /\ seenGaps = {}
  /\ pending = <<>> /\ batch = <<>>
  /\ loop = "handle" /\ caller = "pass" /\ todo = {} /\ asked = {}
  /\ hole = <<0, 1>> /\ answer = {} /\ flats = {}
  /\ reconciled = 0
  /\ \E run \in {0, MinRun} :
       /\ halt = Primed(run)
       /\ observed = [i \in 1..run |-> [start |-> 0, flat |-> TRUE]]
  /\ signals = {}
  /\ decisions = <<>> /\ closed = {} /\ handled = {} /\ raises = 0 /\ lost = {}

NextMinute ==
  /\ clock < MaxMinute
  /\ clock' = clock + 1
  /\ UNCHANGED <<traded, builder, pending, batch, loop, repair, reconciled, halt,
                 signals, history>>

-----------------------------------------------------------------------------
(* SymbolCandleBuilder, in the socket callback *)

\* Fault variant: a minute that follows the last one is a hole too.
NotedAlways(last, actual) == {<<last + 1, actual>>} \ seenGaps

\* _note_gap: a hole between a held minute and a later one, once.
Noted(last, actual) ==
  LET g == <<last + 1, actual>>
  IN IF g[1] < g[2] /\ g \notin seenGaps THEN {g} ELSE {}

NoteGaps(found) ==
  /\ seenGaps' = seenGaps \cup found
  /\ gaps' = gaps \cup found

\* _close_forming, with the hole it notes itself.
CloseForming ==
  IF forming <= Newest
    THEN UNCHANGED <<bars, lastClosed, pending, closed>>
    ELSE /\ bars' = [bars EXCEPT ![forming] = "ws"]
         /\ lastClosed' = forming
         /\ pending' = Append(pending, [start |-> forming, source |-> "ws"])
         /\ closed' = closed \cup {forming}

GapsOfClose == IF forming <= Newest THEN {} ELSE Noted(Newest, forming)

\* Fault variant: after a roll there is nothing to compare the update with.
NothingNoted(m) == {}

\* What ingest notes when m is the first update after a clock roll.
GapsOfFirst(m) == Noted(Newest, m)

\* The update is of a minute that is closed, or older than the one forming.
Stale(m) == m <= lastClosed \/ (forming # None /\ m < forming)

(***************************************************************************)
(* ingest: an update of a minute, traded or flat; the socket may skip one, *)
(* repeat it, or bring it late.  Prices aside, a repeat changes nothing.   *)
(***************************************************************************)
Update(m) ==
  /\ m <= clock /\ ~Stale(m) /\ m # forming
  /\ IF forming = None
       THEN NoteGaps(GapsOfFirst(m)) /\ UNCHANGED <<bars, lastClosed, pending, closed>>
       ELSE /\ CloseForming
            /\ NoteGaps(GapsOfClose \cup (IF forming <= Newest THEN {} ELSE Noted(forming, m)))
  /\ forming' = m
  /\ UNCHANGED <<market, batch, loop, repair, reconciled, halt, signals,
                 decisions, observed, handled, raises, lost>>

-----------------------------------------------------------------------------
(* The bar loop: roll_on_clock, then the holes *)

\* The minute is over, and so is the grace of roll_on_clock.
Roll ==
  /\ forming # None /\ forming < clock
  /\ CloseForming /\ NoteGaps(GapsOfClose)
  /\ forming' = None

StartPass ==
  /\ loop = "handle" /\ batch = <<>>
  /\ Roll \/ UNCHANGED <<builder, pending, closed>>
  /\ loop' = "repair" /\ caller' = "pass"
  /\ todo' = gaps' \ asked /\ flats' = {}
  /\ UNCHANGED <<market, batch, hole, asked, answer, reconciled, halt, signals,
                 decisions, observed, handled, raises, lost>>

\* _repair_gaps goes through the holes oldest first, and marks each before it asks.
AskRest ==
  /\ loop = "repair"
  /\ \E g \in todo :
       /\ \A h \in todo : g[1] <= h[1]
       /\ hole' = g /\ todo' = todo \ {g} /\ asked' = asked \cup {g}
  /\ loop' = "rest"
  /\ UNCHANGED <<market, builder, pending, batch, caller, answer, flats,
                 reconciled, halt, signals, history>>

\* A flat bar needs a close to carry forward: none is known after an absent minute.
Fillers(g, absent) ==
  {m \in MinutesOf(g) \ (traded \cup absent) :
     \A a \in absent : a < m => \E t \in traded \ absent : a < t /\ t < m}

Spliced(g, absent) == (MinutesOf(g) \cap traded) \ absent

\* Fault variant: a hole REST has answered about is settled.
AnsweredIsComplete(g, absent) == TRUE

\* REST has supplied every minute of the hole, traded or flat.
Complete(g, absent) == MinutesOf(g) = Spliced(g, absent) \cup Fillers(g, absent)

\* ingest_backfill: only minutes that are not held.
Splice(ms) ==
  /\ bars' = [m \in Minutes |-> IF m \in ms /\ bars[m] = "none" THEN "rest" ELSE bars[m]]
  /\ lastClosed' = Max({lastClosed, Newest} \cup ms)

\* The flat bars are kept for the end of the repair; settle_gap drops a hole
\* that REST has supplied in full.
Settle(absent) ==
  /\ flats' = flats \cup Fillers(hole, absent)
  /\ gaps' = IF Complete(hole, absent) THEN gaps \ {hole} ELSE gaps
  /\ loop' = "repair"

(***************************************************************************)
(* REST answers and lacks some of the minutes.  Traded bars are spliced at *)
(* once and saved before the hole is settled.                              *)
(***************************************************************************)
RestAnswers ==
  /\ loop = "rest"
  /\ \E absent \in SUBSET MinutesOf(hole) :
       \/ /\ Spliced(hole, absent) = {}
          /\ Settle(absent)
          /\ UNCHANGED <<bars, lastClosed, answer>>
       \/ /\ Spliced(hole, absent) # {}
          /\ Splice(Spliced(hole, absent))
          /\ answer' = absent /\ loop' = "splice"
          /\ UNCHANGED <<gaps, flats>>
  /\ UNCHANGED <<market, forming, seenGaps, pending, batch, caller, todo, hole, asked, reconciled,
                 halt, signals, history>>

SplicedSaved ==
  /\ loop = "splice"
  /\ Settle(answer) /\ answer' = {}
  /\ UNCHANGED <<market, bars, forming, lastClosed, seenGaps, pending, batch, caller,
                 todo, hole, asked, reconciled, halt, signals, history>>

\* The request fails; the hole is not asked about again.
RestFails ==
  /\ loop = "rest"
  /\ loop' = "repair"
  /\ UNCHANGED <<market, builder, pending, batch, caller, todo, hole, asked, answer, flats,
                 reconciled, halt, signals, history>>

QuietBar(m) == [start |-> m, source |-> "quiet"]

\* The flat bars found, oldest first.
QuietBars ==
  {[i \in 1..Len(ms) |-> QuietBar(ms[i])] :
     ms \in {ms \in SetToSeqs(flats) : \A i, j \in 1..Len(ms) : i < j => ms[i] < ms[j]}}

\* A pass goes on to the holes of the other coins; a handler queues its flat
\* bars and goes on to its decision.
RepairDone ==
  /\ loop = "repair" /\ todo = {}
  /\ \/ caller = "pass" /\ loop' = "others" /\ UNCHANGED <<pending, flats>>
     \/ /\ caller = "handler" /\ loop' = "decide"
        /\ \E quiet \in QuietBars : pending' = pending \o quiet
        /\ flats' = {}
  /\ UNCHANGED <<market, builder, batch, caller, todo, hole, asked, answer, reconciled,
                 halt, signals, history>>

-----------------------------------------------------------------------------
(* The bar loop: _process_pending_bars and on_closed_1m *)

\* list.sort: by minute, equal minutes as they came.
InOrder(queue) ==
  {[i \in 1..Len(queue) |-> queue[p[i]]] :
     p \in {p \in Bijection(1..Len(queue), 1..Len(queue)) :
              \A i, j \in 1..Len(queue) :
                i < j => \/ queue[p[i]].start < queue[p[j]].start
                         \/ queue[p[i]].start = queue[p[j]].start /\ p[i] < p[j]}}

TakeBatch ==
  /\ loop = "others"
  /\ \E quiet \in QuietBars : batch' \in InOrder(pending \o quiet)
  /\ pending' = <<>> /\ flats' = {}
  /\ loop' = "handle"
  /\ UNCHANGED <<market, builder, caller, todo, hole, asked, answer, reconciled, halt,
                 signals, history>>

\* Fault variant: the market is live again on its first real bar.
ObserveNoReopening(flat) ==
  IF flat THEN [state |-> IF halt.run + 1 >= MinRun THEN "HALTED" ELSE halt.state,
                run |-> halt.run + 1]
          ELSE [state |-> "LIVE", run |-> 0]

\* HaltDetector.observe
Observe(flat) ==
  IF flat THEN [state |-> IF halt.run + 1 >= MinRun /\ halt.state = "LIVE"
                          THEN "HALTED" ELSE halt.state,
                run |-> halt.run + 1]
          ELSE [state |-> IF halt.state = "HALTED" THEN "REOPENING" ELSE "LIVE", run |-> 0]

Shown(bar) ==
  LET flat == bar.source = "quiet" \/ bar.start \notin traded
  IN /\ halt' = Observe(flat)
     /\ observed' = Append(observed, [start |-> bar.start, flat |-> flat])

\* A flat bar is put into the builder only now; insert_quiet refuses a minute
\* that is held, and the same bar held already is a retry.
HandleBar ==
  /\ loop = "handle" /\ batch # <<>>
  /\ LET bar == Head(batch)
         held == bars[bar.start]
     IN \/ /\ bar.source # "quiet" \/ held \in {"none", "quiet"}
           /\ Shown(bar)
           /\ loop' = "saving"
           /\ IF bar.source = "quiet" /\ held = "none"
                THEN /\ bars' = [bars EXCEPT ![bar.start] = "quiet"]
                     /\ lastClosed' = Max({lastClosed, bar.start})
                ELSE UNCHANGED <<bars, lastClosed>>
           /\ UNCHANGED <<batch, handled>>
        \/ /\ bar.source = "quiet" /\ held \notin {"none", "quiet"}
           /\ batch' = Tail(batch) /\ handled' = handled \cup {bar.start}
           /\ UNCHANGED <<bars, lastClosed, halt, observed, loop>>
  /\ UNCHANGED <<market, forming, gaps, seenGaps, pending, repair, reconciled, signals,
                 decisions, closed, raises, lost>>

\* The minute is saved; a hole noted meanwhile is asked about here.
BarSaved ==
  /\ loop = "saving"
  /\ loop' = "repair" /\ caller' = "handler"
  /\ todo' = gaps \ asked /\ flats' = {}
  /\ UNCHANGED <<market, builder, pending, batch, hole, asked, answer, reconciled, halt,
                 signals, history>>

-----------------------------------------------------------------------------
(* The bar loop: on_closed_spec_bar *)

At(place) == loop = place
Minute == Head(batch).start
ClosesPrimary(m) == (m + 1) % Step = 0
PrimaryOf(m) == (m - Step + 1)..m

\* int(round(tenths / 10)): a half goes to the even side.
Rounded(tenths) ==
  LET whole == tenths \div 10
  IN IF tenths % 10 > 5 \/ (tenths % 10 = 5 /\ whole % 2 = 1) THEN whole + 1 ELSE whole

\* A primary bar is evaluated with nine minutes of ten.
Tolerated == Step - Max({1, Rounded(9 * Step)})
Missing(m) == Cardinality((PrimaryOf(m) \cap Minutes) \ HeldMinutes)

\* bars.pop(0), only once it is safely handled.
Pop ==
  /\ batch' = Tail(batch)
  /\ handled' = handled \cup {Minute}
  /\ loop' = "handle"

NotABoundary ==
  /\ At("decide") /\ ~ClosesPrimary(Minute) /\ Pop
  /\ UNCHANGED <<market, builder, pending, repair, reconciled, halt, signals,
                 decisions, observed, closed, raises, lost>>

\* Socket minutes since the last decision, still as the socket built them; a
\* minute without a trade is the same in REST.
FromSocket == {m \in ((reconciled + 1)..Minute) \cap traded : bars[m] = "ws"}

(***************************************************************************)
(* _reconcile_socket_bars: REST's bars take the place of the socket's; it  *)
(* may lack some, and is then asked again. A request that fails leaves     *)
(* them to the next decision.                                              *)
(***************************************************************************)
Reconcile ==
  /\ At("decide") \/ At("replaced")
  /\ ClosesPrimary(Minute) /\ FromSocket # {}
  /\ \/ \E served \in SUBSET FromSocket :
          /\ bars' = [m \in Minutes |-> IF m \in served THEN "rest" ELSE bars[m]]
          /\ loop' = "replaced"
     \/ loop' = "evaluate" /\ UNCHANGED bars
  /\ UNCHANGED <<market, forming, lastClosed, gaps, seenGaps, pending, batch, repair,
                 reconciled, halt, signals, history>>

\* The replaced bars are saved, or there were none to replace.
Reconciled ==
  /\ \/ At("replaced")
     \/ At("decide") /\ ClosesPrimary(Minute) /\ FromSocket = {}
  /\ reconciled' = Minute
  /\ loop' = "evaluate"
  /\ UNCHANGED <<market, builder, pending, batch, repair, halt, signals, history>>

\* A primary bar with too many minutes missing is not evaluated.
Incomplete ==
  /\ At("evaluate") /\ Missing(Minute) > Tolerated /\ Pop
  /\ UNCHANGED <<market, builder, pending, repair, reconciled, halt, signals,
                 decisions, observed, closed, raises, lost>>

(***************************************************************************)
(* Evaluate and record.  The evaluation reads the history up to the bar's  *)
(* minute; one already on record is not acted on again; a signal is only   *)
(* acted on when the detector says the market is live.                     *)
(***************************************************************************)
\* A minute without a trade is the same flat bar from wherever it came.
HistoryTo(m) ==
  [k \in 0..m |-> IF bars[k] # "none" /\ k \notin traded THEN "quiet" ELSE bars[k]]

\* idempotency_key: the direction is part of it
Key(m) == <<m, Verdict(HistoryTo(m))>>

\* Fault variant: the evaluation is not looked up.
NotLookedUp(m) == FALSE

\* record_signal refuses a key it has.
Recorded(m) == Key(m) \in signals

\* Every minute up to m is held, as REST has it.
Settled(m) == \A k \in 0..m : bars[k] # "none" /\ (bars[k] = "ws" => k \notin traded)

DecisionAt(m) ==
  [at |-> m, dir |-> Key(m)[2], live |-> halt.state = "LIVE", shown |-> Len(observed),
   settled |-> Settled(m)]

Evaluate ==
  /\ At("evaluate") /\ Missing(Minute) <= Tolerated
  /\ \/ Recorded(Minute) /\ Pop /\ UNCHANGED <<signals, decisions>>
     \/ /\ ~Recorded(Minute)
        /\ signals' = signals \cup {Key(Minute)}
        /\ decisions' = Append(decisions, DecisionAt(Minute))
        /\ loop' = "acting"
        /\ UNCHANGED <<batch, handled>>
  /\ UNCHANGED <<market, builder, pending, repair, reconciled, halt,
                 observed, closed, raises, lost>>

\* notify, _place and the rest of the handler
Acted ==
  /\ At("acting") /\ Pop
  /\ UNCHANGED <<market, builder, pending, repair, reconciled, halt, signals,
                 decisions, observed, closed, raises, lost>>

(***************************************************************************)
(* An await raises.  What was not handled goes back in front of the queue, *)
(* the bar in hand included; what a repair had found is gone.              *)
(***************************************************************************)
\* Fault variant: the bar in hand was popped before it was handled.
PutBackRest == SubSeq(batch, 2, Len(batch)) \o pending

PutBack == batch \o pending

Raise ==
  /\ raises < MaxRaises /\ loop # "handle"
  /\ raises' = raises + 1
  /\ pending' = PutBack /\ batch' = <<>>
  /\ loop' = "handle" /\ todo' = {} /\ answer' = {}
  /\ flats' = {} /\ lost' = lost \cup flats
  /\ UNCHANGED <<market, builder, caller, hole, asked, reconciled, halt, signals,
                 decisions, observed, closed, handled>>

-----------------------------------------------------------------------------

LoopStep ==
  \/ StartPass \/ AskRest \/ RestAnswers \/ RestFails \/ SplicedSaved \/ RepairDone
  \/ TakeBatch \/ HandleBar \/ BarSaved
  \/ NotABoundary \/ Reconcile \/ Reconciled \/ Incomplete \/ Evaluate \/ Acted

Next ==
  \/ NextMinute \/ LoopStep \/ Raise
  \/ \E m \in Minutes : Update(m)

Spec == Init /\ [][Next]_vars

\* The loop runs on, whatever a pass has raised.
FairSpec == Spec /\ WF_vars(LoopStep)

-----------------------------------------------------------------------------
(* Properties *)

Places == {"repair", "rest", "splice", "others", "handle", "saving", "decide",
           "replaced", "evaluate", "acting"}

Decision ==
  [at : Minutes, dir : Directions, live : BOOLEAN, shown : Nat, settled : BOOLEAN]

TypeOK ==
  /\ clock \in 1..MaxMinute /\ traded \subseteq 1..MaxMinute
  /\ bars \in [Minutes -> Sources \cup {"none"}]
  /\ forming \in Minutes \cup {None} /\ lastClosed \in Minutes
  /\ gaps \cup todo \cup asked \subseteq seenGaps /\ seenGaps \cup {hole} \subseteq Gap
  /\ pending \in Seq(Bar) /\ batch \in Seq(Bar)
  /\ loop \in Places /\ caller \in {"pass", "handler"}
  /\ answer \cup flats \cup lost \cup closed \cup handled \subseteq Minutes
  /\ signals \subseteq Minutes \X Directions
  /\ reconciled \in Minutes /\ halt \in HaltState
  /\ observed \in Seq([start : Minutes, flat : BOOLEAN])
  /\ decisions \in Seq(Decision)
  /\ raises \in 0..MaxRaises

(***************************************************************************)
(* Whatever REST and the repair put into the history, the minute being     *)
(* assembled stays newer than all of it: _close_forming never has to       *)
(* refuse a bar, and no update reopens a minute that is closed.            *)
(***************************************************************************)
FormingIsNewer == forming # None => forming > Newest /\ forming > lastClosed

(***************************************************************************)
(* A minute the builder has gone past without a bar is in a hole it has    *)
(* noted, from the first update past it on and whichever path saw it.      *)
(***************************************************************************)
HoleIsNoted ==
  \A m \in Minutes :
    /\ bars[m] = "none"
    /\ m < Newest \/ (forming # None /\ m < forming)
    => \E g \in seenGaps : m \in MinutesOf(g)

QueuedMinutes == {bar.start : bar \in Range(pending) \cup Range(batch)}

(***************************************************************************)
(* A hole that no longer counts against health is filled: each minute is   *)
(* held, or its flat bar is on the way or was in the hands of a repair     *)
(* that raised.                                                            *)
(***************************************************************************)
ClearedIsFilled ==
  \A g \in seenGaps \ gaps :
    MinutesOf(g) \subseteq HeldMinutes \cup QueuedMinutes \cup flats \cup lost

(***************************************************************************)
(* A bar the socket closed is handled or still queued, whatever the loop   *)
(* raises: "a bar dropped here is a bar the audit trail never sees".       *)
(***************************************************************************)
NoBarLost == closed \subseteq handled \cup QueuedMinutes

(***************************************************************************)
(* A bar that is put back is decided again only the other way, and only if *)
(* its first decision read a history that lacked a minute or held one as   *)
(* the socket built it: a bar decided on REST's history is acted on once.  *)
(***************************************************************************)
DecidedOnce ==
  \A i, j \in DOMAIN decisions :
    i < j /\ decisions[i].at = decisions[j].at =>
      ~decisions[i].settled /\ decisions[i].dir # decisions[j].dir

\* "Duplicate signals [...] are impossible": one bar gives one signal to act on.
\* Not kept: the key of a bar put back changes with its direction.
Signals == {i \in DOMAIN decisions : decisions[i].live /\ decisions[i].dir # "none"}
OncePerBar == \A i, j \in Signals : decisions[i].at = decisions[j].at => i = j

\* The flat bars the detector was shown just before the i-th bar.
RunBefore(i) ==
  LET reals == {j \in 1..(i - 1) : ~observed[j].flat}
  IN (i - 1) - Max({0} \cup reals)

\* The i-th bar is the first real one after a halt.
IsReopen(i) == ~observed[i].flat /\ RunBefore(i) >= MinRun

\* The real bar before the i-th one's flat run was a reopen bar itself.
AfterReopen(i) ==
  LET j == (i - 1) - RunBefore(i) IN j > 0 /\ IsReopen(j)

InHalt(i) == observed[i].flat /\ RunBefore(i) + 1 >= MinRun

\* When the bar a decision is about was shown: a bar put back is shown again.
ShownOf(d) == {i \in 1..d.shown : observed[i].start = d.at}
ShownOnce(d) == \A i, j \in ShownOf(d) : i = j

\* The bar reopened a halt that did not begin right behind a reopen bar.
ReopenBar(d) == \E i \in ShownOf(d) : IsReopen(i) /\ ~AfterReopen(i)

(***************************************************************************)
(* No decision is live while the market is in a halt, or about the bar     *)
(* that reopened it, unless that bar was put back; and as long as the halt *)
(* did not begin right behind another one's reopen bar.                    *)
(***************************************************************************)
HaltSuppresses ==
  \A d \in Range(decisions) :
    \/ d.shown > 0 /\ InHalt(d.shown) /\ ~AfterReopen(d.shown)
    \/ ReopenBar(d) /\ ShownOnce(d)
    => ~d.live

(***************************************************************************)
(* "The reopen bar is skipped explicitly", whatever a handler raises: not  *)
(* kept, a bar put back is shown to the detector again.                    *)
(***************************************************************************)
PutBackReopenSkipped == \A d \in Range(decisions) : ReopenBar(d) => ~d.live

(***************************************************************************)
(* "The bar after the halt is explicitly skipped", whatever came before    *)
(* the halt.                                                               *)
(***************************************************************************)
ReopenSkipped ==
  \A d \in Range(decisions) : (\E i \in ShownOf(d) : IsReopen(i)) => ~d.live

(***************************************************************************)
(* A minute once held stays held, and only a socket bar is ever replaced,  *)
(* by REST's.                                                              *)
(***************************************************************************)
HistoryKept ==
  [][\A m \in Minutes :
       bars[m] # "none" /\ bars'[m] # bars[m] => bars[m] = "ws" /\ bars'[m] = "rest"]_vars

(***************************************************************************)
(* Every bar the socket closed is handled in the end, although passes      *)
(* raise: the loop must not be able to die.                                *)
(***************************************************************************)
EveryBarHandled == \A m \in 1..MaxMinute : m \in closed ~> m \in handled

=============================================================================

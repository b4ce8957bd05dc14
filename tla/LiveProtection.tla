--------------------------- MODULE LiveProtection ---------------------------
(***************************************************************************)
(* How the live bot keeps its open positions safe (live/runtime.py): every *)
(* position must hold its stop at the venue, its fill must match what risk *)
(* approved and it may not outlive max_hold_seconds; otherwise the bot     *)
(* asks the venue, once, to close it.  One poll loop runs one iteration    *)
(* after another: events, bracket checks, time stops, reconcile.  The bar  *)
(* loop opens positions and the venue moves at any await.                  *)
(***************************************************************************)
EXTENDS Integers, FiniteSets

CONSTANTS
  Symbols,      \* the trade universe
  Trades,       \* positions the bar loop may come to open, each once
  SymbolOf,     \* the symbol of a trade
  Hazards,      \* what this instance admits
  None          \* "no symbol", "no trade", "no row"

ASSUME SymbolOfAssumption == SymbolOf \in [Trades -> Symbols]
ASSUME NoneAssumption == None \notin Trades \cup Symbols \cup {"OPEN", "CLOSED"}
ASSUME HazardsAssumption ==
  Hazards \subseteq {"crash", "raise", "blind", "refuse", "partial", "between"}

VARIABLES
  \* the venue
  life,         \* what became of each trade
  stopped,      \* trades whose stop-loss leg the venue holds, ahead of liquidation
  valid,        \* trades whose fill matches the geometry risk approved
  old,          \* trades held longer than max_hold_seconds
  cut,          \* trades a close has reduced and not ended
  \* the ledger
  row,          \* status of the trade's position row
  \* memory of the process
  mode,         \* "down", a step of recover, or "running"
  sent,         \* symbol -> the trade sent last (LiveBroker._entry_cid)
  cache,        \* symbols in LiveBroker.positions
  mark,         \* _flattening
  due,          \* symbol -> the state of its entry in _bracket_checks
  events,       \* events of the poll not handled yet
  left,         \* symbols this pass of a check has still to look at
  step,         \* where the poll loop is
  \* history
  asked,        \* trades this process has asked the venue to close for safety
  struck        \* symbols an exception left half dealt with, see IterationRaises

venueVars == <<life, stopped, valid, old, cut>>
loopVars  == <<events, left, step>>
vars == <<venueVars, row, mode, sent, cache, mark, due, loopVars, asked, struck>>

-----------------------------------------------------------------------------

Event == [kind : {"POSITION_OPENED", "POSITION_CLOSED"}, sym : Symbols]

Opened(s) == [kind |-> "POSITION_OPENED", sym |-> s]
Closed(s) == [kind |-> "POSITION_CLOSED", sym |-> s]

\* The step a check goes back to once a close has been asked for.
Passes == {"events", "verify", "hold"}

At(place, s, then) == [at |-> place, sym |-> s, then |-> then]
Pass(place) == At(place, None, "idle")
Idle == Pass("idle")

On(s)      == {t \in Trades : SymbolOf[t] = s}
Open       == {t \in Trades : life[t] = "open"}
Seen       == {s \in Symbols : On(s) \cap Open # {}}
OpenRows   == {t \in Trades : row[t] = "OPEN"}
RowSymbols == {SymbolOf[t] : t \in OpenRows}

\* The signed sizes agree: a position cut down no longer has its row's size.
Agree == Seen = RowSymbols /\ Open \cap cut = {}

Running(place) == mode = "running" /\ step.at = place

Init ==
  /\ life = [t \in Trades |-> "unborn"]
  /\ stopped = {} /\ valid = {} /\ old = {} /\ cut = {}
  /\ row = [t \in Trades |-> None]
  /\ mode = "down"
  /\ sent = [s \in Symbols |-> None]
  /\ cache = {} /\ mark = {}
  /\ due = [s \in Symbols |-> "none"]
  /\ events = {} /\ left = {}
  /\ step = Idle
  /\ asked = {} /\ struck = {}

-----------------------------------------------------------------------------
(* The bar loop and the venue *)

(***************************************************************************)
(* An entry fills.  The engine refuses a symbol in the broker's cache; two *)
(* fills on one symbol before the poll are LiveExecution's subject.  The   *)
(* venue may drop the stop leg, or fill far from the reference.            *)
(***************************************************************************)
EntryFills(t) ==
  LET s == SymbolOf[t]
  IN /\ mode = "running" /\ step.at # "prime"
     /\ s \notin cache \cup Seen
     /\ life[t] = "unborn"
     /\ life' = [life EXCEPT ![t] = "open"]
     /\ stopped' \in {stopped, stopped \cup {t}}
     /\ valid' \in {valid, valid \cup {t}}
     /\ sent' = [sent EXCEPT ![s] = t]
     /\ UNCHANGED <<old, cut, row, mode, cache, mark, due, loopVars, asked, struck>>

\* The venue moves between the two reads of a reconcile only if so admitted.
VenueMay == (step.at # "prime" /\ mode # "prime") \/ "between" \in Hazards

(* A bracket leg, a liquidation, or the band exit of the bar loop. *)
PositionEnds(t) ==
  /\ VenueMay
  /\ life[t] = "open"
  /\ life' = [life EXCEPT ![t] = "gone"]
  /\ UNCHANGED <<stopped, valid, old, cut, row, mode, sent, cache, mark, due,
                 loopVars, asked, struck>>

(* "a stop leg that vanished later -- cancelled by the venue" *)
StopVanishes(t) ==
  /\ t \in stopped \cap Open
  /\ stopped' = stopped \ {t}
  /\ UNCHANGED <<life, valid, old, cut, row, mode, sent, cache, mark, due,
                 loopVars, asked, struck>>

(* The exchange clock passes opened_at + max_hold_seconds. *)
Ages(t) ==
  /\ t \in Open \ old
  /\ old' = old \cup {t}
  /\ UNCHANGED <<life, stopped, valid, cut, row, mode, sent, cache, mark, due,
                 loopVars, asked, struck>>

(* The grace, or the minute between two checks, is over. *)
DeadlinePasses(s) ==
  /\ due[s] = "waiting"
  /\ due' = [due EXCEPT ![s] = "due"]
  /\ UNCHANGED <<venueVars, row, mode, sent, cache, mark, loopVars, asked, struck>>

-----------------------------------------------------------------------------
(* One iteration of _poll_loop: the events *)

PollVenue ==
  /\ Running("idle")
  /\ events' = {Opened(s) : s \in Seen \ cache} \cup {Closed(s) : s \in cache \ Seen}
  /\ cache' = Seen
  /\ step' = Pass("events")
  /\ UNCHANGED <<venueVars, row, mode, sent, mark, due, left, asked, struck>>

Handling(ev) ==
  /\ Running("events") /\ ev \in events
  /\ ev.kind = "POSITION_CLOSED" => \A e \in events : e.kind = "POSITION_CLOSED"

(***************************************************************************)
(* _persist_open: the position belongs to what was sent last on the        *)
(* symbol; open_position refuses a symbol with an open row.                *)
(***************************************************************************)
Recordable(s) ==
  sent[s] # None /\ row[sent[s]] = None /\ On(s) \cap OpenRows = {}

PersistOpen(s) ==
  /\ Handling(Opened(s)) /\ Recordable(s)
  /\ row' = [row EXCEPT ![sent[s]] = "OPEN"]
  /\ step' = At("opened", s, "events")
  /\ UNCHANGED <<venueVars, mode, sent, cache, mark, due, events, left, asked, struck>>

(* UNATTRIBUTED_POSITION or DUPLICATE_POSITION_REFUSED. *)
OpenNotRecorded(s) ==
  /\ Handling(Opened(s)) /\ ~Recordable(s)
  /\ events' = events \ {Opened(s)}
  /\ UNCHANGED <<venueVars, row, mode, sent, cache, mark, due, left, step, asked, struck>>

\* Fault variant: the first check is not scheduled.
ScheduleBracketCheckForgotten(s) == UNCHANGED due

ScheduleBracketCheck(s) == due' = [due EXCEPT ![s] = "waiting"]

(* Order linked, counted and saved; the fill is valid: watch the position. *)
WatchOpened ==
  LET s == step.sym
  IN /\ Running("opened") /\ sent[s] \in valid
     /\ ScheduleBracketCheck(s)
     /\ events' = events \ {Opened(s)}
     /\ step' = Pass("events")
     /\ UNCHANGED <<venueVars, row, mode, sent, cache, mark, left, asked, struck>>

(***************************************************************************)
(* _flatten up to its first await: once per symbol until the mark is       *)
(* cleared; a symbol already marked is left alone.                         *)
(***************************************************************************)
BeginFlatten(s, then) ==
  \/ /\ s \notin mark
     /\ mark' = mark \cup {s}
     /\ due' = [due EXCEPT ![s] = "none"]
     /\ step' = At("asking", s, then)
  \/ /\ s \in mark
     /\ step' = Pass(then)
     /\ UNCHANGED <<mark, due>>

(* _flatten_if_entry_invalid: no bracket check is scheduled. *)
FlattenInvalid ==
  LET s == step.sym
  IN /\ Running("opened") /\ sent[s] \notin valid
     /\ BeginFlatten(s, "events")
     /\ events' = events \ {Opened(s)}
     /\ UNCHANGED <<venueVars, row, mode, sent, cache, left, asked, struck>>

\* Fault variant: a row status the schema does not know.
CloseRowsAsClosing(S) == row' = [t \in Trades |-> IF t \in S THEN "CLOSING" ELSE row[t]]

CloseRows(S) == row' = [t \in Trades |-> IF t \in S THEN "CLOSED" ELSE row[t]]

(* _persist_close: the symbol's open row is closed. *)
PersistClose(s) ==
  /\ Handling(Closed(s))
  /\ CloseRows(On(s) \cap OpenRows)
  /\ step' = At("closing", s, "events")
  /\ UNCHANGED <<venueVars, mode, sent, cache, mark, due, events, left, asked, struck>>

\* Fault variant: the mark outlives its position.
ForgetProtectionHalf == UNCHANGED mark /\ due' = [due EXCEPT ![step.sym] = "none"]

ForgetProtection ==
  /\ mark' = mark \ {step.sym}
  /\ due' = [due EXCEPT ![step.sym] = "none"]

CloseHandled ==
  /\ Running("closing")
  /\ ForgetProtection
  /\ struck' = struck \ {step.sym}
  /\ events' = events \ {Closed(step.sym)}
  /\ step' = Pass("events")
  /\ UNCHANGED <<venueVars, row, mode, sent, cache, left, asked>>

EventsHandled ==
  /\ Running("events") /\ events = {}
  /\ left' = {s \in Symbols : due[s] # "none"}
  /\ step' = Pass("verify")
  /\ UNCHANGED <<venueVars, row, mode, sent, cache, mark, due, events, asked, struck>>

-----------------------------------------------------------------------------
(* The close: LiveBroker.close_position, synchronous *)

AskedNow == On(step.sym) \cap Open

(***************************************************************************)
(* A market IOC, reduce-only.  It closes the position, or part of it; or   *)
(* the venue refuses it, which is reported and not retried.  A position    *)
(* already gone is refused too, reduce-only having nothing to reduce.      *)
(***************************************************************************)
AskClose ==
  /\ Running("asking")
  /\ \/ life' = [t \in Trades |-> IF t \in AskedNow THEN "gone" ELSE life[t]] /\ cut' = cut
     \/ "partial" \in Hazards /\ life' = life /\ cut' = cut \cup AskedNow
     \/ "refuse" \in Hazards /\ life' = life /\ cut' = cut
  /\ asked' = asked \cup AskedNow
  /\ step' = Pass(step.then)
  /\ UNCHANGED <<stopped, valid, old, row, mode, sent, cache, mark, due, events, left, struck>>

-----------------------------------------------------------------------------
(* One iteration of _poll_loop: _verify_brackets, then _enforce_time_stop *)

Checking(pass, s) == Running(pass) /\ s \in left /\ left' = left \ {s}

(* Not due, not cached, or its legs unreadable. *)
VerifySkips(s) ==
  /\ Checking("verify", s)
  /\ \/ due[s] # "due" /\ UNCHANGED due
     \/ due[s] = "due" /\ s \notin cache /\ due' = [due EXCEPT ![s] = "none"]
     \/ due[s] = "due" /\ s \in cache /\ "blind" \in Hazards /\ UNCHANGED due
  /\ UNCHANGED <<venueVars, row, mode, sent, cache, mark, events, step, asked, struck>>

\* The legs of a position that is gone are cancelled with it.
Protected(s) == On(s) \cap Open \cap stopped # {}

\* Fault variant: the check is dropped after it has passed once.
VerifyPassesForGood(s) ==
  /\ Checking("verify", s) /\ due[s] = "due" /\ s \in cache
  /\ Protected(s)
  /\ due' = [due EXCEPT ![s] = "none"]
  /\ UNCHANGED <<venueVars, row, mode, sent, cache, mark, events, step, asked, struck>>

(* The stop is there: look again in a minute. *)
VerifyPasses(s) ==
  /\ Checking("verify", s) /\ due[s] = "due" /\ s \in cache
  /\ Protected(s)
  /\ due' = [due EXCEPT ![s] = "waiting"]
  /\ UNCHANGED <<venueVars, row, mode, sent, cache, mark, events, step, asked, struck>>

VerifyFlattens(s) ==
  /\ Checking("verify", s) /\ due[s] = "due" /\ s \in cache
  /\ ~Protected(s)
  /\ BeginFlatten(s, "verify")
  /\ UNCHANGED <<venueVars, row, mode, sent, cache, events, asked, struck>>

Verified ==
  /\ Running("verify") /\ left = {}
  /\ \/ step' = Pass("hold") /\ left' = RowSymbols
     \/ step' = Pass("reconcile") /\ left' = {}
     \/ step' = Idle /\ left' = {}
  /\ UNCHANGED <<venueVars, row, mode, sent, cache, mark, due, events, asked, struck>>

\* Fault variant: the age of the last row, open or not.
OverdueOfAnyRow(s) ==
  s \notin mark /\ s \in cache /\ {t \in On(s) : row[t] # None} \cap old # {}

(* The age is the ledger's: the open row of the symbol. *)
Overdue(s) == s \notin mark /\ s \in cache /\ On(s) \cap OpenRows \cap old # {}

\* Fault variant: the time stop leaves no mark.
TimeStopUnmarked(s) ==
  /\ Checking("hold", s) /\ Overdue(s)
  /\ due' = [due EXCEPT ![s] = "none"]
  /\ step' = At("asking", s, "hold")
  /\ UNCHANGED <<venueVars, row, mode, sent, cache, mark, events, asked, struck>>

TimeStop(s) ==
  /\ Checking("hold", s) /\ Overdue(s)
  /\ mark' = mark \cup {s}
  /\ due' = [due EXCEPT ![s] = "none"]
  /\ step' = At("asking", s, "hold")
  /\ UNCHANGED <<venueVars, row, mode, sent, cache, events, asked, struck>>

HoldSkips(s) ==
  /\ Checking("hold", s) /\ ~Overdue(s)
  /\ UNCHANGED <<venueVars, row, mode, sent, cache, mark, due, events, step, asked, struck>>

HoldChecked ==
  /\ Running("hold") /\ left = {}
  /\ step' \in {Pass("reconcile"), Idle}
  /\ UNCHANGED <<venueVars, row, mode, sent, cache, mark, due, events, left, asked, struck>>

-----------------------------------------------------------------------------
(* Reconcile: agreement leads to a second read whose events nobody takes *)

ReconcileAgrees ==
  /\ Running("reconcile") /\ Agree
  /\ step' = Pass("prime")
  /\ UNCHANGED <<venueVars, row, mode, sent, cache, mark, due, events, left, asked, struck>>

(* Divergence only clears ready, which nothing here reads. *)
ReconcileHalts ==
  /\ Running("reconcile") /\ (~Agree \/ "blind" \in Hazards)
  /\ step' = Idle
  /\ UNCHANGED <<venueVars, row, mode, sent, cache, mark, due, events, left, asked, struck>>

Prime ==
  /\ Running("prime")
  /\ cache' = Seen
  /\ step' = Idle
  /\ UNCHANGED <<venueVars, row, mode, sent, mark, due, events, left, asked, struck>>

(***************************************************************************)
(* A database or venue error at any await: the loop's except logs it and   *)
(* the rest of the iteration is lost.  What it struck stays half dealt     *)
(* with until the symbol's next close is handled.                          *)
(***************************************************************************)
InHand == {ev.sym : ev \in events} \cup ({step.sym} \ {None})

IterationRaises ==
  /\ "raise" \in Hazards
  /\ mode = "running" /\ step.at \notin {"idle", "prime"}
  /\ events' = {} /\ left' = {}
  /\ step' = Idle
  /\ struck' = struck \cup InHand
  /\ UNCHANGED <<venueVars, row, mode, sent, cache, mark, due, asked>>

-----------------------------------------------------------------------------
(* Crash and restart *)

Crash ==
  /\ "crash" \in Hazards /\ mode = "running"
  /\ mode' = "down"
  /\ sent' = [s \in Symbols |-> None]
  /\ cache' = {} /\ mark' = {}
  /\ due' = [s \in Symbols |-> "none"]
  /\ events' = {} /\ left' = {}
  /\ step' = Idle
  /\ asked' = {} /\ struck' = {}
  /\ UNCHANGED <<venueVars, row>>

(***************************************************************************)
(* recover: rows whose close the history proves, whole size by one order,  *)
(* are closed.  A history that cannot be read proves nothing.              *)
(***************************************************************************)
Vanished == {t \in OpenRows : SymbolOf[t] \notin Seen /\ t \notin cut}

RecordVanished ==
  /\ mode = "down"
  /\ \E V \in SUBSET Vanished :
       /\ "blind" \notin Hazards => V = Vanished
       /\ CloseRows(V)
  /\ mode' = "recovering"
  /\ UNCHANGED <<venueVars, sent, cache, mark, due, loopVars, asked, struck>>

RecoverAgrees ==
  /\ mode = "recovering" /\ Agree
  /\ mode' = "prime"
  /\ UNCHANGED <<venueVars, row, sent, cache, mark, due, loopVars, asked, struck>>

RecoverRefused ==
  /\ mode = "recovering" /\ (~Agree \/ "blind" \in Hazards)
  /\ mode' = "down"
  /\ UNCHANGED <<venueVars, row, sent, cache, mark, due, loopVars, asked, struck>>

(* "A POSITION OPENED BY A PREVIOUS PROCESS IS CHECKED TOO." *)
RecoverPrimes ==
  /\ mode = "prime"
  /\ cache' = Seen
  /\ due' = [s \in Symbols |-> IF s \in RowSymbols THEN "waiting" ELSE "none"]
  /\ mode' = "running"
  /\ UNCHANGED <<venueVars, row, sent, mark, loopVars, asked, struck>>

-----------------------------------------------------------------------------

Handlers ==
  \/ \E s \in Symbols : PersistOpen(s) \/ OpenNotRecorded(s) \/ PersistClose(s)
  \/ WatchOpened
  \/ FlattenInvalid
  \/ CloseHandled
  \/ EventsHandled

Checks ==
  \/ \E s \in Symbols : VerifySkips(s) \/ VerifyPasses(s) \/ VerifyFlattens(s)
  \/ Verified
  \/ \E s \in Symbols : TimeStop(s) \/ HoldSkips(s)
  \/ HoldChecked
  \/ AskClose

PollLoop ==
  \/ PollVenue
  \/ Handlers
  \/ Checks
  \/ ReconcileAgrees
  \/ ReconcileHalts
  \/ Prime

Recover ==
  \/ RecordVanished
  \/ RecoverAgrees
  \/ RecoverRefused
  \/ RecoverPrimes

Venue ==
  \/ \E t \in Trades : EntryFills(t) \/ PositionEnds(t) \/ StopVanishes(t) \/ Ages(t)
  \/ \E s \in Symbols : DeadlinePasses(s)

Next == PollLoop \/ IterationRaises \/ Crash \/ Recover \/ Venue

Spec == Init /\ [][Next]_vars

(***************************************************************************)
(* The poll loop goes round for ever, each iteration ending in a bounded   *)
(* sleep, the time stop being due every twelfth; clocks advance.           *)
(***************************************************************************)
Fairness ==
  /\ WF_vars(PollLoop)
  /\ SF_vars(Verified /\ step'.at = "hold")
  /\ \A s \in Symbols : WF_vars(DeadlinePasses(s))

FairSpec == Spec /\ Fairness

-----------------------------------------------------------------------------
(* Properties *)

TypeOK ==
  /\ life \in [Trades -> {"unborn", "open", "gone"}]
  /\ stopped \subseteq Trades /\ valid \subseteq Trades
  /\ old \subseteq Trades /\ cut \subseteq Trades
  /\ row \in [Trades -> {None, "OPEN", "CLOSED"}]
  /\ mode \in {"down", "recovering", "prime", "running"}
  /\ sent \in [Symbols -> Trades \cup {None}]
  /\ cache \subseteq Symbols /\ mark \subseteq Symbols /\ left \subseteq Symbols
  /\ due \in [Symbols -> {"none", "waiting", "due"}]
  /\ events \subseteq Event
  /\ step \in [at : Passes \cup {"idle", "opened", "closing", "asking", "reconcile", "prime"},
               sym : Symbols \cup {None}, then : Passes \cup {"idle"}]
  /\ asked \subseteq Trades /\ struck \subseteq Symbols

\* A position the bot has recorded and still sees.
Recorded(t) == t \in Open \cap OpenRows /\ SymbolOf[t] \in cache

(***************************************************************************)
(* Between two iterations every recorded position is still being checked,  *)
(* or the venue has been asked to close it (runtime.py: "RE-CHECKED EVERY  *)
(* MINUTE, not dropped"), unless an exception struck its own symbol.       *)
(***************************************************************************)
Watched(t) == due[SymbolOf[t]] # "none" \/ t \in asked

WatchedOrAsked ==
  Running("idle") =>
    \A t \in Trades : Recorded(t) /\ SymbolOf[t] \notin struck => Watched(t)

(***************************************************************************)
(* A process asks for the safety close of one position once, whichever of  *)
(* the three checks it fails first (_flattening).                          *)
(***************************************************************************)
AskedOnce == Running("asking") => AskedNow \cap asked = {}

(***************************************************************************)
(* A position that has its row and is protected, valid and young is not    *)
(* closed: what a check read before it marked the symbol and awaited is    *)
(* still so when the close is asked for (_flatten, _enforce_time_stop).    *)
(***************************************************************************)
Healthy == (stopped \cap valid) \ old

HealthyRowNotClosed == Running("asking") => AskedNow \cap OpenRows \cap Healthy = {}

(***************************************************************************)
(* A mark is only ever left on a symbol whose close is still to be seen,   *)
(* or that an exception struck: otherwise the next position there would    *)
(* never be flattened.                                                     *)
(***************************************************************************)
MarkIsForThisPosition ==
  Running("idle") =>
    \A t \in Trades : Recorded(t) /\ SymbolOf[t] \in mark \ struck => t \in asked

(***************************************************************************)
(* While a process runs, a recorded position without its stop is asked to  *)
(* be closed, across restarts (_verify_brackets).                          *)
(***************************************************************************)
Over(t) == t \in asked \/ life[t] = "gone" \/ mode # "running"

UnprotectedIsAsked ==
  \A t \in Trades : mode = "running" /\ Recorded(t) /\ t \notin stopped ~> Over(t)

=============================================================================

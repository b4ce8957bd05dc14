------------------------------ MODULE FadeLive ------------------------------
(***************************************************************************)
(* The real-money gainer-fade account (live/fade_live.py).  One process    *)
(* makes a pass at a time: it reconciles its rows with the venue, buys     *)
(* back what has been held for a day, and sells the picks of the day, each *)
(* with a stop that rests at the venue.  Every line between two awaits is  *)
(* one step: the stops fire, the owner acts and the process dies between   *)
(* any two.  Prices and sizes are left out; a position is the set of picks *)
(* whose contracts make it up, for a coin can be picked again.             *)
(***************************************************************************)
EXTENDS Integers, Sequences, FiniteSets, FiniteSetsExt

CONSTANTS
  DayOf,        \* UTC day of each pick, in the order of the rows' ids
  SymbolOf,     \* its coin
  MaxOpen,      \* MAX_OPEN
  None,         \* "no reason yet"
  MaxDay,       \* bound: days
  MaxTrouble    \* bound: passes that die, sends and lookups without an answer, exits
                \* that fall short, closes by hand, missing stops, restarts without account

Picks == DOMAIN DayOf
Symbols == {SymbolOf[p] : p \in Picks}

ASSUME PicksAssumption ==
  /\ DayOf \in Seq(Nat) /\ DOMAIN SymbolOf = Picks
  /\ \A p, q \in Picks : p < q => DayOf[p] <= DayOf[q]
ASSUME BoundsAssumption ==
  /\ {MaxOpen, MaxDay, MaxTrouble} \subseteq Nat
  /\ None \notin {"TIME", "UNPROTECTED", "STOP_LOSS", "OTHER", "FLOOR"}

VARIABLES
  \* Delta
  pos,          \* picks whose contracts make up the short on each coin
  stopped,      \* coins with a reduce-only stop resting
  last,         \* newest filled reduce-only buy in the history of each coin
  spent,        \* exit orders sent, <<pick, reason, leg>>: their client ids are used
  fate,         \* what became of each entry order
  \* fade_live_positions, fade_live_state
  row,          \* status of each pick's row, "none" before it
  flat,         \* flat_since of an open row: "no", "since" or 300 s ago, "long"
  status,       \* of the account
  \* the process
  on,           \* from_env gave it an account
  pass,         \* the pass in progress
  \* the world and its history
  day,
  shut,         \* why nothing may be sold: "no", "halt" until the owner looks, "over"
  trouble

venue == <<pos, stopped, last, spent, fate>>
vars == <<venue, row, flat, status, on, pass, day, shut, trouble>>

-----------------------------------------------------------------------------

Reasons == {"TIME", "UNPROTECTED"}
Legs == {"limit", "market"}
Pass ==
  [ at    : {"idle", "next", "stop", "buy", "limit", "rest", "market", "left",
             "sweep", "book", "flat", "tidy", "halt", "send", "opened", "watch"},
    phase : {"check", "exits", "entries"},
    todo  : SUBSET Picks,                   \* rows or picks of this loop, by id
    seen  : {"no", "since", "long"},        \* flat_since as the loop read it
    why   : Reasons \cup {None, "STOP_LOSS", "OTHER", "FLOOR"},
    sold  : BOOLEAN,                        \* a leg of this exit has filled
    now   : 0..MaxDay ]                     \* day the pass began on

Idle == [at |-> "idle", phase |-> "check", todo |-> {}, seen |-> "no", why |-> None,
         sold |-> FALSE, now |-> 0]

\* The row or pick in hand, and what the loop does when it is done with it.
It == Min(pass.todo)
Coin == SymbolOf[It]
Done == [Idle EXCEPT !.at = "next", !.phase = pass.phase, !.todo = pass.todo \ {It},
                     !.now = pass.now]
Turn(phase) == pass.at = "next" /\ pass.phase = phase /\ pass.todo # {}
Goto(place) == pass' = [pass EXCEPT !.at = place]

Live == {p \in Picks : row[p] \in {"SENDING", "OPEN"}}
Held(p) == p \in pos[SymbolOf[p]]

\* set_state: STOPPED is final.
Halted(st) == IF st = "STOPPED" THEN st ELSE "HALTED"
Shut(h) == IF h = "over" THEN h ELSE "halt"

\* One of the things that go wrong, within the bound.
Trouble == trouble < MaxTrouble /\ trouble' = trouble + 1

Halts == status' = Halted(status) /\ shut' = Shut(shut)

Init ==
  /\ pos = [s \in Symbols |-> {}] /\ stopped = {} /\ last = [s \in Symbols |-> "none"]
  /\ spent = {} /\ fate = [p \in Picks |-> "none"]
  /\ row = [p \in Picks |-> "none"] /\ flat = [p \in Picks |-> "no"] /\ status = "OFF"
  /\ on = TRUE /\ pass = Idle
  /\ day = 0 /\ shut = "no"
  /\ trouble = 0

-----------------------------------------------------------------------------
(* _reconcile *)

\* Positions of no row of ours: of a given-up entry, or somebody else's.
Unknown(foreign) ==
  foreign \/ \E s \in Symbols : pos[s] # {} /\ s \notin {SymbolOf[p] : p \in Live}

StartPass(foreign) ==
  /\ on /\ pass.at = "idle"
  /\ LET st == IF status = "OFF" THEN "RUNNING" ELSE status
     IN IF Unknown(foreign)
        THEN status' = Halted(st) /\ shut' = Shut(shut)
        ELSE status' = st /\ UNCHANGED shut
  /\ pass' = [Idle EXCEPT !.at = "next", !.todo = Live, !.now = day]
  /\ UNCHANGED <<venue, row, flat, on, day, trouble>>

\* The order is asked for by its client id.
LookupFilled ==
  /\ Turn("check") /\ row[It] = "SENDING" /\ fate[It] = "filled"
  /\ Goto("opened")
  /\ UNCHANGED <<venue, row, flat, status, on, day, shut, trouble>>

\* Fault variant: what is not found is tried again.
GivenUpRetried == "none"

GivenUp == "FAILED"

LookupEmpty ==
  /\ Turn("check") /\ row[It] = "SENDING" /\ fate[It] # "filled"
  /\ row' = [row EXCEPT ![It] = GivenUp]
  /\ pass' = Done
  /\ UNCHANGED <<venue, flat, status, on, day, shut, trouble>>

\* The fallback scan misses an order that filled.
LookupMisses ==
  /\ Turn("check") /\ row[It] = "SENDING" /\ fate[It] = "filled"
  /\ Trouble
  /\ row' = [row EXCEPT ![It] = GivenUp]
  /\ fate' = [fate EXCEPT ![It] = "missed"]
  /\ pass' = Done
  /\ UNCHANGED <<pos, stopped, last, spent, flat, status, on, day, shut>>

\* Fault variant: no answer is read as "it never arrived".
UnansweredGivesUp(st) == "FAILED"

\* The row of an entry whose lookup failed stays as it is.
Unanswered(st) == st

LookupFails ==
  /\ Turn("check") /\ row[It] = "SENDING"
  /\ Trouble
  /\ row' = [row EXCEPT ![It] = Unanswered(@)]
  /\ Halts
  /\ pass' = Done
  /\ UNCHANGED <<venue, flat, on, day>>

\* An open row: is it still held, and does its stop still rest?
SeesHeld ==
  /\ Turn("check") /\ row[It] = "OPEN" /\ pos[Coin] # {}
  /\ flat' = [flat EXCEPT ![It] = "no"]
  /\ pass' = [pass EXCEPT !.at = "stop", !.seen = flat[It]]
  /\ UNCHANGED <<venue, row, status, on, day, shut, trouble>>

\* Fault variant: a stop of any coin will do.
StopRestingAnywhere == stopped # {}

\* stop_resting: a reduce-only stop on this product, whatever it was set for.
StopResting == Coin \in stopped

StopRests ==
  /\ pass.at \in {"stop", "watch"} /\ StopResting
  /\ pass' = Done
  /\ UNCHANGED <<venue, row, flat, status, on, day, shut, trouble>>

NoStop ==
  /\ pass.at \in {"stop", "watch"} /\ ~StopResting
  /\ pass' = [pass EXCEPT !.at = "buy", !.why = "UNPROTECTED"]
  /\ UNCHANGED <<venue, row, flat, status, on, day, shut, trouble>>

SeesFlat ==
  /\ Turn("check") /\ row[It] = "OPEN" /\ pos[Coin] = {}
  /\ pass' = [pass EXCEPT !.at = "flat", !.seen = flat[It]]
  /\ UNCHANGED <<venue, row, flat, status, on, day, shut, trouble>>

\* _closed_at_venue: the newest closing order says why, or there is none yet.
WaitForHistory ==
  /\ pass.at = "flat" /\ last[Coin] = "none" /\ pass.seen # "long"
  /\ flat' = IF pass.seen = "no" THEN [flat EXCEPT ![It] = "since"] ELSE flat
  /\ pass' = Done
  /\ UNCHANGED <<venue, row, status, on, day, shut, trouble>>

ClosedAtVenue ==
  /\ pass.at = "flat" /\ (last[Coin] # "none" \/ pass.seen = "long")
  /\ row' = [row EXCEPT ![It] = "CLOSED"]
  /\ flat' = [flat EXCEPT ![It] = "no"]
  /\ pass' = [pass EXCEPT !.at = "tidy",
                          !.why = IF last[Coin] = "STOP_LOSS" THEN "STOP_LOSS"
                                                             ELSE "OTHER"]
  /\ UNCHANGED <<venue, status, on, day, shut, trouble>>

\* Fault variant: a halted account does nothing more.
OverdueWhileRunning ==
  {p \in Picks : row[p] = "OPEN" /\ DayOf[p] < pass.now /\ status = "RUNNING"}

\* Open rows of an earlier day.
Overdue == {p \in Picks : row[p] = "OPEN" /\ DayOf[p] < pass.now}

EndCheck ==
  /\ pass.at = "next" /\ pass.phase = "check" /\ pass.todo = {}
  /\ pass' = [pass EXCEPT !.phase = "exits", !.todo = Overdue]
  /\ UNCHANGED <<venue, row, flat, status, on, day, shut, trouble>>

-----------------------------------------------------------------------------
(* _close: buy_back, cancel_leftovers, and the row *)

\* _exits takes the next row.
TakeExit ==
  /\ Turn("exits")
  /\ pass' = [pass EXCEPT !.at = "buy", !.why = "TIME", !.seen = flat[It]]
  /\ UNCHANGED <<venue, row, flat, status, on, day, shut, trouble>>

\* The size, and whether there is an ask to price the limit leg with.
ReadSize(ask) ==
  /\ pass.at \in {"buy", "rest", "left"}
  /\ IF pos[Coin] = {}
     THEN Goto("sweep")
     ELSE Goto(CASE pass.at = "buy"  -> IF ask THEN "limit" ELSE "market"
                 [] pass.at = "rest" -> "market"
                 [] pass.at = "left" -> "halt")
  /\ UNCHANGED <<venue, row, flat, status, on, day, shut, trouble>>

AfterLeg == IF pass.at = "limit" THEN "rest" ELSE "left"
LegOrder == <<It, pass.why, pass.at>>

LegFills ==
  /\ pass.at \in Legs /\ LegOrder \notin spent /\ pos[Coin] # {}
  /\ spent' = spent \cup {LegOrder}
  /\ pos' = [pos EXCEPT ![Coin] = {}]
  /\ last' = [last EXCEPT ![Coin] = "OTHER"]
  /\ pass' = [pass EXCEPT !.at = AfterLeg, !.sold = TRUE]
  /\ UNCHANGED <<stopped, fate, row, flat, status, on, day, shut, trouble>>

\* The leg leaves contracts open, or the stop was there first.
LegFallsShort(part) ==
  /\ pass.at \in Legs /\ LegOrder \notin spent
  /\ part => pos[Coin] # {}
  /\ IF pass.at = "market" /\ pos[Coin] # {}
     THEN Trouble
     ELSE UNCHANGED trouble
  /\ spent' = spent \cup {LegOrder}
  /\ last' = IF part THEN [last EXCEPT ![Coin] = "OTHER"] ELSE last
  /\ pass' = [pass EXCEPT !.at = AfterLeg, !.sold = @ \/ part]
  /\ UNCHANGED <<pos, stopped, fate, row, flat, status, on, day, shut>>

\* A client id used before, or a reduce-only order on a flat coin: VenueRejected.
LegRefused ==
  /\ pass.at \in Legs /\ (LegOrder \in spent \/ pos[Coin] = {})
  /\ pass' = Idle
  /\ UNCHANGED <<venue, row, flat, status, on, day, shut, trouble>>

\* AmbiguousWrite, or the process dies, with the order sent.
LegUnanswered(fills) ==
  /\ pass.at \in Legs /\ LegOrder \notin spent
  /\ Trouble
  /\ spent' = spent \cup {LegOrder}
  /\ IF fills
     THEN /\ pos[Coin] # {}
          /\ pos' = [pos EXCEPT ![Coin] = {}]
          /\ last' = [last EXCEPT ![Coin] = "OTHER"]
     ELSE UNCHANGED <<pos, last>>
  /\ pass' = Idle
  /\ UNCHANGED <<stopped, fate, row, flat, status, on, day, shut>>

\* cancel_leftovers: the old bracket, once the coin is flat.
Swept == IF pos[Coin] = {} THEN stopped \ {Coin} ELSE stopped

\* In _close, and again in _closed_at_venue behind the row.
Sweep ==
  /\ pass.at \in {"sweep", "tidy"}
  /\ stopped' = Swept
  /\ IF pass.at = "tidy"
     THEN IF pass.why = "STOP_LOSS" THEN pass' = Done ELSE Goto("halt")
     ELSE Goto(IF pass.sold THEN "book" ELSE "flat")
  /\ UNCHANGED <<pos, last, spent, fate, row, flat, status, on, day, shut, trouble>>

Book ==
  /\ pass.at = "book"
  /\ row' = [row EXCEPT ![It] = "CLOSED"]
  /\ flat' = [flat EXCEPT ![It] = "no"]
  /\ IF pass.why = "TIME" THEN pass' = Done ELSE Goto("halt")
  /\ UNCHANGED <<venue, status, on, day, shut, trouble>>

\* The set_state that ends a close, or an entry check.
HaltOrStop ==
  /\ pass.at = "halt"
  /\ IF pass.why = "FLOOR"
     THEN status' = "STOPPED" /\ shut' = "over"
     ELSE Halts
  /\ pass' = Done
  /\ UNCHANGED <<venue, row, flat, on, day, trouble>>

-----------------------------------------------------------------------------
(* _entries *)

\* Fault variant: yesterday's picks too, and tomorrow's.
UndoneOfAnyDay == {p \in Picks : row[p] = "none"}

\* Picks of the day without a row.
Undone == {p \in Picks : row[p] = "none" /\ DayOf[p] = pass.now}

\* Only on a running account, in the window, and after the paper's picks.
EndExits(open) ==
  /\ pass.at = "next" /\ pass.phase = "exits" /\ pass.todo = {}
  /\ pass' = IF status = "RUNNING" /\ open
             THEN [pass EXCEPT !.phase = "entries", !.todo = Undone] ELSE Idle
  /\ UNCHANGED <<venue, row, flat, status, on, day, shut, trouble>>

\* The status is read again behind each pick.
MayGoOn == status = "RUNNING"

EndEntries ==
  /\ pass.at = "next" /\ pass.phase = "entries"
  /\ pass.todo = {} \/ ~MayGoOn
  /\ pass' = Idle
  /\ UNCHANGED <<venue, row, flat, status, on, day, shut, trouble>>

\* _skip, for its many reasons: two of them stop or halt the account as well.
Skip(why) ==
  /\ Turn("entries") /\ MayGoOn
  /\ row' = [row EXCEPT ![It] = "SKIPPED"]
  /\ pass' = IF why = None THEN Done ELSE [pass EXCEPT !.at = "halt", !.why = why]
  /\ UNCHANGED <<venue, flat, status, on, day, shut, trouble>>

HasRoom == Cardinality(Live) < MaxOpen

\* The row is written before the send.
Reserve ==
  /\ Turn("entries") /\ MayGoOn
  /\ HasRoom /\ pos[Coin] = {}
  /\ row' = [row EXCEPT ![It] = "SENDING"]
  /\ Goto("send")
  /\ UNCHANGED <<venue, flat, status, on, day, shut, trouble>>

\* What an entry order can do at the venue; the bracket may not come with it.
Lands(outcome, bracket) ==
  /\ fate' = [fate EXCEPT ![It] = outcome]
  /\ IF outcome = "filled"
     THEN /\ pos' = [pos EXCEPT ![Coin] = @ \cup {It}]
          /\ stopped' = IF bracket THEN stopped \cup {Coin} ELSE stopped
     ELSE UNCHANGED <<pos, stopped>>
  /\ UNCHANGED <<last, spent>>

SendFilled(bracket) ==
  /\ pass.at = "send"
  /\ Lands("filled", bracket)
  /\ IF bracket THEN UNCHANGED trouble ELSE Trouble
  /\ Goto("opened")
  /\ UNCHANGED <<row, flat, status, on, day, shut>>

\* Nothing filled within the limit, or the venue refused the order.
SendFails(result) ==
  /\ pass.at = "send"
  /\ Lands("dead", FALSE)
  /\ row' = [row EXCEPT ![It] = result]
  /\ pass' = Done
  /\ UNCHANGED <<flat, status, on, day, shut, trouble>>

\* No answer and no order found: the row stays SENDING, the account halts.
SendUnanswered(outcome) ==
  /\ pass.at = "send"
  /\ Trouble
  /\ Lands(outcome, TRUE)
  /\ Halts
  /\ pass' = Done
  /\ UNCHANGED <<row, flat, on, day>>

\* The process dies with the order sent.
SendDies(outcome) ==
  /\ pass.at = "send"
  /\ Trouble
  /\ Lands(outcome, TRUE)
  /\ pass' = Idle
  /\ UNCHANGED <<row, flat, status, on, day, shut>>

\* _opened, then wait_protected (StopRests and NoStop, at "watch").
Opened ==
  /\ pass.at = "opened"
  /\ row' = [row EXCEPT ![It] = "OPEN"]
  /\ Goto("watch")
  /\ UNCHANGED <<venue, flat, status, on, day, shut, trouble>>

-----------------------------------------------------------------------------
(* Everybody else *)

\* An await raises, or the process dies and comes back with its account.
Abort ==
  /\ pass.at # "idle"
  /\ Trouble
  /\ pass' = Idle
  /\ UNCHANGED <<venue, row, flat, status, on, day, shut>>

\* Fault variant: whatever the account was.
SwitchedOffAnyway(st) == "OFF"

\* record_off
SwitchedOff(st) == IF st \in {"OFF", "RUNNING"} THEN "OFF" ELSE st

\* A restart at which from_env gives no account, and one at which it does.
TurnOff ==
  /\ on /\ pass.at = "idle"
  /\ Trouble
  /\ on' = FALSE
  /\ status' = SwitchedOff(status)
  /\ UNCHANGED <<venue, row, flat, pass, day, shut>>

TurnOn ==
  /\ ~on /\ on' = TRUE
  /\ UNCHANGED <<venue, row, flat, status, pass, day, shut, trouble>>

\* The owner, after a look: resume.
Resume ==
  /\ status = "HALTED" /\ status' = "RUNNING"
  /\ shut' = IF shut = "halt" THEN "no" ELSE shut
  /\ UNCHANGED <<venue, row, flat, on, pass, day, trouble>>

\* The stop buys the coin back.
StopFires(s) ==
  /\ s \in stopped /\ pos[s] # {}
  /\ pos' = [pos EXCEPT ![s] = {}]
  /\ stopped' = stopped \ {s}
  /\ last' = [last EXCEPT ![s] = "STOP_LOSS"]
  /\ UNCHANGED <<spent, fate, row, flat, status, on, pass, day, shut, trouble>>

\* A close by hand, a liquidation, or one the history does not show.
EndsOddly(s, seen) ==
  /\ pos[s] # {}
  /\ Trouble
  /\ pos' = [pos EXCEPT ![s] = {}]
  /\ last' = IF seen THEN [last EXCEPT ![s] = "OTHER"] ELSE last
  /\ UNCHANGED <<stopped, spent, fate, row, flat, status, on, pass, day, shut>>

StopVanishes(s) ==
  /\ s \in stopped
  /\ Trouble
  /\ stopped' = stopped \ {s}
  /\ UNCHANGED <<pos, last, spent, fate, row, flat, status, on, pass, day, shut>>

\* An order that was on its way lands: too late if its row was given up.
FillsLate(p) ==
  /\ fate[p] = "out"
  /\ fate' = [fate EXCEPT ![p] = IF row[p] = "SENDING" THEN "filled" ELSE "missed"]
  /\ pos' = [pos EXCEPT ![SymbolOf[p]] = @ \cup {p}]
  /\ stopped' = stopped \cup {SymbolOf[p]}
  /\ UNCHANGED <<last, spent, row, flat, status, on, pass, day, shut, trouble>>

\* UNEXPLAINED_FLAT passes between two passes.
FlatLong(p) ==
  /\ pass.at = "idle" /\ flat[p] = "since"
  /\ flat' = [flat EXCEPT ![p] = "long"]
  /\ UNCHANGED <<venue, row, status, on, pass, day, shut, trouble>>

Midnight ==
  /\ day < MaxDay /\ day' = day + 1
  /\ UNCHANGED <<venue, row, flat, status, on, pass, shut, trouble>>

-----------------------------------------------------------------------------

Reconciling ==
  \/ \E foreign \in BOOLEAN : StartPass(foreign)
  \/ LookupFilled \/ LookupEmpty \/ LookupMisses \/ LookupFails
  \/ SeesHeld \/ StopRests \/ NoStop \/ SeesFlat \/ WaitForHistory \/ ClosedAtVenue
  \/ EndCheck

Closing ==
  \/ TakeExit \/ LegFills \/ LegRefused \/ Sweep \/ Book \/ HaltOrStop
  \/ \E b \in BOOLEAN : ReadSize(b) \/ LegFallsShort(b) \/ LegUnanswered(b)

Entering ==
  \/ \E open \in BOOLEAN : EndExits(open)
  \/ EndEntries \/ Reserve \/ Opened
  \/ \E why \in {None, "FLOOR", "OTHER"} : Skip(why)
  \/ \E bracket \in BOOLEAN : SendFilled(bracket)
  \/ \E result \in {"SKIPPED", "FAILED"} : SendFails(result)
  \/ \E outcome \in {"filled", "dead", "out"} : SendUnanswered(outcome) \/ SendDies(outcome)

\* What the process does, on its own.
Process == Reconciling \/ Closing \/ Entering

Others ==
  \/ Abort \/ TurnOff \/ TurnOn \/ Resume \/ Midnight
  \/ \E s \in Symbols : StopFires(s) \/ StopVanishes(s)
                        \/ \E seen \in BOOLEAN : EndsOddly(s, seen)
  \/ \E p \in Picks : FillsLate(p) \/ FlatLong(p)

Next == Process \/ Others

Spec == Init /\ [][Next]_vars

\* The runner makes a pass every 30 s, and finishes it unless it raises.
FairSpec == Spec /\ WF_vars(Process)

-----------------------------------------------------------------------------

\* Every variable has its type; a pass in progress has a row in hand where it
\* works on one, only open rows wait for their history, and no pick has a row
\* before its day.
TypeOK ==
  /\ pos \in [Symbols -> SUBSET Picks] /\ stopped \subseteq Symbols
  /\ last \in [Symbols -> {"none", "STOP_LOSS", "OTHER"}]
  /\ spent \subseteq Picks \X Reasons \X Legs
  /\ fate \in [Picks -> {"none", "filled", "dead", "out", "missed"}]
  /\ row \in [Picks -> {"none", "SENDING", "OPEN", "CLOSED", "SKIPPED", "FAILED"}]
  /\ flat \in [Picks -> {"no", "since", "long"}]
  /\ status \in {"OFF", "RUNNING", "HALTED", "STOPPED"} /\ on \in BOOLEAN
  /\ pass \in Pass /\ (pass.at \notin {"idle", "next"} => pass.todo # {})
  /\ day \in 0..MaxDay /\ shut \in {"no", "halt", "over"}
  /\ trouble \in 0..MaxTrouble
  /\ \A p \in Picks : /\ flat[p] # "no" => row[p] = "OPEN"
                      /\ row[p] # "none" => DayOf[p] <= day

\* Contracts of an entry that filled, unless its lookup missed it, always have
\* a row that is still worked on: whichever answer, pass or process was lost on
\* the way, no position is forgotten before it is flat.
PositionHasRow ==
  \A p \in Picks : Held(p) /\ fate[p] = "filled" => row[p] \in {"SENDING", "OPEN"}

\* Rows that hold or may hold a position never exceed MAX_OPEN: not with an
\* entry of unknown outcome, an exit left open, or a coin waiting to be
\* explained.
WithinMaxOpen == Cardinality(Live) <= MaxOpen

\* Sending an entry order.
Sends == pass.at = "send" /\ fate' # fate /\ pass' # pass

\* A pick is sold once, through crashes, aborted passes and lookups that find
\* nothing; and none is sold between a halt and the owner's look at it, nor ever
\* after the floor was reached: not in the same pass, and not after restarts that
\* switch the account off and on again.
SoldOnceAndNotShut == [][Sends => fate[It] = "none" /\ shut = "no"]_vars

\* An exit of an open row was tried before: its client ids can not be used again.
Blocked == \E x \in spent : row[x[1]] = "OPEN"

\* Coins with a position of an open row that is a day old, or has no stop.
Due == {s \in Symbols : \E p \in pos[s] : row[p] = "OPEN" /\ DayOf[p] < day}
Unprotected == {s \in Symbols \ stopped : \E p \in pos[s] : row[p] = "OPEN"}

\* A position a day old is bought back, halted or not, unless an exit that fell
\* short stands in the way or the account is off.
DueIsBoughtBack == \A s \in Symbols : s \in Due ~> (s \notin Due \/ Blocked \/ ~on)

\* A position that loses its stop, or never had it, is bought back too.
UnprotectedIsBoughtBack ==
  \A s \in Symbols : s \in Unprotected ~> (s \notin Unprotected \/ Blocked \/ ~on)

=============================================================================

----------------------- MODULE LiveProtection_proofs -----------------------
(***************************************************************************)
(* Proofs about LiveProtection, for any symbols and trades. IInv is        *)
(* inductive under every hazard: a close for safety is asked for once, and *)
(* never of a healthy recorded position. WatchInv is inductive as long as  *)
(* no handler raises: every recorded position stays watched, and no mark   *)
(* outlives its position.                                                  *)
(***************************************************************************)
EXTENDS LiveProtection, TLAPS

(***************************************************************************)
(* The events of a poll are told apart by kind and symbol.                 *)
(***************************************************************************)
LEMMA EventsDiffer ==
  ASSUME NEW r, NEW s
  PROVE  Opened(r) # Closed(s) /\ (Opened(r) = Opened(s) => r = s) /\ (Closed(r) = Closed(s) => r = s)
<1>1. Opened(r).kind # Closed(s).kind
  BY DEF Opened, Closed
<1>2. Opened(r).sym = r /\ Opened(s).sym = s /\ Closed(r).sym = r /\ Closed(s).sym = s
  BY DEF Opened, Closed
<1> QED
  BY <1>1, <1>2

(***************************************************************************)
(* A poll reports an open for each symbol new in the snapshot, a close for *)
(* each that has left it.                                                  *)
(***************************************************************************)
LEMMA PolledEvents ==
  ASSUME PollVenue, NEW s \in Symbols
  PROVE  /\ Opened(s) \in events' <=> s \in Seen \ cache
         /\ Closed(s) \in events' <=> s \in cache \ Seen
<1>1. events' = {Opened(r) : r \in Seen \ cache} \cup {Closed(r) : r \in cache \ Seen}
  BY DEF PollVenue
<1> QED
  BY <1>1, EventsDiffer

-----------------------------------------------------------------------------
(* The inductive invariant under every hazard *)

\* What was asked for and is still open keeps its symbol marked.
AskedAreMarked ==
  \A t \in asked : life[t] # "unborn" /\ (life[t] = "open" => SymbolOf[t] \in mark)

\* About to ask: the symbol is marked, nothing there was asked for before,
\* and nothing recorded there is healthy.
AskingIsSafe ==
  step.at = "asking" =>
    /\ step.sym \in mark
    /\ AskedNow \cap asked = {}
    /\ AskedNow \cap OpenRows \cap Healthy = {}

\* A close waiting to be handled concerns nothing that was asked for and is
\* open.
EventsAreCurrent ==
  \A s \in Symbols : Closed(s) \in events =>
    /\ Opened(s) \notin events
    /\ On(s) \cap Open \cap asked = {}

\* A step in the middle of an event has that event; after the events none is
\* left.
StepsHaveEvents ==
  /\ step.at = "opened" =>
       step.sym \in Symbols /\ Opened(step.sym) \in events /\ sent[step.sym] # None
  /\ step.at = "closing" => step.sym \in Symbols /\ Closed(step.sym) \in events
  /\ step.at = "asking" =>
       step.then \in Passes /\ (step.then = "events" => Closed(step.sym) \notin events)
  /\ \/ step.at \in {"events", "opened", "closing"}
     \/ step.at = "asking" /\ step.then = "events"
     \/ events = {}

\* Rows belong to trades that were opened, one open row per symbol.
RowsAreOfOpened ==
  /\ \A t \in Trades : life[t] = "unborn" => row[t] = None
  /\ \A t, u \in OpenRows : SymbolOf[t] = SymbolOf[u] => t = u

\* The trade sent last is the only one of its symbol that can be open.
SentIsNewest ==
  \A s \in Symbols : sent[s] # None =>
    /\ SymbolOf[sent[s]] = s /\ life[sent[s]] # "unborn"
    /\ On(s) \cap Open \subseteq {sent[s]}

IInv ==
  /\ TypeOK
  /\ AskedAreMarked
  /\ AskingIsSafe
  /\ EventsAreCurrent
  /\ StepsHaveEvents
  /\ RowsAreOfOpened
  /\ SentIsNewest

USE DEF venueVars, loopVars, At, Pass, Idle, Running, On, Open, Opened, Closed, OpenRows, Passes
USE SymbolOfAssumption, NoneAssumption

(* Nothing is open, recorded, asked for or going on. *)
LEMMA InitIInv == Init => IInv
  BY DEF Init, IInv, TypeOK, AskedAreMarked, AskingIsSafe, EventsAreCurrent, StepsHaveEvents,
      RowsAreOfOpened, SentIsNewest

(* An entry fills: the new trade is unborn, hence without row and never asked for. *)
LEMMA EntryFillsKeeps ==
  ASSUME IInv, NEW t \in Trades, EntryFills(t)
  PROVE  IInv'
<1>1. AskingIsSafe'
  BY DEF IInv, AskingIsSafe, AskedAreMarked, RowsAreOfOpened, EntryFills, Seen, AskedNow, Healthy,
         TypeOK
<1>2. EventsAreCurrent'
  BY DEF IInv, EventsAreCurrent, AskedAreMarked, EntryFills, Seen, TypeOK
<1> QED
  BY <1>1, <1>2 DEF IInv, TypeOK, AskedAreMarked, StepsHaveEvents, RowsAreOfOpened, SentIsNewest,
                    Event, EntryFills, Seen

(* The venue takes something away, or time passes. *)
LEMMA VenueTakesKeeps ==
  ASSUME IInv, NEW t \in Trades, PositionEnds(t) \/ StopVanishes(t) \/ Ages(t)
  PROVE  IInv'
  BY DEF IInv, TypeOK, AskedAreMarked, AskingIsSafe, EventsAreCurrent, StepsHaveEvents,
         RowsAreOfOpened, SentIsNewest, Event, AskedNow, Healthy, PositionEnds, StopVanishes, Ages

(* A check falls due. *)
LEMMA DeadlinePassesKeeps ==
  ASSUME IInv, NEW s \in Symbols, DeadlinePasses(s)
  PROVE  IInv'
  BY DEF IInv, TypeOK, AskedAreMarked, AskingIsSafe, EventsAreCurrent, StepsHaveEvents,
         RowsAreOfOpened, SentIsNewest, Event, AskedNow, Healthy, DeadlinePasses

(* The events of a poll say what the snapshot says. *)
LEMMA PollVenueKeeps ==
  ASSUME IInv, PollVenue
  PROVE  IInv'
<1>1. EventsAreCurrent'
  BY PolledEvents DEF IInv, EventsAreCurrent, PollVenue, TypeOK, Seen
<1> QED
  BY <1>1 DEF IInv, TypeOK, AskedAreMarked, AskingIsSafe, StepsHaveEvents, RowsAreOfOpened,
      SentIsNewest, Event, AskedNow, Healthy, PollVenue, Seen

(* The row goes to the newest trade of the symbol, which had no open row. *)
LEMMA PersistOpenKeeps ==
  ASSUME IInv, NEW s \in Symbols, PersistOpen(s)
  PROVE  IInv'
<1>1. RowsAreOfOpened'
  BY DEF IInv, RowsAreOfOpened, SentIsNewest, PersistOpen, Handling, Recordable, TypeOK
<1> QED
  BY <1>1 DEF IInv, TypeOK, AskedAreMarked, AskingIsSafe, EventsAreCurrent, StepsHaveEvents,
              SentIsNewest, Event, AskedNow, Healthy, PersistOpen, Handling, Recordable

(* An open nobody can be given. *)
LEMMA OpenNotRecordedKeeps ==
  ASSUME IInv, NEW s \in Symbols, OpenNotRecorded(s)
  PROVE  IInv'
  BY DEF IInv, TypeOK, AskedAreMarked, AskingIsSafe, EventsAreCurrent, StepsHaveEvents,
         RowsAreOfOpened, SentIsNewest, Event, AskedNow, Healthy, OpenNotRecorded, Handling,
         Recordable

(* The first check is scheduled. *)
LEMMA WatchOpenedKeeps ==
  ASSUME IInv, WatchOpened
  PROVE  IInv'
  BY DEF IInv, TypeOK, AskedAreMarked, AskingIsSafe, EventsAreCurrent, StepsHaveEvents,
         RowsAreOfOpened, SentIsNewest, Event, AskedNow, Healthy, WatchOpened,
         ScheduleBracketCheck

(* The invalid fill is the only open trade of its symbol. *)
LEMMA FlattenInvalidKeeps ==
  ASSUME IInv, FlattenInvalid
  PROVE  IInv'
<1>1. TypeOK'
  BY DEF IInv, TypeOK, StepsHaveEvents, FlattenInvalid, BeginFlatten, Event
<1>2. AskingIsSafe'
  BY DEF IInv, AskingIsSafe, AskedAreMarked, StepsHaveEvents, SentIsNewest, FlattenInvalid,
         BeginFlatten, AskedNow, Healthy, TypeOK
<1>3. StepsHaveEvents'
  BY DEF IInv, StepsHaveEvents, EventsAreCurrent, FlattenInvalid, BeginFlatten, TypeOK
<1> QED
  BY <1>1, <1>2, <1>3 DEF IInv, AskedAreMarked, EventsAreCurrent, RowsAreOfOpened, SentIsNewest,
                          FlattenInvalid, BeginFlatten, TypeOK

(* The row is closed; mark and check follow in the same iteration. *)
LEMMA PersistCloseKeeps ==
  ASSUME IInv, NEW s \in Symbols, PersistClose(s)
  PROVE  IInv'
  BY DEF IInv, TypeOK, AskedAreMarked, AskingIsSafe, EventsAreCurrent, StepsHaveEvents,
         RowsAreOfOpened, SentIsNewest, Event, AskedNow, Healthy, PersistClose, Handling,
         CloseRows

(* The mark is cleared: what it was for is gone. *)
LEMMA CloseHandledKeeps ==
  ASSUME IInv, CloseHandled
  PROVE  IInv'
<1>1. AskedAreMarked'
  BY DEF IInv, AskedAreMarked, TypeOK, EventsAreCurrent, StepsHaveEvents, CloseHandled,
         ForgetProtection
<1> QED
  BY <1>1 DEF IInv, TypeOK, AskingIsSafe, EventsAreCurrent, StepsHaveEvents, RowsAreOfOpened,
              SentIsNewest, Event, AskedNow, Healthy, CloseHandled, ForgetProtection

(* Whatever the venue answers, what was asked for stays marked. *)
LEMMA AskCloseKeeps ==
  ASSUME IInv, AskClose
  PROVE  IInv'
<1>1. TypeOK'
  BY DEF IInv, TypeOK, AskedNow, AskClose, Event
<1>2. AskedAreMarked'
  BY DEF IInv, AskedAreMarked, TypeOK, AskingIsSafe, AskedNow, AskClose
<1>3. EventsAreCurrent'
  BY DEF IInv, EventsAreCurrent, StepsHaveEvents, AskedNow, AskClose, TypeOK
<1> QED
  BY <1>1, <1>2, <1>3 DEF IInv, AskingIsSafe, StepsHaveEvents, RowsAreOfOpened, SentIsNewest,
                          AskedNow, Healthy, AskClose, TypeOK

(* A check that does not apply. *)
LEMMA VerifySkipsKeeps ==
  ASSUME IInv, NEW s \in Symbols, VerifySkips(s)
  PROVE  IInv'
  BY DEF IInv, TypeOK, AskedAreMarked, AskingIsSafe, EventsAreCurrent, StepsHaveEvents,
         RowsAreOfOpened, SentIsNewest, Event, AskedNow, Healthy, VerifySkips, Checking

(* A stop that is there. *)
LEMMA VerifyPassesKeeps ==
  ASSUME IInv, NEW s \in Symbols, VerifyPasses(s)
  PROVE  IInv'
  BY DEF IInv, TypeOK, AskedAreMarked, AskingIsSafe, EventsAreCurrent, StepsHaveEvents,
         RowsAreOfOpened, SentIsNewest, Event, AskedNow, Healthy, VerifyPasses, Checking

(* No stop: what is asked for is not healthy, and was not asked for before. *)
LEMMA VerifyFlattensKeeps ==
  ASSUME IInv, NEW s \in Symbols, VerifyFlattens(s)
  PROVE  IInv'
<1>1. AskingIsSafe'
  BY DEF IInv, AskingIsSafe, AskedAreMarked, VerifyFlattens, Checking, BeginFlatten, Protected,
         AskedNow, Healthy, TypeOK
<1> QED
  BY <1>1 DEF IInv, TypeOK, AskedAreMarked, EventsAreCurrent, StepsHaveEvents, RowsAreOfOpened,
              SentIsNewest, Event, VerifyFlattens, Checking, BeginFlatten, Protected

(* The old row is the only open one of its symbol. *)
LEMMA TimeStopKeeps ==
  ASSUME IInv, NEW s \in Symbols, TimeStop(s)
  PROVE  IInv'
<1>1. AskingIsSafe'
  BY DEF IInv, AskingIsSafe, AskedAreMarked, RowsAreOfOpened, TimeStop, Checking, Overdue,
         AskedNow, Healthy, TypeOK
<1> QED
  BY <1>1 DEF IInv, TypeOK, AskedAreMarked, EventsAreCurrent, StepsHaveEvents, RowsAreOfOpened,
              SentIsNewest, Event, TimeStop, Checking, Overdue

(* The iteration moves on. *)
LEMMA LoopMovesOnKeeps ==
  ASSUME IInv, EventsHandled \/ Verified \/ HoldChecked \/ ReconcileAgrees \/ ReconcileHalts
  PROVE  IInv'
  BY DEF IInv, TypeOK, AskedAreMarked, AskingIsSafe, EventsAreCurrent, StepsHaveEvents,
         RowsAreOfOpened, SentIsNewest, Event, AskedNow, Healthy, EventsHandled, Verified,
         RowSymbols, HoldChecked, ReconcileAgrees, ReconcileHalts

(* A position young enough, or marked already. *)
LEMMA HoldSkipsKeeps ==
  ASSUME IInv, NEW s \in Symbols, HoldSkips(s)
  PROVE  IInv'
  BY DEF IInv, TypeOK, AskedAreMarked, AskingIsSafe, EventsAreCurrent, StepsHaveEvents,
         RowsAreOfOpened, SentIsNewest, Event, AskedNow, Healthy, HoldSkips, Checking

(* The second read replaces the cache. *)
LEMMA PrimeKeeps ==
  ASSUME IInv, Prime
  PROVE  IInv'
  BY DEF IInv, TypeOK, AskedAreMarked, AskingIsSafe, EventsAreCurrent, StepsHaveEvents,
         RowsAreOfOpened, SentIsNewest, Event, AskedNow, Healthy, Prime, Seen

(* The rest of the iteration is lost. *)
LEMMA IterationRaisesKeeps ==
  ASSUME IInv, IterationRaises
  PROVE  IInv'
  BY DEF IInv, TypeOK, AskedAreMarked, AskingIsSafe, EventsAreCurrent, StepsHaveEvents,
         RowsAreOfOpened, SentIsNewest, Event, AskedNow, Healthy, IterationRaises, InHand

(* Memory is lost. *)
LEMMA CrashKeeps ==
  ASSUME IInv, Crash
  PROVE  IInv'
  BY DEF IInv, TypeOK, AskedAreMarked, AskingIsSafe, EventsAreCurrent, StepsHaveEvents,
         RowsAreOfOpened, SentIsNewest, Event, AskedNow, Healthy, Crash

(* Recovery closes rows; the process is down. *)
LEMMA RecordVanishedKeeps ==
  ASSUME IInv, RecordVanished
  PROVE  IInv'
  BY DEF IInv, TypeOK, AskedAreMarked, AskingIsSafe, EventsAreCurrent, StepsHaveEvents,
         RowsAreOfOpened, SentIsNewest, Event, AskedNow, Healthy, RecordVanished, CloseRows,
         Vanished

(* Recovery moves on, or is tried again. *)
LEMMA RecoveryMovesOnKeeps ==
  ASSUME IInv, RecoverAgrees \/ RecoverRefused
  PROVE  IInv'
  BY DEF IInv, TypeOK, AskedAreMarked, AskingIsSafe, EventsAreCurrent, StepsHaveEvents,
         RowsAreOfOpened, SentIsNewest, Event, AskedNow, Healthy, RecoverAgrees, RecoverRefused

(* Recovery schedules a check for every row. *)
LEMMA RecoverPrimesKeeps ==
  ASSUME IInv, RecoverPrimes
  PROVE  IInv'
  BY DEF IInv, TypeOK, AskedAreMarked, AskingIsSafe, EventsAreCurrent, StepsHaveEvents,
         RowsAreOfOpened, SentIsNewest, Event, AskedNow, Healthy, RecoverPrimes, Seen, RowSymbols

(***************************************************************************)
(* IInv is inductive.                                                      *)
(***************************************************************************)
THEOREM Inductive == Spec => []IInv
<1>1. ASSUME IInv, [Next]_vars PROVE IInv'
  <2>1. CASE UNCHANGED vars
    BY <1>1, <2>1
    DEF vars, IInv, TypeOK, AskedAreMarked, AskingIsSafe, EventsAreCurrent, StepsHaveEvents,
        RowsAreOfOpened, SentIsNewest, AskedNow, Healthy
  <2>2. CASE Venue
    BY <1>1, <2>2, EntryFillsKeeps, VenueTakesKeeps, DeadlinePassesKeeps DEF Venue
  <2>3. CASE Handlers
    BY <1>1, <2>3, PersistOpenKeeps, OpenNotRecordedKeeps, PersistCloseKeeps, WatchOpenedKeeps,
       FlattenInvalidKeeps, CloseHandledKeeps, LoopMovesOnKeeps DEF Handlers
  <2>4. CASE Checks
    BY <1>1, <2>4, VerifySkipsKeeps, VerifyPassesKeeps, VerifyFlattensKeeps, TimeStopKeeps,
       HoldSkipsKeeps, LoopMovesOnKeeps, AskCloseKeeps DEF Checks
  <2>5. CASE Recover
    BY <1>1, <2>5, RecordVanishedKeeps, RecoveryMovesOnKeeps, RecoverPrimesKeeps DEF Recover
  <2> QED
    BY <1>1, <2>1, <2>2, <2>3, <2>4, <2>5, PollVenueKeeps, PrimeKeeps, LoopMovesOnKeeps,
       IterationRaisesKeeps, CrashKeeps DEF Next, PollLoop
<1> QED
  BY <1>1, InitIInv, PTL DEF Spec

(***************************************************************************)
(* The variables keep their types.                                         *)
(***************************************************************************)
THEOREM TypesHold == Spec => []TypeOK
<1>1. IInv => TypeOK
  BY DEF IInv
<1> QED
  BY <1>1, Inductive, PTL

(***************************************************************************)
(* One process asks for the safety close of one position once, whatever    *)
(* fails around it: the mark outlives every open position it was set for.  *)
(***************************************************************************)
THEOREM ClosesAreAskedOnce == Spec => []AskedOnce
<1>1. IInv => AskedOnce
  BY DEF IInv, AskingIsSafe, AskedOnce
<1> QED
  BY <1>1, Inductive, PTL

(***************************************************************************)
(* No recorded position that is protected, valid and young is ever asked   *)
(* to close, whatever happens between the check and the order.             *)
(***************************************************************************)
THEOREM HealthyRowsAreKept == Spec => []HealthyRowNotClosed
<1>1. IInv => HealthyRowNotClosed
  BY DEF IInv, AskingIsSafe, HealthyRowNotClosed
<1> QED
  BY <1>1, Inductive, PTL

-----------------------------------------------------------------------------
(* What holds of the symbols no exception has struck *)

\* A process that does not run remembers nothing.
DownIsIdle ==
  mode # "running" =>
    mark = {} /\ events = {} /\ step = Idle /\ \A s \in Symbols : due[s] = "none"

\* What has a row and is open is in the cache.
RecordedIsCached ==
  /\ mode = "running" => \A t \in Open : row[t] # None => SymbolOf[t] \in cache
  /\ \A s \in Symbols : Opened(s) \in events => s \in cache

\* A mark, or a check that is scheduled, goes with an open row, but for a
\* close that is just being handled or was struck.
Ending(s) == step.at = "closing" /\ step.sym = s

MarkNeedsRow ==
  /\ \A s \in Symbols :
       (due[s] # "none" \/ s \in mark) /\ ~Ending(s) /\ s \notin struck => On(s) \cap OpenRows # {}
  /\ step.at = "opened" => On(step.sym) \cap OpenRows # {}

\* A recorded position is watched, was asked for, or is just being dealt
\* with; a mark on its symbol is its own.
RecordedIsCovered ==
  mode = "running" => \A t \in Open \cap OpenRows : SymbolOf[t] \notin struck =>
    /\ \/ Watched(t)
       \/ step.at \in {"opened", "asking"} /\ step.sym = SymbolOf[t]
    /\ SymbolOf[t] \in mark =>
         t \in asked \/ (step.at = "asking" /\ step.sym = SymbolOf[t])

\* A close waiting to be handled concerns no recorded position.
ClosesHaveNoRow ==
  \A s \in Symbols : Closed(s) \in events => On(s) \cap Open \cap OpenRows = {}

WatchInv ==
  /\ DownIsIdle
  /\ RecordedIsCached
  /\ MarkNeedsRow
  /\ RecordedIsCovered
  /\ ClosesHaveNoRow

(* A process that is down, and no event. *)
LEMMA InitWatchInv == Init => WatchInv
  BY DEF Init, WatchInv, DownIsIdle, RecordedIsCached, MarkNeedsRow, RecordedIsCovered,
      ClosesHaveNoRow

(* An entry fills: the new trade is unborn, hence without row and never asked for. *)
LEMMA EntryFillsWatches ==
  ASSUME IInv, WatchInv, NEW t \in Trades, EntryFills(t)
  PROVE  WatchInv'
<1>1. RecordedIsCached'
  BY DEF IInv, WatchInv, RecordedIsCached, RowsAreOfOpened, EntryFills, Seen, TypeOK
<1>2. RecordedIsCovered'
  BY DEF IInv, WatchInv, RecordedIsCovered, RowsAreOfOpened, EntryFills, Seen, Watched, TypeOK
<1>3. ClosesHaveNoRow'
  BY DEF IInv, WatchInv, ClosesHaveNoRow, RowsAreOfOpened, EntryFills, Seen, TypeOK
<1> QED
  BY <1>1, <1>2, <1>3 DEF IInv, WatchInv, DownIsIdle, MarkNeedsRow, Ending, EntryFills, Seen,
                          TypeOK

(* The venue takes something away, or time passes. *)
LEMMA VenueTakesWatches ==
  ASSUME IInv, WatchInv, NEW t \in Trades, PositionEnds(t) \/ StopVanishes(t) \/ Ages(t)
  PROVE  WatchInv'
  BY DEF IInv, WatchInv, DownIsIdle, RecordedIsCached, MarkNeedsRow, RecordedIsCovered,
         ClosesHaveNoRow, Ending, Watched, PositionEnds, StopVanishes, Ages, TypeOK

(* A check falls due. *)
LEMMA DeadlinePassesWatches ==
  ASSUME IInv, WatchInv, NEW s \in Symbols, DeadlinePasses(s)
  PROVE  WatchInv'
  BY DEF IInv, WatchInv, DownIsIdle, RecordedIsCached, MarkNeedsRow, RecordedIsCovered,
         ClosesHaveNoRow, Ending, Watched, DeadlinePasses, TypeOK

(* The events of a poll say what the snapshot says. *)
LEMMA PollVenueWatches ==
  ASSUME IInv, WatchInv, PollVenue
  PROVE  WatchInv'
<1>1. RecordedIsCached'
  BY PolledEvents DEF IInv, TypeOK, RecordedIsCached, PollVenue, Seen
<1>2. ClosesHaveNoRow'
  BY PolledEvents DEF IInv, TypeOK, ClosesHaveNoRow, PollVenue, Seen
<1> QED
  BY <1>1, <1>2
  DEF IInv, TypeOK, WatchInv, DownIsIdle, MarkNeedsRow, RecordedIsCovered, Ending, Watched, PollVenue

(* The row goes to the newest trade of the symbol, which had no open row. *)
LEMMA PersistOpenWatches ==
  ASSUME IInv, WatchInv, NEW s \in Symbols, PersistOpen(s)
  PROVE  WatchInv'
<1>1. RecordedIsCached'
  BY DEF IInv, WatchInv, RecordedIsCached, SentIsNewest, PersistOpen, Handling, Recordable, TypeOK
<1>2. MarkNeedsRow'
  BY DEF IInv, WatchInv, MarkNeedsRow, TypeOK, SentIsNewest, PersistOpen, Handling, Recordable,
         Ending
<1>3. RecordedIsCovered'
  BY DEF IInv, WatchInv, RecordedIsCovered, SentIsNewest, MarkNeedsRow, Ending, PersistOpen,
         Handling, Recordable, Watched, TypeOK
<1>4. ClosesHaveNoRow'
  BY DEF IInv, WatchInv, ClosesHaveNoRow, EventsAreCurrent, SentIsNewest, PersistOpen, Handling,
         Recordable, TypeOK
<1> QED
  BY <1>1, <1>2, <1>3, <1>4 DEF IInv, WatchInv, DownIsIdle, PersistOpen, Handling, Recordable,
                                TypeOK

(* An open nobody can be given. *)
LEMMA OpenNotRecordedWatches ==
  ASSUME IInv, WatchInv, NEW s \in Symbols, OpenNotRecorded(s)
  PROVE  WatchInv'
  BY DEF IInv, WatchInv, DownIsIdle, RecordedIsCached, MarkNeedsRow, RecordedIsCovered,
         ClosesHaveNoRow, Ending, Watched, OpenNotRecorded, Handling, Recordable, TypeOK

(* The first check is scheduled. *)
LEMMA WatchOpenedWatches ==
  ASSUME IInv, WatchInv, WatchOpened
  PROVE  WatchInv'
  BY DEF IInv, WatchInv, DownIsIdle, RecordedIsCached, MarkNeedsRow, RecordedIsCovered,
         ClosesHaveNoRow, Ending, Watched, WatchOpened, ScheduleBracketCheck, TypeOK

(* The invalid fill is the only open trade of its symbol. *)
LEMMA FlattenInvalidWatches ==
  ASSUME IInv, WatchInv, FlattenInvalid
  PROVE  WatchInv'
  BY DEF IInv, WatchInv, DownIsIdle, RecordedIsCached, MarkNeedsRow, RecordedIsCovered,
         ClosesHaveNoRow, Ending, Watched, FlattenInvalid, BeginFlatten, TypeOK

(* The row is closed; mark and check follow in the same iteration. *)
LEMMA PersistCloseWatches ==
  ASSUME IInv, WatchInv, NEW s \in Symbols, PersistClose(s)
  PROVE  WatchInv'
  BY DEF IInv, WatchInv, DownIsIdle, RecordedIsCached, MarkNeedsRow, RecordedIsCovered,
         ClosesHaveNoRow, Ending, Watched, PersistClose, Handling, CloseRows, TypeOK

(* The mark is cleared: what it was for is gone. *)
LEMMA CloseHandledWatches ==
  ASSUME IInv, WatchInv, CloseHandled
  PROVE  WatchInv'
<1>1. RecordedIsCovered'
  BY DEF IInv, WatchInv, RecordedIsCovered, StepsHaveEvents, ClosesHaveNoRow, CloseHandled,
         ForgetProtection, Watched, TypeOK
<1> QED
  BY <1>1 DEF IInv, WatchInv, DownIsIdle, RecordedIsCached, MarkNeedsRow, ClosesHaveNoRow, Ending,
              CloseHandled, ForgetProtection, TypeOK

(* Whatever the venue answers, what was asked for stays marked. *)
LEMMA AskCloseWatches ==
  ASSUME IInv, WatchInv, AskClose
  PROVE  WatchInv'
<1>1. RecordedIsCovered'
  BY DEF IInv, WatchInv, RecordedIsCovered, AskedNow, AskClose, Watched, TypeOK
<1> QED
  BY <1>1 DEF IInv, WatchInv, DownIsIdle, RecordedIsCached, MarkNeedsRow, ClosesHaveNoRow, Ending,
              AskClose, TypeOK

(* A check that does not apply. *)
LEMMA VerifySkipsWatches ==
  ASSUME IInv, WatchInv, NEW s \in Symbols, VerifySkips(s)
  PROVE  WatchInv'
<1>1. RecordedIsCovered'
  BY DEF IInv, WatchInv, RecordedIsCovered, TypeOK, RecordedIsCached, VerifySkips, Checking,
         Watched
<1> QED
  BY <1>1 DEF IInv, WatchInv, DownIsIdle, RecordedIsCached, MarkNeedsRow, ClosesHaveNoRow, Ending,
              VerifySkips, Checking, TypeOK

(* A stop that is there. *)
LEMMA VerifyPassesWatches ==
  ASSUME IInv, WatchInv, NEW s \in Symbols, VerifyPasses(s)
  PROVE  WatchInv'
  BY DEF IInv, WatchInv, DownIsIdle, RecordedIsCached, MarkNeedsRow, RecordedIsCovered,
         ClosesHaveNoRow, Ending, Watched, VerifyPasses, Checking, TypeOK

(* No stop: what is asked for is not healthy, and was not asked for before. *)
LEMMA VerifyFlattensWatches ==
  ASSUME IInv, WatchInv, NEW s \in Symbols, VerifyFlattens(s)
  PROVE  WatchInv'
  BY DEF IInv, WatchInv, DownIsIdle, RecordedIsCached, MarkNeedsRow, RecordedIsCovered,
         ClosesHaveNoRow, Ending, Watched, VerifyFlattens, Checking, BeginFlatten, Protected,
         TypeOK

(* The old row is the only open one of its symbol. *)
LEMMA TimeStopWatches ==
  ASSUME IInv, WatchInv, NEW s \in Symbols, TimeStop(s)
  PROVE  WatchInv'
  BY DEF IInv, WatchInv, DownIsIdle, RecordedIsCached, MarkNeedsRow, RecordedIsCovered,
         ClosesHaveNoRow, Ending, Watched, TimeStop, Checking, Overdue, TypeOK

(* The iteration moves on. *)
LEMMA LoopMovesOnWatches ==
  ASSUME IInv, WatchInv, EventsHandled \/ Verified \/ HoldChecked \/ ReconcileAgrees \/ ReconcileHalts
  PROVE  WatchInv'
  BY DEF IInv, WatchInv, DownIsIdle, RecordedIsCached, MarkNeedsRow, RecordedIsCovered,
         ClosesHaveNoRow, Ending, Watched, EventsHandled, Verified, RowSymbols, HoldChecked,
         ReconcileAgrees, ReconcileHalts, TypeOK

(* A position young enough, or marked already. *)
LEMMA HoldSkipsWatches ==
  ASSUME IInv, WatchInv, NEW s \in Symbols, HoldSkips(s)
  PROVE  WatchInv'
  BY DEF IInv, WatchInv, DownIsIdle, RecordedIsCached, MarkNeedsRow, RecordedIsCovered,
         ClosesHaveNoRow, Ending, Watched, HoldSkips, Checking, TypeOK

(* The second read replaces the cache. *)
LEMMA PrimeWatches ==
  ASSUME IInv, WatchInv, Prime
  PROVE  WatchInv'
<1>1. RecordedIsCached'
  BY DEF IInv, WatchInv, RecordedIsCached, StepsHaveEvents, Prime, Seen, TypeOK
<1> QED
  BY <1>1 DEF IInv, WatchInv, DownIsIdle, MarkNeedsRow, RecordedIsCovered, ClosesHaveNoRow,
              Ending, Watched, Prime, Seen, TypeOK

(* Memory is lost. *)
LEMMA CrashWatches ==
  ASSUME IInv, WatchInv, Crash
  PROVE  WatchInv'
  BY DEF IInv, WatchInv, DownIsIdle, RecordedIsCached, MarkNeedsRow, RecordedIsCovered,
         ClosesHaveNoRow, Ending, Watched, Crash, TypeOK

(* Recovery closes rows; the process is down. *)
LEMMA RecordVanishedWatches ==
  ASSUME IInv, WatchInv, RecordVanished
  PROVE  WatchInv'
<1>1. MarkNeedsRow'
  BY DEF IInv, WatchInv, MarkNeedsRow, DownIsIdle, RecordVanished, CloseRows, Vanished, Ending,
         TypeOK
<1> QED
  BY <1>1 DEF IInv, WatchInv, DownIsIdle, RecordedIsCached, RecordedIsCovered, ClosesHaveNoRow,
              Watched, RecordVanished, CloseRows, Vanished, TypeOK

(* Recovery moves on, or is tried again. *)
LEMMA RecoveryMovesOnWatches ==
  ASSUME IInv, WatchInv, RecoverAgrees \/ RecoverRefused
  PROVE  WatchInv'
  BY DEF IInv, WatchInv, DownIsIdle, RecordedIsCached, MarkNeedsRow, RecordedIsCovered,
         ClosesHaveNoRow, Ending, Watched, RecoverAgrees, RecoverRefused, TypeOK

(* Recovery schedules a check for every row. *)
LEMMA RecoverPrimesWatches ==
  ASSUME IInv, WatchInv, RecoverPrimes
  PROVE  WatchInv'
<1>1. RecordedIsCached'
  BY DEF IInv, WatchInv, RecordedIsCached, DownIsIdle, RecoverPrimes, Seen, RowSymbols, TypeOK
<1>2. RecordedIsCovered'
  BY DEF IInv, WatchInv, RecordedIsCovered, DownIsIdle, RecoverPrimes, Seen, RowSymbols, Watched,
         TypeOK
<1> QED
  BY <1>1, <1>2 DEF IInv, WatchInv, DownIsIdle, MarkNeedsRow, ClosesHaveNoRow, Ending,
                    RecoverPrimes, Seen, RowSymbols, TypeOK

(* A handler raises: what it held is struck, what it had not begun is not. *)
LEMMA IterationRaisesWatches ==
  ASSUME IInv, WatchInv, IterationRaises
  PROVE  WatchInv'
<1>1. /\ UNCHANGED <<venueVars, row, mode, sent, cache, mark, due, asked>>
      /\ mode = "running" /\ events' = {} /\ step' = Idle
      /\ struck' = struck \cup InHand
  BY DEF IterationRaises
<1>2. \A s \in Symbols : s \notin struck' => s \notin struck /\ step.sym # s
  BY <1>1, NoneAssumption DEF InHand
<1>3. RecordedIsCached'
  BY <1>1 DEF WatchInv, RecordedIsCached, venueVars
<1>4. MarkNeedsRow'
  BY <1>1, <1>2 DEF WatchInv, MarkNeedsRow, Ending, Idle, Pass, At
<1>5. RecordedIsCovered'
  BY <1>1, <1>2 DEF IInv, TypeOK, WatchInv, RecordedIsCovered, Watched, venueVars
<1>6. DownIsIdle' /\ ClosesHaveNoRow'
  BY <1>1 DEF DownIsIdle, ClosesHaveNoRow
<1> QED
  BY <1>3, <1>4, <1>5, <1>6 DEF WatchInv

(***************************************************************************)
(* WatchInv is inductive, whatever raises.                                 *)
(***************************************************************************)
THEOREM InductiveWatch == Spec => []WatchInv
<1>1. ASSUME IInv, WatchInv, [Next]_vars PROVE WatchInv'
  <2>1. CASE UNCHANGED vars
    BY <1>1, <2>1
    DEF vars, WatchInv, DownIsIdle, RecordedIsCached, MarkNeedsRow, RecordedIsCovered,
        ClosesHaveNoRow, Ending, Watched
  <2>2. CASE Venue
    BY <1>1, <2>2, EntryFillsWatches, VenueTakesWatches, DeadlinePassesWatches DEF Venue
  <2>3. CASE Handlers
    BY <1>1, <2>3, PersistOpenWatches, OpenNotRecordedWatches, PersistCloseWatches,
       WatchOpenedWatches, FlattenInvalidWatches, CloseHandledWatches, LoopMovesOnWatches
    DEF Handlers
  <2>4. CASE Checks
    BY <1>1, <2>4, VerifySkipsWatches, VerifyPassesWatches, VerifyFlattensWatches,
       TimeStopWatches, HoldSkipsWatches, LoopMovesOnWatches, AskCloseWatches DEF Checks
  <2>5. CASE Recover
    BY <1>1, <2>5, RecordVanishedWatches, RecoveryMovesOnWatches, RecoverPrimesWatches DEF Recover
  <2> QED
    BY <1>1, <2>1, <2>2, <2>3, <2>4, <2>5, PollVenueWatches, PrimeWatches,
       LoopMovesOnWatches, CrashWatches, IterationRaisesWatches DEF Next, PollLoop
<1> QED
  BY <1>1, InitWatchInv, Inductive, PTL DEF Spec

(***************************************************************************)
(* Whenever the poll loop rests, every recorded position is scheduled for  *)
(* its bracket check or was asked to close; an exception can only take it  *)
(* from the symbol it struck, and only until that symbol's next close.     *)
(***************************************************************************)
THEOREM RecordedStayWatched == Spec => []WatchedOrAsked
<1>1. WatchInv => WatchedOrAsked
  BY DEF WatchInv, RecordedIsCovered, WatchedOrAsked, Recorded, Running
<1> QED
  BY <1>1, InductiveWatch, PTL

(***************************************************************************)
(* A mark is never left for a later position of a symbol that was not      *)
(* struck.                                                                 *)
(***************************************************************************)
THEOREM MarksAreFresh == Spec => []MarkIsForThisPosition
<1>1. WatchInv => MarkIsForThisPosition
  BY DEF WatchInv, RecordedIsCovered, MarkIsForThisPosition, Recorded, Running
<1> QED
  BY <1>1, InductiveWatch, PTL

=============================================================================

---------------------------- MODULE MarketArchive ----------------------------
(***************************************************************************)
(* The forward-recorded market data (deltabt/data): two recorders that     *)
(* merge each batch into the daily partition of its dataset and then       *)
(* describe it in a manifest, the manifests written by hand, and the       *)
(* backup that verifies and copies all of it while the recorders run.      *)
(* Every read and every os.replace of a file is a step; a process may die  *)
(* between any two.  A partition is its set of observations, and a hash of *)
(* it is the partition itself.                                             *)
(***************************************************************************)
EXTENDS Integers, Sequences, FiniteSets, FiniteSetsExt, SequencesExt

CONSTANTS
  Processes,    \* recorder processes that may run at one time
  Writes,       \* the datasets record_once of each recorder commits, in order
  DayLength,    \* minutes of a UTC day
  LookBack,     \* CANDLE_LOOKBACK_SECONDS, in minutes
  FirstMinute, MaxMinute,  \* bound: the clock
  MaxPolls,     \* bound: polls, failed ones included
  MaxTrouble    \* bound: deaths, failed writes, --once runs, edits, and manifests
                \* or copies made by hand that are not part of a recorder's poll

ASSUME ClockAssumption ==
  /\ DayLength \in Nat \ {0} /\ FirstMinute \in 0..MaxMinute
  /\ {LookBack, MaxMinute, MaxPolls, MaxTrouble} \subseteq Nat

Datasets == {"options", "perp_quotes", "perp_candles"}
InOrder == <<"options", "perp_quotes", "perp_candles">>
Kinds == {"quote", "perp"}

ASSUME WritesAssumption ==
  /\ Writes \in [Kinds -> Seq(Datasets) \ {<<>>}]
  /\ ToSet(Writes["quote"]) \cap ToSet(Writes["perp"]) = {}

Minutes == 0..MaxMinute
Day(m) == m \div DayLength
Days == {Day(m) : m \in Minutes}

VARIABLES
  \* data/, out/manifests/ and data/checkpoints/
  part,       \* the partition of each dataset and day
  man,        \* its manifest
  check,      \* the checkpoint of each dataset of the perpetuals
  \* processes
  proc,       \* the recorders
  hand,       \* the audit's refresh or an operator's rebuild
  copy,       \* the backup
  \* the world and its history
  minute, polls, trouble,
  undescribed, \* partitions whose last change was made or left behind without a manifest
  audited,    \* of these, the ones the audit described since
  moved,      \* partitions and manifests replaced since the backup began
  raced       \* a --once run was at work beside another recorder of its kind

files == <<part, man, check>>
bounds == <<polls, trouble>>
history == <<undescribed, audited, moved, raced>>
vars == <<files, proc, hand, copy, minute, bounds, history>>

-----------------------------------------------------------------------------
(* Files *)

Row == [time : Minutes, got : Minutes]
File == [rows : SUBSET Row, edit : 0..MaxTrouble]    \* edit: the last alteration of it
Missing == [rows |-> {}, edit |-> 0]
Provenance == {"none", "recorder", "rebuilt"}
Manifest == [sum : File, by : Provenance]
NoManifest == [sum |-> Missing, by |-> "none"]

Slots == Datasets \X Days
Part(s) == part[s[1]][s[2]]
Man(s) == man[s[1]][s[2]]
Exists(s) == Part(s) # Missing
Described(s) == Man(s).by # "none" /\ Man(s).sum = Part(s)
Times(rows) == {r.time : r \in rows}

\* drop_duplicates(keep="last") on the time of the observation.
Merged(file, rows) ==
  [file EXCEPT !.rows = {r \in @ : r.time \notin Times(rows)} \cup rows]

OfDay(rows, d) == {r \in rows : Day(r.time) = d}
DaysOf(rows) == {Day(r.time) : r \in rows}

-----------------------------------------------------------------------------
(* Recorders *)

Process ==
  [ at    : {"off", "idle", "fetch", "append", "replace", "describe", "manifest",
             "checkpoint"},
    kind  : Kinds,
    once  : BOOLEAN,                  \* --once: one poll, without the lock
    step  : Nat,                      \* dataset of Writes in work
    batch : SUBSET Row,
    todo  : SUBSET Days,              \* days still to append, then to describe
    held  : File ]                    \* merged, or as the manifest will describe it

Off == [at |-> "off", kind |-> "perp", once |-> FALSE, step |-> 1, batch |-> {},
        todo |-> {}, held |-> Missing]
Idle(p) == [Off EXCEPT !.at = "idle", !.kind = proc[p].kind]
Rest(p) == IF proc[p].once THEN Off ELSE Idle(p)

Dataset(p) == Writes[proc[p].kind][proc[p].step]
Today(p) == Min(proc[p].todo)
Slot(p) == <<Dataset(p), Today(p)>>
Busy(p) == proc[p].at \notin {"off", "idle"}
Set(p, r) == proc' = [proc EXCEPT ![p] = r]

\* Days this poll has appended to and not described yet.
Owed(p) ==
  CASE proc[p].at \in {"append", "replace"} -> DaysOf(proc[p].batch) \ proc[p].todo
    [] proc[p].at \in {"describe", "manifest"} -> proc[p].todo
    [] OTHER -> {}
OwedSlots(p) == {s \in {Dataset(p)} \X Owed(p) : ~Described(s)}

Trouble == trouble < MaxTrouble /\ trouble' = trouble + 1

\* A partition or manifest was replaced: a backup under way may hold either side.
Moves(s) == moved' = IF copy.at = "idle" THEN {} ELSE moved \cup {s}

\* Fault variant: no lock.
NeverLocked(k) == FALSE

\* single_instance: flock on the recorder's name.
Locked(k) == \E q \in Processes : proc[q].at # "off" /\ proc[q].kind = k /\ ~proc[q].once

Start(p, k) ==
  /\ proc[p].at = "off" /\ ~Locked(k)
  /\ Set(p, [Off EXCEPT !.at = "idle", !.kind = k])
  /\ UNCHANGED <<files, hand, copy, minute, bounds, history>>

\* main() with --once calls record_once outside the lock.
StartOnce(p, k) ==
  /\ proc[p].at = "off" /\ Trouble
  /\ Set(p, [Off EXCEPT !.at = "idle", !.kind = k, !.once = TRUE])
  /\ UNCHANGED <<files, hand, copy, minute, polls, history>>

\* Fault variant: the look-back is not cut at what the venue has.
BatchUncut(ds, now) ==
  IF ds = "perp_candles" THEN {[time |-> now - n, got |-> now] : n \in 1..LookBack}
  ELSE {[time |-> now, got |-> now]}

\* A snapshot carries the instant of the poll; the candles are the closed bars of
\* the look-back, whatever day they opened on.
Batch(ds, now) ==
  IF ds = "perp_candles"
  THEN {[time |-> m, got |-> now] : m \in {n \in Minutes : now - LookBack <= n /\ n < now}}
  ELSE {[time |-> now, got |-> now]}

\* run() of the perpetuals notes a failed poll in both checkpoints.
GivenUp(p) ==
  /\ Set(p, Rest(p))
  /\ check' = IF proc[p].kind = "perp" /\ ~proc[p].once
              THEN [ds \in Datasets |-> [check[ds] EXCEPT !.error = (@ \/ ds # "options")]]
              ELSE check

\* record_once begins.
Poll(p) ==
  /\ proc[p].at = "idle" /\ polls < MaxPolls
  /\ polls' = polls + 1
  /\ Set(p, [proc[p] EXCEPT !.at = "fetch"])
  /\ raced' = (raced \/ \E q \in Processes \ {p} :
                         Busy(q) /\ proc[q].kind = proc[p].kind /\ (proc[p].once \/ proc[q].once))
  /\ UNCHANGED <<files, hand, copy, minute, trouble, undescribed, audited, moved>>

Fetch(p) ==
  /\ proc[p].at = "fetch"
  /\ LET rows == Batch(Dataset(p), minute)
     IN IF rows = {} THEN GivenUp(p)
        ELSE /\ Set(p, [proc[p] EXCEPT !.at = "append", !.batch = rows, !.todo = DaysOf(rows)])
             /\ UNCHANGED check
  /\ UNCHANGED <<part, man, hand, copy, minute, bounds, history>>

\* append_partition, day by day: the partition is read and merged ...
ReadPartition(p) ==
  /\ proc[p].at = "append"
  /\ Set(p, [proc[p] EXCEPT !.at = "replace",
                            !.held = Merged(Part(Slot(p)), OfDay(proc[p].batch, Today(p)))])
  /\ UNCHANGED <<files, hand, copy, minute, bounds, history>>

\* Fault variant: only the day append_partition returned is described.
AppendedLast(p) ==
  LET rest == proc[p].todo \ {Today(p)}
  IN IF rest # {}
     THEN [proc[p] EXCEPT !.at = "append", !.todo = rest, !.held = Missing]
     ELSE [proc[p] EXCEPT !.at = "describe", !.todo = {Today(p)}, !.held = Missing]

\* ... and replaced.  Every day of the batch is described afterwards.
Appended(p) ==
  LET rest == proc[p].todo \ {Today(p)}
  IN IF rest # {}
     THEN [proc[p] EXCEPT !.at = "append", !.todo = rest, !.held = Missing]
     ELSE [proc[p] EXCEPT !.at = "describe", !.todo = DaysOf(proc[p].batch), !.held = Missing]

ReplacePartition(p) ==
  /\ proc[p].at = "replace"
  /\ part' = [part EXCEPT ![Dataset(p)][Today(p)] = proc[p].held]
  /\ Set(p, Appended(p))
  /\ undescribed' = undescribed \ {Slot(p)}
  /\ Moves(Slot(p))
  /\ UNCHANGED <<man, check, hand, copy, minute, bounds, audited, raced>>

\* build_manifest reads and hashes the partition as it stands.
Describe(p) ==
  /\ proc[p].at = "describe"
  /\ Set(p, [proc[p] EXCEPT !.at = "manifest", !.held = Part(Slot(p))])
  /\ UNCHANGED <<files, hand, copy, minute, bounds, history>>

\* Only the perpetuals keep a checkpoint.
AllDescribed(p) == IF proc[p].kind = "quote" THEN Rest(p)
                   ELSE [proc[p] EXCEPT !.at = "checkpoint", !.todo = {}, !.held = Missing]

WriteManifest(p) ==
  /\ proc[p].at = "manifest"
  /\ man' = [man EXCEPT ![Dataset(p)][Today(p)] = [sum |-> proc[p].held, by |-> "recorder"]]
  /\ LET rest == proc[p].todo \ {Today(p)}
     IN Set(p, IF rest = {} THEN AllDescribed(p)
               ELSE [proc[p] EXCEPT !.at = "describe", !.todo = rest, !.held = Missing])
  /\ undescribed' = IF proc[p].held = Part(Slot(p)) THEN undescribed \ {Slot(p)} ELSE undescribed
  /\ audited' = audited \ {Slot(p)}
  /\ Moves(Slot(p))
  /\ UNCHANGED <<part, check, hand, copy, minute, bounds, raced>>

Newest(rows) == Max(Times(rows))

WriteCheckpoint(p) ==
  /\ proc[p].at = "checkpoint"
  /\ check' = [check EXCEPT ![Dataset(p)] =
                 [last |-> Newest(proc[p].batch), error |-> FALSE]]
  /\ Set(p, IF proc[p].step < Len(Writes[proc[p].kind])
            THEN [Idle(p) EXCEPT !.at = "fetch", !.once = proc[p].once, !.step = proc[p].step + 1]
            ELSE Rest(p))
  /\ UNCHANGED <<part, man, hand, copy, minute, bounds, history>>

\* A poll that raises is given up.  The options recorder swallows what its manifest
\* raises, and its poll is over as well.
Raise(p) ==
  /\ Busy(p) /\ Trouble
  /\ GivenUp(p)
  /\ undescribed' = undescribed \cup OwedSlots(p)
  /\ UNCHANGED <<part, man, hand, copy, minute, polls, audited, moved, raced>>

\* The process dies, or is stopped between two polls; the lock goes with it.
Die(p) ==
  /\ proc[p].at # "off" /\ Trouble
  /\ Set(p, Off)
  /\ undescribed' = undescribed \cup OwedSlots(p)
  /\ UNCHANGED <<files, hand, copy, minute, polls, audited, moved, raced>>

-----------------------------------------------------------------------------
(* By hand *)

Hand ==
  [ at   : {"idle", "glob", "describe", "manifest"},
    by   : {"audit", "rebuild"},
    ds   : Datasets,
    todo : SUBSET Days,
    left : Seq(Datasets),              \* datasets still to glob
    held : File ]

NoHand == [at |-> "idle", by |-> "audit", ds |-> "options", todo |-> {}, left |-> <<>>,
           held |-> Missing]
HandSlot == <<hand.ds, Min(hand.todo)>>
\* Fault variant: a rebuilt manifest looks like a recorded one.
ProvenanceLost(by) == "recorder"

\* write_manifest's default is what the audit gets.
ProvenanceOf(by) == IF by = "rebuild" THEN "rebuilt" ELSE "recorder"
Onward(h) == IF h.todo # {} THEN [h EXCEPT !.at = "describe"]
             ELSE IF h.left # <<>> THEN [h EXCEPT !.at = "glob"] ELSE NoHand

\* scripts/vol_data_audit.py refreshes the manifest of every partition there is.
Audit ==
  /\ hand.at = "idle" /\ Trouble
  /\ hand' = [NoHand EXCEPT !.at = "glob", !.by = "audit", !.left = InOrder]
  /\ UNCHANGED <<files, proc, copy, minute, polls, history>>

Glob ==
  /\ hand.at = "glob"
  /\ hand' = Onward([hand EXCEPT !.ds = Head(hand.left), !.left = Tail(hand.left),
                                 !.todo = {d \in Days : Exists(<<Head(hand.left), d>>)}])
  /\ UNCHANGED <<files, proc, copy, minute, bounds, history>>

\* rebuild_manifest of a day found without a manifest that matches it.
Rebuild(s) ==
  /\ hand.at = "idle" /\ s[2] < Day(minute) /\ Exists(s) /\ ~Described(s) /\ Trouble
  /\ hand' = [NoHand EXCEPT !.at = "describe", !.by = "rebuild", !.ds = s[1], !.todo = {s[2]}]
  /\ UNCHANGED <<files, proc, copy, minute, polls, history>>

DescribeByHand ==
  /\ hand.at = "describe"
  /\ hand' = [hand EXCEPT !.at = "manifest", !.held = Part(HandSlot)]
  /\ UNCHANGED <<files, proc, copy, minute, bounds, history>>

\* A recorder may have replaced the partition, and its manifest, since it was read.
WriteByHand ==
  /\ hand.at = "manifest"
  /\ man' = [man EXCEPT ![hand.ds][Min(hand.todo)] =
               [sum |-> hand.held, by |-> ProvenanceOf(hand.by)]]
  /\ hand' = Onward([hand EXCEPT !.todo = @ \ {Min(@)}, !.held = Missing])
  /\ undescribed' = IF hand.held = Part(HandSlot) THEN undescribed
                    ELSE undescribed \cup {HandSlot}
  /\ audited' = IF hand.by = "audit" THEN audited \cup {HandSlot} ELSE audited \ {HandSlot}
  /\ Moves(HandSlot)
  /\ UNCHANGED <<part, check, proc, copy, minute, bounds, raced>>

\* A sealed partition is altered by something else.
Alter(s) ==
  /\ Exists(s) /\ s[2] < Day(minute) /\ Trouble
  /\ part' = [part EXCEPT ![s[1]][s[2]].edit = trouble']
  /\ undescribed' = undescribed \cup {s}
  /\ Moves(s)
  /\ UNCHANGED <<man, check, proc, hand, copy, minute, polls, audited, raced>>

-----------------------------------------------------------------------------
(* backup *)

Copy ==
  [ at     : {"idle", "verify", "copy", "check", "refused", "done"},
    today  : Days,
    todo   : SUBSET Slots,              \* partitions to verify, then to copy
    then   : SUBSET Slots,              \* manifests to copy after them
    part   : [Slots -> File],
    man    : [Slots -> Manifest],
    failed : BOOLEAN ]

NoCopy == [at |-> "idle", today |-> 0, todo |-> {}, then |-> {}, part |-> [s \in Slots |-> Missing],
           man |-> [s \in Slots |-> NoManifest], failed |-> FALSE]

Rank == [options |-> 1, perp_quotes |-> 2, perp_candles |-> 3]
First(slots) == CHOOSE s \in slots :
  \A t \in slots : Rank[s[1]] < Rank[t[1]] \/ (s[1] = t[1] /\ s[2] <= t[2])

StartBackup ==
  /\ copy.at = "idle" /\ Trouble
  /\ copy' = [copy EXCEPT !.at = "verify", !.today = Day(minute), !.todo = {s \in Slots : Exists(s)}]
  /\ UNCHANGED <<files, proc, hand, minute, polls, history>>

\* verify: what today still appends to is open; a sealed day is held to its manifest.
Sealed(s) == s[2] < copy.today

\* Fault variant: a missing manifest is not a finding.
SoundIfDescribed(s) == Sealed(s) /\ Man(s).by # "none" => Described(s)
Sound(s) == Sealed(s) => Described(s)

Verify ==
  /\ copy.at = "verify" /\ copy.todo # {}
  /\ copy' = IF Sound(First(copy.todo)) THEN [copy EXCEPT !.todo = @ \ {First(@)}]
             ELSE [NoCopy EXCEPT !.at = "refused"]
  /\ UNCHANGED <<files, proc, hand, minute, bounds, history>>

\* The list of what is copied is made at once: partitions, then their manifests.
ListItems ==
  /\ copy.at = "verify" /\ copy.todo = {}
  /\ copy' = [copy EXCEPT !.at = "copy", !.todo = {s \in Slots : Exists(s)},
                          !.then = {s \in Slots : Man(s).by # "none"}]
  /\ UNCHANGED <<files, proc, hand, minute, bounds, history>>

CopyPartition ==
  /\ copy.at = "copy" /\ copy.todo # {}
  /\ copy' = [copy EXCEPT !.at = "check", !.part[First(copy.todo)] = Part(First(copy.todo))]
  /\ UNCHANGED <<files, proc, hand, minute, bounds, history>>

\* The copy is hashed, and the source again.
CheckCopy ==
  /\ copy.at = "check"
  /\ copy' = [copy EXCEPT !.at = "copy", !.todo = @ \ {First(@)},
                 !.failed = (@ \/ copy.part[First(copy.todo)] # Part(First(copy.todo)))]
  /\ UNCHANGED <<files, proc, hand, minute, bounds, history>>

CopyManifest ==
  /\ copy.at = "copy" /\ copy.todo = {} /\ copy.then # {}
  /\ copy' = [copy EXCEPT !.then = @ \ {First(@)}, !.man[First(copy.then)] = Man(First(copy.then))]
  /\ UNCHANGED <<files, proc, hand, minute, bounds, history>>

\* An OSError at one file leaves it out.
CopyFails ==
  /\ copy.at = "copy" /\ copy.todo \cup copy.then # {} /\ Trouble
  /\ copy' = IF copy.todo # {} THEN [copy EXCEPT !.todo = @ \ {First(@)}, !.failed = TRUE]
             ELSE [copy EXCEPT !.then = @ \ {First(@)}, !.failed = TRUE]
  /\ UNCHANGED <<files, proc, hand, minute, polls, history>>

\* The checkpoints come last; nothing here reads the copies.
EndBackup ==
  /\ copy.at = "copy" /\ copy.todo \cup copy.then = {}
  /\ copy' = [copy EXCEPT !.at = "done"]
  /\ UNCHANGED <<files, proc, hand, minute, bounds, history>>

-----------------------------------------------------------------------------

Tick ==
  /\ minute < MaxMinute /\ minute' = minute + 1
  /\ UNCHANGED <<files, proc, hand, copy, bounds, history>>

Init ==
  /\ part = [ds \in Datasets |-> [d \in Days |-> Missing]]
  /\ man = [ds \in Datasets |-> [d \in Days |-> NoManifest]]
  /\ check = [ds \in Datasets |-> [last |-> -1, error |-> FALSE]]
  /\ proc = [p \in Processes |-> Off] /\ hand = NoHand /\ copy = NoCopy
  /\ minute = FirstMinute /\ polls = 0 /\ trouble = 0
  /\ undescribed = {} /\ audited = {} /\ moved = {} /\ raced = FALSE

Recorder(p) ==
  \/ \E k \in Kinds : Start(p, k) \/ StartOnce(p, k)
  \/ Poll(p) \/ Fetch(p) \/ ReadPartition(p) \/ ReplacePartition(p)
  \/ Describe(p) \/ WriteManifest(p) \/ WriteCheckpoint(p)
  \/ Raise(p) \/ Die(p)

ByHand == Audit \/ Glob \/ DescribeByHand \/ WriteByHand \/ \E s \in Slots : Rebuild(s)

Backup == \/ StartBackup \/ Verify \/ ListItems \/ CopyPartition \/ CheckCopy
          \/ CopyManifest \/ CopyFails \/ EndBackup

Next == \/ \E p \in Processes : Recorder(p)
        \/ ByHand \/ Backup
        \/ \E s \in Slots : Alter(s)
        \/ Tick

Spec == Init /\ [][Next]_vars

-----------------------------------------------------------------------------
(* Properties *)

\* Every variable keeps its type.
TypeOK ==
  /\ part \in [Datasets -> [Days -> File]]
  /\ man \in [Datasets -> [Days -> Manifest]]
  /\ check \in [Datasets -> [last : Minutes \cup {-1}, error : BOOLEAN]]
  /\ proc \in [Processes -> Process]
  /\ hand \in Hand
  /\ copy \in Copy
  /\ minute \in Minutes /\ polls \in 0..MaxPolls /\ trouble \in 0..MaxTrouble
  /\ undescribed \in SUBSET Slots /\ audited \in SUBSET Slots /\ moved \in SUBSET Slots
  /\ raced \in BOOLEAN

\* A partition agrees with its manifest, the day just sealed included, unless a poll
\* is between the two, a poll or process ended there, the file was altered, or a
\* manifest written by hand crossed a poll (_commit, perp_recorder.py:229).
ManifestsAgree ==
  ~raced => \A s \in Slots : Exists(s) /\ ~Described(s) =>
              s \in undescribed \/ \E p \in Processes : Dataset(p) = s[1] /\ s[2] \in Owed(p)

\* What a recorder has committed is never merged away, however its polls fail and its
\* processes die, as long as no --once run works beside it (single_instance).
SnapshotsKept ==
  [][~raced' => \A s \in Slots : Times(Part(s).rows) \subseteq Times(Part(s)'.rows)]_vars

\* A change of a partition no recorder described is never counted as verified as
\* recorded, but through the audit (rebuild_manifest, originally_verified).
NeverRelabelled ==
  ~raced => \A s \in undescribed \ audited : Described(s) => Man(s).by = "rebuilt"

\* A backup that reports OK holds every sealed partition that nobody replaced
\* meanwhile, with a manifest that agrees with it.
BackupIsWhole ==
  copy.at = "done" /\ ~copy.failed =>
    \A s \in Slots \ moved : Sealed(s) /\ Exists(s) =>
      copy.part[s] = Part(s) /\ copy.man[s].sum = copy.part[s]

=============================================================================

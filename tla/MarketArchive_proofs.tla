------------------------ MODULE MarketArchive_proofs ------------------------
(***************************************************************************)
(* Proofs about MarketArchive, for any processes, any datasets of a        *)
(* recorder, any length of a day and any number of things that go wrong.   *)
(***************************************************************************)
EXTENDS MarketArchive, WellFoundedInduction, TLAPS

-----------------------------------------------------------------------------
(* The inductive invariant *)

\* A poll has in hand the days of its batch that are left to it.
FlowOf(r) ==
  /\ r.step \in 1..Len(Writes[r.kind])
  /\ r.at \in {"append", "replace", "describe", "manifest"} =>
       r.todo # {} /\ r.todo \subseteq DaysOf(r.batch)
  /\ r.at = "checkpoint" => r.batch # {}
Flow == \A p \in Processes : FlowOf(proc[p])

HandFlowOf(h) == /\ h.at \in {"describe", "manifest"} => h.todo # {}
                 /\ h.at = "glob" => h.left # <<>>

\* The lock keeps every two processes of a recorder apart but for a --once run, and
\* two at work at once are what "raced" stands for.
OneRun == \A p, q \in Processes :
  p # q /\ proc[p].at # "off" /\ proc[q].at # "off" /\ proc[p].kind = proc[q].kind =>
    proc[p].once \/ proc[q].once
Alone == ~raced => \A p, q \in Processes :
  p # q /\ Busy(p) /\ Busy(q) => proc[p].kind # proc[q].kind

\* What a lone recorder holds in memory still is what it is about to replace.
HoldsAll(p) == proc[p].at = "replace" =>
  Times(Part(Slot(p)).rows) \subseteq Times(proc[p].held.rows)
HoldsLatest(p) == proc[p].at = "manifest" =>
  proc[p].held = Part(Slot(p)) \/ Slot(p) \in undescribed
Holds == ~raced => \A p \in Processes : HoldsAll(p) /\ HoldsLatest(p)

\* Alterations are numbered, so none brings back a partition that was described.
Stamped ==
  /\ \A s \in Slots : Part(s).edit \in 0..trouble /\ Man(s).sum.edit \in 0..trouble
  /\ \A p \in Processes : proc[p].held.edit \in 0..trouble
  /\ hand.held.edit \in 0..trouble

\* What the backup has behind it is as it was when it began, unless it moved.
Verified(s) == copy.at = "verify" => s \in copy.todo \/ Described(s)
Copied(s) == copy.at \in {"copy", "check", "done"} =>
  /\ Described(s)
  /\ copy.failed \/ s \in copy.todo \/ copy.part[s] = Part(s)
  /\ copy.failed \/ s \in copy.then \/ copy.man[s] = Man(s)
Copying ==
  /\ \A s \in Slots \ moved : Sealed(s) /\ Exists(s) => Verified(s) /\ Copied(s)
  /\ copy.at = "done" => copy.todo = {} /\ copy.then = {}

Structure == TypeOK /\ Flow /\ HandFlowOf(hand)
Order == OneRun /\ Alone
IInv == /\ Structure /\ Order /\ Holds /\ Stamped
        /\ ManifestsAgree /\ NeverRelabelled /\ Copying

-----------------------------------------------------------------------------
(* Minutes, days, files *)

LEMMA ClockFacts ==
  /\ MaxMinute \in Nat /\ Minutes \subseteq Nat /\ FirstMinute \in Minutes
  /\ Days \subseteq Nat /\ 0 \in Days
  /\ \A m \in Minutes : Day(m) \in Days
<1>1. MaxMinute \in Nat /\ DayLength \in Nat \ {0} /\ FirstMinute \in 0..MaxMinute
  BY ClockAssumption
<1>2. Minutes \subseteq Nat /\ 0 \in Minutes
  BY <1>1 DEF Minutes
<1>3. \A m \in Minutes : Day(m) \in Nat
  BY <1>1, <1>2 DEF Day
<1>4. Day(0) = 0
  BY <1>1 DEF Day
<1> QED
  BY <1>1, <1>2, <1>3, <1>4 DEF Days, Minutes

LEMMA BoundFacts == MaxPolls \in Nat /\ MaxTrouble \in Nat
BY ClockAssumption

\* The least of a set of numbers is one of them.
LEMMA LeastIsIn ==
  ASSUME NEW S \in SUBSET Nat, S # {}
  PROVE  Min(S) \in S /\ \A y \in S : Min(S) =< y
<1> DEFINE R == OpToRel(<, Nat)
<1>1. \A x, y \in Nat : <<y, x>> \in R <=> y < x
  BY DEF OpToRel
<1>2. PICK x \in S : \A y \in S : ~(<<y, x>> \in R)
  <2> HIDE DEF R
  <2>1. IsWellFoundedOn(R, Nat)
    BY NatLessThanWellFounded DEF R
  <2> QED
    BY <2>1, WFMin
<1>3. \A y \in S : x =< y
  <2> TAKE y \in S
  <2>1. ~(y < x)
    BY <1>1, <1>2
  <2> QED
    BY <2>1
<1> QED
  BY <1>3 DEF Min

LEMMA DayInHand ==
  ASSUME NEW D \in SUBSET Days, D # {}
  PROVE  Min(D) \in D /\ Min(D) \in Days
BY ClockFacts, LeastIsIn

\* The newest of a batch is one of it.
LEMMA NewestIsIn ==
  ASSUME NEW B \in SUBSET Row, B # {}
  PROVE  Newest(B) \in Times(B) /\ Newest(B) \in Minutes
<1> DEFINE T == Times(B)
           U == {MaxMinute - t : t \in T}
<1>1. T \subseteq Minutes /\ T # {}
  BY DEF Times, Row
<1>2. U \subseteq Nat /\ U # {}
  BY <1>1, ClockFacts DEF Minutes
<1>3. Min(U) \in U /\ \A u \in U : Min(U) =< u
  <2> HIDE DEF U
  <2> QED
    BY <1>2, LeastIsIn
<1>4. PICK t \in T : Min(U) = MaxMinute - t
  BY <1>3
<1>5. \A x \in T : t >= x
  <2> TAKE x \in T
  <2>1. MaxMinute - x \in U
    OBVIOUS
  <2>2. MaxMinute - t =< MaxMinute - x
    BY <1>3, <1>4, <2>1
  <2>3. t \in Nat /\ x \in Nat /\ MaxMinute \in Nat
    BY <1>1, ClockFacts
  <2> QED
    BY <2>2, <2>3
<1>6. Max(T) \in T
  BY <1>5 DEF Max
<1> QED
  BY <1>1, <1>6 DEF Newest

LEMMA FileFacts ==
  /\ Missing \in File /\ Missing.rows = {} /\ Missing.edit = 0
  /\ NoManifest \in Manifest /\ NoManifest.by = "none" /\ NoManifest.sum = Missing
BY BoundFacts DEF Missing, File, NoManifest, Manifest, Provenance

LEMMA SlotFacts ==
  ASSUME TypeOK
  PROVE  /\ \A ds \in Datasets, d \in Days : /\ <<ds, d>> \in Slots
                                           /\ Part(<<ds, d>>) = part[ds][d]
                                           /\ Man(<<ds, d>>) = man[ds][d]
         /\ \A s \in Slots : /\ s[1] \in Datasets /\ s[2] \in Days /\ s = <<s[1], s[2]>>
                            /\ Part(s) \in File /\ Man(s) \in Manifest
BY DEF TypeOK, Slots, Part, Man

LEMMA BatchFacts ==
  ASSUME NEW B \in SUBSET Row
  PROVE  /\ DaysOf(B) \subseteq Days
         /\ B # {} => DaysOf(B) # {}
         /\ Times(B) \subseteq Minutes
BY ClockFacts DEF DaysOf, Row, Times

LEMMA FetchedFacts ==
  ASSUME NEW ds, NEW now \in Minutes
  PROVE  Batch(ds, now) \in SUBSET Row
BY DEF Batch, Row

\* Merging keeps the time of every observation, and adds those of the batch.
LEMMA MergedFacts ==
  ASSUME NEW f \in File, NEW B \in SUBSET Row
  PROVE  /\ Merged(f, B) \in File
         /\ Merged(f, B).edit = f.edit
         /\ Times(f.rows) \subseteq Times(Merged(f, B).rows)
         /\ Times(B) \subseteq Times(Merged(f, B).rows)
<1> DEFINE kept == {r \in f.rows : r.time \notin Times(B)}
<1>1. /\ Merged(f, B) = [f EXCEPT !.rows = kept \cup B]
      /\ f.rows \in SUBSET Row /\ f.edit \in 0..MaxTrouble
  BY DEF Merged, File
<1>2. Merged(f, B).rows = kept \cup B /\ Merged(f, B).edit = f.edit
  BY <1>1 DEF File
<1>3. Merged(f, B) \in File
  BY <1>1 DEF File
<1>4. Times(f.rows) \subseteq Times(kept \cup B)
  BY DEF Times
<1>5. Times(B) \subseteq Times(kept \cup B)
  BY DEF Times
<1> QED
  BY <1>2, <1>3, <1>4, <1>5

-----------------------------------------------------------------------------
(* Recorders *)

LEMMA WritesFacts ==
  /\ \A k \in Kinds : /\ Len(Writes[k]) \in Nat /\ 1 \in 1..Len(Writes[k])
                      /\ \A i \in 1..Len(Writes[k]) : Writes[k][i] \in Datasets
  /\ \A k, l \in Kinds : \A i \in 1..Len(Writes[k]) : \A j \in 1..Len(Writes[l]) :
       Writes[k][i] = Writes[l][j] => k = l
<1>1. \A k \in Kinds : Writes[k] \in Seq(Datasets) /\ Writes[k] # <<>>
  BY WritesAssumption
<1>2. \A k \in Kinds : Len(Writes[k]) \in Nat /\ DOMAIN Writes[k] = 1..Len(Writes[k]) /\ 1 \in 1..Len(Writes[k])
  BY <1>1
<1>3. \A k \in Kinds : \A i \in 1..Len(Writes[k]) : Writes[k][i] \in Datasets
  BY <1>1, <1>2
<1>4. \A k \in Kinds : \A i \in 1..Len(Writes[k]) : Writes[k][i] \in ToSet(Writes[k])
  BY <1>2 DEF ToSet
<1>5. ToSet(Writes["quote"]) \cap ToSet(Writes["perp"]) = {}
  BY WritesAssumption
<1>6. \A k, l \in Kinds : \A i \in 1..Len(Writes[k]) : \A j \in 1..Len(Writes[l]) :
        Writes[k][i] = Writes[l][j] => k = l
  BY <1>4, <1>5 DEF Kinds
<1> QED
  BY <1>2, <1>3, <1>6

LEMMA OffFacts ==
  /\ Off \in Process /\ FlowOf(Off) /\ Off.at = "off" /\ Off.held = Missing /\ ~Off.once
  /\ Off.kind = "perp" /\ Off.step = 1 /\ Off.batch = {} /\ Off.todo = {}
<1>1. Off \in Process
  BY FileFacts DEF Off, Process, Kinds
<1> QED
  BY <1>1, WritesFacts DEF Off, FlowOf, Kinds

LEMMA ProcFacts ==
  ASSUME TypeOK, Flow, NEW p \in Processes
  PROVE  /\ proc[p] \in Process /\ FlowOf(proc[p])
         /\ proc[p].kind \in Kinds /\ Dataset(p) \in Datasets
         /\ proc[p].batch \in SUBSET Row /\ proc[p].todo \in SUBSET Days
         /\ proc[p].held \in File /\ proc[p].once \in BOOLEAN
BY WritesFacts DEF TypeOK, Flow, FlowOf, Process, Dataset

\* The partition in hand.
LEMMA SlotInHand ==
  ASSUME TypeOK, Flow, NEW p \in Processes,
         proc[p].at \in {"append", "replace", "describe", "manifest"}
  PROVE  /\ Today(p) \in proc[p].todo /\ Today(p) \in DaysOf(proc[p].batch) /\ Today(p) \in Days
         /\ Slot(p) \in Slots /\ Slot(p)[1] = Dataset(p) /\ Slot(p)[2] = Today(p)
         /\ Part(Slot(p)) = part[Dataset(p)][Today(p)] /\ Man(Slot(p)) = man[Dataset(p)][Today(p)]
         /\ Part(Slot(p)) \in File
<1>1. proc[p].todo # {} /\ proc[p].todo \subseteq DaysOf(proc[p].batch) /\ proc[p].todo \in SUBSET Days
  BY ProcFacts DEF FlowOf
<1>2. Today(p) \in proc[p].todo /\ Today(p) \in Days
  BY <1>1, DayInHand DEF Today
<1>3. Dataset(p) \in Datasets
  BY ProcFacts
<1> QED
  BY <1>1, <1>2, <1>3, SlotFacts DEF Slot

\* One process changes, to r.
LEMMA SetFacts ==
  ASSUME TypeOK, Flow, NEW p \in Processes, NEW r \in Process, FlowOf(r), Set(p, r)
  PROVE  /\ proc' \in [Processes -> Process] /\ proc'[p] = r
         /\ \A q \in Processes : q # p => proc'[q] = proc[q]
         /\ Flow'
<1>1. proc \in [Processes -> Process] /\ proc' = [proc EXCEPT ![p] = r]
  BY DEF TypeOK, Set
<1>2. proc' \in [Processes -> Process] /\ proc'[p] = r /\ \A q \in Processes : q # p => proc'[q] = proc[q]
  BY <1>1
<1>3. \A q \in Processes : FlowOf(proc'[q])
  BY <1>2 DEF Flow
<1> QED
  BY <1>2, <1>3 DEF Flow

\* A process that rests holds nothing.
LEMMA RestFacts ==
  ASSUME TypeOK, Flow, NEW p \in Processes
  PROVE  /\ Rest(p) \in Process /\ FlowOf(Rest(p)) /\ Rest(p).at \in {"off", "idle"}
         /\ Rest(p).held = Missing /\ ~Rest(p).once
         /\ Rest(p).at = "idle" => Rest(p).kind = proc[p].kind /\ ~proc[p].once
<1>1. proc[p].kind \in Kinds
  BY ProcFacts
<1>2. Idle(p) = [Off EXCEPT !.at = "idle", !.kind = proc[p].kind]
  BY DEF Idle
<1>3. /\ Idle(p) \in Process /\ Idle(p).at = "idle" /\ Idle(p).held = Missing /\ ~Idle(p).once
      /\ Idle(p).step = 1 /\ Idle(p).kind = proc[p].kind
  BY <1>1, <1>2, OffFacts DEF Process
<1>4. FlowOf(Idle(p))
  BY <1>1, <1>3, WritesFacts DEF FlowOf
<1> QED
  BY <1>3, <1>4, OffFacts DEF Rest

LEMMA RestSame ==
  ASSUME TypeOK, Flow, NEW p \in Processes
  PROVE  \/ Rest(p).at = "off"
         \/ Rest(p).at = "idle" /\ Rest(p).kind = proc[p].kind /\ Rest(p).once = proc[p].once
<1>1. Rest(p) \in Process /\ proc[p].once \in BOOLEAN
  BY RestFacts, ProcFacts
<1>2. Rest(p).once \in BOOLEAN
  BY <1>1 DEF Process
<1>3. /\ Rest(p).at \in {"off", "idle"} /\ ~Rest(p).once
      /\ Rest(p).at = "idle" => Rest(p).kind = proc[p].kind /\ ~proc[p].once
  BY RestFacts
<1> QED
  BY <1>1, <1>2, <1>3

\* One partition or one manifest is replaced.
LEMMA PartSet ==
  ASSUME TypeOK, NEW ds \in Datasets, NEW d \in Days, NEW f \in File,
         part' = [part EXCEPT ![ds][d] = f]
  PROVE  /\ part' \in [Datasets -> [Days -> File]]
         /\ \A s \in Slots : Part(s)' = IF s = <<ds, d>> THEN f ELSE Part(s)
BY DEF TypeOK, Slots, Part

LEMMA ManSet ==
  ASSUME TypeOK, NEW ds \in Datasets, NEW d \in Days, NEW m \in Manifest,
         man' = [man EXCEPT ![ds][d] = m]
  PROVE  /\ man' \in [Datasets -> [Days -> Manifest]]
         /\ \A s \in Slots : Man(s)' = IF s = <<ds, d>> THEN m ELSE Man(s)
BY DEF TypeOK, Slots, Man

LEMMA Untouched ==
  ASSUME part' = part, man' = man
  PROVE  \A s \in Slots : Part(s)' = Part(s) /\ Man(s)' = Man(s)
BY DEF Part, Man

LEMMA MovesFacts ==
  ASSUME TypeOK, NEW s \in Slots, Moves(s)
  PROVE  /\ moved' \in SUBSET Slots
         /\ copy.at # "idle" => moved' = moved \cup {s}
BY DEF TypeOK, Moves

LEMMA TroubleFacts ==
  ASSUME TypeOK, Trouble
  PROVE  trouble' \in 0..MaxTrouble /\ trouble' = trouble + 1 /\ trouble \in Nat
BY BoundFacts DEF TypeOK, Trouble

LEMMA OwedFacts ==
  ASSUME TypeOK, Flow, NEW p \in Processes
  PROVE  Owed(p) \subseteq Days /\ OwedSlots(p) \subseteq Slots
<1>1. DaysOf(proc[p].batch) \subseteq Days /\ proc[p].todo \subseteq Days /\ Dataset(p) \in Datasets
  BY ProcFacts, BatchFacts
<1>2. Owed(p) \subseteq Days
  BY <1>1 DEF Owed
<1> QED
  BY <1>1, <1>2 DEF OwedSlots, Slots

-----------------------------------------------------------------------------
(* What each step of a recorder does to the process and the files *)

Only(p, r) == /\ proc' \in [Processes -> Process] /\ proc'[p] = r
              /\ \A q \in Processes : q # p => proc'[q] = proc[q]
              /\ Flow'

LEMMA StartFacts ==
  ASSUME Structure, NEW p \in Processes, NEW k \in Kinds, Start(p, k) \/ StartOnce(p, k)
  PROVE  /\ Structure' /\ \E r \in Process : /\ Only(p, r) /\ r.at = "idle" /\ r.kind = k
                                              /\ r.held = Missing /\ (r.once \/ ~Locked(k))
         /\ trouble' >= trouble
<1>1. TypeOK /\ Flow /\ HandFlowOf(hand)
  BY DEF Structure
<1>2. PICK once \in BOOLEAN : /\ Set(p, [Off EXCEPT !.at = "idle", !.kind = k, !.once = once])
                              /\ once \/ ~Locked(k)
  <2>1. CASE StartOnce(p, k)
    <3>1. Set(p, [Off EXCEPT !.at = "idle", !.kind = k, !.once = TRUE])
      BY <2>1 DEF StartOnce
    <3> QED
      BY <3>1 DEF Set
  <2>2. CASE Start(p, k)
    <3>1. Set(p, [Off EXCEPT !.at = "idle", !.kind = k]) /\ ~Locked(k)
      BY <2>2 DEF Start
    <3>2. [Off EXCEPT !.at = "idle", !.kind = k] = [Off EXCEPT !.at = "idle", !.kind = k, !.once = FALSE]
      BY OffFacts DEF Process
    <3> QED
      BY <3>1, <3>2 DEF Set
  <2> QED
    BY <2>1, <2>2
<1> DEFINE r == [Off EXCEPT !.at = "idle", !.kind = k, !.once = once]
<1>3. /\ r \in Process /\ r.at = "idle" /\ r.kind = k /\ r.held = Missing /\ r.step = 1
      /\ r.once = once
  BY OffFacts DEF Process
<1>4. FlowOf(r)
  BY <1>3, WritesFacts DEF FlowOf
<1>5. Only(p, r)
  <2> HIDE DEF r
  <2> QED
    BY <1>1, <1>2, <1>3, <1>4, SetFacts DEF r, Only
<1>6. trouble' \in 0..MaxTrouble /\ trouble' >= trouble
  <2>1. CASE Start(p, k)
    BY <1>1, <2>1, BoundFacts DEF Start, TypeOK, bounds
  <2>2. CASE StartOnce(p, k)
    BY <1>1, <2>2, TroubleFacts DEF StartOnce
  <2> QED
    BY <2>1, <2>2
<1>7. UNCHANGED <<files, hand, copy, minute, polls, history>>
  BY DEF Start, StartOnce, bounds
<1>8. TypeOK'
  BY <1>1, <1>5, <1>6, <1>7 DEF TypeOK, Only, files, history
<1>9. Structure'
  BY <1>1, <1>5, <1>7, <1>8 DEF Structure, Only
<1> QED
  <2> HIDE DEF r
  <2> QED
    BY <1>2, <1>3, <1>5, <1>6, <1>9

LEMMA PollFacts ==
  ASSUME Structure, NEW p \in Processes, Poll(p)
  PROVE  Structure' /\ Only(p, [proc[p] EXCEPT !.at = "fetch"])
<1>1. TypeOK /\ Flow /\ HandFlowOf(hand)
  BY DEF Structure
<1> DEFINE r == [proc[p] EXCEPT !.at = "fetch"]
<1>2. /\ r \in Process /\ r.at = "fetch" /\ r.kind = proc[p].kind /\ r.step = proc[p].step
  BY <1>1, ProcFacts DEF Process
<1>3. FlowOf(r)
  BY <1>1, <1>2, ProcFacts DEF FlowOf
<1>4. Only(p, r)
  <2>1. Set(p, r)
    BY DEF Poll
  <2> HIDE DEF r
  <2> QED
    BY <1>1, <1>2, <1>3, <2>1, SetFacts DEF Only
<1>5. polls' \in 0..MaxPolls /\ raced' \in BOOLEAN
  BY <1>1, BoundFacts DEF Poll, TypeOK
<1>6. UNCHANGED <<files, hand, copy, minute, trouble, undescribed, audited, moved>>
  BY DEF Poll
<1>7. TypeOK'
  BY <1>1, <1>4, <1>5, <1>6 DEF TypeOK, Only, files
<1> QED
  BY <1>1, <1>4, <1>6, <1>7 DEF Structure, Only

\* The checkpoints a failed poll notes it in.
LEMMA GivenUpFacts ==
  ASSUME TypeOK, Flow, NEW p \in Processes, GivenUp(p)
  PROVE  /\ Only(p, Rest(p))
         /\ check' \in [Datasets -> [last : Minutes \cup {-1}, error : BOOLEAN]]
         /\ \A ds \in Datasets : check'[ds].last = check[ds].last
<1>1. Only(p, Rest(p))
  BY RestFacts, SetFacts DEF GivenUp, Only
<1>2. check \in [Datasets -> [last : Minutes \cup {-1}, error : BOOLEAN]]
  BY DEF TypeOK
<1>3. CASE proc[p].kind = "perp" /\ ~proc[p].once
  <2>1. check' = [ds \in Datasets |-> [check[ds] EXCEPT !.error = (@ \/ ds # "options")]]
    BY <1>3 DEF GivenUp
  <2>2. \A ds \in Datasets : check'[ds] = [check[ds] EXCEPT !.error = (check[ds].error \/ ds # "options")]
    BY <2>1
  <2>3. \A ds \in Datasets : /\ check'[ds] \in [last : Minutes \cup {-1}, error : BOOLEAN]
                             /\ check'[ds].last = check[ds].last
    BY <1>2, <2>2
  <2> QED
    BY <1>1, <2>1, <2>3
<1>4. CASE ~(proc[p].kind = "perp" /\ ~proc[p].once)
  BY <1>1, <1>2, <1>4 DEF GivenUp
<1> QED
  BY <1>3, <1>4

LEMMA FetchFacts ==
  ASSUME Structure, NEW p \in Processes, Fetch(p)
  PROVE  /\ Structure' /\ \A ds \in Datasets : check'[ds].last = check[ds].last
         /\ \/ Only(p, Rest(p))
            \/ \E B \in SUBSET Row :
                 Only(p, [proc[p] EXCEPT !.at = "append", !.batch = B, !.todo = DaysOf(B)])
<1>1. TypeOK /\ Flow /\ HandFlowOf(hand) /\ minute \in Minutes
  BY DEF Structure, TypeOK
<1> DEFINE B == Batch(Dataset(p), minute)
           r == [proc[p] EXCEPT !.at = "append", !.batch = B, !.todo = DaysOf(B)]
<1>2. B \in SUBSET Row
  BY <1>1, FetchedFacts
<1>3. UNCHANGED <<part, man, hand, copy, minute, bounds, history>>
  BY DEF Fetch
<1>4. CASE B = {}
  <2>1. GivenUp(p)
    BY <1>4 DEF Fetch
  <2>2. /\ Only(p, Rest(p)) /\ check' \in [Datasets -> [last : Minutes \cup {-1}, error : BOOLEAN]]
        /\ \A ds \in Datasets : check'[ds].last = check[ds].last
    BY <1>1, <2>1, GivenUpFacts
  <2>3. TypeOK'
    BY <1>1, <1>3, <2>2 DEF TypeOK, Only, bounds, history
  <2> QED
    BY <1>1, <1>3, <2>2, <2>3 DEF Structure, Only
<1>5. CASE B # {}
  <2>1. Set(p, r) /\ check' = check
    BY <1>5 DEF Fetch
  <2>2. DaysOf(B) \subseteq Days /\ DaysOf(B) # {}
    BY <1>2, <1>5, BatchFacts
  <2> HIDE DEF B
  <2>3. /\ r \in Process /\ r.at = "append" /\ r.batch = B /\ r.todo = DaysOf(B)
        /\ r.step = proc[p].step /\ r.kind = proc[p].kind
    BY <1>1, <1>2, <2>2, ProcFacts DEF Process
  <2>4. FlowOf(r)
    BY <1>1, <2>2, <2>3, ProcFacts DEF FlowOf
  <2>5. Only(p, r)
    <3> HIDE DEF r
    <3> QED
      BY <1>1, <2>1, <2>3, <2>4, SetFacts DEF Only
  <2>6. TypeOK'
    BY <1>1, <1>3, <2>1, <2>5 DEF TypeOK, Only, bounds, history
  <2> QED
    BY <1>1, <1>2, <1>3, <2>1, <2>5, <2>6 DEF Structure, Only
<1> QED
  BY <1>4, <1>5

LEMMA ReadFacts ==
  ASSUME Structure, NEW p \in Processes, ReadPartition(p)
  PROVE  /\ Structure'
         /\ Only(p, [proc[p] EXCEPT !.at = "replace",
                      !.held = Merged(Part(Slot(p)), OfDay(proc[p].batch, Today(p)))])
<1>1. TypeOK /\ Flow /\ HandFlowOf(hand) /\ proc[p].at = "append"
  BY DEF Structure, ReadPartition
<1> DEFINE f == Merged(Part(Slot(p)), OfDay(proc[p].batch, Today(p)))
           r == [proc[p] EXCEPT !.at = "replace", !.held = f]
<1>2. OfDay(proc[p].batch, Today(p)) \in SUBSET Row /\ Part(Slot(p)) \in File
  BY <1>1, ProcFacts, SlotInHand DEF OfDay
<1>3. f \in File
  BY <1>2, MergedFacts
<1>4. Set(p, r)
  BY DEF ReadPartition
<1> HIDE DEF f
<1>5. /\ r \in Process /\ r.at = "replace" /\ r.batch = proc[p].batch /\ r.todo = proc[p].todo
      /\ r.step = proc[p].step /\ r.kind = proc[p].kind
  BY <1>1, <1>3, ProcFacts DEF Process
<1>6. FlowOf(r)
  BY <1>1, <1>5, ProcFacts DEF FlowOf
<1>7. Only(p, r)
  <2> HIDE DEF r
  <2> QED
    BY <1>1, <1>4, <1>5, <1>6, SetFacts DEF Only
<1>8. UNCHANGED <<files, hand, copy, minute, bounds, history>>
  BY DEF ReadPartition
<1>9. TypeOK'
  BY <1>1, <1>7, <1>8 DEF TypeOK, Only, files, bounds, history
<1> QED
  BY <1>1, <1>7, <1>8, <1>9 DEF Structure, Only, f

\* The poll goes on with the same batch.
GoesOn(r, p) == /\ r.kind = proc[p].kind /\ r.step = proc[p].step /\ r.batch = proc[p].batch
                /\ r.once = proc[p].once

LEMMA AppendedFacts ==
  ASSUME TypeOK, Flow, NEW p \in Processes, proc[p].at = "replace"
  PROVE  LET r == Appended(p)
         IN /\ r \in Process /\ FlowOf(r) /\ GoesOn(r, p) /\ r.held = Missing
            /\ r.at \in {"append", "describe"}
            /\ r.at = "append" => r.todo = proc[p].todo \ {Today(p)}
            /\ r.at = "describe" => /\ r.todo = DaysOf(proc[p].batch)
                                    /\ proc[p].todo = {Today(p)}
<1> DEFINE rest == proc[p].todo \ {Today(p)}
<1>1. /\ proc[p] \in Process /\ FlowOf(proc[p]) /\ Today(p) \in proc[p].todo
      /\ proc[p].todo \subseteq DaysOf(proc[p].batch) /\ rest \subseteq Days
      /\ DaysOf(proc[p].batch) \subseteq Days /\ DaysOf(proc[p].batch) # {}
  BY ProcFacts, SlotInHand, BatchFacts DEF FlowOf
<1>2. CASE rest # {}
  <2>1. Appended(p) = [proc[p] EXCEPT !.at = "append", !.todo = rest, !.held = Missing]
    BY <1>2 DEF Appended
  <2> HIDE DEF rest
  <2>2. /\ Appended(p) \in Process /\ GoesOn(Appended(p), p) /\ Appended(p).held = Missing
        /\ Appended(p).at = "append" /\ Appended(p).todo = rest
    BY <1>1, <2>1, FileFacts DEF Process, GoesOn
  <2>3. rest \subseteq DaysOf(proc[p].batch)
    BY <1>1 DEF rest
  <2>4. FlowOf(Appended(p))
    BY <1>1, <1>2, <2>2, <2>3 DEF FlowOf, GoesOn
  <2> QED
    BY <2>2, <2>4 DEF rest
<1>3. CASE rest = {}
  <2>1. Appended(p) = [proc[p] EXCEPT !.at = "describe", !.todo = DaysOf(proc[p].batch), !.held = Missing]
    BY <1>3 DEF Appended
  <2>2. /\ Appended(p) \in Process /\ GoesOn(Appended(p), p) /\ Appended(p).held = Missing
        /\ Appended(p).at = "describe" /\ Appended(p).todo = DaysOf(proc[p].batch)
    BY <1>1, <2>1, FileFacts DEF Process, GoesOn
  <2>3. FlowOf(Appended(p))
    BY <1>1, <2>2 DEF FlowOf, GoesOn
  <2> QED
    BY <1>1, <1>3, <2>2, <2>3
<1> QED
  BY <1>2, <1>3

LEMMA ReplaceFacts ==
  ASSUME Structure, NEW p \in Processes, ReplacePartition(p)
  PROVE  /\ Structure' /\ Only(p, Appended(p)) /\ Slot(p) \in Slots
         /\ \A s \in Slots : /\ Part(s)' = IF s = Slot(p) THEN proc[p].held ELSE Part(s)
                            /\ Man(s)' = Man(s)
<1>1. TypeOK /\ Flow /\ HandFlowOf(hand) /\ proc[p].at = "replace"
  BY DEF Structure, ReplacePartition
<1>2. /\ Today(p) \in Days /\ Dataset(p) \in Datasets /\ Slot(p) \in Slots /\ proc[p].held \in File
      /\ Slot(p) = <<Dataset(p), Today(p)>>
  BY <1>1, ProcFacts, SlotInHand DEF Slot
<1>3. Only(p, Appended(p))
  <2>1. Set(p, Appended(p))
    BY DEF ReplacePartition
  <2> QED
    BY <1>1, <2>1, AppendedFacts, SetFacts DEF Only
<1>4. /\ part' \in [Datasets -> [Days -> File]]
      /\ \A s \in Slots : Part(s)' = IF s = Slot(p) THEN proc[p].held ELSE Part(s)
  BY <1>1, <1>2, PartSet DEF ReplacePartition
<1>5. /\ UNCHANGED <<man, check, hand, copy, minute, bounds, audited, raced>>
      /\ undescribed' = undescribed \ {Slot(p)} /\ Moves(Slot(p))
  BY DEF ReplacePartition
<1>6. moved' \in SUBSET Slots
  BY <1>1, <1>2, <1>5, MovesFacts
<1>7. TypeOK'
  BY <1>1, <1>3, <1>4, <1>5, <1>6 DEF TypeOK, Only, bounds
<1>8. \A s \in Slots : Man(s)' = Man(s)
  BY <1>5 DEF Man
<1> QED
  BY <1>1, <1>2, <1>3, <1>4, <1>5, <1>7, <1>8 DEF Structure, Only

LEMMA DescribeFacts ==
  ASSUME Structure, NEW p \in Processes, Describe(p)
  PROVE  /\ Structure' /\ proc[p].at = "describe"
         /\ Only(p, [proc[p] EXCEPT !.at = "manifest", !.held = Part(Slot(p))])
<1>1. TypeOK /\ Flow /\ HandFlowOf(hand) /\ proc[p].at = "describe"
  BY DEF Structure, Describe
<1> DEFINE f == Part(Slot(p))
           r == [proc[p] EXCEPT !.at = "manifest", !.held = f]
<1>2. f \in File
  BY <1>1, SlotInHand
<1>3. Set(p, r)
  BY DEF Describe
<1> HIDE DEF f
<1>4. /\ r \in Process /\ r.at = "manifest" /\ r.batch = proc[p].batch /\ r.todo = proc[p].todo
      /\ r.step = proc[p].step /\ r.kind = proc[p].kind
  BY <1>1, <1>2, ProcFacts DEF Process
<1>5. FlowOf(r)
  BY <1>1, <1>4, ProcFacts DEF FlowOf
<1>6. Only(p, r)
  <2> HIDE DEF r
  <2> QED
    BY <1>1, <1>3, <1>4, <1>5, SetFacts DEF Only
<1>7. UNCHANGED <<files, hand, copy, minute, bounds, history>>
  BY DEF Describe
<1>8. TypeOK'
  BY <1>1, <1>6, <1>7 DEF TypeOK, Only, files, bounds, history
<1> QED
  BY <1>1, <1>6, <1>7, <1>8 DEF Structure, Only, f

\* The process after a manifest is in place.
After(p) == LET rest == proc[p].todo \ {Today(p)}
            IN IF rest = {} THEN AllDescribed(p)
               ELSE [proc[p] EXCEPT !.at = "describe", !.todo = rest, !.held = Missing]

LEMMA AfterFacts ==
  ASSUME TypeOK, Flow, NEW p \in Processes, proc[p].at = "manifest"
  PROVE  LET r == After(p)
         IN /\ r \in Process /\ FlowOf(r) /\ r.held = Missing
            /\ r.at \in {"off", "idle", "checkpoint", "describe"}
            /\ r.at = "describe" => GoesOn(r, p) /\ r.todo = proc[p].todo \ {Today(p)}
            /\ r.at # "describe" => proc[p].todo = {Today(p)}
            /\ r.at = "checkpoint" => GoesOn(r, p)
            /\ r.at = "idle" => r.kind = proc[p].kind /\ ~r.once /\ ~proc[p].once
<1> DEFINE rest == proc[p].todo \ {Today(p)}
<1>1. /\ proc[p] \in Process /\ FlowOf(proc[p]) /\ Today(p) \in proc[p].todo
      /\ proc[p].todo \subseteq DaysOf(proc[p].batch) /\ rest \subseteq Days
  BY ProcFacts, SlotInHand DEF FlowOf
<1>2. CASE rest # {}
  <2>1. After(p) = [proc[p] EXCEPT !.at = "describe", !.todo = rest, !.held = Missing]
    BY <1>2 DEF After
  <2> HIDE DEF rest
  <2>2. /\ After(p) \in Process /\ GoesOn(After(p), p) /\ After(p).held = Missing
        /\ After(p).at = "describe" /\ After(p).todo = rest
    BY <1>1, <2>1, FileFacts DEF Process, GoesOn
  <2>3. rest \subseteq DaysOf(proc[p].batch)
    BY <1>1 DEF rest
  <2>4. FlowOf(After(p))
    BY <1>1, <1>2, <2>2, <2>3 DEF FlowOf, GoesOn
  <2> QED
    BY <2>2, <2>4 DEF rest
<1>3. CASE rest = {} /\ proc[p].kind = "quote"
  <2>1. After(p) = Rest(p)
    BY <1>3 DEF After, AllDescribed
  <2> QED
    BY <1>1, <1>3, <2>1, RestFacts
<1>4. CASE rest = {} /\ proc[p].kind # "quote"
  <2>1. After(p) = [proc[p] EXCEPT !.at = "checkpoint", !.todo = {}, !.held = Missing]
    BY <1>4 DEF After, AllDescribed
  <2>2. /\ After(p) \in Process /\ GoesOn(After(p), p) /\ After(p).held = Missing
        /\ After(p).at = "checkpoint"
    BY <1>1, <2>1, FileFacts DEF Process, GoesOn
  <2>3. proc[p].batch # {}
    BY <1>1 DEF DaysOf
  <2>4. FlowOf(After(p))
    BY <1>1, <2>2, <2>3 DEF FlowOf, GoesOn
  <2> QED
    BY <1>1, <1>4, <2>2, <2>4
<1> QED
  BY <1>2, <1>3, <1>4

LEMMA ManifestFacts ==
  ASSUME Structure, NEW p \in Processes, WriteManifest(p)
  PROVE  /\ Structure' /\ Only(p, After(p)) /\ Slot(p) \in Slots
         /\ \A s \in Slots : /\ Part(s)' = Part(s)
                            /\ Man(s)' = IF s = Slot(p)
                                         THEN [sum |-> proc[p].held, by |-> "recorder"] ELSE Man(s)
<1>1. TypeOK /\ Flow /\ HandFlowOf(hand) /\ proc[p].at = "manifest"
  BY DEF Structure, WriteManifest
<1>2. /\ Today(p) \in Days /\ Dataset(p) \in Datasets /\ Slot(p) \in Slots /\ proc[p].held \in File
      /\ Slot(p) = <<Dataset(p), Today(p)>>
  BY <1>1, ProcFacts, SlotInHand DEF Slot
<1> DEFINE m == [sum |-> proc[p].held, by |-> "recorder"]
<1>3. m \in Manifest
  BY <1>2 DEF Manifest, Provenance
<1>4. Only(p, After(p))
  <2>1. Set(p, After(p))
    BY DEF WriteManifest, After
  <2> QED
    BY <1>1, <2>1, AfterFacts, SetFacts DEF Only
<1>5. man' = [man EXCEPT ![Dataset(p)][Today(p)] = m]
  BY DEF WriteManifest
<1>6. /\ man' \in [Datasets -> [Days -> Manifest]]
      /\ \A s \in Slots : Man(s)' = IF s = Slot(p) THEN m ELSE Man(s)
  <2> HIDE DEF m
  <2> QED
    BY <1>1, <1>2, <1>3, <1>5, ManSet
<1>7. /\ UNCHANGED <<part, check, hand, copy, minute, bounds, raced>>
      /\ undescribed' \subseteq undescribed /\ audited' \subseteq audited /\ Moves(Slot(p))
  BY DEF WriteManifest
<1>8. moved' \in SUBSET Slots
  BY <1>1, <1>2, <1>7, MovesFacts
<1>9. TypeOK'
  BY <1>1, <1>4, <1>6, <1>7, <1>8 DEF TypeOK, Only, bounds
<1>10. \A s \in Slots : Part(s)' = Part(s)
  BY <1>7 DEF Part
<1> QED
  BY <1>1, <1>2, <1>4, <1>6, <1>7, <1>9, <1>10 DEF Structure, Only

LEMMA CheckpointFacts ==
  ASSUME Structure, NEW p \in Processes, WriteCheckpoint(p)
  PROVE  /\ Structure'
         /\ \A ds \in Datasets : check'[ds].last =
              IF ds = Dataset(p) THEN Newest(proc[p].batch) ELSE check[ds].last
         /\ \E r \in Process : /\ Only(p, r) /\ r.at \in {"off", "idle", "fetch"} /\ r.held = Missing
                               /\ r.at = "fetch" => r.kind = proc[p].kind /\ r.once = proc[p].once
                               /\ r.at = "idle" => r.kind = proc[p].kind /\ ~r.once /\ ~proc[p].once
<1>1. TypeOK /\ Flow /\ HandFlowOf(hand) /\ proc[p].at = "checkpoint"
  BY DEF Structure, WriteCheckpoint
<1>2. Newest(proc[p].batch) \in Minutes /\ Dataset(p) \in Datasets
  BY <1>1, ProcFacts, NewestIsIn DEF FlowOf
<1>3. /\ check' \in [Datasets -> [last : Minutes \cup {-1}, error : BOOLEAN]]
      /\ \A ds \in Datasets : check'[ds].last =
           IF ds = Dataset(p) THEN Newest(proc[p].batch) ELSE check[ds].last
  <2>1. check \in [Datasets -> [last : Minutes \cup {-1}, error : BOOLEAN]]
    BY <1>1 DEF TypeOK
  <2>2. check' = [check EXCEPT ![Dataset(p)] = [last |-> Newest(proc[p].batch), error |-> FALSE]]
    BY DEF WriteCheckpoint
  <2> QED
    BY <1>2, <2>1, <2>2
<1>4. PICK r \in Process : /\ Only(p, r) /\ r.at \in {"off", "idle", "fetch"} /\ r.held = Missing
                           /\ r.at = "fetch" => r.kind = proc[p].kind /\ r.once = proc[p].once
                           /\ r.at = "idle" => r.kind = proc[p].kind /\ ~r.once /\ ~proc[p].once
  <2>1. CASE proc[p].step < Len(Writes[proc[p].kind])
    <3> DEFINE r == [Idle(p) EXCEPT !.at = "fetch", !.once = proc[p].once, !.step = proc[p].step + 1]
    <3>1. Set(p, r)
      BY <2>1 DEF WriteCheckpoint
    <3>2. /\ proc[p].kind \in Kinds /\ proc[p].once \in BOOLEAN
          /\ proc[p].step \in 1..Len(Writes[proc[p].kind])
      BY <1>1, ProcFacts DEF FlowOf
    <3>3. Len(Writes[proc[p].kind]) \in Nat
      BY <3>2, WritesFacts
    <3>4. proc[p].step + 1 \in 1..Len(Writes[proc[p].kind]) /\ proc[p].step + 1 \in Nat
      BY <2>1, <3>2, <3>3
    <3>5. /\ r \in Process /\ r.at = "fetch" /\ r.kind = proc[p].kind /\ r.once = proc[p].once
          /\ r.held = Missing /\ r.step = proc[p].step + 1
      BY <3>2, <3>4, OffFacts DEF Process, Idle
    <3>6. FlowOf(r)
      BY <3>4, <3>5 DEF FlowOf
    <3>7. Only(p, r)
      <4> HIDE DEF r
      <4> QED
        BY <1>1, <3>1, <3>5, <3>6, SetFacts DEF Only
    <3> QED
      BY <3>5, <3>7
  <2>2. CASE ~(proc[p].step < Len(Writes[proc[p].kind]))
    <3>1. Set(p, Rest(p))
      BY <2>2 DEF WriteCheckpoint
    <3>2. Only(p, Rest(p))
      BY <1>1, <3>1, RestFacts, SetFacts DEF Only
    <3> QED
      BY <1>1, <3>2, RestFacts
  <2> QED
    BY <2>1, <2>2
<1>5. UNCHANGED <<part, man, hand, copy, minute, bounds, history>>
  BY DEF WriteCheckpoint
<1>6. TypeOK'
  BY <1>1, <1>3, <1>4, <1>5 DEF TypeOK, Only, bounds, history
<1> QED
  BY <1>1, <1>3, <1>4, <1>5, <1>6 DEF Structure, Only

LEMMA EndFacts ==
  ASSUME Structure, NEW p \in Processes, Raise(p) \/ Die(p)
  PROVE  /\ Structure' /\ \A ds \in Datasets : check'[ds].last = check[ds].last
         /\ Only(p, Off) \/ Only(p, Rest(p))
         /\ undescribed' = undescribed \cup OwedSlots(p)
<1>1. TypeOK /\ Flow /\ HandFlowOf(hand)
  BY DEF Structure
<1>2. /\ Only(p, Off) \/ Only(p, Rest(p))
      /\ check' \in [Datasets -> [last : Minutes \cup {-1}, error : BOOLEAN]]
      /\ \A ds \in Datasets : check'[ds].last = check[ds].last
  <2>1. CASE Raise(p)
    BY <1>1, <2>1, GivenUpFacts DEF Raise
  <2>2. CASE Die(p)
    <3>1. Set(p, Off) /\ check' = check
      BY <2>2 DEF Die, files
    <3>2. Only(p, Off)
      BY <1>1, <3>1, OffFacts, SetFacts DEF Only
    <3> QED
      BY <1>1, <3>1, <3>2 DEF TypeOK
  <2> QED
    BY <2>1, <2>2
<1>3. /\ UNCHANGED <<part, man, hand, copy, minute, polls, audited, moved, raced>>
      /\ undescribed' = undescribed \cup OwedSlots(p) /\ Trouble
  BY DEF Raise, Die, files
<1>4. trouble' \in 0..MaxTrouble /\ undescribed' \in SUBSET Slots
  BY <1>1, <1>3, TroubleFacts, OwedFacts DEF TypeOK
<1>5. TypeOK'
  BY <1>1, <1>2, <1>3, <1>4 DEF TypeOK, Only
<1> QED
  BY <1>1, <1>2, <1>3, <1>5 DEF Structure, Only

-----------------------------------------------------------------------------
(* What the steps by hand and those of the backup do *)

LEMMA HandFacts ==
  ASSUME TypeOK, HandFlowOf(hand)
  PROVE  /\ NoHand \in Hand /\ HandFlowOf(NoHand) /\ NoHand.held = Missing /\ hand \in Hand
         /\ hand.at \in {"describe", "manifest"} =>
              /\ Min(hand.todo) \in Days /\ hand.ds \in Datasets
              /\ HandSlot \in Slots /\ HandSlot = <<hand.ds, Min(hand.todo)>>
              /\ Part(HandSlot) \in File
<1>1. NoHand \in Hand /\ HandFlowOf(NoHand) /\ NoHand.held = Missing
  BY FileFacts DEF NoHand, Hand, HandFlowOf, Datasets
<1>2. hand \in Hand
  BY DEF TypeOK
<1>3. ASSUME hand.at \in {"describe", "manifest"}
      PROVE  /\ Min(hand.todo) \in Days /\ hand.ds \in Datasets
             /\ HandSlot \in Slots /\ HandSlot = <<hand.ds, Min(hand.todo)>>
             /\ Part(HandSlot) \in File
  <2>1. hand.todo # {} /\ hand.todo \in SUBSET Days /\ hand.ds \in Datasets
    BY <1>2, <1>3 DEF HandFlowOf, Hand
  <2>2. Min(hand.todo) \in Days
    BY <2>1, DayInHand
  <2> QED
    BY <2>1, <2>2, SlotFacts DEF HandSlot
<1> QED
  BY <1>1, <1>2, <1>3

LEMMA OnwardFacts ==
  ASSUME TypeOK, HandFlowOf(hand), NEW h \in Hand
  PROVE  /\ Onward(h) \in Hand /\ HandFlowOf(Onward(h))
         /\ Onward(h).held \in {h.held, Missing}
<1>1. CASE h.todo # {}
  BY <1>1 DEF Onward, Hand, HandFlowOf
<1>2. CASE h.todo = {} /\ h.left # <<>>
  BY <1>2 DEF Onward, Hand, HandFlowOf
<1>3. CASE h.todo = {} /\ h.left = <<>>
  BY <1>3, HandFacts DEF Onward
<1> QED
  BY <1>1, <1>2, <1>3

\* A step by hand that writes no manifest.
LEMMA HandMoves ==
  ASSUME Structure,
         Audit \/ Glob \/ DescribeByHand \/ \E s \in Slots : Rebuild(s)
  PROVE  /\ Structure' /\ UNCHANGED <<files, proc, copy, minute, polls, history>>
         /\ trouble' >= trouble
         /\ hand'.held \in {Missing, hand.held} \cup {Part(s) : s \in Slots}
<1>1. TypeOK /\ Flow /\ HandFlowOf(hand)
  BY DEF Structure
<1>2. /\ UNCHANGED <<files, proc, copy, minute, polls, history>>
      /\ trouble' \in 0..MaxTrouble /\ trouble' >= trouble
  <2>1. CASE Glob \/ DescribeByHand
    BY <1>1, <2>1, BoundFacts DEF Glob, DescribeByHand, bounds, TypeOK
  <2>2. CASE Audit
    BY <1>1, <2>2, TroubleFacts DEF Audit
  <2>3. CASE \E s \in Slots : Rebuild(s)
    <3>1. Trouble /\ UNCHANGED <<files, proc, copy, minute, polls, history>>
      BY <2>3 DEF Rebuild
    <3> QED
      BY <1>1, <3>1, TroubleFacts
  <2> QED
    BY <2>1, <2>2, <2>3
<1>3. /\ hand' \in Hand /\ HandFlowOf(hand')
      /\ hand'.held \in {Missing, hand.held} \cup {Part(s) : s \in Slots}
  <2>1. CASE Audit
    <3>1. hand' = [NoHand EXCEPT !.at = "glob", !.by = "audit", !.left = InOrder]
      BY <2>1 DEF Audit
    <3>2. InOrder \in Seq(Datasets) /\ InOrder # <<>>
      BY DEF InOrder, Datasets
    <3> QED
      BY <1>1, <3>1, <3>2, HandFacts DEF Hand, HandFlowOf
  <2>2. CASE Glob
    <3> DEFINE h == [hand EXCEPT !.ds = Head(hand.left), !.left = Tail(hand.left),
                       !.todo = {d \in Days : Exists(<<Head(hand.left), d>>)}]
    <3>1. hand' = Onward(h) /\ hand.left # <<>> /\ hand \in Hand
      BY <1>1, <2>2 DEF Glob, HandFlowOf, TypeOK
    <3>2. Head(hand.left) \in Datasets /\ Tail(hand.left) \in Seq(Datasets)
      BY <3>1 DEF Hand
    <3>3. h \in Hand /\ h.held = hand.held
      BY <3>1, <3>2 DEF Hand
    <3> HIDE DEF h
    <3> QED
      BY <1>1, <3>1, <3>3, OnwardFacts
  <2>3. CASE DescribeByHand
    BY <1>1, <2>3, HandFacts DEF DescribeByHand, Hand, HandFlowOf
  <2>4. CASE \E s \in Slots : Rebuild(s)
    <3>1. PICK s \in Slots : hand' = [NoHand EXCEPT !.at = "describe", !.by = "rebuild",
                                                    !.ds = s[1], !.todo = {s[2]}]
      BY <2>4 DEF Rebuild
    <3>2. s[1] \in Datasets /\ s[2] \in Days
      BY DEF Slots
    <3> QED
      BY <1>1, <3>1, <3>2, HandFacts DEF Hand, HandFlowOf
  <2> QED
    BY <2>1, <2>2, <2>3, <2>4
<1>4. TypeOK'
  BY <1>1, <1>2, <1>3 DEF TypeOK, files, history
<1> QED
  BY <1>1, <1>2, <1>3, <1>4 DEF Structure, Flow

LEMMA HandWrites ==
  ASSUME Structure, WriteByHand
  PROVE  /\ Structure' /\ HandSlot \in Slots /\ hand'.held \in {Missing, hand.held}
         /\ \A s \in Slots : /\ Part(s)' = Part(s)
                            /\ Man(s)' = IF s = HandSlot
                                 THEN [sum |-> hand.held, by |-> ProvenanceOf(hand.by)] ELSE Man(s)
<1>1. TypeOK /\ Flow /\ HandFlowOf(hand) /\ hand.at = "manifest"
  BY DEF Structure, WriteByHand
<1>2. /\ Min(hand.todo) \in Days /\ hand.ds \in Datasets /\ hand \in Hand
      /\ HandSlot \in Slots /\ HandSlot = <<hand.ds, Min(hand.todo)>>
  BY <1>1, HandFacts
<1> DEFINE m == [sum |-> hand.held, by |-> ProvenanceOf(hand.by)]
<1>3. m \in Manifest
  BY <1>2 DEF Manifest, Provenance, ProvenanceOf, Hand
<1>4. man' = [man EXCEPT ![hand.ds][Min(hand.todo)] = m]
  BY DEF WriteByHand
<1>5. /\ man' \in [Datasets -> [Days -> Manifest]]
      /\ \A s \in Slots : Man(s)' = IF s = HandSlot THEN m ELSE Man(s)
  <2> HIDE DEF m
  <2> QED
    BY <1>1, <1>2, <1>3, <1>4, ManSet
<1> DEFINE h == [hand EXCEPT !.todo = @ \ {Min(@)}, !.held = Missing]
<1>6. h \in Hand /\ h.held = Missing
  BY <1>2, FileFacts DEF Hand
<1>7. hand' = Onward(h)
  BY DEF WriteByHand
<1>8. hand' \in Hand /\ HandFlowOf(hand') /\ hand'.held \in {Missing, hand.held}
  <2> HIDE DEF h
  <2> QED
    BY <1>1, <1>6, <1>7, OnwardFacts
<1>9. /\ UNCHANGED <<part, check, proc, copy, minute, bounds, raced>> /\ Moves(HandSlot)
      /\ undescribed' \subseteq undescribed \cup {HandSlot}
      /\ audited' \subseteq audited \cup {HandSlot}
  BY DEF WriteByHand
<1>10. moved' \in SUBSET Slots
  BY <1>1, <1>2, <1>9, MovesFacts
<1>11. TypeOK'
  BY <1>1, <1>2, <1>5, <1>8, <1>9, <1>10 DEF TypeOK, bounds
<1>12. \A s \in Slots : Part(s)' = Part(s)
  BY <1>9 DEF Part
<1> QED
  BY <1>1, <1>2, <1>5, <1>8, <1>9, <1>11, <1>12 DEF Structure, Flow

LEMMA AlterFacts ==
  ASSUME Structure, NEW s \in Slots, Alter(s)
  PROVE  /\ Structure' /\ UNCHANGED <<man, check, proc, hand, copy, raced, audited>>
         /\ trouble' = trouble + 1
         /\ Part(s)'.edit = trouble' /\ (Part(s).rows)' = Part(s).rows
         /\ \A t \in Slots : Man(t)' = Man(t) /\ (t # s => Part(t)' = Part(t))
<1>1. TypeOK /\ Flow /\ HandFlowOf(hand)
  BY DEF Structure
<1>2. /\ UNCHANGED <<man, check, proc, hand, copy, minute, polls, audited, raced>>
      /\ undescribed' = undescribed \cup {s} /\ Moves(s) /\ Trouble
      /\ part' = [part EXCEPT ![s[1]][s[2]].edit = trouble']
  BY DEF Alter
<1>3. s[1] \in Datasets /\ s[2] \in Days /\ s = <<s[1], s[2]>> /\ Part(s) \in File
  BY <1>1, SlotFacts
<1>4. trouble' \in 0..MaxTrouble /\ trouble' = trouble + 1
  BY <1>1, <1>2, TroubleFacts
<1> DEFINE f == [Part(s) EXCEPT !.edit = trouble']
<1>5. f \in File /\ f.edit = trouble' /\ f.rows = Part(s).rows
  BY <1>3, <1>4 DEF File
<1>6. part' = [part EXCEPT ![s[1]][s[2]] = f]
  BY <1>1, <1>2, <1>3 DEF Part
<1>7. /\ part' \in [Datasets -> [Days -> File]]
      /\ \A t \in Slots : Part(t)' = IF t = s THEN f ELSE Part(t)
  <2> HIDE DEF f
  <2> QED
    BY <1>1, <1>3, <1>5, <1>6, PartSet
<1>8. moved' \in SUBSET Slots
  BY <1>1, <1>2, MovesFacts
<1>9. TypeOK'
  BY <1>1, <1>2, <1>4, <1>7, <1>8 DEF TypeOK
<1>10. \A t \in Slots : Man(t)' = Man(t)
  BY <1>2 DEF Man
<1> QED
  BY <1>1, <1>2, <1>4, <1>5, <1>7, <1>9, <1>10 DEF Structure, Flow

LEMMA NoCopyFacts == NoCopy \in Copy
BY FileFacts, ClockFacts DEF NoCopy, Copy

LEMMA BackupFacts ==
  ASSUME Structure, Backup
  PROVE  /\ Structure' /\ UNCHANGED <<files, proc, hand, minute, polls, history>>
         /\ trouble' >= trouble
<1>1. TypeOK /\ Flow /\ HandFlowOf(hand)
  BY DEF Structure
<1>2. /\ UNCHANGED <<files, proc, hand, minute, polls, history>>
      /\ trouble' \in 0..MaxTrouble /\ trouble' >= trouble
  <2>1. CASE StartBackup \/ CopyFails
    BY <1>1, <2>1, TroubleFacts DEF StartBackup, CopyFails
  <2>2. CASE Verify \/ ListItems \/ CopyPartition \/ CheckCopy \/ CopyManifest \/ EndBackup
    BY <1>1, <2>2, BoundFacts DEF Verify, ListItems, CopyPartition, CheckCopy, CopyManifest,
         EndBackup, bounds, TypeOK
  <2> QED
    BY <2>1, <2>2 DEF Backup
<1>3. copy \in Copy /\ minute \in Minutes
  BY <1>1 DEF TypeOK
<1>4. copy' \in Copy
  <2>1. CASE StartBackup
    BY <1>3, <2>1, ClockFacts DEF StartBackup, Copy
  <2>2. CASE Verify
    <3>1. [copy EXCEPT !.todo = @ \ {First(@)}] \in Copy
      BY <1>3 DEF Copy
    <3>2. [NoCopy EXCEPT !.at = "refused"] \in Copy
      BY NoCopyFacts DEF Copy
    <3> QED
      BY <2>2, <3>1, <3>2 DEF Verify
  <2>3. CASE ListItems
    BY <1>3, <2>3 DEF ListItems, Copy
  <2>4. CASE CopyPartition
    <3> DEFINE x == First(copy.todo)
               P == [copy.part EXCEPT ![x] = Part(x)]
    <3>1. P \in [Slots -> File]
      BY <1>1, <1>3, SlotFacts DEF Copy
    <3>2. copy' = [copy EXCEPT !.at = "check", !.part = P]
      BY <2>4, <1>3 DEF CopyPartition, Copy
    <3> HIDE DEF P
    <3> QED
      BY <1>3, <3>1, <3>2 DEF Copy
  <2>5. CASE CheckCopy
    <3>1. (copy.failed \/ copy.part[First(copy.todo)] # Part(First(copy.todo))) \in BOOLEAN
      BY <1>3 DEF Copy
    <3> QED
      BY <1>3, <2>5, <3>1 DEF CheckCopy, Copy
  <2>6. CASE CopyManifest
    <3> DEFINE x == First(copy.then)
               M == [copy.man EXCEPT ![x] = Man(x)]
    <3>1. M \in [Slots -> Manifest]
      BY <1>1, <1>3, SlotFacts DEF Copy
    <3>2. copy' = [copy EXCEPT !.then = copy.then \ {x}, !.man = M]
      BY <2>6, <1>3 DEF CopyManifest, Copy
    <3> HIDE DEF M, x
    <3> QED
      BY <1>3, <3>1, <3>2 DEF Copy
  <2>7. CASE CopyFails
    BY <1>3, <2>7 DEF CopyFails, Copy
  <2>8. CASE EndBackup
    BY <1>3, <2>8 DEF EndBackup, Copy
  <2> QED
    BY <2>1, <2>2, <2>3, <2>4, <2>5, <2>6, <2>7, <2>8 DEF Backup
<1>5. TypeOK'
  BY <1>1, <1>2, <1>4 DEF TypeOK, files, history
<1> QED
  BY <1>1, <1>2, <1>5 DEF Structure, Flow

LEMMA TickFacts ==
  ASSUME Structure, Tick
  PROVE  Structure' /\ UNCHANGED <<files, proc, hand, copy, bounds, history>>
<1>1. UNCHANGED <<files, proc, hand, copy, bounds, history>>
  BY DEF Tick
<1>2. minute' \in Minutes
  BY ClockFacts DEF Tick, Structure, TypeOK, Minutes
<1> QED
  BY <1>1, <1>2 DEF Structure, TypeOK, Flow, files, bounds, history

-----------------------------------------------------------------------------
(* The processes of a recorder *)

LEMMA SameProcess ==
  ASSUME NEW q, proc'[q] = proc[q]
  PROVE  /\ Dataset(q)' = Dataset(q) /\ Today(q)' = Today(q) /\ Slot(q)' = Slot(q)
         /\ Owed(q)' = Owed(q) /\ Busy(q)' = Busy(q)
BY DEF Dataset, Today, Slot, Owed, Busy

LEMMA OrderKept ==
  ASSUME Order, raced' = raced, NEW p \in Processes, NEW r \in Process, Only(p, r),
         \/ r.at = "off"
         \/ /\ proc[p].at # "off" /\ r.kind = proc[p].kind /\ r.once = proc[p].once
            /\ r.at = "idle" \/ Busy(p)
  PROVE  Order'
<1>1. OneRun'
  BY DEF Order, OneRun, Only
<1>2. Alone'
  BY DEF Order, Alone, Only, Busy
<1> QED
  BY <1>1, <1>2 DEF Order

LEMMA OrderByRecorder ==
  ASSUME Structure, Order, NEW p \in Processes, Recorder(p)
  PROVE  Order'
<1>1. TypeOK /\ Flow
  BY DEF Structure
<1>2. ASSUME NEW k \in Kinds, Start(p, k) \/ StartOnce(p, k)  PROVE Order'
  <2>1. proc[p].at = "off" /\ raced' = raced
    BY <1>2 DEF Start, StartOnce, history
  <2>2. PICK r \in Process : Only(p, r) /\ r.at = "idle" /\ r.kind = k /\ (r.once \/ ~Locked(k))
    BY <1>2, StartFacts
  <2>3. OneRun'
    BY <2>1, <2>2 DEF Order, OneRun, Only, Locked
  <2>4. Alone'
    BY <2>1, <2>2 DEF Order, Alone, Only, Busy
  <2> QED
    BY <2>3, <2>4 DEF Order
<1>3. CASE Poll(p)
  <2> DEFINE r == [proc[p] EXCEPT !.at = "fetch"]
  <2>1. Only(p, r)
    BY <1>3, PollFacts
  <2>2. r.kind = proc[p].kind /\ r.once = proc[p].once /\ r.at = "fetch" /\ proc[p].at = "idle"
    BY <1>1, <1>3, ProcFacts DEF Process, Poll
  <2>3. raced' = (raced \/ \E q \in Processes \ {p} :
                    Busy(q) /\ proc[q].kind = proc[p].kind /\ (proc[p].once \/ proc[q].once))
    BY <1>3 DEF Poll
  <2> HIDE DEF r
  <2>4. OneRun'
    BY <2>1, <2>2 DEF Order, OneRun, Only
  <2>5. Alone'
    <3> SUFFICES ASSUME ~raced', NEW a \in Processes, NEW b \in Processes, a # b,
                        proc'[a].at \notin {"off", "idle"}, proc'[b].at \notin {"off", "idle"}
                 PROVE  proc'[a].kind # proc'[b].kind
      BY DEF Alone, Busy
    <3>1. CASE a # p /\ b # p
      BY <2>1, <2>3, <3>1 DEF Order, Alone, Only, Busy
    <3>2. ASSUME NEW q \in Processes \ {p}, Busy(q)  PROVE proc[q].kind # proc[p].kind
      <4>1. ~(proc[q].kind = proc[p].kind /\ (proc[p].once \/ proc[q].once))
        BY <2>3, <3>2
      <4>2. proc[q].at # "off" /\ proc[p].at # "off"
        BY <2>2, <3>2 DEF Busy
      <4> QED
        BY <4>1, <4>2 DEF Order, OneRun
    <3>3. CASE a = p \/ b = p
      BY <2>1, <2>2, <3>2, <3>3 DEF Only, Busy
    <3> QED
      BY <3>1, <3>3
  <2> QED
    BY <2>4, <2>5 DEF Order
<1>4. CASE Fetch(p)
  <2>1. proc[p].at = "fetch" /\ raced' = raced /\ Busy(p)
    BY <1>4 DEF Fetch, history, Busy
  <2>2. CASE Only(p, Rest(p))
    <3>1. Rest(p) \in Process
      BY <1>1, RestFacts
    <3> QED
      BY <1>1, <2>1, <2>2, <3>1, RestSame, OrderKept
  <2>3. ASSUME NEW B \in SUBSET Row,
               Only(p, [proc[p] EXCEPT !.at = "append", !.batch = B, !.todo = DaysOf(B)])
        PROVE  Order'
    <3> DEFINE r == [proc[p] EXCEPT !.at = "append", !.batch = B, !.todo = DaysOf(B)]
    <3>1. r.kind = proc[p].kind /\ r.once = proc[p].once /\ r \in Process
      BY <1>1, ProcFacts, BatchFacts DEF Process
    <3>2. Only(p, r)
      BY <2>3
    <3> HIDE DEF r
    <3> QED
      BY <2>1, <3>1, <3>2, OrderKept
  <2> QED
    BY <1>4, <2>2, <2>3, FetchFacts
<1>5. CASE ReadPartition(p) \/ Describe(p)
  <2>1. Busy(p) /\ proc[p].at # "off" /\ raced' = raced
    BY <1>5 DEF ReadPartition, Describe, Busy, history
  <2>2. PICK r \in Process : Only(p, r) /\ r.kind = proc[p].kind /\ r.once = proc[p].once
    <3>1. ASSUME NEW at, NEW held, Only(p, [proc[p] EXCEPT !.at = at, !.held = held])
          PROVE  \E r \in Process : Only(p, r) /\ r.kind = proc[p].kind /\ r.once = proc[p].once
      <4> DEFINE r == [proc[p] EXCEPT !.at = at, !.held = held]
      <4>1. r.kind = proc[p].kind /\ r.once = proc[p].once
        BY <1>1, ProcFacts DEF Process
      <4>2. r \in Process /\ Only(p, r)
        BY <3>1 DEF Only
      <4> QED
        BY <4>1, <4>2
    <3> QED
      BY <1>5, <3>1, ReadFacts, DescribeFacts
  <2> QED
    BY <2>1, <2>2, OrderKept
<1>6. CASE ReplacePartition(p)
  <2>1. Busy(p) /\ proc[p].at = "replace" /\ raced' = raced
    BY <1>6 DEF ReplacePartition, Busy
  <2>2. Only(p, Appended(p)) /\ GoesOn(Appended(p), p) /\ Appended(p) \in Process
    BY <1>1, <1>6, <2>1, ReplaceFacts, AppendedFacts
  <2> QED
    BY <2>1, <2>2, OrderKept DEF GoesOn
<1>7. CASE WriteManifest(p)
  <2>1. Busy(p) /\ proc[p].at = "manifest" /\ raced' = raced
    BY <1>7 DEF WriteManifest, Busy
  <2>2. Only(p, After(p)) /\ After(p) \in Process
    BY <1>1, <1>7, <2>1, ManifestFacts, AfterFacts
  <2>3. \/ After(p).at = "off"
        \/ After(p).kind = proc[p].kind /\ After(p).once = proc[p].once
    BY <1>1, <2>1, <2>2, AfterFacts, ProcFacts DEF GoesOn, Process
  <2> QED
    BY <2>1, <2>2, <2>3, OrderKept
<1>8. CASE WriteCheckpoint(p)
  <2>1. Busy(p) /\ proc[p].at = "checkpoint" /\ raced' = raced
    BY <1>8 DEF WriteCheckpoint, Busy, history
  <2>2. PICK r \in Process :
             /\ Only(p, r) /\ r.at \in {"off", "idle", "fetch"}
             /\ r.at = "fetch" => r.kind = proc[p].kind /\ r.once = proc[p].once
             /\ r.at = "idle" => r.kind = proc[p].kind /\ ~r.once /\ ~proc[p].once
    BY <1>8, CheckpointFacts
  <2>3. r.at = "off" \/ (r.kind = proc[p].kind /\ r.once = proc[p].once)
    BY <1>1, <2>2, ProcFacts DEF Process
  <2> QED
    BY <2>1, <2>2, <2>3, OrderKept
<1>9. CASE Raise(p) \/ Die(p)
  <2>1. proc[p].at # "off" /\ raced' = raced
    BY <1>9 DEF Raise, Die, Busy
  <2>2. Only(p, Off) \/ Only(p, Rest(p))
    BY <1>9, EndFacts
  <2>3. CASE Only(p, Off)
    BY <2>1, <2>3, OffFacts, OrderKept
  <2>4. CASE Only(p, Rest(p))
    <3>1. Rest(p) \in Process
      BY <1>1, RestFacts
    <3> QED
      BY <1>1, <2>1, <2>4, <3>1, RestSame, OrderKept
  <2> QED
    BY <2>2, <2>3, <2>4
<1> QED
  BY <1>2, <1>3, <1>4, <1>5, <1>6, <1>7, <1>8, <1>9 DEF Recorder

\* Two polls at work beside no --once run have different partitions in hand.
LEMMA Apart ==
  ASSUME Structure, Order, ~raced, NEW p \in Processes, NEW q \in Processes, p # q,
         Busy(p), Busy(q)
  PROVE  Dataset(p) # Dataset(q) /\ Slot(p) # Slot(q)
<1>1. proc[p].kind # proc[q].kind /\ proc[p].kind \in Kinds /\ proc[q].kind \in Kinds
  BY ProcFacts DEF Order, Alone, Structure
<1>2. /\ proc[p].step \in 1..Len(Writes[proc[p].kind])
      /\ proc[q].step \in 1..Len(Writes[proc[q].kind])
  BY ProcFacts DEF Structure, FlowOf
<1>3. Dataset(p) # Dataset(q)
  BY <1>1, <1>2, WritesFacts DEF Dataset
<1> QED
  BY <1>3 DEF Slot

-----------------------------------------------------------------------------
(* What is held in memory, and how alterations are numbered *)

\* A process that does nothing, when nobody replaces the partition it has in hand.
LEMMA HoldsStay ==
  ASSUME Structure, NEW q \in Processes, HoldsAll(q), HoldsLatest(q), proc'[q] = proc[q],
         \A s \in Slots : s = Slot(q) /\ Busy(q) =>
           /\ (Part(s).rows)' = Part(s).rows
           /\ Part(s)' = Part(s) \/ s \in undescribed'
           /\ s \in undescribed => s \in undescribed'
  PROVE  HoldsAll(q)' /\ HoldsLatest(q)'
<1>1. Slot(q)' = Slot(q)
  BY SameProcess
<1>2. ASSUME proc[q].at \in {"replace", "manifest"}
      PROVE  /\ Slot(q) \in Slots /\ Busy(q)
             /\ Part(Slot(q))'.rows = Part(Slot(q)).rows
             /\ Part(Slot(q))' = Part(Slot(q)) \/ Slot(q)' \in undescribed'
             /\ Slot(q) \in undescribed => Slot(q)' \in undescribed'
  <2>1. Slot(q) \in Slots /\ Busy(q)
    BY <1>2, SlotInHand DEF Structure, Busy
  <2> QED
    BY <1>1, <2>1 DEF Part
<1>3. HoldsAll(q)'
  <2> SUFFICES ASSUME proc'[q].at = "replace"
               PROVE  Times(Part(Slot(q))'.rows) \subseteq Times(proc'[q].held.rows)
    BY DEF HoldsAll, Times
  <2> QED
    BY <1>2 DEF HoldsAll, Times
<1>4. HoldsLatest(q)'
  <2> SUFFICES ASSUME proc'[q].at = "manifest"
               PROVE  proc'[q].held = Part(Slot(q))' \/ Slot(q)' \in undescribed'
    BY DEF HoldsLatest
  <2> QED
    BY <1>2 DEF HoldsLatest
<1> QED
  BY <1>3, <1>4

\* Process p goes to r, and holds nothing then.
LEMMA HoldsKept ==
  ASSUME Structure, Holds, NEW p \in Processes, NEW r, Only(p, r),
         r.at \notin {"replace", "manifest"}, raced => raced', undescribed \subseteq undescribed',
         \A s \in Slots : Part(s)' = Part(s)
  PROVE  Holds'
<1> SUFFICES ASSUME ~raced', NEW q \in Processes  PROVE HoldsAll(q)' /\ HoldsLatest(q)'
  BY DEF Holds
<1>1. CASE q = p
  BY <1>1 DEF Only, HoldsAll, HoldsLatest
<1>2. CASE q # p
  BY <1>2, HoldsStay DEF Only, Holds
<1> QED
  BY <1>1, <1>2

LEMMA HoldsByRecorder ==
  ASSUME Structure, Order, Holds, NEW p \in Processes, Recorder(p)
  PROVE  Holds'
<1>1. TypeOK /\ Flow
  BY DEF Structure
<1>2. ASSUME NEW k \in Kinds, Start(p, k) \/ StartOnce(p, k)  PROVE Holds'
  <2>1. UNCHANGED <<files, history>>
    BY <1>2 DEF Start, StartOnce
  <2>2. PICK r \in Process : Only(p, r) /\ r.at = "idle"
    BY <1>2, StartFacts
  <2> QED
    BY <2>1, <2>2, HoldsKept, Untouched DEF files, history
<1>3. CASE Poll(p)
  <2> DEFINE r == [proc[p] EXCEPT !.at = "fetch"]
  <2>1. Only(p, r) /\ r.at = "fetch"
    BY <1>1, <1>3, PollFacts, ProcFacts DEF Process
  <2>2. UNCHANGED <<files, undescribed>> /\ (raced => raced')
    BY <1>3 DEF Poll
  <2> HIDE DEF r
  <2> QED
    BY <2>1, <2>2, HoldsKept, Untouched DEF files
<1>4. CASE Fetch(p)
  <2>1. UNCHANGED <<part, man, history>>
    BY <1>4 DEF Fetch
  <2>2. PICK r : Only(p, r) /\ r.at \notin {"replace", "manifest"}
    <3>1. CASE Only(p, Rest(p))
      BY <1>1, <3>1, RestFacts
    <3>2. ASSUME NEW B \in SUBSET Row,
                 Only(p, [proc[p] EXCEPT !.at = "append", !.batch = B, !.todo = DaysOf(B)])
          PROVE  \E r : Only(p, r) /\ r.at \notin {"replace", "manifest"}
      <4> DEFINE r == [proc[p] EXCEPT !.at = "append", !.batch = B, !.todo = DaysOf(B)]
      <4>1. r.at = "append"
        BY <1>1, ProcFacts DEF Process
      <4>2. Only(p, r)
        BY <3>2
      <4> QED
        BY <4>1, <4>2
    <3> QED
      BY <1>4, <3>1, <3>2, FetchFacts
  <2> QED
    BY <2>1, <2>2, HoldsKept, Untouched DEF history
<1>5. CASE ReadPartition(p)
  <2> DEFINE f == Merged(Part(Slot(p)), OfDay(proc[p].batch, Today(p)))
             r == [proc[p] EXCEPT !.at = "replace", !.held = f]
  <2>1. /\ Only(p, r) /\ r.at = "replace" /\ r.held = f
        /\ r.kind = proc[p].kind /\ r.step = proc[p].step /\ r.todo = proc[p].todo
    BY <1>1, <1>5, ReadFacts, ProcFacts DEF Process
  <2>2. UNCHANGED <<part, man, history>> /\ proc[p].at = "append"
    BY <1>5 DEF ReadPartition, files
  <2>3. Times(Part(Slot(p)).rows) \subseteq Times(f.rows)
    <3>1. OfDay(proc[p].batch, Today(p)) \in SUBSET Row /\ Part(Slot(p)) \in File
      BY <1>1, <2>2, ProcFacts, SlotInHand DEF OfDay
    <3> QED
      BY <3>1, MergedFacts
  <2> HIDE DEF f
  <2>4. proc'[p] = r
    BY <2>1 DEF Only
  <2> HIDE DEF r
  <2>5. Slot(p)' = Slot(p)
    BY <2>1, <2>4 DEF Slot, Dataset, Today
  <2>6. HoldsAll(p)' /\ HoldsLatest(p)'
    BY <2>1, <2>2, <2>3, <2>4, <2>5 DEF HoldsAll, HoldsLatest, Part
  <2>7. ASSUME ~raced, NEW q \in Processes, q # p  PROVE HoldsAll(q)' /\ HoldsLatest(q)'
    BY <2>1, <2>2, <2>7, HoldsStay, Untouched DEF Only, Holds, history
  <2> QED
    BY <2>2, <2>6, <2>7 DEF Holds, history
<1>6. CASE Describe(p)
  <2> DEFINE f == Part(Slot(p))
             r == [proc[p] EXCEPT !.at = "manifest", !.held = f]
  <2>1. /\ Only(p, r) /\ r.at = "manifest" /\ r.held = f
        /\ r.kind = proc[p].kind /\ r.step = proc[p].step /\ r.todo = proc[p].todo
    BY <1>1, <1>6, DescribeFacts, ProcFacts DEF Process
  <2>2. UNCHANGED <<part, man, history>>
    BY <1>6 DEF Describe, files
  <2> HIDE DEF f
  <2>3. proc'[p] = r
    BY <2>1 DEF Only
  <2> HIDE DEF r
  <2>4. Slot(p)' = Slot(p)
    BY <2>1, <2>3 DEF Slot, Dataset, Today
  <2>5. HoldsAll(p)' /\ HoldsLatest(p)'
    BY <2>1, <2>2, <2>3, <2>4 DEF HoldsAll, HoldsLatest, Part, f
  <2>6. ASSUME ~raced, NEW q \in Processes, q # p  PROVE HoldsAll(q)' /\ HoldsLatest(q)'
    BY <2>1, <2>2, <2>6, HoldsStay, Untouched DEF Only, Holds, history
  <2> QED
    BY <2>2, <2>5, <2>6 DEF Holds, history
<1>7. CASE ReplacePartition(p) \/ WriteManifest(p)
  <2>1. /\ proc[p].at \in {"replace", "manifest"} /\ Busy(p) /\ raced' = raced
        /\ undescribed \ {Slot(p)} \subseteq undescribed'
    BY <1>7 DEF ReplacePartition, WriteManifest, Busy
  <2>2. PICK r : Only(p, r) /\ r.at \notin {"replace", "manifest"}
    BY <1>1, <1>7, ReplaceFacts, AppendedFacts, ManifestFacts, AfterFacts
       DEF ReplacePartition, WriteManifest
  <2>3. \A s \in Slots : s # Slot(p) => Part(s)' = Part(s)
    BY <1>7, ReplaceFacts, ManifestFacts
  <2> SUFFICES ASSUME ~raced', NEW q \in Processes  PROVE HoldsAll(q)' /\ HoldsLatest(q)'
    BY DEF Holds
  <2>4. CASE q = p
    BY <2>2, <2>4 DEF Only, HoldsAll, HoldsLatest
  <2>5. CASE q # p
    <3>1. HoldsAll(q) /\ HoldsLatest(q) /\ proc'[q] = proc[q]
      BY <2>1, <2>2, <2>5 DEF Holds, Only
    <3>2. Busy(q) => Slot(q) # Slot(p)
      BY <2>1, <2>5, Apart
    <3> QED
      BY <2>1, <2>3, <3>1, <3>2, HoldsStay
  <2> QED
    BY <2>4, <2>5
<1>8. CASE WriteCheckpoint(p)
  <2>1. UNCHANGED <<part, man, history>>
    BY <1>8 DEF WriteCheckpoint
  <2>2. PICK r : Only(p, r) /\ r.at \notin {"replace", "manifest"}
    BY <1>8, CheckpointFacts
  <2> QED
    BY <2>1, <2>2, HoldsKept, Untouched DEF history
<1>9. CASE Raise(p) \/ Die(p)
  <2>1. UNCHANGED <<part, man, raced>> /\ undescribed \subseteq undescribed'
    BY <1>9 DEF Raise, Die, files
  <2>2. PICK r : Only(p, r) /\ r.at \notin {"replace", "manifest"}
    BY <1>1, <1>9, EndFacts, OffFacts, RestFacts
  <2> QED
    BY <2>1, <2>2, HoldsKept, Untouched
<1> QED
  BY <1>2, <1>3, <1>4, <1>5, <1>6, <1>7, <1>8, <1>9 DEF Recorder

LEMMA HoldsByOthers ==
  ASSUME Structure, Holds,
         ByHand \/ Backup \/ Tick \/ \E s \in Slots : Alter(s)
  PROVE  Holds'
<1>1. ASSUME UNCHANGED <<part, man, proc, raced>>, undescribed \subseteq undescribed'
      PROVE  Holds'
  <2> SUFFICES ASSUME ~raced', NEW q \in Processes  PROVE HoldsAll(q)' /\ HoldsLatest(q)'
    BY DEF Holds
  <2> QED
    BY <1>1, Untouched, HoldsStay DEF Holds
<1>2. CASE ByHand /\ ~WriteByHand
  BY <1>1, <1>2, HandMoves DEF ByHand, files, history
<1>3. CASE WriteByHand
  <2>1. UNCHANGED <<part, proc, raced>> /\ undescribed \subseteq undescribed'
    BY <1>3 DEF WriteByHand
  <2>2. \A s \in Slots : Part(s)' = Part(s)
    BY <2>1 DEF Part
  <2> SUFFICES ASSUME ~raced', NEW q \in Processes  PROVE HoldsAll(q)' /\ HoldsLatest(q)'
    BY DEF Holds
  <2> QED
    BY <2>1, <2>2, HoldsStay DEF Holds
<1>4. CASE Backup
  BY <1>1, <1>4, BackupFacts DEF files, history
<1>5. CASE Tick
  BY <1>1, <1>5, TickFacts DEF files, history
<1>6. ASSUME NEW s \in Slots, Alter(s)  PROVE Holds'
  <2>1. UNCHANGED <<proc, raced>> /\ undescribed' = undescribed \cup {s}
    BY <1>6 DEF Alter
  <2>2. /\ (Part(s).rows)' = Part(s).rows
        /\ \A t \in Slots : t # s => Part(t)' = Part(t)
    BY <1>6, AlterFacts
  <2> SUFFICES ASSUME ~raced', NEW q \in Processes  PROVE HoldsAll(q)' /\ HoldsLatest(q)'
    BY DEF Holds
  <2> QED
    BY <2>1, <2>2, HoldsStay DEF Holds
<1> QED
  BY <1>2, <1>3, <1>4, <1>5, <1>6

LEMMA RecorderTrouble ==
  ASSUME Structure, NEW p \in Processes, Recorder(p)
  PROVE  /\ trouble \in Nat /\ trouble' \in Nat /\ trouble' >= trouble
         /\ hand' = hand /\ copy' = copy
<1>1. TypeOK /\ trouble \in Nat
  BY BoundFacts DEF Structure, TypeOK
<1>2. ASSUME NEW k \in Kinds, Start(p, k) \/ StartOnce(p, k)
      PROVE  trouble' \in Nat /\ trouble' >= trouble
  BY <1>1, <1>2, TroubleFacts DEF Start, StartOnce, bounds
<1>3. CASE \/ Poll(p) \/ Fetch(p) \/ ReadPartition(p) \/ ReplacePartition(p) \/ Describe(p)
           \/ WriteManifest(p) \/ WriteCheckpoint(p)
  BY <1>1, <1>3 DEF Poll, Fetch, ReadPartition, ReplacePartition, Describe, WriteManifest,
       WriteCheckpoint, bounds
<1>4. CASE Raise(p) \/ Die(p)
  BY <1>1, <1>4, TroubleFacts DEF Raise, Die
<1>5. hand' = hand /\ copy' = copy
  BY DEF Recorder, Start, StartOnce, Poll, Fetch, ReadPartition, ReplacePartition, Describe,
     WriteManifest, WriteCheckpoint, Raise, Die
<1> QED
  BY <1>1, <1>2, <1>3, <1>4, <1>5 DEF Recorder

LEMMA StampedByRecorder ==
  ASSUME Structure, Stamped, NEW p \in Processes, Recorder(p)
  PROVE  Stamped'
<1>1. TypeOK /\ Flow
  BY DEF Structure
<1>2. trouble \in Nat /\ trouble' \in Nat /\ trouble' >= trouble /\ hand' = hand
  BY RecorderTrouble
<1>3. /\ \A s \in Slots : Part(s)'.edit \in 0..trouble /\ Man(s)'.sum.edit \in 0..trouble
  <2>1. CASE ReplacePartition(p)
    BY <2>1, ReplaceFacts DEF Stamped
  <2>2. CASE WriteManifest(p)
    BY <2>2, ManifestFacts DEF Stamped
  <2>3. CASE ~ReplacePartition(p) /\ ~WriteManifest(p)
    <3>1. part' = part /\ man' = man
      BY <2>3 DEF Recorder, Start, StartOnce, Poll, Fetch, ReadPartition, Describe,
         WriteCheckpoint, Raise, Die, files
    <3> QED
      BY <3>1, Untouched DEF Stamped
  <2> QED
    BY <2>1, <2>2, <2>3
<1>4. PICK r : Only(p, r) /\ r.held.edit \in 0..trouble
  <2>1. Missing.edit \in 0..trouble
    BY <1>2, FileFacts
  <2>2. ASSUME NEW k \in Kinds, Start(p, k) \/ StartOnce(p, k)
        PROVE  \E r : Only(p, r) /\ r.held.edit \in 0..trouble
    BY <2>1, <2>2, StartFacts
  <2>3. ASSUME NEW r, Only(p, r), r.held = proc[p].held \/ r.held = Missing
        PROVE  \E x : Only(p, x) /\ x.held.edit \in 0..trouble
    BY <2>1, <2>3 DEF Stamped
  <2>4. CASE Poll(p)
    <3>1. [proc[p] EXCEPT !.at = "fetch"].held = proc[p].held
      BY <1>1, ProcFacts DEF Process
    <3> QED
      BY <2>3, <2>4, <3>1, PollFacts
  <2>5. CASE Fetch(p)
    <3>1. ASSUME NEW B \in SUBSET Row
          PROVE  [proc[p] EXCEPT !.at = "append", !.batch = B, !.todo = DaysOf(B)].held = proc[p].held
      BY <1>1, ProcFacts DEF Process
    <3> QED
      BY <1>1, <2>3, <2>5, <3>1, FetchFacts, RestFacts
  <2>6. CASE ReadPartition(p)
    <3> DEFINE f == Merged(Part(Slot(p)), OfDay(proc[p].batch, Today(p)))
               r == [proc[p] EXCEPT !.at = "replace", !.held = f]
    <3>1. Only(p, r) /\ r.held = f
      BY <1>1, <2>6, ReadFacts, ProcFacts DEF Process
    <3>2. f.edit = Part(Slot(p)).edit /\ Slot(p) \in Slots
      <4>1. proc[p].at = "append"
        BY <2>6 DEF ReadPartition
      <4>2. OfDay(proc[p].batch, Today(p)) \in SUBSET Row /\ Part(Slot(p)) \in File /\ Slot(p) \in Slots
        BY <1>1, <4>1, ProcFacts, SlotInHand DEF OfDay
      <4> QED
        BY <4>2, MergedFacts
    <3> HIDE DEF f
    <3>3. r.held.edit \in 0..trouble
      BY <3>1, <3>2 DEF Stamped
    <3> HIDE DEF r
    <3> QED
      BY <3>1, <3>3
  <2>7. CASE ReplacePartition(p)
    BY <1>1, <2>3, <2>7, ReplaceFacts, AppendedFacts DEF ReplacePartition
  <2>8. CASE Describe(p)
    <3> DEFINE f == Part(Slot(p))
               r == [proc[p] EXCEPT !.at = "manifest", !.held = f]
    <3>1. Only(p, r) /\ r.held = f
      BY <1>1, <2>8, DescribeFacts, ProcFacts DEF Process
    <3>2. Slot(p) \in Slots
      BY <1>1, <2>8, DescribeFacts, SlotInHand
    <3>3. r.held.edit \in 0..trouble
      BY <3>1, <3>2 DEF Stamped
    <3> HIDE DEF r
    <3> QED
      BY <3>1, <3>3
  <2>9. CASE WriteManifest(p)
    BY <1>1, <2>3, <2>9, ManifestFacts, AfterFacts DEF WriteManifest
  <2>10. CASE WriteCheckpoint(p)
    BY <2>3, <2>10, CheckpointFacts
  <2>11. CASE Raise(p) \/ Die(p)
    BY <1>1, <2>3, <2>11, EndFacts, OffFacts, RestFacts
  <2> QED
    BY <2>2, <2>4, <2>5, <2>6, <2>7, <2>8, <2>9, <2>10, <2>11 DEF Recorder
<1>5. \A q \in Processes : proc'[q].held.edit \in 0..trouble
  BY <1>4 DEF Only, Stamped
<1>6. \A n \in 0..trouble : n \in 0..trouble'
  BY <1>2
<1> QED
  BY <1>2, <1>3, <1>5, <1>6 DEF Stamped

LEMMA StampedByOthers ==
  ASSUME Structure, Stamped, ByHand \/ Backup \/ Tick \/ \E s \in Slots : Alter(s)
  PROVE  Stamped'
<1>1. TypeOK /\ trouble \in Nat /\ Missing.edit \in 0..trouble
  BY BoundFacts, FileFacts DEF Structure, TypeOK
<1>2. /\ proc' = proc /\ trouble' \in Nat /\ trouble' >= trouble
      /\ hand'.held.edit \in 0..trouble'
      /\ \A s \in Slots : Part(s)'.edit \in 0..trouble' /\ Man(s)'.sum.edit \in 0..trouble'
  <2>1. CASE ByHand /\ ~WriteByHand
    <3>1. /\ Structure' /\ UNCHANGED <<part, man, proc>> /\ trouble' >= trouble
          /\ hand'.held \in {Missing, hand.held} \cup {Part(s) : s \in Slots}
      BY <2>1, HandMoves DEF ByHand, files
    <3>2. trouble' \in Nat
      BY <3>1, BoundFacts DEF Structure, TypeOK
    <3>3. hand'.held.edit \in 0..trouble
      BY <1>1, <3>1 DEF Stamped
    <3> QED
      BY <1>1, <3>1, <3>2, <3>3, Untouched DEF Stamped
  <2>2. CASE WriteByHand
    <3>1. proc' = proc /\ trouble' = trouble
      BY <2>2 DEF WriteByHand, bounds
    <3>2. hand'.held.edit \in 0..trouble
      BY <1>1, <2>2, HandWrites DEF Stamped
    <3> QED
      BY <1>1, <2>2, <3>1, <3>2, HandWrites DEF Stamped
  <2>3. CASE Backup
    <3>1. Structure' /\ UNCHANGED <<part, man, proc, hand>> /\ trouble' >= trouble
      BY <2>3, BackupFacts DEF files
    <3>2. trouble' \in Nat
      BY <3>1, BoundFacts DEF Structure, TypeOK
    <3> QED
      BY <1>1, <3>1, <3>2, Untouched DEF Stamped
  <2>4. CASE Tick
    <3>1. UNCHANGED <<part, man, proc, hand, trouble>>
      BY <2>4, TickFacts DEF files, bounds
    <3> QED
      BY <1>1, <3>1, Untouched DEF Stamped
  <2>5. ASSUME NEW s \in Slots, Alter(s)  PROVE <1>2!:
    <3>1. UNCHANGED <<proc, hand>> /\ trouble' = trouble + 1 /\ Part(s)'.edit = trouble'
      BY <2>5, AlterFacts
    <3>2. \A t \in Slots : Man(t)' = Man(t) /\ (t # s => Part(t)' = Part(t))
      BY <2>5, AlterFacts
    <3>3. \A n \in 0..trouble : n \in 0..trouble'
      BY <1>1, <3>1
    <3>4. \A t \in Slots : Part(t)'.edit \in 0..trouble'
      BY <1>1, <3>1, <3>2, <3>3 DEF Stamped
    <3> QED
      BY <1>1, <3>1, <3>2, <3>3, <3>4 DEF Stamped
  <2> QED
    BY <2>1, <2>2, <2>3, <2>4, <2>5
<1>3. \A n \in 0..trouble : n \in 0..trouble'
  BY <1>1, <1>2
<1> QED
  BY <1>1, <1>2, <1>3 DEF Stamped

-----------------------------------------------------------------------------
(* Partitions and their manifests *)

LEMMA SameFiles ==
  ASSUME NEW s, Part(s)' = Part(s), Man(s)' = Man(s)
  PROVE  (Exists(s)' <=> Exists(s)) /\ (Described(s)' <=> Described(s))
BY DEF Exists, Described

\* Nothing is replaced, and what process p still owed it owes or leaves behind.
LEMMA AgreeKept ==
  ASSUME Structure, ManifestsAgree, NEW p \in Processes, NEW r, Only(p, r),
         raced => raced', undescribed \subseteq undescribed',
         \A s \in Slots : Part(s)' = Part(s) /\ Man(s)' = Man(s),
         \A d \in Owed(p) : \/ <<Dataset(p), d>> \in undescribed' \/ Described(<<Dataset(p), d>>)
                            \/ Dataset(p)' = Dataset(p) /\ d \in Owed(p)'
  PROVE  ManifestsAgree'
<1> SUFFICES ASSUME ~raced', NEW s \in Slots, Exists(s)', ~Described(s)', s \notin undescribed'
             PROVE  \E q \in Processes : Dataset(q)' = s[1] /\ s[2] \in Owed(q)'
  BY DEF ManifestsAgree
<1>1. Exists(s) /\ ~Described(s) /\ s \notin undescribed /\ ~raced
  BY SameFiles
<1>2. PICK q \in Processes : Dataset(q) = s[1] /\ s[2] \in Owed(q)
  BY <1>1 DEF ManifestsAgree
<1>3. CASE q # p
  <2>1. Dataset(q)' = Dataset(q) /\ Owed(q)' = Owed(q)
    BY <1>3, SameProcess DEF Only
  <2> QED
    BY <1>2, <2>1
<1>4. CASE q = p
  <2>1. s = <<Dataset(p), s[2]>>
    BY <1>2, <1>4 DEF Slots
  <2> QED
    BY <1>1, <1>2, <1>4, <2>1
<1> QED
  BY <1>3, <1>4

\* A poll that has replaced no partition yet owes nothing.
LEMMA OwesNothing ==
  ASSUME NEW q, proc[q].at \in {"off", "idle", "fetch", "checkpoint"}
  PROVE  Owed(q) = {}
BY DEF Owed

LEMMA AgreeByRecorder ==
  ASSUME Structure, Order, Holds, ManifestsAgree, NEW p \in Processes, Recorder(p)
  PROVE  ManifestsAgree'
<1>1. TypeOK /\ Flow
  BY DEF Structure
<1>2. ASSUME NEW k \in Kinds, Start(p, k) \/ StartOnce(p, k)  PROVE ManifestsAgree'
  <2>1. UNCHANGED <<part, man, history>> /\ proc[p].at = "off"
    BY <1>2 DEF Start, StartOnce, files
  <2>2. PICK r : Only(p, r)
    BY <1>2, StartFacts
  <2> QED
    BY <2>1, <2>2, Untouched, OwesNothing, AgreeKept DEF history
<1>3. CASE Poll(p) \/ Fetch(p) \/ WriteCheckpoint(p)
  <2>1. UNCHANGED <<part, man, undescribed>> /\ proc[p].at \in {"idle", "fetch", "checkpoint"}
    BY <1>3 DEF Poll, Fetch, WriteCheckpoint, files, history
  <2>3. raced => raced'
    <3>1. CASE Poll(p)
      BY <3>1 DEF Poll
    <3>2. CASE Fetch(p) \/ WriteCheckpoint(p)
      BY <3>2 DEF Fetch, WriteCheckpoint, history
    <3> QED
      BY <1>3, <3>1, <3>2
  <2>2. PICK r : Only(p, r)
    BY <1>3, PollFacts, FetchFacts, CheckpointFacts
  <2> QED
    BY <2>1, <2>2, <2>3, Untouched, OwesNothing, AgreeKept
<1>4. CASE ReadPartition(p) \/ Describe(p)
  <2>1. UNCHANGED <<part, man, history>> /\ proc[p].at \in {"append", "describe"}
    BY <1>4 DEF ReadPartition, Describe, files
  <2>2. PICK r : /\ Only(p, r) /\ r.kind = proc[p].kind /\ r.step = proc[p].step
                 /\ r.todo = proc[p].todo /\ r.batch = proc[p].batch
                 /\ r.at = IF proc[p].at = "append" THEN "replace" ELSE "manifest"
    <3>1. ASSUME NEW at, NEW held, Only(p, [proc[p] EXCEPT !.at = at, !.held = held]),
                 at = IF proc[p].at = "append" THEN "replace" ELSE "manifest"
          PROVE  \E r : /\ Only(p, r) /\ r.kind = proc[p].kind /\ r.step = proc[p].step
                        /\ r.todo = proc[p].todo /\ r.batch = proc[p].batch
                        /\ r.at = IF proc[p].at = "append" THEN "replace" ELSE "manifest"
      <4> DEFINE r == [proc[p] EXCEPT !.at = at, !.held = held]
      <4>1. /\ r.kind = proc[p].kind /\ r.step = proc[p].step /\ r.todo = proc[p].todo
            /\ r.batch = proc[p].batch /\ r.at = at
        BY <1>1, ProcFacts DEF Process
      <4>2. Only(p, r)
        BY <3>1
      <4> HIDE DEF r
      <4> QED
        BY <3>1, <4>1, <4>2
    <3>2. CASE ReadPartition(p)
      BY <3>1, <3>2, ReadFacts DEF ReadPartition
    <3>3. CASE Describe(p)
      BY <3>1, <3>3, DescribeFacts
    <3> QED
      BY <1>4, <3>2, <3>3
  <2>3. proc'[p] = r
    BY <2>2 DEF Only
  <2>4. Dataset(p)' = Dataset(p) /\ Owed(p)' = Owed(p)
    BY <2>1, <2>2, <2>3 DEF Dataset, Owed
  <2> QED
    BY <2>1, <2>2, <2>4, Untouched, AgreeKept DEF history
<1>5. CASE ReplacePartition(p)
  <2>1. /\ proc[p].at = "replace" /\ raced' = raced /\ undescribed' = undescribed \ {Slot(p)}
    BY <1>5 DEF ReplacePartition
  <2>2. /\ Only(p, Appended(p)) /\ Slot(p) \in Slots
        /\ \A s \in Slots : (s # Slot(p) => Part(s)' = Part(s)) /\ Man(s)' = Man(s)
    BY <1>5, ReplaceFacts
  <2> DEFINE r == Appended(p)
  <2>3. /\ GoesOn(r, p) /\ r.at \in {"append", "describe"}
        /\ r.at = "append" => r.todo = proc[p].todo \ {Today(p)}
        /\ r.at = "describe" => r.todo = DaysOf(proc[p].batch)
    BY <1>1, <2>1, AppendedFacts
  <2>4. proc'[p] = r
    BY <2>2 DEF Only
  <2> HIDE DEF r
  <2>5. Dataset(p)' = Dataset(p)
    BY <2>3, <2>4 DEF Dataset, GoesOn
  <2>6. Owed(p) \cup {Today(p)} \subseteq Owed(p)'
    <3>1. Today(p) \in DaysOf(proc[p].batch) /\ Owed(p) = DaysOf(proc[p].batch) \ proc[p].todo
      BY <1>1, <2>1, SlotInHand DEF Owed
    <3>2. CASE r.at = "append"
      <4>1. Owed(p)' = DaysOf(proc[p].batch) \ r.todo
        BY <2>3, <2>4, <3>2 DEF Owed, GoesOn
      <4> QED
        BY <2>3, <3>1, <3>2, <4>1
    <3>3. CASE r.at = "describe"
      <4>1. Owed(p)' = r.todo
        BY <2>4, <3>3 DEF Owed
      <4> QED
        BY <2>3, <3>1, <3>3, <4>1
    <3> QED
      BY <2>3, <3>2, <3>3
  <2> SUFFICES ASSUME ~raced', NEW s \in Slots, Exists(s)', ~Described(s)', s \notin undescribed'
               PROVE  \E q \in Processes : Dataset(q)' = s[1] /\ s[2] \in Owed(q)'
    BY DEF ManifestsAgree
  <2>7. CASE s = Slot(p)
    BY <2>5, <2>6, <2>7 DEF Slot
  <2>8. CASE s # Slot(p)
    <3>1. Exists(s) /\ ~Described(s) /\ s \notin undescribed /\ ~raced
      BY <2>1, <2>2, <2>8, SameFiles
    <3>2. PICK q \in Processes : Dataset(q) = s[1] /\ s[2] \in Owed(q)
      BY <3>1 DEF ManifestsAgree
    <3>3. CASE q = p
      BY <2>5, <2>6, <3>2, <3>3
    <3>4. CASE q # p
      <4>1. Dataset(q)' = Dataset(q) /\ Owed(q)' = Owed(q)
        BY <2>2, <3>4, SameProcess DEF Only
      <4> QED
        BY <3>2, <4>1
    <3> QED
      BY <3>3, <3>4
  <2> QED
    BY <2>7, <2>8
<1>6. CASE WriteManifest(p)
  <2>1. /\ proc[p].at = "manifest" /\ raced' = raced
        /\ undescribed' = IF proc[p].held = Part(Slot(p)) THEN undescribed \ {Slot(p)} ELSE undescribed
    BY <1>6 DEF WriteManifest
  <2>2. /\ Only(p, After(p)) /\ Slot(p) \in Slots
        /\ \A s \in Slots : /\ Part(s)' = Part(s)
                           /\ Man(s)' = IF s = Slot(p)
                                        THEN [sum |-> proc[p].held, by |-> "recorder"] ELSE Man(s)
    BY <1>6, ManifestFacts
  <2> DEFINE r == After(p)
  <2>3. /\ r.at = "describe" => GoesOn(r, p) /\ r.todo = proc[p].todo \ {Today(p)}
        /\ r.at # "describe" => proc[p].todo = {Today(p)}
    BY <1>1, <2>1, AfterFacts
  <2>4. proc'[p] = r
    BY <2>2 DEF Only
  <2> HIDE DEF r
  <2> SUFFICES ASSUME ~raced', NEW s \in Slots, Exists(s)', ~Described(s)', s \notin undescribed'
               PROVE  \E q \in Processes : Dataset(q)' = s[1] /\ s[2] \in Owed(q)'
    BY DEF ManifestsAgree
  <2>5. s # Slot(p)
    <3> SUFFICES ASSUME s = Slot(p)  PROVE FALSE
      OBVIOUS
    <3>1. Man(s)' = [sum |-> proc[p].held, by |-> "recorder"] /\ Part(s)' = Part(s)
      BY <2>2
    <3>2. proc[p].held # Part(s)
      BY <3>1 DEF Described
    <3>3. s \in undescribed
      BY <2>1, <3>2 DEF Holds, HoldsLatest
    <3> QED
      BY <2>1, <3>2, <3>3
  <2>6. Exists(s) /\ ~Described(s) /\ s \notin undescribed /\ ~raced
    BY <2>1, <2>2, <2>5, SameFiles
  <2>7. PICK q \in Processes : Dataset(q) = s[1] /\ s[2] \in Owed(q)
    BY <2>6 DEF ManifestsAgree
  <2>8. CASE q # p
    <3>1. Dataset(q)' = Dataset(q) /\ Owed(q)' = Owed(q)
      BY <2>2, <2>8, SameProcess DEF Only
    <3> QED
      BY <2>7, <3>1
  <2>9. CASE q = p
    <3>1. s[2] \in proc[p].todo /\ s[2] # Today(p)
      BY <2>1, <2>5, <2>7, <2>9 DEF Owed, Slot, Slots
    <3>2. r.at = "describe"
      BY <2>3, <3>1
    <3>3. Dataset(p)' = Dataset(p) /\ Owed(p)' = r.todo
      BY <2>3, <2>4, <3>2 DEF Dataset, Owed, GoesOn
    <3> QED
      BY <2>3, <2>7, <2>9, <3>1, <3>2, <3>3
  <2> QED
    BY <2>8, <2>9
<1>7. CASE Raise(p) \/ Die(p)
  <2>1. UNCHANGED <<part, man, raced>>
    BY <1>7 DEF Raise, Die, files
  <2>2. PICK r : Only(p, r)
    BY <1>7, EndFacts
  <2>3. undescribed' = undescribed \cup OwedSlots(p)
    BY <1>7, EndFacts
  <2>4. \A d \in Owed(p) : <<Dataset(p), d>> \in undescribed' \/ Described(<<Dataset(p), d>>)
    BY <2>3 DEF OwedSlots
  <2> QED
    BY <2>1, <2>2, <2>3, <2>4, Untouched, AgreeKept
<1> QED
  BY <1>2, <1>3, <1>4, <1>5, <1>6, <1>7 DEF Recorder

LEMMA AgreeByOthers ==
  ASSUME Structure, ManifestsAgree, ByHand \/ Backup \/ Tick \/ \E s \in Slots : Alter(s)
  PROVE  ManifestsAgree'
<1>1. /\ proc' = proc /\ raced' = raced /\ undescribed \subseteq undescribed'
      /\ \A s \in Slots : \/ Part(s)' = Part(s) /\ Man(s)' = Man(s)
                         \/ Described(s)' \/ s \in undescribed'
  <2>1. CASE ByHand /\ ~WriteByHand
    BY <2>1, HandMoves, Untouched DEF ByHand, files, history
  <2>2. CASE WriteByHand
    <3>1. /\ UNCHANGED <<proc, raced>>
          /\ undescribed' = IF hand.held = Part(HandSlot) THEN undescribed
                            ELSE undescribed \cup {HandSlot}
      BY <2>2 DEF WriteByHand
    <3>2. \A s \in Slots : /\ Part(s)' = Part(s)
                          /\ Man(s)' = IF s = HandSlot
                                 THEN [sum |-> hand.held, by |-> ProvenanceOf(hand.by)] ELSE Man(s)
      BY <2>2, HandWrites
    <3> QED
      BY <3>1, <3>2 DEF Described, ProvenanceOf
  <2>3. CASE Backup
    BY <2>3, BackupFacts, Untouched DEF files, history
  <2>4. CASE Tick
    BY <2>4, TickFacts, Untouched DEF files, history
  <2>5. ASSUME NEW s \in Slots, Alter(s)  PROVE <1>1!:
    BY <2>5, AlterFacts DEF Alter
  <2> QED
    BY <2>1, <2>2, <2>3, <2>4, <2>5
<1>2. \A q \in Processes : Dataset(q)' = Dataset(q) /\ Owed(q)' = Owed(q)
  BY <1>1, SameProcess
<1> SUFFICES ASSUME ~raced', NEW s \in Slots, Exists(s)', ~Described(s)', s \notin undescribed'
             PROVE  \E q \in Processes : Dataset(q)' = s[1] /\ s[2] \in Owed(q)'
  BY DEF ManifestsAgree
<1>3. Exists(s) /\ ~Described(s) /\ s \notin undescribed /\ ~raced
  BY <1>1, SameFiles
<1> QED
  BY <1>2, <1>3 DEF ManifestsAgree

\* What a step leaves undescribed it leaves so.
LEMMA RelabelledKept ==
  ASSUME NeverRelabelled, raced => raced', UNCHANGED <<part, man, audited>>,
         \A s \in undescribed' : s \in undescribed \/ (s \in Slots /\ ~Described(s)),
         undescribed \subseteq Slots
  PROVE  NeverRelabelled'
<1> SUFFICES ASSUME ~raced', NEW s \in undescribed', s \notin audited', Described(s)'
             PROVE  Man(s)'.by = "rebuilt"
  BY DEF NeverRelabelled
<1>1. Part(s)' = Part(s) /\ Man(s)' = Man(s)
  BY DEF Part, Man
<1>2. Described(s)
  BY <1>1, SameFiles
<1> QED
  BY <1>1, <1>2 DEF NeverRelabelled

LEMMA RelabelledByStep ==
  ASSUME Structure, Stamped, NeverRelabelled, Next
  PROVE  NeverRelabelled'
<1>1. TypeOK /\ Flow /\ undescribed \subseteq Slots
  BY DEF Structure, TypeOK
<1>2. ASSUME UNCHANGED <<part, man, undescribed, audited>>, raced => raced'
      PROVE  NeverRelabelled'
  BY <1>1, <1>2, RelabelledKept
<1>3. ASSUME NEW p \in Processes, Recorder(p)  PROVE NeverRelabelled'
  <2>1. ASSUME NEW k \in Kinds, Start(p, k) \/ StartOnce(p, k)  PROVE NeverRelabelled'
    BY <1>2, <2>1 DEF Start, StartOnce, files, history
  <2>2. CASE Poll(p)
    <3>1. raced => raced'
      BY <2>2 DEF Poll
    <3> QED
      BY <1>2, <2>2, <3>1 DEF Poll, files
  <2>3. CASE Fetch(p) \/ ReadPartition(p) \/ Describe(p) \/ WriteCheckpoint(p)
    BY <1>2, <2>3 DEF Fetch, ReadPartition, Describe, WriteCheckpoint, files, history
  <2>4. CASE Raise(p) \/ Die(p)
    <3>1. UNCHANGED <<part, man, audited, raced>>
      BY <2>4 DEF Raise, Die, files
    <3>2. \A s \in OwedSlots(p) : s \in Slots /\ ~Described(s)
      BY <1>1, OwedFacts DEF OwedSlots
    <3> QED
      BY <1>1, <1>3, <2>4, <3>1, <3>2, EndFacts, RelabelledKept
  <2>5. CASE ReplacePartition(p)
    <3>1. raced' = raced /\ audited' = audited /\ undescribed' = undescribed \ {Slot(p)}
      BY <2>5 DEF ReplacePartition
    <3> SUFFICES ASSUME ~raced', NEW s \in undescribed', s \notin audited', Described(s)'
                 PROVE  Man(s)'.by = "rebuilt"
      BY DEF NeverRelabelled
    <3>2. Part(s)' = Part(s) /\ Man(s)' = Man(s) /\ s \in undescribed
      BY <1>1, <2>5, <3>1, ReplaceFacts
    <3>3. Described(s)
      BY <3>2, SameFiles
    <3> QED
      BY <3>1, <3>2, <3>3 DEF NeverRelabelled
  <2>6. CASE WriteManifest(p)
    <3>1. /\ raced' = raced /\ audited' = audited \ {Slot(p)}
          /\ undescribed' = IF proc[p].held = Part(Slot(p)) THEN undescribed \ {Slot(p)} ELSE undescribed
      BY <2>6 DEF WriteManifest
    <3> SUFFICES ASSUME ~raced', NEW s \in undescribed', s \notin audited', Described(s)'
                 PROVE  Man(s)'.by = "rebuilt"
      BY DEF NeverRelabelled
    <3>2. s \in Slots /\ s \in undescribed
      BY <1>1, <3>1
    <3>3. /\ Part(s)' = Part(s)
          /\ Man(s)' = IF s = Slot(p) THEN [sum |-> proc[p].held, by |-> "recorder"] ELSE Man(s)
      BY <2>6, <3>2, ManifestFacts
    <3>4. s # Slot(p)
      BY <3>1, <3>3 DEF Described
    <3>5. Described(s)
      BY <3>3, <3>4, SameFiles
    <3> QED
      BY <3>1, <3>2, <3>3, <3>4, <3>5 DEF NeverRelabelled
  <2> QED
    BY <1>3, <2>1, <2>2, <2>3, <2>4, <2>5, <2>6 DEF Recorder
<1>4. CASE ByHand /\ ~WriteByHand
  BY <1>2, <1>4, HandMoves DEF ByHand, files, history
<1>5. CASE WriteByHand
  <2>1. /\ raced' = raced
        /\ undescribed' = IF hand.held = Part(HandSlot) THEN undescribed
                          ELSE undescribed \cup {HandSlot}
        /\ audited' = IF hand.by = "audit" THEN audited \cup {HandSlot} ELSE audited \ {HandSlot}
    BY <1>5 DEF WriteByHand
  <2>2. hand.by \in {"audit", "rebuild"} /\ HandSlot \in Slots
    BY <1>1, <1>5, HandWrites DEF TypeOK, Hand
  <2> SUFFICES ASSUME ~raced', NEW s \in undescribed', s \notin audited', Described(s)'
               PROVE  Man(s)'.by = "rebuilt"
    BY DEF NeverRelabelled
  <2>3. s \in Slots
    BY <1>1, <2>1, <2>2
  <2>4. /\ Part(s)' = Part(s)
        /\ Man(s)' = IF s = HandSlot THEN [sum |-> hand.held, by |-> ProvenanceOf(hand.by)] ELSE Man(s)
    BY <1>5, <2>3, HandWrites
  <2>5. CASE s = HandSlot
    <3>1. hand.by = "rebuild"
      BY <2>1, <2>2, <2>5
    <3> QED
      BY <2>4, <2>5, <3>1 DEF ProvenanceOf
  <2>6. CASE s # HandSlot
    <3>1. s \in undescribed /\ s \notin audited /\ Man(s)' = Man(s)
      BY <2>1, <2>4, <2>6
    <3>2. Described(s)
      BY <2>4, <3>1, SameFiles
    <3> QED
      BY <2>1, <3>1, <3>2 DEF NeverRelabelled
  <2> QED
    BY <2>5, <2>6
<1>6. CASE Backup
  BY <1>2, <1>6, BackupFacts DEF files, history
<1>7. CASE Tick
  BY <1>2, <1>7, TickFacts DEF files, history
<1>8. ASSUME NEW t \in Slots, Alter(t)  PROVE NeverRelabelled'
  <2>1. undescribed' = undescribed \cup {t}
    BY <1>8 DEF Alter
  <2>2. /\ raced' = raced /\ audited' = audited
        /\ trouble' = trouble + 1 /\ Part(t)'.edit = trouble'
        /\ \A u \in Slots : Man(u)' = Man(u) /\ (u # t => Part(u)' = Part(u))
    BY <1>8, AlterFacts
  <2> SUFFICES ASSUME ~raced', NEW s \in undescribed', s \notin audited', Described(s)'
               PROVE  Man(s)'.by = "rebuilt"
    BY DEF NeverRelabelled
  <2>3. s \in Slots
    BY <1>1, <2>1
  <2>4. s # t
    <3> SUFFICES ASSUME s = t  PROVE FALSE
      OBVIOUS
    <3>1. Man(s)'.sum = Part(s)' /\ Man(s)' = Man(s)
      BY <2>2, <2>3 DEF Described
    <3>2. Man(s).sum.edit = trouble + 1
      BY <2>2, <3>1
    <3>3. Man(s).sum.edit \in 0..trouble
      BY <2>3 DEF Stamped
    <3>4. trouble \in Nat
      BY <1>1, BoundFacts DEF TypeOK
    <3> QED
      BY <3>2, <3>3, <3>4
  <2>5. s \in undescribed /\ Part(s)' = Part(s) /\ Man(s)' = Man(s)
    BY <2>1, <2>2, <2>3, <2>4
  <2>6. Described(s)
    BY <2>5, SameFiles
  <2> QED
    BY <2>2, <2>5, <2>6 DEF NeverRelabelled
<1> QED
  BY <1>3, <1>4, <1>5, <1>6, <1>7, <1>8 DEF Next

-----------------------------------------------------------------------------
(* The backup *)

\* A partition or manifest that is replaced under a backup is one that moved.
LEMMA CopyingKept ==
  ASSUME Structure, Copying, copy' = copy,
         \A s \in Slots \ moved' : copy.at # "idle" =>
           s \notin moved /\ Part(s)' = Part(s) /\ Man(s)' = Man(s)
  PROVE  Copying'
<1>1. ASSUME NEW s \in Slots \ moved', Sealed(s)', Exists(s)'  PROVE Verified(s)' /\ Copied(s)'
  <2>1. CASE copy.at = "idle"
    BY <2>1 DEF Verified, Copied
  <2>2. CASE copy.at # "idle"
    <3>1. s \in Slots \ moved /\ Part(s)' = Part(s) /\ Man(s)' = Man(s)
      BY <2>2
    <3>2. (Exists(s)' <=> Exists(s)) /\ (Described(s)' <=> Described(s))
      BY <3>1, SameFiles
    <3>3. Verified(s) /\ Copied(s)
      BY <1>1, <3>1, <3>2 DEF Copying, Sealed
    <3> QED
      BY <3>1, <3>2, <3>3 DEF Verified, Copied
  <2> QED
    BY <2>1, <2>2
<1> QED
  BY <1>1 DEF Copying

LEMMA CopyingBesides ==
  ASSUME Structure, Copying, ~Backup, Next
  PROVE  Copying'
<1>1. TypeOK /\ Flow
  BY DEF Structure
<1>2. ASSUME UNCHANGED <<part, man, copy, moved>>  PROVE Copying'
  BY <1>2, Untouched, CopyingKept
<1>3. ASSUME NEW t \in Slots, Moves(t), copy' = copy,
             \A s \in Slots : s # t => Part(s)' = Part(s) /\ Man(s)' = Man(s)
      PROVE  Copying'
  BY <1>1, <1>3, MovesFacts, CopyingKept
<1>4. ASSUME NEW p \in Processes, Recorder(p)  PROVE Copying'
  <2>1. CASE ReplacePartition(p)
    <3>1. Moves(Slot(p)) /\ copy' = copy
      BY <2>1 DEF ReplacePartition
    <3> QED
      BY <1>3, <2>1, <3>1, ReplaceFacts
  <2>2. CASE WriteManifest(p)
    <3>1. Moves(Slot(p)) /\ copy' = copy
      BY <2>2 DEF WriteManifest
    <3> QED
      BY <1>3, <2>2, <3>1, ManifestFacts
  <2>3. CASE ~ReplacePartition(p) /\ ~WriteManifest(p)
    <3>1. UNCHANGED <<part, man, copy, moved>>
      BY <1>4, <2>3 DEF Recorder, Start, StartOnce, Poll, Fetch, ReadPartition, Describe,
         WriteCheckpoint, Raise, Die, files, history
    <3> QED
      BY <1>2, <3>1
  <2> QED
    BY <2>1, <2>2, <2>3
<1>5. CASE ByHand /\ ~WriteByHand
  BY <1>2, <1>5, HandMoves DEF ByHand, files, history
<1>6. CASE WriteByHand
  <2>1. Moves(HandSlot) /\ copy' = copy
    BY <1>6 DEF WriteByHand
  <2> QED
    BY <1>3, <1>6, <2>1, HandWrites
<1>7. CASE Tick
  BY <1>2, <1>7, TickFacts DEF files, history
<1>8. ASSUME NEW t \in Slots, Alter(t)  PROVE Copying'
  <2>1. Moves(t)
    BY <1>8 DEF Alter
  <2> QED
    BY <1>3, <1>8, <2>1, AlterFacts
<1> QED
  BY <1>4, <1>5, <1>6, <1>7, <1>8 DEF Next

LEMMA CopyingByBackup ==
  ASSUME Structure, Copying, Backup
  PROVE  Copying'
<1>1. copy \in Copy /\ moved' = moved /\ UNCHANGED <<part, man>>
  BY BackupFacts DEF Structure, TypeOK, files, history
<1>2. \A s \in Slots : /\ Part(s)' = Part(s) /\ Man(s)' = Man(s)
                      /\ (Exists(s)' <=> Exists(s)) /\ (Described(s)' <=> Described(s))
  BY <1>1, Untouched, SameFiles
<1>3. ASSUME copy'.at \in {"idle", "refused"}  PROVE Copying'
  BY <1>3 DEF Copying, Verified, Copied
<1>4. CASE StartBackup
  <2>1. /\ copy'.at = "verify" /\ copy'.todo = {s \in Slots : Exists(s)}
    BY <1>1, <1>4 DEF StartBackup, Copy
  <2> QED
    BY <1>1, <1>2, <2>1 DEF Copying, Verified, Copied
<1>5. CASE Verify
  <2>1. CASE ~Sound(First(copy.todo))
    BY <1>3, <1>5, <2>1, NoCopyFacts DEF Verify, Copy
  <2>2. CASE Sound(First(copy.todo))
    <3>1. /\ copy'.at = "verify" /\ copy.at = "verify" /\ copy'.today = copy.today
          /\ copy'.todo = copy.todo \ {First(copy.todo)}
      BY <1>1, <1>5, <2>2 DEF Verify, Copy
    <3>2. ASSUME NEW s \in Slots \ moved, Sealed(s), Exists(s)
          PROVE  s \in copy'.todo \/ Described(s)
      BY <2>2, <3>1, <3>2 DEF Copying, Verified, Sound
    <3> QED
      BY <1>1, <1>2, <3>1, <3>2 DEF Copying, Verified, Copied, Sealed
  <2> QED
    BY <2>1, <2>2
<1>6. CASE ListItems
  <2>1. /\ copy'.at = "copy" /\ copy.at = "verify" /\ copy.todo = {} /\ copy'.today = copy.today
        /\ copy'.todo = {s \in Slots : Exists(s)} /\ copy'.then = {s \in Slots : Man(s).by # "none"}
    BY <1>1, <1>6 DEF ListItems, Copy
  <2>2. ASSUME NEW s \in Slots \ moved, Sealed(s), Exists(s)
        PROVE  Described(s) /\ s \in copy'.todo /\ s \in copy'.then
    BY <2>1, <2>2 DEF Copying, Verified, Described
  <2> QED
    BY <1>1, <1>2, <2>1, <2>2 DEF Copying, Verified, Copied, Sealed
<1>7. CASE CopyPartition
  <2> DEFINE x == First(copy.todo)
  <2>1. /\ copy'.at = "check" /\ copy.at = "copy" /\ copy'.today = copy.today
        /\ copy'.todo = copy.todo /\ copy'.then = copy.then /\ copy'.failed = copy.failed
        /\ copy'.man = copy.man
        /\ \A s \in Slots : copy'.part[s] = IF s = x THEN Part(s) ELSE copy.part[s]
    BY <1>1, <1>7 DEF CopyPartition, Copy
  <2> HIDE DEF x
  <2>2. ASSUME NEW s \in Slots \ moved, Sealed(s), Exists(s)
        PROVE  /\ Described(s)
               /\ copy'.failed \/ s \in copy'.todo \/ copy'.part[s] = Part(s)
               /\ copy'.failed \/ s \in copy'.then \/ copy'.man[s] = Man(s)
    BY <2>1, <2>2 DEF Copying, Copied
  <2> QED
    BY <1>1, <1>2, <2>1, <2>2 DEF Copying, Verified, Copied, Sealed
<1>8. CASE CheckCopy
  <2> DEFINE x == First(copy.todo)
  <2>1. /\ copy'.at = "copy" /\ copy.at = "check" /\ copy'.today = copy.today
        /\ copy'.todo = copy.todo \ {x} /\ copy'.then = copy.then /\ copy'.man = copy.man
        /\ copy'.part = copy.part
    BY <1>1, <1>8 DEF CheckCopy, Copy
  <2>2. copy'.failed = (copy.failed \/ copy.part[x] # Part(x))
    BY <1>1, <1>8 DEF CheckCopy, Copy
  <2> HIDE DEF x
  <2>3. ASSUME NEW s \in Slots \ moved, Sealed(s), Exists(s)
        PROVE  /\ Described(s)
               /\ copy'.failed \/ s \in copy'.todo \/ copy'.part[s] = Part(s)
               /\ copy'.failed \/ s \in copy'.then \/ copy'.man[s] = Man(s)
    <3>1. /\ Described(s)
          /\ copy.failed \/ s \in copy.todo \/ copy.part[s] = Part(s)
          /\ copy.failed \/ s \in copy.then \/ copy.man[s] = Man(s)
      BY <2>1, <2>3 DEF Copying, Copied
    <3>2. copy.failed => copy'.failed
      BY <2>2
    <3>3. s = x => copy'.failed \/ copy.part[s] = Part(s)
      BY <2>2
    <3> QED
      BY <2>1, <3>1, <3>2, <3>3
  <2> QED
    BY <1>1, <1>2, <2>1, <2>3 DEF Copying, Verified, Copied, Sealed
<1>9. CASE CopyManifest
  <2> DEFINE x == First(copy.then)
  <2>1. /\ copy'.at = "copy" /\ copy.at = "copy" /\ copy'.today = copy.today
        /\ copy'.todo = copy.todo /\ copy'.then = copy.then \ {x} /\ copy'.failed = copy.failed
        /\ copy'.part = copy.part
        /\ \A s \in Slots : copy'.man[s] = IF s = x THEN Man(s) ELSE copy.man[s]
    BY <1>1, <1>9 DEF CopyManifest, Copy
  <2> HIDE DEF x
  <2>2. ASSUME NEW s \in Slots \ moved, Sealed(s), Exists(s)
        PROVE  /\ Described(s)
               /\ copy'.failed \/ s \in copy'.todo \/ copy'.part[s] = Part(s)
               /\ copy'.failed \/ s \in copy'.then \/ copy'.man[s] = Man(s)
    BY <2>1, <2>2 DEF Copying, Copied
  <2> QED
    BY <1>1, <1>2, <2>1, <2>2 DEF Copying, Verified, Copied, Sealed
<1>10. CASE CopyFails
  <2>1. copy'.at = "copy" /\ copy.at = "copy" /\ copy'.today = copy.today /\ copy'.failed = TRUE
    BY <1>1, <1>10 DEF CopyFails, Copy
  <2>2. ASSUME NEW s \in Slots \ moved, Sealed(s), Exists(s)
        PROVE  Described(s)
    BY <2>1, <2>2 DEF Copying, Copied
  <2> QED
    BY <1>1, <1>2, <2>1, <2>2 DEF Copying, Verified, Copied, Sealed
<1>11. CASE EndBackup
  <2>1. /\ copy'.at = "done" /\ copy.at = "copy" /\ copy.todo = {} /\ copy.then = {}
        /\ copy'.today = copy.today /\ copy'.todo = copy.todo /\ copy'.then = copy.then
        /\ copy'.part = copy.part /\ copy'.man = copy.man /\ copy'.failed = copy.failed
    BY <1>1, <1>11 DEF EndBackup, Copy
  <2>2. ASSUME NEW s \in Slots \ moved, Sealed(s), Exists(s)
        PROVE  /\ Described(s)
               /\ copy.failed \/ s \in copy.todo \/ copy.part[s] = Part(s)
               /\ copy.failed \/ s \in copy.then \/ copy.man[s] = Man(s)
    BY <2>1, <2>2 DEF Copying, Copied
  <2> QED
    BY <1>1, <1>2, <2>1, <2>2 DEF Copying, Verified, Copied, Sealed
<1> QED
  BY <1>4, <1>5, <1>6, <1>7, <1>8, <1>9, <1>10, <1>11 DEF Backup

-----------------------------------------------------------------------------
(* The invariant is inductive *)

LEMMA InitInvariant ==
  ASSUME Init
  PROVE  IInv
<1>1. /\ \A s \in Slots : Part(s) = Missing /\ Man(s) = NoManifest /\ ~Exists(s)
      /\ \A p \in Processes : proc[p] = Off
  BY DEF Init, Slots, Part, Man, Exists
<1>2. NoHand \in Hand /\ NoHand.at = "idle" /\ NoHand.held = Missing
  BY FileFacts DEF NoHand, Hand, Datasets
<1>3. TypeOK
  <2>1. /\ part \in [Datasets -> [Days -> File]] /\ man \in [Datasets -> [Days -> Manifest]]
        /\ check \in [Datasets -> [last : Minutes \cup {-1}, error : BOOLEAN]]
    BY FileFacts DEF Init
  <2>2. proc \in [Processes -> Process] /\ hand \in Hand /\ copy \in Copy
    BY <1>2, OffFacts, NoCopyFacts DEF Init
  <2>3. minute \in Minutes /\ polls \in 0..MaxPolls /\ trouble \in 0..MaxTrouble
    BY ClockFacts, BoundFacts DEF Init
  <2> QED
    BY <2>1, <2>2, <2>3 DEF Init, TypeOK
<1>4. Structure
  BY <1>1, <1>2, <1>3, OffFacts DEF Structure, Flow, HandFlowOf, Init
<1>5. Order /\ Holds
  <2>1. \A p \in Processes : proc[p].at = "off"
    BY <1>1, OffFacts
  <2>2. Order
    BY <2>1 DEF Order, OneRun, Alone, Busy
  <2>3. Holds
    BY <2>1 DEF Holds, HoldsAll, HoldsLatest
  <2> QED
    BY <2>2, <2>3
<1>6. Stamped
  <2>1. 0 \in 0..trouble /\ hand = NoHand
    BY DEF Init
  <2>2. \A s \in Slots : Part(s).edit = 0 /\ Man(s).sum.edit = 0
    BY <1>1, FileFacts
  <2>3. \A p \in Processes : proc[p].held.edit = 0
    BY <1>1, FileFacts, OffFacts
  <2> QED
    BY <1>2, <2>1, <2>2, <2>3, FileFacts DEF Stamped
<1>7. ManifestsAgree /\ NeverRelabelled
  BY <1>1 DEF ManifestsAgree, NeverRelabelled, Init
<1>8. Copying
  BY <1>1 DEF Copying, Init, NoCopy
<1> QED
  BY <1>4, <1>5, <1>6, <1>7, <1>8 DEF IInv

LEMMA StepInvariant ==
  ASSUME IInv, [Next]_vars
  PROVE  IInv'
<1>1. Structure /\ Order /\ Holds /\ Stamped /\ ManifestsAgree /\ NeverRelabelled /\ Copying
  BY DEF IInv
<1>2. ASSUME NEW p \in Processes, Recorder(p)  PROVE IInv'
  <2>1. Structure'
    BY <1>1, <1>2, StartFacts, PollFacts, FetchFacts, ReadFacts, ReplaceFacts, DescribeFacts,
       ManifestFacts, CheckpointFacts, EndFacts DEF Recorder
  <2>2. Order' /\ Holds' /\ Stamped' /\ ManifestsAgree'
    BY <1>1, <1>2, OrderByRecorder, HoldsByRecorder, StampedByRecorder, AgreeByRecorder
  <2>3. Next
    BY <1>2 DEF Next
  <2>4. NeverRelabelled'
    BY <1>1, <2>3, RelabelledByStep
  <2>5. Copying'
    BY <1>1, <2>3, CopyingBesides, CopyingByBackup
  <2> QED
    BY <2>1, <2>2, <2>4, <2>5 DEF IInv
<1>3. CASE ByHand \/ Backup \/ Tick \/ \E s \in Slots : Alter(s)
  <2>1. Structure' /\ proc' = proc /\ raced' = raced
    <3>1. CASE ByHand /\ ~WriteByHand
      BY <1>1, <3>1, HandMoves DEF ByHand, history
    <3>2. CASE WriteByHand
      BY <1>1, <3>2, HandWrites DEF WriteByHand
    <3>3. CASE Backup
      BY <1>1, <3>3, BackupFacts DEF history
    <3>4. CASE Tick
      BY <1>1, <3>4, TickFacts DEF history
    <3>5. CASE \E s \in Slots : Alter(s)
      BY <1>1, <3>5, AlterFacts
    <3> QED
      BY <1>3, <3>1, <3>2, <3>3, <3>4, <3>5
  <2>2. Order'
    BY <1>1, <2>1 DEF Order, OneRun, Alone, Busy
  <2>3. Holds' /\ Stamped' /\ ManifestsAgree'
    BY <1>1, <1>3, HoldsByOthers, StampedByOthers, AgreeByOthers
  <2>4. Next
    BY <1>3 DEF Next
  <2>5. NeverRelabelled'
    BY <1>1, <2>4, RelabelledByStep
  <2>6. Copying'
    BY <1>1, <2>4, CopyingBesides, CopyingByBackup
  <2> QED
    BY <2>1, <2>2, <2>3, <2>5, <2>6 DEF IInv
<1>4. CASE UNCHANGED vars
  <2>1. UNCHANGED <<part, man, proc, hand, copy, trouble, undescribed, audited, moved, raced>>
    BY <1>4 DEF vars, files, bounds, history
  <2>2. Structure'
    BY <1>1, <1>4 DEF Structure, TypeOK, Flow, vars, files, bounds, history
  <2>3. Order'
    BY <1>1, <2>1 DEF Order, OneRun, Alone, Busy
  <2>4. \A s \in Slots : /\ Part(s)' = Part(s) /\ Man(s)' = Man(s)
                        /\ (Exists(s)' <=> Exists(s)) /\ (Described(s)' <=> Described(s))
    BY <2>1, Untouched, SameFiles
  <2>5. \A q \in Processes : /\ Dataset(q)' = Dataset(q) /\ Slot(q)' = Slot(q)
                            /\ Owed(q)' = Owed(q)
    BY <2>1, SameProcess
  <2>6. Holds'
    BY <1>1, <2>1, <2>5 DEF Holds, HoldsAll, HoldsLatest, Part
  <2>7. Stamped'
    BY <1>1, <2>1, <2>4 DEF Stamped
  <2>8. ManifestsAgree'
    BY <1>1, <2>1, <2>4, <2>5 DEF ManifestsAgree
  <2>9. NeverRelabelled'
    <3>1. undescribed \subseteq Slots
      BY <1>1 DEF Structure, TypeOK
    <3> QED
      BY <1>1, <2>1, <3>1, RelabelledKept
  <2>10. Copying'
    BY <1>1, <2>1, <2>4, CopyingKept
  <2> QED
    BY <2>2, <2>3, <2>6, <2>7, <2>8, <2>9, <2>10 DEF IInv
<1> QED
  BY <1>2, <1>3, <1>4 DEF Next

LEMMA Invariance == Spec => []IInv
<1>1. Init => IInv
  BY InitInvariant
<1>2. IInv /\ [Next]_vars => IInv'
  BY StepInvariant
<1> QED
  BY <1>1, <1>2, PTL DEF Spec

-----------------------------------------------------------------------------
(* Theorems *)

\* Every variable keeps its type.
THEOREM TypeCorrect == Spec => []TypeOK
<1>1. IInv => TypeOK
  BY DEF IInv, Structure
<1> QED
  BY <1>1, Invariance, PTL

\* A partition agrees with its manifest but for what is between the two, was left
\* between them, was altered or was crossed by a manifest written by hand.
THEOREM ManifestsFollow == Spec => []ManifestsAgree
<1>1. IInv => ManifestsAgree
  BY DEF IInv
<1> QED
  BY <1>1, Invariance, PTL

\* Only a rebuilt manifest, or the audit, describes what no recorder described.
THEOREM NothingRelabelled == Spec => []NeverRelabelled
<1>1. IInv => NeverRelabelled
  BY DEF IInv
<1> QED
  BY <1>1, Invariance, PTL

\* A backup that reports OK is whole but for what was replaced under it.
THEOREM BackupWhole == Spec => []BackupIsWhole
<1>1. IInv => BackupIsWhole
  <2> SUFFICES ASSUME IInv, copy.at = "done", ~copy.failed, NEW s \in Slots \ moved, Sealed(s), Exists(s)
               PROVE  copy.part[s] = Part(s) /\ copy.man[s].sum = copy.part[s]
    BY DEF BackupIsWhole
  <2>1. Copied(s) /\ copy.todo = {} /\ copy.then = {}
    BY DEF IInv, Copying
  <2>2. Described(s) /\ copy.part[s] = Part(s) /\ copy.man[s] = Man(s)
    BY <2>1 DEF Copied
  <2> QED
    BY <2>2 DEF Described
<1> QED
  BY <1>1, Invariance, PTL

\* No step takes a committed observation out of its partition.
THEOREM SnapshotsStay == Spec => SnapshotsKept
<1>1. IInv /\ [Next]_vars =>
        [~raced' => \A s \in Slots : Times(Part(s).rows) \subseteq Times(Part(s)'.rows)]_vars
  <2> SUFFICES ASSUME IInv, Next, ~raced', NEW s \in Slots
               PROVE  Times(Part(s).rows) \subseteq Times(Part(s)'.rows)
    OBVIOUS
  <2>1. Structure /\ Holds
    BY DEF IInv
  <2>2. ASSUME NEW p \in Processes, ReplacePartition(p)
        PROVE  Times(Part(s).rows) \subseteq Times(Part(s)'.rows)
    <3>1. Part(s)' = IF s = Slot(p) THEN proc[p].held ELSE Part(s)
      BY <2>1, <2>2, ReplaceFacts
    <3>2. HoldsAll(p) /\ proc[p].at = "replace"
      BY <2>1, <2>2 DEF ReplacePartition, Holds
    <3> QED
      BY <3>1, <3>2 DEF HoldsAll
  <2>3. ASSUME NEW t \in Slots, Alter(t)
        PROVE  Times(Part(s).rows) \subseteq Times(Part(s)'.rows)
    <3>1. (Part(t).rows)' = Part(t).rows /\ (s # t => Part(s)' = Part(s))
      BY <2>1, <2>3, AlterFacts
    <3> QED
      BY <3>1
  <2>4. CASE part' = part
    BY <2>4 DEF Part
  <2>5. ASSUME NEW p \in Processes, Recorder(p), ~ReplacePartition(p)  PROVE part' = part
    BY <2>5 DEF Recorder, Start, StartOnce, Poll, Fetch, ReadPartition, Describe, WriteManifest,
       WriteCheckpoint, Raise, Die, files
  <2>6. CASE ByHand \/ Backup \/ Tick
    BY <2>1, <2>4, <2>6, HandMoves, BackupFacts, TickFacts DEF ByHand, WriteByHand, files
  <2> QED
    BY <2>2, <2>3, <2>4, <2>5, <2>6 DEF Next
<1> QED
  BY <1>1, Invariance, PTL DEF Spec, SnapshotsKept

=============================================================================

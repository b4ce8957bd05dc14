---------------------------- MODULE ExposureGate ----------------------------
(***************************************************************************)
(* What the exposure gate promises: at most MaxOpen entries hold a slot,   *)
(* an entry goes live only while it holds one, and a slot is given back    *)
(* only by an entry that is not live.  The database, the venue, the loops  *)
(* and the crashes of LiveExecution are all invisible here.                *)
(***************************************************************************)
EXTENDS Integers, FiniteSets

CONSTANTS Intents, MaxOpen

VARIABLES
  holding,      \* entries holding an exposure slot
  live          \* entries that are, or can still become, a position

gateVars == <<holding, live>>

Init == holding = {} /\ live = {}

(* reserve_entry_slot: count and insert in one transaction. *)
Acquire(i) ==
  /\ Cardinality(holding) < MaxOpen
  /\ i \notin holding
  /\ holding' = holding \cup {i}
  /\ UNCHANGED live

(* An order that holds a slot leaves for the venue. *)
GoLive(i) ==
  /\ i \in holding \ live
  /\ live' = live \cup {i}
  /\ UNCHANGED holding

(* The venue closes a position, or never filled it. *)
Finish(S) ==
  /\ S \subseteq live
  /\ live' = live \ S
  /\ UNCHANGED holding

(* A refusal, a recorded close or the start-up sweep. *)
GiveBack(S) ==
  /\ S \subseteq holding \ live
  /\ holding' = holding \ S
  /\ UNCHANGED live

Next ==
  \/ \E i \in Intents : Acquire(i) \/ GoLive(i)
  \/ \E S \in SUBSET Intents : Finish(S) \/ GiveBack(S)

Spec == Init /\ [][Next]_gateVars

=============================================================================

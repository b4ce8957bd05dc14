-------------------------- MODULE MCLiveExecution --------------------------
(***************************************************************************)
(* Two symbols, two intents on the first and one on the second.            *)
(***************************************************************************)
EXTENDS LiveExecution, TLC

CONSTANTS A, B, a1, a2, b1

MCSymbols  == {A, B}
MCIntents  == {a1, a2, b1}
MCSymbolOf == (a1 :> A) @@ (a2 :> A) @@ (b1 :> B)

(* Same side and size on one symbol: sizes alone cannot tell a1 from a2. *)
MCQtySame == [i \in MCIntents |-> 1]

=============================================================================

-------------------------- MODULE MCLiveProtection --------------------------
(***************************************************************************)
(* One symbol and two trades on it in turn: the second meets whatever the  *)
(* first has left behind.                                                  *)
(***************************************************************************)
EXTENDS LiveProtection, TLC

CONSTANTS A, a1, a2

MCSymbols  == {A}
MCTrades   == {a1, a2}
MCSymbolOf == (a1 :> A) @@ (a2 :> A)

=============================================================================

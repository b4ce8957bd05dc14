-------------------------- MODULE MCPaperExecution --------------------------
(***************************************************************************)
(* Two intents on one symbol, whose orders can be working together, with   *)
(* two ways to close, or one, and a settlement.                            *)
(***************************************************************************)
EXTENDS PaperExecution, TLC

CONSTANTS A, a1, a2, sl, tp

MCSymbols  == {A}
MCPair     == {a1, a2}
MCSymbolOf == [t \in Trades |-> A]
MCStop     == {sl}
MCBoth     == {sl, tp}
MCSymmetry == Permutations(Trades)

=============================================================================

--------------------------- MODULE MCMarketArchive ---------------------------
(* Two recorder processes, of either kind, over two days. *)
EXTENDS MarketArchive, TLC

CONSTANTS P1, P2

MCWrites == [quote |-> <<"options">>, perp |-> <<"perp_candles">>]
Interchangeable == Permutations(Processes)

=============================================================================

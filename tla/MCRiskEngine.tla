---------------------------- MODULE MCRiskEngine ----------------------------
EXTENDS RiskEngine, TLC
CONSTANTS A, B
MCSymbols  == {A, B}
MCResults  == {-2, 1}
MCSymmetry == Permutations(MCSymbols)
=============================================================================

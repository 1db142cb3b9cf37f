------------------------------- MODULE MCChain -------------------------------
(* A small instance of Chain for TLC.                                       *)
EXTENDS Chain, TLC

CONSTANTS c1, c2, c3

MCCalls  == {c1, c2, c3}
Symmetry == Permutations(MCCalls)
=============================================================================

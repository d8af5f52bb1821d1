--------------------------- MODULE MCTokenRevocation ---------------------------
(* TokenRevocation for TLC: interchangeable handlers.                          *)
EXTENDS TokenRevocation, TLC

Symmetry == Permutations(Handlers)
===============================================================================

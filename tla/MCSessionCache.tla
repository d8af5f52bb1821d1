---------------------------- MODULE MCSessionCache ----------------------------
(* SessionCache for TLC: one stored session reached by racing requests.       *)
EXTENDS SessionCache, TLC

Symmetry == Permutations(Requests) \cup Permutations(Users)
===============================================================================

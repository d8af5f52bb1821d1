--------------------------------- MODULE Pages ---------------------------------
(***************************************************************************)
(* Lists of keys cut into pages and chunks.  A list without repetitions,   *)
(* in the order storage gives it, is the set of its places in that order.  *)
(***************************************************************************)
EXTENDS Integers, FiniteSets

BelowIn(n, S) == {m \in S : m < n}

\* The first count members of S.
FirstOf(S, count) == {n \in S : Cardinality(BelowIn(n, S)) < count}

IsLast(n, S) == n \in S /\ \A m \in S : m <= n
===============================================================================

-------------------------------- MODULE BulkOp --------------------------------
(***************************************************************************)
(* What a bulk HEAD or ACL request promises its caller: storage is asked   *)
(* once about each key of the batch, and the one answer, given when all of *)
(* them are settled, tells in the i-th place what became of the i-th key.  *)
(* BulkFanout implements this specification.                               *)
(***************************************************************************)
EXTENDS Integers

CONSTANTS
  Requests,  \* the bulk requests
  MaxBatch   \* maxBatchSize

VARIABLES
  size,     \* [Requests -> 0..MaxBatch]: the accepted batch, 0 before
  outcome,  \* [Requests -> [Indices -> Outcomes]]: what storage did with each key
  answer    \* [Requests -> Answers]: what the caller was told, {} before

vars == <<size, outcome, answer>>

Indices == 1 .. MaxBatch

Init ==
  /\ size = [r \in Requests |-> 0]
  /\ outcome = [r \in Requests |-> [i \in Indices |-> "none"]]
  /\ answer = [r \in Requests |-> {}]

\* A batch within the limit is accepted.
Accept(r, n) ==
  /\ size[r] = 0
  /\ size' = [size EXCEPT ![r] = n]
  /\ UNCHANGED <<outcome, answer>>

\* Storage settles one key, once.
Settle(r, i, result) ==
  /\ i <= size[r]
  /\ outcome[r][i] = "none"
  /\ outcome' = [outcome EXCEPT ![r][i] = result]
  /\ UNCHANGED <<size, answer>>

\* The places of the keys that succeeded are reported once all are settled.
Reply(r) ==
  /\ size[r] > 0
  /\ answer[r] = {}
  /\ \A i \in 1 .. size[r] : outcome[r][i] # "none"
  /\ answer' = [answer EXCEPT ![r] = {{i \in 1 .. size[r] : outcome[r][i] = "ok"}}]
  /\ UNCHANGED <<size, outcome>>

Next ==
  \E r \in Requests :
    \/ \E n \in Indices : Accept(r, n)
    \/ \E i \in Indices, result \in {"ok", "failed"} : Settle(r, i, result)
    \/ Reply(r)

Spec == Init /\ [][Next]_vars
===============================================================================

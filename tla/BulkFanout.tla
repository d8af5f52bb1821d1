------------------------------ MODULE BulkFanout ------------------------------
(***************************************************************************)
(* Bulk HEAD and bulk ACL requests: routers.forEachLimited starts one      *)
(* goroutine per key behind a semaphore of bulkConcurrency, each makes one *)
(* storage call over the connections all requests share, and the handler   *)
(* answers when the wait group is empty.  Every channel and wait-group     *)
(* operation is a step of its own, so the goroutines interleave freely.    *)
(***************************************************************************)
EXTENDS Integers, FiniteSets

CONSTANTS
  Requests,         \* the bulk requests
  Heads,            \* those that are bulk HEADs; the others set ACLs
  Lengths,          \* the numbers of keys a request's body may hold
  MaxBatch,         \* maxBatchSize
  BulkConcurrency,  \* bulkConcurrency
  Slots             \* calls the shared transport runs at once on a storage server

ASSUME LimitsAssumption ==
  /\ IsFiniteSet(Requests)
  /\ Heads \subseteq Requests
  /\ Lengths \in [Requests -> SUBSET Nat]
  /\ MaxBatch \in Nat
  /\ BulkConcurrency \in Nat \ {0}
  /\ Slots \in Nat \ {0}

VARIABLES
  phase,    \* where each handler is
  size,     \* len(req.Keys) of an accepted request
  next,     \* forEachLimited's loop variable
  sem,      \* len(sem)
  wg,       \* the wait group's counter
  stage,    \* where the goroutine of each key is
  busy,     \* calls the transport is running
  results,  \* the handler's results slice
  outcome,  \* history: what storage did with each key
  answer    \* history: the places reported as done, {} before the answer

loopVars == <<phase, size, next>>
goVars == <<sem, wg, stage>>
dataVars == <<results, outcome, answer>>
vars == <<loopVars, goVars, busy, dataVars>>

Indices == 1 .. MaxBatch
Phases == {"idle", "loop", "acquire", "wait", "answered", "refused"}
Stages == {"none", "started", "queued", "calling", "returned", "freed", "done"}
Outcomes == {"none", "ok", "failed"}

Init ==
  /\ phase = [r \in Requests |-> "idle"]
  /\ size = [r \in Requests |-> 0]
  /\ next = [r \in Requests |-> 1]
  /\ sem = [r \in Requests |-> 0]
  /\ wg = [r \in Requests |-> 0]
  /\ stage = [r \in Requests |-> [i \in Indices |-> "none"]]
  /\ busy = 0
  /\ results = [r \in Requests |-> [i \in Indices |-> "none"]]
  /\ outcome = [r \in Requests |-> [i \in Indices |-> "none"]]
  /\ answer = [r \in Requests |-> {}]

-------------------------------------------------------------------------------
(* The handler's goroutine.                                                 *)

\* The checks before the fan-out: an empty or oversized batch, a bad key or
\* ACL is refused.
Receive(r, n) ==
  /\ phase[r] = "idle"
  /\ \/ /\ n \in Indices
        /\ phase' = [phase EXCEPT ![r] = "loop"]
        /\ size' = [size EXCEPT ![r] = n]
     \/ /\ phase' = [phase EXCEPT ![r] = "refused"]
        /\ UNCHANGED size
  /\ UNCHANGED <<next, goVars, busy, dataVars>>

\* wg.Add(1)
Add(r) ==
  /\ phase[r] = "loop"
  /\ next[r] <= size[r]
  /\ wg' = [wg EXCEPT ![r] = @ + 1]
  /\ phase' = [phase EXCEPT ![r] = "acquire"]
  /\ UNCHANGED <<size, next, sem, stage, busy, dataVars>>

StartUnlimited(r) ==
  /\ phase[r] = "acquire"
  /\ sem' = [sem EXCEPT ![r] = @ + 1]
  /\ stage' = [stage EXCEPT ![r][next[r]] = "started"]
  /\ next' = [next EXCEPT ![r] = @ + 1]
  /\ phase' = [phase EXCEPT ![r] = "loop"]
  /\ UNCHANGED <<size, wg, busy, dataVars>>

\* sem <- struct{}{} blocks while the channel is full; then go func(i).
Start(r) ==
  /\ phase[r] = "acquire"
  /\ sem[r] < BulkConcurrency
  /\ sem' = [sem EXCEPT ![r] = @ + 1]
  /\ stage' = [stage EXCEPT ![r][next[r]] = "started"]
  /\ next' = [next EXCEPT ![r] = @ + 1]
  /\ phase' = [phase EXCEPT ![r] = "loop"]
  /\ UNCHANGED <<size, wg, busy, dataVars>>

\* The loop is over.
EndLoop(r) ==
  /\ phase[r] = "loop"
  /\ next[r] > size[r]
  /\ phase' = [phase EXCEPT ![r] = "wait"]
  /\ UNCHANGED <<size, next, goVars, busy, dataVars>>

\* The places of the results slice that report success.
Reported(r) == {i \in 1 .. size[r] : results[r][i] = "ok"}

ReplyAfterLoop(r) ==
  /\ phase[r] = "wait"
  /\ phase' = [phase EXCEPT ![r] = "answered"]
  /\ answer' = [answer EXCEPT ![r] = {Reported(r)}]
  /\ UNCHANGED <<size, next, goVars, busy, results, outcome>>

\* wg.Wait() returns and the results slice is sent.
Reply(r) ==
  /\ phase[r] = "wait"
  /\ wg[r] = 0
  /\ phase' = [phase EXCEPT ![r] = "answered"]
  /\ answer' = [answer EXCEPT ![r] = {Reported(r)}]
  /\ UNCHANGED <<size, next, goVars, busy, results, outcome>>

-------------------------------------------------------------------------------
(* The goroutine of one key.                                                *)

\* GetS3Client has given a client and the call is handed to the transport, where
\* it stays until it is answered: no deadline and no context ends it before.
Send(r, i) ==
  /\ stage[r][i] = "started"
  /\ stage' = [stage EXCEPT ![r][i] = "queued"]
  /\ UNCHANGED <<loopVars, sem, wg, busy, dataVars>>

\* The transport has room for the call.
Call(r, i) ==
  /\ stage[r][i] = "queued"
  /\ busy < Slots
  /\ busy' = busy + 1
  /\ stage' = [stage EXCEPT ![r][i] = "calling"]
  /\ UNCHANGED <<loopVars, sem, wg, dataVars>>

\* What fn writes for a key: a failed HEAD leaves its place nil.
Written(r, i, result) ==
  IF r \in Heads /\ result = "failed" THEN results
  ELSE [results EXCEPT ![r][i] = result]

RecordAtLoopIndex(r, i, result) ==
  /\ outcome' = [outcome EXCEPT ![r][i] = result]
  /\ results' = Written(r, next[r] - 1, result)
  /\ stage' = [stage EXCEPT ![r][i] = "returned"]
  /\ UNCHANGED <<loopVars, sem, wg, answer>>

\* fn returns with the call's result.
Record(r, i, result) ==
  /\ outcome' = [outcome EXCEPT ![r][i] = result]
  /\ results' = Written(r, i, result)
  /\ stage' = [stage EXCEPT ![r][i] = "returned"]
  /\ UNCHANGED <<loopVars, sem, wg, answer>>

ReturnLeaking(r, i, result) ==
  /\ stage[r][i] = "calling"
  /\ busy' = IF result = "ok" THEN busy - 1 ELSE busy
  /\ Record(r, i, result)

\* Storage answers the call, or it fails on the way.
Return(r, i, result) ==
  /\ stage[r][i] = "calling"
  /\ busy' = busy - 1
  /\ Record(r, i, result)

\* GetS3Client or a check of the arguments fails: the transport is never asked.
FailEarly(r, i) ==
  /\ stage[r][i] = "started"
  /\ Record(r, i, "failed")
  /\ UNCHANGED busy

FreeTwice(r, i) ==
  /\ stage[r][i] = "returned"
  /\ stage' = [stage EXCEPT ![r][i] = "freed"]
  /\ sem' = [sem EXCEPT ![r] = IF outcome[r][i] = "ok" THEN @ - 1 ELSE @ - 2]
  /\ UNCHANGED <<loopVars, wg, busy, dataVars>>

\* <-sem in the deferred function.
Free(r, i) ==
  /\ stage[r][i] = "returned"
  /\ stage' = [stage EXCEPT ![r][i] = "freed"]
  /\ sem' = [sem EXCEPT ![r] = @ - 1]
  /\ UNCHANGED <<loopVars, wg, busy, dataVars>>

\* wg.Done() in the deferred function.
Done(r, i) ==
  /\ stage[r][i] = "freed"
  /\ stage' = [stage EXCEPT ![r][i] = "done"]
  /\ wg' = [wg EXCEPT ![r] = @ - 1]
  /\ UNCHANGED <<loopVars, sem, busy, dataVars>>

-------------------------------------------------------------------------------
\* What a handler or a goroutine that is under way does next; a client need
\* never send a request.
Handle(r) == Add(r) \/ Start(r) \/ EndLoop(r) \/ Reply(r)

Prepare(r, i) == Send(r, i) \/ FailEarly(r, i)
Answer(r, i) == \E result \in {"ok", "failed"} : Return(r, i, result)

Work(r, i) == Prepare(r, i) \/ Call(r, i) \/ Answer(r, i) \/ Free(r, i) \/ Done(r, i)

Next ==
  \E r \in Requests :
    \/ \E n \in Lengths[r] : Receive(r, n)
    \/ Handle(r)
    \/ \E i \in Indices : Work(r, i)

Spec == Init /\ [][Next]_vars

\* Goroutines run, storage answers a call it was sent, and a call does not wait
\* for ever beside a free slot.  Each step is fair on its own, so that nothing
\* but a freed slot lets a queued call go on.
FairSpec ==
  /\ Spec
  /\ \A r \in Requests : WF_vars(Handle(r))
  /\ \A r \in Requests, i \in Indices :
       /\ WF_vars(Prepare(r, i))
       /\ WF_vars(Call(r, i))
       /\ WF_vars(Answer(r, i))
       /\ WF_vars(Free(r, i))
       /\ WF_vars(Done(r, i))

-------------------------------------------------------------------------------
\* Type invariant: the semaphore and the wait group stay within their range.
TypeOK ==
  /\ phase \in [Requests -> Phases]
  /\ size \in [Requests -> 0 .. MaxBatch]
  /\ next \in [Requests -> 1 .. MaxBatch + 1]
  /\ sem \in [Requests -> 0 .. BulkConcurrency]
  /\ wg \in [Requests -> 0 .. MaxBatch]
  /\ stage \in [Requests -> [Indices -> Stages]]
  /\ busy \in 0 .. Slots
  /\ results \in [Requests -> [Indices -> Outcomes]]
  /\ outcome \in [Requests -> [Indices -> Outcomes]]
  /\ answer \in [Requests -> SUBSET SUBSET Indices]

\* The keys whose goroutine is at one of these stages.
At(stageOf, stages) == {i \in Indices : stageOf[i] \in stages}

\* Started, and the call not over.
Pending == {"started", "queued", "calling"}

\* One request never has more than bulkConcurrency calls queued or running,
\* which is what keeps a page of bulk requests from flooding storage.
CallsBounded ==
  \A r \in Requests : Cardinality(At(stage[r], Pending)) <= BulkConcurrency

\* Once a request is answered none of its goroutines runs any more: nothing
\* writes the results slice while or after it is encoded.
QuietAfterReply ==
  \A r \in Requests :
    phase[r] = "answered" => \A i \in 1 .. size[r] : stage[r][i] = "done"

\* The request is answered once, with all keys settled, each in its place.
Promise == INSTANCE BulkOp
ImplementsBulkOp == Promise!Spec

\* An accepted request is answered, however few slots the transport has for the
\* calls queued on it: no goroutine keeps the semaphore, a slot or the wait
\* group for ever, and no two of them wait for what the other holds.
EveryRequestAnswered ==
  \A r \in Requests : (phase[r] = "loop") ~> (phase[r] = "answered")
===============================================================================

--------------------------- MODULE BulkFanoutProofs ---------------------------
(***************************************************************************)
(* Proofs about BulkFanout for any number of requests, any batch limit and *)
(* any width of the semaphore and of the transport.  The two counters are  *)
(* tied to the goroutines they count: len(sem) to those that have not      *)
(* freed their slot, the wait group to those that have not called Done.    *)
(***************************************************************************)
EXTENDS BulkFanout, FiniteSetTheorems, TLAPS

Holding == {"started", "queued", "calling", "returned"}
Owed == {"started", "queued", "calling", "returned", "freed"}

\* The calls the transport is running.
Calls == {c \in Requests \X Indices : stage[c[1]][c[2]] = "calling"}

Types ==
  /\ phase \in [Requests -> Phases]
  /\ size \in [Requests -> 0 .. MaxBatch]
  /\ next \in [Requests -> Nat \ {0}]
  /\ sem \in [Requests -> Int]
  /\ wg \in [Requests -> Int]
  /\ stage \in [Requests -> [Indices -> Stages]]
  /\ busy \in Int
  /\ results \in [Requests -> [Indices -> Outcomes]]
  /\ outcome \in [Requests -> [Indices -> Outcomes]]
  /\ answer \in [Requests -> SUBSET SUBSET Indices]

\* Where the loop is, and which goroutines it has started.
LoopInv(r) ==
  /\ next[r] <= size[r] + 1
  /\ phase[r] \in {"idle", "refused"} => size[r] = 0
  /\ phase[r] \notin {"idle", "refused"} => size[r] > 0
  /\ phase[r] = "acquire" => next[r] <= size[r]
  /\ phase[r] \in {"wait", "answered"} => next[r] = size[r] + 1
  /\ \A i \in Indices : stage[r][i] = "none" <=> i >= next[r]

SemInv(r) ==
  /\ sem[r] = Cardinality(At(stage[r], Holding))
  /\ sem[r] <= BulkConcurrency

WaitInv(r) ==
  /\ wg[r] = Cardinality(At(stage[r], Owed)) + (IF phase[r] = "acquire" THEN 1 ELSE 0)
  /\ phase[r] = "answered" => wg[r] = 0

ResultInv(r) ==
  /\ \A i \in Indices :
       /\ outcome[r][i] = "none" <=> stage[r][i] \in {"none", "started", "queued", "calling"}
       /\ results[r][i] = "ok" <=> outcome[r][i] = "ok"
  /\ answer[r] # {} <=> phase[r] = "answered"

BusyInv == busy = Cardinality(Calls) /\ busy <= Slots

IInv ==
  /\ Types
  /\ \A r \in Requests : LoopInv(r)
  /\ \A r \in Requests : SemInv(r)
  /\ \A r \in Requests : WaitInv(r)
  /\ \A r \in Requests : ResultInv(r)
  /\ BusyInv

-------------------------------------------------------------------------------
(* Counting.                                                                *)

\* The goroutines of a request, and the calls of all, are finitely many.
LEMMA Finite ==
  /\ \A f, S : IsFiniteSet(At(f, S)) /\ Cardinality(At(f, S)) \in Nat
  /\ IsFiniteSet(Calls) /\ Cardinality(Calls) \in Nat
<1>1. IsFiniteSet(Indices)
  BY FS_Interval, LimitsAssumption DEF Indices
<1>2. \A f, S : At(f, S) \in SUBSET Indices
  BY DEF At
<1>3. IsFiniteSet(Requests \X Indices)
  BY <1>1, FS_Product, LimitsAssumption
<1>4. Calls \in SUBSET (Requests \X Indices)
  BY DEF Calls
<1> QED
  BY <1>1, <1>2, <1>3, <1>4, FS_Subset, FS_CardinalityType

\* A set of goroutines gains or loses one.
LEMMA Counting ==
  ASSUME NEW f, NEW S, NEW i
  PROVE  /\ Cardinality(At(f, S)) \in Nat
         /\ i \notin At(f, S) => Cardinality(At(f, S) \cup {i}) = Cardinality(At(f, S)) + 1
         /\ i \in At(f, S) => Cardinality(At(f, S) \ {i}) = Cardinality(At(f, S)) - 1
BY Finite, FS_AddElement, FS_RemoveElement

\* What moving one goroutine does to the calls the transport is running.
LEMMA CallMove ==
  ASSUME NEW r \in Requests, NEW i \in Indices, NEW to,
         stage \in [Requests -> [Indices -> Stages]],
         stage' = [stage EXCEPT ![r][i] = to]
  PROVE  /\ (stage[r][i] = "calling" <=> to = "calling") => Calls' = Calls
         /\ stage[r][i] # "calling" /\ to = "calling" =>
              Cardinality(Calls') = Cardinality(Calls) + 1
         /\ stage[r][i] = "calling" /\ to # "calling" =>
              Cardinality(Calls') = Cardinality(Calls) - 1
<1>0. \A q \in Requests, j \in Indices :
        stage'[q][j] = IF q = r /\ j = i THEN to ELSE stage[q][j]
  OBVIOUS
<1>1. (stage[r][i] = "calling" <=> to = "calling") => Calls' = Calls
  BY <1>0 DEF Calls
<1>2. stage[r][i] # "calling" /\ to = "calling" =>
        Calls' = Calls \cup {<<r, i>>} /\ <<r, i>> \notin Calls
  BY <1>0 DEF Calls
<1>3. stage[r][i] = "calling" /\ to # "calling" =>
        Calls' = Calls \ {<<r, i>>} /\ <<r, i>> \in Calls
  BY <1>0 DEF Calls
<1>4. IsFiniteSet(Calls) /\ Cardinality(Calls) \in Nat
  BY Finite
<1>5. Cardinality(Calls \cup {<<r, i>>}) =
        IF <<r, i>> \in Calls THEN Cardinality(Calls) ELSE Cardinality(Calls) + 1
  BY <1>4, FS_AddElement
<1>6. Cardinality(Calls \ {<<r, i>>}) =
        IF <<r, i>> \in Calls THEN Cardinality(Calls) - 1 ELSE Cardinality(Calls)
  BY <1>4, FS_RemoveElement
<1> QED
  BY <1>1, <1>2, <1>3, <1>5, <1>6

-------------------------------------------------------------------------------
(* The steps of Next: what each of them may assume.                         *)

Step(r) ==
  \/ \E n \in Lengths[r] : Receive(r, n)
  \/ Add(r) \/ Start(r) \/ EndLoop(r) \/ Reply(r)
  \/ \E i \in Indices :
       \/ Send(r, i) \/ Call(r, i)
       \/ \E result \in {"ok", "failed"} : Return(r, i, result)
       \/ FailEarly(r, i) \/ Free(r, i) \/ Done(r, i)

\* Every step is one of a handler or of one of its goroutines.
LEMMA Steps ==
  ASSUME Next
  PROVE  \E r \in Requests : Step(r)
BY DEF Next, Handle, Work, Prepare, Answer, Step

\* The goroutine Start launches is one no other loop turn has launched.
LEMMA StartIndex ==
  ASSUME IInv, NEW r \in Requests, phase[r] = "acquire"
  PROVE  /\ next[r] \in Indices
         /\ next[r] <= size[r]
         /\ stage[r][next[r]] = "none"
BY LimitsAssumption DEF IInv, Types, LoopInv, Indices

LEMMA TypesStep ==
  ASSUME IInv, [Next]_vars
  PROVE  Types'
<1> USE LimitsAssumption DEF IInv, Types, Phases, Stages, Outcomes
<1>1. CASE UNCHANGED vars
  BY <1>1 DEF vars, loopVars, goVars, dataVars
<1>2. CASE Next
  <2>1. PICK r \in Requests : Step(r)
    BY <1>2, Steps
  <2>2. ASSUME NEW n \in Lengths[r], Receive(r, n)  PROVE Types'
    <3>1. phase' \in [Requests -> Phases]
      BY <2>2 DEF Receive
    <3>2. size' \in [Requests -> 0 .. MaxBatch]
      <4>1. n \in Indices => n \in 0 .. MaxBatch
        BY DEF Indices
      <4>2. size' = size \/ (n \in Indices /\ size' = [size EXCEPT ![r] = n])
        BY <2>2 DEF Receive
      <4> QED
        BY <4>1, <4>2
    <3>3. UNCHANGED <<next, sem, wg, stage, busy, results, outcome, answer>>
      BY <2>2 DEF Receive, goVars, dataVars
    <3> QED
      BY <3>1, <3>2, <3>3
  <2>3. CASE Add(r)
    BY <2>3 DEF Add, dataVars
  <2>4. CASE Start(r)
    BY <2>4, StartIndex DEF Start, dataVars
  <2>5. CASE EndLoop(r)
    BY <2>5 DEF EndLoop, goVars, dataVars
  <2>6. CASE Reply(r)
    <3>1. Reported(r) \in SUBSET Indices
      BY DEF Reported, Indices
    <3> QED
      BY <2>6, <3>1 DEF Reply, goVars
  <2>7. ASSUME NEW i \in Indices, Send(r, i) \/ Call(r, i)  PROVE Types'
    <3>1. CASE Send(r, i)
      BY <3>1 DEF Send, loopVars, dataVars
    <3>2. CASE Call(r, i)
      BY <3>2 DEF Call, loopVars, dataVars
    <3> QED
      BY <2>7, <3>1, <3>2
  <2>8. ASSUME NEW i \in Indices, NEW result \in {"ok", "failed"}, Record(r, i, result),
               busy' \in Int
        PROVE  Types'
    BY <2>8 DEF Record, Written, loopVars
  <2>9. ASSUME NEW i \in Indices, NEW result \in {"ok", "failed"}, Return(r, i, result)
        PROVE  Types'
    BY <2>8, <2>9 DEF Return
  <2>10. ASSUME NEW i \in Indices, FailEarly(r, i)  PROVE Types'
    BY <2>8, <2>10 DEF FailEarly
  <2>11. ASSUME NEW i \in Indices, Free(r, i)  PROVE Types'
    BY <2>11 DEF Free, loopVars, dataVars
  <2>12. ASSUME NEW i \in Indices, Done(r, i)  PROVE Types'
    BY <2>12 DEF Done, loopVars, dataVars
  <2> QED
    BY <2>1, <2>2, <2>3, <2>4, <2>5, <2>6, <2>7, <2>9, <2>10, <2>11, <2>12 DEF Step
<1> QED
  BY <1>1, <1>2

\* The loop starts the goroutines in order, each once.
LEMMA LoopStep ==
  ASSUME IInv, [Next]_vars
  PROVE  \A q \in Requests : LoopInv(q)'
<1> SUFFICES ASSUME NEW q \in Requests  PROVE LoopInv(q)'
  OBVIOUS
<1>0. LoopInv(q) /\ Types
  BY DEF IInv
<1> USE <1>0, LimitsAssumption DEF Types, LoopInv, Phases, Stages
<1>1. CASE UNCHANGED vars
  BY <1>1 DEF vars, loopVars, goVars
<1>2. CASE Next
  <2>1. PICK r \in Requests : Step(r)
    BY <1>2, Steps
  <2>2. ASSUME NEW n \in Lengths[r], Receive(r, n)  PROVE LoopInv(q)'
    BY <2>2 DEF Receive, goVars, Indices
  <2>3. CASE Add(r)
    BY <2>3 DEF Add
  <2>4. CASE Start(r)
    <3>1. next[r] \in Indices /\ next[r] <= size[r]
      BY <2>4, StartIndex DEF Start
    <3>2. \A i \in Indices : stage'[q][i] = IF q = r /\ i = next[r] THEN "started" ELSE stage[q][i]
      BY <2>4, <3>1 DEF Start
    <3>3. next' = [next EXCEPT ![r] = @ + 1] /\ phase' = [phase EXCEPT ![r] = "loop"] /\ size' = size
          /\ phase[r] = "acquire"
      BY <2>4 DEF Start
    <3>4. \A i \in Indices : (stage[q][i] = "none" <=> i >= next[q]) =>
                              (stage'[q][i] = "none" <=> i >= next'[q])
      BY <3>1, <3>2, <3>3 DEF Indices
    <3> QED
      BY <3>1, <3>3, <3>4
  <2>5. CASE EndLoop(r)
    BY <2>5 DEF EndLoop, goVars
  <2>6. CASE Reply(r)
    BY <2>6 DEF Reply, goVars
  <2>7. ASSUME NEW i \in Indices, NEW to \in Stages \ {"none"}, stage[r][i] # "none",
               UNCHANGED loopVars, stage' = [stage EXCEPT ![r][i] = to]
        PROVE  LoopInv(q)'
    BY <2>7 DEF loopVars
  <2>8. ASSUME NEW i \in Indices, Send(r, i) \/ Call(r, i)  PROVE LoopInv(q)'
    BY <2>7, <2>8 DEF Send, Call
  <2>9. ASSUME NEW i \in Indices, NEW result \in {"ok", "failed"},
               Return(r, i, result) \/ FailEarly(r, i)
        PROVE  LoopInv(q)'
    <3>1. stage[r][i] # "none" /\ UNCHANGED loopVars /\ stage' = [stage EXCEPT ![r][i] = "returned"]
      BY <2>9 DEF Return, FailEarly, Record
    <3> QED
      BY <2>7, <3>1
  <2>10. ASSUME NEW i \in Indices, Free(r, i)  PROVE LoopInv(q)'
    BY <2>7, <2>10 DEF Free
  <2>11. ASSUME NEW i \in Indices, Done(r, i)  PROVE LoopInv(q)'
    BY <2>7, <2>11 DEF Done
  <2> QED
    BY <2>1, <2>2, <2>3, <2>4, <2>5, <2>6, <2>8, <2>9, <2>10, <2>11 DEF Step
<1> QED
  BY <1>1, <1>2
\* len(sem) counts the goroutines that have not freed their slot.
LEMMA SemStep ==
  ASSUME IInv, [Next]_vars
  PROVE  \A q \in Requests : SemInv(q)'
<1> SUFFICES ASSUME NEW q \in Requests  PROVE SemInv(q)'
  OBVIOUS
<1>0. /\ SemInv(q) /\ Types /\ Cardinality(At(stage[q], Holding)) \in Nat
  BY Finite DEF IInv
<1> USE <1>0, LimitsAssumption DEF Types, SemInv
<1>1. ASSUME UNCHANGED <<sem, stage>>  PROVE SemInv(q)'
  BY <1>1
<1>2. CASE Next
  <2>1. PICK r \in Requests : Step(r)
    BY <1>2, Steps
  <2>2. ASSUME NEW n \in Lengths[r], Receive(r, n)  PROVE SemInv(q)'
    BY <1>1, <2>2 DEF Receive, goVars
  <2>3. CASE Add(r) \/ EndLoop(r) \/ Reply(r)
    BY <1>1, <2>3 DEF Add, EndLoop, Reply, goVars
  <2>4. CASE Start(r)
    <3>1. /\ next[r] \in Indices /\ stage[r][next[r]] = "none"
          /\ \A p \in Requests, j \in Indices :
               stage'[p][j] = IF p = r /\ j = next[r] THEN "started" ELSE stage[p][j]
      BY <2>4, StartIndex DEF Start
    <3>2. Cardinality(At(stage'[q], Holding)) = Cardinality(At(stage[q], Holding)) + (IF q = r THEN 1 ELSE 0)
      <4>1. /\ At(stage'[q], Holding) = IF q = r THEN At(stage[q], Holding) \cup {next[r]}
                                     ELSE At(stage[q], Holding)
            /\ q = r => next[r] \notin At(stage[q], Holding)
        BY <3>1 DEF At, Holding
      <4>2. q = r => Cardinality(At(stage[q], Holding) \cup {next[r]}) = Cardinality(At(stage[q], Holding)) + 1
        BY <4>1, Counting
      <4> QED
        BY <4>1, <4>2
    <3> QED
      BY <2>4, <3>2 DEF Start
  <2>5. ASSUME NEW i \in Indices, NEW to \in Stages, UNCHANGED sem,
               stage[r][i] \in Holding <=> to \in Holding,
               stage' = [stage EXCEPT ![r][i] = to]
        PROVE  SemInv(q)'
    <3>1. Cardinality(At(stage'[q], Holding)) = Cardinality(At(stage[q], Holding))
      <4>1. At(stage'[q], Holding) = At(stage[q], Holding)
        BY <2>5 DEF At
      <4> QED
        BY <4>1
    <3> QED
      BY <2>5, <3>1
  <2>6. ASSUME NEW i \in Indices, Send(r, i) \/ Call(r, i)  PROVE SemInv(q)'
    BY <2>5, <2>6 DEF Send, Call, Holding, Stages
  <2>7. ASSUME NEW i \in Indices, NEW result \in {"ok", "failed"}, Return(r, i, result)
        PROVE  SemInv(q)'
    BY <2>5, <2>7 DEF Return, Record, Holding, Stages
  <2>8. ASSUME NEW i \in Indices, FailEarly(r, i)  PROVE SemInv(q)'
    BY <2>5, <2>8 DEF FailEarly, Record, Holding, Stages
  <2>9. ASSUME NEW i \in Indices, Free(r, i)  PROVE SemInv(q)'
    <3>1. Cardinality(At(stage'[q], Holding)) = Cardinality(At(stage[q], Holding)) - (IF q = r THEN 1 ELSE 0)
      <4>1. /\ At(stage'[q], Holding) = IF q = r THEN At(stage[q], Holding) \ {i}
                                     ELSE At(stage[q], Holding)
            /\ q = r => i \in At(stage[q], Holding)
        BY <2>9 DEF Free, At, Holding
      <4>2. q = r => Cardinality(At(stage[q], Holding) \ {i}) = Cardinality(At(stage[q], Holding)) - 1
        BY <4>1, Counting
      <4> QED
        BY <4>1, <4>2
    <3> QED
      BY <2>9, <3>1 DEF Free
  <2>10. ASSUME NEW i \in Indices, Done(r, i)  PROVE SemInv(q)'
    BY <2>5, <2>10 DEF Done, Holding, Stages
  <2> QED
    BY <2>1, <2>2, <2>3, <2>4, <2>6, <2>7, <2>8, <2>9, <2>10 DEF Step
<1> QED
  BY <1>1, <1>2 DEF vars, goVars

\* The wait group counts the goroutines that have not called Done, and the
\* one about to be started.
LEMMA WaitStep ==
  ASSUME IInv, [Next]_vars
  PROVE  \A q \in Requests : WaitInv(q)'
<1> SUFFICES ASSUME NEW q \in Requests  PROVE WaitInv(q)'
  OBVIOUS
<1>0. /\ WaitInv(q) /\ Types /\ Cardinality(At(stage[q], Owed)) \in Nat
  BY Finite DEF IInv
<1> USE <1>0, LimitsAssumption DEF Types, WaitInv
<1>1. ASSUME UNCHANGED <<wg, stage, phase>>  PROVE WaitInv(q)'
  BY <1>1
<1>2. CASE Next
  <2>1. PICK r \in Requests : Step(r)
    BY <1>2, Steps
  <2>2. ASSUME NEW n \in Lengths[r], Receive(r, n)  PROVE WaitInv(q)'
    <3>1. At(stage'[q], Owed) = At(stage[q], Owed) /\ wg' = wg
      BY <2>2 DEF Receive, goVars
    <3>2. q # r => phase'[q] = phase[q]
      BY <2>2 DEF Receive
    <3>3. phase[r] = "idle" /\ phase'[r] \in {"loop", "refused"}
      BY <2>2 DEF Receive
    <3> QED
      BY <3>1, <3>2, <3>3
  <2>3. CASE Add(r)
    <3>1. At(stage'[q], Owed) = At(stage[q], Owed)
      BY <2>3 DEF Add
    <3> QED
      BY <2>3, <3>1 DEF Add
  <2>4. CASE Start(r)
    <3>1. /\ next[r] \in Indices /\ stage[r][next[r]] = "none"
          /\ \A p \in Requests, j \in Indices :
               stage'[p][j] = IF p = r /\ j = next[r] THEN "started" ELSE stage[p][j]
      BY <2>4, StartIndex DEF Start
    <3>2. Cardinality(At(stage'[q], Owed)) = Cardinality(At(stage[q], Owed)) + (IF q = r THEN 1 ELSE 0)
      <4>1. /\ At(stage'[q], Owed) = IF q = r THEN At(stage[q], Owed) \cup {next[r]}
                                     ELSE At(stage[q], Owed)
            /\ q = r => next[r] \notin At(stage[q], Owed)
        BY <3>1 DEF At, Owed
      <4>2. q = r => Cardinality(At(stage[q], Owed) \cup {next[r]}) = Cardinality(At(stage[q], Owed)) + 1
        BY <4>1, Counting
      <4> QED
        BY <4>1, <4>2
    <3> QED
      BY <2>4, <3>2 DEF Start
  <2>5. CASE EndLoop(r)
    <3>1. At(stage'[q], Owed) = At(stage[q], Owed)
      BY <2>5 DEF EndLoop, goVars
    <3> QED
      BY <2>5, <3>1 DEF EndLoop, goVars
  <2>6. CASE Reply(r)
    <3>1. At(stage'[q], Owed) = At(stage[q], Owed)
      BY <2>6 DEF Reply, goVars
    <3> QED
      BY <2>6, <3>1 DEF Reply, goVars
  <2>7. ASSUME NEW i \in Indices, NEW to \in Stages, UNCHANGED <<wg, phase>>,
               stage[r][i] \in Owed <=> to \in Owed,
               stage' = [stage EXCEPT ![r][i] = to]
        PROVE  WaitInv(q)'
    <3>1. Cardinality(At(stage'[q], Owed)) = Cardinality(At(stage[q], Owed))
      <4>1. At(stage'[q], Owed) = At(stage[q], Owed)
        BY <2>7 DEF At
      <4> QED
        BY <4>1
    <3> QED
      BY <2>7, <3>1
  <2>8. ASSUME NEW i \in Indices, Send(r, i) \/ Call(r, i)  PROVE WaitInv(q)'
    BY <2>7, <2>8 DEF Send, Call, Owed, Stages, loopVars
  <2>9. ASSUME NEW i \in Indices, NEW result \in {"ok", "failed"}, Return(r, i, result)
        PROVE  WaitInv(q)'
    BY <2>7, <2>9 DEF Return, Record, Owed, Stages, loopVars
  <2>10. ASSUME NEW i \in Indices, FailEarly(r, i)  PROVE WaitInv(q)'
    BY <2>7, <2>10 DEF FailEarly, Record, Owed, Stages, loopVars
  <2>11. ASSUME NEW i \in Indices, Free(r, i)  PROVE WaitInv(q)'
    BY <2>7, <2>11 DEF Free, Owed, Stages, loopVars
  <2>12. ASSUME NEW i \in Indices, Done(r, i)  PROVE WaitInv(q)'
    <3>1. Cardinality(At(stage'[q], Owed)) = Cardinality(At(stage[q], Owed)) - (IF q = r THEN 1 ELSE 0)
      <4>1. /\ At(stage'[q], Owed) = IF q = r THEN At(stage[q], Owed) \ {i}
                                     ELSE At(stage[q], Owed)
            /\ q = r => i \in At(stage[q], Owed)
        BY <2>12 DEF Done, At, Owed
      <4>2. q = r => Cardinality(At(stage[q], Owed) \ {i}) = Cardinality(At(stage[q], Owed)) - 1
        BY <4>1, Counting
      <4> QED
        BY <4>1, <4>2
    <3>2. wg' = [wg EXCEPT ![r] = @ - 1] /\ phase' = phase /\ i \in At(stage[r], Owed)
      BY <2>12 DEF Done, loopVars, At, Owed
    <3>3. phase[r] # "answered"
      <4>1. WaitInv(r) /\ IsFiniteSet(At(stage[r], Owed)) /\ Cardinality(At(stage[r], Owed)) \in Nat
        BY Finite DEF IInv
      <4>2. Cardinality(At(stage[r], Owed)) # 0
        BY <3>2, <4>1, FS_EmptySet
      <4> QED
        BY <4>1, <4>2
    <3> QED
      BY <3>1, <3>2, <3>3
  <2> QED
    BY <2>1, <2>2, <2>3, <2>4, <2>5, <2>6, <2>8, <2>9, <2>10, <2>11, <2>12 DEF Step
<1> QED
  BY <1>1, <1>2 DEF vars, goVars, loopVars
\* A key has an outcome once its call is over, and the results slice tells it.
LEMMA ResultStep ==
  ASSUME IInv, [Next]_vars
  PROVE  \A q \in Requests : ResultInv(q)'
<1> SUFFICES ASSUME NEW q \in Requests  PROVE ResultInv(q)'
  OBVIOUS
<1>0. ResultInv(q) /\ LoopInv(q) /\ Types
  BY DEF IInv
<1> USE <1>0 DEF Types, ResultInv, Phases, Stages, Outcomes
<1>1. ASSUME UNCHANGED <<stage, outcome, results, answer>>,
             phase'[q] = "answered" <=> phase[q] = "answered"
      PROVE  ResultInv(q)'
  BY <1>1
<1>2. CASE Next
  <2>1. PICK r \in Requests : Step(r)
    BY <1>2, Steps
  <2>2. ASSUME NEW n \in Lengths[r], Receive(r, n)  PROVE ResultInv(q)'
    BY <1>1, <2>2 DEF Receive, goVars, dataVars
  <2>3. CASE Add(r) \/ EndLoop(r)
    BY <1>1, <2>3 DEF Add, EndLoop, goVars, dataVars
  <2>4. CASE Start(r)
    <3>1. next[r] \in Indices /\ stage[r][next[r]] = "none"
      BY <2>4, StartIndex DEF Start
    <3>2. UNCHANGED <<outcome, results, answer>> /\ (phase'[q] = "answered" <=> phase[q] = "answered")
      BY <2>4 DEF Start, dataVars
    <3>3. \A i \in Indices : stage'[q][i] \in {"none", "started", "queued", "calling"}
                             <=> stage[q][i] \in {"none", "started", "queued", "calling"}
      BY <2>4, <3>1 DEF Start
    <3> QED
      BY <3>2, <3>3
  <2>5. CASE Reply(r)
    BY <2>5 DEF Reply, goVars
  <2>6. ASSUME NEW i \in Indices, Send(r, i) \/ Call(r, i)  PROVE ResultInv(q)'
    <3>1. CASE Send(r, i)
      BY <3>1 DEF Send, loopVars, dataVars
    <3>2. CASE Call(r, i)
      BY <3>2 DEF Call, loopVars, dataVars
    <3> QED
      BY <2>6, <3>1, <3>2
  <2>7. ASSUME NEW i \in Indices, NEW result \in {"ok", "failed"}, Record(r, i, result),
               stage[r][i] \in Pending
        PROVE  ResultInv(q)'
    <3>1. \A j \in Indices :
            /\ stage'[q][j] = IF q = r /\ j = i THEN "returned" ELSE stage[q][j]
            /\ outcome'[q][j] = IF q = r /\ j = i THEN result ELSE outcome[q][j]
            /\ results'[q][j] = IF q = r /\ j = i /\ ~(r \in Heads /\ result = "failed")
                                THEN result ELSE results[q][j]
      BY <2>7 DEF Record, Written
    <3>2. q = r => results[q][i] # "ok"
      BY <2>7 DEF Pending
    <3>3. UNCHANGED <<phase, answer>>
      BY <2>7 DEF Record, loopVars
    <3> QED
      BY <2>7, <3>1, <3>2, <3>3 DEF Pending
  <2>8. ASSUME NEW i \in Indices, NEW result \in {"ok", "failed"}, Return(r, i, result)
        PROVE  ResultInv(q)'
    BY <2>7, <2>8 DEF Return, Pending
  <2>9. ASSUME NEW i \in Indices, FailEarly(r, i)  PROVE ResultInv(q)'
    BY <2>7, <2>9 DEF FailEarly, Pending
  <2>10. ASSUME NEW i \in Indices, Free(r, i)  PROVE ResultInv(q)'
    BY <2>10 DEF Free, loopVars, dataVars
  <2>11. ASSUME NEW i \in Indices, Done(r, i)  PROVE ResultInv(q)'
    BY <2>11 DEF Done, loopVars, dataVars
  <2> QED
    BY <2>1, <2>2, <2>3, <2>4, <2>5, <2>6, <2>8, <2>9, <2>10, <2>11 DEF Step
<1> QED
  BY <1>1, <1>2 DEF vars, goVars, loopVars, dataVars

\* The transport counts the calls it runs.
LEMMA BusyStep ==
  ASSUME IInv, [Next]_vars
  PROVE  BusyInv'
<1>0. BusyInv /\ Types /\ Cardinality(Calls) \in Nat
  BY Finite DEF IInv
<1> USE <1>0, LimitsAssumption DEF Types, BusyInv, Stages
<1>1. ASSUME UNCHANGED <<stage, busy>>  PROVE BusyInv'
  BY <1>1 DEF Calls
<1>2. CASE Next
  <2>1. PICK r \in Requests : Step(r)
    BY <1>2, Steps
  <2>2. ASSUME NEW n \in Lengths[r], Receive(r, n)  PROVE BusyInv'
    BY <1>1, <2>2 DEF Receive, goVars
  <2>3. CASE Add(r) \/ EndLoop(r) \/ Reply(r)
    BY <1>1, <2>3 DEF Add, EndLoop, Reply, goVars
  <2>4. ASSUME NEW i \in Indices, NEW to, stage[r][i] # "calling", to # "calling",
               stage' = [stage EXCEPT ![r][i] = to], UNCHANGED busy
        PROVE  BusyInv'
    <3>1. Calls' = Calls
      BY <2>4, CallMove
    <3> QED
      BY <2>4, <3>1
  <2>5. CASE Start(r)
    BY <2>4, <2>5, StartIndex DEF Start
  <2>6. ASSUME NEW i \in Indices, Call(r, i)  PROVE BusyInv'
    <3>1. Cardinality(Calls') = Cardinality(Calls) + 1
      BY <2>6, CallMove DEF Call
    <3> QED
      BY <2>6, <3>1 DEF Call
  <2>7. ASSUME NEW i \in Indices, NEW result \in {"ok", "failed"}, Return(r, i, result)
        PROVE  BusyInv'
    <3>1. Cardinality(Calls') = Cardinality(Calls) - 1
      <4>1. PICK to : to = "returned"
        OBVIOUS
      <4>2. stage[r][i] = "calling" /\ to # "calling" /\ stage' = [stage EXCEPT ![r][i] = to]
        BY <2>7, <4>1 DEF Return, Record
      <4> QED
        BY <4>2, CallMove
    <3> QED
      BY <2>7, <3>1 DEF Return
  <2>8. ASSUME NEW i \in Indices, FailEarly(r, i)  PROVE BusyInv'
    BY <2>4, <2>8 DEF FailEarly, Record
  <2>9. ASSUME NEW i \in Indices, Free(r, i)  PROVE BusyInv'
    BY <2>4, <2>9 DEF Free
  <2>10. ASSUME NEW i \in Indices, Done(r, i)  PROVE BusyInv'
    BY <2>4, <2>10 DEF Done
  <2>11. ASSUME NEW i \in Indices, Send(r, i)  PROVE BusyInv'
    BY <2>4, <2>11 DEF Send
  <2> QED
    BY <2>1, <2>2, <2>3, <2>5, <2>6, <2>7, <2>8, <2>9, <2>10, <2>11 DEF Step
<1> QED
  BY <1>1, <1>2 DEF vars, goVars

LEMMA Initially == Init => IInv
<1> SUFFICES ASSUME Init  PROVE IInv
  OBVIOUS
<1>1. Types
  BY LimitsAssumption DEF Init, Types, Phases, Stages, Outcomes
<1>2. \A r \in Requests : LoopInv(r)
  BY LimitsAssumption DEF Init, LoopInv, Indices
<1>3. \A r \in Requests : At(stage[r], Holding) = {} /\ At(stage[r], Owed) = {}
  BY DEF Init, At, Holding, Owed
<1>4. Calls = {}
  BY DEF Init, Calls
<1>5. Cardinality({}) = 0
  BY FS_EmptySet
<1>6. \A r \in Requests : SemInv(r) /\ WaitInv(r)
  <2>1. \A r \in Requests : phase[r] = "idle" /\ sem[r] = 0 /\ wg[r] = 0
    BY DEF Init
  <2>2. \A r \in Requests : Cardinality(At(stage[r], Holding)) = 0 /\ Cardinality(At(stage[r], Owed)) = 0
    BY <1>3, <1>5
  <2> QED
    BY <2>1, <2>2, LimitsAssumption DEF SemInv, WaitInv
<1>7. \A r \in Requests : ResultInv(r)
  BY DEF Init, ResultInv
<1>8. BusyInv
  BY <1>4, <1>5, LimitsAssumption DEF Init, BusyInv
<1> QED
  BY <1>1, <1>2, <1>6, <1>7, <1>8 DEF IInv

-------------------------------------------------------------------------------
(* Theorems.                                                                *)

\* forEachLimited's counters agree with its goroutines in every reachable state.
THEOREM Inductive == Spec => []IInv
<1>1. IInv /\ [Next]_vars => IInv'
  BY TypesStep, LoopStep, SemStep, WaitStep, ResultStep, BusyStep DEF IInv
<1> QED
  BY Initially, <1>1, PTL DEF Spec

\* The semaphore never holds more than bulkConcurrency, the wait group never
\* goes below zero or above the batch, and the transport never runs more calls
\* than it has room for, whatever the limits are.
THEOREM TypeCorrect == Spec => []TypeOK
<1>1. IInv => TypeOK
  <2> SUFFICES ASSUME IInv  PROVE TypeOK
    OBVIOUS
  <2>1. Types /\ BusyInv /\ Cardinality(Calls) \in Nat
    BY Finite DEF IInv
  <2>2. ASSUME NEW r \in Requests
        PROVE  /\ next[r] \in 1 .. MaxBatch + 1
               /\ sem[r] \in 0 .. BulkConcurrency
               /\ wg[r] \in 0 .. MaxBatch
    <3>1. LoopInv(r) /\ SemInv(r) /\ WaitInv(r)
      BY DEF IInv
    <3>2. next[r] \in Nat \ {0} /\ size[r] \in 0 .. MaxBatch
      BY <2>1 DEF Types
    <3>3. Cardinality(At(stage[r], Holding)) \in Nat /\ Cardinality(At(stage[r], Owed)) \in Nat
      BY Finite
    <3>4. At(stage[r], Owed) \in SUBSET (1 .. next[r] - 1)
      BY <2>1, <3>1, <3>2 DEF At, Owed, Types, LoopInv, Indices
    <3>5. IsFiniteSet(1 .. next[r] - 1) /\ Cardinality(1 .. next[r] - 1) = next[r] - 1
      <4>1. 1 \in Int /\ next[r] - 1 \in Int /\ (1 > next[r] - 1 => next[r] = 1)
        BY <3>2
      <4>2. /\ IsFiniteSet(1 .. next[r] - 1)
            /\ Cardinality(1 .. next[r] - 1) = IF 1 > next[r] - 1 THEN 0 ELSE (next[r] - 1) - 1 + 1
        BY <4>1, FS_Interval
      <4> QED
        BY <3>2, <4>1, <4>2
    <3>6. Cardinality(At(stage[r], Owed)) <= next[r] - 1
      <4>1. PICK below : below = 1 .. next[r] - 1
        OBVIOUS
      <4>2. IsFiniteSet(below) /\ At(stage[r], Owed) \in SUBSET below
        BY <3>4, <3>5, <4>1
      <4>3. Cardinality(At(stage[r], Owed)) <= Cardinality(below)
        BY <4>2, FS_Subset
      <4> QED
        BY <3>5, <4>1, <4>3
    <3>7. next[r] <= size[r] + 1 /\ (phase[r] = "acquire" => next[r] <= size[r])
      BY <3>1 DEF LoopInv
    <3>8. next[r] \in 1 .. MaxBatch + 1
      BY <3>2, <3>7, LimitsAssumption
    <3>9. sem[r] \in 0 .. BulkConcurrency
      BY <3>1, <3>3, LimitsAssumption DEF SemInv
    <3>10. wg[r] \in 0 .. MaxBatch
      BY <3>1, <3>2, <3>3, <3>6, <3>7, LimitsAssumption DEF WaitInv
    <3> QED
      BY <3>8, <3>9, <3>10
  <2>3. busy \in 0 .. Slots
    BY <2>1, LimitsAssumption DEF BusyInv
  <2> QED
    BY <2>1, <2>2, <2>3 DEF Types, TypeOK
<1> QED
  BY <1>1, Inductive, PTL

\* However many keys a batch has, at most bulkConcurrency of its calls are
\* queued or running.
THEOREM BoundedCalls == Spec => []CallsBounded
<1>1. IInv => CallsBounded
  <2> SUFFICES ASSUME IInv, NEW r \in Requests
               PROVE  Cardinality(At(stage[r], Pending)) <= BulkConcurrency
    BY DEF CallsBounded
  <2>1. At(stage[r], Pending) \in SUBSET At(stage[r], Holding)
    BY DEF At, Holding, Pending
  <2>2. IsFiniteSet(At(stage[r], Holding)) /\ Cardinality(At(stage[r], Holding)) \in Nat
        /\ Cardinality(At(stage[r], Pending)) \in Nat
    BY Finite
  <2>3. Cardinality(At(stage[r], Pending)) <= Cardinality(At(stage[r], Holding))
    BY <2>1, <2>2, FS_Subset
  <2>4. Cardinality(At(stage[r], Holding)) <= BulkConcurrency
    BY DEF IInv, SemInv
  <2> QED
    BY <2>2, <2>3, <2>4, LimitsAssumption
<1> QED
  BY <1>1, Inductive, PTL

\* An empty wait group means every goroutine has called Done.
LEMMA AllDone ==
  ASSUME IInv, NEW r \in Requests, phase[r] \in {"wait", "answered"}, wg[r] = 0
  PROVE  \A i \in 1 .. size[r] : i \in Indices /\ stage[r][i] = "done"
<1>1. LoopInv(r) /\ WaitInv(r) /\ Types
  BY DEF IInv
<1>2. IsFiniteSet(At(stage[r], Owed)) /\ Cardinality(At(stage[r], Owed)) = 0
  BY <1>1, Finite DEF WaitInv
<1>3. At(stage[r], Owed) = {}
  BY <1>2, FS_EmptySet
<1>4. next[r] = size[r] + 1 /\ size[r] \in 0 .. MaxBatch
  BY <1>1 DEF LoopInv, Types
<1> SUFFICES ASSUME NEW i \in 1 .. size[r]  PROVE i \in Indices /\ stage[r][i] = "done"
  OBVIOUS
<1>5. i \in Indices /\ ~(i >= next[r])
  BY <1>4, LimitsAssumption DEF Indices
<1>6. stage[r][i] \in Stages /\ stage[r][i] # "none" /\ stage[r][i] \notin Owed
  BY <1>1, <1>3, <1>5 DEF Types, LoopInv, At
<1> QED
  BY <1>5, <1>6 DEF Stages, Owed

\* No goroutine of a request outlives its answer.
THEOREM QuietReply == Spec => []QuietAfterReply
<1>1. IInv => QuietAfterReply
  BY AllDone DEF IInv, WaitInv, QuietAfterReply
<1> QED
  BY <1>1, Inductive, PTL
\* A bulk request is answered once, only after storage settled every key of
\* its batch, each once, and the answer has each key's own outcome in its place.
THEOREM Refinement == Spec => ImplementsBulkOp
<1>1. Init => Promise!Init
  BY DEF Init, Promise!Init, Indices, Promise!Indices
<1>2. IInv /\ IInv' /\ [Next]_vars => [Promise!Next]_Promise!vars
  <2> SUFFICES ASSUME IInv, IInv', [Next]_vars  PROVE [Promise!Next]_Promise!vars
    OBVIOUS
  <2> USE DEF Promise!vars
  <2>1. CASE UNCHANGED vars
    BY <2>1 DEF vars, loopVars, dataVars
  <2>2. CASE Next
    <3>1. PICK r \in Requests : Step(r)
      BY <2>2, Steps
    <3>2. ASSUME NEW n \in Lengths[r], Receive(r, n)  PROVE [Promise!Next]_Promise!vars
      <4>1. CASE UNCHANGED size
        BY <3>2, <4>1 DEF Receive, dataVars
      <4>2. CASE n \in Indices /\ size' = [size EXCEPT ![r] = n]
        <5>1. size[r] = 0
          BY <3>2 DEF Receive, IInv, LoopInv
        <5>2. Promise!Accept(r, n)
          BY <3>2, <4>2, <5>1 DEF Receive, dataVars, Promise!Accept
        <5> QED
          BY <4>2, <5>2 DEF Promise!Next, Indices, Promise!Indices
      <4> QED
        BY <3>2, <4>1, <4>2 DEF Receive
    <3>3. ASSUME NEW i \in Indices, NEW result \in {"ok", "failed"}, Record(r, i, result),
                 stage[r][i] \in Pending
          PROVE  [Promise!Next]_Promise!vars
      <4>1. LoopInv(r) /\ ResultInv(r) /\ Types
        BY DEF IInv
      <4>2. stage[r][i] # "none" /\ outcome[r][i] = "none"
        BY <3>3, <4>1 DEF ResultInv, Pending
      <4>3. i <= size[r]
        BY <4>1, <4>2, LimitsAssumption DEF LoopInv, Types, Indices
      <4>4. Promise!Settle(r, i, result)
        BY <3>3, <4>2, <4>3 DEF Record, loopVars, Promise!Settle
      <4> QED
        BY <4>4 DEF Promise!Next, Indices, Promise!Indices
    <3>4. CASE Reply(r)
      <4>1. LoopInv(r) /\ ResultInv(r) /\ Types /\ phase[r] = "wait" /\ wg[r] = 0
        BY <3>4 DEF IInv, Reply
      <4>2. \A i \in 1 .. size[r] : i \in Indices /\ stage[r][i] = "done"
        BY <4>1, AllDone
      <4>3. \A i \in 1 .. size[r] : outcome[r][i] # "none"
        BY <4>1, <4>2 DEF ResultInv
      <4>4. Reported(r) = {i \in 1 .. size[r] : outcome[r][i] = "ok"}
        BY <4>1, <4>2 DEF ResultInv, Reported
      <4>5. size[r] > 0 /\ answer[r] = {}
        BY <4>1 DEF LoopInv, ResultInv
      <4>6. answer' = [answer EXCEPT ![r] = {Reported(r)}] /\ UNCHANGED <<size, outcome>>
        BY <3>4 DEF Reply
      <4>7. Promise!Reply(r)
        BY <4>3, <4>4, <4>5, <4>6 DEF Promise!Reply
      <4> QED
        BY <4>7 DEF Promise!Next
    <3>5. CASE Add(r) \/ Start(r) \/ EndLoop(r)
      BY <3>5 DEF Add, Start, EndLoop, dataVars
    <3>6. ASSUME NEW i \in Indices, Send(r, i) \/ Call(r, i) \/ Free(r, i) \/ Done(r, i)
          PROVE  [Promise!Next]_Promise!vars
      BY <3>6 DEF Send, Call, Free, Done, loopVars, dataVars
    <3>7. ASSUME NEW i \in Indices, NEW result \in {"ok", "failed"},
                 Return(r, i, result) \/ FailEarly(r, i)
          PROVE  [Promise!Next]_Promise!vars
      BY <3>3, <3>7 DEF Return, FailEarly, Pending
    <3> QED
      BY <3>1, <3>2, <3>4, <3>5, <3>6, <3>7 DEF Step
  <2> QED
    BY <2>1, <2>2
<1> QED
  BY <1>1, <1>2, Inductive, PTL DEF Spec, ImplementsBulkOp, Promise!Spec
===============================================================================

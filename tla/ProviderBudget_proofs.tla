------------------------ MODULE ProviderBudget_proofs ------------------------
(***************************************************************************)
(* Proofs about ProviderBudget, for any number of workers, any limits and  *)
(* any batch size: the limits hold, every attempt is recorded once, the    *)
(* breaker latches, and the workers' ranges are disjoint and complete.     *)
(***************************************************************************)
EXTENDS ProviderBudget, FiniteSetTheorems, TLAPS

USE BudgetAssumption

\* The steps of one worker, by how they use the shared variables.
LEMMA WorkCases ==
  ASSUME NEW w \in 1..Workers, Work(w)
  PROVE  \/ TakeBatch(w)
         \/ \E oversized \in BOOLEAN : CountBatch(w, oversized)
         \/ CheckContext(w)
         \/ ReserveRefused(w)
         \/ Reserve(w)
         \/ ExchangeFails(w)
         \/ \E charge \in Charges \cup {NoCharge}, ok \in BOOLEAN :
              ExchangeEnds(w, charge, ok)
         \/ \E charge \in Charges \cup {NoCharge} : ExchangeRetries(w, charge)
         \/ WaitEnds(w)
  BY DEF Work, Answer

-----------------------------------------------------------------------------
\* Types.

\* A worker's range begins at a group.
LEMMA RangeType ==
  ASSUME PoolOK, NEW w \in 1..Workers
  PROVE  /\ worker[w] \in WorkerState
         /\ worker[w].start \in Nat \ {0} /\ size \in Nat
         /\ worker[w].try \in 1..MaxTries /\ worker[w].held \in Nat
<1>1. worker[w] \in WorkerState /\ size \in 0..MaxGroups
  BY DEF PoolOK
<1> QED BY <1>1 DEF WorkerState

\* What a call writes keeps the shape of the output.
LEMMA ReturnType ==
  ASSUME PoolOK, NEW w \in 1..Workers, NEW ok \in BOOLEAN, Return(w, ok)
  PROVE  PoolOK'
<1>1. /\ size' \in 0..MaxGroups /\ next' \in Nat \ {0}
      /\ DOMAIN out' = DOMAIN out
      /\ size' > 0 => DOMAIN out' = 1..size'
  BY DEF PoolOK, Return
<1>2. \A i \in DOMAIN out' : out'[i] \in {NoJudgment, Unknown, i}
  BY DEF PoolOK, Return, OutcomeOf
<1>3. Idle \in WorkerState
  BY DEF Idle, WorkerState
<1>4. worker' \in [1..Workers -> WorkerState]
  BY <1>3 DEF PoolOK, Return
<1> QED BY <1>1, <1>2, <1>4 DEF PoolOK

\* A step of one worker that writes nothing and stays in its call.
LEMMA PhaseType ==
  ASSUME PoolOK, NEW w \in 1..Workers, NEW r \in WorkerState,
         worker' = [worker EXCEPT ![w] = r], UNCHANGED <<size, next, out>>
  PROVE  PoolOK'
  BY DEF PoolOK

\* What recording an answer leaves in the counters.
LEMMA RecordType ==
  ASSUME UsageOK, NEW charge \in Charges \cup {NoCharge}, NEW held \in Nat,
         Record(charge, held)
  PROVE  /\ UsageOK'
         /\ batches' = batches /\ attempts' = attempts /\ reserved' = reserved
<1>1. /\ finished' \in Nat /\ batches' \in Nat /\ attempts' \in Nat
      /\ reserved' \in Nat
      /\ batches' = batches /\ attempts' = attempts /\ reserved' = reserved
  BY DEF UsageOK, Record
<1>2. CASE charge = NoCharge
  <2>0. RecordUnmetered
    BY <1>2 DEF Record
  <2>3. unmetered' = unmetered + 1 /\ metered' = metered /\ cost' = cost
    BY <2>0 DEF RecordUnmetered
  <2>1. metered' \in Nat /\ unmetered' \in Nat /\ cost' \in Nat
    BY <2>3 DEF UsageOK
  <2>2. complete' \in BOOLEAN /\ breaker' \in Breakers
    BY <2>0 DEF RecordUnmetered, Breakers
  <2> QED BY <1>1, <2>1, <2>2 DEF UsageOK
<1>3. CASE charge # NoCharge
  <2>1. charge \in Nat
    BY <1>3
  <2>0. RecordMetered(charge, held)
    BY <1>3 DEF Record
  <2>4. /\ metered' = metered + 1 /\ cost' = cost + charge
        /\ unmetered' = unmetered
    BY <2>0 DEF RecordMetered
  <2>2. metered' \in Nat /\ unmetered' \in Nat /\ cost' \in Nat
    BY <2>1, <2>4 DEF UsageOK
  <2>3. complete' \in BOOLEAN /\ breaker' \in Breakers
    BY <2>0 DEF UsageOK, RecordMetered, Breakers
  <2> QED BY <1>1, <2>2, <2>3 DEF UsageOK
<1> QED BY <1>2, <1>3

\* What an attempt reserves is an amount.
LEMMA NeededType ==
  ASSUME PoolOK, NEW w \in 1..Workers, worker[w].start <= size
  PROVE  Needed(w) \in Nat
<1> DEFINE a == worker[w].start
           b == End(a)
<1>1. a \in Nat \ {0} /\ size \in Nat
  BY RangeType
<1>2. b \in Int /\ a <= b /\ b - a + 1 \in 1..BatchSize
  BY SMTT(60), <1>1 DEF End
<1>3. Cardinality(a..b) = b - a + 1
  <2>1. a \in Int /\ b \in Int /\ ~(a > b)
    BY <1>1, <1>2
  <2> HIDE DEF a, b
  <2>2. Cardinality(a..b) = IF a > b THEN 0 ELSE b - a + 1
    BY <2>1, FS_Interval
  <2> QED BY <2>1, <2>2
<1>4. Cardinality(Batch(w)) \in 1..BatchSize
  BY <1>2, <1>3 DEF Batch
<1> QED BY <1>4 DEF Needed

\* The steps of the pool keep its shape.
LEMMA TypeStep ==
  ASSUME TypeOK, HandedOut, [Next]_vars
  PROVE  TypeOK'
<1> USE DEF TypeOK, usage
<1>1. ASSUME NEW n \in 1..MaxGroups, StartJudge(n) PROVE TypeOK'
  <2>1. PoolOK'
    BY <1>1 DEF StartJudge, PoolOK
  <2> QED BY <1>1, <2>1 DEF StartJudge, UsageOK
<1>2. ASSUME NEW w \in 1..Workers, TakeBatch(w) PROVE TypeOK'
  <2>1. /\ [Idle EXCEPT !.phase = "call", !.start = next] \in WorkerState
        /\ next' \in Nat \ {0}
    <3>1. MaxTries \in Nat \ {0} /\ next \in Nat \ {0}
      BY DEF PoolOK
    <3>2. 1 \in 1..MaxTries
      BY <3>1
    <3>3. [Idle EXCEPT !.phase = "call", !.start = next] \in WorkerState
      BY <3>1, <3>2 DEF WorkerState, Idle, Calling
    <3>4. next' = next + BatchSize
      BY <1>2 DEF TakeBatch, AfterNext
    <3> QED BY <3>1, <3>3, <3>4
  <2>2. PoolOK'
    BY <1>2, <2>1 DEF TakeBatch, PoolOK
  <2> QED BY <1>2, <2>2 DEF TakeBatch, UsageOK
<1>3. ASSUME NEW w \in 1..Workers, NEW oversized \in BOOLEAN,
             CountBatch(w, oversized)
      PROVE  TypeOK'
  <2>0. UsageOK' /\ cancelled' \in BOOLEAN /\ rounds' \in 0..MaxRounds
    <3>0. batches' = batches \/ batches' = batches + 1
      BY <1>3 DEF CountBatch
    <3>1. batches' \in Nat
      BY <3>0 DEF UsageOK
    <3> QED BY <1>3, <3>1 DEF CountBatch, UsageOK
  <2>1. CASE Return(w, FALSE)
    BY <2>0, <2>1, ReturnType
  <2>2. CASE worker' = [worker EXCEPT ![w].phase = "ready"]
             /\ UNCHANGED <<size, next, out>>
    <3>1. [worker[w] EXCEPT !.phase = "ready"] \in WorkerState
      BY RangeType DEF WorkerState, Calling
    <3> QED BY <2>0, <2>2, <3>1, PhaseType
  <2> QED BY <1>3, <2>1, <2>2 DEF CountBatch
<1>4. ASSUME NEW w \in 1..Workers, CheckContext(w) PROVE TypeOK'
  <2>1. CASE Return(w, FALSE)
    BY <1>4, <2>1, ReturnType DEF CheckContext, UsageOK
  <2>2. CASE worker' = [worker EXCEPT ![w].phase = "checked"]
             /\ UNCHANGED <<size, next, out>>
    <3>1. [worker[w] EXCEPT !.phase = "checked"] \in WorkerState
      BY RangeType DEF WorkerState, Calling
    <3> QED BY <1>4, <2>2, <3>1, PhaseType DEF CheckContext, UsageOK
  <2> QED BY <1>4, <2>1, <2>2 DEF CheckContext
<1>5. ASSUME NEW w \in 1..Workers, ReserveRefused(w) PROVE TypeOK'
  BY <1>5, ReturnType DEF ReserveRefused, UsageOK, Breakers
<1>6. ASSUME NEW w \in 1..Workers, Reserve(w) PROVE TypeOK'
  <2>1. Needed(w) \in Nat
    BY <1>6, NeededType DEF Reserve, HandedOut, Active
  <2>2. [worker[w] EXCEPT !.phase = "exchange", !.held = Needed(w)]
          \in WorkerState
    BY <2>1, RangeType DEF WorkerState, Calling
  <2>3. PoolOK'
    BY <1>6, <2>2, PhaseType DEF Reserve
  <2> QED BY SMTT(60), <1>6, <2>1, <2>3 DEF Reserve, UsageOK
<1>7. ASSUME NEW w \in 1..Workers, ExchangeFails(w) PROVE TypeOK'
  BY <1>7, RangeType, ReturnType, RecordType DEF ExchangeFails
<1>8. ASSUME NEW w \in 1..Workers, NEW charge \in Charges \cup {NoCharge},
             NEW ok \in BOOLEAN, ExchangeEnds(w, charge, ok)
      PROVE  TypeOK'
  BY <1>8, RangeType, ReturnType, RecordType DEF ExchangeEnds
<1>9. ASSUME NEW w \in 1..Workers, NEW charge \in Charges \cup {NoCharge},
             ExchangeRetries(w, charge)
      PROVE  TypeOK'
  <2>1. [worker[w] EXCEPT !.phase = "wait", !.held = 0] \in WorkerState
    BY RangeType DEF WorkerState, Calling
  <2>2. PoolOK'
    BY <1>9, <2>1, PhaseType DEF ExchangeRetries
  <2> QED BY <1>9, <2>2, RangeType, RecordType DEF ExchangeRetries
<1>10. ASSUME NEW w \in 1..Workers, WaitEnds(w) PROVE TypeOK'
  <2>1. CASE Return(w, FALSE)
    BY <1>10, <2>1, ReturnType DEF WaitEnds, UsageOK
  <2>2. CASE /\ ~LastTry(worker[w].try)
             /\ worker' = [worker EXCEPT
                             ![w] = [@ EXCEPT !.phase = "ready",
                                              !.try = worker[w].try + 1]]
             /\ UNCHANGED <<size, next, out>>
    <3>1. worker[w].try + 1 \in 1..MaxTries
      BY SMTT(60), <2>2, RangeType DEF LastTry
    <3>2. [worker[w] EXCEPT !.phase = "ready", !.try = worker[w].try + 1]
            \in WorkerState
      BY <3>1, RangeType DEF WorkerState, Calling
    <3> QED BY <1>10, <2>2, <3>2, PhaseType DEF WaitEnds, UsageOK
  <2> QED BY <1>10, <2>1, <2>2 DEF WaitEnds
<1>11. CASE EndJudge
  BY <1>11 DEF EndJudge, UsageOK, PoolOK
<1>12. CASE Cancel
  BY <1>12 DEF Cancel, pool, UsageOK, PoolOK
<1>13. CASE UNCHANGED vars
  BY <1>13 DEF vars, UsageOK, PoolOK
<1> QED
  BY <1>1, <1>2, <1>3, <1>4, <1>5, <1>6, <1>7, <1>8, <1>9, <1>10, <1>11,
     <1>12, <1>13, WorkCases DEF Next

-----------------------------------------------------------------------------
\* The pool: what is handed out is in one pair of hands.

\* A worker that goes on with its call keeps its range.
Continues(w) ==
  /\ Active(w)
  /\ \E r \in WorkerState : /\ r.phase # "idle"
                            /\ r.start = worker[w].start
                            /\ worker' = [worker EXCEPT ![w] = r]
  /\ UNCHANGED <<size, next, out>>

\* A worker that returns from its call writes its range.
Finishes(w) == Active(w) /\ \E ok \in BOOLEAN : Return(w, ok)

\* Every step of a worker is one of three to the pool.
LEMMA PoolCases ==
  ASSUME TypeOK, HandedOut, NEW w \in 1..Workers, Work(w)
  PROVE  TakeBatch(w) \/ Continues(w) \/ Finishes(w)
<1> USE DEF TypeOK
<1>0. FALSE \in BOOLEAN
  OBVIOUS
<1>1. ASSUME NEW oversized \in BOOLEAN, CountBatch(w, oversized)
      PROVE  Continues(w) \/ Finishes(w)
  <2>1. Active(w)
    BY <1>1 DEF CountBatch, Active
  <2>2. CASE Return(w, FALSE)
    BY <2>1, <2>2, <1>0 DEF Finishes
  <2>3. CASE worker' = [worker EXCEPT ![w].phase = "ready"]
             /\ UNCHANGED <<size, next, out>>
    <3> DEFINE r == [worker[w] EXCEPT !.phase = "ready"]
    <3>1. r \in WorkerState /\ r.phase # "idle" /\ r.start = worker[w].start
      BY RangeType DEF WorkerState, Calling
    <3>2. worker' = [worker EXCEPT ![w] = r]
      BY <2>3
    <3> HIDE DEF r
    <3> QED BY <2>1, <2>3, <3>1, <3>2 DEF Continues
  <2> QED BY <1>1, <2>2, <2>3 DEF CountBatch
<1>2. ASSUME CheckContext(w)
      PROVE  Continues(w) \/ Finishes(w)
  <2>1. Active(w)
    BY <1>2 DEF CheckContext, Active
  <2>2. CASE Return(w, FALSE)
    BY <2>1, <2>2, <1>0 DEF Finishes
  <2>3. CASE worker' = [worker EXCEPT ![w].phase = "checked"]
             /\ UNCHANGED <<size, next, out>>
    <3> DEFINE r == [worker[w] EXCEPT !.phase = "checked"]
    <3>1. r \in WorkerState /\ r.phase # "idle" /\ r.start = worker[w].start
      BY RangeType DEF WorkerState, Calling
    <3>2. worker' = [worker EXCEPT ![w] = r]
      BY <2>3
    <3> HIDE DEF r
    <3> QED BY <2>1, <2>3, <3>1, <3>2 DEF Continues
  <2> QED BY <1>2, <2>2, <2>3 DEF CheckContext
<1>3. ASSUME ReserveRefused(w)
      PROVE  Finishes(w)
  BY <1>0, <1>3 DEF ReserveRefused, Finishes, Active
<1>4. ASSUME Reserve(w)
      PROVE  Continues(w)
  <2> DEFINE r == [worker[w] EXCEPT !.phase = "exchange", !.held = Needed(w)]
  <2>1. Active(w)
    BY <1>4 DEF Reserve, Active
  <2>2. Needed(w) \in Nat
    BY <2>1, NeededType DEF HandedOut
  <2>3. r \in WorkerState /\ r.phase # "idle" /\ r.start = worker[w].start
    BY <2>2, RangeType DEF WorkerState, Calling
  <2>4. worker' = [worker EXCEPT ![w] = r] /\ UNCHANGED <<size, next, out>>
    BY <1>4 DEF Reserve
  <2> HIDE DEF r
  <2> QED BY <2>1, <2>3, <2>4 DEF Continues
<1>5. ASSUME ExchangeFails(w)
      PROVE  Finishes(w)
  BY <1>0, <1>5 DEF ExchangeFails, Finishes, Active
<1>6. ASSUME NEW charge \in Charges \cup {NoCharge}, NEW ok \in BOOLEAN,
             ExchangeEnds(w, charge, ok)
      PROVE  Finishes(w)
  BY <1>6 DEF ExchangeEnds, Finishes, Active
<1>7. ASSUME NEW charge \in Charges \cup {NoCharge}, ExchangeRetries(w, charge)
      PROVE  Continues(w)
  <2> DEFINE r == [worker[w] EXCEPT !.phase = "wait", !.held = 0]
  <2>1. Active(w)
    BY <1>7 DEF ExchangeRetries, Active
  <2>2. r \in WorkerState /\ r.phase # "idle" /\ r.start = worker[w].start
    BY RangeType DEF WorkerState, Calling
  <2>3. worker' = [worker EXCEPT ![w] = r] /\ UNCHANGED <<size, next, out>>
    BY <1>7 DEF ExchangeRetries
  <2> HIDE DEF r
  <2> QED BY <2>1, <2>2, <2>3 DEF Continues
<1>8. ASSUME WaitEnds(w)
      PROVE  Continues(w) \/ Finishes(w)
  <2>1. Active(w)
    BY <1>8 DEF WaitEnds, Active
  <2>2. CASE Return(w, FALSE)
    BY <2>1, <2>2, <1>0 DEF Finishes
  <2>3. CASE /\ ~LastTry(worker[w].try)
             /\ worker' = [worker EXCEPT
                             ![w] = [@ EXCEPT !.phase = "ready",
                                              !.try = worker[w].try + 1]]
             /\ UNCHANGED <<size, next, out>>
    <3> DEFINE r == [worker[w] EXCEPT !.phase = "ready",
                                      !.try = worker[w].try + 1]
    <3>1. worker[w].try + 1 \in 1..MaxTries
      BY SMTT(60), <2>3, RangeType DEF LastTry
    <3>2. r \in WorkerState /\ r.phase # "idle" /\ r.start = worker[w].start
      BY <3>1, RangeType DEF WorkerState, Calling
    <3>3. worker' = [worker EXCEPT ![w] = r]
      BY <2>3
    <3> HIDE DEF r
    <3> QED BY <2>1, <2>3, <3>2, <3>3 DEF Continues
  <2> QED BY <1>8, <2>2, <2>3 DEF WaitEnds
<1> QED
  BY <1>1, <1>2, <1>3, <1>4, <1>5, <1>6, <1>7, <1>8, WorkCases

\* Ranges that are handed out stay a batch apart and before next.
LEMMA HandedStep ==
  ASSUME TypeOK, HandedOut, [Next]_vars
  PROVE  HandedOut'
<1> USE DEF TypeOK
<1>0. /\ size \in Nat /\ next \in Nat \ {0}
      /\ \A v \in 1..Workers : worker[v].start \in Nat \ {0}
  BY RangeType DEF PoolOK
<1>1. ASSUME NEW n \in 1..MaxGroups, StartJudge(n) PROVE HandedOut'
  <2>1. worker' = worker /\ size = 0
    BY <1>1 DEF StartJudge
  <2>2. \A w \in 1..Workers : ~Active(w)
    BY <1>0, <2>1 DEF HandedOut
  <2> QED BY <2>1, <2>2 DEF HandedOut, Active
<1>2. ASSUME NEW w \in 1..Workers, TakeBatch(w) PROVE HandedOut'
  <2>1. /\ worker'[w].start = next /\ size' = size /\ next <= size
        /\ next' = next + BatchSize /\ ~Active(w)
    BY <1>2 DEF TakeBatch, AfterNext, Idle, PoolOK
  <2>2. \A v \in 1..Workers : v # w => worker'[v] = worker[v]
    BY <1>2 DEF TakeBatch, PoolOK
  <2>3. ASSUME NEW v \in 1..Workers, Active(v)'
        PROVE  worker'[v].start <= size' /\ worker'[v].start + BatchSize <= next'
    <3>1. CASE v = w
      BY <1>0, <2>1, <3>1
    <3>2. CASE v # w
      <4>1. Active(v) /\ worker'[v].start = worker[v].start
        BY <2>2, <2>3, <3>2 DEF Active
      <4> QED BY <1>0, <2>1, <4>1 DEF HandedOut
    <3> QED BY <3>1, <3>2
  <2>4. ASSUME NEW u \in 1..Workers, NEW v \in 1..Workers, u # v,
               Active(u)', Active(v)'
        PROVE  \/ worker'[u].start + BatchSize <= worker'[v].start
               \/ worker'[v].start + BatchSize <= worker'[u].start
    <3>1. \A x \in {u, v} : x # w =>
            /\ Active(x) /\ worker'[x] = worker[x]
            /\ worker[x].start + BatchSize <= next
      BY <2>2, <2>4 DEF Active, HandedOut
    <3>2. CASE u = w
      BY <2>1, <2>4, <3>1, <3>2
    <3>3. CASE v = w
      BY <2>1, <2>4, <3>1, <3>3
    <3>4. CASE u # w /\ v # w
      BY <2>4, <3>1, <3>4 DEF HandedOut
    <3> QED BY <3>2, <3>3, <3>4
  <2> QED BY <2>3, <2>4 DEF HandedOut
<1>3. ASSUME NEW w \in 1..Workers, Continues(w) \/ Finishes(w)
      PROVE  HandedOut'
  <2>1. /\ size' = size /\ next' = next
        /\ \A v \in 1..Workers : Active(v)' =>
             Active(v) /\ worker'[v].start = worker[v].start
    <3>1. CASE Continues(w)
      BY <3>1 DEF Continues, Active, PoolOK
    <3>2. CASE Finishes(w)
      <4>1. /\ worker' = [worker EXCEPT ![w] = Idle]
            /\ size' = size /\ next' = next
        BY <3>2 DEF Finishes, Return
      <4> QED BY <4>1 DEF Active, Idle, PoolOK
    <3> QED BY <1>3, <3>1, <3>2
  <2> QED BY <2>1 DEF HandedOut
<1>4. ASSUME UNCHANGED <<next, worker>>, size' = size \/ EndJudge
      PROVE  HandedOut'
  BY <1>4 DEF HandedOut, EndJudge, Active
<1> QED
  BY <1>1, <1>2, <1>3, <1>4, PoolCases DEF Next, EndJudge, Cancel, pool, vars

\* A group that is handed out is being judged or has its judgment.
LEMMA LostStep ==
  ASSUME TypeOK, HandedOut, NoneLost, [Next]_vars
  PROVE  NoneLost'
<1> USE DEF TypeOK
<1>0. /\ size \in Nat /\ next \in Nat \ {0}
      /\ size > 0 => DOMAIN out = 1..size
      /\ \A v \in 1..Workers : worker[v].start \in Nat \ {0}
  BY RangeType DEF PoolOK
<1>1. ASSUME NEW n \in 1..MaxGroups, StartJudge(n) PROVE NoneLost'
  BY <1>1 DEF StartJudge, NoneLost
<1>2. ASSUME NEW w \in 1..Workers, TakeBatch(w) PROVE NoneLost'
  <2>1. /\ worker'[w].start = next /\ size' = size /\ out' = out
        /\ next' = next + BatchSize /\ ~Active(w) /\ Active(w)'
    BY <1>2 DEF TakeBatch, AfterNext, Idle, PoolOK, Active
  <2>2. \A v \in 1..Workers : v # w => worker'[v] = worker[v]
    BY <1>2 DEF TakeBatch, PoolOK
  <2>3. SUFFICES ASSUME NEW i \in 1..size', next' > i,
                        ~(out'[i] \in {i, Unknown})
                 PROVE  \E v \in 1..Workers : Active(v)' /\ i \in Batch(v)'
    BY <1>0, <2>1 DEF NoneLost
  <2>4. CASE next <= i
    <3>1. i \in Batch(w)'
      BY <1>0, <2>1, <2>3, <2>4 DEF Batch, End
    <3> QED BY <2>1, <3>1
  <2>5. CASE next > i
    <3>1. PICK v \in 1..Workers : Active(v) /\ i \in Batch(v)
      BY <1>0, <2>1, <2>3, <2>5 DEF NoneLost
    <3>2. v # w
      BY <2>1, <3>1
    <3>3. Active(v)' /\ i \in Batch(v)'
      BY <2>1, <2>2, <3>1, <3>2 DEF Active, Batch, End
    <3> QED BY <3>3
  <2> QED BY <1>0, <2>1, <2>4, <2>5
<1>3. ASSUME NEW w \in 1..Workers, Continues(w) PROVE NoneLost'
  <2>1. /\ size' = size /\ next' = next /\ out' = out
        /\ \A v \in 1..Workers : Active(v) =>
             Active(v)' /\ worker'[v].start = worker[v].start
    BY <1>3 DEF Continues, Active, PoolOK
  <2>2. \A v \in 1..Workers : Active(v) => Active(v)' /\ Batch(v)' = Batch(v)
    BY <2>1 DEF Batch, End
  <2> QED BY <2>1, <2>2 DEF NoneLost
<1>4. ASSUME NEW w \in 1..Workers, Finishes(w) PROVE NoneLost'
  <2>1. PICK ok \in BOOLEAN : Return(w, ok)
    BY <1>4 DEF Finishes
  <2>2. /\ size' = size /\ next' = next
        /\ worker' = [worker EXCEPT ![w] = Idle]
        /\ out' = [i \in DOMAIN out |-> IF i \in Batch(w) THEN OutcomeOf(i, ok)
                                                        ELSE out[i]]
    BY <2>1 DEF Return
  <2>a. size' \in Nat /\ next' \in Nat
    BY <1>0, <2>2
  <2>3. \A v \in 1..Workers : v # w /\ Active(v) =>
          Active(v)' /\ Batch(v)' = Batch(v)
    BY <2>2 DEF Active, Batch, End, PoolOK
  <2>4. SUFFICES ASSUME NEW i \in 1..size', next' > i,
                        ~(out'[i] \in {i, Unknown})
                 PROVE  \E v \in 1..Workers : Active(v)' /\ i \in Batch(v)'
    BY <2>a DEF NoneLost
  <2>5. i \in DOMAIN out /\ i \in 1..size /\ next > i
    BY <1>0, <2>2, <2>4
  <2>6. i \notin Batch(w)
    BY <2>2, <2>4, <2>5 DEF OutcomeOf
  <2>7. ~(out[i] \in {i, Unknown})
    BY <2>2, <2>4, <2>5, <2>6
  <2>8. PICK v \in 1..Workers : Active(v) /\ i \in Batch(v)
    BY <1>0, <2>5, <2>7 DEF NoneLost
  <2> QED BY <2>3, <2>6, <2>8
<1>5. CASE EndJudge
  BY <1>5 DEF EndJudge, NoneLost
<1>6. CASE UNCHANGED pool
  BY <1>6 DEF pool, NoneLost, Active, Batch, End
<1> QED
  BY <1>1, <1>2, <1>3, <1>4, <1>5, <1>6, PoolCases DEF Next, Cancel, pool, vars

-----------------------------------------------------------------------------
\* The budget.

\* A step that starts no attempt and counts no batch keeps the limits.
LEMMA BudgetStep ==
  ASSUME TypeOK, HandedOut, BudgetRespected, [Next]_vars
  PROVE  BudgetRespected'
<1> USE DEF TypeOK
<1>1. ASSUME NEW w \in 1..Workers, NEW oversized \in BOOLEAN,
             CountBatch(w, oversized)
      PROVE  BudgetRespected'
  <2>1. batches' = batches \/ (batches < BatchLimit /\ batches' = batches + 1)
    <3>1. batches \in Nat /\ BatchLimit \in Nat
      BY DEF UsageOK, BatchLimit
    <3>2. batches' = batches \/ (~(batches >= BatchLimit) /\ batches' = batches + 1)
      BY <1>1 DEF CountBatch
    <3> QED BY <3>1, <3>2
  <2>2. attempts' = attempts /\ reserved' = reserved
    BY <1>1 DEF CountBatch
  <2>3. batches \in Nat /\ BatchLimit \in Nat /\ BatchLimit' = BatchLimit
    BY DEF UsageOK, BatchLimit
  <2> QED BY <2>1, <2>2, <2>3 DEF BudgetRespected
<1>2. ASSUME NEW w \in 1..Workers, Reserve(w) PROVE BudgetRespected'
  <2>1. Needed(w) \in Nat
    BY <1>2, NeededType DEF Reserve, HandedOut, Active
  <2>2. /\ attempts' = attempts + 1 /\ reserved' = reserved + Needed(w)
        /\ batches' = batches
        /\ ~(attempts >= MaxAttempts) /\ ~(reserved + Needed(w) > MaxCost)
    BY <1>2 DEF Reserve, Refused
  <2>3. BatchLimit' = BatchLimit
    BY DEF BatchLimit
  <2> QED BY <2>1, <2>2, <2>3 DEF BudgetRespected, UsageOK
<1>3. ASSUME UNCHANGED <<batches, attempts, reserved>> PROVE BudgetRespected'
  BY <1>3 DEF BudgetRespected, BatchLimit
<1>4. ASSUME NEW w \in 1..Workers, NEW charge \in Charges \cup {NoCharge},
             NEW ok \in BOOLEAN,
             \/ ExchangeFails(w)
             \/ ExchangeEnds(w, charge, ok)
             \/ ExchangeRetries(w, charge)
      PROVE  UNCHANGED <<batches, attempts, reserved>>
  BY <1>4 DEF ExchangeFails, ExchangeEnds, ExchangeRetries, Record
<1>5. ASSUME NEW w \in 1..Workers, ExchangeFails(w)
      PROVE  UNCHANGED <<batches, attempts, reserved>>
  BY <1>5 DEF ExchangeFails, Record
<1>6. ASSUME NEW w \in 1..Workers,
             TakeBatch(w) \/ CheckContext(w) \/ ReserveRefused(w) \/ WaitEnds(w)
      PROVE  UNCHANGED <<batches, attempts, reserved>>
  BY <1>6 DEF TakeBatch, CheckContext, ReserveRefused, WaitEnds, usage
<1>7. ASSUME NEW w \in 1..Workers, Work(w) PROVE BudgetRespected'
  <2>1. TRUE \in BOOLEAN
    OBVIOUS
  <2> QED BY <2>1, <1>1, <1>2, <1>3, <1>4, <1>5, <1>6, <1>7, WorkCases
<1>8. ASSUME \/ \E n \in 1..MaxGroups : StartJudge(n)
             \/ EndJudge \/ Cancel \/ UNCHANGED vars
      PROVE  UNCHANGED <<batches, attempts, reserved>>
  BY <1>8 DEF StartJudge, EndJudge, Cancel, usage, vars
<1> QED BY <1>3, <1>7, <1>8 DEF Next

\* The counters that are amounts.
LEMMA CountTypes ==
  ASSUME UsageOK
  PROVE  /\ attempts \in Nat /\ finished \in Nat
         /\ metered \in Nat /\ unmetered \in Nat
  BY DEF UsageOK

\* Attempts in exchange are among the workers.
LEMMA ExchangeFinite ==
  /\ IsFiniteSet(InExchange) /\ Cardinality(InExchange) \in Nat
  /\ IsFiniteSet(InExchange') /\ Cardinality(InExchange') \in Nat
<1>1. IsFiniteSet(1..Workers)
  BY FS_Interval
<1>2. InExchange \subseteq 1..Workers /\ InExchange' \subseteq 1..Workers
  BY DEF InExchange
<1>3. IsFiniteSet(InExchange) /\ IsFiniteSet(InExchange')
  BY <1>1, <1>2, FS_Subset
<1> QED BY <1>3, FS_CardinalityType

\* Recording adds one to the finished requests and to one of their two kinds.
LEMMA RecordCounts ==
  ASSUME NEW charge, NEW held, Record(charge, held)
  PROVE  /\ finished' = finished + 1 /\ attempts' = attempts
         /\ \/ unmetered' = unmetered + 1 /\ metered' = metered
            \/ unmetered' = unmetered /\ metered' = metered + 1
<1>1. finished' = finished + 1 /\ attempts' = attempts
  BY DEF Record
<1>2. RecordUnmetered \/ RecordMetered(charge, held)
  BY DEF Record
<1> QED BY <1>1, <1>2 DEF RecordUnmetered, RecordMetered

\* An answer that is not metered leaves the usage incomplete.
LEMMA RecordHonest ==
  ASSUME NEW charge, NEW held, Record(charge, held), UsageHonest
  PROVE  UsageHonest'
<1>1. CASE RecordUnmetered
  <2>1. ~complete' /\ breaker' # ""
    BY <1>1 DEF RecordUnmetered
  <2> QED BY <2>1 DEF UsageHonest
<1>2. CASE RecordMetered(charge, held)
  <2>1. CASE Over(charge, held)
    <3>1. ~complete' /\ breaker' # ""
      BY <1>2, <2>1 DEF RecordMetered
    <3> QED BY <3>1 DEF UsageHonest
  <2>2. CASE ~Over(charge, held)
    <3>1. UNCHANGED <<complete, breaker, unmetered>>
      BY <1>2, <2>2 DEF RecordMetered
    <3> QED BY <3>1 DEF UsageHonest
  <2> QED BY <2>1, <2>2
<1> QED BY <1>1, <1>2 DEF Record

\* Steps of a worker that neither begin nor end an exchange.
LEMMA OutsideExchange ==
  ASSUME PoolOK, NEW w \in 1..Workers, NEW oversized \in BOOLEAN,
         \/ TakeBatch(w)
         \/ CountBatch(w, oversized) \/ CheckContext(w)
         \/ ReserveRefused(w) \/ WaitEnds(w)
  PROVE  \E r : /\ worker[w].phase # "exchange" /\ r.phase # "exchange"
                /\ worker' = [worker EXCEPT ![w] = r]
<1>1. \/ TakeBatch(w)
      \/ CountBatch(w, oversized) \/ CheckContext(w)
      \/ ReserveRefused(w) \/ WaitEnds(w)
  OBVIOUS
<1>2. Idle.phase # "exchange"
  BY DEF Idle
<1>3. worker[w].phase # "exchange"
  BY <1>1 DEF TakeBatch, CountBatch, CheckContext, ReserveRefused, WaitEnds,
              Active
<1>4. \E r : worker' = [worker EXCEPT ![w] = r] /\ r.phase # "exchange"
  <2>1. ASSUME Return(w, FALSE)
        PROVE  worker' = [worker EXCEPT ![w] = Idle] /\ Idle.phase # "exchange"
    BY <1>2, <2>1 DEF Return
  <2>2. ASSUME TakeBatch(w)
        PROVE  \E r : worker' = [worker EXCEPT ![w] = r]
                      /\ r.phase # "exchange"
    <3> DEFINE r == [Idle EXCEPT !.phase = "call", !.start = next]
    <3>1. worker' = [worker EXCEPT ![w] = r] /\ r.phase # "exchange"
      BY <2>2 DEF TakeBatch, Idle
    <3> HIDE DEF r
    <3> QED BY <3>1
  <2>3. ASSUME NEW p \in {"ready", "checked"},
               worker' = [worker EXCEPT ![w].phase = p]
        PROVE  \E r : worker' = [worker EXCEPT ![w] = r]
                      /\ r.phase # "exchange"
    <3> DEFINE r == [worker[w] EXCEPT !.phase = p]
    <3>1. worker' = [worker EXCEPT ![w] = r] /\ r.phase # "exchange"
      BY <2>3, RangeType DEF WorkerState
    <3> HIDE DEF r
    <3> QED BY <3>1
  <2>4. ASSUME WaitEnds(w)
        PROVE  \/ Return(w, FALSE)
               \/ \E r : worker' = [worker EXCEPT ![w] = r]
                         /\ r.phase # "exchange"
    <3> DEFINE r == [worker[w] EXCEPT !.phase = "ready",
                                      !.try = worker[w].try + 1]
    <3>1. r.phase # "exchange"
      BY RangeType DEF WorkerState
    <3>2. Return(w, FALSE) \/ worker' = [worker EXCEPT ![w] = r]
      BY <2>4 DEF WaitEnds
    <3> HIDE DEF r
    <3> QED BY <3>1, <3>2
  <2>5. ASSUME CountBatch(w, oversized) \/ CheckContext(w)
        PROVE  \/ Return(w, FALSE)
               \/ \E p \in {"ready", "checked"} :
                    worker' = [worker EXCEPT ![w].phase = p]
    BY <2>5 DEF CountBatch, CheckContext
  <2>6. ASSUME ReserveRefused(w) PROVE Return(w, FALSE)
    BY <2>6 DEF ReserveRefused
  <2> QED BY <1>1, <2>1, <2>2, <2>3, <2>4, <2>5, <2>6
<1> QED BY <1>3, <1>4

\* Each attempt moves from a worker's exchange to the record, once.
LEMMA RecordedStep ==
  ASSUME TypeOK, AttemptsRecorded, [Next]_vars
  PROVE  AttemptsRecorded'
<1>0. worker \in [1..Workers -> WorkerState] /\ UsageOK /\ PoolOK
  BY DEF TypeOK, PoolOK
<1>1. ASSUME NEW w \in 1..Workers, Reserve(w) PROVE AttemptsRecorded'
  <2>1. InExchange' = InExchange \cup {w} /\ w \notin InExchange
    BY <1>0, <1>1 DEF Reserve, InExchange
  <2>2. Cardinality(InExchange') = Cardinality(InExchange) + 1
    BY <2>1, ExchangeFinite, FS_AddElement
  <2>3. /\ attempts' = attempts + 1
        /\ finished' = finished /\ metered' = metered /\ unmetered' = unmetered
    BY <1>1 DEF Reserve
  <2> QED
    BY <1>0, <2>2, <2>3, CountTypes, ExchangeFinite DEF AttemptsRecorded
<1>2. ASSUME NEW w \in 1..Workers, worker[w].phase = "exchange",
             NEW charge, NEW held, Record(charge, held),
             NEW r \in WorkerState, r.phase # "exchange",
             worker' = [worker EXCEPT ![w] = r]
      PROVE  AttemptsRecorded'
  <2>1. InExchange' = InExchange \ {w} /\ w \in InExchange
    BY <1>0, <1>2 DEF InExchange
  <2>2. Cardinality(InExchange') = Cardinality(InExchange) - 1
    BY <2>1, ExchangeFinite, FS_RemoveElement
  <2>3. /\ finished' = finished + 1 /\ attempts' = attempts
        /\ \/ unmetered' = unmetered + 1 /\ metered' = metered
           \/ unmetered' = unmetered /\ metered' = metered + 1
    BY <1>2, RecordCounts
  <2> QED
    BY SMTT(60), <1>0, <2>2, <2>3, CountTypes, ExchangeFinite DEF AttemptsRecorded
<1>3. ASSUME UNCHANGED <<attempts, finished, metered, unmetered>>,
             InExchange' = InExchange
      PROVE  AttemptsRecorded'
  BY <1>3 DEF AttemptsRecorded
<1>4. ASSUME NEW w \in 1..Workers, NEW r \in WorkerState,
             worker[w].phase # "exchange", r.phase # "exchange",
             worker' = [worker EXCEPT ![w] = r]
      PROVE  InExchange' = InExchange
  BY <1>0, <1>4 DEF InExchange
<1>5. Idle \in WorkerState /\ Idle.phase # "exchange"
  BY DEF Idle, WorkerState
<1>6. ASSUME NEW w \in 1..Workers, NEW oversized \in BOOLEAN,
             \/ TakeBatch(w)
             \/ CountBatch(w, oversized) \/ CheckContext(w)
             \/ ReserveRefused(w) \/ WaitEnds(w)
      PROVE  AttemptsRecorded'
  <2>1. UNCHANGED <<attempts, finished, metered, unmetered>>
    BY <1>6 DEF TakeBatch, CountBatch, CheckContext, ReserveRefused, WaitEnds,
                usage
  <2>2. PICK r : /\ worker[w].phase # "exchange" /\ r.phase # "exchange"
                 /\ worker' = [worker EXCEPT ![w] = r]
    BY <1>0, <1>6, OutsideExchange
  <2>3. InExchange' = InExchange
    BY <1>0, <2>2 DEF InExchange
  <2> QED BY <1>3, <2>1, <2>3
<1>7. ASSUME NEW w \in 1..Workers, ExchangeFails(w) PROVE AttemptsRecorded'
  BY <1>2, <1>5, <1>7 DEF ExchangeFails, Return
<1>8. ASSUME NEW w \in 1..Workers, NEW charge \in Charges \cup {NoCharge},
             NEW ok \in BOOLEAN, ExchangeEnds(w, charge, ok)
      PROVE  AttemptsRecorded'
  BY <1>2, <1>5, <1>8 DEF ExchangeEnds, Return
<1>9. ASSUME NEW w \in 1..Workers, NEW charge \in Charges \cup {NoCharge},
             ExchangeRetries(w, charge)
      PROVE  AttemptsRecorded'
  <2> DEFINE r == [worker[w] EXCEPT !.phase = "wait", !.held = 0]
  <2>1. r \in WorkerState /\ r.phase # "exchange"
    BY <1>0, RangeType DEF WorkerState, Calling
  <2>2. worker' = [worker EXCEPT ![w] = r]
    BY <1>9 DEF ExchangeRetries
  <2>3. worker[w].phase = "exchange" /\ Record(charge, worker[w].held)
    BY <1>9 DEF ExchangeRetries
  <2> HIDE DEF r
  <2> QED BY <1>2, <2>1, <2>2, <2>3
<1>10. ASSUME \/ \E n \in 1..MaxGroups : StartJudge(n)
              \/ EndJudge \/ Cancel \/ UNCHANGED vars
       PROVE  AttemptsRecorded'
  <2>1. UNCHANGED <<attempts, finished, metered, unmetered, worker>>
    BY <1>10 DEF StartJudge, EndJudge, Cancel, pool, usage, vars
  <2> QED BY <1>3, <2>1 DEF InExchange
<1>11. TRUE \in BOOLEAN
  OBVIOUS
<1> QED
  BY <1>1, <1>6, <1>7, <1>8, <1>9, <1>10, <1>11, WorkCases DEF Next

\* Completeness and the breaker change by recording, or the breaker is set.
LEMMA HonestStep ==
  ASSUME UsageHonest, [Next]_vars
  PROVE  UsageHonest'
<1>1. ASSUME NEW w \in 1..Workers, Work(w) PROVE UsageHonest'
  <2>1. CASE \/ TakeBatch(w) \/ CheckContext(w) \/ WaitEnds(w) \/ Reserve(w)
             \/ \E oversized \in BOOLEAN : CountBatch(w, oversized)
    <3>1. UNCHANGED <<complete, breaker, unmetered>>
      BY <2>1 DEF TakeBatch, CheckContext, WaitEnds, Reserve, CountBatch, usage
    <3> QED BY <3>1 DEF UsageHonest
  <2>2. CASE ReserveRefused(w)
    <3>1. breaker' # "" /\ UNCHANGED <<complete, unmetered>>
      BY <2>2 DEF ReserveRefused
    <3> QED BY <3>1 DEF UsageHonest
  <2>3. CASE \/ ExchangeFails(w)
             \/ \E charge \in Charges \cup {NoCharge}, ok \in BOOLEAN :
                  ExchangeEnds(w, charge, ok)
             \/ \E charge \in Charges \cup {NoCharge} :
                  ExchangeRetries(w, charge)
    <3>1. PICK charge : Record(charge, worker[w].held)
      BY <2>3 DEF ExchangeFails, ExchangeEnds, ExchangeRetries
    <3> QED BY <3>1, RecordHonest
  <2> QED BY <1>1, <2>1, <2>2, <2>3, WorkCases
<1>2. ASSUME \/ \E n \in 1..MaxGroups : StartJudge(n)
             \/ EndJudge \/ Cancel \/ UNCHANGED vars
      PROVE  UsageHonest'
  <2>1. UNCHANGED <<complete, breaker, unmetered>>
    BY <1>2 DEF StartJudge, EndJudge, Cancel, usage, vars
  <2> QED BY <2>1 DEF UsageHonest
<1> QED BY <1>1, <1>2 DEF Next

-----------------------------------------------------------------------------
\* The invariant and what follows from it.

LEMMA InitInv == Init => BudgetInv
<1> SUFFICES ASSUME Init PROVE BudgetInv
  OBVIOUS
<1>1. /\ batches = 0 /\ attempts = 0 /\ finished = 0
      /\ metered = 0 /\ unmetered = 0 /\ cost = 0 /\ reserved = 0
      /\ size = 0 /\ next = 1 /\ out = [i \in {} |-> NoJudgment]
      /\ worker = [w \in 1..Workers |-> Idle] /\ rounds = 0
  BY Zenon DEF Init
<1>2. complete \in BOOLEAN /\ cancelled \in BOOLEAN
  BY Zenon DEF Init
<1>3. complete /\ breaker = ""
  BY Zenon DEF Init
<1>4. Idle \in WorkerState
  <2>1. 1 \in 1..MaxTries
    OBVIOUS
  <2> QED BY <2>1 DEF Idle, WorkerState
<1>5. TypeOK
  <2>1. rounds \in 0..MaxRounds
    BY <1>1
  <2>2. /\ batches \in Nat /\ attempts \in Nat /\ finished \in Nat
        /\ metered \in Nat /\ unmetered \in Nat
        /\ cost \in Nat /\ reserved \in Nat
    BY <1>1
  <2>3. UsageOK
    BY <1>2, <1>3, <2>2, Zenon DEF UsageOK, Breakers
  <2>4. PoolOK
    BY <1>1, <1>4 DEF PoolOK
  <2> QED BY <1>2, <2>1, <2>3, <2>4, Zenon DEF TypeOK
<1>6. BudgetRespected
  BY <1>1 DEF BudgetRespected, BatchLimit
<1>7. \A w \in 1..Workers : worker[w].phase = "idle"
  BY <1>1 DEF Idle
<1>8. AttemptsRecorded
  <2>1. InExchange = {}
    BY <1>7 DEF InExchange
  <2> QED BY <1>1, <2>1, FS_EmptySet DEF AttemptsRecorded
<1>9. UsageHonest
  BY <1>1, <1>3, Zenon DEF UsageHonest
<1>10. HandedOut /\ NoneLost
  BY <1>1, <1>7 DEF HandedOut, NoneLost, Active
<1> QED BY <1>5, <1>6, <1>8, <1>9, <1>10 DEF BudgetInv

LEMMA StepInv == BudgetInv /\ [Next]_vars => BudgetInv'
  BY TypeStep, BudgetStep, RecordedStep, HonestStep, HandedStep, LostStep
     DEF BudgetInv

\* The client's accounting and the pool's bookkeeping hold together in every
\* reachable state.
THEOREM Invariant == Spec => []BudgetInv
  BY InitInv, StepInv, PTL DEF Spec

\* Counters, outputs and workers keep their shape.
THEOREM TypeCorrect == Spec => []TypeOK
<1>1. BudgetInv => TypeOK
  BY DEF BudgetInv
<1> QED BY <1>1, Invariant, PTL

\* No number of workers passes a limit on batches, attempts or money.
THEOREM Budget == Spec => []BudgetRespected
<1>1. BudgetInv => BudgetRespected
  BY DEF BudgetInv
<1> QED BY <1>1, Invariant, PTL

\* Every reserved attempt is in one exchange or recorded once.
THEOREM Recorded == Spec => []AttemptsRecorded
<1>1. BudgetInv => AttemptsRecorded
  BY DEF BudgetInv
<1> QED BY <1>1, Invariant, PTL

\* Workers write disjoint ranges of the output they share without a lock.
THEOREM Disjoint == Spec => []RangesDisjoint
<1>1. BudgetInv => RangesDisjoint
  <2> SUFFICES ASSUME BudgetInv,
                      NEW v \in 1..Workers, NEW w \in 1..Workers, v # w,
                      Active(v), Active(w)
               PROVE  Batch(v) \cap Batch(w) = {}
    BY DEF RangesDisjoint
  <2>1. /\ worker[v].start \in Nat \ {0} /\ worker[w].start \in Nat \ {0}
        /\ size \in Nat
    BY RangeType DEF BudgetInv, TypeOK
  <2>2. \/ worker[v].start + BatchSize <= worker[w].start
        \/ worker[w].start + BatchSize <= worker[v].start
    BY DEF BudgetInv, HandedOut
  <2>3. \A x \in {v, w} :
          /\ End(worker[x].start) \in Int
          /\ End(worker[x].start) < worker[x].start + BatchSize
    BY <2>1, BudgetAssumption, SMTT(60) DEF End
  <2>4. CASE worker[v].start + BatchSize <= worker[w].start
    <3>1. End(worker[v].start) < worker[w].start
      BY <2>1, <2>3, <2>4, BudgetAssumption
    <3>2. \A i \in Batch(v), j \in Batch(w) : i < j
      BY <2>1, <2>3, <3>1 DEF Batch
    <3> QED BY <2>1, <2>3, <3>2 DEF Batch
  <2>5. CASE worker[w].start + BatchSize <= worker[v].start
    <3>1. End(worker[w].start) < worker[v].start
      BY <2>1, <2>3, <2>5, BudgetAssumption
    <3>2. \A i \in Batch(w), j \in Batch(v) : i < j
      BY <2>1, <2>3, <3>1 DEF Batch
    <3> QED BY <2>1, <2>3, <3>2 DEF Batch
  <2> QED BY <2>2, <2>4, <2>5
<1> QED BY <1>1, Invariant, PTL

\* When Judge returns no group is left without a judgment of its own.
THEOREM Answered == Spec => []GroupsAnswered
<1>1. BudgetInv => GroupsAnswered
  <2> SUFFICES ASSUME BudgetInv, size > 0, next > size,
                      \A w \in 1..Workers : ~Active(w),
                      NEW i \in 1..size
               PROVE  out[i] \in {i, Unknown}
    BY DEF GroupsAnswered
  <2>1. size \in Nat /\ next \in Nat
    BY DEF BudgetInv, TypeOK, PoolOK
  <2>2. ~(next <= i)
    BY <2>1
  <2> QED BY <2>2 DEF BudgetInv, NoneLost
<1> QED BY <1>1, Invariant, PTL

\* No step clears the breaker or reserves past it.
LEMMA LatchStep ==
  ASSUME BudgetInv, [Next]_vars, breaker # ""
  PROVE  breaker' # "" /\ attempts' = attempts /\ reserved' = reserved
<1>1. ASSUME NEW w \in 1..Workers, Work(w)
      PROVE  breaker' # "" /\ attempts' = attempts /\ reserved' = reserved
  <2>1. CASE \/ TakeBatch(w) \/ CheckContext(w) \/ WaitEnds(w)
             \/ \E oversized \in BOOLEAN : CountBatch(w, oversized)
    BY <2>1 DEF TakeBatch, CheckContext, WaitEnds, CountBatch, usage
  <2>2. CASE ReserveRefused(w)
    BY <2>2 DEF ReserveRefused
  <2>3. CASE Reserve(w)
    BY <2>3 DEF Reserve, Refused
  <2>4. CASE \/ ExchangeFails(w)
             \/ \E charge \in Charges \cup {NoCharge}, ok \in BOOLEAN :
                  ExchangeEnds(w, charge, ok)
             \/ \E charge \in Charges \cup {NoCharge} :
                  ExchangeRetries(w, charge)
    <3>1. PICK charge : Record(charge, worker[w].held)
      BY <2>4 DEF ExchangeFails, ExchangeEnds, ExchangeRetries
    <3>2. breaker' = breaker \/ breaker' # ""
      BY <3>1 DEF Record, RecordUnmetered, RecordMetered
    <3>3. attempts' = attempts /\ reserved' = reserved
      BY <3>1 DEF Record
    <3> QED BY <3>2, <3>3
  <2> QED BY <1>1, <2>1, <2>2, <2>3, <2>4, WorkCases
<1>2. ASSUME \/ \E n \in 1..MaxGroups : StartJudge(n)
             \/ EndJudge \/ Cancel \/ UNCHANGED vars
      PROVE  breaker' # "" /\ attempts' = attempts /\ reserved' = reserved
  BY <1>2 DEF StartJudge, EndJudge, Cancel, usage, vars
<1> QED BY <1>1, <1>2 DEF Next

\* Once any worker has set the breaker no worker starts another attempt.
THEOREM Latch == Spec => BreakerLatches
<1>1. BudgetInv /\ [Next]_vars =>
        [breaker # "" => /\ breaker' # ""
                         /\ attempts' = attempts /\ reserved' = reserved]_vars
  BY LatchStep
<1> QED BY <1>1, Invariant, PTL DEF Spec, BreakerLatches

-----------------------------------------------------------------------------
\* The cost that is complete.

\* What the exchanges under way may still cost, worker by worker.
Owed == [w \in 1..Workers |->
           IF worker[w].phase = "exchange" THEN worker[w].held ELSE 0]

\* c and all that is owed fit into r.  The sum is not taken: a level g rises
\* from c to r past each worker in turn by at least what it owes.
Covered(owed, c, r) ==
  \E g \in [0..Workers -> Int] :
    /\ g[0] = c /\ g[Workers] <= r
    /\ \A v, w \in 0..Workers : v < w => g[v] + owed[w] <= g[w]

\* The inductive strengthening of CompleteCostCovered.
CostInv == complete => Covered(Owed, cost, reserved)

Debts == [1..Workers -> Nat]

LEMMA NothingOwed ==
  ASSUME NEW owed \in Debts, \A w \in 1..Workers : owed[w] = 0
  PROVE  Covered(owed, 0, 0)
<1> DEFINE g == [v \in 0..Workers |-> 0]
<1>1. /\ g \in [0..Workers -> Int] /\ g[0] = 0 /\ g[Workers] <= 0
      /\ \A v, w \in 0..Workers : v < w => g[v] + owed[w] <= g[w]
  OBVIOUS
<1> HIDE DEF g
<1> QED BY <1>1 DEF Covered

\* What is reserved for an exchange raises both the debt and the cover.
LEMMA DebtTaken ==
  ASSUME NEW owed \in Debts, NEW c \in Nat, NEW r \in Nat,
         Covered(owed, c, r), NEW w \in 1..Workers, owed[w] = 0, NEW h \in Nat
  PROVE  Covered([owed EXCEPT ![w] = h], c, r + h)
<1>1. PICK g \in [0..Workers -> Int] :
        /\ g[0] = c /\ g[Workers] <= r
        /\ \A v, x \in 0..Workers : v < x => g[v] + owed[x] <= g[x]
  BY DEF Covered
<1> DEFINE k == [v \in 0..Workers |-> IF v < w THEN g[v] ELSE g[v] + h]
           d == [owed EXCEPT ![w] = h]
<1>2. k \in [0..Workers -> Int] /\ k[0] = c /\ k[Workers] <= r + h
  BY <1>1
<1>3. ASSUME NEW v \in 0..Workers, NEW x \in 0..Workers, v < x
      PROVE  k[v] + d[x] <= k[x]
  <2>0. x \in 1..Workers
    BY <1>3
  <2>1. /\ owed[x] \in Nat /\ g[v] \in Int /\ g[x] \in Int
        /\ g[v] + owed[x] <= g[x]
    BY <1>1, <1>3, <2>0 DEF Debts
  <2>2. d[x] = IF x = w THEN h ELSE owed[x]
    BY <2>0 DEF Debts
  <2>3. /\ k[v] = IF v < w THEN g[v] ELSE g[v] + h
        /\ k[x] = IF x < w THEN g[x] ELSE g[x] + h
    OBVIOUS
  <2> HIDE DEF k, d
  <2> QED BY SMTT(60), <1>3, <2>1, <2>2, <2>3
<1> HIDE DEF k, d
<1>4. Covered(d, c, r + h)
  BY <1>2, <1>3 DEF Covered
<1> QED BY <1>4 DEF d

\* A charge within the debt moves from the debt to the cost.
LEMMA DebtPaid ==
  ASSUME NEW owed \in Debts, NEW c \in Nat, NEW r \in Nat,
         Covered(owed, c, r), NEW w \in 1..Workers,
         NEW x \in Nat, x <= owed[w]
  PROVE  Covered([owed EXCEPT ![w] = 0], c + x, r)
<1>1. PICK g \in [0..Workers -> Int] :
        /\ g[0] = c /\ g[Workers] <= r
        /\ \A v, u \in 0..Workers : v < u => g[v] + owed[u] <= g[u]
  BY DEF Covered
<1> DEFINE h == owed[w]
           k == [v \in 0..Workers |-> IF v < w THEN g[v] + x ELSE g[v] - h + x]
           d == [owed EXCEPT ![w] = 0]
<1>0. h \in Nat /\ x <= h
  BY DEF Debts
<1>2. k \in [0..Workers -> Int] /\ k[0] = c + x /\ k[Workers] <= r
  <2>1. g[0] = c /\ g[Workers] \in Int /\ g[Workers] <= r
    BY <1>1
  <2> HIDE DEF h
  <2>2. k \in [0..Workers -> Int]
    BY <1>0
  <2>3. k[0] = g[0] + x /\ k[Workers] = g[Workers] - h + x
    OBVIOUS
  <2> HIDE DEF k
  <2> QED BY SMTT(60), <1>0, <2>1, <2>2, <2>3
<1>3. ASSUME NEW v \in 0..Workers, NEW u \in 0..Workers, v < u
      PROVE  k[v] + d[u] <= k[u]
  <2>0. u \in 1..Workers
    BY <1>3
  <2>1. /\ owed[u] \in Nat /\ g[v] \in Int /\ g[u] \in Int
        /\ g[v] + owed[u] <= g[u]
    BY <1>1, <1>3, <2>0 DEF Debts
  <2>2. d[u] = IF u = w THEN 0 ELSE owed[u]
    BY <2>0 DEF Debts
  <2>3. v < w => g[w] \in Int /\ g[v] + h <= g[w]
    BY <1>1
  <2>4. w < u => g[w] \in Int /\ g[w] + owed[u] <= g[u]
    BY <1>1
  <2>5. /\ k[v] = IF v < w THEN g[v] + x ELSE g[v] - h + x
        /\ k[u] = IF u < w THEN g[u] + x ELSE g[u] - h + x
    OBVIOUS
  <2>6. u = w => owed[u] = h
    OBVIOUS
  <2> HIDE DEF h, k, d
  <2>7. CASE u < w
    BY SMTT(60), <1>0, <1>3, <2>1, <2>2, <2>5, <2>7
  <2>8. CASE u = w
    BY <1>0, <1>3, <2>1, <2>2, <2>5, <2>6, <2>8
  <2>9. CASE w < u /\ v < w
    <3>1. k[v] = g[v] + x /\ k[u] = g[u] - h + x /\ d[u] = owed[u]
      BY <2>2, <2>5, <2>9
    <3>2. g[v] + h <= g[w] /\ g[w] + owed[u] <= g[u] /\ g[w] \in Int
      BY <2>3, <2>4, <2>9
    <3> QED BY ONLY <1>0, <2>1, <3>1, <3>2, x \in Nat
  <2>10. CASE w <= v
    <3>1. k[v] = g[v] - h + x /\ k[u] = g[u] - h + x /\ d[u] = owed[u]
      BY <1>3, <2>2, <2>5, <2>10
    <3> QED BY ONLY <1>0, <2>1, <3>1, x \in Nat
  <2> QED BY <2>7, <2>8, <2>9, <2>10
<1> HIDE DEF k, d
<1>4. Covered(d, c + x, r)
  BY <1>2, <1>3 DEF Covered
<1> QED BY <1>4 DEF d

LEMMA CoverBounds ==
  ASSUME NEW owed \in Debts, NEW c \in Nat, NEW r \in Nat, Covered(owed, c, r)
  PROVE  c <= r
<1>1. PICK g \in [0..Workers -> Int] :
        /\ g[0] = c /\ g[Workers] <= r
        /\ \A v, w \in 0..Workers : v < w => g[v] + owed[w] <= g[w]
  BY DEF Covered
<1>2. g[0] + owed[Workers] <= g[Workers] /\ owed[Workers] \in Nat
      /\ g[0] \in Int /\ g[Workers] \in Int
  BY <1>1 DEF Debts
<1> QED BY <1>1, <1>2

LEMMA OwedType ==
  ASSUME PoolOK
  PROVE  Owed \in Debts
  BY RangeType DEF Owed, Debts

\* A worker owes what its exchange holds.
LEMMA OwedAfter ==
  ASSUME PoolOK, NEW w \in 1..Workers, NEW r,
         worker' = [worker EXCEPT ![w] = r]
  PROVE  Owed' = [Owed EXCEPT ![w] = IF r.phase = "exchange" THEN r.held ELSE 0]
<1>1. \A v \in 1..Workers : worker'[v] = IF v = w THEN r ELSE worker[v]
  BY DEF PoolOK
<1> DEFINE x == IF r.phase = "exchange" THEN r.held ELSE 0
<1>2. ASSUME NEW v \in 1..Workers
      PROVE  Owed'[v] = IF v = w THEN x ELSE Owed[v]
  <2>1. Owed'[v] = IF worker'[v].phase = "exchange" THEN worker'[v].held ELSE 0
    BY DEF Owed
  <2>2. Owed[v] = IF worker[v].phase = "exchange" THEN worker[v].held ELSE 0
    BY DEF Owed
  <2>3. CASE v = w
    <3>1. worker'[v] = r
      BY <1>1, <2>3
    <3> QED BY <2>1, <2>3, <3>1
  <2>4. CASE v # w
    <3>1. worker'[v] = worker[v]
      BY <1>1, <2>4
    <3> QED BY <2>1, <2>2, <2>4, <3>1
  <2> QED BY <2>3, <2>4
<1> HIDE DEF x
<1>3. /\ Owed' = [v \in 1..Workers |-> Owed'[v]]
      /\ Owed = [v \in 1..Workers |-> Owed[v]]
  BY DEF Owed
<1>4. Owed' = [Owed EXCEPT ![w] = x]
  BY <1>2, <1>3
<1> QED BY <1>4 DEF x

\* An answer is charged within what its exchange held, or the cost is not
\* complete.
LEMMA RecordCovered ==
  ASSUME UsageOK, PoolOK, CostInv,
         NEW w \in 1..Workers, worker[w].phase = "exchange",
         NEW charge \in Charges \cup {NoCharge}, Record(charge, worker[w].held),
         NEW r, r.phase # "exchange", worker' = [worker EXCEPT ![w] = r]
  PROVE  CostInv'
<1> SUFFICES ASSUME complete' PROVE Covered(Owed, cost, reserved)'
  BY DEF CostInv
<1>1. charge # NoCharge /\ RecordMetered(charge, worker[w].held)
  BY DEF Record, RecordUnmetered
<1>2. charge \in Nat /\ worker[w].held \in Nat
  BY <1>1, RangeType
<1>3. /\ cost' = cost + charge /\ reserved' = reserved
      /\ ~Over(charge, worker[w].held) /\ complete
  BY <1>1 DEF Record, RecordMetered
<1>4. charge <= Owed[w]
  BY <1>2, <1>3 DEF Over, Owed
<1>5. Owed' = [Owed EXCEPT ![w] = 0]
  BY OwedAfter
<1>6. Covered([Owed EXCEPT ![w] = 0], cost + charge, reserved)
  BY <1>2, <1>3, <1>4, OwedType, DebtPaid DEF CostInv, UsageOK
<1> QED BY <1>3, <1>5, <1>6

\* A step that records and reserves nothing, and leaves the debts.
LEMMA CostStays ==
  ASSUME CostInv, Owed' = Owed, UNCHANGED <<cost, reserved, complete>>
  PROVE  CostInv'
  BY DEF CostInv

\* Every step keeps the cost covered while it is complete.
LEMMA CostStep ==
  ASSUME BudgetInv, CostInv, [Next]_vars
  PROVE  CostInv'
<1>0. UsageOK /\ PoolOK /\ HandedOut
  BY DEF BudgetInv, TypeOK
<1>1. ASSUME NEW w \in 1..Workers, NEW oversized \in BOOLEAN,
             \/ TakeBatch(w)
             \/ CountBatch(w, oversized) \/ CheckContext(w)
             \/ ReserveRefused(w) \/ WaitEnds(w)
      PROVE  CostInv'
  <2>1. PICK r : /\ worker[w].phase # "exchange" /\ r.phase # "exchange"
                 /\ worker' = [worker EXCEPT ![w] = r]
    BY <1>0, <1>1, OutsideExchange
  <2>2. Owed' = [Owed EXCEPT ![w] = 0] /\ Owed[w] = 0
    BY <1>0, <2>1, OwedAfter DEF Owed
  <2>3. Owed' = Owed
    BY <1>0, <2>2, OwedType DEF Debts
  <2>4. UNCHANGED <<cost, reserved, complete>>
    BY <1>1 DEF TakeBatch, CountBatch, CheckContext, ReserveRefused, WaitEnds,
                usage
  <2> QED BY <2>3, <2>4, CostStays
<1>2. ASSUME NEW w \in 1..Workers, Reserve(w) PROVE CostInv'
  <2> DEFINE h == Needed(w)
             r == [worker[w] EXCEPT !.phase = "exchange", !.held = h]
  <2>1. h \in Nat
    BY <1>0, <1>2, NeededType DEF Reserve, HandedOut, Active
  <2>2. worker' = [worker EXCEPT ![w] = r] /\ worker[w].phase = "checked"
        /\ reserved' = reserved + h /\ UNCHANGED <<cost, complete>>
    BY <1>2 DEF Reserve
  <2>3. r.phase = "exchange" /\ r.held = h
    BY <1>0, RangeType DEF WorkerState
  <2> HIDE DEF r, h
  <2>4. Owed' = [Owed EXCEPT ![w] = h] /\ Owed[w] = 0
    BY <1>0, <2>2, <2>3, OwedAfter DEF Owed
  <2>5. complete => Covered([Owed EXCEPT ![w] = h], cost, reserved + h)
    BY <1>0, <2>1, <2>4, OwedType, DebtTaken DEF CostInv, UsageOK
  <2> QED BY <2>2, <2>4, <2>5 DEF CostInv
<1>3. Idle.phase # "exchange"
  BY DEF Idle
<1>4. ASSUME NEW w \in 1..Workers, ExchangeFails(w) PROVE CostInv'
  BY <1>0, <1>3, <1>4, RecordCovered DEF ExchangeFails, Return
<1>5. ASSUME NEW w \in 1..Workers, NEW charge \in Charges \cup {NoCharge},
             NEW ok \in BOOLEAN, ExchangeEnds(w, charge, ok)
      PROVE  CostInv'
  BY <1>0, <1>3, <1>5, RecordCovered DEF ExchangeEnds, Return
<1>6. ASSUME NEW w \in 1..Workers, NEW charge \in Charges \cup {NoCharge},
             ExchangeRetries(w, charge)
      PROVE  CostInv'
  <2> DEFINE r == [worker[w] EXCEPT !.phase = "wait", !.held = 0]
  <2>1. r.phase # "exchange"
    BY <1>0, RangeType DEF WorkerState
  <2>2. /\ worker' = [worker EXCEPT ![w] = r] /\ worker[w].phase = "exchange"
        /\ Record(charge, worker[w].held)
    BY <1>6 DEF ExchangeRetries
  <2> HIDE DEF r
  <2> QED BY <1>0, <2>1, <2>2, RecordCovered
<1>7. ASSUME \/ \E n \in 1..MaxGroups : StartJudge(n)
             \/ EndJudge \/ Cancel \/ UNCHANGED vars
      PROVE  CostInv'
  <2>1. UNCHANGED <<cost, reserved, complete, worker>>
    BY <1>7 DEF StartJudge, EndJudge, Cancel, pool, usage, vars
  <2>2. Owed' = Owed
    BY <2>1 DEF Owed
  <2> QED BY <2>1, <2>2, CostStays
<1>8. TRUE \in BOOLEAN
  OBVIOUS
<1> QED
  BY <1>1, <1>2, <1>4, <1>5, <1>6, <1>7, <1>8, WorkCases DEF Next

\* A cost that is called complete lies within what was reserved for it, and so
\* within the limit, however many exchanges overlap (provider.go record).
THEOREM CostCovered == Spec => []CompleteCostCovered
<1>1. Init => CostInv
  <2> SUFFICES ASSUME Init PROVE Covered(Owed, cost, reserved)
    BY DEF CostInv
  <2>1. cost = 0 /\ reserved = 0
    BY DEF Init
  <2>2. Owed \in Debts /\ \A w \in 1..Workers : Owed[w] = 0
    BY DEF Init, Idle, Owed, Debts
  <2> QED BY <2>1, <2>2, NothingOwed
<1>2. BudgetInv /\ CostInv => CompleteCostCovered
  <2> SUFFICES ASSUME BudgetInv, CostInv, complete
               PROVE  cost <= reserved /\ cost <= MaxCost
    BY DEF CompleteCostCovered
  <2>1. /\ cost \in Nat /\ reserved \in Nat /\ reserved <= MaxCost
        /\ Owed \in Debts
    BY OwedType DEF BudgetInv, TypeOK, UsageOK, BudgetRespected
  <2>2. cost <= reserved
    BY <2>1, CoverBounds DEF CostInv
  <2> QED BY <2>1, <2>2
<1> QED BY <1>1, <1>2, CostStep, Invariant, PTL DEF Spec
=============================================================================

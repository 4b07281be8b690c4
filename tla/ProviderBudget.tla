---------------------------- MODULE ProviderBudget ----------------------------
(***************************************************************************)
(* The provider client and the pool that calls it.  ParallelJudge cuts the *)
(* groups of one assessment into batches and hands them to workers over a  *)
(* channel; each worker sends one request at a time, with up to three      *)
(* attempts, and writes its own range of the output.  All workers, and all *)
(* assessments one after the other, share one cumulative budget: a request *)
(* is counted, reserved and recorded under the client's mutex, and the     *)
(* HTTP exchange happens outside of it.                                    *)
(*                                                                         *)
(* Money is in whole units.  An operator whose comment begins with         *)
(* "Variant" is a wrong form of the definition that follows it, for        *)
(* showing that a property would catch it.                                 *)
(***************************************************************************)
EXTENDS Integers, FiniteSets

CONSTANTS
  Workers,      \* ParallelJudge.Workers
  BatchSize,    \* ParallelJudge.BatchSize
  MaxBatches,   \* Config.MaxBatches; 0 stands for MaxAttempts
  MaxAttempts,  \* Config.MaxAttempts
  MaxCost,      \* Config.MaxCost
  Reservation,  \* Reservation[n]: what one attempt for n groups reserves
  Charges,      \* what a metered answer may cost
  MaxTries,     \* attempts of one call
  MaxGroups,    \* groups of one assessment (bound)
  MaxRounds     \* assessments (bound)

ASSUME BudgetAssumption ==
  /\ Workers \in Nat \ {0}
  /\ BatchSize \in Nat \ {0}
  /\ MaxBatches \in Nat
  /\ MaxAttempts \in Nat \ {0}
  /\ MaxCost \in Nat
  /\ Reservation \in [1..BatchSize -> Nat]
  /\ Charges \subseteq Nat
  /\ MaxTries \in Nat \ {0}
  /\ MaxGroups \in Nat \ {0}
  /\ MaxRounds \in Nat

VARIABLES
  \* Client.usage.
  batches, attempts, finished, metered, unmetered, cost, reserved, complete,
  breaker,
  \* The assessment: the groups of Judge, the next start sent over the channel
  \* and the judgments written so far, a judgment named by its group.
  size, next, out,
  \* What each worker of the pool is doing.
  worker,
  \* The context of the calls.
  cancelled,
  rounds

usage == <<batches, attempts, finished, metered, unmetered, cost, reserved,
           complete, breaker>>
pool == <<size, next, out, worker>>
vars == <<batches, attempts, finished, metered, unmetered, cost, reserved,
          complete, breaker, size, next, out, worker, cancelled, rounds>>

Breakers == {"", "budget exhausted", "usage incomplete",
             "reservation underestimated"}

\* A judgment is named by its group; 0 is the zero value Judge starts from.
NoJudgment == 0
Unknown == -1

\* Phases of a call: entered, past the context check, in the HTTP exchange,
\* waiting before the next attempt.
Calling == {"call", "ready", "checked", "exchange", "wait"}
Idle == [phase |-> "idle", start |-> 1, try |-> 1, held |-> 0]

\* Variant: the end is taken for a group of the batch, one short of it.
EndShort(start) ==
  IF start + BatchSize - 2 < size THEN start + BatchSize - 2 ELSE size

\* The last group of the batch that begins at start.
End(start) ==
  IF start + BatchSize - 1 < size THEN start + BatchSize - 1 ELSE size

Batch(w) == worker[w].start..End(worker[w].start)

Active(w) == worker[w].phase # "idle"

\* As many workers as there are batches, and no more than the pool allows.  One
\* batch is judged by the caller itself, which is the first worker here.
Spawned == {w \in 1..Workers : (w - 1) * BatchSize < size}

Init ==
  /\ batches = 0 /\ attempts = 0 /\ finished = 0
  /\ metered = 0 /\ unmetered = 0 /\ cost = 0 /\ reserved = 0
  /\ complete = TRUE /\ breaker = ""
  /\ size = 0 /\ next = 1 /\ out = [i \in {} |-> NoJudgment]
  /\ worker = [w \in 1..Workers |-> Idle]
  /\ cancelled = FALSE /\ rounds = 0

-----------------------------------------------------------------------------
\* The pool.

\* Engine.Batch asks for an assessment; it does not when cancelled.
StartJudge(n) ==
  /\ size = 0 /\ ~cancelled /\ rounds < MaxRounds
  /\ size' = n /\ next' = 1
  /\ out' = [i \in 1..n |-> NoJudgment]
  /\ rounds' = rounds + 1
  /\ UNCHANGED <<usage, worker, cancelled>>

\* Variant: the same start is handed out twice.
AfterSame == next

AfterNext == next + BatchSize

TakeBatch(w) ==
  /\ w \in Spawned /\ ~Active(w)
  /\ next <= size
  /\ worker' = [worker EXCEPT ![w] = [Idle EXCEPT !.phase = "call",
                                                  !.start = next]]
  /\ next' = AfterNext
  /\ UNCHANGED <<usage, size, out, cancelled, rounds>>

\* Variant: a failed batch is left unwritten.
OutcomeKept(i, ok) == IF ok THEN i ELSE NoJudgment

\* The call of a batch that failed judges every group of it as unknown.
OutcomeOf(i, ok) == IF ok THEN i ELSE Unknown

\* The call returns; the worker writes the range of its batch.
Return(w, ok) ==
  /\ out' = [i \in DOMAIN out |-> IF i \in Batch(w) THEN OutcomeOf(i, ok)
                                                    ELSE out[i]]
  /\ worker' = [worker EXCEPT ![w] = Idle]
  /\ UNCHANGED <<size, next>>

\* Every job is handed out and every worker has returned: Judge returns.
EndJudge ==
  /\ size > 0 /\ next > size
  /\ \A w \in 1..Workers : ~Active(w)
  /\ size' = 0
  /\ UNCHANGED <<usage, next, out, worker, cancelled, rounds>>

-----------------------------------------------------------------------------
\* Client.send.

\* No limit on batches stands for the limit on attempts.
BatchLimit == IF MaxBatches = 0 THEN MaxAttempts ELSE MaxBatches

\* The batch is counted before anything can stop the call; a request that is
\* too large returns there.
CountBatch(w, oversized) ==
  /\ worker[w].phase = "call"
  /\ IF batches >= BatchLimit THEN Return(w, FALSE) /\ UNCHANGED batches
     ELSE /\ batches' = batches + 1
          /\ IF oversized THEN Return(w, FALSE)
             ELSE /\ worker' = [worker EXCEPT ![w].phase = "ready"]
                  /\ UNCHANGED <<size, next, out>>
  /\ UNCHANGED <<attempts, finished, metered, unmetered, cost, reserved,
                 complete, breaker, cancelled, rounds>>

CheckContext(w) ==
  /\ worker[w].phase = "ready"
  /\ IF cancelled THEN Return(w, FALSE)
     ELSE /\ worker' = [worker EXCEPT ![w].phase = "checked"]
          /\ UNCHANGED <<size, next, out>>
  /\ UNCHANGED <<usage, cancelled, rounds>>

\* What an attempt reserves grows with the bytes of its request, which stand in
\* for the number of groups here and are the same for each attempt of a call.
Needed(w) == Reservation[Cardinality(Batch(w))]

\* Variants: the money is not compared; the breaker is not looked at.
RefusedByCount(r) == breaker # "" \/ attempts >= MaxAttempts
RefusedByLimits(r) == attempts >= MaxAttempts \/ reserved + r > MaxCost

Refused(r) ==
  \/ breaker # ""
  \/ attempts >= MaxAttempts
  \/ reserved + r > MaxCost

ReserveRefused(w) ==
  /\ worker[w].phase = "checked"
  /\ Refused(Needed(w))
  /\ breaker' = "budget exhausted"
  /\ Return(w, FALSE)
  /\ UNCHANGED <<batches, attempts, finished, metered, unmetered, cost,
                 reserved, complete, cancelled, rounds>>

Reserve(w) ==
  /\ worker[w].phase = "checked"
  /\ ~Refused(Needed(w))
  /\ attempts' = attempts + 1
  /\ reserved' = reserved + Needed(w)
  /\ worker' = [worker EXCEPT ![w] = [@ EXCEPT !.phase = "exchange",
                                               !.held = Needed(w)]]
  /\ UNCHANGED <<batches, finished, metered, unmetered, cost, complete,
                 breaker, size, next, out, cancelled, rounds>>

\* The charge of an answer without valid token counts.
NoCharge == -1

\* Client.record for an answer without valid token counts.
RecordUnmetered ==
  /\ unmetered' = unmetered + 1
  /\ complete' = FALSE /\ breaker' = "usage incomplete"
  /\ UNCHANGED <<metered, cost>>

\* Variant: an attempt that cost more than it reserved is let pass.
NotOver(c, held) == FALSE

Over(c, held) == c > held

RecordMetered(c, held) ==
  /\ metered' = metered + 1
  /\ cost' = cost + c
  /\ IF Over(c, held)
     THEN breaker' = "reservation underestimated" /\ complete' = FALSE
     ELSE UNCHANGED <<breaker, complete>>
  /\ UNCHANGED unmetered

Record(charge, held) ==
  /\ finished' = finished + 1
  /\ IF charge = NoCharge THEN RecordUnmetered ELSE RecordMetered(charge, held)
  /\ UNCHANGED <<batches, attempts, reserved>>

\* No answer: the transport fails, the time of the client or of the context is
\* over.
ExchangeFails(w) ==
  /\ worker[w].phase = "exchange"
  /\ Record(NoCharge, worker[w].held)
  /\ Return(w, FALSE)
  /\ UNCHANGED <<cancelled, rounds>>

\* An answer that ends the call: a judgment for each group, or an answer that
\* is too large, rejected, or does not decode.
ExchangeEnds(w, charge, ok) ==
  /\ worker[w].phase = "exchange"
  /\ Record(charge, worker[w].held)
  /\ Return(w, ok)
  /\ UNCHANGED <<cancelled, rounds>>

\* A status that is worth another attempt.
ExchangeRetries(w, charge) ==
  /\ worker[w].phase = "exchange"
  /\ Record(charge, worker[w].held)
  /\ worker' = [worker EXCEPT ![w] = [@ EXCEPT !.phase = "wait", !.held = 0]]
  /\ UNCHANGED <<size, next, out, cancelled, rounds>>

LastTry(try) == try >= MaxTries

\* The pause after an attempt is over or cancelled.
WaitEnds(w) ==
  /\ worker[w].phase = "wait"
  /\ IF cancelled \/ LastTry(worker[w].try) THEN Return(w, FALSE)
     ELSE /\ worker' = [worker EXCEPT
                          ![w] = [@ EXCEPT !.phase = "ready",
                                           !.try = worker[w].try + 1]]
          /\ UNCHANGED <<size, next, out>>
  /\ UNCHANGED <<usage, cancelled, rounds>>

-----------------------------------------------------------------------------
Cancel ==
  /\ ~cancelled
  /\ cancelled' = TRUE
  /\ UNCHANGED <<usage, pool, rounds>>

Answer(w) ==
  \/ ExchangeFails(w)
  \/ \E charge \in Charges \cup {NoCharge}, ok \in BOOLEAN :
       ExchangeEnds(w, charge, ok)
  \/ \E charge \in Charges \cup {NoCharge} : ExchangeRetries(w, charge)

Work(w) ==
  \/ TakeBatch(w)
  \/ \E oversized \in BOOLEAN : CountBatch(w, oversized)
  \/ CheckContext(w)
  \/ ReserveRefused(w)
  \/ Reserve(w)
  \/ Answer(w)
  \/ WaitEnds(w)

Next ==
  \/ \E n \in 1..MaxGroups : StartJudge(n)
  \/ \E w \in 1..Workers : Work(w)
  \/ EndJudge
  \/ Cancel

Spec == Init /\ [][Next]_vars

\* A worker runs, an exchange ends within the timeouts of the HTTP client, and
\* Judge joins its workers.  Nothing makes an answer good.
Fairness ==
  /\ \A w \in 1..Workers : WF_vars(Work(w))
  /\ WF_vars(EndJudge)

FairSpec == Spec /\ Fairness

-----------------------------------------------------------------------------
\* Properties.

UsageOK ==
  /\ batches \in Nat /\ attempts \in Nat /\ finished \in Nat
  /\ metered \in Nat /\ unmetered \in Nat /\ cost \in Nat /\ reserved \in Nat
  /\ complete \in BOOLEAN /\ breaker \in Breakers

WorkerState == [phase : Calling \cup {"idle"}, start : Nat \ {0},
                try : 1..MaxTries, held : Nat]

PoolOK ==
  /\ size \in 0..MaxGroups /\ next \in Nat \ {0}
  /\ DOMAIN out \subseteq 1..MaxGroups
  /\ size > 0 => DOMAIN out = 1..size
  /\ \A i \in DOMAIN out : out[i] \in {NoJudgment, Unknown, i}
  /\ worker \in [1..Workers -> WorkerState]

\* The counters count, an output holds a judgment of the group it is for, and
\* each worker is in a phase of one call.
TypeOK ==
  /\ UsageOK
  /\ PoolOK
  /\ cancelled \in BOOLEAN /\ rounds \in 0..MaxRounds

\* docs/adaptive-log-learning.md:5, "pessimistic cumulative reservations,
\* maximum batches and attempts": whatever the workers overlap, no limit is
\* passed, by one either.
BudgetRespected ==
  /\ batches <= BatchLimit
  /\ attempts <= MaxAttempts
  /\ reserved <= MaxCost

InExchange == {w \in 1..Workers : worker[w].phase = "exchange"}

\* Every attempt that was reserved is in some worker's exchange or has been
\* recorded, exactly once, as metered or unmetered.
AttemptsRecorded ==
  /\ attempts = finished + Cardinality(InExchange)
  /\ finished = metered + unmetered

\* Usage is called complete only if every answer was metered, and it is never
\* incomplete with the breaker closed.
UsageHonest ==
  /\ complete => unmetered = 0
  /\ breaker = "" => complete

\* docs/usage.md:19: as long as the cost is reported as complete it is covered
\* by what was reserved, and so by the limit.
CompleteCostCovered == complete => cost <= reserved /\ cost <= MaxCost

\* Workers write the shared output without a lock: their ranges are disjoint.
RangesDisjoint ==
  \A v, w \in 1..Workers :
    v # w /\ Active(v) /\ Active(w) => Batch(v) \cap Batch(w) = {}

\* When Judge returns, every group has its own judgment or is unknown: no group
\* is left with the zero judgment, however batches failed or overlapped.
GroupsAnswered ==
  (size > 0 /\ next > size /\ \A w \in 1..Workers : ~Active(w)) =>
    \A i \in 1..size : out[i] \in {i, Unknown}

\* docs/adaptive-log-learning.md:5, missing token accounting and reservation
\* underestimates "stop future admission": after the breaker is set, by any
\* worker, none starts another attempt, and it stays set.
BreakerLatches ==
  [][breaker # "" => /\ breaker' # ""
                     /\ attempts' = attempts /\ reserved' = reserved]_vars

\* An assessment ends under any failures, exhausted budgets and cancellation.
JudgeReturns == (size > 0) ~> (size = 0)

\* The inductive invariant.  What has been handed out lies before next, at
\* least a batch apart, and is in the hands of one worker or written.
HandedOut ==
  /\ \A w \in 1..Workers : Active(w) =>
       worker[w].start <= size /\ worker[w].start + BatchSize <= next
  /\ \A v, w \in 1..Workers : v # w /\ Active(v) /\ Active(w) =>
       \/ worker[v].start + BatchSize <= worker[w].start
       \/ worker[w].start + BatchSize <= worker[v].start

NoneLost ==
  \A i \in 1..size : \/ next <= i
                     \/ out[i] \in {i, Unknown}
                     \/ \E w \in 1..Workers : Active(w) /\ i \in Batch(w)

BudgetInv ==
  /\ TypeOK
  /\ BudgetRespected
  /\ AttemptsRecorded
  /\ UsageHonest
  /\ HandedOut
  /\ NoneLost
=============================================================================

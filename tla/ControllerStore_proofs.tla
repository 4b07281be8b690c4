----------------------- MODULE ControllerStore_proofs -----------------------
(***************************************************************************)
(* Proofs about ControllerStore, for every value of its constants.         *)
(***************************************************************************)
EXTENDS ControllerStore, FiniteSetTheorems, TLAPS

-----------------------------------------------------------------------------
\* Facts about tables, room and the policy.

\* What Put returns: a table of the same type that holds the new row and
\* otherwise only rows it held before.
LEMMA PutTable ==
  ASSUME NEW K, NEW R, NEW t, Table(t, K, R), NEW old, NEW k \in K, NEW r \in R
  PROVE  /\ Table(Put(t, old, k, r), K, R)
         /\ DOMAIN Put(t, old, k, r) = (DOMAIN t \ old) \cup {k}
         /\ Put(t, old, k, r)[k] = r
         /\ \A x \in DOMAIN Put(t, old, k, r) : x # k =>
              x \in DOMAIN t /\ Put(t, old, k, r)[x] = t[x]
<1>1. IsFiniteSet((DOMAIN t \ old) \cup {k})
  BY FS_Subset, FS_AddElement DEF Table
<1> QED
  BY <1>1 DEF Table, Put

\* A table with one row replaced.
LEMMA UpdateTable ==
  ASSUME NEW K, NEW R, NEW t, Table(t, K, R), NEW n \in DOMAIN t, NEW r \in R
  PROVE  /\ Table([t EXCEPT ![n] = r], K, R)
         /\ DOMAIN [t EXCEPT ![n] = r] = DOMAIN t
BY DEF Table

\* Room is made of rows of the table, in the outbox of terminal rows only.
LEMMA RoomSubset ==
  /\ \A o : \A old \in SeenRoom(o) : old \subseteq DOMAIN seen
  /\ \A k : \A old \in IncidentRoom(k) : old \subseteq DOMAIN incidents
  /\ \A old \in OutboxRoom : old \subseteq Terminal
BY DEF SeenRoom, IncidentRoom, OutboxRoom, MakeRoom, Terminal

\* What is evicted can be counted.
LEMMA RoomCount ==
  ASSUME TypeOK
  PROVE  /\ \A o : \A old \in SeenRoom(o) : Cardinality(old) \in Nat
         /\ \A k : \A old \in IncidentRoom(k) : Cardinality(old) \in Nat
         /\ \A old \in OutboxRoom : Cardinality(old) \in Nat
<1>1. /\ IsFiniteSet(DOMAIN seen) /\ IsFiniteSet(DOMAIN incidents)
      /\ IsFiniteSet(DOMAIN outbox)
  BY DEF TypeOK, Table
<1>2. Terminal \subseteq DOMAIN outbox
  BY DEF Terminal
<1> QED
  BY <1>1, <1>2, RoomSubset, FS_Subset, FS_CardinalityType

\* The policy keeps the types of decisions and incident rows.
LEMMA DecideType == ASSUME NEW e \in Judged PROVE Decide(e) \in Decisions
BY DEF Decide, Decisions, Judged

LEMMA LevelType == ASSUME NEW c \in Nat PROVE LevelOf(c) \in Nat
<1>1. Recurrence \in Nat /\ Recurrence > 0 /\ MaxEscalation \in Nat
  BY PolicyAssumption
<1>2. c \div Recurrence \in Nat
  BY <1>1
<1> QED
  BY <1>1, <1>2 DEF LevelOf

LEMMA RecurType ==
  ASSUME NEW i \in IncidentRow, NEW t \in Int
  PROVE  /\ Recur(i, t) \in IncidentRow
         /\ Escalate(i) \in IncidentRow
<1>1. LevelOf(i.count) \in Nat
  BY LevelType DEF IncidentRow
<1>2. \A w \in Int, c, l \in Nat :
        [i EXCEPT !.window = w, !.count = c, !.level = l] \in IncidentRow
  BY DEF IncidentRow
<1>3. [i EXCEPT !.count = @ + 1] \in IncidentRow
  BY DEF IncidentRow
<1>4. \A l \in Nat : [i EXCEPT !.level = l] \in IncidentRow
  BY DEF IncidentRow
<1>5. Recur(i, t) \in IncidentRow
  BY <1>2, <1>3 DEF Recur
<1>6. i.level \in Nat
  BY DEF IncidentRow
<1> QED
  BY <1>1, <1>4, <1>5, <1>6 DEF Escalate

\* A retry is planned at a time.
LEMMA LaterType == ASSUME NEW d \in Nat, now \in Times PROVE Later(d) \in Int
BY StoreAssumption DEF Later, Times

LEMMA TimesInt == Times \subseteq Int
BY StoreAssumption DEF Times

-----------------------------------------------------------------------------
\* Type correctness.  The sequence needs IdentitiesIssued: Open chooses the
\* greatest number around, which then is the sequence itself.

LEMMA OpenKeepsSequence ==
  ASSUME TypeOK, IdentitiesIssued, Open
  PROVE  sequence' = sequence
<1>1. \A k \in DOMAIN incidents : incidents[k].seq \in Nat
                                  /\ incidents[k].seq <= sequence
  BY DEF TypeOK, Table, IncidentRow, IdentitiesIssued
<1>2. sequence \in Nat
  BY DEF TypeOK
<1> DEFINE S == {sequence} \cup {incidents[k].seq : k \in DOMAIN incidents}
           P(s) == s >= sequence
                   /\ \A k \in DOMAIN incidents : s >= incidents[k].seq
<1>3. sequence \in S /\ P(sequence)
  BY <1>1, <1>2
<1>4. \A s \in S : P(s) => s = sequence
  BY <1>1, <1>2
<1>5. sequence' = CHOOSE s \in S : P(s)
  BY DEF Open
<1> HIDE DEF S, P
<1> QED
  BY <1>3, <1>4, <1>5

\* One more send of an issued identity.
LEMMA TriedType ==
  ASSUME NEW i \in Issued, NEW ok \in BOOLEAN
  PROVE  /\ Tried(i, ok) \in Issued
         /\ Tried(i, ok).tries = i.tries + 1
         /\ Tried(i, ok).failed = IF ok THEN i.failed ELSE i.failed + 1
<1>1. \A t, f \in Nat : /\ [i EXCEPT !.tries = t, !.failed = f] \in Issued
                        /\ [i EXCEPT !.tries = t, !.failed = f].tries = t
                        /\ [i EXCEPT !.tries = t, !.failed = f].failed = f
  BY DEF Issued
<1>2. \A t \in Nat : /\ [i EXCEPT !.tries = t] \in Issued
                     /\ [i EXCEPT !.tries = t].tries = t
                     /\ [i EXCEPT !.tries = t].failed = i.failed
  BY DEF Issued
<1>3. i.tries + 1 \in Nat /\ i.failed + 1 \in Nat
  BY DEF Issued
<1>4. CASE ok
  BY <1>2, <1>3, <1>4 DEF Tried
<1>5. CASE ~ok
  BY <1>1, <1>3, <1>5 DEF Tried
<1> QED
  BY <1>4, <1>5

\* A worker that holds nothing.
LEMMA WorkerType ==
  ASSUME NEW p \in {"idle", "returned"}
  PROVE  /\ Worker(p) \in [phase : {"idle", "returned", "send", "ack"},
                            id : Identities \cup {NoId},
                            attempts : 0..MaxAttempts, ok : BOOLEAN]
         /\ Worker(p).phase = p
BY StoreAssumption DEF Worker

LEMMA InitType == Init => TypeOK
<1> SUFFICES ASSUME Init PROVE TypeOK
  OBVIOUS
<1>1. \A K, R : Table(Empty, K, R)
  BY FS_EmptySet DEF Table, Empty
<1>2. now \in Times
  BY StoreAssumption DEF Times, Init
<1>3. /\ arrived \in 0..MaxArrivals /\ stops \in 0..MaxStops
      /\ rollbacks \in 0..MaxRollbacks
  BY StoreAssumption DEF Init
<1>4. worker \in [phase : {"idle", "returned", "send", "ack"},
                  id : Identities \cup {NoId},
                  attempts : 0..MaxAttempts, ok : BOOLEAN]
  BY StoreAssumption DEF Init, Worker
<1>5. /\ Table(seen, Occurrences, SeenRow)
      /\ Table(incidents, Keys, IncidentRow)
      /\ Table(outbox, Identities, OutboxRow)
      /\ Table(issued, Identities, Issued)
  BY <1>1 DEF Init
<1> QED
  BY <1>2, <1>3, <1>4, <1>5 DEF Init, TypeOK

\* What the lane holds and computes while it applies a fresh occurrence.
LEMMA FreshTypes ==
  ASSUME TypeOK, Fresh
  PROVE  /\ lane.occ \in Occurrences /\ lane.key \in Keys
         /\ Decision \in Decisions
         /\ [at |-> now, decision |-> Decision] \in SeenRow
         /\ Recurred \in IncidentRow /\ Escalate(Recurred) \in IncidentRow
         /\ now \in Int
<1>1. lane \in Events
  BY DEF TypeOK, Fresh
<1>2. now \in Int
  BY TimesInt DEF TypeOK
<1>3. lane.occ \in Occurrences /\ lane.key \in Keys /\ lane.judged \in Judged
  BY <1>1, StoreAssumption
<1>4. Decision \in Decisions
  BY <1>3, DecideType DEF Decision
<1>5. Prior \in IncidentRow
  BY DEF Prior, NoIncident, IncidentRow, TypeOK, Table
<1>6. Recurred \in IncidentRow
  BY <1>2, <1>5, RecurType DEF Recurred
<1> QED
  BY <1>2, <1>3, <1>4, <1>6, RecurType DEF SeenRow

LEMMA TypeStep ==
  ASSUME StoreInv, [Next]_vars
  PROVE  TypeOK'
<1> USE DEF StoreInv
<1> TypeOK
  OBVIOUS
<1>1. ASSUME NEW e \in Events, Arrive(e) PROVE TypeOK'
  <2>1. arrived' \in 0..MaxArrivals
    BY <1>1, StoreAssumption DEF Arrive, TypeOK
  <2> QED
    BY <1>1, <2>1 DEF TypeOK, Arrive, durable, history
<1>2. CASE ApplyDuplicate
  BY <1>2 DEF TypeOK, ApplyDuplicate, LaneDone, durable, environment, history
<1>3. CASE ApplyRecorded
  <2>1. PICK s \in SeenRoom(lane.occ) : RecordSeen(s) /\ evicted' = Tally(s, {}, {})
    BY <1>3 DEF ApplyRecorded
  <2>2. Table(seen', Occurrences, SeenRow)
    BY ZenonT(60), <1>3, <2>1, FreshTypes, PutTable DEF RecordSeen, ApplyRecorded, TypeOK
  <2>3. evicted' \in [seen : Nat, incidents : Nat, outbox : Nat]
    BY <2>1, RoomCount, FS_EmptySet DEF Tally, TypeOK
  <2> QED
    BY <1>3, <2>2, <2>3 DEF ApplyRecorded, LaneDone, TypeOK, environment, history
<1>4. CASE ApplyQuiet
  <2>1. PICK s \in SeenRoom(lane.occ), i \in IncidentRoom(lane.key) :
          /\ RecordSeen(s)
          /\ incidents' = Put(incidents, i, lane.key,
                              [Escalate(Recurred) EXCEPT !.touched = now])
          /\ evicted' = Tally(s, i, {})
    BY <1>4 DEF ApplyQuiet
  <2>2. Table(seen', Occurrences, SeenRow)
    BY ZenonT(60), <1>4, <2>1, FreshTypes, PutTable DEF RecordSeen, ApplyQuiet, TypeOK
  <2>3. [Escalate(Recurred) EXCEPT !.touched = now] \in IncidentRow
    BY <1>4, FreshTypes DEF ApplyQuiet, IncidentRow
  <2>4. Table(incidents', Keys, IncidentRow)
    BY <1>4, <2>1, <2>3, FreshTypes, PutTable DEF ApplyQuiet, TypeOK
  <2>5. evicted' \in [seen : Nat, incidents : Nat, outbox : Nat]
    BY <2>1, RoomCount, FS_EmptySet DEF Tally, TypeOK
  <2> QED
    BY <1>4, <2>2, <2>4, <2>5 DEF ApplyQuiet, LaneDone, TypeOK, environment, history
<1>5. CASE ApplyEnqueued
  <2> DEFINE id == <<lane.key, NextSequence>>
  <2>1. PICK s \in SeenRoom(lane.occ), i \in IncidentRoom(lane.key),
             o \in OutboxRoom :
          /\ RecordSeen(s)
          /\ incidents' = Put(incidents, i, lane.key,
               [Escalate(Recurred) EXCEPT
                  !.last = now, !.seq = NextSequence,
                  !.touched = now, !.decision = Decision])
          /\ outbox' = Put(outbox, o, id,
               [status |-> "pending", attempts |-> 0, due |-> now,
                updated |-> now])
          /\ evicted' = Tally(s, i, o)
    BY <1>5 DEF ApplyEnqueued
  <2>2. Fresh /\ Decision \in Actionable
    BY <1>5 DEF ApplyEnqueued, Notifies
  <2>3. NextSequence \in Nat /\ sequence' = NextSequence
    BY <1>5 DEF ApplyEnqueued, NextSequence, TypeOK
  <2>4. id \in Identities
    BY <2>2, <2>3, FreshTypes DEF Identities
  <2>5. Table(seen', Occurrences, SeenRow)
    BY ZenonT(60), <2>1, <2>2, FreshTypes, PutTable DEF RecordSeen, TypeOK
  <2>6. Table(incidents', Keys, IncidentRow)
    <3>1. [Escalate(Recurred) EXCEPT
             !.last = now, !.seq = NextSequence,
             !.touched = now, !.decision = Decision] \in IncidentRow
      BY <2>2, <2>3, FreshTypes DEF IncidentRow
    <3> QED
      BY ZenonT(60), <3>1, <2>1, <2>2, FreshTypes, PutTable DEF TypeOK
  <2>7. Table(outbox', Identities, OutboxRow)
    <3>1. [status |-> "pending", attempts |-> 0, due |-> now, updated |-> now]
            \in OutboxRow
      BY <2>2, FreshTypes, StoreAssumption DEF OutboxRow, Statuses
    <3> QED
      BY ZenonT(60), <3>1, <2>1, <2>4, PutTable DEF TypeOK
  <2>8. /\ Table(issued', Identities, Issued)
        /\ DOMAIN issued' = DOMAIN issued \cup {id}
    <3>1. Notification \in Issued
      BY <2>2, FreshTypes DEF Issued, Notification, IncidentRow
    <3>2. issued' = Put(issued, {}, id, Notification)
      BY <1>5 DEF ApplyEnqueued
    <3>3. Table(issued, Identities, Issued)
      BY DEF TypeOK
    <3>4. DOMAIN issued' = DOMAIN issued \cup {id}
      BY <3>2 DEF Put
    <3>5. Table(issued', Identities, Issued)
      BY <3>1, <3>2, <3>3, <2>4, PutTable
    <3> QED
      BY <3>4, <3>5
  <2>9. evicted' \in [seen : Nat, incidents : Nat, outbox : Nat]
    BY <2>1, RoomCount DEF Tally, TypeOK
  <2> QED
    BY <1>5, <2>3, <2>5, <2>6, <2>7, <2>8, <2>9
    DEF ApplyEnqueued, LaneDone, TypeOK, environment, history
<1>6. CASE ApplyBlocked
  BY <1>6 DEF ApplyBlocked, TypeOK, durable, environment, history
<1>7. CASE AbandonApply
  BY <1>7 DEF AbandonApply, TypeOK, durable, environment, history
<1>8. CASE FailApply
  BY <1>8 DEF FailApply, TypeOK, durable, environment, history
<1>9. CASE AnalysisEnds
  BY <1>9 DEF AnalysisEnds, TypeOK, durable, environment, history
<1>10. ASSUME NEW n \in DOMAIN outbox, RecordAttempt(n) PROVE TypeOK'
  <2>1. outbox[n] \in OutboxRow /\ n \in Identities
    BY DEF TypeOK, Table
  <2>2. NextAttempt(n) \in 0..MaxAttempts
    BY <1>10, <2>1, StoreAssumption
    DEF RecordAttempt, Exhausted, NextAttempt, OutboxRow
  <2>3. now \in Int /\ Later(Lease) \in Int
    BY TimesInt, LaterType, StoreAssumption DEF TypeOK
  <2>4. Table(outbox', Identities, OutboxRow)
    <3>1. [outbox[n] EXCEPT !.attempts = NextAttempt(n), !.due = Later(Lease),
                            !.updated = now] \in OutboxRow
      BY <2>1, <2>2, <2>3 DEF OutboxRow
    <3> QED
      BY <1>10, <3>1, UpdateTable DEF RecordAttempt, TypeOK
  <2>5. worker' \in [phase : {"idle", "returned", "send", "ack"},
                     id : Identities \cup {NoId},
                     attempts : 0..MaxAttempts, ok : BOOLEAN]
    BY <1>10, <2>1, <2>2 DEF RecordAttempt
  <2> QED
    BY <1>10, <2>4, <2>5 DEF RecordAttempt, TypeOK, environment, history
<1>11. ASSUME NEW n \in DOMAIN outbox, MarkDead(n) PROVE TypeOK'
  <2>1. now \in Int
    BY TimesInt DEF TypeOK
  <2>2. Table(outbox', Identities, OutboxRow)
    <3>1. outbox[n] \in OutboxRow
      BY DEF TypeOK, Table
    <3>2. [outbox[n] EXCEPT !.status = "dead", !.updated = now] \in OutboxRow
      BY <2>1, <3>1 DEF OutboxRow, Statuses
    <3> QED
      BY <1>11, <3>2, UpdateTable DEF MarkDead, TypeOK
  <2> QED
    BY <1>11, <2>2 DEF MarkDead, TypeOK, memory, environment, history
<1>12. ASSUME NEW a \in BOOLEAN, NEW ok \in BOOLEAN, SendOutcome(a, ok)
       PROVE TypeOK'
  <2>1. Table(issued', Identities, Issued)
    <3>1. worker.id \in DOMAIN issued
      BY <1>12 DEF SendOutcome, InFlightRowHeld, IdentitiesIssued
    <3>2. issued[worker.id] \in Issued
      BY <3>1 DEF TypeOK, Table
    <3>3. Tried(issued[worker.id], ok) \in Issued
      BY <3>2, TriedType
    <3> QED
      BY <1>12, <3>1, <3>3, UpdateTable DEF SendOutcome, TypeOK
  <2>2. worker' \in [phase : {"idle", "returned", "send", "ack"},
                     id : Identities \cup {NoId},
                     attempts : 0..MaxAttempts, ok : BOOLEAN]
    BY <1>12 DEF SendOutcome, TypeOK
  <2>3. /\ received' \subseteq DOMAIN issued' /\ acked' \subseteq DOMAIN issued'
    BY <1>12 DEF SendOutcome, TypeOK, InFlightRowHeld, IdentitiesIssued
  <2> QED
    BY <1>12, <2>1, <2>2, <2>3 DEF SendOutcome, TypeOK, durable, environment, history
<1>13. CASE SettleAttempt
  <2>1. worker.attempts \in 1..MaxAttempts /\ worker.ok \in BOOLEAN
    BY <1>13, StoreAssumption DEF SettleAttempt, SendsTruthful, TypeOK
  <2>2. now \in Int /\ Later(Backoff[worker.attempts]) \in Int
    BY <2>1, TimesInt, LaterType, StoreAssumption DEF TypeOK
  <2>3. Outcome(worker.attempts, worker.ok) \in Statuses
    BY <2>1 DEF Outcome, Statuses
  <2>4. Table(outbox', Identities, OutboxRow)
    <3> DEFINE n == worker.id
               r == [outbox[n] EXCEPT
                       !.status = Outcome(worker.attempts, worker.ok),
                       !.due = Later(Backoff[worker.attempts]),
                       !.updated = now]
    <3>1. CASE n \in DOMAIN outbox /\ outbox[n].attempts = worker.attempts
      <4>1. outbox[n] \in OutboxRow
        BY <3>1 DEF TypeOK, Table
      <4>2. r \in OutboxRow
        BY <2>2, <2>3, <4>1 DEF OutboxRow
      <4>3. outbox' = [outbox EXCEPT ![n] = r]
        BY <1>13, <3>1 DEF SettleAttempt
      <4> QED
        BY <3>1, <4>2, <4>3, UpdateTable DEF TypeOK
    <3>2. CASE ~(n \in DOMAIN outbox /\ outbox[n].attempts = worker.attempts)
      BY <1>13, <3>2 DEF SettleAttempt, TypeOK
    <3> QED
      BY <3>1, <3>2
  <2> QED
    BY <1>13, <2>4, WorkerType DEF SettleAttempt, TypeOK, environment, history
<1>14. CASE WorkerReturns
  BY <1>14, WorkerType DEF WorkerReturns, TypeOK, durable, environment, history
<1>15. CASE CancelIntake
  BY <1>15 DEF CancelIntake, TypeOK, durable, environment, history
<1>16. CASE CancelProcess
  <2>1. stops' \in 0..MaxStops
    BY <1>16, StoreAssumption DEF CancelProcess, TypeOK
  <2> QED
    BY <1>16, <2>1 DEF CancelProcess, TypeOK, durable, history
<1>17. CASE Exit
  BY <1>17 DEF Exit, TypeOK, durable, environment, history
<1>18. CASE Crash
  <2>1. stops' \in 0..MaxStops
    BY <1>18, StoreAssumption DEF Crash, TypeOK
  <2> QED
    BY <1>18, <2>1, WorkerType DEF Crash, TypeOK, durable, history
<1>19. CASE Open
  <2>1. sequence' \in Nat
    BY <1>19, OpenKeepsSequence DEF TypeOK
  <2> QED
    BY <1>19, <2>1, WorkerType DEF Open, TypeOK, environment, history
<1>20. CASE Tick
  BY <1>20, StoreAssumption DEF Tick, TypeOK, durable, memory, Times, history
<1>21. CASE SetClockBack
  BY <1>21, StoreAssumption DEF SetClockBack, TypeOK, durable, memory, history
<1>22. CASE UNCHANGED vars
  BY <1>22 DEF vars, TypeOK
<1> QED
  BY <1>1, <1>2, <1>3, <1>4, <1>5, <1>6, <1>7, <1>8, <1>9, <1>10, <1>11,
     <1>12, <1>13, <1>14, <1>15, <1>16, <1>17, <1>18, <1>19, <1>20, <1>21,
     <1>22 DEF Next

-----------------------------------------------------------------------------
\* The rest of the inductive invariant.

Rest == IdentitiesIssued /\ InFlightRowHeld /\ AttemptsAccounted /\ SendsTruthful

\* What the rest of the invariant depends on.
restVars == <<incidents, outbox, sequence, issued, received, acked, worker, stops>>

LEMMA RestFrame ==
  ASSUME StoreInv, UNCHANGED restVars,
         process' = "down" => process = "down" \/ worker.phase = "returned"
  PROVE  Rest'
BY DEF StoreInv, Rest, restVars, IdentitiesIssued, InFlightRowHeld,
       AttemptsAccounted, SendsTruthful, Terminal

\* A process that stops takes its worker with it.
LEMMA RestStop ==
  ASSUME StoreInv, stops' = stops + 1,
         worker' \in {worker, Worker("returned")},
         process' = "down" => worker' = Worker("returned"),
         UNCHANGED <<incidents, outbox, sequence, issued, received, acked>>
  PROVE  Rest'
<1>1. stops' # 0
  BY DEF StoreInv, TypeOK
<1>2. worker'.phase \in {"send", "ack"} => worker' = worker
  BY WorkerType
<1>3. IdentitiesIssued' /\ InFlightRowHeld'
  BY <1>2 DEF StoreInv, IdentitiesIssued, InFlightRowHeld
<1>4. AttemptsAccounted'
  BY <1>1 DEF StoreInv, AttemptsAccounted
<1>5. SendsTruthful'
  BY <1>2, WorkerType DEF StoreInv, SendsTruthful
<1> QED
  BY <1>3, <1>4, <1>5 DEF Rest

LEMMA RestReturned ==
  ASSUME StoreInv, WorkerReturns PROVE Rest'
<1>1. worker'.phase = "returned" /\ worker.phase # "send"
  BY WorkerType DEF WorkerReturns
<1>2. UNCHANGED <<incidents, outbox, sequence, issued, received, acked, stops>>
  BY DEF WorkerReturns, durable, environment, history
<1>3. IdentitiesIssued' /\ InFlightRowHeld' /\ SendsTruthful'
  BY <1>1, <1>2
  DEF StoreInv, IdentitiesIssued, InFlightRowHeld, SendsTruthful
<1>4. AttemptsAccounted'
  BY <1>1, <1>2 DEF StoreInv, AttemptsAccounted
<1> QED
  BY <1>3, <1>4 DEF Rest

LEMMA RestOpen == ASSUME StoreInv, Open PROVE Rest'
<1>1. sequence' = sequence
  BY OpenKeepsSequence DEF StoreInv
<1>2. worker'.phase = "idle"
  BY WorkerType DEF Open
<1>3. UNCHANGED <<incidents, outbox, issued, received, acked, stops>>
  BY DEF Open, environment, history
<1>4. IdentitiesIssued' /\ InFlightRowHeld' /\ SendsTruthful'
  BY <1>1, <1>2, <1>3
  DEF Open, StoreInv, IdentitiesIssued, InFlightRowHeld, SendsTruthful
<1>5. AttemptsAccounted'
  <2>1. worker.phase = "returned"
    BY DEF Open, StoreInv, SendsTruthful
  <2> QED
    BY <2>1, <1>2, <1>3 DEF StoreInv, AttemptsAccounted
<1> QED
  BY <1>4, <1>5 DEF Rest

\* The lane: a recurrence inside its cooldown.
LEMMA RestQuiet == ASSUME StoreInv, ApplyQuiet PROVE Rest'
<1>1. UNCHANGED <<outbox, sequence, issued, received, acked, worker, stops, process>>
  BY DEF ApplyQuiet, LaneDone, environment, history
<1>2. \A k \in DOMAIN incidents' : incidents'[k].seq <= sequence
  <2>1. PICK i \in IncidentRoom(lane.key) :
          incidents' = Put(incidents, i, lane.key,
                           [Escalate(Recurred) EXCEPT !.touched = now])
    BY DEF ApplyQuiet
  <2>2. Prior.seq <= sequence /\ Escalate(Recurred).seq = Prior.seq
    <3>1. Prior.seq <= sequence
      BY DEF Prior, NoIncident, StoreInv, TypeOK, IdentitiesIssued
    <3>2. Prior \in IncidentRow /\ now \in Int
      BY TimesInt
      DEF Prior, NoIncident, IncidentRow, StoreInv, TypeOK, Table
    <3>3. Recurred.seq = Prior.seq /\ Recurred \in IncidentRow
      BY <3>2, RecurType DEF Recurred, Recur, IncidentRow
    <3> QED
      BY <3>1, <3>3 DEF Escalate, IncidentRow
  <2>3. Escalate(Recurred) \in IncidentRow
    BY FreshTypes DEF ApplyQuiet, StoreInv
  <2>4. [Escalate(Recurred) EXCEPT !.touched = now].seq
          = Escalate(Recurred).seq
    BY <2>3 DEF IncidentRow
  <2> QED
    BY <2>1, <2>2, <2>4 DEF Put, StoreInv, IdentitiesIssued
<1>3. IdentitiesIssued' /\ InFlightRowHeld' /\ SendsTruthful'
  BY <1>1, <1>2
  DEF StoreInv, IdentitiesIssued, InFlightRowHeld, SendsTruthful
<1>4. AttemptsAccounted'
  BY <1>1 DEF StoreInv, AttemptsAccounted
<1> QED
  BY <1>3, <1>4 DEF Rest

\* The next identity was never issued.
LEMMA NextIsNew ==
  ASSUME StoreInv, NEW k
  PROVE  /\ <<k, NextSequence>> \notin DOMAIN issued
         /\ <<k, NextSequence>> \notin DOMAIN outbox
<1>1. sequence \in Nat
  BY DEF StoreInv, TypeOK
<1>2. \A n \in DOMAIN issued : n[2] <= sequence
  BY DEF StoreInv, IdentitiesIssued
<1> QED
  BY <1>1, <1>2 DEF NextSequence, StoreInv, IdentitiesIssued

\* What committing an intent leaves of the outbox and of the history.
LEMMA Enqueued ==
  ASSUME StoreInv, ApplyEnqueued
  PROVE  \E o \in OutboxRoom :
         LET id == <<lane.key, NextSequence>> IN
           /\ o \subseteq Terminal
           /\ DOMAIN outbox' = (DOMAIN outbox \ o) \cup {id}
           /\ outbox'[id] = [status |-> "pending", attempts |-> 0,
                             due |-> now, updated |-> now]
           /\ \A n \in DOMAIN outbox \ o : outbox'[n] = outbox[n]
           /\ DOMAIN issued' = DOMAIN issued \cup {id}
           /\ issued'[id].tries = 0 /\ issued'[id].failed = 0
           /\ \A n \in DOMAIN issued : issued'[n] = issued[n]
<1> DEFINE id == <<lane.key, NextSequence>>
<1>1. PICK o \in OutboxRoom :
        outbox' = Put(outbox, o, id,
                      [status |-> "pending", attempts |-> 0, due |-> now,
                       updated |-> now])
  BY DEF ApplyEnqueued
<1>2. issued' = Put(issued, {}, id, Notification)
  BY DEF ApplyEnqueued
<1>3. o \subseteq Terminal
  BY RoomSubset
<1>4. id \notin DOMAIN issued /\ id \notin DOMAIN outbox
  BY NextIsNew
<1> HIDE DEF id
<1>5. /\ DOMAIN outbox' = (DOMAIN outbox \ o) \cup {id}
      /\ outbox'[id] = [status |-> "pending", attempts |-> 0,
                        due |-> now, updated |-> now]
      /\ \A n \in DOMAIN outbox \ o : outbox'[n] = outbox[n]
  BY <1>1, <1>4 DEF Put
<1>6. /\ DOMAIN issued' = DOMAIN issued \cup {id}
      /\ issued'[id].tries = 0 /\ issued'[id].failed = 0
      /\ \A n \in DOMAIN issued : issued'[n] = issued[n]
  BY <1>2, <1>4 DEF Put, Notification
<1> QED
  BY <1>3, <1>5, <1>6 DEF id

\* The lane: a new intent.
LEMMA RestEnqueued == ASSUME StoreInv, ApplyEnqueued PROVE Rest'
<1> DEFINE id == <<lane.key, NextSequence>>
<1>1. PICK o \in OutboxRoom :
        /\ o \subseteq Terminal
        /\ DOMAIN outbox' = (DOMAIN outbox \ o) \cup {id}
        /\ outbox'[id] = [status |-> "pending", attempts |-> 0,
                          due |-> now, updated |-> now]
        /\ \A n \in DOMAIN outbox \ o : outbox'[n] = outbox[n]
        /\ DOMAIN issued' = DOMAIN issued \cup {id}
        /\ issued'[id].tries = 0 /\ issued'[id].failed = 0
        /\ \A n \in DOMAIN issued : issued'[n] = issued[n]
  BY Enqueued
<1>2. /\ id \notin DOMAIN issued /\ id \notin DOMAIN outbox
      /\ id[2] = NextSequence
  BY NextIsNew
<1>3. /\ UNCHANGED <<received, acked, worker, stops, process>>
      /\ sequence' = NextSequence
  BY DEF ApplyEnqueued, LaneDone, environment
<1>4. sequence \in Nat /\ NextSequence = sequence + 1
  BY DEF StoreInv, TypeOK, NextSequence
<1>5. \A k \in DOMAIN incidents' : incidents'[k].seq <= NextSequence
  <2>1. PICK i \in IncidentRoom(lane.key) :
          incidents' = Put(incidents, i, lane.key,
            [Escalate(Recurred) EXCEPT
               !.last = now, !.seq = NextSequence,
               !.touched = now, !.decision = Decision])
    BY DEF ApplyEnqueued
  <2>2. Escalate(Recurred) \in IncidentRow
    BY FreshTypes DEF ApplyEnqueued, StoreInv
  <2>3. [Escalate(Recurred) EXCEPT
           !.last = now, !.seq = NextSequence,
           !.touched = now, !.decision = Decision].seq = NextSequence
    BY <2>2 DEF IncidentRow
  <2>4. \A k \in DOMAIN incidents : incidents[k].seq \in Nat
                                    /\ incidents[k].seq <= sequence
    BY DEF StoreInv, IdentitiesIssued, TypeOK, Table, IncidentRow
  <2> QED
    BY <2>1, <2>3, <2>4, <1>4 DEF Put
<1> HIDE DEF id
<1>6. IdentitiesIssued'
  <2>1. \A n \in DOMAIN issued : n[2] \in Nat /\ n[2] <= sequence
    BY DEF StoreInv, IdentitiesIssued, TypeOK, Table, Identities
  <2> QED
    BY <2>1, <1>1, <1>2, <1>3, <1>4, <1>5
    DEF StoreInv, IdentitiesIssued
<1>7. InFlightRowHeld'
  BY <1>1, <1>3 DEF StoreInv, InFlightRowHeld, Terminal
<1>8. SendsTruthful'
  BY <1>1, <1>3
  DEF StoreInv, SendsTruthful, InFlightRowHeld, IdentitiesIssued
<1>9. AttemptsAccounted'
  <2>1. worker.phase = "send" => worker.id # id
    BY <1>2 DEF StoreInv, InFlightRowHeld
  <2>2. \A n \in DOMAIN issued' : issued'[n].failed <= issued'[n].tries
                                  /\ issued'[n].tries <= MaxAttempts
    BY <1>1, StoreAssumption DEF StoreInv, AttemptsAccounted
  <2>3. \A n \in DOMAIN outbox' :
          /\ n \in DOMAIN issued'
          /\ outbox'[n].status = "dead" => outbox'[n].attempts = MaxAttempts
          /\ issued'[n].tries <= outbox'[n].attempts
          /\ stops = 0 =>
               outbox'[n].attempts = issued'[n].tries
                 + (IF worker.phase = "send" /\ worker.id = n THEN 1 ELSE 0)
    <3> TAKE n \in DOMAIN outbox'
    <3>1. CASE n = id
      BY <3>1, <2>1, <1>1
    <3>2. CASE n \in DOMAIN outbox \ o
      BY <3>2, <1>1 DEF StoreInv, AttemptsAccounted
    <3> QED
      BY <3>1, <3>2, <1>1
  <2> QED
    BY <2>2, <2>3, <1>3 DEF AttemptsAccounted
<1> QED
  BY <1>6, <1>7, <1>8, <1>9 DEF Rest

\* The worker records an attempt.
LEMMA RestRecord ==
  ASSUME StoreInv, NEW n \in DOMAIN outbox, RecordAttempt(n)
  PROVE  Rest'
<1>1. /\ UNCHANGED <<incidents, sequence, issued, received, acked, stops, process>>
      /\ worker.phase = "idle" /\ process = "running"
      /\ worker' = [phase |-> "send", id |-> n, attempts |-> NextAttempt(n),
                    ok |-> FALSE]
  BY DEF RecordAttempt, environment, history
<1>2. outbox[n] \in OutboxRow /\ outbox[n].status = "pending"
  BY DEF RecordAttempt, Fetchable, Due, StoreInv, TypeOK, Table
<1>3. NextAttempt(n) \in 1..MaxAttempts /\ NextAttempt(n) = outbox[n].attempts + 1
  BY <1>2, StoreAssumption DEF RecordAttempt, Exhausted, NextAttempt, OutboxRow
<1>4. /\ DOMAIN outbox' = DOMAIN outbox
      /\ outbox'[n].status = "pending" /\ outbox'[n].attempts = NextAttempt(n)
      /\ \A m \in DOMAIN outbox : m # n => outbox'[m] = outbox[m]
  BY <1>2 DEF RecordAttempt, StoreInv, TypeOK, Table, OutboxRow
<1>5. issued[n].tries \in Nat /\ issued[n].tries <= outbox[n].attempts
      /\ outbox[n].attempts \in Nat
  BY <1>2 DEF StoreInv, AttemptsAccounted, TypeOK, Table, Issued, OutboxRow
<1>6. IdentitiesIssued' /\ InFlightRowHeld' /\ SendsTruthful'
  BY <1>1, <1>3, <1>4, <1>5
  DEF StoreInv, IdentitiesIssued, InFlightRowHeld, SendsTruthful
<1>7. AttemptsAccounted'
  <2>1. stops = 0 => outbox[n].attempts = issued[n].tries
    BY <1>1, <1>5 DEF StoreInv, AttemptsAccounted
  <2> QED
    BY <2>1, <1>1, <1>3, <1>4, <1>5 DEF StoreInv, AttemptsAccounted
<1> QED
  BY <1>6, <1>7 DEF Rest

\* The worker gives up a row without an attempt left.
LEMMA RestDead ==
  ASSUME StoreInv, NEW n \in DOMAIN outbox, MarkDead(n)
  PROVE  Rest'
<1>1. /\ UNCHANGED <<incidents, sequence, issued, received, acked, stops,
                     process, worker>>
      /\ worker.phase = "idle"
  BY DEF MarkDead, environment, history, memory
<1>2. outbox[n] \in OutboxRow /\ outbox[n].attempts = MaxAttempts
  BY DEF MarkDead, Exhausted, StoreInv, TypeOK, Table
<1>3. /\ DOMAIN outbox' = DOMAIN outbox
      /\ outbox'[n].attempts = MaxAttempts
      /\ \A m \in DOMAIN outbox : m # n => outbox'[m] = outbox[m]
  BY <1>2 DEF MarkDead, StoreInv, TypeOK, Table, OutboxRow
<1>4. IdentitiesIssued' /\ InFlightRowHeld' /\ SendsTruthful'
  BY <1>1, <1>3
  DEF StoreInv, IdentitiesIssued, InFlightRowHeld, SendsTruthful
<1>5. AttemptsAccounted'
  BY <1>1, <1>2, <1>3 DEF StoreInv, AttemptsAccounted
<1> QED
  BY <1>4, <1>5 DEF Rest

\* The worker sends.
LEMMA RestSend ==
  ASSUME StoreInv, NEW arrives \in BOOLEAN, NEW ok \in BOOLEAN,
         SendOutcome(arrives, ok)
  PROVE  Rest'
<1> DEFINE w == worker.id
<1>1. /\ UNCHANGED <<incidents, outbox, sequence, stops, process>>
      /\ worker.phase = "send" /\ worker' = [worker EXCEPT !.phase = "ack", !.ok = ok]
  BY DEF SendOutcome, durable, environment
<1>2. /\ w \in DOMAIN outbox /\ w \in DOMAIN issued
      /\ outbox[w].attempts = worker.attempts
      /\ issued[w].tries < worker.attempts
  BY <1>1 DEF StoreInv, InFlightRowHeld, IdentitiesIssued, SendsTruthful
<1>3. issued[w] \in Issued /\ worker.attempts \in 0..MaxAttempts
  BY <1>2 DEF StoreInv, TypeOK, Table
<1>4. /\ DOMAIN issued' = DOMAIN issued
      /\ issued'[w] = Tried(issued[w], ok)
      /\ \A m \in DOMAIN issued : m # w => issued'[m] = issued[m]
  BY <1>2 DEF SendOutcome, StoreInv, TypeOK, Table
<1>5. /\ issued'[w].tries = issued[w].tries + 1
      /\ issued'[w].failed = IF ok THEN issued[w].failed ELSE issued[w].failed + 1
      /\ issued[w].tries \in Nat /\ issued[w].failed \in Nat
      /\ issued[w].failed <= issued[w].tries
  BY <1>2, <1>3, <1>4, TriedType DEF Issued, StoreInv, AttemptsAccounted
<1>6. worker'.phase = "ack" /\ worker'.id = w /\ worker'.ok = ok
      /\ worker'.attempts = worker.attempts
  BY <1>1 DEF StoreInv, TypeOK
<1> HIDE DEF w
<1>7. IdentitiesIssued'
  BY <1>1, <1>4 DEF StoreInv, IdentitiesIssued
<1>8. InFlightRowHeld'
  BY <1>1, <1>6 DEF StoreInv, InFlightRowHeld, w
<1>9. SendsTruthful'
  <2>1. acked' \subseteq received'
    BY DEF SendOutcome, StoreInv, SendsTruthful
  <2>2. ok => w \in acked'
    BY DEF SendOutcome, w
  <2> QED
    BY <2>1, <2>2, <1>1, <1>6 DEF StoreInv, SendsTruthful
<1>10. AttemptsAccounted'
  <2>1. \A n \in DOMAIN issued' : issued'[n].failed <= issued'[n].tries
                                  /\ issued'[n].tries <= MaxAttempts
    <3> TAKE n \in DOMAIN issued'
    <3>1. CASE n = w
      BY <3>1, <1>2, <1>3, <1>5, StoreAssumption
    <3>2. CASE n # w
      BY <3>2, <1>4 DEF StoreInv, AttemptsAccounted
    <3> QED
      BY <3>1, <3>2
  <2>2. \A n \in DOMAIN outbox' :
          /\ n \in DOMAIN issued'
          /\ outbox'[n].status = "dead" => outbox'[n].attempts = MaxAttempts
          /\ issued'[n].tries <= outbox'[n].attempts
          /\ stops' = 0 => outbox'[n].attempts = issued'[n].tries
    <3> TAKE n \in DOMAIN outbox'
    <3>1. CASE n = w
      <4>1. stops = 0 => outbox[w].attempts = issued[w].tries + 1
        BY <1>1, <1>2 DEF StoreInv, AttemptsAccounted, w
      <4> QED
        BY <3>1, <4>1, <1>1, <1>2, <1>3, <1>4, <1>5 DEF StoreInv, AttemptsAccounted
    <3>2. CASE n # w
      <4>1. issued[n].tries \in Nat /\ outbox[n].attempts \in Nat
        BY <1>1 DEF StoreInv, TypeOK, Table, Issued, OutboxRow, IdentitiesIssued
      <4> QED
        BY <3>2, <4>1, <1>1, <1>4 DEF StoreInv, AttemptsAccounted, w
    <3> QED
      BY <3>1, <3>2
  <2>3. \A n \in DOMAIN outbox' : issued'[n].tries \in Nat
    <3> TAKE n \in DOMAIN outbox'
    <3>1. n \in DOMAIN issued /\ issued[n].tries \in Nat
      BY <1>1 DEF StoreInv, TypeOK, Table, Issued, IdentitiesIssued
    <3> QED
      BY <3>1, <1>4, <1>5
  <2> QED
    BY <2>1, <2>2, <2>3, <1>6 DEF AttemptsAccounted
<1> QED
  BY <1>7, <1>8, <1>9, <1>10 DEF Rest

\* The worker settles the attempt it holds.
LEMMA RestSettle == ASSUME StoreInv, SettleAttempt PROVE Rest'
<1> DEFINE w == worker.id
<1>1. /\ UNCHANGED <<incidents, sequence, issued, received, acked, stops, process>>
      /\ worker.phase = "ack" /\ worker'.phase = "idle" /\ process' # "down"
  BY WorkerType
  DEF SettleAttempt, environment, history, StoreInv, SendsTruthful
<1>2. /\ w \in DOMAIN outbox /\ outbox[w].attempts = worker.attempts
      /\ worker.attempts \in 1..MaxAttempts
  BY <1>1, StoreAssumption
  DEF StoreInv, InFlightRowHeld, SendsTruthful, TypeOK
<1>3. /\ DOMAIN outbox' = DOMAIN outbox
      /\ outbox'[w].attempts = worker.attempts
      /\ outbox'[w].status = Outcome(worker.attempts, worker.ok)
      /\ \A m \in DOMAIN outbox : m # w => outbox'[m] = outbox[m]
  <2>1. outbox[w] \in OutboxRow
    BY <1>2 DEF StoreInv, TypeOK, Table
  <2> QED
    BY <1>2, <2>1 DEF SettleAttempt, StoreInv, TypeOK, Table, OutboxRow
<1>4. IdentitiesIssued' /\ InFlightRowHeld' /\ SendsTruthful'
  BY <1>1, <1>3
  DEF StoreInv, IdentitiesIssued, InFlightRowHeld, SendsTruthful
<1>5. Outcome(worker.attempts, worker.ok) = "dead"
        => worker.attempts = MaxAttempts
  BY <1>2, StoreAssumption DEF Outcome
<1>6. AttemptsAccounted'
  BY <1>1, <1>2, <1>3, <1>5 DEF StoreInv, AttemptsAccounted
<1> QED
  BY <1>4, <1>6 DEF Rest

LEMMA RestStep == ASSUME StoreInv, [Next]_vars PROVE Rest'
<1>1. ASSUME NEW e \in Events, Arrive(e) PROVE Rest'
  BY <1>1, RestFrame DEF Arrive, durable, history, restVars
<1>2. CASE ApplyDuplicate
  BY <1>2, RestFrame
  DEF ApplyDuplicate, LaneDone, durable, environment, history, restVars
<1>3. CASE ApplyRecorded
  BY <1>3, RestFrame
  DEF ApplyRecorded, LaneDone, environment, history, restVars
<1>4. CASE ApplyQuiet
  BY <1>4, RestQuiet
<1>5. CASE ApplyEnqueued
  BY <1>5, RestEnqueued
<1>6. CASE ApplyBlocked
  BY <1>6, RestFrame
  DEF ApplyBlocked, durable, environment, history, restVars
<1>7. CASE AbandonApply
  BY <1>7, RestFrame
  DEF AbandonApply, durable, environment, history, restVars
<1>8. CASE FailApply
  BY <1>8, RestFrame DEF FailApply, durable, environment, history, restVars
<1>9. CASE AnalysisEnds
  BY <1>9, RestFrame DEF AnalysisEnds, durable, environment, history, restVars
<1>10. ASSUME NEW n \in DOMAIN outbox, RecordAttempt(n) PROVE Rest'
  BY <1>10, RestRecord
<1>11. ASSUME NEW n \in DOMAIN outbox, MarkDead(n) PROVE Rest'
  BY <1>11, RestDead
<1>12. ASSUME NEW a \in BOOLEAN, NEW ok \in BOOLEAN, SendOutcome(a, ok)
       PROVE Rest'
  BY <1>12, RestSend
<1>13. CASE SettleAttempt
  BY <1>13, RestSettle
<1>14. CASE WorkerReturns
  BY <1>14, RestReturned
<1>15. CASE CancelIntake
  BY <1>15, RestFrame DEF CancelIntake, durable, environment, history, restVars
<1>16. CASE CancelProcess
  BY <1>16, RestStop DEF CancelProcess, durable, history
<1>17. CASE Exit
  BY <1>17, RestFrame DEF Exit, durable, environment, history, restVars
<1>18. CASE Crash
  BY <1>18, RestStop DEF Crash, durable, history
<1>19. CASE Open
  BY <1>19, RestOpen
<1>20. CASE Tick
  BY <1>20, RestFrame DEF Tick, durable, memory, history, restVars
<1>21. CASE SetClockBack
  BY <1>21, RestFrame DEF SetClockBack, durable, memory, history, restVars
<1>22. CASE UNCHANGED vars
  BY <1>22, RestFrame DEF vars, restVars
<1> QED
  BY <1>1, <1>2, <1>3, <1>4, <1>5, <1>6, <1>7, <1>8, <1>9, <1>10, <1>11,
     <1>12, <1>13, <1>14, <1>15, <1>16, <1>17, <1>18, <1>19, <1>20, <1>21,
     <1>22 DEF Next

LEMMA InitInv == Init => StoreInv
<1> SUFFICES ASSUME Init PROVE StoreInv
  OBVIOUS
<1>1. TypeOK
  BY InitType
<1>2. worker.phase = "idle"
  BY DEF Init, Worker
<1>3. DOMAIN outbox = {} /\ DOMAIN issued = {} /\ DOMAIN incidents = {}
  BY DEF Init, Empty
<1>4. IdentitiesIssued /\ InFlightRowHeld /\ AttemptsAccounted
  BY <1>2, <1>3 DEF IdentitiesIssued, InFlightRowHeld, AttemptsAccounted
<1>5. SendsTruthful
  BY <1>2 DEF SendsTruthful, Init
<1> QED
  BY <1>1, <1>4, <1>5 DEF StoreInv

-----------------------------------------------------------------------------
\* The theorems.

\* Everything the store and its two lanes do keeps the inductive invariant.
THEOREM Invariant == Spec => []StoreInv
<1>1. StoreInv /\ [Next]_vars => StoreInv'
  BY TypeStep, RestStep DEF StoreInv, Rest
<1> QED
  BY InitInv, <1>1, PTL DEF Spec

\* Type correctness, for any number of keys, events, rows and attempts.
THEOREM TypeCorrect == Spec => []TypeOK
<1>1. StoreInv => TypeOK
  BY DEF StoreInv
<1> QED
  BY Invariant, <1>1, PTL

\* Neither eviction nor the other lane touches the row of a send in flight.
THEOREM InFlight == Spec => []InFlightRowHeld
<1>1. StoreInv => InFlightRowHeld
  BY DEF StoreInv
<1> QED
  BY Invariant, <1>1, PTL

\* Sends never exceed the attempts recorded for them, through any crash.
THEOREM Attempts == Spec => []AttemptsAccounted
<1>1. StoreInv => AttemptsAccounted
  BY DEF StoreInv
<1> QED
  BY Invariant, <1>1, PTL

-----------------------------------------------------------------------------
\* The store implements the contract: what each kind of step does to the
\* abstract state.

LEMMA IntentFrame ==
  ASSUME UNCHANGED <<outbox, issued>>
  PROVE  IntentStatus' = IntentStatus
BY DEF IntentStatus

\* Committing an intent forgets terminal ones only.
LEMMA CommitMaps ==
  ASSUME StoreInv, ApplyEnqueued
  PROVE  Promised!ContractNext
<1> DEFINE id == <<lane.key, NextSequence>>
<1>1. PICK o \in OutboxRoom :
        /\ o \subseteq Terminal
        /\ DOMAIN outbox' = (DOMAIN outbox \ o) \cup {id}
        /\ outbox'[id] = [status |-> "pending", attempts |-> 0,
                          due |-> now, updated |-> now]
        /\ \A n \in DOMAIN outbox \ o : outbox'[n] = outbox[n]
        /\ DOMAIN issued' = DOMAIN issued \cup {id}
        /\ issued'[id].tries = 0 /\ issued'[id].failed = 0
        /\ \A n \in DOMAIN issued : issued'[n] = issued[n]
  BY Enqueued
<1>2. id \notin DOMAIN issued
  BY NextIsNew
<1>3. \A n \in DOMAIN outbox : outbox[n].status \in Statuses
  BY DEF StoreInv, TypeOK, Table, OutboxRow
<1>4. DOMAIN outbox \subseteq DOMAIN issued
  BY DEF StoreInv, IdentitiesIssued
<1>5. o \in SUBSET DOMAIN IntentStatus /\ id \in DOMAIN IntentStatus'
  BY <1>1, <1>4 DEF Terminal, IntentStatus
<1> HIDE DEF id
<1>6. Promised!Commit(id, o)
  <2>1. id \notin DOMAIN IntentStatus
    BY <1>2 DEF IntentStatus
  <2>2. \A m \in o : IntentStatus[m] \in Promised!Settled
    BY <1>1, <1>3, <1>4 DEF IntentStatus, Terminal, Statuses, Promised!Settled
  <2>3. IntentStatus' = [m \in DOMAIN IntentStatus \cup {id} |->
                           IF m = id THEN "pending" ELSE Promised!Forget(o)[m]]
    <3>1. DOMAIN IntentStatus = DOMAIN issued
      BY DEF IntentStatus
    <3>2. IntentStatus' = [n \in DOMAIN issued \cup {id} |->
            IF n \in (DOMAIN outbox \ o) \cup {id} THEN outbox'[n].status
                                                   ELSE "forgotten"]
      BY <1>1 DEF IntentStatus
    <3>3. ASSUME NEW m \in DOMAIN issued \cup {id}
          PROVE  (IF m \in (DOMAIN outbox \ o) \cup {id} THEN outbox'[m].status
                                                         ELSE "forgotten")
                 = (IF m = id THEN "pending" ELSE Promised!Forget(o)[m])
      <4>1. CASE m = id
        BY <4>1, <1>1
      <4>2. CASE m # id
        <5>1. m \in DOMAIN issued
          BY <4>2
        <5>2. Promised!Forget(o)[m] =
                IF m \in o THEN "forgotten" ELSE IntentStatus[m]
          BY <5>1, <3>1 DEF Promised!Forget
        <5>3. IntentStatus[m] =
                IF m \in DOMAIN outbox THEN outbox[m].status ELSE "forgotten"
          BY <5>1 DEF IntentStatus
        <5> QED
          BY <4>2, <5>2, <5>3, <1>1
      <4> QED
        BY <4>1, <4>2
    <3> QED
      BY <3>1, <3>2, <3>3
  <2>4. UNCHANGED <<received, acked>>
    BY DEF ApplyEnqueued
  <2> QED
    BY <2>1, <2>2, <2>3, <2>4 DEF Promised!Commit
<1> QED
  BY <1>5, <1>6 DEF Promised!ContractNext

\* Recording an attempt changes no status.
LEMMA RecordMaps ==
  ASSUME StoreInv, NEW n \in DOMAIN outbox, RecordAttempt(n)
  PROVE  UNCHANGED <<IntentStatus, received, acked>>
<1>1. outbox[n] \in OutboxRow
  BY DEF StoreInv, TypeOK, Table
<1>2. /\ DOMAIN outbox' = DOMAIN outbox
      /\ \A m \in DOMAIN outbox : outbox'[m].status = outbox[m].status
  BY <1>1 DEF RecordAttempt, StoreInv, TypeOK, Table, OutboxRow
<1>3. UNCHANGED <<issued, received, acked>>
  BY DEF RecordAttempt, history
<1> QED
  BY <1>2, <1>3 DEF IntentStatus

\* A row that leaves the pending status settles its intent.
LEMMA SettleMaps ==
  ASSUME StoreInv, NEW n \in DOMAIN outbox, NEW status \in Statuses \ {"pending"},
         outbox[n].status = "pending",
         DOMAIN outbox' = DOMAIN outbox,
         outbox'[n].status = status,
         \A m \in DOMAIN outbox : m # n => outbox'[m] = outbox[m],
         status = "delivered" => n \in acked,
         UNCHANGED <<issued, received, acked>>
  PROVE  Promised!ContractNext
<1>1. n \in DOMAIN issued /\ DOMAIN IntentStatus = DOMAIN issued
  BY DEF StoreInv, IdentitiesIssued, IntentStatus
<1>2. IntentStatus[n] = "pending"
  BY <1>1 DEF IntentStatus
<1>3. IntentStatus' = [IntentStatus EXCEPT ![n] = status]
  BY <1>1 DEF IntentStatus
<1>4. status \in Promised!Settled
  BY DEF Statuses, Promised!Settled
<1>5. Promised!Settle(n, status)
  BY <1>1, <1>2, <1>3 DEF Promised!Settle
<1> QED
  BY <1>1, <1>4, <1>5 DEF Promised!ContractNext

LEMMA DeadMaps ==
  ASSUME StoreInv, NEW n \in DOMAIN outbox, MarkDead(n)
  PROVE  Promised!ContractNext
<1>1. outbox[n] \in OutboxRow /\ outbox[n].status = "pending"
  BY DEF MarkDead, Fetchable, Due, StoreInv, TypeOK, Table
<1>2. /\ DOMAIN outbox' = DOMAIN outbox
      /\ outbox'[n].status = "dead"
      /\ \A m \in DOMAIN outbox : m # n => outbox'[m] = outbox[m]
  BY <1>1 DEF MarkDead, StoreInv, TypeOK, Table, OutboxRow
<1>3. UNCHANGED <<issued, received, acked>>
  BY DEF MarkDead, history
<1>4. "dead" \in Statuses \ {"pending"}
  BY DEF Statuses
<1> QED
  BY <1>1, <1>2, <1>3, <1>4, SettleMaps

\* A send is a send.
LEMMA SendMaps ==
  ASSUME StoreInv, NEW arrives \in BOOLEAN, NEW ok \in BOOLEAN,
         SendOutcome(arrives, ok)
  PROVE  Promised!ContractNext
<1> DEFINE w == worker.id
<1>1. /\ w \in DOMAIN outbox /\ w \in DOMAIN issued
      /\ outbox[w].status = "pending"
  BY DEF SendOutcome, StoreInv, InFlightRowHeld, IdentitiesIssued
<1>2. DOMAIN issued' = DOMAIN issued /\ outbox' = outbox
  BY DEF SendOutcome, StoreInv, TypeOK, Table, durable
<1>3. IntentStatus' = IntentStatus /\ DOMAIN IntentStatus = DOMAIN issued
      /\ IntentStatus[w] = "pending"
  BY <1>1, <1>2 DEF IntentStatus
<1>4. /\ received' \in {received, received \cup {w}}
      /\ acked' \in {acked, acked \cup {w}}
      /\ acked' \subseteq received'
  BY DEF SendOutcome, StoreInv, SendsTruthful
<1> HIDE DEF w
<1>5. Promised!Send(w)
  BY <1>1, <1>3, <1>4 DEF Promised!Send
<1> QED
  BY <1>1, <1>3, <1>5 DEF Promised!ContractNext

LEMMA AttemptMaps ==
  ASSUME StoreInv, SettleAttempt
  PROVE  \/ Promised!ContractNext
         \/ UNCHANGED <<IntentStatus, received, acked>>
<1> DEFINE w == worker.id
           status == Outcome(worker.attempts, worker.ok)
<1>1. /\ w \in DOMAIN outbox /\ outbox[w].attempts = worker.attempts
      /\ outbox[w].status = "pending" /\ worker.attempts > 0
  BY DEF SettleAttempt, StoreInv, InFlightRowHeld, SendsTruthful
<1>2. outbox[w] \in OutboxRow
  BY <1>1 DEF StoreInv, TypeOK, Table
<1>3. /\ DOMAIN outbox' = DOMAIN outbox
      /\ outbox'[w].status = status
      /\ \A m \in DOMAIN outbox : m # w => outbox'[m] = outbox[m]
  BY <1>1, <1>2 DEF SettleAttempt, StoreInv, TypeOK, Table, OutboxRow
<1>4. status \in Statuses /\ (status = "delivered" => w \in acked)
  BY DEF Outcome, Statuses, SettleAttempt, StoreInv, SendsTruthful
<1>5. UNCHANGED <<issued, received, acked>>
  BY DEF SettleAttempt, history
<1> HIDE DEF w, status
<1>6. CASE status = "pending"
  BY <1>1, <1>3, <1>5, <1>6 DEF IntentStatus
<1>7. CASE status # "pending"
  BY <1>1, <1>3, <1>4, <1>5, <1>7, SettleMaps
<1> QED
  BY <1>6, <1>7

LEMMA ContractStep ==
  ASSUME StoreInv, [Next]_vars
  PROVE  \/ Promised!ContractNext
         \/ UNCHANGED <<IntentStatus, received, acked>>
<1> DEFINE Goal == \/ Promised!ContractNext
                   \/ UNCHANGED <<IntentStatus, received, acked>>
<1>1. ASSUME NEW e \in Events, Arrive(e) PROVE Goal
  BY <1>1, IntentFrame DEF Arrive, durable, history
<1>2. CASE ApplyDuplicate
  BY <1>2, IntentFrame DEF ApplyDuplicate, durable, history
<1>3. CASE ApplyRecorded
  BY <1>3, IntentFrame DEF ApplyRecorded, history
<1>4. CASE ApplyQuiet
  BY <1>4, IntentFrame DEF ApplyQuiet, history
<1>5. CASE ApplyEnqueued
  BY <1>5, CommitMaps
<1>6. CASE ApplyBlocked
  BY <1>6, IntentFrame DEF ApplyBlocked, durable, history
<1>7. CASE AbandonApply
  BY <1>7, IntentFrame DEF AbandonApply, durable, history
<1>8. CASE FailApply
  BY <1>8, IntentFrame DEF FailApply, durable, history
<1>9. CASE AnalysisEnds
  BY <1>9, IntentFrame DEF AnalysisEnds, durable, history
<1>10. ASSUME NEW n \in DOMAIN outbox, RecordAttempt(n) PROVE Goal
  BY <1>10, RecordMaps
<1>11. ASSUME NEW n \in DOMAIN outbox, MarkDead(n) PROVE Goal
  BY <1>11, DeadMaps
<1>12. ASSUME NEW a \in BOOLEAN, NEW ok \in BOOLEAN, SendOutcome(a, ok)
       PROVE Goal
  BY <1>12, SendMaps
<1>13. CASE SettleAttempt
  BY <1>13, AttemptMaps
<1>14. CASE WorkerReturns
  BY <1>14, IntentFrame DEF WorkerReturns, durable, history
<1>15. CASE CancelIntake
  BY <1>15, IntentFrame DEF CancelIntake, durable, history
<1>16. CASE CancelProcess
  BY <1>16, IntentFrame DEF CancelProcess, durable, history
<1>17. CASE Exit
  BY <1>17, IntentFrame DEF Exit, durable, history
<1>18. CASE Crash
  BY <1>18, IntentFrame DEF Crash, durable, history
<1>19. CASE Open
  BY <1>19, IntentFrame DEF Open, history
<1>20. CASE Tick
  BY <1>20, IntentFrame DEF Tick, durable, history
<1>21. CASE SetClockBack
  BY <1>21, IntentFrame DEF SetClockBack, durable, history
<1>22. CASE UNCHANGED vars
  BY <1>22, IntentFrame DEF vars
<1> QED
  BY <1>1, <1>2, <1>3, <1>4, <1>5, <1>6, <1>7, <1>8, <1>9, <1>10, <1>11,
     <1>12, <1>13, <1>14, <1>15, <1>16, <1>17, <1>18, <1>19, <1>20, <1>21,
     <1>22 DEF Next

\* The controller keeps its at-least-once contract: an identity is committed
\* once and never again, is sent only while pending, leaves that status only
\* as delivered after a send that the sink acknowledged, or as dead, and is
\* forgotten only then; for any capacity, any number of crashes and any clock.
THEOREM Contract == Spec => KeepsContract
<1>1. Init => Promised!ContractInit
  BY DEF Init, Empty, IntentStatus, Promised!ContractInit
<1>2. StoreInv /\ [Next]_vars =>
        [Promised!ContractNext]_<<IntentStatus, received, acked>>
  BY ContractStep
<1>3. [Promised!ContractNext]_<<IntentStatus, received, acked>>
        => [Promised!ContractNext]_(Promised!contractVars)
  BY DEF Promised!contractVars
<1> QED
  BY Invariant, <1>1, <1>2, <1>3, PTL
  DEF Spec, KeepsContract, Promised!Contract

-----------------------------------------------------------------------------
\* The tables agree.  What TablesAgree relates is changed by three transactions of
\* the lane only; its parts are inductive together with StoreInv.

Recording == ApplyRecorded \/ ApplyQuiet \/ ApplyEnqueued

\* With a row that fits there is a table within its capacity.
LEMMA RoomFits ==
  ASSUME NEW t, IsFiniteSet(DOMAIN t), Cardinality(DOMAIN t) <= Capacity,
         NEW k, NEW j, k \in DOMAIN t => j = k,
         NEW eligible \in SUBSET DOMAIN t, NEW age,
         NEW old \in MakeRoom(t, k, eligible, age), NEW r
  PROVE  Cardinality(DOMAIN Put(t, old, j, r)) <= Capacity
<1> DEFINE rest == DOMAIN t \ old
<1>1. DOMAIN Put(t, old, j, r) = rest \cup {j}
  BY DEF Put
<1>2. old \subseteq DOMAIN t
  BY DEF MakeRoom
<1>3. IsFiniteSet(rest) /\ IsFiniteSet(old)
  BY <1>2, FS_Subset
<1>4. /\ Cardinality(rest) \in Nat /\ Cardinality(old) \in Nat
      /\ Cardinality(DOMAIN t) \in Nat /\ Capacity \in Nat
  BY <1>3, FS_CardinalityType, StoreAssumption
<1>5. Cardinality(DOMAIN t) = Cardinality(rest) + Cardinality(old)
  <2>1. rest \cup old = DOMAIN t /\ rest \cap old = {}
    BY <1>2
  <2> HIDE DEF rest
  <2>2. Cardinality(rest \cup old)
          = Cardinality(rest) + Cardinality(old) - Cardinality(rest \cap old)
    BY <1>3, FS_Union
  <2>3. Cardinality(rest \cap old) = 0
    BY <2>1, FS_EmptySet
  <2> QED BY <1>4, <2>1, <2>2, <2>3
<1> HIDE DEF rest
<1>6. Cardinality(rest \cup {j}) = IF j \in rest THEN Cardinality(rest)
                                                ELSE Cardinality(rest) + 1
  BY <1>3, FS_AddElement
<1>7. CASE k \in DOMAIN t
  <2>1. j \in rest
    BY <1>7 DEF MakeRoom, rest
  <2> QED BY <1>1, <1>4, <1>5, <1>6, <2>1
<1>8. CASE k \notin DOMAIN t /\ Cardinality(DOMAIN t) < Capacity
  BY <1>1, <1>4, <1>5, <1>6, <1>8
<1>9. CASE k \notin DOMAIN t /\ ~(Cardinality(DOMAIN t) < Capacity)
  <2>1. Cardinality(old) = Cardinality(DOMAIN t) - Capacity + 1
    BY <1>9 DEF MakeRoom, Excess
  <2> QED BY <1>1, <1>4, <1>5, <1>6, <2>1
<1> QED BY <1>7, <1>8, <1>9

\* Counting one more occurrence leaves an incident its last notification.
LEMMA RecurKeepsNotice ==
  ASSUME NEW i \in IncidentRow, NEW t \in Int
  PROVE  /\ Recur(i, t).seq = i.seq /\ Recur(i, t).last = i.last
         /\ Recur(i, t).decision = i.decision
         /\ Escalate(Recur(i, t)).seq = i.seq
         /\ Escalate(Recur(i, t)).last = i.last
         /\ Escalate(Recur(i, t)).decision = i.decision
<1> DEFINE r == Recur(i, t)
<1>1. r.seq = i.seq /\ r.last = i.last /\ r.decision = i.decision
  BY DEF Recur, IncidentRow
<1>2. r \in IncidentRow
  BY RecurType
<1> HIDE DEF r
<1>3. /\ Escalate(r).seq = r.seq /\ Escalate(r).last = r.last
      /\ Escalate(r).decision = r.decision
  BY <1>2 DEF Escalate, IncidentRow
<1> QED BY <1>1, <1>3 DEF r

\* The three transactions that record a decision, for the tables they change.
LEMMA CapacityStep ==
  ASSUME StoreInv, CapacityRespected, Recording
  PROVE  CapacityRespected'
<1>1. /\ IsFiniteSet(DOMAIN seen) /\ IsFiniteSet(DOMAIN incidents)
      /\ IsFiniteSet(DOMAIN outbox)
  BY DEF StoreInv, TypeOK, Table
<1>2. /\ Cardinality(DOMAIN seen) <= Capacity
      /\ Cardinality(DOMAIN incidents) <= Capacity
      /\ Cardinality(DOMAIN outbox) <= Capacity
  BY DEF CapacityRespected
<1>3. Cardinality(DOMAIN seen') <= Capacity
  <2>1. PICK s \in SeenRoom(lane.occ) : RecordSeen(s)
    BY DEF Recording, ApplyRecorded, ApplyQuiet, ApplyEnqueued
  <2> QED BY <1>1, <1>2, <2>1, RoomFits DEF SeenRoom, RecordSeen
<1>4. Cardinality(DOMAIN incidents') <= Capacity
  <2>1. CASE UNCHANGED incidents
    BY <1>2, <2>1
  <2>2. CASE \E i \in IncidentRoom(lane.key) : \E r :
             incidents' = Put(incidents, i, lane.key, r)
    BY <1>1, <1>2, <2>2, RoomFits DEF IncidentRoom
  <2> QED BY <2>1, <2>2 DEF Recording, ApplyRecorded, ApplyQuiet, ApplyEnqueued
<1>5. Cardinality(DOMAIN outbox') <= Capacity
  <2>1. CASE UNCHANGED outbox
    BY <1>2, <2>1
  <2>2. CASE \E o \in OutboxRoom : \E id, r : outbox' = Put(outbox, o, id, r)
    <3>1. NoId \notin DOMAIN outbox
      <4>1. \A a \in Keys, b \in Nat : <<a, b>> # <<>>
        OBVIOUS
      <4>2. \A n \in Identities : n # NoId
        BY <4>1 DEF Identities, NoId
      <4> QED BY <4>2 DEF StoreInv, TypeOK, Table
    <3>2. Terminal \subseteq DOMAIN outbox
      BY DEF Terminal
    <3> QED BY <1>1, <1>2, <2>2, <3>1, <3>2, RoomFits DEF OutboxRoom
  <2> QED BY <2>1, <2>2 DEF Recording, ApplyRecorded, ApplyQuiet, ApplyEnqueued
<1> QED BY <1>3, <1>4, <1>5 DEF CapacityRespected

\* The occurrence is recorded, and with no eviction ever nothing is forgotten.
LEMMA Recorded ==
  ASSUME StoreInv, Recording
  PROVE  /\ Fresh /\ lane \in Events /\ lane.occ \in DOMAIN seen'
         /\ seen'[lane.occ].decision = Decision
         /\ \A o \in DOMAIN seen' : o # lane.occ => o \in DOMAIN seen /\ seen'[o] = seen[o]
         /\ evicted'.seen = 0 =>
              evicted.seen = 0 /\ DOMAIN seen' = DOMAIN seen \cup {lane.occ}
<1>1. PICK s \in SeenRoom(lane.occ) :
        RecordSeen(s) /\ evicted'.seen = evicted.seen + Cardinality(s)
  <2>1. CASE ApplyRecorded
    BY <2>1 DEF ApplyRecorded, Tally
  <2>2. CASE ApplyQuiet
    BY <2>2 DEF ApplyQuiet, Tally
  <2>3. CASE ApplyEnqueued
    BY <2>3 DEF ApplyEnqueued, Tally
  <2> QED BY <2>1, <2>2, <2>3 DEF Recording
<1>2. Fresh
  BY DEF Recording, ApplyRecorded, ApplyQuiet, ApplyEnqueued
<1>3. lane \in Events
  BY <1>2 DEF Fresh, StoreInv, TypeOK
<1>4. /\ DOMAIN seen' = (DOMAIN seen \ s) \cup {lane.occ}
      /\ seen'[lane.occ] = [at |-> now, decision |-> Decision]
      /\ \A o \in DOMAIN seen' : o # lane.occ => o \in DOMAIN seen /\ seen'[o] = seen[o]
  BY <1>1 DEF RecordSeen, Put
<1>5. ASSUME evicted'.seen = 0 PROVE evicted.seen = 0 /\ s = {}
  <2>1. s \subseteq DOMAIN seen /\ IsFiniteSet(DOMAIN seen)
    BY RoomSubset DEF StoreInv, TypeOK, Table
  <2>2. IsFiniteSet(s)
    BY <2>1, FS_Subset
  <2>3. Cardinality(s) \in Nat /\ evicted.seen \in Nat
    BY <2>2, FS_CardinalityType DEF StoreInv, TypeOK
  <2>4. Cardinality(s) = 0 /\ evicted.seen = 0
    BY <1>1, <1>5, <2>3
  <2> QED BY <2>2, <2>4, FS_EmptySet
<1> QED BY <1>2, <1>3, <1>4, <1>5

\* A notification: its identity is new and says what was decided when.
LEMMA Noticed ==
  ASSUME StoreInv, ApplyEnqueued
  PROVE  LET id == <<lane.key, NextSequence>> IN
         /\ id \notin DOMAIN issued /\ DOMAIN issued' = DOMAIN issued \cup {id}
         /\ issued'[id] = Notification
         /\ issued'[id].decision = Decision /\ issued'[id].occ = lane.occ
         /\ issued'[id].at = now
         /\ \A n \in DOMAIN issued : issued'[n] = issued[n]
<1> DEFINE id == <<lane.key, NextSequence>>
<1>1. issued' = Put(issued, {}, id, Notification)
  BY DEF ApplyEnqueued
<1>2. id \notin DOMAIN issued
  BY NextIsNew
<1> HIDE DEF id
<1> QED BY <1>1, <1>2 DEF Put, Notification, id

LEMMA OneIntentStep ==
  ASSUME StoreInv, OneIntentPerOccurrence, EvictionAccounted, Recording
  PROVE  OneIntentPerOccurrence'
<1>1. CASE UNCHANGED issued
  BY <1>1, Recorded DEF OneIntentPerOccurrence
<1>2. CASE ApplyEnqueued
  <2> SUFFICES ASSUME evicted'.seen = 0
               PROVE  \A n, m \in DOMAIN issued' : issued'[n].occ = issued'[m].occ => n = m
    BY DEF OneIntentPerOccurrence
  <2> DEFINE id == <<lane.key, NextSequence>>
  <2>1. evicted.seen = 0 /\ lane.occ \notin DOMAIN seen
    BY Recorded DEF Fresh
  <2>2. \A n \in DOMAIN issued : issued[n].occ # lane.occ
    BY <2>1 DEF EvictionAccounted
  <2>3. /\ DOMAIN issued' = DOMAIN issued \cup {id} /\ issued'[id].occ = lane.occ
        /\ \A n \in DOMAIN issued : issued'[n] = issued[n]
    BY <1>2, Noticed
  <2>4. \A n, m \in DOMAIN issued : issued[n].occ = issued[m].occ => n = m
    BY <2>1 DEF OneIntentPerOccurrence
  <2> HIDE DEF id
  <2> QED BY <2>2, <2>3, <2>4
<1> QED BY <1>1, <1>2 DEF Recording, ApplyRecorded, ApplyQuiet, history

\* What an incident was before, when it is not notified now.
LEMMA QuietPrior ==
  ASSUME StoreInv, ApplyQuiet
  PROVE  /\ lane.key \in DOMAIN incidents
         /\ Decision = "notify" => incidents[lane.key].decision = "notify"
<1>1. Prior \in IncidentRow /\ now \in Int
  BY TimesInt DEF Prior, NoIncident, IncidentRow, StoreInv, TypeOK, Table
<1>2. Recurred.seq = Prior.seq /\ Recurred.decision = Prior.decision
  BY <1>1, RecurKeepsNotice DEF Recurred
<1>3. Recurred.seq # 0 /\ (Decision = "notify" => Recurred.decision = "notify")
  BY DEF ApplyQuiet, Notifies, MustNotify
<1> QED BY <1>2, <1>3 DEF Prior, NoIncident

LEMMA NoticeStep ==
  ASSUME StoreInv, IncidentMatchesNotice, Recording
  PROVE  IncidentMatchesNotice'
<1>1. CASE ApplyRecorded
  BY <1>1 DEF ApplyRecorded, history, IncidentMatchesNotice
<1>2. CASE ApplyQuiet
  <2>1. PICK i \in IncidentRoom(lane.key) :
          incidents' = Put(incidents, i, lane.key,
                           [Escalate(Recurred) EXCEPT !.touched = now])
    BY <1>2 DEF ApplyQuiet
  <2>2. UNCHANGED <<issued, sequence>>
    BY <1>2 DEF ApplyQuiet, history
  <2>3. /\ lane.key \in DOMAIN incidents /\ incidents[lane.key] \in IncidentRow
        /\ now \in Int /\ Prior = incidents[lane.key]
    BY <1>2, QuietPrior, TimesInt DEF StoreInv, TypeOK, Table, Prior
  <2> DEFINE p == incidents[lane.key]
             r == Escalate(Recurred)
             q == [r EXCEPT !.touched = now]
  <2>4. r.seq = p.seq /\ r.last = p.last /\ r.decision = p.decision /\ r \in IncidentRow
    BY <2>3, RecurKeepsNotice, RecurType DEF Recurred
  <2> HIDE DEF r
  <2>5. q.seq = p.seq /\ q.last = p.last /\ q.decision = p.decision
    BY <2>4 DEF IncidentRow
  <2>6. incidents' = Put(incidents, i, lane.key, q)
    BY <2>1 DEF r
  <2> HIDE DEF p, q
  <2>7. \A k \in DOMAIN incidents' :
          /\ k \in DOMAIN incidents /\ incidents'[k].seq = incidents[k].seq
          /\ incidents'[k].last = incidents[k].last
          /\ incidents'[k].decision = incidents[k].decision
    BY <2>3, <2>5, <2>6 DEF Put, p
  <2> QED BY <2>2, <2>7 DEF IncidentMatchesNotice
<1>3. CASE ApplyEnqueued
  <2> DEFINE id == <<lane.key, NextSequence>>
             row == [Escalate(Recurred) EXCEPT
                       !.last = now, !.seq = NextSequence,
                       !.touched = now, !.decision = Decision]
  <2>1. PICK i \in IncidentRoom(lane.key) : incidents' = Put(incidents, i, lane.key, row)
    BY <1>3 DEF ApplyEnqueued
  <2>2. row.last = now /\ row.seq = NextSequence /\ row.decision = Decision
    <3>1. Escalate(Recurred) \in IncidentRow
      BY <1>3, FreshTypes DEF ApplyEnqueued, StoreInv
    <3> QED BY <3>1 DEF IncidentRow
  <2>3. /\ DOMAIN issued' = DOMAIN issued \cup {id} /\ id \notin DOMAIN issued
        /\ issued'[id].decision = Decision /\ issued'[id].at = now
        /\ \A n \in DOMAIN issued : issued'[n] = issued[n]
    BY <1>3, Noticed
  <2>4. /\ sequence \in Nat /\ NextSequence = sequence + 1 /\ sequence' = NextSequence
        /\ \A n \in DOMAIN issued : n[2] \in Nat /\ n[2] <= sequence
    BY <1>3 DEF StoreInv, TypeOK, NextSequence, IdentitiesIssued, Table, Identities,
                ApplyEnqueued
  <2>5. id[1] = lane.key /\ id[2] = NextSequence
    OBVIOUS
  <2> HIDE DEF row
  <2>6. /\ lane.key \in DOMAIN incidents' /\ incidents'[lane.key] = row
        /\ \A k \in DOMAIN incidents' : k # lane.key =>
             k \in DOMAIN incidents /\ incidents'[k] = incidents[k]
    BY <2>1 DEF Put
  <2>7. LET r == incidents'[lane.key] n == <<lane.key, r.seq>> IN
        /\ n \in DOMAIN issued'
        /\ issued'[n].decision = r.decision /\ issued'[n].at = r.last
        /\ \A m \in DOMAIN issued' : m[1] = lane.key => m[2] <= r.seq
        /\ r.seq <= sequence'
    <3>1. <<lane.key, incidents'[lane.key].seq>> = id
      BY <2>2, <2>6
    <3>2. \A m \in DOMAIN issued' : m[2] <= NextSequence
      BY <2>3, <2>4, <2>5
    <3> QED BY <2>2, <2>3, <2>4, <2>6, <3>1, <3>2
  <2>8. ASSUME NEW k \in DOMAIN incidents', k # lane.key
        PROVE  LET r == incidents'[k] n == <<k, r.seq>> IN
               /\ n \in DOMAIN issued'
               /\ issued'[n].decision = r.decision /\ issued'[n].at = r.last
               /\ \A m \in DOMAIN issued' : m[1] = k => m[2] <= r.seq
               /\ r.seq <= sequence'
    <3> DEFINE r == incidents[k]
               n == <<k, r.seq>>
    <3>1. k \in DOMAIN incidents /\ incidents'[k] = r
      BY <2>6, <2>8
    <3>2. /\ n \in DOMAIN issued
          /\ issued[n].decision = r.decision /\ issued[n].at = r.last
          /\ \A m \in DOMAIN issued : m[1] = k => m[2] <= r.seq
          /\ r.seq <= sequence
      BY <3>1 DEF IncidentMatchesNotice
    <3>3. r.seq \in Nat
      BY <3>1 DEF StoreInv, TypeOK, Table, IncidentRow
    <3>4. \A m \in DOMAIN issued' : m[1] = k => m[2] <= r.seq
      BY <2>3, <2>5, <2>8, <3>2
    <3>5. r.seq <= sequence'
      BY <2>4, <3>2, <3>3
    <3> HIDE DEF r
    <3> QED BY <2>3, <3>1, <3>2, <3>4, <3>5
  <2> QED BY <2>7, <2>8 DEF IncidentMatchesNotice
<1> QED BY <1>1, <1>2, <1>3 DEF Recording

LEMMA SwallowStep ==
  ASSUME StoreInv, IncidentMatchesNotice, NotifyNeverSwallowed, Recording
  PROVE  NotifyNeverSwallowed'
<1> DEFINE Carried(o) == \E e \in Events, n \in DOMAIN issued' :
                           e.occ = o /\ n[1] = e.key /\ issued'[n].decision = "notify"
<1> SUFFICES ASSUME NEW o \in DOMAIN seen', seen'[o].decision = "notify"
             PROVE  Carried(o)
  BY DEF NotifyNeverSwallowed
<1>1. \A n \in DOMAIN issued : n \in DOMAIN issued' /\ issued'[n] = issued[n]
  BY Noticed DEF Recording, ApplyRecorded, ApplyQuiet, history
<1>2. CASE o # lane.occ
  <2>1. o \in DOMAIN seen /\ seen[o].decision = "notify"
    BY <1>2, Recorded
  <2> QED BY <1>1, <2>1 DEF NotifyNeverSwallowed
<1>3. CASE o = lane.occ
  <2>1. Decision = "notify" /\ lane \in Events
    BY <1>3, Recorded
  <2>2. CASE ApplyRecorded
    BY <2>1, <2>2 DEF ApplyRecorded, Actionable
  <2>3. CASE ApplyQuiet
    <3> DEFINE n == <<lane.key, incidents[lane.key].seq>>
    <3>1. n \in DOMAIN issued /\ issued[n].decision = "notify"
      BY <2>1, <2>3, QuietPrior DEF IncidentMatchesNotice
    <3>2. n[1] = lane.key
      OBVIOUS
    <3> HIDE DEF n
    <3> QED BY <1>1, <1>3, <2>1, <3>1, <3>2
  <2>4. CASE ApplyEnqueued
    <3> DEFINE n == <<lane.key, NextSequence>>
    <3>1. n \in DOMAIN issued' /\ issued'[n].decision = "notify"
      BY <2>1, <2>4, Noticed
    <3>2. n[1] = lane.key
      OBVIOUS
    <3> HIDE DEF n
    <3> QED BY <1>3, <2>1, <3>1, <3>2
  <2> QED BY <2>2, <2>3, <2>4 DEF Recording
<1> QED BY <1>2, <1>3

\* Nothing evicted of a table: the set of rows to delete was empty.
LEMMA NoneEvicted ==
  ASSUME NEW S, IsFiniteSet(S), NEW old \in SUBSET S, NEW c \in Nat,
         c + Cardinality(old) = 0
  PROVE  c = 0 /\ old = {}
<1>1. IsFiniteSet(old)
  BY FS_Subset
<1>2. Cardinality(old) \in Nat
  BY <1>1, FS_CardinalityType
<1>3. c = 0 /\ Cardinality(old) = 0
  BY <1>2
<1> QED BY <1>1, <1>3, FS_EmptySet

\* The intents that are forgotten are counted as they are evicted.
LEMMA OutboxCounted ==
  ASSUME StoreInv, EvictionAccounted, ApplyEnqueued
  PROVE  evicted'.outbox = Cardinality(DOMAIN issued' \ DOMAIN outbox')
<1> DEFINE id == <<lane.key, NextSequence>>
           gone == DOMAIN issued \ DOMAIN outbox
<1>1. PICK o \in OutboxRoom :
        /\ \E r : outbox' = Put(outbox, o, id, r)
        /\ evicted'.outbox = evicted.outbox + Cardinality(o)
  BY DEF ApplyEnqueued, Tally
<1>2. id \notin DOMAIN issued /\ DOMAIN issued' = DOMAIN issued \cup {id}
  BY Noticed
<1>3. o \subseteq DOMAIN outbox /\ DOMAIN outbox \subseteq DOMAIN issued
  BY RoomSubset DEF Terminal, StoreInv, IdentitiesIssued
<1> HIDE DEF id
<1>4. DOMAIN outbox' = (DOMAIN outbox \ o) \cup {id}
  BY <1>1 DEF Put
<1>5. DOMAIN issued' \ DOMAIN outbox' = gone \cup o /\ gone \cap o = {}
  BY <1>2, <1>3, <1>4
<1>6. IsFiniteSet(DOMAIN issued)
  BY DEF StoreInv, TypeOK, Table
<1>7. IsFiniteSet(gone) /\ IsFiniteSet(o)
  BY <1>3, <1>6, FS_Subset
<1>8. Cardinality(gone) \in Nat /\ Cardinality(o) \in Nat
  BY <1>7, FS_CardinalityType
<1>9. evicted.outbox = Cardinality(gone)
  BY DEF EvictionAccounted
<1> HIDE DEF gone
<1>10. Cardinality(gone \cap o) = 0
  BY <1>5, FS_EmptySet
<1>11. Cardinality(gone \cup o)
         = Cardinality(gone) + Cardinality(o) - Cardinality(gone \cap o)
  BY <1>7, FS_Union
<1>12. Cardinality(gone \cup o) = evicted.outbox + Cardinality(o)
  BY <1>8, <1>9, <1>10, <1>11
<1>13. Cardinality(DOMAIN issued' \ DOMAIN outbox') = Cardinality(gone \cup o)
  BY <1>5
<1> QED BY <1>1, <1>12, <1>13

LEMMA EvictionStep ==
  ASSUME StoreInv, EvictionAccounted, Recording
  PROVE  EvictionAccounted'
<1>1. /\ IsFiniteSet(DOMAIN incidents) /\ evicted.incidents \in Nat
      /\ evicted.outbox \in Nat
  BY DEF StoreInv, TypeOK, Table
<1>2. evicted'.outbox = Cardinality(DOMAIN issued' \ DOMAIN outbox')
  <2>1. CASE ApplyEnqueued
    BY <2>1, OutboxCounted
  <2>2. CASE ApplyRecorded \/ ApplyQuiet
    <3>1. evicted'.outbox = evicted.outbox + Cardinality({})
      BY <2>2 DEF ApplyRecorded, ApplyQuiet, Tally
    <3>2. evicted'.outbox = evicted.outbox
      BY <1>1, <3>1, FS_EmptySet
    <3> QED BY <2>2, <3>2 DEF ApplyRecorded, ApplyQuiet, EvictionAccounted, history
  <2> QED BY <2>1, <2>2 DEF Recording
<1>3. evicted'.incidents = 0 => \A n \in DOMAIN issued' : n[1] \in DOMAIN incidents'
  <2> SUFFICES ASSUME evicted'.incidents = 0
               PROVE  \A n \in DOMAIN issued' : n[1] \in DOMAIN incidents'
    OBVIOUS
  <2>1. CASE ApplyRecorded
    <3>1. evicted'.incidents = evicted.incidents + Cardinality({})
      BY <2>1 DEF ApplyRecorded, Tally
    <3>2. evicted.incidents = 0
      BY <1>1, <3>1, FS_EmptySet
    <3> QED BY <2>1, <3>2 DEF ApplyRecorded, EvictionAccounted, history
  <2>2. CASE ApplyQuiet \/ ApplyEnqueued
    <3>1. PICK i \in IncidentRoom(lane.key) :
            /\ \E r : incidents' = Put(incidents, i, lane.key, r)
            /\ evicted'.incidents = evicted.incidents + Cardinality(i)
      BY <2>2 DEF ApplyQuiet, ApplyEnqueued, Tally
    <3>2. i \subseteq DOMAIN incidents
      BY RoomSubset
    <3>3. evicted.incidents = 0 /\ i = {}
      BY <1>1, <3>1, <3>2, NoneEvicted
    <3>4. DOMAIN incidents' = DOMAIN incidents \cup {lane.key}
      BY <3>1, <3>3 DEF Put
    <3>5. \A n \in DOMAIN issued : n[1] \in DOMAIN incidents
      BY <3>3 DEF EvictionAccounted
    <3>6. \A n \in DOMAIN issued' : n \in DOMAIN issued \/ n[1] = lane.key
      <4>1. <<lane.key, NextSequence>>[1] = lane.key
        OBVIOUS
      <4> QED BY <2>2, <4>1, Noticed DEF ApplyQuiet, history
    <3> QED BY <3>4, <3>5, <3>6
  <2> QED BY <2>1, <2>2 DEF Recording
<1>4. evicted'.seen = 0 => \A n \in DOMAIN issued' : issued'[n].occ \in DOMAIN seen'
  <2> SUFFICES ASSUME evicted'.seen = 0, NEW n \in DOMAIN issued'
               PROVE  issued'[n].occ \in DOMAIN seen'
    OBVIOUS
  <2>1. evicted.seen = 0 /\ DOMAIN seen' = DOMAIN seen \cup {lane.occ}
    BY Recorded
  <2>2. CASE n \in DOMAIN issued /\ issued'[n] = issued[n]
    BY <2>1, <2>2 DEF EvictionAccounted
  <2>3. CASE issued'[n].occ = lane.occ
    BY <2>1, <2>3
  <2> QED BY <2>2, <2>3, Noticed DEF Recording, ApplyRecorded, ApplyQuiet, history
<1> QED BY <1>2, <1>3, <1>4 DEF EvictionAccounted

LEMMA AgreeRecording ==
  ASSUME StoreInv, TablesAgree, Recording
  PROVE  TablesAgree'
BY CapacityStep, OneIntentStep, NoticeStep, SwallowStep, EvictionStep DEF TablesAgree

\* A step that adds and removes no row and commits nothing.
LEMMA AgreeFrame ==
  ASSUME TablesAgree, UNCHANGED <<seen, incidents, evicted, sequence>>,
         DOMAIN outbox' = DOMAIN outbox, DOMAIN issued' = DOMAIN issued,
         \A n \in DOMAIN issued : /\ issued'[n].decision = issued[n].decision
                                  /\ issued'[n].occ = issued[n].occ
                                  /\ issued'[n].at = issued[n].at
  PROVE  TablesAgree'
<1>1. CapacityRespected' /\ OneIntentPerOccurrence'
  BY DEF TablesAgree, CapacityRespected, OneIntentPerOccurrence
<1>2. IncidentMatchesNotice'
  BY DEF TablesAgree, IncidentMatchesNotice
<1>3. NotifyNeverSwallowed'
  BY DEF TablesAgree, NotifyNeverSwallowed
<1>4. EvictionAccounted'
  BY DEF TablesAgree, EvictionAccounted
<1> QED BY <1>1, <1>2, <1>3, <1>4 DEF TablesAgree

\* A send adds to the tries of its identity and to nothing else.
LEMMA AgreeSend ==
  ASSUME StoreInv, TablesAgree, NEW arrives \in BOOLEAN, NEW ok \in BOOLEAN,
         SendOutcome(arrives, ok)
  PROVE  TablesAgree'
<1> DEFINE w == worker.id
<1>1. UNCHANGED <<seen, incidents, evicted, sequence, outbox>>
  BY DEF SendOutcome, durable
<1>2. issued' = [issued EXCEPT ![w] = Tried(issued[w], ok)]
  BY DEF SendOutcome
<1>3. w \in DOMAIN issued /\ issued[w] \in Issued
  BY DEF SendOutcome, StoreInv, InFlightRowHeld, IdentitiesIssued, TypeOK, Table
<1>4. /\ Tried(issued[w], ok).decision = issued[w].decision
      /\ Tried(issued[w], ok).occ = issued[w].occ
      /\ Tried(issued[w], ok).at = issued[w].at
  BY <1>3 DEF Tried, Issued
<1> HIDE DEF w
<1> QED BY <1>1, <1>2, <1>4, AgreeFrame

LEMMA AgreeStep ==
  ASSUME StoreInv, TablesAgree, [Next]_vars
  PROVE  TablesAgree'
<1>1. ASSUME NEW e \in Events, Arrive(e) PROVE TablesAgree'
  BY <1>1, AgreeFrame DEF Arrive, durable, history
<1>2. CASE ApplyDuplicate
  BY <1>2, AgreeFrame DEF ApplyDuplicate, durable, history
<1>3. CASE ApplyRecorded \/ ApplyQuiet \/ ApplyEnqueued
  BY <1>3, AgreeRecording DEF Recording
<1>4. CASE ApplyBlocked
  BY <1>4, AgreeFrame DEF ApplyBlocked, durable, history
<1>5. CASE AbandonApply
  BY <1>5, AgreeFrame DEF AbandonApply, durable, history
<1>6. CASE FailApply
  BY <1>6, AgreeFrame DEF FailApply, durable, history
<1>7. CASE AnalysisEnds
  BY <1>7, AgreeFrame DEF AnalysisEnds, durable, history
<1>8. ASSUME NEW n \in DOMAIN outbox, RecordAttempt(n) PROVE TablesAgree'
  BY <1>8, AgreeFrame DEF RecordAttempt, history
<1>9. ASSUME NEW n \in DOMAIN outbox, MarkDead(n) PROVE TablesAgree'
  BY <1>9, AgreeFrame DEF MarkDead, history
<1>10. ASSUME NEW a \in BOOLEAN, NEW ok \in BOOLEAN, SendOutcome(a, ok)
       PROVE TablesAgree'
  BY <1>10, AgreeSend
<1>11. CASE SettleAttempt
  <2>1. DOMAIN outbox' = DOMAIN outbox
    BY <1>11 DEF SettleAttempt
  <2> QED BY <1>11, <2>1, AgreeFrame DEF SettleAttempt, history
<1>12. CASE WorkerReturns
  BY <1>12, AgreeFrame DEF WorkerReturns, durable, history
<1>13. CASE CancelIntake
  BY <1>13, AgreeFrame DEF CancelIntake, durable, history
<1>14. CASE CancelProcess
  BY <1>14, AgreeFrame DEF CancelProcess, durable, history
<1>15. CASE Exit
  BY <1>15, AgreeFrame DEF Exit, durable, history
<1>16. CASE Crash
  BY <1>16, AgreeFrame DEF Crash, durable, history
<1>17. CASE Open
  BY <1>17, AgreeFrame, OpenKeepsSequence DEF Open, history, StoreInv
<1>18. CASE Tick
  BY <1>18, AgreeFrame DEF Tick, durable, history
<1>19. CASE SetClockBack
  BY <1>19, AgreeFrame DEF SetClockBack, durable, history
<1>20. CASE UNCHANGED vars
  BY <1>20, AgreeFrame DEF vars
<1> QED
  BY <1>1, <1>2, <1>3, <1>4, <1>5, <1>6, <1>7, <1>8, <1>9, <1>10, <1>11,
     <1>12, <1>13, <1>14, <1>15, <1>16, <1>17, <1>18, <1>19, <1>20 DEF Next

LEMMA AgreeInit == Init => TablesAgree
<1> SUFFICES ASSUME Init PROVE TablesAgree
  OBVIOUS
<1>1. DOMAIN Empty = {} /\ {} \ {} = {}
  BY DEF Empty
<1>2. Cardinality({}) = 0 /\ Capacity \in Nat
  BY FS_EmptySet, StoreAssumption
<1>3. CapacityRespected
  BY <1>1, <1>2 DEF Init, CapacityRespected
<1>4. EvictionAccounted
  BY <1>1, <1>2 DEF Init, EvictionAccounted
<1> QED BY <1>1, <1>3, <1>4
        DEF Init, TablesAgree, OneIntentPerOccurrence, IncidentMatchesNotice,
            NotifyNeverSwallowed

\* The four tables and the counters agree with what was notified (Store.Apply,
\* makeRoom): no table passes its capacity; while no novelty was evicted an
\* occurrence is notified once; an incident knows its last notification; no
\* decision to notify is absorbed by a cooldown; every intent that is gone was
\* counted; after any order of replays, evictions, crashes and clock changes.
THEOREM Agreement == Spec => []TablesAgree
BY Invariant, AgreeInit, AgreeStep, PTL DEF Spec

-----------------------------------------------------------------------------
\* A cooldown lies between two intents of an incident that tell the same.

Steady == rollbacks = 0 /\ evicted.incidents = 0

\* What row i keeps of an intent s that its incident made: it is not later nor of
\* a later window, in the same window not of a higher level, and when it notified
\* on that level a review after it came with a cooldown between.
Remembers(i, s) ==
  /\ s.at <= i.last /\ s.window <= i.window
  /\ s.window = i.window =>
       /\ s.level <= i.level
       /\ s.level = i.level /\ s.decision = "notify" /\ i.decision = "review"
            => i.last - s.at >= Cooldown

RowRemembers ==
  Steady => \A k \in DOMAIN incidents :
    /\ incidents[k].seq > 0
    /\ incidents[k].window <= now /\ incidents[k].last <= now
    /\ \A n \in DOMAIN issued : n[1] = k => Remembers(incidents[k], issued[n])

LevelsCapped ==
  /\ \A k \in DOMAIN incidents : incidents[k].level <= MaxEscalation
  /\ \A n \in DOMAIN issued : issued[n].level <= MaxEscalation

CooldownInv == RowRemembers /\ LevelsCapped /\ NoticesCoolDown

\* What one more occurrence makes of a row: its window stays, and then its level
\* does not fall, or it starts later.
LEMMA RowAfter ==
  ASSUME NEW i \in IncidentRow, NEW t \in Int, i.window <= t
  PROVE  LET r == Recur(i, t) e == Escalate(r) IN
         /\ e.window = r.window /\ e.window <= t /\ i.window <= e.window
         /\ e.window = i.window => r.level = i.level
         /\ e.level = IF LevelOf(r.count) > r.level THEN LevelOf(r.count) ELSE r.level
<1> DEFINE r == Recur(i, t)
           e == Escalate(r)
<1>1. r \in IncidentRow
  BY RecurType
<1>2. Window \in Nat /\ Window > 0 /\ i.window \in Int
  BY PolicyAssumption DEF IncidentRow
<1>3. \/ r.window = t /\ t - i.window >= Window
      \/ r.window = i.window /\ r.level = i.level
  BY <1>2 DEF Recur, IncidentRow
<1> HIDE DEF r
<1>4. e.window = r.window
      /\ e.level = IF LevelOf(r.count) > r.level THEN LevelOf(r.count) ELSE r.level
  BY <1>1 DEF Escalate, IncidentRow
<1> HIDE DEF e
<1>5. r.window <= t /\ i.window <= r.window /\ (r.window = i.window => r.level = i.level)
  BY <1>2, <1>3
<1> QED BY <1>4, <1>5 DEF r, e

\* An intent that tells what an earlier one told, or a review after that one
\* notified, comes a cooldown after it.
LEMMA NoticeFar ==
  ASSUME NEW i \in IncidentRow, NEW t \in Int, i.window <= t, i.last <= t,
         i.seq > 0, i.decision \in Actionable,
         NEW s \in Issued, Remembers(i, s), NEW d \in Actionable,
         MustNotify(Recur(i, t), d, t),
         s.window = Escalate(Recur(i, t)).window,
         s.level = Escalate(Recur(i, t)).level,
         s.decision = d \/ (s.decision = "notify" /\ d = "review")
  PROVE  t - s.at >= Cooldown
<1> DEFINE r == Recur(i, t)
           e == Escalate(r)
           l == LevelOf(r.count)
<1>1. /\ i.seq \in Nat /\ i.last \in Int /\ i.level \in Nat /\ i.window \in Int
      /\ s.at \in Int /\ s.level \in Nat /\ Cooldown \in Nat
  BY PolicyAssumption DEF IncidentRow, Issued
<1>2. r \in IncidentRow /\ r.seq = i.seq /\ r.last = i.last /\ r.decision = i.decision
  BY RecurType, RecurKeepsNotice
<1>3. l \in Nat /\ r.level \in Nat
  BY <1>2, LevelType DEF IncidentRow
<1>4. /\ e.window = r.window /\ i.window <= e.window
      /\ e.window = i.window => r.level = i.level
      /\ e.level = IF l > r.level THEN l ELSE r.level
  BY RowAfter
<1>5. s.window = e.window /\ s.level = e.level
  OBVIOUS
<1>6. MustNotify(r, d, t)
  OBVIOUS
<1> HIDE DEF r, e, l
<1>7. s.window = i.window /\ e.window = i.window
  BY <1>1, <1>4, <1>5 DEF Remembers, Issued, IncidentRow
<1>8. s.level <= i.level /\ r.level = i.level
  BY <1>4, <1>7 DEF Remembers
<1>9. ~(l > r.level) /\ s.level = i.level
  BY <1>1, <1>3, <1>4, <1>5, <1>8
<1>10. t - i.last >= Cooldown \/ (d = "notify" /\ i.decision # "notify")
  BY <1>1, <1>2, <1>6, <1>9 DEF MustNotify, l
<1>11. CASE t - i.last >= Cooldown
  <2>1. s.at <= i.last
    BY DEF Remembers
  <2> QED BY <1>1, <1>11, <2>1
<1>12. CASE d = "notify" /\ i.decision # "notify"
  <2>1. s.decision = "notify" /\ i.decision = "review"
    BY <1>12 DEF Actionable
  <2>2. i.last - s.at >= Cooldown
    BY <1>7, <1>9, <2>1 DEF Remembers
  <2> QED BY <1>1, <2>2
<1> QED BY <1>10, <1>11, <1>12

\* A step that touches no incident and no intent but its sends.
LEMMA CooldownFrame ==
  ASSUME StoreInv, CooldownInv, UNCHANGED incidents,
         Steady' => Steady /\ now <= now',
         now' \in Int, DOMAIN issued' = DOMAIN issued,
         \A n \in DOMAIN issued : /\ issued'[n].decision = issued[n].decision
                                  /\ issued'[n].window = issued[n].window
                                  /\ issued'[n].level = issued[n].level
                                  /\ issued'[n].at = issued[n].at
  PROVE  CooldownInv'
<1>1. now \in Int
  BY TimesInt DEF StoreInv, TypeOK
<1>2. \A k \in DOMAIN incidents : incidents[k].window \in Int /\ incidents[k].last \in Int
  BY DEF StoreInv, TypeOK, Table, IncidentRow
<1>3. LevelsCapped'
  BY DEF CooldownInv, LevelsCapped
<1>4. NoticesCoolDown'
  BY DEF CooldownInv, NoticesCoolDown, SameNotice, Steady
<1>5. ASSUME Steady', NEW k \in DOMAIN incidents
      PROVE  /\ incidents[k].seq > 0
             /\ incidents[k].window <= now' /\ incidents[k].last <= now'
             /\ \A n \in DOMAIN issued : n[1] = k => Remembers(incidents[k], issued'[n])
  <2>1. /\ incidents[k].seq > 0
        /\ incidents[k].window <= now /\ incidents[k].last <= now /\ now <= now'
        /\ \A n \in DOMAIN issued : n[1] = k => Remembers(incidents[k], issued[n])
    BY <1>5 DEF CooldownInv, RowRemembers
  <2>2. incidents[k].window <= now' /\ incidents[k].last <= now'
    BY <1>1, <1>2, <2>1
  <2>3. \A n \in DOMAIN issued : n[1] = k => Remembers(incidents[k], issued'[n])
    BY <2>1 DEF Remembers
  <2> QED BY <2>1, <2>2, <2>3
<1>6. RowRemembers'
  BY <1>5 DEF RowRemembers
<1> QED BY <1>3, <1>4, <1>6 DEF CooldownInv

\* What a steady store knows of the incident that recurs: its row, if it notified.
LEMMA SteadyPrior ==
  ASSUME StoreInv, TablesAgree, CooldownInv, Steady, Fresh
  PROVE  /\ Prior \in IncidentRow /\ now \in Int /\ lane.key \in Keys
         /\ Prior.window <= now /\ Prior.last <= now
         /\ lane.key \notin DOMAIN incidents =>
              Prior = NoIncident /\ \A n \in DOMAIN issued : n[1] # lane.key
         /\ lane.key \in DOMAIN incidents =>
              /\ Prior = incidents[lane.key] /\ Prior.seq > 0
              /\ Prior.decision \in Actionable
              /\ \A n \in DOMAIN issued : n[1] = lane.key => Remembers(Prior, issued[n])
<1>1. /\ now \in Int /\ now \in Times /\ lane \in Events
      /\ Table(incidents, Keys, IncidentRow) /\ Table(issued, Identities, Issued)
  BY TimesInt DEF StoreInv, TypeOK, Fresh
<1>2. lane.key \in Keys /\ 0 <= now
  BY <1>1, StoreAssumption DEF Times
<1>3. CASE lane.key \notin DOMAIN incidents
  <2>1. Prior = NoIncident
    BY <1>3 DEF Prior
  <2>2. \A n \in DOMAIN issued : n[1] # lane.key
    BY <1>3 DEF Steady, TablesAgree, EvictionAccounted
  <2> QED BY <1>1, <1>2, <1>3, <2>1, <2>2 DEF NoIncident, IncidentRow
<1>4. CASE lane.key \in DOMAIN incidents
  <2>1. Prior = incidents[lane.key]
    BY <1>4 DEF Prior
  <2>2. <<lane.key, Prior.seq>> \in DOMAIN issued
        /\ issued[<<lane.key, Prior.seq>>].decision = Prior.decision
    BY <1>4, <2>1 DEF TablesAgree, IncidentMatchesNotice
  <2>3. Prior.decision \in Actionable
    BY <1>1, <2>2 DEF Table, Issued
  <2>4. Prior \in IncidentRow
    BY <1>1, <1>4, <2>1 DEF Table
  <2> QED BY <1>1, <1>2, <1>4, <2>1, <2>3, <2>4 DEF CooldownInv, RowRemembers
<1> QED BY <1>3, <1>4

LEMMA LevelCap == ASSUME NEW c \in Nat PROVE LevelOf(c) <= MaxEscalation
<1>1. MaxEscalation \in Nat /\ c \div Recurrence \in Int
  BY PolicyAssumption
<1> QED BY <1>1 DEF LevelOf

\* The level of a row that counts one more occurrence is capped too.
LEMMA RowCapped ==
  ASSUME StoreInv, LevelsCapped, Fresh
  PROVE  Escalate(Recurred).level <= MaxEscalation
<1>1. Recurred \in IncidentRow /\ now \in Int /\ MaxEscalation \in Nat
  BY FreshTypes, PolicyAssumption DEF StoreInv
<1>2. Prior \in IncidentRow /\ Prior.level <= MaxEscalation
  BY <1>1 DEF Prior, NoIncident, IncidentRow, LevelsCapped, StoreInv, TypeOK, Table
<1>3. Recurred.level \in {0, Prior.level}
  BY <1>2 DEF Recurred, Recur, IncidentRow
<1>4. Recurred.level <= MaxEscalation
  BY <1>1, <1>2, <1>3
<1>5. LevelOf(Recurred.count) <= MaxEscalation
  BY <1>1, LevelCap DEF IncidentRow
<1>6. Escalate(Recurred).level \in {Recurred.level, LevelOf(Recurred.count)}
  BY <1>1 DEF Escalate, IncidentRow
<1> QED BY <1>4, <1>5, <1>6

\* While no incident is evicted every other row stays.
LEMMA SteadyRows ==
  ASSUME StoreInv, NEW i \in IncidentRoom(lane.key), NEW row,
         incidents' = Put(incidents, i, lane.key, row),
         evicted'.incidents = evicted.incidents + Cardinality(i)
  PROVE  /\ lane.key \in DOMAIN incidents' /\ incidents'[lane.key] = row
         /\ \A k \in DOMAIN incidents' : k # lane.key =>
              k \in DOMAIN incidents /\ incidents'[k] = incidents[k]
         /\ evicted'.incidents = 0 => evicted.incidents = 0
<1>1. IsFiniteSet(DOMAIN incidents) /\ evicted.incidents \in Nat
  BY DEF StoreInv, TypeOK, Table
<1>2. i \subseteq DOMAIN incidents
  BY RoomSubset
<1>3. evicted'.incidents = 0 => evicted.incidents = 0
  BY <1>1, <1>2, NoneEvicted
<1> QED BY <1>3 DEF Put

\* A recurrence inside its cooldown leaves its row what it remembers.
LEMMA CooldownQuiet ==
  ASSUME StoreInv, TablesAgree, CooldownInv, ApplyQuiet
  PROVE  CooldownInv'
<1> DEFINE e == Escalate(Recurred)
           row == [e EXCEPT !.touched = now]
<1>1. PICK i \in IncidentRoom(lane.key) :
        /\ incidents' = Put(incidents, i, lane.key, row)
        /\ evicted'.incidents = evicted.incidents + Cardinality(i)
  BY DEF ApplyQuiet, Tally
<1>2. /\ UNCHANGED issued /\ rollbacks' = rollbacks /\ now' = now /\ Fresh
      /\ ~MustNotify(Recurred, Decision, now)
  BY DEF ApplyQuiet, history, LaneDone, environment, Notifies
<1>3. e \in IncidentRow
  BY <1>2, FreshTypes DEF StoreInv
<1> HIDE DEF e
<1>4. /\ row.window = e.window /\ row.level = e.level /\ row.last = e.last
      /\ row.seq = e.seq /\ row.decision = e.decision
  BY <1>3 DEF IncidentRow
<1> HIDE DEF row
<1>5. /\ lane.key \in DOMAIN incidents' /\ incidents'[lane.key] = row
      /\ \A k \in DOMAIN incidents' : k # lane.key =>
           k \in DOMAIN incidents /\ incidents'[k] = incidents[k]
      /\ evicted'.incidents = 0 => evicted.incidents = 0
  BY <1>1, SteadyRows
<1>6. Steady' => Steady
  BY <1>2, <1>5 DEF Steady
<1>7. LevelsCapped'
  <2>1. row.level <= MaxEscalation
    BY <1>2, <1>4, RowCapped DEF CooldownInv, e
  <2> QED BY <1>2, <1>5, <2>1 DEF CooldownInv, LevelsCapped
<1>8. NoticesCoolDown'
  BY <1>2, <1>6 DEF CooldownInv, NoticesCoolDown, SameNotice, Steady
<1>9. ASSUME Steady'
      PROVE  /\ row.seq > 0 /\ row.window <= now /\ row.last <= now
             /\ \A n \in DOMAIN issued : n[1] = lane.key => Remembers(row, issued[n])
  <2>1. lane.key \in DOMAIN incidents
    BY QuietPrior
  <2>2. /\ Prior \in IncidentRow /\ now \in Int /\ Prior.window <= now
        /\ Prior.last <= now /\ Prior.seq > 0
        /\ \A n \in DOMAIN issued : n[1] = lane.key => Remembers(Prior, issued[n])
    BY <1>2, <1>6, <1>9, <2>1, SteadyPrior
  <2>3. Recurred = Recur(Prior, now) /\ Recurred \in IncidentRow
    BY <2>2, RecurType DEF Recurred
  <2>4. /\ e.window = Recurred.window /\ e.window <= now /\ Prior.window <= e.window
        /\ e.window = Prior.window => Recurred.level = Prior.level
        /\ e.level = IF LevelOf(Recurred.count) > Recurred.level
                     THEN LevelOf(Recurred.count) ELSE Recurred.level
    BY <2>2, <2>3, RowAfter DEF e
  <2>5. e.level = Recurred.level
    BY <1>2, <2>4 DEF MustNotify
  <2>6. e.seq = Prior.seq /\ e.last = Prior.last /\ e.decision = Prior.decision
    BY <2>2, RecurKeepsNotice DEF e, Recurred
  <2>7. ASSUME NEW n \in DOMAIN issued, n[1] = lane.key
        PROVE  Remembers(row, issued[n])
    <3>1. Remembers(Prior, issued[n]) /\ issued[n] \in Issued
      BY <2>2, <2>7 DEF StoreInv, TypeOK, Table
    <3>2. issued[n].window <= row.window
      BY <1>4, <2>2, <2>4, <3>1, <1>3 DEF Remembers, IncidentRow, Issued
    <3>3. issued[n].window = row.window =>
            issued[n].window = Prior.window /\ row.level = Prior.level
      BY <1>4, <2>2, <2>4, <2>5, <3>1, <1>3 DEF Remembers, IncidentRow, Issued
    <3> QED BY <1>4, <2>6, <3>1, <3>2, <3>3 DEF Remembers
  <2> QED BY <1>4, <2>2, <2>4, <2>6, <2>7
<1>10. RowRemembers'
  <2> SUFFICES ASSUME Steady', NEW k \in DOMAIN incidents'
               PROVE  /\ incidents'[k].seq > 0
                      /\ incidents'[k].window <= now' /\ incidents'[k].last <= now'
                      /\ \A n \in DOMAIN issued' :
                           n[1] = k => Remembers(incidents'[k], issued'[n])
    BY DEF RowRemembers
  <2>1. CASE k = lane.key
    BY <1>2, <1>5, <1>9, <2>1
  <2>2. CASE k # lane.key
    <3>1. k \in DOMAIN incidents /\ incidents'[k] = incidents[k]
      BY <1>5, <2>2
    <3> QED BY <1>2, <1>6, <3>1 DEF CooldownInv, RowRemembers
  <2> QED BY <2>1, <2>2
<1> QED BY <1>7, <1>8, <1>10 DEF CooldownInv

\* A new intent: a cooldown after every one that told the same.
LEMMA CooldownEnqueued ==
  ASSUME StoreInv, TablesAgree, CooldownInv, ApplyEnqueued
  PROVE  CooldownInv'
<1> DEFINE e == Escalate(Recurred)
           id == <<lane.key, NextSequence>>
           row == [e EXCEPT !.last = now, !.seq = NextSequence,
                            !.touched = now, !.decision = Decision]
<1>1. PICK i \in IncidentRoom(lane.key) :
        /\ incidents' = Put(incidents, i, lane.key, row)
        /\ evicted'.incidents = evicted.incidents + Cardinality(i)
  BY DEF ApplyEnqueued, Tally
<1>2. /\ rollbacks' = rollbacks /\ now' = now /\ Fresh /\ Decision \in Actionable
      /\ MustNotify(Recurred, Decision, now)
  BY DEF ApplyEnqueued, LaneDone, environment, Notifies
<1>3. e \in IncidentRow /\ now \in Int
  BY <1>2, FreshTypes DEF StoreInv
<1>4. /\ id \notin DOMAIN issued /\ DOMAIN issued' = DOMAIN issued \cup {id}
      /\ issued'[id] = Notification
      /\ \A n \in DOMAIN issued : issued'[n] = issued[n]
  BY Noticed
<1>5. /\ NextSequence = sequence + 1 /\ sequence \in Nat
      /\ \A n \in DOMAIN issued : n[2] \in Nat /\ n[2] <= sequence /\ issued[n] \in Issued
  BY DEF NextSequence, StoreInv, IdentitiesIssued, TypeOK, Table, Identities
<1>6. id[1] = lane.key /\ id[2] = NextSequence
  OBVIOUS
<1>7. /\ Notification.decision = Decision /\ Notification.at = now
      /\ Notification.window = e.window /\ Notification.level = e.level
  <2>1. Recurred.window = e.window
    BY <1>2, FreshTypes DEF Escalate, e, IncidentRow, StoreInv
  <2> QED BY <2>1 DEF Notification
<1> HIDE DEF e
<1>8. /\ row.window = e.window /\ row.level = e.level /\ row.last = now
      /\ row.seq = NextSequence /\ row.decision = Decision
  BY <1>3 DEF IncidentRow
<1> HIDE DEF row, id
<1>9. /\ lane.key \in DOMAIN incidents' /\ incidents'[lane.key] = row
      /\ \A k \in DOMAIN incidents' : k # lane.key =>
           k \in DOMAIN incidents /\ incidents'[k] = incidents[k]
      /\ evicted'.incidents = 0 => evicted.incidents = 0
  BY <1>1, SteadyRows
<1>10. Steady' => Steady
  BY <1>2, <1>9 DEF Steady
<1>11. LevelsCapped'
  <2>1. e.level <= MaxEscalation
    BY <1>2, RowCapped DEF CooldownInv, e
  <2> QED BY <1>4, <1>7, <1>8, <1>9, <2>1 DEF CooldownInv, LevelsCapped
<1>12. ASSUME Steady'
       PROVE  /\ e.window <= now
              /\ \A n \in DOMAIN issued : n[1] = lane.key =>
                   /\ Remembers(row, issued[n])
                   /\ /\ issued[n].window = e.window /\ issued[n].level = e.level
                      /\ issued[n].decision = Decision
                      => now - issued[n].at >= Cooldown
  <2>1. /\ Prior \in IncidentRow /\ Prior.window <= now /\ Prior.last <= now
        /\ lane.key \notin DOMAIN incidents => \A n \in DOMAIN issued : n[1] # lane.key
        /\ lane.key \in DOMAIN incidents =>
             /\ Prior.seq > 0 /\ Prior.decision \in Actionable
             /\ \A n \in DOMAIN issued : n[1] = lane.key => Remembers(Prior, issued[n])
    BY <1>2, <1>10, <1>12, SteadyPrior
  <2>2. Recurred = Recur(Prior, now)
    BY DEF Recurred
  <2>3. /\ e.window <= now /\ Prior.window <= e.window
        /\ e.window = Prior.window => Recurred.level = Prior.level
        /\ e.level = IF LevelOf(Recurred.count) > Recurred.level
                     THEN LevelOf(Recurred.count) ELSE Recurred.level
    BY <1>3, <2>1, <2>2, RowAfter DEF e
  <2>4. ASSUME NEW n \in DOMAIN issued, n[1] = lane.key
        PROVE  /\ Remembers(row, issued[n])
               /\ /\ issued[n].window = e.window /\ issued[n].level = e.level
                  /\ issued[n].decision = Decision
                  => now - issued[n].at >= Cooldown
    <3> DEFINE s == issued[n]
    <3>1. /\ s \in Issued /\ Remembers(Prior, s)
          /\ Prior.seq > 0 /\ Prior.decision \in Actionable
      BY <1>5, <2>1, <2>4
    <3> HIDE DEF s
    <3>2. ASSUME s.window = e.window, s.level = e.level,
                 s.decision = Decision \/ (s.decision = "notify" /\ Decision = "review")
          PROVE  now - s.at >= Cooldown
      BY <1>2, <1>3, <2>1, <2>2, <3>1, <3>2, NoticeFar DEF e
    <3>3. s.at <= row.last /\ s.window <= row.window
      BY <1>3, <1>8, <2>1, <2>3, <3>1 DEF Remembers, Issued, IncidentRow
    <3>4. s.window = row.window => s.level <= row.level
      <4>1. Recurred \in IncidentRow
        BY <1>3, <2>1, <2>2, RecurType
      <4>2. LevelOf(Recurred.count) \in Nat /\ Recurred.level \in Nat
        BY <4>1, LevelType DEF IncidentRow
      <4> QED BY <1>3, <1>8, <2>1, <2>3, <3>1, <4>2 DEF Remembers, Issued, IncidentRow
    <3>5. s.window = row.window /\ s.level = row.level /\ s.decision = "notify"
            /\ row.decision = "review" => row.last - s.at >= Cooldown
      BY <1>8, <3>2
    <3>6. Remembers(row, s)
      BY <3>3, <3>4, <3>5 DEF Remembers
    <3> QED BY <3>2, <3>6 DEF s
  <2> QED BY <2>3, <2>4
<1>13. Remembers(row, Notification)
  BY <1>3, <1>7, <1>8 DEF Remembers, IncidentRow
<1>14. RowRemembers'
  <2> SUFFICES ASSUME Steady', NEW k \in DOMAIN incidents'
               PROVE  /\ incidents'[k].seq > 0
                      /\ incidents'[k].window <= now' /\ incidents'[k].last <= now'
                      /\ \A n \in DOMAIN issued' :
                           n[1] = k => Remembers(incidents'[k], issued'[n])
    BY DEF RowRemembers
  <2>1. CASE k = lane.key
    <3>1. \A n \in DOMAIN issued' : n[1] = k => Remembers(row, issued'[n])
      BY <1>4, <1>12, <1>13, <2>1
    <3>2. row.seq > 0 /\ row.window <= now /\ row.last <= now
      BY <1>3, <1>5, <1>8, <1>12
    <3> QED BY <1>2, <1>9, <2>1, <3>1, <3>2
  <2>2. CASE k # lane.key
    <3>1. k \in DOMAIN incidents /\ incidents'[k] = incidents[k]
      BY <1>9, <2>2
    <3>2. \A n \in DOMAIN issued' : n[1] = k => n \in DOMAIN issued /\ issued'[n] = issued[n]
      BY <1>4, <1>6, <2>2
    <3> QED BY <1>2, <1>10, <3>1, <3>2 DEF CooldownInv, RowRemembers
  <2> QED BY <2>1, <2>2
<1>15. NoticesCoolDown'
  <2> SUFFICES ASSUME Steady', NEW n \in DOMAIN issued', NEW m \in DOMAIN issued',
                      n[2] < m[2], SameNotice(n, m)'
               PROVE  issued'[m].at - issued'[n].at >= Cooldown
    BY DEF NoticesCoolDown, Steady
  <2>1. n # id
    BY <1>4, <1>5, <1>6
  <2>2. n \in DOMAIN issued /\ issued'[n] = issued[n]
    BY <1>4, <2>1
  <2>3. CASE m = id
    BY <1>4, <1>6, <1>7, <1>12, <2>2, <2>3 DEF SameNotice
  <2>4. CASE m \in DOMAIN issued
    BY <1>4, <1>10, <2>2, <2>4 DEF CooldownInv, NoticesCoolDown, SameNotice, Steady
  <2> QED BY <1>4, <2>3, <2>4
<1> QED BY <1>11, <1>14, <1>15 DEF CooldownInv

LEMMA CooldownRecorded ==
  ASSUME StoreInv, CooldownInv, ApplyRecorded
  PROVE  CooldownInv'
<1>1. /\ evicted'.incidents = evicted.incidents + Cardinality({})
      /\ UNCHANGED <<incidents, issued, now, rollbacks>>
  BY DEF ApplyRecorded, Tally, LaneDone, environment, history
<1>2. evicted.incidents \in Nat /\ now \in Int
  BY TimesInt DEF StoreInv, TypeOK
<1>3. evicted'.incidents = evicted.incidents
  BY <1>1, <1>2, FS_EmptySet
<1>4. Steady' => Steady /\ now <= now'
  BY <1>1, <1>2, <1>3 DEF Steady
<1> QED BY <1>1, <1>2, <1>4, CooldownFrame

\* A step of the process or the worker, while the clock does not change.
LEMMA CooldownStill ==
  ASSUME StoreInv, CooldownInv,
         UNCHANGED <<incidents, evicted, rollbacks, now, issued>>
  PROVE  CooldownInv'
<1>1. now \in Int
  BY TimesInt DEF StoreInv, TypeOK
<1>2. Steady' => Steady /\ now <= now'
  BY <1>1 DEF Steady
<1> QED BY <1>1, <1>2, CooldownFrame

LEMMA CooldownSend ==
  ASSUME StoreInv, CooldownInv, NEW arrives \in BOOLEAN, NEW ok \in BOOLEAN,
         SendOutcome(arrives, ok)
  PROVE  CooldownInv'
<1> DEFINE w == worker.id
<1>1. UNCHANGED <<incidents, evicted, now, rollbacks>>
  BY DEF SendOutcome, durable, environment
<1>2. issued' = [issued EXCEPT ![w] = Tried(issued[w], ok)]
  BY DEF SendOutcome
<1>3. w \in DOMAIN issued /\ issued[w] \in Issued /\ now \in Int
  BY TimesInt
  DEF SendOutcome, StoreInv, InFlightRowHeld, IdentitiesIssued, TypeOK, Table
<1>4. /\ Tried(issued[w], ok).decision = issued[w].decision
      /\ Tried(issued[w], ok).window = issued[w].window
      /\ Tried(issued[w], ok).level = issued[w].level
      /\ Tried(issued[w], ok).at = issued[w].at
  BY <1>3 DEF Tried, Issued
<1>5. Steady' => Steady /\ now <= now'
  BY <1>1, <1>3 DEF Steady
<1> HIDE DEF w
<1> QED BY <1>1, <1>2, <1>3, <1>4, <1>5, CooldownFrame

LEMMA CooldownClock ==
  ASSUME StoreInv, CooldownInv, Tick \/ SetClockBack
  PROVE  CooldownInv'
<1>1. now \in Int /\ rollbacks \in Nat /\ UNCHANGED <<incidents, evicted, issued>>
  BY TimesInt DEF StoreInv, TypeOK, Tick, SetClockBack, durable, history
<1>2. now' \in Int
  BY <1>1, TimesInt DEF Tick, SetClockBack
<1>3. Steady' => Steady /\ now <= now'
  BY <1>1 DEF Steady, Tick, SetClockBack
<1> QED BY <1>1, <1>2, <1>3, CooldownFrame

LEMMA CooldownStep ==
  ASSUME StoreInv, TablesAgree, CooldownInv, [Next]_vars
  PROVE  CooldownInv'
<1>1. ASSUME NEW e \in Events, Arrive(e) PROVE CooldownInv'
  BY <1>1, CooldownStill DEF Arrive, durable, history
<1>2. CASE ApplyDuplicate \/ ApplyBlocked
  BY <1>2, CooldownStill
  DEF ApplyDuplicate, ApplyBlocked, LaneDone, durable, environment, history
<1>3. CASE ApplyRecorded \/ ApplyQuiet \/ ApplyEnqueued
  BY <1>3, CooldownRecorded, CooldownQuiet, CooldownEnqueued
<1>4. CASE AbandonApply \/ FailApply \/ AnalysisEnds
  BY <1>4, CooldownStill
  DEF AbandonApply, FailApply, AnalysisEnds, durable, environment, history
<1>5. ASSUME NEW n \in DOMAIN outbox, RecordAttempt(n) \/ MarkDead(n)
      PROVE  CooldownInv'
  BY <1>5, CooldownStill DEF RecordAttempt, MarkDead, environment, history
<1>6. ASSUME NEW a \in BOOLEAN, NEW ok \in BOOLEAN, SendOutcome(a, ok)
      PROVE  CooldownInv'
  BY <1>6, CooldownSend
<1>7. CASE SettleAttempt \/ WorkerReturns
  BY <1>7, CooldownStill DEF SettleAttempt, WorkerReturns, durable, environment, history
<1>8. CASE CancelIntake \/ CancelProcess \/ Exit
  BY <1>8, CooldownStill
  DEF CancelIntake, CancelProcess, Exit, durable, environment, history
<1>9. CASE Crash
  BY <1>9, CooldownStill DEF Crash, durable, history
<1>10. CASE Open
  BY <1>10, CooldownStill DEF Open, environment, history
<1>11. CASE Tick \/ SetClockBack
  BY <1>11, CooldownClock
<1>12. CASE UNCHANGED vars
  BY <1>12, CooldownStill DEF vars
<1> QED
  BY <1>1, <1>2, <1>3, <1>4, <1>5, <1>6, <1>7, <1>8, <1>9, <1>10, <1>11, <1>12
  DEF Next

LEMMA CooldownAlways == Spec => []CooldownInv
<1>1. Init => CooldownInv
  <2>1. DOMAIN Empty = {}
    BY DEF Empty
  <2> QED BY <2>1 DEF Init, CooldownInv, RowRemembers, LevelsCapped, NoticesCoolDown
<1>2. StoreInv /\ TablesAgree /\ CooldownInv /\ [Next]_vars => CooldownInv'
  BY CooldownStep
<1> QED BY Invariant, Agreement, <1>1, <1>2, PTL DEF Spec

\* For any policy, keys and occurrences: two intents of one incident that carry
\* the same decision in the same window of recurrence and on the same level are a
\* cooldown apart, however often its events recur and are judged anew, while no
\* incident was evicted and the clock not set back (Store.Apply, Policy).
THEOREM Cooldowns == Spec => []NoticesCoolDown
<1>1. CooldownInv => NoticesCoolDown
  BY DEF CooldownInv
<1> QED BY CooldownAlways, <1>1, PTL

\* The intents of incident k and its recurrence window w in the cooldown from t.
Burst(k, w, t) ==
  {n \in DOMAIN issued : /\ n[1] = k /\ issued[n].window = w
                         /\ t <= issued[n].at /\ issued[n].at < t + Cooldown}

BurstsBounded ==
  Steady => \A k \in Keys, w \in Int, t \in Int :
    IsFiniteSet(Burst(k, w, t)) /\ Cardinality(Burst(k, w, t)) <= 2 * (MaxEscalation + 1)

LEMMA BurstCount == StoreInv /\ CooldownInv => BurstsBounded
<1> SUFFICES ASSUME StoreInv, CooldownInv, Steady,
                    NEW k \in Keys, NEW w \in Int, NEW t \in Int
             PROVE  /\ IsFiniteSet(Burst(k, w, t))
                    /\ Cardinality(Burst(k, w, t)) <= 2 * (MaxEscalation + 1)
  BY DEF BurstsBounded
<1> DEFINE S == Burst(k, w, t)
           T == Actionable \X (0..MaxEscalation)
           f == [n \in S |-> <<issued[n].decision, issued[n].level>>]
<1>1. /\ MaxEscalation \in Nat /\ Cooldown \in Nat
      /\ \A n \in DOMAIN issued : n \in Keys \X Nat /\ issued[n] \in Issued
      /\ IsFiniteSet(DOMAIN issued)
  BY PolicyAssumption DEF StoreInv, TypeOK, Table, Identities
<1>2. \A n \in S : /\ n \in DOMAIN issued /\ n[1] = k /\ issued[n].window = w
                   /\ t <= issued[n].at /\ issued[n].at < t + Cooldown
  BY DEF Burst
<1>3. IsFiniteSet(Burst(k, w, t))
  BY <1>1, FS_Subset DEF Burst
<1>4. IsFiniteSet(T) /\ Cardinality(T) = 2 * (MaxEscalation + 1)
  <2>1. IsFiniteSet(Actionable) /\ Cardinality(Actionable) = 2
    <3>1. IsFiniteSet({"notify"}) /\ Cardinality({"notify"}) = 1
      BY FS_Singleton
    <3>2. Actionable = {"notify"} \cup {"review"} /\ "review" \notin {"notify"}
      BY DEF Actionable
    <3>3. /\ IsFiniteSet({"notify"} \cup {"review"})
          /\ Cardinality({"notify"} \cup {"review"}) = 1 + 1
      BY <3>1, <3>2, FS_AddElement
    <3> QED BY <3>2, <3>3
  <2>2. /\ IsFiniteSet(0..MaxEscalation)
        /\ Cardinality(0..MaxEscalation) = MaxEscalation + 1
    BY <1>1, FS_Interval
  <2> QED BY <2>1, <2>2, FS_Product
<1> HIDE DEF S
<1>5. \A n \in S : f[n] \in T
  <2> SUFFICES ASSUME NEW n \in S PROVE f[n] \in T
    OBVIOUS
  <2>1. issued[n].decision \in Actionable /\ issued[n].level \in Nat
    BY <1>1, <1>2 DEF Issued
  <2>2. issued[n].level <= MaxEscalation
    BY <1>2 DEF CooldownInv, LevelsCapped
  <2> QED BY <1>1, <2>1, <2>2
<1>6. ASSUME NEW n \in S, NEW m \in S, f[n] = f[m], n[2] < m[2] PROVE FALSE
  <2>1. issued[n].decision = issued[m].decision /\ issued[n].level = issued[m].level
    BY <1>6
  <2>2. SameNotice(n, m)
    BY <1>2, <2>1 DEF SameNotice
  <2>3. issued[m].at - issued[n].at >= Cooldown
    BY <1>2, <1>6, <2>2 DEF CooldownInv, NoticesCoolDown, Steady
  <2>4. issued[m].at \in Int /\ issued[n].at \in Int
    BY <1>1, <1>2 DEF Issued
  <2> QED BY <1>1, <1>2, <2>3, <2>4
<1>7. ASSUME NEW n \in S, NEW m \in S, f[n] = f[m] PROVE n = m
  <2>1. n \in Keys \X Nat /\ m \in Keys \X Nat /\ n[1] = m[1]
    BY <1>1, <1>2
  <2>2. n[2] = m[2]
    BY <1>6, <1>7, <2>1
  <2> QED BY <2>1, <2>2
<1>8. f \in Injection(S, T)
  BY <1>5, <1>7 DEF Injection, IsInjective
<1>9. Cardinality(S) <= Cardinality(T)
  BY <1>4, <1>8, FS_Injection
<1> QED BY <1>3, <1>4, <1>9 DEF S

\* What one incident can send is bounded for any policy: within a cooldown and one
\* window of recurrence a notification and a review on each level of escalation.
THEOREM Bursts == Spec => []BurstsBounded
BY Invariant, CooldownAlways, BurstCount, PTL
=============================================================================

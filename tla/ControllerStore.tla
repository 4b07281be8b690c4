--------------------------- MODULE ControllerStore ---------------------------
(***************************************************************************)
(* The durable controller: one SQLite store shared by the analysis lane,   *)
(* which applies judged events (Store.Apply, retried by waitForState), and *)
(* the delivery worker (Store.Deliver), which sends committed notification *)
(* intents to a sink.  Every transaction is one action; the process may    *)
(* stop between any two of them and is started again over the same rows.   *)
(* The wall clock may be set back.                                         *)
(*                                                                         *)
(* An operator whose comment begins with "Variant" is a wrong form of the  *)
(* definition that follows it, for showing that a property would catch it. *)
(***************************************************************************)
EXTENDS Policy, FiniteSets

CONSTANTS
  Keys,          \* incident identities: hash of contract, source and text
  Occurrences,   \* occurrence identities: hash of source, timestamp and id
  Events,        \* judged events a collector can hand over
  Capacity,      \* stateCapacity: rows a table may hold
  MaxAttempts,   \* attempts after which an intent is dead
  Lease,         \* seconds until an attempt recorded and not settled is due
  Backoff,       \* Backoff[n]: seconds before the attempt after the n-th
  MinTime, StartTime, MaxTime,  \* the wall clock (bound)
  MaxArrivals,   \* events handed over (bound)
  MaxStops,      \* process stops (bound)
  MaxRollbacks   \* times the wall clock is set back (bound)

ASSUME StoreAssumption ==
  /\ \A e \in Events : /\ e.occ \in Occurrences
                       /\ e.key \in Keys
                       /\ e.judged \in Judged
  /\ Capacity \in Nat \ {0}
  /\ MaxAttempts \in Nat \ {0}
  /\ Lease \in Nat
  /\ Backoff \in [1..MaxAttempts -> Nat]
  \* The clock reads seconds since 1970: a first occurrence always finds the
  \* zero row's window over.
  /\ MinTime \in Nat /\ MinTime >= Window
  /\ StartTime \in Nat /\ MaxTime \in Nat
  /\ MinTime <= StartTime /\ StartTime <= MaxTime
  /\ MaxArrivals \in Nat /\ MaxStops \in Nat /\ MaxRollbacks \in Nat

VARIABLES
  \* Durable rows: they survive a stop.
  seen,       \* occurrence -> [at, decision]
  incidents,  \* key -> incident row
  outbox,     \* identity -> [status, attempts, due, updated]
  sequence,   \* delivery_clock.next
  evicted,    \* state_counts.evicted of the three tables
  \* The process.
  process,    \* "running", "cancelled" (the process context) or "down"
  intake,     \* the intake context is not cancelled
  analysing,  \* the analysis lane has not returned
  lane,       \* the event the analysis lane is applying, or NoEvent
  blocked,    \* that event has met a full outbox of pending intents
  worker,     \* the delivery worker
  \* The environment.
  now, arrived, stops, rollbacks,
  \* History: what every identity ever committed went through.
  issued,     \* identity -> [decision, occ, at, window, level, tries, failed]
  received,   \* identities the consumer has received
  acked       \* identities whose send was reported successful

durable == <<seen, incidents, outbox, sequence, evicted>>
memory == <<process, intake, analysing, lane, blocked, worker>>
environment == <<now, arrived, stops, rollbacks>>
history == <<issued, received, acked>>
vars == <<seen, incidents, outbox, sequence, evicted,
          process, intake, analysing, lane, blocked, worker,
          now, arrived, stops, rollbacks, issued, received, acked>>

NoEvent == [occ |-> "none"]
NoId == <<>>
Worker(phase) == [phase |-> phase, id |-> NoId, attempts |-> 0, ok |-> FALSE]

Identities == Keys \X Nat
Times == MinTime..MaxTime

\* A time d seconds from now; at the bound of the clock delays are over.
Later(d) == IF now + d <= MaxTime THEN now + d ELSE MaxTime

-----------------------------------------------------------------------------
\* Rows.

Empty == [x \in {} |-> 0]

\* Table t with row r under key k and without the rows of old.
Put(t, old, k, r) ==
  [x \in (DOMAIN t \ old) \cup {k} |-> IF x = k THEN r ELSE t[x]]

\* Variant: room is made up to the capacity and not for the new row.
ExcessShort(t) == Cardinality(DOMAIN t) - Capacity

\* Rows to delete so that one more fits.
Excess(t) == Cardinality(DOMAIN t) - Capacity + 1

\* makeRoom: the sets of rows it may delete so that a row with key k fits.
\* Nothing for a key that has a row or a table below capacity, else the oldest
\* eligible rows, ties in the order of opaque keys.  No set at all is
\* ErrBackpressure.
MakeRoom(t, k, eligible, age) ==
  IF k \in DOMAIN t \/ Cardinality(DOMAIN t) < Capacity THEN {{}}
  ELSE {old \in SUBSET eligible :
          /\ Cardinality(old) = Excess(t)
          /\ \A x \in old, y \in eligible \ old : age[x] <= age[y]}

SeenRoom(o) ==
  MakeRoom(seen, o, DOMAIN seen, [x \in DOMAIN seen |-> seen[x].at])
IncidentRoom(k) ==
  MakeRoom(incidents, k, DOMAIN incidents,
           [x \in DOMAIN incidents |-> incidents[x].touched])

\* Variants: any row may go; only what was delivered may go.
AnyOutboxRow == DOMAIN outbox
DeliveredRow == {n \in DOMAIN outbox : outbox[n].status = "delivered"}

Terminal == {n \in DOMAIN outbox : outbox[n].status # "pending"}
OutboxRoom ==
  MakeRoom(outbox, NoId, Terminal,
           [x \in DOMAIN outbox |-> outbox[x].updated])

-----------------------------------------------------------------------------
Init ==
  /\ seen = Empty /\ incidents = Empty /\ outbox = Empty
  /\ sequence = 0
  /\ evicted = [seen |-> 0, incidents |-> 0, outbox |-> 0]
  /\ process = "running" /\ intake = TRUE /\ analysing = TRUE
  /\ lane = NoEvent /\ blocked = FALSE
  /\ worker = Worker("idle")
  /\ now = StartTime /\ arrived = 0 /\ stops = 0 /\ rollbacks = 0
  /\ issued = Empty /\ received = {} /\ acked = {}

-----------------------------------------------------------------------------
\* The analysis lane.  Apply is detached from the process context: an admitted
\* event is persisted after a cancellation too.

\* The engine emits a judged event; a source may replay one it sent before.
Arrive(e) ==
  /\ analysing
  /\ lane = NoEvent
  /\ arrived < MaxArrivals
  /\ lane' = e
  /\ arrived' = arrived + 1
  /\ UNCHANGED <<durable, process, intake, analysing, blocked, worker,
                 now, stops, rollbacks, history>>

Fresh == lane # NoEvent /\ lane.occ \notin DOMAIN seen

Decision == Decide(lane.judged)

Prior == IF lane.key \in DOMAIN incidents THEN incidents[lane.key]
                                          ELSE NoIncident

\* The incident with this occurrence counted, before any notification.
Recurred == Recur(Prior, now)

Notifies == Decision \in Actionable /\ MustNotify(Recurred, Decision, now)

\* Variant: the incident row numbers its own notifications.
NextOfIncident == Prior.seq + 1

\* The durable sequence survives the eviction of the incident.
NextSequence == sequence + 1

\* Variant: the occurrence is recorded by a transaction that comes later.
RecordSeenLater(old) == seen' = seen

RecordSeen(old) ==
  seen' = Put(seen, old, lane.occ, [at |-> now, decision |-> Decision])

\* Variant: evictions for one row are counted as one, for none too.
TallyOnce(s, i, o) ==
  [seen |-> evicted.seen + 1, incidents |-> evicted.incidents + 1,
   outbox |-> evicted.outbox + 1]

\* The eviction counters after the rows s, i and o are gone.
Tally(s, i, o) ==
  [seen |-> evicted.seen + Cardinality(s),
   incidents |-> evicted.incidents + Cardinality(i),
   outbox |-> evicted.outbox + Cardinality(o)]

\* The intent, with the row its incident has then.
Notification ==
  [decision |-> Decision, occ |-> lane.occ, at |-> now,
   window |-> Recurred.window, level |-> Escalate(Recurred).level,
   tries |-> 0, failed |-> 0]

LaneDone ==
  /\ lane' = NoEvent
  /\ blocked' = FALSE
  /\ UNCHANGED <<process, intake, analysing, worker, environment>>

ApplyDuplicate ==
  /\ lane # NoEvent
  /\ lane.occ \in DOMAIN seen
  /\ LaneDone
  /\ UNCHANGED <<durable, history>>

\* A decision that is only recorded.
ApplyRecorded ==
  /\ Fresh
  /\ Decision \notin Actionable
  /\ \E s \in SeenRoom(lane.occ) :
       /\ RecordSeen(s)
       /\ evicted' = Tally(s, {}, {})
  /\ LaneDone
  /\ UNCHANGED <<incidents, outbox, sequence, history>>

\* A recurrence inside its cooldown.
ApplyQuiet ==
  /\ Fresh
  /\ Decision \in Actionable
  /\ ~Notifies
  /\ \E s \in SeenRoom(lane.occ), i \in IncidentRoom(lane.key) :
       /\ RecordSeen(s)
       /\ incidents' = Put(incidents, i, lane.key,
                           [Escalate(Recurred) EXCEPT !.touched = now])
       /\ evicted' = Tally(s, i, {})
  /\ LaneDone
  /\ UNCHANGED <<outbox, sequence, history>>

\* Novelty, incident counters and the notification intent in one transaction.
ApplyEnqueued ==
  LET id == <<lane.key, NextSequence>> IN
  /\ Fresh
  /\ Notifies
  /\ \E s \in SeenRoom(lane.occ), i \in IncidentRoom(lane.key),
        o \in OutboxRoom :
       /\ RecordSeen(s)
       /\ incidents' = Put(incidents, i, lane.key,
            [Escalate(Recurred) EXCEPT !.last = now, !.seq = NextSequence,
                                       !.touched = now, !.decision = Decision])
       /\ outbox' = Put(outbox, o, id,
            [status |-> "pending", attempts |-> 0, due |-> now,
             updated |-> now])
       /\ evicted' = Tally(s, i, o)
  /\ sequence' = NextSequence
  /\ issued' = Put(issued, {}, id, Notification)
  /\ LaneDone
  /\ UNCHANGED <<received, acked>>

\* Every outbox slot is pending: the transaction rolls back, the event is kept
\* and tried again, and the loss of pace is reported once.
ApplyBlocked ==
  /\ Fresh
  /\ Notifies
  /\ OutboxRoom = {}
  /\ blocked' = TRUE
  /\ UNCHANGED <<durable, process, intake, analysing, lane, worker,
                 environment, history>>

Apply == \/ ApplyDuplicate \/ ApplyRecorded \/ ApplyQuiet
         \/ ApplyEnqueued \/ ApplyBlocked

\* waitForState stops waiting for room only when intake is over.
GivesUp == blocked /\ ~intake

AbandonApply ==
  /\ lane # NoEvent
  /\ GivesUp
  /\ lane' = NoEvent
  /\ blocked' = FALSE
  /\ analysing' = FALSE
  /\ UNCHANGED <<durable, process, intake, worker, environment, history>>

\* Apply fails, or takes more than five seconds: it rolls back, intake is
\* cancelled and the lane returns the error.
FailApply ==
  /\ lane # NoEvent
  /\ stops < MaxStops
  /\ lane' = NoEvent
  /\ blocked' = FALSE
  /\ intake' = FALSE
  /\ analysing' = FALSE
  /\ UNCHANGED <<durable, process, worker, environment, history>>

\* Intake is over, the queue is drained.
AnalysisEnds ==
  /\ analysing /\ ~intake
  /\ lane = NoEvent
  /\ analysing' = FALSE
  /\ UNCHANGED <<durable, process, intake, lane, blocked, worker, environment,
                 history>>

-----------------------------------------------------------------------------
\* The delivery worker.

\* Variant: a row without an attempt left is not fetched.
DueRetriable == {n \in DOMAIN outbox : /\ outbox[n].status = "pending"
                                      /\ outbox[n].due <= now
                                      /\ outbox[n].attempts < MaxAttempts}

Due == {n \in DOMAIN outbox : outbox[n].status = "pending"
                              /\ outbox[n].due <= now}

\* Store.Pending looks at one due row, the longest due, ties by identity.
Fetchable(n) == n \in Due /\ \A m \in Due : outbox[n].due <= outbox[m].due

Exhausted(n) == outbox[n].attempts = MaxAttempts

NextAttempt(n) == outbox[n].attempts + 1

\* The attempt is recorded before anything is sent.
RecordAttempt(n) ==
  /\ process = "running" /\ worker.phase = "idle"
  /\ Fetchable(n)
  /\ ~Exhausted(n)
  /\ outbox' = [outbox EXCEPT ![n] =
       [@ EXCEPT !.attempts = NextAttempt(n), !.due = Later(Lease),
                 !.updated = now]]
  /\ worker' = [phase |-> "send", id |-> n, attempts |-> NextAttempt(n),
                ok |-> FALSE]
  /\ UNCHANGED <<seen, incidents, sequence, evicted, process, intake, analysing,
                 lane, blocked, environment, history>>

\* A row whose last attempt was never settled.
MarkDead(n) ==
  /\ process = "running" /\ worker.phase = "idle"
  /\ Fetchable(n)
  /\ Exhausted(n)
  /\ outbox' = [outbox EXCEPT ![n] = [@ EXCEPT !.status = "dead",
                                               !.updated = now]]
  /\ UNCHANGED <<seen, incidents, sequence, evicted, memory, environment,
                 history>>

\* What an identity went through, with one send more.
Tried(i, ok) == IF ok THEN [i EXCEPT !.tries = @ + 1]
                ELSE [i EXCEPT !.tries = @ + 1, !.failed = @ + 1]

\* Sink.Send: the consumer receives the notification or not, and the call
\* succeeds only when it did.
SendOutcome(arrives, ok) ==
  /\ worker.phase = "send"
  /\ ok => arrives
  /\ worker' = [worker EXCEPT !.phase = "ack", !.ok = ok]
  /\ issued' = [issued EXCEPT ![worker.id] = Tried(@, ok)]
  /\ received' = received \cup (IF arrives THEN {worker.id} ELSE {})
  /\ acked' = acked \cup (IF ok THEN {worker.id} ELSE {})
  /\ UNCHANGED <<durable, process, intake, analysing, lane, blocked,
                 environment>>

\* Variant: an attempt that is not to be repeated counts as delivered.
OutcomeOptimistic(attempts, ok) ==
  IF ok \/ attempts >= MaxAttempts THEN "delivered" ELSE "pending"

Outcome(attempts, ok) ==
  IF ok THEN "delivered"
  ELSE IF attempts >= MaxAttempts THEN "dead" ELSE "pending"

\* Store.Delivered: the update names the attempt it settles.
SettleAttempt ==
  LET n == worker.id IN
  /\ worker.phase = "ack"
  /\ outbox' = IF n \in DOMAIN outbox /\ outbox[n].attempts = worker.attempts
               THEN [outbox EXCEPT ![n] =
                       [@ EXCEPT !.status = Outcome(worker.attempts, worker.ok),
                                 !.due = Later(Backoff[worker.attempts]),
                                 !.updated = now]]
               ELSE outbox
  /\ worker' = Worker("idle")
  /\ UNCHANGED <<seen, incidents, sequence, evicted, process, intake, analysing,
                 lane, blocked, environment, history>>

\* A cancellation seen before the next fetch, or after a send whose attempt
\* then stays unsettled.
WorkerReturns ==
  /\ process = "cancelled"
  /\ worker.phase \in {"idle", "ack"}
  /\ worker' = Worker("returned")
  /\ UNCHANGED <<durable, process, intake, analysing, lane, blocked,
                 environment, history>>

-----------------------------------------------------------------------------
\* The process and the clock.

\* A duration or event limit, or a provider budget that is spent.
CancelIntake ==
  /\ process = "running" /\ intake
  /\ intake' = FALSE
  /\ UNCHANGED <<durable, process, analysing, lane, blocked, worker,
                 environment, history>>

\* A signal, a fatal error of a worker, or the end of analysis.
CancelProcess ==
  /\ process = "running"
  /\ stops < MaxStops
  /\ process' = "cancelled"
  /\ intake' = FALSE
  /\ stops' = stops + 1
  /\ UNCHANGED <<durable, analysing, lane, blocked, worker,
                 now, arrived, rollbacks, history>>

Exit ==
  /\ process = "cancelled"
  /\ ~analysing /\ worker.phase = "returned"
  /\ process' = "down"
  /\ UNCHANGED <<durable, intake, analysing, lane, blocked, worker,
                 environment, history>>

\* Whatever is in memory is gone, committed rows stay.
Crash ==
  /\ process # "down"
  /\ stops < MaxStops
  /\ process' = "down"
  /\ intake' = FALSE /\ analysing' = FALSE
  /\ lane' = NoEvent /\ blocked' = FALSE
  /\ worker' = Worker("returned")
  /\ stops' = stops + 1
  /\ UNCHANGED <<durable, now, arrived, rollbacks, history>>

\* Open: installCapacity brings the sequence up to every incident's.
Open ==
  /\ process = "down"
  /\ process' = "running" /\ intake' = TRUE /\ analysing' = TRUE
  /\ worker' = Worker("idle")
  /\ sequence' = CHOOSE s \in {sequence} \cup
                              {incidents[k].seq : k \in DOMAIN incidents} :
                   /\ s >= sequence
                   /\ \A k \in DOMAIN incidents : s >= incidents[k].seq
  /\ UNCHANGED <<seen, incidents, outbox, evicted, lane, blocked, environment,
                 history>>

Tick ==
  /\ now < MaxTime
  /\ now' = now + 1
  /\ UNCHANGED <<durable, memory, arrived, stops, rollbacks, history>>

SetClockBack ==
  /\ rollbacks < MaxRollbacks
  /\ \E t \in Times : t < now /\ now' = t
  /\ rollbacks' = rollbacks + 1
  /\ UNCHANGED <<durable, memory, arrived, stops, history>>

Deliver ==
  \/ \E n \in DOMAIN outbox : RecordAttempt(n)
  \/ \E n \in DOMAIN outbox : MarkDead(n)
  \/ \E arrives, ok \in BOOLEAN : SendOutcome(arrives, ok)
  \/ SettleAttempt

Next ==
  \/ \E e \in Events : Arrive(e)
  \/ ApplyDuplicate
  \/ ApplyRecorded
  \/ ApplyQuiet
  \/ ApplyEnqueued
  \/ ApplyBlocked
  \/ AbandonApply
  \/ FailApply
  \/ AnalysisEnds
  \/ \E n \in DOMAIN outbox : RecordAttempt(n)
  \/ \E n \in DOMAIN outbox : MarkDead(n)
  \/ \E arrives, ok \in BOOLEAN : SendOutcome(arrives, ok)
  \/ SettleAttempt
  \/ WorkerReturns
  \/ CancelIntake
  \/ CancelProcess
  \/ Exit
  \/ Crash
  \/ Open
  \/ Tick
  \/ SetClockBack

Spec == Init /\ [][Next]_vars

\* Deliver polls every second while the process runs, the lane retries every
\* 100 ms and watches the intake context, a cancelled process joins its
\* workers, a stopped one is restarted by its supervisor, and time passes.
\* Nothing makes a sink succeed.
Fairness ==
  /\ WF_vars(Apply)
  /\ WF_vars(AbandonApply)
  /\ WF_vars(AnalysisEnds)
  /\ WF_vars(Deliver)
  /\ WF_vars(WorkerReturns)
  /\ WF_vars(Exit)
  /\ WF_vars(Open)
  /\ WF_vars(Tick)

FairSpec == Spec /\ Fairness

-----------------------------------------------------------------------------
\* Properties.

SeenRow == [at : Int, decision : Decisions]
IncidentRow == [window : Int, count : Nat, level : Nat, last : Int, seq : Nat,
                touched : Int, decision : Actionable \cup {"none"}]
Statuses == {"pending", "delivered", "dead"}
OutboxRow == [status : Statuses, attempts : 0..MaxAttempts, due : Int,
              updated : Int]
Issued == [decision : Actionable, occ : Occurrences, at : Int, window : Int,
           level : Nat, tries : Nat, failed : Nat]

Table(t, K, R) ==
  /\ DOMAIN t \subseteq K /\ IsFiniteSet(DOMAIN t)
  /\ t = [x \in DOMAIN t |-> t[x]]
  /\ \A x \in DOMAIN t : t[x] \in R

\* Every row, the two lanes and the counters have the shape the code gives them.
TypeOK ==
  /\ Table(seen, Occurrences, SeenRow)
  /\ Table(incidents, Keys, IncidentRow)
  /\ Table(outbox, Identities, OutboxRow)
  /\ Table(issued, Identities, Issued)
  /\ received \subseteq DOMAIN issued /\ acked \subseteq DOMAIN issued
  /\ sequence \in Nat
  /\ evicted \in [seen : Nat, incidents : Nat, outbox : Nat]
  /\ process \in {"running", "cancelled", "down"}
  /\ intake \in BOOLEAN /\ analysing \in BOOLEAN /\ blocked \in BOOLEAN
  /\ lane \in Events \cup {NoEvent}
  /\ worker \in [phase : {"idle", "returned", "send", "ack"},
                 id : Identities \cup {NoId},
                 attempts : 0..MaxAttempts, ok : BOOLEAN]
  /\ now \in Times
  /\ arrived \in 0..MaxArrivals
  /\ stops \in 0..MaxStops
  /\ rollbacks \in 0..MaxRollbacks

\* docs/controller.md:14, "Tables are capped": no sequence of transactions, by
\* any order of lane and worker, leaves a table above its capacity.
CapacityRespected ==
  \A t \in {DOMAIN seen, DOMAIN incidents, DOMAIN outbox} :
    Cardinality(t) <= Capacity

\* While a notification is between its recorded attempt and the settlement of
\* that attempt, transactions of the other lane neither evict its row nor
\* change it: Delivered always finds the row it names.
InFlightRowHeld ==
  worker.phase \in {"send", "ack"} =>
    /\ worker.id \in DOMAIN outbox
    /\ outbox[worker.id].status = "pending"
    /\ outbox[worker.id].attempts = worker.attempts

\* Sends are bounded by the attempts recorded ahead of them, whatever crashes
\* in between, a dead row has used them all, and without any stop the two
\* differ by the attempt in flight only.
AttemptsAccounted ==
  /\ \A n \in DOMAIN issued : issued[n].failed <= issued[n].tries
                              /\ issued[n].tries <= MaxAttempts
  /\ \A n \in DOMAIN outbox :
       /\ n \in DOMAIN issued
       /\ outbox[n].status = "dead" => outbox[n].attempts = MaxAttempts
       /\ issued[n].tries <= outbox[n].attempts
       /\ stops = 0 =>
            outbox[n].attempts = issued[n].tries
              + (IF worker.phase = "send" /\ worker.id = n THEN 1 ELSE 0)

\* An occurrence handed over twice, or applied again after an error or a
\* restart, is notified once as long as its novelty has not been evicted.
OneIntentPerOccurrence ==
  evicted.seen = 0 =>
    \A n, m \in DOMAIN issued : issued[n].occ = issued[m].occ => n = m

\* An incident refers to the intent it notified last, which carries the same
\* decision and time, and no incident is ahead of the durable sequence.
IncidentMatchesNotice ==
  \A k \in DOMAIN incidents :
    LET i == incidents[k] n == <<k, i.seq>> IN
    /\ n \in DOMAIN issued
    /\ issued[n].decision = i.decision /\ issued[n].at = i.last
    /\ \A m \in DOMAIN issued : m[1] = k => m[2] <= i.seq
    /\ i.seq <= sequence

\* A decision to notify is never absorbed by the cooldown of a review: some
\* intent of that incident carried it.
NotifyNeverSwallowed ==
  \A o \in DOMAIN seen : seen[o].decision = "notify" =>
    \E e \in Events, n \in DOMAIN issued :
      e.occ = o /\ n[1] = e.key /\ issued[n].decision = "notify"

\* docs/controller.md:26, "durable cumulative counters": evictions counted in
\* the transaction that makes them account for every intent and every
\* notified incident no longer in its table, over crashes too.
EvictionAccounted ==
  /\ evicted.outbox = Cardinality(DOMAIN issued \ DOMAIN outbox)
  /\ evicted.incidents = 0 => \A n \in DOMAIN issued : n[1] \in DOMAIN incidents
  /\ evicted.seen = 0 => \A n \in DOMAIN issued : issued[n].occ \in DOMAIN seen

\* After any order of replays, rejudgments, evictions and crashes the four
\* tables and the counters of evictions still agree with what was notified.
TablesAgree ==
  /\ CapacityRespected
  /\ OneIntentPerOccurrence
  /\ IncidentMatchesNotice
  /\ NotifyNeverSwallowed
  /\ EvictionAccounted

\* Two intents of one incident that tell the same: the decision, the window of
\* recurrence and the level of escalation.
SameNotice(n, m) ==
  /\ n[1] = m[1]
  /\ issued[n].decision = issued[m].decision
  /\ issued[n].window = issued[m].window
  /\ issued[n].level = issued[m].level

\* docs/controller.md:12, "Cooldown is 300 seconds": what a source repeats and a
\* judge rejudges makes two intents that tell the same only a cooldown apart, so
\* that turning from review to notify and back sends nothing more, as long as
\* the incident was not evicted and the clock not set back.
NoticesCoolDown ==
  rollbacks = 0 /\ evicted.incidents = 0 =>
    \A n, m \in DOMAIN issued :
      n[2] < m[2] /\ SameNotice(n, m) => issued[m].at - issued[n].at >= Cooldown

IntentStatus ==
  [n \in DOMAIN issued |->
     IF n \in DOMAIN outbox THEN outbox[n].status ELSE "forgotten"]

\* The outbox and its worker keep what the controller promises about every
\* notification (docs/controller.md:16, "Delivery is at least once").
Promised ==
  INSTANCE NotificationContract WITH intent <- IntentStatus

KeepsContract == Promised!Contract

\* The inductive invariant behind the contract.  Rows belong to identities that
\* were issued and no identity is ahead of the durable sequence, so the next
\* one is new; a settlement in hand tells the truth about its send and has an
\* attempt recorded for it, and nothing is in hand while the process is down.
IdentitiesIssued ==
  /\ DOMAIN outbox \subseteq DOMAIN issued
  /\ \A n \in DOMAIN issued : n[2] <= sequence
  /\ \A k \in DOMAIN incidents : incidents[k].seq <= sequence

SendsTruthful ==
  /\ acked \subseteq received
  /\ worker.phase \in {"send", "ack"} => worker.attempts > 0
  /\ worker.phase = "ack" /\ worker.ok => worker.id \in acked
  /\ worker.phase = "send" => issued[worker.id].tries < worker.attempts
  /\ process = "down" => worker.phase = "returned"

StoreInv ==
  /\ TypeOK
  /\ IdentitiesIssued
  /\ InFlightRowHeld
  /\ AttemptsAccounted
  /\ SendsTruthful

\* Every intent is delivered or dead in the end, over crashes, cancellations,
\* unsettled attempts and a clock set back.
EveryIntentSettles ==
  \A n \in Keys \X (1..MaxArrivals) :
    (n \in DOMAIN outbox \ Terminal) ~> (n \notin DOMAIN outbox \ Terminal)

\* An event held back by a full outbox is applied or given up: the lane and
\* the worker never wait on each other for ever.
BackpressureResolves == blocked ~> lane = NoEvent

=============================================================================

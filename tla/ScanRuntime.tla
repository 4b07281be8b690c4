------------------------------- MODULE ScanRuntime -------------------------------
(***************************************************************************)
(* One scan: streams of events are admitted into a bounded queue, one lane *)
(* takes batches from it, has them judged and reports them, and the main   *)
(* goroutine ends collection, lane and background workers in order and     *)
(* chooses the exit.                                                       *)
(*                                                                         *)
(* Three contexts nest: the one of the command, which the operator         *)
(* cancels, that of the process, which a failing worker cancels, and that  *)
(* of the intake, which ends collection only.                              *)
(*                                                                         *)
(* An operator whose comment begins with "Variant" is a wrong form of the  *)
(* definition that follows it, for showing that a property would catch it. *)
(***************************************************************************)
EXTENDS Integers, Sequences, FiniteSets

CONSTANTS
  StreamCount,  \* files, or log streams
  Events,       \* events of each stream (bound)
  QueueSize,    \* --queue-size
  BatchSize,    \* analysis.Config.BatchSize
  Kinds,        \* kinds of scan: files, snapshot, follow, controller
  Caps,         \* values of --max-events; 0 is no cap
  Holds         \* values of --hold-after-stop

ASSUME ScanAssumption ==
  /\ StreamCount \in Nat \ {0} /\ Events \in Nat
  /\ QueueSize \in Nat \ {0} /\ BatchSize \in Nat \ {0}
  /\ Kinds \subseteq {"files", "snapshot", "follow", "controller"} /\ Kinds # {}
  /\ Caps \subseteq Nat /\ Caps # {} /\ Holds \subseteq BOOLEAN /\ Holds # {}

Streams == 1..StreamCount

VARIABLES
  kind, cap, hold,  \* the configuration
  cancelled,        \* contexts cancelled as such
  position,         \* stream -> events it has handed over
  reading,          \* streams that have not ended
  admission,        \* the stream that waits for room inside admit, or 0
  failed,           \* the first error of a stream
  collection,       \* what the collector returned, or "running"
  queue,            \* the channel between collection and lane
  lane,             \* where Engine.Run is
  batch,            \* its events that are not reported yet
  draining,         \* it saw its context cancelled
  analysisErr,
  gaps,             \* reasons reported as coverage gaps
  unknown,          \* an event has no judgment, or was cut short or parsed in doubt
  evidenceErr,      \* writing evidence failed
  spent,            \* the provider's budget is used up
  budgetStopped,
  workers,          \* delivery and servers: running, returned
  background,       \* a worker's error is in the channel
  main, result,
  \* History.
  admitted,         \* events in the order of their admission
  reported,         \* events in the order of their report
  workerFailed

config == <<kind, cap, hold>>
intake == <<position, reading, admission, failed>>
analysis == <<lane, batch, draining, analysisErr, reported>>
outcome == <<unknown, evidenceErr, spent, budgetStopped>>
service == <<workers, background, workerFailed>>
ending == <<main, result>>
vars == <<kind, cap, hold, cancelled, position, reading, admission, failed,
          collection, queue, lane, batch, draining, analysisErr, gaps, unknown,
          evidenceErr, spent, budgetStopped, workers, background, main, result,
          admitted, reported, workerFailed>>

Live == kind \in {"follow", "controller"}
Durable == kind = "controller"
ProcessDone == cancelled \cap {"command", "process"} # {}
IntakeDone == cancelled # {}
Closed == collection # "running"

Init ==
  /\ kind \in Kinds /\ cap \in Caps /\ hold \in Holds
  /\ cancelled = {}
  /\ position = [s \in Streams |-> 0] /\ reading = Streams /\ admission = 0
  /\ failed = "none" /\ collection = "running"
  /\ queue = <<>> /\ lane = "take" /\ batch = <<>> /\ draining = FALSE
  /\ analysisErr = "none" /\ gaps = {}
  /\ unknown = FALSE /\ evidenceErr = FALSE /\ spent = FALSE /\ budgetStopped = FALSE
  /\ workers = IF Durable THEN "running" ELSE "returned"
  /\ background = FALSE /\ workerFailed = FALSE
  /\ main = "analysing" /\ result = "none"
  /\ admitted = <<>> /\ reported = <<>>

-----------------------------------------------------------------------------
\* Collection.

Event(s) == <<s, position[s] + 1>>

\* Stream s has an event to hand over.  Files are read one after another.
Offers(s) ==
  /\ s \in reading /\ position[s] < Events
  /\ kind = "files" => \A t \in reading : s <= t

Ends(s, err) ==
  /\ reading' = reading \ {s}
  /\ failed' = IF failed = "none" THEN err ELSE failed

\* Variant: the cap is passed by one.
CapPassed == cap > 0 /\ Len(admitted) > cap

CapReached == cap > 0 /\ Len(admitted) >= cap

\* The Nth admission stops the intake.
Enqueue(s) ==
  /\ Len(queue) < QueueSize
  /\ queue' = Append(queue, Event(s)) /\ admitted' = Append(admitted, Event(s))
  /\ position' = [position EXCEPT ![s] = position[s] + 1]
  /\ admission' = 0
  /\ IF cap > 0 /\ Len(admitted) + 1 = cap
     THEN /\ gaps' = gaps \cup {"event_limit"}
          /\ cancelled' = cancelled \cup {"intake"}
          /\ Ends(s, "cap")
     ELSE UNCHANGED <<gaps, cancelled, reading, failed>>

\* A live stream still hands over what it has read when the intake is over:
\* its finalizer is refused by the cap only.
Enters(s) == /\ Offers(s) /\ admission = 0
             /\ ~CapReached
             /\ Live \/ ~IntakeDone

Admit(s) ==
  /\ Enters(s) /\ Enqueue(s)
  /\ UNCHANGED <<config, collection, analysis, outcome, service, ending>>

\* A live stream does not wait for room.
Drop(s) ==
  /\ Enters(s) /\ Live /\ Len(queue) >= QueueSize
  /\ gaps' = gaps \cup {"queue_drop"}
  /\ position' = [position EXCEPT ![s] = position[s] + 1]
  /\ UNCHANGED <<config, cancelled, reading, admission, failed, collection,
                 queue, analysis, outcome, service, ending, admitted>>

\* The others wait, and keep the admission lock.
WaitForRoom(s) ==
  /\ Enters(s) /\ ~Live /\ Len(queue) >= QueueSize
  /\ admission' = s
  /\ UNCHANGED <<config, cancelled, position, reading, failed, collection, queue,
                 analysis, gaps, outcome, service, ending, admitted>>

RoomMade(s) ==
  /\ admission = s /\ Enqueue(s)
  /\ UNCHANGED <<config, collection, analysis, outcome, service, ending>>

AbandonAdmission(s) ==
  /\ admission = s /\ IntakeDone
  /\ admission' = 0 /\ Ends(s, "cancelled")
  /\ UNCHANGED <<config, cancelled, position, collection, queue, analysis, gaps,
                 outcome, service, ending, admitted>>

\* A stream is refused, or notices that the intake or its siblings have ended.
Stop(s) ==
  /\ s \in reading /\ admission # s
  /\ IntakeDone \/ (kind = "snapshot" /\ failed # "none")
  /\ \E err \in {"cancelled"} \cup (IF CapReached THEN {"cap"} ELSE {}) :
       Ends(s, err)
  /\ UNCHANGED <<config, cancelled, position, admission, collection, queue,
                 analysis, gaps, outcome, service, ending, admitted>>

\* The end of the input; of a live stream, because its pod is gone.
Exhausted(s) ==
  /\ s \in reading /\ admission # s /\ position[s] = Events
  /\ kind = "files" => \A t \in reading : s <= t
  /\ reading' = reading \ {s}
  /\ UNCHANGED <<config, cancelled, position, admission, failed, collection,
                 queue, analysis, gaps, outcome, service, ending, admitted>>

\* Variant: a source that cannot be read to its end is left without a word.
SourceFailsQuietly(s) ==
  /\ ~Live /\ s \in reading /\ admission # s
  /\ kind = "files" => \A t \in reading : s <= t
  /\ reading' = reading \ {s}
  /\ UNCHANGED <<config, cancelled, position, admission, failed, collection,
                 queue, analysis, gaps, outcome, service, ending, admitted>>

SourceFails(s) ==
  /\ ~Live /\ s \in reading /\ admission # s
  /\ kind = "files" => \A t \in reading : s <= t
  /\ reading' = reading \ {s} /\ gaps' = gaps \cup {"input_incomplete"}
  /\ UNCHANGED <<config, cancelled, position, admission, failed, collection,
                 queue, analysis, outcome, service, ending, admitted>>

\* The first discovery of pods fails.
DiscoveryFails ==
  /\ kind # "files" /\ reading = Streams /\ admission = 0 /\ ~Closed
  /\ \A s \in Streams : position[s] = 0
  /\ reading' = {} /\ failed' = "failed"
  /\ UNCHANGED <<config, cancelled, position, admission, collection, queue,
                 analysis, gaps, outcome, service, ending, admitted>>

\* The collector returns and closes the channel.  Following ends only with the
\* intake.
CollectionEnds ==
  /\ ~Closed /\ reading = {}
  /\ Live => IntakeDone \/ failed = "failed"
  /\ collection' \in IF failed = "failed" THEN {"failed"}
                     ELSE IF Live THEN {"cancelled"}
                     ELSE IF kind = "snapshot" /\ failed = "none" /\ IntakeDone
                     THEN {"none", "cancelled"} ELSE {failed}
  /\ UNCHANGED <<config, cancelled, intake, queue, analysis, gaps, outcome,
                 service, ending, admitted>>

-----------------------------------------------------------------------------
\* The lane.

Pop == queue' = Tail(queue) /\ batch' = Append(batch, Head(queue))

\* Variant: Run returns and the intake goes on.
EndedAlone(err) ==
  lane' = "ended" /\ analysisErr' = err /\ UNCHANGED cancelled

\* Run returns err, and the main goroutine ends the intake.
Ended(err) ==
  /\ lane' = "ended" /\ analysisErr' = err
  /\ cancelled' = cancelled \cup {"intake"}

Take ==
  /\ lane = "take" /\ queue # <<>> /\ Pop
  /\ lane' = "fill"
  /\ UNCHANGED <<config, cancelled, intake, collection, draining, analysisErr,
                 gaps, outcome, service, ending, admitted, reported>>

\* Variant: a batch that the end of the input cuts short is not judged.
FillLast ==
  /\ lane = "fill" /\ Len(batch) < BatchSize
  /\ IF queue # <<>> THEN Pop /\ UNCHANGED lane
     ELSE Closed /\ batch' = <<>> /\ lane' = "take" /\ UNCHANGED queue
  /\ UNCHANGED <<config, cancelled, intake, collection, draining, analysisErr,
                 gaps, outcome, service, ending, admitted, reported>>

Fill ==
  /\ lane = "fill" /\ queue # <<>> /\ Len(batch) < BatchSize /\ Pop
  /\ UNCHANGED <<config, cancelled, intake, collection, lane, draining,
                 analysisErr, gaps, outcome, service, ending, admitted, reported>>

\* The batch is full, the timer fires, the input or the process ends; then it
\* is judged, which may leave events unknown and use up the budget.
Judge ==
  /\ lane = "fill" /\ lane' = "emit"
  /\ unknown' \in {unknown, TRUE} /\ spent' \in {spent, TRUE}
  /\ UNCHANGED <<config, cancelled, intake, collection, queue, batch, draining,
                 analysisErr, gaps, evidenceErr, budgetStopped, service, ending,
                 admitted, reported>>

InputEnds ==
  /\ lane = "take" /\ queue = <<>> /\ Closed /\ Ended("none")
  /\ UNCHANGED <<config, intake, collection, queue, batch, draining, gaps,
                 outcome, service, ending, admitted, reported>>

\* Variant: what is queued is left there.
CancelAnalysisNow ==
  /\ lane = "take" /\ ProcessDone /\ Ended("cancelled")
  /\ UNCHANGED <<config, intake, collection, queue, batch, draining, gaps,
                 outcome, service, ending, admitted, reported>>

\* A cancelled process drains the channel, and reports the rest as unknown.
CancelAnalysis ==
  /\ lane = "take" /\ ProcessDone
  /\ lane' = "drain" /\ draining' = TRUE
  /\ UNCHANGED <<config, cancelled, intake, collection, queue, batch,
                 analysisErr, gaps, outcome, service, ending, admitted, reported>>

Drain ==
  /\ lane = "drain" /\ queue # <<>> /\ Pop
  /\ lane' = "emit" /\ unknown' = TRUE
  /\ UNCHANGED <<config, cancelled, intake, collection, draining, analysisErr,
                 gaps, evidenceErr, spent, budgetStopped, service, ending,
                 admitted, reported>>

DrainEnds ==
  /\ lane = "drain" /\ queue = <<>> /\ Closed /\ Ended("cancelled")
  /\ UNCHANGED <<config, intake, collection, queue, batch, draining, gaps,
                 outcome, service, ending, admitted, reported>>

\* The transaction of the next event finds no room for its intent.
OutboxFull ==
  /\ lane = "emit" /\ Durable
  /\ lane' = "wait" /\ gaps' = gaps \cup {"outbox_backpressure"}
  /\ UNCHANGED <<config, cancelled, intake, collection, queue, batch, draining,
                 analysisErr, outcome, service, ending, admitted, reported>>

\* Variant: the wait for room ends with room.
AbandonWaitNever == FALSE

\* The wait for room ends with the intake.
AbandonWait ==
  /\ lane = "wait" /\ IntakeDone /\ Ended("cancelled")
  /\ UNCHANGED <<config, intake, collection, queue, batch, draining, gaps,
                 outcome, service, ending, admitted, reported>>

StateFails ==
  /\ lane \in {"emit", "wait"} /\ Durable /\ Ended("failed")
  /\ UNCHANGED <<config, intake, collection, queue, batch, draining, gaps,
                 outcome, service, ending, admitted, reported>>

\* The event is persisted and reported; then its evidence is written, and what
\* the provider used is compared with its limits.
Report(written) ==
  /\ ~written => ~evidenceErr /\ ~ProcessDone
  /\ reported' = Append(reported, Head(batch)) /\ batch' = Tail(batch)
  /\ lane' = IF Len(batch) > 1 THEN "emit" ELSE IF draining THEN "drain" ELSE "take"
  /\ evidenceErr' = (evidenceErr \/ ~written)
  /\ budgetStopped' = (budgetStopped \/ (Live /\ spent))
  /\ gaps' = IF budgetStopped' THEN gaps \cup {"provider_budget_stopped"} ELSE gaps
  /\ cancelled' = IF ~written \/ budgetStopped' # budgetStopped
                  THEN cancelled \cup {"intake"} ELSE cancelled
  /\ UNCHANGED <<config, intake, collection, queue, draining, analysisErr,
                 unknown, spent, service, ending, admitted>>

Emit(written) == lane = "emit" /\ Report(written)
Retry(written) == lane = "wait" /\ Report(written)

-----------------------------------------------------------------------------
\* The main goroutine after the lane has ended.

Interrupted == collection # "none" \/ analysisErr # "none"

MayHold ==
  /\ Durable /\ hold /\ ~budgetStopped /\ ~evidenceErr
  /\ analysisErr \in {"none", "cancelled"}
  /\ collection \in {"none", "cancelled", "cap"}

CancelProcess == cancelled' = cancelled \cup {"process"}

\* Variant: the main goroutine does not wait for the collector.
CollectedAlone ==
  /\ main = "analysing" /\ lane = "ended"
  /\ gaps' = IF Interrupted THEN gaps \cup {"collection_interrupted"} ELSE gaps
  /\ main' = "join" /\ CancelProcess
  /\ UNCHANGED <<config, intake, collection, queue, analysis, outcome, service,
                 result, admitted>>

Collected ==
  /\ main = "analysing" /\ lane = "ended" /\ Closed
  /\ gaps' = IF Interrupted THEN gaps \cup {"collection_interrupted"} ELSE gaps
  /\ IF MayHold THEN main' = "hold" /\ UNCHANGED cancelled
                ELSE main' = "join" /\ CancelProcess
  /\ UNCHANGED <<config, intake, collection, queue, analysis, outcome, service,
                 result, admitted>>

HoldInterrupted ==
  /\ main = "hold" /\ ProcessDone
  /\ main' = "join" /\ CancelProcess
  /\ UNCHANGED <<config, intake, collection, queue, analysis, gaps, outcome,
                 service, result, admitted>>

HoldFails ==
  /\ main = "hold" /\ background
  /\ main' = "join" /\ CancelProcess
  /\ analysisErr' = "failed" /\ background' = FALSE
  /\ UNCHANGED <<config, intake, collection, queue, lane, batch, draining,
                 reported, gaps, outcome, workers, workerFailed, result, admitted>>

\* The workers have joined; their error is the analysis's if it has none.
Join ==
  /\ main = "join" /\ workers = "returned"
  /\ main' = "exit" /\ background' = FALSE
  /\ analysisErr' = IF background /\ analysisErr = "none" THEN "failed"
                                                          ELSE analysisErr
  /\ UNCHANGED <<config, cancelled, intake, collection, queue, lane, batch,
                 draining, reported, gaps, outcome, workers, workerFailed,
                 result, admitted>>

\* A scan of Kubernetes is never complete.
Complete == kind = "files" /\ gaps = {} /\ ~unknown

\* What the command returns when the report could be written.
Outcome ==
  IF budgetStopped THEN "budget"
  ELSE IF "command" \in cancelled THEN "interrupted"
  ELSE IF evidenceErr THEN "evidence"
  ELSE IF analysisErr = "failed" THEN "analysis"
  ELSE IF collection = "failed" THEN "collection"
  ELSE IF ~Complete THEN "partial"
  ELSE "ok"

Exit ==
  /\ main = "exit" /\ main' = "done"
  /\ result' \in {Outcome, "report"}
  /\ UNCHANGED <<config, cancelled, intake, collection, queue, analysis, gaps,
                 outcome, service, admitted>>

-----------------------------------------------------------------------------
\* Workers and the operator.

WorkerFails ==
  /\ workers = "running"
  /\ workers' = "returned" /\ background' = TRUE /\ workerFailed' = TRUE
  /\ CancelProcess
  /\ UNCHANGED <<config, intake, collection, queue, analysis, gaps, outcome,
                 ending, admitted>>

WorkersReturn ==
  /\ workers = "running" /\ ProcessDone
  /\ workers' = "returned"
  /\ UNCHANGED <<config, cancelled, intake, collection, queue, analysis, gaps,
                 outcome, background, workerFailed, ending, admitted>>

Interrupt ==
  /\ "command" \notin cancelled /\ main # "done"
  /\ cancelled' = cancelled \cup {"command"}
  /\ UNCHANGED <<config, intake, collection, queue, analysis, gaps, outcome,
                 service, ending, admitted>>

\* --duration is over.
Deadline ==
  /\ kind # "files" /\ ~IntakeDone
  /\ cancelled' = cancelled \cup {"intake"}
  /\ UNCHANGED <<config, intake, collection, queue, analysis, gaps, outcome,
                 service, ending, admitted>>

Collect(s) ==
  \/ Admit(s) \/ Drop(s) \/ WaitForRoom(s) \/ RoomMade(s)
  \/ AbandonAdmission(s) \/ Stop(s) \/ Exhausted(s)

Analyse ==
  \/ Take \/ Fill \/ Judge \/ InputEnds \/ CancelAnalysis \/ Drain \/ DrainEnds
  \/ \E written \in BOOLEAN : Emit(written)
  \/ AbandonWait

Finish == Collected \/ HoldInterrupted \/ HoldFails \/ Join \/ Exit

Next ==
  \/ \E s \in Streams : Collect(s) \/ SourceFails(s)
  \/ DiscoveryFails \/ CollectionEnds
  \/ Analyse \/ OutboxFull \/ StateFails
  \/ \E written \in BOOLEAN : Retry(written)
  \/ Finish
  \/ WorkerFails \/ WorkersReturn \/ Interrupt \/ Deadline

Spec == Init /\ [][Next]_vars

\* Every goroutine goes on; a wait for outbox room need not be granted, and
\* nothing stops a scan that is not told to stop.
FairSpec ==
  /\ Spec
  /\ \A s \in Streams : WF_vars(Collect(s))
  /\ WF_vars(CollectionEnds)
  /\ WF_vars(Analyse) /\ WF_vars(Finish) /\ WF_vars(WorkersReturn)

-----------------------------------------------------------------------------
\* Properties.

TypeOK ==
  /\ cancelled \subseteq {"command", "process", "intake"}
  /\ reading \subseteq Streams /\ admission \in {0} \cup reading
  /\ position \in [Streams -> 0..Events]
  /\ Len(queue) <= QueueSize /\ Len(batch) <= BatchSize
  /\ failed \in {"none", "cap", "cancelled", "failed"}
  /\ collection \in {"running", "none", "cap", "cancelled", "failed"}
  /\ lane \in {"take", "fill", "emit", "wait", "drain", "ended"}
  /\ lane \in {"fill", "emit", "wait"} => batch # <<>>
  /\ analysisErr \in {"none", "cancelled", "failed"}
  /\ main \in {"analysing", "hold", "join", "exit", "done"}

\* Between admission and report no event is lost, repeated or overtaken, however
\* the scan is stopped.
NoneLostInside == admitted = reported \o batch \o queue

\* docs/usage.md:15: a cap stops collection after exactly that many admissions,
\* over all streams and the events they finalize, and drops do not count.
CapExact ==
  cap > 0 => /\ Len(admitted) <= cap
             /\ ("event_limit" \in gaps) <=> (Len(admitted) = cap)

Places == Streams \X (Nat \ {0})

\* The lane's place in its batch, and what has ended before it may end.
LaneOK ==
  /\ lane \in {"take", "drain"} => batch = <<>>
  /\ lane \in {"fill", "emit", "wait"} => batch # <<>>
  /\ lane = "wait" => "outbox_backpressure" \in gaps
  /\ lane = "ended" /\ analysisErr # "failed" /\ "outbox_backpressure" \notin gaps
       => Closed /\ queue = <<>> /\ batch = <<>>
  /\ Closed => reading = {}

FlowOK ==
  /\ position \in [Streams -> Nat] /\ reading \subseteq Streams
  /\ admission \in {0} \cup reading
  /\ queue \in Seq(Places) /\ batch \in Seq(Places)
  /\ admitted \in Seq(Places) /\ reported \in Seq(Places)
  /\ NoneLostInside

\* While a stream waits for room inside admit, the cap is not reached.
CapOK == cap \in Nat /\ CapExact /\ (admission # 0 => ~CapReached)

\* The inductive invariant of admission and lane.
ScanInv == FlowOK /\ CapOK /\ LaneOK

\* docs/usage.md:23, a stop "drains queued events": without a store every admitted
\* event is reported before the lane ends, and with one, unless persisting failed
\* or waited for room in vain.
AdmittedReported ==
  lane = "ended" /\ analysisErr # "failed" /\ "outbox_backpressure" \notin gaps
    => reported = admitted

\* docs/usage.md:25, "0 complete within the requested file window": every event
\* of every stream was then reported, with a judgment.
OkMeansAll ==
  result = "ok" => /\ Len(reported) = StreamCount * Events
                   /\ ~unknown

\* What is promised of a scan, with all streams and goroutines hidden.
Promised ==
  INSTANCE ScanContract WITH Input <- Streams \X (1..Events), given <- admitted,
                             told <- reported, answer <- result

\* However streams, lane, workers and stops interleave, an event is admitted once
\* and reported in its turn, nothing is admitted or reported any more once the
\* exit code is chosen (run.go:486-502), and that is 0 only for the whole input.
KeepsContract == Promised!Contract

\* docs/controller.md:20: a hold keeps a normal stop only, with all that was
\* admitted reported unless it waited for outbox room, and never a spent budget.
HoldIsOrderly ==
  main = "hold" => /\ ~budgetStopped /\ ~evidenceErr /\ collection # "failed"
                   /\ reading = {}
                   /\ reported = admitted \/ "outbox_backpressure" \in gaps

\* Whatever ends the intake or the lane, the scan comes to its hold or its end,
\* and an interrupted one, held or not, to its end (docs/usage.md:23): neither a
\* full queue nor a full outbox keeps it.
StopEnds ==
  IntakeDone \/ lane = "ended"
    ~> main = "done" \/ (main = "hold" /\ ~ProcessDone)

\* docs/usage.md:25, "1 configuration/runtime failure; 2 partial coverage": a
\* scan that a worker's failure stopped does not end as partial.
WorkerFailureTold ==
  main = "done" /\ workerFailed => result \notin {"ok", "partial"}
=============================================================================

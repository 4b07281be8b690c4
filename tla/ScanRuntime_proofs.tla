-------------------------- MODULE ScanRuntime_proofs --------------------------
(***************************************************************************)
(* Proofs about ScanRuntime, for any number of streams and events and any  *)
(* sizes: what is admitted stays in order until it is reported, the cap is *)
(* exact, and the lane ends with everything reported unless persisting     *)
(* failed or gave up.                                                      *)
(***************************************************************************)
EXTENDS ScanRuntime, SequenceTheorems, FiniteSetTheorems, TLAPS

USE ScanAssumption

-----------------------------------------------------------------------------
\* Sequences.

\* The first of b may become the last of a.
LEMMA MoveHead ==
  ASSUME NEW S, NEW a \in Seq(S), NEW b \in Seq(S), b # <<>>
  PROVE  Append(a, Head(b)) \o Tail(b) = a \o b
<1>1. Head(b) \in S /\ Tail(b) \in Seq(S) /\ b = <<Head(b)>> \o Tail(b)
  BY HeadTailProperties, ConcatProperties
<1>2. Append(a, Head(b)) = a \o <<Head(b)>>
  BY <1>1, AppendIsConcat
<1>3. (a \o <<Head(b)>>) \o Tail(b) = a \o (<<Head(b)>> \o Tail(b))
  BY <1>1, ConcatAssociative
<1> QED BY <1>1, <1>2, <1>3

-----------------------------------------------------------------------------
\* Lemmas about the parts of the invariant.

\* The cap stays exact when nothing is admitted.
LEMMA CapKept ==
  ASSUME CapOK, cap' = cap, admitted' = admitted,
         admission' \in {0, admission},
         ("event_limit" \in gaps') <=> ("event_limit" \in gaps)
  PROVE  CapOK'
<1>1. CapExact'
  BY DEF CapOK, CapExact
<1>2. admission' # 0 => ~CapReached'
  BY DEF CapOK, CapReached
<1> QED BY <1>1, <1>2 DEF CapOK

\* Admission by a stream that is not refused.
LEMMA EnqueueStep ==
  ASSUME ScanInv, NEW s \in reading, ~CapReached, Enqueue(s),
         UNCHANGED <<config, collection, analysis>>
  PROVE  ScanInv'
<1> USE DEF ScanInv, config, analysis
<1>1. /\ s \in Streams /\ position[s] \in Nat /\ Event(s) \in Places
      /\ reading' \subseteq reading
  BY DEF FlowOK, Event, Places, Enqueue, Ends
<1>2. /\ queue' = Append(queue, Event(s)) /\ admitted' = Append(admitted, Event(s))
      /\ position' = [position EXCEPT ![s] = position[s] + 1] /\ admission' = 0
  BY DEF Enqueue
<1>3. FlowOK'
  <2>1. position' \in [Streams -> Nat] /\ reading' \subseteq Streams /\ admission' = 0
    BY <1>1, <1>2 DEF FlowOK
  <2>2. queue' \in Seq(Places) /\ admitted' \in Seq(Places)
    BY <1>1, <1>2, AppendProperties DEF FlowOK
  <2>3. NoneLostInside'
    <3>1. /\ reported \in Seq(Places) /\ batch \in Seq(Places) /\ queue \in Seq(Places)
          /\ Event(s) \in Places /\ admitted = reported \o batch \o queue
      BY <1>1 DEF FlowOK, NoneLostInside
    <3>2. reported \o batch \in Seq(Places) /\ <<Event(s)>> \in Seq(Places)
      BY ONLY <3>1, ConcatProperties
    <3>3. admitted' = admitted \o <<Event(s)>> /\ queue' = queue \o <<Event(s)>>
      BY <1>1, <1>2, AppendIsConcat DEF FlowOK
    <3>4. (reported \o batch \o queue) \o <<Event(s)>>
            = reported \o batch \o (queue \o <<Event(s)>>)
      BY ONLY <3>1, <3>2, ConcatAssociative
    <3>5. reported' = reported /\ batch' = batch
      OBVIOUS
    <3> QED BY ONLY <3>1, <3>3, <3>4, <3>5, Zenon DEF NoneLostInside
  <2> QED BY <2>1, <2>2, <2>3 DEF FlowOK
<1>4. CapOK'
  <2>1. Len(admitted) \in Nat /\ Len(admitted') = Len(admitted) + 1
    BY <1>1, <1>2, AppendProperties, LenProperties DEF FlowOK
  <2>2. cap \in Nat /\ (cap > 0 => Len(admitted) < cap)
    BY <2>1 DEF CapOK, CapReached
  <2>3. cap > 0 => "event_limit" \notin gaps
    BY <2>1, <2>2 DEF CapOK, CapExact
  <2>4. cap > 0 => (("event_limit" \in gaps') <=> (Len(admitted) + 1 = cap))
    <3>1. CASE cap > 0 /\ Len(admitted) + 1 = cap
      BY <3>1 DEF Enqueue
    <3>2. CASE ~(cap > 0 /\ Len(admitted) + 1 = cap)
      BY <3>2, <2>3 DEF Enqueue
    <3> QED BY <3>1, <3>2
  <2> QED BY <1>2, <2>1, <2>2, <2>4 DEF CapOK, CapExact
<1>5. LaneOK'
  <2>1. ~Closed /\ gaps \subseteq gaps'
    BY DEF LaneOK, Enqueue
  <2> QED BY <2>1 DEF LaneOK, Closed
<1> QED BY <1>3, <1>4, <1>5

\* Steps of collection that admit nothing.
LEMMA IntakeStep ==
  ASSUME ScanInv,
         UNCHANGED <<config, queue, analysis, admitted>>,
         position' \in [Streams -> Nat],
         reading' \subseteq reading, admission' \in {0} \cup reading',
         admission' = 0 \/ admission' = admission \/ ~CapReached,
         gaps \subseteq gaps',
         "event_limit" \in gaps' => "event_limit" \in gaps,
         collection' = collection \/ (~Closed /\ reading' = {})
  PROVE  ScanInv'
<1> USE DEF ScanInv, config, analysis
<1>1. FlowOK'
  BY DEF FlowOK, NoneLostInside
<1>2. CapOK'
  <2>1. CapExact'
    BY DEF CapOK, CapExact
  <2>2. admission' # 0 => ~CapReached'
    BY DEF CapOK, CapReached
  <2> QED BY <2>1, <2>2 DEF CapOK
<1>3. LaneOK'
  BY DEF LaneOK, Closed
<1> QED BY <1>1, <1>2, <1>3

\* Steps of the lane that take an event from the queue.
LEMMA PopStep ==
  ASSUME ScanInv, queue # <<>>, Pop, lane \in {"take", "fill", "drain"},
         lane' \in {"fill", "emit"},
         UNCHANGED <<config, intake, collection, analysisErr, gaps, admitted, reported>>
  PROVE  ScanInv'
<1> USE DEF ScanInv, config, intake
<1>1. FlowOK'
  <2>1. /\ Head(queue) \in Places /\ queue' \in Seq(Places) /\ batch' \in Seq(Places)
    BY HeadTailProperties, AppendProperties DEF FlowOK, Pop
  <2>2. batch' \o queue' = batch \o queue
    BY MoveHead DEF FlowOK, Pop
  <2>3. reported \o batch \o queue = reported \o (batch \o queue)
    <3>1. reported \in Seq(Places) /\ batch \in Seq(Places) /\ queue \in Seq(Places)
      BY DEF FlowOK
    <3> QED BY ONLY <3>1, ConcatAssociative
  <2>4. reported \o batch' \o queue' = reported \o (batch' \o queue')
    <3>1. reported \in Seq(Places)
      BY DEF FlowOK
    <3> QED BY ONLY <2>1, <3>1, ConcatAssociative
  <2>5. reported \o (batch' \o queue') = reported \o (batch \o queue)
    BY <2>2, Zenon
  <2>6. NoneLostInside'
    <3>1. admitted = reported \o batch \o queue
      BY DEF FlowOK, NoneLostInside
    <3>2. admitted' = admitted /\ reported' = reported
      OBVIOUS
    <3> QED BY ONLY <2>3, <2>4, <2>5, <3>1, <3>2, Zenon DEF NoneLostInside
  <2> QED BY <2>1, <2>6 DEF FlowOK
<1>2. CapOK'
  BY CapKept
<1>3. LaneOK'
  <2>1. batch' # <<>>
    BY AppendProperties, HeadTailProperties DEF FlowOK, Pop
  <2> QED BY <2>1 DEF LaneOK, Closed
<1> QED BY <1>1, <1>2, <1>3

\* Every other step keeps the streams and the events where they are.
LEMMA StillStep ==
  ASSUME ScanInv,
         UNCHANGED <<config, intake, collection, queue, batch, admitted, reported>>,
         gaps \subseteq gaps', "event_limit" \in gaps' => "event_limit" \in gaps,
         LaneOK'
  PROVE  ScanInv'
<1> USE DEF ScanInv, config, intake
<1>1. FlowOK'
  BY DEF FlowOK, NoneLostInside
<1>2. CapOK'
  BY CapKept
<1> QED BY <1>1, <1>2

\* A report takes the first event of the batch.
LEMMA ReportStep ==
  ASSUME ScanInv, NEW written, Report(written), lane \in {"emit", "wait"}
  PROVE  ScanInv'
<1> USE DEF ScanInv, config, intake, outcome, service, ending
<1>1. /\ batch # <<>> /\ batch \in Seq(Places) /\ reported \in Seq(Places)
      /\ reported' = Append(reported, Head(batch)) /\ batch' = Tail(batch)
      /\ queue' = queue /\ admitted' = admitted
  BY DEF Report, FlowOK, LaneOK
<1>2. /\ Head(batch) \in Places /\ batch' \in Seq(Places) /\ reported' \in Seq(Places)
  BY <1>1, HeadTailProperties, AppendProperties
<1>3. reported' \o batch' = reported \o batch
  BY <1>1, MoveHead
<1>4. /\ gaps \subseteq gaps' /\ ("event_limit" \in gaps' => "event_limit" \in gaps)
  BY DEF Report
<1>5. FlowOK'
  <2>1. admitted = reported \o batch \o queue
    BY DEF FlowOK, NoneLostInside
  <2>2. NoneLostInside'
    BY ONLY <1>1, <1>3, <2>1, Zenon DEF NoneLostInside
  <2>3. position' = position /\ reading' = reading /\ admission' = admission
    BY DEF Report
  <2> QED BY <1>1, <1>2, <2>2, <2>3 DEF FlowOK
<1>6. CapOK'
  <2>1. cap' = cap /\ admitted' = admitted /\ admission' = admission
    BY DEF Report
  <2> QED BY <1>4, <2>1, CapKept
<1>7. LaneOK'
  <2>1. Len(batch) > 1 => batch' # <<>>
    BY <1>1, HeadTailProperties, LenProperties
  <2>2. ~(Len(batch) > 1) => batch' = <<>>
    BY <1>1, <1>2, HeadTailProperties, LenProperties, EmptySeq
  <2>3. /\ lane' \in {"emit", "drain", "take"}
        /\ lane' = "emit" <=> Len(batch) > 1
        /\ Closed' = Closed /\ reading' = reading
    BY DEF Report, Closed
  <2> QED BY <2>1, <2>2, <2>3 DEF LaneOK
<1> QED BY <1>5, <1>6, <1>7

-----------------------------------------------------------------------------
\* The invariant.

LEMMA ScanInvInit == Init => ScanInv
<1> SUFFICES ASSUME Init PROVE ScanInv
  OBVIOUS
<1>1. NoneLostInside
  BY ConcatEmptySeq, EmptySeq DEF Init, NoneLostInside
<1>2. FlowOK
  BY <1>1, EmptySeq DEF Init, FlowOK
<1>3. CapOK
  BY EmptySeq DEF Init, CapOK, CapExact
<1>4. LaneOK
  BY DEF Init, LaneOK, Closed
<1> QED BY <1>2, <1>3, <1>4 DEF ScanInv

\* The steps of one stream.
LEMMA CollectKeeps ==
  ASSUME ScanInv, NEW s \in Streams, Collect(s) \/ SourceFails(s)
  PROVE  ScanInv'
<1> USE DEF config, intake
<1>0. /\ position \in [Streams -> Nat] /\ s # 0 /\ admission \in {0} \cup reading
      /\ admission # 0 => ~CapReached
  BY DEF ScanInv, FlowOK, CapOK, Streams
<1>1. CASE Admit(s)
  BY <1>1, EnqueueStep DEF Admit, Enters, Offers
<1>2. CASE RoomMade(s)
  BY <1>0, <1>2, EnqueueStep DEF RoomMade
<1>3. CASE Drop(s)
  BY <1>0, <1>3, IntakeStep DEF Drop, Enters
<1>4. CASE WaitForRoom(s)
  BY <1>0, <1>4, IntakeStep DEF WaitForRoom, Enters, Offers
<1>5. CASE AbandonAdmission(s)
  BY <1>0, <1>5, IntakeStep DEF AbandonAdmission, Ends
<1>6. CASE Stop(s)
  BY <1>0, <1>6, IntakeStep DEF Stop, Ends
<1>7. CASE Exhausted(s)
  BY <1>0, <1>7, IntakeStep DEF Exhausted
<1>8. CASE SourceFails(s)
  BY <1>0, <1>8, IntakeStep DEF SourceFails
<1> QED BY <1>1, <1>2, <1>3, <1>4, <1>5, <1>6, <1>7, <1>8 DEF Collect

\* The steps of the lane.
LEMMA AnalyseKeeps ==
  ASSUME ScanInv,
         \/ Analyse \/ OutboxFull \/ StateFails
         \/ \E written \in BOOLEAN : Retry(written)
  PROVE  ScanInv'
<1>0. LaneOK
  BY DEF ScanInv
<1>1. CASE Take
  BY <1>1, PopStep DEF Take, outcome
<1>2. CASE Fill
  BY <1>2, PopStep DEF Fill, outcome
<1>3. CASE Drain
  BY <1>3, PopStep DEF Drain
<1>4. CASE Judge
  <2>1. LaneOK'
    BY <1>0, <1>4 DEF Judge, LaneOK, Closed, intake
  <2> QED BY <1>4, <2>1, StillStep DEF Judge
<1>5. CASE InputEnds
  <2>1. LaneOK'
    BY <1>0, <1>5 DEF InputEnds, Ended, LaneOK, Closed, intake
  <2> QED BY <1>5, <2>1, StillStep DEF InputEnds
<1>6. CASE CancelAnalysis
  <2>1. LaneOK'
    BY <1>0, <1>6 DEF CancelAnalysis, LaneOK, Closed, intake
  <2> QED BY <1>6, <2>1, StillStep DEF CancelAnalysis
<1>7. CASE DrainEnds
  <2>1. LaneOK'
    BY <1>0, <1>7 DEF DrainEnds, Ended, LaneOK, Closed, intake
  <2> QED BY <1>7, <2>1, StillStep DEF DrainEnds
<1>8. CASE AbandonWait
  <2>1. LaneOK'
    BY <1>0, <1>8 DEF AbandonWait, Ended, LaneOK, Closed, intake
  <2> QED BY <1>8, <2>1, StillStep DEF AbandonWait
<1>9. CASE OutboxFull
  <2>1. LaneOK'
    BY <1>0, <1>9 DEF OutboxFull, LaneOK, Closed, intake
  <2> QED BY <1>9, <2>1, StillStep DEF OutboxFull
<1>10. CASE StateFails
  <2>1. LaneOK'
    BY <1>0, <1>10 DEF StateFails, Ended, LaneOK, Closed, intake
  <2> QED BY <1>10, <2>1, StillStep DEF StateFails
<1>11. CASE \E written \in BOOLEAN : Emit(written) \/ Retry(written)
  BY <1>11, ReportStep DEF Emit, Retry
<1> QED BY <1>1, <1>2, <1>3, <1>4, <1>5, <1>6, <1>7, <1>8, <1>9, <1>10, <1>11
        DEF Analyse

\* The steps of the main goroutine, the workers and the operator.
LEMMA FinishKeeps ==
  ASSUME ScanInv,
         Finish \/ WorkerFails \/ WorkersReturn \/ Interrupt \/ Deadline
  PROVE  ScanInv'
<1>0. LaneOK
  BY DEF ScanInv
<1> USE DEF intake, analysis, outcome, service, ending
<1>1. CASE Collected
  <2>1. LaneOK'
    BY <1>0, <1>1 DEF Collected, LaneOK, Closed
  <2> QED BY <1>1, <2>1, StillStep DEF Collected
<1>2. CASE HoldInterrupted
  <2>1. LaneOK'
    BY <1>0, <1>2 DEF HoldInterrupted, LaneOK, Closed
  <2> QED BY <1>2, <2>1, StillStep DEF HoldInterrupted
<1>3. CASE HoldFails
  <2>1. LaneOK'
    BY <1>0, <1>3 DEF HoldFails, LaneOK, Closed
  <2> QED BY <1>3, <2>1, StillStep DEF HoldFails
<1>4. CASE Join
  <2>1. LaneOK'
    BY <1>0, <1>4 DEF Join, LaneOK, Closed
  <2> QED BY <1>4, <2>1, StillStep DEF Join
<1>5. CASE Exit
  <2>1. LaneOK'
    BY <1>0, <1>5 DEF Exit, LaneOK, Closed
  <2> QED BY <1>5, <2>1, StillStep DEF Exit
<1>6. CASE WorkerFails
  <2>1. LaneOK'
    BY <1>0, <1>6 DEF WorkerFails, LaneOK, Closed
  <2> QED BY <1>6, <2>1, StillStep DEF WorkerFails
<1>7. CASE WorkersReturn
  <2>1. LaneOK'
    BY <1>0, <1>7 DEF WorkersReturn, LaneOK, Closed
  <2> QED BY <1>7, <2>1, StillStep DEF WorkersReturn
<1>8. CASE Interrupt
  <2>1. LaneOK'
    BY <1>0, <1>8 DEF Interrupt, LaneOK, Closed
  <2> QED BY <1>8, <2>1, StillStep DEF Interrupt
<1>9. CASE Deadline
  <2>1. LaneOK'
    BY <1>0, <1>9 DEF Deadline, LaneOK, Closed
  <2> QED BY <1>9, <2>1, StillStep DEF Deadline
<1> QED BY <1>1, <1>2, <1>3, <1>4, <1>5, <1>6, <1>7, <1>8, <1>9 DEF Finish

\* Every step keeps the invariant.
LEMMA ScanInvStep == ScanInv /\ [Next]_vars => ScanInv'
<1> SUFFICES ASSUME ScanInv, [Next]_vars PROVE ScanInv'
  OBVIOUS
<1>1. CASE \E s \in Streams : Collect(s) \/ SourceFails(s)
  BY <1>1, CollectKeeps
<1>2. CASE DiscoveryFails
  BY <1>2, IntakeStep DEF DiscoveryFails, ScanInv, FlowOK
<1>3. CASE CollectionEnds
  BY <1>3, IntakeStep DEF CollectionEnds, ScanInv, FlowOK, intake
<1>4. CASE \/ Analyse \/ OutboxFull \/ StateFails
           \/ \E written \in BOOLEAN : Retry(written)
  BY <1>4, AnalyseKeeps
<1>5. CASE Finish \/ WorkerFails \/ WorkersReturn \/ Interrupt \/ Deadline
  BY <1>5, FinishKeeps
<1>6. CASE UNCHANGED vars
  <2>1. LaneOK'
    BY <1>6 DEF ScanInv, LaneOK, Closed, vars
  <2> QED BY <1>6, <2>1, StillStep DEF vars, config, intake
<1> QED BY <1>1, <1>2, <1>3, <1>4, <1>5, <1>6 DEF Next

\* What is admitted is in the report, in the batch or in the queue, in this
\* order, the cap is exact, and the lane is where its batch says.
THEOREM Invariant == Spec => []ScanInv
<1>1. Init => ScanInv
  BY ScanInvInit
<1>2. ScanInv /\ [Next]_vars => ScanInv'
  BY ScanInvStep
<1> QED BY <1>1, <1>2, PTL DEF Spec

\* Nothing admitted is lost, repeated or overtaken inside the process (run.go
\* admit, engine.go Run).
THEOREM AdmissionOrder == Spec => []NoneLostInside
<1>1. ScanInv => NoneLostInside
  BY DEF ScanInv, FlowOK
<1> QED BY <1>1, Invariant, PTL

\* --max-events admits exactly that many events over all streams (run.go admit).
THEOREM ExactCap == Spec => []CapExact
<1>1. ScanInv => CapExact
  BY DEF ScanInv, CapOK
<1> QED BY <1>1, Invariant, PTL

LEMMA LaneEnds == ScanInv => AdmittedReported
<1> SUFFICES ASSUME ScanInv, lane = "ended", analysisErr # "failed",
                    "outbox_backpressure" \notin gaps
             PROVE  reported = admitted
  BY DEF AdmittedReported
<1>1. /\ batch = <<>> /\ queue = <<>> /\ reported \in Seq(Places)
      /\ admitted = reported \o batch \o queue
  BY DEF ScanInv, LaneOK, FlowOK, NoneLostInside
<1>2. reported \o <<>> = reported
  BY <1>1, ConcatEmptySeq
<1> QED BY ONLY <1>1, <1>2, Zenon

\* The lane ends with every admitted event reported (engine.go Run), unless
\* persisting one failed or waited for room in vain.
THEOREM EverythingReported == Spec => []AdmittedReported
BY LaneEnds, Invariant, PTL

-----------------------------------------------------------------------------
\* The hold.

\* The main goroutine goes on when collection and lane have ended, and holds
\* when they ended well.
HoldInv ==
  /\ main # "analysing" => lane = "ended" /\ Closed
  /\ main = "hold" => /\ ~budgetStopped /\ ~evidenceErr
                      /\ analysisErr # "failed" /\ collection # "failed"

LEMMA HoldInvInit == Init => HoldInv
BY DEF Init, HoldInv

\* Collection and the lane move while the main goroutine waits for them.
LEMMA HoldInvWork ==
  ASSUME HoldInv, UNCHANGED main,
         \/ lane # "ended"
         \/ UNCHANGED <<lane, analysisErr, budgetStopped, evidenceErr>>,
         ~Closed \/ UNCHANGED collection
  PROVE  HoldInv'
BY DEF HoldInv, Closed

LEMMA HoldInvStep == HoldInv /\ [Next]_vars => HoldInv'
<1> SUFFICES ASSUME HoldInv, [Next]_vars PROVE HoldInv'
  OBVIOUS
<1>1. CASE \E s \in Streams : Collect(s) \/ SourceFails(s)
  BY <1>1, HoldInvWork
     DEF Collect, Admit, Drop, WaitForRoom, RoomMade, AbandonAdmission, Stop,
         Exhausted, SourceFails, analysis, outcome, ending
<1>2. CASE DiscoveryFails \/ CollectionEnds
  BY <1>2, HoldInvWork DEF DiscoveryFails, CollectionEnds, analysis, outcome, ending
<1>3. CASE Analyse \/ OutboxFull \/ StateFails
  BY <1>3, HoldInvWork
     DEF Analyse, Take, Fill, Judge, InputEnds, CancelAnalysis, Drain, DrainEnds,
         Emit, Report, AbandonWait, OutboxFull, StateFails, ending
<1>4. CASE \E written \in BOOLEAN : Retry(written)
  BY <1>4, HoldInvWork DEF Retry, Report, ending
<1>5. CASE Finish
  BY <1>5 DEF HoldInv, Finish, Collected, MayHold, HoldInterrupted, HoldFails,
              Join, Exit, analysis, outcome, Closed
<1>6. CASE WorkerFails \/ WorkersReturn \/ Interrupt \/ Deadline
  BY <1>6, HoldInvWork DEF WorkerFails, WorkersReturn, Interrupt, Deadline,
                           analysis, outcome, ending
<1>7. CASE UNCHANGED vars
  BY <1>7, HoldInvWork DEF vars
<1> QED BY <1>1, <1>2, <1>3, <1>4, <1>5, <1>6, <1>7 DEF Next

\* A hold keeps a normal stop only, with all that was admitted reported unless
\* it waited for outbox room, and never a spent budget (run.go:486-503).
THEOREM OrderlyHold == Spec => []HoldIsOrderly
<1>1. Spec => []HoldInv
  BY HoldInvInit, HoldInvStep, PTL DEF Spec
<1>2. ScanInv /\ HoldInv => HoldIsOrderly
  <2> SUFFICES ASSUME ScanInv, HoldInv, main = "hold"
               PROVE  /\ ~budgetStopped /\ ~evidenceErr /\ collection # "failed"
                      /\ reading = {}
                      /\ reported = admitted \/ "outbox_backpressure" \in gaps
    BY DEF HoldIsOrderly
  <2>1. /\ lane = "ended" /\ Closed /\ ~budgetStopped /\ ~evidenceErr
        /\ analysisErr # "failed" /\ collection # "failed"
    BY DEF HoldInv
  <2>2. reading = {}
    BY <2>1 DEF ScanInv, LaneOK
  <2>3. reported = admitted \/ "outbox_backpressure" \in gaps
    BY <2>1, LaneEnds DEF AdmittedReported
  <2> QED BY <2>1, <2>2, <2>3
<1> QED BY <1>1, <1>2, Invariant, PTL

-----------------------------------------------------------------------------
\* An exit without error.

\* The events that the streams have handed over, when none is dropped.
Offered == {e \in Streams \X (1..Events) : e[2] <= position[e[1]]}

\* They are what was admitted, each once.
AdmittedOnce ==
  /\ \A i \in 1..Len(admitted) : admitted[i] \in Offered
  /\ \A e \in Offered : \E i \in 1..Len(admitted) : admitted[i] = e
  /\ \A i, j \in 1..Len(admitted) : admitted[i] = admitted[j] => i = j

\* A scan of files: how far its streams have come, and where it is told that one
\* did not come to its end.
FilesOK ==
  /\ position \in [Streams -> 0..Events]
  /\ admission # 0 => position[admission] < Events
  /\ AdmittedOnce
  /\ \/ failed # "none" \/ "input_incomplete" \in gaps
     \/ \A s \in Streams \ reading : position[s] = Events
  /\ Closed => collection = failed
  /\ main # "analysing" /\ collection # "none" => "collection_interrupted" \in gaps

FilesInv == kind = "files" => FilesOK

LEMMA FilesInit == Init => FilesInv
<1> SUFFICES ASSUME Init, kind = "files" PROVE FilesOK
  BY DEF FilesInv
<1>1. position \in [Streams -> 0..Events] /\ \A s \in Streams : position[s] = 0
  BY DEF Init
<1>2. Offered = {}
  BY <1>1 DEF Offered
<1>3. Len(admitted) = 0
  BY DEF Init
<1>4. AdmittedOnce
  BY <1>2, <1>3 DEF AdmittedOnce
<1> QED BY <1>1, <1>4 DEF Init, FilesOK, Closed

\* Admitting the next event of a stream adds it to what was handed over.
LEMMA AdmittedNext ==
  ASSUME FlowOK, AdmittedOnce, position \in [Streams -> 0..Events],
         NEW s \in Streams, position[s] < Events, Enqueue(s)
  PROVE  AdmittedOnce' /\ position' \in [Streams -> 0..Events]
<1> DEFINE new == Event(s)
           n == Len(admitted)
<1>1. /\ position[s] \in 0..Events
      /\ position' = [position EXCEPT ![s] = position[s] + 1]
      /\ admitted' = Append(admitted, new)
  BY DEF Enqueue
<1>2. /\ position' \in [Streams -> 0..Events]
      /\ \A t \in Streams : position'[t] = IF t = s THEN position[s] + 1
                                                    ELSE position[t]
  BY <1>1
<1>3. new \in Streams \X (1..Events) /\ new[1] = s /\ new[2] = position[s] + 1
  BY <1>1 DEF Event
<1>4. /\ admitted \in Seq(Places) /\ new \in Places
  BY <1>3 DEF FlowOK, Places
<1> HIDE DEF new
<1>5. /\ n \in Nat /\ Len(admitted') = n + 1 /\ admitted'[n + 1] = new
      /\ \A i \in 1..n : admitted'[i] = admitted[i]
  BY <1>1, <1>4, AppendProperties, LenProperties
<1>6. new \notin Offered
  BY <1>1, <1>3 DEF Offered
<1>7. ASSUME NEW e \in Streams \X (1..Events)
      PROVE  (e \in Offered') <=> (e \in Offered \/ e = new)
  <2>1. /\ e[1] \in Streams /\ e[2] \in 1..Events /\ e = <<e[1], e[2]>>
        /\ new = <<s, position[s] + 1>>
    BY <1>3
  <2>2. position[e[1]] \in 0..Events
    BY <2>1
  <2>3. CASE e[1] = s
    <3>1. e = new <=> e[2] = position[s] + 1
      BY <2>1, <2>3, <1>3
    <3>2. e \in Offered' <=> e[2] <= position[s] + 1
      BY <1>2, <2>3 DEF Offered
    <3>3. e \in Offered <=> e[2] <= position[s]
      BY <2>3 DEF Offered
    <3> QED BY <1>1, <2>1, <3>1, <3>2, <3>3
  <2>4. CASE e[1] # s
    <3>1. e # new
      BY <1>3, <2>4
    <3>2. position'[e[1]] = position[e[1]]
      BY <1>2, <2>1, <2>4
    <3> QED BY <3>1, <3>2 DEF Offered
  <2> QED BY <2>3, <2>4
<1>8. Offered' = Offered \cup {new}
  BY <1>3, <1>7 DEF Offered
<1> HIDE DEF n
<1>9. \A i \in 1..n : admitted[i] \in Offered
  BY DEF AdmittedOnce, n
<1>10. ASSUME NEW i \in 1..Len(admitted') PROVE admitted'[i] \in Offered'
  BY <1>5, <1>8, <1>9
<1>11. ASSUME NEW e \in Offered'
       PROVE  \E i \in 1..Len(admitted') : admitted'[i] = e
  <2>1. CASE e = new
    BY <1>5, <2>1
  <2>2. CASE e \in Offered
    <3>1. PICK i \in 1..n : admitted[i] = e
      BY <2>2 DEF AdmittedOnce, n
    <3>2. i \in 1..Len(admitted') /\ admitted'[i] = e
      BY <1>5, <3>1
    <3> QED BY <3>2
  <2> QED BY <1>8, <2>1, <2>2
<1>12. ASSUME NEW i \in 1..Len(admitted'), NEW j \in 1..Len(admitted'),
              admitted'[i] = admitted'[j]
       PROVE  i = j
  <2>1. \A k, l \in 1..n : admitted[k] = admitted[l] => k = l
    BY DEF AdmittedOnce, n
  <2>2. \A k \in 1..n : admitted'[k] # new
    BY <1>5, <1>6, <1>9
  <2>3. CASE i \in 1..n /\ j \in 1..n
    BY <1>5, <1>12, <2>1, <2>3
  <2>4. CASE i = n + 1 \/ j = n + 1
    BY <1>5, <1>12, <2>2, <2>4
  <2> QED BY <1>5, <2>3, <2>4
<1> QED BY <1>2, <1>10, <1>11, <1>12 DEF AdmittedOnce

\* When every stream has come to its end, every event was admitted.
LEMMA AllAdmitted ==
  ASSUME FlowOK, AdmittedOnce, \A s \in Streams : position[s] = Events
  PROVE  Len(admitted) = StreamCount * Events
<1> DEFINE n == Len(admitted)
           all == Streams \X (1..Events)
<1>1. Offered = all
  BY DEF Offered
<1>2. n \in Nat /\ admitted \in Seq(Places)
  BY LenProperties DEF FlowOK
<1>3. IsFiniteSet(Streams) /\ Cardinality(Streams) = StreamCount
  <2>1. StreamCount \in Nat
    OBVIOUS
  <2> QED BY <2>1, FS_Interval DEF Streams
<1>4. IsFiniteSet(1..Events) /\ Cardinality(1..Events) = Events
  BY FS_Interval
<1>5. Cardinality(all) = StreamCount * Events
  BY <1>3, <1>4, FS_Product
<1>6. ExistsBijection(1..n, all)
  <2> DEFINE f == [i \in 1..n |-> admitted[i]]
  <2>1. f \in [1..n -> all]
    BY <1>1 DEF AdmittedOnce
  <2>2. \A i, j \in 1..n : f[i] = f[j] => i = j
    BY DEF AdmittedOnce
  <2>3. \A e \in all : \E i \in 1..n : f[i] = e
    BY <1>1 DEF AdmittedOnce
  <2>0. DOMAIN f = 1..n
    OBVIOUS
  <2> HIDE DEF f, all, n
  <2>4. f \in Injection(1..n, all)
    BY <2>0, <2>1, <2>2 DEF Injection, IsInjective
  <2>5. f \in Surjection(1..n, all)
    BY <2>1, <2>3 DEF Surjection
  <2>6. f \in Bijection(1..n, all)
    BY <2>4, <2>5 DEF Bijection
  <2> QED BY <2>6 DEF ExistsBijection
<1>7. Cardinality(all) = n
  BY <1>2, <1>6, FS_CountingElements
<1> QED BY <1>5, <1>7

\* Steps that admit nothing and end no stream.
LEMMA FilesStill ==
  ASSUME FilesInv,
         UNCHANGED <<kind, position, reading, failed, collection, admitted>>,
         admission' \in {0, admission} \/ position[admission'] < Events,
         gaps \subseteq gaps',
         \/ main' = "analysing" \/ main # "analysing" \/ collection = "none"
         \/ "collection_interrupted" \in gaps'
  PROVE  FilesInv'
<1> SUFFICES ASSUME kind = "files" PROVE FilesOK'
  BY DEF FilesInv
<1>1. AdmittedOnce'
  BY DEF FilesInv, FilesOK, AdmittedOnce, Offered
<1> QED BY <1>1 DEF FilesInv, FilesOK, Closed

\* Steps that end a stream before the collector has returned.
LEMMA FilesEnd ==
  ASSUME FilesInv, ~Closed, NEW s \in Streams,
         UNCHANGED <<kind, position, collection, admitted, main>>,
         admission' \in {0, admission}, gaps \subseteq gaps',
         reading' = reading \ {s},
         \/ position[s] = Events /\ failed' = failed
         \/ failed' # "none" \/ "input_incomplete" \in gaps',
         failed # "none" => failed' # "none",
         main = "analysing"
  PROVE  FilesInv'
<1> SUFFICES ASSUME kind = "files" PROVE FilesOK'
  BY DEF FilesInv
<1>1. AdmittedOnce'
  BY DEF FilesInv, FilesOK, AdmittedOnce, Offered
<1>2. \/ failed' # "none" \/ "input_incomplete" \in gaps'
      \/ \A t \in Streams \ reading' : position'[t] = Events
  BY DEF FilesInv, FilesOK
<1> QED BY <1>1, <1>2 DEF FilesInv, FilesOK, Closed

\* The steps of one stream.
LEMMA FilesCollect ==
  ASSUME ScanInv, HoldInv, FilesInv, NEW s \in Streams, Collect(s) \/ SourceFails(s)
  PROVE  FilesInv'
<1> USE DEF config, intake, ending
<1>0. /\ s # 0 /\ admission \in {0} \cup reading
      /\ s \in reading \/ admission = s => ~Closed /\ main = "analysing"
  BY DEF ScanInv, FlowOK, LaneOK, HoldInv, Streams
<1>1. ASSUME Enqueue(s), kind = "files" => position[s] < Events,
             s \in reading \/ admission = s,
             UNCHANGED <<kind, collection, main>>
      PROVE  FilesInv'
  <2> SUFFICES ASSUME kind = "files" PROVE FilesOK'
    BY <1>1 DEF FilesInv
  <2>1. AdmittedOnce' /\ position' \in [Streams -> 0..Events]
    BY <1>1, AdmittedNext DEF ScanInv, FilesInv, FilesOK
  <2>2. \/ failed' # "none" \/ "input_incomplete" \in gaps'
        \/ \A t \in Streams \ reading' : position'[t] = Events
    <3>1. CASE UNCHANGED <<gaps, cancelled, reading, failed>>
      <4>1. s \in reading
        BY <1>0, <1>1
      <4>2. \A t \in Streams \ reading : position'[t] = position[t]
        BY <1>1, <4>1 DEF Enqueue, FilesInv, FilesOK
      <4> QED BY <1>1, <3>1, <4>2 DEF FilesInv, FilesOK
    <3>2. CASE Ends(s, "cap")
      BY <3>2 DEF Ends
    <3> QED BY <1>1, <3>1, <3>2 DEF Enqueue
  <2> QED BY <1>0, <1>1, <2>1, <2>2 DEF Enqueue, FilesOK, Closed
<1>2. CASE Admit(s)
  BY <1>1, <1>2 DEF Admit, Enters, Offers
<1>3. CASE RoomMade(s)
  BY <1>0, <1>1, <1>3 DEF RoomMade, FilesInv, FilesOK
<1>4. CASE Drop(s)
  BY <1>4 DEF Drop, Live, FilesInv
<1>5. CASE WaitForRoom(s)
  BY <1>5, FilesStill DEF WaitForRoom, Enters, Offers
<1>6. CASE AbandonAdmission(s)
  BY <1>0, <1>6, FilesEnd DEF AbandonAdmission, Ends
<1>7. CASE Stop(s)
  BY <1>0, <1>7, FilesEnd DEF Stop, Ends
<1>8. CASE Exhausted(s)
  BY <1>0, <1>8, FilesEnd DEF Exhausted
<1>9. CASE SourceFails(s)
  BY <1>0, <1>9, FilesEnd DEF SourceFails
<1> QED BY <1>2, <1>3, <1>4, <1>5, <1>6, <1>7, <1>8, <1>9 DEF Collect

\* The other steps: the collector returns with the error of its streams, and
\* the main goroutine tells an error that it returned.
LEMMA FilesStep ==
  ASSUME ScanInv, HoldInv, FilesInv, [Next]_vars
  PROVE  FilesInv'
<1> USE DEF config, intake, ending
<1>1. CASE \E s \in Streams : Collect(s) \/ SourceFails(s)
  BY <1>1, FilesCollect
<1>2. CASE DiscoveryFails
  BY <1>2 DEF DiscoveryFails, FilesInv
<1>3. CASE CollectionEnds
  <2> SUFFICES ASSUME kind = "files" PROVE FilesOK'
    BY <1>3 DEF CollectionEnds, FilesInv
  <2>1. main = "analysing" /\ main' = main /\ collection' = failed
    BY <1>3 DEF CollectionEnds, HoldInv, Live
  <2>2. AdmittedOnce'
    BY <1>3 DEF CollectionEnds, FilesInv, FilesOK, AdmittedOnce, Offered
  <2> QED BY <1>3, <2>1, <2>2 DEF CollectionEnds, FilesInv, FilesOK
<1>4. CASE Analyse \/ OutboxFull \/ StateFails
  BY <1>4, FilesStill
     DEF Analyse, Take, Fill, Judge, InputEnds, CancelAnalysis, Drain, DrainEnds,
         Emit, Report, AbandonWait, OutboxFull, StateFails
<1>5. CASE \E written \in BOOLEAN : Retry(written)
  BY <1>5, FilesStill DEF Retry, Report
<1>6. CASE Finish
  BY <1>6, FilesStill DEF Finish, Collected, Interrupted, HoldInterrupted,
                          HoldFails, Join, Exit
<1>7. CASE WorkerFails \/ WorkersReturn \/ Interrupt \/ Deadline
  BY <1>7, FilesStill DEF WorkerFails, WorkersReturn, Interrupt, Deadline
<1>8. CASE UNCHANGED vars
  BY <1>8, FilesStill DEF vars
<1> QED BY <1>1, <1>2, <1>3, <1>4, <1>5, <1>6, <1>7, <1>8 DEF Next

\* A result is told once, after the lane has ended.
OkInv == result = "ok" => main = "done" /\ lane = "ended" /\ OkMeansAll

\* The outcome without error.
LEMMA OkExit ==
  ASSUME ScanInv, HoldInv, FilesInv, main = "exit", Outcome = "ok"
  PROVE  /\ lane = "ended" /\ ~unknown
         /\ Len(reported) = StreamCount * Events
<1>1. /\ analysisErr # "failed" /\ kind = "files" /\ gaps = {} /\ ~unknown
  BY DEF Outcome, Complete
<1>2. lane = "ended" /\ Closed
  BY DEF HoldInv
<1>3. reported = admitted
  BY <1>1, <1>2, LaneEnds DEF AdmittedReported
<1>4. reading = {}
  BY <1>2 DEF ScanInv, LaneOK
<1>5. collection = "none" /\ failed = "none"
  BY <1>1, <1>2 DEF FilesInv, FilesOK
<1>6. \A s \in Streams : position[s] = Events
  BY <1>1, <1>4, <1>5 DEF FilesInv, FilesOK
<1>7. Len(admitted) = StreamCount * Events
  BY <1>1, <1>6, AllAdmitted DEF ScanInv, FilesInv, FilesOK
<1> QED BY <1>1, <1>2, <1>3, <1>7

LEMMA OkStep ==
  ASSUME ScanInv, HoldInv, FilesInv, OkInv, [Next]_vars
  PROVE  OkInv'
<1> USE DEF config, intake, ending, analysis, outcome
<1>1. ASSUME result' = result, main = "done" => main' = "done",
             lane = "ended" => UNCHANGED <<lane, reported, unknown>>
      PROVE  OkInv'
  BY <1>1 DEF OkInv, OkMeansAll
<1>2. CASE \E s \in Streams : Collect(s) \/ SourceFails(s)
  BY <1>1, <1>2 DEF Collect, Admit, Drop, WaitForRoom, RoomMade, AbandonAdmission,
                    Stop, Exhausted, SourceFails
<1>3. CASE DiscoveryFails \/ CollectionEnds
  BY <1>1, <1>3 DEF DiscoveryFails, CollectionEnds
<1>4. CASE Analyse \/ OutboxFull \/ StateFails
  BY <1>1, <1>4
     DEF Analyse, Take, Fill, Judge, InputEnds, CancelAnalysis, Drain, DrainEnds,
         Emit, Report, AbandonWait, OutboxFull, StateFails
<1>5. CASE \E written \in BOOLEAN : Retry(written)
  BY <1>1, <1>5 DEF Retry, Report
<1>6. CASE Collected \/ HoldInterrupted \/ HoldFails \/ Join
  BY <1>1, <1>6 DEF Collected, HoldInterrupted, HoldFails, Join
<1>7. CASE Exit
  <2>1. /\ main = "exit" /\ main' = "done" /\ result' \in {Outcome, "report"}
        /\ UNCHANGED <<lane, reported, unknown>>
    BY <1>7 DEF Exit
  <2>2. CASE result' = Outcome /\ Outcome = "ok"
    BY <2>1, <2>2, OkExit DEF OkInv, OkMeansAll
  <2>3. CASE result' # "ok"
    BY <2>3 DEF OkInv
  <2> QED BY <2>1, <2>2, <2>3
<1>8. CASE WorkerFails \/ WorkersReturn \/ Interrupt \/ Deadline
  BY <1>1, <1>8 DEF WorkerFails, WorkersReturn, Interrupt, Deadline
<1>9. CASE UNCHANGED vars
  BY <1>1, <1>9 DEF vars
<1> QED BY <1>2, <1>3, <1>4, <1>5, <1>6, <1>7, <1>8, <1>9 DEF Next, Finish

\* A scan of files ends without error only when every event of every file was
\* reported, with a judgment, whatever failed or was stopped (run.go:577-597).
THEOREM OkIsComplete == Spec => []OkMeansAll
<1>1. Init => OkInv
  BY DEF Init, OkInv
<1>2. Spec => []HoldInv
  BY HoldInvInit, HoldInvStep, PTL DEF Spec
<1>3. Spec => []FilesInv
  BY <1>2, FilesInit, FilesStep, Invariant, PTL DEF Spec
<1>4. OkInv => OkMeansAll
  BY DEF OkInv, OkMeansAll
<1> QED BY <1>1, <1>2, <1>3, <1>4, OkStep, Invariant, PTL DEF Spec

-----------------------------------------------------------------------------
(* The scan implements its contract.                                       *)

\* An event is handed over once: what was admitted lies before its stream's
\* position, and what waits for room lies after it.
OnceInv ==
  /\ position \in [Streams -> 0..Events]
  /\ admission # 0 => position[admission] < Events
  /\ \A i \in 1..Len(admitted) :
       admitted[i] \in Places /\ admitted[i][2] <= position[admitted[i][1]]

\* The answer is given last.
DoneInv == result # "none" => main = "done"

LEMMA OnceInit == Init => OnceInv /\ DoneInv
<1> SUFFICES ASSUME Init PROVE OnceInv /\ DoneInv
  OBVIOUS
<1>1. Len(admitted) = 0
  BY DEF Init
<1> QED BY <1>1 DEF Init, OnceInv, DoneInv

\* The event that stream s admits was not admitted before.
LEMMA OnceEnqueue ==
  ASSUME ScanInv, OnceInv, NEW s \in Streams, position[s] < Events, Enqueue(s)
  PROVE  /\ OnceInv'
         /\ Event(s) \in Streams \X (1..Events)
         /\ \A i \in 1..Len(admitted) : admitted[i] # Event(s)
<1> DEFINE new == Event(s)
           n == Len(admitted)
<1>1. /\ position[s] \in 0..Events /\ position \in [Streams -> 0..Events]
      /\ position' = [position EXCEPT ![s] = position[s] + 1]
      /\ admitted' = Append(admitted, new) /\ admission' = 0
  BY DEF Enqueue, OnceInv
<1>2. /\ position' \in [Streams -> 0..Events]
      /\ \A t \in Streams : position[t] <= position'[t]
      /\ position'[s] = position[s] + 1
  BY <1>1
<1>3. new \in Streams \X (1..Events) /\ new[1] = s /\ new[2] = position[s] + 1
  BY <1>1 DEF Event
<1>4. admitted \in Seq(Places) /\ new \in Places
  BY <1>3 DEF ScanInv, FlowOK, Places
<1>5. \A i \in 1..n : admitted[i] # new
  BY <1>1, <1>3 DEF OnceInv
<1> HIDE DEF new
<1>6. /\ n \in Nat /\ Len(admitted') = n + 1 /\ admitted'[n + 1] = new
      /\ \A i \in 1..n : admitted'[i] = admitted[i]
  BY <1>1, <1>4, AppendProperties, LenProperties
<1>7. ASSUME NEW i \in 1..n
      PROVE  admitted[i] \in Places /\ admitted[i][2] <= position'[admitted[i][1]]
  <2>1. admitted[i] \in Places /\ admitted[i][2] <= position[admitted[i][1]]
    BY DEF OnceInv
  <2>2. admitted[i][1] \in Streams /\ admitted[i][2] \in Nat
    BY <2>1 DEF Places
  <2> QED BY <1>1, <1>2, <2>1, <2>2
<1> HIDE DEF n
<1>8. ASSUME NEW i \in 1..Len(admitted')
      PROVE  admitted'[i] \in Places /\ admitted'[i][2] <= position'[admitted'[i][1]]
  <2>1. CASE i \in 1..n
    BY <1>6, <1>7, <2>1
  <2>2. CASE i = n + 1
    BY <1>1, <1>2, <1>3, <1>4, <1>6, <2>2
  <2> QED BY <1>6, <2>1, <2>2
<1>9. OnceInv'
  BY <1>1, <1>2, <1>8 DEF OnceInv
<1> QED BY <1>3, <1>5, <1>9 DEF n, new

\* Steps that hand over nothing.
LEMMA OnceStill ==
  ASSUME OnceInv, DoneInv, UNCHANGED <<position, admitted>>,
         admission' \in {0, admission} \/ position[admission'] < Events,
         UNCHANGED <<main, result>> \/ (main # "done" /\ result' = result) \/ main' = "done"
  PROVE  OnceInv' /\ DoneInv'
BY DEF OnceInv, DoneInv

Step == Promised!ContractNext \/ UNCHANGED <<admitted, reported, result>>

\* An admission takes an event in.
LEMMA EnqueueMaps ==
  ASSUME ScanInv, OnceInv, DoneInv, HoldInv, NEW s \in reading, position[s] < Events,
         Enqueue(s), UNCHANGED <<analysis, ending>>
  PROVE  Step /\ OnceInv' /\ DoneInv'
<1>1. s \in Streams /\ reported' = reported /\ result' = result /\ main' = main
  BY DEF ScanInv, FlowOK, analysis, ending
<1>2. result = "none"
  BY DEF ScanInv, LaneOK, HoldInv, DoneInv
<1>3. /\ OnceInv' /\ Event(s) \in Streams \X (1..Events)
      /\ \A i \in 1..Len(admitted) : admitted[i] # Event(s)
  BY <1>1, OnceEnqueue
<1>4. admitted' = Append(admitted, Event(s))
  BY DEF Enqueue
<1>5. Promised!Give(Event(s))
  BY <1>1, <1>2, <1>3, <1>4 DEF Promised!Give, Promised!Taken
<1> QED BY <1>1, <1>3, <1>5 DEF Step, Promised!ContractNext, DoneInv

\* A report tells the next event.
LEMMA ReportMaps ==
  ASSUME ScanInv, HoldInv, OnceInv, DoneInv, NEW written \in BOOLEAN, Report(written),
         lane \in {"emit", "wait"}
  PROVE  Step /\ OnceInv' /\ DoneInv'
<1> DEFINE n == Len(reported)
<1>1. /\ reported' = Append(reported, Head(batch))
      /\ UNCHANGED <<admitted, result, main, position, admission>>
  BY DEF Report, ending, intake
<1>2. /\ reported \in Seq(Places) /\ batch \in Seq(Places) /\ queue \in Seq(Places)
      /\ batch # <<>> /\ admitted = reported \o batch \o queue
  BY DEF ScanInv, FlowOK, LaneOK, NoneLostInside
<1>3. result = "none"
  BY DEF HoldInv, DoneInv
<1>4. n < Len(admitted) /\ admitted[n + 1] = Head(batch)
  <2>1. reported \o batch \in Seq(Places) /\ Len(reported \o batch) = n + Len(batch)
        /\ (reported \o batch)[n + 1] = batch[1]
    BY <1>2, ConcatProperties, LenProperties
  <2>2. Len(batch) \in Nat \ {0} /\ Head(batch) = batch[1] /\ n \in Nat /\ Len(queue) \in Nat
    BY <1>2, EmptySeq, LenProperties
  <2>3. /\ Len(admitted) = n + Len(batch) + Len(queue)
        /\ admitted[n + 1] = (reported \o batch)[n + 1]
    BY <1>2, <2>1, <2>2, ConcatProperties
  <2> QED BY <2>1, <2>2, <2>3
<1>5. Promised!Tell
  BY <1>1, <1>3, <1>4 DEF Promised!Tell
<1>6. OnceInv' /\ DoneInv'
  BY <1>1, OnceStill
<1> QED BY <1>5, <1>6 DEF Step, Promised!ContractNext

\* The exit ends the scan.
LEMMA ExitMaps ==
  ASSUME ScanInv, HoldInv, FilesInv, OnceInv, DoneInv, Exit
  PROVE  Step /\ OnceInv' /\ DoneInv'
<1>1. /\ main = "exit" /\ main' = "done" /\ result' \in {Outcome, "report"}
      /\ UNCHANGED <<admitted, reported, position, admission>>
  BY DEF Exit, intake, analysis
<1>2. result = "none" /\ result' # "none"
  BY <1>1 DEF DoneInv, Outcome
<1>3. ASSUME result' = "ok"
      PROVE  reported = admitted /\ \A e \in Streams \X (1..Events) : Promised!Taken(e)
  <2>1. Outcome = "ok"
    BY <1>1, <1>3
  <2>2. /\ analysisErr # "failed" /\ kind = "files" /\ gaps = {}
        /\ lane = "ended" /\ Closed
    BY <1>1, <2>1 DEF HoldInv, Outcome, Complete
  <2>3. reported = admitted /\ reading = {}
    BY <2>2, LaneEnds DEF AdmittedReported, ScanInv, LaneOK
  <2>4. collection = "none" /\ failed = "none" /\ AdmittedOnce
    BY <1>1, <2>2 DEF FilesInv, FilesOK
  <2>5. \A s \in Streams : position[s] = Events
    BY <2>2, <2>3, <2>4 DEF FilesInv, FilesOK
  <2>6. Offered = Streams \X (1..Events)
    BY <2>5 DEF Offered
  <2> QED BY <2>3, <2>4, <2>6 DEF AdmittedOnce, Promised!Taken
<1>4. Promised!End
  BY <1>1, <1>2, <1>3 DEF Promised!End
<1>5. OnceInv' /\ DoneInv'
  BY <1>1, OnceStill
<1> QED BY <1>4, <1>5 DEF Step, Promised!ContractNext

\* The steps of a stream.
LEMMA CollectMaps ==
  ASSUME ScanInv, HoldInv, OnceInv, DoneInv, NEW s \in Streams, Collect(s) \/ SourceFails(s)
  PROVE  Step /\ OnceInv' /\ DoneInv'
<1> USE DEF config, intake, analysis, ending
<1>1. CASE Admit(s)
  BY <1>1, EnqueueMaps DEF Admit, Enters, Offers
<1>2. CASE RoomMade(s)
  <2>1. s \in reading /\ position[s] < Events
    BY <1>2 DEF RoomMade, ScanInv, FlowOK, OnceInv, Streams
  <2> QED BY <1>2, <2>1, EnqueueMaps DEF RoomMade
<1>3. CASE Drop(s)
  <2>1. /\ position[s] < Events /\ position[s] \in 0..Events
        /\ position' = [position EXCEPT ![s] = position[s] + 1]
        /\ UNCHANGED <<admitted, reported, result, main, admission>> /\ admission = 0
    BY <1>3 DEF Drop, Enters, Offers, OnceInv
  <2>2. /\ position' \in [Streams -> 0..Events]
        /\ \A t \in Streams : position[t] <= position'[t]
    BY <2>1 DEF OnceInv
  <2>3. ASSUME NEW i \in 1..Len(admitted)
        PROVE  admitted[i] \in Places /\ admitted[i][2] <= position'[admitted[i][1]]
    <3>1. admitted[i] \in Places /\ admitted[i][2] <= position[admitted[i][1]]
      BY DEF OnceInv
    <3>2. admitted[i][1] \in Streams /\ admitted[i][2] \in Nat
      BY <3>1 DEF Places
    <3> QED BY <2>2, <3>1, <3>2 DEF OnceInv
  <2> QED BY <2>1, <2>2, <2>3 DEF OnceInv, DoneInv, Step
<1>4. CASE WaitForRoom(s)
  BY <1>4, OnceStill DEF WaitForRoom, Enters, Offers, Step
<1>5. CASE AbandonAdmission(s) \/ Stop(s) \/ Exhausted(s) \/ SourceFails(s)
  BY <1>5, OnceStill DEF AbandonAdmission, Stop, Exhausted, SourceFails, Step
<1> QED BY <1>1, <1>2, <1>3, <1>4, <1>5 DEF Collect

LEMMA ContractStep ==
  ASSUME ScanInv, HoldInv, FilesInv, OnceInv, DoneInv, [Next]_vars
  PROVE  Step /\ OnceInv' /\ DoneInv'
<1> USE DEF config, intake, ending
<1>1. CASE \E s \in Streams : Collect(s) \/ SourceFails(s)
  BY <1>1, CollectMaps
<1>2. CASE DiscoveryFails \/ CollectionEnds
  BY <1>2, OnceStill DEF DiscoveryFails, CollectionEnds, analysis, Step
<1>3. CASE Take \/ Fill \/ Judge \/ InputEnds \/ CancelAnalysis \/ Drain \/ DrainEnds
  BY <1>3, OnceStill DEF Take, Fill, Judge, InputEnds, CancelAnalysis, Drain, DrainEnds, Step
<1>4. CASE AbandonWait \/ OutboxFull \/ StateFails
  BY <1>4, OnceStill DEF AbandonWait, OutboxFull, StateFails, Step
<1>5. CASE \E written \in BOOLEAN : Emit(written) \/ Retry(written)
  BY <1>5, ReportMaps DEF Emit, Retry
<1>6. CASE Collected \/ HoldInterrupted \/ HoldFails \/ Join
  BY <1>6, OnceStill DEF Collected, HoldInterrupted, HoldFails, Join, analysis, Step
<1>7. CASE Exit
  BY <1>7, ExitMaps
<1>8. CASE WorkerFails \/ WorkersReturn \/ Interrupt \/ Deadline
  BY <1>8, OnceStill DEF WorkerFails, WorkersReturn, Interrupt, Deadline, analysis, Step
<1>9. CASE UNCHANGED vars
  BY <1>9, OnceStill DEF vars, Step
<1> QED BY <1>1, <1>2, <1>3, <1>4, <1>5, <1>6, <1>7, <1>8, <1>9 DEF Next, Analyse, Finish

\* A scan of any number of streams keeps its contract: an event is admitted once
\* and reported in its turn, nothing is admitted or reported any more once the exit
\* is chosen, and that is 0 only when the whole input was reported (run.go:289-597).
THEOREM Contract == Spec => KeepsContract
<1>1. Init => Promised!ContractInit
  BY DEF Init, Promised!ContractInit
<1>2. Spec => []HoldInv
  BY HoldInvInit, HoldInvStep, PTL DEF Spec
<1>3. Spec => []FilesInv
  BY <1>2, FilesInit, FilesStep, Invariant, PTL DEF Spec
<1>4. Spec => [](OnceInv /\ DoneInv)
  BY <1>2, <1>3, OnceInit, ContractStep, Invariant, PTL DEF Spec
<1>5. ScanInv /\ HoldInv /\ FilesInv /\ OnceInv /\ DoneInv /\ [Next]_vars
        => [Promised!ContractNext]_<<admitted, reported, result>>
  BY ContractStep DEF Step
<1>6. [Promised!ContractNext]_<<admitted, reported, result>>
        => [Promised!ContractNext]_(Promised!contractVars)
  BY DEF Promised!contractVars
<1> QED
  BY <1>1, <1>2, <1>3, <1>4, <1>5, <1>6, Invariant, PTL
  DEF Spec, KeepsContract, Promised!Contract
=============================================================================

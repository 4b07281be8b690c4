------------------------- MODULE Investigation_proofs -------------------------
(***************************************************************************)
(* Proofs about Investigation, for any number of jobs, reviews, searches   *)
(* and events: the two slots name what really runs, no review is lost or   *)
(* reaches another report than its own, a complete job left its report,    *)
(* and the view of a report is honest.                                     *)
(***************************************************************************)
EXTENDS Investigation, FiniteSetTheorems, TLAPS

USE InvestigationAssumption

-----------------------------------------------------------------------------
\* What a step leaves alone keeps its part of the invariant.

LEMMA SlotsFrame ==
  ASSUME SlotsInv, UNCHANGED <<job, stop, scan>>, UNCHANGED found
  PROVE  SlotsInv'
BY DEF SlotsInv, SlotsTrue, SlotOfScan, SlotOfSearch, found

LEMMA ReportsFrame ==
  ASSUME ReportsInv, SlotsInv, UNCHANGED <<job, live, saved>>, seen' = seen,
         \A i \in 1..MaxJobs : scan'[i].at \in {"scanning", "returned"} =>
           /\ scan[i].at \in {"scanning", "returned"}
           /\ scan'[i].report = scan[i].report
  PROVE  ReportsInv'
BY DEF ReportsInv

LEMMA ReviewsFrame ==
  ASSUME ReviewsInv, UNCHANGED <<reviewing, file, wanted>>, seen' = seen
  PROVE  ReviewsInv'
BY DEF ReviewsInv, ReviewsKept, RulesKept, AcksBelong

-----------------------------------------------------------------------------
\* The slots.

Going(i) == scan[i].at \in {"scanning", "returned"}

\* A step that changes the record of one job, or of those a stop reaches.
LEMMA ScanShape ==
  ASSUME SlotsInv,
         scan' = [i \in 1..MaxJobs |-> scan'[i]],
         \A i \in 1..MaxJobs : scan'[i] = scan[i] \/
           \E at, cancelled, report, returned, err :
             scan'[i] = [at |-> at, cancelled |-> cancelled, report |-> report,
                         returned |-> returned, err |-> err]
  PROVE  \A i \in 1..MaxJobs :
           scan'[i] = [at |-> scan'[i].at, cancelled |-> scan'[i].cancelled,
                       report |-> scan'[i].report, returned |-> scan'[i].returned,
                       err |-> scan'[i].err]
BY DEF SlotsInv

LEMMA SlotsStart == ASSUME SlotsInv, Start PROVE SlotsInv'
<1> DEFINE n == job.id + 1
<1>1. /\ n \in 1..MaxJobs /\ job.id \in 0..MaxJobs
      /\ \A i \in 1..MaxJobs : ~Going(i)
  BY DEF SlotsInv, SlotsTrue, SlotOfScan, Start, Busy, Going
<1>2. /\ job' = [id |-> n, status |-> "running"] /\ stop' = n
      /\ scan' = [scan EXCEPT ![n] = [NoScan EXCEPT !.at = "scanning"]]
      /\ UNCHANGED found
  BY DEF Start
<1>3. /\ scan'[n] = [at |-> "scanning", cancelled |-> FALSE, report |-> NoReport,
                     returned |-> FALSE, err |-> "none"]
      /\ \A i \in 1..MaxJobs : i # n => scan'[i] = scan[i]
      /\ scan' = [i \in 1..MaxJobs |-> scan'[i]]
  BY <1>1, <1>2 DEF SlotsInv, NoScan
<1>4. \A i \in 1..MaxJobs :
           scan'[i] = [at |-> scan'[i].at, cancelled |-> scan'[i].cancelled,
                       report |-> scan'[i].report, returned |-> scan'[i].returned,
                       err |-> scan'[i].err]
  BY <1>3, ScanShape
<1>5. SlotOfScan'
  <2>1. /\ job'.id = n /\ job'.status = "running" /\ stop' = n
        /\ DOMAIN scan' = 1..MaxJobs /\ n \in DOMAIN scan'
        /\ scan'[n].at = "scanning"
    BY <1>1, <1>2, <1>3
  <2>2. \A i \in DOMAIN scan' : scan'[i].at \in {"scanning", "returned"} => i = n
    BY <1>1, <1>3, <2>1 DEF Going
  <2> HIDE DEF n
  <2> QED BY <2>1, <2>2 DEF SlotOfScan
<1>6. SlotOfSearch'
  BY <1>2 DEF SlotsInv, SlotsTrue, SlotOfSearch, found
<1>7. /\ job' = [id |-> job'.id, status |-> job'.status]
      /\ job'.id \in 0..MaxJobs /\ job'.id # 0
  BY <1>1, <1>2
<1> QED BY <1>3, <1>4, <1>5, <1>6, <1>7 DEF SlotsInv, SlotsTrue

LEMMA SlotsStop == ASSUME SlotsInv, StopScan PROVE SlotsInv'
<1>1. /\ job.status = "running" /\ job.id \in 1..MaxJobs /\ stop = job.id
      /\ Going(job.id)
  BY DEF SlotsInv, SlotsTrue, SlotOfScan, StopScan, Going
<1>2. /\ job' = [job EXCEPT !.status = "stopping"] /\ stop' = stop
      /\ UNCHANGED found
      /\ scan' = [i \in 1..MaxJobs |->
           IF i = stop THEN [scan[i] EXCEPT !.cancelled = TRUE] ELSE scan[i]]
  BY DEF SlotsInv, StopScan, Stopped
<1>3. job' = [id |-> job.id, status |-> "stopping"]
  BY <1>2 DEF SlotsInv
<1>4. /\ scan'[stop] = [at |-> scan[stop].at, cancelled |-> TRUE,
                        report |-> scan[stop].report,
                        returned |-> scan[stop].returned, err |-> scan[stop].err]
      /\ \A i \in 1..MaxJobs : i # stop => scan'[i] = scan[i]
      /\ scan' = [i \in 1..MaxJobs |-> scan'[i]]
  <2>1. /\ scan'[stop] = [scan[stop] EXCEPT !.cancelled = TRUE]
        /\ \A i \in 1..MaxJobs : i # stop => scan'[i] = scan[i]
    BY <1>1, <1>2
  <2>2. scan' = [i \in 1..MaxJobs |-> scan'[i]]
    BY <1>2
  <2>3. scan[stop] = [at |-> scan[stop].at, cancelled |-> scan[stop].cancelled,
                      report |-> scan[stop].report,
                      returned |-> scan[stop].returned, err |-> scan[stop].err]
    BY <1>1 DEF SlotsInv
  <2> QED BY <2>1, <2>2, <2>3
<1>5. \A i \in 1..MaxJobs :
           scan'[i] = [at |-> scan'[i].at, cancelled |-> scan'[i].cancelled,
                       report |-> scan'[i].report, returned |-> scan'[i].returned,
                       err |-> scan'[i].err]
  BY <1>4, ScanShape
<1>6. SlotOfScan'
  BY <1>1, <1>2, <1>3, <1>4 DEF SlotsInv, SlotsTrue, SlotOfScan, Going
<1>7. SlotOfSearch'
  BY <1>2 DEF SlotsInv, SlotsTrue, SlotOfSearch, found
<1> QED BY <1>1, <1>2, <1>3, <1>4, <1>5, <1>6, <1>7 DEF SlotsInv, SlotsTrue

\* A step of the goroutine of one job that does not end it.
LEMMA SlotsScan ==
  ASSUME SlotsInv, NEW i \in 1..MaxJobs, Going(i), UNCHANGED <<job, stop, found>>,
         NEW at \in {"scanning", "returned"}, NEW report, NEW returned, NEW err,
         scan' = [scan EXCEPT ![i] =
           [at |-> at, cancelled |-> scan[i].cancelled, report |-> report,
            returned |-> returned, err |-> err]]
  PROVE  SlotsInv'
<1>1. /\ scan'[i] = [at |-> at, cancelled |-> scan[i].cancelled,
                     report |-> report, returned |-> returned, err |-> err]
      /\ \A k \in 1..MaxJobs : k # i => scan'[k] = scan[k]
      /\ scan' = [k \in 1..MaxJobs |-> scan'[k]]
  BY DEF SlotsInv
<1>2. \A k \in 1..MaxJobs :
           scan'[k] = [at |-> scan'[k].at, cancelled |-> scan'[k].cancelled,
                       report |-> scan'[k].report, returned |-> scan'[k].returned,
                       err |-> scan'[k].err]
  BY <1>1, ScanShape
<1>3. SlotOfScan'
  BY <1>1 DEF SlotsInv, SlotsTrue, SlotOfScan, Going
<1>4. SlotOfSearch'
  BY DEF SlotsInv, SlotsTrue, SlotOfSearch, found
<1> QED BY <1>1, <1>2, <1>3, <1>4 DEF SlotsInv, SlotsTrue

LEMMA SlotsFinish ==
  ASSUME SlotsInv, NEW i \in 1..MaxJobs, Finish(i) PROVE SlotsInv'
<1>1. job.id = i /\ \A k \in 1..MaxJobs : k # i => ~Going(k)
  BY DEF SlotsInv, SlotsTrue, SlotOfScan, Finish, Going
<1>2. /\ job' = [job EXCEPT !.status = Status(scan[i].err)] /\ UNCHANGED found
      /\ scan' = [scan EXCEPT ![i] = [NoScan EXCEPT !.at = "over"]]
  BY DEF Finish
<1>3. job' = [id |-> job.id, status |-> Status(scan[i].err)]
  BY <1>2 DEF SlotsInv
<1>4. /\ scan'[i] = [at |-> "over", cancelled |-> FALSE, report |-> NoReport,
                     returned |-> FALSE, err |-> "none"]
      /\ \A k \in 1..MaxJobs : k # i => scan'[k] = scan[k]
      /\ scan' = [k \in 1..MaxJobs |-> scan'[k]]
  BY <1>2 DEF SlotsInv, NoScan
<1>5. \A k \in 1..MaxJobs :
           scan'[k] = [at |-> scan'[k].at, cancelled |-> scan'[k].cancelled,
                       report |-> scan'[k].report, returned |-> scan'[k].returned,
                       err |-> scan'[k].err]
  BY <1>4, ScanShape
<1>6. job'.status \notin {"running", "stopping"}
  BY <1>3 DEF Status
<1>7. SlotOfScan'
  BY <1>1, <1>4, <1>6 DEF SlotOfScan, Going
<1>8. SlotOfSearch'
  BY <1>2 DEF SlotsInv, SlotsTrue, SlotOfSearch, found
<1> QED BY <1>1, <1>3, <1>4, <1>5, <1>7, <1>8 DEF SlotsInv, SlotsTrue

LEMMA SlotsClose == ASSUME SlotsInv, Close PROVE SlotsInv'
<1>1. /\ UNCHANGED <<job, stop, found>>
      /\ scan' = [i \in 1..MaxJobs |->
           IF Going(i) THEN [scan[i] EXCEPT !.cancelled = TRUE] ELSE scan[i]]
  BY DEF SlotsInv, Close, Going
<1>2. /\ \A i \in 1..MaxJobs :
           IF Going(i)
           THEN scan'[i] = [at |-> scan[i].at, cancelled |-> TRUE,
                            report |-> scan[i].report,
                            returned |-> scan[i].returned, err |-> scan[i].err]
           ELSE scan'[i] = scan[i]
      /\ scan' = [i \in 1..MaxJobs |-> scan'[i]]
  <2>1. scan' = [i \in 1..MaxJobs |-> scan'[i]]
    BY <1>1
  <2>2. ASSUME NEW i \in 1..MaxJobs, Going(i)
        PROVE  scan'[i] = [at |-> scan[i].at, cancelled |-> TRUE,
                           report |-> scan[i].report,
                           returned |-> scan[i].returned, err |-> scan[i].err]
    <3>1. scan'[i] = [scan[i] EXCEPT !.cancelled = TRUE]
      BY <1>1, <2>2
    <3>2. scan[i] = [at |-> scan[i].at, cancelled |-> scan[i].cancelled,
                     report |-> scan[i].report,
                     returned |-> scan[i].returned, err |-> scan[i].err]
      BY DEF SlotsInv
    <3> QED BY <3>1, <3>2
  <2>3. ASSUME NEW i \in 1..MaxJobs, ~Going(i) PROVE scan'[i] = scan[i]
    BY <1>1, <2>3
  <2> QED BY <2>1, <2>2, <2>3
<1>3. \A i \in 1..MaxJobs :
           scan'[i] = [at |-> scan'[i].at, cancelled |-> scan'[i].cancelled,
                       report |-> scan'[i].report, returned |-> scan'[i].returned,
                       err |-> scan'[i].err]
  BY <1>2, ScanShape
<1>4. SlotOfScan'
  <2>1. /\ \A i \in 1..MaxJobs : scan'[i].at = scan[i].at
        /\ \A i \in 1..MaxJobs : Going(i) => scan'[i].cancelled
    BY <1>2
  <2>2. /\ \A i \in 1..MaxJobs : Going(i) =>
             /\ job.status \in {"running", "stopping"}
             /\ i = job.id /\ i = stop
        /\ job.status \in {"running", "stopping"} =>
             job.id \in 1..MaxJobs /\ Going(job.id)
    BY DEF SlotsInv, SlotsTrue, SlotOfScan, Going
  <2>3. job' = job /\ stop' = stop /\ DOMAIN scan' = 1..MaxJobs
    BY <1>1
  <2> QED BY <2>1, <2>2, <2>3 DEF SlotOfScan, Going
<1>5. SlotOfSearch'
  BY <1>1 DEF SlotsInv, SlotsTrue, SlotOfSearch, found
<1>6. job' = job
  BY <1>1
<1> QED BY <1>2, <1>3, <1>4, <1>5, <1>6 DEF SlotsInv, SlotsTrue

LEMMA SlotsSearch ==
  ASSUME SlotsInv, SearchStarts \/ SearchEnds PROVE SlotsInv'
<1>1. UNCHANGED <<job, stop, scan>> /\ SlotOfSearch'
  BY DEF SlotsInv, SlotsTrue, SlotOfSearch, SearchStarts, SearchEnds, SearchBusy,
         found, jobs
<1> QED BY <1>1 DEF SlotsInv, SlotsTrue, SlotOfScan

\* An event e, analysed as a, goes into the report of job i.
Collected(i, e, a, report) ==
  /\ e \in Log[i] \ DOMAIN seen[i] /\ a \in Analyses(i, e)
  /\ report.events = [f \in DOMAIN scan[i].report.events \cup {e} |->
       IF f = e THEN a.kept ELSE scan[i].report.events[f]]
  /\ report.counts = [scan[i].report.counts EXCEPT
       ![a.kept.importance] = scan[i].report.counts[a.kept.importance] + 1]
  /\ seen' = [seen EXCEPT ![i] =
       [f \in DOMAIN seen[i] \cup {e} |-> IF f = e THEN a.own ELSE seen[i][f]]]
  /\ scan' = [scan EXCEPT ![i] =
       [at |-> "scanning", cancelled |-> scan[i].cancelled, report |-> report,
        returned |-> scan[i].returned, err |-> scan[i].err]]

\* What the goroutine of a job does to its record.
LEMMA CollectStep ==
  ASSUME SlotsInv, NEW i \in 1..MaxJobs, Collect(i)
  PROVE  \E e, a, report : Collected(i, e, a, report)
<1> DEFINE r == scan[i].report
           report(e, a) ==
             [events |-> [f \in DOMAIN r.events \cup {e} |->
                            IF f = e THEN a.kept ELSE r.events[f]],
              counts |-> [r.counts EXCEPT ![a.kept.importance] = @ + 1]]
           new(e, a) ==
             [f \in DOMAIN seen[i] \cup {e} |-> IF f = e THEN a.own ELSE seen[i][f]]
<1>0. PICK e \in Log[i] \ DOMAIN seen[i] : \E a \in Analyses(i, e) :
        /\ seen' = [seen EXCEPT ![i] = new(e, a)]
        /\ scan' = [scan EXCEPT ![i] = [@ EXCEPT !.report = report(e, a)]]
  BY ZenonT(60) DEF Collect
<1>1. PICK a \in Analyses(i, e) :
        /\ seen' = [seen EXCEPT ![i] = new(e, a)]
        /\ scan' = [scan EXCEPT ![i] = [@ EXCEPT !.report = report(e, a)]]
  BY <1>0
<1>2. /\ report(e, a).events = [f \in DOMAIN r.events \cup {e} |->
                                 IF f = e THEN a.kept ELSE r.events[f]]
      /\ report(e, a).counts = [r.counts EXCEPT
                                 ![a.kept.importance] = r.counts[a.kept.importance] + 1]
  OBVIOUS
<1> HIDE DEF report, new
<1>3. scan[i] = [at |-> "scanning", cancelled |-> scan[i].cancelled,
                 report |-> scan[i].report, returned |-> scan[i].returned,
                 err |-> scan[i].err]
  BY DEF SlotsInv, Collect
<1>4. [scan[i] EXCEPT !.report = report(e, a)] =
        [at |-> "scanning", cancelled |-> scan[i].cancelled,
         report |-> report(e, a), returned |-> scan[i].returned,
         err |-> scan[i].err]
  BY <1>3
<1>5. scan' = [scan EXCEPT ![i] = [scan[i] EXCEPT !.report = report(e, a)]]
  BY <1>1 DEF SlotsInv
<1>6. scan' = [scan EXCEPT ![i] =
        [at |-> "scanning", cancelled |-> scan[i].cancelled,
         report |-> report(e, a), returned |-> scan[i].returned,
         err |-> scan[i].err]]
  BY <1>4, <1>5
<1>7. seen' = [seen EXCEPT ![i] =
        [f \in DOMAIN seen[i] \cup {e} |-> IF f = e THEN a.own ELSE seen[i][f]]]
  BY <1>1 DEF new
<1>8. Collected(i, e, a, report(e, a))
  BY <1>0, <1>1, <1>2, <1>6, <1>7 DEF Collected
<1> QED BY <1>8, Zenon

\* Which events that concerns, and what it leaves alone.
LEMMA CollectShape ==
  ASSUME SlotsInv, NEW i \in 1..MaxJobs, Collect(i)
  PROVE  \E e, report, new :
           /\ DOMAIN report.events = DOMAIN scan[i].report.events \cup {e}
           /\ DOMAIN new = DOMAIN seen[i] \cup {e}
           /\ \A f \in DOMAIN seen[i] : new[f] = seen[i][f]
           /\ seen' = [seen EXCEPT ![i] = new]
           /\ scan' = [scan EXCEPT ![i] =
                [at |-> "scanning", cancelled |-> scan[i].cancelled,
                 report |-> report, returned |-> scan[i].returned,
                 err |-> scan[i].err]]
<1>1. PICK e, a, report : Collected(i, e, a, report)
  BY CollectStep, Zenon
<1> DEFINE new == [f \in DOMAIN seen[i] \cup {e} |->
                     IF f = e THEN a.own ELSE seen[i][f]]
<1>2. /\ seen' = [seen EXCEPT ![i] = new]
      /\ scan' = [scan EXCEPT ![i] =
           [at |-> "scanning", cancelled |-> scan[i].cancelled, report |-> report,
            returned |-> scan[i].returned, err |-> scan[i].err]]
  BY <1>1 DEF Collected
<1>3. DOMAIN report.events = DOMAIN scan[i].report.events \cup {e}
  BY <1>1 DEF Collected
<1>4. DOMAIN new = DOMAIN seen[i] \cup {e} /\ \A f \in DOMAIN seen[i] : new[f] = seen[i][f]
  <2>1. e \notin DOMAIN seen[i]
    BY <1>1 DEF Collected
  <2> QED BY <2>1
<1> HIDE DEF new
<1> QED BY <1>2, <1>3, <1>4, Zenon

LEMMA ReturnStep ==
  ASSUME SlotsInv, NEW i \in 1..MaxJobs, Return(i)
  PROVE  /\ \E returned, err : scan' = [scan EXCEPT ![i] =
              [at |-> "returned", cancelled |-> scan[i].cancelled,
               report |-> scan[i].report, returned |-> returned, err |-> err]]
         /\ \/ saved' = saved
            \/ saved' = [k \in DOMAIN saved \cup {i} |->
                           IF k = i THEN scan[i].report ELSE saved[k]]
<1>1. PICK o \in Outcomes(i), w \in Writes :
        /\ saved' = IF o.value /\ w.replaced
                    THEN [k \in DOMAIN saved \cup {i} |->
                            IF k = i THEN scan[i].report ELSE saved[k]]
                    ELSE saved
        /\ scan' = [scan EXCEPT ![i] =
             [at |-> "returned", cancelled |-> scan[i].cancelled,
              report |-> scan[i].report, returned |-> o.value,
              err |-> IF o.value /\ w.failed THEN "failed" ELSE o.err]]
  BY Zenon DEF Return
<1>2. \E returned, err : scan' = [scan EXCEPT ![i] =
        [at |-> "returned", cancelled |-> scan[i].cancelled,
         report |-> scan[i].report, returned |-> returned, err |-> err]]
  BY <1>1, Zenon
<1>3. \/ saved' = saved
      \/ saved' = [k \in DOMAIN saved \cup {i} |->
                     IF k = i THEN scan[i].report ELSE saved[k]]
  BY <1>1, Zenon
<1> QED BY <1>2, <1>3, Zenon

-----------------------------------------------------------------------------
\* The reports hold events of their own job.

LEMMA ReportsStart == ASSUME SlotsInv, ReportsInv, Start PROVE ReportsInv'
<1> DEFINE n == job.id + 1
<1>1. n \in 1..MaxJobs
  BY DEF SlotsInv, Start
<1>2. /\ job'.id = n /\ live' = NoReport /\ saved' = saved /\ seen' = seen
      /\ scan' = [scan EXCEPT ![n] = [NoScan EXCEPT !.at = "scanning"]]
  BY DEF Start
<1>3. scan'[n] = [at |-> "scanning", cancelled |-> FALSE, report |-> NoReport,
                  returned |-> FALSE, err |-> "none"]
  BY <1>1, <1>2 DEF SlotsInv, NoScan
<1>4. DOMAIN NoReport.events = {}
  BY DEF NoReport
<1>5. /\ scan'[n].report = NoReport
      /\ \A i \in 1..MaxJobs : i # n => scan'[i] = scan[i]
  BY <1>1, <1>2, <1>3 DEF SlotsInv
<1>6. DOMAIN live'.events \subseteq DOMAIN seen'[job'.id]
  BY <1>2, <1>4
<1>7. DOMAIN seen[n] = {}
  BY <1>1 DEF SlotsInv, ReportsInv
<1>8. \A i \in 1..MaxJobs : scan'[i].at \in {"scanning", "returned"} =>
        DOMAIN scan'[i].report.events = DOMAIN seen'[i]
  BY <1>2, <1>4, <1>5, <1>7 DEF ReportsInv
<1>9. \A i \in 1..MaxJobs : i > n => DOMAIN seen[i] = {}
  BY DEF SlotsInv, ReportsInv
<1> QED BY <1>2, <1>6, <1>8, <1>9 DEF ReportsInv

\* An event is seen when its report takes it up.
LEMMA ReportsCollect ==
  ASSUME SlotsInv, ReportsInv, NEW i \in 1..MaxJobs, Collect(i) PROVE ReportsInv'
<1>1. /\ scan[i].at = "scanning" /\ i = job.id
      /\ UNCHANGED <<job, live, saved>>
  BY DEF Collect, SlotsInv, SlotsTrue, SlotOfScan
<1>2. PICK e, report, new :
        /\ DOMAIN report.events = DOMAIN scan[i].report.events \cup {e}
        /\ DOMAIN new = DOMAIN seen[i] \cup {e}
        /\ \A f \in DOMAIN seen[i] : new[f] = seen[i][f]
        /\ seen' = [seen EXCEPT ![i] = new]
        /\ scan' = [scan EXCEPT ![i] =
             [at |-> "scanning", cancelled |-> scan[i].cancelled,
              report |-> report, returned |-> scan[i].returned,
              err |-> scan[i].err]]
  BY CollectShape, Zenon
<1>3. /\ scan'[i].report = report
      /\ \A k \in 1..MaxJobs : k # i => scan'[k] = scan[k]
  BY <1>2 DEF SlotsInv
<1>4. /\ DOMAIN seen' = Id
      /\ DOMAIN seen'[i] = DOMAIN seen[i] \cup {e}
      /\ \A k \in Id : k # i => seen'[k] = seen[k]
  BY <1>2 DEF ReportsInv, Id
<1>5. \A k \in Id : DOMAIN seen[k] \subseteq DOMAIN seen'[k]
  BY <1>4
<1>6. job'.id # 0 => DOMAIN live'.events \subseteq DOMAIN seen'[job'.id]
  BY <1>1, <1>5 DEF SlotsInv, ReportsInv, Id
<1>7. ASSUME NEW k \in 1..MaxJobs, scan'[k].at \in {"scanning", "returned"}
      PROVE  DOMAIN scan'[k].report.events = DOMAIN seen'[k]
  <2>1. CASE k = i
    <3>1. DOMAIN scan[i].report.events = DOMAIN seen[i]
      BY <1>1 DEF ReportsInv
    <3>2. DOMAIN report.events = DOMAIN scan[i].report.events \cup {e}
      BY <1>2
    <3> QED BY <1>3, <1>4, <2>1, <3>1, <3>2
  <2>2. CASE k # i
    BY <1>3, <1>4, <1>7, <2>2 DEF ReportsInv, Id
  <2> QED BY <2>1, <2>2
<1>8. /\ DOMAIN saved' \subseteq Id
      /\ \A k \in DOMAIN saved' : DOMAIN saved'[k].events \subseteq DOMAIN seen'[k]
  BY <1>1, <1>5 DEF ReportsInv
<1>9. \A k \in 1..MaxJobs : k > job'.id => DOMAIN seen'[k] = {}
  BY <1>1, <1>4 DEF ReportsInv, Id
<1> QED BY <1>4, <1>6, <1>7, <1>8, <1>9 DEF ReportsInv

LEMMA ReportsPublish ==
  ASSUME SlotsInv, ReportsInv, NEW i \in 1..MaxJobs, Publish(i) PROVE ReportsInv'
<1>1. /\ scan[i].at = "scanning" /\ live' = scan[i].report
      /\ UNCHANGED <<job, scan, saved, seen>>
  BY DEF Publish
<1>2. job.id = i
  BY <1>1 DEF SlotsInv, SlotsTrue, SlotOfScan
<1> QED BY <1>1, <1>2 DEF ReportsInv

LEMMA ReportsReturn ==
  ASSUME SlotsInv, ReportsInv, NEW i \in 1..MaxJobs, Return(i) PROVE ReportsInv'
<1>1. scan[i].at = "scanning" /\ UNCHANGED <<job, live, seen>>
  BY DEF Return
<1>2. PICK returned, err : scan' = [scan EXCEPT ![i] =
        [at |-> "returned", cancelled |-> scan[i].cancelled,
         report |-> scan[i].report, returned |-> returned, err |-> err]]
  BY ReturnStep
<1>3. \A k \in 1..MaxJobs : /\ scan'[k].report = scan[k].report
                            /\ k # i => scan'[k].at = scan[k].at
  BY <1>2 DEF SlotsInv
<1>4. DOMAIN scan[i].report.events = DOMAIN seen[i]
  BY <1>1 DEF ReportsInv
<1>5. /\ DOMAIN saved' \subseteq Id
      /\ \A k \in DOMAIN saved' : DOMAIN saved'[k].events \subseteq DOMAIN seen[k]
  <2>1. CASE saved' = saved
    BY <2>1 DEF ReportsInv
  <2>2. CASE saved' = [k \in DOMAIN saved \cup {i} |->
                         IF k = i THEN scan[i].report ELSE saved[k]]
    BY <1>4, <2>2 DEF ReportsInv, Id
  <2> QED BY <2>1, <2>2, ReturnStep
<1>6. \A k \in 1..MaxJobs : scan'[k].at \in {"scanning", "returned"} =>
        DOMAIN scan'[k].report.events = DOMAIN seen'[k]
  BY <1>1, <1>3 DEF ReportsInv
<1> QED BY <1>1, <1>5, <1>6 DEF ReportsInv

LEMMA ReportsFinish ==
  ASSUME SlotsInv, ReportsInv, NEW i \in 1..MaxJobs, Finish(i) PROVE ReportsInv'
<1>1. job.id = i
  BY DEF SlotsInv, SlotsTrue, SlotOfScan, Finish
<1>2. /\ scan[i].at = "returned" /\ UNCHANGED <<saved, seen>>
      /\ live' \in {live, scan[i].report}
      /\ job' = [job EXCEPT !.status = Status(scan[i].err)]
      /\ scan' = [scan EXCEPT ![i] = [NoScan EXCEPT !.at = "over"]]
  BY DEF Finish
<1>3. job'.id = job.id
  BY <1>2 DEF SlotsInv
<1>4. /\ scan'[i].at = "over"
      /\ \A k \in 1..MaxJobs : k # i => scan'[k] = scan[k]
  BY <1>2 DEF SlotsInv, NoScan
<1>5. DOMAIN live'.events \subseteq DOMAIN seen[i]
  BY <1>1, <1>2 DEF ReportsInv
<1>6. \A k \in 1..MaxJobs : scan'[k].at \in {"scanning", "returned"} =>
        DOMAIN scan'[k].report.events = DOMAIN seen'[k]
  BY <1>2, <1>4 DEF ReportsInv
<1> QED BY <1>1, <1>2, <1>3, <1>5, <1>6 DEF ReportsInv

\* What is cancelled keeps its report.
LEMMA ReportsCancel ==
  ASSUME SlotsInv, ReportsInv, StopScan \/ Close PROVE ReportsInv'
<1>1. UNCHANGED <<live, saved, seen>> /\ job'.id = job.id
  BY DEF SlotsInv, StopScan, Close
<1>2. \A i \in 1..MaxJobs :
        scan'[i] = scan[i] \/ scan'[i] = [scan[i] EXCEPT !.cancelled = TRUE]
  BY DEF SlotsInv, StopScan, Close
<1>3. ASSUME NEW i \in 1..MaxJobs
      PROVE  scan'[i].at = scan[i].at /\ scan'[i].report = scan[i].report
  <2>1. scan[i] = [at |-> scan[i].at, cancelled |-> scan[i].cancelled,
                   report |-> scan[i].report, returned |-> scan[i].returned,
                   err |-> scan[i].err]
    BY DEF SlotsInv
  <2> QED BY <1>2, <2>1
<1> QED BY <1>1, <1>3 DEF ReportsInv

-----------------------------------------------------------------------------
\* The reviews.

\* What a review looks up is an event of the report it was asked about.
LEMMA ReviewsRead ==
  ASSUME SlotsInv, ReportsInv, ReviewsInv, ReviewReads PROVE ReviewsInv'
<1> DEFINE kinds == {"acknowledge", "unacknowledge", "expected"}
           shown(id) == UNION {DOMAIN s.report.events : s \in Sources(id)}
           on == UNION {{[kind |-> kind, id |-> id, event |-> e] :
                           kind \in kinds, e \in shown(id)} : id \in Id}
           toggles == {[kind |-> "toggle", rule |-> t, to |-> to] :
                         t \in {u \in Rule : file.rules[u] # "absent"},
                         to \in {"on", "off"}}
<1>1. PICK act \in Acts :
        reviewing' = reviewing \cup {[read |-> file, act |-> act]}
  BY Zenon DEF ReviewReads
<1>2. reviewing = {} /\ UNCHANGED <<file, wanted, seen>>
  BY DEF ReviewReads, ReviewMay, Locks, Unlocked, jobs
<1>3. /\ act.kind \in {"acknowledge", "unacknowledge", "expected", "toggle"}
      /\ act.kind = "acknowledge" => act.id \in Id /\ act.event \in DOMAIN seen[act.id]
  <2>1. CASE act \in on
    <3>1. PICK id \in Id : act \in {[kind |-> kind, id |-> id, event |-> e] :
                                    kind \in kinds, e \in shown(id)}
      BY <2>1
    <3>2. PICK kind \in kinds, e \in shown(id) :
            act = [kind |-> kind, id |-> id, event |-> e]
      BY <3>1
    <3>3. PICK s \in Sources(id) : e \in DOMAIN s.report.events
      BY <3>2
    <3>4. e \in DOMAIN seen[id]
      BY <3>3 DEF Sources, LiveOf, ReportsInv
    <3> QED BY <3>2, <3>4
  <2>2. CASE act \in toggles
    BY <2>2
  <2>3. act \in on \/ act \in toggles
    BY <1>1 DEF Acts
  <2> QED BY <2>1, <2>2, <2>3
<1>4. reviewing' = {[read |-> file, act |-> act]}
  BY <1>1, <1>2
<1> HIDE DEF on, toggles
<1>5. ReviewsKept'
  BY <1>2 DEF ReviewsInv, ReviewsKept, RulesKept, AcksBelong
<1>6. \A r \in reviewing' :
        /\ r.read = file'
        /\ r.act.kind \in {"acknowledge", "unacknowledge", "expected", "toggle"}
        /\ r.act.kind = "acknowledge" =>
             r.act.id \in Id /\ r.act.event \in DOMAIN seen'[r.act.id]
  BY <1>2, <1>3, <1>4
<1> QED BY <1>2, <1>4, <1>5, <1>6 DEF ReviewsInv

\* What a review does to a file of rules.
LEMMA ReviewedRules ==
  ASSUME NEW r, NEW act, r = [rules |-> r.rules, acks |-> r.acks],
         r.acks = [id \in Id |-> r.acks[id]],
         act.kind \in {"acknowledge", "unacknowledge", "expected", "toggle"}
  PROVE  LET new == Reviewed(r, act)
         IN  /\ new = [rules |-> new.rules, acks |-> new.acks]
             /\ new.acks = [id \in Id |-> new.acks[id]]
             /\ \A id \in Id : new.acks[id] \subseteq r.acks[id] \cup
                  IF act.kind = "acknowledge" /\ id = act.id THEN {act.event} ELSE {}
<1> DEFINE new == Reviewed(r, act)
<1>1. CASE act.kind = "acknowledge"
  <2> DEFINE acks == [r.acks EXCEPT ![act.id] = r.acks[act.id] \cup {act.event}]
  <2>1. new = [r EXCEPT !.acks = acks]
    BY <1>1 DEF Reviewed
  <2>2. new = [rules |-> r.rules, acks |-> acks]
    <3> HIDE DEF acks, new
    <3> QED BY <2>1
  <2>3. /\ acks = [id \in Id |-> acks[id]]
        /\ \A id \in Id : acks[id] \subseteq r.acks[id] \cup
             IF id = act.id THEN {act.event} ELSE {}
    OBVIOUS
  <2> HIDE DEF acks, new
  <2> QED BY <1>1, <2>2, <2>3 DEF new
<1>2. CASE act.kind = "unacknowledge"
  <2> DEFINE acks == [r.acks EXCEPT ![act.id] = r.acks[act.id] \ {act.event}]
  <2>1. new = [r EXCEPT !.acks = acks]
    BY <1>2 DEF Reviewed
  <2>2. new = [rules |-> r.rules, acks |-> acks]
    <3> HIDE DEF acks, new
    <3> QED BY <2>1
  <2>3. /\ acks = [id \in Id |-> acks[id]]
        /\ \A id \in Id : acks[id] \subseteq r.acks[id]
    OBVIOUS
  <2> HIDE DEF acks, new
  <2> QED BY <2>2, <2>3 DEF new
<1>3. CASE act.kind \in {"expected", "toggle"}
  <2>1. PICK rules_ : new = [r EXCEPT !.rules = rules_]
    BY <1>3, Zenon DEF Reviewed
  <2> HIDE DEF new
  <2>2. new = [rules |-> rules_, acks |-> r.acks]
    BY <2>1
  <2> QED BY <2>2 DEF new
<1> QED BY <1>1, <1>2, <1>3

\* A review that reached the file is among those that its answer allows.
LEMMA ReviewsWrite ==
  ASSUME SlotsInv, ReportsInv, ReviewsInv, ReviewWrites PROVE ReviewsInv'
<1>1. PICK r \in reviewing, w \in Writes :
        /\ reviewing' = reviewing \ {r}
        /\ file' = IF w.replaced THEN Reviewed(r.read, r.act) ELSE file
        /\ wanted' = {Reviewed(f, r.act) : f \in wanted}
                       \cup (IF w.failed THEN wanted ELSE {})
  BY DEF ReviewWrites
<1>2. seen' = seen
  BY DEF ReviewWrites, jobs
<1>3. /\ r.read = file /\ file \in wanted /\ reviewing' = {}
      /\ r.act.kind \in {"acknowledge", "unacknowledge", "expected", "toggle"}
      /\ r.act.kind = "acknowledge" =>
           r.act.id \in Id /\ r.act.event \in DOMAIN seen[r.act.id]
  BY <1>1 DEF ReviewsInv, ReviewsKept, RulesKept
<1>4. CASE ~w.replaced
  <2>1. file' = file /\ file' \in wanted'
    BY <1>1, <1>3, <1>4 DEF Writes
  <2> QED BY <1>2, <1>3, <2>1 DEF ReviewsInv, ReviewsKept, RulesKept, AcksBelong
<1>5. CASE w.replaced
  <2>1. file' = Reviewed(file, r.act) /\ file' \in wanted'
    BY <1>1, <1>3, <1>5
  <2>2. /\ file' = [rules |-> file'.rules, acks |-> file'.acks]
        /\ file'.acks = [id \in Id |-> file'.acks[id]]
        /\ \A id \in Id : file'.acks[id] \subseteq file.acks[id] \cup
             IF r.act.kind = "acknowledge" /\ id = r.act.id THEN {r.act.event} ELSE {}
    BY <1>3, <2>1, ReviewedRules DEF ReviewsInv
  <2>3. AcksBelong'
    BY <1>2, <1>3, <2>2 DEF ReviewsInv, ReviewsKept, AcksBelong
  <2> QED BY <1>3, <2>1, <2>2, <2>3 DEF ReviewsInv, ReviewsKept, RulesKept
<1> QED BY <1>4, <1>5

LEMMA ReviewsCollect ==
  ASSUME SlotsInv, ReportsInv, ReviewsInv, NEW i \in 1..MaxJobs, Collect(i)
  PROVE  ReviewsInv'
<1>1. UNCHANGED <<reviewing, file, wanted>>
  BY DEF Collect, requests, rules
<1>2. /\ DOMAIN seen' = DOMAIN seen
      /\ \A k : k \in DOMAIN seen => DOMAIN seen[k] \subseteq DOMAIN seen'[k]
  <2>1. PICK e, report, new :
          /\ DOMAIN report.events = DOMAIN scan[i].report.events \cup {e}
          /\ DOMAIN new = DOMAIN seen[i] \cup {e}
          /\ \A f \in DOMAIN seen[i] : new[f] = seen[i][f]
          /\ seen' = [seen EXCEPT ![i] = new]
          /\ scan' = [scan EXCEPT ![i] =
               [at |-> "scanning", cancelled |-> scan[i].cancelled,
                report |-> report, returned |-> scan[i].returned,
                err |-> scan[i].err]]
    BY CollectShape, Zenon
  <2> QED BY <2>1
<1>3. AcksBelong'
  BY <1>1, <1>2 DEF ReportsInv, ReviewsInv, ReviewsKept, AcksBelong
<1>4. \A r \in reviewing : r.act.kind = "acknowledge" =>
        r.act.id \in Id /\ r.act.event \in DOMAIN seen'[r.act.id]
  BY <1>2 DEF ReportsInv, ReviewsInv
<1> QED BY <1>1, <1>3, <1>4 DEF ReviewsInv, ReviewsKept, RulesKept

-----------------------------------------------------------------------------
\* The inductive invariant, and what follows from it.

InvestigationInv == SlotsInv /\ ReportsInv /\ ReviewsInv

LEMMA InitInv == Init => InvestigationInv
<1> SUFFICES ASSUME Init PROVE InvestigationInv
  OBVIOUS
<1>1. /\ job = [id |-> 0, status |-> "none"] /\ stop = 0 /\ running = {}
      /\ scan = [i \in 1..MaxJobs |-> NoScan] /\ reviewing = {}
      /\ saved = [i \in {0} |-> FirstReport] /\ file = NoRules /\ wanted = {NoRules}
      /\ seen = [i \in Id |-> IF i = 0 THEN [e \in DOMAIN FirstReport.events |-> Judgment[e]]
                              ELSE <<>>]
  BY DEF Init
<1>2. SlotsInv
  <2>1. \A i \in 1..MaxJobs :
          scan[i] = [at |-> "none", cancelled |-> FALSE, report |-> NoReport,
                     returned |-> FALSE, err |-> "none"]
    BY <1>1 DEF NoScan
  <2>2. \A i \in 1..MaxJobs :
          /\ scan[i].at = "none"
          /\ scan[i] = [at |-> scan[i].at, cancelled |-> scan[i].cancelled,
                        report |-> scan[i].report, returned |-> scan[i].returned,
                        err |-> scan[i].err]
    BY <2>1
  <2>3. DOMAIN scan = 1..MaxJobs /\ scan = [i \in 1..MaxJobs |-> scan[i]]
    BY <1>1
  <2>4. job.id = 0 /\ job.status = "none" /\ 0 \in 0..MaxJobs
    BY <1>1
  <2>5. SlotsTrue
    BY <1>1, <2>2, <2>3, <2>4 DEF SlotsTrue, SlotOfScan, SlotOfSearch
  <2>6. job = [id |-> job.id, status |-> job.status]
    BY <1>1
  <2> QED BY <2>2, <2>3, <2>4, <2>5, <2>6 DEF SlotsInv
<1>3. ReportsInv
  <2>1. \A i \in 1..MaxJobs : scan[i].at = "none"
    BY <1>1 DEF NoScan
  <2> QED BY <1>1, <2>1 DEF ReportsInv, Id
<1>4. ReviewsInv
  <2>1. /\ file = [rules |-> file.rules, acks |-> file.acks]
        /\ file.acks = [id \in Id |-> {}]
    BY <1>1 DEF NoRules
  <2>2. ReviewsKept
    BY <1>1, <2>1 DEF ReviewsKept, RulesKept, AcksBelong
  <2> QED BY <1>1, <2>1, <2>2 DEF ReviewsInv
<1> QED BY <1>2, <1>3, <1>4 DEF InvestigationInv

LEMMA NextInv == InvestigationInv /\ [Next]_vars => InvestigationInv'
<1> SUFFICES ASSUME SlotsInv, ReportsInv, ReviewsInv, [Next]_vars
             PROVE  InvestigationInv'
  BY DEF InvestigationInv
<1>1. CASE Start
  BY <1>1, SlotsStart, ReportsStart, ReviewsFrame
     DEF InvestigationInv, Start, requests, rules
<1>2. CASE StopScan
  BY <1>2, SlotsStop, ReportsCancel, ReviewsFrame
     DEF InvestigationInv, StopScan, requests, rules
<1>3. CASE ReviewReads
  <2>1. SlotsInv'
    BY <1>3, SlotsFrame DEF ReviewReads, jobs
  <2>2. ReportsInv'
    BY <1>3, ReportsFrame DEF ReviewReads, jobs
  <2> QED BY <1>3, <2>1, <2>2, ReviewsRead DEF InvestigationInv
<1>4. CASE ReviewWrites
  <2>1. SlotsInv'
    BY <1>4, SlotsFrame DEF ReviewWrites, jobs
  <2>2. ReportsInv'
    BY <1>4, ReportsFrame DEF ReviewWrites, jobs
  <2> QED BY <1>4, <2>1, <2>2, ReviewsWrite DEF InvestigationInv
<1>5. CASE SearchReads
  <2>1. SlotsInv'
    BY <1>5, SlotsFrame DEF SearchReads, jobs
  <2>2. ReportsInv'
    BY <1>5, ReportsFrame DEF SearchReads, jobs
  <2>3. ReviewsInv'
    BY <1>5, ReviewsFrame DEF SearchReads, jobs, rules
  <2> QED BY <2>1, <2>2, <2>3 DEF InvestigationInv
<1>6. CASE SearchStarts \/ SearchEnds
  <2>1. UNCHANGED <<reviewing, jobs, rules>>
    BY <1>6 DEF SearchStarts, SearchEnds, requests
  <2>2. ReportsInv'
    BY <2>1, ReportsFrame DEF jobs
  <2>3. ReviewsInv'
    BY <2>1, ReviewsFrame DEF jobs, rules
  <2> QED BY <1>6, <2>2, <2>3, SlotsSearch DEF InvestigationInv
<1>7. ASSUME NEW i \in 1..MaxJobs, Scanning(i) PROVE InvestigationInv'
  <2>1. CASE Collect(i)
    <3>1. SlotsInv'
      <4>1. Going(i) /\ UNCHANGED <<job, stop, found>>
        BY <2>1 DEF Collect, Going
      <4>2. PICK report : scan' = [scan EXCEPT ![i] =
              [at |-> "scanning", cancelled |-> scan[i].cancelled,
               report |-> report, returned |-> scan[i].returned,
               err |-> scan[i].err]]
        BY <2>1, CollectShape
      <4> QED BY <4>1, <4>2, SlotsScan
    <3> QED BY <2>1, <3>1, ReportsCollect, ReviewsCollect DEF InvestigationInv
  <2>2. CASE Publish(i)
    <3>1. SlotsInv'
      BY <2>2, SlotsFrame DEF Publish
    <3>2. ReviewsInv'
      BY <2>2, ReviewsFrame DEF Publish, requests, rules
    <3> QED BY <2>2, <3>1, <3>2, ReportsPublish DEF InvestigationInv
  <2>3. CASE Return(i)
    <3>1. SlotsInv'
      <4>1. Going(i) /\ UNCHANGED <<job, stop, found>>
        BY <2>3 DEF Return, Going
      <4>2. PICK returned, err : scan' = [scan EXCEPT ![i] =
              [at |-> "returned", cancelled |-> scan[i].cancelled,
               report |-> scan[i].report, returned |-> returned, err |-> err]]
        BY <2>3, ReturnStep
      <4> QED BY <4>1, <4>2, SlotsScan
    <3>2. ReviewsInv'
      BY <2>3, ReviewsFrame DEF Return, requests, rules
    <3> QED BY <2>3, <3>1, <3>2, ReportsReturn DEF InvestigationInv
  <2>4. CASE Finish(i)
    <3>1. ReviewsInv'
      BY <2>4, ReviewsFrame DEF Finish, requests, rules
    <3> QED BY <2>4, <3>1, SlotsFinish, ReportsFinish DEF InvestigationInv
  <2> QED BY <1>7, <2>1, <2>2, <2>3, <2>4 DEF Scanning
<1>8. CASE Close
  <2>1. ReviewsInv'
    BY <1>8, ReviewsFrame DEF Close, requests, rules
  <2> QED BY <1>8, <2>1, SlotsClose, ReportsCancel DEF InvestigationInv
<1>9. CASE Closed \/ UNCHANGED vars
  <2>1. UNCHANGED <<requests, jobs, rules, found>>
    BY <1>9 DEF Closed, vars, requests, jobs, rules, found
  <2>2. SlotsInv'
    BY <2>1, SlotsFrame DEF jobs
  <2>3. ReportsInv'
    BY <2>1, ReportsFrame DEF jobs
  <2>4. ReviewsInv'
    BY <2>1, ReviewsFrame DEF requests, jobs, rules
  <2> QED BY <2>2, <2>3, <2>4 DEF InvestigationInv
<1>10. DOMAIN scan = 1..MaxJobs
  BY DEF SlotsInv
<1> QED BY <1>1, <1>2, <1>3, <1>4, <1>5, <1>6, <1>7, <1>8, <1>9, <1>10
        DEF Next, Request

\* In every state the slots tell the truth, a review in progress read the rules as
\* they still are, and every report holds events of its own job only.
THEOREM Invariant == Spec => []InvestigationInv
<1>1. Init => InvestigationInv
  BY InitInv
<1>2. InvestigationInv /\ [Next]_vars => InvestigationInv'
  BY NextInv
<1> QED BY <1>1, <1>2, PTL DEF Spec

\* The job slot and the search slot of the server always name what really runs: no
\* stop misses it and nothing runs beside it (server.go: start, startSearch).
THEOREM Slots == Spec => []SlotsTrue
<1>1. InvestigationInv => SlotsTrue
  BY DEF InvestigationInv, SlotsInv
<1> QED BY <1>1, Invariant, PTL

\* The rules file is one that the answers given to reviews allow, a review answered
\* with an error having been done as a whole or not at all, and every acknowledgement
\* in it names an event of its own report (reviews.go: review).
THEOREM Reviews == Spec => []ReviewsKept
<1>1. InvestigationInv => ReviewsKept
  BY DEF InvestigationInv, ReviewsInv
<1> QED BY <1>1, Invariant, PTL

-----------------------------------------------------------------------------
(* Complete jobs.                                                          *)

\* What a scan that returned left: its report in its file, unless an error was told,
\* and without a report nothing that was collected.
ReturnedSaved(i) ==
  scan[i].at = "returned" /\ scan[i].err # "failed" =>
    /\ scan[i].returned \/ scan[i].report = NoReport
    /\ scan[i].returned => i \in DOMAIN saved /\ saved[i] = scan[i].report

SavedInv == \A i \in 1..MaxJobs : ReturnedSaved(i)

LEMMA SavedReturn ==
  ASSUME SlotsInv, SavedInv, NEW i \in 1..MaxJobs, Return(i)
  PROVE  SavedInv'
<1>1. PICK o \in Outcomes(i), w \in Writes :
        /\ saved' = IF o.value /\ w.replaced
                    THEN [k \in DOMAIN saved \cup {i} |->
                            IF k = i THEN scan[i].report ELSE saved[k]]
                    ELSE saved
        /\ scan' = [scan EXCEPT ![i] =
             [at |-> "returned", cancelled |-> scan[i].cancelled,
              report |-> scan[i].report, returned |-> o.value,
              err |-> IF o.value /\ w.failed THEN "failed" ELSE o.err]]
  BY Zenon DEF Return
<1>2. (~o.value => scan[i].report = NoReport) /\ (w.replaced \/ w.failed)
  BY Zenon DEF Outcomes, Writes
<1>3. /\ scan'[i].report = scan[i].report
      /\ scan'[i].err = IF o.value /\ w.failed THEN "failed" ELSE o.err
      /\ \A k \in 1..MaxJobs : k # i => scan'[k] = scan[k]
  BY <1>1 DEF SlotsInv
<1>4. scan'[i].returned = o.value
  BY <1>1 DEF SlotsInv
<1>5. ASSUME scan'[i].err # "failed", o.value
      PROVE  i \in DOMAIN saved' /\ saved'[i] = scan[i].report
  <2>1. w.replaced
    BY <1>2, <1>3, <1>5, Zenon
  <2> QED BY <1>1, <1>5, <2>1
<1>6. ReturnedSaved(i)'
  BY <1>2, <1>3, <1>4, <1>5, Zenon DEF ReturnedSaved
<1>7. ASSUME NEW k \in 1..MaxJobs, k # i PROVE ReturnedSaved(k)'
  <2>1. k \in DOMAIN saved => k \in DOMAIN saved' /\ saved'[k] = saved[k]
    BY <1>1, <1>7
  <2>2. scan'[k] = scan[k] /\ ReturnedSaved(k)
    BY <1>3, <1>7 DEF SavedInv
  <2> QED BY <2>1, <2>2, Zenon DEF ReturnedSaved
<1> QED BY <1>6, <1>7 DEF SavedInv

\* The steps that do not return a scan.
LEMMA SavedFrame ==
  ASSUME SavedInv, UNCHANGED saved,
         \A i \in 1..MaxJobs : \/ scan'[i].at # "returned"
                               \/ scan'[i] = scan[i]
                               \/ scan'[i] = [scan[i] EXCEPT !.cancelled = TRUE],
         SlotsInv
  PROVE  SavedInv'
<1> SUFFICES ASSUME NEW i \in 1..MaxJobs PROVE ReturnedSaved(i)'
  BY DEF SavedInv
<1>1. ReturnedSaved(i)
  BY DEF SavedInv
<1>2. CASE scan'[i].at # "returned"
  BY <1>2, Zenon DEF ReturnedSaved
<1>3. CASE scan'[i] = scan[i]
  BY <1>1, <1>3, Zenon DEF ReturnedSaved
<1>4. CASE scan'[i] = [scan[i] EXCEPT !.cancelled = TRUE]
  <2>1. scan[i] = [at |-> scan[i].at, cancelled |-> scan[i].cancelled,
                   report |-> scan[i].report, returned |-> scan[i].returned,
                   err |-> scan[i].err]
    BY DEF SlotsInv
  <2>2. scan'[i] = [at |-> scan[i].at, cancelled |-> TRUE,
                    report |-> scan[i].report, returned |-> scan[i].returned,
                    err |-> scan[i].err]
    BY <1>4, <2>1
  <2>3. /\ scan'[i].at = scan[i].at /\ scan'[i].report = scan[i].report
        /\ scan'[i].err = scan[i].err /\ scan'[i].returned = scan[i].returned
        /\ scan'[i].cancelled
    BY <2>2
  <2> QED BY <1>1, <2>3, Zenon DEF ReturnedSaved
<1> QED BY <1>2, <1>3, <1>4

\* What one step does to the goroutines of the jobs.
LEMMA ScanSteps ==
  ASSUME SlotsInv, [Next]_vars
  PROVE  \/ \E i \in 1..MaxJobs : Return(i)
         \/ /\ UNCHANGED saved
            /\ \A i \in 1..MaxJobs : \/ scan'[i].at # "returned"
                                     \/ scan'[i] = scan[i]
                                     \/ scan'[i] = [scan[i] EXCEPT !.cancelled = TRUE]
<1>1. CASE Start
  <2>1. /\ UNCHANGED saved /\ job.id + 1 \in 1..MaxJobs
        /\ scan' = [scan EXCEPT ![job.id + 1] = [NoScan EXCEPT !.at = "scanning"]]
    BY <1>1 DEF Start, SlotsInv
  <2>2. \A i \in 1..MaxJobs : scan'[i].at = "scanning" \/ scan'[i] = scan[i]
    BY <2>1 DEF SlotsInv, NoScan
  <2> QED BY <2>1, <2>2
<1>2. CASE StopScan \/ Close
  BY <1>2 DEF StopScan, Close, SlotsInv
<1>3. ASSUME NEW i \in 1..MaxJobs, Collect(i)
      PROVE  UNCHANGED saved /\ \A k \in 1..MaxJobs : scan'[k].at # "returned" \/ scan'[k] = scan[k]
  <2>1. PICK report : scan' = [scan EXCEPT ![i] =
          [at |-> "scanning", cancelled |-> scan[i].cancelled,
           report |-> report, returned |-> scan[i].returned, err |-> scan[i].err]]
    BY <1>3, CollectShape
  <2>2. \A k \in 1..MaxJobs : scan'[k].at = "scanning" \/ scan'[k] = scan[k]
    BY <2>1 DEF SlotsInv
  <2> QED BY <1>3, <2>2 DEF Collect
<1>4. ASSUME NEW i \in 1..MaxJobs, Finish(i)
      PROVE  UNCHANGED saved /\ \A k \in 1..MaxJobs : scan'[k].at # "returned" \/ scan'[k] = scan[k]
  BY <1>4 DEF Finish, SlotsInv, NoScan
<1>5. CASE \/ ReviewReads \/ ReviewWrites \/ SearchReads \/ SearchStarts \/ SearchEnds
           \/ Closed \/ UNCHANGED vars \/ \E i \in DOMAIN scan : Publish(i)
  <2>1. UNCHANGED <<saved, scan>>
    BY <1>5 DEF ReviewReads, ReviewWrites, SearchReads, SearchStarts, SearchEnds,
                Closed, vars, jobs, Publish
  <2> QED BY <2>1
<1>6. DOMAIN scan = 1..MaxJobs
  BY DEF SlotsInv
<1> QED BY <1>1, <1>2, <1>3, <1>4, <1>5, <1>6 DEF Next, Request, Scanning

LEMMA SavedNext == ASSUME SlotsInv, SavedInv, [Next]_vars PROVE SavedInv'
BY ScanSteps, SavedReturn, SavedFrame

\* Only Finish ends a job.
LEMMA FinishOnly ==
  ASSUME SlotsInv, Next, NEW i \in 1..MaxJobs,
         scan[i].at = "returned", scan'[i].at = "over"
  PROVE  Finish(i)
<1>1. CASE Start
  <2>1. /\ job.id + 1 \in 1..MaxJobs
        /\ scan' = [scan EXCEPT ![job.id + 1] = [NoScan EXCEPT !.at = "scanning"]]
    BY <1>1 DEF Start, SlotsInv
  <2>2. scan'[i].at = "scanning" \/ scan'[i] = scan[i]
    BY <2>1 DEF SlotsInv, NoScan
  <2> QED BY <2>2
<1>2. CASE StopScan \/ Close
  <2>1. scan'[i] = scan[i] \/ scan'[i] = [scan[i] EXCEPT !.cancelled = TRUE]
    BY <1>2 DEF StopScan, Close, SlotsInv
  <2>2. scan[i] = [at |-> scan[i].at, cancelled |-> scan[i].cancelled,
                   report |-> scan[i].report, returned |-> scan[i].returned,
                   err |-> scan[i].err]
    BY DEF SlotsInv
  <2>3. scan'[i].at = scan[i].at
    BY <2>1, <2>2
  <2> QED BY <2>3
<1>3. ASSUME NEW k \in 1..MaxJobs, Collect(k) PROVE FALSE
  <2>1. PICK report : scan' = [scan EXCEPT ![k] =
          [at |-> "scanning", cancelled |-> scan[k].cancelled,
           report |-> report, returned |-> scan[k].returned, err |-> scan[k].err]]
    BY <1>3, CollectShape
  <2>2. scan'[i].at = "scanning" \/ scan'[i] = scan[i]
    BY <2>1 DEF SlotsInv
  <2> QED BY <2>2
<1>4. ASSUME NEW k \in 1..MaxJobs, Return(k) PROVE FALSE
  <2>1. PICK returned, err : scan' = [scan EXCEPT ![k] =
          [at |-> "returned", cancelled |-> scan[k].cancelled,
           report |-> scan[k].report, returned |-> returned, err |-> err]]
    BY <1>4, ReturnStep
  <2>2. scan'[i].at = "returned" \/ scan'[i] = scan[i]
    BY <2>1 DEF SlotsInv
  <2> QED BY <2>2
<1>5. ASSUME NEW k \in 1..MaxJobs, Finish(k) PROVE k = i
  <2>1. k # i => scan'[i] = scan[i]
    BY <1>5 DEF Finish, SlotsInv
  <2> QED BY <2>1
<1>6. CASE \/ ReviewReads \/ ReviewWrites \/ SearchReads \/ SearchStarts \/ SearchEnds
           \/ Closed \/ \E k \in DOMAIN scan : Publish(k)
  <2>1. UNCHANGED scan
    BY <1>6 DEF ReviewReads, ReviewWrites, SearchReads, SearchStarts, SearchEnds,
                Closed, jobs, Publish
  <2> QED BY <2>1
<1>7. DOMAIN scan = 1..MaxJobs
  BY DEF SlotsInv
<1> QED BY <1>1, <1>2, <1>3, <1>4, <1>5, <1>6, <1>7 DEF Next, Request, Scanning

\* The body of CompleteIsSaved.
CompleteSaved(i) ==
  /\ scan[i].at = "returned" /\ scan'[i].at = "over" /\ job'.status = "complete"
  /\ scan[i].returned \/ DOMAIN seen[i] # {}
  => i \in DOMAIN saved /\ saved[i] = live'

LEMMA FinishSaved ==
  ASSUME SlotsInv, ReportsInv, SavedInv, Next, NEW i \in 1..MaxJobs
  PROVE  CompleteSaved(i)
<1> SUFFICES ASSUME scan[i].at = "returned", scan'[i].at = "over",
                    job'.status = "complete", scan[i].returned \/ DOMAIN seen[i] # {}
             PROVE  i \in DOMAIN saved /\ saved[i] = live'
  BY Zenon DEF CompleteSaved
<1>1. Finish(i)
  BY FinishOnly
<1>2. job'.status = Status(scan[i].err)
  BY <1>1 DEF Finish, SlotsInv
<1>3. scan[i].err # "failed"
  BY <1>2 DEF Status
<1>4. /\ scan[i].returned \/ scan[i].report = NoReport
      /\ scan[i].returned => i \in DOMAIN saved /\ saved[i] = scan[i].report
  BY <1>3 DEF SavedInv, ReturnedSaved
<1>5. live' = IF scan[i].returned THEN scan[i].report ELSE live
  BY <1>1 DEF Finish
<1>6. DOMAIN scan[i].report.events = DOMAIN seen[i]
  BY DEF ReportsInv
<1>7. scan[i].report # NoReport \/ DOMAIN seen[i] = {}
  BY <1>6 DEF NoReport
<1> QED BY <1>4, <1>5, <1>7, Zenon

\* A job ends complete only when the report it shows is the one in its file; when it
\* has none, it collected nothing (server.go, start).
THEOREM CompleteSavedAlways == Spec => CompleteIsSaved
<1>1. Init => SavedInv
  BY DEF Init, NoScan, SavedInv, ReturnedSaved
<1>2. SlotsInv /\ SavedInv /\ [Next]_vars => SavedInv'
  BY SavedNext
<1>3. InvestigationInv => SlotsInv /\ ReportsInv
  BY DEF InvestigationInv
<1>4. SlotsInv /\ ReportsInv /\ SavedInv /\ [Next]_vars
        => [\A i \in DOMAIN scan :
              /\ scan[i].at = "returned" /\ scan'[i].at = "over" /\ job'.status = "complete"
              /\ scan[i].returned \/ DOMAIN seen[i] # {}
              => i \in DOMAIN saved /\ saved[i] = live']_vars
  <2> SUFFICES ASSUME SlotsInv, ReportsInv, SavedInv, Next
               PROVE  \A i \in DOMAIN scan :
                 /\ scan[i].at = "returned" /\ scan'[i].at = "over" /\ job'.status = "complete"
                 /\ scan[i].returned \/ DOMAIN seen[i] # {}
                 => i \in DOMAIN saved /\ saved[i] = live'
    OBVIOUS
  <2>1. \A i \in DOMAIN scan : i \in 1..MaxJobs
    BY DEF SlotsInv
  <2> QED BY <2>1, FinishSaved, Zenon DEF CompleteSaved
<1> QED BY <1>1, <1>2, <1>3, <1>4, Invariant, PTL DEF Spec, CompleteIsSaved

-----------------------------------------------------------------------------
(* Honest views.                                                           *)

\* A report as it is stored, own being the judgments made of its events: each event
\* with its own judgment, and a summary that counts at least the events it keeps.
Kept(events, i) == {e \in DOMAIN events : events[e].importance = i}

GoodReport(r, own) ==
  /\ DOMAIN r.events \subseteq Event
  /\ \A e \in DOMAIN r.events : e \in DOMAIN own /\ OwnJudgment(r.events[e]) = own[e]
  /\ DOMAIN r.counts = Importance
  /\ \A i \in Importance :
       r.counts[i] \in Int /\ r.counts[i] >= Cardinality(Kept(r.events, i))

ViewInv ==
  /\ job.id # 0 => GoodReport(live, seen[job.id])
  /\ \A i \in 1..MaxJobs : scan[i].at \in {"scanning", "returned"} =>
       GoodReport(scan[i].report, seen[i])
  /\ \A i \in DOMAIN saved : GoodReport(saved[i], seen[i])

LEMMA KeptFinite ==
  ASSUME NEW events, DOMAIN events \subseteq Event, NEW i
  PROVE  IsFiniteSet(Kept(events, i)) /\ Cardinality(Kept(events, i)) \in Nat
BY FS_Subset, FS_CardinalityType DEF Kept

LEMMA GoodNoReport == ASSUME NEW own PROVE GoodReport(NoReport, own)
<1>1. /\ DOMAIN NoReport.events = {} /\ DOMAIN NoReport.counts = Importance
      /\ \A i \in Importance : NoReport.counts[i] = 0
  BY DEF NoReport
<1>2. \A i : Kept(NoReport.events, i) = {}
  BY <1>1 DEF Kept
<1>3. \A e \in DOMAIN NoReport.events :
        e \in DOMAIN own /\ OwnJudgment(NoReport.events[e]) = own[e]
  BY <1>1
<1>4. \A i \in Importance : NoReport.counts[i] \in Int
        /\ NoReport.counts[i] >= Cardinality(Kept(NoReport.events, i))
  <2> SUFFICES ASSUME NEW i \in Importance
               PROVE  NoReport.counts[i] \in Int
                      /\ NoReport.counts[i] >= Cardinality(Kept(NoReport.events, i))
    OBVIOUS
  <2>1. NoReport.counts[i] = 0 /\ Cardinality(Kept(NoReport.events, i)) = 0
    BY <1>1, <1>2, FS_EmptySet
  <2> QED BY <2>1
<1> QED BY <1>1, <1>3, <1>4 DEF GoodReport

LEMMA GoodFirstReport ==
  GoodReport(FirstReport, [e \in DOMAIN FirstReport.events |-> Judgment[e]])
<1> DEFINE important == {f \in Event : Judgment[f] = "important"}
<1>1. /\ FirstReport.events = [e \in important |-> Judged(Judgment[e])]
      /\ FirstReport.counts = [i \in Importance |-> Cardinality({e \in Event : Judgment[e] = i})]
  BY DEF FirstReport
<1>2. /\ DOMAIN FirstReport.events = important
      /\ \A e \in important : /\ FirstReport.events[e].importance = Judgment[e]
                              /\ FirstReport.events[e].original = "none"
  BY <1>1 DEF Judged
<1>3. ASSUME NEW i \in Importance
      PROVE  FirstReport.counts[i] \in Int
             /\ FirstReport.counts[i] >= Cardinality(Kept(FirstReport.events, i))
  <2> DEFINE all == {e \in Event : Judgment[e] = i}
  <2>1. Kept(FirstReport.events, i) \in SUBSET all
    BY <1>2 DEF Kept
  <2>2. IsFiniteSet(all) /\ Cardinality(all) \in Nat
    BY FS_Subset, FS_CardinalityType
  <2>3. /\ Cardinality(Kept(FirstReport.events, i)) <= Cardinality(all)
        /\ FirstReport.counts[i] = Cardinality(all)
    BY <1>1, <2>1, <2>2, FS_Subset
  <2> QED BY <2>2, <2>3
<1> QED BY <1>1, <1>2, <1>3 DEF GoodReport, OwnJudgment

\* Judgments made of further events change nothing.
LEMMA GoodLater ==
  ASSUME NEW r, NEW own, GoodReport(r, own), NEW later,
         \A e \in DOMAIN own : e \in DOMAIN later /\ later[e] = own[e]
  PROVE  GoodReport(r, later)
BY DEF GoodReport

\* What is counted when an event x is collected.
LEMMA GoodCollected ==
  ASSUME NEW r, NEW own, GoodReport(r, own), NEW e \in Event \ DOMAIN r.events, NEW x,
         e \in DOMAIN own, OwnJudgment(x) = own[e], NEW q,
         q.events = [f \in DOMAIN r.events \cup {e} |->
                       IF f = e THEN x ELSE r.events[f]],
         q.counts = [i \in Importance |->
                       r.counts[i] + IF i = x.importance THEN 1 ELSE 0]
  PROVE  GoodReport(q, own)
<1>1. /\ DOMAIN q.events = DOMAIN r.events \cup {e} /\ q.events[e] = x
      /\ \A f \in DOMAIN r.events : q.events[f] = r.events[f]
      /\ DOMAIN q.counts = Importance
      /\ \A i \in Importance : q.counts[i] = r.counts[i] + IF i = x.importance THEN 1 ELSE 0
  OBVIOUS
<1>2. ASSUME NEW i \in Importance
      PROVE  q.counts[i] \in Int /\ q.counts[i] >= Cardinality(Kept(q.events, i))
  <2>1. /\ r.counts[i] \in Int /\ r.counts[i] >= Cardinality(Kept(r.events, i))
        /\ IsFiniteSet(Kept(r.events, i)) /\ Cardinality(Kept(r.events, i)) \in Nat
    BY KeptFinite DEF GoodReport
  <2>2. CASE i = x.importance
    <3>1. Kept(q.events, i) = Kept(r.events, i) \cup {e}
      BY <1>1, <2>2 DEF Kept
    <3>2. Cardinality(Kept(q.events, i)) = Cardinality(Kept(r.events, i)) + 1
      <4>1. e \notin Kept(r.events, i)
        BY DEF Kept
      <4>2. Cardinality(Kept(r.events, i) \cup {e})
              = IF e \in Kept(r.events, i) THEN Cardinality(Kept(r.events, i))
                ELSE Cardinality(Kept(r.events, i)) + 1
        BY <2>1, FS_AddElement
      <4> QED BY <3>1, <4>1, <4>2
    <3>3. q.counts[i] = r.counts[i] + 1
      BY <1>1, <2>2
    <3>4. Cardinality(Kept(q.events, i)) \in Nat
      BY <2>1, <3>1, FS_AddElement, FS_CardinalityType
    <3> QED BY <2>1, <3>2, <3>3, <3>4
  <2>3. CASE i # x.importance
    <3>1. Kept(q.events, i) = Kept(r.events, i)
      BY <1>1, <2>3 DEF Kept
    <3>2. q.counts[i] = r.counts[i]
      BY <1>1, <2>1, <2>3
    <3> QED BY <2>1, <3>1, <3>2
  <2> QED BY <2>2, <2>3
<1>3. \A f \in DOMAIN q.events : f \in DOMAIN own /\ OwnJudgment(q.events[f]) = own[f]
  BY <1>1 DEF GoodReport
<1> QED BY <1>1, <1>2, <1>3 DEF GoodReport

LEMMA ViewCollect ==
  ASSUME SlotsInv, ReportsInv, ViewInv, NEW i \in 1..MaxJobs, Collect(i)
  PROVE  ViewInv'
<1> DEFINE r == scan[i].report
<1>1. PICK e, a, report : Collected(i, e, a, report)
  BY CollectStep, Zenon
<1>2. /\ e \in Log[i] \ DOMAIN seen[i] /\ a \in Analyses(i, e)
      /\ report.events = [f \in DOMAIN r.events \cup {e} |->
           IF f = e THEN a.kept ELSE r.events[f]]
      /\ report.counts = [r.counts EXCEPT
           ![a.kept.importance] = r.counts[a.kept.importance] + 1]
      /\ seen' = [seen EXCEPT ![i] =
           [f \in DOMAIN seen[i] \cup {e} |-> IF f = e THEN a.own ELSE seen[i][f]]]
      /\ scan' = [scan EXCEPT ![i] =
           [at |-> "scanning", cancelled |-> scan[i].cancelled, report |-> report,
            returned |-> scan[i].returned, err |-> scan[i].err]]
  BY <1>1 DEF Collected
<1>3. /\ scan[i].at = "scanning" /\ UNCHANGED <<job, live, saved>>
      /\ GoodReport(r, seen[i]) /\ e \in Event \ DOMAIN r.events
      /\ DOMAIN seen = Id /\ DOMAIN saved \subseteq Id /\ i \in Id
  BY <1>2 DEF Collect, ViewInv, ReportsInv, Id
<1>4. OwnJudgment(a.kept) = a.own /\ a.kept.importance \in Importance
  BY <1>2, <1>3 DEF Analyses, Judged, OwnJudgment, Importance
<1>5. /\ seen'[i] = [f \in DOMAIN seen[i] \cup {e} |->
                       IF f = e THEN a.own ELSE seen[i][f]]
      /\ \A k \in Id : k # i => seen'[k] = seen[k]
  BY <1>2, <1>3
<1>6. \A k \in Id : \A f \in DOMAIN seen[k] :
        f \in DOMAIN seen'[k] /\ seen'[k][f] = seen[k][f]
  <2> SUFFICES ASSUME NEW k \in Id, NEW f \in DOMAIN seen[k]
               PROVE  f \in DOMAIN seen'[k] /\ seen'[k][f] = seen[k][f]
    OBVIOUS
  <2>1. CASE k = i
    <3>1. f # e
      BY <1>2, <2>1
    <3> QED BY <1>5, <2>1, <3>1
  <2>2. CASE k # i
    BY <1>5, <2>2
  <2> QED BY <2>1, <2>2
<1>7. report.counts = [k \in Importance |->
                         r.counts[k] + IF k = a.kept.importance THEN 1 ELSE 0]
  <2>1. DOMAIN r.counts = Importance /\ \A k \in Importance : r.counts[k] \in Int
    BY <1>3 DEF GoodReport
  <2>2. report.counts = [k \in DOMAIN r.counts |->
          IF k = a.kept.importance THEN r.counts[k] + 1 ELSE r.counts[k]]
    BY <1>2, <1>4, <2>1
  <2>3. \A k \in Importance :
          (IF k = a.kept.importance THEN r.counts[k] + 1 ELSE r.counts[k])
            = r.counts[k] + IF k = a.kept.importance THEN 1 ELSE 0
    BY <2>1
  <2> QED BY <2>1, <2>2, <2>3
<1>8. GoodReport(report, seen'[i])
  <2>1. GoodReport(r, seen'[i])
    BY <1>3, <1>6, GoodLater
  <2>2. e \in DOMAIN seen'[i] /\ OwnJudgment(a.kept) = seen'[i][e]
    BY <1>4, <1>5
  <2>3. report.events = [f \in DOMAIN r.events \cup {e} |->
                           IF f = e THEN a.kept ELSE r.events[f]]
    BY <1>2
  <2> HIDE DEF r
  <2> QED BY SMTT(60), <1>3, <1>7, <2>1, <2>2, <2>3, GoodCollected
<1>9. /\ scan'[i].report = report
      /\ \A k \in 1..MaxJobs : k # i => scan'[k] = scan[k]
  BY <1>2 DEF SlotsInv
<1>10. job'.id # 0 => GoodReport(live', seen'[job'.id])
  <2>1. job.id # 0 => GoodReport(live, seen'[job.id])
    BY <1>6, GoodLater DEF SlotsInv, ViewInv, Id
  <2> QED BY <1>3, <2>1
<1>11. ASSUME NEW k \in 1..MaxJobs, scan'[k].at \in {"scanning", "returned"}
       PROVE  GoodReport(scan'[k].report, seen'[k])
  <2>1. CASE k = i
    BY <1>8, <1>9, <2>1
  <2>2. CASE k # i
    BY <1>5, <1>9, <1>11, <2>2 DEF ViewInv, Id
  <2> QED BY <2>1, <2>2
<1>12. ASSUME NEW k \in DOMAIN saved' PROVE GoodReport(saved'[k], seen'[k])
  <2>1. k \in Id /\ GoodReport(saved[k], seen[k]) /\ saved'[k] = saved[k]
    BY <1>3, <1>12 DEF ViewInv
  <2> QED BY <1>6, <2>1, GoodLater
<1> QED BY <1>10, <1>11, <1>12 DEF ViewInv

LEMMA ViewNext == ASSUME SlotsInv, ReportsInv, ViewInv, [Next]_vars PROVE ViewInv'
<1>1. CASE Start
  <2>1. /\ live' = NoReport /\ UNCHANGED <<saved, seen>> /\ job.id + 1 \in 1..MaxJobs
        /\ scan' = [scan EXCEPT ![job.id + 1] = [NoScan EXCEPT !.at = "scanning"]]
    BY <1>1 DEF Start, SlotsInv
  <2>2. scan'[job.id + 1] = [at |-> "scanning", cancelled |-> FALSE, report |-> NoReport,
                             returned |-> FALSE, err |-> "none"]
    BY <2>1 DEF SlotsInv, NoScan
  <2>3. \A i \in 1..MaxJobs : scan'[i].report = NoReport \/ scan'[i] = scan[i]
    BY <2>1, <2>2 DEF SlotsInv
  <2> QED BY <2>1, <2>3, GoodNoReport DEF ViewInv
<1>2. CASE StopScan \/ Close
  <2>1. UNCHANGED <<live, saved, seen>> /\ job'.id = job.id
    BY <1>2 DEF StopScan, Close, SlotsInv
  <2>2. \A i \in 1..MaxJobs :
          scan'[i] = scan[i] \/ scan'[i] = [scan[i] EXCEPT !.cancelled = TRUE]
    BY <1>2 DEF SlotsInv, StopScan, Close
  <2>3. ASSUME NEW i \in 1..MaxJobs
        PROVE  scan'[i].at = scan[i].at /\ scan'[i].report = scan[i].report
    <3>1. scan[i] = [at |-> scan[i].at, cancelled |-> scan[i].cancelled,
                     report |-> scan[i].report, returned |-> scan[i].returned,
                     err |-> scan[i].err]
      BY DEF SlotsInv
    <3> QED BY <2>2, <3>1
  <2> QED BY <2>1, <2>3 DEF ViewInv
<1>3. ASSUME NEW i \in 1..MaxJobs, Return(i) PROVE ViewInv'
  <2>1. PICK returned, err : scan' = [scan EXCEPT ![i] =
          [at |-> "returned", cancelled |-> scan[i].cancelled,
           report |-> scan[i].report, returned |-> returned, err |-> err]]
    BY <1>3, ReturnStep
  <2>2. /\ scan[i].at = "scanning" /\ UNCHANGED <<job, live, seen>>
        /\ GoodReport(scan[i].report, seen[i])
    BY <1>3 DEF Return, ViewInv
  <2>3. \A k \in 1..MaxJobs : /\ scan'[k].report = scan[k].report
                              /\ k # i => scan'[k].at = scan[k].at
    BY <2>1 DEF SlotsInv
  <2>4. \A k \in DOMAIN saved' : GoodReport(saved'[k], seen[k])
    <3>1. CASE saved' = saved
      BY <3>1 DEF ViewInv
    <3>2. CASE saved' = [k \in DOMAIN saved \cup {i} |->
                           IF k = i THEN scan[i].report ELSE saved[k]]
      BY <2>2, <3>2 DEF ViewInv
    <3> QED BY <1>3, <3>1, <3>2, ReturnStep
  <2> QED BY <2>2, <2>3, <2>4 DEF ViewInv
<1>4. ASSUME NEW i \in 1..MaxJobs, Publish(i) PROVE ViewInv'
  <2>1. /\ scan[i].at = "scanning" /\ live' = scan[i].report
        /\ UNCHANGED <<job, scan, saved, seen>>
    BY <1>4 DEF Publish
  <2>2. i = job.id
    BY <2>1 DEF SlotsInv, SlotsTrue, SlotOfScan
  <2> QED BY <2>1, <2>2 DEF ViewInv
<1>5. ASSUME NEW i \in 1..MaxJobs, Finish(i) PROVE ViewInv'
  <2>1. /\ scan[i].at = "returned" /\ UNCHANGED <<saved, seen>>
        /\ live' \in {live, scan[i].report} /\ job'.id = job.id
        /\ scan' = [scan EXCEPT ![i] = [NoScan EXCEPT !.at = "over"]]
    BY <1>5 DEF Finish, SlotsInv
  <2>2. i = job.id
    BY <2>1 DEF SlotsInv, SlotsTrue, SlotOfScan
  <2>3. /\ scan'[i].at = "over"
        /\ \A k \in 1..MaxJobs : k # i => scan'[k] = scan[k]
    BY <2>1 DEF SlotsInv, NoScan
  <2> QED BY <2>1, <2>2, <2>3 DEF ViewInv
<1>6. CASE \/ ReviewReads \/ ReviewWrites \/ SearchReads \/ SearchStarts \/ SearchEnds
           \/ Closed \/ UNCHANGED vars
  <2>1. UNCHANGED <<job, live, saved, scan, seen>>
    BY <1>6 DEF ReviewReads, ReviewWrites, SearchReads, SearchStarts, SearchEnds,
                Closed, vars, jobs
  <2> QED BY <2>1 DEF ViewInv
<1>7. DOMAIN scan = 1..MaxJobs
  BY DEF SlotsInv
<1> QED BY <1>1, <1>2, <1>3, <1>4, <1>5, <1>6, <1>7, ViewCollect
        DEF Next, Request, Scanning

\* How many events a set loses and gains on the way to another one.
LEMMA Moved ==
  ASSUME NEW A, NEW B, IsFiniteSet(A), IsFiniteSet(B)
  PROVE  /\ Cardinality(A) + Cardinality(B \ A) = Cardinality(B) + Cardinality(A \ B)
         /\ Cardinality(B \ A) \in Nat /\ Cardinality(A \ B) \in Nat
         /\ Cardinality(B \ A) <= Cardinality(B)
<1>1. /\ Cardinality(A \ B) = Cardinality(A) - Cardinality(A \cap B)
      /\ Cardinality(B \ A) = Cardinality(B) - Cardinality(B \cap A)
      /\ IsFiniteSet(A \ B) /\ IsFiniteSet(B \ A)
  BY FS_Difference
<1>2. A \cap B = B \cap A /\ IsFiniteSet(A \cap B)
  BY FS_Subset
<1>3. /\ Cardinality(A) \in Nat /\ Cardinality(B) \in Nat /\ Cardinality(A \cap B) \in Nat
      /\ Cardinality(B \ A) \in Nat /\ Cardinality(A \ B) \in Nat
  BY <1>1, <1>2, FS_CardinalityType
<1>4. \A a, b, both, gone, new \in Nat :
        new = a - both /\ gone = b - both => a + gone = b + new /\ gone <= b
  OBVIOUS
<1>5. /\ Cardinality(A \ B) = Cardinality(A) - Cardinality(A \cap B)
      /\ Cardinality(B \ A) = Cardinality(B) - Cardinality(A \cap B)
  BY <1>1, <1>2
<1> QED BY <1>3, <1>4, <1>5

\* Project shows each event by the rules and its own judgment, and moves the
\* summary along with the events.
LEMMA ProjectHonest ==
  ASSUME NEW r, NEW own, GoodReport(r, own), NEW id, NEW f
  PROVE  LET view == Project(r, id, f)
         IN  /\ DOMAIN view.events = DOMAIN r.events
             /\ \A e \in DOMAIN view.events : view.events[e].importance =
                  IF f.rules[Text[e]] = "on" \/ e \in f.acks[id] THEN "routine"
                  ELSE own[e]
             /\ \A i \in Importance :
                  view.counts[i] - Cardinality(Kept(view.events, i))
                    = r.counts[i] - Cardinality(Kept(r.events, i))
<1> DEFINE under(e) == f.rules[Text[e]] = "on" \/ e \in f.acks[id]
           events == [e \in DOMAIN r.events |->
             LET mine == OwnJudgment(r.events[e])
             IN  IF under(e) THEN [importance |-> "routine", original |-> mine]
                 ELSE Judged(mine)]
           moved(i, before, after) ==
             Cardinality({e \in DOMAIN events : before[e].importance = i
                                                /\ after[e].importance # i})
           counts == [i \in Importance |->
             Max({0, r.counts[i] - moved(i, r.events, events)})
               + moved(i, events, r.events)]
           view == Project(r, id, f)
<1>1. view.events = events /\ view.counts = counts
  BY DEF Project
<1>2. \A e \in DOMAIN r.events : events[e].importance =
        IF under(e) THEN "routine" ELSE own[e]
  <2> TAKE e \in DOMAIN r.events
  <2>1. events[e].importance = IF under(e) THEN "routine" ELSE OwnJudgment(r.events[e])
    BY DEF Judged
  <2>2. OwnJudgment(r.events[e]) = own[e]
    BY DEF GoodReport
  <2> QED BY <2>1, <2>2
<1>3. DOMAIN events = DOMAIN r.events
  OBVIOUS
<1> HIDE DEF events
<1>4. ASSUME NEW i \in Importance
      PROVE  counts[i] - Cardinality(Kept(events, i)) = r.counts[i] - Cardinality(Kept(r.events, i))
  <2> DEFINE A == Kept(events, i)
             B == Kept(r.events, i)
  <2>1. /\ IsFiniteSet(A) /\ IsFiniteSet(B)
        /\ Cardinality(A) \in Nat /\ Cardinality(B) \in Nat
        /\ r.counts[i] \in Int /\ r.counts[i] >= Cardinality(B)
    BY <1>3, KeptFinite DEF GoodReport
  <2>2. /\ {e \in DOMAIN events : r.events[e].importance = i /\ events[e].importance # i} = B \ A
        /\ {e \in DOMAIN events : events[e].importance = i /\ r.events[e].importance # i} = A \ B
    BY <1>3 DEF Kept
  <2>3. counts[i] = Max({0, r.counts[i] - Cardinality(B \ A)}) + Cardinality(A \ B)
    BY <2>2
  <2> HIDE DEF A, B, counts
  <2>4. /\ Cardinality(A) + Cardinality(B \ A) = Cardinality(B) + Cardinality(A \ B)
        /\ Cardinality(B \ A) \in Nat /\ Cardinality(A \ B) \in Nat
        /\ Cardinality(B \ A) <= Cardinality(B)
    BY <2>1, Moved
  <2>5. r.counts[i] - Cardinality(B \ A) \in Nat
    <3>1. \A c \in Int, b, gone \in Nat : c >= b /\ gone <= b => c - gone \in Nat
      OBVIOUS
    <3> QED BY <2>1, <2>4, <3>1
  <2>6. Max({0, r.counts[i] - Cardinality(B \ A)}) = r.counts[i] - Cardinality(B \ A)
    <3>1. \A n \in Nat : Max({0, n}) = n
      <4> SUFFICES ASSUME NEW n \in Nat PROVE Max({0, n}) = n
        OBVIOUS
      <4>1. n \in {0, n} /\ \A y \in {0, n} : n >= y
        OBVIOUS
      <4>2. \A x \in {0, n} : (\A y \in {0, n} : x >= y) => x = n
        OBVIOUS
      <4> QED BY <4>1, <4>2 DEF Max
    <3> QED BY <2>5, <3>1
  <2>7. counts[i] - Cardinality(A) = r.counts[i] - Cardinality(B)
    <3>1. \A c \in Int, a, b, gone, new \in Nat :
            a + gone = b + new => (c - gone) + new - a = c - b
      OBVIOUS
    <3>2. counts[i] = (r.counts[i] - Cardinality(B \ A)) + Cardinality(A \ B)
      BY <2>3, <2>6
    <3> QED BY SMTT(60), <2>1, <2>4, <3>1, <3>2
  <2> QED BY <2>7 DEF A, B
<1> QED BY <1>1, <1>2, <1>3, <1>4

LEMMA ViewInvHonest == ASSUME ViewInv PROVE ViewHonest
<1> SUFFICES ASSUME NEW id \in Id, NEW s \in Sources(id)
             PROVE  LET view == Project(s.report, id, file)
                    IN  /\ \A e \in DOMAIN view.events : view.events[e].importance =
                             IF file.rules[Text[e]] = "on" \/ e \in file.acks[id] THEN "routine"
                             ELSE seen[id][e]
                        /\ \A i \in Importance :
                             view.counts[i] - Cardinality(Kept(view.events, i))
                               = s.report.counts[i] - Cardinality(Kept(s.report.events, i))
  BY DEF ViewHonest, Kept
<1>1. GoodReport(s.report, seen[id])
  BY DEF ViewInv, Sources, LiveOf
<1> QED BY <1>1, ProjectHonest

\* However rules and acknowledgements changed since a report was analysed, a view
\* of it shows each event by the rules as they are, or by the judgment that its
\* analysis made, and the summary agrees with the events (reviews.go, project).
THEOREM HonestViews == Spec => []ViewHonest
<1>1. Init => ViewInv
  <2> SUFFICES ASSUME Init PROVE ViewInv
    OBVIOUS
  <2>1. /\ job.id = 0 /\ scan = [i \in 1..MaxJobs |-> NoScan]
        /\ saved = [i \in {0} |-> FirstReport]
        /\ seen[0] = [e \in DOMAIN FirstReport.events |-> Judgment[e]]
    BY DEF Init, Id
  <2>2. \A i \in 1..MaxJobs : scan[i].at = "none"
    BY <2>1 DEF NoScan
  <2> QED BY <2>1, <2>2, GoodFirstReport DEF ViewInv
<1>2. InvestigationInv => SlotsInv /\ ReportsInv
  BY DEF InvestigationInv
<1>3. SlotsInv /\ ReportsInv /\ ViewInv /\ [Next]_vars => ViewInv'
  BY ViewNext
<1>4. ViewInv => ViewHonest
  BY ViewInvHonest
<1> QED BY <1>1, <1>2, <1>3, <1>4, Invariant, PTL DEF Spec
=============================================================================

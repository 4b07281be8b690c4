--------------------------- MODULE Investigation ---------------------------
(***************************************************************************)
(* The investigation server: investigation/server.go, reviews.go and       *)
(* reviewer.go.  Requests share, under one mutex, the slot of the scan job *)
(* with its live report, the slot of the search and the file of review     *)
(* rules; the goroutine of the job collects, publishes live reports,       *)
(* writes the final one and ends the job.  Reports are stored as they were *)
(* analysed and projected through the rules on every read.                 *)
(*                                                                         *)
(* A rule stands for one text.  The checks of requests and of the shape of *)
(* stored files, the response, uploads, retention while a scan runs, the   *)
(* context lookups, which share nothing but a count, and what a search     *)
(* does and how it is stopped (SearchRun) are left out.                    *)
(***************************************************************************)
EXTENDS Integers, Sequences, FiniteSets, FiniteSetsExt, Functions

CONSTANTS
  Text,        \* event -> its text, which an expected-event rule matches
  Judgment,    \* event -> the importance its analysis gives it
  Log,         \* job -> the events of the logs that its scan reads
  MaxJobs, MaxReviews, MaxSearches  \* bounds on the requests of a kind

Importance == {"important", "routine", "unknown"}
Event == DOMAIN Text
Rule == {Text[e] : e \in Event}

ASSUME InvestigationAssumption ==
  /\ IsFiniteSet(Event) /\ Judgment \in [Event -> Importance]
  /\ {MaxJobs, MaxReviews, MaxSearches} \subseteq Nat
  /\ Log \in [1..MaxJobs -> SUBSET Event]

VARIABLES
  reviewing, \* reviews that have read the rules and not written them
  searching, \* search requests that have their source and not the slot
  job,       \* s.job: id and status
  stop,      \* s.stop: the job whose scan it cancels, 0 for nil
  live,      \* s.live
  scan,      \* job -> its goroutine
  saved,     \* id -> the report in its file; 0 is there from the start
  file,      \* the rules file
  searches,  \* searches started; the last is s.search
  running,   \* those that run
  server,    \* "open", "closing" or "closed"
  seen,      \* id -> event collected -> the judgment made of it  (history)
  wanted,    \* the rules files that the answers allow           (history)
  reviews

requests == <<reviewing, searching>>
jobs == <<job, stop, live, scan, saved, seen>>
rules == <<file, wanted, reviews>>
found == <<searches, running>>
vars == <<reviewing, searching, job, stop, live, scan, saved,
          file, searches, running, server, seen, wanted, reviews>>

Id == 0..MaxJobs
NoReport == [events |-> <<>>, counts |-> [i \in Importance |-> 0]]
Judged(imp) == [importance |-> imp, original |-> "none"]

\* A report of every event that keeps the important ones only.
FirstReport ==
  [events |-> [e \in {f \in Event : Judgment[f] = "important"} |-> Judged(Judgment[e])],
   counts |-> [i \in Importance |-> Cardinality({e \in Event : Judgment[e] = i})]]

-----------------------------------------------------------------------------
(* reviews.go: project.                                                    *)

UnrestoredJudgment(x) == x.importance

\* The judgment the analysis made, before any review.
OwnJudgment(x) == IF x.original = "none" THEN x.importance ELSE x.original

\* project: the report as the rules r now have it.  An event under review is
\* routine and keeps its own judgment; the summary moves with each event.
Project(report, id, r) ==
  LET under(e) == r.rules[Text[e]] = "on" \/ e \in r.acks[id]
      events == [e \in DOMAIN report.events |->
        LET own == OwnJudgment(report.events[e])
        IN  IF under(e) THEN [importance |-> "routine", original |-> own]
            ELSE Judged(own)]
      moved(i, before, after) ==
        Cardinality({e \in DOMAIN events : before[e].importance = i
                                           /\ after[e].importance # i})
  IN  [events |-> events,
       counts |-> [i \in Importance |->
         Max({0, report.counts[i] - moved(i, report.events, events)})
           + moved(i, events, report.events)]]

\* reviewer.go: whether the analysis of e may be skipped.  The rules are read
\* again after 100 ms only, so a rule that was switched off may still skip.
Expected(e, r) == r.rules[Text[e]] # "absent"

-----------------------------------------------------------------------------
\* report.Write: a file that was renamed into place stays, also when its directory
\* cannot be opened or synced then and an error is answered.
Writes == {w \in [replaced : BOOLEAN, failed : BOOLEAN] : w.replaced \/ w.failed}

NoRules == [rules |-> [t \in Rule |-> "absent"], acks |-> [i \in Id |-> {}]]
NoScan == [at |-> "none", cancelled |-> FALSE, report |-> NoReport,
           returned |-> FALSE, err |-> "none"]

Init ==
  /\ job = [id |-> 0, status |-> "none"] /\ stop = 0 /\ live = NoReport
  /\ scan = [i \in 1..MaxJobs |-> NoScan]
  /\ saved = [i \in {0} |-> FirstReport] /\ file = NoRules
  /\ searches = 0 /\ running = {} /\ server = "open"
  /\ reviewing = {} /\ searching = 0
  /\ seen = [i \in Id |-> IF i = 0 THEN [e \in DOMAIN FirstReport.events |-> Judgment[e]]
                         ELSE <<>>]
  /\ wanted = {NoRules} /\ reviews = 0

\* A review holds s.mu from the reading of the rules to their writing; all
\* else that takes the mutex is one step.
Unlocked == reviewing = {}

\* The handler of a request takes the mutex.
Locks == Unlocked /\ server = "open"

BusyRunning == job.status = "running"

Busy == job.status \in {"running", "stopping"}

\* start: a new job in the slot, with a context of its own.
Start ==
  /\ Locks /\ ~Busy /\ job.id < MaxJobs
  /\ job' = [id |-> job.id + 1, status |-> "running"]
  /\ stop' = job.id + 1 /\ live' = NoReport
  /\ scan' = [scan EXCEPT ![job.id + 1] =
                [NoScan EXCEPT !.at = "scanning"]]
  /\ UNCHANGED <<requests, saved, seen, rules, found, server>>

StoppedNone == {}

\* The jobs whose scan a stop cancels.
Stopped == {stop}

\* /api/live/stop
StopScan ==
  /\ Locks /\ stop # 0 /\ job.status = "running"
  /\ scan' = [i \in DOMAIN scan |->
                IF i \in Stopped THEN [scan[i] EXCEPT !.cancelled = TRUE] ELSE scan[i]]
  /\ job' = [job EXCEPT !.status = "stopping"]
  /\ UNCHANGED <<requests, stop, live, saved, seen, rules, found, server>>

\* sourceLocked: the live report if the job is still the one that was asked
\* for, or a report that was saved.
LiveOfAny(id) == job.id # 0

LiveOf(id) == job.id # 0 /\ job.id = id

Sources(id) ==
  {s \in {[from |-> "live", report |-> live]} : LiveOf(id)}
  \cup {[from |-> "saved", report |-> saved[i]] : i \in DOMAIN saved \cap {id}}

\* What a review does to the rules r it read.
Reviewed(r, act) ==
  CASE act.kind = "acknowledge" ->
         [r EXCEPT !.acks = [@ EXCEPT ![act.id] = r.acks[act.id] \cup {act.event}]]
    [] act.kind = "unacknowledge" ->
         [r EXCEPT !.acks = [@ EXCEPT ![act.id] = r.acks[act.id] \ {act.event}]]
    [] act.kind = "expected" ->
         [r EXCEPT !.rules = [@ EXCEPT ![Text[act.event]] = "on"]]
    [] act.kind = "toggle" -> [r EXCEPT !.rules = [@ EXCEPT ![act.rule] = act.to]]

\* The reviews there can be: of an event of a report, or of a rule of the file.
Acts ==
  (UNION {{[kind |-> kind, id |-> id, event |-> e] :
             kind \in {"acknowledge", "unacknowledge", "expected"},
             e \in UNION {DOMAIN s.report.events : s \in Sources(id)}} : id \in Id})
  \cup {[kind |-> "toggle", rule |-> t, to |-> to] :
           t \in {u \in Rule : file.rules[u] # "absent"}, to \in {"on", "off"}}

ReviewAnytime == server = "open"

ReviewMay == Locks

\* review: the rules are read and the events looked up in their report.
ReviewReads ==
  /\ ReviewMay /\ reviews < MaxReviews /\ reviews' = reviews + 1
  /\ \E act \in Acts : reviewing' = reviewing \cup {[read |-> file, act |-> act]}
  /\ UNCHANGED <<searching, jobs, file, wanted, found, server>>

\* The review is written and answered.  One answered "saved" counts; one answered
\* with an error may have been done or not.
ReviewWrites ==
  /\ \E r \in reviewing, w \in Writes :
       /\ reviewing' = reviewing \ {r}
       /\ file' = IF w.replaced THEN Reviewed(r.read, r.act) ELSE file
       /\ wanted' = {Reviewed(f, r.act) : f \in wanted}
                      \cup (IF w.failed THEN wanted ELSE {})
  /\ UNCHANGED <<searching, jobs, reviews, found, server>>

\* startSearch takes its source under the mutex and comes back for the slot.
SearchReads ==
  /\ Locks /\ searching + searches < MaxSearches
  /\ \E id \in Id : \E s \in Sources(id) : s.report.events # <<>>
  /\ searching' = searching + 1
  /\ UNCHANGED <<reviewing, jobs, rules, found, server>>

SearchBusyNever == FALSE

SearchBusy == searches \in running

SearchStarts ==
  /\ Unlocked /\ searching > 0 /\ searching' = searching - 1
  /\ IF SearchBusy THEN UNCHANGED found
     ELSE searches' = searches + 1 /\ running' = running \cup {searches'}
  /\ UNCHANGED <<reviewing, jobs, rules, server>>

\* Execute returns.
SearchEnds ==
  /\ \E i \in running : running' = running \ {i}
  /\ UNCHANGED <<requests, jobs, rules, searches, server>>

-----------------------------------------------------------------------------
(* The goroutine of a job, and the Reviewer in front of its analysis.      *)

\* What the analysis of e can come to, and what the report keeps of it: e is judged,
\* or skipped as an expected event, or drained as unknown once the scan is cancelled.
\* A reviewer that fails to read the rules skips nothing.
Analyses(i, e) ==
  {[own |-> Judgment[e], kept |-> Judged(Judgment[e])]}
  \cup {a \in {[own |-> "unknown",
              kept |-> [importance |-> "routine", original |-> "unknown"]]} : Expected(e, file)}
  \cup {a \in {[own |-> "unknown", kept |-> Judged("unknown")]} : scan[i].cancelled}

Collect(i) ==
  /\ scan[i].at = "scanning"
  /\ \E e \in Log[i] \ DOMAIN seen[i] : \E a \in Analyses(i, e) :
       LET r == scan[i].report
       IN  /\ scan' = [scan EXCEPT ![i] = [@ EXCEPT !.report =
                  [events |-> [f \in DOMAIN r.events \cup {e} |->
                                 IF f = e THEN a.kept ELSE r.events[f]],
                   counts |-> [r.counts EXCEPT ![a.kept.importance] = @ + 1]]]]
           /\ seen' = [seen EXCEPT ![i] =
                [f \in DOMAIN @ \cup {e} |-> IF f = e THEN a.own ELSE @[f]]]
  /\ UNCHANGED <<requests, job, stop, live, saved, rules, found, server>>

\* The callback of the scan.
Publish(i) ==
  /\ scan[i].at = "scanning" /\ Unlocked
  /\ live' = scan[i].report
  /\ UNCHANGED <<requests, job, stop, scan, saved, seen, rules, found, server>>

\* scanDashboard runs the command line: a report, an error or both.  Exit 2 is no
\* error, be it for what was not judged or for options that were not understood: the
\* second has no report either.  A scan that collected anything has a report.
Outcomes(i) ==
  {o \in [value : BOOLEAN, err : {"none", "failed", "canceled"}] :
     /\ o.err = "canceled" => scan[i].cancelled
     /\ ~o.value => scan[i].report = NoReport}

\* The scan returns; a report is written, which may fail.
Return(i) ==
  /\ scan[i].at = "scanning"
  /\ \E o \in Outcomes(i), w \in Writes :
       /\ saved' = IF o.value /\ w.replaced
                   THEN [k \in DOMAIN saved \cup {i} |->
                           IF k = i THEN scan[i].report ELSE saved[k]]
                   ELSE saved
       /\ scan' = [scan EXCEPT ![i] =
            [at |-> "returned", cancelled |-> @.cancelled, report |-> @.report,
             returned |-> o.value,
             err |-> IF o.value /\ w.failed THEN "failed" ELSE o.err]]
  /\ UNCHANGED <<requests, job, stop, live, seen, rules, found, server>>

StatusUnlessFatal(err) == "complete"

\* A cancelled scan is complete as far as it came.
Status(err) == IF err = "failed" THEN "error" ELSE "complete"

Finish(i) ==
  /\ scan[i].at = "returned" /\ Unlocked
  /\ live' = IF scan[i].returned THEN scan[i].report ELSE live
  /\ job' = [job EXCEPT !.status = Status(scan[i].err)]
  /\ stop' = 0
  /\ scan' = [scan EXCEPT ![i] = [NoScan EXCEPT !.at = "over"]]
  /\ UNCHANGED <<requests, saved, seen, rules, found, server>>

\* Close, once the handlers are joined: everything is cancelled and waited for.
Close ==
  /\ server = "open" /\ reviewing = {} /\ searching = 0
  /\ server' = "closing"
  /\ scan' = [i \in DOMAIN scan |->
                IF scan[i].at \in {"scanning", "returned"}
                THEN [scan[i] EXCEPT !.cancelled = TRUE] ELSE scan[i]]
  /\ UNCHANGED <<requests, job, stop, live, saved, seen, rules, found>>

Closed ==
  /\ server = "closing" /\ running = {}
  /\ \A i \in DOMAIN scan : scan[i].at \in {"none", "over"}
  /\ server' = "closed"
  /\ UNCHANGED <<requests, jobs, rules, found>>

Request ==
  \/ Start \/ StopScan \/ ReviewReads \/ ReviewWrites \/ SearchReads
  \/ SearchStarts

Scanning(i) == Collect(i) \/ Publish(i) \/ Return(i) \/ Finish(i)

Next ==
  \/ Request
  \/ \E i \in DOMAIN scan : Scanning(i)
  \/ SearchEnds \/ Close \/ Closed

Spec == Init /\ [][Next]_vars

\* A request goes on, a cancelled scan returns and joins, a search ends.
FairSpec ==
  /\ Spec /\ WF_vars(SearchEnds) /\ WF_vars(Closed) /\ WF_vars(ReviewWrites)
  /\ \A i \in 1..MaxJobs : WF_vars(Finish(i) \/ (scan[i].cancelled /\ Return(i)))

-----------------------------------------------------------------------------
\* The slot of the job tells the truth: the one scan that runs is the one that
\* the slot names and that a stop reaches, and no slot says running for a scan
\* that is over (server.go: a scan is refused while one runs or stops).
SlotOfScan ==
  LET occupied == job.status \in {"running", "stopping"}
  IN
  /\ \A i \in DOMAIN scan :
       scan[i].at \in {"scanning", "returned"} => occupied /\ i = job.id /\ i = stop
  /\ occupied => scan[job.id].at \in {"scanning", "returned"}
  /\ job.status = "stopping" => scan[job.id].cancelled

\* At most one search runs, and it is the one a stop reaches, although its
\* request gives up the mutex between the source and the slot.
SlotOfSearch == running \subseteq {searches}

\* However requests and goroutines interleave, the two slots name what really
\* runs: a stop reaches it, and nothing else runs beside it.
SlotsTrue == SlotOfScan /\ SlotOfSearch

\* A job ends complete only when the report it shows is the one in its file; without
\* a report it collected nothing that could be lost, its options were not understood
\* or it was stopped before it began.
CompleteIsSaved ==
  [][\A i \in DOMAIN scan :
       /\ scan[i].at = "returned" /\ scan'[i].at = "over" /\ job'.status = "complete"
       /\ scan[i].returned \/ DOMAIN seen[i] # {}
       => i \in DOMAIN saved /\ saved[i] = live']_vars

\* The rules file is one that the answers allow: it holds what every review answered
\* as saved asked for, one answered with an error as a whole or not at all, and
\* nothing else, so that no concurrent review is lost (docs/usage.md:33, "Dashboard
\* reviews persist beside reports").
RulesKept == file \in wanted

\* Acknowledgements name events of their own report, also when they were made
\* on a live report and the job has changed since.
AcksBelong == \A id \in Id : file.acks[id] \subseteq DOMAIN seen[id]

\* No review is lost to another one, and none reaches another report than the
\* one it was made on.
ReviewsKept == RulesKept /\ AcksBelong

\* However rules and acknowledgements changed since, a view shows an event that is
\* not under review with the judgment made when it was collected, unknown when it
\* was skipped or drained (docs/usage.md:33), and its summary still agrees with its
\* events.
ViewHonest ==
  \A id \in Id : \A s \in Sources(id) :
    LET view == Project(s.report, id, file)
        kept(r, i) == Cardinality({e \in DOMAIN r.events : r.events[e].importance = i})
    IN  /\ \A e \in DOMAIN view.events : view.events[e].importance =
             IF file.rules[Text[e]] = "on" \/ e \in file.acks[id] THEN "routine"
             ELSE seen[id][e]
        /\ \A i \in Importance :
             view.counts[i] - kept(view, i) = s.report.counts[i] - kept(s.report, i)

Ending == job.status = "stopping" \/ server = "closing"

\* A stopped job comes to its end, and so does the server when it is closed, with
\* every goroutine it waits for.
ServerEnds == Ending ~> ~Ending

\* The inductive invariant of slots and reviews.  A review in progress read the
\* file as it is, since it holds the mutex; a report, wherever it is, holds events
\* of its own job only, so that an acknowledgement finds none of another.
SlotsInv ==
  /\ job = [id |-> job.id, status |-> job.status] /\ job.id \in 0..MaxJobs
  /\ job.id = 0 => job.status = "none"
  /\ scan = [i \in 1..MaxJobs |-> scan[i]]
  /\ \A i \in 1..MaxJobs :
       scan[i] = [at |-> scan[i].at, cancelled |-> scan[i].cancelled,
                  report |-> scan[i].report, returned |-> scan[i].returned,
                  err |-> scan[i].err]
  /\ SlotsTrue

ReportsInv ==
  /\ DOMAIN seen = Id
  /\ job.id # 0 => DOMAIN live.events \subseteq DOMAIN seen[job.id]
  /\ \A i \in 1..MaxJobs : scan[i].at \in {"scanning", "returned"} =>
       DOMAIN scan[i].report.events = DOMAIN seen[i]
  /\ \A i \in 1..MaxJobs : i > job.id => DOMAIN seen[i] = {}
  /\ DOMAIN saved \subseteq Id
  /\ \A i \in DOMAIN saved : DOMAIN saved[i].events \subseteq DOMAIN seen[i]

ReviewsInv ==
  /\ ReviewsKept
  /\ file = [rules |-> file.rules, acks |-> file.acks]
  /\ file.acks = [id \in Id |-> file.acks[id]]
  /\ \A r, q \in reviewing : r = q
  /\ \A r \in reviewing :
       /\ r.read = file
       /\ r.act.kind \in {"acknowledge", "unacknowledge", "expected", "toggle"}
       /\ r.act.kind = "acknowledge" =>
            r.act.id \in Id /\ r.act.event \in DOMAIN seen[r.act.id]
=============================================================================

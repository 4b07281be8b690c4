------------------------------ MODULE VerdictCache ------------------------------
(***************************************************************************)
(* Reuse of verdicts.  The analysis lane groups the events of a batch by   *)
(* family (template, version, scope and baseline), reuses the verdict its  *)
(* partition of the family holds, and asks the judge about the others.     *)
(* The judge of a controller keeps verdicts in SQLite under the family:    *)
(* it deletes a row before a reassessment, reuses a row that is in its     *)
(* lifetime, and stores what the provider answered.  The lane then         *)
(* publishes the answers to the partitions that are still current.         *)
(*                                                                         *)
(* A family seen after a restart finds its row again.  Lifetimes are       *)
(* bounded on two clocks, the wall clock, which can be set, and the        *)
(* elapsed time of the process, which cannot.  Time is in whole seconds.   *)
(*                                                                         *)
(* An operator whose comment begins with "Variant" is a wrong form of the  *)
(* definition that follows it, for showing that a property would catch it. *)
(***************************************************************************)
EXTENDS Integers, Sequences, FiniteSets

CONSTANTS
  Families,        \* semantic families of eligible events
  Vetoes,          \* sets of families --drain-require-review may name
  Durables,        \* whether the judge is a CachedJudge: values
  Rescores,        \* values --rescore may have
  Adaptive,        \* Grouper.adaptive
  FirstInterval,   \* partition.interval of a new partition
  AuditInterval,   \* the least interval after a publication
  NormalInterval,  \* Grouper.maxInterval
  GroupCapacity,   \* Grouper.capacity
  StateCapacity,   \* stateCapacity of verdicts and of lifetimes
  TTLs,            \* lifetimes a process may be configured with
  BatchSize,       \* groups of one batch (bound)
  StartWall,       \* the wall clock at the start
  MaxWall,         \* the wall clock (bound)
  MaxElapsed,      \* elapsed time (bound)
  MaxEvents,       \* events observed (bound)
  MaxStops,        \* restarts (bound)
  MaxSets          \* times the wall clock is set (bound)

ASSUME CacheAssumption ==
  /\ Vetoes \subseteq SUBSET Families /\ Vetoes # {}
  /\ Durables \subseteq BOOLEAN /\ Durables # {} /\ Adaptive \in BOOLEAN
  /\ Rescores \subseteq BOOLEAN /\ Rescores # {}
  /\ FirstInterval \in Nat /\ AuditInterval \in Nat /\ NormalInterval \in Nat
  /\ GroupCapacity \in Nat \ {0} /\ StateCapacity \in Nat \ {0}
  /\ TTLs \subseteq Nat \ {0} /\ TTLs # {}
  /\ BatchSize \in Nat \ {0}
  /\ StartWall \in 0..MaxWall
  /\ MaxWall \in Nat /\ MaxElapsed \in Nat /\ MaxEvents \in Nat
  /\ MaxStops \in Nat /\ MaxSets \in Nat

VARIABLES
  wall, elapsed,  \* the two clocks
  verdicts,       \* the table: family -> [id, created, expires]
  \* Memory of the process.
  lifetimes,      \* Store.lifetimes: family -> bounded verdict
  ttl,            \* Config.TTL
  review,         \* Grouper.review, from Config.ReviewIDs
  rescore,        \* CachedJudge.Rescore
  durable,        \* the judge is a CachedJudge
  entries,        \* Grouper.entries: family -> partition
  generation,     \* Grouper.generation
  sequence,       \* Grouper.sequence
  observed,       \* Grouper.observed, the high-water mark of the wall clock
  phase,          \* where the lane is in its batch
  now,            \* Engine.Batch's reading of the clocks
  asked,          \* CachedJudge.Judge's reading
  groups,         \* the groups of the batch, in the order of first observation
  index,          \* the next group to prepare, to keep or to publish
  stops, sets,
  \* History.  An assessment is one group sent to the provider.
  assessed,       \* assessments so far
  last,           \* family -> its last assessment
  born,           \* assessment -> when the judge was asked for it
  since,          \* assessment -> when this process first held its verdict
  reuse           \* the reuse made by the last step, if it made one

clocks == <<wall, elapsed, sets>>
store == <<verdicts, lifetimes>>
grouper == <<entries, generation, sequence, observed>>
config == <<ttl, review, rescore, durable>>
lane == <<phase, now, asked, groups, index>>
history == <<assessed, last, born, since>>
vars == <<wall, elapsed, verdicts, lifetimes, ttl, review, rescore, durable,
          entries, generation, sequence, observed, phase, now, asked, groups, index, stops, sets,
          assessed, last, born, since, reuse>>

NoTime == -1
\* A reading of both clocks, and of how often the wall clock was set.
Clock == [wall |-> wall, elapsed |-> elapsed, sets |-> sets]
NoReading == [wall |-> NoTime, elapsed |-> NoTime, sets |-> 0]

\* A verdict is named by the assessment it came from; 0 is one that cannot be
\* reused.  Its bounds are judgment metadata: two of the wall clock, the wall
\* reading it was bounded at, and a deadline of the elapsed time.
Unknown == [id |-> 0, created |-> NoTime, expires |-> NoTime,
            observed |-> NoTime, deadline |-> NoTime]
Reusable(j) == j.id # 0

NoReuse == [id |-> 0]

Least(a, b) == IF a < b THEN a ELSE b
Most(a, b) == IF a < b THEN b ELSE a
Without(t, f) == [x \in DOMAIN t \ {f} |-> t[x]]
With(t, f, r) == [x \in DOMAIN t \cup {f} |-> IF x = f THEN r ELSE t[x]]
Empty == [x \in {} |-> 0]

\* A verdict for d seconds from the reading t on.
Bounded(id, t, d) ==
  [id |-> id, created |-> t.wall, expires |-> t.wall + d,
   observed |-> t.wall, deadline |-> t.elapsed + d]

\* Judgment.CacheValidAt.
CacheValidAt(j, t) ==
  /\ t.wall >= j.created /\ t.wall >= j.observed
  /\ t.wall < j.expires /\ t.elapsed < j.deadline

Init ==
  /\ wall = StartWall /\ elapsed = 0 /\ sets = 0 /\ stops = 0
  /\ verdicts = Empty /\ lifetimes = Empty
  /\ ttl \in TTLs /\ review \in Vetoes /\ rescore \in Rescores
  /\ durable \in Durables
  /\ entries = Empty /\ generation = 0 /\ sequence = 0 /\ observed = NoTime
  /\ phase = "idle" /\ now = NoReading /\ asked = NoReading
  /\ groups = <<>> /\ index = 1
  /\ assessed = 0 /\ last = [f \in Families |-> 0]
  /\ born = Empty /\ since = Empty
  /\ reuse = NoReuse

-----------------------------------------------------------------------------
\* The grouper.

NewPartition ==
  [gen |-> generation + 1, seen |-> 0, last |-> 0, verdict |-> Unknown,
   expires |-> NoTime, observed |-> NoTime, refresh |-> FALSE,
   auditAt |-> 0, interval |-> FirstInterval]

Partition(f) == IF f \in DOMAIN entries THEN entries[f] ELSE NewPartition

\* The least recently observed partition goes when a new one needs room.
Evicted(f) ==
  IF f \in DOMAIN entries \/ Cardinality(DOMAIN entries) < GroupCapacity
  THEN {}
  ELSE {x \in DOMAIN entries :
          \A y \in DOMAIN entries : entries[x].last <= entries[y].last}

RolledBack(t) == observed # NoTime /\ t.wall < observed

\* Grouper.Observe: why the family is assessed, or that it is not.
Reason(f, p, t) ==
  IF f \in review THEN "review_required"
  ELSE IF RolledBack(t) THEN "clock_rollback"
  ELSE IF p.refresh \/ (Reusable(p.verdict)
                        /\ (t.elapsed >= p.expires
                            \/ ~CacheValidAt(p.verdict, t)))
       THEN "cache_expired"
  ELSE IF ~Reusable(p.verdict) THEN "new_or_expired"
  ELSE IF ~Adaptive \/ p.seen + 1 < p.auditAt THEN "cached"
  ELSE "stable_audit"

\* Grouper.Observe: the partition after an observation for that reason.
Observed(f, p, t, reason) ==
  [p EXCEPT !.seen = p.seen + 1,
            !.last = sequence + 1,
            !.observed = IF reason = "review_required" THEN @ ELSE t.wall,
            !.refresh = @ \/ reason \in {"clock_rollback", "cache_expired"},
            !.verdict = IF reason \in {"cached", "new_or_expired"} THEN @
                                                                  ELSE Unknown]

\* Groups of the batch that have the ticket of partition p.
Same(f, p) == {i \in 1..Len(groups) : /\ groups[i].family = f
                                      /\ groups[i].gen = p.gen}

\* Engine.Batch: an event joins the group of its ticket or begins one.  What
\* makes a dossier unsafe is any event of the group.
Grouped(f, p, reason, unsafe) ==
  IF Same(f, p) # {}
  THEN [i \in 1..Len(groups) |->
          IF i \in Same(f, p)
          THEN [groups[i] EXCEPT !.unsafe = @ \/ unsafe] ELSE groups[i]]
  ELSE Append(groups, [family |-> f, gen |-> p.gen, reason |-> reason,
                       unsafe |-> unsafe, mode |-> "default",
                       pending |-> FALSE, key |-> FALSE, verdict |-> Unknown])

\* One event of a batch; the batch reads the clocks once.
Observe(f, unsafe) ==
  /\ phase \in {"idle", "group"}
  /\ sequence < MaxEvents /\ Len(groups) < BatchSize
  /\ LET t == IF phase = "idle" THEN Clock ELSE now
         p == Partition(f)
         reason == Reason(f, p, t)
     IN /\ now' = t
        /\ entries' = [x \in (DOMAIN entries \ Evicted(f)) \cup {f} |->
                         IF x = f THEN Observed(f, p, t, reason)
                                  ELSE entries[x]]
        /\ generation' = Most(generation, p.gen)
        /\ observed' = IF reason = "review_required" THEN observed
                       ELSE Most(observed, t.wall)
        /\ IF reason = "cached"
           THEN /\ reuse' = [id |-> p.verdict.id, family |-> f, at |-> t]
                /\ UNCHANGED groups
           ELSE /\ groups' = Grouped(f, p, reason, unsafe)
                /\ reuse' = NoReuse
  /\ phase' = "group" /\ sequence' = sequence + 1
  /\ UNCHANGED <<clocks, store, config, asked, index, stops, history>>

Current(g) == g.family \in DOMAIN entries /\ entries[g.family].gen = g.gen

\* Variants: a ticket that a later event made stale is stored like any other; a
\* vetoed family is looked up like any other.
ModeOfReason(g) ==
  IF g.reason = "review_required" THEN "bypass"
  ELSE IF g.reason \in {"stable_audit", "clock_rollback", "cache_expired"}
       THEN "refresh" ELSE "default"
ModeUnreviewed(g) ==
  IF ~Current(g) THEN "bypass"
  ELSE IF g.reason \in {"stable_audit", "clock_rollback", "cache_expired"}
       THEN "refresh" ELSE "default"

\* How the durable cache is used for a group.
Mode(g) ==
  IF g.reason = "review_required" \/ ~Current(g) THEN "bypass"
  ELSE IF g.reason \in {"stable_audit", "clock_rollback", "cache_expired"}
       THEN "refresh" ELSE "default"

\* The batch is complete; the judge reads the clocks.
CloseBatch ==
  /\ phase = "group"
  /\ phase' = IF groups = <<>> THEN "idle" ELSE "prepare"
  /\ groups' = [i \in 1..Len(groups) |->
                  [groups[i] EXCEPT !.mode = Mode(groups[i])]]
  /\ IF groups = <<>> THEN now' = NoReading /\ UNCHANGED asked
                       ELSE asked' = Clock /\ UNCHANGED now
  /\ index' = 1 /\ reuse' = NoReuse
  /\ UNCHANGED <<clocks, store, config, grouper, stops, history>>

-----------------------------------------------------------------------------
\* The judge, before it asks the provider.

Group == groups[index]

\* The next group, or after the last one the first of the next phase.
Advance(here, next) ==
  IF index < Len(groups) THEN index' = index + 1 /\ phase' = here
                         ELSE index' = 1 /\ phase' = next

\* A reassessment deletes the family's row before it is dispatched.
Invalidates(g) == rescore \/ g.mode # "default" \/ g.unsafe

\* Variant: the row stays until an answer replaces it.
DeletedHeld(f) == lifetimes' = Without(lifetimes, f) /\ UNCHANGED verdicts

\* deleteVerdict.
Deleted(f) == verdicts' = Without(verdicts, f) /\ lifetimes' = Without(lifetimes, f)

\* Lookup.  At capacity a family without a lifetime misses.
NoSlot(f) == /\ f \notin DOMAIN lifetimes
             /\ Cardinality(DOMAIN lifetimes) >= StateCapacity

\* Variant: a row lives as long as the process that stored it was told.
RowUnexpired(r, t) == t.wall >= r.created /\ t.wall < r.expires

RowInLife(r, t) ==
  t.wall >= r.created /\ t.wall < r.expires /\ t.wall - r.created < ttl

\* The verdict of a row with the bounds that are left of it, and no later than
\* those this process already gave it.
Hit(f, t) ==
  LET r == verdicts[f]
      end == Least(r.expires, r.created + ttl)
      j == [id |-> r.id, created |-> r.created, expires |-> end,
            observed |-> t.wall, deadline |-> t.elapsed + (end - t.wall)]
  IN IF f \notin DOMAIN lifetimes THEN j
     ELSE [j EXCEPT !.expires = Least(@, lifetimes[f].expires),
                    !.deadline = Least(@, lifetimes[f].deadline)]

\* Variant: what this process knew of the row is forgotten.
InLifeAnew(f) == RowInLife(verdicts[f], asked)

InLife(f) ==
  /\ RowInLife(verdicts[f], asked)
  /\ f \in DOMAIN lifetimes => CacheValidAt(lifetimes[f], asked)

Found(f) == ~NoSlot(f) /\ f \in DOMAIN verdicts

\* The group goes to the provider; keep says whether its answer may be stored.
Pend(keep) ==
  /\ groups' = [groups EXCEPT ![index] = [@ EXCEPT !.pending = TRUE,
                                                   !.key = keep]]
  /\ index' = index + 1 /\ reuse' = NoReuse
  /\ UNCHANGED <<phase, now, asked, history>>

Preparing == phase = "prepare" /\ index <= Len(groups)

PrepareUncached ==
  /\ Preparing /\ ~durable
  /\ Pend(FALSE)
  /\ UNCHANGED <<clocks, store, config, grouper, stops>>

PrepareFresh ==
  /\ Preparing /\ durable /\ Invalidates(Group)
  /\ Deleted(Group.family)
  /\ Pend(~Group.unsafe /\ Group.mode # "bypass")
  /\ UNCHANGED <<clocks, config, grouper, stops>>

PrepareMiss ==
  /\ Preparing /\ durable /\ ~Invalidates(Group)
  /\ ~(Found(Group.family) /\ InLife(Group.family))
  /\ IF NoSlot(Group.family) THEN UNCHANGED store ELSE Deleted(Group.family)
  /\ Pend(TRUE)
  /\ UNCHANGED <<clocks, config, grouper, stops>>

\* The process has the verdict id from time t on.
Hold(id, t) == IF id \in DOMAIN since THEN since ELSE With(since, id, t)

PrepareHit ==
  /\ Preparing /\ durable /\ ~Invalidates(Group)
  /\ Found(Group.family) /\ InLife(Group.family)
  /\ LET f == Group.family
         j == Hit(f, asked)
     IN /\ lifetimes' = With(lifetimes, f, j)
        /\ groups' = [groups EXCEPT ![index] = [@ EXCEPT !.verdict = j]]
        /\ reuse' = [id |-> j.id, family |-> f, at |-> asked]
        /\ since' = Hold(j.id, asked.elapsed)
  /\ index' = index + 1
  /\ UNCHANGED <<clocks, verdicts, config, grouper, phase, now, asked, stops,
                 assessed, last, born>>

-----------------------------------------------------------------------------
\* The provider.

Pending == {i \in 1..Len(groups) : groups[i].pending}
AssessmentOf(i) == assessed + Cardinality({k \in Pending : k <= i})

\* The groups that were not found are sent; each is a new assessment.
Dispatch ==
  /\ phase = "prepare" /\ index > Len(groups) /\ Pending # {}
  /\ phase' = "answer" /\ index' = 1
  /\ assessed' = assessed + Cardinality(Pending)
  /\ LET ids == {AssessmentOf(i) : i \in Pending}
         of(f) == {i \in Pending : groups[i].family = f}
     IN /\ last' = [f \in Families |->
                      IF of(f) = {} THEN last[f]
                      ELSE CHOOSE n \in {AssessmentOf(i) : i \in of(f)} :
                             \A i \in of(f) : AssessmentOf(i) <= n]
        /\ born' = [n \in DOMAIN born \cup ids |->
                      IF n \in ids THEN asked ELSE born[n]]
        /\ since' = [n \in DOMAIN since \cup ids |->
                       IF n \in ids THEN asked.elapsed ELSE since[n]]
  /\ groups' = [i \in 1..Len(groups) |->
                  IF groups[i].pending
                  THEN [groups[i] EXCEPT
                          !.verdict = [Unknown EXCEPT !.id = AssessmentOf(i)]]
                  ELSE groups[i]]
  /\ reuse' = NoReuse
  /\ UNCHANGED <<clocks, store, config, grouper, now, asked, stops>>

NothingToAsk ==
  /\ phase = "prepare" /\ index > Len(groups) /\ Pending = {}
  /\ phase' = "publish" /\ index' = 1 /\ reuse' = NoReuse
  /\ UNCHANGED <<clocks, store, config, grouper, now, asked, groups, stops,
                 history>>

\* An answer for each group; only those of good are confident, complete and of
\* a kind that may be reused.
Respond(good) ==
  /\ phase = "answer"
  /\ phase' = "keep" /\ index' = 1 /\ reuse' = NoReuse
  /\ groups' = [i \in 1..Len(groups) |->
                  IF i \in Pending \ good
                  THEN [groups[i] EXCEPT !.verdict = Unknown] ELSE groups[i]]
  /\ UNCHANGED <<clocks, store, config, grouper, now, asked, stops, history>>

\* The context is over, a statement fails or the provider does: every group of
\* the batch is unknown, those found in the table included.
JudgeFails ==
  /\ phase \in {"prepare", "answer", "keep"}
  /\ phase' = "publish" /\ index' = 1 /\ reuse' = NoReuse
  /\ groups' = [i \in 1..Len(groups) |->
                  [groups[i] EXCEPT !.verdict = Unknown]]
  /\ UNCHANGED <<clocks, store, config, grouper, now, asked, stops, history>>

-----------------------------------------------------------------------------
\* The judge stores what may be reused, in the lifetime that began when it was
\* asked.

\* makeRoom("verdicts"): the row that expires first goes.
Displaced(f) ==
  IF f \in DOMAIN verdicts \/ Cardinality(DOMAIN verdicts) < StateCapacity
  THEN {{}}
  ELSE {{x} : x \in {y \in DOMAIN verdicts : \A z \in DOMAIN verdicts :
                        verdicts[y].expires <= verdicts[z].expires}}

\* PutVerdict: a verdict without a slot for its lifetime is not stored.
Put(f, j) ==
  IF NoSlot(f)
  THEN Deleted(f)
  ELSE /\ \E old \in Displaced(f) :
            verdicts' = [x \in (DOMAIN verdicts \ old) \cup {f} |->
                           IF x = f THEN [id |-> j.id, created |-> j.created,
                                          expires |-> j.created + ttl]
                                    ELSE verdicts[x]]
       /\ lifetimes' = With(lifetimes, f, j)

Keep ==
  /\ phase = "keep"
  /\ IF Group.key /\ Reusable(Group.verdict)
     THEN LET j == Bounded(Group.verdict.id, asked, ttl)
          IN /\ groups' = [groups EXCEPT ![index] = [@ EXCEPT !.verdict = j]]
             /\ IF CacheValidAt(j, Clock) THEN Put(Group.family, j) ELSE UNCHANGED store
     ELSE UNCHANGED <<groups, store>>
  /\ Advance("keep", "publish") /\ reuse' = NoReuse
  /\ UNCHANGED <<clocks, config, grouper, now, asked, stops, history>>

-----------------------------------------------------------------------------
\* The lane publishes to the partitions.

\* Variant: the lifetime begins when the answer has come.
BoundsLate(g) == IF g.verdict.created = NoTime
                 THEN Bounded(g.verdict.id, Clock, ttl) ELSE g.verdict

\* Engine.Batch: an answer without bounds gets those of the batch.
BoundsOf(g) == IF g.verdict.created = NoTime
               THEN Bounded(g.verdict.id, now, ttl) ELSE g.verdict

Publishable(p, j, t) ==
  ~(p.observed # NoTime /\ t.wall < p.observed) /\ CacheValidAt(j, t)

\* Grouper.Publish, for a verdict that may be reused.  A routine verdict is
\* audited less and less often.
Published(f, j, t, routine) ==
  LET p == entries[f]
      interval == IF routine
                  THEN Least(NormalInterval, Most(AuditInterval,
                                                  2 * p.interval))
                  ELSE AuditInterval
  IN IF f \in review THEN p
     ELSE IF Publishable(p, j, t)
     THEN [p EXCEPT !.verdict = j, !.refresh = FALSE, !.observed = t.wall,
                    !.expires = Least(t.elapsed + ttl, j.deadline),
                    !.interval = interval, !.auditAt = p.seen + interval]
     ELSE [p EXCEPT !.verdict = Unknown, !.refresh = TRUE]

\* A stale answer is dropped; an unsafe or unusable one invalidates.
Publish(routine) ==
  /\ phase = "publish"
  /\ IF ~Current(Group) THEN UNCHANGED entries
     ELSE entries' = [entries EXCEPT ![Group.family] =
                        IF Reusable(Group.verdict) /\ ~Group.unsafe
                        THEN Published(Group.family, BoundsOf(Group), Clock,
                                       routine)
                        ELSE [@ EXCEPT !.verdict = Unknown]]
  /\ Advance("publish", "idle") /\ reuse' = NoReuse
  /\ IF phase' = "idle"
     THEN groups' = <<>> /\ now' = NoReading /\ asked' = NoReading
     ELSE UNCHANGED <<groups, now, asked>>
  /\ UNCHANGED <<clocks, store, config, generation, sequence, observed, stops,
                 history>>

-----------------------------------------------------------------------------
\* The environment.

\* The clocks are read when a batch begins, when the judge is asked, before an
\* answer is kept and when it is published: what passes while a request is
\* prepared or answered is the same as if it passed right after.
Passing == phase \notin {"prepare", "answer"}

Tick ==
  /\ Passing
  /\ elapsed < MaxElapsed /\ wall < MaxWall
  /\ elapsed' = elapsed + 1 /\ wall' = wall + 1
  /\ reuse' = NoReuse
  /\ UNCHANGED <<sets, store, config, grouper, lane, stops, history>>

SetWall(w) ==
  /\ Passing
  /\ sets < MaxSets /\ w # wall
  /\ wall' = w /\ sets' = sets + 1
  /\ reuse' = NoReuse
  /\ UNCHANGED <<elapsed, store, config, grouper, lane, stops, history>>

\* The process stops anywhere and is started again, with a configuration of its
\* own; the table is all it finds.  The number of events goes on, being a bound.
Restart ==
  /\ stops < MaxStops
  /\ stops' = stops + 1
  /\ ttl' \in TTLs /\ review' \in Vetoes /\ rescore' \in Rescores
  /\ lifetimes' = Empty
  /\ entries' = Empty /\ generation' = 0 /\ observed' = NoTime
  /\ phase' = "idle" /\ groups' = <<>> /\ index' = 1
  /\ now' = NoReading /\ asked' = NoReading
  /\ since' = Empty /\ reuse' = NoReuse
  /\ UNCHANGED <<clocks, verdicts, sequence, assessed, last, born, durable>>

Batch ==
  \/ \E f \in Families, unsafe \in BOOLEAN : Observe(f, unsafe)
  \/ CloseBatch

Judge ==
  \/ PrepareUncached \/ PrepareFresh \/ PrepareMiss \/ PrepareHit
  \/ Dispatch \/ NothingToAsk
  \/ \E good \in SUBSET Pending : Respond(good)
  \/ JudgeFails
  \/ Keep

Next ==
  \/ Batch
  \/ Judge
  \/ \E routine \in BOOLEAN : Publish(routine)
  \/ Tick
  \/ \E w \in 0..MaxWall : SetWall(w)
  \/ Restart

Spec == Init /\ [][Next]_vars

-----------------------------------------------------------------------------
\* Properties.

\* docs/adaptive-log-learning.md:3, "Failed/uncertain/unsafe observations
\* invalidate reusable state": a verdict is reused only while no later
\* assessment of its family was sent, in this process or an earlier one,
\* whatever became of that one; docs/controller.md:22: a vetoed family is always
\* assessed, also when a row of it was stored before it was vetoed.
ReuseIsLatest ==
  reuse.id # 0 => /\ reuse.id = last[reuse.family]
                  /\ reuse.family \notin review

\* In one process a verdict is reused for less than its lifetime, counted from
\* when the process sent for it or first found it, whatever happens to the wall
\* clock; across restarts the same holds as long as nobody set the clock.
EndsInProcess(r) == r.at.elapsed - since[r.id] < ttl
EndsAcrossRestarts(r) ==
  born[r.id].sets = r.at.sets => r.at.elapsed - born[r.id].elapsed < ttl

\* docs/drain-template-mining.md:3, "TTL is non-sliding": a late answer, an
\* eviction, a restart with another lifetime or a clock set back does not make
\* a verdict live longer.
ReuseEnds == reuse.id # 0 => EndsInProcess(reuse) /\ EndsAcrossRestarts(reuse)

\* docs/drain-template-mining.md:3 and 7: an answer whose ticket an event of the
\* same batch made stale, or whose evidence is unsafe, is kept neither in the
\* table nor in a partition.
RefusedNotKept ==
  \A i \in 1..Len(groups) :
    LET g == groups[i]
    IN Reusable(g.verdict) /\ (g.unsafe \/ ~Current(g)) =>
         /\ g.family \in DOMAIN verdicts =>
              verdicts[g.family].id # g.verdict.id
         /\ g.family \in DOMAIN entries =>
              entries[g.family].verdict.id # g.verdict.id
=============================================================================

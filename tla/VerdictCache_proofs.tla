------------------------ MODULE VerdictCache_proofs ------------------------
(***************************************************************************)
(* Proofs about VerdictCache, for any families, capacities, lifetimes,     *)
(* batches, restarts and settings of the clock: what was refused is kept   *)
(* nowhere, a verdict is reused for no longer than its lifetime and, as    *)
(* long as no lookup leaves a row because the registry of lifetimes is     *)
(* full, only the latest assessment is reused.                             *)
(***************************************************************************)
EXTENDS VerdictCache, FiniteSetTheorems, SequenceTheorems, TLAPS

USE CacheAssumption

-----------------------------------------------------------------------------
(* The inductive invariant.                                                *)

Verdict == [id : Nat, created : Int, expires : Int, observed : Int, deadline : Int]
Row == [id : Nat, created : Int, expires : Int]
Reading == [wall : Int, elapsed : Int, sets : Nat]
PartitionType == [gen : Nat, seen : Nat, last : Nat, verdict : Verdict, expires : Int,
                  observed : Int, refresh : BOOLEAN, auditAt : Int, interval : Nat]
Reasons == {"review_required", "clock_rollback", "cache_expired", "new_or_expired", "stable_audit"}
GroupType == [family : Families, gen : Nat, reason : Reasons, unsafe : BOOLEAN,
              mode : {"default", "refresh", "bypass"}, pending : BOOLEAN,
              key : BOOLEAN, verdict : Verdict]

Judged == {"prepare", "answer", "keep", "publish"}

StoreType ==
  /\ wall \in Nat /\ elapsed \in Nat /\ sets \in Nat
  /\ ttl \in Nat \ {0} /\ durable \in BOOLEAN
  /\ DOMAIN verdicts \subseteq Families /\ \A f \in DOMAIN verdicts : verdicts[f] \in Row
  /\ DOMAIN lifetimes \subseteq Families /\ \A f \in DOMAIN lifetimes : lifetimes[f] \in Verdict
  /\ assessed \in Nat
  /\ DOMAIN born \subseteq 1..assessed /\ \A n \in DOMAIN born : born[n] \in Reading
  /\ DOMAIN since \subseteq DOMAIN born /\ \A n \in DOMAIN since : since[n] \in Int

LaneType ==
  /\ DOMAIN entries \subseteq Families
  /\ \A f \in DOMAIN entries : entries[f] \in PartitionType
  /\ generation \in Nat /\ sequence \in Nat /\ observed \in Int
  /\ phase \in {"idle", "group"} \cup Judged
  /\ now \in Reading /\ asked \in Reading
  /\ groups \in Seq(GroupType)
  /\ phase = "idle" => Len(groups) = 0
  /\ phase \in Judged => Len(groups) # 0
  /\ phase = "prepare" => index \in 1..(Len(groups) + 1)
  /\ phase \in {"keep", "publish"} => index \in 1..Len(groups)

\* Generations grow, so the group of the current partition is the last one of its
\* family in the batch.
OrderInv ==
  /\ \A f \in DOMAIN entries : entries[f].gen <= generation
  /\ \A i \in DOMAIN groups :
       /\ groups[i].gen <= generation
       /\ groups[i].family \in DOMAIN entries =>
            groups[i].gen <= entries[groups[i].family].gen
  /\ \A i, k \in DOMAIN groups :
       i < k /\ groups[i].family = groups[k].family => groups[i].gen < groups[k].gen

\* What the judge has made of a group: nothing yet, a verdict that it found, or
\* one it asks for, which it may keep only if it is current and safe.
Untouched(i) ==
  groups[i].verdict = Unknown /\ ~groups[i].pending /\ ~groups[i].key

GroupInv ==
  /\ \A i \in DOMAIN groups :
       /\ phase = "group" => Untouched(i)
       /\ phase = "prepare" /\ index <= i => Untouched(i)
       /\ phase = "prepare" /\ groups[i].pending => ~Reusable(groups[i].verdict)
       /\ groups[i].key =>
            groups[i].pending /\ ~groups[i].unsafe /\ Current(groups[i]) /\ durable
       /\ Reusable(groups[i].verdict) /\ ~groups[i].pending =>
            ~groups[i].unsafe /\ Current(groups[i])
       /\ groups[i].family \in review => groups[i].reason = "review_required"
       /\ phase \in Judged /\ groups[i].mode # "bypass" =>
            Current(groups[i]) /\ groups[i].reason # "review_required"
       /\ phase \in {"group", "prepare", "answer", "keep"}
            /\ groups[i].family \in DOMAIN entries =>
              ~Reusable(entries[groups[i].family].verdict)

\* A verdict has the number of its assessment, whoever holds it.
IdsInv ==
  /\ \A f \in DOMAIN verdicts : verdicts[f].id \in DOMAIN born
  /\ \A f, g \in DOMAIN verdicts : verdicts[f].id = verdicts[g].id => f = g
  /\ \A f \in DOMAIN entries :
       Reusable(entries[f].verdict) => entries[f].verdict.id \in DOMAIN born
  /\ \A i \in DOMAIN groups :
       Reusable(groups[i].verdict) => groups[i].verdict.id \in DOMAIN born
  /\ \A i, k \in DOMAIN groups :
       Reusable(groups[i].verdict) /\ groups[i].pending
         /\ groups[k].verdict.id = groups[i].verdict.id => k = i
  /\ \A i \in DOMAIN groups : Reusable(groups[i].verdict) /\ groups[i].pending =>
       /\ \A f \in DOMAIN verdicts : verdicts[f].id = groups[i].verdict.id =>
            f = groups[i].family /\ groups[i].key
       /\ \A f \in DOMAIN entries : entries[f].verdict.id = groups[i].verdict.id =>
            f = groups[i].family /\ Current(groups[i]) /\ ~groups[i].unsafe

CacheInv == StoreType /\ LaneType /\ OrderInv /\ GroupInv /\ IdsInv

\* What is held is the latest assessment of its family.
LatestInv ==
  /\ \A f \in DOMAIN verdicts : verdicts[f].id = last[f]
  /\ \A f \in DOMAIN entries :
       Reusable(entries[f].verdict) => entries[f].verdict.id = last[f]
  /\ \A i \in DOMAIN groups : Reusable(groups[i].verdict) /\ Current(groups[i]) =>
       groups[i].verdict.id = last[groups[i].family]
  /\ ~durable => DOMAIN verdicts = {}
  /\ phase = "prepare" => \A i \in DOMAIN groups : groups[i].pending =>
       groups[i].family \notin DOMAIN verdicts
  /\ phase = "prepare" => \A i, k \in DOMAIN groups :
       Reusable(groups[i].verdict) /\ groups[k].pending =>
         groups[i].family # groups[k].family
  /\ ReuseIsLatest

\* A reading of the clocks agrees with what they show until the wall clock is set.
ReadingTrue(r) ==
  /\ r.elapsed <= elapsed /\ r.sets <= sets
  /\ r.sets = sets => r.wall - r.elapsed = wall - elapsed

\* A verdict ends in time, by either clock; the wall clock had been set no later
\* than low when it was found.
EndsInTime(j, low) ==
  /\ j.id \in DOMAIN since
  /\ j.deadline <= since[j.id] + ttl
  /\ born[j.id].sets < low \/ j.deadline <= born[j.id].elapsed + ttl

\* A partition is looked at by the clocks of its batch.
Low == IF phase = "group" THEN now.sets ELSE sets

ClockInv ==
  /\ \A n \in DOMAIN born : ReadingTrue(born[n])
  /\ phase # "idle" => ReadingTrue(now)
  /\ phase \in Judged => ReadingTrue(asked) /\ now.elapsed <= asked.elapsed
                         /\ asked.wall >= 0
  /\ phase \in {"prepare", "answer"} => asked = Clock

LifeInv ==
  /\ \A f \in DOMAIN verdicts :
       /\ verdicts[f].created = born[verdicts[f].id].wall /\ verdicts[f].created >= 0
       /\ verdicts[f].id \in DOMAIN since => f \in DOMAIN lifetimes
  /\ \A f \in DOMAIN lifetimes :
       /\ EndsInTime(lifetimes[f], sets)
       /\ f \in DOMAIN verdicts => lifetimes[f].id = verdicts[f].id
  /\ \A f \in DOMAIN entries : Reusable(entries[f].verdict) =>
       EndsInTime(entries[f].verdict, Low)
  /\ \A i \in DOMAIN groups : Reusable(groups[i].verdict) =>
       /\ groups[i].verdict.created # NoTime => EndsInTime(groups[i].verdict, sets)
       /\ ~groups[i].pending => groups[i].verdict.created # NoTime
       /\ groups[i].pending =>
            /\ groups[i].verdict.id \in DOMAIN since
            /\ since[groups[i].verdict.id] = asked.elapsed
            /\ born[groups[i].verdict.id] = asked
  /\ ReuseEnds

-----------------------------------------------------------------------------
(* Facts about the operators.                                              *)

LEMMA ReadingTypes ==
  /\ Unknown \in Verdict /\ NoReading \in Reading
  /\ StoreType => Clock \in Reading
BY DEF Unknown, Verdict, NoTime, NoReading, Reading, StoreType, Clock

LEMMA ConfigTypes == TTLs \subseteq Nat \ {0} /\ StartWall \in Nat
OBVIOUS

LEMMA BoundedTyped ==
  ASSUME NEW id \in Nat, NEW t \in Reading, NEW d \in Nat
  PROVE  /\ Bounded(id, t, d) \in Verdict
         /\ Bounded(id, t, d).id = id
         /\ Bounded(id, t, d).created = t.wall
         /\ Bounded(id, t, d).deadline = t.elapsed + d
BY DEF Bounded, Verdict, Reading

\* A group that is given a verdict is the same group.
Alike(g, h) ==
  /\ h.family = g.family /\ h.gen = g.gen /\ h.reason = g.reason
  /\ h.unsafe = g.unsafe /\ h.mode = g.mode
  /\ h.pending = g.pending /\ h.key = g.key

LEMMA GroupJudged ==
  ASSUME NEW g \in GroupType, NEW v \in Verdict
  PROVE  /\ [g EXCEPT !.verdict = v] \in GroupType
         /\ Alike(g, [g EXCEPT !.verdict = v])
         /\ [g EXCEPT !.verdict = v].verdict = v
BY DEF GroupType, Alike

LEMMA GroupSent ==
  ASSUME NEW g \in GroupType, NEW keep \in BOOLEAN
  PROVE  LET h == [g EXCEPT !.pending = TRUE, !.key = keep]
         IN /\ h \in GroupType
            /\ h.family = g.family /\ h.gen = g.gen /\ h.reason = g.reason
            /\ h.unsafe = g.unsafe /\ h.mode = g.mode /\ h.verdict = g.verdict
            /\ h.pending = TRUE /\ h.key = keep
BY DEF GroupType

LEMMA GroupModed ==
  ASSUME NEW g \in GroupType
  PROVE  LET h == [g EXCEPT !.mode = Mode(g)]
         IN /\ h \in GroupType /\ h.mode = Mode(g)
            /\ h.family = g.family /\ h.gen = g.gen /\ h.reason = g.reason
            /\ h.unsafe = g.unsafe /\ h.verdict = g.verdict
            /\ h.pending = g.pending /\ h.key = g.key
<1>1. Mode(g) \in {"default", "refresh", "bypass"}
  BY DEF Mode
<1> QED BY <1>1 DEF GroupType

LEMMA GroupAt ==
  ASSUME LaneType, NEW i \in DOMAIN groups
  PROVE  groups[i] \in GroupType /\ i \in Nat \ {0} /\ i <= Len(groups)
BY DEF LaneType

LEMMA GroupsDomain ==
  ASSUME LaneType
  PROVE  DOMAIN groups = 1..Len(groups) /\ Len(groups) \in Nat
BY DEF LaneType

\* A sequence of groups written index by index.
LEMMA GroupsBuilt ==
  ASSUME NEW n \in Nat, NEW s, s = [i \in 1..n |-> s[i]], \A i \in 1..n : s[i] \in GroupType
  PROVE  s \in Seq(GroupType) /\ Len(s) = n /\ DOMAIN s = 1..n
<1> QED BY SMTT(60), IsASeq

-----------------------------------------------------------------------------
(* What the steps of the judge do to the groups, index by index.           *)

\* The group at index goes to the provider.
Sends(keep) ==
  /\ phase = "prepare" /\ index \in 1..Len(groups)
  /\ index' = index + 1 /\ reuse' = NoReuse
  /\ groups' = [groups EXCEPT ![index] = [@ EXCEPT !.pending = TRUE, !.key = keep]]
  /\ \/ Deleted(Group.family)
     \/ UNCHANGED store /\ (~durable \/ (PrepareMiss /\ NoSlot(Group.family)))
  /\ keep => ~Group.unsafe /\ Current(Group) /\ durable
  /\ UNCHANGED <<clocks, config, grouper, phase, now, asked, stops, history>>

LEMMA Sending ==
  ASSUME CacheInv, PrepareUncached \/ PrepareFresh \/ PrepareMiss
  PROVE  \E keep \in BOOLEAN : Sends(keep)
<1>1. phase = "prepare" /\ index \in 1..Len(groups)
  <2>1. phase = "prepare" /\ index <= Len(groups)
    BY DEF PrepareUncached, PrepareFresh, PrepareMiss, Preparing
  <2>2. index \in 1..(Len(groups) + 1) /\ Len(groups) \in Nat
    BY <2>1, GroupsDomain DEF CacheInv, LaneType
  <2> QED BY <2>1, <2>2
<1>2. Group \in GroupType
  BY <1>1, GroupAt, GroupsDomain DEF Group, CacheInv
<1>3. Group.mode # "bypass" => Current(Group)
  BY <1>1, GroupsDomain DEF CacheInv, GroupInv, Judged, Group
<1>4. CASE PrepareUncached
  BY <1>1, <1>4 DEF PrepareUncached, Pend, Sends
<1>5. CASE PrepareFresh
  <2> DEFINE keep == ~Group.unsafe /\ Group.mode # "bypass"
  <2>1. keep \in BOOLEAN
    OBVIOUS
  <2>2. Sends(keep)
    BY <1>1, <1>3, <1>5 DEF PrepareFresh, Pend, Sends
  <2> QED BY <2>1, <2>2
<1>6. CASE PrepareMiss
  <2>1. ~Group.unsafe /\ Group.mode = "default"
    BY <1>6 DEF PrepareMiss, Invalidates
  <2>2. Sends(TRUE)
    BY <1>1, <1>3, <1>6, <2>1 DEF PrepareMiss, Pend, Sends
  <2> QED BY <2>2
<1> QED BY <1>4, <1>5, <1>6

LEMMA SentGroups ==
  ASSUME CacheInv, NEW keep \in BOOLEAN, Sends(keep)
  PROVE  /\ groups' \in Seq(GroupType) /\ Len(groups') = Len(groups)
         /\ DOMAIN groups' = DOMAIN groups /\ index \in DOMAIN groups
         /\ \A i \in DOMAIN groups :
              /\ groups'[i].family = groups[i].family /\ groups'[i].gen = groups[i].gen
              /\ groups'[i].reason = groups[i].reason /\ groups'[i].unsafe = groups[i].unsafe
              /\ groups'[i].mode = groups[i].mode /\ groups'[i].verdict = groups[i].verdict
         /\ \A i \in DOMAIN groups \ {index} : groups'[i] = groups[i]
         /\ groups'[index].pending = TRUE /\ groups'[index].key = keep
<1> DEFINE h == [groups[index] EXCEPT !.pending = TRUE, !.key = keep]
<1>1. groups \in Seq(GroupType) /\ index \in DOMAIN groups
  BY GroupsDomain DEF Sends, CacheInv, LaneType
<1>2. groups[index] \in GroupType
  BY <1>1
<1>3. /\ h \in GroupType
      /\ h.family = groups[index].family /\ h.gen = groups[index].gen
      /\ h.reason = groups[index].reason /\ h.unsafe = groups[index].unsafe
      /\ h.mode = groups[index].mode /\ h.verdict = groups[index].verdict
      /\ h.pending = TRUE /\ h.key = keep
  BY ZenonT(60), <1>2, GroupSent
<1> HIDE DEF h
<1>4. groups' = [groups EXCEPT ![index] = h]
  BY DEF Sends, h
<1> QED BY SMTT(60), <1>1, <1>3, <1>4

\* The groups keep all but their verdicts.
Answers ==
  /\ groups' \in Seq(GroupType) /\ Len(groups') = Len(groups)
  /\ DOMAIN groups' = DOMAIN groups
  /\ \A i \in DOMAIN groups : Alike(groups[i], groups'[i])

LEMMA JudgedGroup ==
  ASSUME LaneType, NEW k \in DOMAIN groups, NEW v \in Verdict,
         groups' = [groups EXCEPT ![k] = [@ EXCEPT !.verdict = v]]
  PROVE  /\ Answers
         /\ groups'[k].verdict = v
         /\ \A i \in DOMAIN groups \ {k} : groups'[i] = groups[i]
<1> DEFINE h == [groups[k] EXCEPT !.verdict = v]
<1>1. groups \in Seq(GroupType) /\ groups[k] \in GroupType
  BY DEF LaneType
<1>2. h \in GroupType /\ Alike(groups[k], h) /\ h.verdict = v
  BY <1>1, GroupJudged
<1> HIDE DEF h
<1>3. groups' = [groups EXCEPT ![k] = h]
  BY DEF h
<1>4. \A i \in DOMAIN groups : Alike(groups[i], groups[i])
  BY DEF Alike
<1>5. \A i \in DOMAIN groups \ {k} : groups'[i] = groups[i]
  BY <1>3
<1>6. groups'[k] = h
  BY <1>1, <1>3
<1>7. \A i \in DOMAIN groups : Alike(groups[i], groups'[i])
  BY <1>2, <1>4, <1>5, <1>6
<1>8. groups' \in Seq(GroupType) /\ Len(groups') = Len(groups) /\ DOMAIN groups' = DOMAIN groups
  BY <1>1, <1>2, <1>3
<1> QED BY <1>2, <1>5, <1>6, <1>7, <1>8 DEF Answers

LEMMA JudgedGroups ==
  ASSUME LaneType, groups' = [i \in 1..Len(groups) |-> groups'[i]],
         \A i \in DOMAIN groups :
           \/ groups'[i] = groups[i]
           \/ \E v \in Verdict : groups'[i] = [groups[i] EXCEPT !.verdict = v]
  PROVE  Answers
<1>1. Len(groups) \in Nat /\ DOMAIN groups = 1..Len(groups)
  BY GroupsDomain
<1>2. ASSUME NEW i \in DOMAIN groups
      PROVE  groups'[i] \in GroupType /\ Alike(groups[i], groups'[i])
  <2>1. groups[i] \in GroupType
    BY GroupAt
  <2>2. CASE groups'[i] = groups[i]
    BY <2>1, <2>2 DEF Alike
  <2>3. CASE \E v \in Verdict : groups'[i] = [groups[i] EXCEPT !.verdict = v]
    BY <2>1, <2>3, GroupJudged
  <2> QED BY <1>2, <2>2, <2>3
<1>3. groups' \in Seq(GroupType) /\ Len(groups') = Len(groups) /\ DOMAIN groups' = DOMAIN groups
  BY <1>1, <1>2, GroupsBuilt
<1> QED BY <1>2, <1>3 DEF Answers

\* A group that is sent has no verdict yet.
LEMMA SentReusable ==
  ASSUME CacheInv, NEW keep \in BOOLEAN, Sends(keep)
  PROVE  \A i \in DOMAIN groups' : Reusable(groups'[i].verdict) =>
           i \in DOMAIN groups /\ groups'[i] = groups[i]
<1>1. /\ DOMAIN groups' = DOMAIN groups /\ index \in DOMAIN groups
      /\ \A i \in DOMAIN groups : groups'[i].verdict = groups[i].verdict
      /\ \A i \in DOMAIN groups \ {index} : groups'[i] = groups[i]
  BY SentGroups
<1>2. index \in Nat /\ phase = "prepare"
  BY <1>1, GroupAt DEF CacheInv, Sends
<1>3. groups'[index].verdict = Unknown
  BY <1>1, <1>2 DEF CacheInv, GroupInv, Untouched
<1>4. ~Reusable(groups'[index].verdict)
  BY <1>3 DEF Reusable, Unknown
<1> QED BY <1>1, <1>4

\* Answers that refuse: the next phase with fewer verdicts.
Refuses ==
  /\ phase \in {"prepare", "answer", "keep"} /\ phase' \in {"keep", "publish"}
  /\ index' = 1 /\ reuse' = NoReuse
  /\ Answers
  /\ \A i \in DOMAIN groups :
       groups'[i].verdict = groups[i].verdict \/ groups'[i].verdict = Unknown
  /\ UNCHANGED <<clocks, store, config, grouper, now, asked, stops, history>>

LEMMA Refusing ==
  ASSUME CacheInv,
         NothingToAsk \/ JudgeFails \/ \E good \in SUBSET Pending : Respond(good)
  PROVE  Refuses
<1>1. LaneType /\ DOMAIN groups = 1..Len(groups) /\ Unknown \in Verdict
  BY GroupsDomain, ReadingTypes DEF CacheInv
<1>2. \A i \in DOMAIN groups : [groups[i] EXCEPT !.verdict = Unknown].verdict = Unknown
  BY <1>1, GroupAt, GroupJudged
<1>3. CASE NothingToAsk
  <2>1. Answers
    BY <1>1, <1>3 DEF NothingToAsk, Answers, Alike, LaneType
  <2> QED BY <1>3, <2>1 DEF NothingToAsk, Refuses
<1>4. CASE JudgeFails
  <2>1. groups' = [i \in 1..Len(groups) |-> [groups[i] EXCEPT !.verdict = Unknown]]
    BY <1>4 DEF JudgeFails
  <2>2. Answers
    BY <1>1, <2>1, JudgedGroups
  <2>3. \A i \in DOMAIN groups : groups'[i].verdict = Unknown
    BY <1>1, <1>2, <2>1
  <2> QED BY <1>4, <2>2, <2>3 DEF JudgeFails, Refuses
<1>5. ASSUME NEW good \in SUBSET Pending, Respond(good)
      PROVE  Refuses
  <2>1. groups' = [i \in 1..Len(groups) |->
                     IF i \in Pending \ good
                     THEN [groups[i] EXCEPT !.verdict = Unknown] ELSE groups[i]]
    BY <1>5 DEF Respond
  <2>2. Answers
    BY <1>1, <2>1, JudgedGroups
  <2>3. \A i \in DOMAIN groups :
          groups'[i].verdict = groups[i].verdict \/ groups'[i].verdict = Unknown
    BY <1>1, <1>2, <2>1
  <2> QED BY <1>5, <2>2, <2>3 DEF Respond, Refuses
<1> QED BY <1>3, <1>4, <1>5

\* The numbers of the assessments of a batch are new, and grow with the batch.
LEMMA Assessments ==
  ASSUME CacheInv
  PROVE  /\ IsFiniteSet(Pending) /\ Cardinality(Pending) \in Nat
         /\ \A i \in Pending :
              /\ AssessmentOf(i) \in Nat
              /\ assessed < AssessmentOf(i)
              /\ AssessmentOf(i) <= assessed + Cardinality(Pending)
         /\ \A i, k \in Pending : i < k => AssessmentOf(i) < AssessmentOf(k)
<1> DEFINE upTo(i) == {k \in Pending : k <= i}
<1>1. Len(groups) \in Nat /\ assessed \in Nat /\ Pending \subseteq 1..Len(groups)
  BY GroupsDomain DEF CacheInv, StoreType, Pending
<1>2. IsFiniteSet(Pending) /\ Cardinality(Pending) \in Nat
  <2>1. IsFiniteSet(1..Len(groups))
    BY <1>1, FS_Interval
  <2> QED BY <1>1, <2>1, FS_Subset, FS_CardinalityType
<1>3. ASSUME NEW i \in Pending
      PROVE  /\ IsFiniteSet(upTo(i)) /\ Cardinality(upTo(i)) \in Nat
             /\ Cardinality(upTo(i)) <= Cardinality(Pending)
             /\ 0 < Cardinality(upTo(i))
  <2>1. IsFiniteSet(upTo(i)) /\ Cardinality(upTo(i)) <= Cardinality(Pending)
    BY <1>2, FS_Subset
  <2>2. i \in upTo(i)
    BY <1>1
  <2>3. Cardinality(upTo(i)) \in Nat /\ Cardinality(upTo(i)) # 0
    BY <2>1, <2>2, FS_CardinalityType, FS_EmptySet
  <2> QED BY <2>1, <2>3
<1>4. ASSUME NEW i \in Pending, NEW k \in Pending, i < k
      PROVE  Cardinality(upTo(i)) < Cardinality(upTo(k))
  <2>1. upTo(i) \subseteq upTo(k) /\ k \in upTo(k) /\ k \notin upTo(i)
    <3>1. i \in Nat /\ k \in Nat /\ \A j \in Pending : j \in Nat
      BY <1>1
    <3>2. /\ \A j \in Pending : j <= i => j <= k
          /\ k <= k /\ ~(k <= i)
      BY <1>4, <3>1
    <3>3. upTo(i) \subseteq upTo(k)
      BY <3>2
    <3>4. k \in upTo(k) /\ k \notin upTo(i)
      BY <3>2, Zenon
    <3> QED BY <3>3, <3>4
  <2>2. Cardinality(upTo(i)) <= Cardinality(upTo(k))
        /\ (Cardinality(upTo(i)) = Cardinality(upTo(k)) => upTo(i) = upTo(k))
    BY <1>3, <2>1, FS_Subset
  <2> QED BY <1>3, <2>1, <2>2
<1> HIDE DEF upTo
<1>5. \A i : AssessmentOf(i) = assessed + Cardinality(upTo(i))
  BY DEF AssessmentOf, upTo
<1> QED BY <1>1, <1>2, <1>3, <1>4, <1>5

LEMMA Dispatching ==
  ASSUME CacheInv, Dispatch
  PROVE  /\ Answers
         /\ \A i \in DOMAIN groups \ Pending : groups'[i] = groups[i]
         /\ \A i \in Pending : /\ i \in DOMAIN groups
                               /\ groups'[i].verdict.id = AssessmentOf(i)
                               /\ groups'[i].verdict.created = NoTime
         /\ assessed' = assessed + Cardinality(Pending)
<1>1. LaneType /\ DOMAIN groups = 1..Len(groups) /\ Pending \subseteq DOMAIN groups
  BY GroupsDomain DEF CacheInv, Pending
<1>2. groups' = [i \in 1..Len(groups) |->
                   IF groups[i].pending
                   THEN [groups[i] EXCEPT
                           !.verdict = [Unknown EXCEPT !.id = AssessmentOf(i)]]
                   ELSE groups[i]]
  BY DEF Dispatch
<1>3. ASSUME NEW i \in Pending
      PROVE  LET v == [Unknown EXCEPT !.id = AssessmentOf(i)]
             IN v \in Verdict /\ v.id = AssessmentOf(i) /\ v.created = NoTime
  BY <1>3, Assessments DEF Unknown, Verdict, NoTime
<1>4. ASSUME NEW i \in Pending
      PROVE  groups'[i] = [groups[i] EXCEPT !.verdict = [Unknown EXCEPT !.id = AssessmentOf(i)]]
  BY <1>1, <1>2, <1>4 DEF Pending
<1>5. ASSUME NEW i \in DOMAIN groups \ Pending
      PROVE  groups'[i] = groups[i]
  BY <1>1, <1>2, <1>5 DEF Pending
<1>6. Answers
  BY <1>1, <1>2, <1>3, <1>4, <1>5, JudgedGroups
<1>7. ASSUME NEW i \in Pending
      PROVE  groups'[i].verdict = [Unknown EXCEPT !.id = AssessmentOf(i)]
  <2> DEFINE v == [Unknown EXCEPT !.id = AssessmentOf(i)]
  <2>1. v \in Verdict /\ groups[i] \in GroupType
    BY <1>1, <1>3, <1>7, GroupAt
  <2>2. groups'[i] = [groups[i] EXCEPT !.verdict = v]
    BY <1>4, <1>7
  <2> HIDE DEF v
  <2>3. groups'[i].verdict = v
    BY <2>1, <2>2, GroupJudged
  <2> QED BY <2>3 DEF v
<1>8. assessed' = assessed + Cardinality(Pending)
  BY DEF Dispatch
<1> QED BY <1>1, <1>3, <1>5, <1>6, <1>7, <1>8

\* The last of a family in the batch is the last assessment of the family.
LEMMA LastOfFamily ==
  ASSUME CacheInv, Dispatch
  PROVE  /\ \A f \in Families : (\A i \in Pending : groups[i].family # f) => last'[f] = last[f]
         /\ \A i \in Pending :
              (\A k \in Pending : groups[k].family = groups[i].family => k <= i)
                => last'[groups[i].family] = AssessmentOf(i)
<1> DEFINE of(f) == {i \in Pending : groups[i].family = f}
<1>1. last' = [f \in Families |->
                 IF of(f) = {} THEN last[f]
                 ELSE CHOOSE n \in {AssessmentOf(i) : i \in of(f)} :
                        \A i \in of(f) : AssessmentOf(i) <= n]
  BY DEF Dispatch
<1>2. ASSUME NEW f \in Families, \A i \in Pending : groups[i].family # f
      PROVE  last'[f] = last[f]
  BY <1>1, <1>2
<1>3. ASSUME NEW i \in Pending,
             \A k \in Pending : groups[k].family = groups[i].family => k <= i
      PROVE  last'[groups[i].family] = AssessmentOf(i)
  <2> DEFINE f == groups[i].family
             S == {AssessmentOf(k) : k \in of(f)}
  <2>1. i \in DOMAIN groups /\ \A k \in Pending : k \in Nat
    BY GroupsDomain DEF Pending, CacheInv
  <2>2. f \in Families
    BY <2>1, GroupAt DEF CacheInv, GroupType
  <2>3. \A k \in of(f) : AssessmentOf(k) \in Nat /\ AssessmentOf(k) <= AssessmentOf(i)
    <3> TAKE k \in of(f)
    <3>1. k < i \/ k = i
      BY <1>3, <2>1
    <3> QED BY <3>1, Assessments
  <2>4. i \in of(f)
    OBVIOUS
  <2> HIDE DEF of, f
  <2>5. AssessmentOf(i) \in S
    BY <2>4
  <2>6. \A n \in S : n \in Nat /\ ((\A k \in of(f) : AssessmentOf(k) <= n) => n = AssessmentOf(i))
    BY <2>3, <2>4
  <2>7. (CHOOSE n \in S : \A k \in of(f) : AssessmentOf(k) <= n) = AssessmentOf(i)
    BY <2>3, <2>5, <2>6
  <2>8. last'[f] = CHOOSE n \in S : \A k \in of(f) : AssessmentOf(k) <= n
    BY <1>1, <2>2, <2>4
  <2> QED BY <2>7, <2>8 DEF f
<1> QED BY <1>2, <1>3

\* An assessment begins when the judge is asked.
LEMMA AssessmentsBegin ==
  ASSUME CacheInv, Dispatch
  PROVE  /\ DOMAIN born \subseteq DOMAIN born' /\ DOMAIN since \subseteq DOMAIN since'
         /\ \A n \in DOMAIN born : born'[n] = born[n]
         /\ \A n \in DOMAIN since : since'[n] = since[n]
         /\ \A n \in DOMAIN born' \ DOMAIN born : born'[n] = asked
         /\ \A n \in DOMAIN born : n \in DOMAIN since' => n \in DOMAIN since
         /\ \A i \in Pending : /\ AssessmentOf(i) \in DOMAIN since'
                               /\ since'[AssessmentOf(i)] = asked.elapsed
                               /\ born'[AssessmentOf(i)] = asked
         /\ DOMAIN born' \subseteq 1..assessed' /\ \A n \in DOMAIN born' : born'[n] \in Reading
         /\ DOMAIN since' \subseteq DOMAIN born' /\ \A n \in DOMAIN since' : since'[n] \in Int
<1> DEFINE ids == {AssessmentOf(i) : i \in Pending}
<1>1. /\ born' = [n \in DOMAIN born \cup ids |-> IF n \in ids THEN asked ELSE born[n]]
      /\ since' = [n \in DOMAIN since \cup ids |->
                     IF n \in ids THEN asked.elapsed ELSE since[n]]
      /\ assessed' = assessed + Cardinality(Pending)
  BY DEF Dispatch
<1>2. /\ assessed \in Nat /\ DOMAIN born \subseteq 1..assessed
      /\ \A n \in DOMAIN born : born[n] \in Reading
      /\ DOMAIN since \subseteq DOMAIN born /\ \A n \in DOMAIN since : since[n] \in Int
      /\ asked \in Reading /\ asked.elapsed \in Int
  BY DEF CacheInv, StoreType, LaneType, Reading
<1>3. Cardinality(Pending) \in Nat /\ \A n \in ids : n \in 1..assessed' /\ n > assessed
  BY <1>1, <1>2, Assessments
<1>4. \A n \in 1..assessed : n \notin ids /\ n \in 1..assessed'
  BY <1>1, <1>2, <1>3
<1>5. \A i \in Pending : AssessmentOf(i) \in ids
  OBVIOUS
<1> HIDE DEF ids
<1>6. \A n \in DOMAIN born : n \notin ids /\ n \in 1..assessed'
  BY <1>2, <1>4
<1>7. /\ DOMAIN born' = DOMAIN born \cup ids /\ DOMAIN since' = DOMAIN since \cup ids
      /\ \A n \in DOMAIN born' : born'[n] = IF n \in ids THEN asked ELSE born[n]
      /\ \A n \in DOMAIN since' : since'[n] = IF n \in ids THEN asked.elapsed ELSE since[n]
  BY <1>1
<1> QED BY <1>2, <1>3, <1>5, <1>6, <1>7

\* A verdict of the table ends no later than the row, its lifetime in this
\* configuration, and what this process knew of it.
LEMMA HitVerdict ==
  ASSUME CacheInv, NEW f \in DOMAIN verdicts, InLife(f)
  PROVE  LET j == Hit(f, asked)
         IN /\ j \in Verdict /\ j.id = verdicts[f].id /\ j.created = verdicts[f].created
            /\ j.deadline <= asked.elapsed + ((verdicts[f].created + ttl) - asked.wall)
            /\ f \in DOMAIN lifetimes => j.deadline <= lifetimes[f].deadline
            /\ asked.elapsed < j.deadline
            /\ verdicts[f].created <= asked.wall
<1> DEFINE r == verdicts[f]
           end == Least(r.expires, r.created + ttl)
           base == [id |-> r.id, created |-> r.created, expires |-> end,
                    observed |-> asked.wall, deadline |-> asked.elapsed + (end - asked.wall)]
<1>1. r \in Row /\ asked \in Reading /\ ttl \in Nat
      /\ (f \in DOMAIN lifetimes => lifetimes[f] \in Verdict)
  BY DEF CacheInv, StoreType, LaneType
<1>2. /\ r.id \in Nat /\ r.created \in Int /\ r.expires \in Int
      /\ asked.wall \in Int /\ asked.elapsed \in Int
  BY <1>1 DEF Row, Reading
<1>3. f \in DOMAIN lifetimes => lifetimes[f].expires \in Int /\ lifetimes[f].deadline \in Int
  BY <1>1 DEF Verdict
<1>4. /\ asked.wall >= r.created /\ asked.wall < r.expires /\ asked.wall - r.created < ttl
      /\ f \in DOMAIN lifetimes => asked.elapsed < lifetimes[f].deadline
  BY DEF InLife, RowInLife, CacheValidAt
<1>5. end \in Int /\ end <= r.created + ttl /\ asked.wall < end
  BY <1>1, <1>2, <1>4 DEF Least
<1>6. Hit(f, asked) = IF f \notin DOMAIN lifetimes THEN base
                      ELSE [base EXCEPT !.expires = Least(@, lifetimes[f].expires),
                                        !.deadline = Least(@, lifetimes[f].deadline)]
  BY DEF Hit
<1> HIDE DEF r, end
<1>7. base \in Verdict
  BY <1>2, <1>5 DEF Verdict
<1>8. CASE f \notin DOMAIN lifetimes
  <2>1. Hit(f, asked) = base
    BY <1>6, <1>8
  <2>2. Hit(f, asked) \in Verdict
    BY <1>7, <2>1
  <2>3. /\ Hit(f, asked).id = r.id /\ Hit(f, asked).created = r.created
        /\ Hit(f, asked).deadline = asked.elapsed + (end - asked.wall)
    BY <2>1
  <2> QED BY <1>1, <1>2, <1>4, <1>5, <1>8, <2>2, <2>3 DEF r
<1>9. CASE f \in DOMAIN lifetimes
  <2> DEFINE ex == Least(end, lifetimes[f].expires)
             dl == Least(asked.elapsed + (end - asked.wall), lifetimes[f].deadline)
  <2>1. Hit(f, asked) = [base EXCEPT !.expires = ex, !.deadline = dl]
    BY <1>6, <1>9
  <2>2. /\ ex \in Int /\ dl \in Int /\ dl <= asked.elapsed + (end - asked.wall)
        /\ dl <= lifetimes[f].deadline /\ asked.elapsed < dl
    BY <1>2, <1>3, <1>4, <1>5, <1>9 DEF Least
  <2> HIDE DEF ex, dl
  <2>3. Hit(f, asked) \in Verdict
    BY <1>7, <2>1, <2>2 DEF Verdict
  <2>4. Hit(f, asked).id = r.id /\ Hit(f, asked).created = r.created /\ Hit(f, asked).deadline = dl
    BY <2>1
  <2> QED BY <1>1, <1>2, <1>4, <1>5, <2>2, <2>3, <2>4 DEF r
<1> QED BY <1>8, <1>9

LEMMA PreparingAt ==
  ASSUME CacheInv, Preparing
  PROVE  /\ phase = "prepare" /\ index \in DOMAIN groups
         /\ Group \in GroupType /\ Group.family \in Families
         /\ Untouched(index)
<1>1. index \in DOMAIN groups
  BY GroupsDomain DEF Preparing, CacheInv, LaneType
<1>2. phase = "prepare" /\ index <= index
  BY <1>1, GroupAt DEF Preparing, CacheInv
<1>3. Untouched(index)
  BY <1>1, <1>2 DEF CacheInv, GroupInv
<1> QED BY <1>1, <1>2, <1>3, GroupAt DEF CacheInv, Group, GroupType

\* A group found in the table.
Finds(f, j) ==
  /\ index \in DOMAIN groups /\ f \in DOMAIN verdicts
  /\ f = groups[index].family /\ j = Hit(f, asked) /\ j \in Verdict
  /\ Untouched(index) /\ ~groups[index].unsafe /\ Current(groups[index])
  /\ groups[index].reason # "review_required"
  /\ Answers /\ groups'[index].verdict = j
  /\ \A i \in DOMAIN groups \ {index} : groups'[i] = groups[i]

LEMMA Finding ==
  ASSUME CacheInv, PrepareHit
  PROVE  Finds(Group.family, Hit(Group.family, asked))
<1> DEFINE f == Group.family
           j == Hit(f, asked)
<1>1. /\ Preparing /\ f \in DOMAIN verdicts /\ InLife(f) /\ ~Invalidates(Group)
      /\ groups' = [groups EXCEPT ![index] = [@ EXCEPT !.verdict = j]]
  BY DEF PrepareHit, Found
<1>2. index \in DOMAIN groups /\ phase = "prepare" /\ Untouched(index) /\ Group = groups[index]
  BY <1>1, PreparingAt DEF Group
<1>3. j \in Verdict
  BY <1>1, HitVerdict
<1>4. Group.mode = "default" /\ ~Group.unsafe
  BY <1>1 DEF Invalidates
<1>5. Current(groups[index]) /\ groups[index].reason # "review_required"
  BY <1>2, <1>4 DEF CacheInv, GroupInv, Judged
<1> HIDE DEF j
<1>6. /\ Answers /\ groups'[index].verdict = j
      /\ \A i \in DOMAIN groups \ {index} : groups'[i] = groups[i]
  BY <1>1, <1>2, <1>3, JudgedGroup DEF CacheInv
<1> QED BY <1>1, <1>2, <1>3, <1>4, <1>5, <1>6 DEF Finds, j

\* What the table and the lifetimes lose with a family, and gain with a verdict.
LEMMA DeletedRows ==
  ASSUME NEW f, Deleted(f)
  PROVE  /\ DOMAIN verdicts' = DOMAIN verdicts \ {f}
         /\ DOMAIN lifetimes' = DOMAIN lifetimes \ {f}
         /\ \A x \in DOMAIN verdicts' : verdicts'[x] = verdicts[x]
         /\ \A x \in DOMAIN lifetimes' : lifetimes'[x] = lifetimes[x]
BY DEF Deleted, Without

Stored(f, j) ==
  /\ f \in DOMAIN verdicts' /\ DOMAIN verdicts' \subseteq DOMAIN verdicts \cup {f}
  /\ \A x \in DOMAIN verdicts' \ {f} : verdicts'[x] = verdicts[x]
  /\ verdicts'[f] = [id |-> j.id, created |-> j.created, expires |-> j.created + ttl]
  /\ DOMAIN lifetimes' = DOMAIN lifetimes \cup {f}
  /\ \A x \in DOMAIN lifetimes' \ {f} : lifetimes'[x] = lifetimes[x]
  /\ lifetimes'[f] = j

\* The group at index keeps the lifetime that began when the judge was asked.
Keeps(j) ==
  /\ groups[index].key /\ Reusable(groups[index].verdict)
  /\ j = Bounded(groups[index].verdict.id, asked, ttl) /\ j \in Verdict
  /\ j.id = groups[index].verdict.id /\ j.created = asked.wall
  /\ j.deadline = asked.elapsed + ttl
  /\ Answers /\ groups'[index].verdict = j
  /\ \A i \in DOMAIN groups \ {index} : groups'[i] = groups[i]
  /\ \/ UNCHANGED store
     \/ Deleted(groups[index].family)
     \/ Stored(groups[index].family, j) /\ CacheValidAt(j, Clock)

LEMMA Keeping ==
  ASSUME CacheInv, Keep
  PROVE  /\ phase = "keep" /\ index \in DOMAIN groups
         /\ phase' \in {"keep", "publish"}
         /\ \/ index' = index + 1 /\ index < Len(groups)
            \/ index' = 1
         /\ \/ UNCHANGED <<groups, store>>
            \/ \E j : Keeps(j)
<1>1. phase = "keep" /\ index \in DOMAIN groups /\ LaneType /\ ttl \in Nat
  BY GroupsDomain DEF Keep, CacheInv, LaneType, StoreType
<1>2. /\ phase' \in {"keep", "publish"}
      /\ \/ index' = index + 1 /\ index < Len(groups)
         \/ index' = 1
  BY <1>1 DEF Keep, Advance
<1>3. CASE ~(Group.key /\ Reusable(Group.verdict))
  BY <1>1, <1>2, <1>3 DEF Keep
<1>4. CASE Group.key /\ Reusable(Group.verdict)
  <2> DEFINE id == Group.verdict.id
             j == Bounded(id, asked, ttl)
  <2>1. /\ groups' = [groups EXCEPT ![index] = [@ EXCEPT !.verdict = j]]
        /\ IF CacheValidAt(j, Clock) THEN Put(Group.family, j) ELSE UNCHANGED store
    BY <1>4 DEF Keep
  <2>2. id \in Nat /\ asked \in Reading
    BY <1>1, GroupAt DEF Group, GroupType, Verdict, LaneType
  <2>3. j \in Verdict /\ j.id = id /\ j.created = asked.wall /\ j.deadline = asked.elapsed + ttl
    BY <1>1, <2>2, BoundedTyped
  <2> HIDE DEF j
  <2>4. /\ Answers /\ groups'[index].verdict = j
        /\ \A i \in DOMAIN groups \ {index} : groups'[i] = groups[i]
    BY <1>1, <2>1, <2>3, JudgedGroup
  <2>5. ASSUME ~NoSlot(Group.family), Put(Group.family, j)
        PROVE  Stored(Group.family, j)
    <3>1. PICK old : verdicts' = [x \in (DOMAIN verdicts \ old) \cup {Group.family} |->
                                    IF x = Group.family
                                    THEN [id |-> j.id, created |-> j.created,
                                          expires |-> j.created + ttl]
                                    ELSE verdicts[x]]
      BY <2>5 DEF Put
    <3>2. lifetimes' = With(lifetimes, Group.family, j)
      BY <2>5 DEF Put
    <3> QED BY <3>1, <3>2 DEF Stored, With
  <2>6. ASSUME NoSlot(Group.family), Put(Group.family, j)
        PROVE  Deleted(Group.family)
    BY <2>6 DEF Put
  <2>7. Keeps(j)
    BY <1>4, <2>1, <2>3, <2>4, <2>5, <2>6 DEF Keeps, Group, j
  <2> QED BY <1>1, <1>2, <2>7
<1> QED BY <1>3, <1>4

\* The kinds of steps.
LEMMA Steps ==
  ASSUME CacheInv, Next
  PROVE  \/ \E f \in Families, unsafe \in BOOLEAN : Observe(f, unsafe)
         \/ CloseBatch
         \/ \E keep \in BOOLEAN : Sends(keep)
         \/ PrepareHit
         \/ Dispatch
         \/ Refuses
         \/ Keep
         \/ \E routine \in BOOLEAN : Publish(routine)
         \/ Tick
         \/ \E w \in 0..MaxWall : SetWall(w)
         \/ Restart
BY Sending, Refusing DEF Next, Batch, Judge

-----------------------------------------------------------------------------
(* The types.                                                              *)

LEMMA StoreStep == ASSUME CacheInv, Next PROVE StoreType'
<1>1. /\ StoreType /\ assessed \in Nat
      /\ DOMAIN verdicts \subseteq Families /\ DOMAIN lifetimes \subseteq Families
  BY DEF CacheInv, StoreType
<1>2. ASSUME UNCHANGED <<clocks, store, ttl, durable, assessed, born, since>>
      PROVE  StoreType'
  BY <1>1, <1>2 DEF StoreType, clocks, store
<1>3. ASSUME UNCHANGED <<clocks, ttl, durable, assessed, born, since>>, NEW f, Deleted(f)
      PROVE  StoreType'
  <2>1. /\ DOMAIN verdicts' \subseteq DOMAIN verdicts
        /\ DOMAIN lifetimes' \subseteq DOMAIN lifetimes
        /\ \A x \in DOMAIN verdicts' : verdicts'[x] = verdicts[x]
        /\ \A x \in DOMAIN lifetimes' : lifetimes'[x] = lifetimes[x]
    BY <1>3, DeletedRows
  <2>2. UNCHANGED <<wall, elapsed, sets>>
    BY <1>3 DEF clocks
  <2>3. DOMAIN verdicts' \subseteq Families /\ \A x \in DOMAIN verdicts' : verdicts'[x] \in Row
    BY <1>1, <2>1 DEF StoreType
  <2>4. DOMAIN lifetimes' \subseteq Families /\ \A x \in DOMAIN lifetimes' : lifetimes'[x] \in Verdict
    BY <1>1, <2>1 DEF StoreType
  <2> QED BY <1>1, <1>3, <2>2, <2>3, <2>4 DEF StoreType
<1>4. ASSUME NEW f \in Families, NEW unsafe \in BOOLEAN, Observe(f, unsafe)
      PROVE  StoreType'
  BY <1>2, <1>4 DEF Observe, config, history
<1>5. CASE CloseBatch
  BY <1>2, <1>5 DEF CloseBatch, config, history
<1>6. ASSUME NEW keep \in BOOLEAN, Sends(keep)
      PROVE  StoreType'
  BY <1>2, <1>3, <1>6 DEF Sends, config, history
<1>7. CASE PrepareHit
  <2> DEFINE f == Group.family
             j == Hit(f, asked)
  <2>1. /\ lifetimes' = With(lifetimes, f, j) /\ since' = Hold(j.id, asked.elapsed)
        /\ UNCHANGED <<clocks, verdicts, ttl, durable, assessed, born>>
    BY <1>7 DEF PrepareHit, config
  <2>2. f \in Families /\ j \in Verdict /\ asked.elapsed \in Int
    BY <1>1, <1>7, Finding DEF Finds, CacheInv, LaneType, Reading
  <2>3. DOMAIN lifetimes' \subseteq Families /\ \A x \in DOMAIN lifetimes' : lifetimes'[x] \in Verdict
    BY <1>1, <2>1, <2>2 DEF With, StoreType
  <2>4. f \in DOMAIN verdicts /\ j.id = verdicts[f].id
    BY <1>7, HitVerdict DEF PrepareHit, Found
  <2>6. j.id \in DOMAIN born
    BY <2>4 DEF CacheInv, IdsInv
  <2>5. DOMAIN since' \subseteq DOMAIN born' /\ \A n \in DOMAIN since' : since'[n] \in Int
    BY <1>1, <2>1, <2>2, <2>6 DEF Hold, With, StoreType
  <2> QED BY <1>1, <2>1, <2>3, <2>5 DEF StoreType, clocks
<1>8. CASE Dispatch
  <2>1. /\ UNCHANGED <<clocks, store, config>>
        /\ assessed' = assessed + Cardinality(Pending)
    BY <1>8 DEF Dispatch
  <2>2. assessed' \in Nat
    BY <1>1, <2>1, Assessments
  <2> QED BY <1>1, <1>8, <2>1, <2>2, AssessmentsBegin DEF StoreType, clocks, store, config
<1>9. CASE Refuses
  BY <1>2, <1>9 DEF Refuses, config, history
<1>10. CASE Keep
  <2>1. UNCHANGED <<clocks, ttl, durable, assessed, born, since>>
    BY <1>10 DEF Keep, config, history
  <2>2. CASE UNCHANGED store
    BY <1>2, <2>1, <2>2
  <2>3. ASSUME NEW f, Deleted(f)
        PROVE  StoreType'
    BY <1>3, <2>1, <2>3
  <2>4. ASSUME NEW j, Keeps(j), Stored(groups[index].family, j)
        PROVE  StoreType'
    <3>1. index \in DOMAIN groups /\ groups[index].family \in Families /\ ttl \in Nat
      BY <1>1, <1>10, Keeping, GroupAt DEF CacheInv, GroupType, StoreType
    <3>2. j.id \in Nat /\ j.created \in Int /\ j \in Verdict
      BY <2>4 DEF Keeps, Verdict
    <3>3. [id |-> j.id, created |-> j.created, expires |-> j.created + ttl] \in Row
      BY <3>1, <3>2 DEF Row
    <3>4. DOMAIN verdicts' \subseteq Families /\ \A x \in DOMAIN verdicts' : verdicts'[x] \in Row
      BY <1>1, <2>4, <3>1, <3>3 DEF Stored, StoreType
    <3>5. DOMAIN lifetimes' \subseteq Families /\ \A x \in DOMAIN lifetimes' : lifetimes'[x] \in Verdict
      BY <1>1, <2>4, <3>1, <3>2 DEF Stored, StoreType
    <3> QED BY <1>1, <2>1, <3>4, <3>5 DEF StoreType, clocks
  <2> QED BY <1>10, <2>2, <2>3, <2>4, Keeping DEF Keeps
<1>11. ASSUME NEW routine \in BOOLEAN, Publish(routine)
       PROVE  StoreType'
  BY <1>2, <1>11 DEF Publish, config, history
<1>12. CASE Tick
  BY <1>1, <1>12 DEF Tick, StoreType, store, config, history
<1>13. ASSUME NEW w \in 0..MaxWall, SetWall(w)
       PROVE  StoreType'
  <2>1. w \in Nat
    OBVIOUS
  <2> QED BY <1>1, <1>13, <2>1 DEF SetWall, StoreType, store, config, history
<1>14. CASE Restart
  BY <1>1, <1>14, ConfigTypes DEF Restart, StoreType, clocks, Empty
<1> QED BY <1>4, <1>5, <1>6, <1>7, <1>8, <1>9, <1>10, <1>11, <1>12, <1>13, <1>14, Steps

\* The partition of a family, and what an observation makes of it.
LEMMA PartitionOf ==
  ASSUME CacheInv, NEW f \in Families
  PROVE  /\ Partition(f) \in PartitionType
         /\ \/ f \in DOMAIN entries /\ Partition(f) = entries[f]
            \/ f \notin DOMAIN entries /\ Partition(f).gen = generation + 1
               /\ Partition(f).verdict = Unknown
<1>1. CASE f \in DOMAIN entries
  BY <1>1 DEF Partition, CacheInv, LaneType
<1>2. CASE f \notin DOMAIN entries
  <2>1. NewPartition \in PartitionType /\ NewPartition.gen = generation + 1
        /\ NewPartition.verdict = Unknown
    BY ReadingTypes DEF NewPartition, PartitionType, NoTime, CacheInv, LaneType
  <2> QED BY <1>2, <2>1 DEF Partition
<1> QED BY <1>1, <1>2

LEMMA ObservedPartition ==
  ASSUME NEW f, NEW p \in PartitionType, NEW t \in Reading, NEW reason, sequence \in Nat
  PROVE  LET q == Observed(f, p, t, reason)
         IN /\ q \in PartitionType /\ q.gen = p.gen
            /\ q.verdict = IF reason \in {"cached", "new_or_expired"} THEN p.verdict ELSE Unknown
<1> DEFINE n == p.seen + 1
           m == sequence + 1
           seen == IF reason = "review_required" THEN p.observed ELSE t.wall
           again == p.refresh \/ reason \in {"clock_rollback", "cache_expired"}
           v == IF reason \in {"cached", "new_or_expired"} THEN p.verdict ELSE Unknown
<1>1. Observed(f, p, t, reason) =
        [p EXCEPT !.seen = n, !.last = m, !.observed = seen,
                  !.refresh = again, !.verdict = v]
  BY DEF Observed
<1>2. /\ p.verdict \in Verdict /\ p.observed \in Int /\ p.refresh \in BOOLEAN
      /\ p.seen \in Nat /\ t.wall \in Int
  BY DEF PartitionType, Reading
<1>3. n \in Nat /\ m \in Nat /\ seen \in Int /\ again \in BOOLEAN /\ v \in Verdict
  BY <1>2, ReadingTypes
<1> HIDE DEF n, m, seen, again, v
<1>4. [p EXCEPT !.seen = n, !.last = m, !.observed = seen,
                !.refresh = again, !.verdict = v] \in PartitionType
  BY <1>3 DEF PartitionType
<1>5. LET q == [p EXCEPT !.seen = n, !.last = m, !.observed = seen,
                         !.refresh = again, !.verdict = v]
      IN q.gen = p.gen /\ q.verdict = v
  BY DEF PartitionType
<1> QED BY <1>1, <1>4, <1>5 DEF v

\* The reading of the clocks that an event is observed at.
EventTime == IF phase = "idle" THEN Clock ELSE now

Observes(f, p, reason) ==
  /\ f \in DOMAIN entries' /\ DOMAIN entries' \subseteq DOMAIN entries \cup {f}
  /\ \A x \in DOMAIN entries' \ {f} : entries'[x] = entries[x]
  /\ entries'[f] \in PartitionType /\ entries'[f].gen = p.gen
  /\ entries'[f].verdict = IF reason \in {"cached", "new_or_expired"} THEN p.verdict ELSE Unknown
  /\ groups' \in Seq(GroupType)
  /\ \A i \in DOMAIN groups :
       /\ i \in DOMAIN groups'
       /\ groups'[i].family = groups[i].family /\ groups'[i].gen = groups[i].gen
       /\ groups'[i].reason = groups[i].reason /\ groups'[i].verdict = groups[i].verdict
       /\ groups'[i].pending = groups[i].pending /\ groups'[i].key = groups[i].key
  /\ \A i \in DOMAIN groups' \ DOMAIN groups :
       /\ reason # "cached" /\ i = Len(groups) + 1
       /\ groups'[i].family = f /\ groups'[i].gen = p.gen
       /\ groups'[i].reason = reason /\ groups'[i].verdict = Unknown
       /\ ~groups'[i].pending /\ ~groups'[i].key
       /\ \A k \in DOMAIN groups : groups[k].family = f => groups[k].gen # p.gen

LEMMA Observing ==
  ASSUME CacheInv, NEW f \in Families, NEW unsafe \in BOOLEAN, Observe(f, unsafe)
  PROVE  Observes(f, Partition(f), Reason(f, Partition(f), EventTime))
<1> DEFINE t == EventTime
           p == Partition(f)
           reason == Reason(f, p, t)
<1>1. /\ LaneType /\ sequence \in Nat /\ t \in Reading
      /\ DOMAIN groups = 1..Len(groups) /\ Len(groups) \in Nat
  BY GroupsDomain, ReadingTypes DEF CacheInv, LaneType, EventTime
<1>2. p \in PartitionType
  BY PartitionOf
<1>3. /\ entries' = [x \in (DOMAIN entries \ Evicted(f)) \cup {f} |->
                       IF x = f THEN Observed(f, p, t, reason) ELSE entries[x]]
      /\ IF reason = "cached" THEN UNCHANGED groups
         ELSE groups' = Grouped(f, p, reason, unsafe)
  BY DEF Observe, EventTime
<1>4. reason \in Reasons \cup {"cached"}
  BY DEF Reason, Reasons
<1> HIDE DEF t, p, reason
<1>5. /\ f \in DOMAIN entries' /\ DOMAIN entries' \subseteq DOMAIN entries \cup {f}
      /\ \A x \in DOMAIN entries' \ {f} : entries'[x] = entries[x]
      /\ entries'[f] = Observed(f, p, t, reason)
  BY <1>3
<1>6. /\ entries'[f] \in PartitionType /\ entries'[f].gen = p.gen
      /\ entries'[f].verdict = IF reason \in {"cached", "new_or_expired"} THEN p.verdict ELSE Unknown
  BY <1>1, <1>2, <1>5, ObservedPartition
<1>7. CASE reason = "cached"
  BY <1>1, <1>3, <1>5, <1>6, <1>7 DEF Observes, LaneType, t, p, reason
<1>8. CASE reason # "cached" /\ Same(f, p) # {}
  <2>1. groups' = [i \in 1..Len(groups) |->
                     IF i \in Same(f, p)
                     THEN [groups[i] EXCEPT !.unsafe = @ \/ unsafe] ELSE groups[i]]
    BY <1>3, <1>8 DEF Grouped
  <2>2. ASSUME NEW g \in GroupType
        PROVE  LET h == [g EXCEPT !.unsafe = @ \/ unsafe]
               IN /\ h \in GroupType /\ h.family = g.family /\ h.gen = g.gen
                  /\ h.reason = g.reason /\ h.verdict = g.verdict
                  /\ h.pending = g.pending /\ h.key = g.key
    <3> DEFINE u == g.unsafe \/ unsafe
    <3>1. u \in BOOLEAN
      OBVIOUS
    <3>2. [g EXCEPT !.unsafe = @ \/ unsafe] = [g EXCEPT !.unsafe = u]
      OBVIOUS
    <3> HIDE DEF u
    <3>3. LET h == [g EXCEPT !.unsafe = u]
          IN /\ h \in GroupType /\ h.family = g.family /\ h.gen = g.gen
             /\ h.reason = g.reason /\ h.verdict = g.verdict
             /\ h.pending = g.pending /\ h.key = g.key
      BY <3>1 DEF GroupType
    <3> QED BY <3>2, <3>3
  <2>3. ASSUME NEW i \in DOMAIN groups
        PROVE  /\ groups'[i] \in GroupType
               /\ groups'[i].family = groups[i].family /\ groups'[i].gen = groups[i].gen
               /\ groups'[i].reason = groups[i].reason /\ groups'[i].verdict = groups[i].verdict
               /\ groups'[i].pending = groups[i].pending /\ groups'[i].key = groups[i].key
    <3>1. groups[i] \in GroupType
      BY <1>1, GroupAt
    <3>2. \/ groups'[i] = groups[i]
          \/ groups'[i] = [groups[i] EXCEPT !.unsafe = @ \/ unsafe]
      BY <1>1, <2>1
    <3>3. CASE groups'[i] = groups[i]
      BY <3>1, <3>3
    <3>4. CASE groups'[i] = [groups[i] EXCEPT !.unsafe = @ \/ unsafe]
      BY <2>2, <3>1, <3>4
    <3> QED BY <3>2, <3>3, <3>4
  <2>4. groups' \in Seq(GroupType) /\ DOMAIN groups' = DOMAIN groups
    BY <1>1, <2>1, <2>3, GroupsBuilt
  <2> QED BY <1>5, <1>6, <2>3, <2>4 DEF Observes, t, p, reason
<1>9. CASE reason # "cached" /\ Same(f, p) = {}
  <2> DEFINE g == [family |-> f, gen |-> p.gen, reason |-> reason,
                   unsafe |-> unsafe, mode |-> "default",
                   pending |-> FALSE, key |-> FALSE, verdict |-> Unknown]
  <2>1. groups' = Append(groups, g)
    BY <1>3, <1>9 DEF Grouped
  <2>2. p.gen \in Nat
    BY <1>2 DEF PartitionType
  <2>3. g \in GroupType
    BY <1>4, <1>9, <2>2, ReadingTypes DEF GroupType
  <2>4. \A k \in DOMAIN groups : groups[k].family = f => groups[k].gen # p.gen
    BY <1>1, <1>9 DEF Same
  <2>5. /\ g.family = f /\ g.gen = p.gen /\ g.reason = reason /\ g.verdict = Unknown
        /\ ~g.pending /\ ~g.key
    OBVIOUS
  <2> HIDE DEF g
  <2>6. /\ groups' \in Seq(GroupType) /\ DOMAIN groups' = 1..(Len(groups) + 1)
        /\ \A i \in DOMAIN groups : i \in DOMAIN groups' /\ groups'[i] = groups[i]
        /\ groups'[Len(groups) + 1] = g
    BY <1>1, <2>1, <2>3 DEF LaneType
  <2>7. \A i \in DOMAIN groups' \ DOMAIN groups : i = Len(groups) + 1
    BY <1>1, <2>6
  <2> QED BY <1>5, <1>6, <1>9, <2>4, <2>5, <2>6, <2>7 DEF Observes, t, p, reason
<1> QED BY <1>7, <1>8, <1>9

\* What a publication makes of a partition.
LEMMA PublishedPartition ==
  ASSUME NEW f, entries[f] \in PartitionType, NEW j \in Verdict, NEW t \in Reading,
         ttl \in Nat, NEW routine \in BOOLEAN
  PROVE  LET q == Published(f, j, t, routine)
         IN /\ q \in PartitionType /\ q.gen = entries[f].gen
            /\ q.verdict \in {entries[f].verdict, j, Unknown}
<1> DEFINE p == entries[f]
           interval == IF routine
                       THEN Least(NormalInterval, Most(AuditInterval, 2 * p.interval))
                       ELSE AuditInterval
           until == Least(t.elapsed + ttl, j.deadline)
           next == p.seen + interval
           read == t.wall
           again == [p EXCEPT !.verdict = Unknown, !.refresh = TRUE]
           new == [p EXCEPT !.verdict = j, !.refresh = FALSE, !.observed = read,
                            !.expires = until, !.interval = interval, !.auditAt = next]
<1>1. p.interval \in Nat /\ p.seen \in Nat /\ t.wall \in Int /\ t.elapsed \in Int /\ j.deadline \in Int
  BY DEF PartitionType, Reading, Verdict
<1>2. interval \in Nat /\ until \in Int /\ read \in Int
  BY <1>1 DEF Least, Most
<1>3. next \in Int
  BY <1>1, <1>2
<1>4. Published(f, j, t, routine) \in {p, again, new}
  BY DEF Published
<1> HIDE DEF p, interval, until, next, read
<1>5. p \in PartitionType
  BY DEF p
<1>6. again \in PartitionType /\ again.gen = p.gen /\ again.verdict = Unknown
  BY <1>5, ReadingTypes DEF PartitionType
<1>7. new \in PartitionType /\ new.gen = p.gen /\ new.verdict = j
  BY <1>2, <1>3, <1>5 DEF PartitionType
<1> HIDE DEF again, new
<1> QED BY <1>4, <1>5, <1>6, <1>7 DEF p

\* The group at index is published to its partition.
Publishes(x) ==
  /\ x = groups[index].family /\ Current(groups[index])
  /\ Reusable(groups[index].verdict) /\ ~groups[index].unsafe
  /\ entries'[x].verdict = BoundsOf(groups[index])

LEMMA Publishing ==
  ASSUME CacheInv, NEW routine \in BOOLEAN, Publish(routine)
  PROVE  /\ phase = "publish" /\ index \in DOMAIN groups
         /\ DOMAIN entries' = DOMAIN entries
         /\ \A x \in DOMAIN entries :
              /\ entries'[x] \in PartitionType /\ entries'[x].gen = entries[x].gen
              /\ \/ entries'[x].verdict \in {entries[x].verdict, Unknown}
                 \/ Publishes(x)
         /\ BoundsOf(groups[index]).id = groups[index].verdict.id
         /\ \/ phase' = "publish" /\ UNCHANGED <<groups, now, asked>> /\ index' \in DOMAIN groups
            \/ phase' = "idle" /\ groups' = <<>> /\ now' = NoReading /\ asked' = NoReading
<1> DEFINE g == groups[index]
           f == g.family
<1>1. /\ phase = "publish" /\ index \in DOMAIN groups /\ LaneType /\ ttl \in Nat /\ StoreType
      /\ DOMAIN groups = 1..Len(groups) /\ Len(groups) \in Nat
  BY GroupsDomain DEF Publish, CacheInv, LaneType, StoreType
<1>2. g \in GroupType /\ g.verdict \in Verdict /\ now \in Reading /\ Clock \in Reading
  BY <1>1, GroupAt, ReadingTypes DEF GroupType, LaneType
<1>3. BoundsOf(g) \in Verdict /\ BoundsOf(g).id = g.verdict.id
  <2>1. g.verdict.id \in Nat
    BY <1>2 DEF Verdict
  <2>2. /\ Bounded(g.verdict.id, now, ttl) \in Verdict
        /\ Bounded(g.verdict.id, now, ttl).id = g.verdict.id
    BY <1>1, <1>2, <2>1, BoundedTyped
  <2> QED BY <1>2, <2>2 DEF BoundsOf
<1>4. \/ phase' = "publish" /\ UNCHANGED <<groups, now, asked>> /\ index' \in DOMAIN groups
      \/ phase' = "idle" /\ groups' = <<>> /\ now' = NoReading /\ asked' = NoReading
  BY <1>1 DEF Publish, Advance
<1>5. ASSUME NEW x \in DOMAIN entries
      PROVE  entries[x] \in PartitionType /\ entries[x].verdict \in Verdict
  BY <1>1 DEF LaneType, PartitionType
<1>6. CASE ~Current(g)
  <2>1. entries' = entries
    BY <1>6 DEF Publish, Group
  <2> QED BY <1>1, <1>3, <1>4, <1>5, <2>1
<1>7. CASE Current(g) /\ ~(Reusable(g.verdict) /\ ~g.unsafe)
  <2> DEFINE q == [entries[f] EXCEPT !.verdict = Unknown]
  <2>1. f \in DOMAIN entries
    BY <1>7 DEF Current
  <2>2. entries' = [entries EXCEPT ![f] = q]
    BY <1>7 DEF Publish, Group
  <2>3. q \in PartitionType /\ q.gen = entries[f].gen /\ q.verdict = Unknown
    BY <1>5, <2>1, ReadingTypes DEF PartitionType
  <2> HIDE DEF q
  <2>4. /\ DOMAIN entries' = DOMAIN entries /\ entries'[f] = q
        /\ \A x \in DOMAIN entries \ {f} : entries'[x] = entries[x]
    BY <2>1, <2>2
  <2> QED BY <1>1, <1>3, <1>4, <1>5, <2>3, <2>4
<1>8. CASE Current(g) /\ Reusable(g.verdict) /\ ~g.unsafe
  <2> DEFINE q == Published(f, BoundsOf(g), Clock, routine)
  <2>1. f \in DOMAIN entries
    BY <1>8 DEF Current
  <2>2. entries' = [entries EXCEPT ![f] = q]
    BY <1>8 DEF Publish, Group
  <2>3. q \in PartitionType /\ q.gen = entries[f].gen
        /\ q.verdict \in {entries[f].verdict, BoundsOf(g), Unknown}
    BY <1>1, <1>2, <1>3, <1>5, <2>1, PublishedPartition
  <2> HIDE DEF q
  <2>4. /\ DOMAIN entries' = DOMAIN entries /\ entries'[f] = q
        /\ \A x \in DOMAIN entries \ {f} : entries'[x] = entries[x]
    BY <2>1, <2>2
  <2>5. q.verdict = BoundsOf(g) => Publishes(f)
    BY <1>8, <2>4 DEF Publishes
  <2> QED BY <1>1, <1>3, <1>4, <1>5, <2>3, <2>4, <2>5
<1> QED BY <1>6, <1>7, <1>8

\* The batch is complete.
LEMMA Closing ==
  ASSUME CacheInv, CloseBatch
  PROVE  /\ groups' \in Seq(GroupType) /\ Len(groups') = Len(groups)
         /\ DOMAIN groups' = DOMAIN groups
         /\ \A i \in DOMAIN groups :
              /\ groups'[i].mode = Mode(groups[i])
              /\ groups'[i].family = groups[i].family /\ groups'[i].gen = groups[i].gen
              /\ groups'[i].reason = groups[i].reason /\ groups'[i].unsafe = groups[i].unsafe
              /\ groups'[i].verdict = groups[i].verdict
              /\ groups'[i].pending = groups[i].pending /\ groups'[i].key = groups[i].key
<1>1. DOMAIN groups = 1..Len(groups) /\ Len(groups) \in Nat
  BY GroupsDomain DEF CacheInv
<1>2. groups' = [i \in 1..Len(groups) |-> [groups[i] EXCEPT !.mode = Mode(groups[i])]]
  BY DEF CloseBatch
<1>3. ASSUME NEW i \in DOMAIN groups
      PROVE  /\ groups'[i] \in GroupType
             /\ groups'[i].mode = Mode(groups[i])
             /\ groups'[i].family = groups[i].family /\ groups'[i].gen = groups[i].gen
             /\ groups'[i].reason = groups[i].reason /\ groups'[i].unsafe = groups[i].unsafe
             /\ groups'[i].verdict = groups[i].verdict
             /\ groups'[i].pending = groups[i].pending /\ groups'[i].key = groups[i].key
  <2>1. groups[i] \in GroupType
    BY GroupAt DEF CacheInv
  <2>2. groups'[i] = [groups[i] EXCEPT !.mode = Mode(groups[i])]
    BY <1>1, <1>2
  <2> QED BY <2>1, <2>2, GroupModed
<1>4. groups' \in Seq(GroupType) /\ Len(groups') = Len(groups) /\ DOMAIN groups' = DOMAIN groups
  BY <1>1, <1>2, <1>3, GroupsBuilt
<1> QED BY <1>3, <1>4

\* A step of the judge, which leaves the partitions alone.
LEMMA JudgeLane ==
  ASSUME LaneType, phase \in Judged, phase' \in Judged,
         groups' \in Seq(GroupType), Len(groups') = Len(groups),
         phase' = "prepare" => index' \in 1..(Len(groups) + 1),
         phase' \in {"keep", "publish"} => index' \in 1..Len(groups),
         UNCHANGED <<entries, generation, sequence, observed, now, asked>>
  PROVE  LaneType'
BY DEF LaneType, Judged

LEMMA LaneStep == ASSUME CacheInv, Next PROVE LaneType'
<1>1. /\ LaneType /\ StoreType /\ DOMAIN groups = 1..Len(groups) /\ Len(groups) \in Nat
      /\ Clock \in Reading
  BY GroupsDomain, ReadingTypes DEF CacheInv
<1>2. ASSUME NEW f \in Families, NEW unsafe \in BOOLEAN, Observe(f, unsafe)
      PROVE  LaneType'
  <2>1. Observes(f, Partition(f), Reason(f, Partition(f), EventTime))
    BY <1>2, Observing
  <2>2. /\ phase' = "group" /\ sequence' = sequence + 1 /\ now' \in {now, Clock}
        /\ generation' = Most(generation, Partition(f).gen)
        /\ UNCHANGED <<asked, index>>
    BY <1>2 DEF Observe
  <2>3. observed' = observed \/ observed' = Most(observed, now'.wall)
    BY <1>2 DEF Observe
  <2>4. Partition(f).gen \in Nat /\ now' \in Reading
    BY <1>1, <2>2, PartitionOf DEF PartitionType, LaneType
  <2>5. generation' \in Nat /\ observed' \in Int
    BY <1>1, <2>2, <2>3, <2>4 DEF Most, LaneType, Reading
  <2>6. DOMAIN entries' \subseteq Families /\ \A x \in DOMAIN entries' : entries'[x] \in PartitionType
    BY <1>1, <2>1 DEF Observes, LaneType
  <2> QED BY <1>1, <2>1, <2>2, <2>4, <2>5, <2>6 DEF LaneType, Observes, Judged
<1>3. CASE CloseBatch
  <2>1. /\ phase' = (IF groups = <<>> THEN "idle" ELSE "prepare")
        /\ now' \in {now, NoReading} /\ asked' \in {asked, Clock} /\ index' = 1
        /\ UNCHANGED <<entries, generation, sequence, observed>>
    BY <1>3 DEF CloseBatch, grouper
  <2>2. now' \in Reading /\ asked' \in Reading
    BY <1>1, <2>1, ReadingTypes DEF LaneType
  <2>3. groups = <<>> <=> Len(groups) = 0
    BY <1>1 DEF LaneType
  <2>4. index' \in 1..(Len(groups) + 1)
    BY <1>1, <2>1
  <2> QED BY <1>1, <1>3, <2>1, <2>2, <2>3, <2>4, Closing DEF LaneType, Judged
<1>4. ASSUME NEW keep \in BOOLEAN, Sends(keep)
      PROVE  LaneType'
  <2>1. /\ phase = "prepare" /\ phase' = "prepare" /\ index \in 1..Len(groups) /\ index' = index + 1
        /\ UNCHANGED <<entries, generation, sequence, observed, now, asked>>
    BY <1>4 DEF Sends, grouper
  <2>2. groups' \in Seq(GroupType) /\ Len(groups') = Len(groups)
    BY <1>4, SentGroups
  <2>3. index' \in 1..(Len(groups) + 1)
    BY <1>1, <2>1
  <2> QED BY <1>1, <2>1, <2>2, <2>3, JudgeLane DEF Judged
<1>5. CASE PrepareHit
  <2>1. Answers /\ index \in DOMAIN groups
    BY <1>5, Finding DEF Finds
  <2>2. /\ phase = "prepare" /\ phase' = "prepare" /\ index' = index + 1
        /\ UNCHANGED <<entries, generation, sequence, observed, now, asked>>
    BY <1>5 DEF PrepareHit, Preparing, grouper
  <2>3. index' \in 1..(Len(groups) + 1)
    BY <1>1, <2>1, <2>2
  <2> QED BY <1>1, <2>1, <2>2, <2>3, JudgeLane DEF Judged, Answers
<1>6. CASE Dispatch
  <2>1. Answers
    BY <1>6, Dispatching
  <2>2. /\ phase = "prepare" /\ phase' = "answer"
        /\ UNCHANGED <<entries, generation, sequence, observed, now, asked>>
    BY <1>6 DEF Dispatch, grouper
  <2> QED BY <1>1, <2>1, <2>2, JudgeLane DEF Judged, Answers
<1>7. CASE Refuses
  <2>1. Answers /\ phase \in Judged /\ phase' \in {"keep", "publish"} /\ index' = 1
        /\ UNCHANGED <<entries, generation, sequence, observed, now, asked>>
    BY <1>7 DEF Refuses, Judged, grouper
  <2>2. index' \in 1..Len(groups)
    BY <1>1, <2>1 DEF LaneType
  <2> QED BY <1>1, <2>1, <2>2, JudgeLane DEF Judged, Answers
<1>8. CASE Keep
  <2>1. /\ phase' \in {"keep", "publish"} /\ index' \in 1..Len(groups) /\ phase = "keep"
        /\ groups' = groups \/ Answers
    BY <1>1, <1>8, Keeping DEF Keeps
  <2>2. UNCHANGED <<entries, generation, sequence, observed, now, asked>>
    BY <1>8 DEF Keep, grouper
  <2>3. groups' \in Seq(GroupType) /\ Len(groups') = Len(groups)
    BY <1>1, <2>1 DEF LaneType, Answers
  <2> QED BY <1>1, <2>1, <2>2, <2>3, JudgeLane DEF Judged
<1>9. ASSUME NEW routine \in BOOLEAN, Publish(routine)
      PROVE  LaneType'
  <2>1. UNCHANGED <<generation, sequence, observed>>
    BY <1>9 DEF Publish
  <2>2. DOMAIN entries' \subseteq Families /\ \A x \in DOMAIN entries' : entries'[x] \in PartitionType
    BY <1>1, <1>9, Publishing DEF LaneType
  <2>3. CASE phase' = "publish" /\ UNCHANGED <<groups, now, asked>> /\ index' \in DOMAIN groups
    BY <1>1, <2>1, <2>2, <2>3 DEF LaneType, Judged
  <2>4. CASE phase' = "idle" /\ groups' = <<>> /\ now' = NoReading /\ asked' = NoReading
    <3>1. groups' \in Seq(GroupType) /\ Len(groups') = 0
      BY <2>4
    <3> QED BY <1>1, <2>1, <2>2, <2>4, <3>1, ReadingTypes DEF LaneType, Judged
  <2> QED BY <1>9, <2>3, <2>4, Publishing
<1>10. CASE Tick
  BY <1>1, <1>10 DEF Tick, LaneType, lane, grouper
<1>11. ASSUME NEW w \in 0..MaxWall, SetWall(w)
       PROVE  LaneType'
  BY <1>1, <1>11 DEF SetWall, LaneType, lane, grouper
<1>12. CASE Restart
  <2>1. groups' \in Seq(GroupType) /\ Len(groups') = 0
    BY <1>12 DEF Restart
  <2> QED BY <1>1, <1>12, <2>1, ReadingTypes DEF Restart, LaneType, Judged, Empty, NoTime
<1> QED BY <1>2, <1>3, <1>4, <1>5, <1>6, <1>7, <1>8, <1>9, <1>10, <1>11, <1>12, Steps

-----------------------------------------------------------------------------
(* Generations.                                                            *)

LEMMA OrderFrame ==
  ASSUME OrderInv, DOMAIN groups' = DOMAIN groups, UNCHANGED <<entries, generation>>,
         \A i \in DOMAIN groups :
           groups'[i].family = groups[i].family /\ groups'[i].gen = groups[i].gen
  PROVE  OrderInv'
BY DEF OrderInv

LEMMA OrderAnswers ==
  ASSUME OrderInv, Answers, UNCHANGED <<entries, generation>>
  PROVE  OrderInv'
BY OrderFrame DEF Answers, Alike

LEMMA OrderObserve ==
  ASSUME CacheInv, NEW f \in Families, NEW unsafe \in BOOLEAN, Observe(f, unsafe)
  PROVE  OrderInv'
<1> DEFINE p == Partition(f)
           reason == Reason(f, p, EventTime)
<1>1. Observes(f, p, reason) /\ generation' = Most(generation, p.gen)
  BY Observing DEF Observe
<1>2. p.gen \in Nat /\ generation \in Nat
      /\ \A x \in DOMAIN entries : entries[x].gen \in Nat
  BY PartitionOf DEF PartitionType, CacheInv, LaneType
<1>3. \/ f \in DOMAIN entries /\ p.gen = entries[f].gen
      \/ f \notin DOMAIN entries /\ p.gen = generation + 1
  BY PartitionOf
<1>4. DOMAIN groups = 1..Len(groups) /\ Len(groups) \in Nat
      /\ \A i \in DOMAIN groups : groups[i].gen \in Nat
  BY GroupsDomain, GroupAt DEF CacheInv, GroupType
<1> HIDE DEF p, reason
<1>5. /\ generation <= generation' /\ p.gen <= generation' /\ generation' \in Nat
  BY <1>1, <1>2 DEF Most
<1>6. \A i \in DOMAIN groups : groups[i].gen <= generation'
  BY <1>2, <1>4, <1>5 DEF CacheInv, OrderInv
<1>7. \A i \in DOMAIN groups : groups[i].family = f => groups[i].gen <= p.gen
  BY <1>2, <1>3, <1>4 DEF CacheInv, OrderInv
<1>8. \A x \in DOMAIN entries' : entries'[x].gen <= generation'
  BY <1>1, <1>2, <1>5 DEF Observes, CacheInv, OrderInv
<1>9. ASSUME NEW i \in DOMAIN groups'
      PROVE  /\ groups'[i].gen <= generation'
             /\ groups'[i].family \in DOMAIN entries' =>
                  groups'[i].gen <= entries'[groups'[i].family].gen
  <2>1. CASE i \in DOMAIN groups
    <3>1. groups'[i].family = groups[i].family /\ groups'[i].gen = groups[i].gen
      BY <1>1, <2>1 DEF Observes
    <3>2. CASE groups[i].family = f
      BY <1>1, <1>6, <1>7, <2>1, <3>1, <3>2 DEF Observes
    <3>3. CASE groups[i].family # f
      BY <1>1, <1>6, <2>1, <3>1, <3>3 DEF Observes, CacheInv, OrderInv
    <3> QED BY <3>2, <3>3
  <2>2. CASE i \notin DOMAIN groups
    BY <1>1, <1>2, <1>5, <1>9, <2>2 DEF Observes
  <2> QED BY <2>1, <2>2
<1>10. ASSUME NEW i \in DOMAIN groups', NEW k \in DOMAIN groups', i < k,
              groups'[i].family = groups'[k].family
       PROVE  groups'[i].gen < groups'[k].gen
  <2>1. CASE k \in DOMAIN groups /\ i \in DOMAIN groups
    BY <1>1, <1>10, <2>1 DEF Observes, CacheInv, OrderInv
  <2>2. CASE k \notin DOMAIN groups
    <3>1. k = Len(groups) + 1 /\ groups'[k].family = f /\ groups'[k].gen = p.gen
      BY <1>1, <1>10, <2>2 DEF Observes
    <3>2. i \in DOMAIN groups
      BY <1>1, <1>4, <1>10, <3>1 DEF Observes
    <3>3. /\ groups'[i].gen = groups[i].gen /\ groups[i].family = f
          /\ groups[i].gen # p.gen
      BY <1>1, <1>10, <2>2, <3>1, <3>2 DEF Observes
    <3>4. groups[i].gen <= p.gen
      BY <1>7, <3>2, <3>3
    <3> QED BY <1>2, <1>4, <3>1, <3>2, <3>3, <3>4
  <2>3. CASE k \in DOMAIN groups /\ i \notin DOMAIN groups
    BY <1>1, <1>4, <1>10, <2>3 DEF Observes
  <2> QED BY <2>1, <2>2, <2>3
<1> QED BY <1>8, <1>9, <1>10 DEF OrderInv

LEMMA OrderStep == ASSUME CacheInv, Next PROVE OrderInv'
<1>1. OrderInv
  BY DEF CacheInv
<1>2. CASE CloseBatch
  BY <1>1, <1>2, Closing, OrderFrame DEF CloseBatch, grouper
<1>3. ASSUME NEW keep \in BOOLEAN, Sends(keep)
      PROVE  OrderInv'
  BY <1>1, <1>3, SentGroups, OrderFrame DEF Sends, grouper
<1>4. CASE PrepareHit
  BY <1>1, <1>4, Finding, OrderAnswers DEF Finds, PrepareHit, grouper
<1>5. CASE Dispatch
  BY <1>1, <1>5, Dispatching, OrderAnswers DEF Dispatch, grouper
<1>6. CASE Refuses
  BY <1>1, <1>6, OrderAnswers DEF Refuses, grouper
<1>7. CASE Keep
  <2>1. UNCHANGED <<entries, generation>>
    BY <1>7 DEF Keep, grouper
  <2>2. CASE UNCHANGED groups
    BY <1>1, <2>1, <2>2 DEF OrderInv
  <2>3. CASE Answers
    BY <1>1, <2>1, <2>3, OrderAnswers
  <2> QED BY <1>7, <2>2, <2>3, Keeping DEF Keeps
<1>8. ASSUME NEW routine \in BOOLEAN, Publish(routine)
      PROVE  OrderInv'
  <2>1. /\ DOMAIN entries' = DOMAIN entries /\ generation' = generation
        /\ \A x \in DOMAIN entries : entries'[x].gen = entries[x].gen
        /\ groups' = groups \/ groups' = <<>>
    BY <1>8, Publishing DEF Publish
  <2>2. CASE groups' = groups
    BY <1>1, <2>1, <2>2 DEF OrderInv
  <2>3. CASE groups' = <<>>
    BY <1>1, <2>1, <2>3 DEF OrderInv
  <2> QED BY <2>1, <2>2, <2>3
<1>9. CASE Tick
  BY <1>1, <1>9 DEF Tick, lane, grouper, OrderInv
<1>10. ASSUME NEW w \in 0..MaxWall, SetWall(w)
       PROVE  OrderInv'
  BY <1>1, <1>10 DEF SetWall, lane, grouper, OrderInv
<1>11. CASE Restart
  BY <1>11 DEF Restart, OrderInv, Empty
<1> QED BY <1>2, <1>3, <1>4, <1>5, <1>6, <1>7, <1>8, <1>9, <1>10, <1>11, OrderObserve, Steps

\* The group of the current partition is the last one of its family.
LEMMA CurrentIsLast ==
  ASSUME CacheInv, NEW i \in DOMAIN groups, NEW k \in DOMAIN groups,
         Current(groups[i]), groups[k].family = groups[i].family
  PROVE  k <= i
<1>1. i \in Nat /\ k \in Nat /\ groups[i].gen \in Nat /\ groups[k].gen \in Nat
  BY GroupAt DEF CacheInv, GroupType
<1>2. groups[k].gen <= groups[i].gen
  BY DEF Current, CacheInv, OrderInv
<1>3. i < k => groups[i].gen < groups[k].gen
  BY DEF CacheInv, OrderInv
<1> QED BY <1>1, <1>2, <1>3

-----------------------------------------------------------------------------
(* What the judge has made of the groups.                                  *)

LEMMA GroupObserve ==
  ASSUME CacheInv, NEW f \in Families, NEW unsafe \in BOOLEAN, Observe(f, unsafe)
  PROVE  GroupInv'
<1> DEFINE p == Partition(f)
           reason == Reason(f, p, EventTime)
<1>1. /\ Observes(f, p, reason) /\ phase \in {"idle", "group"} /\ phase' = "group"
      /\ review' = review
  BY Observing DEF Observe, config
<1>2. ASSUME NEW i \in DOMAIN groups
      PROVE  /\ phase = "group" /\ Untouched(i)
             /\ groups[i].family \in review => groups[i].reason = "review_required"
             /\ groups[i].family \in DOMAIN entries =>
                  ~Reusable(entries[groups[i].family].verdict)
  <2>1. phase = "group"
    BY <1>1, GroupsDomain DEF CacheInv, LaneType
  <2> QED BY <2>1 DEF CacheInv, GroupInv
<1>3. f \in review => reason = "review_required"
  BY DEF Reason
<1>4. reason = "cached" => Reusable(p.verdict)
  BY DEF Reason
<1>5. reason = "new_or_expired" => ~Reusable(p.verdict)
  BY DEF Reason
<1>6. \/ f \in DOMAIN entries /\ p = entries[f]
      \/ f \notin DOMAIN entries /\ p.verdict = Unknown
  BY PartitionOf
<1> HIDE DEF p, reason
<1>7. ~Reusable(Unknown)
  BY DEF Reusable, Unknown
<1>8. ASSUME NEW i \in DOMAIN groups'
      PROVE  /\ Untouched(i)'
             /\ groups'[i].family \in review' => groups'[i].reason = "review_required"
  <2>1. CASE i \in DOMAIN groups
    BY <1>1, <1>2, <2>1 DEF Observes, Untouched
  <2>2. CASE i \notin DOMAIN groups
    BY <1>1, <1>3, <1>8, <2>2 DEF Observes, Untouched
  <2> QED BY <2>1, <2>2
<1>9. ASSUME NEW i \in DOMAIN groups', groups'[i].family \in DOMAIN entries'
      PROVE  ~Reusable(entries'[groups'[i].family].verdict)
  <2>1. CASE groups'[i].family # f
    <3>1. i \in DOMAIN groups /\ groups'[i].family = groups[i].family
      BY <1>1, <1>9, <2>1 DEF Observes
    <3> QED BY <1>1, <1>2, <1>9, <2>1, <3>1 DEF Observes
  <2>2. CASE groups'[i].family = f
    <3>1. reason # "cached"
      <4>1. CASE i \in DOMAIN groups
        <5>1. groups[i].family = f
          BY <1>1, <2>2, <4>1 DEF Observes
        <5> QED BY <1>2, <1>4, <1>6, <1>7, <4>1, <5>1
      <4>2. CASE i \notin DOMAIN groups
        BY <1>1, <1>9, <4>2 DEF Observes
      <4> QED BY <4>1, <4>2
    <3> QED BY <1>1, <1>5, <1>7, <2>2, <3>1 DEF Observes
  <2> QED BY <2>1, <2>2
<1> QED BY <1>1, <1>7, <1>8, <1>9 DEF GroupInv, Untouched, Judged

\* Verdicts that change on their own.
LEMMA GroupAnswers ==
  ASSUME CacheInv, Answers, UNCHANGED <<entries, review, durable>>,
         phase \in Judged \ {"publish"}, phase' \in Judged,
         \A i \in DOMAIN groups :
           /\ phase' = "prepare" /\ index' <= i => groups'[i].verdict = Unknown /\ Untouched(i)
           /\ phase' = "prepare" /\ groups[i].pending => ~Reusable(groups'[i].verdict)
           /\ Reusable(groups'[i].verdict) /\ ~groups[i].pending =>
                ~groups[i].unsafe /\ Current(groups[i])
  PROVE  GroupInv'
<1>1. GroupInv /\ DOMAIN groups' = DOMAIN groups
  BY DEF CacheInv, Answers
<1> SUFFICES ASSUME NEW i \in DOMAIN groups
             PROVE  /\ phase' = "group" => Untouched(i)'
                    /\ phase' = "prepare" /\ index' <= i => Untouched(i)'
                    /\ phase' = "prepare" /\ groups'[i].pending => ~Reusable(groups'[i].verdict)
                    /\ groups'[i].key =>
                         groups'[i].pending /\ ~groups'[i].unsafe /\ Current(groups[i])' /\ durable'
                    /\ Reusable(groups'[i].verdict) /\ ~groups'[i].pending =>
                         ~groups'[i].unsafe /\ Current(groups[i])'
                    /\ groups'[i].family \in review' => groups'[i].reason = "review_required"
                    /\ phase' \in Judged /\ groups'[i].mode # "bypass" =>
                         Current(groups[i])' /\ groups'[i].reason # "review_required"
                    /\ phase' \in {"group", "prepare", "answer", "keep"}
                         /\ groups'[i].family \in DOMAIN entries' =>
                           ~Reusable(entries'[groups'[i].family].verdict)
  BY <1>1 DEF GroupInv, Reusable
<1>2. Alike(groups[i], groups'[i])
  BY DEF Answers
<1>3. Current(groups[i])' <=> Current(groups[i])
  BY <1>2 DEF Current, Alike
<1>4. phase' # "group" /\ phase \in {"prepare", "answer", "keep"}
  BY DEF Judged
<1>5. phase' = "prepare" /\ index' <= i => Untouched(i)'
  BY <1>2 DEF Untouched, Alike
<1> QED BY <1>1, <1>2, <1>3, <1>4, <1>5 DEF GroupInv, Alike, Judged

LEMMA GroupSends ==
  ASSUME CacheInv, NEW keep \in BOOLEAN, Sends(keep)
  PROVE  GroupInv'
<1>1. /\ DOMAIN groups' = DOMAIN groups /\ index \in DOMAIN groups
      /\ \A i \in DOMAIN groups :
           /\ groups'[i].family = groups[i].family /\ groups'[i].gen = groups[i].gen
           /\ groups'[i].reason = groups[i].reason /\ groups'[i].unsafe = groups[i].unsafe
           /\ groups'[i].mode = groups[i].mode /\ groups'[i].verdict = groups[i].verdict
      /\ \A i \in DOMAIN groups \ {index} : groups'[i] = groups[i]
      /\ groups'[index].pending = TRUE /\ groups'[index].key = keep
  BY SentGroups
<1>2. /\ phase = "prepare" /\ phase' = "prepare" /\ index' = index + 1
      /\ UNCHANGED <<entries, review, durable>>
      /\ keep => ~groups[index].unsafe /\ Current(groups[index]) /\ durable
  BY DEF Sends, config, grouper, Group
<1>3. GroupInv /\ index \in Nat /\ Untouched(index) /\ \A i \in DOMAIN groups : i \in Nat
  <2>1. index \in Nat /\ \A i \in DOMAIN groups : i \in Nat
    BY <1>1, GroupAt DEF CacheInv
  <2> QED BY <1>1, <1>2, <2>1 DEF CacheInv, GroupInv
<1>4. \A i \in DOMAIN groups : Current(groups[i])' <=> Current(groups[i])
  BY <1>1, <1>2 DEF Current
<1>5. \A i \in DOMAIN groups : index' <= i => index <= i /\ i # index
  BY <1>2, <1>3
<1>6. ~Reusable(groups'[index].verdict)
  BY <1>1, <1>3 DEF Untouched, Reusable, Unknown
<1>7. ASSUME NEW i \in DOMAIN groups, i # index
      PROVE  groups'[i] = groups[i] /\ (Untouched(i)' <=> Untouched(i))
  BY <1>1, <1>7 DEF Untouched
<1> SUFFICES ASSUME NEW i \in DOMAIN groups
             PROVE  /\ index' <= i => Untouched(i)'
                    /\ groups'[i].pending => ~Reusable(groups'[i].verdict)
                    /\ groups'[i].key =>
                         groups'[i].pending /\ ~groups'[i].unsafe /\ Current(groups[i])' /\ durable'
                    /\ Reusable(groups'[i].verdict) /\ ~groups'[i].pending =>
                         ~groups'[i].unsafe /\ Current(groups[i])'
                    /\ groups'[i].family \in review' => groups'[i].reason = "review_required"
                    /\ groups'[i].mode # "bypass" =>
                         Current(groups[i])' /\ groups'[i].reason # "review_required"
                    /\ groups'[i].family \in DOMAIN entries' =>
                           ~Reusable(entries'[groups'[i].family].verdict)
  BY <1>1, <1>2 DEF GroupInv, Reusable
<1>8. CASE i = index
  BY <1>1, <1>2, <1>3, <1>4, <1>5, <1>6, <1>8 DEF GroupInv, Judged
<1>9. CASE i # index
  BY <1>1, <1>2, <1>3, <1>4, <1>5, <1>7, <1>9 DEF GroupInv, Judged
<1> QED BY <1>8, <1>9

LEMMA GroupStep == ASSUME CacheInv, Next PROVE GroupInv'
<1>1. GroupInv /\ LaneType /\ ~Reusable(Unknown)
  BY DEF CacheInv, Reusable, Unknown
<1>2. CASE CloseBatch
  <2>1. /\ phase = "group" /\ UNCHANGED <<entries, review, durable>> /\ index' = 1
        /\ phase' \in {"idle", "prepare"}
    BY <1>2 DEF CloseBatch, grouper, config
  <2>2. ASSUME NEW i \in DOMAIN groups
        PROVE  /\ Untouched(i) /\ Untouched(i)' /\ (Current(groups[i])' <=> Current(groups[i]))
               /\ groups'[i].reason = groups[i].reason /\ groups'[i].family = groups[i].family
               /\ groups'[i].mode # "bypass" =>
                    Current(groups[i]) /\ groups[i].reason # "review_required"
    <3>1. Untouched(i)
      BY <1>1, <2>1 DEF GroupInv
    <3> QED BY <1>2, <2>1, <3>1, Closing DEF Untouched, Current, Mode
  <2> QED BY <1>1, <1>2, <2>1, <2>2, Closing DEF GroupInv, Untouched
<1>3. CASE PrepareHit
  <2> DEFINE j == Hit(Group.family, asked)
  <2>1. Finds(Group.family, j)
    BY <1>3, Finding
  <2>2. phase = "prepare" /\ phase' = "prepare" /\ index' = index + 1 /\ UNCHANGED <<entries, review, durable>>
    BY <1>3 DEF PrepareHit, Preparing, grouper, config
  <2>3. index \in Nat /\ \A i \in DOMAIN groups : i \in Nat
    BY <1>1, <2>1, GroupAt DEF Finds
  <2>4. \A i \in DOMAIN groups : index' <= i => i # index /\ index <= i
    BY <2>2, <2>3
  <2>5. \A i \in DOMAIN groups : index <= i => Untouched(i)
    BY <1>1, <2>2 DEF GroupInv
  <2>6. ASSUME NEW i \in DOMAIN groups
        PROVE  /\ index' <= i => groups'[i].verdict = Unknown /\ Untouched(i)
               /\ groups[i].pending => ~Reusable(groups'[i].verdict)
               /\ Reusable(groups'[i].verdict) /\ ~groups[i].pending =>
                    ~groups[i].unsafe /\ Current(groups[i])
    <3>1. CASE i = index
      BY <2>1, <2>4, <3>1 DEF Finds, Untouched
    <3>2. CASE i # index
      BY <1>1, <2>1, <2>2, <2>4, <2>5, <3>2 DEF Finds, Untouched, GroupInv
    <3> QED BY <3>1, <3>2
  <2> QED BY <2>1, <2>2, <2>6, GroupAnswers DEF Finds, Judged
<1>4. CASE Dispatch
  <2>1. phase = "prepare" /\ phase' = "answer" /\ UNCHANGED <<entries, review, durable>>
    BY <1>4 DEF Dispatch, grouper, config
  <2>2. ASSUME NEW i \in DOMAIN groups, Reusable(groups'[i].verdict), ~groups[i].pending
        PROVE  ~groups[i].unsafe /\ Current(groups[i])
    <3>1. groups'[i] = groups[i]
      BY <1>4, <2>2, Dispatching DEF Pending
    <3> QED BY <1>1, <2>2, <3>1 DEF GroupInv
  <2> QED BY <1>4, <2>1, <2>2, Dispatching, GroupAnswers DEF Judged
<1>5. CASE Refuses
  <2>1. /\ phase \in Judged \ {"publish"} /\ phase' \in Judged /\ phase' # "prepare"
        /\ UNCHANGED <<entries, review, durable>> /\ Answers
        /\ \A i \in DOMAIN groups :
             groups'[i].verdict = groups[i].verdict \/ groups'[i].verdict = Unknown
    BY <1>5 DEF Refuses, grouper, config, Judged
  <2>2. \A i \in DOMAIN groups : Reusable(groups'[i].verdict) /\ ~groups[i].pending =>
          ~groups[i].unsafe /\ Current(groups[i])
    BY <1>1, <2>1 DEF GroupInv
  <2> QED BY <2>1, <2>2, GroupAnswers
<1>6. CASE Keep
  <2>1. /\ phase = "keep" /\ phase' \in {"keep", "publish"} /\ UNCHANGED <<entries, review, durable>>
    BY <1>6, Keeping DEF Keep, grouper, config
  <2>2. CASE UNCHANGED groups
    BY <1>1, <2>1, <2>2 DEF GroupInv, Current, Untouched, Judged
  <2>3. ASSUME NEW j, Keeps(j)
        PROVE  GroupInv'
    <3>1. groups[index].pending
      BY <1>1, <1>6, <2>3, Keeping DEF Keeps, GroupInv
    <3>2. \A i \in DOMAIN groups : Reusable(groups'[i].verdict) /\ ~groups[i].pending =>
            ~groups[i].unsafe /\ Current(groups[i])
      BY <1>1, <2>3, <3>1 DEF Keeps, GroupInv
    <3> QED BY <2>1, <2>3, <3>2, GroupAnswers DEF Keeps, Judged
  <2> QED BY <1>6, <2>2, <2>3, Keeping
<1>7. ASSUME NEW routine \in BOOLEAN, Publish(routine)
      PROVE  GroupInv'
  <2>1. /\ phase = "publish" /\ DOMAIN entries' = DOMAIN entries /\ review' = review /\ durable' = durable
        /\ \A x \in DOMAIN entries : entries'[x].gen = entries[x].gen
        /\ \/ phase' = "publish" /\ groups' = groups
           \/ phase' = "idle" /\ groups' = <<>>
    BY <1>7, Publishing DEF Publish, config
  <2>2. CASE groups' = <<>>
    BY <2>2 DEF GroupInv
  <2>3. CASE phase' = "publish" /\ groups' = groups
    <3>1. \A i \in DOMAIN groups : Current(groups[i])' <=> Current(groups[i])
      BY <2>1, <2>3 DEF Current
    <3> QED BY <1>1, <2>1, <2>3, <3>1 DEF GroupInv, Judged
  <2> QED BY <2>1, <2>2, <2>3
<1>8. CASE Tick
  BY <1>1, <1>8 DEF Tick, lane, grouper, config, GroupInv, Untouched, Current
<1>9. ASSUME NEW w \in 0..MaxWall, SetWall(w)
      PROVE  GroupInv'
  BY <1>1, <1>9 DEF SetWall, lane, grouper, config, GroupInv, Untouched, Current
<1>10. CASE Restart
  BY <1>10 DEF Restart, GroupInv
<1> QED BY <1>2, <1>3, <1>4, <1>5, <1>6, <1>7, <1>8, <1>9, <1>10, GroupObserve, GroupSends, Steps

-----------------------------------------------------------------------------
(* The numbers of the verdicts.                                            *)

LEMMA NumbersInRange ==
  ASSUME CacheInv
  PROVE  \A n \in DOMAIN born : n \in Nat /\ n # 0 /\ n <= assessed
BY DEF CacheInv, StoreType

\* Verdicts may be lost by whoever has them.
LEMMA IdsFrame ==
  ASSUME CacheInv, DOMAIN born \subseteq DOMAIN born',
         \A x \in DOMAIN verdicts' : x \in DOMAIN verdicts /\ verdicts'[x].id = verdicts[x].id,
         \A x \in DOMAIN entries' : Reusable(entries'[x].verdict) =>
           x \in DOMAIN entries /\ entries'[x].verdict.id = entries[x].verdict.id,
         \A i \in DOMAIN groups' : Reusable(groups'[i].verdict) =>
           /\ i \in DOMAIN groups /\ groups'[i].verdict.id = groups[i].verdict.id
           /\ groups'[i].pending = groups[i].pending /\ groups'[i].key = groups[i].key
           /\ groups'[i].family = groups[i].family /\ groups'[i].unsafe = groups[i].unsafe
           /\ Current(groups[i]) => Current(groups[i])'
  PROVE  IdsInv'
<1>1. IdsInv
  BY DEF CacheInv
<1> QED BY <1>1 DEF IdsInv, Reusable

LEMMA IdsObserve ==
  ASSUME CacheInv, NEW f \in Families, NEW unsafe \in BOOLEAN, Observe(f, unsafe)
  PROVE  IdsInv'
<1> DEFINE p == Partition(f)
           reason == Reason(f, p, EventTime)
<1>1. Observes(f, p, reason) /\ UNCHANGED <<born, verdicts>> /\ phase' = "group"
  BY Observing DEF Observe, store, history
<1>2. \/ f \in DOMAIN entries /\ p = entries[f]
      \/ f \notin DOMAIN entries /\ p.verdict = Unknown
  BY PartitionOf
<1> HIDE DEF p, reason
<1>3. \A i \in DOMAIN groups' : groups'[i].verdict = Unknown
  BY <1>1, GroupObserve DEF GroupInv, Untouched
<1>4. \A x \in DOMAIN entries' : Reusable(entries'[x].verdict) =>
        x \in DOMAIN entries /\ entries'[x].verdict.id = entries[x].verdict.id
  BY <1>1, <1>2 DEF Observes, Reusable, Unknown
<1> QED BY <1>1, <1>3, <1>4, IdsFrame DEF Reusable, Unknown

LEMMA IdsPrepareHit == ASSUME CacheInv, PrepareHit PROVE IdsInv'
<1> DEFINE f == Group.family
           j == Hit(f, asked)
<1>1. Finds(f, j)
  BY Finding
<1>2. phase = "prepare" /\ UNCHANGED <<verdicts, entries, born>>
  BY DEF PrepareHit, Preparing, grouper
<1>3. f \in DOMAIN verdicts /\ j.id = verdicts[f].id
  BY HitVerdict DEF PrepareHit, Found
<1> HIDE DEF f, j
<1>4. IdsInv /\ j.id \in DOMAIN born
  BY <1>3 DEF CacheInv, IdsInv
<1>5. /\ DOMAIN groups' = DOMAIN groups /\ groups'[index].verdict = j
      /\ \A i \in DOMAIN groups : groups'[i].pending = groups[i].pending
      /\ \A i \in DOMAIN groups \ {index} : groups'[i] = groups[i]
      /\ ~groups[index].pending
  BY <1>1 DEF Finds, Answers, Alike, Untouched
<1>6. \A i \in DOMAIN groups' : ~(Reusable(groups'[i].verdict) /\ groups'[i].pending)
  <2> TAKE i \in DOMAIN groups'
  <2>1. CASE i = index
    BY <1>5, <2>1
  <2>2. CASE i # index
    BY <1>2, <1>5, <2>2 DEF CacheInv, GroupInv
  <2> QED BY <2>1, <2>2
<1>7. \A i \in DOMAIN groups' :
        Reusable(groups'[i].verdict) => groups'[i].verdict.id \in DOMAIN born'
  BY <1>2, <1>4, <1>5 DEF IdsInv
<1> QED BY <1>2, <1>4, <1>6, <1>7 DEF IdsInv

LEMMA IdsDispatch == ASSUME CacheInv, Dispatch PROVE IdsInv'
<1>1. /\ Answers
      /\ \A i \in DOMAIN groups \ Pending : groups'[i] = groups[i]
      /\ \A i \in Pending : i \in DOMAIN groups /\ groups'[i].verdict.id = AssessmentOf(i)
  BY Dispatching
<1>2. phase = "prepare" /\ UNCHANGED <<verdicts, entries>>
  BY DEF Dispatch, store, grouper
<1>3. IdsInv /\ assessed \in Nat
  BY DEF CacheInv, StoreType
<1>4. /\ DOMAIN born \subseteq DOMAIN born' /\ DOMAIN since' \subseteq DOMAIN born'
      /\ \A i \in Pending : AssessmentOf(i) \in DOMAIN since'
  BY AssessmentsBegin
<1>5. \A i \in Pending : AssessmentOf(i) \in Nat /\ assessed < AssessmentOf(i)
  BY Assessments
<1>6. \A n \in DOMAIN born : \A i \in Pending : AssessmentOf(i) # n
  BY <1>3, <1>5, NumbersInRange
<1>7. \A i \in DOMAIN groups : Reusable(groups'[i].verdict) /\ i \notin Pending =>
        groups'[i].verdict.id \in DOMAIN born
  BY <1>1, <1>3 DEF IdsInv
<1>8. \A i \in DOMAIN groups' : /\ i \in DOMAIN groups
                                /\ groups'[i].pending <=> i \in Pending
  <2>1. DOMAIN groups = 1..Len(groups)
    BY GroupsDomain DEF CacheInv
  <2> QED BY <1>1, <2>1 DEF Answers, Alike, Pending
<1>9. \A i \in DOMAIN groups' :
        Reusable(groups'[i].verdict) => groups'[i].verdict.id \in DOMAIN born'
  BY <1>1, <1>4, <1>7, <1>8
<1>10. ASSUME NEW i \in DOMAIN groups', NEW k \in DOMAIN groups', i \in Pending,
              groups'[k].verdict.id = groups'[i].verdict.id
       PROVE  k = i
  <2>1. groups'[i].verdict.id = AssessmentOf(i) /\ AssessmentOf(i) # 0
    BY <1>1, <1>3, <1>5, <1>10
  <2>2. Reusable(groups'[k].verdict)
    BY <1>10, <2>1 DEF Reusable
  <2>3. k \in Pending
    BY <1>6, <1>7, <1>8, <1>10, <2>1, <2>2
  <2>4. AssessmentOf(k) = AssessmentOf(i)
    BY <1>1, <1>10, <2>1, <2>3
  <2>5. i \in Nat /\ k \in Nat
    BY <1>8, GroupAt DEF CacheInv
  <2>6. ~(i < k) /\ ~(k < i)
    BY <1>5, <1>10, <2>3, <2>4, Assessments
  <2> QED BY <2>5, <2>6
<1>11. ASSUME NEW i \in Pending
       PROVE  /\ \A f \in DOMAIN verdicts : verdicts[f].id # groups'[i].verdict.id
              /\ \A f \in DOMAIN entries : entries[f].verdict.id # groups'[i].verdict.id
  <2>1. groups'[i].verdict.id = AssessmentOf(i) /\ AssessmentOf(i) # 0
        /\ AssessmentOf(i) \notin DOMAIN born
    BY <1>1, <1>3, <1>5, <1>6
  <2> QED BY <1>3, <2>1 DEF IdsInv, Reusable
<1>12. /\ \A f \in DOMAIN verdicts : verdicts[f].id \in DOMAIN born'
       /\ \A f \in DOMAIN entries :
            Reusable(entries[f].verdict) => entries[f].verdict.id \in DOMAIN born'
       /\ \A f, g \in DOMAIN verdicts : verdicts[f].id = verdicts[g].id => f = g
  BY <1>3, <1>4 DEF IdsInv
<1> QED BY <1>2, <1>8, <1>9, <1>10, <1>11, <1>12 DEF IdsInv

LEMMA IdsKeep == ASSUME CacheInv, Keep PROVE IdsInv'
<1>1. /\ phase = "keep" /\ index \in DOMAIN groups /\ UNCHANGED <<entries, born>>
      /\ UNCHANGED <<groups, store>> \/ \E j : Keeps(j)
  BY Keeping DEF Keep, grouper, history
<1>2. IdsInv /\ GroupInv
  BY DEF CacheInv
<1>3. CASE UNCHANGED <<groups, store>>
  BY <1>1, <1>2, <1>3 DEF IdsInv, store, Current
<1>4. ASSUME NEW j, Keeps(j)
      PROVE  IdsInv'
  <2> DEFINE f == groups[index].family
  <2>1. /\ Answers /\ groups'[index].verdict.id = groups[index].verdict.id
        /\ groups[index].key /\ Reusable(groups[index].verdict) /\ groups[index].pending
        /\ j.id = groups[index].verdict.id
        /\ \A i \in DOMAIN groups \ {index} : groups'[i] = groups[i]
        /\ UNCHANGED store \/ Deleted(f) \/ Stored(f, j)
    BY <1>1, <1>2, <1>4 DEF Keeps, GroupInv
  <2>2. DOMAIN groups' = DOMAIN groups /\ \A i \in DOMAIN groups :
          /\ groups'[i].verdict.id = groups[i].verdict.id
          /\ groups'[i].pending = groups[i].pending /\ groups'[i].key = groups[i].key
          /\ groups'[i].family = groups[i].family /\ groups'[i].unsafe = groups[i].unsafe
          /\ Current(groups[i])' <=> Current(groups[i])
    BY <1>1, <2>1 DEF Answers, Alike, Current
  <2>3. CASE UNCHANGED store
    BY <1>1, <2>2, <2>3, IdsFrame DEF store
  <2>4. CASE Deleted(f)
    BY <1>1, <2>2, <2>4, DeletedRows, IdsFrame
  <2>5. CASE Stored(f, j)
    <3>1. /\ f \in DOMAIN verdicts' /\ verdicts'[f].id = groups[index].verdict.id
          /\ \A x \in DOMAIN verdicts' : x # f => x \in DOMAIN verdicts /\ verdicts'[x] = verdicts[x]
      BY <2>1, <2>5 DEF Stored
    <3>2. \A x \in DOMAIN verdicts : verdicts[x].id = groups[index].verdict.id => x = f
      BY <1>1, <1>2, <2>1 DEF IdsInv
    <3>3. \A x, y \in DOMAIN verdicts' : verdicts'[x].id = verdicts'[y].id => x = y
      BY <1>2, <3>1, <3>2 DEF IdsInv
    <3>4. \A x \in DOMAIN verdicts' : verdicts'[x].id \in DOMAIN born'
      BY <1>1, <1>2, <2>1, <3>1 DEF IdsInv
    <3>5. ASSUME NEW i \in DOMAIN groups, Reusable(groups[i].verdict), groups[i].pending,
                 NEW x \in DOMAIN verdicts', verdicts'[x].id = groups[i].verdict.id
          PROVE  x = groups[i].family /\ groups[i].key
      <4>1. CASE x = f
        <5>1. index = i
          BY <1>1, <1>2, <3>1, <3>5, <4>1 DEF IdsInv
        <5> QED BY <2>1, <4>1, <5>1
      <4>2. CASE x # f
        BY <1>2, <3>1, <3>5, <4>2 DEF IdsInv
      <4> QED BY <4>1, <4>2
    <3>6. \A i \in DOMAIN groups : Reusable(groups'[i].verdict) <=> Reusable(groups[i].verdict)
      BY <2>2 DEF Reusable
    <3> HIDE DEF f
    <3>7. \A i \in DOMAIN groups' : Reusable(groups'[i].verdict) => groups'[i].verdict.id \in DOMAIN born'
      BY <1>1, <1>2, <2>2, <3>6 DEF IdsInv
    <3>8. \A i, k \in DOMAIN groups' :
            Reusable(groups'[i].verdict) /\ groups'[i].pending
              /\ groups'[k].verdict.id = groups'[i].verdict.id => k = i
      BY <1>2, <2>2, <3>6 DEF IdsInv
    <3>9. \A i \in DOMAIN groups' : Reusable(groups'[i].verdict) /\ groups'[i].pending =>
            /\ \A x \in DOMAIN verdicts' : verdicts'[x].id = groups'[i].verdict.id =>
                 x = groups'[i].family /\ groups'[i].key
            /\ \A x \in DOMAIN entries' : entries'[x].verdict.id = groups'[i].verdict.id =>
                 x = groups'[i].family /\ Current(groups[i])' /\ ~groups'[i].unsafe
      BY <1>1, <1>2, <2>2, <3>5, <3>6 DEF IdsInv
    <3>10. \A x \in DOMAIN entries' :
             Reusable(entries'[x].verdict) => entries'[x].verdict.id \in DOMAIN born'
      BY <1>1, <1>2 DEF IdsInv
    <3> QED BY <3>3, <3>4, <3>7, <3>8, <3>9, <3>10 DEF IdsInv
  <2> QED BY <2>1, <2>3, <2>4, <2>5
<1> QED BY <1>1, <1>3, <1>4

LEMMA IdsPublish ==
  ASSUME CacheInv, NEW routine \in BOOLEAN, Publish(routine)
  PROVE  IdsInv'
<1>1. /\ index \in DOMAIN groups /\ DOMAIN entries' = DOMAIN entries
      /\ \A x \in DOMAIN entries :
           /\ entries'[x].gen = entries[x].gen
           /\ entries'[x].verdict \in {entries[x].verdict, Unknown} \/ Publishes(x)
      /\ BoundsOf(groups[index]).id = groups[index].verdict.id
      /\ groups' = groups \/ groups' = <<>>
  BY Publishing
<1>2. UNCHANGED <<verdicts, born>>
  BY DEF Publish, store, history
<1>3. IdsInv /\ Unknown.id = 0
  BY DEF CacheInv, Unknown
<1>4. \A x \in DOMAIN entries : Publishes(x) =>
        entries'[x].verdict.id = groups[index].verdict.id
  BY <1>1 DEF Publishes
<1>5. \A x \in DOMAIN entries' :
        Reusable(entries'[x].verdict) => entries'[x].verdict.id \in DOMAIN born'
  BY <1>1, <1>2, <1>3, <1>4 DEF IdsInv, Publishes, Reusable
<1>6. ASSUME NEW i \in DOMAIN groups, Reusable(groups[i].verdict), groups[i].pending,
             NEW x \in DOMAIN entries, entries'[x].verdict.id = groups[i].verdict.id
      PROVE  x = groups[i].family /\ Current(groups[i]) /\ ~groups[i].unsafe
  <2>1. CASE Publishes(x)
    <3>1. index = i
      BY <1>1, <1>3, <1>6, <2>1 DEF IdsInv, Publishes
    <3> QED BY <2>1, <3>1 DEF Publishes
  <2>2. CASE entries'[x].verdict \in {entries[x].verdict, Unknown}
    <3>1. entries'[x].verdict = entries[x].verdict
      BY <1>3, <1>6, <2>2 DEF Reusable
    <3> QED BY <1>3, <1>6, <3>1 DEF IdsInv
  <2> QED BY <1>1, <2>1, <2>2
<1>7. \A i \in DOMAIN groups : groups' = groups => (Current(groups[i])' <=> Current(groups[i]))
  BY <1>1 DEF Current
<1>8. CASE groups' = <<>>
  BY <1>2, <1>3, <1>5, <1>8 DEF IdsInv
<1>9. CASE groups' = groups
  <2>1. /\ \A i \in DOMAIN groups' :
             Reusable(groups'[i].verdict) => groups'[i].verdict.id \in DOMAIN born'
        /\ \A i, k \in DOMAIN groups' :
             Reusable(groups'[i].verdict) /\ groups'[i].pending
               /\ groups'[k].verdict.id = groups'[i].verdict.id => k = i
    BY <1>2, <1>3, <1>9 DEF IdsInv
  <2>2. \A i \in DOMAIN groups' : Reusable(groups'[i].verdict) /\ groups'[i].pending =>
          /\ \A x \in DOMAIN verdicts' : verdicts'[x].id = groups'[i].verdict.id =>
               x = groups'[i].family /\ groups'[i].key
          /\ \A x \in DOMAIN entries' : entries'[x].verdict.id = groups'[i].verdict.id =>
               x = groups'[i].family /\ Current(groups[i])' /\ ~groups'[i].unsafe
    BY <1>1, <1>2, <1>3, <1>6, <1>7, <1>9 DEF IdsInv
  <2>3. /\ \A x \in DOMAIN verdicts' : verdicts'[x].id \in DOMAIN born'
        /\ \A x, y \in DOMAIN verdicts' : verdicts'[x].id = verdicts'[y].id => x = y
    BY <1>2, <1>3 DEF IdsInv
  <2> QED BY <1>5, <2>1, <2>2, <2>3 DEF IdsInv
<1> QED BY <1>1, <1>8, <1>9

LEMMA IdsStep == ASSUME CacheInv, Next PROVE IdsInv'
<1>1. IdsInv
  BY DEF CacheInv
<1>2. CASE CloseBatch
  <2>1. UNCHANGED <<entries, born, verdicts>>
    BY <1>2 DEF CloseBatch, store, grouper, history
  <2>2. \A i \in DOMAIN groups' : Reusable(groups'[i].verdict) =>
          /\ i \in DOMAIN groups /\ groups'[i].verdict.id = groups[i].verdict.id
          /\ groups'[i].pending = groups[i].pending /\ groups'[i].key = groups[i].key
          /\ groups'[i].family = groups[i].family /\ groups'[i].unsafe = groups[i].unsafe
          /\ Current(groups[i]) => Current(groups[i])'
    BY <1>2, <2>1, Closing DEF Current
  <2> QED BY <2>1, <2>2, IdsFrame
<1>3. ASSUME NEW keep \in BOOLEAN, Sends(keep)
      PROVE  IdsInv'
  <2>1. \A x \in DOMAIN verdicts' : x \in DOMAIN verdicts /\ verdicts'[x].id = verdicts[x].id
    BY <1>3, DeletedRows DEF Sends, store
  <2>2. phase = "prepare" /\ UNCHANGED <<entries, born>>
    BY <1>3 DEF Sends, grouper, history
  <2>3. \A i \in DOMAIN groups' : Reusable(groups'[i].verdict) =>
          i \in DOMAIN groups /\ groups'[i] = groups[i]
    BY <1>3, SentReusable
  <2> QED BY <2>1, <2>2, <2>3, IdsFrame DEF Current
<1>4. CASE Refuses
  <2>1. /\ UNCHANGED <<entries, born, verdicts>> /\ Answers
        /\ \A i \in DOMAIN groups :
             groups'[i].verdict = groups[i].verdict \/ groups'[i].verdict = Unknown
    BY <1>4 DEF Refuses, grouper, store, history
  <2>2. \A i \in DOMAIN groups' : Reusable(groups'[i].verdict) =>
          /\ i \in DOMAIN groups /\ groups'[i].verdict.id = groups[i].verdict.id
          /\ groups'[i].pending = groups[i].pending /\ groups'[i].key = groups[i].key
          /\ groups'[i].family = groups[i].family /\ groups'[i].unsafe = groups[i].unsafe
          /\ Current(groups[i]) => Current(groups[i])'
    BY <2>1 DEF Answers, Alike, Current, Reusable, Unknown
  <2> QED BY <2>1, <2>2, IdsFrame
<1>5. CASE Tick
  BY <1>1, <1>5 DEF Tick, store, lane, grouper, history, IdsInv, Current
<1>6. ASSUME NEW w \in 0..MaxWall, SetWall(w)
      PROVE  IdsInv'
  BY <1>1, <1>6 DEF SetWall, store, lane, grouper, history, IdsInv, Current
<1>7. CASE Restart
  BY <1>1, <1>7 DEF Restart, IdsInv, Empty
<1> QED BY <1>2, <1>3, <1>4, <1>5, <1>6, <1>7, IdsObserve, IdsPrepareHit, IdsDispatch,
           IdsKeep, IdsPublish, Steps

LEMMA CacheInit == Init => CacheInv
<1> HAVE Init
<1>1. StoreType
  BY ConfigTypes DEF Init, StoreType, Empty
<1>2. groups \in Seq(GroupType) /\ Len(groups) = 0 /\ DOMAIN groups = {}
  BY DEF Init
<1>3. LaneType
  BY <1>2, ReadingTypes DEF Init, LaneType, Empty, NoTime, Judged
<1>4. OrderInv /\ GroupInv /\ IdsInv
  BY <1>2 DEF Init, OrderInv, GroupInv, IdsInv, Empty
<1> QED BY <1>1, <1>3, <1>4 DEF CacheInv

LEMMA CacheStep == CacheInv /\ [Next]_vars => CacheInv'
<1> SUFFICES ASSUME CacheInv, [Next]_vars
             PROVE  CacheInv'
  OBVIOUS
<1>1. CASE Next
  BY <1>1, StoreStep, LaneStep, OrderStep, GroupStep, IdsStep DEF CacheInv
<1>2. CASE UNCHANGED vars
  BY <1>2 DEF vars, CacheInv, StoreType, LaneType, OrderInv, GroupInv, IdsInv, Current, Untouched
<1> QED BY <1>1, <1>2

LEMMA CacheAlways == Spec => []CacheInv
BY CacheInit, CacheStep, PTL DEF Spec

\* What must not be kept is kept neither in the table nor in a partition: an
\* answer about unsafe evidence, or for a ticket that a later event of the batch
\* made stale (CachedJudge.Judge and Grouper.Publish).
THEOREM RefusedNeverKept == Spec => []RefusedNotKept
<1>1. CacheInv => RefusedNotKept
  <2> SUFFICES ASSUME CacheInv, NEW i \in 1..Len(groups), Reusable(groups[i].verdict),
                      groups[i].unsafe \/ ~Current(groups[i])
               PROVE  /\ groups[i].family \in DOMAIN verdicts =>
                           verdicts[groups[i].family].id # groups[i].verdict.id
                      /\ groups[i].family \in DOMAIN entries =>
                           entries[groups[i].family].verdict.id # groups[i].verdict.id
    BY DEF RefusedNotKept
  <2>1. i \in DOMAIN groups /\ GroupInv /\ IdsInv
    BY GroupsDomain DEF CacheInv
  <2>2. groups[i].pending /\ ~groups[i].key
    BY <2>1 DEF GroupInv
  <2> QED BY <2>1, <2>2 DEF IdsInv
<1> QED BY <1>1, CacheAlways, PTL

-----------------------------------------------------------------------------
(* Only the latest assessment is reused.                                   *)

\* A lookup that finds the registry of lifetimes full leaves the row of its family.
LeavesRow ==
  PrepareMiss /\ NoSlot(Group.family) /\ Group.family \in DOMAIN verdicts

LEMMA LatestFrame ==
  ASSUME LatestInv, UNCHANGED <<last, durable>>, ReuseIsLatest',
         \A x \in DOMAIN verdicts' : x \in DOMAIN verdicts /\ verdicts'[x].id = verdicts[x].id,
         \A x \in DOMAIN entries' : Reusable(entries'[x].verdict) =>
           x \in DOMAIN entries /\ entries'[x].verdict.id = entries[x].verdict.id,
         \A i \in DOMAIN groups' : Reusable(groups'[i].verdict) /\ Current(groups[i])' =>
           /\ i \in DOMAIN groups /\ groups'[i].verdict.id = groups[i].verdict.id
           /\ groups'[i].family = groups[i].family /\ Current(groups[i]),
         phase' = "prepare" => \A i \in DOMAIN groups' : ~groups'[i].pending
  PROVE  LatestInv'
<1>1. /\ \A x \in DOMAIN verdicts' : verdicts'[x].id = last'[x]
      /\ ~durable' => DOMAIN verdicts' = {}
  BY DEF LatestInv
<1>2. \A x \in DOMAIN entries' :
        Reusable(entries'[x].verdict) => entries'[x].verdict.id = last'[x]
  BY DEF LatestInv, Reusable
<1>3. \A i \in DOMAIN groups' : Reusable(groups'[i].verdict) /\ Current(groups[i])' =>
        groups'[i].verdict.id = last'[groups'[i].family]
  BY DEF LatestInv, Reusable
<1> QED BY <1>1, <1>2, <1>3 DEF LatestInv

LEMMA LatestObserve ==
  ASSUME CacheInv, LatestInv, NEW f \in Families, NEW unsafe \in BOOLEAN, Observe(f, unsafe)
  PROVE  LatestInv'
<1> DEFINE p == Partition(f)
           reason == Reason(f, p, EventTime)
<1>1. /\ Observes(f, p, reason) /\ phase' = "group"
      /\ UNCHANGED <<verdicts, last, durable, review>>
      /\ \/ reason = "cached" /\ reuse'.id = p.verdict.id /\ reuse'.family = f
         \/ reuse' = NoReuse
  BY Observing DEF Observe, EventTime, store, history, config
<1>2. reason = "cached" => Reusable(p.verdict) /\ f \notin review
  BY DEF Reason
<1>3. \/ f \in DOMAIN entries /\ p = entries[f]
      \/ f \notin DOMAIN entries /\ p.verdict = Unknown
  BY PartitionOf
<1> HIDE DEF p, reason
<1>4. ReuseIsLatest'
  <2>1. CASE reuse' = NoReuse
    BY <2>1 DEF ReuseIsLatest, NoReuse
  <2>2. CASE reason = "cached" /\ reuse'.id = p.verdict.id /\ reuse'.family = f
    <3>1. f \in DOMAIN entries /\ p = entries[f] /\ Reusable(entries[f].verdict)
      BY <1>2, <1>3, <2>2 DEF Reusable, Unknown
    <3> QED BY <1>1, <1>2, <2>2, <3>1 DEF ReuseIsLatest, LatestInv
  <2> QED BY <1>1, <2>1, <2>2
<1>5. \A i \in DOMAIN groups' : ~Reusable(groups'[i].verdict)
  BY <1>1, GroupObserve DEF GroupInv, Untouched, Reusable, Unknown
<1>6. \A x \in DOMAIN entries' : Reusable(entries'[x].verdict) =>
        x \in DOMAIN entries /\ entries'[x].verdict.id = entries[x].verdict.id
  BY <1>1, <1>3 DEF Observes, Reusable, Unknown
<1> QED BY <1>1, <1>4, <1>5, <1>6, LatestFrame

\* A group that is sent leaves no row of its family.
LEMMA LatestSends ==
  ASSUME ~LeavesRow, CacheInv, LatestInv, NEW keep \in BOOLEAN, Sends(keep)
  PROVE  LatestInv'
<1> DEFINE f == groups[index].family
<1>1. /\ DOMAIN groups' = DOMAIN groups /\ index \in DOMAIN groups
      /\ \A i \in DOMAIN groups :
           /\ groups'[i].family = groups[i].family /\ groups'[i].gen = groups[i].gen
           /\ groups'[i].verdict = groups[i].verdict
      /\ \A i \in DOMAIN groups \ {index} : groups'[i] = groups[i]
      /\ groups'[index].pending = TRUE
  BY SentGroups
<1>2. /\ phase = "prepare" /\ phase' = "prepare" /\ reuse' = NoReuse
      /\ UNCHANGED <<entries, last, durable, review>>
  BY DEF Sends, grouper, history, config
<1>3. f \in Families /\ index \in Nat
  BY <1>1, GroupAt DEF CacheInv, GroupType
<1>4. PrepareMiss /\ NoSlot(f) => f \notin DOMAIN verdicts
  BY DEF LeavesRow, Group
<1>5. /\ f \notin DOMAIN verdicts'
      /\ \A x \in DOMAIN verdicts' : x \in DOMAIN verdicts /\ verdicts'[x] = verdicts[x]
  <2>1. CASE Deleted(f)
    <3>1. /\ DOMAIN verdicts' = DOMAIN verdicts \ {f}
          /\ \A x \in DOMAIN verdicts' : verdicts'[x] = verdicts[x]
      BY <2>1, DeletedRows
    <3> QED BY <3>1
  <2>2. CASE UNCHANGED store /\ ~durable
    BY <2>2 DEF store, LatestInv
  <2>3. CASE UNCHANGED store /\ PrepareMiss /\ NoSlot(f)
    BY <1>4, <2>3 DEF store
  <2> QED BY <2>1, <2>2, <2>3 DEF Sends, Group
<1>6. ~Reusable(groups[index].verdict) /\ ~Reusable(Unknown)
  <2>1. Untouched(index)
    BY <1>1, <1>2, <1>3 DEF CacheInv, GroupInv
  <2> QED BY <2>1 DEF Untouched, Reusable, Unknown
<1>7. \A i \in DOMAIN groups : Current(groups[i])' <=> Current(groups[i])
  BY <1>1, <1>2 DEF Current
<1>8. ASSUME NEW i \in DOMAIN groups, Reusable(groups[i].verdict)
      PROVE  groups[i].family # f
  <2>1. ~groups[i].pending /\ Current(groups[i])
    BY <1>2, <1>8 DEF CacheInv, GroupInv
  <2>2. i # index /\ i < index
    <3>1. i \in Nat /\ i # index
      BY <1>6, <1>8, GroupAt DEF CacheInv
    <3>2. ~(index <= i)
      BY <1>2, <1>6, <1>8 DEF CacheInv, GroupInv, Untouched
    <3> QED BY <1>3, <3>1, <3>2
  <2>3. groups[i].family = f => index <= i
    BY <1>1, <2>1, CurrentIsLast
  <2> QED BY <1>3, <2>2, <2>3, GroupAt DEF CacheInv
<1> HIDE DEF f
<1>9. \A i \in DOMAIN groups' : groups'[i].pending => groups'[i].family \notin DOMAIN verdicts'
  <2>1. groups[index].family = f
    BY DEF f
  <2> QED BY <1>1, <1>2, <1>5, <2>1 DEF LatestInv
<1>10. \A i, k \in DOMAIN groups' :
         Reusable(groups'[i].verdict) /\ groups'[k].pending =>
           groups'[i].family # groups'[k].family
  <2>1. groups[index].family = f
    BY DEF f
  <2> QED BY <1>1, <1>2, <1>8, <2>1 DEF LatestInv
<1>11. /\ \A x \in DOMAIN verdicts' : verdicts'[x].id = last'[x]
       /\ ~durable' => DOMAIN verdicts' = {}
       /\ \A x \in DOMAIN entries' :
            Reusable(entries'[x].verdict) => entries'[x].verdict.id = last'[x]
       /\ \A i \in DOMAIN groups' : Reusable(groups'[i].verdict) /\ Current(groups[i])' =>
            groups'[i].verdict.id = last'[groups'[i].family]
  BY ZenonT(60), <1>1, <1>2, <1>5, <1>7 DEF LatestInv
<1>12. ReuseIsLatest'
  BY <1>2 DEF ReuseIsLatest, NoReuse
<1> QED BY <1>9, <1>10, <1>11, <1>12 DEF LatestInv

\* A group that is found has no other of its family before it that was sent.
LEMMA LatestPrepareHit ==
  ASSUME CacheInv, LatestInv, PrepareHit
  PROVE  LatestInv'
<1> DEFINE f == Group.family
           j == Hit(f, asked)
<1>1. Finds(f, j)
  BY Finding
<1>2. /\ phase = "prepare" /\ phase' = "prepare"
      /\ reuse'.id = j.id /\ reuse'.family = f
      /\ UNCHANGED <<verdicts, entries, last, durable, review>>
  BY DEF PrepareHit, Preparing, grouper, config
<1>3. f \in DOMAIN verdicts /\ j.id = verdicts[f].id
  BY HitVerdict DEF PrepareHit, Found
<1> HIDE DEF f, j
<1>4. f = groups[index].family /\ f \notin review /\ index \in DOMAIN groups
  BY <1>1 DEF Finds, CacheInv, GroupInv
<1>5. /\ DOMAIN groups' = DOMAIN groups /\ groups'[index].verdict = j
      /\ \A i \in DOMAIN groups : /\ groups'[i].pending = groups[i].pending
                                  /\ groups'[i].family = groups[i].family
                                  /\ groups'[i].gen = groups[i].gen
      /\ \A i \in DOMAIN groups \ {index} : groups'[i] = groups[i]
      /\ ~groups[index].pending
  BY <1>1 DEF Finds, Answers, Alike, Untouched
<1>6. \A i \in DOMAIN groups : Current(groups[i])' <=> Current(groups[i])
  BY <1>2, <1>5 DEF Current
<1>7. \A i \in DOMAIN groups' : Reusable(groups'[i].verdict) /\ Current(groups[i])' =>
        groups'[i].verdict.id = last'[groups'[i].family]
  <2> TAKE i \in DOMAIN groups'
  <2>1. CASE i = index
    BY <1>2, <1>3, <1>4, <1>5, <2>1 DEF LatestInv
  <2>2. CASE i # index
    BY <1>2, <1>5, <1>6, <2>2 DEF LatestInv
  <2> QED BY <2>1, <2>2
<1>8. \A i \in DOMAIN groups' : groups'[i].pending => groups'[i].family \notin DOMAIN verdicts'
  BY <1>2, <1>5 DEF LatestInv
<1>9. \A i, k \in DOMAIN groups' :
        Reusable(groups'[i].verdict) /\ groups'[k].pending =>
          groups'[i].family # groups'[k].family
  <2> TAKE i, k \in DOMAIN groups'
  <2>1. CASE i = index
    BY <1>2, <1>3, <1>4, <1>5, <1>8, <2>1
  <2>2. CASE i # index
    BY <1>2, <1>5, <2>2 DEF LatestInv
  <2> QED BY <2>1, <2>2
<1>10. ReuseIsLatest'
  BY <1>2, <1>3, <1>4 DEF ReuseIsLatest, LatestInv
<1> QED BY <1>2, <1>7, <1>8, <1>9, <1>10 DEF LatestInv

\* The families that are sent have neither a row nor a verdict in a partition.
LEMMA LatestDispatch ==
  ASSUME CacheInv, LatestInv, Dispatch
  PROVE  LatestInv'
<1>1. /\ Answers
      /\ \A i \in DOMAIN groups \ Pending : groups'[i] = groups[i]
      /\ \A i \in Pending : i \in DOMAIN groups /\ groups'[i].verdict.id = AssessmentOf(i)
  BY Dispatching
<1>2. /\ phase = "prepare" /\ phase' = "answer" /\ reuse' = NoReuse
      /\ UNCHANGED <<verdicts, entries, durable>>
  BY DEF Dispatch, store, grouper, config
<1>3. /\ \A f \in Families : (\A i \in Pending : groups[i].family # f) => last'[f] = last[f]
      /\ \A i \in Pending :
           (\A k \in Pending : groups[k].family = groups[i].family => k <= i)
             => last'[groups[i].family] = AssessmentOf(i)
  BY LastOfFamily
<1>4. /\ DOMAIN groups' = DOMAIN groups
      /\ \A i \in DOMAIN groups : /\ groups'[i].family = groups[i].family
                                  /\ groups'[i].gen = groups[i].gen
                                  /\ groups[i].family \in Families
  BY <1>1, GroupAt DEF Answers, Alike, CacheInv, GroupType
<1>5. \A i \in Pending : i \in DOMAIN groups /\ groups[i].pending
  BY <1>1 DEF Pending
<1>6. ASSUME NEW x \in DOMAIN verdicts
      PROVE  verdicts[x].id = last'[x]
  <2>1. \A i \in Pending : groups[i].family # x
    BY <1>2, <1>5, <1>6 DEF LatestInv
  <2> QED BY <1>3, <1>6, <2>1 DEF LatestInv, CacheInv, StoreType
<1>7. ASSUME NEW x \in DOMAIN entries, Reusable(entries[x].verdict)
      PROVE  entries[x].verdict.id = last'[x]
  <2>1. \A i \in Pending : groups[i].family # x
    BY <1>2, <1>5, <1>7 DEF CacheInv, GroupInv
  <2> QED BY <1>3, <1>7, <2>1 DEF LatestInv, CacheInv, LaneType
<1>8. ASSUME NEW i \in DOMAIN groups, Reusable(groups'[i].verdict), Current(groups[i])'
      PROVE  groups'[i].verdict.id = last'[groups[i].family]
  <2>1. Current(groups[i])
    BY <1>2, <1>4, <1>8 DEF Current
  <2>2. CASE i \in Pending
    <3>1. \A k \in Pending : groups[k].family = groups[i].family => k <= i
      BY <1>5, <2>1, CurrentIsLast
    <3> QED BY <1>1, <1>3, <2>2, <3>1
  <2>3. CASE i \notin Pending
    <3>1. groups'[i] = groups[i] /\ Reusable(groups[i].verdict)
      BY <1>1, <1>8, <2>3
    <3>2. \A k \in Pending : groups[k].family # groups[i].family
      BY <1>2, <1>5, <3>1 DEF LatestInv
    <3> QED BY <1>3, <1>4, <2>1, <3>1, <3>2 DEF LatestInv
  <2> QED BY <2>2, <2>3
<1>9. ReuseIsLatest'
  BY <1>2 DEF ReuseIsLatest, NoReuse
<1> QED BY <1>2, <1>4, <1>6, <1>7, <1>8, <1>9 DEF LatestInv

LEMMA LatestKeep ==
  ASSUME CacheInv, LatestInv, Keep
  PROVE  LatestInv'
<1>1. /\ phase = "keep" /\ index \in DOMAIN groups /\ phase' \in {"keep", "publish"}
      /\ UNCHANGED <<groups, store>> \/ \E j : Keeps(j)
      /\ UNCHANGED <<entries, last, durable, review>> /\ reuse' = NoReuse
  BY Keeping DEF Keep, grouper, history, config
<1>2. ReuseIsLatest'
  BY <1>1 DEF ReuseIsLatest, NoReuse
<1>3. CASE UNCHANGED <<groups, store>>
  BY <1>1, <1>2, <1>3, LatestFrame DEF store, Current
<1>4. ASSUME NEW j, Keeps(j)
      PROVE  LatestInv'
  <2> DEFINE f == groups[index].family
  <2>1. /\ Answers /\ Current(groups[index])
        /\ Reusable(groups[index].verdict) /\ groups'[index].verdict = j
        /\ j.id = groups[index].verdict.id
        /\ \A i \in DOMAIN groups \ {index} : groups'[i] = groups[i]
        /\ UNCHANGED store \/ Deleted(f) \/ Stored(f, j)
    BY <1>1, <1>4 DEF Keeps, CacheInv, GroupInv
  <2>2. DOMAIN groups' = DOMAIN groups /\ \A i \in DOMAIN groups :
          /\ groups'[i].verdict.id = groups[i].verdict.id
          /\ groups'[i].family = groups[i].family
          /\ Current(groups[i])' <=> Current(groups[i])
    BY <1>1, <2>1 DEF Answers, Alike, Current
  <2>3. CASE UNCHANGED store
    BY <1>1, <1>2, <2>2, <2>3, LatestFrame DEF store, Reusable
  <2>4. CASE Deleted(f)
    <3>1. \A x \in DOMAIN verdicts' : x \in DOMAIN verdicts /\ verdicts'[x] = verdicts[x]
      BY <2>4, DeletedRows
    <3> QED BY <1>1, <1>2, <2>2, <3>1, LatestFrame DEF Reusable
  <2>5. CASE Stored(f, j)
    <3>1. \A x \in DOMAIN verdicts' : verdicts'[x].id = last'[x]
      BY <1>1, <2>1, <2>5 DEF Stored, LatestInv
    <3>2. durable'
      BY <1>1, <1>4 DEF Keeps, CacheInv, GroupInv
    <3> QED BY <1>1, <1>2, <2>2, <3>1, <3>2 DEF LatestInv, Reusable
  <2> QED BY <2>1, <2>3, <2>4, <2>5
<1> QED BY <1>1, <1>3, <1>4

LEMMA LatestPublish ==
  ASSUME CacheInv, LatestInv, NEW routine \in BOOLEAN, Publish(routine)
  PROVE  LatestInv'
<1>1. /\ index \in DOMAIN groups /\ DOMAIN entries' = DOMAIN entries
      /\ \A x \in DOMAIN entries :
           /\ entries'[x].gen = entries[x].gen
           /\ entries'[x].verdict \in {entries[x].verdict, Unknown} \/ Publishes(x)
      /\ BoundsOf(groups[index]).id = groups[index].verdict.id
      /\ \/ phase' = "publish" /\ groups' = groups
         \/ phase' = "idle" /\ groups' = <<>>
  BY Publishing
<1>2. UNCHANGED <<verdicts, last, durable>> /\ reuse' = NoReuse
  BY DEF Publish, store, history, config
<1>3. \A x \in DOMAIN entries' :
        Reusable(entries'[x].verdict) => entries'[x].verdict.id = last'[x]
  BY <1>1, <1>2 DEF LatestInv, Publishes, Reusable, Unknown
<1>4. \A i \in DOMAIN groups' : Reusable(groups'[i].verdict) /\ Current(groups[i])' =>
        groups'[i].verdict.id = last'[groups'[i].family]
  <2>1. CASE groups' = <<>>
    BY <2>1
  <2>2. CASE groups' = groups
    BY <1>1, <1>2, <2>2 DEF LatestInv, Current
  <2> QED BY <1>1, <2>1, <2>2
<1>5. ReuseIsLatest'
  BY <1>2 DEF ReuseIsLatest, NoReuse
<1> QED BY <1>1, <1>2, <1>3, <1>4, <1>5 DEF LatestInv

LEMMA LatestStep == ASSUME ~LeavesRow, CacheInv, LatestInv, Next PROVE LatestInv'
<1>1. CASE CloseBatch
  <2>1. /\ phase = "group" /\ UNCHANGED <<entries, verdicts, last, durable>> /\ reuse' = NoReuse
    BY <1>1 DEF CloseBatch, store, grouper, history, config
  <2>2. ReuseIsLatest'
    BY <2>1 DEF ReuseIsLatest, NoReuse
  <2>3. \A i \in DOMAIN groups' : ~Reusable(groups'[i].verdict) /\ ~groups'[i].pending
    BY <1>1, <2>1, Closing DEF CacheInv, GroupInv, Untouched, Reusable, Unknown
  <2> QED BY <2>1, <2>2, <2>3, LatestFrame
<1>2. CASE Refuses
  <2>1. /\ UNCHANGED <<entries, verdicts, last, durable>> /\ reuse' = NoReuse /\ Answers
        /\ phase' # "prepare"
        /\ \A i \in DOMAIN groups :
             groups'[i].verdict = groups[i].verdict \/ groups'[i].verdict = Unknown
    BY <1>2 DEF Refuses, store, grouper, history, config
  <2>2. ReuseIsLatest'
    BY <2>1 DEF ReuseIsLatest, NoReuse
  <2>3. \A i \in DOMAIN groups' : Reusable(groups'[i].verdict) /\ Current(groups[i])' =>
          /\ i \in DOMAIN groups /\ groups'[i].verdict.id = groups[i].verdict.id
          /\ groups'[i].family = groups[i].family /\ Current(groups[i])
    BY <2>1 DEF Answers, Alike, Current, Reusable, Unknown
  <2> QED BY <2>1, <2>2, <2>3, LatestFrame
<1>3. CASE Tick
  <2>1. /\ UNCHANGED <<entries, verdicts, last, durable, groups, phase>> /\ reuse' = NoReuse
        /\ phase # "prepare"
    BY <1>3 DEF Tick, Passing, store, lane, grouper, history, config
  <2> QED BY <2>1, LatestFrame DEF ReuseIsLatest, NoReuse, Current
<1>4. ASSUME NEW w \in 0..MaxWall, SetWall(w)
      PROVE  LatestInv'
  <2>1. /\ UNCHANGED <<entries, verdicts, last, durable, groups, phase>> /\ reuse' = NoReuse
        /\ phase # "prepare"
    BY <1>4 DEF SetWall, Passing, store, lane, grouper, history, config
  <2> QED BY <2>1, LatestFrame DEF ReuseIsLatest, NoReuse, Current
<1>5. CASE Restart
  <2>1. /\ DOMAIN entries' = {} /\ DOMAIN groups' = {} /\ reuse' = NoReuse
        /\ UNCHANGED <<verdicts, last, durable>>
    BY <1>5 DEF Restart, Empty
  <2> QED BY <2>1, LatestFrame DEF ReuseIsLatest, NoReuse
<1> QED BY <1>1, <1>2, <1>3, <1>4, <1>5, LatestObserve, LatestSends, LatestPrepareHit,
           LatestDispatch, LatestKeep, LatestPublish, Steps

LEMMA LatestInit == Init => LatestInv
BY DEF Init, LatestInv, Empty, ReuseIsLatest, NoReuse

\* A stale verdict has one cause.  For any number of families, as long as no lookup
\* leaves a row behind because the registry of lifetimes is full, a verdict is reused
\* only if no later assessment of its family was sent, in this process or an earlier
\* one, and never for a vetoed family (Grouper.Observe, CachedJudge.Judge, Store.Lookup).
THEOREM LatestUnlessLeft == Spec /\ [][~LeavesRow]_vars => []ReuseIsLatest
<1>1. CacheInv /\ LatestInv /\ [Next]_vars /\ [~LeavesRow]_vars => LatestInv'
  <2> SUFFICES ASSUME CacheInv, LatestInv, [Next]_vars, [~LeavesRow]_vars
               PROVE  LatestInv'
    OBVIOUS
  <2>1. CASE Next /\ ~LeavesRow
    BY <2>1, LatestStep
  <2>2. CASE UNCHANGED vars
    BY <2>2 DEF vars, LatestInv, ReuseIsLatest, Current
  <2> QED BY <2>1, <2>2
<1>2. LatestInv => ReuseIsLatest
  BY DEF LatestInv
<1> QED BY <1>1, <1>2, LatestInit, CacheAlways, PTL DEF Spec

-----------------------------------------------------------------------------
(* The clocks.                                                             *)

LEMMA NowIsTrue == ASSUME StoreType PROVE ReadingTrue(Clock) /\ Clock \in Reading
BY ReadingTypes DEF StoreType, ReadingTrue, Clock

LEMMA StaysTrue ==
  ASSUME StoreType, NEW r \in Reading, ReadingTrue(r),
         \/ UNCHANGED clocks
         \/ Tick
         \/ \E w \in 0..MaxWall : SetWall(w)
  PROVE  ReadingTrue(r)'
<1>1. /\ wall \in Nat /\ elapsed \in Nat /\ sets \in Nat
      /\ r.elapsed \in Int /\ r.wall \in Int /\ r.sets \in Nat
  BY DEF StoreType, Reading
<1>2. CASE UNCHANGED clocks
  BY <1>2 DEF ReadingTrue, clocks
<1>3. CASE Tick
  BY <1>1, <1>3 DEF ReadingTrue, Tick
<1>4. ASSUME NEW w \in 0..MaxWall, SetWall(w)
      PROVE  ReadingTrue(r)'
  BY <1>1, <1>4 DEF ReadingTrue, SetWall
<1> QED BY <1>2, <1>3, <1>4

LEMMA ClockFrame ==
  ASSUME ClockInv, UNCHANGED <<clocks, born, now, asked>>,
         phase' # "idle" => phase # "idle",
         phase' \in Judged => phase \in Judged,
         phase' \in {"prepare", "answer"} => phase \in {"prepare", "answer"}
  PROVE  ClockInv'
BY DEF ClockInv, ReadingTrue, clocks, Clock

LEMMA ClockStep == ASSUME CacheInv, ClockInv, Next PROVE ClockInv'
<1>1. /\ StoreType /\ now \in Reading /\ asked \in Reading
      /\ \A n \in DOMAIN born : born[n] \in Reading
  BY DEF CacheInv, StoreType, LaneType
<1>2. /\ now.elapsed \in Int /\ asked.elapsed \in Int /\ elapsed \in Nat /\ wall \in Nat
  BY <1>1 DEF Reading, StoreType
<1>3. ASSUME NEW f \in Families, NEW unsafe \in BOOLEAN, Observe(f, unsafe)
      PROVE  ClockInv'
  <2>1. /\ phase' = "group" /\ UNCHANGED <<clocks, born>>
        /\ now' = IF phase = "idle" THEN Clock ELSE now
    BY <1>3 DEF Observe, history
  <2>2. ReadingTrue(now')
    BY <1>1, <2>1, NowIsTrue DEF ClockInv
  <2> QED BY <2>1, <2>2 DEF ClockInv, ReadingTrue, clocks, Judged
<1>4. CASE CloseBatch
  <2>1. /\ phase = "group" /\ UNCHANGED <<clocks, born>>
        /\ \/ phase' = "idle"
           \/ phase' = "prepare" /\ asked' = Clock /\ now' = now
    BY <1>4 DEF CloseBatch, history
  <2>2. CASE phase' = "idle"
    BY <2>1, <2>2 DEF ClockInv, ReadingTrue, clocks, Judged
  <2>3. CASE phase' = "prepare" /\ asked' = Clock /\ now' = now
    <3>1. ReadingTrue(now) /\ ReadingTrue(Clock)
      BY <1>1, <2>1, NowIsTrue DEF ClockInv
    <3>2. now.elapsed <= Clock.elapsed /\ Clock.wall >= 0 /\ Clock' = Clock
      BY <1>2, <2>1, <3>1 DEF Clock, ReadingTrue, clocks
    <3> QED BY <2>1, <2>3, <3>1, <3>2 DEF ClockInv, ReadingTrue, clocks
  <2> QED BY <2>1, <2>2, <2>3
<1>5. ASSUME NEW keep \in BOOLEAN, Sends(keep)
      PROVE  ClockInv'
  BY <1>5, ClockFrame DEF Sends, history
<1>6. CASE PrepareHit
  BY <1>6, ClockFrame DEF PrepareHit
<1>7. CASE Dispatch
  <2>1. /\ phase = "prepare" /\ phase' = "answer" /\ UNCHANGED <<clocks, now, asked>>
        /\ ReadingTrue(asked)
    BY <1>7 DEF Dispatch, ClockInv, Judged
  <2>2. /\ \A n \in DOMAIN born : born'[n] = born[n]
        /\ \A n \in DOMAIN born' \ DOMAIN born : born'[n] = asked
    BY <1>7, AssessmentsBegin
  <2>3. \A n \in DOMAIN born' : ReadingTrue(born'[n])
    BY <2>1, <2>2 DEF ClockInv
  <2> QED BY <2>1, <2>3 DEF ClockInv, ReadingTrue, clocks, Clock, Judged
<1>8. CASE Refuses
  BY <1>8, ClockFrame DEF Refuses, history, Judged
<1>9. CASE Keep
  <2>1. phase = "keep" /\ phase' \in {"keep", "publish"} /\ UNCHANGED <<clocks, born, now, asked>>
    BY <1>9, Keeping DEF Keep, history
  <2> QED BY <2>1, ClockFrame DEF Judged
<1>10. ASSUME NEW routine \in BOOLEAN, Publish(routine)
       PROVE  ClockInv'
  <2>1. /\ phase = "publish" /\ UNCHANGED <<clocks, born>>
        /\ \/ phase' = "publish" /\ UNCHANGED <<now, asked>>
           \/ phase' = "idle"
    BY <1>10, Publishing DEF Publish, history
  <2>2. CASE phase' = "publish" /\ UNCHANGED <<now, asked>>
    BY <2>1, <2>2, ClockFrame
  <2>3. CASE phase' = "idle"
    BY <2>1, <2>3 DEF ClockInv, ReadingTrue, clocks, Judged
  <2> QED BY <2>1, <2>2, <2>3
<1>11. ASSUME Tick \/ \E w \in 0..MaxWall : SetWall(w)
       PROVE  ClockInv'
  <2>1. /\ phase \notin {"prepare", "answer"} /\ UNCHANGED <<phase, now, asked, born>>
    BY <1>11 DEF Tick, SetWall, Passing, lane, history
  <2>2. \A n \in DOMAIN born : ReadingTrue(born[n])'
    <3>1. \A n \in DOMAIN born : ReadingTrue(born[n])
      BY DEF ClockInv
    <3> SUFFICES ASSUME NEW n \in DOMAIN born
                 PROVE  ReadingTrue(born[n])'
      OBVIOUS
    <3> DEFINE r == born[n]
    <3>2. \A x \in Reading : ReadingTrue(x) => ReadingTrue(x)'
      BY <1>1, <1>11, StaysTrue
    <3> QED BY <1>1, <2>1, <3>1, <3>2 DEF ReadingTrue
  <2>3. \A x \in Reading : ReadingTrue(x) => ReadingTrue(x)'
    BY <1>1, <1>11, StaysTrue
  <2>4. phase # "idle" => ReadingTrue(now)'
    BY <1>1, <2>1, <2>3 DEF ClockInv, ReadingTrue
  <2>5. phase \in Judged => ReadingTrue(asked)'
    BY <1>1, <2>1, <2>3 DEF ClockInv, ReadingTrue
  <2> QED BY <2>1, <2>2, <2>4, <2>5 DEF ClockInv
<1>12. CASE Restart
  BY <1>12 DEF Restart, ClockInv, ReadingTrue, clocks, Judged
<1> QED BY <1>3, <1>4, <1>5, <1>6, <1>7, <1>8, <1>9, <1>10, <1>11, <1>12, Steps

LEMMA ClockInit == Init => ClockInv
BY DEF Init, ClockInv, Empty, Judged

-----------------------------------------------------------------------------
(* A verdict is not reused past its lifetime.                              *)

\* What is known of when a verdict began stays known.
Holds ==
  /\ ttl' = ttl /\ DOMAIN since \subseteq DOMAIN since'
  /\ \A n \in DOMAIN since : since'[n] = since[n] /\ born'[n] = born[n]

LEMMA EndTypes ==
  ASSUME CacheInv
  PROVE  /\ ttl \in Nat \ {0} /\ sets \in Nat /\ Low \in Nat
         /\ asked.elapsed \in Int /\ asked.wall \in Int /\ asked.sets \in Nat
         /\ now.elapsed \in Int /\ now.wall \in Int /\ now.sets \in Nat
         /\ \A n \in DOMAIN since : /\ since[n] \in Int /\ n \in DOMAIN born
                                    /\ born[n].sets \in Nat /\ born[n].elapsed \in Int
                                    /\ born[n].wall \in Int
BY DEF CacheInv, StoreType, LaneType, Reading, Low

LEMMA StillEnds ==
  ASSUME CacheInv, Holds
  PROVE  \A j, low, high : low \in Int /\ high \in Int /\ low <= high /\ EndsInTime(j, low) =>
           /\ j.id \in DOMAIN since' /\ j.deadline <= since'[j.id] + ttl'
           /\ born'[j.id].sets < high \/ j.deadline <= born'[j.id].elapsed + ttl'
<1> TAKE j, low, high
<1> HAVE low \in Int /\ high \in Int /\ low <= high /\ EndsInTime(j, low)
<1>1. /\ j.id \in DOMAIN since /\ j.deadline <= since[j.id] + ttl
      /\ born[j.id].sets < low \/ j.deadline <= born[j.id].elapsed + ttl
  BY DEF EndsInTime
<1>2. born[j.id].sets \in Nat
  BY <1>1, EndTypes
<1>3. born[j.id].sets < low => born[j.id].sets < high
  BY <1>2
<1> QED BY <1>1, <1>3 DEF Holds

LEMMA LifeFrame ==
  ASSUME CacheInv, LifeInv, Holds, ReuseEnds', Low <= Low', sets <= sets',
         sets' \in Nat, Low' \in Nat,
         \A x \in DOMAIN verdicts' : /\ x \in DOMAIN verdicts /\ verdicts'[x] = verdicts[x]
                                     /\ born'[verdicts[x].id] = born[verdicts[x].id]
                                     /\ verdicts'[x].id \in DOMAIN since' =>
                                          x \in DOMAIN lifetimes',
         \A x \in DOMAIN lifetimes' : x \in DOMAIN lifetimes /\ lifetimes'[x] = lifetimes[x],
         \A x \in DOMAIN entries' : Reusable(entries'[x].verdict) =>
           x \in DOMAIN entries /\ entries'[x].verdict = entries[x].verdict,
         \A i \in DOMAIN groups' : Reusable(groups'[i].verdict) =>
           /\ i \in DOMAIN groups /\ groups'[i].verdict = groups[i].verdict
           /\ groups'[i].pending = groups[i].pending /\ asked' = asked
  PROVE  LifeInv'
<1>1. \A x \in DOMAIN verdicts' :
        /\ verdicts'[x].created = born'[verdicts'[x].id].wall /\ verdicts'[x].created >= 0
        /\ verdicts'[x].id \in DOMAIN since' => x \in DOMAIN lifetimes'
  BY DEF LifeInv
<1>2. sets \in Int /\ Low \in Int /\ sets' \in Int /\ Low' \in Int
  BY EndTypes
<1>3. \A x \in DOMAIN lifetimes' :
        /\ EndsInTime(lifetimes[x], sets)'
        /\ x \in DOMAIN verdicts' => lifetimes'[x].id = verdicts'[x].id
  BY <1>2, StillEnds DEF LifeInv, EndsInTime
<1>4. \A x \in DOMAIN entries' : Reusable(entries'[x].verdict) =>
        EndsInTime(entries[x].verdict, Low)'
  <2> TAKE x \in DOMAIN entries'
  <2> HAVE Reusable(entries'[x].verdict)
  <2>1. EndsInTime(entries[x].verdict, Low) /\ entries'[x].verdict = entries[x].verdict
    BY DEF LifeInv, Reusable
  <2> QED BY <1>2, <2>1, StillEnds DEF EndsInTime
<1>5. \A i \in DOMAIN groups' : Reusable(groups'[i].verdict) =>
        /\ groups'[i].verdict.created # NoTime => EndsInTime(groups[i].verdict, sets)'
        /\ ~groups'[i].pending => groups'[i].verdict.created # NoTime
        /\ groups'[i].pending =>
             /\ groups'[i].verdict.id \in DOMAIN since'
             /\ since'[groups'[i].verdict.id] = asked'.elapsed
             /\ born'[groups'[i].verdict.id] = asked'
  <2> TAKE i \in DOMAIN groups'
  <2> HAVE Reusable(groups'[i].verdict)
  <2>1. /\ i \in DOMAIN groups /\ groups'[i].verdict = groups[i].verdict
        /\ Reusable(groups[i].verdict)
        /\ groups'[i].pending = groups[i].pending /\ asked' = asked
    BY DEF Reusable
  <2>2. groups[i].verdict.created # NoTime => EndsInTime(groups[i].verdict, sets)'
    <3> HAVE groups[i].verdict.created # NoTime
    <3>1. EndsInTime(groups[i].verdict, sets)
      BY <2>1 DEF LifeInv
    <3> QED BY <1>2, <2>1, <3>1, StillEnds DEF EndsInTime
  <2> QED BY <2>1, <2>2 DEF LifeInv, Holds
<1> QED BY <1>1, <1>3, <1>4, <1>5 DEF LifeInv

\* A verdict that is valid by its deadline ends in time.
LEMMA EndsBefore ==
  ASSUME CacheInv, NEW j, NEW t \in Reading, EndsInTime(j, t.sets), j.deadline \in Int,
         t.elapsed < j.deadline
  PROVE  /\ t.elapsed - since[j.id] < ttl
         /\ born[j.id].sets = t.sets => t.elapsed - born[j.id].elapsed < ttl
<1>1. /\ j.deadline <= since[j.id] + ttl
      /\ born[j.id].sets < t.sets \/ j.deadline <= born[j.id].elapsed + ttl
      /\ since[j.id] \in Int /\ born[j.id].elapsed \in Int /\ born[j.id].sets \in Nat
  BY EndTypes DEF EndsInTime
<1>2. ttl \in Nat /\ t.elapsed \in Int /\ t.sets \in Nat
  BY EndTypes DEF Reading
<1> QED BY <1>1, <1>2

LEMMA LifeObserve ==
  ASSUME CacheInv, LifeInv, NEW f \in Families, NEW unsafe \in BOOLEAN, Observe(f, unsafe)
  PROVE  LifeInv'
<1> DEFINE p == Partition(f)
           t == EventTime
           reason == Reason(f, p, t)
<1>1. /\ Observes(f, p, reason) /\ phase' = "group" /\ now' = t
      /\ UNCHANGED <<verdicts, lifetimes, born, since, ttl, sets>>
      /\ \/ reason = "cached" /\ reuse'.id = p.verdict.id /\ reuse'.at = t
         \/ reuse' = NoReuse
  BY Observing DEF Observe, EventTime, store, history, config, clocks
<1>2. \/ f \in DOMAIN entries /\ p = entries[f]
      \/ f \notin DOMAIN entries /\ p.verdict = Unknown
  BY PartitionOf
<1>3. reason = "cached" => Reusable(p.verdict) /\ t.elapsed < p.verdict.deadline
  BY DEF Reason, CacheValidAt
<1>4. t \in Reading /\ t.sets = Low
  <2>1. phase \in {"idle", "group"}
    BY DEF Observe
  <2> QED BY <2>1, NowIsTrue DEF EventTime, Low, Clock, CacheInv, LaneType
<1>5. p.verdict.deadline \in Int
  BY PartitionOf DEF PartitionType, Verdict
<1> HIDE DEF p, t, reason
<1>6. Low' = Low
  BY <1>1, <1>4 DEF Low
<1>7. ReuseEnds'
  <2>1. CASE reuse' = NoReuse
    BY <2>1 DEF ReuseEnds, NoReuse
  <2>2. CASE reason = "cached" /\ reuse'.id = p.verdict.id /\ reuse'.at = t
    <3>1. f \in DOMAIN entries /\ p = entries[f] /\ Reusable(entries[f].verdict)
      BY <1>2, <1>3, <2>2 DEF Reusable, Unknown
    <3>2. EndsInTime(p.verdict, t.sets)
      BY <1>4, <3>1 DEF LifeInv
    <3>3. /\ t.elapsed - since[p.verdict.id] < ttl
          /\ born[p.verdict.id].sets = t.sets => t.elapsed - born[p.verdict.id].elapsed < ttl
      BY <1>3, <1>4, <1>5, <2>2, <3>2, EndsBefore
    <3> QED BY <1>1, <2>2, <3>3 DEF ReuseEnds, EndsInProcess, EndsAcrossRestarts
  <2> QED BY <1>1, <2>1, <2>2
<1>8. \A i \in DOMAIN groups' : ~Reusable(groups'[i].verdict)
  BY <1>1, GroupObserve DEF GroupInv, Untouched, Reusable, Unknown
<1>9. \A x \in DOMAIN entries' : Reusable(entries'[x].verdict) =>
        x \in DOMAIN entries /\ entries'[x].verdict = entries[x].verdict
  BY <1>1, <1>2 DEF Observes, Reusable, Unknown
<1>10. \A x \in DOMAIN verdicts : verdicts[x].id \in DOMAIN since => x \in DOMAIN lifetimes
  BY DEF LifeInv
<1>11. Holds /\ sets \in Nat /\ Low \in Nat /\ Low <= Low /\ sets <= sets
  BY <1>1, EndTypes DEF Holds
<1> QED BY <1>1, <1>6, <1>7, <1>8, <1>9, <1>10, <1>11, LifeFrame

\* A verdict of the table is given no more than what is left of it.
LEMMA LifePrepareHit ==
  ASSUME CacheInv, ClockInv, LifeInv, PrepareHit
  PROVE  LifeInv'
<1> DEFINE f == Group.family
           j == Hit(f, asked)
<1>1. Finds(f, j)
  BY Finding
<1>2. /\ phase = "prepare" /\ phase' = "prepare"
      /\ UNCHANGED <<verdicts, entries, born, sets, ttl, asked, now>>
      /\ lifetimes' = With(lifetimes, f, j) /\ since' = Hold(j.id, asked.elapsed)
      /\ reuse'.id = j.id /\ reuse'.at = asked
  BY DEF PrepareHit, Preparing, grouper, config, clocks
<1>3. /\ f \in DOMAIN verdicts /\ j \in Verdict
      /\ j.id = verdicts[f].id /\ j.created = verdicts[f].created
      /\ j.deadline <= asked.elapsed + ((verdicts[f].created + ttl) - asked.wall)
      /\ f \in DOMAIN lifetimes => j.deadline <= lifetimes[f].deadline
      /\ asked.elapsed < j.deadline /\ verdicts[f].created <= asked.wall
  BY HitVerdict DEF PrepareHit, Found
<1> HIDE DEF f, j
<1>4. /\ verdicts[f].created = born[j.id].wall /\ verdicts[f].created >= 0
      /\ j.id \in DOMAIN since => /\ f \in DOMAIN lifetimes /\ lifetimes[f].id = j.id
                                  /\ lifetimes[f].deadline <= since[j.id] + ttl
      /\ f \in DOMAIN lifetimes => lifetimes[f].id \in DOMAIN since /\ lifetimes[f].id = j.id
  BY <1>3 DEF LifeInv, EndsInTime
<1>5. /\ j.id \in DOMAIN born /\ born[j.id] \in Reading /\ verdicts[f] \in Row
      /\ \A x \in DOMAIN lifetimes : lifetimes[x] \in Verdict
  BY <1>3 DEF CacheInv, IdsInv, StoreType
<1>6. /\ verdicts[f].created \in Int /\ j.deadline \in Int /\ ttl \in Nat
      /\ born[j.id].wall \in Int /\ born[j.id].elapsed \in Int /\ born[j.id].sets \in Nat
      /\ asked.elapsed \in Int /\ asked.wall \in Int /\ asked.sets \in Nat /\ sets \in Nat
      /\ f \in DOMAIN lifetimes => lifetimes[f].deadline \in Int
      /\ j.id \in DOMAIN since => since[j.id] \in Int
  BY <1>3, <1>5, EndTypes DEF Row, Reading, Verdict
<1>7. /\ j.id \in DOMAIN since' /\ Holds
      /\ since'[j.id] = IF j.id \in DOMAIN since THEN since[j.id] ELSE asked.elapsed
      /\ DOMAIN since' = DOMAIN since \cup {j.id}
  BY <1>2 DEF Hold, With, Holds
<1>8. j.deadline <= since'[j.id] + ttl
  <2>1. CASE j.id \in DOMAIN since
    BY <1>3, <1>4, <1>6, <1>7, <2>1
  <2>2. CASE j.id \notin DOMAIN since
    BY <1>3, <1>6, <1>7, <2>2
  <2> QED BY <2>1, <2>2
<1>9. born[j.id].sets < sets \/ j.deadline <= born[j.id].elapsed + ttl
  <2>1. /\ asked.wall = wall /\ asked.elapsed = elapsed /\ wall \in Int /\ elapsed \in Int
        /\ born[j.id].sets <= sets
        /\ born[j.id].sets = sets => born[j.id].wall - born[j.id].elapsed = wall - elapsed
    BY <1>2, <1>5 DEF ClockInv, Clock, ReadingTrue, CacheInv, StoreType
  <2> QED BY <1>3, <1>4, <1>6, <2>1
<1>10. /\ j.id \in DOMAIN since' /\ j.deadline <= since'[j.id] + ttl'
       /\ born'[j.id].sets < sets' \/ j.deadline <= born'[j.id].elapsed + ttl'
  BY <1>2, <1>7, <1>8, <1>9
<1>11. asked.sets = sets
  BY <1>2 DEF ClockInv, Clock
<1>12. ReuseEnds'
  <2>1. asked.elapsed - since'[j.id] < ttl
    BY <1>3, <1>6, <1>7, <1>8
  <2>2. born[j.id].sets = asked.sets => asked.elapsed - born[j.id].elapsed < ttl
    BY <1>3, <1>6, <1>9, <1>11
  <2> QED BY <1>2, <2>1, <2>2 DEF ReuseEnds, EndsInProcess, EndsAcrossRestarts
<1>13. /\ DOMAIN lifetimes' = DOMAIN lifetimes \cup {f} /\ lifetimes'[f] = j
       /\ \A x \in DOMAIN lifetimes : x # f => lifetimes'[x] = lifetimes[x]
  BY <1>2 DEF With
<1>14. \A x \in DOMAIN verdicts' :
         /\ verdicts'[x].created = born'[verdicts'[x].id].wall /\ verdicts'[x].created >= 0
         /\ verdicts'[x].id \in DOMAIN since' => x \in DOMAIN lifetimes'
  <2>1. \A x \in DOMAIN verdicts : verdicts[x].id = j.id => x = f
    BY <1>3 DEF CacheInv, IdsInv
  <2> QED BY <1>2, <1>7, <1>13, <2>1 DEF LifeInv
<1>15. ASSUME NEW x \in DOMAIN lifetimes'
       PROVE  /\ EndsInTime(lifetimes[x], sets)'
              /\ x \in DOMAIN verdicts' => lifetimes'[x].id = verdicts'[x].id
  <2>1. CASE x = f
    BY <1>2, <1>3, <1>10, <1>13, <2>1 DEF EndsInTime
  <2>2. CASE x # f
    <3>1. x \in DOMAIN lifetimes /\ lifetimes'[x] = lifetimes[x] /\ EndsInTime(lifetimes[x], sets)
      BY <1>13, <1>15, <2>2 DEF LifeInv
    <3>2. sets \in Int /\ sets <= sets
      BY <1>6
    <3>3. EndsInTime(lifetimes[x], sets)'
      BY <1>2, <1>7, <3>1, <3>2, StillEnds DEF EndsInTime
    <3> QED BY <1>2, <3>1, <3>3 DEF LifeInv
  <2> QED BY <2>1, <2>2
<1>16. ASSUME NEW x \in DOMAIN entries', Reusable(entries'[x].verdict)
       PROVE  EndsInTime(entries[x].verdict, Low)'
  <2>1. EndsInTime(entries[x].verdict, Low) /\ Low' = Low /\ Low \in Int /\ Low <= Low
    BY <1>2, <1>16, EndTypes DEF LifeInv, Low
  <2> QED BY <1>2, <1>7, <2>1, StillEnds DEF EndsInTime
<1>17. ASSUME NEW i \in DOMAIN groups', Reusable(groups'[i].verdict)
       PROVE  /\ groups'[i].verdict.created # NoTime /\ EndsInTime(groups[i].verdict, sets)'
              /\ ~groups'[i].pending
  <2>1. /\ DOMAIN groups' = DOMAIN groups /\ groups'[index].verdict = j
        /\ groups'[i].pending = groups[i].pending
        /\ i # index => groups'[i] = groups[i]
        /\ ~groups[index].pending
    BY <1>1, <1>17 DEF Finds, Answers, Alike, Untouched
  <2>2. CASE i = index
    <3>1. j.created # NoTime
      BY <1>3, <1>4, <1>6 DEF NoTime
    <3> QED BY <1>10, <2>1, <2>2, <3>1 DEF EndsInTime
  <2>3. CASE i # index
    <3>1. groups'[i] = groups[i] /\ ~groups[i].pending
      BY <1>2, <1>17, <2>1, <2>3 DEF CacheInv, GroupInv
    <3>2. groups[i].verdict.created # NoTime /\ EndsInTime(groups[i].verdict, sets)
      BY <1>17, <2>1, <3>1 DEF LifeInv
    <3>3. sets \in Int /\ sets <= sets
      BY <1>6
    <3> QED BY <1>2, <1>7, <3>1, <3>2, <3>3, StillEnds DEF EndsInTime
  <2> QED BY <2>2, <2>3
<1> QED BY <1>12, <1>14, <1>15, <1>16, <1>17 DEF LifeInv

LEMMA LifeDispatch ==
  ASSUME CacheInv, LifeInv, Dispatch
  PROVE  LifeInv'
<1>1. /\ Answers
      /\ \A i \in DOMAIN groups \ Pending : groups'[i] = groups[i]
      /\ \A i \in Pending : /\ i \in DOMAIN groups
                            /\ groups'[i].verdict.id = AssessmentOf(i)
                            /\ groups'[i].verdict.created = NoTime
  BY Dispatching
<1>2. /\ phase = "prepare" /\ phase' = "answer" /\ reuse' = NoReuse
      /\ UNCHANGED <<verdicts, lifetimes, entries, ttl, asked, sets>>
  BY DEF Dispatch, store, grouper, config, clocks
<1>3. /\ DOMAIN since \subseteq DOMAIN since'
      /\ \A n \in DOMAIN born : born'[n] = born[n]
      /\ \A n \in DOMAIN born : n \in DOMAIN since' => n \in DOMAIN since
      /\ \A n \in DOMAIN since : since'[n] = since[n]
      /\ \A i \in Pending : /\ AssessmentOf(i) \in DOMAIN since'
                            /\ since'[AssessmentOf(i)] = asked.elapsed
                            /\ born'[AssessmentOf(i)] = asked
  BY AssessmentsBegin
<1>4. Holds /\ Low' = Low /\ sets \in Int /\ Low \in Int /\ sets <= sets /\ Low <= Low
  BY <1>2, <1>3, EndTypes DEF Holds, Low
<1>5. \A x \in DOMAIN verdicts' :
        /\ verdicts'[x].created = born'[verdicts'[x].id].wall /\ verdicts'[x].created >= 0
        /\ verdicts'[x].id \in DOMAIN since' => x \in DOMAIN lifetimes'
  BY <1>2, <1>3 DEF LifeInv, CacheInv, IdsInv
<1>6. \A x \in DOMAIN lifetimes' :
        /\ EndsInTime(lifetimes[x], sets)'
        /\ x \in DOMAIN verdicts' => lifetimes'[x].id = verdicts'[x].id
  BY <1>2, <1>4, StillEnds DEF LifeInv, EndsInTime
<1>7. \A x \in DOMAIN entries' : Reusable(entries'[x].verdict) =>
        EndsInTime(entries[x].verdict, Low)'
  BY <1>2, <1>4, StillEnds DEF LifeInv, EndsInTime
<1>8. ASSUME NEW i \in DOMAIN groups', Reusable(groups'[i].verdict)
      PROVE  /\ groups'[i].verdict.created # NoTime => EndsInTime(groups[i].verdict, sets)'
             /\ ~groups'[i].pending => groups'[i].verdict.created # NoTime
             /\ groups'[i].pending =>
                  /\ groups'[i].verdict.id \in DOMAIN since'
                  /\ since'[groups'[i].verdict.id] = asked'.elapsed
                  /\ born'[groups'[i].verdict.id] = asked'
  <2>1. i \in DOMAIN groups /\ groups'[i].pending = groups[i].pending
    BY <1>1, <1>8 DEF Answers, Alike
  <2>2. CASE i \in Pending
    <3>1. groups[i].pending
      BY <2>2 DEF Pending
    <3> QED BY <1>1, <1>2, <1>3, <2>1, <2>2, <3>1
  <2>3. CASE i \notin Pending
    <3>1. ~groups[i].pending
      BY <2>1, <2>3, GroupsDomain DEF Pending, CacheInv
    <3>2. groups'[i] = groups[i]
      BY <1>1, <2>1, <2>3
    <3>3. groups[i].verdict.created # NoTime /\ EndsInTime(groups[i].verdict, sets)
      BY <1>8, <2>1, <3>1, <3>2 DEF LifeInv, Reusable
    <3>4. EndsInTime(groups[i].verdict, sets)'
      BY <1>2, <1>4, <3>2, <3>3, StillEnds DEF EndsInTime
    <3> QED BY <2>1, <3>1, <3>2, <3>3, <3>4
  <2> QED BY <2>2, <2>3
<1>9. ReuseEnds'
  BY <1>2 DEF ReuseEnds, NoReuse
<1> QED BY <1>5, <1>6, <1>7, <1>8, <1>9 DEF LifeInv

LEMMA LifeKeep ==
  ASSUME CacheInv, ClockInv, LifeInv, Keep
  PROVE  LifeInv'
<1>1. /\ phase = "keep" /\ index \in DOMAIN groups /\ phase' # "group"
      /\ UNCHANGED <<groups, store>> \/ \E j : Keeps(j)
      /\ UNCHANGED <<entries, born, since, ttl, sets, asked, now>> /\ reuse' = NoReuse
  BY Keeping DEF Keep, grouper, history, config, clocks
<1>2. /\ Holds /\ Low = sets /\ Low' = sets /\ sets' = sets /\ sets \in Nat
      /\ sets \in Int /\ sets <= sets
  BY <1>1, EndTypes DEF Holds, Low
<1>3. ReuseEnds'
  BY <1>1 DEF ReuseEnds, NoReuse
<1>4. CASE UNCHANGED <<groups, store>>
  <2>1. \A x \in DOMAIN verdicts : verdicts[x].id \in DOMAIN since => x \in DOMAIN lifetimes
    BY DEF LifeInv
  <2> QED BY <1>1, <1>2, <1>3, <1>4, <2>1, LifeFrame DEF store
<1>5. ASSUME NEW j, Keeps(j)
      PROVE  LifeInv'
  <2> DEFINE f == groups[index].family
  <2>1. /\ Answers /\ groups'[index].verdict = j /\ groups[index].pending
        /\ Reusable(groups[index].verdict)
        /\ j.id = groups[index].verdict.id
        /\ j.created = asked.wall /\ j.deadline = asked.elapsed + ttl
        /\ \A i \in DOMAIN groups \ {index} : groups'[i] = groups[i]
        /\ UNCHANGED store \/ Deleted(f) \/ Stored(f, j)
    BY <1>1, <1>5 DEF Keeps, CacheInv, GroupInv
  <2>2. /\ j.id \in DOMAIN since /\ since[j.id] = asked.elapsed /\ born[j.id] = asked
        /\ asked.wall >= 0 /\ j.created # NoTime
    <3>1. asked.wall >= 0 /\ asked.wall \in Int
      BY <1>1, EndTypes DEF ClockInv, Judged
    <3> QED BY <1>1, <2>1, <3>1 DEF LifeInv, NoTime
  <2>3. EndsInTime(j, sets)
    BY <2>1, <2>2, EndTypes DEF EndsInTime
  <2>4. /\ j.id \in DOMAIN since' /\ j.deadline <= since'[j.id] + ttl'
        /\ born'[j.id].sets < sets' \/ j.deadline <= born'[j.id].elapsed + ttl'
    BY <1>1, <2>3 DEF EndsInTime
  <2>5. ASSUME NEW i \in DOMAIN groups', Reusable(groups'[i].verdict)
        PROVE  /\ groups'[i].verdict.created # NoTime => EndsInTime(groups[i].verdict, sets)'
               /\ ~groups'[i].pending => groups'[i].verdict.created # NoTime
               /\ groups'[i].pending =>
                    /\ groups'[i].verdict.id \in DOMAIN since'
                    /\ since'[groups'[i].verdict.id] = asked'.elapsed
                    /\ born'[groups'[i].verdict.id] = asked'
    <3>1. i \in DOMAIN groups /\ groups'[i].pending = groups[i].pending
      BY <2>1, <2>5 DEF Answers, Alike
    <3>2. CASE i = index
      BY <1>1, <2>1, <2>2, <2>4, <3>2 DEF EndsInTime
    <3>3. CASE i # index
      BY <1>1, <2>1, <2>5, <3>1, <3>3 DEF LifeInv, EndsInTime
    <3> QED BY <3>2, <3>3
  <2>6. \A x \in DOMAIN entries' : Reusable(entries'[x].verdict) =>
          EndsInTime(entries[x].verdict, Low)'
    BY <1>1, <1>2 DEF LifeInv, EndsInTime
  <2>7. ASSUME \A x \in DOMAIN verdicts' : x \in DOMAIN verdicts /\ verdicts'[x] = verdicts[x]
                                           /\ (x \in DOMAIN lifetimes => x \in DOMAIN lifetimes'),
               \A x \in DOMAIN lifetimes' : x \in DOMAIN lifetimes /\ lifetimes'[x] = lifetimes[x]
        PROVE  LifeInv'
    <3>1. \A x \in DOMAIN verdicts' :
            /\ verdicts'[x].created = born'[verdicts'[x].id].wall /\ verdicts'[x].created >= 0
            /\ verdicts'[x].id \in DOMAIN since' => x \in DOMAIN lifetimes'
      BY <1>1, <2>7 DEF LifeInv
    <3>2. \A x \in DOMAIN lifetimes' :
            /\ EndsInTime(lifetimes[x], sets)'
            /\ x \in DOMAIN verdicts' => lifetimes'[x].id = verdicts'[x].id
      BY <1>1, <2>7 DEF LifeInv, EndsInTime
    <3> QED BY <1>3, <2>5, <2>6, <3>1, <3>2 DEF LifeInv
  <2>8. CASE UNCHANGED store
    BY <2>7, <2>8 DEF store
  <2>9. CASE Deleted(f)
    <3>1. /\ DOMAIN verdicts' = DOMAIN verdicts \ {f}
          /\ DOMAIN lifetimes' = DOMAIN lifetimes \ {f}
          /\ \A x \in DOMAIN verdicts' : verdicts'[x] = verdicts[x]
          /\ \A x \in DOMAIN lifetimes' : lifetimes'[x] = lifetimes[x]
      BY <2>9, DeletedRows
    <3> QED BY <2>7, <3>1
  <2>10. CASE Stored(f, j)
    <3>1. /\ f \in DOMAIN verdicts' /\ verdicts'[f].id = j.id /\ verdicts'[f].created = j.created
          /\ \A x \in DOMAIN verdicts' : x # f => x \in DOMAIN verdicts /\ verdicts'[x] = verdicts[x]
          /\ DOMAIN lifetimes' = DOMAIN lifetimes \cup {f} /\ lifetimes'[f] = j
          /\ \A x \in DOMAIN lifetimes' : x # f => lifetimes'[x] = lifetimes[x]
      BY <2>10 DEF Stored
    <3> HIDE DEF f
    <3>2. \A x \in DOMAIN verdicts' :
            /\ verdicts'[x].created = born'[verdicts'[x].id].wall /\ verdicts'[x].created >= 0
            /\ verdicts'[x].id \in DOMAIN since' => x \in DOMAIN lifetimes'
      BY <1>1, <2>1, <2>2, <3>1 DEF LifeInv
    <3>3. \A x \in DOMAIN lifetimes' :
            /\ EndsInTime(lifetimes[x], sets)'
            /\ x \in DOMAIN verdicts' => lifetimes'[x].id = verdicts'[x].id
      BY <1>1, <2>4, <3>1 DEF LifeInv, EndsInTime
    <3> QED BY <1>3, <2>5, <2>6, <3>2, <3>3 DEF LifeInv
  <2> QED BY <2>1, <2>8, <2>9, <2>10
<1> QED BY <1>1, <1>4, <1>5

\* An answer without bounds gets those of the batch, which are no later.
LEMMA LifePublish ==
  ASSUME CacheInv, ClockInv, LifeInv, NEW routine \in BOOLEAN, Publish(routine)
  PROVE  LifeInv'
<1>1. /\ phase = "publish" /\ index \in DOMAIN groups /\ DOMAIN entries' = DOMAIN entries
      /\ \A x \in DOMAIN entries :
           entries'[x].verdict \in {entries[x].verdict, Unknown} \/ Publishes(x)
      /\ \/ phase' = "publish" /\ UNCHANGED <<groups, now, asked>>
         \/ phase' = "idle" /\ groups' = <<>>
  BY Publishing
<1>2. UNCHANGED <<verdicts, lifetimes, born, since, ttl, sets>> /\ reuse' = NoReuse
  BY DEF Publish, store, history, config, clocks
<1>3. Low = sets /\ Low' = sets
  BY <1>1, <1>2 DEF Low
<1>4. ReuseEnds'
  BY <1>2 DEF ReuseEnds, NoReuse
<1>5. ASSUME NEW x \in DOMAIN entries', Reusable(entries'[x].verdict)
      PROVE  EndsInTime(entries[x].verdict, Low)'
  <2>1. CASE entries'[x].verdict \in {entries[x].verdict, Unknown}
    <3>1. entries'[x].verdict = entries[x].verdict /\ Reusable(entries[x].verdict)
      BY <1>5, <2>1 DEF Reusable, Unknown
    <3>2. EndsInTime(entries[x].verdict, sets)
      BY <1>1, <1>3, <3>1 DEF LifeInv
    <3> QED BY <1>2, <1>3, <3>1, <3>2 DEF EndsInTime
  <2>2. CASE Publishes(x)
    <3> DEFINE v == groups[index].verdict
    <3>1. Reusable(v) /\ entries'[x].verdict = BoundsOf(groups[index])
      BY <2>2 DEF Publishes
    <3>2. CASE v.created # NoTime
      <4>1. entries'[x].verdict = v /\ EndsInTime(v, sets)
        BY <1>1, <3>1, <3>2 DEF BoundsOf, LifeInv
      <4> QED BY <1>2, <1>3, <4>1 DEF EndsInTime
    <3>3. CASE v.created = NoTime
      <4>1. /\ v.id \in DOMAIN since /\ since[v.id] = asked.elapsed /\ born[v.id] = asked
        BY <1>1, <3>1, <3>3 DEF LifeInv
      <4>2. now.elapsed <= asked.elapsed
        BY <1>1 DEF ClockInv, Judged
      <4>3. /\ entries'[x].verdict.id = v.id
            /\ entries'[x].verdict.deadline = now.elapsed + ttl
        BY <3>1, <3>3 DEF BoundsOf, Bounded
      <4>4. now.elapsed + ttl <= asked.elapsed + ttl
        BY <4>2, EndTypes
      <4> QED BY <1>2, <1>3, <4>1, <4>3, <4>4 DEF EndsInTime
    <3> QED BY <3>2, <3>3
  <2> QED BY <1>1, <1>5, <2>1, <2>2
<1>6. \A i \in DOMAIN groups' : Reusable(groups'[i].verdict) =>
        /\ groups'[i].verdict.created # NoTime => EndsInTime(groups[i].verdict, sets)'
        /\ ~groups'[i].pending => groups'[i].verdict.created # NoTime
        /\ groups'[i].pending =>
             /\ groups'[i].verdict.id \in DOMAIN since'
             /\ since'[groups'[i].verdict.id] = asked'.elapsed
             /\ born'[groups'[i].verdict.id] = asked'
  <2>1. CASE groups' = <<>>
    BY <2>1
  <2>2. CASE UNCHANGED <<groups, now, asked>>
    BY <1>2, <2>2 DEF LifeInv, EndsInTime
  <2> QED BY <1>1, <2>1, <2>2
<1>7. /\ \A x \in DOMAIN verdicts' :
           /\ verdicts'[x].created = born'[verdicts'[x].id].wall /\ verdicts'[x].created >= 0
           /\ verdicts'[x].id \in DOMAIN since' => x \in DOMAIN lifetimes'
      /\ \A x \in DOMAIN lifetimes' :
           /\ EndsInTime(lifetimes[x], sets)'
           /\ x \in DOMAIN verdicts' => lifetimes'[x].id = verdicts'[x].id
  BY <1>2 DEF LifeInv, EndsInTime
<1> QED BY <1>4, <1>5, <1>6, <1>7 DEF LifeInv

LEMMA LifeStep == ASSUME CacheInv, ClockInv, LifeInv, Next PROVE LifeInv'
<1>1. /\ sets \in Nat /\ Low \in Nat /\ now.sets \in Nat
      /\ \A x \in DOMAIN verdicts : verdicts[x].id \in DOMAIN since => x \in DOMAIN lifetimes
  BY EndTypes DEF LifeInv
<1>2. reuse' = NoReuse => ReuseEnds'
  BY DEF ReuseEnds, NoReuse
<1>3. CASE CloseBatch
  <2>1. /\ phase = "group" /\ phase' # "group" /\ reuse' = NoReuse
        /\ UNCHANGED <<entries, verdicts, lifetimes, born, since, ttl, sets>>
    BY <1>3 DEF CloseBatch, store, grouper, history, config, clocks
  <2>2. Low <= Low' /\ Low' = sets
    BY <2>1 DEF ClockInv, ReadingTrue, Low
  <2>3. \A i \in DOMAIN groups' : ~Reusable(groups'[i].verdict)
    BY <1>3, <2>1, Closing DEF CacheInv, GroupInv, Untouched, Reusable, Unknown
  <2>4. Holds /\ sets <= sets
    BY <1>1, <2>1 DEF Holds
  <2> QED BY <1>1, <1>2, <2>1, <2>2, <2>3, <2>4, LifeFrame
<1>4. ASSUME NEW keep \in BOOLEAN, Sends(keep)
      PROVE  LifeInv'
  <2>1. /\ phase = "prepare" /\ phase' = phase /\ reuse' = NoReuse
        /\ UNCHANGED <<entries, born, since, ttl, sets, asked, now>>
    BY <1>4 DEF Sends, grouper, history, config, clocks
  <2>2. Holds /\ sets <= sets /\ Low' = Low /\ Low <= Low
    BY <1>1, <2>1 DEF Holds, Low
  <2>3. \A i \in DOMAIN groups' : Reusable(groups'[i].verdict) =>
          i \in DOMAIN groups /\ groups'[i] = groups[i]
    BY <1>4, SentReusable
  <2>4. /\ \A x \in DOMAIN verdicts' : /\ x \in DOMAIN verdicts /\ verdicts'[x] = verdicts[x]
                                       /\ x \in DOMAIN lifetimes => x \in DOMAIN lifetimes'
        /\ \A x \in DOMAIN lifetimes' : x \in DOMAIN lifetimes /\ lifetimes'[x] = lifetimes[x]
    <3>1. CASE UNCHANGED store
      BY <3>1 DEF store
    <3>2. CASE Deleted(Group.family)
      <4>1. /\ DOMAIN verdicts' = DOMAIN verdicts \ {Group.family}
            /\ DOMAIN lifetimes' = DOMAIN lifetimes \ {Group.family}
            /\ \A x \in DOMAIN verdicts' : verdicts'[x] = verdicts[x]
            /\ \A x \in DOMAIN lifetimes' : lifetimes'[x] = lifetimes[x]
        BY <3>2, DeletedRows
      <4> QED BY <4>1
    <3> QED BY <1>4, <3>1, <3>2 DEF Sends
  <2> QED BY <1>1, <1>2, <2>1, <2>2, <2>3, <2>4, LifeFrame
<1>5. CASE Refuses
  <2>1. /\ UNCHANGED <<entries, verdicts, lifetimes, born, since, ttl, sets, asked, now>>
        /\ reuse' = NoReuse /\ Answers /\ phase # "group" /\ phase' # "group"
        /\ \A i \in DOMAIN groups :
             groups'[i].verdict = groups[i].verdict \/ groups'[i].verdict = Unknown
    BY <1>5 DEF Refuses, store, grouper, history, config, clocks
  <2>2. Holds /\ sets <= sets /\ Low' = Low /\ Low <= Low
    BY <1>1, <2>1 DEF Holds, Low
  <2>3. \A i \in DOMAIN groups' : Reusable(groups'[i].verdict) =>
          /\ i \in DOMAIN groups /\ groups'[i].verdict = groups[i].verdict
          /\ groups'[i].pending = groups[i].pending
    BY <2>1 DEF Answers, Alike, Reusable, Unknown
  <2> QED BY <1>1, <1>2, <2>1, <2>2, <2>3, LifeFrame
<1>6. CASE Tick
  <2>1. UNCHANGED <<entries, verdicts, lifetimes, born, since, ttl, sets, asked, now, groups, phase>>
        /\ reuse' = NoReuse
    BY <1>6 DEF Tick, store, lane, grouper, history, config
  <2>2. Holds /\ sets <= sets /\ Low' = Low /\ Low <= Low
    BY <1>1, <2>1 DEF Holds, Low
  <2> QED BY <1>1, <1>2, <2>1, <2>2, LifeFrame
<1>7. ASSUME NEW w \in 0..MaxWall, SetWall(w)
      PROVE  LifeInv'
  <2>1. /\ UNCHANGED <<entries, verdicts, lifetimes, born, since, ttl, asked, now, groups, phase>>
        /\ reuse' = NoReuse /\ sets' = sets + 1
    BY <1>7 DEF SetWall, store, lane, grouper, history, config
  <2>2. Holds /\ sets <= sets' /\ sets' \in Nat /\ Low' \in Nat /\ Low <= Low'
    BY <1>1, <2>1 DEF Holds, Low
  <2> QED BY <1>1, <1>2, <2>1, <2>2, LifeFrame
<1>8. CASE Restart
  <2>1. /\ DOMAIN entries' = {} /\ DOMAIN groups' = {} /\ DOMAIN since' = {}
        /\ DOMAIN lifetimes' = {} /\ reuse' = NoReuse
        /\ UNCHANGED <<verdicts, born>>
    BY <1>8 DEF Restart, Empty
  <2> QED BY <1>2, <2>1 DEF LifeInv
<1> QED BY <1>3, <1>4, <1>5, <1>6, <1>7, <1>8, LifeObserve, LifePrepareHit, LifeDispatch,
           LifeKeep, LifePublish, Steps

LEMMA LifeInit == Init => LifeInv
BY DEF Init, LifeInv, Empty, ReuseEnds, NoReuse

\* A verdict is reused for less than its lifetime: in one process from when it was
\* sent for or found, and across restarts from when it was sent for as long as
\* nobody set the clock (Judgment.CacheValidAt, Store.Lookup, Grouper.Publish).
THEOREM ReuseAlwaysEnds == Spec => []ReuseEnds
<1>1. Init => ClockInv /\ LifeInv
  BY ClockInit, LifeInit
<1>2. CacheInv /\ ClockInv /\ LifeInv /\ [Next]_vars => ClockInv' /\ LifeInv'
  <2> SUFFICES ASSUME CacheInv, ClockInv, LifeInv, [Next]_vars
               PROVE  ClockInv' /\ LifeInv'
    OBVIOUS
  <2>1. CASE Next
    BY <2>1, ClockStep, LifeStep
  <2>2. CASE UNCHANGED vars
    BY <2>2 DEF vars, ClockInv, ReadingTrue, Clock, LifeInv, EndsInTime, Low, ReuseEnds,
                EndsInProcess, EndsAcrossRestarts
  <2> QED BY <2>1, <2>2
<1>3. LifeInv => ReuseEnds
  BY DEF LifeInv
<1> QED BY <1>1, <1>2, <1>3, CacheAlways, PTL DEF Spec
=============================================================================

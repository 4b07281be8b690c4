-------------------------- MODULE SearchView_proofs --------------------------
(***************************************************************************)
(* Proofs about SearchRun, for any window, queries, budgets, capacity and  *)
(* lifetime: a search that says it is finished judged everything, and one  *)
(* that reuses a decision reuses one of the provider's on the same query   *)
(* and the same occurrences.  Then, for any windows and any keys, proofs   *)
(* about Terminal, the view that starts, supersedes and shows searches:    *)
(* the newest window is shown, a detail has its evidence, a selection its  *)
(* event, and at most one search goes on.                                  *)
(***************************************************************************)
EXTENDS SearchRun, Terminal, FiniteSetTheorems, SequenceTheorems,
        WellFoundedInduction, TLAPS

USE SearchAssumption

\* The groups that the run has looked at or still will.
Seen == todo \cup pending \cup DOMAIN batch \cup DOMAIN recorded

\* Where the groups of a run are: one is in one place, none gets lost while the
\* window is scanned, and those that count as candidates are the ones it keeps.
GroupsKept ==
  /\ window \subseteq DOMAIN Events
  /\ Seen \subseteq GroupsOf(window)
  /\ pc \in {"idle", "scan", "batch", "call", "record"}
  /\ pc \in {"scan", "batch"} => DOMAIN batch = {}
  /\ pc \in {"batch", "call", "record"} => todo = {}
  /\ pc = "scan" => /\ todo \cap DOMAIN recorded = {} /\ todo \cap pending = {}
                    /\ pending \cap DOMAIN recorded = {}
                    /\ mode = "literal" => pending = {}
  /\ pc # "idle" => candidates = Cardinality(Seen)

\* How a run that is over presents itself.
EndTrue ==
  /\ breaker \in BOOLEAN /\ cancelled \in BOOLEAN
  /\ pc = "idle" =>
       /\ message = "finished" => ~Partial
       /\ status = "complete" /\ ~breaker => Cardinality(DOMAIN recorded) = candidates
       /\ cancelled => status = "cancelled"
  /\ pc # "idle" => ~breaker

HonestInv == GroupsKept /\ EndTrue

\* What the cache holds was answered, when it says so.
CacheSound ==
  /\ now \in Nat
  /\ \A k \in DOMAIN cache :
       /\ cache[k].at \in 0..now
       /\ \E a \in answers : /\ a.query = k.query /\ a.group = k.group
                             /\ a.count = k.count /\ a.value = cache[k].value
                             /\ a.at = cache[k].at

ReuseInv == CacheSound /\ ReuseSound

-----------------------------------------------------------------------------
(* Facts about the operators.                                              *)

LEMMA GroupsFinite ==
  ASSUME NEW w \in SUBSET DOMAIN Events
  PROVE  IsFiniteSet(GroupsOf(w))
<1> DEFINE f == [e \in w |-> Events[e]]
<1>1. f \in Surjection(w, GroupsOf(w))
  BY DEF Surjection, GroupsOf
<1>2. IsFiniteSet(w)
  BY FS_Subset
<1> QED BY <1>1, <1>2, FS_Surjection

LEMMA SeenFinite == ASSUME GroupsKept PROVE IsFiniteSet(Seen)
BY GroupsFinite, FS_Subset DEF GroupsKept

LEMMA RecordedDomain ==
  ASSUME NEW g, NEW value, NEW fromCache, Recorded(g, value, fromCache)
  PROVE  DOMAIN recorded' = DOMAIN recorded \cup {g}
BY DEF Recorded

-----------------------------------------------------------------------------
(* An honest search.                                                       *)

LEMMA HonestInit == Init => HonestInv
<1> HAVE Init
<1>1. GroupsKept
  BY DEF Init, GroupsKept, Seen, GroupsOf
<1>2. EndTrue
  BY DEF Init, EndTrue
<1> QED BY <1>1, <1>2 DEF HonestInv

\* A step of a run that goes on, and moves groups at most.
LEMMA HonestFrame ==
  ASSUME GroupsKept', EndTrue, pc' # "idle", pc # "idle",
         breaker' = breaker, cancelled' \in BOOLEAN
  PROVE  HonestInv'
BY DEF HonestInv, EndTrue

\* The end of a run.
LEMMA HonestEnd ==
  ASSUME HonestInv, End, breaker' \in BOOLEAN,
         breaker' \/ cancelled \/ (pc # "idle" /\ Seen = DOMAIN recorded)
  PROVE  HonestInv'
<1>1. /\ pc' = "idle"
      /\ UNCHANGED <<window, todo, pending, batch, recorded, candidates, cancelled>>
      /\ status' = IF cancelled THEN "cancelled" ELSE "complete"
  BY DEF End, options
<1>2. message' = "finished" => ~Partial
  BY DEF End, HonestInv, EndTrue
<1>3. GroupsKept'
  BY <1>1 DEF HonestInv, GroupsKept, Seen, GroupsOf
<1>4. ~breaker' /\ ~cancelled => Cardinality(DOMAIN recorded) = candidates
  BY DEF HonestInv, GroupsKept
<1>5. EndTrue'
  BY <1>1, <1>2, <1>4 DEF HonestInv, EndTrue, Partial, Failed, GroupsOf
<1> QED BY <1>3, <1>5 DEF HonestInv

LEMMA HonestStart == ASSUME HonestInv, Start PROVE HonestInv'
<1>1. /\ window' \subseteq DOMAIN Events /\ pc' = "scan"
      /\ todo' = GroupsOf(window') /\ candidates' = Cardinality(todo')
      /\ pending' = {} /\ DOMAIN batch' = {} /\ DOMAIN recorded' = {}
      /\ cancelled' = FALSE /\ breaker' = FALSE
  BY DEF Start
<1>2. Seen' = todo'
  BY <1>1 DEF Seen
<1>3. GroupsKept'
  BY <1>1, <1>2 DEF GroupsKept, GroupsOf
<1>4. EndTrue'
  BY <1>1 DEF EndTrue
<1> QED BY <1>3, <1>4 DEF HonestInv

LEMMA HonestScan == ASSUME HonestInv, Scan PROVE HonestInv'
<1>1. PICK g \in todo :
        /\ todo' = todo \ {g}
        /\ \/ /\ mode = "literal"
              /\ \E v \in {"match", "unrelated"} : Recorded(g, v, FALSE)
              /\ UNCHANGED <<pending, cache>>
           \/ /\ mode = "jev" /\ Hit(Key(g))
              /\ Recorded(g, cache[Key(g)].value, TRUE)
              /\ UNCHANGED <<pending, cache>>
           \/ /\ mode = "jev" /\ ~Hit(Key(g))
              /\ pending' = pending \cup {g}
              /\ cache' = Restrict(cache, DOMAIN cache \ {Key(g)})
              /\ UNCHANGED recorded
  BY DEF Scan
<1>2. /\ pc = "scan" /\ pc' = "scan"
      /\ UNCHANGED <<window, mode, batch, candidates, cancelled, breaker>>
  BY DEF Scan, options
<1>3. \/ DOMAIN recorded' = DOMAIN recorded \cup {g} /\ pending' = pending
      \/ DOMAIN recorded' = DOMAIN recorded /\ pending' = pending \cup {g} /\ mode # "literal"
  BY <1>1, RecordedDomain
<1>4. /\ g \notin DOMAIN recorded /\ g \notin pending /\ todo \cap pending = {}
      /\ todo \cap DOMAIN recorded = {} /\ pending \cap DOMAIN recorded = {}
      /\ mode = "literal" => pending = {}
  BY <1>2 DEF HonestInv, GroupsKept
<1>5. Seen' = Seen
  BY <1>1, <1>2, <1>3 DEF Seen
<1>6. GroupsKept'
  <2>1. /\ todo' \cap DOMAIN recorded' = {} /\ todo' \cap pending' = {}
        /\ pending' \cap DOMAIN recorded' = {}
        /\ mode = "literal" => pending' = {}
    BY <1>1, <1>3, <1>4
  <2> QED BY <1>2, <1>5, <2>1 DEF HonestInv, GroupsKept, GroupsOf
<1> QED BY <1>2, <1>6, HonestFrame DEF HonestInv, EndTrue

LEMMA HonestScanEnds == ASSUME HonestInv, ScanEnds PROVE HonestInv'
<1>1. /\ pc = "scan" /\ End /\ UNCHANGED breaker
      /\ cancelled \/ (todo = {} /\ mode = "literal")
  BY DEF ScanEnds
<1>2. cancelled \/ Seen = DOMAIN recorded
  BY <1>1 DEF HonestInv, GroupsKept, Seen
<1> QED BY <1>1, <1>2, HonestEnd DEF HonestInv, EndTrue

LEMMA HonestSelect == ASSUME HonestInv, Select PROVE HonestInv'
<1>1. /\ pc = "scan" /\ pc' = "batch" /\ todo = {} /\ pending' \subseteq pending
      /\ candidates' = Cardinality(DOMAIN recorded) + Cardinality(pending')
      /\ UNCHANGED <<window, todo, batch, recorded, cancelled, breaker>>
  BY DEF Select, AnyOfSize, options
<1>2. /\ DOMAIN batch = {} /\ pending' \cap DOMAIN recorded = {}
      /\ Seen' = DOMAIN recorded \cup pending' /\ Seen' \subseteq Seen
  BY <1>1 DEF HonestInv, GroupsKept, Seen
<1>3. /\ IsFiniteSet(DOMAIN recorded) /\ IsFiniteSet(pending')
  BY <1>1, SeenFinite, FS_Subset DEF HonestInv, Seen
<1>4. Cardinality(Seen') = Cardinality(DOMAIN recorded) + Cardinality(pending')
  <2>1. Cardinality(DOMAIN recorded \cup pending')
          = Cardinality(DOMAIN recorded) + Cardinality(pending')
              - Cardinality(DOMAIN recorded \cap pending')
    BY <1>3, FS_Union
  <2>2. Cardinality(DOMAIN recorded \cap pending') = 0
    BY <1>2, FS_EmptySet
  <2> QED BY <1>2, <1>3, <2>1, <2>2, FS_CardinalityType
<1>5. GroupsKept'
  BY <1>1, <1>2, <1>4 DEF HonestInv, GroupsKept, GroupsOf
<1> QED BY <1>1, <1>5, HonestFrame DEF HonestInv, EndTrue

LEMMA HonestCall == ASSUME HonestInv, Call PROVE HonestInv'
<1>1. PICK b \in SUBSET pending :
        batch' = [g \in b |-> "asked"] /\ pending' = pending \ b
  BY DEF Call, AnyOfSize
<1>2. /\ pc = "batch" /\ pc' = "call"
      /\ UNCHANGED <<window, todo, recorded, candidates, cancelled, breaker>>
  BY DEF Call, options
<1>3. Seen' = Seen
  BY <1>1, <1>2 DEF HonestInv, GroupsKept, Seen
<1>4. GroupsKept'
  BY <1>2, <1>3 DEF HonestInv, GroupsKept, GroupsOf
<1> QED BY <1>2, <1>4, HonestFrame DEF HonestInv, EndTrue

LEMMA HonestCallsEnd == ASSUME HonestInv, CallsEnd PROVE HonestInv'
<1>1. /\ pc = "batch" /\ End /\ UNCHANGED breaker
      /\ pending = {} \/ cancelled
  BY DEF CallsEnd, Over
<1>2. cancelled \/ Seen = DOMAIN recorded
  BY <1>1 DEF HonestInv, GroupsKept, Seen
<1> QED BY <1>1, <1>2, HonestEnd DEF HonestInv, EndTrue

LEMMA HonestReturn == ASSUME HonestInv, Return PROVE HonestInv'
<1>1. DOMAIN batch' = DOMAIN batch
  BY DEF Return
<1>2. /\ pc = "call" /\ pc' = "record"
      /\ UNCHANGED <<window, todo, pending, recorded, candidates, cancelled, breaker>>
  BY DEF Return, options
<1>3. Seen' = Seen
  BY <1>1, <1>2 DEF Seen
<1>4. GroupsKept'
  BY <1>2, <1>3 DEF HonestInv, GroupsKept, GroupsOf
<1> QED BY <1>2, <1>4, HonestFrame DEF HonestInv, EndTrue

LEMMA HonestRecord == ASSUME HonestInv, Record PROVE HonestInv'
<1>1. PICK g \in DOMAIN batch :
        /\ Recorded(g, batch[g], FALSE)
        /\ batch' = Restrict(batch, DOMAIN batch \ {g})
  BY DEF Record
<1>2. /\ pc = "record" /\ pc' = "record"
      /\ UNCHANGED <<window, todo, pending, candidates, cancelled, breaker>>
  BY DEF Record, options
<1>3. /\ DOMAIN recorded' = DOMAIN recorded \cup {g}
      /\ DOMAIN batch' = DOMAIN batch \ {g}
  BY <1>1, RecordedDomain DEF Restrict
<1>4. Seen' = Seen
  BY <1>2, <1>3 DEF Seen
<1>5. GroupsKept'
  BY <1>2, <1>4 DEF HonestInv, GroupsKept, GroupsOf
<1> QED BY <1>2, <1>5, HonestFrame DEF HonestInv, EndTrue

LEMMA HonestBatchEnds == ASSUME HonestInv, BatchEnds PROVE HonestInv'
<1>1. CASE breaker' = TRUE /\ End
  BY <1>1, HonestEnd
<1>2. CASE pc' = "batch"
  <2>1. /\ pc = "record" /\ DOMAIN batch = {}
        /\ UNCHANGED <<window, todo, pending, batch, recorded, candidates, cancelled>>
    BY <1>2 DEF BatchEnds, End, options
  <2>2. UNCHANGED breaker
    BY <1>2 DEF BatchEnds, End
  <2>3. Seen' = Seen
    BY <2>1 DEF Seen
  <2>4. GroupsKept'
    BY <1>2, <2>1, <2>3 DEF HonestInv, GroupsKept, GroupsOf
  <2> QED BY <1>2, <2>1, <2>2, <2>4, HonestFrame DEF HonestInv, EndTrue
<1> QED BY <1>1, <1>2 DEF BatchEnds

LEMMA HonestCancel == ASSUME HonestInv, Cancel PROVE HonestInv'
<1>1. /\ pc # "idle" /\ cancelled' = TRUE
      /\ UNCHANGED <<window, mode, pc, todo, pending, batch, recorded, candidates, breaker>>
  BY DEF Cancel, options
<1>2. GroupsKept'
  BY <1>1 DEF HonestInv, GroupsKept, Seen, GroupsOf
<1> QED BY <1>1, <1>2, HonestFrame DEF HonestInv

LEMMA HonestNext == ASSUME HonestInv, [Next]_vars PROVE HonestInv'
<1>1. CASE Tick \/ UNCHANGED vars
  <2>1. UNCHANGED <<window, mode, pc, todo, pending, batch, recorded, candidates,
                    cancelled, breaker, status, message>>
    BY <1>1 DEF Tick, vars, options
  <2> QED BY <2>1 DEF HonestInv, GroupsKept, EndTrue, Seen, GroupsOf, Partial, Failed
<1>2. CASE Start \/ Execute \/ Cancel
  BY <1>2, HonestStart, HonestScan, HonestScanEnds, HonestSelect, HonestCall,
     HonestCallsEnd, HonestReturn, HonestRecord, HonestBatchEnds, HonestCancel
     DEF Execute
<1> QED BY <1>1, <1>2 DEF Next

\* A search that calls itself finished judged every group of its window, and one
\* that ended by itself with the breaker unset examined all its candidates
\* (search.go, Execute and Snapshot).
THEOREM HonestSearch == Spec => []SearchHonest
<1>1. Init => HonestInv
  BY HonestInit
<1>2. HonestInv /\ [Next]_vars => HonestInv'
  BY HonestNext
<1>3. HonestInv => SearchHonest
  BY DEF HonestInv, EndTrue, SearchHonest, Partial, Failed
<1> QED BY <1>1, <1>2, <1>3, PTL DEF Spec

-----------------------------------------------------------------------------
(* Sound reuse.                                                            *)

\* A step that neither records nor answers, and only takes from the cache.
LEMMA ReuseFrame ==
  ASSUME ReuseInv, now' \in Nat, now <= now', UNCHANGED <<window, query, recorded>>,
         answers \subseteq answers', DOMAIN cache' \subseteq DOMAIN cache,
         \A k \in DOMAIN cache' : cache'[k] = cache[k]
  PROVE  ReuseInv'
<1>1. CacheSound'
  BY DEF ReuseInv, CacheSound
<1>2. ReuseSound'
  BY DEF ReuseInv, ReuseSound, Count
<1> QED BY <1>1, <1>2 DEF ReuseInv

LEMMA ReuseScan == ASSUME ReuseInv, Scan PROVE ReuseInv'
<1>1. PICK g \in todo :
        \/ /\ \E v \in {"match", "unrelated"} : Recorded(g, v, FALSE)
           /\ UNCHANGED cache
        \/ /\ Hit(Key(g)) /\ Recorded(g, cache[Key(g)].value, TRUE)
           /\ UNCHANGED cache
        \/ /\ cache' = Restrict(cache, DOMAIN cache \ {Key(g)})
           /\ UNCHANGED recorded
  BY DEF Scan
<1>2. UNCHANGED <<window, query, now, answers>> /\ now \in Nat
  BY DEF Scan, options, ReuseInv, CacheSound
<1>3. CASE UNCHANGED recorded /\ cache' = Restrict(cache, DOMAIN cache \ {Key(g)})
  BY <1>2, <1>3, ReuseFrame DEF Restrict
<1>4. CASE UNCHANGED cache /\ \E v \in {"match", "unrelated"} : Recorded(g, v, FALSE)
  <2>1. \A j \in DOMAIN recorded' : j = g => ~recorded'[j].cached
    BY <1>4 DEF Recorded
  <2>2. \A j \in DOMAIN recorded' : j # g => j \in DOMAIN recorded /\ recorded'[j] = recorded[j]
    BY <1>4 DEF Recorded
  <2>3. ReuseSound'
    BY <1>2, <2>1, <2>2 DEF ReuseInv, ReuseSound, Count
  <2> QED BY <1>2, <1>4, <2>3 DEF ReuseInv, CacheSound
<1>5. CASE UNCHANGED cache /\ Hit(Key(g)) /\ Recorded(g, cache[Key(g)].value, TRUE)
  <2> DEFINE k == Key(g)
  <2>1. /\ k \in DOMAIN cache /\ now - cache[k].at < TTL
        /\ k.query = query /\ k.group = g /\ k.count = Count(g)
    BY <1>5 DEF Hit, Key
  <2>2. PICK a \in answers : /\ a.query = k.query /\ a.group = k.group
                             /\ a.count = k.count /\ a.value = cache[k].value
                             /\ a.at = cache[k].at
    BY <2>1 DEF ReuseInv, CacheSound
  <2>3. recorded'[g].value = cache[k].value /\ recorded'[g].at = now
    BY <1>5 DEF Recorded
  <2>4. cache[k].at \in 0..now /\ TTL \in Nat
    BY <2>1 DEF ReuseInv, CacheSound
  <2>5. /\ a.query = query /\ a.group = g /\ a.count = Count(g)
        /\ a.value = recorded'[g].value
        /\ a.at <= recorded'[g].at /\ recorded'[g].at < a.at + TTL
    BY <1>2, <2>1, <2>2, <2>3, <2>4
  <2>6. \A j \in DOMAIN recorded' : j # g => j \in DOMAIN recorded /\ recorded'[j] = recorded[j]
    BY <1>5 DEF Recorded
  <2>7. \A j \in DOMAIN recorded' : recorded'[j].cached =>
          \E b \in answers : /\ b.query = query /\ b.group = j /\ b.count = Count(j)
                             /\ b.value = recorded'[j].value
                             /\ b.at <= recorded'[j].at /\ recorded'[j].at < b.at + TTL
    <3> TAKE j \in DOMAIN recorded'
    <3> HAVE recorded'[j].cached
    <3>1. CASE j = g
      BY <2>5, <3>1
    <3>2. CASE j # g
      BY <2>6, <3>2 DEF ReuseInv, ReuseSound
    <3> QED BY <3>1, <3>2
  <2>8. ReuseSound'
    BY <1>2, <2>7 DEF ReuseSound, Count
  <2> QED BY <1>2, <1>5, <2>8 DEF ReuseInv, CacheSound
<1> QED BY <1>1, <1>3, <1>4, <1>5

LEMMA ReuseRecord == ASSUME ReuseInv, Record PROVE ReuseInv'
<1>1. PICK g \in DOMAIN batch :
       /\ IF Cacheable(batch[g]) THEN Put(Key(g), batch[g]) ELSE UNCHANGED cache
       /\ answers' = IF batch[g] = "unknown" THEN answers
                     ELSE answers \cup {[query |-> query, group |-> g, at |-> now,
                                         count |-> Count(g), value |-> batch[g]]}
       /\ Recorded(g, batch[g], FALSE)
  BY DEF Record
<1>2. UNCHANGED <<window, query, now>> /\ now \in Nat
  BY DEF Record, options, ReuseInv, CacheSound
<1>3. ReuseSound'
  <2>1. \A j \in DOMAIN recorded' : j = g => ~recorded'[j].cached
    BY <1>1 DEF Recorded
  <2>2. \A j \in DOMAIN recorded' : j # g => j \in DOMAIN recorded /\ recorded'[j] = recorded[j]
    BY <1>1 DEF Recorded
  <2>3. answers \subseteq answers'
    BY <1>1
  <2> QED BY <1>2, <2>1, <2>2, <2>3 DEF ReuseInv, ReuseSound, Count
<1>4. CacheSound'
  <2>1. CASE ~Cacheable(batch[g])
    BY <1>1, <1>2, <2>1 DEF ReuseInv, CacheSound
  <2>2. CASE Cacheable(batch[g])
    <3> DEFINE k == Key(g)
               a == [query |-> query, group |-> g, at |-> now,
                     count |-> Count(g), value |-> batch[g]]
    <3>1. a \in answers' /\ answers \subseteq answers'
      BY <1>1, <2>2 DEF Cacheable
    <3>2. PICK gone : cache' = [j \in (DOMAIN cache \ gone) \cup {k} |->
                        IF j = k THEN [value |-> batch[g], at |-> now] ELSE cache[j]]
      BY <1>1, <2>2 DEF Put
    <3>3. /\ k.query = a.query /\ k.group = a.group /\ k.count = a.count
      BY DEF Key
    <3> HIDE DEF k
    <3>4. /\ k \in DOMAIN cache' /\ cache'[k].value = a.value /\ cache'[k].at = a.at
          /\ a.at = now
      BY <3>2
    <3>5. \A j \in DOMAIN cache' : j # k => j \in DOMAIN cache /\ cache'[j] = cache[j]
      BY <3>2
    <3> HIDE DEF a
    <3>6. \A j \in DOMAIN cache' :
            /\ cache'[j].at \in 0..now
            /\ \E b \in answers' : /\ b.query = j.query /\ b.group = j.group
                                   /\ b.count = j.count /\ b.value = cache'[j].value
                                   /\ b.at = cache'[j].at
      <4> TAKE j \in DOMAIN cache'
      <4>1. CASE j = k
        BY <1>2, <3>1, <3>3, <3>4, <4>1
      <4>2. CASE j # k
        BY <3>1, <3>5, <4>2 DEF ReuseInv, CacheSound
      <4> QED BY <4>1, <4>2
    <3> QED BY <1>2, <3>6 DEF CacheSound
  <2> QED BY <2>1, <2>2
<1> QED BY <1>3, <1>4 DEF ReuseInv

LEMMA ReuseNext == ASSUME ReuseInv, [Next]_vars PROVE ReuseInv'
<1>1. CASE Start
  <2>1. DOMAIN recorded' = {} /\ UNCHANGED <<cache, now, answers>>
    BY <1>1 DEF Start
  <2> QED BY <2>1 DEF ReuseInv, CacheSound, ReuseSound
<1>2. CASE Scan
  BY <1>2, ReuseScan
<1>3. CASE Record
  BY <1>3, ReuseRecord
<1>4. CASE \/ ScanEnds \/ Select \/ Call \/ CallsEnd \/ Return \/ BatchEnds
           \/ Cancel \/ Tick \/ UNCHANGED vars
  <2>1. UNCHANGED <<window, query, recorded, cache, answers>>
    BY <1>4 DEF ScanEnds, Select, Call, CallsEnd, Return, BatchEnds, Cancel, Tick,
                End, options, vars
  <2>2. now' \in Nat /\ now <= now'
    BY <1>4 DEF ScanEnds, Select, Call, CallsEnd, Return, BatchEnds, Cancel, Tick,
                End, options, vars, ReuseInv, CacheSound
  <2> QED BY <2>1, <2>2, ReuseFrame
<1> QED BY <1>1, <1>2, <1>3, <1>4 DEF Next, Execute

\* A decision taken from the cache is the provider's own on the same query, group
\* and number of occurrences, and younger than TTL when it was taken (search.go,
\* Cache and Execute).
THEOREM SoundReuse == Spec => []ReuseSound
<1>1. Init => ReuseInv
  BY DEF Init, ReuseInv, CacheSound, ReuseSound
<1>2. ReuseInv /\ [Next]_vars => ReuseInv'
  BY ReuseNext
<1>3. ReuseInv => ReuseSound
  BY DEF ReuseInv
<1> QED BY <1>1, <1>2, <1>3, PTL DEF Spec

-----------------------------------------------------------------------------
(* The view that starts, supersedes and shows searches.                    *)

\* Each number up to the size of a set of indices is the rank of one of them.
LEMMA NthIn ==
  ASSUME NEW S \in SUBSET Nat, IsFiniteSet(S), NEW n \in 1..Cardinality(S)
  PROVE  Nth(S, n) \in S
<1> DEFINE upto(i) == {j \in S : j <= i}
           rank == [i \in S |-> Cardinality(upto(i))]
           c == Cardinality(S)
<1>1. c \in Nat /\ Cardinality(1..c) = c /\ IsFiniteSet(1..c)
  <2>1. c \in Nat
    BY FS_CardinalityType
  <2> HIDE DEF c
  <2> QED BY <2>1, FS_Interval
<1>2. ASSUME NEW i \in S
      PROVE  /\ IsFiniteSet(upto(i)) /\ rank[i] \in 1..c
  <2>1. upto(i) \subseteq S
    OBVIOUS
  <2>2. IsFiniteSet(upto(i)) /\ Cardinality(upto(i)) <= c
    BY <2>1, FS_Subset
  <2>3. Cardinality(upto(i)) \in Nat
    BY <2>2, FS_CardinalityType
  <2>4. upto(i) # {}
    OBVIOUS
  <2>5. Cardinality(upto(i)) # 0
    BY <2>2, <2>4, FS_EmptySet
  <2> QED BY <1>1, <2>2, <2>3, <2>5
<1>3. ASSUME NEW i \in S, NEW j \in S, i < j
      PROVE  rank[i] # rank[j]
  <2>0. i \in Nat /\ j \in Nat
    OBVIOUS
  <2>4. \A k \in S : k <= i => k <= j
    <3>1. \A k \in Nat : k <= i => k <= j
      BY <1>3, <2>0
    <3> QED BY <3>1
  <2>5. j <= j /\ ~(j <= i)
    BY <1>3, <2>0
  <2>1. upto(i) \subseteq upto(j) /\ j \in upto(j) /\ j \notin upto(i)
    BY <2>4, <2>5
  <2>2. IsFiniteSet(upto(j)) /\ upto(i) # upto(j)
    BY <1>2, <2>1
  <2>3. Cardinality(upto(i)) < Cardinality(upto(j))
    BY <2>1, <2>2, FS_Subset, FS_CardinalityType
  <2>6. Cardinality(upto(i)) \in Nat /\ Cardinality(upto(j)) \in Nat
    BY <1>2, FS_CardinalityType
  <2> QED BY <2>3, <2>6
<1>4. rank \in [S -> 1..c]
  BY <1>2
<1>5. \A i, j \in S : rank[i] = rank[j] => i = j
  BY <1>3
<1>6. \A i \in S : rank[i] = Cardinality({j \in S : j <= i})
  OBVIOUS
<1> HIDE DEF rank, c
<1>7. rank \in Injection(S, 1..c)
  BY <1>4, <1>5 DEF Injection, IsInjective
<1>8. rank \in Surjection(S, 1..c)
  BY <1>1, <1>7, FS_Injection DEF c
<1>9. \E i \in S : rank[i] = n
  BY <1>8 DEF Surjection, c
<1> QED BY <1>6, <1>9 DEF Nth

-----------------------------------------------------------------------------
\* Lists of events and the rows of the view.

ViewEvent == [id : Nat \ {0}, text : STRING, importance : STRING]
Word == STRING \cup {"none"}
ViewRow == [event : [id : Nat, text : Word, importance : Word], ids : SUBSET Nat]

\* Indices of a list are finitely many numbers.
LEMMA Indices ==
  ASSUME NEW list \in Seq(ViewEvent), NEW S \in SUBSET (DOMAIN list)
  PROVE  /\ S \in SUBSET Nat /\ IsFiniteSet(S) /\ Cardinality(S) \in Nat
         /\ \A i \in S : list[i] \in ViewEvent
<1>1. DOMAIN list = 1..Len(list) /\ Len(list) \in Nat
  BY LenProperties
<1>2. IsFiniteSet(1..Len(list))
  BY <1>1, FS_Interval
<1>3. IsFiniteSet(S)
  BY <1>1, <1>2, FS_Subset
<1>4. Cardinality(S) \in Nat
  BY <1>3, FS_CardinalityType
<1>5. S \in SUBSET Nat /\ \A i \in S : list[i] \in ViewEvent
  BY <1>1, ElementOfSeq
<1> QED BY <1>3, <1>4, <1>5

\* A function on the numbers up to c is a sequence.
LEMMA SeqOf ==
  ASSUME NEW S, NEW c \in Nat, NEW f \in [1..c -> S]
  PROVE  f \in Seq(S) /\ Len(f) = c /\ DOMAIN f = 1..c
<1>1. f \in Seq(S)
  BY SeqDef
<1> QED BY <1>1, LenProperties

\* A row counts events of the list, the one it shows among them.
LEMMA RowsShape ==
  ASSUME NEW list \in Seq(ViewEvent), NEW tab, NEW grouped
  PROVE  /\ RowsOf(list, tab, grouped) \in Seq(ViewRow)
         /\ \A n \in 1..Len(RowsOf(list, tab, grouped)) :
              /\ RowsOf(list, tab, grouped)[n].ids \subseteq IDs(list)
              /\ RowsOf(list, tab, grouped)[n].event.id
                   \in RowsOf(list, tab, grouped)[n].ids
<1> DEFINE listed == {i \in DOMAIN list : InTab(tab, list[i])}
           same(i, j) == /\ list[i].text = list[j].text
                         /\ list[i].importance = list[j].importance
           firsts == {i \in listed :
                        grouped => \A j \in listed : j < i => ~same(i, j)}
           row(i) == {j \in listed : IF grouped THEN same(i, j) ELSE j = i}
           rows == [n \in 1..Cardinality(firsts) |->
                      [event |-> list[Nth(firsts, n)],
                       ids |-> {list[j].id : j \in row(Nth(firsts, n))}]]
<1>1. RowsOf(list, tab, grouped) = rows
  BY DEF RowsOf
<1>2. /\ firsts \in SUBSET Nat /\ IsFiniteSet(firsts)
      /\ Cardinality(firsts) \in Nat /\ firsts \subseteq listed
      /\ \A i \in listed : list[i] \in ViewEvent
  <2>1. listed \in SUBSET (DOMAIN list) /\ firsts \in SUBSET (DOMAIN list)
        /\ firsts \subseteq listed
    OBVIOUS
  <2> HIDE DEF listed, firsts
  <2> QED BY <2>1, Indices
<1>3. \A i \in listed : i \in row(i) /\ row(i) \subseteq listed
  OBVIOUS
<1>4. \A i \in listed : list[i].id \in IDs(list)
  BY DEF IDs
<1> DEFINE nth(n) == Nth(firsts, n)
<1>5. ASSUME NEW n \in 1..Cardinality(firsts) PROVE nth(n) \in listed
  <2> HIDE DEF firsts
  <2>1. nth(n) \in firsts
    BY <1>2, NthIn
  <2> QED BY <1>2, <2>1
<1> HIDE DEF listed, firsts, row, nth
<1>6. ASSUME NEW n \in 1..Cardinality(firsts)
      PROVE  /\ rows[n] \in ViewRow
             /\ rows[n].ids \subseteq IDs(list)
             /\ rows[n].event.id \in rows[n].ids
  <2> DEFINE i == nth(n)
  <2>1. i \in listed /\ list[i] \in ViewEvent
    BY <1>2, <1>5
  <2>2. rows[n] = [event |-> list[i], ids |-> {list[j].id : j \in row(i)}]
    BY DEF nth
  <2> HIDE DEF i, rows
  <2>3. \A j \in row(i) : /\ list[j].id \in Nat /\ list[j].id \in IDs(list)
    BY <1>2, <1>3, <1>4, <2>1 DEF ViewEvent
  <2>4. list[i] \in [id : Nat, text : Word, importance : Word]
    BY <2>1 DEF ViewEvent, Word
  <2>5. i \in row(i)
    BY <1>3, <2>1
  <2> QED BY <2>2, <2>3, <2>4, <2>5 DEF ViewRow
<1>7. rows \in [1..Cardinality(firsts) -> ViewRow]
  BY <1>6
<1> HIDE DEF rows
<1>8. rows \in Seq(ViewRow) /\ Len(rows) = Cardinality(firsts)
  BY <1>2, <1>7, SeqOf
<1> QED BY <1>1, <1>6, <1>8

\* What a search found is a list of events of its window.
LEMMA ResultsShape ==
  ASSUME NEW run, run.window \in Seq(ViewEvent)
  PROVE  Results(run) \in Seq(ViewEvent)
<1> DEFINE list == run.window
           hits == {i \in DOMAIN list : list[i].text \in run.found}
           found == [n \in 1..Cardinality(hits) |-> list[Nth(hits, n)]]
<1>1. Results(run) = found
  BY DEF Results
<1>2. hits \in SUBSET (DOMAIN list) /\ list \in Seq(ViewEvent)
  OBVIOUS
<1> HIDE DEF hits, list
<1>3. /\ hits \in SUBSET Nat /\ IsFiniteSet(hits) /\ Cardinality(hits) \in Nat
      /\ \A i \in hits : list[i] \in ViewEvent
  BY <1>2, Indices
<1>4. found \in [1..Cardinality(hits) -> ViewEvent]
  BY <1>3, NthIn
<1> HIDE DEF found
<1> QED BY <1>1, <1>3, <1>4, SeqOf

-----------------------------------------------------------------------------
\* The least and the greatest of some numbers.

LEMMA MinOf ==
  ASSUME NEW S \in SUBSET Nat, S # {}
  PROVE  Min(S) \in S
<1> DEFINE R == OpToRel(<, Nat)
<1>1. IsWellFoundedOn(R, Nat)
  BY NatLessThanWellFounded
<1>2. \A a, b \in Nat : <<a, b>> \in R <=> a < b
  BY DEF OpToRel
<1> HIDE DEF R
<1>3. PICK x \in S : \A y \in S : ~(<<y, x>> \in R)
  BY <1>1, WFMin
<1>4. \A y \in S : x <= y
  <2> TAKE y \in S
  <2>1. x \in Nat /\ y \in Nat /\ ~(y < x)
    BY <1>2, <1>3
  <2> QED BY <2>1
<1> QED BY <1>3, <1>4 DEF Min

LEMMA MaxOfTwo ==
  ASSUME NEW a \in Int, NEW b \in Int
  PROVE  Max({a, b}) = IF a >= b THEN a ELSE b
  BY DEF Max

LEMMA MinOfTwo ==
  ASSUME NEW a \in Int, NEW b \in Int
  PROVE  Min({a, b}) = IF a <= b THEN a ELSE b
  BY DEF Min

-----------------------------------------------------------------------------
\* The operations of the view.

Model ==
  [events : Seq(ViewEvent), results : Seq(ViewEvent), tab : 0..4,
   selected : Nat, grouped : BOOLEAN, detail : BOOLEAN, frozen : ViewRow,
   evidence : Seq(ViewEvent), search : Nat, editing : BOOLEAN]

Search ==
  [window : Seq(ViewEvent), found : SUBSET STRING, cancelled : BOOLEAN,
   at : {"running", "sending", "done"}]

\* The frozen evidence has every occurrence of the frozen row.
Whole(x) == x.frozen.ids \subseteq IDs(x.evidence)

\* What an operation keeps: a view with its window, its search and its whole
\* evidence.
Kept(x, y) ==
  /\ y \in Model /\ y.search = x.search /\ y.events = x.events
  /\ Whole(x) => Whole(y)

LEMMA RowsOK ==
  ASSUME NEW x \in Model
  PROVE  /\ Shown(x) \in Seq(ViewEvent)
         /\ Rows(x) \in Seq(ViewRow)
         /\ Len(Rows(x)) \in Nat /\ DOMAIN Rows(x) = 1..Len(Rows(x))
         /\ \A n \in 1..Len(Rows(x)) :
              /\ Rows(x)[n] \in ViewRow
              /\ Rows(x)[n].ids \subseteq IDs(Shown(x))
              /\ Rows(x)[n].event.id \in Rows(x)[n].ids
<1>1. Shown(x) \in Seq(ViewEvent)
  BY DEF Shown, Model
<1>2. Rows(x) = RowsOf(Shown(x), x.tab, x.grouped)
  BY DEF Rows
<1>3. /\ Rows(x) \in Seq(ViewRow)
      /\ \A n \in 1..Len(Rows(x)) :
           /\ Rows(x)[n].ids \subseteq IDs(Shown(x))
           /\ Rows(x)[n].event.id \in Rows(x)[n].ids
  BY <1>1, <1>2, RowsShape
<1> QED BY <1>1, <1>3, LenProperties, ElementOfSeq

\* The rows are those of the list that is shown.
LEMMA SameRows ==
  ASSUME NEW x \in Model, NEW y \in Model, y.tab = x.tab, y.grouped = x.grouped,
         Shown(y) = Shown(x)
  PROVE  Rows(y) = Rows(x)
  BY DEF Rows

LEMMA FreezeOK ==
  ASSUME NEW x \in Model
  PROVE  Kept(x, FreezeDetail(x))
<1> DEFINE row == Rows(x)[x.selected + 1]
<1>1. x.selected \in Nat
  BY DEF Model
<1>2. CASE x.selected >= Len(Rows(x))
  BY <1>2 DEF FreezeDetail, Kept
<1>3. CASE ~(x.selected >= Len(Rows(x)))
  <2>1. x.selected + 1 \in 1..Len(Rows(x))
    BY <1>1, <1>3, RowsOK
  <2>2. row \in ViewRow /\ row.ids \subseteq IDs(Shown(x))
        /\ Shown(x) \in Seq(ViewEvent)
    BY <2>1, RowsOK
  <2>3. FreezeDetail(x) = [x EXCEPT !.frozen = row, !.evidence = Shown(x)]
    BY <1>3 DEF FreezeDetail
  <2> HIDE DEF row
  <2> QED BY <2>2, <2>3 DEF Kept, Model, Whole
<1> QED BY <1>2, <1>3

LEMMA RenderOK ==
  ASSUME NEW x \in Model
  PROVE  /\ Kept(x, Render(x))
         /\ Render(x) = [x EXCEPT !.selected = Render(x).selected]
         /\ x.selected < Len(Rows(x)) => Render(x).selected = x.selected
<1> DEFINE l == Len(Rows(x))
           s == Max({0, Min({x.selected, l - 1})})
<1>1. l \in Nat /\ x.selected \in Nat
  BY RowsOK DEF Model
<1> HIDE DEF l
<1>2. s \in Nat /\ (x.selected < l => s = x.selected)
  BY <1>1, MaxOfTwo, MinOfTwo
<1>3. Render(x) = [x EXCEPT !.selected = s]
  BY DEF Render, l
<1> HIDE DEF s
<1>4. Render(x).selected = s
  BY <1>3 DEF Model
<1>5. Kept(x, Render(x))
  BY <1>2, <1>3 DEF Kept, Model, Whole
<1> QED BY <1>2, <1>3, <1>4, <1>5 DEF l

LEMMA RefreshOK ==
  ASSUME NEW x \in Model, searches \in Seq(Search), x.search <= Len(searches)
  PROVE  /\ Kept(x, Refresh(x))
         /\ Refresh(x) = [x EXCEPT !.results = Refresh(x).results]
<1>1. CASE x.search = 0
  BY <1>1 DEF Refresh, Kept, Model
<1>2. CASE x.search # 0
  <2>1. x.search \in 1..Len(searches)
    BY <1>2, LenProperties DEF Model
  <2>2. searches[x.search] \in Search
    BY <2>1, ElementOfSeq
  <2>3. Results(searches[x.search]) \in Seq(ViewEvent)
    BY <2>2, ResultsShape DEF Search
  <2>4. Refresh(x) = [x EXCEPT !.results = Results(searches[x.search])]
    BY <1>2 DEF Refresh
  <2> QED BY <2>3, <2>4 DEF Kept, Model, Whole
<1> QED BY <1>1, <1>2

\* The event under the selection is in the row under the selection.
LEMMA SelectedRow ==
  ASSUME NEW x \in Model, SelectedID(x) # 0
  PROVE  /\ x.selected < Len(Rows(x))
         /\ SelectedID(x) \in Rows(x)[x.selected + 1].ids
<1>1. x.selected < Len(Rows(x))
  BY DEF SelectedID
<1>2. SelectedID(x) = Rows(x)[x.selected + 1].event.id
  BY <1>1 DEF SelectedID
<1>3. x.selected + 1 \in 1..Len(Rows(x))
  BY <1>1, RowsOK DEF Model
<1> QED BY <1>1, <1>2, <1>3, RowsOK

\* A new window changes the events and the selection, which follows its event.
LEMMA UpdateOK ==
  ASSUME NEW x \in Model, NEW w \in Seq(ViewEvent)
  PROVE  LET y == Update(x, w)
             id == SelectedID(x)
         IN  /\ y \in Model
             /\ y = [x EXCEPT !.events = w, !.selected = y.selected]
             /\ RowsWith(y, id) # {} =>
                  /\ y.selected < Len(Rows(y))
                  /\ id \in Rows(y)[y.selected + 1].ids
<1> DEFINE z == [x EXCEPT !.events = w]
           id == SelectedID(x)
           found == RowsWith(z, id)
           y == Update(x, w)
<1>1. z \in Model
  BY DEF Model
<1>2. found \subseteq 1..Len(Rows(z)) /\ Len(Rows(z)) \in Nat
  BY <1>1, RowsOK DEF RowsWith
<1>3. y = IF found = {} THEN z ELSE [z EXCEPT !.selected = Min(found) - 1]
  BY DEF Update
<1>4. CASE found = {}
  <2>1. y = z
    BY <1>3, <1>4
  <2>2. z = [x EXCEPT !.events = w, !.selected = z.selected]
    BY DEF Model
  <2> QED BY <1>1, <1>4, <2>1, <2>2
<1>5. CASE found # {}
  <2> DEFINE k == Min(found)
  <2>1. k \in found
    <3> HIDE DEF found
    <3>1. found \in SUBSET Nat
      BY <1>2
    <3> QED BY <1>5, <3>1, MinOf
  <2>2. id \in Rows(z)[k].ids
    BY <2>1 DEF RowsWith
  <2>3. k \in 1..Len(Rows(z))
    BY <1>2, <2>1
  <2>4. y = [z EXCEPT !.selected = k - 1]
    BY <1>3, <1>5
  <2>10. k - 1 \in Nat
    <3> HIDE DEF k
    <3> QED BY <1>2, <2>3
  <2> HIDE DEF k, found, id, y
  <2>5. y \in Model /\ y.selected = k - 1
    <3> HIDE DEF z
    <3> QED BY <1>1, <2>4, <2>10 DEF Model
  <2>6. Rows(y) = Rows(z)
    <3>1. y.tab = z.tab /\ y.grouped = z.grouped /\ Shown(y) = Shown(z)
      BY <2>4 DEF Model, Shown
    <3> HIDE DEF z
    <3> QED BY <1>1, <2>5, <3>1, SameRows
  <2>7. y = [x EXCEPT !.events = w, !.selected = y.selected]
    BY <2>4, <2>5 DEF Model
  <2>8. y.selected < Len(Rows(y)) /\ y.selected + 1 = k
    BY <1>2, <2>3, <2>5, <2>6
  <2>9. id \in Rows(y)[y.selected + 1].ids
    BY <2>2, <2>6, <2>8
  <2> QED BY <2>5, <2>7, <2>8, <2>9 DEF id, y
<1> HIDE DEF found
<1> QED BY <1>4, <1>5

LEMMA ViewConstants ==
  /\ {Page, MaxRow, MaxSearches} \subseteq Nat /\ MaxKeys \in Nat \ {0}
  /\ Windows \in Seq(Seq(ViewEvent))
  BY TerminalAssumption DEF ViewEvent

USE ViewConstants

\* A key keeps the window, the search and the evidence of the view.
LEMMA KeyedOK ==
  ASSUME NEW x \in Model, NEW y \in Keyed(x) \cup Edited(x)
  PROVE  Kept(x, y)
<1> USE DEF Kept, Model, Whole
<1>1. CASE \E t \in 0..4 : y = ToTab(x, t)
  <2>1. PICK t \in 0..4 : y = ToTab(x, t)
    BY <1>1
  <2>2. y = [x EXCEPT !.tab = t, !.selected = 0, !.detail = FALSE]
    BY <2>1 DEF ToTab
  <2> QED BY <2>2
<1>2. CASE \E by \in {-Page, -1, 1, Page} : y = Move(x, by)
  <2>1. PICK by \in {-Page, -1, 1, Page} : y = Move(x, by)
    BY <1>2
  <2>2. by \in Int /\ x.selected \in Nat
    OBVIOUS
  <2> DEFINE at == x.selected + by
             s == Max({0, at})
  <2>3. at \in Int /\ 0 \in Int
    BY ONLY <2>2
  <2>4. s \in Nat
    <3> HIDE DEF at
    <3>1. s = IF 0 >= at THEN 0 ELSE at
      BY ONLY <2>3, MaxOfTwo
    <3> QED BY ONLY <2>3, <3>1
  <2>5. y = IF x.detail THEN x ELSE [x EXCEPT !.selected = s]
    BY <2>1 DEF Move
  <2> HIDE DEF s
  <2> QED BY <2>4, <2>5
<1>3. CASE y \in {Enter(x), Instances(x)}
  <2> DEFINE z == [x EXCEPT !.detail = TRUE]
  <2>1. z \in Model /\ Kept(x, z)
    OBVIOUS
  <2>2. Kept(z, FreezeDetail(z)) /\ Kept(x, FreezeDetail(x))
    <3> HIDE DEF z
    <3> QED BY <2>1, FreezeOK
  <2>3. CASE y = Enter(x)
    <3>1. y = [x EXCEPT !.detail = FALSE] \/ y = FreezeDetail(z)
      BY <2>3 DEF Enter
    <3>2. Kept(x, FreezeDetail(z))
      BY <2>1, <2>2
    <3> QED BY <3>1, <3>2
  <2>4. CASE y = Instances(x)
    <3>1. y = x \/ y = [FreezeDetail(x) EXCEPT !.detail = TRUE]
      BY <2>4 DEF Instances
    <3>2. FreezeDetail(x) \in Model /\ Kept(x, FreezeDetail(x))
      BY <2>2
    <3> HIDE DEF z
    <3> QED BY <3>1, <3>2
  <2> QED BY <1>3, <2>3, <2>4
<1>4. CASE y = [x EXCEPT !.detail = FALSE]
  BY <1>4
<1>5. CASE y \in Clicked(x)
  <2>1. PICK row \in 0..Max({MaxRow, Len(Rows(x)) - 1}) :
           y = [x EXCEPT !.selected = row]
    BY <1>5 DEF Clicked
  <2>2. row \in Nat
    OBVIOUS
  <2> QED BY ONLY <2>1, <2>2, x \in Model DEF Kept, Model, Whole
<1>6. CASE y = [x EXCEPT !.grouped = ~@, !.selected = 0]
  BY <1>6
<1>7. CASE \E editing \in BOOLEAN : y = [x EXCEPT !.editing = editing]
  BY <1>7
<1>8. CASE y = x
  BY <1>8
<1>9. \/ \E t \in 0..4 : y = ToTab(x, t)
      \/ \E by \in {-Page, -1, 1, Page} : y = Move(x, by)
      \/ y \in {Enter(x), Instances(x)}
      \/ y = [x EXCEPT !.detail = FALSE]
      \/ y \in Clicked(x)
      \/ y = [x EXCEPT !.grouped = ~@, !.selected = 0]
      \/ \E editing \in BOOLEAN : y = [x EXCEPT !.editing = editing]
      \/ y = x
  BY DEF Keyed, Edited
<1> QED BY <1>1, <1>2, <1>3, <1>4, <1>5, <1>6, <1>7, <1>8, <1>9

\* A new Model.
LEMMA NewOK == New \in Model /\ Whole(New)
<1>1. None \in ViewRow /\ None.ids = {}
  <2> DEFINE e == [id |-> 0, text |-> "none", importance |-> "none"]
  <2>1. e \in [id : Nat, text : Word, importance : Word]
    BY DEF Word
  <2>2. {} \in SUBSET Nat
    OBVIOUS
  <2>3. None = [event |-> e, ids |-> {}]
    BY DEF None
  <2> HIDE DEF e
  <2> QED BY <2>1, <2>2, <2>3 DEF ViewRow
<1>2. <<>> \in Seq(ViewEvent)
  BY EmptySeq
<1> HIDE DEF None
<1> QED BY <1>1, <1>2 DEF New, Model, Whole

-----------------------------------------------------------------------------
\* The invariant of the view.

ViewType ==
  /\ sent \in 0..Len(Windows)
  /\ updates = <<>> \/ \E w \in Seq(ViewEvent) : updates = <<w>>
  /\ loop \in {"select", "input", "closing", "exited"}
  /\ m \in Model
  /\ searches \in Seq(Search)

\* The view shows the search started last; each one before it is cancelled, and
\* so are all of a view that was left, which waits for their end.
SearchesInv ==
  /\ loop \in {"select", "input"} => m.search = Len(searches)
  /\ loop \in {"closing", "exited"} =>
       m.search = 0 /\ \A i \in DOMAIN searches : searches[i].cancelled
  /\ \A i \in DOMAIN searches : searches[i].cancelled \/ i = Len(searches)
  /\ loop = "exited" => \A i \in DOMAIN searches : searches[i].at = "done"

ViewInv == ViewType /\ SearchesInv /\ NewestShown /\ Whole(m)

\* Changing some searches in place.
LEMMA SearchesOK ==
  ASSUME searches \in Seq(Search), NEW g \in [DOMAIN searches -> Search]
  PROVE  /\ g \in Seq(Search) /\ Len(g) = Len(searches)
         /\ DOMAIN g = DOMAIN searches
<1>1. DOMAIN searches = 1..Len(searches) /\ Len(searches) \in Nat
  BY LenProperties
<1> QED BY <1>1, SeqOf

LEMMA ViewInit ==
  ASSUME TerminalInit
  PROVE  ViewInv
<1> USE DEF TerminalInit
<1>1. Len(Windows) \in Nat
  BY LenProperties
<1>2. searches = <<>> /\ searches \in Seq(Search) /\ Len(searches) = 0
      /\ DOMAIN searches = {}
  BY EmptySeq, LenProperties
<1>3. m \in Model /\ Whole(m) /\ m.search = 0
  BY NewOK DEF New
<1>4. NewestShown
  BY DEF NewestShown
<1> QED BY <1>1, <1>2, <1>3, <1>4 DEF ViewInv, ViewType, SearchesInv

\* The window that the next frame shows, or the channel still holds.
LEMMA SendStep ==
  ASSUME ViewInv, Send
  PROVE  ViewInv'
<1> USE DEF Send, ui, Sent, ViewInv
<1>1. sent \in Nat /\ Len(Windows) \in Nat /\ sent' \in 1..Len(Windows)
  BY LenProperties DEF ViewType
<1>2. Windows[sent'] \in Seq(ViewEvent)
  BY <1>1, ElementOfSeq
<1>3. updates' = <<Windows[sent']>>
  OBVIOUS
<1>4. ViewType'
  BY <1>1, <1>2, <1>3 DEF ViewType
<1>5. SearchesInv'
  BY DEF SearchesInv
<1>6. NewestShown'
  BY <1>3 DEF NewestShown
<1>7. Whole(m)'
  BY DEF Whole
<1> QED BY <1>4, <1>5, <1>6, <1>7

\* What a frame makes of the view.
LEMMA FramedOK ==
  ASSUME ViewInv, loop = "select", NEW x \in Model, x.search = m.search,
         Framed(x)
  PROVE  /\ Kept(x, m') /\ loop' = "input"
         /\ m'.tab = x.tab /\ m'.grouped = x.grouped /\ m'.detail = x.detail
         /\ m'.frozen = x.frozen /\ m'.evidence = x.evidence
         /\ x.tab # SearchTab =>
              /\ Rows(m') = Rows(x)
              /\ x.selected < Len(Rows(x)) => m'.selected = x.selected
<1> DEFINE y == Refresh(x)
<1>1. x.search <= Len(searches) /\ searches \in Seq(Search)
  <2>1. Len(searches) \in Nat
    BY LenProperties DEF ViewInv, ViewType
  <2> QED BY <2>1 DEF ViewInv, ViewType, SearchesInv
<1>2. Kept(x, y) /\ y = [x EXCEPT !.results = y.results]
  BY <1>1, RefreshOK
<1>3. m' = Render(y) /\ loop' = "input"
  BY DEF Framed
<1> HIDE DEF y
<1>4. y \in Model
  BY <1>2 DEF Kept
<1>5. /\ Kept(y, m') /\ m' = [y EXCEPT !.selected = m'.selected]
      /\ y.selected < Len(Rows(y)) => m'.selected = y.selected
  BY <1>3, <1>4, RenderOK
<1>6. Kept(x, m')
  BY <1>2, <1>5 DEF Kept
<1>7. /\ y.tab = x.tab /\ y.grouped = x.grouped /\ y.detail = x.detail
      /\ y.frozen = x.frozen /\ y.evidence = x.evidence /\ y.events = x.events
      /\ y.selected = x.selected
  BY <1>2 DEF Model
<1>8. /\ m'.tab = y.tab /\ m'.grouped = y.grouped /\ m'.detail = y.detail
      /\ m'.frozen = y.frozen /\ m'.evidence = y.evidence /\ m'.events = y.events
  BY <1>4, <1>5 DEF Model
<1>9. ASSUME x.tab # SearchTab
      PROVE  Rows(y) = Rows(x) /\ Rows(m') = Rows(x)
  <2>1. Shown(y) = Shown(x) /\ Shown(m') = Shown(x)
    BY <1>7, <1>8, <1>9 DEF Shown
  <2>2. m' \in Model
    BY <1>6 DEF Kept
  <2> QED BY <1>4, <1>7, <1>8, <2>1, <2>2, SameRows
<1> QED BY <1>3, <1>5, <1>6, <1>7, <1>8, <1>9

\* A frame takes a new window, the end of a search or neither.
LEMMA FrameCases ==
  ASSUME ViewInv, Frame
  PROVE  /\ \/ \E w \in Seq(ViewEvent) :
                 /\ updates = <<w>> /\ updates' = <<>>
                 /\ Framed(Update(m, w))
            \/ updates' = updates /\ Framed(m)
            \/ updates' = updates /\ m' = m /\ loop' = loop
         /\ loop = "select" /\ sent' = sent /\ searches' = searches
<1>1. CASE /\ updates # <<>> /\ updates' = <<>>
           /\ Framed(Update(m, Head(updates)))
  <2>1. PICK w \in Seq(ViewEvent) : updates = <<w>>
    BY <1>1 DEF ViewInv, ViewType
  <2>2. Head(updates) = w
    BY <2>1
  <2> QED BY <1>1, <2>1, <2>2 DEF Frame
<1>2. CASE updates' = updates /\ (Framed(m) \/ UNCHANGED ui)
  BY <1>2 DEF Frame, ui
<1> QED BY <1>1, <1>2 DEF Frame

LEMMA FrameStep ==
  ASSUME ViewInv, Frame
  PROVE  ViewInv'
<1>1. /\ loop = "select" /\ sent' = sent /\ searches' = searches
      /\ m \in Model /\ Whole(m)
  BY FrameCases DEF ViewInv, ViewType
<1>2. CASE \E w \in Seq(ViewEvent) :
             /\ updates = <<w>> /\ updates' = <<>>
             /\ Framed(Update(m, w))
  <2>1. PICK w \in Seq(ViewEvent) :
           /\ updates = <<w>> /\ updates' = <<>>
           /\ Framed(Update(m, w))
    BY <1>2
  <2> DEFINE x == Update(m, w)
  <2>2. x \in Model /\ x = [m EXCEPT !.events = w, !.selected = x.selected]
    BY <1>1, UpdateOK
  <2>3. x.search = m.search /\ x.events = w /\ Whole(x)
    <3> HIDE DEF x
    <3> QED BY <1>1, <2>2 DEF Model, Whole
  <2>4. Framed(x)
    BY <2>1
  <2> HIDE DEF x
  <2>5. Kept(x, m') /\ loop' = "input"
    BY <1>1, <2>2, <2>3, <2>4, FramedOK
  <2>6. m' \in Model /\ m'.events = w /\ m'.search = m.search /\ Whole(m')
    BY <2>3, <2>5 DEF Kept
  <2>7. NewestShown'
    <3>1. sent > 0 => Windows[sent] = w
      BY <1>1, <2>1 DEF ViewInv, NewestShown
    <3> QED BY <1>1, <2>1, <2>6, <3>1 DEF NewestShown
  <2> QED BY <1>1, <2>1, <2>5, <2>6, <2>7
          DEF ViewInv, ViewType, SearchesInv, Whole
<1>3. CASE updates' = updates /\ Framed(m)
  <2>1. Kept(m, m') /\ loop' = "input"
    BY <1>1, <1>3, FramedOK
  <2>2. m' \in Model /\ m'.events = m.events /\ m'.search = m.search /\ Whole(m')
    BY <1>1, <2>1 DEF Kept
  <2>3. NewestShown'
    BY <1>1, <1>3, <2>2 DEF ViewInv, NewestShown
  <2> QED BY <1>1, <1>3, <2>1, <2>2, <2>3
          DEF ViewInv, ViewType, SearchesInv, Whole
<1>4. CASE updates' = updates /\ m' = m /\ loop' = loop
  BY <1>1, <1>4 DEF ViewInv, ViewType, SearchesInv, Whole, NewestShown
<1> QED BY <1>2, <1>3, <1>4, FrameCases

\* Stopping cancels the search started last, and those before it already were.
LEMMA StoppedOK ==
  ASSUME ViewType, SearchesInv
  PROVE  /\ Stopped \in Seq(Search) /\ Len(Stopped) = Len(searches)
         /\ DOMAIN Stopped = DOMAIN searches
         /\ \A i \in DOMAIN searches : Stopped[i].cancelled
         /\ \A i \in DOMAIN searches : Stopped[i].at = searches[i].at
<1> DEFINE of(i) ==
             [searches[i] EXCEPT !.cancelled = @ \/ i = Len(searches)]
<1>1. \A i \in DOMAIN searches : searches[i] \in Search
  BY LenProperties, ElementOfSeq DEF ViewType
<1>2. \A i \in DOMAIN searches :
        /\ of(i) \in Search /\ of(i).cancelled
        /\ of(i).at = searches[i].at
  <2> TAKE i \in DOMAIN searches
  <2>1. searches[i] \in Search
        /\ (searches[i].cancelled \/ i = Len(searches))
    BY <1>1 DEF SearchesInv
  <2> QED BY <2>1 DEF Search
<1>3. Stopped = [i \in DOMAIN searches |-> of(i)]
  BY DEF Stopped
<1> HIDE DEF of
<1>4. Stopped \in [DOMAIN searches -> Search]
  BY <1>2, <1>3
<1>5. searches \in Seq(Search)
  BY DEF ViewType
<1> QED BY <1>2, <1>3, <1>4, <1>5, SearchesOK

LEMMA KeyStep ==
  ASSUME ViewInv, KeyPressed
  PROVE  ViewInv'
<1>1. /\ loop = "input" /\ loop' \in {"select", "input"}
      /\ sent' = sent /\ updates' = updates /\ searches' = searches
      /\ m' \in Keyed(m) \cup Edited(m)
  BY DEF KeyPressed, Pressed
<1>2. m \in Model
  BY DEF ViewInv, ViewType
<1>3. Kept(m, m')
  BY <1>1, <1>2, KeyedOK
<1>4. NewestShown'
  BY <1>1, <1>3 DEF ViewInv, NewestShown, Kept
<1> QED BY <1>1, <1>3, <1>4 DEF ViewInv, ViewType, SearchesInv, Whole, Kept

LEMMA StopStep ==
  ASSUME ViewInv, StopSearch
  PROVE  ViewInv'
<1>1. /\ loop = "input" /\ loop' \in {"select", "input"}
      /\ sent' = sent /\ updates' = updates /\ m' = m
      /\ searches' = Stopped
  BY DEF StopSearch, Pressed
<1>2. NewestShown'
  BY <1>1 DEF ViewInv, NewestShown
<1> QED BY <1>1, <1>2, StoppedOK DEF ViewInv, ViewType, SearchesInv, Whole

\* A submitted query stops what went on; a search it starts is the newest one.
LEMMA SubmitStep ==
  ASSUME ViewInv, Submit
  PROVE  ViewInv'
<1>1. /\ loop = "input" /\ loop' \in {"select", "input"}
      /\ sent' = sent /\ updates' = updates
  BY DEF Submit, Pressed
<1>2. m \in Model /\ searches \in Seq(Search) /\ m.search = Len(searches)
      /\ Len(searches) \in Nat /\ DOMAIN searches = 1..Len(searches)
  BY <1>1, LenProperties DEF ViewInv, ViewType, SearchesInv
<1>3. CASE m' = [m EXCEPT !.editing = FALSE] /\ searches' = Stopped
  <2>1. m' \in Model /\ m'.search = m.search /\ m'.events = m.events
        /\ (Whole(m) => Whole(m'))
    BY <1>2, <1>3 DEF Model, Whole
  <2>2. NewestShown'
    BY <1>1, <2>1 DEF ViewInv, NewestShown
  <2> QED BY <1>1, <1>3, <2>1, <2>2, StoppedOK
          DEF ViewInv, ViewType, SearchesInv, Whole
<1>4. CASE /\ searches' = Append([i \in DOMAIN searches |->
                                    [Stopped[i] EXCEPT !.window = <<>>,
                                                         !.found = {}]],
                                 [window |-> m.events, found |-> {},
                                  cancelled |-> FALSE, at |-> "running"])
           /\ m' = [m EXCEPT !.editing = FALSE, !.search = Len(searches'),
                             !.detail = FALSE, !.tab = SearchTab,
                             !.results = <<>>]
  <2> DEFINE of(i) == [Stopped[i] EXCEPT !.window = <<>>, !.found = {}]
             old == [i \in DOMAIN searches |-> of(i)]
             new == [window |-> m.events, found |-> {},
                     cancelled |-> FALSE, at |-> "running"]
  <2>1. <<>> \in Seq(ViewEvent)
    BY EmptySeq
  <2>2. \A i \in DOMAIN searches : of(i) \in Search /\ of(i).cancelled
    <3> TAKE i \in DOMAIN searches
    <3>1. Stopped[i] \in Search /\ Stopped[i].cancelled
      BY StoppedOK, LenProperties, ElementOfSeq DEF ViewInv
    <3> QED BY <2>1, <3>1 DEF Search
  <2>3. new \in Search /\ ~new.cancelled
    <3>1. {} \in SUBSET STRING
      OBVIOUS
    <3> QED BY <1>2, <3>1 DEF Search, Model
  <2> HIDE DEF of, new
  <2>4. old \in [DOMAIN searches -> Search]
    BY <2>2
  <2>5. \A i \in DOMAIN searches : old[i].cancelled
    BY <2>2
  <2> HIDE DEF old
  <2>6. old \in Seq(Search) /\ Len(old) = Len(searches)
    BY <1>2, <2>4, SearchesOK
  <2>7. searches' = Append(old, new)
    BY <1>4 DEF old, new, of
  <2>8. /\ searches' \in Seq(Search) /\ Len(searches') = Len(searches) + 1
        /\ DOMAIN searches' = 1..(Len(searches) + 1)
    BY <1>2, <2>3, <2>6, <2>7, AppendProperties, LenProperties
  <2>9. \A i \in 1..Len(searches) : searches'[i] = old[i]
    BY <2>3, <2>6, <2>7, AppendProperties
  <2>10. \A i \in DOMAIN searches' :
           searches'[i].cancelled \/ i = Len(searches')
    BY <1>2, <2>5, <2>8, <2>9
  <2> DEFINE l == Len(searches')
  <2>11. l \in Nat /\ SearchTab \in 0..4
    BY <1>2, <2>8 DEF SearchTab
  <2>12. m' = [m EXCEPT !.editing = FALSE, !.search = l, !.detail = FALSE,
                        !.tab = SearchTab, !.results = <<>>]
    BY <1>4
  <2> HIDE DEF l
  <2>13. m' \in Model /\ m'.search = l /\ m'.events = m.events
         /\ (Whole(m) => Whole(m'))
    BY <1>2, <2>1, <2>11, <2>12 DEF Model, Whole
  <2>14. NewestShown'
    BY <1>1, <2>13 DEF ViewInv, NewestShown
  <2>15. SearchesInv'
    BY <1>1, <2>10, <2>13 DEF SearchesInv, l
  <2> QED BY <1>1, <2>8, <2>13, <2>14, <2>15 DEF ViewInv, ViewType, Whole
<1> QED BY <1>3, <1>4 DEF Submit

\* Leaving the view cancels what it started.
LEMMA QuitStep ==
  ASSUME ViewInv, Quit
  PROVE  ViewInv'
<1> DEFINE of(i) == [searches[i] EXCEPT !.cancelled = TRUE]
<1>1. /\ loop' = "closing" /\ sent' = sent /\ updates' = updates /\ m' = New
      /\ searches' = [i \in DOMAIN searches |-> of(i)]
  BY DEF Quit
<1>2. \A i \in DOMAIN searches : of(i) \in Search /\ of(i).cancelled
  <2> TAKE i \in DOMAIN searches
  <2>1. searches[i] \in Search
    BY LenProperties, ElementOfSeq DEF ViewInv, ViewType
  <2> QED BY <2>1 DEF Search
<1> HIDE DEF of
<1>3. searches' \in [DOMAIN searches -> Search]
  BY <1>1, <1>2
<1>4. searches' \in Seq(Search) /\ DOMAIN searches' = DOMAIN searches
  BY <1>3, SearchesOK DEF ViewInv, ViewType
<1>5. \A i \in DOMAIN searches' : searches'[i].cancelled
  BY <1>1, <1>2, <1>4
<1>6. m' \in Model /\ Whole(m') /\ m'.search = 0
  BY <1>1, NewOK DEF New
<1>7. NewestShown'
  BY <1>1 DEF NewestShown
<1> QED BY <1>1, <1>4, <1>5, <1>6, <1>7
        DEF ViewInv, ViewType, SearchesInv, Whole

\* A step of a search changes what it found or where it is.
LEMMA SearchStep ==
  ASSUME ViewInv, NEW i \in DOMAIN searches, SearchFinds(i) \/ SearchReturns(i)
  PROVE  ViewInv'
<1>1. UNCHANGED <<sent, updates, loop, m>> /\ loop # "exited"
      /\ searches[i] \in Search
  <2>1. searches[i] \in Search
    BY LenProperties, ElementOfSeq DEF ViewInv, ViewType
  <2>2. searches[i].at # "done"
    BY DEF SearchFinds, SearchReturns, Released
  <2>3. loop # "exited"
    BY <2>2 DEF ViewInv, SearchesInv
  <2> QED BY <2>1, <2>3 DEF SearchFinds, SearchReturns, ui
<1>2. \E v \in Search : /\ v.cancelled = searches[i].cancelled
                        /\ searches' = [searches EXCEPT ![i] = v]
  <2>1. CASE SearchFinds(i)
    <3>1. PICK k \in DOMAIN searches[i].window :
            searches' = [searches EXCEPT ![i].found =
                           @ \cup {searches[i].window[k].text}]
      BY <2>1 DEF SearchFinds
    <3>2. searches[i].window[k].text \in STRING
      <4>1. searches[i].window \in Seq(ViewEvent)
        BY <1>1 DEF Search
      <4>2. searches[i].window[k] \in ViewEvent
        BY <4>1, LenProperties, ElementOfSeq
      <4> QED BY <4>2 DEF ViewEvent
    <3> DEFINE v == [searches[i] EXCEPT !.found =
                       @ \cup {searches[i].window[k].text}]
    <3>3. v \in Search /\ v.cancelled = searches[i].cancelled
      BY <1>1, <3>2 DEF Search
    <3>4. searches' = [searches EXCEPT ![i] = v]
      BY <3>1
    <3> QED BY <3>3, <3>4
  <2>2. CASE SearchReturns(i)
    <3>1. PICK to \in {"sending", "done"} :
            searches' = [searches EXCEPT ![i].at = to]
      BY <2>2 DEF SearchReturns
    <3> DEFINE v == [searches[i] EXCEPT !.at = to]
    <3>2. v \in Search /\ v.cancelled = searches[i].cancelled
      BY <1>1 DEF Search
    <3>3. searches' = [searches EXCEPT ![i] = v]
      BY <3>1
    <3> QED BY <3>2, <3>3
  <2> QED BY <2>1, <2>2
<1>3. PICK v \in Search : /\ v.cancelled = searches[i].cancelled
                          /\ searches' = [searches EXCEPT ![i] = v]
  BY <1>2
<1>4. \A j \in DOMAIN searches : searches[j] \in Search
  BY LenProperties, ElementOfSeq DEF ViewInv, ViewType
<1>5. searches' \in [DOMAIN searches -> Search]
  <2>1. searches = [j \in DOMAIN searches |-> searches[j]]
    BY LenProperties, SeqDef DEF ViewInv, ViewType
  <2> QED BY <1>3, <1>4, <2>1
<1>6. searches' \in Seq(Search) /\ Len(searches') = Len(searches)
      /\ DOMAIN searches' = DOMAIN searches
  BY <1>5, SearchesOK DEF ViewInv, ViewType
<1>7. \A j \in DOMAIN searches : searches'[j].cancelled = searches[j].cancelled
  BY <1>3, <1>6
<1>8. NewestShown'
  BY <1>1 DEF ViewInv, NewestShown
<1> QED BY <1>1, <1>6, <1>7, <1>8 DEF ViewInv, ViewType, SearchesInv, Whole

LEMMA ViewStep ==
  ASSUME ViewInv, [TerminalNext]_terminalVars
  PROVE  ViewInv'
<1>1. CASE Send
  BY <1>1, SendStep
<1>2. CASE UNCHANGED <<sent, updates, loop, m, searches>>
  BY <1>2 DEF ViewInv, ViewType, SearchesInv, Whole, NewestShown
<1>3. CASE Frame
  BY <1>3, FrameStep
<1>4. CASE KeyPressed
  BY <1>4, KeyStep
<1>5. CASE StopSearch
  BY <1>5, StopStep
<1>6. CASE Submit
  BY <1>6, SubmitStep
<1>7. CASE InputEnds
  BY <1>7 DEF InputEnds, ViewInv, ViewType, SearchesInv, Whole, NewestShown
<1>8. CASE Quit
  BY <1>8, QuitStep
<1>9. CASE Exit
  BY <1>9 DEF Exit, ViewInv, ViewType, SearchesInv, Whole, NewestShown
<1>10. CASE \E i \in DOMAIN searches : SearchFinds(i) \/ SearchReturns(i)
  BY <1>10, SearchStep
<1>11. CollectionEnds \/ UNCHANGED terminalVars =>
         UNCHANGED <<sent, updates, loop, m, searches>>
  BY DEF CollectionEnds, ui, terminalVars
<1> QED BY <1>1, <1>2, <1>3, <1>4, <1>5, <1>6, <1>7, <1>8, <1>9, <1>10, <1>11
        DEF TerminalNext, Loop

LEMMA ViewAlways ==
  TerminalSpec => []ViewInv
<1>1. TerminalInit => ViewInv
  BY ViewInit
<1>2. ViewInv /\ [TerminalNext]_terminalVars => ViewInv'
  BY ViewStep
<1> QED BY <1>1, <1>2, PTL DEF TerminalSpec

\* No window is lost by a terminal that is slower than the collection: the
\* newest one is in the channel or on the screen; and an open detail has every
\* occurrence it counts, also those evicted since it was opened (Model.Update,
\* Model.freezeDetail; runTerminal's send).
THEOREM WholeView ==
  TerminalSpec => []ViewComplete
<1>1. ViewInv => ViewComplete
  BY DEF ViewInv, Whole, ViewComplete, DetailComplete
<1> QED BY <1>1, ViewAlways, PTL

\* Whatever is submitted, stopped and left, at most one search goes on that was
\* not cancelled, its results are the ones shown, and none outlives the view.
THEOREM OneSearch ==
  TerminalSpec => []OneActiveSearch
<1>1. ViewInv => OneActiveSearch
  BY DEF ViewInv, ViewType, SearchesInv, OneActiveSearch
<1> QED BY <1>1, ViewAlways, PTL

\* What a frame leaves: the selection on the row of its event while there is such
\* a row, and an open detail as it was.
KeptView ==
  loop = "select" /\ loop' # "closing" =>
    /\ SelectedID(m) # 0 /\ m.tab # SearchTab
       /\ RowsWith(m', SelectedID(m)) # {}
         => SelectedID(m) \in Rows(m')[m'.selected + 1].ids
    /\ m.detail => <<m'.detail, m'.frozen, m'.evidence>>
                     = <<m.detail, m.frozen, m.evidence>>

LEMMA KeptViewStep ==
  ASSUME ViewInv, [TerminalNext]_terminalVars
  PROVE  KeptView
<1> SUFFICES ASSUME loop = "select", loop' # "closing"
             PROVE  KeptView
  BY DEF KeptView
<1>0. m \in Model
  BY DEF ViewInv, ViewType
<1>1. CASE m' = m
  <2>1. SelectedID(m) # 0 =>
          SelectedID(m) \in Rows(m)[m.selected + 1].ids
    BY <1>0, SelectedRow
  <2> QED BY <1>1, <2>1 DEF KeptView
<1>2. CASE Frame
  <2>1. CASE \E w \in Seq(ViewEvent) : Framed(Update(m, w))
    <3>1. PICK w \in Seq(ViewEvent) : Framed(Update(m, w))
      BY <2>1
    <3> DEFINE x == Update(m, w)
               id == SelectedID(m)
    <3>2. /\ x \in Model /\ x = [m EXCEPT !.events = w, !.selected = x.selected]
          /\ RowsWith(x, id) # {} =>
               /\ x.selected < Len(Rows(x))
               /\ id \in Rows(x)[x.selected + 1].ids
      BY <1>0, UpdateOK
    <3>3. Framed(x)
      BY <3>1
    <3> HIDE DEF x
    <3>4. /\ x.search = m.search /\ x.tab = m.tab /\ x.detail = m.detail
          /\ x.frozen = m.frozen /\ x.evidence = m.evidence
      BY <1>0, <3>2 DEF Model
    <3>5. /\ m'.detail = x.detail
          /\ m'.frozen = x.frozen /\ m'.evidence = x.evidence
          /\ x.tab # SearchTab =>
               /\ Rows(m') = Rows(x)
               /\ x.selected < Len(Rows(x)) => m'.selected = x.selected
      BY <3>2, <3>3, <3>4, FramedOK
    <3>6. ASSUME m.tab # SearchTab, RowsWith(m', id) # {}
          PROVE  id \in Rows(m')[m'.selected + 1].ids
      <4>1. Rows(m') = Rows(x)
        BY <3>4, <3>5, <3>6
      <4>2. RowsWith(x, id) # {}
        BY <3>6, <4>1 DEF RowsWith
      <4>3. m'.selected = x.selected
        BY <3>2, <3>4, <3>5, <3>6, <4>2
      <4> QED BY <3>2, <4>1, <4>2, <4>3
    <3> QED BY <3>4, <3>5, <3>6 DEF KeptView
  <2>2. CASE Framed(m)
    <3>1. /\ m'.detail = m.detail
          /\ m'.frozen = m.frozen /\ m'.evidence = m.evidence
          /\ m.tab # SearchTab =>
               /\ Rows(m') = Rows(m)
               /\ m.selected < Len(Rows(m)) => m'.selected = m.selected
      BY <1>0, <2>2, FramedOK
    <3>2. ASSUME SelectedID(m) # 0, m.tab # SearchTab
          PROVE  SelectedID(m) \in Rows(m')[m'.selected + 1].ids
      BY <1>0, <3>1, <3>2, SelectedRow
    <3> QED BY <3>1, <3>2 DEF KeptView
  <2> QED BY <1>1, <1>2, <2>1, <2>2, FrameCases
<1>3. TerminalNext /\ ~Frame => m' = m
  BY DEF TerminalNext, Loop, Send, CollectionEnds, KeyPressed, Pressed,
         StopSearch, Submit, InputEnds, Quit, Exit, SearchFinds,
         SearchReturns, ui
<1>4. UNCHANGED terminalVars => m' = m
  BY DEF terminalVars
<1> QED BY <1>1, <1>2, <1>3, <1>4

\* A new window leaves the selection on the row of its event while that event is
\* listed, whatever the window, and no frame touches an open detail
\* (Model.Update, Model.Render).
THEOREM SelectionStays ==
  TerminalSpec => SelectionKept
<1>1. ViewInv /\ [TerminalNext]_terminalVars => [KeptView]_terminalVars
  BY KeptViewStep
<1>2. [][KeptView]_terminalVars => SelectionKept
  BY DEF KeptView, SelectionKept
<1> QED BY <1>1, <1>2, ViewAlways, PTL DEF TerminalSpec
=============================================================================

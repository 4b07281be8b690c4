------------------------------ MODULE SearchRun ------------------------------
(***************************************************************************)
(* Semantic and literal search over a frozen window: search/search.go and  *)
(* the relevance call of provider/search.go.  One run at a time goes       *)
(* through the groups of its window, first the cache and then, in batches, *)
(* the provider; runs share the cache, and a run can be cancelled at any   *)
(* moment.  Text, redaction, the ranking formula and the paging of results *)
(* are left out: any candidates may rank first.                            *)
(***************************************************************************)
EXTENDS Integers, FiniteSets, FiniteSetsExt, Functions

CONSTANTS
  Events,         \* event -> its group (source, text and the flags of its text)
  Weak,           \* groups whose text is truncated or parse-uncertain
  Queries,
  Budgets,        \* batches a search may ask for
  BatchSize,      \* groups in a provider call (8 in the code)
  CacheCapacity,  \* entries in the cache (2048)
  TTL,            \* how long a decision is reused (five minutes)
  MaxRuns, MaxClock \* bounds

ASSUME SearchAssumption ==
  /\ Budgets \cup {BatchSize, CacheCapacity, TTL} \subseteq Nat \ {0}
  /\ IsFiniteSet(DOMAIN Events)
  /\ Weak \subseteq {Events[e] : e \in DOMAIN Events}

VARIABLES
  window,     \* the frozen events
  query, mode, budget,
  pc,         \* where Execute is
  todo,       \* groups not looked at yet
  pending,    \* groups for the provider
  batch,      \* the call in flight, then what it answered and is not recorded
  recorded,   \* group -> [value, cached, at]
  candidates, \* candidate_groups
  cancelled, breaker,
  status, message,
  cache,      \* key -> [value, at]
  now,        \* the monotonic clock
  answers,    \* what the provider said, and when   (history)
  calls,      \* provider calls of this run         (history)
  runs

options == <<window, query, mode, budget>>
vars == <<window, query, mode, budget, pc, todo, pending, batch, recorded,
          candidates, cancelled, breaker, status, message, cache, now, answers,
          calls, runs>>

GroupsOf(w) == {Events[e] : e \in w}
Count(g) == Cardinality({e \in window : Events[e] = g})
Verdicts == {"match", "possible", "unrelated", "unknown"}

KeyByGroup(g) == [query |-> query, group |-> g, count |-> 0]

\* The cache key holds the query and the occurrences of the group.
Key(g) == [query |-> query, group |-> g, count |-> Count(g)]

\* Cache.get
Hit(k) == k \in DOMAIN cache /\ now - cache[k].at < TTL

Oldest == {k \in DOMAIN cache :
             \A j \in DOMAIN cache : cache[k].at <= cache[j].at}

\* Cache.put makes room first, also for a key that is there already.
Put(k, value) ==
  \E gone \in IF Cardinality(DOMAIN cache) >= CacheCapacity
              THEN {{k0} : k0 \in Oldest} ELSE {{}} :
    LET kept == DOMAIN cache \ gone
    IN  cache' = [j \in kept \cup {k} |->
                    IF j = k THEN [value |-> value, at |-> now] ELSE cache[j]]

Recorded(g, value, fromCache) ==
  recorded' = [j \in DOMAIN recorded \cup {g} |->
                 IF j = g THEN [value |-> value, cached |-> fromCache, at |-> now]
                 ELSE recorded[j]]

Failed == {g \in DOMAIN recorded : recorded[g].value = "unknown"}

PartialUnlessAll == DOMAIN recorded # GroupsOf(window)

\* partial, in the message and in Snapshot.
Partial == DOMAIN recorded # GroupsOf(window) \/ Failed # {}

-----------------------------------------------------------------------------
Init ==
  /\ window = {} /\ query \in Queries /\ mode = "literal" /\ budget = 1
  /\ pc = "idle" /\ todo = {} /\ pending = {} /\ batch = <<>>
  /\ recorded = <<>> /\ candidates = 0
  /\ cancelled = FALSE /\ breaker = FALSE
  /\ status = "none" /\ message = "none"
  /\ cache = <<>> /\ now = 0 /\ answers = {} /\ calls = 0 /\ runs = 0

\* New groups the window, and Execute starts.
Start ==
  /\ pc = "idle" /\ runs < MaxRuns
  /\ window' \in SUBSET DOMAIN Events \ {{}}
  /\ query' \in Queries /\ mode' \in {"literal", "jev"} /\ budget' \in Budgets
  /\ todo' = GroupsOf(window') /\ candidates' = Cardinality(todo')
  /\ pending' = {} /\ batch' = <<>> /\ recorded' = <<>>
  /\ cancelled' = FALSE /\ breaker' = FALSE
  /\ status' = "running" /\ message' = "searching"
  /\ pc' = "scan" /\ calls' = 0 /\ runs' = runs + 1
  /\ UNCHANGED <<cache, now, answers>>

\* The deferred end of Execute.
End ==
  /\ pc' = "idle"
  /\ status' = IF cancelled THEN "cancelled" ELSE "complete"
  /\ message' = CASE cancelled -> "stopped"
                  [] ~cancelled /\ Partial -> "partial"
                  [] ~cancelled /\ ~Partial -> "finished"
  /\ UNCHANGED <<options, todo, pending, batch, recorded, candidates,
                 cancelled, cache, now, answers, calls, runs>>

\* A group is decided here, found in the cache or left for the provider.
Scan ==
  /\ pc = "scan" /\ todo # {} /\ ~cancelled
  /\ \E g \in todo :
       /\ todo' = todo \ {g}
       /\ \/ /\ mode = "literal"
             /\ \E v \in {"match", "unrelated"} : Recorded(g, v, FALSE)
             /\ UNCHANGED <<pending, cache>>
          \/ /\ mode = "jev" /\ Hit(Key(g))
             /\ Recorded(g, cache[Key(g)].value, TRUE)
             /\ UNCHANGED <<pending, cache>>
          \/ /\ mode = "jev" /\ ~Hit(Key(g))
             /\ pending' = pending \cup {g}
             /\ cache' = Restrict(cache, DOMAIN cache \ {Key(g)})
             /\ UNCHANGED recorded
  /\ UNCHANGED <<options, pc, batch, candidates, cancelled, breaker, status,
                 message, now, answers, calls, runs>>

ScanEnds ==
  /\ pc = "scan" /\ IF todo = {} THEN mode = "literal" ELSE cancelled
  /\ End /\ UNCHANGED breaker

AnyOfSize(n) == {s \in SUBSET pending : Cardinality(s) = n}

\* How many groups the budget lets through.
Bound == Min({Cardinality(pending), budget * BatchSize})

\* The best candidates, as many as the budget allows.
Select ==
  /\ pc = "scan" /\ todo = {} /\ mode = "jev"
  /\ pending' \in AnyOfSize(Bound)
  /\ candidates' = Cardinality(DOMAIN recorded) + Cardinality(pending')
  /\ pc' = "batch"
  /\ UNCHANGED <<options, todo, batch, recorded, cancelled, breaker, status,
                 message, cache, now, answers, calls, runs>>

\* A batch goes to the provider.
Call ==
  /\ pc = "batch" /\ ~(pending = {} \/ cancelled)
  /\ \E b \in AnyOfSize(Min({BatchSize, Cardinality(pending)})) :
       /\ batch' = [g \in b |-> "asked"]
       /\ pending' = pending \ b
  /\ pc' = "call" /\ calls' = calls + 1
  /\ UNCHANGED <<options, todo, recorded, candidates, cancelled, breaker,
                 status, message, cache, now, answers, runs>>

OverWhenEmpty == pending = {}

Over == pending = {} \/ cancelled

CallsEnd == pc = "batch" /\ Over /\ End /\ UNCHANGED breaker

\* provider/search.go: doubtful evidence is never decided beyond possible.
Relevance(g) ==
  IF g \in Weak THEN {"possible"} ELSE {"match", "possible", "unrelated"}

\* The call returns a valid answer for every group of the batch, or fails.
Return ==
  /\ pc = "call"
  /\ \/ /\ batch' \in [DOMAIN batch -> Verdicts \ {"unknown"}]
        /\ \A g \in DOMAIN batch : batch'[g] \in Relevance(g)
     \/ batch' = [g \in DOMAIN batch |-> "unknown"]
  /\ pc' = "record"
  /\ UNCHANGED <<options, todo, pending, recorded, candidates, cancelled,
                 breaker, status, message, cache, now, answers, calls, runs>>

Cacheable(v) == v # "unknown"

\* One answer is cached and recorded, while others may read the run.
Record ==
  /\ pc = "record"
  /\ \E g \in DOMAIN batch :
       /\ IF Cacheable(batch[g]) THEN Put(Key(g), batch[g]) ELSE UNCHANGED cache
       /\ answers' = IF batch[g] = "unknown" THEN answers
                     ELSE answers \cup {[query |-> query, group |-> g, at |-> now,
                                         count |-> Count(g), value |-> batch[g]]}
       /\ Recorded(g, batch[g], FALSE)
       /\ batch' = Restrict(batch, DOMAIN batch \ {g})
  /\ UNCHANGED <<options, pc, todo, pending, candidates, cancelled, breaker,
                 status, message, now, calls, runs>>

\* The batch is recorded; the usage may show the breaker set.
BatchEnds ==
  /\ pc = "record" /\ batch = <<>>
  /\ \/ /\ pc' = "batch"
        /\ UNCHANGED <<options, todo, pending, batch, recorded, candidates,
                       cancelled, breaker, status, message, cache, now,
                       answers, calls, runs>>
     \/ breaker' = TRUE /\ End

\* The stop request, or the end of the server or terminal.
Cancel ==
  /\ pc # "idle" /\ ~cancelled /\ cancelled' = TRUE
  /\ UNCHANGED <<options, pc, todo, pending, batch, recorded, candidates,
                 breaker, status, message, cache, now, answers, calls, runs>>

Tick ==
  /\ now < MaxClock /\ now' = now + 1
  /\ UNCHANGED <<options, pc, todo, pending, batch, recorded, candidates,
                 cancelled, breaker, status, message, cache, answers, calls,
                 runs>>

Execute == Scan \/ ScanEnds \/ Select \/ Call \/ CallsEnd \/ Return \/ Record
           \/ BatchEnds
Next == Start \/ Execute \/ Cancel \/ Tick

Spec == Init /\ [][Next]_vars
FairSpec == Spec /\ WF_vars(Execute)

-----------------------------------------------------------------------------
\* A search says "Finished" only if every group of the frozen window was
\* judged, and one that stopped by itself with the breaker unset has examined
\* every candidate: what the budget, a failing batch or a stop left out makes it
\* partial or cancelled (search.go, Execute and Snapshot).
SearchHonest ==
  pc = "idle" =>
    /\ message = "finished" =>
         \A g \in GroupsOf(window) :
           g \in DOMAIN recorded /\ recorded[g].value # "unknown"
    /\ status = "complete" /\ ~breaker => Cardinality(DOMAIN recorded) = candidates
    /\ cancelled => status = "cancelled"

\* A decision taken from the cache is one the provider made on the same query
\* and the same number of occurrences of that group, less than TTL before
\* (docs/usage.md:31, "occurrence-aware keys").
ReuseSound ==
  \A g \in DOMAIN recorded :
    recorded[g].cached =>
      \E a \in answers :
        /\ a.query = query /\ a.group = g /\ a.count = Count(g)
        /\ a.value = recorded[g].value
        /\ a.at <= recorded[g].at /\ recorded[g].at < a.at + TTL

\* A search ends, whether or not it is stopped, if the provider's calls return.
SearchEnds == pc # "idle" ~> pc = "idle"
=============================================================================

----------------------------- MODULE Collector -----------------------------
(***************************************************************************)
(* The collection of pod logs: kube/live.go (Follow) and kube/kube.go      *)
(* (Snapshot).  Follow discovers streams on every tick and gives each a    *)
(* reader and a slot; the end of a reader comes back over a channel, and   *)
(* the first failure cancels the rest.  Snapshot hands the streams it      *)
(* listed once to its workers.                                             *)
(*                                                                         *)
(* What a reader reads and hands on is LogStream; here it ends, fails or   *)
(* is stopped.  The texts of gaps and the metrics, the paging of the API   *)
(* and the sequential path of one worker are left out.                     *)
(* No name here is one of LogStream's, so that one module can prove about  *)
(* both: over is what the code calls a cancelled context.                  *)
(***************************************************************************)
EXTENDS Integers, Sequences, FiniteSets, SequencesExt

CONSTANTS
  Sources,     \* streams that pods may have
  MaxStreams,  \* readers at a time
  Workers,     \* of a snapshot
  MaxReaders   \* bound on the readers that are started

ASSUME CollectorAssumption ==
  /\ MaxStreams \in Nat \ {0} /\ MaxReaders \in Nat
  /\ IsFiniteSet(Sources) /\ "none" \notin Sources

VARIABLES
  mode,      \* "follow" or "snapshot"
  caller,    \* the caller cancelled
  over,      \* the context of the collection is cancelled
  at,        \* where Follow or Snapshot is
  outcome,   \* what it returns
  listed,    \* the streams that were listed
  active,    \* stream -> its reader (index), for streams that hold a slot
  readers,   \* the readers started
  done,      \* the channel of ended readers' streams
  fatal,     \* the channel of the first failure
  worker,    \* worker of a snapshot -> its stream, or none
  made,      \* stream -> what the snapshot made of it
  first      \* the error that a worker reported first

following == <<active, readers, done, fatal>>
snapshot == <<worker, made, first>>
collectorVars == <<mode, caller, over, at, outcome, listed, active,
                   readers, done, fatal, worker, made, first>>

None == "none"

CollectorInit ==
  /\ mode \in {"follow", "snapshot"}
  /\ caller = FALSE /\ over = FALSE
  /\ at = "list" /\ outcome = None /\ listed = {}
  /\ active = <<>> /\ readers = <<>> /\ done = <<>> /\ fatal = <<>>
  /\ worker = [w \in Workers |-> None]
  /\ made = [s \in Sources |-> "unread"] /\ first = None

CallerCancels ==
  /\ ~caller /\ at # "returned" /\ caller' = TRUE /\ over' = TRUE
  /\ UNCHANGED <<mode, at, outcome, listed, following, snapshot>>

\* list: the streams of the pods at the moment, all pages of them, or an error.
\* Only the failure of the first discovery ends Follow.
List ==
  /\ at \in {"list", "select"} /\ (at = "select" => mode = "follow")
  /\ \/ at' = "listed" /\ listed' \in SUBSET Sources /\ UNCHANGED <<over, outcome>>
     \/ /\ at = "select" /\ UNCHANGED <<at, listed, over, outcome>>
     \/ /\ at = "list" /\ at' = "join" /\ outcome' = "unlisted"
        /\ over' = TRUE /\ UNCHANGED listed
  /\ UNCHANGED <<mode, caller, following, snapshot>>

-----------------------------------------------------------------------------
(* Follow.                                                                 *)

\* The slots after a discovery of listed: a removed stream keeps its slot until
\* its reader has joined.
SlotsFreed(slots) == Restrict(slots, DOMAIN slots \cap listed)

Slots(slots) == slots

\* discover: listed streams without a reader get one while slots are free; the
\* readers of the others are stopped.
Discover ==
  /\ mode = "follow" /\ at = "listed" /\ at' = "select"
  /\ LET new == listed \ DOMAIN active
         room == Min({MaxStreams - Cardinality(DOMAIN active),
                      MaxReaders - Len(readers)})
         kept == [r \in DOMAIN readers |->
           IF \E s \in DOMAIN active \ listed : active[s] = r
           THEN [readers[r] EXCEPT !.stopped = TRUE] ELSE readers[r]]
     IN  \E chosen \in SUBSET new :
           LET order == SetToSeq(chosen)
               given == [i \in DOMAIN order |-> [stream |-> order[i], at |-> "reading",
                                                 stopped |-> FALSE]]
           IN  /\ Cardinality(chosen) = Min({Cardinality(new), room})
               /\ readers' = kept \o given
               /\ active' = Slots([s \in DOMAIN active \cup chosen |->
                    IF s \in chosen
                    THEN Len(readers) + CHOOSE i \in DOMAIN order : order[i] = s
                    ELSE active[s]])
  /\ listed' = {}
  /\ UNCHANGED <<mode, caller, over, outcome, done, fatal, snapshot>>

StoppedAlone(r) == readers[r].stopped

Stopped(r) == over \/ readers[r].stopped

\* A reader returns: because it is stopped, because its container was replaced,
\* or because what it reads is refused, which cancels the collection.
ReaderEnds(r) ==
  /\ readers[r].at = "reading"
  /\ readers' = [readers EXCEPT ![r].at = "ended"]
  /\ \/ UNCHANGED <<fatal, over>>
     \/ /\ ~Stopped(r) /\ over' = TRUE
        /\ fatal' = IF fatal = <<>> THEN <<r>> ELSE fatal
  /\ UNCHANGED <<mode, caller, at, outcome, listed, active, done, snapshot>>

ReportsUnstopped(r) == ~readers[r].stopped

Reports(r) == Len(done) < MaxStreams

\* It reports that its slot is free, or the collection is over.
ReaderJoins(r) ==
  /\ readers[r].at = "ended"
  /\ readers' = [readers EXCEPT ![r].at = "joined", ![r].stopped = TRUE]
  /\ \/ Reports(r) /\ done' = Append(done, readers[r].stream)
     \/ over /\ UNCHANGED done
  /\ UNCHANGED <<mode, caller, over, at, outcome, listed, active, fatal, snapshot>>

TakeDone ==
  /\ mode = "follow" /\ at = "select" /\ done # <<>>
  /\ done' = Tail(done)
  /\ active' = Restrict(active, DOMAIN active \ {Head(done)})
  /\ UNCHANGED <<mode, caller, over, at, outcome, listed, readers, fatal, snapshot>>

ResultCancelled == "cancelled"

Result == IF fatal # <<>> THEN "failed" ELSE "cancelled"

FollowLeaves ==
  /\ mode = "follow" /\ at = "select" /\ over
  /\ at' = "join" /\ outcome' = Result
  /\ UNCHANGED <<mode, caller, over, listed, following, snapshot>>

-----------------------------------------------------------------------------
(* Snapshot.                                                               *)

\* A stream is handed to a worker; after a cancellation the select may still
\* choose to, and the worker then skips it.
Dispatch ==
  /\ mode = "snapshot" /\ at = "listed"
  /\ \E w \in Workers, s \in listed :
       /\ worker[w] = None /\ made[s] = "unread"
       /\ IF over THEN made' = [made EXCEPT ![s] = "skipped"] /\ UNCHANGED worker
          ELSE made' = [made EXCEPT ![s] = "reading"] /\ worker' = [worker EXCEPT ![w] = s]
  /\ UNCHANGED <<mode, caller, over, at, outcome, listed, following, first>>

\* once.Do
Once(err) == IF first = None THEN err ELSE first

\* snapshotStream: the log, a gap in its place, or an error, which is the
\* consumer's or the cancellation's.
StreamEnds(w) ==
  /\ worker[w] # None /\ worker' = [worker EXCEPT ![w] = None]
  /\ \E end \in {"read", "gap", "failed"} \cup (IF over THEN {"cancelled"} ELSE {}) :
       /\ made' = [made EXCEPT ![worker[w]] = end]
       /\ IF end \in {"failed", "cancelled"}
          THEN first' = Once(end) /\ over' = TRUE
          ELSE UNCHANGED <<first, over>>
  /\ UNCHANGED <<mode, caller, at, outcome, listed, following>>

\* All streams are dispatched, or a cancellation ends it; the workers are joined.
Dispatched ==
  /\ mode = "snapshot" /\ at = "listed" /\ at' = "join"
  /\ over \/ \A s \in listed : made[s] # "unread"
  /\ UNCHANGED <<mode, caller, over, outcome, listed, following, snapshot>>

Outcome == IF first = None /\ over THEN "cancelled" ELSE first

Joined ==
  /\ at = "join"
  /\ \A r \in DOMAIN readers : readers[r].at = "joined"
  /\ \A w \in Workers : worker[w] = None
  /\ at' = "returned"
  /\ outcome' = IF mode = "snapshot" /\ outcome = None THEN Outcome ELSE outcome
  /\ UNCHANGED <<mode, caller, over, listed, following, snapshot>>

CollectorNext ==
  \/ CallerCancels \/ List \/ Discover \/ TakeDone \/ FollowLeaves
  \/ \E r \in DOMAIN readers : ReaderEnds(r) \/ ReaderJoins(r)
  \/ Dispatch \/ Dispatched \/ Joined
  \/ \E w \in Workers : StreamEnds(w)

CollectorSpec == CollectorInit /\ [][CollectorNext]_collectorVars

\* Calls to the API are bounded in time; a reader that is stopped returns; every
\* ready case of the select is chosen some time.
CollectorFairSpec ==
  /\ CollectorSpec
  /\ WF_collectorVars(at = "list" /\ List) /\ WF_collectorVars(Discover)
  /\ SF_collectorVars(TakeDone) /\ SF_collectorVars(FollowLeaves)
  /\ WF_collectorVars(Joined)
  /\ WF_collectorVars(Dispatch \/ Dispatched)
  /\ \A w \in Workers : WF_collectorVars(StreamEnds(w))
  /\ \A r \in 1..MaxReaders :
       /\ WF_collectorVars(r \in DOMAIN readers /\ Stopped(r) /\ ReaderEnds(r))
       /\ WF_collectorVars(r \in DOMAIN readers /\ ReaderJoins(r))

-----------------------------------------------------------------------------
\* However streams vanish and come back, at most MaxStreams readers are at work,
\* no two on one stream, and every slot has its reader or the word that it ended
\* on the way (live.go: keep the slot until the reader has actually joined).
SlotsKept ==
  LET going == {r \in DOMAIN readers : readers[r].at # "joined"}
  IN  /\ Cardinality(going) <= MaxStreams
      /\ \A r, q \in going : readers[r].stream = readers[q].stream => r = q
      /\ \A r \in going : at \in {"list", "listed", "select"} =>
           readers[r].stream \in DOMAIN active /\ active[readers[r].stream] = r
      /\ \A s \in DOMAIN active : \/ active[s] \in going
                                  \/ over
                                  \/ \E i \in DOMAIN done : done[i] = s

\* The failure that ended a collection is what it returns, unless its caller had
\* given up as well; a collection nobody cancelled and nothing failed in reports
\* that only when each of its streams was read or its gap was told.
EndTold ==
  at = "returned" /\ outcome # "unlisted" =>
    /\ (\E s \in Sources : made[s] = "failed") /\ ~caller => outcome = "failed"
    /\ mode = "follow" => (IF caller THEN outcome # None ELSE outcome = "failed")
    /\ outcome = None => \A s \in listed : made[s] \in {"read", "gap"}

\* A cancelled collection returns, with everything joined, a snapshot always
\* returns, and the slot of a stopped reader becomes free.
CollectEnds ==
  /\ (over \/ mode = "snapshot") ~> at = "returned"
  /\ \A r \in 1..MaxReaders :
       (r \in DOMAIN readers /\ readers[r].stopped)
         ~> (over \/ \A s \in DOMAIN active : active[s] # r)
=============================================================================

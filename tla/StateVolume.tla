---------------------------- MODULE StateVolume ----------------------------
(***************************************************************************)
(* Preparation of the state volume (controller/volume.go), before the      *)
(* controller of the same pod starts: files of an older release in the     *)
(* root of the volume are moved one by one into a staging directory, which *)
(* one rename then publishes.  A preparation can be killed or fail at any  *)
(* step, and the machine can go down with renames that were not synced.    *)
(*                                                                         *)
(* Names stand for files; owners, modes and links, which only make a       *)
(* preparation fail, and the contents are left out.  .prepare.lock admits  *)
(* one preparation at a time.  As volume.go requires, whoever used the old *)
(* files (user) changes none of them while a preparation goes on; it may   *)
(* still hold their lock.                                                  *)
(***************************************************************************)
EXTENDS Integers, Sequences, FiniteSets, SequencesExt

volumeFiles == <<"state.db.lock", "state.db-journal", "state.db-wal",
                 "state.db-shm", "state.db">>
File == Range(volumeFiles)

\* A file of the root when the volume was first prepared, or of private then.
Copy == {"old", "own"} \X File

VARIABLES
  mem,     \* the volume as processes see it: the directories that the names
           \* private and stage denote, and the directory of each file
  disk,    \* what of it was synced
  user,    \* the lock of the old files is held
  prep,    \* the preparation: where it is, what it listed
  ready,   \* the preparation of the present pod succeeded
  control, \* the controller: "down", "opening" or "running"
  refused  \* the layout on which a preparation gave up, or none  (history)

vars == <<mem, disk, user, prep, ready, control, refused>>

Idle == [at |-> "idle", legacy |-> {}]
NoLayout == [private |-> "none", stage |-> "none", file |-> <<>>]

In(v, dir) == {c \in Copy : v.file[c] = dir}
Names(v, dir) == {c[2] : c \in In(v, dir)}

\* Any old files, any own files if private is there, or a fresh volume.
Init ==
  /\ \E old, own \in SUBSET File, private \in {"none", "p"} :
       /\ private = "none" => own = {}
       /\ mem = [private |-> private, stage |-> "none",
                 file |-> [c \in Copy |->
                   CASE c[1] = "old" /\ c[2] \in old -> "root"
                     [] c[1] = "own" /\ c[2] \in own -> "p"
                     [] OTHER -> "none"]]
       /\ user \in {b \in BOOLEAN : b => "state.db.lock" \in old}
  /\ disk = mem /\ prep = Idle /\ ready = FALSE /\ control = "down"
  /\ refused = NoLayout

\* The user of the old files ends.
UserEnds ==
  /\ user /\ user' = FALSE
  /\ UNCHANGED <<mem, disk, prep, ready, control, refused>>

-----------------------------------------------------------------------------
(* prepareVolume.                                                          *)

\* A new pod prepares its volume.
Begin ==
  /\ prep.at = "idle"
  /\ prep' = [Idle EXCEPT !.at = "look"] /\ ready' = FALSE
  /\ UNCHANGED <<mem, disk, user, control, refused>>

StageForgotten == FALSE

\* An interrupted migration is for the operator.
Interrupted == mem.stage # "none"

\* Both places hold files, or files without their database.
Conflict ==
  LET legacy == Names(mem, "root")
      entries == IF mem.private = "none" THEN {} ELSE Names(mem, mem.private)
  IN  \/ entries # {} /\ legacy # {}
      \/ legacy \cup entries # {} /\ "state.db" \notin legacy \cup entries

Look ==
  /\ prep.at = "look"
  /\ IF Interrupted \/ Conflict
     THEN prep' = Idle /\ refused' = mem
     ELSE /\ prep' = [prep EXCEPT
               !.legacy = Names(mem, "root"),
               !.at = IF Names(mem, "root") # {} THEN "lock"
                      ELSE IF mem.private = "none" THEN "make" ELSE "normalize"]
          /\ UNCHANGED refused
  /\ UNCHANGED <<mem, disk, user, ready, control>>

MakePrivate ==
  /\ prep.at = "make" /\ prep' = [prep EXCEPT !.at = "sync"]
  /\ mem' = [mem EXCEPT !.private = "p"]
  /\ UNCHANGED <<disk, user, ready, control, refused>>

\* The lock of an origin's files, created if it is missing.
WithLock(v, origin, dir) ==
  IF "state.db.lock" \in Names(v, dir) THEN v
  ELSE [v EXCEPT !.file[<<origin, "state.db.lock">>] = dir]

\* The origin of the files in private.
Published == IF mem.private = "s" THEN "old" ELSE "own"

\* normalizeVolumeState; a running controller holds the lock.
Normalize ==
  /\ prep.at = "normalize"
  /\ IF Names(mem, mem.private) = {} THEN
       prep' = [prep EXCEPT !.at = "sync"] /\ UNCHANGED mem
     ELSE
       /\ mem' = WithLock(mem, Published, mem.private)
       /\ prep' = IF control = "running" THEN Idle ELSE [prep EXCEPT !.at = "sync"]
  /\ UNCHANGED <<disk, user, ready, control, refused>>

TakeLock ==
  /\ prep.at = "lock"
  /\ mem' = WithLock(mem, "old", "root")
  /\ prep' = IF user THEN Idle
             ELSE [prep EXCEPT !.at = "stage",
                               !.legacy = @ \cup {"state.db.lock"}]
  /\ UNCHANGED <<disk, user, ready, control, refused>>

MakeStage ==
  /\ prep.at = "stage" /\ prep' = [prep EXCEPT !.at = "moved"]
  /\ mem' = [mem EXCEPT !.stage = "s"]
  /\ UNCHANGED <<disk, user, ready, control, refused>>

LeftUnlogged ==
  {i \in DOMAIN volumeFiles : LET f == volumeFiles[i] IN
     /\ f \notin {"state.db-wal", "state.db-shm"}
     /\ f \in prep.legacy /\ mem.file[<<"old", f>>] = "root"}

\* The places in volumeFiles of the files still to move.
Left ==
  {i \in DOMAIN volumeFiles : LET f == volumeFiles[i] IN
     f \in prep.legacy /\ mem.file[<<"old", f>>] = "root"}

\* Both directories are synced before the next file is moved.
SyncMove ==
  /\ prep.at = "moved"
  /\ disk' = mem
  /\ prep' = [prep EXCEPT !.at = IF Left = {} THEN "publish" ELSE "move"]
  /\ UNCHANGED <<mem, user, ready, control, refused>>

Move ==
  /\ prep.at = "move"
  /\ mem' = [mem EXCEPT !.file[<<"old", volumeFiles[Min(Left)]>>] = "s"]
  /\ prep' = [prep EXCEPT !.at = "moved"]
  /\ UNCHANGED <<disk, user, ready, control, refused>>

PublishUnsynced == "done"

\* The root is synced after the rename that publishes.
AfterPublish == "sync"

\* The rename replaces an empty private and no other.
Publish ==
  /\ prep.at = "publish"
  /\ IF mem.private # "none" /\ In(mem, mem.private) # {} THEN
       prep' = Idle /\ UNCHANGED mem
     ELSE
       /\ mem' = [mem EXCEPT !.private = "s", !.stage = "none"]
       /\ prep' = [prep EXCEPT !.at = AfterPublish]
  /\ UNCHANGED <<disk, user, ready, control, refused>>

Sync ==
  /\ prep.at = "sync" /\ disk' = mem
  /\ prep' = [prep EXCEPT !.at = "done"]
  /\ UNCHANGED <<mem, user, ready, control, refused>>

Succeed ==
  /\ prep.at = "done" /\ prep' = Idle /\ ready' = TRUE
  /\ UNCHANGED <<mem, disk, user, control, refused>>

\* A call fails or the preparation is killed.
Fail ==
  /\ prep.at # "idle" /\ prep' = Idle
  /\ refused' = IF mem.stage # "none" THEN mem ELSE refused
  /\ UNCHANGED <<mem, disk, user, ready, control>>

-----------------------------------------------------------------------------
(* The controller (store.go: Open), which sees private only, and SQLite.   *)

\* Adds or removes a file beside the database; SQLite syncs what it does.
Own(names) ==
  LET as(v) == [v EXCEPT !.file = [c \in Copy |->
        IF c[1] # Published THEN v.file[c]
        ELSE IF c[2] \in names THEN v.private ELSE "none"]]
  IN  mem' = as(mem) /\ disk' = as(disk)

\* openPrivate creates the database, and then the lock, which is taken.
Open ==
  /\ ready /\ control = "down" /\ control' = "opening"
  /\ Own(Names(mem, mem.private) \cup {"state.db"})
  /\ UNCHANGED <<user, prep, ready, refused>>

OpenLock ==
  /\ control = "opening" /\ control' = "running"
  /\ Own(Names(mem, mem.private) \cup {"state.db.lock"})
  /\ UNCHANGED <<user, prep, ready, refused>>

\* A transaction begins, or ends; recovery leaves neither log nor memory.
Transaction ==
  /\ control = "running"
  /\ \E names \in {{}, {"state.db-journal"}} :
       Own({"state.db", "state.db.lock"} \cup names)
  /\ UNCHANGED <<user, prep, ready, control, refused>>

ControlEnds ==
  /\ control # "down" /\ control' = "down"
  /\ UNCHANGED <<mem, disk, user, prep, ready, refused>>

\* The machine goes down: of the changes that were not synced each may be lost.
\* A rename is lost or kept as a whole.
Reset ==
  /\ \E names \in {mem, disk}, m \in SUBSET {c \in Copy : mem.file[c] # disk.file[c]} :
       mem' = [private |-> names.private, stage |-> names.stage,
               file |-> [c \in Copy |-> IF c \in m THEN mem.file[c] ELSE disk.file[c]]]
  /\ disk' = mem' /\ user' = FALSE /\ prep' = Idle /\ ready' = FALSE
  /\ control' = "down"
  /\ refused' = CASE mem'.stage # "none" -> mem'
                  [] mem'.stage = "none" /\ refused = mem' -> refused
                  [] OTHER -> NoLayout

Preparation ==
  \/ Begin \/ Look \/ MakePrivate \/ Normalize \/ TakeLock \/ MakeStage
  \/ SyncMove \/ Move \/ Publish \/ Sync \/ Succeed \/ Fail

Next ==
  \/ Preparation \/ UserEnds \/ Reset
  \/ Open \/ OpenLock \/ Transaction \/ ControlEnds

Spec == Init /\ [][Next]_vars

-----------------------------------------------------------------------------
\* Whenever a controller may start or runs, every file of the database, moved or
\* its own, is in the directory it is given, and nothing is left elsewhere: it
\* never recovers a database without its journal or log, and never begins an
\* empty one beside an old one (volume.go: keep recovery files together).
NeverSplit ==
  ready \/ control # "down" =>
    /\ mem.private # "none" /\ mem.stage = "none"
    /\ \A c \in Copy : mem.file[c] \in {"none", mem.private}

\* Once a preparation succeeded, the machine may go down at any moment without
\* undoing it.
ReadySurvives == ready => disk = mem

\* A layout on which a preparation gave up, interrupted or in conflict, is kept
\* as it was for the operator by every later preparation (volume.go: never guess
\* whether split artifacts belong together).
RefusedKept == refused # NoLayout => mem = refused
=============================================================================

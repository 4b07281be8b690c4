-------------------------- MODULE StateVolume_proofs --------------------------
(***************************************************************************)
(* Proofs about StateVolume.  The model has no constants; what TLC visits  *)
(* is proved here from an invariant that says, for every point of a        *)
(* preparation, which layouts processes see and which ones a machine that  *)
(* goes down at that point can leave.                                      *)
(***************************************************************************)
EXTENDS StateVolume, TLAPS

-----------------------------------------------------------------------------
\* Layouts.

Old(v, f) == v.file[<<"old", f>>]
OwnOf(v, f) == v.file[<<"own", f>>]

NoOwn(v) == \A f \in File : OwnOf(v, f) = "none"
RootEmpty(v) == \A f \in File : Old(v, f) # "root"

\* Nothing of a migration is there: old files in the root, own files in private.
Before(v) ==
  /\ v.stage = "none" /\ v.private \in {"none", "p"}
  /\ \A f \in File : Old(v, f) \in {"root", "none"} /\ OwnOf(v, f) \in {"none", v.private}

\* Between the making of the staging directory and the rename that publishes it.
Staged(v) ==
  /\ v.stage = "s" /\ v.private \in {"none", "p"} /\ NoOwn(v)
  /\ \A f \in File : Old(v, f) \in {"root", "s", "none"}

\* Published: every file is in the directory that was the staging one.
After(v) ==
  /\ v.stage = "none" /\ v.private = "s" /\ NoOwn(v)
  /\ \A f \in File : Old(v, f) \in {"s", "none"}

Settled(v) ==
  /\ v.private # "none" /\ v.stage = "none"
  /\ \A c \in Copy : v.file[c] \in {"none", v.private}

\* Private is empty or has its database.
Sound(v) == Names(v, v.private) = {} \/ "state.db" \in Names(v, v.private)

-----------------------------------------------------------------------------
\* The invariant.

Layout == [private : {"none", "p", "s"}, stage : {"none", "s"},
           file : [Copy -> {"none", "root", "p", "s"}]]

\* What was synced is behind what processes see by one step of a migration, or by
\* files and directories that were only added.
SyncInv ==
  /\ mem \in Layout /\ disk \in Layout
  /\ \/ /\ Before(mem) /\ Before(disk)
        /\ \A f \in File : OwnOf(disk, f) \in {"none", OwnOf(mem, f)}
        /\ mem.private # disk.private => NoOwn(mem)
     \/ /\ Staged(mem) /\ \A f \in File : Old(mem, f) # "s"
        /\ Before(disk) /\ NoOwn(disk)
     \/ Staged(mem) /\ Staged(disk)
     \/ After(mem) /\ Staged(disk) /\ RootEmpty(disk)
     \/ After(mem) /\ After(disk)

\* What holds at each point of a preparation.
PrepInv ==
  /\ prep \in [at : {"idle", "look", "make", "normalize", "lock", "stage", "moved",
                    "move", "publish", "sync", "done"},
               legacy : SUBSET File]
  /\ prep.at = "make" => Before(mem) /\ mem.private = "none" /\ RootEmpty(mem)
  /\ prep.at \in {"normalize", "sync", "done"} => Settled(mem) /\ Sound(mem)
  /\ prep.at \in {"lock", "stage"} =>
       Before(mem) /\ NoOwn(mem) /\ Old(mem, "state.db") = "root"
  /\ prep.at \in {"moved", "move", "publish"} =>
       Staged(mem) /\ Old(mem, "state.db") \in {"root", "s"}
  /\ prep.at \in {"lock", "stage", "moved", "move", "publish"} =>
       \A f \in File : Old(mem, f) = "root" => f \in prep.legacy
  /\ prep.at = "move" => Left # {}
  /\ prep.at = "publish" => RootEmpty(mem)
  /\ prep.at \in {"move", "publish", "done"} => disk = mem

\* What a controller may count on.
ControlInv ==
  /\ ready \in BOOLEAN /\ control \in {"down", "opening", "running"}
  /\ ready => prep.at = "idle" /\ Settled(mem) /\ Sound(mem) /\ disk = mem
  /\ control # "down" =>
       Settled(mem) /\ "state.db" \in Names(mem, mem.private)
       /\ disk.private = mem.private

\* A layout that was refused is refused again and nobody works on it.
RefusedInv ==
  refused # NoLayout =>
    /\ mem = refused /\ (Interrupted \/ Conflict)
    /\ prep.at \in {"idle", "look"} /\ ~ready /\ control = "down"

VolumeInv == SyncInv /\ PrepInv /\ ControlInv /\ RefusedInv

-----------------------------------------------------------------------------
\* Facts about files and layouts.

LEMMA FileFacts ==
  /\ "state.db" \in File /\ "state.db.lock" \in File
  /\ \A f \in File : \E i \in DOMAIN volumeFiles : f = volumeFiles[i]
  /\ \A i \in DOMAIN volumeFiles : volumeFiles[i] \in File
<1>1. DOMAIN volumeFiles = 1..5
  BY DEF volumeFiles
<1>2. volumeFiles[1] = "state.db.lock" /\ volumeFiles[5] = "state.db"
  BY DEF volumeFiles
<1>3. File = {volumeFiles[i] : i \in DOMAIN volumeFiles}
  BY DEF File, Range
<1> QED BY <1>1, <1>2, <1>3

LEMMA CopyFacts ==
  /\ \A f \in File : <<"old", f>> \in Copy /\ <<"own", f>> \in Copy
  /\ \A c \in Copy : \E f \in File : c = <<"old", f>> \/ c = <<"own", f>>
BY DEF Copy

\* A layout with one file made, moved or removed.
Filing(v, c, d) == [v EXCEPT !.file[c] = d]

LEMMA Filed ==
  ASSUME NEW v, v \in Layout, NEW c, c \in Copy,
         NEW d, d \in {"none", "root", "p", "s"}
  PROVE  /\ Filing(v, c, d) \in Layout
         /\ Filing(v, c, d).private = v.private /\ Filing(v, c, d).stage = v.stage
         /\ \A x \in Copy : Filing(v, c, d).file[x] = IF x = c THEN d ELSE v.file[x]
<1> DEFINE w == Filing(v, c, d)
<1>1. v.file \in [Copy -> {"none", "root", "p", "s"}]
  BY DEF Layout
<1>2. /\ w.private = v.private /\ w.stage = v.stage
      /\ w.file = [v.file EXCEPT ![c] = d]
  BY DEF Layout, Filing
<1>3. w.file \in [Copy -> {"none", "root", "p", "s"}]
  BY <1>1, <1>2
<1>4. w \in Layout
  BY <1>3 DEF Layout, Filing
<1>5. \A x \in Copy : w.file[x] = IF x = c THEN d ELSE v.file[x]
  BY <1>1, <1>2
<1> HIDE DEF w
<1> QED BY <1>2, <1>4, <1>5 DEF w

LEMMA NamesOf ==
  ASSUME NEW v, NEW dir
  PROVE  /\ Names(v, dir) = {f \in File : Old(v, f) = dir \/ OwnOf(v, f) = dir}
         /\ In(v, dir) = {} <=> Names(v, dir) = {}
<1>1. \A c \in Copy : c[2] \in File
  BY DEF Copy
<1>2. \A f \in File : <<"old", f>>[2] = f /\ <<"own", f>>[2] = f
  OBVIOUS
<1>3. ASSUME NEW f \in Names(v, dir)
      PROVE  f \in File /\ (Old(v, f) = dir \/ OwnOf(v, f) = dir)
  BY <1>1, <1>2, <1>3, CopyFacts DEF Names, In, Old, OwnOf
<1>4. ASSUME NEW f \in File, Old(v, f) = dir \/ OwnOf(v, f) = dir
      PROVE  f \in Names(v, dir)
  BY <1>2, <1>4, CopyFacts DEF Names, In, Old, OwnOf
<1>5. Names(v, dir) = {f \in File : Old(v, f) = dir \/ OwnOf(v, f) = dir}
  BY <1>3, <1>4
<1>6. In(v, dir) = {} <=> Names(v, dir) = {}
  BY DEF Names
<1> QED BY <1>5, <1>6

LEMMA SettledParts ==
  ASSUME NEW v
  PROVE  Settled(v) <=>
           /\ v.private # "none" /\ v.stage = "none"
           /\ \A f \in File : /\ Old(v, f) \in {"none", v.private}
                              /\ OwnOf(v, f) \in {"none", v.private}
BY CopyFacts DEF Settled, Old, OwnOf

\* A settled layout is from before any migration or from after one.
LEMMA SettledCases ==
  ASSUME NEW v, Settled(v), Before(v) \/ Staged(v) \/ After(v)
  PROVE  \/ Before(v) /\ v.private = "p" /\ \A f \in File : Old(v, f) = "none"
         \/ After(v)
<1>1. CASE Before(v)
  BY <1>1, SettledParts DEF Before
<1>2. CASE Staged(v)
  BY <1>2, SettledParts DEF Staged
<1> QED BY <1>1, <1>2

\* The lock that a preparation finds or makes.
LEMMA Locked ==
  ASSUME NEW v \in Layout, NEW o \in {"old", "own"}, NEW d \in {"root", "p", "s"},
         NEW w, w = WithLock(v, o, d)
  PROVE  /\ w \in Layout /\ w.private = v.private /\ w.stage = v.stage
         /\ \A g \in File : \/ Old(w, g) = Old(v, g)
                            \/ o = "old" /\ g = "state.db.lock" /\ Old(w, g) = d
         /\ \A g \in File : \/ OwnOf(w, g) = OwnOf(v, g)
                            \/ o = "own" /\ g = "state.db.lock" /\ OwnOf(w, g) = d
<1>1. CASE "state.db.lock" \in Names(v, d)
  BY <1>1 DEF WithLock
<1>2. CASE "state.db.lock" \notin Names(v, d)
  <2> DEFINE c == <<o, "state.db.lock">>
  <2>1. w = Filing(v, c, d)
    BY <1>2 DEF WithLock, Filing
  <2>2. c \in Copy /\ d \in {"none", "root", "p", "s"}
    BY FileFacts DEF Copy
  <2> HIDE DEF c
  <2>3. /\ w \in Layout /\ w.private = v.private /\ w.stage = v.stage
        /\ \A x \in Copy : w.file[x] = IF x = c THEN d ELSE v.file[x]
    BY <2>1, <2>2, Filed
  <2>4. \A g \in File : \/ Old(w, g) = Old(v, g)
                        \/ o = "old" /\ g = "state.db.lock" /\ Old(w, g) = d
    BY <2>3, CopyFacts DEF Old, c
  <2>5. \A g \in File : \/ OwnOf(w, g) = OwnOf(v, g)
                        \/ o = "own" /\ g = "state.db.lock" /\ OwnOf(w, g) = d
    BY <2>3, CopyFacts DEF OwnOf, c
  <2> QED BY <2>3, <2>4, <2>5
<1> QED BY <1>1, <1>2

-----------------------------------------------------------------------------
\* The steps of a preparation.

\* A step that changes no layout and lets nobody start.
LEMMA Quiet ==
  ASSUME VolumeInv, UNCHANGED <<mem, disk>>,
         UNCHANGED ready \/ ready' = FALSE, UNCHANGED control \/ control' = "down"
  PROVE  SyncInv' /\ (ready = FALSE => ControlInv')
<1>1. SyncInv'
  BY DEF VolumeInv, SyncInv, Before, Staged, After, NoOwn, RootEmpty, Old, OwnOf
<1>2. ready = FALSE => ControlInv'
  BY DEF VolumeInv, ControlInv, Settled, Names, In
<1> QED BY <1>1, <1>2

\* While a preparation is on its way nothing was refused and nobody was told to
\* start.
LEMMA Underway ==
  ASSUME VolumeInv, prep.at \notin {"idle", "look"}
  PROVE  refused = NoLayout /\ ready = FALSE
BY DEF VolumeInv, RefusedInv, ControlInv

\* With a file in the root or a staging directory no controller is running.
LEMMA Alone ==
  ASSUME VolumeInv, mem.stage # "none" \/ \E f \in File : Old(mem, f) = "root"
  PROVE  control = "down" /\ ready = FALSE
<1>1. ~Settled(mem)
  BY SettledParts DEF VolumeInv, SyncInv, Layout
<1> QED BY <1>1 DEF VolumeInv, ControlInv

LEMMA Beginning == ASSUME VolumeInv, Begin PROVE VolumeInv'
<1>1. SyncInv' /\ ControlInv'
  <2>1. SyncInv'
    BY Quiet DEF Begin
  <2>2. ControlInv'
    BY DEF Begin, VolumeInv, ControlInv, Settled, Names, In
  <2> QED BY <2>1, <2>2
<1>2. prep' \in [at : {"look"}, legacy : SUBSET File]
  BY DEF Begin, Idle
<1>3. PrepInv'
  BY <1>2 DEF PrepInv
<1>4. RefusedInv'
  BY <1>2 DEF Begin, VolumeInv, RefusedInv, Interrupted, Conflict, Names, In
<1> QED BY <1>1, <1>3, <1>4 DEF VolumeInv

\* What Look lets pass.
LEMMA Passed ==
  ASSUME VolumeInv, ~Interrupted, ~Conflict
  PROVE  /\ Before(mem) \/ After(mem)
         /\ Names(mem, "root") # {} =>
              Before(mem) /\ NoOwn(mem) /\ Old(mem, "state.db") = "root"
         /\ Names(mem, "root") = {} => RootEmpty(mem)
         /\ Names(mem, "root") = {} /\ mem.private # "none" => Settled(mem) /\ Sound(mem)
<1>1. Before(mem) \/ After(mem)
  BY DEF VolumeInv, SyncInv, Interrupted, Staged
<1>2. Names(mem, "root") = {f \in File : Old(mem, f) = "root" \/ OwnOf(mem, f) = "root"}
  BY NamesOf
<1>3. Names(mem, mem.private)
        = {f \in File : Old(mem, f) = mem.private \/ OwnOf(mem, f) = mem.private}
  BY NamesOf
<1>4. \A f \in File : OwnOf(mem, f) # "root"
  BY <1>1 DEF Before, After, NoOwn
<1>5. ASSUME Names(mem, "root") # {}
      PROVE  Before(mem) /\ NoOwn(mem) /\ Old(mem, "state.db") = "root"
  <2>1. Before(mem)
    BY <1>1, <1>2, <1>4, <1>5 DEF After
  <2>2. mem.private = "none" \/ Names(mem, mem.private) = {}
    BY <1>5 DEF Conflict
  <2>3. NoOwn(mem)
    BY <1>3, <2>1, <2>2 DEF Before, NoOwn
  <2>4. "state.db" \in Names(mem, "root")
    BY <1>5, <2>2 DEF Conflict
  <2> QED BY <1>2, <1>4, <2>1, <2>3, <2>4
<1>6. Names(mem, "root") = {} => RootEmpty(mem)
  BY <1>2 DEF RootEmpty
<1>7. ASSUME Names(mem, "root") = {}, mem.private # "none"
      PROVE  Settled(mem) /\ Sound(mem)
  <2>1. Settled(mem)
    <3>1. CASE Before(mem)
      BY <1>6, <1>7, <3>1, SettledParts DEF Before, RootEmpty
    <3>2. CASE After(mem)
      BY <3>2, SettledParts DEF After, NoOwn
    <3> QED BY <1>1, <3>1, <3>2
  <2>2. Sound(mem)
    BY <1>7 DEF Conflict, Sound
  <2> QED BY <2>1, <2>2
<1> QED BY <1>1, <1>5, <1>6, <1>7

LEMMA Looking == ASSUME VolumeInv, Look PROVE VolumeInv'
<1>1. UNCHANGED <<mem, disk, ready, control>> /\ prep.at = "look"
  BY DEF Look
<1>2. ready = FALSE
  BY <1>1 DEF VolumeInv, ControlInv
<1>3. SyncInv' /\ ControlInv'
  BY <1>1, <1>2, Quiet
<1>4. CASE Interrupted \/ Conflict
  <2>1. prep' = Idle /\ refused' = mem
    BY <1>4 DEF Look
  <2>2. PrepInv'
    BY <2>1 DEF PrepInv, Idle
  <2>3. control = "down"
    <3> SUFFICES ASSUME control # "down" PROVE FALSE
      BY DEF VolumeInv, ControlInv
    <3>1. Settled(mem) /\ "state.db" \in Names(mem, mem.private)
      BY DEF VolumeInv, ControlInv
    <3>2. Names(mem, "root") = {}
      BY <3>1, NamesOf, SettledParts DEF VolumeInv, SyncInv, Layout
    <3> QED BY <1>4, <3>1, <3>2 DEF Settled, Interrupted, Conflict
  <2>4. (Interrupted \/ Conflict)'
    BY <1>1, <1>4 DEF Interrupted, Conflict, Names, In
  <2>5. RefusedInv'
    BY <1>1, <1>2, <2>1, <2>3, <2>4 DEF RefusedInv, Idle
  <2> QED BY <1>3, <2>2, <2>5 DEF VolumeInv
<1>5. CASE ~Interrupted /\ ~Conflict
  <2>1. /\ prep'.legacy = Names(mem, "root") /\ refused' = refused
        /\ prep'.at = IF Names(mem, "root") # {} THEN "lock"
                      ELSE IF mem.private = "none" THEN "make" ELSE "normalize"
        /\ prep' \in [at : {"lock", "make", "normalize"}, legacy : SUBSET File]
    <3>1. prep' = [prep EXCEPT
               !.legacy = Names(mem, "root"),
               !.at = IF Names(mem, "root") # {} THEN "lock"
                      ELSE IF mem.private = "none" THEN "make" ELSE "normalize"]
      BY <1>5 DEF Look
    <3>2. Names(mem, "root") \subseteq File
      BY NamesOf
    <3> QED BY <1>5, <3>1, <3>2 DEF Look, VolumeInv, PrepInv
  <2>2. refused = NoLayout
    BY <1>5 DEF VolumeInv, RefusedInv
  <2>3. \A f \in File : Old(mem, f) = "root" => f \in Names(mem, "root")
    BY NamesOf
  <2>4. Names(mem, "root") = {} /\ mem.private = "none" => Before(mem) /\ RootEmpty(mem)
    BY <1>5, Passed DEF After
  <2>5. CASE prep'.at = "lock"
    <3>1. Before(mem)' /\ NoOwn(mem)' /\ Old(mem, "state.db")' = "root"
      BY <1>1, <1>5, <2>1, <2>5, Passed DEF Before, NoOwn, Old, OwnOf
    <3>2. \A f \in File : Old(mem, f)' = "root" => f \in prep'.legacy
      BY <1>1, <2>1, <2>3 DEF Old
    <3> QED BY <1>3, <2>1, <2>2, <2>5, <3>1, <3>2 DEF VolumeInv, PrepInv, RefusedInv
  <2>6. CASE prep'.at = "make"
    <3>2. Before(mem) /\ RootEmpty(mem) /\ mem.private = "none"
      BY <2>1, <2>4, <2>6
    <3>1. Before(mem)' /\ RootEmpty(mem)' /\ mem'.private = "none"
      BY <1>1, <3>2 DEF Before, RootEmpty, Old, OwnOf
    <3> QED BY <1>3, <2>1, <2>2, <2>6, <3>1 DEF VolumeInv, PrepInv, RefusedInv
  <2>7. CASE prep'.at = "normalize"
    <3>1. Settled(mem)' /\ Sound(mem)'
      BY <1>1, <1>5, <2>1, <2>7, Passed DEF Settled, Sound, Names, In
    <3> QED BY <1>3, <2>1, <2>2, <2>7, <3>1 DEF VolumeInv, PrepInv, RefusedInv
  <2> QED BY <2>1, <2>5, <2>6, <2>7
<1> QED BY <1>4, <1>5

LEMMA Making == ASSUME VolumeInv, MakePrivate PROVE VolumeInv'
<1>1. /\ mem \in Layout /\ disk \in Layout /\ Before(mem) /\ mem.private = "none"
      /\ RootEmpty(mem) /\ refused = NoLayout /\ ready = FALSE
  BY Underway DEF MakePrivate, VolumeInv, SyncInv, PrepInv
<1>2. \A f \in File : Old(mem, f) = "none" /\ OwnOf(mem, f) = "none"
  BY <1>1 DEF Before, RootEmpty
<1>3. Before(disk) /\ \A f \in File : OwnOf(disk, f) = "none"
  BY <1>1, <1>2 DEF VolumeInv, SyncInv, Before, Staged, After
<1>4. /\ mem'.private = "p" /\ mem'.stage = mem.stage /\ mem'.file = mem.file
      /\ mem' \in Layout /\ UNCHANGED <<disk, refused, ready, control>>
  BY <1>1 DEF MakePrivate, Layout
<1>5. \A f \in File : Old(mem', f) = "none" /\ OwnOf(mem', f) = "none"
  BY <1>2, <1>4 DEF Old, OwnOf
<1>6. SyncInv'
  <2>1. Before(mem') /\ NoOwn(mem') /\ mem' \in Layout
    BY <1>1, <1>4, <1>5 DEF Before, NoOwn
  <2>2. \A f \in File : OwnOf(disk', f) \in {"none", OwnOf(mem', f)}
    BY <1>3, <1>4
  <2> QED BY <1>1, <1>3, <1>4, <2>1, <2>2 DEF SyncInv
<1>7. Settled(mem') /\ Sound(mem')
  <2>1. Names(mem', "p") = {}
    BY <1>5, NamesOf
  <2> QED BY <1>1, <1>4, <1>5, <2>1, SettledParts DEF Sound, Before
<1>8. prep' \in [at : {"sync"}, legacy : SUBSET File]
  BY DEF MakePrivate, VolumeInv, PrepInv
<1>9. PrepInv'
  BY <1>7, <1>8 DEF PrepInv
<1>10. control = "down"
  BY <1>1 DEF VolumeInv, ControlInv, Settled
<1>11. ControlInv' /\ RefusedInv'
  BY <1>1, <1>4, <1>10 DEF ControlInv, RefusedInv
<1> QED BY <1>6, <1>9, <1>11 DEF VolumeInv

LEMMA Normalizing == ASSUME VolumeInv, Normalize PROVE VolumeInv'
<1>1. /\ mem \in Layout /\ disk \in Layout /\ Settled(mem) /\ Sound(mem)
      /\ refused = NoLayout /\ ready = FALSE
      /\ UNCHANGED <<disk, refused, ready, control>>
  BY Underway DEF Normalize, VolumeInv, SyncInv, PrepInv
<1>2. CASE Names(mem, mem.private) = {}
  <2>1. UNCHANGED mem /\ prep' \in [at : {"sync"}, legacy : SUBSET File]
    BY <1>2 DEF Normalize, VolumeInv, PrepInv
  <2>2. SyncInv' /\ ControlInv'
    BY <1>1, <2>1, Quiet
  <2>3. Settled(mem)' /\ Sound(mem)'
    BY <1>1, <2>1 DEF Settled, Sound, Names, In
  <2>4. PrepInv' /\ RefusedInv'
    BY <1>1, <2>1, <2>3 DEF PrepInv, RefusedInv
  <2> QED BY <2>2, <2>4 DEF VolumeInv
<1>3. CASE Names(mem, mem.private) # {}
  <2> DEFINE d == mem.private
             o == Published
  <2>1. /\ mem' = WithLock(mem, o, d)
        /\ prep' \in [at : {"idle", "sync"}, legacy : SUBSET File]
    BY <1>3 DEF Normalize, VolumeInv, PrepInv, Idle
  <2>2. "state.db" \in Names(mem, d)
    BY <1>1, <1>3 DEF Sound
  <2>3. \/ Before(mem) /\ d = "p" /\ o = "own" /\ \A f \in File : Old(mem, f) = "none"
        \/ After(mem) /\ d = "s" /\ o = "old"
    BY <1>1, SettledCases DEF VolumeInv, SyncInv, Published, After
  <2> HIDE DEF d, o
  <2>4. /\ mem' \in Layout /\ mem'.private = mem.private /\ mem'.stage = mem.stage
        /\ \A g \in File : \/ Old(mem', g) = Old(mem, g)
                           \/ o = "old" /\ g = "state.db.lock" /\ Old(mem', g) = d
        /\ \A g \in File : \/ OwnOf(mem', g) = OwnOf(mem, g)
                           \/ o = "own" /\ g = "state.db.lock" /\ OwnOf(mem', g) = d
    BY <1>1, <2>1, <2>3, Locked
  <2>5. Settled(mem')
    <3>1. d = mem.private
      BY DEF d
    <3> QED BY <1>1, <2>4, <3>1, SettledParts
  <2>6. "state.db" \in Names(mem', mem'.private)
    <3>1. d = mem'.private /\ "state.db" # "state.db.lock"
      BY <2>4 DEF d
    <3> QED BY <2>2, <2>4, <3>1, NamesOf, FileFacts
  <2>7. SyncInv'
    <3>1. CASE Before(mem) /\ d = "p" /\ o = "own" /\ \A f \in File : Old(mem, f) = "none"
      <4>1. \E f \in File : OwnOf(mem, f) # "none"
        BY <2>2, <3>1, NamesOf
      <4>2. mem.private = disk.private /\ Before(disk)
            /\ \A f \in File : OwnOf(disk, f) \in {"none", OwnOf(mem, f)}
        BY <3>1, <4>1 DEF VolumeInv, SyncInv, Before, NoOwn, Staged, After
      <4>3. Before(mem')
        BY <2>4, <3>1 DEF Before, d
      <4>4. \A f \in File : OwnOf(disk, f) \in {"none", OwnOf(mem', f)}
        <5> TAKE f \in File
        <5>1. CASE OwnOf(mem', f) = OwnOf(mem, f)
          BY <4>2, <5>1
        <5>2. CASE OwnOf(mem', f) = d
          BY <4>2, <5>2 DEF Before, d
        <5> QED BY <2>4, <5>1, <5>2
      <4> QED BY <1>1, <2>4, <4>2, <4>3, <4>4 DEF SyncInv
    <3>2. CASE After(mem) /\ d = "s" /\ o = "old"
      <4>1. After(mem')
        BY <2>4, <3>2 DEF After, NoOwn
      <4>2. (Staged(disk) /\ RootEmpty(disk)) \/ After(disk)
        BY <3>2 DEF VolumeInv, SyncInv, Before, Staged, After
      <4> QED BY <1>1, <2>4, <4>1, <4>2 DEF SyncInv
    <3> QED BY <2>3, <3>1, <3>2
  <2>8. PrepInv' /\ RefusedInv'
    BY <1>1, <2>1, <2>5, <2>6 DEF PrepInv, RefusedInv, Sound
  <2>9. ControlInv'
    BY <1>1, <2>4, <2>5, <2>6 DEF VolumeInv, ControlInv
  <2> QED BY <2>7, <2>8, <2>9 DEF VolumeInv
<1> QED BY <1>2, <1>3

LEMMA Locking == ASSUME VolumeInv, TakeLock PROVE VolumeInv'
<1>1. /\ mem \in Layout /\ disk \in Layout /\ Before(mem) /\ NoOwn(mem)
      /\ Old(mem, "state.db") = "root" /\ refused = NoLayout
      /\ \A f \in File : Old(mem, f) = "root" => f \in prep.legacy
      /\ UNCHANGED <<disk, refused, ready, control>>
  BY Underway DEF TakeLock, VolumeInv, SyncInv, PrepInv
<1>2. control = "down" /\ ready = FALSE
  BY <1>1, Alone, FileFacts
<1>3. /\ mem' \in Layout /\ mem'.private = mem.private /\ mem'.stage = mem.stage
      /\ \A g \in File : \/ Old(mem', g) = Old(mem, g)
                         \/ g = "state.db.lock" /\ Old(mem', g) = "root"
      /\ \A g \in File : OwnOf(mem', g) = OwnOf(mem, g)
  <2>1. mem' = WithLock(mem, "old", "root")
    BY DEF TakeLock
  <2> QED BY <1>1, <2>1, Locked
<1>4. Before(mem') /\ NoOwn(mem') /\ Old(mem', "state.db") = "root"
  <2>1. Before(mem')
    BY <1>1, <1>3 DEF Before
  <2>2. NoOwn(mem')
    BY <1>1, <1>3 DEF NoOwn
  <2> QED BY <1>1, <1>3, <2>1, <2>2, FileFacts
<1>5. Before(disk) /\ NoOwn(disk)
  BY <1>1 DEF VolumeInv, SyncInv, Before, NoOwn, Staged, After
<1>6. SyncInv'
  BY <1>1, <1>3, <1>4, <1>5 DEF SyncInv, NoOwn
<1>7. PrepInv'
  <2>1. CASE user
    <3>1. prep' = Idle
      BY <2>1 DEF TakeLock
    <3> QED BY <3>1 DEF PrepInv, Idle
  <2>2. CASE ~user
    <3>1. prep' \in [at : {"stage"}, legacy : SUBSET File]
          /\ prep'.legacy = prep.legacy \cup {"state.db.lock"}
      BY <2>2, FileFacts DEF TakeLock, VolumeInv, PrepInv
    <3>2. \A f \in File : Old(mem', f) = "root" => f \in prep'.legacy
      BY <1>1, <1>3, <3>1
    <3> QED BY <1>4, <3>1, <3>2 DEF PrepInv
  <2> QED BY <2>1, <2>2
<1>8. ControlInv' /\ RefusedInv'
  BY <1>1, <1>2 DEF ControlInv, RefusedInv
<1> QED BY <1>6, <1>7, <1>8 DEF VolumeInv

LEMMA Staging == ASSUME VolumeInv, MakeStage PROVE VolumeInv'
<1>1. /\ mem \in Layout /\ disk \in Layout /\ Before(mem) /\ NoOwn(mem)
      /\ Old(mem, "state.db") = "root" /\ refused = NoLayout
      /\ \A f \in File : Old(mem, f) = "root" => f \in prep.legacy
      /\ UNCHANGED <<disk, refused, ready, control>>
  BY Underway DEF MakeStage, VolumeInv, SyncInv, PrepInv
<1>2. control = "down" /\ ready = FALSE
  BY <1>1, Alone, FileFacts
<1>3. /\ mem' \in Layout /\ mem'.private = mem.private /\ mem'.stage = "s"
      /\ mem'.file = mem.file
  BY <1>1 DEF MakeStage, Layout
<1>4. Staged(mem') /\ \A f \in File : Old(mem', f) # "s"
  BY <1>1, <1>3 DEF Before, Staged, NoOwn, Old, OwnOf
<1>5. Before(disk) /\ NoOwn(disk)
  BY <1>1 DEF VolumeInv, SyncInv, Before, NoOwn, Staged, After
<1>6. prep' \in [at : {"moved"}, legacy : SUBSET File] /\ prep'.legacy = prep.legacy
  BY DEF MakeStage, VolumeInv, PrepInv
<1>7. \A f \in File : Old(mem', f) = Old(mem, f)
  BY <1>3 DEF Old
<1>8. SyncInv' /\ ControlInv' /\ RefusedInv'
  BY <1>1, <1>2, <1>3, <1>4, <1>5 DEF SyncInv, ControlInv, RefusedInv
<1>9. PrepInv'
  BY <1>1, <1>4, <1>6, <1>7, FileFacts DEF PrepInv
<1> QED BY <1>8, <1>9 DEF VolumeInv

LEMMA Syncing == ASSUME VolumeInv, SyncMove PROVE VolumeInv'
<1>1. /\ mem \in Layout /\ Staged(mem) /\ Old(mem, "state.db") \in {"root", "s"}
      /\ \A f \in File : Old(mem, f) = "root" => f \in prep.legacy
      /\ refused = NoLayout /\ ready = FALSE
      /\ disk' = mem /\ UNCHANGED <<mem, refused, ready, control>>
  BY Underway DEF SyncMove, VolumeInv, SyncInv, PrepInv
<1>2. control = "down"
  BY <1>1, Alone DEF Staged
<1>3. Staged(mem)' /\ Staged(disk') /\ Old(mem, "state.db")' \in {"root", "s"}
  BY <1>1 DEF Staged, NoOwn, Old, OwnOf
<1>4. /\ prep' \in [at : {"publish", "move"}, legacy : SUBSET File]
      /\ prep'.legacy = prep.legacy
      /\ prep'.at = "publish" <=> Left = {}
  BY DEF SyncMove, VolumeInv, PrepInv
<1>5. Left' = Left
  BY <1>1, <1>4 DEF Left
<1>6. Left = {} => RootEmpty(mem)
  <2> SUFFICES ASSUME NEW f \in File, Old(mem, f) = "root" PROVE Left # {}
    BY DEF RootEmpty
  <2>1. PICK i \in DOMAIN volumeFiles : f = volumeFiles[i]
    BY FileFacts
  <2>2. i \in Left
    BY <1>1, <2>1 DEF Left, Old
  <2> QED BY <2>2
<1>7. \A f \in File : Old(mem, f)' = "root" => f \in prep'.legacy
  BY <1>1, <1>4 DEF Old
<1>8. prep'.at = "publish" => RootEmpty(mem)'
  BY <1>1, <1>4, <1>6 DEF RootEmpty, Old
<1>9. PrepInv'
  BY <1>1, <1>3, <1>4, <1>5, <1>7, <1>8 DEF PrepInv
<1>10. SyncInv' /\ ControlInv' /\ RefusedInv'
  BY <1>1, <1>2, <1>3 DEF SyncInv, ControlInv, RefusedInv
<1> QED BY <1>9, <1>10 DEF VolumeInv

LEMMA NextLeft == ASSUME Left # {} PROVE Min(Left) \in Left
<1>1. DOMAIN volumeFiles = 1..5
  BY DEF volumeFiles
<1>2. Left \subseteq 1..5
  BY <1>1 DEF Left
<1> HIDE DEF Left
<1>3. \A i \in Left : i = 1 \/ i = 2 \/ i = 3 \/ i = 4 \/ i = 5
  BY <1>2
<1>4. \E x \in Left : \A y \in Left : x =< y
  <2>1. CASE 1 \in Left
    BY <1>3, <2>1
  <2>2. CASE 1 \notin Left /\ 2 \in Left
    BY <1>3, <2>2
  <2>3. CASE 1 \notin Left /\ 2 \notin Left /\ 3 \in Left
    BY <1>3, <2>3
  <2>4. CASE 1 \notin Left /\ 2 \notin Left /\ 3 \notin Left /\ 4 \in Left
    BY <1>3, <2>4
  <2>5. CASE 1 \notin Left /\ 2 \notin Left /\ 3 \notin Left /\ 4 \notin Left
    BY <1>3, <2>5
  <2> QED BY <2>1, <2>2, <2>3, <2>4, <2>5
<1> QED BY <1>4 DEF Min

LEMMA Moving == ASSUME VolumeInv, Move PROVE VolumeInv'
<1>1. /\ mem \in Layout /\ disk \in Layout /\ Staged(mem) /\ disk = mem /\ Left # {}
      /\ Old(mem, "state.db") \in {"root", "s"}
      /\ \A f \in File : Old(mem, f) = "root" => f \in prep.legacy
      /\ refused = NoLayout /\ ready = FALSE
      /\ UNCHANGED <<disk, refused, ready, control>>
  BY Underway DEF Move, VolumeInv, SyncInv, PrepInv
<1>2. control = "down"
  BY <1>1, Alone DEF Staged
<1> DEFINE f == volumeFiles[Min(Left)]
           c == <<"old", f>>
<1>3. f \in File /\ c \in Copy
  BY <1>1, NextLeft, FileFacts DEF Left, Copy
<1>4. mem' = Filing(mem, c, "s") /\ "s" \in {"none", "root", "p", "s"}
  BY DEF Move, Filing
<1> HIDE DEF c
<1>5. /\ mem' \in Layout /\ mem'.private = mem.private /\ mem'.stage = mem.stage
      /\ \A x \in Copy : mem'.file[x] = IF x = c THEN "s" ELSE mem.file[x]
  BY <1>1, <1>3, <1>4, Filed
<1> HIDE DEF f
<1>6. /\ \A g \in File : Old(mem', g) = IF g = f THEN "s" ELSE Old(mem, g)
      /\ \A g \in File : OwnOf(mem', g) = OwnOf(mem, g)
  BY <1>5, CopyFacts DEF Old, OwnOf, c
<1>7. Staged(mem')
  BY <1>1, <1>5, <1>6 DEF Staged, NoOwn
<1>8. prep' \in [at : {"moved"}, legacy : SUBSET File] /\ prep'.legacy = prep.legacy
  BY DEF Move, VolumeInv, PrepInv
<1>9. PrepInv'
  BY <1>1, <1>6, <1>7, <1>8, FileFacts DEF PrepInv
<1>10. SyncInv' /\ ControlInv' /\ RefusedInv'
  BY <1>1, <1>2, <1>5, <1>7 DEF SyncInv, ControlInv, RefusedInv
<1> QED BY <1>9, <1>10 DEF VolumeInv

LEMMA Publishing == ASSUME VolumeInv, Publish PROVE VolumeInv'
<1>1. /\ mem \in Layout /\ disk \in Layout /\ Staged(mem) /\ disk = mem /\ RootEmpty(mem)
      /\ Old(mem, "state.db") \in {"root", "s"}
      /\ refused = NoLayout /\ ready = FALSE
      /\ UNCHANGED <<disk, refused, ready, control>>
  BY Underway DEF Publish, VolumeInv, SyncInv, PrepInv
<1>2. control = "down"
  BY <1>1, Alone DEF Staged
<1>3. mem.private # "none" => In(mem, mem.private) = {}
  BY <1>1, NamesOf DEF Staged, NoOwn
<1>4. /\ mem' = [mem EXCEPT !.private = "s", !.stage = "none"]
      /\ prep' = [prep EXCEPT !.at = "sync"]
  BY <1>3 DEF Publish, AfterPublish
<1>5. /\ mem' \in Layout /\ mem'.private = "s" /\ mem'.stage = "none"
      /\ mem'.file = mem.file
  BY <1>1, <1>4 DEF Layout
<1>6. \A f \in File : Old(mem', f) = Old(mem, f) /\ OwnOf(mem', f) = OwnOf(mem, f)
  BY <1>5 DEF Old, OwnOf
<1>7. After(mem') /\ Settled(mem') /\ Sound(mem')
  <2>1. \A f \in File : Old(mem', f) \in {"s", "none"} /\ OwnOf(mem', f) = "none"
    BY <1>1, <1>6 DEF Staged, RootEmpty, NoOwn
  <2>2. Old(mem', "state.db") = "s"
    BY <1>1, <1>6, FileFacts DEF RootEmpty
  <2>3. "state.db" \in Names(mem', "s")
    BY <2>2, NamesOf, FileFacts
  <2> QED BY <1>5, <2>1, <2>3, SettledParts DEF After, NoOwn, Sound
<1>8. prep' \in [at : {"sync"}, legacy : SUBSET File]
  BY <1>4 DEF VolumeInv, PrepInv
<1>9. PrepInv'
  BY <1>7, <1>8 DEF PrepInv
<1>10. SyncInv' /\ ControlInv' /\ RefusedInv'
  BY <1>1, <1>2, <1>5, <1>7 DEF SyncInv, ControlInv, RefusedInv
<1> QED BY <1>9, <1>10 DEF VolumeInv

LEMMA Finishing == ASSUME VolumeInv, Sync PROVE VolumeInv'
<1>1. /\ mem \in Layout /\ Settled(mem) /\ Sound(mem) /\ disk' = mem
      /\ refused = NoLayout /\ ready = FALSE
      /\ UNCHANGED <<mem, refused, ready, control>>
  BY Underway DEF Sync, VolumeInv, SyncInv, PrepInv
<1>2. Before(mem) \/ After(mem)
  BY <1>1, SettledCases DEF VolumeInv, SyncInv
<1>3. SyncInv'
  <2>1. (Before(mem)' /\ Before(disk')) \/ (After(mem)' /\ After(disk'))
    BY <1>1, <1>2 DEF Before, After, NoOwn, Old, OwnOf
  <2> QED BY <1>1, <2>1 DEF SyncInv
<1>4. Settled(mem)' /\ Sound(mem)'
  BY <1>1 DEF Settled, Sound, Names, In
<1>5. prep' \in [at : {"done"}, legacy : SUBSET File]
  BY DEF Sync, VolumeInv, PrepInv
<1>6. PrepInv'
  BY <1>1, <1>4, <1>5 DEF PrepInv
<1>7. ControlInv' /\ RefusedInv'
  <2>1. Names(mem, mem.private)' = Names(mem, mem.private)
    BY <1>1 DEF Names, In
  <2> QED BY <1>1, <1>4, <2>1 DEF VolumeInv, ControlInv, RefusedInv
<1> QED BY <1>3, <1>6, <1>7 DEF VolumeInv

LEMMA Succeeding == ASSUME VolumeInv, Succeed PROVE VolumeInv'
<1>1. /\ Settled(mem) /\ Sound(mem) /\ disk = mem /\ refused = NoLayout /\ ready = FALSE
      /\ ready' = TRUE /\ UNCHANGED <<mem, disk, refused, control>> /\ prep' = Idle
  BY Underway DEF Succeed, VolumeInv, PrepInv
<1>2. SyncInv'
  BY <1>1 DEF VolumeInv, SyncInv, Before, Staged, After, NoOwn, RootEmpty, Old, OwnOf
<1>3. Settled(mem)' /\ Sound(mem)' /\ Names(mem, mem.private)' = Names(mem, mem.private)
  BY <1>1 DEF Settled, Sound, Names, In
<1>4. ControlInv'
  BY <1>1, <1>3 DEF VolumeInv, ControlInv, Idle
<1>5. PrepInv' /\ RefusedInv'
  BY <1>1 DEF PrepInv, RefusedInv, Idle
<1> QED BY <1>2, <1>4, <1>5 DEF VolumeInv

\* Giving up leaves what there is to the operator, also a staging directory.
LEMMA Failing == ASSUME VolumeInv, Fail PROVE VolumeInv'
<1>1. /\ UNCHANGED <<mem, disk, ready, control>> /\ prep' = Idle /\ ready = FALSE
  BY DEF Fail, VolumeInv, ControlInv
<1>2. SyncInv' /\ ControlInv'
  BY <1>1, Quiet
<1>3. PrepInv'
  BY <1>1 DEF PrepInv, Idle
<1>4. RefusedInv'
  <2>1. (Interrupted \/ Conflict)' <=> (Interrupted \/ Conflict)
    BY <1>1 DEF Interrupted, Conflict, Names, In
  <2>2. CASE mem.stage # "none"
    <3>1. control = "down" /\ Interrupted
      BY <2>2, Alone DEF Interrupted
    <3> QED BY <1>1, <2>1, <2>2, <3>1 DEF Fail, RefusedInv, Idle
  <2>3. CASE mem.stage = "none"
    BY <1>1, <2>1, <2>3 DEF Fail, VolumeInv, RefusedInv, Idle
  <2> QED BY <2>2, <2>3
<1> QED BY <1>2, <1>3, <1>4 DEF VolumeInv

-----------------------------------------------------------------------------
\* The steps of a controller.

\* Own, on a volume that is settled.
LEMMA Owned ==
  ASSUME VolumeInv, Settled(mem), disk.private = mem.private,
         NEW names, names \subseteq File, "state.db" \in names, Own(names)
  PROVE  /\ SyncInv' /\ Settled(mem') /\ "state.db" \in Names(mem', mem'.private)
         /\ disk'.private = mem'.private /\ (mem = disk => mem' = disk')
         /\ mem'.stage = mem.stage
<1> DEFINE as(v) == [v EXCEPT !.file = [c \in Copy |->
                IF c[1] # Published THEN v.file[c]
                ELSE IF c[2] \in names THEN v.private ELSE "none"]]
<1>1. mem' = as(mem) /\ disk' = as(disk)
  BY DEF Own
<1>2. ASSUME NEW v \in Layout
      PROVE  /\ as(v) \in Layout /\ as(v).private = v.private /\ as(v).stage = v.stage
             /\ \A f \in File :
                  /\ Old(as(v), f) = IF Published # "old" THEN Old(v, f)
                                     ELSE IF f \in names THEN v.private ELSE "none"
                  /\ OwnOf(as(v), f) = IF Published # "own" THEN OwnOf(v, f)
                                       ELSE IF f \in names THEN v.private ELSE "none"
  <2> DEFINE file == [c \in Copy |-> IF c[1] # Published THEN v.file[c]
                                     ELSE IF c[2] \in names THEN v.private ELSE "none"]
  <2>1. v.file \in [Copy -> {"none", "root", "p", "s"}] /\ v.private \in {"none", "p", "s"}
    BY DEF Layout
  <2>2. file \in [Copy -> {"none", "root", "p", "s"}]
    BY <2>1
  <2>3. as(v) = [v EXCEPT !.file = file]
    OBVIOUS
  <2>4. \A f \in File :
          /\ file[<<"old", f>>] = IF Published # "old" THEN Old(v, f)
                                  ELSE IF f \in names THEN v.private ELSE "none"
          /\ file[<<"own", f>>] = IF Published # "own" THEN OwnOf(v, f)
                                  ELSE IF f \in names THEN v.private ELSE "none"
    BY CopyFacts DEF Old, OwnOf
  <2> HIDE DEF file, as
  <2>5. /\ as(v) \in Layout /\ as(v).private = v.private /\ as(v).stage = v.stage
        /\ as(v).file = file
    BY <2>2, <2>3 DEF Layout
  <2> QED BY <2>4, <2>5 DEF Old, OwnOf
<1> HIDE DEF as
<1>3. mem \in Layout /\ disk \in Layout
  BY DEF VolumeInv, SyncInv
<1>4. /\ mem' \in Layout /\ mem'.private = mem.private /\ mem'.stage = mem.stage
      /\ \A f \in File :
           /\ Old(mem', f) = IF Published # "old" THEN Old(mem, f)
                             ELSE IF f \in names THEN mem.private ELSE "none"
           /\ OwnOf(mem', f) = IF Published # "own" THEN OwnOf(mem, f)
                               ELSE IF f \in names THEN mem.private ELSE "none"
  BY <1>1, <1>2, <1>3
<1>5. /\ disk' \in Layout /\ disk'.private = disk.private /\ disk'.stage = disk.stage
      /\ \A f \in File :
           /\ Old(disk', f) = IF Published # "old" THEN Old(disk, f)
                              ELSE IF f \in names THEN disk.private ELSE "none"
           /\ OwnOf(disk', f) = IF Published # "own" THEN OwnOf(disk, f)
                                ELSE IF f \in names THEN disk.private ELSE "none"
  BY <1>1, <1>2, <1>3
<1>6. \/ Before(mem) /\ mem.private = "p" /\ Published = "own"
      \/ After(mem) /\ Published = "old"
  BY SettledCases DEF VolumeInv, SyncInv, Published, After
<1>7. Settled(mem')
  BY <1>4, SettledParts
<1>8. "state.db" \in Names(mem', mem'.private)
  BY <1>4, <1>6, NamesOf, FileFacts
<1>9. SyncInv'
  <2>1. CASE Before(mem) /\ mem.private = "p" /\ Published = "own"
    <3>1. Before(disk)
      BY <2>1 DEF VolumeInv, SyncInv, Before, Staged, After
    <3>2. Before(mem') /\ Before(disk')
      BY <1>4, <1>5, <2>1, <3>1 DEF Before
    <3>3. \A f \in File : OwnOf(disk', f) = OwnOf(mem', f)
      BY <1>4, <1>5, <2>1
    <3> QED BY <1>4, <1>5, <3>2, <3>3 DEF SyncInv
  <2>2. CASE After(mem) /\ Published = "old"
    <3>1. After(disk)
      BY <2>2 DEF VolumeInv, SyncInv, Before, Staged, After
    <3>2. After(mem') /\ After(disk')
      BY <1>4, <1>5, <2>2, <3>1 DEF After, NoOwn
    <3> QED BY <1>4, <1>5, <3>2 DEF SyncInv
  <2> QED BY <1>6, <2>1, <2>2
<1> QED BY <1>1, <1>4, <1>5, <1>7, <1>8, <1>9

\* A controller at work leaves a preparation where it is.
LEMMA Working ==
  ASSUME VolumeInv, Settled(mem), disk.private = mem.private,
         ready \/ control # "down", control' # "down",
         control' \in {"down", "opening", "running"},
         UNCHANGED <<prep, ready, refused>>,
         NEW names, names \subseteq File, "state.db" \in names, Own(names)
  PROVE  VolumeInv'
<1>1. /\ SyncInv' /\ Settled(mem') /\ "state.db" \in Names(mem', mem'.private)
      /\ disk'.private = mem'.private /\ (mem = disk => mem' = disk')
  BY Owned
<1>2. prep.at \in {"idle", "look", "normalize", "sync", "done"}
  <2>1. ~Staged(mem)
    BY DEF Settled, Staged
  <2>2. prep.at \notin {"lock", "stage"}
    BY SettledParts, FileFacts DEF VolumeInv, PrepInv, SyncInv, Layout
  <2>3. prep.at # "make"
    BY DEF Settled, VolumeInv, PrepInv
  <2> QED BY <2>1, <2>2, <2>3 DEF VolumeInv, PrepInv
<1>3. Sound(mem')
  BY <1>1 DEF Sound
<1>4. PrepInv'
  BY <1>1, <1>2, <1>3 DEF VolumeInv, PrepInv
<1>5. ControlInv'
  BY <1>1, <1>3 DEF VolumeInv, ControlInv
<1>6. RefusedInv'
  BY DEF VolumeInv, RefusedInv
<1> QED BY <1>1, <1>4, <1>5, <1>6 DEF VolumeInv

LEMMA Opening == ASSUME VolumeInv, Open PROVE VolumeInv'
<1>1. Settled(mem) /\ disk.private = mem.private
  BY DEF Open, VolumeInv, ControlInv
<1>2. Names(mem, mem.private) \cup {"state.db"} \subseteq File
  BY NamesOf, FileFacts
<1> QED BY <1>1, <1>2, Working DEF Open

LEMMA OpeningLock == ASSUME VolumeInv, OpenLock PROVE VolumeInv'
<1>1. Settled(mem) /\ disk.private = mem.private /\ "state.db" \in Names(mem, mem.private)
  BY DEF OpenLock, VolumeInv, ControlInv
<1>2. Names(mem, mem.private) \cup {"state.db.lock"} \subseteq File
  BY NamesOf, FileFacts
<1> QED BY <1>1, <1>2, Working DEF OpenLock

LEMMA Committing == ASSUME VolumeInv, Transaction PROVE VolumeInv'
<1>1. Settled(mem) /\ disk.private = mem.private
  BY DEF Transaction, VolumeInv, ControlInv
<1>2. PICK names \in {{}, {"state.db-journal"}} :
        Own({"state.db", "state.db.lock"} \cup names)
  BY DEF Transaction
<1>3. "state.db-journal" \in File
  <2>1. volumeFiles[2] = "state.db-journal" /\ 2 \in DOMAIN volumeFiles
    BY DEF volumeFiles
  <2> QED BY <2>1, FileFacts
<1>4. {"state.db", "state.db.lock"} \cup names \subseteq File
  BY <1>3, FileFacts
<1>5. UNCHANGED <<prep, ready, control, refused>> /\ control = "running"
  BY DEF Transaction
<1> HIDE DEF Own
<1> QED BY <1>1, <1>2, <1>4, <1>5, Working

LEMMA Ending == ASSUME VolumeInv, ControlEnds PROVE VolumeInv'
<1>1. SyncInv'
  BY Quiet DEF ControlEnds
<1>2. PrepInv'
  BY DEF ControlEnds, VolumeInv, PrepInv, Settled, Sound, Names, In, Before, Staged,
         NoOwn, RootEmpty, Old, OwnOf, Left
<1>3. ControlInv' /\ RefusedInv'
  BY DEF ControlEnds, VolumeInv, ControlInv, RefusedInv, Settled, Sound, Names, In,
         Interrupted, Conflict
<1> QED BY <1>1, <1>2, <1>3 DEF VolumeInv

\* A step that changes nothing but who holds the old lock.
LEMMA Frame ==
  ASSUME VolumeInv, UNCHANGED <<mem, disk, prep, ready, control, refused>>
  PROVE  VolumeInv'
<1>1. SyncInv'
  BY Quiet
<1>2. PrepInv'
  BY DEF VolumeInv, PrepInv, Settled, Sound, Names, In, Before, Staged,
         NoOwn, RootEmpty, Old, OwnOf, Left
<1>3. ControlInv' /\ RefusedInv'
  BY DEF VolumeInv, ControlInv, RefusedInv, Settled, Sound, Names, In,
         Interrupted, Conflict
<1> QED BY <1>1, <1>2, <1>3 DEF VolumeInv

\* Whichever unsynced changes a machine loses, the layout it comes back with is
\* one from before a migration, one in the middle of it, or one from after it.
LEMMA Resetting == ASSUME VolumeInv, Reset PROVE VolumeInv'
<1>1. PICK names \in {mem, disk}, m \in SUBSET {c \in Copy : mem.file[c] # disk.file[c]} :
        mem' = [private |-> names.private, stage |-> names.stage,
                file |-> [c \in Copy |-> IF c \in m THEN mem.file[c] ELSE disk.file[c]]]
  BY DEF Reset
<1>2. /\ disk' = mem' /\ prep' = Idle /\ ready' = FALSE /\ control' = "down"
      /\ refused' = CASE mem'.stage # "none" -> mem'
                      [] mem'.stage = "none" /\ refused = mem' -> refused
                      [] OTHER -> NoLayout
  BY DEF Reset
<1>3. mem \in Layout /\ disk \in Layout
  BY DEF VolumeInv, SyncInv
<1> DEFINE file == [c \in Copy |-> IF c \in m THEN mem.file[c] ELSE disk.file[c]]
<1>4. file \in [Copy -> {"none", "root", "p", "s"}]
  BY <1>3 DEF Layout
<1>5. \A c \in Copy : file[c] = mem.file[c] \/ file[c] = disk.file[c]
  OBVIOUS
<1>6. mem' = [private |-> names.private, stage |-> names.stage, file |-> file]
  BY <1>1
<1> HIDE DEF file
<1>7. /\ mem' \in Layout
      /\ mem'.private = names.private /\ mem'.stage = names.stage /\ mem'.file = file
  BY <1>3, <1>4, <1>6 DEF Layout
<1>8. \A f \in File :
        /\ Old(mem', f) = Old(mem, f) \/ Old(mem', f) = Old(disk, f)
        /\ OwnOf(mem', f) = OwnOf(mem, f) \/ OwnOf(mem', f) = OwnOf(disk, f)
  BY <1>5, <1>7, CopyFacts DEF Old, OwnOf
<1>9. Before(mem') \/ Staged(mem') \/ After(mem')
  <2>1. CASE /\ Before(mem) /\ Before(disk)
             /\ \A f \in File : OwnOf(disk, f) \in {"none", OwnOf(mem, f)}
             /\ mem.private # disk.private => NoOwn(mem)
    <3>1. \A f \in File : OwnOf(mem', f) \in {"none", OwnOf(mem, f)}
      BY <1>8, <2>1
    <3>2. \A f \in File : OwnOf(mem', f) \in {"none", mem'.private}
      BY <1>7, <2>1, <3>1 DEF Before, NoOwn
    <3>3. \A f \in File : Old(mem', f) \in {"root", "none"}
      BY <1>8, <2>1 DEF Before
    <3> QED BY <1>7, <2>1, <3>2, <3>3 DEF Before
  <2>2. CASE /\ Staged(mem) /\ \A f \in File : Old(mem, f) # "s"
             /\ Before(disk) /\ NoOwn(disk)
    <3>1. \A f \in File : OwnOf(mem', f) = "none" /\ Old(mem', f) \in {"root", "none"}
      BY <1>8, <2>2 DEF Staged, Before, NoOwn
    <3>2. CASE names = mem
      BY <1>7, <2>2, <3>1, <3>2 DEF Staged, NoOwn
    <3>3. CASE names = disk
      BY <1>7, <2>2, <3>1, <3>3 DEF Before
    <3> QED BY <3>2, <3>3
  <2>3. CASE Staged(mem) /\ Staged(disk)
    BY <1>7, <1>8, <2>3 DEF Staged, NoOwn
  <2>4. CASE After(mem) /\ Staged(disk) /\ RootEmpty(disk)
    <3>1. \A f \in File : OwnOf(mem', f) = "none" /\ Old(mem', f) \in {"s", "none"}
      BY <1>8, <2>4 DEF Staged, After, NoOwn, RootEmpty
    <3>2. CASE names = mem
      BY <1>7, <2>4, <3>1, <3>2 DEF After, NoOwn
    <3>3. CASE names = disk
      BY <1>7, <2>4, <3>1, <3>3 DEF Staged, NoOwn
    <3> QED BY <3>2, <3>3
  <2>5. CASE After(mem) /\ After(disk)
    BY <1>7, <1>8, <2>5 DEF After, NoOwn
  <2> QED BY <2>1, <2>2, <2>3, <2>4, <2>5 DEF VolumeInv, SyncInv
<1>10. SyncInv'
  <2>1. (Before(mem') /\ Before(disk')) \/ (Staged(mem') /\ Staged(disk'))
          \/ (After(mem') /\ After(disk'))
    BY <1>2, <1>9
  <2>2. \A f \in File : OwnOf(disk', f) \in {"none", OwnOf(mem', f)}
    BY <1>2
  <2> QED BY <1>2, <1>7, <2>1, <2>2 DEF SyncInv
<1>11. PrepInv' /\ ControlInv'
  BY <1>2 DEF PrepInv, ControlInv, Idle
<1>12. RefusedInv'
  <2>1. CASE mem'.stage # "none"
    BY <1>2, <2>1 DEF RefusedInv, Interrupted, Idle
  <2>2. CASE mem'.stage = "none" /\ refused = mem'
    <3>1. refused # NoLayout => mem' = mem /\ (Interrupted \/ Conflict)
      BY <2>2 DEF VolumeInv, RefusedInv
    <3>2. refused # NoLayout => (Interrupted \/ Conflict)'
      BY <3>1 DEF Interrupted, Conflict, Names, In
    <3> QED BY <1>2, <2>2, <3>2 DEF RefusedInv, Idle
  <2>3. CASE mem'.stage = "none" /\ refused # mem'
    BY <1>2, <2>3 DEF RefusedInv
  <2> QED BY <2>1, <2>2, <2>3
<1> QED BY <1>10, <1>11, <1>12 DEF VolumeInv

-----------------------------------------------------------------------------
LEMMA Starting == Init => VolumeInv
<1> SUFFICES ASSUME Init PROVE VolumeInv
  OBVIOUS
<1>1. PICK old, own \in SUBSET File, private \in {"none", "p"} :
        /\ private = "none" => own = {}
        /\ mem = [private |-> private, stage |-> "none",
                  file |-> [c \in Copy |->
                    CASE c[1] = "old" /\ c[2] \in old -> "root"
                      [] c[1] = "own" /\ c[2] \in own -> "p"
                      [] OTHER -> "none"]]
  BY DEF Init
<1>2. disk = mem /\ prep = Idle /\ ready = FALSE /\ control = "down" /\ refused = NoLayout
  BY DEF Init
<1> DEFINE file == [c \in Copy |->
                     CASE c[1] = "old" /\ c[2] \in old -> "root"
                       [] c[1] = "own" /\ c[2] \in own -> "p"
                       [] OTHER -> "none"]
<1>3. file \in [Copy -> {"none", "root", "p", "s"}]
  OBVIOUS
<1>4. \A f \in File : /\ file[<<"old", f>>] \in {"root", "none"}
                      /\ file[<<"own", f>>] \in {"none", private}
  BY <1>1, CopyFacts
<1>5. mem = [private |-> private, stage |-> "none", file |-> file]
  BY <1>1
<1> HIDE DEF file
<1>6. mem \in Layout /\ mem.private = private /\ mem.stage = "none" /\ mem.file = file
  BY <1>3, <1>5 DEF Layout
<1>7. Before(mem)
  BY <1>4, <1>6 DEF Before, Old, OwnOf
<1>8. SyncInv
  <2>1. \A f \in File : OwnOf(disk, f) = OwnOf(mem, f)
    BY <1>2
  <2> QED BY <1>2, <1>6, <1>7, <2>1 DEF SyncInv
<1>9. PrepInv /\ ControlInv /\ RefusedInv
  BY <1>2 DEF PrepInv, ControlInv, RefusedInv, Idle
<1> QED BY <1>8, <1>9 DEF VolumeInv

LEMMA Stepping == ASSUME VolumeInv, [Next]_vars PROVE VolumeInv'
<1>1. CASE Preparation
  BY <1>1, Beginning, Looking, Making, Normalizing, Locking, Staging, Syncing, Moving,
     Publishing, Finishing, Succeeding, Failing DEF Preparation
<1>2. CASE UserEnds
  BY <1>2, Frame DEF UserEnds
<1>3. CASE Open \/ OpenLock \/ Transaction \/ ControlEnds
  BY <1>3, Opening, OpeningLock, Committing, Ending
<1>4. CASE Reset
  BY <1>4, Resetting
<1>5. CASE UNCHANGED vars
  BY <1>5, Frame DEF vars
<1> QED BY <1>1, <1>2, <1>3, <1>4, <1>5 DEF Next

LEMMA VolumeAlways == Spec => []VolumeInv
BY Starting, Stepping, PTL DEF Spec

\* No controller is told to start, and none runs, while a file of its database is
\* in the root or in a staging directory (prepareVolume): stops and losses of
\* unsynced renames at any point of a migration included.
THEOREM DatabaseWhole == Spec => []NeverSplit
<1>1. VolumeInv => NeverSplit
  BY DEF VolumeInv, ControlInv, NeverSplit, Settled
<1> QED BY <1>1, VolumeAlways, PTL

\* What a preparation reported as done is on the disk, and stays there
\* (prepareVolume: the syncs of file, staging directory and root).
THEOREM SuccessSurvives == Spec => []ReadySurvives
<1>1. VolumeInv => ReadySurvives
  BY DEF VolumeInv, ControlInv, ReadySurvives
<1> QED BY <1>1, VolumeAlways, PTL

\* A volume that a preparation refused, or left with a staging directory, is
\* changed by none that follows it, and no controller is started on it
\* (prepareVolume: errVolume).
THEOREM RefusalKept == Spec => []RefusedKept
<1>1. VolumeInv => RefusedKept
  BY DEF VolumeInv, RefusedInv, RefusedKept
<1> QED BY <1>1, VolumeAlways, PTL
=============================================================================

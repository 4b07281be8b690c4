-------------------------- MODULE LogStream_proofs --------------------------
(***************************************************************************)
(* Proofs about LogStream, for any logs, sizes and numbers of connections: *)
(* every line is reached, an identical line is skipped no more often than  *)
(* it was repeated, what is taken is delivered and frames hold together.   *)
(* At the end the collection that starts such streams: Collector's slots   *)
(* are neither shared nor leaked, and it is told to end as it did.         *)
(***************************************************************************)
EXTENDS LogStream, Collector, FiniteSetTheorems, SequenceTheorems,
        WellFoundedInduction, TLAPS

-----------------------------------------------------------------------------
\* What a parser with its histories is made of.

LogLine == [at : Nat \cup {NoTime}, kind : Kinds]
LineNo == DOMAIN log
Time == Nat \cup {NoTime}
Counter == [Kinds -> Nat]
CursorType ==
  [last : Time, counts : Counter, replay : Counter, replaying : BOOLEAN]
Frame == [lines : Seq(LineNo), truncated : BOOLEAN]
ScanType ==
  [cursor : CursorType, pending : Frame, out : Seq(Frame),
   taken : [LineNo -> Nat], cut : [LineNo -> Nat], marked : SUBSET LineNo]

LogOK == log \in Seq(LogLine)

LEMMA LogLines ==
  ASSUME LogOK
  PROVE  /\ Len(log) \in Nat /\ LineNo = 1..Len(log) /\ IsFiniteSet(LineNo)
         /\ \A i \in LineNo : /\ i \in Nat /\ log[i] \in LogLine
                            /\ log[i].at \in Time /\ log[i].kind \in Kinds
<1>1. Len(log) \in Nat /\ LineNo = 1..Len(log)
  BY LenProperties DEF LogOK, LineNo
<1>2. IsFiniteSet(1..Len(log))
  BY <1>1, FS_Interval
<1>3. \A i \in LineNo : log[i] \in LogLine
  BY <1>1, ElementOfSeq DEF LogOK
<1> QED BY <1>1, <1>2, <1>3 DEF LogLine, Time

Full(c) == Cardinality({k \in Kinds : c[k] > 0}) >= CursorCapacity

\* The ways in which the cursor takes a whole line.
KeptOn(c, line, a) ==   \* without a place, with a gap
  /\ line.at = NoTime \/ line.at < c.last
  /\ a.keep /\ a.cursor = c /\ a.gap # "none"
LateSkip(c, line, a) ==   \* older, in a repeated second
  /\ line.at < c.last /\ line.at # NoTime /\ c.replaying
  /\ ~a.keep /\ a.cursor = c
Replayed(c, line, a) ==   \* one that is expected again
  /\ line.at = c.last /\ line.at # NoTime /\ c.replay[line.kind] > 0
  /\ ~a.keep /\ a.cursor \in CursorType
  /\ a.cursor.last = c.last /\ a.cursor.counts = c.counts
  /\ a.cursor.replay = [c.replay EXCEPT ![line.kind] = @ - 1]
  /\ a.cursor.replaying => a.cursor.replay # Nothing
Overflowed(c, line, a) ==   \* a digest too many
  /\ line.at = c.last /\ line.at # NoTime /\ c.replay[line.kind] = 0
  /\ c.counts[line.kind] = 0 /\ Full(c.counts)
  /\ a.keep /\ a.cursor = c /\ a.gap # "none"
Counted(c, line, a) ==   \* one more at the same time
  /\ line.at = c.last /\ line.at # NoTime /\ c.replay[line.kind] = 0
  /\ c.counts[line.kind] = 0 => ~Full(c.counts)
  /\ a.keep /\ a.gap = "none" /\ a.cursor \in CursorType
  /\ a.cursor.last = c.last /\ a.cursor.replay = c.replay
  /\ a.cursor.counts = [c.counts EXCEPT ![line.kind] = @ + 1]
  /\ a.cursor.replaying = c.replaying
Newer(c, line, a) ==   \* the first at a newer time
  /\ line.at > c.last
  /\ a.keep /\ a.gap = "none"
  /\ a.cursor \in CursorType /\ a.cursor.last = line.at
  /\ a.cursor.counts = [Nothing EXCEPT ![line.kind] = 1]
  /\ a.cursor.replay = Nothing /\ ~a.cursor.replaying

LEMMA NothingOK ==
  /\ Nothing \in Counter /\ \A k \in Kinds : Nothing[k] = 0
  /\ \A c \in Counter : c # Nothing => \E k \in Kinds : c[k] > 0
<1>1. Nothing \in Counter /\ \A k \in Kinds : Nothing[k] = 0
  BY DEF Nothing, Counter
<1>2. ASSUME NEW c \in Counter, \A k \in Kinds : ~(c[k] > 0)
      PROVE  c = Nothing
  <2>1. \A k \in Kinds : c[k] = 0
    <3> TAKE k \in Kinds
    <3>1. c[k] \in Nat
      BY DEF Counter
    <3> QED BY <1>2, <3>1
  <2> QED BY <2>1 DEF Nothing, Counter
<1> QED BY <1>1, <1>2

LEMMA EmptyNotFull ==
  ~Full(Nothing)
<1>1. {k \in Kinds : Nothing[k] > 0} = {}
  BY NothingOK
<1>2. Cardinality({}) = 0
  BY FS_EmptySet
<1>3. CursorCapacity \in Nat \ {0}
  BY StreamAssumption
<1>4. ~(0 >= CursorCapacity)
  BY <1>3
<1> QED BY <1>1, <1>2, <1>4 DEF Full

LEMMA NewCursor ==
  ASSUME NEW t \in Time
  PROVE  LET n == [NoCursor EXCEPT !.last = t]
         IN  /\ n \in CursorType /\ n.last = t /\ n.counts = Nothing
             /\ n.replay = Nothing /\ n.replaying = FALSE
<1>1. NoCursor \in CursorType /\ NoCursor.counts = Nothing
      /\ NoCursor.replay = Nothing /\ NoCursor.replaying = FALSE
  <2>1. NoTime \in Time
    BY DEF Time
  <2> QED BY <2>1, NothingOK DEF NoCursor, CursorType
<1> QED BY <1>1 DEF CursorType

LEMMA AcceptCases ==
  ASSUME NEW c \in CursorType, NEW line \in LogLine,
         NEW a, a = Accept(c, line, FALSE)
  PROVE  \/ KeptOn(c, line, a) \/ LateSkip(c, line, a)
         \/ Replayed(c, line, a) \/ Overflowed(c, line, a)
         \/ Counted(c, line, a) \/ Newer(c, line, a)
<1>1. line.at \in Time /\ c.last \in Time /\ line.kind \in Kinds
  BY DEF LogLine, Time, CursorType
<1>2. NoTime = -1
  BY DEF NoTime
<1>3. CASE line.at = NoTime
  <2>1. ~(line.at > c.last)
    BY <1>1, <1>2, <1>3 DEF Time
  <2>2. a = Kept(c, "untimestamped")
    BY <1>3, <2>1 DEF Accept
  <2>3. KeptOn(c, line, a)
    BY ONLY <1>3, <2>2 DEF KeptOn, Kept
  <2> QED BY <2>3
<1>4. CASE line.at # NoTime /\ line.at < c.last
  <2>1. a = IF c.replaying /\ Second(line.at) >= Second(c.last)
            THEN Skipped(c) ELSE Kept(c, "out_of_order")
    BY <1>1, <1>2, <1>4 DEF Accept, Time
  <2>2. KeptOn(c, line, a) \/ LateSkip(c, line, a)
    BY ONLY <1>4, <2>1 DEF KeptOn, LateSkip, Kept, Skipped
  <2> QED BY <2>2
<1>5. CASE line.at # NoTime /\ line.at = c.last
  <2>1. a = AcceptNow(c, line.kind)
    BY <1>1, <1>2, <1>5 DEF Accept, Time
  <2>2. CASE c.replay[line.kind] > 0
    <3> DEFINE left == [c.replay EXCEPT ![line.kind] = @ - 1]
               n == [c EXCEPT !.replay = left,
                              !.replaying = c.replaying /\ left # Nothing]
    <3>1. a = Skipped(n)
      BY <2>1, <2>2 DEF AcceptNow
    <3>2. ~a.keep /\ a.cursor = n
      BY ONLY <3>1 DEF Skipped
    <3>4. left \in Counter
      BY <1>1, <2>2 DEF CursorType, Counter
    <3> HIDE DEF left
    <3>5. /\ n \in CursorType /\ n.last = c.last /\ n.counts = c.counts
          /\ n.replay = left /\ (n.replaying => left # Nothing)
      BY <3>4 DEF CursorType
    <3> HIDE DEF n
    <3>3. Replayed(c, line, a)
      BY ONLY <1>5, <2>2, <3>2, <3>5 DEF Replayed, left
    <3> QED BY <3>3
  <2>3. CASE ~(c.replay[line.kind] > 0)
    <3>1. c.replay[line.kind] = 0
      BY <1>1, <2>3 DEF CursorType, Counter
    <3>2. CASE c.counts[line.kind] = 0 /\ Full(c.counts)
      <4>1. a = Kept(c, "overflow")
        BY <2>1, <2>3, <3>2 DEF AcceptNow, Full
      <4>2. Overflowed(c, line, a)
        BY ONLY <1>5, <3>1, <3>2, <4>1 DEF Overflowed, Kept
      <4> QED BY <4>2
    <3>3. CASE ~(c.counts[line.kind] = 0 /\ Full(c.counts))
      <4>1. a = Kept([c EXCEPT !.counts[line.kind] = @ + 1], "none")
        BY <2>1, <2>3, <3>3 DEF AcceptNow, Full
      <4> DEFINE more == [c.counts EXCEPT ![line.kind] = @ + 1]
                 n == [c EXCEPT !.counts = more]
      <4>3. more \in Counter
        BY <1>1 DEF CursorType, Counter
      <4>4. a = Kept(n, "none")
        BY <4>1
      <4> HIDE DEF more
      <4>5. /\ n \in CursorType /\ n.last = c.last /\ n.counts = more
            /\ n.replay = c.replay /\ n.replaying = c.replaying
        BY <4>3 DEF CursorType
      <4> HIDE DEF n
      <4>2. Counted(c, line, a)
        BY ONLY <1>5, <3>1, <3>3, <4>4, <4>5 DEF Counted, Kept, more
      <4> QED BY <4>2
    <3> QED BY <3>2, <3>3
  <2> QED BY <2>2, <2>3
<1>6. CASE line.at > c.last
  <2> DEFINE n == [NoCursor EXCEPT !.last = line.at]
             one == [Nothing EXCEPT ![line.kind] = 1]
             next == [n EXCEPT !.counts[line.kind] = @ + 1]
  <2>1. /\ n \in CursorType /\ n.last = line.at /\ n.counts = Nothing
        /\ n.replay = Nothing /\ n.replaying = FALSE
    BY ONLY <1>1, NothingOK, NewCursor
  <2>2. ~(line.at = NoTime) /\ ~(line.at < c.last) /\ ~(line.at = c.last)
    BY <1>1, <1>2, <1>6 DEF Time
  <2>3. a = AcceptNow(n, line.kind)
    BY <1>6, <2>2 DEF Accept
  <2> HIDE DEF n
  <2>4. ~(n.replay[line.kind] > 0) /\ ~Full(n.counts)
    BY <1>1, <2>1, NothingOK, EmptyNotFull
  <2>5. a = Kept(next, "none")
    BY <2>3, <2>4 DEF AcceptNow, Full
  <2>6. one = [n.counts EXCEPT ![line.kind] = @ + 1] /\ one \in Counter
    <3>1. Nothing[line.kind] + 1 = 1
      BY <1>1, NothingOK
    <3> QED BY <1>1, <2>1, <3>1, NothingOK DEF Counter
  <2>7. /\ next \in CursorType /\ next.last = line.at /\ next.counts = one
        /\ next.replay = Nothing /\ next.replaying = FALSE
    <3> HIDE DEF one
    <3> QED BY ONLY <2>1, <2>6 DEF CursorType
  <2> HIDE DEF next
  <2>8. Newer(c, line, a)
    BY ONLY <1>6, <2>5, <2>7 DEF Newer, Kept
  <2> QED BY <2>8
<1>7. line.at < c.last \/ line.at = c.last \/ line.at > c.last
  BY <1>1, <1>2 DEF Time
<1> QED BY <1>1, <1>2, <1>3, <1>4, <1>5, <1>6, <1>7

-----------------------------------------------------------------------------
\* Counting what was accepted.

\* The lines of one time and digest.
Class(t, d) == {i \in LineNo : log[i].at = t /\ log[i].kind = d}

\* The acceptances of some lines.
Times(tk, S) == UNION {{j} \X (1..tk[j]) : j \in S}

\* The lines up to one that was accepted.
Reached(tk, S) == {x \in S : \E k \in LineNo : x <= k /\ tk[k] > 0}

More(tk, i) == [tk EXCEPT ![i] = @ + 1]

LEMMA FiniteLines ==
  ASSUME LogOK, NEW S \in SUBSET LineNo
  PROVE  IsFiniteSet(S) /\ Cardinality(S) \in Nat
<1>1. IsFiniteSet(S)
  BY LogLines, FS_Subset
<1> QED BY <1>1, FS_CardinalityType

LEMMA TimesOK ==
  ASSUME LogOK, NEW tk \in [LineNo -> Nat], NEW S \in SUBSET LineNo
  PROVE  IsFiniteSet(Times(tk, S)) /\ Cardinality(Times(tk, S)) \in Nat
<1> DEFINE f == [j \in S |-> {j} \X (1..tk[j])]
           sets == {{j} \X (1..tk[j]) : j \in S}
<1>1. IsFiniteSet(S)
  BY FiniteLines
<1>2. f \in Surjection(S, sets)
  BY DEF Surjection
<1>3. IsFiniteSet(sets)
  <2> HIDE DEF f, sets
  <2> QED BY <1>1, <1>2, FS_Surjection
<1>4. ASSUME NEW T \in sets PROVE IsFiniteSet(T)
  <2>1. PICK j \in S : T = {j} \X (1..tk[j])
    OBVIOUS
  <2>2. IsFiniteSet({j})
    BY FS_Singleton
  <2>3. IsFiniteSet(1..tk[j])
    <3>1. tk[j] \in Int
      OBVIOUS
    <3> QED BY <3>1, FS_Interval
  <2>4. IsFiniteSet({j} \X (1..tk[j]))
    BY <2>2, <2>3, FS_Product
  <2> QED BY <2>1, <2>4
<1>5. Times(tk, S) = UNION sets
  BY DEF Times
<1> HIDE DEF sets
<1>6. IsFiniteSet(Times(tk, S))
  BY <1>3, <1>4, <1>5, FS_UNION
<1> QED BY <1>6, FS_CardinalityType

\* One more acceptance counts once, where its line is.
LEMMA TimesMore ==
  ASSUME LogOK, NEW tk \in [LineNo -> Nat], NEW i \in LineNo, NEW S \in SUBSET LineNo
  PROVE  /\ More(tk, i) \in [LineNo -> Nat]
         /\ \A j \in LineNo : More(tk, i)[j] = IF j = i THEN tk[i] + 1 ELSE tk[j]
         /\ Cardinality(Times(More(tk, i), S))
              = Cardinality(Times(tk, S)) + (IF i \in S THEN 1 ELSE 0)
<1> DEFINE new == More(tk, i)
           p == <<i, tk[i] + 1>>
<1>1. /\ new \in [LineNo -> Nat]
      /\ \A j \in LineNo : new[j] = IF j = i THEN tk[i] + 1 ELSE tk[j]
  BY DEF More
<1>2. Cardinality(Times(tk, S)) \in Nat /\ IsFiniteSet(Times(tk, S))
  BY TimesOK
<1>3. CASE i \notin S
  <2>1. \A j \in S : new[j] = tk[j]
    BY <1>1, <1>3
  <2> HIDE DEF new
  <2>2. Times(new, S) = Times(tk, S)
    BY <2>1 DEF Times
  <2> QED BY <1>1, <1>2, <1>3, <2>2 DEF new
<1>4. CASE i \in S
  <2>1. p \notin Times(tk, S)
    <3> SUFFICES ASSUME NEW j \in S, p \in {j} \X (1..tk[j]) PROVE FALSE
      BY DEF Times
    <3>1. j = i /\ tk[i] + 1 \in 1..tk[i]
      OBVIOUS
    <3>2. tk[i] \in Nat
      OBVIOUS
    <3> QED BY <3>1, <3>2
  <2>2. 1..new[i] = (1..tk[i]) \cup {tk[i] + 1}
    <3>1. tk[i] \in Nat /\ new[i] = tk[i] + 1
      BY <1>1
    <3> HIDE DEF new
    <3> QED BY <3>1
  <2>3. \A j \in S : j # i => new[j] = tk[j]
    BY <1>1
  <2> HIDE DEF new
  <2>4. Times(new, S) = Times(tk, S) \cup {p}
    <3>1. ASSUME NEW q \in Times(new, S) PROVE q \in Times(tk, S) \cup {p}
      <4>1. PICK j \in S : q \in {j} \X (1..new[j])
        BY DEF Times
      <4>2. CASE j # i
        BY <2>3, <4>1, <4>2 DEF Times
      <4>3. CASE j = i
        <5>1. q \in {i} \X (1..tk[i]) \/ q = p
          BY <2>2, <4>1, <4>3
        <5> QED BY <1>4, <5>1 DEF Times
      <4> QED BY <4>2, <4>3
    <3>2. ASSUME NEW q \in Times(tk, S) PROVE q \in Times(new, S)
      <4>1. PICK j \in S : q \in {j} \X (1..tk[j])
        BY DEF Times
      <4>2. q \in {j} \X (1..new[j])
        BY <2>2, <2>3, <4>1
      <4> QED BY <4>1, <4>2 DEF Times
    <3>3. p \in Times(new, S)
      <4>1. p \in {i} \X (1..new[i])
        BY <2>2
      <4> QED BY <1>4, <4>1 DEF Times
    <3> QED BY <3>1, <3>2, <3>3
  <2>5. Cardinality(Times(new, S)) = Cardinality(Times(tk, S)) + 1
    BY <1>2, <2>1, <2>4, FS_AddElement
  <2> QED BY <1>1, <1>4, <2>5 DEF new
<1> QED BY <1>3, <1>4

\* More acceptances reach no fewer lines.
LEMMA ReachedMore ==
  ASSUME LogOK, NEW tk \in [LineNo -> Nat], NEW i \in LineNo, NEW S \in SUBSET LineNo
  PROVE  /\ Cardinality(Reached(tk, S)) \in Nat
         /\ Cardinality(Reached(tk, S)) <= Cardinality(Reached(More(tk, i), S))
         /\ Cardinality(Reached(tk, S)) <= Cardinality(S)
         /\ \A T \in SUBSET S : (\A x \in T : x <= i) =>
              Cardinality(T) <= Cardinality(Reached(More(tk, i), S))
<1> DEFINE new == More(tk, i)
<1>1. \A j \in LineNo : tk[j] \in Nat /\ new[j] \in Nat /\ new[j] >= tk[j]
  BY TimesMore
<1>2. new[i] > 0
  <2>1. new[i] = tk[i] + 1 /\ tk[i] \in Nat
    BY TimesMore
  <2> HIDE DEF new
  <2> QED BY <2>1
<1> HIDE DEF new
<1>3. Reached(tk, S) \in SUBSET Reached(new, S)
  <2>1. \A k \in LineNo : tk[k] > 0 => new[k] > 0
    BY <1>1
  <2> QED BY <2>1 DEF Reached
<1>4. Reached(tk, S) \in SUBSET S /\ Reached(new, S) \in SUBSET S
  BY DEF Reached
<1>5. IsFiniteSet(S) /\ IsFiniteSet(Reached(new, S)) /\ IsFiniteSet(Reached(tk, S))
  BY <1>4, FiniteLines
<1>6. Cardinality(Reached(tk, S)) <= Cardinality(Reached(new, S))
  BY <1>3, <1>5, FS_Subset
<1>7. Cardinality(Reached(tk, S)) <= Cardinality(S)
  BY <1>4, <1>5, FS_Subset
<1>8. ASSUME NEW T \in SUBSET S, \A x \in T : x <= i
      PROVE  Cardinality(T) <= Cardinality(Reached(new, S))
  <2>1. T \in SUBSET Reached(new, S)
    BY <1>2, <1>8 DEF Reached
  <2> QED BY <1>5, <2>1, FS_Subset
<1>9. Cardinality(Reached(tk, S)) \in Nat
  BY <1>5, FS_CardinalityType
<1> QED BY <1>6, <1>7, <1>8, <1>9 DEF new

-----------------------------------------------------------------------------
\* What the cursor knows.  s is the parser with its histories.

CursorShape(c) ==
  /\ \A d \in Kinds : c.replay[d] <= c.counts[d]
  /\ c.last = NoTime => c.counts = Nothing
  /\ c.last # NoTime => c.counts # Nothing
  /\ c.replaying => c.replay # Nothing

\* Its time is the newest that was accepted.
Dated(s) ==
  /\ \A x \in LineNo : s.taken[x] > 0 => log[x].at <= s.cursor.last
  /\ s.cursor.last # NoTime =>
       \E y \in LineNo : s.taken[y] > 0 /\ log[y].at = s.cursor.last

\* Its counts are the acceptances at that time, but for digests it had no room
\* for; as many of their lines were reached.
CountsTrue(s) ==
  s.cursor.last # NoTime =>
    \A d \in Kinds :
      LET n == s.cursor.counts[d]
          C == Class(s.cursor.last, d)
      IN  /\ \/ n = Cardinality(Times(s.taken, C))
             \/ /\ n = 0 /\ Full(s.cursor.counts)
                /\ \A x \in C : s.taken[x] > 0 => x \in s.marked
          /\ n <= Cardinality(Reached(s.taken, C))

\* Lines of older times were accepted once each, or have a gap.
OldOnce(s) ==
  \A t \in Nat, d \in Kinds :
    t < s.cursor.last =>
      \/ Cardinality(Times(s.taken, Class(t, d))) <= Cardinality(Class(t, d))
      \/ Class(t, d) \cap s.marked # {}

Untimed(s) ==
  \A i \in LineNo : s.taken[i] > 0 /\ log[i].at = NoTime => i \in s.marked

\* NothingSkipped
InOrder(s) ==
  \A j, k \in LineNo :
    (/\ tail <= j /\ j < k /\ ~Late(j) /\ log[j].at # NoTime
     /\ s.taken[k] > 0)
      => s.taken[j] > 0

CursorInv(s) ==
  /\ CursorShape(s.cursor) /\ Dated(s) /\ CountsTrue(s)
  /\ OldOnce(s) /\ Untimed(s) /\ InOrder(s)

\* F is what the open connection sent.
SeenTrue(s, F) ==
  /\ \A x \in F : log[x].at <= s.cursor.last
  /\ s.cursor.last # NoTime =>
       \A d \in Kinds :
         \/ s.cursor.counts[d]
              = s.cursor.replay[d] + Cardinality(F \cap Class(s.cursor.last, d))
         \/ s.cursor.counts[d] = 0 /\ Full(s.cursor.counts)

FedTaken(s, F) ==
  \A j \in F : tail <= j /\ ~Late(j) /\ log[j].at # NoTime => s.taken[j] > 0

\* What was asked of the server, and what is expected from it.
Asked(c) ==
  /\ conn.from = 1 \/ (conn.from = tail /\ c.replay = Nothing)
  /\ conn.since <= c.last

-----------------------------------------------------------------------------
\* Frames.

Place(s, i) == i \notin s.marked /\ \A j \in 1..(tail - 1) : log[j].at # log[i].at
Passed(x) == log[x].kind = "blank" \/ Late(x)

FrameWhole(s, e) ==
  \A n \in 1..(Len(e.lines) - 1) :
    /\ e.lines[n] < e.lines[n + 1]
    /\ Place(s, e.lines[n]) =>
         \A x \in (e.lines[n] + 1)..(e.lines[n + 1] - 1) : Passed(x)

FramesInv(s) ==
  FrameWhole(s, s.pending) /\ \A k \in DOMAIN s.out : FrameWhole(s, s.out[k])

\* The pending event may go on where the connection is.
PendingOpen(s, F) ==
  /\ \A n \in DOMAIN s.pending.lines : s.pending.lines[n] \in F
  /\ s.pending.lines # <<>> =>
       LET l == s.pending.lines[Len(s.pending.lines)]
       IN  /\ log[l].at = NoTime => l \in s.marked
           /\ Place(s, l) => /\ s.cursor.replay = Nothing
                             /\ \A x \in F : x > l => Passed(x)

-----------------------------------------------------------------------------
\* One more whole line of the connection: i follows the lines F.

ConnOK ==
  /\ LogOK /\ written \in 0..Len(log) /\ tail \in Int
  /\ conn \in [from : Int, since : Time]

Knowing(s) ==
  s.cursor \in CursorType /\ s.taken \in [LineNo -> Nat] /\ s.marked \in SUBSET LineNo

Took(s, u, i, a) ==
  /\ u.cursor = a.cursor
  /\ u.taken = IF a.keep THEN More(s.taken, i) ELSE s.taken
  /\ u.marked = IF a.keep /\ a.gap # "none" THEN s.marked \cup {i} ELSE s.marked

LineStep(s, F, i, a, u) ==
  /\ ConnOK /\ Knowing(s)
  /\ i \in Wire /\ F = {x \in Wire : x < i}
  /\ Took(s, u, i, a)
  /\ \/ KeptOn(s.cursor, log[i], a) \/ LateSkip(s.cursor, log[i], a)
     \/ Replayed(s.cursor, log[i], a) \/ Overflowed(s.cursor, log[i], a)
     \/ Counted(s.cursor, log[i], a) \/ Newer(s.cursor, log[i], a)
  /\ CursorInv(s) /\ SeenTrue(s, F) /\ FedTaken(s, F) /\ Asked(s.cursor)

\* The facts of a step that its parts use.
Facts(s, F, i, a, u) ==
  /\ i \in LineNo /\ i \in Nat /\ F \in SUBSET LineNo /\ i \notin F
  /\ \A x \in F : x \in Nat /\ x < i
  /\ \A x \in LineNo : /\ x \in Nat /\ 1 <= x
                     /\ log[x].at \in Int /\ log[x].kind \in Kinds
                     /\ (log[x].at = -1 \/ log[x].at \in Nat)
  /\ s.cursor \in CursorType /\ s.cursor.last \in Int
  /\ (s.cursor.last = -1 \/ s.cursor.last \in Nat)
  /\ a.cursor \in CursorType /\ a.cursor.last \in Int
  /\ Knowing(u) /\ u.cursor = a.cursor
  /\ \A x \in LineNo : /\ s.taken[x] \in Nat /\ u.taken[x] \in Nat
                     /\ u.taken[x] = IF x = i /\ a.keep THEN s.taken[x] + 1
                                     ELSE s.taken[x]
  /\ s.marked \in SUBSET u.marked
  /\ NoTime = -1
  /\ written \in Int /\ tail \in Int /\ conn.from \in Int /\ conn.since \in Int

LEMMA StepFacts ==
  ASSUME NEW s, NEW F, NEW i, NEW a, NEW u, LineStep(s, F, i, a, u)
  PROVE  Facts(s, F, i, a, u)
<1>1. /\ LineNo = 1..Len(log) /\ Len(log) \in Nat
      /\ \A x \in LineNo : x \in Nat /\ log[x].at \in Time /\ log[x].kind \in Kinds
  BY LogLines DEF LineStep, ConnOK
<1>2. Wire \in SUBSET LineNo
  <2>1. written \in 0..Len(log)
    BY DEF LineStep, ConnOK
  <2> QED BY <1>1, <2>1 DEF Wire
<1>3. i \in LineNo /\ F \in SUBSET LineNo /\ i \notin F /\ \A x \in F : x < i
  <2>1. i \in Wire /\ F = {x \in Wire : x < i}
    BY DEF LineStep
  <2>2. ~(i < i)
    BY <1>1, <1>2, <2>1
  <2> QED BY <1>2, <2>1, <2>2
<1>4. \A x \in LineNo : /\ 1 <= x /\ log[x].at \in Int
                      /\ (log[x].at = -1 \/ log[x].at \in Nat)
  BY <1>1 DEF Time, NoTime
<1>5. s.cursor \in CursorType /\ a.cursor \in CursorType
  BY DEF LineStep, Knowing, KeptOn, LateSkip, Replayed, Overflowed, Counted, Newer
<1>6. /\ s.cursor.last \in Int /\ a.cursor.last \in Int
      /\ s.cursor.last = -1 \/ s.cursor.last \in Nat
  BY <1>5 DEF CursorType, Time, NoTime
<1>7. /\ s.taken \in [LineNo -> Nat] /\ s.marked \in SUBSET LineNo /\ Took(s, u, i, a) /\ LogOK
  BY DEF LineStep, Knowing, ConnOK
<1>8. /\ More(s.taken, i) \in [LineNo -> Nat]
      /\ \A j \in LineNo : More(s.taken, i)[j] = IF j = i THEN s.taken[i] + 1 ELSE s.taken[j]
  BY <1>3, <1>7, TimesMore
<1>9. u.taken \in [LineNo -> Nat]
      /\ \A x \in LineNo : u.taken[x] = IF x = i /\ a.keep THEN s.taken[x] + 1 ELSE s.taken[x]
  BY <1>7, <1>8 DEF Took
<1>10. u.marked \in SUBSET LineNo /\ s.marked \in SUBSET u.marked /\ u.cursor = a.cursor
  BY <1>3, <1>7 DEF Took
<1>11. Knowing(u)
  BY <1>5, <1>9, <1>10 DEF Knowing
<1>12. written \in Int /\ tail \in Int /\ conn.from \in Int /\ conn.since \in Int
  <2>1. ConnOK
    BY DEF LineStep
  <2> QED BY <1>1, <2>1 DEF ConnOK, Time, NoTime
<1> QED
  BY <1>1, <1>3, <1>4, <1>5, <1>6, <1>7, <1>9, <1>10, <1>11, <1>12 DEF Facts, NoTime

\* Before the next line nothing is missing.
LEMMA BeforeTaken ==
  ASSUME NEW s, NEW F, NEW i, NEW a, NEW u, LineStep(s, F, i, a, u),
         NEW j \in LineNo, tail <= j, j < i, ~Late(j), log[j].at # NoTime
  PROVE  s.taken[j] > 0
<1>0. Facts(s, F, i, a, u)
  BY StepFacts
<1> USE <1>0 DEF Facts
<1>1. CASE j \in Wire
  <2>1. j \in F
    BY <1>1 DEF LineStep
  <2> QED BY <2>1 DEF LineStep, FedTaken
<1>2. CASE j \notin Wire
  <2>1. j \in 1..written
    <3>1. i \in 1..written /\ written \in Int
      BY DEF LineStep, ConnOK, Wire
    <3>2. j \in Nat /\ 1 <= j
      BY StepFacts
    <3> QED BY <3>1, <3>2
  <2>2. j >= conn.from
    <3>1. conn.from = 1 \/ conn.from = tail
      BY DEF LineStep, Asked
    <3> QED BY <3>1
  <2>3. log[j].at < conn.since
    <3>1. ~(log[j].at >= conn.since)
      BY <1>2, <2>1, <2>2 DEF Wire
    <3> QED BY <3>1
  <2>4. log[j].at < s.cursor.last /\ s.cursor.last # NoTime
    <3>1. conn.since <= s.cursor.last
      BY DEF LineStep, Asked
    <3>2. log[j].at \in Nat
      OBVIOUS
    <3> QED BY <2>3, <3>1, <3>2
  <2>5. PICK y \in LineNo : s.taken[y] > 0 /\ log[y].at = s.cursor.last
    BY <2>4 DEF LineStep, CursorInv, Dated
  <2>6. ~(y < j)
    <3>1. log[y].at > log[j].at
      BY <2>4, <2>5
    <3>2. y < j => y \in 1..(j - 1)
      BY DEF LineNo
    <3>3. y < j => y \in 1..(j - 1) /\ log[y].at > log[j].at
      BY <3>1, <3>2
    <3> QED BY <3>3 DEF Late
  <2>7. y # j
    BY <2>4, <2>5
  <2>8. j < y
    <3>1. j \in Nat /\ y \in Nat
      OBVIOUS
    <3> QED BY ONLY <2>6, <2>7, <3>1
  <2>9. InOrder(s)
    BY DEF LineStep, CursorInv
  <2> QED BY <2>5, <2>8, <2>9 DEF InOrder
<1> QED BY <1>1, <1>2

\* The class of a line before which nothing was accepted further on is on the
\* connection, up to that line.
LEMMA WholeLog ==
  ASSUME NEW s, NEW F, NEW i, NEW a, NEW u, LineStep(s, F, i, a, u),
         s.cursor.replay # Nothing, NEW d
  PROVE  \A x \in Class(s.cursor.last, d) : x < i => x \in F
<1>0. Facts(s, F, i, a, u)
  BY StepFacts
<1> USE <1>0 DEF Facts
<1> TAKE x \in Class(s.cursor.last, d)
<1> HAVE x < i
<1>1. x \in LineNo /\ log[x].at = s.cursor.last
  BY DEF Class
<1>2. conn.from = 1 /\ conn.since <= s.cursor.last
  BY DEF LineStep, Asked
<1>3. x \in 1..written
  <2>1. i \in 1..written /\ written \in Int
    BY DEF LineStep, ConnOK, Wire
  <2>2. x \in Nat /\ 1 <= x
    BY <1>1
  <2> QED BY <2>1, <2>2
<1>4. log[x].at >= conn.since
  BY <1>1, <1>2
<1>5. x \in Wire
  BY <1>2, <1>3, <1>4 DEF Wire
<1> QED BY <1>5 DEF LineStep

\* A line that is expected again was accepted.
LEMMA ReplayedTaken ==
  ASSUME NEW s, NEW F, NEW i, NEW a, NEW u, LineStep(s, F, i, a, u),
         Replayed(s.cursor, log[i], a),
         tail <= i, ~Late(i), log[i].at # NoTime
  PROVE  s.taken[i] > 0
<1>0. Facts(s, F, i, a, u)
  BY StepFacts
<1> DEFINE d == log[i].kind
           C == Class(s.cursor.last, d)
           c == s.cursor
<1>1. /\ c.replay[d] > 0 /\ log[i].at = c.last /\ c.last # NoTime
      /\ d \in Kinds
  BY <1>0 DEF Facts, Replayed
<1>2. /\ c.counts \in [Kinds -> Nat] /\ c.replay \in [Kinds -> Nat]
      /\ c.replay[d] <= c.counts[d]
      /\ c.replay # Nothing
  <2>1. c.counts \in [Kinds -> Nat] /\ c.replay \in [Kinds -> Nat]
    BY <1>0 DEF Facts, CursorType, Counter
  <2>2. c.replay[d] <= c.counts[d]
    BY <1>1 DEF LineStep, CursorInv, CursorShape
  <2> QED BY <1>1, <2>1, <2>2, NothingOK
<1>3. c.counts[d] = c.replay[d] + Cardinality(F \cap C)
  <2>1. SeenTrue(s, F)
    BY DEF LineStep
  <2>2. c.counts[d] # 0
    BY <1>1, <1>2
  <2> QED BY <1>1, <2>1, <2>2 DEF SeenTrue
<1>4. c.counts[d] <= Cardinality(Reached(s.taken, C))
  <2>1. CountsTrue(s)
    BY DEF LineStep, CursorInv
  <2> QED BY <1>1, <2>1 DEF CountsTrue
<1>5. LogOK /\ C \in SUBSET LineNo /\ F \cap C \in SUBSET LineNo
  BY <1>0 DEF LineStep, ConnOK, Class, Facts
<1>6. CASE ~(s.taken[i] > 0)
  <2>1. \A k \in LineNo : s.taken[k] > 0 => k < i
    <3> TAKE k \in LineNo
    <3> HAVE s.taken[k] > 0
    <3>1. k # i /\ k \in Nat /\ i \in Nat /\ i \in LineNo
      BY <1>0, <1>6 DEF Facts
    <3>2. ~(i < k)
      <4>1. InOrder(s)
        BY DEF LineStep, CursorInv
      <4> QED BY <1>6, <3>1, <4>1 DEF InOrder
    <3> QED BY <3>1, <3>2
  <2>2. \A x \in Reached(s.taken, C) : x \in F \cap C
    <3> TAKE x \in Reached(s.taken, C)
    <3>1. PICK k \in LineNo : x \in C /\ x <= k /\ s.taken[k] > 0
      BY DEF Reached
    <3>2. x \in Nat /\ k \in Nat /\ i \in Nat
      BY <1>0, <1>5, <3>1 DEF Facts
    <3>3. x < i
      BY <2>1, <3>1, <3>2
    <3> QED BY <1>2, <3>1, <3>3, WholeLog
  <2>3. Reached(s.taken, C) \in SUBSET (F \cap C)
    BY <2>2
  <2>4. IsFiniteSet(F \cap C) /\ Cardinality(F \cap C) \in Nat
    BY <1>5, FiniteLines
  <2>5. Cardinality(Reached(s.taken, C)) <= Cardinality(F \cap C)
    BY <2>3, <2>4, FS_Subset
  <2>6. Cardinality(Reached(s.taken, C)) \in Nat
    BY <2>3, <2>4, FS_Subset, FS_CardinalityType
  <2>7. c.counts[d] \in Nat /\ c.replay[d] \in Nat
    BY <1>1, <1>2
  <2> HIDE DEF C, c, d
  <2> QED BY ONLY <1>1, <1>3, <1>4, <2>4, <2>5, <2>6, <2>7
<1> QED BY <1>6

LEMMA OrderStep ==
  ASSUME NEW s, NEW F, NEW i, NEW a, NEW u, LineStep(s, F, i, a, u)
  PROVE  InOrder(u) /\ FedTaken(u, F \cup {i})
<1>0. Facts(s, F, i, a, u)
  BY StepFacts
<1>1. InOrder(s) /\ Dated(s) /\ FedTaken(s, F)
  BY DEF LineStep, CursorInv
<1>2. \A x \in LineNo : s.taken[x] > 0 => u.taken[x] > 0
  BY <1>0 DEF Facts
<1>3. InOrder(u)
  <2> SUFFICES ASSUME NEW j \in LineNo, NEW k \in LineNo, tail <= j, j < k,
                      ~Late(j), log[j].at # NoTime, u.taken[k] > 0
               PROVE  s.taken[j] > 0
    BY <1>2 DEF InOrder
  <2>1. CASE s.taken[k] > 0
    BY <1>1, <2>1 DEF InOrder
  <2>2. CASE ~(s.taken[k] > 0)
    <3>1. k = i
      BY <1>0, <2>2 DEF Facts
    <3> QED BY <3>1, BeforeTaken
  <2> QED BY <2>1, <2>2
<1>4. ASSUME tail <= i, ~Late(i), log[i].at # NoTime
      PROVE  u.taken[i] > 0
  <2>1. CASE a.keep
    BY <1>0, <2>1 DEF Facts
  <2>2. CASE LateSkip(s.cursor, log[i], a)
    <3>1. log[i].at < s.cursor.last /\ s.cursor.last # NoTime
      BY <1>0, <1>4, <2>2 DEF LateSkip, Facts
    <3>2. PICK y \in LineNo : s.taken[y] > 0 /\ log[y].at = s.cursor.last
      BY <1>1, <3>1 DEF Dated
    <3>3. y \in Nat /\ i \in Nat /\ 1 <= y /\ log[i].at \in Int /\ log[y].at \in Int
          /\ i \in LineNo
      BY <1>0 DEF Facts
    <3>4. ~(y < i)
      <4>1. y < i => y \in 1..(i - 1) /\ log[y].at > log[i].at
        BY <3>1, <3>2, <3>3
      <4> QED BY <1>4, <4>1 DEF Late
    <3>5. y # i
      BY <3>1, <3>2, <3>3
    <3>6. i < y
      BY <3>3, <3>4, <3>5
    <3> QED BY <1>1, <1>2, <1>4, <3>2, <3>3, <3>6 DEF InOrder
  <2>3. CASE Replayed(s.cursor, log[i], a)
    <3>1. s.taken[i] > 0
      BY <1>4, <2>3, ReplayedTaken
    <3> QED BY <1>0, <1>2, <3>1 DEF Facts
  <2>4. a.keep \/ LateSkip(s.cursor, log[i], a) \/ Replayed(s.cursor, log[i], a)
    BY DEF LineStep, KeptOn, Overflowed, Counted, Newer
  <2> QED BY <2>1, <2>2, <2>3, <2>4
<1>5. FedTaken(u, F \cup {i})
  <2> SUFFICES ASSUME NEW j \in F \cup {i}, tail <= j, ~Late(j), log[j].at # NoTime
               PROVE  u.taken[j] > 0
    BY DEF FedTaken
  <2>1. CASE j \in F
    <3>1. s.taken[j] > 0
      BY <1>1, <2>1 DEF FedTaken
    <3>2. j \in LineNo
      BY <1>0, <2>1 DEF Facts
    <3> QED BY <1>2, <3>1, <3>2
  <2>2. CASE j = i
    BY <1>4, <2>2
  <2> QED BY <2>1, <2>2
<1> QED BY <1>3, <1>5

LEMMA ShapeStep ==
  ASSUME NEW s, NEW F, NEW i, NEW a, NEW u, LineStep(s, F, i, a, u)
  PROVE  CursorShape(u.cursor) /\ Asked(u.cursor)
<1>0. Facts(s, F, i, a, u)
  BY StepFacts
<1> DEFINE c == s.cursor
           d == log[i].kind
<1>1. CursorShape(c) /\ Asked(c)
  BY DEF LineStep, CursorInv
<1>2. /\ d \in Kinds /\ u.cursor = a.cursor /\ NoTime = -1
      /\ c.last \in Int /\ (c.last = -1 \/ c.last \in Nat)
      /\ (log[i].at = -1 \/ log[i].at \in Nat) /\ log[i].at \in Int
  BY <1>0 DEF Facts
<1>3. c.counts \in [Kinds -> Nat] /\ c.replay \in [Kinds -> Nat]
  BY <1>0 DEF Facts, CursorType, Counter
<1>4. CASE a.cursor = c
  BY <1>1, <1>2, <1>4
<1>5. CASE Replayed(c, log[i], a)
  <2>1. /\ a.cursor.last = c.last /\ a.cursor.counts = c.counts
        /\ a.cursor.replay = [c.replay EXCEPT ![d] = @ - 1]
        /\ c.replay[d] > 0 /\ c.last # NoTime
        /\ a.cursor.replaying => a.cursor.replay # Nothing
    BY <1>5 DEF Replayed
  <2>2. \A k \in Kinds : a.cursor.replay[k] <= a.cursor.counts[k]
    <3> TAKE k \in Kinds
    <3>1. c.replay[k] <= c.counts[k]
      BY <1>1 DEF CursorShape
    <3> HIDE DEF c, d
    <3>2. c.replay[k] \in Nat /\ c.counts[k] \in Nat
      BY <1>3
    <3>3. a.cursor.replay[k] = IF k = d THEN c.replay[d] - 1 ELSE c.replay[k]
      BY <1>3, <2>1
    <3> QED BY <2>1, <3>1, <3>2, <3>3
  <2>3. c.replay # Nothing
    BY <1>2, <2>1, NothingOK
  <2> QED BY <1>1, <1>2, <2>1, <2>2, <2>3 DEF CursorShape, Asked
<1>6. CASE Counted(c, log[i], a)
  <2>1. /\ a.cursor.last = c.last /\ a.cursor.replay = c.replay
        /\ a.cursor.counts = [c.counts EXCEPT ![d] = @ + 1]
        /\ a.cursor.replaying = c.replaying /\ c.last # NoTime
    BY <1>6 DEF Counted
  <2>2. /\ \A k \in Kinds : a.cursor.replay[k] <= a.cursor.counts[k]
        /\ a.cursor.counts # Nothing
    <3> HIDE DEF c, d
    <3>1. \A k \in Kinds :
             a.cursor.counts[k] = IF k = d THEN c.counts[d] + 1 ELSE c.counts[k]
      BY <1>3, <2>1
    <3>2. \A k \in Kinds : c.replay[k] <= c.counts[k]
      BY <1>1 DEF CursorShape
    <3>3. ASSUME NEW k \in Kinds PROVE a.cursor.replay[k] <= a.cursor.counts[k]
      <4>1. c.replay[k] \in Nat /\ c.counts[k] \in Nat
        BY <1>3
      <4> QED BY <2>1, <3>1, <3>2, <4>1
    <3>4. a.cursor.counts[d] # 0
      <4>1. c.counts[d] \in Nat
        BY <1>2, <1>3
      <4> QED BY <1>2, <3>1, <4>1
    <3> QED BY <1>2, <3>3, <3>4, NothingOK
  <2> QED BY <1>1, <1>2, <2>1, <2>2 DEF CursorShape, Asked
<1>7. CASE Newer(c, log[i], a)
  <2>1. /\ a.cursor.last = log[i].at /\ log[i].at > c.last
        /\ a.cursor.counts = [Nothing EXCEPT ![d] = 1]
        /\ a.cursor.replay = Nothing /\ ~a.cursor.replaying
    BY <1>7 DEF Newer
  <2>2. /\ \A k \in Kinds : a.cursor.replay[k] <= a.cursor.counts[k]
        /\ a.cursor.counts # Nothing
    <3> HIDE DEF c, d
    <3>1. \A k \in Kinds : a.cursor.counts[k] = IF k = d THEN 1 ELSE 0
      BY <1>2, <2>1, NothingOK DEF Counter
    <3> QED BY <1>2, <2>1, <3>1, NothingOK
  <2>3. log[i].at # NoTime
    BY <1>2, <2>1
  <2>4. conn.since <= c.last /\ conn.since \in Int
    BY <1>0, <1>1 DEF Asked, Facts
  <2>5. conn.since <= a.cursor.last
    BY <1>2, <2>1, <2>4
  <2> QED BY <1>1, <1>2, <2>1, <2>2, <2>3, <2>5 DEF CursorShape, Asked
<1>8. a.cursor = c \/ Replayed(c, log[i], a) \/ Counted(c, log[i], a) \/ Newer(c, log[i], a)
  BY DEF LineStep, KeptOn, LateSkip, Overflowed
<1> QED BY <1>4, <1>5, <1>6, <1>7, <1>8

LEMMA DatedStep ==
  ASSUME NEW s, NEW F, NEW i, NEW a, NEW u, LineStep(s, F, i, a, u)
  PROVE  Dated(u) /\ Untimed(u)
<1>0. Facts(s, F, i, a, u)
  BY StepFacts
<1>1. Dated(s) /\ Untimed(s)
  BY DEF LineStep, CursorInv
<1>2. \A x \in LineNo : /\ s.taken[x] > 0 => u.taken[x] > 0
                      /\ u.taken[x] > 0 => s.taken[x] > 0 \/ (x = i /\ a.keep)
  BY <1>0 DEF Facts
<1>3. CASE Newer(s.cursor, log[i], a)
  <2>1. a.keep /\ a.cursor.last = log[i].at /\ log[i].at > s.cursor.last
    BY <1>3 DEF Newer
  <2>2. u.taken[i] > 0 /\ i \in LineNo /\ u.cursor.last = log[i].at
    BY <1>0, <2>1 DEF Facts
  <2>3. \A x \in LineNo : u.taken[x] > 0 => log[x].at <= u.cursor.last
    <3> TAKE x \in LineNo
    <3> HAVE u.taken[x] > 0
    <3>1. log[x].at \in Int /\ log[i].at \in Int /\ s.cursor.last \in Int
      BY <1>0, <2>2 DEF Facts
    <3>2. log[x].at <= s.cursor.last \/ x = i
      BY <1>1, <1>2 DEF Dated
    <3> QED BY <2>1, <2>2, <3>1, <3>2
  <2>4. Untimed(u)
    <3>1. log[i].at # NoTime
      BY <1>0, <2>1, <2>2 DEF Facts
    <3> QED BY <1>0, <1>1, <1>2, <3>1 DEF Untimed, Facts
  <2> QED BY <2>2, <2>3, <2>4 DEF Dated
<1>4. CASE ~Newer(s.cursor, log[i], a)
  <2>1. u.cursor.last = s.cursor.last
    BY <1>0, <1>4 DEF LineStep, KeptOn, LateSkip, Replayed, Overflowed, Counted, Facts
  <2>2. a.keep => log[i].at <= s.cursor.last
    <3>1. a.keep => \/ log[i].at = NoTime \/ log[i].at < s.cursor.last
                    \/ log[i].at = s.cursor.last
      BY <1>4 DEF LineStep, KeptOn, LateSkip, Replayed, Overflowed, Counted
    <3>2. log[i].at \in Int /\ s.cursor.last \in Int /\ s.cursor.last >= -1 /\ NoTime = -1
      BY <1>0 DEF Facts
    <3> QED BY <3>1, <3>2
  <2>3. a.keep /\ log[i].at = NoTime => i \in u.marked
    <3>1. a.keep /\ log[i].at = NoTime => a.gap # "none"
      BY <1>4 DEF LineStep, KeptOn, LateSkip, Replayed, Overflowed, Counted
    <3> QED BY <3>1 DEF LineStep, Took
  <2>4. Dated(u)
    <3>1. \A x \in LineNo : u.taken[x] > 0 => log[x].at <= u.cursor.last
      BY <1>1, <1>2, <2>1, <2>2 DEF Dated
    <3>2. \A x \in LineNo : s.taken[x] > 0 => u.taken[x] > 0
      BY <1>0 DEF Facts
    <3> QED BY <1>1, <1>2, <2>1, <3>1, <3>2 DEF Dated
  <2>5. Untimed(u)
    BY <1>0, <1>1, <1>2, <2>3 DEF Untimed, Facts
  <2> QED BY <2>4, <2>5
<1> QED BY <1>3, <1>4

\* Nothing was accepted exactly where there are no acceptances.
LEMMA TimesEmpty ==
  ASSUME LogOK, NEW tk \in [LineNo -> Nat], NEW S \in SUBSET LineNo
  PROVE  (\A x \in S : ~(tk[x] > 0)) <=> Cardinality(Times(tk, S)) = 0
<1>1. \A x \in S : tk[x] \in Nat
  OBVIOUS
<1>2. (\A x \in S : ~(tk[x] > 0)) => Times(tk, S) = {}
  <2> SUFFICES ASSUME \A x \in S : ~(tk[x] > 0), NEW q \in Times(tk, S) PROVE FALSE
    OBVIOUS
  <2>1. PICK x \in S : q \in {x} \X (1..tk[x])
    BY DEF Times
  <2>2. tk[x] = 0
    BY <1>1
  <2> QED BY <2>1, <2>2
<1>3. ASSUME NEW x \in S, tk[x] > 0 PROVE Times(tk, S) # {}
  <2>1. <<x, 1>> \in {x} \X (1..tk[x])
    BY <1>1, <1>3
  <2> QED BY <2>1 DEF Times
<1>4. IsFiniteSet(Times(tk, S))
  BY TimesOK
<1> QED BY <1>2, <1>3, <1>4, FS_EmptySet

LEMMA FullMore ==
  ASSUME NEW c \in [Kinds -> Nat], NEW e \in [Kinds -> Nat],
         \A k \in Kinds : c[k] <= e[k], Full(c)
  PROVE  Full(e)
<1> DEFINE A == {k \in Kinds : c[k] > 0}
           B == {k \in Kinds : e[k] > 0}
<1>1. A \in SUBSET B
  <2> SUFFICES ASSUME NEW k \in Kinds, c[k] > 0 PROVE e[k] > 0
    OBVIOUS
  <2>1. c[k] \in Nat /\ e[k] \in Nat /\ c[k] <= e[k]
    OBVIOUS
  <2> QED BY <2>1
<1>2. IsFiniteSet(Kinds)
  <2>1. IsFiniteSet({"head"}) /\ IsFiniteSet({"cont"}) /\ IsFiniteSet({"blank"})
    BY FS_Singleton
  <2>2. IsFiniteSet({"head"} \cup {"cont"})
    BY <2>1, FS_Union
  <2>3. IsFiniteSet(({"head"} \cup {"cont"}) \cup {"blank"})
    BY <2>1, <2>2, FS_Union
  <2>4. Kinds = ({"head"} \cup {"cont"}) \cup {"blank"}
    BY DEF Kinds
  <2> QED BY <2>3, <2>4
<1>3. B \in SUBSET Kinds
  OBVIOUS
<1>4. IsFiniteSet(B)
  BY <1>2, <1>3, FS_Subset
<1> HIDE DEF A, B
<1>5. /\ Cardinality(A) <= Cardinality(B) /\ IsFiniteSet(A)
  BY <1>1, <1>4, FS_Subset
<1>6. Cardinality(A) \in Nat /\ Cardinality(B) \in Nat
  BY <1>4, <1>5, FS_CardinalityType
<1>7. CursorCapacity \in Nat
  BY StreamAssumption
<1> QED BY <1>5, <1>6, <1>7 DEF Full, A, B

\* What a step does to the numbers of a class.
LEMMA ClassStep ==
  ASSUME NEW s, NEW F, NEW i, NEW a, NEW u, LineStep(s, F, i, a, u),
         NEW C \in SUBSET LineNo
  PROVE  /\ Cardinality(C) \in Nat
         /\ Cardinality(Times(s.taken, C)) \in Nat
         /\ Cardinality(Reached(s.taken, C)) \in Nat
         /\ Cardinality(Reached(u.taken, C)) \in Nat
         /\ Cardinality(Reached(s.taken, C)) <= Cardinality(Reached(u.taken, C))
         /\ Cardinality(Reached(s.taken, C)) <= Cardinality(C)
         /\ Cardinality(Times(u.taken, C))
              = Cardinality(Times(s.taken, C)) + (IF a.keep /\ i \in C THEN 1 ELSE 0)
         /\ a.keep => \A T \in SUBSET C : (\A x \in T : x <= i) =>
              Cardinality(T) <= Cardinality(Reached(u.taken, C))
<1>0. Facts(s, F, i, a, u)
  BY StepFacts
<1>1. LogOK /\ s.taken \in [LineNo -> Nat] /\ i \in LineNo /\ u.taken \in [LineNo -> Nat]
  BY <1>0 DEF LineStep, Knowing, ConnOK, Facts
<1>2. /\ Cardinality(C) \in Nat
      /\ Cardinality(Times(s.taken, C)) \in Nat
  BY <1>1, FiniteLines, TimesOK
<1>3. /\ Cardinality(Reached(s.taken, C)) \in Nat
      /\ Cardinality(Reached(u.taken, C)) \in Nat
      /\ Cardinality(Reached(s.taken, C)) <= Cardinality(C)
  BY <1>1, ReachedMore
<1>4. CASE a.keep
  <2>1. u.taken = More(s.taken, i)
    BY <1>4 DEF LineStep, Took
  <2>2. Cardinality(Times(u.taken, C))
          = Cardinality(Times(s.taken, C)) + (IF i \in C THEN 1 ELSE 0)
    BY <1>1, <2>1, TimesMore
  <2>3. /\ Cardinality(Reached(s.taken, C)) <= Cardinality(Reached(u.taken, C))
        /\ \A T \in SUBSET C : (\A x \in T : x <= i) =>
              Cardinality(T) <= Cardinality(Reached(u.taken, C))
    BY <1>1, <2>1, ReachedMore
  <2> QED BY <1>2, <1>3, <1>4, <2>2, <2>3
<1>5. CASE ~a.keep
  <2>1. u.taken = s.taken
    BY <1>5 DEF LineStep, Took
  <2> QED BY <1>2, <1>3, <1>5, <2>1
<1> QED BY <1>4, <1>5

LEMMA CountsStep ==
  ASSUME NEW s, NEW F, NEW i, NEW a, NEW u, LineStep(s, F, i, a, u)
  PROVE  CountsTrue(u)
<1>0. Facts(s, F, i, a, u)
  BY StepFacts
<1>1. CountsTrue(s) /\ Dated(s) /\ SeenTrue(s, F)
  BY DEF LineStep, CursorInv
<1> DEFINE c == s.cursor
           e == a.cursor
           k == log[i].kind
<1>2. /\ c.counts \in [Kinds -> Nat] /\ c.replay \in [Kinds -> Nat]
      /\ e.counts \in [Kinds -> Nat] /\ k \in Kinds /\ u.cursor = e
      /\ i \in LineNo /\ s.marked \in SUBSET u.marked /\ NoTime = -1
      /\ c.last \in Int
  BY <1>0 DEF Facts, CursorType, Counter
<1> SUFFICES ASSUME e.last # NoTime, NEW d \in Kinds
             PROVE  LET n == e.counts[d]
                        C == Class(e.last, d)
                    IN  /\ \/ n = Cardinality(Times(u.taken, C))
                           \/ /\ n = 0 /\ Full(e.counts)
                              /\ \A x \in C : u.taken[x] > 0 => x \in u.marked
                        /\ n <= Cardinality(Reached(u.taken, C))
  BY <1>2 DEF CountsTrue
<1> DEFINE C == Class(e.last, d)
<1>3. C \in SUBSET LineNo /\ (i \in C <=> log[i].at = e.last /\ d = k)
  BY <1>2 DEF Class
<1>4. /\ Cardinality(C) \in Nat /\ Cardinality(Times(s.taken, C)) \in Nat
      /\ Cardinality(Reached(s.taken, C)) \in Nat
      /\ Cardinality(Reached(u.taken, C)) \in Nat
      /\ Cardinality(Reached(s.taken, C)) <= Cardinality(Reached(u.taken, C))
      /\ Cardinality(Times(u.taken, C))
           = Cardinality(Times(s.taken, C)) + (IF a.keep /\ i \in C THEN 1 ELSE 0)
      /\ a.keep => \A T \in SUBSET C : (\A x \in T : x <= i) =>
           Cardinality(T) <= Cardinality(Reached(u.taken, C))
  BY <1>3, ClassStep
<1>5. \A x \in LineNo : u.taken[x] > 0 => s.taken[x] > 0 \/ (x = i /\ a.keep)
  BY <1>0 DEF Facts
<1>6. CASE e.last = c.last
  <2>1. /\ \/ c.counts[d] = Cardinality(Times(s.taken, C))
           \/ /\ c.counts[d] = 0 /\ Full(c.counts)
              /\ \A x \in C : s.taken[x] > 0 => x \in s.marked
        /\ c.counts[d] <= Cardinality(Reached(s.taken, C))
    BY <1>1, <1>6 DEF CountsTrue
  <2>2. CASE e.counts = c.counts /\ (a.keep => i \notin C)
    <3>1. \A x \in C : u.taken[x] > 0 => s.taken[x] > 0
      BY <1>3, <1>5, <2>2
    <3>2. c.counts[d] \in Nat
      BY <1>2
    <3>3. e.counts[d] <= Cardinality(Reached(u.taken, C))
      <4> HIDE DEF c, e, C
      <4> QED BY ONLY <1>4, <2>1, <2>2, <3>2
    <3>4. Cardinality(Times(u.taken, C)) = Cardinality(Times(s.taken, C))
      <4> HIDE DEF c, e, C
      <4> QED BY ONLY <1>4, <2>2
    <3> HIDE DEF c, e, C
    <3>5. \/ e.counts[d] = Cardinality(Times(u.taken, C))
          \/ /\ e.counts[d] = 0 /\ Full(e.counts)
             /\ \A x \in C : u.taken[x] > 0 => x \in u.marked
      BY <1>2, <2>1, <2>2, <3>1, <3>4
    <3> QED BY <3>3, <3>5 DEF C
  <2>3. CASE Overflowed(c, log[i], a) /\ i \in C
    <3>1. e = c /\ c.counts[d] = 0 /\ Full(c.counts) /\ i \in u.marked
      <4>1. e = c /\ a.keep /\ a.gap # "none" /\ c.counts[k] = 0 /\ Full(c.counts)
        BY <2>3 DEF Overflowed
      <4>2. i \in u.marked
        BY <4>1 DEF LineStep, Took
      <4> QED BY <1>3, <2>3, <4>1, <4>2
    <3>2. \A x \in C : s.taken[x] > 0 => x \in s.marked
      <4>1. CASE c.counts[d] = Cardinality(Times(s.taken, C))
        <5>1. LogOK /\ s.taken \in [LineNo -> Nat]
          BY DEF LineStep, Knowing, ConnOK
        <5> HIDE DEF C
        <5> QED BY <1>3, <3>1, <4>1, <5>1, TimesEmpty
      <4> QED BY <2>1, <4>1
    <3>3. \A x \in C : u.taken[x] > 0 => x \in u.marked
      BY <1>2, <1>3, <1>5, <3>1, <3>2
    <3>4. e.counts[d] = 0 /\ Full(e.counts)
      BY <3>1
    <3>5. e.counts[d] <= Cardinality(Reached(u.taken, C))
      <4> HIDE DEF c, e, C
      <4> QED BY ONLY <1>4, <3>4
    <3> HIDE DEF c, e, C
    <3> QED BY <3>3, <3>4, <3>5 DEF C
  <2>4. CASE Counted(c, log[i], a)
    <3>1. /\ e.counts = [c.counts EXCEPT ![k] = @ + 1] /\ a.keep
          /\ log[i].at = c.last /\ c.last # NoTime /\ c.replay[k] = 0
          /\ c.counts[k] = 0 => ~Full(c.counts)
      BY <2>4 DEF Counted
    <3>2. \A x \in Kinds : e.counts[x] = IF x = k THEN c.counts[k] + 1 ELSE c.counts[x]
      <4> HIDE DEF c, e, k
      <4> QED BY ONLY <1>2, <3>1
    <3>3. \A x \in Kinds : c.counts[x] <= e.counts[x]
      <4> HIDE DEF c, e, k
      <4> TAKE x \in Kinds
      <4>1. c.counts[x] \in Nat
        BY <1>2
      <4> QED BY <3>2, <4>1
    <3>4. CASE d = k
      <4>1. i \in C
        BY <1>3, <1>6, <3>1, <3>4
      <4>2. c.counts[d] = Cardinality(Times(s.taken, C))
        BY <2>1, <3>1, <3>4
      <4>3. c.counts[d] = Cardinality(F \cap C)
        <5>1. \/ c.counts[d] = c.replay[d] + Cardinality(F \cap C)
              \/ c.counts[d] = 0 /\ Full(c.counts)
          BY <1>1, <1>6, <3>1 DEF SeenTrue
        <5>2. Cardinality(F \cap C) \in Nat
          <6>1. LogOK /\ F \cap C \in SUBSET LineNo
            BY <1>3 DEF LineStep, ConnOK
          <6> QED BY <6>1, FiniteLines
        <5> HIDE DEF c, C
        <5> QED BY ONLY <3>1, <3>4, <5>1, <5>2
      <4>4. Cardinality((F \cap C) \cup {i}) = Cardinality(F \cap C) + 1
        <5>1. LogOK /\ F \cap C \in SUBSET LineNo /\ i \notin F
          BY <1>0, <1>3 DEF LineStep, ConnOK, Facts
        <5>2. IsFiniteSet(F \cap C)
          BY <5>1, FiniteLines
        <5> QED BY <5>1, <5>2, FS_AddElement
      <4>5. Cardinality((F \cap C) \cup {i}) <= Cardinality(Reached(u.taken, C))
        <5>1. (F \cap C) \cup {i} \in SUBSET C
          BY <4>1
        <5>2. \A x \in (F \cap C) \cup {i} : x <= i
          <6> HIDE DEF C
          <6>1. \A x \in F : x <= i
            BY <1>0 DEF Facts
          <6>2. i <= i
            BY <1>0 DEF Facts
          <6> QED BY ONLY <6>1, <6>2
        <5> HIDE DEF C
        <5> QED BY <1>4, <3>1, <5>1, <5>2
      <4>6. e.counts[d] = c.counts[d] + 1
        BY <3>2, <3>4
      <4>7. Cardinality(Times(u.taken, C)) = Cardinality(Times(s.taken, C)) + 1
        BY <1>4, <3>1, <4>1
      <4>8. e.counts[d] = Cardinality(Times(u.taken, C))
            /\ e.counts[d] <= Cardinality(Reached(u.taken, C))
        <5> HIDE DEF c, e, C
        <5> QED BY ONLY <4>2, <4>3, <4>4, <4>5, <4>6, <4>7
      <4> QED BY <4>8
    <3>5. CASE d # k
      <4>1. i \notin C /\ e.counts[d] = c.counts[d] /\ c.counts[d] \in Nat
        BY <1>2, <1>3, <3>2, <3>5
      <4>2. \A x \in C : u.taken[x] > 0 => s.taken[x] > 0
        BY <1>3, <1>5, <4>1
      <4>3. Cardinality(Times(u.taken, C)) = Cardinality(Times(s.taken, C))
        <5> HIDE DEF C
        <5> QED BY ONLY <1>4, <4>1
      <4>4. e.counts[d] <= Cardinality(Reached(u.taken, C))
        <5> HIDE DEF c, e, C
        <5> QED BY ONLY <1>4, <2>1, <4>1
      <4>5. Full(c.counts) => Full(e.counts)
        <5> HIDE DEF c, e
        <5> QED BY <1>1, <1>2, <3>3, FullMore
      <4> HIDE DEF c, e, C
      <4>6. \/ e.counts[d] = Cardinality(Times(u.taken, C))
            \/ /\ e.counts[d] = 0 /\ Full(e.counts)
               /\ \A x \in C : u.taken[x] > 0 => x \in u.marked
        BY <1>2, <2>1, <4>1, <4>2, <4>3, <4>5
      <4> QED BY <4>4, <4>6 DEF C
    <3> QED BY <3>4, <3>5
  <2>5. \/ e.counts = c.counts /\ (a.keep => i \notin C)
        \/ Overflowed(c, log[i], a) /\ i \in C
        \/ Counted(c, log[i], a)
    <3>1. CASE KeptOn(c, log[i], a)
      <4>1. e = c /\ (log[i].at = NoTime \/ log[i].at < c.last)
        BY <3>1 DEF KeptOn
      <4>2. log[i].at # e.last
        BY <1>2, <1>6, <4>1
      <4> QED BY <1>3, <4>1, <4>2
    <3>2. CASE LateSkip(c, log[i], a) \/ Replayed(c, log[i], a)
      BY <3>2 DEF LateSkip, Replayed
    <3>3. CASE Overflowed(c, log[i], a)
      BY <3>3 DEF Overflowed
    <3>4. ~Newer(c, log[i], a)
      BY <1>2, <1>6 DEF Newer
    <3> QED BY <3>1, <3>2, <3>3, <3>4 DEF LineStep
  <2> QED BY <2>2, <2>3, <2>4, <2>5
<1>7. CASE e.last # c.last
  <2>1. /\ a.keep /\ e.last = log[i].at /\ log[i].at > c.last
        /\ e.counts = [Nothing EXCEPT ![k] = 1]
    <3>1. Newer(c, log[i], a)
      BY <1>7 DEF LineStep, KeptOn, LateSkip, Replayed, Overflowed, Counted
    <3> QED BY <3>1 DEF Newer
  <2>2. e.counts[d] = IF d = k THEN 1 ELSE 0
    <3> HIDE DEF e, k
    <3> QED BY <1>2, <2>1, NothingOK DEF Counter
  <2>3. Cardinality(Times(s.taken, C)) = 0
    <3>1. \A x \in C : ~(s.taken[x] > 0)
      <4> TAKE x \in C
      <4>1. log[x].at = e.last /\ x \in LineNo
        BY DEF Class
      <4>2. log[i].at \in Int
        BY <1>0 DEF Facts
      <4>3. ~(log[x].at <= c.last)
        BY <1>2, <2>1, <4>1, <4>2
      <4> QED BY <1>1, <4>1, <4>3 DEF Dated
    <3>2. LogOK /\ s.taken \in [LineNo -> Nat]
      BY DEF LineStep, Knowing, ConnOK
    <3> HIDE DEF C
    <3> QED BY <1>3, <3>1, <3>2, TimesEmpty
  <2>4. i \in C <=> d = k
    BY <1>3, <2>1
  <2>5. d = k => 1 <= Cardinality(Reached(u.taken, C))
    <3> HAVE d = k
    <3>1. {i} \in SUBSET C /\ \A x \in {i} : x <= i
      BY <1>0, <2>4 DEF Facts
    <3>2. Cardinality({i}) = 1
      BY FS_Singleton
    <3> HIDE DEF C
    <3> QED BY <1>4, <2>1, <3>1, <3>2
  <2>6. e.counts[d] = Cardinality(Times(u.taken, C))
        /\ e.counts[d] <= Cardinality(Reached(u.taken, C))
    <3> HIDE DEF e, C, k
    <3> QED BY ONLY <1>4, <2>1, <2>2, <2>3, <2>4, <2>5
  <2> QED BY <2>6
<1> QED BY <1>6, <1>7

LEMMA OldStep ==
  ASSUME NEW s, NEW F, NEW i, NEW a, NEW u, LineStep(s, F, i, a, u)
  PROVE  OldOnce(u)
<1>0. Facts(s, F, i, a, u)
  BY StepFacts
<1>1. CountsTrue(s) /\ Dated(s) /\ OldOnce(s)
  BY DEF LineStep, CursorInv
<1>2. LogOK /\ s.taken \in [LineNo -> Nat]
  BY DEF LineStep, Knowing, ConnOK
<1> DEFINE c == s.cursor
<1>3. /\ u.cursor = a.cursor /\ i \in LineNo /\ s.marked \in SUBSET u.marked
      /\ c.last \in Int /\ a.cursor.last \in Int /\ NoTime = -1
      /\ c.last = -1 \/ c.last \in Nat
  BY <1>0 DEF Facts
<1> SUFFICES ASSUME NEW t \in Nat, NEW d \in Kinds, t < a.cursor.last
             PROVE  LET C == Class(t, d)
                    IN  \/ Cardinality(Times(u.taken, C)) <= Cardinality(C)
                        \/ C \cap u.marked # {}
  BY <1>3 DEF OldOnce
<1> DEFINE C == Class(t, d)
<1>4. C \in SUBSET LineNo /\ (i \in C => log[i].at = t /\ log[i].kind = d)
  BY DEF Class
<1>5. /\ Cardinality(C) \in Nat /\ Cardinality(Times(s.taken, C)) \in Nat
      /\ Cardinality(Reached(s.taken, C)) \in Nat
      /\ Cardinality(Reached(s.taken, C)) <= Cardinality(C)
      /\ Cardinality(Times(u.taken, C))
           = Cardinality(Times(s.taken, C)) + (IF a.keep /\ i \in C THEN 1 ELSE 0)
  BY <1>4, ClassStep
<1>6. \/ Cardinality(Times(s.taken, C)) <= Cardinality(C)
      \/ C \cap s.marked # {}
  <2>1. CASE t < c.last
    BY <1>1, <2>1 DEF OldOnce
  <2>2. CASE t = c.last
    <3>1. c.last # NoTime
      BY <1>3, <2>2
    <3>2. /\ \/ c.counts[d] = Cardinality(Times(s.taken, C))
             \/ /\ c.counts[d] = 0 /\ Full(c.counts)
                /\ \A x \in C : s.taken[x] > 0 => x \in s.marked
          /\ c.counts[d] <= Cardinality(Reached(s.taken, C))
      BY <1>1, <2>2, <3>1 DEF CountsTrue
    <3> HIDE DEF c, C
    <3>3. CASE c.counts[d] = Cardinality(Times(s.taken, C))
      BY ONLY <1>5, <3>2, <3>3
    <3>4. CASE \A x \in C : s.taken[x] > 0 => x \in s.marked
      <4>1. CASE \A x \in C : ~(s.taken[x] > 0)
        <5>1. Cardinality(Times(s.taken, C)) = 0
          BY <1>2, <1>4, <4>1, TimesEmpty
        <5> QED BY <1>5, <5>1
      <4>2. CASE \E x \in C : s.taken[x] > 0
        BY <3>4, <4>2
      <4> QED BY <4>1, <4>2
    <3> QED BY <3>2, <3>3, <3>4
  <2>3. CASE t > c.last
    <3>1. \A x \in C : ~(s.taken[x] > 0)
      <4> TAKE x \in C
      <4>1. log[x].at = t /\ x \in LineNo
        BY DEF Class
      <4>2. ~(log[x].at <= c.last)
        BY <1>3, <2>3, <4>1
      <4> QED BY <1>1, <4>1, <4>2 DEF Dated
    <3> HIDE DEF C
    <3>2. Cardinality(Times(s.taken, C)) = 0
      BY <1>2, <1>4, <3>1, TimesEmpty
    <3> QED BY <1>5, <3>2
  <2> QED BY <1>3, <2>1, <2>2, <2>3
<1>7. CASE ~(a.keep /\ i \in C)
  <2> HIDE DEF C
  <2>1. Cardinality(Times(u.taken, C)) = Cardinality(Times(s.taken, C))
    BY ONLY <1>5, <1>7
  <2> QED BY <1>3, <1>6, <2>1 DEF C
<1>8. CASE a.keep /\ i \in C
  <2>1. log[i].at = t
    BY <1>4, <1>8
  <2>2. KeptOn(c, log[i], a)
    <3>1. CASE Overflowed(c, log[i], a) \/ Counted(c, log[i], a) \/ Newer(c, log[i], a)
      <4>1. a.cursor.last = log[i].at
        BY <3>1 DEF Overflowed, Counted, Newer
      <4> QED BY <2>1, <4>1
    <3>2. CASE LateSkip(c, log[i], a) \/ Replayed(c, log[i], a)
      BY <1>8, <3>2 DEF LateSkip, Replayed
    <3> QED BY <3>1, <3>2 DEF LineStep
  <2>3. i \in u.marked
    <3>1. a.gap # "none"
      BY <2>2 DEF KeptOn
    <3> QED BY <1>8, <3>1 DEF LineStep, Took
  <2> QED BY <1>8, <2>3
<1> QED BY <1>7, <1>8

LEMMA SeenStep ==
  ASSUME NEW s, NEW F, NEW i, NEW a, NEW u, LineStep(s, F, i, a, u)
  PROVE  SeenTrue(u, F \cup {i})
<1>0. Facts(s, F, i, a, u)
  BY StepFacts
<1>1. SeenTrue(s, F) /\ LogOK /\ CursorShape(s.cursor)
  BY DEF LineStep, ConnOK, CursorInv
<1> DEFINE c == s.cursor
           e == a.cursor
           k == log[i].kind
           G == F \cup {i}
<1>2. /\ c.counts \in [Kinds -> Nat] /\ c.replay \in [Kinds -> Nat]
      /\ e.counts \in [Kinds -> Nat] /\ e.replay \in [Kinds -> Nat]
      /\ k \in Kinds /\ u.cursor = e /\ i \in LineNo /\ F \in SUBSET LineNo /\ i \notin F
      /\ c.last \in Int /\ e.last \in Int /\ NoTime = -1 /\ log[i].at \in Int
      /\ \A x \in F : log[x].at \in Int
      /\ c.last = -1 \/ c.last \in Nat
  BY <1>0 DEF Facts, CursorType, Counter
<1>3. \A S \in SUBSET LineNo : Cardinality(F \cap S) \in Nat
      /\ Cardinality(G \cap S) = Cardinality(F \cap S) + (IF i \in S THEN 1 ELSE 0)
  <2> TAKE S \in SUBSET LineNo
  <2>1. IsFiniteSet(F \cap S) /\ Cardinality(F \cap S) \in Nat
    BY <1>1, <1>2, FiniteLines
  <2>2. CASE i \in S
    <3>1. G \cap S = (F \cap S) \cup {i} /\ i \notin F \cap S
      BY <1>2, <2>2
    <3> HIDE DEF G
    <3> QED BY <2>1, <2>2, <3>1, FS_AddElement
  <2>3. CASE i \notin S
    <3>1. G \cap S = F \cap S
      BY <2>3
    <3> HIDE DEF G
    <3> QED BY ONLY <2>1, <2>3, <3>1
  <2> QED BY <2>2, <2>3
<1>4. c.last <= e.last /\ log[i].at <= e.last
  <2>1. CASE Newer(c, log[i], a)
    BY <1>2, <2>1 DEF Newer
  <2>2. CASE ~Newer(c, log[i], a)
    <3>1. e.last = c.last /\ (log[i].at = NoTime \/ log[i].at < c.last \/ log[i].at = c.last)
      BY <2>2 DEF LineStep, KeptOn, LateSkip, Replayed, Overflowed, Counted
    <3> QED BY <1>2, <3>1
  <2> QED BY <2>1, <2>2
<1>5. \A x \in G : log[x].at <= e.last
  <2>1. ASSUME NEW x \in F PROVE log[x].at <= e.last
    <3>1. log[x].at <= c.last
      BY <1>1 DEF SeenTrue
    <3> QED BY <1>2, <1>4, <3>1
  <2> QED BY <1>4, <2>1
<1>6. ASSUME e.last # NoTime, NEW d \in Kinds
      PROVE  \/ e.counts[d] = e.replay[d] + Cardinality(G \cap Class(e.last, d))
             \/ e.counts[d] = 0 /\ Full(e.counts)
  <2> DEFINE C == Class(e.last, d)
  <2>1. C \in SUBSET LineNo /\ (i \in C <=> log[i].at = e.last /\ d = k)
    BY <1>2 DEF Class
  <2>2. /\ Cardinality(F \cap C) \in Nat
        /\ Cardinality(G \cap C) = Cardinality(F \cap C) + (IF i \in C THEN 1 ELSE 0)
    BY <1>3, <2>1
  <2>3. e.last = c.last =>
          \/ c.counts[d] = c.replay[d] + Cardinality(F \cap C)
          \/ c.counts[d] = 0 /\ Full(c.counts)
    BY <1>1, <1>6 DEF SeenTrue
  <2>4. c.counts[d] \in Nat /\ c.replay[d] \in Nat /\ c.replay[d] <= c.counts[d]
    BY <1>1, <1>2 DEF CursorShape
  <2>5. CASE e = c
    <3>1. i \in C => c.counts[d] = 0 /\ Full(c.counts)
      <4>1. CASE KeptOn(c, log[i], a) \/ LateSkip(c, log[i], a)
        <5>1. log[i].at # e.last
          BY <1>2, <1>6, <2>5, <4>1 DEF KeptOn, LateSkip
        <5> QED BY <2>1, <5>1
      <4>2. CASE Overflowed(c, log[i], a)
        BY <2>1, <4>2 DEF Overflowed
      <4>3. CASE Replayed(c, log[i], a)
        <5>1. c.replay[k] > 0 /\ c.replay = [c.replay EXCEPT ![k] = @ - 1]
          BY <2>5, <4>3 DEF Replayed
        <5> HIDE DEF c, k
        <5>2. c.replay[k] = c.replay[k] - 1 /\ c.replay[k] \in Nat
          BY <1>2, <5>1
        <5> QED BY <5>2
      <4>4. CASE Counted(c, log[i], a)
        <5>1. c.counts = [c.counts EXCEPT ![k] = @ + 1]
          BY <2>5, <4>4 DEF Counted
        <5> HIDE DEF c, k
        <5>2. c.counts[k] = c.counts[k] + 1 /\ c.counts[k] \in Nat
          BY <1>2, <5>1
        <5> QED BY <5>2
      <4>5. ~Newer(c, log[i], a)
        BY <1>2, <2>5 DEF Newer
      <4> QED BY <4>1, <4>2, <4>3, <4>4, <4>5 DEF LineStep
    <3> HIDE DEF c, e, C, G
    <3>2. CASE i \in C
      BY <2>5, <3>1, <3>2
    <3>3. CASE i \notin C
      <4>1. Cardinality(G \cap C) = Cardinality(F \cap C)
        BY <2>2, <3>3
      <4> QED BY <2>3, <2>5, <4>1 DEF C
    <3> QED BY <3>2, <3>3
  <2>6. CASE Replayed(c, log[i], a)
    <3>1. /\ log[i].at = c.last /\ c.replay[k] > 0
          /\ e.last = c.last /\ e.counts = c.counts
          /\ e.replay = [c.replay EXCEPT ![k] = @ - 1]
      BY <2>6 DEF Replayed
    <3>2. e.replay[d] = IF d = k THEN c.replay[k] - 1 ELSE c.replay[d]
      <4> HIDE DEF c, e, k
      <4> QED BY ONLY <1>2, <1>6, <3>1
    <3>3. i \in C <=> d = k
      BY <2>1, <3>1
    <3> HIDE DEF c, e, C, G, k
    <3>4. \/ e.counts[d] = e.replay[d] + Cardinality(G \cap C)
          \/ e.counts[d] = 0 /\ Full(e.counts)
      BY <2>2, <2>3, <2>4, <3>1, <3>2, <3>3
    <3> QED BY <3>4 DEF C
  <2>7. CASE Counted(c, log[i], a)
    <3>1. /\ log[i].at = c.last /\ c.replay[k] = 0
          /\ c.counts[k] = 0 => ~Full(c.counts)
          /\ e.last = c.last /\ e.replay = c.replay
          /\ e.counts = [c.counts EXCEPT ![k] = @ + 1]
      BY <2>7 DEF Counted
    <3>2. \A x \in Kinds : e.counts[x] = IF x = k THEN c.counts[k] + 1 ELSE c.counts[x]
      <4> HIDE DEF c, e, k
      <4> QED BY ONLY <1>2, <3>1
    <3>3. i \in C <=> d = k
      BY <2>1, <3>1
    <3>4. Full(c.counts) => Full(e.counts)
      <4> HIDE DEF c, e, k
      <4>1. \A x \in Kinds : c.counts[x] <= e.counts[x]
        <5> TAKE x \in Kinds
        <5>1. c.counts[x] \in Nat
          BY <1>2
        <5> QED BY <3>2, <5>1
      <4> QED BY <1>1, <1>2, <4>1, FullMore
    <3>5. e.counts[d] = IF d = k THEN c.counts[k] + 1 ELSE c.counts[d]
      BY <1>6, <3>2
    <3> HIDE DEF c, e, C, G, k
    <3>6. \/ e.counts[d] = e.replay[d] + Cardinality(G \cap C)
          \/ e.counts[d] = 0 /\ Full(e.counts)
      <4>1. CASE d = k
        BY ONLY <2>2, <2>3, <2>4, <3>1, <3>3, <3>5, <4>1
      <4>2. CASE d # k
        BY <2>2, <2>3, <2>4, <3>1, <3>3, <3>4, <3>5, <4>2
      <4> QED BY <4>1, <4>2
    <3> QED BY <3>6 DEF C
  <2>8. CASE Newer(c, log[i], a)
    <3>1. /\ e.last = log[i].at /\ log[i].at > c.last /\ e.replay = Nothing
          /\ e.counts = [Nothing EXCEPT ![k] = 1]
      BY <2>8 DEF Newer
    <3>2. e.counts[d] = IF d = k THEN 1 ELSE 0
      <4> HIDE DEF c, e, k
      <4> QED BY <1>2, <1>6, <3>1, NothingOK DEF Counter
    <3>3. i \in C <=> d = k
      BY <2>1, <3>1
    <3>4. F \cap C = {}
      <4> SUFFICES ASSUME NEW x \in F \cap C PROVE FALSE
        OBVIOUS
      <4>1. log[x].at = e.last /\ log[x].at <= c.last
        BY <1>1 DEF SeenTrue, Class
      <4> QED BY <1>2, <3>1, <4>1
    <3>5. Cardinality(F \cap C) = 0
      BY <3>4, FS_EmptySet
    <3>6. e.replay[d] = 0
      BY <1>6, <3>1, NothingOK
    <3> HIDE DEF c, e, C, G, k
    <3>7. e.counts[d] = e.replay[d] + Cardinality(G \cap C)
      BY ONLY <2>2, <3>2, <3>3, <3>5, <3>6
    <3> QED BY <3>7 DEF C
  <2> QED BY <2>5, <2>6, <2>7, <2>8 DEF LineStep, KeptOn, LateSkip, Overflowed
<1> QED BY <1>2, <1>5, <1>6 DEF SeenTrue

\* The cursor and its histories stay true with every line.
LEMMA CursorStep ==
  ASSUME NEW s, NEW F, NEW i, NEW a, NEW u, LineStep(s, F, i, a, u)
  PROVE  /\ CursorInv(u) /\ SeenTrue(u, F \cup {i}) /\ FedTaken(u, F \cup {i})
         /\ Asked(u.cursor)
BY ShapeStep, DatedStep, CountsStep, OldStep, OrderStep, SeenStep DEF CursorInv

-----------------------------------------------------------------------------
\* What a line does to the frames.

SameFrames(s, u) == u.pending.lines = s.pending.lines /\ u.out = s.out
LineAppended(s, u, i) ==
  /\ s.pending.lines # <<>> /\ u.out = s.out
  /\ u.pending.lines = Append(s.pending.lines, i)
FrameStarted(s, u, i) ==
  /\ u.pending.lines = <<i>>
  /\ u.out = IF s.pending.lines = <<>> THEN s.out ELSE Append(s.out, s.pending)

LEMMA FlushOK ==
  ASSUME NEW t \in ScanType
  PROVE  LET u == Flush(t)
         IN  /\ u \in ScanType /\ u.cursor = t.cursor /\ u.taken = t.taken
             /\ u.cut = t.cut /\ u.marked = t.marked /\ u.pending.lines = <<>>
             /\ u.out = IF t.pending.lines = <<>> THEN t.out
                        ELSE Append(t.out, t.pending)
<1>1. t.pending \in Frame /\ t.out \in Seq(Frame)
  BY DEF ScanType
<1> DEFINE out == IF t.pending.lines = <<>> THEN t.out ELSE Append(t.out, t.pending)
<1>2. out \in Seq(Frame)
  BY <1>1, AppendProperties
<1>3. NoFrame \in Frame /\ NoFrame.lines = <<>>
  BY EmptySeq DEF NoFrame, Frame
<1>4. Flush(t) = [t EXCEPT !.out = out, !.pending = NoFrame]
  <2>1. CASE t.pending.lines = <<>>
    <3>1. [t EXCEPT !.pending = NoFrame] = [t EXCEPT !.out = t.out, !.pending = NoFrame]
      BY DEF ScanType
    <3> QED BY <2>1, <3>1 DEF Flush
  <2>2. CASE t.pending.lines # <<>>
    BY <2>2 DEF Flush
  <2> QED BY <2>1, <2>2
<1> HIDE DEF out
<1>5. LET u == [t EXCEPT !.out = out, !.pending = NoFrame]
      IN  /\ u \in ScanType /\ u.cursor = t.cursor /\ u.taken = t.taken
          /\ u.cut = t.cut /\ u.marked = t.marked /\ u.pending = NoFrame
          /\ u.out = out
  BY <1>2, <1>3 DEF ScanType
<1> QED BY <1>3, <1>4, <1>5 DEF out

\* What a finished line leaves: nothing, or an acceptance and its frames.
Finished(s, i, p, a, u) ==
  /\ u \in ScanType /\ u.cursor = a.cursor
  /\ ~a.keep => /\ u.taken = s.taken /\ u.cut = s.cut /\ u.marked = s.marked
                /\ SameFrames(s, u)
  /\ a.keep =>
       /\ u.taken = [s.taken EXCEPT ![i] = @ + (IF p THEN 0 ELSE 1)]
       /\ u.cut = [s.cut EXCEPT ![i] = @ + (IF p THEN 1 ELSE 0)]
       /\ u.marked = IF a.gap = "none" THEN s.marked ELSE s.marked \cup {i}
       /\ \/ log[i].kind = "blank" /\ ~p /\ SameFrames(s, u)
          \/ /\ log[i].kind # "blank" \/ p
             /\ LineAppended(s, u, i) \/ FrameStarted(s, u, i)

LEMMA FinishLineIs ==
  ASSUME LogOK, NEW s \in ScanType, NEW i \in LineNo, NEW p \in BOOLEAN,
         NEW a, a = Accept(s.cursor, log[i], p), a.cursor \in CursorType,
         NEW u, u = FinishLine(s, i, p)
  PROVE  Finished(s, i, p, a, u)
<1> USE DEF Finished
<1> DEFINE tk == [s.taken EXCEPT ![i] = @ + (IF p THEN 0 ELSE 1)]
           ct == [s.cut EXCEPT ![i] = @ + (IF p THEN 1 ELSE 0)]
           mk == IF a.gap = "none" THEN s.marked ELSE s.marked \cup {i}
           t == [s EXCEPT !.cursor = a.cursor, !.taken = tk, !.cut = ct, !.marked = mk]
<1>1. /\ s.cursor \in CursorType /\ s.pending \in Frame /\ s.out \in Seq(Frame)
      /\ s.taken \in [LineNo -> Nat] /\ s.cut \in [LineNo -> Nat] /\ s.marked \in SUBSET LineNo
  BY DEF ScanType
<1>2. tk \in [LineNo -> Nat] /\ ct \in [LineNo -> Nat] /\ mk \in SUBSET LineNo
  <2>1. (IF p THEN 0 ELSE 1) \in Nat /\ (IF p THEN 1 ELSE 0) \in Nat
    OBVIOUS
  <2>2. tk \in [LineNo -> Nat]
    BY <1>1, <2>1
  <2>3. ct \in [LineNo -> Nat]
    BY <1>1, <2>1
  <2> QED BY <1>1, <2>2, <2>3
<1>3. u = IF ~a.keep THEN [s EXCEPT !.cursor = a.cursor]
          ELSE IF log[i].kind = "blank" /\ ~p THEN t
          ELSE IF log[i].kind = "cont" /\ t.pending.lines # <<>>
          THEN [t EXCEPT !.pending.lines = Append(@, i),
                         !.pending.truncated = @ \/ p]
          ELSE [Flush(t) EXCEPT !.pending = [lines |-> <<i>>, truncated |-> p]]
  BY DEF FinishLine
<1> HIDE DEF tk, ct, mk
<1>4. /\ t \in ScanType /\ t.cursor = a.cursor /\ t.taken = tk /\ t.cut = ct
      /\ t.marked = mk /\ t.pending = s.pending /\ t.out = s.out
  BY <1>2 DEF ScanType
<1> HIDE DEF t
<1>5. CASE ~a.keep
  <2>1. u = [s EXCEPT !.cursor = a.cursor]
    BY <1>3, <1>5
  <2>2. u \in ScanType /\ u.cursor = a.cursor /\ u.taken = s.taken /\ u.cut = s.cut
        /\ u.marked = s.marked /\ u.pending = s.pending /\ u.out = s.out
    BY <2>1 DEF ScanType
  <2> QED BY <1>5, <2>2 DEF SameFrames
<1>6. CASE a.keep /\ log[i].kind = "blank" /\ ~p
  <2>1. u = t
    BY <1>3, <1>6
  <2> QED BY <1>4, <1>6, <2>1 DEF SameFrames, tk, ct, mk
<1>7. CASE a.keep /\ ~(log[i].kind = "blank" /\ ~p)
           /\ log[i].kind = "cont" /\ t.pending.lines # <<>>
  <2> DEFINE f == [t.pending EXCEPT !.lines = Append(@, i), !.truncated = @ \/ p]
  <2>1. u = [t EXCEPT !.pending = f]
    BY <1>3, <1>7
  <2>2. f \in Frame /\ f.lines = Append(t.pending.lines, i)
    <3>1. t.pending \in Frame
      BY <1>1, <1>4
    <3>2. t.pending.lines \in Seq(LineNo) /\ t.pending.truncated \in BOOLEAN
      BY <3>1 DEF Frame
    <3>3. Append(t.pending.lines, i) \in Seq(LineNo)
      BY <3>2, AppendProperties
    <3> QED BY <3>1, <3>2, <3>3 DEF Frame
  <2> HIDE DEF f
  <2>3. u \in ScanType /\ u.cursor = t.cursor /\ u.taken = t.taken /\ u.cut = t.cut
        /\ u.marked = t.marked /\ u.pending = f /\ u.out = t.out
    BY <1>4, <2>1, <2>2 DEF ScanType
  <2>4. LineAppended(s, u, i)
    BY <1>4, <1>7, <2>2, <2>3 DEF LineAppended
  <2> QED BY <1>4, <1>7, <2>3, <2>4 DEF tk, ct, mk
<1>8. CASE a.keep /\ ~(log[i].kind = "blank" /\ ~p)
           /\ ~(log[i].kind = "cont" /\ t.pending.lines # <<>>)
  <2> DEFINE f == [lines |-> <<i>>, truncated |-> p]
             v == Flush(t)
  <2>1. u = [v EXCEPT !.pending = f]
    BY <1>3, <1>8
  <2>2. f \in Frame /\ f.lines = <<i>>
    BY DEF Frame
  <2>3. /\ v \in ScanType /\ v.cursor = t.cursor /\ v.taken = t.taken
        /\ v.cut = t.cut /\ v.marked = t.marked
        /\ v.out = IF t.pending.lines = <<>> THEN t.out ELSE Append(t.out, t.pending)
    BY <1>4, FlushOK
  <2> HIDE DEF f, v
  <2>4. u \in ScanType /\ u.cursor = v.cursor /\ u.taken = v.taken /\ u.cut = v.cut
        /\ u.marked = v.marked /\ u.pending = f /\ u.out = v.out
    BY <2>1, <2>2, <2>3 DEF ScanType
  <2>5. FrameStarted(s, u, i)
    BY <1>4, <2>2, <2>3, <2>4 DEF FrameStarted
  <2> QED BY <1>4, <1>8, <2>3, <2>4, <2>5 DEF tk, ct, mk
<1> QED BY <1>5, <1>6, <1>7, <1>8

-----------------------------------------------------------------------------
\* Where the pending event may go on.

LEMMA TimesCover ==
  ASSUME LogOK, NEW tk \in [LineNo -> Nat], NEW S \in SUBSET LineNo,
         NEW T \in SUBSET S, \A z \in T : tk[z] > 0
  PROVE  Cardinality(T) <= Cardinality(Times(tk, S))
<1> DEFINE f == [z \in T |-> <<z, 1>>]
<1>1. f \in Injection(T, Times(tk, S))
  <2>1. \A z \in T : <<z, 1>> \in Times(tk, S)
    <3> TAKE z \in T
    <3>1. z \in S /\ tk[z] \in Nat /\ tk[z] > 0
      OBVIOUS
    <3>2. <<z, 1>> \in {z} \X (1..tk[z])
      BY <3>1
    <3> QED BY <3>1, <3>2 DEF Times
  <2>2. f \in [T -> Times(tk, S)]
    BY <2>1
  <2>3. \A y, z \in T : f[y] = f[z] => y = z
    OBVIOUS
  <2> HIDE DEF f
  <2> QED BY <2>2, <2>3 DEF Injection, IsInjective
<1>2. IsFiniteSet(Times(tk, S))
  BY TimesOK
<1> HIDE DEF f
<1> QED BY <1>1, <1>2, FS_Injection

LEMMA PlacedNoReplay ==
  ASSUME NEW s, NEW F, NEW i, NEW a, NEW u, LineStep(s, F, i, a, u),
         a.keep, Place(u, i)
  PROVE  u.cursor.replay = Nothing
<1>0. Facts(s, F, i, a, u)
  BY StepFacts
<1> DEFINE c == s.cursor
           k == log[i].kind
<1>1. /\ CursorShape(c) /\ CountsTrue(s) /\ InOrder(s) /\ SeenTrue(s, F)
      /\ LogOK /\ s.taken \in [LineNo -> Nat] /\ Asked(c)
  BY DEF LineStep, CursorInv, ConnOK, Knowing
<1>2. /\ u.cursor = a.cursor /\ i \in LineNo /\ i \in Nat /\ k \in Kinds
      /\ c.counts \in [Kinds -> Nat] /\ c.replay \in [Kinds -> Nat]
      /\ F \in SUBSET LineNo /\ i \notin F
  BY <1>0 DEF Facts, CursorType, Counter
<1>3. Counted(c, log[i], a) \/ Newer(c, log[i], a)
  <2>1. a.gap = "none"
    BY DEF Place, LineStep, Took
  <2> QED BY <2>1 DEF LineStep, KeptOn, LateSkip, Replayed, Overflowed
<1>4. CASE Newer(c, log[i], a)
  BY <1>2, <1>4 DEF Newer
<1>5. CASE Counted(c, log[i], a)
  <2>1. /\ log[i].at = c.last /\ c.last # NoTime /\ c.replay[k] = 0
        /\ c.counts[k] = 0 => ~Full(c.counts)
        /\ u.cursor.replay = c.replay
    BY <1>2, <1>5 DEF Counted
  <2> SUFFICES ASSUME c.replay # Nothing PROVE FALSE
    BY <2>1
  <2>2. PICK d \in Kinds : c.replay[d] > 0
    BY <1>2, NothingOK DEF Counter
  <2> DEFINE D == Class(c.last, d)
             C == Class(c.last, k)
  <2>3. /\ C \in SUBSET LineNo /\ D \in SUBSET LineNo /\ i \in C /\ i \notin D
        /\ \A z \in C : log[z].at = c.last
    BY <1>2, <2>1, <2>2 DEF Class
  <2>4. conn.from = 1 /\ conn.since <= c.last
    BY <1>1 DEF Asked
  <2>5. \E x \in Reached(s.taken, D) : x \notin F
    <3> SUFFICES ASSUME \A x \in Reached(s.taken, D) : x \in F PROVE FALSE
      OBVIOUS
    <3>1. Reached(s.taken, D) \in SUBSET (F \cap D)
      BY DEF Reached
    <3>2. F \cap D \in SUBSET LineNo
      BY <2>3
    <3>3. IsFiniteSet(F \cap D) /\ Cardinality(F \cap D) \in Nat
      BY <1>1, <3>2, FiniteLines
    <3>4. Cardinality(Reached(s.taken, D)) <= Cardinality(F \cap D)
          /\ Cardinality(Reached(s.taken, D)) \in Nat
      BY <3>1, <3>3, FS_Subset, FS_CardinalityType
    <3>5. c.counts[d] <= Cardinality(Reached(s.taken, D))
      BY <1>1, <2>1 DEF CountsTrue
    <3>6. c.counts[d] = c.replay[d] + Cardinality(F \cap D)
      <4>1. c.replay[d] <= c.counts[d] /\ c.counts[d] \in Nat /\ c.replay[d] \in Nat
        BY <1>1, <1>2 DEF CursorShape
      <4>2. c.counts[d] # 0
        BY <2>2, <4>1
      <4> QED BY <1>1, <2>1, <4>2 DEF SeenTrue
    <3>7. c.counts[d] \in Nat /\ c.replay[d] \in Nat
      BY <1>2
    <3> HIDE DEF c, D
    <3> QED BY ONLY <2>2, <3>3, <3>4, <3>5, <3>6, <3>7
  <2>6. PICK m \in LineNo : i < m /\ s.taken[m] > 0
    <3>1. PICK x \in Reached(s.taken, D) : x \notin F
      BY <2>5
    <3>2. PICK m \in LineNo : x \in D /\ x <= m /\ s.taken[m] > 0
      BY DEF Reached
    <3>3. ~(x < i)
      BY <3>1, <3>2, WholeLog
    <3>4. x \in Nat /\ m \in Nat
      BY <1>0, <2>3, <3>2 DEF Facts
    <3>5. x # i
      BY <2>3, <3>2
    <3>6. i < m
      BY ONLY <1>2, <3>2, <3>3, <3>4, <3>5
    <3> QED BY <3>2, <3>6
  <2> DEFINE T == (F \cap C) \cup {i}
  <2>7. \A z \in T : s.taken[z] > 0
    <3> TAKE z \in T
    <3>1. /\ z \in LineNo /\ z \in Nat /\ z <= i /\ log[z].at = c.last /\ 1 <= z
          /\ m \in Nat
      <4>1. z \in F \/ z = i
        OBVIOUS
      <4>2. /\ z \in LineNo /\ z \in Nat /\ z <= i
        BY <1>0, <4>1 DEF Facts
      <4> QED BY <1>0, <2>3, <4>2 DEF Facts
    <3>2. tail <= z
      <4>1. tail \in Int
        BY <1>0 DEF Facts
      <4>2. ~(z \in 1..(tail - 1))
        BY <2>1, <3>1 DEF Place
      <4> QED BY <3>1, <4>1, <4>2
    <3>3. ~Late(z)
      <4> SUFFICES ASSUME NEW j \in 1..(z - 1), log[j].at > log[z].at PROVE FALSE
        BY DEF Late
      <4>1. j \in Nat /\ 1 <= j /\ j < z /\ j < i
        BY <3>1, <1>2
      <4>2. j \in 1..written
        <5>1. i \in 1..written /\ written \in Int
          BY DEF LineStep, ConnOK, Wire
        <5> QED BY <4>1, <5>1
      <4>3. j \in LineNo
        <5>1. LineNo = 1..Len(log) /\ Len(log) \in Nat
          BY <1>1, LogLines
        <5> QED BY <1>2, <4>1, <5>1
      <4>4. log[j].at \in Int /\ conn.since \in Int /\ c.last \in Int
        BY <1>0, <4>3 DEF Facts
      <4>5. j \in Wire
        <5>1. log[j].at >= conn.since
          BY <2>4, <3>1, <4>4
        <5> QED BY <2>4, <4>1, <4>2, <5>1 DEF Wire
      <4>6. j \in F
        BY <4>1, <4>5 DEF LineStep
      <4>7. log[j].at <= c.last
        BY <1>1, <4>6 DEF SeenTrue
      <4> QED BY <3>1, <4>4, <4>7
    <3>4. z < m
      BY <1>2, <2>6, <3>1
    <3>5. log[z].at # NoTime
      BY <2>1, <3>1
    <3> QED BY <1>1, <2>6, <3>1, <3>2, <3>3, <3>4, <3>5 DEF InOrder
  <2>8. Cardinality(T) <= Cardinality(Times(s.taken, C))
    <3>1. T \in SUBSET C
      BY <2>3
    <3> HIDE DEF T, C
    <3> QED BY <1>1, <2>3, <2>7, <3>1, TimesCover
  <2>9. Cardinality(T) = Cardinality(F \cap C) + 1 /\ Cardinality(F \cap C) \in Nat
    <3>1. F \cap C \in SUBSET LineNo /\ i \notin F \cap C
      BY <1>2, <2>3
    <3>2. IsFiniteSet(F \cap C) /\ Cardinality(F \cap C) \in Nat
      BY <1>1, <3>1, FiniteLines
    <3> QED BY <3>1, <3>2, FS_AddElement
  <2>10. c.counts[k] = Cardinality(Times(s.taken, C))
    BY <1>1, <1>2, <2>1 DEF CountsTrue
  <2>11. c.counts[k] = Cardinality(F \cap C)
    <3>1. c.counts[k] = c.replay[k] + Cardinality(F \cap C)
      BY <1>1, <1>2, <2>1 DEF SeenTrue
    <3> HIDE DEF c, k, C
    <3> QED BY ONLY <2>1, <2>9, <3>1
  <2> HIDE DEF c, k, C, T
  <2> QED BY ONLY <2>8, <2>9, <2>10, <2>11
<1> QED BY <1>3, <1>4, <1>5

\* A line is whole for longer than for the state it came in.
LEMMA WholeStays ==
  ASSUME NEW s, NEW u, s.marked \in SUBSET u.marked
  PROVE  /\ \A i : Place(u, i) => Place(s, i)
         /\ \A e : FrameWhole(s, e) => FrameWhole(u, e)
<1>1. \A i : Place(u, i) => Place(s, i)
  BY DEF Place
<1>2. ASSUME NEW e, FrameWhole(s, e) PROVE FrameWhole(u, e)
  BY <1>1, <1>2 DEF FrameWhole
<1> QED BY <1>1, <1>2

LEMMA FramesStep ==
  ASSUME ConnOK, NEW s \in ScanType, NEW u, NEW F, NEW i \in Wire,
         F = {x \in Wire : x < i}, s.marked \in SUBSET u.marked,
         Untimed(s), FramesInv(s), PendingOpen(s, F),
         SameFrames(s, u) \/ LineAppended(s, u, i) \/ FrameStarted(s, u, i)
  PROVE  FramesInv(u)
<1>1. \A e : FrameWhole(s, e) => FrameWhole(u, e)
  BY WholeStays
<1>2. /\ FrameWhole(u, s.pending)
      /\ \A k \in DOMAIN s.out : FrameWhole(u, s.out[k])
  BY <1>1 DEF FramesInv
<1>3. s.pending.lines \in Seq(LineNo) /\ s.out \in Seq(Frame) /\ s.pending \in Frame
  BY DEF ScanType, Frame
<1>4. CASE SameFrames(s, u)
  <2>1. FrameWhole(u, u.pending)
    BY <1>2, <1>4 DEF SameFrames, FrameWhole
  <2> QED BY <1>2, <1>4, <2>1 DEF SameFrames, FramesInv
<1>5. CASE FrameStarted(s, u, i)
  <2>1. FrameWhole(u, u.pending)
    <3>1. Len(u.pending.lines) = 1
      BY <1>5 DEF FrameStarted
    <3> QED BY <3>1 DEF FrameWhole
  <2>2. \A k \in DOMAIN u.out : FrameWhole(u, u.out[k])
    <3>1. CASE s.pending.lines = <<>>
      BY <1>2, <1>5, <3>1 DEF FrameStarted
    <3>2. CASE s.pending.lines # <<>>
      <4>1. u.out = Append(s.out, s.pending)
        BY <1>5, <3>2 DEF FrameStarted
      <4>2. \A k \in DOMAIN u.out :
              u.out[k] = s.pending \/ (k \in DOMAIN s.out /\ u.out[k] = s.out[k])
        BY <1>3, <4>1
      <4> QED BY <1>2, <4>2
    <3> QED BY <3>1, <3>2
  <2> QED BY <2>1, <2>2 DEF FramesInv
<1>6. CASE LineAppended(s, u, i)
  <2> DEFINE ls == s.pending.lines
             n == Len(ls)
             l == ls[n]
  <2>1. /\ ls \in Seq(LineNo) /\ ls # <<>> /\ u.pending.lines = Append(ls, i)
        /\ u.out = s.out /\ n \in Nat /\ n >= 1 /\ n \in DOMAIN ls
        /\ Len(u.pending.lines) = n + 1
    BY <1>3, <1>6, EmptySeq DEF LineAppended
  <2>2. /\ l \in F /\ l \in Wire /\ l < i
        /\ log[l].at = NoTime => l \in s.marked
        /\ Place(s, l) => \A x \in F : x > l => Passed(x)
    <3>1. l \in F
      BY <2>1 DEF PendingOpen
    <3> QED BY <2>1, <3>1 DEF PendingOpen
  <2>3. ASSUME Place(u, l), NEW x \in (l + 1)..(i - 1)
        PROVE  Passed(x)
    <3>1. Place(s, l)
      <4> HIDE DEF l
      <4> QED BY ONLY <2>3, s.marked \in SUBSET u.marked, WholeStays, ZenonT(60)
    <3>2. /\ l \in 1..written /\ i \in 1..written /\ written \in Nat /\ written <= Len(log)
          /\ conn.from <= l /\ conn.from \in Int /\ Len(log) \in Nat
      <4>1. written \in 0..Len(log) /\ Len(log) \in Nat /\ conn.from \in Int
        BY LogLines DEF ConnOK
      <4>2. conn.from <= l
        BY <2>2, <4>1 DEF Wire
      <4> QED BY <2>2, <4>1, <4>2 DEF Wire
    <3>3. x \in 1..written /\ x \in LineNo /\ x >= conn.from /\ l < x /\ x < i /\ l \in LineNo
      <4>1. x \in Int /\ l + 1 <= x /\ x <= i - 1
        BY <3>2
      <4>2. LineNo = 1..Len(log)
        BY LogLines DEF ConnOK
      <4> QED BY ONLY SMTT(60), <3>2, <4>1, <4>2
    <3>4. CASE x \in Wire
      BY <2>2, <3>1, <3>3, <3>4
    <3>5. CASE x \notin Wire
      <4>1. log[x].at # NoTime /\ ~(log[x].at >= conn.since)
        BY <3>3, <3>5 DEF Wire
      <4>2. log[l].at # NoTime
        BY <2>2, <3>1 DEF Place
      <4>3. log[l].at >= conn.since
        BY <2>2, <4>2 DEF Wire
      <4>4. log[x].at \in Int /\ log[l].at \in Int /\ conn.since \in Int
        <5>1. log[x].at \in Time /\ log[l].at \in Time
          BY <3>3, LogLines DEF ConnOK
        <5>2. conn.since \in Time
          BY DEF ConnOK
        <5> QED BY <5>1, <5>2 DEF Time, NoTime
      <4>5. log[l].at > log[x].at
        BY ONLY <4>1, <4>3, <4>4
      <4>6. l \in 1..(x - 1)
        BY <3>2, <3>3
      <4> QED BY <4>5, <4>6 DEF Late, Passed
    <3> QED BY <3>4, <3>5
  <2>4. FrameWhole(u, u.pending)
    <3> SUFFICES ASSUME NEW m \in 1..(Len(u.pending.lines) - 1)
                 PROVE  LET A == u.pending.lines
                        IN  /\ A[m] < A[m + 1]
                            /\ Place(u, A[m]) =>
                                 \A x \in (A[m] + 1)..(A[m + 1] - 1) : Passed(x)
      BY DEF FrameWhole
    <3>1. CASE m < n
      <4>1. u.pending.lines[m] = ls[m] /\ u.pending.lines[m + 1] = ls[m + 1]
            /\ m \in 1..(n - 1)
        BY <2>1, <3>1
      <4> QED BY <1>2, <4>1 DEF FrameWhole
    <3>2. CASE ~(m < n)
      <4>1. m = n
        BY <2>1, <3>2
      <4>2. u.pending.lines[m] = l /\ u.pending.lines[m + 1] = i
        BY <2>1, <4>1
      <4> QED BY <2>2, <2>3, <4>2
    <3> QED BY <3>1, <3>2
  <2> QED BY <1>2, <2>1, <2>4 DEF FramesInv
<1> QED BY <1>4, <1>5, <1>6

LEMMA PendingStep ==
  ASSUME NEW s, NEW F, NEW i, NEW a, NEW u, LineStep(s, F, i, a, u),
         s \in ScanType, PendingOpen(s, F),
         \/ SameFrames(s, u) /\ (a.keep => log[i].kind = "blank")
         \/ a.keep /\ (LineAppended(s, u, i) \/ FrameStarted(s, u, i))
  PROVE  PendingOpen(u, F \cup {i})
<1>0. Facts(s, F, i, a, u)
  BY StepFacts
<1>1. s.pending.lines \in Seq(LineNo)
  BY DEF ScanType, Frame
<1>2. \A x : Place(u, x) => Place(s, x)
  BY <1>0, WholeStays DEF Facts
<1>3. \A n \in DOMAIN s.pending.lines : s.pending.lines[n] \in F
  BY DEF PendingOpen
<1>4. CASE SameFrames(s, u) /\ (a.keep => log[i].kind = "blank")
  <2> DEFINE l == s.pending.lines[Len(s.pending.lines)]
  <2> SUFFICES ASSUME s.pending.lines # <<>>
               PROVE  /\ log[l].at = NoTime => l \in u.marked
                      /\ Place(u, l) => /\ u.cursor.replay = Nothing
                                        /\ \A x \in F \cup {i} : x > l => Passed(x)
    BY <1>3, <1>4 DEF SameFrames, PendingOpen
  <2>1. /\ log[l].at = NoTime => l \in s.marked
        /\ Place(s, l) => /\ s.cursor.replay = Nothing
                          /\ \A x \in F : x > l => Passed(x)
    BY DEF PendingOpen
  <2>2. log[l].at = NoTime => l \in u.marked
    BY <1>0, <2>1 DEF Facts
  <2>3. ASSUME Place(u, l)
        PROVE  u.cursor.replay = Nothing /\ Passed(i)
    <3>1. s.cursor.replay = Nothing
      BY <1>2, <2>1, <2>3
    <3>2. ~Replayed(s.cursor, log[i], a)
      <4>1. log[i].kind \in Kinds /\ i \in LineNo
        BY <1>0 DEF Facts
      <4>2. ~(s.cursor.replay[log[i].kind] > 0)
        BY <3>1, <4>1, NothingOK
      <4> QED BY <4>2 DEF Replayed
    <3>3. ~LateSkip(s.cursor, log[i], a)
      <4>1. ~s.cursor.replaying
        BY <3>1 DEF LineStep, CursorInv, CursorShape
      <4> QED BY <4>1 DEF LateSkip
    <3>4. a.keep /\ u.cursor.replay = Nothing
      BY <1>0, <3>1, <3>2, <3>3
         DEF LineStep, KeptOn, Overflowed, Counted, Newer, Facts
    <3> QED BY <1>4, <3>4 DEF Passed
  <2>4. Place(u, l) => \A x \in F : x > l => Passed(x)
    BY <1>2, <2>1
  <2> HIDE DEF l
  <2> QED BY <2>2, <2>3, <2>4
<1>5. CASE a.keep /\ (LineAppended(s, u, i) \/ FrameStarted(s, u, i))
  <2>1. /\ \A n \in DOMAIN u.pending.lines : u.pending.lines[n] \in F \cup {i}
        /\ u.pending.lines[Len(u.pending.lines)] = i
    <3>1. CASE LineAppended(s, u, i)
      <4>1. u.pending.lines = Append(s.pending.lines, i)
        BY <3>1 DEF LineAppended
      <4>2. /\ Len(u.pending.lines) = Len(s.pending.lines) + 1
            /\ DOMAIN u.pending.lines = 1..(Len(s.pending.lines) + 1)
            /\ u.pending.lines[Len(s.pending.lines) + 1] = i
            /\ \A n \in 1..Len(s.pending.lines) :
                 u.pending.lines[n] = s.pending.lines[n]
            /\ Len(s.pending.lines) \in Nat
            /\ DOMAIN s.pending.lines = 1..Len(s.pending.lines)
        BY <1>1, <4>1, <1>0 DEF Facts
      <4>3. ASSUME NEW n \in DOMAIN u.pending.lines PROVE u.pending.lines[n] \in F \cup {i}
        <5>1. n \in 1..Len(s.pending.lines) \/ n = Len(s.pending.lines) + 1
          BY <4>2
        <5> QED BY <1>3, <4>2, <5>1
      <4> QED BY <4>2, <4>3
    <3>2. CASE FrameStarted(s, u, i)
      BY <3>2 DEF FrameStarted
    <3> QED BY <1>5, <3>1, <3>2
  <2>2. log[i].at = NoTime => i \in u.marked
    <3>1. log[i].at = NoTime => KeptOn(s.cursor, log[i], a)
      <4>1. s.cursor.last \in Int /\ s.cursor.last >= -1 /\ NoTime = -1
        BY <1>0 DEF Facts
      <4> QED BY <1>5, <4>1 DEF LineStep, LateSkip, Replayed, Overflowed, Counted, Newer
    <3>2. KeptOn(s.cursor, log[i], a) => a.gap # "none"
      BY DEF KeptOn
    <3> QED BY <1>5, <3>1, <3>2 DEF LineStep, Took
  <2>3. Place(u, i) => u.cursor.replay = Nothing
    BY <1>5, PlacedNoReplay
  <2>4. \A x \in F \cup {i} : ~(x > i)
    <3>1. i \in Nat /\ \A x \in F : x \in Nat /\ x < i
      BY <1>0 DEF Facts
    <3> QED BY <3>1
  <2> QED BY <2>1, <2>2, <2>3, <2>4 DEF PendingOpen
<1> QED BY <1>4, <1>5

-----------------------------------------------------------------------------
\* Where the accepted lines are.

In(e, i) == \E n \in DOMAIN e.lines : e.lines[n] = i
Outs(out, i) == {k \in DOMAIN out : In(out[k], i)}
CopiesAt(s, i) == Cardinality(Outs(s.out, i)) + (IF In(s.pending, i) THEN 1 ELSE 0)

\* Each acceptance of a line with text is in the hands h or still in the parser.
Held(s, h) ==
  \A i \in LineNo :
    log[i].kind # "blank" => s.taken[i] + s.cut[i] = h[i] + CopiesAt(s, i)

LEMMA OutsOK ==
  ASSUME NEW out \in Seq(Frame), NEW i
  PROVE  IsFiniteSet(Outs(out, i)) /\ Cardinality(Outs(out, i)) \in Nat
<1>1. DOMAIN out = 1..Len(out) /\ Len(out) \in Nat
  BY LenProperties
<1>2. IsFiniteSet(1..Len(out))
  BY <1>1, FS_Interval
<1>3. Outs(out, i) \in SUBSET (1..Len(out))
  BY <1>1 DEF Outs
<1>4. IsFiniteSet(Outs(out, i))
  BY <1>2, <1>3, FS_Subset
<1> QED BY <1>4, FS_CardinalityType

LEMMA OutsAppend ==
  ASSUME NEW out \in Seq(Frame), NEW f \in Frame, NEW i
  PROVE  Cardinality(Outs(Append(out, f), i))
           = Cardinality(Outs(out, i)) + (IF In(f, i) THEN 1 ELSE 0)
<1> DEFINE n == Len(out)
           all == Append(out, f)
<1>1. /\ n \in Nat /\ DOMAIN out = 1..n /\ DOMAIN all = 1..(n + 1)
      /\ all[n + 1] = f /\ \A k \in 1..n : all[k] = out[k]
  BY AppendProperties, LenProperties
<1> HIDE DEF all
<1>2. IsFiniteSet(Outs(out, i)) /\ Cardinality(Outs(out, i)) \in Nat
  BY OutsOK
<1>3. CASE In(f, i)
  <2>1. Outs(all, i) = Outs(out, i) \cup {n + 1}
    BY <1>1, <1>3 DEF Outs
  <2>2. n + 1 \notin Outs(out, i)
    BY <1>1 DEF Outs
  <2>3. Cardinality(Outs(all, i)) = Cardinality(Outs(out, i)) + 1
    BY <1>2, <2>1, <2>2, FS_AddElement
  <2> QED BY <1>3, <2>3 DEF all
<1>4. CASE ~In(f, i)
  <2>1. Outs(all, i) = Outs(out, i)
    BY <1>1, <1>4 DEF Outs
  <2>2. Cardinality(Outs(all, i)) = Cardinality(Outs(out, i)) + 0
    BY <1>2, <2>1
  <2> QED BY <1>4, <2>2 DEF all
<1> QED BY <1>3, <1>4

LEMMA OutsTail ==
  ASSUME NEW out \in Seq(Frame), out # <<>>, NEW i
  PROVE  Cardinality(Outs(out, i))
           = Cardinality(Outs(Tail(out), i)) + (IF In(Head(out), i) THEN 1 ELSE 0)
<1> DEFINE n == Len(out)
           rest == Tail(out)
           R == Outs(rest, i)
           S == Outs(out, i)
           f == [k \in R |-> k + 1]
<1>1. /\ n \in Nat /\ n >= 1 /\ DOMAIN out = 1..n /\ DOMAIN rest = 1..(n - 1)
      /\ Head(out) = out[1] /\ \A k \in 1..(n - 1) : rest[k] = out[k + 1]
      /\ rest \in Seq(Frame)
  BY HeadTailProperties, LenProperties, EmptySeq
<1> HIDE DEF rest
<1>2. IsFiniteSet(R) /\ Cardinality(R) \in Nat /\ IsFiniteSet(S) /\ Cardinality(S) \in Nat
  BY <1>1, OutsOK
<1>3. \A k \in R : k \in 1..(n - 1) /\ k + 1 \in S \ {1}
  BY <1>1 DEF Outs
<1>4. \A k \in S \ {1} : k - 1 \in R /\ k \in Nat
  <2> TAKE k \in S \ {1}
  <2>1. k \in 1..n /\ k # 1 /\ In(out[k], i)
    BY <1>1 DEF Outs
  <2>2. k - 1 \in 1..(n - 1) /\ (k - 1) + 1 = k
    BY <1>1, <2>1
  <2>3. rest[k - 1] = out[k]
    BY <1>1, <2>2
  <2> QED BY <1>1, <2>1, <2>2, <2>3 DEF Outs
<1> HIDE DEF R, S
<1>5. f \in Bijection(R, S \ {1})
  <2>1. f \in [R -> S \ {1}]
    BY <1>3
  <2>2. \A k, m \in R : f[k] = f[m] => k = m
    <3> TAKE k, m \in R
    <3>1. k \in Int /\ m \in Int /\ f[k] = k + 1 /\ f[m] = m + 1
      BY <1>1, <1>3
    <3> HIDE DEF f
    <3> QED BY <3>1
  <2>3. \A k \in S \ {1} : \E m \in R : f[m] = k
    <3> TAKE k \in S \ {1}
    <3>1. k - 1 \in R /\ f[k - 1] = k
      BY <1>4
    <3> QED BY <3>1
  <2> HIDE DEF f
  <2> QED
    BY <2>1, <2>2, <2>3 DEF Bijection, Injection, Surjection, IsInjective
<1>6. Cardinality(R) = Cardinality(S \ {1})
  <2> HIDE DEF f
  <2>1. ExistsBijection(R, S \ {1})
    BY <1>5 DEF ExistsBijection
  <2> QED BY <1>2, <2>1, FS_Bijection
<1>7. CASE In(Head(out), i)
  <2>1. 1 \in S
    BY <1>1, <1>7 DEF S, Outs
  <2>2. Cardinality(S \ {1}) = Cardinality(S) - 1
    BY <1>2, <2>1, FS_RemoveElement
  <2>3. Cardinality(S) = Cardinality(R) + 1
    BY <1>2, <1>6, <2>2
  <2> QED BY <1>7, <2>3 DEF R, S, rest
<1>8. CASE ~In(Head(out), i)
  <2>1. S \ {1} = S
    BY <1>1, <1>8 DEF S, Outs
  <2>2. Cardinality(S) = Cardinality(R)
    BY <1>6, <2>1
  <2>3. Cardinality(S) = Cardinality(R) + 0
    BY <1>2, <2>2
  <2> QED BY <1>8, <2>3 DEF R, S, rest
<1> QED BY <1>7, <1>8

LEMMA HeldStep ==
  ASSUME NEW s \in ScanType, NEW u \in ScanType, NEW h \in [LineNo -> Int],
         NEW i \in LineNo, NEW a, NEW p \in BOOLEAN,
         Held(s, h), ~In(s.pending, i),
         ~a.keep => u.taken = s.taken /\ u.cut = s.cut /\ SameFrames(s, u),
         a.keep =>
           /\ u.taken = [s.taken EXCEPT ![i] = @ + (IF p THEN 0 ELSE 1)]
           /\ u.cut = [s.cut EXCEPT ![i] = @ + (IF p THEN 1 ELSE 0)]
           /\ \/ log[i].kind = "blank" /\ SameFrames(s, u)
              \/ LineAppended(s, u, i) \/ FrameStarted(s, u, i)
  PROVE  Held(u, h)
<1> SUFFICES ASSUME NEW j \in LineNo, log[j].kind # "blank"
             PROVE  u.taken[j] + u.cut[j] = h[j] + CopiesAt(u, j)
  BY DEF Held
<1>1. s.taken[j] + s.cut[j] = h[j] + CopiesAt(s, j)
  BY DEF Held
<1>2. /\ s.taken \in [LineNo -> Nat] /\ s.cut \in [LineNo -> Nat]
      /\ s.out \in Seq(Frame) /\ s.pending \in Frame /\ s.pending.lines \in Seq(LineNo)
      /\ u.out \in Seq(Frame)
  BY DEF ScanType, Frame
<1>3. /\ s.taken[j] \in Nat /\ s.cut[j] \in Nat /\ h[j] \in Int
      /\ Cardinality(Outs(s.out, j)) \in Nat /\ Cardinality(Outs(u.out, j)) \in Nat
  BY <1>2, OutsOK
<1>4. CASE SameFrames(s, u) /\ u.taken[j] + u.cut[j] = s.taken[j] + s.cut[j]
  <2>1. CopiesAt(u, j) = CopiesAt(s, j)
    BY <1>4 DEF SameFrames, CopiesAt, In
  <2> QED BY <1>1, <1>4, <2>1
<1>5. CASE ~a.keep
  BY <1>4, <1>5
<1>6. ASSUME a.keep
      PROVE  u.taken[j] + u.cut[j] = (s.taken[j] + s.cut[j]) + (IF j = i THEN 1 ELSE 0)
  <2>1. u.taken[j] = IF j = i THEN s.taken[j] + (IF p THEN 0 ELSE 1) ELSE s.taken[j]
    BY <1>2, <1>6
  <2>2. u.cut[j] = IF j = i THEN s.cut[j] + (IF p THEN 1 ELSE 0) ELSE s.cut[j]
    BY <1>2, <1>6
  <2>3. CASE p
    BY <1>3, <2>1, <2>2, <2>3
  <2>4. CASE ~p
    BY <1>3, <2>1, <2>2, <2>4
  <2> QED BY <2>3, <2>4
<1>7. CASE a.keep /\ log[i].kind = "blank" /\ SameFrames(s, u)
  <2>1. j # i
    BY <1>7
  <2> QED BY <1>3, <1>4, <1>6, <1>7, <2>1
<1>8. CASE a.keep /\ LineAppended(s, u, i)
  <2>1. u.pending.lines = Append(s.pending.lines, i) /\ u.out = s.out
    BY <1>8 DEF LineAppended
  <2>2. In(u.pending, j) <=> In(s.pending, j) \/ j = i
    <3>1. /\ DOMAIN u.pending.lines = 1..(Len(s.pending.lines) + 1)
          /\ u.pending.lines[Len(s.pending.lines) + 1] = i
          /\ \A n \in 1..Len(s.pending.lines) :
                u.pending.lines[n] = s.pending.lines[n]
          /\ DOMAIN s.pending.lines = 1..Len(s.pending.lines)
          /\ Len(s.pending.lines) \in Nat
      BY <1>2, <2>1, AppendProperties, LenProperties
    <3> DEFINE n == Len(s.pending.lines)
    <3>2. 1..(n + 1) = (1..n) \cup {n + 1}
      BY <3>1
    <3> HIDE DEF n
    <3>3. ASSUME In(u.pending, j) PROVE In(s.pending, j) \/ j = i
      <4>1. PICK m \in 1..(n + 1) : u.pending.lines[m] = j
        BY <3>1, <3>3 DEF In, n
      <4> QED BY <3>1, <3>2, <4>1 DEF In, n
    <3>4. ASSUME In(s.pending, j) PROVE In(u.pending, j)
      <4>1. PICK m \in 1..n : s.pending.lines[m] = j
        BY <3>1, <3>4 DEF In, n
      <4> QED BY <3>1, <3>2, <4>1 DEF In, n
    <3>5. In(u.pending, i)
      BY <3>1, <3>2 DEF In, n
    <3> QED BY <3>3, <3>4, <3>5
  <2>3. CopiesAt(u, j) = CopiesAt(s, j) + (IF j = i THEN 1 ELSE 0)
    <3>1. CopiesAt(s, j) = Cardinality(Outs(s.out, j)) + (IF In(s.pending, j) THEN 1 ELSE 0)
          /\ CopiesAt(u, j) = Cardinality(Outs(s.out, j)) + (IF In(u.pending, j) THEN 1 ELSE 0)
      BY <2>1 DEF CopiesAt
    <3>2. CASE j = i
      BY <1>3, <2>2, <3>1, <3>2
    <3>3. CASE j # i
      BY <1>3, <2>2, <3>1, <3>3
    <3> QED BY <3>2, <3>3
  <2>4. CopiesAt(s, j) \in Nat
    BY <1>3 DEF CopiesAt
  <2>5. u.taken[j] + u.cut[j] = (s.taken[j] + s.cut[j]) + (IF j = i THEN 1 ELSE 0)
    BY <1>6, <1>8
  <2> QED BY ONLY <1>1, <1>3, <2>3, <2>4, <2>5
<1>9. CASE a.keep /\ FrameStarted(s, u, i)
  <2>1. In(u.pending, j) <=> j = i
    BY <1>9 DEF FrameStarted, In
  <2>2. Cardinality(Outs(u.out, j))
          = Cardinality(Outs(s.out, j)) + (IF In(s.pending, j) THEN 1 ELSE 0)
    <3>1. CASE s.pending.lines = <<>>
      <4>1. ~In(s.pending, j) /\ u.out = s.out
        BY <1>9, <3>1 DEF In, FrameStarted
      <4> QED BY <1>3, <4>1
    <3>2. CASE s.pending.lines # <<>>
      <4>1. u.out = Append(s.out, s.pending)
        BY <1>9, <3>2 DEF FrameStarted
      <4> QED BY <1>2, <4>1, OutsAppend
    <3> QED BY <3>1, <3>2
  <2>3. CopiesAt(u, j) = CopiesAt(s, j) + (IF j = i THEN 1 ELSE 0)
    BY <1>3, <2>1, <2>2 DEF CopiesAt
  <2>4. CopiesAt(s, j) \in Nat
    BY <1>3 DEF CopiesAt
  <2>5. u.taken[j] + u.cut[j] = (s.taken[j] + s.cut[j]) + (IF j = i THEN 1 ELSE 0)
    BY <1>6, <1>9
  <2> QED BY ONLY <1>1, <1>3, <2>3, <2>4, <2>5
<1> QED BY <1>5, <1>7, <1>8, <1>9

-----------------------------------------------------------------------------
\* One line more: whole, or cut off by the end of the input.

ScanInv(s, h) ==
  s \in ScanType /\ CursorInv(s) /\ FramesInv(s) /\ Held(s, h)

OpenInv(s, F) ==
  SeenTrue(s, F) /\ FedTaken(s, F) /\ Asked(s.cursor) /\ PendingOpen(s, F)

LEMMA WireLine ==
  ASSUME ConnOK
  PROVE  /\ Wire \in SUBSET LineNo /\ Wire \in SUBSET Nat /\ IsFiniteSet(Wire)
         /\ Cardinality(Wire) \in Nat
<1>1. LogOK /\ written \in 0..Len(log)
  BY DEF ConnOK
<1>2. LineNo = 1..Len(log) /\ Len(log) \in Nat
  BY <1>1, LogLines
<1>3. Wire \in SUBSET LineNo /\ Wire \in SUBSET Nat
  BY <1>1, <1>2 DEF Wire
<1> QED BY <1>1, <1>3, FiniteLines

LEMMA LineWhole ==
  ASSUME ConnOK, NEW h \in [LineNo -> Int],
         NEW s, ScanInv(s, h), NEW F, NEW i \in Wire, F = {x \in Wire : x < i},
         OpenInv(s, F), NEW p \in BOOLEAN, ~p, NEW u, u = FinishLine(s, i, p)
  PROVE  ScanInv(u, h) /\ OpenInv(u, F \cup {i})
<1> DEFINE a == Accept(s.cursor, log[i], p)
           c == s.cursor
<1>1. LogOK /\ i \in LineNo /\ log[i] \in LogLine
  BY WireLine, LogLines DEF ConnOK
<1>2. /\ s \in ScanType /\ c \in CursorType /\ s.taken \in [LineNo -> Nat]
      /\ s.cut \in [LineNo -> Nat] /\ s.marked \in SUBSET LineNo
      /\ CursorInv(s) /\ FramesInv(s)
  BY DEF ScanInv, ScanType
<1>3. a = Accept(c, log[i], FALSE)
  <2>1. p = FALSE
    OBVIOUS
  <2> QED BY ONLY <2>1
<1>0. a = Accept(s.cursor, log[i], p)
  OBVIOUS
<1> HIDE DEF a
<1>4. \/ KeptOn(c, log[i], a) \/ LateSkip(c, log[i], a)
      \/ Replayed(c, log[i], a) \/ Overflowed(c, log[i], a)
      \/ Counted(c, log[i], a) \/ Newer(c, log[i], a)
  <2> HIDE DEF c
  <2> QED BY ONLY StreamAssumption, <1>1, <1>2, <1>3, AcceptCases
<1>5. a.cursor \in CursorType
  BY <1>2, <1>4 DEF KeptOn, LateSkip, Replayed, Overflowed, Counted, Newer
<1>6. /\ u \in ScanType /\ u.cursor = a.cursor
      /\ ~a.keep => /\ u.taken = s.taken /\ u.cut = s.cut /\ u.marked = s.marked
                    /\ SameFrames(s, u)
      /\ a.keep =>
           /\ u.taken = [s.taken EXCEPT ![i] = @ + (IF p THEN 0 ELSE 1)]
           /\ u.cut = [s.cut EXCEPT ![i] = @ + (IF p THEN 1 ELSE 0)]
           /\ u.marked = IF a.gap = "none" THEN s.marked ELSE s.marked \cup {i}
           /\ \/ log[i].kind = "blank" /\ ~p /\ SameFrames(s, u)
              \/ /\ log[i].kind # "blank" \/ p
                 /\ LineAppended(s, u, i) \/ FrameStarted(s, u, i)
  <2> HIDE DEF c
  <2>1. LogOK /\ s \in ScanType /\ i \in LineNo /\ p \in BOOLEAN
        /\ u = FinishLine(s, i, p)
    BY <1>1, <1>2
  <2>2. Finished(s, i, p, a, u)
    BY ONLY <1>0, <1>5, <2>1, FinishLineIs
  <2> QED BY ONLY <2>2 DEF Finished
<1>7. Took(s, u, i, a)
  <2>1. a.keep => u.taken = More(s.taken, i)
    BY <1>6 DEF More
  <2> QED BY <1>6, <2>1 DEF Took
<1>8. LineStep(s, F, i, a, u)
  BY <1>2, <1>4, <1>7 DEF LineStep, OpenInv, Knowing
<1>9. /\ CursorInv(u) /\ SeenTrue(u, F \cup {i}) /\ FedTaken(u, F \cup {i})
      /\ Asked(u.cursor)
  BY <1>8, CursorStep
<1>10. FramesInv(u)
  <2>1. s.marked \in SUBSET u.marked /\ Untimed(s)
    BY <1>2, <1>6 DEF CursorInv
  <2>2. SameFrames(s, u) \/ LineAppended(s, u, i) \/ FrameStarted(s, u, i)
    BY <1>6
  <2> QED BY <1>2, <2>1, <2>2, FramesStep DEF OpenInv
<1>11. PendingOpen(u, F \cup {i})
  <2>1. \/ SameFrames(s, u) /\ (a.keep => log[i].kind = "blank")
        \/ a.keep /\ (LineAppended(s, u, i) \/ FrameStarted(s, u, i))
    BY <1>6
  <2> QED BY <1>2, <1>8, <2>1, PendingStep DEF OpenInv
<1>12. Held(u, h)
  <2>1. ~In(s.pending, i)
    <3>1. ~(i < i)
      BY WireLine
    <3>2. i \notin F
      BY <3>1
    <3> QED BY <3>2 DEF OpenInv, PendingOpen, In
  <2>2. Held(s, h)
    BY DEF ScanInv
  <2>3. ~a.keep => u.taken = s.taken /\ u.cut = s.cut /\ SameFrames(s, u)
    BY <1>6
  <2>4. a.keep =>
           /\ u.taken = [s.taken EXCEPT ![i] = @ + (IF p THEN 0 ELSE 1)]
           /\ u.cut = [s.cut EXCEPT ![i] = @ + (IF p THEN 1 ELSE 0)]
           /\ \/ log[i].kind = "blank" /\ SameFrames(s, u)
              \/ LineAppended(s, u, i) \/ FrameStarted(s, u, i)
    BY <1>6
  <2> QED BY <1>1, <1>2, <1>6, <2>1, <2>2, <2>3, <2>4, HeldStep
<1> QED BY <1>6, <1>9, <1>10, <1>11, <1>12 DEF ScanInv, OpenInv

LEMMA AcceptCut ==
  ASSUME NEW c, NEW line, NEW p \in BOOLEAN, p, NEW a, a = Accept(c, line, p)
  PROVE  a.keep /\ a.cursor = c /\ a.gap # "none"
<1>1. CASE line.at = NoTime
  <2>1. a = Kept(c, "untimestamped")
    BY <1>1 DEF Accept
  <2> QED BY ONLY <2>1 DEF Kept
<1>2. CASE line.at # NoTime
  <2>1. a = Kept(c, "truncated")
    BY <1>2 DEF Accept
  <2> QED BY ONLY <2>1 DEF Kept
<1> QED BY <1>1, <1>2

LEMMA MarkedMore ==
  ASSUME NEW s, NEW u, u.cursor = s.cursor, u.taken = s.taken,
         s.marked \in SUBSET u.marked, CursorInv(s)
  PROVE  CursorInv(u)
<1>1. Dated(u) /\ InOrder(u) /\ CursorShape(u.cursor)
  BY DEF CursorInv, Dated, InOrder
<1>2. CountsTrue(u)
  <2> SUFFICES ASSUME s.cursor.last # NoTime, NEW d \in Kinds
               PROVE  LET n == s.cursor.counts[d]
                          C == Class(s.cursor.last, d)
                      IN  /\ \/ n = Cardinality(Times(s.taken, C))
                             \/ /\ n = 0 /\ Full(s.cursor.counts)
                                /\ \A x \in C : s.taken[x] > 0 => x \in u.marked
                          /\ n <= Cardinality(Reached(s.taken, C))
    BY DEF CountsTrue
  <2>1. LET n == s.cursor.counts[d]
            C == Class(s.cursor.last, d)
        IN  /\ \/ n = Cardinality(Times(s.taken, C))
               \/ /\ n = 0 /\ Full(s.cursor.counts)
                  /\ \A x \in C : s.taken[x] > 0 => x \in s.marked
            /\ n <= Cardinality(Reached(s.taken, C))
    BY DEF CursorInv, CountsTrue
  <2> QED BY <2>1
<1>3. OldOnce(u)
  <2> SUFFICES ASSUME NEW t \in Nat, NEW d \in Kinds, t < s.cursor.last
               PROVE  \/ Cardinality(Times(s.taken, Class(t, d))) <= Cardinality(Class(t, d))
                      \/ Class(t, d) \cap u.marked # {}
    BY DEF OldOnce
  <2>1. \/ Cardinality(Times(s.taken, Class(t, d))) <= Cardinality(Class(t, d))
        \/ Class(t, d) \cap s.marked # {}
    BY DEF CursorInv, OldOnce
  <2> QED BY <2>1
<1>4. Untimed(u)
  BY DEF CursorInv, Untimed
<1> QED BY <1>1, <1>2, <1>3, <1>4 DEF CursorInv

LEMMA LineCut ==
  ASSUME ConnOK, NEW h \in [LineNo -> Int],
         NEW s, ScanInv(s, h), NEW F, NEW i \in Wire, F = {x \in Wire : x < i},
         OpenInv(s, F), NEW p \in BOOLEAN, p, NEW u, u = FinishLine(s, i, p)
  PROVE  ScanInv(u, h) /\ u.taken = s.taken
<1> DEFINE a == Accept(s.cursor, log[i], p)
<1>1. LogOK /\ i \in LineNo
  BY WireLine DEF ConnOK
<1>2. /\ s \in ScanType /\ s.cursor \in CursorType /\ s.taken \in [LineNo -> Nat]
      /\ s.marked \in SUBSET LineNo
      /\ CursorInv(s) /\ FramesInv(s)
  BY DEF ScanInv, ScanType
<1>3. a.keep /\ a.cursor = s.cursor /\ a.gap # "none"
  BY AcceptCut
<1>0. a = Accept(s.cursor, log[i], p)
  OBVIOUS
<1> HIDE DEF a
<1>4. /\ u \in ScanType /\ u.cursor = s.cursor
      /\ u.taken = [s.taken EXCEPT ![i] = @ + (IF p THEN 0 ELSE 1)]
      /\ u.cut = [s.cut EXCEPT ![i] = @ + (IF p THEN 1 ELSE 0)]
      /\ u.marked = s.marked \cup {i}
      /\ LineAppended(s, u, i) \/ FrameStarted(s, u, i)
  <2>1. LogOK /\ s \in ScanType /\ i \in LineNo /\ p \in BOOLEAN
        /\ u = FinishLine(s, i, p) /\ a.cursor \in CursorType
    BY <1>1, <1>2, <1>3
  <2>2. /\ u \in ScanType /\ u.cursor = a.cursor
        /\ a.keep =>
             /\ u.taken = [s.taken EXCEPT ![i] = @ + (IF p THEN 0 ELSE 1)]
             /\ u.cut = [s.cut EXCEPT ![i] = @ + (IF p THEN 1 ELSE 0)]
             /\ u.marked = IF a.gap = "none" THEN s.marked ELSE s.marked \cup {i}
             /\ \/ log[i].kind = "blank" /\ ~p /\ SameFrames(s, u)
                \/ /\ log[i].kind # "blank" \/ p
                   /\ LineAppended(s, u, i) \/ FrameStarted(s, u, i)
    <3>1. Finished(s, i, p, a, u)
      BY ONLY <1>0, <2>1, FinishLineIs
    <3> QED BY ONLY <3>1 DEF Finished
  <2> QED BY <1>3, <2>2
<1>5. u.taken = s.taken
  <2>1. s.taken[i] + 0 = s.taken[i]
    BY <1>1, <1>2
  <2>2. u.taken = [s.taken EXCEPT ![i] = s.taken[i]]
    BY <1>4, <2>1
  <2> QED BY <1>2, <2>2
<1>6. CursorInv(u)
  BY <1>2, <1>4, <1>5, MarkedMore
<1>7. FramesInv(u)
  <2>1. s.marked \in SUBSET u.marked /\ Untimed(s)
    BY <1>2, <1>4 DEF CursorInv
  <2> QED BY <1>2, <1>4, <2>1, FramesStep DEF OpenInv
<1>8. Held(u, h)
  <2>1. ~In(s.pending, i)
    <3>1. ~(i < i)
      BY WireLine
    <3>2. i \notin F
      BY <3>1
    <3> QED BY <3>2 DEF OpenInv, PendingOpen, In
  <2>2. Held(s, h)
    BY DEF ScanInv
  <2> QED BY <1>1, <1>2, <1>3, <1>4, <2>1, <2>2, HeldStep
<1> QED BY <1>4, <1>5, <1>6, <1>7, <1>8 DEF ScanInv

-----------------------------------------------------------------------------
\* The lines of the connection in their order.

\* The first n of some lines.
FirstOf(S, n) == {x \in S : Cardinality({j \in S : j <= x}) <= n}
Sent(n) == FirstOf(Wire, n)

LEMMA Ranks ==
  ASSUME NEW S \in SUBSET Nat, IsFiniteSet(S)
  PROVE  /\ \A i \in S : Cardinality({j \in S : j <= i}) \in 1..Cardinality(S)
         /\ \A i, k \in S :
              i < k => Cardinality({j \in S : j <= i}) < Cardinality({j \in S : j <= k})
         /\ \A n \in 1..Cardinality(S) :
              \E i \in S : Cardinality({j \in S : j <= i}) = n
<1> DEFINE upto(i) == {j \in S : j <= i}
           rank == [i \in S |-> Cardinality(upto(i))]
           c == Cardinality(S)
<1>1. c \in Nat /\ Cardinality(1..c) = c /\ IsFiniteSet(1..c)
  <2>1. c \in Nat
    BY FS_CardinalityType
  <2> HIDE DEF c
  <2> QED BY <2>1, FS_Interval
<1>2. ASSUME NEW i \in S
      PROVE  /\ IsFiniteSet(upto(i)) /\ rank[i] \in 1..c
  <2>1. upto(i) \subseteq S
    OBVIOUS
  <2>2. IsFiniteSet(upto(i)) /\ Cardinality(upto(i)) <= c
    BY <2>1, FS_Subset
  <2>3. Cardinality(upto(i)) \in Nat
    BY <2>2, FS_CardinalityType
  <2>4. upto(i) # {}
    OBVIOUS
  <2>5. Cardinality(upto(i)) # 0
    BY <2>2, <2>4, FS_EmptySet
  <2> QED BY <1>1, <2>2, <2>3, <2>5
<1>3. ASSUME NEW i \in S, NEW k \in S, i < k
      PROVE  rank[i] < rank[k]
  <2>1. i \in Nat /\ k \in Nat
    OBVIOUS
  <2>2. \A j \in S : j <= i => j <= k
    <3>1. \A j \in Nat : j <= i => j <= k
      BY <1>3, <2>1
    <3> QED BY <3>1
  <2>3. k <= k /\ ~(k <= i)
    BY <1>3, <2>1
  <2>4. upto(i) \subseteq upto(k) /\ k \in upto(k) /\ k \notin upto(i)
    BY <2>2, <2>3
  <2>5. IsFiniteSet(upto(k)) /\ upto(i) # upto(k)
    BY <1>2, <2>4
  <2>6. Cardinality(upto(i)) < Cardinality(upto(k))
    BY <2>4, <2>5, FS_Subset, FS_CardinalityType
  <2> QED BY <2>6
<1>4. rank \in [S -> 1..c]
  BY <1>2
<1>5. \A i, k \in S : rank[i] = rank[k] => i = k
  <2> TAKE i, k \in S
  <2>1. i \in Nat /\ k \in Nat /\ rank[i] \in Nat /\ rank[k] \in Nat
    <3> HIDE DEF rank, c
    <3> QED BY <1>1, <1>4
  <2>2. i < k => rank[i] < rank[k]
    BY <1>3
  <2>3. k < i => rank[k] < rank[i]
    BY <1>3
  <2> HIDE DEF rank
  <2> QED BY <2>1, <2>2, <2>3
<1>6. \A i \in S : rank[i] = Cardinality({j \in S : j <= i})
  OBVIOUS
<1> HIDE DEF rank, c
<1>7. rank \in Injection(S, 1..c)
  BY <1>4, <1>5 DEF Injection, IsInjective
<1>8. rank \in Surjection(S, 1..c)
  BY <1>1, <1>7, FS_Injection DEF c
<1>9. \A n \in 1..c : \E i \in S : rank[i] = n
  BY <1>8 DEF Surjection
<1> QED BY <1>3, <1>4, <1>6, <1>9 DEF c

LEMMA NextLine ==
  ASSUME ConnOK, NEW n \in Nat, n < Cardinality(Wire)
  PROVE  /\ Line(n + 1) \in Wire
         /\ Sent(n) = {x \in Wire : x < Line(n + 1)}
         /\ Sent(n + 1) = Sent(n) \cup {Line(n + 1)}
<1> DEFINE W == Wire
           rank(i) == Cardinality({j \in W : j <= i})
           i == Line(n + 1)
<1>1. W \in SUBSET Nat /\ IsFiniteSet(W) /\ Cardinality(W) \in Nat
  BY WireLine
<1>2. /\ \A x \in W : rank(x) \in 1..Cardinality(W)
      /\ \A x, y \in W : x < y => rank(x) < rank(y)
      /\ \A m \in 1..Cardinality(W) : \E x \in W : rank(x) = m
  <2> HIDE DEF W
  <2> QED BY <1>1, Ranks
<1>3. n + 1 \in 1..Cardinality(W)
  BY <1>1
<1>4. i \in W /\ rank(i) = n + 1
  <2>1. \E x \in W : rank(x) = n + 1
    BY <1>2, <1>3
  <2> QED BY <2>1 DEF Line
<1> HIDE DEF i, W
<1>5. \A x \in W : (rank(x) <= n <=> x < i) /\ (rank(x) <= n + 1 <=> x < i \/ x = i)
  <2> TAKE x \in W
  <2>1. x \in Nat /\ i \in Nat /\ rank(x) \in Nat
    BY <1>1, <1>2, <1>4
  <2>2. x < i => rank(x) < n + 1
    BY <1>2, <1>4
  <2>3. i < x => n + 1 < rank(x)
    BY <1>2, <1>4
  <2>4. x = i => rank(x) = n + 1
    BY <1>4
  <2> HIDE DEF rank
  <2> QED BY ONLY n \in Nat, <2>1, <2>2, <2>3, <2>4
<1>6. /\ FirstOf(W, n) = {x \in W : x < i}
      /\ FirstOf(W, n + 1) = FirstOf(W, n) \cup {i}
  BY <1>4, <1>5 DEF FirstOf
<1> QED BY <1>4, <1>6 DEF Sent, W, i

LEMMA FirstNone ==
  ASSUME NEW S \in SUBSET Nat, IsFiniteSet(S)
  PROVE  FirstOf(S, 0) = {}
<1>1. \A i \in S : Cardinality({j \in S : j <= i}) \in 1..Cardinality(S)
  BY Ranks
<1>2. \A m \in 1..Cardinality(S) : ~(m <= 0)
  BY FS_CardinalityType
<1> QED BY <1>1, <1>2 DEF FirstOf

LEMMA NoneSent ==
  ASSUME ConnOK
  PROVE  Sent(0) = {}
BY WireLine, FirstNone DEF Sent

\* A line that is written later comes after those that were sent.
LEMMA SentStays ==
  ASSUME NEW S \in SUBSET Nat, IsFiniteSet(S), NEW T \in SUBSET Nat,
         NEW w \in Nat, \A x \in S : x < w, T \in {S, S \cup {w}},
         NEW n \in Nat, n <= Cardinality(S)
  PROVE  /\ FirstOf(T, n) = FirstOf(S, n) /\ IsFiniteSet(T)
         /\ Cardinality(S) \in Nat /\ Cardinality(T) \in Nat
         /\ Cardinality(S) <= Cardinality(T)
<1>1. Cardinality(S) \in Nat
  BY FS_CardinalityType
<1>2. CASE T = S
  BY <1>1, <1>2
<1>3. CASE T = S \cup {w}
  <2>1. w \notin S
    <3>1. ~(w < w)
      OBVIOUS
    <3> QED BY <3>1
  <2>2. IsFiniteSet(T) /\ Cardinality(T) = Cardinality(S) + 1
    BY <1>3, <2>1, FS_AddElement
  <2>3. \A x \in S : {j \in T : j <= x} = {j \in S : j <= x}
    <3> TAKE x \in S
    <3>1. ~(w <= x)
      <4>1. x \in Nat /\ x < w
        OBVIOUS
      <4> QED BY <4>1
    <3> QED BY <1>3, <3>1
  <2>4. {j \in T : j <= w} = T
    <3>1. \A j \in T : j <= w
      <4> TAKE j \in T
      <4>1. j \in Nat /\ (j < w \/ j = w)
        BY <1>3
      <4> QED BY <4>1
    <3> QED BY <3>1
  <2>5. ~(Cardinality({j \in T : j <= w}) <= n)
    <3>1. Cardinality(S) \in Nat /\ Cardinality(T) = Cardinality(S) + 1
      BY <1>1, <2>2
    <3>2. ~(Cardinality(T) <= n)
      BY ONLY <3>1, n \in Nat, n <= Cardinality(S)
    <3> QED BY ONLY <2>4, <3>2
  <2>6. FirstOf(T, n) = FirstOf(S, n)
    BY <1>3, <2>3, <2>5 DEF FirstOf
  <2> QED BY <1>1, <2>2, <2>6
<1> QED BY <1>2, <1>3

-----------------------------------------------------------------------------
\* The lines of a piece, one after the other.

LineOn(s, k) == FinishLine(s, Line(k), FALSE)

Follows(f, n, last) ==
  f = [k \in n..last |-> IF k = n THEN Scan ELSE LineOn(f[k - 1], k)]

LEMMA Least ==
  ASSUME NEW B \in SUBSET Nat, B # {}
  PROVE  \E x \in B : \A y \in B : x <= y
<1> DEFINE R == OpToRel(<, Nat)
<1>1. IsWellFoundedOn(R, Nat)
  BY NatLessThanWellFounded
<1>2. \A a, b \in Nat : <<a, b>> \in R <=> a < b
  BY DEF OpToRel
<1> HIDE DEF R
<1>3. PICK x \in B : \A y \in B : ~(<<y, x>> \in R)
  BY <1>1, WFMin
<1>4. \A y \in B : x <= y
  <2> TAKE y \in B
  <2>1. x \in Nat /\ y \in Nat /\ ~(y < x)
    BY <1>2, <1>3
  <2> QED BY <2>1
<1> QED BY <1>4

LEMMA LinesExist ==
  ASSUME NEW n \in Nat, NEW last \in Nat, n <= last
  PROVE  \E f : Follows(f, n, last)
<1> DEFINE B == {m \in Nat : n <= m /\ ~\E f : Follows(f, n, m)}
<1> SUFFICES ASSUME B # {} PROVE FALSE
  OBVIOUS
<1>1. PICK m \in B : \A y \in B : m <= y
  <2>1. B \in SUBSET Nat
    OBVIOUS
  <2> HIDE DEF B
  <2> QED BY <2>1, Least
<1>2. m \in Nat /\ n <= m /\ ~\E f : Follows(f, n, m)
  OBVIOUS
<1>3. CASE m = n
  <2> DEFINE f == [k \in n..n |-> Scan]
  <2>1. \A k \in n..n : k = n
    OBVIOUS
  <2>2. f = [k \in n..n |-> IF k = n THEN Scan ELSE LineOn(f[k - 1], k)]
    BY <2>1
  <2> HIDE DEF f
  <2>3. Follows(f, n, n)
    BY <2>2 DEF Follows
  <2> QED BY <1>2, <1>3, <2>3
<1>4. CASE m # n
  <2>1. m - 1 \in Nat /\ n <= m - 1 /\ ~(m <= m - 1)
    BY <1>2, <1>4
  <2>2. PICK g : Follows(g, n, m - 1)
    BY <1>1, <2>1
  <2> DEFINE f == [k \in n..m |-> IF k = m THEN LineOn(g[m - 1], m) ELSE g[k]]
  <2>3. \A k \in n..(m - 1) : g[k] = IF k = n THEN Scan ELSE LineOn(g[k - 1], k)
    BY <2>2 DEF Follows
  <2>4. ASSUME NEW k \in n..m
        PROVE  f[k] = IF k = n THEN Scan ELSE LineOn(f[k - 1], k)
    <3>1. f[k] = IF k = m THEN LineOn(g[m - 1], m) ELSE g[k]
      OBVIOUS
    <3>2. k # n => k - 1 \in n..m /\ k - 1 # m
      BY <1>2
    <3>3. k # n => f[k - 1] = g[k - 1]
      BY <3>2
    <3>4. k # m => k \in n..(m - 1)
      BY <1>2
    <3> HIDE DEF f
    <3>5. CASE k = m
      BY <1>4, <3>1, <3>3, <3>5
    <3>6. CASE k # m
      BY <2>3, <3>1, <3>3, <3>4, <3>6
    <3> QED BY <3>5, <3>6
  <2>5. DOMAIN f = n..m /\ f = [k \in n..m |-> f[k]]
    OBVIOUS
  <2> HIDE DEF f
  <2>6. Follows(f, n, m)
    BY <2>4, <2>5 DEF Follows
  <2> QED BY <1>2, <2>6
<1> QED BY <1>3, <1>4

LEMMA LinesFollow ==
  ASSUME NEW n \in Nat, NEW last \in Nat, n <= last
  PROVE  Follows(Lines(n, last), n, last)
<1>1. \E f : Follows(f, n, last)
  BY LinesExist
<1> QED BY ONLY <1>1, Zenon DEF Lines, Follows, LineOn

LEMMA LineOnOK ==
  ASSUME ConnOK, NEW h \in [LineNo -> Int], NEW s, ScanInv(s, h),
         NEW n \in Nat, n < Cardinality(Wire), OpenInv(s, Sent(n))
  PROVE  ScanInv(LineOn(s, n + 1), h) /\ OpenInv(LineOn(s, n + 1), Sent(n + 1))
<1> DEFINE i == Line(n + 1)
           u == LineOn(s, n + 1)
<1>1. /\ i \in Wire /\ Sent(n) = {x \in Wire : x < i}
      /\ Sent(n + 1) = Sent(n) \cup {i}
  BY NextLine
<1>2. \E p \in BOOLEAN : ~p /\ u = FinishLine(s, i, p)
  <2>1. FALSE \in BOOLEAN /\ ~FALSE
    OBVIOUS
  <2>2. u = FinishLine(s, i, FALSE)
    BY ONLY DEF LineOn
  <2> QED BY ONLY <2>1, <2>2, Zenon
<1>3. PICK p \in BOOLEAN : ~p /\ u = FinishLine(s, i, p)
  BY ONLY <1>2
<1> HIDE DEF u, i
<1>4. ScanInv(u, h) /\ OpenInv(u, Sent(n) \cup {i})
  BY <1>1, <1>3, LineWhole
<1> QED BY <1>1, <1>4 DEF u

LEMMA LinesOK ==
  ASSUME ConnOK, NEW h \in [LineNo -> Int], ScanInv(Scan, h),
         NEW n \in Nat, NEW last \in Nat, n <= last, last <= Cardinality(Wire),
         OpenInv(Scan, Sent(n))
  PROVE  /\ ScanInv(Lines(n, last)[last], h)
         /\ OpenInv(Lines(n, last)[last], Sent(last))
<1> DEFINE f == Lines(n, last)
           Good(k) == ScanInv(f[k], h) /\ OpenInv(f[k], Sent(k))
           B == {k \in n..last : ~Good(k)}
<1>1. \A k \in n..last : f[k] = IF k = n THEN Scan ELSE LineOn(f[k - 1], k)
  <2>1. Follows(f, n, last)
    BY LinesFollow
  <2> HIDE DEF f
  <2> QED BY <2>1 DEF Follows
<1> HIDE DEF f
<1> SUFFICES ASSUME B # {} PROVE FALSE
  <2>1. last \in n..last
    OBVIOUS
  <2> QED BY <2>1 DEF f
<1>2. PICK m \in B : \A y \in B : m <= y
  <2>1. B \in SUBSET Nat
    OBVIOUS
  <2> HIDE DEF B
  <2> QED BY <2>1, Least
<1>3. m \in n..last /\ m \in Nat /\ ~Good(m) /\ \A y \in n..last : y < m => Good(y)
  <2>1. m \in n..last /\ m \in Nat /\ ~Good(m)
    OBVIOUS
  <2>2. ASSUME NEW y \in n..last, y < m PROVE Good(y)
    <3>1. ~(m <= y)
      BY <2>1, <2>2
    <3> QED BY <1>2, <3>1
  <2> QED BY <2>1, <2>2
<1>4. CASE m = n
  <2>1. f[m] = Scan
    BY <1>1, <1>3, <1>4
  <2> QED BY <1>3, <1>4, <2>1
<1>5. CASE m # n
  <2>1. m - 1 \in n..last /\ m - 1 \in Nat /\ m - 1 < m /\ (m - 1) + 1 = m
    BY <1>3, <1>5
  <2>2. m - 1 < Cardinality(Wire)
    <3>1. Cardinality(Wire) \in Nat
      BY WireLine
    <3> QED BY <1>3, <2>1, <3>1
  <2>3. Good(m - 1)
    BY <1>3, <2>1
  <2>4. ScanInv(LineOn(f[m - 1], (m - 1) + 1), h)
        /\ OpenInv(LineOn(f[m - 1], (m - 1) + 1), Sent((m - 1) + 1))
    <3>1. ScanInv(f[m - 1], h) /\ OpenInv(f[m - 1], Sent(m - 1))
      BY <2>3
    <3> QED BY ONLY <2>1, <2>2, <3>1, StreamAssumption, ConnOK, h \in [LineNo -> Int], LineOnOK
  <2>5. f[m] = LineOn(f[m - 1], m)
    BY <1>1, <1>3, <1>5
  <2> HIDE DEF B
  <2>6. Good(m)
    BY <2>1, <2>4, <2>5
  <2> QED BY <1>3, <2>6
<1> QED BY <1>4, <1>5

-----------------------------------------------------------------------------
\* The end of the input.

LEMMA FlushInv ==
  ASSUME NEW h \in [LineNo -> Int], NEW s, ScanInv(s, h), NEW u, u = Flush(s)
  PROVE  ScanInv(u, h) /\ u.pending.lines = <<>> /\ u.taken = s.taken
<1>1. s \in ScanType /\ s.out \in Seq(Frame) /\ s.pending \in Frame
  BY DEF ScanInv, ScanType
<1>2. /\ u \in ScanType /\ u.cursor = s.cursor /\ u.taken = s.taken
      /\ u.cut = s.cut /\ u.marked = s.marked /\ u.pending.lines = <<>>
      /\ u.out = IF s.pending.lines = <<>> THEN s.out ELSE Append(s.out, s.pending)
  BY <1>1, FlushOK
<1>3. CursorInv(u)
  BY <1>2, MarkedMore DEF ScanInv
<1>4. FramesInv(u)
  <2>1. FrameWhole(u, u.pending)
    <3>1. Len(u.pending.lines) = 0
      BY <1>2, EmptySeq
    <3> QED BY <3>1 DEF FrameWhole
  <2>2. \A e : FrameWhole(s, e) => FrameWhole(u, e)
    BY <1>2, WholeStays
  <2>3. FrameWhole(u, s.pending) /\ \A k \in DOMAIN s.out : FrameWhole(u, s.out[k])
    BY <2>2 DEF ScanInv, FramesInv
  <2>4. \A k \in DOMAIN u.out : FrameWhole(u, u.out[k])
    <3>1. CASE s.pending.lines = <<>>
      BY <1>2, <2>3, <3>1
    <3>2. CASE s.pending.lines # <<>>
      <4>1. \A k \in DOMAIN u.out :
              u.out[k] = s.pending \/ (k \in DOMAIN s.out /\ u.out[k] = s.out[k])
        BY <1>1, <1>2, <3>2
      <4> QED BY <2>3, <4>1
    <3> QED BY <3>1, <3>2
  <2> QED BY <2>1, <2>4 DEF FramesInv
<1>5. \A j : CopiesAt(u, j) = CopiesAt(s, j)
  <2> TAKE j
  <2>1. ~In(u.pending, j)
    BY <1>2 DEF In
  <2>2. Cardinality(Outs(s.out, j)) \in Nat
    BY <1>1, OutsOK
  <2>3. CASE s.pending.lines = <<>>
    <3>1. ~In(s.pending, j) /\ u.out = s.out
      BY <1>2, <2>3 DEF In
    <3> QED BY <2>1, <3>1 DEF CopiesAt
  <2>4. CASE s.pending.lines # <<>>
    <3>1. Cardinality(Outs(u.out, j))
            = Cardinality(Outs(s.out, j)) + (IF In(s.pending, j) THEN 1 ELSE 0)
      BY <1>1, <1>2, <2>4, OutsAppend
    <3> QED BY <2>1, <2>2, <3>1 DEF CopiesAt
  <2> QED BY <2>3, <2>4
<1>6. Held(u, h)
  BY <1>2, <1>5 DEF ScanInv, Held
<1> QED BY <1>2, <1>3, <1>4, <1>6 DEF ScanInv

LEMMA FinishOK ==
  ASSUME ConnOK, NEW h \in [LineNo -> Int], NEW s, ScanInv(s, h),
         fed \in Nat,
         fed # 0 => fed <= 2 * Cardinality(Wire) /\ OpenInv(s, Sent(fed \div 2)),
         NEW p \in BOOLEAN, NEW u, u = Finish(s, p)
  PROVE  ScanInv(u, h) /\ u.pending.lines = <<>> /\ u.taken = s.taken
<1> DEFINE v == IF fed % 2 = 1 THEN FinishLine(s, Line(fed \div 2 + 1), TRUE) ELSE s
           w == [v EXCEPT !.pending.truncated = @ \/ p]
<1>1. u = Flush(w)
  BY ONLY u = Finish(s, p), Zenon DEF Finish
<1>2. ScanInv(v, h) /\ v.taken = s.taken
  <2>1. CASE fed % 2 = 1
    <3> DEFINE n == fed \div 2
               i == Line(n + 1)
    <3>1. n \in Nat /\ n < Cardinality(Wire) /\ fed # 0
      <4>1. Cardinality(Wire) \in Nat
        BY WireLine
      <4>2. fed # 0
        BY <2>1
      <4> QED BY <2>1, <4>1, <4>2
    <3>2. OpenInv(s, Sent(n))
      BY <3>1
    <3> HIDE DEF n
    <3>3. i \in Wire /\ Sent(n) = {x \in Wire : x < i}
      BY <3>1, NextLine
    <3>4. \E q \in BOOLEAN : q /\ v = FinishLine(s, i, q)
      <4>1. TRUE \in BOOLEAN /\ TRUE
        OBVIOUS
      <4>2. v = FinishLine(s, i, TRUE)
        BY ONLY <2>1, Zenon DEF n
      <4> QED BY ONLY <4>1, <4>2, Zenon
    <3>5. PICK q \in BOOLEAN : q /\ v = FinishLine(s, i, q)
      BY ONLY <3>4
    <3> HIDE DEF v, i
    <3> QED BY <3>2, <3>3, <3>5, LineCut
  <2>2. CASE fed % 2 # 1
    <3>1. v = s
      BY ONLY <2>2, Zenon
    <3> HIDE DEF v
    <3> QED BY <3>1
  <2> QED BY ONLY <2>1, <2>2
<1> HIDE DEF v
<1>3. ScanInv(w, h) /\ w.taken = s.taken
  <2>1. v \in ScanType /\ v.pending \in Frame
    BY <1>2 DEF ScanInv, ScanType
  <2> DEFINE f == [v.pending EXCEPT !.truncated = @ \/ p]
  <2>2. f \in Frame /\ f.lines = v.pending.lines
    BY <2>1 DEF Frame
  <2>3. w = [v EXCEPT !.pending = f]
    OBVIOUS
  <2> HIDE DEF f
  <2>4. /\ w \in ScanType /\ w.cursor = v.cursor /\ w.taken = v.taken
        /\ w.cut = v.cut /\ w.marked = v.marked /\ w.pending = f /\ w.out = v.out
    BY <2>1, <2>2, <2>3 DEF ScanType
  <2> HIDE DEF w
  <2>5. CursorInv(w)
    BY <1>2, <2>4, MarkedMore DEF ScanInv
  <2>6. FramesInv(w)
    <3>1. \A e : FrameWhole(v, e) => FrameWhole(w, e)
      BY <2>4, WholeStays
    <3>2. FrameWhole(w, v.pending) /\ \A k \in DOMAIN v.out : FrameWhole(w, v.out[k])
      BY <1>2, <3>1 DEF ScanInv, FramesInv
    <3>3. FrameWhole(w, w.pending)
      BY <2>2, <2>4, <3>2 DEF FrameWhole
    <3> QED BY <2>4, <3>2, <3>3 DEF FramesInv
  <2>7. \A j : CopiesAt(w, j) = CopiesAt(v, j)
    BY <2>2, <2>4 DEF CopiesAt, In
  <2>8. Held(w, h)
    BY <1>2, <2>4, <2>7 DEF ScanInv, Held
  <2> QED BY <1>2, <2>4, <2>5, <2>6, <2>8 DEF ScanInv
<1> HIDE DEF w
<1> QED BY <1>1, <1>3, FlushInv

-----------------------------------------------------------------------------
\* The states of the stream.

\* A connection is open, and its lines go to the parser.
Linked ==
  \/ pc \in {"select", "drain"}
  \/ pc = "deliver" /\ stage \in {"loop", "drain", "eof", "error"}

Piece == [halves : Nat, end : {"more", "eof", "error"}]

StreamType ==
  /\ ConnOK /\ handed \in [LineNo -> Nat]
  /\ parser \in [cursor : CursorType, pending : Frame, out : Seq(Frame)]
  /\ fed \in Nat /\ read \in Nat /\ queue \in Seq(Piece) /\ cancelled \in BOOLEAN
  /\ pc \in {"top", "open", "wait", "select", "drain", "deliver", "done"}
  /\ stage \in {"loop", "drain", "eof", "error", "ended", "returned"}

\* What was read and not yet fed is in the queue.
Flow ==
  /\ read <= 2 * Cardinality(Wire) /\ Len(queue) <= 2
  /\ fed <= read
  /\ Len(queue) = 1 => fed + queue[1].halves <= read
  /\ Len(queue) = 2 => fed + queue[1].halves + queue[2].halves <= read

\* Where nothing is left of the connection, and what the parser still holds.
Rest ==
  /\ ~Linked /\ pc # "done" => fed = 0 /\ parser.pending.lines = <<>>
  /\ pc \notin {"deliver", "done"} => parser.out = <<>>
  /\ result # "none" => pc = "done" \/ (pc = "deliver" /\ stage = "returned")
  /\ pc = "open" => parser.cursor.replay = parser.cursor.counts
  /\ pc = "done" /\ result # "refused" =>
       parser.out = <<>> /\ parser.pending.lines = <<>>

\* The tail that was asked for only moves on, and not once a line was accepted
\* before it.
TailOK ==
  \/ tail <= written - TailLines + 1
  \/ ~Linked /\ \A i \in LineNo : taken[i] = 0

ScanNow ==
  /\ Scan \in ScanType /\ CursorInv(Scan) /\ FramesInv(Scan)
  /\ result # "refused" => Held(Scan, handed)
OpenNow == Linked => OpenInv(Scan, Sent(fed \div 2))
StreamInv == StreamType /\ Flow /\ Rest /\ TailOK /\ ScanNow /\ OpenNow

\* The parser and its histories after a step.
NewScan ==
  [cursor |-> parser'.cursor, pending |-> parser'.pending, out |-> parser'.out,
   taken |-> taken', cut |-> cut', marked |-> marked']

\* All but where the lines stand in the log.
Knowledge ==
  /\ Scan \in ScanType /\ CursorShape(Scan.cursor) /\ Dated(Scan)
  /\ CountsTrue(Scan) /\ OldOnce(Scan) /\ Untimed(Scan)
  /\ result # "refused" => Held(Scan, handed)

LEMMA KnowledgeMoves ==
  ASSUME log' = log, NEW n, n = NewScan, n \in ScanType, CursorInv(n),
         result' # "refused" => Held(n, handed')
  PROVE  Knowledge'
<1> DEFINE m == Scan
<1>1. m' = n
  BY DEF Scan, NewScan
<1> HIDE DEF m
<1>2. (m \in ScanType)'
  BY <1>1 DEF ScanType, LineNo, CursorType, Frame, Time, Counter
<1>3. CursorShape(m.cursor)'
  BY <1>1 DEF CursorInv, CursorShape
<1>4. Dated(m)'
  BY <1>1 DEF CursorInv, Dated, LineNo
<1>5. CountsTrue(m)'
  <2> DEFINE C(d) == Class(m.cursor.last, d)
             D(d) == Class(n.cursor.last, d)
  <2>1. ASSUME NEW d
        PROVE  /\ Cardinality(Times(m.taken, C(d)))' = Cardinality(Times(n.taken, D(d)))
               /\ Cardinality(Reached(m.taken, C(d)))' = Cardinality(Reached(n.taken, D(d)))
               /\ (\A x \in C(d) : m.taken[x] > 0 => x \in m.marked)'
                    = \A x \in D(d) : n.taken[x] > 0 => x \in n.marked
    <3>1. C(d)' = D(d)
      BY <1>1 DEF Class, LineNo
    <3> HIDE DEF C, D
    <3>2. Times(m.taken, C(d))' = Times(n.taken, D(d))
      BY <1>1, <3>1 DEF Times
    <3>3. Reached(m.taken, C(d))' = Reached(n.taken, D(d))
      BY <1>1, <3>1 DEF Reached, LineNo
    <3>4. (\A x \in C(d) : m.taken[x] > 0 => x \in m.marked)'
            = \A x \in D(d) : n.taken[x] > 0 => x \in n.marked
      BY <1>1, <3>1
    <3> QED BY <3>2, <3>3, <3>4
  <2>2. Full(m.cursor.counts)' = Full(n.cursor.counts)
    BY <1>1 DEF Full
  <2>3. CountsTrue(n)
    BY DEF CursorInv
  <2> QED BY <1>1, <2>1, <2>2, <2>3 DEF CountsTrue
<1>6. OldOnce(m)'
  BY <1>1 DEF CursorInv, OldOnce, LineNo, Class, Times
<1>7. Untimed(m)'
  BY <1>1 DEF CursorInv, Untimed, LineNo
<1>10. (result # "refused" => Held(m, handed))'
  <2>1. \A i : Outs(m.out, i)' = Outs(n.out, i)
    BY <1>1 DEF Outs, In
  <2>2. \A i : CopiesAt(m, i)' = CopiesAt(n, i)
    BY <1>1, <2>1 DEF CopiesAt, In
  <2>3. Held(m, handed)' <=> Held(n, handed')
    BY <1>1, <2>2 DEF Held, LineNo
  <2> QED BY <2>3
<1> QED
  BY <1>2, <1>3, <1>4, <1>5, <1>6, <1>7, <1>10 DEF Knowledge, m

LEMMA ScanMoves ==
  ASSUME log' = log, tail' = tail, NEW n, n = NewScan,
         n \in ScanType, CursorInv(n), FramesInv(n),
         result' # "refused" => Held(n, handed')
  PROVE  ScanNow'
<1> DEFINE m == Scan
<1>1. m' = n
  BY DEF Scan, NewScan
<1>2. Knowledge'
  BY KnowledgeMoves
<1> HIDE DEF m
<1>3. InOrder(m)'
  BY <1>1 DEF CursorInv, InOrder, LineNo, Late
<1>4. FramesInv(m)'
  <2>1. \A f : FrameWhole(m, f)' <=> FrameWhole(n, f)
    BY <1>1 DEF FrameWhole, Place, Passed, Late
  <2> QED BY <1>1, <2>1 DEF FramesInv
<1> QED BY <1>2, <1>3, <1>4 DEF Knowledge, ScanNow, CursorInv, m

LEMMA OpenMoves ==
  ASSUME log' = log, tail' = tail, conn' = conn, NEW n, n = NewScan,
         NEW F, F = Sent(fed \div 2)', OpenInv(n, F)
  PROVE  OpenNow'
<1> DEFINE m == Scan
           S == Sent(fed \div 2)
<1>1. m' = n /\ S' = F
  BY DEF Scan, NewScan
<1> HIDE DEF m, S
<1>2. SeenTrue(m, S)'
  BY <1>1 DEF OpenInv, SeenTrue, Class, Full, LineNo
<1>3. FedTaken(m, S)'
  BY <1>1 DEF OpenInv, FedTaken, Late
<1>4. Asked(m.cursor)'
  BY <1>1 DEF OpenInv, Asked
<1>5. PendingOpen(m, S)'
  BY <1>1 DEF OpenInv, PendingOpen, Place, Passed, Late
<1> QED
  BY <1>2, <1>3, <1>4, <1>5 DEF OpenNow, OpenInv, m, S

LEMMA SentSame ==
  ASSUME log' = log, conn' = conn, written' = written, NEW k
  PROVE  Wire' = Wire /\ (fed' \div 2 = k => Sent(fed \div 2)' = Sent(k))
<1>1. Wire' = Wire
  BY DEF Wire
<1> QED BY <1>1 DEF Sent, FirstOf

-----------------------------------------------------------------------------
\* What the steps have in common.

Parsers == [cursor : CursorType, pending : Frame, out : Seq(Frame)]

LEMMA ParsedScan ==
  ASSUME NEW s \in ScanType, Parsed(s)
  PROVE  NewScan = s /\ parser' \in Parsers
<1>1. /\ s.cursor \in CursorType /\ s.pending \in Frame /\ s.out \in Seq(Frame)
      /\ s = [cursor |-> s.cursor, pending |-> s.pending, out |-> s.out,
              taken |-> s.taken, cut |-> s.cut, marked |-> s.marked]
  BY DEF ScanType
<1>2. /\ parser' = [cursor |-> s.cursor, pending |-> s.pending, out |-> s.out]
      /\ taken' = s.taken /\ cut' = s.cut /\ marked' = s.marked
  BY DEF Parsed
<1>3. /\ parser'.cursor = s.cursor /\ parser'.pending = s.pending
      /\ parser'.out = s.out /\ parser' \in Parsers
  BY ONLY <1>1, <1>2 DEF Parsers
<1>4. NewScan = s
  BY ONLY <1>1, <1>2, <1>3 DEF NewScan
<1> QED BY <1>3, <1>4

LEMMA ScanIs ==
  /\ Scan.cursor = parser.cursor /\ Scan.pending = parser.pending
  /\ Scan.out = parser.out /\ Scan.taken = taken /\ Scan.cut = cut
  /\ Scan.marked = marked
BY DEF Scan

LEMMA OpenSame ==
  ASSUME NEW s, NEW n, n.cursor = s.cursor, n.pending = s.pending,
         n.taken = s.taken, n.marked = s.marked, NEW F, OpenInv(s, F)
  PROVE  OpenInv(n, F)
<1>1. SeenTrue(n, F)
  BY DEF OpenInv, SeenTrue
<1>2. FedTaken(n, F)
  BY DEF OpenInv, FedTaken
<1>3. Asked(n.cursor)
  BY DEF OpenInv
<1>4. PendingOpen(n, F)
  BY DEF OpenInv, PendingOpen, Place
<1> QED BY <1>1, <1>2, <1>3, <1>4 DEF OpenInv

SameParser ==
  /\ parser' = parser /\ taken' = taken /\ cut' = cut /\ marked' = marked

LEMMA Unmoved ==
  ASSUME log' = log, tail' = tail, SameParser, handed' = handed,
         result' # "refused" => result # "refused", ScanNow
  PROVE  ScanNow' /\ NewScan = Scan
<1> DEFINE n == Scan
<1>1. n = NewScan
  BY DEF Scan, NewScan, SameParser
<1>2. /\ n \in ScanType /\ CursorInv(n) /\ FramesInv(n)
      /\ result' # "refused" => Held(n, handed')
  BY DEF ScanNow
<1> HIDE DEF n
<1>3. ScanNow'
  BY <1>1, <1>2, ScanMoves
<1> QED BY <1>1, <1>3 DEF n

LEMMA TypeMoves ==
  ASSUME StreamType, log' = log, written' \in 0..Len(log), tail' \in Int,
         conn' \in [from : Int, since : Time], handed' \in [LineNo -> Nat],
         parser' \in Parsers, fed' \in Nat, read' \in Nat, queue' \in Seq(Piece),
         cancelled' \in BOOLEAN,
         pc' \in {"top", "open", "wait", "select", "drain", "deliver", "done"},
         stage' \in {"loop", "drain", "eof", "error", "ended", "returned"}
  PROVE  StreamType'
<1>1. LogOK'
  BY DEF StreamType, ConnOK, LogOK, LogLine
<1>2. ConnOK'
  BY <1>1 DEF ConnOK, Time
<1>3. (handed \in [LineNo -> Nat])'
  BY DEF LineNo
<1>4. (parser \in Parsers)'
  BY DEF Parsers, CursorType, Frame, Time, Counter, LineNo
<1>5. (queue \in Seq(Piece))'
  BY DEF Piece
<1> QED BY <1>2, <1>3, <1>4, <1>5 DEF StreamType, Parsers

\* A step that leaves the connection, the parser and the hands as they are.
Idle ==
  /\ log' = log /\ written' = written /\ tail' = tail /\ conn' = conn
  /\ read' = read /\ fed' = fed /\ queue' \in {queue, <<>>} /\ handed' = handed
  /\ SameParser

LEMMA IdleStep ==
  ASSUME StreamInv, Idle, cancelled' \in BOOLEAN,
         pc' \in {"top", "open", "wait", "select", "drain", "deliver", "done"},
         stage' \in {"loop", "drain", "eof", "error", "ended", "returned"},
         result' # "refused" => result # "refused", Linked' => Linked, Rest'
  PROVE  StreamInv'
<1>1. StreamType'
  <2>1. /\ written' \in 0..Len(log) /\ tail' \in Int /\ log' = log
        /\ conn' \in [from : Int, since : Time] /\ handed' \in [LineNo -> Nat]
        /\ parser' \in Parsers /\ fed' \in Nat /\ read' \in Nat
    BY DEF Idle, StreamInv, StreamType, ConnOK, Parsers, SameParser
  <2>2. queue' \in Seq(Piece)
    <3>1. <<>> \in Seq(Piece)
      OBVIOUS
    <3> QED BY <3>1 DEF Idle, StreamInv, StreamType
  <2> QED BY <2>1, <2>2, TypeMoves DEF StreamInv
<1>2. Wire' = Wire
  BY DEF Idle, Wire
<1>3. Flow'
  <2>1. read' <= 2 * Cardinality(Wire)' /\ fed' <= read'
    BY <1>2 DEF Idle, StreamInv, Flow
  <2>2. /\ Len(queue') <= 2
        /\ Len(queue') = 1 => fed + queue'[1].halves <= read
        /\ Len(queue') = 2 => fed + queue'[1].halves + queue'[2].halves <= read
    <3>1. CASE queue' = queue
      BY <3>1 DEF StreamInv, Flow
    <3>2. CASE queue' = <<>>
      BY <3>2
    <3> QED BY <3>1, <3>2 DEF Idle
  <2> QED BY <2>1, <2>2 DEF Flow, Idle
<1>4. ScanNow' /\ NewScan = Scan
  BY Unmoved DEF Idle, StreamInv
<1>5. OpenNow'
  <2>1. CASE Linked'
    <3> DEFINE n == Scan
               F == Sent(fed \div 2)
    <3>1. n = NewScan /\ OpenInv(n, F)
      BY <1>4, <2>1 DEF StreamInv, OpenNow
    <3>2. F = Sent(fed \div 2)'
      BY <1>2 DEF Sent, FirstOf, Idle
    <3> HIDE DEF n, F
    <3> QED BY <3>1, <3>2, OpenMoves DEF Idle
  <2> QED BY <2>1 DEF OpenNow
<1>6. TailOK'
  BY DEF StreamInv, TailOK, Idle, SameParser, LineNo
<1> QED BY <1>1, <1>3, <1>4, <1>5, <1>6 DEF StreamInv

-----------------------------------------------------------------------------
\* The container, the cancellation and the reader.

LEMMA WriteStep ==
  ASSUME StreamInv, Write
  PROVE  StreamInv'
<1>1. /\ written < Len(log) /\ written' = written + 1
      /\ log' = log /\ cancelled' = cancelled /\ pc' = pc /\ stage' = stage
      /\ conn' = conn /\ read' = read /\ reader' = reader /\ queue' = queue
      /\ fed' = fed /\ parser' = parser /\ opens' = opens /\ tail' = tail
      /\ taken' = taken /\ cut' = cut /\ marked' = marked /\ handed' = handed
      /\ result' = result
  BY DEF Write, wire, opened, history
<1>2. ConnOK /\ LogOK /\ written \in 0..Len(log) /\ Len(log) \in Nat
  BY LogLines DEF StreamInv, StreamType, ConnOK
<1>3. StreamType'
  <2>1. written' \in 0..Len(log)
    BY <1>1, <1>2
  <2>2. /\ tail' \in Int
        /\ conn' \in [from : Int, since : Time] /\ handed' \in [LineNo -> Nat]
        /\ parser' \in Parsers /\ fed' \in Nat /\ read' \in Nat
        /\ queue' \in Seq(Piece) /\ cancelled' \in BOOLEAN
        /\ pc' \in {"top", "open", "wait", "select", "drain", "deliver", "done"}
        /\ stage' \in {"loop", "drain", "eof", "error", "ended", "returned"}
    BY <1>1 DEF StreamInv, StreamType, ConnOK, Parsers
  <2> QED BY <1>1, <2>1, <2>2, TypeMoves DEF StreamInv
<1>4. Wire' \in {Wire, Wire \cup {written + 1}}
  <2>1. 1..written' = (1..written) \cup {written + 1}
    BY <1>1, <1>2
  <2>2. Wire' = {i \in 1..written' : /\ i >= conn.from
                                       /\ (log[i].at = NoTime \/ log[i].at >= conn.since)}
    BY <1>1 DEF Wire, NoTime
  <2>3. Wire = {i \in 1..written : /\ i >= conn.from
                                     /\ (log[i].at = NoTime \/ log[i].at >= conn.since)}
    BY DEF Wire
  <2> QED BY ONLY <2>1, <2>2, <2>3
<1>5. ASSUME NEW n \in Nat, n <= Cardinality(Wire)
      PROVE  /\ FirstOf(Wire', n) = FirstOf(Wire, n)
             /\ Cardinality(Wire) \in Nat /\ Cardinality(Wire)' \in Nat
             /\ Cardinality(Wire) <= Cardinality(Wire)'
  <2>1. Wire \in SUBSET Nat /\ IsFiniteSet(Wire) /\ written + 1 \in Nat
    BY <1>2, WireLine
  <2>2. \A x \in Wire : x < written + 1
    BY <1>2 DEF Wire
  <2>3. Wire' \in SUBSET Nat
    BY <1>4, <2>1
  <2> QED BY <1>4, <1>5, <2>1, <2>2, <2>3, SentStays
<1>6. Cardinality(Wire) \in Nat /\ 0 <= Cardinality(Wire)
  BY <1>2, WireLine
<1>7. read \in Nat /\ fed \in Nat /\ read <= 2 * Cardinality(Wire) /\ fed <= read
  BY DEF StreamInv, StreamType, Flow
<1>8. Flow'
  <2>1. Cardinality(Wire)' \in Nat /\ Cardinality(Wire) <= Cardinality(Wire)'
    BY <1>5, <1>6
  <2>2. read <= 2 * Cardinality(Wire)'
    BY <1>6, <1>7, <2>1
  <2> QED BY <1>1, <2>2 DEF StreamInv, Flow
<1>9. Rest' /\ Linked' = Linked
  BY <1>1 DEF StreamInv, Rest, Linked
<1>10. ScanNow' /\ NewScan = Scan
  BY <1>1, Unmoved DEF StreamInv, SameParser
<1>11. OpenNow'
  <2>1. CASE Linked'
    <3> DEFINE n == Scan
               F == Sent(fed \div 2)
    <3>1. n = NewScan /\ OpenInv(n, F)
      BY <1>9, <1>10, <2>1 DEF StreamInv, OpenNow
    <3>2. fed \div 2 \in Nat /\ fed \div 2 <= Cardinality(Wire)
      BY <1>6, <1>7
    <3>3. F = Sent(fed \div 2)'
      BY <1>1, <1>5, <3>2 DEF Sent, FirstOf
    <3> HIDE DEF n, F
    <3> QED BY <1>1, <3>1, <3>3, OpenMoves
  <2> QED BY <2>1 DEF OpenNow
<1>12. TailOK'
  <2>1. TailLines \in Nat /\ tail \in Int
    BY <1>2, StreamAssumption DEF ConnOK
  <2>2. tail <= written - TailLines + 1 => tail <= (written + 1) - TailLines + 1
    BY <1>2, <2>1
  <2> QED BY <1>1, <1>9, <2>2 DEF StreamInv, TailOK, LineNo
<1> QED BY <1>3, <1>8, <1>9, <1>10, <1>11, <1>12 DEF StreamInv

LEMMA CancelStep ==
  ASSUME StreamInv, Cancel \/ ReaderStops
  PROVE  StreamInv'
<1>1. /\ Idle /\ cancelled' \in BOOLEAN /\ pc' = pc /\ stage' = stage
      /\ result' = result
  BY DEF Cancel, ReaderStops, wire, opened, history, Idle, SameParser,
         StreamInv, StreamType
<1>2. Linked' = Linked
  BY <1>1 DEF Linked
<1>3. Rest'
  BY <1>1, <1>2 DEF StreamInv, Rest, Idle, SameParser
<1> QED BY <1>1, <1>2, <1>3, IdleStep DEF StreamInv, StreamType

LEMMA ReadStep ==
  ASSUME StreamInv, ReaderReads
  PROVE  StreamInv'
<1>1. PICK n \in 0..MaxPiece, end \in {"more", "eof", "error"} :
        /\ n <= 2 * Cardinality(Wire) - read
        /\ read' = read + n
        /\ queue' = Append(queue, [halves |-> n, end |-> end])
  BY DEF ReaderReads
<1>2. /\ Len(queue) < 2 /\ written' = written
      /\ log' = log /\ cancelled' = cancelled /\ pc' = pc /\ stage' = stage
      /\ conn' = conn /\ fed' = fed /\ parser' = parser /\ tail' = tail
      /\ taken' = taken /\ cut' = cut /\ marked' = marked /\ handed' = handed
      /\ result' = result
  BY DEF ReaderReads, opened, history
<1>3. n \in Nat
  BY StreamAssumption
<1>4. [halves |-> n, end |-> end] \in Piece /\ queue \in Seq(Piece)
  BY <1>3 DEF Piece, StreamInv, StreamType
<1>5. Wire' = Wire
  BY <1>2 DEF Wire
<1>6. Cardinality(Wire) \in Nat /\ read \in Nat /\ fed \in Nat
  BY WireLine DEF StreamInv, StreamType
<1>7. StreamType'
  <2>1. /\ written' \in 0..Len(log) /\ tail' \in Int
        /\ conn' \in [from : Int, since : Time] /\ handed' \in [LineNo -> Nat]
        /\ parser' \in Parsers /\ fed' \in Nat /\ cancelled' \in BOOLEAN
        /\ pc' \in {"top", "open", "wait", "select", "drain", "deliver", "done"}
        /\ stage' \in {"loop", "drain", "eof", "error", "ended", "returned"}
    BY <1>2 DEF StreamInv, StreamType, ConnOK, Parsers
  <2>2. read' \in Nat
    BY <1>1, <1>3, <1>6
  <2>3. queue' \in Seq(Piece)
    BY <1>1, <1>4
  <2> QED BY <1>2, <2>1, <2>2, <2>3, TypeMoves DEF StreamInv
<1>8. Flow'
  <2>1. /\ read <= 2 * Cardinality(Wire) /\ fed <= read
        /\ Len(queue) = 1 => fed + queue[1].halves <= read
    BY DEF StreamInv, Flow
  <2>2. read' <= 2 * Cardinality(Wire)' /\ fed' <= read'
    BY <1>1, <1>2, <1>3, <1>5, <1>6, <2>1
  <2>3. Len(queue) \in Nat /\ Len(queue') = Len(queue) + 1
    BY <1>1, <1>4
  <2>4. CASE Len(queue) = 0
    <3>1. Len(queue') = 1 /\ queue'[1].halves = n
      BY <1>1, <1>4, <2>3, <2>4
    <3>2. fed' + queue'[1].halves <= read'
      BY <1>1, <1>2, <1>3, <1>6, <2>1, <3>1
    <3> QED BY <2>2, <3>1, <3>2 DEF Flow
  <2>5. CASE Len(queue) = 1
    <3>1. Len(queue') = 2 /\ queue'[2].halves = n /\ queue'[1] = queue[1]
      BY <1>1, <1>4, <2>3, <2>5
    <3>2. queue[1].halves \in Nat
      <4>1. queue[1] \in Piece
        <5>1. queue \in Seq(Piece) /\ 1 \in 1..Len(queue)
          BY <1>4, <2>5
        <5> QED BY ONLY <5>1, ElementOfSeq, ZenonT(60)
      <4> QED BY <4>1 DEF Piece
    <3>3. fed' + queue'[1].halves + queue'[2].halves <= read'
      BY <1>1, <1>2, <1>3, <1>6, <2>1, <2>5, <3>1, <3>2
    <3> QED BY <2>2, <3>1, <3>3 DEF Flow
  <2>6. Len(queue) = 0 \/ Len(queue) = 1
    <3>1. Len(queue) \in Nat /\ Len(queue) < 2
      BY <1>2, <2>3
    <3> QED BY ONLY <3>1
  <2> QED BY ONLY <2>4, <2>5, <2>6
<1>9. Rest' /\ Linked' = Linked
  BY <1>2 DEF StreamInv, Rest, Linked
<1>10. ScanNow' /\ NewScan = Scan
  BY <1>2, Unmoved DEF StreamInv, SameParser
<1>11. OpenNow'
  <2>1. CASE Linked'
    <3> DEFINE s == Scan
               F == Sent(fed \div 2)
    <3>1. s = NewScan /\ OpenInv(s, F)
      BY <1>9, <1>10, <2>1 DEF StreamInv, OpenNow
    <3>3. F = Sent(fed \div 2)'
      BY <1>2, <1>5 DEF Sent, FirstOf
    <3> HIDE DEF s, F
    <3> QED BY <1>2, <3>1, <3>3, OpenMoves
  <2> QED BY <2>1 DEF OpenNow
<1>12. TailOK'
  BY <1>2, <1>9 DEF StreamInv, TailOK, LineNo
<1> QED BY <1>7, <1>8, <1>9, <1>10, <1>11, <1>12 DEF StreamInv

-----------------------------------------------------------------------------
\* The stream returns.

LEMMA LeaveStep ==
  ASSUME StreamInv, NEW why, NEW s, NEW h \in [LineNo -> Int],
         ScanInv(s, h), s.taken = taken, result # "refused",
         why # "refused" => h = handed,
         fed # 0 => OpenInv(s, Sent(fed \div 2)),
         cancelled \/ why = "refused" \/ (parser.out = <<>> /\ parser.pending.lines = <<>>),
         Leave(why, s)
  PROVE  StreamInv'
<1>1. /\ result' = why /\ queue' = <<>> /\ log' = log /\ written' = written
      /\ cancelled' = cancelled /\ conn' = conn /\ read' = read /\ tail' = tail
      /\ handed' = handed
  BY DEF Leave, opened
<1>2. CASE ~cancelled
  <2>1. /\ pc' = "done" /\ stage' = stage /\ parser' = parser /\ taken' = taken
        /\ cut' = cut /\ marked' = marked /\ fed' = fed
    BY <1>2 DEF Leave, history
  <2>2. Idle /\ ~Linked'
    BY <1>1, <2>1 DEF Idle, SameParser, Linked
  <2>3. Rest'
    BY <1>1, <1>2, <2>1, <2>2 DEF Rest
  <2> QED BY <1>1, <2>1, <2>2, <2>3, IdleStep DEF StreamInv, StreamType
<1>3. CASE cancelled
  <2>1. \E p \in BOOLEAN : Parsed(Finish(s, p))
    <3>1. Parsed(Finish(s, TRUE))
      BY <1>3, Zenon DEF Leave
    <3>2. TRUE \in BOOLEAN
      OBVIOUS
    <3> QED BY ONLY <3>1, <3>2, Zenon
  <2>2. fed' = 0 /\ pc' = "deliver" /\ stage' = "returned"
    BY <1>3 DEF Leave
  <2>3. PICK p \in BOOLEAN : Parsed(Finish(s, p))
    BY ONLY <2>1
  <2> DEFINE n == Finish(s, p)
  <2>4. n = Finish(s, p)
    OBVIOUS
  <2> HIDE DEF n
  <2>5. ScanInv(n, h) /\ n.pending.lines = <<>> /\ n.taken = s.taken
    <3>1. ConnOK /\ fed \in Nat /\ fed <= 2 * Cardinality(Wire)
      <4>1. ConnOK /\ fed \in Nat /\ read \in Nat
        BY DEF StreamInv, StreamType
      <4>2. fed <= read /\ read <= 2 * Cardinality(Wire) /\ Cardinality(Wire) \in Nat
        BY <4>1, WireLine DEF StreamInv, Flow
      <4> QED BY ONLY <4>1, <4>2
    <3> QED BY <2>4, <3>1, FinishOK
  <2>6. n \in ScanType /\ CursorInv(n) /\ FramesInv(n) /\ Held(n, h)
    BY <2>5 DEF ScanInv
  <2>7. NewScan = n /\ parser' \in Parsers
    BY <2>3, <2>4, <2>6, ParsedScan
  <2>8. StreamType'
    <3>1. /\ written' \in 0..Len(log) /\ tail' \in Int
          /\ conn' \in [from : Int, since : Time] /\ handed' \in [LineNo -> Nat]
          /\ read' \in Nat /\ cancelled' \in BOOLEAN
      BY <1>1 DEF StreamInv, StreamType, ConnOK
    <3>2. queue' \in Seq(Piece) /\ fed' \in Nat
      BY <1>1, <2>2
    <3> QED BY <1>1, <2>2, <2>7, <3>1, <3>2, TypeMoves DEF StreamInv
  <2>9. Flow'
    <3>1. Wire' = Wire
      BY <1>1 DEF Wire
    <3>2. read \in Nat /\ read <= 2 * Cardinality(Wire)
      BY DEF StreamInv, StreamType, Flow
    <3> QED BY <1>1, <2>2, <3>1, <3>2 DEF Flow
  <2>10. Rest' /\ ~Linked'
    <3>1. parser'.pending = n.pending
      BY ONLY <2>7 DEF NewScan
    <3> QED BY <2>2, <2>5, <3>1 DEF Rest, Linked
  <2>11. ScanNow'
    <3>1. result' # "refused" => Held(n, handed')
      BY <1>1, <2>6
    <3> QED BY <1>1, <2>6, <2>7, <3>1, ScanMoves
  <2>12. TailOK'
    <3>1. taken' = taken
      BY <2>5, <2>7 DEF NewScan
    <3> QED BY <1>1, <2>10, <3>1 DEF StreamInv, TailOK, LineNo
  <2> QED BY <2>8, <2>9, <2>10, <2>11, <2>12 DEF StreamInv, OpenNow
<1> QED BY <1>2, <1>3

\* A return that takes along what the parser holds.
LEMMA ReturnStep ==
  ASSUME StreamInv, NEW why, why # "refused",
         result = "none", Linked \/ fed = 0,
         cancelled \/ (parser.out = <<>> /\ parser.pending.lines = <<>>),
         Return(why)
  PROVE  StreamInv'
<1> DEFINE s == Scan
<1>1. s.taken = taken /\ Leave(why, s)
  BY ScanIs DEF Return
<1>2. s \in ScanType /\ CursorInv(s) /\ FramesInv(s) /\ Held(s, handed)
  BY DEF StreamInv, ScanNow
<1>3. handed \in [LineNo -> Int]
  BY DEF StreamInv, StreamType
<1>4. fed # 0 => OpenInv(s, Sent(fed \div 2))
  BY DEF StreamInv, OpenNow
<1> HIDE DEF s
<1>5. ScanInv(s, handed)
  BY <1>2 DEF ScanInv
<1> QED BY <1>1, <1>3, <1>4, <1>5, LeaveStep

-----------------------------------------------------------------------------
\* Between the connections.

LEMMA AtRest ==
  ASSUME StreamInv, pc \in {"top", "open", "wait"}
  PROVE  /\ ~Linked /\ fed = 0 /\ result = "none"
         /\ parser.pending.lines = <<>> /\ parser.out = <<>>
BY DEF StreamInv, Rest, Linked

LEMMA WaitStep ==
  ASSUME StreamInv, Wait
  PROVE  StreamInv'
<1>1. pc = "wait"
  BY DEF Wait
<1>2. /\ ~Linked /\ fed = 0 /\ result = "none"
      /\ parser.pending.lines = <<>> /\ parser.out = <<>>
  BY <1>1, AtRest
<1>3. CASE cancelled /\ Return("cancelled")
  BY <1>2, <1>3, ReturnStep
<1>4. CASE /\ ~cancelled /\ pc' = "top"
           /\ UNCHANGED <<log, written, cancelled, stage, wire, parser, opened,
                          history, handed, result>>
  <2>1. Idle /\ result' = result /\ cancelled' = cancelled /\ stage' = stage
    BY <1>4 DEF wire, opened, history, Idle, SameParser
  <2>2. ~Linked' /\ Rest'
    BY <1>2, <1>4, <2>1 DEF Linked, Rest, Idle, SameParser
  <2> QED BY <1>2, <1>4, <2>1, <2>2, IdleStep DEF StreamInv, StreamType
<1> QED BY <1>3, <1>4 DEF Wait

\* Arming the replay changes only what is expected.
LEMMA Armed ==
  ASSUME ScanNow, parser \in Parsers, NEW c, NEW n,
         c = IF parser.cursor.last = NoTime THEN parser.cursor
             ELSE Rearm(parser.cursor),
         n = [Scan EXCEPT !.cursor = c]
  PROVE  /\ n \in ScanType /\ CursorInv(n) /\ FramesInv(n)
         /\ result # "refused" => Held(n, handed)
         /\ c \in CursorType /\ c.last = parser.cursor.last
         /\ c.counts = parser.cursor.counts /\ c.replay = c.counts
<1> DEFINE s == Scan
           o == parser.cursor
<1>1. /\ s \in ScanType /\ CursorInv(s) /\ FramesInv(s) /\ s.cursor = o
      /\ result # "refused" => Held(s, handed)
  BY ScanIs DEF ScanNow
<1>2. CursorShape(o) /\ o \in CursorType
  BY <1>1 DEF CursorInv, Parsers
<1>3. /\ c \in CursorType /\ c.last = o.last /\ c.counts = o.counts
      /\ c.replay = c.counts /\ (c.replaying => c.replay # Nothing)
  <2>1. CASE o.last = NoTime
    <3>1. c = o
      BY <2>1
    <3> HIDE DEF o
    <3>2. o.counts = Nothing /\ \A d \in Kinds : o.replay[d] <= o.counts[d]
      BY <1>2, <2>1 DEF CursorShape
    <3>3. o.replay = Nothing
      <4>1. o.replay \in Counter
        BY <1>2 DEF CursorType
      <4>2. \A d \in Kinds : ~(o.replay[d] > 0)
        <5> TAKE d \in Kinds
        <5>1. Nothing[d] = 0 /\ o.replay[d] <= Nothing[d] /\ o.replay[d] \in Nat
          BY <3>2, <4>1, NothingOK DEF Counter
        <5> QED BY ONLY <5>1
      <4> QED BY <4>1, <4>2, NothingOK
    <3> QED BY <1>2, <3>1, <3>2, <3>3 DEF CursorShape
  <2>2. CASE o.last # NoTime
    <3> DEFINE q == o.last # NoTime
    <3>1. c = [o EXCEPT !.replaying = q, !.replay = o.counts]
      BY <2>2 DEF Rearm
    <3> HIDE DEF o
    <3>2. o.counts # Nothing
      BY <1>2, <2>2 DEF CursorShape
    <3>3. q \in BOOLEAN
      OBVIOUS
    <3> HIDE DEF q
    <3>4. /\ c \in CursorType /\ c.last = o.last /\ c.counts = o.counts
          /\ c.replay = o.counts
      BY <1>2, <3>1, <3>3 DEF CursorType
    <3> QED BY <3>2, <3>4
  <2> QED BY <2>1, <2>2
<1> HIDE DEF s, o
<1>0. n = [s EXCEPT !.cursor = c]
  BY DEF s
<1>4. /\ n \in ScanType /\ n.cursor = c /\ n.pending = s.pending /\ n.out = s.out
      /\ n.taken = s.taken /\ n.cut = s.cut /\ n.marked = s.marked
  BY ONLY <1>0, <1>1, <1>3 DEF ScanType
<1>5. CursorShape(n.cursor)
  <2>1. c.counts \in Counter
    BY <1>3 DEF CursorType
  <2>2. \A d \in Kinds : c.counts[d] <= c.counts[d]
    BY <2>1 DEF Counter
  <2> QED BY <1>2, <1>3, <1>4, <2>2 DEF CursorShape
<1>6. Dated(n) /\ CountsTrue(n) /\ OldOnce(n) /\ Untimed(n) /\ InOrder(n)
  <2>1. n.cursor.last = s.cursor.last /\ n.cursor.counts = s.cursor.counts
    BY <1>1, <1>3, <1>4
  <2>2. Dated(n)
    BY <1>1, <1>4, <2>1 DEF CursorInv, Dated
  <2>3. CountsTrue(n)
    BY <1>1, <1>4, <2>1 DEF CursorInv, CountsTrue
  <2>4. OldOnce(n)
    BY <1>1, <1>4, <2>1 DEF CursorInv, OldOnce
  <2>5. Untimed(n) /\ InOrder(n)
    BY <1>1, <1>4 DEF CursorInv, Untimed, InOrder
  <2> QED BY <2>2, <2>3, <2>4, <2>5
<1>7. FramesInv(n)
  <2>1. s.marked \in SUBSET n.marked
    BY <1>4
  <2>2. \A e : FrameWhole(s, e) => FrameWhole(n, e)
    BY <2>1, WholeStays
  <2> QED BY <1>1, <1>4, <2>2 DEF FramesInv
<1>8. result # "refused" => Held(n, handed)
  BY <1>1, <1>4 DEF Held, CopiesAt
<1> QED BY <1>3, <1>4, <1>5, <1>6, <1>7, <1>8 DEF CursorInv, o

LEMMA ValidateStep ==
  ASSUME StreamInv, Validate
  PROVE  StreamInv'
<1>1. pc = "top"
  BY DEF Validate
<1>2. /\ ~Linked /\ fed = 0 /\ result = "none"
      /\ parser.pending.lines = <<>> /\ parser.out = <<>>
  BY <1>1, AtRest
<1>3. CASE cancelled /\ Return("cancelled")
  BY <1>2, <1>3, ReturnStep
<1>4. CASE ~cancelled /\ Return("replaced")
  BY <1>2, <1>4, ReturnStep
<1>5. CASE /\ ~cancelled
           /\ parser' = [parser EXCEPT
                !.cursor = IF @.last = NoTime THEN @ ELSE Rearm(@)]
           /\ pc' \in {"open", "wait"}
           /\ UNCHANGED <<log, written, cancelled, stage, wire, opened,
                          history, handed, result>>
  <2> DEFINE c == IF parser.cursor.last = NoTime THEN parser.cursor
                  ELSE Rearm(parser.cursor)
             n == [Scan EXCEPT !.cursor = c]
  <2>1. /\ log' = log /\ written' = written /\ cancelled' = cancelled /\ stage' = stage
        /\ conn' = conn /\ read' = read /\ queue' = queue /\ fed' = fed /\ tail' = tail
        /\ taken' = taken /\ cut' = cut /\ marked' = marked /\ handed' = handed
        /\ result' = result
    BY <1>5 DEF wire, opened, history
  <2>2. parser' = [parser EXCEPT !.cursor = c] /\ parser \in Parsers /\ ScanNow
    BY <1>5 DEF StreamInv, StreamType, Parsers
  <2>0. n = [Scan EXCEPT !.cursor = c]
    OBVIOUS
  <2>3. /\ n \in ScanType /\ CursorInv(n) /\ FramesInv(n)
        /\ result # "refused" => Held(n, handed)
        /\ c \in CursorType /\ c.last = parser.cursor.last
        /\ c.counts = parser.cursor.counts /\ c.replay = c.counts
    BY <2>2, <2>0, Armed
  <2> HIDE DEF c
  <2>4. /\ parser'.cursor = c /\ parser'.pending = parser.pending
        /\ parser'.out = parser.out /\ parser' \in Parsers
    BY <2>2, <2>3 DEF Parsers
  <2>5. n = NewScan
    BY <2>1, <2>4 DEF Scan, NewScan
  <2> HIDE DEF n
  <2>6. ScanNow'
    BY <2>1, <2>3, <2>5, ScanMoves
  <2>7. StreamType'
    <3>1. /\ written' \in 0..Len(log) /\ tail' \in Int
          /\ conn' \in [from : Int, since : Time] /\ handed' \in [LineNo -> Nat]
          /\ fed' \in Nat /\ read' \in Nat
          /\ queue' \in Seq(Piece) /\ cancelled' \in BOOLEAN
          /\ pc' \in {"top", "open", "wait", "select", "drain", "deliver", "done"}
          /\ stage' \in {"loop", "drain", "eof", "error", "ended", "returned"}
      BY <1>5, <2>1 DEF StreamInv, StreamType, ConnOK
    <3> QED BY <2>1, <2>4, <3>1, TypeMoves DEF StreamInv
  <2>8. Flow'
    <3>1. Wire' = Wire
      BY <2>1 DEF Wire
    <3> QED BY <2>1, <3>1 DEF StreamInv, Flow
  <2>9. Rest' /\ ~Linked'
    BY <1>2, <1>5, <2>1, <2>3, <2>4 DEF Rest, Linked
  <2>10. TailOK'
    BY <2>1, <2>9, <1>2 DEF StreamInv, TailOK, LineNo
  <2> QED BY <2>6, <2>7, <2>8, <2>9, <2>10 DEF StreamInv, OpenNow
<1> QED BY <1>3, <1>4, <1>5 DEF Validate

LEMMA OpenStep ==
  ASSUME StreamInv, Open
  PROVE  StreamInv'
<1>1. pc = "open"
  BY DEF Open
<1>2. /\ ~Linked /\ fed = 0 /\ result = "none"
      /\ parser.pending.lines = <<>> /\ parser.out = <<>>
      /\ parser.cursor.replay = parser.cursor.counts
  BY <1>1, AtRest DEF StreamInv, Rest
<1>3. CASE cancelled /\ Return("cancelled")
  BY <1>2, <1>3, ReturnStep
<1>4. CASE /\ ~cancelled /\ pc' = "wait"
           /\ UNCHANGED <<log, written, cancelled, stage, wire, parser, opened,
                          history, handed, result>>
  <2>1. Idle /\ result' = result /\ cancelled' = cancelled /\ stage' = stage
    BY <1>4 DEF wire, opened, history, Idle, SameParser
  <2>2. ~Linked' /\ Rest'
    BY <1>2, <1>4, <2>1 DEF Linked, Rest, Idle, SameParser
  <2> QED BY <1>2, <1>4, <2>1, <2>2, IdleStep DEF StreamInv, StreamType
<1>5. CASE /\ ~cancelled
           /\ conn' = [from  |-> IF parser.cursor.last # NoTime THEN 1
                                 ELSE written - TailLines + 1,
                       since |-> IF parser.cursor.last = NoTime THEN NoTime
                                 ELSE 2 * Second(parser.cursor.last)]
           /\ read' = 0 /\ fed' = 0 /\ queue' = <<>>
           /\ pc' = "select" /\ opens' = opens + 1
           /\ tail' = IF parser.cursor.last = NoTime THEN conn'.from ELSE tail
           /\ UNCHANGED <<log, written, cancelled, stage, parser, history,
                          handed, result>>
  <2> DEFINE n == Scan
             c == parser.cursor
  <2>1. /\ log' = log /\ written' = written /\ cancelled' = cancelled /\ stage' = stage
        /\ read' = 0 /\ queue' = <<>> /\ fed' = 0 /\ pc' = "select"
        /\ SameParser /\ handed' = handed /\ result' = result
    BY <1>5 DEF history, SameParser
  <2>2. /\ conn'.from = IF c.last # NoTime THEN 1 ELSE written - TailLines + 1
        /\ conn'.since = IF c.last = NoTime THEN NoTime ELSE 2 * Second(c.last)
        /\ tail' = IF c.last = NoTime THEN written - TailLines + 1 ELSE tail
    BY <1>5
  <2>3. /\ c \in CursorType /\ c.last \in Time /\ parser \in Parsers
        /\ ConnOK /\ written \in Nat /\ TailLines \in Nat /\ tail \in Int
    BY LogLines, StreamAssumption DEF StreamInv, StreamType, Parsers, CursorType, ConnOK
  <2>4. /\ n \in ScanType /\ CursorInv(n) /\ FramesInv(n)
        /\ result # "refused" => Held(n, handed)
        /\ n.cursor = c /\ n.pending = parser.pending /\ n.out = parser.out
        /\ n.taken = taken /\ n.marked = marked
    BY ScanIs DEF StreamInv, ScanNow
  <2>5. n = NewScan
    BY <2>1 DEF Scan, NewScan, SameParser
  <2>6. conn' \in [from : Int, since : Time] /\ conn'.since <= c.last /\ tail' \in Int
    <3>1. conn'.from \in Int /\ tail' \in Int
      BY <2>2, <2>3
    <3>2. conn'.since \in Time /\ conn'.since <= c.last
      <4>1. CASE c.last = NoTime
        BY <2>2, <4>1 DEF Time, NoTime
      <4>2. CASE c.last # NoTime
        <5>1. c.last \in Nat
          BY <2>3, <4>2 DEF Time
        <5>2. 2 * (c.last \div 2) \in Nat /\ 2 * (c.last \div 2) <= c.last
          BY ONLY <5>1
        <5>3. conn'.since = 2 * (c.last \div 2)
          BY ONLY <2>2, <4>2 DEF Second
        <5> QED BY <5>2, <5>3 DEF Time
      <4> QED BY <4>1, <4>2
    <3>3. conn' = [from |-> conn'.from, since |-> conn'.since]
      BY ONLY <1>5
    <3> QED BY ONLY <3>1, <3>2, <3>3
  <2>7. StreamType'
    <3>1. /\ written' \in 0..Len(log) /\ handed' \in [LineNo -> Nat]
          /\ parser' \in Parsers /\ fed' \in Nat /\ read' \in Nat
          /\ cancelled' \in BOOLEAN
          /\ pc' \in {"top", "open", "wait", "select", "drain", "deliver", "done"}
          /\ stage' \in {"loop", "drain", "eof", "error", "ended", "returned"}
      BY <2>1, <2>3 DEF StreamInv, StreamType, ConnOK, SameParser
    <3>2. queue' \in Seq(Piece)
      BY <2>1
    <3> QED BY <2>1, <2>6, <3>1, <3>2, TypeMoves DEF StreamInv
  <2>8. Wire' \in SUBSET Nat /\ IsFiniteSet(Wire') /\ Cardinality(Wire)' \in Nat
    <3>1. Wire' \in SUBSET (1..written)
      BY <2>1 DEF Wire
    <3>2. IsFiniteSet(Wire')
      <4>1. IsFiniteSet(1..written)
        BY <2>3, FS_Interval
      <4> QED BY <3>1, <4>1, FS_Subset
    <3>3. Cardinality(Wire') \in Nat
      BY <3>2, FS_CardinalityType
    <3> QED BY <2>3, <3>1, <3>2, <3>3
  <2>9. Flow'
    BY <2>1, <2>8 DEF Flow
  <2>10. Rest' /\ Linked'
    BY <1>2, <2>1 DEF Rest, Linked, SameParser
  <2>11. c.last = NoTime \/ tail <= written - TailLines + 1
    <3>1. CASE \A i \in LineNo : taken[i] = 0
      <4>1. \A y \in LineNo : ~(n.taken[y] > 0)
        BY <2>4, <3>1
      <4>2. Dated(n)
        BY <2>4 DEF CursorInv
      <4> QED BY <2>4, <4>1, <4>2 DEF Dated
    <3>2. CASE tail <= written - TailLines + 1
      BY <3>2
    <3> QED BY <3>1, <3>2 DEF StreamInv, TailOK
  <2>12. TailOK'
    <3>1. written - TailLines + 1 <= written - TailLines + 1
      BY <2>3
    <3> QED BY <2>1, <2>2, <2>11, <3>1 DEF TailOK
  <2>13. Knowledge'
    <3> HIDE DEF n
    <3> QED BY <2>1, <2>4, <2>5, KnowledgeMoves
  <2>14. (InOrder(Scan))'
    <3> SUFFICES ASSUME NEW j \in LineNo, NEW k \in LineNo, tail' <= j, j < k, ~Late(j),
                        log[j].at # NoTime, taken[k] > 0
                 PROVE  taken[j] > 0
      BY <2>1 DEF InOrder, Scan, LineNo, Late, SameParser
    <3>1. tail <= tail'
      <4>1. tail <= written - TailLines + 1 \/ \A i \in LineNo : taken[i] = 0
        BY DEF StreamInv, TailOK
      <4>2. ~(0 > 0)
        OBVIOUS
      <4>3. tail <= tail
        BY <2>3
      <4> QED BY <2>2, <4>1, <4>2, <4>3
    <3>2. tail <= j
      <4>1. j \in Nat
        BY <2>3, LogLines DEF ConnOK
      <4> QED BY <2>3, <2>6, <3>1, <4>1
    <3>3. InOrder(n)
      BY <2>4 DEF CursorInv
    <3> QED BY <2>4, <3>2, <3>3 DEF InOrder
  <2>15. FramesInv(Scan)'
    <3>1. (Scan.pending.lines = <<>>)' /\ (Scan.out = <<>>)'
      BY <1>2, <2>1 DEF Scan, SameParser
    <3>2. Len(<<>>) = 0
      OBVIOUS
    <3> QED BY <3>1, <3>2 DEF FramesInv, FrameWhole
  <2>16. ScanNow'
    BY <2>13, <2>14, <2>15 DEF ScanNow, Knowledge, CursorInv
  <2>17. OpenNow'
    <3> DEFINE m == Scan
               S == Sent(fed \div 2)
    <3>1. m' = n
      BY <2>5 DEF Scan, NewScan
    <3>2. S' = {}
      <4>1. 0 \div 2 = 0
        OBVIOUS
      <4>2. S' = FirstOf(Wire', 0)
        BY <2>1, <4>1 DEF Sent, FirstOf
      <4> QED BY <2>8, <4>2, FirstNone
    <3> HIDE DEF m, S
    <3>3. SeenTrue(m, S)'
      <4>1. \A d \in Kinds : c.counts[d] = c.replay[d] + Cardinality({} \cap Class(c.last, d)')
        <5> TAKE d \in Kinds
        <5>1. c.counts[d] \in Nat
          BY <2>3 DEF CursorType, Counter
        <5>2. {} \cap Class(c.last, d)' = {} /\ Cardinality({}) = 0
          BY FS_EmptySet
        <5> QED BY <1>2, <5>1, <5>2
      <4>2. \A d : Class(m.cursor.last, d)' = Class(c.last, d)'
        BY <2>1, <2>4, <3>1 DEF Class, SameParser
      <4> QED BY <2>4, <3>1, <3>2, <4>1, <4>2 DEF SeenTrue
    <3>4. FedTaken(m, S)'
      BY <3>2 DEF FedTaken
    <3>5. Asked(m.cursor)'
      <4>1. c.last = NoTime => c.replay = Nothing
        BY <1>2, <2>4 DEF CursorInv, CursorShape
      <4> QED BY <2>2, <2>4, <2>6, <3>1, <4>1 DEF Asked
    <3>6. PendingOpen(m, S)'
      BY <1>2, <2>4, <3>1 DEF PendingOpen
    <3> QED BY <3>3, <3>4, <3>5, <3>6 DEF OpenNow, OpenInv, m, S
  <2> QED BY <2>7, <2>9, <2>10, <2>12, <2>16, <2>17 DEF StreamInv
<1> QED BY <1>3, <1>4, <1>5 DEF Open

-----------------------------------------------------------------------------
\* The stream takes a piece, or drains what was read.

LEMMA TakeStep ==
  ASSUME StreamInv, Take
  PROVE  StreamInv'
<1> DEFINE k == Head(queue).halves
           last == (fed + k) \div 2
           n == Lines(fed \div 2, last)[last]
<1>1. /\ pc \in {"select", "drain"} /\ queue # <<>>
      /\ Parsed(n) /\ fed' = fed + k /\ queue' = Tail(queue) /\ pc' = "deliver"
  BY DEF Take, Feed
<1>2. /\ log' = log /\ written' = written /\ cancelled' = cancelled /\ conn' = conn
      /\ read' = read /\ tail' = tail /\ handed' = handed /\ result' = result
  BY DEF Take, opened
<1>3. stage' \in {"loop", "drain", "eof", "error"}
  <2>1. queue \in Seq(Piece)
    BY DEF StreamInv, StreamType
  <2>2. Head(queue) \in Piece
    BY <1>1, <2>1
  <2>3. Head(queue).end \in {"more", "eof", "error"}
    BY <2>2 DEF Piece
  <2> QED BY <2>3 DEF Take
<1>4. Linked /\ result = "none"
  BY <1>1 DEF StreamInv, Rest, Linked
<1>5. /\ queue \in Seq(Piece) /\ (Len(queue) = 1 \/ Len(queue) = 2)
      /\ k \in Nat /\ k = queue[1].halves
  <2>1. queue \in Seq(Piece) /\ Len(queue) <= 2
    BY DEF StreamInv, StreamType, Flow
  <2>2. Head(queue) \in Piece /\ Len(queue) \in Nat /\ Len(queue) # 0
    BY <1>1, <2>1
  <2>3. Head(queue) = queue[1]
    BY <1>1, <2>1
  <2>4. Len(queue) = 1 \/ Len(queue) = 2
    <3>1. Len(queue) \in Nat /\ Len(queue) # 0 /\ Len(queue) <= 2
      BY <2>1, <2>2
    <3>2. \A m \in Nat : m # 0 /\ m <= 2 => m = 1 \/ m = 2
      OBVIOUS
    <3> QED BY ONLY <3>1, <3>2, Zenon
  <2>5. k \in Nat /\ k = queue[1].halves
    BY <2>2, <2>3 DEF Piece
  <2> QED BY ONLY <2>1, <2>4, <2>5
<1>6. ConnOK /\ fed \in Nat /\ read \in Nat /\ Cardinality(Wire) \in Nat
  BY WireLine DEF StreamInv, StreamType
<1>7. read <= 2 * Cardinality(Wire) /\ fed + k <= read
  <2>1. /\ read <= 2 * Cardinality(Wire)
        /\ Len(queue) = 1 => fed + queue[1].halves <= read
        /\ Len(queue) = 2 => fed + queue[1].halves + queue[2].halves <= read
    BY DEF StreamInv, Flow
  <2>2. CASE Len(queue) = 1
    BY <1>5, <2>1, <2>2
  <2>3. CASE Len(queue) = 2
    <3>1. queue[2].halves \in Nat
      <4>1. queue \in Seq(Piece) /\ Len(queue) = 2
        BY <1>5, <2>3
      <4>2. queue[2] \in Piece
        BY ONLY <4>1
      <4> QED BY <4>2 DEF Piece
    <3> QED BY <1>5, <1>6, <2>1, <2>3, <3>1
  <2> QED BY <1>5, <2>2, <2>3
<1> HIDE DEF k
<1>8. ScanInv(n, handed) /\ OpenInv(n, Sent(last))
  <2>1. ScanInv(Scan, handed)
    BY <1>4 DEF StreamInv, ScanNow, ScanInv
  <2>2. OpenInv(Scan, Sent(fed \div 2))
    BY <1>4 DEF StreamInv, OpenNow
  <2>3. /\ fed \div 2 \in Nat /\ last \in Nat /\ fed \div 2 <= last
        /\ last <= Cardinality(Wire)
    <3> HIDE DEF k
    <3>1. fed \in Nat /\ read \in Nat /\ k \in Nat /\ Cardinality(Wire) \in Nat
      BY <1>5, <1>6
    <3>2. last = (fed + k) \div 2
      OBVIOUS
    <3> HIDE DEF last
    <3> QED BY ONLY <3>1, <3>2, <1>7
  <2>4. handed \in [LineNo -> Int]
    BY DEF StreamInv, StreamType
  <2> DEFINE a == fed \div 2
  <2> HIDE DEF last, a
  <2> SUFFICES /\ ScanInv(Lines(a, last)[last], handed)
               /\ OpenInv(Lines(a, last)[last], Sent(last))
    BY DEF a
  <2>5. a \in Nat /\ a <= last /\ OpenInv(Scan, Sent(a))
    BY <2>2, <2>3 DEF a
  <2> QED BY <1>6, <2>1, <2>3, <2>4, <2>5, LinesOK
<1> HIDE DEF n
<1>9. n \in ScanType /\ CursorInv(n) /\ FramesInv(n) /\ Held(n, handed)
  BY <1>8 DEF ScanInv
<1>10. NewScan = n /\ parser' \in Parsers
  BY <1>1, <1>9, ParsedScan
<1>11. StreamType'
  <2>1. /\ written' \in 0..Len(log) /\ tail' \in Int
        /\ conn' \in [from : Int, since : Time] /\ handed' \in [LineNo -> Nat]
        /\ read' \in Nat /\ cancelled' \in BOOLEAN
    BY <1>2 DEF StreamInv, StreamType, ConnOK
  <2>2. fed' \in Nat
    BY <1>1, <1>5, <1>6
  <2>3. queue' \in Seq(Piece)
    BY <1>1, <1>5
  <2>4. /\ pc' \in {"top", "open", "wait", "select", "drain", "deliver", "done"}
        /\ stage' \in {"loop", "drain", "eof", "error", "ended", "returned"}
    BY <1>1, <1>3
  <2> QED BY <1>2, <1>10, <2>1, <2>2, <2>3, <2>4, TypeMoves DEF StreamInv
<1>12. Wire' = Wire
  BY <1>2 DEF Wire
<1>13. Flow'
  <2>1. read' <= 2 * Cardinality(Wire)' /\ fed' <= read'
    BY <1>1, <1>2, <1>7, <1>12
  <2>2. CASE Len(queue) = 1
    <3>1. Len(queue') = 0
      BY <1>1, <1>5, <2>2
    <3> QED BY <2>1, <3>1 DEF Flow
  <2>3. CASE Len(queue) = 2
    <3>1. Len(queue') = 1 /\ queue'[1] = queue[2]
      <4>1. queue \in Seq(Piece) /\ Len(queue) = 2 /\ queue' = Tail(queue)
        BY <1>1, <1>5, <2>3
      <4>2. queue # <<>> /\ 1 \in 1..Len(Tail(queue)) /\ Len(Tail(queue)) = 1
        BY ONLY SMTT(60), <4>1, HeadTailProperties
      <4>3. Tail(queue)[1] = queue[1 + 1]
        BY ONLY <4>1, <4>2, HeadTailProperties
      <4> QED BY ONLY <4>1, <4>2, <4>3
    <3>2. fed' + queue'[1].halves <= read'
      BY <1>1, <1>2, <1>5, <2>3, <3>1 DEF StreamInv, Flow
    <3> QED BY <2>1, <3>1, <3>2 DEF Flow
  <2> QED BY <1>5, <2>2, <2>3
<1>14. Rest' /\ Linked'
  BY <1>1, <1>2, <1>3, <1>4 DEF Rest, Linked
<1>15. ScanNow'
  BY <1>2, <1>9, <1>10, ScanMoves
<1>16. OpenNow'
  <2>1. Sent(last) = Sent(fed \div 2)'
    BY <1>1, <1>2, SentSame
  <2> DEFINE F == Sent(last)
  <2>2. F = Sent(fed \div 2)' /\ OpenInv(n, F)
    BY <1>8, <2>1
  <2> HIDE DEF F
  <2> QED BY <1>2, <1>10, <2>2, OpenMoves
<1>17. TailOK'
  BY <1>2, <1>4 DEF StreamInv, TailOK
<1> QED BY <1>11, <1>13, <1>14, <1>15, <1>16, <1>17 DEF StreamInv

LEMMA DrainStep ==
  ASSUME StreamInv, Drain
  PROVE  StreamInv'
<1>1. cancelled
  BY DEF Drain
<1>2. CASE /\ pc = "select" /\ pc' = "drain"
           /\ UNCHANGED <<log, written, cancelled, stage, wire, parser, opened,
                          history, handed, result>>
  <2>1. Idle /\ result' = result /\ cancelled' = cancelled /\ stage' = stage
    BY <1>2 DEF wire, opened, history, Idle, SameParser
  <2>2. Linked /\ parser.out = <<>> /\ result = "none"
    BY <1>2 DEF StreamInv, Rest, Linked
  <2>3. Linked' /\ Rest'
    BY <1>2, <2>1, <2>2 DEF Linked, Rest, Idle, SameParser
  <2> QED BY <1>2, <2>1, <2>2, <2>3, IdleStep DEF StreamInv, StreamType
<1>3. CASE pc = "drain" /\ Return("cancelled")
  <2>1. Linked /\ result = "none"
    BY <1>3 DEF StreamInv, Rest, Linked
  <2> QED BY <1>1, <1>3, <2>1, ReturnStep
<1> QED BY <1>2, <1>3 DEF Drain

-----------------------------------------------------------------------------
\* The events that are offered to the consumer.

\* An event that is taken goes from the parser to the hands.
LEMMA HandedOver ==
  ASSUME ScanNow, parser \in Parsers, handed \in [LineNo -> Nat],
         parser.out # <<>>, Hand(Head(parser.out)),
         NEW n, n = [Scan EXCEPT !.out = Tail(parser.out)]
  PROVE  /\ n \in ScanType /\ CursorInv(n) /\ FramesInv(n)
         /\ result # "refused" => Held(n, handed')
         /\ handed' \in [LineNo -> Nat]
<1> DEFINE s == Scan
           o == parser.out
<1>1. /\ s \in ScanType /\ CursorInv(s) /\ FramesInv(s) /\ s.out = o
      /\ result # "refused" => Held(s, handed)
  BY ScanIs DEF ScanNow
<1>2. o \in Seq(Frame) /\ o # <<>> /\ Tail(o) \in Seq(Frame)
  BY DEF Parsers
<1>3. \A i \in LineNo : handed'[i] = handed[i] + (IF In(Head(o), i) THEN 1 ELSE 0)
  BY DEF Hand, In, LineNo
<1>4. handed' \in [LineNo -> Nat]
  <2>1. handed' = [i \in LineNo |-> handed[i] + (IF In(Head(o), i) THEN 1 ELSE 0)]
    BY DEF Hand, In, LineNo
  <2>2. \A i \in LineNo : handed[i] + (IF In(Head(o), i) THEN 1 ELSE 0) \in Nat
    OBVIOUS
  <2> HIDE DEF o
  <2> QED BY <2>1, <2>2
<1>0. n = [s EXCEPT !.out = Tail(o)]
  OBVIOUS
<1> HIDE DEF s, o
<1>5. /\ n \in ScanType /\ n.cursor = s.cursor /\ n.pending = s.pending
      /\ n.out = Tail(o) /\ n.taken = s.taken /\ n.cut = s.cut
      /\ n.marked = s.marked
  BY ONLY <1>0, <1>1, <1>2 DEF ScanType
<1>6. CursorInv(n)
  BY <1>1, <1>5, MarkedMore
<1>7. FramesInv(n)
  <2>1. \A e : FrameWhole(s, e) => FrameWhole(n, e)
    BY <1>5, WholeStays
  <2>2. \A k \in DOMAIN Tail(o) : k + 1 \in DOMAIN o /\ Tail(o)[k] = o[k + 1]
    BY <1>2
  <2> QED BY <1>1, <1>5, <2>1, <2>2 DEF FramesInv
<1>8. ASSUME result # "refused", NEW i \in LineNo, log[i].kind # "blank"
      PROVE  n.taken[i] + n.cut[i] = handed'[i] + CopiesAt(n, i)
  <2>1. Cardinality(Outs(o, i))
          = Cardinality(Outs(Tail(o), i)) + (IF In(Head(o), i) THEN 1 ELSE 0)
    BY <1>2, OutsTail
  <2>2. Cardinality(Outs(Tail(o), i)) \in Nat
    BY <1>2, OutsOK
  <2> DEFINE x == IF In(Head(o), i) THEN 1 ELSE 0
             y == IF In(s.pending, i) THEN 1 ELSE 0
             a == Cardinality(Outs(o, i))
             b == Cardinality(Outs(Tail(o), i))
  <2>6. /\ a = b + x /\ CopiesAt(s, i) = a + y /\ CopiesAt(n, i) = b + y
        /\ handed'[i] = handed[i] + x
    BY <1>1, <1>3, <1>5, <2>1 DEF CopiesAt
  <2>7. x \in Nat /\ y \in Nat /\ b \in Nat
    BY <2>2
  <2>4. s.taken[i] + s.cut[i] = handed[i] + CopiesAt(s, i)
    BY <1>1, <1>8 DEF Held
  <2>5. handed[i] \in Nat
    OBVIOUS
  <2> HIDE DEF x, y, a, b
  <2>8. s.taken[i] + s.cut[i] = handed'[i] + CopiesAt(n, i)
    BY ONLY <2>4, <2>5, <2>6, <2>7
  <2> QED BY <1>5, <2>8
<1> QED BY <1>4, <1>5, <1>6, <1>7, <1>8 DEF Held

\* What is dropped after a refusal stands in for hands of its own.
LEMMA Dropped ==
  ASSUME ScanNow, NEW n, n = [Scan EXCEPT !.out = <<>>]
  PROVE  \E h \in [LineNo -> Int] : ScanInv(n, h)
<1> DEFINE s == Scan
           h == [i \in LineNo |-> n.taken[i] + n.cut[i] - CopiesAt(n, i)]
<1>1. s \in ScanType /\ CursorInv(s) /\ FramesInv(s) /\ n = [s EXCEPT !.out = <<>>]
  BY DEF ScanNow
<1> HIDE DEF s
<1>2. /\ n \in ScanType /\ n.cursor = s.cursor /\ n.pending = s.pending
      /\ n.out = <<>> /\ n.taken = s.taken /\ n.cut = s.cut /\ n.marked = s.marked
  <2>1. <<>> \in Seq(Frame)
    OBVIOUS
  <2> QED BY ONLY <1>1, <2>1 DEF ScanType
<1>3. CursorInv(n)
  BY <1>1, <1>2, MarkedMore
<1>4. FramesInv(n)
  <2>1. \A e : FrameWhole(s, e) => FrameWhole(n, e)
    BY <1>2, WholeStays
  <2> QED BY <1>1, <1>2, <2>1 DEF FramesInv
<1>5. \A i \in LineNo : /\ n.taken[i] \in Nat /\ n.cut[i] \in Nat
                      /\ CopiesAt(n, i) \in Nat
  <2> TAKE i \in LineNo
  <2>1. n.out \in Seq(Frame) /\ n.taken[i] \in Nat /\ n.cut[i] \in Nat
    BY <1>2 DEF ScanType
  <2>2. Cardinality(Outs(n.out, i)) \in Nat
    BY <2>1, OutsOK
  <2> QED BY <2>1, <2>2 DEF CopiesAt
<1>6. h \in [LineNo -> Int]
  BY <1>5
<1>7. Held(n, h)
  BY <1>5 DEF Held
<1> HIDE DEF h
<1> QED BY <1>2, <1>3, <1>4, <1>6, <1>7 DEF ScanInv

LEMMA DeliverStep ==
  ASSUME StreamInv, Deliver
  PROVE  StreamInv'
<1>1. pc = "deliver" /\ parser.out # <<>>
  BY DEF Deliver
<1>2. \E answer \in {"taken", "refused"} :
         \/ /\ answer = "taken"
            /\ Hand(Head(parser.out))
            /\ parser' = [parser EXCEPT !.out = Tail(@)]
            /\ UNCHANGED <<log, written, cancelled, pc, stage, wire, opened,
                           history, result>>
         \/ /\ answer # "taken" /\ stage # "returned"
            /\ Leave(answer, [Scan EXCEPT !.out = <<>>])
         \/ /\ answer # "taken" /\ stage = "returned"
            /\ result' = answer /\ pc' = "done"
            /\ UNCHANGED <<log, written, cancelled, stage, wire, parser,
                           opened, history, handed>>
  <2> DEFINE B(answer) ==
         \/ /\ answer = "taken"
            /\ Hand(Head(parser.out))
            /\ parser' = [parser EXCEPT !.out = Tail(@)]
            /\ UNCHANGED <<log, written, cancelled, pc, stage, wire, opened,
                           history, result>>
         \/ /\ answer # "taken" /\ stage # "returned"
            /\ Leave(answer, [Scan EXCEPT !.out = <<>>])
         \/ /\ answer # "taken" /\ stage = "returned"
            /\ result' = answer /\ pc' = "done"
            /\ UNCHANGED <<log, written, cancelled, stage, wire, parser,
                           opened, history, handed>>
  <2>1. \E early \in Answers, final \in {"taken", "refused"} :
          B(IF OfferedAgain(early) THEN final ELSE early)
    BY Zenon DEF Deliver
  <2> HIDE DEF B
  <2>2. PICK early \in Answers, final \in {"taken", "refused"} :
          B(IF OfferedAgain(early) THEN final ELSE early)
    BY <2>1
  <2>3. (IF OfferedAgain(early) THEN final ELSE early) \in {"taken", "refused"}
    BY DEF OfferedAgain, Answers
  <2>4. \E answer \in {"taken", "refused"} : B(answer)
    BY <2>2, <2>3
  <2> QED BY ONLY <2>4 DEF B
<1>3. parser \in Parsers /\ handed \in [LineNo -> Nat] /\ ScanNow
  BY DEF StreamInv, StreamType, Parsers
<1>4. result # "none" => stage = "returned"
  BY <1>1 DEF StreamInv, Rest
<1>5. CASE /\ Hand(Head(parser.out))
           /\ parser' = [parser EXCEPT !.out = Tail(@)]
           /\ UNCHANGED <<log, written, cancelled, pc, stage, wire, opened,
                          history, result>>
  <2> DEFINE n == [Scan EXCEPT !.out = Tail(parser.out)]
  <2>0. n = [Scan EXCEPT !.out = Tail(parser.out)]
    OBVIOUS
  <2>1. /\ log' = log /\ written' = written /\ cancelled' = cancelled /\ stage' = stage
        /\ conn' = conn /\ read' = read /\ queue' = queue /\ fed' = fed /\ tail' = tail
        /\ taken' = taken /\ cut' = cut /\ marked' = marked /\ pc' = pc
        /\ result' = result
    BY <1>5 DEF wire, opened, history
  <2>2. parser' = [parser EXCEPT !.out = Tail(parser.out)]
    BY <1>5
  <2>3. Tail(parser.out) \in Seq(Frame)
    BY <1>1, <1>3 DEF Parsers
  <2>4. /\ parser'.cursor = parser.cursor /\ parser'.pending = parser.pending
        /\ parser'.out = Tail(parser.out) /\ parser' \in Parsers
    BY ONLY <1>3, <2>2, <2>3 DEF Parsers
  <2>5. n = NewScan
    <3> DEFINE rest == Tail(parser.out)
    <3>1. n = [Scan EXCEPT !.out = rest] /\ parser'.out = rest
      BY <2>4
    <3> HIDE DEF rest, n
    <3> QED BY ONLY <2>1, <2>4, <3>1 DEF Scan, NewScan
  <2>11. /\ n.cursor = Scan.cursor /\ n.pending = Scan.pending
         /\ n.taken = Scan.taken /\ n.marked = Scan.marked
    BY DEF Scan
  <2> HIDE DEF n
  <2>6. /\ n \in ScanType /\ CursorInv(n) /\ FramesInv(n)
        /\ result # "refused" => Held(n, handed')
        /\ handed' \in [LineNo -> Nat]
    BY <1>1, <1>3, <1>5, <2>0, HandedOver
  <2>7. ScanNow'
    BY <2>1, <2>5, <2>6, ScanMoves
  <2>8. StreamType'
    <3>1. /\ written' \in 0..Len(log) /\ tail' \in Int
          /\ conn' \in [from : Int, since : Time]
          /\ fed' \in Nat /\ read' \in Nat
          /\ queue' \in Seq(Piece) /\ cancelled' \in BOOLEAN
          /\ pc' \in {"top", "open", "wait", "select", "drain", "deliver", "done"}
          /\ stage' \in {"loop", "drain", "eof", "error", "ended", "returned"}
      BY <2>1 DEF StreamInv, StreamType, ConnOK
    <3> QED BY <2>1, <2>4, <2>6, <3>1, TypeMoves DEF StreamInv
  <2>9. Wire' = Wire
    BY <2>1 DEF Wire
  <2>10. Flow'
    BY <2>1, <2>9 DEF StreamInv, Flow
  <2>12. Linked' = Linked /\ Rest' /\ TailOK'
    BY <1>1, <2>1, <2>4 DEF StreamInv, Linked, Rest, TailOK, LineNo
  <2>13. OpenNow'
    <3>1. CASE Linked'
      <4> DEFINE F == Sent(fed \div 2)
      <4>1. OpenInv(Scan, F)
        BY <2>12, <3>1 DEF StreamInv, OpenNow
      <4>2. F = Sent(fed \div 2)'
        BY <2>1, SentSame
      <4> HIDE DEF F
      <4>3. OpenInv(n, F)
        BY <2>11, <4>1, OpenSame
      <4> QED BY <2>1, <2>5, <4>2, <4>3, OpenMoves
    <3> QED BY <3>1 DEF OpenNow
  <2> QED BY <2>7, <2>8, <2>10, <2>12, <2>13 DEF StreamInv
<1>6. ASSUME stage # "returned", Leave("refused", [Scan EXCEPT !.out = <<>>])
      PROVE  StreamInv'
  <2> DEFINE n == [Scan EXCEPT !.out = <<>>]
  <2>1. /\ n = [Scan EXCEPT !.out = <<>>] /\ Leave("refused", n)
        /\ n.taken = taken /\ n.cursor = Scan.cursor /\ n.pending = Scan.pending
        /\ n.taken = Scan.taken /\ n.marked = Scan.marked
    BY <1>6 DEF Scan
  <2> HIDE DEF n
  <2>2. PICK h \in [LineNo -> Int] : ScanInv(n, h)
    BY <1>3, <2>1, Dropped
  <2>3. fed # 0 => OpenInv(n, Sent(fed \div 2))
    <3> SUFFICES ASSUME fed # 0 PROVE OpenInv(n, Sent(fed \div 2))
      OBVIOUS
    <3>1. Linked
      BY <1>1 DEF StreamInv, Rest
    <3>2. OpenInv(Scan, Sent(fed \div 2))
      BY <3>1 DEF StreamInv, OpenNow
    <3> QED BY ONLY <2>1, <3>2, OpenSame, ZenonT(60)
  <2>4. result # "refused"
    BY <1>4, <1>6
  <2> DEFINE why == "refused"
  <2>5. why = "refused" /\ Leave(why, n)
    BY <2>1
  <2> HIDE DEF why
  <2> QED BY <2>1, <2>2, <2>3, <2>4, <2>5, LeaveStep
<1>7. CASE /\ stage = "returned" /\ result' = "refused" /\ pc' = "done"
           /\ UNCHANGED <<log, written, cancelled, stage, wire, parser,
                          opened, history, handed>>
  <2>1. Idle /\ cancelled' = cancelled /\ stage' = stage
    BY <1>7 DEF wire, opened, history, Idle, SameParser
  <2>2. ~Linked' /\ Rest'
    BY <1>7 DEF Linked, Rest
  <2> QED BY <1>7, <2>1, <2>2, IdleStep DEF StreamInv, StreamType
<1> QED BY <1>2, <1>5, <1>6, <1>7

LEMMA DeliveredStep ==
  ASSUME StreamInv, Delivered
  PROVE  StreamInv'
<1>1. /\ pc = "deliver" /\ parser.out = <<>>
      /\ log' = log /\ written' = written /\ cancelled' = cancelled /\ conn' = conn
      /\ read' = read /\ tail' = tail /\ handed' = handed
  BY DEF Delivered, opened
<1>2. /\ result # "none" => stage = "returned"
      /\ ~Linked => fed = 0 /\ parser.pending.lines = <<>>
  BY <1>1 DEF StreamInv, Rest
<1>3. CASE /\ stage \in {"loop", "drain", "returned"}
           /\ pc' = CASE stage = "loop" -> IF cancelled THEN "drain" ELSE "select"
                      [] stage = "drain" -> "drain"
                      [] stage = "returned" -> "done"
           /\ UNCHANGED <<stage, fed, parser, history, result, reader, queue>>
  <2>1. Idle /\ result' = result /\ cancelled' = cancelled /\ stage' = stage
    BY <1>1, <1>3 DEF history, Idle, SameParser
  <2>2. CASE stage = "returned"
    <3>1. pc' = "done" /\ ~Linked /\ ~Linked'
      BY <1>1, <1>3, <2>1, <2>2 DEF Linked
    <3>2. Rest'
      BY <1>1, <1>2, <2>1, <3>1 DEF Rest, Idle, SameParser
    <3> QED BY <2>1, <3>1, <3>2, IdleStep DEF StreamInv, StreamType
  <2>3. CASE stage # "returned"
    <3>1. pc' \in {"drain", "select"} /\ Linked /\ Linked'
      BY <1>1, <1>3, <2>1, <2>3 DEF Linked
    <3>2. Rest'
      BY <1>1, <1>2, <2>1, <2>3, <3>1 DEF Rest, Idle, SameParser
    <3> QED BY <2>1, <3>1, <3>2, IdleStep DEF StreamInv, StreamType
  <2> QED BY <2>2, <2>3
<1>4. ASSUME stage \in {"eof", "error"}, NEW p \in BOOLEAN,
             Parsed(Finish(Scan, p)), fed' = 0, stage' = "ended",
             UNCHANGED <<pc, result, reader, queue>>
      PROVE  StreamInv'
  <2> DEFINE s == Scan
             n == Finish(s, p)
  <2>1. Linked /\ result = "none"
    BY <1>1, <1>2, <1>4 DEF Linked
  <2>2. /\ s \in ScanType /\ CursorInv(s) /\ FramesInv(s) /\ Held(s, handed)
        /\ OpenInv(s, Sent(fed \div 2)) /\ handed \in [LineNo -> Int]
        /\ s.taken = taken
    BY <2>1, ScanIs DEF StreamInv, StreamType, ScanNow, OpenNow
  <2>3. n = Finish(s, p) /\ Parsed(n)
    BY <1>4
  <2> HIDE DEF s, n
  <2>4. ConnOK /\ fed \in Nat /\ fed <= 2 * Cardinality(Wire)
    <3>1. ConnOK /\ fed \in Nat /\ read \in Nat
      BY DEF StreamInv, StreamType
    <3>2. fed <= read /\ read <= 2 * Cardinality(Wire) /\ Cardinality(Wire) \in Nat
      BY <3>1, WireLine DEF StreamInv, Flow
    <3> QED BY ONLY <3>1, <3>2
  <2>5. ScanInv(n, handed) /\ n.pending.lines = <<>> /\ n.taken = s.taken
    <3>1. ScanInv(s, handed)
      BY <2>2 DEF ScanInv
    <3> QED BY <2>2, <2>3, <2>4, <3>1, FinishOK
  <2>6. n \in ScanType /\ CursorInv(n) /\ FramesInv(n) /\ Held(n, handed)
    BY <2>5 DEF ScanInv
  <2>7. NewScan = n /\ parser' \in Parsers
    BY <2>3, <2>6, ParsedScan
  <2>8. StreamType'
    <3>1. /\ written' \in 0..Len(log) /\ tail' \in Int
          /\ conn' \in [from : Int, since : Time] /\ handed' \in [LineNo -> Nat]
          /\ read' \in Nat /\ cancelled' \in BOOLEAN /\ queue' \in Seq(Piece)
      BY <1>1, <1>4 DEF StreamInv, StreamType, ConnOK
    <3>2. /\ fed' \in Nat
          /\ pc' \in {"top", "open", "wait", "select", "drain", "deliver", "done"}
          /\ stage' \in {"loop", "drain", "eof", "error", "ended", "returned"}
      BY <1>1, <1>4
    <3> QED BY <1>1, <2>7, <3>1, <3>2, TypeMoves DEF StreamInv
  <2>9. Flow'
    <3>1. Wire' = Wire
      BY <1>1 DEF Wire
    <3>2. /\ read \in Nat /\ read <= 2 * Cardinality(Wire) /\ fed \in Nat
          /\ queue \in Seq(Piece) /\ Len(queue) <= 2
      BY DEF StreamInv, StreamType, Flow
    <3>3. Len(queue) = 1 => queue[1].halves <= read
      <4>1. Len(queue) = 1 => queue[1] \in Piece
        BY <3>2
      <4> QED BY <3>2, <4>1 DEF StreamInv, Flow, Piece
    <3>4. Len(queue) = 2 => queue[1].halves + queue[2].halves <= read
                            /\ queue[1].halves + queue[2].halves \in Nat
      <4>1. Len(queue) = 2 => queue[1] \in Piece /\ queue[2] \in Piece
        BY SMTT(60), <3>2
      <4> QED BY <3>2, <4>1 DEF StreamInv, Flow, Piece
    <3>5. Len(queue) = 1 => 0 + queue[1].halves <= read
      <4>1. Len(queue) = 1 => queue[1] \in Piece
        BY <3>2
      <4> QED BY <3>3, <4>1 DEF Piece
    <3>6. Len(queue) = 2 => 0 + queue[1].halves + queue[2].halves <= read
      <4>1. Len(queue) = 2 => queue[1] \in Piece /\ queue[2] \in Piece
        BY SMTT(60), <3>2
      <4> QED BY <3>4, <4>1 DEF Piece
    <3>7. fed' = 0 /\ queue' = queue /\ 0 <= read
      BY <1>4, <3>2
    <3> QED BY <1>1, <3>1, <3>2, <3>5, <3>6, <3>7 DEF Flow
  <2>10. Rest' /\ ~Linked'
    <3>1. parser'.pending = n.pending
      BY ONLY <2>7 DEF NewScan
    <3>2. result' = "none" /\ pc' = "deliver" /\ stage' = "ended"
      BY <1>1, <1>4, <2>1
    <3> QED BY <1>4, <2>5, <3>1, <3>2 DEF Rest, Linked
  <2>11. ScanNow'
    BY <1>1, <2>6, <2>7, ScanMoves
  <2>12. TailOK'
    BY <1>1, <2>1 DEF StreamInv, TailOK
  <2> QED BY <2>8, <2>9, <2>10, <2>11, <2>12 DEF StreamInv, OpenNow
<1>5. CASE /\ stage = "ended" /\ ~cancelled /\ pc' = "wait"
           /\ UNCHANGED <<stage, fed, parser, history, result, reader, queue>>
  <2>1. Idle /\ result' = result /\ cancelled' = cancelled /\ stage' = stage
    BY <1>1, <1>5 DEF history, Idle, SameParser
  <2>2. ~Linked /\ ~Linked'
    BY <1>1, <1>5 DEF Linked
  <2>3. Rest'
    BY <1>1, <1>2, <1>5, <2>1, <2>2 DEF Rest, Idle, SameParser
  <2> QED BY <1>5, <2>1, <2>2, <2>3, IdleStep DEF StreamInv, StreamType
<1>6. CASE stage = "ended" /\ cancelled /\ Return("cancelled")
  <2>1. ~Linked /\ fed = 0 /\ result = "none"
    BY <1>1, <1>2, <1>6 DEF Linked
  <2> QED BY <1>6, <2>1, ReturnStep
<1>7. CASE /\ stage \in {"eof", "error"}
           /\ Parsed(Finish(Scan, stage = "error" \/ cancelled))
           /\ fed' = 0 /\ stage' = "ended"
           /\ UNCHANGED <<pc, result, reader, queue>>
  <2>1. (stage = "error" \/ cancelled) \in BOOLEAN
    OBVIOUS
  <2> QED BY <1>4, <1>7, <2>1
<1> QED BY <1>3, <1>5, <1>6, <1>7 DEF Delivered

-----------------------------------------------------------------------------
\* The invariant of the stream.

LEMMA StreamInit ==
  ASSUME Init
  PROVE  StreamInv
<1> DEFINE s == Scan
<1>1. /\ log \in Logs /\ written = 0 /\ cancelled = FALSE /\ pc = "top"
      /\ stage = "loop" /\ conn = [from |-> 0, since |-> NoTime] /\ read = 0
      /\ queue = <<>> /\ fed = 0 /\ tail = 0 /\ marked = {} /\ result = "none"
      /\ parser = [cursor |-> NoCursor, pending |-> NoFrame, out |-> <<>>]
      /\ taken = [i \in LineNo |-> 0] /\ cut = taken /\ handed = taken
  BY DEF Init, LineNo
<1>2. LogOK /\ Len(log) \in Nat
  <2>1. LogOK
    BY <1>1, StreamAssumption DEF LogOK, LogLine
  <2> QED BY <2>1, LogLines
<1>3. /\ NoCursor.last = NoTime /\ NoCursor.counts = Nothing
      /\ NoCursor.replay = Nothing /\ ~NoCursor.replaying
  BY DEF NoCursor
<1>4. NoCursor \in CursorType
  BY NothingOK DEF NoCursor, CursorType, Time
<1>5. NoFrame \in Frame /\ NoFrame.lines = <<>>
  BY DEF NoFrame, Frame
<1>6. /\ taken \in [LineNo -> Nat] /\ cut \in [LineNo -> Nat] /\ handed \in [LineNo -> Nat]
      /\ \A i \in LineNo : taken[i] = 0 /\ cut[i] = 0 /\ handed[i] = 0
  BY <1>1
<1>7. /\ parser \in Parsers /\ parser.cursor = NoCursor
      /\ parser.pending = NoFrame /\ parser.out = <<>>
  <2>1. <<>> \in Seq(Frame)
    OBVIOUS
  <2> QED BY ONLY <1>1, <1>4, <1>5, <2>1 DEF Parsers
<1>8. ConnOK
  <2>1. conn \in [from : Int, since : Time]
    BY <1>1 DEF Time
  <2>2. written \in 0..Len(log) /\ tail \in Int
    BY <1>1, <1>2
  <2> QED BY <1>2, <2>1, <2>2 DEF ConnOK
<1>9. StreamType
  <2>1. queue \in Seq(Piece) /\ fed \in Nat /\ read \in Nat
    BY <1>1
  <2>2. /\ cancelled \in BOOLEAN
        /\ pc \in {"top", "open", "wait", "select", "drain", "deliver", "done"}
        /\ stage \in {"loop", "drain", "eof", "error", "ended", "returned"}
    BY <1>1
  <2> QED BY <1>6, <1>7, <1>8, <2>1, <2>2 DEF StreamType, Parsers
<1>10. Flow
  <2>1. Cardinality(Wire) \in Nat
    BY <1>8, WireLine
  <2> QED BY <1>1, <2>1 DEF Flow
<1>11. ~Linked /\ Rest
  BY <1>1, <1>5, <1>7 DEF Linked, Rest
<1>12. TailOK
  BY <1>6, <1>11 DEF TailOK
<1>13. /\ s.cursor = NoCursor /\ s.pending = NoFrame /\ s.out = <<>>
       /\ s.taken = taken /\ s.cut = cut /\ s.marked = {} /\ s \in ScanType
  <2>1. s.marked \in SUBSET LineNo
    BY <1>1, ScanIs
  <2>2. s \in ScanType
    BY <1>1, <1>6, <1>7 DEF Scan, ScanType, Parsers
  <2> QED BY <1>1, <1>7, <2>2, ScanIs
<1> HIDE DEF s
<1>14. CursorInv(s)
  <2>1. CursorShape(s.cursor)
    BY <1>3, <1>13, NothingOK DEF CursorShape
  <2>2. \A x \in LineNo : ~(s.taken[x] > 0)
    BY <1>6, <1>13
  <2>3. Dated(s) /\ Untimed(s) /\ InOrder(s) /\ CountsTrue(s)
    BY <1>3, <1>13, <2>2 DEF Dated, Untimed, InOrder, CountsTrue
  <2>4. OldOnce(s)
    <3>1. \A t \in Nat : ~(t < -1)
      OBVIOUS
    <3> QED BY <1>3, <1>13, <3>1 DEF OldOnce, NoTime
  <2> QED BY <2>1, <2>3, <2>4 DEF CursorInv
<1>15. FramesInv(s)
  <2>1. Len(<<>>) = 0
    OBVIOUS
  <2> QED BY <1>5, <1>13, <2>1 DEF FramesInv, FrameWhole
<1>16. Held(s, handed)
  <2>1. ASSUME NEW i \in LineNo PROVE CopiesAt(s, i) = 0
    <3>1. Outs(s.out, i) = {} /\ ~In(s.pending, i)
      BY <1>5, <1>13 DEF Outs, In
    <3> QED BY <3>1, FS_EmptySet DEF CopiesAt
  <2> QED BY <1>6, <1>13, <2>1 DEF Held
<1> QED
  BY <1>9, <1>10, <1>11, <1>12, <1>13, <1>14, <1>15, <1>16
     DEF StreamInv, ScanNow, OpenNow, s

LEMMA StreamNext ==
  ASSUME StreamInv, [Next]_vars
  PROVE  StreamInv'
<1>1. CASE Next
  BY <1>1, WriteStep, CancelStep, ReadStep, ValidateStep, OpenStep, TakeStep,
     DrainStep, DeliverStep, DeliveredStep, WaitStep DEF Next, Stream
<1>2. CASE UNCHANGED vars
  <2>1. /\ Idle /\ cancelled' = cancelled /\ pc' = pc /\ stage' = stage
        /\ result' = result
    BY <1>2 DEF vars, Idle, SameParser
  <2>2. Linked' = Linked
    BY <2>1 DEF Linked
  <2>3. Rest'
    BY <2>1, <2>2 DEF StreamInv, Rest, Idle, SameParser
  <2> QED BY <2>1, <2>2, <2>3, IdleStep DEF StreamInv, StreamType
<1> QED BY <1>1, <1>2

LEMMA StreamAlways ==
  Spec => []StreamInv
<1>1. Init => StreamInv
  BY StreamInit
<1>2. StreamInv /\ [Next]_vars => StreamInv'
  BY StreamNext
<1> QED BY <1>1, <1>2, PTL DEF Spec

\* From the tail on that was asked for, no line that has its place is missing
\* before one that was accepted, for every log, capacity and number of broken
\* connections (kube/cursor.go: a line is dropped only when it was seen).
THEOREM LinesReached ==
  Spec => []NothingSkipped
<1>1. StreamInv => NothingSkipped
  BY DEF StreamInv, ScanNow, CursorInv, InOrder, Scan, NothingSkipped, Late, LineNo
<1> QED BY <1>1, StreamAlways, PTL

\* A line that comes again is accepted again only with a coverage gap, also
\* when the cursor had no room for its digest (kube/cursor.go).
THEOREM ReplayTold ==
  Spec => []NoSilentReplay
<1>1. ASSUME StreamInv PROVE NoSilentReplay
  <2> DEFINE s == Scan
             same(i) == {j \in DOMAIN log : log[j] = log[i]}
  <2> SUFFICES ASSUME NEW i \in LineNo, ~(same(i) \cap marked # {})
               PROVE  Cardinality(Acceptances(same(i))) <= Cardinality(same(i))
    BY DEF NoSilentReplay, LineNo
  <2> DEFINE S == same(i)
             t == log[i].at
             d == log[i].kind
  <2>1. LogOK /\ taken \in [LineNo -> Nat] /\ S \in SUBSET LineNo
        /\ t \in Time /\ d \in Kinds
    BY <1>1, LogLines DEF StreamInv, StreamType, ConnOK, ScanNow, ScanType, Scan, LineNo
  <2>2. /\ s.cursor = parser.cursor /\ s.taken = taken /\ s.marked = marked
        /\ CursorInv(s) /\ s.cursor.last \in Time
    BY <1>1, ScanIs DEF StreamInv, StreamType, CursorType, ScanNow
  <2>3. \A j \in LineNo : j \in S <=> log[j].at = t /\ log[j].kind = d
    <3> TAKE j \in LineNo
    <3>1. log[j] \in LogLine /\ log[i] \in LogLine
      BY <2>1, LogLines
    <3> QED BY <3>1 DEF LogLine, LineNo
  <2>4. Acceptances(S) = Times(taken, S)
    BY DEF Acceptances, Times
  <2>5. Cardinality(Times(taken, S)) \in Nat /\ Cardinality(S) \in Nat
    BY <2>1, TimesOK, FiniteLines
  <2> HIDE DEF s, S
  <2>6. CASE \A x \in S : ~(taken[x] > 0)
    <3>1. Cardinality(Times(taken, S)) = 0
      BY <2>1, <2>6, TimesEmpty
    <3> QED BY <2>4, <2>5, <3>1 DEF S
  <2>7. CASE \E x \in S : taken[x] > 0
    <3>1. PICK x \in S : taken[x] > 0
      BY <2>7
    <3>2. x \in LineNo /\ log[x].at = t /\ x \notin marked
      <4>1. S \cap marked = {}
        BY DEF S
      <4> QED BY <2>1, <2>3, <3>1, <4>1
    <3>3. t # NoTime
      BY <2>2, <3>1, <3>2 DEF CursorInv, Untimed
    <3>4. t <= s.cursor.last
      BY <2>2, <3>1, <3>2 DEF CursorInv, Dated
    <3>5. S = Class(t, d)
      BY <2>1, <2>3 DEF Class
    <3>6. CASE t < s.cursor.last
      <4>1. t \in Nat
        BY <2>1, <3>3 DEF Time
      <4>2. S \cap marked = {}
        BY DEF S
      <4>3. Cardinality(Times(taken, S)) <= Cardinality(S)
        BY <2>1, <2>2, <3>5, <3>6, <4>1, <4>2 DEF CursorInv, OldOnce
      <4> QED BY <2>4, <4>3 DEF S
    <3>7. CASE t = s.cursor.last
      <4> DEFINE n == s.cursor.counts[d]
      <4>1. /\ n = Cardinality(Times(taken, S)) \/ \A z \in S : taken[z] > 0 => z \in marked
            /\ n <= Cardinality(Reached(taken, S))
        BY <2>1, <2>2, <3>3, <3>5, <3>7 DEF CursorInv, CountsTrue
      <4>2. n = Cardinality(Times(taken, S))
        BY <3>1, <3>2, <4>1
      <4>3. /\ Cardinality(Reached(taken, S)) <= Cardinality(S)
            /\ Cardinality(Reached(taken, S)) \in Nat
        BY <2>1, ReachedMore
      <4> HIDE DEF n
      <4>4. Cardinality(Times(taken, S)) <= Cardinality(S)
        BY <2>5, <4>1, <4>2, <4>3
      <4> QED BY <2>4, <4>4 DEF S
    <3>8. t < s.cursor.last \/ t = s.cursor.last
      BY <2>1, <2>2, <3>4 DEF Time, NoTime
    <3> QED BY <3>6, <3>7, <3>8
  <2> QED BY <2>6, <2>7
<1> QED BY <1>1, StreamAlways, PTL

\* No accepted line is lost: it was handed over or is still in the parser, and
\* a stream that ends but for a refusal leaves nothing there (kube/live.go:
\* what a cancelled stream holds is finalized and delivered).
THEOREM LinesDelivered ==
  Spec => []EvidenceKept
<1>1. ASSUME StreamInv PROVE EvidenceKept
  <2> SUFFICES ASSUME result # "refused", NEW i \in LineNo
               PROVE  /\ log[i].kind # "blank" =>
                           taken[i] + cut[i] = handed[i] + Copies(i)
                      /\ pc = "done" => Copies(i) = 0
    BY DEF EvidenceKept, LineNo
  <2>1. Copies(i) = CopiesAt(Scan, i)
    BY ScanIs DEF Copies, CopiesAt, Outs, In
  <2>2. log[i].kind # "blank" => taken[i] + cut[i] = handed[i] + Copies(i)
    BY <1>1, <2>1, ScanIs DEF StreamInv, ScanNow, Held
  <2>3. pc = "done" => Copies(i) = 0
    <3> SUFFICES ASSUME pc = "done" PROVE CopiesAt(Scan, i) = 0
      BY <2>1
    <3>1. parser.out = <<>> /\ parser.pending.lines = <<>>
      BY <1>1 DEF StreamInv, Rest
    <3>2. Outs(Scan.out, i) = {} /\ ~In(Scan.pending, i)
      BY <3>1, ScanIs DEF Outs, In
    <3> QED BY <3>2, FS_EmptySet DEF CopiesAt
  <2> QED BY <2>2, <2>3
<1> QED BY <1>1, StreamAlways, PTL

\* No event splices lines from two places of the log together, wherever the
\* chunks end and the connections break (event/event.go).
THEOREM FramesTrue ==
  Spec => []FramesWhole
<1>1. ASSUME StreamInv PROVE FramesWhole
  <2>1. FramesInv(Scan)
    BY <1>1 DEF StreamInv, ScanNow
  <2>2. \A e \in {parser.pending} \cup {parser.out[k] : k \in DOMAIN parser.out} :
          FrameWhole(Scan, e)
    BY <2>1, ScanIs DEF FramesInv
  <2> QED BY <2>2, ScanIs DEF FrameWhole, Place, Passed, FramesWhole, Placed
<1> QED BY <1>1, StreamAlways, PTL

-----------------------------------------------------------------------------
(* The collection the stream is one of.                                    *)

USE CollectorAssumption

Reader == [stream : Sources, at : {"reading", "ended", "joined"}, stopped : BOOLEAN]

SlotType ==
  /\ readers \in Seq(Reader) /\ done \in Seq(Sources)
  /\ DOMAIN active \subseteq Sources /\ listed \subseteq Sources

\* A slot belongs to a reader of its stream, and a reader at work has its slot.
SlotOfReader ==
  /\ \A s \in DOMAIN active :
       active[s] \in DOMAIN readers /\ readers[active[s]].stream = s
  /\ \A r \in DOMAIN readers : readers[r].at # "joined" =>
       readers[r].stream \in DOMAIN active /\ active[readers[r].stream] = r

\* What is on the way in the channel: once for each slot whose reader joined,
\* and for every one of them unless the collection is cancelled.
WordOfEnd ==
  /\ \A i \in DOMAIN done :
       done[i] \in DOMAIN active /\ readers[active[done[i]]].at = "joined"
  /\ \A i, j \in DOMAIN done : done[i] = done[j] => i = j
  /\ \A s \in DOMAIN active : readers[active[s]].at = "joined" =>
       over \/ \E i \in DOMAIN done : done[i] = s

SlotsInv ==
  /\ SlotType /\ SlotOfReader /\ WordOfEnd
  /\ Cardinality(DOMAIN active) <= MaxStreams

\* The parts of the two modes do not meet.
OneMode ==
  /\ mode \in {"follow", "snapshot"}
  /\ mode = "snapshot" => readers = <<>> /\ fatal = <<>>
  /\ mode = "follow" => first = None /\ \A w \in Workers : worker[w] = None
  /\ mode = "follow" => \A s \in Sources : made[s] = "unread"

\* A cancellation has its cause.
CauseOfCancel ==
  /\ caller => over
  /\ fatal # <<>> => over
  /\ over => caller \/ fatal # <<>> \/ first # None \/ outcome = "unlisted"
  /\ first \in {None, "failed", "cancelled"}
  /\ first = "cancelled" => caller

\* What the result is, and since when.
ResultTrue ==
  /\ at \in {"list", "listed", "select", "join", "returned"}
  /\ at \notin {"join", "returned"} => outcome = None
  /\ at = "select" => mode = "follow"
  /\ at = "list" \/ outcome = "unlisted" =>
       first = None /\ (\A w \in Workers : worker[w] = None)
       /\ \A s \in Sources : made[s] = "unread"
  /\ mode = "follow" /\ at \in {"join", "returned"} =>
       /\ outcome \in {"unlisted", "failed", "cancelled"}
       /\ outcome = "cancelled" => caller
  /\ mode = "snapshot" /\ at = "join" => outcome \in {None, "unlisted"}
  /\ mode = "snapshot" /\ at = "returned" => outcome \in {Outcome, "unlisted"}
  /\ at = "returned" => /\ \A w \in Workers : worker[w] = None
                        /\ \A r \in DOMAIN readers : readers[r].at = "joined"

\* Where a stream of a snapshot is.
ReadTrue ==
  /\ listed \subseteq Sources
  /\ worker \in [Workers -> Sources \cup {None}]
  /\ made \in [Sources -> {"unread", "reading", "read", "gap", "failed",
                          "cancelled", "skipped"}]
  /\ \A s \in Sources :
       /\ made[s] \in {"failed", "cancelled"} => first # None
       /\ made[s] = "skipped" => over
       /\ made[s] = "reading" => \E w \in Workers : worker[w] = s
  /\ mode = "snapshot" /\ at \in {"join", "returned"} =>
       over \/ \A s \in listed : made[s] # "unread"

EndInv == OneMode /\ CauseOfCancel /\ ResultTrue /\ ReadTrue


-----------------------------------------------------------------------------
\* A finite set in some order: each member once.
LEMMA OrderOfSet ==
  ASSUME NEW S, IsFiniteSet(S)
  PROVE  /\ SetToSeq(S) \in Seq(S) /\ Len(SetToSeq(S)) = Cardinality(S)
         /\ \A i, j \in DOMAIN SetToSeq(S) :
              SetToSeq(S)[i] = SetToSeq(S)[j] => i = j
         /\ \A x \in S : \E i \in DOMAIN SetToSeq(S) : SetToSeq(S)[i] = x
<1> DEFINE n == Cardinality(S)
           o == SetToSeq(S)
<1>1. n \in Nat /\ \E f : f \in Bijection(1..n, S)
  BY FS_CardinalityType DEF ExistsBijection
<1>2. \E f \in [1..n -> S] : IsInjective(f)
  BY <1>1 DEF Bijection, Injection
<1>3. o \in [1..n -> S] /\ IsInjective(o)
  <2>1. \E f \in [1..Cardinality(S) -> S] : IsInjective(f)
    BY <1>2 DEF IsInjective
  <2>2. o \in [1..Cardinality(S) -> S] /\ IsInjective(o)
    BY <2>1 DEF SetToSeq
  <2> QED BY <2>2 DEF IsInjective
<1>4. o \in Injection(1..n, S)
  BY <1>3 DEF Injection
<1>5. Cardinality(1..n) = n
  BY <1>1, FS_Interval
<1>6. o \in Surjection(1..n, S)
  BY <1>4, <1>5, FS_Injection
<1>7. o \in Seq(S) /\ Len(o) = n /\ DOMAIN o = 1..n
  BY <1>1, <1>3
<1>8. /\ \A i, j \in DOMAIN o : o[i] = o[j] => i = j
      /\ \A x \in S : \E i \in DOMAIN o : o[i] = x
  BY <1>3, <1>6, <1>7 DEF IsInjective, Surjection
<1> QED BY <1>7, <1>8

\* What Discover starts fits into the slots.
LEMMA RoomKept ==
  ASSUME SlotsInv, NEW chosen \in SUBSET Sources,
         NEW k \in Int, NEW m \in Int,
         Cardinality(chosen) = Min({k, Min({MaxStreams - Cardinality(DOMAIN active), m})})
  PROVE  IsFiniteSet(chosen) /\ Cardinality(DOMAIN active \cup chosen) <= MaxStreams
<1> DEFINE c == Cardinality(DOMAIN active)
           room == Min({MaxStreams - c, m})
<1>1. IsFiniteSet(chosen) /\ IsFiniteSet(DOMAIN active)
  BY FS_Subset DEF SlotsInv, SlotType
<1>2. c \in Nat /\ Cardinality(chosen) \in Nat
  BY <1>1, FS_CardinalityType
<1>3. \A a, b \in Int : Min({a, b}) \in {a, b} /\ Min({a, b}) <= a /\ Min({a, b}) <= b
  <2> SUFFICES ASSUME NEW a \in Int, NEW b \in Int
               PROVE  Min({a, b}) \in {a, b} /\ Min({a, b}) <= a /\ Min({a, b}) <= b
    OBVIOUS
  <2>1. \E x \in {a, b} : \A y \in {a, b} : x =< y
    OBVIOUS
  <2> QED BY <2>1 DEF Min
<1>4. room \in Int /\ room <= MaxStreams - c
  BY <1>2, <1>3
<1>5. Cardinality(chosen) <= room
  BY <1>3, <1>4
<1>6. /\ IsFiniteSet(DOMAIN active \cup chosen)
      /\ Cardinality(DOMAIN active \cup chosen) =
           c + Cardinality(chosen) - Cardinality(DOMAIN active \cap chosen)
  BY <1>1, FS_Union
<1>7. Cardinality(DOMAIN active \cap chosen) \in Nat
  BY <1>1, FS_Subset, FS_CardinalityType
<1> QED BY <1>1, <1>2, <1>4, <1>5, <1>6, <1>7

-----------------------------------------------------------------------------
(* The slots.                                                              *)

\* What a step leaves alone.
LEMMA SlotsFrame ==
  ASSUME SlotsInv, UNCHANGED <<active, readers, done>>, over => over',
         listed' \subseteq Sources
  PROVE  SlotsInv'
BY DEF SlotsInv, SlotType, SlotOfReader, WordOfEnd

\* A discovery keeps the readers and slots that are there, and gives each stream
\* it chooses a new one.
Discovered(chosen) ==
  /\ chosen \subseteq Sources \ DOMAIN active
  /\ Cardinality(DOMAIN active \cup chosen) <= MaxStreams
  /\ readers' \in Seq(Reader)
  /\ DOMAIN readers \subseteq DOMAIN readers'
  /\ \A r \in DOMAIN readers :
       readers'[r].stream = readers[r].stream /\ readers'[r].at = readers[r].at
  /\ DOMAIN active' = DOMAIN active \cup chosen
  /\ \A s \in DOMAIN active : active'[s] = active[s]
  /\ \A s \in chosen : active'[s] \in DOMAIN readers' /\ readers'[active'[s]].stream = s
                       /\ readers'[active'[s]].at = "reading"
  /\ \A r \in DOMAIN readers' \ DOMAIN readers :
       readers'[r].stream \in chosen /\ active'[readers'[r].stream] = r

LEMMA DiscoverStep ==
  ASSUME SlotsInv, Discover
  PROVE  \E chosen \in SUBSET listed : Discovered(chosen)
<1> DEFINE new == listed \ DOMAIN active
           n == Len(readers)
           kept == [r \in DOMAIN readers |->
             IF \E s \in DOMAIN active \ listed : active[s] = r
             THEN [readers[r] EXCEPT !.stopped = TRUE] ELSE readers[r]]
           given(o) == [i \in DOMAIN o |-> [stream |-> o[i], at |-> "reading",
                                            stopped |-> FALSE]]
<1>1. PICK chosen \in SUBSET new :
        /\ Cardinality(chosen) = Min({Cardinality(new),
             Min({MaxStreams - Cardinality(DOMAIN active), MaxReaders - Len(readers)})})
        /\ readers' = kept \o given(SetToSeq(chosen))
        /\ active' = [s \in DOMAIN active \cup chosen |->
             IF s \in chosen
             THEN n + CHOOSE i \in DOMAIN SetToSeq(chosen) : SetToSeq(chosen)[i] = s
             ELSE active[s]]
  BY DEF Discover, Slots
<1> DEFINE o == SetToSeq(chosen)
<1>2. /\ readers \in Seq(Reader) /\ n \in Nat /\ DOMAIN readers = 1..n
      /\ DOMAIN active \subseteq Sources /\ listed \subseteq Sources
  BY DEF SlotsInv, SlotType
<1>3. IsFiniteSet(chosen) /\ Cardinality(DOMAIN active \cup chosen) <= MaxStreams
  <2>1. IsFiniteSet(new)
    BY <1>2, FS_Subset
  <2>2. Cardinality(new) \in Int /\ MaxReaders - Len(readers) \in Int
    BY <1>2, <2>1, FS_CardinalityType
  <2>3. chosen \in SUBSET Sources
    BY <1>2
  <2> QED BY <1>1, <2>2, <2>3, RoomKept
<1>4. /\ o \in Seq(chosen) /\ DOMAIN o = 1..Len(o) /\ Len(o) \in Nat
      /\ \A i, j \in DOMAIN o : o[i] = o[j] => i = j
      /\ \A s \in chosen : \E i \in DOMAIN o : o[i] = s
  BY <1>3, OrderOfSet
<1> HIDE DEF o
<1>5. /\ kept \in Seq(Reader) /\ Len(kept) = n
      /\ \A r \in 1..n : kept[r].stream = readers[r].stream /\ kept[r].at = readers[r].at
  <2>1. \A r \in 1..n : /\ kept[r] \in Reader
                        /\ kept[r].stream = readers[r].stream /\ kept[r].at = readers[r].at
    <3> TAKE r \in 1..n
    <3>1. readers[r] \in Reader
      BY <1>2
    <3>2. kept[r] = [readers[r] EXCEPT !.stopped = TRUE] \/ kept[r] = readers[r]
      BY <1>2
    <3>3. CASE kept[r] = [readers[r] EXCEPT !.stopped = TRUE]
      BY <3>1, <3>3 DEF Reader
    <3> QED BY <3>1, <3>2, <3>3
  <2> QED BY <1>2, <2>1
<1>6. /\ given(o) \in Seq(Reader) /\ Len(given(o)) = Len(o)
      /\ \A i \in 1..Len(o) : given(o)[i].stream = o[i] /\ given(o)[i].at = "reading"
  <2>1. \A i \in 1..Len(o) : o[i] \in Sources
    BY <1>2, <1>4
  <2>2. \A i \in 1..Len(o) : /\ given(o)[i] \in Reader
                             /\ given(o)[i].stream = o[i] /\ given(o)[i].at = "reading"
    BY <1>4, <2>1 DEF Reader
  <2> QED BY <1>4, <2>2
<1>7. readers' = kept \o given(o)
  BY <1>1 DEF o
<1> HIDE DEF kept, given
<1>8. /\ readers' \in Seq(Reader) /\ DOMAIN readers' = 1..(n + Len(o))
      /\ \A r \in 1..(n + Len(o)) :
           readers'[r] = IF r <= n THEN kept[r] ELSE given(o)[r - n]
  <2>1. /\ readers' \in Seq(Reader) /\ Len(readers') = Len(kept) + Len(given(o))
        /\ \A r \in 1..(Len(kept) + Len(given(o))) :
             readers'[r] = IF r <= Len(kept) THEN kept[r] ELSE given(o)[r - Len(kept)]
    <3>1. /\ kept \o given(o) \in Seq(Reader)
          /\ Len(kept \o given(o)) = Len(kept) + Len(given(o))
          /\ \A r \in 1..(Len(kept) + Len(given(o))) :
               (kept \o given(o))[r]
                 = IF r <= Len(kept) THEN kept[r] ELSE given(o)[r - Len(kept)]
      <4>1. kept \in Seq(Reader) /\ given(o) \in Seq(Reader)
        BY ONLY <1>5, <1>6
      <4> QED BY ONLY <4>1, ConcatProperties
    <3> QED BY ONLY <1>7, <3>1
  <2> QED BY <1>5, <1>6, <2>1
<1>9. \A r \in 1..n : readers'[r].stream = readers[r].stream /\ readers'[r].at = readers[r].at
  BY <1>2, <1>4, <1>5, <1>8
<1>10. \A i \in 1..Len(o) : readers'[n + i].stream = o[i] /\ readers'[n + i].at = "reading"
  <2> TAKE i \in 1..Len(o)
  <2>1. n + i \in 1..(n + Len(o)) /\ ~(n + i <= n) /\ (n + i) - n = i
    BY <1>2, <1>4
  <2>2. readers'[n + i] = given(o)[i]
    BY <1>8, <2>1
  <2> QED BY <1>6, <2>2
<1>11. /\ DOMAIN active' = DOMAIN active \cup chosen
       /\ \A s \in DOMAIN active : active'[s] = active[s]
  BY <1>1
<1>12. \A s \in chosen : \E i \in 1..Len(o) : o[i] = s /\ active'[s] = n + i
  <2> TAKE s \in chosen
  <2>1. active'[s] = n + CHOOSE i \in DOMAIN o : o[i] = s
    BY <1>1 DEF o
  <2> QED BY <1>4, <2>1
<1>13. \A s \in chosen : /\ active'[s] \in DOMAIN readers' /\ readers'[active'[s]].stream = s
                         /\ readers'[active'[s]].at = "reading"
  BY <1>2, <1>4, <1>8, <1>10, <1>12
<1>14. \A r \in DOMAIN readers' \ DOMAIN readers :
         readers'[r].stream \in chosen /\ active'[readers'[r].stream] = r
  <2> TAKE r \in DOMAIN readers' \ DOMAIN readers
  <2>1. PICK i \in 1..Len(o) : r = n + i
    <3>1. r - n \in 1..Len(o) /\ r = n + (r - n)
      BY <1>2, <1>4, <1>8
    <3> QED BY <3>1
  <2>2. o[i] \in chosen /\ readers'[r].stream = o[i]
    BY <1>4, <1>10, <2>1
  <2>3. PICK j \in 1..Len(o) : o[j] = o[i] /\ active'[o[i]] = n + j
    BY <1>12, <2>2
  <2> QED BY <1>4, <2>1, <2>2, <2>3
<1>15. chosen \subseteq Sources \ DOMAIN active /\ DOMAIN readers \subseteq DOMAIN readers'
  BY <1>2, <1>4, <1>8
<1>16. Discovered(chosen)
  BY <1>2, <1>3, <1>8, <1>9, <1>11, <1>13, <1>14, <1>15 DEF Discovered
<1> QED BY <1>16

LEMMA SlotsDiscover == ASSUME SlotsInv, Discover PROVE SlotsInv'
<1>1. PICK chosen \in SUBSET listed : Discovered(chosen)
  BY DiscoverStep
<1>2. UNCHANGED <<done, over>> /\ listed' = {}
  BY DEF Discover
<1>3. SlotType' /\ Cardinality(DOMAIN active') <= MaxStreams
  BY <1>1, <1>2 DEF Discovered, SlotsInv, SlotType
<1>4. SlotOfReader'
  <2>1. \A s \in DOMAIN active' :
          active'[s] \in DOMAIN readers' /\ readers'[active'[s]].stream = s
    BY <1>1 DEF Discovered, SlotsInv, SlotOfReader
  <2>2. \A r \in DOMAIN readers' : readers'[r].at # "joined" =>
          readers'[r].stream \in DOMAIN active' /\ active'[readers'[r].stream] = r
    BY <1>1 DEF Discovered, SlotsInv, SlotOfReader
  <2> QED BY <2>1, <2>2 DEF SlotOfReader
<1>5. WordOfEnd'
  <2>1. \A i \in DOMAIN done :
          done[i] \in DOMAIN active' /\ readers'[active'[done[i]]].at = "joined"
    BY <1>1 DEF Discovered, SlotsInv, SlotOfReader, WordOfEnd
  <2>2. \A s \in DOMAIN active' : readers'[active'[s]].at = "joined" =>
          s \in DOMAIN active /\ readers[active[s]].at = "joined"
    BY <1>1 DEF Discovered, SlotsInv, SlotOfReader
  <2> QED BY <1>2, <2>1, <2>2 DEF SlotsInv, WordOfEnd
<1> QED BY <1>3, <1>4, <1>5 DEF SlotsInv

LEMMA SlotsReaderEnds ==
  ASSUME SlotsInv, NEW r \in DOMAIN readers, ReaderEnds(r)
  PROVE  SlotsInv'
<1>1. /\ readers' = [readers EXCEPT ![r] = [@ EXCEPT !.at = "ended"]]
      /\ UNCHANGED <<listed, active, done>> /\ (over => over')
      /\ readers[r].at = "reading"
  BY DEF ReaderEnds
<1>2. /\ readers \in Seq(Reader) /\ r \in 1..Len(readers) /\ readers[r] \in Reader
  BY DEF SlotsInv, SlotType
<1>3. [readers[r] EXCEPT !.at = "ended"] \in Reader
  BY <1>2 DEF Reader
<1>4. /\ readers' \in Seq(Reader) /\ DOMAIN readers' = DOMAIN readers
      /\ \A q \in DOMAIN readers : q # r => readers'[q] = readers[q]
      /\ readers'[r].stream = readers[r].stream /\ readers'[r].at = "ended"
  BY <1>1, <1>2, <1>3 DEF Reader
<1>5. \A q \in DOMAIN readers : /\ readers'[q].stream = readers[q].stream
                               /\ readers'[q].at = "joined" <=> readers[q].at = "joined"
  BY <1>1, <1>4
<1>6. SlotType' /\ Cardinality(DOMAIN active') <= MaxStreams
  BY <1>1, <1>4 DEF SlotsInv, SlotType
<1>7. SlotOfReader' /\ WordOfEnd'
  BY <1>1, <1>4, <1>5 DEF SlotsInv, SlotOfReader, WordOfEnd
<1> QED BY <1>6, <1>7 DEF SlotsInv

LEMMA SlotsReaderJoins ==
  ASSUME SlotsInv, NEW r \in DOMAIN readers, ReaderJoins(r)
  PROVE  SlotsInv'
<1> DEFINE s == readers[r].stream
<1>1. /\ readers' = [readers EXCEPT ![r] = [@ EXCEPT !.at = "joined", !.stopped = TRUE]]
      /\ UNCHANGED <<listed, active, over>>
      /\ readers[r].at = "ended"
  BY DEF ReaderJoins
<1>2. /\ readers \in Seq(Reader) /\ r \in 1..Len(readers) /\ readers[r] \in Reader
  BY DEF SlotsInv, SlotType
<1>3. [readers[r] EXCEPT !.at = "joined", !.stopped = TRUE] \in Reader
  BY <1>2 DEF Reader
<1>4. /\ readers' \in Seq(Reader) /\ DOMAIN readers' = DOMAIN readers
      /\ \A q \in DOMAIN readers : q # r => readers'[q] = readers[q]
      /\ readers'[r].stream = s /\ readers'[r].at = "joined"
  <2>1. readers'[r] = [readers[r] EXCEPT !.at = "joined", !.stopped = TRUE]
    BY <1>1, <1>2
  <2>2. readers'[r].stream = s /\ readers'[r].at = "joined"
    BY <1>2, <2>1 DEF Reader
  <2> QED BY <1>1, <1>2, <1>3, <2>2
<1>5. /\ s \in Sources /\ s \in DOMAIN active /\ active[s] = r
      /\ \A i \in DOMAIN done : done[i] # s
  BY <1>1, <1>2 DEF SlotsInv, SlotOfReader, WordOfEnd, Reader
<1>6. SlotOfReader'
  BY <1>1, <1>4 DEF SlotsInv, SlotOfReader
<1>7. \A t \in DOMAIN active :
        readers'[active[t]].at = "joined" <=> t = s \/ readers[active[t]].at = "joined"
  BY <1>1, <1>4, <1>5 DEF SlotsInv, SlotOfReader
<1>8. CASE done' = done /\ over
  <2>1. SlotType' /\ Cardinality(DOMAIN active') <= MaxStreams
    BY <1>1, <1>4, <1>8 DEF SlotsInv, SlotType
  <2>2. WordOfEnd'
    BY <1>1, <1>7, <1>8 DEF SlotsInv, WordOfEnd
  <2> QED BY <1>6, <2>1, <2>2 DEF SlotsInv
<1>9. CASE done' = Append(done, s)
  <2>1. done \in Seq(Sources) /\ Len(done) \in Nat /\ DOMAIN done = 1..Len(done)
    BY DEF SlotsInv, SlotType
  <2>2. /\ done' \in Seq(Sources) /\ DOMAIN done' = 1..(Len(done) + 1)
        /\ \A i \in 1..Len(done) : done'[i] = done[i]
        /\ done'[Len(done) + 1] = s
    BY <1>5, <1>9, <2>1, AppendProperties
  <2>3. SlotType' /\ Cardinality(DOMAIN active') <= MaxStreams
    BY <1>1, <1>4, <2>2 DEF SlotsInv, SlotType
  <2>4. \A i \in DOMAIN done' :
          done'[i] \in DOMAIN active /\ readers'[active[done'[i]]].at = "joined"
    BY <1>5, <1>7, <2>1, <2>2 DEF SlotsInv, WordOfEnd
  <2>5. \A i, j \in DOMAIN done' : done'[i] = done'[j] => i = j
    BY <1>5, <2>1, <2>2 DEF SlotsInv, WordOfEnd
  <2>6. \A t \in DOMAIN active : readers'[active[t]].at = "joined" =>
          over \/ \E i \in DOMAIN done' : done'[i] = t
    <3>1. \E i \in DOMAIN done' : done'[i] = s
      BY <2>1, <2>2
    <3>2. \A i \in DOMAIN done : i \in DOMAIN done' /\ done'[i] = done[i]
      BY <2>1, <2>2
    <3> QED BY <1>7, <3>1, <3>2 DEF SlotsInv, WordOfEnd
  <2>7. WordOfEnd'
    BY <1>1, <2>4, <2>5, <2>6 DEF WordOfEnd
  <2> QED BY <1>6, <2>3, <2>7 DEF SlotsInv
<1> QED BY <1>8, <1>9 DEF ReaderJoins

LEMMA SlotsTakeDone == ASSUME SlotsInv, TakeDone PROVE SlotsInv'
<1> DEFINE h == Head(done)
<1>1. /\ done # <<>> /\ done' = Tail(done)
      /\ active' = [s \in DOMAIN active \ {h} |-> active[s]]
      /\ UNCHANGED <<listed, readers, over>>
  <2>1. DOMAIN active \cap (DOMAIN active \ {h}) = DOMAIN active \ {h}
    OBVIOUS
  <2> QED BY <2>1 DEF TakeDone, Restrict
<1>2. done \in Seq(Sources) /\ Len(done) \in Nat /\ DOMAIN done = 1..Len(done)
  BY DEF SlotsInv, SlotType
<1>3. /\ done' \in Seq(Sources) /\ DOMAIN done' = 1..(Len(done) - 1) /\ Len(done) > 0
      /\ \A i \in 1..(Len(done) - 1) : done'[i] = done[i + 1]
      /\ h = done[1]
  BY <1>1, <1>2, HeadTailProperties
<1>4. /\ DOMAIN active' = DOMAIN active \ {h}
      /\ \A s \in DOMAIN active' : active'[s] = active[s]
  BY <1>1
<1>5. h \in DOMAIN active /\ readers[active[h]].at = "joined"
  BY <1>2, <1>3 DEF SlotsInv, WordOfEnd
<1>6. SlotType' /\ Cardinality(DOMAIN active') <= MaxStreams
  <2>1. IsFiniteSet(DOMAIN active) /\ DOMAIN active' \in SUBSET DOMAIN active
    BY <1>4, FS_Subset DEF SlotsInv, SlotType
  <2>2. /\ Cardinality(DOMAIN active') <= Cardinality(DOMAIN active)
        /\ Cardinality(DOMAIN active) \in Nat /\ Cardinality(DOMAIN active') \in Nat
    BY <2>1, FS_Subset, FS_CardinalityType
  <2> QED BY <1>1, <1>3, <1>4, <2>2 DEF SlotsInv, SlotType
<1>7. SlotOfReader'
  BY <1>1, <1>4, <1>5 DEF SlotsInv, SlotOfReader
<1>8. WordOfEnd'
  <2>1. \A i \in DOMAIN done' : /\ i + 1 \in DOMAIN done /\ done'[i] = done[i + 1]
                                /\ done'[i] # h
    BY <1>2, <1>3 DEF SlotsInv, WordOfEnd
  <2>2. \A i \in DOMAIN done' :
          done'[i] \in DOMAIN active' /\ readers[active'[done'[i]]].at = "joined"
    BY <1>4, <2>1 DEF SlotsInv, WordOfEnd
  <2>3. \A i, j \in DOMAIN done' : done'[i] = done'[j] => i = j
    <3> TAKE i, j \in DOMAIN done'
    <3>1. i \in Int /\ j \in Int
      BY <1>2, <1>3
    <3>2. done'[i] = done'[j] => i + 1 = j + 1
      BY <2>1 DEF SlotsInv, WordOfEnd
    <3> QED BY <3>1, <3>2
  <2>4. \A i \in DOMAIN done : done[i] # h => \E j \in DOMAIN done' : done'[j] = done[i]
    <3> TAKE i \in DOMAIN done
    <3> HAVE done[i] # h
    <3>1. i - 1 \in DOMAIN done' /\ done'[i - 1] = done[i]
      BY <1>2, <1>3
    <3> QED BY <3>1
  <2>5. \A s \in DOMAIN active' : readers[active'[s]].at = "joined" =>
          over \/ \E i \in DOMAIN done' : done'[i] = s
    BY <1>4, <2>4 DEF SlotsInv, WordOfEnd
  <2> QED BY <1>1, <2>2, <2>3, <2>5 DEF WordOfEnd
<1> QED BY <1>6, <1>7, <1>8 DEF SlotsInv

LEMMA SlotsInit == CollectorInit => SlotsInv
<1> HAVE CollectorInit
<1>1. /\ DOMAIN active = {} /\ DOMAIN readers = {} /\ DOMAIN done = {}
      /\ readers = <<>> /\ done = <<>> /\ listed = {}
  BY DEF CollectorInit
<1>2. Cardinality(DOMAIN active) <= MaxStreams
  BY <1>1, FS_EmptySet
<1> QED BY <1>1, <1>2 DEF SlotsInv, SlotType, SlotOfReader, WordOfEnd

LEMMA SlotsNext == ASSUME SlotsInv, [CollectorNext]_collectorVars PROVE SlotsInv'
<1>1. CASE UNCHANGED collectorVars
  BY <1>1, SlotsFrame DEF collectorVars, SlotsInv, SlotType
<1>2. CASE Discover
  BY <1>2, SlotsDiscover
<1>3. CASE \E r \in DOMAIN readers : ReaderEnds(r) \/ ReaderJoins(r)
  BY <1>3, SlotsReaderEnds, SlotsReaderJoins
<1>4. CASE TakeDone
  BY <1>4, SlotsTakeDone
<1>5. CASE List
  <2>1. listed \subseteq Sources
    BY DEF SlotsInv, SlotType
  <2> QED BY <1>5, <2>1, SlotsFrame DEF List, following
<1>6. CASE \/ CallerCancels \/ FollowLeaves \/ Dispatch \/ Dispatched \/ Joined
           \/ \E w \in Workers : StreamEnds(w)
  <2>1. listed' \subseteq Sources
    BY <1>6 DEF SlotsInv, SlotType, CallerCancels, FollowLeaves, Dispatch, Dispatched, Joined,
                StreamEnds
  <2>2. UNCHANGED <<active, readers, done>> /\ (over => over')
    BY <1>6 DEF CallerCancels, FollowLeaves, Dispatch, Dispatched, Joined, StreamEnds,
                following
  <2> QED BY <2>1, <2>2, SlotsFrame
<1> QED BY <1>1, <1>2, <1>3, <1>4, <1>5, <1>6 DEF CollectorNext

\* The readers at work hold different slots, so they are no more than the slots.
LEMMA SlotsInvKept == SlotsInv => SlotsKept
<1> SUFFICES ASSUME SlotsInv PROVE SlotsKept
  OBVIOUS
<1> DEFINE going == {r \in DOMAIN readers : readers[r].at # "joined"}
           slot == [r \in going |-> readers[r].stream]
<1>1. \A r \in going : readers[r].stream \in DOMAIN active /\ active[readers[r].stream] = r
  BY DEF SlotsInv, SlotOfReader
<1>2. slot \in Injection(going, DOMAIN active)
  BY <1>1 DEF Injection, IsInjective
<1>3. IsFiniteSet(DOMAIN active) /\ Cardinality(DOMAIN active) \in Nat
  BY FS_Subset, FS_CardinalityType DEF SlotsInv, SlotType
<1>4. IsFiniteSet(going) /\ Cardinality(going) <= Cardinality(DOMAIN active)
  BY <1>2, <1>3, FS_Injection
<1>5. Cardinality(going) <= MaxStreams
  BY <1>3, <1>4, FS_CardinalityType DEF SlotsInv
<1>6. \A r, q \in going : readers[r].stream = readers[q].stream => r = q
  BY <1>1
<1>7. \A s \in DOMAIN active : active[s] \in going \/ over
                               \/ \E i \in DOMAIN done : done[i] = s
  BY DEF SlotsInv, SlotOfReader, WordOfEnd
<1> QED BY <1>1, <1>5, <1>6, <1>7 DEF SlotsKept

\* However streams come and go, at most MaxStreams readers are at work, no two
\* of them on one stream, and no slot is leaked or given away under its reader
\* (live.go, follow: active and done).
THEOREM SlotsSafe == CollectorSpec => []SlotsKept
<1>1. CollectorInit => SlotsInv
  BY SlotsInit
<1>2. SlotsInv /\ [CollectorNext]_collectorVars => SlotsInv'
  BY SlotsNext
<1>3. SlotsInv => SlotsKept
  BY SlotsInvKept
<1> QED BY <1>1, <1>2, <1>3, PTL DEF CollectorSpec

-----------------------------------------------------------------------------
(* How a collection ends.                                                  *)

LEMMA EndInit == CollectorInit => EndInv
BY DEF CollectorInit, EndInv, OneMode, CauseOfCancel, ResultTrue, ReadTrue, None

LEMMA EndCancel == ASSUME EndInv, CallerCancels PROVE EndInv'
<1> USE DEF CallerCancels, following, snapshot
<1>1. OneMode'
  BY DEF EndInv, OneMode
<1>2. CauseOfCancel'
  BY DEF EndInv, CauseOfCancel
<1>3. ResultTrue'
  BY DEF EndInv, ResultTrue
<1>4. ReadTrue'
  BY DEF EndInv, ReadTrue
<1> QED BY <1>1, <1>2, <1>3, <1>4 DEF EndInv

LEMMA EndList == ASSUME EndInv, List PROVE EndInv'
<1> USE DEF List, following, snapshot
<1>1. OneMode'
  BY DEF EndInv, OneMode
<1>2. CauseOfCancel'
  BY DEF EndInv, CauseOfCancel, ResultTrue
<1>3. ResultTrue'
  BY DEF EndInv, ResultTrue, OneMode
<1>4. ReadTrue'
  BY DEF EndInv, ReadTrue, ResultTrue
<1> QED BY <1>1, <1>2, <1>3, <1>4 DEF EndInv

LEMMA EndDiscover == ASSUME EndInv, Discover PROVE EndInv'
<1>1. /\ mode = "follow" /\ at = "listed" /\ at' = "select" /\ listed' = {}
      /\ UNCHANGED <<mode, caller, over, outcome, done, fatal, snapshot>>
  BY DEF Discover
<1>2. OneMode'
  BY <1>1 DEF EndInv, OneMode, snapshot
<1>3. CauseOfCancel'
  BY <1>1 DEF EndInv, CauseOfCancel, snapshot
<1>4. ResultTrue'
  BY <1>1 DEF EndInv, ResultTrue, OneMode, snapshot
<1>5. ReadTrue'
  BY <1>1 DEF EndInv, ReadTrue, snapshot
<1> QED BY <1>2, <1>3, <1>4, <1>5 DEF EndInv

LEMMA EndReader ==
  ASSUME EndInv, NEW r \in DOMAIN readers,
         ReaderEnds(r) \/ ReaderJoins(r)
  PROVE  EndInv'
<1>1. /\ mode = "follow" /\ at # "returned"
  BY DEF EndInv, OneMode, ResultTrue, ReaderEnds, ReaderJoins
<1>2. /\ UNCHANGED <<mode, caller, at, outcome, listed, snapshot>>
      /\ \/ UNCHANGED <<fatal, over>>
         \/ over' = TRUE /\ fatal' # <<>>
  <2>1. <<r>> # <<>>
    OBVIOUS
  <2>2. CASE ReaderEnds(r)
    BY <2>1, <2>2 DEF ReaderEnds
  <2>3. CASE ReaderJoins(r)
    BY <2>3 DEF ReaderJoins
  <2> QED BY <2>2, <2>3
<1>3. OneMode'
  BY <1>1, <1>2 DEF EndInv, OneMode, snapshot
<1>4. CauseOfCancel'
  BY <1>2 DEF EndInv, CauseOfCancel, snapshot
<1>5. ResultTrue'
  BY <1>1, <1>2 DEF EndInv, ResultTrue, snapshot
<1>6. ReadTrue'
  BY <1>1, <1>2 DEF EndInv, ReadTrue, snapshot
<1> QED BY <1>3, <1>4, <1>5, <1>6 DEF EndInv

LEMMA EndLeave == ASSUME EndInv, FollowLeaves PROVE EndInv'
<1> USE DEF FollowLeaves, following, snapshot
<1>1. OneMode'
  BY DEF EndInv, OneMode
<1>2. CauseOfCancel'
  BY DEF EndInv, CauseOfCancel, ResultTrue, OneMode, None
<1>3. Result = "cancelled" => caller
  BY DEF EndInv, CauseOfCancel, ResultTrue, OneMode, Result, None
<1>4. ResultTrue'
  BY <1>3 DEF EndInv, ResultTrue, Result, OneMode
<1>5. ReadTrue'
  BY DEF EndInv, ReadTrue
<1> QED BY <1>1, <1>2, <1>4, <1>5 DEF EndInv

LEMMA EndTakeDone == ASSUME EndInv, TakeDone PROVE EndInv'
<1> USE DEF TakeDone, snapshot
<1>1. OneMode'
  BY DEF EndInv, OneMode
<1>2. CauseOfCancel'
  BY DEF EndInv, CauseOfCancel
<1>3. ResultTrue'
  BY DEF EndInv, ResultTrue
<1>4. ReadTrue'
  BY DEF EndInv, ReadTrue
<1> QED BY <1>1, <1>2, <1>3, <1>4 DEF EndInv

LEMMA EndDispatch == ASSUME EndInv, Dispatch PROVE EndInv'
<1>1. PICK w \in Workers, s \in listed :
        /\ worker[w] = None /\ made[s] = "unread"
        /\ IF over THEN made' = [made EXCEPT ![s] = "skipped"] /\ UNCHANGED worker
           ELSE made' = [made EXCEPT ![s] = "reading"] /\ worker' = [worker EXCEPT ![w] = s]
  BY DEF Dispatch
<1>2. /\ mode = "snapshot" /\ at = "listed" /\ s \in Sources /\ s # None
      /\ UNCHANGED <<mode, caller, over, at, outcome, listed, following, first>>
  BY DEF Dispatch, EndInv, ReadTrue, None
<1>3. OneMode'
  BY <1>2 DEF EndInv, OneMode, following
<1>4. CauseOfCancel'
  BY <1>2 DEF EndInv, CauseOfCancel, following
<1>5. ResultTrue'
  BY <1>2 DEF EndInv, ResultTrue, None
<1>6. ReadTrue'
  <2>1. CASE over
    BY <1>1, <1>2, <2>1 DEF EndInv, ReadTrue
  <2>2. CASE ~over
    <3>1. /\ made' = [made EXCEPT ![s] = "reading"]
          /\ worker' = [worker EXCEPT ![w] = s]
      BY <1>1, <2>2
    <3>2. /\ worker' \in [Workers -> Sources \cup {None}]
          /\ made' \in [Sources -> {"unread", "reading", "read", "gap", "failed",
                                   "cancelled", "skipped"}]
          /\ \A x \in Sources : made'[x] = IF x = s THEN "reading" ELSE made[x]
          /\ \A v \in Workers : worker'[v] = IF v = w THEN s ELSE worker[v]
      BY <1>2, <3>1 DEF EndInv, ReadTrue
    <3>3. \A x \in Sources : made'[x] = "reading" => \E v \in Workers : worker'[v] = x
      <4> TAKE x \in Sources
      <4> HAVE made'[x] = "reading"
      <4>1. CASE x = s
        BY <3>2, <4>1
      <4>2. CASE x # s
        BY <1>1, <3>2, <4>2 DEF EndInv, ReadTrue, None
      <4> QED BY <4>1, <4>2
    <3>4. \A x \in Sources : /\ made'[x] \in {"failed", "cancelled"} => first # None
                            /\ made'[x] = "skipped" => over
      BY <3>2 DEF EndInv, ReadTrue
    <3> QED BY <1>2, <3>2, <3>3, <3>4 DEF EndInv, ReadTrue
  <2> QED BY <2>1, <2>2
<1> QED BY <1>3, <1>4, <1>5, <1>6 DEF EndInv

LEMMA EndStreamEnds ==
  ASSUME EndInv, NEW w \in Workers, StreamEnds(w)
  PROVE  EndInv'
<1> DEFINE s == worker[w]
<1>1. PICK end \in {"read", "gap", "failed"} \cup (IF over THEN {"cancelled"} ELSE {}) :
        /\ made' = [made EXCEPT ![s] = end]
        /\ IF end \in {"failed", "cancelled"}
           THEN first' = Once(end) /\ over' = TRUE
           ELSE UNCHANGED <<first, over>>
  BY DEF StreamEnds
<1>2. /\ s # None /\ s \in Sources /\ worker' = [worker EXCEPT ![w] = None]
      /\ UNCHANGED <<mode, caller, at, outcome, listed, following>>
      /\ mode = "snapshot" /\ at # "returned" /\ at # "list" /\ outcome # "unlisted"
  BY DEF StreamEnds, EndInv, OneMode, ResultTrue, ReadTrue
<1>3. fatal = <<>>
  BY <1>2 DEF EndInv, OneMode
<1>4. /\ first # None => first' = first
      /\ end \in {"failed", "cancelled"} => first' # None
      /\ first' \in {None, "failed", "cancelled"}
      /\ first' = "cancelled" => caller
      /\ over => over'
      /\ over' => over \/ first' # None
  BY <1>1, <1>2, <1>3 DEF Once, EndInv, CauseOfCancel, None
<1>5. OneMode'
  BY <1>2 DEF EndInv, OneMode, following
<1>6. CauseOfCancel'
  BY <1>2, <1>3, <1>4 DEF EndInv, CauseOfCancel, following
<1>7. ResultTrue'
  BY <1>2 DEF EndInv, ResultTrue
<1>8. ReadTrue'
  <2>1. /\ end \in {"read", "gap", "failed", "cancelled"}
        /\ made' \in [Sources -> {"unread", "reading", "read", "gap", "failed",
                                 "cancelled", "skipped"}]
        /\ worker' \in [Workers -> Sources \cup {None}]
    BY <1>1, <1>2 DEF EndInv, ReadTrue
  <2>2. \A x \in Sources : made'[x] = IF x = s THEN end ELSE made[x]
    BY <1>1, <1>2 DEF EndInv, ReadTrue
  <2>3. \A x \in Sources : made'[x] \in {"failed", "cancelled"} => first' # None
    BY <1>4, <2>1, <2>2 DEF EndInv, ReadTrue
  <2>4. \A x \in Sources : made'[x] = "skipped" => over'
    BY <1>4, <2>1, <2>2 DEF EndInv, ReadTrue
  <2>5. \A x \in Sources : made'[x] = "reading" => \E v \in Workers : worker'[v] = x
    BY <1>2, <2>1, <2>2 DEF EndInv, ReadTrue
  <2>6. mode = "snapshot" /\ at \in {"join", "returned"} =>
          over' \/ \A x \in listed : made'[x] # "unread"
    BY <1>4, <2>1, <2>2 DEF EndInv, ReadTrue
  <2> QED BY <1>2, <2>1, <2>3, <2>4, <2>5, <2>6 DEF EndInv, ReadTrue
<1> QED BY <1>5, <1>6, <1>7, <1>8 DEF EndInv

LEMMA EndDispatched == ASSUME EndInv, Dispatched PROVE EndInv'
<1> USE DEF Dispatched, following, snapshot
<1>1. OneMode'
  BY DEF EndInv, OneMode
<1>2. CauseOfCancel'
  BY DEF EndInv, CauseOfCancel
<1>3. ResultTrue'
  BY DEF EndInv, ResultTrue
<1>4. ReadTrue'
  BY DEF EndInv, ReadTrue
<1> QED BY <1>1, <1>2, <1>3, <1>4 DEF EndInv

LEMMA EndJoined == ASSUME EndInv, Joined PROVE EndInv'
<1> USE DEF Joined, following, snapshot
<1>1. OneMode'
  BY DEF EndInv, OneMode
<1>2. outcome' = "unlisted" <=> outcome = "unlisted"
  BY DEF EndInv, ResultTrue, CauseOfCancel, Outcome, None
<1>3. CauseOfCancel'
  BY <1>2 DEF EndInv, CauseOfCancel
<1>4. ResultTrue'
  BY <1>2 DEF EndInv, ResultTrue, OneMode, Outcome
<1>5. ReadTrue'
  BY DEF EndInv, ReadTrue
<1> QED BY <1>1, <1>3, <1>4, <1>5 DEF EndInv

LEMMA EndNext == ASSUME EndInv, [CollectorNext]_collectorVars PROVE EndInv'
<1>1. CASE UNCHANGED collectorVars
  BY <1>1 DEF collectorVars, EndInv, OneMode, CauseOfCancel, ResultTrue, ReadTrue, Outcome
<1>2. CASE CallerCancels \/ List \/ Discover \/ TakeDone \/ FollowLeaves
  BY <1>2, EndCancel, EndList, EndDiscover, EndTakeDone, EndLeave
<1>3. CASE \E r \in DOMAIN readers : ReaderEnds(r) \/ ReaderJoins(r)
  BY <1>3, EndReader
<1>4. CASE Dispatch \/ Dispatched \/ Joined \/ \E w \in Workers : StreamEnds(w)
  BY <1>4, EndDispatch, EndDispatched, EndJoined, EndStreamEnds
<1> QED BY <1>1, <1>2, <1>3, <1>4 DEF CollectorNext

LEMMA EndInvTold == EndInv => EndTold
<1> SUFFICES ASSUME EndInv, at = "returned", outcome # "unlisted"
             PROVE  /\ (\E s \in Sources : made[s] = "failed") /\ ~caller => outcome = "failed"
                    /\ mode = "follow" =>
                         (IF caller THEN outcome # None ELSE outcome = "failed")
                    /\ outcome = None => \A s \in listed : made[s] \in {"read", "gap"}
  BY DEF EndTold
<1>1. CASE mode = "follow"
  BY <1>1 DEF EndInv, OneMode, ResultTrue, None
<1>2. CASE mode = "snapshot"
  <2>1. outcome = Outcome /\ fatal = <<>>
    BY <1>2 DEF EndInv, ResultTrue, OneMode
  <2>2. (\E s \in Sources : made[s] = "failed") /\ ~caller => outcome = "failed"
    BY <2>1 DEF EndInv, ReadTrue, CauseOfCancel, Outcome, None
  <2>3. outcome = None => first = None /\ ~over
    BY <2>1 DEF Outcome, None
  <2>4. \A w \in Workers : worker[w] = None
    BY DEF EndInv, ResultTrue
  <2>5. outcome = None => \A s \in listed : made[s] \in {"read", "gap"}
    BY <1>2, <2>3, <2>4 DEF EndInv, ReadTrue, None
  <2> QED BY <1>2, <2>2, <2>5
<1> QED BY <1>1, <1>2 DEF EndInv, OneMode

\* A failure that ended a collection is what it returns unless its caller gave up
\* too, and only a snapshot that read or told of a gap in every stream returns no
\* error (live.go, follow; kube.go, Snapshot).
THEOREM CollectionEndTold == CollectorSpec => []EndTold
<1>1. CollectorInit => EndInv
  BY EndInit
<1>2. EndInv /\ [CollectorNext]_collectorVars => EndInv'
  BY EndNext
<1>3. EndInv => EndTold
  BY EndInvTold
<1> QED BY <1>1, <1>2, <1>3, PTL DEF CollectorSpec
=============================================================================

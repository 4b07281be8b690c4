------------------------------ MODULE LogStream ------------------------------
(***************************************************************************)
(* One followed container log: kube/live.go (followStreamWithFinalizer and *)
(* readLiveObserved), the replay cursor of kube/cursor.go and the line     *)
(* framer of event/event.go.  The container writes physical lines; each    *)
(* connection sends them in pieces that a reader goroutine passes through  *)
(* a channel of one; the stream goroutine frames lines into events and     *)
(* hands those over.  A connection may end anywhere, after which the       *)
(* server repeats the whole second of the last line.                       *)
(*                                                                         *)
(* A line has two halves, so that a piece may end inside one; the text is  *)
(* abstracted to whether the line starts an event ("head"), continues one  *)
(* ("cont") or is empty ("blank"), and two lines with the same time and    *)
(* kind have the same digest.  Redaction, Preview and the lengths of the   *)
(* pauses are left out.                                                    *)
(***************************************************************************)
EXTENDS Integers, Sequences, FiniteSetsExt

CONSTANTS
  Logs,            \* sequences of lines [at, kind] a container may write
  TailLines,       \* lines the first connection asks for
  CursorCapacity,  \* digests the cursor keeps (4096 in the code)
  MaxOpens,        \* bound on the connections of a behaviour
  MaxPiece         \* half lines one Read may return

NoTime == -1   \* the time of a line without a transport timestamp
Kinds == {"head", "cont", "blank"}

ASSUME StreamAssumption ==
  /\ TailLines \in Nat /\ {CursorCapacity, MaxOpens, MaxPiece} \subseteq Nat \ {0}
  /\ \A l \in Logs : l \in Seq([at : Nat \cup {NoTime}, kind : Kinds])

VARIABLES
  log,       \* what the container writes, fixed in advance
  written,   \* how many of its lines are written
  cancelled, \* ctx is done
  pc,        \* where the stream goroutine is
  stage,     \* what it does once the events in parser.out are delivered
  conn,      \* what the open request asked for
  read,      \* half lines the reader has read from the connection
  reader,    \* the reader goroutine
  queue,     \* pieces in the channel, and the one the reader holds
  fed,       \* half lines of the connection the parser was fed
  parser,    \* framer and cursor
  opens,     \* connections opened so far
  tail,      \* first line of the tail that was asked for  (history)
  taken,     \* how often each whole line was accepted      (history)
  cut,       \* how often an unfinished line was accepted   (history)
  marked,    \* lines accepted with a coverage gap          (history)
  handed,    \* how often each line was handed over         (history)
  result     \* what the stream returned

history == <<taken, cut, marked>>
opened == <<opens, tail>>
wire == <<conn, read, reader, queue, fed>>
vars == <<log, written, cancelled, pc, stage, conn, read, reader, queue, fed,
          parser, opens, tail, taken, cut, marked, handed, result>>

Second(t) == t \div 2
Nothing == [k \in Kinds |-> 0]
NoCursor == [last |-> NoTime, counts |-> Nothing, replay |-> Nothing,
             replaying |-> FALSE]
NoFrame == [lines |-> <<>>, truncated |-> FALSE]

-----------------------------------------------------------------------------
(* cursor.go: which lines of a repeated second were handed over before.    *)

\* reconnect: the digests at the last time are expected once more.
RearmOnce(c) ==
  IF c.replaying THEN c ELSE [c EXCEPT !.replaying = TRUE, !.replay = c.counts]

RearmAdding(c) ==
  [c EXCEPT !.replaying = TRUE,
            !.replay = [k \in Kinds |-> c.replay[k] + c.counts[k]]]

Rearm(c) ==
  [c EXCEPT !.replaying = c.last # NoTime, !.replay = c.counts]

Kept(c, why) == [cursor |-> c, keep |-> TRUE, gap |-> why]
Skipped(c) == [cursor |-> c, keep |-> FALSE, gap |-> "none"]

\* accept for a line at the cursor's time, which is one digest of several.
AcceptNow(c, d) ==
  LET left == [c.replay EXCEPT ![d] = @ - 1]
  IN  IF c.replay[d] > 0
      THEN Skipped([c EXCEPT !.replay = left,
                             !.replaying = @ /\ left # Nothing])
      ELSE IF /\ c.counts[d] = 0
              /\ Cardinality({k \in Kinds : c.counts[k] > 0}) >= CursorCapacity
           THEN Kept(c, "overflow")
           ELSE Kept([c EXCEPT !.counts[d] = @ + 1], "none")

Accept(c, line, partial) ==
  CASE line.at = NoTime -> Kept(c, "untimestamped")
    [] line.at # NoTime /\ partial -> Kept(c, "truncated")
    [] line.at # NoTime /\ ~partial /\ line.at < c.last ->
         IF c.replaying /\ Second(line.at) >= Second(c.last)
         THEN Skipped(c)
         ELSE Kept(c, "out_of_order")
    [] line.at # NoTime /\ ~partial /\ line.at = c.last ->
         AcceptNow(c, line.kind)
    [] line.at > c.last /\ ~partial ->
         AcceptNow([NoCursor EXCEPT !.last = line.at], line.kind)

-----------------------------------------------------------------------------
(* event.go: framing.  s is the parser with the histories it adds to.      *)

\* Flush: the pending event is over.
Flush(s) ==
  IF s.pending.lines = <<>> THEN [s EXCEPT !.pending = NoFrame]
  ELSE [s EXCEPT !.out = Append(@, s.pending), !.pending = NoFrame]

\* finishLine: line i is complete, or partial when the input ended in it.
FinishLine(s, i, partial) ==
  LET a == Accept(s.cursor, log[i], partial)
      t == [s EXCEPT
              !.cursor = a.cursor,
              !.taken[i] = @ + (IF partial THEN 0 ELSE 1),
              !.cut[i] = @ + (IF partial THEN 1 ELSE 0),
              !.marked = IF a.gap = "none" THEN @ ELSE @ \cup {i}]
  IN  IF ~a.keep THEN [s EXCEPT !.cursor = a.cursor]
      ELSE IF log[i].kind = "blank" /\ ~partial THEN t
      ELSE IF log[i].kind = "cont" /\ t.pending.lines # <<>>
      THEN [t EXCEPT !.pending.lines = Append(@, i),
                     !.pending.truncated = @ \/ partial]
      ELSE [Flush(t) EXCEPT
              !.pending = [lines |-> <<i>>, truncated |-> partial]]

\* The lines the open connection sends, in order: from the tail at first,
\* then everything from the second of the cursor on.
Wire ==
  {i \in 1..written : /\ i >= conn.from
                      /\ log[i].at = NoTime \/ log[i].at >= conn.since}

\* The nth line of the connection.
Line(n) == CHOOSE i \in Wire : Cardinality({j \in Wire : j <= i}) = n

Scan == [cursor |-> parser.cursor, pending |-> parser.pending,
         out |-> parser.out, taken |-> taken, cut |-> cut, marked |-> marked]

\* The parser after each of the lines that follow the first n, up to the last.
Lines(n, last) ==
  LET after[k \in n..last] ==
        IF k = n THEN Scan ELSE FinishLine(after[k - 1], Line(k), FALSE)
  IN  after

FeedPieces(n) ==
  IF n = 0 THEN Scan
  ELSE Lines((fed + 1) \div 2, (fed + n) \div 2)[(fed + n) \div 2]

\* Feed: the lines that end within the next n half lines.
Feed(n) == Lines(fed \div 2, (fed + n) \div 2)[(fed + n) \div 2]

\* Finish: the input is over.  The rest in the buffer is an unfinished line.
Finish(start, partial) ==
  LET s == IF fed % 2 = 1
           THEN FinishLine(start, Line(fed \div 2 + 1), TRUE) ELSE start
  IN  Flush([s EXCEPT !.pending.truncated = @ \/ partial])

Parsed(s) ==
  /\ parser' = [cursor |-> s.cursor, pending |-> s.pending, out |-> s.out]
  /\ taken' = s.taken /\ cut' = s.cut /\ marked' = s.marked

-----------------------------------------------------------------------------
Init ==
  /\ log \in Logs /\ written = 0 /\ cancelled = FALSE
  /\ pc = "top" /\ stage = "loop"
  /\ conn = [from |-> 0, since |-> NoTime]
  /\ read = 0 /\ reader = "done" /\ queue = <<>> /\ fed = 0
  /\ parser = [cursor |-> NoCursor, pending |-> NoFrame, out |-> <<>>]
  /\ opens = 0 /\ tail = 0
  /\ taken = [i \in DOMAIN log |-> 0] /\ cut = taken /\ handed = taken
  /\ marked = {} /\ result = "none"

\* The container writes its next line.
Write ==
  /\ written < Len(log)
  /\ written' = written + 1
  /\ UNCHANGED <<log, cancelled, pc, stage, wire, parser, opened, history,
                 handed, result>>

\* The collection is stopped.
Cancel ==
  /\ ~cancelled /\ pc # "done"
  /\ cancelled' = TRUE
  /\ reader' = IF Len(queue) = 2 THEN "done" ELSE reader
  /\ UNCHANGED <<log, written, pc, stage, conn, read, queue, fed, parser,
                 opened, history, handed, result>>

\* The stream goroutine returns.  A cancelled one first finalizes what the
\* parser still holds; the connection is closed and its reader joined.
Leave(why, s) ==
  /\ result' = why
  /\ reader' = "done" /\ queue' = <<>>
  /\ UNCHANGED <<log, written, cancelled, conn, read, opened, handed>>
  /\ IF cancelled
     THEN /\ Parsed(Finish(s, TRUE)) /\ fed' = 0
          /\ pc' = "deliver" /\ stage' = "returned"
     ELSE /\ pc' = "done" /\ UNCHANGED <<stage, parser, history, fed>>

Return(why) == Leave(why, Scan)

\* The loop of the stream: the replay is armed before the identity of the
\* container is validated and the log is opened.
Validate ==
  /\ pc = "top"
  /\ \/ /\ cancelled /\ Return("cancelled")
     \/ /\ ~cancelled
        /\ parser' = [parser EXCEPT
             !.cursor = IF @.last = NoTime THEN @ ELSE Rearm(@)]
        /\ pc' \in {"open", "wait"}   \* an identity that cannot be validated
        /\ UNCHANGED <<log, written, cancelled, stage, wire, opened, history,
                       handed, result>>
     \/ /\ ~cancelled /\ Return("replaced")

Open ==
  /\ pc = "open" /\ opens < MaxOpens
  /\ \/ /\ cancelled /\ Return("cancelled")
     \/ /\ ~cancelled
        /\ conn' = [from  |-> IF parser.cursor.last # NoTime THEN 1
                              ELSE written - TailLines + 1,
                    since |-> IF parser.cursor.last = NoTime THEN NoTime
                              ELSE 2 * Second(parser.cursor.last)]
        /\ read' = 0 /\ fed' = 0 /\ queue' = <<>> /\ reader' = "reading"
        /\ pc' = "select" /\ opens' = opens + 1
        /\ tail' = IF parser.cursor.last = NoTime THEN conn'.from ELSE tail
        /\ UNCHANGED <<log, written, cancelled, stage, parser, history,
                       handed, result>>
     \/ /\ ~cancelled /\ pc' = "wait"
        /\ UNCHANGED <<log, written, cancelled, stage, wire, parser, opened,
                       history, handed, result>>

\* A Read returns some bytes, and perhaps the end of the connection.  After a
\* cancellation the reader starts no other Read; it waits to pass a second
\* piece on before it reads again.
ReaderReads ==
  /\ reader = "reading" /\ Len(queue) < 2
  /\ \E n \in 0..MaxPiece, end \in {"more", "eof", "error"} :
       /\ n <= 2 * Cardinality(Wire) - read
       /\ n > 0 \/ end # "more"
       /\ read' = read + n
       /\ queue' = Append(queue, [halves |-> n, end |-> end])
       /\ reader' = IF end = "more" /\ ~cancelled THEN "reading" ELSE "done"
  /\ UNCHANGED <<log, written, cancelled, pc, stage, conn, fed, parser,
                 opened, history, handed, result>>

ReaderStops ==
  /\ reader = "reading" /\ cancelled
  /\ reader' = "done"
  /\ UNCHANGED <<log, written, cancelled, pc, stage, conn, read, queue, fed,
                 parser, opened, history, handed, result>>

\* A piece is fed to the parser; an end of the connection is seen after the
\* events of the piece are delivered.
Take ==
  /\ pc \in {"select", "drain"} /\ queue # <<>>
  /\ Parsed(Feed(Head(queue).halves))
  /\ fed' = fed + Head(queue).halves /\ queue' = Tail(queue)
  /\ stage' = CASE pc = "drain" -> "drain"
                [] pc # "drain" /\ Head(queue).end = "more" -> "loop"
                [] pc # "drain" /\ Head(queue).end = "eof" -> "eof"
                [] pc # "drain" /\ Head(queue).end = "error" -> "error"
  /\ pc' = "deliver"
  /\ UNCHANGED <<log, written, cancelled, conn, read, reader, opened, handed,
                 result>>

\* A cancelled stream closes the connection and drains the pieces that were
\* read; when the reader is joined it returns.
Drain ==
  /\ cancelled
  /\ \/ /\ pc = "select" /\ pc' = "drain"
        /\ UNCHANGED <<log, written, cancelled, stage, wire, parser, opened,
                       history, handed, result>>
     \/ /\ pc = "drain" /\ queue = <<>> /\ reader = "done"
        /\ Return("cancelled")

Hand(e) ==
  handed' = [i \in DOMAIN log |->
               handed[i] + (IF \E k \in DOMAIN e.lines : e.lines[k] = i
                            THEN 1 ELSE 0)]

\* deliver: what becomes of an event that is offered.  A cancelled scan may
\* turn it away as cancelled; then, and on the way out, the bounded final
\* path takes it, unless the cap or an error of the consumer is in the way.
Answers ==
  {"taken", "refused"} \cup
  (IF cancelled /\ stage \notin {"drain", "returned"} THEN {"cancelled"} ELSE {})

NeverAgain(answer) == FALSE

OfferedAgain(answer) == answer = "cancelled"

Deliver ==
  /\ pc = "deliver" /\ parser.out # <<>>
  /\ \E first \in Answers, final \in {"taken", "refused"} :
       LET answer == IF OfferedAgain(first) THEN final ELSE first
       IN  \/ /\ answer = "taken"
              /\ Hand(Head(parser.out))
              /\ parser' = [parser EXCEPT !.out = Tail(@)]
              /\ UNCHANGED <<log, written, cancelled, pc, stage, wire, opened,
                             history, result>>
           \/ /\ answer # "taken" /\ stage # "returned"
              /\ Leave(answer, [Scan EXCEPT !.out = <<>>])
           \/ /\ answer # "taken" /\ stage = "returned"
              /\ result' = answer /\ pc' = "done"
              /\ UNCHANGED <<log, written, cancelled, stage, wire, parser,
                             opened, history, handed>>

\* What follows once every event is delivered: the loop looks at ctx again;
\* the end of a connection ends the pending event, and then the stream
\* connects once more after a pause.
Delivered ==
  /\ pc = "deliver" /\ parser.out = <<>>
  /\ \/ /\ stage \in {"loop", "drain", "returned"}
        /\ pc' = CASE stage = "loop" -> IF cancelled THEN "drain" ELSE "select"
                   [] stage = "drain" -> "drain"
                   [] stage = "returned" -> "done"
        /\ UNCHANGED <<stage, fed, parser, history, result, reader, queue>>
     \/ /\ stage \in {"eof", "error"}
        /\ Parsed(Finish(Scan, stage = "error" \/ cancelled))
        /\ fed' = 0 /\ stage' = "ended"
        /\ UNCHANGED <<pc, result, reader, queue>>
     \/ /\ stage = "ended" /\ ~cancelled /\ pc' = "wait"
        /\ UNCHANGED <<stage, fed, parser, history, result, reader, queue>>
     \/ /\ stage = "ended" /\ cancelled /\ Return("cancelled")
  /\ UNCHANGED <<log, written, cancelled, conn, read, opened, handed>>

\* waitRetry
Wait ==
  /\ pc = "wait"
  /\ \/ cancelled /\ Return("cancelled")
     \/ /\ ~cancelled /\ pc' = "top"
        /\ UNCHANGED <<log, written, cancelled, stage, wire, parser, opened,
                       history, handed, result>>

Stream == Validate \/ Open \/ Take \/ Drain \/ Deliver \/ Delivered \/ Wait
Next == Write \/ Cancel \/ ReaderStops \/ ReaderReads \/ Stream

Spec == Init /\ [][Next]_vars

-----------------------------------------------------------------------------
Late(i) == \E j \in 1..(i - 1) : log[j].at > log[i].at

\* From the tail on that was asked for, no line before one that was accepted is
\* missing, however often the connection broke and whatever the replay dropped
\* (cursor.go: a line is skipped only when it was handed over before).  Lines
\* without a time, or older than a line before them, cannot be placed and are
\* excepted.
NothingSkipped ==
  \A j, k \in DOMAIN log :
    (/\ tail <= j /\ j < k /\ ~Late(j) /\ log[j].at # NoTime
     /\ taken[k] > 0)
      => taken[j] > 0

Acceptances(S) == UNION {{j} \X (1..taken[j]) : j \in S}

\* A repeated line is accepted again only with a coverage gap that says so
\* (docs/controller.md:36); lines of one time and text count together.
NoSilentReplay ==
  \A i \in DOMAIN log :
    LET same == {j \in DOMAIN log : log[j] = log[i]}
    IN  \/ Cardinality(Acceptances(same)) <= Cardinality(same)
        \/ same \cap marked # {}

Copies(i) ==
  Cardinality({k \in DOMAIN parser.out :
                 \E n \in DOMAIN parser.out[k].lines :
                   parser.out[k].lines[n] = i})
  + (IF \E n \in DOMAIN parser.pending.lines : parser.pending.lines[n] = i
     THEN 1 ELSE 0)

\* Every line that was accepted is in the hands of the consumer or still in
\* the parser, once for each time; a stream that ends in another way than a
\* refusal of the consumer leaves nothing in the parser, also when it was
\* stopped in the middle of a line.
EvidenceKept ==
  result # "refused" =>
    \A i \in DOMAIN log :
      /\ log[i].kind # "blank" =>
           taken[i] + cut[i] = handed[i] + Copies(i)
      /\ pc = "done" => Copies(i) = 0

\* The place of a line is known: it has no coverage gap, and no line before the
\* tail has its time, which a reconnect would bring up.
Placed(i) == i \notin marked /\ \A j \in 1..(tail - 1) : log[j].at # log[i].at

\* An event joins lines that follow each other in the log: chunk boundaries,
\* replays and reconnects never splice lines from two places, except after a
\* line that cannot be placed.
FramesWhole ==
  \A e \in {parser.pending} \cup {parser.out[k] : k \in DOMAIN parser.out} :
    \A n \in 1..(Len(e.lines) - 1) :
      /\ e.lines[n] < e.lines[n + 1]
      /\ Placed(e.lines[n]) =>
           \A i \in (e.lines[n] + 1)..(e.lines[n + 1] - 1) :
             log[i].kind = "blank" \/ Late(i)
=============================================================================

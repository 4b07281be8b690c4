----------------------------- MODULE MCLogStream -----------------------------
(***************************************************************************)
(* A small instance of LogStream for TLC: four lines, of which two or more *)
(* may be written when the log is first opened, over two seconds.          *)
(***************************************************************************)
EXTENDS LogStream

\* Equal times, also across the start of the tail, one second and the next, a
\* line that is late within its second or by a second, and lines without a time.
TimePatterns ==
  {<<0, 0, 0, 1>>, <<0, 0, 1, 1>>, <<0, 1, 1, 2>>, <<0, 1, 0, 1>>,
   <<2, 0, 2, 2>>, <<0, NoTime, 0, 0>>, <<NoTime, 0, 0, 2>>}

KindPatterns ==
  {<<"head", "head", "cont", "cont">>, <<"head", "blank", "cont", "head">>,
   <<"head", "cont", "head", "head">>}

MixedLogs ==
  {[i \in 1..4 |-> [at |-> t[i], kind |-> k[i]]] :
     t \in TimePatterns, k \in KindPatterns}
=============================================================================

----------------------------- MODULE MCTerminal -----------------------------
(***************************************************************************)
(* A small instance of Terminal for TLC: windows in which an event is      *)
(* judged, one of two equal events is evicted and others arrive.           *)
(***************************************************************************)
EXTENDS Terminal

Event(id, text, importance) == [id |-> id, text |-> text, importance |-> importance]

MCWindows ==
  <<<<Event(1, "x", "pending"), Event(2, "x", "pending")>>,
    <<Event(2, "x", "pending"), Event(3, "y", "important")>>>>
=============================================================================

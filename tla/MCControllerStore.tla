-------------------------- MODULE MCControllerStore --------------------------
(***************************************************************************)
(* Small instances of ControllerStore for TLC.                             *)
(***************************************************************************)
EXTENDS ControllerStore

CONSTANTS k1, k2, o1, o2, o3

Important == [unsafe |-> FALSE, confident |-> TRUE, listed |-> TRUE,
              importance |-> "important"]
Unsure == [Important EXCEPT !.confident = FALSE]
Routine == [Important EXCEPT !.importance = "routine"]

Ev(o, k, j) == [occ |-> o, key |-> k, judged |-> j]

\* Delivery: two incidents, one with two occurrences.
DeliveryKeys == {k1, k2}
DeliveryOccurrences == {o1, o2}
DeliveryEvents == {Ev(o1, k1, Important), Ev(o2, k2, Unsure)}

\* Capacity: two incidents compete for tables of one or two rows, a source
\* replays what it sent, a judgment changes between two readings.
CapacityOccurrences == {o1, o2, o3}
CapacityEvents == {Ev(o1, k1, Unsure), Ev(o1, k1, Important),
                   Ev(o2, k1, Important), Ev(o3, k2, Unsure),
                   Ev(o3, k2, Routine)}

TwoBackoffs == <<1, 2>>
OneBackoff == <<1>>
=============================================================================

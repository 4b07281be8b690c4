------------------------------- MODULE Policy -------------------------------
(***************************************************************************)
(* The deterministic notification policy of the controller: what one       *)
(* judged event decides, and how a recurring incident counts, escalates    *)
(* and cools down.  Times are wall-clock seconds.                          *)
(***************************************************************************)
EXTENDS Integers

CONSTANTS
  Cooldown,       \* cooldown_seconds
  Window,         \* recurrence_window_seconds
  Recurrence,     \* recurrence_count: occurrences per escalation level
  MaxEscalation,  \* max_escalation
  Abstention      \* "review" or "record": what an unsure judgment becomes

ASSUME PolicyAssumption ==
  /\ Cooldown \in Nat \ {0}
  /\ Window \in Nat \ {0}
  /\ Recurrence \in Nat \ {0, 1}
  /\ MaxEscalation \in Nat \ {0}
  /\ Abstention \in {"review", "record"}

Decisions == {"notify", "review", "abstain", "ignore"}

\* Decisions that open or touch an incident.
Actionable == {"notify", "review"}

\* An event as far as the policy tells events apart.  unsafe: parse-uncertain,
\* truncated, sensitive or with an analysis error; confident: all three
\* confidences reach the policy minimum; listed: its category or its severity
\* is one the policy names.
Judged == [unsafe : BOOLEAN, confident : BOOLEAN, listed : BOOLEAN,
           importance : {"important", "routine", "uncertain", "unknown"}]

Decide(e) ==
  IF e.unsafe \/ e.importance \in {"unknown", "uncertain"} \/ ~e.confident
  THEN IF Abstention = "review" THEN "review" ELSE "abstain"
  ELSE IF e.importance = "important" /\ e.listed THEN "notify" ELSE "ignore"

-----------------------------------------------------------------------------
\* A row of the incidents table; the zero row is what the scan leaves behind
\* when the key has no row.
NoIncident == [window |-> 0, count |-> 0, level |-> 0, last |-> 0, seq |-> 0,
               touched |-> 0, decision |-> "none"]

\* The incident after one more occurrence at time now: a window that is over,
\* or that starts in the future of a clock set back, starts again.
Recur(i, now) ==
  IF now < i.window \/ now - i.window >= Window
  THEN [i EXCEPT !.window = now, !.count = 1, !.level = 0]
  ELSE [i EXCEPT !.count = @ + 1]

LevelOf(count) ==
  IF count \div Recurrence < MaxEscalation THEN count \div Recurrence
                                           ELSE MaxEscalation

\* Variant: a review that turns into a notification waits for the cooldown.
MustNotifyLate(i, decision, now) ==
  i.seq = 0 \/ now < i.last \/ now - i.last >= Cooldown
    \/ LevelOf(i.count) > i.level

\* Variant: any change of decision passes the cooldown, not only the one to
\* notify.
MustNotifyEachTurn(i, decision, now) ==
  i.seq = 0 \/ now < i.last \/ now - i.last >= Cooldown
    \/ LevelOf(i.count) > i.level \/ decision # i.decision

\* Whether the occurrence that brought the incident to i must be notified.
MustNotify(i, decision, now) ==
  \/ i.seq = 0
  \/ now < i.last
  \/ now - i.last >= Cooldown
  \/ LevelOf(i.count) > i.level
  \/ decision = "notify" /\ i.decision # "notify"

\* Variant: an escalation is notified and not remembered.
EscalateNever(i) == i

Escalate(i) ==
  [i EXCEPT !.level = IF LevelOf(i.count) > @ THEN LevelOf(i.count) ELSE @]
=============================================================================

------------------------ MODULE NotificationContract ------------------------
(***************************************************************************)
(* What the controller promises about a notification, without tables,      *)
(* clocks, processes or capacity.  Each intent is committed once under an  *)
(* identity that is never used again, stays pending through any number of  *)
(* sends, and leaves that status only as delivered, which the sink has     *)
(* acknowledged, or as dead.  Only a settled intent may be forgotten.      *)
(***************************************************************************)

VARIABLES
  intent,    \* status of every identity ever committed
  received,  \* identities the consumer has received at least once
  acked      \* identities whose send the sink has reported successful

contractVars == <<intent, received, acked>>

Settled == {"delivered", "dead"}

Forget(old) ==
  [n \in DOMAIN intent |-> IF n \in old THEN "forgotten" ELSE intent[n]]

ContractInit ==
  /\ intent = [n \in {} |-> "pending"]
  /\ received = {}
  /\ acked = {}

\* Commit a new intent, forgetting settled ones to make room for it.
Commit(n, old) ==
  /\ n \notin DOMAIN intent
  /\ \A m \in old : intent[m] \in Settled
  /\ intent' = [m \in DOMAIN intent \cup {n} |->
                  IF m = n THEN "pending" ELSE Forget(old)[m]]
  /\ UNCHANGED <<received, acked>>

\* A send reaches the consumer or not, and is reported successful or not: a
\* lost response is a failure of something that was received.
Send(n) ==
  /\ n \in DOMAIN intent
  /\ intent[n] = "pending"
  /\ received' \in {received, received \cup {n}}
  /\ acked' \in {acked, acked \cup {n}}
  /\ acked' \subseteq received'
  /\ UNCHANGED intent

Settle(n, status) ==
  /\ n \in DOMAIN intent
  /\ intent[n] = "pending"
  /\ status = "delivered" => n \in acked
  /\ intent' = [intent EXCEPT ![n] = status]
  /\ UNCHANGED <<received, acked>>

\* Any identity can be the new one: n is drawn from those the step leaves.
ContractNext ==
  \/ \E n \in DOMAIN intent', old \in SUBSET DOMAIN intent : Commit(n, old)
  \/ \E n \in DOMAIN intent : Send(n)
  \/ \E n \in DOMAIN intent, status \in Settled : Settle(n, status)

Contract == ContractInit /\ [][ContractNext]_contractVars
=============================================================================

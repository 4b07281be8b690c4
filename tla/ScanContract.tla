---------------------------- MODULE ScanContract ----------------------------
(***************************************************************************)
(* What a scan promises about the events of its sources, without streams,  *)
(* queue, batches, contexts or workers.  An event is taken in at most once *)
(* and told in its turn; one answer ends the scan, after which nothing is  *)
(* taken in or told; and it is "ok" only when every event of the input was *)
(* taken in and told.                                                      *)
(***************************************************************************)
EXTENDS Integers, Sequences

CONSTANT Input  \* the events of the sources

VARIABLES
  given,  \* events taken in, in order
  told,   \* events told
  answer  \* how the scan ended, or "none"

contractVars == <<given, told, answer>>

Taken(e) == \E i \in 1..Len(given) : given[i] = e

ContractInit == given = <<>> /\ told = <<>> /\ answer = "none"

Give(e) ==
  /\ answer = "none" /\ ~Taken(e)
  /\ given' = Append(given, e)
  /\ UNCHANGED <<told, answer>>

Tell ==
  /\ answer = "none" /\ Len(told) < Len(given)
  /\ told' = Append(told, given[Len(told) + 1])
  /\ UNCHANGED <<given, answer>>

End ==
  /\ answer = "none" /\ answer' # "none"
  /\ answer' = "ok" => told = given /\ \A e \in Input : Taken(e)
  /\ UNCHANGED <<given, told>>

ContractNext == (\E e \in Input : Give(e)) \/ Tell \/ End

Contract == ContractInit /\ [][ContractNext]_contractVars
=============================================================================

------------------------------- MODULE Delivery -------------------------------
(***************************************************************************)
(* What the cabinet promises about a thing somebody asked it to send to    *)
(* another system, as the manager and the partner see it (the comments of  *)
(* lib/services/oneCSync/push.ts and reconcile.ts): once asked for, it is  *)
(* confirmed there or its failure is reported; a confirmation is final;    *)
(* only a breakdown may lose it.                                           *)
(***************************************************************************)
EXTENDS Naturals

CONSTANT Items

VARIABLES
  outcome,     \* what became of each item
  breakdowns   \* how often the machinery broke down

deliveryVars == <<outcome, breakdowns>>

Outcomes == {"none", "owed", "done", "told", "lost"}

DeliveryInit == outcome = [i \in Items |-> "none"] /\ breakdowns = 0

Becomes(S, what) == outcome' = [i \in Items |-> IF i \in S THEN what ELSE outcome[i]]

Owed == {i \in Items : outcome[i] = "owed"}

\* Somebody asks for it, again after a failure or a loss.
Ask(i) ==
  /\ outcome[i] \in {"none", "told", "lost"}
  /\ Becomes({i}, "owed")
  /\ UNCHANGED breakdowns

\* The other side has it; that may turn out after a failure was reported.
Confirm(i) ==
  /\ outcome[i] \in {"owed", "told"}
  /\ Becomes({i}, "done")
  /\ UNCHANGED breakdowns

Report(S) ==
  /\ S # {} /\ S \subseteq Owed
  /\ Becomes(S, "told")
  /\ UNCHANGED breakdowns

BreakDown(S) ==
  /\ S \subseteq Owed
  /\ Becomes(S, "lost")
  /\ breakdowns' = breakdowns + 1

DeliveryNext ==
  \/ \E i \in Items : Ask(i) \/ Confirm(i)
  \/ \E S \in SUBSET Items : Report(S) \/ BreakDown(S)

\* What is owed is settled.
Settle(i) ==
  i \in Owed /\ (Confirm(i) \/ \E S \in SUBSET Items : i \in S /\ Report(S))

DeliverySafety == DeliveryInit /\ [][DeliveryNext]_deliveryVars

DeliverySpec == DeliverySafety /\ \A i \in Items : WF_deliveryVars(Settle(i))
===============================================================================

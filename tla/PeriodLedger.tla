----------------------------- MODULE PeriodLedger -----------------------------
(***************************************************************************)
(* What a partner and the accountants rely on (docs/INVARIANTS.md, 4, and  *)
(* the comments of lib/services/commission/statement.ts and lifecycle.ts): *)
(* of each period there is no statement yet, or one that counts.  It is a  *)
(* draft until somebody approves it and is paid only after that.  Another  *)
(* takes its place only when it is closed, is a draft again and is newer   *)
(* than all there were.  A period that has a statement keeps having one.   *)
(***************************************************************************)
EXTENDS Naturals

CONSTANTS Ranges, Numbers

VARIABLE counts   \* for each range the statement that counts, and its status

Nothing == [no |-> 0, status |-> "none"]
Draft(n) == [no |-> n, status |-> "draft"]

LedgerInit == counts = [per \in Ranges |-> Nothing]

Newest(n) == \A per \in Ranges : counts[per].no < n
Becomes(per, what) == counts' = [counts EXCEPT ![per] = what]

Open(per, n) == counts[per] = Nothing /\ Newest(n) /\ Becomes(per, Draft(n))

Approve(per) ==
  counts[per].status = "draft" /\ Becomes(per, [counts[per] EXCEPT !.status = "approved"])

Pay(per) ==
  counts[per].status = "approved" /\ Becomes(per, [counts[per] EXCEPT !.status = "paid"])

\* Two approve one draft at once, and it is paid between the two.
ApproveAgain(per) ==
  counts[per].status = "paid" /\ Becomes(per, [counts[per] EXCEPT !.status = "approved"])

Recalculate(per, n) ==
  counts[per].status \in {"approved", "paid"} /\ Newest(n) /\ Becomes(per, Draft(n))

LedgerNext ==
  \E per \in Ranges :
    \/ Approve(per) \/ Pay(per) \/ ApproveAgain(per)
    \/ \E n \in Numbers : Open(per, n) \/ Recalculate(per, n)

LedgerSpec == LedgerInit /\ [][LedgerNext]_counts
===============================================================================

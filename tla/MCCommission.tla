----------------------------- MODULE MCCommission -----------------------------
(* A small instance of Commission for TLC.                                  *)
EXTENDS Commission, TLC

CONSTANTS p1, r1, p2   \* a payment and a refund of month 1, a payment of month 2

MCPayments == {p1, r1, p2}
MCSynced   == {p1, p2}
MCPaidAt   == p1 :> 1 @@ r1 :> 1 @@ p2 :> 2
MCShare    == p1 :> 3 @@ r1 :> -2 @@ p2 :> 1

Month1 == [from |-> 1, to |-> 1]
Month2 == [from |-> 2, to |-> 2]
MCMonths == {Month1, Month2}
OneMonth == {Month1}
Month3 == [from |-> 3, to |-> 3]
ThreeMonths == {Month1, Month2, Month3}

Straddling == [from |-> 1, to |-> 2]   \* a range a partner may enter by hand
TwoRanges  == {Month1, Straddling}

\* One payment that comes at any time, so that two processes may race over two ranges.
Incomes      == {p1}
NoneSynced   == {}
IncomePaidAt == p1 :> 1
IncomeShare  == p1 :> 3

ProcSymmetry == Permutations(Procs)
===============================================================================

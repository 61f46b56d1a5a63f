------------------------------ MODULE Commission ------------------------------
(***************************************************************************)
(* The commission statements of one partner (lib/services/commission):     *)
(* calculation and recalculation, approval, payout, and the corrections    *)
(* that carry a late refund into a later statement.                        *)
(*                                                                         *)
(* Web requests and the monthly worker job are processes.  Each of them    *)
(* reads the database, computes, and writes in one transaction at the end, *)
(* so a process is a record of what it read (req[p]) and other processes   *)
(* move between its read and its write.  A transaction that writes is one  *)
(* step, except the recalculation of a draft: READ COMMITTED lets two of   *)
(* them delete the same old lines and then insert both sets of new ones.   *)
(***************************************************************************)
EXTENDS Integers, FiniteSets, FiniteSetsExt

CONSTANTS
  Procs,          \* requests and jobs that can be under way at one time
  Payments,       \* payments and refunds the 1C sync may bring in
  Synced,         \* those it has brought in before the first statement
  PaidAt,         \* [Payments -> Int]: the day a payment is dated
  Share,          \* [Payments -> Int]: amount x rate; negative for a refund
  Periods,        \* [from, to] ranges a statement may be asked for
  Months,         \* the calendar months among them: what the cron job asks for
  MaxStatements,  \* bound: rows of CommissionStatement
  MaxCarry,       \* bound: remainder corrections created by approvals
  MaxMoney        \* the largest value of a money column, Decimal(14, 2)

ASSUME CommissionAssumption ==
  /\ PaidAt \in [Payments -> Int]
  /\ Share \in [Payments -> -MaxMoney..MaxMoney]
  /\ Periods \subseteq [from : Int, to : Int]
  /\ Months \subseteq Periods
  /\ MaxStatements \in Nat
  /\ MaxCarry \in Nat
  /\ MaxMoney \in Nat
  /\ Synced \subseteq Payments
  /\ Payments \cap Int = {}

VARIABLES
  arrived,      \* the payments that are rows of Payment
  stmts,        \* CommissionStatement: lifecycle columns
  total,        \* CommissionStatement.totalCommissionAmount: what the statement shows
  items,        \* CommissionStatementItem
  corrections,  \* CommissionCorrection: status
  withheld,     \* CommissionCorrection: commissionAmount
  req,          \* what each process is doing and what it has read
  torn,         \* history: the statements of which two rewrites have overlapped
  crossed       \* history: a calculation began that no overlap check could have covered

history == <<torn, crossed>>
vars == <<arrived, stmts, total, items, corrections, withheld, req, history>>

-----------------------------------------------------------------------------
(* The tables.                                                             *)

StmtIds  == 1..MaxStatements
CarryIds == 1..MaxCarry
CorrIds  == Payments \cup CarryIds   \* a refund's correction is known by its refund

NoStmt == 0    \* NULL in supersededBy, and "no existing statement"
NoPeriod == [from |-> 0, to |-> -1]
Closed == {"approved", "paid"}

Statement ==
  [status       : {"absent", "draft"} \cup Closed,
   period       : Periods \cup {NoPeriod},
   supersededBy : StmtIds \cup {NoStmt}]

Absent == [status |-> "absent", period |-> NoPeriod, supersededBy |-> NoStmt]

Money == 0..MaxMoney

\* calc, the writer of a line, keeps apart what two calculations wrote: rows have ids.
Item == [stmt : StmtIds, kind : {"payment", "correction"}, src : CorrIds,
         amount : -MaxMoney..MaxMoney, calc : Procs]

CorrectionStatus == {"none", "needs_review", "applied", "waived"}

Refunds == {r \in Payments : Share[r] < 0}

InPeriod(q, per) == per.from <= PaidAt[q] /\ PaidAt[q] <= per.to

Overlaps(a, b) == a.from <= b.to /\ a.to >= b.from

Present  == {s \in StmtIds : stmts[s].status # "absent"}
Live     == {s \in Present : stmts[s].supersededBy = NoStmt}
LiveOf(per)    == {s \in Live : stmts[s].period = per}
ClosedLive     == {s \in Live : stmts[s].status \in Closed}
LinesOf(s)     == {i \in items : i.stmt = s}

\* Applied corrections that no approved or paid live statement holds as a line.
Pending ==
  {c \in CorrIds :
     /\ corrections[c] = "applied"
     /\ \A i \in items : i.kind = "correction" /\ i.src = c => i.stmt \notin ClosedLive}

\* A total is not negative: what a deduction leaves uncovered is carried over.
Clamp(n) == IF n < 0 THEN 0 ELSE n

LinesSum(lines) == MapThenSumSet(LAMBDA i : i.amount, lines)

-----------------------------------------------------------------------------
(* Processes.                                                              *)

Idle == [op |-> "idle"]

Become(p, r) == req' = [req EXCEPT ![p] = r]

NextId(s) == \A t \in StmtIds : t \in Present <=> t < s

Init ==
  /\ arrived = Synced
  /\ stmts = [s \in StmtIds |-> Absent]
  /\ total = [s \in StmtIds |-> 0]
  /\ items = {}
  /\ corrections = [c \in CorrIds |-> "none"]
  /\ withheld = [c \in CorrIds |-> 0]
  /\ req = [p \in Procs |-> Idle]
  /\ torn = {} /\ crossed = FALSE

\* The 1C sync writes a payment or a refund, dated in any month.
PaymentArrives(q) ==
  /\ q \notin arrived
  /\ arrived' = arrived \cup {q}
  /\ UNCHANGED <<stmts, total, items, corrections, withheld, req, history>>

NoOverlapCheck(per) == FALSE                         \* mutant of RangeRefused
StrictBounds(per) ==                                 \* mutant of RangeRefused
  \E s \in Live : LET of == stmts[s].period IN
    of.from < per.to /\ of.to > per.from /\ of # per
RangeRefused(per) ==
  \E s \in Live : Overlaps(stmts[s].period, per) /\ stmts[s].period # per

\* Another calculation under way is of a range that overlaps this one.
AskedMeanwhile(p, per) ==
  \E q \in Procs \ {p} :
    req[q].op = "calc" /\ Overlaps(req[q].period, per) /\ req[q].period # per

\* calculateStatementForPartner: the overlap check of a manual request and the
\* read of the period's payments.  The cron job asks for months, unchecked.
CalcStart(p, per, manual) ==
  /\ req[p] = Idle
  /\ IF manual THEN ~ RangeRefused(per) ELSE per \in Months
  /\ Become(p, [op |-> "calc", step |-> "corrections", period |-> per,
                pays |-> {q \in arrived : InPeriod(q, per)},
                corrs |-> {}, target |-> NoStmt, old |-> {}])
  /\ crossed' = (crossed \/ RangeRefused(per) \/ AskedMeanwhile(p, per))
  /\ UNCHANGED <<arrived, stmts, total, items, corrections, withheld, torn>>

\* The read of the corrections still to be carried.
CalcReadCorrections(p) ==
  /\ req[p].op = "calc" /\ req[p].step = "corrections"
  /\ Become(p, [req[p] EXCEPT !.step = "existing", !.corrs = Pending])
  /\ UNCHANGED <<arrived, stmts, total, items, corrections, withheld, history>>

SupersedeDraftsToo(s) == "create"                    \* mutant of BranchFor
BranchFor(s) == IF stmts[s].status = "draft" THEN "delete" ELSE "create"

\* The read of the live statement of the period, which decides the branch.
CalcFindExisting(p) ==
  /\ req[p].op = "calc" /\ req[p].step = "existing"
  /\ \/ /\ LiveOf(req[p].period) = {}
        /\ Become(p, [req[p] EXCEPT !.step = "create"])
     \/ \E s \in LiveOf(req[p].period) :
          Become(p, [req[p] EXCEPT !.step = BranchFor(s), !.target = s])
  /\ UNCHANGED <<arrived, stmts, total, items, corrections, withheld, history>>

\* updateDraftInPlace, its deleteMany: the lines committed by now will go.
CalcDeleteLines(p) ==
  /\ req[p].op = "calc" /\ req[p].step = "delete"
  /\ Become(p, [req[p] EXCEPT !.step = "write", !.old = LinesOf(req[p].target)])
  /\ UNCHANGED <<arrived, stmts, total, items, corrections, withheld, history>>

NewLines(p, s) ==
  {[stmt |-> s, kind |-> "payment", src |-> q, amount |-> Share[q], calc |-> p]
     : q \in req[p].pays} \cup
  {[stmt |-> s, kind |-> "correction", src |-> c, amount |-> -withheld[c], calc |-> p]
     : c \in req[p].corrs}

NewTotal(p, s) == Clamp(LinesSum(NewLines(p, s)))

DeleteAfterInsert(p, s) ==                           \* mutant of Rewritten
  {i \in items \cup NewLines(p, s) : i.stmt # s}
Rewritten(p, s) == (items \ req[p].old) \cup NewLines(p, s)

\* Others that have deleted the statement's lines and not yet written theirs.
Rewriting(s) == {q \in Procs : req[q].op = "calc" /\ req[q].step = "write" /\ req[q].target = s}

\* updateDraftInPlace: createMany, the header, commit.  The status is not looked at.
CalcRewrite(p) ==
  /\ req[p].op = "calc" /\ req[p].step = "write"
  /\ LET s == req[p].target IN
       /\ NewTotal(p, s) \in Money
       /\ items' = Rewritten(p, s)
       /\ total' = [total EXCEPT ![s] = NewTotal(p, s)]
       /\ torn' = IF Rewriting(s) = {p} THEN torn ELSE torn \cup {s}
  /\ Become(p, Idle)
  /\ UNCHANGED <<arrived, stmts, corrections, withheld, crossed>>

\* The partial unique index on (partner, period) where supersededBy is null, as
\* the insert meets it: the transaction has vacated the slot of its own target.
NoUniqueIndex(p) == TRUE                             \* mutant of SlotFree
SlotFree(p) == LiveOf(req[p].period) \subseteq {req[p].target}

FixUpHitsNewRow(p, s) ==                             \* mutant of NewDraft
  [status |-> "draft", period |-> req[p].period,
   supersededBy |-> IF req[p].target = NoStmt THEN NoStmt ELSE s]
NewDraft(p, s) ==
  [status |-> "draft", period |-> req[p].period, supersededBy |-> NoStmt]

\* The transaction that vacates the live slot and inserts the new draft: it
\* commits when no other live statement of the period stands in its way.
CalcCreate(p) ==
  /\ req[p].op = "calc" /\ req[p].step = "create"
  /\ SlotFree(p)
  /\ \E s \in StmtIds :
       /\ NextId(s)
       /\ NewTotal(p, s) \in Money
       /\ items' = items \cup NewLines(p, s)
       /\ total' = [total EXCEPT ![s] = NewTotal(p, s)]
       /\ stmts' = [t \in StmtIds |->
            IF t = s THEN NewDraft(p, s)
            ELSE IF t = req[p].target THEN [stmts[t] EXCEPT !.supersededBy = s]
            ELSE stmts[t]]
  /\ Become(p, Idle)
  /\ UNCHANGED <<arrived, corrections, withheld, history>>

\* The partial unique index refuses the insert (P2002): the transaction rolls back.
CalcConflict(p) ==
  /\ req[p].op = "calc" /\ req[p].step = "create"
  /\ ~ SlotFree(p)
  /\ Become(p, [req[p] EXCEPT !.step = "fallback"])
  /\ UNCHANGED <<arrived, stmts, total, items, corrections, withheld, history>>

\* The loser of that race rewrites the winner's statement in place.
CalcFallback(p) ==
  /\ req[p].op = "calc" /\ req[p].step = "fallback"
  /\ \E s \in LiveOf(req[p].period) :
       Become(p, [req[p] EXCEPT !.step = "delete", !.target = s])
  /\ UNCHANGED <<arrived, stmts, total, items, corrections, withheld, history>>

-----------------------------------------------------------------------------
(* lifecycle.ts: the check is a read of its own, the update is by id alone. *)

ApproveRead(p, s) ==
  /\ req[p] = Idle
  /\ s \in Live /\ stmts[s].status = "draft"
  /\ Become(p, [op |-> "approve", stmt |-> s])
  /\ UNCHANGED <<arrived, stmts, total, items, corrections, withheld, history>>

\* With correction lines and a negative sum, the part of the deduction the
\* payout cannot cover becomes an applied correction of its own.
ApproveCommit(p) ==
  /\ req[p].op = "approve"
  /\ LET s   == req[p].stmt
         raw == LinesSum(LinesOf(s))
     IN /\ stmts' = [stmts EXCEPT ![s].status = "approved"]
        /\ IF raw < 0 /\ \E i \in LinesOf(s) : i.kind = "correction"
           THEN \E c \in CarryIds :
                  /\ \A d \in CarryIds : corrections[d] = "none" <=> d >= c
                  /\ -raw \in Money
                  /\ corrections' = [corrections EXCEPT ![c] = "applied"]
                  /\ withheld' = [withheld EXCEPT ![c] = -raw]
           ELSE UNCHANGED <<corrections, withheld>>
  /\ Become(p, Idle)
  /\ UNCHANGED <<arrived, total, items, history>>

PayRead(p, s) ==
  /\ req[p] = Idle
  /\ s \in Live /\ stmts[s].status = "approved"
  /\ Become(p, [op |-> "pay", stmt |-> s])
  /\ UNCHANGED <<arrived, stmts, total, items, corrections, withheld, history>>

PaidByPeriod(p) ==                                   \* mutant of PaidRow
  CHOOSE s \in LiveOf(stmts[req[p].stmt].period) : TRUE
PaidRow(p) == req[p].stmt

PayCommit(p) ==
  /\ req[p].op = "pay"
  /\ stmts' = [stmts EXCEPT ![PaidRow(p)].status = "paid"]
  /\ Become(p, Idle)
  /\ UNCHANGED <<arrived, total, items, corrections, withheld, history>>

-----------------------------------------------------------------------------
(* corrections.ts.                                                         *)

\* Refunds dated in a closed live period and without a correction of their own.
LateRefunds ==
  {r \in arrived \cap Refunds :
     /\ corrections[r] = "none"
     /\ \E s \in ClosedLive : InPeriod(r, stmts[s].period)}

SignForgotten(r) == Share[r]                         \* mutant of Deduction
Deduction(r) == -Share[r]

DetectRead(p) ==
  /\ req[p] = Idle
  /\ LateRefunds # {}
  /\ Become(p, [op |-> "detect", todo |-> LateRefunds])
  /\ UNCHANGED <<arrived, stmts, total, items, corrections, withheld, history>>

\* One insert; a correction that exists already is P2002 and is skipped.
DetectCreate(p) ==
  /\ req[p].op = "detect"
  /\ \E r \in req[p].todo :
       /\ IF corrections[r] = "none"
          THEN /\ corrections' = [corrections EXCEPT ![r] = "needs_review"]
               /\ withheld' = [withheld EXCEPT ![r] = Deduction(r)]
          ELSE UNCHANGED <<corrections, withheld>>
       /\ Become(p, IF req[p].todo = {r} THEN Idle
                    ELSE [req[p] EXCEPT !.todo = @ \ {r}])
  /\ UNCHANGED <<arrived, stmts, total, items, history>>

ResolveRead(p, c, decision) ==
  /\ req[p] = Idle
  /\ corrections[c] = "needs_review"
  /\ Become(p, [op |-> "resolve", corr |-> c, decision |-> decision])
  /\ UNCHANGED <<arrived, stmts, total, items, corrections, withheld, history>>

ResolveCommit(p) ==
  /\ req[p].op = "resolve"
  /\ corrections' = [corrections EXCEPT ![req[p].corr] = req[p].decision]
  /\ Become(p, Idle)
  /\ UNCHANGED <<arrived, stmts, total, items, withheld, history>>

\* The process dies or its request fails: an open transaction rolls back.
Crash(p) ==
  /\ req[p] # Idle
  /\ Become(p, Idle)
  /\ UNCHANGED <<arrived, stmts, total, items, corrections, withheld, history>>

Next ==
  \/ \E q \in Payments : PaymentArrives(q)
  \/ \E p \in Procs :
       \/ \E per \in Periods, manual \in BOOLEAN : CalcStart(p, per, manual)
       \/ CalcReadCorrections(p)
       \/ CalcFindExisting(p)
       \/ CalcDeleteLines(p)
       \/ CalcRewrite(p)
       \/ CalcCreate(p)
       \/ CalcConflict(p)
       \/ CalcFallback(p)
       \/ \E s \in StmtIds : ApproveRead(p, s)
       \/ ApproveCommit(p)
       \/ \E s \in StmtIds : PayRead(p, s)
       \/ PayCommit(p)
       \/ DetectRead(p)
       \/ DetectCreate(p)
       \/ \E c \in CorrIds, decision \in {"applied", "waived"} : ResolveRead(p, c, decision)
       \/ ResolveCommit(p)
       \/ Crash(p)

Spec == Init /\ [][Next]_vars

-----------------------------------------------------------------------------
(* Properties.                                                             *)

CalcRequest ==
  [op : {"calc"}, step : {"corrections", "existing", "create", "fallback"},
   period : Periods, pays : SUBSET Payments, corrs : SUBSET CorrIds,
   target : StmtIds \cup {NoStmt}, old : SUBSET Item] \cup
  [op : {"calc"}, step : {"delete", "write"},
   period : Periods, pays : SUBSET Payments, corrs : SUBSET CorrIds,
   target : StmtIds, old : SUBSET Item]

Request ==
  {Idle} \cup CalcRequest \cup
  [op : {"approve", "pay"}, stmt : StmtIds] \cup
  [op : {"detect"}, todo : SUBSET Refunds] \cup
  [op : {"resolve"}, corr : CorrIds, decision : {"applied", "waived"}]

\* The tables and the requests have their types (schema.prisma, the locals of
\* the services); in particular no statement shows a negative payout and no
\* correction withholds a negative amount.
TypeOK ==
  /\ arrived \subseteq Payments
  /\ stmts \in [StmtIds -> Statement]
  /\ total \in [StmtIds -> Money]
  /\ items \subseteq Item
  /\ corrections \in [CorrIds -> CorrectionStatus]
  /\ withheld \in [CorrIds -> Money]
  /\ req \in [Procs -> Request]
  /\ torn \subseteq StmtIds /\ crossed \in BOOLEAN

\* A (partner, period) that ever had a statement has exactly one live statement
\* (INVARIANTS.md, 4): recalculations, supersessions and races over the insert
\* never leave two of them, and never none.
OneLiveStatement ==
  \A s \in Present : \E t \in Present : LiveOf(stmts[s].period) = {t}

\* The supersede chain of a period is a line: a superseded statement points to a
\* later one of its own period, no two point to the same one, and none of them
\* was superseded as a draft (a draft is rewritten in place).
SupersedeChain ==
  \A s \in Present \ Live :
    LET next == stmts[s].supersededBy IN
      /\ next \in Present /\ next > s
      /\ stmts[next].period = stmts[s].period
      /\ stmts[s].status \in Closed
      /\ \A t \in Present \ {s} : stmts[t].supersededBy # next

\* The loser of the insert race finds the winner's statement to fall back to:
\* the "!winner" guard of statement.ts is unreachable, as its comment says.
WinnerIsThere ==
  \A p \in Procs :
    req[p].op = "calc" /\ req[p].step = "fallback" => LiveOf(req[p].period) # {}

\* What a statement shows is what its lines add up to, all of them, less what a deduction
\* leaves uncovered: through recalculations, lost races over the insert, approvals that
\* land in between and requests that die.  Only two rewrites of one draft that overlap
\* (statement.ts, updateDraftInPlace) may leave lines of both under the total of one.
TotalIsTheLines ==
  \A s \in Present \ torn : total[s] = Clamp(LinesSum(LinesOf(s)))

\* The line items of an approved or paid statement do not change any more: a
\* closed period is never recalculated "quietly" (INVARIANTS.md, 4).
ClosedStatementsFrozen ==
  [][\A s \in Present : stmts[s].status \in Closed => LinesOf(s)' = LinesOf(s)]_vars

\* A refund is deducted once: it is not both an ordinary negative line of a
\* closed statement and an applied correction that is a line of another one.
RefundDeductedOnce ==
  \A r \in Refunds :
    ~ \E i, j \in items :
        /\ i.kind = "payment" /\ j.kind = "correction" /\ i.src = r /\ j.src = r
        /\ i.stmt \in ClosedLive /\ j.stmt \in ClosedLive

\* A correction is carried into one later statement: no two closed live statements hold it
\* as a line (statement.ts adds "those not yet carried into an approved or paid one").
CarriedOnce ==
  \A i, j \in items :
    i.kind = "correction" /\ j.kind = "correction" /\ i.src = j.src
      /\ i.stmt \in ClosedLive /\ j.stmt \in ClosedLive => i.stmt = j.stmt

\* The periods of a partner's live statements do not overlap (statement.ts, C-05), however
\* many recalculations race for one range or for ranges apart: until a month is asked for
\* by the job that the manual path would refuse, or while a range that overlaps it is
\* being calculated.
LivePeriodsDisjoint ==
  ~crossed =>
    \A s, t \in Live : Overlaps(stmts[s].period, stmts[t].period) => s = t

\* The statement that counts for each period.
Counts ==
  [per \in Periods |->
     IF LiveOf(per) = {} THEN [no |-> NoStmt, status |-> "none"]
     ELSE LET s == CHOOSE t \in LiveOf(per) : TRUE IN [no |-> s, status |-> stmts[s].status]]

Ledger == INSTANCE PeriodLedger WITH Ranges <- Periods, Numbers <- StmtIds, counts <- Counts

\* Approvals and payouts check a statement first and update it by id later, so that they may
\* land on one that was superseded, approved or paid meanwhile; and recalculations race.
\* In spite of it the statement that counts for a period goes the way PeriodLedger says: no
\* draft is replaced, and none becomes paid by a payout meant for the one before it.
KeepsLedger == Ledger!LedgerSpec

\* A payment is paid for once: its lines are in one live statement, and one line there,
\* but for the overlaps of LivePeriodsDisjoint and of TotalIsTheLines.
PaymentIsOneLine ==
  \A i, j \in items :
    /\ i.kind = "payment" /\ j.kind = "payment" /\ i.src = j.src
    /\ i.stmt \in Live /\ j.stmt \in Live
    => /\ ~crossed => i.stmt = j.stmt
       /\ i.stmt = j.stmt /\ i.stmt \notin torn => i = j

=============================================================================

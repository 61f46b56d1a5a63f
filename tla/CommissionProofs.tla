--------------------------- MODULE CommissionProofs ---------------------------
(***************************************************************************)
(* Theorems about Commission for any set of processes, payments, periods   *)
(* and any bounds: type correctness, and the discipline of the statements  *)
(* of a period (one live statement, a chain of superseded ones, a winner   *)
(* for the loser of the insert race, a total that its lines add up to);    *)
(* and, but for the overlaps the code does not exclude, ranges that are    *)
(* disjoint and a payment that is one line.                                *)
(***************************************************************************)
EXTENDS Commission, TLAPS

USE CommissionAssumption DEF history

\* The steps of a calculation that only read.
CalcReads(p) ==
  \/ CalcReadCorrections(p)
  \/ CalcFindExisting(p)
  \/ CalcDeleteLines(p)
  \/ CalcConflict(p)
  \/ CalcFallback(p)

\* A process whose request is a calculation holds a calculation's locals.
LEMMA CalcShape ==
  ASSUME TypeOK, NEW p \in Procs, req[p].op = "calc"
  PROVE  req[p] \in CalcRequest
BY DEF TypeOK, Request, Idle, CalcRequest

\* What a process becomes is a request again.
LEMMA BecomeType ==
  ASSUME TypeOK, NEW p \in Procs, NEW v \in Request, Become(p, v)
  PROVE  req' \in [Procs -> Request]
BY DEF TypeOK, Become

LEMMA CalcReadsType ==
  ASSUME TypeOK, NEW p \in Procs, CalcReads(p)
  PROVE  TypeOK'
<1>1. /\ req[p] \in CalcRequest
      /\ UNCHANGED <<arrived, stmts, total, items, corrections, withheld, history>>
  BY CalcShape DEF CalcReads, CalcReadCorrections, CalcFindExisting, CalcDeleteLines,
                   CalcConflict, CalcFallback
<1>2. \E v \in CalcRequest : Become(p, v)
  <2>1. CASE CalcReadCorrections(p)
    BY <2>1, <1>1 DEF CalcReadCorrections, CalcRequest, Pending
  <2>2. CASE CalcFindExisting(p)
    BY <2>2, <1>1 DEF CalcFindExisting, CalcRequest, BranchFor, LiveOf, Live, Present
  <2>3. CASE CalcDeleteLines(p)
    BY <2>3, <1>1 DEF CalcDeleteLines, CalcRequest, LinesOf, TypeOK
  <2>4. CASE CalcConflict(p)
    BY <2>4, <1>1 DEF CalcConflict, CalcRequest
  <2>5. CASE CalcFallback(p)
    BY <2>5, <1>1 DEF CalcFallback, CalcRequest, LiveOf, Live, Present
  <2> QED BY <2>1, <2>2, <2>3, <2>4, <2>5 DEF CalcReads
<1>3. CalcRequest \subseteq Request
  BY DEF CalcRequest, Request
<1>4. req' \in [Procs -> Request]
  BY <1>2, <1>3, BecomeType
<1> QED BY <1>1, <1>4 DEF TypeOK

\* The lines a calculation is about to write are items.
LEMMA NewLinesType ==
  ASSUME TypeOK, NEW p \in Procs, req[p].op = "calc", NEW s \in StmtIds
  PROVE  NewLines(p, s) \subseteq Item
<1>1. req[p].pays \subseteq Payments /\ req[p].corrs \subseteq CorrIds
  BY CalcShape DEF CalcRequest
<1>2. \A q \in Payments : q \in CorrIds /\ Share[q] \in -MaxMoney..MaxMoney
  BY DEF CorrIds
<1>3. \A c \in CorrIds : -withheld[c] \in -MaxMoney..MaxMoney
  BY DEF TypeOK, Money
<1> QED BY <1>1, <1>2, <1>3 DEF NewLines, Item

\* Type correctness: whatever the interleaving, no total and no withheld amount
\* is negative or beyond its column, and every request holds well-formed locals.
THEOREM TypeCorrect == Spec => []TypeOK
<1>1. Init => TypeOK
  <2> SUFFICES ASSUME Init PROVE TypeOK
    OBVIOUS
  <2>1. 0 \in Money
    BY DEF Money
  <2>2. Absent \in Statement
    BY DEF Absent, Statement, NoStmt
  <2> QED BY <2>1, <2>2 DEF Init, TypeOK, CorrectionStatus, Request
<1>2. TypeOK /\ [Next]_vars => TypeOK'
  <2> SUFFICES ASSUME TypeOK, [Next]_vars PROVE TypeOK'
    OBVIOUS
  <2>1. CASE UNCHANGED vars
    BY <2>1 DEF vars, TypeOK
  <2>2. ASSUME NEW q \in Payments, PaymentArrives(q) PROVE TypeOK'
    BY <2>2 DEF PaymentArrives, TypeOK
  <2>3. ASSUME NEW p \in Procs, NEW per \in Periods, NEW manual \in BOOLEAN,
               CalcStart(p, per, manual)
        PROVE  TypeOK'
    <3> DEFINE v == [op |-> "calc", step |-> "corrections", period |-> per,
                     pays |-> {q \in arrived : InPeriod(q, per)},
                     corrs |-> {}, target |-> NoStmt, old |-> {}]
    <3>1. v \in Request
      BY DEF Request, CalcRequest, TypeOK
    <3>2. Become(p, v)
      BY <2>3 DEF CalcStart
    <3>3. req' \in [Procs -> Request]
      BY <3>1, <3>2, BecomeType
    <3>4. crossed' \in BOOLEAN
      BY <2>3 DEF CalcStart, TypeOK
    <3> QED BY <2>3, <3>3, <3>4 DEF CalcStart, TypeOK
  <2>4. ASSUME NEW p \in Procs, CalcReads(p) PROVE TypeOK'
    BY <2>4, CalcReadsType
  <2>5. ASSUME NEW p \in Procs, CalcRewrite(p) PROVE TypeOK'
    <3> DEFINE s == req[p].target
    <3>1. Become(p, Idle) /\ s \in StmtIds
      BY <2>5, CalcShape DEF CalcRewrite, CalcRequest
    <3>2. req' \in [Procs -> Request]
      BY <3>1, BecomeType DEF Request
    <3>3. torn' \subseteq StmtIds
      BY <2>5, <3>1 DEF CalcRewrite, TypeOK
    <3>4. total' \in [StmtIds -> Money]
      BY <2>5 DEF CalcRewrite, TypeOK
    <3>5. items' \subseteq Item
      BY <3>1, <2>5, NewLinesType DEF CalcRewrite, Rewritten, TypeOK
    <3> QED BY <2>5, <3>2, <3>3, <3>4, <3>5 DEF CalcRewrite, TypeOK
  <2>6. ASSUME NEW p \in Procs, CalcCreate(p) PROVE TypeOK'
    <3>1. PICK s \in StmtIds :
            /\ NewTotal(p, s) \in Money
            /\ items' = items \cup NewLines(p, s)
            /\ total' = [total EXCEPT ![s] = NewTotal(p, s)]
            /\ stmts' = [t \in StmtIds |->
                 IF t = s THEN NewDraft(p, s)
                 ELSE IF t = req[p].target THEN [stmts[t] EXCEPT !.supersededBy = s]
                 ELSE stmts[t]]
      BY <2>6 DEF CalcCreate
    <3>2. Become(p, Idle) /\ req[p] \in CalcRequest
      BY <2>6, CalcShape DEF CalcCreate
    <3>3. req' \in [Procs -> Request]
      BY <3>2, BecomeType DEF Request
    <3>4. total' \in [StmtIds -> Money]
      BY <3>1 DEF TypeOK
    <3>5. items' \subseteq Item
      BY <2>6, <3>1, NewLinesType DEF CalcCreate, TypeOK
    <3>6. stmts' \in [StmtIds -> Statement]
      <4>1. NewDraft(p, s) \in Statement
        BY <3>2 DEF NewDraft, Statement, NoStmt, CalcRequest
      <4>2. \A t \in StmtIds : [stmts[t] EXCEPT !.supersededBy = s] \in Statement
        BY DEF TypeOK, Statement
      <4>3. \A t \in StmtIds : stmts[t] \in Statement
        BY DEF TypeOK
      <4> QED BY <3>1, <4>1, <4>2, <4>3
    <3> QED BY <2>6, <3>3, <3>4, <3>5, <3>6 DEF CalcCreate, TypeOK
  <2>7. ASSUME NEW p \in Procs, NEW s \in StmtIds, ApproveRead(p, s) \/ PayRead(p, s)
        PROVE  TypeOK'
    <3>1. \E op \in {"approve", "pay"} : Become(p, [op |-> op, stmt |-> s])
      BY <2>7 DEF ApproveRead, PayRead
    <3>2. req' \in [Procs -> Request]
      BY <3>1, BecomeType DEF Request
    <3> QED BY <2>7, <3>2 DEF ApproveRead, PayRead, TypeOK
  <2>8. ASSUME NEW p \in Procs, ApproveCommit(p) \/ PayCommit(p) PROVE TypeOK'
    <3>1. Become(p, Idle) /\ UNCHANGED <<arrived, total, items, history>>
      BY <2>8 DEF ApproveCommit, PayCommit
    <3>2. req' \in [Procs -> Request]
      BY <3>1, BecomeType DEF Request
    <3>3. \E n \in Closed : stmts' = [stmts EXCEPT ![req[p].stmt].status = n]
      BY <2>8 DEF ApproveCommit, PayCommit, PaidRow, Closed
    <3>4. stmts' \in [StmtIds -> Statement]
      <4>1. \A s \in StmtIds, n \in Closed : [stmts[s] EXCEPT !.status = n] \in Statement
        BY DEF TypeOK, Statement
      <4>2. req[p].stmt \in StmtIds
        BY <2>8 DEF ApproveCommit, PayCommit, PaidRow, TypeOK, Request, CalcRequest, Idle
      <4>3. PICK n \in Closed :
              stmts' = [stmts EXCEPT ![req[p].stmt] = [stmts[req[p].stmt] EXCEPT !.status = n]]
        BY <3>3
      <4> QED BY <4>1, <4>2, <4>3 DEF TypeOK
    <3>5. \/ UNCHANGED <<corrections, withheld>>
          \/ \E c \in CarryIds, n \in Money :
               /\ corrections' = [corrections EXCEPT ![c] = "applied"]
               /\ withheld' = [withheld EXCEPT ![c] = n]
      BY <2>8 DEF ApproveCommit, PayCommit, PaidRow
    <3>6. /\ corrections' \in [CorrIds -> CorrectionStatus]
          /\ withheld' \in [CorrIds -> Money]
      BY <3>5 DEF TypeOK, CorrectionStatus
    <3> QED BY <3>1, <3>2, <3>4, <3>6 DEF TypeOK
  <2>9. ASSUME NEW p \in Procs, DetectRead(p) PROVE TypeOK'
    <3>1. [op |-> "detect", todo |-> LateRefunds] \in Request
      BY DEF Request, LateRefunds
    <3>2. req' \in [Procs -> Request]
      BY <2>9, <3>1, BecomeType DEF DetectRead
    <3> QED BY <2>9, <3>2 DEF DetectRead, TypeOK
  <2>10. ASSUME NEW p \in Procs, DetectCreate(p) PROVE TypeOK'
    <3>1. req[p] \in [op : {"detect"}, todo : SUBSET Refunds]
      BY <2>10 DEF DetectCreate, TypeOK, Request, CalcRequest, Idle
    <3>2. PICK r \in req[p].todo :
            /\ IF corrections[r] = "none"
               THEN /\ corrections' = [corrections EXCEPT ![r] = "needs_review"]
                    /\ withheld' = [withheld EXCEPT ![r] = Deduction(r)]
               ELSE UNCHANGED <<corrections, withheld>>
            /\ Become(p, IF req[p].todo = {r} THEN Idle
                         ELSE [req[p] EXCEPT !.todo = @ \ {r}])
      BY <2>10 DEF DetectCreate
    <3>3. Deduction(r) \in Money
      BY <3>1 DEF Deduction, Refunds, Money
    <3>4. \E v \in Request : Become(p, v)
      BY <3>1, <3>2 DEF Request
    <3>5. req' \in [Procs -> Request]
      BY <3>4, BecomeType
    <3>6. /\ corrections' \in [CorrIds -> CorrectionStatus]
          /\ withheld' \in [CorrIds -> Money]
      BY <3>1, <3>2, <3>3 DEF TypeOK, CorrectionStatus
    <3> QED BY <2>10, <3>5, <3>6 DEF DetectCreate, TypeOK
  <2>11. ASSUME NEW p \in Procs, NEW c \in CorrIds, NEW d \in {"applied", "waived"},
                ResolveRead(p, c, d)
         PROVE  TypeOK'
    <3>1. req' \in [Procs -> Request]
      BY <2>11, BecomeType DEF ResolveRead, Request
    <3> QED BY <2>11, <3>1 DEF ResolveRead, TypeOK
  <2>12. ASSUME NEW p \in Procs, ResolveCommit(p) PROVE TypeOK'
    <3>1. req[p].decision \in CorrectionStatus
      BY <2>12 DEF ResolveCommit, TypeOK, Request, CalcRequest, Idle, CorrectionStatus
    <3>2. req' \in [Procs -> Request]
      BY <2>12, BecomeType DEF ResolveCommit, Request
    <3> QED BY <2>12, <3>1, <3>2 DEF ResolveCommit, TypeOK
  <2>13. ASSUME NEW p \in Procs, Crash(p) PROVE TypeOK'
    <3>1. req' \in [Procs -> Request]
      BY <2>13, BecomeType DEF Crash, Request
    <3> QED BY <2>13, <3>1 DEF Crash, TypeOK
  <2> QED
    BY <2>1, <2>2, <2>3, <2>4, <2>5, <2>6, <2>7, <2>8, <2>9, <2>10, <2>11, <2>12, <2>13
       DEF Next, CalcReads
<1> QED BY <1>1, <1>2, PTL DEF Spec

-----------------------------------------------------------------------------
(* The statements of a period.  OneLiveStatement is not inductive: that the *)
(* insert never finds the slot of its period empty but for its own target   *)
(* rests on what every request under way still knows about its statement.   *)

LiveUnique ==
  \A s, t \in Live : stmts[s].period = stmts[t].period => s = t

LiveExists ==
  \A s \in Present : \E t \in Live : stmts[t].period = stmts[s].period

\* What a request that has read a statement may rely on later.
RequestHolds(r) ==
  /\ r.op = "calc" /\ r.step \in {"corrections", "existing"} => r.target = NoStmt
  /\ r.op = "calc" /\ r.step = "create" =>
       \/ r.target = NoStmt
       \/ /\ r.target \in Present
          /\ stmts[r.target].period = r.period
          /\ stmts[r.target].status \in Closed
  /\ r.op = "calc" /\ r.step \in {"delete", "write"} =>
       r.target \in Present /\ stmts[r.target].period = r.period
  /\ r.op = "calc" /\ r.step = "fallback" =>
       \E s \in Present : stmts[s].period = r.period
  /\ r.op = "approve" => r.stmt \in Present
  /\ r.op = "pay" => r.stmt \in Present /\ stmts[r.stmt].status \in Closed

RequestsHold == \A p \in Procs : RequestHolds(req[p])

LedgerInv == LiveUnique /\ LiveExists /\ SupersedeChain /\ RequestsHold

\* Rows are never deleted, change no period and never reopen.
StatementsKeep ==
  \A s \in Present :
    /\ s \in Present'
    /\ stmts'[s].period = stmts[s].period
    /\ stmts[s].status \in Closed => stmts'[s].status \in Closed

LEMMA HoldsKeeps ==
  StatementsKeep => \A r \in Request : RequestHolds(r) => RequestHolds(r)'
<1> SUFFICES ASSUME StatementsKeep, NEW r \in Request, RequestHolds(r)
             PROVE  RequestHolds(r)'
  OBVIOUS
<1> QED BY DEF StatementsKeep, RequestHolds

LEMMA RequestsKeep ==
  ASSUME TypeOK, RequestsHold, StatementsKeep,
         NEW p \in Procs, NEW v \in Request, Become(p, v), RequestHolds(v)'
  PROVE  RequestsHold'
<1> SUFFICES ASSUME NEW q \in Procs PROVE RequestHolds(req[q])'
  BY DEF RequestsHold
<1>1. CASE q = p
  <2>1. req'[q] = v
    BY <1>1 DEF Become, TypeOK
  <2> QED BY <2>1 DEF RequestHolds
<1>2. CASE q # p
  <2>1. PICK r \in Request : r = req[q]
    BY DEF TypeOK
  <2>2. req'[q] = r
    BY <1>2, <2>1 DEF Become, TypeOK
  <2>3. RequestHolds(r)'
    BY <2>1, HoldsKeeps DEF RequestsHold
  <2> QED BY <2>2, <2>3 DEF RequestHolds
<1> QED BY <1>1, <1>2

LEMMA SameStatements ==
  ASSUME LiveUnique, LiveExists, SupersedeChain, UNCHANGED stmts
  PROVE  StatementsKeep /\ LiveUnique' /\ LiveExists' /\ SupersedeChain'
BY DEF StatementsKeep, LiveUnique, LiveExists, SupersedeChain, Live, Present

LEMMA LedgerInit == Init => LedgerInv
BY DEF Init, LedgerInv, LiveUnique, LiveExists, SupersedeChain, RequestsHold,
       RequestHolds, Live, Present, Absent, Idle

\* A step that leaves the statements alone: only the new request is to be checked.
LEMMA ReadStep ==
  ASSUME TypeOK, LedgerInv, UNCHANGED stmts,
         NEW p \in Procs, NEW v \in Request, Become(p, v), RequestHolds(v)
  PROVE  LedgerInv'
<1>1. StatementsKeep /\ LiveUnique' /\ LiveExists' /\ SupersedeChain'
  BY SameStatements DEF LedgerInv
<1>2. RequestHolds(v)'
  BY <1>1, HoldsKeeps
<1> QED BY <1>1, <1>2, RequestsKeep DEF LedgerInv

\* Approval and payout change one status, of a row that exists, to a closed one.
LEMMA StatusStep ==
  ASSUME TypeOK, LedgerInv, NEW p \in Procs, Become(p, Idle),
         NEW s \in Present, NEW n \in Closed,
         stmts' = [stmts EXCEPT ![s].status = n]
  PROVE  LedgerInv'
<1>1. \A t \in StmtIds :
        /\ stmts'[t].period = stmts[t].period
        /\ stmts'[t].supersededBy = stmts[t].supersededBy
        /\ stmts'[t].status = IF t = s THEN n ELSE stmts[t].status
  BY DEF TypeOK, Statement, Present
<1>2. Present' = Present /\ Live' = Live
  BY <1>1 DEF Present, Live, Closed
<1>3. StatementsKeep
  BY <1>1, <1>2 DEF StatementsKeep, Present
<1>4. LiveUnique' /\ LiveExists'
  <2>1. Present \subseteq StmtIds /\ Live \subseteq StmtIds
    BY DEF Present, Live
  <2> QED BY <1>1, <1>2, <2>1 DEF LedgerInv, LiveUnique, LiveExists
<1>5. SupersedeChain'
  <2>1. Present \subseteq StmtIds
    BY DEF Present
  <2> QED BY <1>1, <1>2, <2>1 DEF LedgerInv, SupersedeChain
<1>6. RequestHolds(Idle)' /\ Idle \in Request
  BY DEF RequestHolds, Idle, Request
<1>7. RequestsHold'
  BY <1>3, <1>6, RequestsKeep DEF LedgerInv
<1> QED BY <1>4, <1>5, <1>7 DEF LedgerInv

\* The insert of a draft: the slot of the period is empty but for the target, so
\* the live row of the period, if there is one, is the one that gets superseded.
LEMMA CreateStep ==
  ASSUME TypeOK, LedgerInv, NEW p \in Procs, CalcCreate(p)
  PROVE  LedgerInv'
<1> DEFINE r == req[p]
<1>1. PICK s \in StmtIds :
        /\ NextId(s)
        /\ stmts' = [t \in StmtIds |->
             IF t = s THEN NewDraft(p, s)
             ELSE IF t = r.target THEN [stmts[t] EXCEPT !.supersededBy = s]
             ELSE stmts[t]]
  BY DEF CalcCreate
<1>2. /\ r \in CalcRequest /\ Become(p, Idle)
      /\ LiveOf(r.period) \subseteq {r.target}
      /\ RequestHolds(r)
  BY CalcShape DEF CalcCreate, SlotFree, LedgerInv, RequestsHold
<1>3. /\ s \notin Present
      /\ \A t \in Present : t < s
  BY <1>1 DEF NextId, StmtIds, Present
<1>4. /\ \A t \in Live : stmts[t].period = r.period => t = r.target
      /\ r.target # NoStmt =>
           /\ r.target \in Live
           /\ stmts[r.target].period = r.period
           /\ stmts[r.target].status \in Closed
  BY <1>2 DEF LedgerInv, LiveExists, LiveOf, Live, Present, RequestHolds, CalcCreate
<1>5. \A t \in StmtIds :
        /\ t = s => stmts'[t] = [status |-> "draft", period |-> r.period,
                                 supersededBy |-> NoStmt]
        /\ t # s => /\ stmts'[t].status = stmts[t].status
                    /\ stmts'[t].period = stmts[t].period
                    /\ stmts'[t].supersededBy =
                         IF t = r.target THEN s ELSE stmts[t].supersededBy
  BY <1>1 DEF NewDraft, TypeOK, Statement
<1>6. /\ Present' = Present \cup {s}
      /\ Live' = (Live \ {r.target}) \cup {s}
      /\ Present \subseteq StmtIds /\ Live \subseteq Present
  <2>1. Present' = Present \cup {s}
    BY <1>5 DEF Present
  <2>2. s # NoStmt
    BY DEF StmtIds, NoStmt
  <2> QED BY <1>3, <1>5, <2>1, <2>2 DEF Live, Present
<1>7. StatementsKeep
  BY <1>3, <1>5, <1>6 DEF StatementsKeep
<1>8. LiveUnique'
  BY <1>3, <1>4, <1>5, <1>6 DEF LedgerInv, LiveUnique
<1>9. LiveExists'
  <2> SUFFICES ASSUME NEW t \in Present'
               PROVE  \E u \in Live' : stmts'[u].period = stmts'[t].period
    BY DEF LiveExists
  <2>1. CASE stmts'[t].period = r.period
    BY <2>1, <1>5, <1>6
  <2>2. CASE stmts'[t].period # r.period
    <3>1. t \in Present /\ t # s /\ stmts[t].period # r.period
      BY <2>2, <1>5, <1>6
    <3>2. PICK u \in Live : stmts[u].period = stmts[t].period
      BY <3>1 DEF LedgerInv, LiveExists
    <3>3. u # r.target /\ u # s
      BY <3>1, <3>2, <1>3, <1>4, <1>6 DEF StmtIds, NoStmt
    <3> QED BY <3>1, <3>2, <3>3, <1>5, <1>6
  <2> QED BY <2>1, <2>2
<1>10. SupersedeChain'
  <2> SUFFICES ASSUME NEW t \in Present', t \notin Live'
               PROVE  /\ stmts'[t].supersededBy \in Present' /\ stmts'[t].supersededBy > t
                      /\ stmts'[stmts'[t].supersededBy].period = stmts'[t].period
                      /\ stmts'[t].status \in Closed
                      /\ \A u \in Present' \ {t} :
                           stmts'[u].supersededBy # stmts'[t].supersededBy
    BY DEF SupersedeChain
  <2>1. t \in Present /\ t # s
    BY <1>6
  <2>2. \A u \in Present : stmts[u].supersededBy \in Present \cup {NoStmt}
    BY DEF LedgerInv, SupersedeChain, Live
  <2>3. s # NoStmt
    BY DEF StmtIds, NoStmt
  <2>4. CASE t = r.target
    <3>1. t \in Live /\ stmts[t].period = r.period /\ stmts[t].status \in Closed
      BY <2>4, <1>4, <1>6, <2>1 DEF NoStmt, StmtIds
    <3>2. \A u \in Present' \ {t} : stmts'[u].supersededBy # s
      BY <2>2, <2>3, <2>4, <1>3, <1>5, <1>6
    <3> QED BY <3>1, <3>2, <2>1, <2>4, <1>3, <1>5, <1>6
  <2>5. CASE t # r.target
    <3>1. t \notin Live
      BY <2>5, <1>6
    <3> DEFINE next == stmts[t].supersededBy
    <3>2. stmts'[t].supersededBy = next
      BY <2>1, <2>5, <1>5, <1>6
    <3>3. /\ next \in Present /\ next > t /\ next # NoStmt
          /\ stmts[next].period = stmts[t].period
          /\ stmts[t].status \in Closed
          /\ \A u \in Present \ {t} : stmts[u].supersededBy # next
      BY <3>1, <2>1 DEF LedgerInv, SupersedeChain, StmtIds, Present, NoStmt
    <3>4. /\ next # s /\ next \in Present'
          /\ stmts'[next].period = stmts'[t].period
          /\ stmts'[t].status \in Closed
      BY <3>3, <2>1, <1>3, <1>5, <1>6
    <3>5. \A u \in Present' \ {t} : stmts'[u].supersededBy # next
      BY <3>3, <3>4, <1>5, <1>6
    <3> HIDE DEF next
    <3> QED BY <3>2, <3>3, <3>4, <3>5
  <2> QED BY <2>4, <2>5
<1>11. RequestHolds(Idle)' /\ Idle \in Request
  BY DEF RequestHolds, Idle, Request
<1>12. RequestsHold'
  BY <1>2, <1>7, <1>11, RequestsKeep DEF LedgerInv
<1> QED BY <1>8, <1>9, <1>10, <1>12 DEF LedgerInv

\* Every step: the reads leave the statements alone, the rest is above.
LEMMA LedgerStep ==
  ASSUME TypeOK, LedgerInv, [Next]_vars
  PROVE  LedgerInv'
<1>1. CASE UNCHANGED vars
  BY <1>1 DEF vars, LedgerInv, LiveUnique, LiveExists, SupersedeChain, Live, Present,
              RequestsHold, RequestHolds
<1>2. ASSUME NEW q \in Payments, PaymentArrives(q) PROVE LedgerInv'
  BY <1>2 DEF PaymentArrives, LedgerInv, LiveUnique, LiveExists, SupersedeChain, Live,
              Present, RequestsHold, RequestHolds
<1>3. ASSUME NEW p \in Procs, NEW v \in Request, Become(p, v), UNCHANGED stmts,
             v.op \notin {"calc", "approve", "pay"}
      PROVE  LedgerInv'
  BY <1>3, ReadStep DEF RequestHolds
<1>4. ASSUME NEW p \in Procs, NEW per \in Periods, NEW manual \in BOOLEAN,
             CalcStart(p, per, manual)
      PROVE  LedgerInv'
  <2> DEFINE v == [op |-> "calc", step |-> "corrections", period |-> per,
                   pays |-> {q \in arrived : InPeriod(q, per)},
                   corrs |-> {}, target |-> NoStmt, old |-> {}]
  <2>1. v \in Request /\ RequestHolds(v)
    BY DEF Request, CalcRequest, RequestHolds, TypeOK
  <2> QED BY <1>4, <2>1, ReadStep DEF CalcStart
<1>5. ASSUME NEW p \in Procs, CalcReads(p) PROVE LedgerInv'
  <2>1. req[p] \in CalcRequest /\ RequestHolds(req[p]) /\ UNCHANGED stmts
    BY <1>5, CalcShape DEF CalcReads, CalcReadCorrections, CalcFindExisting, CalcDeleteLines,
                           CalcConflict, CalcFallback, LedgerInv, RequestsHold
  <2>2. \E v \in CalcRequest : Become(p, v) /\ RequestHolds(v)
    <3>1. CASE CalcReadCorrections(p)
      <4> DEFINE v == [req[p] EXCEPT !.step = "existing", !.corrs = Pending]
      <4>1. v \in CalcRequest /\ v.step = "existing" /\ v.op = "calc" /\ v.target = NoStmt
        BY <3>1, <2>1 DEF CalcReadCorrections, CalcRequest, Pending, RequestHolds
      <4>2. RequestHolds(v)
        BY <4>1 DEF RequestHolds
      <4> QED BY <3>1, <4>1, <4>2 DEF CalcReadCorrections
    <3>2. CASE CalcFindExisting(p)
      <4>1. CASE Become(p, [req[p] EXCEPT !.step = "create"])
        <5> DEFINE v == [req[p] EXCEPT !.step = "create"]
        <5>1. v \in CalcRequest /\ v.step = "create" /\ v.op = "calc" /\ v.target = NoStmt
          BY <3>2, <2>1 DEF CalcFindExisting, CalcRequest, RequestHolds
        <5>2. RequestHolds(v)
          BY <5>1 DEF RequestHolds
        <5> QED BY <4>1, <5>1, <5>2
      <4>2. ASSUME NEW s \in LiveOf(req[p].period),
                   Become(p, [req[p] EXCEPT !.step = BranchFor(s), !.target = s])
            PROVE  \E v \in CalcRequest : Become(p, v) /\ RequestHolds(v)
        <5> DEFINE v == [req[p] EXCEPT !.step = BranchFor(s), !.target = s]
        <5>1. /\ s \in Present /\ s \in StmtIds /\ stmts[s].period = req[p].period
              /\ BranchFor(s) = "create" => stmts[s].status \in Closed
              /\ BranchFor(s) \in {"create", "delete"}
          BY DEF LiveOf, Live, Present, BranchFor, TypeOK, Statement
        <5>2. /\ v \in CalcRequest /\ v.step = BranchFor(s) /\ v.op = "calc"
              /\ v.target = s /\ v.period = req[p].period
          BY <3>2, <2>1, <5>1 DEF CalcFindExisting, CalcRequest
        <5>3. RequestHolds(v)
          BY <5>1, <5>2 DEF RequestHolds
        <5> QED BY <4>2, <5>2, <5>3
      <4> QED BY <3>2, <4>1, <4>2 DEF CalcFindExisting
    <3>3. CASE CalcDeleteLines(p)
      <4> DEFINE v == [req[p] EXCEPT !.step = "write", !.old = LinesOf(req[p].target)]
      <4>1. /\ v \in CalcRequest /\ v.step = "write" /\ v.op = "calc"
            /\ v.target = req[p].target /\ v.period = req[p].period
        BY <3>3, <2>1 DEF CalcDeleteLines, CalcRequest, LinesOf, TypeOK
      <4>2. RequestHolds(v)
        BY <3>3, <2>1, <4>1 DEF RequestHolds, CalcDeleteLines
      <4> QED BY <3>3, <4>1, <4>2 DEF CalcDeleteLines
    <3>4. CASE CalcConflict(p)
      <4> DEFINE v == [req[p] EXCEPT !.step = "fallback"]
      <4>1. \E s \in Present : stmts[s].period = req[p].period
        BY <3>4 DEF CalcConflict, SlotFree, LiveOf, Live
      <4>2. /\ v \in CalcRequest /\ v.step = "fallback" /\ v.op = "calc"
            /\ v.period = req[p].period
        BY <3>4, <2>1 DEF CalcConflict, CalcRequest
      <4>3. RequestHolds(v)
        BY <4>1, <4>2 DEF RequestHolds
      <4> QED BY <3>4, <4>2, <4>3 DEF CalcConflict
    <3>5. CASE CalcFallback(p)
      <4>1. PICK s \in LiveOf(req[p].period) :
              Become(p, [req[p] EXCEPT !.step = "delete", !.target = s])
        BY <3>5 DEF CalcFallback
      <4> DEFINE v == [req[p] EXCEPT !.step = "delete", !.target = s]
      <4>2. s \in Present /\ s \in StmtIds /\ stmts[s].period = req[p].period
        BY DEF LiveOf, Live, Present
      <4>3. /\ v \in CalcRequest /\ v.step = "delete" /\ v.op = "calc"
            /\ v.target = s /\ v.period = req[p].period
        BY <3>5, <2>1, <4>2 DEF CalcFallback, CalcRequest
      <4>4. RequestHolds(v)
        BY <4>2, <4>3 DEF RequestHolds
      <4> QED BY <4>1, <4>3, <4>4
    <3> QED BY <1>5, <3>1, <3>2, <3>3, <3>4, <3>5 DEF CalcReads
  <2> QED BY <2>1, <2>2, ReadStep DEF Request
<1>6. ASSUME NEW p \in Procs, CalcRewrite(p) PROVE LedgerInv'
  BY <1>6, <1>3 DEF CalcRewrite, Idle, Request
<1>7. ASSUME NEW p \in Procs, CalcCreate(p) PROVE LedgerInv'
  BY <1>7, CreateStep
<1>8. ASSUME NEW p \in Procs, NEW s \in StmtIds, ApproveRead(p, s) PROVE LedgerInv'
  <2>1. [op |-> "approve", stmt |-> s] \in Request /\ RequestHolds([op |-> "approve", stmt |-> s])
    BY <1>8 DEF ApproveRead, Request, RequestHolds, Live
  <2> QED BY <1>8, <2>1, ReadStep DEF ApproveRead
<1>9. ASSUME NEW p \in Procs, NEW s \in StmtIds, PayRead(p, s) PROVE LedgerInv'
  <2>1. [op |-> "pay", stmt |-> s] \in Request /\ RequestHolds([op |-> "pay", stmt |-> s])
    BY <1>9 DEF PayRead, Request, RequestHolds, Live, Closed
  <2> QED BY <1>9, <2>1, ReadStep DEF PayRead
<1>10. ASSUME NEW p \in Procs, ApproveCommit(p) PROVE LedgerInv'
  <2>1. req[p].stmt \in Present
    BY <1>10 DEF ApproveCommit, LedgerInv, RequestsHold, RequestHolds
  <2> QED BY <1>10, <2>1, StatusStep DEF ApproveCommit, Closed
<1>11. ASSUME NEW p \in Procs, PayCommit(p) PROVE LedgerInv'
  <2>1. req[p].stmt \in Present
    BY <1>11 DEF PayCommit, PaidRow, LedgerInv, RequestsHold, RequestHolds
  <2> QED BY <1>11, <2>1, StatusStep DEF PayCommit, PaidRow, Closed
<1>12. ASSUME NEW p \in Procs, DetectRead(p) PROVE LedgerInv'
  BY <1>12, <1>3 DEF DetectRead, Request, LateRefunds
<1>13. ASSUME NEW p \in Procs, DetectCreate(p) PROVE LedgerInv'
  <2>1. req[p] \in [op : {"detect"}, todo : SUBSET Refunds]
    BY <1>13 DEF DetectCreate, TypeOK, Request, CalcRequest, Idle
  <2>2. \E v \in Request : Become(p, v) /\ v.op \notin {"calc", "approve", "pay"}
    BY <1>13, <2>1 DEF DetectCreate, Request, Idle
  <2> QED BY <1>13, <2>2, <1>3 DEF DetectCreate
<1>14. ASSUME NEW p \in Procs, NEW c \in CorrIds, NEW d \in {"applied", "waived"},
              ResolveRead(p, c, d)
       PROVE  LedgerInv'
  BY <1>14, <1>3 DEF ResolveRead, Request
<1>15. ASSUME NEW p \in Procs, ResolveCommit(p) \/ Crash(p) PROVE LedgerInv'
  BY <1>15, <1>3 DEF ResolveCommit, Crash, Request, Idle
<1> QED
  BY <1>1, <1>2, <1>4, <1>5, <1>6, <1>7, <1>8, <1>9, <1>10, <1>11, <1>12, <1>13, <1>14, <1>15
     DEF Next, CalcReads

THEOREM LedgerInvariant == Spec => []LedgerInv
BY LedgerInit, LedgerStep, TypeCorrect, PTL DEF Spec

\* A period that ever had a statement has exactly one live one.
THEOREM OneLiveAlways == Spec => []OneLiveStatement
<1>1. LedgerInv => OneLiveStatement
  BY DEF LedgerInv, LiveUnique, LiveExists, OneLiveStatement, LiveOf, Live
<1> QED BY <1>1, LedgerInvariant, PTL

\* Superseded statements form a line that ends in the live one.
THEOREM SupersedeChainAlways == Spec => []SupersedeChain
<1>1. LedgerInv => SupersedeChain
  BY DEF LedgerInv
<1> QED BY <1>1, LedgerInvariant, PTL

\* Whoever lost the insert race finds the winner's statement.
THEOREM WinnerAlways == Spec => []WinnerIsThere
<1>1. LedgerInv => WinnerIsThere
  BY DEF LedgerInv, LiveExists, RequestsHold, RequestHolds, WinnerIsThere, LiveOf
<1> QED BY <1>1, LedgerInvariant, PTL

-----------------------------------------------------------------------------
(* The total a statement shows.  That its lines add up to it rests on what  *)
(* a recalculation that has deleted the old lines knows: unless another one *)
(* was doing the same, nothing was added to the statement since.            *)

InRewrite(p) == req[p].op = "calc" /\ req[p].step = "write"

LinesHaveRows == \A i \in items : i.stmt \in Present

OldLinesOf(p) ==
  InRewrite(p) =>
    /\ \A i \in req[p].old : i.stmt = req[p].target
    /\ req[p].target \notin torn => LinesOf(req[p].target) \subseteq req[p].old

\* The lines of a statement are of one calculation, and add up to its total.
OfOneCalculation ==
  \A s \in Present \ torn :
    /\ total[s] = Clamp(LinesSum(LinesOf(s)))
    /\ \A i, j \in LinesOf(s) : i.calc = j.calc

LinesInv == LinesHaveRows /\ OfOneCalculation /\ \A p \in Procs : OldLinesOf(p)

\* What others know stays true when the statement they rewrite gets no line.
LEMMA OthersLines ==
  ASSUME TypeOK, LinesInv, NEW p \in Procs, NEW q \in Procs, q # p,
         NEW v, Become(p, v), torn \subseteq torn',
         InRewrite(q) /\ req[q].target \notin torn' =>
           {i \in items' : i.stmt = req[q].target} \subseteq LinesOf(req[q].target)
  PROVE  OldLinesOf(q)'
<1>1. req'[q] = req[q]
  BY DEF Become, TypeOK
<1>2. OldLinesOf(q)
  BY DEF LinesInv
<1>3. InRewrite(q)' => InRewrite(q) /\ req'[q].target = req[q].target /\ req'[q].old = req[q].old
  BY <1>1 DEF InRewrite
<1>4. InRewrite(q)' /\ req[q].target \notin torn'
        => {i \in items' : i.stmt = req[q].target} \subseteq req[q].old
  BY <1>2, <1>3 DEF OldLinesOf, LinesOf
<1> QED BY <1>2, <1>3, <1>4 DEF OldLinesOf, LinesOf

\* Where the lines and the totals stay, they add up as before.
LEMMA LinesAsBefore ==
  ASSUME OfOneCalculation, UNCHANGED <<items, total, torn>>, Present' = Present
  PROVE  OfOneCalculation'
<1> SUFFICES ASSUME NEW s \in Present \ torn
             PROVE  /\ total'[s] = Clamp(LinesSum(LinesOf(s)'))
                    /\ \A i, j \in LinesOf(s)' : i.calc = j.calc
  BY DEF OfOneCalculation
<1>1. LinesOf(s)' = LinesOf(s)
  BY DEF LinesOf
<1> QED BY <1>1 DEF OfOneCalculation

\* A step that writes no line and no total.
LEMMA NoLinesStep ==
  ASSUME TypeOK, LinesInv, UNCHANGED <<items, total, torn>>, Present' = Present,
         NEW p \in Procs, NEW v, Become(p, v),
         ~ (v.op = "calc" /\ v.step = "write")
  PROVE  LinesInv'
<1>1. OldLinesOf(p)'
  <2>1. req'[p] = v
    BY DEF Become, TypeOK
  <2> QED BY <2>1 DEF OldLinesOf, InRewrite
<1>2. \A q \in Procs : OldLinesOf(q)'
  <2>1. \A s : {i \in items' : i.stmt = s} = LinesOf(s)
    BY DEF LinesOf
  <2> QED BY <1>1, <2>1, OthersLines
<1>3. LinesHaveRows' /\ OfOneCalculation'
  BY LinesAsBefore DEF LinesInv, LinesHaveRows
<1> QED BY <1>2, <1>3 DEF LinesInv

\* The two transactions that write lines put NewLines in the place of all lines of the
\* statement, unless another rewrite of it is under way.
LEMMA WriteStep ==
  ASSUME TypeOK, LinesInv, NEW p \in Procs, NEW s \in StmtIds, Become(p, Idle),
         total' = [total EXCEPT ![s] = NewTotal(p, s)],
         Present' = Present \cup {s},
         torn \subseteq torn', torn' \subseteq torn \cup {s},
         s \notin torn' => /\ {i \in items' : i.stmt = s} = NewLines(p, s)
                           /\ \A q \in Procs \ {p} : ~ (InRewrite(q) /\ req[q].target = s),
         \A i \in items' : i \in items \/ i.stmt = s,
         \A i \in items : i.stmt # s => i \in items'
  PROVE  LinesInv'
<1>1. LinesHaveRows'
  BY DEF LinesInv, LinesHaveRows
<1>0. \A t : t # s => {i \in items' : i.stmt = t} = LinesOf(t)
  BY DEF LinesOf
<1>2. \A q \in Procs : OldLinesOf(q)'
  <2>1. OldLinesOf(p)'
    BY DEF OldLinesOf, InRewrite, Become, TypeOK, Idle
  <2>2. ASSUME NEW q \in Procs, q # p PROVE OldLinesOf(q)'
    <3>1. InRewrite(q) /\ req[q].target \notin torn' => req[q].target # s
      BY <2>2
    <3>2. InRewrite(q) /\ req[q].target \notin torn' =>
            {i \in items' : i.stmt = req[q].target} \subseteq LinesOf(req[q].target)
      BY <1>0, <3>1
    <3> QED BY <2>2, <3>2, OthersLines
  <2> QED BY <2>1, <2>2
<1>3. OfOneCalculation'
  <2> SUFFICES ASSUME NEW t \in Present', t \notin torn'
               PROVE  /\ total'[t] = Clamp(LinesSum({i \in items' : i.stmt = t}))
                      /\ \A i, j \in {k \in items' : k.stmt = t} : i.calc = j.calc
    BY DEF OfOneCalculation, LinesOf
  <2>1. CASE t = s
    <3>1. total'[t] = NewTotal(p, s)
      BY <2>1 DEF TypeOK
    <3>2. {i \in items' : i.stmt = t} = NewLines(p, s)
      BY <2>1
    <3>3. \A i \in NewLines(p, s) : i.calc = p
      BY DEF NewLines
    <3> QED BY <3>1, <3>2, <3>3 DEF NewTotal
  <2>2. CASE t # s
    <3>1. total'[t] = total[t] /\ t \in Present \ torn
      BY <2>2 DEF TypeOK, Present
    <3>2. {i \in items' : i.stmt = t} = LinesOf(t)
      BY <1>0, <2>2
    <3> QED BY <3>1, <3>2 DEF LinesInv, OfOneCalculation
  <2> QED BY <2>1, <2>2
<1> QED BY <1>1, <1>2, <1>3 DEF LinesInv

LEMMA NewLinesRows ==
  ASSUME NEW p, NEW s, NEW i \in NewLines(p, s)
  PROVE  i.stmt = s /\ i.calc = p
BY DEF NewLines

LEMMA LinesStep ==
  ASSUME TypeOK, LedgerInv, LinesInv, [Next]_vars
  PROVE  LinesInv'
<1>1. CASE UNCHANGED vars
  <2>1. LinesHaveRows' /\ (\A p \in Procs : OldLinesOf(p)') /\ Present' = Present
    BY <1>1 DEF vars, LinesInv, LinesHaveRows, OldLinesOf, InRewrite, LinesOf, Present
  <2> QED BY <1>1, <2>1, LinesAsBefore DEF vars, LinesInv
<1>2. ASSUME NEW q \in Payments, PaymentArrives(q) PROVE LinesInv'
  <2>1. LinesHaveRows' /\ (\A p \in Procs : OldLinesOf(p)') /\ Present' = Present
    BY <1>2 DEF PaymentArrives, LinesInv, LinesHaveRows, OldLinesOf, InRewrite, LinesOf, Present
  <2> QED BY <1>2, <2>1, LinesAsBefore DEF PaymentArrives, LinesInv
<1>3. ASSUME NEW p \in Procs, NEW per \in Periods, NEW manual \in BOOLEAN,
             CalcStart(p, per, manual)
      PROVE  LinesInv'
  <2> DEFINE v == [op |-> "calc", step |-> "corrections", period |-> per,
                   pays |-> {q \in arrived : InPeriod(q, per)},
                   corrs |-> {}, target |-> NoStmt, old |-> {}]
  <2>1. Become(p, v) /\ v.step # "write" /\ UNCHANGED <<items, total, stmts, torn>>
    BY <1>3 DEF CalcStart
  <2> QED BY <2>1, NoLinesStep DEF Present
<1>4. ASSUME NEW p \in Procs,
             CalcReadCorrections(p) \/ CalcFindExisting(p) \/ CalcConflict(p) \/ CalcFallback(p)
      PROVE  LinesInv'
  <2>1. req[p] \in CalcRequest /\ UNCHANGED <<items, total, stmts, torn>>
    BY <1>4, CalcShape DEF CalcReadCorrections, CalcFindExisting, CalcConflict, CalcFallback
  <2>2. \E v : Become(p, v) /\ v.step # "write"
    <3>1. CASE CalcReadCorrections(p)
      <4>1. [req[p] EXCEPT !.step = "existing", !.corrs = Pending].step # "write"
        BY <2>1 DEF CalcRequest
      <4> QED BY <3>1, <4>1 DEF CalcReadCorrections
    <3>2. CASE CalcFindExisting(p)
      <4>1. [req[p] EXCEPT !.step = "create"].step # "write"
        BY <2>1 DEF CalcRequest
      <4>2. \A s : [req[p] EXCEPT !.step = BranchFor(s), !.target = s].step # "write"
        BY <2>1 DEF CalcRequest, BranchFor
      <4> QED BY <3>2, <4>1, <4>2 DEF CalcFindExisting
    <3>3. CASE CalcConflict(p)
      <4>1. [req[p] EXCEPT !.step = "fallback"].step # "write"
        BY <2>1 DEF CalcRequest
      <4> QED BY <3>3, <4>1 DEF CalcConflict
    <3>4. CASE CalcFallback(p)
      <4>1. \A s : [req[p] EXCEPT !.step = "delete", !.target = s].step # "write"
        BY <2>1 DEF CalcRequest
      <4> QED BY <3>4, <4>1 DEF CalcFallback
    <3> QED BY <1>4, <3>1, <3>2, <3>3, <3>4
  <2> QED BY <2>1, <2>2, NoLinesStep DEF Present
<1>5. ASSUME NEW p \in Procs, CalcDeleteLines(p) PROVE LinesInv'
  <2> DEFINE v == [req[p] EXCEPT !.step = "write", !.old = LinesOf(req[p].target)]
  <2>1. Become(p, v) /\ UNCHANGED <<items, total, stmts, torn>> /\ req[p] \in CalcRequest
    BY <1>5, CalcShape DEF CalcDeleteLines
  <2>2. v.target = req[p].target /\ v.old = LinesOf(req[p].target)
    BY <2>1 DEF CalcRequest
  <2>3. OldLinesOf(p)'
    <3>1. req'[p] = v
      BY <2>1 DEF Become, TypeOK
    <3> QED BY <2>1, <2>2, <3>1 DEF OldLinesOf, InRewrite, LinesOf
  <2>4. \A q \in Procs : OldLinesOf(q)'
    <3>1. \A s : {i \in items' : i.stmt = s} = LinesOf(s)
      BY <2>1 DEF LinesOf
    <3> HIDE DEF v
    <3> QED BY <2>1, <2>3, <3>1, OthersLines
  <2> QED BY <2>1, <2>4, LinesAsBefore DEF LinesInv, LinesHaveRows, Present
<1>6. ASSUME NEW p \in Procs, CalcRewrite(p) PROVE LinesInv'
  <2>1. PICK s \in Present : s = req[p].target
    BY <1>6 DEF CalcRewrite, LedgerInv, RequestsHold, RequestHolds
  <2>2. /\ Become(p, Idle) /\ s \in StmtIds /\ Present' = Present
        /\ total' = [total EXCEPT ![s] = NewTotal(p, s)]
        /\ items' = (items \ req[p].old) \cup NewLines(p, s)
        /\ torn' = IF Rewriting(s) = {p} THEN torn ELSE torn \cup {s}
    BY <1>6, <2>1 DEF CalcRewrite, Rewritten, Present
  <2>3. /\ \A i \in req[p].old : i.stmt = s
        /\ s \notin torn => LinesOf(s) \subseteq req[p].old
    BY <1>6, <2>1 DEF CalcRewrite, LinesInv, OldLinesOf, InRewrite
  <2>4. s \notin torn' => s \notin torn /\ Rewriting(s) = {p}
    BY <2>2
  <2>5. s \notin torn' => /\ {i \in items' : i.stmt = s} = NewLines(p, s)
                         /\ \A q \in Procs \ {p} : ~ (InRewrite(q) /\ req[q].target = s)
    <3>1. s \notin torn' => {i \in items' : i.stmt = s} = NewLines(p, s)
      BY <2>2, <2>3, <2>4, NewLinesRows DEF LinesOf
    <3> QED BY <2>4, <3>1 DEF Rewriting, InRewrite
  <2>6. /\ \A i \in items' : i \in items \/ i.stmt = s
        /\ \A i \in items : i.stmt # s => i \in items'
    BY <2>2, <2>3, NewLinesRows
  <2>7. Present' = Present \cup {s} /\ torn \subseteq torn' /\ torn' \subseteq torn \cup {s}
    BY <2>2
  <2> QED BY <2>2, <2>5, <2>6, <2>7, WriteStep
<1>7. ASSUME NEW p \in Procs, CalcCreate(p) PROVE LinesInv'
  <2>1. PICK s \in StmtIds :
          /\ NextId(s)
          /\ items' = items \cup NewLines(p, s)
          /\ total' = [total EXCEPT ![s] = NewTotal(p, s)]
          /\ stmts' = [t \in StmtIds |->
               IF t = s THEN NewDraft(p, s)
               ELSE IF t = req[p].target THEN [stmts[t] EXCEPT !.supersededBy = s]
               ELSE stmts[t]]
    BY <1>7 DEF CalcCreate
  <2>2. s \notin Present
    BY <2>1 DEF NextId, StmtIds
  <2>3. Present' = Present \cup {s}
    <3>1. \A t \in StmtIds : t # s => stmts'[t].status = stmts[t].status
      BY <2>1 DEF TypeOK, Statement
    <3>2. stmts'[s].status = "draft"
      BY <2>1 DEF NewDraft
    <3> QED BY <3>1, <3>2 DEF Present
  <2>4. \A q \in Procs : InRewrite(q) => req[q].target \in Present
    BY DEF InRewrite, LedgerInv, RequestsHold, RequestHolds
  <2>5. {i \in items' : i.stmt = s} = NewLines(p, s)
    BY <2>1, <2>2, NewLinesRows DEF LinesInv, LinesHaveRows
  <2>6. Become(p, Idle) /\ UNCHANGED torn
    BY <1>7 DEF CalcCreate
  <2>7. s \notin torn' => /\ {i \in items' : i.stmt = s} = NewLines(p, s)
                         /\ \A q \in Procs \ {p} : ~ (InRewrite(q) /\ req[q].target = s)
    BY <2>2, <2>4, <2>5
  <2>8. /\ \A i \in items' : i \in items \/ i.stmt = s
        /\ \A i \in items : i.stmt # s => i \in items'
    BY <2>1, NewLinesRows
  <2> QED BY <2>1, <2>3, <2>6, <2>7, <2>8, WriteStep
<1>8. ASSUME NEW p \in Procs, NEW s \in StmtIds, ApproveRead(p, s) \/ PayRead(p, s)
      PROVE  LinesInv'
  <2>1. /\ \E v : Become(p, v) /\ v.op # "calc"
        /\ UNCHANGED <<items, total, stmts, torn>>
    BY <1>8 DEF ApproveRead, PayRead
  <2> QED BY <2>1, NoLinesStep DEF Present
<1>9. ASSUME NEW p \in Procs, ApproveCommit(p) \/ PayCommit(p) PROVE LinesInv'
  <2>1. /\ Become(p, Idle) /\ UNCHANGED <<items, total, torn>>
        /\ \E n \in Closed : stmts' = [stmts EXCEPT ![req[p].stmt].status = n]
        /\ req[p].stmt \in Present
    BY <1>9 DEF ApproveCommit, PayCommit, PaidRow, Closed, LedgerInv, RequestsHold, RequestHolds
  <2>2. Present' = Present
    BY <2>1 DEF Present, Closed, TypeOK, Statement
  <2> QED BY <2>1, <2>2, NoLinesStep DEF Idle
<1>10. ASSUME NEW p \in Procs, DetectRead(p) PROVE LinesInv'
  <2>1. \E v : Become(p, v) /\ v.op # "calc"
    BY <1>10 DEF DetectRead
  <2> QED BY <1>10, <2>1, NoLinesStep DEF DetectRead, Present
<1>11. ASSUME NEW p \in Procs, DetectCreate(p) PROVE LinesInv'
  <2>1. req[p] \in [op : {"detect"}, todo : SUBSET Refunds]
    BY <1>11 DEF DetectCreate, TypeOK, Request, CalcRequest, Idle
  <2>2. \E v : Become(p, v) /\ v.op # "calc"
    BY <1>11, <2>1 DEF DetectCreate, Idle
  <2> QED BY <1>11, <2>2, NoLinesStep DEF DetectCreate, Present
<1>12. ASSUME NEW p \in Procs, NEW c \in CorrIds, NEW d \in {"applied", "waived"},
              ResolveRead(p, c, d)
       PROVE  LinesInv'
  <2>1. \E v : Become(p, v) /\ v.op # "calc"
    BY <1>12 DEF ResolveRead
  <2> QED BY <1>12, <2>1, NoLinesStep DEF ResolveRead, Present
<1>13. ASSUME NEW p \in Procs, ResolveCommit(p) \/ Crash(p) PROVE LinesInv'
  BY <1>13, NoLinesStep DEF ResolveCommit, Crash, Present, Idle
<1> QED
  BY <1>1, <1>2, <1>3, <1>4, <1>5, <1>6, <1>7, <1>8, <1>9, <1>10, <1>11, <1>12, <1>13 DEF Next

\* The lines of a statement are those of one calculation always, but for overlaps.
LEMMA LinesInvariant == Spec => []LinesInv
<1>1. Init => LinesInv
  BY DEF Init, LinesInv, LinesHaveRows, OfOneCalculation, OldLinesOf, InRewrite, Present, Absent,
         Idle
<1> QED BY <1>1, LinesStep, TypeCorrect, LedgerInvariant, PTL DEF Spec

\* The total shown is the clamped sum of all lines of the statement, unless two rewrites
\* of it have overlapped.
THEOREM TotalAlways == Spec => []TotalIsTheLines
<1>1. LinesInv => TotalIsTheLines
  BY DEF LinesInv, OfOneCalculation, TotalIsTheLines
<1> QED BY <1>1, LinesInvariant, PTL

-----------------------------------------------------------------------------
(* The ranges.  A calculation that nothing has crossed knows that no live   *)
(* statement and no other calculation is of a range that overlaps its own.  *)

\* A calculation keeps the range and the payments it has begun with.
SameCalc(p, r) == req[p].op = "calc" /\ r.period = req[p].period /\ r.pays = req[p].pays
BegunCalc(p, r) ==
  /\ r.pays \subseteq {q \in Payments : InPeriod(q, r.period)}
  /\ r.period \in Periods
  /\ ~crossed' => ~RangeRefused(r.period) /\ ~AskedMeanwhile(p, r.period)

\* Every request goes on, begins or ends, and one of them moves.
RequestsGoOn ==
  /\ \A q \in Procs : req'[q].op = "calc" => SameCalc(q, req'[q]) \/ BegunCalc(q, req'[q])
  /\ \A q, o \in Procs : req'[q] # req[q] /\ req'[o] # req[o] => q = o
  /\ crossed => crossed'

\* The periods and the live rows are the same, and so are the lines.
LedgerStays ==
  /\ Present' = Present /\ Live' = Live /\ UNCHANGED items
  /\ \A s \in StmtIds : stmts'[s].period = stmts[s].period

\* A payment is a line with its own share, of a statement whose range has its day.
PaymentLines ==
  /\ \A i \in items : i.kind = "payment" =>
       i.src \in Payments /\ i.amount = Share[i.src] /\ InPeriod(i.src, stmts[i.stmt].period)
  /\ \A p \in Procs : req[p].op = "calc" => \A q \in req[p].pays : InPeriod(q, req[p].period)

\* No live statement overlaps the range that is being calculated, but one of that range.
RangeIsFree ==
  ~crossed =>
    \A p \in Procs : req[p].op = "calc" =>
      \A s \in Live : Overlaps(stmts[s].period, req[p].period) => stmts[s].period = req[p].period

\* Nor does another calculation.
CalcsApart ==
  ~crossed =>
    \A p, q \in Procs :
      /\ req[p].op = "calc" /\ req[q].op = "calc" /\ Overlaps(req[p].period, req[q].period)
      => req[p].period = req[q].period

\* A calculation that goes on, or anything else that takes the place of a request.
LEMMA GoesOnOrEnds ==
  ASSUME TypeOK, NEW p \in Procs, NEW r, Become(p, r),
         r.op = "calc" => SameCalc(p, r) \/ BegunCalc(p, r), crossed => crossed'
  PROVE  RequestsGoOn
<1>1. req' = [req EXCEPT ![p] = r] /\ DOMAIN req = Procs
  BY DEF Become, TypeOK
<1> QED BY <1>1 DEF SameCalc, RequestsGoOn

\* Every step but a write of lines leaves the ledger as it was.
LEMMA StepsOfHand ==
  ASSUME TypeOK, LedgerInv, Next
  PROVE  \/ \E p \in Procs : CalcRewrite(p) \/ CalcCreate(p)
         \/ LedgerStays /\ RequestsGoOn
<1> DEFINE Goal == LedgerStays /\ RequestsGoOn
<1>1. ASSUME NEW q \in Payments, PaymentArrives(q) PROVE Goal
  BY <1>1 DEF PaymentArrives, LedgerStays, RequestsGoOn, Present, Live, SameCalc
<1>2. ASSUME NEW p \in Procs, NEW r, Become(p, r), UNCHANGED <<stmts, items>>,
             r.op = "calc" => SameCalc(p, r) \/ BegunCalc(p, r), crossed => crossed'
      PROVE  Goal
  <2>1. LedgerStays
    BY <1>2 DEF LedgerStays, Present, Live
  <2> QED BY <1>2, <2>1, GoesOnOrEnds
<1>3. ASSUME NEW p \in Procs, NEW per \in Periods, NEW manual \in BOOLEAN,
             CalcStart(p, per, manual)
      PROVE  Goal
  <2> DEFINE r == [op |-> "calc", step |-> "corrections", period |-> per,
                   pays |-> {q \in arrived : InPeriod(q, per)},
                   corrs |-> {}, target |-> NoStmt, old |-> {}]
  <2>1. /\ Become(p, r) /\ UNCHANGED <<stmts, items>>
        /\ crossed' = (crossed \/ RangeRefused(per) \/ AskedMeanwhile(p, per))
    BY <1>3 DEF CalcStart
  <2>2. r.pays = {q \in arrived : InPeriod(q, per)} /\ r.period = per
    OBVIOUS
  <2>3. BegunCalc(p, r)
    BY <2>1, <2>2 DEF BegunCalc, TypeOK
  <2> HIDE DEF r, Goal
  <2> QED BY <1>2, <2>1, <2>3
<1>4. ASSUME NEW p \in Procs, CalcReads(p) PROVE Goal
  <2>1. /\ req[p] \in CalcRequest /\ req[p].op = "calc" /\ UNCHANGED <<stmts, items, crossed>>
    BY <1>4, CalcShape DEF CalcReads, CalcReadCorrections, CalcFindExisting, CalcDeleteLines,
                           CalcConflict, CalcFallback
  <2>2. \E r : Become(p, r) /\ SameCalc(p, r)
    <3>1. CASE CalcReadCorrections(p)
      <4>1. SameCalc(p, [req[p] EXCEPT !.step = "existing", !.corrs = Pending])
        BY <2>1 DEF CalcRequest, SameCalc
      <4> QED BY <3>1, <4>1 DEF CalcReadCorrections
    <3>2. CASE CalcFindExisting(p)
      <4>1. SameCalc(p, [req[p] EXCEPT !.step = "create"])
        BY <2>1 DEF CalcRequest, SameCalc
      <4>2. \A s : SameCalc(p, [req[p] EXCEPT !.step = BranchFor(s), !.target = s])
        BY <2>1 DEF CalcRequest, SameCalc
      <4> QED BY <3>2, <4>1, <4>2 DEF CalcFindExisting
    <3>3. CASE CalcDeleteLines(p)
      <4>1. SameCalc(p, [req[p] EXCEPT !.step = "write", !.old = LinesOf(req[p].target)])
        BY <2>1 DEF CalcRequest, SameCalc
      <4> QED BY <3>3, <4>1 DEF CalcDeleteLines
    <3>4. CASE CalcConflict(p)
      <4>1. SameCalc(p, [req[p] EXCEPT !.step = "fallback"])
        BY <2>1 DEF CalcRequest, SameCalc
      <4> QED BY <3>4, <4>1 DEF CalcConflict
    <3>5. CASE CalcFallback(p)
      <4>1. \A s : SameCalc(p, [req[p] EXCEPT !.step = "delete", !.target = s])
        BY <2>1 DEF CalcRequest, SameCalc
      <4> QED BY <3>5, <4>1 DEF CalcFallback
    <3> QED BY <1>4, <3>1, <3>2, <3>3, <3>4, <3>5 DEF CalcReads
  <2> HIDE DEF Goal
  <2> QED BY <1>2, <2>1, <2>2
<1>5. ASSUME NEW p \in Procs, ApproveCommit(p) \/ PayCommit(p) PROVE Goal
  <2>1. /\ Become(p, Idle) /\ UNCHANGED <<items, crossed>>
        /\ \E n \in Closed : stmts' = [stmts EXCEPT ![req[p].stmt].status = n]
        /\ req[p].stmt \in Present
    BY <1>5 DEF ApproveCommit, PayCommit, PaidRow, Closed, LedgerInv, RequestsHold, RequestHolds
  <2>2. PICK s \in Present, n \in Closed : stmts' = [stmts EXCEPT ![s].status = n]
    BY <2>1
  <2>3. \A t \in StmtIds :
          /\ stmts'[t].period = stmts[t].period
          /\ stmts'[t].supersededBy = stmts[t].supersededBy
          /\ stmts'[t].status = IF t = s THEN n ELSE stmts[t].status
    BY <2>2 DEF TypeOK, Statement, Present
  <2>4. Present' = Present /\ Live' = Live
    BY <2>3 DEF Present, Live, Closed
  <2>5. Idle.op # "calc"
    BY DEF Idle
  <2> QED BY <2>1, <2>3, <2>4, <2>5, GoesOnOrEnds DEF LedgerStays
<1>6. ASSUME NEW p \in Procs,
             \/ \E s \in StmtIds : ApproveRead(p, s) \/ PayRead(p, s)
             \/ \E c \in CorrIds, d \in {"applied", "waived"} : ResolveRead(p, c, d)
             \/ DetectRead(p) \/ ResolveCommit(p) \/ Crash(p)
      PROVE  Goal
  <2>1. UNCHANGED <<stmts, items, crossed>>
    BY <1>6 DEF ApproveRead, PayRead, ResolveRead, DetectRead, ResolveCommit, Crash
  <2>2. \E r : Become(p, r) /\ r.op # "calc"
    <3>1. CASE \E s \in StmtIds : ApproveRead(p, s) \/ PayRead(p, s)
      BY <3>1 DEF ApproveRead, PayRead
    <3>2. CASE \E c \in CorrIds, d \in {"applied", "waived"} : ResolveRead(p, c, d)
      BY <3>2 DEF ResolveRead
    <3>3. CASE DetectRead(p)
      BY <3>3 DEF DetectRead
    <3>4. CASE ResolveCommit(p) \/ Crash(p)
      BY <3>4 DEF ResolveCommit, Crash, Idle
    <3> QED BY <1>6, <3>1, <3>2, <3>3, <3>4
  <2> HIDE DEF Goal
  <2> QED BY <1>2, <2>1, <2>2
<1>7. ASSUME NEW p \in Procs, DetectCreate(p) PROVE Goal
  <2>1. req[p] \in [op : {"detect"}, todo : SUBSET Refunds]
    BY <1>7 DEF DetectCreate, TypeOK, Request, CalcRequest, Idle
  <2>2. \E r : Become(p, r) /\ r.op # "calc"
    BY <1>7, <2>1 DEF DetectCreate, Idle
  <2> HIDE DEF Goal
  <2> QED BY <1>2, <1>7, <2>2 DEF DetectCreate
<1> HIDE DEF Goal
<1>8. (\E p \in Procs : CalcRewrite(p) \/ CalcCreate(p)) \/ Goal
  BY <1>1, <1>3, <1>4, <1>5, <1>6, <1>7 DEF Next, CalcReads
<1> QED BY <1>8 DEF Goal

\* The insert of a draft, seen from the ledger.
LEMMA Inserted ==
  ASSUME TypeOK, LedgerInv, NEW p \in Procs, CalcCreate(p)
  PROVE  \E s \in StmtIds :
           /\ s \notin Present /\ Present' = Present \cup {s} /\ s \in Live'
           /\ stmts'[s].period = req[p].period
           /\ Live' \subseteq Live \cup {s}
           /\ \A t \in Live' : t # s => stmts[t].period # req[p].period
           /\ \A t \in Present : stmts'[t].period = stmts[t].period
           /\ items' = items \cup NewLines(p, s)
<1>1. PICK s \in StmtIds :
        /\ NextId(s)
        /\ items' = items \cup NewLines(p, s)
        /\ stmts' = [t \in StmtIds |->
             IF t = s THEN NewDraft(p, s)
             ELSE IF t = req[p].target THEN [stmts[t] EXCEPT !.supersededBy = s]
             ELSE stmts[t]]
  BY DEF CalcCreate
<1>2. s \notin Present /\ s # NoStmt /\ Present \subseteq StmtIds
  BY <1>1 DEF NextId, StmtIds, NoStmt, Present
<1>3. LiveOf(req[p].period) \subseteq {req[p].target}
  BY DEF CalcCreate, SlotFree
<1>4. \A t \in StmtIds :
        /\ t = s => /\ stmts'[t].status = "draft" /\ stmts'[t].period = req[p].period
                    /\ stmts'[t].supersededBy = NoStmt
        /\ t # s => /\ stmts'[t].status = stmts[t].status
                    /\ stmts'[t].period = stmts[t].period
                    /\ stmts'[t].supersededBy =
                         IF t = req[p].target THEN s ELSE stmts[t].supersededBy
  BY <1>1 DEF NewDraft, TypeOK, Statement
<1>5. Present' = Present \cup {s}
  BY <1>4 DEF Present
<1>6. s \in Live' /\ Live' \subseteq Live \cup {s} /\ \A t \in Live' : t # s => t # req[p].target
  BY <1>2, <1>4, <1>5 DEF Live
<1>7. ASSUME NEW t \in Live', t # s PROVE stmts[t].period # req[p].period
  BY <1>3, <1>6, <1>7 DEF LiveOf
<1>8. \A t \in Present : stmts'[t].period = stmts[t].period
  BY <1>2, <1>4
<1> QED BY <1>1, <1>2, <1>4, <1>5, <1>6, <1>7, <1>8

\* What lines are written say.
LEMMA LinesWritten ==
  ASSUME TypeOK, PaymentLines, NEW p \in Procs, req[p].op = "calc", NEW s,
         NEW i \in NewLines(p, s), i.kind = "payment"
  PROVE  /\ i.src \in Payments /\ i.amount = Share[i.src]
         /\ InPeriod(i.src, req[p].period) /\ i.stmt = s
<1>1. req[p].pays \subseteq Payments
  BY CalcShape DEF CalcRequest
<1> QED BY <1>1 DEF NewLines, PaymentLines

\* Every step keeps it.
LEMMA PaymentLinesStep ==
  ASSUME TypeOK, LedgerInv, LinesInv, PaymentLines, [Next]_vars
  PROVE  PaymentLines'
<1>1. CASE UNCHANGED vars
  BY <1>1 DEF vars, PaymentLines
<1>2. CASE LedgerStays /\ RequestsGoOn
  <2>1. \A i \in items' : i.stmt \in StmtIds
    BY <1>2 DEF LedgerStays, TypeOK, Item
  <2> QED BY <1>2, <2>1 DEF LedgerStays, RequestsGoOn, PaymentLines, SameCalc, BegunCalc
<1>3. ASSUME NEW p \in Procs, CalcRewrite(p) PROVE PaymentLines'
  <2>1. /\ req[p].op = "calc" /\ UNCHANGED stmts /\ Become(p, Idle)
        /\ items' = (items \ req[p].old) \cup NewLines(p, req[p].target)
        /\ stmts[req[p].target].period = req[p].period
    BY <1>3 DEF CalcRewrite, Rewritten, LedgerInv, RequestsHold, RequestHolds
  <2>2. \A i \in items' : i.kind = "payment" =>
          i.src \in Payments /\ i.amount = Share[i.src] /\ InPeriod(i.src, stmts'[i.stmt].period)
    BY <2>1, LinesWritten DEF PaymentLines
  <2>3. \A q \in Procs : req'[q].op = "calc" => req'[q] = req[q]
    BY <2>1 DEF Become, Idle, TypeOK
  <2> QED BY <2>2, <2>3 DEF PaymentLines
<1>4. ASSUME NEW p \in Procs, CalcCreate(p) PROVE PaymentLines'
  <2>1. req[p].op = "calc" /\ Become(p, Idle)
    BY <1>4 DEF CalcCreate
  <2>2. PICK s \in StmtIds :
           /\ stmts'[s].period = req[p].period
           /\ \A t \in Present : stmts'[t].period = stmts[t].period
           /\ items' = items \cup NewLines(p, s)
    BY <1>4, Inserted
  <2>3. \A i \in items' : i.kind = "payment" =>
          i.src \in Payments /\ i.amount = Share[i.src] /\ InPeriod(i.src, stmts'[i.stmt].period)
    BY <2>1, <2>2, LinesWritten DEF PaymentLines, LinesInv, LinesHaveRows
  <2>4. \A q \in Procs : req'[q].op = "calc" => req'[q] = req[q]
    BY <2>1 DEF Become, Idle, TypeOK
  <2> QED BY <2>3, <2>4 DEF PaymentLines
<1> QED BY <1>1, <1>2, <1>3, <1>4, StepsOfHand

\* Periods may overlap in both directions.
LEMMA OverlapsBothWays ==
  ASSUME TypeOK, NEW a \in Periods \cup {NoPeriod}, NEW b \in Periods \cup {NoPeriod}
  PROVE  Overlaps(a, b) <=> Overlaps(b, a)
<1>1. \A c \in Periods \cup {NoPeriod} : c.from \in Int /\ c.to \in Int
  BY DEF CommissionAssumption, NoPeriod
<1> QED BY <1>1 DEF Overlaps

RangesInv == LivePeriodsDisjoint /\ RangeIsFree /\ CalcsApart

\* And every step keeps the range of a calculation free, or has crossed it.
LEMMA RangesStep ==
  ASSUME TypeOK, LedgerInv, RangesInv, [Next]_vars
  PROVE  RangesInv'
<1>0. /\ Live \subseteq StmtIds /\ Live \subseteq Present
      /\ \A t \in StmtIds : stmts[t].period \in Periods \cup {NoPeriod}
      /\ \A q \in Procs : req[q].op = "calc" => req[q].period \in Periods
  BY CalcShape DEF Live, Present, TypeOK, Statement, CalcRequest
<1>1. CASE UNCHANGED vars
  BY <1>1 DEF vars, RangesInv, LivePeriodsDisjoint, RangeIsFree, CalcsApart, Live, Present
<1>2. CASE LedgerStays /\ RequestsGoOn
  <2>1. LivePeriodsDisjoint'
    BY <1>0, <1>2 DEF LedgerStays, RequestsGoOn, RangesInv, LivePeriodsDisjoint
  <2>2. RangeIsFree'
    BY <1>0, <1>2 DEF LedgerStays, RequestsGoOn, RangesInv, RangeIsFree, SameCalc, BegunCalc,
                      RangeRefused
  <2>3. CalcsApart'
    <3> SUFFICES ASSUME ~crossed', NEW p \in Procs, NEW q \in Procs,
                        req'[p].op = "calc", req'[q].op = "calc",
                        Overlaps(req'[p].period, req'[q].period)
                 PROVE  req'[p].period = req'[q].period
      BY DEF CalcsApart
    <3>1. ~crossed /\ CalcsApart
      BY <1>2 DEF RequestsGoOn, RangesInv
    <3>2. CASE SameCalc(p, req'[p]) /\ SameCalc(q, req'[q])
      BY <3>1, <3>2 DEF CalcsApart, SameCalc
    <3>3. ASSUME NEW o \in Procs, NEW b \in Procs, b # o, req'[o].op = "calc", req'[b].op = "calc",
                 BegunCalc(b, req'[b]), ~SameCalc(b, req'[b]),
                 Overlaps(req'[o].period, req'[b].period)
          PROVE  req'[o].period = req'[b].period
      <4>1. req'[b] # req[b]
        BY <3>3 DEF SameCalc
      <4>2. req'[o] = req[o]
        BY <1>2, <3>3, <4>1 DEF RequestsGoOn
      <4> QED BY <3>3, <4>2 DEF BegunCalc, AskedMeanwhile
    <3>4. /\ SameCalc(p, req'[p]) \/ BegunCalc(p, req'[p])
          /\ SameCalc(q, req'[q]) \/ BegunCalc(q, req'[q])
      BY <1>2 DEF RequestsGoOn
    <3>5. /\ req'[p].period \in Periods \cup {NoPeriod}
          /\ req'[q].period \in Periods \cup {NoPeriod}
      BY <1>0, <3>4 DEF SameCalc, BegunCalc
    <3>6. Overlaps(req'[q].period, req'[p].period)
      BY <3>5, OverlapsBothWays
    <3> QED BY <3>2, <3>3, <3>4, <3>6
  <2> QED BY <2>1, <2>2, <2>3 DEF RangesInv
<1>3. ASSUME NEW p \in Procs, CalcRewrite(p)
      PROVE  RangesInv'
  <2>1. UNCHANGED <<stmts, crossed>> /\ Become(p, Idle)
    BY <1>3 DEF CalcRewrite
  <2>2. \A q \in Procs : req'[q].op = "calc" => req'[q] = req[q]
    BY <2>1 DEF Become, Idle, TypeOK
  <2> QED BY <2>1, <2>2 DEF RangesInv, LivePeriodsDisjoint, RangeIsFree, CalcsApart, Live, Present
<1>4. ASSUME NEW p \in Procs, CalcCreate(p)
      PROVE  RangesInv'
  <2>1. req[p].op = "calc" /\ Become(p, Idle) /\ UNCHANGED crossed
    BY <1>4 DEF CalcCreate
  <2>2. \A q \in Procs : req'[q].op = "calc" => req'[q] = req[q]
    BY <2>1 DEF Become, Idle, TypeOK
  <2>3. PICK s \in StmtIds :
           /\ s \notin Present /\ Present' = Present \cup {s} /\ s \in Live'
           /\ stmts'[s].period = req[p].period
           /\ Live' \subseteq Live \cup {s}
           /\ \A t \in Live' : t # s => stmts[t].period # req[p].period
           /\ \A t \in Present : stmts'[t].period = stmts[t].period
    BY <1>4, Inserted
  <2>4. req[p].period \in Periods
    BY <1>0, <2>1
  <2>5. ASSUME ~crossed, NEW t \in Live', t # s
        PROVE  ~Overlaps(stmts'[t].period, stmts'[s].period)
               /\ ~Overlaps(stmts'[s].period, stmts'[t].period)
    <3>1. t \in Live /\ stmts'[t].period = stmts[t].period /\ stmts[t].period # req[p].period
      BY <1>0, <2>3, <2>5
    <3>2. ~Overlaps(stmts[t].period, req[p].period)
      BY <2>1, <2>5, <3>1 DEF RangesInv, RangeIsFree
    <3>3. ~Overlaps(req[p].period, stmts[t].period)
      BY <1>0, <2>4, <3>1, <3>2, OverlapsBothWays
    <3> QED BY <2>3, <3>1, <3>2, <3>3
  <2>6. ASSUME ~crossed, NEW t \in Live', NEW u \in Live',
               Overlaps(stmts'[t].period, stmts'[u].period)
        PROVE  t = u
    <3>1. CASE t = s \/ u = s
      BY <2>5, <2>6, <3>1
    <3>2. CASE t # s /\ u # s
      BY <1>0, <2>3, <2>6, <3>2 DEF RangesInv, LivePeriodsDisjoint
    <3> QED BY <3>1, <3>2
  <2>7. LivePeriodsDisjoint'
    BY <2>1, <2>6 DEF LivePeriodsDisjoint
  <2>8. CalcsApart'
    BY <2>1, <2>2 DEF RangesInv, CalcsApart
  <2>9. ASSUME ~crossed, NEW q \in Procs, req'[q].op = "calc", NEW t \in Live',
               Overlaps(stmts'[t].period, req'[q].period)
        PROVE  stmts'[t].period = req'[q].period
    <3>1. req'[q] = req[q]
      BY <2>2, <2>9
    <3>2. CASE t = s
      BY <2>1, <2>3, <2>9, <3>1, <3>2 DEF RangesInv, CalcsApart
    <3>3. CASE t # s
      BY <1>0, <2>3, <2>9, <3>1, <3>3 DEF RangesInv, RangeIsFree
    <3> QED BY <3>2, <3>3
  <2>10. RangeIsFree'
    BY <2>1, <2>9 DEF RangeIsFree
  <2> QED BY <2>7, <2>8, <2>10 DEF RangesInv
<1> QED BY <1>1, <1>2, <1>3, <1>4, StepsOfHand

\* The periods of a partner's live statements do not overlap (statement.ts, C-05), for any
\* processes, periods, payments and number of recalculations, until a calculation is asked
\* for that no overlap check could have covered.
THEOREM LivePeriodsDisjointAlways == Spec => []LivePeriodsDisjoint
<1>1. Init => RangesInv
  BY DEF Init, RangesInv, LivePeriodsDisjoint, RangeIsFree, CalcsApart, Live, Present, Absent,
         Idle
<1>2. RangesInv => LivePeriodsDisjoint
  BY DEF RangesInv
<1> QED BY <1>1, <1>2, RangesStep, TypeCorrect, LedgerInvariant, PTL DEF Spec

\* A payment is in one live statement, and one line of it, but for those overlaps.
THEOREM PaymentIsOneLineAlways == Spec => []PaymentIsOneLine
<1>1. Init => PaymentLines
  BY DEF Init, PaymentLines, Idle
<1>2. Spec => []PaymentLines
  BY <1>1, PaymentLinesStep, TypeCorrect, LedgerInvariant, LinesInvariant, PTL DEF Spec
<1>3. TypeOK /\ LinesInv /\ PaymentLines /\ LivePeriodsDisjoint => PaymentIsOneLine
  <2> SUFFICES ASSUME TypeOK, LinesInv, PaymentLines, LivePeriodsDisjoint,
                      NEW i \in items, NEW j \in items,
                      i.kind = "payment", j.kind = "payment", i.src = j.src,
                      i.stmt \in Live, j.stmt \in Live
               PROVE  /\ ~crossed => i.stmt = j.stmt
                      /\ i.stmt = j.stmt /\ i.stmt \notin torn => i = j
    BY DEF PaymentIsOneLine
  <2>1. /\ InPeriod(i.src, stmts[i.stmt].period) /\ InPeriod(i.src, stmts[j.stmt].period)
        /\ i.amount = j.amount
    BY DEF PaymentLines
  <2>2. i \in Item /\ j \in Item
    BY DEF TypeOK
  <2>3. i.stmt = j.stmt /\ i.stmt \notin torn => i.calc = j.calc
    <3>1. i.stmt \in Present
      BY DEF Live
    <3>2. i \in LinesOf(i.stmt) /\ (i.stmt = j.stmt => j \in LinesOf(i.stmt))
      BY DEF LinesOf
    <3> QED BY <3>1, <3>2 DEF LinesInv, OfOneCalculation
  <2>4. ~crossed => i.stmt = j.stmt
    <3>1. PaidAt[i.src] \in Int
      BY DEF PaymentLines, CommissionAssumption
    <3>2. /\ \A c \in Periods \cup {NoPeriod} : c.from \in Int /\ c.to \in Int
          /\ \A t \in Live : stmts[t].period \in Periods \cup {NoPeriod}
      BY DEF CommissionAssumption, NoPeriod, TypeOK, Statement, Live, Present
    <3>3. Overlaps(stmts[i.stmt].period, stmts[j.stmt].period)
      BY <2>1, <3>1, <3>2 DEF InPeriod, Overlaps
    <3> QED BY <3>3 DEF LivePeriodsDisjoint
  <2> QED BY <2>1, <2>2, <2>3, <2>4 DEF Item
<1> QED BY <1>2, <1>3, TypeCorrect, LinesInvariant, LivePeriodsDisjointAlways, PTL

-----------------------------------------------------------------------------
(* Commission implements PeriodLedger.  LedgerInv is all it needs: the live *)
(* statement of a period is one, and requests know what they can rely on.   *)

\* The statement that counts is the live one.
CountsLive ==
  \A per \in Periods :
    /\ (\A s \in Live : stmts[s].period # per) => Counts[per] = [no |-> NoStmt, status |-> "none"]
    /\ \A s \in Live :
         stmts[s].period = per => Counts[per] = [no |-> s, status |-> stmts[s].status]

LEMMA CountsIsLive == LiveUnique => CountsLive
<1> SUFFICES ASSUME LiveUnique, NEW per \in Periods
             PROVE  /\ (\A s \in Live : stmts[s].period # per) =>
                         Counts[per] = [no |-> NoStmt, status |-> "none"]
                    /\ \A s \in Live : stmts[s].period = per =>
                         Counts[per] = [no |-> s, status |-> stmts[s].status]
  BY DEF CountsLive
<1>1. CASE LiveOf(per) = {}
  BY <1>1 DEF Counts, LiveOf
<1>2. ASSUME NEW s \in Live, stmts[s].period = per
      PROVE  Counts[per] = [no |-> s, status |-> stmts[s].status]
  <2>1. LiveOf(per) = {s}
    BY <1>2 DEF LiveOf, LiveUnique
  <2>2. (CHOOSE t \in LiveOf(per) : TRUE) = s
    BY <2>1
  <2> QED BY <2>1, <2>2 DEF Counts
<1> QED BY <1>1, <1>2 DEF LiveOf

LEMMA CountsAt ==
  ASSUME NEW s \in Live, stmts[s].period \in Periods, CountsLive
  PROVE  Counts[stmts[s].period] = [no |-> s, status |-> stmts[s].status]
BY DEF CountsLive

LEMMA CountsThen ==
  ASSUME NEW s \in Live', stmts'[s].period \in Periods, CountsLive'
  PROVE  Counts'[stmts'[s].period] = [no |-> s, status |-> stmts'[s].status]
BY DEF CountsLive

\* Where one period's statement changes, the ledger changes there.
LEMMA CountsChange ==
  ASSUME NEW per \in Periods, NEW what, Counts'[per] = what,
         \A q \in Periods \ {per} : Counts'[q] = Counts[q]
  PROVE  Ledger!Becomes(per, what)
BY DEF Counts, Ledger!Becomes

\* A status is written, of a statement that counts or of one that was superseded.
LEMMA StatusInLedger ==
  ASSUME TypeOK, LedgerInv, LiveUnique', NEW s \in Present, NEW n \in Closed,
         stmts' = [stmts EXCEPT ![s].status = n],
         n = "paid" => stmts[s].status \in Closed
  PROVE  [Ledger!LedgerNext]_Counts
<1>1. \A t \in StmtIds :
        /\ stmts'[t].period = stmts[t].period
        /\ stmts'[t].supersededBy = stmts[t].supersededBy
        /\ stmts'[t].status = IF t = s THEN n ELSE stmts[t].status
  BY DEF TypeOK, Statement, Present
<1>2. Live' = Live /\ Live \subseteq StmtIds
  BY <1>1 DEF Present, Live, Closed
<1>3. CountsLive /\ CountsLive'
  <2>1. LiveUnique' => CountsLive'
    BY CountsIsLive, PTL
  <2> QED BY <2>1, CountsIsLive DEF LedgerInv
<1>4. ASSUME NEW per \in Periods, s \in Live => stmts[s].period # per
      PROVE  Counts'[per] = Counts[per]
  <2>1. CASE \A t \in Live : stmts[t].period # per
    <3>1. \A t \in Live' : stmts'[t].period # per
      BY <2>1, <1>1, <1>2
    <3> QED BY <2>1, <3>1, <1>3 DEF CountsLive
  <2>2. CASE \E t \in Live : stmts[t].period = per
    <3>1. PICK t \in Live : stmts[t].period = per
      BY <2>2
    <3>2. t # s
      BY <3>1, <1>4
    <3>3. /\ t \in Live' /\ stmts'[t].period = per
          /\ stmts'[t].status = stmts[t].status
      BY <3>1, <3>2, <1>1, <1>2
    <3>4. Counts[per] = [no |-> t, status |-> stmts[t].status]
      BY <3>1, <1>3, CountsAt
    <3>5. Counts'[per] = [no |-> t, status |-> stmts'[t].status]
      BY <3>3, <1>3, CountsThen
    <3> QED BY <3>3, <3>4, <3>5
  <2> QED BY <2>1, <2>2
<1>5. CASE \A per \in Periods : s \in Live => stmts[s].period # per
  BY <1>4, <1>5 DEF Counts
<1>6. ASSUME NEW per \in Periods, s \in Live, stmts[s].period = per
      PROVE  [Ledger!LedgerNext]_Counts
  <2>1. \A q \in Periods \ {per} : Counts'[q] = Counts[q]
    BY <1>4, <1>6
  <2>2. /\ s \in Live' /\ stmts'[s].period = per /\ stmts'[s].status = n
    BY <1>1, <1>2, <1>6
  <2>3. /\ Counts[per] = [no |-> s, status |-> stmts[s].status]
        /\ Counts'[per] = [no |-> s, status |-> n]
    BY <2>2, <1>3, <1>6 DEF CountsLive
  <2>4. Ledger!Becomes(per, [Counts[per] EXCEPT !.status = n])
    BY <2>1, <2>3, CountsChange
  <2>5. stmts[s].status \in {"draft"} \cup Closed
    BY DEF TypeOK, Statement, Present
  <2>6. CASE stmts[s].status = n
    <3>1. Counts'[per] = Counts[per]
      BY <2>3, <2>6
    <3> QED BY <2>1, <3>1 DEF Counts
  <2>7. CASE n = "approved" /\ stmts[s].status # n
    BY <2>3, <2>4, <2>5, <2>7
       DEF Closed, Ledger!LedgerNext, Ledger!Approve, Ledger!ApproveAgain
  <2>8. CASE n = "paid" /\ stmts[s].status # n
    BY <2>3, <2>4, <2>5, <2>8 DEF Closed, Ledger!LedgerNext, Ledger!Pay
  <2> QED BY <2>6, <2>7, <2>8 DEF Closed
<1> QED BY <1>5, <1>6

\* A new draft takes the slot that was free, or that of the closed statement it was made for.
LEMMA CreateInLedger ==
  ASSUME TypeOK, LedgerInv, LiveUnique', NEW p \in Procs, CalcCreate(p)
  PROVE  Ledger!LedgerNext
<1> DEFINE r == req[p]
           per == r.period
<1>1. PICK s \in StmtIds :
        /\ NextId(s)
        /\ stmts' = [t \in StmtIds |->
             IF t = s THEN NewDraft(p, s)
             ELSE IF t = r.target THEN [stmts[t] EXCEPT !.supersededBy = s]
             ELSE stmts[t]]
  BY DEF CalcCreate
<1>2. /\ r \in CalcRequest /\ per \in Periods
      /\ LiveOf(per) \subseteq {r.target} /\ RequestHolds(r)
  BY CalcShape DEF CalcCreate, CalcRequest, SlotFree, LedgerInv, RequestsHold
<1>3. /\ s \notin Present /\ s # NoStmt
      /\ \A t \in Present : t < s
  BY <1>1 DEF NextId, StmtIds, Present, NoStmt
<1>4. /\ \A t \in Live : stmts[t].period = per => t = r.target
      /\ r.target # NoStmt =>
           /\ r.target \in Live
           /\ stmts[r.target].period = per
           /\ stmts[r.target].status \in Closed
  BY <1>2 DEF LedgerInv, LiveExists, LiveOf, Live, Present, RequestHolds, CalcCreate
<1>5. \A t \in StmtIds :
        /\ t = s => stmts'[t] = [status |-> "draft", period |-> per, supersededBy |-> NoStmt]
        /\ t # s => /\ stmts'[t].status = stmts[t].status
                    /\ stmts'[t].period = stmts[t].period
                    /\ stmts'[t].supersededBy =
                         IF t = r.target THEN s ELSE stmts[t].supersededBy
  BY <1>1 DEF NewDraft, TypeOK, Statement
<1>6. CountsLive /\ CountsLive'
  <2>1. LiveUnique' => CountsLive'
    BY CountsIsLive, PTL
  <2> QED BY <2>1, CountsIsLive DEF LedgerInv
<1>7. Live' = (Live \ {r.target}) \cup {s} /\ Live \subseteq Present /\ Present \subseteq StmtIds
  BY <1>3, <1>5 DEF Live, Present
<1>8. Counts'[per] = [no |-> s, status |-> "draft"]
  <2>1. s \in Live' /\ stmts'[s].period = per /\ stmts'[s].status = "draft"
    BY <1>5, <1>7
  <2> QED BY <2>1, <1>2, <1>6 DEF CountsLive
<1>9. ASSUME NEW q \in Periods, q # per PROVE Counts'[q] = Counts[q]
  <2>1. CASE \A t \in Live : stmts[t].period # q
    <3>1. \A t \in Live' : stmts'[t].period # q
      BY <2>1, <1>3, <1>5, <1>7, <1>9
    <3> QED BY <2>1, <3>1, <1>6 DEF CountsLive
  <2>2. CASE \E t \in Live : stmts[t].period = q
    <3>1. PICK t \in Live : stmts[t].period = q
      BY <2>2
    <3>2. t \in Present /\ t \in StmtIds
      BY <3>1, <1>7
    <3>3. t # s /\ t # NoStmt
      BY <3>2, <1>3 DEF StmtIds, NoStmt
    <3>4. t # r.target
      BY <3>1, <3>3, <1>4, <1>9
    <3>5. t \in Live' /\ stmts'[t].period = q /\ stmts'[t].status = stmts[t].status
      BY <3>2, <3>1, <3>3, <3>4, <1>5, <1>7
    <3>6. Counts[q] = [no |-> t, status |-> stmts[t].status]
      BY <3>1, <1>6, CountsAt
    <3>7. Counts'[q] = [no |-> t, status |-> stmts'[t].status]
      BY <3>5, <1>6, CountsThen
    <3> QED BY <3>5, <3>6, <3>7
  <2> QED BY <2>1, <2>2
<1>10. Ledger!Becomes(per, Ledger!Draft(s))
  BY <1>2, <1>8, <1>9, CountsChange DEF Ledger!Draft
<1>11. Ledger!Newest(s)
  <2> SUFFICES ASSUME NEW q \in Periods PROVE Counts[q].no < s
    BY DEF Ledger!Newest
  <2>1. CASE \A t \in Live : stmts[t].period # q
    BY <2>1, <1>6 DEF CountsLive, StmtIds, NoStmt
  <2>2. CASE \E t \in Live : stmts[t].period = q
    <3>1. PICK t \in Live : stmts[t].period = q
      BY <2>2
    <3>2. Counts[q] = [no |-> t, status |-> stmts[t].status]
      BY <3>1, <1>6, CountsAt
    <3> QED BY <3>2, <1>3, <1>7
  <2> QED BY <2>1, <2>2
<1>12. CASE r.target = NoStmt
  <2>1. \A t \in Live : stmts[t].period # per
    BY <1>4, <1>7, <1>12 DEF StmtIds, NoStmt
  <2>2. Counts[per] = Ledger!Nothing
    BY <2>1, <1>2, <1>6 DEF CountsLive, Ledger!Nothing, NoStmt
  <2> QED BY <2>2, <1>2, <1>10, <1>11 DEF Ledger!LedgerNext, Ledger!Open
<1>13. CASE r.target # NoStmt
  <2>1. Counts[per] = [no |-> r.target, status |-> stmts[r.target].status]
    BY <1>2, <1>4, <1>6, <1>13, CountsAt
  <2> QED BY <2>1, <1>2, <1>4, <1>10, <1>11, <1>13
          DEF Closed, Ledger!LedgerNext, Ledger!Recalculate
<1> QED BY <1>12, <1>13

\* What does not write a statement is nothing to the ledger.
LEMMA LedgerImplementedStep ==
  ASSUME TypeOK, LedgerInv, LedgerInv', [Next]_vars
  PROVE  [Ledger!LedgerNext]_Counts
<1>1. CASE UNCHANGED stmts
  BY <1>1 DEF Counts, LiveOf, Live, Present
<1>2. ASSUME NEW p \in Procs, CalcCreate(p) PROVE [Ledger!LedgerNext]_Counts
  BY <1>2, CreateInLedger DEF LedgerInv
<1>3. ASSUME NEW p \in Procs, ApproveCommit(p) PROVE [Ledger!LedgerNext]_Counts
  <2>1. req[p].stmt \in Present
    BY <1>3 DEF ApproveCommit, LedgerInv, RequestsHold, RequestHolds
  <2> QED BY <1>3, <2>1, StatusInLedger DEF ApproveCommit, Closed, LedgerInv
<1>4. ASSUME NEW p \in Procs, PayCommit(p) PROVE [Ledger!LedgerNext]_Counts
  <2>1. req[p].stmt \in Present /\ stmts[req[p].stmt].status \in Closed
    BY <1>4 DEF PayCommit, PaidRow, LedgerInv, RequestsHold, RequestHolds
  <2> QED BY <1>4, <2>1, StatusInLedger DEF PayCommit, PaidRow, Closed, LedgerInv
<1> QED
  BY <1>1, <1>2, <1>3, <1>4
     DEF Next, vars, PaymentArrives, CalcStart, CalcReadCorrections, CalcFindExisting,
         CalcDeleteLines, CalcRewrite, CalcConflict, CalcFallback, ApproveRead, PayRead,
         DetectRead, DetectCreate, ResolveRead, ResolveCommit, Crash

\* Whatever requests race, and whatever they have read before, the statement that counts for
\* a period goes the way of PeriodLedger (statement.ts, lifecycle.ts), for any periods,
\* payments, requests and number of recalculations.
THEOREM LedgerKeptAlways == Spec => KeepsLedger
<1>1. Init => Ledger!LedgerInit
  BY DEF Init, Ledger!LedgerInit, Ledger!Nothing, Counts, LiveOf, Live, Present, Absent, NoStmt
<1>2. TypeOK /\ LedgerInv /\ LedgerInv' /\ [Next]_vars => [Ledger!LedgerNext]_Counts
  BY LedgerImplementedStep
<1> QED BY <1>1, <1>2, TypeCorrect, LedgerInvariant, PTL DEF Spec, KeepsLedger, Ledger!LedgerSpec
===============================================================================

--------------------------- MODULE PushDocumentProofs ---------------------------
(***************************************************************************)
(* Theorems about PushDocument, for any number of requests, jobs, attempts *)
(* and versions and any number of breakdowns: the mark "pushed" is true,   *)
(* 1C never goes back to an older version, and a pending version is        *)
(* carried by somebody.                                                    *)
(***************************************************************************)
EXTENDS PushDocument, TLAPS

USE DocumentAssumption DEF DocumentAssumption, None, Lost, Versions

-----------------------------------------------------------------------------
(* Types.                                                                   *)

ReqStates == {"idle", "asked", "read", "claimed", "undo"}
JobStates == {"none", "waiting", "loaded", "answered", "logging", "failing"}
Orphans == {"no", "reported", "stranded", "revived"}

LEMMA NothingType == NoReq \in Requests /\ NoJob \in JobRows /\ NoCheck \in Checks
BY DEF NoReq, NoJob, NoCheck, Requests, JobRows, Checks, Statuses

\* What a step writes into a request, a job or the row of a version keeps their types.
LEMMA ReqType ==
  ASSUME TypeOK, NEW c \in Clerks
  PROVE  /\ \A st \in ReqStates : Goes(c, st) => req' \in [Clerks -> Requests]
         /\ Returns(c) => req' \in [Clerks -> Requests]
<1>1. req \in [Clerks -> Requests] /\ req[c] \in Requests
  BY DEF TypeOK
<1>2. ASSUME NEW st \in ReqStates, Goes(c, st) PROVE req' \in [Clerks -> Requests]
  <2>1. [req[c] EXCEPT !.st = st] \in Requests
    BY <1>1 DEF Requests, ReqStates
  <2> QED BY <1>1, <1>2, <2>1 DEF Goes
<1>3. ASSUME Returns(c) PROVE req' \in [Clerks -> Requests]
  BY <1>1, <1>3, NothingType DEF Returns
<1> QED BY <1>2, <1>3

LEMMA JobType ==
  ASSUME TypeOK, NEW j \in Jobs
  PROVE  /\ \A st \in JobStates : JobGoes(j, st) => job' \in [Jobs -> JobRows]
         /\ JobEnds(j) => job' \in [Jobs -> JobRows]
<1>1. job \in [Jobs -> JobRows] /\ job[j] \in JobRows
  BY DEF TypeOK
<1>2. ASSUME NEW st \in JobStates, JobGoes(j, st) PROVE job' \in [Jobs -> JobRows]
  <2>1. [job[j] EXCEPT !.st = st] \in JobRows
    BY <1>1 DEF JobRows, JobStates
  <2> QED BY <1>1, <1>2, <2>1 DEF JobGoes
<1>3. ASSUME JobEnds(j) PROVE job' \in [Jobs -> JobRows]
  BY <1>1, <1>3, NothingType DEF JobEnds
<1> QED BY <1>2, <1>3

RowType == status \in [Versions -> Statuses] /\ orphan \in [Versions -> Orphans]

LEMMA RowSteps ==
  ASSUME TypeOK, NEW v \in Versions
  PROVE  /\ RowType
         /\ \A s \in Statuses : Stores(v, s) => RowType'
         /\ \A why \in Orphans : Leaves(v, why) => RowType'
         /\ Kept => RowType'
<1>1. RowType
  BY DEF TypeOK, RowType, Orphans
<1>2. ASSUME NEW s \in Statuses, Stores(v, s) PROVE RowType'
  BY <1>1, <1>2 DEF Stores, RowType, Orphans
<1>3. ASSUME NEW why \in Orphans, Leaves(v, why) PROVE RowType'
  BY <1>1, <1>3 DEF Leaves, RowType, Orphans
<1>4. Kept => RowType'
  BY <1>1 DEF Kept, RowType
<1> QED BY <1>1, <1>2, <1>3, <1>4

-----------------------------------------------------------------------------
(* Whose version is whose.  A request or a job is about a version that was  *)
(* issued; one job runs at a time, and it is not about a version older than *)
(* the one 1C holds.                                                        *)

DocInv ==
  /\ oneC <= issued
  /\ check.st # "idle" => check.doc \in 1..issued
  /\ \A c \in Clerks :
       /\ req[c].st # "idle" => req[c].doc \in 1..issued
       /\ req[c].st \in {"idle", "asked"} => req[c].was = "none"
  /\ \A j \in Jobs : job[j].st # "none" => job[j].doc \in 1..issued

RunInv ==
  /\ \A i, j \in Jobs : Running(i) /\ Running(j) => i = j
  /\ \A j \in Jobs : Running(j) => oneC <= job[j].doc

\* The acting version is, or was when a request looked, marked as pushed, or is about to be.
KnownThere ==
  /\ issued > 0
  /\ \/ status[issued] = "pushed"
     \/ \E c \in Clerks : req[c].doc = issued /\ req[c].was = "pushed"
     \/ \E j \in Jobs : job[j].doc = issued /\ job[j].st = "answered"

\* Then 1C has it, or has lost it, and no job of an older version is under way.
ThereInv ==
  KnownThere => /\ oneC \in {issued, Lost}
                /\ \A j \in Jobs : Running(j) => job[j].doc = issued

\* Who carries a pending version; a job that only has to write its log does not.
InHand(v) ==
  \/ \E c \in Clerks : req[c].doc = v /\ req[c].st \in {"claimed", "undo"}
  \/ \E j \in Jobs : job[j].doc = v /\ job[j].st \notin {"none", "logging"}
  \/ orphan[v] # "no"

PendingInv == \A v \in Versions : status[v] = "pending" => InHand(v)

PushInv == TypeOK /\ DocInv /\ RunInv /\ ThereInv /\ PendingInv

\* What the helpers of a step write, field by field.
LEMMA ReqWrites ==
  ASSUME TypeOK, NEW c \in Clerks
  PROVE  /\ \A st \in ReqStates : Goes(c, st) =>
              \A d \in Clerks : /\ req'[d].doc = req[d].doc /\ req'[d].was = req[d].was
                                /\ req'[d].st = IF d = c THEN st ELSE req[d].st
         /\ Returns(c) =>
              /\ req'[c].st = "idle" /\ req'[c].doc = 0 /\ req'[c].was = "none"
              /\ \A d \in Clerks \ {c} : req'[d] = req[d]
<1>1. req \in [Clerks -> Requests]
  BY DEF TypeOK
<1> QED BY <1>1 DEF Goes, Returns, NoReq, Requests

LEMMA JobWrites ==
  ASSUME TypeOK, NEW j \in Jobs
  PROVE  /\ \A st \in JobStates : JobGoes(j, st) =>
              \A i \in Jobs : /\ job'[i].doc = job[i].doc
                              /\ job'[i].st = IF i = j THEN st ELSE job[i].st
         /\ JobEnds(j) =>
              /\ job'[j].st = "none" /\ job'[j].doc = 0
              /\ \A i \in Jobs \ {j} : job'[i] = job[i]
<1>1. job \in [Jobs -> JobRows]
  BY DEF TypeOK
<1> QED BY <1>1 DEF JobGoes, JobEnds, NoJob, JobRows

LEMMA RowWrites ==
  ASSUME TypeOK, NEW v \in Versions
  PROVE  /\ \A s \in Statuses : Stores(v, s) =>
              /\ status'[v] = s /\ orphan'[v] = "no"
              /\ \A w \in Versions \ {v} : status'[w] = status[w] /\ orphan'[w] = orphan[w]
         /\ \A why \in Orphans : Leaves(v, why) =>
              /\ status' = status
              /\ status[v] = "pending" => orphan'[v] = why
              /\ \A w \in Versions \ {v} : orphan'[w] = orphan[w]
BY DEF TypeOK, Stores, Leaves

-----------------------------------------------------------------------------
(* Requests.                                                                *)

\* A request begins, or looks at the row of its version.
LEMMA RequestLooks ==
  ASSUME PushInv, NEW c \in Clerks, ReadStatus(c) \/ \E v \in Versions : PressButton(c, v)
  PROVE  PushInv'
<1> USE DEF PushInv
<1>1. CASE ReadStatus(c)
  <2>1. req[c].doc \in 1..issued /\ req[c].doc \in Versions
    BY <1>1 DEF ReadStatus, DocInv, TypeOK, Requests
  <2>2. CASE Superseded(req[c].doc)
    <3>1. TypeOK'
      BY <1>1, <2>2, ReqType DEF ReadStatus, TypeOK, rows, bounds
    <3>2. DocInv' /\ RunInv' /\ ThereInv' /\ PendingInv'
      BY <1>1, <2>2, ReqWrites
         DEF ReadStatus, DocInv, RunInv, ThereInv, PendingInv, KnownThere, InHand, Running, rows,
             bounds
    <3> QED BY <3>1, <3>2
  <2>3. CASE ~Superseded(req[c].doc)
    <3>1. req' = [req EXCEPT ![c].st = "read", ![c].was = status[req[c].doc]]
      BY <1>1, <2>3 DEF ReadStatus
    <3>2. TypeOK'
      <4>1. [req[c] EXCEPT !.st = "read", !.was = status[req[c].doc]] \in Requests
        BY <2>1 DEF TypeOK, Requests
      <4> QED BY <1>1, <3>1, <4>1 DEF ReadStatus, TypeOK, rows, bounds
    <3>3. /\ \A d \in Clerks \ {c} : req'[d] = req[d]
          /\ req'[c].st = "read" /\ req'[c].doc = req[c].doc /\ req'[c].was = status[req[c].doc]
      BY <3>1 DEF TypeOK, Requests
    <3>4. DocInv' /\ RunInv' /\ ThereInv' /\ PendingInv'
      BY <1>1, <2>1, <3>3
         DEF ReadStatus, DocInv, RunInv, ThereInv, PendingInv, KnownThere, InHand, Running, rows,
             bounds
    <3> QED BY <3>2, <3>4
  <2> QED BY <2>2, <2>3
<1>2. ASSUME NEW v \in Versions, PressButton(c, v) PROVE PushInv'
  <2>1. req' = [req EXCEPT ![c] = [st |-> "asked", doc |-> v, was |-> "none"]]
    BY <1>2 DEF PressButton
  <2>2. TypeOK'
    <3>1. [st |-> "asked", doc |-> v, was |-> "none"] \in Requests
      BY DEF Requests, Statuses
    <3>2. asks' \in 0..MaxAsks
      BY <1>2 DEF PressButton, TypeOK
    <3> QED BY <1>2, <2>1, <3>1, <3>2 DEF PressButton, TypeOK, rows
  <2>3. /\ \A d \in Clerks \ {c} : req'[d] = req[d]
        /\ req'[c].st = "asked" /\ req'[c].doc = v /\ req'[c].was = "none"
    BY <2>1 DEF TypeOK
  <2>4. DocInv' /\ RunInv' /\ ThereInv' /\ PendingInv'
    BY <1>2, <2>3
       DEF PressButton, DocInv, RunInv, ThereInv, PendingInv, KnownThere, InHand, Running, rows
  <2> QED BY <2>2, <2>4
<1> QED BY <1>1, <1>2

\* A new version has no request, job or mark yet.
LEMMA IssueInv ==
  ASSUME PushInv, NEW c \in Clerks, Issue(c)
  PROVE  PushInv'
<1> USE DEF PushInv
<1>0. issued' = issued + 1 /\ issued + 1 \in Versions /\ issued \in Nat
  BY DEF Issue, TypeOK
<1>1. Stores(issued + 1, "none") /\ "none" \in Statuses
  BY DEF Issue, NewRow, Statuses
<1>2. /\ \A d \in Clerks \ {c} : req'[d] = req[d]
      /\ \/ req' = req
         \/ req'[c].st = "asked" /\ req'[c].doc = issued + 1 /\ req'[c].was = "none"
  BY DEF Issue, TypeOK
<1>3. TypeOK'
  <2>1. [st |-> "asked", doc |-> issued + 1, was |-> "none"] \in Requests
    BY <1>0 DEF Requests, Statuses
  <2>2. req' \in [Clerks -> Requests]
    BY <2>1 DEF Issue, TypeOK
  <2>3. RowType'
    BY <1>0, <1>1, RowSteps
  <2> QED BY <1>0, <2>2, <2>3 DEF Issue, TypeOK, RowType, Orphans, bounds
<1>4. DocInv'
  BY <1>0, <1>2 DEF Issue, DocInv, TypeOK, bounds
<1>5. RunInv'
  BY DEF Issue, RunInv, Running, bounds
<1>6. ThereInv'
  <2>1. status'[issued + 1] = "none"
    BY <1>0, <1>1, RowWrites
  <2>2. \A d \in Clerks : req'[d].doc = issued + 1 => req'[d].was = "none"
    BY <1>0, <1>2 DEF DocInv, TypeOK, Requests
  <2>3. \A j \in Jobs : job[j].doc # issued + 1 \/ job[j].st = "none"
    BY <1>0 DEF DocInv
  <2> QED BY <1>0, <2>1, <2>2, <2>3 DEF Issue, ThereInv, KnownThere
<1>7. PendingInv'
  BY <1>0, <1>1, <1>2, RowWrites DEF Issue, PendingInv, InHand, bounds
<1> QED BY <1>3, <1>4, <1>5, <1>6, <1>7

\* The row is claimed, its job is queued, or the claim is taken back.
LEMMA RequestGoesOn ==
  ASSUME PushInv, NEW c \in Clerks,
         ClaimPending(c) \/ AddFails(c) \/ RestoreStatus(c) \/ RequestDies(c)
  PROVE  PushInv'
<1> DEFINE v == req[c].doc
<1> USE DEF PushInv
<1>0. v \in 1..issued /\ v \in Versions /\ req[c].was \in Statuses /\ issued \in Nat
  BY DEF ClaimPending, AddFails, RestoreStatus, RequestDies, DocInv, TypeOK, Requests
<1>1. CASE ClaimPending(c) /\ status[v] = "pending"
  <2>1. TypeOK'
    BY <1>1, ReqType DEF ClaimPending, TypeOK, Kept, bounds
  <2>2. DocInv' /\ RunInv' /\ ThereInv' /\ PendingInv'
    BY <1>1, ReqWrites
       DEF ClaimPending, Kept, DocInv, RunInv, ThereInv, PendingInv, KnownThere, InHand, Running,
           bounds
  <2> QED BY <2>1, <2>2
<1>2. CASE ClaimPending(c) /\ status[v] # "pending"
  <2>1. /\ Stores(v, "pending") /\ Goes(c, "claimed") /\ req[c].st = "read"
        /\ UNCHANGED <<issued, oneC, job, check, bounds>>
        /\ "pending" \in Statuses /\ "claimed" \in ReqStates
    BY <1>2 DEF ClaimPending, Statuses, ReqStates
  <2>2. TypeOK'
    BY <1>0, <2>1, ReqType, RowSteps DEF TypeOK, RowType, Orphans, bounds
  <2>3. DocInv' /\ RunInv'
    BY <2>1, ReqWrites DEF DocInv, RunInv, Running
  <2>4. /\ status'[v] = "pending" /\ \A w \in Versions \ {v} : status'[w] = status[w]
        /\ \A d \in Clerks : req'[d].doc = req[d].doc /\ req'[d].was = req[d].was
    BY <1>0, <2>1, ReqWrites, RowWrites
  <2>5. KnownThere' => KnownThere
    BY <1>0, <2>1, <2>4 DEF KnownThere, TypeOK
  <2>6. ThereInv'
    BY <2>1, <2>5 DEF ThereInv, Running
  <2>7. PendingInv'
    BY <1>0, <2>1, ReqWrites, RowWrites DEF PendingInv, InHand
  <2> QED BY <2>2, <2>3, <2>6, <2>7
<1>3. CASE AddFails(c)
  <2>1. /\ Goes(c, "undo") /\ Trouble /\ req[c].st = "claimed" /\ "undo" \in ReqStates
        /\ UNCHANGED <<rows, oneC, job, check, asks, orphan>>
    BY <1>3 DEF AddFails, ReqStates
  <2>2. TypeOK'
    BY <2>1, ReqType DEF TypeOK, Trouble, rows
  <2>3. DocInv' /\ RunInv' /\ ThereInv' /\ PendingInv'
    BY <2>1, ReqWrites
       DEF DocInv, RunInv, ThereInv, PendingInv, KnownThere, InHand, Running, rows
  <2> QED BY <2>2, <2>3
<1>4. CASE RestoreStatus(c)
  <2>1. /\ Returns(c) /\ UNCHANGED <<issued, oneC, job, check, bounds>>
        /\ status' = [status EXCEPT ![v] = req[c].was]
        /\ orphan' = [orphan EXCEPT ![v] = IF req[c].was = "pending" THEN "revived" ELSE "no"]
    BY <1>4 DEF RestoreStatus
  <2>2. TypeOK'
    BY <1>0, <2>1, ReqType DEF TypeOK, bounds
  <2>3. /\ status'[v] = req[c].was
        /\ req[c].was = "pending" => orphan'[v] = "revived"
        /\ \A w \in Versions \ {v} : status'[w] = status[w] /\ orphan'[w] = orphan[w]
    BY <1>0, <2>1 DEF TypeOK
  <2>4. DocInv' /\ RunInv'
    BY <2>1, ReqWrites DEF DocInv, RunInv, Running
  <2>5. ThereInv'
    BY <1>0, <2>1, <2>3, ReqWrites DEF ThereInv, KnownThere, Running, TypeOK
  <2>6. PendingInv'
    <3> SUFFICES ASSUME NEW w \in Versions, status'[w] = "pending"
                 PROVE  InHand(w)'
      BY DEF PendingInv
    <3>1. CASE w = v
      BY <2>3, <3>1 DEF InHand
    <3>2. CASE w # v
      <4>1. InHand(w) /\ orphan'[w] = orphan[w]
        BY <2>3, <3>2 DEF PendingInv
      <4> QED BY <2>1, <3>2, <4>1, ReqWrites DEF InHand
    <3> QED BY <3>1, <3>2
  <2> QED BY <2>2, <2>4, <2>5, <2>6
<1>5. CASE RequestDies(c)
  <2>1. /\ Returns(c) /\ Leaves(v, "stranded") /\ Trouble /\ "stranded" \in Orphans
        /\ UNCHANGED <<issued, oneC, job, check, asks>>
    BY <1>5 DEF RequestDies, Orphans
  <2>2. TypeOK'
    BY <1>0, <2>1, ReqType, RowSteps DEF TypeOK, RowType, Orphans, Trouble
  <2>3. DocInv' /\ RunInv'
    BY <2>1, ReqWrites DEF DocInv, RunInv, Running
  <2>4. ThereInv'
    BY <1>0, <2>1, ReqWrites, RowWrites DEF ThereInv, KnownThere, Running
  <2>5. PendingInv'
    BY <1>0, <2>1, ReqWrites, RowWrites DEF PendingInv, InHand
  <2> QED BY <2>2, <2>3, <2>4, <2>5
<1> QED BY <1>1, <1>2, <1>3, <1>4, <1>5

\* The job takes over from the request.
LEMMA AddJobInv ==
  ASSUME PushInv, NEW c \in Clerks, AddJob(c)
  PROVE  PushInv'
<1> DEFINE v == req[c].doc
<1> USE DEF PushInv
<1>0. v \in 1..issued /\ v \in Versions /\ issued \in Nat /\ req[c].st = "claimed"
  BY DEF AddJob, DocInv, TypeOK, Requests
<1>1. PICK j \in Jobs : /\ job[j].st = "none"
                        /\ job' = [job EXCEPT ![j] = [st |-> "waiting", doc |-> v, attempts |-> 0]]
  BY Zenon DEF AddJob
<1>2. Returns(c) /\ UNCHANGED <<rows, oneC, check, bounds, orphan>>
  BY DEF AddJob
<1>3. /\ job'[j].st = "waiting" /\ job'[j].doc = v
      /\ \A i \in Jobs \ {j} : job'[i] = job[i]
  BY <1>1 DEF TypeOK
<1>4. TypeOK'
  <2>1. [st |-> "waiting", doc |-> v, attempts |-> 0] \in JobRows
    BY <1>0 DEF JobRows
  <2> QED BY <1>1, <1>2, <2>1, ReqType DEF TypeOK, rows, bounds
<1>5. DocInv' /\ RunInv' /\ ThereInv'
  BY <1>0, <1>2, <1>3, ReqWrites DEF DocInv, RunInv, ThereInv, KnownThere, Running, rows
<1>6. PendingInv'
  BY <1>0, <1>1, <1>2, <1>3, ReqWrites DEF PendingInv, InHand, rows
<1> QED BY <1>4, <1>5, <1>6

LEMMA ExportInv ==
  ASSUME PushInv, NEW v \in Versions, ExportFile(v)
  PROVE  PushInv'
<1> USE DEF PushInv
<1>1. Stores(v, "exported_file") /\ "exported_file" \in Statuses
  BY DEF ExportFile, Statuses
<1>2. TypeOK'
  BY <1>1, RowSteps DEF ExportFile, TypeOK, RowType, Orphans, bounds
<1>3. DocInv' /\ RunInv'
  BY DEF ExportFile, DocInv, RunInv, Running
<1>4. ThereInv' /\ PendingInv'
  BY <1>1, RowWrites DEF ExportFile, ThereInv, PendingInv, KnownThere, InHand, Running, TypeOK
<1> QED BY <1>2, <1>3, <1>4

-----------------------------------------------------------------------------
(* A job.                                                                   *)

LEMMA LoadInv ==
  ASSUME PushInv, NEW j \in Jobs, LoadDocument(j)
  PROVE  PushInv'
<1> DEFINE v == job[j].doc
<1> USE DEF PushInv
<1>0. /\ v \in 1..issued /\ v \in Versions /\ issued \in Nat /\ oneC \in Int
      /\ job[j].st = "waiting" /\ ConsumerFree
      /\ UNCHANGED <<issued, oneC, req, check, bounds>>
  BY DEF LoadDocument, DocInv, TypeOK, JobRows
<1>1. CASE Superseded(v) /\ JobEnds(j) /\ RefuseUntouched(v)
  <2>1. CASE status[v] = "pending"
    <3>1. Stores(v, "none") /\ "none" \in Statuses /\ v < issued
      BY <1>1, <2>1 DEF RefuseUntouched, Superseded, Statuses
    <3>2. TypeOK'
      BY <1>0, <1>1, <3>1, RowSteps, JobType DEF TypeOK, RowType, Orphans, bounds
    <3>3. DocInv' /\ RunInv'
      BY <1>0, <1>1, JobWrites DEF DocInv, RunInv, Running
    <3>4. ThereInv'
      BY <1>0, <1>1, <3>1, JobWrites, RowWrites DEF ThereInv, KnownThere, Running, TypeOK
    <3>5. PendingInv'
      BY <1>0, <1>1, <3>1, JobWrites, RowWrites DEF PendingInv, InHand
    <3> QED BY <3>2, <3>3, <3>4, <3>5
  <2>2. CASE status[v] # "pending"
    <3>1. Kept
      BY <1>1, <2>2 DEF RefuseUntouched
    <3>2. TypeOK'
      BY <1>0, <1>1, <3>1, JobType DEF TypeOK, Kept, bounds
    <3>3. DocInv' /\ RunInv' /\ ThereInv'
      BY <1>0, <1>1, <3>1, JobWrites DEF DocInv, RunInv, ThereInv, KnownThere, Running, Kept
    <3>4. PendingInv'
      BY <1>0, <1>1, <2>2, <3>1, JobWrites DEF PendingInv, InHand, Kept
    <3> QED BY <3>2, <3>3, <3>4
  <2> QED BY <2>1, <2>2
<1>2. CASE ~Superseded(v) /\ status[v] = "pushed" /\ JobEnds(j) /\ Kept
  <2>1. TypeOK'
    BY <1>0, <1>2, JobType DEF TypeOK, Kept, bounds
  <2>2. DocInv' /\ RunInv' /\ ThereInv'
    BY <1>0, <1>2, JobWrites DEF DocInv, RunInv, ThereInv, KnownThere, Running, Kept
  <2>3. PendingInv'
    BY <1>0, <1>2, JobWrites DEF PendingInv, InHand, Kept
  <2> QED BY <2>1, <2>2, <2>3
<1>3. CASE ~Superseded(v) /\ status[v] # "pushed" /\ JobGoes(j, "loaded") /\ Kept
  <2>1. v = issued /\ "loaded" \in JobStates
    BY <1>0, <1>3 DEF Superseded, JobStates
  <2>2. TypeOK'
    BY <1>0, <1>3, <2>1, JobType DEF TypeOK, Kept, bounds
  <2>3. DocInv'
    BY <1>0, <1>3, <2>1, JobWrites DEF DocInv
  <2>4. RunInv'
    BY <1>0, <1>3, <2>1, JobWrites DEF RunInv, DocInv, Running, ConsumerFree
  <2>5. ThereInv'
    BY <1>0, <1>3, <2>1, JobWrites DEF ThereInv, KnownThere, Running, ConsumerFree, Kept
  <2>6. PendingInv'
    BY <1>0, <1>3, <2>1, JobWrites DEF PendingInv, InHand, Kept
  <2> QED BY <2>2, <2>3, <2>4, <2>5, <2>6
<1> QED BY <1>1, <1>2, <1>3 DEF LoadDocument

\* What the one job that runs does to 1C: its version is not older than the one there,
\* and is the acting version if 1C is known to have that.
LEMMA SendInv ==
  ASSUME PushInv, NEW j \in Jobs, OneCTakes(j) \/ CallFails(j)
  PROVE  PushInv'
<1> DEFINE v == job[j].doc
<1> USE DEF PushInv
<1>0. /\ v \in 1..issued /\ v \in Versions /\ issued \in Nat /\ oneC \in Int
      /\ oneC' \in {oneC, v} /\ oneC <= v
      /\ Running(j) /\ \A i \in Jobs : Running(i) => i = j
      /\ UNCHANGED <<rows, req, check, bounds, orphan>>
  BY DEF OneCTakes, CallFails, DocInv, RunInv, Running, TypeOK, JobRows
<1>1. PICK st \in {"answered", "failing"} :
        JobGoes(j, st) /\ (st = "answered" => oneC' = v)
  BY DEF OneCTakes, CallFails
<1>2. st \in JobStates /\ st \notin {"none", "waiting", "logging"}
  BY <1>1 DEF JobStates
<1>3. /\ \A i \in Jobs : job'[i].doc = job[i].doc
      /\ job'[j].st = st /\ \A i \in Jobs \ {j} : job'[i].st = job[i].st
  BY <1>1, <1>2, JobWrites
<1>4. TypeOK'
  BY <1>0, <1>1, <1>2, JobType DEF TypeOK, rows, bounds
<1>5. DocInv'
  BY <1>0, <1>3 DEF DocInv, rows, OneCTakes, CallFails
<1>6. \A i \in Jobs : Running(i)' => i = j
  BY <1>0, <1>3 DEF Running
<1>7. RunInv'
  BY <1>0, <1>3, <1>6 DEF RunInv
<1>8. ThereInv'
  <2>1. KnownThere' => KnownThere \/ (v = issued /\ oneC' = v)
    BY <1>0, <1>1, <1>3 DEF KnownThere, rows
  <2>2. KnownThere => v = issued /\ oneC \in {issued, Lost}
    BY <1>0 DEF ThereInv
  <2> QED BY <1>0, <1>3, <1>6, <2>1, <2>2 DEF ThereInv, rows
<1>9. PendingInv'
  BY <1>0, <1>2, <1>3 DEF PendingInv, InHand, rows
<1> QED BY <1>4, <1>5, <1>7, <1>8, <1>9

\* The row is written as pushed or failed.
LEMMA MarkInv ==
  ASSUME PushInv, NEW j \in Jobs, StorePushed(j) \/ RefuseDocument(j)
  PROVE  PushInv'
<1> DEFINE v == job[j].doc
<1> USE DEF PushInv
<1>0. /\ v \in 1..issued /\ v \in Versions /\ issued \in Nat
      /\ UNCHANGED <<issued, oneC, req, check, bounds>>
  BY DEF StorePushed, RefuseDocument, DocInv, TypeOK, JobRows
<1>1. CASE StorePushed(j)
  <2>1. /\ job[j].st = "answered" /\ Stores(v, "pushed") /\ JobGoes(j, "logging")
        /\ "pushed" \in Statuses /\ "logging" \in JobStates
    BY <1>1 DEF StorePushed, Statuses, JobStates
  <2>2. TypeOK'
    BY <1>0, <2>1, RowSteps, JobType DEF TypeOK, RowType, Orphans, bounds
  <2>3. DocInv' /\ RunInv'
    BY <1>0, <2>1, JobWrites DEF DocInv, RunInv, Running
  <2>4. ThereInv'
    <3>1. KnownThere' => KnownThere
      BY <1>0, <2>1, JobWrites, RowWrites DEF KnownThere, TypeOK
    <3>2. \A i \in Jobs : job'[i].doc = job[i].doc /\ (Running(i)' => Running(i))
      BY <2>1, JobWrites DEF Running
    <3> QED BY <1>0, <3>1, <3>2 DEF ThereInv
  <2>5. PendingInv'
    BY <1>0, <2>1, JobWrites, RowWrites DEF PendingInv, InHand
  <2> QED BY <2>2, <2>3, <2>4, <2>5
<1>2. CASE RefuseDocument(j)
  <2>1. Stores(v, "failed") /\ JobEnds(j) /\ "failed" \in Statuses
    BY <1>2 DEF RefuseDocument, Statuses
  <2>2. TypeOK'
    BY <1>0, <2>1, RowSteps, JobType DEF TypeOK, RowType, Orphans, bounds
  <2>3. DocInv' /\ RunInv'
    BY <1>0, <2>1, JobWrites DEF DocInv, RunInv, Running
  <2>4. ThereInv'
    BY <1>0, <2>1, JobWrites, RowWrites DEF ThereInv, KnownThere, Running, TypeOK
  <2>5. PendingInv'
    BY <1>0, <2>1, JobWrites, RowWrites DEF PendingInv, InHand
  <2> QED BY <2>2, <2>3, <2>4, <2>5
<1> QED BY <1>1, <1>2

\* A job is done, stumbles over its own book-keeping, or starts over.
LEMMA JobAloneInv ==
  ASSUME PushInv, NEW j \in Jobs, LogPush(j) \/ SavingFails(j) \/ WorkerDies(j)
  PROVE  PushInv'
<1> USE DEF PushInv
<1>0. /\ Running(j) /\ trouble' \in 0..MaxTrouble /\ asks' = asks
      /\ UNCHANGED <<rows, oneC, req, check, orphan>>
  BY DEF LogPush, SavingFails, WorkerDies, Running, Trouble, TypeOK, bounds
<1>1. CASE LogPush(j)
  <2>1. JobEnds(j) /\ job[j].st = "logging"
    BY <1>1 DEF LogPush
  <2>2. TypeOK'
    BY <1>0, <2>1, JobType DEF TypeOK, rows
  <2>3. DocInv' /\ RunInv' /\ ThereInv' /\ PendingInv'
    BY <1>0, <2>1, JobWrites
       DEF DocInv, RunInv, ThereInv, PendingInv, KnownThere, InHand, Running, rows
  <2> QED BY <2>2, <2>3
<1>2. ASSUME NEW st \in {"failing", "waiting"}, JobGoes(j, st)
      PROVE  PushInv'
  <2>1. st \in JobStates
    BY DEF JobStates
  <2>2. /\ \A i \in Jobs : job'[i].doc = job[i].doc
        /\ job'[j].st = st /\ \A i \in Jobs \ {j} : job'[i].st = job[i].st
    BY <1>2, <2>1, JobWrites
  <2>3. TypeOK'
    BY <1>0, <1>2, <2>1, JobType DEF TypeOK, rows
  <2>4. DocInv' /\ RunInv' /\ ThereInv' /\ PendingInv'
    BY <1>0, <2>2
       DEF DocInv, RunInv, ThereInv, PendingInv, KnownThere, InHand, Running, rows
  <2> QED BY <2>3, <2>4
<1> QED BY <1>1, <1>2 DEF SavingFails, WorkerDies

\* The catch: the row says failed or keeps what it says, the job waits or is given up.
LEMMA AttemptInv ==
  ASSUME PushInv, NEW j \in Jobs, AttemptFails(j)
  PROVE  PushInv'
<1> DEFINE v == job[j].doc
           last == LastAttempt(job[j].attempts + 1)
<1> USE DEF PushInv
<1>0. /\ v \in 1..issued /\ v \in Versions /\ issued \in Nat /\ Running(j)
      /\ job[j].st = "failing"
      /\ UNCHANGED <<issued, oneC, req, check, asks>>
  BY DEF AttemptFails, DocInv, TypeOK, JobRows, Running
<1>1. job' \in [Jobs -> JobRows] /\ IF last THEN JobEnds(j)
        ELSE /\ \A i \in Jobs \ {j} : job'[i] = job[i]
             /\ job'[j].st = "waiting" /\ job'[j].doc = v
  <2>1. CASE last
    BY <2>1, JobType DEF AttemptFails
  <2>2. CASE ~last
    <3>0. job[j] \in JobRows
      BY DEF TypeOK
    <3>1. [job[j] EXCEPT !.st = "waiting", !.attempts = @ + 1] \in JobRows
      <4>1. job[j].attempts + 1 \in 0..MaxAttempts - 1
        BY <2>2, <3>0 DEF LastAttempt, JobRows
      <4> QED BY <3>0, <4>1 DEF JobRows
    <3> QED BY <2>2, <3>1 DEF AttemptFails, TypeOK, JobRows
  <2> QED BY <2>1, <2>2
<1>2. RowType' /\ trouble' \in 0..MaxTrouble
  <2>1. "failed" \in Statuses /\ "reported" \in Orphans
    BY DEF Statuses, Orphans
  <2> QED BY <1>0, <2>1, RowSteps DEF AttemptFails, Trouble, TypeOK
<1>3. TypeOK'
  BY <1>0, <1>1, <1>2 DEF TypeOK, RowType, Orphans
<1>4. \A i \in Jobs : /\ Running(i)' => Running(i) /\ i # j
                      /\ job'[i].st # "none" => job'[i].doc = job[i].doc
  BY <1>1, JobWrites DEF Running
<1>5. DocInv' /\ RunInv'
  BY <1>0, <1>4, <1>1, JobWrites DEF DocInv, RunInv
<1>6. \A w \in Versions :
        /\ status'[w] = "pushed" => status[w] = "pushed"
        /\ w # v => status'[w] = status[w] /\ orphan'[w] = orphan[w]
        /\ w = v => \/ status'[w] # "pending"
                    \/ last /\ orphan'[w] # "no"
                    \/ ~last /\ Kept
  <2>1. "failed" \in Statuses /\ "reported" \in Orphans
    BY DEF Statuses, Orphans
  <2>2. CASE Stores(v, "failed")
    BY <1>0, <2>1, <2>2, RowWrites
  <2>3. CASE last /\ Leaves(v, "reported")
    BY <1>0, <2>1, <2>3, RowWrites
  <2>4. CASE ~last /\ Kept
    BY <2>4 DEF Kept
  <2> QED BY <2>2, <2>3, <2>4 DEF AttemptFails
<1>7. ThereInv'
  BY <1>0, <1>4, <1>6, <1>1, JobWrites DEF ThereInv, KnownThere, Running, TypeOK
<1>8. PendingInv'
  <2> SUFFICES ASSUME NEW w \in Versions, status'[w] = "pending"
               PROVE  InHand(w)'
    BY DEF PendingInv
  <2>1. CASE w = v
    BY <1>0, <1>1, <1>6, <2>1 DEF InHand
  <2>2. CASE w # v
    <3>1. InHand(w) /\ orphan'[w] = orphan[w]
      BY <1>6, <2>2 DEF PendingInv
    <3> QED BY <1>0, <1>1, <2>2, <3>1, JobWrites DEF InHand
  <2> QED BY <2>1, <2>2
<1> QED BY <1>3, <1>5, <1>7, <1>8

-----------------------------------------------------------------------------
(* The check, and 1C.                                                       *)

LEMMA CheckInv ==
  ASSUME PushInv, CheckStep
  PROVE  PushInv'
<1> USE DEF PushInv
<1>1. CASE CheckStarts \/ CheckFinds \/ CheckMisses
  <2>1. UNCHANGED <<rows, oneC, req, job, bounds, orphan>>
    BY <1>1 DEF CheckStarts, CheckFinds, CheckMisses
  <2>2. check' \in Checks /\ (check'.st # "idle" => check'.doc \in 1..issued)
    BY <1>1, NothingType
       DEF CheckStarts, CheckFinds, CheckMisses, Checks, NoCheck, TypeOK, DocInv
  <2>3. TypeOK'
    BY <2>1, <2>2 DEF TypeOK, rows, bounds
  <2>4. DocInv' /\ RunInv' /\ ThereInv' /\ PendingInv'
    BY <2>1, <2>2
       DEF DocInv, RunInv, ThereInv, PendingInv, KnownThere, InHand, Running, rows
  <2> QED BY <2>3, <2>4
<1>2. CASE MarkMissing
  <2> DEFINE v == check.doc
  <2>1. v \in 1..issued /\ v \in Versions /\ "failed" \in Statuses
    BY <1>2 DEF MarkMissing, DocInv, TypeOK, Checks, Statuses
  <2>2. check' = NoCheck /\ UNCHANGED <<issued, oneC, req, job, bounds>>
    BY <1>2 DEF MarkMissing
  <2>3. DocInv' /\ RunInv'
    BY <2>2 DEF DocInv, RunInv, Running, NoCheck
  <2>4. CASE Stores(v, "failed")
    <3>1. TypeOK'
      BY <2>1, <2>2, <2>4, RowSteps, NothingType DEF TypeOK, RowType, Orphans, bounds
    <3>2. ThereInv' /\ PendingInv'
      BY <2>1, <2>2, <2>4, RowWrites
         DEF ThereInv, PendingInv, KnownThere, InHand, Running, TypeOK
    <3> QED BY <2>3, <3>1, <3>2
  <2>5. CASE Kept
    <3>1. TypeOK'
      BY <2>2, <2>5, NothingType DEF TypeOK, Kept, bounds
    <3>2. ThereInv' /\ PendingInv'
      BY <2>2, <2>5 DEF ThereInv, PendingInv, KnownThere, InHand, Running, Kept
    <3> QED BY <2>3, <3>1, <3>2
  <2> QED BY <1>2, <2>4, <2>5 DEF MarkMissing
<1> QED BY <1>1, <1>2 DEF CheckStep

LEMMA LossInv ==
  ASSUME PushInv, OneCLoses
  PROVE  PushInv'
<1> USE DEF PushInv
<1>1. /\ oneC \in Versions /\ oneC' = Lost /\ trouble' \in 0..MaxTrouble
      /\ UNCHANGED <<rows, req, job, check, asks, orphan>>
  BY DEF OneCLoses, Trouble, TypeOK
<1>2. TypeOK'
  BY <1>1 DEF TypeOK, rows
<1>3. RunInv'
  <2>1. \A j \in Jobs : Running(j) => job[j].doc \in Nat
    BY DEF TypeOK, JobRows
  <2> QED BY <1>1, <2>1 DEF RunInv, Running
<1>4. DocInv' /\ ThereInv' /\ PendingInv'
  BY <1>1 DEF DocInv, ThereInv, PendingInv, KnownThere, InHand, Running, rows, TypeOK
<1> QED BY <1>2, <1>3, <1>4

-----------------------------------------------------------------------------
(* The theorems.                                                            *)

LEMMA InitInv == Init => PushInv
<1> SUFFICES ASSUME Init PROVE PushInv
  OBVIOUS
<1>1. TypeOK
  BY NothingType DEF Init, TypeOK, Statuses
<1>2. DocInv /\ RunInv /\ ThereInv /\ PendingInv
  BY DEF Init, DocInv, RunInv, ThereInv, PendingInv, KnownThere, Running, NoReq, NoJob, NoCheck
<1> QED BY <1>1, <1>2 DEF PushInv

LEMMA StepInv == PushInv /\ [Next]_vars => PushInv'
<1> SUFFICES ASSUME PushInv, [Next]_vars PROVE PushInv'
  OBVIOUS
<1>1. ASSUME NEW c \in Clerks,
             RequestStep(c) \/ Issue(c) \/ AddFails(c) \/ RequestDies(c)
             \/ \E v \in Versions : PressButton(c, v)
      PROVE  PushInv'
  BY <1>1, RequestLooks, IssueInv, RequestGoesOn, AddJobInv DEF RequestStep
<1>2. ASSUME NEW j \in Jobs, JobStep(j) \/ SavingFails(j) \/ WorkerDies(j)
      PROVE  PushInv'
  BY <1>2, LoadInv, SendInv, MarkInv, JobAloneInv, AttemptInv DEF JobStep
<1>3. CASE UNCHANGED vars
  BY <1>3
     DEF vars, rows, bounds, PushInv, TypeOK, DocInv, RunInv, ThereInv, PendingInv, KnownThere,
         InHand, Running
<1> QED BY <1>1, <1>2, <1>3, ExportInv, CheckInv, LossInv DEF Next

LEMMA PushInvAlways == Spec => []PushInv
BY InitInv, StepInv, PTL DEF Spec

\* The requests, the jobs, the check and the rows keep their types in every reachable state.
THEOREM PushTypeCorrect == Spec => []TypeOK
<1>1. PushInv => TypeOK
  BY DEF PushInv
<1> QED BY <1>1, PushInvAlways, PTL

\* A version that says "pushed" and was not reissued is in 1C, unless it was deleted there,
\* for any number of versions, requests, jobs and failures (oneCSync/pushDocument.ts).
THEOREM PushedIsThereAlways == Spec => []PushedIsThere
<1>1. PushInv => PushedIsThere
  BY DEF PushInv, ThereInv, KnownThere, PushedIsThere
<1> QED BY <1>1, PushInvAlways, PTL

\* A pending version is on its way, reported, or left behind in one of the named ways.
THEOREM PendingIsCarriedAlways == Spec => []PendingIsCarried
<1>1. PushInv => PendingIsCarried
  BY DEF PushInv, TypeOK, PendingInv, InHand, PendingIsCarried, Carried
<1> QED BY <1>1, PushInvAlways, PTL

\* What the consumer sends is never older than what 1C holds: reissues, retries and jobs
\* that start over do not take 1C back to a version it had before.
THEOREM NewestStaysAlways == Spec => NewestStays
<1>1. PushInv /\ [Next]_vars => [oneC' # oneC => oneC' = Lost \/ oneC' > oneC]_vars
  <2> SUFFICES ASSUME PushInv, Next, oneC' # oneC
               PROVE  oneC' = Lost \/ oneC' > oneC
    OBVIOUS
  <2>1. \/ \E j \in Jobs : OneCTakes(j) \/ CallFails(j)
        \/ OneCLoses
    BY DEF Next, RequestStep, JobStep, CheckStep, ReadStatus, ClaimPending, RestoreStatus, AddJob,
           Issue, AddFails, RequestDies, PressButton, LoadDocument, RefuseDocument, StorePushed,
           LogPush, AttemptFails, SavingFails, WorkerDies, ExportFile, CheckStarts, CheckFinds,
           CheckMisses, MarkMissing
  <2>2. ASSUME NEW j \in Jobs, OneCTakes(j) \/ CallFails(j)
        PROVE  oneC' > oneC
    <3>1. /\ oneC' = job[j].doc /\ Running(j)
          /\ oneC \in Int /\ job[j].doc \in Int
      BY <2>2 DEF OneCTakes, CallFails, Running, PushInv, TypeOK, JobRows
    <3> QED BY <3>1 DEF PushInv, RunInv
  <2> QED BY <2>1, <2>2 DEF OneCLoses
<1> QED BY <1>1, PushInvAlways, PTL DEF Spec, NewestStays

===============================================================================

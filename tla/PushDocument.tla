----------------------------- MODULE PushDocument -----------------------------
(***************************************************************************)
(* Pushing a document to 1C (lib/services/oneCSync/pushDocument.ts, its    *)
(* queue oneCSync.pushDocument, the button, the automatic push on issue,   *)
(* the export to a file, and the nightly check that looks for documents    *)
(* 1C no longer has).                                                      *)
(*                                                                         *)
(* One chain of reissues: version v is a row of its own, superseded by     *)
(* v + 1, and all of them go to 1C under the id of the first.  "pending"   *)
(* is written before the job is queued, is what refuses a second request,  *)
(* and is taken back if the queue refuses the job.  No row ever returns to *)
(* a status by the passing of time.                                        *)
(***************************************************************************)
EXTENDS Integers, FiniteSets

CONSTANTS
  Clerks,        \* requests that queue a push at the same time
  Jobs,          \* bound: the jobs the queue can hold at a time
  MaxAttempts,   \* attempts of a job (defaultJobOpts)
  MaxVersion,    \* bound: how often the document is issued
  MaxAsks,       \* bound: how often the button is pressed
  MaxTrouble     \* bound: deaths, refusals of the database or of Redis, losses in 1C

ASSUME DocumentAssumption ==
  /\ MaxAttempts \in Nat \ {0} /\ MaxVersion \in Nat \ {0}
  /\ MaxAsks \in Nat /\ MaxTrouble \in Nat

VARIABLES
  issued,    \* versions issued so far; the last one is not superseded
  status,    \* Document.oneCPushStatus of each version
  oneC,      \* the version 1C holds, None or Lost
  req,       \* enqueueDocumentPush of each clerk
  job,
  check,     \* reconcilePushedDocuments: what it has found out of the acting version
  asks, trouble,
  orphan     \* history: why the pending of a version may be left without a job

rows == <<issued, status>>
bounds == <<asks, trouble>>
vars == <<rows, oneC, req, job, check, bounds, orphan>>

Versions == 1..MaxVersion
None == 0
Lost == -1

Statuses == {"none", "pending", "pushed", "failed", "exported_file"}

NoReq == [st |-> "idle", doc |-> None, was |-> "none"]
NoJob == [st |-> "none", doc |-> None, attempts |-> 0]
NoCheck == [st |-> "idle", doc |-> None]

Requests == [st : {"idle", "asked", "read", "claimed", "undo"},
             doc : {None} \cup Versions, was : Statuses]
JobRows == [st : {"none", "waiting", "loaded", "answered", "logging", "failing"},
            doc : {None} \cup Versions, attempts : 0..MaxAttempts - 1]
Checks == [st : {"idle", "asking", "missing"}, doc : {None} \cup Versions]

CloneOfTheLast == IF issued = 0 THEN "none" ELSE status[issued]    \* mutant of NewRow
NewRow == "none"

NeverSuperseded(v) == FALSE                                        \* mutant of Superseded
Superseded(v) == v < issued

Trouble == trouble < MaxTrouble /\ trouble' = trouble + 1

Kept == UNCHANGED <<status, orphan>>
Stores(v, s) ==
  /\ status' = [status EXCEPT ![v] = s]
  /\ orphan' = [orphan EXCEPT ![v] = "no"]

\* The row keeps its status, but if that is pending nobody may carry it any more.
Leaves(v, why) ==
  /\ orphan' = [orphan EXCEPT ![v] = IF status[v] = "pending" THEN why ELSE "no"]
  /\ UNCHANGED status

Goes(c, st) == req' = [req EXCEPT ![c].st = st]
Returns(c) == req' = [req EXCEPT ![c] = NoReq]

JobGoes(j, st) == job' = [job EXCEPT ![j].st = st]
JobEnds(j) == job' = [job EXCEPT ![j] = NoJob]

\* The queue has one consumer: no attempt starts while another runs.
Running(j) == job[j].st \notin {"none", "waiting"}
ConsumerFree == \A j \in Jobs : ~Running(j)

Init ==
  /\ issued = 0 /\ status = [v \in Versions |-> "none"] /\ oneC = None
  /\ req = [c \in Clerks |-> NoReq]
  /\ job = [j \in Jobs |-> NoJob]
  /\ check = NoCheck
  /\ asks = 0 /\ trouble = 0
  /\ orphan = [v \in Versions |-> "no"]

-----------------------------------------------------------------------------
(* Requests.                                                                *)

\* The document is issued or reissued; the rule "auto" queues it right away.
Issue(c) ==
  /\ req[c].st = "idle" /\ issued < MaxVersion
  /\ issued' = issued + 1
  /\ Stores(issued + 1, NewRow)
  /\ \/ req' = [req EXCEPT ![c] = [st |-> "asked", doc |-> issued + 1, was |-> "none"]]
     \/ UNCHANGED req
  /\ UNCHANGED <<oneC, job, check, bounds>>

\* The button (requestDocumentPush), for each document of the list (...Many).
PressButton(c, v) ==
  /\ req[c].st = "idle" /\ asks < MaxAsks
  /\ v \in 1..issued /\ ~Superseded(v) /\ status[v] # "pending"
  /\ asks' = asks + 1
  /\ req' = [req EXCEPT ![c] = [st |-> "asked", doc |-> v, was |-> "none"]]
  /\ UNCHANGED <<rows, oneC, job, check, trouble, orphan>>

ReadStatus(c) ==
  /\ req[c].st = "asked"
  /\ IF Superseded(req[c].doc) THEN Returns(c)
     ELSE req' = [req EXCEPT ![c].st = "read", ![c].was = status[req[c].doc]]
  /\ UNCHANGED <<rows, oneC, job, check, bounds, orphan>>

\* An update whose WHERE asks for a status other than pending.
ClaimPending(c) ==
  /\ req[c].st = "read"
  /\ IF status[req[c].doc] = "pending"
     THEN Returns(c) /\ Kept
     ELSE Stores(req[c].doc, "pending") /\ Goes(c, "claimed")
  /\ UNCHANGED <<issued, oneC, job, check, bounds>>

AddJob(c) ==
  /\ req[c].st = "claimed" /\ \E j \in Jobs : job[j].st = "none"
  /\ LET j == CHOOSE i \in Jobs : job[i].st = "none" IN
     job' = [job EXCEPT ![j] = [st |-> "waiting", doc |-> req[c].doc, attempts |-> 0]]
  /\ Returns(c)
  /\ UNCHANGED <<rows, oneC, check, bounds, orphan>>

SwallowsError(c) ==                                                \* mutant of AddFails
  /\ req[c].st = "claimed" /\ Trouble /\ Returns(c)
  /\ UNCHANGED <<rows, oneC, job, check, asks, orphan>>

\* Redis refuses the job (or is not configured).
AddFails(c) ==
  /\ req[c].st = "claimed" /\ Trouble /\ Goes(c, "undo")
  /\ UNCHANGED <<rows, oneC, job, check, asks, orphan>>

\* The status read before the claim comes back, whatever the row holds by now.
RestoreStatus(c) ==
  /\ req[c].st = "undo"
  /\ status' = [status EXCEPT ![req[c].doc] = req[c].was]
  /\ orphan' = [orphan EXCEPT ![req[c].doc] = IF req[c].was = "pending" THEN "revived" ELSE "no"]
  /\ Returns(c)
  /\ UNCHANGED <<issued, oneC, job, check, bounds>>

\* The process dies between the claim and the queue, or the taking back fails.
RequestDies(c) ==
  /\ req[c].st \in {"claimed", "undo"} /\ Trouble
  /\ Leaves(req[c].doc, "stranded")
  /\ Returns(c)
  /\ UNCHANGED <<issued, oneC, job, check, asks>>

\* The file export of documents chosen by hand; a pushed one keeps its status.
ExportFile(v) ==
  /\ v \in 1..issued /\ status[v] # "pushed"
  /\ Stores(v, "exported_file")
  /\ UNCHANGED <<issued, oneC, req, job, check, bounds>>

-----------------------------------------------------------------------------
(* A job.                                                                   *)

LeaveIt(v) == Kept                                                 \* mutant of RefuseUntouched
RefuseUntouched(v) == IF status[v] = "pending" THEN Stores(v, "none") ELSE Kept

\* A superseded version only loses its pending; a pushed one is not sent again.
LoadDocument(j) ==
  /\ job[j].st = "waiting" /\ ConsumerFree
  /\ LET v == job[j].doc IN
       \/ Superseded(v) /\ JobEnds(j) /\ RefuseUntouched(v)
       \/ ~Superseded(v) /\ status[v] = "pushed" /\ JobEnds(j) /\ Kept
       \/ ~Superseded(v) /\ status[v] # "pushed" /\ JobGoes(j, "loaded") /\ Kept
  /\ UNCHANGED <<issued, oneC, req, check, bounds>>

\* No number, no INN, no counterparty: failed, a notice, and the job ends.
RefuseDocument(j) ==
  /\ job[j].st = "loaded"
  /\ Stores(job[j].doc, "failed")
  /\ JobEnds(j)
  /\ UNCHANGED <<issued, oneC, req, check, bounds>>

OneCTakes(j) ==
  /\ job[j].st = "loaded"
  /\ oneC' = job[j].doc
  /\ JobGoes(j, "answered")
  /\ UNCHANGED <<rows, req, check, bounds, orphan>>

\* The call throws: 1C did not take the document, or its answer was lost.
CallFails(j) ==
  /\ job[j].st = "loaded"
  /\ oneC' \in {oneC, job[j].doc}
  /\ JobGoes(j, "failing")
  /\ UNCHANGED <<rows, req, check, bounds, orphan>>

StorePushed(j) ==
  /\ job[j].st = "answered"
  /\ Stores(job[j].doc, "pushed")
  /\ JobGoes(j, "logging")
  /\ UNCHANGED <<issued, oneC, req, check, bounds>>

LogPush(j) ==
  /\ job[j].st = "logging" /\ JobEnds(j)
  /\ UNCHANGED <<rows, oneC, req, check, bounds, orphan>>

\* The row, the audit or the log cannot be written: the same catch as for the call.
SavingFails(j) ==
  /\ job[j].st \in {"answered", "logging"} /\ Trouble
  /\ JobGoes(j, "failing")
  /\ UNCHANGED <<rows, oneC, req, check, asks, orphan>>

OneTooMany(n) == n > MaxAttempts                                   \* mutant of LastAttempt
LastAttempt(n) == n >= MaxAttempts

\* catch: the version is marked failed, unless that fails as well.  The processor throws:
\* the queue tries again, and after the last attempt the leaders and the author are told.
AttemptFails(j) ==
  /\ job[j].st = "failing"
  /\ \/ Stores(job[j].doc, "failed") /\ UNCHANGED trouble
     \/ Trouble /\ IF LastAttempt(job[j].attempts + 1)
                   THEN Leaves(job[j].doc, "reported") ELSE Kept
  /\ IF LastAttempt(job[j].attempts + 1) THEN JobEnds(j)
     ELSE job' = [job EXCEPT ![j].st = "waiting", ![j].attempts = @ + 1]
  /\ UNCHANGED <<issued, oneC, req, check, asks>>

\* The worker dies within an attempt; the queue finds the job stalled and starts it over.
WorkerDies(j) ==
  /\ Running(j) /\ Trouble /\ JobGoes(j, "waiting")
  /\ UNCHANGED <<rows, oneC, req, check, asks, orphan>>

-----------------------------------------------------------------------------
(* The check, and 1C.                                                       *)

CheckStarts ==
  /\ check.st = "idle" /\ issued > 0 /\ status[issued] = "pushed"
  /\ check' = [st |-> "asking", doc |-> issued]
  /\ UNCHANGED <<rows, oneC, req, job, bounds, orphan>>

\* 1C has the document, or cannot be reached: the pass stops and marks nothing.
CheckFinds ==
  /\ check.st = "asking" /\ check' = NoCheck
  /\ UNCHANGED <<rows, oneC, req, job, bounds, orphan>>

CheckMisses ==
  /\ check.st = "asking" /\ oneC \in {None, Lost}
  /\ check' = [check EXCEPT !.st = "missing"]
  /\ UNCHANGED <<rows, oneC, req, job, bounds, orphan>>

\* The update asks for a row that is still pushed.
MarkMissing ==
  /\ check.st = "missing" /\ check' = NoCheck
  /\ IF status[check.doc] = "pushed" THEN Stores(check.doc, "failed") ELSE Kept
  /\ UNCHANGED <<issued, oneC, req, job, bounds>>

\* Somebody deletes the document in 1C.
OneCLoses ==
  /\ oneC \in Versions /\ Trouble
  /\ oneC' = Lost
  /\ UNCHANGED <<rows, req, job, check, asks, orphan>>

-----------------------------------------------------------------------------
RequestStep(c) ==
  ReadStatus(c) \/ ClaimPending(c) \/ RestoreStatus(c) \/ AddJob(c)

JobStep(j) ==
  \/ LoadDocument(j) \/ RefuseDocument(j) \/ OneCTakes(j) \/ CallFails(j)
  \/ StorePushed(j) \/ LogPush(j) \/ AttemptFails(j)

CheckStep == CheckStarts \/ CheckFinds \/ CheckMisses \/ MarkMissing

Next ==
  \/ \E c \in Clerks : RequestStep(c) \/ Issue(c) \/ AddFails(c) \/ RequestDies(c)
                       \/ \E v \in Versions : PressButton(c, v)
  \/ \E j \in Jobs : JobStep(j) \/ SavingFails(j) \/ WorkerDies(j)
  \/ \E v \in Versions : ExportFile(v)
  \/ CheckStep \/ OneCLoses

\* Requests go on, and so does the consumer of the queue while there are jobs.
Fairness ==
  /\ \A c \in Clerks : WF_vars(RequestStep(c))
  /\ WF_vars(\E j \in Jobs : JobStep(j))

Spec == Init /\ [][Next]_vars /\ Fairness

-----------------------------------------------------------------------------
(* Properties.                                                              *)

\* The fields have their types.
TypeOK ==
  /\ issued \in 0..MaxVersion
  /\ status \in [Versions -> Statuses]
  /\ oneC \in {None, Lost} \cup Versions
  /\ req \in [Clerks -> Requests]
  /\ job \in [Jobs -> JobRows]
  /\ check \in Checks
  /\ asks \in 0..MaxAsks /\ trouble \in 0..MaxTrouble
  /\ orphan \in [Versions -> {"no", "reported", "stranded", "revived"}]

\* A version that says "pushed" and was not reissued is the one 1C holds, unless it was
\* deleted there: retries of older versions, jobs that start over, requests taken back
\* and the check never leave the mark on a version 1C has not got.
PushedIsThere ==
  issued > 0 /\ status[issued] = "pushed" => oneC \in {issued, Lost}

\* 1C never goes back to an older version of a document: a retry of a version that was
\* reissued meanwhile does not overwrite its successor (pushDocument.ts, "superseded").
NewestStays == [][oneC' # oneC => oneC' = Lost \/ oneC' > oneC]_vars

Carried(v) ==
  \/ \E c \in Clerks : req[c].doc = v /\ req[c].st \in {"claimed", "undo"}
  \/ \E j \in Jobs : job[j].doc = v
  \/ orphan[v] \in {"reported", "stranded"}

\* A version marked pending is on its way (a request is about to queue it, a job has it),
\* or somebody was told that the push has failed, or the pending was left behind by a
\* death or by a taking back that failed or that brought it back: the button refuses a
\* pending version, so any other would never be pushed.
PendingIsCarried ==
  \A v \in Versions : status[v] = "pending" => Carried(v) \/ orphan[v] = "revived"

\* In the end nothing is pending, with the same exceptions: every push that was queued
\* is done, refused or reported.
PendingSettles ==
  \A v \in Versions :
    status[v] = "pending" ~> status[v] # "pending" \/ orphan[v] # "no"
===============================================================================

------------------------------- MODULE Attachment -------------------------------
(***************************************************************************)
(* A file somebody uploads: it is checked by the antivirus                 *)
(* (worker/processors/scan-document.ts), which the upload queues and an    *)
(* hourly sweep queues again (lib/services/scan/backfill.ts, worker).      *)
(* A file sent to a client in a messenger leaves only after the check      *)
(* (lib/services/messengers/attachment.ts); a file of a chat or a document *)
(* is only marked.  One file, and the jobs that check it.                  *)
(***************************************************************************)
EXTENDS Integers, FiniteSets

CONSTANTS
  ScanJobs,       \* bound: the jobs there can be for the file at a time
  ScanAttempts,   \* attempts of a job (defaultJobOpts)
  MaxFaults       \* bound: refusals of Redis or of the database, deaths, answers lost

ASSUME AttachmentAssumption == ScanAttempts \in Nat \ {0} /\ MaxFaults \in Nat

VARIABLES
  kind,      \* what the file is: sent in a messenger, or one the sweep knows
  infected,  \* what the scanner will say of it
  msg,       \* scanStatus and deliveryStatus of its row
  scan,      \* the jobs
  given,     \* how often the client got the file
  faults,
  stranded   \* history: a fault left the row behind without a job

attachmentVars == <<kind, infected, msg, scan, given, faults, stranded>>

Kinds == {"messenger", "swept"}
ScanStatuses == {"none", "pending", "clean", "infected", "error"}
Deliveries == {"none", "pending", "sending", "sent", "failed"}
NoScan == [st |-> "none", attempts |-> 0]
ScanRows == [st : {"none", "waiting", "scanned", "marked", "read", "sending", "answered",
                   "refused"}, attempts : 0..ScanAttempts - 1]

Fault == faults < MaxFaults /\ faults' = faults + 1
NoFault == UNCHANGED faults

ScanGoes(j, st) == scan' = [scan EXCEPT ![j].st = st]
ScanEnds(j) == scan' = [scan EXCEPT ![j] = NoScan]
Delivered(st) == msg' = [msg EXCEPT !.delivery = st]

\* A new job, or none if the file has as many as the bound allows.
Queues == \E j \in ScanJobs :
  scan[j].st = "none" /\ scan' = [scan EXCEPT ![j] = [st |-> "waiting", attempts |-> 0]]

AttachmentInit ==
  /\ kind \in Kinds /\ infected \in BOOLEAN
  /\ msg = [scan |-> "none", delivery |-> "none"]
  /\ scan = [j \in ScanJobs |-> NoScan]
  /\ given = 0 /\ faults = 0 /\ stranded = FALSE

-----------------------------------------------------------------------------
\* The row is there before the job; a queue that refuses the job does not fail the upload.
Upload ==
  /\ msg.scan = "none"
  /\ msg' = [scan |-> "pending", delivery |-> IF kind = "messenger" THEN "pending" ELSE "none"]
  /\ \/ Queues /\ NoFault /\ UNCHANGED stranded
     \/ Fault /\ stranded' = TRUE /\ UNCHANGED scan
  /\ UNCHANGED <<kind, infected, given>>

\* The tables the sweep walks; messages of messenger dialogs are not among them.
Swept == kind = "swept"

\* Every hour, without asking whether the file has a job already.
Sweep ==
  /\ Swept /\ msg.scan = "pending" /\ Queues
  /\ stranded' = FALSE
  /\ UNCHANGED <<kind, infected, msg, given, faults>>

-----------------------------------------------------------------------------
(* The check.                                                               *)

\* Downloaded and answered by the scanner.
Scan(j) ==
  /\ scan[j].st = "waiting" /\ ScanGoes(j, "scanned")
  /\ UNCHANGED <<kind, infected, msg, given, faults, stranded>>

Verdicts == {IF infected THEN "infected" ELSE "clean", "error"}

\* "error" is an answer that was not understood: it costs a fault.
MarkScanned(j) ==
  /\ scan[j].st = "scanned"
  /\ \E v \in Verdicts :
       /\ msg' = [msg EXCEPT !.scan = v]
       /\ IF v = "error" THEN Fault ELSE NoFault
  /\ IF kind = "messenger" THEN ScanGoes(j, "marked") ELSE ScanEnds(j)
  /\ UNCHANGED <<kind, infected, given, stranded>>

AnyVerdict == TRUE                                       \* mutant of MayLeave
MayLeave == msg.scan = "clean"

JustStops(j) == ScanEnds(j) /\ UNCHANGED msg            \* mutant of Unclean
Unclean(j) == Delivered("failed") /\ ScanEnds(j)

\* deliverScannedAttachment: only a message that waits, and only if it is clean.
ReadMessage(j) ==
  /\ scan[j].st = "marked"
  /\ \/ msg.delivery # "pending" /\ ScanEnds(j) /\ UNCHANGED msg
     \/ msg.delivery = "pending" /\ ~MayLeave /\ Unclean(j)
     \/ msg.delivery = "pending" /\ MayLeave /\ ScanGoes(j, "read") /\ UNCHANGED msg
  /\ UNCHANGED <<kind, infected, given, faults, stranded>>

ById(j) == Delivered("sending") /\ ScanGoes(j, "sending")   \* mutant of ClaimSending
ClaimSending(j) ==
  IF msg.delivery = "pending" THEN Delivered("sending") /\ ScanGoes(j, "sending")
  ELSE ScanEnds(j) /\ UNCHANGED msg

Claim(j) ==
  /\ scan[j].st = "read" /\ ClaimSending(j)
  /\ UNCHANGED <<kind, infected, given, faults, stranded>>

\* The client gets the file; or the storage or the channel refuses; or its answer is lost.
Send(j) ==
  /\ scan[j].st = "sending"
  /\ \/ given' = given + 1 /\ ScanGoes(j, "answered") /\ NoFault
     \/ given' \in {given, given + 1} /\ ScanGoes(j, "refused") /\ Fault
  /\ UNCHANGED <<kind, infected, msg, stranded>>

StoreDelivery(j) ==
  /\ scan[j].st \in {"answered", "refused"}
  /\ Delivered(IF scan[j].st = "answered" THEN "sent" ELSE "failed")
  /\ ScanEnds(j)
  /\ UNCHANGED <<kind, infected, given, faults, stranded>>

-----------------------------------------------------------------------------
(* What goes wrong.                                                         *)

\* Who is left behind: a claim nobody holds is never taken again, and without a job only
\* the sweep looks at the row.
LeftBehind(j) ==
  \/ msg.delivery = "sending"
  \/ \A i \in ScanJobs \ {j} : scan[i].st = "none"

\* The storage, the scanner or the database refuses: the job throws and is tried again,
\* or given up after its last attempt.
AttemptThrows(j) ==
  /\ scan[j].st # "none" /\ Fault
  /\ IF scan[j].attempts + 1 >= ScanAttempts
     THEN ScanEnds(j) /\ stranded' = (stranded \/ LeftBehind(j))
     ELSE /\ scan' = [scan EXCEPT ![j] = [st |-> "waiting", attempts |-> @.attempts + 1]]
          /\ stranded' = (stranded \/ msg.delivery = "sending")
  /\ UNCHANGED <<kind, infected, msg, given>>

\* The worker dies: the job is started over.
WorkerStops(j) ==
  /\ scan[j].st \notin {"none", "waiting"} /\ Fault
  /\ ScanGoes(j, "waiting")
  /\ stranded' = (stranded \/ msg.delivery = "sending")
  /\ UNCHANGED <<kind, infected, msg, given>>

\* It only loses its lock, and goes on beside the job that was started over; its own
\* failure is not tried again.
LockLost(j) ==
  /\ scan[j].st \notin {"none", "waiting"} /\ Fault
  /\ \E i \in ScanJobs :
       /\ scan[i].st = "none"
       /\ scan' = [scan EXCEPT ![i] = [st |-> "waiting", attempts |-> scan[j].attempts],
                              ![j].attempts = ScanAttempts - 1]
  /\ UNCHANGED <<kind, infected, msg, given, stranded>>

ScanStep(j) ==
  Scan(j) \/ MarkScanned(j) \/ ReadMessage(j) \/ Claim(j) \/ Send(j) \/ StoreDelivery(j)

AttachmentNext ==
  \/ Upload \/ Sweep
  \/ \E j \in ScanJobs : ScanStep(j) \/ AttemptThrows(j) \/ WorkerStops(j) \/ LockLost(j)

AttachmentSpec == AttachmentInit /\ [][AttachmentNext]_attachmentVars

-----------------------------------------------------------------------------
(* Properties.                                                              *)

\* The fields have their types.
AttachmentTypeOK ==
  /\ kind \in Kinds /\ infected \in BOOLEAN
  /\ msg \in [scan : ScanStatuses, delivery : Deliveries]
  /\ scan \in [ScanJobs -> ScanRows]
  /\ given \in Nat /\ faults \in 0..MaxFaults /\ stranded \in BOOLEAN

\* The client never gets a file the scanner finds infected, in spite of jobs that overlap,
\* start over, or did not understand the scanner (attachment.ts: only after "clean").
OnlyCleanLeaves == given > 0 => kind = "messenger" /\ ~infected

\* The client gets the file at most once, also when its job is repeated after the file was
\* sent and before that was stored.
GivenOnce == given <= 1

\* A file that waits for its check or its delivery is looked at again: it has a job, or the
\* sweep knows it, or a fault has left it behind.
\* (attachment.ts says of a messenger file whose job could not be queued that the hourly
\* collection will finish it; the sweep does not walk that table.)
WaitingIsCarried ==
  msg.scan = "pending" \/ msg.delivery \in {"pending", "sending"} =>
    \/ \E j \in ScanJobs : scan[j].st # "none"
    \/ Swept \/ stranded
===============================================================================

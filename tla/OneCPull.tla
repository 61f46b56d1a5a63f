------------------------------- MODULE OneCPull -------------------------------
(***************************************************************************)
(* The inbound exchange with 1C (worker/processors/sync-*.ts and           *)
(* lib/services/oneCSync): one job per entity pulls the records changed    *)
(* since its cursor, writes them one by one, moves the cursor, and keeps   *)
(* what could not be written for a replay, because the order a payment     *)
(* belongs to (or the organization an order belongs to) may come later.    *)
(*                                                                         *)
(* The jobs of different entities run at the same time; two jobs of one    *)
(* entity do not (its queue has one consumer).  A version of a record is   *)
(* the stamp (updatedAt) 1C gave it.  1C itself is modelled from how the   *)
(* adapter is used: it returns what changed at or after the cursor, and a  *)
(* change may become visible up to Lag after the stamp it carries.         *)
(***************************************************************************)
EXTENDS Integers, FiniteSets

CONSTANTS
  Records,         \* external ids
  Entities,        \* organization, order, payment, document
  EntityOf,        \* [Records -> Entities]
  Needs,           \* the record that must be in the cabinet first, or NoRecord
  NoRecord,
  Refused,         \* records no version of which parses or is ever accepted
  Overlap,         \* oneCCursorOverlapMinutes
  Lag,             \* how late a change becomes visible in 1C
  MaxAttempts,     \* oneCPendingMaxAttempts
  MaxStamp,        \* bound: the latest stamp
  StampsOf,        \* bound: the stamps a record may be given
  MaxBreaks        \* bound: how often a job dies or its database refuses a write

ASSUME PullAssumption ==
  /\ EntityOf \in [Records -> Entities]
  /\ Needs \in [Records -> Records \cup {NoRecord}]
  /\ NoRecord \notin Records
  /\ Refused \subseteq Records
  /\ Overlap \in Nat /\ Lag \in Nat /\ Lag <= Overlap
  /\ MaxAttempts \in Nat \ {0}
  /\ StampsOf \in [Records -> SUBSET (1..MaxStamp)]
  /\ MaxStamp \in Nat /\ MaxBreaks \in Nat

VARIABLES
  source,    \* the stamp of each record in 1C, 0 if there is none
  cabinet,   \* the stamp of the version each row of the cabinet holds, 0 if no row
  cursor,    \* SyncState: what each entity is pulled from
  pending,   \* OneCPendingRecord
  job,       \* the running job of each entity
  breaks,
  lost       \* history: what a job skipped, ended before keeping, and no pull returned since

vars == <<source, cabinet, cursor, pending, job, breaks, lost>>

Stamps == 0..MaxStamp

NoRow == [status |-> "none", dto |-> 0, attempts |-> 0]

Row == [status : {"none", "pending", "dead"}, dto : Stamps, attempts : 0..MaxAttempts]

\* A job: what is left of the batch it pulled, the newest stamp it wrote, the records
\* that were skipped or threw, and the versions (raw) of all of these.  A local that
\* is not read any more is back to 0.
Job == [phase : {"idle", "write", "capture", "replay"}, raw : [Records -> Stamps],
        todo : SUBSET Records, newest : Stamps, skips : SUBSET Records]

Idle == [phase |-> "idle", raw |-> [r \in Records |-> 0], todo |-> {}, newest |-> 0,
         skips |-> {}]

Goes(e, j) == job' = [job EXCEPT ![e] = j]

Later(m, n) == IF m > n THEN m ELSE n

RecordsOf(e) == {r \in Records : EntityOf[r] = e}

Resolvable(r) == Needs[r] # NoRecord => cabinet[Needs[r]] # 0

Init ==
  /\ source = [r \in Records |-> 0]
  /\ cabinet = [r \in Records |-> 0]
  /\ cursor = [e \in Entities |-> 0]
  /\ pending = [r \in Records |-> NoRow]
  /\ job = [e \in Entities |-> Idle]
  /\ breaks = 0
  /\ lost = {}

-----------------------------------------------------------------------------
(* 1C.                                                                      *)

\* A record is created or changed; its stamp may be up to Lag older than others.
Edit(r) ==
  /\ \E t \in StampsOf[r] :
       /\ t > source[r]
       /\ \A q \in Records : t >= source[q] - Lag
       /\ source' = [source EXCEPT ![r] = t]
  /\ UNCHANGED <<cabinet, cursor, pending, job, breaks, lost>>

-----------------------------------------------------------------------------
(* The processor of one entity.                                             *)

PullStart(e) ==
  /\ job[e].phase = "idle"
  /\ LET pulled == {r \in RecordsOf(e) : source[r] # 0 /\ source[r] >= cursor[e]} IN
       /\ Goes(e, [phase |-> "write",
                   raw |-> [r \in Records |-> IF r \in pulled \ Refused THEN source[r] ELSE 0],
                   todo |-> pulled \ Refused, newest |-> 0, skips |-> {}])
       /\ lost' = lost \ pulled
  /\ UNCHANGED <<source, cabinet, cursor, pending, breaks>>

\* The writer of one record: an upsert by external id, or a skip.
WriteRecord(e) ==
  /\ job[e].phase = "write"
  /\ \E r \in job[e].todo :
       IF Resolvable(r)
       THEN /\ cabinet' = [cabinet EXCEPT ![r] = job[e].raw[r]]
            /\ Goes(e, [job[e] EXCEPT !.todo = @ \ {r}, !.raw[r] = 0,
                                      !.newest = Later(@, job[e].raw[r])])
       ELSE /\ Goes(e, [job[e] EXCEPT !.todo = @ \ {r}, !.skips = @ \cup {r}])
            /\ UNCHANGED cabinet
  /\ UNCHANGED <<source, cursor, pending, breaks, lost>>

Breaks == breaks < MaxBreaks /\ breaks' = breaks + 1

\* The writer throws, before its row is committed or (an event handler) after.
RecordThrows(e) ==
  /\ job[e].phase = "write"
  /\ Breaks
  /\ \E r \in job[e].todo : \E written \in {w \in BOOLEAN : w => Resolvable(r)} :
       /\ cabinet' = IF written THEN [cabinet EXCEPT ![r] = job[e].raw[r]] ELSE cabinet
       /\ Goes(e, [job[e] EXCEPT !.todo = @ \ {r}, !.skips = @ \cup {r},
                                 !.newest = IF written THEN Later(@, job[e].raw[r]) ELSE @])
  /\ UNCHANGED <<source, cursor, pending, lost>>

NoOverlap(newest) == newest                          \* mutants of BackOff
OverlapAhead(newest) == newest + Overlap
BackOff(newest) == IF newest > Overlap THEN newest - Overlap ELSE 0

\* advanceCursor: only what was written moves it.
AdvanceCursor(e) ==
  /\ job[e].phase = "write" /\ job[e].todo = {}
  /\ cursor' = IF job[e].newest = 0 THEN cursor
               ELSE [cursor EXCEPT ![e] = BackOff(job[e].newest)]
  /\ Goes(e, [job[e] EXCEPT !.phase = "capture", !.newest = 0])
  /\ UNCHANGED <<source, cabinet, pending, breaks, lost>>

Captured(e, r) ==
  IF pending[r].status = "none"
  THEN [status |-> "pending", dto |-> job[e].raw[r], attempts |-> 0]
  ELSE [pending[r] EXCEPT !.status = "pending"]

\* capturePendingSkips, one upsert: a row that exists keeps its dto and attempts.
CaptureSkip(e) ==
  /\ job[e].phase = "capture"
  /\ \E r \in job[e].skips :
       /\ pending' = [pending EXCEPT ![r] = Captured(e, r)]
       /\ Goes(e, [job[e] EXCEPT !.skips = @ \ {r}, !.raw[r] = 0])
  /\ UNCHANGED <<source, cabinet, cursor, breaks, lost>>

\* replayPendingRecords: its read of the backlog.
ReplayStart(e) ==
  /\ job[e].phase = "capture" /\ job[e].skips = {}
  /\ Goes(e, [job[e] EXCEPT !.phase = "replay",
                            !.todo = {r \in RecordsOf(e) : pending[r].status = "pending"}])
  /\ UNCHANGED <<source, cabinet, cursor, pending, breaks, lost>>

DropsTheFailed(r, overAge) == NoRow                  \* mutants of Retried
NeverGivesUp(r, overAge) == pending[r]
\* A replay that failed.  The count stops at its limit here: beyond it nothing differs.
Retried(r, overAge) ==
  LET n == IF pending[r].attempts < MaxAttempts THEN pending[r].attempts + 1 ELSE MaxAttempts
  IN [pending[r] EXCEPT !.attempts = n,
                        !.status = IF n = MaxAttempts \/ overAge THEN "dead" ELSE "pending"]

\* The stored version is written and the row deleted, or the attempt is counted.
ReplayRecord(e) ==
  /\ job[e].phase = "replay"
  /\ \E r \in job[e].todo :
       /\ Goes(e, [job[e] EXCEPT !.todo = @ \ {r}])
       /\ IF Resolvable(r)
          THEN /\ cabinet' = [cabinet EXCEPT ![r] = pending[r].dto]
               /\ pending' = [pending EXCEPT ![r] = NoRow]
          ELSE /\ \E overAge \in BOOLEAN :
                    pending' = [pending EXCEPT ![r] = Retried(r, overAge)]
               /\ UNCHANGED cabinet
  /\ UNCHANGED <<source, cursor, breaks, lost>>

\* The writer throws: retried later, up to the same limits.
ReplayThrows(e) ==
  /\ job[e].phase = "replay"
  /\ Breaks
  /\ \E r \in job[e].todo, overAge \in BOOLEAN :
       /\ Goes(e, [job[e] EXCEPT !.todo = @ \ {r}])
       /\ pending' = [pending EXCEPT ![r] = Retried(r, overAge)]
  /\ UNCHANGED <<source, cabinet, cursor, lost>>

FinishJob(e) ==
  /\ job[e].phase = "replay" /\ job[e].todo = {}
  /\ Goes(e, Idle)
  /\ UNCHANGED <<source, cabinet, cursor, pending, breaks, lost>>

\* The worker dies, or an upsert of capturePendingSkips fails, which its caller
\* swallows: the job is over, and the skips it has not kept yet are behind the cursor
\* it has moved.  It may die between a replayed write and the delete of the row.
JobDies(e) ==
  /\ job[e].phase # "idle"
  /\ Breaks
  /\ \/ UNCHANGED cabinet
     \/ /\ job[e].phase = "replay"
        /\ \E r \in job[e].todo :
             Resolvable(r) /\ cabinet' = [cabinet EXCEPT ![r] = pending[r].dto]
  /\ Goes(e, Idle)
  /\ lost' = IF job[e].phase = "capture" THEN lost \cup job[e].skips ELSE lost
  /\ UNCHANGED <<source, cursor, pending>>

JobStep(e) ==
  \/ PullStart(e)
  \/ WriteRecord(e)
  \/ AdvanceCursor(e)
  \/ CaptureSkip(e)
  \/ ReplayStart(e)
  \/ ReplayRecord(e)
  \/ FinishJob(e)

Next ==
  \/ \E r \in Records : Edit(r)
  \/ \E e \in Entities :
       \/ JobStep(e)
       \/ RecordThrows(e)
       \/ ReplayThrows(e)
       \/ JobDies(e)

\* The queue's schedule starts the job again and again, and a job that runs goes on.
Fairness == \A e \in Entities : WF_vars(JobStep(e))

Spec == Init /\ [][Next]_vars /\ Fairness

-----------------------------------------------------------------------------
(* Properties.                                                             *)

\* Types of the tables and of the jobs' locals.
TypeOK ==
  /\ source \in [Records -> Stamps]
  /\ cabinet \in [Records -> Stamps]
  /\ cursor \in [Entities -> Stamps]
  /\ pending \in [Records -> Row]
  /\ job \in [Entities -> Job]
  /\ breaks \in 0..MaxBreaks
  /\ lost \subseteq Records

BeingCaptured(r) == job[EntityOf[r]].phase = "capture" /\ r \in job[EntityOf[r]].skips

\* No record falls behind the cursor unnoticed ("so nothing is lost when a
\* dependency appears later", sync-orders.ts): one that the next pull will not
\* return is in the cabinet, kept for replay or dead-lettered, or just being kept.
\* The exception is named by the history variable: what a job that broke off between
\* moving the cursor and keeping its skips had skipped, until a pull returns it again.
AccountedFor ==
  \A r \in Records \ Refused :
    source[r] # 0 /\ source[r] < cursor[EntityOf[r]] =>
      cabinet[r] # 0 \/ pending[r].status # "none" \/ BeingCaptured(r) \/ r \in lost

\* The newest version of a record is not lost either: if the cabinet is behind 1C
\* and the next pull will not return the record, the version 1C has is kept for
\* replay or in the hands of the running job.
NewestNotLost ==
  \A r \in Records \ Refused :
    LET e == EntityOf[r] IN
      cabinet[r] # 0 /\ cabinet[r] # source[r] /\ source[r] < cursor[e] =>
        \/ pending[r].status = "pending" /\ pending[r].dto = source[r]
        \/ job[e].phase = "capture" /\ r \in job[e].skips /\ job[e].raw[r] = source[r]

\* Every record that appears in 1C reaches the cabinet or the dead letters, or is lost
\* with the skips of a job that broke off; one that a pull returns again is owed again.
NeverForgotten ==
  \A r \in Records \ Refused :
    source[r] # 0 ~> cabinet[r] # 0 \/ pending[r].status = "dead" \/ r \in lost

\* The backlog drains: no record is replayed forever.
BacklogDrains ==
  \A r \in Records : pending[r].status = "pending" ~> pending[r].status # "pending"

=============================================================================

---------------------------- MODULE OneCPullProofs ----------------------------
(***************************************************************************)
(* Theorems about OneCPull for any records, dependencies, overlap and      *)
(* limits: type correctness, and that no record falls behind the cursor    *)
(* unnoticed but the skips of a job that broke off before keeping them.    *)
(***************************************************************************)
EXTENDS OneCPull, TLAPS

USE PullAssumption

LEMMA ZeroStamp == 0 \in Stamps /\ Stamps \subseteq Int
BY DEF Stamps

LEMMA RetriedType ==
  ASSUME TypeOK, NEW r \in Records, NEW overAge \in BOOLEAN
  PROVE  Retried(r, overAge) \in Row
<1>1. pending[r] \in Row
  BY DEF TypeOK
<1> DEFINE n == IF pending[r].attempts < MaxAttempts THEN pending[r].attempts + 1 ELSE MaxAttempts
<1>2. n \in 0..MaxAttempts
  BY <1>1 DEF Row
<1> QED BY <1>1, <1>2 DEF Row, Retried

\* The jobs after one of them has gone on to j.
LEMMA JobType ==
  ASSUME TypeOK, NEW e \in Entities, NEW j \in Job, Goes(e, j)
  PROVE  job' \in [Entities -> Job]
BY DEF TypeOK, Goes

\* Type correctness.
THEOREM TypeCorrect == Spec => []TypeOK
<1>1. Init => TypeOK
  BY ZeroStamp DEF Init, TypeOK, NoRow, Row, Idle, Job
<1>2. TypeOK /\ [Next]_vars => TypeOK'
  <2> SUFFICES ASSUME TypeOK, [Next]_vars PROVE TypeOK'
    OBVIOUS
  <2> USE ZeroStamp
  <2>1. CASE UNCHANGED vars
    BY <2>1 DEF vars, TypeOK
  <2>2. ASSUME NEW r \in Records, Edit(r) PROVE TypeOK'
    BY <2>2 DEF Edit, TypeOK, Stamps
  <2>3. \A e \in Entities : job[e] \in Job
    BY DEF TypeOK
  <2>4. ASSUME NEW e \in Entities, PullStart(e) PROVE TypeOK'
    <3>1. \E j \in Job : Goes(e, j)
      <4> DEFINE pulled == {r \in RecordsOf(e) : source[r] # 0 /\ source[r] >= cursor[e]}
                 j == [phase |-> "write",
                       raw |-> [r \in Records |-> IF r \in pulled \ Refused THEN source[r] ELSE 0],
                       todo |-> pulled \ Refused, newest |-> 0, skips |-> {}]
      <4>1. j \in Job
        BY DEF TypeOK, Job, RecordsOf
      <4> QED BY <2>4, <4>1 DEF PullStart
    <3> QED BY <2>4, <3>1, JobType DEF PullStart, TypeOK
  <2>5. ASSUME NEW e \in Entities, WriteRecord(e) \/ RecordThrows(e) PROVE TypeOK'
    <3>1. PICK r \in job[e].todo :
            \/ /\ cabinet' = [cabinet EXCEPT ![r] = job[e].raw[r]]
               /\ Goes(e, [job[e] EXCEPT !.todo = @ \ {r}, !.raw[r] = 0,
                                         !.newest = Later(@, job[e].raw[r])])
            \/ /\ UNCHANGED cabinet
               /\ Goes(e, [job[e] EXCEPT !.todo = @ \ {r}, !.skips = @ \cup {r}])
            \/ \E w \in BOOLEAN :
                 /\ cabinet' = IF w THEN [cabinet EXCEPT ![r] = job[e].raw[r]] ELSE cabinet
                 /\ Goes(e, [job[e] EXCEPT !.todo = @ \ {r}, !.skips = @ \cup {r},
                               !.newest = IF w THEN Later(@, job[e].raw[r]) ELSE @])
      BY <2>5 DEF WriteRecord, RecordThrows
    <3>2. r \in Records /\ job[e].raw[r] \in Stamps /\ job[e].newest \in Stamps
      BY <2>3 DEF Job
    <3>3. Later(job[e].newest, job[e].raw[r]) \in Stamps
      BY <3>2 DEF Later
    <3>4. cabinet' \in [Records -> Stamps]
      BY <3>1, <3>2 DEF TypeOK
    <3>5. \E j \in Job : Goes(e, j)
      BY <2>3, <3>1, <3>2, <3>3 DEF Job
    <3>6. job' \in [Entities -> Job]
      BY <3>5, JobType
    <3>7. UNCHANGED <<source, cursor, pending, lost>> /\ (UNCHANGED breaks \/ Breaks)
      BY <2>5 DEF WriteRecord, RecordThrows
    <3>8. breaks' \in 0..MaxBreaks
      BY <3>7 DEF Breaks, TypeOK
    <3> QED BY <3>4, <3>6, <3>7, <3>8 DEF TypeOK
  <2>6. ASSUME NEW e \in Entities, AdvanceCursor(e) PROVE TypeOK'
    <3>1. BackOff(job[e].newest) \in Stamps
      BY <2>3 DEF BackOff, Job, Stamps
    <3>2. [job[e] EXCEPT !.phase = "capture", !.newest = 0] \in Job
      BY <2>3 DEF Job
    <3> QED BY <2>6, <3>1, <3>2, JobType DEF AdvanceCursor, TypeOK
  <2>7. ASSUME NEW e \in Entities, CaptureSkip(e) PROVE TypeOK'
    <3>1. PICK r \in job[e].skips :
            /\ pending' = [pending EXCEPT ![r] = Captured(e, r)]
            /\ Goes(e, [job[e] EXCEPT !.skips = @ \ {r}, !.raw[r] = 0])
      BY <2>7 DEF CaptureSkip
    <3>2. r \in Records /\ job[e].raw[r] \in Stamps /\ pending[r] \in Row
      BY <2>3 DEF Job, TypeOK
    <3>4. Captured(e, r) \in Row
      BY <3>2 DEF Captured, Row
    <3>3. [job[e] EXCEPT !.skips = @ \ {r}, !.raw[r] = 0] \in Job
      BY <2>3 DEF Job
    <3> QED BY <2>7, <3>1, <3>2, <3>3, <3>4, JobType DEF CaptureSkip, TypeOK
  <2>8. ASSUME NEW e \in Entities, ReplayStart(e) PROVE TypeOK'
    <3>1. [job[e] EXCEPT !.phase = "replay",
             !.todo = {r \in RecordsOf(e) : pending[r].status = "pending"}] \in Job
      BY <2>3 DEF Job, RecordsOf
    <3> QED BY <2>8, <3>1, JobType DEF ReplayStart, TypeOK
  <2>9. ASSUME NEW e \in Entities, ReplayRecord(e) \/ ReplayThrows(e) PROVE TypeOK'
    <3>1. PICK r \in job[e].todo :
            /\ Goes(e, [job[e] EXCEPT !.todo = @ \ {r}])
            /\ \/ /\ cabinet' = [cabinet EXCEPT ![r] = pending[r].dto]
                  /\ pending' = [pending EXCEPT ![r] = NoRow]
               \/ /\ UNCHANGED cabinet
                  /\ \E overAge \in BOOLEAN :
                       pending' = [pending EXCEPT ![r] = Retried(r, overAge)]
      BY <2>9 DEF ReplayRecord, ReplayThrows
    <3>2. r \in Records /\ pending[r].dto \in Stamps /\ NoRow \in Row
      BY <2>3 DEF Job, TypeOK, Row, NoRow
    <3>3. [job[e] EXCEPT !.todo = @ \ {r}] \in Job
      BY <2>3 DEF Job
    <3>4. cabinet' \in [Records -> Stamps] /\ pending' \in [Records -> Row]
      BY <3>1, <3>2, RetriedType DEF TypeOK
    <3>5. job' \in [Entities -> Job]
      BY <3>1, <3>3, JobType
    <3> QED BY <2>9, <3>4, <3>5 DEF ReplayRecord, ReplayThrows, Breaks, TypeOK
  <2>10. Idle \in Job
    BY DEF Idle, Job
  <2>11. ASSUME NEW e \in Entities, FinishJob(e) PROVE TypeOK'
    BY <2>11, <2>10, JobType DEF FinishJob, TypeOK
  <2>12. ASSUME NEW e \in Entities, JobDies(e) PROVE TypeOK'
    <3>1. cabinet' \in [Records -> Stamps]
      <4>1. CASE UNCHANGED cabinet
        BY <4>1 DEF TypeOK
      <4>2. ASSUME NEW r \in job[e].todo, cabinet' = [cabinet EXCEPT ![r] = pending[r].dto]
            PROVE  cabinet' \in [Records -> Stamps]
        BY <4>2, <2>3 DEF TypeOK, Row, Job
      <4> QED BY <2>12, <4>1, <4>2 DEF JobDies
    <3>2. job' \in [Entities -> Job]
      BY <2>12, <2>10, JobType DEF JobDies
    <3>3. lost' \subseteq Records
      BY <2>12, <2>3 DEF JobDies, Job, TypeOK
    <3> QED BY <2>12, <3>1, <3>2, <3>3 DEF JobDies, Breaks, TypeOK
  <2> QED
    BY <2>1, <2>2, <2>4, <2>5, <2>6, <2>7, <2>8, <2>9, <2>11, <2>12 DEF Next, JobStep
<1> QED BY <1>1, <1>2, PTL DEF Spec

-----------------------------------------------------------------------------
(* AccountedFor is not inductive: that moving the cursor leaves nothing      *)
(* behind rests on what the running job holds of its batch, and on the       *)
(* overlap, for the records that changed while the batch was being written.  *)

Held(r) == cabinet[r] # 0 \/ pending[r].status # "none" \/ r \in lost

\* The version of r in 1C is younger than anything job j writes, but for the lag.
Late(j, r) ==
  /\ source[r] + Lag >= j.newest
  /\ \A q \in j.todo : source[r] + Lag >= j.raw[q]

JobHolds(e, j) ==
  /\ j.todo \subseteq RecordsOf(e) /\ j.skips \subseteq RecordsOf(e)
  /\ j.phase \in {"write", "capture"} => \A r \in j.skips : j.raw[r] # 0
  /\ j.phase = "write" =>
       /\ j.todo \cap j.skips = {}
       /\ \A r \in j.todo : j.raw[r] # 0 /\ j.raw[r] <= source[r]
       /\ j.newest # 0 => \E q \in Records : j.newest <= source[q]
       /\ \A r \in RecordsOf(e) \ Refused :
            source[r] # 0 => r \in j.todo \/ r \in j.skips \/ Held(r) \/ Late(j, r)
  /\ j.phase = "replay" => \A r \in j.todo : pending[r].status # "none"

RowsHold == \A r \in Records : pending[r].status # "none" => pending[r].dto # 0

CursorHolds(e) == cursor[e] # 0 => \E q \in Records : cursor[e] + Overlap <= source[q]

PullInv ==
  /\ RowsHold
  /\ \A e \in Entities : CursorHolds(e)
  /\ \A e \in Entities : JobHolds(e, job[e])
  /\ AccountedFor

LEMMA PullInit == Init => PullInv
BY ZeroStamp DEF Init, PullInv, RowsHold, CursorHolds, JobHolds, AccountedFor, Idle, NoRow

\* A change in 1C: its stamp is no older than any cursor, and late for every job.
LEMMA EditStep ==
  ASSUME TypeOK, PullInv, NEW r \in Records, Edit(r)
  PROVE  PullInv'
<1>1. PICK t \in Stamps :
        /\ t > source[r]
        /\ \A q \in Records : t >= source[q] - Lag
        /\ source' = [source EXCEPT ![r] = t]
  <2>1. \A t \in StampsOf[r] : t \in Stamps
    BY DEF Stamps
  <2> QED BY <2>1 DEF Edit
<1>2. UNCHANGED <<cabinet, cursor, pending, job, breaks, lost>>
  BY DEF Edit
<1>3. /\ \A q \in Records : source[q] \in Int /\ source'[q] \in Int /\ source[q] <= source'[q]
      /\ source'[r] = t /\ t # 0
      /\ \A q \in Records : q # r => source'[q] = source[q]
      /\ \A q \in Records : source[q] >= 0
  BY <1>1 DEF TypeOK, Stamps
<1>4. RowsHold'
  BY <1>2 DEF PullInv, RowsHold
<1>5. \A e \in Entities : CursorHolds(e)'
  <2> SUFFICES ASSUME NEW e \in Entities PROVE CursorHolds(e)'
    OBVIOUS
  <2>1. cursor[e] \in Int /\ cursor'[e] = cursor[e] /\ CursorHolds(e)
    BY <1>2, ZeroStamp DEF TypeOK, PullInv
  <2> QED BY <2>1, <1>3 DEF CursorHolds
<1>6. ASSUME NEW e \in Entities PROVE JobHolds(e, job[e])'
  <2>1. PICK j \in Job : j = job[e]
    BY DEF TypeOK
  <2>2. JobHolds(e, j)
    BY <2>1 DEF PullInv
  <2>3. \A q \in Records : j.raw[q] \in Int /\ j.newest \in Int
    BY ZeroStamp DEF Job
  <2>4. j.todo \subseteq Records
    BY DEF Job
  <2>5. CASE j.phase = "write"
    <3>1. Late(j, r)'
      <4>1. t + Lag >= j.newest
        BY <2>2, <2>3, <2>5, <1>1, <1>3 DEF JobHolds
      <4>2. \A q \in j.todo : t + Lag >= j.raw[q]
        BY <2>2, <2>3, <2>4, <2>5, <1>1, <1>3 DEF JobHolds
      <4> QED BY <4>1, <4>2, <1>3 DEF Late
    <3>2. \A q \in RecordsOf(e) : q # r => (Late(j, q) => Late(j, q)') /\ (Held(q) => Held(q)')
      BY <1>2, <1>3 DEF Late, Held, RecordsOf
    <3>3. /\ \A q \in j.todo : j.raw[q] # 0 /\ j.raw[q] <= source'[q]
          /\ j.newest # 0 => \E q \in Records : j.newest <= source'[q]
      BY <2>2, <2>3, <2>4, <2>5, <1>3 DEF JobHolds
    <3>4. \A q \in RecordsOf(e) \ Refused :
            source'[q] # 0 => q \in j.todo \/ q \in j.skips \/ Held(q)' \/ Late(j, q)'
      BY <2>2, <2>5, <3>1, <3>2, <1>3 DEF JobHolds, RecordsOf
    <3>5. JobHolds(e, j)'
      BY <2>2, <2>5, <3>3, <3>4, <1>2 DEF JobHolds
    <3> QED BY <3>5, <2>1, <1>2 DEF JobHolds, Late
  <2>6. CASE j.phase # "write"
    <3>1. JobHolds(e, j)'
      BY <2>2, <2>6, <1>2 DEF JobHolds
    <3> QED BY <3>1, <2>1, <1>2 DEF JobHolds, Late
  <2> QED BY <2>5, <2>6
<1>7. AccountedFor'
  <2> SUFFICES ASSUME NEW q \in Records \ Refused,
                      source'[q] # 0, source'[q] < cursor'[EntityOf[q]]
               PROVE  Held(q)' \/ BeingCaptured(q)'
    BY DEF AccountedFor, Held
  <2>1. BeingCaptured(q)' <=> BeingCaptured(q)
    BY <1>2 DEF BeingCaptured
  <2>2. q # r
    <3>1. EntityOf[q] \in Entities
      OBVIOUS
    <3>2. CursorHolds(EntityOf[q]) /\ cursor[EntityOf[q]] \in Int /\ cursor[EntityOf[q]] >= 0
      BY <3>1 DEF PullInv, TypeOK, Stamps
    <3>3. t >= cursor[EntityOf[q]]
      BY <3>2, <1>1, <1>3 DEF CursorHolds
    <3> QED BY <3>2, <3>3, <1>2, <1>3
  <2> QED BY <2>1, <2>2, <1>2, <1>3 DEF PullInv, AccountedFor, Held
<1> QED BY <1>4, <1>5, <1>6, <1>7 DEF PullInv

\* A step of the job of e to j, which leaves the records of other entities alone.
LEMMA JobStepHolds ==
  ASSUME TypeOK, PullInv, NEW e \in Entities, NEW j \in Job, Goes(e, j),
         UNCHANGED source, RowsHold', CursorHolds(e)', JobHolds(e, j)',
         \A f \in Entities : f # e => cursor'[f] = cursor[f],
         \A r \in Records : r \notin RecordsOf(e) => (Held(r) => Held(r)'),
         \A r \in Records : r \notin RecordsOf(e) => pending'[r] = pending[r],
         \A r \in RecordsOf(e) \ Refused :
           source[r] # 0 /\ source[r] < cursor'[e] =>
             Held(r)' \/ (j.phase = "capture" /\ r \in j.skips)
  PROVE  PullInv'
<1>1. job'[e] = j /\ \A f \in Entities : f # e => job'[f] = job[f]
  BY DEF Goes, TypeOK
<1>2. \A f \in Entities : CursorHolds(f)'
  BY DEF PullInv, CursorHolds
<1>3. ASSUME NEW f \in Entities PROVE JobHolds(f, job[f])'
  <2>1. CASE f = e
    BY <2>1, <1>1 DEF JobHolds, Late
  <2>2. CASE f # e
    <3>1. PICK k \in Job : k = job[f]
      BY DEF TypeOK
    <3>2. JobHolds(f, k)
      BY <3>1 DEF PullInv
    <3>3. k.todo \subseteq Records /\ \A r \in RecordsOf(f) : r \in Records /\ r \notin RecordsOf(e)
      BY <2>2 DEF Job, RecordsOf
    <3>4. \A r \in RecordsOf(f) : pending'[r] = pending[r] /\ (Held(r) => Held(r)')
      BY <3>3
    <3>5. \A r \in Records : Late(k, r) => Late(k, r)'
      BY DEF Late
    <3>6. JobHolds(f, k)'
      BY <3>2, <3>3, <3>4, <3>5 DEF JobHolds
    <3> QED BY <3>1, <3>6, <2>2, <1>1 DEF JobHolds, Late
  <2> QED BY <2>1, <2>2
<1>4. AccountedFor'
  <2> SUFFICES ASSUME NEW r \in Records \ Refused,
                      source'[r] # 0, source'[r] < cursor'[EntityOf[r]]
               PROVE  Held(r)' \/ BeingCaptured(r)'
    BY DEF AccountedFor, Held
  <2>1. CASE EntityOf[r] = e
    <3>1. r \in RecordsOf(e) \ Refused
      BY <2>1 DEF RecordsOf
    <3>2. Held(r)' \/ (job'[EntityOf[r]].phase = "capture" /\ r \in job'[EntityOf[r]].skips)
      BY <3>1, <2>1, <1>1
    <3> QED BY <3>2 DEF BeingCaptured
  <2>2. CASE EntityOf[r] # e
    <3>1. cursor'[EntityOf[r]] = cursor[EntityOf[r]] /\ job'[EntityOf[r]] = job[EntityOf[r]]
      BY <2>2, <1>1
    <3>2. Held(r) => Held(r)'
      BY <2>2 DEF RecordsOf
    <3> QED BY <3>1, <3>2 DEF PullInv, AccountedFor, Held, BeingCaptured
  <2> QED BY <2>1, <2>2
<1> QED BY <1>2, <1>3, <1>4 DEF PullInv

\* What a job that is not capturing knows of the records behind its cursor.
LEMMA BehindIsHeld ==
  ASSUME TypeOK, PullInv, NEW e \in Entities, NEW r \in RecordsOf(e) \ Refused,
         source[r] # 0, source[r] < cursor[e]
  PROVE  Held(r) \/ (job[e].phase = "capture" /\ r \in job[e].skips)
BY DEF PullInv, AccountedFor, Held, BeingCaptured, RecordsOf

LEMMA PullStartStep ==
  ASSUME TypeOK, PullInv, NEW e \in Entities, PullStart(e)
  PROVE  PullInv'
<1> DEFINE pulled == {r \in RecordsOf(e) : source[r] # 0 /\ source[r] >= cursor[e]}
<1>1. PICK j \in Job :
        /\ Goes(e, j)
        /\ j.phase = "write" /\ j.newest = 0 /\ j.skips = {} /\ j.todo = pulled \ Refused
        /\ \A r \in j.todo : j.raw[r] = source[r]
  <2> DEFINE j == [phase |-> "write",
                   raw |-> [r \in Records |-> IF r \in pulled \ Refused THEN source[r] ELSE 0],
                   todo |-> pulled \ Refused, newest |-> 0, skips |-> {}]
  <2>1. j \in Job
    BY ZeroStamp DEF TypeOK, Job, RecordsOf
  <2>2. Goes(e, j)
    BY DEF PullStart
  <2>3. \A r \in j.todo : j.raw[r] = source[r]
    BY DEF RecordsOf
  <2> QED BY <2>1, <2>2, <2>3
<1>2. /\ UNCHANGED <<source, cabinet, cursor, pending>> /\ lost' = lost \ pulled
      /\ job[e].phase = "idle"
  BY DEF PullStart
<1>3. \A r \in Records : (r \notin pulled => (Held(r) => Held(r)')) /\ source[r] \in Int
  BY <1>2, ZeroStamp DEF Held, TypeOK
<1>4. \A r \in RecordsOf(e) \ Refused :
        source[r] # 0 /\ source[r] < cursor[e] => Held(r)'
  <2>1. cursor[e] \in Int
    BY ZeroStamp DEF TypeOK
  <2>2. \A r \in RecordsOf(e) : r \in Records /\ (source[r] < cursor[e] => r \notin pulled)
    BY <1>3, <2>1 DEF RecordsOf
  <2> QED BY <1>2, <1>3, <2>2, BehindIsHeld
<1>5. JobHolds(e, j)'
  <2>1. \A r \in RecordsOf(e) \ Refused : source[r] # 0 => r \in j.todo \/ Held(r)'
    <3>1. cursor[e] \in Int /\ \A r \in RecordsOf(e) : r \in Records
      BY ZeroStamp DEF TypeOK, RecordsOf
    <3>2. \A r \in RecordsOf(e) \ Refused :
            source[r] # 0 => source[r] < cursor[e] \/ r \in pulled \ Refused
      BY <3>1, <1>3
    <3> QED BY <3>2, <1>1, <1>4
  <2> QED BY <1>1, <1>2, <1>3, <2>1 DEF JobHolds, RecordsOf
<1>6. RowsHold' /\ CursorHolds(e)'
  BY <1>2 DEF PullInv, RowsHold, CursorHolds
<1>7. \A r \in Records : r \notin RecordsOf(e) => (Held(r) => Held(r)')
  BY <1>3
<1> QED BY <1>1, <1>2, <1>4, <1>5, <1>6, <1>7, JobStepHolds

\* The writer, whichever way it ends: the record is in the cabinet or among the skips.
LEMMA WriteStep ==
  ASSUME TypeOK, PullInv, NEW e \in Entities, WriteRecord(e) \/ RecordThrows(e)
  PROVE  PullInv'
<1>1. job[e] \in Job /\ JobHolds(e, job[e]) /\ job[e].phase = "write"
  BY DEF TypeOK, PullInv, WriteRecord, RecordThrows
<1>2. PICK k \in Job : k = job[e]
  BY <1>1
<1>3. PICK r \in k.todo :
        \/ /\ cabinet' = [cabinet EXCEPT ![r] = k.raw[r]]
           /\ Goes(e, [k EXCEPT !.todo = @ \ {r}, !.raw[r] = 0, !.newest = Later(@, k.raw[r])])
        \/ /\ UNCHANGED cabinet
           /\ Goes(e, [k EXCEPT !.todo = @ \ {r}, !.skips = @ \cup {r}])
        \/ /\ cabinet' = [cabinet EXCEPT ![r] = k.raw[r]]
           /\ Goes(e, [k EXCEPT !.todo = @ \ {r}, !.skips = @ \cup {r},
                                !.newest = Later(@, k.raw[r])])
  <2>1. \A r : [k EXCEPT !.todo = @ \ {r}, !.skips = @ \cup {r}, !.newest = @]
                 = [k EXCEPT !.todo = @ \ {r}, !.skips = @ \cup {r}]
    BY DEF Job
  <2> QED BY <1>2, <2>1 DEF WriteRecord, RecordThrows
<1>4. PICK j \in Job :
        /\ Goes(e, j)
        /\ j.phase = "write" /\ j.todo = k.todo \ {r}
        /\ \A q \in Records : q # r => j.raw[q] = k.raw[q]
        /\ \/ /\ cabinet' = [cabinet EXCEPT ![r] = k.raw[r]]
              /\ j.skips = k.skips \/ (j.skips = k.skips \cup {r} /\ j.raw[r] = k.raw[r])
              /\ j.newest = Later(k.newest, k.raw[r])
           \/ /\ UNCHANGED cabinet
              /\ j.skips = k.skips \cup {r} /\ j.raw[r] = k.raw[r]
              /\ j.newest = k.newest
  <2>1. r \in Records /\ k.raw[r] \in Stamps /\ k.newest \in Stamps /\ k.phase = "write"
    BY <1>1, <1>2 DEF Job
  <2>2. Later(k.newest, k.raw[r]) \in Stamps
    BY <2>1 DEF Later
  <2>4. CASE /\ cabinet' = [cabinet EXCEPT ![r] = k.raw[r]]
             /\ Goes(e, [k EXCEPT !.todo = @ \ {r}, !.raw[r] = 0, !.newest = Later(@, k.raw[r])])
    <3> DEFINE j == [k EXCEPT !.todo = @ \ {r}, !.raw[r] = 0, !.newest = Later(@, k.raw[r])]
    <3>1. /\ j \in Job /\ j.phase = "write" /\ j.todo = k.todo \ {r} /\ j.skips = k.skips
          /\ j.newest = Later(k.newest, k.raw[r])
          /\ \A q \in Records : q # r => j.raw[q] = k.raw[q]
      BY <2>1, <2>2, ZeroStamp DEF Job
    <3> QED BY <2>4, <3>1
  <2>5. CASE /\ UNCHANGED cabinet
             /\ Goes(e, [k EXCEPT !.todo = @ \ {r}, !.skips = @ \cup {r}])
    <3> DEFINE j == [k EXCEPT !.todo = @ \ {r}, !.skips = @ \cup {r}]
    <3>1. /\ j \in Job /\ j.phase = "write" /\ j.todo = k.todo \ {r}
          /\ j.skips = k.skips \cup {r} /\ j.newest = k.newest /\ j.raw = k.raw
      BY <2>1, <2>2, ZeroStamp DEF Job
    <3> QED BY <2>5, <3>1
  <2>6. CASE /\ cabinet' = [cabinet EXCEPT ![r] = k.raw[r]]
             /\ Goes(e, [k EXCEPT !.todo = @ \ {r}, !.skips = @ \cup {r},
                                  !.newest = Later(@, k.raw[r])])
    <3> DEFINE j == [k EXCEPT !.todo = @ \ {r}, !.skips = @ \cup {r}, !.newest = Later(@, k.raw[r])]
    <3>1. /\ j \in Job /\ j.phase = "write" /\ j.todo = k.todo \ {r}
          /\ j.skips = k.skips \cup {r} /\ j.newest = Later(k.newest, k.raw[r]) /\ j.raw = k.raw
      BY <2>1, <2>2, ZeroStamp DEF Job
    <3> QED BY <2>6, <3>1
  <2> QED BY <1>3, <2>4, <2>5, <2>6
<1>5. /\ UNCHANGED <<source, cursor, pending, lost>>
      /\ k.todo \subseteq Records /\ r \in RecordsOf(e) /\ r \in Records
  BY <1>1, <1>2 DEF WriteRecord, RecordThrows, Job, JobHolds, RecordsOf
<1>6. /\ JobHolds(e, k) /\ k.phase = "write" /\ k.raw[r] # 0 /\ k.raw[r] <= source[r]
      /\ r \notin k.skips
  BY <1>1, <1>2 DEF JobHolds
<1>7. /\ \A q \in Records : Held(q) => Held(q)'
      /\ cabinet' # cabinet => Held(r)'
  BY <1>4, <1>5, <1>6 DEF Held, TypeOK
<1>8. \A q \in Records : source[q] \in Int /\ k.raw[q] \in Int /\ k.newest \in Int
  BY <1>4, ZeroStamp DEF TypeOK, Job
<1>9. /\ j.newest # 0 => \E q \in Records : j.newest <= source[q]
      /\ \A q \in Records : Late(k, q) => Late(j, q)'
  <2>1. j.newest = k.newest \/ j.newest = k.raw[r]
    BY <1>4 DEF Later
  <2>2. j.newest # 0 => \E q \in Records : j.newest <= source[q]
    BY <2>1, <1>5, <1>6 DEF JobHolds
  <2>3. ASSUME NEW q \in Records, Late(k, q) PROVE Late(j, q)'
    BY <2>1, <2>3, <1>4, <1>5 DEF Late
  <2> QED BY <2>2, <2>3
<1>10. JobHolds(e, j)'
  <2>1. j.todo \subseteq RecordsOf(e) /\ j.skips \subseteq RecordsOf(e)
    BY <1>4, <1>5, <1>6 DEF JobHolds
  <2>2. \A q \in j.skips : j.raw[q] # 0
    BY <1>4, <1>5, <1>6, <2>1 DEF JobHolds, RecordsOf
  <2>3. /\ j.todo \cap j.skips = {}
        /\ \A q \in j.todo : j.raw[q] # 0 /\ j.raw[q] <= source[q]
    BY <1>4, <1>5, <1>6 DEF JobHolds
  <2>4. r \in j.skips \/ Held(r)'
    BY <1>4, <1>5, <1>6 DEF Held, TypeOK
  <2>5. \A q \in RecordsOf(e) \ Refused :
          source[q] # 0 => q \in j.todo \/ q \in j.skips \/ Held(q)' \/ Late(j, q)'
    BY <1>4, <1>6, <1>7, <1>9, <2>4 DEF JobHolds, RecordsOf
  <2> QED BY <1>4, <1>5, <1>9, <2>1, <2>2, <2>3, <2>5 DEF JobHolds
<1>11. \A q \in RecordsOf(e) \ Refused : source[q] # 0 /\ source[q] < cursor[e] => Held(q)'
  BY <1>2, <1>6, <1>7, BehindIsHeld DEF RecordsOf
<1>12. RowsHold' /\ CursorHolds(e)'
  BY <1>5 DEF PullInv, RowsHold, CursorHolds
<1> QED BY <1>4, <1>5, <1>7, <1>10, <1>11, <1>12, JobStepHolds

\* Moving the cursor: what it passes is in the cabinet, kept, or among the skips.
LEMMA AdvanceStep ==
  ASSUME TypeOK, PullInv, NEW e \in Entities, AdvanceCursor(e)
  PROVE  PullInv'
<1>1. PICK k \in Job : k = job[e]
  BY DEF TypeOK
<1>2. JobHolds(e, k) /\ k.phase = "write" /\ k.todo = {} /\ k.newest \in Int /\ k.newest >= 0
  BY <1>1 DEF PullInv, AdvanceCursor, Job, Stamps
<1>3. PICK j \in Job :
        Goes(e, j) /\ j.phase = "capture" /\ j.todo = {} /\ j.skips = k.skips /\ j.raw = k.raw
  <2> DEFINE j == [k EXCEPT !.phase = "capture", !.newest = 0]
  <2>1. j \in Job /\ j.phase = "capture" /\ j.todo = {} /\ j.skips = k.skips /\ j.raw = k.raw
    BY <1>2, ZeroStamp DEF Job
  <2> QED BY <2>1, <1>1 DEF AdvanceCursor
<1>4. /\ UNCHANGED <<source, cabinet, pending, lost>>
      /\ cursor' = IF k.newest = 0 THEN cursor ELSE [cursor EXCEPT ![e] = BackOff(k.newest)]
  BY <1>1 DEF AdvanceCursor
<1>5. /\ \A f \in Entities : f # e => cursor'[f] = cursor[f]
      /\ k.newest = 0 => cursor'[e] = cursor[e]
      /\ k.newest # 0 => cursor'[e] = BackOff(k.newest)
  BY <1>4 DEF TypeOK
<1>6. \A r \in Records : (Held(r) <=> Held(r)') /\ source[r] \in Int /\ source[r] >= 0
  BY <1>4 DEF Held, TypeOK, Stamps
<1>7. CursorHolds(e)'
  <2>1. CASE k.newest = 0
    BY <2>1, <1>4 DEF PullInv, CursorHolds
  <2>2. CASE k.newest # 0
    <3>1. PICK q \in Records : k.newest <= source[q]
      BY <2>2, <1>2 DEF JobHolds
    <3>2. BackOff(k.newest) # 0 => BackOff(k.newest) + Overlap <= source[q]
      BY <3>1, <1>2, <1>6 DEF BackOff
    <3> QED BY <3>2, <2>2, <1>4, <1>5 DEF CursorHolds
  <2> QED BY <2>1, <2>2
<1>8. JobHolds(e, j)' /\ RowsHold'
  BY <1>2, <1>3, <1>4 DEF JobHolds, PullInv, RowsHold
<1>9. ASSUME NEW r \in RecordsOf(e) \ Refused, source[r] # 0, source[r] < cursor'[e]
      PROVE  Held(r)' \/ (j.phase = "capture" /\ r \in j.skips)
  <2>1. r \in Records
    BY DEF RecordsOf
  <2>2. CASE k.newest = 0
    BY <2>1, <2>2, <1>1, <1>2, <1>5, <1>6, <1>9, BehindIsHeld
  <2>3. CASE k.newest # 0
    <3>1. ~ Late(k, r)
      BY <2>1, <2>3, <1>2, <1>5, <1>6, <1>9 DEF Late, BackOff
    <3> QED BY <3>1, <2>1, <1>2, <1>3, <1>6, <1>9 DEF JobHolds
  <2> QED BY <2>2, <2>3
<1> QED BY <1>3, <1>4, <1>5, <1>6, <1>7, <1>8, <1>9, JobStepHolds

LEMMA CaptureStep ==
  ASSUME TypeOK, PullInv, NEW e \in Entities, CaptureSkip(e)
  PROVE  PullInv'
<1>1. PICK k \in Job : k = job[e]
  BY DEF TypeOK
<1>2. PICK r \in k.skips :
        /\ pending' = [pending EXCEPT ![r] = Captured(e, r)]
        /\ Goes(e, [k EXCEPT !.skips = @ \ {r}, !.raw[r] = 0])
  BY <1>1 DEF CaptureSkip
<1>3. /\ k.phase = "capture" /\ JobHolds(e, k)
      /\ UNCHANGED <<source, cabinet, cursor, lost>>
      /\ r \in Records /\ r \in RecordsOf(e) /\ k.raw[r] # 0
  BY <1>1, <1>2 DEF CaptureSkip, PullInv, JobHolds, RecordsOf
<1>4. PICK j \in Job :
        /\ Goes(e, j) /\ j.phase = "capture" /\ j.todo = k.todo /\ j.skips = k.skips \ {r}
        /\ \A q \in Records : q # r => j.raw[q] = k.raw[q]
  <2> DEFINE j == [k EXCEPT !.skips = @ \ {r}, !.raw[r] = 0]
  <2>1. /\ j \in Job /\ j.phase = "capture" /\ j.todo = k.todo /\ j.skips = k.skips \ {r}
        /\ \A q \in Records : q # r => j.raw[q] = k.raw[q]
    BY <1>3, ZeroStamp DEF Job
  <2> QED BY <1>2, <2>1
<1>5. /\ pending'[r].status = "pending" /\ pending'[r].dto # 0
      /\ \A q \in Records : q # r => pending'[q] = pending[q]
  <2>1. Captured(e, r).status = "pending" /\ Captured(e, r).dto # 0
    BY <1>1, <1>3 DEF Captured, TypeOK, Row, PullInv, RowsHold
  <2> QED BY <2>1, <1>2, <1>3 DEF TypeOK
<1>6. RowsHold' /\ CursorHolds(e)'
  BY <1>3, <1>5 DEF PullInv, RowsHold, CursorHolds
<1>7. \A q \in Records : Held(q) => Held(q)'
  BY <1>3, <1>5 DEF Held
<1>8. JobHolds(e, j)'
  BY <1>3, <1>4 DEF JobHolds, RecordsOf
<1>9. \A q \in RecordsOf(e) \ Refused :
        source[q] # 0 /\ source[q] < cursor[e] => Held(q)' \/ q \in j.skips
  BY <1>1, <1>3, <1>4, <1>5, <1>7, BehindIsHeld DEF RecordsOf, Held
<1> QED BY <1>3, <1>4, <1>5, <1>6, <1>7, <1>8, <1>9, JobStepHolds

LEMMA ReplayStartStep ==
  ASSUME TypeOK, PullInv, NEW e \in Entities, ReplayStart(e)
  PROVE  PullInv'
<1> DEFINE backlog == {r \in RecordsOf(e) : pending[r].status = "pending"}
<1>1. PICK k \in Job : k = job[e]
  BY DEF TypeOK
<1>2. /\ k.phase = "capture" /\ k.skips = {}
      /\ UNCHANGED <<source, cabinet, cursor, pending, lost>>
  BY <1>1 DEF ReplayStart
<1>3. PICK j \in Job : Goes(e, j) /\ j.phase = "replay" /\ j.skips = {} /\ j.todo = backlog
  <2> DEFINE j == [k EXCEPT !.phase = "replay", !.todo = backlog]
  <2>1. j \in Job /\ j.phase = "replay" /\ j.skips = {} /\ j.todo = backlog
    BY <1>2 DEF Job, RecordsOf
  <2> QED BY <2>1, <1>1 DEF ReplayStart
<1>4. RowsHold' /\ CursorHolds(e)' /\ \A r \in Records : Held(r) => Held(r)'
  BY <1>2 DEF PullInv, RowsHold, CursorHolds, Held
<1>5. JobHolds(e, j)'
  BY <1>2, <1>3 DEF JobHolds
<1>6. \A r \in RecordsOf(e) \ Refused : source[r] # 0 /\ source[r] < cursor[e] => Held(r)'
  BY <1>1, <1>2, <1>4, BehindIsHeld DEF RecordsOf
<1> QED BY <1>2, <1>3, <1>4, <1>5, <1>6, JobStepHolds

\* A replayed row is in the cabinet or still a row.
LEMMA ReplayStep ==
  ASSUME TypeOK, PullInv, NEW e \in Entities, ReplayRecord(e) \/ ReplayThrows(e)
  PROVE  PullInv'
<1>1. PICK k \in Job : k = job[e]
  BY DEF TypeOK
<1>2. PICK r \in k.todo :
        /\ Goes(e, [k EXCEPT !.todo = @ \ {r}])
        /\ \/ /\ cabinet' = [cabinet EXCEPT ![r] = pending[r].dto]
              /\ pending' = [pending EXCEPT ![r] = NoRow]
           \/ /\ UNCHANGED cabinet
              /\ \E overAge \in BOOLEAN :
                   pending' = [pending EXCEPT ![r] = Retried(r, overAge)]
  BY <1>1 DEF ReplayRecord, ReplayThrows
<1>3. /\ k.phase = "replay" /\ JobHolds(e, k) /\ UNCHANGED <<source, cursor, lost>>
      /\ r \in Records /\ r \in RecordsOf(e)
      /\ pending[r].status # "none" /\ pending[r].dto # 0 /\ pending[r] \in Row
  BY <1>1, <1>2 DEF ReplayRecord, ReplayThrows, PullInv, JobHolds, RecordsOf, RowsHold, TypeOK
<1>4. PICK j \in Job :
        Goes(e, j) /\ j.phase = "replay" /\ j.todo = k.todo \ {r} /\ j.skips = k.skips
  <2> DEFINE j == [k EXCEPT !.todo = @ \ {r}]
  <2>1. j \in Job /\ j.phase = "replay" /\ j.todo = k.todo \ {r} /\ j.skips = k.skips
    BY <1>3 DEF Job
  <2> QED BY <1>2, <2>1
<1>5. /\ \A q \in Records : q # r => pending'[q] = pending[q] /\ cabinet'[q] = cabinet[q]
      /\ \/ cabinet'[r] # 0 /\ pending'[r].status = "none"
         \/ /\ cabinet'[r] = cabinet[r]
            /\ pending'[r].status # "none" /\ pending'[r].dto = pending[r].dto
  <2>1. \A overAge \in BOOLEAN :
          Retried(r, overAge).status # "none" /\ Retried(r, overAge).dto = pending[r].dto
    BY <1>3 DEF Retried, Row
  <2> QED BY <2>1, <1>2, <1>3 DEF TypeOK, NoRow
<1>6. RowsHold' /\ CursorHolds(e)' /\ \A q \in Records : Held(q) => Held(q)'
  BY <1>3, <1>5 DEF PullInv, RowsHold, CursorHolds, Held
<1>7. JobHolds(e, j)'
  BY <1>3, <1>4, <1>5 DEF JobHolds, RecordsOf
<1>8. \A q \in RecordsOf(e) \ Refused : source[q] # 0 /\ source[q] < cursor[e] => Held(q)'
  BY <1>1, <1>3, <1>6, BehindIsHeld DEF RecordsOf
<1>9. \A q \in Records : q \notin RecordsOf(e) => pending'[q] = pending[q]
  BY <1>3, <1>5
<1> QED BY <1>3, <1>4, <1>6, <1>7, <1>8, <1>9, JobStepHolds

\* The end of a job, in good order or by dying: what it was still to keep is named as lost.
LEMMA EndStep ==
  ASSUME TypeOK, PullInv, NEW e \in Entities,
         FinishJob(e) \/ JobDies(e)
  PROVE  PullInv'
<1>1. Goes(e, Idle) /\ Idle \in Job /\ UNCHANGED <<source, cursor, pending>>
  BY ZeroStamp DEF FinishJob, JobDies, Idle, Job
<1>2. /\ lost \subseteq lost'
      /\ job[e].phase = "capture" => job[e].skips \subseteq lost'
  BY DEF FinishJob, JobDies
<1>3. \A q \in Records : Held(q) => Held(q)'
  <2>1. CASE UNCHANGED cabinet
    BY <2>1, <1>1, <1>2 DEF Held
  <2>2. ASSUME NEW r \in job[e].todo, job[e].phase = "replay",
               cabinet' = [cabinet EXCEPT ![r] = pending[r].dto]
        PROVE  \A q \in Records : Held(q) => Held(q)'
    <3>1. r \in Records /\ pending[r].dto # 0
      BY <2>2 DEF PullInv, JobHolds, RecordsOf, RowsHold
    <3> QED BY <2>2, <3>1, <1>1, <1>2 DEF Held, TypeOK
  <2> QED BY <2>1, <2>2 DEF FinishJob, JobDies
<1>4. RowsHold' /\ CursorHolds(e)' /\ JobHolds(e, Idle)'
  BY <1>1 DEF PullInv, RowsHold, CursorHolds, JobHolds, Idle
<1>5. \A r \in RecordsOf(e) \ Refused : source[r] # 0 /\ source[r] < cursor[e] => Held(r)'
  <2>1. ASSUME NEW r \in RecordsOf(e), job[e].phase = "capture", r \in job[e].skips
        PROVE  Held(r)'
    BY <2>1, <1>2 DEF Held
  <2> QED BY <2>1, <1>3, BehindIsHeld DEF RecordsOf
<1> QED BY <1>1, <1>3, <1>4, <1>5, JobStepHolds

\* Whatever changes in 1C, whichever writes fail and wherever jobs die, a record the
\* next pull will not return is in the cabinet, in the backlog or among the dead
\* letters; the only ones that are not are the skips of a job that broke off between
\* moving its cursor and keeping them (and that no pull has returned since).
THEOREM AccountedForAlways == Spec => []AccountedFor
<1>1. TypeOK /\ PullInv /\ [Next]_vars => PullInv'
  <2> SUFFICES ASSUME TypeOK, PullInv, [Next]_vars PROVE PullInv'
    OBVIOUS
  <2>1. CASE UNCHANGED vars
    BY <2>1 DEF vars, PullInv, RowsHold, CursorHolds, JobHolds, Late, Held, AccountedFor,
                BeingCaptured
  <2>2. CASE Next
    BY <2>2, EditStep, PullStartStep, WriteStep, AdvanceStep, CaptureStep, ReplayStartStep,
       ReplayStep, EndStep DEF Next, JobStep
  <2> QED BY <2>1, <2>2
<1>2. PullInv => AccountedFor
  BY DEF PullInv
<1> QED BY <1>1, <1>2, PullInit, TypeCorrect, PTL DEF Spec
===============================================================================

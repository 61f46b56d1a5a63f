---------------------------- MODULE PushLeadProofs ----------------------------
(* Theorems about PushLead, for every set of leads and jobs, every length of   *)
(* a day and any number of breakdowns.                                         *)
EXTENDS PushLead, TLAPS

USE DEF Free

-----------------------------------------------------------------------------
(* Types.                                                                    *)

LEMMA Bounds == /\ Day \in Nat /\ Day > 0 /\ Old \in Nat /\ Old = Day + 1
                /\ Memory \in Nat /\ Forgotten \in Nat /\ Forgotten = Memory + 1
                /\ MaxAttempts \in Nat /\ MaxAttempts > 0
                /\ Delay \in Nat /\ MaxAsks \in Nat /\ MaxTrouble \in Nat
BY PushAssumption DEF Old, Memory, Forgotten

LEMMA NoJobType == NoJob \in TypeOfJob
BY Bounds DEF NoJob, TypeOfJob, JobStates

LEMMA AgedType ==
  ASSUME NEW top \in Nat, NEW n \in {Free} \cup 0..top
  PROVE  /\ Aged(n, top) \in {Free} \cup 0..top
         /\ n # Free => Aged(n, top) \in 0..top /\ Aged(n, top) >= n
         /\ n = Free <=> Aged(n, top) = Free
BY DEF Aged

\* What a step writes into job and check keeps their types.
LEMMA JobType ==
  ASSUME TypeOK, NEW j \in Jobs
  PROVE  /\ \A st \in JobStates : JobGoes(j, st) => job' \in [Jobs -> TypeOfJob]
         /\ JobEnds(j) => job' \in [Jobs -> TypeOfJob]
         /\ \A l \in Leads : Enqueued(j, l) => job' \in [Jobs -> TypeOfJob]
<1>1. job \in [Jobs -> TypeOfJob] /\ job[j] \in TypeOfJob
  BY DEF TypeOK
<1>2. ASSUME NEW st \in JobStates, JobGoes(j, st)
      PROVE  job' \in [Jobs -> TypeOfJob]
  <2>1. [job[j] EXCEPT !.st = st] \in TypeOfJob
    BY <1>1 DEF TypeOfJob
  <2> QED BY <1>1, <1>2, <2>1 DEF JobGoes
<1>3. ASSUME JobEnds(j) PROVE job' \in [Jobs -> TypeOfJob]
  BY <1>1, <1>3, NoJobType DEF JobEnds
<1>4. ASSUME NEW l \in Leads, Enqueued(j, l) PROVE job' \in [Jobs -> TypeOfJob]
  <2>1. [st |-> "waiting", lead |-> {l}, attempts |-> 0] \in TypeOfJob
    BY Bounds DEF TypeOfJob, JobStates
  <2> QED BY <1>1, <1>4, <2>1 DEF Enqueued
<1> QED BY <1>2, <1>3, <1>4

LEMMA TroubleType == ASSUME TypeOK, Trouble PROVE trouble' \in 0..MaxTrouble
BY Bounds DEF TypeOK, Trouble

LEMMA InitType == Init => TypeOK
BY Bounds, NoJobType
   DEF Init, TypeOK, NoCheck, TypeOfCheck

LEMMA JobStepType ==
  ASSUME TypeOK, NEW j \in Jobs, JobStep(j) \/ WorkerDies(j)
         \/ \E l \in Leads : AskToPush(j, l) \/ SavingFails(j, l)
  PROVE  TypeOK'
<1>1. {"read", "waiting", "sending", "numbered", "confirming", "releasing", "failing"}
        \subseteq JobStates
  BY DEF JobStates
<1>2. ASSUME NEW l \in Leads, AskToPush(j, l) PROVE TypeOK'
  BY <1>2, JobType, Bounds DEF AskToPush, TypeOK, rows
<1>3. ASSUME NEW l \in Leads, ReadLead(j, l) \/ Answered(j, l) \/ CallFails(j, l)
      PROVE TypeOK'
  <2>1. job' \in [Jobs -> TypeOfJob]
    BY <1>3, <1>1, JobType DEF ReadLead, Answered, CallFails
  <2> QED BY <1>3, <2>1 DEF ReadLead, Answered, CallFails, TypeOK, rows
<1>4. ASSUME NEW l \in Leads, ClaimLead(j, l) PROVE TypeOK'
  <2>1. job' \in [Jobs -> TypeOfJob] /\ claim' \in [Leads -> {Free} \cup 0..Old]
    BY <1>4, <1>1, JobType, Bounds DEF ClaimLead, TypeOK
  <2> QED BY <1>4, <2>1 DEF ClaimLead, TypeOK
<1>5. ASSUME NEW l \in Leads, StoreNumber(j, l) \/ LogSuccess(j, l) PROVE TypeOK'
  <2>1. job' \in [Jobs -> TypeOfJob]
    BY <1>5, <1>1, JobType DEF StoreNumber, LogSuccess
  <2> QED BY <1>5, <2>1 DEF StoreNumber, LogSuccess, TypeOK
<1>6. ASSUME NEW l \in Leads, SavingFails(j, l) PROVE TypeOK'
  <2>1. job' \in [Jobs -> TypeOfJob]
    BY <1>6, <1>1, JobType DEF SavingFails
  <2> QED BY <1>6, <2>1, Bounds DEF SavingFails, Trouble, TypeOK, rows
<1>7. ASSUME NEW l \in Leads, ReleaseClaim(j, l) PROVE TypeOK'
  <2>1. job' \in [Jobs -> TypeOfJob]
    BY <1>7, <1>1, JobType DEF ReleaseClaim
  <2>2. claim' \in [Leads -> {Free} \cup 0..Old] /\ trouble' \in 0..MaxTrouble
    BY <1>7, Bounds DEF ReleaseClaim, Trouble, TypeOK
  <2> QED BY <1>7, <2>1, <2>2 DEF ReleaseClaim, TypeOK
<1>8. ASSUME NEW l \in Leads, AttemptFails(j, l) PROVE TypeOK'
  <2>1. CASE LastAttempt(job[j].attempts + 1)
    BY <1>8, <2>1, JobType DEF AttemptFails, AttemptOver, TypeOK, rows
  <2>2. CASE ~LastAttempt(job[j].attempts + 1)
    <3>0. job[j] \in TypeOfJob
      BY DEF TypeOK
    <3>1. [job[j] EXCEPT !.st = "waiting", !.attempts = @ + 1] \in TypeOfJob
      <4>1. job[j].attempts + 1 \in 0..MaxAttempts - 1
        BY <2>2, <3>0, Bounds DEF TypeOfJob, LastAttempt
      <4> QED BY <3>0, <4>1 DEF TypeOfJob, JobStates
    <3>2. job' \in [Jobs -> TypeOfJob]
      BY <1>8, <2>2, <3>1 DEF AttemptFails, AttemptOver, TypeOK
    <3> QED BY <1>8, <2>2, <3>2 DEF AttemptFails, AttemptOver, TypeOK, rows
  <2> QED BY <2>1, <2>2
<1>9. ASSUME WorkerDies(j) PROVE TypeOK'
  <2>1. job' \in [Jobs -> TypeOfJob]
    BY <1>9, <1>1, JobType DEF WorkerDies
  <2> QED BY <1>9, <2>1, Bounds DEF WorkerDies, Trouble, TypeOK, rows
<1> QED BY <1>2, <1>3, <1>4, <1>5, <1>6, <1>7, <1>8, <1>9 DEF JobStep

LEMMA CheckStepType ==
  ASSUME TypeOK, CheckStep \/ CheckDies \/ \E l \in Leads : RequeueFails(l)
  PROVE  TypeOK'
<1>1. check \in TypeOfCheck /\ NoCheck \in TypeOfCheck
  BY DEF TypeOK, TypeOfCheck, NoCheck
<1>2. ASSUME CheckStarts PROVE TypeOK'
  <2>1. check' \in TypeOfCheck
    BY <1>2, <1>1 DEF CheckStarts, TypeOfCheck
  <2> QED BY <1>2, <2>1, Bounds DEF CheckStarts, TypeOK, rows
<1>3. ASSUME CheckEnds PROVE TypeOK'
  BY <1>3, <1>1 DEF CheckEnds, TypeOK, rows
<1>4. ASSUME NEW l \in Leads, GiveUp(l) PROVE TypeOK'
  <2>1. check' \in TypeOfCheck
    BY <1>4, <1>1 DEF GiveUp, TypeOfCheck
  <2> QED BY <1>4, <2>1 DEF GiveUp, TypeOK, rows
<1>5. ASSUME NEW l \in Leads, ClearClaim(l) PROVE TypeOK'
  <2>1. check' \in TypeOfCheck
    BY <1>5, <1>1 DEF ClearClaim, TypeOfCheck
  <2>2. claim' \in [Leads -> {Free} \cup 0..Old]
    BY <1>5 DEF ClearClaim, TypeOK
  <2> QED BY <1>5, <2>1, <2>2 DEF ClearClaim, TypeOK
<1>6. ASSUME NEW l \in Leads, NoteRequeued(l) PROVE TypeOK'
  <2>1. check' \in TypeOfCheck
    BY <1>6, <1>1 DEF NoteRequeued, TypeOfCheck
  <2>2. note' \in [Leads -> 0..Forgotten]
    BY <1>6, Bounds DEF NoteRequeued, TypeOK
  <2> QED BY <1>6, <2>1, <2>2 DEF NoteRequeued, TypeOK
<1>7. ASSUME NEW l \in Leads, NEW j \in Jobs, Requeue(j, l) PROVE TypeOK'
  <2>1. check' \in TypeOfCheck
    BY <1>7, <1>1 DEF Requeue, TypeOfCheck
  <2>2. job' \in [Jobs -> TypeOfJob]
    BY <1>7, JobType DEF Requeue
  <2> QED BY <1>7, <2>1, <2>2 DEF Requeue, TypeOK, rows
<1>8. ASSUME NEW l \in Leads, RequeueFails(l) PROVE TypeOK'
  <2>1. check' \in TypeOfCheck
    BY <1>8, <1>1 DEF RequeueFails, TypeOfCheck
  <2>2. trouble' \in 0..MaxTrouble
    BY <1>8, TroubleType DEF RequeueFails
  <2>3. UNCHANGED <<rows, job, sinceRun, asks, story, dropped>>
    BY <1>8 DEF RequeueFails
  <2> QED BY <2>1, <2>2, <2>3 DEF TypeOK, rows
<1>9. ASSUME CheckDies PROVE TypeOK'
  <2>1. check.stuck \subseteq Leads /\ check.lead \subseteq Leads
    BY <1>1 DEF TypeOfCheck
  <2>2. dropped' \subseteq Leads
    BY <1>9, <2>1 DEF CheckDies, TypeOK
  <2>3. trouble' \in 0..MaxTrouble /\ check' \in TypeOfCheck
    BY <1>9, <1>1, Bounds DEF CheckDies, Trouble, TypeOK
  <2>4. UNCHANGED <<rows, job, sinceRun, asks, story>>
    BY <1>9 DEF CheckDies
  <2> QED BY <2>2, <2>3, <2>4 DEF TypeOK, rows
<1> QED BY <1>2, <1>3, <1>4, <1>5, <1>6, <1>7, <1>8, <1>9 DEF CheckStep

LEMMA TickType == ASSUME TypeOK, Tick PROVE TypeOK'
<1>1. claim' \in [Leads -> {Free} \cup 0..Old]
  BY AgedType, Bounds DEF Tick, TypeOK
<1>2. note' \in [Leads -> 0..Forgotten]
  <2>1. \A l \in Leads : Aged(note[l], Forgotten) \in 0..Forgotten
    BY AgedType, Bounds DEF TypeOK
  <2> QED BY <2>1 DEF Tick
<1>3. sinceRun' \in 0..Day + Delay
  BY Bounds DEF Tick, TypeOK
<1> QED BY <1>1, <1>2, <1>3 DEF Tick, TypeOK

LEMMA StepType == TypeOK /\ [Next]_vars => TypeOK'
<1> SUFFICES ASSUME TypeOK, [Next]_vars PROVE TypeOK'
  OBVIOUS
<1>1. CASE UNCHANGED vars
  BY <1>1 DEF vars, rows, TypeOK
<1> QED BY <1>1, JobStepType, CheckStepType, TickType DEF Next

\* Every age, counter and record keeps its type.
THEOREM TypeCorrect == Spec => []TypeOK
<1>1. TypeOK /\ [Next]_vars => TypeOK'
  BY StepType
<1> QED BY <1>1, InitType, PTL DEF Spec

-----------------------------------------------------------------------------
(* One sender.  A claim that a job acts on is at most a day old, and the     *)
(* check clears only claims that were older when it started; so what it      *)
(* clears later on is no job's, although its update only asks for a claim    *)
(* that is not NULL.  And a claim with a success row is never cleared.       *)

ClaimsAreOwned ==
  \A j \in Jobs, l \in Leads : Holds(j, l) => claim[l] \in 0..Day

TodoIsAbandoned ==
  \A l \in check.todo : claim[l] > Day /\ l \notin accepted

AcceptedStaysClaimed ==
  \A l \in accepted : claim[l] # Free /\ \A j \in Jobs : ~Holds(j, l)

\* A slot without a job, and a check that does not run, hold nothing.
NothingIdle ==
  /\ check.st = "idle" => check = NoCheck
  /\ \A j \in Jobs : job[j].st = "none" => job[j].lead = {}

ClaimInv == TypeOK /\ OneSender /\ ClaimsAreOwned /\ TodoIsAbandoned
            /\ AcceptedStaysClaimed /\ NothingIdle

\* A step of a job that is not the winning of a claim makes nobody an owner.
LEMMA NoNewOwner ==
  ASSUME TypeOK, NEW j \in Jobs, NEW l \in Leads, For(j, l),
         \/ JobEnds(j)
         \/ \E st \in JobStates :
              JobGoes(j, st) /\ (st \in Owns => job[j].st \in Owns)
  PROVE  /\ \A i \in Jobs, m \in Leads : Holds(i, m)' => Holds(i, m)
         /\ \A i \in Jobs \ {j} : job'[i] = job[i]
<1>1. job \in [Jobs -> TypeOfJob]
  BY DEF TypeOK
<1>2. \A i \in Jobs \ {j} : job'[i] = job[i]
  BY <1>1 DEF JobEnds, JobGoes
<1>3. ASSUME NEW m \in Leads, Holds(j, m)' PROVE Holds(j, m)
  <2>1. CASE JobEnds(j)
    BY <1>1, <1>3, <2>1 DEF JobEnds, NoJob, Holds, For, Owns
  <2>2. ASSUME NEW st \in JobStates, JobGoes(j, st), st \in Owns => job[j].st \in Owns
        PROVE  Holds(j, m)
    <3>1. job'[j].st = st /\ job'[j].lead = job[j].lead
      BY <1>1, <2>2 DEF JobGoes, TypeOfJob
    <3> QED BY <1>3, <2>2, <3>1 DEF Holds, For
  <2> QED BY <2>1, <2>2
<1> QED BY <1>2, <1>3 DEF Holds, For

\* ... so whatever else it does, the invariant survives when the claims of others and
\* the success rows stay.
LEMMA OwnersShrink ==
  ASSUME ClaimInv, TypeOK',
         \A i \in Jobs, m \in Leads : Holds(i, m)' => Holds(i, m),
         UNCHANGED <<claim, accepted>>, check'.todo \subseteq check.todo
  PROVE  (OneSender /\ ClaimsAreOwned /\ TodoIsAbandoned /\ AcceptedStaysClaimed)'
<1>1. OneSender'
  BY DEF ClaimInv, OneSender
<1>2. ClaimsAreOwned'
  BY DEF ClaimInv, ClaimsAreOwned
<1>3. TodoIsAbandoned'
  BY DEF ClaimInv, TodoIsAbandoned
<1>4. AcceptedStaysClaimed'
  BY DEF ClaimInv, AcceptedStaysClaimed, TypeOK
<1> QED BY <1>1, <1>2, <1>3, <1>4

LEMMA InitClaims == Init => ClaimInv
<1> SUFFICES ASSUME Init PROVE ClaimInv
  OBVIOUS
<1>1. TypeOK /\ NothingIdle /\ TodoIsAbandoned /\ AcceptedStaysClaimed
  BY InitType DEF Init, NothingIdle, NoJob, NoCheck, TodoIsAbandoned, AcceptedStaysClaimed
<1>2. \A j \in Jobs, l \in Leads : ~Holds(j, l)
  BY DEF Init, NoJob, Holds, Owns
<1> QED BY <1>1, <1>2 DEF ClaimInv, OneSender, ClaimsAreOwned

LEMMA SlotsStep == ASSUME TypeOK, NothingIdle, [Next]_vars PROVE NothingIdle'
<1>1. job \in [Jobs -> TypeOfJob] /\ check \in TypeOfCheck
  BY DEF TypeOK
<1>2. ASSUME UNCHANGED job
      PROVE  \A j \in Jobs : job'[j].st = "none" => job'[j].lead = {}
  BY <1>2 DEF NothingIdle
<1>3. ASSUME NEW i \in Jobs,
             \/ JobEnds(i)
             \/ \E l \in Leads : Enqueued(i, l)
             \/ \E st \in JobStates \ {"none"} : JobGoes(i, st)
             \/ job' = [job EXCEPT ![i].st = "waiting", ![i].attempts = @ + 1]
      PROVE  \A j \in Jobs : job'[j].st = "none" => job'[j].lead = {}
  <2>1. \A j \in Jobs \ {i} : job'[j] = job[j]
    BY <1>1, <1>3 DEF JobEnds, Enqueued, JobGoes
  <2>2. job'[i].st = "none" => job'[i].lead = {}
    BY <1>1, <1>3 DEF JobEnds, Enqueued, JobGoes, NoJob, TypeOfJob
  <2> QED BY <2>1, <2>2 DEF NothingIdle
<1>4. ASSUME UNCHANGED check PROVE check'.st = "idle" => check' = NoCheck
  BY <1>4 DEF NothingIdle
<1>5. CASE UNCHANGED vars
  BY <1>2, <1>4, <1>5 DEF vars, NothingIdle
<1>6. ASSUME NEW j \in Jobs, JobStep(j) \/ WorkerDies(j)
             \/ \E l \in Leads : AskToPush(j, l) \/ SavingFails(j, l)
      PROVE  NothingIdle'
  <2>1. UNCHANGED check
    BY <1>6 DEF JobStep, ReadLead, ClaimLead, Answered, CallFails, StoreNumber,
                LogSuccess, ReleaseClaim, AttemptFails, WorkerDies, AskToPush, SavingFails
  <2>2. \/ JobEnds(j)
        \/ \E l \in Leads : Enqueued(j, l)
        \/ \E st \in {"read", "waiting", "sending", "numbered", "confirming",
                      "releasing", "failing"} : JobGoes(j, st)
        \/ job' = [job EXCEPT ![j].st = "waiting", ![j].attempts = @ + 1]
    BY <1>6 DEF JobStep, ReadLead, ClaimLead, Answered, CallFails, StoreNumber,
                LogSuccess, ReleaseClaim, AttemptFails, AttemptOver, WorkerDies,
                AskToPush, SavingFails
  <2>3. \A i \in Jobs : job'[i].st = "none" => job'[i].lead = {}
    BY <1>3, <2>2 DEF JobStates
  <2> QED BY <1>4, <2>1, <2>3 DEF NothingIdle
<1>7. ASSUME CheckStep \/ CheckDies \/ \E l \in Leads : RequeueFails(l)
      PROVE  NothingIdle'
  <2>1. check'.st = "idle" => check' = NoCheck
    BY <1>1, <1>7 DEF CheckStep, CheckDies, RequeueFails, CheckStarts, CheckEnds, GiveUp,
                      ClearClaim, NoteRequeued, Requeue, NoCheck, TypeOfCheck
  <2>2. \/ UNCHANGED job
        \/ \E j \in Jobs, l \in Leads : Enqueued(j, l)
    BY <1>7 DEF CheckStep, CheckDies, RequeueFails, CheckStarts, CheckEnds, GiveUp,
                ClearClaim, NoteRequeued, Requeue
  <2>3. \A j \in Jobs : job'[j].st = "none" => job'[j].lead = {}
    BY <1>2, <1>3, <2>2
  <2> QED BY <2>1, <2>3 DEF NothingIdle
<1>8. CASE Tick
  BY <1>2, <1>4, <1>8 DEF Tick, NothingIdle
<1> QED BY <1>5, <1>6, <1>7, <1>8 DEF Next

LEMMA ClaimsJobStep ==
  ASSUME ClaimInv, TypeOK', NEW j \in Jobs, NEW l \in Leads,
         \/ ReadLead(j, l) \/ ClaimLead(j, l) \/ Answered(j, l) \/ CallFails(j, l)
         \/ StoreNumber(j, l) \/ LogSuccess(j, l) \/ ReleaseClaim(j, l)
         \/ AttemptFails(j, l) \/ SavingFails(j, l)
  PROVE  (OneSender /\ ClaimsAreOwned /\ TodoIsAbandoned /\ AcceptedStaysClaimed)'
<1>1. TypeOK /\ job \in [Jobs -> TypeOfJob] /\ claim \in [Leads -> {Free} \cup 0..Old]
  BY DEF ClaimInv, TypeOK
<1>2. For(j, l)
  BY DEF ReadLead, ClaimLead, Answered, CallFails, StoreNumber, LogSuccess, ReleaseClaim,
         AttemptFails, SavingFails
<1>3. CASE ReadLead(j, l) \/ Answered(j, l) \/ CallFails(j, l) \/ StoreNumber(j, l)
           \/ SavingFails(j, l)
  <2>1. \/ JobEnds(j)
        \/ \E st \in JobStates : JobGoes(j, st) /\ (st \in Owns => job[j].st \in Owns)
    BY <1>3 DEF ReadLead, Answered, CallFails, StoreNumber, SavingFails, Owns, JobStates
  <2>2. \A i \in Jobs, m \in Leads : Holds(i, m)' => Holds(i, m)
    BY <1>1, <1>2, <2>1, NoNewOwner
  <2>3. UNCHANGED <<claim, accepted, check>>
    BY <1>3 DEF ReadLead, Answered, CallFails, StoreNumber, SavingFails, rows
  <2> QED BY <2>2, <2>3, OwnersShrink
<1>4. CASE AttemptFails(j, l)
  <2>1. \A i \in Jobs, m \in Leads : Holds(i, m)' => Holds(i, m)
    <3>1. CASE JobEnds(j)
      BY <1>1, <1>2, <3>1, NoNewOwner
    <3>2. CASE job' = [job EXCEPT ![j].st = "waiting", ![j].attempts = @ + 1]
      <4>1. job'[j].st = "waiting" /\ \A i \in Jobs \ {j} : job'[i] = job[i]
        BY <1>1, <3>2 DEF TypeOfJob
      <4> QED BY <4>1 DEF Holds, For, Owns
    <3> QED BY <1>4, <3>1, <3>2 DEF AttemptFails, AttemptOver
  <2>2. UNCHANGED <<claim, accepted, check>>
    BY <1>4 DEF AttemptFails, rows
  <2> QED BY <2>1, <2>2, OwnersShrink
<1>5. CASE LogSuccess(j, l)
  <2>1. \A i \in Jobs, m \in Leads : Holds(i, m)' => Holds(i, m)
    BY <1>1, <1>2, <1>5, NoNewOwner DEF LogSuccess
  <2>2. Holds(j, l) /\ ~Holds(j, l)'
    BY <1>1, <1>5 DEF LogSuccess, Holds, Owns, JobEnds, NoJob
  <2>3. UNCHANGED <<claim, check>> /\ accepted' = accepted \cup {l}
    BY <1>5 DEF LogSuccess
  <2>4. claim[l] \in 0..Day /\ l \notin check.todo
    BY <2>2, Bounds DEF ClaimInv, ClaimsAreOwned, TodoIsAbandoned
  <2>5. \A i \in Jobs : ~Holds(i, l)'
    BY <2>1, <2>2 DEF ClaimInv, OneSender
  <2>6. (OneSender /\ ClaimsAreOwned)'
    BY <2>1, <2>3 DEF ClaimInv, OneSender, ClaimsAreOwned
  <2>7. TodoIsAbandoned'
    BY <2>3, <2>4 DEF ClaimInv, TodoIsAbandoned
  <2>8. AcceptedStaysClaimed'
    <3>1. claim[l] # Free
      BY <2>4, Bounds
    <3> QED BY <2>1, <2>3, <2>5, <3>1 DEF ClaimInv, AcceptedStaysClaimed, TypeOK
  <2> QED BY <2>6, <2>7, <2>8
<1>6. CASE ClaimLead(j, l)
  <2>1. CASE JobEnds(j) /\ UNCHANGED claim
    <3>1. \A i \in Jobs, m \in Leads : Holds(i, m)' => Holds(i, m)
      BY <1>1, <1>2, <2>1, NoNewOwner
    <3>2. UNCHANGED <<claim, accepted, check>>
      BY <1>6, <2>1 DEF ClaimLead
    <3> QED BY <3>1, <3>2, OwnersShrink
  <2>2. CASE Wins(l) /\ JobGoes(j, "sending") /\ claim' = [claim EXCEPT ![l] = 0]
    <3>1. claim[l] = Free
      BY <2>2 DEF Wins
    <3>2. \A i \in Jobs : ~Holds(i, l)
      BY <3>1, Bounds DEF ClaimInv, ClaimsAreOwned
    <3>3. l \notin check.todo /\ l \notin accepted
      BY <3>1, Bounds DEF ClaimInv, TodoIsAbandoned, AcceptedStaysClaimed
    <3>4. \A i \in Jobs, m \in Leads : Holds(i, m)' => Holds(i, m) \/ (i = j /\ m = l)
      <4>1. job'[j].lead = {l} /\ \A i \in Jobs \ {j} : job'[i] = job[i]
        BY <1>1, <1>2, <2>2 DEF JobGoes, TypeOfJob, For
      <4> QED BY <4>1 DEF Holds, For
    <3>5. \A m \in Leads \ {l} : claim'[m] = claim[m]
      BY <1>1, <2>2
    <3>6. claim'[l] = 0
      BY <1>1, <2>2
    <3>7. UNCHANGED <<accepted, check>>
      BY <1>6 DEF ClaimLead
    <3>8. OneSender'
      BY <3>2, <3>4 DEF ClaimInv, OneSender
    <3>9. ClaimsAreOwned'
      BY <3>2, <3>4, <3>5, <3>6, Bounds DEF ClaimInv, ClaimsAreOwned
    <3>10. check.todo \subseteq Leads
      BY DEF ClaimInv, TypeOK, TypeOfCheck
    <3>11. TodoIsAbandoned'
      BY <3>3, <3>5, <3>7, <3>10 DEF ClaimInv, TodoIsAbandoned
    <3>12. AcceptedStaysClaimed'
      BY <3>3, <3>4, <3>5, <3>7 DEF ClaimInv, AcceptedStaysClaimed, TypeOK
    <3> QED BY <3>8, <3>9, <3>11, <3>12
  <2> QED BY <1>6, <2>1, <2>2 DEF ClaimLead
<1>7. CASE ReleaseClaim(j, l)
  <2>1. "failing" \in JobStates \ Owns /\ JobGoes(j, "failing")
    BY <1>7 DEF ReleaseClaim, Owns, JobStates
  <2>2. \A i \in Jobs, m \in Leads : Holds(i, m)' => Holds(i, m)
    BY <1>1, <1>2, <2>1, NoNewOwner
  <2>3. UNCHANGED <<accepted, check>>
    BY <1>7 DEF ReleaseClaim
  <2>4. CASE UNCHANGED claim
    BY <2>2, <2>3, <2>4, OwnersShrink
  <2>5. CASE claim' = [claim EXCEPT ![l] = Free]
    <3>1. Holds(j, l)
      BY <1>7 DEF ReleaseClaim, Holds, Owns
    <3>2. \A i \in Jobs : ~Holds(i, l)'
      <4>1. ~Holds(j, l)'
        BY <1>1, <2>1 DEF JobGoes, Holds, TypeOfJob
      <4> QED BY <2>2, <3>1, <4>1 DEF ClaimInv, OneSender
    <3>3. l \notin check.todo /\ l \notin accepted
      BY <3>1, Bounds DEF ClaimInv, ClaimsAreOwned, TodoIsAbandoned, AcceptedStaysClaimed
    <3>4. \A m \in Leads \ {l} : claim'[m] = claim[m]
      BY <1>1, <2>5
    <3>5. OneSender'
      BY <2>2 DEF ClaimInv, OneSender
    <3>6. ClaimsAreOwned'
      BY <2>2, <3>2, <3>4 DEF ClaimInv, ClaimsAreOwned
    <3>7. check.todo \subseteq Leads
      BY DEF ClaimInv, TypeOK, TypeOfCheck
    <3>8. TodoIsAbandoned'
      BY <2>3, <3>3, <3>4, <3>7 DEF ClaimInv, TodoIsAbandoned
    <3>9. AcceptedStaysClaimed'
      BY <2>2, <2>3, <3>3, <3>4 DEF ClaimInv, AcceptedStaysClaimed, TypeOK
    <3> QED BY <3>5, <3>6, <3>8, <3>9
  <2> QED BY <1>7, <2>4, <2>5 DEF ReleaseClaim
<1> QED BY <1>3, <1>4, <1>5, <1>6, <1>7

LEMMA ClaimsQueueStep ==
  ASSUME ClaimInv, TypeOK', NEW j \in Jobs,
         WorkerDies(j) \/ \E l \in Leads : AskToPush(j, l) \/ Requeue(j, l)
  PROVE  (OneSender /\ ClaimsAreOwned /\ TodoIsAbandoned /\ AcceptedStaysClaimed)'
<1>1. job \in [Jobs -> TypeOfJob] /\ check \in TypeOfCheck
  BY DEF ClaimInv, TypeOK
<1>2. job'[j].st = "waiting" /\ \A i \in Jobs \ {j} : job'[i] = job[i]
  BY <1>1 DEF WorkerDies, JobGoes, AskToPush, Requeue, Enqueued, TypeOfJob
<1>3. \A i \in Jobs, m \in Leads : Holds(i, m)' => Holds(i, m)
  BY <1>2 DEF Holds, For, Owns
<1>4. UNCHANGED <<claim, accepted>> /\ check'.todo = check.todo
  BY <1>1 DEF WorkerDies, AskToPush, Requeue, rows, TypeOfCheck
<1> QED BY <1>3, <1>4, OwnersShrink

LEMMA ClaimsCheckStep ==
  ASSUME ClaimInv, TypeOK',
         \/ CheckStarts \/ CheckEnds \/ CheckDies
         \/ \E l \in Leads : GiveUp(l) \/ ClearClaim(l) \/ NoteRequeued(l) \/ RequeueFails(l)
  PROVE  (OneSender /\ ClaimsAreOwned /\ TodoIsAbandoned /\ AcceptedStaysClaimed)'
<1>1. check \in TypeOfCheck /\ claim \in [Leads -> {Free} \cup 0..Old]
  BY DEF ClaimInv, TypeOK
<1>2. UNCHANGED <<job, accepted>>
  BY DEF CheckStarts, CheckEnds, CheckDies, GiveUp, ClearClaim, NoteRequeued, RequeueFails, rows
<1>3. \A i \in Jobs, m \in Leads : Holds(i, m)' <=> Holds(i, m)
  BY <1>2 DEF Holds, For
<1>4. CASE CheckStarts
  <2>1. check'.todo = {l \in Leads : Stuck(l)} /\ UNCHANGED claim
    BY <1>4 DEF CheckStarts, NoCheck, rows
  <2>2. TodoIsAbandoned'
    BY <1>2, <2>1 DEF TodoIsAbandoned, Stuck, Claimed
  <2> QED BY <1>2, <1>3, <2>1, <2>2
          DEF ClaimInv, OneSender, ClaimsAreOwned, AcceptedStaysClaimed, TypeOK
<1>5. ASSUME NEW l \in Leads, ClearClaim(l)
      PROVE  (OneSender /\ ClaimsAreOwned /\ TodoIsAbandoned /\ AcceptedStaysClaimed)'
  <2>1. check'.todo = check.todo \ {l} /\ check.todo \subseteq Leads
        /\ \A m \in Leads \ {l} : claim'[m] = claim[m]
    BY <1>1, <1>5 DEF ClearClaim, TypeOfCheck
  <2>2. claim[l] > Day /\ l \notin accepted
    BY <1>5 DEF ClearClaim, ClaimInv, TodoIsAbandoned
  <2>3. \A j \in Jobs : ~Holds(j, l)
    BY <2>2, Bounds DEF ClaimInv, ClaimsAreOwned
  <2>4. OneSender'
    BY <1>3 DEF ClaimInv, OneSender
  <2>5. ClaimsAreOwned'
    BY <1>3, <2>1, <2>3 DEF ClaimInv, ClaimsAreOwned
  <2>6. TodoIsAbandoned'
    BY <1>2, <2>1 DEF ClaimInv, TodoIsAbandoned
  <2>7. AcceptedStaysClaimed'
    BY <1>2, <1>3, <2>1, <2>2 DEF ClaimInv, AcceptedStaysClaimed, TypeOK
  <2> QED BY <2>4, <2>5, <2>6, <2>7
<1>6. ASSUME \/ CheckEnds \/ CheckDies
             \/ \E l \in Leads : GiveUp(l) \/ NoteRequeued(l) \/ RequeueFails(l)
      PROVE  UNCHANGED claim /\ check'.todo \subseteq check.todo
  <2>1. UNCHANGED claim
    BY <1>6 DEF CheckEnds, CheckDies, GiveUp, NoteRequeued, RequeueFails, rows
  <2>2. CASE CheckEnds \/ CheckDies
    BY <2>1, <2>2 DEF CheckEnds, CheckDies, NoCheck
  <2>3. ASSUME NEW l \in Leads, GiveUp(l) \/ NoteRequeued(l) \/ RequeueFails(l)
        PROVE  check'.todo \subseteq check.todo
    BY <1>1, <2>3 DEF GiveUp, NoteRequeued, RequeueFails, TypeOfCheck
  <2> QED BY <1>6, <2>1, <2>2, <2>3
<1> QED BY <1>2, <1>3, <1>4, <1>5, <1>6, OwnersShrink

LEMMA ClaimsTick ==
  ASSUME ClaimInv, TypeOK', Tick
  PROVE  (OneSender /\ ClaimsAreOwned /\ TodoIsAbandoned /\ AcceptedStaysClaimed)'
<1>1. UNCHANGED <<job, accepted, check>>
  BY DEF Tick
<1>2. \A i \in Jobs, m \in Leads : Holds(i, m)' <=> Holds(i, m)
  BY <1>1 DEF Holds, For
<1>3. check.todo = {}
  BY DEF ClaimInv, NothingIdle, Tick, NoCheck
<1>4. \A m \in Leads : claim'[m] = Aged(claim[m], Old) /\ claim[m] \in {Free} \cup 0..Old
  BY DEF Tick, ClaimInv, TypeOK
<1>5. ClaimsAreOwned'
  <2>1. ASSUME NEW i \in Jobs, NEW m \in Leads, Holds(i, m)' PROVE claim'[m] \in 0..Day
    <3>1. claim[m] < Day /\ claim[m] \in 0..Day
      BY <1>2, <2>1 DEF Tick, ClaimInv, ClaimsAreOwned
    <3> QED BY <1>4, <3>1, Bounds DEF Aged
  <2> QED BY <2>1 DEF ClaimsAreOwned
<1>6. AcceptedStaysClaimed'
  <2>1. \A m \in Leads : claim'[m] = Free <=> claim[m] = Free
    BY <1>4, AgedType, Bounds
  <2> QED BY <1>1, <1>2, <2>1 DEF ClaimInv, AcceptedStaysClaimed, TypeOK
<1> QED BY <1>1, <1>2, <1>3, <1>5, <1>6 DEF ClaimInv, OneSender, TodoIsAbandoned

LEMMA ClaimsStep == ClaimInv /\ [Next]_vars => ClaimInv'
<1> SUFFICES ASSUME ClaimInv, [Next]_vars PROVE ClaimInv'
  OBVIOUS
<1>1. TypeOK' /\ NothingIdle'
  BY StepType, SlotsStep DEF ClaimInv
<1>2. CASE UNCHANGED vars
  BY <1>2 DEF vars, rows, ClaimInv, TypeOK, OneSender, ClaimsAreOwned, TodoIsAbandoned,
              AcceptedStaysClaimed, NothingIdle, Holds, For
<1>3. CASE Next
  <2>1. (OneSender /\ ClaimsAreOwned /\ TodoIsAbandoned /\ AcceptedStaysClaimed)'
    BY <1>1, <1>3, ClaimsJobStep, ClaimsQueueStep, ClaimsCheckStep, ClaimsTick
       DEF Next, JobStep, CheckStep
  <2> QED BY <1>1, <2>1 DEF ClaimInv
<1> QED BY <1>2, <1>3

\* Two jobs never send one lead at a time.
THEOREM OneSenderAlways == Spec => []OneSender
<1>1. ClaimInv => OneSender
  BY DEF ClaimInv
<1> QED BY <1>1, InitClaims, ClaimsStep, PTL DEF Spec

\* What the exchange log says 1C accepted is not sent again.
THEOREM AcceptedNotResentAlways == Spec => AcceptedNotResent
<1> DEFINE Resent(j, l) == job'[j].st = "sending" /\ job'[j].lead = {l}
                           /\ job[j].st # "sending"
<1>1. ASSUME ClaimInv, Next, NEW j \in Jobs, NEW l \in Leads, l \in accepted
      PROVE  ~Resent(j, l)
  <2>1. job \in [Jobs -> TypeOfJob]
    BY <1>1 DEF ClaimInv, TypeOK
  <2>2. claim[l] # Free
    BY <1>1 DEF ClaimInv, AcceptedStaysClaimed
  <2>3. ASSUME NEW i \in Jobs, NEW m \in Leads, ClaimLead(i, m) PROVE ~Resent(j, l)
    <3>1. CASE i = j /\ JobGoes(i, "sending")
      <4>1. job'[j].st = "sending" /\ job'[j].lead = {m}
        BY <2>1, <2>3, <3>1 DEF ClaimLead, For, JobGoes, TypeOfJob
      <4>2. ~JobEnds(i)
        BY <2>1, <3>1, <4>1 DEF JobEnds, NoJob
      <4>3. claim[m] = Free
        BY <2>3, <4>2 DEF ClaimLead, Wins
      <4> QED BY <2>2, <4>1, <4>3
    <3>2. CASE i # j \/ JobEnds(i)
      BY <2>1, <2>3, <3>2 DEF ClaimLead, JobGoes, JobEnds, NoJob
    <3> QED BY <2>3, <3>1, <3>2 DEF ClaimLead
  <2>4. ASSUME NEW i \in Jobs,
               \/ JobEnds(i)
               \/ \E m \in Leads : Enqueued(i, m)
               \/ \E st \in JobStates \ {"sending"} : JobGoes(i, st)
               \/ job' = [job EXCEPT ![i].st = "waiting", ![i].attempts = @ + 1]
        PROVE  ~Resent(j, l)
    <3>1. i # j => job'[j] = job[j]
      BY <2>1, <2>4 DEF JobEnds, Enqueued, JobGoes
    <3>2. job'[i].st # "sending"
      BY <2>1, <2>4 DEF JobEnds, Enqueued, JobGoes, NoJob, TypeOfJob
    <3> QED BY <3>1, <3>2
  <2>5. ASSUME NEW i \in Jobs, NEW m \in Leads,
               \/ ReadLead(i, m) \/ Answered(i, m) \/ CallFails(i, m) \/ StoreNumber(i, m)
               \/ LogSuccess(i, m) \/ ReleaseClaim(i, m) \/ AttemptFails(i, m)
               \/ AskToPush(i, m) \/ SavingFails(i, m) \/ WorkerDies(i) \/ Requeue(i, m)
        PROVE  \/ JobEnds(i)
               \/ \E n \in Leads : Enqueued(i, n)
               \/ \E st \in {"waiting", "read", "numbered", "confirming", "releasing",
                             "failing"} : JobGoes(i, st)
               \/ job' = [job EXCEPT ![i].st = "waiting", ![i].attempts = @ + 1]
    BY <2>5 DEF ReadLead, Answered, CallFails, StoreNumber, LogSuccess, ReleaseClaim,
                AttemptFails, AttemptOver, AskToPush, SavingFails, WorkerDies, Requeue
  <2>6. {"waiting", "read", "numbered", "confirming", "releasing", "failing"}
          \subseteq JobStates \ {"sending"}
    BY DEF JobStates
  <2>7. \/ \E i \in Jobs, m \in Leads : ClaimLead(i, m)
        \/ \E i \in Jobs, m \in Leads :
             \/ ReadLead(i, m) \/ Answered(i, m) \/ CallFails(i, m) \/ StoreNumber(i, m)
             \/ LogSuccess(i, m) \/ ReleaseClaim(i, m) \/ AttemptFails(i, m)
             \/ AskToPush(i, m) \/ SavingFails(i, m) \/ WorkerDies(i) \/ Requeue(i, m)
        \/ UNCHANGED job
    BY <1>1 DEF Next, JobStep, CheckStep, CheckDies, RequeueFails, CheckStarts, CheckEnds,
                GiveUp, ClearClaim, NoteRequeued, Tick
  <2>8. ASSUME UNCHANGED job PROVE ~Resent(j, l)
    BY <2>8
  <2> QED BY <2>3, <2>4, <2>5, <2>6, <2>7, <2>8
<1>2. ClaimInv /\ [Next]_vars
      => [\A j \in Jobs, l \in Leads : l \in accepted => ~Resent(j, l)]_vars
  BY <1>1
<1> QED BY <1>2, InitClaims, ClaimsStep, PTL DEF Spec, AcceptedNotResent

-----------------------------------------------------------------------------
(* A lead somebody asked to send is carried on.                              *)

\* A step that leaves the check alone keeps every lead carried whose story it keeps,
\* if it takes the job or the claim of a lead away only for another reason to carry it.
LEMMA JobsCarryOn ==
  ASSUME TypeOK, CarriedOn, UNCHANGED check,
         \A l \in Leads : story'[l] \in {"asked", "resent"} =>
           \/ story'[l] = story[l] /\ (l \in dropped => l \in dropped')
           \/ \E j \in Jobs : For(j, l)',
         \A l \in Leads : Confirmed(l) => Confirmed(l)',
         \A l \in Leads : claim[l] # Free =>
           claim'[l] # Free \/ \E j \in Jobs : For(j, l)',
         \A l \in Leads, j \in Jobs : For(j, l) =>
           \/ For(j, l)' \/ claim'[l] # Free \/ Confirmed(l)'
           \/ story'[l] \notin {"asked", "resent"}
  PROVE  CarriedOn'
BY DEF CarriedOn

LEMMA CarriedJobStep ==
  ASSUME TypeOK, CarriedOn, NothingIdle, NEW j \in Jobs,
         JobStep(j) \/ WorkerDies(j)
         \/ \E l \in Leads : AskToPush(j, l) \/ SavingFails(j, l)
  PROVE  CarriedOn'
<1>1. job \in [Jobs -> TypeOfJob] /\ claim \in [Leads -> {Free} \cup 0..Old]
      /\ story \in [Leads -> {"none", "asked", "resent", "told"}]
  BY DEF TypeOK
<1>2. UNCHANGED check
  BY DEF JobStep, ReadLead, ClaimLead, Answered, CallFails, StoreNumber, LogSuccess,
         ReleaseClaim, AttemptFails, WorkerDies, AskToPush, SavingFails
<1>3. ASSUME NEW l \in Leads, Confirmed(l) PROVE Confirmed(l)'
  BY <1>3 DEF JobStep, ReadLead, ClaimLead, Answered, CallFails, StoreNumber, LogSuccess,
         ReleaseClaim, AttemptFails, WorkerDies, AskToPush, SavingFails, rows, Confirmed
<1>4. ASSUME \/ job' = [job EXCEPT ![j].st = "waiting", ![j].attempts = @ + 1]
             \/ \E st \in JobStates : JobGoes(j, st)
      PROVE  \A i \in Jobs, m \in Leads : For(i, m) => For(i, m)'
  BY <1>1, <1>4 DEF JobGoes, For, TypeOfJob
<1>5. ASSUME JobEnds(j) \/ \E l \in Leads : Enqueued(j, l)
      PROVE  \A i \in Jobs \ {j}, m \in Leads : For(i, m) => For(i, m)'
  BY <1>1, <1>5 DEF JobEnds, Enqueued, For
<1>6. ASSUME NEW l \in Leads, AskToPush(j, l) PROVE CarriedOn'
  <2>1. For(j, l)'
    BY <1>1, <1>6 DEF AskToPush, Enqueued, For
  <2>2. \A m \in Leads : ~For(j, m)
    BY <1>6 DEF AskToPush, NothingIdle, For
  <2>3. \A i \in Jobs, m \in Leads : For(i, m) => For(i, m)'
    BY <1>5, <1>6, <2>2 DEF AskToPush
  <2>4. \A m \in Leads \ {l} : story'[m] = story[m] /\ (m \in dropped => m \in dropped')
    BY <1>1, <1>6 DEF AskToPush
  <2>5. UNCHANGED claim
    BY <1>6 DEF AskToPush, rows
  <2> QED BY <1>2, <1>3, <2>1, <2>3, <2>4, <2>5, JobsCarryOn
<1>7. ASSUME NEW l \in Leads,
             \/ ReadLead(j, l) \/ ClaimLead(j, l) \/ Answered(j, l) \/ CallFails(j, l)
             \/ StoreNumber(j, l) \/ LogSuccess(j, l) \/ SavingFails(j, l) \/ WorkerDies(j)
      PROVE  CarriedOn'
  <2>1. UNCHANGED <<story, dropped>>
    BY <1>7 DEF ReadLead, ClaimLead, Answered, CallFails, StoreNumber, LogSuccess,
                SavingFails, WorkerDies
  <2>2. \A m \in Leads : claim[m] # Free => claim'[m] # Free
    BY <1>1, <1>7 DEF ReadLead, ClaimLead, Answered, CallFails, StoreNumber, LogSuccess,
                SavingFails, WorkerDies, rows
  <2>3. ASSUME JobEnds(j), For(j, l), claim'[l] # Free \/ Confirmed(l)' PROVE CarriedOn'
    <3>1. \A i \in Jobs, m \in Leads :
            For(i, m) => For(i, m)' \/ claim'[m] # Free \/ Confirmed(m)'
      BY <1>5, <2>3 DEF For
    <3> QED BY <1>2, <1>3, <2>1, <2>2, <3>1, JobsCarryOn
  <2>4. ASSUME NEW st \in {"waiting", "read", "sending", "numbered", "confirming",
                           "releasing"}, JobGoes(j, st)
        PROVE  CarriedOn'
    <3>1. \A i \in Jobs, m \in Leads : For(i, m) => For(i, m)'
      BY <1>4, <2>4 DEF JobStates
    <3> QED BY <1>2, <1>3, <2>1, <2>2, <3>1, JobsCarryOn
  <2>5. CASE ReadLead(j, l) \/ ClaimLead(j, l)
    <3>1. For(j, l)
      BY <2>5 DEF ReadLead, ClaimLead
    <3>2. CASE claim[l] = Free
      BY <2>4, <2>5, <3>2 DEF ReadLead, ClaimLead, Wins
    <3>3. CASE claim[l] # Free
      <4>1. JobEnds(j) /\ UNCHANGED claim
        BY <2>5, <3>3 DEF ReadLead, ClaimLead, Wins, rows
      <4> QED BY <2>3, <3>1, <3>3, <4>1
    <3> QED BY <3>2, <3>3
  <2>6. CASE LogSuccess(j, l)
    BY <2>3, <2>6 DEF LogSuccess, Confirmed
  <2>7. CASE Answered(j, l) \/ CallFails(j, l) \/ StoreNumber(j, l) \/ SavingFails(j, l)
             \/ WorkerDies(j)
    BY <2>4, <2>7 DEF Answered, CallFails, StoreNumber, SavingFails, WorkerDies
  <2> QED BY <1>7, <2>5, <2>6, <2>7
<1>8. ASSUME NEW l \in Leads, ReleaseClaim(j, l) PROVE CarriedOn'
  <2>1. \A i \in Jobs, m \in Leads : For(i, m) => For(i, m)'
    BY <1>4, <1>8 DEF ReleaseClaim, JobStates
  <2>2. For(j, l)'
    BY <1>8, <2>1 DEF ReleaseClaim
  <2>3. \A m \in Leads \ {l} : claim'[m] = claim[m]
    BY <1>1, <1>8 DEF ReleaseClaim
  <2>4. UNCHANGED <<story, dropped>>
    BY <1>8 DEF ReleaseClaim
  <2> QED BY <1>2, <1>3, <2>1, <2>2, <2>3, <2>4, JobsCarryOn
<1>9. ASSUME NEW l \in Leads, AttemptFails(j, l) PROVE CarriedOn'
  <2>1. UNCHANGED <<claim, dropped>> /\ For(j, l)
    BY <1>9 DEF AttemptFails, rows
  <2>2. CASE JobEnds(j) /\ story' = [story EXCEPT ![l] = "told"]
    <3>1. story'[l] = "told" /\ \A m \in Leads \ {l} : story'[m] = story[m]
      BY <1>1, <2>2
    <3>2. \A i \in Jobs, m \in Leads : For(i, m) => For(i, m)' \/ story'[m] = "told"
      BY <1>5, <2>1, <2>2, <3>1 DEF For
    <3> QED BY <1>2, <1>3, <2>1, <3>1, <3>2, JobsCarryOn
  <2>3. CASE /\ job' = [job EXCEPT ![j].st = "waiting", ![j].attempts = @ + 1]
             /\ UNCHANGED story
    <3>1. \A i \in Jobs, m \in Leads : For(i, m) => For(i, m)'
      BY <1>4, <2>3
    <3> QED BY <1>2, <1>3, <2>1, <2>3, <3>1, JobsCarryOn
  <2> QED BY <1>9, <2>2, <2>3 DEF AttemptFails, AttemptOver
<1>10. CASE Leads = {}
  BY <1>10 DEF CarriedOn
<1> QED BY <1>6, <1>7, <1>8, <1>9, <1>10 DEF JobStep

LEMMA CarriedCheckStep ==
  ASSUME TypeOK, CarriedOn, NothingIdle,
         CheckStep \/ CheckDies \/ \E l \in Leads : RequeueFails(l)
  PROVE  CarriedOn'
<1>1. check \in TypeOfCheck /\ job \in [Jobs -> TypeOfJob]
      /\ story \in [Leads -> {"none", "asked", "resent", "told"}]
      /\ claim \in [Leads -> {Free} \cup 0..Old]
  BY DEF TypeOK
<1>2. UNCHANGED <<numbered, accepted>>
  BY DEF CheckStep, CheckDies, RequeueFails, CheckStarts, CheckEnds, GiveUp, ClearClaim,
         NoteRequeued, Requeue, rows
<1>3. CASE CheckStarts
  <2>1. check.stuck = {} /\ check.st = "idle"
    BY <1>3 DEF CheckStarts, NothingIdle, NoCheck
  <2>2. UNCHANGED <<claim, job, story, dropped>>
    BY <1>3 DEF CheckStarts, rows
  <2> QED BY <1>2, <2>1, <2>2 DEF CarriedOn, Confirmed, For
<1>4. CASE CheckEnds
  <2>1. UNCHANGED <<claim, job, dropped>> /\ check.st = "loop"
    BY <1>4 DEF CheckEnds, rows
  <2>2. \A l \in Leads : story'[l] # "told" => story'[l] = story[l] /\ l \notin check.stuck
    BY <1>4 DEF CheckEnds
  <2> QED BY <1>2, <2>1, <2>2 DEF CarriedOn, Confirmed, For
<1>5. ASSUME NEW l \in Leads, GiveUp(l) \/ NoteRequeued(l) PROVE CarriedOn'
  <2>1. UNCHANGED <<claim, job, story, dropped>> /\ check.st # "cleared"
    BY <1>5 DEF GiveUp, NoteRequeued, rows
  <2>2. check.stuck \subseteq check'.stuck
    <3>1. CASE GiveUp(l)
      BY <1>1, <3>1 DEF GiveUp, TypeOfCheck
    <3>2. CASE NoteRequeued(l)
      BY <1>1, <3>2 DEF NoteRequeued, TypeOfCheck
    <3> QED BY <1>5, <3>1, <3>2
  <2> QED BY <1>2, <2>1, <2>2 DEF CarriedOn, Confirmed, For
<1>6. ASSUME NEW l \in Leads, ClearClaim(l) PROVE CarriedOn'
  <2>1. UNCHANGED <<job, story, dropped>> /\ check.st # "cleared"
        /\ \A m \in Leads \ {l} : claim'[m] = claim[m]
    BY <1>1, <1>6 DEF ClearClaim
  <2>2. check'.stuck = check.stuck /\ check'.st = "cleared" /\ check'.lead = {l}
    BY <1>1, <1>6 DEF ClearClaim, TypeOfCheck
  <2> QED BY <1>2, <2>1, <2>2 DEF CarriedOn, Confirmed, For
<1>7. ASSUME NEW l \in Leads, NEW j \in Jobs, Requeue(j, l) PROVE CarriedOn'
  <2>1. UNCHANGED <<claim, dropped>> /\ check.lead = {l}
    BY <1>7 DEF Requeue, rows
  <2>2. check'.stuck = check.stuck
    BY <1>1, <1>7 DEF Requeue, TypeOfCheck
  <2>3. job'[j].lead = {l} /\ \A i \in Jobs \ {j} : job'[i] = job[i]
    BY <1>1, <1>7 DEF Requeue, Enqueued
  <2>4. \A m \in Leads \ {l} : story'[m] = story[m]
    BY <1>1, <1>7 DEF Requeue
  <2>5. \A m \in Leads : ~For(j, m)
    BY <1>7 DEF Requeue, NothingIdle, For
  <2>6. \A i \in Jobs, m \in Leads : For(i, m) => For(i, m)'
    BY <2>3, <2>5 DEF For
  <2>7. For(j, l)'
    BY <2>3 DEF For
  <2> QED BY <1>2, <2>1, <2>2, <2>4, <2>6, <2>7 DEF CarriedOn, Confirmed
<1>8. ASSUME NEW l \in Leads, RequeueFails(l) PROVE CarriedOn'
  <2>1. UNCHANGED <<claim, job, story, dropped>> /\ check.lead = {l}
    BY <1>8 DEF RequeueFails, rows
  <2>2. check'.stuck = check.stuck \cup {l}
    BY <1>1, <1>8 DEF RequeueFails, TypeOfCheck
  <2> QED BY <1>2, <2>1, <2>2 DEF CarriedOn, Confirmed, For
<1>9. CASE CheckDies
  <2>1. UNCHANGED <<claim, job, story>> /\ dropped \subseteq dropped'
    BY <1>9 DEF CheckDies, rows
  <2>2. \A l \in check.stuck : l \in dropped' \/ claim[l] # Free
    BY <1>9 DEF CheckDies
  <2>3. check.st = "cleared" => check.lead \subseteq dropped'
    BY <1>9 DEF CheckDies
  <2> QED BY <1>2, <2>1, <2>2, <2>3 DEF CarriedOn, Confirmed, For
<1> QED BY <1>3, <1>4, <1>5, <1>6, <1>7, <1>8, <1>9 DEF CheckStep

LEMMA CarriedTick == ASSUME TypeOK, CarriedOn, Tick PROVE CarriedOn'
<1>1. UNCHANGED <<numbered, accepted, job, check, story, dropped>>
  BY DEF Tick
<1>2. \A l \in Leads : claim'[l] = Free <=> claim[l] = Free
  BY AgedType, Bounds DEF Tick, TypeOK
<1> QED BY <1>1, <1>2 DEF CarriedOn, Confirmed, For

\* No lead that somebody asked to send falls out of the exchange unseen, but through a
\* check that broke down half-way.
THEOREM CarriedOnAlways == Spec => []CarriedOn
<1> DEFINE Inv == TypeOK /\ NothingIdle /\ CarriedOn
<1>1. Init => Inv
  BY InitType DEF Init, NothingIdle, NoJob, CarriedOn
<1>2. Inv /\ [Next]_vars => Inv'
  <2> SUFFICES ASSUME Inv, [Next]_vars PROVE Inv'
    OBVIOUS
  <2>1. CASE UNCHANGED vars
    BY <2>1 DEF vars, rows, CarriedOn, Confirmed, For, TypeOK, NothingIdle
  <2>2. CASE Next
    BY <2>2, StepType, SlotsStep, CarriedJobStep, CarriedCheckStep, CarriedTick DEF Next
  <2> QED BY <2>1, <2>2
<1> QED BY <1>1, <1>2, PTL DEF Spec
===============================================================================

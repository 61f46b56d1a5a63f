--------------------------- MODULE PushLeadDelivery ---------------------------
(***************************************************************************)
(* PushLead implements the safety part of Delivery, for every set of leads *)
(* and jobs, every length of a day and any number of breakdowns: its       *)
(* initial states are initial states of Delivery under the mapping         *)
(* Outcome, and each of its steps is a step of Delivery or a stutter.      *)
(***************************************************************************)
EXTENDS PushLeadProofs

\* A job has the lead.
Work(l) == \E j \in Jobs : For(j, l)

\* Nothing is under way for a lead nobody asked to send.
Unasked ==
  \A l \in Leads : story[l] = "none" =>
    claim[l] = Free /\ ~Work(l) /\ l \notin check.stuck /\ l \notin check.lead

DeliveryInv == ClaimInv /\ Unasked

-----------------------------------------------------------------------------
(* What a step does to the jobs, and what follows for the outcomes.         *)

\* Only the lead of a job that begins or ends gains or loses a job.
LEMMA WorkOfOthers ==
  ASSUME TypeOK, NEW j \in Jobs, NEW l \in Leads
  PROVE  /\ \A st \in JobStates : JobGoes(j, st) => \A m \in Leads : Work(m)' <=> Work(m)
         /\ JobEnds(j) /\ For(j, l) => \A m \in Leads \ {l} : Work(m)' <=> Work(m)
         /\ Enqueued(j, l) /\ job[j].lead = {}
              => Work(l)' /\ \A m \in Leads \ {l} : Work(m)' <=> Work(m)
<1>1. job \in [Jobs -> TypeOfJob]
  BY DEF TypeOK
<1>2. ASSUME NEW st \in JobStates, JobGoes(j, st)
      PROVE  \A m \in Leads : Work(m)' <=> Work(m)
  <2>1. \A i \in Jobs : job'[i].lead = job[i].lead
    BY <1>1, <1>2 DEF JobGoes, TypeOfJob
  <2> QED BY <2>1 DEF Work, For
<1>3. ASSUME JobEnds(j), For(j, l)
      PROVE  \A m \in Leads \ {l} : Work(m)' <=> Work(m)
  <2>1. job'[j].lead = {} /\ job[j].lead = {l}
    BY <1>1, <1>3 DEF JobEnds, NoJob, For
  <2>2. \A i \in Jobs \ {j} : job'[i].lead = job[i].lead
    BY <1>1, <1>3 DEF JobEnds
  <2> QED BY <2>1, <2>2 DEF Work, For
<1>4. ASSUME Enqueued(j, l), job[j].lead = {}
      PROVE  Work(l)' /\ \A m \in Leads \ {l} : Work(m)' <=> Work(m)
  <2>1. job'[j].lead = {l}
    BY <1>1, <1>4 DEF Enqueued
  <2>2. \A i \in Jobs \ {j} : job'[i].lead = job[i].lead
    BY <1>1, <1>4 DEF Enqueued
  <2> QED BY <1>4, <2>1, <2>2 DEF Work, For
<1> QED BY <1>2, <1>3, <1>4

\* A lead keeps its outcome if what is under way, its story and its confirmation stay.
LEMMA SameOutcome ==
  ASSUME NEW l \in Leads, UnderWay(l)' <=> UnderWay(l), story'[l] = story[l],
         Confirmed(l)' <=> Confirmed(l)
  PROVE  Outcome'[l] = Outcome[l]
BY DEF Outcome

\* It keeps it as well if it is confirmed before and after.
LEMMA DoneStays ==
  ASSUME NEW l \in Leads, Confirmed(l), Confirmed(l)'
  PROVE  Outcome'[l] = Outcome[l]
BY DEF Outcome

\* What is under way while the claims and the check stay.
LEMMA SameUnderWay ==
  ASSUME NEW l \in Leads, claim'[l] = claim[l], UNCHANGED check, Work(l)' <=> Work(l)
  PROVE  UnderWay(l)' <=> UnderWay(l)
BY DEF UnderWay, Work

\* No outcome changes: a stutter, or a breakdown that loses nothing.
LEMMA NothingChanges ==
  ASSUME \A l \in Leads : Outcome'[l] = Outcome[l], UNCHANGED trouble \/ Trouble
  PROVE  [AsDelivery!DeliveryNext]_(AsDelivery!deliveryVars)
<1>1. Outcome' = Outcome
  BY DEF Outcome
<1>2. CASE UNCHANGED trouble
  BY <1>1, <1>2 DEF AsDelivery!deliveryVars
<1>3. CASE Trouble
  <2>1. AsDelivery!BreakDown({})
    BY <1>1, <1>3 DEF AsDelivery!BreakDown, AsDelivery!Becomes, Trouble, Outcome
  <2> QED BY <2>1 DEF AsDelivery!DeliveryNext
<1> QED BY <1>2, <1>3

\* The outcomes of some leads become another one.
LEMMA SomeChange ==
  ASSUME NEW S \in SUBSET Leads, NEW what,
         \A l \in S : Outcome'[l] = what,
         \A l \in Leads \ S : Outcome'[l] = Outcome[l]
  PROVE  AsDelivery!Becomes(S, what)
<1>1. Outcome' = [l \in Leads |-> Outcome'[l]]
  BY DEF Outcome
<1>2. Outcome' = [l \in Leads |-> IF l \in S THEN what ELSE Outcome[l]]
  BY <1>1
<1> QED BY <1>2 DEF AsDelivery!Becomes

-----------------------------------------------------------------------------
(* Nothing is under way for a lead nobody asked to send.                    *)

\* A failed attempt concerns no job of another lead, and keeps its own unless it was the last.
LEMMA AttemptWork ==
  ASSUME TypeOK, NEW j \in Jobs, NEW l \in Leads, AttemptFails(j, l)
  PROVE  /\ \A m \in Leads \ {l} : Work(m)' <=> Work(m)
         /\ ~LastAttempt(job[j].attempts + 1) => Work(l)'
<1>1. job \in [Jobs -> TypeOfJob] /\ For(j, l)
  BY DEF TypeOK, AttemptFails
<1>2. CASE LastAttempt(job[j].attempts + 1)
  BY <1>1, <1>2, WorkOfOthers DEF AttemptFails, AttemptOver
<1>3. CASE ~LastAttempt(job[j].attempts + 1)
  <2>1. \A i \in Jobs : job'[i].lead = job[i].lead
    BY <1>1, <1>3 DEF AttemptFails, AttemptOver, TypeOfJob
  <2> QED BY <1>1, <2>1, <1>3 DEF Work, For
<1> QED BY <1>2, <1>3

\* Steps of jobs keep that: a job works only for a lead somebody asked to send.
LEMMA UnaskedJobStep ==
  ASSUME TypeOK, Unasked, NothingIdle, NEW j \in Jobs,
         JobStep(j) \/ WorkerDies(j) \/ \E l \in Leads : AskToPush(j, l) \/ SavingFails(j, l)
  PROVE  Unasked'
<1>1. {"read", "waiting", "sending", "numbered", "confirming", "releasing", "failing"}
        \subseteq JobStates
  BY DEF JobStates
<1>2. ASSUME NEW l \in Leads, AskToPush(j, l) PROVE Unasked'
  <2>1. Enqueued(j, l) /\ job[j].lead = {}
    BY <1>2 DEF AskToPush, NothingIdle
  <2>2. \A m \in Leads \ {l} : Work(m)' <=> Work(m)
    BY <2>1, WorkOfOthers
  <2>3. story'[l] = "asked" /\ \A m \in Leads \ {l} : story'[m] = story[m]
    BY <1>2 DEF AskToPush, TypeOK
  <2> QED BY <1>2, <2>2, <2>3 DEF AskToPush, Unasked, rows
<1>3. ASSUME NEW l \in Leads, For(j, l), UNCHANGED <<check, story>>,
             \A m \in Leads \ {l} : claim'[m] = claim[m],
             JobEnds(j) \/ \E st \in JobStates : JobGoes(j, st)
      PROVE  Unasked'
  <2>1. story[l] # "none"
    BY <1>3 DEF Unasked, Work
  <2>2. \A m \in Leads \ {l} : Work(m)' <=> Work(m)
    BY <1>3, WorkOfOthers
  <2> QED BY <1>3, <2>1, <2>2 DEF Unasked
<1>4. ASSUME NEW l \in Leads, ReadLead(j, l) \/ Answered(j, l) \/ CallFails(j, l) \/ StoreNumber(j, l)
                              \/ LogSuccess(j, l) \/ SavingFails(j, l)
      PROVE  Unasked'
  <2>1. /\ For(j, l) /\ UNCHANGED <<check, story, claim>>
        /\ JobEnds(j) \/ \E st \in JobStates : JobGoes(j, st)
    BY <1>1, <1>4 DEF ReadLead, Answered, CallFails, StoreNumber, LogSuccess, SavingFails, rows
  <2> QED BY <1>3, <2>1
<1>5. ASSUME NEW l \in Leads, ClaimLead(j, l) \/ ReleaseClaim(j, l) PROVE Unasked'
  <2>1. /\ For(j, l) /\ UNCHANGED <<check, story>>
        /\ JobEnds(j) \/ \E st \in JobStates : JobGoes(j, st)
    BY <1>1, <1>5 DEF ClaimLead, ReleaseClaim
  <2>2. \A m \in Leads \ {l} : claim'[m] = claim[m]
    BY <1>5 DEF ClaimLead, ReleaseClaim, TypeOK
  <2> QED BY <1>3, <2>1, <2>2
<1>6. ASSUME NEW l \in Leads, AttemptFails(j, l) PROVE Unasked'
  <2>1. story[l] # "none" /\ UNCHANGED <<claim, check>>
    BY <1>6 DEF Unasked, Work, AttemptFails, rows
  <2>2. \A m \in Leads \ {l} : Work(m)' <=> Work(m)
    BY <1>6, AttemptWork
  <2>3. story'[l] # "none" /\ \A m \in Leads \ {l} : story'[m] = story[m]
    BY <1>6, <2>1 DEF AttemptFails, AttemptOver, TypeOK
  <2> QED BY <2>1, <2>2, <2>3 DEF Unasked
<1>7. ASSUME WorkerDies(j) PROVE Unasked'
  <2>1. \A m \in Leads : Work(m)' <=> Work(m)
    BY <1>1, <1>7, WorkOfOthers DEF WorkerDies
  <2> QED BY <1>7, <2>1 DEF WorkerDies, Unasked, rows
<1> QED BY <1>2, <1>4, <1>5, <1>6, <1>7 DEF JobStep

\* So do steps of the check: it finds only claimed leads, and sends or reports those.
LEMMA UnaskedCheckStep ==
  ASSUME ClaimInv, Unasked, CheckStep \/ CheckDies \/ \E l \in Leads : RequeueFails(l)
  PROVE  Unasked'
<1>1. check \in TypeOfCheck /\ \A l \in check.todo : claim[l] # Free
  <2>1. check \in TypeOfCheck /\ check.todo \subseteq Leads
    BY DEF ClaimInv, TypeOK, TypeOfCheck
  <2>2. \A l \in check.todo : claim[l] \in {Free} \cup 0..Old /\ claim[l] > Day
    BY <2>1 DEF ClaimInv, TypeOK, TodoIsAbandoned
  <2> QED BY <2>1, <2>2, Bounds DEF Free
<1>2. ASSUME UNCHANGED job PROVE \A m \in Leads : Work(m)' <=> Work(m)
  BY <1>2 DEF Work, For
<1>3. ASSUME UNCHANGED <<claim, job, story>>,
             \A l \in Leads : l \in check'.stuck \cup check'.lead =>
               l \in check.stuck \cup check.lead \/ claim[l] # Free
      PROVE  Unasked'
  BY <1>2, <1>3 DEF Unasked
<1>4. ASSUME CheckStarts \/ CheckDies PROVE Unasked'
  <2>1. check'.stuck = {} /\ check'.lead = {}
    <3>1. CASE CheckStarts
      BY <3>1 DEF CheckStarts, NoCheck
    <3>2. CASE CheckDies
      <4>1. check' = NoCheck
        BY <3>2 DEF CheckDies
      <4> QED BY <4>1 DEF NoCheck
    <3> QED BY <1>4, <3>1, <3>2
  <2>2. UNCHANGED <<claim, job, story>>
    BY <1>4 DEF CheckStarts, CheckDies, rows
  <2> QED BY <1>3, <2>1, <2>2
<1>5. ASSUME NEW l \in Leads, GiveUp(l) \/ NoteRequeued(l) \/ RequeueFails(l) PROVE Unasked'
  <2>1. \A m \in Leads : m \in check'.stuck \cup check'.lead =>
          m \in check.stuck \cup check.lead \/ claim[m] # Free
    <3>1. CASE GiveUp(l)
      <4>1. check'.stuck = check.stuck \cup {l} /\ check'.lead = check.lead /\ claim[l] # Free
        BY <1>1, <3>1 DEF GiveUp, TypeOfCheck
      <4> QED BY <4>1
    <3>2. CASE NoteRequeued(l)
      <4>1. check'.stuck = check.stuck /\ check'.lead = {}
        BY <1>1, <3>2 DEF NoteRequeued, TypeOfCheck
      <4> QED BY <4>1
    <3>3. CASE RequeueFails(l)
      <4>1. check'.stuck = check.stuck \cup {l} /\ check'.lead = {} /\ check.lead = {l}
        BY <1>1, <3>3 DEF RequeueFails, TypeOfCheck
      <4> QED BY <4>1
    <3> QED BY <1>5, <3>1, <3>2, <3>3
  <2> QED BY <1>3, <1>5, <2>1 DEF GiveUp, NoteRequeued, RequeueFails, rows
<1>6. ASSUME NEW l \in Leads, ClearClaim(l) PROVE Unasked'
  <2>1. story[l] # "none"
    BY <1>1, <1>6 DEF ClearClaim, Unasked
  <2>2. /\ check'.stuck = check.stuck /\ check'.lead = {l} /\ UNCHANGED <<job, story>>
        /\ \A m \in Leads \ {l} : claim'[m] = claim[m]
    BY <1>1, <1>6 DEF ClearClaim, TypeOfCheck, ClaimInv, TypeOK
  <2> QED BY <1>2, <2>1, <2>2 DEF Unasked
<1>7. ASSUME NEW l \in Leads, NEW j \in Jobs, Requeue(j, l) PROVE Unasked'
  <2>1. Enqueued(j, l) /\ job[j].lead = {}
    BY <1>7 DEF Requeue, ClaimInv, NothingIdle
  <2>2. \A m \in Leads \ {l} : Work(m)' <=> Work(m)
    BY <2>1, WorkOfOthers DEF ClaimInv
  <2>3. story'[l] = "resent" /\ \A m \in Leads \ {l} : story'[m] = story[m]
    BY <1>7 DEF Requeue, ClaimInv, TypeOK
  <2>4. check'.stuck = check.stuck /\ check'.lead = check.lead
    BY <1>1, <1>7 DEF Requeue, TypeOfCheck
  <2> QED BY <1>7, <2>2, <2>3, <2>4 DEF Requeue, Unasked, rows
<1>8. CASE CheckEnds
  <2>1. \A m \in Leads : story'[m] = "none" => story[m] = "none"
    BY <1>8 DEF CheckEnds
  <2>2. check'.stuck = {} /\ check'.lead = {} /\ UNCHANGED <<claim, job>>
    BY <1>8 DEF CheckEnds, NoCheck, rows
  <2> QED BY <1>2, <2>1, <2>2 DEF Unasked
<1> QED BY <1>4, <1>5, <1>6, <1>7, <1>8 DEF CheckStep

LEMMA UnaskedStep == DeliveryInv /\ [Next]_vars => DeliveryInv'
<1> SUFFICES ASSUME DeliveryInv, [Next]_vars PROVE DeliveryInv'
  OBVIOUS
<1>1. ClaimInv'
  BY ClaimsStep DEF DeliveryInv
<1>2. TypeOK /\ NothingIdle /\ Unasked /\ ClaimInv
  BY DEF DeliveryInv, ClaimInv
<1>3. ASSUME UNCHANGED vars PROVE Unasked'
  BY <1>2, <1>3 DEF vars, rows, Unasked, Work, For
<1>4. ASSUME Tick PROVE Unasked'
  <2>1. UNCHANGED <<job, check, story>>
    BY <1>4 DEF Tick
  <2>2. \A l \in Leads : claim[l] = Free => claim'[l] = Free
    BY <1>2, <1>4, AgedType, Bounds DEF Tick, TypeOK
  <2> QED BY <1>2, <2>1, <2>2 DEF Unasked, Work, For
<1>5. ASSUME Next PROVE Unasked'
  BY <1>2, <1>4, <1>5, UnaskedJobStep, UnaskedCheckStep DEF Next
<1> QED BY <1>1, <1>3, <1>5 DEF DeliveryInv

-----------------------------------------------------------------------------
(* Every step is a step of Delivery or a stutter.                           *)

\* A lead a job works on is done, told, or owed.
LEMMA WorkedOn ==
  ASSUME Unasked, NEW j \in Jobs, NEW l \in Leads, For(j, l)
  PROVE  /\ Confirmed(l) => Outcome[l] = "done"
         /\ ~Confirmed(l) /\ story[l] = "told" => Outcome[l] = "told"
         /\ ~Confirmed(l) /\ story[l] # "told" => Outcome[l] = "owed"
BY DEF Outcome, UnderWay

\* Somebody presses the button, or the check sends the lead again: it is owed from now on.
LEMMA AskStep ==
  ASSUME TypeOK, NothingIdle, NEW j \in Jobs, NEW l \in Leads, Enqueued(j, l), job[j].lead = {},
         NEW what \in {"asked", "resent"}, story' = [story EXCEPT ![l] = what],
         UNCHANGED <<rows, trouble>>, check'.stuck = check.stuck,
         \A m \in Leads \ {l} : (check'.st = "cleared" /\ check'.lead = {m})
                                  <=> (check.st = "cleared" /\ check.lead = {m})
  PROVE  [AsDelivery!DeliveryNext]_(AsDelivery!deliveryVars)
<1>1. Work(l)' /\ \A m \in Leads \ {l} : Work(m)' <=> Work(m)
  BY WorkOfOthers
<1>2. story'[l] \in {"asked", "resent"} /\ \A m \in Leads \ {l} : story'[m] = story[m]
  BY DEF TypeOK
<1>3. UNCHANGED <<claim, numbered, accepted>>
  BY DEF rows
<1>4. \A m \in Leads \ {l} : Outcome'[m] = Outcome[m]
  <2> SUFFICES ASSUME NEW m \in Leads \ {l} PROVE Outcome'[m] = Outcome[m]
    OBVIOUS
  <2>1. UnderWay(m)' <=> UnderWay(m)
    BY <1>1, <1>3 DEF UnderWay, Work
  <2> QED BY <1>2, <1>3, <2>1, SameOutcome DEF Confirmed
<1>5. CASE Confirmed(l)
  <2>1. Outcome'[l] = Outcome[l]
    BY <1>3, <1>5, DoneStays DEF Confirmed
  <2> QED BY <1>4, <2>1, NothingChanges
<1>6. CASE ~Confirmed(l)
  <2>1. Outcome'[l] = "owed"
    <3>1. ~Confirmed(l)' /\ UnderWay(l)'
      BY <1>1, <1>3, <1>6 DEF Confirmed, UnderWay, Work
    <3> QED BY <1>2, <3>1 DEF Outcome
  <2>2. Outcome[l] \in {"none", "told", "lost", "owed"}
    BY <1>6 DEF Outcome
  <2>3. CASE Outcome[l] = "owed"
    BY <1>4, <2>1, <2>3, NothingChanges
  <2>4. CASE Outcome[l] # "owed"
    <3>1. AsDelivery!Becomes({l}, "owed")
      BY <1>4, <2>1, SomeChange
    <3>2. AsDelivery!Ask(l)
      BY <2>2, <2>4, <3>1 DEF AsDelivery!Ask
    <3> QED BY <3>2 DEF AsDelivery!DeliveryNext
  <2> QED BY <2>3, <2>4
<1> QED BY <1>5, <1>6

\* Steps of a job within an attempt change nothing but a confirmation.
LEMMA WithinAttempt ==
  ASSUME TypeOK, Unasked, NEW j \in Jobs, NEW l \in Leads, For(j, l), UNCHANGED <<check, story>>,
         UNCHANGED trouble \/ Trouble,
         UNCHANGED <<numbered, accepted>>,
         \A m \in Leads \ {l} : claim'[m] = claim[m],
         \/ \E st \in JobStates : JobGoes(j, st)
         \/ JobEnds(j) /\ claim[l] # Free /\ UNCHANGED claim
  PROVE  [AsDelivery!DeliveryNext]_(AsDelivery!deliveryVars)
<1>1. \A m \in Leads \ {l} : Work(m)' <=> Work(m)
  BY WorkOfOthers
<1>2. \A m \in Leads \ {l} : Outcome'[m] = Outcome[m]
  BY <1>1, SameUnderWay, SameOutcome DEF Confirmed
<1>3. UnderWay(l)' /\ UnderWay(l)
  <2>1. UnderWay(l)
    BY DEF UnderWay
  <2>2. ASSUME NEW st \in JobStates, JobGoes(j, st) PROVE UnderWay(l)'
    BY <2>2, WorkOfOthers DEF UnderWay, Work
  <2>3. ASSUME claim[l] # Free, UNCHANGED claim PROVE UnderWay(l)'
    BY <2>3 DEF UnderWay
  <2> QED BY <2>1, <2>2, <2>3
<1>4. Outcome'[l] = Outcome[l]
  BY <1>3, SameOutcome DEF Confirmed
<1> QED BY <1>2, <1>4, NothingChanges

\* 1C's number or the success row confirms the lead.
LEMMA ConfirmStep ==
  ASSUME TypeOK, Unasked, NEW j \in Jobs, NEW l \in Leads, StoreNumber(j, l) \/ LogSuccess(j, l)
  PROVE  [AsDelivery!DeliveryNext]_(AsDelivery!deliveryVars)
<1>1. For(j, l) /\ UNCHANGED <<claim, check, story, trouble>> /\ "confirming" \in JobStates
  BY DEF StoreNumber, LogSuccess, JobStates
<1>2. \A m \in Leads \ {l} : Work(m)' <=> Work(m)
  BY <1>1, WorkOfOthers DEF StoreNumber, LogSuccess
<1>3. Confirmed(l)' /\ \A m \in Leads \ {l} : Confirmed(m)' <=> Confirmed(m)
  BY DEF StoreNumber, LogSuccess, Confirmed
<1>4. \A m \in Leads \ {l} : Outcome'[m] = Outcome[m]
  BY <1>1, <1>2, <1>3, SameUnderWay, SameOutcome
<1>5. CASE Confirmed(l)
  BY <1>1, <1>3, <1>4, <1>5, DoneStays, NothingChanges
<1>6. CASE ~Confirmed(l)
  <2>1. Outcome'[l] = "done" /\ Outcome[l] \in {"told", "owed"}
    BY <1>1, <1>3, <1>6, WorkedOn DEF Outcome
  <2>2. AsDelivery!Becomes({l}, "done")
    BY <1>4, <2>1, SomeChange
  <2>3. AsDelivery!Confirm(l)
    BY <1>1, <2>1, <2>2 DEF AsDelivery!Confirm
  <2> QED BY <2>3 DEF AsDelivery!DeliveryNext
<1> QED BY <1>5, <1>6

\* The last attempt reports the lead, the ones before keep it under way.
LEMMA AttemptStep ==
  ASSUME TypeOK, Unasked, NEW j \in Jobs, NEW l \in Leads, AttemptFails(j, l)
  PROVE  [AsDelivery!DeliveryNext]_(AsDelivery!deliveryVars)
<1>1. For(j, l) /\ UNCHANGED <<claim, numbered, accepted, check, trouble>>
  BY DEF AttemptFails, rows
<1>2. \A m \in Leads \ {l} : story'[m] = story[m] /\ (Work(m)' <=> Work(m))
  BY AttemptWork DEF AttemptFails, AttemptOver, TypeOK
<1>3. \A m \in Leads \ {l} : Outcome'[m] = Outcome[m]
  BY <1>1, <1>2, SameUnderWay, SameOutcome DEF Confirmed
<1>4. CASE ~LastAttempt(job[j].attempts + 1)
  <2>1. Work(l)' /\ story' = story
    BY <1>4, AttemptWork DEF AttemptFails, AttemptOver
  <2>2. UnderWay(l)' /\ UnderWay(l)
    BY <1>1, <2>1 DEF UnderWay, Work
  <2>3. Outcome'[l] = Outcome[l]
    BY <1>1, <2>1, <2>2, SameOutcome DEF Confirmed
  <2> QED BY <1>1, <1>3, <2>3, NothingChanges
<1>5. CASE LastAttempt(job[j].attempts + 1)
  <2>1. story'[l] = "told"
    BY <1>5 DEF AttemptFails, AttemptOver, TypeOK
  <2>2. CASE Outcome'[l] = Outcome[l]
    BY <1>1, <1>3, <2>2, NothingChanges
  <2>3. CASE Outcome'[l] # Outcome[l]
    <3>1. ~Confirmed(l) /\ ~Confirmed(l)'
      BY <1>1, <2>3, DoneStays DEF Confirmed
    <3>2. Outcome'[l] = "told" /\ Outcome[l] = "owed"
      BY <1>1, <2>1, <2>3, <3>1, WorkedOn DEF Outcome
    <3>3. AsDelivery!Becomes({l}, "told")
      BY <1>3, <3>2, SomeChange
    <3>4. AsDelivery!Report({l})
      BY <1>1, <3>2, <3>3 DEF AsDelivery!Report, AsDelivery!Owed
    <3> QED BY <3>4 DEF AsDelivery!DeliveryNext
  <2> QED BY <2>2, <2>3
<1> QED BY <1>4, <1>5

\* All steps of jobs and of their queue.
LEMMA JobRefines ==
  ASSUME DeliveryInv, NEW j \in Jobs,
         JobStep(j) \/ WorkerDies(j) \/ \E l \in Leads : AskToPush(j, l) \/ SavingFails(j, l)
  PROVE  [AsDelivery!DeliveryNext]_(AsDelivery!deliveryVars)
<1>1. TypeOK /\ NothingIdle /\ Unasked
  BY DEF DeliveryInv, ClaimInv
<1>2. {"read", "waiting", "sending", "numbered", "confirming", "releasing", "failing"}
        \subseteq JobStates
  BY DEF JobStates
<1>3. ASSUME NEW l \in Leads, AskToPush(j, l)
      PROVE  [AsDelivery!DeliveryNext]_(AsDelivery!deliveryVars)
  <2>1. Enqueued(j, l) /\ job[j].lead = {} /\ UNCHANGED <<rows, trouble, check>>
    BY <1>1, <1>3 DEF AskToPush, NothingIdle
  <2>2. story' = [story EXCEPT ![l] = "asked"]
    BY <1>3 DEF AskToPush
  <2> QED BY <1>1, <2>1, <2>2, AskStep
<1>4. ASSUME NEW l \in Leads,
             ReadLead(j, l) \/ Answered(j, l) \/ CallFails(j, l) \/ SavingFails(j, l)
      PROVE  [AsDelivery!DeliveryNext]_(AsDelivery!deliveryVars)
  <2>1. /\ For(j, l) /\ UNCHANGED <<check, story, claim, numbered, accepted>>
        /\ UNCHANGED trouble \/ Trouble
        /\ (JobEnds(j) /\ claim[l] # Free) \/ \E st \in JobStates : JobGoes(j, st)
    BY <1>2, <1>4 DEF ReadLead, Answered, CallFails, SavingFails, rows
  <2> QED BY <1>1, <2>1, WithinAttempt
<1>5. ASSUME NEW l \in Leads, ClaimLead(j, l) \/ ReleaseClaim(j, l)
      PROVE  [AsDelivery!DeliveryNext]_(AsDelivery!deliveryVars)
  <2>1. /\ For(j, l) /\ UNCHANGED <<check, story, numbered, accepted>>
        /\ UNCHANGED trouble \/ Trouble
        /\ \/ JobEnds(j) /\ claim[l] # Free /\ UNCHANGED claim
           \/ \E st \in JobStates : JobGoes(j, st)
    BY <1>2, <1>5 DEF ClaimLead, Wins, ReleaseClaim
  <2>2. \A m \in Leads \ {l} : claim'[m] = claim[m]
    BY <1>1, <1>5 DEF ClaimLead, ReleaseClaim, TypeOK
  <2> QED BY <1>1, <2>1, <2>2, WithinAttempt
<1>6. ASSUME WorkerDies(j)
      PROVE  [AsDelivery!DeliveryNext]_(AsDelivery!deliveryVars)
  <2>1. /\ UNCHANGED <<check, story, claim, numbered, accepted>> /\ Trouble
        /\ \A m \in Leads : Work(m)' <=> Work(m)
    BY <1>1, <1>2, <1>6, WorkOfOthers DEF WorkerDies, rows
  <2>2. \A m \in Leads : Outcome'[m] = Outcome[m]
    BY <2>1, SameUnderWay, SameOutcome DEF Confirmed
  <2> QED BY <2>1, <2>2, NothingChanges
<1> QED BY <1>1, <1>3, <1>4, <1>5, <1>6, ConfirmStep, AttemptStep DEF JobStep

\* A step of the check that loses no lead and reports none.
LEMMA CheckKeeps ==
  ASSUME UNCHANGED <<job, story, numbered, accepted>>, UNCHANGED trouble \/ Trouble,
         \A m \in Leads : UnderWay(m)' <=> UnderWay(m)
  PROVE  [AsDelivery!DeliveryNext]_(AsDelivery!deliveryVars)
<1>1. \A m \in Leads : Outcome'[m] = Outcome[m]
  BY SameOutcome DEF Confirmed
<1> QED BY <1>1, NothingChanges

\* The check finds, clears, notes and sets aside leads without letting go of one.
LEMMA CheckWalks ==
  ASSUME DeliveryInv,
         CheckStarts \/ \E l \in Leads : GiveUp(l) \/ ClearClaim(l) \/ NoteRequeued(l) \/ RequeueFails(l)
  PROVE  [AsDelivery!DeliveryNext]_(AsDelivery!deliveryVars)
<1>1. check \in TypeOfCheck /\ TypeOK /\ NothingIdle
  BY DEF DeliveryInv, ClaimInv, TypeOK
<1>2. \A l \in check.todo : l \in Leads /\ claim[l] # Free
  <2>1. check.todo \subseteq Leads
    BY <1>1 DEF TypeOfCheck
  <2>2. \A l \in check.todo : claim[l] \in {Free} \cup 0..Old /\ claim[l] > Day
    BY <2>1 DEF DeliveryInv, ClaimInv, TypeOK, TodoIsAbandoned
  <2> QED BY <2>1, <2>2, Bounds DEF Free
<1>3. ASSUME UNCHANGED job PROVE \A m \in Leads : Work(m)' <=> Work(m)
  BY <1>3 DEF Work, For
<1>4. CASE CheckStarts
  <2>1. /\ check'.stuck = check.stuck /\ check.st = "idle" /\ check'.st = "loop"
        /\ UNCHANGED <<claim, job, story, numbered, accepted, trouble>>
    BY <1>1, <1>4 DEF CheckStarts, NoCheck, NothingIdle, rows
  <2>2. \A m \in Leads : UnderWay(m)' <=> UnderWay(m)
    BY <1>3, <2>1 DEF UnderWay, Work
  <2> QED BY <2>1, <2>2, CheckKeeps
<1>5. ASSUME NEW l \in Leads, GiveUp(l)
      PROVE  [AsDelivery!DeliveryNext]_(AsDelivery!deliveryVars)
  <2>1. /\ check'.stuck = check.stuck \cup {l} /\ check'.st = check.st /\ check'.lead = check.lead
        /\ claim[l] # Free /\ UNCHANGED <<claim, job, story, numbered, accepted, trouble>>
    BY <1>1, <1>2, <1>5 DEF GiveUp, TypeOfCheck, rows
  <2>2. \A m \in Leads : UnderWay(m)' <=> UnderWay(m)
    BY <1>3, <2>1 DEF UnderWay, Work
  <2> QED BY <2>1, <2>2, CheckKeeps
<1>6. ASSUME NEW l \in Leads, ClearClaim(l)
      PROVE  [AsDelivery!DeliveryNext]_(AsDelivery!deliveryVars)
  <2>1. /\ check'.stuck = check.stuck /\ check.st = "loop" /\ claim[l] # Free
        /\ check'.st = "cleared" /\ check'.lead = {l}
        /\ UNCHANGED <<job, story, numbered, accepted, trouble>>
    BY <1>1, <1>2, <1>6 DEF ClearClaim, TypeOfCheck
  <2>2. \A m \in Leads \ {l} : claim'[m] = claim[m]
    BY <1>1, <1>6 DEF ClearClaim, TypeOK
  <2>3. \A m \in Leads : UnderWay(m)' <=> UnderWay(m)
    BY <1>3, <2>1, <2>2 DEF UnderWay, Work
  <2> QED BY <2>1, <2>3, CheckKeeps
<1>7. ASSUME NEW l \in Leads, NoteRequeued(l)
      PROVE  [AsDelivery!DeliveryNext]_(AsDelivery!deliveryVars)
  <2>1. /\ check'.stuck = check.stuck /\ check.st = "queued" /\ check'.st = "loop"
        /\ UNCHANGED <<claim, job, story, numbered, accepted, trouble>>
    BY <1>1, <1>7 DEF NoteRequeued, TypeOfCheck
  <2>2. \A m \in Leads : UnderWay(m)' <=> UnderWay(m)
    BY <1>3, <2>1 DEF UnderWay, Work
  <2> QED BY <2>1, <2>2, CheckKeeps
<1>8. ASSUME NEW l \in Leads, RequeueFails(l)
      PROVE  [AsDelivery!DeliveryNext]_(AsDelivery!deliveryVars)
  <2>1. /\ check'.stuck = check.stuck \cup {l} /\ check.st = "cleared" /\ check'.st = "loop"
        /\ check.lead = {l} /\ Trouble
        /\ UNCHANGED <<claim, job, story, numbered, accepted>>
    BY <1>1, <1>8 DEF RequeueFails, TypeOfCheck, rows
  <2>2. \A m \in Leads : UnderWay(m)' <=> UnderWay(m)
    BY <1>3, <2>1 DEF UnderWay, Work
  <2> QED BY <2>1, <2>2, CheckKeeps
<1> QED BY <1>4, <1>5, <1>6, <1>7, <1>8

\* The check sends a lead again.
LEMMA RequeueRefines ==
  ASSUME DeliveryInv, NEW j \in Jobs, NEW l \in Leads, Requeue(j, l)
  PROVE  [AsDelivery!DeliveryNext]_(AsDelivery!deliveryVars)
<1>1. TypeOK /\ NothingIdle /\ check \in TypeOfCheck
  BY DEF DeliveryInv, ClaimInv, TypeOK
<1>2. Enqueued(j, l) /\ job[j].lead = {} /\ UNCHANGED <<rows, trouble>>
  BY <1>1 DEF Requeue, NothingIdle
<1>3. story' = [story EXCEPT ![l] = "resent"]
  BY DEF Requeue
<1>4. check'.stuck = check.stuck /\ check'.st = "queued" /\ check.lead = {l}
  BY <1>1 DEF Requeue, TypeOfCheck
<1> QED BY <1>1, <1>2, <1>3, <1>4, AskStep

\* At its end the check reports what it has set aside.
LEMMA EndRefines ==
  ASSUME DeliveryInv, CheckEnds
  PROVE  [AsDelivery!DeliveryNext]_(AsDelivery!deliveryVars)
<1> DEFINE S == {l \in Leads : Outcome'[l] # Outcome[l]}
<1>1. /\ check'.stuck = {} /\ check'.st = "idle" /\ check.st = "loop"
      /\ UNCHANGED <<claim, job, numbered, accepted, trouble>>
  BY DEF CheckEnds, NoCheck, rows
<1>2. \A m \in Leads : Confirmed(m)' <=> Confirmed(m)
  BY <1>1 DEF Confirmed
<1>3. \A m \in Leads : Work(m)' <=> Work(m)
  BY <1>1 DEF Work, For
<1>4. \A l \in S : Outcome[l] = "owed" /\ Outcome'[l] = "told"
  <2> SUFFICES ASSUME NEW l \in S PROVE Outcome[l] = "owed" /\ Outcome'[l] = "told"
    OBVIOUS
  <2>1. l \in check.stuck
    <3>1. l \notin check.stuck => (UnderWay(l)' <=> UnderWay(l)) /\ story'[l] = story[l]
      BY <1>1, <1>3 DEF CheckEnds, UnderWay, Work
    <3> QED BY <1>2, <3>1, SameOutcome
  <2>2. ~Confirmed(l) /\ ~Confirmed(l)'
    BY <1>2, DoneStays
  <2>3. story'[l] = "told" /\ UnderWay(l)
    BY <2>1 DEF CheckEnds, UnderWay
  <2> QED BY <2>2, <2>3 DEF Outcome
<1>5. CASE S = {}
  BY <1>1, <1>5, NothingChanges
<1>6. CASE S # {}
  <2>1. AsDelivery!Becomes(S, "told")
    BY <1>4, SomeChange
  <2>2. AsDelivery!Report(S)
    BY <1>1, <1>4, <1>6, <2>1 DEF AsDelivery!Report, AsDelivery!Owed
  <2>3. S \in SUBSET Leads
    OBVIOUS
  <2> QED BY <2>2, <2>3 DEF AsDelivery!DeliveryNext
<1> QED BY <1>5, <1>6

\* A check that dies loses leads that were owed and nothing else.
LEMMA DeathRefines ==
  ASSUME DeliveryInv, CheckDies
  PROVE  [AsDelivery!DeliveryNext]_(AsDelivery!deliveryVars)
<1> DEFINE S == {l \in Leads : Outcome'[l] # Outcome[l]}
<1>1. /\ check' = NoCheck /\ Trouble
      /\ UNCHANGED <<claim, job, story, numbered, accepted>>
  BY DEF CheckDies, rows
<1>2. \A m \in Leads : Confirmed(m)' <=> Confirmed(m)
  BY <1>1 DEF Confirmed
<1>3. \A m \in Leads : UnderWay(m)' => UnderWay(m)
  BY <1>1 DEF UnderWay, NoCheck, For
<1>4. \A l \in S : Outcome[l] = "owed" /\ Outcome'[l] = "lost"
  <2> SUFFICES ASSUME NEW l \in S PROVE Outcome[l] = "owed" /\ Outcome'[l] = "lost"
    OBVIOUS
  <2>1. ~Confirmed(l) /\ ~Confirmed(l)'
    BY <1>2, DoneStays
  <2>2. UnderWay(l) /\ ~UnderWay(l)'
    BY <1>1, <1>2, <1>3, SameOutcome
  <2>3. story[l] # "told" /\ story[l] # "none" /\ story'[l] = story[l]
    <3>1. story[l] # "told"
      BY <1>1, <2>1 DEF Outcome
    <3>2. story[l] # "none"
      BY <2>2 DEF DeliveryInv, Unasked, UnderWay, Work
    <3> QED BY <1>1, <3>1, <3>2
  <2> QED BY <2>1, <2>2, <2>3 DEF Outcome
<1>5. AsDelivery!Becomes(S, "lost")
  BY <1>4, SomeChange
<1>6. AsDelivery!BreakDown(S)
  BY <1>1, <1>4, <1>5 DEF AsDelivery!BreakDown, AsDelivery!Owed, Trouble
<1>7. S \in SUBSET Leads
  OBVIOUS
<1> QED BY <1>6, <1>7 DEF AsDelivery!DeliveryNext

\* Time changes no outcome.
LEMMA TickRefines ==
  ASSUME DeliveryInv, Tick
  PROVE  [AsDelivery!DeliveryNext]_(AsDelivery!deliveryVars)
<1>1. UNCHANGED <<job, check, story, numbered, accepted, trouble>>
  BY DEF Tick
<1>2. \A l \in Leads : claim'[l] = Free <=> claim[l] = Free
  BY AgedType, Bounds DEF Tick, DeliveryInv, ClaimInv, TypeOK
<1>3. \A l \in Leads : UnderWay(l)' <=> UnderWay(l)
  BY <1>1, <1>2 DEF UnderWay, For
<1> QED BY <1>1, <1>3, CheckKeeps

LEMMA StepRefines ==
  ASSUME DeliveryInv, [Next]_vars
  PROVE  [AsDelivery!DeliveryNext]_(AsDelivery!deliveryVars)
<1>1. CASE UNCHANGED vars
  <2>1. \A l \in Leads : UnderWay(l)' <=> UnderWay(l)
    BY <1>1 DEF vars, rows, UnderWay, For
  <2> QED BY <1>1, <2>1, CheckKeeps DEF vars, rows
<1> QED BY <1>1, JobRefines, CheckWalks, RequeueRefines, EndRefines, DeathRefines, TickRefines
        DEF Next, CheckStep

\* Pushing a lead does nothing that Delivery does not allow: an outcome changes only by
\* being asked for, confirmed, reported or, in a breakdown, lost; and a confirmation is final.
THEOREM ImplementsDelivery == Spec => AsDelivery!DeliverySafety
<1>1. Init => DeliveryInv
  BY InitClaims DEF Init, DeliveryInv, Unasked, Work, For, NoJob, NoCheck
<1>2. Init => AsDelivery!DeliveryInit
  <2> SUFFICES ASSUME Init PROVE AsDelivery!DeliveryInit
    OBVIOUS
  <2>1. \A l \in Leads : ~Confirmed(l) /\ ~UnderWay(l) /\ story[l] = "none"
    BY DEF Init, UnderWay, Confirmed, For, NoJob, NoCheck
  <2>2. \A l \in Leads : Outcome[l] = "none"
    BY <2>1 DEF Outcome
  <2>3. Outcome = [l \in Leads |-> "none"]
    BY <2>2 DEF Outcome
  <2> QED BY <2>3 DEF Init, AsDelivery!DeliveryInit
<1>3. DeliveryInv /\ [Next]_vars => [AsDelivery!DeliveryNext]_(AsDelivery!deliveryVars)
  BY StepRefines
<1> QED BY <1>1, <1>2, <1>3, UnaskedStep, PTL DEF Spec, AsDelivery!DeliverySafety
===============================================================================

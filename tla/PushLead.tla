------------------------------- MODULE PushLead -------------------------------
(***************************************************************************)
(* Sending a lead to 1C (lib/services/oneCSync/push.ts, its queue          *)
(* oneCSync.pushLead, the manager's button, and the nightly check of       *)
(* oneCSync/reconcile.ts that looks for leads stuck on the way).           *)
(*                                                                         *)
(* Lead.pushedToOneCAt is a claim: the job that turns it from NULL calls   *)
(* 1C.  It stays after a success and is taken back after an error.  A job  *)
(* that dies, or whose database refuses to take the claim back, leaves the *)
(* lead claimed with nobody sending it; that is what the check is for.     *)
(*                                                                         *)
(* Time passes in ticks.  Claims and notes of the check are kept as ages.  *)
(* BullMQ and 1C are modelled from how they are used: a failed job is      *)
(* tried again, a job whose worker died starts over, 1C accepts or not.    *)
(***************************************************************************)
EXTENDS Integers, FiniteSets

CONSTANTS
  Leads,
  Jobs,          \* bound: the jobs the queue can hold at a time
  MaxAttempts,   \* attempts of a job (defaultJobOpts)
  Day,           \* DAY_MS in ticks
  Delay,         \* how late a nightly run may start
  MaxAsks,       \* bound: how often the manager presses the button
  MaxTrouble     \* bound: worker deaths, and refusals of the database or of Redis

ASSUME PushAssumption ==
  /\ MaxAttempts \in Nat \ {0}
  /\ Day \in Nat \ {0} /\ Delay \in Nat
  /\ MaxAsks \in Nat /\ MaxTrouble \in Nat

VARIABLES
  claim,     \* the age of Lead.pushedToOneCAt, or Free when it is NULL
  numbered,  \* the leads with an externalIdInOneC
  accepted,  \* the leads with a success row of their create in SyncLog
  note,      \* the age of the last "requeued" row of the check
  job,
  check,     \* the running check
  sinceRun,  \* ticks since the check started last
  asks,
  trouble,
  story,     \* history: what the cabinet owes the lead and whether it was told
  dropped    \* history: leads a check that died, or failed half-way, has let go

rows == <<claim, numbered, accepted, note>>
vars == <<rows, job, check, sinceRun, asks, trouble, story, dropped>>

Free == -1

Memory == 2 * Day     \* LEAD_RETRY_MEMORY_MS

\* Ages above these are all alike.
Old == Day + 1
Forgotten == Memory + 1

NoJob == [st |-> "none", lead |-> {}, attempts |-> 0]

NoCheck == [st |-> "idle", todo |-> {}, retried |-> {}, lead |-> {}, stuck |-> {}]

JobStates == {"none", "waiting", "read", "sending", "numbered", "confirming",
              "releasing", "failing"}

Owns == {"sending", "numbered", "confirming", "releasing"}

TypeOfJob == [st : JobStates, lead : SUBSET Leads, attempts : 0..MaxAttempts - 1]

TypeOfCheck == [st : {"idle", "loop", "cleared", "queued"}, todo : SUBSET Leads,
                retried : SUBSET Leads, lead : SUBSET Leads, stuck : SUBSET Leads]

\* A job or the check works on the lead in its set, or on none.
For(j, l) == job[j].lead = {l}

Holds(j, l) == For(j, l) /\ job[j].st \in Owns

Confirmed(l) == l \in numbered \/ l \in accepted

JobGoes(j, st) == job' = [job EXCEPT ![j].st = st]

JobEnds(j) == job' = [job EXCEPT ![j] = NoJob]

Enqueued(j, l) == job' = [job EXCEPT ![j] = [st |-> "waiting", lead |-> {l}, attempts |-> 0]]

Trouble == trouble < MaxTrouble /\ trouble' = trouble + 1

Init ==
  /\ claim = [l \in Leads |-> Free]
  /\ numbered = {} /\ accepted = {}
  /\ note = [l \in Leads |-> Forgotten]
  /\ job = [j \in Jobs |-> NoJob]
  /\ check = NoCheck
  /\ sinceRun = 0 /\ asks = 0 /\ trouble = 0
  /\ story = [l \in Leads |-> "none"]
  /\ dropped = {}

-----------------------------------------------------------------------------
(* The manager's button (lib/services/manager/leadPush.ts).                 *)

AskToPush(j, l) ==
  /\ asks < MaxAsks /\ claim[l] = Free /\ job[j].st = "none"
  /\ asks' = asks + 1
  /\ Enqueued(j, l)
  /\ story' = [story EXCEPT ![l] = "asked"]
  /\ dropped' = dropped \ {l}
  /\ UNCHANGED <<rows, check, sinceRun, trouble>>

-----------------------------------------------------------------------------
(* A job: oneCSync/push.ts under the processor of its queue.                *)

\* The guard: a lead that is claimed counts as sent, and the job ends well.
ReadLead(j, l) ==
  /\ job[j].st = "waiting" /\ For(j, l)
  /\ IF claim[l] = Free THEN JobGoes(j, "read") ELSE JobEnds(j)
  /\ UNCHANGED <<rows, check, sinceRun, asks, trouble, story, dropped>>

ReadWasEnough(l) == TRUE                              \* mutant of Wins
Wins(l) == claim[l] = Free

\* The claim: an update whose WHERE asks for a NULL.  A loser ends well, too.
ClaimLead(j, l) ==
  /\ job[j].st = "read" /\ For(j, l)
  /\ IF Wins(l)
     THEN JobGoes(j, "sending") /\ claim' = [claim EXCEPT ![l] = 0]
     ELSE JobEnds(j) /\ UNCHANGED claim
  /\ UNCHANGED <<numbered, accepted, note, check, sinceRun, asks, trouble, story, dropped>>

\* 1C answers that it took the lead, with a number of its own or without.
Answered(j, l) ==
  /\ job[j].st = "sending" /\ For(j, l)
  /\ \E st \in {"numbered", "confirming"} : JobGoes(j, st)
  /\ UNCHANGED <<rows, check, sinceRun, asks, trouble, story, dropped>>

\* The call throws: 1C refused, or its answer was lost.
CallFails(j, l) ==
  /\ job[j].st = "sending" /\ For(j, l)
  /\ JobGoes(j, "releasing")
  /\ UNCHANGED <<rows, check, sinceRun, asks, trouble, story, dropped>>

StoreNumber(j, l) ==
  /\ job[j].st = "numbered" /\ For(j, l)
  /\ numbered' = numbered \cup {l}
  /\ JobGoes(j, "confirming")
  /\ UNCHANGED <<claim, accepted, note, check, sinceRun, asks, trouble, story, dropped>>

LogSuccess(j, l) ==
  /\ job[j].st = "confirming" /\ For(j, l)
  /\ accepted' = accepted \cup {l}
  /\ JobEnds(j)
  /\ UNCHANGED <<claim, numbered, note, check, sinceRun, asks, trouble, story, dropped>>

\* The number or the success row cannot be written: the same catch as for the call.
SavingFails(j, l) ==
  /\ job[j].st \in {"numbered", "confirming"} /\ For(j, l)
  /\ Trouble
  /\ JobGoes(j, "releasing")
  /\ UNCHANGED <<rows, check, sinceRun, asks, story, dropped>>

\* catch: the claim is taken back, whosever it is; or that fails as well.
ReleaseClaim(j, l) ==
  /\ job[j].st = "releasing" /\ For(j, l)
  /\ JobGoes(j, "failing")
  /\ \/ claim' = [claim EXCEPT ![l] = Free] /\ UNCHANGED trouble
     \/ Trouble /\ UNCHANGED claim
  /\ UNCHANGED <<numbered, accepted, note, check, sinceRun, asks, story, dropped>>

OneTooMany(n) == n > MaxAttempts                      \* mutant of LastAttempt
LastAttempt(n) == n >= MaxAttempts

EndsWell(j, l) ==                                     \* mutant of AttemptOver
  JobEnds(j) /\ UNCHANGED story
AttemptOver(j, l) ==
  IF LastAttempt(job[j].attempts + 1)
  THEN JobEnds(j) /\ story' = [story EXCEPT ![l] = "told"]
  ELSE /\ job' = [job EXCEPT ![j].st = "waiting", ![j].attempts = @ + 1]
       /\ UNCHANGED story

\* The processor throws: the queue tries again, and after the last attempt the
\* handler of 'failed' tells the partner.
AttemptFails(j, l) ==
  /\ job[j].st = "failing" /\ For(j, l)
  /\ AttemptOver(j, l)
  /\ UNCHANGED <<rows, check, sinceRun, asks, trouble, dropped>>

\* The worker dies within an attempt; the queue finds the job stalled and starts it over.
WorkerDies(j) ==
  /\ job[j].st \notin {"none", "waiting"}
  /\ Trouble
  /\ JobGoes(j, "waiting")
  /\ UNCHANGED <<rows, check, sinceRun, asks, story, dropped>>

-----------------------------------------------------------------------------
(* The check: reconcileStuckLeads, and the notices its processor sends.     *)

YoungClaims(l) == claim[l] # Free /\ claim[l] <= Day  \* mutant of Claimed
Claimed(l) == claim[l] > Day

NumberMissing(l) == Claimed(l) /\ l \notin numbered   \* mutant of Stuck
Stuck(l) == Claimed(l) /\ l \notin numbered /\ l \notin accepted

CheckStarts ==
  /\ check.st = "idle"
  /\ check' = [NoCheck EXCEPT !.st = "loop",
                              !.todo = {l \in Leads : Stuck(l)},
                              !.retried = {l \in Leads : note[l] <= Memory}]
  /\ sinceRun' = 0
  /\ UNCHANGED <<rows, job, asks, trouble, story, dropped>>

\* Sent again within the memory already: an error row, and the claim stays.
GiveUp(l) ==
  /\ check.st = "loop" /\ l \in check.todo \cap check.retried
  /\ check' = [check EXCEPT !.todo = @ \ {l}, !.stuck = @ \cup {l}]
  /\ UNCHANGED <<rows, job, sinceRun, asks, trouble, story, dropped>>

ClearClaim(l) ==
  /\ check.st = "loop" /\ l \in check.todo \ check.retried
  /\ claim' = [claim EXCEPT ![l] = Free]
  /\ check' = [check EXCEPT !.st = "cleared", !.todo = @ \ {l}, !.lead = {l}]
  /\ UNCHANGED <<numbered, accepted, note, job, sinceRun, asks, trouble, story, dropped>>

Requeue(j, l) ==
  /\ check.st = "cleared" /\ check.lead = {l} /\ job[j].st = "none"
  /\ Enqueued(j, l)
  /\ check' = [check EXCEPT !.st = "queued"]
  /\ story' = [story EXCEPT ![l] = "resent"]
  /\ UNCHANGED <<rows, sinceRun, asks, trouble, dropped>>

\* Redis refuses the job: an error row; the claim is not put back.
RequeueFails(l) ==
  /\ check.st = "cleared" /\ check.lead = {l}
  /\ Trouble
  /\ check' = [check EXCEPT !.st = "loop", !.lead = {}, !.stuck = @ \cup {l}]
  /\ UNCHANGED <<rows, job, sinceRun, asks, story, dropped>>

NoteRequeued(l) ==
  /\ check.st = "queued" /\ check.lead = {l}
  /\ note' = [note EXCEPT ![l] = 0]
  /\ check' = [check EXCEPT !.st = "loop", !.lead = {}]
  /\ UNCHANGED <<claim, numbered, accepted, job, sinceRun, asks, trouble, story, dropped>>

CheckEnds ==
  /\ check.st = "loop" /\ check.todo = {}
  /\ story' = [l \in Leads |-> IF l \in check.stuck THEN "told" ELSE story[l]]
  /\ check' = NoCheck
  /\ UNCHANGED <<rows, job, sinceRun, asks, trouble, dropped>>

\* The worker dies, or a query throws; the queue starts the check over, which then
\* no longer sees the leads whose claims this one has cleared.
CheckDies ==
  /\ check.st # "idle"
  /\ Trouble
  /\ dropped' = dropped \cup {l \in check.stuck : claim[l] = Free}
                        \cup (IF check.st = "cleared" THEN check.lead ELSE {})
  /\ check' = NoCheck
  /\ UNCHANGED <<rows, job, sinceRun, asks, story>>

-----------------------------------------------------------------------------
(* Time.  The check is scheduled every Day and starts at most Delay late    *)
(* (an administrator may start it at any time).  A run of it is shorter     *)
(* than a tick, and an attempt of a job is shorter than a Day: the calls    *)
(* to 1C time out.                                                          *)

Aged(n, top) == IF n = Free \/ n = top THEN n ELSE n + 1

Tick ==
  /\ check.st = "idle"
  /\ sinceRun < Day + Delay
  /\ \A j \in Jobs, l \in Leads : Holds(j, l) => claim[l] < Day
  /\ sinceRun' = sinceRun + 1
  /\ claim' = [l \in Leads |-> Aged(claim[l], Old)]
  /\ note' = [l \in Leads |-> Aged(note[l], Forgotten)]
  /\ UNCHANGED <<numbered, accepted, job, check, asks, trouble, story, dropped>>

JobStep(j) ==
  \E l \in Leads :
    \/ ReadLead(j, l) \/ ClaimLead(j, l) \/ Answered(j, l) \/ CallFails(j, l)
    \/ StoreNumber(j, l) \/ LogSuccess(j, l) \/ ReleaseClaim(j, l) \/ AttemptFails(j, l)

CheckStep ==
  \/ CheckStarts \/ CheckEnds
  \/ \E l \in Leads : GiveUp(l) \/ ClearClaim(l) \/ NoteRequeued(l)
                      \/ \E j \in Jobs : Requeue(j, l)

Next ==
  \/ \E j \in Jobs, l \in Leads : AskToPush(j, l) \/ SavingFails(j, l)
  \/ \E j \in Jobs : JobStep(j) \/ WorkerDies(j)
  \/ CheckStep \/ CheckDies
  \/ \E l \in Leads : RequeueFails(l)
  \/ Tick

\* Workers run and time passes; nobody has to press the button.
Fairness ==
  /\ \A j \in Jobs : WF_vars(JobStep(j))
  /\ WF_vars(CheckStep)
  /\ SF_vars(Tick)

Spec == Init /\ [][Next]_vars /\ Fairness

-----------------------------------------------------------------------------
(* The abstract delivery.  What became of a lead is read off the rows, the  *)
(* jobs and the check, not off what somebody remembers of it.               *)

\* Something will still act on the lead.
UnderWay(l) ==
  \/ claim[l] # Free
  \/ \E j \in Jobs : For(j, l)
  \/ check.st = "cleared" /\ check.lead = {l}
  \/ l \in check.stuck

Outcome ==
  [l \in Leads |->
     CASE Confirmed(l)        -> "done"
       [] ~Confirmed(l) /\ story[l] = "told" -> "told"
       [] ~Confirmed(l) /\ story[l] # "told" /\ UnderWay(l) -> "owed"
       [] OTHER -> IF story[l] = "none" THEN "none" ELSE "lost"]

AsDelivery == INSTANCE Delivery WITH Items <- Leads, outcome <- Outcome, breakdowns <- trouble

-----------------------------------------------------------------------------
(* Properties.                                                              *)

\* The jobs, the button and the check together do what Delivery promises: a lead is sent
\* because somebody asked, nothing takes it from "asked" but a confirmation, a report or
\* a breakdown, a confirmation is final, and what is owed gets settled.
Delivers == AsDelivery!DeliverySpec

\* The fields have their types and every age stays within its bound.
TypeOK ==
  /\ claim \in [Leads -> {Free} \cup 0..Old]
  /\ numbered \subseteq Leads /\ accepted \subseteq Leads
  /\ note \in [Leads -> 0..Forgotten]
  /\ job \in [Jobs -> TypeOfJob]
  /\ check \in TypeOfCheck
  /\ sinceRun \in 0..Day + Delay
  /\ asks \in 0..MaxAsks /\ trouble \in 0..MaxTrouble
  /\ story \in [Leads -> {"none", "asked", "resent", "told"}]
  /\ dropped \subseteq Leads

\* Two jobs never send the same lead at the same time, whatever the check clears and
\* the failed attempts give back (push.ts: "this is what prevents a DUPLICATE lead in
\* 1C when two jobs race").
OneSender == \A i, j \in Jobs, l \in Leads : Holds(i, l) /\ Holds(j, l) => i = j

\* Once the exchange log says that 1C accepted a lead, it is never sent again: neither
\* a second job nor the check of stuck leads, which cannot tell by the number because
\* 1C may give none, starts another call.
AcceptedNotResent ==
  [][\A j \in Jobs, l \in Leads :
       l \in accepted => ~(job'[j].st = "sending" /\ job'[j].lead = {l}
                           /\ job[j].st # "sending")]_vars

\* A lead somebody asked to send is in 1C, or claimed, or a job has it, or the check is
\* about to queue it or to report it, or the partner was told; only a check that broke
\* down between clearing the claim and queueing the job lets go of it.
CarriedOn ==
  \A l \in Leads :
    story[l] \in {"asked", "resent"} =>
      \/ Confirmed(l) \/ claim[l] # Free \/ l \in dropped
      \/ \E j \in Jobs : For(j, l)
      \/ check.st = "cleared" /\ check.lead = {l}
      \/ l \in check.stuck

\* reconcile.ts: a stuck lead is sent again once; the second time it is reported.
ResentOnce ==
  [][\A l \in Leads, j \in Jobs : Requeue(j, l) => story[l] # "resent"]_vars
===============================================================================

----------------------------- MODULE TaskRecurrence -----------------------------
(***************************************************************************)
(* A series of repeated tasks (lib/services/tasks/recurrence.ts).  There   *)
(* is no row for the series: it is a chain of tasks, each created from the *)
(* one before it, when that is completed (board.ts), when somebody edits   *)
(* "only this one" (tasks.ts), or at night once its date has passed.  The  *)
(* rule is copied from task to task; Task.recurrenceParentId is unique and *)
(* becomes NULL when the parent is deleted.                                *)
(***************************************************************************)
EXTENDS Integers, FiniteSets

CONSTANTS
  Hands,       \* requests that run at the same time; the nightly pass runs beside them
  MaxTasks,    \* bound: the tasks that are ever created
  Until,       \* the last date of the rule; dates are 1..Until
  MaxEdits,    \* bound: edits by users
  MaxDeletes,  \* bound: tasks deleted by users
  MaxMishaps   \* bound: deaths, and refusals of the database

ASSUME RecurrenceAssumption ==
  MaxTasks \in Nat \ {0} /\ Until \in Nat \ {0} /\ MaxEdits \in Nat
  /\ MaxDeletes \in Nat /\ MaxMishaps \in Nat

VARIABLES
  task,      \* the tasks
  hand,      \* what each request does, and the nightly pass
  todo,      \* the tasks the nightly pass still has to look at
  today,
  edits, deletes, mishaps,
  cut,       \* history: a task that had a successor was deleted
  let        \* history: an edit, a deletion or a mishap may have ended the series, or its last date

spent == <<edits, deletes, mishaps>>
recurrenceVars == <<task, hand, todo, today, spent, cut, let>>

TaskIds == 1..MaxTasks
Night == "night"
Runs == Hands \cup {Night}

\* due is 0 for a task without a date.
NoTask == [there |-> FALSE, rule |-> FALSE, due |-> 0, done |-> FALSE, parent |-> 0]
TaskRows == [there : BOOLEAN, rule : BOOLEAN, due : 0..Until, done : BOOLEAN,
             parent : 0..MaxTasks]

Resting == [do |-> "rest", st |-> "idle", on |-> 0, due |-> 0, first |-> FALSE]
HandRows == [do : {"rest", "move", "detach", "sweep"}, st : {"idle", "read", "look", "create", "strip"},
             on : 0..MaxTasks, due : 0..Until, first : BOOLEAN]

HasChild(t) == \E c \in TaskIds : task[c].there /\ task[c].parent = t

\* The series lives in the tasks with a rule and without a successor.
Carriers == {t \in TaskIds : task[t].there /\ task[t].rule /\ ~HasChild(t)}

Works(h, do, st, t, first) ==
  hand' = [hand EXCEPT ![h] = [do |-> do, st |-> st, on |-> t, due |-> 0, first |-> first]]
Rests(h) == hand' = [hand EXCEPT ![h] = Resting]

Mishap == mishaps < MaxMishaps /\ mishaps' = mishaps + 1
Edits == edits < MaxEdits /\ edits' = edits + 1

\* materializeNextOccurrence is over, whatever came of it: an edit of "only this one" goes on.
GoesOn(h) ==
  IF hand[h].do = "detach"
  THEN hand' = [hand EXCEPT ![h].st = "strip", ![h].due = 0]
  ELSE Rests(h)

RecurrenceInit ==
  /\ task = [t \in TaskIds |-> IF t = 1 THEN [NoTask EXCEPT !.there = TRUE, !.rule = TRUE, !.due = 1]
                               ELSE NoTask]
  /\ hand = [h \in Runs |-> Resting]
  /\ todo = {} /\ today = 1
  /\ edits = 0 /\ deletes = 0 /\ mishaps = 0
  /\ cut = FALSE /\ let = FALSE

-----------------------------------------------------------------------------
(* The board.                                                               *)

\* The task as it was when the card was dropped on another column.
MoveReads(h, t) ==
  /\ hand[h] = Resting /\ task[t].there
  /\ Works(h, "move", "read", t, ~task[t].done)
  /\ UNCHANGED <<task, todo, today, spent, cut, let>>

\* Into a column of finished tasks, for the first time as far as the request knows, or not.
MoveStores(h) ==
  LET t == hand[h].on IN
  /\ hand[h].do = "move" /\ hand[h].st = "read"
  /\ IF ~task[t].there THEN Rests(h) /\ UNCHANGED task
     ELSE \E done \in BOOLEAN :
            /\ task' = [task EXCEPT ![t].done = done]
            /\ IF done /\ hand[h].first THEN Works(h, "move", "look", t, TRUE) ELSE Rests(h)
  /\ UNCHANGED <<todo, today, spent, cut, let>>

-----------------------------------------------------------------------------
(* The next task.                                                           *)

\* The rule has a next date after this one's.
HasNext(t) == task[t].due \in 1..Until - 1

Look(h) ==
  LET t == hand[h].on IN
  /\ hand[h].st = "look"
  /\ IF task[t].there /\ task[t].rule /\ ~HasChild(t) /\ HasNext(t)
     THEN hand' = [hand EXCEPT ![h].st = "create", ![h].due = task[t].due]
     ELSE GoesOn(h)
  /\ let' = (let \/ (hand[h].do = "detach" /\ ~HasNext(t)))
  /\ UNCHANGED <<task, todo, today, spent, cut>>

NoIndex(t) == task[t].there                              \* mutant of Inserts
\* The parent is referenced, and has one successor at most.
Inserts(t) == task[t].there /\ ~HasChild(t)

\* Ids are given in order.
Create(h, n) ==
  LET t == hand[h].on IN
  /\ hand[h].st = "create" /\ Inserts(t)
  /\ task[n] = NoTask /\ \A i \in 1..n - 1 : task[i] # NoTask
  /\ task' = [task EXCEPT ![n] = [there |-> TRUE, rule |-> TRUE, due |-> hand[h].due + 1,
                                  done |-> FALSE, parent |-> t]]
  /\ GoesOn(h)
  /\ UNCHANGED <<todo, today, spent, cut, let>>

\* Another way was faster (P2002 is a normal outcome), or the parent is gone.
CreateRefused(h) ==
  /\ hand[h].st = "create" /\ ~Inserts(hand[h].on)
  /\ GoesOn(h)
  /\ UNCHANGED <<task, todo, today, spent, cut, let>>

\* The database refuses; the error is written to the log only.
CreateFails(h) ==
  /\ hand[h].st \in {"look", "create"} /\ Mishap
  /\ GoesOn(h)
  /\ let' = (let \/ hand[h].do = "detach")
  /\ UNCHANGED <<task, todo, today, edits, deletes, cut>>

-----------------------------------------------------------------------------
(* The card.                                                                *)

\* Saved for this and all later ones, with the rule and any date, or without the rule: then
\* the date counts no more.
Edit(t) ==
  /\ task[t].there /\ Edits
  /\ \/ \E due \in 0..Until : task' = [task EXCEPT ![t].due = due, ![t].rule = TRUE]
     \/ task' = [task EXCEPT ![t].rule = FALSE]
  /\ let' = (let \/ task'[t].rule # task[t].rule)
  /\ UNCHANGED <<hand, todo, today, deletes, mishaps, cut>>

\* Saved for this one only: the next is created from what it was before.
EditOnlyThis(h, t) ==
  /\ hand[h] = Resting /\ task[t].there /\ task[t].rule /\ Edits
  /\ Works(h, "detach", "look", t, FALSE)
  /\ UNCHANGED <<task, todo, today, deletes, mishaps, cut, let>>

Strip(h) ==
  LET t == hand[h].on IN
  /\ hand[h].st = "strip"
  /\ task' = IF task[t].there THEN [task EXCEPT ![t].rule = FALSE] ELSE task
  /\ Rests(h)
  /\ UNCHANGED <<todo, today, spent, cut, let>>

\* The row is gone, and its id is not given again; its successor loses its parent.
DeletedTask == [NoTask EXCEPT !.done = TRUE]
Delete(t) ==
  /\ task[t].there /\ deletes < MaxDeletes /\ deletes' = deletes + 1
  /\ task' = [c \in TaskIds |->
                IF c = t THEN DeletedTask
                ELSE IF task[c].parent = t THEN [task[c] EXCEPT !.parent = 0]
                ELSE task[c]]
  /\ cut' = (cut \/ HasChild(t))
  /\ let' = TRUE
  /\ UNCHANGED <<hand, todo, today, edits, mishaps>>

-----------------------------------------------------------------------------
(* The nightly pass, mishaps and time.                                      *)

PastDue(t) == task[t].due \in 1..today - 1

SweepStarts ==
  /\ hand[Night] = Resting /\ todo = {}
  /\ todo' = {t \in Carriers : PastDue(t)} /\ todo' # {}
  /\ UNCHANGED <<task, hand, today, spent, cut, let>>

SweepTakes(t) ==
  /\ hand[Night] = Resting /\ t \in todo
  /\ todo' = todo \ {t}
  /\ Works(Night, "sweep", "look", t, FALSE)
  /\ UNCHANGED <<task, today, spent, cut, let>>

\* A request or the pass dies.
Dies(h) ==
  /\ hand[h] # Resting /\ Mishap
  /\ Rests(h)
  /\ todo' = IF h = Night THEN {} ELSE todo
  /\ UNCHANGED <<task, today, edits, deletes, cut, let>>

NextDay ==
  /\ today <= Until /\ today' = today + 1
  /\ UNCHANGED <<task, hand, todo, spent, cut, let>>

NightStep ==
  \/ SweepStarts \/ (\E t \in TaskIds : SweepTakes(t))
  \/ Look(Night) \/ CreateRefused(Night) \/ (\E n \in TaskIds : Create(Night, n))

RecurrenceNext ==
  \/ \E h \in Hands :
       \/ \E t \in TaskIds : MoveReads(h, t) \/ EditOnlyThis(h, t) \/ Create(h, t)
       \/ MoveStores(h) \/ Look(h) \/ CreateRefused(h) \/ Strip(h)
  \/ \E h \in Runs : CreateFails(h) \/ Dies(h)
  \/ \E t \in TaskIds : Edit(t) \/ Delete(t)
  \/ NightStep \/ NextDay

RecurrenceSpec == RecurrenceInit /\ [][RecurrenceNext]_recurrenceVars

-----------------------------------------------------------------------------
(* Properties.                                                              *)

\* The fields have their types.
RecurrenceTypeOK ==
  /\ task \in [TaskIds -> TaskRows]
  /\ hand \in [Runs -> HandRows]
  /\ todo \subseteq TaskIds /\ today \in 1..Until + 1
  /\ edits \in 0..MaxEdits /\ deletes \in 0..MaxDeletes /\ mishaps \in 0..MaxMishaps
  /\ cut \in BOOLEAN /\ let \in BOOLEAN

\* However completions, edits of one task, deletions of the last task and the nightly pass
\* meet, a series does not split in two (recurrence.ts: "exactly one instance ahead"); and
\* as long as nobody ends it and no creation fails, it is not lost either.
OneSeries ==
  /\ ~cut => Cardinality(Carriers) <= 1
  /\ ~let => Carriers # {}

\* recurrence.ts: "a duplicate is impossible by the design of the database": no task is
\* created for a date the series has a task for.
NeverTwice ==
  [][\A n, t \in TaskIds :
       task[n] = NoTask /\ task'[n] # NoTask /\ task[t].there
       => task'[n].due # task[t].due]_recurrenceVars
===============================================================================

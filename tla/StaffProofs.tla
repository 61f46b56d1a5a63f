------------------------------ MODULE StaffProofs ------------------------------
(***************************************************************************)
(* Theorems about the work of employees, for any number of requests, jobs  *)
(* and rows.  TaskRecurrence: type correctness, one end of a series that   *)
(* goes on.  Attachment: type correctness, the three promises of a checked *)
(* file.  Enrollment: type correctness, the header and its items, one card *)
(* per person.                                                             *)
(***************************************************************************)
EXTENDS TaskRecurrence, Attachment, Enrollment, TLAPS, FiniteSetTheorems

-----------------------------------------------------------------------------
(* TaskRecurrence.                                                            *)

\* A request at work has a task, and a date to give the next one.
AtWork(h) ==
  /\ hand[h] # Resting => hand[h].on \in TaskIds
  /\ hand[h].st = "create" => hand[h].due \in 1..Until - 1

\* The parent of a task is there.
HasItsParent(c) == task[c].there /\ task[c].parent # 0 => task[task[c].parent].there

\* The tasks without a successor.
SeriesEnds == {t \in TaskIds : task[t].there /\ ~HasChild(t)}

\* While nothing may have ended the series, its tasks are there, and an edit of "only this
\* one" takes the rule from a task that has handed it on.
StillThere(h) ==
  /\ hand[h] # Resting => task[hand[h].on].there
  /\ hand[h].st = "strip" => HasChild(hand[h].on) \/ ~task[hand[h].on].rule

SeriesForm ==
  /\ \A h \in Runs : AtWork(h)
  /\ \A c \in TaskIds : HasItsParent(c)

SeriesInv ==
  /\ SeriesForm
  /\ ~cut => \E x \in Nat : SeriesEnds \subseteq {x}
  /\ ~let => /\ Carriers # {}
             /\ \A t \in todo : task[t].there
             /\ \A h \in Runs : StillThere(h)



\* A task of which one field changes is one.
LEMMA TaskRowUpdates ==
  ASSUME NEW r \in TaskRows
  PROVE  /\ \A b \in BOOLEAN : [r EXCEPT !.done = b] \in TaskRows
         /\ \A d \in 0..Until : [r EXCEPT !.due = d, !.rule = TRUE] \in TaskRows
         /\ [r EXCEPT !.rule = FALSE] \in TaskRows
         /\ [r EXCEPT !.parent = 0] \in TaskRows
<1>0. 0 \in 0..MaxTasks
  BY RecurrenceAssumption DEF RecurrenceAssumption
<1>1. ASSUME NEW b \in BOOLEAN PROVE [r EXCEPT !.done = b] \in TaskRows
  BY DEF TaskRows
<1>2. ASSUME NEW d \in 0..Until PROVE [r EXCEPT !.due = d, !.rule = TRUE] \in TaskRows
  BY DEF TaskRows
<1>3. [r EXCEPT !.rule = FALSE] \in TaskRows
  BY DEF TaskRows
<1>4. [r EXCEPT !.parent = 0] \in TaskRows
  BY <1>0 DEF TaskRows
<1> QED BY <1>1, <1>2, <1>3, <1>4

\* So is a new one.
LEMMA NewRows ==
  /\ NoTask \in TaskRows /\ DeletedTask \in TaskRows /\ Resting \in HandRows
  /\ \A t \in TaskIds, d \in 1..Until - 1 :
       [there |-> TRUE, rule |-> TRUE, due |-> d + 1, done |-> FALSE, parent |-> t] \in TaskRows
  /\ \A do \in {"move", "detach", "sweep"}, st \in {"read", "look"}, t \in TaskIds,
        d \in 0..Until, first \in BOOLEAN :
       [do |-> do, st |-> st, on |-> t, due |-> d, first |-> first] \in HandRows
<1>0. /\ 0 \in 0..MaxTasks /\ 0 \in 0..Until /\ TaskIds \subseteq 0..MaxTasks
      /\ \A d \in 1..Until - 1 : d + 1 \in 0..Until
  BY RecurrenceAssumption DEF RecurrenceAssumption, TaskIds
<1>1. NoTask \in TaskRows
  BY <1>0 DEF NoTask, TaskRows
<1>2. DeletedTask \in TaskRows
  BY <1>1, TaskRowUpdates DEF DeletedTask
<1>3. Resting \in HandRows
  BY <1>0 DEF Resting, HandRows
<1>4. ASSUME NEW t \in TaskIds, NEW d \in 1..Until - 1
      PROVE  [there |-> TRUE, rule |-> TRUE, due |-> d + 1, done |-> FALSE, parent |-> t]
               \in TaskRows
  BY <1>0 DEF TaskRows
<1>5. ASSUME NEW do \in {"move", "detach", "sweep"}, NEW st \in {"read", "look"},
             NEW t \in TaskIds, NEW d \in 0..Until, NEW first \in BOOLEAN
      PROVE  [do |-> do, st |-> st, on |-> t, due |-> d, first |-> first] \in HandRows
  BY <1>0 DEF HandRows
<1> QED BY <1>1, <1>2, <1>3, <1>4, <1>5

\* What a step that changes neither parents nor what is there leaves as it was.
LEMMA SameTree ==
  ASSUME RecurrenceTypeOK, RecurrenceTypeOK',
         \A t \in TaskIds : /\ task'[t].there = task[t].there
                            /\ task'[t].parent = task[t].parent
  PROVE  /\ SeriesEnds' = SeriesEnds
         /\ \A t : HasChild(t)' = HasChild(t)
         /\ \A c \in TaskIds : HasItsParent(c) => HasItsParent(c)'
<1>1. \A t : HasChild(t)' = HasChild(t)
  BY DEF HasChild
<1>2. SeriesEnds' = SeriesEnds
  BY <1>1 DEF SeriesEnds
<1>3. \A c \in TaskIds : task[c].parent \in 0..MaxTasks
  BY DEF RecurrenceTypeOK, TaskRows
<1>4. \A c \in TaskIds : HasItsParent(c) => HasItsParent(c)'
  BY <1>3, RecurrenceAssumption DEF HasItsParent, RecurrenceAssumption, TaskIds
<1> QED BY <1>1, <1>2, <1>4

\* A step after which the hands are at work as they should be, and the tree is as it was.
LEMMA SameTreeStep ==
  ASSUME RecurrenceTypeOK, RecurrenceTypeOK', SeriesInv,
         \A t \in TaskIds : /\ task'[t].there = task[t].there
                            /\ task'[t].parent = task[t].parent,
         \A h \in Runs : AtWork(h)',
         cut' = cut, let => let',
         ~let' => /\ Carriers' # {}
                  /\ \A t \in todo' : task[t].there
                  /\ \A h \in Runs : StillThere(h)'
  PROVE  SeriesInv'
<1>1. /\ SeriesEnds' = SeriesEnds
      /\ \A c \in TaskIds : HasItsParent(c)'
  BY SameTree DEF SeriesInv, SeriesForm
<1>2. todo' \subseteq TaskIds
  BY DEF RecurrenceTypeOK
<1> QED BY <1>1, <1>2 DEF SeriesInv, SeriesForm

\* One hand goes on, and the tasks stay as they are.
LEMMA HandStep ==
  ASSUME RecurrenceTypeOK, SeriesInv, NEW h \in Runs,
         NEW row \in HandRows, hand' = [hand EXCEPT ![h] = row],
         row # Resting => row.on \in TaskIds,
         row.st = "create" => row.due \in 1..Until - 1,
         UNCHANGED <<task, today, cut>>, todo' \subseteq todo, let => let', let' \in BOOLEAN,
         edits' \in 0..MaxEdits, deletes' \in 0..MaxDeletes, mishaps' \in 0..MaxMishaps,
         ~let' => /\ row # Resting => task[row.on].there
                  /\ row.st = "strip" => HasChild(row.on) \/ ~task[row.on].rule
  PROVE  RecurrenceTypeOK' /\ SeriesInv'
<1>1. RecurrenceTypeOK'
  BY DEF RecurrenceTypeOK
<1>2. /\ hand'[h] = row
      /\ \A k \in Runs : k # h => hand'[k] = hand[k]
  BY DEF RecurrenceTypeOK
<1>3. \A k \in Runs : AtWork(k)'
  <2>1. AtWork(h)'
    BY <1>2 DEF AtWork
  <2>2. ASSUME NEW k \in Runs, k # h PROVE AtWork(k)'
    BY <1>2, <2>2 DEF AtWork, SeriesInv, SeriesForm
  <2> QED BY <2>1, <2>2
<1>4. ASSUME ~let' PROVE \A k \in Runs : StillThere(k)'
  <2>1. \A t : HasChild(t)' = HasChild(t)
    BY DEF HasChild
  <2>2. StillThere(h)'
    BY <1>2, <1>4, <2>1 DEF StillThere
  <2>3. ASSUME NEW k \in Runs, k # h PROVE StillThere(k)'
    BY <1>2, <1>4, <2>1, <2>3 DEF StillThere, SeriesInv
  <2> QED BY <2>2, <2>3
<1>5. Carriers' = Carriers
  BY DEF Carriers, HasChild
<1> QED BY <1>1, <1>3, <1>4, <1>5, SameTreeStep DEF SeriesInv

\* The next task may have been created or not: an edit of "only this one" goes on.
LEMMA GoesOnStep ==
  ASSUME RecurrenceTypeOK, SeriesInv, NEW h \in Runs, hand[h] # Resting, GoesOn(h),
         UNCHANGED <<task, today, cut, todo>>, let => let', let' \in BOOLEAN,
         edits' \in 0..MaxEdits, deletes' \in 0..MaxDeletes, mishaps' \in 0..MaxMishaps,
         ~let' => (hand[h].do = "detach" => HasChild(hand[h].on) \/ ~task[hand[h].on].rule)
  PROVE  RecurrenceTypeOK' /\ SeriesInv'
<1>1. /\ hand[h].on \in TaskIds /\ hand[h] \in HandRows
      /\ Resting.st = "idle" /\ Resting \in HandRows /\ 0 \in 0..Until
  BY NewRows, RecurrenceAssumption
  DEF SeriesInv, SeriesForm, AtWork, RecurrenceTypeOK, Resting, RecurrenceAssumption
<1>2. CASE hand[h].do = "detach"
  <2>1. PICK row : row = [hand[h] EXCEPT !.st = "strip", !.due = 0]
    OBVIOUS
  <2>2. row \in HandRows /\ row.on = hand[h].on /\ row.st = "strip"
    BY <1>1, <2>1 DEF HandRows
  <2>3. hand' = [hand EXCEPT ![h] = row]
    BY <1>2, <2>1 DEF GoesOn, RecurrenceTypeOK
  <2> QED BY <1>1, <1>2, <2>2, <2>3, HandStep DEF SeriesInv, StillThere
<1>3. CASE hand[h].do # "detach"
  BY <1>1, <1>3, HandStep DEF GoesOn, Rests
<1> QED BY <1>2, <1>3

\* It holds before the first task is moved.
LEMMA SeriesInitial == RecurrenceInit => RecurrenceTypeOK /\ SeriesInv
<1> SUFFICES ASSUME RecurrenceInit PROVE RecurrenceTypeOK /\ SeriesInv
  OBVIOUS
<1>1. PICK first : first = [NoTask EXCEPT !.there = TRUE, !.rule = TRUE, !.due = 1]
  OBVIOUS
<1>0. first \in TaskRows
  <2>1. /\ NoTask \in TaskRows /\ 1 \in 0..Until /\ 0 \in 0..MaxTasks
        /\ NoTask.done = FALSE /\ NoTask.parent = 0
    BY NewRows, RecurrenceAssumption DEF RecurrenceAssumption, NoTask
  <2>2. first = [there |-> TRUE, rule |-> TRUE, due |-> 1, done |-> FALSE, parent |-> 0]
    BY <1>1 DEF NoTask
  <2> QED BY <2>1, <2>2 DEF TaskRows
<1>2. /\ first.there /\ first.rule /\ first.parent = 0
      /\ NoTask \in TaskRows /\ ~NoTask.there /\ Resting \in HandRows /\ Resting.st = "idle"
      /\ 1 \in TaskIds
  BY <1>1, NewRows, RecurrenceAssumption
  DEF NoTask, TaskRows, Resting, RecurrenceAssumption, TaskIds
<1>3. /\ task = [t \in TaskIds |-> IF t = 1 THEN first ELSE NoTask]
      /\ hand = [h \in Runs |-> Resting] /\ todo = {} /\ today = 1
      /\ edits = 0 /\ deletes = 0 /\ mishaps = 0 /\ cut = FALSE /\ let = FALSE
  BY <1>1 DEF RecurrenceInit
<1>4. RecurrenceTypeOK
  <2>1. task \in [TaskIds -> TaskRows]
    BY <1>0, <1>2, <1>3
  <2>2. hand \in [Runs -> HandRows]
    BY <1>2, <1>3
  <2>3. /\ todo \subseteq TaskIds /\ today \in 1..Until + 1
        /\ edits \in 0..MaxEdits /\ deletes \in 0..MaxDeletes /\ mishaps \in 0..MaxMishaps
    BY <1>3, RecurrenceAssumption DEF RecurrenceAssumption
  <2>4. cut \in BOOLEAN /\ let \in BOOLEAN
    BY <1>3
  <2> QED BY <2>1, <2>2, <2>3, <2>4 DEF RecurrenceTypeOK
<1>5. \A t \in TaskIds : ~HasChild(t)
  BY <1>2, <1>3 DEF HasChild, TaskIds
<1>6. SeriesEnds \subseteq {1} /\ 1 \in Carriers
  BY <1>2, <1>3, <1>5 DEF SeriesEnds, Carriers
<1>7. SeriesForm
  BY <1>2, <1>3 DEF SeriesForm, AtWork, HasItsParent
<1> QED BY <1>2, <1>3, <1>4, <1>6, <1>7 DEF SeriesInv, StillThere

\* The step of the board and of the card, and the step that creates a task.
LEMMA MoveReadsStep ==
  ASSUME RecurrenceTypeOK, SeriesInv, NEW h \in Hands, NEW t \in TaskIds, MoveReads(h, t)
  PROVE  RecurrenceTypeOK' /\ SeriesInv'
<1>1. h \in Runs /\ task[t] \in TaskRows
  BY DEF Runs, RecurrenceTypeOK
<1>2. PICK row : row = [do |-> "move", st |-> "read", on |-> t, due |-> 0, first |-> ~task[t].done]
  OBVIOUS
<1>3. (~task[t].done) \in BOOLEAN /\ 0 \in 0..Until
  <2>1. (~task[t].done) \in BOOLEAN
    <3>1. task[t].done \in BOOLEAN
      BY <1>1 DEF TaskRows
    <3>2. CASE task[t].done = TRUE
      BY <3>2
    <3>3. CASE task[t].done = FALSE
      BY <3>3
    <3> QED BY <3>1, <3>2, <3>3
  <2> QED BY <2>1, RecurrenceAssumption DEF RecurrenceAssumption
<1>4. row \in HandRows /\ row.on = t /\ row.st = "read"
  BY <1>2, <1>3, NewRows
<1>5. /\ hand' = [hand EXCEPT ![h] = row] /\ task[t].there
      /\ UNCHANGED <<task, todo, today, edits, deletes, mishaps, cut, let>>
  BY <1>2 DEF MoveReads, Works, spent
<1> QED BY <1>1, <1>4, <1>5, HandStep DEF RecurrenceTypeOK

\* A request stores the status it has read for, and may leave an end.
LEMMA MoveStoresStep ==
  ASSUME RecurrenceTypeOK, SeriesInv, NEW h \in Hands, MoveStores(h)
  PROVE  RecurrenceTypeOK' /\ SeriesInv'
<1> DEFINE t == hand[h].on
<1>1. /\ h \in Runs /\ hand[h].do = "move" /\ hand[h].st = "read" /\ hand[h] \in HandRows
      /\ UNCHANGED <<todo, today, edits, deletes, mishaps, cut, let>>
  BY DEF MoveStores, Runs, RecurrenceTypeOK, spent
<1>2. hand[h] # Resting /\ Resting.st = "idle" /\ Resting \in HandRows /\ 0 \in 0..Until
  BY <1>1, NewRows, RecurrenceAssumption DEF Resting, RecurrenceAssumption
<1>3. t \in TaskIds /\ task[t] \in TaskRows
  BY <1>1, <1>2 DEF SeriesInv, SeriesForm, AtWork, RecurrenceTypeOK
<1>4. CASE ~task[t].there
  <2>1. hand' = [hand EXCEPT ![h] = Resting] /\ UNCHANGED task
    BY <1>4 DEF MoveStores, Rests
  <2> QED BY <1>1, <1>2, <2>1, HandStep DEF RecurrenceTypeOK
<1>5. CASE task[t].there
  <2>1. PICK done \in BOOLEAN :
          /\ task' = [task EXCEPT ![t].done = done]
          /\ IF done /\ hand[h].first THEN Works(h, "move", "look", t, TRUE) ELSE Rests(h)
    BY <1>5 DEF MoveStores
  <2>2. PICK stored : stored = [task[t] EXCEPT !.done = done]
    OBVIOUS
  <2>3. /\ stored \in TaskRows /\ stored.there = task[t].there /\ stored.rule = task[t].rule
        /\ stored.parent = task[t].parent
    <3>1. stored \in TaskRows
      BY <1>3, <2>2, TaskRowUpdates
    <3> QED BY <1>3, <2>2, <3>1 DEF TaskRows
  <2>4. task' = [task EXCEPT ![t] = stored]
    BY <2>1, <2>2
  <2>5. PICK row : row = [do |-> "move", st |-> "look", on |-> t, due |-> 0, first |-> TRUE]
    OBVIOUS
  <2>6. row \in HandRows /\ row.on = t /\ row.st = "look"
    BY <1>2, <1>3, <2>5, NewRows
  <2>7. \E r \in {row, Resting} : hand' = [hand EXCEPT ![h] = r]
    BY <2>1, <2>5 DEF Works, Rests
  <2>8. PICK r \in {row, Resting} : hand' = [hand EXCEPT ![h] = r]
    BY <2>7
  <2>9. /\ r \in HandRows /\ (r # Resting => r.on = t)
        /\ r.st \notin {"create", "strip"}
    BY <1>2, <2>6, <2>8
  <2> HIDE DEF t
  <2>10. RecurrenceTypeOK'
    <3>1. task' \in [TaskIds -> TaskRows]
      BY <1>3, <2>3, <2>4 DEF RecurrenceTypeOK
    <3>2. hand' \in [Runs -> HandRows]
      BY <2>8, <2>9 DEF RecurrenceTypeOK
    <3> QED BY <1>1, <3>1, <3>2 DEF RecurrenceTypeOK
  <2>11. \A c \in TaskIds : /\ task'[c].there = task[c].there
                            /\ task'[c].parent = task[c].parent
                            /\ task'[c].rule = task[c].rule
    BY <1>3, <2>3, <2>4 DEF RecurrenceTypeOK
  <2>12. hand'[h] = r /\ \A k \in Runs : k # h => hand'[k] = hand[k]
    BY <1>1, <2>8 DEF RecurrenceTypeOK
  <2>13. \A k \in Runs : AtWork(k)'
    <3>1. AtWork(h)'
      BY <1>3, <2>9, <2>12 DEF AtWork
    <3> QED BY <2>12, <3>1 DEF AtWork, SeriesInv, SeriesForm
  <2>14. \A c : HasChild(c)' = HasChild(c)
    BY <2>11 DEF HasChild
  <2>15. Carriers' = Carriers
    BY <2>11, <2>14 DEF Carriers
  <2>16. ASSUME ~let' PROVE \A k \in Runs : StillThere(k)'
    <3>1. StillThere(h)'
      BY <1>3, <1>5, <2>9, <2>11, <2>12 DEF StillThere, t
    <3>2. ASSUME NEW k \in Runs, k # h PROVE StillThere(k)'
      <4>1. StillThere(k) /\ AtWork(k) /\ hand'[k] = hand[k]
        BY <1>1, <2>12, <2>16, <3>2 DEF SeriesInv, SeriesForm
      <4>2. CASE hand[k] = Resting
        BY <1>2, <4>1, <4>2 DEF StillThere
      <4>3. CASE hand[k] # Resting
        BY <2>11, <2>14, <4>1, <4>3 DEF StillThere, AtWork
      <4> QED BY <4>2, <4>3
    <3> QED BY <3>1, <3>2
  <2> QED BY <1>1, <2>10, <2>11, <2>13, <2>15, <2>16, SameTreeStep DEF SeriesInv
<1> QED BY <1>4, <1>5

\* The engine looks for a successor before it makes one.
LEMMA LookStep ==
  ASSUME RecurrenceTypeOK, SeriesInv, NEW h \in Runs, Look(h)
  PROVE  RecurrenceTypeOK' /\ SeriesInv'
<1> DEFINE t == hand[h].on
<1>1. /\ hand[h].st = "look" /\ hand[h] \in HandRows
      /\ UNCHANGED <<task, todo, today, edits, deletes, mishaps, cut>>
      /\ let' = (let \/ (hand[h].do = "detach" /\ ~HasNext(t)))
  BY DEF Look, RecurrenceTypeOK, spent
<1>2. hand[h] # Resting
  BY <1>1 DEF Resting
<1>3. t \in TaskIds /\ task[t] \in TaskRows
  BY <1>2 DEF SeriesInv, SeriesForm, AtWork, RecurrenceTypeOK
<1>4. /\ (let => let') /\ let' \in BOOLEAN /\ edits' \in 0..MaxEdits
      /\ deletes' \in 0..MaxDeletes /\ mishaps' \in 0..MaxMishaps
  BY <1>1 DEF RecurrenceTypeOK
<1>5. CASE task[t].there /\ task[t].rule /\ ~HasChild(t) /\ HasNext(t)
  <2>1. PICK row : row = [hand[h] EXCEPT !.st = "create", !.due = task[t].due]
    OBVIOUS
  <2>2. task[t].due \in 1..Until - 1 /\ task[t].due \in 0..Until
    BY <1>5, RecurrenceAssumption DEF HasNext, RecurrenceAssumption
  <2>3. row \in HandRows /\ row.on = t /\ row.st = "create" /\ row.due \in 1..Until - 1
    BY <1>1, <2>1, <2>2 DEF HandRows
  <2>4. hand' = [hand EXCEPT ![h] = row]
    BY <1>5, <2>1 DEF Look, RecurrenceTypeOK
  <2> HIDE DEF t
  <2> QED BY <1>1, <1>3, <1>4, <1>5, <2>3, <2>4, HandStep
<1>6. CASE ~(task[t].there /\ task[t].rule /\ ~HasChild(t) /\ HasNext(t))
  <2>1. GoesOn(h)
    BY <1>6 DEF Look
  <2>2. ASSUME ~let', hand[h].do = "detach" PROVE HasChild(t) \/ ~task[t].rule
    <3>1. task[t].there /\ HasNext(t)
      BY <1>1, <1>2, <1>4, <2>2 DEF SeriesInv, StillThere
    <3> QED BY <1>6, <3>1
  <2> QED BY <1>1, <1>2, <1>4, <2>1, <2>2, GoesOnStep
<1> QED BY <1>5, <1>6

\* The unique parent lets no second successor in.
LEMMA CreateRefusedStep ==
  ASSUME RecurrenceTypeOK, SeriesInv, NEW h \in Runs, CreateRefused(h)
  PROVE  RecurrenceTypeOK' /\ SeriesInv'
<1>1. /\ hand[h].st = "create" /\ ~Inserts(hand[h].on) /\ GoesOn(h)
      /\ UNCHANGED <<task, todo, today, edits, deletes, mishaps, cut, let>>
  BY DEF CreateRefused, spent
<1>2. hand[h] # Resting
  BY <1>1 DEF Resting
<1>3. ASSUME ~let' PROVE HasChild(hand[h].on)
  BY <1>1, <1>2, <1>3 DEF SeriesInv, StillThere, Inserts
<1> QED BY <1>1, <1>2, <1>3, GoesOnStep DEF RecurrenceTypeOK

\* A task that cannot be created leaves the series as it was.
LEMMA CreateFailsStep ==
  ASSUME RecurrenceTypeOK, SeriesInv, NEW h \in Runs, CreateFails(h)
  PROVE  RecurrenceTypeOK' /\ SeriesInv'
<1>1. /\ hand[h].st \in {"look", "create"} /\ GoesOn(h)
      /\ mishaps < MaxMishaps /\ mishaps' = mishaps + 1
      /\ let' = (let \/ hand[h].do = "detach")
      /\ UNCHANGED <<task, todo, today, edits, deletes, cut>>
  BY DEF CreateFails, Mishap
<1>2. hand[h] # Resting
  BY <1>1 DEF Resting
<1>3. /\ (let => let') /\ let' \in BOOLEAN /\ edits' \in 0..MaxEdits
      /\ deletes' \in 0..MaxDeletes /\ mishaps' \in 0..MaxMishaps
  BY <1>1, RecurrenceAssumption DEF RecurrenceTypeOK, RecurrenceAssumption
<1> QED BY <1>1, <1>2, <1>3, GoesOnStep

\* An edit of one task leaves the tree alone.
LEMMA EditOnlyThisStep ==
  ASSUME RecurrenceTypeOK, SeriesInv, NEW h \in Hands, NEW t \in TaskIds, EditOnlyThis(h, t)
  PROVE  RecurrenceTypeOK' /\ SeriesInv'
<1>1. PICK row : row = [do |-> "detach", st |-> "look", on |-> t, due |-> 0, first |-> FALSE]
  OBVIOUS
<1>2. h \in Runs /\ 0 \in 0..Until
  BY RecurrenceAssumption DEF Runs, RecurrenceAssumption
<1>3. row \in HandRows /\ row.on = t /\ row.st = "look"
  BY <1>1, <1>2, NewRows
<1>4. /\ hand' = [hand EXCEPT ![h] = row] /\ task[t].there
      /\ edits < MaxEdits /\ edits' = edits + 1
      /\ UNCHANGED <<task, todo, today, deletes, mishaps, cut, let>>
  BY <1>1 DEF EditOnlyThis, Works, Edits
<1>5. /\ edits' \in 0..MaxEdits /\ deletes' \in 0..MaxDeletes /\ mishaps' \in 0..MaxMishaps
      /\ let' \in BOOLEAN
  BY <1>4, RecurrenceAssumption DEF RecurrenceTypeOK, RecurrenceAssumption
<1> QED BY <1>2, <1>3, <1>4, <1>5, HandStep

\* The nightly sweep takes an end of its own.
LEMMA SweepTakesStep ==
  ASSUME RecurrenceTypeOK, SeriesInv, NEW t \in TaskIds, SweepTakes(t)
  PROVE  RecurrenceTypeOK' /\ SeriesInv'
<1>1. PICK row : row = [do |-> "sweep", st |-> "look", on |-> t, due |-> 0, first |-> FALSE]
  OBVIOUS
<1>2. Night \in Runs /\ 0 \in 0..Until
  BY RecurrenceAssumption DEF Runs, RecurrenceAssumption
<1>3. row \in HandRows /\ row.on = t /\ row.st = "look"
  BY <1>1, <1>2, NewRows
<1>4. /\ hand' = [hand EXCEPT ![Night] = row] /\ t \in todo /\ todo' \subseteq todo
      /\ UNCHANGED <<task, today, edits, deletes, mishaps, cut, let>>
  BY <1>1 DEF SweepTakes, Works, spent
<1>5. ~let' => task[t].there
  BY <1>4 DEF SeriesInv
<1> QED BY <1>2, <1>3, <1>4, <1>5, HandStep DEF RecurrenceTypeOK

\* A request that dies leaves what it has written.
LEMMA DiesStep ==
  ASSUME RecurrenceTypeOK, SeriesInv, NEW h \in Runs, Dies(h)
  PROVE  RecurrenceTypeOK' /\ SeriesInv'
<1>1. Resting \in HandRows /\ Resting.st = "idle"
  BY NewRows DEF Resting
<1>2. /\ hand' = [hand EXCEPT ![h] = Resting] /\ todo' \subseteq todo
      /\ mishaps < MaxMishaps /\ mishaps' = mishaps + 1
      /\ UNCHANGED <<task, today, edits, deletes, cut, let>>
  BY DEF Dies, Rests, Mishap
<1>3. mishaps' \in 0..MaxMishaps
  BY <1>2, RecurrenceAssumption DEF RecurrenceTypeOK, RecurrenceAssumption
<1> QED BY <1>1, <1>2, <1>3, HandStep DEF RecurrenceTypeOK

\* What stays for the hands that do not move, if no task leaves, no parent changes, and no
\* rule comes.
LEMMA OthersStay ==
  ASSUME RecurrenceTypeOK, SeriesInv, ~let, NEW k \in Runs, hand'[k] = hand[k],
         \A c \in TaskIds : /\ task[c].there => task'[c].there /\ task'[c].parent = task[c].parent
                            /\ task[c].there /\ ~task[c].rule => ~task'[c].rule
  PROVE  StillThere(k)'
<1>1. \A c : HasChild(c) => HasChild(c)'
  BY DEF HasChild
<1>2. StillThere(k) /\ AtWork(k)
  BY DEF SeriesInv, SeriesForm
<1>3. CASE hand[k] = Resting
  BY <1>3 DEF StillThere, Resting
<1>4. CASE hand[k] # Resting
  BY <1>1, <1>2, <1>4 DEF StillThere, AtWork
<1> QED BY <1>3, <1>4

\* What loses its recurrence is no end that goes on.
LEMMA StripStep ==
  ASSUME RecurrenceTypeOK, SeriesInv, NEW h \in Hands, Strip(h)
  PROVE  RecurrenceTypeOK' /\ SeriesInv'
<1> DEFINE t == hand[h].on
<1>1. /\ h \in Runs /\ hand[h].st = "strip"
      /\ task' = IF task[t].there THEN [task EXCEPT ![t].rule = FALSE] ELSE task
      /\ hand' = [hand EXCEPT ![h] = Resting]
      /\ UNCHANGED <<todo, today, edits, deletes, mishaps, cut, let>>
  BY DEF Strip, Runs, Rests, spent
<1>2. hand[h] # Resting /\ Resting.st = "idle" /\ Resting \in HandRows
  BY <1>1, NewRows DEF Resting
<1>3. t \in TaskIds /\ task[t] \in TaskRows
  BY <1>1, <1>2 DEF SeriesInv, SeriesForm, AtWork, RecurrenceTypeOK
<1>4. CASE ~task[t].there
  <2>1. UNCHANGED task
    BY <1>1, <1>4
  <2> QED BY <1>1, <1>2, <2>1, HandStep DEF RecurrenceTypeOK
<1>5. CASE task[t].there
  <2>1. PICK row : row = [task[t] EXCEPT !.rule = FALSE]
    OBVIOUS
  <2>2. row \in TaskRows
    BY <1>3, <2>1, TaskRowUpdates
  <2>3. row.there = task[t].there /\ row.parent = task[t].parent /\ ~row.rule
    BY <1>3, <2>1 DEF TaskRows
  <2>4. task' = [task EXCEPT ![t] = row]
    BY <1>1, <1>5, <2>1
  <2>5. ~let => HasChild(t) \/ ~task[t].rule
    BY <1>1 DEF SeriesInv, StillThere
  <2> HIDE DEF t
  <2>6. RecurrenceTypeOK'
    <3>1. task' \in [TaskIds -> TaskRows]
      BY <1>3, <2>2, <2>4 DEF RecurrenceTypeOK
    <3>2. hand' \in [Runs -> HandRows]
      BY <1>1, <1>2 DEF RecurrenceTypeOK
    <3> QED BY <1>1, <3>1, <3>2 DEF RecurrenceTypeOK
  <2>7. \A c \in TaskIds : /\ task'[c].there = task[c].there
                           /\ task'[c].parent = task[c].parent
                           /\ c # t => task'[c].rule = task[c].rule
    BY <1>3, <2>3, <2>4 DEF RecurrenceTypeOK
  <2>8. hand'[h] = Resting /\ \A k \in Runs : k # h => hand'[k] = hand[k]
    BY <1>1 DEF RecurrenceTypeOK
  <2>9. \A k \in Runs : AtWork(k)'
    <3>1. AtWork(h)'
      BY <1>2, <2>8 DEF AtWork
    <3> QED BY <2>8, <3>1 DEF AtWork, SeriesInv, SeriesForm
  <2>10. \A c : HasChild(c)' = HasChild(c)
    BY <2>7 DEF HasChild
  <2>11. ASSUME ~let' PROVE Carriers' # {}
    <3>1. PICK x \in Carriers : TRUE
      BY <1>1, <2>11 DEF SeriesInv
    <3>2. x # t
      BY <1>1, <2>5, <2>11, <3>1 DEF Carriers
    <3> QED BY <2>7, <2>10, <3>1, <3>2 DEF Carriers
  <2>12. ASSUME ~let' PROVE \A k \in Runs : StillThere(k)'
    <3>1. StillThere(h)'
      BY <1>2, <2>8 DEF StillThere
    <3>2. /\ ~let
          /\ \A c \in TaskIds : /\ task[c].there => task'[c].there /\ task'[c].parent = task[c].parent
                                /\ task[c].there /\ ~task[c].rule => ~task'[c].rule
      <4>1. task'[t].rule = FALSE
        BY <1>3, <2>3, <2>4 DEF RecurrenceTypeOK
      <4> QED BY <1>1, <2>7, <2>12, <4>1
    <3> QED BY <2>8, <3>1, <3>2, OthersStay
  <2>13. ~let' => \A x \in todo' : task[x].there
    BY <1>1 DEF SeriesInv
  <2> QED BY <1>1, <2>6, <2>7, <2>9, <2>11, <2>12, <2>13, SameTreeStep
<1> QED BY <1>4, <1>5

\* An edit of the whole series has one task that goes on, or none.
LEMMA EditStep ==
  ASSUME RecurrenceTypeOK, SeriesInv, NEW t \in TaskIds, Edit(t)
  PROVE  RecurrenceTypeOK' /\ SeriesInv'
<1>1. /\ task[t].there /\ edits < MaxEdits /\ edits' = edits + 1
      /\ let' = (let \/ task'[t].rule # task[t].rule)
      /\ UNCHANGED <<hand, todo, today, deletes, mishaps, cut>>
  BY DEF Edit, Edits
<1>2. task[t] \in TaskRows
  BY DEF RecurrenceTypeOK
<1>3. \E row \in TaskRows : /\ task' = [task EXCEPT ![t] = row]
                            /\ row.there = task[t].there /\ row.parent = task[t].parent
  <2>1. CASE \E due \in 0..Until : task' = [task EXCEPT ![t].due = due, ![t].rule = TRUE]
    <3>1. PICK due \in 0..Until : task' = [task EXCEPT ![t].due = due, ![t].rule = TRUE]
      BY <2>1
    <3>2. PICK row : row = [task[t] EXCEPT !.due = due, !.rule = TRUE]
      OBVIOUS
    <3>3. row \in TaskRows
      BY <1>2, <3>2, TaskRowUpdates
    <3>4. row.there = task[t].there /\ row.parent = task[t].parent
      BY <1>2, <3>2 DEF TaskRows
    <3>5. task' = [task EXCEPT ![t] = row]
      BY <3>1, <3>2 DEF RecurrenceTypeOK
    <3> QED BY <3>3, <3>4, <3>5
  <2>2. CASE task' = [task EXCEPT ![t].rule = FALSE]
    <3>2. PICK row : row = [task[t] EXCEPT !.rule = FALSE]
      OBVIOUS
    <3>3. row \in TaskRows
      BY <1>2, <3>2, TaskRowUpdates
    <3>4. row.there = task[t].there /\ row.parent = task[t].parent
      BY <1>2, <3>2 DEF TaskRows
    <3>5. task' = [task EXCEPT ![t] = row]
      BY <2>2, <3>2 DEF RecurrenceTypeOK
    <3> QED BY <3>3, <3>4, <3>5
  <2> QED BY <2>1, <2>2 DEF Edit
<1>4. PICK row \in TaskRows : /\ task' = [task EXCEPT ![t] = row]
                              /\ row.there = task[t].there /\ row.parent = task[t].parent
  BY <1>3
<1>5. RecurrenceTypeOK'
  <2>1. task' \in [TaskIds -> TaskRows]
    BY <1>4 DEF RecurrenceTypeOK
  <2>2. edits' \in 0..MaxEdits /\ let' \in BOOLEAN
    BY <1>1, RecurrenceAssumption DEF RecurrenceTypeOK, RecurrenceAssumption
  <2> QED BY <1>1, <2>1, <2>2 DEF RecurrenceTypeOK
<1>6. \A c \in TaskIds : /\ task'[c].there = task[c].there
                         /\ task'[c].parent = task[c].parent
                         /\ c # t => task'[c] = task[c]
  BY <1>4 DEF RecurrenceTypeOK
<1>7. \A c : HasChild(c)' = HasChild(c)
  BY <1>6 DEF HasChild
<1>8. \A k \in Runs : AtWork(k)'
  BY <1>1 DEF AtWork, SeriesInv, SeriesForm
<1>9. ASSUME ~let' PROVE Carriers' # {} /\ \A k \in Runs : StillThere(k)'
  <2>1. ~let /\ \A c \in TaskIds : task'[c].rule = task[c].rule
    BY <1>1, <1>6, <1>9
  <2>2. Carriers' = Carriers
    BY <1>6, <1>7, <2>1 DEF Carriers
  <2>3. \A k \in Runs : StillThere(k)'
    BY <1>1, <1>6, <2>1, OthersStay
  <2> QED BY <2>1, <2>2, <2>3 DEF SeriesInv
<1>10. /\ (let => let')
       /\ (~let' => \A x \in todo' : task[x].there)
  BY <1>1 DEF SeriesInv
<1> QED BY <1>1, <1>5, <1>6, <1>8, <1>9, <1>10, SameTreeStep

\* A successor takes the place of its parent as the end of the series.
LEMMA CreateStep ==
  ASSUME RecurrenceTypeOK, SeriesInv, NEW h \in Runs, NEW n \in TaskIds, Create(h, n)
  PROVE  RecurrenceTypeOK' /\ SeriesInv'
<1>0. PICK t : t = hand[h].on
  OBVIOUS
<1>1. PICK new : new = [there |-> TRUE, rule |-> TRUE, due |-> hand[h].due + 1, done |-> FALSE,
                        parent |-> t]
  OBVIOUS
<1>2. /\ hand[h].st = "create" /\ task[t].there /\ ~HasChild(t)
      /\ task[n] = NoTask /\ task' = [task EXCEPT ![n] = new] /\ GoesOn(h)
      /\ UNCHANGED <<todo, today, edits, deletes, mishaps, cut, let>>
  BY <1>0, <1>1 DEF Create, Inserts, spent
<1>3. hand[h] # Resting /\ hand[h] \in HandRows
  BY <1>2 DEF Resting, RecurrenceTypeOK
<1>4. t \in TaskIds /\ hand[h].due \in 1..Until - 1
  BY <1>0, <1>2, <1>3 DEF SeriesInv, SeriesForm, AtWork
<1>5. new \in TaskRows /\ new.there /\ new.rule /\ new.parent = t
  BY <1>1, <1>4, NewRows
<1>6. ~task[n].there /\ n # t
  BY <1>2 DEF NoTask
<1>7. task' \in [TaskIds -> TaskRows]
  BY <1>2, <1>5 DEF RecurrenceTypeOK
<1>8. /\ task'[n] = new
      /\ \A c \in TaskIds : c # n => task'[c] = task[c]
  BY <1>2 DEF RecurrenceTypeOK
<1>9. /\ hand' \in [Runs -> HandRows]
      /\ hand'[h].st # "create" /\ (hand'[h] # Resting => hand'[h].st = "strip" /\ hand'[h].on = t)
      /\ \A k \in Runs : k # h => hand'[k] = hand[k]
  <2>1. 0 \in 0..Until /\ Resting \in HandRows /\ Resting.st = "idle"
    BY NewRows, RecurrenceAssumption DEF RecurrenceAssumption, Resting
  <2>2. CASE hand[h].do = "detach"
    <3>1. PICK row : row = [hand[h] EXCEPT !.st = "strip", !.due = 0]
      OBVIOUS
    <3>2. row \in HandRows /\ row.on = hand[h].on /\ row.st = "strip"
      BY <1>3, <2>1, <3>1 DEF HandRows
    <3>3. hand' = [hand EXCEPT ![h] = row]
      BY <1>2, <2>2, <3>1 DEF GoesOn, RecurrenceTypeOK
    <3> QED BY <1>0, <3>2, <3>3 DEF RecurrenceTypeOK
  <2>3. CASE hand[h].do # "detach"
    <3>1. hand' = [hand EXCEPT ![h] = Resting]
      BY <1>2, <2>3 DEF GoesOn, Rests
    <3> QED BY <2>1, <3>1 DEF RecurrenceTypeOK
  <2> QED BY <2>2, <2>3
<1>10. RecurrenceTypeOK'
  BY <1>2, <1>7, <1>9 DEF RecurrenceTypeOK
\* The new task is nobody's parent, and the first child of its own.
<1>11. /\ \A c \in TaskIds : task[c].there => task[c].parent # n
       /\ n # 0
  BY <1>6 DEF SeriesInv, SeriesForm, HasItsParent, TaskIds
<1>12. /\ ~HasChild(n)' /\ HasChild(t)'
       /\ \A c \in TaskIds : HasChild(c) => HasChild(c)'
       /\ \A c \in TaskIds : c # t => (HasChild(c)' => HasChild(c))
  <2>1. \A c, d \in TaskIds : task'[d].there /\ task'[d].parent = c
                               => (d = n /\ c = t) \/ (task[d].there /\ task[d].parent = c)
    BY <1>5, <1>8
  <2>2. \A d \in TaskIds : task[d].there => task'[d] = task[d]
    BY <1>6, <1>8
  <2>3. ~HasChild(n)'
    BY <1>6, <1>11, <2>1 DEF HasChild
  <2>4. HasChild(t)'
    BY <1>5, <1>8 DEF HasChild
  <2>5. \A c \in TaskIds : HasChild(c) => HasChild(c)'
    BY <2>2 DEF HasChild
  <2>6. \A c \in TaskIds : c # t => (HasChild(c)' => HasChild(c))
    BY <2>1 DEF HasChild
  <2> QED BY <2>3, <2>4, <2>5, <2>6
<1>13. SeriesForm'
  <2>1. \A k \in Runs : AtWork(k)'
    <3>1. AtWork(h)'
      BY <1>4, <1>9 DEF AtWork
    <3> QED BY <1>9, <3>1 DEF AtWork, SeriesInv, SeriesForm
  <2>2. ASSUME NEW c \in TaskIds PROVE HasItsParent(c)'
    <3>1. CASE c = n
      BY <1>2, <1>4, <1>5, <1>6, <1>8, <3>1 DEF HasItsParent
    <3>2. CASE c # n
      <4>1. task[c].parent \in 0..MaxTasks /\ task'[c] = task[c] /\ HasItsParent(c)
        BY <1>8, <3>2 DEF RecurrenceTypeOK, TaskRows, SeriesInv, SeriesForm
      <4>2. task[c].parent # 0 => task[c].parent \in TaskIds
        BY <4>1, RecurrenceAssumption DEF TaskIds, RecurrenceAssumption
      <4> QED BY <1>5, <1>8, <4>1, <4>2 DEF HasItsParent
    <3> QED BY <3>1, <3>2
  <2> QED BY <2>1, <2>2 DEF SeriesForm
<1>14. ASSUME ~cut' PROVE \E x \in Nat : SeriesEnds' \subseteq {x}
  <2>1. PICK x \in Nat : SeriesEnds \subseteq {x}
    BY <1>2, <1>14 DEF SeriesInv
  <2>2. t \in SeriesEnds
    BY <1>2, <1>4 DEF SeriesEnds
  <2>3. SeriesEnds' \subseteq {n}
    <3>1. SUFFICES ASSUME NEW c \in TaskIds, task'[c].there, ~HasChild(c)', c # n PROVE FALSE
      BY DEF SeriesEnds
    <3>2. c # t /\ task[c].there /\ ~HasChild(c)
      BY <1>8, <1>12, <3>1
    <3>3. c \in SeriesEnds
      BY <3>2 DEF SeriesEnds
    <3> QED BY <2>1, <2>2, <3>2, <3>3
  <2> QED BY <2>3 DEF TaskIds
<1>15. n \in Carriers'
  BY <1>5, <1>8, <1>12 DEF Carriers
<1>16. ASSUME ~let' PROVE /\ \A x \in todo' : task'[x].there
                          /\ \A k \in Runs : StillThere(k)'
  <2>1. ~let /\ \A x \in todo : task[x].there /\ x \in TaskIds
    BY <1>2, <1>16 DEF SeriesInv, RecurrenceTypeOK
  <2>2. \A x \in todo' : task'[x].there
    BY <1>2, <1>6, <1>8, <2>1
  <2>3. /\ \A c \in TaskIds : /\ task[c].there => task'[c].there /\ task'[c].parent = task[c].parent
                              /\ task[c].there /\ ~task[c].rule => ~task'[c].rule
    BY <1>6, <1>8
  <2>4. StillThere(h)'
    <3>1. CASE hand'[h] = Resting
      BY <3>1 DEF StillThere, Resting
    <3>2. CASE hand'[h] # Resting
      <4>1. hand'[h].on = t /\ task'[t].there
        BY <1>2, <1>4, <1>6, <1>8, <1>9, <3>2
      <4>2. \E c \in TaskIds : task'[c].there /\ task'[c].parent = t
        BY <1>12 DEF HasChild
      <4> QED BY <4>1, <4>2 DEF StillThere, HasChild
    <3> QED BY <3>1, <3>2
  <2> QED BY <1>9, <2>1, <2>2, <2>3, <2>4, OthersStay
<1> QED BY <1>10, <1>13, <1>14, <1>15, <1>16 DEF SeriesInv

\* A deleted task leaves its successor without a parent, which is a cut, or was the end.
LEMMA DeleteStep ==
  ASSUME RecurrenceTypeOK, SeriesInv, NEW t \in TaskIds, Delete(t)
  PROVE  RecurrenceTypeOK' /\ SeriesInv'
<1>1. /\ task[t].there /\ deletes < MaxDeletes /\ deletes' = deletes + 1
      /\ cut' = (cut \/ HasChild(t)) /\ let' = TRUE
      /\ UNCHANGED <<hand, todo, today, edits, mishaps>>
  BY DEF Delete
<1>2. \A c \in TaskIds : task'[c] = IF c = t THEN DeletedTask
                                    ELSE IF task[c].parent = t THEN [task[c] EXCEPT !.parent = 0]
                                    ELSE task[c]
  BY DEF Delete
<1>3. /\ DeletedTask \in TaskRows /\ ~DeletedTask.there /\ t # 0
      /\ DeletedTask.parent = 0
  BY NewRows DEF DeletedTask, NoTask, TaskIds
<1>4. ASSUME NEW c \in TaskIds, c # t
      PROVE  /\ task'[c] \in TaskRows /\ task'[c].there = task[c].there
             /\ task'[c].parent = IF task[c].parent = t THEN 0 ELSE task[c].parent
  <2>1. CASE task[c].parent = t
    <3>1. PICK row : row = [task[c] EXCEPT !.parent = 0]
      OBVIOUS
    <3>2. task[c] \in TaskRows
      BY DEF RecurrenceTypeOK
    <3>3. row \in TaskRows
      BY <3>1, <3>2, TaskRowUpdates
    <3>4. row.there = task[c].there /\ row.parent = 0
      BY <3>1, <3>2 DEF TaskRows
    <3>5. task'[c] = row
      BY <1>2, <1>4, <2>1, <3>1
    <3> QED BY <2>1, <3>3, <3>4, <3>5
  <2>2. CASE task[c].parent # t
    BY <1>2, <1>4, <2>2 DEF RecurrenceTypeOK
  <2> QED BY <2>1, <2>2
<1>5. /\ task'[t] = DeletedTask
      /\ \A c \in TaskIds : task'[c] \in TaskRows
  BY <1>2, <1>3, <1>4
<1>6. RecurrenceTypeOK'
  <2>1. task' \in [TaskIds -> TaskRows]
    <3>1. task' = [c \in TaskIds |-> task'[c]]
      BY DEF Delete
    <3> QED BY <1>5, <3>1
  <2>2. deletes' \in 0..MaxDeletes
    BY <1>1, RecurrenceAssumption DEF RecurrenceTypeOK, RecurrenceAssumption
  <2>3. cut' \in BOOLEAN
    BY <1>1 DEF RecurrenceTypeOK, HasChild
  <2> QED BY <1>1, <2>1, <2>2, <2>3 DEF RecurrenceTypeOK
<1>7. SeriesForm'
  <2>1. \A k \in Runs : AtWork(k)'
    BY <1>1 DEF AtWork, SeriesInv, SeriesForm
  <2>2. ASSUME NEW c \in TaskIds PROVE HasItsParent(c)'
    <3>1. CASE c = t
      BY <1>3, <1>5, <3>1 DEF HasItsParent
    <3>2. CASE c # t
      <4>1. task[c].parent \in 0..MaxTasks /\ HasItsParent(c)
        BY DEF RecurrenceTypeOK, TaskRows, SeriesInv, SeriesForm
      <4>2. task[c].parent # 0 => task[c].parent \in TaskIds
        BY <4>1, RecurrenceAssumption DEF TaskIds, RecurrenceAssumption
      <4> QED BY <1>4, <3>2, <4>1, <4>2 DEF HasItsParent
    <3> QED BY <3>1, <3>2
  <2> QED BY <2>1, <2>2 DEF SeriesForm
\* Without a cut, the last task went, and the one before it is the last.
<1>8. ASSUME ~cut' PROVE \E x \in Nat : SeriesEnds' \subseteq {x}
  <2>1. ~cut /\ ~HasChild(t)
    BY <1>1, <1>8
  <2>2. PICK x \in Nat : SeriesEnds \subseteq {x}
    BY <2>1 DEF SeriesInv
  <2>3. t \in SeriesEnds
    BY <1>1, <2>1 DEF SeriesEnds
  <2>4. ASSUME NEW c \in TaskIds, task'[c].there, ~HasChild(c)' PROVE c = task[t].parent
    <3>1. c # t
      BY <1>3, <1>5, <2>4
    <3>2. task[c].there
      BY <1>4, <2>4, <3>1
    <3>3. HasChild(c)
      BY <2>2, <2>3, <3>1, <3>2 DEF SeriesEnds
    <3>4. PICK d \in TaskIds : task[d].there /\ task[d].parent = c
      BY <3>3 DEF HasChild
    <3>5. CASE d = t
      BY <3>4, <3>5
    <3>6. CASE d # t
      <4>1. task'[d].there /\ task'[d].parent = c
        BY <1>4, <3>1, <3>4, <3>6
      <4> QED BY <2>4, <4>1 DEF HasChild
    <3> QED BY <3>5, <3>6
  <2>5. SeriesEnds' \subseteq {task[t].parent} /\ task[t].parent \in Nat
    BY <2>4, RecurrenceAssumption DEF SeriesEnds, RecurrenceTypeOK, TaskRows, RecurrenceAssumption
  <2> QED BY <2>5
<1> QED BY <1>1, <1>6, <1>7, <1>8 DEF SeriesInv

\* Every step keeps the invariant.
LEMMA SeriesStep ==
  RecurrenceTypeOK /\ SeriesInv /\ [RecurrenceNext]_recurrenceVars
    => RecurrenceTypeOK' /\ SeriesInv'
<1> SUFFICES ASSUME RecurrenceTypeOK, SeriesInv, [RecurrenceNext]_recurrenceVars
             PROVE  RecurrenceTypeOK' /\ SeriesInv'
  OBVIOUS
<1>1. ASSUME NEW h \in Hands, NEW t \in TaskIds,
             MoveReads(h, t) \/ EditOnlyThis(h, t) \/ Create(h, t)
      PROVE  RecurrenceTypeOK' /\ SeriesInv'
  BY <1>1, MoveReadsStep, EditOnlyThisStep, CreateStep DEF Runs
<1>2. ASSUME NEW h \in Hands, MoveStores(h) \/ Look(h) \/ CreateRefused(h) \/ Strip(h)
      PROVE  RecurrenceTypeOK' /\ SeriesInv'
  BY <1>2, MoveStoresStep, LookStep, CreateRefusedStep, StripStep DEF Runs
<1>3. ASSUME NEW h \in Runs, CreateFails(h) \/ Dies(h) PROVE RecurrenceTypeOK' /\ SeriesInv'
  BY <1>3, CreateFailsStep, DiesStep
<1>4. ASSUME NEW t \in TaskIds, Edit(t) \/ Delete(t) PROVE RecurrenceTypeOK' /\ SeriesInv'
  BY <1>4, EditStep, DeleteStep
<1>5. CASE SweepStarts
  <2>1. /\ todo' \subseteq Carriers /\ todo' \subseteq TaskIds
        /\ UNCHANGED <<task, hand, today, edits, deletes, mishaps, cut, let>>
    BY <1>5 DEF SweepStarts, Carriers, spent
  <2>2. RecurrenceTypeOK'
    BY <2>1 DEF RecurrenceTypeOK
  <2>3. Carriers' = Carriers /\ \A t \in todo' : task[t].there
    BY <2>1 DEF Carriers, HasChild
  <2>4. /\ \A h \in Runs : AtWork(h)'
        /\ (~let' => \A h \in Runs : StillThere(h)')
    BY <2>1 DEF SeriesInv, SeriesForm, AtWork, StillThere, HasChild
  <2> QED BY <2>1, <2>2, <2>3, <2>4, SameTreeStep DEF SeriesInv
<1>6. CASE \E t \in TaskIds : SweepTakes(t)
  BY <1>6, SweepTakesStep
<1>7. CASE Look(Night) \/ CreateRefused(Night) \/ (\E n \in TaskIds : Create(Night, n))
  BY <1>7, LookStep, CreateRefusedStep, CreateStep DEF Runs
<1>8. CASE NextDay \/ UNCHANGED recurrenceVars
  <2>1. /\ UNCHANGED <<task, hand, todo, edits, deletes, mishaps, cut, let>>
        /\ today' \in 1..Until + 1
    BY <1>8, RecurrenceAssumption
    DEF NextDay, recurrenceVars, spent, RecurrenceTypeOK, RecurrenceAssumption
  <2>2. RecurrenceTypeOK'
    BY <2>1 DEF RecurrenceTypeOK
  <2>3. Carriers' = Carriers
    BY <2>1 DEF Carriers, HasChild
  <2>4. /\ \A h \in Runs : AtWork(h)'
        /\ (~let' => \A h \in Runs : StillThere(h)')
    BY <2>1 DEF SeriesInv, SeriesForm, AtWork, StillThere, HasChild
  <2> QED BY <2>1, <2>2, <2>3, <2>4, SameTreeStep DEF SeriesInv
<1> QED BY <1>1, <1>2, <1>3, <1>4, <1>5, <1>6, <1>7, <1>8 DEF RecurrenceNext, NightStep

LEMMA SeriesInvariant == RecurrenceSpec => [](RecurrenceTypeOK /\ SeriesInv)
<1>1. RecurrenceInit => RecurrenceTypeOK /\ SeriesInv
  BY SeriesInitial
<1>2. (RecurrenceTypeOK /\ SeriesInv) /\ [RecurrenceNext]_recurrenceVars
        => (RecurrenceTypeOK /\ SeriesInv)'
  BY SeriesStep
<1> QED BY <1>1, <1>2, PTL DEF RecurrenceSpec

\* The fields have their types, whatever the tasks, requests and bounds.
THEOREM RecurrenceTypeCorrect == RecurrenceSpec => []RecurrenceTypeOK
BY SeriesInvariant, PTL

\* A series does not split, and is not lost (recurrence.ts, board.ts, tasks.ts), for any
\* number of requests beside the nightly pass, of tasks, of edits, deletions and mishaps.
THEOREM OneSeriesAlways == RecurrenceSpec => []OneSeries
<1>1. RecurrenceTypeOK /\ SeriesInv => OneSeries
  <2> SUFFICES ASSUME RecurrenceTypeOK, SeriesInv PROVE OneSeries
    OBVIOUS
  <2>1. ASSUME ~cut PROVE Cardinality(Carriers) <= 1
    <3>1. PICK x \in Nat : SeriesEnds \subseteq {x}
      BY <2>1 DEF SeriesInv
    <3>2. Carriers \subseteq {x}
      BY <3>1 DEF Carriers, SeriesEnds
    <3>3. IsFiniteSet({x}) /\ Cardinality({x}) = 1
      BY FS_Singleton
    <3> QED BY <3>2, <3>3, FS_Subset
  <2> QED BY <2>1 DEF OneSeries, SeriesInv
<1> QED BY <1>1, SeriesInvariant, PTL

-----------------------------------------------------------------------------
(* Attachment.                                                                *)

USE AttachmentAssumption DEF AttachmentAssumption

\* A job past the verdict, one past the look at the message, one that holds the message.
Marked(j) == scan[j].st \in {"marked", "read", "sending", "answered", "refused"}
Sending(j) == scan[j].st \in {"read", "sending", "answered", "refused"}
Holds(j) == scan[j].st \in {"sending", "answered", "refused"}

\* What a verdict "clean" is worth, and who has passed the check for it.
CleanInv ==
  /\ msg.scan = "clean" => ~infected
  /\ \A j \in ScanJobs : Marked(j) => kind = "messenger" /\ msg.scan \notin {"none", "pending"}
  /\ \A j \in ScanJobs : Sending(j) => ~infected
  /\ OnlyCleanLeaves

\* The message is held by one job at most, and is held only after it waited.
HeldInv ==
  /\ msg.scan = "none" => msg.delivery = "none" /\ \A j \in ScanJobs : scan[j].st = "none"
  /\ msg.delivery \in {"none", "pending"} => given = 0 /\ \A j \in ScanJobs : ~Holds(j)
  /\ \A i, j \in ScanJobs : Holds(i) /\ Holds(j) => i = j
  /\ \A j \in ScanJobs : scan[j].st = "sending" => given = 0
  /\ GivenOnce

\* Somebody has what waits: a job of any kind for a check or a delivery, a job that holds
\* it for a message being sent.
CarriedInv ==
  /\ kind = "swept" => msg.delivery = "none"
  /\ msg.scan = "pending" \/ msg.delivery = "pending" =>
       Swept \/ stranded \/ \E j \in ScanJobs : scan[j].st # "none"
  /\ msg.delivery = "sending" => stranded \/ \E j \in ScanJobs : Holds(j)

\* A new job is a job.
LEMMA QueuesType ==
  ASSUME AttachmentTypeOK, Queues
  PROVE  scan' \in [ScanJobs -> ScanRows]
<1>1. 0 \in 0..ScanAttempts - 1
  OBVIOUS
<1>2. [st |-> "waiting", attempts |-> 0] \in ScanRows
  BY <1>1 DEF ScanRows
<1> QED BY <1>2 DEF AttachmentTypeOK, Queues

\* One more attempt of a job that is not its last.
LEMMA AttemptType ==
  ASSUME AttachmentTypeOK, NEW j \in ScanJobs, AttemptThrows(j)
  PROVE  scan' \in [ScanJobs -> ScanRows]
<1>1. scan[j].attempts \in 0..ScanAttempts - 1
  BY DEF AttachmentTypeOK, ScanRows
<1>2. CASE scan[j].attempts + 1 >= ScanAttempts
  BY <1>2 DEF AttachmentTypeOK, AttemptThrows, ScanEnds, NoScan, ScanRows
<1>3. CASE ~(scan[j].attempts + 1 >= ScanAttempts)
  <2>1. [st |-> "waiting", attempts |-> scan[j].attempts + 1] \in ScanRows
    BY <1>1, <1>3 DEF ScanRows
  <2> QED BY <1>3, <2>1 DEF AttachmentTypeOK, AttemptThrows
<1> QED BY <1>2, <1>3

\* The actions keep the types.
LEMMA AttachmentStepType ==
  ASSUME AttachmentTypeOK, [AttachmentNext]_attachmentVars
  PROVE  AttachmentTypeOK'
<1> USE DEF AttachmentTypeOK, ScanRows, NoScan, Fault, NoFault, ScanGoes, ScanEnds, Delivered,
            Deliveries, ScanStatuses
<1>1. CASE Upload
  <2>1. msg' \in [scan : ScanStatuses, delivery : Deliveries]
    BY <1>1 DEF Upload
  <2>2. CASE Queues /\ NoFault /\ UNCHANGED stranded
    BY <1>1, <2>1, <2>2, QueuesType DEF Upload
  <2>3. CASE Fault /\ stranded' = TRUE /\ UNCHANGED scan
    BY <1>1, <2>1, <2>3 DEF Upload
  <2> QED BY <1>1, <2>2, <2>3 DEF Upload
<1>2. CASE Sweep
  BY <1>2, QueuesType DEF Sweep
<1>3. ASSUME NEW j \in ScanJobs, ScanStep(j) PROVE AttachmentTypeOK'
  <2>1. CASE Scan(j)
    BY <2>1 DEF Scan
  <2>2. CASE MarkScanned(j)
    BY <2>2 DEF MarkScanned, Verdicts
  <2>3. CASE ReadMessage(j)
    BY <2>3 DEF ReadMessage, Unclean
  <2>4. CASE Claim(j)
    BY <2>4 DEF Claim, ClaimSending
  <2>5. CASE Send(j)
    BY <2>5 DEF Send
  <2>6. CASE StoreDelivery(j)
    BY <2>6 DEF StoreDelivery
  <2> QED BY <1>3, <2>1, <2>2, <2>3, <2>4, <2>5, <2>6 DEF ScanStep
<1>4. ASSUME NEW j \in ScanJobs, AttemptThrows(j) PROVE AttachmentTypeOK'
  <2>1. faults' \in 0..MaxFaults /\ UNCHANGED <<kind, infected, msg, given>>
    BY <1>4 DEF AttemptThrows
  <2>2. stranded' \in BOOLEAN
    <3>1. (stranded \/ LeftBehind(j)) \in BOOLEAN
      BY DEF LeftBehind
    <3> QED BY <1>4, <3>1, Zenon DEF AttemptThrows
  <2> QED BY <1>4, <2>1, <2>2, AttemptType
<1>5. ASSUME NEW j \in ScanJobs, WorkerStops(j) PROVE AttachmentTypeOK'
  BY <1>5 DEF WorkerStops
<1>6. ASSUME NEW j \in ScanJobs, LockLost(j) PROVE AttachmentTypeOK'
  BY <1>6 DEF LockLost
<1>7. CASE UNCHANGED attachmentVars
  BY <1>7 DEF attachmentVars
<1> QED BY <1>1, <1>2, <1>3, <1>4, <1>5, <1>6, <1>7 DEF AttachmentNext

\* A clean verdict is kept, and nobody passes the look at the message without one.
LEMMA CleanStep ==
  ASSUME AttachmentTypeOK, HeldInv, CleanInv, [AttachmentNext]_attachmentVars
  PROVE  CleanInv'
<1> USE DEF AttachmentTypeOK, CleanInv, OnlyCleanLeaves, Marked, Sending, ScanRows, NoScan, ScanGoes, ScanEnds,
            Delivered
<1>1. CASE Upload
  BY <1>1 DEF Upload, Queues, HeldInv
<1>2. CASE Sweep
  BY <1>2 DEF Sweep, Queues
<1>3. ASSUME NEW j \in ScanJobs, ScanStep(j) PROVE CleanInv'
  <2>1. CASE Scan(j)
    BY <2>1 DEF Scan
  <2>2. CASE MarkScanned(j)
    BY <2>2 DEF MarkScanned, Verdicts
  <2>3. CASE ReadMessage(j)
    BY <2>3 DEF ReadMessage, Unclean, MayLeave
  <2>4. CASE Claim(j)
    BY <2>4 DEF Claim, ClaimSending
  <2>5. CASE Send(j)
    BY <2>5 DEF Send
  <2>6. CASE StoreDelivery(j)
    BY <2>6 DEF StoreDelivery
  <2> QED BY <1>3, <2>1, <2>2, <2>3, <2>4, <2>5, <2>6 DEF ScanStep
<1>4. ASSUME NEW j \in ScanJobs, AttemptThrows(j) PROVE CleanInv'
  BY <1>4 DEF AttemptThrows
<1>5. ASSUME NEW j \in ScanJobs, WorkerStops(j) PROVE CleanInv'
  BY <1>5 DEF WorkerStops
<1>6. ASSUME NEW j \in ScanJobs, LockLost(j) PROVE CleanInv'
  BY <1>6 DEF LockLost
<1>7. CASE UNCHANGED attachmentVars
  BY <1>7 DEF attachmentVars
<1> QED BY <1>1, <1>2, <1>3, <1>4, <1>5, <1>6, <1>7 DEF AttachmentNext

\* The update of a waiting message lets one job pass; nobody gives the message back.
LEMMA HeldStep ==
  ASSUME AttachmentTypeOK, HeldInv, [AttachmentNext]_attachmentVars
  PROVE  HeldInv'
<1> USE DEF AttachmentTypeOK, HeldInv, GivenOnce, Holds, ScanRows, NoScan, ScanGoes, ScanEnds,
            Delivered
<1>1. CASE Upload
  BY <1>1 DEF Upload, Queues
<1>2. CASE Sweep
  BY <1>2 DEF Sweep, Queues
<1>3. ASSUME NEW j \in ScanJobs, ScanStep(j) PROVE HeldInv'
  <2>1. CASE Scan(j)
    BY <2>1 DEF Scan
  <2>2. CASE MarkScanned(j)
    BY <2>2 DEF MarkScanned, Verdicts
  <2>3. CASE ReadMessage(j)
    BY <2>3 DEF ReadMessage, Unclean
  <2>4. CASE Claim(j)
    BY <2>4 DEF Claim, ClaimSending
  <2>5. CASE Send(j)
    BY <2>5 DEF Send
  <2>6. CASE StoreDelivery(j)
    BY <2>6 DEF StoreDelivery
  <2> QED BY <1>3, <2>1, <2>2, <2>3, <2>4, <2>5, <2>6 DEF ScanStep
<1>4. ASSUME NEW j \in ScanJobs, AttemptThrows(j) PROVE HeldInv'
  BY <1>4 DEF AttemptThrows
<1>5. ASSUME NEW j \in ScanJobs, WorkerStops(j) PROVE HeldInv'
  BY <1>5 DEF WorkerStops
<1>6. ASSUME NEW j \in ScanJobs, LockLost(j) PROVE HeldInv'
  BY <1>6 DEF LockLost
<1>7. CASE UNCHANGED attachmentVars
  BY <1>7 DEF attachmentVars
<1> QED BY <1>1, <1>2, <1>3, <1>4, <1>5, <1>6, <1>7 DEF AttachmentNext

\* A job that ends has settled the file, or leaves it to another, or is recorded.
LEMMA CarriedStep ==
  ASSUME AttachmentTypeOK, CleanInv, HeldInv, CarriedInv, [AttachmentNext]_attachmentVars
  PROVE  CarriedInv'
<1> USE DEF AttachmentTypeOK, CarriedInv, Holds, Swept, ScanRows, NoScan, ScanGoes, ScanEnds,
            Delivered
<1>1. CASE Upload
  BY <1>1 DEF Upload, Queues, Kinds
<1>2. CASE Sweep
  BY <1>2 DEF Sweep, Queues
<1>3. ASSUME NEW j \in ScanJobs, ScanStep(j) PROVE CarriedInv'
  <2>1. CASE Scan(j)
    BY <2>1 DEF Scan
  <2>2. CASE MarkScanned(j)
    BY <2>2 DEF MarkScanned, Verdicts, Kinds
  <2>3. CASE ReadMessage(j)
    BY <2>3 DEF ReadMessage, Unclean, CleanInv, Marked
  <2>4. CASE Claim(j)
    BY <2>4 DEF Claim, ClaimSending, CleanInv, Marked
  <2>5. CASE Send(j)
    BY <2>5 DEF Send
  <2>6. CASE StoreDelivery(j)
    BY <2>6 DEF StoreDelivery, CleanInv, Marked
  <2> QED BY <1>3, <2>1, <2>2, <2>3, <2>4, <2>5, <2>6 DEF ScanStep
<1>4. ASSUME NEW j \in ScanJobs, AttemptThrows(j) PROVE CarriedInv'
  <2>1. CASE scan[j].attempts + 1 >= ScanAttempts
    <3>1. CASE stranded \/ LeftBehind(j)
      BY <1>4, <2>1, <3>1 DEF AttemptThrows
    <3>2. CASE ~LeftBehind(j)
      <4>1. PICK i \in ScanJobs \ {j} : scan[i].st # "none"
        BY <3>2 DEF LeftBehind
      <4>2. scan'[i].st # "none" /\ msg'.delivery # "sending" /\ UNCHANGED <<kind, msg>>
        BY <1>4, <2>1, <3>2, <4>1 DEF AttemptThrows, LeftBehind
      <4> QED BY <4>2
    <3> QED BY <3>1, <3>2
  <2>2. CASE ~(scan[j].attempts + 1 >= ScanAttempts)
    <3>1. scan'[j].st # "none" /\ UNCHANGED <<kind, msg>>
      BY <1>4, <2>2 DEF AttemptThrows
    <3>2. msg.delivery = "sending" => stranded'
      BY <1>4, <2>2 DEF AttemptThrows
    <3> QED BY <3>1, <3>2
  <2> QED BY <2>1, <2>2
<1>5. ASSUME NEW j \in ScanJobs, WorkerStops(j) PROVE CarriedInv'
  BY <1>5 DEF WorkerStops
<1>6. ASSUME NEW j \in ScanJobs, LockLost(j) PROVE CarriedInv'
  BY <1>6 DEF LockLost
<1>7. CASE UNCHANGED attachmentVars
  BY <1>7 DEF attachmentVars
<1> QED BY <1>1, <1>2, <1>3, <1>4, <1>5, <1>6, <1>7 DEF AttachmentNext

-----------------------------------------------------------------------------
\* The invariants hold of a file that has not been uploaded.
LEMMA AttachmentInitially ==
  AttachmentInit => AttachmentTypeOK /\ CleanInv /\ HeldInv /\ CarriedInv
<1> SUFFICES ASSUME AttachmentInit
             PROVE  AttachmentTypeOK /\ CleanInv /\ HeldInv /\ CarriedInv
  OBVIOUS
<1>1. NoScan \in ScanRows /\ NoScan.st = "none"
  BY DEF NoScan, ScanRows
<1>2. AttachmentTypeOK
  <2>1. scan \in [ScanJobs -> ScanRows]
    BY <1>1 DEF AttachmentInit
  <2>2. msg \in [scan : ScanStatuses, delivery : Deliveries]
    BY DEF AttachmentInit, ScanStatuses, Deliveries
  <2>3. given \in Nat /\ faults \in 0..MaxFaults
    BY DEF AttachmentInit
  <2>4. stranded \in BOOLEAN
    BY DEF AttachmentInit
  <2> QED BY <2>1, <2>2, <2>3, <2>4, Zenon DEF AttachmentInit, AttachmentTypeOK
<1>3. \A j \in ScanJobs : scan[j].st = "none"
  BY <1>1 DEF AttachmentInit
<1>4. CleanInv
  BY <1>3 DEF AttachmentInit, CleanInv, Marked, Sending, OnlyCleanLeaves
<1>5. HeldInv
  BY <1>3 DEF AttachmentInit, HeldInv, Holds, GivenOnce
<1>6. CarriedInv
  BY DEF AttachmentInit, CarriedInv
<1> QED BY <1>2, <1>4, <1>5, <1>6

\* All of them hold at all times.
LEMMA AttachmentInvariant ==
  AttachmentSpec => [](AttachmentTypeOK /\ CleanInv /\ HeldInv /\ CarriedInv)
<1>1. AttachmentTypeOK /\ CleanInv /\ HeldInv /\ CarriedInv /\ [AttachmentNext]_attachmentVars
        => (AttachmentTypeOK /\ CleanInv /\ HeldInv /\ CarriedInv)'
  BY AttachmentStepType, CleanStep, HeldStep, CarriedStep
<1> QED BY <1>1, AttachmentInitially, PTL DEF AttachmentSpec

\* The fields have their types, whatever the constants.
THEOREM AttachmentTypeCorrect == AttachmentSpec => []AttachmentTypeOK
BY AttachmentInvariant, PTL

\* With any number of jobs for one file, of attempts and of faults, the client gets the
\* file at most once (attachment.ts: the update of a message that waits is the claim).
THEOREM GivenOnceAlways == AttachmentSpec => []GivenOnce
BY AttachmentInvariant, PTL DEF HeldInv

\* Nor does an infected one ever leave, whichever jobs and verdicts come in between.
THEOREM OnlyCleanLeavesAlways == AttachmentSpec => []OnlyCleanLeaves
BY AttachmentInvariant, PTL DEF CleanInv

\* A file that waits for its check or its delivery has a job, or is known to the sweep, or
\* was left behind by a fault.
THEOREM WaitingIsCarriedAlways == AttachmentSpec => []WaitingIsCarried
<1>1. CarriedInv => WaitingIsCarried
  BY DEF CarriedInv, WaitingIsCarried, Holds
<1> QED BY <1>1, AttachmentInvariant, PTL

-----------------------------------------------------------------------------
(* Enrollment.                                                                *)

USE EnrollmentAssumption DEF EnrollmentAssumption

(* The statuses, and what the items say.                                    *)

\* The statuses in their order.
LEMMA PipelineIs ==
  /\ Pipeline[1] = "pending" /\ Pipeline[2] = "approved" /\ Pipeline[3] = "provisioned"
  /\ Pipeline[4] = "in_training" /\ Pipeline[5] = "certificates_ready"
  /\ \A n \in Steps : Pipeline[n] \in Statuses
  /\ Statuses = {"pending", "approved", "provisioned", "in_training", "certificates_ready",
                 "rejected"}
<1>1. Steps = {1, 2, 3, 4, 5}
  BY DEF Steps
<1> QED BY <1>1 DEF Pipeline, Statuses

\* The least of some steps is one of them.
LEMMA LeastStep ==
  ASSUME NEW R \in SUBSET Steps, R # {}
  PROVE  Min(R) \in R /\ \A n \in R : Min(R) <= n
<1>1. \E x \in R : \A y \in R : x =< y
  <2>1. CASE 1 \in R
    BY <2>1 DEF Steps
  <2>2. CASE 1 \notin R /\ 2 \in R
    BY <2>2 DEF Steps
  <2>3. CASE 1 \notin R /\ 2 \notin R /\ 3 \in R
    BY <2>3 DEF Steps
  <2>4. CASE 1 \notin R /\ 2 \notin R /\ 3 \notin R /\ 4 \in R
    BY <2>4 DEF Steps
  <2>5. CASE 1 \notin R /\ 2 \notin R /\ 3 \notin R /\ 4 \notin R
    <3>1. \A y \in R : y = 5
      BY <2>5 DEF Steps
    <3> QED BY <3>1
  <2> QED BY <2>1, <2>2, <2>3, <2>4, <2>5
<1> QED BY <1>1 DEF Min

\* What a header says of its items: the step that all of them that are not rejected have
\* reached, and some are at.
LEMMA AggregateIs ==
  ASSUME NEW of \in [Items -> Statuses], NEW S \in SUBSET Items
  PROVE  /\ Aggregate(of, S) \in Statuses
         /\ (\A i \in S : of[i] = "rejected") => Aggregate(of, S) = "rejected"
         /\ Aggregate(of, S) = "pending" <=> \E i \in S : of[i] = "pending"
         /\ Aggregate(of, S) = "approved" <=>
              (\E i \in S : of[i] = "approved") /\ \A i \in S : of[i] # "pending"
         /\ (\E i \in S : of[i] = "provisioned")
            /\ (\A i \in S : of[i] \in {"provisioned", "rejected"})
              => Aggregate(of, S) = "provisioned"
<1> DEFINE R == Reached(of, S)
<1>1. R \subseteq Steps /\ \A n \in Steps : n \in R <=> \E i \in S : of[i] = Pipeline[n]
  BY DEF Reached
<1>2. Aggregate(of, S) = IF R = {} THEN "rejected" ELSE Pipeline[Min(R)]
  BY DEF Aggregate
<1> HIDE DEF R
<1>3. R # {} => Min(R) \in R /\ Min(R) \in Steps /\ \A n \in R : Min(R) <= n
  BY <1>1, LeastStep
<1>4. \A n \in Steps : n \in {1, 2, 3, 4, 5}
  BY DEF Steps
<1>5. 1 \in Steps /\ 2 \in Steps /\ 3 \in Steps /\ 4 \in Steps /\ 5 \in Steps
  BY DEF Steps
<1>6. Aggregate(of, S) \in Statuses
  BY <1>2, <1>3, PipelineIs
<1>7. ASSUME \A i \in S : of[i] = "rejected" PROVE R = {}
  BY <1>1, <1>4, <1>7, PipelineIs
<1>8. Aggregate(of, S) = "pending" <=> 1 \in R
  <2>1. 1 \in R => Min(R) = 1
    BY <1>3, <1>4
  <2> QED BY <1>2, <1>3, <1>4, <2>1, PipelineIs
<1>9. Aggregate(of, S) = "approved" <=> 2 \in R /\ 1 \notin R
  <2>1. 2 \in R /\ 1 \notin R => Min(R) = 2
    BY <1>3, <1>4
  <2>2. 1 \in R => Min(R) # 2
    BY <1>3
  <2> QED BY <1>2, <1>3, <1>4, <2>1, <2>2, PipelineIs
<1>10. ASSUME \E i \in S : of[i] = "provisioned",
              \A i \in S : of[i] \in {"provisioned", "rejected"}
       PROVE  R # {} /\ Min(R) = 3
  <2>1. 3 \in R /\ 1 \notin R /\ 2 \notin R /\ 4 \notin R /\ 5 \notin R
    BY <1>1, <1>5, <1>10, PipelineIs
  <2> QED BY <1>3, <1>4, <2>1
<1> QED BY <1>1, <1>2, <1>5, <1>6, <1>7, <1>8, <1>9, <1>10, PipelineIs

\* It depends on these items only.
LEMMA AggregateOf ==
  ASSUME NEW f, NEW g, NEW S, \A i \in S : f[i] = g[i]
  PROVE  Aggregate(f, S) = Aggregate(g, S)
<1>1. {f[i] : i \in S} = {g[i] : i \in S}
  OBVIOUS
<1> QED BY <1>1 DEF Aggregate, Reached

-----------------------------------------------------------------------------
(* Types.                                                                   *)

\* A student is made for an item that had none and is like none known nor made with it.
LEMMA NewCardsType ==
  ASSUME NEW q, NEW known, NEW made \in NewCards(q, known)
  PROVE  /\ made \subseteq ItemsOf(q) /\ made \subseteq Items
         /\ \A i \in made, c \in known : ~Alike(i, c)
         /\ \A i, j \in made : i # j => ~Alike(i, j)
BY DEF NewCards, Unmatched, Unattached, ItemsOf

LEMMA NoReviewType == NoReview \in Reviews
BY PipelineIs DEF NoReview, Reviews

\* Every step keeps the types.
LEMMA EnrollTypeStep ==
  ASSUME EnrollmentTypeOK, [EnrollmentNext]_enrollmentVars
  PROVE  EnrollmentTypeOK'
<1>1. ASSUME NEW h \in Reviewers, NEW q \in Headers, NEW r \in Reviews, Reads(h, q, r)
      PROVE  EnrollmentTypeOK'
  BY <1>1 DEF Reads, EnrollmentTypeOK, enrollmentRows
<1>2. ASSUME NEW h \in Reviewers, NEW q \in Headers, NEW do \in {"approve", "reject", "provision"},
             ReadsToDo(h, q, do)
      PROVE  EnrollmentTypeOK'
  <2>1. [NoReview EXCEPT !.do = do, !.st = "read", !.on = {q}] \in Reviews
    BY PipelineIs DEF NoReview, Reviews
  <2> QED BY <1>1, <1>2, <2>1 DEF ReadsToDo
<1>3. ASSUME NEW h \in Reviewers, NEW q \in Headers, NEW n \in 4..5, NEW S \in SUBSET ItemsOf(q),
             ReadToAdvance(h, q, n, S)
      PROVE  EnrollmentTypeOK'
  <2> DEFINE next == [i \in Items |-> IF i \in S THEN Pipeline[n] ELSE item[i]]
             r == [NoReview EXCEPT !.do = "advance", !.st = "read", !.on = {q}, !.moved = S,
                                   !.target = Pipeline[n], !.status = HeaderAfter(q, n, next)]
  <2>1. Pipeline[n] \in Statuses
    BY PipelineIs DEF Steps
  <2>2. next \in [Items -> Statuses] /\ ItemsOf(q) \in SUBSET Items
    BY <2>1 DEF EnrollmentTypeOK, ItemsOf
  <2> HIDE DEF next
  <2>3. HeaderAfter(q, n, next) \in Statuses
    BY <2>2, AggregateIs DEF HeaderAfter
  <2>4. r \in Reviews
    BY <2>1, <2>2, <2>3 DEF NoReview, Reviews
  <2> QED BY <1>1, <1>3, <2>4 DEF ReadToAdvance, next
<1>4. ASSUME NEW h \in Reviewers, NEW q \in Headers, OpenApproval(h, q) PROVE EnrollmentTypeOK'
  <2>1. review[h] \in Reviews
    BY DEF EnrollmentTypeOK
  <2>2. [review[h] EXCEPT !.st = "open", !.known = cards] \in Reviews
    BY <2>1 DEF Reviews, EnrollmentTypeOK
  <2>3. crossed' \in BOOLEAN
    BY <1>4, Zenon DEF OpenApproval, EnrollmentTypeOK, Locked
  <2> QED BY <1>4, <2>2, <2>3 DEF OpenApproval, EnrollmentTypeOK, enrollmentRows
<1>5. ASSUME NEW h \in Reviewers, Reviewed(h) PROVE review' \in [Reviewers -> Reviews]
  BY <1>5, NoReviewType DEF Reviewed, EnrollmentTypeOK
<1>6. ASSUME NEW h \in Reviewers, NEW q \in Headers,
             Approve(h, q) \/ Reject(h, q) \/ MarkProvisioned(h, q) \/ Advance(h, q)
      PROVE  EnrollmentTypeOK'
  <2>0. "approved" \in Statuses /\ "rejected" \in Statuses /\ "provisioned" \in Statuses
    BY PipelineIs
  <2>1. CASE Approve(h, q)
    <3>1. cards' \subseteq Cards
      BY <2>1, NewCardsType DEF Approve, EnrollmentTypeOK, Cards
    <3>2. student' \subseteq Items
      BY <2>1 DEF Approve, EnrollmentTypeOK, ItemsOf
    <3> QED BY <1>5, <2>0, <2>1, <3>1, <3>2 DEF Approve, EnrollmentTypeOK
  <2>2. CASE Reject(h, q)
    BY <1>5, <2>0, <2>2 DEF Reject, EnrollmentTypeOK
  <2>3. CASE MarkProvisioned(h, q)
    BY <1>5, <2>0, <2>3 DEF MarkProvisioned, EnrollmentTypeOK
  <2>4. CASE Advance(h, q)
    <3>1. review[h].target \in Statuses /\ review[h].status \in Statuses
      BY DEF EnrollmentTypeOK, Reviews
    <3> QED BY <1>5, <2>4, <3>1 DEF Advance, EnrollmentTypeOK
  <2> QED BY <1>6, <2>1, <2>2, <2>3, <2>4
<1>7. ASSUME NEW h \in Reviewers, ReviewDies(h) PROVE EnrollmentTypeOK'
  BY <1>5, <1>7 DEF ReviewDies, EnrollmentTypeOK, enrollmentRows
<1>8. CASE UNCHANGED enrollmentVars
  BY <1>8 DEF enrollmentVars, enrollmentRows, EnrollmentTypeOK
<1> QED BY <1>2, <1>3, <1>4, <1>6, <1>7, <1>8
        DEF EnrollmentNext, ReadToApprove, ReadToReject, ReadToProvision

-----------------------------------------------------------------------------
(* What a request has read.                                                 *)

\* A request under way is about one header; what is open is an approval.
FormInv ==
  \A h \in Reviewers :
    /\ review[h].st # "idle" => \E q \in Headers : review[h].on = {q}
    /\ review[h].st = "idle" => review[h].on = {}
    /\ review[h].st = "open" => review[h].do = "approve"
    /\ \A q \in Headers : review[h].do = "advance" /\ review[h].on = {q} =>
         review[h].moved \subseteq ItemsOf(q)

\* What the header says once the items of r have moved.
Moving(its, r, q) ==
  Aggregate([i \in Items |-> IF i \in r.moved THEN r.target ELSE its[i]], ItemsOf(q))

\* Where operations have not overlapped, one request at most is about the header; the header
\* says what the items say, and what the request wants is decided by the items as they are.
QuietInv ==
  \A q \in quiet :
    /\ \A g, h \in Reviewers : review[g].on = {q} /\ review[h].on = {q} => g = h
    /\ header[q] = Aggregate(item, ItemsOf(q))
    /\ \A h \in Reviewers : review[h].on = {q} =>
         /\ review[h].do = "approve" => header[q] = "pending"
         /\ review[h].do = "provision" => header[q] = "approved"
         /\ review[h].do = "advance" => review[h].status = Moving(item, review[h], q)

\* A request that begins.
LEMMA ReadsKeeps ==
  ASSUME EnrollmentTypeOK, FormInv, QuietInv, NEW h \in Reviewers, NEW q \in Headers,
         NEW r \in Reviews, Reads(h, q, r), r.on = {q}, r.st = "read",
         r.do = "advance" => r.moved \subseteq ItemsOf(q),
         r.do = "approve" => header[q] = "pending",
         r.do = "provision" => header[q] = "approved",
         r.do = "advance" => r.status = Moving(item, r, q)
  PROVE  FormInv' /\ QuietInv'
<1>1. /\ review'[h] = r /\ \A g \in Reviewers \ {h} : review'[g] = review[g]
      /\ header' = header /\ item' = item
      /\ quiet' \subseteq quiet
      /\ q \in quiet' => \A g \in Reviewers : review[g].on # {q}
  BY DEF Reads, EnrollmentTypeOK, enrollmentRows
<1>2. FormInv'
  BY <1>1 DEF FormInv, ItemsOf
<1>3. QuietInv'
  <2> SUFFICES ASSUME NEW p \in quiet'
               PROVE  /\ \A g, k \in Reviewers : review'[g].on = {p} /\ review'[k].on = {p} => g = k
                      /\ header'[p] = Aggregate(item', ItemsOf(p))
                      /\ \A k \in Reviewers : review'[k].on = {p} =>
                           /\ review'[k].do = "approve" => header'[p] = "pending"
                           /\ review'[k].do = "provision" => header'[p] = "approved"
                           /\ review'[k].do = "advance" =>
                                review'[k].status = Moving(item', review'[k], p)
    BY DEF QuietInv
  <2>1. p \in quiet
    BY <1>1
  <2>2. CASE p = q
    BY <1>1, <2>1, <2>2 DEF QuietInv
  <2>3. CASE p # q
    BY <1>1, <2>1, <2>3 DEF QuietInv
  <2> QED BY <2>2, <2>3
<1> QED BY <1>2, <1>3

\* A request that writes its header and the items of that, and ends.
LEMMA WritesKeep ==
  ASSUME EnrollmentTypeOK, FormInv, QuietInv, NEW h \in Reviewers, NEW q \in Headers,
         Reviewed(h), review[h].on = {q}, quiet' = quiet,
         \A p \in Headers \ {q} : header'[p] = header[p],
         \A i \in Items : Of[i] # q => item'[i] = item[i],
         q \in quiet => header'[q] = Aggregate(item', ItemsOf(q))
  PROVE  FormInv' /\ QuietInv'
<1>1. review'[h] = NoReview /\ \A g \in Reviewers \ {h} : review'[g] = review[g]
  BY DEF Reviewed, EnrollmentTypeOK
<1>2. FormInv'
  BY <1>1 DEF FormInv, NoReview, ItemsOf
<1>3. QuietInv'
  <2> SUFFICES ASSUME NEW p \in quiet
               PROVE  /\ \A g, k \in Reviewers : review'[g].on = {p} /\ review'[k].on = {p} => g = k
                      /\ header'[p] = Aggregate(item', ItemsOf(p))
                      /\ \A k \in Reviewers : review'[k].on = {p} =>
                           /\ review'[k].do = "approve" => header'[p] = "pending"
                           /\ review'[k].do = "provision" => header'[p] = "approved"
                           /\ review'[k].do = "advance" =>
                                review'[k].status = Moving(item', review'[k], p)
    BY DEF QuietInv
  <2>0. p \in Headers
    BY DEF EnrollmentTypeOK
  <2>1. CASE p = q
    <3>1. \A k \in Reviewers : review'[k].on # {q}
      BY <1>1, <2>1 DEF QuietInv, NoReview
    <3> QED BY <2>1, <3>1
  <2>2. CASE p # q
    <3>1. \A i \in ItemsOf(p) : item'[i] = item[i]
      BY <2>2 DEF ItemsOf
    <3>2. Aggregate(item', ItemsOf(p)) = Aggregate(item, ItemsOf(p))
      BY <3>1, AggregateOf
    <3>3. ASSUME NEW k \in Reviewers, review'[k].on = {p}
          PROVE  review'[k] = review[k] /\ Moving(item', review[k], p) = Moving(item, review[k], p)
      <4>1. review'[k] = review[k]
        BY <1>1, <3>3 DEF NoReview
      <4>2. \A i \in ItemsOf(p) : i \in Items
        BY DEF ItemsOf
      <4> QED BY <3>1, <4>1, <4>2, AggregateOf DEF Moving
    <3>4. \A f, k \in Reviewers : review'[f].on = {p} /\ review'[k].on = {p} => f = k
      BY <3>3 DEF QuietInv
    <3> QED BY <2>0, <2>2, <3>2, <3>3, <3>4 DEF QuietInv
  <2> QED BY <2>1, <2>2
<1> QED BY <1>2, <1>3

\* Every step keeps the header of a quiet request at what its items say.
LEMMA QuietStep ==
  ASSUME EnrollmentTypeOK, FormInv, QuietInv, [EnrollmentNext]_enrollmentVars
  PROVE  FormInv' /\ QuietInv'
<1>1. ASSUME NEW h \in Reviewers, NEW q \in Headers,
             ReadToApprove(h, q) \/ ReadToReject(h, q) \/ ReadToProvision(h, q)
      PROVE  FormInv' /\ QuietInv'
  <2>1. PICK do \in {"approve", "reject", "provision"} :
          /\ ReadsToDo(h, q, do)
          /\ do = "approve" => header[q] = "pending"
          /\ do = "provision" => header[q] = "approved"
    BY <1>1 DEF ReadToApprove, ReadToReject, ReadToProvision
  <2> DEFINE r == [NoReview EXCEPT !.do = do, !.st = "read", !.on = {q}]
  <2>2. r \in Reviews /\ r.on = {q} /\ r.st = "read" /\ r.do = do
    BY PipelineIs DEF NoReview, Reviews
  <2>3. Reads(h, q, r)
    BY <2>1 DEF ReadsToDo
  <2> HIDE DEF r
  <2> QED BY <2>1, <2>2, <2>3, ReadsKeeps
<1>2. ASSUME NEW h \in Reviewers, NEW q \in Headers, NEW n \in 4..5, NEW S \in SUBSET ItemsOf(q),
             ReadToAdvance(h, q, n, S)
      PROVE  FormInv' /\ QuietInv'
  <2> DEFINE next == [i \in Items |-> IF i \in S THEN Pipeline[n] ELSE item[i]]
             status == Aggregate(next, ItemsOf(q))
             r == [NoReview EXCEPT !.do = "advance", !.st = "read", !.on = {q}, !.moved = S,
                                   !.target = Pipeline[n], !.status = status]
  <2>1. Pipeline[n] \in Statuses
    BY PipelineIs DEF Steps
  <2>2. next \in [Items -> Statuses] /\ ItemsOf(q) \in SUBSET Items
    BY <2>1 DEF EnrollmentTypeOK, ItemsOf
  <2>3. status \in Statuses
    <3> HIDE DEF next
    <3> QED BY <2>2, AggregateIs
  <2>4. Reads(h, q, r)
    BY <1>2 DEF ReadToAdvance, HeaderAfter
  <2> HIDE DEF status
  <2>6. r \in Reviews /\ r.on = {q} /\ r.st = "read" /\ r.do = "advance" /\ r.moved = S
        /\ r.target = Pipeline[n] /\ r.status = status
    BY <2>1, <2>2, <2>3 DEF NoReview, Reviews
  <2>7. r.status = Moving(item, r, q)
    BY <2>6 DEF Moving, status
  <2> HIDE DEF r
  <2> QED BY <2>4, <2>6, <2>7, ReadsKeeps
<1>3. ASSUME NEW h \in Reviewers, NEW q \in Headers, OpenApproval(h, q)
      PROVE  FormInv' /\ QuietInv'
  <2>1. /\ review'[h].st = "open" /\ review'[h].do = "approve" /\ review'[h].on = {q}
        /\ review[h].do = "approve" /\ review[h].on = {q}
        /\ \A g \in Reviewers \ {h} : review'[g] = review[g]
        /\ UNCHANGED <<header, item, quiet>>
    BY <1>3 DEF OpenApproval, About, EnrollmentTypeOK, Reviews, enrollmentRows
  <2>2. FormInv'
    BY <2>1 DEF FormInv, ItemsOf
  <2>3. QuietInv'
    <3>1. ASSUME NEW k \in Reviewers
          PROVE  /\ review'[k].on = review[k].on /\ review'[k].do = review[k].do
                 /\ review'[k].do = "advance" => review'[k] = review[k]
      BY <2>1
    <3> QED BY <2>1, <3>1 DEF QuietInv
  <2> QED BY <2>2, <2>3
<1>4. ASSUME NEW h \in Reviewers, ReviewDies(h)
      PROVE  FormInv' /\ QuietInv'
  <2>1. review[h].st # "idle" \/ review[h].on = {}
    BY DEF FormInv
  <2>2. /\ review'[h] = NoReview /\ \A g \in Reviewers \ {h} : review'[g] = review[g]
        /\ UNCHANGED <<header, item, quiet>>
    BY <1>4 DEF ReviewDies, Reviewed, EnrollmentTypeOK, enrollmentRows
  <2>3. FormInv'
    BY <2>2 DEF FormInv, NoReview, ItemsOf
  <2>4. QuietInv'
    BY <2>2 DEF QuietInv, NoReview
  <2> QED BY <2>3, <2>4
<1>5. ASSUME NEW h \in Reviewers, NEW q \in Headers, Approve(h, q)
      PROVE  FormInv' /\ QuietInv'
  <2>1. /\ Reviewed(h) /\ review[h].on = {q} /\ review[h].do = "approve" /\ quiet' = quiet
        /\ header' = [header EXCEPT ![q] = "approved"]
        /\ item' = [i \in Items |-> IF Of[i] = q /\ item[i] = "pending" THEN "approved" ELSE item[i]]
    BY <1>5 DEF Approve, FormInv
  <2>2. item' \in [Items -> Statuses] /\ ItemsOf(q) \in SUBSET Items /\ item \in [Items -> Statuses]
    BY <2>1, PipelineIs DEF EnrollmentTypeOK, ItemsOf
  <2>3. ASSUME q \in quiet PROVE header'[q] = Aggregate(item', ItemsOf(q))
    <3>1. Aggregate(item, ItemsOf(q)) = "pending"
      BY <2>1, <2>3 DEF QuietInv
    <3>2. PICK i \in ItemsOf(q) : item[i] = "pending"
      BY <2>2, <3>1, AggregateIs
    <3>3. item'[i] = "approved" /\ \A k \in ItemsOf(q) : item'[k] # "pending"
      BY <2>1, <3>2 DEF ItemsOf
    <3>4. Aggregate(item', ItemsOf(q)) = "approved"
      BY <2>2, <3>3, AggregateIs
    <3> QED BY <2>1, <3>4 DEF EnrollmentTypeOK
  <2> QED BY <2>1, <2>3, WritesKeep DEF EnrollmentTypeOK
<1>6. ASSUME NEW h \in Reviewers, NEW q \in Headers, Reject(h, q)
      PROVE  FormInv' /\ QuietInv'
  <2>1. /\ Reviewed(h) /\ review[h].on = {q} /\ quiet' = quiet
        /\ header' = [header EXCEPT ![q] = "rejected"]
        /\ item' = [i \in Items |-> IF Of[i] = q THEN "rejected" ELSE item[i]]
    BY <1>6 DEF Reject, About
  <2>2. item' \in [Items -> Statuses] /\ ItemsOf(q) \in SUBSET Items
    BY <2>1, PipelineIs DEF EnrollmentTypeOK, ItemsOf
  <2>3. \A i \in ItemsOf(q) : item'[i] = "rejected"
    BY <2>1 DEF ItemsOf
  <2>4. Aggregate(item', ItemsOf(q)) = "rejected"
    BY <2>2, <2>3, AggregateIs
  <2> QED BY <2>1, <2>4, WritesKeep DEF EnrollmentTypeOK
<1>7. ASSUME NEW h \in Reviewers, NEW q \in Headers, MarkProvisioned(h, q)
      PROVE  FormInv' /\ QuietInv'
  <2>1. /\ Reviewed(h) /\ review[h].on = {q} /\ review[h].do = "provision" /\ quiet' = quiet
        /\ header' = [header EXCEPT ![q] = "provisioned"]
        /\ item' = [i \in Items |->
              IF Of[i] = q /\ item[i] # "rejected" THEN "provisioned" ELSE item[i]]
    BY <1>7 DEF MarkProvisioned, About
  <2>2. item' \in [Items -> Statuses] /\ ItemsOf(q) \in SUBSET Items /\ item \in [Items -> Statuses]
    BY <2>1, PipelineIs DEF EnrollmentTypeOK, ItemsOf
  <2>3. ASSUME q \in quiet PROVE header'[q] = Aggregate(item', ItemsOf(q))
    <3>1. Aggregate(item, ItemsOf(q)) = "approved"
      BY <2>1, <2>3 DEF QuietInv
    <3>2. PICK i \in ItemsOf(q) : item[i] = "approved"
      BY <2>2, <3>1, AggregateIs
    <3>3. item'[i] = "provisioned" /\ \A k \in ItemsOf(q) : item'[k] \in {"provisioned", "rejected"}
      BY <2>1, <3>2 DEF ItemsOf
    <3>4. Aggregate(item', ItemsOf(q)) = "provisioned"
      BY <2>2, <3>3, AggregateIs
    <3> QED BY <2>1, <3>4 DEF EnrollmentTypeOK
  <2> QED BY <2>1, <2>3, WritesKeep DEF EnrollmentTypeOK
<1>8. ASSUME NEW h \in Reviewers, NEW q \in Headers, Advance(h, q)
      PROVE  FormInv' /\ QuietInv'
  <2>1. /\ Reviewed(h) /\ review[h].on = {q} /\ review[h].do = "advance" /\ quiet' = quiet
        /\ header' = [header EXCEPT ![q] = review[h].status]
        /\ item' = [i \in Items |-> IF i \in review[h].moved THEN review[h].target ELSE item[i]]
    BY <1>8 DEF Advance, About
  <2>2. review[h].moved \subseteq ItemsOf(q)
    BY <2>1 DEF FormInv
  <2>3. ASSUME q \in quiet PROVE header'[q] = Aggregate(item', ItemsOf(q))
    BY <2>1, <2>3 DEF QuietInv, Moving, EnrollmentTypeOK
  <2>4. \A i \in Items : Of[i] # q => item'[i] = item[i]
    BY <2>1, <2>2 DEF ItemsOf
  <2> QED BY <2>1, <2>3, <2>4, WritesKeep DEF EnrollmentTypeOK
<1>9. CASE UNCHANGED enrollmentVars
  BY <1>9 DEF enrollmentVars, enrollmentRows, FormInv, QuietInv, ItemsOf
<1> QED BY <1>1, <1>2, <1>3, <1>4, <1>5, <1>6, <1>7, <1>8, <1>9 DEF EnrollmentNext

-----------------------------------------------------------------------------
(* Students.                                                                *)

\* An approval that is open and makes students.
Makes(r) == r.st = "open" /\ \E q \in Headers \ Outside : r.on = {q}

\* Unless approvals of two headers crossed, one is open at a time, and knows every student.
CardInv ==
  ~crossed =>
    /\ \A c, d \in cards : c # d /\ Alike(c, d) => {c, d} \subseteq Enrolled
    /\ \A g, h \in Reviewers : Makes(review[g]) /\ Makes(review[h]) => g = h
    /\ \A h \in Reviewers : Makes(review[h]) => review[h].known = cards

\* The items that have a student or need none.
Placed == student \cup {i \in Items : Of[i] \in Outside}

\* No item waits under a header that has left "pending", nor does what is under way bring a
\* header there while one waits: so what is approved by any path has its student.
StudentInv ==
  /\ \A i \in Items : item[i] \notin {"pending", "rejected"} => i \in Placed
  /\ \A q \in Headers : header[q] # "pending" => \A i \in ItemsOf(q) : item[i] # "pending"
  /\ \A h \in Reviewers, q \in Headers : review[h].on = {q} =>
       /\ review[h].do = "provision" => \A i \in ItemsOf(q) : item[i] # "pending"
       /\ review[h].do = "advance" =>
            /\ review[h].moved \subseteq Placed /\ review[h].target \notin {"pending", "rejected"}
            /\ review[h].status # "pending" => \A i \in ItemsOf(q) : item[i] # "pending"

\* No step makes a student that is like another.
LEMMA CardStep ==
  ASSUME EnrollmentTypeOK, FormInv, CardInv, [EnrollmentNext]_enrollmentVars
  PROVE  CardInv'
<1>1. ASSUME NEW h \in Reviewers, NEW q \in Headers, NEW r, Reads(h, q, r), r.st = "read"
      PROVE  CardInv'
  <2>1. /\ ~Makes(review'[h]) /\ \A g \in Reviewers \ {h} : review'[g] = review[g]
        /\ cards' = cards /\ crossed' = crossed
    BY <1>1 DEF Reads, EnrollmentTypeOK, enrollmentRows, Makes
  <2> QED BY <2>1 DEF CardInv
<1>2. ASSUME NEW h \in Reviewers, NEW q \in Headers,
             ReadToApprove(h, q) \/ ReadToReject(h, q) \/ ReadToProvision(h, q)
             \/ \E n \in 4..5, S \in SUBSET ItemsOf(q) : ReadToAdvance(h, q, n, S)
      PROVE  CardInv'
  <2>1. PICK r : Reads(h, q, r) /\ r.st = "read"
    <3>1. ASSUME NEW do, ReadsToDo(h, q, do) PROVE \E r : Reads(h, q, r) /\ r.st = "read"
      <4> DEFINE r == [NoReview EXCEPT !.do = do, !.st = "read", !.on = {q}]
      <4>1. r.st = "read"
        BY DEF NoReview
      <4>2. Reads(h, q, r)
        BY <3>1 DEF ReadsToDo
      <4> QED BY <4>1, <4>2
    <3>2. ASSUME NEW n \in 4..5, NEW S \in SUBSET ItemsOf(q), ReadToAdvance(h, q, n, S)
          PROVE  \E r : Reads(h, q, r) /\ r.st = "read"
      <4> DEFINE next == [i \in Items |-> IF i \in S THEN Pipeline[n] ELSE item[i]]
                 r == [NoReview EXCEPT !.do = "advance", !.st = "read", !.on = {q}, !.moved = S,
                                       !.target = Pipeline[n], !.status = HeaderAfter(q, n, next)]
      <4>1. r.st = "read"
        BY DEF NoReview
      <4>2. Reads(h, q, r)
        BY <3>2 DEF ReadToAdvance
      <4> QED BY <4>1, <4>2
    <3> QED BY <1>2, <3>1, <3>2 DEF ReadToApprove, ReadToReject, ReadToProvision
  <2> QED BY <1>1, <2>1
<1>3. ASSUME NEW h \in Reviewers, NEW q \in Headers, OpenApproval(h, q) PROVE CardInv'
  <2>1. /\ review'[h].known = cards /\ review'[h].on = {q}
        /\ \A g \in Reviewers \ {h} : review'[g] = review[g]
        /\ cards' = cards
    BY <1>3 DEF OpenApproval, About, EnrollmentTypeOK, Reviews, enrollmentRows
  <2>2. CASE q \in Outside
    <3>1. ~Makes(review'[h]) /\ (crossed' <=> crossed)
      BY <1>3, <2>1, <2>2 DEF Makes, OpenApproval
    <3> QED BY <2>1, <3>1 DEF CardInv
  <2>3. CASE q \notin Outside
    <3>1. ASSUME ~crossed' PROVE ~crossed /\ \A g \in Reviewers : ~Makes(review[g])
      <4>1. ~crossed /\ ~Locked(q) /\ \A o \in Headers \ (Outside \cup {q}) : ~Locked(o)
        BY <1>3, <2>3, <3>1 DEF OpenApproval, About
      <4> QED BY <4>1 DEF Locked, Makes
    <3> QED BY <2>1, <3>1 DEF CardInv
  <2> QED BY <2>2, <2>3
<1>4. ASSUME NEW h \in Reviewers, NEW q \in Headers, Approve(h, q) PROVE CardInv'
  <2>1. /\ ~Makes(review'[h]) /\ \A g \in Reviewers \ {h} : review'[g] = review[g]
        /\ review[h].st = "open" /\ review[h].on = {q} /\ crossed' = crossed
    BY <1>4 DEF Approve, Reviewed, NoReview, EnrollmentTypeOK, Makes
  <2>2. CASE q \in Outside
    BY <1>4, <2>1, <2>2 DEF Approve, CardInv
  <2>3. CASE q \notin Outside
    <3>1. PICK made \in NewCards(q, review[h].known) : cards' = cards \cup made
      BY <1>4, <2>3 DEF Approve
    <3>2. Makes(review[h])
      BY <2>1, <2>3 DEF Makes
    <3>3. ASSUME ~crossed PROVE \A c, d \in cards' : c # d /\ Alike(c, d) => {c, d} \subseteq Enrolled
      <4>1. review[h].known = cards
        BY <3>2, <3>3 DEF CardInv
      <4>2. \A i \in made, c \in cards : ~Alike(i, c) /\ ~Alike(c, i)
        BY <4>1, NewCardsType DEF Alike
      <4>3. \A i, j \in made : i # j => ~Alike(i, j)
        BY NewCardsType
      <4> QED BY <3>1, <3>3, <4>2, <4>3 DEF CardInv
    <3>4. ~crossed => \A g \in Reviewers : ~Makes(review'[g])
      BY <2>1, <3>2 DEF CardInv
    <3> QED BY <2>1, <3>3, <3>4 DEF CardInv
  <2> QED BY <2>2, <2>3
<1>5. ASSUME NEW h \in Reviewers, Reviewed(h), UNCHANGED <<cards, crossed>> PROVE CardInv'
  <2>1. ~Makes(review'[h]) /\ \A g \in Reviewers \ {h} : review'[g] = review[g]
    BY <1>5 DEF Reviewed, NoReview, EnrollmentTypeOK, Makes
  <2> QED BY <1>5, <2>1 DEF CardInv
<1>6. CASE UNCHANGED enrollmentVars
  BY <1>6 DEF enrollmentVars, enrollmentRows, CardInv
<1> QED BY <1>2, <1>3, <1>4, <1>5, <1>6
        DEF EnrollmentNext, Reject, MarkProvisioned, Advance, ReviewDies, enrollmentRows

\* A student stays one.
LEMMA StudentStep ==
  ASSUME EnrollmentTypeOK, FormInv, StudentInv, [EnrollmentNext]_enrollmentVars
  PROVE  StudentInv'
<1> USE PipelineIs
<1>1. ASSUME NEW h \in Reviewers, NEW q \in Headers, NEW r, Reads(h, q, r), r.on = {q},
             r.do = "provision" => \A i \in ItemsOf(q) : item[i] # "pending",
             r.do = "advance" =>
               /\ r.moved \subseteq Placed /\ r.target \notin {"pending", "rejected"}
               /\ r.status # "pending" => \A i \in ItemsOf(q) : item[i] # "pending"
      PROVE  StudentInv'
  <2>1. /\ review'[h] = r /\ \A g \in Reviewers \ {h} : review'[g] = review[g]
        /\ UNCHANGED <<header, item, student>>
    BY <1>1 DEF Reads, EnrollmentTypeOK, enrollmentRows
  <2> QED BY <1>1, <2>1 DEF StudentInv, ItemsOf, Placed
<1>2. ASSUME NEW h \in Reviewers, NEW q \in Headers,
             ReadToApprove(h, q) \/ ReadToReject(h, q) \/ ReadToProvision(h, q)
      PROVE  StudentInv'
  <2>1. PICK do \in {"approve", "reject", "provision"} :
          ReadsToDo(h, q, do) /\ (do = "provision" => header[q] = "approved")
    BY <1>2 DEF ReadToApprove, ReadToReject, ReadToProvision
  <2> DEFINE r == [NoReview EXCEPT !.do = do, !.st = "read", !.on = {q}]
  <2>2. r.on = {q} /\ r.do = do
    BY DEF NoReview
  <2>3. Reads(h, q, r)
    BY <2>1 DEF ReadsToDo
  <2> HIDE DEF r
  <2>4. do = "provision" => \A i \in ItemsOf(q) : item[i] # "pending"
    BY <2>1 DEF StudentInv
  <2> QED BY <1>1, <2>2, <2>3, <2>4
<1>3. ASSUME NEW h \in Reviewers, NEW q \in Headers, NEW n \in 4..5, NEW S \in SUBSET ItemsOf(q),
             ReadToAdvance(h, q, n, S)
      PROVE  StudentInv'
  <2> DEFINE next == [i \in Items |-> IF i \in S THEN Pipeline[n] ELSE item[i]]
             status == Aggregate(next, ItemsOf(q))
             r == [NoReview EXCEPT !.do = "advance", !.st = "read", !.on = {q}, !.moved = S,
                                   !.target = Pipeline[n], !.status = status]
  <2>1. /\ Pipeline[n] \in {"in_training", "certificates_ready"}
        /\ Pipeline[n - 1] \in {"provisioned", "in_training"}
    BY DEF Steps
  <2>2. next \in [Items -> Statuses] /\ ItemsOf(q) \in SUBSET Items
    BY <2>1 DEF EnrollmentTypeOK, ItemsOf
  <2>3. Reads(h, q, r) /\ \A i \in S : item[i] = Pipeline[n - 1]
    BY <1>3 DEF ReadToAdvance, HeaderAfter
  <2>4. S \subseteq Placed
    BY <2>1, <2>2, <2>3 DEF StudentInv
  <2>5. status # "pending" => \A i \in ItemsOf(q) : item[i] # "pending"
    <3>1. \A i \in ItemsOf(q) : next[i] = IF i \in S THEN Pipeline[n] ELSE item[i]
      BY <2>2
    <3> HIDE DEF next
    <3>2. status # "pending" => \A i \in ItemsOf(q) : next[i] # "pending"
      BY <2>2, AggregateIs
    <3> QED BY <2>1, <2>3, <3>1, <3>2
  <2> HIDE DEF status
  <2>6. r.on = {q} /\ r.do = "advance" /\ r.moved = S /\ r.target = Pipeline[n]
        /\ r.status = status
    BY DEF NoReview
  <2> HIDE DEF r
  <2> QED BY <1>1, <2>1, <2>3, <2>4, <2>5, <2>6
<1>4. ASSUME NEW h \in Reviewers, NEW q \in Headers, OpenApproval(h, q) PROVE StudentInv'
  <2>1. /\ review'[h].on = review[h].on /\ review'[h].do = "approve"
        /\ \A g \in Reviewers \ {h} : review'[g] = review[g]
        /\ UNCHANGED <<header, item, student>>
    BY <1>4 DEF OpenApproval, About, EnrollmentTypeOK, Reviews, enrollmentRows
  <2> QED BY <2>1 DEF StudentInv, ItemsOf, Placed
<1>5. ASSUME NEW h \in Reviewers, Reviewed(h)
      PROVE  /\ \A g \in Reviewers \ {h} : review'[g] = review[g]
             /\ review'[h].do = "nothing"
  BY <1>5 DEF Reviewed, NoReview, EnrollmentTypeOK
<1>6. ASSUME NEW h \in Reviewers, NEW q \in Headers, Approve(h, q) PROVE StudentInv'
  <2>1. /\ header' = [header EXCEPT ![q] = "approved"]
        /\ item' = [i \in Items |-> IF Of[i] = q /\ item[i] = "pending" THEN "approved" ELSE item[i]]
        /\ Reviewed(h)
    BY <1>6 DEF Approve
  <2>2. \A p \in Headers \ {q} : header'[p] = header[p]
    BY <2>1 DEF EnrollmentTypeOK
  <2>3. Placed \subseteq Placed' /\ ItemsOf(q) \subseteq Placed'
    BY <1>6 DEF Approve, Placed, ItemsOf
  <2>4. \A i \in Items : /\ item'[i] = "pending" => item[i] = "pending" /\ Of[i] # q
                         /\ item'[i] \notin {"pending", "rejected"} => i \in Placed'
    BY <2>1, <2>3 DEF StudentInv, ItemsOf
  <2> HIDE DEF Placed
  <2> QED BY <1>5, <2>1, <2>2, <2>3, <2>4 DEF StudentInv, ItemsOf
<1>7. ASSUME NEW h \in Reviewers, NEW q \in Headers, Reject(h, q) PROVE StudentInv'
  <2>1. /\ header' = [header EXCEPT ![q] = "rejected"]
        /\ item' = [i \in Items |-> IF Of[i] = q THEN "rejected" ELSE item[i]]
        /\ student' = student /\ Reviewed(h)
    BY <1>7 DEF Reject
  <2>2. \A p \in Headers \ {q} : header'[p] = header[p]
    BY <2>1 DEF EnrollmentTypeOK
  <2> QED BY <1>5, <2>1, <2>2 DEF StudentInv, ItemsOf, Placed
<1>8. ASSUME NEW h \in Reviewers, NEW q \in Headers, MarkProvisioned(h, q) PROVE StudentInv'
  <2>1. /\ header' = [header EXCEPT ![q] = "provisioned"]
        /\ item' = [i \in Items |->
              IF Of[i] = q /\ item[i] # "rejected" THEN "provisioned" ELSE item[i]]
        /\ student' = student /\ Reviewed(h)
        /\ review[h].on = {q} /\ review[h].do = "provision"
    BY <1>8 DEF MarkProvisioned, About
  <2>2. \A p \in Headers \ {q} : header'[p] = header[p]
    BY <2>1 DEF EnrollmentTypeOK
  <2>3. \A i \in ItemsOf(q) : item[i] # "pending" /\ item'[i] # "pending"
    BY <2>1 DEF StudentInv, ItemsOf, Placed
  <2>4. \A i \in Items : item'[i] \notin {"pending", "rejected"} => i \in Placed'
    BY <2>1, <2>3 DEF StudentInv, ItemsOf, Placed
  <2> QED BY <1>5, <2>1, <2>2, <2>3, <2>4 DEF StudentInv, ItemsOf, Placed
<1>9. ASSUME NEW h \in Reviewers, NEW q \in Headers, Advance(h, q) PROVE StudentInv'
  <2>1. /\ header' = [header EXCEPT ![q] = review[h].status]
        /\ item' = [i \in Items |-> IF i \in review[h].moved THEN review[h].target ELSE item[i]]
        /\ student' = student /\ Reviewed(h)
        /\ review[h].on = {q} /\ review[h].do = "advance"
    BY <1>9 DEF Advance, About
  <2>2. header'[q] = review[h].status /\ \A p \in Headers \ {q} : header'[p] = header[p]
    BY <2>1 DEF EnrollmentTypeOK
  <2>3. \A i \in Items : /\ item'[i] = "pending" => item[i] = "pending"
                         /\ item'[i] \notin {"pending", "rejected"} => i \in Placed'
    BY <2>1 DEF StudentInv, Placed
  <2> QED BY <1>5, <2>1, <2>2, <2>3 DEF StudentInv, ItemsOf, Placed
<1>10. ASSUME NEW h \in Reviewers, ReviewDies(h) PROVE StudentInv'
  BY <1>5, <1>10 DEF ReviewDies, StudentInv, ItemsOf, Placed, enrollmentRows
<1>11. CASE UNCHANGED enrollmentVars
  BY <1>11 DEF enrollmentVars, enrollmentRows, StudentInv, ItemsOf, Placed
<1> QED BY <1>2, <1>3, <1>4, <1>6, <1>7, <1>8, <1>9, <1>10, <1>11 DEF EnrollmentNext

-----------------------------------------------------------------------------
EnrollInv == EnrollmentTypeOK /\ FormInv /\ QuietInv /\ CardInv /\ StudentInv

LEMMA EnrollInvariant == EnrollmentSpec => []EnrollInv
<1>1. EnrollmentInit => EnrollInv
  <2> SUFFICES ASSUME EnrollmentInit PROVE EnrollInv
    OBVIOUS
  <2>0. /\ header \in [Headers -> Statuses] /\ item \in [Items -> Statuses]
        /\ review \in [Reviewers -> Reviews] /\ student \subseteq Items
        /\ cards \subseteq Enrolled /\ quiet = Headers /\ crossed = FALSE
        /\ \A h \in Reviewers : review[h] = NoReview
        /\ \A q \in Headers : header[q] = "pending"
        /\ \A i \in Items : item[i] = "pending"
    BY PipelineIs, NoReviewType DEF EnrollmentInit
  <2>1. EnrollmentTypeOK
    <3>1. cards \subseteq Cards
      BY <2>0 DEF Cards
    <3> QED BY <2>0, <3>1 DEF EnrollmentTypeOK
  <2>2. FormInv /\ CardInv /\ StudentInv
    BY <2>0 DEF FormInv, CardInv, StudentInv, NoReview, ItemsOf, Makes
  <2>3. QuietInv
    <3>1. ASSUME NEW q \in Headers PROVE Aggregate(item, ItemsOf(q)) = "pending"
      <4>1. PICK i \in Items : Of[i] = q
        OBVIOUS
      <4>2. ItemsOf(q) \in SUBSET Items /\ i \in ItemsOf(q)
        BY <4>1 DEF ItemsOf
      <4> QED BY <2>0, <4>2, AggregateIs
    <3>2. \A h \in Reviewers, q \in Headers : review[h].on # {q}
      BY <2>0 DEF NoReview
    <3> QED BY <2>0, <3>1, <3>2 DEF QuietInv
  <2> QED BY <2>1, <2>2, <2>3 DEF EnrollInv
<1>2. EnrollInv /\ [EnrollmentNext]_enrollmentVars => EnrollInv'
  BY EnrollTypeStep, QuietStep, CardStep, StudentStep DEF EnrollInv
<1> QED BY <1>1, <1>2, PTL DEF EnrollmentSpec

\* The fields have their types, whatever the constants.
THEOREM EnrollmentTypeCorrect == EnrollmentSpec => []EnrollmentTypeOK
BY EnrollInvariant, PTL DEF EnrollInv

\* Wherever operations have not overlapped, the header of a request is what its items say,
\* for any number of listeners and any partial advances (lifecycle.ts).
THEOREM HeaderAgreesAlways == EnrollmentSpec => []HeaderAgrees
<1>1. EnrollInv => HeaderAgrees
  BY DEF EnrollInv, QuietInv, HeaderAgrees
<1> QED BY <1>1, EnrollInvariant, PTL

\* No approval makes a student that shares a key with another, unless approvals of two
\* requests crossed, and everybody approved for an organization by whatever path has one
\* (fromEnrollment.ts), for any listeners, requests and keys.
THEOREM OneCardEachAlways == EnrollmentSpec => []OneCardEach
<1>1. EnrollInv => OneCardEach
  BY DEF EnrollInv, CardInv, StudentInv, OneCardEach, Placed
<1> QED BY <1>1, EnrollInvariant, PTL
================================================================================

---------------------------- MODULE ImportRollback ----------------------------
(***************************************************************************)
(* Rolling back a file import (lib/services/import/rollback.ts) and the    *)
(* trail the import leaves for it (lib/services/import/index.ts,           *)
(* oneCSync/writers.ts).                                                   *)
(*                                                                         *)
(* One organization, one order of it and one payment of it, maybe for the  *)
(* order.  An import writes records as it goes and its trail at the end,   *)
(* outside any transaction.  A rollback is one transaction (read           *)
(* committed): it looks for conflicts, deletes what the import created and *)
(* restores what it updated; others may write between the two.             *)
(*                                                                         *)
(* The trail keeps some columns of a row only (an order's sums and states; *)
(* a payment's amount, day and purpose; an organization's requisites), and *)
(* a rollback counts some relations only: the rest of the columns and the  *)
(* relations it does not see are modelled beside those it does.            *)
(***************************************************************************)
EXTENDS Integers, Sequences, FiniteSets

CONSTANTS
  MaxBatches,   \* bound: the imports
  MaxRecords,   \* bound: the records of all files
  MaxValue,     \* what a record says: 1..MaxValue
  MaxOthers     \* bound: the writes of others

ASSUME ImportAssumption ==
  MaxBatches \in Nat /\ MaxRecords \in Nat /\ MaxValue \in Nat \ {0} /\ MaxOthers \in Nat

VARIABLES
  rec,        \* each entity: what its columns in the trail say, 0 if there is no such row
  rest,       \* its other columns: the import that wrote them last, 0 for the exchange
  ids,        \* how often the entity was created: its id, which trails name
  onOrder,    \* Payment.orderId is the order's
  link,       \* a link from outside: held by the database or cut loose with the row, and
              \* counted as a conflict; or of a relation a rollback does not count, cut alike
  batch,      \* status and rows (the trail) of each import
  file,       \* the import under way: its rows so far
  back,       \* the rollback under way: its batch and the rows it found safe
  raced,      \* somebody wrote since the rollback under way looked for conflicts
  died,       \* history: why a rollback was aborted by the database
  imported,   \* the records of files so far
  others,     \* the writes of others so far
  before, after   \* history: the entities when an import began and when it ended

data == <<rec, rest, ids, onOrder, link>>
imports == <<batch, file>>
history == <<before, after>>
bounds == <<imported, others>>
importVars == <<data, imports, back, raced, died, bounds, history>>

\* A file is imported in this order, and rolled back in the opposite one.
Entities == {"organization", "order", "payment"}
Stage(e) == CASE e = "organization" -> 1 [] e = "order" -> 2 [] e = "payment" -> 3

Batches == 1..MaxBatches
NoFile == [batch |-> 0, rows |-> <<>>, alone |-> TRUE]
Unknown == [e \in Entities |-> -1]
NoBack == [batch |-> 0, safe |-> {}]

Rows == [entity : Entities, id : Nat, action : {"created", "updated"}, was : 0..MaxValue]

There(e) == rec[e] # 0
RowsOf(b) == {batch[b].rows[i] : i \in 1..Len(batch[b].rows)}
Active(b) == RowsOf(b) \ batch[b].reverted
Finds(r) == There(r.entity) /\ ids[r.entity] = r.id
Created(rs) == {r.entity : r \in {x \in rs : x.action = "created" /\ Finds(x)}}
Updated(rs) == {r.entity : r \in {x \in rs : x.action = "updated" /\ Finds(x)}}

\* The file names the entity twice, so that it is created and updated in one trail.
Repeats(b) == \E r, s \in RowsOf(b) : r # s /\ r.entity = s.entity

ImportInit ==
  /\ rec = [e \in Entities |-> 0] /\ rest = rec /\ ids = rec /\ onOrder = FALSE
  /\ link = [e \in Entities |-> "no"]
  /\ batch = [b \in Batches |-> [st |-> "none", rows |-> <<>>, reverted |-> {}]]
  /\ file = NoFile /\ back = NoBack /\ raced = FALSE /\ died = "no"
  /\ imported = 0 /\ others = 0
  /\ before = [b \in Batches |-> Unknown] /\ after = [b \in Batches |-> Unknown]

Races == raced' = (back # NoBack)

\* Somebody else writes, maybe between two records of an import or within a rollback.
OtherWrites ==
  /\ others < MaxOthers /\ others' = others + 1
  /\ file' = IF file = NoFile THEN file ELSE [file EXCEPT !.alone = FALSE]
  /\ Races

-----------------------------------------------------------------------------
(* The import, and the others who write.                                    *)

StartImport(b) ==
  /\ file = NoFile /\ batch[b].st = "none" /\ \A i \in 1..b - 1 : batch[i].st # "none"
  /\ file' = [NoFile EXCEPT !.batch = b]
  /\ before' = [before EXCEPT ![b] = rec]
  /\ UNCHANGED <<data, batch, back, raced, died, bounds, after>>

\* An order needs its organization; a payment needs its order, or names none.
Upsert(e, v) ==
  /\ e # "organization" => There("organization")
  /\ rec' = [rec EXCEPT ![e] = v] /\ rest' = [rest EXCEPT ![e] = file.batch]
  /\ ids' = [ids EXCEPT ![e] = IF There(e) THEN @ ELSE @ + 1]
  /\ onOrder' \in IF e = "payment" /\ ~There(e) THEN {FALSE, There("order")} ELSE {onOrder}

ForgetsWhatItWas(e) ==                                   \* mutant of TrailOf
  [entity |-> e, id |-> ids'[e], action |-> IF There(e) THEN "updated" ELSE "created", was |-> 0]
TrailOf(e) ==
  [entity |-> e, id |-> ids'[e], action |-> IF There(e) THEN "updated" ELSE "created", was |-> rec[e]]

ImportRecord(e, v) ==
  /\ file # NoFile /\ imported < MaxRecords /\ imported' = imported + 1
  /\ \A i \in 1..Len(file.rows) : Stage(file.rows[i].entity) <= Stage(e)
  /\ Upsert(e, v)
  /\ file' = [file EXCEPT !.rows = Append(@, TrailOf(e))]
  /\ Races
  /\ UNCHANGED <<link, batch, back, died, others, history>>

\* The trail is stored, or not: then the import cannot be rolled back (fail-open).
EndImport ==
  /\ file # NoFile
  /\ \E rows \in {file.rows, <<>>} :
       batch' = [batch EXCEPT ![file.batch] = [st |-> "committed", rows |-> rows, reverted |-> {}]]
  /\ after' = [after EXCEPT ![file.batch] = IF file.alone THEN rec ELSE Unknown]
  /\ file' = NoFile
  /\ UNCHANGED <<data, back, raced, died, bounds, before>>

\* The exchange updates a row, and leaves no trail.
PullRecord(e, v) ==
  /\ There(e)
  /\ rec' = [rec EXCEPT ![e] = v] /\ rest' = [rest EXCEPT ![e] = 0]
  /\ OtherWrites
  /\ UNCHANGED <<ids, onOrder, link, batch, back, died, imported, history>>

\* A statement takes the payment, a document or a task names the order, a call or a lead
\* the organization: their foreign keys are nulled or cascade.  A student's organization
\* and a comment's order are held.  A line or a deal of the order, a note or a messenger
\* dialog of the organization are "unseen": nulled or deleted with it, and not counted.
Attach(e, how) ==
  /\ There(e) /\ link[e] = "no"
  /\ link' = [link EXCEPT ![e] = how]
  /\ OtherWrites
  /\ UNCHANGED <<rec, rest, ids, onOrder, batch, back, died, imported, history>>

-----------------------------------------------------------------------------
(* The rollback.                                                            *)

Counted == {"held", "loose"}
OwnLinks(b) == {e \in Created(Active(b)) : link[e] \in Counted}

\* Rows that point to a created one and are not of this import.
ForeignChildren(b) ==
  {e \in Created(Active(b)) :
     LET foreign == Entities \ Created(Active(b)) IN
       \/ e = "order" /\ onOrder /\ There("payment") /\ "payment" \in foreign
       \/ e = "organization" /\ \E c \in foreign \ {e} : There(c)}

\* The row found by the id of an entity: the last one the trail has of it.
RowOf(b, e) ==
  LET rows == batch[b].rows
      of == {i \in 1..Len(rows) : rows[i].entity = e /\ rows[i] \in Active(b)}
  IN  {rows[i] : i \in {k \in of : \A n \in of : n <= k}}
CreatedHere(b, e) == \E r \in RowOf(b, e) : r.action = "created"

OnlyDirect(b, bad) == bad                                \* mutant of Upwards
\* A payment that stays keeps its order, and both keep their organization.
Upwards(b, bad) ==
  LET orders == bad \cup {e \in {"order"} : "payment" \in bad /\ onOrder /\ CreatedHere(b, e)}
  IN  orders \cup {e \in {"organization"} : orders # {} /\ CreatedHere(b, e)}

NoForeign(b) == OwnLinks(b)                              \* mutant of Conflicts
Conflicts(b) == OwnLinks(b) \cup ForeignChildren(b)

\* Links block the rows of created entities; those updated must still be there.
Safe(b) ==
  Active(b) \ ((UNION {RowOf(b, e) : e \in Upwards(b, Conflicts(b))})
               \cup {r \in Active(b) : r.action = "updated" /\ ~Finds(r)})

RollbackReads(b, partial) ==
  /\ back = NoBack
  /\ batch[b].st \in {"committed", "rollback_partial"} /\ Active(b) # {}
  /\ partial \/ Safe(b) = Active(b)
  /\ Safe(b) # {}
  /\ back' = [batch |-> b, safe |-> Safe(b)]
  /\ raced' = FALSE
  /\ UNCHANGED <<data, imports, died, bounds, history>>

\* What the database would refuse.
Refused ==
  LET gone == Created(back.safe) IN
    \/ \E e \in gone : link[e] = "held"
    \/ "organization" \in gone /\ \E c \in {"order", "payment"} \ gone : There(c)
    \/ \E r \in back.safe : r.action = "updated" /\ (~Finds(r) \/ r.entity \in gone)

\* The columns of the trail are restored, in its order: of an entity named twice, the last
\* counts.  The rest stay as they are.
Restored(e) ==
  LET rows == batch[back.batch].rows
      of == {i \in 1..Len(rows) : rows[i] \in back.safe /\ rows[i].action = "updated"
                                   /\ rows[i].entity = e}
      last == CHOOSE i \in of : \A k \in of : k <= i
  IN  rows[last].was

RollbackCommits ==
  /\ back # NoBack /\ ~Refused
  /\ LET b == back.batch
         gone == Created(back.safe) IN
       /\ rec' = [e \in Entities |->
                    CASE e \in gone -> 0
                      [] e \in Updated(back.safe) -> Restored(e)
                      [] OTHER -> rec[e]]
       /\ rest' = [e \in Entities |-> IF e \in gone THEN 0 ELSE rest[e]]
       /\ link' = [e \in Entities |-> IF e \in gone THEN "no" ELSE link[e]]
       /\ onOrder' = (onOrder /\ {"order", "payment"} \cap gone = {})
       /\ batch' = [batch EXCEPT ![b] =
            [st |-> IF Active(b) = back.safe THEN "rolled_back" ELSE "rollback_partial",
             rows |-> @.rows, reverted |-> @.reverted \cup back.safe]]
  /\ back' = NoBack
  /\ raced' = FALSE
  /\ file' = IF file = NoFile THEN file ELSE [file EXCEPT !.alone = FALSE]
  /\ UNCHANGED <<ids, died, bounds, history>>

RollbackAborts ==
  /\ back # NoBack /\ Refused
  /\ died' = IF raced THEN "raced" ELSE IF Repeats(back.batch) THEN "repeats" ELSE "alone"
  /\ back' = NoBack /\ raced' = FALSE
  /\ UNCHANGED <<data, imports, bounds, history>>

ImportNext ==
  \/ \E b \in Batches :
       StartImport(b) \/ \E partial \in BOOLEAN : RollbackReads(b, partial)
  \/ \E e \in Entities, v \in 1..MaxValue : ImportRecord(e, v) \/ PullRecord(e, v)
  \/ \E e \in Entities : Attach(e, "loose")
  \/ \E e \in {"organization", "order"}, how \in {"held", "unseen"} : Attach(e, how)
  \/ EndImport \/ RollbackCommits \/ RollbackAborts

ImportSpec == ImportInit /\ [][ImportNext]_importVars

-----------------------------------------------------------------------------
(* Properties.                                                              *)

\* The fields have their types.
ImportTypeOK ==
  /\ rec \in [Entities -> 0..MaxValue] /\ ids \in [Entities -> Nat] /\ onOrder \in BOOLEAN
  /\ rest \in [Entities -> 0..MaxBatches]
  /\ link \in [Entities -> {"no", "unseen"} \cup Counted]
  /\ \A b \in Batches :
       /\ batch[b].st \in {"none", "committed", "rolled_back", "rollback_partial"}
       /\ RowsOf(b) \subseteq Rows /\ batch[b].reverted \subseteq RowsOf(b)
  /\ file.batch \in 0..MaxBatches /\ back.batch \in 0..MaxBatches
  /\ imported \in 0..MaxRecords /\ others \in 0..MaxOthers
  /\ raced \in BOOLEAN /\ died \in {"no", "raced", "repeats", "alone"}

\* A full rollback of an import that named nothing twice, when the rows are as that import
\* left them, makes the columns of the trail what they were before it, so that imports
\* rolled back in the opposite order of their making leave no trace there.  In the rows
\* that stay, the other columns keep what was written last (rollback.ts, restoreData).
RollbackUndoes ==
  [][\A b \in Batches :
       /\ batch[b].st = "committed" /\ batch'[b].st = "rolled_back"
       /\ rec = after[b] /\ ~Repeats(b)
       => rec' = before[b] /\ \A e \in Entities : rec'[e] # 0 => rest'[e] = rest[e]]_importVars

\* A rollback takes nothing with it that is not of its import and that it counts: a payment
\* that stays keeps its order and a row with a counted link from outside stays, unless they
\* appeared after the rollback had looked or the file named an entity twice (rollback.ts:
\* any link from outside the batch is a conflict).  Lines, deals, notes and dialogs go.
TakesNothingAlong ==
  [][back # NoBack /\ back' = NoBack /\ ~raced /\ ~Repeats(back.batch) =>
       /\ onOrder /\ rec'["payment"] # 0 => onOrder'
       /\ \A e \in Entities : link[e] \in Counted => rec'[e] # 0]_importVars

\* The database refuses a rollback only if something appeared after it had looked, or the
\* file named an entity twice: what it lets through and what is blocked above a blocked
\* row never leaves a child without its parent.
NeverDiesAlone == died # "alone"
===============================================================================

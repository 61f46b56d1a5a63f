------------------------------ MODULE OrderProofs ------------------------------
(***************************************************************************)
(* Theorems about Sale, OrderTotal and ImportRollback for any number of    *)
(* requests, orders, lines, prices, imports and rows.  Sale: type          *)
(* correctness, the order behind an accepted proposal, one order of a deal *)
(* and its proposal, a deal that stays won.  OrderTotal: type correctness, *)
(* the total and the lines of an order whose requests take turns, the      *)
(* snapshot of one that never had a line.  ImportRollback: type            *)
(* correctness, what a rollback restores, what it takes along and what the *)
(* database may refuse.                                                    *)
(***************************************************************************)
EXTENDS Sale, OrderTotal, ImportRollback, TLAPS, FiniteSetTheorems, WellFoundedInduction

-----------------------------------------------------------------------------
(* ImportRollback.                                                            *)

\* The rows of a trail, whether stored or not yet.
RowSet(s) == {s[i] : i \in 1..Len(s)}
FileRows == RowSet(file.rows)
Doubled(R) == \E r, s \in R : r # s /\ r.entity = s.entity
HasRow(R, e) == \E r \in R : r.entity = e

\* The types, and no rollback that died alone.
BatchRows == [st : {"none", "committed", "rolled_back", "rollback_partial"}, rows : Seq(Rows),
              reverted : SUBSET Rows]
Links == {"no", "unseen"} \cup Counted
ImportShape ==
  /\ rec \in [Entities -> 0..MaxValue] /\ ids \in [Entities -> Nat] /\ onOrder \in BOOLEAN
  /\ rest \in [Entities -> 0..MaxBatches] /\ link \in [Entities -> Links]
  /\ batch \in [Batches -> BatchRows]
  /\ file \in [batch : 0..MaxBatches, rows : Seq(Rows), alone : BOOLEAN]
  /\ back \in [batch : 0..MaxBatches, safe : SUBSET Rows]
  /\ imported \in 0..MaxRecords /\ others \in 0..MaxOthers
  /\ raced \in BOOLEAN /\ died \in {"no", "raced", "repeats"}
  /\ before \in [Batches -> [Entities -> 0..MaxValue] \cup {Unknown}]
  /\ after \in [Batches -> [Entities -> 0..MaxValue] \cup {Unknown}]

\* Where imports and the rollback stand.
Stands(b) ==
  /\ batch[b].st = "none" => batch[b].rows = <<>>
  /\ batch[b].st \in {"none", "committed"} => batch[b].reverted = {}
  /\ batch[b].reverted \subseteq RowsOf(b)
FileStands ==
  IF file.batch = 0 THEN file = NoFile ELSE batch[file.batch].st = "none"
BackStands ==
  IF back.batch = 0 THEN back = NoBack
  ELSE /\ batch[back.batch].st \in {"committed", "rollback_partial"}
       /\ back.safe # {} /\ back.safe \subseteq Active(back.batch)
       /\ ~raced => back.safe = Safe(back.batch)

\* Links and the order of the payment are those of rows that are there.
LinksHold ==
  /\ onOrder => There("payment") /\ There("order")
  /\ \A e \in Entities : link[e] # "no" => There(e)

\* A row of a trail names an id that was given, and a created entity was not there before.
Honest(R, known) ==
  \A r \in R : r.id <= known[r.entity] /\ (r.was = 0 <=> r.action = "created")
\* No two imports created the same.
Apart(R, S) ==
  \A r \in R, s \in S :
    r.action = "created" /\ s.action = "created" /\ r.entity = s.entity => r.id # s.id
\* What was created and not rolled back is there, under the id it was given.
StillFound(R, value, known) ==
  \A r \in R : r.action = "created" => value[r.entity] # 0 /\ known[r.entity] = r.id
\* So it is of every trail, the one in the making included.
TrailsHold ==
  /\ \A b \in Batches : /\ Honest(RowsOf(b), ids) /\ StillFound(Active(b), rec, ids)
                        /\ Apart(RowsOf(b), FileRows)
  /\ Honest(FileRows, ids) /\ StillFound(FileRows, rec, ids)
  /\ \A b, c \in Batches : b # c => Apart(RowsOf(b), RowsOf(c))

\* A trail says what each entity was before the import; it is silent of those left alone.
Tells(R, was, is) ==
  /\ \A e \in Entities : HasRow(R, e) \/ is[e] = was[e]
  /\ \A r \in R : r.was = was[r.entity]
FileTells ==
  file.batch # 0 /\ file.alone /\ ~Doubled(FileRows) =>
    Tells(FileRows, before[file.batch], rec)
BatchTells(b) ==
  after[b] # Unknown /\ batch[b].rows # <<>> /\ ~Doubled(RowsOf(b)) =>
    Tells(RowsOf(b), before[b], after[b])

\* The invariant.
ImportInv ==
  /\ \A b \in Batches : Stands(b) /\ BatchTells(b)
  /\ FileStands /\ BackStands /\ LinksHold /\ TrailsHold /\ FileTells

-----------------------------------------------------------------------------
(* Sets of numbers have a last one, by induction over them: a set without    *)
(* would be a least one of its kind.                                         *)

LessThan == {p \in Nat \X Nat : p[1] < p[2]}

LEMMA LessIsWellFounded == IsWellFoundedOn(LessThan, Nat)
BY NatLessThanWellFounded DEF OpToRel, LessThan

\* A set of numbers has a least one.
LEMMA LeastNumber ==
  ASSUME NEW T, T \subseteq Nat, T # {}
  PROVE  \E x \in T : \A y \in T : x <= y
<1>1. PICK x \in T : \A y \in T : <<y, x>> \notin LessThan
  BY LessIsWellFounded, WFMin
<1>2. ASSUME NEW y \in T PROVE x <= y
  <2>1. x \in Nat /\ y \in Nat
    OBVIOUS
  <2>2. CASE y < x
    <3>1. <<y, x>> \in LessThan
      BY <2>1, <2>2 DEF LessThan
    <3> QED BY <1>1, <3>1
  <2> QED BY <2>1, <2>2
<1> QED BY <1>2

\* A bounded one has a greatest one.
LEMMA LastNumber ==
  ASSUME NEW T, NEW n \in Nat, T \subseteq 1..n, T # {}
  PROVE  \E x \in T : \A y \in T : y <= x
<1> DEFINE Above == {n - y : y \in T}
<1>1. Above \subseteq Nat /\ Above # {}
  <2>1. \A y \in T : n - y \in Nat
    OBVIOUS
  <2> QED BY <2>1
<1>2. PICK z \in Above : \A y \in Above : z <= y
  <2> HIDE DEF Above
  <2> QED BY <1>1, LeastNumber
<1>3. PICK x \in T : z = n - x
  BY <1>2
<1>4. ASSUME NEW y \in T PROVE y <= x
  <2>1. n - y \in Above /\ x \in Nat /\ y \in Nat
    OBVIOUS
  <2>2. n - x <= n - y
    BY <1>2, <1>3, <2>1
  <2> QED BY <2>1, <2>2
<1> QED BY <1>4

-----------------------------------------------------------------------------
(* Trails.                                                                   *)

\* A trail grows by a row.
LEMMA RowSetOfAppend ==
  ASSUME NEW s \in Seq(Rows), NEW r \in Rows
  PROVE  Append(s, r) \in Seq(Rows) /\ RowSet(Append(s, r)) = RowSet(s) \cup {r}
<1>1. /\ Append(s, r) \in Seq(Rows) /\ Len(Append(s, r)) = Len(s) + 1 /\ Len(s) \in Nat
      /\ \A i \in 1..Len(s) : Append(s, r)[i] = s[i]
      /\ Append(s, r)[Len(s) + 1] = r
  OBVIOUS
<1>2. RowSet(Append(s, r)) \subseteq RowSet(s) \cup {r}
  BY <1>1 DEF RowSet
<1>3. RowSet(s) \subseteq RowSet(Append(s, r))
  <2>1. \A i \in 1..Len(s) : i \in 1..Len(Append(s, r))
    BY <1>1
  <2> QED BY <1>1, <2>1 DEF RowSet
<1>4. r \in RowSet(Append(s, r))
  <2>1. Len(s) + 1 \in 1..Len(Append(s, r))
    BY <1>1
  <2> QED BY <1>1, <2>1 DEF RowSet
<1> QED BY <1>1, <1>2, <1>3, <1>4

\* No trail, no rows.
LEMMA RowSetOfNone == RowSet(<<>>) = {} /\ <<>> \in Seq(Rows)
BY DEF RowSet

\* The rows of a trail are rows.
LEMMA RowSetTyped ==
  ASSUME NEW s \in Seq(Rows)
  PROVE  RowSet(s) \subseteq Rows
BY DEF RowSet

\* What the module says of a trail, in these terms.
LEMMA RowsOfIs == \A b : RowsOf(b) = RowSet(batch[b].rows) /\ Repeats(b) = Doubled(RowsOf(b))
BY DEF RowsOf, RowSet, Repeats, Doubled

\* If a file names nothing twice, the last row the trail has of an entity is its only one.
LEMMA RowOfIs ==
  ASSUME ImportShape, NEW b \in Batches, ~Repeats(b), NEW r \in Active(b)
  PROVE  RowOf(b, r.entity) = {r}
<1> DEFINE rows == batch[b].rows
           of == {i \in 1..Len(rows) : rows[i].entity = r.entity /\ rows[i] \in Active(b)}
<1>1. rows \in Seq(Rows) /\ Len(rows) \in Nat
  BY DEF ImportShape, BatchRows
<1>2. \A i \in of : rows[i] = r
  BY DEF Repeats, RowsOf, Active
<1>3. of # {} /\ of \subseteq 1..Len(rows)
  BY DEF Active, RowsOf
<1>4. PICK x \in of : \A n \in of : n <= x
  <2> HIDE DEF of, rows
  <2> QED BY <1>1, <1>3, LastNumber
<1>5. RowOf(b, r.entity) = {rows[i] : i \in {k \in of : \A n \in of : n <= k}}
  BY DEF RowOf
<1> HIDE DEF of, rows
<1> QED BY <1>2, <1>4, <1>5

\* A row found by the id of an entity is one of that entity.
LEMMA RowOfHas ==
  ASSUME NEW b, NEW e, NEW r \in RowOf(b, e)
  PROVE  r.entity = e
BY DEF RowOf

\* What a rollback that has just looked may take.
LEMMA SafeRows ==
  ASSUME ImportShape, NEW b \in Batches, ~Repeats(b)
  PROVE  /\ Safe(b) \subseteq Active(b)
         /\ \A r \in Safe(b) : /\ r.entity \notin Upwards(b, Conflicts(b))
                               /\ r.action = "updated" => Finds(r)
         /\ \A r \in Active(b) \ Safe(b) :
              r.action = "created" => r.entity \in Upwards(b, Conflicts(b))
<1> DEFINE blocked == UNION {RowOf(b, e) : e \in Upwards(b, Conflicts(b))}
           lost == {r \in Active(b) : r.action = "updated" /\ ~Finds(r)}
<1>0. Safe(b) = Active(b) \ (blocked \cup lost)
  BY DEF Safe
<1>1. Safe(b) \subseteq Active(b) /\ \A r \in Safe(b) : r.action = "updated" => Finds(r)
  BY <1>0
<1>2. ASSUME NEW r \in Safe(b), r.entity \in Upwards(b, Conflicts(b)) PROVE FALSE
  <2>1. r \in RowOf(b, r.entity)
    BY <1>1, RowOfIs
  <2> QED BY <1>0, <1>2, <2>1
<1>3. ASSUME NEW r \in Active(b) \ Safe(b), r.action = "created"
      PROVE  r.entity \in Upwards(b, Conflicts(b))
  <2>1. PICK e \in Upwards(b, Conflicts(b)) : r \in RowOf(b, e)
    BY <1>0, <1>3
  <2> QED BY <2>1, RowOfHas
<1> QED BY <1>1, <1>2, <1>3

\* What is created of what may be taken has no links from outside, and no child that stays.
LEMMA SafeTakes ==
  ASSUME ImportShape, NEW b \in Batches, ~Repeats(b)
  PROVE  LET gone == Created(Safe(b)) IN
         /\ \A e \in gone : link[e] \notin Counted
         /\ "organization" \in gone => \A c \in {"order", "payment"} : There(c) => c \in gone
         /\ "order" \in gone /\ onOrder /\ There("payment") => "payment" \in gone
         /\ \A r \in Safe(b) : r.action = "updated" => Finds(r) /\ r.entity \notin gone
<1> DEFINE gone == Created(Safe(b))
           born == Created(Active(b))
           up == Upwards(b, Conflicts(b))
<1>1. \A e : e \in gone <=> \E r \in Safe(b) : r.action = "created" /\ Finds(r) /\ r.entity = e
  BY DEF Created
<1>2. \A e : e \in born <=> \E r \in Active(b) : r.action = "created" /\ Finds(r) /\ r.entity = e
  BY DEF Created
<1>3. gone \subseteq born /\ gone \subseteq Entities
  <2>1. Active(b) \subseteq Rows
    BY RowSetTyped, RowsOfIs DEF ImportShape, BatchRows, Active
  <2>2. \A r \in Rows : r.entity \in Entities
    BY DEF Rows
  <2> QED BY <1>1, <1>2, <2>1, <2>2, SafeRows
<1>4. \A e \in gone : e \notin up
  BY <1>1, SafeRows
\* What stays of the created is blocked.
<1>5. \A e \in born : e \in gone \/ e \in up
  BY <1>1, <1>2, SafeRows
<1>6. Conflicts(b) \subseteq up
  BY DEF Upwards
\* The trail says of each of them that it was created.
<1>7. \A e \in born : CreatedHere(b, e)
  BY <1>2, RowOfIs DEF CreatedHere
<1>8. \A e \in born : link[e] \in Counted => e \in Conflicts(b)
  BY DEF Conflicts, OwnLinks
<1>9. \A c \in Entities : "organization" \in born /\ c \notin born /\ c # "organization" /\ There(c)
                            => "organization" \in Conflicts(b)
  BY DEF Conflicts, ForeignChildren
<1>10. "order" \in born /\ onOrder /\ There("payment") /\ "payment" \notin born
         => "order" \in Conflicts(b)
  BY DEF Conflicts, ForeignChildren, Entities
\* Upwards goes from the payment to its order, and from both to the organization.
<1>11. "payment" \in up => "payment" \in Conflicts(b)
  BY DEF Upwards
<1>12. "payment" \in Conflicts(b) /\ onOrder /\ "order" \in born => "order" \in up
  BY <1>7 DEF Upwards
<1>13. "organization" \in born /\ (\E c \in up : c # "organization") => "organization" \in up
  BY <1>7 DEF Upwards
<1> HIDE DEF gone, born, up
<1>14. \A e \in gone : link[e] \notin Counted
  BY <1>3, <1>4, <1>6, <1>8
<1>15. ASSUME "organization" \in gone, NEW c \in {"order", "payment"}, There(c) PROVE c \in gone
  BY <1>3, <1>4, <1>5, <1>6, <1>9, <1>13, <1>15 DEF Entities
<1>16. "order" \in gone /\ onOrder /\ There("payment") => "payment" \in gone
  BY <1>3, <1>4, <1>5, <1>6, <1>10, <1>11, <1>12
<1>17. ASSUME NEW r \in Safe(b), r.action = "updated" PROVE Finds(r) /\ r.entity \notin gone
  <2>1. Finds(r) /\ Safe(b) \subseteq RowsOf(b)
    BY <1>17, SafeRows DEF Active
  <2>2. ASSUME NEW s \in Safe(b), s.action = "created", s.entity = r.entity PROVE FALSE
    BY <1>17, <2>1, <2>2 DEF Repeats
  <2> QED BY <1>1, <2>1, <2>2
<1> QED BY <1>14, <1>15, <1>16, <1>17 DEF gone

-----------------------------------------------------------------------------
(* What the steps keep.                                                      *)

\* Entities that are there stay, under their ids.
EntityGoesOn(e) ==
  /\ ids'[e] \in Nat /\ ids'[e] >= ids[e]
  /\ rec[e] # 0 => rec'[e] # 0 /\ ids'[e] = ids[e]

\* Trails keep telling of the same rows as long as no created row leaves or changes its id.
LEMMA TrailGoesOn ==
  ASSUME ImportShape, \A e \in Entities : EntityGoesOn(e), NEW R, R \subseteq Rows
  PROVE  /\ Honest(R, ids) => Honest(R, ids')
         /\ StillFound(R, rec, ids) => StillFound(R, rec', ids')
<1>1. \A r \in R : r.entity \in Entities /\ r.id \in Nat
  BY DEF Rows
<1>2. \A e \in Entities : ids[e] \in Nat
  BY DEF ImportShape
<1>3. Honest(R, ids) => Honest(R, ids')
  BY <1>1, <1>2 DEF Honest, EntityGoesOn
<1>4. StillFound(R, rec, ids) => StillFound(R, rec', ids')
  BY <1>1 DEF StillFound, EntityGoesOn
<1> QED BY <1>3, <1>4

\* Trails have rows.
LEMMA TrailRows ==
  ASSUME ImportShape
  PROVE  /\ \A b \in Batches : RowsOf(b) \subseteq Rows /\ Active(b) \subseteq RowsOf(b)
         /\ FileRows \subseteq Rows
<1>1. ASSUME NEW b \in Batches PROVE RowsOf(b) \subseteq Rows /\ Active(b) \subseteq RowsOf(b)
  <2>1. batch[b].rows \in Seq(Rows)
    BY DEF ImportShape, BatchRows
  <2> QED BY <2>1, RowSetTyped, RowsOfIs DEF Active
<1>2. FileRows \subseteq Rows
  <2>1. file.rows \in Seq(Rows)
    BY DEF ImportShape
  <2> QED BY <2>1, RowSetTyped DEF FileRows
<1> QED BY <1>1, <1>2

\* All of them, if no trail changes.
LEMMA TrailsStay ==
  ASSUME ImportShape, TrailsHold, UNCHANGED batch, file'.rows = file.rows,
         \A e \in Entities : EntityGoesOn(e)
  PROVE  TrailsHold'
<1>1. /\ \A b \in Batches : RowsOf(b)' = RowsOf(b) /\ Active(b)' = Active(b)
      /\ FileRows' = FileRows
  BY DEF RowsOf, Active, FileRows
<1>2. ASSUME NEW b \in Batches
      PROVE  Honest(RowsOf(b), ids') /\ StillFound(Active(b), rec', ids')
  BY TrailGoesOn, TrailRows DEF TrailsHold
<1>3. Honest(FileRows, ids') /\ StillFound(FileRows, rec', ids')
  BY TrailGoesOn, TrailRows DEF TrailsHold
<1> QED BY <1>1, <1>2, <1>3 DEF TrailsHold

\* A rollback finds the same as long as the entities and its trail stay as they are.
LEMMA SafeStays ==
  ASSUME UNCHANGED <<rec, ids, onOrder, link>>, NEW b, batch'[b] = batch[b]
  PROVE  Safe(b)' = Safe(b) /\ Active(b)' = Active(b)
<1>1. RowsOf(b)' = RowsOf(b) /\ Active(b)' = Active(b)
  BY DEF RowsOf, Active
<1>2. \A R : Created(R)' = Created(R)
  BY DEF Created, Finds, There
<1>3. Created(Active(b))' = Created(Active(b))
  BY <1>1 DEF Created, Finds, There
<1>4. OwnLinks(b)' = OwnLinks(b)
  BY <1>3 DEF OwnLinks
<1>5. ForeignChildren(b)' = ForeignChildren(b)
  BY <1>3 DEF ForeignChildren, There
<1>6. Conflicts(b)' = Conflicts(b)
  BY <1>4, <1>5 DEF Conflicts
<1>7. \A e : RowOf(b, e)' = RowOf(b, e)
  BY <1>1 DEF RowOf
<1>8. \A e : CreatedHere(b, e)' = CreatedHere(b, e)
  BY <1>7 DEF CreatedHere
<1>9. Upwards(b, Conflicts(b))' = Upwards(b, Conflicts(b))
  BY <1>6, <1>8 DEF Upwards
<1>10. Safe(b)' = Safe(b)
  BY <1>1, <1>7, <1>9 DEF Safe, Finds, There
<1> QED BY <1>1, <1>10

\* The rollback under way stands if the batches are as they were, and it is known that
\* somebody wrote, or nobody did.
LEMMA BackStays ==
  ASSUME ImportShape, BackStands, UNCHANGED <<batch, back>>,
         \/ UNCHANGED <<rec, ids, onOrder, link, raced>>
         \/ raced' = (back # NoBack)
  PROVE  BackStands'
<1>1. CASE back.batch = 0
  BY <1>1 DEF BackStands, NoBack
<1>2. CASE back.batch # 0
  <2>1. /\ batch[back.batch].st \in {"committed", "rollback_partial"}
        /\ back.safe # {} /\ back.safe \subseteq Active(back.batch)
        /\ (~raced => back.safe = Safe(back.batch))
    BY <1>2 DEF BackStands
  <2>2. PICK b : b = back.batch
    OBVIOUS
  <2>3. Active(b)' = Active(b)
    BY DEF Active, RowsOf
  <2>4. ASSUME ~raced' PROVE back.safe = Safe(b)'
    <3>1. back # NoBack
      BY <1>2 DEF NoBack
    <3>2. ~raced /\ UNCHANGED <<rec, ids, onOrder, link>>
      <4>1. CASE raced' = (back # NoBack)
        <5>1. raced' = TRUE
          BY <3>1, <4>1
        <5> QED BY <2>4, <5>1
      <4>2. CASE UNCHANGED <<rec, ids, onOrder, link, raced>>
        BY <2>4, <4>2
      <4> QED BY <4>1, <4>2
    <3> QED BY <2>1, <2>2, <3>2, SafeStays
  <2>5. back.safe \subseteq Active(b)'
    BY <2>1, <2>2, <2>3
  <2>6. /\ back' = back /\ back.batch # 0 /\ b = back'.batch
        /\ batch'[b].st \in {"committed", "rollback_partial"}
    BY <1>2, <2>1, <2>2
  <2>7. /\ (~raced' => back'.safe = Safe(b)') /\ back'.safe \subseteq Active(b)'
        /\ back'.safe # {}
    BY <2>1, <2>4, <2>5
  <2> QED BY <2>6, <2>7 DEF BackStands
<1> QED BY <1>1, <1>2

\* The others write: the file under way is no longer alone.
LEMMA OthersStep ==
  ASSUME ImportShape, ImportInv, OtherWrites, UNCHANGED <<batch, back, died, imported, history>>,
         rec' \in [Entities -> 0..MaxValue], UNCHANGED <<ids, onOrder>>,
         link' \in [Entities -> Links], rest' \in [Entities -> 0..MaxBatches],
         \A e \in Entities : /\ rec[e] # 0 => rec'[e] # 0
                             /\ link'[e] # "no" => rec'[e] # 0
  PROVE  ImportShape' /\ ImportInv'
<1>1. /\ file' = IF file = NoFile THEN file ELSE [file EXCEPT !.alone = FALSE]
      /\ others < MaxOthers /\ others' = others + 1 /\ raced' = (back # NoBack)
  BY DEF OtherWrites, Races
<1>2. /\ file' \in [batch : 0..MaxBatches, rows : Seq(Rows), alone : BOOLEAN]
      /\ file'.batch = file.batch /\ file'.rows = file.rows
      /\ (file.batch = 0 => file' = file)
      /\ (file.batch # 0 => ~file'.alone)
  <2>1. CASE file = NoFile
    BY <1>1, <2>1 DEF ImportShape, NoFile
  <2>2. CASE file # NoFile
    <3>1. PICK f : f = [file EXCEPT !.alone = FALSE]
      OBVIOUS
    <3>2. file \in [batch : 0..MaxBatches, rows : Seq(Rows), alone : BOOLEAN]
      BY DEF ImportShape
    <3>3. f \in [batch : 0..MaxBatches, rows : Seq(Rows), alone : BOOLEAN]
      BY <3>1, <3>2
    <3>4. f.batch = file.batch /\ f.rows = file.rows /\ f.alone = FALSE
      BY <3>1, <3>2
    <3>5. file' = f /\ file.batch # 0
      BY <1>1, <2>2, <3>1 DEF ImportInv, FileStands
    <3> QED BY <3>3, <3>4, <3>5
  <2> QED BY <2>1, <2>2
<1>3. ImportShape'
  <2>1. others' \in 0..MaxOthers /\ raced' \in BOOLEAN
    BY <1>1, ImportAssumption DEF ImportAssumption, ImportShape
  <2> QED BY <1>2, <2>1 DEF ImportShape, history
<1>4. \A e \in Entities : EntityGoesOn(e)
  BY DEF EntityGoesOn, ImportShape
<1>5. TrailsHold'
  BY <1>2, <1>4, TrailsStay DEF ImportInv
<1>6. BackStands'
  BY <1>1, BackStays DEF ImportInv
<1>7. FileStands' /\ FileTells'
  BY <1>2 DEF ImportInv, FileStands, FileTells
<1>8. LinksHold'
  BY DEF ImportInv, LinksHold, There, Entities
<1>9. \A b \in Batches : Stands(b)' /\ BatchTells(b)'
  BY DEF ImportInv, Stands, BatchTells, RowsOf, history
<1> QED BY <1>3, <1>5, <1>6, <1>7, <1>8, <1>9 DEF ImportInv

\* The exchange updates a row.
LEMMA PullRecordStep ==
  ASSUME ImportShape, ImportInv, NEW e \in Entities, NEW v \in 1..MaxValue, PullRecord(e, v)
  PROVE  ImportShape' /\ ImportInv'
<1>1. /\ rec[e] # 0 /\ rec' = [rec EXCEPT ![e] = v] /\ OtherWrites
      /\ UNCHANGED <<ids, onOrder, link, batch, back, died, imported, history>>
  BY DEF PullRecord, There
<1>2. v \in 0..MaxValue /\ v # 0 /\ rec \in [Entities -> 0..MaxValue]
  BY ImportAssumption DEF ImportAssumption, ImportShape
<1>3. /\ rec' \in [Entities -> 0..MaxValue] /\ rec'[e] = v
      /\ \A x \in Entities : x # e => rec'[x] = rec[x]
  BY <1>1, <1>2
<1>4. \A x \in Entities : link[x] # "no" => rec[x] # 0
  BY DEF ImportInv, LinksHold, There
<1>5. link' \in [Entities -> Links] /\ rest' \in [Entities -> 0..MaxBatches]
  <2>1. rest' = [rest EXCEPT ![e] = 0]
    BY DEF PullRecord
  <2> QED BY <1>1, <2>1, ImportAssumption DEF ImportAssumption, ImportShape
<1>6. \A x \in Entities : /\ rec[x] # 0 => rec'[x] # 0
                          /\ link'[x] # "no" => rec'[x] # 0
  BY <1>1, <1>2, <1>3, <1>4
<1> QED BY <1>1, <1>3, <1>5, <1>6, OthersStep

\* A link from outside.
LEMMA AttachStep ==
  ASSUME ImportShape, ImportInv, NEW e \in Entities, NEW how \in Links,
         Attach(e, how)
  PROVE  ImportShape' /\ ImportInv'
<1>1. /\ rec[e] # 0 /\ link' = [link EXCEPT ![e] = how] /\ OtherWrites
      /\ UNCHANGED <<rec, rest, ids, onOrder, batch, back, died, imported, history>>
  BY DEF Attach, There
<1>2. \A x \in Entities : link[x] # "no" => rec[x] # 0
  BY DEF ImportInv, LinksHold, There
<1>3. /\ link' \in [Entities -> Links] /\ rec' \in [Entities -> 0..MaxValue]
      /\ rest' \in [Entities -> 0..MaxBatches]
  BY <1>1 DEF ImportShape
<1>4. \A x \in Entities : /\ rec[x] # 0 => rec'[x] # 0
                          /\ link'[x] # "no" => rec'[x] # 0
  BY <1>1, <1>2 DEF ImportShape
<1> QED BY <1>1, <1>3, <1>4, OthersStep

\* An import begins.
LEMMA StartImportStep ==
  ASSUME ImportShape, ImportInv, NEW b \in Batches, StartImport(b)
  PROVE  ImportShape' /\ ImportInv'
<1>1. /\ file = NoFile /\ batch[b].st = "none" /\ file' = [NoFile EXCEPT !.batch = b]
      /\ before' = [before EXCEPT ![b] = rec]
      /\ UNCHANGED <<rec, rest, ids, onOrder, link, batch, back, raced, died, imported, others, after>>
  BY DEF StartImport, data, bounds
<1>2. b \in 0..MaxBatches /\ b # 0
  BY ImportAssumption DEF Batches, ImportAssumption
<1>3. file' = [batch |-> b, rows |-> <<>>, alone |-> TRUE]
  BY <1>1 DEF NoFile
<1>4. /\ file' \in [batch : 0..MaxBatches, rows : Seq(Rows), alone : BOOLEAN]
      /\ file'.batch = b /\ file'.rows = <<>> /\ file.rows = <<>>
  BY <1>1, <1>2, <1>3, RowSetOfNone DEF NoFile
<1>5. before' \in [Batches -> [Entities -> 0..MaxValue] \cup {Unknown}]
  BY <1>1 DEF ImportShape
<1>6. ImportShape'
  BY <1>1, <1>4, <1>5 DEF ImportShape
<1>7. TrailsHold'
  <2>1. \A e \in Entities : EntityGoesOn(e)
    BY <1>1 DEF EntityGoesOn, ImportShape
  <2> QED BY <1>1, <1>4, <2>1, TrailsStay DEF ImportInv
<1>8. BackStands'
  BY <1>1, BackStays DEF ImportInv
<1>9. FileStands'
  BY <1>1, <1>2, <1>4 DEF FileStands
<1>10. FileTells'
  <2>1. FileRows' = {}
    BY <1>4, RowSetOfNone DEF FileRows
  <2>2. Tells({}, rec, rec)
    BY DEF Tells
  <2>3. before'[file'.batch] = rec /\ rec' = rec
    BY <1>1, <1>4 DEF ImportShape
  <2> QED BY <2>1, <2>2, <2>3 DEF FileTells
<1>11. LinksHold'
  BY <1>1 DEF ImportInv, LinksHold, There
<1>12. ASSUME NEW c \in Batches PROVE Stands(c)' /\ BatchTells(c)'
  <2>1. Stands(c) /\ BatchTells(c)
    BY DEF ImportInv
  <2>2. RowsOf(c)' = RowsOf(c)
    BY <1>1 DEF RowsOf
  <2>3. Stands(c)'
    BY <1>1, <2>1, <2>2 DEF Stands
  <2>4. CASE c = b
    BY <1>1, <2>1, <2>4 DEF BatchTells, Stands
  <2>5. CASE c # b
    <3>1. before'[c] = before[c] /\ after'[c] = after[c] /\ batch'[c] = batch[c]
      BY <1>1, <2>5 DEF ImportShape
    <3> QED BY <2>1, <2>2, <2>3, <3>1 DEF BatchTells
  <2> QED BY <2>3, <2>4, <2>5
<1> QED BY <1>6, <1>7, <1>8, <1>9, <1>10, <1>11, <1>12 DEF ImportInv

\* A rollback looks.
LEMMA RollbackReadsStep ==
  ASSUME ImportShape, ImportInv, NEW b \in Batches, NEW partial, RollbackReads(b, partial)
  PROVE  ImportShape' /\ ImportInv'
<1>1. /\ back = NoBack /\ batch[b].st \in {"committed", "rollback_partial"}
      /\ Safe(b) # {} /\ back' = [batch |-> b, safe |-> Safe(b)] /\ raced' = FALSE
      /\ UNCHANGED <<rec, rest, ids, onOrder, link, batch, file, died, imported, others, before, after>>
  BY DEF RollbackReads, data, imports, bounds, history
<1>2. b \in 0..MaxBatches /\ b # 0
  BY ImportAssumption DEF Batches, ImportAssumption
<1>3. Safe(b) \subseteq Active(b) /\ Active(b) \subseteq Rows
  <2>1. Safe(b) \subseteq Active(b)
    BY DEF Safe
  <2> QED BY <2>1, TrailRows
<1>4. ImportShape'
  BY <1>1, <1>2, <1>3 DEF ImportShape
<1>5. TrailsHold'
  <2>1. \A e \in Entities : EntityGoesOn(e)
    BY <1>1 DEF EntityGoesOn, ImportShape
  <2> QED BY <1>1, <2>1, TrailsStay DEF ImportInv
<1>6. BackStands'
  <2>1. Safe(b)' = Safe(b) /\ Active(b)' = Active(b)
    BY <1>1, SafeStays
  <2>2. back'.batch = b /\ back'.safe = Safe(b) /\ batch'[b].st = batch[b].st
    BY <1>1
  <2> QED BY <1>1, <1>2, <1>3, <2>1, <2>2 DEF BackStands
<1>7. FileStands' /\ FileTells' /\ LinksHold'
  BY <1>1 DEF ImportInv, FileStands, FileTells, LinksHold, There, FileRows
<1>8. \A c \in Batches : Stands(c)' /\ BatchTells(c)'
  BY <1>1 DEF ImportInv, Stands, BatchTells, RowsOf
<1> QED BY <1>4, <1>5, <1>6, <1>7, <1>8 DEF ImportInv

\* Nothing refuses a rollback that has seen all, of a file that named nothing twice.
LEMMA NotRefused ==
  ASSUME ImportShape, ImportInv, back # NoBack, ~raced, ~Repeats(back.batch)
  PROVE  ~Refused
<1>1. /\ back.batch \in Batches /\ back.safe = Safe(back.batch)
  BY ImportAssumption DEF ImportInv, BackStands, NoBack, ImportShape, Batches, ImportAssumption
<1> DEFINE gone == Created(back.safe)
<1>2. /\ \A e \in gone : link[e] \notin Counted
      /\ "organization" \in gone => \A c \in {"order", "payment"} : There(c) => c \in gone
      /\ \A r \in back.safe : r.action = "updated" => Finds(r) /\ r.entity \notin gone
  BY <1>1, SafeTakes
<1> HIDE DEF gone
<1>3. Refused <=> \/ \E e \in gone : link[e] = "held"
                  \/ "organization" \in gone /\ \E c \in {"order", "payment"} \ gone : There(c)
                  \/ \E r \in back.safe : r.action = "updated" /\ (~Finds(r) \/ r.entity \in gone)
  BY DEF Refused, gone
<1> QED BY <1>2, <1>3 DEF Counted

\* A rollback the database refuses: it has been raced, or the file repeats itself.
LEMMA RollbackAbortsStep ==
  ASSUME ImportShape, ImportInv, RollbackAborts
  PROVE  ImportShape' /\ ImportInv'
<1>1. /\ back # NoBack /\ Refused /\ back' = NoBack /\ raced' = FALSE
      /\ died' = IF raced THEN "raced" ELSE IF Repeats(back.batch) THEN "repeats" ELSE "alone"
      /\ UNCHANGED <<rec, rest, ids, onOrder, link, batch, file, imported, others, before, after>>
  BY DEF RollbackAborts, data, imports, bounds, history
<1>2. died' \in {"no", "raced", "repeats"}
  BY <1>1, NotRefused
<1>3. NoBack \in [batch : 0..MaxBatches, safe : SUBSET Rows]
  BY ImportAssumption DEF NoBack, ImportAssumption
<1>4. ImportShape'
  BY <1>1, <1>2, <1>3 DEF ImportShape
<1>5. TrailsHold'
  <2>1. \A e \in Entities : EntityGoesOn(e)
    BY <1>1 DEF EntityGoesOn, ImportShape
  <2> QED BY <1>1, <2>1, TrailsStay DEF ImportInv
<1>6. BackStands'
  BY <1>1 DEF BackStands, NoBack
<1>7. FileStands' /\ FileTells' /\ LinksHold'
  BY <1>1 DEF ImportInv, FileStands, FileTells, LinksHold, There, FileRows
<1>8. \A c \in Batches : Stands(c)' /\ BatchTells(c)'
  BY <1>1 DEF ImportInv, Stands, BatchTells, RowsOf
<1> QED BY <1>4, <1>5, <1>6, <1>7, <1>8 DEF ImportInv

\* An import ends, with its trail or without.
LEMMA EndImportStep ==
  ASSUME ImportShape, ImportInv, EndImport
  PROVE  ImportShape' /\ ImportInv'
<1>0. PICK b, rows :
        /\ b = file.batch /\ rows \in {file.rows, <<>>} /\ file # NoFile /\ file' = NoFile
        /\ batch' = [batch EXCEPT ![b] = [st |-> "committed", rows |-> rows, reverted |-> {}]]
        /\ after' = [after EXCEPT ![b] = IF file.alone THEN rec ELSE Unknown]
        /\ UNCHANGED <<rec, rest, ids, onOrder, link, back, raced, died, imported, others, before>>
  BY DEF EndImport, data, bounds
<1>1. /\ b \in Batches /\ batch[b].st = "none" /\ batch[b].rows = <<>> /\ RowsOf(b) = {}
      /\ b # 0
  <2>1. b \in Batches /\ batch[b].st = "none" /\ b # 0
    BY <1>0, ImportAssumption
    DEF ImportInv, FileStands, ImportShape, Batches, ImportAssumption
  <2>2. batch[b].rows = <<>>
    BY <2>1 DEF ImportInv, Stands
  <2> QED BY <2>1, <2>2, RowSetOfNone, RowsOfIs
<1>2. /\ rows \in Seq(Rows) /\ RowSet(rows) \subseteq FileRows
      /\ rows # <<>> => RowSet(rows) = FileRows
  BY <1>0, RowSetOfNone DEF ImportShape, FileRows
<1>3. PICK new : new = [st |-> "committed", rows |-> rows, reverted |-> {}]
  OBVIOUS
<1>4. /\ new \in BatchRows /\ new.st = "committed" /\ new.rows = rows /\ new.reverted = {}
      /\ batch' = [batch EXCEPT ![b] = new]
  BY <1>0, <1>2, <1>3 DEF BatchRows
<1>5. /\ batch'[b] = new
      /\ \A c \in Batches : c # b => batch'[c] = batch[c] /\ after'[c] = after[c]
      /\ after'[b] = IF file.alone THEN rec ELSE Unknown
      /\ batch' \in [Batches -> BatchRows]
      /\ after' \in [Batches -> [Entities -> 0..MaxValue] \cup {Unknown}]
  <2>1. PICK known : known = IF file.alone THEN rec ELSE Unknown
    OBVIOUS
  <2>2. known \in [Entities -> 0..MaxValue] \cup {Unknown}
    BY <2>1 DEF ImportShape
  <2>3. after' = [after EXCEPT ![b] = known]
    BY <1>0, <2>1
  <2>4. /\ batch'[b] = new /\ batch' \in [Batches -> BatchRows]
        /\ \A c \in Batches : c # b => batch'[c] = batch[c]
    BY <1>1, <1>4 DEF ImportShape
  <2>5. /\ after'[b] = known
        /\ after' \in [Batches -> [Entities -> 0..MaxValue] \cup {Unknown}]
        /\ \A c \in Batches : c # b => after'[c] = after[c]
    BY <1>1, <2>2, <2>3 DEF ImportShape
  <2> QED BY <2>1, <2>4, <2>5
<1>6. NoFile \in [batch : 0..MaxBatches, rows : Seq(Rows), alone : BOOLEAN]
  BY RowSetOfNone, ImportAssumption DEF NoFile, ImportAssumption
<1>7. ImportShape'
  BY <1>0, <1>5, <1>6 DEF ImportShape
<1>8. /\ RowsOf(b)' = RowSet(rows) /\ Active(b)' = RowSet(rows)
      /\ \A c \in Batches : c # b => RowsOf(c)' = RowsOf(c) /\ Active(c)' = Active(c)
      /\ FileRows' = {}
  <2>1. RowsOf(b)' = RowSet(rows)
    BY <1>4, <1>5 DEF RowsOf, RowSet
  <2>2. Active(b)' = RowSet(rows)
    BY <1>4, <1>5, <2>1 DEF Active
  <2>3. ASSUME NEW c \in Batches, c # b PROVE RowsOf(c)' = RowsOf(c) /\ Active(c)' = Active(c)
    BY <1>5, <2>3 DEF RowsOf, Active
  <2>4. FileRows' = {}
    BY <1>0, RowSetOfNone DEF FileRows, NoFile
  <2> QED BY <2>1, <2>2, <2>3, <2>4
<1>9. TrailsHold'
  <2>1. /\ Honest(RowSet(rows), ids) /\ StillFound(RowSet(rows), rec, ids)
        /\ \A c \in Batches : Apart(RowsOf(c), RowSet(rows)) /\ Apart(RowSet(rows), RowsOf(c))
    BY <1>2 DEF ImportInv, TrailsHold, Honest, StillFound, Apart
  <2>2. ASSUME NEW c \in Batches
        PROVE  /\ Honest(RowsOf(c)', ids) /\ StillFound(Active(c)', rec, ids)
               /\ Apart(RowsOf(c)', FileRows')
    <3>1. Apart(RowsOf(c)', {})
      BY DEF Apart
    <3>2. CASE c = b
      BY <1>8, <2>1, <3>1, <3>2
    <3>3. CASE c # b
      BY <1>8, <3>1, <3>3 DEF ImportInv, TrailsHold
    <3> QED BY <3>2, <3>3
  <2>3. Honest(FileRows', ids) /\ StillFound(FileRows', rec, ids)
    BY <1>8 DEF Honest, StillFound
  <2>4. ASSUME NEW c \in Batches, NEW d \in Batches, c # d PROVE Apart(RowsOf(c)', RowsOf(d)')
    <3>1. CASE c = b
      BY <1>8, <2>1, <2>4, <3>1
    <3>2. CASE d = b
      BY <1>8, <2>1, <2>4, <3>2
    <3>3. CASE c # b /\ d # b
      BY <1>8, <2>4, <3>3 DEF ImportInv, TrailsHold
    <3> QED BY <3>1, <3>2, <3>3
  <2> QED BY <1>0, <2>2, <2>3, <2>4 DEF TrailsHold
<1>10. BackStands'
  <2>1. CASE back.batch = 0
    BY <1>0, <2>1 DEF ImportInv, BackStands
  <2>2. CASE back.batch # 0
    <3>1. PICK c : c = back.batch
      OBVIOUS
    <3>2. c \in Batches /\ c # b /\ c # 0
      BY <1>1, <2>2, <3>1, ImportAssumption
      DEF ImportInv, BackStands, ImportShape, Batches, ImportAssumption
    <3>3. Safe(c)' = Safe(c) /\ Active(c)' = Active(c) /\ batch'[c] = batch[c]
      BY <1>0, <1>5, <3>2, SafeStays
    <3>4. /\ batch[c].st \in {"committed", "rollback_partial"}
          /\ back.safe # {} /\ back.safe \subseteq Active(c)
          /\ (~raced => back.safe = Safe(c))
      BY <3>1, <3>2 DEF ImportInv, BackStands
    <3>5. back' = back /\ raced' = raced /\ back'.batch = c
      BY <1>0, <3>1
    <3> QED BY <3>2, <3>3, <3>4, <3>5 DEF BackStands
  <2> QED BY <2>1, <2>2
<1>11. FileStands' /\ FileTells'
  BY <1>0 DEF FileStands, FileTells, NoFile
<1>12. LinksHold'
  BY <1>0 DEF ImportInv, LinksHold, There
<1>13. ASSUME NEW c \in Batches PROVE Stands(c)' /\ BatchTells(c)'
  <2>1. CASE c = b
    <3>1. Stands(c)'
      BY <1>4, <1>5, <1>8, <2>1 DEF Stands
    <3>2. ASSUME after'[b] # Unknown, rows # <<>>, ~Doubled(RowSet(rows))
          PROVE  Tells(RowSet(rows), before[b], after'[b])
      <4>1. file.alone /\ after'[b] = rec
        BY <1>5, <3>2
      <4> QED BY <1>0, <1>1, <1>2, <3>2, <4>1 DEF ImportInv, FileTells
    <3> QED BY <1>0, <1>4, <1>5, <1>8, <2>1, <3>1, <3>2 DEF BatchTells
  <2>2. CASE c # b
    BY <1>0, <1>5, <1>8, <2>2 DEF ImportInv, Stands, BatchTells
  <2> QED BY <2>1, <2>2
<1> QED BY <1>7, <1>9, <1>10, <1>11, <1>12, <1>13 DEF ImportInv

\* The trail of one more record.
LEMMA ImportRecordStep ==
  ASSUME ImportShape, ImportInv, NEW e \in Entities, NEW v \in 1..MaxValue, ImportRecord(e, v)
  PROVE  ImportShape' /\ ImportInv'
<1>0. PICK row : row = TrailOf(e)
  OBVIOUS
<1>1. /\ file # NoFile /\ imported < MaxRecords /\ imported' = imported + 1
      /\ e # "organization" => rec["organization"] # 0
      /\ rec' = [rec EXCEPT ![e] = v]
      /\ ids' = [ids EXCEPT ![e] = IF rec[e] # 0 THEN @ ELSE @ + 1]
      /\ onOrder' \in IF e = "payment" /\ rec[e] = 0 THEN {FALSE, rec["order"] # 0} ELSE {onOrder}
      /\ file' = [file EXCEPT !.rows = Append(@, row)]
      /\ raced' = (back # NoBack)
      /\ UNCHANGED <<link, batch, back, died, others, before, after>>
  BY <1>0 DEF ImportRecord, Upsert, There, Races, history
<1>2. v \in 0..MaxValue /\ v # 0
  BY ImportAssumption DEF ImportAssumption
<1>3. /\ rec' \in [Entities -> 0..MaxValue] /\ rec'[e] = v
      /\ \A x \in Entities : x # e => rec'[x] = rec[x]
      /\ rest' \in [Entities -> 0..MaxBatches]
  <2>1. rest' = [rest EXCEPT ![e] = file.batch] /\ file.batch \in 0..MaxBatches
    BY DEF ImportRecord, Upsert, ImportShape
  <2> QED BY <1>1, <1>2, <2>1 DEF ImportShape
<1>4. /\ ids' \in [Entities -> Nat]
      /\ ids'[e] = IF rec[e] # 0 THEN ids[e] ELSE ids[e] + 1
      /\ \A x \in Entities : x # e => ids'[x] = ids[x]
  BY <1>1 DEF ImportShape
<1>5. /\ row \in Rows /\ row.entity = e /\ row.id = ids'[e] /\ row.was = rec[e]
      /\ row.action = IF rec[e] # 0 THEN "updated" ELSE "created"
  <2>1. row = [entity |-> e, id |-> ids'[e],
               action |-> IF rec[e] # 0 THEN "updated" ELSE "created", was |-> rec[e]]
    BY <1>0 DEF TrailOf, There
  <2>2. ids'[e] \in Nat /\ rec[e] \in 0..MaxValue
    BY <1>4 DEF ImportShape
  <2> QED BY <2>1, <2>2 DEF Rows
<1>6. onOrder' \in BOOLEAN
  BY <1>1 DEF ImportShape
<1>7. /\ file' \in [batch : 0..MaxBatches, rows : Seq(Rows), alone : BOOLEAN]
      /\ file'.batch = file.batch /\ file'.alone = file.alone
      /\ file'.rows = Append(file.rows, row) /\ file.batch # 0
  <2>1. file \in [batch : 0..MaxBatches, rows : Seq(Rows), alone : BOOLEAN]
    BY DEF ImportShape
  <2>2. Append(file.rows, row) \in Seq(Rows)
    BY <1>5, <2>1
  <2>3. PICK f : f = [file EXCEPT !.rows = Append(@, row)]
    OBVIOUS
  <2>4. f.batch = file.batch /\ f.alone = file.alone /\ f.rows = Append(file.rows, row)
    BY <2>1, <2>3
  <2>5. f \in [batch : 0..MaxBatches, rows : Seq(Rows), alone : BOOLEAN]
    BY <2>1, <2>2, <2>3
  <2>6. file.batch # 0
    BY <1>1 DEF ImportInv, FileStands
  <2> QED BY <1>1, <2>3, <2>4, <2>5, <2>6
<1>8. FileRows' = FileRows \cup {row}
  <2>1. file.rows \in Seq(Rows)
    BY DEF ImportShape
  <2> QED BY <1>5, <1>7, <2>1, RowSetOfAppend DEF FileRows
<1>9. ImportShape'
  <2>1. imported' \in 0..MaxRecords /\ raced' \in BOOLEAN
    BY <1>1, ImportAssumption DEF ImportAssumption, ImportShape
  <2> QED BY <1>1, <1>3, <1>4, <1>6, <1>7, <2>1 DEF ImportShape
<1>10. \A x \in Entities : EntityGoesOn(x)
  <2>1. ids \in [Entities -> Nat]
    BY DEF ImportShape
  <2> QED BY <1>2, <1>3, <1>4, <2>1 DEF EntityGoesOn
<1>11. /\ Honest({row}, ids') /\ StillFound({row}, rec', ids')
       /\ \A b \in Batches : Apart(RowsOf(b), {row})
  <2>1. ids'[e] \in Nat
    BY <1>4
  <2>2. Honest({row}, ids')
    BY <1>5, <2>1 DEF Honest
  <2>3. StillFound({row}, rec', ids')
    BY <1>2, <1>3, <1>5 DEF StillFound
  <2>4. ASSUME NEW b \in Batches, NEW r \in RowsOf(b), r.action = "created", r.entity = e,
               row.action = "created"
        PROVE  r.id # row.id
    <3>1. r.id <= ids[e] /\ r.id \in Nat /\ ids[e] \in Nat
      BY <2>4, TrailRows DEF ImportInv, TrailsHold, Honest, ImportShape, Rows
    <3>2. row.id = ids[e] + 1
      BY <1>4, <1>5, <2>4
    <3> QED BY <3>1, <3>2
  <2> QED BY <1>5, <2>2, <2>3, <2>4 DEF Apart
<1>12. TrailsHold'
  <2>1. /\ \A b \in Batches : RowsOf(b)' = RowsOf(b) /\ Active(b)' = Active(b)
    BY <1>1 DEF RowsOf, Active
  <2>2. ASSUME NEW b \in Batches
        PROVE  Honest(RowsOf(b), ids') /\ StillFound(Active(b), rec', ids')
    BY <1>10, TrailGoesOn, TrailRows DEF ImportInv, TrailsHold
  <2>3. Honest(FileRows, ids') /\ StillFound(FileRows, rec', ids')
    BY <1>10, TrailGoesOn, TrailRows DEF ImportInv, TrailsHold
  <2>4. Honest(FileRows', ids') /\ StillFound(FileRows', rec', ids')
    BY <1>8, <1>11, <2>3 DEF Honest, StillFound
  <2>5. \A b \in Batches : Apart(RowsOf(b), FileRows')
    BY <1>8, <1>11 DEF Apart, ImportInv, TrailsHold
  <2> QED BY <2>1, <2>2, <2>4, <2>5 DEF ImportInv, TrailsHold
<1>13. BackStands'
  BY <1>1, BackStays DEF ImportInv
<1>14. FileStands'
  BY <1>1, <1>7 DEF ImportInv, FileStands
\* The first row of an entity tells what it was before the import; one more is the same row.
<1>15. FileTells'
  <2>1. SUFFICES ASSUME file.alone, ~Doubled(FileRows')
                 PROVE  Tells(FileRows', before[file.batch], rec')
    BY <1>1, <1>7 DEF FileTells
  <2>2. Tells(FileRows, before[file.batch], rec)
    BY <1>7, <1>8, <2>1 DEF ImportInv, FileTells, Doubled
  <2>3. row.was = before[file.batch][e]
    <3>1. CASE HasRow(FileRows, e)
      <4>1. PICK r \in FileRows : r.entity = e
        BY <3>1 DEF HasRow
      <4>2. r = row
        BY <1>5, <1>8, <2>1, <4>1 DEF Doubled
      <4> QED BY <2>2, <4>1, <4>2 DEF Tells
    <3>2. CASE ~HasRow(FileRows, e)
      BY <1>5, <2>2, <3>2 DEF Tells
    <3> QED BY <3>1, <3>2
  <2>4. \A r \in FileRows' : r.was = before[file.batch][r.entity]
    BY <1>5, <1>8, <2>2, <2>3 DEF Tells
  <2>5. ASSUME NEW x \in Entities
        PROVE  HasRow(FileRows', x) \/ rec'[x] = before[file.batch][x]
    <3>1. CASE x = e
      BY <1>5, <1>8, <3>1 DEF HasRow
    <3>2. CASE x # e
      <4>1. HasRow(FileRows, x) \/ rec[x] = before[file.batch][x]
        BY <2>2 DEF Tells
      <4> QED BY <1>3, <1>8, <3>2, <4>1 DEF HasRow
    <3> QED BY <3>1, <3>2
  <2> QED BY <2>4, <2>5 DEF Tells
<1>16. LinksHold'
  <2>1. \A x \in Entities : rec[x] # 0 => rec'[x] # 0
    BY <1>10 DEF EntityGoesOn
  <2>2. ASSUME onOrder' PROVE rec'["payment"] # 0 /\ rec'["order"] # 0
    <3>1. CASE e = "payment" /\ rec[e] = 0
      <4>1. rec["order"] # 0
        BY <1>1, <2>2, <3>1
      <4> QED BY <1>2, <1>3, <2>1, <3>1, <4>1 DEF Entities
    <3>2. CASE ~(e = "payment" /\ rec[e] = 0)
      <4>1. onOrder
        BY <1>1, <2>2, <3>2
      <4> QED BY <2>1, <4>1 DEF ImportInv, LinksHold, There, Entities
    <3> QED BY <3>1, <3>2
  <2> QED BY <1>1, <2>1, <2>2 DEF ImportInv, LinksHold, There
<1>17. \A c \in Batches : Stands(c)' /\ BatchTells(c)'
  <2>1. batch' = batch /\ before' = before /\ after' = after
    BY <1>1
  <2>2. \A c : RowsOf(c)' = RowsOf(c)
    BY <2>1 DEF RowsOf
  <2>3. \A c \in Batches : Stands(c)'
    BY <2>1, <2>2 DEF ImportInv, Stands
  <2>4. \A c \in Batches : BatchTells(c)'
    BY <2>1, <2>2 DEF ImportInv, BatchTells
  <2> QED BY <2>3, <2>4
<1> QED BY <1>9, <1>12, <1>13, <1>14, <1>15, <1>16, <1>17 DEF ImportInv

\* What a restored entity becomes is what one of the rows says it was.
LEMMA RestoredIs ==
  ASSUME ImportShape, ImportInv, back # NoBack, NEW e \in Updated(back.safe)
  PROVE  \E r \in back.safe : /\ r.action = "updated" /\ r.entity = e /\ Finds(r)
                              /\ \E s \in back.safe : /\ s.action = "updated" /\ s.entity = e
                                                      /\ Restored(e) = s.was
<1>1. back.batch \in Batches /\ back.safe \subseteq RowsOf(back.batch)
  BY ImportAssumption
  DEF ImportInv, BackStands, NoBack, ImportShape, Batches, ImportAssumption, Active
<1>2. PICK r \in back.safe : r.action = "updated" /\ r.entity = e /\ Finds(r)
  BY DEF Updated
<1> DEFINE rows == batch[back.batch].rows
           of == {i \in 1..Len(rows) : rows[i] \in back.safe /\ rows[i].action = "updated"
                                         /\ rows[i].entity = e}
           last == CHOOSE i \in of : \A k \in of : k <= i
<1>3. Len(rows) \in Nat
  BY <1>1 DEF ImportShape, BatchRows
<1>4. of # {} /\ of \subseteq 1..Len(rows)
  BY <1>1, <1>2 DEF RowsOf
<1>5. \E i \in of : \A k \in of : k <= i
  <2> HIDE DEF of, rows
  <2> QED BY <1>3, <1>4, LastNumber
<1>6. last \in of
  <2> HIDE DEF of
  <2> QED BY <1>5
<1>7. Restored(e) = rows[last].was
  BY DEF Restored
<1>8. /\ rows[last] \in back.safe /\ rows[last].action = "updated" /\ rows[last].entity = e
  <2> HIDE DEF last
  <2> QED BY <1>6
<1> HIDE DEF rows, last, of
<1> QED BY <1>2, <1>7, <1>8

\* What a commit does to each entity.
LEMMA CommitDoes ==
  ASSUME ImportShape, ImportInv, RollbackCommits
  PROVE  LET gone == Created(back.safe) IN
         /\ back.batch \in Batches /\ back.batch # 0 /\ back.safe \subseteq Active(back.batch)
         /\ \A r \in back.safe : r.action = "updated" => Finds(r) /\ r.entity \notin gone
         /\ \A e \in gone : \E r \in back.safe :
              r.action = "created" /\ r.entity = e /\ rec[e] # 0 /\ ids[e] = r.id
         /\ \A e \in Entities : e \in gone => rec'[e] = 0
         /\ \A e \in Entities : e \in Updated(back.safe) =>
              /\ e \notin gone
              /\ \E s \in back.safe : s.action = "updated" /\ s.entity = e /\ rec'[e] = s.was
         /\ \A e \in Entities : e \notin gone /\ e \notin Updated(back.safe) => rec'[e] = rec[e]
         /\ DOMAIN rec' = Entities
<1> DEFINE gone == Created(back.safe)
<1>1. back.batch \in Batches /\ back.batch # 0 /\ back.safe \subseteq Active(back.batch)
  BY ImportAssumption
  DEF RollbackCommits, ImportInv, BackStands, NoBack, ImportShape, Batches, ImportAssumption
<1>2. \A r \in back.safe : r.action = "updated" => Finds(r) /\ r.entity \notin gone
  BY DEF RollbackCommits, Refused
<1>3. \A e \in gone : \E r \in back.safe :
        r.action = "created" /\ r.entity = e /\ rec[e] # 0 /\ ids[e] = r.id
  BY DEF Created, Finds, There
<1>4. rec' = [e \in Entities |-> CASE e \in gone -> 0
                                   [] e \in Updated(back.safe) -> Restored(e)
                                   [] OTHER -> rec[e]]
  BY DEF RollbackCommits
<1>5. ASSUME NEW e \in Updated(back.safe)
      PROVE  /\ e \notin gone
             /\ \E s \in back.safe : s.action = "updated" /\ s.entity = e /\ Restored(e) = s.was
  <2>1. back # NoBack
    BY DEF RollbackCommits
  <2> HIDE DEF gone
  <2> QED BY <1>2, <2>1, RestoredIs
<1> HIDE DEF gone
<1>6. DOMAIN rec' = Entities /\ \A e \in Entities : e \in gone => rec'[e] = 0
  BY <1>4, <1>5
<1>7. ASSUME NEW e \in Entities, e \in Updated(back.safe)
      PROVE  /\ e \notin gone
             /\ \E s \in back.safe : s.action = "updated" /\ s.entity = e /\ rec'[e] = s.was
  <2>1. e \notin gone
    BY <1>5, <1>7
  <2>2. rec'[e] = Restored(e)
    BY <1>4, <1>7, <2>1
  <2> QED BY <1>5, <1>7, <2>1, <2>2
<1>8. \A e \in Entities : e \notin gone /\ e \notin Updated(back.safe) => rec'[e] = rec[e]
  BY <1>4
<1> QED BY <1>1, <1>2, <1>3, <1>6, <1>7, <1>8 DEF gone

\* A rollback commits: what it created is gone, what it updated is what it was.
LEMMA RollbackCommitsStep ==
  ASSUME ImportShape, ImportInv, RollbackCommits
  PROVE  ImportShape' /\ ImportInv'
<1>0. PICK b, gone, safe :
        b = back.batch /\ gone = Created(back.safe) /\ safe = back.safe
  OBVIOUS
<1>1. /\ back # NoBack /\ back' = NoBack /\ raced' = FALSE
      /\ link' = [e \in Entities |-> IF e \in gone THEN "no" ELSE link[e]]
      /\ onOrder' = (onOrder /\ {"order", "payment"} \cap gone = {})
      /\ batch' = [batch EXCEPT ![b] =
           [st |-> IF Active(b) = safe THEN "rolled_back" ELSE "rollback_partial",
            rows |-> @.rows, reverted |-> @.reverted \cup safe]]
      /\ file' = IF file = NoFile THEN file ELSE [file EXCEPT !.alone = FALSE]
      /\ UNCHANGED <<ids, died, imported, others, before, after>>
  BY <1>0 DEF RollbackCommits, bounds, history
<1>2. /\ b \in Batches /\ b # 0 /\ safe \subseteq Active(b)
      /\ \A e \in gone : \E r \in safe :
           r.action = "created" /\ r.entity = e /\ rec[e] # 0 /\ ids[e] = r.id
      /\ \A e \in Entities : e \in gone => rec'[e] = 0
      /\ \A e \in Entities : e \in Updated(safe) =>
           /\ e \notin gone
           /\ \E s \in safe : s.action = "updated" /\ s.entity = e /\ rec'[e] = s.was
      /\ \A e \in Entities : e \notin gone /\ e \notin Updated(safe) => rec'[e] = rec[e]
      /\ DOMAIN rec' = Entities
  BY <1>0, CommitDoes
<1>3. safe \subseteq Rows /\ safe \subseteq RowsOf(b) /\ RowsOf(b) \subseteq Rows
  BY <1>2, TrailRows
<1>4. /\ \A r \in Rows : r.was \in 0..MaxValue
      /\ \A r \in RowsOf(b) : r.was = 0 <=> r.action = "created"
  BY <1>2 DEF Rows, ImportInv, TrailsHold, Honest
<1>5. /\ \A e \in Entities : rec'[e] \in 0..MaxValue
      /\ \A e \in Entities : e \notin gone /\ rec[e] # 0 => rec'[e] # 0
  <2>1. ASSUME NEW e \in Entities
        PROVE  rec'[e] \in 0..MaxValue /\ (e \notin gone /\ rec[e] # 0 => rec'[e] # 0)
    <3>1. CASE e \in gone
      BY <1>2, <3>1, ImportAssumption DEF ImportAssumption
    <3>2. CASE e \in Updated(safe)
      <4>1. PICK s \in safe : s.action = "updated" /\ s.entity = e /\ rec'[e] = s.was
        BY <1>2, <3>2
      <4> QED BY <1>3, <1>4, <4>1
    <3>3. CASE e \notin gone /\ e \notin Updated(safe)
      BY <1>2, <3>3 DEF ImportShape
    <3> QED BY <3>1, <3>2, <3>3
  <2> QED BY <2>1
<1>6. rec' \in [Entities -> 0..MaxValue]
  <2>1. rec' = [e \in Entities |-> rec'[e]]
    BY DEF RollbackCommits
  <2> QED BY <1>5, <2>1
<1>7. /\ file' \in [batch : 0..MaxBatches, rows : Seq(Rows), alone : BOOLEAN]
      /\ file'.batch = file.batch /\ file'.rows = file.rows
      /\ (file.batch = 0 => file' = file)
      /\ (file.batch # 0 => ~file'.alone)
  <2>1. CASE file = NoFile
    BY <1>1, <2>1 DEF ImportShape, NoFile
  <2>2. CASE file # NoFile
    <3>1. PICK f : f = [file EXCEPT !.alone = FALSE]
      OBVIOUS
    <3>2. file \in [batch : 0..MaxBatches, rows : Seq(Rows), alone : BOOLEAN]
      BY DEF ImportShape
    <3>3. f \in [batch : 0..MaxBatches, rows : Seq(Rows), alone : BOOLEAN]
      BY <3>1, <3>2
    <3>4. f.batch = file.batch /\ f.rows = file.rows /\ f.alone = FALSE
      BY <3>1, <3>2
    <3>5. file' = f /\ file.batch # 0
      BY <1>1, <2>2, <3>1 DEF ImportInv, FileStands
    <3> QED BY <3>3, <3>4, <3>5
  <2> QED BY <2>1, <2>2
<1>8. /\ batch' \in [Batches -> BatchRows]
      /\ \A c \in Batches : c # b => batch'[c] = batch[c]
      /\ batch'[b].rows = batch[b].rows /\ batch'[b].reverted = batch[b].reverted \cup safe
      /\ batch'[b].st \in {"rolled_back", "rollback_partial"}
  <2>1. batch[b] \in BatchRows
    BY <1>2 DEF ImportShape
  <2>2. PICK end \in {"rolled_back", "rollback_partial"} :
          end = IF Active(b) = safe THEN "rolled_back" ELSE "rollback_partial"
    OBVIOUS
  <2>3. PICK done : done = batch[b].reverted \cup safe
    OBVIOUS
  <2>4. PICK new : new = [st |-> end, rows |-> batch[b].rows, reverted |-> done]
    OBVIOUS
  <2>5. new \in BatchRows
    BY <1>3, <2>1, <2>3, <2>4 DEF BatchRows
  <2>6. batch' = [batch EXCEPT ![b] = new]
    BY <1>1, <1>2, <2>2, <2>3, <2>4
  <2>7. batch'[b] = new /\ batch' \in [Batches -> BatchRows]
        /\ \A c \in Batches : c # b => batch'[c] = batch[c]
    BY <1>2, <2>5, <2>6 DEF ImportShape
  <2> QED BY <2>3, <2>4, <2>7
<1>9. ImportShape'
  <2>1. NoBack \in [batch : 0..MaxBatches, safe : SUBSET Rows]
    BY ImportAssumption DEF NoBack, ImportAssumption
  <2>2. link' \in [Entities -> Links] /\ rest' \in [Entities -> 0..MaxBatches]
    <3>1. rest' = [e \in Entities |-> IF e \in gone THEN 0 ELSE rest[e]]
      BY <1>0 DEF RollbackCommits
    <3> QED BY <1>1, <3>1, ImportAssumption DEF ImportAssumption, ImportShape, Links
  <2>3. onOrder' \in BOOLEAN
    BY <1>1
  <2> QED BY <1>1, <1>6, <1>7, <1>8, <2>1, <2>2, <2>3 DEF ImportShape
<1>10. /\ \A c \in Batches : RowsOf(c)' = RowsOf(c) /\ (c # b => Active(c)' = Active(c))
       /\ Active(b)' = Active(b) \ safe
       /\ FileRows' = FileRows
  <2>1. ASSUME NEW c \in Batches PROVE RowsOf(c)' = RowsOf(c)
    BY <1>8 DEF RowsOf
  <2>2. ASSUME NEW c \in Batches, c # b PROVE Active(c)' = Active(c)
    BY <1>8, <2>1, <2>2 DEF Active
  <2>3. Active(b)' = Active(b) \ safe
    BY <1>2, <1>8, <2>1 DEF Active
  <2>4. FileRows' = FileRows
    BY <1>7 DEF FileRows
  <2> QED BY <2>1, <2>2, <2>3, <2>4
\* A created row that is not rolled back now keeps its entity: only the rows that created it
\* take it away.
<1>11. ASSUME NEW R, R \subseteq Rows, StillFound(R, rec, ids), Honest(R, ids),
              \A r \in R, s \in safe : r.action = "created" /\ s.action = "created"
                                        /\ r.entity = s.entity => r.id # s.id
       PROVE  StillFound(R, rec', ids)
  <2>1. SUFFICES ASSUME NEW r \in R, r.action = "created" PROVE rec'[r.entity] # 0
    BY <1>11 DEF StillFound
  <2>2. r.entity \in Entities /\ rec[r.entity] # 0 /\ ids[r.entity] = r.id
    BY <1>11, <2>1 DEF StillFound, Rows
  <2>3. r.entity \notin gone
    BY <1>2, <1>11, <2>1, <2>2
  <2> QED BY <1>5, <2>2, <2>3
<1>12. TrailsHold'
  <2>1. ASSUME NEW c \in Batches PROVE StillFound(Active(c)', rec', ids)
    <3>1. CASE c = b
      <4>1. Active(b) \ safe \subseteq Rows
        BY <1>3 DEF Active
      <4>2. StillFound(Active(b) \ safe, rec, ids) /\ Honest(Active(b) \ safe, ids)
        BY <1>2 DEF ImportInv, TrailsHold, StillFound, Honest, Active
      <4>3. ASSUME NEW r \in Active(b) \ safe, NEW s \in safe, r.action = "created",
                   s.action = "created", r.entity = s.entity
            PROVE  r.id # s.id
        <5>1. r \in Rows /\ s \in Rows /\ r.was = 0 /\ s.was = 0
          BY <1>3, <1>4, <4>3 DEF Active
        <5>2. r.id = s.id => r = s
          BY <4>3, <5>1 DEF Rows
        <5> QED BY <4>3, <5>2
      <4> QED BY <1>10, <1>11, <3>1, <4>1, <4>2, <4>3
    <3>2. CASE c # b
      <4>1. Active(c) \subseteq Rows /\ Honest(Active(c), ids) /\ StillFound(Active(c), rec, ids)
        BY TrailRows DEF ImportInv, TrailsHold, Honest, Active
      <4>2. \A r \in Active(c), s \in safe : r.action = "created" /\ s.action = "created"
                                              /\ r.entity = s.entity => r.id # s.id
        BY <1>2, <1>3, <3>2, TrailRows DEF ImportInv, TrailsHold, Apart
      <4> QED BY <1>10, <1>11, <3>2, <4>1, <4>2
    <3> QED BY <3>1, <3>2
  <2>2. StillFound(FileRows, rec', ids)
    <3>1. FileRows \subseteq Rows /\ Honest(FileRows, ids) /\ StillFound(FileRows, rec, ids)
      BY TrailRows DEF ImportInv, TrailsHold
    <3>2. \A r \in FileRows, s \in safe : r.action = "created" /\ s.action = "created"
                                           /\ r.entity = s.entity => r.id # s.id
      BY <1>2, <1>3 DEF ImportInv, TrailsHold, Apart
    <3> QED BY <1>11, <3>1, <3>2
  <2> QED BY <1>1, <1>10, <2>1, <2>2 DEF ImportInv, TrailsHold
<1>13. BackStands'
  BY <1>1 DEF BackStands, NoBack
<1>14. FileStands' /\ FileTells'
  <2>1. file.batch # 0 => file.batch # b /\ file.batch \in Batches
    <3>1. batch[b].st # "none"
      BY <1>0, <1>2 DEF ImportInv, BackStands
    <3> QED BY <3>1, ImportAssumption
        DEF ImportInv, FileStands, ImportShape, Batches, ImportAssumption
  <2> QED BY <1>7, <1>8, <2>1 DEF ImportInv, FileStands, FileTells
<1>15. LinksHold'
  <2>1. \A e \in Entities : link'[e] # "no" => link[e] # "no" /\ e \notin gone
    BY <1>1
  <2>2. onOrder' => onOrder /\ "order" \notin gone /\ "payment" \notin gone
    BY <1>1
  <2> QED BY <1>5, <2>1, <2>2 DEF ImportInv, LinksHold, There, Entities
<1>16. ASSUME NEW c \in Batches PROVE Stands(c)' /\ BatchTells(c)'
  <2>1. Stands(c) /\ BatchTells(c)
    BY DEF ImportInv
  <2>2. BatchTells(c)'
    BY <1>1, <1>8, <1>10, <2>1 DEF BatchTells
  <2>3. CASE c = b
    BY <1>2, <1>3, <1>8, <1>10, <2>1, <2>2, <2>3 DEF Stands
  <2>4. CASE c # b
    BY <1>8, <1>10, <2>1, <2>2, <2>4 DEF Stands
  <2> QED BY <2>3, <2>4
<1> QED BY <1>9, <1>12, <1>13, <1>14, <1>15, <1>16 DEF ImportInv

\* The invariant holds initially.
LEMMA ImportInitial == ImportInit => ImportShape /\ ImportInv
<1> SUFFICES ASSUME ImportInit PROVE ImportShape /\ ImportInv
  OBVIOUS
<1>1. PICK none : none = [st |-> "none", rows |-> <<>>, reverted |-> {}]
  OBVIOUS
<1>2. /\ none \in BatchRows /\ none.st = "none" /\ none.rows = <<>> /\ none.reverted = {}
  BY <1>1, RowSetOfNone DEF BatchRows
<1>3. /\ rec = [e \in Entities |-> 0] /\ rest = rec /\ ids = rec /\ onOrder = FALSE
      /\ link = [e \in Entities |-> "no"] /\ batch = [b \in Batches |-> none]
      /\ file = NoFile /\ back = NoBack /\ raced = FALSE /\ died = "no"
      /\ imported = 0 /\ others = 0
      /\ before = [b \in Batches |-> Unknown] /\ after = [b \in Batches |-> Unknown]
  BY <1>1 DEF ImportInit
<1>4. /\ NoFile.batch = 0 /\ NoFile.rows = <<>> /\ NoBack.batch = 0
      /\ NoFile \in [batch : 0..MaxBatches, rows : Seq(Rows), alone : BOOLEAN]
      /\ NoBack \in [batch : 0..MaxBatches, safe : SUBSET Rows]
      /\ 0 \in 0..MaxValue
  BY RowSetOfNone, ImportAssumption DEF NoFile, NoBack, ImportAssumption
<1>5. ImportShape
  <2>1. /\ rec \in [Entities -> 0..MaxValue] /\ ids \in [Entities -> Nat]
        /\ link \in [Entities -> Links] /\ batch \in [Batches -> BatchRows]
    BY <1>2, <1>3, <1>4 DEF Links
  <2>2. /\ before \in [Batches -> [Entities -> 0..MaxValue] \cup {Unknown}]
        /\ after \in [Batches -> [Entities -> 0..MaxValue] \cup {Unknown}]
    BY <1>3
  <2>3. /\ imported \in 0..MaxRecords /\ others \in 0..MaxOthers
        /\ rest \in [Entities -> 0..MaxBatches]
    BY <1>3, ImportAssumption DEF ImportAssumption
  <2> QED BY <1>3, <1>4, <2>1, <2>2, <2>3 DEF ImportShape
<1>6. \A b \in Batches : RowsOf(b) = {} /\ Active(b) = {}
  BY <1>2, <1>3, RowsOfIs, RowSetOfNone DEF Active
<1>7. FileRows = {}
  BY <1>3, <1>4, RowSetOfNone DEF FileRows
<1>8. \A b \in Batches : Stands(b) /\ BatchTells(b)
  BY <1>2, <1>3, <1>6 DEF Stands, BatchTells
<1>9. FileStands /\ BackStands /\ FileTells
  BY <1>3, <1>4 DEF FileStands, BackStands, FileTells
<1>10. TrailsHold
  BY <1>6, <1>7 DEF TrailsHold, Honest, StillFound, Apart
<1>11. LinksHold
  BY <1>3 DEF LinksHold
<1> QED BY <1>5, <1>8, <1>9, <1>10, <1>11 DEF ImportInv

\* Every step keeps it.
LEMMA ImportStep ==
  ImportShape /\ ImportInv /\ [ImportNext]_importVars => ImportShape' /\ ImportInv'
<1> SUFFICES ASSUME ImportShape, ImportInv, [ImportNext]_importVars
             PROVE  ImportShape' /\ ImportInv'
  OBVIOUS
<1>1. ASSUME NEW b \in Batches,
             StartImport(b) \/ \E partial \in BOOLEAN : RollbackReads(b, partial)
      PROVE  ImportShape' /\ ImportInv'
  BY <1>1, StartImportStep, RollbackReadsStep
<1>2. ASSUME NEW e \in Entities, NEW v \in 1..MaxValue, ImportRecord(e, v) \/ PullRecord(e, v)
      PROVE  ImportShape' /\ ImportInv'
  BY <1>2, ImportRecordStep, PullRecordStep
<1>3. CASE \/ \E e \in Entities : Attach(e, "loose")
           \/ \E e \in {"organization", "order"}, how \in {"held", "unseen"} : Attach(e, how)
  BY <1>3, AttachStep DEF Entities, Links, Counted
<1>4. CASE EndImport \/ RollbackCommits \/ RollbackAborts
  BY <1>4, EndImportStep, RollbackCommitsStep, RollbackAbortsStep
<1>5. CASE UNCHANGED importVars
  <2>1. UNCHANGED <<rec, rest, ids, onOrder, link, batch, file, back, raced, died, imported, others,
                    before, after>>
    BY <1>5 DEF importVars, data, imports, bounds, history
  <2>2. ImportShape'
    BY <2>1 DEF ImportShape
  <2>3. TrailsHold'
    <3>1. \A e \in Entities : EntityGoesOn(e)
      BY <2>1 DEF EntityGoesOn, ImportShape
    <3> QED BY <2>1, <3>1, TrailsStay DEF ImportInv
  <2>4. BackStands'
    BY <2>1, BackStays DEF ImportInv
  <2>5. FileStands' /\ FileTells' /\ LinksHold'
    BY <2>1 DEF ImportInv, FileStands, FileTells, LinksHold, There, FileRows
  <2>6. \A c \in Batches : Stands(c)' /\ BatchTells(c)'
    BY <2>1 DEF ImportInv, Stands, BatchTells, RowsOf
  <2> QED BY <2>2, <2>3, <2>4, <2>5, <2>6 DEF ImportInv
<1> QED BY <1>1, <1>2, <1>3, <1>4, <1>5 DEF ImportNext

\* So it holds always.
LEMMA ImportInvariant == ImportSpec => [](ImportShape /\ ImportInv)
<1>1. ImportInit => ImportShape /\ ImportInv
  BY ImportInitial
<1>2. (ImportShape /\ ImportInv) /\ [ImportNext]_importVars => (ImportShape /\ ImportInv)'
  BY ImportStep
<1> QED BY <1>1, <1>2, PTL DEF ImportSpec

\* The fields have their types, whatever the imports, the records and the bounds.
THEOREM ImportTypeCorrect == ImportSpec => []ImportTypeOK
<1>1. ImportShape /\ ImportInv => ImportTypeOK
  <2> SUFFICES ASSUME ImportShape, ImportInv PROVE ImportTypeOK
    OBVIOUS
  <2>1. ASSUME NEW b \in Batches
        PROVE  /\ batch[b].st \in {"none", "committed", "rolled_back", "rollback_partial"}
               /\ RowsOf(b) \subseteq Rows /\ batch[b].reverted \subseteq RowsOf(b)
    BY TrailRows DEF ImportShape, BatchRows, ImportInv, Stands
  <2> QED BY <2>1 DEF ImportTypeOK, ImportShape, Links
<1> QED BY <1>1, ImportInvariant, PTL

\* The database refuses a rollback (rollback.ts) only if something appeared after it had
\* looked, or the file named an entity twice, for any imports, records and writes of others.
THEOREM NeverDiesAloneAlways == ImportSpec => []NeverDiesAlone
<1>1. ImportShape /\ ImportInv => NeverDiesAlone
  BY DEF ImportShape, NeverDiesAlone
<1> QED BY <1>1, ImportInvariant, PTL

\* The commit of a rollback of all rows of an import restores what was before it.
LEMMA CommitUndoes ==
  ASSUME ImportShape, ImportInv, RollbackCommits, NEW b, b = back.batch,
         batch[b].st = "committed", Active(b) = back.safe, rec = after[b], ~Repeats(b)
  PROVE  rec' = before[b]
<1> DEFINE gone == Created(back.safe)
<1>1. /\ b \in Batches /\ b # 0
      /\ \A r \in back.safe : r.action = "updated" => Finds(r) /\ r.entity \notin gone
      /\ \A e \in gone : \E r \in back.safe :
           r.action = "created" /\ r.entity = e /\ rec[e] # 0 /\ ids[e] = r.id
      /\ \A e \in Entities : e \in gone => rec'[e] = 0
      /\ \A e \in Entities : e \in Updated(back.safe) =>
           /\ e \notin gone
           /\ \E s \in back.safe : s.action = "updated" /\ s.entity = e /\ rec'[e] = s.was
      /\ \A e \in Entities : e \notin gone /\ e \notin Updated(back.safe) => rec'[e] = rec[e]
      /\ DOMAIN rec' = Entities
  BY CommitDoes
<1>2. back.safe = RowsOf(b) /\ back.safe # {} /\ RowsOf(b) \subseteq Rows
  <2>1. batch[b].reverted = {}
    BY <1>1 DEF ImportInv, Stands
  <2>2. Active(b) = RowsOf(b)
    BY <2>1 DEF Active
  <2>3. back.safe # {}
    BY <1>1 DEF ImportInv, BackStands
  <2>4. RowsOf(b) \subseteq Rows
    BY <1>1, TrailRows
  <2> QED BY <2>2, <2>3, <2>4
<1>3. Tells(RowsOf(b), before[b], after[b])
  <2>1. batch[b].rows # <<>>
    BY <1>2, RowsOfIs, RowSetOfNone
  <2>2. after[b] # Unknown
    <3>1. rec["order"] # -1
      BY DEF ImportShape, Entities
    <3>2. Unknown["order"] = -1
      BY DEF Unknown, Entities
    <3> QED BY <3>1, <3>2
  <2> QED BY <1>1, <2>1, <2>2, RowsOfIs DEF ImportInv, BatchTells
<1>4. before[b] \in [Entities -> 0..MaxValue] \cup {Unknown}
  BY <1>1 DEF ImportShape
<1>5. \A e : e \in Updated(back.safe) <=>
        \E r \in back.safe : r.action = "updated" /\ Finds(r) /\ r.entity = e
  BY DEF Updated
<1>6. \A e : e \in gone <=>
        \E r \in back.safe : r.action = "created" /\ Finds(r) /\ r.entity = e
  BY DEF Created
<1> HIDE DEF gone
<1>7. ASSUME NEW e \in Entities PROVE rec'[e] = before[b][e]
  <2>1. CASE ~HasRow(RowsOf(b), e)
    <3>1. e \notin gone /\ e \notin Updated(back.safe)
      BY <1>2, <1>5, <1>6, <2>1 DEF HasRow
    <3>2. after[b][e] = before[b][e]
      BY <1>3, <2>1 DEF Tells
    <3> QED BY <1>1, <3>1, <3>2
  <2>2. CASE HasRow(RowsOf(b), e)
    <3>1. PICK r \in RowsOf(b) : r.entity = e
      BY <2>2 DEF HasRow
    <3>2. r.was = before[b][e] /\ r \in Rows /\ r \in Active(b)
      BY <1>2, <1>3, <3>1 DEF Tells
    <3>3. CASE r.action = "created"
      <4>1. rec[e] # 0 /\ ids[e] = r.id /\ r.was = 0
        BY <1>1, <3>1, <3>2, <3>3 DEF ImportInv, TrailsHold, StillFound, Honest
      <4>2. Finds(r)
        BY <3>1, <4>1 DEF Finds, There
      <4>3. e \in gone
        BY <1>2, <1>6, <3>1, <3>3, <4>2
      <4> QED BY <1>1, <3>2, <4>1, <4>3
    <3>4. CASE r.action = "updated"
      <4>1. e \in Updated(back.safe)
        BY <1>1, <1>2, <1>5, <3>1, <3>4
      <4>2. PICK s \in back.safe : s.entity = e /\ rec'[e] = s.was
        BY <1>1, <4>1
      <4>3. s.was = before[b][e]
        BY <1>2, <1>3, <4>2 DEF Tells
      <4> QED BY <4>2, <4>3
    <3> QED BY <3>2, <3>3, <3>4 DEF Rows
  <2> QED BY <2>1, <2>2
<1>8. rec' = [e \in Entities |-> rec'[e]]
  BY DEF RollbackCommits
<1>9. before[b] = [e \in Entities |-> before[b][e]]
  BY <1>4 DEF Unknown
<1> QED BY <1>7, <1>8, <1>9

\* A full rollback of an import that named nothing twice, when the rows are as it left them,
\* makes the columns of the trail what they were before it and leaves the others as they are
\* (rollback.ts), for any imports and writes of others.
THEOREM RollbackUndoesAlways == ImportSpec => RollbackUndoes
<1>1. ASSUME ImportShape, ImportInv, [ImportNext]_importVars, NEW b \in Batches,
             batch[b].st = "committed", batch'[b].st = "rolled_back", rec = after[b], ~Repeats(b)
      PROVE  rec' = before[b] /\ \A e \in Entities : rec'[e] # 0 => rest'[e] = rest[e]
  <2>1. batch' # batch /\ batch'[b] # batch[b]
    BY <1>1
  <2>2. CASE EndImport
    <3>1. PICK c, new : batch' = [batch EXCEPT ![c] = new] /\ new.st = "committed"
      <4>1. PICK rows \in {file.rows, <<>>} :
              batch' = [batch EXCEPT ![file.batch] =
                          [st |-> "committed", rows |-> rows, reverted |-> {}]]
        BY <2>2 DEF EndImport
      <4>2. [st |-> "committed", rows |-> rows, reverted |-> {}].st = "committed"
        OBVIOUS
      <4> QED BY <4>1, <4>2
    <3> QED BY <1>1, <2>1, <3>1 DEF ImportShape
  <2>3. CASE RollbackCommits
    <3>1. PICK c : c = back.batch
      OBVIOUS
    <3>2. PICK new :
            /\ batch' = [batch EXCEPT ![c] = new]
            /\ new.st = IF Active(c) = back.safe THEN "rolled_back" ELSE "rollback_partial"
      <4> DEFINE row == [st |-> IF Active(c) = back.safe THEN "rolled_back"
                                ELSE "rollback_partial",
                         rows |-> batch[c].rows, reverted |-> batch[c].reverted \cup back.safe]
      <4>1. batch' = [batch EXCEPT ![c] = row]
        BY <2>3, <3>1 DEF RollbackCommits
      <4>2. row.st = IF Active(c) = back.safe THEN "rolled_back" ELSE "rollback_partial"
        OBVIOUS
      <4> HIDE DEF row
      <4> QED BY <4>1, <4>2
    <3>3. c = b
      BY <2>1, <3>2 DEF ImportShape
    <3>4. batch'[b] = new
      BY <1>1, <3>2, <3>3 DEF ImportShape
    <3>5. Active(b) = back.safe
      BY <1>1, <3>2, <3>3, <3>4
    <3>6. ASSUME NEW e \in Entities, rec'[e] # 0 PROVE rest'[e] = rest[e]
      <4>1. e \notin Created(back.safe)
        BY <1>1, <2>3, <3>6, CommitDoes
      <4>2. rest' = [x \in Entities |-> IF x \in Created(back.safe) THEN 0 ELSE rest[x]]
        BY <2>3 DEF RollbackCommits
      <4> QED BY <4>1, <4>2
    <3> QED BY <1>1, <2>3, <3>1, <3>3, <3>5, <3>6, CommitUndoes
  <2>4. ASSUME ~EndImport, ~RollbackCommits PROVE FALSE
    BY <1>1, <2>1, <2>4
    DEF ImportNext, StartImport, RollbackReads, ImportRecord, PullRecord, Attach, RollbackAborts,
        importVars, imports
  <2> QED BY <2>2, <2>3, <2>4
<1>2. (ImportShape /\ ImportInv) /\ [ImportNext]_importVars =>
        [\A b \in Batches :
           (/\ batch[b].st = "committed" /\ batch'[b].st = "rolled_back"
            /\ rec = after[b] /\ ~Repeats(b))
           => rec' = before[b] /\ \A e \in Entities : rec'[e] # 0 => rest'[e] = rest[e]]_importVars
  BY <1>1
<1> QED BY <1>2, ImportInvariant, PTL DEF RollbackUndoes, ImportSpec

\* What a rollback that has seen all takes with it (rollback.ts) is only what is of its
\* import: a payment that stays keeps its order, a row with a counted link stays.
THEOREM TakesNothingAlongAlways == ImportSpec => TakesNothingAlong
<1>1. ASSUME ImportShape, ImportInv, [ImportNext]_importVars, back # NoBack, back' = NoBack,
             ~raced, ~Repeats(back.batch)
      PROVE  /\ onOrder /\ rec'["payment"] # 0 => onOrder'
             /\ \A e \in Entities : link[e] \in Counted => rec'[e] # 0
  <2>1. RollbackCommits \/ RollbackAborts
    BY <1>1
    DEF ImportNext, StartImport, RollbackReads, ImportRecord, PullRecord, Attach, EndImport,
        importVars, imports
  <2>2. CASE RollbackAborts
    BY <2>2, <1>1, NotRefused DEF RollbackAborts
  <2>3. CASE RollbackCommits
    <3> DEFINE gone == Created(back.safe)
    <3>0. /\ back.batch \in Batches /\ back.batch # 0 /\ back.safe \subseteq Active(back.batch)
          /\ \A r \in back.safe : r.action = "updated" => Finds(r) /\ r.entity \notin gone
          /\ \A e \in gone : \E r \in back.safe :
               r.action = "created" /\ r.entity = e /\ rec[e] # 0 /\ ids[e] = r.id
          /\ \A e \in Entities : e \in gone => rec'[e] = 0
          /\ \A e \in Entities : e \in Updated(back.safe) =>
               /\ e \notin gone
               /\ \E s \in back.safe : s.action = "updated" /\ s.entity = e /\ rec'[e] = s.was
          /\ \A e \in Entities : e \notin gone /\ e \notin Updated(back.safe) => rec'[e] = rec[e]
          /\ DOMAIN rec' = Entities
      BY <1>1, <2>3, CommitDoes
    <3>1. /\ \A e \in Entities : e \in gone => rec'[e] = 0
          /\ \A e \in Entities : e \in Updated(back.safe) =>
               \E s \in back.safe : s.action = "updated" /\ s.entity = e /\ rec'[e] = s.was
          /\ \A e \in Entities : e \notin gone /\ e \notin Updated(back.safe) => rec'[e] = rec[e]
          /\ back.batch \in Batches /\ back.safe \subseteq Active(back.batch)
      BY <3>0
    <3>2. back.safe = Safe(back.batch)
      BY <1>1, <3>1 DEF ImportInv, BackStands, NoBack
    <3>3. /\ \A e \in gone : link[e] \notin Counted
          /\ "order" \in gone /\ onOrder /\ There("payment") => "payment" \in gone
      BY <1>1, <3>1, <3>2, SafeTakes
    <3>4. onOrder' = (onOrder /\ {"order", "payment"} \cap gone = {})
      BY <2>3 DEF RollbackCommits
    <3> HIDE DEF gone
    <3>5. ASSUME NEW e \in Entities, link[e] \in Counted PROVE rec'[e] # 0
      <4>1. e \notin gone /\ rec[e] # 0
        BY <1>1, <3>3, <3>5 DEF ImportInv, LinksHold, There, Counted
      <4>2. CASE e \in Updated(back.safe)
        <5>1. PICK s \in back.safe : s.action = "updated" /\ rec'[e] = s.was
          BY <3>1, <4>2
        <5> QED BY <1>1, <3>1, <5>1 DEF ImportInv, TrailsHold, Honest, Active
      <4> QED BY <3>1, <4>1, <4>2
    <3>6. ASSUME onOrder, rec'["payment"] # 0 PROVE onOrder'
      <4>1. "payment" \notin gone /\ There("payment")
        BY <1>1, <3>1, <3>6 DEF Entities, ImportInv, LinksHold
      <4> QED BY <3>3, <3>4, <3>6, <4>1
    <3> QED BY <3>5, <3>6
  <2> QED BY <2>1, <2>2, <2>3
<1>2. (ImportShape /\ ImportInv) /\ [ImportNext]_importVars =>
        (back # NoBack /\ back' = NoBack /\ ~raced /\ ~Repeats(back.batch) =>
           /\ onOrder /\ rec'["payment"] # 0 => onOrder'
           /\ \A e \in Entities : link[e] \in Counted => rec'[e] # 0)
  BY <1>1
<1> QED BY <1>2, ImportInvariant, PTL DEF TakesNothingAlong, ImportSpec

-----------------------------------------------------------------------------
(* Sale.                                                                      *)

USE SaleAssumption DEF SaleAssumption

\* The proposal has an order of its own or that of its deal.
HasOrder == MadeBy("proposal") # {} \/ (linked /\ deal.order # None)

\* A request that accepts the proposal and is past its order.
PastOrder(r) ==
  \/ req[r].do = "accept" /\ req[r].st = "ordered"
  \/ req[r].do = "accepted" /\ req[r].st = "checked"

\* A deal has an order, or is won, only when it is there; an order a request saw is kept.
DealInv ==
  /\ deal.st = "none" => deal.order = None /\ ~linked
  /\ deal.st = "won" => deal.order # None
  /\ \A r \in Requests : req[r].do = "win" => deal.st # "none"
  /\ \A r \in Requests : req[r].do = "win" /\ req[r].saw # None => deal.order # None

\* The order comes before the status in every request.
AcceptInv ==
  /\ doc = "none" => \A r \in Requests : req[r].do \notin {"accept", "accepted"}
  /\ \A r \in Requests :
       req[r].do = "accept" /\ req[r].saw # None => linked /\ deal.order # None
  /\ \A r \in Requests : PastOrder(r) => HasOrder
  /\ \A r \in Requests : req[r].st = "checked" =>
       req[r].do \in {"sent", "accepted", "rejected", "expired", "cancelled"}
  /\ \A r \in Requests : req[r].do = "accepted" => req[r].st = "checked"
  /\ AcceptedHasOrder

SaleInv == SaleTypeOK /\ DealInv /\ AcceptInv

\* A new order takes an id that was free, and is one of those made by its maker.
LEMMA NewOrderMade ==
  ASSUME SaleTypeOK, NEW o \in OrderIds, NEW by \in {"proposal", "win", "lead"}, NewOrder(o, by)
  PROVE  /\ made' \in [OrderIds -> {"nothing", "proposal", "win", "lead"}]
         /\ o # None
         /\ MadeBy("proposal") # {} => MadeBy("proposal")' # {}
         /\ by = "proposal" => MadeBy("proposal")' # {}
<1>1. /\ made' = [made EXCEPT ![o] = by] /\ made[o] = "nothing"
      /\ made \in [OrderIds -> {"nothing", "proposal", "win", "lead"}]
  BY DEF NewOrder, Made, SaleTypeOK
<1>2. \A i \in OrderIds : made[i] = "proposal" => made'[i] = "proposal"
  BY <1>1
<1>3. o # None
  BY DEF OrderIds, None
<1> QED BY <1>1, <1>2, <1>3 DEF MadeBy

\* The requests of an action that reads, and those of one that ends.
LEMMA BeginsType ==
  ASSUME SaleTypeOK, NEW r \in Requests, NEW do \in Doing, NEW st \in {"read", "ordered", "checked"},
         NEW saw \in {None} \cup OrderIds, RequestBegins(r, do, st, saw)
  PROVE  /\ req' = [req EXCEPT ![r] = [do |-> do, st |-> st, saw |-> saw]]
         /\ req' \in [Requests -> SaleRequests]
         /\ alone' \in BOOLEAN
BY DEF RequestBegins, SaleTypeOK, SaleRequests

LEMMA EndsType ==
  ASSUME SaleTypeOK, NEW r \in Requests, Ends(r)
  PROVE  req' = [req EXCEPT ![r] = NoReq] /\ req' \in [Requests -> SaleRequests]
BY DEF Ends, SaleTypeOK, SaleRequests, NoReq, Doing

-----------------------------------------------------------------------------
(* One lemma for each part of the sale.                                     *)

LeadStep(r) ==
  \/ ReadToConvert(r) \/ CommitConvert(r) \/ ReadToPromote(r)
  \/ ReadToRejectLead(r) \/ CommitRejectLead(r) \/ ReadToSetLead(r) \/ CommitSetLead(r)
  \/ \E o \in OrderIds : CommitPromote(r, o)

DealStep(r) ==
  ReadToWin(r) \/ CommitWin(r) \/ \E o \in OrderIds : CommitWinWithOrder(r, o)

ProposalStep(r) ==
  \/ \E to \in Flow(doc) : ReadToMove(r, to)
  \/ ReadToAccept(r) \/ OrderKept(r) \/ CheckAccepted(r) \/ StoreStatus(r)
  \/ \E o \in OrderIds : OrderOfProposal(r, o)

\* The lead's operations leave the proposal alone, and a deal only comes where none was.
LEMMA LeadStepInv ==
  ASSUME SaleInv, NEW r \in Requests, LeadStep(r)
  PROVE  SaleInv'
<1> USE DEF SaleInv, SaleTypeOK, DealInv, AcceptInv, HasOrder, MadeBy, PastOrder,
            AcceptedHasOrder, saleRows, Doer, NoReq, Doing, LeadStatuses
<1>1. CASE ReadToConvert(r)
  BY <1>1, BeginsType DEF ReadToConvert
<1>2. CASE CommitConvert(r)
  BY <1>2, EndsType DEF CommitConvert, CreateDeal
<1>3. CASE ReadToPromote(r)
  BY <1>3, BeginsType DEF ReadToPromote
<1>4. CASE ReadToRejectLead(r)
  BY <1>4, BeginsType DEF ReadToRejectLead
<1>5. CASE CommitRejectLead(r)
  BY <1>5, EndsType DEF CommitRejectLead
<1>6. CASE ReadToSetLead(r)
  BY <1>6, BeginsType DEF ReadToSetLead
<1>7. CASE CommitSetLead(r)
  BY <1>7, EndsType DEF CommitSetLead
<1>8. ASSUME NEW o \in OrderIds, CommitPromote(r, o) PROVE SaleInv'
  BY <1>8, EndsType, NewOrderMade DEF CommitPromote
<1> QED BY <1>1, <1>2, <1>3, <1>4, <1>5, <1>6, <1>7, <1>8 DEF LeadStep

\* Winning gives the deal an order unless the request saw one.
LEMMA DealStepInv ==
  ASSUME SaleInv, NEW r \in Requests, DealStep(r)
  PROVE  SaleInv'
<1> USE DEF SaleInv, SaleTypeOK, DealInv, AcceptInv, HasOrder, MadeBy, PastOrder,
            AcceptedHasOrder, saleRows, Doer, NoReq, Doing
<1>1. CASE ReadToWin(r)
  BY <1>1, BeginsType DEF ReadToWin, OrderOfDeal
<1>2. CASE CommitWin(r)
  BY <1>2, EndsType DEF CommitWin
<1>3. ASSUME NEW o \in OrderIds, CommitWinWithOrder(r, o) PROVE SaleInv'
  BY <1>3, EndsType, NewOrderMade DEF CommitWinWithOrder
<1> QED BY <1>1, <1>2, <1>3 DEF DealStep

\* A request reaches "accepted" only by way of the order.
LEMMA ProposalStepInv ==
  ASSUME SaleInv, NEW r \in Requests, ProposalStep(r)
  PROVE  SaleInv'
<1> USE DEF SaleInv, SaleTypeOK, DealInv, AcceptInv, HasOrder, MadeBy, PastOrder,
            AcceptedHasOrder, saleRows, Doer, NoReq, Doing, DocStatuses
<1>1. ASSUME NEW to \in Flow(doc), ReadToMove(r, to) PROVE SaleInv'
  <2>1. to \in {"sent", "rejected", "expired", "cancelled"} /\ doc # "none"
    BY <1>1 DEF ReadToMove, Flow
  <2> QED BY <1>1, <2>1, BeginsType DEF ReadToMove
<1>2. CASE ReadToAccept(r)
  BY <1>2, BeginsType DEF ReadToAccept, OrderOfDeal
<1>3. CASE OrderKept(r)
  BY <1>3 DEF OrderKept, SaleRequests
<1>4. CASE CheckAccepted(r)
  BY <1>4, EndsType DEF CheckAccepted, SaleRequests, Flow
<1>5. CASE StoreStatus(r)
  BY <1>5, EndsType DEF StoreStatus
<1>6. ASSUME NEW o \in OrderIds, OrderOfProposal(r, o) PROVE SaleInv'
  BY <1>6, NewOrderMade DEF OrderOfProposal, SaleRequests
<1> QED BY <1>1, <1>2, <1>3, <1>4, <1>5, <1>6 DEF ProposalStep

LEMMA SaleStepInv ==
  ASSUME SaleInv, [SaleNext]_saleVars
  PROVE  SaleInv'
<1> USE DEF SaleInv, SaleTypeOK, DealInv, AcceptInv, HasOrder, MadeBy, PastOrder,
            AcceptedHasOrder
<1>1. CASE IssueProposal
  BY <1>1 DEF IssueProposal, DocStatuses
<1>2. ASSUME NEW r \in Requests, RequestDies(r) PROVE SaleInv'
  BY <1>2, EndsType DEF RequestDies, saleRows, NoReq
<1>3. CASE UNCHANGED saleVars
  BY <1>3 DEF saleVars, saleRows
<1> QED BY <1>1, <1>2, <1>3, LeadStepInv, DealStepInv, ProposalStepInv
        DEF SaleNext, LeadStep, DealStep, ProposalStep

LEMMA SaleInvariant == SaleSpec => []SaleInv
<1>1. SaleInit => SaleInv
  <2> SUFFICES ASSUME SaleInit PROVE SaleInv
    OBVIOUS
  <2>1. NoReq \in SaleRequests /\ NoReq.do = "nothing" /\ NoReq.st = "idle"
    BY DEF NoReq, SaleRequests, Doing
  <2>2. \A r \in Requests : req[r].do = "nothing" /\ req[r].st = "idle"
    BY <2>1 DEF SaleInit
  <2>3. /\ lead \in LeadStatuses /\ promoted \in {None} \cup OrderIds
        /\ deal \in [st : {"none", "open", "won"}, order : {None} \cup OrderIds]
        /\ doc \in DocStatuses /\ req \in [Requests -> SaleRequests]
        /\ made \in [OrderIds -> {"nothing", "proposal", "win", "lead"}]
    BY <2>1 DEF SaleInit, LeadStatuses, DocStatuses
  <2>4. linked \in BOOLEAN /\ alone \in BOOLEAN
    BY DEF SaleInit
  <2>5. SaleTypeOK
    BY <2>3, <2>4, Zenon DEF SaleTypeOK
  <2>6. DealInv
    BY <2>2 DEF SaleInit, DealInv
  <2>7. AcceptInv
    BY <2>2 DEF SaleInit, AcceptInv, PastOrder, AcceptedHasOrder
  <2> QED BY <2>5, <2>6, <2>7 DEF SaleInv
<1> QED BY <1>1, SaleStepInv, PTL DEF SaleSpec

-----------------------------------------------------------------------------
\* The fields have their types, whatever the constants.
THEOREM SaleTypeCorrect == SaleSpec => []SaleTypeOK
BY SaleInvariant, PTL DEF SaleInv

\* However many requests accept, refuse, cancel, expire and win at the same time and die
\* half-way, an accepted proposal has an order (acceptProposal.ts: order first).
THEOREM AcceptedHasOrderAlways == SaleSpec => []AcceptedHasOrder
BY SaleInvariant, PTL DEF SaleInv, AcceptInv

\* A deal that is won is not taken back by what was under way.
LEMMA WonStays ==
  ASSUME SaleInv, SaleInv', [SaleNext]_saleVars, deal.st = "won"
  PROVE  deal'.st = "won" /\ deal'.order # None
<1>1. deal.order # None
  BY DEF SaleInv, DealInv
<1>2. deal'.st = "won"
  <2>1. CASE IssueProposal \/ (\E r \in Requests : RequestDies(r)) \/ UNCHANGED saleVars
    BY <2>1 DEF IssueProposal, RequestDies, saleVars, saleRows
  <2>2. ASSUME NEW r \in Requests, LeadStep(r) PROVE deal'.st = "won"
    BY <2>2 DEF LeadStep, ReadToConvert, CommitConvert, CreateDeal, ReadToPromote,
                ReadToRejectLead, CommitRejectLead, ReadToSetLead, CommitSetLead, CommitPromote,
                saleRows
  <2>3. ASSUME NEW r \in Requests, DealStep(r) PROVE deal'.st = "won"
    BY <2>3 DEF DealStep, ReadToWin, CommitWin, CommitWinWithOrder, saleRows, SaleInv, SaleTypeOK
  <2>4. ASSUME NEW r \in Requests, ProposalStep(r) PROVE deal'.st = "won"
    BY <2>4 DEF ProposalStep, ReadToMove, ReadToAccept, OrderKept, CheckAccepted, StoreStatus,
                OrderOfProposal, saleRows, SaleInv, SaleTypeOK
  <2> QED BY <2>1, <2>2, <2>3, <2>4 DEF SaleNext, LeadStep, DealStep, ProposalStep
<1>3. deal'.order # None
  BY <1>2 DEF SaleInv, DealInv
<1> QED BY <1>2, <1>3

\* No step of any request opens a won deal again or takes its order away.
THEOREM DealKeptAlways == SaleSpec => DealKept
<1>1. SaleInv /\ SaleInv' /\ [SaleNext]_saleVars
        => [deal.st = "won" => deal'.st = "won" /\ deal'.order # None]_saleVars
  BY WonStays
<1> QED BY <1>1, SaleInvariant, PTL DEF SaleSpec, DealKept

\* Who made an order; while requests do not overlap, the one request that runs finds the deal
\* as it saw it, and an order of the deal is the one it names.
OneInv ==
  /\ MadeBy("win") # {} => deal.st = "won"
  /\ doc = "none" => MadeBy("proposal") = {}
  /\ alone =>
       /\ \A q, r \in Requests : req[q].st # "idle" /\ req[r].st # "idle" => q = r
       /\ linked => MadeBy("proposal") \cup MadeBy("win") \subseteq {deal.order}
       /\ \A r \in Requests :
            /\ Doer(r, "win") /\ req[r].saw = None => deal.order = None
            /\ Doer(r, "accept") /\ req[r].saw = None /\ linked => deal.order = None

\* An order of the lead belongs to neither; another is the one just made.
LEMMA NewOrderBy ==
  ASSUME SaleTypeOK, NEW o \in OrderIds, NEW by \in {"proposal", "win", "lead"}, NewOrder(o, by)
  PROVE  \A x \in {"proposal", "win"} :
           MadeBy(x)' = IF x = by THEN MadeBy(x) \cup {o} ELSE MadeBy(x)
<1>1. /\ made' = [made EXCEPT ![o] = by] /\ made[o] = "nothing"
      /\ made \in [OrderIds -> {"nothing", "proposal", "win", "lead"}]
  BY DEF NewOrder, Made, SaleTypeOK
<1> QED BY <1>1 DEF MadeBy

\* A request that begins is the only one, or they are not alone any more.
LEMMA BeginsAlone ==
  ASSUME SaleInv, OneInv, NEW r \in Requests, NEW do, NEW st, NEW saw,
         RequestBegins(r, do, st, saw), UNCHANGED saleRows,
         do \in {"win", "accept"} /\ st = "read" /\ saw = None =>
           deal.order = None \/ (do = "accept" /\ ~linked)
  PROVE  OneInv'
<1>1. /\ req' = [req EXCEPT ![r] = [do |-> do, st |-> st, saw |-> saw]]
      /\ alone' => alone /\ \A q \in Requests : req[q].st = "idle"
      /\ req \in [Requests -> SaleRequests]
  BY DEF RequestBegins, SaleInv, SaleTypeOK
<1>2. \A q \in Requests \ {r} : req'[q] = req[q]
  BY <1>1
<1>3. req'[r].do = do /\ req'[r].st = st /\ req'[r].saw = saw
  BY <1>1
<1> QED BY <1>1, <1>2, <1>3 DEF OneInv, MadeBy, saleRows, Doer

\* A request that ends leaves nothing; one that goes on is still the only one.
LEMMA EndsAlone ==
  ASSUME SaleInv, OneInv, NEW r \in Requests, Ends(r)
  PROVE  /\ req'[r].st = "idle" /\ \A q \in Requests \ {r} : req'[q] = req[q]
         /\ \A x : ~Doer(r, x)'
BY DEF Ends, NoReq, SaleInv, SaleTypeOK, Doer

\* Every step keeps it.
LEMMA OneStep ==
  ASSUME SaleInv, OneInv, [SaleNext]_saleVars
  PROVE  OneInv'
<1> USE DEF SaleInv
<1>1. CASE IssueProposal
  BY <1>1 DEF IssueProposal, OneInv, MadeBy, Doer, DealInv, AcceptInv, SaleTypeOK
<1>2. ASSUME NEW r \in Requests, ReadToConvert(r) \/ ReadToPromote(r) \/ ReadToRejectLead(r)
             \/ ReadToSetLead(r)
      PROVE  OneInv'
  BY <1>2, BeginsAlone DEF ReadToConvert, ReadToPromote, ReadToRejectLead, ReadToSetLead
<1>3. ASSUME NEW r \in Requests, NEW to \in Flow(doc), ReadToMove(r, to) PROVE OneInv'
  BY <1>3, BeginsAlone DEF ReadToMove
<1>4. ASSUME NEW r \in Requests, ReadToWin(r) PROVE OneInv'
  BY <1>4, BeginsAlone DEF ReadToWin, OrderOfDeal
<1>5. ASSUME NEW r \in Requests, ReadToAccept(r) PROVE OneInv'
  BY <1>5, BeginsAlone DEF ReadToAccept, OrderOfDeal, SaleTypeOK
<1>6. ASSUME NEW r \in Requests, CommitConvert(r) PROVE OneInv'
  <2>1. Ends(r) /\ UNCHANGED <<promoted, linked, doc, made, alone>>
        /\ (deal' = deal \/ (deal.st = "none" /\ deal'.st = "open" /\ deal'.order = None))
    BY <1>6 DEF CommitConvert, CreateDeal
  <2> QED BY <2>1, EndsAlone DEF OneInv, MadeBy, Doer, DealInv
<1>7. ASSUME NEW r \in Requests, CommitRejectLead(r) \/ CommitSetLead(r) \/ RequestDies(r)
      PROVE  OneInv'
  BY <1>7, EndsAlone DEF CommitRejectLead, CommitSetLead, RequestDies, saleRows, OneInv, MadeBy, Doer
<1>8. ASSUME NEW r \in Requests, NEW o \in OrderIds, CommitPromote(r, o) PROVE OneInv'
  BY <1>8, EndsAlone, NewOrderBy DEF CommitPromote, OneInv, Doer
<1>9. ASSUME NEW r \in Requests, CommitWin(r) PROVE OneInv'
  BY <1>9, EndsAlone DEF CommitWin, OneInv, MadeBy, Doer, SaleTypeOK
<1>10. ASSUME NEW r \in Requests, NEW o \in OrderIds, CommitWinWithOrder(r, o) PROVE OneInv'
  <2>1. /\ Ends(r) /\ UNCHANGED <<lead, promoted, linked, doc, alone>>
        /\ deal'.st = "won" /\ deal'.order = o /\ Doer(r, "win") /\ req[r].saw = None
        /\ NewOrder(o, "win")
    BY <1>10 DEF CommitWinWithOrder
  <2>2. MadeBy("win")' = MadeBy("win") \cup {o} /\ MadeBy("proposal")' = MadeBy("proposal")
    BY <2>1, NewOrderBy
  <2>3. o # None /\ \A x \in MadeBy("proposal") \cup MadeBy("win") : x # None
    BY DEF MadeBy, OrderIds, None
  <2>4. alone /\ linked => MadeBy("proposal") \cup MadeBy("win") = {}
    BY <2>1, <2>3 DEF OneInv
  <2>5. alone => \A q \in Requests : req'[q].st = "idle"
    BY <2>1, EndsAlone DEF OneInv, Doer
  <2> QED BY <2>1, <2>2, <2>4, <2>5 DEF OneInv, Doer
<1>11. ASSUME NEW r \in Requests, NEW o \in OrderIds, OrderOfProposal(r, o) PROVE OneInv'
  <2>1. /\ UNCHANGED <<lead, promoted, linked, doc, alone>>
        /\ deal' = IF linked THEN [deal EXCEPT !.order = o] ELSE deal
        /\ Doer(r, "accept") /\ req[r].saw = None /\ NewOrder(o, "proposal")
        /\ req'[r].st = "ordered" /\ \A q \in Requests \ {r} : req'[q] = req[q]
    BY <1>11 DEF OrderOfProposal, SaleTypeOK
  <2>2. MadeBy("proposal")' = MadeBy("proposal") \cup {o} /\ MadeBy("win")' = MadeBy("win")
    BY <2>1, NewOrderBy
  <2>3. \A x \in MadeBy("proposal") \cup MadeBy("win") : x # None
    BY DEF MadeBy, OrderIds, None
  <2>4. alone /\ linked => MadeBy("proposal") \cup MadeBy("win") = {}
    BY <2>1, <2>3 DEF OneInv
  <2>5. doc # "none"
    BY <2>1 DEF AcceptInv, Doer
  <2>6. deal'.st = deal.st /\ (linked => deal'.order = o)
    BY <2>1 DEF SaleTypeOK
  <2>7. alone => \A q \in Requests \ {r} : req'[q].st = "idle"
    BY <2>1 DEF OneInv, Doer
  <2> QED BY <2>1, <2>2, <2>4, <2>5, <2>6, <2>7 DEF OneInv, Doer
<1>12. ASSUME NEW r \in Requests, OrderKept(r) \/ CheckAccepted(r) \/ StoreStatus(r) PROVE OneInv'
  <2>1. /\ UNCHANGED <<deal, linked, made, alone>> /\ req[r].st # "idle"
        /\ \A q \in Requests \ {r} : req'[q] = req[q]
        /\ \A x : ~Doer(r, x)'
    BY <1>12 DEF OrderKept, CheckAccepted, StoreStatus, saleRows, Doer, Ends, NoReq, SaleTypeOK,
                   SaleRequests
  <2>2. doc' = "none" => doc = "none"
    BY <1>12 DEF OrderKept, CheckAccepted, StoreStatus, saleRows, AcceptInv
  <2> QED BY <2>1, <2>2 DEF OneInv, MadeBy, Doer
<1>13. CASE UNCHANGED saleVars
  BY <1>13 DEF saleVars, saleRows, OneInv, MadeBy, Doer
<1> QED BY <1>1, <1>2, <1>3, <1>4, <1>5, <1>6, <1>7, <1>8, <1>9, <1>10, <1>11, <1>12, <1>13
        DEF SaleNext

\* As long as requests do not overlap and none dies half-way, a deal and its proposal get
\* one order between them, whichever is accepted or won first (acceptProposal.ts, move.ts),
\* for any number of requests.
THEOREM OneOrderPerDealAlways == SaleSpec => []OneOrderPerDeal
<1>1. SaleInit => OneInv
  <2> SUFFICES ASSUME SaleInit PROVE OneInv
    OBVIOUS
  <2>1. \A r \in Requests : req[r].st = "idle"
    BY DEF SaleInit, NoReq
  <2>2. MadeBy("proposal") = {} /\ MadeBy("win") = {}
    BY DEF SaleInit, MadeBy
  <2> QED BY <2>1, <2>2 DEF SaleInit, OneInv, Doer
<1>2. OneInv => OneOrderPerDeal
  <2> DEFINE both == MadeBy("proposal") \cup MadeBy("win")
  <2> SUFFICES ASSUME OneInv, alone, linked PROVE Cardinality(both) <= 1
    BY DEF OneOrderPerDeal
  <2>1. both \subseteq {deal.order}
    BY DEF OneInv
  <2>2. IsFiniteSet({deal.order}) /\ Cardinality({deal.order}) = 1
    BY FS_Singleton
  <2> HIDE DEF both
  <2> QED BY <2>1, <2>2, FS_Subset
<1> QED BY <1>1, <1>2, OneStep, SaleInvariant, PTL DEF SaleSpec

-----------------------------------------------------------------------------
(* Sums, which are folds over sets.  That a finite set has a fold, and which  *)
(* it is, is proved by induction over the set: among the subsets without the  *)
(* property there would be a least one.                                       *)

\* The sum of the lines in S, as a fold of its own.
SumOver(f, S) == MapThenSumSet(LAMBDA l : f[l], S)

\* One step of the fold over the subsets of S, as the library defines it.
Summed(w, S, g) ==
  [s \in SUBSET S |->
     IF s = {} THEN 0
     ELSE w[CHOOSE y \in s : TRUE] + g[s \ {CHOOSE y \in s : TRUE}]]

\* Induction over finite sets: a family of subsets has a least one.
LEMMA LeastSubset ==
  ASSUME NEW S, IsFiniteSet(S), NEW F, F \subseteq SUBSET S, F # {}
  PROVE  \E t \in F : \A u \in F : u \subseteq t => u = t
<1>1. F \subseteq FiniteSubsetsOf(S)
  BY FS_Subset DEF FiniteSubsetsOf
<1>2. PICK t \in F : \A u \in F : ~(<<u, t>> \in StrictSubsetOrdering(S))
  BY <1>1, FS_StrictSubsetOrderingWellFounded, WFMin
<1>3. ASSUME NEW u \in F, u \subseteq t, u # t PROVE FALSE
  <2>1. <<u, t>> \in StrictSubsetOrdering(S)
    BY <1>3 DEF StrictSubsetOrdering
  <2> QED BY <1>2, <2>1
<1> QED BY <1>3

\* What the fold of a set is does not depend on which function computes it.
LEMMA SumIsOne ==
  ASSUME NEW w, NEW S, IsFiniteSet(S), NEW T, T \subseteq S, NEW g, g = Summed(w, S, g),
         NEW h, h = Summed(w, T, h)
  PROVE  \A s \in SUBSET T : g[s] = h[s]
<1> DEFINE F == {s \in SUBSET T : g[s] # h[s]}
<1> SUFFICES ASSUME F # {} PROVE FALSE
  OBVIOUS
<1>1. F \subseteq SUBSET S
  OBVIOUS
<1>2. PICK t \in F : \A u \in F : u \subseteq t => u = t
  <2> HIDE DEF F
  <2> QED BY <1>1, LeastSubset
<1>3. t \in SUBSET T /\ t \in SUBSET S /\ g[t] # h[t]
  BY <1>2
<1>4. CASE t = {}
  <2>1. g[t] = 0 /\ h[t] = 0
    <3>1. Summed(w, S, g)[t] = 0 /\ Summed(w, T, h)[t] = 0
      BY <1>3, <1>4 DEF Summed
    <3> QED BY <3>1
  <2> QED BY <1>3, <2>1
<1>5. CASE t # {}
  <2>1. PICK y : y = CHOOSE x \in t : TRUE
    OBVIOUS
  <2>2. y \in t
    BY <1>5, <2>1
  <2>3. g[t] = w[y] + g[t \ {y}] /\ h[t] = w[y] + h[t \ {y}]
    <3>1. Summed(w, S, g)[t] = w[y] + g[t \ {y}]
      BY <1>3, <1>5, <2>1 DEF Summed
    <3>2. Summed(w, T, h)[t] = w[y] + h[t \ {y}]
      BY <1>3, <1>5, <2>1 DEF Summed
    <3> QED BY <3>1, <3>2
  <2>4. t \ {y} \notin F
    BY <1>2, <2>2
  <2>5. g[t \ {y}] = h[t \ {y}]
    BY <1>3, <2>4
  <2> QED BY <1>3, <2>3, <2>5
<1> QED BY <1>4, <1>5

\* The fold of a finite set exists.
LEMMA SumExists ==
  ASSUME NEW w, NEW S, IsFiniteSet(S)
  PROVE  \E g : g = Summed(w, S, g)
<1> DEFINE F == {s \in SUBSET S : ~\E g : g = Summed(w, s, g)}
<1> SUFFICES ASSUME F # {} PROVE FALSE
  OBVIOUS
<1>1. F \subseteq SUBSET S
  OBVIOUS
<1>2. PICK t \in F : \A u \in F : u \subseteq t => u = t
  <2> HIDE DEF F
  <2> QED BY <1>1, LeastSubset
<1>3. t \in SUBSET S /\ ~\E g : g = Summed(w, t, g)
  BY <1>2
<1> DEFINE Of(s) == CHOOSE g : g = Summed(w, s, g)
<1>4. ASSUME NEW s \in SUBSET t, s # t PROVE Of(s) = Summed(w, s, Of(s))
  <2>1. s \notin F /\ s \in SUBSET S
    BY <1>2, <1>3, <1>4
  <2>2. \E g : g = Summed(w, s, g)
    BY <2>1
  <2> HIDE DEF F
  <2> QED BY <2>2
<1> DEFINE Step(s) == IF s = {} THEN 0
                      ELSE w[CHOOSE y \in s : TRUE]
                           + Of(s \ {CHOOSE y \in s : TRUE})[s \ {CHOOSE y \in s : TRUE}]
           h == [s \in SUBSET t |-> Step(s)]
<1> HIDE DEF Of, F
<1>5. ASSUME NEW s \in SUBSET t, s # t PROVE h[s] = Of(s)[s]
  <2>0. Of(s) = Summed(w, s, Of(s)) /\ s \in SUBSET s
    BY <1>4, <1>5
  <2>1. CASE s = {}
    <3>1. Summed(w, s, Of(s))[s] = 0
      BY <2>0, <2>1 DEF Summed
    <3> QED BY <2>0, <2>1, <3>1
  <2>2. CASE s # {}
    <3>1. PICK y : y = CHOOSE x \in s : TRUE
      OBVIOUS
    <3>2. y \in s /\ s \ {y} \in SUBSET t /\ s \ {y} # t /\ s \ {y} \subseteq s
      BY <2>2, <3>1
    <3>3. h[s] = w[y] + Of(s \ {y})[s \ {y}]
      BY <2>2, <3>1
    <3>4. Summed(w, s, Of(s))[s] = w[y] + Of(s)[s \ {y}]
      BY <2>0, <2>2, <3>1 DEF Summed
    <3>5. Of(s \ {y})[s \ {y}] = Of(s)[s \ {y}]
      <4>1. IsFiniteSet(s)
        BY <1>3, FS_Subset
      <4>2. Of(s \ {y}) = Summed(w, s \ {y}, Of(s \ {y}))
        BY <1>4, <3>2
      <4>3. s \ {y} \in SUBSET (s \ {y})
        OBVIOUS
      <4> QED BY <2>0, <3>2, <4>1, <4>2, <4>3, SumIsOne
    <3>6. Of(s)[s] = w[y] + Of(s)[s \ {y}]
      BY <2>0, <3>4
    <3> HIDE DEF h
    <3> QED BY <3>3, <3>5, <3>6
  <2> QED BY <2>1, <2>2
<1>6. h = Summed(w, t, h)
  <2>1. ASSUME NEW s \in SUBSET t PROVE h[s] = Summed(w, t, h)[s]
    <3>1. CASE s = {}
      BY <3>1 DEF Summed
    <3>2. CASE s # {}
      <4>1. PICK y : y = CHOOSE x \in s : TRUE
        OBVIOUS
      <4>2. y \in s /\ s \ {y} \in SUBSET t /\ s \ {y} # t
        BY <3>2, <4>1
      <4>3. h[s] = w[y] + Of(s \ {y})[s \ {y}]
        BY <3>2, <4>1
      <4>4. h[s \ {y}] = Of(s \ {y})[s \ {y}]
        BY <1>5, <4>2
      <4> HIDE DEF h
      <4>5. Summed(w, t, h)[s] = w[y] + h[s \ {y}]
        BY <3>2, <4>1 DEF Summed
      <4> QED BY <4>3, <4>4, <4>5
    <3> QED BY <3>1, <3>2
  <2>2. h = [s \in SUBSET t |-> h[s]]
    OBVIOUS
  <2> HIDE DEF h
  <2>3. Summed(w, t, h) = [s \in SUBSET t |-> Summed(w, t, h)[s]]
    BY DEF Summed
  <2> QED BY <2>1, <2>2, <2>3
<1> HIDE DEF h
<1> QED BY <1>3, <1>6

\* The sum of natural numbers is one.
LEMMA SumIsNatural ==
  ASSUME NEW w, NEW S, IsFiniteSet(S), \A x \in S : w[x] \in Nat
  PROVE  SumOver(w, S) \in Nat
<1>1. \E g : g = Summed(w, S, g)
  BY SumExists
<1>2. PICK f : f = CHOOSE g : g = Summed(w, S, g)
  OBVIOUS
<1>3. f = Summed(w, S, f)
  BY <1>1, <1>2
<1>4. SumOver(w, S) = f[S]
  BY <1>2 DEF SumOver, MapThenSumSet, MapThenFoldSet, Summed
<1> DEFINE F == {s \in SUBSET S : f[s] \notin Nat}
<1>5. F = {}
  <2> SUFFICES ASSUME F # {} PROVE FALSE
    OBVIOUS
  <2>1. F \subseteq SUBSET S
    OBVIOUS
  <2>2. PICK t \in F : \A u \in F : u \subseteq t => u = t
    <3> HIDE DEF F
    <3> QED BY <2>1, LeastSubset
  <2>3. t \in SUBSET S /\ f[t] \notin Nat
    BY <2>2
  <2>4. CASE t = {}
    <3>1. Summed(w, S, f)[t] = 0
      BY <2>3, <2>4 DEF Summed
    <3> QED BY <1>3, <2>3, <3>1
  <2>5. CASE t # {}
    <3>1. PICK y : y = CHOOSE x \in t : TRUE
      OBVIOUS
    <3>2. y \in t /\ t \ {y} \in SUBSET S /\ w[y] \in Nat
      BY <2>3, <2>5, <3>1
    <3>3. Summed(w, S, f)[t] = w[y] + f[t \ {y}]
      BY <2>3, <2>5, <3>1 DEF Summed
    <3>4. f[t \ {y}] \in Nat
      BY <2>2, <3>2
    <3>5. f[t] = w[y] + f[t \ {y}]
      BY <1>3, <3>3
    <3> QED BY <2>3, <3>2, <3>4, <3>5
  <2> QED BY <2>4, <2>5
<1>6. f[S] \in Nat
  BY <1>5
<1> QED BY <1>4, <1>6

\* The sum of one line is its amount.
LEMMA SumOfOne ==
  ASSUME NEW w, NEW x, w[x] \in Nat
  PROVE  SumOver(w, {x}) = w[x]
<1>1. IsFiniteSet({x})
  BY FS_Singleton
<1>2. PICK f : f = CHOOSE g : g = Summed(w, {x}, g)
  OBVIOUS
<1>3. f = Summed(w, {x}, f)
  BY <1>1, <1>2, SumExists
<1>4. SumOver(w, {x}) = f[{x}]
  BY <1>2 DEF SumOver, MapThenSumSet, MapThenFoldSet, Summed
<1>5. (CHOOSE y \in {x} : TRUE) = x /\ {x} \ {x} = {} /\ {x} \in SUBSET {x} /\ {} \in SUBSET {x}
  OBVIOUS
<1>6. Summed(w, {x}, f)[{x}] = w[x] + f[{}]
  BY <1>5, Zenon DEF Summed
<1>7. Summed(w, {x}, f)[{}] = 0
  BY <1>5 DEF Summed
<1>8. f[{x}] = w[x] + f[{}] /\ f[{}] = 0
  BY <1>3, <1>6, <1>7
<1> QED BY <1>4, <1>8

-----------------------------------------------------------------------------
(* OrderTotal.                                                                *)

USE TotalAssumption DEF TotalAssumption

\* Sums of the module are such folds, before and after a step.
LEMMA SumsAre ==
  SumOfLines = SumOver(lines, Present) /\ SumOfLines' = SumOver(lines', Present')
BY DEF SumOfLines, SumOver, MapThenSumSet, MapThenFoldSet

\* They change with the lines only.
LEMMA SumStays == lines' = lines => SumOfLines' = SumOfLines /\ Present' = Present
<1> SUFFICES ASSUME lines' = lines PROVE SumOfLines' = SumOfLines /\ Present' = Present
  OBVIOUS
<1>1. Present' = Present
  BY DEF Present
<1> QED BY <1>1, SumsAre

\* The sum of the lines is one that a total may take.
LEMMA LinesAddUp ==
  ASSUME lines \in [Lines -> {0} \cup Prices]
  PROVE  SumOfLines \in Nat
<1>1. Present \subseteq Lines /\ IsFiniteSet(Present)
  BY FS_Subset DEF Present
<1>2. \A l \in Present : lines[l] \in Nat
  BY DEF Present
<1> QED BY <1>1, <1>2, SumIsNatural, SumsAre

\* What a request keeps has the fields of a request.
LEMMA EditRows ==
  ASSUME NEW r \in EditStates, NEW n \in Nat, NEW force \in BOOLEAN, NEW had \in BOOLEAN,
         NEW st \in {"idle", "sync", "store", "counted", "building", "accepting", "issuing",
                    "typing"}
  PROVE  /\ [st |-> st, force |-> force, had |-> had, sum |-> n] \in EditStates
         /\ [r EXCEPT !.st = st] \in EditStates
         /\ [r EXCEPT !.st = st, !.sum = n] \in EditStates
         /\ NoEdit \in EditStates /\ r.sum \in Nat
<1>1. [st |-> st, force |-> force, had |-> had, sum |-> n] \in EditStates
  BY DEF EditStates
<1>2. [r EXCEPT !.st = st] \in EditStates
  BY DEF EditStates
<1>3. [r EXCEPT !.st = st, !.sum = n] \in EditStates
  <2>1. PICK q \in EditStates : q = [r EXCEPT !.st = st]
    BY <1>2
  <2>2. [r EXCEPT !.st = st, !.sum = n] = [q EXCEPT !.sum = n]
    BY <2>1
  <2>3. [q EXCEPT !.sum = n] \in EditStates
    BY DEF EditStates
  <2> QED BY <2>2, <2>3
<1>4. r.sum \in Nat
  BY DEF EditStates
<1>6. NoEdit \in EditStates
  BY DEF NoEdit, EditStates
<1> QED BY <1>1, <1>2, <1>3, <1>4, <1>6

\* Every step of a request puts one row of its kind into the place of another.
LEMMA EditSteps ==
  ASSUME OrderTypeOK, NEW p \in Editors, NEW l, NEW a \in Nat,
         \/ AddLine(p, l, a) \/ UpdateLine(p, l, a) \/ BuildLines(p, l, a)
         \/ AcceptLines(p, l, a) \/ RemoveLine(p, l)
         \/ Recalc(p) \/ SyncRead(p) \/ SyncStore(p) \/ CountLines(p) \/ StoreManual(p)
         \/ StartBuild(p) \/ StartAccept(p) \/ StartIssue(p, a) \/ IssueUpdatesOrder(p)
         \/ EditDies(p)
  PROVE  edit' \in [Editors -> EditStates]
<1> edit \in [Editors -> EditStates] /\ edit[p] \in EditStates
  BY DEF OrderTypeOK
<1>1. SUFFICES \E new \in EditStates : edit' = [edit EXCEPT ![p] = new]
  OBVIOUS
<1>2. CASE Answers(p)
  BY <1>2, EditRows DEF Answers
<1>3. CASE \E force \in BOOLEAN, had \in BOOLEAN : Syncs(p, force, had)
  BY <1>3, EditRows DEF Syncs
<1>4. ASSUME NEW st \in {"counted", "building", "accepting"},
             edit' = [edit EXCEPT ![p].st = st]
      PROVE  \E new \in EditStates : edit' = [edit EXCEPT ![p] = new]
  <2>1. edit' = [edit EXCEPT ![p] = [edit[p] EXCEPT !.st = st]]
    BY <1>4
  <2> QED BY <2>1, EditRows
<1>5. ASSUME NEW st \in {"store", "issuing", "typing"}, NEW n \in Nat,
             edit' = [edit EXCEPT ![p].st = st, ![p].sum = n]
      PROVE  \E new \in EditStates : edit' = [edit EXCEPT ![p] = new]
  <2>1. edit' = [edit EXCEPT ![p] = [edit[p] EXCEPT !.st = st, !.sum = n]]
    BY <1>5
  <2> QED BY <2>1, EditRows
<1>6. SumOfLines \in Nat
  BY LinesAddUp DEF OrderTypeOK
<1>7. CASE \/ AddLine(p, l, a) \/ UpdateLine(p, l, a) \/ BuildLines(p, l, a)
           \/ RemoveLine(p, l) \/ Recalc(p)
  BY <1>3, <1>7 DEF AddLine, UpdateLine, BuildLines, RemoveLine, Recalc
<1>8. CASE \/ AcceptLines(p, l, a) \/ SyncStore(p) \/ StoreManual(p) \/ IssueUpdatesOrder(p)
           \/ EditDies(p)
  BY <1>2, <1>8 DEF AcceptLines, SyncStore, StoreManual, IssueUpdatesOrder, EditDies
<1>9. CASE CountLines(p) \/ StartBuild(p) \/ StartAccept(p)
  BY <1>4, <1>9 DEF CountLines, StartBuild, StartAccept
<1>10. CASE StartIssue(p, a)
  BY <1>5, <1>10 DEF StartIssue
<1>11. CASE SyncRead(p)
  <2>1. CASE edit' = [edit EXCEPT ![p].st = "store", ![p].sum = 0]
    BY <1>5, <2>1
  <2>2. CASE edit' = [edit EXCEPT ![p].st = "store", ![p].sum = SumOfLines]
    BY <1>5, <1>6, <2>2
  <2> QED BY <1>2, <1>11, <2>1, <2>2 DEF SyncRead
<1> QED BY <1>7, <1>8, <1>9, <1>10, <1>11

\* And none stores a total that is no sum.
LEMMA OrderTypeStep ==
  ASSUME OrderTypeOK, [OrderNext]_orderVars
  PROVE  OrderTypeOK'
<1>1. Prices \cup {SumOfLines} \subseteq Nat /\ SumOfLines \in Nat
  BY LinesAddUp DEF OrderTypeOK
<1>2. CASE UNCHANGED orderVars
  BY <1>2 DEF orderVars, orderRow, OrderTypeOK
<1>3. CASE OrderNext
  <2>1. PICK p \in Editors :
          \/ \E l \in Lines, a \in Prices :
               AddLine(p, l, a) \/ UpdateLine(p, l, a) \/ BuildLines(p, l, a)
                 \/ AcceptLines(p, l, a)
          \/ \E l \in Lines : RemoveLine(p, l)
          \/ \E a \in Prices \cup {SumOfLines} : StartIssue(p, a)
          \/ IssueUpdatesOrder(p)
          \/ Recalc(p) \/ SyncRead(p) \/ SyncStore(p) \/ CountLines(p) \/ StoreManual(p)
          \/ StartBuild(p) \/ StartAccept(p) \/ EditDies(p)
    BY <1>3, Zenon DEF OrderNext
  <2>2. edit[p].sum \in Nat
    BY EditRows DEF OrderTypeOK
  <2>3. CASE \E l \in Lines, a \in Prices :
               AddLine(p, l, a) \/ UpdateLine(p, l, a) \/ BuildLines(p, l, a)
                 \/ AcceptLines(p, l, a)
    <3>1. PICK l \in Lines, a \in Prices :
            AddLine(p, l, a) \/ UpdateLine(p, l, a) \/ BuildLines(p, l, a)
              \/ AcceptLines(p, l, a)
      BY <2>3
    <3>2. a \in Nat
      OBVIOUS
    <3>3. edit' \in [Editors -> EditStates]
      BY <3>1, <3>2, EditSteps
    <3> QED BY <3>1, <3>2, <3>3
            DEF OrderTypeOK, EditBegins, AddLine, UpdateLine, BuildLines, AcceptLines
  <2>4. CASE \E l \in Lines : RemoveLine(p, l)
    <3>1. edit' \in [Editors -> EditStates]
      BY <2>4, EditSteps
    <3> QED BY <2>4, <3>1 DEF OrderTypeOK, EditBegins, RemoveLine
  <2>5. CASE \E a \in Prices \cup {SumOfLines} : StartIssue(p, a)
    <3>1. edit' \in [Editors -> EditStates]
      BY <1>1, <2>5, EditSteps
    <3> QED BY <2>5, <3>1 DEF OrderTypeOK, EditBegins, StartIssue, orderRow
  <2>6. CASE \/ IssueUpdatesOrder(p) \/ Recalc(p) \/ SyncRead(p) \/ SyncStore(p)
             \/ CountLines(p) \/ StoreManual(p) \/ StartBuild(p) \/ StartAccept(p)
             \/ EditDies(p)
    <3>1. edit' \in [Editors -> EditStates]
      BY <2>6, EditSteps
    <3> QED BY <2>2, <2>6, <3>1
            DEF OrderTypeOK, EditBegins, Recalc, SyncRead, SyncStore, CountLines, StoreManual,
                StartBuild, StartAccept, IssueUpdatesOrder, EditDies, orderRow
  <2> QED BY <2>1, <2>3, <2>4, <2>5, <2>6
<1> QED BY <1>2, <1>3

\* The fields have their types for any number of requests and lines: in particular a total
\* that requests recompute from lines of others is a sum, and never less than nothing
\* (orderLines.ts, recomputeTotal).
THEOREM OrderTypeCorrect == OrderSpec => []OrderTypeOK
<1>1. OrderInit => OrderTypeOK
  <2>1. NoEdit \in EditStates
    BY DEF NoEdit, EditStates
  <2> QED BY <2>1 DEF OrderInit, OrderTypeOK
<1>2. OrderTypeOK /\ [OrderNext]_orderVars => OrderTypeOK'
  BY OrderTypeStep
<1> QED BY <1>1, <1>2, PTL DEF OrderSpec

\* A request has the fields of one.
EditShape ==
  /\ DOMAIN lines = Lines /\ DOMAIN edit = Editors
  /\ \A p \in Editors :
       edit[p] = [st |-> edit[p].st, force |-> edit[p].force, had |-> edit[p].had,
                  sum |-> edit[p].sum]

\* While no line was ever there, no request is on a path that needs one.
NoLineInv ==
  ~everLines =>
    /\ \A l \in Lines : lines[l] = 0
    /\ \A p \in Editors : edit[p].st \notin {"counted", "issuing"}
    /\ ~bare => \A p \in Editors : /\ edit[p].st # "store"
                                   /\ edit[p].st = "sync" => ~edit[p].had
    /\ SnapshotKept

SnapshotInv == EditShape /\ NoLineInv

\* Such an order has no lines now.
LEMMA NoneIsPresent ==
  ASSUME SnapshotInv, ~everLines
  PROVE  Present = {}
BY DEF SnapshotInv, NoLineInv, Present

\* Steps that write a line.
LEMMA LineSteps ==
  ASSUME SnapshotInv, NEW p \in Editors, NEW l \in Lines, NEW a,
         AddLine(p, l, a) \/ UpdateLine(p, l, a) \/ RemoveLine(p, l) \/ BuildLines(p, l, a)
           \/ AcceptLines(p, l, a)
  PROVE  SnapshotInv'
<1>1. EditShape'
  BY DEF SnapshotInv, EditShape, AddLine, UpdateLine, RemoveLine, BuildLines, AcceptLines,
         Syncs, Answers, NoEdit
<1>2. everLines'
  BY NoneIsPresent
     DEF SnapshotInv, NoLineInv, AddLine, UpdateLine, RemoveLine, BuildLines, AcceptLines, Present
<1> QED BY <1>1, <1>2 DEF SnapshotInv, NoLineInv

\* Steps that write no line, and leave what was read of an order without lines.
LEMMA OtherSteps ==
  ASSUME SnapshotInv, NEW p \in Editors, NEW a,
         \/ Recalc(p) \/ SyncRead(p) \/ SyncStore(p) \/ CountLines(p) \/ StoreManual(p)
         \/ StartBuild(p) \/ StartAccept(p) \/ StartIssue(p, a) \/ IssueUpdatesOrder(p)
         \/ EditDies(p)
  PROVE  SnapshotInv'
<1> USE DEF SnapshotInv, EditShape, NoLineInv, SnapshotKept, orderRow, EditBegins
<1>1. CASE Recalc(p)
  BY <1>1 DEF Recalc, Syncs
<1>2. CASE SyncRead(p)
  BY <1>2, NoneIsPresent DEF SyncRead, Answers, NoEdit
<1>3. CASE SyncStore(p)
  BY <1>3 DEF SyncStore, Answers, NoEdit
<1>4. CASE CountLines(p)
  BY <1>4, NoneIsPresent DEF CountLines, MayBeManual
<1>5. CASE StoreManual(p)
  BY <1>5 DEF StoreManual, Answers, NoEdit
<1>6. CASE StartBuild(p)
  BY <1>6 DEF StartBuild
<1>7. CASE StartAccept(p)
  BY <1>7 DEF StartAccept
<1>8. CASE StartIssue(p, a)
  BY <1>8, NoneIsPresent DEF StartIssue
<1>9. CASE IssueUpdatesOrder(p)
  BY <1>9 DEF IssueUpdatesOrder, Answers, NoEdit
<1>10. CASE EditDies(p)
  BY <1>10 DEF EditDies, Answers, NoEdit
<1> QED BY <1>1, <1>2, <1>3, <1>4, <1>5, <1>6, <1>7, <1>8, <1>9, <1>10

\* The invariant holds initially and is kept.
LEMMA SnapshotInvariant == OrderSpec => []SnapshotInv
<1>1. OrderInit => SnapshotInv
  BY DEF OrderInit, SnapshotInv, EditShape, NoLineInv, SnapshotKept, NoEdit
<1>2. SnapshotInv /\ [OrderNext]_orderVars => SnapshotInv'
  <2> SUFFICES ASSUME SnapshotInv, [OrderNext]_orderVars PROVE SnapshotInv'
    OBVIOUS
  <2>1. CASE UNCHANGED orderVars
    BY <2>1 DEF orderVars, orderRow, SnapshotInv, EditShape, NoLineInv, SnapshotKept
  <2>2. CASE OrderNext
    <3>1. PICK p \in Editors :
            \/ \E l \in Lines, a \in Prices :
                 AddLine(p, l, a) \/ UpdateLine(p, l, a) \/ BuildLines(p, l, a)
                   \/ AcceptLines(p, l, a)
            \/ \E l \in Lines : RemoveLine(p, l)
            \/ \E a \in Prices \cup {SumOfLines} : StartIssue(p, a)
            \/ IssueUpdatesOrder(p)
            \/ Recalc(p) \/ SyncRead(p) \/ SyncStore(p) \/ CountLines(p) \/ StoreManual(p)
            \/ StartBuild(p) \/ StartAccept(p) \/ EditDies(p)
      BY <2>2, Zenon DEF OrderNext
    <3>2. CASE \E l \in Lines, a \in Prices :
                 AddLine(p, l, a) \/ UpdateLine(p, l, a) \/ BuildLines(p, l, a)
                   \/ AcceptLines(p, l, a)
      BY <3>2, LineSteps
    <3>3. CASE \E l \in Lines : RemoveLine(p, l)
      BY <3>3, LineSteps
    <3>4. CASE \E a \in Prices \cup {SumOfLines} : StartIssue(p, a)
      BY <3>4, OtherSteps
    <3> QED BY <3>1, <3>2, <3>3, <3>4, OtherSteps
  <2> QED BY <2>1, <2>2
<1> QED BY <1>1, <1>2, PTL DEF OrderSpec

\* An order that never had a line keeps the total of its deal or lead, however many requests
\* overlap, go half-way or come from an old page, unless a document's sum was given to it.
THEOREM SnapshotKeptAlways == OrderSpec => []SnapshotKept
<1>1. SnapshotInv => SnapshotKept
  BY DEF SnapshotInv, NoLineInv, SnapshotKept
<1> QED BY <1>1, SnapshotInvariant, PTL

\* What the total owes the lines between two requests.
Agrees ==
  /\ manual => Present # {}
  /\ ~manual /\ Present # {} /\ ~byForm => total = SumOfLines
  /\ Present = {} /\ everLines /\ ~byForm => total = 0

\* What a request that runs alone has read is still so.
ReadIsTrue(p) ==
  /\ edit[p].st = "sync" /\ Present = {} => edit[p].had
  /\ edit[p].st = "store" => edit[p].sum = IF Present = {} THEN 0 ELSE SumOfLines
  /\ edit[p].st = "counted" => Present # {}
  /\ edit[p].st \in {"building", "accepting"} => Present = {}
  /\ edit[p].st = "issuing" => Present # {} /\ edit[p].sum = SumOfLines

\* Only a request that has written a line and has not stored its sum owes anything.
CalmInv ==
  calm =>
    /\ \A p, q \in Editors : edit[p].st # "idle" /\ edit[q].st # "idle" => p = q
    /\ \A p \in Editors : ReadIsTrue(p)
    /\ (\A p \in Editors : edit[p].st \notin {"sync", "store"}) => Agrees

TotalInv == EditShape /\ lines \in [Lines -> {0} \cup Prices] /\ CalmInv

\* A request begins alone: the others are idle, and the total agrees.
LEMMA BeginsCalm ==
  ASSUME TotalInv, NEW p \in Editors, EditBegins(p), calm'
  PROVE  calm /\ Agrees /\ \A q \in Editors : edit[q].st = "idle"
BY DEF TotalInv, CalmInv, EditBegins

\* A request that runs alone leaves all others idle.
LEMMA RunsAlone ==
  ASSUME TotalInv, NEW p \in Editors, calm, edit[p].st # "idle"
  PROVE  /\ \A q \in Editors \ {p} : edit[q].st = "idle"
         /\ ReadIsTrue(p)
         /\ edit[p].st \notin {"sync", "store"} => Agrees
BY DEF TotalInv, CalmInv

\* If the one request that is left is p, only p and the rows have to be looked at.
LEMMA CalmAgain ==
  ASSUME NEW p \in Editors, \A q \in Editors \ {p} : edit'[q].st = "idle",
         ReadIsTrue(p)', edit'[p].st \notin {"sync", "store"} => Agrees'
  PROVE  CalmInv'
BY DEF CalmInv, ReadIsTrue

\* A line is added, changed or removed; a sum has to follow.
LEMMA WritesLine ==
  ASSUME TotalInv, NEW p \in Editors, NEW l \in Lines, NEW a,
         \/ RemoveLine(p, l)
         \/ a \in Prices /\ (AddLine(p, l, a) \/ UpdateLine(p, l, a) \/ BuildLines(p, l, a))
  PROVE  TotalInv'
<1>1. EditShape' /\ lines' \in [Lines -> {0} \cup Prices]
  BY DEF TotalInv, EditShape, AddLine, UpdateLine, RemoveLine, BuildLines, Syncs
<1>2. /\ edit'[p].st = "sync" /\ \A q \in Editors \ {p} : edit'[q] = edit[q]
      /\ lines'[l] # 0 \/ edit'[p].had
  BY DEF TotalInv, EditShape, AddLine, UpdateLine, RemoveLine, BuildLines, Syncs
<1>3. calm' => \A q \in Editors \ {p} : edit[q].st = "idle"
  <2>1. CASE EditBegins(p)
    BY <2>1, BeginsCalm
  <2>2. CASE BuildLines(p, l, a)
    BY <2>2, RunsAlone DEF BuildLines
  <2> QED BY <2>1, <2>2 DEF AddLine, UpdateLine, RemoveLine
<1>4. ReadIsTrue(p)'
  BY <1>2 DEF ReadIsTrue, Present
<1>5. CalmInv'
  <2>1. CASE ~calm'
    BY <2>1 DEF CalmInv
  <2>2. CASE calm'
    BY <1>2, <1>3, <1>4, <2>2, CalmAgain
  <2> QED BY <2>1, <2>2
<1> QED BY <1>1, <1>5 DEF TotalInv

\* The lines of an accepted proposal: the order had none, so that theirs is the whole sum.
LEMMA AcceptsLines ==
  ASSUME TotalInv, NEW p \in Editors, NEW l \in Lines, NEW a \in Prices, AcceptLines(p, l, a)
  PROVE  TotalInv'
<1>1. EditShape' /\ lines' \in [Lines -> {0} \cup Prices]
  BY DEF TotalInv, EditShape, AcceptLines, Answers, NoEdit
<1>2. /\ edit'[p].st = "idle" /\ \A q \in Editors \ {p} : edit'[q] = edit[q]
      /\ lines' = [lines EXCEPT ![l] = a] /\ total' = a /\ ~manual' /\ calm' = calm
      /\ edit[p].st = "accepting" /\ a \in Nat \ {0}
  BY DEF TotalInv, EditShape, AcceptLines, Answers, NoEdit
<1>3. CASE calm
  <2>1. Present = {} /\ \A q \in Editors \ {p} : edit[q].st = "idle"
    BY <1>2, <1>3, RunsAlone DEF ReadIsTrue
  <2>2. Present' = {l} /\ lines'[l] = a
    BY <1>2, <2>1 DEF Present, TotalInv
  <2>3. SumOfLines' = a
    BY <1>2, <2>2, SumOfOne, SumsAre
  <2>4. Agrees'
    BY <1>2, <2>2, <2>3 DEF Agrees
  <2>5. ReadIsTrue(p)'
    BY <1>2 DEF ReadIsTrue
  <2> QED BY <1>1, <1>2, <2>1, <2>4, <2>5, CalmAgain DEF TotalInv
<1>4. CASE ~calm
  BY <1>1, <1>2, <1>4 DEF TotalInv, CalmInv
<1> QED BY <1>3, <1>4

\* A request looks at the lines before it does anything.
LEMMA LooksAtLines ==
  ASSUME TotalInv, NEW p \in Editors, NEW a,
         Recalc(p) \/ CountLines(p) \/ StartBuild(p) \/ StartAccept(p) \/ StartIssue(p, a)
  PROVE  TotalInv'
<1>1. EditShape' /\ lines' \in [Lines -> {0} \cup Prices]
  BY DEF TotalInv, EditShape, Recalc, CountLines, StartBuild, StartAccept, StartIssue, Syncs,
         orderRow
<1>2. /\ EditBegins(p) /\ UNCHANGED <<lines, total, manual, byForm, everLines>>
      /\ \A q \in Editors \ {p} : edit'[q] = edit[q]
  BY DEF TotalInv, EditShape, Recalc, CountLines, StartBuild, StartAccept, StartIssue, Syncs,
         orderRow
<1>3. SumOfLines' = SumOfLines /\ Present' = Present
  BY <1>2, SumStays
<1>4. Agrees => Agrees'
  BY <1>2, <1>3 DEF Agrees
<1>5. ReadIsTrue(p)'
  <2>1. CASE Recalc(p)
    BY <1>1, <2>1 DEF Recalc, Syncs, ReadIsTrue, TotalInv, EditShape
  <2>2. CASE CountLines(p)
    BY <1>3, <2>2 DEF CountLines, MayBeManual, ReadIsTrue, TotalInv, EditShape
  <2>3. CASE StartBuild(p) \/ StartAccept(p)
    BY <1>3, <2>3 DEF StartBuild, StartAccept, ReadIsTrue, TotalInv, EditShape
  <2>4. CASE StartIssue(p, a)
    BY <1>3, <2>4 DEF StartIssue, ReadIsTrue, TotalInv, EditShape
  <2> QED BY <2>1, <2>2, <2>3, <2>4
<1>6. CASE calm'
  BY <1>1, <1>2, <1>4, <1>5, <1>6, BeginsCalm, CalmAgain DEF TotalInv
<1>7. CASE ~calm'
  BY <1>1, <1>7 DEF TotalInv, CalmInv
<1> QED BY <1>6, <1>7

\* It stores what it has read, or has nothing to store, or dies.
LEMMA StoresTotal ==
  ASSUME TotalInv, NEW p \in Editors,
         SyncRead(p) \/ SyncStore(p) \/ StoreManual(p) \/ IssueUpdatesOrder(p) \/ EditDies(p)
  PROVE  TotalInv'
<1>7. /\ EditShape /\ lines \in [Lines -> {0} \cup Prices]
      /\ lines' = lines /\ edit[p].st # "idle"
  BY DEF TotalInv, SyncRead, SyncStore, StoreManual, IssueUpdatesOrder, EditDies, orderRow
<1>6. calm' => calm
  <2>1. calm' = calm \/ calm' = (calm /\ edit[p].st \notin {"sync", "store"})
    BY DEF SyncRead, SyncStore, StoreManual, IssueUpdatesOrder, EditDies
  <2> QED BY <2>1
<1>1. EditShape' /\ lines' \in [Lines -> {0} \cup Prices]
  BY <1>7 DEF EditShape, SyncRead, SyncStore, StoreManual, IssueUpdatesOrder, EditDies, Answers,
              NoEdit
<1>2. \A q \in Editors \ {p} : edit'[q] = edit[q]
  BY <1>7 DEF EditShape, SyncRead, SyncStore, StoreManual, IssueUpdatesOrder, EditDies, Answers
<1>3. SumOfLines' = SumOfLines /\ Present' = Present
  BY <1>7, SumStays
<1>4. CASE ~calm'
  BY <1>1, <1>4 DEF TotalInv, CalmInv
<1>5. CASE calm'
  <2>0. /\ \A q \in Editors \ {p} : edit[q].st = "idle"
        /\ ReadIsTrue(p)
        /\ edit[p].st \notin {"sync", "store"} => Agrees
    BY <1>7, <1>6, <1>5, RunsAlone
  <2>1. ReadIsTrue(p)' /\ (edit'[p].st \notin {"sync", "store"} => Agrees')
    <3>1. CASE SyncRead(p)
      <4>1. CASE edit' = [edit EXCEPT ![p].st = "store", ![p].sum = 0] /\ Present = {}
        BY <1>7, <1>3, <4>1 DEF ReadIsTrue, EditShape
      <4>2. CASE Answers(p) /\ manual /\ Present # {} /\ UNCHANGED manual
        BY <1>7, <1>3, <4>2 DEF ReadIsTrue, EditShape, Answers, NoEdit, Agrees
      <4>3. CASE /\ Present # {}
                 /\ edit' = [edit EXCEPT ![p].st = "store", ![p].sum = SumOfLines]
        BY <1>7, <1>3, <4>3 DEF ReadIsTrue, EditShape
      <4> QED BY <2>0, <3>1, <4>1, <4>2, <4>3 DEF SyncRead, ReadIsTrue, orderRow
    <3>2. CASE SyncStore(p)
      BY <1>7, <1>3, <2>0, <3>2 DEF SyncStore, ReadIsTrue, Agrees, Answers, NoEdit, EditShape
    <3>3. CASE StoreManual(p)
      BY <1>7, <1>3, <2>0, <3>3 DEF StoreManual, ReadIsTrue, Agrees, Answers, NoEdit, EditShape
    <3>4. CASE IssueUpdatesOrder(p)
      BY <1>7, <1>3, <2>0, <3>4
         DEF IssueUpdatesOrder, ReadIsTrue, Agrees, Answers, NoEdit, EditShape
    <3>5. CASE EditDies(p)
      BY <1>7, <1>3, <1>5, <2>0, <3>5
         DEF EditDies, ReadIsTrue, Agrees, Answers, NoEdit, EditShape, orderRow
    <3> QED BY <3>1, <3>2, <3>3, <3>4, <3>5
  <2> QED BY <1>1, <1>2, <2>0, <2>1, CalmAgain DEF TotalInv
<1> QED BY <1>4, <1>5

\* Between requests that do not overlap and do not die half-way, the total is the sum of the
\* lines, or was entered by hand (orderLines.ts, acceptProposal.ts, generate.ts), for any
\* number of requests, lines and prices.
THEOREM TotalAgreesAlways == OrderSpec => []TotalAgrees
<1>1. OrderInit => TotalInv
  BY DEF OrderInit, TotalInv, EditShape, CalmInv, ReadIsTrue, Agrees, NoEdit, Present
<1>2. TotalInv /\ [OrderNext]_orderVars => TotalInv'
  <2> SUFFICES ASSUME TotalInv, [OrderNext]_orderVars PROVE TotalInv'
    OBVIOUS
  <2>1. CASE UNCHANGED orderVars
    <3>1. UNCHANGED <<lines, total, manual, edit, byForm, everLines, calm>>
      BY <2>1 DEF orderVars, orderRow
    <3>2. SumOfLines' = SumOfLines /\ Present' = Present
      BY <3>1, SumStays
    <3> QED BY <3>1, <3>2 DEF TotalInv, EditShape, CalmInv, ReadIsTrue, Agrees
  <2>2. CASE OrderNext
    <3>1. PICK p \in Editors :
            \/ \E l \in Lines, a \in Prices :
                 AddLine(p, l, a) \/ UpdateLine(p, l, a) \/ BuildLines(p, l, a)
                   \/ AcceptLines(p, l, a)
            \/ \E l \in Lines : RemoveLine(p, l)
            \/ \E a \in Prices \cup {SumOfLines} : StartIssue(p, a)
            \/ IssueUpdatesOrder(p)
            \/ Recalc(p) \/ SyncRead(p) \/ SyncStore(p) \/ CountLines(p) \/ StoreManual(p)
            \/ StartBuild(p) \/ StartAccept(p) \/ EditDies(p)
      BY <2>2, Zenon DEF OrderNext
    <3>2. CASE \E l \in Lines, a \in Prices :
                 AddLine(p, l, a) \/ UpdateLine(p, l, a) \/ BuildLines(p, l, a)
                   \/ AcceptLines(p, l, a)
      BY <3>2, WritesLine, AcceptsLines
    <3>3. CASE \E l \in Lines : RemoveLine(p, l)
      BY <3>3, WritesLine
    <3>4. CASE \E a \in Prices \cup {SumOfLines} : StartIssue(p, a)
      BY <3>4, LooksAtLines
    <3> QED BY <3>1, <3>2, <3>3, <3>4, LooksAtLines, StoresTotal
  <2> QED BY <2>1, <2>2
<1>3. TotalInv => TotalAgrees
  BY DEF TotalInv, CalmInv, Agrees, TotalAgrees
<1> QED BY <1>1, <1>2, <1>3, PTL DEF OrderSpec
================================================================================

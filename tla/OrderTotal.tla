------------------------------ MODULE OrderTotal ------------------------------
(***************************************************************************)
(* The lines of an order of the cabinet and its total                      *)
(* (lib/services/orders/orderLines.ts, the part of                         *)
(* lib/services/documents/acceptProposal.ts that copies the lines of an    *)
(* accepted proposal into an order which has none, and the part of         *)
(* generate.ts that lets a document of another sum change the order's).    *)
(*                                                                         *)
(* Every operation writes its lines first and then recomputes the total    *)
(* from what it reads, outside any transaction: read and store are steps   *)
(* of their own, and a request may die in between.                         *)
(***************************************************************************)
EXTENDS Integers, FiniteSets, FiniteSetsExt

CONSTANTS
  Editors,   \* requests that run at the same time
  Lines,     \* bound: the lines an order can have
  Prices,    \* amounts of a line
  Snapshot,  \* the total the order was created with (of the deal or the lead)
  ByHand     \* the total somebody enters by hand

ASSUME TotalAssumption ==
  /\ IsFiniteSet(Lines) /\ Prices \subseteq Nat \ {0}
  /\ Snapshot \in Nat /\ ByHand \in Nat

VARIABLES
  lines,      \* the amount of each line, 0 if there is no such line
  total,      \* Order.totalAmount
  manual,     \* Order.totalAmountIsManual
  edit,       \* the request of each editor
  byForm,     \* history: the total is that of lines typed for a document
  everLines,  \* history: the order has had a line
  bare,       \* history: an order that never had a line was recalculated
  calm        \* history: no two requests overlapped and none died half-way

orderRow == <<lines, total, manual>>
orderVars == <<orderRow, edit, byForm, everLines, bare, calm>>

NoEdit == [st |-> "idle", force |-> FALSE, had |-> FALSE, sum |-> 0]

EditStates == [st : {"idle", "sync", "store", "counted", "building", "accepting", "issuing",
                     "typing"},
          force : BOOLEAN, had : BOOLEAN, sum : Nat]

Present == {l \in Lines : lines[l] # 0}
SumOfLines == MapThenSumSet(LAMBDA l : lines[l], Present)

Syncs(p, force, had) ==
  edit' = [edit EXCEPT ![p] = [st |-> "sync", force |-> force, had |-> had, sum |-> 0]]
Answers(p) == edit' = [edit EXCEPT ![p] = NoEdit]

\* A request of p begins.
EditBegins(p) ==
  /\ edit[p].st = "idle"
  /\ calm' = (calm /\ \A q \in Editors : edit[q].st = "idle")

OrderInit ==
  /\ lines = [l \in Lines |-> 0] /\ total = Snapshot /\ manual = FALSE
  /\ edit = [p \in Editors |-> NoEdit]
  /\ byForm = FALSE /\ everLines = FALSE /\ bare = FALSE /\ calm = TRUE

-----------------------------------------------------------------------------
AddLine(p, l, a) ==
  /\ EditBegins(p) /\ lines[l] = 0
  /\ lines' = [lines EXCEPT ![l] = a] /\ everLines' = TRUE
  /\ Syncs(p, FALSE, FALSE)
  /\ UNCHANGED <<total, manual, byForm, bare>>

UpdateLine(p, l, a) ==
  /\ EditBegins(p) /\ lines[l] # 0
  /\ lines' = [lines EXCEPT ![l] = a]
  /\ Syncs(p, FALSE, FALSE)
  /\ UNCHANGED <<total, manual, byForm, everLines, bare>>

ForgetsItHadLines(p, l) ==                               \* mutant of RemoveLine
  /\ EditBegins(p) /\ lines[l] # 0
  /\ lines' = [lines EXCEPT ![l] = 0]
  /\ Syncs(p, FALSE, FALSE)
  /\ UNCHANGED <<total, manual, byForm, everLines, bare>>
RemoveLine(p, l) ==
  /\ EditBegins(p) /\ lines[l] # 0
  /\ lines' = [lines EXCEPT ![l] = 0]
  /\ Syncs(p, FALSE, TRUE)
  /\ UNCHANGED <<total, manual, byForm, everLines, bare>>

\* The page offers it beside a total entered by hand; nothing else keeps it from others.
Recalc(p) ==
  /\ EditBegins(p)
  /\ bare' = (bare \/ ~everLines)
  /\ Syncs(p, TRUE, TRUE)
  /\ UNCHANGED <<orderRow, byForm, everLines>>

\* The lines and the flag as the recomputation finds them.
SyncRead(p) ==
  /\ edit[p].st = "sync"
  /\ \/ /\ Present = {} /\ edit[p].had
        /\ edit' = [edit EXCEPT ![p].st = "store", ![p].sum = 0]
     \/ /\ ~(Present = {} /\ edit[p].had)
        /\ (manual /\ ~edit[p].force) \/ Present = {}
        /\ Answers(p)
     \/ /\ Present # {} /\ (~manual \/ edit[p].force)
        /\ edit' = [edit EXCEPT ![p].st = "store", ![p].sum = SumOfLines]
  /\ UNCHANGED <<orderRow, byForm, everLines, bare, calm>>

SyncStore(p) ==
  /\ edit[p].st = "store"
  /\ total' = edit[p].sum /\ manual' = FALSE /\ byForm' = FALSE
  /\ Answers(p)
  /\ UNCHANGED <<lines, everLines, bare, calm>>

AnyOrder == TRUE                                         \* mutant of MayBeManual
MayBeManual == Present # {}

CountLines(p) ==
  /\ EditBegins(p) /\ MayBeManual
  /\ edit' = [edit EXCEPT ![p].st = "counted"]
  /\ UNCHANGED <<orderRow, byForm, everLines, bare>>

StoreManual(p) ==
  /\ edit[p].st = "counted"
  /\ total' = ByHand /\ manual' = TRUE /\ byForm' = FALSE
  /\ Answers(p)
  /\ UNCHANGED <<lines, everLines, bare, calm>>

\* "Build the lines from the listeners": only for an order that has none.
StartBuild(p) ==
  /\ EditBegins(p) /\ Present = {}
  /\ edit' = [edit EXCEPT ![p].st = "building"]
  /\ UNCHANGED <<orderRow, byForm, everLines, bare>>

BuildLines(p, l, a) ==
  /\ edit[p].st = "building" /\ lines[l] = 0
  /\ lines' = [lines EXCEPT ![l] = a] /\ everLines' = TRUE
  /\ Syncs(p, FALSE, FALSE)
  /\ UNCHANGED <<total, manual, byForm, bare, calm>>

\* A proposal of the deal is accepted: the order had no lines when the request looked.
StartAccept(p) ==
  /\ EditBegins(p) /\ Present = {}
  /\ edit' = [edit EXCEPT ![p].st = "accepting"]
  /\ UNCHANGED <<orderRow, byForm, everLines, bare>>

AcceptLines(p, l, a) ==
  /\ edit[p].st = "accepting" /\ lines[l] = 0
  /\ lines' = [lines EXCEPT ![l] = a] /\ everLines' = TRUE
  /\ total' = a /\ manual' = FALSE /\ byForm' = FALSE
  /\ Answers(p)
  /\ UNCHANGED <<bare, calm>>

\* An invoice or an act whose lines do not add up to the total: those of the order, or
\* those typed in the form, and somebody says that the order shall have their sum.
StartIssue(p, a) ==
  /\ EditBegins(p) /\ a # total
  /\ \/ Present # {} /\ a = SumOfLines /\ edit' = [edit EXCEPT ![p].st = "issuing", ![p].sum = a]
     \/ edit' = [edit EXCEPT ![p].st = "typing", ![p].sum = a]
  /\ UNCHANGED <<orderRow, byForm, everLines, bare>>

IssueUpdatesOrder(p) ==
  /\ edit[p].st \in {"issuing", "typing"}
  /\ total' = edit[p].sum /\ manual' = FALSE /\ byForm' = (edit[p].st = "typing")
  /\ Answers(p)
  /\ UNCHANGED <<lines, everLines, bare, calm>>

\* The request dies, or the database refuses its next write.
EditDies(p) ==
  /\ edit[p].st # "idle"
  /\ Answers(p)
  /\ calm' = (calm /\ edit[p].st \notin {"sync", "store"})
  /\ UNCHANGED <<orderRow, byForm, everLines, bare>>

OrderNext ==
  \E p \in Editors :
    \/ \E l \in Lines, a \in Prices :
         AddLine(p, l, a) \/ UpdateLine(p, l, a) \/ BuildLines(p, l, a) \/ AcceptLines(p, l, a)
    \/ \E l \in Lines : RemoveLine(p, l)
    \/ \E a \in Prices \cup {SumOfLines} : StartIssue(p, a)
    \/ IssueUpdatesOrder(p)
    \/ Recalc(p) \/ SyncRead(p) \/ SyncStore(p) \/ CountLines(p) \/ StoreManual(p)
    \/ StartBuild(p) \/ StartAccept(p) \/ EditDies(p)

OrderSpec == OrderInit /\ [][OrderNext]_orderVars

-----------------------------------------------------------------------------
(* Properties.                                                              *)

\* The fields have their types.
OrderTypeOK ==
  /\ lines \in [Lines -> {0} \cup Prices]
  /\ total \in Nat /\ manual \in BOOLEAN
  /\ edit \in [Editors -> EditStates]
  /\ byForm \in BOOLEAN /\ everLines \in BOOLEAN /\ bare \in BOOLEAN /\ calm \in BOOLEAN

\* While requests do not overlap and none dies half-way, whatever their order: between
\* requests the total is the sum of the lines, or was entered by hand for an order that
\* still has lines (no "manual total without lines", which nothing could leave), or zero
\* for an order whose lines were all removed; only lines typed for a document may leave a
\* sum of their own, until the next edit of a line.
TotalAgrees ==
  calm /\ (\A p \in Editors : edit[p].st = "idle") =>
    /\ manual => Present # {}
    /\ ~manual /\ Present # {} /\ ~byForm => total = SumOfLines
    /\ Present = {} /\ everLines /\ ~byForm => total = 0

\* An order that never had a line keeps the total it was created with, however requests
\* overlap or die, unless somebody gave it the sum of a document, or asked for the
\* recalculation that no page offers then (docs/INVARIANTS.md, 9: the snapshot of the deal
\* or the lead).
SnapshotKept == ~everLines => ~manual /\ (~byForm /\ ~bare => total = Snapshot)
===============================================================================

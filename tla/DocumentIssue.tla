----------------------------- MODULE DocumentIssue -----------------------------
(***************************************************************************)
(* How papers of a company get their numbers and versions                  *)
(* (lib/services/documents/generate.ts, number.ts, versions.ts,            *)
(* upload-core.ts and upsertDocumentRecord of oneCSync/writers.ts).        *)
(* Invoices and acts of one order; they share a counter.                   *)
(*                                                                         *)
(* The cabinet issues a paper in three steps: a transaction takes the      *)
(* number and finds the basis, the file is made, a transaction writes the  *)
(* row and supersedes the version before.  A partial unique index          *)
(* on (company, type, number, version) stands behind the checks; it knows  *)
(* nothing of papers without a number: those of 1C and those uploaded.     *)
(***************************************************************************)
EXTENDS Integers, FiniteSets

CONSTANTS
  Desks,       \* requests, and the pull from 1C, that run at the same time
  MaxPapers,   \* bound: the papers, and so their versions
  MaxNumber    \* bound: the numbers

ASSUME IssueAssumption == MaxPapers \in Nat \ {0} /\ MaxNumber \in Nat

VARIABLES
  paper,     \* the rows of Document
  counter,   \* DocumentCounter.lastNumber
  desk,      \* what each request is about to write
  slips      \* history: what the code does not prevent

issueRows == <<paper, counter>>
issueVars == <<issueRows, desk, slips>>

PaperIds == 1..MaxPapers
Nobody == 0
NoNumber == 0

\* base is the number of the basis as it is printed in the paper.
NoPaper == [kind |-> "none", by |-> "nobody", number |-> NoNumber, version |-> 0, prev |-> Nobody,
            old |-> FALSE, parent |-> Nobody, base |-> NoNumber]
PaperRows == [kind : {"none", "invoice", "act"}, by : {"nobody", "cabinet", "user", "1C"},
              number : 0..MaxNumber, version : 0..MaxPapers, prev : 0..MaxPapers,
              old : BOOLEAN, parent : 0..MaxPapers, base : 0..MaxNumber]

Idle == [st |-> "idle", on |-> Nobody, draft |-> NoPaper]
DeskRows == [st : {"idle", "reserved", "replacing", "numbering", "receiving"},
             on : 0..MaxPapers, draft : PaperRows]

Exists(d) == paper[d].kind # "none"
Acting(d) == Exists(d) /\ ~paper[d].old

\* Ids are given in order.
NextPaper == {d \in PaperIds : ~Exists(d) /\ \A i \in 1..d - 1 : Exists(i)}

Taken(r) ==
  r.number # NoNumber /\ \E d \in PaperIds :
    paper[d].kind = r.kind /\ paper[d].number = r.number /\ paper[d].version = r.version

Writes(r) == FALSE                                       \* mutant of IndexRefuses
\* What the partial unique index says when the row is written.
IndexRefuses(r) == Taken(r)

Sits(c, st, on, r) == desk[c] = Idle /\ desk' = [desk EXCEPT ![c] = [st |-> st, on |-> on, draft |-> r]]
Rises(c) == desk' = [desk EXCEPT ![c] = Idle]

\* Replacements of a paper that are under way.
Replacing(d, sts) == {c \in Desks : desk[c].st \in sts /\ desk[c].draft.prev = d}
Slip(what, if) == slips' = IF if THEN slips \cup {what} ELSE slips

IssueInit ==
  /\ paper = [d \in PaperIds |-> NoPaper] /\ counter = 0
  /\ desk = [c \in Desks |-> Idle] /\ slips = {}

-----------------------------------------------------------------------------
(* The cabinet issues a paper.                                              *)

\* The basis of an act: an acting invoice, and it must have a number.
Bases(kind) ==
  IF kind = "act"
  THEN {d \in PaperIds : Acting(d) /\ paper[d].kind = "invoice" /\ paper[d].number # NoNumber}
  ELSE {Nobody}
NumberOf(d) == IF d = Nobody THEN NoNumber ELSE paper[d].number

ReserveNew(c, kind, p) ==
  /\ p \in Bases(kind) /\ counter < MaxNumber
  /\ counter' = counter + 1
  /\ Sits(c, "reserved", Nobody,
          [NoPaper EXCEPT !.kind = kind, !.by = "cabinet", !.number = counter + 1, !.version = 1,
                          !.parent = p, !.base = NumberOf(p)])
  /\ UNCHANGED <<paper, slips>>

\* Of any numbered paper, also one of 1C or an uploaded one: the number stays, the counter, too.
ReserveReissue(c, d, p) ==
  /\ Acting(d) /\ paper[d].number # NoNumber /\ p \in Bases(paper[d].kind)
  /\ paper[d].version < MaxPapers
  /\ Sits(c, "reserved", Nobody,
          [paper[d] EXCEPT !.by = "cabinet", !.version = @ + 1, !.prev = d,
                           !.parent = p, !.base = NumberOf(p)])
  /\ Slip("upload beside a replacement", Replacing(d, {"replacing"}) # {})
  /\ UNCHANGED issueRows

Superseded(d, r) ==
  [i \in PaperIds |-> IF i = d THEN r ELSE IF i = r.prev THEN [paper[i] EXCEPT !.old = TRUE]
                      ELSE paper[i]]

\* The transaction that the index refuses leaves nothing, and the file is removed.  A check
\* of the same before the file is made only refuses sooner.
WritePaper(c, d) ==
  /\ desk[c].st = "reserved" /\ d \in NextPaper
  /\ paper' = IF IndexRefuses(desk[c].draft) THEN paper ELSE Superseded(d, desk[c].draft)
  /\ Rises(c)
  /\ UNCHANGED <<counter, slips>>

-----------------------------------------------------------------------------
(* Uploaded papers.  They have no number, whatever the version before has.  *)

Uploaded == [NoPaper EXCEPT !.kind = "invoice", !.by = "user", !.version = 1]

Upload1(d) ==
  /\ d \in NextPaper
  /\ paper' = [paper EXCEPT ![d] = Uploaded]
  /\ UNCHANGED <<counter, desk, slips>>

StartReplace(c, d) ==
  /\ Acting(d) /\ paper[d].by = "user" /\ paper[d].version < MaxPapers
  /\ Sits(c, "replacing", Nobody,
          [Uploaded EXCEPT !.version = paper[d].version + 1, !.prev = d])
  /\ Slip("upload beside a replacement", Replacing(d, {"replacing", "reserved"}) # {})
  /\ UNCHANGED issueRows

StoreReplace(c, d) ==
  /\ desk[c].st = "replacing" /\ d \in NextPaper
  /\ paper' = Superseded(d, desk[c].draft)
  /\ Rises(c)
  /\ UNCHANGED <<counter, slips>>

-----------------------------------------------------------------------------
(* Numbers from outside: somebody types one, or 1C sends it.                *)

Anyone(d) == Exists(d)                                   \* mutant of MayBeNumbered
MayBeNumbered(d) == Exists(d) /\ paper[d].number = NoNumber

StartNumber(c, d, n) ==
  /\ MayBeNumbered(d)
  /\ Sits(c, "numbering", d, [paper[d] EXCEPT !.number = n])
  /\ Slip("two pens", \E k \in Desks : desk[k].on = d)
  /\ UNCHANGED issueRows

\* Written by id.  The check, which only refuses sooner, and the index compare the version,
\* too, so that a later version of an uploaded paper may get the number of another chain.
StoreNumber(c) ==
  LET d == desk[c].on  r == [paper[d] EXCEPT !.number = desk[c].draft.number] IN
  /\ desk[c].st = "numbering"
  /\ IF IndexRefuses(r) THEN UNCHANGED <<paper, slips>>
     ELSE /\ paper' = [paper EXCEPT ![d].number = r.number]
          /\ Slip("number of another chain",
                  paper[d].version > 1 /\ NumberOf(paper[d].prev) # r.number)
  /\ Rises(c)
  /\ UNCHANGED counter

\* A paper of 1C, without a number or with one no acting invoice has (else it is taken for
\* that one); a number that an older version has is left out.
StartReceive(c, n) ==
  LET r == [NoPaper EXCEPT !.kind = "invoice", !.by = "1C", !.number = n, !.version = 1] IN
  /\ \A d \in PaperIds :
       Acting(d) /\ paper[d].kind = "invoice" /\ n # NoNumber => paper[d].number # n
  /\ Sits(c, "receiving", Nobody, IF Taken(r) THEN [r EXCEPT !.number = NoNumber] ELSE r)
  /\ UNCHANGED <<issueRows, slips>>

StoreReceived(c, d) ==
  /\ desk[c].st = "receiving" /\ d \in NextPaper
  /\ paper' = IF IndexRefuses(desk[c].draft) THEN paper ELSE Superseded(d, desk[c].draft)
  /\ Rises(c)
  /\ UNCHANGED <<counter, slips>>

\* 1C sends a paper it made once more, as another type: the type of such a paper is its own.
\* A number it sends with it is filled in like one that is typed.
Retype(d, kind) ==
  /\ Exists(d) /\ paper[d].by = "1C" /\ kind # paper[d].kind
  /\ ~IndexRefuses([paper[d] EXCEPT !.kind = kind])
  /\ paper' = [paper EXCEPT ![d].kind = kind]
  /\ Slip("type changed by 1C", TRUE)
  /\ UNCHANGED <<counter, desk>>

\* The request dies, or the storage refuses its file; a number taken is not given back.
DeskFails(c) ==
  /\ desk[c] # Idle
  /\ Rises(c)
  /\ UNCHANGED <<issueRows, slips>>

IssueNext ==
  \/ \E d \in PaperIds : Upload1(d)
  \/ \E d \in PaperIds, kind \in {"invoice", "act"} : Retype(d, kind)
  \/ \E c \in Desks :
       \/ StoreNumber(c) \/ DeskFails(c)
       \/ \E kind \in {"invoice", "act"}, p \in 0..MaxPapers : ReserveNew(c, kind, p)
       \/ \E n \in 0..MaxNumber : StartReceive(c, n)
       \/ \E d \in PaperIds :
            \/ WritePaper(c, d) \/ StartReplace(c, d) \/ StoreReplace(c, d) \/ StoreReceived(c, d)
            \/ \E p \in 0..MaxPapers : ReserveReissue(c, d, p)
            \/ \E n \in 1..MaxNumber : StartNumber(c, d, n)

IssueSpec == IssueInit /\ [][IssueNext]_issueVars

-----------------------------------------------------------------------------
(* Properties.                                                              *)

\* The fields have their types.
IssueTypeOK ==
  /\ paper \in [PaperIds -> PaperRows] /\ counter \in 0..MaxNumber
  /\ desk \in [Desks -> DeskRows]
  /\ slips \subseteq {"two pens", "number of another chain", "upload beside a replacement",
                     "type changed by 1C"}

Replaces(d, e) == Exists(d) /\ paper[d].prev = e

\* However issues, reissues, failures half-way, uploads and papers of 1C meet: a paper is
\* superseded by exactly one version, so that a customer is never left without the acting
\* one nor given two, and no two acting papers of a kind have one number (generate.ts: "two
\* chains with one number are impossible").  Out of this: a number typed by two at once or
\* for a later version of an uploaded paper, an upload beside another replacement, and a
\* paper 1C sends again as another type.
OneActingPaper ==
  slips = {} =>
    \A d \in PaperIds : Exists(d) =>
      LET next == {e \in PaperIds : Replaces(e, d)}
          same == {e \in PaperIds : paper[e].number = paper[d].number} IN
      /\ paper[d].old => Cardinality(next) = 1
      /\ ~paper[d].old => next = {}
      /\ Acting(d) /\ paper[d].number # NoNumber =>
           \A e \in same : Acting(e) /\ paper[e].kind = paper[d].kind => e = d

\* An act names the number its invoice has: a number, once printed, does not change under
\* the papers that refer to it, unless two type it at once (number.ts: to change it "would
\* part the paper from the record").
BasisAsPrinted ==
  "two pens" \notin slips =>
    \A d \in PaperIds : paper[d].parent # Nobody => paper[d].base = NumberOf(paper[d].parent)
===============================================================================

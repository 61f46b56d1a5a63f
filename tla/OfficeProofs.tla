----------------------------- MODULE OfficeProofs -----------------------------
(***************************************************************************)
(* Theorems about DocumentIssue (papers, their numbers and versions) and   *)
(* CommissionRate, for any number of requests, papers and changes, and     *)
(* about MCOffice: the components of the office keep in their product      *)
(* what they keep alone.                                                   *)
(***************************************************************************)
EXTENDS MCOffice, OrderProofs, StaffProofs, TLAPS, FiniteSetTheorems

-----------------------------------------------------------------------------
(* DocumentIssue.                                                          *)

(* Papers: their rows and what is about to be written.                      *)

\* What every paper, and every draft, looks like.
PaperForm ==
  /\ \A d \in PaperIds : ~Exists(d) => paper[d] = NoPaper
  /\ \A d \in PaperIds : paper[d].by = "user" => paper[d].kind = "invoice"
Formed(t) == LET r == t.draft IN
  /\ t.st = "idle" => t = Idle
  /\ t.st = "numbering" => t.on \in PaperIds /\ Exists(t.on)
  /\ t.st # "numbering" =>
       /\ t.on = Nobody /\ r.old = FALSE /\ (r.by = "user" => r.kind = "invoice")
       /\ r.prev # Nobody => r.prev \in PaperIds /\ Exists(r.prev)
  /\ t.st \in {"reserved", "replacing", "receiving"} => r.kind # "none" /\ r.version > 0
  /\ t.st = "reserved" => r.number # NoNumber /\ (r.prev = Nobody => r.version = 1)
  /\ t.st = "replacing" =>
       r.number = NoNumber /\ r.prev # Nobody /\ r.parent = Nobody /\ r.kind = "invoice"
  /\ t.st = "receiving" => r.prev = Nobody /\ r.parent = Nobody /\ r.version = 1
DeskForm == \A c \in Desks : Formed(desk[c])

\* Unless two typed at once, who types a number is alone with a paper that has none.
Typing(t) == paper[t.on].number = NoNumber /\ t.draft.number # NoNumber
PenInv ==
  "two pens" \notin slips =>
    \A c \in Desks : desk[c].st = "numbering" =>
      Typing(desk[c]) /\ \A k \in Desks : desk[k].on = desk[c].on => k = c

\* What is printed, or about to be, is the number the basis has.
Names(r) ==
  r.parent \in PaperIds /\ r.base # NoNumber /\ paper[r.parent].number = r.base
BaseInv ==
  "two pens" \notin slips =>
    /\ \A d \in PaperIds : paper[d].parent # Nobody => Names(paper[d])
    /\ \A c \in Desks :
         desk[c].st = "reserved" /\ desk[c].draft.parent # Nobody => Names(desk[c].draft)

\* Two papers of one chain of a number.
Akin(d, e) ==
  /\ Exists(d) /\ paper[d].number # NoNumber
  /\ paper[e].kind = paper[d].kind /\ paper[e].number = paper[d].number

\* A number has one paper of each version up to the last, and those before the last are old;
\* a paper is old when another replaces it, and one at most does.
Unique ==
  \A d, e \in PaperIds : Akin(d, e) /\ paper[e].version = paper[d].version => d = e
NoGaps ==
  \A d \in PaperIds : Exists(d) /\ paper[d].number # NoNumber =>
    \A v \in 1..paper[d].version : \E e \in PaperIds : Akin(d, e) /\ paper[e].version = v
Ordered ==
  \A d, e \in PaperIds : Akin(d, e) /\ paper[d].version < paper[e].version => paper[d].old
Follows(d, p) ==
  /\ p \in PaperIds /\ Exists(p) /\ paper[p].old /\ paper[p].kind = paper[d].kind
  /\ paper[d].version = paper[p].version + 1
Linked ==
  \A d \in PaperIds : Exists(d) =>
    /\ paper[d].version > 0 /\ (paper[d].version > 1 => paper[d].prev # Nobody)
    /\ paper[d].prev # Nobody => Follows(d, paper[d].prev)
Succeeded == \A d \in PaperIds : Exists(d) /\ paper[d].old => \E e \in PaperIds : Replaces(e, d)
Once == \A d, e, f \in PaperIds : Replaces(e, d) /\ Replaces(f, d) => e = f
PapersInv == Unique /\ NoGaps /\ Ordered /\ Linked /\ Succeeded /\ Once

\* A replacement fits the paper it is for.  If that one was replaced meanwhile, the index
\* refuses a reissue; an upload is alone.
Fitting(t) == LET r == t.draft  d == r.prev IN
  t.st \in {"reserved", "replacing"} /\ d # Nobody =>
    /\ paper[d].kind = r.kind /\ r.version = paper[d].version + 1
    /\ t.st = "reserved" => paper[d].number = r.number /\ (paper[d].old => Taken(r))
    /\ t.st = "replacing" => ~paper[d].old
Alone ==
  \A c, k \in Desks :
    /\ desk[c].st = "replacing" /\ desk[k].st \in {"reserved", "replacing"}
    /\ desk[c].draft.prev = desk[k].draft.prev
    => k = c
DeskInv == (\A c \in Desks : Fitting(desk[c])) /\ Alone

ChainInv == slips = {} => PapersInv /\ DeskInv
IssueInv == IssueTypeOK /\ PaperForm /\ DeskForm /\ PenInv /\ BaseInv /\ ChainInv

-----------------------------------------------------------------------------
(* Types.                                                                   *)

\* The bounds are numbers.
LEMMA Bounds ==
  /\ 0 \in 0..MaxPapers /\ 1 \in 0..MaxPapers /\ 0 \in 0..MaxNumber
  /\ PaperIds \subseteq 0..MaxPapers /\ \A d \in 0..MaxPapers : d # Nobody => d \in PaperIds
  /\ \A d \in PaperIds : d # Nobody
BY IssueAssumption DEF IssueAssumption, PaperIds, Nobody

\* What is no paper yet has the type of one.
LEMMA RowTypes ==
  /\ NoPaper \in PaperRows /\ Uploaded \in PaperRows
  /\ Idle \in DeskRows /\ Idle.st = "idle" /\ Idle.on = Nobody /\ Idle.draft = NoPaper
<1>1. NoPaper \in PaperRows
  BY Bounds DEF NoPaper, PaperRows, NoNumber, Nobody
<1>2. Uploaded \in PaperRows
  BY Bounds DEF Uploaded, NoPaper, PaperRows, NoNumber, Nobody
<1>3. Idle \in DeskRows
  BY <1>1, Bounds DEF Idle, DeskRows, Nobody
<1> QED BY <1>1, <1>2, <1>3 DEF Idle

\* A paper has the fields of one, each of its type.
LEMMA PaperFields ==
  ASSUME NEW r \in PaperRows
  PROVE  /\ r.kind \in {"none", "invoice", "act"} /\ r.by \in {"nobody", "cabinet", "user", "1C"}
         /\ r.number \in 0..MaxNumber /\ r.version \in 0..MaxPapers /\ r.prev \in 0..MaxPapers
         /\ r.old \in BOOLEAN /\ r.parent \in 0..MaxPapers /\ r.base \in 0..MaxNumber
BY DEF PaperRows

\* The rows written: what they are, field by field.
NewRow(k, n, p, b) ==
  [NoPaper EXCEPT !.kind = k, !.by = "cabinet", !.number = n, !.version = 1,
                  !.parent = p, !.base = b]
ReissueRow(o, d, p, b) ==
  [o EXCEPT !.by = "cabinet", !.version = @ + 1, !.prev = d, !.parent = p, !.base = b]
UploadRow(o, d) == [Uploaded EXCEPT !.version = o.version + 1, !.prev = d]
ReceivedRow(n) == [NoPaper EXCEPT !.kind = "invoice", !.by = "1C", !.number = n, !.version = 1]
NumberRow(o, n) == [o EXCEPT !.number = n]

\* Every kind of draft has the type of a paper.
LEMMA ReissueDraft ==
  ASSUME NEW o \in PaperRows, o.version < MaxPapers, NEW d \in PaperIds,
         NEW p \in 0..MaxPapers, NEW b \in 0..MaxNumber
  PROVE  LET r == ReissueRow(o, d, p, b) IN
         /\ r \in PaperRows /\ r.kind = o.kind /\ r.by = "cabinet" /\ r.number = o.number
         /\ r.version = o.version + 1 /\ r.prev = d /\ r.old = o.old
         /\ r.parent = p /\ r.base = b
<1>1. o.version + 1 \in 0..MaxPapers /\ d \in 0..MaxPapers
  BY PaperFields, IssueAssumption DEF IssueAssumption, PaperIds
<1> QED BY <1>1 DEF ReissueRow, PaperRows

LEMMA UploadDraft ==
  ASSUME NEW o \in PaperRows, o.version < MaxPapers, NEW d \in PaperIds
  PROVE  LET r == UploadRow(o, d) IN
         /\ r \in PaperRows /\ r.kind = "invoice" /\ r.by = "user" /\ r.number = NoNumber
         /\ r.version = o.version + 1 /\ r.prev = d /\ r.old = FALSE
         /\ r.parent = Nobody /\ r.base = NoNumber
<1>1. o.version + 1 \in 0..MaxPapers /\ d \in 0..MaxPapers
  BY PaperFields, IssueAssumption DEF IssueAssumption, PaperIds
<1> QED BY <1>1, Bounds DEF UploadRow, Uploaded, NoPaper, PaperRows, NoNumber, Nobody

LEMMA ReceivedDraft ==
  ASSUME NEW n \in 0..MaxNumber
  PROVE  LET r == ReceivedRow(n) IN
         /\ r \in PaperRows /\ r.kind = "invoice" /\ r.by = "1C" /\ r.number = n
         /\ r.version = 1 /\ r.prev = Nobody /\ r.old = FALSE /\ r.parent = Nobody
BY Bounds DEF ReceivedRow, NoPaper, PaperRows, NoNumber, Nobody

LEMMA NumberDraft ==
  ASSUME NEW o \in PaperRows, NEW n \in 0..MaxNumber
  PROVE  LET r == NumberRow(o, n) IN
         /\ r \in PaperRows /\ r.kind = o.kind /\ r.by = o.by /\ r.number = n
         /\ r.version = o.version /\ r.prev = o.prev /\ r.old = o.old
         /\ r.parent = o.parent /\ r.base = o.base
BY DEF NumberRow, PaperRows

\* Numbers have their types.
LEMMA NumberOfType ==
  ASSUME IssueTypeOK, NEW d \in 0..MaxPapers
  PROVE  NumberOf(d) \in 0..MaxNumber
<1>1. CASE d = Nobody
  BY <1>1, Bounds DEF NumberOf, NoNumber
<1>2. CASE d # Nobody
  <2>1. paper[d] \in PaperRows
    BY <1>2, Bounds DEF IssueTypeOK
  <2> QED BY <1>2, <2>1, PaperFields DEF NumberOf
<1> QED BY <1>1, <1>2

-----------------------------------------------------------------------------
(* The five things a step does.                                             *)

\* A request starts: it sits down with a draft, and no paper changes.
SitsDown(c, st, on, r) ==
  /\ c \in Desks /\ st \in {"reserved", "replacing", "numbering", "receiving"}
  /\ on \in 0..MaxPapers /\ r \in PaperRows
  /\ desk[c] = Idle /\ desk'[c].st = st /\ desk'[c].on = on /\ desk'[c].draft = r
  /\ \A k \in Desks \ {c} : desk'[k] = desk[k]
  /\ desk' \in [Desks -> DeskRows] /\ paper' = paper

\* A request ends.
RisesUp(c) ==
  /\ c \in Desks /\ desk'[c] = Idle /\ \A k \in Desks \ {c} : desk'[k] = desk[k]
  /\ desk' \in [Desks -> DeskRows]

\* A paper is added, and the one before it gets old.
Adds(d, r) ==
  /\ d \in PaperIds /\ r \in PaperRows /\ ~Exists(d)
  /\ paper' \in [PaperIds -> PaperRows] /\ paper'[d] = r
  /\ \A e \in PaperIds \ {d} :
       /\ paper'[e].kind = paper[e].kind /\ paper'[e].by = paper[e].by
       /\ paper'[e].number = paper[e].number /\ paper'[e].version = paper[e].version
       /\ paper'[e].prev = paper[e].prev /\ paper'[e].parent = paper[e].parent
       /\ paper'[e].base = paper[e].base
       /\ paper'[e].old = (IF e = r.prev THEN TRUE ELSE paper[e].old)
       /\ e # r.prev => paper'[e] = paper[e]

\* A paper gets a number.
Numbers(d, n) ==
  /\ d \in PaperIds /\ n \in 0..MaxNumber
  /\ paper' \in [PaperIds -> PaperRows] /\ \A e \in PaperIds \ {d} : paper'[e] = paper[e]
  /\ paper'[d].kind = paper[d].kind /\ paper'[d].by = paper[d].by
  /\ paper'[d].number = n /\ paper'[d].version = paper[d].version
  /\ paper'[d].prev = paper[d].prev /\ paper'[d].parent = paper[d].parent
  /\ paper'[d].base = paper[d].base /\ paper'[d].old = paper[d].old

\* A desk taken, left, a paper added and one numbered, as functions.
LEMMA SitsIs ==
  ASSUME IssueTypeOK, NEW c \in Desks,
         NEW st \in {"reserved", "replacing", "numbering", "receiving"},
         NEW on \in 0..MaxPapers, NEW r \in PaperRows, Sits(c, st, on, r), paper' = paper
  PROVE  SitsDown(c, st, on, r)
<1>1. [st |-> st, on |-> on, draft |-> r] \in DeskRows
  BY DEF DeskRows
<1> QED BY <1>1 DEF SitsDown, Sits, IssueTypeOK

LEMMA RisesIs ==
  ASSUME IssueTypeOK, NEW c \in Desks, Rises(c)
  PROVE  RisesUp(c)
BY RowTypes DEF RisesUp, Rises, IssueTypeOK

LEMMA AddsIs ==
  ASSUME IssueTypeOK, NEW d \in NextPaper, NEW r \in PaperRows, paper' = Superseded(d, r)
  PROVE  Adds(d, r)
<1>1. d \in PaperIds /\ ~Exists(d)
  BY DEF NextPaper
<1>2. ASSUME NEW e \in PaperIds
      PROVE  LET o == [paper[e] EXCEPT !.old = TRUE] IN
             /\ o \in PaperRows /\ o.kind = paper[e].kind /\ o.by = paper[e].by
             /\ o.number = paper[e].number /\ o.version = paper[e].version
             /\ o.prev = paper[e].prev /\ o.parent = paper[e].parent
             /\ o.base = paper[e].base /\ o.old = TRUE
  <2>1. paper[e] \in PaperRows
    BY DEF IssueTypeOK
  <2> QED BY <2>1 DEF PaperRows
<1>3. \A e \in PaperIds :
        paper'[e] = IF e = d THEN r
                    ELSE IF e = r.prev THEN [paper[e] EXCEPT !.old = TRUE] ELSE paper[e]
  BY DEF Superseded
<1>4. ASSUME NEW e \in PaperIds PROVE paper'[e] \in PaperRows
  <2>1. paper[e] \in PaperRows
    BY DEF IssueTypeOK
  <2> QED BY <1>2, <1>3, <2>1
<1>5. paper' \in [PaperIds -> PaperRows]
  <2>1. paper' = [e \in PaperIds |-> paper'[e]]
    BY DEF Superseded
  <2> QED BY <1>4, <2>1
<1>6. paper'[d] = r
  BY <1>1, <1>3
<1>7. ASSUME NEW e \in PaperIds \ {d}
      PROVE  /\ paper'[e].kind = paper[e].kind /\ paper'[e].by = paper[e].by
             /\ paper'[e].number = paper[e].number /\ paper'[e].version = paper[e].version
             /\ paper'[e].prev = paper[e].prev /\ paper'[e].parent = paper[e].parent
             /\ paper'[e].base = paper[e].base
             /\ paper'[e].old = (IF e = r.prev THEN TRUE ELSE paper[e].old)
             /\ e # r.prev => paper'[e] = paper[e]
  <2>1. CASE e = r.prev
    <3> DEFINE o == [paper[e] EXCEPT !.old = TRUE]
    <3>1. paper'[e] = o
      BY <1>3, <2>1
    <3>2. /\ o.kind = paper[e].kind /\ o.by = paper[e].by
          /\ o.number = paper[e].number /\ o.version = paper[e].version
          /\ o.prev = paper[e].prev /\ o.parent = paper[e].parent
          /\ o.base = paper[e].base /\ o.old = TRUE
      BY <1>2
    <3> HIDE DEF o
    <3> QED BY <2>1, <3>1, <3>2
  <2>2. CASE e # r.prev
    BY <1>3, <2>2
  <2> QED BY <2>1, <2>2
<1> QED BY <1>1, <1>5, <1>6, <1>7 DEF Adds

LEMMA NumbersIs ==
  ASSUME IssueTypeOK, NEW d \in PaperIds, NEW n \in 0..MaxNumber,
         paper' = [paper EXCEPT ![d].number = n]
  PROVE  Numbers(d, n)
<1>1. paper[d] \in PaperRows
  BY DEF IssueTypeOK
<1>2. PICK o : o = NumberRow(paper[d], n)
  OBVIOUS
<1>3. /\ o \in PaperRows /\ o.kind = paper[d].kind /\ o.by = paper[d].by /\ o.number = n
      /\ o.version = paper[d].version /\ o.prev = paper[d].prev /\ o.old = paper[d].old
      /\ o.parent = paper[d].parent /\ o.base = paper[d].base
  BY <1>1, <1>2, NumberDraft
<1>4. paper' = [paper EXCEPT ![d] = o]
  BY <1>2 DEF NumberRow
<1> QED BY <1>3, <1>4 DEF Numbers, IssueTypeOK

\* Every step is one of these.
InVain(c) == RisesUp(c) /\ UNCHANGED <<paper, slips>>
Indexed(c, d) ==
  /\ RisesUp(c) /\ desk[c].st \in {"reserved", "receiving"} /\ ~Taken(desk[c].draft)
  /\ Adds(d, desk[c].draft) /\ slips' = slips
Replaced(c, d) == RisesUp(c) /\ desk[c].st = "replacing" /\ Adds(d, desk[c].draft) /\ slips' = slips
AddsFirst(d) == Adds(d, Uploaded) /\ UNCHANGED <<desk, slips>>
Numbered(c) == LET d == desk[c].on  r == NumberRow(paper[d], desk[c].draft.number) IN
  /\ RisesUp(c) /\ desk[c].st = "numbering" /\ ~Taken(r)
  /\ Numbers(d, desk[c].draft.number) /\ slips \subseteq slips'
  /\ slips' = {} =>
       ~(paper[d].version > 1 /\ NumberOf(paper[d].prev) # desk[c].draft.number)
\* 1C changes the type of a paper of its own.
Retyped(d) ==
  /\ Exists(d) /\ paper[d].by = "1C" /\ desk' = desk /\ slips' = slips \cup {"type changed by 1C"}
  /\ paper' \in [PaperIds -> PaperRows] /\ \A e \in PaperIds \ {d} : paper'[e] = paper[e]
  /\ paper'[d].kind # "none" /\ paper'[d].by = paper[d].by
  /\ paper'[d].number = paper[d].number /\ paper'[d].version = paper[d].version
  /\ paper'[d].prev = paper[d].prev /\ paper'[d].parent = paper[d].parent
  /\ paper'[d].base = paper[d].base /\ paper'[d].old = paper[d].old
SitsNew(c, r) ==
  /\ SitsDown(c, "reserved", Nobody, r) /\ slips' = slips
  /\ r.by = "cabinet" /\ r.prev = Nobody /\ r.version = 1 /\ r.number # NoNumber
  /\ r.kind # "none" /\ r.old = FALSE
  /\ r.parent # Nobody => r.base # NoNumber /\ paper[r.parent].number = r.base
SitsReissue(c, r, d) ==
  /\ SitsDown(c, "reserved", Nobody, r) /\ slips \subseteq slips'
  /\ slips' = {} => Replacing(d, {"replacing"}) = {}
  /\ Acting(d) /\ r.by = "cabinet" /\ r.prev = d /\ r.version = paper[d].version + 1
  /\ r.number # NoNumber /\ r.number = paper[d].number /\ r.kind = paper[d].kind
  /\ r.old = FALSE
  /\ r.parent # Nobody => r.base # NoNumber /\ paper[r.parent].number = r.base
SitsReplace(c, r, d) ==
  /\ SitsDown(c, "replacing", Nobody, r) /\ slips \subseteq slips'
  /\ slips' = {} => Replacing(d, {"replacing", "reserved"}) = {}
  /\ Acting(d) /\ paper[d].by = "user" /\ r.by = "user" /\ r.kind = "invoice"
  /\ r.prev = d /\ r.version = paper[d].version + 1
  /\ r.number = NoNumber /\ r.parent = Nobody /\ r.old = FALSE
SitsNumber(c, r, d) ==
  /\ SitsDown(c, "numbering", d, r) /\ slips \subseteq slips'
  /\ "two pens" \notin slips' => \A k \in Desks : desk[k].on # d
  /\ MayBeNumbered(d) /\ r.number # NoNumber
  /\ r.kind = paper[d].kind /\ r.version = paper[d].version
SitsReceive(c, r) ==
  /\ SitsDown(c, "receiving", Nobody, r) /\ slips' = slips
  /\ r.by = "1C" /\ r.kind = "invoice" /\ r.prev = Nobody /\ r.version = 1
  /\ r.parent = Nobody /\ r.old = FALSE
IssueKinds ==
  \/ \E c \in Desks : InVain(c) \/ Numbered(c)
  \/ \E d \in PaperIds : AddsFirst(d) \/ Retyped(d)
  \/ \E c \in Desks, d \in PaperIds : Indexed(c, d) \/ Replaced(c, d)
  \/ \E c \in Desks, r \in PaperRows : SitsNew(c, r) \/ SitsReceive(c, r)
  \/ \E c \in Desks, r \in PaperRows, d \in PaperIds :
       SitsReissue(c, r, d) \/ SitsReplace(c, r, d) \/ SitsNumber(c, r, d)

\* Every step is one of these kinds.
LEMMA IssueStepKinds ==
  ASSUME IssueTypeOK, DeskForm, IssueNext
  PROVE  IssueKinds
<1>0. \A c \in Desks : /\ desk[c].draft \in PaperRows /\ desk[c].on \in 0..MaxPapers
                        /\ desk[c].st \in {"idle", "reserved", "replacing", "numbering", "receiving"}
  BY DEF IssueTypeOK, DeskRows
<1>1. ASSUME NEW d \in PaperIds, Upload1(d) PROVE IssueKinds
  <2>1. Uploaded.prev = Nobody /\ Uploaded \in PaperRows
    BY RowTypes DEF Uploaded, NoPaper
  <2>2. paper' = Superseded(d, Uploaded)
    <3>1. \A i \in PaperIds : i # Nobody
      BY DEF PaperIds, Nobody
    <3>2. paper \in [PaperIds -> PaperRows]
      BY DEF IssueTypeOK
    <3> QED BY <1>1, <2>1, <3>1, <3>2 DEF Upload1, Superseded
  <2>3. Adds(d, Uploaded)
    BY <1>1, <2>1, <2>2, AddsIs DEF Upload1
  <2> QED BY <1>1, <2>3 DEF IssueKinds, AddsFirst, Upload1
<1>2. ASSUME NEW c \in Desks, StoreNumber(c) PROVE IssueKinds
  <2>1. RisesUp(c)
    BY <1>2, RisesIs DEF StoreNumber
  <2>2. /\ desk[c].st = "numbering" /\ desk[c].on \in PaperIds
        /\ desk[c].draft.number \in 0..MaxNumber
    BY <1>0, <1>2, PaperFields DEF StoreNumber, DeskForm, Formed
  <2>3. PICK r : r = NumberRow(paper[desk[c].on], desk[c].draft.number)
    OBVIOUS
  <2>8. paper[desk[c].on] \in PaperRows
    BY <2>2 DEF IssueTypeOK
  <2>4. r.number = desk[c].draft.number
    BY <2>2, <2>3, <2>8, NumberDraft
  <2>5. IF IndexRefuses(r) THEN UNCHANGED <<paper, slips>>
        ELSE /\ paper' = [paper EXCEPT ![desk[c].on].number = r.number]
             /\ Slip("number of another chain",
                     paper[desk[c].on].version > 1 /\ NumberOf(paper[desk[c].on].prev) # r.number)
    BY <1>2, <2>3 DEF StoreNumber, NumberRow
  <2>6. CASE IndexRefuses(r)
    BY <2>1, <2>5, <2>6 DEF IssueKinds, InVain
  <2>7. CASE ~IndexRefuses(r)
    <3>1. Numbers(desk[c].on, desk[c].draft.number)
      BY <2>2, <2>4, <2>5, <2>7, NumbersIs
    <3>2. /\ slips \subseteq slips'
          /\ slips' = {} => ~(paper[desk[c].on].version > 1
                             /\ NumberOf(paper[desk[c].on].prev) # desk[c].draft.number)
      BY <2>4, <2>5, <2>7 DEF Slip
    <3>3. ~Taken(NumberRow(paper[desk[c].on], desk[c].draft.number))
      BY <2>3, <2>7 DEF IndexRefuses
    <3> QED BY <2>1, <2>2, <3>1, <3>2, <3>3 DEF IssueKinds, Numbered
  <2> QED BY <2>6, <2>7
<1>3. ASSUME NEW c \in Desks, DeskFails(c) PROVE IssueKinds
  BY <1>3, RisesIs DEF DeskFails, IssueKinds, InVain, issueRows
<1>4. ASSUME NEW c \in Desks, NEW k \in {"invoice", "act"}, NEW p \in 0..MaxPapers,
             ReserveNew(c, k, p)
      PROVE  IssueKinds
  <2>1. counter + 1 \in 0..MaxNumber /\ counter + 1 # NoNumber
    <3>1. counter < MaxNumber
      BY <1>4 DEF ReserveNew
    <3>2. counter \in 0..MaxNumber /\ MaxNumber \in Nat
      BY IssueAssumption DEF IssueAssumption, IssueTypeOK
    <3> QED BY <3>1, <3>2 DEF NoNumber
  <2>7. PICK n \in 0..MaxNumber : n = counter + 1
    BY <2>1
  <2>2. PICK r : r = NewRow(k, n, p, NumberOf(p))
    OBVIOUS
  <2>3. /\ r \in PaperRows /\ r.kind = k /\ r.by = "cabinet" /\ r.number = n
        /\ r.version = 1 /\ r.prev = Nobody /\ r.old = FALSE /\ r.parent = p
        /\ r.base = NumberOf(p)
    <3>1. NumberOf(p) \in 0..MaxNumber
      BY NumberOfType
    <3>2. PICK b \in 0..MaxNumber : b = NumberOf(p)
      BY <3>1
    <3>3. r = NewRow(k, n, p, b)
      BY <2>2, <3>2
    <3> QED BY <3>2, <3>3, Bounds DEF NewRow, NoPaper, PaperRows, NoNumber, Nobody
  <2>4. Sits(c, "reserved", Nobody, r) /\ paper' = paper /\ slips' = slips
    BY <1>4, <2>7, <2>2 DEF ReserveNew, NewRow
  <2>5. SitsDown(c, "reserved", Nobody, r)
    BY <2>3, <2>4, SitsIs, Bounds DEF Nobody
  <2>6. p # Nobody => NumberOf(p) # NoNumber /\ paper[p].number = NumberOf(p)
    BY <1>4 DEF ReserveNew, Bases, NumberOf
  <2> QED BY <2>1, <2>7, <2>3, <2>4, <2>5, <2>6 DEF IssueKinds, SitsNew
<1>5. ASSUME NEW c \in Desks, NEW n \in 0..MaxNumber, StartReceive(c, n) PROVE IssueKinds
  <2>1. PICK q : q = ReceivedRow(n)
    OBVIOUS
  <2>2. /\ q \in PaperRows /\ q.kind = "invoice" /\ q.by = "1C" /\ q.number = n
        /\ q.version = 1 /\ q.prev = Nobody /\ q.old = FALSE /\ q.parent = Nobody
    BY <2>1, ReceivedDraft
  <2>3. PICK r \in {q, NumberRow(q, NoNumber)} :
          Sits(c, "receiving", Nobody, r) /\ paper' = paper /\ slips' = slips
    BY <1>5, <2>1 DEF StartReceive, ReceivedRow, NumberRow, issueRows
  <2>4. /\ r \in PaperRows /\ r.kind = "invoice" /\ r.by = "1C"
        /\ r.version = 1 /\ r.prev = Nobody /\ r.old = FALSE /\ r.parent = Nobody
    <3>1. CASE r = q
      BY <2>2, <3>1
    <3>2. CASE r = NumberRow(q, NoNumber)
      BY <2>2, <3>2, NumberDraft, Bounds DEF NoNumber
    <3> QED BY <2>3, <3>1, <3>2
  <2>5. SitsDown(c, "receiving", Nobody, r)
    BY <2>3, <2>4, SitsIs, Bounds DEF Nobody
  <2> QED BY <2>3, <2>4, <2>5 DEF IssueKinds, SitsReceive
<1>6. ASSUME NEW c \in Desks, NEW d \in PaperIds,
             WritePaper(c, d) \/ StoreReceived(c, d)
      PROVE  IssueKinds
  <2>1. /\ RisesUp(c) /\ slips' = slips /\ desk[c].st \in {"reserved", "receiving"}
        /\ d \in NextPaper
        /\ paper' = IF IndexRefuses(desk[c].draft) THEN paper ELSE Superseded(d, desk[c].draft)
    BY <1>6, RisesIs DEF WritePaper, StoreReceived
  <2>2. CASE IndexRefuses(desk[c].draft)
    BY <2>1, <2>2 DEF IssueKinds, InVain, Indexed, IndexRefuses
  <2>3. CASE ~IndexRefuses(desk[c].draft)
    <3>1. Adds(d, desk[c].draft)
      BY <1>0, <2>1, <2>3, AddsIs
    <3> QED BY <2>1, <2>3, <3>1 DEF IssueKinds, InVain, Indexed, IndexRefuses
  <2> QED BY <2>2, <2>3
<1>7. ASSUME NEW c \in Desks, NEW d \in PaperIds, StoreReplace(c, d) PROVE IssueKinds
  <2>1. /\ RisesUp(c) /\ slips' = slips /\ desk[c].st = "replacing"
        /\ d \in NextPaper /\ paper' = Superseded(d, desk[c].draft)
    BY <1>7, RisesIs DEF StoreReplace
  <2>2. Adds(d, desk[c].draft)
    BY <1>0, <2>1, AddsIs
  <2> QED BY <2>1, <2>2 DEF IssueKinds, Replaced
<1>8. ASSUME NEW c \in Desks, NEW d \in PaperIds, StartReplace(c, d) PROVE IssueKinds
  <2>1. PICK r : r = UploadRow(paper[d], d)
    OBVIOUS
  <2>2. paper[d] \in PaperRows /\ paper[d].version < MaxPapers
    BY <1>8 DEF StartReplace, IssueTypeOK
  <2>3. /\ r \in PaperRows /\ r.kind = "invoice" /\ r.by = "user" /\ r.number = NoNumber
        /\ r.version = paper[d].version + 1 /\ r.prev = d /\ r.old = FALSE
        /\ r.parent = Nobody
    BY <2>1, <2>2, UploadDraft
  <2>4. Sits(c, "replacing", Nobody, r) /\ paper' = paper
    BY <1>8, <2>1 DEF StartReplace, UploadRow, issueRows
  <2>5. SitsDown(c, "replacing", Nobody, r)
    BY <2>3, <2>4, SitsIs, Bounds DEF Nobody
  <2>6. /\ slips \subseteq slips' /\ Acting(d) /\ paper[d].by = "user"
        /\ slips' = {} => Replacing(d, {"replacing", "reserved"}) = {}
    BY <1>8 DEF StartReplace, Slip
  <2> QED BY <2>3, <2>5, <2>6 DEF IssueKinds, SitsReplace
<1>9. ASSUME NEW c \in Desks, NEW d \in PaperIds, NEW p \in 0..MaxPapers, ReserveReissue(c, d, p)
      PROVE  IssueKinds
  <2>1. PICK r : r = ReissueRow(paper[d], d, p, NumberOf(p))
    OBVIOUS
  <2>2. paper[d] \in PaperRows /\ paper[d].version < MaxPapers
    BY <1>9 DEF ReserveReissue, IssueTypeOK
  <2>3. /\ r \in PaperRows /\ r.kind = paper[d].kind /\ r.by = "cabinet"
        /\ r.number = paper[d].number /\ r.version = paper[d].version + 1 /\ r.prev = d
        /\ r.old = paper[d].old /\ r.parent = p /\ r.base = NumberOf(p)
    BY <2>1, <2>2, NumberOfType, ReissueDraft
  <2>4. Sits(c, "reserved", Nobody, r) /\ paper' = paper
    BY <1>9, <2>1 DEF ReserveReissue, ReissueRow, issueRows
  <2>5. SitsDown(c, "reserved", Nobody, r)
    BY <2>3, <2>4, SitsIs, Bounds DEF Nobody
  <2>6. p # Nobody => NumberOf(p) # NoNumber /\ paper[p].number = NumberOf(p)
    BY <1>9 DEF ReserveReissue, Bases, NumberOf
  <2>7. /\ slips \subseteq slips' /\ Acting(d) /\ paper[d].number # NoNumber
        /\ slips' = {} => Replacing(d, {"replacing"}) = {}
    BY <1>9 DEF ReserveReissue, Slip
  <2>8. paper[d].old = FALSE
    BY <2>2, <2>7, PaperFields DEF Acting
  <2> QED BY <2>3, <2>5, <2>6, <2>7, <2>8 DEF IssueKinds, SitsReissue
<1>10. ASSUME NEW c \in Desks, NEW d \in PaperIds, NEW n \in 1..MaxNumber, StartNumber(c, d, n)
       PROVE  IssueKinds
  <2>1. PICK r : r = NumberRow(paper[d], n)
    OBVIOUS
  <2>2. paper[d] \in PaperRows /\ n \in 0..MaxNumber /\ n # NoNumber
    <3>1. paper[d] \in PaperRows
      BY DEF IssueTypeOK
    <3>2. n \in 0..MaxNumber /\ n # 0
      OBVIOUS
    <3> QED BY <3>1, <3>2 DEF NoNumber
  <2>3. /\ r \in PaperRows /\ r.kind = paper[d].kind /\ r.number = n
        /\ r.version = paper[d].version
    BY <2>1, <2>2, NumberDraft
  <2>4. Sits(c, "numbering", d, r) /\ paper' = paper
    BY <1>10, <2>1 DEF StartNumber, NumberRow, issueRows
  <2>5. SitsDown(c, "numbering", d, r)
    BY <2>3, <2>4, SitsIs, Bounds
  <2>6. /\ slips \subseteq slips' /\ MayBeNumbered(d)
        /\ "two pens" \notin slips' => \A k \in Desks : desk[k].on # d
    BY <1>10 DEF StartNumber, Slip
  <2> QED BY <2>2, <2>3, <2>5, <2>6 DEF IssueKinds, SitsNumber
<1>11. ASSUME NEW d \in PaperIds, NEW k \in {"invoice", "act"}, Retype(d, k) PROVE IssueKinds
  <2>1. paper[d] \in PaperRows
    BY DEF IssueTypeOK
  <2>2. PICK o : o = [paper[d] EXCEPT !.kind = k]
    OBVIOUS
  <2>3. /\ o \in PaperRows /\ o.kind = k /\ o.by = paper[d].by /\ o.number = paper[d].number
        /\ o.version = paper[d].version /\ o.prev = paper[d].prev /\ o.old = paper[d].old
        /\ o.parent = paper[d].parent /\ o.base = paper[d].base
    BY <2>1, <2>2 DEF PaperRows
  <2>4. paper' = [paper EXCEPT ![d] = o]
    BY <1>11, <2>2 DEF Retype
  <2>5. paper' \in [PaperIds -> PaperRows] /\ paper'[d] = o /\ \A e \in PaperIds \ {d} : paper'[e] = paper[e]
    BY <2>3, <2>4 DEF IssueTypeOK
  <2>6. /\ Exists(d) /\ paper[d].by = "1C" /\ desk' = desk
        /\ slips' = slips \cup {"type changed by 1C"}
    BY <1>11 DEF Retype, Slip
  <2>7. Retyped(d)
    BY <2>3, <2>5, <2>6 DEF Retyped
  <2> QED BY <2>7 DEF IssueKinds
<1> QED
  BY <1>1, <1>2, <1>3, <1>4, <1>5, <1>6, <1>7, <1>8, <1>9, <1>10, <1>11 DEF IssueNext

\* Who sits down leaves the other desks alone.
LEMMA SitsLeave ==
  ASSUME NEW c, NEW r
  PROVE  /\ SitsNew(c, r) \/ SitsReceive(c, r) => paper' = paper
         /\ \A d : SitsReissue(c, r, d) \/ SitsReplace(c, r, d) \/ SitsNumber(c, r, d)
                   => paper' = paper
BY DEF SitsNew, SitsReceive, SitsReissue, SitsReplace, SitsNumber, SitsDown

\* Every step keeps the types.
LEMMA IssueTypeStep ==
  ASSUME IssueTypeOK, DeskForm, [IssueNext]_issueVars
  PROVE  IssueTypeOK'
<1>1. CASE IssueNext
  <2>1. paper' \in [PaperIds -> PaperRows] /\ desk' \in [Desks -> DeskRows]
    <3>1. IssueKinds /\ paper \in [PaperIds -> PaperRows] /\ desk \in [Desks -> DeskRows]
      BY <1>1, IssueStepKinds DEF IssueTypeOK
    <3>2. ASSUME NEW c \in Desks, InVain(c) \/ Numbered(c)
          PROVE  paper' \in [PaperIds -> PaperRows] /\ desk' \in [Desks -> DeskRows]
      BY <3>1, <3>2 DEF InVain, Numbered, RisesUp, Numbers
    <3>3. ASSUME NEW d \in PaperIds, AddsFirst(d) \/ \E c \in Desks : Indexed(c, d) \/ Replaced(c, d)
          PROVE  paper' \in [PaperIds -> PaperRows] /\ desk' \in [Desks -> DeskRows]
      BY <3>1, <3>3 DEF AddsFirst, Indexed, Replaced, RisesUp, Adds
    <3>4. ASSUME NEW c \in Desks, NEW st, NEW on, NEW r, SitsDown(c, st, on, r)
          PROVE  paper' \in [PaperIds -> PaperRows] /\ desk' \in [Desks -> DeskRows]
      BY <3>1, <3>4 DEF SitsDown
    <3>5. ASSUME NEW d \in PaperIds, Retyped(d)
          PROVE  paper' \in [PaperIds -> PaperRows] /\ desk' \in [Desks -> DeskRows]
      BY <3>1, <3>5 DEF Retyped
    <3> QED BY <3>1, <3>2, <3>3, <3>4, <3>5
            DEF IssueKinds, SitsNew, SitsReceive, SitsReissue, SitsReplace, SitsNumber
  <2>2. counter' \in 0..MaxNumber
    <3>1. counter \in 0..MaxNumber /\ MaxNumber \in Nat
      BY IssueAssumption DEF IssueAssumption, IssueTypeOK
    <3>2. counter' = counter \/ (counter < MaxNumber /\ counter' = counter + 1)
      BY <1>1
         DEF IssueNext, Upload1, StoreNumber, DeskFails, ReserveNew, StartReceive, WritePaper,
             StartReplace, StoreReplace, StoreReceived, ReserveReissue, StartNumber, Retype,
             issueRows
    <3> QED BY <3>1, <3>2
  <2>3. slips' \subseteq {"two pens", "number of another chain", "upload beside a replacement",
                          "type changed by 1C"}
    <3>1. slips' \subseteq slips \cup {"two pens", "number of another chain",
                                    "upload beside a replacement", "type changed by 1C"}
      BY <1>1
         DEF IssueNext, Upload1, StoreNumber, DeskFails, ReserveNew, StartReceive, WritePaper,
             StartReplace, StoreReplace, StoreReceived, ReserveReissue, StartNumber, Retype, Slip
    <3> QED BY <3>1 DEF IssueTypeOK
  <2> QED BY <2>1, <2>2, <2>3 DEF IssueTypeOK
<1>2. CASE UNCHANGED issueVars
  BY <1>2 DEF issueVars, issueRows, IssueTypeOK
<1> QED BY <1>1, <1>2

-----------------------------------------------------------------------------
(* What papers and drafts look like, and the numbers printed in them.       *)

\* Every step keeps the form of papers and drafts.
LEMMA FormStep ==
  ASSUME IssueTypeOK, PaperForm, DeskForm, IssueKinds
  PROVE  PaperForm' /\ DeskForm'
<1>1. /\ Idle.st = "idle" /\ Idle.on = Nobody /\ Idle.draft = NoPaper
      /\ NoPaper.old = FALSE /\ NoPaper.by = "nobody" /\ NoPaper.kind = "none"
      /\ NoPaper.prev = Nobody /\ Uploaded.prev = Nobody
      /\ Uploaded.by = "user" /\ Uploaded.kind = "invoice"
  BY RowTypes DEF NoPaper, Uploaded
<1>2. \A d \in PaperIds : d # Nobody
  BY DEF PaperIds, Nobody
<1>4. (\A d \in PaperIds : Exists(d) => Exists(d)') /\ PaperForm'
  <2>1. CASE paper' = paper
    BY <2>1 DEF PaperForm, Exists
  <2>2. ASSUME NEW d \in PaperIds, NEW r, r.kind # "none", r.by = "user" => r.kind = "invoice",
               Adds(d, r), r.prev # Nobody => r.prev \in PaperIds /\ Exists(r.prev)
        PROVE  (\A e \in PaperIds : Exists(e) => Exists(e)') /\ PaperForm'
    <3>1. ASSUME NEW e \in PaperIds, e # d
          PROVE  /\ paper'[e].kind = paper[e].kind /\ paper'[e].by = paper[e].by
                 /\ ~Exists(e) => paper'[e] = paper[e]
      BY <1>2, <2>2, <3>1 DEF Adds
    <3>2. paper'[d] = r /\ ~Exists(d)
      BY <2>2 DEF Adds
    <3> QED BY <2>2, <3>1, <3>2 DEF PaperForm, Exists
  <2>3. ASSUME NEW d \in PaperIds, NEW n, Numbers(d, n), Exists(d)
        PROVE  (\A e \in PaperIds : Exists(e) => Exists(e)') /\ PaperForm'
    BY <2>3 DEF PaperForm, Exists, Numbers
  <2>4. ASSUME NEW c \in Desks, desk[c].st \in {"reserved", "replacing", "receiving"}
        PROVE  LET r == desk[c].draft IN
               r.kind # "none" /\ (r.by = "user" => r.kind = "invoice")
               /\ (r.prev # Nobody => r.prev \in PaperIds /\ Exists(r.prev))
    <3>1. Formed(desk[c])
      BY DEF DeskForm
    <3> QED BY <2>4, <3>1 DEF Formed
  <2>5. \A c \in Desks : desk[c].st = "numbering" => Exists(desk[c].on)
    BY DEF DeskForm, Formed
  <2>6. ASSUME NEW c \in Desks, Numbered(c) PROVE (\A e \in PaperIds : Exists(e) => Exists(e)') /\ PaperForm'
    BY <2>3, <2>5, <2>6 DEF Numbered, Numbers
  <2>7. ASSUME NEW c \in Desks, NEW d \in PaperIds, Indexed(c, d) \/ Replaced(c, d)
        PROVE  (\A e \in PaperIds : Exists(e) => Exists(e)') /\ PaperForm'
    <3>1. desk[c].st \in {"reserved", "replacing", "receiving"} /\ Adds(d, desk[c].draft)
      BY <2>7 DEF Indexed, Replaced
    <3> QED BY <2>2, <2>4, <3>1
  <2>8. ASSUME NEW d \in PaperIds, AddsFirst(d)
        PROVE  (\A e \in PaperIds : Exists(e) => Exists(e)') /\ PaperForm'
    BY <1>1, <2>2, <2>8 DEF AddsFirst
  <2>10. ASSUME NEW d \in PaperIds, Retyped(d)
         PROVE  (\A e \in PaperIds : Exists(e) => Exists(e)') /\ PaperForm'
    BY <2>10 DEF PaperForm, Exists, Retyped
  <2>9. \/ paper' = paper
        \/ \E c \in Desks : Numbered(c)
        \/ \E d \in PaperIds : AddsFirst(d) \/ Retyped(d)
        \/ \E c \in Desks, d \in PaperIds : Indexed(c, d) \/ Replaced(c, d)
    BY SitsLeave DEF IssueKinds, InVain
  <2> QED BY <2>1, <2>6, <2>7, <2>8, <2>9, <2>10
<1>5. ASSUME NEW t, Formed(t) PROVE Formed(t)'
  BY <1>4, <1>5 DEF Formed
<1>6. Formed(Idle)'
  BY <1>1 DEF Formed
<1> DEFINE Fits(st, on, r) ==
      /\ st = "numbering" => on \in PaperIds /\ Exists(on)
      /\ st # "numbering" =>
           /\ on = Nobody /\ r.old = FALSE /\ (r.by = "user" => r.kind = "invoice")
           /\ r.kind # "none" /\ r.version > 0
           /\ r.prev # Nobody => r.prev \in PaperIds /\ Exists(r.prev)
      /\ st = "reserved" => r.number # NoNumber /\ (r.prev = Nobody => r.version = 1)
      /\ st = "replacing" =>
           r.number = NoNumber /\ r.prev # Nobody /\ r.parent = Nobody /\ r.kind = "invoice"
      /\ st = "receiving" => r.prev = Nobody /\ r.parent = Nobody /\ r.version = 1
<1>7. DeskForm'
  <2>1. ASSUME NEW c \in Desks, RisesUp(c) PROVE DeskForm'
    BY <1>5, <1>6, <2>1 DEF RisesUp, DeskForm
  <2>2. ASSUME desk' = desk PROVE DeskForm'
    BY <1>5, <2>2 DEF DeskForm
  <2>3. ASSUME NEW c \in Desks, NEW st, NEW on, NEW r, SitsDown(c, st, on, r), Fits(st, on, r)
        PROVE  DeskForm'
    <3>1. ASSUME NEW k \in Desks \ {c} PROVE Formed(desk[k])'
      <4>1. desk'[k] = desk[k] /\ Formed(desk[k])
        BY <2>3 DEF SitsDown, DeskForm
      <4>2. PICK t : t = desk[k]
        OBVIOUS
      <4>3. Formed(t)'
        BY <1>5, <4>1, <4>2
      <4> QED BY <4>1, <4>2, <4>3
    <3>2. \A e : Exists(e)' <=> Exists(e)
      BY <2>3 DEF SitsDown, Exists
    <3>3. Formed(desk[c])'
      BY <2>3, <3>2 DEF SitsDown, Fits, Formed
    <3> QED BY <3>1, <3>3 DEF DeskForm
  <2>4. ASSUME NEW d \in PaperIds
        PROVE  /\ paper[d].version + 1 > 0
               /\ Acting(d) => Exists(d) /\ paper[d].kind # "none"
               /\ MayBeNumbered(d) => Exists(d)
    <3>1. paper[d].version \in 0..MaxPapers
      BY PaperFields DEF IssueTypeOK
    <3> QED BY <3>1 DEF Acting, Exists, MayBeNumbered
  <2>5. ASSUME NEW c \in Desks, NEW r, SitsNew(c, r) \/ SitsReceive(c, r) PROVE DeskForm'
    <3>1. CASE SitsNew(c, r)
      <4>1. Fits("reserved", Nobody, r)
        BY <3>1 DEF SitsNew
      <4> HIDE DEF Fits
      <4> QED BY <2>3, <3>1, <4>1 DEF SitsNew
    <3>2. CASE SitsReceive(c, r)
      <4>1. Fits("receiving", Nobody, r)
        BY <3>2 DEF SitsReceive
      <4> HIDE DEF Fits
      <4> QED BY <2>3, <3>2, <4>1 DEF SitsReceive
    <3> QED BY <2>5, <3>1, <3>2
  <2>6. ASSUME NEW c \in Desks, NEW r, NEW d \in PaperIds,
               SitsReissue(c, r, d) \/ SitsReplace(c, r, d) \/ SitsNumber(c, r, d)
        PROVE  DeskForm'
    <3>1. CASE SitsReissue(c, r, d)
      <4>1. Fits("reserved", Nobody, r)
        BY <1>2, <2>4, <3>1 DEF SitsReissue
      <4> HIDE DEF Fits
      <4> QED BY <2>3, <3>1, <4>1 DEF SitsReissue
    <3>2. CASE SitsReplace(c, r, d)
      <4>1. Fits("replacing", Nobody, r)
        BY <1>2, <2>4, <3>2 DEF SitsReplace
      <4> HIDE DEF Fits
      <4> QED BY <2>3, <3>2, <4>1 DEF SitsReplace
    <3>3. CASE SitsNumber(c, r, d)
      <4>1. Fits("numbering", d, r)
        BY <1>2, <2>4, <3>3 DEF SitsNumber
      <4> HIDE DEF Fits
      <4> QED BY <2>3, <3>3, <4>1 DEF SitsNumber
    <3> QED BY <2>6, <3>1, <3>2, <3>3
  <2> QED BY <2>1, <2>2, <2>5, <2>6
          DEF IssueKinds, InVain, Numbered, AddsFirst, Indexed, Replaced, Retyped
<1> QED BY <1>4, <1>7

\* Who types a number is alone with a paper that has none.
LEMMA PenStep ==
  ASSUME IssueTypeOK, DeskForm, PenInv, IssueKinds
  PROVE  PenInv'
<1> SUFFICES ASSUME "two pens" \notin slips' PROVE PenInv'
  BY DEF PenInv
<1>1. "two pens" \notin slips
  BY DEF IssueKinds, InVain, Numbered, AddsFirst, Indexed, Replaced, Retyped, SitsNew,
         SitsReceive,         SitsReissue, SitsReplace, SitsNumber
<1>2. ASSUME NEW c \in Desks, desk[c].st = "numbering"
      PROVE  /\ Typing(desk[c]) /\ desk[c].on \in PaperIds /\ Exists(desk[c].on)
             /\ \A k \in Desks : desk[k].on = desk[c].on => k = c
  BY <1>1, <1>2 DEF PenInv, DeskForm, Formed
<1>3. Idle.st = "idle" /\ Idle.on = Nobody /\ \A d \in PaperIds : d # Nobody
  <2>1. \A d \in PaperIds : d # Nobody
    BY Bounds
  <2> QED BY <2>1, RowTypes
<1>4. ASSUME NEW c \in Desks, RisesUp(c),
             \A k \in Desks \ {c} : desk[k].st = "numbering" => Typing(desk[k])'
      PROVE  PenInv'
  BY <1>2, <1>3, <1>4 DEF RisesUp, PenInv
<1>5. ASSUME NEW c \in Desks, NEW d \in PaperIds, NEW r, Adds(d, r), desk[c].st = "numbering"
      PROVE  paper'[desk[c].on].number = paper[desk[c].on].number
             /\ paper'[desk[c].on].kind = paper[desk[c].on].kind
             /\ paper'[desk[c].on].version = paper[desk[c].on].version
  BY <1>2, <1>5 DEF Adds
<1>6. ASSUME NEW c \in Desks, InVain(c) PROVE PenInv'
  BY <1>2, <1>4, <1>6 DEF InVain, RisesUp, Typing
<1>7. ASSUME NEW c \in Desks, Numbered(c) PROVE PenInv'
  <2>1. /\ RisesUp(c) /\ desk[c].st = "numbering"
        /\ \A e \in PaperIds \ {desk[c].on} : paper'[e] = paper[e]
    BY <1>7 DEF Numbered, Numbers
  <2>2. ASSUME NEW k \in Desks \ {c}, desk[k].st = "numbering" PROVE Typing(desk[k])'
    <3>1. /\ desk[k].on \in PaperIds /\ desk[k].on # desk[c].on
          /\ desk'[k] = desk[k] /\ Typing(desk[k])
      BY <1>2, <2>1, <2>2 DEF RisesUp
    <3>2. paper'[desk[k].on] = paper[desk[k].on]
      BY <2>1, <3>1
    <3> QED BY <3>1, <3>2 DEF Typing
  <2> QED BY <1>4, <2>1, <2>2
<1>8. ASSUME NEW c \in Desks, NEW d \in PaperIds, Indexed(c, d) \/ Replaced(c, d) PROVE PenInv'
  <2>1. RisesUp(c) /\ Adds(d, desk[c].draft)
    BY <1>8 DEF Indexed, Replaced
  <2>2. ASSUME NEW k \in Desks \ {c}, desk[k].st = "numbering" PROVE Typing(desk[k])'
    <3>1. desk'[k] = desk[k] /\ Typing(desk[k])
      BY <1>2, <2>1, <2>2 DEF RisesUp
    <3>2. /\ paper'[desk[k].on].number = paper[desk[k].on].number
          /\ paper'[desk[k].on].kind = paper[desk[k].on].kind
          /\ paper'[desk[k].on].version = paper[desk[k].on].version
      BY <1>5, <2>1, <2>2
    <3> QED BY <3>1, <3>2 DEF Typing
  <2> QED BY <1>4, <2>1, <2>2
<1>9. ASSUME NEW d \in PaperIds, AddsFirst(d) PROVE PenInv'
  <2>1. desk' = desk /\ \A k \in Desks : desk[k].st = "numbering" => Typing(desk[k])'
    BY <1>2, <1>5, <1>9 DEF AddsFirst, Typing
  <2> QED BY <1>2, <2>1 DEF PenInv
<1>10. ASSUME NEW c \in Desks, NEW st, NEW on, NEW r, SitsDown(c, st, on, r),
              st = "numbering" => /\ \A k \in Desks : desk[k].on # on
                                  /\ paper[on].number = NoNumber /\ r.number # NoNumber,
              st # "numbering" => on = Nobody
       PROVE  PenInv'
  <2>1. ASSUME NEW k \in Desks \ {c} PROVE desk'[k] = desk[k]
    BY <1>10 DEF SitsDown
  <2>2. paper' = paper /\ desk'[c].st = st /\ desk'[c].on = on /\ desk'[c].draft = r
    BY <1>10 DEF SitsDown
  <2>3. ASSUME NEW k \in Desks \ {c}, desk[k].st = "numbering"
        PROVE  Typing(desk[k])' /\ \A l \in Desks : desk'[l].on = desk'[k].on => l = k
    <3>1. Typing(desk[k]) /\ desk[k].on # Nobody /\ \A l \in Desks : desk[l].on = desk[k].on => l = k
      BY <1>2, <1>3, <2>3
    <3>2. desk'[k] = desk[k] /\ Typing(desk[k])'
      BY <2>1, <2>2, <3>1 DEF Typing
    <3>3. desk'[c].on # desk[k].on
      BY <1>10, <2>2, <3>1
    <3> QED BY <2>1, <3>1, <3>2, <3>3
  <2>4. ASSUME st = "numbering"
        PROVE  Typing(desk[c])' /\ \A l \in Desks : desk'[l].on = desk'[c].on => l = c
    BY <1>10, <2>1, <2>2, <2>4 DEF Typing
  <2>5. ASSUME NEW k \in Desks, desk'[k].st = "numbering"
        PROVE  Typing(desk[k])' /\ \A l \in Desks : desk'[l].on = desk'[k].on => l = k
    <3>1. CASE k = c
      BY <2>2, <2>4, <2>5, <3>1
    <3>2. CASE k # c
      BY <2>1, <2>3, <2>5, <3>2
    <3> QED BY <3>1, <3>2
  <2> QED BY <2>5 DEF PenInv
<1>11. ASSUME NEW c \in Desks, NEW r, SitsNew(c, r) \/ SitsReceive(c, r) PROVE PenInv'
  BY <1>10, <1>11 DEF SitsNew, SitsReceive
<1>12. ASSUME NEW c \in Desks, NEW r, NEW d \in PaperIds, SitsReissue(c, r, d) \/ SitsReplace(c, r, d)
       PROVE  PenInv'
  BY <1>10, <1>12 DEF SitsReissue, SitsReplace
<1>13. ASSUME NEW c \in Desks, NEW r, NEW d \in PaperIds, SitsNumber(c, r, d) PROVE PenInv'
  BY <1>10, <1>13 DEF SitsNumber, MayBeNumbered
<1>14. ASSUME NEW d \in PaperIds, Retyped(d) PROVE PenInv'
  <2>1. desk' = desk /\ \A e \in PaperIds : paper'[e].number = paper[e].number
    BY <1>14 DEF Retyped
  <2>2. \A k \in Desks : desk[k].st = "numbering" => Typing(desk[k])'
    BY <1>2, <2>1 DEF Typing
  <2> QED BY <1>2, <2>1, <2>2 DEF PenInv
<1> QED BY <1>6, <1>7, <1>8, <1>9, <1>11, <1>12, <1>13, <1>14 DEF IssueKinds

\* What is printed stays the number of the basis.
LEMMA BaseStep ==
  ASSUME IssueTypeOK, PaperForm, DeskForm, PenInv, BaseInv, IssueKinds
  PROVE  BaseInv'
<1> SUFFICES ASSUME "two pens" \notin slips' PROVE BaseInv'
  BY DEF BaseInv
<1>1. "two pens" \notin slips
  BY DEF IssueKinds, InVain, Numbered, AddsFirst, Indexed, Replaced, Retyped, SitsNew,
         SitsReceive,         SitsReissue, SitsReplace, SitsNumber
<1>2. /\ \A d \in PaperIds : paper[d].parent # Nobody => Names(paper[d])
      /\ \A c \in Desks : desk[c].st = "reserved" /\ desk[c].draft.parent # Nobody => Names(desk[c].draft)
  BY <1>1 DEF BaseInv
<1>3. /\ Idle.st = "idle" /\ NoPaper.number = NoNumber /\ NoPaper.parent = Nobody
      /\ Uploaded.parent = Nobody
  BY RowTypes DEF NoPaper, Uploaded
\* A number that is there does not change.
<1>4. ASSUME NEW r, Names(r) PROVE Names(r)'
  <2>1. ASSUME NEW d \in PaperIds, NEW q, Adds(d, q) PROVE Names(r)'
    <3>1. r.parent # d
      BY <1>3, <1>4, <2>1 DEF Adds, Names, PaperForm
    <3> QED BY <1>4, <2>1, <3>1 DEF Adds, Names
  <2>2. ASSUME NEW c \in Desks, Numbered(c) PROVE Names(r)'
    <3>1. Typing(desk[c])
      BY <1>1, <2>2 DEF PenInv, Numbered
    <3>2. r.parent # desk[c].on
      BY <1>4, <3>1 DEF Typing, Names
    <3> QED BY <1>4, <2>2, <3>2 DEF Numbered, Numbers, Names
  <2>3. ASSUME paper' = paper PROVE Names(r)'
    BY <1>4, <2>3 DEF Names
  <2>4. ASSUME NEW d \in PaperIds, Retyped(d) PROVE Names(r)'
    BY <1>4, <2>4 DEF Names, Retyped
  <2> QED BY <2>1, <2>2, <2>3, <2>4, SitsLeave DEF IssueKinds, InVain, AddsFirst, Indexed, Replaced
<1>5. ASSUME NEW c \in Desks, desk'[c].st = "reserved", desk'[c].draft.parent # Nobody
      PROVE  Names(desk[c].draft)'
  <2>1. desk'[c] = desk[c] \/ Names(desk'[c].draft)
    <3>1. ASSUME NEW k \in Desks, RisesUp(k) PROVE desk'[c] = desk[c]
      BY <1>3, <1>5, <3>1 DEF RisesUp
    <3>2. ASSUME NEW k \in Desks, NEW r \in PaperRows, SitsNew(k, r) \/ SitsReceive(k, r)
          PROVE  desk'[c] = desk[c] \/ Names(desk'[c].draft)
      BY <1>5, <3>2, PaperFields, Bounds DEF SitsNew, SitsReceive, SitsDown, Names
    <3>3. ASSUME NEW k \in Desks, NEW r \in PaperRows, NEW d \in PaperIds,
                 SitsReissue(k, r, d) \/ SitsReplace(k, r, d) \/ SitsNumber(k, r, d)
          PROVE  desk'[c] = desk[c] \/ Names(desk'[c].draft)
      BY <1>5, <3>3, PaperFields, Bounds DEF SitsReissue, SitsReplace, SitsNumber, SitsDown, Names
    <3> QED BY <3>1, <3>2, <3>3 DEF IssueKinds, InVain, Numbered, AddsFirst, Indexed, Replaced, Retyped
  <2>2. PICK r : r = desk'[c].draft
    OBVIOUS
  <2>3. Names(r)
    BY <1>2, <1>5, <2>1, <2>2
  <2>4. Names(r)'
    BY <1>4, <2>3
  <2> QED BY <2>2, <2>4 DEF Names
<1>6. ASSUME NEW d \in PaperIds, paper'[d].parent # Nobody PROVE Names(paper[d])'
  <2>1. ASSUME NEW r, Names(r), r.parent = paper'[d].parent, r.base = paper'[d].base
        PROVE  Names(paper[d])'
    BY <1>4, <2>1 DEF Names
  <2>2. ASSUME NEW e \in PaperIds, NEW r, Adds(e, r), r.parent # Nobody => Names(r)
        PROVE  Names(paper[d])'
    <3>1. CASE d = e
      BY <1>6, <2>1, <2>2, <3>1 DEF Adds
    <3>2. CASE d # e
      <4>1. paper'[d].parent = paper[d].parent /\ paper'[d].base = paper[d].base
        BY <2>2, <3>2 DEF Adds
      <4>2. PICK q : q = paper[d]
        OBVIOUS
      <4> QED BY <1>2, <1>6, <2>1, <4>1, <4>2
    <3> QED BY <3>1, <3>2
  <2>3. ASSUME paper'[d].parent = paper[d].parent, paper'[d].base = paper[d].base
        PROVE  Names(paper[d])'
    <3>1. PICK q : q = paper[d]
      OBVIOUS
    <3> QED BY <1>2, <1>6, <2>1, <2>3, <3>1
  <2>4. ASSUME NEW c \in Desks, NEW e \in PaperIds, Indexed(c, e) \/ Replaced(c, e)
        PROVE  Names(paper[d])'
    <3>1. /\ Adds(e, desk[c].draft)
          /\ desk[c].draft.parent # Nobody => desk[c].st = "reserved"
      BY <2>4 DEF Indexed, Replaced, DeskForm, Formed
    <3>2. PICK r : r = desk[c].draft
      OBVIOUS
    <3> QED BY <1>2, <2>2, <3>1, <3>2
  <2>5. ASSUME NEW c \in Desks, Numbered(c) PROVE Names(paper[d])'
    <3>1. paper'[d].parent = paper[d].parent /\ paper'[d].base = paper[d].base
      BY <2>5 DEF Numbered, Numbers
    <3> QED BY <2>3, <3>1
  <2>6. ASSUME NEW e \in PaperIds, AddsFirst(e) PROVE Names(paper[d])'
    BY <1>3, <2>2, <2>6 DEF AddsFirst
  <2>7. ASSUME NEW e \in PaperIds, Retyped(e) PROVE Names(paper[d])'
    <3>1. paper'[d].parent = paper[d].parent /\ paper'[d].base = paper[d].base
      BY <2>7 DEF Retyped
    <3> QED BY <2>3, <3>1
  <2> QED BY <2>3, <2>4, <2>5, <2>6, <2>7, SitsLeave DEF IssueKinds, InVain
<1> QED BY <1>5, <1>6 DEF BaseInv

-----------------------------------------------------------------------------
(* Versions.                                                                *)

\* A paper that is added keeps the chains in order.
LEMMA AddKeepsPapers ==
  ASSUME IssueTypeOK, PapersInv, NEW d \in PaperIds, NEW r \in PaperRows, Adds(d, r),
         r.kind # "none", r.old = FALSE, r.version > 0,
         r.number # NoNumber => ~Taken(r),
         r.prev = Nobody => r.version = 1,
         r.prev # Nobody =>
           /\ r.prev \in PaperIds /\ Exists(r.prev) /\ ~paper[r.prev].old
           /\ paper[r.prev].kind = r.kind /\ r.version = paper[r.prev].version + 1
           /\ r.number # NoNumber => paper[r.prev].number = r.number
  PROVE  PapersInv'
<1>1. paper'[d] = r /\ ~Exists(d) /\ Exists(d)'
  BY DEF Adds, Exists
<1>2. ASSUME NEW e \in PaperIds, e # d
      PROVE  /\ paper'[e].kind = paper[e].kind /\ paper'[e].number = paper[e].number
             /\ paper'[e].version = paper[e].version /\ paper'[e].prev = paper[e].prev
             /\ paper[e].old => paper'[e].old
             /\ paper'[e].old => paper[e].old \/ e = r.prev
             /\ e = r.prev => paper'[e].old
             /\ Exists(e)' <=> Exists(e)
  <2>1. /\ paper'[e].kind = paper[e].kind /\ paper'[e].number = paper[e].number
        /\ paper'[e].version = paper[e].version /\ paper'[e].prev = paper[e].prev
        /\ paper'[e].old = IF e = r.prev THEN TRUE ELSE paper[e].old
    BY <1>2 DEF Adds
  <2> QED BY <2>1 DEF Exists
<1>3. ASSUME NEW e \in PaperIds PROVE paper[e].version \in Nat
  <2>1. paper[e] \in PaperRows
    BY DEF IssueTypeOK
  <2> QED BY <2>1, PaperFields
<1>4. r.version \in Nat /\ \A e \in PaperIds : e # Nobody
  BY PaperFields, Bounds
<1>5. ASSUME NEW e \in PaperIds, NEW f \in PaperIds, e # d, f # d
      PROVE  Akin(e, f)' <=> Akin(e, f)
  BY <1>2, <1>5 DEF Akin
<1>6. ASSUME NEW e \in PaperIds, NEW f \in PaperIds, Akin(e, f)
      PROVE  e # d /\ f # d /\ Exists(f) /\ Akin(f, e)
  BY <1>1, <1>6 DEF Akin, Exists
\* What the number had before is older.
<1>7. ASSUME NEW e \in PaperIds, e # d, Akin(e, d)' \/ Akin(d, e)'
      PROVE  paper[e].version < r.version /\ paper'[e].old
  <2>1. /\ Exists(e) /\ paper[e].number # NoNumber /\ r.number # NoNumber
        /\ paper[e].kind = r.kind /\ paper[e].number = r.number
    BY <1>1, <1>2, <1>7 DEF Akin, Exists
  <2>2. ~Taken(r) /\ paper[e].version > 0
    BY <2>1 DEF PapersInv, Linked
  <2>3. \A v \in 1..paper[e].version : v # r.version
    <3>1. ASSUME NEW v \in 1..paper[e].version, v = r.version PROVE FALSE
      <4>1. PICK f \in PaperIds : Akin(e, f) /\ paper[f].version = v
        BY <2>1, <3>1 DEF PapersInv, NoGaps
      <4> QED BY <2>1, <2>2, <3>1, <4>1 DEF Akin, Taken
    <3> QED BY <3>1
  <2>4. paper[e].version < r.version
    BY <1>3, <1>4, <2>2, <2>3
  <2>5. r.prev # Nobody
    BY <1>3, <2>2, <2>4
  <2>6. /\ r.prev \in PaperIds /\ Akin(e, r.prev) /\ r.version = paper[r.prev].version + 1
        /\ r.prev # d
    BY <1>1, <2>1, <2>5 DEF Akin
  <2>7. CASE paper[e].version = paper[r.prev].version
    BY <1>2, <1>7, <2>4, <2>6, <2>7 DEF PapersInv, Unique
  <2>8. CASE paper[e].version < paper[r.prev].version
    BY <1>2, <1>7, <2>4, <2>6, <2>8 DEF PapersInv, Ordered
  <2> QED BY <1>3, <1>4, <2>4, <2>6, <2>7, <2>8
<1>8. Unique'
  <2> SUFFICES ASSUME NEW e \in PaperIds, NEW f \in PaperIds, Akin(e, f)',
                      paper'[f].version = paper'[e].version
               PROVE  e = f
    BY DEF Unique
  <2>1. CASE e # d /\ f # d
    BY <1>2, <1>5, <2>1 DEF PapersInv, Unique
  <2>2. CASE e # d /\ f = d
    BY <1>1, <1>2, <1>3, <1>4, <1>7, <2>2
  <2>3. CASE e = d /\ f # d
    BY <1>1, <1>2, <1>3, <1>4, <1>7, <2>3
  <2> QED BY <2>1, <2>2, <2>3
<1>9. NoGaps'
  <2> SUFFICES ASSUME NEW e \in PaperIds, Exists(e)', paper'[e].number # NoNumber,
                      NEW v \in 1..paper'[e].version
               PROVE  \E f \in PaperIds : Akin(e, f)' /\ paper'[f].version = v
    BY DEF NoGaps
  <2>1. CASE e # d
    <3>1. PICK f \in PaperIds : Akin(e, f) /\ paper[f].version = v
      BY <1>2, <2>1 DEF PapersInv, NoGaps
    <3> QED BY <1>2, <1>5, <1>6, <3>1
  <2>2. CASE e = d /\ v = r.version
    BY <1>1, <2>2 DEF Akin
  <2>3. CASE e = d /\ v # r.version
    <3>1. v \in 1..r.version /\ v < r.version /\ r.number # NoNumber
      BY <1>1, <1>4, <2>3
    <3>2. /\ r.prev # Nobody /\ r.prev \in PaperIds /\ Exists(r.prev)
          /\ paper[r.prev].kind = r.kind /\ paper[r.prev].number = r.number
          /\ v \in 1..paper[r.prev].version
      BY <1>3, <1>4, <3>1
    <3>3. PICK f \in PaperIds : Akin(r.prev, f) /\ paper[f].version = v
      BY <3>1, <3>2 DEF PapersInv, NoGaps
    <3>4. f # d /\ paper[f].kind = r.kind /\ paper[f].number = r.number
      BY <1>6, <3>2, <3>3 DEF Akin
    <3> QED BY <1>1, <1>2, <2>3, <3>1, <3>3, <3>4 DEF Akin
  <2> QED BY <2>1, <2>2, <2>3
<1>10. Ordered'
  <2> SUFFICES ASSUME NEW e \in PaperIds, NEW f \in PaperIds, Akin(e, f)',
                      paper'[e].version < paper'[f].version
               PROVE  paper'[e].old
    BY DEF Ordered
  <2>1. CASE e # d /\ f # d
    BY <1>2, <1>5, <2>1 DEF PapersInv, Ordered
  <2>2. CASE e # d /\ f = d
    BY <1>7, <2>2
  <2>3. CASE e = d /\ f # d
    BY <1>1, <1>2, <1>3, <1>4, <1>7, <2>3
  <2>4. CASE e = d /\ f = d
    BY <1>1, <1>4, <2>4
  <2> QED BY <2>1, <2>2, <2>3, <2>4
<1>11. Linked'
  <2>1. /\ paper'[d].version > 0 /\ (paper'[d].version > 1 => paper'[d].prev # Nobody)
        /\ paper'[d].prev # Nobody => Follows(d, r.prev)'
    BY <1>1, <1>2 DEF Follows
  <2>2. ASSUME NEW e \in PaperIds, e # d, Exists(e)
        PROVE  /\ paper'[e].version > 0 /\ (paper'[e].version > 1 => paper'[e].prev # Nobody)
               /\ paper'[e].prev # Nobody => Follows(e, paper[e].prev)'
    <3>1. /\ paper[e].version > 0 /\ (paper[e].version > 1 => paper[e].prev # Nobody)
          /\ paper[e].prev # Nobody => Follows(e, paper[e].prev) /\ paper[e].prev # d
      BY <1>1, <2>2 DEF PapersInv, Linked, Follows
    <3> QED BY <1>2, <2>2, <3>1 DEF Follows
  <2>3. \A e \in PaperIds : e # d => (paper'[e].prev = paper[e].prev /\ (Exists(e)' <=> Exists(e)))
    BY <1>2
  <2> QED BY <1>1, <2>1, <2>2, <2>3 DEF Linked
<1>12. Succeeded'
  <2> SUFFICES ASSUME NEW e \in PaperIds, Exists(e)', paper'[e].old
               PROVE  \E f \in PaperIds : Replaces(f, e)'
    BY DEF Succeeded
  <2>1. e # d
    BY <1>1
  <2>2. CASE e = r.prev
    BY <1>1, <2>2 DEF Replaces
  <2>3. CASE e # r.prev
    <3>1. PICK f \in PaperIds : Replaces(f, e)
      BY <1>2, <2>1, <2>3 DEF PapersInv, Succeeded
    <3> QED BY <1>1, <1>2, <3>1 DEF Replaces
  <2> QED BY <2>2, <2>3
<1>13. Once'
  <2>1. ASSUME NEW e \in PaperIds, NEW x \in PaperIds, Replaces(e, x)', e # d
        PROVE  Replaces(e, x) /\ paper[x].old
    BY <1>2, <1>4, <2>1 DEF Replaces, PapersInv, Linked, Follows
  <2>2. ASSUME NEW x \in PaperIds, Replaces(d, x)' PROVE ~paper[x].old
    BY <1>1, <1>4, <2>2 DEF Replaces
  <2> QED BY <2>1, <2>2 DEF PapersInv, Once
<1> QED BY <1>8, <1>9, <1>10, <1>11, <1>12, <1>13 DEF PapersInv

\* So does one that gets its number.
LEMMA NumberKeepsPapers ==
  ASSUME IssueTypeOK, PapersInv, NEW d \in PaperIds, NEW n, Numbers(d, n), Exists(d),
         paper[d].number = NoNumber, n # NoNumber,
         \A e \in PaperIds : paper[e].kind = paper[d].kind /\ paper[e].number = n =>
           paper[e].version # paper[d].version,
         paper[d].version > 1 => NumberOf(paper[d].prev) = n
  PROVE  PapersInv'
<1>1. /\ paper'[d].kind = paper[d].kind /\ paper'[d].number = n /\ paper'[d].old = paper[d].old
      /\ paper'[d].version = paper[d].version /\ paper'[d].prev = paper[d].prev
      /\ \A e \in PaperIds : e # d => paper'[e] = paper[e]
      /\ \A e \in PaperIds : Exists(e)' <=> Exists(e)
  BY DEF Numbers, Exists
<1>2. ASSUME NEW e \in PaperIds PROVE paper[e].version \in Nat
  <2>1. paper[e] \in PaperRows
    BY DEF IssueTypeOK
  <2> QED BY <2>1, PaperFields
<1>3. ASSUME NEW e \in PaperIds, NEW f \in PaperIds, e # d, f # d
      PROVE  Akin(e, f)' <=> Akin(e, f)
  BY <1>1, <1>3 DEF Akin
<1>4. ASSUME NEW e \in PaperIds, NEW f \in PaperIds, Akin(e, f)
      PROVE  e # d /\ f # d /\ Exists(f)
  BY <1>4 DEF Akin, Exists
<1>5. Linked /\ paper[d].version > 0
  BY DEF PapersInv, Linked
<1>6. ASSUME paper[d].version > 1
      PROVE  LET p == paper[d].prev IN
             /\ p \in PaperIds /\ p # d /\ Exists(p) /\ paper[p].old /\ paper[p].kind = paper[d].kind
             /\ paper[d].version = paper[p].version + 1 /\ paper[p].number = n
  BY <1>2, <1>5, <1>6 DEF Linked, Follows, NumberOf
<1>7. ASSUME NEW e \in PaperIds, e # d, Akin(e, d)' \/ Akin(d, e)'
      PROVE  paper[e].version < paper[d].version /\ paper[e].old
  <2>1. Exists(e) /\ paper[e].kind = paper[d].kind /\ paper[e].number = n
    BY <1>1, <1>7 DEF Akin, Exists
  <2>2. \A v \in 1..paper[e].version : v # paper[d].version
    <3>1. ASSUME NEW v \in 1..paper[e].version, v = paper[d].version PROVE FALSE
      <4>1. PICK f \in PaperIds : Akin(e, f) /\ paper[f].version = v
        BY <2>1, <3>1 DEF PapersInv, NoGaps
      <4> QED BY <2>1, <3>1, <4>1 DEF Akin
    <3> QED BY <3>1
  <2>3. paper[e].version < paper[d].version /\ paper[e].version > 0
    BY <1>2, <1>5, <2>1, <2>2 DEF Linked
  <2>4. PICK p \in PaperIds : /\ p = paper[d].prev /\ paper[p].old /\ Akin(e, p)
                             /\ paper[d].version = paper[p].version + 1
    BY <1>2, <1>6, <2>1, <2>3 DEF Akin
  <2>5. CASE paper[e].version = paper[p].version
    BY <2>3, <2>4, <2>5 DEF PapersInv, Unique
  <2>6. CASE paper[e].version < paper[p].version
    BY <2>3, <2>4, <2>6 DEF PapersInv, Ordered
  <2> QED BY <1>2, <2>3, <2>4, <2>5, <2>6
<1>8. Unique'
  <2> SUFFICES ASSUME NEW e \in PaperIds, NEW f \in PaperIds, Akin(e, f)',
                      paper'[f].version = paper'[e].version
               PROVE  e = f
    BY DEF Unique
  <2>1. CASE e # d /\ f # d
    BY <1>1, <1>3, <2>1 DEF PapersInv, Unique
  <2>2. CASE e # d /\ f = d
    BY <1>1, <1>2, <1>7, <2>2
  <2>3. CASE e = d /\ f # d
    BY <1>1, <1>2, <1>7, <2>3
  <2> QED BY <2>1, <2>2, <2>3
<1>9. NoGaps'
  <2> SUFFICES ASSUME NEW e \in PaperIds, Exists(e)', paper'[e].number # NoNumber,
                      NEW v \in 1..paper'[e].version
               PROVE  \E f \in PaperIds : Akin(e, f)' /\ paper'[f].version = v
    BY DEF NoGaps
  <2>1. CASE e # d
    <3>1. PICK f \in PaperIds : Akin(e, f) /\ paper[f].version = v
      BY <1>1, <2>1 DEF PapersInv, NoGaps
    <3> QED BY <1>1, <1>3, <1>4, <3>1
  <2>2. CASE e = d /\ v = paper[d].version
    BY <1>1, <2>2 DEF Akin
  <2>3. CASE e = d /\ v # paper[d].version
    <3>1. v \in 1..paper[d].version /\ v < paper[d].version
      BY <1>1, <1>2, <2>3
    <3>2. PICK p \in PaperIds : /\ p = paper[d].prev /\ Exists(p) /\ paper[p].kind = paper[d].kind
                               /\ paper[p].number = n /\ v \in 1..paper[p].version
      BY <1>2, <1>6, <3>1
    <3>3. PICK f \in PaperIds : Akin(p, f) /\ paper[f].version = v
      BY <3>2 DEF PapersInv, NoGaps
    <3>4. f # d /\ paper[f].kind = paper[d].kind /\ paper[f].number = n
      BY <1>4, <3>2, <3>3 DEF Akin
    <3> QED BY <1>1, <2>3, <3>3, <3>4 DEF Akin
  <2> QED BY <2>1, <2>2, <2>3
<1>10. Ordered'
  <2> SUFFICES ASSUME NEW e \in PaperIds, NEW f \in PaperIds, Akin(e, f)',
                      paper'[e].version < paper'[f].version
               PROVE  paper'[e].old
    BY DEF Ordered
  <2>1. CASE e # d /\ f # d
    BY <1>1, <1>3, <2>1 DEF PapersInv, Ordered
  <2>2. CASE e # d /\ f = d
    BY <1>1, <1>7, <2>2
  <2>3. CASE e = d
    BY <1>1, <1>2, <1>7, <2>3
  <2> QED BY <2>1, <2>2, <2>3
<1>11. \A e \in PaperIds : /\ paper'[e].kind = paper[e].kind /\ paper'[e].old = paper[e].old
                           /\ paper'[e].version = paper[e].version /\ paper'[e].prev = paper[e].prev
  BY <1>1
<1>12. Linked'
  BY <1>1, <1>5, <1>11 DEF Linked, Follows
<1>13. Succeeded' /\ Once'
  BY <1>1, <1>11 DEF PapersInv, Succeeded, Once, Replaces
<1> QED BY <1>8, <1>9, <1>10, <1>12, <1>13 DEF PapersInv

\* Where nothing slipped, who numbers, adds or replaces does it for papers as they are.
LEMMA DeskStep ==
  ASSUME IssueTypeOK, PaperForm, DeskForm, PenInv, PapersInv, DeskInv, IssueKinds,
         slips = {}, slips' = {}
  PROVE  PapersInv' /\ DeskInv'
<1>1. /\ Idle.st = "idle" /\ Uploaded.prev = Nobody /\ Uploaded.kind = "invoice"
      /\ Uploaded.number = NoNumber /\ Uploaded.old = FALSE /\ Uploaded.version = 1
  BY RowTypes DEF Uploaded, NoPaper, NoNumber, Nobody
<1>2. ASSUME NEW c \in Desks PROVE desk[c].draft \in PaperRows /\ Formed(desk[c]) /\ Fitting(desk[c])
  BY DEF IssueTypeOK, DeskRows, DeskForm, DeskInv
<1>3. ASSUME NEW c \in Desks, NEW k \in Desks, desk[c].st = "replacing",
             desk[k].st \in {"reserved", "replacing"}, desk[c].draft.prev = desk[k].draft.prev
      PROVE  c = k
  BY <1>3 DEF DeskInv, Alone
\* Requests that end, and those that go on.
<1>4. ASSUME NEW c \in Desks, RisesUp(c), \A k \in Desks : k # c => Fitting(desk[k])'
      PROVE  DeskInv'
  <2>1. desk'[c].st = "idle" /\ \A k \in Desks : k # c => desk'[k] = desk[k]
    BY <1>1, <1>4 DEF RisesUp
  <2>2. Alone'
    BY <1>3, <2>1 DEF Alone
  <2>3. Fitting(desk[c])'
    BY <2>1 DEF Fitting
  <2> QED BY <1>4, <2>2, <2>3 DEF DeskInv
<1>5. CASE \E c \in Desks : InVain(c)
  <2>1. PICK c \in Desks : InVain(c)
    BY <1>5
  <2>2. paper' = paper /\ RisesUp(c)
    BY <2>1 DEF InVain
  <2>3. PapersInv'
    BY <2>2
       DEF PapersInv, Unique, NoGaps, Ordered, Linked, Follows, Succeeded, Once, Akin, Exists, Replaces
  <2>4. ASSUME NEW k \in Desks, desk'[k] = desk[k] PROVE Fitting(desk[k])'
    BY <1>2, <2>2, <2>4 DEF Fitting, Taken
  <2>5. \A k \in Desks : k # c => Fitting(desk[k])'
    BY <2>2, <2>4 DEF RisesUp
  <2> QED BY <1>4, <2>2, <2>3, <2>5
<1>6. ASSUME NEW d \in PaperIds, NEW r \in PaperRows, Adds(d, r), NEW k \in Desks,
             desk'[k] = desk[k], r.kind # "none",
             desk[k].st \in {"reserved", "replacing"} /\ desk[k].draft.prev = r.prev /\ r.prev # Nobody =>
               desk[k].st = "reserved" /\ r.kind = desk[k].draft.kind
               /\ r.version = desk[k].draft.version /\ r.number = desk[k].draft.number
      PROVE  Fitting(desk[k])'
  <2> SUFFICES ASSUME desk[k].st \in {"reserved", "replacing"}, desk[k].draft.prev # Nobody
               PROVE  Fitting(desk[k])'
    BY <1>6 DEF Fitting
  <2>1. PICK q : q = desk[k].draft
    OBVIOUS
  <2>2. PICK p \in PaperIds : p = q.prev /\ Exists(p) /\ p # d
    BY <1>2, <1>6, <2>1 DEF Formed, Adds
  <2>3. /\ paper[p].kind = q.kind /\ q.version = paper[p].version + 1
        /\ desk[k].st = "reserved" => paper[p].number = q.number /\ (paper[p].old => Taken(q))
        /\ desk[k].st = "replacing" => ~paper[p].old
    BY <1>2, <2>1, <2>2 DEF Fitting
  <2>4. /\ paper'[p].kind = paper[p].kind /\ paper'[p].version = paper[p].version
        /\ paper'[p].number = paper[p].number
        /\ paper'[p].old = IF p = r.prev THEN TRUE ELSE paper[p].old
    BY <1>6, <2>2 DEF Adds
  <2>5. q.kind # "none" /\ (desk[k].st = "reserved" => q.number # NoNumber)
    BY <1>2, <2>1 DEF Formed
  <2>6. ASSUME Taken(q) PROVE Taken(q)'
    <3>1. PICK e \in PaperIds : paper[e].kind = q.kind /\ paper[e].number = q.number
                               /\ paper[e].version = q.version
      BY <2>6 DEF Taken
    <3>2. e # d
      BY <1>6, <2>5, <3>1 DEF Adds, Exists
    <3>3. paper'[e].kind = paper[e].kind /\ paper'[e].number = paper[e].number
          /\ paper'[e].version = paper[e].version
      BY <1>6, <3>2 DEF Adds
    <3> QED BY <2>6, <3>1, <3>3 DEF Taken
  <2>7. CASE p = r.prev
    <3>1. desk[k].st = "reserved" /\ paper'[d].kind = q.kind /\ paper'[d].version = q.version
          /\ paper'[d].number = q.number
      BY <1>6, <2>1, <2>2, <2>7, Bounds DEF Adds
    <3>2. Taken(q)'
      BY <2>5, <3>1 DEF Taken
    <3> QED BY <1>6, <2>1, <2>2, <2>3, <2>4, <3>1, <3>2 DEF Fitting
  <2>8. CASE p # r.prev
    BY <1>6, <2>1, <2>2, <2>3, <2>4, <2>6, <2>8 DEF Fitting
  <2> QED BY <2>7, <2>8
<1>7. CASE \E c \in Desks, d \in PaperIds : Indexed(c, d) \/ Replaced(c, d)
  <2>1. PICK c \in Desks, d \in PaperIds : Indexed(c, d) \/ Replaced(c, d)
    BY <1>7
  <2>2. PICK r : r = desk[c].draft
    OBVIOUS
  <2>3. RisesUp(c) /\ Adds(d, r) /\ r \in PaperRows
    BY <1>2, <2>1, <2>2 DEF Indexed, Replaced
  <2>4. /\ r.kind # "none" /\ r.old = FALSE /\ r.version > 0
        /\ r.prev = Nobody => r.version = 1
        /\ r.prev # Nobody => r.prev \in PaperIds /\ Exists(r.prev) /\ desk[c].st # "receiving"
    BY <1>2, <2>1, <2>2 DEF Indexed, Replaced, Formed
  <2>5. r.number # NoNumber => ~Taken(r)
    BY <1>2, <2>1, <2>2 DEF Indexed, Replaced, Formed
  <2>6. ASSUME r.prev # Nobody
        PROVE  /\ ~paper[r.prev].old
               /\ paper[r.prev].kind = r.kind /\ r.version = paper[r.prev].version + 1
               /\ r.number # NoNumber => paper[r.prev].number = r.number
    <3>1. Fitting(desk[c]) /\ desk[c].st \in {"reserved", "replacing"}
      BY <1>2, <2>1, <2>4, <2>6 DEF Indexed, Replaced
    <3>2. desk[c].st = "reserved" => ~Taken(r)
      BY <2>1, <2>2 DEF Indexed, Replaced
    <3>3. desk[c].st = "replacing" => r.number = NoNumber
      BY <1>2, <2>2 DEF Formed
    <3> QED BY <2>2, <2>6, <3>1, <3>2, <3>3 DEF Fitting
  <2>7. PapersInv'
    BY <2>3, <2>4, <2>5, <2>6, AddKeepsPapers
  <2>8. ASSUME NEW k \in Desks, k # c PROVE Fitting(desk[k])'
    <3>1. desk'[k] = desk[k]
      BY <2>3, <2>8 DEF RisesUp
    <3>2. ASSUME desk[k].st \in {"reserved", "replacing"}, desk[k].draft.prev = r.prev, r.prev # Nobody
          PROVE  desk[k].st = "reserved" /\ r.kind = desk[k].draft.kind
                 /\ r.version = desk[k].draft.version /\ r.number = desk[k].draft.number
      <4>1. desk[c].st = "reserved" /\ desk[k].st = "reserved"
        BY <1>3, <2>1, <2>2, <2>4, <2>8, <3>2 DEF Indexed, Replaced
      <4> QED BY <1>2, <2>2, <3>2, <4>1 DEF Fitting
    <3> QED BY <1>6, <2>3, <2>4, <3>1, <3>2
  <2> QED BY <1>4, <2>3, <2>7, <2>8
<1>8. CASE \E d \in PaperIds : AddsFirst(d)
  <2>1. PICK d \in PaperIds : Adds(d, Uploaded) /\ desk' = desk
    BY <1>8 DEF AddsFirst
  <2>2. PapersInv'
    <3>1. PICK r \in PaperRows : r = Uploaded
      BY RowTypes
    <3>2. Adds(d, r) /\ r.kind # "none" /\ r.old = FALSE /\ r.version = 1 /\ r.version > 0
          /\ r.prev = Nobody /\ r.number = NoNumber
      BY <1>1, <2>1, <3>1
    <3> QED BY <3>2, AddKeepsPapers
  <2>3. ASSUME NEW k \in Desks PROVE Fitting(desk[k])'
    BY <1>1, <1>6, <2>1, RowTypes
  <2> QED BY <1>3, <2>1, <2>2, <2>3 DEF DeskInv, Alone
<1>9. CASE \E c \in Desks : Numbered(c)
  <2>1. PICK c \in Desks : Numbered(c)
    BY <1>9
  <2>2. PICK d \in PaperIds : d = desk[c].on /\ Exists(d)
    BY <1>2, <2>1 DEF Numbered, Formed
  <2>3. PICK r \in PaperRows : r = desk[c].draft
    BY <1>2
  <2>4. paper[d].number = NoNumber /\ r.number # NoNumber
    BY <2>1, <2>2, <2>3 DEF PenInv, Typing, Numbered
  <2>5. /\ RisesUp(c) /\ ~Taken(NumberRow(paper[d], r.number)) /\ Numbers(d, r.number)
        /\ ~(paper[d].version > 1 /\ NumberOf(paper[d].prev) # r.number)
    BY <2>1, <2>2, <2>3 DEF Numbered
  <2>8. \A e \in PaperIds : paper[e].kind = paper[d].kind /\ paper[e].number = r.number =>
          paper[e].version # paper[d].version
    <3>1. PICK o : o = NumberRow(paper[d], r.number)
      OBVIOUS
    <3>2. r.number \in 0..MaxNumber /\ paper[d] \in PaperRows
      BY <2>3, PaperFields DEF IssueTypeOK
    <3>3. o.kind = paper[d].kind /\ o.number = r.number /\ o.version = paper[d].version
      BY <3>1, <3>2, NumberDraft
    <3>4. ~Taken(o)
      BY <2>5, <3>1
    <3> QED BY <2>4, <3>3, <3>4 DEF Taken
  <2>6. PapersInv'
    BY <2>2, <2>4, <2>5, <2>8, NumberKeepsPapers
  <2>7. ASSUME NEW k \in Desks, k # c PROVE Fitting(desk[k])'
    <3> SUFFICES ASSUME desk[k].st \in {"reserved", "replacing"}, desk[k].draft.prev # Nobody
                 PROVE  Fitting(desk[k])'
      BY <2>5, <2>7 DEF Fitting, RisesUp
    <3>1. PICK q : q = desk[k].draft
      OBVIOUS
    <3>2. PICK p \in PaperIds : p = q.prev
      BY <1>2, <3>1 DEF Formed
    <3>3. /\ paper[p].kind = q.kind /\ q.version = paper[p].version + 1
          /\ desk[k].st = "reserved" => paper[p].number = q.number /\ (paper[p].old => Taken(q))
          /\ desk[k].st = "replacing" => ~paper[p].old
      BY <1>2, <3>1, <3>2 DEF Fitting
    <3>4. /\ paper'[p].kind = paper[p].kind /\ paper'[p].version = paper[p].version
          /\ paper'[p].old = paper[p].old
          /\ paper[p].number # NoNumber => paper'[p].number = paper[p].number
      BY <2>4, <2>5 DEF Numbers
    <3>5. desk[k].st = "reserved" => q.number # NoNumber
      BY <1>2, <3>1 DEF Formed
    <3>6. ASSUME Taken(q) PROVE Taken(q)'
      <4>1. PICK e \in PaperIds : paper[e].kind = q.kind /\ paper[e].number = q.number
                                 /\ paper[e].version = q.version /\ q.number # NoNumber
        BY <3>6 DEF Taken
      <4>2. paper'[e] = paper[e]
        BY <2>4, <2>5, <4>1 DEF Numbers
      <4> QED BY <4>1, <4>2 DEF Taken
    <3>7. desk'[k] = desk[k]
      BY <2>5, <2>7 DEF RisesUp
    <3> QED BY <3>1, <3>2, <3>3, <3>4, <3>5, <3>6, <3>7 DEF Fitting
  <2> QED BY <1>4, <2>5, <2>6, <2>7
\* Requests that start.
<1>10. ASSUME NEW c \in Desks, NEW st, NEW on, NEW r, SitsDown(c, st, on, r), (Fitting(desk[c]))',
              st \in {"reserved", "replacing"} =>
                \A k \in Desks : desk[k].st = "replacing" => desk[k].draft.prev # r.prev,
              st = "replacing" =>
                \A k \in Desks : desk[k].st = "reserved" => desk[k].draft.prev # r.prev
       PROVE  PapersInv' /\ DeskInv'
  <2>1. /\ paper' = paper /\ desk'[c].st = st /\ desk'[c].draft = r
        /\ \A k \in Desks : k # c => desk'[k] = desk[k]
    BY <1>10 DEF SitsDown
  <2>2. PapersInv'
    BY <2>1
       DEF PapersInv, Unique, NoGaps, Ordered, Linked, Follows, Succeeded, Once, Akin, Exists, Replaces
  <2>3. ASSUME NEW k \in Desks, k # c PROVE Fitting(desk[k])'
    BY <1>2, <2>1, <2>3 DEF Fitting, Taken
  <2>4. ASSUME NEW k \in Desks, NEW l \in Desks, desk'[k].st = "replacing",
               desk'[l].st \in {"reserved", "replacing"}, desk'[k].draft.prev = desk'[l].draft.prev
        PROVE  k = l
    <3>1. CASE k # c /\ l # c
      BY <1>3, <2>1, <2>4, <3>1
    <3>2. CASE k = c /\ l # c
      BY <1>10, <2>1, <2>4, <3>2
    <3>3. CASE k # c /\ l = c
      BY <1>10, <2>1, <2>4, <3>3
    <3> QED BY <3>1, <3>2, <3>3
  <2> QED BY <1>10, <2>2, <2>3, <2>4 DEF DeskInv, Alone
<1>11. CASE \E c \in Desks, r \in PaperRows : SitsNew(c, r) \/ SitsReceive(c, r)
  <2>1. PICK c \in Desks, r \in PaperRows : SitsNew(c, r) \/ SitsReceive(c, r)
    BY <1>11
  <2>2. PICK st \in {"reserved", "receiving"} : SitsDown(c, st, Nobody, r) /\ r.prev = Nobody
    BY <2>1 DEF SitsNew, SitsReceive
  <2>3. (Fitting(desk[c]))'
    BY <2>2 DEF SitsDown, Fitting
  <2>4. \A k \in Desks : desk[k].st = "replacing" => desk[k].draft.prev # Nobody
    BY <1>2 DEF Formed
  <2> QED BY <1>10, <2>2, <2>3, <2>4
<1>12. CASE \E c \in Desks, r \in PaperRows, d \in PaperIds : SitsReissue(c, r, d)
  <2>1. PICK c \in Desks, r \in PaperRows, d \in PaperIds : SitsReissue(c, r, d)
    BY <1>12
  <2>2. /\ SitsDown(c, "reserved", Nobody, r) /\ r.prev = d /\ ~paper[d].old
        /\ r.kind = paper[d].kind /\ r.number = paper[d].number /\ r.version = paper[d].version + 1
    BY <2>1 DEF SitsReissue, Acting
  <2>3. (Fitting(desk[c]))'
    BY <2>2 DEF SitsDown, Fitting
  <2>4. \A k \in Desks : desk[k].st = "replacing" => desk[k].draft.prev # d
    BY <2>1 DEF SitsReissue, Replacing
  <2> QED BY <1>10, <2>2, <2>3, <2>4
<1>13. CASE \E c \in Desks, r \in PaperRows, d \in PaperIds : SitsReplace(c, r, d)
  <2>1. PICK c \in Desks, r \in PaperRows, d \in PaperIds : SitsReplace(c, r, d)
    BY <1>13
  <2>2. /\ SitsDown(c, "replacing", Nobody, r) /\ r.prev = d /\ ~paper[d].old
        /\ r.kind = paper[d].kind /\ r.version = paper[d].version + 1
    BY <2>1 DEF SitsReplace, Acting, PaperForm
  <2>3. (Fitting(desk[c]))'
    BY <2>2 DEF SitsDown, Fitting
  <2>4. \A k \in Desks : desk[k].st \in {"replacing", "reserved"} => desk[k].draft.prev # d
    BY <2>1 DEF SitsReplace, Replacing
  <2> QED BY <1>10, <2>2, <2>3, <2>4
<1>14. CASE \E c \in Desks, r \in PaperRows, d \in PaperIds : SitsNumber(c, r, d)
  <2>1. PICK c \in Desks, r \in PaperRows, d \in PaperIds : SitsDown(c, "numbering", d, r)
    BY <1>14 DEF SitsNumber
  <2>2. (Fitting(desk[c]))'
    BY <2>1 DEF SitsDown, Fitting
  <2> QED BY <1>10, <2>1, <2>2
<1>15. \A d \in PaperIds : ~Retyped(d)
  BY DEF Retyped
<1> QED BY <1>5, <1>7, <1>8, <1>9, <1>11, <1>12, <1>13, <1>14, <1>15 DEF IssueKinds

-----------------------------------------------------------------------------
\* The invariant holds initially and is kept.
LEMMA IssueInvariant == IssueSpec => []IssueInv
<1>1. IssueInit => IssueInv
  <2> SUFFICES ASSUME IssueInit PROVE IssueInv
    OBVIOUS
  <2>1. /\ paper \in [PaperIds -> PaperRows] /\ desk \in [Desks -> DeskRows]
        /\ \A d \in PaperIds : paper[d] = NoPaper /\ ~Exists(d)
        /\ \A c \in Desks : desk[c] = Idle
        /\ counter \in 0..MaxNumber /\ slips = {}
    BY RowTypes, Bounds DEF IssueInit, Exists, NoPaper
  <2>2. /\ Idle.st = "idle" /\ Idle.on = Nobody /\ Idle.draft = NoPaper
        /\ NoPaper.old = FALSE /\ NoPaper.by = "nobody" /\ NoPaper.prev = Nobody
        /\ NoPaper.parent = Nobody
    BY RowTypes DEF NoPaper
  <2>3. IssueTypeOK /\ PaperForm
    BY <2>1, <2>2 DEF IssueTypeOK, PaperForm
  <2>4. DeskForm /\ PenInv /\ BaseInv
    BY <2>1, <2>2 DEF DeskForm, Formed, PenInv, BaseInv
  <2>5. PapersInv
    BY <2>1
       DEF PapersInv, Unique, NoGaps, Ordered, Linked, Succeeded, Once, Akin, Replaces
  <2>6. DeskInv
    BY <2>1, <2>2 DEF DeskInv, Fitting, Alone
  <2> QED BY <2>3, <2>4, <2>5, <2>6 DEF IssueInv, ChainInv
<1>2. IssueInv /\ [IssueNext]_issueVars => IssueInv'
  <2> SUFFICES ASSUME IssueInv, [IssueNext]_issueVars PROVE IssueInv'
    OBVIOUS
  <2>1. IssueTypeOK'
    BY IssueTypeStep DEF IssueInv
  <2>2. CASE IssueNext
    <3>1. IssueKinds
      BY <2>2, IssueStepKinds DEF IssueInv
    <3>2. PaperForm' /\ DeskForm' /\ PenInv' /\ BaseInv'
      BY <3>1, FormStep, PenStep, BaseStep DEF IssueInv
    <3>3. slips \subseteq slips'
      BY <3>1 DEF IssueKinds, InVain, Numbered, AddsFirst, Indexed, Replaced, Retyped, SitsNew,
         SitsReceive,                  SitsReissue, SitsReplace, SitsNumber
    <3>4. ChainInv'
      BY <3>1, <3>3, DeskStep DEF IssueInv, ChainInv
    <3> QED BY <2>1, <3>2, <3>4 DEF IssueInv
  <2>3. CASE UNCHANGED issueVars
    <3>1. paper' = paper /\ desk' = desk /\ slips' = slips
      BY <2>3 DEF issueVars, issueRows
    <3>2. PaperForm' /\ DeskForm' /\ PenInv' /\ BaseInv'
      BY <3>1
         DEF IssueInv, PaperForm, DeskForm, Formed, PenInv, Typing, BaseInv, Names, Exists
    <3>3. PapersInv => PapersInv'
      BY <3>1
         DEF PapersInv, Unique, NoGaps, Ordered, Linked, Follows, Succeeded, Once, Akin, Exists, Replaces
    <3>4. DeskInv => DeskInv'
      BY <3>1 DEF DeskInv, Fitting, Alone, Taken
    <3> QED BY <2>1, <3>1, <3>2, <3>3, <3>4 DEF IssueInv, ChainInv
  <2> QED BY <2>2, <2>3
<1> QED BY <1>1, <1>2, PTL DEF IssueSpec

\* The fields have their types, whatever the bounds.
THEOREM IssueTypeCorrect == IssueSpec => []IssueTypeOK
BY IssueInvariant, PTL DEF IssueInv

\* Unless two typed its number at once, the number of a basis that is printed in a paper is
\* the number the basis has (number.ts), for any number of papers and requests.
THEOREM BasisAsPrintedAlways == IssueSpec => []BasisAsPrinted
<1>1. IssueInv => BasisAsPrinted
  BY Bounds DEF IssueInv, BaseInv, Names, BasisAsPrinted, NumberOf
<1> QED BY <1>1, IssueInvariant, PTL

\* A superseded paper has one successor, an acting one none, and no two acting papers of a
\* kind have one number (generate.ts, versions.ts), for any number of papers and requests.
THEOREM OneActingPaperAlways == IssueSpec => []OneActingPaper
<1>1. IssueInv => OneActingPaper
  <2> SUFFICES ASSUME IssueInv, slips = {}, NEW d \in PaperIds, Exists(d)
               PROVE  /\ paper[d].old => Cardinality({e \in PaperIds : Replaces(e, d)}) = 1
                      /\ ~paper[d].old => {e \in PaperIds : Replaces(e, d)} = {}
                      /\ Acting(d) /\ paper[d].number # NoNumber =>
                           \A e \in {e \in PaperIds : paper[e].number = paper[d].number} :
                             Acting(e) /\ paper[e].kind = paper[d].kind => e = d
    BY DEF OneActingPaper
  <2>1. PapersInv
    BY DEF IssueInv, ChainInv
  <2>2. ASSUME paper[d].old PROVE Cardinality({e \in PaperIds : Replaces(e, d)}) = 1
    <3>1. PICK e \in PaperIds : Replaces(e, d)
      BY <2>1, <2>2 DEF PapersInv, Succeeded
    <3>2. {f \in PaperIds : Replaces(f, d)} = {e}
      BY <2>1, <3>1 DEF PapersInv, Once
    <3> QED BY <3>2, FS_Singleton
  <2>3. ASSUME ~paper[d].old PROVE {e \in PaperIds : Replaces(e, d)} = {}
    BY <2>1, <2>3, Bounds DEF PapersInv, Linked, Follows, Replaces
  <2>4. ASSUME NEW e \in PaperIds, Acting(d), Acting(e), paper[d].number # NoNumber,
               paper[e].number = paper[d].number, paper[e].kind = paper[d].kind
        PROVE  e = d
    <3>1. Akin(d, e) /\ Akin(e, d) /\ ~paper[d].old /\ ~paper[e].old
      BY <2>4 DEF Akin, Acting
    <3>2. paper[d] \in PaperRows /\ paper[e] \in PaperRows
      BY DEF IssueInv, IssueTypeOK
    <3>3. paper[d].version \in Nat /\ paper[e].version \in Nat
      BY <3>2, PaperFields
    <3>4. paper[d].version = paper[e].version
      BY <2>1, <3>1, <3>3 DEF PapersInv, Ordered
    <3> QED BY <2>1, <3>1, <3>4 DEF PapersInv, Unique
  <2> QED BY <2>2, <2>3, <2>4
<1> QED BY <1>1, IssueInvariant, PTL

-----------------------------------------------------------------------------
(* CommissionRate.                                                         *)

\* A history and the current value say for every day what was agreed.
LastInForce(rows, d, i) == i \in InForce(rows, d) /\ \A k \in InForce(rows, d) : k <= i
Says(rows, current, agreement) ==
  /\ \A i, k \in DOMAIN rows : i < k => rows[i].from < rows[k].from
  /\ \A d \in Days : InForce(rows, d) = {} \/ \E i \in DOMAIN rows : LastInForce(rows, d, i)
  /\ rows = <<>> => \A d \in Days : agreement[d] = current
  /\ rows # <<>> => \A d \in Days : d < rows[1].from => agreement[d] = rows[1].old
  /\ \A d \in Days, i \in DOMAIN rows : LastInForce(rows, d, i) => agreement[d] = rows[i].new

\* While there is no history, what a request has read is what there is.
RateInv ==
  /\ Says(orgChanges, override, orgAgreed)
  /\ orgChanges = <<>> => \A a \in Admins : pen[a].on = "organization" => pen[a].old = override
  /\ tidy => /\ Says(changes, rate, agreed)
             /\ changes = <<>> => \A a \in Admins : pen[a].on = "partner" => pen[a].old = rate
  /\ \A a \in Admins : pen[a].on = "partner" => pen[a].new \in Rates

\* A history that says what was agreed is read so: the last change in force counts, before all
\* of them what the first one replaced (rateHistory.ts).
LEMMA RateOnIs ==
  ASSUME NEW rows \in Seq(Change), NEW current, NEW agreement, Says(rows, current, agreement),
         NEW d \in Days
  PROVE  RateOn(rows, d, current) = agreement[d]
<1>0. /\ \A i \in DOMAIN rows : rows[i].from \in Days /\ i \in Nat
      /\ \A i \in Days : i \in Nat
  <2>1. \A i \in DOMAIN rows : rows[i] \in Change /\ i \in Nat
    OBVIOUS
  <2>2. \A r \in Change : r.from \in Days
    BY DEF Change
  <2>3. \A i \in Days : i \in Nat
    BY DEF Days
  <2> QED BY <2>1, <2>2, <2>3
<1>1. CASE rows = <<>>
  BY <1>1 DEF RateOn, Says
<1>2. CASE rows # <<>> /\ InForce(rows, d) = {}
  <2>1. 1 \in DOMAIN rows /\ \A i \in DOMAIN rows : i # 1 => 1 < i
    BY <1>2
  <2>2. d < rows[1].from
    BY <1>0, <1>2, <2>1 DEF InForce
  <2>3. \A i \in DOMAIN rows : (\A k \in DOMAIN rows : rows[i].from <= rows[k].from) <=> i = 1
    BY <1>0, <2>1 DEF Says
  <2>4. BeforeAll(rows, current) = rows[1].old
    BY <2>1, <2>3 DEF BeforeAll
  <2> QED BY <1>2, <2>2, <2>4 DEF RateOn, Says
<1>3. CASE rows # <<>> /\ InForce(rows, d) # {}
  <2>1. PICK n \in DOMAIN rows : LastInForce(rows, d, n)
    BY <1>3 DEF Says
  <2>2. \A i \in InForce(rows, d) :
          (\A k \in InForce(rows, d) : rows[k].from <= rows[i].from) <=> i = n
    BY <1>0, <2>1 DEF Says, LastInForce, InForce
  <2>3. (CHOOSE i \in InForce(rows, d) :
           \A k \in InForce(rows, d) : rows[k].from <= rows[i].from) = n
    BY <2>1, <2>2 DEF LastInForce
  <2> QED BY <1>3, <2>1, <2>3 DEF RateOn, Says
<1> QED BY <1>1, <1>2, <1>3

\* A change from a later day than all before.
LEMMA ChangeSays ==
  ASSUME NEW rows \in Seq(Change), NEW current, NEW agreement \in [Days -> Rates \cup {Unset}],
         NEW c \in Change,
         Says(rows, current, agreement), InOrder(rows, c.from), rows = <<>> => c.old = current,
         NEW any
  PROVE  Says(Append(rows, c), any, From(agreement, c.from, c.new))
<1> DEFINE new == Append(rows, c)
           n == Len(rows) + 1
           agreed2 == From(agreement, c.from, c.new)
<1>0. /\ \A i \in DOMAIN rows : rows[i].from \in Days /\ i \in Nat
      /\ \A i \in Days : i \in Nat
      /\ c.from \in Days
  <2>1. \A i \in DOMAIN rows : rows[i] \in Change /\ i \in Nat
    OBVIOUS
  <2>2. \A r \in Change : r.from \in Days
    BY DEF Change
  <2>3. \A i \in Days : i \in Nat
    BY DEF Days
  <2> QED BY <2>1, <2>2, <2>3
<1>1. /\ DOMAIN new = (DOMAIN rows) \cup {n} /\ new[n] = c /\ n \in Nat
      /\ \A i \in DOMAIN rows : new[i] = rows[i] /\ i < n
      /\ n \notin DOMAIN rows /\ new # <<>> /\ DOMAIN rows = 1..Len(rows) /\ Len(rows) \in Nat
  OBVIOUS
<1>2. \A d \in Days : agreed2[d] = IF d >= c.from THEN c.new ELSE agreement[d]
  BY DEF From
<1> HIDE DEF new, agreed2
<1>3. ASSUME NEW d \in Days, d < c.from
      PROVE  InForce(new, d) = InForce(rows, d) /\ \A i \in DOMAIN new : LastInForce(new, d, i) <=> LastInForce(rows, d, i)
  <2>1. InForce(new, d) = InForce(rows, d)
    BY <1>0, <1>1, <1>3 DEF InForce
  <2> QED BY <2>1 DEF LastInForce
<1>4. ASSUME NEW d \in Days, c.from <= d
      PROVE  \A i \in DOMAIN new : LastInForce(new, d, i) <=> i = n
  BY <1>0, <1>1, <1>4 DEF InForce, LastInForce
<1>5. \A i, k \in DOMAIN new : i < k => new[i].from < new[k].from
  BY <1>0, <1>1 DEF Says, InOrder
<1>6. \A d \in Days : InForce(new, d) = {} \/ \E i \in DOMAIN new : LastInForce(new, d, i)
  BY <1>0, <1>1, <1>3, <1>4 DEF Says
<1>7. ASSUME NEW d \in Days, d < new[1].from PROVE agreed2[d] = new[1].old
  <2>1. CASE rows = <<>>
    BY <1>0, <1>1, <1>2, <1>7, <2>1 DEF Says
  <2>2. CASE rows # <<>>
    BY <1>0, <1>1, <1>2, <1>7, <2>2 DEF Says, InOrder
  <2> QED BY <2>1, <2>2
<1>8. ASSUME NEW d \in Days, NEW i \in DOMAIN new, LastInForce(new, d, i) PROVE agreed2[d] = new[i].new
  <2>1. CASE c.from <= d
    BY <1>0, <1>1, <1>2, <1>4, <1>8, <2>1
  <2>2. CASE d < c.from
    BY <1>0, <1>1, <1>2, <1>3, <1>8, <2>2 DEF Says, LastInForce, InForce
  <2> QED BY <1>0, <2>1, <2>2
<1>9. Says(new, any, agreed2)
  BY <1>1, <1>5, <1>6, <1>7, <1>8 DEF Says
<1> QED BY <1>9 DEF new, agreed2

\* Every step keeps it.
LEMMA RateStep ==
  ASSUME RateTypeOK, RateInv, [RateNext]_rateVars
  PROVE  RateTypeOK' /\ RateInv'
<1>0. /\ 0 \in Days /\ now \in Days /\ now \in Nat /\ 0 \in 0..LastDay /\ Unset \notin Rates
      /\ NoPen \in Pens /\ NoPen.on = "nothing"
  BY RateAssumption DEF RateAssumption, RateTypeOK, Days, NoPen, Pens, Unset
<1>1. ASSUME NEW a \in Admins PROVE pen[a] \in Pens
  BY DEF RateTypeOK
<1>2. \A p \in Pens : p.from \in Days /\ p.old \in Rates \cup {Unset} /\ p.new \in Rates \cup {Unset}
  BY DEF Pens
\* A request starts: it has read the current value.
<1>3. ASSUME NEW a \in Admins, NEW p \in Pens, p.on = "partner" => p.new \in Rates /\ p.old = rate,
             p.on = "organization" => p.old = override, pen' = [pen EXCEPT ![a] = p],
             UNCHANGED <<now, partnerRate, orgRate, tidy>>
      PROVE  RateTypeOK' /\ RateInv'
  <2>1. UNCHANGED <<now, rate, changes, agreed, override, orgChanges, orgAgreed, tidy>>
    BY <1>3 DEF partnerRate, orgRate
  <2>2. pen' \in [Admins -> Pens] /\ pen'[a] = p /\ \A b \in Admins : b # a => pen'[b] = pen[b]
    BY <1>3 DEF RateTypeOK
  <2>3. RateTypeOK'
    BY <2>1, <2>2 DEF RateTypeOK
  <2>4. Says(changes, rate, agreed)' <=> Says(changes, rate, agreed)
    BY <2>1
  <2>5. Says(orgChanges, override, orgAgreed)' <=> Says(orgChanges, override, orgAgreed)
    BY <2>1
  <2>6. ASSUME NEW b \in Admins
        PROVE  /\ pen'[b].on = "partner" => pen'[b].new \in Rates
               /\ orgChanges = <<>> /\ pen'[b].on = "organization" => pen'[b].old = override
               /\ tidy /\ changes = <<>> /\ pen'[b].on = "partner" => pen'[b].old = rate
    BY <1>3, <2>2 DEF RateInv
  <2> QED BY <2>1, <2>3, <2>4, <2>5, <2>6 DEF RateInv
<1>4. ASSUME NEW a \in Admins, NEW r \in Rates, NEW e \in Days, ReadRate(a, r, e)
      PROVE  RateTypeOK' /\ RateInv'
  <2>1. PICK p : p = [on |-> "partner", from |-> e, old |-> rate, new |-> r]
    OBVIOUS
  <2>2. p \in Pens /\ p.on = "partner" /\ p.new = r /\ p.old = rate
    BY <2>1 DEF Pens, RateTypeOK
  <2> QED BY <1>3, <1>4, <2>1, <2>2 DEF ReadRate
<1>5. ASSUME NEW a \in Admins, NEW r \in Rates \cup {Unset}, Ask(a, r)
      PROVE  RateTypeOK' /\ RateInv'
  <2>1. PICK p : p = [on |-> "organization", from |-> 0, old |-> override, new |-> r]
    OBVIOUS
  <2>2. p \in Pens /\ p.on = "organization" /\ p.old = override
    BY <1>0, <2>1 DEF Pens, RateTypeOK
  <2> QED BY <1>3, <1>5, <2>1, <2>2 DEF Ask
<1>6. ASSUME NEW a \in Admins, PenDies(a) PROVE RateTypeOK' /\ RateInv'
  BY <1>0, <1>3, <1>6 DEF PenDies, Written
\* A request ends.
<1>7. ASSUME NEW a \in Admins, Written(a)
      PROVE  /\ pen' \in [Admins -> Pens] /\ pen'[a].on = "nothing"
             /\ \A b \in Admins : b # a => pen'[b] = pen[b]
  BY <1>0, <1>7 DEF Written, RateTypeOK
<1>8. ASSUME NEW a \in Admins, StoreRate(a) PROVE RateTypeOK' /\ RateInv'
  <2>1. PICK p \in Pens : p = pen[a] /\ p.on = "partner" /\ p.new \in Rates
    BY <1>1, <1>8 DEF StoreRate, RateInv
  <2>2. rate' = p.new /\ UNCHANGED <<now, override, orgChanges, orgAgreed>> /\ Written(a)
    BY <1>8, <2>1 DEF StoreRate, orgRate
  <2>3. Says(orgChanges, override, orgAgreed)' <=> Says(orgChanges, override, orgAgreed)
    BY <2>2
  <2>4. ASSUME NEW b \in Admins
        PROVE  /\ pen'[b].on = "partner" => pen'[b].new \in Rates
               /\ orgChanges = <<>> /\ pen'[b].on = "organization" => pen'[b].old = override
               /\ tidy /\ changes = <<>> /\ pen'[b].on = "partner" => pen'[b].old = rate
    BY <1>7, <2>2 DEF RateInv
  <2>5. CASE p.new # p.old
    <3>1. PICK c : c = [from |-> p.from, old |-> p.old, new |-> p.new]
      OBVIOUS
    <3>2. c \in Change /\ c.from = p.from /\ c.old = p.old /\ c.new = p.new
      BY <1>2, <3>1 DEF Change
    <3>3. /\ changes' = Append(changes, c) /\ agreed' = From(agreed, c.from, c.new)
          /\ tidy' = (tidy /\ InOrder(changes, c.from))
      BY <1>8, <2>1, <2>5, <3>1, <3>2 DEF StoreRate
    <3>4. changes' \in Seq(Change) /\ changes' # <<>>
      BY <3>2, <3>3 DEF RateTypeOK
    <3>5. agreed' \in [Days -> Rates \cup {Unset}]
      BY <1>2, <3>2, <3>3 DEF RateTypeOK, From
    <3>6. RateTypeOK'
      BY <1>7, <2>1, <2>2, <3>3, <3>4, <3>5 DEF RateTypeOK
    <3>7. ASSUME tidy' PROVE Says(changes', rate', agreed')
      <4>1. /\ Says(changes, rate, agreed) /\ InOrder(changes, c.from)
            /\ changes = <<>> => c.old = rate
        BY <2>1, <3>2, <3>3, <3>7 DEF RateInv
      <4>2. changes \in Seq(Change) /\ agreed \in [Days -> Rates \cup {Unset}]
        BY DEF RateTypeOK
      <4>3. Says(Append(changes, c), p.new, From(agreed, c.from, c.new))
        BY <3>2, <4>1, <4>2, ChangeSays
      <4> QED BY <2>2, <3>3, <4>3
    <3> QED BY <2>2, <2>3, <2>4, <3>4, <3>6, <3>7 DEF RateInv
  <2>6. CASE p.new = p.old
    <3>1. UNCHANGED <<changes, agreed>> /\ tidy' = (tidy /\ rate = p.old)
      BY <1>8, <2>1, <2>6 DEF StoreRate
    <3>2. RateTypeOK'
      BY <1>7, <2>1, <2>2, <3>1 DEF RateTypeOK
    <3>3. ASSUME tidy' PROVE tidy /\ rate' = rate
      BY <2>2, <2>6, <3>1, <3>3
    <3>4. tidy' => Says(changes', rate', agreed')
      BY <3>1, <3>3 DEF RateInv
    <3> QED BY <2>2, <2>3, <2>4, <3>1, <3>2, <3>3, <3>4 DEF RateInv
  <2> QED BY <2>5, <2>6
<1>9. ASSUME NEW a \in Admins, StoreOverride(a) PROVE RateTypeOK' /\ RateInv'
  <2>1. PICK p \in Pens : p = pen[a] /\ p.on = "organization"
    BY <1>1, <1>9 DEF StoreOverride
  <2>2. override' = p.new /\ UNCHANGED <<now, rate, changes, agreed, tidy>> /\ Written(a)
    BY <1>9, <2>1 DEF StoreOverride, partnerRate
  <2>3. Says(changes, rate, agreed)' <=> Says(changes, rate, agreed)
    BY <2>2
  <2>4. ASSUME NEW b \in Admins
        PROVE  /\ pen'[b].on = "partner" => pen'[b].new \in Rates
               /\ tidy /\ changes = <<>> /\ pen'[b].on = "partner" => pen'[b].old = rate
    BY <1>7, <2>2 DEF RateInv
  <2>5. PICK c : c = [from |-> now, old |-> p.old, new |-> p.new]
    OBVIOUS
  <2>6. c \in Change /\ c.from = now /\ c.old = p.old /\ c.new = p.new
    BY <1>0, <1>2, <2>5 DEF Change
  <2>7. /\ orgChanges' = Append(orgChanges, c) /\ orgAgreed' = From(orgAgreed, c.from, c.new)
        /\ InOrder(orgChanges, c.from)
    BY <1>9, <2>1, <2>5, <2>6 DEF StoreOverride
  <2>8. orgChanges' \in Seq(Change) /\ orgChanges' # <<>>
    BY <2>6, <2>7 DEF RateTypeOK
  <2>9. orgAgreed' \in [Days -> Rates \cup {Unset}]
    BY <1>2, <2>6, <2>7 DEF RateTypeOK, From
  <2>10. RateTypeOK'
    BY <1>2, <1>7, <2>2, <2>8, <2>9 DEF RateTypeOK
  <2>11. Says(orgChanges', override', orgAgreed')
    <3>1. Says(orgChanges, override, orgAgreed) /\ (orgChanges = <<>> => c.old = override)
      BY <2>1, <2>6 DEF RateInv
    <3>2. orgChanges \in Seq(Change) /\ orgAgreed \in [Days -> Rates \cup {Unset}]
      BY DEF RateTypeOK
    <3>3. Says(Append(orgChanges, c), p.new, From(orgAgreed, c.from, c.new))
      BY <2>6, <2>7, <3>1, <3>2, ChangeSays
    <3> QED BY <2>2, <2>7, <3>3
  <2> QED BY <2>2, <2>3, <2>4, <2>8, <2>10, <2>11 DEF RateInv
<1>10. CASE DayPasses
  <2>1. /\ UNCHANGED <<rate, changes, agreed, override, orgChanges, orgAgreed, pen, tidy>>
        /\ now' \in Days
    BY <1>0, <1>10, RateAssumption DEF RateAssumption, DayPasses, partnerRate, orgRate, Days
  <2> QED BY <2>1 DEF RateTypeOK, RateInv
<1>11. CASE UNCHANGED rateVars
  BY <1>11 DEF rateVars, partnerRate, orgRate, RateTypeOK, RateInv
<1> QED BY <1>4, <1>5, <1>6, <1>8, <1>9, <1>10, <1>11 DEF RateNext, SetOverride, ClearOverride

\* It holds initially and is kept.
LEMMA RateInvariant == RateSpec => [](RateTypeOK /\ RateInv)
<1>1. RateInit => RateTypeOK /\ RateInv
  <2> SUFFICES ASSUME RateInit PROVE RateTypeOK /\ RateInv
    OBVIOUS
  <2>1. PICK r \in Rates : /\ rate = r
                          /\ \/ changes = <<>> /\ agreed = Always(r)
                             \/ /\ changes = <<[from |-> 1, old |-> Unset, new |-> r]>>
                                /\ agreed = From(Always(Unset), 1, r)
    BY DEF RateInit
  <2>2. /\ now = 1 /\ 1 \in Days /\ tidy = TRUE /\ override \in Rates \cup {Unset}
        /\ orgChanges = <<>> /\ orgAgreed = Always(override)
        /\ \A a \in Admins : pen[a].on = "nothing"
        /\ pen \in [Admins -> Pens]
    <3>1. NoPen \in Pens /\ NoPen.on = "nothing" /\ 1 \in Days
      BY RateAssumption DEF RateAssumption, Days, NoPen, Pens
    <3> QED BY <3>1 DEF RateInit
  <2>3. ASSUME NEW x \in Rates \cup {Unset}
        PROVE  Always(x) \in [Days -> Rates \cup {Unset}] /\ Says(<<>>, x, Always(x))
    BY DEF Always, Says, InForce, LastInForce
  <2>4. /\ changes \in Seq(Change) /\ agreed \in [Days -> Rates \cup {Unset}]
        /\ Says(changes, rate, agreed)
    <3>1. CASE changes = <<>> /\ agreed = Always(r)
      BY <2>1, <2>3, <3>1
    <3>2. CASE /\ changes = <<[from |-> 1, old |-> Unset, new |-> r]>>
               /\ agreed = From(Always(Unset), 1, r)
      <4>1. PICK c : c = [from |-> 1, old |-> Unset, new |-> r]
        OBVIOUS
      <4>2. c \in Change /\ c.from = 1 /\ c.old = Unset /\ c.new = r
        BY <2>2, <4>1 DEF Change
      <4>3. changes = Append(<<>>, c) /\ agreed = From(Always(Unset), c.from, c.new)
        BY <3>2, <4>1, <4>2
      <4>6. /\ <<>> \in Seq(Change) /\ InOrder(<<>>, c.from)
            /\ Unset \in Rates \cup {Unset} /\ r \in Rates \cup {Unset}
        BY DEF InOrder
      <4>7. Always(Unset) \in [Days -> Rates \cup {Unset}] /\ Says(<<>>, Unset, Always(Unset))
        BY <2>3, <4>6
      <4>8. Says(Append(<<>>, c), r, From(Always(Unset), c.from, r))
        BY <4>2, <4>6, <4>7, ChangeSays
      <4>4. Says(Append(<<>>, c), rate, agreed)
        BY <2>1, <4>2, <4>3, <4>8
      <4>5. agreed \in [Days -> Rates \cup {Unset}]
        BY <2>3, <4>2, <4>3 DEF From
      <4> QED BY <4>2, <4>3, <4>4, <4>5
    <3> QED BY <2>1, <3>1, <3>2
  <2>5. RateTypeOK
    BY <2>1, <2>2, <2>3, <2>4 DEF RateTypeOK
  <2>6. Says(orgChanges, override, orgAgreed)
    BY <2>2, <2>3
  <2> QED BY <2>2, <2>4, <2>5, <2>6 DEF RateInv
<1>2. (RateTypeOK /\ RateInv) /\ [RateNext]_rateVars => (RateTypeOK /\ RateInv)'
  BY RateStep
<1> QED BY <1>1, <1>2, PTL DEF RateSpec

\* The fields have their types, whatever the rates and the bounds.
THEOREM RateTypeCorrect == RateSpec => []RateTypeOK
BY RateInvariant, PTL

\* The rate found for a day is the one agreed for it (rateResolve.ts), for any rates, days
\* and number of changes and of requests that overlap.
THEOREM RateAsAgreedAlways == RateSpec => []RateAsAgreed
<1>1. RateTypeOK /\ RateInv => RateAsAgreed
  <2> SUFFICES ASSUME RateTypeOK, RateInv, tidy, NEW d \in Days,
                      (IF orgAgreed[d] # Unset THEN orgAgreed[d] ELSE agreed[d]) # Unset
               PROVE  EffectiveRate(d) = IF orgAgreed[d] # Unset THEN orgAgreed[d] ELSE agreed[d]
    BY DEF RateAsAgreed
  <2>1. RateOn(orgChanges, d, override) = orgAgreed[d] /\ RateOn(changes, d, rate) = agreed[d]
    BY RateOnIs DEF RateTypeOK, RateInv
  <2> QED BY <2>1 DEF EffectiveRate, PartnerRateOn
<1> QED BY <1>1, RateInvariant, PTL

-----------------------------------------------------------------------------
(* The office.                                                               *)

\* What moves is one of the components, from its initial state, and the others rest.
LEMMA MovesOne ==
  OfficeSpec => [](moves \in {"order", "sale", "import", "attachment", "recurrence",
                              "enrollment", "paper", "rate"})
<1>1. OfficeInit => moves \in {"order", "sale", "import", "attachment", "recurrence",
                               "enrollment", "paper", "rate"}
  BY DEF OfficeInit
<1>2. [OfficeNext]_officeVars => UNCHANGED moves
  BY Zenon DEF OfficeNext, OrderTurn, SaleTurn, ImportTurn, AttachmentTurn, RecurrenceTurn,
               EnrollmentTurn, PaperTurn, RateTurn, officeVars
<1>3. /\ moves \in {"order", "sale", "import", "attachment", "recurrence", "enrollment",
                    "paper", "rate"}
      /\ UNCHANGED moves
      => (moves \in {"order", "sale", "import", "attachment", "recurrence", "enrollment",
                     "paper", "rate"})'
  OBVIOUS
<1> QED BY <1>1, <1>2, <1>3, PTL DEF OfficeSpec

\* A behaviour of the office is one of each of its components.
LEMMA IsEach ==
  OfficeSpec => /\ OrderSpec /\ SaleSpec /\ ImportSpec /\ AttachmentSpec
                /\ RecurrenceSpec /\ EnrollmentSpec /\ IssueSpec /\ RateSpec
<1>1. OfficeInit => /\ OrderInit /\ SaleInit /\ ImportInit /\ AttachmentInit
                    /\ RecurrenceInit /\ EnrollmentInit /\ IssueInit /\ RateInit
  BY Zenon DEF OfficeInit
<1>2. [OfficeNext]_officeVars =>
        /\ [OrderNext]_orderVars /\ [SaleNext]_saleVars /\ [ImportNext]_importVars
        /\ [AttachmentNext]_attachmentVars /\ [RecurrenceNext]_recurrenceVars
        /\ [EnrollmentNext]_enrollmentVars /\ [IssueNext]_issueVars /\ [RateNext]_rateVars
  <2> SUFFICES ASSUME [OfficeNext]_officeVars
               PROVE  /\ [OrderNext]_orderVars /\ [SaleNext]_saleVars /\ [ImportNext]_importVars
                      /\ [AttachmentNext]_attachmentVars /\ [RecurrenceNext]_recurrenceVars
                      /\ [EnrollmentNext]_enrollmentVars /\ [IssueNext]_issueVars
                      /\ [RateNext]_rateVars
    OBVIOUS
  <2>1. CASE UNCHANGED officeVars
    BY <2>1, Zenon DEF officeVars
  <2>2. CASE OrderTurn
    BY <2>2, Zenon DEF OrderTurn
  <2>3. CASE SaleTurn
    BY <2>3, Zenon DEF SaleTurn
  <2>4. CASE ImportTurn
    BY <2>4, Zenon DEF ImportTurn
  <2>5. CASE AttachmentTurn
    BY <2>5, Zenon DEF AttachmentTurn
  <2>6. CASE RecurrenceTurn
    BY <2>6, Zenon DEF RecurrenceTurn
  <2>7. CASE EnrollmentTurn
    BY <2>7, Zenon DEF EnrollmentTurn
  <2>8. CASE PaperTurn
    BY <2>8, Zenon DEF PaperTurn
  <2>9. CASE RateTurn
    BY <2>9, Zenon DEF RateTurn
  <2> QED BY <2>1, <2>2, <2>3, <2>4, <2>5, <2>6, <2>7, <2>8, <2>9, Zenon DEF OfficeNext
<1> QED BY <1>1, <1>2, PTL
        DEF OfficeSpec, OrderSpec, SaleSpec, ImportSpec, AttachmentSpec, RecurrenceSpec,
            EnrollmentSpec, IssueSpec, RateSpec

\* The fields of every component of the office have their types, for any constants.
THEOREM OfficeTypeCorrect == OfficeSpec => []OfficeTypeOK
<1>1. /\ moves \in {"order", "sale", "import", "attachment", "recurrence", "enrollment",
                    "paper", "rate"}
      /\ OrderTypeOK /\ SaleTypeOK /\ ImportTypeOK /\ AttachmentTypeOK /\ RecurrenceTypeOK
      /\ EnrollmentTypeOK /\ IssueTypeOK /\ RateTypeOK
      => OfficeTypeOK
  BY DEF OfficeTypeOK
<1> QED BY <1>1, MovesOne, IsEach, OrderTypeCorrect, SaleTypeCorrect, ImportTypeCorrect,
           AttachmentTypeCorrect, RecurrenceTypeCorrect, EnrollmentTypeCorrect,
           IssueTypeCorrect, RateTypeCorrect, PTL

\* Each component of the office keeps its promises while others may move instead.
THEOREM OfficeKeepsItsPromises ==
  OfficeSpec => /\ [](TotalAgrees /\ SnapshotKept) /\ [](AcceptedHasOrder /\ OneOrderPerDeal)
                /\ [](OnlyCleanLeaves /\ GivenOnce /\ WaitingIsCarried)
                /\ [](OneSeries /\ HeaderAgrees /\ OneCardEach)
                /\ [](OneActingPaper /\ BasisAsPrinted /\ RateAsAgreed /\ NeverDiesAlone)
                /\ DealKept /\ RollbackUndoes /\ TakesNothingAlong
BY IsEach, TotalAgreesAlways, SnapshotKeptAlways, AcceptedHasOrderAlways, OneOrderPerDealAlways,
   OnlyCleanLeavesAlways, GivenOnceAlways, WaitingIsCarriedAlways, OneSeriesAlways,
   HeaderAgreesAlways, OneCardEachAlways, OneActingPaperAlways, BasisAsPrintedAlways,
   RateAsAgreedAlways, NeverDiesAloneAlways, DealKeptAlways, RollbackUndoesAlways,
   TakesNothingAlongAlways, PTL
================================================================================

------------------------------- MODULE MCOffice -------------------------------
(* Small instances of the components of the office that share no state.  In a  *)
(* behaviour one of them moves and the others rest: none reads or writes what  *)
(* another keeps, so nothing is left out but their product.                    *)
EXTENDS OrderTotal, Sale, ImportRollback, Attachment, TaskRecurrence, Enrollment,
        DocumentIssue, CommissionRate, TLC

CONSTANTS q1, q2, q3, i1, i2, i3, i4, e1   \* requests for training, listeners, a student

VARIABLE moves   \* the component that moves

\* Two listeners of one request share a key, a third has the other key of the second, which
\* a student from before has, too.  The last is of a request without an organization.
MCOf == i1 :> q1 @@ i2 :> q1 @@ i3 :> q2 @@ i4 :> q3
MCKeysOf == i1 :> {1} @@ i2 :> {1, 2} @@ i3 :> {2} @@ i4 :> {1} @@ e1 :> {2}
\* The first has the e-mail of that student, under another name.
MCMailOf == i1 :> 1 @@ i2 :> 0 @@ i3 :> 0 @@ i4 :> 0 @@ e1 :> 1

OfficeInit ==
  /\ moves \in {"order", "sale", "import", "attachment", "recurrence", "enrollment", "paper",
               "rate"}
  /\ OrderInit /\ SaleInit /\ ImportInit /\ AttachmentInit /\ RecurrenceInit /\ EnrollmentInit
  /\ IssueInit /\ RateInit
  /\ moves # "attachment" => kind = "swept" /\ ~infected
  /\ moves # "enrollment" => cards = {}
  /\ moves # "rate" => rate = 0 /\ override = Unset

\* Requests are alike, in all components that have them.
MCSymmetry == Permutations(Desks)

\* A series meets no more than two edits, deletions and mishaps.
FewEvents == edits + deletes + mishaps <= 2

\* The request without an organization is looked at while the others rest, or rests.
Untouched(q) == header[q] = "pending" /\ \A h \in Reviewers : review[h].on # {q}
OutsideApart == Untouched(q3) \/ (Untouched(q1) /\ Untouched(q2))

\* What comes after approvals of two requests crossed is not explored.
Uncrossed == ~crossed

\* What comes after a slip is not explored: the properties of papers promise nothing there.
NoSlip == slips = {}

\* Nor are changes of a rate from a day before that of an earlier change.
Tidy == tidy

OrderTurn ==
  /\ moves = "order" /\ OrderNext
  /\ UNCHANGED <<moves, saleVars, importVars, attachmentVars, recurrenceVars,
                 enrollmentVars, issueVars, rateVars>>

SaleTurn ==
  /\ moves = "sale" /\ SaleNext
  /\ UNCHANGED <<moves, orderVars, importVars, attachmentVars, recurrenceVars,
                 enrollmentVars, issueVars, rateVars>>

ImportTurn ==
  /\ moves = "import" /\ ImportNext
  /\ UNCHANGED <<moves, orderVars, saleVars, attachmentVars, recurrenceVars,
                 enrollmentVars, issueVars, rateVars>>

AttachmentTurn ==
  /\ moves = "attachment" /\ AttachmentNext
  /\ UNCHANGED <<moves, orderVars, saleVars, importVars, recurrenceVars, enrollmentVars,
                 issueVars, rateVars>>

RecurrenceTurn ==
  /\ moves = "recurrence" /\ RecurrenceNext
  /\ UNCHANGED <<moves, orderVars, saleVars, importVars, attachmentVars, enrollmentVars,
                 issueVars, rateVars>>

EnrollmentTurn ==
  /\ moves = "enrollment" /\ EnrollmentNext
  /\ UNCHANGED <<moves, orderVars, saleVars, importVars, attachmentVars, recurrenceVars,
                 issueVars, rateVars>>

PaperTurn ==
  /\ moves = "paper" /\ IssueNext
  /\ UNCHANGED <<moves, orderVars, saleVars, importVars, attachmentVars, recurrenceVars,
                 enrollmentVars, rateVars>>

RateTurn ==
  /\ moves = "rate" /\ RateNext
  /\ UNCHANGED <<moves, orderVars, saleVars, importVars, attachmentVars, recurrenceVars,
                 enrollmentVars, issueVars>>

OfficeNext ==
  OrderTurn \/ SaleTurn \/ ImportTurn \/ AttachmentTurn \/ RecurrenceTurn \/ EnrollmentTurn
  \/ PaperTurn \/ RateTurn

officeVars ==
  <<moves, orderVars, saleVars, importVars, attachmentVars, recurrenceVars, enrollmentVars,
    issueVars, rateVars>>

OfficeSpec == OfficeInit /\ [][OfficeNext]_officeVars

\* The fields of every component have their types; at rest it is in an initial state, and all
\* of them are seen when it moves.
OfficeTypeOK ==
  CASE moves = "order" -> OrderTypeOK
    [] moves = "sale" -> SaleTypeOK
    [] moves = "import" -> ImportTypeOK
    [] moves = "attachment" -> AttachmentTypeOK
    [] moves = "recurrence" -> RecurrenceTypeOK
    [] moves = "enrollment" -> EnrollmentTypeOK
    [] moves = "paper" -> IssueTypeOK
    [] moves = "rate" -> RateTypeOK
===============================================================================

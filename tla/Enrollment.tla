------------------------------- MODULE Enrollment -------------------------------
(***************************************************************************)
(* Requests for training (lib/services/enrollments/lifecycle.ts): a header *)
(* and one item per listener.  Every operation reads, decides, and writes  *)
(* the header and the items in one transaction.  If the request is of an   *)
(* organization, the approval also gives every item its student            *)
(* (lib/services/students/fromEnrollment.ts); its transaction holds the    *)
(* header's row from its first write.                                      *)
(*                                                                         *)
(* A listener is compared with a student by the digits of the SNILS, or by *)
(* the name with the day of birth, or by the name with the e-mail: each of *)
(* these that is filled in is a key, and two are alike that share one.  So *)
(* one person may be two if they were named by different keys.             *)
(***************************************************************************)
EXTENDS Integers, FiniteSets, FiniteSetsExt

CONSTANTS
  Reviewers,   \* requests of reviewers that run at the same time
  Headers,     \* the requests for training
  Outside,     \* those without an organization; the others are of one
  Items,       \* the listeners
  Of,          \* the header of each
  Enrolled,    \* students the organization may have from before
  KeysOf,      \* the keys of each listener and student
  MailOf       \* the e-mail of each

\* A request without listeners is not accepted (validate.ts).
ASSUME EnrollmentAssumption ==
  /\ Of \in [Items -> Headers] /\ \A q \in Headers : \E i \in Items : Of[i] = q
  /\ Outside \subseteq Headers /\ Items \cap Enrolled = {}

VARIABLES
  header,    \* EnrollmentRequest.status
  item,      \* EnrollmentRequestItem.status
  student,   \* the items with a studentId
  cards,     \* the students: those from before, and of each listener one was made for
  review,    \* what each reviewer's request does and has read
  quiet,     \* history: the headers whose operations have not overlapped
  crossed    \* history: approvals of two headers of the organization have overlapped

enrollmentRows == <<header, item, student, cards>>
enrollmentVars == <<enrollmentRows, review, quiet, crossed>>

\* ENROLLMENT_PIPELINE, in this order; a rejected item is outside.
Pipeline == <<"pending", "approved", "provisioned", "in_training", "certificates_ready">>
Steps == 1..5
Statuses == {Pipeline[n] : n \in Steps} \cup {"rejected"}

ItemsOf(q) == {i \in Items : Of[i] = q}
Cards == Items \cup Enrolled
Alike(c, d) == KeysOf[c] \cap KeysOf[d] # {}

\* The unique index on a student's organization and e-mail, if there is one.
NoMail == 0
MailTaken(made, there) ==
  \E c \in made, d \in made \cup there : c # d /\ MailOf[c] # NoMail /\ MailOf[c] = MailOf[d]

\* The steps some item that is not rejected has reached.
Reached(of, S) == LET found == {of[i] : i \in S} IN {n \in Steps : Pipeline[n] \in found}

\* aggregateEnrollmentHeaderStatus.
Aggregate(of, S) ==
  LET reached == Reached(of, S) IN
  IF reached = {} THEN "rejected" ELSE Pipeline[Min(reached)]

NoReview == [do |-> "nothing", st |-> "idle", on |-> {}, moved |-> {}, target |-> "pending",
             status |-> "pending", known |-> {}]
Reviews == [do : {"nothing", "approve", "reject", "provision", "advance"},
            st : {"idle", "read", "open"}, on : SUBSET Headers, moved : SUBSET Items,
            target : Statuses, status : Statuses, known : SUBSET Cards]

\* A header whose approval has an open transaction: others wait to write it.
Locked(q) == \E h \in Reviewers : review[h].st = "open" /\ review[h].on = {q}

Reads(h, q, r) ==
  /\ review[h] = NoReview
  /\ review' = [review EXCEPT ![h] = r]
  /\ quiet' = quiet \ (IF \E g \in Reviewers : review[g].on = {q} THEN {q} ELSE {})
  /\ UNCHANGED <<enrollmentRows, crossed>>

About(h, q, do) == review[h].do = do /\ review[h].st = "read" /\ review[h].on = {q} /\ ~Locked(q)
Reviewed(h) == review' = [review EXCEPT ![h] = NoReview]

\* Some listeners were chosen among the students the organization has.
EnrollmentInit ==
  /\ header = [q \in Headers |-> "pending"] /\ item = [i \in Items |-> "pending"]
  /\ cards \in {S \in SUBSET Enrolled : ~MailTaken(S, {})}
  /\ student \in SUBSET {i \in Items : cards # {} /\ Of[i] \notin Outside}
  /\ review = [h \in Reviewers |-> NoReview]
  /\ quiet = Headers /\ crossed = FALSE

-----------------------------------------------------------------------------
ReadsToDo(h, q, do) == Reads(h, q, [NoReview EXCEPT !.do = do, !.st = "read", !.on = {q}])

ReadToApprove(h, q) == header[q] = "pending" /\ ReadsToDo(h, q, "approve")
ReadToReject(h, q) == header[q] \notin {"provisioned", "rejected"} /\ ReadsToDo(h, q, "reject")
ReadToProvision(h, q) == header[q] = "approved" /\ ReadsToDo(h, q, "provision")

\* The transaction writes the header, which keeps others out, and reads the students.
OpenApproval(h, q) ==
  /\ About(h, q, "approve")
  /\ review' = [review EXCEPT ![h].st = "open", ![h].known = cards]
  /\ crossed' = \/ crossed
                \/ q \notin Outside /\ \E o \in Headers \ (Outside \cup {q}) : Locked(o)
  /\ UNCHANGED <<enrollmentRows, quiet>>

\* Items that have a student keep it; those like a student get that one.
Unattached(q) == ItemsOf(q) \ student
Unmatched(q, known) == {i \in Unattached(q) : \A c \in known : ~Alike(i, c)}

OnePerItem(q, known) == {Unmatched(q, known)}            \* mutant of NewCards
\* The others in some order: a student is made for one unless it is like one made before.
NewCards(q, known) ==
  {made \in SUBSET Unmatched(q, known) :
     /\ \A i, j \in made : i # j => ~Alike(i, j)
     /\ \A i \in Unmatched(q, known) \ made : \E j \in made : Alike(i, j)}

\* Every item of an organization's request gets a student that was there, or a new one; if
\* somebody else has the e-mail of a new one, the transaction is rolled back (ReviewDies).
Approve(h, q) ==
  /\ review[h].st = "open" /\ review[h].on = {q}
  /\ header' = [header EXCEPT ![q] = "approved"]
  /\ item' = [i \in Items |->
       IF Of[i] = q /\ item[i] = "pending" THEN "approved" ELSE item[i]]
  /\ IF q \in Outside THEN UNCHANGED <<student, cards>>
     ELSE /\ \E made \in NewCards(q, review[h].known) :
               ~MailTaken(made, cards) /\ cards' = cards \cup made
          /\ student' = student \cup ItemsOf(q)
  /\ Reviewed(h)
  /\ UNCHANGED <<quiet, crossed>>

Reject(h, q) ==
  /\ About(h, q, "reject")
  /\ header' = [header EXCEPT ![q] = "rejected"]
  /\ item' = [i \in Items |-> IF Of[i] = q THEN "rejected" ELSE item[i]]
  /\ Reviewed(h)
  /\ UNCHANGED <<student, cards, quiet, crossed>>

MarkProvisioned(h, q) ==
  /\ About(h, q, "provision")
  /\ header' = [header EXCEPT ![q] = "provisioned"]
  /\ item' = [i \in Items |->
       IF Of[i] = q /\ item[i] # "rejected" THEN "provisioned" ELSE item[i]]
  /\ Reviewed(h)
  /\ UNCHANGED <<student, cards, quiet, crossed>>

TheTarget(q, n, next) == Pipeline[n]                     \* mutant of HeaderAfter
HeaderAfter(q, n, next) == Aggregate(next, ItemsOf(q))

\* Some items one step further, if all of them are one step before; the header is computed
\* from the items as they were read.
ReadToAdvance(h, q, n, S) ==
  LET target == Pipeline[n]
      next == [i \in Items |-> IF i \in S THEN target ELSE item[i]] IN
  /\ S # {} /\ \A i \in S : item[i] = Pipeline[n - 1]
  /\ Reads(h, q, [NoReview EXCEPT !.do = "advance", !.st = "read", !.on = {q}, !.moved = S,
                                  !.target = target, !.status = HeaderAfter(q, n, next)])

Advance(h, q) ==
  /\ About(h, q, "advance")
  /\ item' = [i \in Items |-> IF i \in review[h].moved THEN review[h].target ELSE item[i]]
  /\ header' = [header EXCEPT ![q] = review[h].status]
  /\ Reviewed(h)
  /\ UNCHANGED <<student, cards, quiet, crossed>>

\* The request dies, or its transaction is rolled back.
ReviewDies(h) ==
  /\ review[h] # NoReview
  /\ Reviewed(h)
  /\ UNCHANGED <<enrollmentRows, quiet, crossed>>

EnrollmentNext ==
  \E h \in Reviewers :
    \/ ReviewDies(h)
    \/ \E q \in Headers :
         \/ ReadToApprove(h, q) \/ ReadToReject(h, q) \/ ReadToProvision(h, q)
         \/ OpenApproval(h, q) \/ Approve(h, q) \/ Reject(h, q) \/ MarkProvisioned(h, q)
         \/ Advance(h, q)
         \/ \E n \in 4..5, S \in SUBSET ItemsOf(q) : ReadToAdvance(h, q, n, S)

EnrollmentSpec == EnrollmentInit /\ [][EnrollmentNext]_enrollmentVars

-----------------------------------------------------------------------------
(* Properties.                                                              *)

\* The fields have their types.
EnrollmentTypeOK ==
  /\ header \in [Headers -> Statuses] /\ item \in [Items -> Statuses]
  /\ student \subseteq Items /\ cards \subseteq Cards
  /\ review \in [Reviewers -> Reviews]
  /\ quiet \subseteq Headers /\ crossed \in BOOLEAN

\* As long as operations on a request do not overlap, its header says what its items say:
\* approval, rejection, provisioning and any partial advances of items, also one that died.
HeaderAgrees == \A q \in quiet : header[q] = Aggregate(item, ItemsOf(q))

\* No student is made that shares a key with another, however often and by how many hands a
\* request is approved (fromEnrollment.ts: a retry or a double click makes no litter) and
\* however many of its items name the person; only approvals of two requests at the same
\* time may not know of each other.  And what was approved for an organization, by whatever
\* path and in spite of requests that die, has its students.
OneCardEach ==
  /\ ~crossed => \A c, d \in cards : c # d /\ Alike(c, d) => {c, d} \subseteq Enrolled
  /\ \A i \in Items :
       Of[i] \notin Outside /\ item[i] \notin {"pending", "rejected"} => i \in student
===============================================================================

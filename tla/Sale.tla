--------------------------------- MODULE Sale ---------------------------------
(***************************************************************************)
(* From a lead to an order: the lead (services/manager/leadLifecycle.ts),  *)
(* the deal made of it (services/deals/convert.ts), its commercial         *)
(* proposal (services/documents/status.ts, acceptProposal.ts,              *)
(* rejectProposal.ts, send.ts, processors/expire-proposals.ts).  Three     *)
(* operations create an order: promoting the lead, winning the deal and    *)
(* accepting the proposal.                                                 *)
(*                                                                         *)
(* Every operation reads rows, decides, and writes by id in a transaction  *)
(* or a statement of its own; the status of the proposal is changed by     *)
(* setDocumentStatus only, which reads it again.                           *)
(***************************************************************************)
EXTENDS Integers, FiniteSets

CONSTANTS
  Requests,   \* requests and jobs that run at the same time
  MaxOrders   \* bound: the orders that can be created

ASSUME SaleAssumption == MaxOrders \in Nat

VARIABLES
  lead,      \* Lead.status, with new, in_review and qualified as "open"
  promoted,  \* Lead.promotedOrderId, or None
  deal,      \* Deal.status and orderId; st "none" while there is no deal
  linked,    \* the proposal was issued for the deal (Document.dealId)
  doc,       \* Document.status of the proposal
  made,      \* what each order was created by
  req,       \* the request under way
  alone      \* history: no two requests have overlapped

saleRows == <<lead, promoted, deal, linked, doc, made>>
saleVars == <<saleRows, req, alone>>

OrderIds == 1..MaxOrders
None == 0

LeadStatuses == {"open", "promoted_to_deal", "promoted_to_order", "rejected"}
DocStatuses == {"none", "draft", "sent", "accepted", "rejected", "expired", "cancelled"}

IssuedFlow(from) ==                                      \* mutant of Flow
  CASE from = "draft" -> {"issued", "cancelled"}
    [] from \in {"issued", "sent"} -> {"sent", "accepted", "cancelled"}
    [] OTHER -> {}
\* PROPOSAL_FLOW of lib/documents/statusMatrix.ts.
Flow(from) ==
  CASE from = "draft" -> {"sent", "cancelled"}
    [] from = "sent" -> {"accepted", "rejected", "expired", "cancelled"}
    [] OTHER -> {}

\* A request: what it does, where it is, and the order it saw.
NoReq == [do |-> "nothing", st |-> "idle", saw |-> None]

Doing == {"nothing", "convert", "promote", "reject_lead", "set_lead", "win", "accept"}
         \cup DocStatuses

SaleRequests == [do : Doing, st : {"idle", "read", "ordered", "checked"},
                 saw : {None} \cup OrderIds]

RequestBegins(r, do, st, saw) ==
  /\ req[r].st = "idle"
  /\ req' = [req EXCEPT ![r] = [do |-> do, st |-> st, saw |-> saw]]
  /\ alone' = (alone /\ \A q \in Requests : req[q].st = "idle")

Doer(r, do) == req[r].do = do /\ req[r].st = "read"
Ends(r) == req' = [req EXCEPT ![r] = NoReq]

Made(o) == made[o] # "nothing"

\* Ids are given in order.
NewOrder(o, by) ==
  /\ o \in OrderIds /\ ~Made(o) /\ \A i \in 1..o - 1 : Made(i)
  /\ made' = [made EXCEPT ![o] = by]

SaleInit ==
  /\ lead = "open" /\ promoted = None
  /\ deal = [st |-> "none", order |-> None]
  /\ linked = FALSE /\ doc = "none"
  /\ made = [o \in OrderIds |-> "nothing"]
  /\ req = [r \in Requests |-> NoReq]
  /\ alone = TRUE

-----------------------------------------------------------------------------
(* The lead.                                                                *)

\* A lead that is still open and has become neither an order nor a deal.
ReadToConvert(r) ==
  /\ lead = "open" /\ promoted = None /\ deal.st = "none"
  /\ RequestBegins(r, "convert", "read", None)
  /\ UNCHANGED saleRows

AnotherDeal(r) ==                                        \* mutant of CreateDeal
  /\ deal' = [st |-> "open", order |-> None] /\ lead' = "promoted_to_deal"
\* Deal.leadId is unique: a second deal of the lead rolls its transaction back.
CreateDeal(r) ==
  IF deal.st = "none"
  THEN deal' = [st |-> "open", order |-> None] /\ lead' = "promoted_to_deal"
  ELSE UNCHANGED <<deal, lead>>

CommitConvert(r) ==
  /\ Doer(r, "convert")
  /\ CreateDeal(r)
  /\ Ends(r)
  /\ UNCHANGED <<promoted, linked, doc, made, alone>>

\* The organization is known; a lead that became a deal is not refused here.
ReadToPromote(r) ==
  /\ lead \notin {"promoted_to_order", "rejected"} /\ promoted = None
  /\ RequestBegins(r, "promote", "read", None)
  /\ UNCHANGED saleRows

CommitPromote(r, o) ==
  /\ Doer(r, "promote")
  /\ NewOrder(o, "lead")
  /\ lead' = "promoted_to_order" /\ promoted' = o
  /\ Ends(r)
  /\ UNCHANGED <<deal, linked, doc, alone>>

ReadToRejectLead(r) ==
  /\ lead # "promoted_to_order"
  /\ RequestBegins(r, "reject_lead", "read", None)
  /\ UNCHANGED saleRows

CommitRejectLead(r) ==
  /\ Doer(r, "reject_lead")
  /\ lead' = "rejected"
  /\ Ends(r)
  /\ UNCHANGED <<promoted, deal, linked, doc, made, alone>>

\* Between new, in_review and qualified.
ReadToSetLead(r) ==
  /\ lead = "open"
  /\ RequestBegins(r, "set_lead", "read", None)
  /\ UNCHANGED saleRows

CommitSetLead(r) ==
  /\ Doer(r, "set_lead")
  /\ lead' = "open"
  /\ Ends(r)
  /\ UNCHANGED <<promoted, deal, linked, doc, made, alone>>

-----------------------------------------------------------------------------
(* The deal.                                                                *)

NothingBefore == None                                    \* mutant of OrderOfDeal
OrderOfDeal == deal.order

ReadToWin(r) ==
  /\ deal.st = "open"
  /\ RequestBegins(r, "win", "read", OrderOfDeal)
  /\ UNCHANGED saleRows

\* The deal had an order already: it is only marked won.
CommitWin(r) ==
  /\ Doer(r, "win") /\ req[r].saw # None
  /\ deal' = [deal EXCEPT !.st = "won"]
  /\ Ends(r)
  /\ UNCHANGED <<lead, promoted, linked, doc, made, alone>>

CommitWinWithOrder(r, o) ==
  /\ Doer(r, "win") /\ req[r].saw = None
  /\ NewOrder(o, "win")
  /\ deal' = [st |-> "won", order |-> o]
  /\ Ends(r)
  /\ UNCHANGED <<lead, promoted, linked, doc, alone>>

-----------------------------------------------------------------------------
(* The proposal.                                                            *)

\* Issued as a draft, for the deal or for the organization alone.
IssueProposal ==
  /\ doc = "none" /\ doc' = "draft"
  /\ linked' \in IF deal.st = "open" THEN BOOLEAN ELSE {FALSE}
  /\ UNCHANGED <<lead, promoted, deal, made, req, alone>>

\* setDocumentStatus, for a letter sent, the client's refusal, the nightly expiry and
\* the cancellation: the transition is checked first, the row is written by id.
ReadToMove(r, to) ==
  /\ to \in Flow(doc) /\ to # "accepted"
  /\ RequestBegins(r, to, "checked", None)
  /\ UNCHANGED saleRows

StatusFirst(r) ==                                        \* mutant of ReadToAccept
  /\ doc # "none"
  /\ RequestBegins(r, "accept", "ordered", None)
  /\ UNCHANGED saleRows
\* The order the deal has; the status of the proposal is looked at only after the order.
ReadToAccept(r) ==
  /\ doc # "none"
  /\ RequestBegins(r, "accept", "read", IF linked THEN OrderOfDeal ELSE None)
  /\ UNCHANGED saleRows

OrderKept(r) ==
  /\ Doer(r, "accept") /\ req[r].saw # None
  /\ req' = [req EXCEPT ![r].st = "ordered"]
  /\ UNCHANGED <<saleRows, alone>>

\* The new order and the link of the deal are one transaction; the link is by id.
OrderOfProposal(r, o) ==
  /\ Doer(r, "accept") /\ req[r].saw = None
  /\ NewOrder(o, "proposal")
  /\ deal' = IF linked THEN [deal EXCEPT !.order = o] ELSE deal
  /\ req' = [req EXCEPT ![r].st = "ordered"]
  /\ UNCHANGED <<lead, promoted, linked, doc, alone>>

CheckAccepted(r) ==
  /\ req[r].do = "accept" /\ req[r].st = "ordered"
  /\ IF "accepted" \in Flow(doc)
     THEN req' = [req EXCEPT ![r].do = "accepted", ![r].st = "checked"]
     ELSE Ends(r)
  /\ UNCHANGED <<saleRows, alone>>

StoreStatus(r) ==
  /\ req[r].st = "checked"
  /\ doc' = req[r].do
  /\ Ends(r)
  /\ UNCHANGED <<lead, promoted, deal, linked, made, alone>>

\* The request dies, or its next write is refused.
RequestDies(r) ==
  /\ req[r].st # "idle"
  /\ Ends(r)
  /\ UNCHANGED <<saleRows, alone>>

SaleNext ==
  \/ IssueProposal
  \/ \E r \in Requests :
       \/ ReadToConvert(r) \/ CommitConvert(r) \/ ReadToPromote(r)
       \/ ReadToRejectLead(r) \/ CommitRejectLead(r) \/ ReadToSetLead(r) \/ CommitSetLead(r)
       \/ ReadToWin(r) \/ CommitWin(r)
       \/ \E to \in Flow(doc) : ReadToMove(r, to)
       \/ ReadToAccept(r) \/ OrderKept(r) \/ CheckAccepted(r) \/ StoreStatus(r)
       \/ RequestDies(r)
       \/ \E o \in OrderIds :
            CommitPromote(r, o) \/ CommitWinWithOrder(r, o) \/ OrderOfProposal(r, o)

SaleSpec == SaleInit /\ [][SaleNext]_saleVars

-----------------------------------------------------------------------------
(* Properties.                                                              *)

\* The fields have their types.
SaleTypeOK ==
  /\ lead \in LeadStatuses /\ promoted \in {None} \cup OrderIds
  /\ deal \in [st : {"none", "open", "won"}, order : {None} \cup OrderIds]
  /\ linked \in BOOLEAN /\ doc \in DocStatuses
  /\ made \in [OrderIds -> {"nothing", "proposal", "win", "lead"}]
  /\ req \in [Requests -> SaleRequests]
  /\ alone \in BOOLEAN

MadeBy(by) == {o \in OrderIds : made[o] = by}

\* An accepted proposal has an order behind it, in spite of overlapping requests and of
\* deaths between the two (acceptProposal.ts: "accepted" without an order would look like
\* a promise that was kept).
AcceptedHasOrder ==
  doc = "accepted" =>
    MadeBy("proposal") # {} \/ (linked /\ deal.order # None)

\* A deal that won stays won and keeps an order: a second conversion of its lead, an
\* acceptance or a second win under way do not open it again nor take the order away.
DealKept == [][deal.st = "won" => deal'.st = "won" /\ deal'.order # None]_saleVars

\* As long as requests do not overlap, accepting a proposal and winning its deal, in any
\* order, again after a death half-way or by a second press, leave one order
\* (convert.ts: the win would otherwise create a second order).
OneOrderPerDeal ==
  alone /\ linked => Cardinality(MadeBy("proposal") \cup MadeBy("win")) <= 1
===============================================================================

----------------------------- MODULE CommissionRate -----------------------------
(***************************************************************************)
(* The rate at which a payment earns commission                            *)
(* (lib/services/commission/rateResolve.ts): that of its organization, if  *)
(* it had one of its own on the day of the payment, or else that of the    *)
(* partner.  Both are kept as a current value and a history of changes     *)
(* (services/admin/partners.ts, services/partner/rateOverride.ts).         *)
(*                                                                         *)
(* The current value of a partner may be changed from a date the           *)
(* administrator chooses, that of an organization from now on.             *)
(***************************************************************************)
EXTENDS Integers, Sequences

CONSTANTS
  Admins,      \* requests that change rates at the same time
  Rates,       \* rates; 0 is "no rate" of a partner
  LastDay,     \* bound: days are 0..LastDay
  MaxChanges   \* bound: rows of both histories

ASSUME RateAssumption == Rates \subseteq Nat /\ LastDay \in Nat \ {0} /\ MaxChanges \in Nat

VARIABLES
  now,
  rate, changes,           \* Partner.commissionRate, its CommissionRateChange rows
  override, orgChanges,    \* Organization.partnerCommissionRate and its rows
  pen,                     \* what each request is about to write
  agreed, orgAgreed,       \* history: the rates agreed for each day
  tidy                     \* history: no change from a day at or before an earlier change's,
                           \* and none lost because another came in between

partnerRate == <<rate, changes, agreed>>
orgRate == <<override, orgChanges, orgAgreed>>
rateVars == <<now, partnerRate, orgRate, pen, tidy>>

Days == 0..LastDay
Unset == -1   \* NULL

Change == [from : Days, old : Rates \cup {Unset}, new : Rates \cup {Unset}]
NoPen == [on |-> "nothing", from |-> 0, old |-> Unset, new |-> Unset]
Pens == [on : {"nothing", "partner", "organization"}, from : Days, old : Rates \cup {Unset},
         new : Rates \cup {Unset}]

-----------------------------------------------------------------------------
(* The rate of a day.                                                       *)

InForce(rows, d) == {i \in DOMAIN rows : rows[i].from <= d}

OfToday(rows, fallback) == fallback                      \* mutant of BeforeAll
\* What was in force before the first change.
BeforeAll(rows, fallback) ==
  rows[CHOOSE i \in DOMAIN rows : \A k \in DOMAIN rows : rows[i].from <= rows[k].from].old

\* Rows of one date come from the database in any order; what is tidy has none.
RateOn(rows, d, fallback) ==
  IF rows = <<>> THEN fallback
  ELSE IF InForce(rows, d) = {} THEN BeforeAll(rows, fallback)
  ELSE rows[CHOOSE i \in InForce(rows, d) :
              \A k \in InForce(rows, d) : rows[k].from <= rows[i].from].new

PartnerRateOn(d) == LET r == RateOn(changes, d, rate) IN IF r = Unset THEN rate ELSE r

\* A rate of the organization counts even if it is lower; NULL is inheritance.
EffectiveRate(d) ==
  LET r == RateOn(orgChanges, d, override) IN IF r = Unset THEN PartnerRateOn(d) ELSE r

-----------------------------------------------------------------------------
(* A partner created with a rate has a first row without an old one, a      *)
(* partner without a rate has none, nor have rates older than the history.  *)

Always(r) == [d \in Days |-> r]
From(agreement, e, r) == [d \in Days |-> IF d >= e THEN r ELSE agreement[d]]

RateInit ==
  /\ now = 1
  /\ \E r \in Rates :
       /\ rate = r
       /\ \/ changes = <<>> /\ agreed = Always(r)
          \/ r # 0 /\ changes = <<[from |-> 1, old |-> Unset, new |-> r]>>
             /\ agreed = From(Always(Unset), 1, r)
  /\ override \in Rates \cup {Unset} /\ override # 0
  /\ orgChanges = <<>> /\ orgAgreed = Always(override)
  /\ pen = [a \in Admins |-> NoPen]
  /\ tidy = TRUE

Written(a) == pen' = [pen EXCEPT ![a] = NoPen]
ChangesMade == Len(changes) + Len(orgChanges)
InOrder(rows, e) == \A i \in DOMAIN rows : rows[i].from < e

\* updatePartner: from now on, or from a date of the past or the future.
ReadRate(a, new, from) ==
  /\ pen[a] = NoPen
  /\ pen' = [pen EXCEPT ![a] = [on |-> "partner", from |-> from, old |-> rate, new |-> new]]
  /\ UNCHANGED <<now, partnerRate, orgRate, tidy>>

\* A row is written only if the rate differs from the one read.
StoreRate(a) ==
  LET p == pen[a] IN
  /\ p.on = "partner" /\ ChangesMade < MaxChanges
  /\ rate' = p.new
  /\ IF p.new # p.old
     THEN /\ changes' = Append(changes, [from |-> p.from, old |-> p.old, new |-> p.new])
          /\ agreed' = From(agreed, p.from, p.new)
          /\ tidy' = (tidy /\ InOrder(changes, p.from))
     ELSE /\ UNCHANGED <<changes, agreed>>
          /\ tidy' = (tidy /\ rate = p.old)
  /\ Written(a)
  /\ UNCHANGED <<now, orgRate>>

\* setOrgCommissionRate (a rate between 0 and 1), clearOrgCommissionRate (NULL).
Ask(a, new) ==
  /\ pen[a] = NoPen
  /\ pen' = [pen EXCEPT ![a] = [on |-> "organization", from |-> 0, old |-> override,
                                new |-> new]]
  /\ UNCHANGED <<now, partnerRate, orgRate, tidy>>

SetOverride(a, new) == new # 0 /\ Ask(a, new)
ClearOverride(a) == Ask(a, Unset)

\* A row is written in any case, at a moment of its own.
StoreOverride(a) ==
  LET p == pen[a] IN
  /\ p.on = "organization" /\ ChangesMade < MaxChanges /\ InOrder(orgChanges, now)
  /\ override' = p.new
  /\ orgChanges' = Append(orgChanges, [from |-> now, old |-> p.old, new |-> p.new])
  /\ orgAgreed' = From(orgAgreed, now, p.new)
  /\ Written(a)
  /\ UNCHANGED <<now, partnerRate, tidy>>

PenDies(a) ==
  /\ pen[a] # NoPen /\ Written(a)
  /\ UNCHANGED <<now, partnerRate, orgRate, tidy>>

DayPasses ==
  /\ now < LastDay /\ now' = now + 1
  /\ UNCHANGED <<partnerRate, orgRate, pen, tidy>>

RateNext ==
  \/ DayPasses
  \/ \E a \in Admins :
       \/ \E r \in Rates, e \in Days : ReadRate(a, r, e)
       \/ \E r \in Rates : SetOverride(a, r)
       \/ ClearOverride(a)
       \/ StoreRate(a) \/ StoreOverride(a) \/ PenDies(a)

RateSpec == RateInit /\ [][RateNext]_rateVars

-----------------------------------------------------------------------------
(* Properties.                                                              *)

\* The fields have their types.
RateTypeOK ==
  /\ now \in Days
  /\ rate \in Rates /\ changes \in Seq(Change)
  /\ override \in Rates \cup {Unset} /\ orgChanges \in Seq(Change)
  /\ pen \in [Admins -> Pens]
  /\ agreed \in [Days -> Rates \cup {Unset}] /\ orgAgreed \in [Days -> Rates \cup {Unset}]
  /\ tidy \in BOOLEAN

\* However rates are set, cleared and set again, now or from another day, also by requests
\* that overlap, the rate found for any day is the one agreed for that day, not that of today: the
\* statement of an old period does not change when a rate does (rateResolve.ts: "the rate in
\* force at paidAt").  It holds for changes that come in the order of their dates, and
\* not for days before the partner's first row.
RateAsAgreed ==
  tidy => \A d \in Days :
            LET due == IF orgAgreed[d] # Unset THEN orgAgreed[d] ELSE agreed[d] IN
              due # Unset => EffectiveRate(d) = due
===============================================================================

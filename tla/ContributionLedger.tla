-------------------------- MODULE ContributionLedger --------------------------
(***************************************************************************)
(* The contribution ledger of one group: the dues the schedule assesses,   *)
(* the payments members submit or officers record, the review of those     *)
(* payments, the allocation of money to dues, late penalties and receipts. *)
(*                                                                         *)
(* The module follows apps/api/src/groups/groups.service.ts and composes   *)
(* the payments with the passes of ContributionSchedule.  Every officer    *)
(* handler first reads the officer's role (requireMembership) OUTSIDE its  *)
(* transaction, so those handlers are two or three actions and keep what   *)
(* they read in request[m].  All members are ACTIVE here and the group's   *)
(* subscription grants access.                                             *)
(***************************************************************************)
EXTENDS ContributionSchedule

CONSTANTS
  Member,          \* members of the group
  None,            \* a value that is no member and no payment
  DueOwner,        \* [Due -> Member]
  InitialPlan,     \* the recurring plan of the configured group
  Prices,          \* amounts an admin may set the plan to (0 switches it off)
  Amounts,         \* amounts a payment may have
  Rules,           \* payment rules an admin may save
  MaxTime,         \* bound on the clock
  InitialRole,     \* [Member -> Role]
  Assignable,      \* <<member, role>> pairs assignRole is asked for
  ReviewOps,       \* review requests officers make
  RunnerCalls      \* <<runner, call>> pairs: the passes that run

Role == {"GROUP_ADMIN", "TREASURER", "SECRETARY", "MEMBER"}
Officer == {"GROUP_ADMIN", "TREASURER", "SECRETARY"}

ASSUME LedgerAssumption ==
  /\ None \notin Member \cup Payment
  /\ DueOwner \in [Due -> Member]
  /\ InitialPlan \in PlanRow
  /\ Prices \subseteq Minor
  /\ Amounts \subseteq Minor \ {0}
  /\ Rules \subseteq Rule
  /\ MaxTime \in Nat
  /\ InitialRole \in [Member -> Role]
  /\ Assignable \subseteq Member \X Role
  /\ ReviewOps \subseteq {"APPROVE", "REJECT", "CORRECT"}
  /\ RunnerCalls \subseteq Runner \X Call

VARIABLES
  role,         \* GroupMember.role
  payment,      \* GroupContributionPayment rows, by id
  receipt,      \* payments with a Receipt row
  request       \* what each officer's running review handler has read

schedule == <<now, rule, partial, plan, obligation, pending, applied, pass>>
vars == <<now, rule, partial, plan, obligation, pending, applied, pass,
          role, payment, receipt, request>>

-----------------------------------------------------------------------------
(* Rows and what a handler remembers. *)

OwnerOf(s) == DueOwner[s[1]]

PaymentStatus == {"ABSENT", "PENDING_VERIFICATION", "APPROVED", "REJECTED",
                  "CORRECTION_REQUESTED"}
PaymentRow == [status : PaymentStatus, member : Member \cup {None}, amount : Minor,
               reviewer : Member \cup {None}, historical : BOOLEAN]
AbsentPayment == [status |-> "ABSENT", member |-> None, amount |-> 0,
                  reviewer |-> None, historical |-> FALSE]

Nothing == [s \in Slot |-> 0]

Idle == [op |-> "NONE", payment |-> None, payer |-> None, role |-> "MEMBER",
         seen |-> "ABSENT"]
Request == [op : {"NONE", "RECORD", "IMPORT", "APPROVE", "REJECT", "CORRECT", "WRITE_REJECT",
                  "WRITE_CORRECT"},
            payment : Payment \cup {None}, payer : Member \cup {None},
            role : Role, seen : PaymentStatus]

TypeOK ==
  /\ now \in Nat
  /\ rule \in Rule
  /\ partial \in BOOLEAN
  /\ plan \in PlanRow
  /\ obligation \in [Slot -> Obligation]
  /\ pending \in [Payment -> [Slot -> Minor]]
  /\ applied \in [Payment -> [Slot -> Minor]]
  /\ pass \in [Runner -> Pass]
  /\ role \in [Member -> Role]
  /\ payment \in [Payment -> PaymentRow]
  /\ receipt \subseteq Payment
  /\ request \in [Member -> Request]

(* A configured group before the first pass of its schedule. *)
Init ==
  /\ now = 0
  /\ rule = [allowsPartial |-> FALSE, autoAllocate |-> TRUE,
             penalties |-> FALSE, effectiveAt |-> 0]
  /\ partial = FALSE
  /\ plan = InitialPlan
  /\ obligation = NoRows
  /\ pending = [p \in Payment |-> Nothing]
  /\ applied = [p \in Payment |-> Nothing]
  /\ pass = [r \in Runner |-> IdlePass]
  /\ role = InitialRole
  /\ payment = [p \in Payment |-> AbsentPayment]
  /\ receipt = {}
  /\ request = [m \in Member |-> Idle]

-----------------------------------------------------------------------------
(* Allocation of a payment to dues: allocatePaymentToObligations. *)

(* Money promised by payments that wait for verification. *)
Reserved(s) ==
  Total({p \in Payment : payment[p].status = "PENDING_VERIFICATION"},
        [p \in Payment |-> pending[p][s]])

Outstanding(s) == obligation[s].due - obligation[s].paid - Reserved(s)

(* The rows member m can pay now. *)
Payable(m) ==
  {s \in Slot : /\ OwnerOf(s) = m
                /\ obligation[s].status \in {"DUE", "PARTIALLY_PAID"}
                /\ obligation[s].dueAt <= now}

(* Mutation: money that is left over when all dues are full is dropped. *)
FillingsWithLeftover(open, amount) ==
  {fill \in [open -> Minor] :
     /\ Total(open, fill) <= amount
     /\ \A s \in open : fill[s] <= Outstanding(s)
     /\ partial \/ \A s \in open : fill[s] \in {0, Outstanding(s)}}

(* The ways amount fills the dues in open, oldest first.  Rows that fall due
   on the same day have no stated order between them. *)
Fillings(open, amount) ==
  {fill \in [open -> Minor] :
     LET part(s) == fill[s] > 0 /\ fill[s] < Outstanding(s)
     IN  /\ Total(open, fill) = amount
         /\ \A s \in open : fill[s] <= Outstanding(s)
         /\ \A s, t \in open :
              /\ obligation[s].dueAt < obligation[t].dueAt /\ fill[t] > 0
                   => fill[s] = Outstanding(s)
              /\ part(s) /\ part(t) => s = t
         /\ partial \/ \A s \in open : ~part(s)}

(* The allocations the code may create for a payment of amount by m; wanted
   are the dues the request selects, {} when it selects none. *)
Allocations(m, amount, wanted) ==
  LET open == {s \in (IF wanted = {} THEN Payable(m) ELSE wanted) : Outstanding(s) > 0}
  IN  IF \/ ~(wanted \subseteq Payable(m))
         \/ wanted = {} /\ ~rule.autoAllocate
      THEN {}
      ELSE {[s \in Slot |-> IF s \in open THEN fill[s] ELSE 0] : fill \in Fillings(open, amount)}

(* Mutation: a due paid to the last unit is still open. *)
StatusForStrict(due, paid) ==
  CASE paid > due -> "PAID"
    [] paid > 0 /\ paid <= due -> "PARTIALLY_PAID"
    [] OTHER -> "DUE"

StatusFor(due, paid) ==
  CASE paid >= due -> "PAID"
    [] paid > 0 /\ paid < due -> "PARTIALLY_PAID"
    [] OTHER -> "DUE"

(* Mutation: the absolute write forgets what was paid before. *)
ApplyOverwriting(a) ==
  obligation' = [s \in Slot |->
                   IF a[s] = 0 THEN obligation[s]
                   ELSE [obligation[s] EXCEPT !.paid = a[s],
                                              !.status = StatusFor(obligation[s].due, a[s])]]

(* The rows after allocation a is applied to them. *)
Apply(a) ==
  obligation' = [s \in Slot |->
                   IF a[s] = 0 THEN obligation[s]
                   ELSE [obligation[s] EXCEPT
                           !.paid = @ + a[s],
                           !.status = StatusFor(obligation[s].due, obligation[s].paid + a[s])]]

-----------------------------------------------------------------------------
(* Settings, rules, roles and time. *)

Admins == {m \in Member : role[m] = "GROUP_ADMIN"}

Tick ==
  /\ now < MaxTime
  /\ now' = now + 1
  /\ UNCHANGED <<rule, partial, plan, obligation, pending, applied, pass,
                 role, payment, receipt, request>>

(* The passes of the schedule, by the call that runs them. *)
RunSchedule ==
  /\ \/ \E rc \in RunnerCalls : BeginPass(rc[1], rc[2])
     \/ \E r \in Runner : PassStep(r)
  /\ UNCHANGED <<role, payment, receipt, request>>

SaveContributionSettings(r, price, active) ==
  /\ <<r, "SETTINGS">> \in RunnerCalls
  /\ Admins # {}
  /\ SaveSettings(r, price, active)
  /\ UNCHANGED <<role, payment, receipt, request>>

SaveFinancialYear ==
  /\ Admins # {}
  /\ WholePass
  /\ UNCHANGED <<role, payment, receipt, request>>

(* Mutation: saving a rule keeps the date it was first in force. *)
SavePaymentRulesKeepingDate(r) ==
  /\ Admins # {}
  /\ rule' = [r EXCEPT !.effectiveAt = rule.effectiveAt]
  /\ partial' = r.allowsPartial
  /\ UNCHANGED <<now, plan, obligation, pending, applied, pass, role, payment, receipt, request>>

(* One transaction: the rule and the flag of every plan of the group. *)
SavePaymentRules(r) ==
  /\ Admins # {}
  /\ rule' = [r EXCEPT !.effectiveAt = now]
  /\ partial' = r.allowsPartial
  /\ UNCHANGED <<now, plan, obligation, pending, applied, pass, role, payment, receipt, request>>

AssignRole(m, newRole) ==
  /\ Admins # {}
  /\ newRole # "GROUP_ADMIN" => Admins \ {m} # {} \/ m \notin Admins
  /\ role' = [role EXCEPT ![m] = newRole]
  /\ UNCHANGED <<schedule, payment, receipt, request>>

-----------------------------------------------------------------------------
(* Payments. *)

MayReview(reviewerRole, payerRole) ==
  \/ reviewerRole = "GROUP_ADMIN"
  \/ reviewerRole = "SECRETARY" /\ payerRole = "TREASURER"
  \/ reviewerRole = "TREASURER" /\ payerRole # "TREASURER"

(* Mutation: a rejected payment can be taken up again. *)
ReviewableAgain == {"PENDING_VERIFICATION", "CORRECTION_REQUESTED", "REJECTED"}

Reviewable == {"PENDING_VERIFICATION", "CORRECTION_REQUESTED"}

SubmitPayment(m, p, amount, wanted) ==
  /\ payment[p].status = "ABSENT"
  /\ \E a \in Allocations(m, amount, wanted) : pending' = [pending EXCEPT ![p] = a]
  /\ payment' = [payment EXCEPT ![p] =
                   [status |-> "PENDING_VERIFICATION", member |-> m, amount |-> amount,
                    reviewer |-> None, historical |-> FALSE]]
  /\ UNCHANGED <<now, rule, partial, plan, obligation, applied, pass, role, receipt, request>>

(* recordPayment checks both roles first ... *)
BeginRecord(m, payer) ==
  /\ request[m].op = "NONE"
  /\ role[m] \in Officer
  /\ m # payer
  /\ MayReview(role[m], role[payer])
  /\ request' = [request EXCEPT ![m] = [Idle EXCEPT !.op = "RECORD", !.payer = payer,
                                                    !.role = role[m]]]
  /\ UNCHANGED <<schedule, role, payment, receipt>>

(* ... and then creates, allocates and receipts the payment in one
   Serializable transaction. *)
CommitRecord(m, p, amount, wanted) ==
  /\ request[m].op = "RECORD"
  /\ payment[p].status = "ABSENT"
  /\ \E a \in Allocations(request[m].payer, amount, wanted) :
       /\ applied' = [applied EXCEPT ![p] = a]
       /\ Apply(a)
  /\ payment' = [payment EXCEPT ![p] =
                   [status |-> "APPROVED", member |-> request[m].payer, amount |-> amount,
                    reviewer |-> m, historical |-> FALSE]]
  /\ receipt' = receipt \cup {p}
  /\ request' = [request EXCEPT ![m] = Idle]
  /\ UNCHANGED <<now, rule, partial, plan, pending, pass, role>>

(* createHistoricalPayments: the payment and an allocation to the plan, not
   to a due, are committed ... *)
ImportHistorical(m, p, payer, amount) ==
  /\ request[m].op = "NONE"
  /\ role[m] \in {"GROUP_ADMIN", "SECRETARY"}
  /\ plan.active
  /\ payment[p].status = "ABSENT"
  /\ payment' = [payment EXCEPT ![p] =
                   [status |-> "APPROVED", member |-> payer, amount |-> amount,
                    reviewer |-> m, historical |-> TRUE]]
  /\ request' = [request EXCEPT ![m] = [Idle EXCEPT !.op = "IMPORT", !.payment = p]]
  /\ UNCHANGED <<schedule, role, receipt>>

(* ... and the receipt is created after the commit, on its own. *)
IssueHistoricalReceipt(m) ==
  /\ request[m].op = "IMPORT"
  /\ receipt' = receipt \cup {request[m].payment}
  /\ request' = [request EXCEPT ![m] = Idle]
  /\ UNCHANGED <<schedule, role, payment>>

-----------------------------------------------------------------------------
(* Review. *)

BeginReview(m, p, op) ==
  /\ request[m].op = "NONE"
  /\ role[m] \in Officer
  /\ payment[p].status # "ABSENT"
  /\ request' = [request EXCEPT ![m] = [Idle EXCEPT !.op = op, !.payment = p, !.role = role[m]]]
  /\ UNCHANGED <<schedule, role, payment, receipt>>

(* Mutation: applyPendingPaymentAllocations trusts the allocations. *)
FitsDuesUnchecked(p) == TRUE

(* No due would be paid beyond its amount by the promises of payment p. *)
FitsDues(p) == \A s \in Slot : obligation[s].paid + pending[p][s] <= obligation[s].due

(* The columns a decision about a payment writes. *)
Decided(row, status, m) == [row EXCEPT !.status = status, !.reviewer = m]

(* The Serializable transaction of approvePayment.  A submitted payment
   always has PENDING allocations, so allocatePaymentToObligations applies
   them and never allocates afresh. *)
CommitApproval(m) ==
  LET p == request[m].payment
  IN  /\ request[m].op = "APPROVE"
      /\ MayReview(request[m].role, role[payment[p].member])
      /\ payment[p].status \in Reviewable
      /\ FitsDues(p)
      /\ payment' = [payment EXCEPT ![p] = Decided(@, "APPROVED", m)]
      /\ applied' = [applied EXCEPT ![p] = pending[p]]
      /\ pending' = [pending EXCEPT ![p] = Nothing]
      /\ Apply(pending[p])
      /\ receipt' = receipt \cup {p}
      /\ request' = [request EXCEPT ![m] = Idle]
      /\ UNCHANGED <<now, rule, partial, plan, pass, role>>

(* rejectPayment and requestPaymentCorrection read the payment, check it ... *)
ReadForReview(m) ==
  LET p == request[m].payment
  IN  /\ request[m].op \in {"REJECT", "CORRECT"}
      /\ MayReview(request[m].role, role[payment[p].member])
      /\ payment[p].status \in
            (IF request[m].op = "REJECT" THEN Reviewable ELSE {"PENDING_VERIFICATION"})
      /\ request' = [request EXCEPT
            ![m].op = IF @ = "REJECT" THEN "WRITE_REJECT" ELSE "WRITE_CORRECT",
            ![m].seen = payment[p].status]
      /\ UNCHANGED <<schedule, role, payment, receipt>>

(* Mutation: the write is not conditional on the status. *)
StillAsReadUnchecked(m) == TRUE

(* The status column the conditional update asks for. *)
StillAsRead(m) == payment[request[m].payment].status = request[m].seen

(* ... and write it only if its status is still the one they read. *)
WriteReview(m) ==
  LET p == request[m].payment
  IN  /\ request[m].op \in {"WRITE_REJECT", "WRITE_CORRECT"}
      /\ StillAsRead(m)
      /\ payment' = [payment EXCEPT
            ![p] = Decided(@, IF request[m].op = "WRITE_REJECT" THEN "REJECTED"
                              ELSE "CORRECTION_REQUESTED", m)]
      /\ request' = [request EXCEPT ![m] = Idle]
      /\ UNCHANGED <<schedule, role, receipt>>

(* A handler throws, its transaction is rolled back, or the process dies. *)
AbandonRequest(m) ==
  /\ request[m].op # "NONE"
  /\ request' = [request EXCEPT ![m] = Idle]
  /\ UNCHANGED <<schedule, role, payment, receipt>>

Next ==
  \/ Tick
  \/ RunSchedule
  \/ \E r \in Runner, price \in Prices, active \in BOOLEAN : SaveContributionSettings(r, price, active)
  \/ SaveFinancialYear
  \/ \E r \in Rules : SavePaymentRules(r)
  \/ \E mr \in Assignable : AssignRole(mr[1], mr[2])
  \/ \E m \in Member, p \in Payment, amount \in Amounts :
       \E wanted \in SUBSET Slot : SubmitPayment(m, p, amount, wanted)
  \/ \E m, payer \in Member : BeginRecord(m, payer)
  \/ \E m \in Member, p \in Payment, amount \in Amounts :
       \E wanted \in SUBSET Slot : CommitRecord(m, p, amount, wanted)
  \/ \E m, payer \in Member, p \in Payment, amount \in Amounts : ImportHistorical(m, p, payer, amount)
  \/ \E m \in Member : IssueHistoricalReceipt(m)
  \/ \E m \in Member, p \in Payment, op \in ReviewOps : BeginReview(m, p, op)
  \/ \E m \in Member : CommitApproval(m)
  \/ \E m \in Member : ReadForReview(m)
  \/ \E m \in Member : WriteReview(m)
  \/ \E m \in Member : AbandonRequest(m)

Spec == Init /\ [][Next]_vars

-----------------------------------------------------------------------------
(* Safety. *)

(* No due is ever paid more than it is worth, however submissions, direct
   records, corrections, late approvals and re-pricing of the schedule
   interleave (the checks of allocatePaymentToObligations and
   applyPendingPaymentAllocations). *)
NoOverpayment == \A s \in Slot : obligation[s].paid <= obligation[s].due

(* amountPaidMinor of a due, which handlers overwrite with an absolute value,
   always equals the sum of the APPLIED allocations that point at it. *)
LedgerBalanced ==
  \A s \in Slot : obligation[s].paid = Total(Payment, [p \in Payment |-> applied[p][s]])

(* Money is never lost or split twice: the allocations of a payment that is
   not a historical import add up to the payment, and they are APPLIED exactly
   when the payment is APPROVED. *)
PaymentsFullyAllocated ==
  \A p \in Payment :
    LET held == Total(Slot, pending[p])
        spent == Total(Slot, applied[p])
    IN  IF payment[p].status = "ABSENT" \/ payment[p].historical
        THEN held = 0 /\ spent = 0
        ELSE IF payment[p].status = "APPROVED"
             THEN held = 0 /\ spent = payment[p].amount
             ELSE held = payment[p].amount /\ spent = 0

(* The status column of a due, written by obligationStatus and by every pass
   of the schedule, tells how much of it is paid. *)
StatusTellsBalance ==
  \A s \in Slot :
    /\ obligation[s].status = "PAID"
         <=> obligation[s].paid > 0 /\ obligation[s].paid = obligation[s].due
    /\ obligation[s].status = "PARTIALLY_PAID"
         <=> obligation[s].paid > 0 /\ obligation[s].paid < obligation[s].due

(* A receipt certifies an approved payment, and every payment approved or
   recorded by an officer has its receipt; only a historical import, whose
   receipts are created after its transaction, can be approved without one. *)
ReceiptsCertifyApprovals ==
  \A p \in Payment :
    /\ p \in receipt => payment[p].status = "APPROVED"
    /\ payment[p].status = "APPROVED" /\ ~payment[p].historical => p \in receipt

(* A decision about a payment is final: no racing approval, rejection or
   correction changes an approved or a rejected payment. *)
DecisionsAreFinal ==
  [][\A p \in Payment : payment[p].status \in {"APPROVED", "REJECTED"}
                           => payment'[p] = payment[p]]_vars

(* A due that carries any money, paid or promised, keeps its amount and its
   date and is not waived, whatever an admin saves, although the statements
   of a pass are interleaved with payments and a join commits what it decided
   earlier.  README.md:57. *)
DuesWithMoneyAreKept ==
  [][\A s \in Slot :
       (\E p \in Payment : pending[p][s] > 0 \/ applied[p][s] > 0)
         => /\ obligation'[s].due = obligation[s].due
            /\ obligation'[s].dueAt = obligation[s].dueAt
            /\ obligation'[s].status # "WAIVED"]_vars

(* No penalty rule is in force, and no running pass has read one. *)
PenaltiesAreOff == ~rule.penalties /\ \A r \in Runner : ~pass[r].rule.penalties

(* Late penalties are prospective: once penalties are off, a due that has
   fallen due is never penalised by a rule saved later.  Only a pass that had
   read the old rule before may still do it.  README.md:57. *)
PenaltiesAreProspective ==
  \A d \in Due :
    [](PenaltiesAreOff /\ DueDate[d] <= now /\ obligation[Penalty(d)].status = "ABSENT"
         => [](obligation[Penalty(d)].status = "ABSENT"))

(* A treasurer never approves a payment of their own: the test of
   group-rules.spec.ts:57 and README.md:55. *)
TreasurerNeverApprovesOwnPayment ==
  [][\A p \in Payment :
       payment[p].status # "APPROVED" /\ payment'[p].status = "APPROVED"
         => \/ payment'[p].reviewer # payment'[p].member
            \/ request[payment'[p].reviewer].role # "TREASURER"]_vars

-----------------------------------------------------------------------------
(* The account this ledger implements: reviews, roles, time, promises and
   receipts are invisible, only owed and paid amounts and the set of decided
   payments are seen. *)
Account == INSTANCE DuesAccount WITH
  Item <- Slot,
  Holder <- Member,
  ItemOwner <- [s \in Slot |-> OwnerOf(s)],
  Pay <- Payment,
  owed <- [s \in Slot |-> obligation[s].due],
  paid <- [s \in Slot |-> obligation[s].paid],
  closed <- {p \in Payment : payment[p].status \in {"APPROVED", "REJECTED"}}

(* Every step of the ledger is a step of the account: a payment moves money
   once, to dues of one member, within what is owed, and what is owed changes
   only while nothing is paid. *)
ImplementsAccount == Account!Spec

=============================================================================

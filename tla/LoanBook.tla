------------------------------- MODULE LoanBook -------------------------------
(***************************************************************************)
(* The loans of one group: applications, guarantees, approval, repayments  *)
(* and their review, after apps/api/src/groups/groups.service.ts.          *)
(*                                                                         *)
(* Every handler first reads the caller's membership and role outside any  *)
(* transaction (Authorise) and keeps what it read in desk[s], s being the  *)
(* session the request runs in.  What a handler then does in a             *)
(* Serializable transaction is one action; what it reads before such a     *)
(* transaction, or in a READ COMMITTED one, is an action of its own, so    *)
(* that anything may happen before it writes.  The cash of the group is    *)
(* computed by GroupFunds, which composes this book with the expenses, and *)
(* handed in as a parameter.                                               *)
(***************************************************************************)
EXTENDS MinorUnits

CONSTANTS
  Member,         \* members of the group
  Session,        \* requests that may run at the same time
  UserOf,         \* [Session -> Member]: who is signed in
  RoleOf,         \* [Member -> Role]
  Application,    \* application ids; a loan has the id of its application
  Repayment,      \* repayment ids
  Expense,        \* expense ids
  None,           \* a value that is none of these
  Calls,          \* <<session, handler>> pairs that occur in a run
  InitialPolicy,  \* the loan policy the group starts with
  Policies,       \* loan policies an admin may save
  LoanAmounts,    \* amounts asked for or approved
  LoanTerms,      \* terms asked for, in months
  RepayAmounts,   \* amounts of repayments
  Suspendable,    \* members whose status an admin changes in a run
  Defaulters      \* members who fall behind in a run

Role == {"GROUP_ADMIN", "TREASURER", "SECRETARY", "MEMBER"}

Policy == [multiplier : Nat, rate : Nat, fee : Nat, guarantors : Nat, term : Nat \ {0}]

ASSUME LoanAssumption ==
  /\ IsFiniteSet(Member) /\ IsFiniteSet(Application)
  /\ IsFiniteSet(Repayment) /\ IsFiniteSet(Expense)
  /\ None \notin Member \cup Application \cup Repayment \cup Expense
  /\ UserOf \in [Session -> Member]
  /\ RoleOf \in [Member -> Role]
  /\ InitialPolicy \in Policy /\ Policies \subseteq Policy
  /\ LoanAmounts \subseteq Minor \ {0}
  /\ LoanTerms \subseteq Nat \ {0}
  /\ RepayAmounts \subseteq Minor \ {0}

VARIABLES
  active,        \* members whose status is ACTIVE
  savings,       \* what each member has saved in the eligible plans
  arrears,       \* members with an overdue contribution
  policy,        \* the GroupLoanPolicy row, or its defaults
  application,   \* LoanApplication rows
  guarantee,     \* LoanGuarantor rows, by application and member
  loan,          \* GroupLoan rows, by application
  repayment,     \* LoanRepayment rows
  desk           \* what the request running in each session has read

bookVars == <<active, savings, arrears, policy, application, guarantee, loan,
              repayment>>

-----------------------------------------------------------------------------
(* Rows. *)

ApplicationRow ==
  [status : {"ABSENT", "SUBMITTED", "DISBURSED", "REJECTED"},
   member : Member \cup {None}, amount : Minor, term : Nat, rate : Nat, fee : Nat,
   required : Nat, reviewer : Member \cup {None}]
AbsentApplication ==
  [status |-> "ABSENT", member |-> None, amount |-> 0, term |-> 0, rate |-> 0,
   fee |-> 0, required |-> 0, reviewer |-> None]

Answers == {"NONE", "PENDING", "CONFIRMED", "DECLINED"}

LoanRow == [status : {"ABSENT", "ACTIVE", "PAID"}, principal : Minor, payable : Minor,
            paid : Minor]
AbsentLoan == [status |-> "ABSENT", principal |-> 0, payable |-> 0, paid |-> 0]

RepaymentRow == [status : {"ABSENT", "SUBMITTED", "APPROVED", "REJECTED"},
                 loan : Application \cup {None}, amount : Minor,
                 reviewer : Member \cup {None}]
AbsentRepayment == [status |-> "ABSENT", loan |-> None, amount |-> 0, reviewer |-> None]

Handlers == {"APPLY", "ANSWER", "APPROVE", "REJECT", "REPAY", "VERIFY", "POLICY",
             "SPEND", "JUDGE"}
Idle == [op |-> "NONE", target |-> None, amount |-> 0, seen |-> 0]
Desk == [op : Handlers \cup {"NONE", "ANSWERING", "APPROVING", "REJECTING",
                             "RULING", "COUNTING", "SPENDING", "WEIGHING",
                             "WEIGHED", "ALLOWING", "DENYING"},
         target : Application \cup Expense \cup {None}, amount : Minor, seen : Int]

BookTypeOK ==
  /\ active \subseteq Member
  /\ savings \in [Member -> Nat]
  /\ arrears \subseteq Member
  /\ policy \in Policy
  /\ application \in [Application -> ApplicationRow]
  /\ guarantee \in [Application -> [Member -> Answers]]
  /\ loan \in [Application -> LoanRow]
  /\ repayment \in [Repayment -> RepaymentRow]
  /\ desk \in [Session -> Desk]

BookInit ==
  /\ active = Member
  /\ savings = [m \in Member |-> 0]
  /\ arrears = {}
  /\ policy = InitialPolicy
  /\ application = [a \in Application |-> AbsentApplication]
  /\ guarantee = [a \in Application |-> [m \in Member |-> "NONE"]]
  /\ loan = [a \in Application |-> AbsentLoan]
  /\ repayment = [r \in Repayment |-> AbsentRepayment]
  /\ desk = [s \in Session |-> Idle]

-----------------------------------------------------------------------------
(* Sums. *)

AtLeastZero(n) == IF n > 0 THEN n ELSE 0
Lesser(m, n) == IF m < n THEN m ELSE n
CeilDiv(n, d) == (n + d - 1) \div d

(* Basis points of an amount are rounded up for charges, down for limits. *)
BasisPoints == 10000

TotalPayable(principal, term, rate, fee) ==
  principal + CeilDiv(principal * rate * term, BasisPoints)
            + CeilDiv(principal * fee, BasisPoints)

(* Mutation: the charges of the day, not those agreed to. *)
ChargedByPolicy(a, amount) ==
  TotalPayable(amount, application[a].term, policy.rate, policy.fee)

(* What a loan of this amount costs on the terms of its application. *)
Charged(a, amount) ==
  TotalPayable(amount, application[a].term, application[a].rate, application[a].fee)

Balance(a) == loan[a].payable - loan[a].paid

Requests(m) == {a \in Application : /\ application[a].member = m
                                    /\ application[a].status = "SUBMITTED"}
Debts(m) == {a \in Application : /\ application[a].member = m
                                 /\ loan[a].status = "ACTIVE"}

Requested(m) == Total(Requests(m), [a \in Application |-> application[a].amount])
Owed(m) == Total(Debts(m), [a \in Application |-> Balance(a)])

Limit(m, cash) == Lesser((savings[m] * policy.multiplier) \div BasisPoints, cash)

(* Mutation: requests that wait for an officer reserve nothing. *)
BorrowingPowerUnreserved(m, cash) == AtLeastZero(Limit(m, cash) - Owed(m))

BorrowingPower(m, cash) == AtLeastZero(Limit(m, cash) - Owed(m) - Requested(m))

RepaymentsOf(a, status) ==
  {r \in Repayment : repayment[r].loan = a /\ repayment[r].status = status}
AmountOf == [r \in Repayment |-> repayment[r].amount]
Approved(a) == Total(RepaymentsOf(a, "APPROVED"), AmountOf)
AwaitingReview(a) == Total(RepaymentsOf(a, "SUBMITTED"), AmountOf)

-----------------------------------------------------------------------------
(* Requests: what every handler reads first. *)

LoanReviewers == {"GROUP_ADMIN", "TREASURER"}

Allowed(op) == CASE op \in {"APPROVE", "REJECT", "VERIFY", "SPEND"} -> LoanReviewers
                 [] op \in {"POLICY", "JUDGE"} -> {"GROUP_ADMIN"}
                 [] OTHER -> Role

Authorise(s, op) ==
  /\ <<s, op>> \in Calls
  /\ desk[s] = Idle
  /\ UserOf[s] \in active
  /\ RoleOf[UserOf[s]] \in Allowed(op)
  /\ desk' = [desk EXCEPT ![s].op = op]
  /\ UNCHANGED bookVars

(* The handler throws, or the server stops: nothing more is written. *)
Abandon(s) ==
  /\ desk[s] # Idle
  /\ desk' = [desk EXCEPT ![s] = Idle]
  /\ UNCHANGED bookVars

Done(s) == desk' = [desk EXCEPT ![s] = Idle]

-----------------------------------------------------------------------------
(* Policy and membership. *)

CountMembers(s) ==
  /\ desk[s].op = "POLICY"
  /\ desk' = [desk EXCEPT ![s].op = "RULING", ![s].seen = Cardinality(active)]
  /\ UNCHANGED bookVars

SavePolicy(s, p) ==
  /\ desk[s].op = "RULING"
  /\ p.guarantors > 0 => p.guarantors < desk[s].seen
  /\ policy' = p
  /\ Done(s)
  /\ UNCHANGED <<active, savings, arrears, application, guarantee, loan, repayment>>

UpdateMemberStatus(m) ==
  /\ \E admin \in active \ {m} : RoleOf[admin] = "GROUP_ADMIN"
  /\ m \in Suspendable /\ RoleOf[m] # "GROUP_ADMIN"
  /\ active' = IF m \in active THEN active \ {m} ELSE active \cup {m}
  /\ UNCHANGED <<savings, arrears, policy, application, guarantee, loan, repayment, desk>>

-----------------------------------------------------------------------------
(* Applications and guarantees. *)

Apply(s, a, amount, term, guarantors, cash) ==
  LET m == UserOf[s] IN
  /\ desk[s].op = "APPLY"
  /\ application[a].status = "ABSENT"
  /\ term <= policy.term
  /\ Cardinality(guarantors) >= policy.guarantors
  /\ m \notin arrears
  /\ amount <= BorrowingPower(m, cash)
  /\ m \notin guarantors
  /\ guarantors \subseteq active
  /\ application' = [application EXCEPT ![a] =
       [status |-> "SUBMITTED", member |-> m, amount |-> amount, term |-> term,
        rate |-> policy.rate, fee |-> policy.fee, required |-> policy.guarantors,
        reviewer |-> None]]
  /\ guarantee' = [guarantee EXCEPT ![a] =
       [g \in Member |-> IF g \in guarantors THEN "PENDING" ELSE "NONE"]]
  /\ Done(s)
  /\ UNCHANGED <<active, savings, arrears, policy, loan, repayment>>

AwaitsAnswer(a, m) ==
  /\ application[a].status = "SUBMITTED"
  /\ guarantee[a][m] = "PENDING"

ReadGuarantee(s, a) ==
  /\ desk[s].op = "ANSWER"
  /\ AwaitsAnswer(a, UserOf[s])
  /\ desk' = [desk EXCEPT ![s].op = "ANSWERING", ![s].target = a]
  /\ UNCHANGED bookVars

RespondToGuarantee(s, accept) ==
  LET a == desk[s].target IN
  /\ desk[s].op = "ANSWERING"
  /\ guarantee' = [guarantee EXCEPT ![a][UserOf[s]] =
                     IF accept THEN "CONFIRMED" ELSE "DECLINED"]
  /\ Done(s)
  /\ UNCHANGED <<active, savings, arrears, policy, application, loan, repayment>>

-----------------------------------------------------------------------------
(* Review of applications. *)

Confirmed(a) == {g \in Member : guarantee[a][g] = "CONFIRMED"}

(* Mutation: guarantors that have not answered count. *)
BackedBySilence(a) ==
  Cardinality({g \in active : guarantee[a][g] \in {"CONFIRMED", "PENDING"}})
    >= application[a].required

Backed(a) == Cardinality(Confirmed(a) \cap active) >= application[a].required

(* The three decisions compare the caller with the borrower each in its own
   way: as requester or member of the application, as its requester, and as
   member or creator of the repayment, which RecordRepayment lets only the
   borrower of the loan be. *)
MayApprove(s, a) == application[a].member # UserOf[s]
MayReject(s, a) == application[a].member # UserOf[s]

(* Mutation: the verification forgets the comparison. *)
MayVerifyAny(s, r) == repayment[r].status = "SUBMITTED"

MayVerify(s, r) == application[repayment[r].loan].member # UserOf[s]

ReadApplication(s, a) ==
  /\ desk[s].op = "APPROVE"
  /\ application[a].status = "SUBMITTED"
  /\ MayApprove(s, a)
  /\ application[a].member \in active
  /\ Backed(a)
  /\ desk' = [desk EXCEPT ![s].op = "APPROVING", ![s].target = a]
  /\ UNCHANGED bookVars

(* Mutation: the transaction trusts the status read before it. *)
StillOpenAsRead(a) == TRUE

StillOpen(a) == application[a].status = "SUBMITTED"

(* Mutation: the column takes any number. *)
FitsEverything(n) == TRUE

(* An INTEGER column: a larger number makes the transaction fail. *)
FitsColumn(n) == n \in Minor

(* The transaction of approveLoanApplication. *)
Disburse(s, amount, cash) ==
  LET a == desk[s].target
      row == application[a]
      payable == Charged(a, amount)
  IN
  /\ desk[s].op = "APPROVING"
  /\ amount <= row.amount
  /\ row.member \notin arrears
  /\ amount <= BorrowingPower(row.member, cash) + row.amount
  /\ StillOpen(a)
  /\ FitsColumn(payable)
  /\ application' = [application EXCEPT ![a].status = "DISBURSED",
                                        ![a].reviewer = UserOf[s]]
  /\ loan' = [loan EXCEPT ![a] = [status |-> "ACTIVE", principal |-> amount,
                                  payable |-> payable, paid |-> 0]]
  /\ Done(s)
  /\ UNCHANGED <<active, savings, arrears, policy, guarantee, repayment>>

ReadForRejection(s, a) ==
  /\ desk[s].op = "REJECT"
  /\ application[a].status = "SUBMITTED"
  /\ MayReject(s, a)
  /\ desk' = [desk EXCEPT ![s].op = "REJECTING", ![s].target = a]
  /\ UNCHANGED bookVars

RejectApplication(s) ==
  LET a == desk[s].target IN
  /\ desk[s].op = "REJECTING"
  /\ StillOpen(a)
  /\ application' = [application EXCEPT ![a].status = "REJECTED",
                                        ![a].reviewer = UserOf[s]]
  /\ Done(s)
  /\ UNCHANGED <<active, savings, arrears, policy, guarantee, loan, repayment>>

-----------------------------------------------------------------------------
(* Repayments. *)

(* Mutation: repayments that wait for an officer reserve nothing. *)
RepayableUnreserved(a) == Balance(a)

Repayable(a) == Balance(a) - AwaitingReview(a)

RecordRepayment(s, r, a, amount) ==
  /\ desk[s].op = "REPAY"
  /\ repayment[r].status = "ABSENT"
  /\ application[a].member = UserOf[s]
  /\ loan[a].status = "ACTIVE"
  /\ amount <= Repayable(a)
  /\ repayment' = [repayment EXCEPT ![r] =
       [status |-> "SUBMITTED", loan |-> a, amount |-> amount, reviewer |-> None]]
  /\ Done(s)
  /\ UNCHANGED <<active, savings, arrears, policy, application, guarantee, loan>>

(* Mutation: the paid total is replaced, not raised. *)
CreditedOver(row, amount) ==
  [row EXCEPT !.paid = amount,
              !.status = IF amount = row.payable THEN "PAID" ELSE "ACTIVE"]

(* Mutation: the loan stays open after its last repayment. *)
CreditedOpen(row, amount) == [row EXCEPT !.paid = @ + amount]

Credited(row, amount) ==
  [row EXCEPT !.paid = @ + amount,
              !.status = IF row.paid + amount = row.payable THEN "PAID" ELSE "ACTIVE"]

ReviewRepayment(s, r, approve) ==
  LET a == repayment[r].loan
      amount == repayment[r].amount
  IN
  /\ desk[s].op = "VERIFY"
  /\ repayment[r].status = "SUBMITTED"
  /\ MayVerify(s, r)
  /\ approve => loan[a].status = "ACTIVE" /\ amount <= Balance(a)
  /\ repayment' = [repayment EXCEPT ![r].status = IF approve THEN "APPROVED" ELSE "REJECTED",
                                    ![r].reviewer = UserOf[s]]
  /\ loan' = IF approve THEN [loan EXCEPT ![a] = Credited(@, amount)] ELSE loan
  /\ Done(s)
  /\ UNCHANGED <<active, savings, arrears, policy, application, guarantee>>

-----------------------------------------------------------------------------
(* Contributions, as far as loans look at them. *)

Contribute(m, amount) ==
  /\ savings' = [savings EXCEPT ![m] = @ + amount]
  /\ UNCHANGED <<active, policy, application, guarantee, loan, repayment, desk>>

FallBehind(m) ==
  /\ m \in Defaulters
  /\ arrears' = arrears \cup {m}
  /\ UNCHANGED <<active, savings, policy, application, guarantee, loan, repayment, desk>>

-----------------------------------------------------------------------------
(* What the loan book keeps true. *)

(* An application was disbursed exactly when its loan exists (approval, and a
   rejection that runs next to it, both claim the SUBMITTED row), the loan is
   at most what was asked for, and it costs what the application's own terms
   say, whatever the policy became in the meantime. *)
LoansMatchApplications ==
  \A a \in Application :
    /\ (application[a].status = "DISBURSED") <=> (loan[a].status # "ABSENT")
    /\ loan[a].status # "ABSENT" =>
         /\ loan[a].principal \in 1 .. application[a].amount
         /\ loan[a].payable = TotalPayable(loan[a].principal, application[a].term,
                                          application[a].rate, application[a].fee)

(* The paid total of a loan, which reviewLoanRepayment rewrites each time, is
   the sum of its approved repayments, and the loan is PAID exactly when that
   is all of it. *)
RepaymentsAddUp ==
  \A a \in Application :
    /\ loan[a].paid = Approved(a)
    /\ loan[a].status # "ABSENT" =>
         ((loan[a].status = "PAID") <=> (loan[a].paid = loan[a].payable))

(* Repayments that wait for review reserve their part of the balance: however
   officers decide on them, and in whatever order, none fails for exceeding
   it. *)
RepaymentsCovered ==
  \A a \in Application : loan[a].paid + AwaitingReview(a) <= loan[a].payable

(* No loan and no repayment is decided by its borrower, though members hold
   several roles' sessions and apply while they review. *)
NobodyDecidesTheirOwn ==
  /\ \A a \in Application :
       application[a].member # None => application[a].reviewer # application[a].member
  /\ \A r \in Repayment :
       repayment[r].status # "ABSENT" =>
         repayment[r].reviewer # application[repayment[r].loan].member

(* respondToGuarantee reads PENDING and writes by id, so a guarantor who
   answers in two sessions at once may first confirm and then decline. *)
Overlaps(g) == \E s, t \in Session : s # t /\ UserOf[s] = g /\ UserOf[t] = g

StandsBy(a, g) == \/ guarantee[a][g] = "CONFIRMED"
                  \/ guarantee[a][g] = "DECLINED" /\ Overlaps(g)

(* A loan stands on as many guarantees as its application required, though
   answers, approval, policies and membership change next to each other: each
   of them is confirmed, or was, until a second answer of the same guarantor
   that ran at the same time overwrote it.  Nobody else can back out, and
   nobody who is silent is counted. *)
LoansBacked ==
  \A a \in Application :
    loan[a].status # "ABSENT" =>
      Cardinality({g \in Member : StandsBy(a, g)}) >= application[a].required

(* What a member has asked for and not yet paid back of what was lent stays
   within the highest multiple of the member's savings that any policy of the
   group allowed, though approval no longer looks at the limit. *)
Principal(a) == AtLeastZero(loan[a].principal - loan[a].paid)

Multipliers == {p.multiplier : p \in Policies \cup {InitialPolicy}}

LentWithinSavings ==
  \A m \in Member :
    \E k \in Multipliers :
      Requested(m) + Total(Debts(m), [a \in Application |-> Principal(a)])
        <= (savings[m] * k) \div BasisPoints

=============================================================================

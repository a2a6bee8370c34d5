--------------------------- MODULE GroupFundsProofs ---------------------------
(***************************************************************************)
(* Proofs about the loan book and the funds of a group, for every group,   *)
(* policy, amount and number of concurrent requests.  Shape (types, and    *)
(* what the rows and the running requests refer to) carries the others:    *)
(* the books of loans and repayments, the guarantees behind each loan, the *)
(* money expenses may spend, and the lender the book implements.           *)
(***************************************************************************)
EXTENDS GroupFunds, MinorUnitsTheorems

(* What exists refers to what exists, and what does not exist is blank. *)
RowsSound ==
  /\ \A a \in Application :
       /\ application[a].status = "ABSENT" => application[a] = AbsentApplication
       /\ application[a].status # "ABSENT" =>
            application[a].member \in Member /\ application[a].amount > 0
       /\ loan[a].status = "ABSENT" => loan[a] = AbsentLoan
  /\ \A r \in Repayment :
       /\ repayment[r].status = "ABSENT" => repayment[r] = AbsentRepayment
       /\ repayment[r].status # "ABSENT" =>
            /\ repayment[r].loan \in Application
            /\ loan[repayment[r].loan].status # "ABSENT"
            /\ repayment[r].amount > 0

(* What a running request is about. *)
DesksSound ==
  \A s \in Session :
    /\ desk[s].op \in {"ANSWERING", "APPROVING", "REJECTING"} =>
         /\ desk[s].target \in Application
         /\ application[desk[s].target].status # "ABSENT"
    /\ desk[s].op \in {"APPROVING", "REJECTING"} =>
         application[desk[s].target].member # UserOf[s]
    /\ desk[s].op \in {"WEIGHING", "WEIGHED", "ALLOWING", "DENYING"} =>
         /\ desk[s].target \in Expense
         /\ expense[desk[s].target].status # "ABSENT"

Shape == TypeOK /\ RowsSound /\ DesksSound

-----------------------------------------------------------------------------
(* Facts about the operators. *)

(* Charges are rounded up from natural numbers, so a loan costs at least its
   principal. *)
LEMMA PayableCoversPrincipal ==
  ASSUME NEW p \in Nat, NEW t \in Nat, NEW r \in Nat, NEW f \in Nat
  PROVE  TotalPayable(p, t, r, f) \in Nat /\ TotalPayable(p, t, r, f) >= p
<1>1. \A n \in Nat : CeilDiv(n, BasisPoints) \in Nat
  BY DEF CeilDiv, BasisPoints
<1>2. p * r \in Nat /\ p * f \in Nat
  OBVIOUS
<1>3. (p * r) * t \in Nat
  BY <1>2
<1> QED
  BY <1>1, <1>2, <1>3 DEF TotalPayable

(* A multiple of savings does not fall when savings grow. *)
LEMMA LimitGrows ==
  ASSUME NEW s \in Nat, NEW d \in Nat, NEW k \in Nat
  PROVE  (s * k) \div BasisPoints <= ((s + d) * k) \div BasisPoints
<1>1. (s + d) * k = s * k + d * k
  OBVIOUS
<1>2. s * k \in Nat /\ d * k \in Nat
  OBVIOUS
<1>3. \A m, n \in Nat : m \div BasisPoints <= (m + n) \div BasisPoints
  BY DEF BasisPoints
<1> QED
  BY <1>1, <1>2, <1>3

(* What expenses of one status add up to. *)
LEMMA SpentIsNat == \A status : Spent(status) \in Nat /\ IsFiniteSet(Expenses(status))
<1> SUFFICES ASSUME NEW status
             PROVE  Spent(status) \in Nat /\ IsFiniteSet(Expenses(status))
  OBVIOUS
<1>1. IsFiniteSet(Expense) /\ Expenses(status) \in SUBSET Expense
  BY LoanAssumption DEF Expenses
<1>2. IsFiniteSet(Expenses(status))
  BY <1>1, FS_Subset
<1> QED
  BY <1>2, TotalIsNat DEF Spent

-----------------------------------------------------------------------------
(* Types and references. *)

(* A group starts with blank rows and idle sessions. *)
LEMMA ShapeInit == Init => Shape
<1> SUFFICES ASSUME Init
             PROVE  Shape
  OBVIOUS
<1>1. 0 \in Minor
  BY MaxMinorAssumption DEF Minor
<1>2. /\ AbsentApplication \in ApplicationRow
      /\ AbsentLoan \in LoanRow
      /\ AbsentRepayment \in RepaymentRow
      /\ Idle \in Desk
      /\ [status |-> "ABSENT", amount |-> 0] \in ExpenseRow
  BY <1>1 DEF AbsentApplication, ApplicationRow, AbsentLoan, LoanRow, AbsentRepayment,
     RepaymentRow, Idle, Desk, Handlers, ExpenseRow
<1>3. TypeOK
  BY <1>2, LoanAssumption DEF Init, BookInit, TypeOK, BookTypeOK, Answers
<1>4. RowsSound
  BY DEF Init, BookInit, RowsSound, AbsentApplication, AbsentLoan, AbsentRepayment
<1>5. DesksSound
  BY DEF Init, BookInit, DesksSound, Idle
<1> QED
  BY <1>3, <1>4, <1>5 DEF Shape

(* A step that only lets one request read keeps the shape if what the request
   now refers to exists. *)
LEMMA ShapeOfReading ==
  ASSUME Shape, NEW s \in Session, NEW d \in Desk,
         desk' = [desk EXCEPT ![s] = d], UNCHANGED bookVars, UNCHANGED fundsVars,
         d.op \in {"ANSWERING", "APPROVING", "REJECTING"} =>
           d.target \in Application /\ application[d.target].status # "ABSENT",
         d.op \in {"APPROVING", "REJECTING"} => application[d.target].member # UserOf[s],
         d.op \in {"WEIGHING", "WEIGHED", "ALLOWING", "DENYING"} =>
           d.target \in Expense /\ expense[d.target].status # "ABSENT"
  PROVE  Shape'
<1>1. TypeOK'
  BY DEF Shape, TypeOK, BookTypeOK, bookVars, fundsVars
<1>2. RowsSound'
  BY DEF Shape, RowsSound, bookVars, fundsVars
<1>3. DesksSound'
  BY DEF Shape, TypeOK, BookTypeOK, DesksSound, bookVars, fundsVars
<1> QED
  BY <1>1, <1>2, <1>3 DEF Shape

(* Such steps. *)
LEMMA ShapeOfReads ==
  ASSUME Shape, NEW s \in Session,
         \/ /\ \/ \E op \in Handlers : Authorise(s, op)
               \/ Abandon(s)
               \/ CountMembers(s)
               \/ \E a \in Application : \/ ReadGuarantee(s, a)
                                        \/ ReadApplication(s, a)
                                        \/ ReadForRejection(s, a)
            /\ UNCHANGED fundsVars
         \/ ReadFunds(s, "SPEND", "COUNTING")
         \/ ReadFunds(s, "WEIGHING", "WEIGHED")
         \/ \E amount \in SpendAmounts : CheckAvailable(s, amount)
         \/ \E e \in Expense, approve \in BOOLEAN : ReadExpense(s, e, approve)
         \/ CheckCash(s)
  PROVE  Shape'
<1>0. desk \in [Session -> Desk]
  BY DEF Shape, TypeOK, BookTypeOK
<1>1. CASE (\E op \in Handlers : Authorise(s, op)) /\ UNCHANGED fundsVars
  <2>1. PICK op \in Handlers : Authorise(s, op)
    BY <1>1
  <2> DEFINE d == [desk[s] EXCEPT !.op = op]
  <2>2. d \in Desk /\ d.op = op
    BY <1>0, <2>1 DEF Desk
  <2>3. desk' = [desk EXCEPT ![s] = d]
    BY <1>0, <2>1 DEF Authorise
  <2>4. op \notin {"ANSWERING", "APPROVING", "REJECTING", "WEIGHING", "WEIGHED", "ALLOWING",
                   "DENYING"}
    BY DEF Handlers
  <2> HIDE DEF d
  <2> QED
    BY <1>1, <2>1, <2>2, <2>3, <2>4, ShapeOfReading DEF Authorise
<1>2. CASE Abandon(s) /\ UNCHANGED fundsVars
  <2>1. Idle \in Desk /\ Idle.op = "NONE"
    BY MaxMinorAssumption DEF Idle, Desk, Minor
  <2> QED
    BY <1>2, <2>1, ShapeOfReading DEF Abandon
<1>3. ASSUME NEW a \in Application, ReadGuarantee(s, a), UNCHANGED fundsVars
      PROVE  Shape'
  <2> DEFINE d == [desk[s] EXCEPT !.op = "ANSWERING", !.target = a]
  <2>1. d \in Desk /\ d.op = "ANSWERING" /\ d.target = a
    BY <1>0 DEF Desk
  <2>2. desk' = [desk EXCEPT ![s] = d]
    BY <1>0, <1>3 DEF ReadGuarantee
  <2>3. application[a].status = "SUBMITTED" /\ UNCHANGED bookVars
    BY <1>3 DEF ReadGuarantee, AwaitsAnswer
  <2> HIDE DEF d
  <2> QED
    BY <1>3, <2>1, <2>2, <2>3, ShapeOfReading
<1>4. ASSUME NEW a \in Application, UNCHANGED fundsVars, NEW op \in {"APPROVING", "REJECTING"},
             desk' = [desk EXCEPT ![s].op = op, ![s].target = a], UNCHANGED bookVars,
             application[a].status = "SUBMITTED", application[a].member # UserOf[s]
      PROVE  Shape'
  <2> DEFINE d == [desk[s] EXCEPT !.op = op, !.target = a]
  <2>1. d \in Desk /\ d.op = op /\ d.target = a
    BY <1>0 DEF Desk
  <2>2. desk' = [desk EXCEPT ![s] = d]
    BY <1>0, <1>4
  <2> HIDE DEF d
  <2> QED
    BY <1>4, <2>1, <2>2, ShapeOfReading
<1>5. ASSUME NEW from \in {"SPEND", "WEIGHING"}, NEW to \in {"COUNTING", "WEIGHED"},
             ReadFunds(s, from, to), to = "WEIGHED" => from = "WEIGHING"
      PROVE  Shape'
  <2> DEFINE left == collected - Spent("APPROVED")
             d == [desk[s] EXCEPT !.op = to, !.seen = left]
  <2>1. left \in Int
    BY SpentIsNat DEF Shape, TypeOK
  <2>3. desk' = [desk EXCEPT ![s] = d]
    BY <1>0, <1>5 DEF ReadFunds
  <2> HIDE DEF left
  <2>2. d \in Desk /\ d.op = to /\ d.target = desk[s].target
    BY <1>0, <2>1 DEF Desk
  <2>4. to = "WEIGHED" => desk[s].target \in Expense /\ expense[desk[s].target].status # "ABSENT"
    BY <1>5 DEF Shape, DesksSound, ReadFunds
  <2> HIDE DEF d
  <2> QED
    BY <1>5, <2>2, <2>3, <2>4, ShapeOfReading DEF ReadFunds, Keep
<1>6. ASSUME NEW amount \in SpendAmounts, CheckAvailable(s, amount)
      PROVE  Shape'
  <2> DEFINE d == [desk[s] EXCEPT !.op = "SPENDING", !.amount = amount]
  <2>1. d \in Desk /\ d.op = "SPENDING"
    BY <1>0, FundsAssumption DEF Desk
  <2>2. desk' = [desk EXCEPT ![s] = d]
    BY <1>0, <1>6 DEF CheckAvailable
  <2> HIDE DEF d
  <2> QED
    BY <1>6, <2>1, <2>2, ShapeOfReading DEF CheckAvailable, Keep
<1>7. ASSUME NEW e \in Expense, NEW approve \in BOOLEAN, ReadExpense(s, e, approve)
      PROVE  Shape'
  <2> DEFINE op == IF approve THEN "WEIGHING" ELSE "DENYING"
             d == [desk[s] EXCEPT !.op = op, !.target = e, !.amount = expense[e].amount]
  <2>1. expense[e].amount \in Minor /\ expense[e].status = "SUBMITTED"
    BY <1>7 DEF Shape, TypeOK, ExpenseRow, ReadExpense
  <2>2. d \in Desk /\ d.op \in {"WEIGHING", "DENYING"} /\ d.target = e
    BY <1>0, <2>1 DEF Desk
  <2>3. desk' = [desk EXCEPT ![s] = d]
    BY <1>0, <1>7 DEF ReadExpense
  <2> HIDE DEF d
  <2> QED
    BY <1>7, <2>1, <2>2, <2>3, ShapeOfReading DEF ReadExpense, Keep
<1>8. CASE CheckCash(s)
  <2> DEFINE d == [desk[s] EXCEPT !.op = "ALLOWING"]
  <2>1. d \in Desk /\ d.op = "ALLOWING" /\ d.target = desk[s].target
    BY <1>0 DEF Desk
  <2>2. desk' = [desk EXCEPT ![s] = d]
    BY <1>0, <1>8 DEF CheckCash
  <2>3. desk[s].target \in Expense /\ expense[desk[s].target].status # "ABSENT"
    BY <1>8 DEF Shape, DesksSound, CheckCash
  <2> HIDE DEF d
  <2> QED
    BY <1>8, <2>1, <2>2, <2>3, ShapeOfReading DEF CheckCash, Keep
<1>9. CASE CountMembers(s) /\ UNCHANGED fundsVars
  <2> DEFINE count == Cardinality(active)
             d == [desk[s] EXCEPT !.op = "RULING", !.seen = count]
  <2>1. count \in Int
    BY LoanAssumption, FS_Subset, FS_CardinalityType DEF Shape, TypeOK, BookTypeOK
  <2>2. desk' = [desk EXCEPT ![s] = d]
    BY <1>0, <1>9 DEF CountMembers
  <2> HIDE DEF count
  <2>3. d \in Desk /\ d.op = "RULING"
    BY <1>0, <2>1 DEF Desk
  <2> HIDE DEF d
  <2> QED
    BY <1>9, <2>2, <2>3, ShapeOfReading DEF CountMembers
<1> QED
  BY <1>1, <1>2, <1>3, <1>4, <1>5, <1>6, <1>7, <1>8, <1>9
     DEF ReadApplication, ReadForRejection, MayApprove, MayReject

(* Rows are never withdrawn, and keep the member they belong to. *)
RowsPersist ==
  /\ \A a \in Application : application[a].status # "ABSENT" =>
       application'[a].status # "ABSENT" /\ application'[a].member = application[a].member
  /\ \A e \in Expense : expense[e].status # "ABSENT" => expense'[e].status # "ABSENT"

(* A step that writes rows and ends its request keeps what the other requests
   refer to. *)
LEMMA DesksAfterWriting ==
  ASSUME Shape, RowsPersist, desk' = desk \/ \E s \in Session : Done(s)
  PROVE  desk' \in [Session -> Desk] /\ DesksSound'
<1>1. Idle \in Desk /\ Idle.op = "NONE"
  BY MaxMinorAssumption DEF Idle, Desk, Minor
<1>2. desk \in [Session -> Desk] /\ desk' \in [Session -> Desk]
  BY <1>1 DEF Shape, TypeOK, BookTypeOK, Done
<1>3. \A t \in Session : desk'[t] = desk[t] \/ desk'[t] = Idle
  BY <1>2 DEF Done
<1> QED
  BY <1>1, <1>2, <1>3 DEF DesksSound, RowsPersist, Shape

(* Steps that write no loan, application, repayment or expense. *)
LEMMA ShapeOfSettings ==
  ASSUME Shape, UNCHANGED <<application, loan, repayment, expense>>,
         \/ \E s \in Session, p \in Policies : SavePolicy(s, p) /\ UNCHANGED fundsVars
         \/ \E m \in Member : UpdateMemberStatus(m) /\ UNCHANGED fundsVars
         \/ \E m \in Member : FallBehind(m) /\ UNCHANGED fundsVars
         \/ \E m \in Member, amount \in Deposits, eligible \in BOOLEAN, settled \in BOOLEAN :
              ApproveContribution(m, amount, eligible, settled)
         \/ \E s \in Session, accept \in BOOLEAN :
              RespondToGuarantee(s, accept) /\ UNCHANGED fundsVars
  PROVE  Shape'
<1>1. RowsSound'
  BY DEF Shape, RowsSound
<1>2. RowsPersist
  BY DEF RowsPersist
<1>3. desk' = desk \/ \E s \in Session : Done(s)
  BY DEF SavePolicy, UpdateMemberStatus, FallBehind, ApproveContribution, Contribute,
     RespondToGuarantee
<1>4. desk' \in [Session -> Desk] /\ DesksSound'
  BY <1>2, <1>3, DesksAfterWriting
<1>5. policy' \in Policy /\ active' \subseteq Member /\ arrears' \subseteq Member
  BY LoanAssumption DEF Shape, TypeOK, BookTypeOK, SavePolicy, UpdateMemberStatus, FallBehind,
     ApproveContribution, Contribute, RespondToGuarantee
<1>6. savings' \in [Member -> Nat] /\ collected' \in Nat
  <2>1. CASE UNCHANGED <<savings, collected>>
    BY <2>1 DEF Shape, TypeOK, BookTypeOK
  <2>2. ASSUME NEW m \in Member, NEW amount \in Deposits, NEW eligible \in BOOLEAN,
               NEW settled \in BOOLEAN, ApproveContribution(m, amount, eligible, settled)
        PROVE  savings' \in [Member -> Nat] /\ collected' \in Nat
    <3> DEFINE x == IF eligible THEN amount ELSE 0
    <3>1. amount \in Nat /\ x \in Nat
      BY FundsAssumption DEF Minor
    <3>2. savings' = [savings EXCEPT ![m] = savings[m] + x] /\ collected' = collected + amount
      BY <2>2 DEF ApproveContribution, Contribute, Shape, TypeOK, BookTypeOK
    <3> HIDE DEF x
    <3> QED
      BY <3>1, <3>2 DEF Shape, TypeOK, BookTypeOK
  <2> QED
    BY <2>1, <2>2 DEF SavePolicy, UpdateMemberStatus, FallBehind, RespondToGuarantee, fundsVars
<1>7. guarantee' \in [Application -> [Member -> Answers]]
  <2>1. CASE UNCHANGED guarantee
    BY <2>1 DEF Shape, TypeOK, BookTypeOK
  <2>2. ASSUME NEW s \in Session, NEW accept \in BOOLEAN, RespondToGuarantee(s, accept)
        PROVE  guarantee' \in [Application -> [Member -> Answers]]
    <3>1. PICK x \in Answers :
            guarantee' = [guarantee EXCEPT ![desk[s].target][UserOf[s]] = x]
      BY <2>2 DEF RespondToGuarantee, Answers
    <3> QED
      BY <3>1, LoanAssumption DEF Shape, TypeOK, BookTypeOK
  <2> QED
    BY <2>1, <2>2 DEF SavePolicy, UpdateMemberStatus, FallBehind, ApproveContribution, Contribute
<1>8. TypeOK'
  BY <1>4, <1>5, <1>6, <1>7 DEF Shape, TypeOK, BookTypeOK
<1> QED
  BY <1>1, <1>4, <1>8 DEF Shape

(* A new application. *)
LEMMA ShapeOfApply ==
  ASSUME Shape, NEW s \in Session, NEW a \in Application, NEW amount \in LoanAmounts,
         NEW term \in LoanTerms, NEW guarantors \in SUBSET Member,
         Apply(s, a, amount, term, guarantors, CashBalance), UNCHANGED fundsVars
  PROVE  /\ Shape'
         /\ application[a].status = "ABSENT" /\ application'[a].status = "SUBMITTED"
         /\ application'[a].member = UserOf[s] /\ application'[a].amount = amount
         /\ application'[a].reviewer = None
         /\ \A b \in Application \ {a} : application'[b] = application[b]
<1> DEFINE row == [status |-> "SUBMITTED", member |-> UserOf[s], amount |-> amount,
                   term |-> term, rate |-> policy.rate, fee |-> policy.fee,
                   required |-> policy.guarantors, reviewer |-> None]
<1>1. row \in ApplicationRow
  BY LoanAssumption DEF Shape, TypeOK, BookTypeOK, Policy, ApplicationRow
<1>2. /\ application' = [application EXCEPT ![a] = row]
      /\ application[a].status = "ABSENT"
      /\ UNCHANGED <<active, savings, arrears, policy, loan, repayment>>
      /\ Done(s)
      /\ guarantee' = [guarantee EXCEPT ![a] =
                          [g \in Member |-> IF g \in guarantors THEN "PENDING" ELSE "NONE"]]
  BY DEF Apply
<1>3. /\ row.status = "SUBMITTED" /\ row.member = UserOf[s] /\ row.amount = amount
      /\ row.reviewer = None
  OBVIOUS
<1> HIDE DEF row
<1>4. application' \in [Application -> ApplicationRow]
  BY <1>1, <1>2 DEF Shape, TypeOK, BookTypeOK
<1>5. application'[a] = row /\ \A b \in Application \ {a} : application'[b] = application[b]
  BY <1>2 DEF Shape, TypeOK, BookTypeOK
<1>6. guarantee' \in [Application -> [Member -> Answers]]
  BY <1>2 DEF Shape, TypeOK, BookTypeOK, Answers
<1>7. RowsPersist
  BY <1>2, <1>5 DEF RowsPersist, fundsVars
<1>8. desk' \in [Session -> Desk] /\ DesksSound'
  BY <1>2, <1>7, DesksAfterWriting
<1>9. TypeOK'
  BY <1>2, <1>4, <1>6, <1>8 DEF Shape, TypeOK, BookTypeOK, fundsVars
<1>10. amount > 0 /\ UserOf[s] \in Member
  BY LoanAssumption DEF Minor
<1>11. RowsSound'
  BY <1>2, <1>3, <1>5, <1>10 DEF Shape, RowsSound
<1> QED
  BY <1>2, <1>3, <1>5, <1>8, <1>9, <1>11 DEF Shape

(* The row of a decided application. *)
DecidedRow(a, s, status) == [application[a] EXCEPT !.status = status, !.reviewer = UserOf[s]]

(* A decision, with or without a loan. *)
LEMMA ShapeOfDecision ==
  ASSUME Shape, NEW s \in Session, NEW status \in {"DISBURSED", "REJECTED"},
         NEW a \in Application, application[a].member \in Member,
         application[a].status = "SUBMITTED",
         application' = [application EXCEPT ![a] = DecidedRow(a, s, status)],
         loan' \in [Application -> LoanRow],
         \A b \in Application : loan'[b] = loan[b] \/ loan'[b].status # "ABSENT",
         Done(s), UNCHANGED fundsVars,
         UNCHANGED <<active, savings, arrears, policy, guarantee, repayment>>
  PROVE  /\ Shape'
         /\ application'[a] = DecidedRow(a, s, status)
         /\ \A b \in Application \ {a} : application'[b] = application[b]
<1>1. UserOf[s] \in Member
  BY LoanAssumption
<1>2. application[a] \in ApplicationRow
  BY <1>1 DEF Shape, TypeOK, BookTypeOK
<1> DEFINE row == DecidedRow(a, s, status)
<1>3. /\ row \in ApplicationRow
      /\ row.status = status /\ row.member = application[a].member
      /\ row.amount = application[a].amount
  BY <1>1, <1>2 DEF DecidedRow, ApplicationRow
<1>4. application' = [application EXCEPT ![a] = row]
  OBVIOUS
<1> HIDE DEF row
<1>5. /\ application' \in [Application -> ApplicationRow]
      /\ application'[a] = row
      /\ \A b \in Application \ {a} : application'[b] = application[b]
  BY <1>1, <1>3, <1>4 DEF Shape, TypeOK, BookTypeOK
<1>6. /\ application'[a].status = status
      /\ application'[a].member = application[a].member
      /\ application'[a].amount = application[a].amount
  BY <1>3, <1>5
<1>7. RowsPersist
  BY <1>5, <1>6 DEF RowsPersist, fundsVars
<1>8. desk' \in [Session -> Desk] /\ DesksSound'
  BY <1>7, DesksAfterWriting
<1>9. TypeOK'
  BY <1>5, <1>8 DEF Shape, TypeOK, BookTypeOK, fundsVars
<1>10. RowsSound'
  <2>1. \A b \in Application :
          /\ application'[b].status = "ABSENT" => application'[b] = AbsentApplication
          /\ application'[b].status # "ABSENT" =>
               application'[b].member \in Member /\ application'[b].amount > 0
    BY <1>5, <1>6 DEF Shape, RowsSound
  <2>2. \A b \in Application : loan'[b].status = "ABSENT" => loan'[b] = AbsentLoan
    BY DEF Shape, RowsSound
  <2>3. \A b \in Application : loan[b].status # "ABSENT" => loan'[b].status # "ABSENT"
    OBVIOUS
  <2> QED
    BY <2>1, <2>2, <2>3 DEF Shape, RowsSound
<1> USE DEF row
<1> QED
  BY <1>1, <1>5, <1>8, <1>9, <1>10 DEF Shape

(* A loan is disbursed. *)
LEMMA ShapeOfDisburse ==
  ASSUME Shape, NEW s \in Session, NEW amount \in LoanAmounts, NEW a, a = desk[s].target,
         Disburse(s, amount, CashBalance), UNCHANGED fundsVars
  PROVE  /\ Shape'
         /\ a \in Application /\ application[a].member # UserOf[s]
         /\ application[a].status = "SUBMITTED"
         /\ amount <= application[a].amount
         /\ application'[a] = DecidedRow(a, s, "DISBURSED")
         /\ \A b \in Application \ {a} : application'[b] = application[b] /\ loan'[b] = loan[b]
         /\ loan'[a] = [status |-> "ACTIVE", principal |-> amount,
                        payable |-> Charged(a, amount), paid |-> 0]
<1> DEFINE row == [status |-> "ACTIVE", principal |-> amount, payable |-> Charged(a, amount),
                   paid |-> 0]
<1>1. /\ desk[s].op = "APPROVING" /\ application[a].status = "SUBMITTED"
      /\ amount <= application[a].amount
      /\ Charged(a, amount) \in Minor
      /\ application' = [application EXCEPT ![a].status = "DISBURSED", ![a].reviewer = UserOf[s]]
      /\ loan' = [loan EXCEPT ![a] = row]
      /\ Done(s) /\ UNCHANGED <<active, savings, arrears, policy, guarantee, repayment>>
  BY DEF Disburse, StillOpen, FitsColumn
<1>2. row \in LoanRow /\ row.status # "ABSENT"
  BY <1>1, LoanAssumption, MaxMinorAssumption DEF LoanRow, Minor
<1> HIDE DEF row
<1>3. /\ a \in Application /\ application[a].member # UserOf[s]
      /\ application[a].member \in Member
  BY <1>1 DEF Shape, DesksSound, RowsSound
<1>4. /\ loan' \in [Application -> LoanRow] /\ loan'[a] = row
      /\ \A b \in Application \ {a} : loan'[b] = loan[b]
  BY <1>1, <1>2, <1>3 DEF Shape, TypeOK, BookTypeOK
<1>5. \A b \in Application : loan'[b] = loan[b] \/ loan'[b].status # "ABSENT"
  BY <1>2, <1>4
<1>6. /\ Shape'
      /\ application'[a] = DecidedRow(a, s, "DISBURSED")
      /\ \A b \in Application \ {a} : application'[b] = application[b]
  <2>1. application' = [application EXCEPT ![a] = DecidedRow(a, s, "DISBURSED")]
    BY <1>1, <1>3 DEF Shape, TypeOK, BookTypeOK, DecidedRow
  <2>2. /\ application[a].status = "SUBMITTED" /\ Done(s)
        /\ UNCHANGED <<active, savings, arrears, policy, guarantee, repayment>>
    BY <1>1
  <2>3. loan' \in [Application -> LoanRow]
    BY <1>4
  <2> QED
    BY <1>3, <1>5, <2>1, <2>2, <2>3, ShapeOfDecision
<1>7. loan'[a] = [status |-> "ACTIVE", principal |-> amount, payable |-> Charged(a, amount),
                  paid |-> 0]
  BY <1>4 DEF row
<1> QED
  BY <1>1, <1>3, <1>4, <1>6, <1>7

(* An application is rejected. *)
LEMMA ShapeOfReject ==
  ASSUME Shape, NEW s \in Session, NEW a, a = desk[s].target,
         RejectApplication(s), UNCHANGED fundsVars
  PROVE  /\ Shape'
         /\ a \in Application /\ application[a].member # UserOf[s]
         /\ application[a].status = "SUBMITTED"
         /\ application'[a] = DecidedRow(a, s, "REJECTED")
         /\ \A b \in Application \ {a} : application'[b] = application[b]
<1>1. /\ desk[s].op = "REJECTING" /\ application[a].status = "SUBMITTED"
      /\ application' = [application EXCEPT ![a].status = "REJECTED", ![a].reviewer = UserOf[s]]
      /\ Done(s) /\ UNCHANGED <<active, savings, arrears, policy, guarantee, loan, repayment>>
  BY DEF RejectApplication, StillOpen
<1>2. loan' \in [Application -> LoanRow]
  BY <1>1 DEF Shape, TypeOK, BookTypeOK
<1>3. \A b \in Application : loan'[b] = loan[b]
  BY <1>1
<1>4. /\ a \in Application /\ application[a].member # UserOf[s]
      /\ application[a].member \in Member
  BY <1>1 DEF Shape, DesksSound, RowsSound
<1>5. application' = [application EXCEPT ![a] = DecidedRow(a, s, "REJECTED")]
  BY <1>1, <1>4 DEF Shape, TypeOK, BookTypeOK, DecidedRow
<1> QED
  BY <1>1, <1>2, <1>3, <1>4, <1>5, ShapeOfDecision

(* A repayment is recorded. *)
LEMMA ShapeOfRecord ==
  ASSUME Shape, NEW s \in Session, NEW r \in Repayment, NEW a \in Application,
         NEW amount \in RepayAmounts,
         RecordRepayment(s, r, a, amount), UNCHANGED fundsVars
  PROVE  /\ Shape'
         /\ UNCHANGED <<application, loan>>
         /\ application[a].member \in Member
         /\ repayment[r] = AbsentRepayment
         /\ repayment'[r] = [status |-> "SUBMITTED", loan |-> a, amount |-> amount,
                             reviewer |-> None]
         /\ \A q \in Repayment \ {r} : repayment'[q] = repayment[q]
<1> DEFINE row == [status |-> "SUBMITTED", loan |-> a, amount |-> amount, reviewer |-> None]
<1>1. /\ repayment' = [repayment EXCEPT ![r] = row]
      /\ repayment[r].status = "ABSENT" /\ loan[a].status = "ACTIVE"
      /\ application[a].member = UserOf[s]
      /\ Done(s)
      /\ UNCHANGED <<active, savings, arrears, policy, application, guarantee, loan>>
  BY DEF RecordRepayment
<1>2. row \in RepaymentRow /\ amount > 0
  BY LoanAssumption DEF RepaymentRow, Minor
<1>3. row.status = "SUBMITTED" /\ row.loan = a /\ row.amount = amount
  OBVIOUS
<1> HIDE DEF row
<1>4. /\ repayment' \in [Repayment -> RepaymentRow]
      /\ repayment'[r] = row
      /\ \A q \in Repayment \ {r} : repayment'[q] = repayment[q]
  BY <1>1, <1>2 DEF Shape, TypeOK, BookTypeOK
<1>5. RowsPersist
  BY <1>1 DEF RowsPersist, fundsVars
<1>6. desk' \in [Session -> Desk] /\ DesksSound'
  BY <1>1, <1>5, DesksAfterWriting
<1>7. TypeOK'
  BY <1>1, <1>4, <1>6 DEF Shape, TypeOK, BookTypeOK, fundsVars
<1>8. RowsSound'
  BY <1>1, <1>2, <1>3, <1>4 DEF Shape, RowsSound
<1>9. repayment[r] = AbsentRepayment /\ application[a].member \in Member
  BY <1>1, LoanAssumption DEF Shape, RowsSound
<1> USE DEF row
<1> QED
  BY <1>1, <1>4, <1>6, <1>7, <1>8, <1>9 DEF Shape

(* The row of a repayment after its review. *)
ReviewedRow(r, s, approve) ==
  [repayment[r] EXCEPT !.status = IF approve THEN "APPROVED" ELSE "REJECTED",
                       !.reviewer = UserOf[s]]

(* A repayment is reviewed. *)
LEMMA ShapeOfReview ==
  ASSUME Shape, NEW s \in Session, NEW r \in Repayment, NEW approve \in BOOLEAN,
         NEW a, a = repayment[r].loan,
         ReviewRepayment(s, r, approve), UNCHANGED fundsVars
  PROVE  /\ Shape'
         /\ UNCHANGED application
         /\ a \in Application /\ application[a].member # UserOf[s]
         /\ repayment[r].status = "SUBMITTED"
         /\ repayment'[r] = ReviewedRow(r, s, approve)
         /\ \A q \in Repayment \ {r} : repayment'[q] = repayment[q]
         /\ \A b \in Application \ {a} : loan'[b] = loan[b]
         /\ loan'[a] = IF approve THEN Credited(loan[a], repayment[r].amount) ELSE loan[a]
         /\ approve => /\ loan[a].status = "ACTIVE"
                       /\ repayment[r].amount <= loan[a].payable - loan[a].paid
<1> DEFINE row == ReviewedRow(r, s, approve)
           x == repayment[r].amount
<1>1. /\ repayment[r].status = "SUBMITTED"
      /\ application[a].member # UserOf[s]
      /\ approve => loan[a].status = "ACTIVE" /\ x <= loan[a].payable - loan[a].paid
      /\ loan' = IF approve THEN [loan EXCEPT ![a] = Credited(loan[a], x)] ELSE loan
      /\ Done(s)
      /\ UNCHANGED <<active, savings, arrears, policy, application, guarantee>>
  BY DEF ReviewRepayment, MayVerify, Balance
<1>2. a \in Application /\ x > 0 /\ loan[a].status # "ABSENT" /\ UserOf[s] \in Member
  BY <1>1, LoanAssumption DEF Shape, RowsSound
<1>3. repayment[r] \in RepaymentRow /\ loan[a] \in LoanRow
  BY <1>2 DEF Shape, TypeOK, BookTypeOK
<1>4. repayment' = [repayment EXCEPT ![r] = row]
  BY DEF Shape, TypeOK, BookTypeOK, ReviewRepayment, ReviewedRow
<1>5. /\ row \in RepaymentRow /\ row.status # "ABSENT"
      /\ row.loan = a /\ row.amount = x
  BY <1>2, <1>3 DEF ReviewedRow, RepaymentRow
<1>6. approve => Credited(loan[a], x) \in LoanRow /\ Credited(loan[a], x).status # "ABSENT"
  <2> SUFFICES ASSUME approve
               PROVE  Credited(loan[a], x) \in LoanRow /\ Credited(loan[a], x).status # "ABSENT"
    OBVIOUS
  <2>1. x \in Minor /\ loan[a].paid \in Minor /\ loan[a].payable \in Minor
    BY <1>3 DEF RepaymentRow, LoanRow
  <2> HIDE DEF x
  <2>2. loan[a].paid + x \in Minor
    BY <1>1, <2>1, MaxMinorAssumption DEF Minor
  <2>3. PICK status \in {"PAID", "ACTIVE"} :
          Credited(loan[a], x) = [loan[a] EXCEPT !.paid = loan[a].paid + x, !.status = status]
    BY DEF Credited
  <2> QED
    BY <1>3, <2>2, <2>3 DEF LoanRow
<1> HIDE DEF row, x
<1>7. /\ repayment' \in [Repayment -> RepaymentRow]
      /\ repayment'[r] = row
      /\ \A q \in Repayment \ {r} : repayment'[q] = repayment[q]
  BY <1>4, <1>5 DEF Shape, TypeOK, BookTypeOK
<1>8. /\ loan' \in [Application -> LoanRow]
      /\ loan'[a] = IF approve THEN Credited(loan[a], x) ELSE loan[a]
      /\ \A b \in Application \ {a} : loan'[b] = loan[b]
  BY <1>1, <1>2, <1>6 DEF Shape, TypeOK, BookTypeOK
<1>9. loan'[a].status # "ABSENT"
  BY <1>2, <1>6, <1>8
<1>10. RowsPersist
  BY <1>1 DEF RowsPersist, fundsVars
<1>11. desk' \in [Session -> Desk] /\ DesksSound'
  BY <1>1, <1>10, DesksAfterWriting
<1>12. TypeOK'
  BY <1>1, <1>7, <1>8, <1>11 DEF Shape, TypeOK, BookTypeOK, fundsVars
<1>13. RowsSound'
  <2>1. \A b \in Application : loan'[b].status = "ABSENT" => loan'[b] = AbsentLoan
    BY <1>8, <1>9 DEF Shape, RowsSound
  <2>2. \A b \in Application : loan[b].status # "ABSENT" => loan'[b].status # "ABSENT"
    BY <1>8, <1>9
  <2>3. \A q \in Repayment \ {r} :
          /\ repayment'[q].status = "ABSENT" => repayment'[q] = AbsentRepayment
          /\ repayment'[q].status # "ABSENT" =>
               /\ repayment'[q].loan \in Application
               /\ loan'[repayment'[q].loan].status # "ABSENT"
               /\ repayment'[q].amount > 0
    BY <1>7, <2>2 DEF Shape, RowsSound
  <2>4. /\ repayment'[r].status # "ABSENT" /\ repayment'[r].loan \in Application
        /\ loan'[repayment'[r].loan].status # "ABSENT" /\ repayment'[r].amount > 0
    BY <1>2, <1>5, <1>7, <1>9
  <2> QED
    BY <1>1, <2>1, <2>3, <2>4 DEF Shape, RowsSound
<1> USE DEF row, x
<1> QED
  BY <1>1, <1>2, <1>7, <1>8, <1>11, <1>12, <1>13 DEF Shape

(* An expense is recorded or decided. *)
LEMMA ShapeOfExpenses ==
  ASSUME Shape, NEW s \in Session,
         (\E e \in Expense : CreateExpense(s, e)) \/ ReviewExpense(s)
  PROVE  Shape'
<1>1. /\ expense' \in [Expense -> ExpenseRow]
      /\ \A e \in Expense : expense[e].status # "ABSENT" => expense'[e].status # "ABSENT"
  <2>1. ASSUME NEW e \in Expense, CreateExpense(s, e)
        PROVE  /\ expense' \in [Expense -> ExpenseRow]
               /\ \A f \in Expense : expense[f].status # "ABSENT" => expense'[f].status # "ABSENT"
    <3> DEFINE row == [status |-> "SUBMITTED", amount |-> desk[s].amount]
    <3>1. row \in ExpenseRow /\ row.status = "SUBMITTED"
      BY DEF Shape, TypeOK, BookTypeOK, Desk, ExpenseRow
    <3>2. expense' = [expense EXCEPT ![e] = row]
      BY <2>1 DEF CreateExpense
    <3> HIDE DEF row
    <3> QED
      BY <3>1, <3>2 DEF Shape, TypeOK
  <2>2. CASE ReviewExpense(s)
    <3> DEFINE e == desk[s].target
    <3>1. e \in Expense
      BY <2>2 DEF Shape, DesksSound, ReviewExpense
    <3>2. PICK status \in {"APPROVED", "REJECTED"} :
            expense' = [expense EXCEPT ![e].status = status]
      BY <2>2 DEF ReviewExpense
    <3>3. expense \in [Expense -> ExpenseRow]
      BY DEF Shape, TypeOK
    <3> HIDE DEF e
    <3> QED
      BY <3>1, <3>2, <3>3 DEF ExpenseRow
  <2> QED
    BY <2>1, <2>2
<1>2. /\ UNCHANGED bookVars /\ UNCHANGED collected /\ Done(s)
  BY DEF CreateExpense, ReviewExpense
<1>3. RowsPersist
  BY <1>1, <1>2 DEF RowsPersist, bookVars
<1>4. desk' \in [Session -> Desk] /\ DesksSound'
  BY <1>2, <1>3, DesksAfterWriting
<1>5. TypeOK'
  BY <1>1, <1>2, <1>4 DEF Shape, TypeOK, BookTypeOK, bookVars
<1>6. RowsSound'
  BY <1>2 DEF Shape, RowsSound, bookVars
<1> QED
  BY <1>4, <1>5, <1>6 DEF Shape

-----------------------------------------------------------------------------
(* What a step can do to the loan book. *)

(* The five actions that write applications, loans or repayments. *)
Applies == \E s \in Session, a \in Application, amount \in LoanAmounts, term \in LoanTerms,
              guarantors \in SUBSET Member :
              Apply(s, a, amount, term, guarantors, CashBalance) /\ UNCHANGED fundsVars
Disburses == \E s \in Session, amount \in LoanAmounts :
               Disburse(s, amount, CashBalance) /\ UNCHANGED fundsVars
Rejects == \E s \in Session : RejectApplication(s) /\ UNCHANGED fundsVars
Records == \E s \in Session, r \in Repayment, a \in Application, amount \in RepayAmounts :
             RecordRepayment(s, r, a, amount) /\ UNCHANGED fundsVars
Reviews == \E s \in Session, r \in Repayment, approve \in BOOLEAN :
             ReviewRepayment(s, r, approve) /\ UNCHANGED fundsVars

(* Every other step leaves those rows alone. *)
LEMMA StepsOfTheBook ==
  ASSUME [Next]_vars
  PROVE  \/ UNCHANGED <<application, loan, repayment>>
         \/ Applies \/ Disburses \/ Rejects \/ Records \/ Reviews
<1>1. ASSUME NEW s \in Session, LoanStep(s), UNCHANGED fundsVars
      PROVE  \/ UNCHANGED <<application, loan, repayment>>
             \/ Applies \/ Disburses \/ Rejects \/ Records \/ Reviews
  BY <1>1 DEF LoanStep, Applies, Disburses, Rejects, Records, Reviews, Authorise, Abandon,
     CountMembers, SavePolicy, ReadGuarantee, RespondToGuarantee, ReadApplication, ReadForRejection, bookVars
<1>2. ASSUME NEW s \in Session, ExpenseStep(s)
      PROVE  UNCHANGED <<application, loan, repayment>>
  BY <1>2 DEF ExpenseStep, ReadFunds, CheckAvailable, CreateExpense, ReadExpense, CheckCash,
     ReviewExpense, Keep, bookVars
<1>3. CASE UNCHANGED vars
  BY <1>3 DEF vars, bookVars
<1> QED
  BY <1>1, <1>2, <1>3 DEF Next, UpdateMemberStatus, FallBehind, ApproveContribution, Contribute

(* Every step keeps the shape. *)
LEMMA ShapeStep == Shape /\ [Next]_vars => Shape'
<1> SUFFICES ASSUME Shape, [Next]_vars
             PROVE  Shape'
  OBVIOUS
<1>1. CASE UNCHANGED vars
  <2>1. /\ UNCHANGED <<active, savings, arrears, policy, application, guarantee, loan, repayment>>
        /\ UNCHANGED <<desk, collected, expense>>
    BY <1>1 DEF vars, bookVars, fundsVars
  <2> QED
    BY <2>1 DEF Shape, TypeOK, BookTypeOK, RowsSound, DesksSound
<1>2. CASE Applies \/ Disburses \/ Rejects \/ Records \/ Reviews
  BY <1>2, ShapeOfApply, ShapeOfDisburse, ShapeOfReject, ShapeOfRecord, ShapeOfReview
     DEF Applies, Disburses, Rejects, Records, Reviews
<1>3. ASSUME NEW s \in Session, LoanStep(s), UNCHANGED fundsVars,
             ~(Applies \/ Disburses \/ Rejects \/ Records \/ Reviews)
      PROVE  Shape'
  <2>1. \/ \E op \in Handlers : Authorise(s, op)
        \/ Abandon(s)
        \/ CountMembers(s)
        \/ \E a \in Application : ReadGuarantee(s, a) \/ ReadApplication(s, a)
                                   \/ ReadForRejection(s, a)
        \/ \E p \in Policies : SavePolicy(s, p)
        \/ \E accept \in BOOLEAN : RespondToGuarantee(s, accept)
    BY <1>3 DEF LoanStep, Applies, Disburses, Rejects, Records, Reviews
  <2>2. CASE \/ \E p \in Policies : SavePolicy(s, p)
             \/ \E accept \in BOOLEAN : RespondToGuarantee(s, accept)
    <3>1. UNCHANGED <<application, loan, repayment, expense>>
      BY <1>3, <2>2 DEF SavePolicy, RespondToGuarantee, fundsVars
    <3> QED
      BY <1>3, <2>2, <3>1, ShapeOfSettings
  <2> QED
    BY <1>3, <2>1, <2>2, ShapeOfReads
<1>4. ASSUME NEW s \in Session, ExpenseStep(s)
      PROVE  Shape'
  BY <1>4, ShapeOfReads, ShapeOfExpenses DEF ExpenseStep
<1>5. CASE \/ \E m \in Member : UpdateMemberStatus(m) /\ UNCHANGED fundsVars
           \/ \E m \in Member : FallBehind(m) /\ UNCHANGED fundsVars
           \/ \E m \in Member, amount \in Deposits, eligible \in BOOLEAN, settled \in BOOLEAN :
                ApproveContribution(m, amount, eligible, settled)
  <2>1. UNCHANGED <<application, loan, repayment, expense>>
    BY <1>5 DEF UpdateMemberStatus, FallBehind, ApproveContribution, Contribute, fundsVars
  <2> QED
    BY <1>5, <2>1, ShapeOfSettings
<1> QED
  BY <1>1, <1>2, <1>3, <1>4, <1>5 DEF Next

(* Rows, requests and what they refer to keep their shape, for any group. *)
THEOREM ShapeInvariant == Spec => []Shape
<1> QED
  BY ShapeInit, ShapeStep, PTL DEF Spec

(* Every variable keeps its type: no amount exceeds its column, and what a
   request carries from its reads to its writes is what it needs there. *)
THEOREM TypeCorrect == Spec => []TypeOK
<1>1. Shape => TypeOK
  BY DEF Shape
<1> QED
  BY <1>1, ShapeInvariant, PTL

-----------------------------------------------------------------------------
(* The books of loans and repayments. *)

Books == LoansMatchApplications /\ RepaymentsAddUp /\ RepaymentsCovered /\ NobodyDecidesTheirOwn

(* Repayments of one status are finitely many, so their sum is a number. *)
LEMMA RepaymentSums ==
  ASSUME NEW a, NEW status
  PROVE  /\ IsFiniteSet(RepaymentsOf(a, status))
         /\ Total(RepaymentsOf(a, status), AmountOf) \in Nat
<1>1. IsFiniteSet(Repayment) /\ RepaymentsOf(a, status) \in SUBSET Repayment
  BY LoanAssumption DEF RepaymentsOf
<1> QED
  BY <1>1, FS_Subset, TotalIsNat

(* A group without loans keeps its books. *)
LEMMA BooksInit == Init => Books
<1> SUFFICES ASSUME Init
             PROVE  Books
  OBVIOUS
<1>1. /\ \A a \in Application : application[a] = AbsentApplication /\ loan[a] = AbsentLoan
      /\ \A r \in Repayment : repayment[r] = AbsentRepayment
  BY DEF Init, BookInit
<1>2. \A a \in Application : RepaymentsOf(a, "APPROVED") = {} /\ RepaymentsOf(a, "SUBMITTED") = {}
  BY <1>1 DEF RepaymentsOf, AbsentRepayment
<1>3. \A a \in Application : Approved(a) = 0 /\ AwaitingReview(a) = 0
  BY <1>2, TotalOfZeros DEF Approved, AwaitingReview
<1> QED
  BY <1>1, <1>3 DEF Books, LoansMatchApplications, RepaymentsAddUp, RepaymentsCovered,
     NobodyDecidesTheirOwn, AbsentApplication, AbsentLoan, AbsentRepayment

(* A step that writes no repayment and changes no loan but one it creates
   keeps what repayments add up to. *)
LEMMA SumsWithoutRepayments ==
  ASSUME RepaymentsAddUp, RepaymentsCovered, UNCHANGED repayment,
         \A a \in Application :
           \/ loan'[a] = loan[a]
           \/ loan[a].paid = 0 /\ loan'[a].paid = 0 /\ loan'[a].status = "ACTIVE"
              /\ loan'[a].payable \in Nat /\ loan'[a].payable > 0 /\ loan[a].payable = 0
  PROVE  RepaymentsAddUp' /\ RepaymentsCovered'
<1>1. \A a \in Application : Approved(a)' = Approved(a) /\ AwaitingReview(a)' = AwaitingReview(a)
  BY DEF Approved, AwaitingReview, RepaymentsOf, AmountOf
<1>2. \A a \in Application : AwaitingReview(a) \in Nat
  BY RepaymentSums DEF AwaitingReview
<1> QED
  BY <1>1, <1>2 DEF RepaymentsAddUp, RepaymentsCovered

(* A new application. *)
LEMMA BooksOfApply ==
  ASSUME Shape, Books, NEW s \in Session, NEW a \in Application, NEW amount \in LoanAmounts,
         NEW term \in LoanTerms, NEW guarantors \in SUBSET Member,
         Apply(s, a, amount, term, guarantors, CashBalance), UNCHANGED fundsVars
  PROVE  Books'
<1>1. /\ application[a].status = "ABSENT" /\ application'[a].status = "SUBMITTED"
      /\ application'[a].member = UserOf[s] /\ application'[a].reviewer = None
      /\ \A b \in Application \ {a} : application'[b] = application[b]
  BY ShapeOfApply
<1>2. UNCHANGED <<loan, repayment>>
  BY DEF Apply
<1>3. RepaymentsAddUp' /\ RepaymentsCovered'
  BY <1>2, SumsWithoutRepayments DEF Books
<1>4. loan[a].status = "ABSENT"
  BY <1>1 DEF Books, LoansMatchApplications
<1>5. LoansMatchApplications'
  BY <1>1, <1>2, <1>4 DEF Books, LoansMatchApplications
<1>6. NobodyDecidesTheirOwn'
  <2>1. UserOf[s] # None
    BY LoanAssumption
  <2>2. \A r \in Repayment : repayment[r].status # "ABSENT" => repayment[r].loan \in Application \ {a}
    BY <1>4 DEF Shape, RowsSound
  <2> QED
    BY <1>1, <1>2, <2>1, <2>2 DEF Books, NobodyDecidesTheirOwn
<1> QED
  BY <1>3, <1>5, <1>6 DEF Books

(* A loan. *)
LEMMA BooksOfDisburse ==
  ASSUME Shape, Books, NEW s \in Session, NEW amount \in LoanAmounts,
         Disburse(s, amount, CashBalance), UNCHANGED fundsVars
  PROVE  Books'
<1> DEFINE a == desk[s].target
           row == application[a]
<1>1. /\ a \in Application /\ row.member # UserOf[s]
      /\ row.status = "SUBMITTED" /\ amount <= row.amount
      /\ application'[a] = DecidedRow(a, s, "DISBURSED")
      /\ \A b \in Application \ {a} : application'[b] = application[b] /\ loan'[b] = loan[b]
      /\ loan'[a] = [status |-> "ACTIVE", principal |-> amount, payable |-> Charged(a, amount),
                     paid |-> 0]
  BY ShapeOfDisburse
<1> HIDE DEF a
<1>2. row \in ApplicationRow
  BY <1>1 DEF Shape, TypeOK, BookTypeOK
<1>3. /\ application'[a].status = "DISBURSED" /\ application'[a].member = row.member
      /\ application'[a].amount = row.amount /\ application'[a].term = row.term
      /\ application'[a].rate = row.rate /\ application'[a].fee = row.fee
      /\ application'[a].reviewer = UserOf[s]
  BY <1>1, <1>2 DEF DecidedRow, ApplicationRow
<1>4. /\ loan'[a].status = "ACTIVE" /\ loan'[a].principal = amount
      /\ loan'[a].payable = TotalPayable(amount, row.term, row.rate, row.fee)
      /\ loan'[a].paid = 0
  BY <1>1 DEF Charged
<1>5. UNCHANGED repayment
  BY DEF Disburse
<1>6. amount \in Nat /\ amount > 0
  BY LoanAssumption DEF Minor
<1>7. loan'[a].payable \in Nat /\ loan'[a].payable > 0
  <2>1. row.term \in Nat /\ row.rate \in Nat /\ row.fee \in Nat
    BY <1>2 DEF ApplicationRow
  <2>2. /\ TotalPayable(amount, row.term, row.rate, row.fee) \in Nat
        /\ TotalPayable(amount, row.term, row.rate, row.fee) >= amount
    BY <1>6, <2>1, PayableCoversPrincipal
  <2> QED
    BY <1>4, <1>6, <2>2
<1>8. loan[a] = AbsentLoan
  BY <1>1 DEF Books, LoansMatchApplications, Shape, RowsSound
<1>9. RepaymentsAddUp' /\ RepaymentsCovered'
  <2>1. loan[a].paid = 0 /\ loan[a].payable = 0
    BY <1>8 DEF AbsentLoan
  <2> QED
    BY <1>1, <1>4, <1>5, <1>7, <2>1, SumsWithoutRepayments DEF Books
<1>10. LoansMatchApplications'
  <2>1. row.amount \in Nat
    BY <1>2 DEF ApplicationRow, Minor
  <2>2. amount \in 1 .. row.amount
    BY <1>1, <1>6, <2>1
  <2> HIDE DEF row
  <2> QED
    BY <1>1, <1>3, <1>4, <2>2 DEF Books, LoansMatchApplications
<1>11. NobodyDecidesTheirOwn'
  <2>1. \A b \in Application : application'[b].member = application[b].member
    BY <1>1, <1>3
  <2>2. \A r \in Repayment : repayment[r].status # "ABSENT" => repayment[r].loan \in Application
    BY DEF Shape, RowsSound
  <2> QED
    BY <1>1, <1>3, <1>5, <2>1, <2>2 DEF Books, NobodyDecidesTheirOwn
<1> QED
  BY <1>9, <1>10, <1>11 DEF Books

(* A refusal. *)
LEMMA BooksOfReject ==
  ASSUME Shape, Books, NEW s \in Session, RejectApplication(s), UNCHANGED fundsVars
  PROVE  Books'
<1> DEFINE a == desk[s].target
           row == application[a]
<1>1. /\ a \in Application /\ row.member # UserOf[s]
      /\ row.status = "SUBMITTED"
      /\ application'[a] = DecidedRow(a, s, "REJECTED")
      /\ \A b \in Application \ {a} : application'[b] = application[b]
  BY ShapeOfReject
<1> HIDE DEF a
<1>2. row \in ApplicationRow
  BY <1>1 DEF Shape, TypeOK, BookTypeOK
<1>3. /\ application'[a].status = "REJECTED" /\ application'[a].member = row.member
      /\ application'[a].reviewer = UserOf[s]
  BY <1>1, <1>2 DEF DecidedRow, ApplicationRow
<1>4. UNCHANGED <<loan, repayment>>
  BY DEF RejectApplication
<1>5. RepaymentsAddUp' /\ RepaymentsCovered'
  BY <1>4, SumsWithoutRepayments DEF Books
<1>6. LoansMatchApplications'
  BY <1>1, <1>3, <1>4 DEF Books, LoansMatchApplications
<1>7. NobodyDecidesTheirOwn'
  <2>1. \A b \in Application : application'[b].member = application[b].member
    BY <1>1, <1>3
  <2>2. \A r \in Repayment : repayment[r].status # "ABSENT" => repayment[r].loan \in Application
    BY DEF Shape, RowsSound
  <2> QED
    BY <1>1, <1>3, <1>4, <2>1, <2>2 DEF Books, NobodyDecidesTheirOwn
<1> QED
  BY <1>5, <1>6, <1>7 DEF Books

(* A repayment that waits for review. *)
LEMMA BooksOfRecord ==
  ASSUME Shape, Books, NEW s \in Session, NEW r \in Repayment, NEW a \in Application,
         NEW amount \in RepayAmounts,
         RecordRepayment(s, r, a, amount), UNCHANGED fundsVars
  PROVE  Books'
<1> DEFINE row == [status |-> "SUBMITTED", loan |-> a, amount |-> amount, reviewer |-> None]
<1>1. /\ UNCHANGED <<application, loan>>
      /\ application[a].member \in Member
      /\ repayment[r] = AbsentRepayment
      /\ repayment'[r] = row
      /\ \A q \in Repayment \ {r} : repayment'[q] = repayment[q]
  BY ShapeOfRecord
<1>2. amount \in Minor /\ amount \in Nat
  BY LoanAssumption DEF Minor
<1>3. amount <= loan[a].payable - loan[a].paid - AwaitingReview(a)
  BY DEF RecordRepayment, Repayable, Balance
<1>4. /\ repayment[r].status = "ABSENT"
      /\ repayment'[r].status = "SUBMITTED" /\ repayment'[r].loan = a
      /\ repayment'[r].amount = amount /\ repayment'[r].reviewer = None
  BY <1>1 DEF AbsentRepayment
<1> HIDE DEF row
<1>5. /\ \A q \in Repayment \ {r} : AmountOf'[q] = AmountOf[q]
      /\ AmountOf'[r] = amount
  BY <1>1, <1>4 DEF AmountOf
<1>6. ASSUME NEW b \in Application
      PROVE  /\ Approved(b)' = Approved(b)
             /\ b # a => AwaitingReview(b)' = AwaitingReview(b)
  <2>1. /\ RepaymentsOf(b, "APPROVED")' = RepaymentsOf(b, "APPROVED")
        /\ b # a => RepaymentsOf(b, "SUBMITTED")' = RepaymentsOf(b, "SUBMITTED")
    BY <1>1, <1>4 DEF RepaymentsOf
  <2>2. \A status \in {"APPROVED", "SUBMITTED"} : \A q \in RepaymentsOf(b, status) :
          AmountOf'[q] = AmountOf[q]
    BY <1>4, <1>5 DEF RepaymentsOf
  <2>3. \A status \in {"APPROVED", "SUBMITTED"} :
          Total(RepaymentsOf(b, status), AmountOf') = Total(RepaymentsOf(b, status), AmountOf)
    BY <2>2, TotalUnchanged
  <2> QED
    BY <2>1, <2>3 DEF Approved, AwaitingReview
<1>7. AwaitingReview(a)' = AwaitingReview(a) + amount
  <2> DEFINE S == RepaymentsOf(a, "SUBMITTED")
  <2>1. RepaymentsOf(a, "SUBMITTED")' = S \cup {r} /\ r \notin S
    BY <1>1, <1>4 DEF RepaymentsOf
  <2>2. IsFiniteSet(S)
    BY RepaymentSums
  <2>3. \A q \in S : AmountOf'[q] = AmountOf[q]
    BY <1>5, <2>1 DEF RepaymentsOf
  <2> HIDE DEF S
  <2>4. Total(S, AmountOf') = Total(S, AmountOf)
    BY <2>3, TotalUnchanged
  <2>5. Total(S \cup {r}, AmountOf') = Total(S, AmountOf') + amount
    BY <1>2, <1>5, <2>1, <2>2, TotalExtended
  <2>6. AwaitingReview(a) = Total(S, AmountOf)
    BY DEF AwaitingReview, S
  <2>7. AwaitingReview(a)' = Total(S \cup {r}, AmountOf')
    BY <2>1 DEF AwaitingReview
  <2> QED
    BY <2>4, <2>5, <2>6, <2>7
<1>8. RepaymentsAddUp'
  BY <1>1, <1>6 DEF Books, RepaymentsAddUp
<1>9. RepaymentsCovered'
  <2>1. loan[a].payable \in Nat /\ loan[a].paid \in Nat /\ AwaitingReview(a) \in Nat
    BY RepaymentSums DEF Shape, TypeOK, BookTypeOK, LoanRow, Minor, AwaitingReview
  <2>2. loan[a].paid + AwaitingReview(a)' <= loan[a].payable
    BY <1>2, <1>3, <1>7, <2>1
  <2> QED
    BY <1>1, <1>6, <2>2 DEF Books, RepaymentsCovered
<1>10. LoansMatchApplications'
  BY <1>1 DEF Books, LoansMatchApplications
<1>11. NobodyDecidesTheirOwn'
  <2>1. application[a].member # None
    BY <1>1, LoanAssumption
  <2> QED
    BY <1>1, <1>4, <2>1 DEF Books, NobodyDecidesTheirOwn
<1> QED
  BY <1>8, <1>9, <1>10, <1>11 DEF Books

(* A repayment that is approved or rejected. *)
LEMMA BooksOfReview ==
  ASSUME Shape, Books, NEW s \in Session, NEW r \in Repayment, NEW approve \in BOOLEAN,
         ReviewRepayment(s, r, approve), UNCHANGED fundsVars
  PROVE  Books'
<1>0. repayment[r].loan \in Application /\ repayment[r].amount \in Minor
  BY ShapeOfReview DEF Shape, TypeOK, BookTypeOK, RepaymentRow
<1> PICK a \in Application, x \in Minor : a = repayment[r].loan /\ x = repayment[r].amount
  BY <1>0
<1>1. /\ UNCHANGED application
      /\ application[a].member # UserOf[s]
      /\ repayment[r].status = "SUBMITTED" /\ repayment[r].loan = a /\ repayment[r].amount = x
      /\ repayment'[r] = ReviewedRow(r, s, approve)
      /\ \A q \in Repayment \ {r} : repayment'[q] = repayment[q]
      /\ \A b \in Application \ {a} : loan'[b] = loan[b]
      /\ loan'[a] = IF approve THEN Credited(loan[a], x) ELSE loan[a]
      /\ approve => loan[a].status = "ACTIVE" /\ x <= loan[a].payable - loan[a].paid
  BY ShapeOfReview
<1>2. repayment[r] \in RepaymentRow /\ loan[a] \in LoanRow
  BY <1>1 DEF Shape, TypeOK, BookTypeOK
<1>3. /\ repayment'[r].status = IF approve THEN "APPROVED" ELSE "REJECTED"
      /\ repayment'[r].loan = a /\ repayment'[r].amount = x
      /\ repayment'[r].reviewer = UserOf[s]
  BY <1>1, <1>2 DEF ReviewedRow, RepaymentRow
<1>4. x \in Minor /\ loan[a].paid \in Nat /\ loan[a].payable \in Nat /\ x \in Nat
  BY <1>2 DEF RepaymentRow, LoanRow, Minor
<1>5. /\ loan'[a].payable = loan[a].payable /\ loan'[a].principal = loan[a].principal
      /\ loan'[a].paid = IF approve THEN loan[a].paid + x ELSE loan[a].paid
      /\ approve => loan'[a].status = IF loan[a].paid + x = loan[a].payable THEN "PAID" ELSE "ACTIVE"
      /\ ~approve => loan'[a].status = loan[a].status
  BY <1>1, <1>2 DEF Credited, LoanRow
<1>6. \A q \in Repayment : AmountOf'[q] = AmountOf[q]
  BY <1>1, <1>3 DEF AmountOf
<1>7. AmountOf[r] = x
  BY <1>1 DEF AmountOf
<1>8. ASSUME NEW S \in SUBSET Repayment
      PROVE  Total(S, AmountOf') = Total(S, AmountOf)
  BY <1>6, TotalUnchanged
<1>9. ASSUME NEW b \in Application, b # a
      PROVE  Approved(b)' = Approved(b) /\ AwaitingReview(b)' = AwaitingReview(b)
  <2>1. /\ RepaymentsOf(b, "APPROVED")' = RepaymentsOf(b, "APPROVED")
        /\ RepaymentsOf(b, "SUBMITTED")' = RepaymentsOf(b, "SUBMITTED")
    BY <1>1, <1>3, <1>9 DEF RepaymentsOf
  <2>2. \A status : RepaymentsOf(b, status) \in SUBSET Repayment
    BY DEF RepaymentsOf
  <2> QED
    BY <1>8, <2>1, <2>2 DEF Approved, AwaitingReview
<1>10. AwaitingReview(a)' + x = AwaitingReview(a) /\ AwaitingReview(a)' \in Nat
  <2> DEFINE S == RepaymentsOf(a, "SUBMITTED")
             T == S \ {r}
  <2>1. /\ RepaymentsOf(a, "SUBMITTED")' = T
        /\ S = T \cup {r} /\ r \notin T /\ T \in SUBSET Repayment
    BY <1>1, <1>3 DEF RepaymentsOf
  <2>2. IsFiniteSet(T)
    BY RepaymentSums, FS_Subset, T \in SUBSET S
  <2>3. r \notin T
    BY <2>1
  <2> HIDE DEF T
  <2>4. Total(T \cup {r}, AmountOf) = Total(T, AmountOf) + x
    BY ONLY <1>7, <2>2, <2>3, TotalExtended
  <2>5. Total(T, AmountOf') = Total(T, AmountOf)
    BY <1>8, <2>1
  <2>6. AwaitingReview(a) = Total(T \cup {r}, AmountOf)
    BY <2>1 DEF AwaitingReview
  <2>7. AwaitingReview(a)' = Total(T, AmountOf')
    BY <2>1 DEF AwaitingReview
  <2>8. Total(T, AmountOf) \in Nat
    BY <2>2, TotalIsNat
  <2> QED
    BY <2>4, <2>5, <2>6, <2>7, <2>8
<1>11. Approved(a)' = IF approve THEN Approved(a) + x ELSE Approved(a)
  <2> DEFINE S == RepaymentsOf(a, "APPROVED")
  <2>1. /\ RepaymentsOf(a, "APPROVED")' = IF approve THEN S \cup {r} ELSE S
        /\ r \notin S /\ S \in SUBSET Repayment
    BY <1>1, <1>3 DEF RepaymentsOf
  <2>2. IsFiniteSet(S)
    BY RepaymentSums
  <2>3. Approved(a) = Total(S, AmountOf)
    BY DEF Approved
  <2> HIDE DEF S
  <2>4. Total(S \cup {r}, AmountOf) = Total(S, AmountOf) + x
    BY <1>4, <1>7, <2>1, <2>2, TotalExtended
  <2>5. S \cup {r} \in SUBSET Repayment
    BY <2>1
  <2>6. /\ Total(S, AmountOf') = Total(S, AmountOf)
        /\ Total(S \cup {r}, AmountOf') = Total(S \cup {r}, AmountOf)
    BY <1>8, <2>1, <2>5
  <2>7. Approved(a)' = Total(IF approve THEN S \cup {r} ELSE S, AmountOf')
    BY <2>1 DEF Approved
  <2> QED
    BY <2>3, <2>4, <2>6, <2>7
<1>12. RepaymentsAddUp'
  <2>1. loan'[a].paid = Approved(a)'
    BY <1>1, <1>5, <1>11 DEF Books, RepaymentsAddUp
  <2>2. loan'[a].status # "ABSENT" =>
          ((loan'[a].status = "PAID") <=> (loan'[a].paid = loan'[a].payable))
    BY <1>1, <1>5 DEF Books, RepaymentsAddUp
  <2> QED
    BY <1>1, <1>9, <2>1, <2>2 DEF Books, RepaymentsAddUp
<1>13. RepaymentsCovered'
  <2>1. loan[a].paid + AwaitingReview(a) <= loan[a].payable
    BY <1>1 DEF Books, RepaymentsCovered
  <2>2. loan'[a].paid + AwaitingReview(a)' <= loan'[a].payable
    BY <1>4, <1>5, <1>10, <2>1
  <2> QED
    BY <1>1, <1>9, <2>2 DEF Books, RepaymentsCovered
<1>14. LoansMatchApplications'
  BY <1>1, <1>5 DEF Books, LoansMatchApplications
<1>15. NobodyDecidesTheirOwn'
  BY <1>1, <1>3 DEF Books, NobodyDecidesTheirOwn
<1> QED
  BY <1>12, <1>13, <1>14, <1>15 DEF Books

(* Every step keeps the books. *)
LEMMA BooksStep == Shape /\ Books /\ [Next]_vars => Books'
<1> SUFFICES ASSUME Shape, Books, [Next]_vars
             PROVE  Books'
  OBVIOUS
<1>1. CASE UNCHANGED <<application, loan, repayment>>
  <2>1. RepaymentsAddUp' /\ RepaymentsCovered'
    BY <1>1, SumsWithoutRepayments DEF Books
  <2> QED
    BY <1>1, <2>1 DEF Books, LoansMatchApplications, NobodyDecidesTheirOwn
<1> QED
  BY <1>1, StepsOfTheBook, BooksOfApply, BooksOfDisburse, BooksOfReject, BooksOfRecord,
     BooksOfReview DEF Applies, Disburses, Rejects, Records, Reviews

(* The books are kept, for any group, policy and number of requests. *)
THEOREM BooksInvariant == Spec => []Books
<1> QED
  BY BooksInit, BooksStep, ShapeInvariant, PTL DEF Spec

(* An application is disbursed exactly when its loan exists, at the price its
   own terms set, however approvals, rejections and changes of the policy
   overlap. *)
THEOREM ApplicationsAnsweredOnce == Spec => []LoansMatchApplications
<1>1. Books => LoansMatchApplications
  BY DEF Books
<1> QED
  BY <1>1, BooksInvariant, PTL

(* The paid total of a loan is the sum of its approved repayments, and the
   loan is closed exactly when they reach what it costs. *)
THEOREM LoansAddUp == Spec => []RepaymentsAddUp
<1>1. Books => RepaymentsAddUp
  BY DEF Books
<1> QED
  BY <1>1, BooksInvariant, PTL

(* No set of repayments that officers might still approve overpays a loan. *)
THEOREM NeverOverRepaid == Spec => []RepaymentsCovered
<1>1. Books => RepaymentsCovered
  BY DEF Books
<1> QED
  BY <1>1, BooksInvariant, PTL

(* Nobody decides on their own loan or repayment. *)
THEOREM DecidedByOthers == Spec => []NobodyDecidesTheirOwn
<1>1. Books => NobodyDecidesTheirOwn
  BY DEF Books
<1> QED
  BY <1>1, BooksInvariant, PTL

-----------------------------------------------------------------------------
(* Lending and savings. *)

AskedFor == [a \in Application |-> application[a].amount]
LeftOf == [a \in Application |-> Principal(a)]
Lent(m) == Total(Debts(m), LeftOf)

(* What a member has asked for and has been lent stays within a multiple. *)
Within(m, k) == Requested(m) + Lent(m) <= (savings[m] * k) \div BasisPoints

(* The limit was checked against a policy the group has had. *)
Lending == policy \in Policies \cup {InitialPolicy} /\ LentWithinSavings

(* The multiples that policies allow are numbers. *)
LEMMA MultipliersAreNat ==
  /\ Multipliers \subseteq Nat
  /\ policy \in Policies \cup {InitialPolicy} => policy.multiplier \in Multipliers
BY LoanAssumption DEF Multipliers, Policy

(* The invariant says this. *)
LEMMA LendingMeans == LentWithinSavings <=> \A m \in Member : \E k \in Multipliers : Within(m, k)
BY DEF LentWithinSavings, Within, Lent, LeftOf

(* What is asked for and what is lent are sums of amounts. *)
LEMMA LendingSums ==
  ASSUME Shape, NEW m
  PROVE  /\ IsFiniteSet(Requests(m)) /\ IsFiniteSet(Debts(m))
         /\ Requested(m) = Total(Requests(m), AskedFor)
         /\ Requested(m) \in Nat /\ Lent(m) \in Nat
         /\ \A a \in Application : AskedFor[a] \in Minor /\ LeftOf[a] \in Minor
<1>1. IsFiniteSet(Application) /\ Requests(m) \in SUBSET Application
      /\ Debts(m) \in SUBSET Application
  BY LoanAssumption DEF Requests, Debts
<1>2. IsFiniteSet(Requests(m)) /\ IsFiniteSet(Debts(m))
  BY <1>1, FS_Subset
<1>3. Requested(m) = Total(Requests(m), AskedFor)
  BY DEF Requested, AskedFor
<1>4. \A a \in Application : AskedFor[a] \in Minor
  BY DEF AskedFor, Shape, TypeOK, BookTypeOK, ApplicationRow
<1>5. ASSUME NEW a \in Application PROVE LeftOf[a] \in Minor
  <2>1. loan[a].principal \in Minor /\ loan[a].paid \in Minor
    BY DEF Shape, TypeOK, BookTypeOK, LoanRow
  <2> QED
    BY <2>1, MaxMinorAssumption DEF LeftOf, Principal, AtLeastZero, Minor
<1> QED
  BY <1>2, <1>3, <1>4, <1>5, TotalIsNat DEF Lent

(* A member who asks for no more, owes no more and saves no less stays within. *)
LEMMA StaysWithin ==
  ASSUME Shape, Shape', NEW m \in Member, NEW k \in Nat, Within(m, k),
         Requests(m)' \subseteq Requests(m), Debts(m)' \subseteq Debts(m),
         \A a \in Requests(m)' : application'[a].amount = application[a].amount,
         \A a \in Debts(m)' : loan'[a].principal = loan[a].principal
                              /\ loan'[a].paid >= loan[a].paid,
         savings'[m] >= savings[m]
  PROVE  Within(m, k)'
<1>1. IsFiniteSet(Requests(m)) /\ IsFiniteSet(Debts(m)) /\ Requested(m) \in Nat /\ Lent(m) \in Nat
      /\ Requested(m) = Total(Requests(m), AskedFor)
      /\ \A a \in Application : AskedFor[a] \in Minor /\ LeftOf[a] \in Minor
  BY LendingSums
<1>2. Requests(m)' \in SUBSET Application /\ Debts(m)' \in SUBSET Application
  BY DEF Requests, Debts
<1>3. /\ IsFiniteSet(Requests(m)') /\ IsFiniteSet(Debts(m)')
      /\ Requested(m)' = Total(Requests(m)', AskedFor')
  BY <1>1, FS_Subset DEF Requested, AskedFor
<1>4. \A a \in Application : AskedFor'[a] \in Minor /\ LeftOf'[a] \in Minor
  <2>1. \A a \in Application : /\ application'[a].amount \in Minor
                               /\ loan'[a].principal \in Minor /\ loan'[a].paid \in Minor
    BY DEF Shape, TypeOK, BookTypeOK, ApplicationRow, LoanRow
  <2> QED
    BY <2>1, MaxMinorAssumption DEF AskedFor, LeftOf, Principal, AtLeastZero, Minor
<1>5. \A a \in Requests(m)' : AskedFor'[a] <= AskedFor[a]
  BY <1>1, <1>2 DEF AskedFor, Minor
<1>6. ASSUME NEW a \in Debts(m)' PROVE LeftOf'[a] <= LeftOf[a]
  <2>1. /\ a \in Application /\ loan[a].principal \in Minor /\ loan[a].paid \in Minor
        /\ loan'[a].principal = loan[a].principal /\ loan'[a].paid \in Minor
        /\ loan'[a].paid >= loan[a].paid
    BY <1>2, <1>6 DEF Shape, TypeOK, BookTypeOK, LoanRow
  <2> QED
    BY <2>1, MaxMinorAssumption DEF LeftOf, Principal, AtLeastZero, Minor
<1>7. Total(Requests(m)', AskedFor') <= Total(Requests(m), AskedFor)
  BY <1>1, <1>2, <1>4, <1>5, TotalGrows
<1>8. Total(Debts(m)', LeftOf') <= Total(Debts(m), LeftOf)
  BY <1>1, <1>2, <1>4, <1>6, TotalGrows
<1>9. Requested(m)' \in Nat /\ Lent(m)' \in Nat /\ Requested(m)' <= Requested(m)
      /\ Lent(m)' <= Lent(m)
  BY <1>1, <1>3, <1>7, <1>8, TotalIsNat DEF Lent
<1>10. (savings[m] * k) \div BasisPoints <= (savings'[m] * k) \div BasisPoints
  <2>1. PICK d \in Nat : savings'[m] = savings[m] + d
    <3>1. savings[m] \in Nat /\ savings'[m] \in Nat
      BY DEF Shape, TypeOK, BookTypeOK
    <3>2. savings'[m] - savings[m] \in Nat
      BY <3>1
    <3> QED
      BY <3>1, <3>2
  <2>2. savings[m] \in Nat
    BY DEF Shape, TypeOK, BookTypeOK
  <2> QED
    BY <2>1, <2>2, LimitGrows
<1>11. /\ (savings[m] * k) \div BasisPoints \in Int
       /\ (savings'[m] * k) \div BasisPoints \in Int
  <2>1. savings[m] * k \in Nat /\ savings'[m] * k \in Nat
    BY DEF Shape, TypeOK, BookTypeOK
  <2> QED
    BY <2>1 DEF BasisPoints
<1> QED
  BY <1>1, <1>9, <1>10, <1>11 DEF Within

(* The cash of the group is a number, so the limit is at most the multiple. *)
LEMMA LimitWithin ==
  ASSUME Shape, NEW m \in Member
  PROVE  /\ Limit(m, CashBalance) \in Int
         /\ Limit(m, CashBalance) <= (savings[m] * policy.multiplier) \div BasisPoints
<1>1. CashBalance \in Nat
  <2>1. ActiveLoans \in SUBSET Application /\ IsFiniteSet(Application)
    BY LoanAssumption DEF ActiveLoans
  <2>2. IsFiniteSet(ActiveLoans)
    BY <2>1, FS_Subset
  <2>3. /\ Total(ActiveLoans, [a \in Application |-> loan[a].principal]) \in Nat
        /\ Total(ActiveLoans, [a \in Application |-> loan[a].paid]) \in Nat
    BY <2>2, TotalIsNat
  <2>4. LentOut \in Nat
    BY <2>3 DEF LentOut, AtLeastZero
  <2>5. Spent("APPROVED") \in Nat /\ collected \in Nat
    BY SpentIsNat DEF Shape, TypeOK
  <2> QED
    BY <2>4, <2>5 DEF CashBalance, AtLeastZero
<1>2. (savings[m] * policy.multiplier) \div BasisPoints \in Int
  <2>1. savings[m] * policy.multiplier \in Nat
    BY DEF Shape, TypeOK, BookTypeOK, Policy
  <2> QED
    BY <2>1 DEF BasisPoints
<1> QED
  BY <1>1, <1>2 DEF Limit, Lesser

(* Nobody owes less than what is left of the principal. *)
LEMMA LentIsOwed ==
  ASSUME Shape, Books, NEW m
  PROVE  Owed(m) \in Nat /\ Lent(m) <= Owed(m)
<1>1. IsFiniteSet(Debts(m)) /\ \A a \in Application : LeftOf[a] \in Minor
  BY LendingSums
<1>2. ASSUME NEW a \in Debts(m)
      PROVE  /\ [b \in Application |-> Balance(b)][a] \in Minor
             /\ LeftOf[a] <= [b \in Application |-> Balance(b)][a]
  <2>1. a \in Application /\ loan[a].status = "ACTIVE"
    BY DEF Debts
  <2>2. /\ application[a].term \in Nat /\ application[a].rate \in Nat /\ application[a].fee \in Nat
        /\ loan[a].principal \in Minor /\ loan[a].payable \in Minor /\ loan[a].paid \in Minor
    BY <2>1 DEF Shape, TypeOK, BookTypeOK, ApplicationRow, LoanRow
  <2>3. loan[a].payable >= loan[a].principal
    <3>1. loan[a].payable = TotalPayable(loan[a].principal, application[a].term,
                                         application[a].rate, application[a].fee)
      BY <2>1 DEF Books, LoansMatchApplications
    <3>2. loan[a].principal \in Nat
      BY <2>2, MaxMinorAssumption DEF Minor
    <3>3. TotalPayable(loan[a].principal, application[a].term, application[a].rate,
                       application[a].fee) >= loan[a].principal
      BY <2>2, <3>2, PayableCoversPrincipal
    <3> QED
      BY <3>1, <3>3
  <2>4. loan[a].paid <= loan[a].payable
    <3>1. AwaitingReview(a) \in Nat
      BY RepaymentSums DEF AwaitingReview
    <3>2. loan[a].paid + AwaitingReview(a) <= loan[a].payable
      BY <2>1 DEF Books, RepaymentsCovered
    <3> QED
      BY <2>2, <3>1, <3>2, MaxMinorAssumption DEF Minor
  <2> QED
    BY <2>1, <2>2, <2>3, <2>4, MaxMinorAssumption
       DEF LeftOf, Principal, AtLeastZero, Balance, Minor
<1>3. Debts(m) \in SUBSET Application
  BY DEF Debts
<1>4. \A a \in Debts(m) : LeftOf[a] \in Minor
  BY <1>1, <1>3
<1> DEFINE g == [b \in Application |-> Balance(b)]
<1>5. \A a \in Debts(m) : g[a] \in Minor /\ LeftOf[a] <= g[a]
  BY <1>2
<1>6. Owed(m) = Total(Debts(m), g)
  BY DEF Owed
<1> HIDE DEF g
<1>7. Total(Debts(m), LeftOf) <= Total(Debts(m), g)
  BY <1>1, <1>4, <1>5, TotalGrows
<1> QED
  BY <1>1, <1>6, <1>7, TotalIsNat DEF Lent

(* An application is checked against the limit of the day. *)
LEMMA LendingOfApply ==
  ASSUME Shape, Shape', Books, Lending, NEW s \in Session, NEW a \in Application,
         NEW amount \in LoanAmounts, NEW term \in LoanTerms, NEW guarantors \in SUBSET Member,
         Apply(s, a, amount, term, guarantors, CashBalance), UNCHANGED fundsVars,
         NEW m \in Member
  PROVE  \E k \in Multipliers : Within(m, k)'
<1>1. /\ application[a].status = "ABSENT" /\ application'[a].status = "SUBMITTED"
      /\ application'[a].member = UserOf[s] /\ application'[a].amount = amount
      /\ \A b \in Application \ {a} : application'[b] = application[b]
      /\ UNCHANGED <<loan, savings, policy>>
  <2>1. UNCHANGED <<loan, savings, policy>>
    BY DEF Apply
  <2> QED
    BY <2>1, ShapeOfApply
<1>2. loan[a].status # "ACTIVE"
  BY <1>1 DEF Books, LoansMatchApplications
<1>3. Debts(m)' = Debts(m)
  BY <1>1, <1>2 DEF Debts
<1>4. CASE m # UserOf[s]
  <2>1. Requests(m)' = Requests(m) /\ a \notin Requests(m)
    BY <1>1, <1>4 DEF Requests
  <2>2. PICK k \in Multipliers : Within(m, k)
    BY LendingMeans DEF Lending
  <2>3. /\ savings'[m] >= savings[m]
        /\ \A b \in Debts(m)' : loan'[b].principal = loan[b].principal
                                /\ loan'[b].paid >= loan[b].paid
    <3>1. savings[m] \in Nat /\ \A b \in Application : loan[b].paid \in Nat
      BY MaxMinorAssumption DEF Shape, TypeOK, BookTypeOK, LoanRow, Minor
    <3> QED
      BY <1>1, <3>1 DEF Debts
  <2>4. \A b \in Requests(m)' : application'[b].amount = application[b].amount
    BY <1>1, <2>1 DEF Requests
  <2> QED
    BY <1>3, <2>1, <2>2, <2>3, <2>4, MultipliersAreNat, StaysWithin
<1>5. CASE m = UserOf[s]
  <2>1. Requests(m)' = Requests(m) \cup {a} /\ a \notin Requests(m)
    BY <1>1, <1>5 DEF Requests
  <2>2. Requests(m)' \in SUBSET Application
    BY DEF Requests
  <2>3. /\ IsFiniteSet(Requests(m)) /\ Requested(m) = Total(Requests(m), AskedFor)
        /\ Requested(m) \in Nat /\ Lent(m) \in Nat
    BY LendingSums
  <2>4. amount \in Minor /\ amount > 0 /\ AskedFor'[a] = amount
    BY <1>1, LoanAssumption, MaxMinorAssumption DEF AskedFor, Minor
  <2>5. Total(Requests(m) \cup {a}, AskedFor') = Total(Requests(m), AskedFor') + amount
    BY <2>1, <2>3, <2>4, TotalExtended
  <2>6. Total(Requests(m), AskedFor') = Total(Requests(m), AskedFor)
    <3>1. \A b \in Requests(m) : AskedFor'[b] = AskedFor[b]
      BY <1>1, <2>1 DEF AskedFor, Requests
    <3> QED
      BY <3>1, TotalUnchanged
  <2>7. Requested(m)' = Requested(m) + amount
    <3>1. Requested(m)' = Total(Requests(m)', AskedFor')
      BY DEF Requested, AskedFor
    <3> QED
      BY <2>1, <2>3, <2>5, <2>6, <3>1
  <2>8. Lent(m)' = Lent(m)
    <3>1. \A b \in Debts(m) : LeftOf'[b] = LeftOf[b]
      BY <1>1 DEF LeftOf, Principal, AtLeastZero, Debts
    <3>2. Total(Debts(m), LeftOf') = Total(Debts(m), LeftOf)
      BY <3>1, TotalUnchanged
    <3> QED
      BY <1>3, <3>2 DEF Lent
  <2>9. amount <= AtLeastZero(Limit(m, CashBalance) - Owed(m) - Requested(m))
    BY <1>5 DEF Apply, BorrowingPower
  <2>10. Requested(m) + amount + Owed(m) <= Limit(m, CashBalance)
    BY <2>3, <2>4, <2>9, LimitWithin, LentIsOwed DEF AtLeastZero, Minor
  <2>11. (savings[m] * policy.multiplier) \div BasisPoints \in Int
    <3>1. savings[m] * policy.multiplier \in Nat
      BY DEF Shape, TypeOK, BookTypeOK, Policy
    <3> QED
      BY <3>1 DEF BasisPoints
  <2>12. Requested(m) + amount + Lent(m) <= (savings[m] * policy.multiplier) \div BasisPoints
    BY <2>3, <2>4, <2>10, <2>11, LimitWithin, LentIsOwed DEF Minor
  <2>13. policy.multiplier \in Multipliers
    BY MultipliersAreNat DEF Lending
  <2>14. PICK k \in Multipliers : k = policy.multiplier
    BY <2>13
  <2>15. Within(m, k)'
    BY <1>1, <2>7, <2>8, <2>12, <2>14 DEF Within
  <2> QED
    BY <2>14, <2>15
<1> QED
  BY <1>4, <1>5

(* The decided row stays its member's, at its amount. *)
LEMMA DecidedFields ==
  ASSUME Shape, NEW a \in Application, NEW s, NEW status
  PROVE  /\ DecidedRow(a, s, status).status = status
         /\ DecidedRow(a, s, status).member = application[a].member
         /\ DecidedRow(a, s, status).amount = application[a].amount
BY DEF DecidedRow, Shape, TypeOK, BookTypeOK, ApplicationRow

(* A loan is at most what was asked for, which it replaces. *)
LEMMA LendingOfDisburse ==
  ASSUME Shape, Shape', Books, Lending, NEW s \in Session, NEW amount \in LoanAmounts,
         Disburse(s, amount, CashBalance), UNCHANGED fundsVars, NEW m \in Member
  PROVE  \E k \in Multipliers : Within(m, k)'
<1>1. PICK a \in Application :
        /\ application[a].status = "SUBMITTED" /\ amount <= application[a].amount
        /\ application'[a] = DecidedRow(a, s, "DISBURSED")
        /\ \A b \in Application \ {a} : application'[b] = application[b] /\ loan'[b] = loan[b]
        /\ loan'[a] = [status |-> "ACTIVE", principal |-> amount,
                       payable |-> Charged(a, amount), paid |-> 0]
  BY ShapeOfDisburse
<1>2. UNCHANGED <<savings, policy>>
  BY DEF Disburse
<1>3. /\ application'[a].status = "DISBURSED" /\ application'[a].member = application[a].member
      /\ application'[a].amount = application[a].amount
      /\ loan'[a].status = "ACTIVE" /\ loan'[a].principal = amount /\ loan'[a].paid = 0
  BY <1>1, DecidedFields
<1>4. loan[a].status = "ABSENT"
  BY <1>1 DEF Books, LoansMatchApplications
<1>5. PICK k \in Multipliers : Within(m, k)
  BY LendingMeans DEF Lending
<1>6. savings[m] \in Nat /\ \A b \in Application : loan[b].paid \in Nat
  BY MaxMinorAssumption DEF Shape, TypeOK, BookTypeOK, LoanRow, Minor
<1>7. CASE application[a].member # m
  <2>1. Requests(m)' = Requests(m) /\ a \notin Requests(m)
    BY <1>1, <1>3, <1>7 DEF Requests
  <2>2. Debts(m)' = Debts(m) /\ a \notin Debts(m)
    BY <1>1, <1>3, <1>7 DEF Debts
  <2>3. \A b \in Requests(m)' : application'[b].amount = application[b].amount
    BY <1>1, <2>1 DEF Requests
  <2>4. \A b \in Debts(m)' : loan'[b].principal = loan[b].principal /\ loan'[b].paid >= loan[b].paid
    BY <1>1, <1>6, <2>2 DEF Debts
  <2> QED
    BY <1>2, <1>5, <1>6, <2>1, <2>2, <2>3, <2>4, MultipliersAreNat, StaysWithin
<1>8. CASE application[a].member = m
  <2>1. /\ IsFiniteSet(Requests(m)) /\ IsFiniteSet(Debts(m))
        /\ Requested(m) = Total(Requests(m), AskedFor)
        /\ Requested(m) \in Nat /\ Lent(m) \in Nat
        /\ \A b \in Application : AskedFor[b] \in Minor /\ LeftOf[b] \in Minor
    BY LendingSums
  <2> DEFINE R == Requests(m)'
  <2>2. R = Requests(m) \ {a} /\ a \in Requests(m)
    BY <1>1, <1>3, <1>8 DEF Requests
  <2>3. Debts(m)' = Debts(m) \cup {a} /\ a \notin Debts(m)
    BY <1>1, <1>3, <1>4, <1>8 DEF Debts
  <2>4. Requested(m)' = Total(R, AskedFor')
    BY DEF Requested, AskedFor
  <2>5. \A b \in R : AskedFor'[b] = AskedFor[b]
    <3>1. \A b \in Application \ {a} : AskedFor'[b] = AskedFor[b]
      BY <1>1 DEF AskedFor
    <3>2. Requests(m) \ {a} \subseteq Application \ {a}
      BY DEF Requests
    <3> QED
      BY <2>2, <3>1, <3>2
  <2> HIDE DEF R
  <2>6. Requests(m) = R \cup {a} /\ a \notin R /\ IsFiniteSet(R)
    BY <2>1, <2>2, FS_Subset
  <2>7. Total(R, AskedFor') = Total(R, AskedFor) /\ Total(R, AskedFor) \in Nat
    BY <2>5, <2>6, TotalUnchanged, TotalIsNat
  <2>8. Total(R \cup {a}, AskedFor) = Total(R, AskedFor) + application[a].amount
    <3>1. AskedFor[a] \in Minor /\ AskedFor[a] = application[a].amount
      BY <2>1 DEF AskedFor
    <3> QED
      BY <2>6, <3>1, TotalExtended
  <2>9. Requested(m) = Requested(m)' + application[a].amount /\ Requested(m)' \in Nat
    BY <2>1, <2>4, <2>6, <2>7, <2>8
  <2>10. amount \in Minor /\ amount \in Nat /\ application[a].amount \in Nat
    BY LoanAssumption, MaxMinorAssumption DEF Minor, Shape, TypeOK, BookTypeOK, ApplicationRow
  <2>11. LeftOf'[a] = amount
    BY <1>3, <2>10 DEF LeftOf, Principal, AtLeastZero
  <2>12. Total(Debts(m) \cup {a}, LeftOf') = Total(Debts(m), LeftOf') + amount
    BY <2>1, <2>3, <2>10, <2>11, TotalExtended
  <2>13. Total(Debts(m), LeftOf') = Total(Debts(m), LeftOf)
    <3>1. \A b \in Debts(m) : LeftOf'[b] = LeftOf[b]
      BY <1>1, <2>3 DEF LeftOf, Principal, AtLeastZero, Debts
    <3> QED
      BY <3>1, TotalUnchanged
  <2>14. Lent(m)' = Lent(m) + amount
    BY <2>3, <2>12, <2>13 DEF Lent
  <2>15. Requested(m)' + Lent(m)' <= Requested(m) + Lent(m)
    BY <1>1, <2>1, <2>9, <2>10, <2>14
  <2>16. (savings[m] * k) \div BasisPoints \in Int
    <3>1. savings[m] * k \in Nat
      BY <1>5, <1>6, MultipliersAreNat
    <3> QED
      BY <3>1 DEF BasisPoints
  <2>17. Within(m, k)'
    BY <1>2, <1>5, <2>1, <2>9, <2>10, <2>14, <2>15, <2>16 DEF Within
  <2> QED
    BY <1>5, <2>17
<1> QED
  BY <1>7, <1>8

(* Every other step leaves less, or as much, with more savings or as many. *)
LEMMA LendingOfOthers ==
  ASSUME Shape, Shape', Books, Lending, [Next]_vars, ~Applies, ~Disburses, NEW m \in Member
  PROVE  \E k \in Multipliers : Within(m, k)'
<1>1. PICK k \in Multipliers : Within(m, k)
  BY LendingMeans DEF Lending
<1>2. savings[m] \in Nat /\ \A a \in Application : loan[a].paid \in Nat
  BY MaxMinorAssumption DEF Shape, TypeOK, BookTypeOK, LoanRow, Minor
<1>3. savings'[m] >= savings[m]
  <2>1. CASE UNCHANGED savings
    BY <1>2, <2>1
  <2>2. ASSUME NEW n \in Member, NEW amount \in Deposits, NEW eligible \in BOOLEAN,
               Contribute(n, IF eligible THEN amount ELSE 0)
        PROVE  savings'[m] >= savings[m]
    <3> DEFINE x == IF eligible THEN amount ELSE 0
    <3>1. x \in Nat
      BY FundsAssumption, MaxMinorAssumption DEF Minor
    <3>2. savings' = [savings EXCEPT ![n] = savings[n] + x]
      BY <2>2 DEF Contribute
    <3> HIDE DEF x
    <3>3. savings \in [Member -> Nat]
      BY DEF Shape, TypeOK, BookTypeOK
    <3> QED
      BY <3>1, <3>2, <3>3
  <2>3. \/ UNCHANGED savings
        \/ \E n \in Member, amount \in Deposits, eligible \in BOOLEAN :
             Contribute(n, IF eligible THEN amount ELSE 0)
    <3>1. ASSUME NEW s \in Session, LoanStep(s) PROVE UNCHANGED savings
      BY <3>1 DEF LoanStep, Authorise, Abandon, CountMembers, SavePolicy, Apply, ReadGuarantee,
         RespondToGuarantee, ReadApplication, Disburse, ReadForRejection, RejectApplication,
         RecordRepayment, ReviewRepayment, bookVars
    <3>2. ASSUME NEW s \in Session, ExpenseStep(s) PROVE UNCHANGED savings
      BY <3>2 DEF ExpenseStep, ReadFunds, CheckAvailable, CreateExpense, ReadExpense, CheckCash,
         ReviewExpense, Keep, bookVars
    <3> QED
      BY <3>1, <3>2 DEF Next, UpdateMemberStatus, FallBehind, ApproveContribution, vars, bookVars
  <2> QED
    BY <2>1, <2>2, <2>3
<1>4. CASE UNCHANGED <<application, loan>>
  <2>1. Requests(m)' = Requests(m) /\ Debts(m)' = Debts(m)
    BY <1>4 DEF Requests, Debts
  <2>2. /\ \A a \in Requests(m)' : application'[a].amount = application[a].amount
        /\ \A a \in Debts(m)' : /\ loan'[a].principal = loan[a].principal
                                 /\ loan'[a].paid >= loan[a].paid
    BY <1>2, <1>4 DEF Requests, Debts
  <2>3. Within(m, k)'
    BY <1>1, <1>3, <2>1, <2>2, MultipliersAreNat, StaysWithin
  <2> QED
    BY <1>1, <2>3
<1>5. CASE Rejects
  <2>1. PICK s \in Session : RejectApplication(s) /\ UNCHANGED fundsVars
    BY <1>5 DEF Rejects
  <2>2. PICK a \in Application :
          /\ application'[a] = DecidedRow(a, s, "REJECTED")
          /\ \A b \in Application \ {a} : application'[b] = application[b]
    BY <2>1, ShapeOfReject
  <2>3. /\ application'[a].status = "REJECTED" /\ application'[a].member = application[a].member
        /\ application'[a].amount = application[a].amount /\ UNCHANGED loan
    BY <2>1, <2>2, DecidedFields DEF RejectApplication
  <2>4. Requests(m)' \subseteq Requests(m) /\ Debts(m)' = Debts(m)
    BY <2>2, <2>3 DEF Requests, Debts
  <2>5. /\ \A b \in Requests(m)' : application'[b].amount = application[b].amount
        /\ \A b \in Debts(m)' : /\ loan'[b].principal = loan[b].principal
                                 /\ loan'[b].paid >= loan[b].paid
    BY <1>2, <2>2, <2>3 DEF Requests, Debts
  <2>6. Within(m, k)'
    BY <1>1, <1>3, <2>4, <2>5, MultipliersAreNat, StaysWithin
  <2> QED
    BY <1>1, <2>6
<1>6. CASE Reviews
  <2>1. PICK s \in Session, r \in Repayment, approve \in BOOLEAN :
          ReviewRepayment(s, r, approve) /\ UNCHANGED fundsVars
    BY <1>6 DEF Reviews
  <2>2. PICK a \in Application :
          /\ UNCHANGED application
          /\ \A b \in Application \ {a} : loan'[b] = loan[b]
          /\ loan'[a] = IF approve THEN Credited(loan[a], repayment[r].amount) ELSE loan[a]
          /\ approve => loan[a].status = "ACTIVE"
    BY <2>1, ShapeOfReview
  <2>3. repayment[r].amount \in Nat
    BY MaxMinorAssumption DEF Shape, TypeOK, BookTypeOK, RepaymentRow, Minor
  <2>4. /\ loan'[a].principal = loan[a].principal /\ loan'[a].paid >= loan[a].paid
        /\ loan'[a].status = "ACTIVE" => loan[a].status = "ACTIVE"
    <3>1. PICK row \in LoanRow : row = loan[a]
      BY DEF Shape, TypeOK, BookTypeOK
    <3>2. /\ Credited(row, repayment[r].amount).principal = row.principal
          /\ Credited(row, repayment[r].amount).paid = row.paid + repayment[r].amount
      BY DEF Credited, LoanRow
    <3> QED
      BY <1>2, <2>2, <2>3, <3>1, <3>2
  <2>5. Requests(m)' = Requests(m) /\ Debts(m)' \subseteq Debts(m)
    BY <2>2, <2>4 DEF Requests, Debts
  <2>6. /\ \A b \in Requests(m)' : application'[b].amount = application[b].amount
        /\ \A b \in Debts(m)' : /\ loan'[b].principal = loan[b].principal
                                 /\ loan'[b].paid >= loan[b].paid
    BY <1>2, <2>2, <2>4 DEF Requests, Debts
  <2>7. Within(m, k)'
    BY <1>1, <1>3, <2>5, <2>6, MultipliersAreNat, StaysWithin
  <2> QED
    BY <1>1, <2>7
<1>7. UNCHANGED <<application, loan>> \/ Rejects \/ Reviews
  BY StepsOfTheBook DEF Records, RecordRepayment
<1> QED
  BY <1>4, <1>5, <1>6, <1>7

(* A new group has lent nothing. *)
LEMMA LendingInit == Init => Lending
<1> SUFFICES ASSUME Init PROVE Lending
  OBVIOUS
<1>1. \A a \in Application : application[a] = AbsentApplication /\ loan[a] = AbsentLoan
  BY DEF Init, BookInit
<1>2. \A m : Requests(m) = {} /\ Debts(m) = {}
  BY <1>1 DEF Requests, Debts, AbsentApplication, AbsentLoan
<1>3. \A m \in Member : Requested(m) = 0 /\ Lent(m) = 0
  BY <1>2, TotalOfZeros DEF Requested, Lent
<1>4. policy = InitialPolicy /\ \A m \in Member : savings[m] = 0
  BY DEF Init, BookInit
<1>5. policy.multiplier \in Multipliers /\ policy.multiplier \in Nat
  BY <1>4, MultipliersAreNat
<1>6. \A m \in Member : Within(m, policy.multiplier)
  BY <1>3, <1>4, <1>5 DEF Within, BasisPoints
<1> QED
  BY <1>4, <1>5, <1>6, LendingMeans DEF Lending

(* Every step keeps lending within savings. *)
LEMMA LendingStep == Shape /\ Shape' /\ Books /\ Lending /\ [Next]_vars => Lending'
<1> SUFFICES ASSUME Shape, Shape', Books, Lending, [Next]_vars
             PROVE  Lending'
  OBVIOUS
<1>1. policy' \in Policies \cup {InitialPolicy}
  <2>1. ASSUME NEW s \in Session, LoanStep(s) PROVE policy' \in Policies \/ policy' = policy
    BY <2>1 DEF LoanStep, Authorise, Abandon, CountMembers, SavePolicy, Apply, ReadGuarantee,
       RespondToGuarantee, ReadApplication, Disburse, ReadForRejection, RejectApplication,
       RecordRepayment, ReviewRepayment, bookVars
  <2>2. ASSUME NEW s \in Session, ExpenseStep(s) PROVE policy' = policy
    BY <2>2 DEF ExpenseStep, ReadFunds, CheckAvailable, CreateExpense, ReadExpense, CheckCash,
       ReviewExpense, Keep, bookVars
  <2>3. policy' \in Policies \/ policy' = policy
    BY <2>1, <2>2 DEF Next, UpdateMemberStatus, FallBehind, ApproveContribution, Contribute,
       vars, bookVars
  <2> QED
    BY <2>3 DEF Lending
<1>2. \A m \in Member : \E k \in Multipliers : Within(m, k)'
  BY LendingOfApply, LendingOfDisburse, LendingOfOthers DEF Applies, Disburses
<1>3. LentWithinSavings'
  BY <1>2 DEF LentWithinSavings, Within, Lent, LeftOf
<1> QED
  BY <1>1, <1>3 DEF Lending

(* What a member has asked for and not yet paid back stays within the highest
   multiple of the member's savings, for any policies, amounts and requests. *)
THEOREM LendingIsBounded == Spec => []LentWithinSavings
<1>1. Shape /\ Shape' /\ Books /\ Lending /\ [Next]_vars => Lending'
  BY LendingStep
<1>2. Lending => LentWithinSavings
  BY DEF Lending
<1> QED
  BY <1>1, <1>2, LendingInit, ShapeInvariant, BooksInvariant, PTL DEF Spec

-----------------------------------------------------------------------------
(* Guarantees. *)

(* A step changes what a request has read only if it is a step of that
   request. *)
LEMMA DeskOfOthers ==
  ASSUME [Next]_vars, Shape, NEW t \in Session
  PROVE  \/ desk'[t] = desk[t]
         \/ LoanStep(t) /\ UNCHANGED fundsVars
         \/ ExpenseStep(t)
<1>1. desk \in [Session -> Desk]
  BY DEF Shape, TypeOK, BookTypeOK
<1>2. ASSUME NEW s \in Session, s # t, LoanStep(s) PROVE desk'[t] = desk[t]
  BY <1>1, <1>2 DEF LoanStep, Authorise, Abandon, CountMembers, SavePolicy, Apply, ReadGuarantee,
     RespondToGuarantee, ReadApplication, Disburse, ReadForRejection, RejectApplication,
     RecordRepayment, ReviewRepayment, Done
<1>3. ASSUME NEW s \in Session, s # t, ExpenseStep(s) PROVE desk'[t] = desk[t]
  BY <1>1, <1>3 DEF ExpenseStep, ReadFunds, CheckAvailable, CreateExpense, ReadExpense, CheckCash,
     ReviewExpense, Done
<1> QED
  BY <1>2, <1>3 DEF Next, vars, UpdateMemberStatus, FallBehind, ApproveContribution, Contribute

(* A handler that answers, approves or spends got there from Authorise by the
   reads of its own kind. *)
LEMMA DeskOfLoans ==
  ASSUME Shape, NEW t \in Session, LoanStep(t)
  PROVE  \/ desk'[t] = Idle
         \/ \E op \in Handlers : <<t, op>> \in Calls /\ desk'[t].op = op
         \/ desk[t].op = "POLICY" /\ desk'[t].op = "RULING"
         \/ \E a \in Application : ReadGuarantee(t, a) /\ desk'[t].op = "ANSWERING" /\ desk'[t].target = a
         \/ \E a \in Application : ReadApplication(t, a) /\ desk'[t].op = "APPROVING" /\ desk'[t].target = a
         \/ desk'[t].op = "REJECTING"
<1>1. desk \in [Session -> Desk] /\ desk[t] \in Desk
  BY DEF Shape, TypeOK, BookTypeOK
<1>2. ASSUME NEW op \in Handlers, Authorise(t, op)
      PROVE  <<t, op>> \in Calls /\ desk'[t].op = op
  BY <1>1, <1>2 DEF Authorise, Desk
<1>3. ASSUME CountMembers(t) PROVE desk[t].op = "POLICY" /\ desk'[t].op = "RULING"
  BY <1>1, <1>3 DEF CountMembers, Desk
<1>4. ASSUME NEW a \in Application, ReadGuarantee(t, a)
      PROVE  desk'[t].op = "ANSWERING" /\ desk'[t].target = a
  BY <1>1, <1>4 DEF ReadGuarantee, Desk
<1>5. ASSUME NEW a \in Application, ReadApplication(t, a)
      PROVE  desk'[t].op = "APPROVING" /\ desk'[t].target = a
  BY <1>1, <1>5 DEF ReadApplication, Desk
<1>6. ASSUME NEW a \in Application, ReadForRejection(t, a)
      PROVE  desk'[t].op = "REJECTING"
  BY <1>1, <1>6 DEF ReadForRejection, Desk
<1>7. ASSUME desk' = [desk EXCEPT ![t] = Idle] PROVE desk'[t] = Idle
  BY <1>1, <1>7
<1> QED
  BY <1>2, <1>3, <1>4, <1>5, <1>6, <1>7 DEF LoanStep, Abandon, SavePolicy, Apply, RespondToGuarantee, Disburse,
     RejectApplication, RecordRepayment, ReviewRepayment, Done

(* A handler of expenses neither answers nor approves. *)
LEMMA DeskOfExpenses ==
  ASSUME Shape, NEW t \in Session, ExpenseStep(t)
  PROVE  desk'[t].op \notin {"ANSWERING", "APPROVING"}
<1>1. desk \in [Session -> Desk] /\ desk[t] \in Desk
  BY DEF Shape, TypeOK, BookTypeOK
<1>2. ASSUME NEW from, NEW to, to \notin {"ANSWERING", "APPROVING"}, ReadFunds(t, from, to)
      PROVE  desk'[t].op \notin {"ANSWERING", "APPROVING"}
  BY <1>1, <1>2 DEF ReadFunds, Desk
<1>3. ASSUME NEW amount \in SpendAmounts, CheckAvailable(t, amount) PROVE desk'[t].op = "SPENDING"
  BY <1>1, <1>3 DEF CheckAvailable, Desk
<1>4. ASSUME NEW e \in Expense, NEW approve \in BOOLEAN, ReadExpense(t, e, approve)
      PROVE  desk'[t].op \in {"WEIGHING", "DENYING"}
  BY <1>1, <1>4 DEF ReadExpense, Desk
<1>5. ASSUME CheckCash(t) PROVE desk'[t].op = "ALLOWING"
  BY <1>1, <1>5 DEF CheckCash, Desk
<1>6. ASSUME desk' = [desk EXCEPT ![t] = Idle] PROVE desk'[t].op = "NONE"
  BY <1>1, <1>6 DEF Idle
<1> QED
  BY <1>2, <1>3, <1>4, <1>5, <1>6 DEF ExpenseStep, CreateExpense, ReviewExpense, Done

(* The guarantors an approved application stands on. *)
Standing(a) == {g \in Member : StandsBy(a, g)}

(* They are as many as the application requires. *)
Enough(a) == Cardinality(Standing(a)) >= application[a].required

(* What answers and approvals rely on: the answer that is about to be written
   is still awaited, or another session of the guarantor has given it. *)
Backing ==
  /\ \A s \in Session :
       /\ desk[s].op = "ANSWERING" =>
            guarantee[desk[s].target][UserOf[s]] = "PENDING" \/ Overlaps(UserOf[s])
       /\ desk[s].op = "APPROVING" => Enough(desk[s].target)
  /\ LoansBacked

(* Who stands by an application stays so, and what it requires does not
   change, once it has been submitted. *)
LEMMA StandingStays ==
  ASSUME Shape, Backing, [Next]_vars, NEW a \in Application, application[a].status # "ABSENT"
  PROVE  /\ application'[a].required = application[a].required
         /\ Standing(a) \subseteq Standing(a)'
<1>1. application \in [Application -> ApplicationRow] /\ guarantee \in [Application -> [Member -> Answers]]
  BY DEF Shape, TypeOK, BookTypeOK
<1>2. CASE UNCHANGED <<application, guarantee>>
  BY <1>2 DEF Standing, StandsBy
<1>3. ASSUME NEW s \in Session, NEW b \in Application, NEW amount, NEW term, NEW guarantors,
             Apply(s, b, amount, term, guarantors, CashBalance)
      PROVE  application'[a] = application[a] /\ guarantee'[a] = guarantee[a]
  <2>1. a # b
    BY <1>3 DEF Apply
  <2> QED
    BY <1>1, <1>3, <2>1 DEF Apply
<1>4. ASSUME NEW s \in Session, NEW accept \in BOOLEAN, RespondToGuarantee(s, accept)
      PROVE  application' = application /\ Standing(a) \subseteq Standing(a)'
  <2>1. /\ desk[s].op = "ANSWERING" /\ desk[s].target \in Application /\ UserOf[s] \in Member
        /\ application' = application
        /\ guarantee[desk[s].target][UserOf[s]] = "PENDING" \/ Overlaps(UserOf[s])
    BY <1>4, LoanAssumption DEF RespondToGuarantee, Shape, DesksSound, Backing
  <2>2. ASSUME NEW g \in Member, StandsBy(a, g) PROVE StandsBy(a, g)'
    <3>1. CASE a = desk[s].target /\ g = UserOf[s]
      <4>1. Overlaps(g)
        BY <2>1, <2>2, <3>1 DEF StandsBy
      <4>2. guarantee'[a][g] \in {"CONFIRMED", "DECLINED"}
        BY <1>1, <1>4, <2>1, <3>1 DEF RespondToGuarantee
      <4> QED
        BY <4>1, <4>2 DEF StandsBy
    <3>2. CASE ~(a = desk[s].target /\ g = UserOf[s])
      <4>1. guarantee'[a][g] = guarantee[a][g]
        BY <1>1, <1>4, <2>1, <2>2, <3>2 DEF RespondToGuarantee
      <4> QED
        BY <2>2, <4>1 DEF StandsBy
    <3> QED
      BY <3>1, <3>2
  <2> QED
    BY <2>1, <2>2 DEF Standing
<1>5. ASSUME NEW s \in Session, NEW amount, Disburse(s, amount, CashBalance)
      PROVE  application'[a].required = application[a].required /\ guarantee' = guarantee
  BY <1>1, <1>5 DEF Disburse, ApplicationRow
<1>6. ASSUME NEW s \in Session, RejectApplication(s)
      PROVE  application'[a].required = application[a].required /\ guarantee' = guarantee
  BY <1>1, <1>6 DEF RejectApplication, ApplicationRow
<1>7. ASSUME NEW s \in Session, LoanStep(s)
      PROVE  \/ UNCHANGED <<application, guarantee>>
             \/ \E b \in Application, amount \in LoanAmounts, term \in LoanTerms, guarantors \in SUBSET Member :
                  Apply(s, b, amount, term, guarantors, CashBalance)
             \/ \E accept \in BOOLEAN : RespondToGuarantee(s, accept)
             \/ \E amount \in LoanAmounts : Disburse(s, amount, CashBalance)
             \/ RejectApplication(s)
  BY <1>7 DEF LoanStep, Authorise, Abandon, CountMembers, SavePolicy, ReadGuarantee, ReadApplication,
     ReadForRejection, RecordRepayment, ReviewRepayment, bookVars
<1>8. ASSUME NEW s \in Session, ExpenseStep(s)
      PROVE  UNCHANGED <<application, guarantee>>
  BY <1>8 DEF ExpenseStep, ReadFunds, CheckAvailable, CreateExpense, ReadExpense, CheckCash,
     ReviewExpense, Keep, bookVars
<1>9. ASSUME NEW s \in Session, LoanStep(s)
      PROVE  /\ application'[a].required = application[a].required
             /\ Standing(a) \subseteq Standing(a)'
  BY <1>2, <1>3, <1>4, <1>5, <1>6, <1>7, <1>9 DEF Standing, StandsBy
<1> QED
  BY <1>2, <1>8, <1>9 DEF Next, vars, bookVars, UpdateMemberStatus, FallBehind, ApproveContribution, Contribute

(* So an application that has enough guarantors keeps them. *)
LEMMA EnoughStays ==
  ASSUME Shape, Shape', Backing, [Next]_vars, NEW a \in Application, application[a].status # "ABSENT",
         Enough(a)
  PROVE  Enough(a)'
<1>1. Standing(a) \subseteq Standing(a)' /\ application'[a].required = application[a].required
  BY StandingStays
<1>2. IsFiniteSet(Member) /\ Standing(a)' \in SUBSET Member
  BY LoanAssumption DEF Standing
<1>3. IsFiniteSet(Standing(a)')
  BY <1>2, FS_Subset
<1>4. /\ Cardinality(Standing(a)) <= Cardinality(Standing(a)')
      /\ Cardinality(Standing(a)) \in Nat /\ Cardinality(Standing(a)') \in Nat
  BY <1>1, <1>3, FS_Subset, FS_CardinalityType
<1>5. application[a].required \in Nat
  BY DEF Shape, TypeOK, BookTypeOK, ApplicationRow
<1> QED
  BY <1>1, <1>4, <1>5 DEF Enough

(* Guarantors who are active and have confirmed stand by the application. *)
LEMMA BackedIsEnough ==
  ASSUME Shape, NEW a \in Application, Backed(a)
  PROVE  Enough(a)
<1>1. /\ IsFiniteSet(Member) /\ Standing(a) \in SUBSET Member
      /\ Confirmed(a) \cap active \subseteq Standing(a)
  BY LoanAssumption DEF Confirmed, Standing, StandsBy
<1>2. IsFiniteSet(Standing(a))
  BY <1>1, FS_Subset
<1>3. /\ Cardinality(Confirmed(a) \cap active) <= Cardinality(Standing(a))
      /\ Cardinality(Confirmed(a) \cap active) \in Nat /\ Cardinality(Standing(a)) \in Nat
  BY <1>1, <1>2, FS_Subset, FS_CardinalityType
<1>4. application[a].required \in Nat
  BY DEF Shape, TypeOK, BookTypeOK, ApplicationRow
<1> QED
  BY <1>3, <1>4 DEF Backed, Enough

(* An answer that is awaited by a running request is awaited until that
   request, or another of the same guarantor, gives it. *)
LEMMA StillAwaited ==
  ASSUME Shape, Backing, [Next]_vars, NEW t \in Session,
         desk[t].op = "ANSWERING", desk'[t] = desk[t]
  PROVE  guarantee'[desk[t].target][UserOf[t]] = "PENDING" \/ Overlaps(UserOf[t])
<1> SUFFICES ASSUME ~Overlaps(UserOf[t])
             PROVE  guarantee'[desk[t].target][UserOf[t]] = "PENDING"
  OBVIOUS
<1> DEFINE a == desk[t].target
<1>1. /\ a \in Application /\ application[a].status # "ABSENT" /\ UserOf[t] \in Member
      /\ guarantee[a][UserOf[t]] = "PENDING"
  BY LoanAssumption DEF Shape, DesksSound, Backing
<1>2. /\ guarantee \in [Application -> [Member -> Answers]] /\ desk \in [Session -> Desk]
      /\ Idle.op = "NONE"
  BY DEF Shape, TypeOK, BookTypeOK, Idle
<1>3. ASSUME NEW s \in Session, NEW b \in Application, NEW amount, NEW term, NEW guarantors,
             Apply(s, b, amount, term, guarantors, CashBalance)
      PROVE  guarantee'[a] = guarantee[a]
  BY <1>1, <1>2, <1>3 DEF Apply
<1>4. ASSUME NEW s \in Session, NEW accept \in BOOLEAN, RespondToGuarantee(s, accept)
      PROVE  guarantee'[a][UserOf[t]] = guarantee[a][UserOf[t]]
  <2>1. s # t
    BY <1>2, <1>4 DEF RespondToGuarantee, Done
  <2>2. desk[s].op = "ANSWERING" /\ UserOf[s] \in Member /\ desk[s].target \in Application
    BY <1>4, LoanAssumption DEF RespondToGuarantee, Backing, Shape, DesksSound
  <2>3. UserOf[s] # UserOf[t]
    BY <2>1 DEF Overlaps
  <2> QED
    BY <1>1, <1>2, <1>4, <2>2, <2>3 DEF RespondToGuarantee
<1>5. ASSUME NEW s \in Session, LoanStep(s)
      PROVE  \/ UNCHANGED guarantee
             \/ \E b \in Application, amount \in LoanAmounts, term \in LoanTerms, guarantors \in SUBSET Member :
                  Apply(s, b, amount, term, guarantors, CashBalance)
             \/ \E accept \in BOOLEAN : RespondToGuarantee(s, accept)
  BY <1>5 DEF LoanStep, Authorise, Abandon, CountMembers, SavePolicy, ReadGuarantee, ReadApplication,
     Disburse, ReadForRejection, RejectApplication, RecordRepayment, ReviewRepayment, bookVars
<1>6. ASSUME NEW s \in Session, ExpenseStep(s)
      PROVE  UNCHANGED guarantee
  BY <1>6 DEF ExpenseStep, ReadFunds, CheckAvailable, CreateExpense, ReadExpense, CheckCash,
     ReviewExpense, Keep, bookVars
<1>7. ASSUME NEW s \in Session, LoanStep(s)
      PROVE  guarantee'[a][UserOf[t]] = guarantee[a][UserOf[t]]
  BY <1>3, <1>4, <1>5, <1>7
<1>8. guarantee'[a][UserOf[t]] = guarantee[a][UserOf[t]]
  BY <1>6, <1>7 DEF Next, vars, bookVars, UpdateMemberStatus, FallBehind, ApproveContribution, Contribute
<1> QED
  BY <1>1, <1>8

(* A loan that a step has made was on the desk of an approval. *)
LEMMA NewLoansBacked ==
  ASSUME Shape, Backing, [Next]_vars, NEW a \in Application, loan'[a].status # "ABSENT"
  PROVE  (application[a].status # "ABSENT" /\ Enough(a)) \/ loan[a].status # "ABSENT"
<1>1. loan \in [Application -> LoanRow]
  BY DEF Shape, TypeOK, BookTypeOK
<1>2. CASE UNCHANGED loan
  BY <1>2
<1>3. ASSUME NEW s \in Session, NEW amount, Disburse(s, amount, CashBalance)
      PROVE  (application[a].status # "ABSENT" /\ Enough(a)) \/ loan[a].status # "ABSENT"
  <2>1. desk[s].op = "APPROVING" /\ desk[s].target \in Application
        /\ application[desk[s].target].status # "ABSENT"
    BY <1>3 DEF Disburse, Shape, DesksSound
  <2>2. CASE a = desk[s].target
    BY <2>1, <2>2 DEF Backing
  <2>3. CASE a # desk[s].target
    <3>1. loan'[a] = loan[a]
      BY <1>1, <1>3, <2>3 DEF Disburse
    <3> QED
      BY <3>1
  <2> QED
    BY <2>2, <2>3
<1>4. ASSUME NEW s \in Session, NEW r \in Repayment, NEW approve \in BOOLEAN, ReviewRepayment(s, r, approve),
             UNCHANGED fundsVars
      PROVE  loan[a].status # "ABSENT"
  <2>1. PICK b \in Application :
          /\ \A c \in Application \ {b} : loan'[c] = loan[c]
          /\ loan'[b] = IF approve THEN Credited(loan[b], repayment[r].amount) ELSE loan[b]
          /\ approve => loan[b].status = "ACTIVE"
    BY <1>4, ShapeOfReview
  <2> QED
    BY <2>1
<1> QED
  BY <1>2, <1>3, <1>4, StepsOfTheBook DEF Applies, Apply, Disburses, Rejects, RejectApplication, Records,
     RecordRepayment, Reviews

(* Every step keeps what answers and approvals rely on. *)
LEMMA BackingStep ==
  ASSUME Shape, Shape', Books, Backing, [Next]_vars
  PROVE  Backing'
<1>1. LoansBacked'
  <2> SUFFICES ASSUME NEW a \in Application, loan'[a].status # "ABSENT"
               PROVE  Enough(a)'
    BY DEF LoansBacked, Enough, Standing
  <2>1. application[a].status # "ABSENT" /\ Enough(a)
    <3>1. loan[a].status # "ABSENT" => application[a].status # "ABSENT" /\ Enough(a)
      BY DEF Backing, LoansBacked, Enough, Standing, Books, LoansMatchApplications
    <3> QED
      BY <3>1, NewLoansBacked
  <2> QED
    BY <2>1, EnoughStays
<1>2. ASSUME NEW t \in Session
      PROVE  /\ desk'[t].op = "ANSWERING" =>
                  guarantee'[desk'[t].target][UserOf[t]] = "PENDING" \/ Overlaps(UserOf[t])
             /\ desk'[t].op = "APPROVING" => Enough(desk[t].target)'
  <2>1. CASE desk'[t] = desk[t]
    <3>1. desk'[t].op = "ANSWERING" =>
            guarantee'[desk'[t].target][UserOf[t]] = "PENDING" \/ Overlaps(UserOf[t])
      BY <2>1, StillAwaited
    <3>2. ASSUME desk'[t].op = "APPROVING" PROVE Enough(desk[t].target)'
      <4>1. PICK a \in Application : a = desk[t].target /\ application[a].status # "ABSENT" /\ Enough(a)
        BY <2>1, <3>2 DEF Shape, DesksSound, Backing
      <4>2. Enough(a)'
        BY <4>1, EnoughStays
      <4>3. a = desk'[t].target
        BY <2>1, <4>1
      <4> QED
        BY <4>2, <4>3 DEF Enough, Standing, StandsBy
    <3> QED
      BY <3>1, <3>2
  <2>2. CASE LoanStep(t)
    <3>1. CASE desk'[t] = Idle
      BY <3>1 DEF Idle
    <3>2. CASE \E op \in Handlers : <<t, op>> \in Calls /\ desk'[t].op = op
      BY <3>2 DEF Handlers
    <3>3. ASSUME NEW a \in Application, ReadGuarantee(t, a), desk'[t].op = "ANSWERING", desk'[t].target = a
          PROVE  guarantee'[a][UserOf[t]] = "PENDING"
      BY <3>3 DEF ReadGuarantee, AwaitsAnswer, bookVars
    <3>4. ASSUME NEW a \in Application, ReadApplication(t, a), desk'[t].op = "APPROVING", desk'[t].target = a
          PROVE  Enough(desk[t].target)'
      <4>1. application[a].status # "ABSENT" /\ Enough(a)
        BY <3>4, BackedIsEnough DEF ReadApplication
      <4>2. Enough(a)'
        BY <4>1, EnoughStays
      <4> QED
        BY <3>4, <4>2 DEF Enough, Standing, StandsBy
    <3> QED
      BY <2>2, <3>1, <3>2, <3>3, <3>4, DeskOfLoans
  <2>3. CASE ExpenseStep(t)
    BY <2>3, DeskOfExpenses
  <2> QED
    BY <2>1, <2>2, <2>3, DeskOfOthers
<1> QED
  BY <1>1, <1>2 DEF Backing

(* A loan stands on as many guarantees as its application required, for any
   group and any number of sessions: nobody who is silent is counted, and
   nobody takes an answer back except by a second one that ran at the same
   time. *)
THEOREM LoansStandOnGuarantees == Spec => []LoansBacked
<1>1. Init => Backing
  BY DEF Init, BookInit, Backing, LoansBacked, Idle, AbsentLoan
<1>2. Shape /\ Shape' /\ Books /\ Backing /\ [Next]_vars => Backing'
  BY BackingStep
<1>3. Backing => LoansBacked
  BY DEF Backing
<1> QED
  BY <1>1, <1>2, <1>3, ShapeInvariant, BooksInvariant, PTL DEF Spec

-----------------------------------------------------------------------------
(* The loan book as a lender. *)

(* A group without loans is a lender without debtors. *)
LEMMA PromiseInit == Init => Promise!Init
<1> SUFFICES ASSUME Init
             PROVE  Promise!Init
  OBVIOUS
<1>1. \A a \in Application : /\ AnswerTo(a) = "OPEN"
                             /\ loan[a].payable = 0 /\ loan[a].paid = 0
  BY DEF Init, BookInit, AnswerTo, AbsentApplication, AbsentLoan
<1> QED
  BY <1>1 DEF Promise!Init

(* What leaves answers, debts and payments alone is invisible to the lender. *)
LEMMA PromiseKept ==
  ASSUME \A a \in Application : /\ AnswerTo(a)' = AnswerTo(a)
                                /\ loan'[a].payable = loan[a].payable
                                /\ loan'[a].paid = loan[a].paid
  PROVE  UNCHANGED Promise!promise
  BY DEF Promise!promise

(* Disbursing is lending what the loan costs. *)
LEMMA PromiseOfDisburse ==
  ASSUME Shape, Books, NEW s \in Session, NEW amount \in LoanAmounts,
         Disburse(s, amount, CashBalance), UNCHANGED fundsVars
  PROVE  Promise!Next
<1>1. PICK a \in Application :
        /\ application[a].status = "SUBMITTED"
        /\ application'[a] = DecidedRow(a, s, "DISBURSED")
        /\ \A b \in Application \ {a} : application'[b] = application[b] /\ loan'[b] = loan[b]
        /\ loan'[a] = [status |-> "ACTIVE", principal |-> amount,
                       payable |-> Charged(a, amount), paid |-> 0]
  BY ShapeOfDisburse
<1>2. application[a] \in ApplicationRow
  BY DEF Shape, TypeOK, BookTypeOK
<1>3. loan[a] = AbsentLoan
  BY <1>1 DEF Books, LoansMatchApplications, Shape, RowsSound
<1>4. AnswerTo(a) = "OPEN" /\ AnswerTo(a)' = "LENT"
  BY <1>1, <1>2 DEF AnswerTo, DecidedRow, ApplicationRow
<1>5. \A b \in Application \ {a} : AnswerTo(b)' = AnswerTo(b)
  BY <1>1 DEF AnswerTo
<1>6. loan'[a].payable = Charged(a, amount) /\ loan'[a].paid = 0 /\ loan[a].paid = 0
  BY <1>1, <1>3 DEF AbsentLoan
<1>7. loan'[a].payable > 0
  <2>1. /\ amount \in Nat /\ amount > 0
        /\ application[a].term \in Nat /\ application[a].rate \in Nat
        /\ application[a].fee \in Nat
    BY <1>2, LoanAssumption DEF Minor, ApplicationRow
  <2>2. /\ Charged(a, amount) \in Nat
        /\ Charged(a, amount) >= amount
    BY <2>1, PayableCoversPrincipal DEF Charged
  <2> QED
    BY <1>6, <2>1, <2>2
<1>8. [b \in Application |-> loan[b].payable]'[a] = loan'[a].payable
  OBVIOUS
<1>9. Promise!Lend(a, [b \in Application |-> loan[b].payable]'[a])
  BY <1>1, <1>4, <1>5, <1>6, <1>7, <1>8 DEF Promise!Lend
<1> QED
  BY <1>9 DEF Promise!Next, Promise!Lend

(* Rejecting is refusing. *)
LEMMA PromiseOfReject ==
  ASSUME Shape, NEW s \in Session, RejectApplication(s), UNCHANGED fundsVars
  PROVE  Promise!Next
<1>1. PICK a \in Application :
        /\ application[a].status = "SUBMITTED"
        /\ application'[a] = DecidedRow(a, s, "REJECTED")
        /\ \A b \in Application \ {a} : application'[b] = application[b]
  BY ShapeOfReject
<1>2. application[a] \in ApplicationRow
  BY DEF Shape, TypeOK, BookTypeOK
<1>3. AnswerTo(a) = "OPEN" /\ AnswerTo(a)' = "REFUSED"
  BY <1>1, <1>2 DEF AnswerTo, DecidedRow, ApplicationRow
<1>4. \A b \in Application \ {a} : AnswerTo(b)' = AnswerTo(b)
  BY <1>1 DEF AnswerTo
<1>5. UNCHANGED loan
  BY DEF RejectApplication
<1>6. Promise!Refuse(a)
  BY <1>3, <1>4, <1>5 DEF Promise!Refuse
<1> QED
  BY <1>6 DEF Promise!Next

(* Approving a repayment is paying back; rejecting one changes nothing. *)
LEMMA PromiseOfReview ==
  ASSUME Shape, Books, NEW s \in Session, NEW r \in Repayment, NEW approve \in BOOLEAN,
         ReviewRepayment(s, r, approve), UNCHANGED fundsVars
  PROVE  Promise!Next \/ UNCHANGED Promise!promise
<1>0. repayment[r].loan \in Application /\ repayment[r].amount \in Minor
  BY ShapeOfReview DEF Shape, TypeOK, BookTypeOK, RepaymentRow
<1> PICK a \in Application, x \in Minor : a = repayment[r].loan /\ x = repayment[r].amount
  BY <1>0
<1>1. /\ UNCHANGED application
      /\ repayment[r].status = "SUBMITTED"
      /\ \A b \in Application \ {a} : loan'[b] = loan[b]
      /\ loan'[a] = IF approve THEN Credited(loan[a], x) ELSE loan[a]
      /\ approve => loan[a].status = "ACTIVE" /\ x <= loan[a].payable - loan[a].paid
  BY ShapeOfReview
<1>2. \A b \in Application : AnswerTo(b)' = AnswerTo(b)
  BY <1>1 DEF AnswerTo
<1>3. CASE ~approve
  BY <1>1, <1>2, <1>3, PromiseKept
<1>4. CASE approve
  <2>1. loan[a] \in LoanRow
    BY DEF Shape, TypeOK, BookTypeOK
  <2>2. loan[a].paid \in Nat /\ loan[a].payable \in Nat /\ x \in Nat /\ x > 0
    BY <1>1, <2>1 DEF LoanRow, Minor, Shape, RowsSound
  <2>3. loan'[a].paid = loan[a].paid + x /\ loan'[a].payable = loan[a].payable
    BY <1>1, <1>4, <2>1 DEF Credited, LoanRow
  <2>4. AnswerTo(a) = "LENT"
    BY <1>1, <1>4 DEF AnswerTo, Books, LoansMatchApplications
  <2>5. [b \in Application |-> loan[b].paid]'[a] - [b \in Application |-> loan[b].paid][a] = x
    BY <2>2, <2>3
  <2>6. loan[a].paid + x <= loan[a].payable
    BY <1>1, <1>4, <2>2
  <2>7. Promise!PayBack(a, [b \in Application |-> loan[b].paid]'[a]
                             - [b \in Application |-> loan[b].paid][a])
    BY <1>1, <1>2, <2>2, <2>3, <2>4, <2>5, <2>6 DEF Promise!PayBack
  <2> QED
    BY <2>7 DEF Promise!Next, Promise!PayBack
<1> QED
  BY <1>3, <1>4

(* Every step is one of the lender's, or invisible to it. *)
LEMMA PromiseStep ==
  Shape /\ Books /\ [Next]_vars => [Promise!Next]_(Promise!promise)
<1> SUFFICES ASSUME Shape, Books, [Next]_vars
             PROVE  Promise!Next \/ UNCHANGED Promise!promise
  OBVIOUS
<1>1. ASSUME UNCHANGED <<application, loan>>
      PROVE  UNCHANGED Promise!promise
  BY <1>1, PromiseKept DEF AnswerTo
<1>2. CASE Applies
  <2>1. PICK s \in Session, a \in Application, amount \in LoanAmounts, term \in LoanTerms,
             guarantors \in SUBSET Member :
               Apply(s, a, amount, term, guarantors, CashBalance) /\ UNCHANGED fundsVars
    BY <1>2 DEF Applies
  <2>2. /\ application[a].status = "ABSENT" /\ application'[a].status = "SUBMITTED"
        /\ \A b \in Application \ {a} : application'[b] = application[b]
    BY <2>1, ShapeOfApply
  <2>3. \A b \in Application : AnswerTo(b)' = AnswerTo(b)
    BY <2>2 DEF AnswerTo
  <2>4. UNCHANGED loan
    BY <2>1 DEF Apply
  <2> QED
    BY <2>3, <2>4, PromiseKept
<1>3. CASE Records
  BY <1>1, <1>3 DEF Records, RecordRepayment
<1> QED
  BY <1>1, <1>2, <1>3, StepsOfTheBook, PromiseOfDisburse, PromiseOfReject, PromiseOfReview
     DEF Disburses, Rejects, Reviews

(* The loan book implements the lender: each request is answered once, and no
   debt is overpaid. *)
THEOREM BookImplementsPromise == Spec => ImplementsPromise
<1> QED
  BY PromiseInit, PromiseStep, ShapeInvariant, BooksInvariant, PTL
     DEF Spec, ImplementsPromise, Promise!Spec

=============================================================================

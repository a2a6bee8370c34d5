------------------------------ MODULE GroupFunds ------------------------------
(***************************************************************************)
(* The money of one group: what members contributed, what is lent          *)
(* (LoanBook) and what is spent.  No row stores the cash of the group:     *)
(* groupCashPosition computes it from the rows each time it is needed.     *)
(* Loans do so in Serializable transactions, expenses in READ COMMITTED    *)
(* ones, where each query of the computation sees what is committed when   *)
(* it runs.                                                                *)
(***************************************************************************)
EXTENDS LoanBook

CONSTANTS
  SpendAmounts,   \* amounts of expenses
  Deposits,       \* amounts of approved contributions
  MaxCollected    \* bound on what is collected in a run

ASSUME FundsAssumption ==
  /\ SpendAmounts \subseteq Minor \ {0}
  /\ Deposits \subseteq Minor \ {0}
  /\ MaxCollected \in Nat

VARIABLES
  collected,   \* sum of the APPROVED contribution payments
  expense      \* GroupExpense rows

fundsVars == <<collected, expense>>
vars == <<bookVars, desk, fundsVars>>

ExpenseRow == [status : {"ABSENT", "SUBMITTED", "APPROVED", "REJECTED"}, amount : Minor]

TypeOK ==
  /\ BookTypeOK
  /\ collected \in Nat
  /\ expense \in [Expense -> ExpenseRow]

Init ==
  /\ BookInit
  /\ collected = 0
  /\ expense = [e \in Expense |-> [status |-> "ABSENT", amount |-> 0]]

-----------------------------------------------------------------------------
(* groupCashPosition. *)

Expenses(status) == {e \in Expense : expense[e].status = status}
Spent(status) == Total(Expenses(status), [e \in Expense |-> expense[e].amount])

ActiveLoans == {a \in Application : loan[a].status = "ACTIVE"}
LentOut == AtLeastZero(Total(ActiveLoans, [a \in Application |-> loan[a].principal])
                       - Total(ActiveLoans, [a \in Application |-> loan[a].paid]))

CashBalance == AtLeastZero(collected - Spent("APPROVED") - LentOut)

-----------------------------------------------------------------------------
(* Expenses. *)

Keep == UNCHANGED bookVars /\ UNCHANGED fundsVars

(* The first queries: contributions and approved expenses. *)
ReadFunds(s, from, to) ==
  /\ desk[s].op = from
  /\ desk' = [desk EXCEPT ![s].op = to, ![s].seen = collected - Spent("APPROVED")]
  /\ Keep

(* Mutation: expenses that wait for an admin reserve nothing. *)
AvailableUnreserved(s) == AtLeastZero(desk[s].seen - LentOut)

(* What the remaining queries leave for a new expense. *)
Available(s) == AtLeastZero(desk[s].seen - LentOut - Spent("SUBMITTED"))

CheckAvailable(s, amount) ==
  /\ desk[s].op = "COUNTING"
  /\ amount <= Available(s)
  /\ desk' = [desk EXCEPT ![s].op = "SPENDING", ![s].amount = amount]
  /\ Keep

CreateExpense(s, e) ==
  /\ desk[s].op = "SPENDING"
  /\ expense[e].status = "ABSENT"
  /\ expense' = [expense EXCEPT ![e] = [status |-> "SUBMITTED", amount |-> desk[s].amount]]
  /\ Done(s)
  /\ UNCHANGED bookVars /\ UNCHANGED collected

ReadExpense(s, e, approve) ==
  /\ desk[s].op = "JUDGE"
  /\ expense[e].status = "SUBMITTED"
  /\ desk' = [desk EXCEPT ![s].op = IF approve THEN "WEIGHING" ELSE "DENYING",
                          ![s].target = e, ![s].amount = expense[e].amount]
  /\ Keep

Covers(s) == desk[s].amount <= AtLeastZero(desk[s].seen - LentOut)

CheckCash(s) ==
  /\ desk[s].op = "WEIGHED"
  /\ Covers(s)
  /\ desk' = [desk EXCEPT ![s].op = "ALLOWING"]
  /\ Keep

ReviewExpense(s) ==
  /\ desk[s].op \in {"ALLOWING", "DENYING"}
  /\ expense' = [expense EXCEPT ![desk[s].target].status =
                   IF desk[s].op = "ALLOWING" THEN "APPROVED" ELSE "REJECTED"]
  /\ Done(s)
  /\ UNCHANGED bookVars /\ UNCHANGED collected

-----------------------------------------------------------------------------
(* Contributions are approved by the contribution ledger. *)

ApproveContribution(m, amount, eligible, settled) ==
  /\ collected + amount <= MaxCollected
  /\ collected' = collected + amount
  /\ Contribute(m, IF eligible THEN amount ELSE 0)
  /\ arrears' = IF settled THEN arrears \ {m} ELSE arrears
  /\ UNCHANGED expense

ExpenseStep(s) ==
  \/ ReadFunds(s, "SPEND", "COUNTING")
  \/ ReadFunds(s, "WEIGHING", "WEIGHED")
  \/ \E amount \in SpendAmounts : CheckAvailable(s, amount)
  \/ \E e \in Expense : CreateExpense(s, e)
  \/ \E e \in Expense, approve \in BOOLEAN : ReadExpense(s, e, approve)
  \/ CheckCash(s)
  \/ ReviewExpense(s)

LoanStep(s) ==
  \/ \E op \in Handlers : Authorise(s, op)
  \/ Abandon(s)
  \/ CountMembers(s)
  \/ \E p \in Policies : SavePolicy(s, p)
  \/ \E a \in Application, amount \in LoanAmounts, term \in LoanTerms,
        guarantors \in SUBSET Member \ {{}} :
        Apply(s, a, amount, term, guarantors, CashBalance)
  \/ \E a \in Application : ReadGuarantee(s, a)
  \/ \E accept \in BOOLEAN : RespondToGuarantee(s, accept)
  \/ \E a \in Application : ReadApplication(s, a)
  \/ \E amount \in LoanAmounts : Disburse(s, amount, CashBalance)
  \/ \E a \in Application : ReadForRejection(s, a)
  \/ RejectApplication(s)
  \/ \E r \in Repayment, a \in Application, amount \in RepayAmounts :
        RecordRepayment(s, r, a, amount)
  \/ \E r \in Repayment, approve \in BOOLEAN : ReviewRepayment(s, r, approve)

Next ==
  \/ \E s \in Session : LoanStep(s) /\ UNCHANGED fundsVars
  \/ \E s \in Session : ExpenseStep(s)
  \/ \E m \in Member : UpdateMemberStatus(m) /\ UNCHANGED fundsVars
  \/ \E m \in Member : FallBehind(m) /\ UNCHANGED fundsVars
  \/ \E m \in Member, amount \in Deposits, eligible \in BOOLEAN, settled \in BOOLEAN :
        ApproveContribution(m, amount, eligible, settled)

Spec == Init /\ [][Next]_vars

-----------------------------------------------------------------------------
(* What the funds keep true. *)

(* createExpense and reviewExpense check before they write, in transactions
   that do not see each other, so expenses can exceed what was collected.  But
   each session that spends can add no more than all of the cash to what the
   others see: what is approved or waits, through however many rounds of
   stale reads, repeated reviews and new contributions, stays within the cash
   collected times the number of these sessions. *)
Spenders == {s \in Session : <<s, "SPEND">> \in Calls \/ <<s, "JUDGE">> \in Calls}

OverspendBounded ==
  Spent("APPROVED") + Spent("SUBMITTED") <= collected * Cardinality(Spenders)

AnswerTo(a) == CASE application[a].status = "DISBURSED" -> "LENT"
                 [] application[a].status = "REJECTED" -> "REFUSED"
                 [] OTHER -> "OPEN"

(* The loan book as a lender that answers each request once and is never paid
   back more than it is owed. *)
Promise == INSTANCE LoanPromise WITH
  Wish <- Application,
  answer <- [a \in Application |-> AnswerTo(a)],
  owed <- [a \in Application |-> loan[a].payable],
  paid <- [a \in Application |-> loan[a].paid]

ImplementsPromise == Promise!Spec

=============================================================================

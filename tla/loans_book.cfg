\* One application, two repayments, a borrower and two officers who guarantee.
SPECIFICATION Spec
CONSTANTS
  ann = ann
  tre = tre
  adm = adm
  s1 = s1
  s2 = s2
  s3 = s3
  s4 = s4
  None = None
  MaxMinor = 4
  Member = {ann, tre, adm}
  Session = {s1, s2, s3}
  UserOf <- BorrowerAndTwoOfficers
  RoleOf <- AllRoles
  Application = {a1}
  Repayment = {r1, r2}
  Expense = {e1}
  Calls <- LoanCalls
  InitialPolicy <- Plain
  Policies <- PlainOnly
  LoanAmounts = {1, 2}
  LoanTerms = {1}
  RepayAmounts = {1, 2}
  Suspendable = {}
  Defaulters = {}
  SpendAmounts = {1}
  Deposits = {2}
  MaxCollected = 2
SYMMETRY Rows
INVARIANTS
  LoansMatchApplications
  RepaymentsAddUp
  RepaymentsCovered
  NobodyDecidesTheirOwn
PROPERTIES
  ImplementsPromise

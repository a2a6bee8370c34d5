\* Two officers record expenses, one reviews them, next to a borrower's loan.
SPECIFICATION Spec
CONSTANTS
  ann = ann
  tre = tre
  adm = adm
  s1 = s1
  s2 = s2
  s3 = s3
  s4 = s4
  None = None
  MaxMinor = 2
  Member = {ann, tre, adm}
  Session = {s1, s2, s3, s4}
  UserOf <- TreasurerTwice
  RoleOf <- AllRoles
  Application = {a1}
  Repayment = {r1}
  Expense = {e1, e2, e3}
  Calls <- ExpenseCalls
  InitialPolicy <- Plain
  Policies <- PlainOnly
  LoanAmounts = {1}
  LoanTerms = {1}
  RepayAmounts = {1}
  Suspendable = {}
  Defaulters = {}
  SpendAmounts = {1, 2}
  Deposits = {2}
  MaxCollected = 2
SYMMETRY Rows
INVARIANTS
  LoansBacked
  OverspendBounded

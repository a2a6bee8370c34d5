\* One borrower with two applications; policies and a guarantor's membership change.
SPECIFICATION Spec
CONSTANTS
  ann = ann
  tre = tre
  adm = adm
  s1 = s1
  s2 = s2
  s3 = s3
  s4 = s4
  None = None
  MaxMinor = 4
  Member = {ann, tre, adm}
  Session = {s1, s2, s3}
  UserOf <- BorrowerAndTwoOfficers
  RoleOf <- AllRoles
  Application = {a1, a2}
  Repayment = {r1}
  Expense = {}
  Calls <- PolicyCalls
  InitialPolicy <- Plain
  Policies <- PlainAndDearer
  LoanAmounts = {1, 2}
  LoanTerms = {1}
  RepayAmounts = {1}
  Suspendable = {tre}
  Defaulters = {ann}
  SpendAmounts = {1}
  Deposits = {1}
  MaxCollected = 2
SYMMETRY Rows
INVARIANTS
  TypeOK
  LoansMatchApplications
  LentWithinSavings

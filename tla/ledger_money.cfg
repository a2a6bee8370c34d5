\* Two dues of one member, two payments, an admin and a treasurer who both review.
SPECIFICATION Spec
CONSTANTS
  ann = ann
  tre = tre
  adm = adm
  d1 = d1
  d2 = d2
  p1 = p1
  p2 = p2
  r1 = r1
  None = None
  MaxMinor = 3
  Member = {ann, adm, tre}
  Due = {d1, d2}
  Payment = {p1, p2}
  DueOwner <- OneOwner
  DueDate <- TwoDates
  InitialPlan <- PlanOf2
  Prices = {}
  Amounts = {1, 3}
  Rules <- PartialOnly
  PenaltyAmount = 1
  GraceDays = 0
  MaxTime = 1
  InitialRole <- MemberAndOfficers
  Assignable <- TreasurerBecomesSecretary
  ReviewOps = {"APPROVE", "REJECT", "CORRECT"}
  Runner = {}
  RunnerCalls <- NoCalls
SYMMETRY Payments
INVARIANTS
  NoOverpayment
  LedgerBalanced
  PaymentsFullyAllocated
  StatusTellsBalance
  ReceiptsCertifyApprovals
PROPERTIES
  DecisionsAreFinal
  ImplementsAccount

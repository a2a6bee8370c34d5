\* A treasurer who owes a due is relieved and appointed again while they review.
SPECIFICATION Spec
CONSTANTS
  ann = ann
  tre = tre
  adm = adm
  d1 = d1
  d2 = d2
  p1 = p1
  p2 = p2
  r1 = r1
  None = None
  MaxMinor = 1
  Member = {tre, adm}
  Due = {d1}
  Payment = {p1}
  DueOwner <- TreasurerOwes
  DueDate <- OneDate
  InitialPlan <- PlanOf1
  Prices = {}
  Amounts = {1}
  Rules <- NoRules
  PenaltyAmount = 1
  GraceDays = 0
  MaxTime = 1
  InitialRole <- TreasurerAndAdmin
  Assignable <- TreasurerSteps
  ReviewOps = {"APPROVE"}
  Runner = {}
  RunnerCalls <- NoCalls
PROPERTIES
  TreasurerNeverApprovesOwnPayment

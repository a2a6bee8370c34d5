\* Passes of the schedule, statement by statement, between payments and saves of prices, cycles and rules.
SPECIFICATION Spec
CONSTANTS
  ann = ann
  tre = tre
  adm = adm
  d1 = d1
  d2 = d2
  p1 = p1
  p2 = p2
  r1 = r1
  None = None
  MaxMinor = 2
  Member = {ann, adm}
  Due = {d1}
  Payment = {p1}
  DueOwner <- AnnOwes
  DueDate <- OneDate
  InitialPlan <- PlanOf1
  Prices = {0, 2}
  Amounts = {1}
  Rules <- PenaltyRules
  PenaltyAmount = 1
  GraceDays = 0
  MaxTime = 2
  InitialRole <- AnnAndAdmin
  Assignable <- NoAssignments
  ReviewOps = {"APPROVE"}
  Runner = {r1}
  RunnerCalls <- AllCalls
PROPERTIES
  PenaltiesAreProspective
  DuesWithMoneyAreKept

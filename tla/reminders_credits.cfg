\* Three texts of two channels share two packages, one of which serves both.
SPECIFICATION Spec
CONSTANTS
  s1 = s1
  m2 = m2
  m3 = m3
  m1 = m1
  o1 = o1
  g1 = g1
  g2 = g2
  w1 = w1
  w2 = w2
  Nobody = Nobody
  MaxMinor = 2
  Key = {m1, m2, m3}
  Scheduled = {}
  DayOf <- NoDays
  DueOf <- NoDays
  Owing = {}
  Cost <- ManualCosts
  Channel <- ManualChannels
  Package = {g1, g2}
  Quantity <- Quantities
  Sold <- SmsAndBoth
  Dispatch <- TwoDispatches
  Server = {}
  Worker = {w1, w2}
  MaxAttempts = 1
  MaxStalls = 0
  LastDay = 0
  Faults = {"ABORT", "LOST_ANSWER", "CRASH", "RESTATUS"}
SYMMETRY Workers
INVARIANTS
  NeverOverdrawn
  CreditsAccounted
PROPERTIES
  ImplementsPromise

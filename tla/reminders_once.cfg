\* One scheduled text, two workers, two days, and everything that can go wrong.
SPECIFICATION FairSpec
CONSTANTS
  s1 = s1
  m2 = m2
  m3 = m3
  m1 = m1
  o1 = o1
  g1 = g1
  g2 = g2
  w1 = w1
  w2 = w2
  Nobody = Nobody
  MaxMinor = 2
  Key = {s1}
  Scheduled <- OneScheduled
  DayOf <- Today
  DueOf <- OneDue
  Owing = {o1}
  Cost <- Costs
  Channel <- SmsOnly
  Package = {g1}
  Quantity <- OnePackage
  Sold <- Sms
  Dispatch <- NoDispatch
  Server = {v1}
  Worker = {w1, w2}
  MaxAttempts = 2
  MaxStalls = 1
  LastDay = 1
  Faults <- AnyFault
INVARIANTS
  TextedAtMostOnce
  RecordsAreHonest
PROPERTIES
  JobsEnd

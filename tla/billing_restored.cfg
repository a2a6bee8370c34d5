\* One order, of a paid plan or of a package, and its webhooks, pages and requests.
SPECIFICATION FairSpec
CONSTANTS
  h1 = h1
  h2 = h2
  k1 = k1
  None = None
  MaxOrders = 1
  Product = {p1, k1}
  OwnEventIds = FALSE
  Unnamed = TRUE
  Plan = {p1}
  Starter = st
  UsedStarter = FALSE
  Handler = {h1, h2}
  Calls <- TwoCalls
  Interval = 1
  ProviderYear = 2
  Trial = 1
  MaxTime = 1
  Item = {k1}
  PackageOf <- OnePackage
  DefaultOf <- OneDefault
  MaxRows = 2
  MaxLost = 1
PROPERTIES
  ImplementsSalesBook
  AccessFollowsPayment
  PaidAccessIsRestored
  PaidPackagesAreCredited

\* One contact, two codes, one session, two calls at a time.
SPECIFICATION FairSpec
CONSTANTS
  h1 = h1
  h2 = h2
  None = None
  Kinds = {"EMAIL", "PHONE"}
  Limit = 2
  Challenge = {c1, c2}
  ResetToken = {r1}
  Token = {t1}
  Handler = {h1, h2}
  Calls <- TwoHands
INVARIANTS
  AttemptsBounded
  SessionsNeedVerification
PROPERTIES
  AccountsGetVerified

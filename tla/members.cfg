\* A founder and another person, who is invited as an officer; two rows and two
\* invitations besides the founder's.
SPECIFICATION Spec
CONSTANTS
  h1 = h1
  h2 = h2
  ann = ann
  ben = ben
  mail = mail
  None = None
  User = {ann, ben}
  Founder = ann
  Contact = {mail}
  Verified <- OneContact
  InvitedRoles = {"TREASURER"}
  GrantedRoles = {"GROUP_ADMIN", "TREASURER"}
  AskedNumbers = {3}
  Validity = 1
  MaxMembers = 3
  MaxInvitations = 2
  MaxRequests = 1
  MaxTime = 1
  MaxLost = 1
  Handler = {h1, h2}
  Calls <- TwoHands
INVARIANTS
  NumbersUnique
  MembersMatchInvitations
  RemovalSticks
  UndeliveredAreCleanedUp
PROPERTIES
  AdminsKeepAccess
  CancelledDeletionsRest
CHECK_DEADLOCK FALSE

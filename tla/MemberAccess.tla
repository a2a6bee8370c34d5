------------------------------ MODULE MemberAccess ------------------------------
(***************************************************************************)
(* Who belongs to one group: members added by an admin and told by text or *)
(* e-mail, open invitations, acceptance, roles, suspension and removal,    *)
(* and the requests to delete the group                                    *)
(* (apps/api/src/groups/groups.service.ts, admin/admin.service.ts).        *)
(*                                                                         *)
(* A call is cut where it awaits the database.  A transaction's writes are *)
(* one step, its commit; what it has read before is kept in `hand'.  The   *)
(* advisory lock on the group is held between the reading of the numbers   *)
(* and that commit.  The dates of one transaction fall on one tick.        *)
(***************************************************************************)
EXTENDS Naturals, FiniteSets

CONSTANTS
  User, Founder,   \* the group is created, and its bills are paid, by the founder
  Contact,         \* phone numbers and e-mail addresses
  Verified,        \* [User -> the contacts the user has verified]
  InvitedRoles,    \* the roles that people are added and invited with
  GrantedRoles,    \* the roles that members are given
  AskedNumbers,    \* the member numbers that admins ask for
  None,            \* no user, contact or date
  Validity,        \* an invitation's days
  MaxMembers, MaxInvitations, MaxRequests, MaxTime, MaxLost,  \* bounds
  Handler,         \* calls in progress
  Calls            \* pairs of a handler and a name: the calls each may make

Member == 1 .. MaxMembers
Invitation == 1 .. MaxInvitations
Request == 1 .. MaxRequests
Roles == {"GROUP_ADMIN", "TREASURER", "SECRETARY", "MEMBER"}
Statuses == {"INVITED", "ACTIVE", "SUSPENDED", "REMOVED"}

ASSUME MemberAssumption ==
  /\ Founder \in User
  /\ Verified \in [User -> SUBSET Contact]
  /\ InvitedRoles \subseteq Roles /\ GrantedRoles \subseteq Roles
  /\ AskedNumbers \subseteq Nat \ {0}
  /\ None \notin User \cup Contact \cup Nat
  /\ Validity \in Nat /\ MaxTime \in Nat /\ MaxLost \in Nat
  /\ MaxMembers \in Nat \ {0} /\ MaxInvitations \in Nat /\ MaxRequests \in Nat
  /\ IsFiniteSet(Handler)

VARIABLES
  now,         \* the date
  group,       \* "OPEN" or "DELETED"
  member,      \* GroupMember rows, numbered as they are created
  invitation,  \* GroupInvitation rows, likewise
  request,     \* GroupDeletionRequest rows, likewise
  lost,        \* calls that were lost between two transactions
  hand         \* what each call has read and is about to do

vars == <<now, group, member, invitation, request, lost, hand>>

NoMember == [status |-> "ABSENT", role |-> "MEMBER", user |-> None, contact |-> None,
             number |-> 0, joined |-> None, left |-> None]
NoInvitation == [state |-> "ABSENT", member |-> 0, role |-> "MEMBER", expires |-> 0,
                 accepted |-> FALSE, told |-> FALSE]
NoRequest == [status |-> "ABSENT", by |-> None, approver |-> None]
Gone == [NoMember EXCEPT !.status = "GONE"]
Withdrawn == [NoInvitation EXCEPT !.state = "GONE"]
Idle == [at |-> "IDLE", user |-> None, row |-> 0, inv |-> 0, seen |-> NoMember,
         contact |-> None, role |-> "MEMBER", status |-> "ACTIVE", number |-> 0, time |-> None]

Row == [status : Statuses \cup {"ABSENT", "GONE"}, role : Roles, user : User \cup {None},
        contact : Contact \cup {None}, number : Nat, joined : Nat \cup {None},
        left : Nat \cup {None}]

Hand == [at : {"IDLE", "ADD", "TELL", "CLEAN", "JOIN", "CLAIM", "ENTER", "ASSIGN", "STATUS",
               "REQUEST", "APPROVE", "CANCEL"},
         user : User \cup {None}, row : Nat, inv : Nat, seen : Row,
         contact : Contact \cup {None}, role : Roles, status : Statuses,
         number : Nat, time : Nat \cup {None}]

TypeOK ==
  /\ now \in Nat
  /\ group \in {"OPEN", "DELETED"}
  /\ member \in [Member -> Row]
  /\ invitation \in [Invitation -> [state : {"ABSENT", "OPEN", "GONE"}, member : Member \cup {0},
                                    role : Roles, expires : Nat, accepted : BOOLEAN,
                                    told : BOOLEAN]]
  /\ request \in [Request -> [status : {"ABSENT", "PENDING", "APPROVED", "CANCELLED", "GONE"},
                              by : User \cup {None}, approver : User \cup {None}]]
  /\ lost \in Nat
  /\ hand \in [Handler -> Hand]

(* createGroup: the founder is the group's first member and its admin. *)
Init ==
  /\ now = 0
  /\ group = "OPEN"
  /\ member = [m \in Member |->
       IF m = 1 THEN [NoMember EXCEPT !.status = "ACTIVE", !.role = "GROUP_ADMIN",
                                      !.user = Founder, !.number = 1, !.joined = 0]
                ELSE NoMember]
  /\ invitation = [i \in Invitation |-> NoInvitation]
  /\ request = [q \in Request |-> NoRequest]
  /\ lost = 0
  /\ hand = [h \in Handler |-> Idle]

-----------------------------------------------------------------------------

Exists(m) == member[m].status \in Statuses
Members == {m \in Member : Exists(m)}
ActiveAs(u, r) ==
  \E m \in Member : member[m].status = "ACTIVE" /\ member[m].user = u /\ member[m].role \in r
IsAdmin(u) == ActiveAs(u, {"GROUP_ADMIN"})
OtherActiveAdmins(m) ==
  {n \in Member \ {m} : member[n].status = "ACTIVE" /\ member[n].role = "GROUP_ADMIN"}

IsFree(h, c) == hand[h].at = "IDLE" /\ <<h, c>> \in Calls
Goes(h, x) == hand' = [hand EXCEPT ![h] = x]
Ends(h) == Goes(h, Idle)

(* Rows get the next id; a foreign key needs the group. *)
NextRow(m) ==
  member[m].status = "ABSENT" /\ \A n \in 1 .. m - 1 : member[n].status # "ABSENT"
NextInvitation(i) ==
  invitation[i].state = "ABSENT" /\ \A j \in 1 .. i - 1 : invitation[j].state # "ABSENT"
NextRequest(q) ==
  request[q].status = "ABSENT" /\ \A p \in 1 .. q - 1 : request[p].status # "ABSENT"

Numbers == {member[m].number : m \in Members}

(* Mutation: two transactions may read the members' numbers at once. *)
UnlockedAlways == TRUE

(* pg_advisory_xact_lock(hashtext(groupId)) is free. *)
Unlocked == \A h \in Handler : hand[h].at \notin {"ADD", "ENTER"}

(* The number a new member gets: one more than the greatest. *)
NextNumber(n) == (\A k \in Numbers : k < n) /\ (n = 1 \/ n - 1 \in Numbers)

-----------------------------------------------------------------------------
(* addMember: the rows, then the message, and the row again if it fails.  *)
(* The number is the next one, or any other that was asked for.           *)

AddReads(h) ==
  /\ IsFree(h, "ADD") /\ Unlocked /\ \E u \in User : IsAdmin(u)
  /\ \E c \in Contact, r \in InvitedRoles, n \in 1 .. MaxMembers :
       /\ NextNumber(n) \/ n \in AskedNumbers \ Numbers
       /\ Goes(h, [Idle EXCEPT !.at = "ADD", !.contact = c, !.role = r, !.number = n])
  /\ UNCHANGED <<now, group, member, invitation, request, lost>>

AddCreates(h) ==
  /\ hand[h].at = "ADD" /\ group = "OPEN"
  /\ \E m \in Member, i \in Invitation :
       /\ NextRow(m) /\ NextInvitation(i)
       /\ member' = [member EXCEPT ![m] =
            [NoMember EXCEPT !.status = "INVITED", !.role = hand[h].role,
                             !.contact = hand[h].contact, !.number = hand[h].number]]
       /\ invitation' = [invitation EXCEPT ![i] =
            [NoInvitation EXCEPT !.state = "OPEN", !.member = m, !.role = hand[h].role,
                                 !.expires = now + Validity]]
       /\ Goes(h, [Idle EXCEPT !.at = "TELL", !.row = m, !.inv = i])
  /\ UNCHANGED <<now, group, request, lost>>

AddTells(h) ==
  LET i == hand[h].inv
  IN /\ hand[h].at = "TELL"
     /\ invitation' = [invitation EXCEPT ![i].told = invitation[i].state = "OPEN"]
     /\ Ends(h)
     /\ UNCHANGED <<now, group, member, request, lost>>

(* Neither queue takes the message. *)
AddUntold(h) ==
  /\ hand[h].at = "TELL"
  /\ Goes(h, [hand[h] EXCEPT !.at = "CLEAN"])
  /\ UNCHANGED <<now, group, member, invitation, request, lost>>

(* Mutation: the failure is only reported. *)
AddReportsOnly(h) ==
  /\ hand[h].at = "CLEAN"
  /\ Ends(h)
  /\ UNCHANGED <<now, group, member, invitation, request, lost>>

(* Deleting the row deletes its invitation. *)
AddCleansUp(h) ==
  /\ hand[h].at = "CLEAN"
  /\ member' = [member EXCEPT ![hand[h].row] = Gone]
  /\ invitation' = [invitation EXCEPT ![hand[h].inv] = Withdrawn]
  /\ Ends(h)
  /\ UNCHANGED <<now, group, request, lost>>

(* inviteMembers: a code for whoever is given it. *)
Invite(h) ==
  /\ IsFree(h, "INVITE") /\ \E u \in User : IsAdmin(u)
  /\ \E i \in Invitation, r \in InvitedRoles :
       /\ NextInvitation(i)
       /\ invitation' = [invitation EXCEPT ![i] =
            [NoInvitation EXCEPT !.state = "OPEN", !.role = r, !.expires = now + Validity,
                                 !.told = TRUE]]
  /\ UNCHANGED <<now, group, member, request, lost, hand>>

-----------------------------------------------------------------------------
(* joinGroup *)

Open(i, t) == /\ invitation[i].state = "OPEN"
              /\ ~invitation[i].accepted
              /\ invitation[i].expires > t

JoinReads(h) ==
  /\ IsFree(h, "JOIN")
  /\ \E u \in User, i \in Invitation :
       /\ Open(i, now) /\ invitation[i].told
       /\ LET m == invitation[i].member
          IN Goes(h, [Idle EXCEPT !.at = "JOIN", !.user = u, !.inv = i, !.row = m,
                                  !.seen = IF m = 0 THEN NoMember ELSE member[m]])
  /\ UNCHANGED <<now, group, member, invitation, request, lost>>

JoinChecks(h) ==
  /\ hand[h].at = "JOIN"
  /\ IF \E m \in Members \ {hand[h].row} : member[m].user = hand[h].user
       THEN Ends(h)
       ELSE Goes(h, [hand[h] EXCEPT !.at = "CLAIM", !.time = now])
  /\ UNCHANGED <<now, group, member, invitation, request, lost>>

(* Mutation: an invitation is claimed as it was read. *)
ClaimableAsRead(h) == TRUE

(* The claim is a conditional update; another claim of the row makes it wait. *)
Claimable(h) ==
  /\ Open(hand[h].inv, hand[h].time)
  /\ \A k \in Handler \ {h} : ~(hand[k].at = "ENTER" /\ hand[k].inv = hand[h].inv)

(* The invited row as it was read, and a contact its user has verified. *)
MayActivate(h) ==
  /\ hand[h].seen.status = "INVITED"
  /\ hand[h].seen.user \in {None, hand[h].user}
  /\ hand[h].seen.contact \in Verified[hand[h].user]
  /\ Exists(hand[h].row)

(* activateInvitedMember: by id, with the invitation's role. *)
JoinActivates(h) ==
  LET m == hand[h].row
      i == hand[h].inv
  IN /\ hand[h].at = "CLAIM" /\ m # 0
     /\ Claimable(h) /\ MayActivate(h)
     /\ invitation' = [invitation EXCEPT ![i].accepted = TRUE]
     /\ member' = [member EXCEPT ![m] =
          [@ EXCEPT !.status = "ACTIVE", !.user = hand[h].user, !.role = invitation[i].role,
                    !.joined = hand[h].time]]
     /\ Ends(h)
     /\ UNCHANGED <<now, group, request, lost>>

(* An open invitation: the claimed row stays locked while a number is read. *)
JoinClaims(h) ==
  /\ hand[h].at = "CLAIM" /\ hand[h].row = 0
  /\ Claimable(h) /\ Unlocked
  /\ \E n \in 1 .. MaxMembers :
       NextNumber(n) /\ Goes(h, [hand[h] EXCEPT !.at = "ENTER", !.number = n])
  /\ UNCHANGED <<now, group, member, invitation, request, lost>>

JoinCreates(h) ==
  LET i == hand[h].inv
  IN /\ hand[h].at = "ENTER" /\ group = "OPEN"
     /\ invitation' = [invitation EXCEPT ![i].accepted = TRUE]
     /\ \E m \in Member :
          /\ NextRow(m)
          /\ member' = [member EXCEPT ![m] =
               [NoMember EXCEPT !.status = "ACTIVE", !.user = hand[h].user,
                                !.role = invitation[i].role, !.number = hand[h].number,
                                !.joined = hand[h].time]]
     /\ Ends(h)
     /\ UNCHANGED <<now, group, request, lost>>

JoinRefused(h) ==
  /\ hand[h].at = "CLAIM"
  /\ \/ ~Open(hand[h].inv, hand[h].time)
     \/ hand[h].row # 0 /\ ~MayActivate(h)
  /\ Ends(h)
  /\ UNCHANGED <<now, group, member, invitation, request, lost>>

-----------------------------------------------------------------------------
(* assignRole and updateMemberStatus *)

AssignReads(h) ==
  /\ IsFree(h, "ASSIGN") /\ \E u \in User : IsAdmin(u)
  /\ \E m \in Members, r \in GrantedRoles :
       /\ member[m].role = "GROUP_ADMIN" /\ r # "GROUP_ADMIN" => OtherActiveAdmins(m) # {}
       /\ Goes(h, [Idle EXCEPT !.at = "ASSIGN", !.row = m, !.role = r])
  /\ UNCHANGED <<now, group, member, invitation, request, lost>>

(* By id, whatever the row has become; without it the call fails. *)
AssignWrites(h) ==
  LET m == hand[h].row
  IN /\ hand[h].at = "ASSIGN"
     /\ member' = IF Exists(m) THEN [member EXCEPT ![m].role = hand[h].role] ELSE member
     /\ Ends(h)
     /\ UNCHANGED <<now, group, invitation, request, lost>>

(* A serializable transaction on a snapshot. *)
StatusReads(h) ==
  /\ IsFree(h, "STATUS")
  /\ \E u \in User, m \in Members, s \in {"ACTIVE", "SUSPENDED", "REMOVED"} :
       /\ IsAdmin(u)
       /\ member[m].user \notin {u, Founder} /\ member[m].role # "GROUP_ADMIN"
       /\ s = "ACTIVE" => member[m].user # None /\ member[m].status # "INVITED"
       /\ s # member[m].status
       /\ Goes(h, [Idle EXCEPT !.at = "STATUS", !.row = m, !.seen = member[m], !.status = s])
  /\ UNCHANGED <<now, group, member, invitation, request, lost>>

(* Mutation: the row is updated by id at the default isolation. *)
UnchangedSinceReadAlways(h) == Exists(hand[h].row)

(* A row that was updated since the snapshot fails the transaction. *)
UnchangedSinceRead(h) == member[hand[h].row] = hand[h].seen

(* Mutation: the member's invitation is left open. *)
ExpiredWithNothing(m) == invitation

(* The invitations of the member that are not accepted end now. *)
ExpiredWith(m) ==
  [i \in Invitation |->
     IF invitation[i].member = m /\ ~invitation[i].accepted
       THEN [invitation[i] EXCEPT !.expires = now] ELSE invitation[i]]

StatusWrites(h) ==
  LET m == hand[h].row
      away == hand[h].status # "ACTIVE"
  IN /\ hand[h].at = "STATUS" /\ UnchangedSinceRead(h)
     /\ member' = [member EXCEPT ![m].status = hand[h].status,
                                 ![m].left = IF away THEN now ELSE None]
     /\ invitation' = IF away THEN ExpiredWith(m) ELSE invitation
     /\ Ends(h)
     /\ UNCHANGED <<now, group, request, lost>>

StatusFails(h) ==
  /\ hand[h].at = "STATUS" /\ ~UnchangedSinceRead(h)
  /\ Ends(h)
  /\ UNCHANGED <<now, group, member, invitation, request, lost>>

-----------------------------------------------------------------------------
(* Deleting the group: requested by an admin, approved by an officer,      *)
(* carried out by the platform.                                            *)

(* The newest request that is not cancelled. *)
ActiveRequest(q) ==
  LET active == {p \in Request : request[p].status \in {"PENDING", "APPROVED"}}
  IN q \in active /\ \A p \in active : p <= q

DeletionReads(h) ==
  /\ IsFree(h, "REQUEST")
  /\ ~\E q \in Request : ActiveRequest(q)
  /\ \E u \in User : ActiveAs(u, {"TREASURER", "SECRETARY"})
  /\ \E u \in User : IsAdmin(u) /\ Goes(h, [Idle EXCEPT !.at = "REQUEST", !.user = u])
  /\ UNCHANGED <<now, group, member, invitation, request, lost>>

DeletionCreates(h) ==
  /\ hand[h].at = "REQUEST" /\ group = "OPEN"
  /\ \E q \in Request :
       /\ NextRequest(q)
       /\ request' = [request EXCEPT ![q] =
            [NoRequest EXCEPT !.status = "PENDING", !.by = hand[h].user]]
  /\ Ends(h)
  /\ UNCHANGED <<now, group, member, invitation, lost>>

(* Mutation: a cancelled request may be approved. *)
ApproveReadsCancelled(h) ==
  /\ IsFree(h, "APPROVE")
  /\ \E u \in User, q \in Request :
       /\ ActiveAs(u, {"TREASURER", "SECRETARY"})
       /\ request[q].status \in {"PENDING", "CANCELLED"} /\ request[q].by # u
       /\ Goes(h, [Idle EXCEPT !.at = "APPROVE", !.user = u, !.row = q])
  /\ UNCHANGED <<now, group, member, invitation, request, lost>>

ApproveReads(h) ==
  /\ IsFree(h, "APPROVE")
  /\ \E u \in User, q \in Request :
       /\ ActiveAs(u, {"TREASURER", "SECRETARY"})
       /\ ActiveRequest(q) /\ request[q].status = "PENDING" /\ request[q].by # u
       /\ Goes(h, [Idle EXCEPT !.at = "APPROVE", !.user = u, !.row = q])
  /\ UNCHANGED <<now, group, member, invitation, request, lost>>

(* By id, whatever the request has become. *)
ApproveWrites(h) ==
  LET q == hand[h].row
  IN /\ hand[h].at = "APPROVE" /\ group = "OPEN"
     /\ request' = [request EXCEPT ![q].status = "APPROVED", ![q].approver = hand[h].user]
     /\ Ends(h)
     /\ UNCHANGED <<now, group, member, invitation, lost>>

CancelReads(h) ==
  /\ IsFree(h, "CANCEL") /\ \E u \in User : IsAdmin(u)
  /\ \E q \in Request :
       ActiveRequest(q) /\ Goes(h, [Idle EXCEPT !.at = "CANCEL", !.row = q])
  /\ UNCHANGED <<now, group, member, invitation, request, lost>>

CancelWrites(h) ==
  /\ hand[h].at = "CANCEL" /\ group = "OPEN"
  /\ request' = [request EXCEPT ![hand[h].row].status = "CANCELLED"]
  /\ Ends(h)
  /\ UNCHANGED <<now, group, member, invitation, lost>>

(* admin.deleteGroup: everything in one transaction; it asks for no request. *)
DeleteGroup(h) ==
  /\ IsFree(h, "DELETE") /\ group = "OPEN"
  /\ group' = "DELETED"
  /\ member' = [m \in Member |-> Gone]
  /\ invitation' = [i \in Invitation |-> Withdrawn]
  /\ request' = [q \in Request |-> [NoRequest EXCEPT !.status = "GONE"]]
  /\ UNCHANGED <<now, lost, hand>>

(* A write that needs the deleted group fails. *)
Orphaned(h) ==
  /\ hand[h].at \in {"ADD", "ENTER", "REQUEST", "APPROVE", "CANCEL"} /\ group = "DELETED"
  /\ Ends(h)
  /\ UNCHANGED <<now, group, member, invitation, request, lost>>

-----------------------------------------------------------------------------

(* A call dies with its process.  An open transaction is rolled back; the  *)
(* calls that die between two transactions are counted.                    *)
Lose(h) ==
  /\ hand[h].at # "IDLE"
  /\ IF hand[h].at \in {"TELL", "CLEAN"}
       THEN lost < MaxLost /\ lost' = lost + 1
       ELSE UNCHANGED lost
  /\ Ends(h)
  /\ UNCHANGED <<now, group, member, invitation, request>>

Tick ==
  /\ now < MaxTime
  /\ now' = now + 1
  /\ UNCHANGED <<group, member, invitation, request, lost, hand>>

Step(h) ==
  \/ AddReads(h) \/ AddCreates(h) \/ AddTells(h) \/ AddUntold(h) \/ AddCleansUp(h)
  \/ Invite(h) \/ JoinReads(h) \/ JoinChecks(h) \/ JoinActivates(h) \/ JoinClaims(h)
  \/ JoinCreates(h) \/ JoinRefused(h)
  \/ AssignReads(h) \/ AssignWrites(h) \/ StatusReads(h) \/ StatusWrites(h) \/ StatusFails(h)
  \/ DeletionReads(h) \/ DeletionCreates(h) \/ ApproveReads(h) \/ ApproveWrites(h)
  \/ CancelReads(h) \/ CancelWrites(h) \/ DeleteGroup(h) \/ Orphaned(h) \/ Lose(h)

Next == Tick \/ \E h \in Handler : Step(h)

Spec == Init /\ [][Next]_vars

-----------------------------------------------------------------------------
(* Properties. *)

(* Numbers are unique, so that no acceptance and no new row is refused for *)
(* a number it was just given: the lock covers reading and writing.        *)
NumbersUnique ==
  \A m, n \in Members : member[m].number = member[n].number => m = n

(* An invitation lets one person in, however many hold its code, and       *)
(* nobody but the founder is in without one.                               *)
MembersMatchInvitations ==
  group = "OPEN" =>
    Cardinality({m \in Members : member[m].user # None})
      = 1 + Cardinality({i \in Invitation : invitation[i].accepted})

(* An invited member who has been suspended or removed is not let in by an *)
(* acceptance dated at the removal or later, though it read the row before. *)
RemovalSticks ==
  \A m \in Members :
    member[m].status = "ACTIVE" /\ member[m].left # None => member[m].joined < member[m].left

(* No step takes an active admin's access away, though a suspension may    *)
(* have read the member before it was made an admin.                       *)
AdminsKeepAccess ==
  [][\A m \in Members :
       /\ member[m].status = "ACTIVE" /\ member[m].role = "GROUP_ADMIN"
       /\ group' = "OPEN"
       => member'[m].status = "ACTIVE"]_vars

(* A row whose invitation was sent to nobody is being dealt with, or its   *)
(* call was lost.                                                          *)
UndeliveredAreCleanedUp ==
  Cardinality({i \in Invitation : invitation[i].state = "OPEN" /\ ~invitation[i].told})
    <= lost + Cardinality({h \in Handler : hand[h].at \in {"TELL", "CLEAN"}})

(* A cancelled request is at rest once no approval holds what it read of it *)
(* before: it is written by id, and would bring the request back.          *)
AtRest(q) ==
  /\ request[q].status = "CANCELLED"
  /\ ~\E h \in Handler : hand[h].at = "APPROVE" /\ hand[h].row = q

(* A request at rest is never taken up again, so that only an approval that *)
(* was under way at the cancellation can undo it, and no later call.       *)
CancelledDeletionsRest ==
  [][\A q \in Request : AtRest(q) => AtRest(q)' \/ group' = "DELETED"]_vars

=============================================================================

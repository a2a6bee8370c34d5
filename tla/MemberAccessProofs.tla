--------------------------- MODULE MemberAccessProofs ---------------------------
(***************************************************************************)
(* Numbers stay unique, removals stick, admins keep their access and       *)
(* deletions take two, for any number of members, invitations, requests    *)
(* and calls.                                                              *)
(***************************************************************************)
EXTENDS MemberAccess, FiniteSetTheorems, TLAPS

InvitationRow == [state : {"ABSENT", "OPEN", "GONE"}, member : Member \cup {0}, role : Roles,
                  expires : Nat, accepted : BOOLEAN, told : BOOLEAN]
RequestRow == [status : {"ABSENT", "PENDING", "APPROVED", "CANCELLED", "GONE"},
               by : User \cup {None}, approver : User \cup {None}]

(* What a member who left was invited with has ended by then. *)
LeavingEnds ==
  \A i \in Invitation, m \in Member :
    /\ invitation[i].member = m /\ invitation[i].state = "OPEN" /\ ~invitation[i].accepted
    /\ member[m].left # None
    => invitation[i].expires <= member[m].left

(* A member has one invitation at most, which ended when the member left. *)
RowsStand ==
  /\ \A i \in Invitation : invitation[i].member # 0 =>
       member[invitation[i].member].status # "ABSENT"
  /\ \A i, j \in Invitation :
       invitation[i].member # 0 /\ invitation[i].member = invitation[j].member => i = j
  /\ LeavingEnds /\ RemovalSticks

(* One call at a time holds a number that no member has. *)
NumbersStand ==
  /\ NumbersUnique
  /\ \A h \in Handler : hand[h].at \in {"ADD", "ENTER"} =>
       /\ \A m \in Members : member[m].number # hand[h].number
       /\ \A k \in Handler \ {h} : hand[k].at \notin {"ADD", "ENTER"}

(* A row whose message is still to be sent belongs to one call, is nobody's *)
(* yet and cannot be accepted; or it is gone with its group.                *)
UntoldStand ==
  \A h \in Handler : hand[h].at \in {"TELL", "CLEAN"} =>
    LET m == hand[h].row
        i == hand[h].inv
    IN /\ invitation[i].state # "ABSENT"
       /\ \A k \in Handler \ {h} : hand[k].at \in {"TELL", "CLEAN"} => hand[k].inv # i
       /\ \/ member[m].status = "GONE"
          \/ /\ invitation[i].state = "OPEN" /\ ~invitation[i].told /\ invitation[i].member = m
             /\ member[m].user = None /\ member[m].status \in {"INVITED", "SUSPENDED", "REMOVED"}

(* What a call has read, and may still rely on. *)
OfRow(y) ==
  /\ y.at \in {"TELL", "CLEAN"} => y.row \in Member /\ y.inv \in Invitation
  /\ y.at = "ASSIGN" => y.row \in Member
  /\ y.at = "STATUS" =>
       /\ y.row \in Member
       /\ y.seen.status \in Statuses /\ y.seen.role # "GROUP_ADMIN"
       /\ y.status = "ACTIVE" => y.seen.user # None
OfInvitation(y) ==
  /\ y.at \in {"JOIN", "CLAIM", "ENTER"} =>
       /\ y.user \in User /\ y.row \in Member \cup {0} /\ y.inv \in Invitation
       /\ \/ invitation[y.inv].state = "GONE"
          \/ /\ invitation[y.inv].state = "OPEN" /\ invitation[y.inv].told
             /\ invitation[y.inv].member = y.row
  /\ y.at \in {"CLAIM", "ENTER"} => y.time \in Nat
OfRequest(y) ==
  /\ y.at = "REQUEST" => y.user \in User
  /\ y.at \in {"APPROVE", "CANCEL"} => y.row \in Request /\ request[y.row].status # "ABSENT"
  /\ y.at = "APPROVE" => y.user \in User

HandStands(y) == OfRow(y) /\ OfInvitation(y) /\ OfRequest(y)

Stands ==
  /\ TypeOK
  /\ RowsStand /\ NumbersStand /\ UntoldStand
  /\ \A h \in Handler : HandStands(hand[h])

(* No invitation is moved to another member or untold, and no request to   *)
(* another admin, unless it is gone.                                       *)
Kept ==
  /\ \A i \in Invitation :
       /\ invitation[i].state = "GONE" => invitation'[i].state = "GONE"
       /\ invitation[i].state = "OPEN" =>
            \/ invitation'[i].state = "GONE"
            \/ /\ invitation'[i].state = "OPEN"
               /\ invitation'[i].member = invitation[i].member
               /\ invitation[i].told => invitation'[i].told
  /\ \A q \in Request : request[q].status # "ABSENT" =>
       /\ request'[q].status # "ABSENT"
       /\ request'[q].by = request[q].by \/ request'[q].by = None

-----------------------------------------------------------------------------

(* The ids are numbers; nobody is none of them. *)
LEMMA NoneIsNothing ==
  /\ None \notin User /\ None \notin Nat /\ 0 \notin Member /\ 1 \in Member
  /\ Member \subseteq Nat /\ Invitation \subseteq Nat /\ Request \subseteq Nat
BY MemberAssumption DEF Member, Invitation, Request

(* Blank, deleted and idle rows have their types. *)
LEMMA BlankRows ==
  /\ NoMember \in Row /\ Gone \in Row /\ NoInvitation \in InvitationRow
  /\ Withdrawn \in InvitationRow /\ NoRequest \in RequestRow /\ Idle \in Hand
BY NoneIsNothing
   DEF NoMember, Gone, NoInvitation, Withdrawn, NoRequest, Idle, Row, InvitationRow, RequestRow,
       Hand, Roles, Statuses

(* What blank rows say. *)
LEMMA BlankFields ==
  /\ Gone.status = "GONE" /\ Gone.user = None
  /\ Withdrawn.state = "GONE" /\ Withdrawn.member = 0
  /\ Idle.at = "IDLE"
BY DEF NoMember, Gone, NoInvitation, Withdrawn, Idle

(* The type invariant with its record sets named. *)
LEMMA Typed ==
  TypeOK <=> /\ now \in Nat /\ group \in {"OPEN", "DELETED"} /\ lost \in Nat
             /\ member \in [Member -> Row] /\ invitation \in [Invitation -> InvitationRow]
             /\ request \in [Request -> RequestRow] /\ hand \in [Handler -> Hand]
BY DEF TypeOK, InvitationRow, RequestRow

(* A call that is over relies on nothing. *)
LEMMA IdleStands == HandStands(Idle)
BY BlankFields DEF HandStands, OfRow, OfInvitation, OfRequest

(* What a call has read keeps its meaning while the rows are only kept. *)
LEMMA HandKept ==
  ASSUME Stands, Kept, NEW y \in Hand, HandStands(y)
  PROVE  HandStands(y)'
<1>1. OfRow(y)'
  BY DEF HandStands, OfRow
<1>2. OfInvitation(y)'
  BY DEF HandStands, OfInvitation, Kept
<1>3. OfRequest(y)'
  BY NoneIsNothing DEF HandStands, OfRequest, Kept
<1> QED
  BY <1>1, <1>2, <1>3 DEF HandStands

(* The calls other than the one that moves still stand. *)
LEMMA HandsKept ==
  ASSUME Stands, Kept, NEW h \in Handler, NEW x \in Hand, HandStands(x)', Goes(h, x)
  PROVE  hand' \in [Handler -> Hand] /\ \A k \in Handler : HandStands(hand[k])'
<1>1. hand' \in [Handler -> Hand] /\ hand'[h] = x /\ \A k \in Handler \ {h} : hand'[k] = hand[k]
  BY Typed DEF Stands, Goes
<1>2. HandStands(hand[h])'
  BY <1>1 DEF HandStands, OfRow, OfInvitation, OfRequest
<1>3. ASSUME NEW k \in Handler \ {h} PROVE HandStands(hand[k])'
  <2>1. PICK y \in Hand : y = hand[k]
    BY Typed DEF Stands
  <2>2. HandStands(y)'
    BY <2>1, HandKept DEF Stands
  <2>3. hand'[k] = y
    BY <1>1, <2>1
  <2> QED
    BY <2>2, <2>3 DEF HandStands, OfRow, OfInvitation, OfRequest
<1> QED
  BY <1>1, <1>2, <1>3

(* A step that only moves one call. *)
LEMMA HandOnly ==
  ASSUME Stands, UNCHANGED <<member, invitation, request>>,
         now' \in Nat, lost' \in Nat, group' \in {"OPEN", "DELETED"},
         NEW h \in Handler, NEW x \in Hand, HandStands(x), Goes(h, x),
         x.at \in {"ADD", "ENTER"} => /\ \A m \in Members : member[m].number # x.number
                                      /\ \A k \in Handler : hand[k].at \notin {"ADD", "ENTER"},
         x.at \in {"TELL", "CLEAN"} => /\ hand[h].at \in {"TELL", "CLEAN"}
                                       /\ x.row = hand[h].row /\ x.inv = hand[h].inv
  PROVE  Stands'
<1>1. Kept
  BY Typed DEF Kept, Stands, InvitationRow
<1>2. hand' \in [Handler -> Hand] /\ hand'[h] = x /\ \A k \in Handler \ {h} : hand'[k] = hand[k]
  BY Typed DEF Stands, Goes
<1>3. HandStands(x)'
  BY <1>1, HandKept
<1>4. TypeOK' /\ \A k \in Handler : HandStands(hand[k])'
  BY <1>1, <1>3, HandsKept, Typed DEF Stands, TypeOK
<1>5. RowsStand'
  BY DEF Stands, RowsStand, LeavingEnds, RemovalSticks, Members, Exists
<1>6. NumbersStand'
  BY <1>2 DEF Stands, NumbersStand, NumbersUnique, Members, Exists
<1>7. UntoldStand'
  BY <1>2 DEF Stands, UntoldStand
<1> QED
  BY <1>4, <1>5, <1>6, <1>7 DEF Stands

(* A call that ends and changes nothing else. *)
LEMMA OnlyEnds ==
  ASSUME Stands, UNCHANGED <<now, group, member, invitation, request>>, lost' \in Nat,
         NEW h \in Handler, Ends(h)
  PROVE  Stands'
<1>1. Idle \in Hand /\ HandStands(Idle) /\ Goes(h, Idle) /\ Idle.at = "IDLE"
  BY BlankRows, BlankFields, IdleStands DEF Ends
<1>2. now' \in Nat /\ group' \in {"OPEN", "DELETED"}
  BY Typed DEF Stands
<1> QED
  BY <1>1, <1>2, HandOnly

(* A call that ends a write: what its hand leaves behind. *)
LEMMA EndsKept ==
  ASSUME Stands, Kept, NEW h \in Handler, Ends(h)
  PROVE  /\ hand' \in [Handler -> Hand] /\ \A k \in Handler : HandStands(hand[k])'
         /\ hand'[h].at = "IDLE" /\ \A k \in Handler \ {h} : hand'[k] = hand[k]
<1>1. Kept /\ HandStands(Idle)' /\ Idle \in Hand /\ Goes(h, Idle)
  BY IdleStands, HandKept, BlankRows DEF Ends
<1>2. hand' \in [Handler -> Hand] /\ \A k \in Handler : HandStands(hand[k])'
  BY <1>1, HandsKept
<1> QED
  BY <1>1, <1>2, BlankFields, Typed DEF Goes, Stands

(* The invariant holds at the start. *)
LEMMA StandsInit == Init => Stands
<1> SUFFICES ASSUME Init PROVE Stands
  OBVIOUS
<1>1. PICK x \in Row : /\ x = [NoMember EXCEPT !.status = "ACTIVE", !.role = "GROUP_ADMIN",
                                             !.user = Founder, !.number = 1, !.joined = 0]
                       /\ x.left = None
  <2>1. [NoMember EXCEPT !.status = "ACTIVE", !.role = "GROUP_ADMIN",
                         !.user = Founder, !.number = 1, !.joined = 0] \in Row
    BY MemberAssumption DEF NoMember, Row, Roles, Statuses
  <2> QED
    BY <2>1 DEF NoMember
<1>2. member = [m \in Member |-> IF m = 1 THEN x ELSE NoMember]
  BY <1>1 DEF Init
<1>3. /\ invitation = [i \in Invitation |-> NoInvitation]
      /\ request = [q \in Request |-> NoRequest] /\ hand = [h \in Handler |-> Idle]
  BY DEF Init
<1>4. TypeOK
  BY <1>2, <1>3, BlankRows, Typed DEF Init
<1>5. \A m \in Member \ {1} : member[m].status = "ABSENT"
  BY <1>2 DEF NoMember
<1>6. \A i \in Invitation : invitation[i].member = 0
  BY <1>3 DEF NoInvitation
<1>7. \A h \in Handler : hand[h].at = "IDLE" /\ HandStands(hand[h])
  BY <1>3, IdleStands, BlankFields
<1>8. RowsStand
  BY <1>1, <1>2, <1>5, <1>6, NoneIsNothing
     DEF RowsStand, LeavingEnds, RemovalSticks, Members, Exists, Statuses
<1>9. NumbersStand
  BY <1>5, <1>7 DEF NumbersStand, NumbersUnique, Members, Exists, Statuses
<1>10. UntoldStand
  BY <1>3, <1>7 DEF UntoldStand, NoRequest
<1> QED
  BY <1>4, <1>7, <1>8, <1>9, <1>10 DEF Stands

-----------------------------------------------------------------------------
(* The steps that only read, and move one call. *)

(* A number is read under the lock. *)
LEMMA AddReadsStands == ASSUME Stands, NEW h \in Handler, AddReads(h) PROVE Stands'
<1>1. PICK c \in Contact, r \in InvitedRoles, n \in 1 .. MaxMembers :
        /\ NextNumber(n) \/ n \in AskedNumbers \ Numbers
        /\ Goes(h, [Idle EXCEPT !.at = "ADD", !.contact = c, !.role = r, !.number = n])
  BY DEF AddReads
<1>2. r \in Roles /\ n \in Nat
  BY <1>1, MemberAssumption
<1>3. \A m \in Members : member[m].number \in Numbers /\ member[m].number \in Nat
  BY <1>1, <1>2, Typed DEF Numbers, Stands, Members, Row
<1>4. \A m \in Members : member[m].number # n
  BY <1>1, <1>2, <1>3 DEF NextNumber
<1>5. [Idle EXCEPT !.at = "ADD", !.contact = c, !.role = r, !.number = n] \in Hand
  BY <1>1, <1>2, <1>3, <1>4, BlankRows DEF Hand
<1>6. PICK x \in Hand :
        x = [Idle EXCEPT !.at = "ADD", !.contact = c, !.role = r, !.number = n]
  BY <1>5
<1>7. /\ x.at = "ADD" /\ x.number = n
  BY <1>6 DEF Idle
<1>8. HandStands(x)
  BY <1>1, <1>2, <1>3, <1>4, <1>7, NoneIsNothing DEF HandStands, OfRow, OfInvitation,
     OfRequest
<1>9. Goes(h, x)
  BY <1>1, <1>2, <1>3, <1>4, <1>6 DEF AddReads
<1>10. /\ UNCHANGED <<member, invitation, request>>
       /\ now' \in Nat /\ lost' \in Nat /\ group' \in {"OPEN", "DELETED"}
  BY Typed DEF AddReads, Stands
<1>11. /\ x.at \in {"ADD", "ENTER"} =>
            /\ \A w \in Members : member[w].number # x.number
            /\ \A k \in Handler : hand[k].at \notin {"ADD", "ENTER"}
       /\ x.at \in {"TELL", "CLEAN"} =>
            hand[h].at \in {"TELL", "CLEAN"} /\ x.row = hand[h].row /\ x.inv = hand[h].inv
  BY <1>1, <1>2, <1>3, <1>4, <1>7 DEF AddReads, Unlocked
<1> QED
  BY <1>6, <1>8, <1>9, <1>10, <1>11, HandOnly

(* A message nobody takes. *)
LEMMA AddUntoldStands == ASSUME Stands, NEW h \in Handler, AddUntold(h) PROVE Stands'
<1>1. PICK y \in Hand : y = hand[h]
  BY Typed DEF Stands
<1>2. HandStands(y)
  BY <1>1 DEF Stands
<1>3. [y EXCEPT !.at = "CLEAN"] \in Hand
  BY <1>1, <1>2, BlankRows DEF Hand
<1>4. PICK x \in Hand : x = [y EXCEPT !.at = "CLEAN"]
  BY <1>3
<1>5. /\ x.at = "CLEAN" /\ x.user = y.user /\ x.row = y.row /\ x.inv = y.inv
      /\ x.seen = y.seen /\ x.number = y.number /\ x.status = y.status /\ x.time = y.time
  BY <1>4, <1>1, <1>2 DEF Hand
<1>6. HandStands(x)
  BY <1>1, <1>2, <1>5, NoneIsNothing DEF HandStands, OfRow, OfInvitation, OfRequest, AddUntold
<1>7. Goes(h, x)
  BY <1>1, <1>2, <1>4 DEF AddUntold
<1>8. /\ UNCHANGED <<member, invitation, request>>
      /\ now' \in Nat /\ lost' \in Nat /\ group' \in {"OPEN", "DELETED"}
  BY Typed DEF AddUntold, Stands
<1>9. /\ x.at \in {"ADD", "ENTER"} =>
           /\ \A w \in Members : member[w].number # x.number
           /\ \A k \in Handler : hand[k].at \notin {"ADD", "ENTER"}
      /\ x.at \in {"TELL", "CLEAN"} =>
           hand[h].at \in {"TELL", "CLEAN"} /\ x.row = hand[h].row /\ x.inv = hand[h].inv
  BY <1>1, <1>2, <1>5 DEF AddUntold
<1> QED
  BY <1>4, <1>6, <1>7, <1>8, <1>9, HandOnly

(* An open invitation is read with its member. *)
LEMMA JoinReadsStands == ASSUME Stands, NEW h \in Handler, JoinReads(h) PROVE Stands'
<1>1. PICK u \in User, i \in Invitation :
        /\ Open(i, now) /\ invitation[i].told
        /\ Goes(h, [Idle EXCEPT !.at = "JOIN", !.user = u, !.inv = i, !.row = invitation[i].member,
                                !.seen = IF invitation[i].member = 0
                                           THEN NoMember ELSE member[invitation[i].member]])
  BY DEF JoinReads
<1>2. invitation[i].member \in Member \cup {0} /\ invitation[i].state = "OPEN"
  BY <1>1, Typed DEF Stands, InvitationRow, Open
<1>3. i \in Nat /\ invitation[i].member \in Nat
  BY <1>1, <1>2, NoneIsNothing
<1>4. PICK s \in Row : s = IF invitation[i].member = 0
                            THEN NoMember ELSE member[invitation[i].member]
  BY <1>1, <1>2, <1>3, BlankRows, Typed DEF Stands
<1>5. [Idle EXCEPT !.at = "JOIN", !.user = u, !.inv = i, !.row = invitation[i].member,
                   !.seen = s] \in Hand
  BY <1>1, <1>2, <1>3, <1>4, BlankRows DEF Hand
<1>6. PICK x \in Hand :
        x = [Idle EXCEPT !.at = "JOIN", !.user = u, !.inv = i, !.row = invitation[i].member,
                         !.seen = s]
  BY <1>5
<1>7. /\ x.at = "JOIN" /\ x.user = u /\ x.row = invitation[i].member /\ x.inv = i
      /\ x.seen = s
  BY <1>6 DEF Idle
<1>8. HandStands(x)
  BY <1>1, <1>2, <1>3, <1>4, <1>7, NoneIsNothing DEF HandStands, OfRow, OfInvitation,
     OfRequest
<1>9. Goes(h, x)
  BY <1>1, <1>2, <1>3, <1>4, <1>6 DEF JoinReads
<1>10. /\ UNCHANGED <<member, invitation, request>>
       /\ now' \in Nat /\ lost' \in Nat /\ group' \in {"OPEN", "DELETED"}
  BY Typed DEF JoinReads, Stands
<1>11. /\ x.at \in {"ADD", "ENTER"} =>
            /\ \A w \in Members : member[w].number # x.number
            /\ \A k \in Handler : hand[k].at \notin {"ADD", "ENTER"}
       /\ x.at \in {"TELL", "CLEAN"} =>
            hand[h].at \in {"TELL", "CLEAN"} /\ x.row = hand[h].row /\ x.inv = hand[h].inv
  BY <1>1, <1>2, <1>3, <1>4, <1>7 DEF JoinReads
<1> QED
  BY <1>6, <1>8, <1>9, <1>10, <1>11, HandOnly

(* Assignments are by id. *)
LEMMA AssignReadsStands == ASSUME Stands, NEW h \in Handler, AssignReads(h) PROVE Stands'
<1>1. PICK m \in Members, r \in GrantedRoles :
        Goes(h, [Idle EXCEPT !.at = "ASSIGN", !.row = m, !.role = r])
  BY DEF AssignReads
<1>2. m \in Member /\ m \in Nat /\ r \in Roles
  BY <1>1, MemberAssumption, NoneIsNothing DEF Members
<1>3. [Idle EXCEPT !.at = "ASSIGN", !.row = m, !.role = r] \in Hand
  BY <1>1, <1>2, BlankRows DEF Hand
<1>4. PICK x \in Hand : x = [Idle EXCEPT !.at = "ASSIGN", !.row = m, !.role = r]
  BY <1>3
<1>5. /\ x.at = "ASSIGN" /\ x.row = m
  BY <1>4 DEF Idle
<1>6. HandStands(x)
  BY <1>1, <1>2, <1>5, NoneIsNothing DEF HandStands, OfRow, OfInvitation, OfRequest
<1>7. Goes(h, x)
  BY <1>1, <1>2, <1>4 DEF AssignReads
<1>8. /\ UNCHANGED <<member, invitation, request>>
      /\ now' \in Nat /\ lost' \in Nat /\ group' \in {"OPEN", "DELETED"}
  BY Typed DEF AssignReads, Stands
<1>9. /\ x.at \in {"ADD", "ENTER"} =>
           /\ \A w \in Members : member[w].number # x.number
           /\ \A k \in Handler : hand[k].at \notin {"ADD", "ENTER"}
      /\ x.at \in {"TELL", "CLEAN"} =>
           hand[h].at \in {"TELL", "CLEAN"} /\ x.row = hand[h].row /\ x.inv = hand[h].inv
  BY <1>1, <1>2, <1>5 DEF AssignReads
<1> QED
  BY <1>4, <1>6, <1>7, <1>8, <1>9, HandOnly

(* A status is changed of whoever is neither an admin nor without a user. *)
LEMMA StatusReadsStands == ASSUME Stands, NEW h \in Handler, StatusReads(h) PROVE Stands'
<1>1. PICK u \in User, m \in Members, s \in {"ACTIVE", "SUSPENDED", "REMOVED"} :
        /\ member[m].role # "GROUP_ADMIN"
        /\ s = "ACTIVE" => member[m].user # None
        /\ Goes(h, [Idle EXCEPT !.at = "STATUS", !.row = m, !.seen = member[m], !.status = s])
  BY DEF StatusReads
<1>2. /\ m \in Member /\ m \in Nat /\ member[m] \in Row
      /\ member[m].status \in Statuses /\ s \in Statuses
  BY <1>1, Typed, NoneIsNothing DEF Members, Exists, Stands, Statuses
<1>3. [Idle EXCEPT !.at = "STATUS", !.row = m, !.seen = member[m], !.status = s] \in Hand
  BY <1>1, <1>2, BlankRows DEF Hand
<1>4. PICK x \in Hand :
        x = [Idle EXCEPT !.at = "STATUS", !.row = m, !.seen = member[m], !.status = s]
  BY <1>3
<1>5. /\ x.at = "STATUS" /\ x.row = m /\ x.seen = member[m] /\ x.status = s
  BY <1>4 DEF Idle
<1>6. HandStands(x)
  BY <1>1, <1>2, <1>5, NoneIsNothing DEF HandStands, OfRow, OfInvitation, OfRequest
<1>7. Goes(h, x)
  BY <1>1, <1>2, <1>4 DEF StatusReads
<1>8. /\ UNCHANGED <<member, invitation, request>>
      /\ now' \in Nat /\ lost' \in Nat /\ group' \in {"OPEN", "DELETED"}
  BY Typed DEF StatusReads, Stands
<1>9. /\ x.at \in {"ADD", "ENTER"} =>
           /\ \A w \in Members : member[w].number # x.number
           /\ \A k \in Handler : hand[k].at \notin {"ADD", "ENTER"}
      /\ x.at \in {"TELL", "CLEAN"} =>
           hand[h].at \in {"TELL", "CLEAN"} /\ x.row = hand[h].row /\ x.inv = hand[h].inv
  BY <1>1, <1>2, <1>5 DEF StatusReads
<1> QED
  BY <1>4, <1>6, <1>7, <1>8, <1>9, HandOnly

(* A request is made by an admin. *)
LEMMA DeletionReadsStands == ASSUME Stands, NEW h \in Handler, DeletionReads(h) PROVE Stands'
<1>1. PICK u \in User : Goes(h, [Idle EXCEPT !.at = "REQUEST", !.user = u])
  BY DEF DeletionReads
<1>2. [Idle EXCEPT !.at = "REQUEST", !.user = u] \in Hand
  BY <1>1, BlankRows DEF Hand
<1>3. PICK x \in Hand : x = [Idle EXCEPT !.at = "REQUEST", !.user = u]
  BY <1>2
<1>4. /\ x.at = "REQUEST" /\ x.user = u
  BY <1>3 DEF Idle
<1>5. HandStands(x)
  BY <1>1, <1>4, NoneIsNothing DEF HandStands, OfRow, OfInvitation, OfRequest
<1>6. Goes(h, x)
  BY <1>1, <1>3 DEF DeletionReads
<1>7. /\ UNCHANGED <<member, invitation, request>>
      /\ now' \in Nat /\ lost' \in Nat /\ group' \in {"OPEN", "DELETED"}
  BY Typed DEF DeletionReads, Stands
<1>8. /\ x.at \in {"ADD", "ENTER"} =>
           /\ \A w \in Members : member[w].number # x.number
           /\ \A k \in Handler : hand[k].at \notin {"ADD", "ENTER"}
      /\ x.at \in {"TELL", "CLEAN"} =>
           hand[h].at \in {"TELL", "CLEAN"} /\ x.row = hand[h].row /\ x.inv = hand[h].inv
  BY <1>1, <1>4 DEF DeletionReads
<1> QED
  BY <1>3, <1>5, <1>6, <1>7, <1>8, HandOnly

(* It is read by an officer other than who made it. *)
LEMMA ApproveReadsStands == ASSUME Stands, NEW h \in Handler, ApproveReads(h) PROVE Stands'
<1>1. PICK u \in User, q \in Request :
        /\ request[q].status = "PENDING" /\ request[q].by # u
        /\ Goes(h, [Idle EXCEPT !.at = "APPROVE", !.user = u, !.row = q])
  BY DEF ApproveReads
<1>2. q \in Nat
  BY <1>1, NoneIsNothing
<1>3. [Idle EXCEPT !.at = "APPROVE", !.user = u, !.row = q] \in Hand
  BY <1>1, <1>2, BlankRows DEF Hand
<1>4. PICK x \in Hand : x = [Idle EXCEPT !.at = "APPROVE", !.user = u, !.row = q]
  BY <1>3
<1>5. /\ x.at = "APPROVE" /\ x.user = u /\ x.row = q
  BY <1>4 DEF Idle
<1>6. HandStands(x)
  BY <1>1, <1>2, <1>5, NoneIsNothing DEF HandStands, OfRow, OfInvitation, OfRequest
<1>7. Goes(h, x)
  BY <1>1, <1>2, <1>4 DEF ApproveReads
<1>8. /\ UNCHANGED <<member, invitation, request>>
      /\ now' \in Nat /\ lost' \in Nat /\ group' \in {"OPEN", "DELETED"}
  BY Typed DEF ApproveReads, Stands
<1>9. /\ x.at \in {"ADD", "ENTER"} =>
           /\ \A w \in Members : member[w].number # x.number
           /\ \A k \in Handler : hand[k].at \notin {"ADD", "ENTER"}
      /\ x.at \in {"TELL", "CLEAN"} =>
           hand[h].at \in {"TELL", "CLEAN"} /\ x.row = hand[h].row /\ x.inv = hand[h].inv
  BY <1>1, <1>2, <1>5 DEF ApproveReads
<1> QED
  BY <1>4, <1>6, <1>7, <1>8, <1>9, HandOnly

(* Or by an admin, to cancel it. *)
LEMMA CancelReadsStands == ASSUME Stands, NEW h \in Handler, CancelReads(h) PROVE Stands'
<1>1. PICK q \in Request :
        /\ request[q].status # "ABSENT"
        /\ Goes(h, [Idle EXCEPT !.at = "CANCEL", !.row = q])
  BY DEF CancelReads, ActiveRequest
<1>2. q \in Nat
  BY <1>1, NoneIsNothing
<1>3. [Idle EXCEPT !.at = "CANCEL", !.row = q] \in Hand
  BY <1>1, <1>2, BlankRows DEF Hand
<1>4. PICK x \in Hand : x = [Idle EXCEPT !.at = "CANCEL", !.row = q]
  BY <1>3
<1>5. /\ x.at = "CANCEL" /\ x.row = q
  BY <1>4 DEF Idle
<1>6. HandStands(x)
  BY <1>1, <1>2, <1>5, NoneIsNothing DEF HandStands, OfRow, OfInvitation, OfRequest
<1>7. Goes(h, x)
  BY <1>1, <1>2, <1>4 DEF CancelReads
<1>8. /\ UNCHANGED <<member, invitation, request>>
      /\ now' \in Nat /\ lost' \in Nat /\ group' \in {"OPEN", "DELETED"}
  BY Typed DEF CancelReads, Stands
<1>9. /\ x.at \in {"ADD", "ENTER"} =>
           /\ \A w \in Members : member[w].number # x.number
           /\ \A k \in Handler : hand[k].at \notin {"ADD", "ENTER"}
      /\ x.at \in {"TELL", "CLEAN"} =>
           hand[h].at \in {"TELL", "CLEAN"} /\ x.row = hand[h].row /\ x.inv = hand[h].inv
  BY <1>1, <1>2, <1>5 DEF CancelReads
<1> QED
  BY <1>4, <1>6, <1>7, <1>8, <1>9, HandOnly

(* The claimed invitation stays locked while a number is read. *)
LEMMA JoinClaimsStands == ASSUME Stands, NEW h \in Handler, JoinClaims(h) PROVE Stands'
<1>1. PICK y \in Hand : y = hand[h]
  BY Typed DEF Stands
<1>2. HandStands(y)
  BY <1>1 DEF Stands
<1>3. PICK n \in 1 .. MaxMembers :
        NextNumber(n) /\ Goes(h, [hand[h] EXCEPT !.at = "ENTER", !.number = n])
  BY <1>1, <1>2 DEF JoinClaims
<1>4. n \in Nat /\ y.at = "CLAIM"
  BY <1>1, <1>2, <1>3, MemberAssumption DEF JoinClaims
<1>5. \A m \in Members : member[m].number \in Numbers /\ member[m].number \in Nat
  BY <1>1, <1>2, <1>3, <1>4, Typed DEF Numbers, Stands, Members, Row
<1>6. \A m \in Members : member[m].number # n
  BY <1>1, <1>2, <1>3, <1>4, <1>5 DEF NextNumber
<1>7. [y EXCEPT !.at = "ENTER", !.number = n] \in Hand
  BY <1>1, <1>2, <1>3, <1>4, <1>5, <1>6, BlankRows DEF Hand
<1>8. PICK x \in Hand : x = [y EXCEPT !.at = "ENTER", !.number = n]
  BY <1>7
<1>9. /\ x.at = "ENTER" /\ x.user = y.user /\ x.row = y.row /\ x.inv = y.inv
      /\ x.seen = y.seen /\ x.number = n /\ x.status = y.status /\ x.time = y.time
  BY <1>8, <1>1, <1>2 DEF Hand
<1>10. HandStands(x)
  BY <1>1, <1>2, <1>3, <1>4, <1>5, <1>6, <1>9, NoneIsNothing DEF HandStands, OfRow,
     OfInvitation, OfRequest
<1>11. Goes(h, x)
  BY <1>1, <1>2, <1>3, <1>4, <1>5, <1>6, <1>8 DEF JoinClaims
<1>12. /\ UNCHANGED <<member, invitation, request>>
       /\ now' \in Nat /\ lost' \in Nat /\ group' \in {"OPEN", "DELETED"}
  BY Typed DEF JoinClaims, Stands
<1>13. /\ x.at \in {"ADD", "ENTER"} =>
            /\ \A w \in Members : member[w].number # x.number
            /\ \A k \in Handler : hand[k].at \notin {"ADD", "ENTER"}
       /\ x.at \in {"TELL", "CLEAN"} =>
            hand[h].at \in {"TELL", "CLEAN"} /\ x.row = hand[h].row /\ x.inv = hand[h].inv
  BY <1>1, <1>2, <1>3, <1>4, <1>5, <1>6, <1>9 DEF JoinClaims, Unlocked
<1> QED
  BY <1>8, <1>10, <1>11, <1>12, <1>13, HandOnly

(* A user who is in already does not join again. *)
LEMMA JoinChecksStands == ASSUME Stands, NEW h \in Handler, JoinChecks(h) PROVE Stands'
<1>1. PICK y \in Hand : y = hand[h]
  BY Typed DEF Stands
<1>2. HandStands(y) /\ y.at = "JOIN" /\ now \in Nat
  BY <1>1, Typed DEF Stands, JoinChecks
<1>3. [y EXCEPT !.at = "CLAIM", !.time = now] \in Hand
  BY <1>2 DEF Hand
<1>4. PICK x \in Hand : x = [y EXCEPT !.at = "CLAIM", !.time = now]
  BY <1>3
<1>5. /\ x.at = "CLAIM" /\ x.time = now
      /\ x.user = y.user /\ x.row = y.row /\ x.inv = y.inv
  BY <1>4 DEF Hand
<1>6. HandStands(x)
  BY <1>2, <1>5 DEF HandStands, OfRow, OfInvitation, OfRequest
<1>7. /\ UNCHANGED <<now, group, member, invitation, request, lost>>
      /\ Goes(h, x) \/ Ends(h)
  BY <1>1, <1>4 DEF JoinChecks
<1>8. now' \in Nat /\ lost' \in Nat /\ group' \in {"OPEN", "DELETED"}
  BY <1>7, Typed DEF Stands
<1>9. CASE Goes(h, x)
  BY <1>5, <1>6, <1>7, <1>8, <1>9, HandOnly
<1>10. CASE Ends(h)
  BY <1>7, <1>8, <1>10, OnlyEnds
<1> QED
  BY <1>7, <1>9, <1>10

(* What fails, is refused or is lost changes nothing else. *)
LEMMA FailuresStand ==
  ASSUME Stands, NEW h \in Handler,
         JoinRefused(h) \/ StatusFails(h) \/ Orphaned(h) \/ Lose(h)
  PROVE  Stands'
<1>1. UNCHANGED <<now, group, member, invitation, request>> /\ Ends(h)
  BY DEF JoinRefused, StatusFails, Orphaned, Lose
<1>2. lost' \in Nat
  BY Typed DEF Stands, JoinRefused, StatusFails, Orphaned, Lose
<1> QED
  BY <1>1, <1>2, OnlyEnds

(* The clock. *)
LEMMA TickStands == ASSUME Stands, Tick PROVE Stands'
<1>1. now' \in Nat /\ UNCHANGED <<group, member, invitation, request, lost, hand>>
  BY Typed DEF Stands, Tick
<1>2. TypeOK'
  BY <1>1, Typed DEF Stands, TypeOK
<1>3. RowsStand' /\ NumbersStand' /\ UntoldStand'
  BY <1>1 DEF Stands, RowsStand, LeavingEnds, RemovalSticks, NumbersStand,
         NumbersUnique, UntoldStand, Members, Exists
<1>4. \A h \in Handler : HandStands(hand[h])'
  BY <1>1 DEF Stands, HandStands, OfRow, OfInvitation, OfRequest
<1> QED
  BY <1>2, <1>3, <1>4 DEF Stands

-----------------------------------------------------------------------------
(* The steps that write. *)

(* A member and an invitation of its own: both are new. *)
LEMMA AddCreatesStands == ASSUME Stands, NEW h \in Handler, AddCreates(h) PROVE Stands'
<1>1. PICK y \in Hand : y = hand[h]
  BY Typed DEF Stands
<1>2. PICK m \in Member, i \in Invitation :
        /\ NextRow(m) /\ NextInvitation(i)
        /\ member' = [member EXCEPT ![m] =
             [NoMember EXCEPT !.status = "INVITED", !.role = y.role,
                              !.contact = y.contact, !.number = y.number]]
        /\ invitation' = [invitation EXCEPT ![i] =
             [NoInvitation EXCEPT !.state = "OPEN", !.member = m, !.role = y.role,
                                  !.expires = now + Validity]]
        /\ Goes(h, [Idle EXCEPT !.at = "TELL", !.row = m, !.inv = i])
  BY <1>1 DEF AddCreates
<1>3. /\ y.at = "ADD" /\ y.role \in Roles /\ y.contact \in Contact \cup {None} /\ y.number \in Nat
      /\ m \in Nat /\ i \in Nat /\ now + Validity \in Nat
  BY <1>1, MemberAssumption, NoneIsNothing, Typed DEF Stands, AddCreates, Hand
<1>4. PICK x \in Row :
        x = [NoMember EXCEPT !.status = "INVITED", !.role = y.role,
                             !.contact = y.contact, !.number = y.number]
  <2>1. [NoMember EXCEPT !.status = "INVITED", !.role = y.role,
                         !.contact = y.contact, !.number = y.number] \in Row
    BY <1>3, BlankRows DEF Row, Statuses
  <2> QED
    BY <2>1
<1>5. x.status = "INVITED" /\ x.user = None /\ x.left = None /\ x.number = y.number
  BY <1>4 DEF NoMember
<1>6. PICK v \in InvitationRow :
        v = [NoInvitation EXCEPT !.state = "OPEN", !.member = m, !.role = y.role,
                                 !.expires = now + Validity]
  <2>1. [NoInvitation EXCEPT !.state = "OPEN", !.member = m, !.role = y.role,
                             !.expires = now + Validity] \in InvitationRow
    BY <1>3, BlankRows DEF InvitationRow
  <2> QED
    BY <2>1
<1>7. v.state = "OPEN" /\ v.member = m /\ ~v.told
  BY <1>6 DEF NoInvitation
<1>8. PICK z \in Hand : z = [Idle EXCEPT !.at = "TELL", !.row = m, !.inv = i]
  <2>1. [Idle EXCEPT !.at = "TELL", !.row = m, !.inv = i] \in Hand
    BY <1>3, BlankRows DEF Hand
  <2> QED
    BY <2>1
<1>9. z.at = "TELL" /\ z.row = m /\ z.inv = i
  BY <1>8 DEF Idle
<1>10. /\ member' = [member EXCEPT ![m] = x] /\ invitation' = [invitation EXCEPT ![i] = v]
       /\ Goes(h, z) /\ UNCHANGED <<now, group, request, lost>>
  BY <1>2, <1>4, <1>6, <1>8 DEF AddCreates
<1>11. /\ member' \in [Member -> Row] /\ member'[m] = x
       /\ invitation' \in [Invitation -> InvitationRow] /\ invitation'[i] = v
       /\ member[m].status = "ABSENT" /\ invitation[i].state = "ABSENT"
  BY <1>2, <1>10, Typed DEF Stands, NextRow, NextInvitation
<1>12. Kept
  BY <1>10, <1>11, Typed DEF Stands, Kept
<1>13. HandStands(z)'
  BY <1>9 DEF HandStands, OfRow, OfInvitation, OfRequest
<1>14. hand' \in [Handler -> Hand] /\ \A k \in Handler : HandStands(hand[k])'
  BY <1>10, <1>12, <1>13, HandsKept
<1>15. hand'[h] = z /\ \A k \in Handler \ {h} : hand'[k] = hand[k]
  BY <1>10, Typed DEF Goes, Stands
<1>16. TypeOK'
  BY <1>10, <1>11, <1>14 DEF Stands, TypeOK, InvitationRow, RequestRow
<1>17. RowsStand'
  <2>1. \A j \in Invitation : invitation[j].member # m
    BY <1>11, NoneIsNothing DEF Stands, RowsStand
  <2>2. \A j \in Invitation \ {i} : invitation'[j] = invitation[j]
    BY <1>10
  <2>3. \A n \in Member \ {m} : member'[n] = member[n]
    BY <1>10
  <2>4. \A j \in Invitation \ {i} : invitation[j].member \in Member \cup {0}
    BY Typed DEF Stands, InvitationRow
  <2>5. \A j \in Invitation : invitation'[j].member # 0 =>
          member'[invitation'[j].member].status # "ABSENT"
    <3> SUFFICES ASSUME NEW j \in Invitation, invitation'[j].member # 0
                 PROVE  member'[invitation'[j].member].status # "ABSENT"
      OBVIOUS
    <3>1. CASE j = i
      BY <1>5, <1>7, <1>11, <3>1
    <3>2. CASE j # i
      <4>1. invitation'[j] = invitation[j] /\ invitation[j].member \in Member \ {m}
        BY <2>1, <2>2, <2>4, <3>2
      <4>2. member[invitation[j].member].status # "ABSENT"
        BY <4>1, NoneIsNothing DEF Stands, RowsStand
      <4> QED
        BY <2>3, <4>1, <4>2
    <3> QED
      BY <3>1, <3>2
  <2>6. \A j, k \in Invitation :
          invitation'[j].member # 0 /\ invitation'[j].member = invitation'[k].member => j = k
    BY <1>7, <1>11, <2>1, <2>2 DEF Stands, RowsStand
  <2>7. LeavingEnds'
    BY <1>5, <1>7, <1>11, <2>1, <2>2, <2>3 DEF Stands, RowsStand, LeavingEnds
  <2>8. RemovalSticks'
    BY <1>5, <1>11, <2>3 DEF Stands, RowsStand, RemovalSticks, Members, Exists
  <2> QED
    BY <2>5, <2>6, <2>7, <2>8 DEF RowsStand
<1>18. NumbersStand'
  <2>1. \A n \in Members : member[n].number # y.number
    BY <1>1, <1>3 DEF Stands, NumbersStand
  <2>2. \A n \in Member \ {m} : member'[n] = member[n]
    BY <1>10
  <2>3. NumbersUnique'
    BY <1>5, <1>11, <2>1, <2>2 DEF Stands, NumbersStand, NumbersUnique, Members, Exists
  <2>4. \A k \in Handler : hand'[k].at \notin {"ADD", "ENTER"}
    BY <1>1, <1>3, <1>9, <1>15 DEF Stands, NumbersStand
  <2> QED
    BY <2>3, <2>4 DEF NumbersStand
<1>19. UntoldStand'
  <2>1. ASSUME NEW k \in Handler \ {h}, hand[k].at \in {"TELL", "CLEAN"}
        PROVE  hand[k].row # m /\ hand[k].inv # i /\ hand[k].row \in Member
    BY <1>11, <2>1 DEF Stands, UntoldStand, HandStands, OfRow
  <2>2. \A n \in Member \ {m} : member'[n] = member[n]
    BY <1>10
  <2>3. \A j \in Invitation \ {i} : invitation'[j] = invitation[j]
    BY <1>10
  <2>4. ASSUME NEW k \in Handler \ {h}, hand[k].at \in {"TELL", "CLEAN"}
        PROVE  /\ invitation'[hand[k].inv] = invitation[hand[k].inv]
               /\ member'[hand[k].row] = member[hand[k].row]
    BY <2>1, <2>2, <2>3, <2>4 DEF Stands, HandStands, OfRow
  <2> QED
    BY <1>5, <1>7, <1>9, <1>11, <1>15, <2>1, <2>4 DEF Stands, UntoldStand
<1> QED
  BY <1>14, <1>16, <1>17, <1>18, <1>19 DEF Stands

(* A write of members and invitations that ends its call: what is left to  *)
(* show of it.                                                             *)
LEMMA Written ==
  ASSUME Stands, Kept, NEW h \in Handler, Ends(h), UNCHANGED <<now, group, request, lost>>,
         member' \in [Member -> Row], invitation' \in [Invitation -> InvitationRow],
         \A i \in Invitation : invitation'[i].member \in {0, invitation[i].member},
         \A m \in Member : member[m].status # "ABSENT" => member'[m].status # "ABSENT",
         LeavingEnds', RemovalSticks', NumbersStand', UntoldStand'
  PROVE  Stands'
<1>1. hand' \in [Handler -> Hand] /\ \A k \in Handler : HandStands(hand[k])'
  BY EndsKept
<1>2. TypeOK'
  BY <1>1 DEF Stands, TypeOK, InvitationRow, RequestRow
<1>3. RowsStand'
  <2>1. \A i \in Invitation : invitation[i].member # 0 =>
          invitation[i].member \in Member /\ member[invitation[i].member].status # "ABSENT"
    BY Typed DEF Stands, RowsStand, InvitationRow
  <2>2. \A i \in Invitation : invitation'[i].member # 0 =>
          member'[invitation'[i].member].status # "ABSENT"
    BY <2>1
  <2>3. \A i, j \in Invitation :
          invitation'[i].member # 0 /\ invitation'[i].member = invitation'[j].member => i = j
    BY DEF Stands, RowsStand
  <2> QED
    BY <2>2, <2>3 DEF RowsStand
<1> QED
  BY <1>1, <1>2, <1>3 DEF Stands

(* Nobody comes in and no number changes. *)
LEMMA NumbersKept ==
  ASSUME Stands, Kept, NEW h \in Handler, Ends(h),
         \A m \in Member : Exists(m)' => Exists(m) /\ member'[m].number = member[m].number
  PROVE  NumbersStand'
<1>1. hand'[h].at = "IDLE" /\ \A k \in Handler \ {h} : hand'[k] = hand[k]
  BY EndsKept
<1>2. NumbersUnique'
  BY DEF Stands, NumbersStand, NumbersUnique, Members
<1>3. ASSUME NEW k \in Handler, hand'[k].at \in {"ADD", "ENTER"}
      PROVE  /\ \A m \in Member : Exists(m)' => member'[m].number # hand'[k].number
             /\ \A j \in Handler \ {k} : hand'[j].at \notin {"ADD", "ENTER"}
  <2>1. k # h /\ hand'[k] = hand[k]
    BY <1>1, <1>3
  <2>2. /\ \A m \in Member : Exists(m) => member[m].number # hand[k].number
        /\ \A j \in Handler \ {k} : hand[j].at \notin {"ADD", "ENTER"}
    BY <1>3, <2>1 DEF Stands, NumbersStand, Members
  <2> QED
    BY <1>1, <2>1, <2>2
<1> QED
  BY <1>2, <1>3 DEF NumbersStand, Members

(* The rows whose messages other calls still send are left alone. *)
LEMMA UntoldKept ==
  ASSUME Stands, Kept, NEW h \in Handler, Ends(h),
         \A m \in Member : member[m].status = "GONE" => member'[m].status = "GONE",
         \A k \in Handler \ {h} :
           LET m == hand[k].row
               i == hand[k].inv
           IN /\ hand[k].at \in {"TELL", "CLEAN"} /\ member[m].status # "GONE"
              => /\ invitation'[i].state = "OPEN" /\ ~invitation'[i].told
                 /\ invitation'[i].member = m
                 /\ member'[m].user = None
                 /\ member'[m].status \in {"INVITED", "SUSPENDED", "REMOVED"}
  PROVE  UntoldStand'
<1>1. hand'[h].at = "IDLE" /\ \A k \in Handler \ {h} : hand'[k] = hand[k]
  BY EndsKept
<1> SUFFICES ASSUME NEW k \in Handler, hand'[k].at \in {"TELL", "CLEAN"}
             PROVE  (LET m == hand[k].row
                         i == hand[k].inv
                     IN /\ invitation[i].state # "ABSENT"
                        /\ \A j \in Handler \ {k} :
                             hand[j].at \in {"TELL", "CLEAN"} => hand[j].inv # i
                        /\ \/ member[m].status = "GONE"
                           \/ /\ invitation[i].state = "OPEN" /\ ~invitation[i].told
                              /\ invitation[i].member = m /\ member[m].user = None
                              /\ member[m].status \in {"INVITED", "SUSPENDED", "REMOVED"})'
  BY DEF UntoldStand
<1>2. k # h /\ hand'[k] = hand[k] /\ hand[k].at \in {"TELL", "CLEAN"}
  BY <1>1
<1>3. /\ hand[k].row \in Member /\ hand[k].inv \in Invitation
      /\ invitation[hand[k].inv].state \in {"OPEN", "GONE"}
      /\ \A j \in Handler \ {k} :
           hand[j].at \in {"TELL", "CLEAN"} => hand[j].inv # hand[k].inv
  BY <1>2, Typed DEF Stands, UntoldStand, HandStands, OfRow, InvitationRow
<1>4. invitation'[hand[k].inv].state # "ABSENT"
  BY <1>3 DEF Kept
<1>5. \A j \in Handler \ {k} : hand'[j].at \in {"TELL", "CLEAN"} => hand'[j].inv # hand[k].inv
  BY <1>1, <1>3
<1>6. \/ member'[hand[k].row].status = "GONE"
      \/ /\ invitation'[hand[k].inv].state = "OPEN" /\ ~invitation'[hand[k].inv].told
         /\ invitation'[hand[k].inv].member = hand[k].row /\ member'[hand[k].row].user = None
         /\ member'[hand[k].row].status \in {"INVITED", "SUSPENDED", "REMOVED"}
  BY <1>2, <1>3
<1> QED
  BY <1>2, <1>4, <1>5, <1>6

(* A request that moves while the rows stay. *)
LEMMA RequestsOnly ==
  ASSUME Stands, Kept, NEW h \in Handler, Ends(h),
         UNCHANGED <<now, group, member, invitation, lost>>,
         request' \in [Request -> RequestRow]
  PROVE  Stands'
<1>1. /\ hand' \in [Handler -> Hand] /\ \A k \in Handler : HandStands(hand[k])'
      /\ hand'[h].at = "IDLE" /\ \A k \in Handler \ {h} : hand'[k] = hand[k]
  BY EndsKept
<1>2. TypeOK'
  BY <1>1 DEF Stands, TypeOK, InvitationRow, RequestRow
<1>3. RowsStand'
  BY DEF Stands, RowsStand, LeavingEnds, RemovalSticks, Members, Exists
<1>4. NumbersStand'
  BY NumbersKept DEF Stands, Exists
<1>5. UntoldStand'
  BY <1>1 DEF Stands, UntoldStand
<1> QED
  BY <1>1, <1>2, <1>3, <1>4, <1>5 DEF Stands

(* The message is taken: the call's own invitation, which no other call has. *)
LEMMA AddTellsStands == ASSUME Stands, NEW h \in Handler, AddTells(h) PROVE Stands'
<1>1. PICK y \in Hand : y = hand[h]
  BY Typed DEF Stands
<1>2. /\ y.at = "TELL" /\ y.inv \in Invitation
      /\ \A k \in Handler \ {h} : hand[k].at \in {"TELL", "CLEAN"} => hand[k].inv # y.inv
  BY <1>1 DEF Stands, AddTells, UntoldStand, HandStands, OfRow
<1>3. PICK i \in Invitation : i = y.inv
  BY <1>2
<1>4. PICK v \in InvitationRow : v = invitation[i]
  BY Typed DEF Stands
<1>5. PICK w \in InvitationRow : w = [v EXCEPT !.told = v.state = "OPEN"]
  <2>1. [v EXCEPT !.told = v.state = "OPEN"] \in InvitationRow
    BY DEF InvitationRow
  <2> QED
    BY <2>1
<1>6. /\ w.state = v.state /\ w.member = v.member /\ w.expires = v.expires
      /\ w.accepted = v.accepted /\ (w.told <=> v.state = "OPEN")
  BY <1>5 DEF InvitationRow
<1>7. /\ invitation' = [invitation EXCEPT ![i] = w]
      /\ Ends(h) /\ UNCHANGED <<now, group, member, request, lost>>
  BY <1>1, <1>3, <1>4, <1>5 DEF AddTells
<1>8. /\ invitation' \in [Invitation -> InvitationRow] /\ invitation'[i] = w
      /\ \A j \in Invitation \ {i} : invitation'[j] = invitation[j]
  BY <1>7, Typed DEF Stands
<1>9. Kept
  BY <1>4, <1>6, <1>7, <1>8, Typed DEF Stands, Kept, InvitationRow
<1>10. LeavingEnds' /\ RemovalSticks'
  BY <1>4, <1>6, <1>7, <1>8 DEF Stands, RowsStand, LeavingEnds, RemovalSticks, Members, Exists
<1>11. NumbersStand'
  BY <1>7, <1>9, NumbersKept DEF Exists
<1>12. UntoldStand'
  <2>1. ASSUME NEW k \in Handler \ {h}, hand[k].at \in {"TELL", "CLEAN"}
        PROVE  invitation'[hand[k].inv] = invitation[hand[k].inv]
    BY <1>2, <1>3, <1>8, <2>1 DEF Stands, HandStands, OfRow
  <2>2. \A k \in Handler \ {h} :
          LET m == hand[k].row
              j == hand[k].inv
          IN /\ hand[k].at \in {"TELL", "CLEAN"} /\ member[m].status # "GONE"
             => /\ invitation'[j].state = "OPEN" /\ ~invitation'[j].told
                /\ invitation'[j].member = m /\ member'[m].user = None
                /\ member'[m].status \in {"INVITED", "SUSPENDED", "REMOVED"}
    BY <1>7, <2>1 DEF Stands, UntoldStand
  <2> QED
    BY <1>7, <1>9, <2>2, UntoldKept
<1>13. \A j \in Invitation : invitation'[j].member \in {0, invitation[j].member}
  BY <1>4, <1>6, <1>8
<1>14. member' \in [Member -> Row] /\ \A m \in Member : member'[m] = member[m]
  BY <1>7, Typed DEF Stands
<1> QED
  BY <1>7, <1>8, <1>9, <1>10, <1>11, <1>12, <1>13, <1>14, Written

(* The row of a message nobody took is deleted with its invitation. *)
LEMMA AddCleansUpStands == ASSUME Stands, NEW h \in Handler, AddCleansUp(h) PROVE Stands'
<1>1. PICK y \in Hand : y = hand[h]
  BY Typed DEF Stands
<1>2. /\ y.at = "CLEAN" /\ y.row \in Member /\ y.inv \in Invitation
      /\ \A k \in Handler \ {h} : hand[k].at \in {"TELL", "CLEAN"} => hand[k].inv # y.inv
      /\ member[y.row].status = "GONE" \/ invitation[y.inv].member = y.row
      /\ invitation[y.inv].state # "ABSENT"
  BY <1>1 DEF Stands, AddCleansUp, UntoldStand, HandStands, OfRow
<1>3. PICK m \in Member, i \in Invitation : m = y.row /\ i = y.inv
  BY <1>2
<1>4. /\ member' = [member EXCEPT ![m] = Gone]
      /\ invitation' = [invitation EXCEPT ![i] = Withdrawn]
      /\ Ends(h) /\ UNCHANGED <<now, group, request, lost>>
  BY <1>1, <1>3 DEF AddCleansUp
<1>5. /\ invitation' \in [Invitation -> InvitationRow] /\ member' \in [Member -> Row]
      /\ invitation'[i].state = "GONE" /\ invitation'[i].member = 0
      /\ member'[m].status = "GONE"
      /\ \A j \in Invitation \ {i} : invitation'[j] = invitation[j]
      /\ \A n \in Member \ {m} : member'[n] = member[n]
  BY <1>4, BlankRows, BlankFields, Typed DEF Stands
<1>6. Kept
  BY <1>4, <1>5, Typed DEF Stands, Kept, InvitationRow
<1>7. LeavingEnds'
  <2> SUFFICES ASSUME NEW j \in Invitation, NEW n \in Member,
                      invitation'[j].member = n, invitation'[j].state = "OPEN",
                      ~invitation'[j].accepted, member'[n].left # None
               PROVE  invitation'[j].expires <= member'[n].left
    BY DEF LeavingEnds
  <2>1. j # i /\ invitation'[j] = invitation[j]
    BY <1>5
  <2>2. CASE n = m
    BY <1>4, <1>5, <2>2 DEF Gone, NoMember
  <2>3. CASE n # m
    BY <1>5, <2>1, <2>3 DEF Stands, RowsStand, LeavingEnds
  <2> QED
    BY <2>2, <2>3
<1>8. RemovalSticks'
  BY <1>5 DEF Stands, RowsStand, RemovalSticks, Members, Exists, Statuses
<1>9. NumbersStand'
  <2>1. \A n \in Member : Exists(n)' => Exists(n) /\ member'[n].number = member[n].number
    BY <1>5 DEF Exists, Statuses
  <2> QED
    BY <1>4, <1>6, <2>1, NumbersKept
<1>10. UntoldStand'
  <2>1. ASSUME NEW k \in Handler \ {h}, hand[k].at \in {"TELL", "CLEAN"},
               member[hand[k].row].status # "GONE"
        PROVE  /\ invitation'[hand[k].inv] = invitation[hand[k].inv]
               /\ member'[hand[k].row] = member[hand[k].row]
    <3>1. /\ hand[k].inv \in Invitation \ {i} /\ hand[k].row \in Member
          /\ invitation[hand[k].inv].member = hand[k].row
      BY <1>2, <1>3, <2>1 DEF Stands, UntoldStand, HandStands, OfRow
    <3>2. hand[k].row # m
      BY <1>2, <1>3, <2>1, <3>1, NoneIsNothing DEF Stands, RowsStand
    <3> QED
      BY <1>5, <3>1, <3>2
  <2>2. \A k \in Handler \ {h} :
          LET n == hand[k].row
              j == hand[k].inv
          IN /\ hand[k].at \in {"TELL", "CLEAN"} /\ member[n].status # "GONE"
             => /\ invitation'[j].state = "OPEN" /\ ~invitation'[j].told
                /\ invitation'[j].member = n /\ member'[n].user = None
                /\ member'[n].status \in {"INVITED", "SUSPENDED", "REMOVED"}
    BY <2>1 DEF Stands, UntoldStand
  <2>3. \A n \in Member : member[n].status = "GONE" => member'[n].status = "GONE"
    BY <1>5
  <2> QED
    BY <1>4, <1>6, <2>2, <2>3, UntoldKept
<1>11. /\ \A j \in Invitation : invitation'[j].member \in {0, invitation[j].member}
       /\ \A n \in Member : member[n].status # "ABSENT" => member'[n].status # "ABSENT"
  BY <1>5
<1> QED
  BY <1>4, <1>5, <1>6, <1>7, <1>8, <1>9, <1>10, <1>11, Written

(* An open invitation is nobody's in particular. *)
LEMMA InviteStands == ASSUME Stands, NEW h \in Handler, Invite(h) PROVE Stands'
<1>1. PICK i \in Invitation, r \in InvitedRoles :
        /\ NextInvitation(i)
        /\ invitation' = [invitation EXCEPT ![i] =
             [NoInvitation EXCEPT !.state = "OPEN", !.role = r, !.expires = now + Validity,
                                  !.told = TRUE]]
  BY DEF Invite
<1>2. r \in Roles /\ now + Validity \in Nat
  BY MemberAssumption, Typed DEF Stands
<1>3. PICK v \in InvitationRow :
        v = [NoInvitation EXCEPT !.state = "OPEN", !.role = r, !.expires = now + Validity,
                                 !.told = TRUE]
  <2>1. [NoInvitation EXCEPT !.state = "OPEN", !.role = r, !.expires = now + Validity,
                             !.told = TRUE] \in InvitationRow
    BY <1>2, BlankRows DEF InvitationRow
  <2> QED
    BY <2>1
<1>4. v.state = "OPEN" /\ v.member = 0
  BY <1>3 DEF NoInvitation
<1>5. /\ invitation' \in [Invitation -> InvitationRow] /\ invitation'[i] = v
      /\ invitation[i].state = "ABSENT"
      /\ \A j \in Invitation \ {i} : invitation'[j] = invitation[j]
      /\ UNCHANGED <<now, group, member, request, lost, hand>>
  BY <1>1, <1>3, Typed DEF Stands, Invite, NextInvitation
<1>6. Kept
  BY <1>5, Typed DEF Stands, Kept
<1>7. \A k \in Handler : HandStands(hand[k])'
  <2> SUFFICES ASSUME NEW k \in Handler PROVE HandStands(hand[k])'
    OBVIOUS
  <2>1. PICK y \in Hand : y = hand[k]
    BY Typed DEF Stands
  <2>2. HandStands(y)'
    BY <1>6, <2>1, HandKept DEF Stands
  <2> QED
    BY <1>5, <2>1, <2>2 DEF HandStands, OfRow, OfInvitation, OfRequest
<1>8. TypeOK'
  BY <1>5 DEF Stands, TypeOK, InvitationRow, RequestRow
<1>9. RowsStand'
  <2>1. /\ \A j \in Invitation : invitation'[j].member # 0 =>
             invitation'[j] = invitation[j] /\ j # i
        /\ UNCHANGED member
    BY <1>4, <1>5
  <2> QED
    BY <2>1, NoneIsNothing DEF Stands, RowsStand, LeavingEnds, RemovalSticks, Members, Exists
<1>10. NumbersStand'
  BY <1>5 DEF Stands, NumbersStand, NumbersUnique, Members, Exists
<1>11. UntoldStand'
  <2>1. ASSUME NEW k \in Handler, hand[k].at \in {"TELL", "CLEAN"}
        PROVE  invitation'[hand[k].inv] = invitation[hand[k].inv]
    BY <1>5, <2>1 DEF Stands, UntoldStand, HandStands, OfRow
  <2> QED
    BY <1>5, <2>1 DEF Stands, UntoldStand
<1> QED
  BY <1>7, <1>8, <1>9, <1>10, <1>11 DEF Stands

(* An acceptance is earlier than the end its invitation had. *)
LEMMA JoinActivatesStands == ASSUME Stands, NEW h \in Handler, JoinActivates(h) PROVE Stands'
<1>1. PICK y \in Hand : y = hand[h]
  BY Typed DEF Stands
<1>2. /\ y.at = "CLAIM" /\ y.row \in Member /\ y.inv \in Invitation /\ y.user \in User
      /\ y.time \in Nat /\ member[y.row].status \in Statuses
      /\ invitation[y.inv].state = "OPEN" /\ invitation[y.inv].told
      /\ invitation[y.inv].member = y.row
      /\ ~invitation[y.inv].accepted /\ invitation[y.inv].expires > y.time
  BY <1>1 DEF Stands, HandStands, OfInvitation, JoinActivates, Claimable, MayActivate, Open, Exists
<1>3. PICK m \in Member, i \in Invitation : m = y.row /\ i = y.inv
  BY <1>2
<1>4. PICK v \in InvitationRow, u \in Row : v = invitation[i] /\ u = member[m]
  BY Typed DEF Stands
<1>5. PICK w \in InvitationRow : w = [v EXCEPT !.accepted = TRUE]
  <2>1. [v EXCEPT !.accepted = TRUE] \in InvitationRow
    BY DEF InvitationRow
  <2> QED
    BY <2>1
<1>6. /\ w.state = v.state /\ w.member = v.member /\ w.expires = v.expires
      /\ w.accepted /\ w.told = v.told
  BY <1>5 DEF InvitationRow
<1>7. v.role \in Roles
  BY DEF InvitationRow
<1>8. PICK x \in Row :
        x = [u EXCEPT !.status = "ACTIVE", !.user = y.user, !.role = v.role, !.joined = y.time]
  <2>1. [u EXCEPT !.status = "ACTIVE", !.user = y.user, !.role = v.role,
                  !.joined = y.time] \in Row
    BY <1>2, <1>7 DEF Row, Statuses
  <2> QED
    BY <2>1
<1>9. /\ x.status = "ACTIVE" /\ x.joined = y.time /\ x.left = u.left /\ x.number = u.number
  BY <1>8 DEF Row
<1>10. /\ member' = [member EXCEPT ![m] = x] /\ invitation' = [invitation EXCEPT ![i] = w]
       /\ Ends(h) /\ UNCHANGED <<now, group, request, lost>>
  BY <1>1, <1>3, <1>4, <1>5, <1>8 DEF JoinActivates
<1>11. /\ invitation' \in [Invitation -> InvitationRow] /\ member' \in [Member -> Row]
       /\ invitation'[i] = w /\ member'[m] = x
       /\ \A j \in Invitation \ {i} : invitation'[j] = invitation[j]
       /\ \A n \in Member \ {m} : member'[n] = member[n]
  BY <1>10, Typed DEF Stands
<1>12. Kept
  BY <1>4, <1>6, <1>10, <1>11, Typed DEF Stands, Kept, InvitationRow
<1>13. LeavingEnds'
  BY <1>4, <1>6, <1>9, <1>11 DEF Stands, RowsStand, LeavingEnds
<1>14. RemovalSticks'
  <2>1. u.left # None => y.time < u.left
    <3> SUFFICES ASSUME u.left # None PROVE y.time < u.left
      OBVIOUS
    <3>1. v.expires <= u.left
      BY <1>2, <1>3, <1>4 DEF Stands, RowsStand, LeavingEnds
    <3>2. v.expires \in Nat /\ u.left \in Nat
      BY DEF InvitationRow, Row
    <3> QED
      BY <1>2, <1>3, <1>4, <3>1, <3>2
  <2> QED
    BY <1>9, <1>11, <2>1 DEF Stands, RowsStand, RemovalSticks, Members, Exists
<1>15. NumbersStand'
  <2>1. \A n \in Member : Exists(n)' => Exists(n) /\ member'[n].number = member[n].number
    BY <1>2, <1>3, <1>4, <1>9, <1>11 DEF Exists
  <2> QED
    BY <1>10, <1>12, <2>1, NumbersKept
<1>16. UntoldStand'
  <2>1. ASSUME NEW k \in Handler \ {h}, hand[k].at \in {"TELL", "CLEAN"},
               member[hand[k].row].status # "GONE"
        PROVE  /\ invitation'[hand[k].inv] = invitation[hand[k].inv]
               /\ member'[hand[k].row] = member[hand[k].row]
    <3>1. /\ hand[k].inv \in Invitation /\ hand[k].row \in Member
          /\ ~invitation[hand[k].inv].told
          /\ invitation[hand[k].inv].member = hand[k].row
      BY <2>1 DEF Stands, UntoldStand, HandStands, OfRow
    <3>2. hand[k].inv # i
      BY <1>2, <1>3, <3>1
    <3>3. hand[k].row # m
      BY <1>2, <1>3, <3>1, <3>2, NoneIsNothing DEF Stands, RowsStand
    <3> QED
      BY <1>11, <3>1, <3>2, <3>3
  <2>2. \A k \in Handler \ {h} :
          LET n == hand[k].row
              j == hand[k].inv
          IN /\ hand[k].at \in {"TELL", "CLEAN"} /\ member[n].status # "GONE"
             => /\ invitation'[j].state = "OPEN" /\ ~invitation'[j].told
                /\ invitation'[j].member = n /\ member'[n].user = None
                /\ member'[n].status \in {"INVITED", "SUSPENDED", "REMOVED"}
    BY <2>1 DEF Stands, UntoldStand
  <2>3. \A n \in Member : member[n].status = "GONE" => member'[n].status = "GONE"
    BY <1>2, <1>3, <1>11 DEF Statuses
  <2> QED
    BY <1>10, <1>12, <2>2, <2>3, UntoldKept
<1>17. /\ \A j \in Invitation : invitation'[j].member \in {0, invitation[j].member}
       /\ \A n \in Member : member[n].status # "ABSENT" => member'[n].status # "ABSENT"
  BY <1>4, <1>6, <1>9, <1>11
<1> QED
  BY <1>10, <1>11, <1>12, <1>13, <1>14, <1>15, <1>16, <1>17, Written

(* A new member has the number that was read under the lock. *)
LEMMA JoinCreatesStands == ASSUME Stands, NEW h \in Handler, JoinCreates(h) PROVE Stands'
<1>1. PICK y \in Hand : y = hand[h]
  BY Typed DEF Stands
<1>2. /\ y.at = "ENTER" /\ y.inv \in Invitation /\ y.user \in User /\ y.time \in Nat
      /\ y.number \in Nat
      /\ invitation[y.inv].state = "GONE" \/ invitation[y.inv].told
  BY <1>1 DEF Stands, HandStands, OfInvitation, JoinCreates, Hand
<1>3. PICK i \in Invitation : i = y.inv
  BY <1>2
<1>4. PICK v \in InvitationRow : v = invitation[i]
  BY Typed DEF Stands
<1>5. PICK w \in InvitationRow : w = [v EXCEPT !.accepted = TRUE]
  <2>1. [v EXCEPT !.accepted = TRUE] \in InvitationRow
    BY DEF InvitationRow
  <2> QED
    BY <2>1
<1>6. /\ w.state = v.state /\ w.member = v.member /\ w.expires = v.expires
      /\ w.accepted /\ w.told = v.told
  BY <1>5 DEF InvitationRow
<1>7. v.role \in Roles
  BY DEF InvitationRow
<1>8. PICK m \in Member :
        /\ NextRow(m)
        /\ member' = [member EXCEPT ![m] =
             [NoMember EXCEPT !.status = "ACTIVE", !.user = y.user, !.role = v.role,
                              !.number = y.number, !.joined = y.time]]
  BY <1>1, <1>3, <1>4 DEF JoinCreates
<1>9. PICK x \in Row :
        x = [NoMember EXCEPT !.status = "ACTIVE", !.user = y.user, !.role = v.role,
                             !.number = y.number, !.joined = y.time]
  <2>1. [NoMember EXCEPT !.status = "ACTIVE", !.user = y.user, !.role = v.role,
                         !.number = y.number, !.joined = y.time] \in Row
    BY <1>2, <1>7, BlankRows DEF Row, Statuses
  <2> QED
    BY <2>1
<1>10. x.status = "ACTIVE" /\ x.left = None /\ x.number = y.number
  BY <1>9 DEF NoMember
<1>11. /\ member' = [member EXCEPT ![m] = x] /\ invitation' = [invitation EXCEPT ![i] = w]
       /\ Ends(h) /\ UNCHANGED <<now, group, request, lost>>
  BY <1>1, <1>3, <1>4, <1>5, <1>8, <1>9 DEF JoinCreates
<1>12. /\ invitation' \in [Invitation -> InvitationRow] /\ member' \in [Member -> Row]
       /\ invitation'[i] = w /\ member'[m] = x /\ member[m].status = "ABSENT"
       /\ \A j \in Invitation \ {i} : invitation'[j] = invitation[j]
       /\ \A n \in Member \ {m} : member'[n] = member[n]
  BY <1>8, <1>11, Typed DEF Stands, NextRow
<1>13. Kept
  BY <1>4, <1>6, <1>11, <1>12, Typed DEF Stands, Kept, InvitationRow
<1>14. LeavingEnds' /\ RemovalSticks'
  BY <1>4, <1>6, <1>10, <1>12
     DEF Stands, RowsStand, LeavingEnds, RemovalSticks, Members, Exists
<1>15. NumbersStand'
  <2>1. /\ \A n \in Members : member[n].number # y.number
        /\ \A k \in Handler \ {h} : hand[k].at \notin {"ADD", "ENTER"}
    BY <1>1, <1>2 DEF Stands, NumbersStand
  <2>2. NumbersUnique'
    BY <1>10, <1>12, <2>1 DEF Stands, NumbersStand, NumbersUnique, Members, Exists
  <2>3. \A k \in Handler : hand'[k].at \notin {"ADD", "ENTER"}
    BY <1>11, <1>13, <2>1, EndsKept
  <2> QED
    BY <2>2, <2>3 DEF NumbersStand
<1>16. UntoldStand'
  <2>1. ASSUME NEW k \in Handler \ {h}, hand[k].at \in {"TELL", "CLEAN"},
               member[hand[k].row].status # "GONE"
        PROVE  /\ invitation'[hand[k].inv] = invitation[hand[k].inv]
               /\ member'[hand[k].row] = member[hand[k].row]
    <3>1. /\ hand[k].inv \in Invitation /\ hand[k].row \in Member
          /\ ~invitation[hand[k].inv].told /\ invitation[hand[k].inv].state = "OPEN"
          /\ member[hand[k].row].status # "ABSENT"
      BY <2>1 DEF Stands, UntoldStand, HandStands, OfRow
    <3> QED
      BY <1>2, <1>3, <1>12, <3>1
  <2>2. \A k \in Handler \ {h} :
          LET n == hand[k].row
              j == hand[k].inv
          IN /\ hand[k].at \in {"TELL", "CLEAN"} /\ member[n].status # "GONE"
             => /\ invitation'[j].state = "OPEN" /\ ~invitation'[j].told
                /\ invitation'[j].member = n /\ member'[n].user = None
                /\ member'[n].status \in {"INVITED", "SUSPENDED", "REMOVED"}
    BY <2>1 DEF Stands, UntoldStand
  <2>3. \A n \in Member : member[n].status = "GONE" => member'[n].status = "GONE"
    BY <1>12
  <2> QED
    BY <1>11, <1>13, <2>2, <2>3, UntoldKept
<1>17. /\ \A j \in Invitation : invitation'[j].member \in {0, invitation[j].member}
       /\ \A n \in Member : member[n].status # "ABSENT" => member'[n].status # "ABSENT"
  BY <1>4, <1>6, <1>10, <1>12
<1> QED
  BY <1>11, <1>12, <1>13, <1>14, <1>15, <1>16, <1>17, Written

(* A role says nothing of who is in. *)
LEMMA AssignWritesStands == ASSUME Stands, NEW h \in Handler, AssignWrites(h) PROVE Stands'
<1>1. PICK y \in Hand : y = hand[h]
  BY Typed DEF Stands
<1>2. y.row \in Member /\ y.role \in Roles
  BY <1>1 DEF Stands, HandStands, OfRow, AssignWrites, Hand
<1>3. PICK m \in Member : m = y.row
  BY <1>2
<1>4. PICK u \in Row : u = member[m]
  BY Typed DEF Stands
<1>5. PICK x \in Row : x = [u EXCEPT !.role = y.role]
  <2>1. [u EXCEPT !.role = y.role] \in Row
    BY <1>2 DEF Row
  <2> QED
    BY <2>1
<1>6. /\ x.status = u.status /\ x.user = u.user /\ x.number = u.number
      /\ x.joined = u.joined /\ x.left = u.left
  BY <1>5 DEF Row
<1>7. /\ member' = [member EXCEPT ![m] = x] \/ member' = member
      /\ Ends(h) /\ UNCHANGED <<now, group, invitation, request, lost>>
  BY <1>1, <1>3, <1>4, <1>5 DEF AssignWrites
<1>8. /\ member' \in [Member -> Row]
      /\ \A n \in Member : /\ member'[n].status = member[n].status
                           /\ member'[n].user = member[n].user
                           /\ member'[n].number = member[n].number
                           /\ member'[n].joined = member[n].joined
                           /\ member'[n].left = member[n].left
  BY <1>4, <1>6, <1>7, Typed DEF Stands
<1>9. Kept /\ invitation' \in [Invitation -> InvitationRow]
  BY <1>7, Typed DEF Stands, Kept, InvitationRow
<1>10. LeavingEnds' /\ RemovalSticks'
  BY <1>7, <1>8 DEF Stands, RowsStand, LeavingEnds, RemovalSticks, Members, Exists
<1>11. NumbersStand'
  BY <1>7, <1>8, <1>9, NumbersKept DEF Exists
<1>12. UntoldStand'
  <2>1. \A k \in Handler \ {h} :
          LET n == hand[k].row
              j == hand[k].inv
          IN /\ hand[k].at \in {"TELL", "CLEAN"} /\ member[n].status # "GONE"
             => /\ invitation'[j].state = "OPEN" /\ ~invitation'[j].told
                /\ invitation'[j].member = n /\ member'[n].user = None
                /\ member'[n].status \in {"INVITED", "SUSPENDED", "REMOVED"}
    BY <1>7, <1>8 DEF Stands, UntoldStand, HandStands, OfRow
  <2> QED
    BY <1>7, <1>8, <1>9, <2>1, UntoldKept
<1>13. \A j \in Invitation : invitation'[j].member \in {0, invitation[j].member}
  BY <1>7
<1> QED
  BY <1>7, <1>8, <1>9, <1>10, <1>11, <1>12, <1>13, Written

(* Whoever leaves ends the invitation; whoever comes back has not left. *)
LEMMA StatusWritesStands == ASSUME Stands, NEW h \in Handler, StatusWrites(h) PROVE Stands'
<1>1. PICK y \in Hand : y = hand[h]
  BY Typed DEF Stands
<1>2. /\ y.row \in Member /\ y.status \in Statuses /\ member[y.row] = y.seen
      /\ y.seen.status \in Statuses /\ now \in Nat
      /\ y.status = "ACTIVE" => y.seen.user # None
  BY <1>1, Typed DEF Stands, HandStands, OfRow, StatusWrites, UnchangedSinceRead, Hand
<1>3. PICK m \in Member : m = y.row
  BY <1>2
<1>4. PICK u \in Row : u = member[m]
  BY Typed DEF Stands
<1>5. PICK t \in Nat \cup {None} : t = IF y.status # "ACTIVE" THEN now ELSE None
  BY <1>2
<1>6. PICK x \in Row : x = [u EXCEPT !.status = y.status, !.left = t]
  <2>1. [u EXCEPT !.status = y.status, !.left = t] \in Row
    BY <1>2 DEF Row
  <2> QED
    BY <2>1
<1>7. /\ x.status = y.status /\ x.left = t /\ x.user = u.user /\ x.number = u.number
  BY <1>6 DEF Row
<1>8. /\ member' = [member EXCEPT ![m] = x]
      /\ invitation' = IF y.status # "ACTIVE" THEN ExpiredWith(m) ELSE invitation
      /\ Ends(h) /\ UNCHANGED <<now, group, request, lost>>
  <2>1. /\ member' = [member EXCEPT ![y.row].status = y.status,
                                    ![y.row].left = IF y.status # "ACTIVE" THEN now ELSE None]
        /\ invitation' = IF y.status # "ACTIVE" THEN ExpiredWith(y.row) ELSE invitation
        /\ Ends(h) /\ UNCHANGED <<now, group, request, lost>>
    BY <1>1 DEF StatusWrites
  <2> QED
    BY <1>3, <1>4, <1>5, <1>6, <2>1, Typed DEF Stands
<1>9. /\ member' \in [Member -> Row] /\ member'[m] = x
      /\ \A n \in Member \ {m} : member'[n] = member[n]
  BY <1>8, Typed DEF Stands
<1>10. ASSUME NEW i \in Invitation
       PROVE  [invitation[i] EXCEPT !.expires = now] \in InvitationRow
  <2>1. PICK v \in InvitationRow : v = invitation[i]
    BY Typed DEF Stands
  <2>2. [v EXCEPT !.expires = now] \in InvitationRow
    BY <1>2 DEF InvitationRow
  <2> QED
    BY <2>1, <2>2
<1>11. /\ invitation' \in [Invitation -> InvitationRow]
       /\ \A i \in Invitation :
            \/ invitation'[i] = invitation[i]
            \/ invitation'[i] = [invitation[i] EXCEPT !.expires = now]
       /\ y.status # "ACTIVE" => \A i \in Invitation :
            invitation[i].member = m /\ ~invitation[i].accepted =>
              invitation'[i] = [invitation[i] EXCEPT !.expires = now]
       /\ \A i \in Invitation : invitation[i].member # m => invitation'[i] = invitation[i]
  BY <1>8, <1>10, Typed DEF Stands, ExpiredWith
<1>12. \A i \in Invitation : LET v == [invitation[i] EXCEPT !.expires = now]
                             IN /\ v.state = invitation[i].state /\ v.member = invitation[i].member
                                /\ v.told = invitation[i].told
                                /\ v.accepted = invitation[i].accepted /\ v.expires = now
  BY Typed DEF Stands, InvitationRow
<1>13. \A i \in Invitation : /\ invitation'[i].state = invitation[i].state
                             /\ invitation'[i].member = invitation[i].member
                             /\ invitation'[i].told = invitation[i].told
                             /\ invitation'[i].accepted = invitation[i].accepted
  BY <1>11, <1>12
<1>14. Kept
  BY <1>8, <1>13, Typed DEF Stands, Kept, InvitationRow
<1>15. LeavingEnds'
  <2> SUFFICES ASSUME NEW i \in Invitation, NEW n \in Member,
                      invitation'[i].member = n, invitation'[i].state = "OPEN",
                      ~invitation'[i].accepted, member'[n].left # None
               PROVE  invitation'[i].expires <= member'[n].left
    BY DEF LeavingEnds
  <2>1. CASE n = m
    <3>1. y.status # "ACTIVE" /\ t = now
      BY <1>5, <1>7, <1>9, <2>1
    <3>2. invitation'[i].expires = now /\ member'[n].left = now
      BY <1>7, <1>9, <1>11, <1>12, <1>13, <2>1, <3>1
    <3> QED
      BY <1>2, <3>2
  <2>2. CASE n # m
    BY <1>9, <1>11, <1>13, <2>2 DEF Stands, RowsStand, LeavingEnds
  <2> QED
    BY <2>1, <2>2
<1>16. RemovalSticks'
  BY <1>5, <1>7, <1>9 DEF Stands, RowsStand, RemovalSticks, Members, Exists
<1>17. NumbersStand'
  <2>1. \A n \in Member : Exists(n)' => Exists(n) /\ member'[n].number = member[n].number
    BY <1>2, <1>3, <1>4, <1>7, <1>9 DEF Exists
  <2> QED
    BY <1>8, <1>14, <2>1, NumbersKept
<1>18. UntoldStand'
  <2>1. ASSUME NEW k \in Handler \ {h}, hand[k].at \in {"TELL", "CLEAN"},
               member[hand[k].row].status # "GONE"
        PROVE  /\ invitation'[hand[k].inv].state = "OPEN" /\ ~invitation'[hand[k].inv].told
               /\ invitation'[hand[k].inv].member = hand[k].row
               /\ member'[hand[k].row].user = None
               /\ member'[hand[k].row].status \in {"INVITED", "SUSPENDED", "REMOVED"}
    <3>1. /\ hand[k].inv \in Invitation /\ hand[k].row \in Member
          /\ invitation[hand[k].inv].state = "OPEN" /\ ~invitation[hand[k].inv].told
          /\ invitation[hand[k].inv].member = hand[k].row
          /\ member[hand[k].row].user = None
          /\ member[hand[k].row].status \in {"INVITED", "SUSPENDED", "REMOVED"}
      BY <2>1 DEF Stands, UntoldStand, HandStands, OfRow
    <3>2. CASE hand[k].row = m
      BY <1>2, <1>3, <1>4, <1>7, <1>9, <1>13, <3>1, <3>2 DEF Statuses
    <3>3. CASE hand[k].row # m
      BY <1>9, <1>13, <3>1, <3>3
    <3> QED
      BY <3>2, <3>3
  <2>2. \A n \in Member : member[n].status = "GONE" => member'[n].status = "GONE"
    BY <1>2, <1>3, <1>9 DEF Statuses
  <2> QED
    BY <1>8, <1>14, <2>1, <2>2, UntoldKept
<1>19. /\ \A i \in Invitation : invitation'[i].member \in {0, invitation[i].member}
       /\ \A n \in Member : member[n].status # "ABSENT" => member'[n].status # "ABSENT"
  BY <1>2, <1>7, <1>9, <1>13 DEF Statuses
<1> QED
  BY <1>8, <1>9, <1>11, <1>14, <1>15, <1>16, <1>17, <1>18, <1>19, Written

(* A request is made without an approver. *)
LEMMA DeletionCreatesStands == ASSUME Stands, NEW h \in Handler, DeletionCreates(h) PROVE Stands'
<1>1. PICK y \in Hand : y = hand[h]
  BY Typed DEF Stands
<1>2. y.user \in User
  BY <1>1 DEF Stands, HandStands, OfRequest, DeletionCreates
<1>3. PICK q \in Request :
        /\ NextRequest(q)
        /\ request' = [request EXCEPT ![q] = [NoRequest EXCEPT !.status = "PENDING", !.by = y.user]]
  BY <1>1 DEF DeletionCreates
<1>4. PICK x \in RequestRow : x = [NoRequest EXCEPT !.status = "PENDING", !.by = y.user]
  <2>1. [NoRequest EXCEPT !.status = "PENDING", !.by = y.user] \in RequestRow
    BY <1>2, BlankRows DEF RequestRow
  <2> QED
    BY <2>1
<1>5. x.status = "PENDING" /\ x.approver = None
  BY <1>4 DEF NoRequest
<1>6. /\ request' \in [Request -> RequestRow] /\ request'[q] = x /\ request[q].status = "ABSENT"
      /\ \A p \in Request \ {q} : request'[p] = request[p]
  BY <1>3, <1>4, Typed DEF Stands, NextRequest
<1>7. Ends(h) /\ UNCHANGED <<now, group, member, invitation, lost>>
  BY DEF DeletionCreates
<1>8. Kept
  BY <1>6, <1>7, Typed DEF Stands, Kept, InvitationRow
<1> QED
  BY <1>6, <1>7, <1>8, RequestsOnly

(* It is approved by the officer who read it, whatever became of it since. *)
LEMMA ApproveWritesStands == ASSUME Stands, NEW h \in Handler, ApproveWrites(h) PROVE Stands'
<1>1. PICK y \in Hand : y = hand[h]
  BY Typed DEF Stands
<1>2. y.user \in User /\ y.row \in Request
  BY <1>1 DEF Stands, HandStands, OfRequest, ApproveWrites
<1>3. PICK q \in Request : q = y.row
  BY <1>2
<1>4. PICK u \in RequestRow : u = request[q]
  BY Typed DEF Stands
<1>5. PICK x \in RequestRow : x = [u EXCEPT !.status = "APPROVED", !.approver = y.user]
  <2>1. [u EXCEPT !.status = "APPROVED", !.approver = y.user] \in RequestRow
    BY <1>2 DEF RequestRow
  <2> QED
    BY <2>1
<1>6. x.status = "APPROVED" /\ x.approver = y.user /\ x.by = u.by
  BY <1>5 DEF RequestRow
<1>7. request' = [request EXCEPT ![q] = x]
  <2>1. request' = [request EXCEPT ![y.row].status = "APPROVED", ![y.row].approver = y.user]
    BY <1>1 DEF ApproveWrites
  <2> QED
    BY <1>3, <1>4, <1>5, <2>1, Typed DEF Stands
<1>8. /\ request' \in [Request -> RequestRow] /\ request'[q] = x
      /\ \A p \in Request \ {q} : request'[p] = request[p]
  BY <1>7, Typed DEF Stands
<1>9. Ends(h) /\ UNCHANGED <<now, group, member, invitation, lost>>
  BY DEF ApproveWrites
<1>10. Kept
  BY <1>4, <1>6, <1>8, <1>9, Typed DEF Stands, Kept, InvitationRow
<1> QED
  BY <1>8, <1>9, <1>10, RequestsOnly

(* A cancelled request keeps who made it and who approved it. *)
LEMMA CancelWritesStands == ASSUME Stands, NEW h \in Handler, CancelWrites(h) PROVE Stands'
<1>1. PICK y \in Hand : y = hand[h]
  BY Typed DEF Stands
<1>2. y.row \in Request
  BY <1>1 DEF Stands, HandStands, OfRequest, CancelWrites
<1>3. PICK q \in Request : q = y.row
  BY <1>2
<1>4. PICK u \in RequestRow : u = request[q]
  BY Typed DEF Stands
<1>5. PICK x \in RequestRow : x = [u EXCEPT !.status = "CANCELLED"]
  <2>1. [u EXCEPT !.status = "CANCELLED"] \in RequestRow
    BY DEF RequestRow
  <2> QED
    BY <2>1
<1>6. x.status = "CANCELLED" /\ x.approver = u.approver /\ x.by = u.by
  BY <1>5 DEF RequestRow
<1>7. request' = [request EXCEPT ![q] = x]
  BY <1>1, <1>3, <1>4, <1>5 DEF CancelWrites
<1>8. /\ request' \in [Request -> RequestRow] /\ request'[q] = x
      /\ \A p \in Request \ {q} : request'[p] = request[p]
  BY <1>7, Typed DEF Stands
<1>9. Ends(h) /\ UNCHANGED <<now, group, member, invitation, lost>>
  BY DEF CancelWrites
<1>10. Kept
  BY <1>4, <1>6, <1>8, <1>9, Typed DEF Stands, Kept, InvitationRow
<1> QED
  BY <1>8, <1>9, <1>10, RequestsOnly

(* Nothing of a deleted group is left. *)
LEMMA DeleteGroupStands == ASSUME Stands, NEW h \in Handler, DeleteGroup(h) PROVE Stands'
<1>1. PICK x \in RequestRow : x = [NoRequest EXCEPT !.status = "GONE"]
  <2>1. [NoRequest EXCEPT !.status = "GONE"] \in RequestRow
    BY BlankRows DEF RequestRow
  <2> QED
    BY <2>1
<1>2. x.status = "GONE" /\ x.by = None /\ x.approver = None
  BY <1>1 DEF NoRequest
<1>3. /\ group' = "DELETED" /\ member' = [m \in Member |-> Gone]
      /\ invitation' = [i \in Invitation |-> Withdrawn] /\ request' = [q \in Request |-> x]
      /\ UNCHANGED <<now, lost, hand>>
  BY <1>1 DEF DeleteGroup
<1>4. TypeOK'
  <2>1. /\ member' \in [Member -> Row] /\ invitation' \in [Invitation -> InvitationRow]
        /\ request' \in [Request -> RequestRow]
    BY <1>3, BlankRows
  <2> QED
    BY <1>3, <2>1 DEF Stands, TypeOK, InvitationRow, RequestRow
<1>5. Kept
  BY <1>2, <1>3, BlankFields DEF Kept
<1>6. \A k \in Handler : HandStands(hand[k])'
  <2> SUFFICES ASSUME NEW k \in Handler PROVE HandStands(hand[k])'
    OBVIOUS
  <2>1. PICK y \in Hand : y = hand[k]
    BY Typed DEF Stands
  <2>2. HandStands(y)'
    BY <1>5, <2>1, HandKept DEF Stands
  <2> QED
    BY <1>3, <2>1, <2>2 DEF HandStands, OfRow, OfInvitation, OfRequest
<1>7. RowsStand'
  BY <1>3, BlankFields DEF RowsStand, LeavingEnds, RemovalSticks, Members, Exists, Statuses
<1>8. NumbersStand'
  BY <1>3, BlankFields DEF Stands, NumbersStand, NumbersUnique, Members, Exists, Statuses
<1>9. UntoldStand'
  BY <1>2, <1>3, BlankFields
     DEF Stands, UntoldStand, HandStands, OfRow
<1> QED
  BY <1>4, <1>6, <1>7, <1>8, <1>9 DEF Stands

-----------------------------------------------------------------------------

(* Every step keeps the invariant. *)
LEMMA NextStands == ASSUME Stands, Next PROVE Stands'
<1>1. CASE Tick
  BY <1>1, TickStands
<1>2. CASE \E h \in Handler : Step(h)
  <2>1. PICK h \in Handler : Step(h)
    BY <1>2
  <2>2. CASE \/ AddReads(h) \/ AddCreates(h) \/ AddTells(h) \/ AddUntold(h) \/ AddCleansUp(h)
             \/ Invite(h)
    BY <2>2, AddReadsStands, AddCreatesStands, AddTellsStands, AddUntoldStands,
       AddCleansUpStands, InviteStands
  <2>3. CASE JoinReads(h) \/ JoinChecks(h) \/ JoinActivates(h) \/ JoinClaims(h) \/ JoinCreates(h)
    BY <2>3, JoinReadsStands, JoinChecksStands, JoinActivatesStands, JoinClaimsStands,
       JoinCreatesStands
  <2>4. CASE AssignReads(h) \/ AssignWrites(h) \/ StatusReads(h) \/ StatusWrites(h)
    BY <2>4, AssignReadsStands, AssignWritesStands, StatusReadsStands, StatusWritesStands
  <2>5. CASE \/ DeletionReads(h) \/ DeletionCreates(h) \/ ApproveReads(h) \/ ApproveWrites(h)
             \/ CancelReads(h) \/ CancelWrites(h) \/ DeleteGroup(h)
    BY <2>5, DeletionReadsStands, DeletionCreatesStands, ApproveReadsStands,
       ApproveWritesStands, CancelReadsStands, CancelWritesStands, DeleteGroupStands
  <2>6. CASE JoinRefused(h) \/ StatusFails(h) \/ Orphaned(h) \/ Lose(h)
    BY <2>6, FailuresStand
  <2> QED
    BY <2>1, <2>2, <2>3, <2>4, <2>5, <2>6 DEF Step
<1> QED
  BY <1>1, <1>2 DEF Next

(* So does no step. *)
LEMMA StutterStands == ASSUME Stands, UNCHANGED vars PROVE Stands'
<1>1. TypeOK' /\ RowsStand'
  BY DEF Stands, vars, TypeOK, RowsStand, LeavingEnds, RemovalSticks, Members, Exists
<1>2. NumbersStand' /\ UntoldStand'
  BY DEF Stands, vars, NumbersStand, NumbersUnique, UntoldStand, Members, Exists
<1>3. \A h \in Handler : HandStands(hand[h])'
  BY DEF Stands, vars, HandStands, OfRow, OfInvitation, OfRequest
<1> QED
  BY <1>1, <1>2, <1>3 DEF Stands

(* The inductive invariant: every state the group's calls can reach has    *)
(* rows, locks, unsent messages and hands that fit each other.             *)
THEOREM AlwaysStands == Spec => []Stands
<1>1. Stands /\ [Next]_vars => Stands'
  BY NextStands, StutterStands
<1> QED
  BY <1>1, StandsInit, PTL DEF Spec

(* A member number is given once, however many add and join at a time. *)
THEOREM NumbersAreUnique == Spec => []NumbersUnique
<1>1. Stands => NumbersUnique
  BY DEF Stands, NumbersStand
<1> QED
  BY <1>1, AlwaysStands, PTL

(* Nobody is let in by an acceptance dated at a removal or later. *)
THEOREM RemovalsStick == Spec => []RemovalSticks
<1>1. Stands => RemovalSticks
  BY DEF Stands, RowsStand
<1> QED
  BY <1>1, AlwaysStands, PTL

-----------------------------------------------------------------------------

(* What an active admin's row may become in a step. *)
Stays(m) == member'[m].status = "ACTIVE" \/ group' = "DELETED"

(* What a step leaves of an active admin. *)
LEMMA AdminStays ==
  ASSUME Stands, NEW m \in Member, member[m].status = "ACTIVE", member[m].role = "GROUP_ADMIN",
         Next
  PROVE  Stays(m)
<1>1. CASE member' = member
  BY <1>1 DEF Stays
<1>2. ASSUME NEW h \in Handler, AddCreates(h) PROVE Stays(m)
  BY <1>2, Typed DEF Stands, Stays, AddCreates, NextRow
<1>3. ASSUME NEW h \in Handler, AddCleansUp(h) PROVE Stays(m)
  <2>1. member[hand[h].row].status # "ACTIVE" /\ hand[h].row # m
    BY <1>3 DEF Stands, UntoldStand, AddCleansUp
  <2> QED
    BY <1>3, <2>1, Typed DEF Stands, Stays, AddCleansUp
<1>4. ASSUME NEW h \in Handler, JoinCreates(h) PROVE Stays(m)
  BY <1>4, Typed DEF Stands, Stays, JoinCreates, NextRow
<1>5. ASSUME NEW h \in Handler, JoinActivates(h) PROVE Stays(m)
  <2>1. hand[h].row \in Member
    BY <1>5 DEF Stands, HandStands, OfInvitation, JoinActivates
  <2>2. PICK u \in Row : u = member[hand[h].row]
    BY <2>1, Typed DEF Stands
  <2>3. PICK x :
          x = [u EXCEPT !.status = "ACTIVE", !.user = hand[h].user,
                        !.role = invitation[hand[h].inv].role, !.joined = hand[h].time]
    OBVIOUS
  <2>4. x.status = "ACTIVE"
    BY <2>3 DEF Row
  <2>5. PICK n \in Member : member' = [member EXCEPT ![n] = x]
    BY <1>5, <2>1, <2>2, <2>3 DEF JoinActivates
  <2> QED
    BY <2>4, <2>5, Typed DEF Stands, Stays
<1>6. ASSUME NEW h \in Handler, AssignWrites(h) PROVE Stays(m)
  <2>1. member[hand[h].row] \in Row \/ hand[h].row # m
    BY Typed DEF Stands
  <2> QED
    BY <1>6, <2>1, Typed DEF Stands, Stays, AssignWrites, Row
<1>7. ASSUME NEW h \in Handler, StatusWrites(h) PROVE Stays(m)
  <2>1. hand[h].row # m
    BY <1>7 DEF Stands, HandStands, OfRow, StatusWrites, UnchangedSinceRead
  <2> QED
    BY <1>7, <2>1, Typed DEF Stands, Stays, StatusWrites
<1>8. ASSUME NEW h \in Handler, DeleteGroup(h) PROVE Stays(m)
  BY <1>8 DEF Stays, DeleteGroup
<1>9. \/ member' = member
      \/ \E h \in Handler :
           \/ AddCreates(h) \/ AddCleansUp(h) \/ JoinCreates(h) \/ JoinActivates(h)
           \/ AssignWrites(h) \/ StatusWrites(h) \/ DeleteGroup(h)
  BY DEF Next, Step, Tick, AddReads, AddTells, AddUntold, Invite, JoinReads, JoinChecks,
         JoinClaims, JoinRefused, AssignReads, StatusReads, StatusFails, DeletionReads,
         DeletionCreates, ApproveReads, ApproveWrites, CancelReads, CancelWrites, Orphaned, Lose
<1> QED
  BY <1>1, <1>2, <1>3, <1>4, <1>5, <1>6, <1>7, <1>8, <1>9

(* No step takes an active admin's access away but the group's deletion. *)
THEOREM AdminsStay == Spec => AdminsKeepAccess
<1>1. Stands /\ [Next]_vars =>
        [\A m \in Members :
           /\ member[m].status = "ACTIVE" /\ member[m].role = "GROUP_ADMIN"
           /\ group' = "OPEN"
           => member'[m].status = "ACTIVE"]_vars
  BY AdminStays DEF Stays, Members
<1> QED
  BY <1>1, AlwaysStands, PTL DEF Spec, AdminsKeepAccess

-----------------------------------------------------------------------------
(* Counting.  Members with a user come one at a time with an acceptance;   *)
(* unsent invitations with a call that is to send or withdraw them.        *)

Occupied == {m \in Members : member[m].user # None}
Accepted == {i \in Invitation : invitation[i].accepted}
Telling == {h \in Handler : hand[h].at \in {"TELL", "CLEAN"}}
Untold == {i \in Invitation : invitation[i].state = "OPEN" /\ ~invitation[i].told}

(* Nobody has a row that does not exist, and until an invitation is        *)
(* accepted nobody has the row it is for.                                  *)
RowsFresh ==
  /\ \A m \in Member : member[m].status \in {"ABSENT", "GONE"} => member[m].user = None
  /\ \A i \in Invitation :
       /\ invitation[i].accepted => invitation[i].state = "OPEN" /\ invitation[i].told
       /\ invitation[i].state = "OPEN" /\ ~invitation[i].accepted /\ invitation[i].member # 0
            => member[invitation[i].member].user = None
       /\ group = "DELETED" => invitation[i].state = "GONE"

(* As long as there is a group, invitations that calls have in hand are open. *)
HandFresh(y) ==
  /\ y.at \in {"TELL", "CLEAN"} => invitation[y.inv].state = "OPEN" /\ ~invitation[y.inv].told
  /\ y.at \in {"JOIN", "CLAIM", "ENTER"} => invitation[y.inv].state = "OPEN"
  /\ y.at = "ENTER" => y.row = 0 /\ ~invitation[y.inv].accepted

Counted ==
  /\ RowsFresh
  /\ group = "OPEN" => \A h \in Handler : HandFresh(hand[h])
  /\ group = "OPEN" => Cardinality(Occupied) = 1 + Cardinality(Accepted)
  /\ Cardinality(Untold) <= lost + Cardinality(Telling)

(* What is counted is finite. *)
LEMMA CountedSets ==
  /\ IsFiniteSet(Occupied) /\ IsFiniteSet(Accepted)
  /\ IsFiniteSet(Untold) /\ IsFiniteSet(Telling)
  /\ Cardinality(Occupied) \in Nat /\ Cardinality(Accepted) \in Nat
  /\ Cardinality(Untold) \in Nat /\ Cardinality(Telling) \in Nat
<1>1. IsFiniteSet(Member) /\ IsFiniteSet(Invitation) /\ IsFiniteSet(Handler)
  BY MemberAssumption, FS_Interval DEF Member, Invitation
<1>2. /\ Occupied \in SUBSET Member /\ Accepted \in SUBSET Invitation
      /\ Untold \in SUBSET Invitation /\ Telling \in SUBSET Handler
  BY DEF Occupied, Members, Accepted, Untold, Telling
<1>3. IsFiniteSet(Occupied) /\ IsFiniteSet(Accepted) /\ IsFiniteSet(Untold) /\ IsFiniteSet(Telling)
  BY <1>1, <1>2, FS_Subset
<1> QED
  BY <1>3, FS_CardinalityType

(* What moving one call does to the calls with a message to send. *)
LEMMA TellingMoves ==
  ASSUME Stands, NEW h \in Handler, NEW x, Goes(h, x)
  PROVE  /\ hand'[h] = x /\ \A k \in Handler \ {h} : hand'[k] = hand[k]
         /\ x.at \in {"TELL", "CLEAN"} => Telling' = Telling \cup {h}
         /\ x.at \notin {"TELL", "CLEAN"} => Telling' = Telling \ {h}
<1>1. hand'[h] = x /\ \A k \in Handler \ {h} : hand'[k] = hand[k]
  BY Typed DEF Stands, Goes
<1> QED
  BY <1>1 DEF Telling

(* A call that moves while the rows stay. *)
LEMMA CallMoves ==
  ASSUME Stands, Counted, UNCHANGED <<group, member, invitation>>,
         NEW h \in Handler, NEW x, Goes(h, x), group = "OPEN" => HandFresh(x),
         \/ lost' = lost /\ (x.at \in {"TELL", "CLEAN"} <=> h \in Telling)
         \/ lost' = lost + 1 /\ x.at \notin {"TELL", "CLEAN"}
  PROVE  Counted'
<1>1. /\ hand'[h] = x /\ \A k \in Handler \ {h} : hand'[k] = hand[k]
      /\ x.at \in {"TELL", "CLEAN"} => Telling' = Telling \cup {h}
      /\ x.at \notin {"TELL", "CLEAN"} => Telling' = Telling \ {h}
  BY TellingMoves
<1>2. RowsFresh' /\ Occupied' = Occupied /\ Accepted' = Accepted /\ Untold' = Untold
  BY DEF Counted, RowsFresh, Occupied, Members, Exists, Accepted, Untold
<1>3. group' = "OPEN" => \A k \in Handler : HandFresh(hand[k])'
  BY <1>1 DEF Counted, HandFresh
<1>4. lost \in Nat
  BY Typed DEF Stands
<1>5. Cardinality(Untold') <= lost' + Cardinality(Telling')
  <2>1. CASE lost' = lost /\ (x.at \in {"TELL", "CLEAN"} <=> h \in Telling)
    <3>1. Telling' = Telling
      BY <1>1, <2>1
    <3> QED
      BY <1>2, <2>1, <3>1 DEF Counted
  <2>2. CASE lost' = lost + 1 /\ x.at \notin {"TELL", "CLEAN"}
    <3>1. Telling' = Telling \ {h} /\ IsFiniteSet(Telling)
      BY <1>1, <2>2, CountedSets
    <3>2. \/ Cardinality(Telling') = Cardinality(Telling) - 1
          \/ Cardinality(Telling') = Cardinality(Telling)
      BY <3>1, FS_RemoveElement
    <3> QED
      BY <1>2, <1>4, <2>2, <3>2, CountedSets DEF Counted
  <2> QED
    BY <2>1, <2>2
<1> QED
  BY <1>2, <1>3, <1>5 DEF Counted

(* Calls that read. *)
LEMMA ReadersCount ==
  ASSUME Stands, Counted, NEW h \in Handler,
         \/ AddReads(h) \/ AssignReads(h) \/ StatusReads(h) \/ DeletionReads(h)
         \/ ApproveReads(h) \/ CancelReads(h)
  PROVE  Counted'
<1>1. PICK x : /\ Goes(h, x)
               /\ x.at \in {"ADD", "ASSIGN", "STATUS", "REQUEST", "APPROVE", "CANCEL"}
  <2>1. CASE AddReads(h)
    <3>1. PICK c, r, n : Goes(h, [Idle EXCEPT !.at = "ADD", !.contact = c, !.role = r, !.number = n])
      BY <2>1 DEF AddReads
    <3>2. PICK x : x = [Idle EXCEPT !.at = "ADD", !.contact = c, !.role = r, !.number = n]
      OBVIOUS
    <3>3. x.at = "ADD"
      BY <3>2 DEF Idle
    <3> QED
      BY <3>1, <3>2, <3>3
  <2>2. CASE AssignReads(h)
    <3>1. PICK m, r : Goes(h, [Idle EXCEPT !.at = "ASSIGN", !.row = m, !.role = r])
      BY <2>2 DEF AssignReads
    <3>2. PICK x : x = [Idle EXCEPT !.at = "ASSIGN", !.row = m, !.role = r]
      OBVIOUS
    <3>3. x.at = "ASSIGN"
      BY <3>2 DEF Idle
    <3> QED
      BY <3>1, <3>2, <3>3
  <2>3. CASE StatusReads(h)
    <3>1. PICK m, s :
            Goes(h, [Idle EXCEPT !.at = "STATUS", !.row = m, !.seen = member[m], !.status = s])
      BY <2>3 DEF StatusReads
    <3>2. PICK x :
            x = [Idle EXCEPT !.at = "STATUS", !.row = m, !.seen = member[m], !.status = s]
      OBVIOUS
    <3>3. x.at = "STATUS"
      BY <3>2 DEF Idle
    <3> QED
      BY <3>1, <3>2, <3>3
  <2>4. CASE DeletionReads(h)
    <3>1. PICK u : Goes(h, [Idle EXCEPT !.at = "REQUEST", !.user = u])
      BY <2>4 DEF DeletionReads
    <3>2. PICK x : x = [Idle EXCEPT !.at = "REQUEST", !.user = u]
      OBVIOUS
    <3>3. x.at = "REQUEST"
      BY <3>2 DEF Idle
    <3> QED
      BY <3>1, <3>2, <3>3
  <2>5. CASE ApproveReads(h)
    <3>1. PICK u, q : Goes(h, [Idle EXCEPT !.at = "APPROVE", !.user = u, !.row = q])
      BY <2>5 DEF ApproveReads
    <3>2. PICK x : x = [Idle EXCEPT !.at = "APPROVE", !.user = u, !.row = q]
      OBVIOUS
    <3>3. x.at = "APPROVE"
      BY <3>2 DEF Idle
    <3> QED
      BY <3>1, <3>2, <3>3
  <2>6. CASE CancelReads(h)
    <3>1. PICK q : Goes(h, [Idle EXCEPT !.at = "CANCEL", !.row = q])
      BY <2>6 DEF CancelReads
    <3>2. PICK x : x = [Idle EXCEPT !.at = "CANCEL", !.row = q]
      OBVIOUS
    <3>3. x.at = "CANCEL"
      BY <3>2 DEF Idle
    <3> QED
      BY <3>1, <3>2, <3>3
  <2> QED
    BY <2>1, <2>2, <2>3, <2>4, <2>5, <2>6
<1>2. UNCHANGED <<group, member, invitation, lost>> /\ h \notin Telling
  BY DEF AddReads, AssignReads, StatusReads, DeletionReads, ApproveReads, CancelReads, IsFree,
         Telling
<1>3. HandFresh(x)
  BY <1>1 DEF HandFresh
<1> QED
  BY <1>1, <1>2, <1>3, CallMoves

(* Calls that accept read invitations that are open. *)
LEMMA JoinersCount ==
  ASSUME Stands, Counted, NEW h \in Handler, JoinReads(h) \/ JoinClaims(h)
  PROVE  Counted'
<1>1. CASE JoinReads(h)
  <2>1. PICK x : Goes(h, x) /\ x.at = "JOIN" /\ invitation[x.inv].state = "OPEN"
    <3>1. PICK u \in User, i \in Invitation :
            /\ Open(i, now)
            /\ Goes(h, [Idle EXCEPT !.at = "JOIN", !.user = u, !.inv = i,
                                    !.row = invitation[i].member,
                                    !.seen = IF invitation[i].member = 0
                                               THEN NoMember ELSE member[invitation[i].member]])
      BY <1>1 DEF JoinReads
    <3>2. PICK x : x = [Idle EXCEPT !.at = "JOIN", !.user = u, !.inv = i,
                                    !.row = invitation[i].member,
                                    !.seen = IF invitation[i].member = 0
                                               THEN NoMember ELSE member[invitation[i].member]]
      OBVIOUS
    <3>3. x.at = "JOIN" /\ x.inv = i
      BY <3>2 DEF Idle
    <3> QED
      BY <3>1, <3>2, <3>3 DEF Open
  <2>2. UNCHANGED <<group, member, invitation, lost>> /\ h \notin Telling
    BY <1>1 DEF JoinReads, IsFree, Telling
  <2> QED
    BY <2>1, <2>2, CallMoves DEF HandFresh
<1>2. CASE JoinClaims(h)
  <2>1. PICK y \in Hand : y = hand[h]
    BY Typed DEF Stands
  <2>2. PICK x : /\ Goes(h, x) /\ x.at = "ENTER" /\ x.inv = y.inv /\ x.row = y.row
    <3>1. PICK n : Goes(h, [y EXCEPT !.at = "ENTER", !.number = n])
      BY <1>2, <2>1 DEF JoinClaims
    <3>2. PICK x : x = [y EXCEPT !.at = "ENTER", !.number = n]
      OBVIOUS
    <3>3. x.at = "ENTER" /\ x.inv = y.inv /\ x.row = y.row
      BY <3>2 DEF Hand
    <3> QED
      BY <3>1, <3>2, <3>3
  <2>3. y.row = 0 /\ invitation[y.inv].state = "OPEN" /\ ~invitation[y.inv].accepted
    BY <1>2, <2>1 DEF JoinClaims, Claimable, Open
  <2>4. UNCHANGED <<group, member, invitation, lost>> /\ h \notin Telling
    BY <1>2 DEF JoinClaims, Telling
  <2> QED
    BY <2>2, <2>3, <2>4, CallMoves DEF HandFresh
<1> QED
  BY <1>1, <1>2

(* Calls that go on with what they had, or end. *)
LEMMA OthersCount ==
  ASSUME Stands, Counted, NEW h \in Handler,
         \/ AddUntold(h) \/ JoinChecks(h) \/ JoinRefused(h) \/ StatusFails(h) \/ Orphaned(h)
         \/ Lose(h) \/ DeletionCreates(h) \/ ApproveWrites(h) \/ CancelWrites(h)
  PROVE  Counted'
<1>1. UNCHANGED <<group, member, invitation>>
  BY DEF AddUntold, JoinChecks, JoinRefused, StatusFails, Orphaned, Lose, DeletionCreates,
         ApproveWrites, CancelWrites
<1>2. PICK y \in Hand : y = hand[h]
  BY Typed DEF Stands
<1>3. group = "OPEN" => HandFresh(y)
  BY <1>2 DEF Counted
<1>4. HandFresh(Idle) /\ Idle.at = "IDLE"
  BY BlankFields DEF HandFresh
<1>5. CASE AddUntold(h)
  <2>1. PICK x : Goes(h, x) /\ x.at = "CLEAN" /\ x.inv = y.inv
    BY <1>2, <1>5 DEF AddUntold, Hand
  <2>2. y.at = "TELL" /\ h \in Telling /\ UNCHANGED lost
    BY <1>2, <1>5 DEF AddUntold, Telling
  <2>3. group = "OPEN" => HandFresh(x)
    BY <1>3, <2>1, <2>2 DEF HandFresh
  <2> QED
    BY <1>1, <2>1, <2>2, <2>3, CallMoves
<1>6. CASE JoinChecks(h) /\ ~Ends(h)
  <2>1. PICK x : Goes(h, x) /\ x.at = "CLAIM" /\ x.inv = y.inv
    <3>1. Goes(h, [y EXCEPT !.at = "CLAIM", !.time = now])
      BY <1>2, <1>6 DEF JoinChecks
    <3>2. PICK x : x = [y EXCEPT !.at = "CLAIM", !.time = now]
      OBVIOUS
    <3>3. x.at = "CLAIM" /\ x.inv = y.inv
      BY <3>2 DEF Hand
    <3> QED
      BY <3>1, <3>2, <3>3
  <2>2. y.at = "JOIN" /\ h \notin Telling /\ UNCHANGED lost
    BY <1>2, <1>6 DEF JoinChecks, Telling
  <2>3. group = "OPEN" => HandFresh(x)
    BY <1>3, <2>1, <2>2 DEF HandFresh
  <2> QED
    BY <1>1, <2>1, <2>2, <2>3, CallMoves
<1>7. CASE /\ Ends(h)
           /\ \/ JoinChecks(h) \/ JoinRefused(h) \/ StatusFails(h) \/ Orphaned(h)
              \/ DeletionCreates(h) \/ ApproveWrites(h) \/ CancelWrites(h)
  <2>1. UNCHANGED lost /\ h \notin Telling
    BY <1>7 DEF JoinChecks, JoinRefused, StatusFails, Orphaned, DeletionCreates, ApproveWrites,
                CancelWrites, Telling
  <2> QED
    BY <1>1, <1>4, <1>7, <2>1, CallMoves DEF Ends
<1>8. CASE Lose(h)
  <2>1. lost' = lost + 1 \/ (lost' = lost /\ h \notin Telling)
    BY <1>8 DEF Lose, Telling
  <2>2. Goes(h, Idle)
    BY <1>8 DEF Lose, Ends
  <2> QED
    BY <1>1, <1>4, <2>1, <2>2, CallMoves
<1>9. JoinRefused(h) \/ StatusFails(h) \/ Orphaned(h) \/ DeletionCreates(h) \/ ApproveWrites(h)
        \/ CancelWrites(h) => Ends(h)
  BY DEF JoinRefused, StatusFails, Orphaned, DeletionCreates, ApproveWrites, CancelWrites
<1> QED
  BY <1>5, <1>6, <1>7, <1>8, <1>9


(* The invitations that calls have in hand. *)
LEMMA HandInvitations ==
  ASSUME Stands, NEW k \in Handler,
         hand[k].at \in {"TELL", "CLEAN", "JOIN", "CLAIM", "ENTER"}
  PROVE  hand[k].inv \in Invitation
BY DEF Stands, HandStands, OfRow, OfInvitation

(* The other calls keep what they have when their invitations stay as they are. *)
LEMMA HandsFresh ==
  ASSUME Stands, Counted, group' = group, NEW h \in Handler, NEW x, Goes(h, x), HandFresh(x)',
         group = "OPEN" => \A k \in Handler \ {h} :
           LET j == hand[k].inv
           IN /\ hand[k].at \in {"TELL", "CLEAN", "JOIN", "CLAIM", "ENTER"} =>
                   invitation'[j].state = "OPEN"
              /\ hand[k].at \in {"TELL", "CLEAN"} => ~invitation'[j].told
              /\ hand[k].at = "ENTER" => ~invitation'[j].accepted
  PROVE  group' = "OPEN" => \A k \in Handler : HandFresh(hand[k])'
<1>1. hand'[h] = x /\ \A k \in Handler \ {h} : hand'[k] = hand[k]
  BY TellingMoves
<1> SUFFICES ASSUME group = "OPEN", NEW k \in Handler PROVE HandFresh(hand[k])'
  OBVIOUS
<1>2. CASE k = h
  BY <1>1, <1>2 DEF HandFresh
<1>3. CASE k # h
  BY <1>1, <1>3 DEF HandFresh, Counted
<1> QED
  BY <1>2, <1>3

(* A row and its invitation, with a call that is to send it. *)
LEMMA AddCreatesCounts == ASSUME Stands, Counted, NEW h \in Handler, AddCreates(h) PROVE Counted'
<1>1. PICK y \in Hand : y = hand[h]
  BY Typed DEF Stands
<1>2. PICK m \in Member, i \in Invitation :
        /\ NextRow(m) /\ NextInvitation(i)
        /\ member' = [member EXCEPT ![m] =
             [NoMember EXCEPT !.status = "INVITED", !.role = y.role,
                              !.contact = y.contact, !.number = y.number]]
        /\ invitation' = [invitation EXCEPT ![i] =
             [NoInvitation EXCEPT !.state = "OPEN", !.member = m, !.role = y.role,
                                  !.expires = now + Validity]]
        /\ Goes(h, [Idle EXCEPT !.at = "TELL", !.row = m, !.inv = i])
  BY <1>1 DEF AddCreates
<1>3. PICK x : x = [NoMember EXCEPT !.status = "INVITED", !.role = y.role,
                                    !.contact = y.contact, !.number = y.number]
  OBVIOUS
<1>4. PICK v : v = [NoInvitation EXCEPT !.state = "OPEN", !.member = m, !.role = y.role,
                                        !.expires = now + Validity]
  OBVIOUS
<1>5. PICK z : z = [Idle EXCEPT !.at = "TELL", !.row = m, !.inv = i]
  OBVIOUS
<1>6. x.status = "INVITED" /\ x.user = None
  BY <1>3 DEF NoMember
<1>7. v.state = "OPEN" /\ ~v.told /\ ~v.accepted /\ v.member = m
  BY <1>4 DEF NoInvitation
<1>8. z.at = "TELL" /\ z.inv = i /\ Goes(h, z)
  BY <1>2, <1>5 DEF Idle
<1>9. /\ member'[m] = x /\ \A n \in Member \ {m} : member'[n] = member[n]
      /\ invitation'[i] = v /\ \A j \in Invitation \ {i} : invitation'[j] = invitation[j]
  BY <1>2, <1>3, <1>4, Typed DEF Stands
<1>10. member[m].status = "ABSENT" /\ invitation[i].state = "ABSENT" /\ group = "OPEN"
       /\ member[m].user = None /\ ~invitation[i].accepted /\ y.at = "ADD"
       /\ group' = group /\ lost' = lost
  BY <1>1, <1>2 DEF NextRow, NextInvitation, AddCreates, Counted, RowsFresh
<1>11. RowsFresh'
  BY <1>6, <1>7, <1>9, <1>10, Typed DEF Stands, InvitationRow, Counted, RowsFresh
<1>12. Occupied' = Occupied
  BY <1>6, <1>9, <1>10 DEF Occupied, Members, Exists, Statuses
<1>13. Accepted' = Accepted
  BY <1>7, <1>9, <1>10 DEF Accepted
<1>14. Untold' = Untold \cup {i} /\ i \notin Untold
  BY <1>7, <1>9, <1>10 DEF Untold
<1>15. Telling' = Telling \cup {h} /\ h \notin Telling
  BY <1>1, <1>8, <1>10, TellingMoves DEF Telling
<1>16. group' = "OPEN" => \A k \in Handler : HandFresh(hand[k])'
  <2>1. HandFresh(z)'
    BY <1>7, <1>8, <1>9 DEF HandFresh
  <2>2. ASSUME NEW k \in Handler \ {h},
               hand[k].at \in {"TELL", "CLEAN", "JOIN", "CLAIM", "ENTER"}
        PROVE  invitation'[hand[k].inv] = invitation[hand[k].inv]
    <3>1. invitation[hand[k].inv].state = "OPEN" /\ hand[k].inv \in Invitation
      BY <1>10, <2>2, HandInvitations DEF Counted, HandFresh
    <3> QED
      BY <1>9, <1>10, <3>1
  <2>3. \A k \in Handler \ {h} : HandFresh(hand[k])
    BY <1>10 DEF Counted
  <2> QED
    BY <1>8, <1>10, <2>1, <2>2, <2>3, HandsFresh DEF HandFresh
<1>17. /\ Cardinality(Untold') = Cardinality(Untold) + 1
       /\ Cardinality(Telling') = Cardinality(Telling) + 1
  BY <1>14, <1>15, CountedSets, FS_AddElement
<1>18. Cardinality(Untold') <= lost' + Cardinality(Telling')
  BY <1>10, <1>17, CountedSets, Typed DEF Stands, Counted
<1> QED
  BY <1>10, <1>11, <1>12, <1>13, <1>16, <1>18 DEF Counted

(* One unsent invitation less, and one call to send or withdraw it. *)
LEMMA OneTold ==
  ASSUME Stands, Counted, NEW h \in Handler, h \in Telling, Ends(h), lost' = lost,
         NEW i \in Invitation, group = "OPEN" => i \in Untold,
         Untold' = Untold \ {i}
  PROVE  Cardinality(Untold') <= lost' + Cardinality(Telling')
<1>1. Telling' = Telling \ {h}
  BY TellingMoves, BlankFields DEF Ends
<1>2. Cardinality(Telling') = Cardinality(Telling) - 1
  BY <1>1, CountedSets, FS_RemoveElement
<1>3. Cardinality(Telling) \in Nat \ {0}
  BY CountedSets, FS_EmptySet
<1>4. CASE i \in Untold
  <2>1. Cardinality(Untold') = Cardinality(Untold) - 1
    BY <1>4, CountedSets, FS_RemoveElement
  <2> QED
    BY <1>2, <2>1, CountedSets, Typed DEF Stands, Counted
<1>5. CASE group # "OPEN"
  <2>1. group = "DELETED"
    BY <1>5, Typed DEF Stands
  <2>2. Untold = {}
    BY <2>1 DEF Counted, RowsFresh, Untold
  <2>3. Cardinality(Untold') = 0
    BY <2>2, FS_EmptySet
  <2> QED
    BY <1>2, <1>3, <2>3, Typed DEF Stands
<1> QED
  BY <1>4, <1>5

(* The message is taken. *)
LEMMA AddTellsCounts == ASSUME Stands, Counted, NEW h \in Handler, AddTells(h) PROVE Counted'
<1>1. PICK y \in Hand : y = hand[h]
  BY Typed DEF Stands
<1>2. /\ y.at = "TELL" /\ y.inv \in Invitation /\ h \in Telling
      /\ \A k \in Handler \ {h} : hand[k].at \in {"TELL", "CLEAN"} => hand[k].inv # y.inv
      /\ group = "OPEN" => invitation[y.inv].state = "OPEN" /\ ~invitation[y.inv].told
  BY <1>1 DEF Stands, AddTells, UntoldStand, HandStands, OfRow, Telling, Counted, HandFresh
<1>3. PICK i \in Invitation : i = y.inv
  BY <1>2
<1>4. PICK v \in InvitationRow : v = invitation[i]
  BY Typed DEF Stands
<1>5. PICK w : w = [v EXCEPT !.told = v.state = "OPEN"]
  OBVIOUS
<1>6. /\ w.state = v.state /\ w.member = v.member /\ w.accepted = v.accepted
      /\ w.told <=> v.state = "OPEN"
  BY <1>5 DEF InvitationRow
<1>7. /\ invitation'[i] = w /\ \A j \in Invitation \ {i} : invitation'[j] = invitation[j]
      /\ Ends(h) /\ UNCHANGED <<group, member, lost>>
  BY <1>1, <1>3, <1>4, <1>5, Typed DEF Stands, AddTells
<1>8. RowsFresh'
  BY <1>4, <1>6, <1>7 DEF Counted, RowsFresh
<1>9. Occupied' = Occupied /\ Accepted' = Accepted
  BY <1>4, <1>6, <1>7 DEF Occupied, Members, Exists, Accepted
<1>10. Untold' = Untold \ {i} /\ (group = "OPEN" => i \in Untold)
  BY <1>2, <1>3, <1>4, <1>6, <1>7 DEF Untold
<1>11. group' = "OPEN" => \A k \in Handler : HandFresh(hand[k])'
  <2>1. HandFresh(Idle)' /\ Goes(h, Idle)
    BY <1>7, BlankFields DEF HandFresh, Ends
  <2>2. ASSUME NEW k \in Handler \ {h}, group = "OPEN"
        PROVE  LET j == hand[k].inv
               IN /\ hand[k].at \in {"TELL", "CLEAN", "JOIN", "CLAIM", "ENTER"} =>
                       invitation'[j].state = "OPEN"
                  /\ hand[k].at \in {"TELL", "CLEAN"} => ~invitation'[j].told
                  /\ hand[k].at = "ENTER" => ~invitation'[j].accepted
    <3>1. HandFresh(hand[k])
      BY <2>2 DEF Counted
    <3> QED
      BY <1>2, <1>3, <1>4, <1>6, <1>7, <3>1, HandInvitations DEF HandFresh
  <2> QED
    BY <1>7, <2>1, <2>2, HandsFresh
<1>12. Cardinality(Untold') <= lost' + Cardinality(Telling')
  BY <1>2, <1>7, <1>10, OneTold
<1> QED
  BY <1>7, <1>8, <1>9, <1>11, <1>12 DEF Counted

(* The row is withdrawn with its invitation, which nobody can have accepted. *)
LEMMA AddCleansUpCounts ==
  ASSUME Stands, Counted, NEW h \in Handler, AddCleansUp(h)
  PROVE  Counted'
<1>1. PICK y \in Hand : y = hand[h]
  BY Typed DEF Stands
<1>2. /\ y.at = "CLEAN" /\ y.row \in Member /\ y.inv \in Invitation /\ h \in Telling
      /\ \A k \in Handler \ {h} : hand[k].at \in {"TELL", "CLEAN"} => hand[k].inv # y.inv
      /\ group = "OPEN" => invitation[y.inv].state = "OPEN" /\ ~invitation[y.inv].told
      /\ member[y.row].status = "GONE" \/ member[y.row].user = None
  BY <1>1 DEF Stands, AddCleansUp, UntoldStand, HandStands, OfRow, Telling, Counted, HandFresh
<1>3. PICK m \in Member, i \in Invitation : m = y.row /\ i = y.inv
  BY <1>2
<1>4. /\ member' = [member EXCEPT ![m] = Gone]
      /\ invitation' = [invitation EXCEPT ![i] = Withdrawn]
      /\ Ends(h) /\ UNCHANGED <<group, lost>>
  BY <1>1, <1>3 DEF AddCleansUp
<1>5. /\ invitation'[i].state = "GONE" /\ ~invitation'[i].accepted
      /\ member'[m].status = "GONE" /\ member'[m].user = None
      /\ \A j \in Invitation \ {i} : invitation'[j] = invitation[j]
      /\ \A n \in Member \ {m} : member'[n] = member[n]
  <2>1. ~Withdrawn.accepted
    BY DEF Withdrawn, NoInvitation
  <2> QED
    BY <1>4, <2>1, BlankFields, Typed DEF Stands
<1>6. member[m].user = None /\ ~invitation[i].accepted
  BY <1>2, <1>3, Typed DEF Stands, Counted, RowsFresh
<1>7. RowsFresh'
  BY <1>4, <1>5, Typed DEF Stands, InvitationRow, Counted, RowsFresh
<1>8. Occupied' = Occupied /\ Accepted' = Accepted
  <2>1. Occupied' = Occupied
    BY <1>5, <1>6 DEF Occupied, Members, Exists
  <2>2. Accepted' = Accepted
    BY <1>5, <1>6 DEF Accepted
  <2> QED
    BY <2>1, <2>2
<1>9. Untold' = Untold \ {i} /\ (group = "OPEN" => i \in Untold)
  BY <1>2, <1>3, <1>5 DEF Untold
<1>10. group' = "OPEN" => \A k \in Handler : HandFresh(hand[k])'
  <2>1. HandFresh(Idle)' /\ Goes(h, Idle)
    BY <1>4, BlankFields DEF HandFresh, Ends
  <2>2. ASSUME NEW k \in Handler \ {h}, group = "OPEN"
        PROVE  LET j == hand[k].inv
               IN /\ hand[k].at \in {"TELL", "CLEAN", "JOIN", "CLAIM", "ENTER"} =>
                       invitation'[j].state = "OPEN"
                  /\ hand[k].at \in {"TELL", "CLEAN"} => ~invitation'[j].told
                  /\ hand[k].at = "ENTER" => ~invitation'[j].accepted
    <3>1. HandFresh(hand[k])
      BY <2>2 DEF Counted
    <3>2. hand[k].at \in {"JOIN", "CLAIM", "ENTER"} => invitation[hand[k].inv].told
      BY <3>1 DEF Stands, HandStands, OfInvitation, HandFresh
    <3>3. hand[k].at \in {"TELL", "CLEAN", "JOIN", "CLAIM", "ENTER"} =>
            hand[k].inv \in Invitation \ {i}
      BY <1>2, <1>3, <2>2, <3>2, HandInvitations
    <3> QED
      BY <1>5, <3>1, <3>3 DEF HandFresh
  <2> QED
    BY <1>4, <2>1, <2>2, HandsFresh
<1>11. Cardinality(Untold') <= lost' + Cardinality(Telling')
  BY <1>2, <1>4, <1>9, OneTold
<1> QED
  BY <1>4, <1>7, <1>8, <1>10, <1>11 DEF Counted

(* An open invitation: told, and accepted by nobody yet. *)
LEMMA InviteCounts == ASSUME Stands, Counted, NEW h \in Handler, Invite(h) PROVE Counted'
<1>1. PICK i \in Invitation, r \in InvitedRoles :
        /\ NextInvitation(i)
        /\ invitation' = [invitation EXCEPT ![i] =
             [NoInvitation EXCEPT !.state = "OPEN", !.role = r, !.expires = now + Validity,
                                  !.told = TRUE]]
  BY DEF Invite
<1>2. PICK v : v = [NoInvitation EXCEPT !.state = "OPEN", !.role = r,
                                        !.expires = now + Validity, !.told = TRUE]
  OBVIOUS
<1>3. v.state = "OPEN" /\ v.member = 0 /\ ~v.accepted /\ v.told
  BY <1>2 DEF NoInvitation
<1>4. /\ invitation'[i] = v /\ \A j \in Invitation \ {i} : invitation'[j] = invitation[j]
      /\ invitation[i].state = "ABSENT" /\ UNCHANGED <<group, member, lost, hand>>
      /\ ~invitation[i].accepted
  BY <1>1, <1>2, Typed DEF Stands, Invite, NextInvitation, Counted, RowsFresh
<1>5. group = "OPEN"
  BY <1>4, Typed DEF Stands, Counted, RowsFresh
<1>6. RowsFresh'
  BY <1>3, <1>4, <1>5 DEF Counted, RowsFresh
<1>7. Occupied' = Occupied /\ Accepted' = Accepted /\ Untold' = Untold /\ Telling' = Telling
  <2>1. Occupied' = Occupied /\ Telling' = Telling
    BY <1>4 DEF Occupied, Members, Exists, Telling
  <2>2. Accepted' = Accepted
    BY <1>3, <1>4 DEF Accepted
  <2>3. Untold' = Untold
    BY <1>3, <1>4 DEF Untold
  <2> QED
    BY <2>1, <2>2, <2>3
<1>8. \A k \in Handler : HandFresh(hand[k])'
  <2> SUFFICES ASSUME NEW k \in Handler PROVE HandFresh(hand[k])'
    OBVIOUS
  <2>1. HandFresh(hand[k])
    BY <1>5 DEF Counted
  <2>2. hand[k].at \in {"TELL", "CLEAN", "JOIN", "CLAIM", "ENTER"} =>
          hand[k].inv \in Invitation \ {i}
    BY <1>4, <2>1, HandInvitations DEF HandFresh
  <2> QED
    BY <1>4, <2>1, <2>2 DEF HandFresh
<1> QED
  BY <1>4, <1>6, <1>7, <1>8 DEF Counted

(* A write that accepts one invitation and lets one person in, or neither, *)
(* and sends and withdraws none.                                           *)
LEMMA AcceptedOnce ==
  ASSUME Stands, Counted, NEW h \in Handler, h \notin Telling, Ends(h),
         UNCHANGED <<group, lost>>, RowsFresh',
         \A i \in Invitation : /\ invitation'[i].state = invitation[i].state
                               /\ invitation'[i].told = invitation[i].told,
         \A k \in Handler \ {h} : hand[k].at = "ENTER" =>
           invitation'[hand[k].inv].accepted = invitation[hand[k].inv].accepted,
         \/ Occupied' = Occupied /\ Accepted' = Accepted
         \/ \E m, i : /\ m \notin Occupied /\ Occupied' = Occupied \cup {m}
                      /\ i \notin Accepted /\ Accepted' = Accepted \cup {i}
  PROVE  Counted'
<1>1. HandFresh(Idle)' /\ Goes(h, Idle) /\ Telling' = Telling
  <2>1. Idle.at \notin {"TELL", "CLEAN", "JOIN", "CLAIM", "ENTER"} /\ Goes(h, Idle)
    BY BlankFields DEF Ends
  <2>2. Telling' = Telling \ {h}
    BY <2>1, TellingMoves
  <2> QED
    BY <2>1, <2>2 DEF HandFresh
<1>2. group' = "OPEN" => \A k \in Handler : HandFresh(hand[k])'
  <2>1. ASSUME NEW k \in Handler \ {h}, group = "OPEN"
        PROVE  LET j == hand[k].inv
               IN /\ hand[k].at \in {"TELL", "CLEAN", "JOIN", "CLAIM", "ENTER"} =>
                       invitation'[j].state = "OPEN"
                  /\ hand[k].at \in {"TELL", "CLEAN"} => ~invitation'[j].told
                  /\ hand[k].at = "ENTER" => ~invitation'[j].accepted
    <3>1. HandFresh(hand[k])
      BY <2>1 DEF Counted
    <3> QED
      BY <3>1, HandInvitations DEF HandFresh
  <2> QED
    BY <1>1, <2>1, HandsFresh
<1>3. group' = "OPEN" => Cardinality(Occupied') = 1 + Cardinality(Accepted')
  <2>1. CASE Occupied' = Occupied /\ Accepted' = Accepted
    BY <2>1 DEF Counted
  <2>2. CASE \E m, i : /\ m \notin Occupied /\ Occupied' = Occupied \cup {m}
                       /\ i \notin Accepted /\ Accepted' = Accepted \cup {i}
    <3>1. /\ Cardinality(Occupied') = Cardinality(Occupied) + 1
          /\ Cardinality(Accepted') = Cardinality(Accepted) + 1
      BY <2>2, CountedSets, FS_AddElement
    <3> QED
      BY <3>1, CountedSets DEF Counted
  <2> QED
    BY <2>1, <2>2
<1>4. Untold' = Untold
  BY DEF Untold
<1> QED
  BY <1>1, <1>2, <1>3, <1>4 DEF Counted

(* The row of an invitation nobody has accepted gets its user. *)
LEMMA JoinActivatesCounts ==
  ASSUME Stands, Counted, NEW h \in Handler, JoinActivates(h)
  PROVE  Counted'
<1>1. PICK y \in Hand : y = hand[h]
  BY Typed DEF Stands
<1>2. /\ y.at = "CLAIM" /\ y.row \in Member /\ y.inv \in Invitation /\ y.user \in User
      /\ invitation[y.inv].state = "OPEN" /\ invitation[y.inv].told
      /\ invitation[y.inv].member = y.row /\ ~invitation[y.inv].accepted
  BY <1>1 DEF Stands, HandStands, OfInvitation, JoinActivates, Claimable, Open
<1>3. PICK m \in Member, i \in Invitation : m = y.row /\ i = y.inv
  BY <1>2
<1>4. PICK v \in InvitationRow, u \in Row : v = invitation[i] /\ u = member[m]
  BY Typed DEF Stands
<1>5. PICK w : w = [v EXCEPT !.accepted = TRUE]
  OBVIOUS
<1>6. PICK x :
        x = [u EXCEPT !.status = "ACTIVE", !.user = y.user, !.role = v.role, !.joined = y.time]
  OBVIOUS
<1>7. w.state = v.state /\ w.member = v.member /\ w.accepted /\ w.told = v.told
  BY <1>5 DEF InvitationRow
<1>8. x.status = "ACTIVE" /\ x.user = y.user
  BY <1>6 DEF Row
<1>9. /\ invitation'[i] = w /\ \A j \in Invitation \ {i} : invitation'[j] = invitation[j]
      /\ member'[m] = x /\ \A n \in Member \ {m} : member'[n] = member[n]
      /\ Ends(h) /\ UNCHANGED <<group, lost>> /\ h \notin Telling
  BY <1>1, <1>3, <1>4, <1>5, <1>6, Typed DEF Stands, JoinActivates, Telling
<1>10. member[m].user = None /\ x.user # None
  BY <1>2, <1>3, <1>8, NoneIsNothing DEF Counted, RowsFresh
<1>11. RowsFresh'
  <2>1. \A j \in Invitation \ {i} : invitation[j].member # m
    BY <1>2, <1>3, NoneIsNothing DEF Stands, RowsStand
  <2> QED
    BY <1>2, <1>3, <1>4, <1>7, <1>8, <1>9, <2>1, Typed DEF Stands, InvitationRow, Counted, RowsFresh
<1>12. Occupied' = Occupied \cup {m} /\ m \notin Occupied
  BY <1>8, <1>9, <1>10 DEF Occupied, Members, Exists, Statuses
<1>13. Accepted' = Accepted \cup {i} /\ i \notin Accepted
  BY <1>2, <1>3, <1>7, <1>9 DEF Accepted
<1>14. \A j \in Invitation : /\ invitation'[j].state = invitation[j].state
                             /\ invitation'[j].told = invitation[j].told
  BY <1>4, <1>7, <1>9
<1>15. ASSUME NEW k \in Handler \ {h}, hand[k].at = "ENTER"
       PROVE  invitation'[hand[k].inv].accepted = invitation[hand[k].inv].accepted
  <2>1. hand[k].inv # i
    BY <1>1, <1>3, <1>15 DEF JoinActivates, Claimable
  <2> QED
    BY <1>9, <1>15, <2>1, HandInvitations
<1> QED
  BY <1>9, <1>11, <1>12, <1>13, <1>14, <1>15, AcceptedOnce

(* A new row gets the user; the invitation stayed locked since its claim. *)
LEMMA JoinCreatesCounts ==
  ASSUME Stands, Counted, NEW h \in Handler, JoinCreates(h)
  PROVE  Counted'
<1>1. PICK y \in Hand : y = hand[h]
  BY Typed DEF Stands
<1>2. /\ y.at = "ENTER" /\ y.inv \in Invitation /\ y.user \in User /\ group = "OPEN"
      /\ HandFresh(y) /\ invitation[y.inv].told
  BY <1>1 DEF Stands, HandStands, OfInvitation, JoinCreates, Counted, HandFresh
<1>3. PICK i \in Invitation : i = y.inv
  BY <1>2
<1>4. PICK v \in InvitationRow : v = invitation[i]
  BY Typed DEF Stands
<1>5. PICK w : w = [v EXCEPT !.accepted = TRUE]
  OBVIOUS
<1>6. /\ w.state = v.state /\ w.member = v.member /\ w.accepted /\ w.told = v.told
      /\ v.state = "OPEN" /\ ~v.accepted /\ v.told
  BY <1>2, <1>3, <1>4, <1>5 DEF InvitationRow, HandFresh
<1>7. PICK m \in Member :
        /\ NextRow(m)
        /\ member' = [member EXCEPT ![m] =
             [NoMember EXCEPT !.status = "ACTIVE", !.user = y.user, !.role = v.role,
                              !.number = y.number, !.joined = y.time]]
  BY <1>1, <1>3, <1>4 DEF JoinCreates
<1>8. PICK x : x = [NoMember EXCEPT !.status = "ACTIVE", !.user = y.user, !.role = v.role,
                                    !.number = y.number, !.joined = y.time]
  OBVIOUS
<1>9. x.status = "ACTIVE" /\ x.user = y.user /\ x.user # None
  BY <1>2, <1>8, NoneIsNothing DEF NoMember
<1>10. /\ invitation'[i] = w /\ \A j \in Invitation \ {i} : invitation'[j] = invitation[j]
       /\ member'[m] = x /\ \A n \in Member \ {m} : member'[n] = member[n]
       /\ Ends(h) /\ UNCHANGED <<group, lost>> /\ h \notin Telling
       /\ member[m].status = "ABSENT"
  BY <1>1, <1>3, <1>4, <1>5, <1>7, <1>8, Typed DEF Stands, JoinCreates, Telling, NextRow
<1>11. RowsFresh'
  <2>1. \A j \in Invitation : invitation[j].member # m
    BY <1>10, NoneIsNothing DEF Stands, RowsStand
  <2>2. \A n \in Member : member'[n].status \in {"ABSENT", "GONE"} => member'[n].user = None
    BY <1>9, <1>10 DEF Counted, RowsFresh
  <2>3. group' = "OPEN" /\ \A j \in Invitation : invitation'[j].accepted =>
          invitation'[j].state = "OPEN" /\ invitation'[j].told
    BY <1>2, <1>4, <1>6, <1>10 DEF Counted, RowsFresh
  <2>4. ASSUME NEW j \in Invitation, invitation'[j].state = "OPEN", ~invitation'[j].accepted,
               invitation'[j].member # 0
        PROVE  member'[invitation'[j].member].user = None
    <3>1. j # i /\ invitation'[j] = invitation[j]
      BY <1>6, <1>10, <2>4
    <3>2. invitation[j].member \in Member \ {m}
      BY <2>1, <2>4, <3>1, Typed DEF Stands, InvitationRow
    <3> QED
      BY <1>10, <2>4, <3>1, <3>2 DEF Counted, RowsFresh
  <2> QED
    BY <2>2, <2>3, <2>4 DEF RowsFresh
<1>12. Occupied' = Occupied \cup {m} /\ m \notin Occupied
  BY <1>9, <1>10 DEF Occupied, Members, Exists, Statuses
<1>13. Accepted' = Accepted \cup {i} /\ i \notin Accepted
  BY <1>4, <1>6, <1>10 DEF Accepted
<1>14. \A j \in Invitation : /\ invitation'[j].state = invitation[j].state
                             /\ invitation'[j].told = invitation[j].told
  BY <1>4, <1>6, <1>10
<1>15. \A k \in Handler \ {h} : hand[k].at # "ENTER"
  BY <1>1, <1>2 DEF Stands, NumbersStand
<1> QED
  BY <1>10, <1>11, <1>12, <1>13, <1>14, <1>15, AcceptedOnce

(* A role, a suspension or a removal leaves the user and the acceptance. *)
LEMMA AssignWritesCounts ==
  ASSUME Stands, Counted, NEW h \in Handler, AssignWrites(h)
  PROVE  Counted'
<1>1. \A n \in Member : /\ member'[n].status = member[n].status
                        /\ member'[n].user = member[n].user
  <2>1. \A n \in Member : /\ [member[n] EXCEPT !.role = hand[h].role].status = member[n].status
                          /\ [member[n] EXCEPT !.role = hand[h].role].user = member[n].user
    BY Typed DEF Stands, Row
  <2> QED
    BY <2>1, Typed DEF Stands, AssignWrites
<1>2. /\ UNCHANGED <<group, invitation, lost>> /\ Ends(h) /\ h \notin Telling
  BY DEF AssignWrites, Telling
<1>3. RowsFresh'
  BY <1>1, <1>2, Typed DEF Stands, InvitationRow, Counted, RowsFresh
<1>4. Occupied' = Occupied /\ Accepted' = Accepted
  BY <1>1, <1>2 DEF Occupied, Members, Exists, Accepted
<1> QED
  BY <1>2, <1>3, <1>4, AcceptedOnce

(* So does a suspension, a removal or a return. *)
LEMMA StatusWritesCounts ==
  ASSUME Stands, Counted, NEW h \in Handler, StatusWrites(h)
  PROVE  Counted'
<1>1. PICK y \in Hand : y = hand[h]
  BY Typed DEF Stands
<1>2. /\ y.row \in Member /\ y.status \in Statuses /\ member[y.row].status \in Statuses
  BY <1>1 DEF Stands, HandStands, OfRow, StatusWrites, UnchangedSinceRead, Hand
<1>3. PICK m \in Member : m = y.row
  BY <1>2
<1>4. PICK u \in Row : u = member[m]
  BY Typed DEF Stands
<1>5. PICK t : t = IF y.status # "ACTIVE" THEN now ELSE None
  OBVIOUS
<1>6. PICK x : x = [u EXCEPT !.status = y.status, !.left = t]
  OBVIOUS
<1>7. x.status = y.status /\ x.user = u.user
  BY <1>6 DEF Row
<1>8. member'[m] = x /\ \A n \in Member \ {m} : member'[n] = member[n]
  <2>1. member' = [member EXCEPT ![y.row].status = y.status, ![y.row].left = t]
    BY <1>1, <1>5 DEF StatusWrites
  <2> QED
    BY <1>3, <1>4, <1>6, <2>1, Typed DEF Stands
<1>9. \A i \in Invitation : /\ invitation'[i].state = invitation[i].state
                            /\ invitation'[i].member = invitation[i].member
                            /\ invitation'[i].told = invitation[i].told
                            /\ invitation'[i].accepted = invitation[i].accepted
  <2>1. \A i \in Invitation : \/ invitation'[i] = invitation[i]
                              \/ invitation'[i] = [invitation[i] EXCEPT !.expires = now]
    BY DEF StatusWrites, ExpiredWith
  <2>2. \A i \in Invitation : LET v == [invitation[i] EXCEPT !.expires = now]
                              IN /\ v.state = invitation[i].state
                                 /\ v.member = invitation[i].member
                                 /\ v.told = invitation[i].told
                                 /\ v.accepted = invitation[i].accepted
    BY Typed DEF Stands, InvitationRow
  <2> QED
    BY <2>1, <2>2
<1>10. UNCHANGED <<group, lost>> /\ Ends(h) /\ h \notin Telling
  BY DEF StatusWrites, Telling
<1>11. \A n \in Member : /\ member'[n].user = member[n].user
                         /\ member'[n].status \in Statuses <=> member[n].status \in Statuses
                         /\ member'[n].status \in {"ABSENT", "GONE"} =>
                              member[n].status \in {"ABSENT", "GONE"}
  BY <1>2, <1>3, <1>4, <1>7, <1>8 DEF Statuses
<1>12. RowsFresh'
  BY <1>9, <1>10, <1>11, Typed DEF Stands, InvitationRow, Counted, RowsFresh
<1>13. Occupied' = Occupied /\ Accepted' = Accepted
  <2>1. Occupied' = Occupied
    BY <1>11 DEF Occupied, Members, Exists
  <2>2. Accepted' = Accepted
    BY <1>9 DEF Accepted
  <2> QED
    BY <2>1, <2>2
<1>14. \A k \in Handler \ {h} : hand[k].at = "ENTER" =>
         invitation'[hand[k].inv].accepted = invitation[hand[k].inv].accepted
  BY <1>9, HandInvitations
<1> QED
  BY <1>9, <1>10, <1>12, <1>13, <1>14, AcceptedOnce

(* A deleted group has nobody and nothing to send. *)
LEMMA DeleteGroupCounts ==
  ASSUME Stands, Counted, NEW h \in Handler, DeleteGroup(h)
  PROVE  Counted'
<1>1. Withdrawn.state = "GONE" /\ ~Withdrawn.accepted /\ Gone.user = None
  BY DEF Withdrawn, NoInvitation, Gone, NoMember
<1>2. /\ group' = "DELETED" /\ member' = [m \in Member |-> Gone]
      /\ invitation' = [i \in Invitation |-> Withdrawn] /\ UNCHANGED <<lost, hand>>
  BY DEF DeleteGroup
<1>3. RowsFresh'
  BY <1>1, <1>2 DEF RowsFresh
<1>4. Untold' = {} /\ Telling' = Telling
  BY <1>1, <1>2 DEF Untold, Telling
<1>5. Cardinality(Untold') = 0
  BY <1>4, FS_EmptySet
<1> QED
  BY <1>2, <1>3, <1>4, <1>5, CountedSets, Typed DEF Stands, Counted

(* At the start the founder is in, and nobody is invited. *)
LEMMA CountedInit == Init => Counted
<1> SUFFICES ASSUME Init PROVE Counted
  OBVIOUS
<1>1. PICK x : x = [NoMember EXCEPT !.status = "ACTIVE", !.role = "GROUP_ADMIN",
                                    !.user = Founder, !.number = 1, !.joined = 0]
  OBVIOUS
<1>2. x.status = "ACTIVE" /\ x.user = Founder /\ NoMember.status = "ABSENT"
      /\ NoMember.user = None /\ Founder # None
  BY <1>1, MemberAssumption DEF NoMember
<1>3. member = [m \in Member |-> IF m = 1 THEN x ELSE NoMember]
  BY <1>1 DEF Init
<1>4. \A i \in Invitation : invitation[i].state = "ABSENT" /\ ~invitation[i].accepted
  BY DEF Init, NoInvitation
<1>5. \A h \in Handler : hand[h].at = "IDLE"
  BY BlankFields DEF Init
<1>6. group = "OPEN" /\ lost = 0
  BY DEF Init
<1>7. RowsFresh /\ \A h \in Handler : HandFresh(hand[h])
  BY <1>2, <1>3, <1>4, <1>5, <1>6 DEF RowsFresh, HandFresh
<1>8. Occupied = {1}
  BY <1>2, <1>3, NoneIsNothing DEF Occupied, Members, Exists, Statuses
<1>9. Accepted = {} /\ Untold = {} /\ Telling = {}
  BY <1>4, <1>5 DEF Accepted, Untold, Telling
<1>10. Cardinality({1}) = 1 /\ Cardinality({}) = 0
  BY FS_Singleton, FS_EmptySet
<1> QED
  BY <1>6, <1>7, <1>8, <1>9, <1>10 DEF Counted

(* Time passes, or nothing happens. *)
LEMMA IdleCounts ==
  ASSUME Counted, UNCHANGED <<group, member, invitation, lost, hand>>
  PROVE  Counted'
<1>1. RowsFresh' /\ \A h \in Handler : HandFresh(hand[h])' <=> HandFresh(hand[h])
  BY DEF Counted, RowsFresh, HandFresh
<1>2. Occupied' = Occupied /\ Accepted' = Accepted /\ Untold' = Untold /\ Telling' = Telling
  BY DEF Occupied, Members, Exists, Accepted, Untold, Telling
<1> QED
  BY <1>1, <1>2 DEF Counted

(* Every step keeps the counts. *)
LEMMA CountedNext == ASSUME Stands, Counted, [Next]_vars PROVE Counted'
<1>1. CASE Tick \/ UNCHANGED vars
  BY <1>1, IdleCounts DEF Tick, vars
<1>2. CASE \E h \in Handler : Step(h)
  <2>1. PICK h \in Handler : Step(h)
    BY <1>2
  <2>2. CASE \/ AddReads(h) \/ AddCreates(h) \/ AddTells(h) \/ AddUntold(h) \/ AddCleansUp(h)
             \/ Invite(h)
    BY <2>2, ReadersCount, AddCreatesCounts, AddTellsCounts, OthersCount, AddCleansUpCounts,
       InviteCounts
  <2>3. CASE \/ JoinReads(h) \/ JoinChecks(h) \/ JoinActivates(h) \/ JoinClaims(h)
             \/ JoinCreates(h) \/ JoinRefused(h)
    BY <2>3, JoinersCount, OthersCount, JoinActivatesCounts, JoinCreatesCounts
  <2>4. CASE \/ AssignReads(h) \/ AssignWrites(h) \/ StatusReads(h) \/ StatusWrites(h)
             \/ StatusFails(h)
    BY <2>4, ReadersCount, OthersCount, AssignWritesCounts, StatusWritesCounts
  <2>5. CASE \/ DeletionReads(h) \/ DeletionCreates(h) \/ ApproveReads(h) \/ ApproveWrites(h)
             \/ CancelReads(h) \/ CancelWrites(h)
    BY <2>5, ReadersCount, OthersCount
  <2>6. CASE DeleteGroup(h) \/ Orphaned(h) \/ Lose(h)
    BY <2>6, DeleteGroupCounts, OthersCount
  <2> QED
    BY <2>1, <2>2, <2>3, <2>4, <2>5, <2>6 DEF Step
<1> QED
  BY <1>1, <1>2 DEF Next

(* The counts hold in every state. *)
THEOREM AlwaysCounted == Spec => []Counted
<1>1. Stands /\ Counted /\ [Next]_vars => Counted'
  BY CountedNext
<1> QED
  BY <1>1, AlwaysStands, CountedInit, PTL DEF Spec

(* As many people are in as invitations were accepted, and the founder. *)
THEOREM AcceptancesMatch == Spec => []MembersMatchInvitations
<1>1. Counted => MembersMatchInvitations
  BY DEF Counted, MembersMatchInvitations, Occupied, Accepted
<1> QED
  BY <1>1, AlwaysCounted, PTL

(* No more invitations are unsent than calls are at work on, or were lost. *)
THEOREM UndeliveredHandled == Spec => []UndeliveredAreCleanedUp
<1>1. Counted => UndeliveredAreCleanedUp
  BY DEF Counted, UndeliveredAreCleanedUp, Untold, Telling
<1> QED
  BY <1>1, AlwaysCounted, PTL

(* What a step leaves of a cancelled request that no approval holds. *)
LEMMA RestStays ==
  ASSUME Stands, NEW q \in Request, AtRest(q), Next
  PROVE  AtRest(q)' \/ group' = "DELETED"
<1>1. ASSUME NEW h \in Handler, NEW x, Goes(h, x), x.at # "APPROVE" \/ x.row # q,
             request'[q].status = "CANCELLED"
      PROVE  AtRest(q)'
  <2>1. hand'[h] = x /\ \A k \in Handler \ {h} : hand'[k] = hand[k]
    BY <1>1, Typed DEF Stands, Goes
  <2> QED
    BY <1>1, <2>1 DEF AtRest
<1>2. Idle.at # "APPROVE"
  BY DEF Idle
<1>3. ASSUME NEW h \in Handler, ApproveReads(h) PROVE AtRest(q)'
  <2>1. PICK u \in User, p \in Request :
          /\ request[p].status = "PENDING"
          /\ Goes(h, [Idle EXCEPT !.at = "APPROVE", !.user = u, !.row = p])
          /\ UNCHANGED request
    BY <1>3 DEF ApproveReads
  <2>2. PICK x : x = [Idle EXCEPT !.at = "APPROVE", !.user = u, !.row = p]
    OBVIOUS
  <2>3. x.row = p /\ p # q
    BY <2>1, <2>2 DEF Idle, AtRest
  <2> QED
    BY <1>1, <2>1, <2>2, <2>3 DEF AtRest
<1>4. ASSUME NEW h \in Handler, ApproveWrites(h) PROVE AtRest(q)'
  <2>1. hand[h].row \in Request /\ hand[h].row # q
    BY <1>4 DEF Stands, HandStands, OfRequest, ApproveWrites, AtRest
  <2>2. request'[q].status = request[q].status
    BY <1>4, <2>1, Typed DEF Stands, ApproveWrites
  <2> QED
    BY <1>1, <1>2, <1>4, <2>2 DEF ApproveWrites, Ends, AtRest
<1>5. ASSUME NEW h \in Handler, CancelWrites(h) PROVE AtRest(q)'
  <2>1. hand[h].row \in Request
    BY <1>5 DEF Stands, HandStands, OfRequest, CancelWrites
  <2>2. request'[q].status = "CANCELLED"
    BY <1>5, <2>1, Typed DEF Stands, CancelWrites, AtRest, RequestRow
  <2> QED
    BY <1>1, <1>2, <1>5, <2>2 DEF CancelWrites, Ends
<1>6. ASSUME NEW h \in Handler, DeletionCreates(h) PROVE AtRest(q)'
  <2>1. request'[q] = request[q]
    BY <1>6, Typed DEF Stands, DeletionCreates, NextRequest, AtRest
  <2> QED
    BY <1>1, <1>2, <1>6, <2>1 DEF DeletionCreates, Ends, AtRest
<1> DEFINE NoneTakesUp == /\ UNCHANGED request
                         /\ \A k \in Handler : hand'[k].at = "APPROVE" => hand'[k] = hand[k]
<1>7. NoneTakesUp => AtRest(q)'
  BY DEF AtRest
<1>8. ASSUME NEW h \in Handler, Ends(h), UNCHANGED request PROVE NoneTakesUp
  BY <1>2, <1>8, Typed DEF Stands, Ends, Goes
<1>9. ASSUME NEW h \in Handler, NEW x, Goes(h, x), x.at # "APPROVE", UNCHANGED request
      PROVE  NoneTakesUp
  BY <1>9, Typed DEF Stands, Goes
<1>10. ASSUME UNCHANGED <<request, hand>> PROVE NoneTakesUp
  BY <1>10
<1> HIDE DEF NoneTakesUp
<1>11. ASSUME NEW h \in Handler,
              \/ AddReads(h) \/ AddCreates(h) \/ AddTells(h) \/ AddUntold(h) \/ AddCleansUp(h)
              \/ Invite(h)
       PROVE  NoneTakesUp
  <2>1. ASSUME AddReads(h) PROVE NoneTakesUp
    <3>1. PICK c \in Contact, r \in InvitedRoles, n \in 1 .. MaxMembers :
            Goes(h, [Idle EXCEPT !.at = "ADD", !.contact = c, !.role = r, !.number = n])
      BY <2>1 DEF AddReads
    <3> QED
      BY <1>9, <2>1, <3>1 DEF AddReads, Idle
  <2>2. ASSUME AddCreates(h) PROVE NoneTakesUp
    BY <1>9, <2>2 DEF AddCreates, Idle
  <2>3. ASSUME AddUntold(h) PROVE NoneTakesUp
    <3>1. hand[h] \in Hand
      BY Typed DEF Stands
    <3>2. [hand[h] EXCEPT !.at = "CLEAN"].at = "CLEAN"
      BY <3>1 DEF Hand
    <3> QED
      BY <1>9, <2>3, <3>2 DEF AddUntold
  <2> QED
    BY <1>8, <1>10, <1>11, <2>1, <2>2, <2>3 DEF AddTells, AddCleansUp, Invite
<1>12. ASSUME NEW h \in Handler,
              \/ JoinReads(h) \/ JoinChecks(h) \/ JoinActivates(h) \/ JoinClaims(h)
              \/ JoinCreates(h) \/ JoinRefused(h)
       PROVE  NoneTakesUp
  <2>1. ASSUME JoinReads(h) PROVE NoneTakesUp
    BY <1>9, <2>1 DEF JoinReads, Idle
  <2>2. hand[h] \in Hand
    BY Typed DEF Stands
  <2>3. [hand[h] EXCEPT !.at = "CLAIM", !.time = now].at = "CLAIM"
    BY <2>2 DEF Hand
  <2>4. \A n : [hand[h] EXCEPT !.at = "ENTER", !.number = n].at = "ENTER"
    BY <2>2 DEF Hand
  <2>5. ASSUME JoinChecks(h) PROVE NoneTakesUp
    BY <1>8, <1>9, <2>3, <2>5 DEF JoinChecks
  <2>6. ASSUME JoinClaims(h) PROVE NoneTakesUp
    BY <1>9, <2>4, <2>6 DEF JoinClaims
  <2> QED
    BY <1>8, <1>12, <2>1, <2>5, <2>6 DEF JoinActivates, JoinCreates, JoinRefused
<1>13. ASSUME NEW h \in Handler,
              \/ AssignReads(h) \/ AssignWrites(h) \/ StatusReads(h) \/ StatusWrites(h)
              \/ StatusFails(h)
       PROVE  NoneTakesUp
  <2>1. ASSUME AssignReads(h) PROVE NoneTakesUp
    BY <1>9, <2>1 DEF AssignReads, Idle
  <2>2. ASSUME StatusReads(h) PROVE NoneTakesUp
    BY <1>9, <2>2 DEF StatusReads, Idle
  <2> QED
    BY <1>8, <1>13, <2>1, <2>2 DEF AssignWrites, StatusWrites, StatusFails
<1>14. ASSUME NEW h \in Handler,
              DeletionReads(h) \/ CancelReads(h) \/ Orphaned(h) \/ Lose(h)
       PROVE  NoneTakesUp
  <2>1. ASSUME DeletionReads(h) PROVE NoneTakesUp
    BY <1>9, <2>1 DEF DeletionReads, Idle
  <2>2. ASSUME CancelReads(h) PROVE NoneTakesUp
    BY <1>9, <2>2 DEF CancelReads, Idle
  <2> QED
    BY <1>8, <1>14, <2>1, <2>2 DEF Orphaned, Lose
<1>15. ASSUME Tick PROVE NoneTakesUp
  BY <1>10, <1>15 DEF Tick
<1>16. ASSUME NEW h \in Handler, DeleteGroup(h) PROVE group' = "DELETED"
  BY <1>16 DEF DeleteGroup
<1> QED
  BY <1>3, <1>4, <1>5, <1>6, <1>7, <1>11, <1>12, <1>13, <1>14, <1>15, <1>16 DEF Next, Step

(* A request at rest stays so until the group is deleted, for any number of *)
(* requests and calls.                                                      *)
THEOREM CancellationsRest == Spec => CancelledDeletionsRest
<1>1. Stands /\ [Next]_vars =>
        [\A q \in Request : AtRest(q) => AtRest(q)' \/ group' = "DELETED"]_vars
  BY RestStays
<1> QED
  BY <1>1, AlwaysStands, PTL DEF Spec, CancelledDeletionsRest

=============================================================================

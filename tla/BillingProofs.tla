----------------------------- MODULE BillingProofs -----------------------------
(***************************************************************************)
(* What is booked, credited and opened has been paid for, for any number   *)
(* of orders, plans, packages, rows and calls, over any length of time.    *)
(*                                                                         *)
(* Every action moves each part of the state in one of a few ways          *)
(* (`Moved'), and what a call does next is true of the state the action    *)
(* leaves.  That much is shown action by action; that it preserves the     *)
(* invariant is shown once, for all of them (`MovesStand'), and so is that *)
(* they are moves of the book of sales (SalesBook).                        *)
(***************************************************************************)
EXTENDS Billing, WellFoundedInduction, TLAPS

Paid(o) == order[o].status = "COMPLETED"

(* The row and the order are of one package. *)
Fits(r, o) ==
  /\ purchase[r].item \in Item /\ order[o].product \in Item
  /\ PackageOf[purchase[r].item] = PackageOf[order[o].product]

Credited(r) == \E o \in Order : Paid(o) /\ Fits(r, o)

(* An unopened order has no product, and no notice runs ahead of its order. *)
OrdersStand ==
  /\ \A o \in Order : order[o].status = "ABSENT" => order[o].product = None
  /\ \A n \in notice : n[2] = "COMPLETED" => Paid(n[1])

(* A row is linked to orders of its plan only. *)
LinksStand ==
  \A p \in Offer : sub[p].link # None => p \in Plan /\ order[sub[p].link].product = p

(* A purchase is linked to orders of its package only. *)
RowsStand ==
  \A r \in Purchase : /\ purchase[r].status # "ABSENT" => purchase[r].item \in Item
                      /\ purchase[r].link # None => Fits(r, purchase[r].link)

(* A number no row has got yet stands for nothing. *)
BlankRows == \A r \in Purchase : purchase[r].status = "ABSENT" => purchase[r].item = None

(* What a call has read, and still holds when it writes. *)
OfPlan(y) ==
  /\ y.at = "ORDER" => y.product \in Plan
  /\ y.at \in {"ASK", "ASK_VIEW", "LINK", "WRITE", "BOOK", "COMPARE", "ADOPT", "RECORD"} =>
       y.order \in Order /\ y.product \in Plan /\ order[y.order].product = y.product
  /\ y.at = "WRITE" /\ y.link # None => y.link \in Order /\ order[y.link].product = y.product
  /\ y.at \in {"BOOK", "ADOPT", "RECORD"} => Paid(y.order)
OfNotice(y) ==
  y.at \in {"PURCHASE", "SETTLE", "FIND", "WRITE", "BOOK", "MARK"} =>
    /\ y.order \in Order /\ y.status \in OrderStatus
    /\ y.status = "COMPLETED" => Paid(y.order)
OfAnswer(y) ==
  /\ y.at \in {"SYNC", "SYNC_VIEW"} =>
       /\ y.product \in Plan /\ y.status \in Answer
       /\ y.status = "active" => PaidFor(y.product)
  /\ y.at = "DELETE" => y.product \in Plan /\ y.order \in Order
  /\ y.at = "STATE" => y.product \in Plan /\ y.status \in Answer /\ y.ends \in Nat
OfRow(y) ==
  /\ y.at = "CREATE" =>
       y.product \in Item /\ y.order \in Order /\ order[y.order].product = y.product
  /\ y.at \in {"SETTLE", "COMPARE_ROW"} =>
       y.row \in Purchase /\ y.order \in Order /\ Fits(y.row, y.order)
  /\ y.at = "PAY_ROW" => y.row \in Purchase /\ Credited(y.row)
OfBatch(y) ==
  /\ \A x \in y.todo : /\ x[1] # 0 => Fits(x[1], x[2])
                       /\ x[1] = 0 => Paid(x[2]) /\ order[x[2]].product \in Item
                       /\ x[1] # 0 <=> y.at = "CHECK"
  /\ \A x \in y.found : /\ x[1] # 0 => Fits(x[1], x[2])
                        /\ y.at = "CHECK" => x[1] # 0
                        /\ x[3] = "PAID" => Paid(x[2]) /\ order[x[2]].product \in Item
                        /\ y.at # "CHECK" => x[3] = "PAID"
                        /\ x[3] # "ABSENT"

HandStands(y) == OfPlan(y) /\ OfNotice(y) /\ OfAnswer(y) /\ OfRow(y) /\ OfBatch(y)

Stands ==
  /\ TypeOK
  /\ OrdersStand /\ LinksStand /\ RowsStand /\ BlankRows
  /\ \A h \in Handler : HandStands(hand[h])
  /\ BookedAsPaid /\ CreditsNeedPayment

-----------------------------------------------------------------------------
(* The ways in which an action moves the parts of the state. *)

OrdersMove ==
  \/ UNCHANGED <<order, notice>>
  \/ \E o \in Order, p \in Product : Open(o, p)
  \/ \E o \in Order, s \in OrderStatus : order[o].status \in {"PENDING", "FAILED"} /\ Settle(o, s)

CountersMove ==
  /\ processed' \subseteq Order \X (OrderStatus \cup {None})
  /\ lost' \in 0 .. MaxLost

SubsMove ==
  \/ UNCHANGED rows /\ now' \in Nat /\ now' >= now
  \/ \E p \in Offer, r \in Row :
       /\ UNCHANGED now
       /\ Write(p, r)
       /\ r.link # None => p \in Plan /\ order[r.link].product = p
       /\ p \in Plan /\ HasPaidFeatureAccess(r) =>
            \/ PaidFor(p)
            \/ \E h \in Handler : hand[h].at = "STATE" /\ hand[h].product = p
            \/ r.state = "CANCELLED" /\ r.ends = sub[p].ends

BooksMove ==
  \/ UNCHANGED booked
  \/ \E x \in Reference, p \in Plan :
       booked' = [booked EXCEPT ![x] = p] /\ order[x[1]].product = p /\ Paid(x[1])

PurchasesMove ==
  \/ UNCHANGED purchase
  \/ \E x \in [status : PurchaseStatus, item : Item, link : Order] :
       /\ Create(x)
       /\ order[x.link].product \in Item
       /\ PackageOf[x.item] = PackageOf[order[x.link].product]
       /\ x.status = "PAID" => Paid(x.link)
       /\ x.status # "ABSENT"
  \/ \E r \in Purchase, s \in PurchaseStatus \ {"ABSENT"} :
       /\ SetStatus(r, s) /\ purchase[r].item \in Item
       /\ s = "PAID" => Credited(r)
  \/ \E r \in Purchase, o \in Order, s \in PurchaseStatus \ {"ABSENT"} :
       /\ SetLink(r, o, s) /\ Fits(r, o)
       /\ s = "PAID" => Paid(o)

HandsMove ==
  \/ UNCHANGED hand
  \/ \E h \in Handler, y \in Hand : hand' = [hand EXCEPT ![h] = y] /\ HandStands(y)'

StateMoves == OrdersMove /\ CountersMove /\ SubsMove /\ BooksMove /\ PurchasesMove
Moved == StateMoves /\ HandsMove

(* Nothing a call relies on is taken back: neither a product, nor a        *)
(* payment, nor what a purchase is of.                                     *)
Kept ==
  /\ \A o \in Order : /\ order[o].product # None => order'[o].product = order[o].product
                      /\ Paid(o) => Paid(o)'
  /\ \A r \in Purchase : purchase[r].item # None => purchase'[r].item = purchase[r].item

-----------------------------------------------------------------------------

(* None is no product, and so no plan and no item; an offer has at most one name. *)
LEMMA NoneIsNothing ==
  /\ None \notin Product /\ None \notin Plan /\ None \notin Item /\ None \notin Order
  /\ None \notin Nat /\ 0 \notin Purchase
  /\ Plan \subseteq Product /\ Item \subseteq Product /\ Plan \subseteq Offer
  /\ Plan \cap Item = {} /\ Starter \notin Plan
BY OrderAssumption, SubscriptionAssumption, PurchaseAssumption, BillingAssumption
   DEF Order, Offer, Purchase

(* A call that does nothing is one of its kind, and relies on nothing. *)
LEMMA IdleIsHand == Idle \in Hand
BY DEF Idle, Hand, At, Date

(* A call that has got an answer for a product is one of its kind. *)
LEMMA IdleWith ==
  ASSUME NEW a \in At, NEW p \in Product \cup {None},
         NEW s \in OrderStatus \cup Answer \cup {None}
  PROVE  [Idle EXCEPT !.at = a, !.product = p, !.status = s] \in Hand
BY IdleIsHand DEF Hand

LEMMA IdleStands == HandStands(Idle)
BY DEF Idle, HandStands, OfPlan, OfNotice, OfAnswer, OfRow, OfBatch

(* The newest of a set of rows is one of them. *)
LEMMA NewestIsOneOf ==
  ASSUME NEW S, S \subseteq Purchase
  PROVE  /\ S # {} => NewestOf(S) \in S
         /\ S = {} => NewestOf(S) = 0
<1>1. ASSUME S # {} PROVE NewestOf(S) \in S
  <2> DEFINE T == {MaxRows - r : r \in S}
  <2>1. MaxRows \in Nat /\ \A r \in S : r \in Nat /\ r <= MaxRows
    BY PurchaseAssumption DEF Purchase
  <2>2. T \subseteq Nat /\ T # {}
    BY <1>1, <2>1
  <2>3. PICK m \in T : \A y \in T : <<y, m>> \notin OpToRel(<, Nat)
    BY <2>2, WFMin, NatLessThanWellFounded, Zenon
  <2>4. PICK r \in S : m = MaxRows - r
    BY <2>3
  <2>5. \A q \in S : MaxRows - q \in T
    OBVIOUS
  <2>6. \A y \in T : ~(y < m)
    BY <2>2, <2>3 DEF OpToRel
  <2>7. \A q \in S : q <= r
    BY <2>1, <2>4, <2>5, <2>6
  <2> QED
    BY <1>1, <2>7 DEF NewestOf
<1> QED
  BY <1>1 DEF NewestOf

(* What a call relies on is still so after a step that takes nothing back. *)
LEMMA HandKept ==
  ASSUME Stands, Kept, NEW y \in Hand, HandStands(y)
  PROVE  HandStands(y)'
<1> USE NoneIsNothing DEF Stands, Kept, TypeOK, OrdersTypeOK, PurchasesTypeOK
<1>1. ASSUME NEW r \in Purchase, NEW o \in Order, Fits(r, o) PROVE Fits(r, o)'
  BY <1>1 DEF Fits
<1>2. ASSUME NEW o \in Order, order[o].product # None, Paid(o)
      PROVE  Paid(o)' /\ order'[o].product = order[o].product
  BY <1>2
<1>3. OfPlan(y)'
  BY <1>2 DEF HandStands, OfPlan, Paid
<1>4. OfNotice(y)'
  BY DEF HandStands, OfNotice
<1>5. OfAnswer(y)'
  BY DEF HandStands, OfAnswer, PaidFor, Paid
<1>6. OfRow(y)'
  BY <1>1 DEF HandStands, OfRow, Credited
<1>7. OfBatch(y)'
  <2>1. /\ \A x \in y.todo : x[1] \in Purchase \cup {0} /\ x[2] \in Order
        /\ \A x \in y.found : x[1] \in Purchase \cup {0} /\ x[2] \in Order
    BY DEF Hand
  <2> QED
    BY <1>1, <2>1 DEF HandStands, OfBatch
<1> QED
  BY <1>3, <1>4, <1>5, <1>6, <1>7 DEF HandStands

-----------------------------------------------------------------------------
(* What the moves keep. *)

(* No move takes a product, a payment or an item back. *)
LEMMA MovesKeep ==
  ASSUME Stands, StateMoves
  PROVE  Kept
<1> USE NoneIsNothing DEF Stands, TypeOK, OrdersTypeOK, PurchasesTypeOK, OrdersStand, RowsStand
<1>1. ASSUME NEW o \in Order
      PROVE  /\ order[o].product # None => order'[o].product = order[o].product
             /\ Paid(o) => Paid(o)'
  <2>1. CASE UNCHANGED <<order, notice>>
    BY <2>1 DEF Paid
  <2>2. ASSUME NEW q \in Order, NEW p \in Product, Open(q, p)
        PROVE  /\ order[o].product # None => order'[o].product = order[o].product
               /\ Paid(o) => Paid(o)'
    BY <2>2 DEF Open, Unopened, Paid
  <2>3. ASSUME NEW q \in Order, NEW s \in OrderStatus,
               order[q].status \in {"PENDING", "FAILED"}, Settle(q, s)
        PROVE  /\ order[o].product # None => order'[o].product = order[o].product
               /\ Paid(o) => Paid(o)'
    BY <2>3 DEF Settle, Paid
  <2> QED
    BY <2>1, <2>2, <2>3 DEF StateMoves, OrdersMove
<1>2. ASSUME NEW r \in Purchase, purchase[r].item # None
      PROVE  purchase'[r].item = purchase[r].item
  <2>1. CASE UNCHANGED purchase
    BY <2>1
  <2>2. ASSUME NEW x, Create(x) PROVE purchase'[r].item = purchase[r].item
    <3>1. PICK q \in Purchase : purchase[q].status = "ABSENT" /\ purchase' = [purchase EXCEPT ![q] = x]
      BY <2>2 DEF Create
    <3>2. purchase[r].status # "ABSENT"
      BY <1>2 DEF Stands, BlankRows
    <3> QED
      BY <3>1, <3>2
  <2>3. ASSUME NEW q \in Purchase, NEW s, SetStatus(q, s) PROVE purchase'[r].item = purchase[r].item
    BY <2>3 DEF SetStatus
  <2>4. ASSUME NEW q \in Purchase, NEW o, NEW s, SetLink(q, o, s)
        PROVE  purchase'[r].item = purchase[r].item
    BY <2>4 DEF SetLink
  <2> QED
    BY <2>1, <2>2, <2>3, <2>4 DEF StateMoves, PurchasesMove
<1> QED
  BY <1>1, <1>2 DEF Kept

(* Orders keep their types, and notices do not run ahead of them. *)
LEMMA OrdersMoveStands ==
  ASSUME Stands, StateMoves
  PROVE  OrdersTypeOK' /\ OrdersStand'
<1> USE NoneIsNothing DEF Stands, TypeOK, OrdersTypeOK, OrdersStand
<1> DEFINE Orders == [Order -> [status : OrderStatus \cup {"ABSENT"}, product : Product \cup {None}]]
<1>1. order' \in Orders /\ notice' \subseteq Order \X OrderStatus /\ OrdersStand'
  <2>1. CASE UNCHANGED <<order, notice>>
    BY <2>1 DEF Paid
  <2>2. ASSUME NEW q \in Order, NEW p \in Product, Open(q, p)
        PROVE  order' \in Orders /\ notice' \subseteq Order \X OrderStatus /\ OrdersStand'
    BY <2>2 DEF Open, Unopened, Paid, OrderStatus
  <2>3. ASSUME NEW q \in Order, NEW s \in OrderStatus,
               order[q].status \in {"PENDING", "FAILED"}, Settle(q, s)
        PROVE  order' \in Orders /\ notice' \subseteq Order \X OrderStatus /\ OrdersStand'
    <3>1. order' \in Orders /\ notice' \subseteq Order \X OrderStatus
      BY <2>3 DEF Settle
    <3>2. OrdersStand'
      BY <2>3 DEF Settle, Paid, OrderStatus
    <3> QED
      BY <3>1, <3>2
  <2> QED
    BY <2>1, <2>2, <2>3 DEF StateMoves, OrdersMove
<1> QED
  BY <1>1 DEF StateMoves, CountersMove

(* Rows of subscriptions keep their types and are linked to orders of their plan. *)
LEMMA SubsMoveStands ==
  ASSUME Stands, StateMoves
  PROVE  SubscriptionsTypeOK' /\ LinksStand'
<1> USE NoneIsNothing DEF Stands, TypeOK
<1>1. now' \in Nat /\ sub' \in [Offer -> Row]
      /\ newest' \in Offer \cup {None} /\ recent' \in Offer \cup {None}
      /\ \A p \in Offer : sub'[p].link # None => p \in Plan /\ order[sub'[p].link].product = p
  <2>1. CASE UNCHANGED rows /\ now' \in Nat
    BY <2>1 DEF rows, SubscriptionsTypeOK, LinksStand
  <2>2. ASSUME NEW p \in Offer, NEW r \in Row, UNCHANGED now, Write(p, r),
               r.link # None => p \in Plan /\ order[r.link].product = p
        PROVE  /\ now' \in Nat /\ sub' \in [Offer -> Row]
               /\ newest' \in Offer \cup {None} /\ recent' \in Offer \cup {None}
               /\ \A q \in Offer :
                    sub'[q].link # None => q \in Plan /\ order[sub'[q].link].product = q
    BY <2>2 DEF Write, SubscriptionsTypeOK, LinksStand
  <2> QED
    BY <2>1, <2>2 DEF StateMoves, SubsMove
<1>2. booked' \in [Reference -> Plan \cup {None}]
  BY DEF StateMoves, BooksMove, SubscriptionsTypeOK
<1>3. Kept
  BY MovesKeep
<1>4. LinksStand'
  <2> SUFFICES ASSUME NEW p \in Offer, sub'[p].link # None
               PROVE  p \in Plan /\ order'[sub'[p].link].product = p
    BY DEF LinksStand
  <2>1. p \in Plan /\ order[sub'[p].link].product = p
    BY <1>1
  <2>2. sub'[p].link \in Order
    BY <1>1 DEF Row
  <2> QED
    BY <1>3, <2>1, <2>2 DEF Kept
<1> QED
  BY <1>1, <1>2, <1>4 DEF SubscriptionsTypeOK

(* A booked order is paid, and of the plan it is booked on. *)
LEMMA BooksMoveStands ==
  ASSUME Stands, StateMoves
  PROVE  BookedAsPaid'
<1> USE NoneIsNothing DEF Stands, TypeOK, SubscriptionsTypeOK
<1>1. Kept
  BY MovesKeep
<1> SUFFICES ASSUME NEW x \in Reference, booked'[x] # None
             PROVE  order'[x[1]].status = "COMPLETED" /\ order'[x[1]].product = booked'[x]
  BY DEF BookedAsPaid
<1>2. x[1] \in Order
  BY DEF Reference
<1>3. Paid(x[1]) /\ order[x[1]].product = booked'[x] /\ booked'[x] # None
  <2>1. CASE UNCHANGED booked
    BY <2>1 DEF BookedAsPaid, Paid
  <2>2. ASSUME NEW y \in Reference, NEW p \in Plan, booked' = [booked EXCEPT ![y] = p],
               order[y[1]].product = p, Paid(y[1])
        PROVE  Paid(x[1]) /\ order[x[1]].product = booked'[x]
    <3>1. CASE x = y
      BY <2>2, <3>1
    <3>2. CASE x # y
      BY <2>2, <3>2 DEF BookedAsPaid, Paid
    <3> QED
      BY <3>1, <3>2
  <2> QED
    BY <2>1, <2>2 DEF StateMoves, BooksMove
<1> QED
  BY <1>1, <1>2, <1>3 DEF Kept, Paid

(* Purchases keep their types, are linked to orders of their package, and  *)
(* are credited once such an order is paid.                                *)
LEMMA PurchasesMoveStands ==
  ASSUME Stands, StateMoves
  PROVE  PurchasesTypeOK' /\ BlankRows' /\ RowsStand' /\ CreditsNeedPayment'
<1> USE NoneIsNothing DEF Stands, TypeOK, PurchasesTypeOK
<1>1. Kept
  BY MovesKeep
<1>2. \A r \in Purchase, o \in Order : Fits(r, o) => Fits(r, o)'
  BY <1>1 DEF Kept, Fits
<1>3. \A o \in Order : Paid(o) => Paid(o)'
  BY <1>1 DEF Kept
<1>4. \A r \in Purchase : purchase[r].status = "PAID" => Credited(r)
  BY DEF CreditsNeedPayment, Credited, Fits, Paid, RowsStand
<1>5. \A r \in Purchase : Credited(r) => Credited(r)'
  BY <1>2, <1>3 DEF Credited
<1> DEFINE Good(r) == /\ purchase[r].status # "ABSENT" => purchase[r].item \in Item
                      /\ purchase[r].status = "ABSENT" => purchase[r].item = None
                      /\ purchase[r].link # None => Fits(r, purchase[r].link)
                      /\ purchase[r].status = "PAID" => Credited(r)
<1> DEFINE Rows == [Purchase -> [status : PurchaseStatus, item : Item \cup {None},
                                 link : Order \cup {None}]]
<1>6. ASSUME NEW r \in Purchase, purchase'[r] = purchase[r] PROVE Good(r)'
  <2>1. Good(r)
    BY <1>4 DEF RowsStand, BlankRows
  <2>2. purchase[r].link # None => purchase[r].link \in Order
    OBVIOUS
  <2>3. ASSUME purchase'[r].link # None PROVE Fits(r, purchase[r].link)'
    <3>1. PICK o \in Order : o = purchase[r].link
      BY <1>6, <2>2, <2>3
    <3>2. Fits(r, o)'
      BY <1>2, <1>6, <2>1, <2>3, <3>1
    <3> QED
      BY <1>6, <3>1, <3>2 DEF Fits
  <2> QED
    BY <1>5, <1>6, <2>1, <2>3
<1>7. purchase' \in Rows /\ \A r \in Purchase : Good(r)'
  <2>1. CASE UNCHANGED purchase
    BY <1>6, <2>1
  <2>2. ASSUME NEW x \in [status : PurchaseStatus, item : Item, link : Order], Create(x),
               order[x.link].product \in Item,
               PackageOf[x.item] = PackageOf[order[x.link].product],
               x.status = "PAID" => Paid(x.link), x.status # "ABSENT"
        PROVE  purchase' \in Rows /\ \A r \in Purchase : Good(r)'
    <3>1. PICK q \in Purchase : purchase' = [purchase EXCEPT ![q] = x]
      BY <2>2 DEF Create
    <3>2. purchase' \in Rows /\ purchase'[q] = x
      BY <3>1
    <3>3. order'[x.link].product = order[x.link].product
      BY <1>1, <2>2 DEF Kept
    <3>4. Fits(q, x.link)'
      BY <2>2, <3>2, <3>3 DEF Fits
    <3>5. x.status = "PAID" => Credited(q)'
      BY <1>3, <2>2, <3>4 DEF Credited
    <3>6. Good(q)'
      BY <2>2, <3>2, <3>4, <3>5 DEF Fits
    <3>7. \A r \in Purchase \ {q} : Good(r)'
      BY <1>6, <3>1
    <3> QED
      BY <3>2, <3>6, <3>7
  <2>3. ASSUME NEW q \in Purchase, NEW s \in PurchaseStatus \ {"ABSENT"}, SetStatus(q, s),
               purchase[q].item \in Item, s = "PAID" => Credited(q)
        PROVE  purchase' \in Rows /\ \A r \in Purchase : Good(r)'
    <3>1. /\ purchase' \in Rows /\ purchase'[q].status = s
          /\ purchase'[q].item = purchase[q].item /\ purchase'[q].link = purchase[q].link
      BY <2>3 DEF SetStatus
    <3>2. ASSUME purchase[q].link # None PROVE Fits(q, purchase[q].link)'
      <4>1. PICK o \in Order : o = purchase[q].link
        BY <3>2
      <4>2. Fits(q, o)'
        BY <1>2, <3>2, <4>1 DEF RowsStand
      <4> QED
        BY <3>1, <4>1, <4>2 DEF Fits
    <3>3. Good(q)'
      BY <1>5, <2>3, <3>1, <3>2
    <3>4. \A r \in Purchase \ {q} : Good(r)'
      BY <1>6, <2>3 DEF SetStatus
    <3> QED
      BY <3>1, <3>3, <3>4
  <2>4. ASSUME NEW q \in Purchase, NEW o \in Order, NEW s \in PurchaseStatus \ {"ABSENT"},
               SetLink(q, o, s), Fits(q, o), s = "PAID" => Paid(o)
        PROVE  purchase' \in Rows /\ \A r \in Purchase : Good(r)'
    <3>1. PICK y \in [status : PurchaseStatus, item : Item \cup {None}, link : Order \cup {None}] :
            y = [purchase[q] EXCEPT !.status = s, !.link = o]
      BY <2>4
    <3>2. y.status = s /\ y.link = o /\ y.item = purchase[q].item
      BY <3>1
    <3>3. purchase' = [purchase EXCEPT ![q] = y]
      BY <2>4, <3>1 DEF SetLink
    <3>4. Fits(q, o)'
      BY <1>2, <2>4
    <3>5. s = "PAID" => Credited(q)'
      BY <1>3, <2>4, <3>4 DEF Credited
    <3>6. purchase' \in Rows /\ purchase'[q] = y
      BY <3>3
    <3>7. Good(q)'
      BY <2>4, <3>2, <3>4, <3>5, <3>6 DEF Fits
    <3>8. \A r \in Purchase \ {q} : Good(r)'
      BY <1>6, <3>3
    <3> QED
      BY <3>6, <3>7, <3>8
  <2> QED
    BY <2>1, <2>2, <2>3, <2>4 DEF StateMoves, PurchasesMove
<1> QED
  <2>1. RowsStand' /\ BlankRows'
    BY <1>7 DEF RowsStand, BlankRows
  <2>2. \A r \in Purchase : purchase'[r].status = "PAID" => Credited(r)'
    BY <1>7
  <2>3. CreditsNeedPayment'
    BY <2>2 DEF CreditsNeedPayment, Credited, Fits, Paid
  <2> QED
    BY <1>7, <2>1, <2>3

(* The calls in progress: the one that moves, and the others. *)
LEMMA HandsMoveStands ==
  ASSUME Stands, Moved
  PROVE  hand' \in [Handler -> Hand] /\ \A k \in Handler : HandStands(hand[k])'
<1> USE DEF Stands, TypeOK
<1>1. Kept
  BY MovesKeep DEF Moved
<1>2. ASSUME NEW k \in Handler PROVE HandStands(hand[k])'  \/ hand'[k] # hand[k]
  <2>1. PICK y \in Hand : y = hand[k]
    OBVIOUS
  <2>2. HandStands(y)'
    BY <1>1, <2>1, HandKept
  <2>3. hand'[k] = hand[k] => hand'[k] = y
    BY <2>1
  <2> QED
    BY <2>2, <2>3 DEF HandStands, OfPlan, OfNotice, OfAnswer, OfRow, OfBatch
<1>3. CASE UNCHANGED hand
  BY <1>2, <1>3
<1>4. ASSUME NEW h \in Handler, NEW y \in Hand, hand' = [hand EXCEPT ![h] = y], HandStands(y)'
      PROVE  hand' \in [Handler -> Hand] /\ \A k \in Handler : HandStands(hand[k])'
  <2>1. hand' \in [Handler -> Hand] /\ hand'[h] = y
    BY <1>4
  <2>2. HandStands(hand[h])'
    BY <1>4, <2>1 DEF HandStands, OfPlan, OfNotice, OfAnswer, OfRow, OfBatch
  <2>3. \A k \in Handler \ {h} : hand'[k] = hand[k]
    BY <1>4
  <2> QED
    BY <1>2, <2>1, <2>2, <2>3
<1> QED
  BY <1>3, <1>4 DEF Moved, HandsMove

(* Whatever moves in these ways keeps the invariant. *)
LEMMA MovesStand ==
  ASSUME Stands, Moved, old' \subseteq Order
  PROVE  Stands'
<1>1. StateMoves
  BY DEF Moved
<1>2. OrdersTypeOK' /\ OrdersStand'
  BY <1>1, OrdersMoveStands
<1>3. SubscriptionsTypeOK' /\ LinksStand'
  BY <1>1, SubsMoveStands
<1>4. BookedAsPaid'
  BY <1>1, BooksMoveStands
<1>5. PurchasesTypeOK' /\ BlankRows' /\ RowsStand' /\ CreditsNeedPayment'
  BY <1>1, PurchasesMoveStands
<1>6. hand' \in [Handler -> Hand] /\ \A k \in Handler : HandStands(hand[k])'
  BY HandsMoveStands
<1> QED
  BY <1>2, <1>3, <1>4, <1>5, <1>6 DEF Stands, TypeOK

(* The invariant holds at the start. *)
LEMMA StandsInit == Init => Stands
<1> SUFFICES ASSUME Init PROVE Stands
  OBVIOUS
<1> USE NoneIsNothing DEF Init
<1>1. OrdersTypeOK /\ OrdersStand
  BY OrderAssumption DEF OrdersInit, OrdersTypeOK, OrdersStand, NoOrder
<1>2. SubscriptionsTypeOK /\ LinksStand /\ BookedAsPaid
  <2>1. NoRow \in Row /\ \A p \in Offer : FirstRow(p) \in Row /\ FirstRow(p).link = None
    BY SubscriptionAssumption DEF FirstRow, NoRow, Row, State, Date
  <2>2. NoRow.link = None
    BY DEF NoRow
  <2> QED
    BY <2>1, <2>2 DEF SubscriptionsInit, SubscriptionsTypeOK, LinksStand, BookedAsPaid
<1>3. PurchasesTypeOK /\ BlankRows /\ RowsStand /\ CreditsNeedPayment
  BY DEF PurchasesInit, PurchasesTypeOK, BlankRows, RowsStand, CreditsNeedPayment, NoPurchase,
         PurchaseStatus
<1>4. hand \in [Handler -> Hand] /\ \A h \in Handler : hand[h] = Idle
  BY IdleIsHand DEF OrdersInit
<1>5. \A h \in Handler : HandStands(hand[h])
  BY <1>4, IdleStands
<1>6. old \subseteq Order
  BY DEF PurchasesInit
<1> QED
  BY <1>1, <1>2, <1>3, <1>4, <1>5, <1>6 DEF Stands, TypeOK

-----------------------------------------------------------------------------
(* Step by step. *)

GoesTo(h) == \E x \in Hand : HandStands(x) /\ Goes(h, x)

LEMMA HandGoes ==
  ASSUME Stands, StateMoves, NEW h \in Handler, GoesTo(h)
  PROVE  HandsMove
<1>1. PICK x \in Hand : HandStands(x) /\ Goes(h, x)
  BY DEF GoesTo
<1>2. HandStands(x)'
  BY <1>1, MovesKeep, HandKept
<1> QED
  BY <1>1, <1>2 DEF HandsMove, Goes

(* A call that ends, or goes on to what its request came for. *)
LEMMA EndsGoes == ASSUME NEW h \in Handler, Ends(h) PROVE GoesTo(h)
BY IdleIsHand, IdleStands DEF Ends, GoesTo

LEMMA GoesOnGoes == ASSUME NEW h \in Handler, NEW b, GoesOn(h, b) PROVE GoesTo(h)
<1>1. PICK x \in Hand : x = [Idle EXCEPT !.at = "IN"]
  BY DEF Idle, Hand, At, Date
<1>2. x.at = "IN" /\ x.todo = {} /\ x.found = {}
  BY <1>1 DEF Idle
<1>3. HandStands(x)
  BY <1>2 DEF HandStands, OfPlan, OfNotice, OfAnswer, OfRow, OfBatch
<1> QED
  BY <1>1, <1>3, IdleIsHand, IdleStands DEF GoesOn, GoesTo

(* What an action that leaves a part of the state alone makes of it. *)
LEMMA Frames ==
  ASSUME Stands
  PROVE  /\ UNCHANGED orderVars => OrdersMove /\ CountersMove
         /\ OneMoreLost => OrdersMove /\ CountersMove
         /\ UNCHANGED subVars => SubsMove /\ BooksMove
         /\ UNCHANGED <<now, rows>> => SubsMove
         /\ UNCHANGED booked => BooksMove
         /\ UNCHANGED purchase => PurchasesMove
<1> USE DEF Stands, TypeOK, OrdersTypeOK, SubscriptionsTypeOK
<1>1. UNCHANGED orderVars => OrdersMove /\ CountersMove
  BY DEF orderVars, OrdersMove, CountersMove
<1>2. OneMoreLost => OrdersMove /\ CountersMove
  BY OrderAssumption DEF OneMoreLost, OrdersMove, CountersMove
<1>3. UNCHANGED <<now, rows>> => SubsMove
  BY DEF SubsMove
<1> QED
  BY <1>1, <1>2, <1>3 DEF BooksMove, PurchasesMove, subVars

(* What the provider answers about an order. *)
LEMMA AnswerTells ==
  ASSUME NEW o \in Order
  PROVE  /\ ProviderStatus(o) \in Answer
         /\ ProviderStatus(o) = "active" <=> Paid(o)
         /\ StatusOf(ProviderStatus(o)) \in {"PAID", "CANCELLED", "FAILED"}
         /\ StatusOf(ProviderStatus(o)) = "PAID" <=> Paid(o)
BY DEF ProviderStatus, Answer, Paid, StatusOf

(* The type of a purchase's link, where it is linked. *)
LEMMA PurchasesTyped ==
  ASSUME Stands, NEW r \in Purchase, purchase[r].link # None
  PROVE  purchase[r].link \in Order
BY DEF Stands, TypeOK, PurchasesTypeOK

(* A row of subscriptions with another state and end keeps its link. *)
LEMMA RowWith ==
  ASSUME NEW q \in Row, NEW s \in State, NEW e \in Date
  PROVE  \E r \in Row : /\ r = [q EXCEPT !.state = s, !.ends = e]
                        /\ r.state = s /\ r.ends = e /\ r.link = q.link
<1>1. [q EXCEPT !.state = s, !.ends = e] \in Row
  BY DEF Row
<1>2. /\ [q EXCEPT !.state = s, !.ends = e].state = s
      /\ [q EXCEPT !.state = s, !.ends = e].ends = e
      /\ [q EXCEPT !.state = s, !.ends = e].link = q.link
  BY DEF Row
<1> QED
  BY <1>1, <1>2

(* A call keeps its batch as it goes on to something that is not the check. *)
LEMMA BatchKept ==
  ASSUME NEW x \in Hand, NEW y \in Hand, HandStands(y), x.todo = y.todo, x.found = y.found,
         x.at # "CHECK", y.at # "CHECK"
  PROVE  OfBatch(x)
BY DEF HandStands, OfBatch

LEMMA StatesAreStates ==
  /\ \A a : StateOf(a) \in State /\ (StateOf(a) = "ACTIVE" <=> a = "active")
  /\ \A a : StateOf(a) # "TRIAL"
  /\ \A s : StateOfNotice(s) \in State /\ (StateOfNotice(s) = "ACTIVE" <=> s = "COMPLETED")
  /\ \A s : StateOfNotice(s) # "TRIAL"
  /\ \A s : StatusOfNotice(s) \in PurchaseStatus \ {"ABSENT"}
            /\ (StatusOfNotice(s) = "PAID" <=> s = "COMPLETED")
BY DEF StateOf, StateOfNotice, StatusOfNotice, State, PurchaseStatus

(* Checkout of the starter plan, and of a paid plan but for its order. *)
LEMMA CheckoutMoves ==
  ASSUME Stands, NEW h \in Handler, UNCHANGED purchase,
         CheckoutStarter(h) \/ StartTrial(h) \/ CheckoutResets(h) \/ CheckoutRefused(h) \/
            CheckoutLinks(h)
  PROVE  Moved
<1>1. CASE CheckoutStarter(h)
  <2>1. "TRIAL" \in At
    BY NoneIsNothing DEF At
  <2>2. [Idle EXCEPT !.at = "TRIAL"] \in Hand
    BY <2>1, IdleIsHand DEF Hand
  <2>3. PICK x \in Hand : x = [Idle EXCEPT !.at = "TRIAL"]
    BY <2>2
  <2>4. /\ x.at = "TRIAL" /\ x.product = None /\ x.order = None /\ x.status = None
        /\ x.ends = None /\ x.flag = FALSE /\ x.row = 0
        /\ x.todo = {} /\ x.found = {}
    BY <2>3 DEF Idle
  <2>5. OfBatch(x)
    BY <2>4 DEF OfBatch
  <2>6. OfPlan(x) /\ OfNotice(x) /\ OfAnswer(x) /\ OfRow(x)
    BY <1>1, <2>4 DEF HandStands, OfPlan, OfNotice, OfAnswer, OfRow, CheckoutStarter
  <2>7. Goes(h, x)
    BY <1>1, <2>3 DEF CheckoutStarter
  <2>8. GoesTo(h)
    BY <2>3, <2>5, <2>6, <2>7 DEF GoesTo, HandStands
  <2>9. StateMoves
    BY <1>1, Frames DEF CheckoutStarter, StateMoves, subVars
  <2> QED
    BY <2>8, <2>9, HandGoes DEF Moved
<1>2. CASE StartTrial(h)
  <2>1. PICK y \in Hand : y = hand[h]
    BY DEF Stands, TypeOK
  <2>2. HandStands(y)
    BY <2>1 DEF Stands
  <2>3. GoesTo(h)
    BY <1>2, EndsGoes, GoesOnGoes DEF StartTrial
  <2>4. now \in Nat /\ sub \in [Offer -> Row] /\ Starter \in Offer
    BY <1>2, <2>1, <2>2, NoneIsNothing DEF Offer, Stands, TypeOK, SubscriptionsTypeOK
  <2>5. "TRIAL" \in State /\ now + Trial \in Date
    BY <1>2, <2>1, <2>2, <2>4, StatesAreStates, SubscriptionAssumption DEF State, Date
  <2>6. PICK q \in Row, s \in State, e1 \in Date : q = sub[Starter] /\ s = "TRIAL" /\ e1 = now + Trial
    BY <2>4, <2>5
  <2>7. PICK r \in Row : /\ r = [q EXCEPT !.state = s, !.ends = e1]
                        /\ r.state = s /\ r.ends = e1 /\ r.link = q.link
    BY RowWith
  <2>8. Write(Starter, r) /\ UNCHANGED now
    BY <1>2, <2>1, <2>2, <2>4, <2>5, <2>6, <2>7 DEF StartTrial
  <2>9. r.link # None => Starter \in Plan /\ order[r.link].product = Starter
    BY <2>4, <2>6, <2>7 DEF LinksStand, Stands
  <2>10. Starter \in Plan /\ HasPaidFeatureAccess(r) =>
           \/ PaidFor(Starter)
           \/ \E k \in Handler : hand[k].at = "STATE" /\ hand[k].product = Starter
           \/ r.state = "CANCELLED" /\ r.ends = sub[Starter].ends
    BY <1>2, <2>1, <2>2, <2>4, <2>5, <2>6, <2>7, <2>8, <2>9, NoneIsNothing, StatesAreStates
       DEF HasPaidFeatureAccess
  <2>11. SubsMove
    BY <2>4, <2>8, <2>9, <2>10 DEF SubsMove
  <2>12. StateMoves
    BY <1>2, Frames, <2>11 DEF StartTrial, StateMoves, subVars
  <2> QED
    BY <2>3, <2>12, HandGoes DEF Moved
<1>3. CASE CheckoutResets(h)
  <2>1. PICK p \in Plan :
          /\ Write(p, [sub[p] EXCEPT !.state = "PAST_DUE", !.ends = None])
          /\ Goes(h, [Idle EXCEPT !.at = "ORDER", !.product = p])
    BY <1>3 DEF CheckoutResets
  <2>2. "ORDER" \in At /\ p \in Product \cup {None}
    BY <2>1, NoneIsNothing DEF At
  <2>3. [Idle EXCEPT !.at = "ORDER", !.product = p] \in Hand
    BY <2>2, IdleIsHand DEF Hand
  <2>4. PICK x \in Hand : x = [Idle EXCEPT !.at = "ORDER", !.product = p]
    BY <2>3
  <2>5. /\ x.at = "ORDER" /\ x.product = p /\ x.order = None /\ x.status = None
        /\ x.ends = None /\ x.flag = FALSE /\ x.row = 0
        /\ x.todo = {} /\ x.found = {}
    BY <2>4 DEF Idle
  <2>6. OfBatch(x)
    BY <2>5 DEF OfBatch
  <2>7. OfPlan(x) /\ OfNotice(x) /\ OfAnswer(x) /\ OfRow(x)
    BY <1>3, <2>1, <2>5 DEF HandStands, OfPlan, OfNotice, OfAnswer, OfRow, CheckoutResets
  <2>8. Goes(h, x)
    BY <1>3, <2>1, <2>4 DEF CheckoutResets
  <2>9. GoesTo(h)
    BY <2>4, <2>6, <2>7, <2>8 DEF GoesTo, HandStands
  <2>10. now \in Nat /\ sub \in [Offer -> Row] /\ p \in Offer
    BY <1>3, <2>1, NoneIsNothing DEF Offer, Stands, TypeOK, SubscriptionsTypeOK
  <2>11. "PAST_DUE" \in State /\ None \in Date
    BY <1>3, <2>1, <2>10, StatesAreStates, SubscriptionAssumption DEF State, Date
  <2>12. PICK q \in Row, s \in State, e1 \in Date : q = sub[p] /\ s = "PAST_DUE" /\ e1 = None
    BY <2>10, <2>11
  <2>13. PICK r \in Row : /\ r = [q EXCEPT !.state = s, !.ends = e1]
                         /\ r.state = s /\ r.ends = e1 /\ r.link = q.link
    BY RowWith
  <2>14. Write(p, r) /\ UNCHANGED now
    BY <1>3, <2>1, <2>10, <2>11, <2>12, <2>13 DEF CheckoutResets
  <2>15. r.link # None => p \in Plan /\ order[r.link].product = p
    BY <2>10, <2>12, <2>13 DEF LinksStand, Stands
  <2>16. p \in Plan /\ HasPaidFeatureAccess(r) =>
           \/ PaidFor(p)
           \/ \E k \in Handler : hand[k].at = "STATE" /\ hand[k].product = p
           \/ r.state = "CANCELLED" /\ r.ends = sub[p].ends
    BY <1>3, <2>1, <2>10, <2>11, <2>12, <2>13, <2>14, <2>15, NoneIsNothing, StatesAreStates
       DEF HasPaidFeatureAccess
  <2>17. SubsMove
    BY <2>10, <2>14, <2>15, <2>16 DEF SubsMove
  <2>18. StateMoves
    BY <1>3, Frames, <2>17 DEF CheckoutResets, StateMoves, subVars
  <2> QED
    BY <2>9, <2>18, HandGoes DEF Moved
<1>4. CASE CheckoutRefused(h)
  <2>1. GoesTo(h)
    BY <1>4, EndsGoes, GoesOnGoes DEF CheckoutRefused
  <2>2. StateMoves
    BY <1>4, Frames DEF CheckoutRefused, StateMoves, subVars
  <2> QED
    BY <2>1, <2>2, HandGoes DEF Moved
<1>5. CASE CheckoutLinks(h)
  <2>1. PICK y \in Hand : y = hand[h]
    BY DEF Stands, TypeOK
  <2>2. HandStands(y)
    BY <2>1 DEF Stands
  <2>3. y.order \in Order /\ y.product \in Plan /\ order[y.order].product = y.product
    BY <1>5, <2>1, <2>2 DEF CheckoutLinks, HandStands, OfPlan, Stands, TypeOK, OrdersTypeOK,
       SubscriptionsTypeOK, PurchasesTypeOK
  <2>4. GoesTo(h)
    BY <1>5, EndsGoes, GoesOnGoes DEF CheckoutLinks
  <2>5. PICK e \in Date : e = None
    BY <1>5, <2>1, <2>2, <2>3 DEF Date
  <2>6. y.product \in Offer
    BY <1>5, <2>1, <2>2, <2>3, <2>5, NoneIsNothing
  <2>7. "PAST_DUE" \in State
    BY <1>5, <2>1, <2>2, <2>3, <2>5, <2>6, StatesAreStates DEF State
  <2>8. PICK r \in Row : r = [state |-> "PAST_DUE", ends |-> e, link |-> y.order]
    BY <1>5, <2>1, <2>2, <2>3, <2>5, <2>6, <2>7 DEF Row
  <2>9. r.state = "PAST_DUE" /\ r.ends = e /\ r.link = y.order
    BY <2>8
  <2>10. Write(y.product, r) /\ UNCHANGED now
    BY <1>5, <2>1, <2>2, <2>3, <2>5, <2>6, <2>7, <2>8, <2>9 DEF CheckoutLinks
  <2>11. y.product \in Plan /\ HasPaidFeatureAccess(r) =>
           \/ PaidFor(y.product)
           \/ \E k \in Handler : hand[k].at = "STATE" /\ hand[k].product = y.product
           \/ r.state = "CANCELLED" /\ r.ends = sub[y.product].ends
    BY <1>5, <2>1, <2>2, <2>3, <2>5, <2>6, <2>7, <2>8, <2>9, <2>10, NoneIsNothing,
       StatesAreStates DEF HasPaidFeatureAccess
  <2>12. SubsMove
    BY <1>5, <2>1, <2>2, <2>3, <2>5, <2>6, <2>7, <2>8, <2>9, <2>10, <2>11 DEF SubsMove,
       Stands, TypeOK, OrdersTypeOK, SubscriptionsTypeOK, PurchasesTypeOK
  <2>13. StateMoves
    BY <1>5, Frames, <2>12 DEF CheckoutLinks, StateMoves, subVars
  <2> QED
    BY <2>4, <2>13, HandGoes DEF Moved
<1> QED
  BY <1>1, <1>2, <1>3, <1>4, <1>5

(* Where a webhook begins and ends. *)
LEMMA NoticeMoves ==
  ASSUME Stands, NEW h \in Handler, UNCHANGED <<subVars, purchase>>,
         Deliver(h) \/ WebhookMarks(h)
  PROVE  Moved
<1>1. CASE Deliver(h)
  <2>1. PICK n \in notice, u \in {FALSE, Unnamed} :
          Goes(h, [Idle EXCEPT !.at = IF u THEN "FIND" ELSE "PURCHASE",
                               !.order = n[1], !.status = n[2], !.flag = u])
    BY <1>1 DEF Deliver
  <2>2. n[1] \in Order /\ n[2] \in OrderStatus /\ (n[2] = "COMPLETED" => Paid(n[1]))
    BY <1>1, <2>1 DEF OrdersStand, Stands, TypeOK, OrdersTypeOK, SubscriptionsTypeOK,
       PurchasesTypeOK
  <2>3. PICK a \in {"FIND", "PURCHASE"} : a = IF u THEN "FIND" ELSE "PURCHASE"
    OBVIOUS
  <2>4. /\ a \in At /\ n[1] \in Order \cup {None}
        /\ n[2] \in OrderStatus \cup Answer \cup {None} /\ u \in BOOLEAN
    BY <2>2, OrderAssumption, Zenon DEF At, Answer
  <2>5. PICK x \in Hand :
          x = [Idle EXCEPT !.at = a, !.order = n[1], !.status = n[2], !.flag = u]
    BY <2>4, IdleIsHand DEF Hand
  <2>6. /\ x.at = a /\ x.product = None /\ x.order = n[1] /\ x.status = n[2]
        /\ x.ends = None /\ x.row = 0
        /\ x.todo = {} /\ x.found = {}
    BY <2>5 DEF Idle
  <2>7. OfBatch(x)
    BY <2>3, <2>6 DEF OfBatch
  <2>8. OfPlan(x) /\ OfNotice(x) /\ OfAnswer(x) /\ OfRow(x)
    BY <2>2, <2>3, <2>6 DEF OfPlan, OfNotice, OfAnswer, OfRow
  <2>9. Goes(h, x)
    BY <2>1, <2>3, <2>5
  <2>10. GoesTo(h)
    BY <2>5, <2>7, <2>8, <2>9 DEF GoesTo, HandStands
  <2>11. StateMoves
    BY <1>1, Frames DEF Deliver, StateMoves, subVars
  <2> QED
    BY <2>10, <2>11, HandGoes DEF Moved
<1>2. CASE WebhookMarks(h)
  <2>1. PICK y \in Hand : y = hand[h]
    BY DEF Stands, TypeOK
  <2>2. HandStands(y)
    BY <2>1 DEF Stands
  <2>3. y.order \in Order /\ y.status \in OrderStatus
    BY <1>2, <2>1, <2>2 DEF WebhookMarks, HandStands, OfNotice, Stands, TypeOK, OrdersTypeOK,
       SubscriptionsTypeOK, PurchasesTypeOK
  <2>4. GoesTo(h)
    BY <1>2, EndsGoes, GoesOnGoes DEF WebhookMarks
  <2>5. OrdersMove
    BY <1>2, <2>1, <2>2, <2>3 DEF WebhookMarks, OrdersMove, Stands, TypeOK, OrdersTypeOK,
       SubscriptionsTypeOK, PurchasesTypeOK
  <2>6. OrdersMove /\ CountersMove
    BY <1>2, <2>1, <2>2, <2>3, <2>5 DEF WebhookMarks, CountersMove, EventId, Stands, TypeOK,
       OrdersTypeOK, SubscriptionsTypeOK, PurchasesTypeOK
  <2>7. StateMoves
    BY <1>2, Frames, <2>6 DEF WebhookMarks, StateMoves, subVars
  <2> QED
    BY <2>4, <2>7, HandGoes DEF Moved
<1> QED
  BY <1>1, <1>2

(* The subscription part of a webhook. *)
LEMMA WebhookMoves ==
  ASSUME Stands, NEW h \in Handler, UNCHANGED purchase,
         FindRow(h) \/ WebhookWrites(h) \/ WebhookBooks(h)
  PROVE  Moved
<1>1. CASE FindRow(h)
  <2>1. PICK y \in Hand : y = hand[h]
    BY DEF Stands, TypeOK
  <2>2. HandStands(y)
    BY <2>1 DEF Stands
  <2>3. ASSUME y.status = "PENDING" \/ RowsOf(y.order, y.flag) = {} PROVE GoesTo(h)
    <3>1. "MARK" \in At
      BY <2>1, NoneIsNothing DEF At
    <3>2. [y EXCEPT !.at = "MARK"] \in Hand
      BY <2>1, <3>1 DEF Hand
    <3>3. PICK x \in Hand : x = [y EXCEPT !.at = "MARK"]
      BY <3>2
    <3>4. /\ x.at = "MARK" /\ x.product = y.product /\ x.order = y.order /\ x.status = y.status
          /\ x.ends = y.ends /\ x.flag = y.flag /\ x.row = y.row
          /\ x.todo = y.todo /\ x.found = y.found
      BY <3>3, <2>1 DEF Hand
    <3>5. OfBatch(x)
      BY <1>1, <2>1, <2>2, <2>3, <3>4, BatchKept DEF FindRow
    <3>6. OfPlan(x) /\ OfNotice(x) /\ OfAnswer(x) /\ OfRow(x)
      BY <1>1, <2>1, <2>2, <2>3, <3>4 DEF HandStands, OfPlan, OfNotice, OfAnswer, OfRow,
         FindRow
    <3>7. Goes(h, x)
      BY <1>1, <2>1, <2>2, <2>3, <3>3 DEF FindRow
    <3> QED
      BY <3>3, <3>5, <3>6, <3>7 DEF GoesTo, HandStands
  <2>4. ASSUME ~(y.status = "PENDING" \/ RowsOf(y.order, y.flag) = {}) PROVE GoesTo(h)
    <3>1. PICK p \in RowsOf(y.order, y.flag) :
            Goes(h, [hand[h] EXCEPT !.at = "WRITE", !.product = p,
                       !.link = IF y.flag THEN sub[p].link ELSE y.order])
      BY <1>1, <2>1, <2>4 DEF FindRow
    <3>2. y.order \in Order /\ (y.status = "COMPLETED" => Paid(y.order)) /\ y.status \in OrderStatus
      BY <1>1, <2>1, <2>2 DEF FindRow, HandStands, OfNotice
    <3>3. p \in Plan /\ p \in Offer /\ order[y.order].product = p
      BY <3>2, NoneIsNothing DEF RowsOf, LinksStand, Stands
    <3>4. sub[p].link # None => sub[p].link \in Order /\ order[sub[p].link].product = p
      BY <3>3 DEF LinksStand, Stands, TypeOK, SubscriptionsTypeOK, Row
    <3>5. PICK l \in Order \cup {None} : /\ l = IF y.flag THEN sub[p].link ELSE y.order
                                         /\ l # None => l \in Order /\ order[l].product = p
      BY <3>2, <3>3, <3>4
    <3>6. "WRITE" \in At /\ p \in Product \cup {None}
      BY <3>3, NoneIsNothing DEF At
    <3>7. PICK x \in Hand : x = [y EXCEPT !.at = "WRITE", !.product = p, !.link = l]
      BY <3>5, <3>6 DEF Hand
    <3>8. /\ x.at = "WRITE" /\ x.product = p /\ x.order = y.order /\ x.status = y.status
          /\ x.link = l /\ x.todo = y.todo /\ x.found = y.found
      BY <3>7 DEF Hand
    <3>9. OfBatch(x)
      BY <1>1, <2>1, <2>2, <3>8, BatchKept DEF FindRow
    <3>10. OfPlan(x) /\ OfNotice(x) /\ OfAnswer(x) /\ OfRow(x)
      BY <3>2, <3>3, <3>5, <3>8 DEF OfPlan, OfNotice, OfAnswer, OfRow
    <3>11. Goes(h, x)
      BY <2>1, <3>1, <3>5, <3>7
    <3> QED
      BY <3>9, <3>10, <3>11 DEF GoesTo, HandStands
  <2>5. GoesTo(h)
    BY <2>3, <2>4
  <2>6. StateMoves
    BY <1>1, Frames DEF FindRow, StateMoves, subVars
  <2> QED
    BY <2>5, <2>6, HandGoes DEF Moved
<1>2. CASE WebhookWrites(h)
  <2>1. PICK y \in Hand : y = hand[h]
    BY DEF Stands, TypeOK
  <2>2. HandStands(y)
    BY <2>1 DEF Stands
  <2>3. /\ y.order \in Order /\ y.status \in OrderStatus
        /\ y.product \in Plan /\ order[y.order].product = y.product
        /\ y.status = "COMPLETED" => Paid(y.order) /\ PaidFor(y.product)
        /\ y.link \in Order \cup {None}
        /\ y.link # None => order[y.link].product = y.product
    BY <1>2, <2>1, <2>2 DEF WebhookWrites, HandStands, OfNotice, OfPlan, PaidFor, Paid,
       Hand, Stands, TypeOK, OrdersTypeOK, SubscriptionsTypeOK, PurchasesTypeOK
  <2>4. ASSUME y.status = "COMPLETED" PROVE GoesTo(h)
    <3>1. "BOOK" \in At
      BY <2>1, <2>3, NoneIsNothing DEF At
    <3>2. [y EXCEPT !.at = "BOOK", !.link = None] \in Hand
      BY <2>1, <3>1 DEF Hand
    <3>3. PICK x \in Hand : x = [y EXCEPT !.at = "BOOK", !.link = None]
      BY <3>2
    <3>4. /\ x.at = "BOOK" /\ x.product = y.product /\ x.order = y.order /\ x.status = y.status
          /\ x.ends = y.ends /\ x.flag = y.flag /\ x.row = y.row
          /\ x.todo = y.todo /\ x.found = y.found
      BY <3>3, <2>1 DEF Hand
    <3>5. OfBatch(x)
      BY <1>2, <2>1, <2>2, <2>3, <2>4, <3>4, BatchKept DEF WebhookWrites
    <3>6. OfPlan(x) /\ OfNotice(x) /\ OfAnswer(x) /\ OfRow(x)
      BY <1>2, <2>1, <2>2, <2>3, <2>4, <3>4 DEF HandStands, OfPlan, OfNotice, OfAnswer, OfRow,
         WebhookWrites
    <3>7. Goes(h, x)
      BY <1>2, <2>1, <2>2, <2>3, <2>4, <3>3 DEF WebhookWrites
    <3> QED
      BY <3>3, <3>5, <3>6, <3>7 DEF GoesTo, HandStands
  <2>5. ASSUME y.status # "COMPLETED" PROVE GoesTo(h)
    <3>1. "MARK" \in At /\ None \in Product \cup {None}
      BY <2>1, <2>3, NoneIsNothing DEF At
    <3>2. [y EXCEPT !.at = "MARK", !.link = None, !.product = None] \in Hand
      BY <2>1, <3>1 DEF Hand
    <3>3. PICK x \in Hand : x = [y EXCEPT !.at = "MARK", !.link = None, !.product = None]
      BY <3>2
    <3>4. /\ x.at = "MARK" /\ x.product = None /\ x.order = y.order /\ x.status = y.status
          /\ x.ends = y.ends /\ x.flag = y.flag /\ x.row = y.row
          /\ x.todo = y.todo /\ x.found = y.found
      BY <3>3, <2>1 DEF Hand
    <3>5. OfBatch(x)
      BY <1>2, <2>1, <2>2, <2>3, <2>5, <3>4, BatchKept DEF WebhookWrites
    <3>6. OfPlan(x) /\ OfNotice(x) /\ OfAnswer(x) /\ OfRow(x)
      BY <1>2, <2>1, <2>2, <2>3, <2>5, <3>4 DEF HandStands, OfPlan, OfNotice, OfAnswer, OfRow,
         WebhookWrites
    <3>7. Goes(h, x)
      BY <1>2, <2>1, <2>2, <2>3, <2>5, <3>3 DEF WebhookWrites
    <3> QED
      BY <3>3, <3>5, <3>6, <3>7 DEF GoesTo, HandStands
  <2>6. GoesTo(h)
    BY <2>4, <2>5
  <2>7. now + Interval \in Date
    BY <1>2, <2>1, <2>2, <2>3, SubscriptionAssumption DEF Date, Stands, TypeOK,
       SubscriptionsTypeOK
  <2>8. sub[y.product].ends \in Date
    BY <1>2, <2>1, <2>2, <2>3, <2>7, NoneIsNothing DEF Row, Offer, Stands, TypeOK,
       SubscriptionsTypeOK
  <2>9. PICK e \in Date : e = IF y.status = "COMPLETED" THEN now + Interval ELSE sub[y.product].ends
    BY <2>7, <2>8
  <2>10. y.product \in Offer
    BY <1>2, <2>1, <2>2, <2>3, <2>7, <2>8, <2>9, NoneIsNothing
  <2>11. StateOfNotice(y.status) \in State
    BY <1>2, <2>1, <2>2, <2>3, <2>7, <2>8, <2>9, <2>10, StatesAreStates DEF State
  <2>12. PICK r \in Row : r = [state |-> StateOfNotice(y.status), ends |-> e, link |-> y.link]
    BY <1>2, <2>1, <2>2, <2>3, <2>7, <2>8, <2>9, <2>10, <2>11 DEF Row
  <2>13. r.state = StateOfNotice(y.status) /\ r.ends = e /\ r.link = y.link
    BY <2>12
  <2>14. Write(y.product, r) /\ UNCHANGED now
    BY <1>2, <2>1, <2>2, <2>3, <2>7, <2>8, <2>9, <2>10, <2>11, <2>12, <2>13 DEF WebhookWrites
  <2>15. y.product \in Plan /\ HasPaidFeatureAccess(r) =>
           \/ PaidFor(y.product)
           \/ \E k \in Handler : hand[k].at = "STATE" /\ hand[k].product = y.product
           \/ r.state = "CANCELLED" /\ r.ends = sub[y.product].ends
    BY <1>2, <2>1, <2>2, <2>3, <2>7, <2>8, <2>9, <2>10, <2>11, <2>12, <2>13, <2>14,
       NoneIsNothing, StatesAreStates DEF HasPaidFeatureAccess
  <2>16. SubsMove
    BY <1>2, <2>1, <2>2, <2>3, <2>7, <2>8, <2>9, <2>10, <2>11, <2>12, <2>13, <2>14, <2>15 DEF
       SubsMove, Stands, TypeOK, OrdersTypeOK, SubscriptionsTypeOK, PurchasesTypeOK
  <2>17. StateMoves
    BY <1>2, Frames, <2>16 DEF WebhookWrites, StateMoves, subVars
  <2> QED
    BY <2>6, <2>17, HandGoes DEF Moved
<1>3. CASE WebhookBooks(h)
  <2>1. PICK y \in Hand : y = hand[h]
    BY DEF Stands, TypeOK
  <2>2. HandStands(y)
    BY <2>1 DEF Stands
  <2>3. /\ y.order \in Order /\ y.status \in OrderStatus /\ Paid(y.order)
        /\ y.product \in Plan /\ order[y.order].product = y.product
    BY <1>3, <2>1, <2>2 DEF WebhookBooks, HandStands, OfNotice, OfPlan, Stands, TypeOK,
       OrdersTypeOK, SubscriptionsTypeOK, PurchasesTypeOK
  <2>4. "MARK" \in At /\ None \in Product \cup {None}
    BY <2>1, <2>3, NoneIsNothing DEF At
  <2>5. [y EXCEPT !.at = "MARK", !.product = None] \in Hand
    BY <2>1, <2>4 DEF Hand
  <2>6. PICK x \in Hand : x = [y EXCEPT !.at = "MARK", !.product = None]
    BY <2>5
  <2>7. /\ x.at = "MARK" /\ x.product = None /\ x.order = y.order /\ x.status = y.status
        /\ x.ends = y.ends /\ x.flag = y.flag /\ x.row = y.row
        /\ x.todo = y.todo /\ x.found = y.found
    BY <2>6, <2>1 DEF Hand
  <2>8. OfBatch(x)
    BY <1>3, <2>1, <2>2, <2>3, <2>7, BatchKept DEF WebhookBooks
  <2>9. OfPlan(x) /\ OfNotice(x) /\ OfAnswer(x) /\ OfRow(x)
    BY <1>3, <2>1, <2>2, <2>3, <2>7 DEF HandStands, OfPlan, OfNotice, OfAnswer, OfRow,
       WebhookBooks
  <2>10. Goes(h, x)
    BY <1>3, <2>1, <2>2, <2>3, <2>6 DEF WebhookBooks
  <2>11. GoesTo(h)
    BY <2>6, <2>8, <2>9, <2>10 DEF GoesTo, HandStands
  <2>12. BooksMove
    <3>1. PICK z \in Reference : z = <<y.order, IF y.flag THEN "PAYMENT" ELSE "ORDER">>
      <4>1. PICK b \in {"ORDER", "PAYMENT"} : b = IF y.flag THEN "PAYMENT" ELSE "ORDER"
        OBVIOUS
      <4> QED
        BY <2>3, <4>1 DEF Reference
    <3>2. z[1] = y.order
      BY <3>1
    <3>3. Book(z, y.product) \/ UNCHANGED booked
      BY <1>3, <2>1, <3>1 DEF WebhookBooks
    <3> QED
      BY <2>3, <3>2, <3>3 DEF BooksMove, Book
  <2>13. StateMoves
    BY <1>3, Frames, <2>12 DEF WebhookBooks, StateMoves, subVars
  <2> QED
    BY <2>11, <2>13, HandGoes DEF Moved
<1> QED
  BY <1>1, <1>2, <1>3

(* Synchronisation. *)
LEMMA SyncMoves ==
  ASSUME Stands, NEW h \in Handler, UNCHANGED purchase,
         Request(h) \/ View(h) \/ ProviderAnswers(h) \/ ProviderSilent(h) \/ SyncWrites(h)
  PROVE  Moved
<1>1. CASE Request(h)
  <2>1. ASSUME sub[recent].link = None PROVE GoesTo(h)
    BY <1>1, <2>1, EndsGoes, GoesOnGoes DEF Request
  <2>2. ASSUME sub[recent].link # None PROVE GoesTo(h)
    <3>1. recent \in Plan /\ sub[recent].link \in Order /\ order[sub[recent].link].product = recent
      BY <1>1, <2>2 DEF Request, LinksStand, Row, Stands, TypeOK, OrdersTypeOK,
         SubscriptionsTypeOK, PurchasesTypeOK
    <3>2. HasPaidFeatureAccess(sub[recent]) \in BOOLEAN
      BY <1>1, <2>2, <3>1 DEF HasPaidFeatureAccess, Stands, TypeOK, OrdersTypeOK,
         SubscriptionsTypeOK, PurchasesTypeOK
    <3>3. /\ "ASK" \in At /\ recent \in Product \cup {None}
          /\ sub[recent].link \in Order \cup {None}
          /\ HasPaidFeatureAccess(sub[recent]) \in BOOLEAN
      BY <3>1, <3>2, NoneIsNothing DEF At
    <3>4. [Idle EXCEPT !.at = "ASK", !.product = recent, !.order = sub[recent].link, !.flag = HasPaidFeatureAccess(sub[recent])] \in Hand
      BY <3>3, IdleIsHand DEF Hand
    <3>5. PICK x \in Hand :
            x = [Idle EXCEPT !.at = "ASK", !.product = recent, !.order = sub[recent].link, !.flag = HasPaidFeatureAccess(sub[recent])]
      BY <3>4
    <3>6. /\ x.at = "ASK" /\ x.product = recent /\ x.order = sub[recent].link /\ x.status = None
          /\ x.ends = None /\ x.flag = HasPaidFeatureAccess(sub[recent]) /\ x.row = 0
          /\ x.todo = {} /\ x.found = {}
      BY <3>5 DEF Idle
    <3>7. OfBatch(x)
      BY <3>6 DEF OfBatch
    <3>8. OfPlan(x) /\ OfNotice(x) /\ OfAnswer(x) /\ OfRow(x)
      BY <1>1, <2>2, <3>1, <3>2, <3>6 DEF HandStands, OfPlan, OfNotice, OfAnswer, OfRow,
         Request
    <3>9. Goes(h, x)
      BY <1>1, <2>2, <3>1, <3>2, <3>5 DEF Request
    <3> QED
      BY <3>5, <3>7, <3>8, <3>9 DEF GoesTo, HandStands
  <2>3. GoesTo(h)
    BY <2>1, <2>2
  <2>4. StateMoves
    BY <1>1, Frames DEF Request, StateMoves, subVars
  <2> QED
    BY <2>3, <2>4, HandGoes DEF Moved
<1>2. CASE View(h)
  <2>1. newest \in Plan /\ sub[newest].link \in Order /\ order[sub[newest].link].product = newest
    BY <1>2 DEF View, LinksStand, Row, Stands, TypeOK, OrdersTypeOK, SubscriptionsTypeOK,
       PurchasesTypeOK
  <2>2. /\ "ASK_VIEW" \in At /\ newest \in Product \cup {None}
        /\ sub[newest].link \in Order \cup {None}
    BY <2>1, NoneIsNothing DEF At
  <2>3. [Idle EXCEPT !.at = "ASK_VIEW", !.product = newest, !.order = sub[newest].link] \in Hand
    BY <2>2, IdleIsHand DEF Hand
  <2>4. PICK x \in Hand :
          x = [Idle EXCEPT !.at = "ASK_VIEW", !.product = newest, !.order = sub[newest].link]
    BY <2>3
  <2>5. /\ x.at = "ASK_VIEW" /\ x.product = newest /\ x.order = sub[newest].link /\ x.status = None
        /\ x.ends = None /\ x.flag = FALSE /\ x.row = 0
        /\ x.todo = {} /\ x.found = {}
    BY <2>4 DEF Idle
  <2>6. OfBatch(x)
    BY <2>5 DEF OfBatch
  <2>7. OfPlan(x) /\ OfNotice(x) /\ OfAnswer(x) /\ OfRow(x)
    BY <1>2, <2>1, <2>5 DEF HandStands, OfPlan, OfNotice, OfAnswer, OfRow, View
  <2>8. Goes(h, x)
    BY <1>2, <2>1, <2>4 DEF View
  <2>9. GoesTo(h)
    BY <2>4, <2>6, <2>7, <2>8 DEF GoesTo, HandStands
  <2>10. StateMoves
    BY <1>2, Frames DEF View, StateMoves, subVars
  <2> QED
    BY <2>9, <2>10, HandGoes DEF Moved
<1>3. CASE ProviderAnswers(h)
  <2>1. PICK y \in Hand : y = hand[h]
    BY DEF Stands, TypeOK
  <2>2. HandStands(y)
    BY <2>1 DEF Stands
  <2>3. /\ y.order \in Order /\ y.product \in Plan /\ order[y.order].product = y.product
    BY <1>3, <2>1, <2>2 DEF ProviderAnswers, HandStands, OfPlan, Stands, TypeOK, OrdersTypeOK,
       SubscriptionsTypeOK, PurchasesTypeOK
  <2>4. /\ ProviderStatus(y.order) \in Answer
        /\ ProviderStatus(y.order) = "active" => PaidFor(y.product)
    BY <1>3, <2>1, <2>2, <2>3, AnswerTells DEF PaidFor, Paid, Stands, TypeOK, OrdersTypeOK,
       SubscriptionsTypeOK, PurchasesTypeOK
  <2>5. PICK a \in {"SYNC", "SYNC_VIEW"} : a = IF y.at = "ASK" THEN "SYNC" ELSE "SYNC_VIEW"
    BY <1>3, <2>1, <2>2, <2>3, <2>4 DEF Stands, TypeOK, OrdersTypeOK, SubscriptionsTypeOK,
       PurchasesTypeOK
  <2>6. /\ a \in At /\ y.product \in Product \cup {None}
        /\ ProviderStatus(y.order) \in OrderStatus \cup Answer \cup {None}
    BY <2>3, <2>4, <2>5, NoneIsNothing DEF At, Answer
  <2>7. [Idle EXCEPT !.at = a, !.product = y.product,
                     !.status = ProviderStatus(y.order)] \in Hand
    BY <2>6, IdleWith
  <2>8. PICK x \in Hand :
          x = [Idle EXCEPT !.at = a, !.product = y.product,
                      !.status = ProviderStatus(y.order)]
    BY <2>7
  <2>9. /\ x.at = a /\ x.product = y.product /\ x.order = None /\ x.status = ProviderStatus(y.order)
        /\ x.ends = None /\ x.flag = FALSE /\ x.row = 0
        /\ x.todo = {} /\ x.found = {}
    BY <2>8 DEF Idle
  <2>10. OfBatch(x)
    BY <2>9 DEF OfBatch
  <2>11. OfPlan(x) /\ OfNotice(x) /\ OfAnswer(x) /\ OfRow(x)
    BY <1>3, <2>1, <2>2, <2>3, <2>4, <2>5, <2>9 DEF HandStands, OfPlan, OfNotice, OfAnswer,
       OfRow, ProviderAnswers
  <2>12. Goes(h, x)
    BY <1>3, <2>1, <2>2, <2>3, <2>4, <2>5, <2>8 DEF ProviderAnswers
  <2>13. GoesTo(h)
    BY <2>8, <2>10, <2>11, <2>12 DEF GoesTo, HandStands
  <2>14. StateMoves
    BY <1>3, Frames DEF ProviderAnswers, StateMoves, subVars
  <2> QED
    BY <2>13, <2>14, HandGoes DEF Moved
<1>4. CASE ProviderSilent(h)
  <2>1. GoesTo(h)
    BY <1>4, EndsGoes, GoesOnGoes DEF ProviderSilent
  <2>2. StateMoves
    BY <1>4, Frames DEF ProviderSilent, StateMoves, subVars
  <2> QED
    BY <2>1, <2>2, HandGoes DEF Moved
<1>5. CASE SyncWrites(h)
  <2>1. PICK y \in Hand : y = hand[h]
    BY DEF Stands, TypeOK
  <2>2. HandStands(y)
    BY <2>1 DEF Stands
  <2>3. y.product \in Plan /\ (y.status = "active" => PaidFor(y.product))
    BY <1>5, <2>1, <2>2 DEF SyncWrites, HandStands, OfAnswer, Stands, TypeOK, OrdersTypeOK,
       SubscriptionsTypeOK, PurchasesTypeOK
  <2>4. GoesTo(h)
    BY <1>5, EndsGoes, GoesOnGoes DEF SyncWrites
  <2>5. now + Interval \in Date /\ None \in Date
    BY <1>5, <2>1, <2>2, <2>3, SubscriptionAssumption DEF Date, Stands, TypeOK,
       SubscriptionsTypeOK
  <2>6. PICK e \in Date : e = IF StateOf(y.status) = "ACTIVE" THEN now + Interval ELSE None
    BY <2>5
  <2>7. now \in Nat /\ sub \in [Offer -> Row] /\ y.product \in Offer
    BY <1>5, <2>1, <2>2, <2>3, <2>5, <2>6, NoneIsNothing DEF Offer, Stands, TypeOK,
       SubscriptionsTypeOK
  <2>8. StateOf(y.status) \in State /\ e \in Date
    BY <1>5, <2>1, <2>2, <2>3, <2>5, <2>6, <2>7, StatesAreStates, SubscriptionAssumption DEF
       State, Date
  <2>9. PICK q \in Row, s \in State, e1 \in Date : q = sub[y.product] /\ s = StateOf(y.status) /\ e1 = e
    BY <2>7, <2>8
  <2>10. PICK r \in Row : /\ r = [q EXCEPT !.state = s, !.ends = e1]
                         /\ r.state = s /\ r.ends = e1 /\ r.link = q.link
    BY RowWith
  <2>11. Write(y.product, r) /\ UNCHANGED now
    BY <1>5, <2>1, <2>2, <2>3, <2>5, <2>6, <2>7, <2>8, <2>9, <2>10 DEF SyncWrites
  <2>12. r.link # None => y.product \in Plan /\ order[r.link].product = y.product
    BY <2>7, <2>9, <2>10, <2>3 DEF LinksStand, Stands
  <2>13. y.product \in Plan /\ HasPaidFeatureAccess(r) =>
           \/ PaidFor(y.product)
           \/ \E k \in Handler : hand[k].at = "STATE" /\ hand[k].product = y.product
           \/ r.state = "CANCELLED" /\ r.ends = sub[y.product].ends
    BY <1>5, <2>1, <2>2, <2>3, <2>5, <2>6, <2>7, <2>8, <2>9, <2>10, <2>11, <2>12,
       NoneIsNothing, StatesAreStates DEF HasPaidFeatureAccess
  <2>14. SubsMove
    BY <2>7, <2>11, <2>12, <2>13, <2>3 DEF SubsMove
  <2>15. StateMoves
    BY <1>5, Frames, <2>14 DEF SyncWrites, StateMoves, subVars
  <2> QED
    BY <2>4, <2>15, HandGoes DEF Moved
<1> QED
  BY <1>1, <1>2, <1>3, <1>4, <1>5

(* Cancel and resume. *)
LEMMA CancelMoves ==
  ASSUME Stands, NEW h \in Handler, UNCHANGED purchase,
         Cancel(h) \/ ProviderCancels(h) \/ Resume(h) \/ StateWrites(h)
  PROVE  Moved
<1>1. CASE Cancel(h)
  <2>1. newest \in Plan /\ sub[newest].link \in Order
    BY <1>1 DEF Cancel, LinksStand, Row, Stands, TypeOK, OrdersTypeOK, SubscriptionsTypeOK,
       PurchasesTypeOK
  <2>2. /\ "DELETE" \in At /\ newest \in Product \cup {None}
        /\ sub[newest].link \in Order \cup {None}
    BY <2>1, NoneIsNothing DEF At
  <2>3. [Idle EXCEPT !.at = "DELETE", !.product = newest, !.order = sub[newest].link] \in Hand
    BY <2>2, IdleIsHand DEF Hand
  <2>4. PICK x \in Hand :
          x = [Idle EXCEPT !.at = "DELETE", !.product = newest, !.order = sub[newest].link]
    BY <2>3
  <2>5. /\ x.at = "DELETE" /\ x.product = newest /\ x.order = sub[newest].link /\ x.status = None
        /\ x.ends = None /\ x.flag = FALSE /\ x.row = 0
        /\ x.todo = {} /\ x.found = {}
    BY <2>4 DEF Idle
  <2>6. OfBatch(x)
    BY <2>5 DEF OfBatch
  <2>7. OfPlan(x) /\ OfNotice(x) /\ OfAnswer(x) /\ OfRow(x)
    BY <1>1, <2>1, <2>5 DEF HandStands, OfPlan, OfNotice, OfAnswer, OfRow, Cancel
  <2>8. Goes(h, x)
    BY <1>1, <2>1, <2>4 DEF Cancel
  <2>9. GoesTo(h)
    BY <2>4, <2>6, <2>7, <2>8 DEF GoesTo, HandStands
  <2>10. StateMoves
    BY <1>1, Frames DEF Cancel, StateMoves, subVars
  <2> QED
    BY <2>9, <2>10, HandGoes DEF Moved
<1>2. CASE ProviderCancels(h)
  <2>1. PICK y \in Hand : y = hand[h]
    BY DEF Stands, TypeOK
  <2>2. HandStands(y)
    BY <2>1 DEF Stands
  <2>3. y.product \in Plan /\ y.order \in Order
    BY <1>2, <2>1, <2>2 DEF ProviderCancels, HandStands, OfAnswer, Stands, TypeOK,
       OrdersTypeOK, SubscriptionsTypeOK, PurchasesTypeOK
  <2>4. PICK a \in {"active", "cancelled"} : a = IF Paid(y.order) THEN "active" ELSE "cancelled"
    BY <1>2, <2>1, <2>2, <2>3 DEF Stands, TypeOK, OrdersTypeOK, SubscriptionsTypeOK,
       PurchasesTypeOK
  <2>5. PICK e \in Nat : e = IF Paid(y.order) THEN now + ProviderYear ELSE 0
    BY <1>2, <2>1, <2>2, <2>3, <2>4, SubscriptionAssumption DEF Stands, TypeOK, OrdersTypeOK,
       SubscriptionsTypeOK, PurchasesTypeOK
  <2>6. /\ "STATE" \in At /\ None \in Order \cup {None}
        /\ a \in OrderStatus \cup Answer \cup {None} /\ e \in Date
    BY <2>1, <2>3, <2>4, <2>5, NoneIsNothing DEF At, Date, Answer
  <2>7. [y EXCEPT !.at = "STATE", !.order = None, !.status = a, !.ends = e] \in Hand
    BY <2>1, <2>6 DEF Hand
  <2>8. PICK x \in Hand :
          x = [y EXCEPT !.at = "STATE", !.order = None, !.status = a, !.ends = e]
    BY <2>7
  <2>9. /\ x.at = "STATE" /\ x.product = y.product /\ x.order = None /\ x.status = a
        /\ x.ends = e /\ x.flag = y.flag /\ x.row = y.row
        /\ x.todo = y.todo /\ x.found = y.found
    BY <2>8, <2>1 DEF Hand
  <2>10. OfBatch(x)
    BY <1>2, <2>1, <2>2, <2>3, <2>4, <2>5, <2>9, BatchKept DEF ProviderCancels
  <2>11. OfPlan(x) /\ OfNotice(x) /\ OfAnswer(x) /\ OfRow(x)
    BY <1>2, <2>1, <2>2, <2>3, <2>4, <2>5, <2>9 DEF HandStands, OfPlan, OfNotice, OfAnswer,
       OfRow, ProviderCancels, Answer
  <2>12. Goes(h, x)
    BY <1>2, <2>1, <2>2, <2>3, <2>4, <2>5, <2>8 DEF ProviderCancels, Paid
  <2>13. GoesTo(h)
    BY <2>8, <2>10, <2>11, <2>12 DEF GoesTo, HandStands
  <2>14. OrdersMove
    BY <1>2, <2>1, <2>2, <2>3, <2>4, <2>5 DEF ProviderCancels, Delete, orderVars, OrdersMove,
       OrderStatus, Stands, TypeOK, OrdersTypeOK, SubscriptionsTypeOK, PurchasesTypeOK
  <2>15. OrdersMove /\ CountersMove
    BY <1>2, <2>1, <2>2, <2>3, <2>4, <2>5, <2>14 DEF ProviderCancels, Delete, Settle,
       orderVars, CountersMove, Stands, TypeOK, OrdersTypeOK, SubscriptionsTypeOK,
       PurchasesTypeOK
  <2>16. StateMoves
    BY <1>2, Frames, <2>15 DEF ProviderCancels, StateMoves, subVars
  <2> QED
    BY <2>13, <2>16, HandGoes DEF Moved
<1>3. CASE Resume(h)
  <2>1. newest \in Plan /\ now + ProviderYear \in Nat
    BY <1>3, SubscriptionAssumption DEF Resume, LinksStand, Row, Stands, TypeOK, OrdersTypeOK,
       SubscriptionsTypeOK, PurchasesTypeOK
  <2>2. /\ "STATE" \in At /\ newest \in Product \cup {None}
        /\ "active" \in OrderStatus \cup Answer \cup {None}
        /\ now + ProviderYear \in Date /\ TRUE \in BOOLEAN
    BY <2>1, NoneIsNothing DEF At, Date, Answer
  <2>3. [Idle EXCEPT !.at = "STATE", !.product = newest,
                     !.status = "active", !.ends = now + ProviderYear, !.flag = TRUE] \in Hand
    BY <2>2, IdleIsHand DEF Hand
  <2>4. PICK x \in Hand :
          x = [Idle EXCEPT !.at = "STATE", !.product = newest,
                      !.status = "active", !.ends = now + ProviderYear, !.flag = TRUE]
    BY <2>3
  <2>5. /\ x.at = "STATE" /\ x.product = newest /\ x.order = None /\ x.status = "active"
        /\ x.ends = now + ProviderYear /\ x.flag = TRUE /\ x.row = 0
        /\ x.todo = {} /\ x.found = {}
    BY <2>4 DEF Idle
  <2>6. OfBatch(x)
    BY <2>5 DEF OfBatch
  <2>7. OfPlan(x) /\ OfNotice(x) /\ OfAnswer(x) /\ OfRow(x)
    BY <1>3, <2>1, <2>5 DEF HandStands, OfPlan, OfNotice, OfAnswer, OfRow, Resume, Answer
  <2>8. Goes(h, x)
    BY <1>3, <2>1, <2>4 DEF Resume
  <2>9. GoesTo(h)
    BY <2>4, <2>6, <2>7, <2>8 DEF GoesTo, HandStands
  <2>10. StateMoves
    BY <1>3, Frames DEF Resume, StateMoves, subVars
  <2> QED
    BY <2>9, <2>10, HandGoes DEF Moved
<1>4. CASE StateWrites(h)
  <2>1. PICK y \in Hand : y = hand[h]
    BY DEF Stands, TypeOK
  <2>2. HandStands(y)
    BY <2>1 DEF Stands
  <2>3. y.at = "STATE" /\ y.product \in Plan /\ y.ends \in Nat
    BY <1>4, <2>1, <2>2 DEF StateWrites, HandStands, OfAnswer, Stands, TypeOK, OrdersTypeOK,
       SubscriptionsTypeOK, PurchasesTypeOK
  <2>4. GoesTo(h)
    BY <1>4, EndsGoes, GoesOnGoes DEF StateWrites
  <2>5. now \in Nat /\ sub \in [Offer -> Row] /\ y.product \in Offer
    BY <1>4, <2>1, <2>2, <2>3, NoneIsNothing DEF Offer, Stands, TypeOK, SubscriptionsTypeOK
  <2>6. StateOf(y.status) \in State /\ y.ends \in Date
    BY <1>4, <2>1, <2>2, <2>3, <2>5, StatesAreStates, SubscriptionAssumption DEF State, Date
  <2>7. PICK q \in Row, s \in State, e1 \in Date : q = sub[y.product] /\ s = StateOf(y.status) /\ e1 = y.ends
    BY <2>5, <2>6
  <2>8. PICK r \in Row : /\ r = [q EXCEPT !.state = s, !.ends = e1]
                        /\ r.state = s /\ r.ends = e1 /\ r.link = q.link
    BY RowWith
  <2>9. Write(y.product, r) /\ UNCHANGED now
    BY <1>4, <2>1, <2>2, <2>3, <2>5, <2>6, <2>7, <2>8 DEF StateWrites
  <2>10. r.link # None => y.product \in Plan /\ order[r.link].product = y.product
    BY <2>5, <2>7, <2>8, <2>3 DEF LinksStand, Stands
  <2>11. y.product \in Plan /\ HasPaidFeatureAccess(r) =>
           \/ PaidFor(y.product)
           \/ \E k \in Handler : hand[k].at = "STATE" /\ hand[k].product = y.product
           \/ r.state = "CANCELLED" /\ r.ends = sub[y.product].ends
    BY <1>4, <2>1, <2>2, <2>3, <2>5, <2>6, <2>7, <2>8, <2>9, <2>10, NoneIsNothing,
       StatesAreStates DEF HasPaidFeatureAccess
  <2>12. SubsMove
    BY <2>5, <2>9, <2>10, <2>11, <2>3 DEF SubsMove
  <2>13. StateMoves
    BY <1>4, Frames, <2>12 DEF StateWrites, StateMoves, subVars
  <2> QED
    BY <2>4, <2>13, HandGoes DEF Moved
<1> QED
  BY <1>1, <1>2, <1>3, <1>4

(* The subscriptions' part of the reconciliation. *)
LEMMA ReconcileMoves ==
  ASSUME Stands, NEW h \in Handler, UNCHANGED purchase,
         Reconcile(h) \/ ReconcileAnswers(h) \/ ReconcileWrites(h) \/ ReconcileBooks(h)
  PROVE  Moved
<1>1. CASE Reconcile(h)
  <2>1. PICK p \in Plan :
          /\ sub[p].link # None
          /\ Goes(h, [Idle EXCEPT !.at = "COMPARE", !.product = p, !.order = sub[p].link,
                                  !.flag = ~HasTransaction(p)])
    BY <1>1 DEF Reconcile
  <2>2. sub[p].link \in Order /\ order[sub[p].link].product = p
    BY <1>1, <2>1, NoneIsNothing DEF LinksStand, Row, Stands, TypeOK, OrdersTypeOK,
       SubscriptionsTypeOK, PurchasesTypeOK
  <2>3. PICK b \in BOOLEAN : b = ~HasTransaction(p)
    BY <1>1, <2>1, <2>2 DEF HasTransaction, Stands, TypeOK, OrdersTypeOK, SubscriptionsTypeOK,
       PurchasesTypeOK
  <2>4. /\ "COMPARE" \in At /\ p \in Product \cup {None}
        /\ sub[p].link \in Order \cup {None} /\ b \in BOOLEAN
    BY <2>1, <2>2, <2>3, NoneIsNothing DEF At
  <2>5. [Idle EXCEPT !.at = "COMPARE", !.product = p, !.order = sub[p].link, !.flag = b] \in Hand
    BY <2>4, IdleIsHand DEF Hand
  <2>6. PICK x \in Hand :
          x = [Idle EXCEPT !.at = "COMPARE", !.product = p, !.order = sub[p].link, !.flag = b]
    BY <2>5
  <2>7. /\ x.at = "COMPARE" /\ x.product = p /\ x.order = sub[p].link /\ x.status = None
        /\ x.ends = None /\ x.flag = b /\ x.row = 0
        /\ x.todo = {} /\ x.found = {}
    BY <2>6 DEF Idle
  <2>8. OfBatch(x)
    BY <2>7 DEF OfBatch
  <2>9. OfPlan(x) /\ OfNotice(x) /\ OfAnswer(x) /\ OfRow(x)
    BY <1>1, <2>1, <2>2, <2>3, <2>7 DEF HandStands, OfPlan, OfNotice, OfAnswer, OfRow,
       Reconcile
  <2>10. Goes(h, x)
    BY <1>1, <2>1, <2>2, <2>3, <2>6 DEF Reconcile
  <2>11. GoesTo(h)
    BY <2>6, <2>8, <2>9, <2>10 DEF GoesTo, HandStands
  <2>12. StateMoves
    BY <1>1, Frames DEF Reconcile, StateMoves, subVars
  <2> QED
    BY <2>11, <2>12, HandGoes DEF Moved
<1>2. CASE ReconcileAnswers(h)
  <2>1. PICK y \in Hand : y = hand[h]
    BY DEF Stands, TypeOK
  <2>2. HandStands(y)
    BY <2>1 DEF Stands
  <2>3. y.order \in Order /\ y.product \in Plan /\ order[y.order].product = y.product
    BY <1>2, <2>1, <2>2 DEF ReconcileAnswers, HandStands, OfPlan, Stands, TypeOK,
       OrdersTypeOK, SubscriptionsTypeOK, PurchasesTypeOK
  <2>4. now + ProviderYear \in Nat
    BY <1>2, <2>1, <2>2, <2>3, SubscriptionAssumption DEF Stands, TypeOK, OrdersTypeOK,
       SubscriptionsTypeOK, PurchasesTypeOK
  <2>5. ASSUME ProviderStatus(y.order) = "active" PROVE GoesTo(h)
    <3>1. Paid(y.order)
      BY <1>2, <2>1, <2>2, <2>3, <2>4, <2>5, AnswerTells DEF Stands, TypeOK, OrdersTypeOK,
         SubscriptionsTypeOK, PurchasesTypeOK
    <3>2. "ADOPT" \in At /\ now + ProviderYear \in Date
      BY <2>1, <2>3, <2>4, <3>1, NoneIsNothing DEF At, Date
    <3>3. [y EXCEPT !.at = "ADOPT", !.ends = now + ProviderYear] \in Hand
      BY <2>1, <3>2 DEF Hand
    <3>4. PICK x \in Hand : x = [y EXCEPT !.at = "ADOPT", !.ends = now + ProviderYear]
      BY <3>3
    <3>5. /\ x.at = "ADOPT" /\ x.product = y.product /\ x.order = y.order /\ x.status = y.status
          /\ x.ends = now + ProviderYear /\ x.flag = y.flag /\ x.row = y.row
          /\ x.todo = y.todo /\ x.found = y.found
      BY <3>4, <2>1 DEF Hand
    <3>6. OfBatch(x)
      BY <1>2, <2>1, <2>2, <2>3, <2>4, <2>5, <3>1, <3>5, BatchKept DEF ReconcileAnswers
    <3>7. OfPlan(x) /\ OfNotice(x) /\ OfAnswer(x) /\ OfRow(x)
      BY <1>2, <2>1, <2>2, <2>3, <2>4, <2>5, <3>1, <3>5 DEF HandStands, OfPlan, OfNotice,
         OfAnswer, OfRow, ReconcileAnswers
    <3>8. Goes(h, x)
      BY <1>2, <2>1, <2>2, <2>3, <2>4, <2>5, <3>1, <3>4 DEF ReconcileAnswers
    <3> QED
      BY <3>4, <3>6, <3>7, <3>8 DEF GoesTo, HandStands
  <2>6. ASSUME ProviderStatus(y.order) # "active" PROVE GoesTo(h)
    BY <1>2, <2>1, <2>2, <2>3, <2>4, <2>6, EndsGoes, GoesOnGoes DEF ReconcileAnswers
  <2>7. GoesTo(h)
    BY <2>5, <2>6
  <2>8. StateMoves
    BY <1>2, Frames DEF ReconcileAnswers, StateMoves, subVars
  <2> QED
    BY <2>7, <2>8, HandGoes DEF Moved
<1>3. CASE ReconcileWrites(h)
  <2>1. PICK y \in Hand : y = hand[h]
    BY DEF Stands, TypeOK
  <2>2. HandStands(y)
    BY <2>1 DEF Stands
  <2>3. /\ y.order \in Order /\ y.product \in Plan /\ order[y.order].product = y.product
        /\ Paid(y.order) /\ PaidFor(y.product)
    BY <1>3, <2>1, <2>2 DEF ReconcileWrites, HandStands, OfPlan, PaidFor, Paid, Stands,
       TypeOK, OrdersTypeOK, SubscriptionsTypeOK, PurchasesTypeOK
  <2>4. ASSUME y.flag PROVE GoesTo(h)
    <3>1. "RECORD" \in At /\ None \in Date
      BY <2>1, <2>3, NoneIsNothing DEF At, Date
    <3>2. [y EXCEPT !.at = "RECORD", !.ends = None] \in Hand
      BY <2>1, <3>1 DEF Hand
    <3>3. PICK x \in Hand : x = [y EXCEPT !.at = "RECORD", !.ends = None]
      BY <3>2
    <3>4. /\ x.at = "RECORD" /\ x.product = y.product /\ x.order = y.order /\ x.status = y.status
          /\ x.ends = None /\ x.flag = y.flag /\ x.row = y.row
          /\ x.todo = y.todo /\ x.found = y.found
      BY <3>3, <2>1 DEF Hand
    <3>5. OfBatch(x)
      BY <1>3, <2>1, <2>2, <2>3, <2>4, <3>4, BatchKept DEF ReconcileWrites
    <3>6. OfPlan(x) /\ OfNotice(x) /\ OfAnswer(x) /\ OfRow(x)
      BY <1>3, <2>1, <2>2, <2>3, <2>4, <3>4 DEF HandStands, OfPlan, OfNotice, OfAnswer, OfRow,
         ReconcileWrites
    <3>7. Goes(h, x)
      BY <1>3, <2>1, <2>2, <2>3, <2>4, <3>3 DEF ReconcileWrites
    <3> QED
      BY <3>3, <3>5, <3>6, <3>7 DEF GoesTo, HandStands
  <2>5. ASSUME ~y.flag PROVE GoesTo(h)
    BY <1>3, <2>1, <2>2, <2>3, <2>5, EndsGoes, GoesOnGoes DEF ReconcileWrites
  <2>6. GoesTo(h)
    BY <2>4, <2>5
  <2>7. y.ends \in Date
    BY <1>3, <2>1, <2>2, <2>3 DEF Hand
  <2>8. now \in Nat /\ sub \in [Offer -> Row] /\ y.product \in Offer
    BY <1>3, <2>1, <2>2, <2>3, <2>7, NoneIsNothing DEF Offer, Stands, TypeOK,
       SubscriptionsTypeOK
  <2>9. "ACTIVE" \in State /\ y.ends \in Date
    BY <1>3, <2>1, <2>2, <2>3, <2>7, <2>8, StatesAreStates, SubscriptionAssumption DEF State,
       Date
  <2>10. PICK q \in Row, s \in State, e1 \in Date : q = sub[y.product] /\ s = "ACTIVE" /\ e1 = y.ends
    BY <2>8, <2>9
  <2>11. PICK r \in Row : /\ r = [q EXCEPT !.state = s, !.ends = e1]
                         /\ r.state = s /\ r.ends = e1 /\ r.link = q.link
    BY RowWith
  <2>12. Write(y.product, r) /\ UNCHANGED now
    BY <1>3, <2>1, <2>2, <2>3, <2>7, <2>8, <2>9, <2>10, <2>11 DEF ReconcileWrites
  <2>13. r.link # None => y.product \in Plan /\ order[r.link].product = y.product
    BY <2>8, <2>10, <2>11, <2>3 DEF LinksStand, Stands
  <2>14. y.product \in Plan /\ HasPaidFeatureAccess(r) =>
           \/ PaidFor(y.product)
           \/ \E k \in Handler : hand[k].at = "STATE" /\ hand[k].product = y.product
           \/ r.state = "CANCELLED" /\ r.ends = sub[y.product].ends
    BY <1>3, <2>1, <2>2, <2>3, <2>7, <2>8, <2>9, <2>10, <2>11, <2>12, <2>13, NoneIsNothing,
       StatesAreStates DEF HasPaidFeatureAccess
  <2>15. SubsMove
    BY <2>8, <2>12, <2>13, <2>14, <2>3 DEF SubsMove
  <2>16. StateMoves
    BY <1>3, Frames, <2>15 DEF ReconcileWrites, StateMoves, subVars
  <2> QED
    BY <2>6, <2>16, HandGoes DEF Moved
<1>4. CASE ReconcileBooks(h)
  <2>1. PICK y \in Hand : y = hand[h]
    BY DEF Stands, TypeOK
  <2>2. HandStands(y)
    BY <2>1 DEF Stands
  <2>3. /\ y.order \in Order /\ Paid(y.order)
        /\ y.product \in Plan /\ order[y.order].product = y.product
    BY <1>4, <2>1, <2>2 DEF ReconcileBooks, HandStands, OfPlan, Stands, TypeOK, OrdersTypeOK,
       SubscriptionsTypeOK, PurchasesTypeOK
  <2>4. GoesTo(h)
    BY <1>4, EndsGoes, GoesOnGoes DEF ReconcileBooks
  <2>5. BooksMove
    <3>1. PICK z \in Reference : z = <<y.order, "ORDER">>
      BY <2>3 DEF Reference
    <3>2. z[1] = y.order /\ Book(z, y.product)
      BY <1>4, <2>1, <3>1 DEF ReconcileBooks
    <3> QED
      BY <2>3, <3>2 DEF BooksMove, Book
  <2>6. StateMoves
    BY <1>4, Frames, <2>5 DEF ReconcileBooks, StateMoves, subVars
  <2> QED
    BY <2>4, <2>6, HandGoes DEF Moved
<1> QED
  BY <1>1, <1>2, <1>3, <1>4

(* Checkout of a package, but for its order, and the purchase part of a webhook. *)
LEMMA PurchaseMoves ==
  ASSUME Stands, NEW h \in Handler, UNCHANGED subVars,
         BuyCreates(h) \/ FindPurchase(h) \/ SettlePurchase(h)
  PROVE  Moved
<1>1. CASE BuyCreates(h)
  <2>1. PICK y \in Hand : y = hand[h]
    BY DEF Stands, TypeOK
  <2>2. HandStands(y)
    BY <2>1 DEF Stands
  <2>3. y.product \in Item /\ y.order \in Order /\ order[y.order].product = y.product
    BY <1>1, <2>1, <2>2 DEF BuyCreates, HandStands, OfRow, Stands, TypeOK, OrdersTypeOK,
       SubscriptionsTypeOK, PurchasesTypeOK
  <2>4. GoesTo(h)
    BY <1>1, EndsGoes, GoesOnGoes DEF BuyCreates
  <2>5. PICK r \in [status : PurchaseStatus, item : Item, link : Order] :
          r = [status |-> "PENDING", item |-> y.product, link |-> y.order]
    BY <1>1, <2>1, <2>2, <2>3 DEF PurchaseStatus
  <2>6. r.status = "PENDING" /\ r.item = y.product /\ r.link = y.order
    BY <1>1, <2>1, <2>2, <2>3, <2>5
  <2>7. PurchasesMove
    BY <1>1, <2>1, <2>2, <2>3, <2>5, <2>6 DEF BuyCreates, PurchasesMove, Stands, TypeOK,
       OrdersTypeOK, SubscriptionsTypeOK, PurchasesTypeOK
  <2>8. StateMoves
    BY <1>1, Frames, <2>7 DEF BuyCreates, StateMoves, subVars
  <2> QED
    BY <2>4, <2>8, HandGoes DEF Moved
<1>2. CASE FindPurchase(h)
  <2>1. PICK y \in Hand : y = hand[h]
    BY DEF Stands, TypeOK
  <2>2. HandStands(y)
    BY <2>1 DEF Stands
  <2>3. y.order \in Order /\ y.status \in OrderStatus /\ (y.status = "COMPLETED" => Paid(y.order))
    BY <1>2, <2>1, <2>2 DEF FindPurchase, HandStands, OfNotice, Stands, TypeOK, OrdersTypeOK,
       SubscriptionsTypeOK, PurchasesTypeOK
  <2>4. PICK pending \in SUBSET Purchase : pending =
          {r \in Purchase : /\ Pending(r) /\ order[y.order].product \in Item
                            /\ PackageOf[purchase[r].item] = PackageOf[order[y.order].product]}
    BY <1>2, <2>1, <2>2, <2>3 DEF Stands, TypeOK, OrdersTypeOK, SubscriptionsTypeOK,
       PurchasesTypeOK
  <2>5. PICK found \in SUBSET Purchase :
          found = IF LinkedTo(y.order) # {} THEN LinkedTo(y.order)
                                            ELSE {NewestOf(pending)} \ {0}
    BY <1>2, <2>1, <2>2, <2>3, <2>4, NewestIsOneOf, NoneIsNothing DEF LinkedTo, Stands,
       TypeOK, OrdersTypeOK, SubscriptionsTypeOK, PurchasesTypeOK
  <2>6. \A r \in found : Fits(r, y.order)
    BY <1>2, <2>1, <2>2, <2>3, <2>4, <2>5, NewestIsOneOf, NoneIsNothing DEF LinkedTo,
       RowsStand, Pending, Fits, PurchaseStatus, Stands, TypeOK, OrdersTypeOK,
       SubscriptionsTypeOK, PurchasesTypeOK
  <2>7. ASSUME y.status = "PENDING" \/ found = {} PROVE GoesTo(h)
    <3>1. "FIND" \in At
      BY <2>1, <2>3, <2>4, <2>5, <2>6, NoneIsNothing DEF At
    <3>2. [y EXCEPT !.at = "FIND"] \in Hand
      BY <2>1, <3>1 DEF Hand
    <3>3. PICK x \in Hand : x = [y EXCEPT !.at = "FIND"]
      BY <3>2
    <3>4. /\ x.at = "FIND" /\ x.product = y.product /\ x.order = y.order /\ x.status = y.status
          /\ x.ends = y.ends /\ x.flag = y.flag /\ x.row = y.row
          /\ x.todo = y.todo /\ x.found = y.found
      BY <3>3, <2>1 DEF Hand
    <3>5. OfBatch(x)
      BY <1>2, <2>1, <2>2, <2>3, <2>4, <2>5, <2>6, <2>7, <3>4, BatchKept DEF FindPurchase
    <3>6. OfPlan(x) /\ OfNotice(x) /\ OfAnswer(x) /\ OfRow(x)
      BY <1>2, <2>1, <2>2, <2>3, <2>4, <2>5, <2>6, <2>7, <3>4 DEF HandStands, OfPlan,
         OfNotice, OfAnswer, OfRow, FindPurchase
    <3>7. Goes(h, x)
      BY <1>2, <2>1, <2>2, <2>3, <2>4, <2>5, <2>6, <2>7, <3>3 DEF FindPurchase
    <3> QED
      BY <3>3, <3>5, <3>6, <3>7 DEF GoesTo, HandStands
  <2>8. ASSUME ~(y.status = "PENDING" \/ found = {}) PROVE GoesTo(h)
    <3>1. PICK r \in found : Goes(h, [hand[h] EXCEPT !.at = "SETTLE", !.row = r])
      BY <1>2, <2>1, <2>2, <2>3, <2>4, <2>5, <2>6, <2>8 DEF FindPurchase, Stands, TypeOK,
         OrdersTypeOK, SubscriptionsTypeOK, PurchasesTypeOK
    <3>2. "SETTLE" \in At /\ r \in Purchase \cup {0}
      BY <2>1, <2>3, <2>4, <2>5, <2>6, <3>1, NoneIsNothing DEF At
    <3>3. [y EXCEPT !.at = "SETTLE", !.row = r] \in Hand
      BY <2>1, <3>2 DEF Hand
    <3>4. PICK x \in Hand : x = [y EXCEPT !.at = "SETTLE", !.row = r]
      BY <3>3
    <3>5. /\ x.at = "SETTLE" /\ x.product = y.product /\ x.order = y.order /\ x.status = y.status
          /\ x.ends = y.ends /\ x.flag = y.flag /\ x.row = r
          /\ x.todo = y.todo /\ x.found = y.found
      BY <3>4, <2>1 DEF Hand
    <3>6. OfBatch(x)
      BY <1>2, <2>1, <2>2, <2>3, <2>4, <2>5, <2>6, <2>8, <3>1, <3>5, BatchKept DEF
         FindPurchase
    <3>7. OfPlan(x) /\ OfNotice(x) /\ OfAnswer(x) /\ OfRow(x)
      BY <1>2, <2>1, <2>2, <2>3, <2>4, <2>5, <2>6, <2>8, <3>1, <3>5 DEF HandStands, OfPlan,
         OfNotice, OfAnswer, OfRow, FindPurchase
    <3>8. Goes(h, x)
      BY <1>2, <2>1, <2>2, <2>3, <2>4, <2>5, <2>6, <2>8, <3>1, <3>4 DEF FindPurchase
    <3> QED
      BY <3>4, <3>6, <3>7, <3>8 DEF GoesTo, HandStands
  <2>9. GoesTo(h)
    BY <2>7, <2>8
  <2>10. StateMoves
    BY <1>2, Frames DEF FindPurchase, StateMoves, subVars
  <2> QED
    BY <2>9, <2>10, HandGoes DEF Moved
<1>3. CASE SettlePurchase(h)
  <2>1. PICK y \in Hand : y = hand[h]
    BY DEF Stands, TypeOK
  <2>2. HandStands(y)
    BY <2>1 DEF Stands
  <2>3. /\ y.order \in Order /\ y.row \in Purchase /\ Fits(y.row, y.order)
        /\ y.status \in OrderStatus /\ (y.status = "COMPLETED" => Paid(y.order))
    BY <1>3, <2>1, <2>2 DEF SettlePurchase, HandStands, OfNotice, OfRow, Stands, TypeOK,
       OrdersTypeOK, SubscriptionsTypeOK, PurchasesTypeOK
  <2>4. "FIND" \in At /\ 0 \in Purchase \cup {0}
    BY <2>1, <2>3, NoneIsNothing DEF At
  <2>5. [y EXCEPT !.at = "FIND", !.row = 0] \in Hand
    BY <2>1, <2>4 DEF Hand
  <2>6. PICK x \in Hand : x = [y EXCEPT !.at = "FIND", !.row = 0]
    BY <2>5
  <2>7. /\ x.at = "FIND" /\ x.product = y.product /\ x.order = y.order /\ x.status = y.status
        /\ x.ends = y.ends /\ x.flag = y.flag /\ x.row = 0
        /\ x.todo = y.todo /\ x.found = y.found
    BY <2>6, <2>1 DEF Hand
  <2>8. OfBatch(x)
    BY <1>3, <2>1, <2>2, <2>3, <2>7, BatchKept DEF SettlePurchase
  <2>9. OfPlan(x) /\ OfNotice(x) /\ OfAnswer(x) /\ OfRow(x)
    BY <1>3, <2>1, <2>2, <2>3, <2>7 DEF HandStands, OfPlan, OfNotice, OfAnswer, OfRow,
       SettlePurchase
  <2>10. Goes(h, x)
    BY <1>3, <2>1, <2>2, <2>3, <2>6 DEF SettlePurchase
  <2>11. GoesTo(h)
    BY <2>6, <2>8, <2>9, <2>10 DEF GoesTo, HandStands
  <2>12. PICK s \in PurchaseStatus \ {"ABSENT"} :
           s = StatusOfNotice(y.status) /\ (s = "PAID" <=> y.status = "COMPLETED")
    BY <1>3, <2>1, <2>2, <2>3, StatesAreStates
  <2>13. PurchasesMove
    BY <1>3, <2>1, <2>2, <2>3, <2>12 DEF SettlePurchase, PurchasesMove, Stands, TypeOK,
       OrdersTypeOK, SubscriptionsTypeOK, PurchasesTypeOK
  <2>14. StateMoves
    BY <1>3, Frames, <2>13 DEF SettlePurchase, StateMoves, subVars
  <2> QED
    BY <2>11, <2>14, HandGoes DEF Moved
<1> QED
  BY <1>1, <1>2, <1>3

(* The packages page. *)
LEMMA PageMoves ==
  ASSUME Stands, NEW h \in Handler, UNCHANGED subVars,
         PageReads(h) \/ CheckAsks(h) \/ CheckSilent(h) \/ CheckWrites(h) \/ RecoverLists(h)
            \/ RecoverFinds(h) \/ RecoverWrites(h) \/ PageEnds(h)
  PROVE  Moved
<1>1. CASE PageReads(h)
  <2>1. {<<r, purchase[r].link>> : r \in {q \in Purchase : Pending(q) /\ purchase[q].link # None}}
          \in SUBSET (Purchase \X Order)
    BY PurchasesTyped
  <2>2. PICK t \in SUBSET (Purchase \X Order) :
          t = {<<r, purchase[r].link>> : r \in {q \in Purchase : Pending(q) /\ purchase[q].link # None}}
    BY <2>1
  <2>3. \A z \in t : z[1] # 0 /\ Fits(z[1], z[2])
    BY <1>1, <2>1, <2>2, NoneIsNothing DEF RowsStand, Stands, TypeOK, OrdersTypeOK,
       SubscriptionsTypeOK, PurchasesTypeOK
  <2>4. "CHECK" \in At /\ t \in SUBSET ((Purchase \cup {0}) \X Order)
    BY <2>1, <2>2, <2>3, NoneIsNothing DEF At
  <2>5. [Idle EXCEPT !.at = "CHECK", !.todo = t] \in Hand
    BY <2>4, IdleIsHand DEF Hand
  <2>6. PICK x \in Hand : x = [Idle EXCEPT !.at = "CHECK", !.todo = t]
    BY <2>5
  <2>7. /\ x.at = "CHECK" /\ x.product = None /\ x.order = None /\ x.status = None
        /\ x.ends = None /\ x.flag = FALSE /\ x.row = 0
        /\ x.todo = t /\ x.found = {}
    BY <2>6 DEF Idle
  <2>8. OfBatch(x)
    BY <1>1, <2>1, <2>2, <2>3, <2>7, NoneIsNothing DEF HandStands, OfBatch
  <2>9. OfPlan(x) /\ OfNotice(x) /\ OfAnswer(x) /\ OfRow(x)
    BY <1>1, <2>1, <2>2, <2>3, <2>7 DEF HandStands, OfPlan, OfNotice, OfAnswer, OfRow,
       PageReads
  <2>10. Goes(h, x)
    BY <1>1, <2>1, <2>2, <2>3, <2>6 DEF PageReads
  <2>11. GoesTo(h)
    BY <2>6, <2>8, <2>9, <2>10 DEF GoesTo, HandStands
  <2>12. StateMoves
    BY <1>1, Frames DEF PageReads, StateMoves, subVars
  <2> QED
    BY <2>11, <2>12, HandGoes DEF Moved
<1>2. CASE CheckAsks(h)
  <2>1. PICK y \in Hand : y = hand[h]
    BY DEF Stands, TypeOK
  <2>2. HandStands(y)
    BY <2>1 DEF Stands
  <2>3. PICK z \in y.todo :
          Goes(h, [hand[h] EXCEPT !.todo = @ \ {z},
                                  !.found = @ \cup {<<z[1], z[2], StatusOf(ProviderStatus(z[2]))>>}])
    BY <1>2, <2>1, <2>2 DEF CheckAsks
  <2>4. z[1] \in Purchase \cup {0} /\ z[2] \in Order /\ z[1] # 0 /\ Fits(z[1], z[2])
    BY <1>2, <2>1, <2>2, <2>3 DEF CheckAsks, Hand, HandStands, OfBatch, Stands, TypeOK,
       OrdersTypeOK, SubscriptionsTypeOK, PurchasesTypeOK
  <2>5. PICK s \in {"PAID", "CANCELLED", "FAILED"} :
          s = StatusOf(ProviderStatus(z[2])) /\ (s = "PAID" <=> Paid(z[2]))
    BY <1>2, <2>1, <2>2, <2>3, <2>4, AnswerTells DEF Stands, TypeOK, OrdersTypeOK,
       SubscriptionsTypeOK, PurchasesTypeOK
  <2>6. y.found \in SUBSET ((Purchase \cup {0}) \X Order \X PurchaseStatus)
    BY <2>1 DEF Hand
  <2>7. <<z[1], z[2], s>> \in (Purchase \cup {0}) \X Order \X PurchaseStatus
    BY <2>4, <2>5 DEF PurchaseStatus
  <2>8. PICK f \in SUBSET ((Purchase \cup {0}) \X Order \X PurchaseStatus) :
          f = y.found \cup {<<z[1], z[2], s>>}
    BY <2>6, <2>7
  <2>9. order[z[2]].product \in Item
    BY <1>2, <2>1, <2>2, <2>3, <2>4, <2>5, <2>6, <2>7, <2>8 DEF Fits, Stands, TypeOK,
       OrdersTypeOK, SubscriptionsTypeOK, PurchasesTypeOK
  <2>10. /\ "CHECK" \in At /\ y.todo \ {z} \in SUBSET ((Purchase \cup {0}) \X Order)
         /\ f \in SUBSET ((Purchase \cup {0}) \X Order \X PurchaseStatus)
    BY <2>1, <2>3, <2>4, <2>5, <2>6, <2>7, <2>8, <2>9, NoneIsNothing DEF Hand, At
  <2>11. [y EXCEPT !.at = "CHECK", !.todo = y.todo \ {z}, !.found = f] \in Hand
    BY <2>1, <2>10 DEF Hand
  <2>12. PICK x \in Hand :
           x = [y EXCEPT !.at = "CHECK", !.todo = y.todo \ {z}, !.found = f]
    BY <2>11
  <2>13. /\ x.at = "CHECK" /\ x.product = y.product /\ x.order = y.order /\ x.status = y.status
         /\ x.ends = y.ends /\ x.flag = y.flag /\ x.row = y.row
         /\ x.todo = y.todo \ {z} /\ x.found = f
    BY <2>12, <2>1 DEF Hand
  <2>14. OfBatch(x)
    BY <1>2, <2>1, <2>2, <2>3, <2>4, <2>5, <2>6, <2>7, <2>8, <2>9, <2>13, NoneIsNothing DEF
       HandStands, OfBatch
  <2>15. OfPlan(x) /\ OfNotice(x) /\ OfAnswer(x) /\ OfRow(x)
    BY <1>2, <2>1, <2>2, <2>3, <2>4, <2>5, <2>6, <2>7, <2>8, <2>9, <2>13 DEF HandStands,
       OfPlan, OfNotice, OfAnswer, OfRow, CheckAsks
  <2>16. Goes(h, x)
    BY <1>2, <2>1, <2>2, <2>3, <2>4, <2>5, <2>6, <2>7, <2>8, <2>9, <2>12 DEF CheckAsks
  <2>17. GoesTo(h)
    BY <2>12, <2>14, <2>15, <2>16 DEF GoesTo, HandStands
  <2>18. StateMoves
    BY <1>2, Frames DEF CheckAsks, StateMoves, subVars
  <2> QED
    BY <2>17, <2>18, HandGoes DEF Moved
<1>3. CASE CheckSilent(h)
  <2>1. PICK y \in Hand : y = hand[h]
    BY DEF Stands, TypeOK
  <2>2. HandStands(y)
    BY <2>1 DEF Stands
  <2>3. PICK z \in y.todo : Goes(h, [hand[h] EXCEPT !.todo = @ \ {z}])
    BY <1>3, <2>1, <2>2 DEF CheckSilent
  <2>4. y.todo \ {z} \in SUBSET ((Purchase \cup {0}) \X Order)
    BY <2>1, <2>3, NoneIsNothing DEF Hand
  <2>5. [y EXCEPT !.todo = y.todo \ {z}] \in Hand
    BY <2>1, <2>4 DEF Hand
  <2>6. PICK x \in Hand : x = [y EXCEPT !.todo = y.todo \ {z}]
    BY <2>5
  <2>7. /\ x.at = y.at /\ x.product = y.product /\ x.order = y.order /\ x.status = y.status
        /\ x.ends = y.ends /\ x.flag = y.flag /\ x.row = y.row
        /\ x.todo = y.todo \ {z} /\ x.found = y.found
    BY <2>6, <2>1 DEF Hand
  <2>8. OfBatch(x)
    BY <1>3, <2>1, <2>2, <2>3, <2>7, NoneIsNothing DEF HandStands, OfBatch
  <2>9. OfPlan(x) /\ OfNotice(x) /\ OfAnswer(x) /\ OfRow(x)
    BY <1>3, <2>1, <2>2, <2>3, <2>7 DEF HandStands, OfPlan, OfNotice, OfAnswer, OfRow,
       CheckSilent
  <2>10. Goes(h, x)
    BY <1>3, <2>1, <2>2, <2>3, <2>6 DEF CheckSilent
  <2>11. GoesTo(h)
    BY <2>6, <2>8, <2>9, <2>10 DEF GoesTo, HandStands
  <2>12. StateMoves
    BY <1>3, Frames DEF CheckSilent, StateMoves, subVars
  <2> QED
    BY <2>11, <2>12, HandGoes DEF Moved
<1>4. CASE CheckWrites(h)
  <2>1. PICK y \in Hand : y = hand[h]
    BY DEF Stands, TypeOK
  <2>2. HandStands(y)
    BY <2>1 DEF Stands
  <2>3. PICK z \in y.found : /\ SetStatus(z[1], z[3])
                             /\ Goes(h, [hand[h] EXCEPT !.found = @ \ {z}])
    BY <1>4, <2>1, <2>2 DEF CheckWrites
  <2>4. /\ z[1] \in Purchase /\ z[2] \in Order /\ z[3] \in PurchaseStatus \ {"ABSENT"}
        /\ Fits(z[1], z[2]) /\ (z[3] = "PAID" => Paid(z[2]))
    BY <1>4, <2>1, <2>2, <2>3 DEF CheckWrites, Hand, HandStands, OfBatch, Stands, TypeOK,
       OrdersTypeOK, SubscriptionsTypeOK, PurchasesTypeOK
  <2>5. y.found \ {z} \in SUBSET ((Purchase \cup {0}) \X Order \X PurchaseStatus)
    BY <2>1, <2>3, <2>4, NoneIsNothing DEF Hand
  <2>6. [y EXCEPT !.found = y.found \ {z}] \in Hand
    BY <2>1, <2>5 DEF Hand
  <2>7. PICK x \in Hand : x = [y EXCEPT !.found = y.found \ {z}]
    BY <2>6
  <2>8. /\ x.at = y.at /\ x.product = y.product /\ x.order = y.order /\ x.status = y.status
        /\ x.ends = y.ends /\ x.flag = y.flag /\ x.row = y.row
        /\ x.todo = y.todo /\ x.found = y.found \ {z}
    BY <2>7, <2>1 DEF Hand
  <2>9. OfBatch(x)
    BY <1>4, <2>1, <2>2, <2>3, <2>4, <2>8, NoneIsNothing DEF HandStands, OfBatch
  <2>10. OfPlan(x) /\ OfNotice(x) /\ OfAnswer(x) /\ OfRow(x)
    BY <1>4, <2>1, <2>2, <2>3, <2>4, <2>8 DEF HandStands, OfPlan, OfNotice, OfAnswer, OfRow,
       CheckWrites
  <2>11. Goes(h, x)
    BY <1>4, <2>1, <2>2, <2>3, <2>4, <2>7 DEF CheckWrites
  <2>12. GoesTo(h)
    BY <2>7, <2>9, <2>10, <2>11 DEF GoesTo, HandStands
  <2>13. PurchasesMove
    BY <1>4, <2>1, <2>2, <2>3, <2>4 DEF PurchasesMove, Credited, Fits, Stands, TypeOK,
       OrdersTypeOK, SubscriptionsTypeOK, PurchasesTypeOK
  <2>14. StateMoves
    BY <1>4, Frames, <2>13 DEF CheckWrites, StateMoves, subVars
  <2> QED
    BY <2>12, <2>14, HandGoes DEF Moved
<1>5. CASE RecoverLists(h)
  <2>1. PICK t \in SUBSET ({0} \X Order) :
          t = {0} \X {o \in Order : Recoverable(o)}
    BY <1>5 DEF Stands, TypeOK, OrdersTypeOK, SubscriptionsTypeOK, PurchasesTypeOK
  <2>2. \A z \in t : z[1] = 0 /\ Paid(z[2]) /\ order[z[2]].product \in Item
    BY <1>5, <2>1 DEF Recoverable, Paid, Stands, TypeOK, OrdersTypeOK, SubscriptionsTypeOK, PurchasesTypeOK
  <2>3. "RECOVER" \in At /\ t \in SUBSET ((Purchase \cup {0}) \X Order)
    BY <2>1, <2>2, NoneIsNothing DEF At
  <2>4. [Idle EXCEPT !.at = "RECOVER", !.todo = t] \in Hand
    BY <2>3, IdleIsHand DEF Hand
  <2>5. PICK x \in Hand : x = [Idle EXCEPT !.at = "RECOVER", !.todo = t]
    BY <2>4
  <2>6. /\ x.at = "RECOVER" /\ x.product = None /\ x.order = None /\ x.status = None
        /\ x.ends = None /\ x.flag = FALSE /\ x.row = 0
        /\ x.todo = t /\ x.found = {}
    BY <2>5 DEF Idle
  <2>7. OfBatch(x)
    BY <1>5, <2>1, <2>2, <2>6, NoneIsNothing DEF HandStands, OfBatch
  <2>8. OfPlan(x) /\ OfNotice(x) /\ OfAnswer(x) /\ OfRow(x)
    BY <1>5, <2>1, <2>2, <2>6 DEF HandStands, OfPlan, OfNotice, OfAnswer, OfRow, RecoverLists
  <2>9. Goes(h, x)
    BY <1>5, <2>1, <2>2, <2>5 DEF RecoverLists
  <2>10. GoesTo(h)
    BY <2>5, <2>7, <2>8, <2>9 DEF GoesTo, HandStands
  <2>11. StateMoves
    BY <1>5, Frames DEF RecoverLists, StateMoves, subVars
  <2> QED
    BY <2>10, <2>11, HandGoes DEF Moved
<1>6. CASE RecoverFinds(h)
  <2>1. PICK y \in Hand : y = hand[h]
    BY DEF Stands, TypeOK
  <2>2. HandStands(y)
    BY <2>1 DEF Stands
  <2>3. PICK z \in y.todo :
          LET found == NewestOf(LinkedTo(z[2]) \cup
                                {r \in Purchase : Pending(r) /\ purchase[r].item = order[z[2]].product})
          IN Goes(h, [hand[h] EXCEPT !.todo = @ \ {z},
                                     !.found = @ \cup {<<found, z[2], "PAID">>}])
    BY <1>6, <2>1, <2>2 DEF RecoverFinds
  <2>4. z[2] \in Order /\ Paid(z[2]) /\ order[z[2]].product \in Item
    BY <1>6, <2>1, <2>2, <2>3 DEF RecoverFinds, Hand, HandStands, OfBatch, Stands, TypeOK,
       OrdersTypeOK, SubscriptionsTypeOK, PurchasesTypeOK
  <2>5. PICK S \in SUBSET Purchase :
          S = LinkedTo(z[2]) \cup {r \in Purchase : /\ Pending(r)
                                                   /\ purchase[r].item = order[z[2]].product}
    BY <1>6, <2>1, <2>2, <2>3, <2>4 DEF LinkedTo, Stands, TypeOK, OrdersTypeOK,
       SubscriptionsTypeOK, PurchasesTypeOK
  <2>6. \A r \in S : Fits(r, z[2])
    BY <1>6, <2>1, <2>2, <2>3, <2>4, <2>5, NoneIsNothing DEF LinkedTo, RowsStand, Fits,
       Stands, TypeOK, OrdersTypeOK, SubscriptionsTypeOK, PurchasesTypeOK
  <2>7. PICK m \in Purchase \cup {0} : m = NewestOf(S) /\ (m # 0 => Fits(m, z[2]))
    BY <1>6, <2>1, <2>2, <2>3, <2>4, <2>5, <2>6, NewestIsOneOf DEF Stands, TypeOK,
       OrdersTypeOK, SubscriptionsTypeOK, PurchasesTypeOK
  <2>8. y.found \in SUBSET ((Purchase \cup {0}) \X Order \X PurchaseStatus)
    BY <2>1 DEF Hand
  <2>9. <<m, z[2], "PAID">> \in (Purchase \cup {0}) \X Order \X PurchaseStatus
    BY <2>4, <2>7 DEF PurchaseStatus
  <2>10. PICK f \in SUBSET ((Purchase \cup {0}) \X Order \X PurchaseStatus) :
           f = y.found \cup {<<m, z[2], "PAID">>}
    BY <2>8, <2>9
  <2>11. \A w \in f : w \in y.found \/ (w[1] = m /\ w[2] = z[2] /\ w[3] = "PAID")
    BY <2>10
  <2>12. y.at = "RECOVER" /\ OfBatch(y)
    BY <1>6, <2>1, <2>2, <2>3, <2>4, <2>5, <2>6, <2>7, <2>8, <2>9, <2>10, <2>11 DEF
       RecoverFinds, HandStands, Stands, TypeOK, OrdersTypeOK, SubscriptionsTypeOK,
       PurchasesTypeOK
  <2>13. /\ y.todo \ {z} \in SUBSET ((Purchase \cup {0}) \X Order)
         /\ f \in SUBSET ((Purchase \cup {0}) \X Order \X PurchaseStatus)
    BY <2>1, <2>3, <2>4, <2>5, <2>6, <2>7, <2>8, <2>9, <2>10, <2>11, <2>12, NoneIsNothing DEF
       Hand
  <2>14. [y EXCEPT !.todo = y.todo \ {z}, !.found = f] \in Hand
    BY <2>1, <2>13 DEF Hand
  <2>15. PICK x \in Hand : x = [y EXCEPT !.todo = y.todo \ {z}, !.found = f]
    BY <2>14
  <2>16. /\ x.at = y.at /\ x.product = y.product /\ x.order = y.order /\ x.status = y.status
         /\ x.ends = y.ends /\ x.flag = y.flag /\ x.row = y.row
         /\ x.todo = y.todo \ {z} /\ x.found = f
    BY <2>15, <2>1 DEF Hand
  <2>17. OfBatch(x)
    BY <1>6, <2>1, <2>2, <2>3, <2>4, <2>5, <2>6, <2>7, <2>8, <2>9, <2>10, <2>11, <2>12, <2>16,
       NoneIsNothing DEF HandStands, OfBatch
  <2>18. OfPlan(x) /\ OfNotice(x) /\ OfAnswer(x) /\ OfRow(x)
    BY <1>6, <2>1, <2>2, <2>3, <2>4, <2>5, <2>6, <2>7, <2>8, <2>9, <2>10, <2>11, <2>12, <2>16
       DEF HandStands, OfPlan, OfNotice, OfAnswer, OfRow, RecoverFinds
  <2>19. Goes(h, x)
    BY <1>6, <2>1, <2>2, <2>3, <2>4, <2>5, <2>6, <2>7, <2>8, <2>9, <2>10, <2>11, <2>12, <2>15
       DEF RecoverFinds
  <2>20. GoesTo(h)
    BY <2>15, <2>17, <2>18, <2>19 DEF GoesTo, HandStands
  <2>21. StateMoves
    BY <1>6, Frames DEF RecoverFinds, StateMoves, subVars
  <2> QED
    BY <2>20, <2>21, HandGoes DEF Moved
<1>7. CASE RecoverWrites(h)
  <2>1. PICK y \in Hand : y = hand[h]
    BY DEF Stands, TypeOK
  <2>2. HandStands(y)
    BY <2>1 DEF Stands
  <2>3. PICK z \in y.found :
          /\ IF z[1] = 0
               THEN Create([status |-> z[3], link |-> z[2],
                            item |-> DefaultOf[PackageOf[order[z[2]].product]]])
               ELSE SetLink(z[1], z[2], z[3])
          /\ Goes(h, [hand[h] EXCEPT !.found = @ \ {z}])
    BY <1>7, <2>1, <2>2 DEF RecoverWrites
  <2>4. /\ z[1] \in Purchase \cup {0} /\ z[2] \in Order /\ z[3] = "PAID"
        /\ z[1] # 0 => Fits(z[1], z[2])
        /\ Paid(z[2]) /\ order[z[2]].product \in Item
    BY <1>7, <2>1, <2>2, <2>3 DEF RecoverWrites, Hand, HandStands, OfBatch, Stands, TypeOK,
       OrdersTypeOK, SubscriptionsTypeOK, PurchasesTypeOK
  <2>5. PICK i \in Item : /\ i = DefaultOf[PackageOf[order[z[2]].product]]
                           /\ PackageOf[i] = PackageOf[order[z[2]].product]
    BY <1>7, <2>1, <2>2, <2>3, <2>4, PurchaseAssumption DEF Package, Stands, TypeOK,
       OrdersTypeOK, SubscriptionsTypeOK, PurchasesTypeOK
  <2>6. y.found \ {z} \in SUBSET ((Purchase \cup {0}) \X Order \X PurchaseStatus)
    BY <2>1, <2>3, <2>4, <2>5, NoneIsNothing DEF Hand
  <2>7. [y EXCEPT !.found = y.found \ {z}] \in Hand
    BY <2>1, <2>6 DEF Hand
  <2>8. PICK x \in Hand : x = [y EXCEPT !.found = y.found \ {z}]
    BY <2>7
  <2>9. /\ x.at = y.at /\ x.product = y.product /\ x.order = y.order /\ x.status = y.status
        /\ x.ends = y.ends /\ x.flag = y.flag /\ x.row = y.row
        /\ x.todo = y.todo /\ x.found = y.found \ {z}
    BY <2>8, <2>1 DEF Hand
  <2>10. OfBatch(x)
    BY <1>7, <2>1, <2>2, <2>3, <2>4, <2>5, <2>9, NoneIsNothing DEF HandStands, OfBatch
  <2>11. OfPlan(x) /\ OfNotice(x) /\ OfAnswer(x) /\ OfRow(x)
    BY <1>7, <2>1, <2>2, <2>3, <2>4, <2>5, <2>9 DEF HandStands, OfPlan, OfNotice, OfAnswer,
       OfRow, RecoverWrites
  <2>12. Goes(h, x)
    BY <1>7, <2>1, <2>2, <2>3, <2>4, <2>5, <2>8 DEF RecoverWrites
  <2>13. GoesTo(h)
    BY <2>8, <2>10, <2>11, <2>12 DEF GoesTo, HandStands
  <2>14. PICK r \in [status : PurchaseStatus, item : Item, link : Order] :
           r = [status |-> z[3], link |-> z[2], item |-> i]
    BY <1>7, <2>1, <2>2, <2>3, <2>4, <2>5 DEF PurchaseStatus
  <2>15. r.status = "PAID" /\ r.item = i /\ r.link = z[2]
    BY <1>7, <2>1, <2>2, <2>3, <2>4, <2>5, <2>14
  <2>16. PurchasesMove
    BY <1>7, <2>1, <2>2, <2>3, <2>4, <2>5, <2>14, <2>15 DEF PurchasesMove, PurchaseStatus,
       Stands, TypeOK, OrdersTypeOK, SubscriptionsTypeOK, PurchasesTypeOK
  <2>17. StateMoves
    BY <1>7, Frames, <2>16 DEF RecoverWrites, StateMoves, subVars
  <2> QED
    BY <2>13, <2>17, HandGoes DEF Moved
<1>8. CASE PageEnds(h)
  <2>1. GoesTo(h)
    BY <1>8, EndsGoes, GoesOnGoes DEF PageEnds
  <2>2. StateMoves
    BY <1>8, Frames DEF PageEnds, StateMoves, subVars
  <2> QED
    BY <2>1, <2>2, HandGoes DEF Moved
<1> QED
  BY <1>1, <1>2, <1>3, <1>4, <1>5, <1>6, <1>7, <1>8

(* The purchases' part of the reconciliation. *)
LEMMA ReconcileRowsMoves ==
  ASSUME Stands, NEW h \in Handler, UNCHANGED subVars,
         ReconcilePurchase(h) \/ ReconcileAsks(h) \/ ReconcilePays(h)
  PROVE  Moved
<1>1. CASE ReconcilePurchase(h)
  <2>1. PICK r \in Purchase :
          /\ purchase[r].link # None
          /\ Goes(h, [Idle EXCEPT !.at = "COMPARE_ROW", !.row = r, !.order = purchase[r].link])
    BY <1>1 DEF ReconcilePurchase
  <2>2. purchase[r].link \in Order /\ Fits(r, purchase[r].link)
    BY <1>1, <2>1 DEF RowsStand, Stands, TypeOK, OrdersTypeOK, SubscriptionsTypeOK,
       PurchasesTypeOK
  <2>3. /\ "COMPARE_ROW" \in At /\ purchase[r].link \in Order \cup {None}
        /\ r \in Purchase \cup {0}
    BY <2>1, <2>2, NoneIsNothing DEF At
  <2>4. [Idle EXCEPT !.at = "COMPARE_ROW", !.order = purchase[r].link, !.row = r] \in Hand
    BY <2>3, IdleIsHand DEF Hand
  <2>5. PICK x \in Hand :
          x = [Idle EXCEPT !.at = "COMPARE_ROW", !.order = purchase[r].link, !.row = r]
    BY <2>4
  <2>6. /\ x.at = "COMPARE_ROW" /\ x.product = None /\ x.order = purchase[r].link /\ x.status = None
        /\ x.ends = None /\ x.flag = FALSE /\ x.row = r
        /\ x.todo = {} /\ x.found = {}
    BY <2>5 DEF Idle
  <2>7. OfBatch(x)
    BY <2>6 DEF OfBatch
  <2>8. OfPlan(x) /\ OfNotice(x) /\ OfAnswer(x) /\ OfRow(x)
    BY <1>1, <2>1, <2>2, <2>6 DEF HandStands, OfPlan, OfNotice, OfAnswer, OfRow,
       ReconcilePurchase
  <2>9. Goes(h, x)
    BY <1>1, <2>1, <2>2, <2>5 DEF ReconcilePurchase
  <2>10. GoesTo(h)
    BY <2>5, <2>7, <2>8, <2>9 DEF GoesTo, HandStands
  <2>11. StateMoves
    BY <1>1, Frames DEF ReconcilePurchase, StateMoves, subVars
  <2> QED
    BY <2>10, <2>11, HandGoes DEF Moved
<1>2. CASE ReconcileAsks(h)
  <2>1. PICK y \in Hand : y = hand[h]
    BY DEF Stands, TypeOK
  <2>2. HandStands(y)
    BY <2>1 DEF Stands
  <2>3. y.order \in Order /\ y.row \in Purchase /\ Fits(y.row, y.order)
    BY <1>2, <2>1, <2>2 DEF ReconcileAsks, HandStands, OfRow, Stands, TypeOK, OrdersTypeOK,
       SubscriptionsTypeOK, PurchasesTypeOK
  <2>4. ASSUME ProviderStatus(y.order) = "active" PROVE GoesTo(h)
    <3>1. Credited(y.row)
      BY <1>2, <2>1, <2>2, <2>3, <2>4, AnswerTells DEF Credited, Stands, TypeOK, OrdersTypeOK,
         SubscriptionsTypeOK, PurchasesTypeOK
    <3>2. "PAY_ROW" \in At /\ None \in Order \cup {None}
      BY <2>1, <2>3, <3>1, NoneIsNothing DEF At
    <3>3. [y EXCEPT !.at = "PAY_ROW", !.order = None] \in Hand
      BY <2>1, <3>2 DEF Hand
    <3>4. PICK x \in Hand : x = [y EXCEPT !.at = "PAY_ROW", !.order = None]
      BY <3>3
    <3>5. /\ x.at = "PAY_ROW" /\ x.product = y.product /\ x.order = None /\ x.status = y.status
          /\ x.ends = y.ends /\ x.flag = y.flag /\ x.row = y.row
          /\ x.todo = y.todo /\ x.found = y.found
      BY <3>4, <2>1 DEF Hand
    <3>6. OfBatch(x)
      BY <1>2, <2>1, <2>2, <2>3, <2>4, <3>1, <3>5, BatchKept DEF ReconcileAsks
    <3>7. OfPlan(x) /\ OfNotice(x) /\ OfAnswer(x) /\ OfRow(x)
      BY <1>2, <2>1, <2>2, <2>3, <2>4, <3>1, <3>5 DEF HandStands, OfPlan, OfNotice, OfAnswer,
         OfRow, ReconcileAsks
    <3>8. Goes(h, x)
      BY <1>2, <2>1, <2>2, <2>3, <2>4, <3>1, <3>4 DEF ReconcileAsks
    <3> QED
      BY <3>4, <3>6, <3>7, <3>8 DEF GoesTo, HandStands
  <2>5. ASSUME ProviderStatus(y.order) # "active" PROVE GoesTo(h)
    BY <1>2, <2>1, <2>2, <2>3, <2>5, EndsGoes, GoesOnGoes DEF ReconcileAsks
  <2>6. GoesTo(h)
    BY <2>4, <2>5
  <2>7. StateMoves
    BY <1>2, Frames DEF ReconcileAsks, StateMoves, subVars
  <2> QED
    BY <2>6, <2>7, HandGoes DEF Moved
<1>3. CASE ReconcilePays(h)
  <2>1. PICK y \in Hand : y = hand[h]
    BY DEF Stands, TypeOK
  <2>2. HandStands(y)
    BY <2>1 DEF Stands
  <2>3. y.row \in Purchase /\ Credited(y.row) /\ purchase[y.row].item \in Item
    BY <1>3, <2>1, <2>2 DEF ReconcilePays, HandStands, OfRow, Credited, Fits, Stands, TypeOK,
       OrdersTypeOK, SubscriptionsTypeOK, PurchasesTypeOK
  <2>4. GoesTo(h)
    BY <1>3, EndsGoes, GoesOnGoes DEF ReconcilePays
  <2>5. PurchasesMove
    BY <1>3, <2>1, <2>2, <2>3 DEF ReconcilePays, PurchasesMove, PurchaseStatus, Stands,
       TypeOK, OrdersTypeOK, SubscriptionsTypeOK, PurchasesTypeOK
  <2>6. StateMoves
    BY <1>3, Frames, <2>5 DEF ReconcilePays, StateMoves, subVars
  <2> QED
    BY <2>4, <2>6, HandGoes DEF Moved
<1> QED
  BY <1>1, <1>2, <1>3

(* Opening the order of a plan: the call holds an order of its plan. *)
LEMMA CheckoutOrdersMoves ==
  ASSUME Stands, NEW h \in Handler, UNCHANGED purchase, CheckoutOrders(h)
  PROVE  Moved
<1>1. PICK y \in Hand : y = hand[h]
  BY DEF Stands, TypeOK
<1>2. HandStands(y) /\ y.at = "ORDER" /\ y.product \in Plan
  BY <1>1 DEF Stands, CheckoutOrders, HandStands, OfPlan
<1>3. PICK o \in Order : /\ Open(o, y.product)
                         /\ Goes(h, [hand[h] EXCEPT !.at = "LINK", !.order = o])
  BY <1>1 DEF CheckoutOrders
<1>4. StateMoves
  <2>1. OrdersMove
    BY <1>2, <1>3, NoneIsNothing DEF OrdersMove
  <2>2. CountersMove
    BY <1>3 DEF Open, CountersMove, Stands, TypeOK, OrdersTypeOK
  <2>3. UNCHANGED subVars
    BY DEF CheckoutOrders
  <2> QED
    BY <2>1, <2>2, <2>3, Frames DEF StateMoves
<1>5. Kept /\ HandStands(y)'
  BY <1>2, <1>4, MovesKeep, HandKept
<1>6. order'[o].product = y.product
  BY <1>3 DEF Open, Stands, TypeOK, OrdersTypeOK
<1>7. "LINK" \in At /\ o \in Order \cup {None}
  BY DEF At
<1>8. [y EXCEPT !.at = "LINK", !.order = o] \in Hand
  BY <1>1, <1>7 DEF Hand
<1>9. PICK x \in Hand : x = [y EXCEPT !.at = "LINK", !.order = o]
  BY <1>8
<1>10. /\ x.at = "LINK" /\ x.order = o /\ x.product = y.product
       /\ x.todo = y.todo /\ x.found = y.found
  BY <1>9 DEF Hand
<1>11. OfBatch(x)'
  BY <1>2, <1>5, <1>10 DEF HandStands, OfBatch
<1>12. OfPlan(x)' /\ OfNotice(x)' /\ OfAnswer(x)' /\ OfRow(x)'
  BY <1>2, <1>6, <1>10 DEF OfPlan, OfNotice, OfAnswer, OfRow
<1>13. hand' = [hand EXCEPT ![h] = x]
  BY <1>1, <1>3, <1>9 DEF Goes
<1> QED
  BY <1>4, <1>11, <1>12, <1>13 DEF Moved, HandsMove, HandStands

(* Opening the order of a package. *)
LEMMA BuyOrdersMoves ==
  ASSUME Stands, NEW h \in Handler, UNCHANGED subVars, BuyOrders(h)
  PROVE  Moved
<1>1. PICK i \in Item, o \in Order :
        /\ Open(o, i)
        /\ Goes(h, [Idle EXCEPT !.at = "CREATE", !.product = i, !.order = o])
  BY DEF BuyOrders
<1>2. StateMoves
  <2>1. OrdersMove
    BY <1>1, NoneIsNothing DEF OrdersMove
  <2>2. CountersMove
    BY <1>1 DEF Open, CountersMove, Stands, TypeOK, OrdersTypeOK
  <2>3. UNCHANGED purchase
    BY DEF BuyOrders
  <2> QED
    BY <2>1, <2>2, <2>3, Frames DEF StateMoves
<1>3. order'[o].product = i
  BY <1>1 DEF Open, Stands, TypeOK, OrdersTypeOK
<1>4. "CREATE" \in At /\ i \in Product \cup {None} /\ o \in Order \cup {None}
  BY NoneIsNothing DEF At
<1>5. [Idle EXCEPT !.at = "CREATE", !.product = i, !.order = o] \in Hand
  BY <1>4, IdleIsHand DEF Hand
<1>6. PICK x \in Hand : x = [Idle EXCEPT !.at = "CREATE", !.product = i, !.order = o]
  BY <1>5
<1>7. x.at = "CREATE" /\ x.product = i /\ x.order = o /\ x.todo = {} /\ x.found = {}
  BY <1>6 DEF Idle
<1>8. HandStands(x)'
  BY <1>3, <1>7 DEF HandStands, OfPlan, OfNotice, OfAnswer, OfRow, OfBatch
<1>9. hand' = [hand EXCEPT ![h] = x]
  BY <1>1, <1>6 DEF Goes
<1> QED
  BY <1>2, <1>8, <1>9 DEF Moved, HandsMove

(* The provider's own steps, a call that is lost, and the clock. *)
LEMMA OthersMove ==
  ASSUME Stands, \/ (ProviderStep \/ \E h \in Handler : Lose(h)) /\ UNCHANGED <<subVars, purchase>>
                 \/ Tick /\ UNCHANGED purchase
  PROVE  Moved
<1>1. CASE ProviderStep /\ UNCHANGED <<subVars, purchase>>
  <2>1. PICK o \in Order, s \in OrderStatus :
          order[o].status \in {"PENDING", "FAILED"} /\ Settle(o, s)
    BY <1>1 DEF ProviderStep, CustomerPays, PaymentEnds, OrderStatus
  <2>2. OrdersMove
    BY <2>1 DEF OrdersMove
  <2>3. CountersMove
    BY <2>1 DEF Settle, CountersMove, Stands, TypeOK, OrdersTypeOK
  <2> QED
    BY <1>1, <2>2, <2>3, Frames DEF ProviderStep, Moved, StateMoves, HandsMove
<1>2. ASSUME NEW h \in Handler, Lose(h), UNCHANGED <<subVars, purchase>> PROVE Moved
  <2>1. StateMoves
    BY <1>2, Frames DEF Lose, StateMoves
  <2>2. GoesTo(h)
    BY <1>2, EndsGoes DEF Lose
  <2> QED
    BY <2>1, <2>2, HandGoes DEF Moved
<1>3. CASE Tick /\ UNCHANGED purchase
  <2>1. SubsMove
    BY <1>3 DEF Tick, SubsMove, rows, Stands, TypeOK, SubscriptionsTypeOK
  <2> QED
    BY <1>3, <2>1, Frames DEF Tick, Moved, StateMoves, HandsMove
<1> QED
  BY <1>1, <1>2, <1>3

(* Every step moves in these ways. *)
LEMMA NextMoves ==
  ASSUME Stands, Next
  PROVE  Moved /\ old' \subseteq Order
<1>1. ASSUME NEW h \in Handler, SubscriptionStep(h), UNCHANGED purchase PROVE Moved
  <2> USE CheckoutMoves, CheckoutOrdersMoves, WebhookMoves, SyncMoves, CancelMoves, ReconcileMoves
  <2> QED
    BY <1>1 DEF SubscriptionStep
<1>2. ASSUME NEW h \in Handler, PurchaseStep(h), UNCHANGED subVars PROVE Moved
  BY <1>2, BuyOrdersMoves, PurchaseMoves, PageMoves, ReconcileRowsMoves DEF PurchaseStep
<1>3. ASSUME NEW h \in Handler, Deliver(h) \/ WebhookMarks(h), UNCHANGED <<subVars, purchase>>
      PROVE  Moved
  BY <1>3, NoticeMoves
<1>4. ASSUME NEW h \in Handler, Step(h) PROVE Moved
  BY <1>1, <1>2, <1>3, <1>4 DEF Step
<1>5. CASE OrdersAge
  <2>1. Moved
    BY <1>5, Frames DEF OrdersAge, Moved, StateMoves, HandsMove
  <2>2. old' \subseteq Order
    BY <1>5 DEF OrdersAge, Ages, Stands, TypeOK
  <2> QED
    BY <2>1, <2>2
<1>6. CASE UNCHANGED old
  BY <1>4, <1>5, <1>6, OthersMove DEF Next, Stands, TypeOK
<1> QED
  BY <1>5, <1>6 DEF Next

LEMMA StutterStands == ASSUME Stands, UNCHANGED vars PROVE Stands'
<1> USE DEF vars, orderVars, subVars, rows
<1>1. TypeOK' /\ OrdersStand' /\ BookedAsPaid' /\ CreditsNeedPayment' /\ BlankRows'
  BY DEF Stands, TypeOK, OrdersTypeOK, SubscriptionsTypeOK, PurchasesTypeOK, OrdersStand, Paid,
         BookedAsPaid, CreditsNeedPayment, BlankRows
<1>2. LinksStand' /\ RowsStand'
  BY DEF Stands, LinksStand, RowsStand, Fits
<1>3. Moved
  BY Frames DEF Moved, StateMoves, HandsMove
<1>4. \A h \in Handler : HandStands(hand[h])'
  BY <1>3, HandsMoveStands
<1> QED
  BY <1>1, <1>2, <1>4 DEF Stands

(* The invariant: what every call has read, every link and every row is    *)
(* true of the orders, whatever has happened since it was read.            *)
THEOREM AlwaysStands == Spec => []Stands
<1>1. Stands /\ [Next]_vars => Stands'
  BY NextMoves, MovesStand, StutterStands
<1> QED
  BY <1>1, StandsInit, PTL DEF Spec

(* The state has its types, the pairs of a running batch included. *)
THEOREM TypesHold == Spec => []TypeOK
<1>1. Stands => TypeOK
  BY DEF Stands
<1> QED
  BY <1>1, AlwaysStands, PTL

(* A transaction is booked only for an order that is paid, on its own plan: *)
(* however many notices are late, repeated or lost.                         *)
THEOREM BookingsArePaid == Spec => []BookedAsPaid
<1>1. Stands => BookedAsPaid
  BY DEF Stands
<1> QED
  BY <1>1, AlwaysStands, PTL

(* A row gives credits only if an order of its package is paid, whichever  *)
(* row a notice, a check or a recovery has fallen on.                      *)
THEOREM CreditsArePaid == Spec => []CreditsNeedPayment
<1>1. Stands => CreditsNeedPayment
  BY DEF Stands
<1> QED
  BY <1>1, AlwaysStands, PTL

(* Access to a paid plan begins with a payment, with a resume, or with the *)
(* rest of a period that a late cancellation gives back.                   *)
THEOREM AccessIsPaid == Spec => AccessFollowsPayment
<1>1. ASSUME Stands, [Next]_vars, NEW p \in Plan,
             ~HasPaidFeatureAccess(sub[p]), HasPaidFeatureAccess(sub[p])'
      PROVE  \/ PaidFor(p)
             \/ \E h \in Handler : hand[h].at = "STATE" /\ hand[h].product = p
             \/ sub'[p].state = "CANCELLED" /\ sub'[p].ends = sub[p].ends
  <2>1. CASE UNCHANGED vars
    BY <1>1, <2>1 DEF vars, subVars, rows, HasPaidFeatureAccess
  <2>2. CASE Next
    <3>1. SubsMove
      BY <1>1, <2>2, NextMoves DEF Moved, StateMoves
    <3>2. now \in Nat /\ sub \in [Offer -> Row] /\ p \in Offer
      BY <1>1, NoneIsNothing DEF Stands, TypeOK, SubscriptionsTypeOK
    <3>3. CASE UNCHANGED rows /\ now' \in Nat /\ now' >= now
      <4>1. sub[p] \in Row /\ sub'[p] = sub[p]
        BY <3>2, <3>3 DEF rows
      <4>2. sub[p].ends = None \/ sub[p].ends \in Nat
        BY <4>1 DEF Row, Date
      <4> QED
        BY <1>1, <3>2, <3>3, <4>1, <4>2 DEF HasPaidFeatureAccess
    <3>4. ASSUME NEW q \in Offer, NEW r \in Row, UNCHANGED now, Write(q, r),
                 q \in Plan /\ HasPaidFeatureAccess(r) =>
                   \/ PaidFor(q)
                   \/ \E h \in Handler : hand[h].at = "STATE" /\ hand[h].product = q
                   \/ r.state = "CANCELLED" /\ r.ends = sub[q].ends
          PROVE  \/ PaidFor(p)
                 \/ \E h \in Handler : hand[h].at = "STATE" /\ hand[h].product = p
                 \/ sub'[p].state = "CANCELLED" /\ sub'[p].ends = sub[p].ends
      <4>1. sub'[q] = r /\ (p # q => sub'[p] = sub[p])
        BY <3>2, <3>4 DEF Write
      <4>2. p = q
        BY <1>1, <3>4, <4>1 DEF HasPaidFeatureAccess
      <4>3. HasPaidFeatureAccess(r)
        BY <1>1, <3>4, <4>1, <4>2 DEF HasPaidFeatureAccess
      <4> QED
        BY <3>4, <4>1, <4>2, <4>3
    <3> QED
      BY <3>1, <3>3, <3>4 DEF SubsMove
  <2> QED
    BY <1>1, <2>1, <2>2
<1>2. Stands /\ [Next]_vars =>
        [\A p \in Plan :
           ~HasPaidFeatureAccess(sub[p]) /\ HasPaidFeatureAccess(sub[p])'
             => \/ PaidFor(p)
                \/ \E h \in Handler : hand[h].at = "STATE" /\ hand[h].product = p
                \/ sub'[p].state = "CANCELLED" /\ sub'[p].ends = sub[p].ends]_vars
  BY <1>1
<1> QED
  BY <1>2, AlwaysStands, PTL DEF Spec, AccessFollowsPayment

-----------------------------------------------------------------------------
(* The sales book. *)

(* Whatever has been opened is an order of something. *)
Ordered == \A o \in Order : order[o].status # "ABSENT" => order[o].product \in Product

THEOREM OrderedAlways == Spec => []Ordered
<1>1. Init => Ordered
  BY DEF Init, OrdersInit, NoOrder, Ordered
<1>2. Stands /\ Ordered /\ [Next]_vars => Ordered'
  <2> SUFFICES ASSUME Stands, Ordered, [Next]_vars PROVE Ordered'
    OBVIOUS
  <2>1. CASE UNCHANGED vars
    BY <2>1 DEF vars, orderVars, Ordered
  <2>2. CASE Next
    <3>1. OrdersMove
      BY <2>2, NextMoves DEF Moved, StateMoves
    <3> QED
      BY <3>1 DEF OrdersMove, Open, Settle, Ordered, Stands, TypeOK, OrdersTypeOK
  <2> QED
    BY <2>1, <2>2
<1> QED
  BY <1>1, <1>2, AlwaysStands, PTL DEF Spec

(* Orders, bookings and purchases move one at a time. *)
LEMMA OneAtATime ==
  ASSUME [Next]_vars
  PROVE  \/ UNCHANGED <<booked, purchase>>
         \/ UNCHANGED <<order, purchase>>
         \/ UNCHANGED <<order, booked>>
<1>1. ASSUME NEW h \in Handler, SubscriptionStep(h)
      PROVE  UNCHANGED order \/ UNCHANGED booked
  BY <1>1 DEF SubscriptionStep, orderVars, subVars, CheckoutStarter, StartTrial, CheckoutResets, CheckoutOrders,
     CheckoutRefused, CheckoutLinks, FindRow, WebhookWrites, WebhookBooks, Request, View,
     ProviderAnswers, ProviderSilent, SyncWrites, Cancel, ProviderCancels, Resume, StateWrites,
     Reconcile, ReconcileAnswers, ReconcileWrites, ReconcileBooks
<1>2. ASSUME NEW h \in Handler, PurchaseStep(h)
      PROVE  UNCHANGED order \/ UNCHANGED purchase
  BY <1>2 DEF PurchaseStep, orderVars, BuyOrders, BuyCreates, FindPurchase, SettlePurchase, PageReads,
     CheckAsks, CheckSilent, CheckWrites, RecoverLists, RecoverFinds, RecoverWrites, PageEnds,
     ReconcilePurchase, ReconcileAsks, ReconcilePays
<1>3. CASE UNCHANGED vars
  BY <1>3 DEF vars, subVars
<1> QED
  BY <1>1, <1>2, <1>3 DEF Next, Step, OrdersAge, subVars, Tick, orderVars

(* The three parts of the book. *)
PaidPairs == {<<o, Sold(order[o].product)>> : o \in {q \in Order : order[q].status = "COMPLETED"}}
BookedPairs == {<<x[1], booked[x]>> : x \in {y \in Reference : booked[y] # None}}
CreditedPairs ==
  {<<r, PackageOf[purchase[r].item]>> : r \in {q \in Purchase : purchase[q].status = "PAID"}}

(* No order is paid, and what is paid stays what it is. *)
NoSale ==
  /\ \A o \in Order : order'[o].status = "COMPLETED" <=> order[o].status = "COMPLETED"
  /\ \A o \in Order : Paid(o) => order'[o].product = order[o].product

(* Nothing happens to a part of the book whose rows stay as they are. *)
LEMMA PairsKept ==
  /\ NoSale => UNCHANGED PaidPairs
  /\ UNCHANGED booked => UNCHANGED BookedPairs
  /\ UNCHANGED purchase => UNCHANGED CreditedPairs
<1>1. ASSUME NoSale PROVE UNCHANGED PaidPairs
  <2> DEFINE S == {o \in Order : order[o].status = "COMPLETED"}
  <2>1. S' = S
    BY <1>1 DEF NoSale
  <2>2. \A o \in S : Sold(order'[o].product) = Sold(order[o].product)
    BY <1>1 DEF NoSale, Paid
  <2> QED
    BY <2>1, <2>2 DEF PaidPairs
<1> QED
  BY <1>1 DEF BookedPairs, CreditedPairs

(* An order that is paid is a sale; nothing else that happens to orders is. *)
LEMMA OrdersKeepTheBook ==
  ASSUME Stands, Ordered, StateMoves, UNCHANGED <<booked, purchase>>
  PROVE  Sales!Next \/ UNCHANGED Sales!book
<1> USE DEF Stands, TypeOK, OrdersTypeOK
<1>1. UNCHANGED BookedPairs /\ UNCHANGED CreditedPairs
  BY PairsKept
<1>2. ASSUME NoSale PROVE UNCHANGED Sales!book
  <2>1. UNCHANGED PaidPairs
    BY <1>2, PairsKept
  <2> QED
    BY <1>1, <2>1 DEF Sales!book, PaidPairs, BookedPairs, CreditedPairs
<1>3. CASE UNCHANGED <<order, notice>>
  BY <1>2, <1>3 DEF NoSale
<1>4. ASSUME NEW q \in Order, NEW p \in Product, Open(q, p)
      PROVE  UNCHANGED Sales!book
  BY <1>2, <1>4 DEF Open, Unopened, NoSale, Paid
<1>5. ASSUME NEW q \in Order, NEW s \in OrderStatus,
             order[q].status \in {"PENDING", "FAILED"}, Settle(q, s)
      PROVE  Sales!Next \/ UNCHANGED Sales!book
  <2>1. /\ order'[q] = [order[q] EXCEPT !.status = s]
        /\ \A o \in Order \ {q} : order'[o] = order[o]
    BY <1>5 DEF Settle
  <2>2. order'[q].status = s /\ order'[q].product = order[q].product /\ ~Paid(q)
    BY <1>5, <2>1 DEF Paid
  <2>3. CASE s # "COMPLETED"
    BY <1>2, <2>1, <2>2, <2>3 DEF NoSale, Paid
  <2>4. CASE s = "COMPLETED"
    <3>1. PICK t \in Plan \cup Package : t = Sold(order[q].product)
      <4>1. order[q].product \in Plan \cup Item
        BY <1>5, BillingAssumption DEF Ordered
      <4> QED
        BY <4>1 DEF Sold, Package
    <3>2. \A p \in PaidPairs : p[1] # q
      BY <2>2 DEF PaidPairs, Paid
    <3>3. PaidPairs' = PaidPairs \cup {<<q, t>>}
      <4>1. {o \in Order : order[o].status = "COMPLETED"}' = {o \in Order : order[o].status = "COMPLETED"} \cup {q}
        BY <2>1, <2>2, <2>4
      <4>2. Sold(order[q].product)' = t /\ \A o \in Order \ {q} : Sold(order[o].product)' = Sold(order[o].product)
        BY <2>1, <2>2, <3>1 DEF Sold
      <4>3. \A o \in {r \in Order : order[r].status = "COMPLETED"} : o # q
        BY <2>2 DEF Paid
      <4> QED
        BY <4>1, <4>2, <4>3 DEF PaidPairs
    <3>4. Sales!Pay(q, t)
      BY <1>1, <3>2, <3>3 DEF Sales!Pay, PaidPairs, BookedPairs, CreditedPairs
    <3> QED
      BY <3>1, <3>4 DEF Sales!Next
  <2> QED
    BY <2>3, <2>4
<1> QED
  BY <1>3, <1>4, <1>5 DEF StateMoves, OrdersMove

(* A booking is of what has been paid; one that is made again changes nothing. *)
LEMMA BooksKeepTheBook ==
  ASSUME Stands, StateMoves, UNCHANGED <<order, purchase>>
  PROVE  Sales!Next \/ UNCHANGED Sales!book
<1> USE NoneIsNothing DEF Stands, TypeOK, SubscriptionsTypeOK
<1>1. UNCHANGED PaidPairs /\ UNCHANGED CreditedPairs
  BY PairsKept DEF NoSale
<1>2. CASE UNCHANGED booked
  BY <1>1, <1>2, PairsKept DEF Sales!book, PaidPairs, BookedPairs, CreditedPairs
<1>3. ASSUME NEW x \in Reference, NEW p \in Plan, booked' = [booked EXCEPT ![x] = p],
             order[x[1]].product = p, Paid(x[1])
      PROVE  Sales!Next \/ UNCHANGED Sales!book
  <2>1. x[1] \in Order /\ Sold(p) = p /\ p # None
    BY BillingAssumption DEF Reference, Sold
  <2>2. <<x[1], p>> \in PaidPairs
    BY <1>3, <2>1 DEF PaidPairs, Paid
  <2>3. BookedPairs' = BookedPairs \cup {<<x[1], p>>}
    <3> DEFINE S == {y \in Reference : booked[y] # None}
    <3>1. booked[x] # None => booked[x] = p
      BY <1>3 DEF BookedAsPaid
    <3>2. booked'[x] = p /\ \A y \in Reference \ {x} : booked'[y] = booked[y]
      BY <1>3
    <3>3. S' = S \cup {x}
      BY <2>1, <3>2
    <3>4. \A y \in S : booked'[y] = booked[y]
      BY <3>1, <3>2
    <3> QED
      BY <3>2, <3>3, <3>4 DEF BookedPairs
  <2>4. CASE <<x[1], p>> \in BookedPairs
    <3>1. UNCHANGED BookedPairs
      BY <2>3, <2>4
    <3> QED
      BY <1>1, <3>1 DEF Sales!book, PaidPairs, BookedPairs, CreditedPairs
  <2>5. CASE <<x[1], p>> \notin BookedPairs
    <3>1. Sales!Book(<<x[1], p>>)
      BY <1>1, <2>2, <2>3, <2>5 DEF Sales!Book, PaidPairs, BookedPairs, CreditedPairs
    <3> QED
      BY <2>2, <3>1 DEF Sales!Next, PaidPairs
  <2> QED
    BY <2>4, <2>5
<1> QED
  BY <1>2, <1>3 DEF StateMoves, BooksMove

(* One row that takes a status: its credits are granted, withdrawn, or neither. *)
LEMMA RowKeepsTheBook ==
  ASSUME Stands, NEW r \in Purchase, NEW i \in Item, UNCHANGED <<order, booked>>,
         purchase[r].status = "PAID" => purchase[r].item = i,
         purchase'[r].item = i,
         \A q \in Purchase \ {r} : purchase'[q] = purchase[q],
         purchase'[r].status = "PAID" =>
           \E o \in Order : Paid(o) /\ order[o].product \in Item
                           /\ PackageOf[order[o].product] = PackageOf[i]
  PROVE  Sales!Next \/ UNCHANGED Sales!book
<1> DEFINE S == {q \in Purchase : purchase[q].status = "PAID"}
<1>1. UNCHANGED PaidPairs /\ UNCHANGED BookedPairs
  BY PairsKept DEF NoSale
<1>2. \A q \in Purchase \ {r} : /\ purchase'[q].status = purchase[q].status
                               /\ PackageOf[purchase'[q].item] = PackageOf[purchase[q].item]
  OBVIOUS
<1>3. PICK g \in Package : g = PackageOf[i]
  BY DEF Package
<1>4. CASE purchase[r].status = "PAID" <=> purchase'[r].status = "PAID"
  <2>1. S' = S
    BY <1>2, <1>4
  <2>2. \A q \in S : PackageOf[purchase'[q].item] = PackageOf[purchase[q].item]
    BY <1>2
  <2>3. UNCHANGED CreditedPairs
    BY <2>1, <2>2 DEF CreditedPairs
  <2> QED
    BY <1>1, <2>3 DEF Sales!book, PaidPairs, BookedPairs, CreditedPairs
<1>5. CASE purchase[r].status # "PAID" /\ purchase'[r].status = "PAID"
  <2>1. S' = S \cup {r} /\ r \notin S
    BY <1>2, <1>5
  <2>2. PackageOf[purchase'[r].item] = g
    BY <1>3
  <2>3. \A q \in S : PackageOf[purchase'[q].item] = PackageOf[purchase[q].item]
    BY <1>2, <2>1
  <2>4. CreditedPairs' = CreditedPairs \cup {<<r, g>>}
    BY <2>1, <2>2, <2>3 DEF CreditedPairs
  <2>5. \A c \in CreditedPairs : c[1] # r
    BY <2>1 DEF CreditedPairs
  <2>6. \E p \in PaidPairs : p[2] = g
    <3>1. PICK o \in Order : Paid(o) /\ order[o].product \in Item
                             /\ PackageOf[order[o].product] = PackageOf[i]
      BY <1>5
    <3>2. <<o, Sold(order[o].product)>> \in PaidPairs /\ Sold(order[o].product) = g
      BY <1>3, <3>1 DEF PaidPairs, Paid, Sold
    <3> QED
      BY <3>2
  <2>7. Sales!Grant(r, g)
    BY <1>1, <2>4, <2>5, <2>6 DEF Sales!Grant, PaidPairs, BookedPairs, CreditedPairs
  <2> QED
    BY <2>7 DEF Sales!Next
<1>6. CASE purchase[r].status = "PAID" /\ purchase'[r].status # "PAID"
  <2>1. S' = S \ {r} /\ r \in S
    BY <1>2, <1>6
  <2>2. \A q \in S \ {r} : PackageOf[purchase'[q].item] = PackageOf[purchase[q].item]
    BY <1>2
  <2>3. PICK c : c = <<r, PackageOf[purchase[r].item]>>
    OBVIOUS
  <2>4. c \in CreditedPairs /\ CreditedPairs' = CreditedPairs \ {c}
    BY <2>1, <2>2, <2>3 DEF CreditedPairs
  <2>5. Sales!Withdraw(c)
    BY <1>1, <2>4 DEF Sales!Withdraw, PaidPairs, BookedPairs, CreditedPairs
  <2> QED
    BY <2>4, <2>5 DEF Sales!Next, CreditedPairs
<1> QED
  BY <1>4, <1>5, <1>6

(* Whichever row a notice, a check, a recovery or a checkout writes. *)
LEMMA PurchasesKeepTheBook ==
  ASSUME Stands, StateMoves, UNCHANGED <<order, booked>>
  PROVE  Sales!Next \/ UNCHANGED Sales!book
<1> USE DEF Stands, TypeOK, PurchasesTypeOK
<1>1. CASE UNCHANGED purchase
  BY <1>1, PairsKept DEF NoSale, Sales!book, PaidPairs, BookedPairs, CreditedPairs
<1>2. ASSUME NEW x \in [status : PurchaseStatus, item : Item, link : Order], Create(x),
             order[x.link].product \in Item, PackageOf[x.item] = PackageOf[order[x.link].product],
             x.status = "PAID" => Paid(x.link)
      PROVE  Sales!Next \/ UNCHANGED Sales!book
  <2>1. PICK r \in Purchase : purchase[r].status = "ABSENT" /\ purchase' = [purchase EXCEPT ![r] = x]
    BY <1>2 DEF Create
  <2>2. purchase'[r] = x /\ \A q \in Purchase \ {r} : purchase'[q] = purchase[q]
    BY <2>1
  <2>3. x.item \in Item /\ x.link \in Order
    OBVIOUS
  <2> QED
    BY <1>2, <2>1, <2>2, <2>3, RowKeepsTheBook
<1>3. ASSUME NEW r \in Purchase, NEW s \in PurchaseStatus \ {"ABSENT"}, NEW y,
             purchase' = [purchase EXCEPT ![r] = y], y.status = s, y.item = purchase[r].item,
             purchase[r].item \in Item, s = "PAID" => Credited(r)
      PROVE  Sales!Next \/ UNCHANGED Sales!book
  <2>1. purchase'[r] = y /\ \A q \in Purchase \ {r} : purchase'[q] = purchase[q]
    BY <1>3
  <2>2. s = "PAID" => \E o \in Order : Paid(o) /\ order[o].product \in Item
                                      /\ PackageOf[order[o].product] = PackageOf[purchase[r].item]
    BY <1>3 DEF Credited, Fits
  <2> QED
    BY <1>3, <2>1, <2>2, RowKeepsTheBook
<1>4. ASSUME NEW r \in Purchase, NEW s \in PurchaseStatus \ {"ABSENT"}, SetStatus(r, s),
             purchase[r].item \in Item, s = "PAID" => Credited(r)
      PROVE  Sales!Next \/ UNCHANGED Sales!book
  <2>1. PICK y : y = [purchase[r] EXCEPT !.status = s]
    OBVIOUS
  <2>2. y.status = s /\ y.item = purchase[r].item
    BY <2>1
  <2>3. purchase' = [purchase EXCEPT ![r] = y]
    BY <1>4, <2>1 DEF SetStatus
  <2> QED
    BY <1>3, <1>4, <2>2, <2>3
<1>5. ASSUME NEW r \in Purchase, NEW o \in Order, NEW s \in PurchaseStatus \ {"ABSENT"}, SetLink(r, o, s),
             Fits(r, o), s = "PAID" => Paid(o)
      PROVE  Sales!Next \/ UNCHANGED Sales!book
  <2>1. PICK y : y = [purchase[r] EXCEPT !.status = s, !.link = o]
    OBVIOUS
  <2>2. y.status = s /\ y.item = purchase[r].item
    BY <2>1
  <2>3. purchase' = [purchase EXCEPT ![r] = y]
    BY <1>5, <2>1 DEF SetLink
  <2>4. purchase[r].item \in Item /\ (s = "PAID" => Credited(r))
    BY <1>5 DEF Fits, Credited
  <2> QED
    BY <1>3, <2>2, <2>3, <2>4
<1> QED
  BY <1>1, <1>2, <1>4, <1>5 DEF StateMoves, PurchasesMove

(* Billing implements the book of sales, for any number of orders, plans,  *)
(* packages, rows and calls: bookings are final and say what was paid, and *)
(* credits are granted for packages that have been paid for.               *)
THEOREM BillingImplementsSalesBook == Spec => ImplementsSalesBook
<1>1. Init => Sales!Init
  <2> SUFFICES ASSUME Init PROVE Sales!Init
    OBVIOUS
  <2>1. /\ \A o \in Order : order[o].status # "COMPLETED"
        /\ \A x \in Reference : booked[x] = None
    BY DEF Init, OrdersInit, NoOrder, SubscriptionsInit
  <2>2. \A r \in Purchase : purchase[r].status # "PAID"
    BY DEF Init, PurchasesInit, NoPurchase
  <2> QED
    BY <2>1, <2>2 DEF Sales!Init
<1>2. Stands /\ Ordered /\ [Next]_vars => [Sales!Next]_(Sales!book)
  <2> SUFFICES ASSUME Stands, Ordered, [Next]_vars
               PROVE  Sales!Next \/ UNCHANGED Sales!book
    OBVIOUS
  <2>1. CASE UNCHANGED vars
    <3>1. UNCHANGED <<order, booked, purchase>>
      BY <2>1 DEF vars, orderVars, subVars
    <3> QED
      BY <3>1, PairsKept DEF NoSale, Sales!book, PaidPairs, BookedPairs, CreditedPairs
  <2>2. CASE Next
    <3>1. StateMoves
      BY <2>2, NextMoves DEF Moved
    <3> QED
      BY <3>1, OneAtATime, OrdersKeepTheBook, BooksKeepTheBook, PurchasesKeepTheBook
  <2> QED
    BY <2>1, <2>2
<1> QED
  BY <1>1, <1>2, AlwaysStands, OrderedAlways, PTL DEF Spec, ImplementsSalesBook, Sales!Spec

=============================================================================

--------------------------- MODULE ReminderPurchases ---------------------------
(***************************************************************************)
(* One group's purchases of reminder packages: checkout, the purchase part *)
(* of a webhook, the synchronisation and the recovery behind the packages  *)
(* page, and the dashboard's reconciliation.  A product of this module is  *)
(* a package with a quantity; rows are numbered as they are created.       *)
(***************************************************************************)
EXTENDS ProviderOrders

CONSTANTS
  Item,         \* packages with the quantity ordered
  PackageOf,    \* [Item -> a package]
  DefaultOf,    \* [package -> Item]: the quantity the catalogue gives it
  MaxRows       \* bound on the rows

Package == {PackageOf[i] : i \in Item}

ASSUME PurchaseAssumption ==
  /\ Item \subseteq Product
  /\ \A g \in Package : DefaultOf[g] \in Item /\ PackageOf[DefaultOf[g]] = g
  /\ MaxRows \in Nat

VARIABLES
  purchase,   \* ReminderPackagePurchase rows, by number
  old         \* orders of packages opened more than 90 days ago

Purchase == 1 .. MaxRows
PurchaseStatus == {"ABSENT", "PENDING", "PAID", "FAILED", "CANCELLED"}
NoPurchase == [status |-> "ABSENT", item |-> None, link |-> None]

PurchasesTypeOK ==
  purchase \in [Purchase -> [status : PurchaseStatus, item : Item \cup {None},
                             link : Order \cup {None}]]

PurchasesInit ==
  /\ purchase = [r \in Purchase |-> NoPurchase]
  /\ old = {}

-----------------------------------------------------------------------------

(* The status a provider's answer stands for: an order that is still open  *)
(* counts as failed.                                                       *)
StatusOf(a) ==
  CASE a = "active" -> "PAID"
    [] a = "cancelled" -> "CANCELLED"
    [] OTHER -> "FAILED"

(* The status a notice stands for. *)
StatusOfNotice(s) ==
  CASE s = "COMPLETED" -> "PAID"
    [] s = "CANCELLED" -> "CANCELLED"
    [] OTHER -> "FAILED"

NewestOf(S) == IF S = {} THEN 0 ELSE CHOOSE r \in S : \A q \in S : q <= r

Pending(r) == purchase[r].status = "PENDING"
LinkedTo(o) == {r \in Purchase : purchase[r].link = o}

Create(x) ==
  \E r \in Purchase :
    /\ purchase[r].status = "ABSENT" /\ \A q \in 1 .. r - 1 : purchase[q].status # "ABSENT"
    /\ purchase' = [purchase EXCEPT ![r] = x]

SetStatus(r, s) == purchase' = [purchase EXCEPT ![r].status = s]
SetLink(r, o, s) == purchase' = [purchase EXCEPT ![r].status = s, ![r].link = o]

-----------------------------------------------------------------------------
(* Checkout: the order first, its row afterwards. *)

BuyOrders(h) ==
  /\ hand[h].at = "IN" /\ <<h, "BUY">> \in Calls
  /\ \E i \in Item, o \in Order :
       /\ Open(o, i)
       /\ Goes(h, [Idle EXCEPT !.at = "CREATE", !.product = i, !.order = o])
  /\ UNCHANGED purchase

BuyCreates(h) ==
  /\ hand[h].at = "CREATE"
  /\ Create([status |-> "PENDING", item |-> hand[h].product, link |-> hand[h].order])
  /\ Ends(h)
  /\ UNCHANGED orderVars

-----------------------------------------------------------------------------
(* The purchase part of a webhook. *)

(* The row linked to the order, or else the newest pending one of its package. *)
FindPurchase(h) ==
  LET o == hand[h].order
      byReference == NewestOf({r \in Purchase : /\ Pending(r)
                                                /\ order[o].product \in Item
                                                /\ PackageOf[purchase[r].item]
                                                     = PackageOf[order[o].product]})
      found == IF LinkedTo(o) # {} THEN LinkedTo(o) ELSE {byReference} \ {0}
  IN /\ hand[h].at = "PURCHASE"
     /\ IF hand[h].status = "PENDING" \/ found = {}
          THEN Goes(h, [hand[h] EXCEPT !.at = "FIND"])
          ELSE \E r \in found : Goes(h, [hand[h] EXCEPT !.at = "SETTLE", !.row = r])
     /\ UNCHANGED <<orderVars, purchase>>

(* The row takes the notice's status whatever it was, and its order. *)
SettlePurchase(h) ==
  /\ hand[h].at = "SETTLE"
  /\ SetLink(hand[h].row, hand[h].order, StatusOfNotice(hand[h].status))
  /\ Goes(h, [hand[h] EXCEPT !.at = "FIND", !.row = 0])
  /\ UNCHANGED orderVars

-----------------------------------------------------------------------------
(* The packages page: the pending rows are compared with the provider, then *)
(* the provider's completed orders with the rows.  Each batch runs at once. *)

PageReads(h) ==
  /\ hand[h].at = "IN" /\ <<h, "PAGE">> \in Calls
  /\ Goes(h, [Idle EXCEPT !.at = "CHECK",
                          !.todo = {<<r, purchase[r].link>> :
                                      r \in {q \in Purchase : /\ Pending(q)
                                                              /\ purchase[q].link # None}}])
  /\ UNCHANGED <<orderVars, purchase>>

CheckAsks(h) ==
  /\ hand[h].at = "CHECK"
  /\ \E x \in hand[h].todo :
       LET found == <<x[1], x[2], StatusOf(ProviderStatus(x[2]))>>
       IN Goes(h, [hand[h] EXCEPT !.todo = @ \ {x}, !.found = @ \cup {found}])
  /\ UNCHANGED <<orderVars, purchase>>

(* Without an answer the row keeps its status. *)
CheckSilent(h) ==
  /\ hand[h].at = "CHECK"
  /\ OneMoreLost
  /\ \E x \in hand[h].todo : Goes(h, [hand[h] EXCEPT !.todo = @ \ {x}])
  /\ UNCHANGED purchase

CheckWrites(h) ==
  /\ hand[h].at = "CHECK"
  /\ \E x \in hand[h].found :
       /\ SetStatus(x[1], x[3])
       /\ Goes(h, [hand[h] EXCEPT !.found = @ \ {x}])
  /\ UNCHANGED orderVars

(* Mutation: an order that has a row already is taken as dealt with. *)
RecoverableUnlinked(o) ==
  order[o].status = "COMPLETED" /\ o \notin old /\ order[o].product \in Item /\ LinkedTo(o) = {}

(* The completed orders of packages among those the provider lists for the *)
(* last 90 days.                                                           *)
Recoverable(o) ==
  order[o].status = "COMPLETED" /\ o \notin old /\ order[o].product \in Item

RecoverLists(h) ==
  /\ hand[h].at = "CHECK" /\ hand[h].todo = {} /\ hand[h].found = {}
  /\ Goes(h, [Idle EXCEPT !.at = "RECOVER", !.todo = {0} \X {o \in Order : Recoverable(o)}])
  /\ UNCHANGED <<orderVars, purchase>>

(* The newest row that is linked to the order, or pending for the same amount. *)
RecoverFinds(h) ==
  /\ hand[h].at = "RECOVER"
  /\ \E x \in hand[h].todo :
       LET o == x[2]
           found == NewestOf(LinkedTo(o) \cup
                             {r \in Purchase : Pending(r) /\ purchase[r].item = order[o].product})
       IN Goes(h, [hand[h] EXCEPT !.todo = @ \ {x}, !.found = @ \cup {<<found, o, "PAID">>}])
  /\ UNCHANGED <<orderVars, purchase>>

(* A new row gets the catalogue's quantity, whatever was ordered. *)
RecoverWrites(h) ==
  /\ hand[h].at = "RECOVER"
  /\ \E x \in hand[h].found :
       /\ IF x[1] = 0
            THEN Create([status |-> x[3], link |-> x[2],
                         item |-> DefaultOf[PackageOf[order[x[2]].product]]])
            ELSE SetLink(x[1], x[2], x[3])
       /\ Goes(h, [hand[h] EXCEPT !.found = @ \ {x}])
  /\ UNCHANGED orderVars

(* A paid order leaves the 90 days, from its opening, that the platform     *)
(* lists; the age of any other order makes no difference.                  *)
Ages(o) ==
  /\ order[o].status = "COMPLETED" /\ order[o].product \in Item
  /\ old' = old \cup {o}

PageEnds(h) ==
  /\ hand[h].at = "RECOVER" /\ hand[h].todo = {} /\ hand[h].found = {}
  /\ Ends(h)
  /\ UNCHANGED <<orderVars, purchase>>

-----------------------------------------------------------------------------
(* The purchases' part of the dashboard's reconciliation, row by row. *)

ReconcilePurchase(h) ==
  /\ IsFree(h, "RECONCILE")
  /\ \E r \in Purchase :
       /\ Pending(r) /\ purchase[r].link # None
       /\ Goes(h, [Idle EXCEPT !.at = "COMPARE_ROW", !.row = r, !.order = purchase[r].link])
  /\ UNCHANGED <<orderVars, purchase>>

ReconcileAsks(h) ==
  /\ hand[h].at = "COMPARE_ROW"
  /\ IF ProviderStatus(hand[h].order) = "active"
       THEN Goes(h, [hand[h] EXCEPT !.at = "PAY_ROW", !.order = None])
       ELSE Ends(h)
  /\ UNCHANGED <<orderVars, purchase>>

ReconcilePays(h) ==
  /\ hand[h].at = "PAY_ROW"
  /\ SetStatus(hand[h].row, "PAID")
  /\ Ends(h)
  /\ UNCHANGED orderVars

PurchaseStep(h) ==
  \/ BuyOrders(h) \/ BuyCreates(h) \/ FindPurchase(h) \/ SettlePurchase(h)
  \/ PageReads(h) \/ CheckAsks(h) \/ CheckSilent(h) \/ CheckWrites(h)
  \/ RecoverLists(h) \/ RecoverFinds(h) \/ RecoverWrites(h) \/ PageEnds(h)
  \/ ReconcilePurchase(h) \/ ReconcileAsks(h) \/ ReconcilePays(h)

=============================================================================

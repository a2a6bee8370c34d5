-------------------------------- MODULE Billing --------------------------------
(***************************************************************************)
(* The group's payments to the platform: subscriptions and reminder        *)
(* packages over the same provider.  A webhook settles a purchase, then a  *)
(* subscription; a purchase can only be made by a group that has access.   *)
(***************************************************************************)
EXTENDS Subscriptions, ReminderPurchases

ASSUME BillingAssumption ==
  /\ Product = Plan \cup Item
  /\ Plan \cap Item = {}
  /\ Calls \subseteq Handler \X {"CHECKOUT", "WEBHOOK", "REQUEST", "VIEW", "CANCEL", "RESUME",
                                 "RECONCILE", "BUY", "PAGE"}

vars == <<orderVars, hand, subVars, purchase, old>>

At == {"IDLE", "IN", "PURCHASE", "MARK",
       "TRIAL", "ORDER", "LINK", "FIND", "WRITE", "BOOK", "ASK", "ASK_VIEW", "SYNC", "SYNC_VIEW",
       "DELETE", "STATE", "COMPARE", "ADOPT", "RECORD",
       "CREATE", "SETTLE", "CHECK", "RECOVER", "COMPARE_ROW", "PAY_ROW"}

Hand ==
  [at : At, product : Product \cup {None}, order : Order \cup {None},
   status : OrderStatus \cup Answer \cup {None}, ends : Date, flag : BOOLEAN,
   link : Order \cup {None}, row : Purchase \cup {0}, todo : SUBSET ((Purchase \cup {0}) \X Order),
   found : SUBSET ((Purchase \cup {0}) \X Order \X PurchaseStatus)]

TypeOK ==
  /\ OrdersTypeOK /\ SubscriptionsTypeOK /\ PurchasesTypeOK /\ old \subseteq Order
  /\ hand \in [Handler -> Hand]

Init == OrdersInit /\ SubscriptionsInit /\ PurchasesInit

Step(h) ==
  \/ SubscriptionStep(h) /\ UNCHANGED purchase
  \/ PurchaseStep(h) /\ UNCHANGED subVars
  \/ (Deliver(h) \/ WebhookMarks(h)) /\ UNCHANGED <<subVars, purchase>>

OrdersAge ==
  (\E o \in Order \ old : Ages(o)) /\ UNCHANGED <<orderVars, hand, subVars, purchase>>

Next ==
  \/ (ProviderStep \/ \E h \in Handler : Lose(h)) /\ UNCHANGED <<subVars, purchase, old>>
  \/ Tick /\ UNCHANGED <<purchase, old>>
  \/ \E h \in Handler : Step(h) /\ UNCHANGED old
  \/ OrdersAge

Spec == Init /\ [][Next]_vars

(* A call that has begun goes on unless it is lost, and only MaxLost are.   *)
(* The group is used and its packages page opened again and again, and so  *)
(* is the dashboard.  Nothing makes the provider deliver a notice.          *)
Fairness ==
  /\ \A h \in Handler : WF_vars(hand[h].at # "IDLE" /\ Step(h) /\ UNCHANGED old)
  /\ SF_vars(\E h \in Handler : Request(h) /\ UNCHANGED <<purchase, old>>)
  /\ SF_vars(\E h \in Handler : PageReads(h) /\ UNCHANGED <<subVars, old>>)
  /\ SF_vars(\E h \in Handler : Reconcile(h) /\ UNCHANGED <<purchase, old>>)

FairSpec == Spec /\ Fairness

-----------------------------------------------------------------------------
(* Properties. *)

PaidFor(p) == \E o \in Order : order[o].product = p /\ order[o].status = "COMPLETED"

(* A transaction is booked for an order the customer has paid, on the plan *)
(* it was opened for: neither a late, repeated or unnamed notice nor the   *)
(* reconciliation, which act on links read earlier, books anything else.   *)
BookedAsPaid ==
  \A x \in Reference : booked[x] # None =>
    order[x[1]].status = "COMPLETED" /\ order[x[1]].product = booked[x]

(* A paid plan that gives no access starts to give it only when one of its *)
(* orders has been paid, when it is resumed (which asks nobody), or when a *)
(* late notice of a cancellation gives back the period the row still has.  *)
AccessFollowsPayment ==
  [][\A p \in Plan :
       ~HasPaidFeatureAccess(sub[p]) /\ HasPaidFeatureAccess(sub[p])'
         => \/ PaidFor(p)
            \/ \E h \in Handler : hand[h].at = "STATE" /\ hand[h].product = p
            \/ sub'[p].state = "CANCELLED" /\ sub'[p].ends = sub[p].ends]_vars

(* Credits are never given for a package nobody has paid for: whichever    *)
(* row a notice, a check or a recovery falls on, it is of that package.    *)
CreditsNeedPayment ==
  \A r \in Purchase : purchase[r].status = "PAID" =>
    \E o \in Order : /\ order[o].status = "COMPLETED"
                     /\ order[o].product \in Item
                     /\ PackageOf[order[o].product] = PackageOf[purchase[r].item]

(* What an order sells: its plan, or the package its item is a quantity of. *)
Sold(p) == IF p \in Item THEN PackageOf[p] ELSE p

(* Billing keeps a book of sales: a booking says what its order has paid   *)
(* and stays as it is, and no row gets credits for another package than it *)
(* is of, or for one that nobody has paid for.                             *)
Sales == INSTANCE SalesBook WITH
  Sale <- Order,
  Thing <- Plan \cup Package,
  Entry <- Purchase,
  paid <- {<<o, Sold(order[o].product)>> : o \in {q \in Order : order[q].status = "COMPLETED"}},
  booked <- {<<x[1], booked[x]>> : x \in {y \in Reference : booked[y] # None}},
  credited <- {<<r, PackageOf[purchase[r].item]>> :
                 r \in {q \in Purchase : purchase[q].status = "PAID"}}

ImplementsSalesBook == Sales!Spec

(* A paid order is not forgotten because of a late FAILED notice or a      *)
(* synchronisation that was lost: while it is linked to the row the group  *)
(* goes by, access comes back.                                             *)
PaidAccessIsRestored ==
  \A p \in Plan, o \in Order :
    recent = p /\ sub[p].link = o /\ order[o].status = "COMPLETED"
      ~> HasPaidFeatureAccess(sub[p]) \/ recent # p \/ sub[p].link # o

(* A paid package is credited though its webhook never came, its row was   *)
(* never written, or its row was marked as failed while the order was      *)
(* open: for as long as the group has access to its pages, and the order   *)
(* is not older than the 90 days the platform asks the provider for.       *)
PaidPackagesAreCredited ==
  \A o \in Order :
    order[o].status = "COMPLETED" /\ order[o].product \in Item
      ~> \/ \E r \in LinkedTo(o) : purchase[r].status = "PAID"
         \/ recent = None \/ ~HasPaidFeatureAccess(sub[recent])
         \/ o \in old

=============================================================================

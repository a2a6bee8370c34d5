----------------------------- MODULE Subscriptions -----------------------------
(***************************************************************************)
(* One group's platform subscriptions, a row per plan (the id of a row is  *)
(* `${groupId}:${plan.id}`): checkout, the subscription part of a webhook, *)
(* the synchronisation every group request makes first, cancel, resume and *)
(* the admin dashboard's reconciliation.                                   *)
(***************************************************************************)
EXTENDS ProviderOrders

CONSTANTS
  Plan,         \* plans with a price
  Starter,      \* the free starter plan
  UsedStarter,  \* TRUE where the owner has used starter access in another group
  Interval,     \* length of a paid period
  ProviderYear, \* the 365 days the provider adapter reports for any order
  Trial,        \* length of a trial
  MaxTime       \* bound on the clock

ASSUME SubscriptionAssumption ==
  /\ Plan \subseteq Product
  /\ Starter \notin Product /\ Starter # None
  /\ UsedStarter \in BOOLEAN
  /\ Interval \in Nat \ {0} /\ ProviderYear \in Nat \ {0} /\ Trial \in Nat \ {0}
  /\ MaxTime \in Nat

VARIABLES
  now,      \* the date
  sub,      \* Subscription rows, by plan
  newest,   \* the row created last
  recent,   \* the row updated last
  booked    \* BillingTransaction rows: the plan booked on, by reference

rows == <<sub, newest, recent>>
subVars == <<now, rows, booked>>

Offer == Plan \cup {Starter}
State == {"ABSENT", "TRIAL", "ACTIVE", "PAST_DUE", "CANCELLED", "EXPIRED"}
Date == Nat \cup {None}

(* BillingTransaction.providerTransactionId: the id of an order, or the     *)
(* reference of its payment where a notice does not give that id.          *)
Reference == Order \X {"ORDER", "PAYMENT"}

Row == [state : State, ends : Date, link : Order \cup {None}]
NoRow == [state |-> "ABSENT", ends |-> None, link |-> None]

SubscriptionsTypeOK ==
  /\ now \in Nat
  /\ sub \in [Offer -> Row]
  /\ newest \in Offer \cup {None} /\ recent \in Offer \cup {None}
  /\ booked \in [Reference -> Plan \cup {None}]

(* What createGroup leaves: no subscription, a starter trial, or a copy of *)
(* the plan that covers the owner's other groups.                          *)
FirstRow(p) ==
  IF p = Starter THEN [NoRow EXCEPT !.state = "TRIAL", !.ends = Trial]
                 ELSE [NoRow EXCEPT !.state = "ACTIVE", !.ends = Interval]

SubscriptionsInit ==
  /\ now = 0
  /\ \E p \in Offer \cup {None} :
       /\ sub = [q \in Offer |-> IF q = p THEN FirstRow(p) ELSE NoRow]
       /\ newest = p /\ recent = p
  /\ booked = [x \in Reference |-> None]

-----------------------------------------------------------------------------

(* common/subscriptions/subscription-access.policy.ts *)
HasPaidFeatureAccess(r) ==
  \/ r.state = "ACTIVE" /\ (r.ends = None \/ r.ends > now)
  \/ r.state \in {"TRIAL", "CANCELLED"} /\ r.ends # None /\ r.ends > now

(* The state a provider's answer stands for. *)
StateOf(a) ==
  CASE a = "active" -> "ACTIVE"
    [] a = "cancelled" -> "CANCELLED"
    [] a = "expired" -> "EXPIRED"
    [] OTHER -> "PAST_DUE"

(* The state a notice stands for. *)
StateOfNotice(s) ==
  CASE s = "COMPLETED" -> "ACTIVE"
    [] s = "CANCELLED" -> "CANCELLED"
    [] s = "EXPIRED" -> "EXPIRED"
    [] OTHER -> "PAST_DUE"

(* Writing a row makes it the one updated last, and the newest if it is new. *)
Write(p, r) ==
  /\ sub' = [sub EXCEPT ![p] = r]
  /\ newest' = IF sub[p].state = "ABSENT" THEN p ELSE newest
  /\ recent' = p

Book(x, p) == booked' = IF booked[x] = None THEN [booked EXCEPT ![x] = p] ELSE booked
HasTransaction(p) == \E x \in Reference : booked[x] = p

(* A request that is admitted goes on to what it came for. *)
GoesOn(h, admitted) ==
  Goes(h, IF admitted /\ \E c \in {"BUY", "PAGE"} : <<h, c>> \in Calls
            THEN [Idle EXCEPT !.at = "IN"] ELSE Idle)

-----------------------------------------------------------------------------
(* Checkout. *)

(* Starter access: once per group, and only for the owner's first group. *)
CheckoutStarter(h) ==
  /\ IsFree(h, "CHECKOUT")
  /\ ~UsedStarter /\ \A p \in Offer : sub[p].state = "ABSENT"
  /\ Goes(h, [Idle EXCEPT !.at = "TRIAL"])
  /\ UNCHANGED <<orderVars, subVars>>

StartTrial(h) ==
  /\ hand[h].at = "TRIAL"
  /\ Write(Starter, [sub[Starter] EXCEPT !.state = "TRIAL", !.ends = now + Trial])
  /\ Ends(h)
  /\ UNCHANGED <<orderVars, now, booked>>

(* A paid plan's row is created or reset before the order is opened... *)
CheckoutResets(h) ==
  /\ IsFree(h, "CHECKOUT")
  /\ \E p \in Plan :
       /\ Write(p, [sub[p] EXCEPT !.state = "PAST_DUE", !.ends = None])
       /\ Goes(h, [Idle EXCEPT !.at = "ORDER", !.product = p])
  /\ UNCHANGED <<orderVars, now, booked>>

CheckoutOrders(h) ==
  /\ hand[h].at = "ORDER"
  /\ \E o \in Order :
       /\ Open(o, hand[h].product)
       /\ Goes(h, [hand[h] EXCEPT !.at = "LINK", !.order = o])
  /\ UNCHANGED subVars

(* The provider refuses the order; the row stays reset. *)
CheckoutRefused(h) ==
  /\ hand[h].at = "ORDER"
  /\ Ends(h)
  /\ UNCHANGED <<orderVars, subVars>>

(* ... and linked to it afterwards. *)
CheckoutLinks(h) ==
  /\ hand[h].at = "LINK"
  /\ Write(hand[h].product, [state |-> "PAST_DUE", ends |-> None, link |-> hand[h].order])
  /\ Ends(h)
  /\ UNCHANGED <<orderVars, now, booked>>

-----------------------------------------------------------------------------
(* The subscription part of a webhook. *)

(* The row linked to the notice's order, or, where the notice does not name *)
(* the order, the row of the plan its reference names.  A notice of a       *)
(* pending order means nothing.                                             *)
RowsOf(o, unnamed) ==
  {p \in Plan : IF unnamed THEN p = order[o].product /\ sub[p].state # "ABSENT"
                           ELSE sub[p].link = o}

FindRow(h) ==
  LET found == RowsOf(hand[h].order, hand[h].flag)
  IN /\ hand[h].at = "FIND"
     /\ IF hand[h].status = "PENDING" \/ found = {}
          THEN Goes(h, [hand[h] EXCEPT !.at = "MARK"])
          ELSE \E p \in found :
                 Goes(h, [hand[h] EXCEPT !.at = "WRITE", !.product = p,
                            !.link = IF hand[h].flag THEN sub[p].link ELSE hand[h].order])
     /\ UNCHANGED <<orderVars, subVars>>

(* Mutation: every notice about the linked order counts as its payment. *)
WebhookWritesPaid(h) ==
  /\ hand[h].at = "WRITE"
  /\ Write(hand[h].product,
           [state |-> "ACTIVE", ends |-> now + Interval, link |-> hand[h].link])
  /\ Goes(h, [hand[h] EXCEPT !.at = "BOOK", !.link = None])
  /\ UNCHANGED <<orderVars, now, booked>>

(* The row takes the notice's state whatever it was, and its order, or the  *)
(* link that was read with it.                                              *)
WebhookWrites(h) ==
  LET paid == hand[h].status = "COMPLETED"
      p == hand[h].product
  IN /\ hand[h].at = "WRITE"
     /\ Write(p, [state |-> StateOfNotice(hand[h].status),
                  ends |-> IF paid THEN now + Interval ELSE sub[p].ends,
                  link |-> hand[h].link])
     /\ Goes(h, IF paid THEN [hand[h] EXCEPT !.at = "BOOK", !.link = None]
                        ELSE [hand[h] EXCEPT !.at = "MARK", !.link = None, !.product = None])
     /\ UNCHANGED <<orderVars, now, booked>>

(* Where neither the order nor a reference of the payment is given, nothing *)
(* is booked.                                                               *)
WebhookBooks(h) ==
  /\ hand[h].at = "BOOK"
  /\ \/ Book(<<hand[h].order, IF hand[h].flag THEN "PAYMENT" ELSE "ORDER">>, hand[h].product)
     \/ hand[h].flag /\ UNCHANGED booked
  /\ Goes(h, [hand[h] EXCEPT !.at = "MARK", !.product = None])
  /\ UNCHANGED <<orderVars, now, rows>>

-----------------------------------------------------------------------------
(* Synchronisation. *)

(* requireMembership looks at the row updated last, whatever its state; a  *)
(* row with no order is taken as it is.                                    *)
Request(h) ==
  /\ IsFree(h, "REQUEST")
  /\ recent # None
  /\ LET r == sub[recent]
     IN IF r.link = None
          THEN HasPaidFeatureAccess(r) /\ GoesOn(h, TRUE)
          ELSE Goes(h, [Idle EXCEPT !.at = "ASK", !.product = recent, !.order = r.link,
                                    !.flag = HasPaidFeatureAccess(r)])
  /\ UNCHANGED <<orderVars, subVars>>

(* getGroupSubscription looks at the newest row and trusts an ACTIVE one. *)
View(h) ==
  /\ IsFree(h, "VIEW")
  /\ newest # None /\ sub[newest].link # None /\ sub[newest].state # "ACTIVE"
  /\ Goes(h, [Idle EXCEPT !.at = "ASK_VIEW", !.product = newest, !.order = sub[newest].link])
  /\ UNCHANGED <<orderVars, subVars>>

ProviderAnswers(h) ==
  /\ hand[h].at \in {"ASK", "ASK_VIEW"}
  /\ Goes(h, [Idle EXCEPT !.at = IF hand[h].at = "ASK" THEN "SYNC" ELSE "SYNC_VIEW",
                          !.product = hand[h].product,
                          !.status = ProviderStatus(hand[h].order)])
  /\ UNCHANGED <<orderVars, subVars>>

(* Without an answer the row counts as it was read. *)
ProviderSilent(h) ==
  /\ hand[h].at = "ASK"
  /\ OneMoreLost
  /\ GoesOn(h, hand[h].flag)
  /\ UNCHANGED subVars

(* The answer is written by id; a period of the plan starts at each write. *)
SyncWrites(h) ==
  LET p == hand[h].product
      paid == StateOf(hand[h].status) = "ACTIVE"
  IN /\ hand[h].at \in {"SYNC", "SYNC_VIEW"}
     /\ Write(p, [sub[p] EXCEPT !.state = StateOf(hand[h].status),
                                !.ends = IF paid THEN now + Interval ELSE None])
     /\ IF hand[h].at = "SYNC" THEN GoesOn(h, paid) ELSE Ends(h)
     /\ UNCHANGED <<orderVars, now, booked>>

-----------------------------------------------------------------------------
(* Cancel and resume act on the newest row. *)

Cancel(h) ==
  /\ IsFree(h, "CANCEL")
  /\ newest # None /\ sub[newest].link # None
  /\ Goes(h, [Idle EXCEPT !.at = "DELETE", !.product = newest, !.order = sub[newest].link])
  /\ UNCHANGED <<orderVars, subVars>>

(* The adapter reports a paid order as active, anything else as ended long ago. *)
ProviderCancels(h) ==
  LET paid == order[hand[h].order].status = "COMPLETED"
  IN /\ hand[h].at = "DELETE"
     /\ Delete(hand[h].order)
     /\ Goes(h, [hand[h] EXCEPT !.at = "STATE", !.order = None,
                                !.status = IF paid THEN "active" ELSE "cancelled",
                                !.ends = IF paid THEN now + ProviderYear ELSE 0])
     /\ UNCHANGED subVars

(* The adapter reports any order as active. *)
Resume(h) ==
  /\ IsFree(h, "RESUME")
  /\ newest # None /\ sub[newest].link # None
  /\ Goes(h, [Idle EXCEPT !.at = "STATE", !.product = newest, !.status = "active",
                          !.ends = now + ProviderYear, !.flag = TRUE])
  /\ UNCHANGED <<orderVars, subVars>>

StateWrites(h) ==
  LET p == hand[h].product
  IN /\ hand[h].at = "STATE"
     /\ Write(p, [sub[p] EXCEPT !.state = StateOf(hand[h].status), !.ends = hand[h].ends])
     /\ Ends(h)
     /\ UNCHANGED <<orderVars, now, booked>>

-----------------------------------------------------------------------------
(* The subscriptions' part of the dashboard's reconciliation, row by row. *)

Reconcile(h) ==
  /\ IsFree(h, "RECONCILE")
  /\ \E p \in Plan :
       /\ sub[p].link # None /\ ~(sub[p].state = "ACTIVE" /\ HasTransaction(p))
       /\ Goes(h, [Idle EXCEPT !.at = "COMPARE", !.product = p, !.order = sub[p].link,
                               !.flag = ~HasTransaction(p)])
  /\ UNCHANGED <<orderVars, subVars>>

ReconcileAnswers(h) ==
  /\ hand[h].at = "COMPARE"
  /\ IF ProviderStatus(hand[h].order) = "active"
       THEN Goes(h, [hand[h] EXCEPT !.at = "ADOPT", !.ends = now + ProviderYear])
       ELSE Ends(h)
  /\ UNCHANGED <<orderVars, subVars>>

ReconcileWrites(h) ==
  LET p == hand[h].product
  IN /\ hand[h].at = "ADOPT"
     /\ Write(p, [sub[p] EXCEPT !.state = "ACTIVE", !.ends = hand[h].ends])
     /\ IF hand[h].flag THEN Goes(h, [hand[h] EXCEPT !.at = "RECORD", !.ends = None]) ELSE Ends(h)
     /\ UNCHANGED <<orderVars, now, booked>>

ReconcileBooks(h) ==
  /\ hand[h].at = "RECORD"
  /\ Book(<<hand[h].order, "ORDER">>, hand[h].product)
  /\ Ends(h)
  /\ UNCHANGED <<orderVars, now, rows>>

-----------------------------------------------------------------------------

Tick ==
  /\ now < MaxTime
  /\ now' = now + 1
  /\ UNCHANGED <<orderVars, hand, rows, booked>>

SubscriptionStep(h) ==
  \/ CheckoutStarter(h) \/ StartTrial(h)
  \/ CheckoutResets(h) \/ CheckoutOrders(h) \/ CheckoutRefused(h) \/ CheckoutLinks(h)
  \/ FindRow(h) \/ WebhookWrites(h) \/ WebhookBooks(h)
  \/ Request(h) \/ View(h) \/ ProviderAnswers(h) \/ ProviderSilent(h) \/ SyncWrites(h)
  \/ Cancel(h) \/ ProviderCancels(h) \/ Resume(h) \/ StateWrites(h)
  \/ Reconcile(h) \/ ReconcileAnswers(h) \/ ReconcileWrites(h) \/ ReconcileBooks(h)

=============================================================================

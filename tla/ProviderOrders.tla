---------------------------- MODULE ProviderOrders ----------------------------
(***************************************************************************)
(* What the platform's payment provider keeps: the orders a checkout has   *)
(* opened and the notices it sends about them.  The provider is outside    *)
(* the repository; this is what                                            *)
(* apps/api/src/billing/sayari-subscription-billing.provider.ts asks of it *)
(* and makes of its answers.  A notice may be delivered late, several      *)
(* times, in another order, or never: `notice' only grows, and a webhook   *)
(* picks any of it.  Where the provider leaves out the id of the order, the *)
(* notice still carries the reference the order was opened under, which    *)
(* names the group and the product.                                        *)
(*                                                                         *)
(* `hand' holds the API calls in progress, of which Subscriptions and      *)
(* ReminderPurchases model the handlers.  A call is cut where it awaits    *)
(* the database or the provider, and may be lost halfway.                  *)
(***************************************************************************)
EXTENDS Naturals, FiniteSets

CONSTANTS
  MaxOrders,    \* bound on the orders opened
  Product,      \* what can be ordered: access plans or reminder packages
  None,         \* no product, no order, no date
  OwnEventIds,  \* TRUE where a notice carries an id of its own
  Unnamed,      \* TRUE where a notice may lack the id of its order
  Handler,      \* calls in progress
  Calls,        \* the calls each handler may make: pairs of a handler and a name
  MaxLost       \* bound on the calls and answers that are lost

Order == 1 .. MaxOrders
OrderStatus == {"PENDING", "COMPLETED", "FAILED", "CANCELLED", "EXPIRED"}

ASSUME OrderAssumption ==
  /\ MaxOrders \in Nat /\ MaxLost \in Nat
  /\ OwnEventIds \in BOOLEAN /\ Unnamed \in BOOLEAN
  /\ None \notin Product \cup Nat \cup OrderStatus

VARIABLES
  order,       \* [Order -> status and product]
  notice,      \* the statuses the provider has announced, by order
  processed,   \* ids of the BillingEvents whose status is PROCESSED
  lost,        \* calls and answers lost so far
  hand         \* what each call has read and is about to do

orderVars == <<order, notice, processed, lost>>

NoOrder == [status |-> "ABSENT", product |-> None]

Answer == {"active", "cancelled", "expired", "past_due"}

(* A call: what it does next, and what it has read: a product, an order, a *)
(* status, the end of a period, a yes or no, the link of a row, a purchase *)
(* row, and, in the batches of the packages page, the pairs of a row and   *)
(* an order still to look at and what was found about the others.          *)
Idle == [at |-> "IDLE", product |-> None, order |-> None, status |-> None, ends |-> None,
         flag |-> FALSE, link |-> None, row |-> 0, todo |-> {}, found |-> {}]

OrdersTypeOK ==
  /\ order \in [Order -> [status : OrderStatus \cup {"ABSENT"}, product : Product \cup {None}]]
  /\ notice \subseteq Order \X OrderStatus
  /\ processed \subseteq Order \X (OrderStatus \cup {None})
  /\ lost \in 0 .. MaxLost

OrdersInit ==
  /\ order = [o \in Order |-> NoOrder]
  /\ notice = {}
  /\ processed = {}
  /\ lost = 0
  /\ hand = [h \in Handler |-> Idle]

IsFree(h, c) == hand[h].at = "IDLE" /\ <<h, c>> \in Calls
Goes(h, x) == hand' = [hand EXCEPT ![h] = x]
Ends(h) == Goes(h, Idle)

(* BillingEvent.providerEventId: the notice's own id, or else its order's. *)
EventId(o, s) == <<o, IF OwnEventIds THEN s ELSE None>>

OneMoreLost ==
  /\ lost < MaxLost
  /\ lost' = lost + 1
  /\ UNCHANGED <<order, notice, processed>>

(* Orders are numbered in the order they are opened. *)
Unopened(o) == order[o].status = "ABSENT" /\ \A q \in 1 .. o - 1 : order[q].status # "ABSENT"

Open(o, p) ==
  /\ Unopened(o)
  /\ order' = [order EXCEPT ![o] = [status |-> "PENDING", product |-> p]]
  /\ notice' = notice \cup {<<o, "PENDING">>}
  /\ UNCHANGED <<processed, lost>>

Settle(o, s) ==
  /\ order' = [order EXCEPT ![o].status = s]
  /\ notice' = notice \cup {<<o, s>>}
  /\ UNCHANGED <<processed, lost>>

(* The customer confirms on the phone, at the first or at a later attempt. *)
CustomerPays(o) == order[o].status \in {"PENDING", "FAILED"} /\ Settle(o, "COMPLETED")

(* An attempt fails, or the order ends unpaid. *)
PaymentEnds(o) ==
  order[o].status = "PENDING" /\ \E s \in {"FAILED", "CANCELLED", "EXPIRED"} : Settle(o, s)

ProviderStep ==
  UNCHANGED hand /\ \E o \in Order : CustomerPays(o) \/ PaymentEnds(o)

(* Mutation: an order that is still open is reported as paid. *)
ProviderStatusOptimistic(o) ==
  CASE order[o].status \in {"COMPLETED", "PENDING"} -> "active"
    [] order[o].status = "CANCELLED" -> "cancelled"
    [] order[o].status = "EXPIRED" -> "expired"
    [] OTHER -> "past_due"

(* Mutation: the table of statuses lacks the one of a paid order. *)
ProviderStatusIncomplete(o) ==
  CASE order[o].status = "CANCELLED" -> "cancelled"
    [] order[o].status = "EXPIRED" -> "expired"
    [] OTHER -> "past_due"

(* The provider's answer about an order: what is neither paid nor ended is *)
(* past due.                                                               *)
ProviderStatus(o) ==
  CASE order[o].status = "COMPLETED" -> "active"
    [] order[o].status = "CANCELLED" -> "cancelled"
    [] order[o].status = "EXPIRED" -> "expired"
    [] OTHER -> "past_due"

(* Deleting an order ends it unless it has been paid. *)
Delete(o) ==
  IF order[o].status = "PENDING" THEN Settle(o, "CANCELLED") ELSE UNCHANGED orderVars

-----------------------------------------------------------------------------
(* The frame of a webhook: purchases first, then subscriptions. *)

(* A notice whose event is PROCESSED is acknowledged and nothing else.  An *)
(* unnamed one goes by the hash of its text, which differs each time, and  *)
(* is none for the purchases.                                              *)
Deliver(h) ==
  /\ IsFree(h, "WEBHOOK")
  /\ \E n \in notice, unnamed \in {FALSE, Unnamed} :
       /\ unnamed \/ EventId(n[1], n[2]) \notin processed
       /\ Goes(h, [Idle EXCEPT !.at = IF unnamed THEN "FIND" ELSE "PURCHASE",
                               !.order = n[1], !.status = n[2], !.flag = unnamed])
  /\ UNCHANGED orderVars

WebhookMarks(h) ==
  /\ hand[h].at = "MARK"
  /\ processed' = IF hand[h].flag THEN processed
                   ELSE processed \cup {EventId(hand[h].order, hand[h].status)}
  /\ Ends(h)
  /\ UNCHANGED <<order, notice, lost>>

(* A call is lost: the process dies, a query fails, the provider does not   *)
(* answer.  The event of a lost webhook is not PROCESSED.                   *)
Lose(h) ==
  /\ hand[h].at # "IDLE"
  /\ OneMoreLost
  /\ Ends(h)

=============================================================================

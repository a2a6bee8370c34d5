----------------------------- MODULE DuesAccount -----------------------------
(***************************************************************************)
(* What the contribution ledger promises, without review, time, roles or   *)
(* allocations: an account of what is owed and what is paid on every due,  *)
(* in which each payment is closed once, either for nothing or by moving   *)
(* money to dues of one member without exceeding what is owed.             *)
(***************************************************************************)
EXTENDS Integers

CONSTANTS
  Item,       \* the dues of the account
  Holder,     \* the members
  ItemOwner,  \* [Item -> Holder]
  Pay         \* the payments

VARIABLES
  owed,       \* what each due is worth
  paid,       \* what has been paid on it
  closed      \* payments that are decided

account == <<owed, paid, closed>>

Init ==
  /\ owed = [i \in Item |-> 0]
  /\ paid = [i \in Item |-> 0]
  /\ closed = {}

(* A due is assessed anew only while nothing is paid on it. *)
Assess ==
  /\ owed' \in [Item -> Nat]
  /\ \A i \in Item : owed'[i] # owed[i] => paid[i] = 0
  /\ UNCHANGED <<paid, closed>>

(* Payment p moves the amounts a to dues of h. *)
Settle(p, h, a) ==
  /\ p \notin closed
  /\ \A i \in Item : /\ 0 <= a[i] /\ paid[i] + a[i] <= owed[i]
                     /\ a[i] > 0 => ItemOwner[i] = h
  /\ paid' = [i \in Item |-> paid[i] + a[i]]
  /\ closed' = closed \cup {p}
  /\ UNCHANGED owed

(* A payment is refused, or concerns the time before the account. *)
Refuse(p) ==
  /\ p \notin closed
  /\ closed' = closed \cup {p}
  /\ UNCHANGED <<owed, paid>>

Next ==
  \/ Assess
  \/ \E p \in Pay, h \in Holder : Settle(p, h, [i \in Item |-> paid'[i] - paid[i]])
  \/ \E p \in Pay : Refuse(p)

Spec == Init /\ [][Next]_account

=============================================================================

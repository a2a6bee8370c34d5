------------------------------- MODULE SalesBook -------------------------------
(***************************************************************************)
(* What billing promises, without webhooks, checks, links or periods: a    *)
(* sale is paid once and for one thing, its booking says what was paid and *)
(* is never changed, and whatever carries credits does so for a thing that *)
(* somebody has paid for.  Credits may be withdrawn and granted again, and *)
(* one payment may be credited more than once, or booked under two         *)
(* references: billing promises no more.                                   *)
(***************************************************************************)
CONSTANTS
  Sale,    \* what customers may pay for
  Thing,   \* plans and packages
  Entry    \* what may carry credits

VARIABLES
  paid,      \* pairs of a sale and the thing paid for
  booked,    \* the pairs that have been booked
  credited   \* pairs of an entry and the thing it carries credits for

book == <<paid, booked, credited>>

Init == paid = {} /\ booked = {} /\ credited = {}

Pay(s, t) ==
  /\ \A p \in paid : p[1] # s
  /\ paid' = paid \cup {<<s, t>>}
  /\ UNCHANGED <<booked, credited>>

Book(p) ==
  /\ p \in paid \ booked
  /\ booked' = booked \cup {p}
  /\ UNCHANGED <<paid, credited>>

Grant(e, t) ==
  /\ \E p \in paid : p[2] = t
  /\ \A c \in credited : c[1] # e
  /\ credited' = credited \cup {<<e, t>>}
  /\ UNCHANGED <<paid, booked>>

Withdraw(c) ==
  /\ c \in credited
  /\ credited' = credited \ {c}
  /\ UNCHANGED <<paid, booked>>

Next ==
  \/ \E s \in Sale, t \in Thing : Pay(s, t)
  \/ \E p \in paid : Book(p)
  \/ \E e \in Entry, t \in Thing : Grant(e, t)
  \/ \E c \in credited : Withdraw(c)

Spec == Init /\ [][Next]_book

=============================================================================

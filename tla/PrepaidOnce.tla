----------------------------- MODULE PrepaidOnce -----------------------------
(***************************************************************************)
(* What reminder dispatch promises: texts are paid for in advance, each is *)
(* charged once and sent at most once, and never without being charged.    *)
(***************************************************************************)
EXTENDS Naturals

CONSTANTS
  Text,     \* the texts that may be sent
  Price     \* [SUBSET Text -> Nat]: what texts cost together

VARIABLES
  bought,   \* credits bought so far
  charged,  \* texts that have been charged
  sent      \* [Text -> Nat]: how often the provider has accepted each

prepaid == <<bought, charged, sent>>

Init == bought = 0 /\ charged = {} /\ sent = [t \in Text |-> 0]

Buy == bought' > bought /\ UNCHANGED <<charged, sent>>

Charge(t) ==
  /\ t \notin charged
  /\ Price[charged \cup {t}] <= bought
  /\ charged' = charged \cup {t}
  /\ UNCHANGED <<bought, sent>>

Deliver(t) ==
  /\ t \in charged /\ sent[t] = 0
  /\ sent' = [sent EXCEPT ![t] = 1]
  /\ UNCHANGED <<bought, charged>>

Next == Buy \/ \E t \in Text : Charge(t) \/ Deliver(t)

Spec == Init /\ [][Next]_prepaid

=============================================================================

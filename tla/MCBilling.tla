------------------------------- MODULE MCBilling -------------------------------
(* Small instances of Billing for TLC. *)
EXTENDS Billing, TLC

CONSTANTS h1, h2, k1

TwoCalls == {h1} \X {"CHECKOUT", "REQUEST", "VIEW", "BUY", "PAGE"}
              \cup {h2} \X {"WEBHOOK", "RECONCILE", "CANCEL", "RESUME"}
OnePackage == k1 :> "g1"
OneDefault == "g1" :> k1

=============================================================================

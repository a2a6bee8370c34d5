-------------------------- MODULE MCReminderDispatch --------------------------
(* Small instances of ReminderDispatch for TLC. *)
EXTENDS ReminderDispatch, TLC

CONSTANTS s1, m1, m2, m3, o1, g1, g2, w1, w2

(* One scheduled text, credits for two. *)
OneScheduled == {s1}
Today == s1 :> 0
OneDue == s1 :> o1
Costs == s1 :> 1
SmsOnly == s1 :> "SMS"
OnePackage == g1 :> 2
Sms == g1 :> "SMS"
NoDispatch == {}

(* Three manual texts that need one credit more than two packages hold. *)
NoDays == <<>>
ManualCosts == m1 :> 1 @@ m2 :> 1 @@ m3 :> 2
ManualChannels == m1 :> "SMS" @@ m2 :> "WHATSAPP" @@ m3 :> "SMS"
Quantities == g1 :> 1 @@ g2 :> 2
SmsAndBoth == g1 :> "SMS" @@ g2 :> "BOTH"
TwoDispatches == {{m1, m2}, {m3}}

AnyFault == Fault
Workers == Permutations({w1, w2})

=============================================================================

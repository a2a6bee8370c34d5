------------------------- MODULE MCContributionLedger -------------------------
(* Small instances of ContributionLedger for TLC, with the calendar its dates
   come from. *)
EXTENDS ContributionLedger, MCContributionCalendar, TLC

CONSTANTS ann, tre, adm, d1, d2, p1, p2, r1

(* Two dues of one ordinary member; admin and treasurer handle the money. *)
OneOwner == d1 :> ann @@ d2 :> ann
TwoDates == d1 :> 0 @@ d2 :> 1
MemberAndOfficers == ann :> "MEMBER" @@ adm :> "GROUP_ADMIN" @@ tre :> "TREASURER"
AnnAndAdmin == ann :> "MEMBER" @@ adm :> "GROUP_ADMIN"

(* One due. *)
AnnOwes == d1 :> ann
TreasurerOwes == d1 :> tre
OneDate == d1 :> 1
TreasurerAndAdmin == tre :> "TREASURER" @@ adm :> "GROUP_ADMIN"

PlanOf1 == [price |-> 1, active |-> TRUE]
PlanOf2 == [price |-> 2, active |-> TRUE]

PartialRule == [allowsPartial |-> TRUE, autoAllocate |-> TRUE, penalties |-> FALSE,
                effectiveAt |-> 0]
PenaltyRule == [allowsPartial |-> FALSE, autoAllocate |-> FALSE, penalties |-> TRUE,
                effectiveAt |-> 0]
PartialOnly == {PartialRule}
PenaltyRules == {PartialRule, PenaltyRule}
NoRules == {}

TreasurerSteps == {<<tre, "MEMBER">>, <<tre, "TREASURER">>}
TreasurerBecomesSecretary == {<<tre, "SECRETARY">>}
NoAssignments == {}

NoCalls == {}
AllCalls == {r1} \X Call

Payments == Permutations({p1, p2})

=============================================================================

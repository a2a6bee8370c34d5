----------------------------- MODULE MCMemberAccess -----------------------------
(* A small instance of MemberAccess for TLC. *)
EXTENDS MemberAccess, TLC

CONSTANTS h1, h2, ann, ben, mail

OneContact == ann :> {} @@ ben :> {mail}
TwoHands == {h1} \X {"ADD", "INVITE", "JOIN", "STATUS", "REQUEST", "CANCEL"}
              \cup {h2} \X {"JOIN", "ASSIGN", "APPROVE", "DELETE"}

=============================================================================

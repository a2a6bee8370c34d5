----------------------------- MODULE MCGroupFunds -----------------------------
(* Small instances of GroupFunds for TLC. *)
EXTENDS GroupFunds, TLC

CONSTANTS ann, tre, adm, s1, s2, s3, s4

AllRoles == ann :> "MEMBER" @@ tre :> "TREASURER" @@ adm :> "GROUP_ADMIN"

(* Who is signed in where. *)
BorrowerAndTwoOfficers == s1 :> ann @@ s2 :> tre @@ s3 :> adm
TreasurerTwice == BorrowerAndTwoOfficers @@ s4 :> tre

(* What they call. *)
LoanHandlers == {"APPLY", "ANSWER", "APPROVE", "REJECT", "REPAY", "VERIFY"}
LoanCalls == Session \X LoanHandlers
PolicyCalls == {s1} \X {"APPLY", "REPAY"} \cup {s2} \X {"ANSWER"}
                 \cup {s3} \X {"APPROVE", "VERIFY", "POLICY"}
ExpenseCalls == {s1} \X {"APPLY", "REPAY"}
                  \cup {s2} \X {"ANSWER", "APPROVE", "VERIFY", "SPEND"}
                  \cup {s3} \X {"SPEND", "JUDGE"} \cup {s4} \X {"ANSWER"}

(* Half of the principal as interest per month, savings doubled. *)
Plain == [multiplier |-> 20000, rate |-> 5000, fee |-> 0, guarantors |-> 1, term |-> 3]
Dearer == [multiplier |-> 10000, rate |-> 10000, fee |-> 5000, guarantors |-> 0, term |-> 1]
PlainOnly == {Plain}
PlainAndDearer == {Plain, Dearer}

(* Rows of one kind are interchangeable. *)
Rows == Permutations(Application) \cup Permutations(Repayment) \cup Permutations(Expense)

=============================================================================

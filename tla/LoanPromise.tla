----------------------------- MODULE LoanPromise -----------------------------
(***************************************************************************)
(* What the loan book promises, without officers, guarantors, policies or  *)
(* reviews of repayments: a request is answered once, either with a debt   *)
(* of a fixed amount or with a refusal, and a debt is paid off in steps    *)
(* that never exceed it.                                                   *)
(***************************************************************************)
EXTENDS Integers

CONSTANT Wish   \* the requests for a loan

VARIABLES
  answer,   \* "OPEN", "LENT" or "REFUSED", by request
  owed,     \* what the borrower owes in all
  paid      \* what has been paid back

promise == <<answer, owed, paid>>

Init ==
  /\ answer = [w \in Wish |-> "OPEN"]
  /\ owed = [w \in Wish |-> 0]
  /\ paid = [w \in Wish |-> 0]

Lend(w, debt) ==
  /\ answer[w] = "OPEN"
  /\ debt > 0
  /\ answer' = [answer EXCEPT ![w] = "LENT"]
  /\ owed' = [owed EXCEPT ![w] = debt]
  /\ UNCHANGED paid

Refuse(w) ==
  /\ answer[w] = "OPEN"
  /\ answer' = [answer EXCEPT ![w] = "REFUSED"]
  /\ UNCHANGED <<owed, paid>>

PayBack(w, amount) ==
  /\ answer[w] = "LENT"
  /\ amount > 0
  /\ paid[w] + amount <= owed[w]
  /\ paid' = [paid EXCEPT ![w] = @ + amount]
  /\ UNCHANGED <<answer, owed>>

Next ==
  \E w \in Wish : \/ Lend(w, owed'[w])
                  \/ Refuse(w)
                  \/ PayBack(w, paid'[w] - paid[w])

Spec == Init /\ [][Next]_promise

=============================================================================

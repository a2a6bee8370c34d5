----------------------- MODULE ContributionLedgerProofs -----------------------
(***************************************************************************)
(* Proofs about ContributionLedger, for every group, schedule, set of      *)
(* payments, price and amount.  The invariant LedgerInv is the conjunction *)
(* of the properties that are proved and of what makes them inductive: who *)
(* a promise is for, which rows can carry money, what a running review     *)
(* request may still do, and what a running pass of the schedule holds as  *)
(* a draft.                                                                *)
(***************************************************************************)
EXTENDS ContributionLedger, MinorUnitsTheorems

(* A row the schedule has not created holds nothing. *)
AbsentRowsAreBlank ==
  \A s \in Slot : obligation[s].status = "ABSENT" => obligation[s] = AbsentObligation

(* Money, promised or paid, lies only on rows that exist, are due, and belong
   to the member who paid. *)
MoneyOnDueRows ==
  \A p \in Payment, s \in Slot :
    pending[p][s] > 0 \/ applied[p][s] > 0
      => /\ obligation[s].status \in {"DUE", "PARTIALLY_PAID", "PAID"}
         /\ obligation[s].dueAt <= now
         /\ OwnerOf(s) = payment[p].member

(* PENDING allocations exist only before, APPLIED ones only after approval. *)
AllocationsFollowStatus ==
  \A p \in Payment :
    /\ payment[p].status # "ABSENT" => payment[p].member \in Member
    /\ payment[p].status \in {"ABSENT", "APPROVED"} => pending[p] = Nothing
    /\ payment[p].status # "APPROVED" => applied[p] = Nothing

(* What a running handler remembers. *)
RequestsAreSound ==
  \A m \in Member :
    /\ request[m].op = "RECORD" => request[m].payer \in Member
    /\ request[m].op = "IMPORT" =>
         /\ request[m].payment \in Payment
         /\ payment[request[m].payment].status = "APPROVED"
    /\ request[m].op \in {"APPROVE", "REJECT", "CORRECT", "WRITE_REJECT", "WRITE_CORRECT"} =>
         /\ request[m].payment \in Payment
         /\ payment[request[m].payment].status # "ABSENT"
    /\ request[m].op \in {"WRITE_REJECT", "WRITE_CORRECT"} => request[m].seen \in Reviewable

(* Money can be paid only on rows that have fallen due. *)
DueRowsAreDue ==
  \A s \in Slot : obligation[s].status \in {"DUE", "PARTIALLY_PAID", "PAID"}
                    => obligation[s].dueAt <= now

(* What a running pass holds: only a join has drafts, and there is a rule to
   penalise by. *)
PassIsSound(q) ==
  /\ q.call # "JOIN" => q.draft = NoRows
  /\ q.at = "FIND_LATE" => q.rule.penalties
  /\ q.at = "PENALISE" /\ q.todo # {} => q.rule.penalties

PassesAreSound == \A r \in Runner : PassIsSound(pass[r])

(* What a statement of the schedule may make of a row o that carries no
   money: a row q that carries none, of the same date. *)
Fresh(o, q) ==
  /\ o.status \in {"ABSENT", "UPCOMING", "WAIVED"}
  /\ q.status \in {"UPCOMING", "DUE", "WAIVED"}
  /\ q.paid = 0
  /\ q.status = "DUE" => q.dueAt <= now
  /\ o.status # "ABSENT" => q.dueAt = o.dueAt

(* Drafts are of rows that carry no money, and no row has two. *)
DraftsAreFresh ==
  \A r \in Runner, s \in Slot :
    HasDraft(r, s) => Fresh(obligation[s], pass[r].draft[s]) /\ Unlocked(r, s)

LedgerInv ==
  /\ TypeOK
  /\ NoOverpayment
  /\ LedgerBalanced
  /\ StatusTellsBalance
  /\ ReceiptsCertifyApprovals
  /\ AbsentRowsAreBlank
  /\ MoneyOnDueRows
  /\ AllocationsFollowStatus
  /\ RequestsAreSound
  /\ DueRowsAreDue
  /\ PassesAreSound
  /\ DraftsAreFresh

-----------------------------------------------------------------------------
(* Facts about the operators. *)

(* What is reserved on a due is a natural number. *)
LEMMA ReservedIsNat ==
  ASSUME NEW s \in Slot
  PROVE  Reserved(s) \in Nat
<1> DEFINE waiting == {p \in Payment : payment[p].status = "PENDING_VERIFICATION"}
<1>1. IsFiniteSet(waiting)
  BY ScheduleAssumption, FS_Subset
<1> QED
  BY <1>1, TotalIsNat DEF Reserved

(* An allocation the code creates touches only dues the member can pay now,
   and fits in each of them. *)
LEMMA AllocationFits ==
  ASSUME TypeOK, NoOverpayment, NEW m, NEW amount, NEW wanted, NEW a \in Allocations(m, amount, wanted)
  PROVE  /\ a \in [Slot -> Minor]
         /\ \A s \in Slot :
              /\ obligation[s].paid + a[s] <= obligation[s].due
              /\ a[s] > 0 => s \in Payable(m)
<1> DEFINE open == {s \in (IF wanted = {} THEN Payable(m) ELSE wanted) : Outstanding(s) > 0}
<1>1. wanted \subseteq Payable(m)
  BY DEF Allocations
<1>2. PICK fill \in Fillings(open, amount) : a = [s \in Slot |-> IF s \in open THEN fill[s] ELSE 0]
  BY DEF Allocations
<1>3. open \subseteq Payable(m) /\ Payable(m) \subseteq Slot
  BY <1>1 DEF Payable
<1>4. fill \in [open -> Minor] /\ \A s \in open : fill[s] <= Outstanding(s)
  BY DEF Fillings
<1>5. 0 \in Minor
  BY MaxMinorAssumption DEF Minor
<1>6. a \in [Slot -> Minor]
  BY <1>2, <1>4, <1>5
<1>7. ASSUME NEW s \in Slot
      PROVE  /\ obligation[s].paid + a[s] <= obligation[s].due
             /\ a[s] > 0 => s \in Payable(m)
  <2>1. obligation[s] \in Obligation /\ obligation[s].paid <= obligation[s].due
    BY DEF TypeOK, NoOverpayment
  <2>2. obligation[s].paid \in Nat /\ obligation[s].due \in Nat
    BY <2>1, MaxMinorAssumption DEF Obligation, Minor
  <2>3. CASE s \in open
    <3>1. a[s] = fill[s] /\ fill[s] \in Nat /\ fill[s] <= Outstanding(s)
      BY <1>2, <1>4, <2>3, MaxMinorAssumption DEF Minor
    <3>2. Outstanding(s) = obligation[s].due - obligation[s].paid - Reserved(s)
      BY DEF Outstanding
    <3>3. Reserved(s) \in Nat
      BY ReservedIsNat
    <3> QED
      BY <1>3, <2>2, <2>3, <3>1, <3>2, <3>3
  <2>4. CASE s \notin open
    BY <1>2, <2>1, <2>2, <2>4
  <2> QED
    BY <2>3, <2>4
<1> QED
  BY <1>6, <1>7

(* Applying amounts that fit adds each of them to what is paid and changes
   nothing else a due is assessed by. *)
LEMMA ApplyAdds ==
  ASSUME TypeOK, NoOverpayment, NEW a \in [Slot -> Minor],
         \A s \in Slot : obligation[s].paid + a[s] <= obligation[s].due,
         Apply(a)
  PROVE  /\ obligation' \in [Slot -> Obligation]
         /\ \A s \in Slot :
              /\ obligation'[s].paid = obligation[s].paid + a[s]
              /\ obligation'[s].due = obligation[s].due
              /\ obligation'[s].dueAt = obligation[s].dueAt
              /\ a[s] = 0 => obligation'[s] = obligation[s]
              /\ a[s] > 0 => obligation'[s].status = StatusFor(obligation[s].due, obligation[s].paid + a[s])
<1>1. ASSUME NEW s \in Slot
      PROVE  /\ obligation'[s] \in Obligation
             /\ obligation'[s].paid = obligation[s].paid + a[s]
             /\ obligation'[s].due = obligation[s].due
             /\ obligation'[s].dueAt = obligation[s].dueAt
             /\ a[s] = 0 => obligation'[s] = obligation[s]
             /\ a[s] > 0 => obligation'[s].status = StatusFor(obligation[s].due, obligation[s].paid + a[s])
  <2>1. obligation[s] \in Obligation
    BY DEF TypeOK
  <2>2. a[s] \in Nat /\ obligation[s].paid \in Nat /\ obligation[s].due \in Minor
    BY <2>1, MaxMinorAssumption DEF Obligation, Minor
  <2>3. CASE a[s] = 0
    <3>1. obligation'[s] = obligation[s]
      BY <2>3 DEF Apply
    <3>2. obligation[s].paid = obligation[s].paid + a[s]
      BY <2>2, <2>3
    <3>3. ~(a[s] > 0)
      BY <2>3
    <3> QED
      BY <2>1, <3>1, <3>2, <3>3
  <2>4. CASE a[s] # 0
    <3> DEFINE st == StatusFor(obligation[s].due, obligation[s].paid + a[s])
    <3>1. obligation'[s] = [obligation[s] EXCEPT !.paid = @ + a[s], !.status = st]
      BY <2>4 DEF Apply
    <3>2. st \in {"PAID", "PARTIALLY_PAID", "DUE"}
      BY DEF StatusFor
    <3>3. obligation[s].paid + a[s] \in Minor
      BY <2>2, MaxMinorAssumption DEF Minor
    <3> QED
      BY <2>1, <2>2, <2>4, <3>1, <3>2, <3>3 DEF Obligation, ObligationStatus
  <2> QED
    BY <2>3, <2>4
<1>2. obligation' = [s \in Slot |-> obligation'[s]]
  BY DEF Apply
<1> QED
  BY <1>1, <1>2

(* What any statement may make of a row: nothing, or a fresh one. *)
Revised(o, q) == q \in Obligation /\ (q = o \/ Fresh(o, q))

(* A row, committed or drafted, that carries money only if it is due. *)
RowIsSound(o) ==
  /\ o \in Obligation
  /\ o.status \in {"DUE", "PARTIALLY_PAID", "PAID"} => o.dueAt <= now
  /\ o.status \in {"ABSENT", "UPCOMING", "WAIVED"} => o.paid = 0

(* Revising a sound row leaves a sound row, and revising it again revises it. *)
LEMMA RevisedAgain ==
  ASSUME NEW o, NEW q, RowIsSound(o), Revised(o, q)
  PROVE  /\ RowIsSound(q)
         /\ \A w : Revised(q, w) => Revised(o, w)
BY DEF RowIsSound, Revised, Fresh

(* What every statement of a pass makes of a row. *)
LEMMA StatementsRevise ==
  ASSUME TypeOK, NEW s \in Slot, NEW o, RowIsSound(o)
  PROVE  /\ Revised(o, Waived(s, o))
         /\ Revised(o, FallenDue(o))
         /\ \A price \in Minor : Revised(o, Repriced(s, o, price))
         /\ \A amount \in Minor, dueAt \in Nat : Revised(o, Created(o, amount, dueAt))
<1>1. /\ o \in Obligation /\ o.dueAt \in Nat /\ now \in Nat
      /\ o.status \in ObligationStatus
  BY DEF RowIsSound, Obligation, TypeOK
<1>2. Untouched(s, o) => o.paid = 0 /\ o.status \notin {"DUE", "PARTIALLY_PAID", "PAID"}
  BY <1>1 DEF Untouched, RowIsSound
<1>3. Revised(o, Waived(s, o))
  <2>1. CASE Waived(s, o) = o
    BY <1>1, <2>1 DEF Revised
  <2>2. CASE o.status # "ABSENT" /\ Untouched(s, o) /\ Waived(s, o) = [o EXCEPT !.status = "WAIVED"]
    <3>1. [o EXCEPT !.status = "WAIVED"] \in Obligation
      BY <1>1 DEF Obligation, ObligationStatus
    <3> QED
      BY <1>1, <1>2, <2>2, <3>1 DEF Revised, Fresh, Obligation, ObligationStatus
  <2> QED
    BY <2>1, <2>2 DEF Waived
<1>4. Revised(o, FallenDue(o))
  <2>1. CASE FallenDue(o) = o
    BY <1>1, <2>1 DEF Revised
  <2>2. CASE o.status = "UPCOMING" /\ o.dueAt <= now /\ FallenDue(o) = [o EXCEPT !.status = "DUE"]
    <3>1. [o EXCEPT !.status = "DUE"] \in Obligation
      BY <1>1 DEF Obligation, ObligationStatus
    <3>2. o.paid = 0
      BY <2>2 DEF RowIsSound
    <3> QED
      BY <1>1, <2>2, <3>1, <3>2 DEF Revised, Fresh, Obligation
  <2> QED
    BY <2>1, <2>2 DEF FallenDue
<1>5. ASSUME NEW price \in Minor
      PROVE  Revised(o, Repriced(s, o, price))
  <2> DEFINE q == [o EXCEPT !.due = price, !.status = IF price = 0 THEN "WAIVED" ELSE @]
  <2>1. CASE Repriced(s, o, price) = o
    BY <1>1, <2>1 DEF Revised
  <2>2. CASE o.status \in {"DUE", "UPCOMING"} /\ Untouched(s, o) /\ Repriced(s, o, price) = q
    <3>1. o.status = "UPCOMING" /\ o.paid = 0
      BY <1>2, <2>2
    <3>2. q \in Obligation /\ q.status \in {"UPCOMING", "WAIVED"} /\ q.paid = 0 /\ q.dueAt = o.dueAt
      BY <1>1, <3>1 DEF Obligation, ObligationStatus
    <3> QED
      BY <2>2, <3>1, <3>2 DEF Revised, Fresh
  <2> QED
    BY <2>1, <2>2 DEF Repriced
<1>6. ASSUME NEW amount \in Minor, NEW dueAt \in Nat
      PROVE  Revised(o, Created(o, amount, dueAt))
  <2>1. CASE o.status # "ABSENT"
    BY <1>1, <2>1 DEF Created, Revised
  <2>2. CASE o.status = "ABSENT"
    <3>1. /\ NewObligation(amount, dueAt) \in Obligation
          /\ NewObligation(amount, dueAt).paid = 0
          /\ NewObligation(amount, dueAt).dueAt = dueAt
          /\ NewObligation(amount, dueAt).status = IF dueAt <= now THEN "DUE" ELSE "UPCOMING"
      BY MaxMinorAssumption DEF NewObligation, Obligation, ObligationStatus, Minor
    <3> QED
      BY <2>2, <3>1 DEF Created, Revised, Fresh
  <2> QED
    BY <2>1, <2>2
<1> QED
  BY <1>3, <1>4, <1>5, <1>6

(* One payment moving the amounts a, which fit and lie on rows that exist:
   the books stay balanced, no due is overpaid and each status tells the
   balance.  Recording and approving a payment are both such a move. *)
LEMMA MoneyMoves ==
  ASSUME TypeOK, NoOverpayment, LedgerBalanced, StatusTellsBalance, AbsentRowsAreBlank,
         NEW p \in Payment, applied[p] = Nothing,
         NEW a \in [Slot -> Minor],
         \A s \in Slot : /\ obligation[s].paid + a[s] <= obligation[s].due
                         /\ a[s] > 0 => obligation[s].status # "ABSENT",
         Apply(a),
         applied' = [applied EXCEPT ![p] = a]
  PROVE  /\ obligation' \in [Slot -> Obligation]
         /\ applied' \in [Payment -> [Slot -> Minor]]
         /\ NoOverpayment' /\ LedgerBalanced' /\ StatusTellsBalance' /\ AbsentRowsAreBlank'
<1>1. /\ obligation' \in [Slot -> Obligation]
      /\ \A s \in Slot :
           /\ obligation'[s].paid = obligation[s].paid + a[s]
           /\ obligation'[s].due = obligation[s].due
           /\ obligation'[s].dueAt = obligation[s].dueAt
           /\ a[s] = 0 => obligation'[s] = obligation[s]
           /\ a[s] > 0 => obligation'[s].status = StatusFor(obligation[s].due, obligation[s].paid + a[s])
  BY ApplyAdds
<1>2. \A s \in Slot : /\ a[s] \in Nat /\ obligation[s] \in Obligation
                     /\ obligation[s].paid \in Nat /\ obligation[s].due \in Nat
  BY MaxMinorAssumption DEF TypeOK, Obligation, Minor
<1>3. NoOverpayment'
  BY <1>1 DEF NoOverpayment
<1>4. applied' \in [Payment -> [Slot -> Minor]]
  BY DEF TypeOK
<1>5. StatusTellsBalance'
  <2> SUFFICES ASSUME NEW s \in Slot
               PROVE  /\ obligation'[s].status = "PAID"
                           <=> obligation'[s].paid > 0 /\ obligation'[s].paid = obligation'[s].due
                      /\ obligation'[s].status = "PARTIALLY_PAID"
                           <=> obligation'[s].paid > 0 /\ obligation'[s].paid < obligation'[s].due
    BY DEF StatusTellsBalance
  <2>1. CASE a[s] = 0
    <3>1. obligation'[s] = obligation[s]
      BY <1>1, <2>1
    <3> QED
      BY <3>1 DEF StatusTellsBalance
  <2>2. CASE a[s] > 0
    <3>1. obligation'[s].status = StatusFor(obligation[s].due, obligation[s].paid + a[s])
      BY <1>1, <2>2
    <3>2. obligation[s].paid + a[s] \in Nat /\ obligation[s].paid + a[s] > 0
      BY <1>2, <2>2
    <3> QED
      BY <1>1, <1>2, <3>1, <3>2 DEF StatusFor
  <2> QED
    BY <1>2, <2>1, <2>2
<1>6. AbsentRowsAreBlank'
  <2> SUFFICES ASSUME NEW s \in Slot, obligation'[s].status = "ABSENT"
               PROVE  obligation'[s] = AbsentObligation
    BY DEF AbsentRowsAreBlank
  <2>1. ~(a[s] > 0)
    BY <1>1 DEF StatusFor
  <2>2. obligation'[s] = obligation[s]
    BY <1>1, <1>2, <2>1
  <2> QED
    BY <2>2 DEF AbsentRowsAreBlank
<1>7. LedgerBalanced'
  <2> SUFFICES ASSUME NEW s \in Slot
               PROVE  obligation'[s].paid = Total(Payment, [q \in Payment |-> applied'[q][s]])
    BY DEF LedgerBalanced
  <2> DEFINE f == [q \in Payment |-> applied[q][s]]
             g == [q \in Payment |-> applied'[q][s]]
  <2>1. f[p] = 0
    BY DEF Nothing
  <2>2. g[p] = a[s] /\ a[s] \in Minor
    BY DEF TypeOK
  <2>3. \A q \in Payment \ {p} : g[q] = f[q]
    BY DEF TypeOK
  <2>4. IsFiniteSet(Payment)
    BY ScheduleAssumption
  <2> HIDE DEF f, g
  <2>5. Total(Payment, g) = Total(Payment, f) + a[s]
    BY <2>1, <2>2, <2>3, <2>4, TotalRaised
  <2> USE DEF f, g
  <2>6. Total(Payment, f) = obligation[s].paid
    BY DEF LedgerBalanced
  <2> QED
    BY <1>1, <2>5, <2>6
<1> QED
  BY <1>1, <1>3, <1>4, <1>5, <1>6, <1>7

-----------------------------------------------------------------------------
(* The invariant. *)

(* A call that runs no pass holds nothing. *)
LEMMA IdlePassIsSound ==
  /\ IdlePass \in Pass /\ PassIsSound(IdlePass) /\ IdlePass.draft = NoRows
  /\ \A s \in Slot : NoRows[s].status = "ABSENT"
<1>1. AbsentObligation \in Obligation /\ AbsentObligation.status = "ABSENT"
  BY MaxMinorAssumption DEF AbsentObligation, Obligation, ObligationStatus, Minor
<1>2. NoRows \in [Slot -> Obligation] /\ \A s \in Slot : NoRows[s].status = "ABSENT"
  BY <1>1 DEF NoRows
<1>3. NoRule \in Rule /\ [price |-> 0, active |-> FALSE] \in PlanRow
  BY MaxMinorAssumption DEF NoRule, Rule, PlanRow, Minor
<1> QED
  BY <1>2, <1>3 DEF IdlePass, Pass, Statement, Call, PassIsSound

(* It holds of a new group. *)
LEMMA InitInv == Init => LedgerInv
<1> SUFFICES ASSUME Init PROVE LedgerInv
  OBVIOUS
<1>1. /\ 0 \in Minor
      /\ AbsentObligation \in Obligation
      /\ AbsentPayment \in PaymentRow
      /\ Nothing \in [Slot -> Minor]
      /\ Idle \in Request
      /\ AbsentObligation.paid = 0 /\ AbsentObligation.due = 0
      /\ AbsentObligation.status = "ABSENT"
  BY MaxMinorAssumption DEF Minor, AbsentObligation, Obligation, ObligationStatus, AbsentPayment,
     PaymentRow, PaymentStatus, Nothing, Idle, Request, Role
<1>2. TypeOK
  <2>1. rule \in Rule /\ partial \in BOOLEAN /\ plan \in PlanRow
    BY LedgerAssumption DEF Init, Rule
  <2>2. obligation \in [Slot -> Obligation]
    BY <1>1 DEF Init, NoRows
  <2>3. pass \in [Runner -> Pass]
    BY IdlePassIsSound DEF Init
  <2>4. payment \in [Payment -> PaymentRow] /\ request \in [Member -> Request]
    BY <1>1 DEF Init
  <2>5. pending \in [Payment -> [Slot -> Minor]] /\ applied \in [Payment -> [Slot -> Minor]]
    BY <1>1 DEF Init
  <2> QED
    BY <2>1, <2>2, <2>3, <2>4, <2>5, LedgerAssumption DEF Init, TypeOK
<1>3. NoOverpayment /\ StatusTellsBalance /\ AbsentRowsAreBlank /\ DueRowsAreDue
  BY <1>1 DEF Init, NoRows, NoOverpayment, StatusTellsBalance, AbsentRowsAreBlank, DueRowsAreDue
<1>4. LedgerBalanced
  <2> SUFFICES ASSUME NEW s \in Slot
               PROVE  obligation[s].paid = Total(Payment, [p \in Payment |-> applied[p][s]])
    BY DEF LedgerBalanced
  <2>1. \A p \in Payment : applied[p][s] = 0
    BY DEF Init, Nothing
  <2> DEFINE f == [p \in Payment |-> applied[p][s]]
  <2>2. \A p \in Payment : f[p] = 0
    BY <2>1
  <2> HIDE DEF f
  <2>3. Total(Payment, f) = 0
    BY <2>2, TotalOfZeros
  <2> USE DEF f
  <2> QED
    BY <1>1, <2>3 DEF Init, NoRows
<1>5. ReceiptsCertifyApprovals /\ AllocationsFollowStatus
  BY DEF Init, ReceiptsCertifyApprovals, AllocationsFollowStatus, AbsentPayment
<1>6. MoneyOnDueRows
  BY DEF Init, MoneyOnDueRows, Nothing
<1>7. RequestsAreSound
  BY DEF Init, RequestsAreSound, Idle
<1>8. PassesAreSound /\ DraftsAreFresh
  BY IdlePassIsSound DEF Init, PassesAreSound, DraftsAreFresh, HasDraft
<1> QED
  BY <1>2, <1>3, <1>4, <1>5, <1>6, <1>7, <1>8 DEF LedgerInv

(* Steps that move no money and keep payments: the books depend on what is
   paid and applied only. *)
LEMMA BooksKept ==
  ASSUME LedgerBalanced, applied' = applied, \A s \in Slot : obligation'[s].paid = obligation[s].paid
  PROVE  LedgerBalanced'
BY DEF LedgerBalanced

(* A step that leaves the passes alone and changes only rows that carry money
   or may, lets time pass or does neither: drafts stay fresh. *)
LEMMA PassesKept ==
  ASSUME LedgerInv, pass' = pass, now' \in Nat, now' >= now,
         \A s \in Slot : obligation[s].status \in {"ABSENT", "UPCOMING", "WAIVED"}
                           => obligation'[s] = obligation[s]
  PROVE  PassesAreSound' /\ DraftsAreFresh'
<1>1. PassesAreSound'
  BY DEF LedgerInv, PassesAreSound, PassIsSound
<1>2. ASSUME NEW r \in Runner, NEW s \in Slot, HasDraft(r, s)'
      PROVE  (Fresh(obligation[s], pass[r].draft[s]) /\ Unlocked(r, s))'
  <2>1. Fresh(obligation[s], pass[r].draft[s]) /\ Unlocked(r, s)
    BY <1>2 DEF HasDraft, LedgerInv, DraftsAreFresh
  <2>2. obligation'[s] = obligation[s]
    BY <2>1 DEF Fresh
  <2>3. pass[r].draft[s].dueAt \in Nat /\ now \in Nat
    BY DEF LedgerInv, TypeOK, Pass, Obligation
  <2>4. Fresh(obligation[s], pass[r].draft[s])'
    BY <2>1, <2>2, <2>3 DEF Fresh
  <2>5. Unlocked(r, s)'
    BY <2>1 DEF Unlocked, HasDraft
  <2> QED
    BY <2>4, <2>5
<1>3. DraftsAreFresh'
  BY <1>2 DEF DraftsAreFresh
<1> QED
  BY <1>1, <1>3

(* The rows, and what every pass sees of them, are sound. *)
LEMMA RowsAreSound ==
  ASSUME LedgerInv, NEW s \in Slot
  PROVE  /\ RowIsSound(obligation[s])
         /\ \A r \in Runner : /\ RowIsSound(Seen(r)[s])
                              /\ Revised(obligation[s], Seen(r)[s])
<1>1. RowIsSound(obligation[s])
  <2>1. obligation[s] \in Obligation /\ obligation[s].paid \in Nat /\ obligation[s].due \in Nat
    BY MaxMinorAssumption DEF LedgerInv, TypeOK, Obligation, Minor
  <2>2. obligation[s].status \in {"ABSENT", "UPCOMING", "WAIVED"} => ~(obligation[s].paid > 0)
    BY <2>1 DEF LedgerInv, StatusTellsBalance, NoOverpayment
  <2> QED
    BY <2>1, <2>2 DEF RowIsSound, LedgerInv, DueRowsAreDue
<1>2. ASSUME NEW r \in Runner
      PROVE  RowIsSound(Seen(r)[s]) /\ Revised(obligation[s], Seen(r)[s])
  <2>1. CASE HasDraft(r, s)
    <3>1. Seen(r)[s] = pass[r].draft[s] /\ pass[r].draft[s] \in Obligation
      BY <2>1 DEF Seen, LedgerInv, TypeOK, Pass
    <3>2. Revised(obligation[s], Seen(r)[s])
      BY <2>1, <3>1 DEF LedgerInv, DraftsAreFresh, Revised
    <3> QED
      BY <1>1, <3>2, RevisedAgain
  <2>2. CASE ~HasDraft(r, s)
    <3>1. Seen(r)[s] = obligation[s]
      BY <2>2 DEF Seen
    <3> QED
      BY <1>1, <3>1 DEF Revised, RowIsSound
  <2> QED
    BY <2>1, <2>2
<1> QED
  BY <1>1, <1>2

(* Rows are revised, no money moves: the books stay as they are. *)
Revises ==
  /\ obligation' = [s \in Slot |-> obligation'[s]]
  /\ \A s \in Slot : Revised(obligation[s], obligation'[s])
  /\ UNCHANGED <<now, pending, applied, role, payment, receipt, request>>

(* Revising a row keeps what is paid on it, and all of it where it is due. *)
LEMMA RevisedKeeps ==
  ASSUME LedgerInv, Revises, NEW s \in Slot
  PROVE  /\ obligation'[s] \in Obligation
         /\ obligation'[s].paid = obligation[s].paid
         /\ obligation[s].paid > 0 => obligation'[s] = obligation[s]
         /\ obligation[s].status \in {"DUE", "PARTIALLY_PAID", "PAID"} => obligation'[s] = obligation[s]
         /\ obligation'[s] # obligation[s] => /\ obligation[s].paid = 0
                                              /\ Fresh(obligation[s], obligation'[s])
<1>1. RowIsSound(obligation[s]) /\ Revised(obligation[s], obligation'[s])
  BY RowsAreSound DEF Revises
<1> QED
  BY <1>1 DEF RowIsSound, Revised, Fresh

(* The books after the rows are revised. *)
LEMMA RevisesInv ==
  ASSUME LedgerInv, Revises, rule' \in Rule, partial' \in BOOLEAN, plan' \in PlanRow,
         pass' \in [Runner -> Pass], PassesAreSound', DraftsAreFresh'
  PROVE  LedgerInv'
<1>1. \A s \in Slot :
        /\ obligation'[s] \in Obligation
        /\ obligation'[s].paid = obligation[s].paid
        /\ obligation[s].paid > 0 => obligation'[s] = obligation[s]
        /\ obligation[s].status \in {"DUE", "PARTIALLY_PAID", "PAID"} => obligation'[s] = obligation[s]
        /\ obligation'[s] # obligation[s] => /\ obligation[s].paid = 0
                                             /\ Fresh(obligation[s], obligation'[s])
  BY RevisedKeeps
<1>2. obligation' \in [Slot -> Obligation]
  BY <1>1 DEF Revises
<1>3. UNCHANGED <<now, pending, applied, role, payment, receipt, request>>
  BY DEF Revises
<1>4. TypeOK'
  BY <1>2, <1>3 DEF TypeOK, LedgerInv
<1>5. NoOverpayment' /\ StatusTellsBalance'
  <2>1. ASSUME NEW s \in Slot
        PROVE  /\ obligation'[s].paid <= obligation'[s].due
               /\ obligation'[s].status = "PAID"
                    <=> obligation'[s].paid > 0 /\ obligation'[s].paid = obligation'[s].due
               /\ obligation'[s].status = "PARTIALLY_PAID"
                    <=> obligation'[s].paid > 0 /\ obligation'[s].paid < obligation'[s].due
    <3>1. obligation'[s].due \in Nat /\ obligation[s].paid \in Nat
      BY <1>1, MaxMinorAssumption DEF LedgerInv, TypeOK, Obligation, Minor
    <3>2. CASE obligation'[s] = obligation[s]
      BY <3>2 DEF LedgerInv, NoOverpayment, StatusTellsBalance
    <3>3. CASE obligation'[s] # obligation[s]
      BY <1>1, <3>1, <3>3 DEF Fresh
    <3> QED
      BY <3>2, <3>3
  <2> QED
    BY <2>1 DEF NoOverpayment, StatusTellsBalance
<1>6. LedgerBalanced'
  BY <1>1, <1>3, BooksKept DEF LedgerInv
<1>7. AbsentRowsAreBlank' /\ DueRowsAreDue'
  <2>1. ASSUME NEW s \in Slot
        PROVE  /\ obligation'[s].status = "ABSENT" => obligation'[s] = AbsentObligation
               /\ obligation'[s].status \in {"DUE", "PARTIALLY_PAID", "PAID"} => obligation'[s].dueAt <= now'
    <3>1. CASE obligation'[s] = obligation[s]
      BY <1>3, <3>1 DEF LedgerInv, AbsentRowsAreBlank, DueRowsAreDue
    <3>2. CASE obligation'[s] # obligation[s]
      BY <1>1, <1>3, <3>2 DEF Fresh
    <3> QED
      BY <3>1, <3>2
  <2> QED
    BY <2>1 DEF AbsentRowsAreBlank, DueRowsAreDue
<1>8. MoneyOnDueRows'
  BY <1>1, <1>3 DEF LedgerInv, MoneyOnDueRows
<1>9. ReceiptsCertifyApprovals' /\ AllocationsFollowStatus' /\ RequestsAreSound'
  BY <1>3 DEF LedgerInv, ReceiptsCertifyApprovals, AllocationsFollowStatus, RequestsAreSound
<1> QED
  BY <1>4, <1>5, <1>6, <1>7, <1>8, <1>9 DEF LedgerInv

(* One pass takes a step: it leaves every row that another pass holds as it
   is, and holds only rows of its own that nobody else does. *)
LEMMA OnePassInv ==
  ASSUME LedgerInv, Revises, rule' \in Rule, partial' \in BOOLEAN, plan' \in PlanRow,
         NEW r \in Runner, NEW next \in Pass, PassIsSound(next), pass' = [pass EXCEPT ![r] = next],
         \A s \in Slot : obligation'[s] # obligation[s] => Unlocked(r, s),
         \A s \in Slot : next.draft[s].status # "ABSENT"
                           => Fresh(obligation'[s], next.draft[s]) /\ Unlocked(r, s)
  PROVE  LedgerInv'
<1>1. /\ pass' \in [Runner -> Pass] /\ pass'[r] = next
      /\ \A q \in Runner : q # r => pass'[q] = pass[q]
  BY DEF LedgerInv, TypeOK
<1>2. PassesAreSound'
  <2>1. \A q \in Runner : PassIsSound(pass'[q])
    BY <1>1 DEF LedgerInv, PassesAreSound
  <2> QED
    BY <2>1 DEF PassesAreSound, PassIsSound
<1>3. now' = now
  BY DEF Revises
<1>4. ASSUME NEW q \in Runner, NEW s \in Slot, HasDraft(q, s)'
      PROVE  (Fresh(obligation[s], pass[q].draft[s]) /\ Unlocked(q, s))'
  <2>1. CASE q = r
    <3>1. Fresh(obligation'[s], next.draft[s]) /\ Unlocked(r, s)
      BY <1>1, <1>4, <2>1 DEF HasDraft
    <3>2. Unlocked(r, s)'
      BY <1>1, <3>1 DEF Unlocked, HasDraft
    <3> QED
      BY <1>1, <1>3, <2>1, <3>1, <3>2 DEF Fresh
  <2>2. CASE q # r
    <3>1. HasDraft(q, s) /\ pass'[q] = pass[q]
      BY <1>1, <1>4, <2>2 DEF HasDraft
    <3>2. Fresh(obligation[s], pass[q].draft[s]) /\ Unlocked(q, s)
      BY <3>1 DEF LedgerInv, DraftsAreFresh
    <3>3. ~Unlocked(r, s)
      BY <2>2, <3>1 DEF Unlocked
    <3>4. obligation'[s] = obligation[s] /\ next.draft[s].status = "ABSENT"
      BY <3>3
    <3>5. Unlocked(q, s)'
      BY <1>1, <3>2, <3>4 DEF Unlocked, HasDraft
    <3> QED
      BY <1>3, <3>1, <3>2, <3>4, <3>5 DEF Fresh
  <2> QED
    BY <2>1, <2>2
<1>5. DraftsAreFresh'
  BY <1>4 DEF DraftsAreFresh
<1> QED
  BY <1>1, <1>2, <1>5, RevisesInv

(* No row is revised where none changes. *)
LEMMA NothingRevised ==
  ASSUME LedgerInv, UNCHANGED <<obligation, now, pending, applied, role, payment, receipt, request>>
  PROVE  Revises
<1>1. obligation' = [s \in Slot |-> obligation'[s]] /\ \A s \in Slot : obligation[s] \in Obligation
  BY DEF LedgerInv, TypeOK
<1> QED
  BY <1>1 DEF Revises, Revised

(* A step that only reads: the pass goes on, or is given up. *)
LEMMA ReadsInv ==
  ASSUME LedgerInv, NEW r \in Runner, NEW next \in Pass, PassIsSound(next),
         next.draft \in {pass[r].draft, NoRows},
         rule' \in Rule, partial' \in BOOLEAN, plan' \in PlanRow, pass' = [pass EXCEPT ![r] = next],
         UNCHANGED <<obligation, now, pending, applied, role, payment, receipt, request>>
  PROVE  LedgerInv' /\ Revises
<1>1. Revises
  BY NothingRevised
<1>2. ASSUME NEW s \in Slot, next.draft[s].status # "ABSENT"
      PROVE  Fresh(obligation'[s], next.draft[s]) /\ Unlocked(r, s)
  <2>1. next.draft = pass[r].draft
    BY <1>2, IdlePassIsSound
  <2> QED
    BY <1>2, <2>1 DEF LedgerInv, DraftsAreFresh, HasDraft
<1> QED
  BY <1>1, <1>2, OnePassInv

(* A step that writes rows, to the table or to the draft of a join. *)
LEMMA WritesInv ==
  ASSUME LedgerInv, NEW r \in Runner, NEW rows, rows = [s \in Slot |-> rows[s]],
         \A s \in Slot : Revised(Seen(r)[s], rows[s]),
         NEW next \in Pass, next.draft = pass[r].draft, next.call = pass[r].call, PassIsSound(next),
         Writes(r, rows, next), UNCHANGED <<role, payment, receipt, request>>
  PROVE  LedgerInv' /\ Revises
<1>1. UNCHANGED <<now, rule, partial, plan, pending, applied>>
  BY DEF Writes
<1>2. rule' \in Rule /\ partial' \in BOOLEAN /\ plan' \in PlanRow
  BY <1>1 DEF LedgerInv, TypeOK
<1>3. \A s \in Slot : rows[s] # Seen(r)[s] => Unlocked(r, s)
  BY DEF Writes, Write
<1>4. ASSUME NEW s \in Slot
      PROVE  /\ Revised(obligation[s], rows[s])
             /\ HasDraft(r, s) => Unlocked(r, s)
  <2>1. RowIsSound(obligation[s]) /\ Revised(obligation[s], Seen(r)[s])
    BY RowsAreSound
  <2>2. Revised(obligation[s], rows[s])
    BY <2>1, RevisedAgain
  <2> QED
    BY <2>2 DEF LedgerInv, DraftsAreFresh
<1>5. CASE next.call = "JOIN"
  <2> DEFINE draft == [s \in Slot |-> IF rows[s] # Seen(r)[s] THEN rows[s] ELSE next.draft[s]]
             after == [next EXCEPT !.draft = draft]
  <2>1. obligation' = obligation /\ pass' = [pass EXCEPT ![r] = after]
    BY <1>5 DEF Writes, Write
  <2>2. draft \in [Slot -> Obligation]
    <3>1. \A s \in Slot : rows[s] \in Obligation /\ next.draft[s] \in Obligation
      BY <1>4 DEF Revised, Pass
    <3> QED
      BY <3>1
  <2>3. after \in Pass /\ after.draft = draft /\ after.call = "JOIN" /\ PassIsSound(after)
    <3> HIDE DEF draft
    <3>1. after.at = next.at /\ after.call = next.call /\ after.rule = next.rule /\ after.todo = next.todo
      BY DEF Pass
    <3>2. after \in Pass /\ after.draft = draft
      BY <2>2 DEF Pass
    <3> QED
      BY <1>5, <3>1, <3>2 DEF PassIsSound
  <2>4. Revises
    BY <1>1, <2>1, NothingRevised
  <2>5. ASSUME NEW s \in Slot, draft[s].status # "ABSENT"
        PROVE  Fresh(obligation'[s], draft[s]) /\ Unlocked(r, s)
    <3>1. CASE rows[s] # Seen(r)[s]
      <4>1. draft[s] = rows[s] /\ Unlocked(r, s) /\ Revised(obligation[s], rows[s])
        BY <1>3, <1>4, <3>1
      <4>2. rows[s] # obligation[s] \/ HasDraft(r, s)
        BY <3>1 DEF Seen
      <4>3. Fresh(Seen(r)[s], rows[s])
        BY <3>1 DEF Revised
      <4>4. Fresh(obligation[s], rows[s])
        <5>1. CASE HasDraft(r, s)
          <6>1. Fresh(obligation[s], pass[r].draft[s]) /\ Seen(r)[s] = pass[r].draft[s]
            BY <5>1 DEF LedgerInv, DraftsAreFresh, Seen
          <6> QED
            BY <4>3, <6>1 DEF Fresh
        <5>2. CASE ~HasDraft(r, s)
          <6>1. Seen(r)[s] = obligation[s]
            BY <5>2 DEF Seen
          <6> QED
            BY <4>3, <6>1
        <5> QED
          BY <5>1, <5>2
      <4> QED
        BY <2>1, <4>1, <4>4
    <3>2. CASE rows[s] = Seen(r)[s]
      <4>1. draft[s] = pass[r].draft[s]
        BY <3>2
      <4>2. HasDraft(r, s)
        BY <2>5, <4>1 DEF HasDraft
      <4> QED
        BY <2>1, <4>1, <4>2 DEF LedgerInv, DraftsAreFresh
    <3> QED
      BY <3>1, <3>2
  <2> HIDE DEF draft, after
  <2> QED
    BY <1>2, <2>1, <2>3, <2>4, <2>5, OnePassInv
<1>6. CASE next.call # "JOIN"
  <2>1. obligation' = rows /\ pass' = [pass EXCEPT ![r] = next]
    BY <1>6 DEF Writes, Write
  <2>2. next.draft = NoRows /\ \A s \in Slot : ~HasDraft(r, s)
    BY <1>6, IdlePassIsSound DEF PassIsSound, HasDraft
  <2>3. \A s \in Slot : Seen(r)[s] = obligation[s]
    BY <2>2 DEF Seen
  <2>4. Revises
    BY <1>1, <1>4, <2>1 DEF Revises
  <2>5. \A s \in Slot : obligation'[s] # obligation[s] => Unlocked(r, s)
    BY <1>3, <2>1, <2>3
  <2>6. \A s \in Slot : next.draft[s].status = "ABSENT"
    BY <2>2, IdlePassIsSound
  <2> QED
    BY <1>2, <2>1, <2>4, <2>5, <2>6, OnePassInv
<1> QED
  BY <1>5, <1>6

(* What pass r sees after it upserts the row of slot s. *)
Upserted(r, s, amount, dueAt) == [Seen(r) EXCEPT ![s] = Created(Seen(r)[s], amount, dueAt)]

(* A running pass takes its next step, or is given up. *)
LEMMA PassStepInv ==
  ASSUME LedgerInv, NEW r \in Runner, PassStep(r), UNCHANGED <<role, payment, receipt, request>>
  PROVE  LedgerInv' /\ Revises
<1>1. PICK q \in Pass : q = pass[r] /\ PassIsSound(q)
  BY DEF LedgerInv, TypeOK, PassesAreSound
<1>2. rule \in Rule /\ partial \in BOOLEAN /\ plan \in PlanRow /\ now \in Nat /\ TypeOK
  BY DEF LedgerInv, TypeOK
<1>3. ASSUME NEW next \in Pass, next.draft = q.draft, PassIsSound(next), Reads(r, next)
      PROVE  LedgerInv' /\ Revises
  BY <1>1, <1>2, <1>3, ReadsInv DEF Reads
<1>4. ASSUME NEW rows, rows = [s \in Slot |-> rows[s]], \A s \in Slot : Revised(Seen(r)[s], rows[s]),
             NEW next \in Pass, next.draft = q.draft, next.call = q.call,
             next.at \in {"FALL_DUE", "REPRICE", "CREATE", "PENALISE"},
             next.at = "PENALISE" => q.at = "PENALISE" /\ next.rule = q.rule /\ next.todo \subseteq q.todo,
             Writes(r, rows, next)
      PROVE  LedgerInv' /\ Revises
  <2>1. PassIsSound(next)
    BY <1>1, <1>4 DEF PassIsSound
  <2> QED
    BY <1>1, <1>4, <2>1, WritesInv
<1>5. \A s \in Slot : RowIsSound(Seen(r)[s])
  BY RowsAreSound
<1>6. CASE ReadPartial(r)
  <2> DEFINE next == [[q EXCEPT !.at = "WRITE_PARTIAL"] EXCEPT !.rule.allowsPartial = rule.allowsPartial]
  <2>1. next \in Pass /\ next.draft = q.draft /\ next.call = q.call /\ next.at = "WRITE_PARTIAL"
    BY <1>2 DEF Pass, Statement, Rule
  <2>2. Reads(r, next)
    BY <1>1, <1>6 DEF ReadPartial, Goto
  <2> HIDE DEF next
  <2>3. PassIsSound(next)
    BY <1>1, <2>1 DEF PassIsSound
  <2> QED
    BY <1>3, <2>1, <2>2, <2>3
<1>7. CASE WritePartial(r)
  <2> DEFINE next == [q EXCEPT !.at = "READ_PLANS"]
  <2>1. next \in Pass /\ next.draft = q.draft /\ next.call = q.call /\ next.at = "READ_PLANS"
    BY DEF Pass, Statement
  <2>2. /\ partial' = q.rule.allowsPartial /\ pass' = [pass EXCEPT ![r] = next]
        /\ UNCHANGED <<now, rule, plan, obligation, pending, applied>>
    BY <1>1, <1>7 DEF WritePartial, Goto
  <2>3. partial' \in BOOLEAN
    BY <2>2 DEF Pass, Rule
  <2> HIDE DEF next
  <2>4. PassIsSound(next)
    BY <1>1, <2>1 DEF PassIsSound
  <2> QED
    BY <1>1, <1>2, <2>1, <2>2, <2>3, <2>4, ReadsInv
<1>8. CASE ReadPlans(r)
  <2> DEFINE next == [[q EXCEPT !.at = "WAIVE"] EXCEPT !.plan = plan]
  <2>1. next \in Pass /\ next.draft = q.draft /\ next.call = q.call /\ next.at = "WAIVE"
    BY <1>2 DEF Pass, Statement
  <2>2. Reads(r, next)
    BY <1>1, <1>8 DEF ReadPlans, Goto
  <2> HIDE DEF next
  <2>3. PassIsSound(next)
    BY <1>1, <2>1 DEF PassIsSound
  <2> QED
    BY <1>3, <2>1, <2>2, <2>3
<1>9. CASE WaiveInactive(r)
  <2> DEFINE next == [q EXCEPT !.at = "FALL_DUE"]
             rows == [s \in Slot |-> Waived(s, Seen(r)[s])]
  <2>1. next \in Pass /\ next.draft = q.draft /\ next.call = q.call /\ next.at = "FALL_DUE"
    BY DEF Pass, Statement
  <2>2. Writes(r, rows, next)
    BY <1>1, <1>9 DEF WaiveInactive, Goto
  <2>3. \A s \in Slot : Revised(Seen(r)[s], rows[s])
    BY <1>2, <1>5, StatementsRevise
  <2>4. rows = [s \in Slot |-> rows[s]]
    OBVIOUS
  <2> HIDE DEF next, rows
  <2> QED
    BY <1>4, <2>1, <2>2, <2>3, <2>4
<1>10. CASE FallDue(r)
  <2> DEFINE next == [q EXCEPT !.at = IF q.plan.active THEN "REPRICE" ELSE "CREATE"]
             rows == [s \in Slot |-> FallenDue(Seen(r)[s])]
  <2>1. next \in Pass /\ next.draft = q.draft /\ next.call = q.call /\ next.at \in {"REPRICE", "CREATE"}
    BY DEF Pass, Statement
  <2>2. Writes(r, rows, next)
    BY <1>1, <1>10 DEF FallDue, Goto
  <2>3. \A s \in Slot : Revised(Seen(r)[s], rows[s])
    BY <1>2, <1>5, StatementsRevise
  <2>4. rows = [s \in Slot |-> rows[s]]
    OBVIOUS
  <2> HIDE DEF next, rows
  <2> QED
    BY <1>4, <2>1, <2>2, <2>3, <2>4
<1>11. CASE Reprice(r)
  <2> DEFINE next == [[q EXCEPT !.at = "CREATE"] EXCEPT
                        !.todo = IF q.plan.price = 0 \/ q.call = "JOIN" THEN {} ELSE Due]
             rows == [s \in Slot |-> Repriced(s, Seen(r)[s], q.plan.price)]
  <2>1. next \in Pass /\ next.draft = q.draft /\ next.call = q.call /\ next.at = "CREATE"
    BY DEF Pass, Statement
  <2>2. Writes(r, rows, next)
    BY <1>1, <1>11 DEF Reprice, Goto
  <2>3. q.plan.price \in Minor
    BY DEF Pass, PlanRow
  <2>4. \A s \in Slot : Revised(Seen(r)[s], rows[s])
    BY <1>2, <1>5, <2>3, StatementsRevise
  <2>5. rows = [s \in Slot |-> rows[s]]
    OBVIOUS
  <2> HIDE DEF next, rows
  <2> QED
    BY <1>4, <2>1, <2>2, <2>4, <2>5
<1>12. ASSUME NEW s \in Slot, NEW amount \in Minor, NEW dueAt \in Nat
       PROVE  /\ Upserted(r, s, amount, dueAt) = [t \in Slot |-> Upserted(r, s, amount, dueAt)[t]]
              /\ \A t \in Slot : Revised(Seen(r)[t], Upserted(r, s, amount, dueAt)[t])
  <2> DEFINE rows == Upserted(r, s, amount, dueAt)
  <2>1. /\ rows = [t \in Slot |-> rows[t]]
        /\ \A t \in Slot : rows[t] = IF t = s THEN Created(Seen(r)[s], amount, dueAt) ELSE Seen(r)[t]
    BY DEF Seen, Upserted
  <2> HIDE DEF rows
  <2>2. \A t \in Slot : Revised(Seen(r)[t], Seen(r)[t])
    BY <1>5 DEF Revised, RowIsSound
  <2>3. Revised(Seen(r)[s], Created(Seen(r)[s], amount, dueAt))
    BY <1>2, <1>5, StatementsRevise
  <2> QED
    BY <2>1, <2>2, <2>3 DEF rows
<1>13. ASSUME NEW d \in Due, Create(r, d)
       PROVE  LedgerInv' /\ Revises
  <2> DEFINE next == [q EXCEPT !.todo = @ \ {d}]
             s == Contribution(d)
             rows == Upserted(r, s, q.plan.price, DueDate[d])
  <2>1. /\ next \in Pass /\ next.draft = q.draft /\ next.call = q.call /\ next.at = q.at
        /\ s \in Slot /\ q.plan.price \in Minor /\ DueDate[d] \in Nat
    BY ScheduleAssumption DEF Pass, Statement, PlanRow, Slot, Contribution
  <2>2. Writes(r, rows, next) /\ q.at = "CREATE"
    BY <1>1, <1>13 DEF Create, Upserted
  <2>3. rows = [t \in Slot |-> rows[t]] /\ \A t \in Slot : Revised(Seen(r)[t], rows[t])
    BY <1>12, <2>1
  <2> HIDE DEF next, s, rows
  <2> QED
    BY <1>4, <2>1, <2>2, <2>3
<1>14. CASE ReadRule(r)
  <2> DEFINE next == [[q EXCEPT !.at = IF rule.penalties THEN "FIND_LATE" ELSE "PENALISE"]
                        EXCEPT !.rule = rule]
  <2>1. /\ next \in Pass /\ next.draft = q.draft /\ next.call = q.call /\ next.todo = q.todo
        /\ next.rule = rule /\ next.at = IF rule.penalties THEN "FIND_LATE" ELSE "PENALISE"
    BY <1>2 DEF Pass, Statement
  <2>2. Reads(r, next) /\ q.todo = {}
    BY <1>1, <1>14 DEF ReadRule, Goto
  <2> HIDE DEF next
  <2>3. PassIsSound(next)
    BY <1>1, <2>1, <2>2 DEF PassIsSound
  <2> QED
    BY <1>3, <2>1, <2>2, <2>3
<1>15. CASE FindLate(r)
  <2> DEFINE late == {d \in Due : Late(Seen(r)[Contribution(d)], q.rule)}
             next == [[q EXCEPT !.at = "PENALISE"] EXCEPT !.todo = late]
  <2>1. late \subseteq Due
    OBVIOUS
  <2>2. Reads(r, next) /\ q.at = "FIND_LATE"
    BY <1>1, <1>15 DEF FindLate, Goto
  <2> HIDE DEF late
  <2>3. next \in Pass /\ next.draft = q.draft /\ next.call = q.call /\ next.rule = q.rule
    BY <2>1 DEF Pass, Statement
  <2> HIDE DEF next
  <2>4. PassIsSound(next)
    BY <1>1, <2>2, <2>3 DEF PassIsSound
  <2> QED
    BY <1>3, <2>2, <2>3, <2>4
<1>16. ASSUME NEW d \in Due, Penalise(r, d)
       PROVE  LedgerInv' /\ Revises
  <2> DEFINE next == [q EXCEPT !.todo = @ \ {d}]
             s == Penalty(d)
             rows == Upserted(r, s, PenaltyAmount, now)
  <2>1. /\ next \in Pass /\ next.draft = q.draft /\ next.call = q.call /\ next.at = q.at
        /\ next.rule = q.rule /\ next.todo \subseteq q.todo
        /\ s \in Slot /\ PenaltyAmount \in Minor
    BY ScheduleAssumption DEF Pass, Statement, Slot, Penalty
  <2>2. Writes(r, rows, next) /\ q.at = "PENALISE"
    BY <1>1, <1>16 DEF Penalise, Upserted
  <2>3. rows = [t \in Slot |-> rows[t]] /\ \A t \in Slot : Revised(Seen(r)[t], rows[t])
    BY <1>2, <1>12, <2>1
  <2> HIDE DEF next, s, rows
  <2> QED
    BY <1>4, <2>1, <2>2, <2>3
<1>17. CASE EndPass(r)
  <2>1. /\ obligation' = Seen(r) /\ pass' = [pass EXCEPT ![r] = IdlePass]
        /\ UNCHANGED <<now, rule, partial, plan, pending, applied>>
    BY <1>17 DEF EndPass
  <2>2. Revises
    BY <2>1, RowsAreSound DEF Revises, Seen
  <2>3. ASSUME NEW s \in Slot, obligation'[s] # obligation[s]
        PROVE  Unlocked(r, s)
    <3>1. HasDraft(r, s)
      BY <2>1, <2>3 DEF Seen
    <3> QED
      BY <3>1 DEF LedgerInv, DraftsAreFresh
  <2> QED
    BY <1>2, <2>1, <2>2, <2>3, IdlePassIsSound, OnePassInv
<1>18. CASE AbandonPass(r)
  <2>1. /\ pass' = [pass EXCEPT ![r] = IdlePass]
        /\ UNCHANGED <<now, rule, partial, plan, obligation, pending, applied>>
    BY <1>18 DEF AbandonPass, Reads
  <2> QED
    BY <1>2, <2>1, IdlePassIsSound, ReadsInv
<1> QED
  BY <1>6, <1>7, <1>8, <1>9, <1>10, <1>11, <1>13, <1>14, <1>15, <1>16, <1>17, <1>18 DEF PassStep

(* A pass begins: the settings are saved first, or not. *)
LEMMA BeginPassInv ==
  ASSUME LedgerInv, NEW r \in Runner, UNCHANGED <<role, payment, receipt, request>>,
         \/ \E call : BeginPass(r, call)
         \/ \E price \in Minor, active \in BOOLEAN : SaveSettings(r, price, active)
  PROVE  LedgerInv' /\ Revises
<1>1. rule \in Rule /\ partial \in BOOLEAN /\ plan \in PlanRow
  BY DEF LedgerInv, TypeOK
<1>2. ASSUME NEW at \in {"READ_PLANS", "READ_PARTIAL"}, NEW call \in Call
      PROVE  LET next == [IdlePass EXCEPT !.at = at, !.call = call]
             IN  next \in Pass /\ PassIsSound(next) /\ next.draft = NoRows
  <2> DEFINE next == [IdlePass EXCEPT !.at = at, !.call = call]
  <2>1. IdlePass \in Pass /\ IdlePass.draft = NoRows
    BY IdlePassIsSound
  <2>2. next \in Pass /\ next.draft = NoRows /\ next.at = at
    BY <2>1 DEF Pass, Statement
  <2> QED
    BY <2>2 DEF PassIsSound
<1>3. ASSUME NEW call, BeginPass(r, call)
      PROVE  LedgerInv' /\ Revises
  <2>1. PICK next : next = [IdlePass EXCEPT !.at = "READ_PLANS", !.call = call]
    OBVIOUS
  <2>2. call \in Call /\ Reads(r, next)
    BY <1>3, <2>1 DEF BeginPass, Call
  <2>3. next \in Pass /\ PassIsSound(next) /\ next.draft = NoRows
    BY <1>2, <2>1, <2>2
  <2> QED
    BY <1>1, <2>2, <2>3, ReadsInv DEF Reads
<1>4. ASSUME NEW price \in Minor, NEW active \in BOOLEAN, SaveSettings(r, price, active)
      PROVE  LedgerInv' /\ Revises
  <2>1. PICK next : next = [IdlePass EXCEPT !.at = "READ_PARTIAL", !.call = "SETTINGS"]
    OBVIOUS
  <2>2. /\ pass' = [pass EXCEPT ![r] = next] /\ plan' \in PlanRow
        /\ UNCHANGED <<now, rule, partial, obligation, pending, applied>>
    BY <1>1, <1>4, <2>1 DEF SaveSettings, PlanRow
  <2>3. next \in Pass /\ PassIsSound(next) /\ next.draft = NoRows
    BY <1>2, <2>1 DEF Call
  <2> QED
    BY <1>1, <2>2, <2>3, ReadsInv
<1> QED
  BY <1>3, <1>4

(* saveFinancialYear runs the whole pass at once. *)
LEMMA WholePassInv ==
  ASSUME LedgerInv, WholePass, UNCHANGED <<role, payment, receipt, request>>
  PROVE  LedgerInv' /\ Revises
<1>1. TypeOK /\ now \in Nat /\ plan \in PlanRow /\ plan.price \in Minor /\ 0 \in Minor
  BY MaxMinorAssumption DEF LedgerInv, TypeOK, PlanRow, Minor
<1>2. /\ obligation' = [s \in Slot |-> obligation'[s]]
      /\ UNCHANGED <<now, rule, partial, plan, pending, applied, pass>>
  BY DEF WholePass
<1>3. ASSUME NEW d \in Due
      PROVE  Revised(obligation[Contribution(d)], Scheduled(d))
  <2> DEFINE s == Contribution(d)
             o == obligation[s]
             w == Waived(s, o)
             f == FallenDue(w)
  <2>1. s \in Slot /\ DueDate[d] \in Nat
    BY ScheduleAssumption DEF Slot, Contribution
  <2>2. RowIsSound(o)
    BY <2>1, RowsAreSound
  <2>3. Revised(o, w)
    BY <1>1, <2>1, <2>2, StatementsRevise
  <2>4. RowIsSound(w) /\ (Revised(w, f) => Revised(o, f))
    BY <2>2, <2>3, RevisedAgain
  <2>5. Revised(w, f)
    BY <1>1, <2>1, <2>4, StatementsRevise
  <2>6. RowIsSound(f) /\ Revised(o, f)
    BY <2>4, <2>5, RevisedAgain
  <2>7. ASSUME NEW price \in Minor
        PROVE  RowIsSound(Repriced(s, f, price)) /\ Revised(o, Repriced(s, f, price))
    <3>1. Revised(f, Repriced(s, f, price))
      BY <1>1, <2>1, <2>6, StatementsRevise
    <3> QED
      BY <2>2, <2>6, <3>1, RevisedAgain
  <2>8. Revised(o, Created(Repriced(s, f, plan.price), plan.price, DueDate[d]))
    <3> DEFINE q == Repriced(s, f, plan.price)
    <3>1. RowIsSound(q) /\ Revised(o, q)
      BY <1>1, <2>7
    <3>2. Revised(q, Created(q, plan.price, DueDate[d]))
      BY <1>1, <2>1, <3>1, StatementsRevise
    <3> QED
      BY <2>2, <3>1, <3>2, RevisedAgain
  <2> QED
    BY <1>1, <2>6, <2>7, <2>8 DEF Scheduled
<1>4. ASSUME NEW s \in Slot
      PROVE  Revised(obligation[s], obligation'[s])
  <2>1. s[1] \in Due /\ (s[2] = "CONTRIBUTION" => s = Contribution(s[1]))
    BY DEF Slot, Contribution
  <2>2. RowIsSound(obligation[s])
    BY RowsAreSound
  <2>3. CASE s[2] = "CONTRIBUTION"
    <3>1. obligation'[s] = Scheduled(s[1])
      BY <2>3 DEF WholePass
    <3> QED
      BY <1>3, <2>1, <2>3, <3>1
  <2>4. CASE s[2] # "CONTRIBUTION"
    <3>1. obligation'[s] \in {Created(obligation[s], PenaltyAmount, now), obligation[s]}
      BY <2>4 DEF WholePass
    <3>2. PenaltyAmount \in Minor
      BY ScheduleAssumption
    <3> QED
      BY <1>1, <2>2, <3>1, <3>2, StatementsRevise DEF Revised, RowIsSound
  <2> QED
    BY <2>3, <2>4
<1>5. Revises
  BY <1>2, <1>4 DEF Revises
<1>6. ASSUME NEW r \in Runner, NEW s \in Slot, HasDraft(r, s)'
      PROVE  (Fresh(obligation[s], pass[r].draft[s]) /\ Unlocked(r, s))'
  <2>1. HasDraft(r, s)
    BY <1>2, <1>6 DEF HasDraft
  <2>2. Fresh(obligation[s], pass[r].draft[s]) /\ Unlocked(r, s)
    BY <2>1 DEF LedgerInv, DraftsAreFresh
  <2>3. obligation'[s] = obligation[s]
    BY <2>1 DEF WholePass
  <2> QED
    BY <1>2, <2>2, <2>3 DEF Fresh, Unlocked, HasDraft
<1>7. DraftsAreFresh' /\ PassesAreSound'
  BY <1>2, <1>6 DEF DraftsAreFresh, PassesAreSound, PassIsSound, LedgerInv
<1> QED
  BY <1>2, <1>5, <1>7, RevisesInv DEF LedgerInv, TypeOK

(* A member submits a payment. *)
LEMMA SubmitInv ==
  ASSUME LedgerInv, NEW m \in Member, NEW p \in Payment, NEW amount \in Amounts, NEW wanted,
         SubmitPayment(m, p, amount, wanted)
  PROVE  LedgerInv'
<1> USE DEF LedgerInv
<1>1. PICK a \in Allocations(m, amount, wanted) : pending' = [pending EXCEPT ![p] = a]
  BY DEF SubmitPayment
<1>2. /\ a \in [Slot -> Minor]
      /\ \A s \in Slot : a[s] > 0 => s \in Payable(m)
  BY <1>1, AllocationFits
<1>3. payment' = [payment EXCEPT ![p] =
                   [status |-> "PENDING_VERIFICATION", member |-> m, amount |-> amount,
                    reviewer |-> None, historical |-> FALSE]]
  BY DEF SubmitPayment
<1>4. payment[p].status = "ABSENT" /\ pending[p] = Nothing /\ applied[p] = Nothing
  BY DEF SubmitPayment, AllocationsFollowStatus
<1>5. UNCHANGED <<now, rule, partial, plan, obligation, applied, pass, role, receipt, request>>
  BY DEF SubmitPayment
<1>6. TypeOK'
  <2>1. payment' \in [Payment -> PaymentRow]
    BY <1>3, LedgerAssumption DEF TypeOK, PaymentRow, PaymentStatus
  <2>2. pending' \in [Payment -> [Slot -> Minor]]
    BY <1>1, <1>2 DEF TypeOK
  <2> QED
    BY <1>5, <2>1, <2>2 DEF TypeOK
<1>7. NoOverpayment' /\ LedgerBalanced' /\ StatusTellsBalance' /\ AbsentRowsAreBlank' /\ DueRowsAreDue'
  <2>1. LedgerBalanced'
    BY <1>5, BooksKept
  <2> QED
    BY <1>5, <2>1 DEF NoOverpayment, StatusTellsBalance, AbsentRowsAreBlank, DueRowsAreDue
<1>8. MoneyOnDueRows'
  <2> SUFFICES ASSUME NEW q \in Payment, NEW s \in Slot,
                      pending'[q][s] > 0 \/ applied'[q][s] > 0
               PROVE  /\ obligation[s].status \in {"DUE", "PARTIALLY_PAID", "PAID"}
                      /\ obligation[s].dueAt <= now
                      /\ OwnerOf(s) = payment'[q].member
    BY <1>5 DEF MoneyOnDueRows
  <2>1. CASE q = p
    <3>1. pending'[q][s] = a[s] /\ applied'[q][s] = 0
      BY <1>1, <1>4, <1>5, <2>1 DEF TypeOK, Nothing
    <3>2. s \in Payable(m) /\ payment'[q].member = m
      BY <1>2, <1>3, <2>1, <3>1 DEF TypeOK
    <3> QED
      BY <3>2 DEF Payable
  <2>2. CASE q # p
    <3>1. pending'[q] = pending[q] /\ applied'[q] = applied[q] /\ payment'[q] = payment[q]
      BY <1>1, <1>3, <1>5, <2>2 DEF TypeOK
    <3> QED
      BY <3>1 DEF MoneyOnDueRows
  <2> QED
    BY <2>1, <2>2
<1>9. ReceiptsCertifyApprovals' /\ AllocationsFollowStatus'
  BY <1>1, <1>3, <1>4, <1>5 DEF ReceiptsCertifyApprovals, AllocationsFollowStatus, TypeOK
<1>10. RequestsAreSound'
  BY <1>3, <1>4, <1>5 DEF RequestsAreSound, TypeOK
<1>11. PassesAreSound' /\ DraftsAreFresh'
  <2>1. now \in Nat
    BY DEF TypeOK
  <2> HIDE DEF LedgerInv
  <2> QED
    BY <1>5, <2>1, PassesKept
<1> QED
  BY <1>6, <1>7, <1>8, <1>9, <1>10, <1>11

(* A payment that becomes APPROVED moves the amounts a to dues of its member:
   the common part of recordPayment and approvePayment. *)
LEMMA SettlementInv ==
  ASSUME LedgerInv, NEW m \in Member, NEW p \in Payment,
         payment[p].status # "APPROVED",
         NEW a \in [Slot -> Minor],
         \A s \in Slot :
           /\ obligation[s].paid + a[s] <= obligation[s].due
           /\ a[s] > 0 => /\ obligation[s].status \in {"DUE", "PARTIALLY_PAID", "PAID"}
                          /\ obligation[s].dueAt <= now
                          /\ OwnerOf(s) = payment'[p].member,
         NEW row \in PaymentRow, payment' = [payment EXCEPT ![p] = row],
         row.status = "APPROVED", row.member \in Member,
         Apply(a),
         applied' = [applied EXCEPT ![p] = a],
         pending' = [pending EXCEPT ![p] = Nothing],
         receipt' = receipt \cup {p},
         request' = [request EXCEPT ![m] = Idle],
         UNCHANGED <<now, rule, partial, plan, pass, role>>
  PROVE  LedgerInv'
<1> USE DEF LedgerInv
<1>1. applied[p] = Nothing
  BY DEF AllocationsFollowStatus
<1>2. /\ obligation' \in [Slot -> Obligation]
      /\ applied' \in [Payment -> [Slot -> Minor]]
      /\ NoOverpayment' /\ LedgerBalanced' /\ StatusTellsBalance' /\ AbsentRowsAreBlank'
  BY <1>1, MoneyMoves
<1>3. Idle \in Request /\ Nothing \in [Slot -> Minor]
  BY MaxMinorAssumption DEF Idle, Request, Role, PaymentStatus, Nothing, Minor
<1>4. TypeOK'
  BY <1>2, <1>3 DEF TypeOK
<1>5. ASSUME NEW s \in Slot, obligation[s].status \in {"DUE", "PARTIALLY_PAID", "PAID"},
             obligation[s].dueAt <= now
      PROVE  /\ obligation'[s].status \in {"DUE", "PARTIALLY_PAID", "PAID"}
             /\ obligation'[s].dueAt <= now
  <2>1. /\ obligation'[s].dueAt = obligation[s].dueAt
        /\ a[s] = 0 => obligation'[s] = obligation[s]
        /\ a[s] > 0 => obligation'[s].status = StatusFor(obligation[s].due, obligation[s].paid + a[s])
    BY ApplyAdds
  <2>2. a[s] = 0 \/ a[s] > 0
    BY MaxMinorAssumption DEF Minor
  <2> QED
    BY <1>5, <2>1, <2>2 DEF StatusFor
<1>6. MoneyOnDueRows'
  <2> SUFFICES ASSUME NEW q \in Payment, NEW s \in Slot,
                      pending'[q][s] > 0 \/ applied'[q][s] > 0
               PROVE  /\ obligation'[s].status \in {"DUE", "PARTIALLY_PAID", "PAID"}
                      /\ obligation'[s].dueAt <= now
                      /\ OwnerOf(s) = payment'[q].member
    BY DEF MoneyOnDueRows
  <2>3. CASE q = p
    <3>1. pending'[q][s] = 0 /\ applied'[q][s] = a[s]
      BY <2>3 DEF TypeOK, Nothing
    <3>2. /\ obligation[s].status \in {"DUE", "PARTIALLY_PAID", "PAID"}
          /\ obligation[s].dueAt <= now
          /\ OwnerOf(s) = payment'[q].member
      BY <2>3, <3>1
    <3> QED
      BY <1>5, <3>2
  <2>4. CASE q # p
    <3>1. pending'[q] = pending[q] /\ applied'[q] = applied[q] /\ payment'[q] = payment[q]
      BY <2>4 DEF TypeOK
    <3>2. /\ obligation[s].status \in {"DUE", "PARTIALLY_PAID", "PAID"}
          /\ obligation[s].dueAt <= now
          /\ OwnerOf(s) = payment[q].member
      BY <3>1 DEF MoneyOnDueRows
    <3> QED
      BY <1>5, <3>1, <3>2
  <2> QED
    BY <2>3, <2>4
<1>7. ReceiptsCertifyApprovals' /\ AllocationsFollowStatus'
  BY DEF ReceiptsCertifyApprovals, AllocationsFollowStatus, TypeOK
<1>8. RequestsAreSound'
  BY DEF RequestsAreSound, TypeOK, Idle
<1>9. ASSUME NEW s \in Slot
      PROVE  \/ obligation'[s] = obligation[s]
             \/ /\ obligation[s].status \in {"DUE", "PARTIALLY_PAID", "PAID"}
                /\ obligation[s].dueAt <= now
  <2>1. a[s] = 0 \/ a[s] > 0
    BY MaxMinorAssumption DEF Minor
  <2>2. a[s] = 0 => obligation'[s] = obligation[s]
    BY ApplyAdds
  <2> QED
    BY <2>1, <2>2
<1>10. DueRowsAreDue'
  BY <1>5, <1>9 DEF DueRowsAreDue
<1>11. PassesAreSound' /\ DraftsAreFresh'
  <2>1. now \in Nat
    BY DEF TypeOK
  <2>2. \A s \in Slot : obligation[s].status \in {"ABSENT", "UPCOMING", "WAIVED"}
                          => obligation'[s] = obligation[s]
    BY <1>9
  <2> HIDE DEF LedgerInv
  <2> QED
    BY <2>1, <2>2, PassesKept
<1> QED
  BY <1>2, <1>4, <1>6, <1>7, <1>8, <1>10, <1>11

(* An officer records a payment. *)
LEMMA RecordInv ==
  ASSUME LedgerInv, NEW m \in Member, NEW p \in Payment, NEW amount \in Amounts, NEW wanted,
         CommitRecord(m, p, amount, wanted)
  PROVE  LedgerInv'
<1> USE DEF LedgerInv
<1> DEFINE payer == request[m].payer
           row == [status |-> "APPROVED", member |-> payer, amount |-> amount,
                   reviewer |-> m, historical |-> FALSE]
<1>1. payer \in Member
  BY DEF CommitRecord, RequestsAreSound
<1>2. PICK a \in Allocations(payer, amount, wanted) :
        applied' = [applied EXCEPT ![p] = a] /\ Apply(a)
  BY DEF CommitRecord
<1>3. /\ a \in [Slot -> Minor]
      /\ \A s \in Slot : /\ obligation[s].paid + a[s] <= obligation[s].due
                         /\ a[s] > 0 => s \in Payable(payer)
  BY AllocationFits
<1>4. row \in PaymentRow /\ row.status = "APPROVED" /\ row.member = payer
  BY <1>1, LedgerAssumption DEF PaymentRow, PaymentStatus
<1>5. payment' = [payment EXCEPT ![p] = row] /\ payment[p].status = "ABSENT"
  BY DEF CommitRecord
<1>6. payment'[p].member = payer
  BY <1>4, <1>5 DEF TypeOK
<1>7. pending' = [pending EXCEPT ![p] = Nothing]
  <2>1. pending' = pending /\ pending[p] = Nothing
    BY <1>5 DEF CommitRecord, AllocationsFollowStatus
  <2> QED
    BY <2>1 DEF TypeOK
<1>8. /\ receipt' = receipt \cup {p}
      /\ request' = [request EXCEPT ![m] = Idle]
      /\ UNCHANGED <<now, rule, partial, plan, pass, role>>
  BY DEF CommitRecord
<1>9. ASSUME NEW s \in Slot, a[s] > 0
      PROVE  /\ obligation[s].status \in {"DUE", "PARTIALLY_PAID", "PAID"}
             /\ obligation[s].dueAt <= now
             /\ OwnerOf(s) = payment'[p].member
  BY <1>3, <1>6, <1>9 DEF Payable
<1> HIDE DEF row, LedgerInv
<1> QED
  BY <1>1, <1>2, <1>3, <1>4, <1>5, <1>7, <1>8, <1>9, SettlementInv

(* A decided row is a row, of the same member. *)
LEMMA DecidedRow ==
  ASSUME NEW old \in PaymentRow, NEW status \in PaymentStatus, NEW m \in Member
  PROVE  /\ Decided(old, status, m) \in PaymentRow
         /\ Decided(old, status, m).status = status
         /\ Decided(old, status, m).member = old.member
BY DEF PaymentRow, Decided

(* An officer approves a submitted payment. *)
LEMMA ApprovalInv ==
  ASSUME LedgerInv, NEW m \in Member, CommitApproval(m)
  PROVE  LedgerInv'
<1> USE DEF LedgerInv
<1>1. PICK p \in Payment : p = request[m].payment
  BY DEF CommitApproval, RequestsAreSound
<1>2. PICK a \in [Slot -> Minor] : a = pending[p]
  BY <1>1 DEF TypeOK
<1>3. PICK row : row = Decided(payment[p], "APPROVED", m)
  OBVIOUS
<1>4. /\ payment[p].status # "APPROVED" /\ payment[p].status # "ABSENT"
      /\ payment[p].member \in Member /\ payment[p] \in PaymentRow
  BY <1>1 DEF CommitApproval, Reviewable, AllocationsFollowStatus, TypeOK
<1>5. row \in PaymentRow /\ row.status = "APPROVED" /\ row.member = payment[p].member
  <2>1. "APPROVED" \in PaymentStatus
    BY DEF PaymentStatus
  <2> HIDE DEF LedgerInv
  <2> QED
    BY <1>3, <1>4, <2>1, DecidedRow
<1>6. payment' = [payment EXCEPT ![p] = row]
  BY <1>1, <1>3 DEF CommitApproval
<1>7. payment'[p].member = payment[p].member
  BY <1>5, <1>6 DEF TypeOK
<1>8. ASSUME NEW s \in Slot
      PROVE  /\ obligation[s].paid + a[s] <= obligation[s].due
             /\ a[s] > 0 => /\ obligation[s].status \in {"DUE", "PARTIALLY_PAID", "PAID"}
                            /\ obligation[s].dueAt <= now
                            /\ OwnerOf(s) = payment'[p].member
  BY <1>1, <1>2, <1>7 DEF CommitApproval, FitsDues, MoneyOnDueRows
<1>9. /\ Apply(a)
      /\ applied' = [applied EXCEPT ![p] = a]
      /\ pending' = [pending EXCEPT ![p] = Nothing]
      /\ receipt' = receipt \cup {p}
      /\ request' = [request EXCEPT ![m] = Idle]
      /\ UNCHANGED <<now, rule, partial, plan, pass, role>>
  BY <1>1, <1>2 DEF CommitApproval
<1> HIDE DEF LedgerInv
<1> QED
  BY <1>4, <1>5, <1>6, <1>8, <1>9, SettlementInv

(* A payment that is refused: its row changes, no money moves. *)
LEMMA RefusalInv ==
  ASSUME LedgerInv, NEW m \in Member, NEW p \in Payment,
         payment[p].status \in Reviewable,
         NEW row \in PaymentRow, payment' = [payment EXCEPT ![p] = row],
         row.status \in {"REJECTED", "CORRECTION_REQUESTED"},
         row.member = payment[p].member,
         request' = [request EXCEPT ![m] = Idle],
         UNCHANGED <<schedule, role, receipt>>
  PROVE  LedgerInv'
<1> USE DEF LedgerInv
<1>1. Idle \in Request
  BY DEF Idle, Request, Role, PaymentStatus
<1> USE DEF schedule
<1>2. TypeOK'
  BY <1>1 DEF TypeOK
<1>3. NoOverpayment' /\ LedgerBalanced' /\ StatusTellsBalance' /\ AbsentRowsAreBlank' /\ DueRowsAreDue'
  <2>1. LedgerBalanced'
    BY BooksKept
  <2> QED
    BY <2>1 DEF NoOverpayment, StatusTellsBalance, AbsentRowsAreBlank, DueRowsAreDue
<1>4. \A q \in Payment : payment'[q].member = payment[q].member /\ (q # p => payment'[q] = payment[q])
  BY DEF TypeOK
<1>5. payment'[p] = row
  BY DEF TypeOK
<1>6. MoneyOnDueRows'
  BY <1>4 DEF MoneyOnDueRows
<1>7. ReceiptsCertifyApprovals' /\ AllocationsFollowStatus'
  BY <1>4, <1>5 DEF ReceiptsCertifyApprovals, AllocationsFollowStatus, Reviewable
<1>8. RequestsAreSound'
  BY <1>4, <1>5 DEF RequestsAreSound, TypeOK, Idle, Reviewable
<1>9. PassesAreSound' /\ DraftsAreFresh'
  <2>1. now \in Nat
    BY DEF TypeOK
  <2> HIDE DEF LedgerInv
  <2> QED
    BY <2>1, PassesKept
<1> QED
  BY <1>2, <1>3, <1>6, <1>7, <1>8, <1>9

(* Rejections and correction requests. *)
LEMMA WriteReviewInv ==
  ASSUME LedgerInv, NEW m \in Member, WriteReview(m)
  PROVE  LedgerInv'
<1>1. PICK p \in Payment : p = request[m].payment
  BY DEF WriteReview, RequestsAreSound, LedgerInv
<1>2. PICK st \in {"REJECTED", "CORRECTION_REQUESTED"} :
        payment' = [payment EXCEPT ![p] = Decided(payment[p], st, m)]
  BY <1>1 DEF WriteReview
<1>3. payment[p].status \in Reviewable /\ payment[p] \in PaymentRow
  BY <1>1 DEF WriteReview, StillAsRead, RequestsAreSound, LedgerInv, TypeOK
<1>4. PICK row : row = Decided(payment[p], st, m)
  OBVIOUS
<1>5. row \in PaymentRow /\ row.status = st /\ row.member = payment[p].member
  <2>1. st \in PaymentStatus
    BY DEF PaymentStatus
  <2> QED
    BY <1>3, <1>4, <2>1, DecidedRow
<1>6. payment' = [payment EXCEPT ![p] = row]
  BY <1>2, <1>4
<1>7. /\ request' = [request EXCEPT ![m] = Idle]
      /\ UNCHANGED <<schedule, role, receipt>>
  BY DEF WriteReview
<1> QED
  BY <1>3, <1>5, <1>6, <1>7, RefusalInv

(* Every other step changes no row of the books; the requests it starts or
   ends are sound. *)
LEMMA QuietInv ==
  ASSUME LedgerInv,
         UNCHANGED <<obligation, pending, applied, pass>>,
         TypeOK', now' >= now,
         ReceiptsCertifyApprovals', RequestsAreSound',
         \A p \in Payment : \/ payment'[p] = payment[p]
                            \/ /\ payment[p].status = "ABSENT"
                               /\ payment'[p].status = "APPROVED"
                               /\ payment'[p].member \in Member
  PROVE  LedgerInv'
<1> USE DEF LedgerInv
<1>1. NoOverpayment' /\ LedgerBalanced' /\ StatusTellsBalance' /\ AbsentRowsAreBlank' /\ DueRowsAreDue'
  <2>1. LedgerBalanced'
    BY BooksKept
  <2>2. \A s \in Slot : obligation[s].dueAt \in Nat /\ now \in Nat /\ now' \in Nat
    BY DEF TypeOK, Obligation
  <2> QED
    BY <2>1, <2>2 DEF NoOverpayment, StatusTellsBalance, AbsentRowsAreBlank, DueRowsAreDue
<1>2. AllocationsFollowStatus'
  BY DEF AllocationsFollowStatus
<1>3. MoneyOnDueRows'
  <2> SUFFICES ASSUME NEW q \in Payment, NEW s \in Slot,
                      pending[q][s] > 0 \/ applied[q][s] > 0
               PROVE  /\ obligation[s].status \in {"DUE", "PARTIALLY_PAID", "PAID"}
                      /\ obligation[s].dueAt <= now'
                      /\ OwnerOf(s) = payment'[q].member
    BY DEF MoneyOnDueRows
  <2>1. /\ obligation[s].status \in {"DUE", "PARTIALLY_PAID", "PAID"}
        /\ obligation[s].dueAt <= now
        /\ OwnerOf(s) = payment[q].member
    BY DEF MoneyOnDueRows
  <2>2. obligation[s].dueAt \in Nat /\ now \in Nat /\ now' \in Nat
    BY DEF TypeOK, Obligation
  <2>3. payment[q].status # "ABSENT"
    BY DEF AllocationsFollowStatus, Nothing
  <2> QED
    BY <2>1, <2>2, <2>3
<1>4. PassesAreSound' /\ DraftsAreFresh'
  <2>1. now' \in Nat
    BY DEF TypeOK
  <2> HIDE DEF LedgerInv
  <2> QED
    BY <2>1, PassesKept
<1> QED
  BY <1>1, <1>2, <1>3, <1>4

(* Time, rules and roles. *)
LEMMA SettingsInv ==
  ASSUME LedgerInv,
         \/ Tick
         \/ \E r \in Rules : SavePaymentRules(r)
         \/ \E mr \in Assignable : AssignRole(mr[1], mr[2])
  PROVE  LedgerInv'
<1>1. /\ UNCHANGED <<plan, obligation, pending, applied, pass, payment, receipt, request>>
      /\ now' \in {now, now + 1} /\ role' \in [Member -> Role] /\ rule' \in Rule /\ partial' \in BOOLEAN
  <2>1. CASE Tick
    BY <2>1 DEF Tick, LedgerInv, TypeOK
  <2>2. ASSUME NEW r \in Rules, SavePaymentRules(r)
        PROVE  <1>1!1 /\ <1>1!2
    <3>1. rule' \in Rule /\ partial' \in BOOLEAN
      BY <2>2, LedgerAssumption DEF SavePaymentRules, Rule, LedgerInv, TypeOK
    <3> QED
      BY <2>2, <3>1 DEF SavePaymentRules, LedgerInv, TypeOK
  <2>3. ASSUME NEW mr \in Assignable, AssignRole(mr[1], mr[2])
        PROVE  <1>1!1 /\ <1>1!2
    <3>1. mr[1] \in Member /\ mr[2] \in Role
      BY LedgerAssumption
    <3> QED
      BY <2>3, <3>1 DEF AssignRole, schedule, LedgerInv, TypeOK
  <2> QED
    BY <2>1, <2>2, <2>3
<1>2. now \in Nat
  BY DEF LedgerInv, TypeOK
<1>3. TypeOK'
  BY <1>1, <1>2 DEF LedgerInv, TypeOK
<1>4. ReceiptsCertifyApprovals' /\ RequestsAreSound'
  BY <1>1 DEF LedgerInv, ReceiptsCertifyApprovals, RequestsAreSound
<1> QED
  BY <1>1, <1>2, <1>3, <1>4, QuietInv

(* Handlers that start, read or end without touching a payment. *)
LEMMA HandlerInv ==
  ASSUME LedgerInv, NEW m \in Member,
         \/ \E payer \in Member : BeginRecord(m, payer)
         \/ \E p \in Payment, op \in ReviewOps : BeginReview(m, p, op)
         \/ ReadForReview(m)
         \/ AbandonRequest(m)
  PROVE  LedgerInv'
<1> DEFINE Sound(r) ==
      /\ r \in Request
      /\ r.op = "RECORD" => r.payer \in Member
      /\ r.op # "IMPORT"
      /\ r.op \in {"APPROVE", "REJECT", "CORRECT", "WRITE_REJECT", "WRITE_CORRECT"} =>
           /\ r.payment \in Payment
           /\ payment[r.payment].status # "ABSENT"
      /\ r.op \in {"WRITE_REJECT", "WRITE_CORRECT"} => r.seen \in Reviewable
<1>1. UNCHANGED <<now, rule, partial, plan, obligation, pending, applied, pass, role, payment, receipt>>
  BY DEF schedule, BeginRecord, BeginReview, ReadForReview, AbandonRequest
<1>2. \E r : Sound(r) /\ request' = [request EXCEPT ![m] = r]
  <2>1. ASSUME NEW payer \in Member, BeginRecord(m, payer)
        PROVE  <1>2
    <3>1. PICK r : r = [Idle EXCEPT !.op = "RECORD", !.payer = payer, !.role = role[m]]
      OBVIOUS
    <3>2. role[m] \in Role
      BY DEF LedgerInv, TypeOK
    <3>3. r \in Request /\ r.op = "RECORD" /\ r.payer = payer
      BY <3>1, <3>2 DEF Idle, Request, PaymentStatus
    <3> QED
      BY <2>1, <3>1, <3>3 DEF BeginRecord
  <2>2. ASSUME NEW p \in Payment, NEW op \in ReviewOps, BeginReview(m, p, op)
        PROVE  <1>2
    <3>1. PICK r : r = [Idle EXCEPT !.op = op, !.payment = p, !.role = role[m]]
      OBVIOUS
    <3>2. role[m] \in Role /\ op \in {"APPROVE", "REJECT", "CORRECT"} /\ payment[p].status # "ABSENT"
      BY <2>2, LedgerAssumption DEF BeginReview, LedgerInv, TypeOK
    <3>3. r \in Request /\ r.op = op /\ r.payment = p
      BY <3>1, <3>2 DEF Idle, Request, PaymentStatus
    <3> QED
      BY <2>2, <3>1, <3>2, <3>3 DEF BeginReview
  <2>3. ASSUME ReadForReview(m)
        PROVE  <1>2
    <3>1. PICK st : st = payment[request[m].payment].status
      OBVIOUS
    <3>2. PICK q \in Request : q = request[m]
      BY DEF LedgerInv, TypeOK
    <3>3. /\ q.op \in {"REJECT", "CORRECT"} /\ q.payment \in Payment
          /\ payment[q.payment].status = st /\ st \in Reviewable
      BY <2>3, <3>1, <3>2 DEF ReadForReview, LedgerInv, RequestsAreSound, Reviewable
    <3>4. PICK r : r = [q EXCEPT !.op = IF q.op = "REJECT" THEN "WRITE_REJECT" ELSE "WRITE_CORRECT",
                                 !.seen = st]
      OBVIOUS
    <3>5. /\ r \in Request /\ r.op \in {"WRITE_REJECT", "WRITE_CORRECT"}
          /\ r.payment = q.payment /\ r.seen = st
      BY <3>3, <3>4 DEF Request, Reviewable, PaymentStatus
    <3>6. request' = [request EXCEPT ![m] = r]
      BY <2>3, <3>1, <3>2, <3>4 DEF ReadForReview, LedgerInv, TypeOK
    <3> QED
      BY <3>3, <3>5, <3>6 DEF Reviewable
  <2>4. ASSUME AbandonRequest(m)
        PROVE  <1>2
    <3>1. Sound(Idle)
      BY DEF Idle, Request, Role, PaymentStatus
    <3> QED
      BY <2>4, <3>1 DEF AbandonRequest
  <2> QED
    BY <2>1, <2>2, <2>3, <2>4
<1>3. PICK r : Sound(r) /\ request' = [request EXCEPT ![m] = r]
  BY <1>2
<1>4. TypeOK'
  BY <1>1, <1>3 DEF LedgerInv, TypeOK
<1>5. ReceiptsCertifyApprovals'
  BY <1>1 DEF LedgerInv, ReceiptsCertifyApprovals
<1>6. RequestsAreSound'
  BY <1>1, <1>3 DEF LedgerInv, TypeOK, RequestsAreSound
<1>7. now \in Nat
  BY DEF LedgerInv, TypeOK
<1> QED
  BY <1>1, <1>4, <1>5, <1>6, <1>7, QuietInv

(* Historical imports and their receipts. *)
LEMMA ImportInv ==
  ASSUME LedgerInv, NEW m \in Member,
         \/ \E payer \in Member, p \in Payment, amount \in Amounts : ImportHistorical(m, p, payer, amount)
         \/ IssueHistoricalReceipt(m)
  PROVE  LedgerInv'
<1>1. now \in Nat
  BY DEF LedgerInv, TypeOK
<1>2. ASSUME NEW payer \in Member, NEW p \in Payment, NEW amount \in Amounts,
             ImportHistorical(m, p, payer, amount)
      PROVE  LedgerInv'
  <2>1. UNCHANGED <<now, rule, partial, plan, obligation, pending, applied, pass, role, receipt>>
    BY <1>2 DEF ImportHistorical, schedule
  <2>2. payment[p].status = "ABSENT"
    BY <1>2 DEF ImportHistorical
  <2>3. PICK row : row = [status |-> "APPROVED", member |-> payer, amount |-> amount,
                          reviewer |-> m, historical |-> TRUE]
    OBVIOUS
  <2>4. row \in PaymentRow /\ row.status = "APPROVED" /\ row.member = payer /\ row.historical
    BY <2>3, LedgerAssumption DEF PaymentRow, PaymentStatus
  <2>5. payment' = [payment EXCEPT ![p] = row]
    BY <1>2, <2>3 DEF ImportHistorical
  <2>6. PICK r : r = [Idle EXCEPT !.op = "IMPORT", !.payment = p]
    OBVIOUS
  <2>7. r \in Request /\ r.op = "IMPORT" /\ r.payment = p
    BY <2>6 DEF Idle, Request, Role, PaymentStatus
  <2>8. request' = [request EXCEPT ![m] = r]
    BY <1>2, <2>6 DEF ImportHistorical
  <2>9. TypeOK'
    BY <2>1, <2>4, <2>5, <2>7, <2>8 DEF LedgerInv, TypeOK
  <2>10. /\ payment'[p] = row
         /\ \A q \in Payment : q # p => payment'[q] = payment[q]
    BY <2>5 DEF LedgerInv, TypeOK
  <2>11. ReceiptsCertifyApprovals'
    BY <2>1, <2>2, <2>4, <2>10 DEF LedgerInv, ReceiptsCertifyApprovals
  <2>12. RequestsAreSound'
    BY <2>2, <2>4, <2>7, <2>8, <2>10 DEF LedgerInv, TypeOK, RequestsAreSound
  <2> QED
    BY <1>1, <2>1, <2>2, <2>4, <2>9, <2>10, <2>11, <2>12, QuietInv
<1>3. CASE IssueHistoricalReceipt(m)
  <2>1. PICK p \in Payment : p = request[m].payment /\ payment[p].status = "APPROVED"
    BY <1>3 DEF IssueHistoricalReceipt, LedgerInv, RequestsAreSound
  <2>2. /\ receipt' = receipt \cup {p}
        /\ request' = [request EXCEPT ![m] = Idle]
        /\ UNCHANGED <<now, rule, partial, plan, obligation, pending, applied, pass, role, payment>>
    BY <1>3, <2>1 DEF IssueHistoricalReceipt, schedule
  <2>3. Idle \in Request /\ Idle.op = "NONE"
    BY DEF Idle, Request, Role, PaymentStatus
  <2>4. TypeOK'
    BY <2>2, <2>3 DEF LedgerInv, TypeOK
  <2>5. ReceiptsCertifyApprovals'
    BY <2>1, <2>2 DEF LedgerInv, ReceiptsCertifyApprovals
  <2>6. RequestsAreSound'
    BY <2>2, <2>3 DEF LedgerInv, TypeOK, RequestsAreSound
  <2> QED
    BY <1>1, <2>2, <2>4, <2>5, <2>6, QuietInv
<1> QED
  BY <1>2, <1>3

(* Every step keeps the invariant. *)
LEMMA NextInv == LedgerInv /\ [Next]_vars => LedgerInv'
<1> SUFFICES ASSUME LedgerInv, [Next]_vars
             PROVE  LedgerInv'
  OBVIOUS
<1>1. CASE Tick \/ (\E r \in Rules : SavePaymentRules(r))
           \/ (\E mr \in Assignable : AssignRole(mr[1], mr[2]))
  BY <1>1, SettingsInv
<1>2. CASE RunSchedule
  <2>1. ASSUME NEW rc \in RunnerCalls, BeginPass(rc[1], rc[2])
        PROVE  LedgerInv'
    <3>1. rc[1] \in Runner
      BY LedgerAssumption
    <3> QED
      BY <1>2, <2>1, <3>1, BeginPassInv DEF RunSchedule
  <2> QED
    BY <1>2, <2>1, PassStepInv DEF RunSchedule
<1>3. ASSUME NEW r \in Runner, NEW price \in Prices, NEW active \in BOOLEAN,
             SaveContributionSettings(r, price, active)
      PROVE  LedgerInv'
  <2>1. price \in Minor
    BY LedgerAssumption
  <2> QED
    BY <1>3, <2>1, BeginPassInv DEF SaveContributionSettings
<1>4. ASSUME NEW m \in Member, NEW p \in Payment, NEW amount \in Amounts,
             \/ \E wanted \in SUBSET Slot : SubmitPayment(m, p, amount, wanted)
             \/ \E wanted \in SUBSET Slot : CommitRecord(m, p, amount, wanted)
      PROVE  LedgerInv'
  BY <1>4, SubmitInv, RecordInv
<1>5. ASSUME NEW m \in Member,
             \/ CommitApproval(m)
             \/ WriteReview(m)
      PROVE  LedgerInv'
  BY <1>5, ApprovalInv, WriteReviewInv
<1>6. ASSUME NEW m \in Member,
             \/ \E payer \in Member : BeginRecord(m, payer)
             \/ \E p \in Payment, op \in ReviewOps : BeginReview(m, p, op)
             \/ ReadForReview(m)
             \/ AbandonRequest(m)
      PROVE  LedgerInv'
  BY <1>6, HandlerInv
<1>7. ASSUME NEW m \in Member,
             \/ \E payer \in Member, p \in Payment, amount \in Amounts :
                  ImportHistorical(m, p, payer, amount)
             \/ IssueHistoricalReceipt(m)
      PROVE  LedgerInv'
  BY <1>7, ImportInv
<1>8. CASE SaveFinancialYear
  BY <1>8, WholePassInv DEF SaveFinancialYear
<1>9. CASE UNCHANGED vars
  <2>1. now \in Nat /\ TypeOK' /\ ReceiptsCertifyApprovals' /\ RequestsAreSound'
    BY <1>9 DEF vars, LedgerInv, TypeOK, ReceiptsCertifyApprovals, RequestsAreSound
  <2> QED
    BY <1>9, <2>1, QuietInv DEF vars
<1> QED
  BY <1>1, <1>2, <1>3, <1>4, <1>5, <1>6, <1>7, <1>8, <1>9 DEF Next

(* The invariant of the ledger: it holds in every state that any number of
   members, officers and passes of the schedule can reach. *)
THEOREM LedgerInvariant == Spec => []LedgerInv
<1>1. Init => LedgerInv
  BY InitInv
<1>2. LedgerInv /\ [Next]_vars => LedgerInv'
  BY NextInv
<1> QED
  BY <1>1, <1>2, PTL DEF Spec

-----------------------------------------------------------------------------
(* What the ledger guarantees. *)

(* Every column holds a value of its type. *)
THEOREM TypeCorrect == Spec => []TypeOK
<1>1. LedgerInv => TypeOK
  BY DEF LedgerInv
<1> QED
  BY <1>1, LedgerInvariant, PTL

(* No due is ever paid more than it is worth. *)
THEOREM NeverOverpaid == Spec => []NoOverpayment
<1>1. LedgerInv => NoOverpayment
  BY DEF LedgerInv
<1> QED
  BY <1>1, LedgerInvariant, PTL

(* What is paid on a due is the sum of the allocations applied to it. *)
THEOREM BooksBalance == Spec => []LedgerBalanced
<1>1. LedgerInv => LedgerBalanced
  BY DEF LedgerInv
<1> QED
  BY <1>1, LedgerInvariant, PTL

(* The status of a due tells how much of it is paid. *)
THEOREM StatusIsHonest == Spec => []StatusTellsBalance
<1>1. LedgerInv => StatusTellsBalance
  BY DEF LedgerInv
<1> QED
  BY <1>1, LedgerInvariant, PTL

(* Receipts certify approved payments, and approvals in one transaction have
   their receipt. *)
THEOREM ReceiptsAreTrue == Spec => []ReceiptsCertifyApprovals
<1>1. LedgerInv => ReceiptsCertifyApprovals
  BY DEF LedgerInv
<1> QED
  BY <1>1, LedgerInvariant, PTL

(* The kinds of step, seen from the dues and the decisions: money moves from
   payment p to dues of h ... *)
Moves(p, h, a) ==
  /\ payment[p].status \notin {"APPROVED", "REJECTED"}
  /\ \A s \in Slot : /\ obligation[s].paid + a[s] <= obligation[s].due
                     /\ a[s] > 0 => OwnerOf(s) = h
  /\ Apply(a)
  /\ \E row : row.status = "APPROVED" /\ payment' = [payment EXCEPT ![p] = row]

(* ... or a statement of the schedule revises rows that carry no money, and no
   payment changes (Revises) ... *)

(* ... or no due changes, and at most one undecided payment does. *)
Quiet ==
  /\ obligation' = obligation
  /\ \/ payment' = payment
     \/ \E p \in Payment : /\ payment[p].status \notin {"APPROVED", "REJECTED"}
                           /\ \E row : payment' = [payment EXCEPT ![p] = row]

(* Recording a payment moves its money ... *)
LEMMA RecordMoves ==
  ASSUME LedgerInv, NEW m \in Member, NEW p \in Payment, NEW amount, NEW wanted,
         CommitRecord(m, p, amount, wanted)
  PROVE  \E h \in Member, a \in [Slot -> Minor] : Moves(p, h, a)
<1>1. PICK h \in Member : h = request[m].payer
  BY DEF CommitRecord, LedgerInv, RequestsAreSound
<1>2. PICK a \in Allocations(h, amount, wanted) : Apply(a)
  BY <1>1 DEF CommitRecord
<1>3. /\ a \in [Slot -> Minor]
      /\ \A s \in Slot : /\ obligation[s].paid + a[s] <= obligation[s].due
                         /\ a[s] > 0 => s \in Payable(h)
  BY <1>2, AllocationFits DEF LedgerInv
<1>4. payment[p].status = "ABSENT"
  BY DEF CommitRecord
<1>5. \E row : row.status = "APPROVED" /\ payment' = [payment EXCEPT ![p] = row]
  BY DEF CommitRecord
<1> QED
  BY <1>2, <1>3, <1>4, <1>5 DEF Moves, Payable

(* ... and so does approving one. *)
LEMMA ApprovalMoves ==
  ASSUME LedgerInv, NEW m \in Member, CommitApproval(m)
  PROVE  \E p \in Payment, h \in Member, a \in [Slot -> Minor] : Moves(p, h, a)
<1>1. PICK p \in Payment : p = request[m].payment
  BY DEF CommitApproval, LedgerInv, RequestsAreSound
<1>2. PICK a \in [Slot -> Minor] : a = pending[p]
  BY <1>1 DEF LedgerInv, TypeOK
<1>3. payment[p].status \in Reviewable /\ Apply(a) /\ FitsDues(p)
  BY <1>1, <1>2 DEF CommitApproval
<1>4. PICK h \in Member : h = payment[p].member
  BY <1>3 DEF LedgerInv, AllocationsFollowStatus, Reviewable
<1>5. \A s \in Slot : /\ obligation[s].paid + a[s] <= obligation[s].due
                      /\ a[s] > 0 => OwnerOf(s) = h
  BY <1>2, <1>3, <1>4 DEF FitsDues, LedgerInv, MoneyOnDueRows
<1>6. payment' = [payment EXCEPT ![p] = Decided(payment[p], "APPROVED", m)]
  BY <1>1 DEF CommitApproval
<1>7. payment[p] \in PaymentRow /\ "APPROVED" \in PaymentStatus
  BY DEF LedgerInv, TypeOK, PaymentStatus
<1>8. Decided(payment[p], "APPROVED", m).status = "APPROVED"
  BY <1>7, DecidedRow
<1> QED
  BY <1>3, <1>5, <1>6, <1>8 DEF Moves, Reviewable

(* Every step of the ledger is of one of these kinds. *)
LEMMA StepShape ==
  ASSUME LedgerInv, [Next]_vars
  PROVE  \/ \E p \in Payment, h \in Member, a \in [Slot -> Minor] : Moves(p, h, a)
         \/ Revises
         \/ Quiet
<1>1. CASE Tick \/ UNCHANGED vars
  BY <1>1 DEF Tick, vars, Quiet
<1>2. CASE RunSchedule
  <2>1. ASSUME NEW rc \in RunnerCalls, BeginPass(rc[1], rc[2])
        PROVE  Revises
    <3>1. rc[1] \in Runner
      BY LedgerAssumption
    <3> QED
      BY <1>2, <2>1, <3>1, BeginPassInv DEF RunSchedule
  <2> QED
    BY <1>2, <2>1, PassStepInv DEF RunSchedule
<1>3. ASSUME \/ SaveFinancialYear
             \/ \E r \in Runner, price \in Prices, active \in BOOLEAN :
                  SaveContributionSettings(r, price, active)
      PROVE  Revises
  <2>1. \A price \in Prices : price \in Minor
    BY LedgerAssumption
  <2> QED
    BY <1>3, <2>1, WholePassInv, BeginPassInv DEF SaveFinancialYear, SaveContributionSettings
<1>4. ASSUME NEW r, SavePaymentRules(r)
      PROVE  Quiet
  BY <1>4 DEF SavePaymentRules, Quiet
<1>5. ASSUME NEW m, NEW newRole, AssignRole(m, newRole)
      PROVE  Quiet
  BY <1>5 DEF AssignRole, schedule, Quiet
<1>6. ASSUME NEW m, NEW p \in Payment, NEW amount, NEW wanted, SubmitPayment(m, p, amount, wanted)
      PROVE  Quiet
  BY <1>6 DEF SubmitPayment, Quiet
<1>7. ASSUME NEW m, NEW payer, BeginRecord(m, payer)
      PROVE  Quiet
  BY <1>7 DEF BeginRecord, schedule, Quiet
<1>8. ASSUME NEW m \in Member, NEW p \in Payment, NEW amount, NEW wanted, CommitRecord(m, p, amount, wanted)
      PROVE  \E h \in Member, a \in [Slot -> Minor] : Moves(p, h, a)
  BY <1>8, RecordMoves
<1>9. ASSUME NEW m, NEW payer, NEW p \in Payment, NEW amount, ImportHistorical(m, p, payer, amount)
      PROVE  Quiet
  BY <1>9 DEF ImportHistorical, schedule, Quiet
<1>10. ASSUME NEW m, IssueHistoricalReceipt(m) \/ ReadForReview(m) \/ AbandonRequest(m)
       PROVE  Quiet
  BY <1>10 DEF IssueHistoricalReceipt, ReadForReview, AbandonRequest, schedule, Quiet
<1>11. ASSUME NEW m, NEW p, NEW op, BeginReview(m, p, op)
       PROVE  Quiet
  BY <1>11 DEF BeginReview, schedule, Quiet
<1>12. ASSUME NEW m \in Member, CommitApproval(m)
       PROVE  \E p \in Payment, h \in Member, a \in [Slot -> Minor] : Moves(p, h, a)
  BY <1>12, ApprovalMoves
<1>13. ASSUME NEW m \in Member, WriteReview(m)
       PROVE  Quiet
  <2>1. PICK p \in Payment : p = request[m].payment
    BY <1>13 DEF WriteReview, LedgerInv, RequestsAreSound
  <2>2. payment[p].status \in Reviewable
    BY <1>13, <2>1 DEF WriteReview, StillAsRead, LedgerInv, RequestsAreSound
  <2>3. \E st : payment' = [payment EXCEPT ![p] = Decided(payment[p], st, m)]
    BY <1>13, <2>1 DEF WriteReview
  <2>4. obligation' = obligation
    BY <1>13 DEF WriteReview, schedule
  <2> QED
    BY <2>2, <2>3, <2>4 DEF Quiet, Reviewable
<1> QED
  BY <1>1, <1>2, <1>3, <1>4, <1>5, <1>6, <1>7, <1>8, <1>9, <1>10, <1>11, <1>12, <1>13 DEF Next

(* No step changes a payment that is approved or rejected. *)
LEMMA DecisionKept ==
  ASSUME LedgerInv, [Next]_vars, NEW p \in Payment, payment[p].status \in {"APPROVED", "REJECTED"}
  PROVE  payment'[p] = payment[p]
<1>1. \/ payment' = payment
      \/ \E q \in Payment : /\ payment[q].status \notin {"APPROVED", "REJECTED"}
                            /\ \E row : payment' = [payment EXCEPT ![q] = row]
  BY StepShape DEF Moves, Revises, Quiet
<1> QED
  BY <1>1 DEF LedgerInv, TypeOK

(* Decisions are final: whatever reviews race, an approved or rejected payment
   never changes again. *)
THEOREM DecisionsFinal == Spec => DecisionsAreFinal
<1>1. LedgerInv /\ [Next]_vars
        => [\A p \in Payment : payment[p].status \in {"APPROVED", "REJECTED"}
                                 => payment'[p] = payment[p]]_vars
  BY DecisionKept
<1> QED
  BY <1>1, LedgerInvariant, PTL DEF Spec, DecisionsAreFinal

(* No step re-prices, moves or waives a due that carries money. *)
LEMMA MoneyPins ==
  ASSUME LedgerInv, [Next]_vars, NEW s \in Slot, NEW p \in Payment,
         pending[p][s] > 0 \/ applied[p][s] > 0
  PROVE  /\ obligation'[s].due = obligation[s].due
         /\ obligation'[s].dueAt = obligation[s].dueAt
         /\ obligation'[s].status # "WAIVED"
<1>1. obligation[s].status \in {"DUE", "PARTIALLY_PAID", "PAID"} /\ obligation[s].dueAt <= now
  BY DEF LedgerInv, MoneyOnDueRows
<1>2. ASSUME NEW q \in Payment, NEW h \in Member, NEW a \in [Slot -> Minor], Moves(q, h, a)
      PROVE  /\ obligation'[s].due = obligation[s].due
             /\ obligation'[s].dueAt = obligation[s].dueAt
             /\ obligation'[s].status # "WAIVED"
  <2>1. /\ obligation'[s].due = obligation[s].due
        /\ obligation'[s].dueAt = obligation[s].dueAt
        /\ a[s] = 0 => obligation'[s] = obligation[s]
        /\ a[s] > 0 => obligation'[s].status = StatusFor(obligation[s].due, obligation[s].paid + a[s])
    BY <1>2, ApplyAdds DEF Moves, LedgerInv
  <2>2. a[s] = 0 \/ a[s] > 0
    BY MaxMinorAssumption DEF Minor
  <2> QED
    BY <1>1, <2>1, <2>2 DEF StatusFor
<1>3. CASE Revises
  <2>1. obligation'[s] = obligation[s]
    BY <1>1, <1>3, RevisedKeeps
  <2> QED
    BY <1>1, <2>1
<1> QED
  BY <1>1, <1>2, <1>3, StepShape DEF Quiet

(* A due with money on it, paid or promised, keeps its amount and date and is
   not waived by any later change of the settings. *)
THEOREM DuesAreKept == Spec => DuesWithMoneyAreKept
<1>1. LedgerInv /\ [Next]_vars
        => [\A s \in Slot :
              (\E p \in Payment : pending[p][s] > 0 \/ applied[p][s] > 0)
                => /\ obligation'[s].due = obligation[s].due
                   /\ obligation'[s].dueAt = obligation[s].dueAt
                   /\ obligation'[s].status # "WAIVED"]_vars
  BY MoneyPins
<1> QED
  BY <1>1, LedgerInvariant, PTL DEF Spec, DuesWithMoneyAreKept

-----------------------------------------------------------------------------
(* Payments are allocated completely. *)

(* The code allocates the whole of an amount: what fills the open dues is all
   of it, and the other dues get nothing. *)
LEMMA AllocationIsWhole ==
  ASSUME NEW m, NEW amount, NEW wanted, NEW a \in Allocations(m, amount, wanted)
  PROVE  Total(Slot, a) = amount
<1> DEFINE open == {s \in (IF wanted = {} THEN Payable(m) ELSE wanted) : Outstanding(s) > 0}
<1>1. open \subseteq Slot
  BY DEF Allocations, Payable
<1>2. PICK fill \in Fillings(open, amount) : a = [s \in Slot |-> IF s \in open THEN fill[s] ELSE 0]
  BY DEF Allocations
<1>3. Total(open, fill) = amount
  BY DEF Fillings
<1> HIDE DEF open
<1>4. \A s \in open : a[s] = fill[s]
  BY <1>1, <1>2
<1>5. \A s \in Slot \ open : a[s] = 0
  BY <1>2
<1>6. Total(open, a) = Total(open, fill)
  BY <1>4, TotalUnchanged
<1>7. Total(open, a) = Total(Slot, a)
  BY <1>1, <1>5, TotalOfSupport
<1> QED
  BY <1>3, <1>6, <1>7

(* Money of payment p is neither lost nor split twice. *)
Allocated(p) ==
  IF payment[p].status = "ABSENT" \/ payment[p].historical
  THEN Total(Slot, pending[p]) = 0 /\ Total(Slot, applied[p]) = 0
  ELSE IF payment[p].status = "APPROVED"
       THEN Total(Slot, pending[p]) = 0 /\ Total(Slot, applied[p]) = payment[p].amount
       ELSE Total(Slot, pending[p]) = payment[p].amount /\ Total(Slot, applied[p]) = 0

(* Nothing adds up to nothing. *)
LEMMA NothingIsNothing == Total(Slot, Nothing) = 0
BY TotalOfZeros DEF Nothing

(* A payment whose row and allocations a step leaves alone stays allocated;
   so does one whose refusal changes nothing but its status. *)
LEMMA StaysAllocated ==
  ASSUME NEW p, Allocated(p), pending'[p] = pending[p], applied'[p] = applied[p],
         payment'[p].amount = payment[p].amount, payment'[p].historical = payment[p].historical,
         \/ payment'[p].status = payment[p].status
         \/ /\ payment[p].status \in Reviewable
            /\ payment'[p].status \in {"REJECTED", "CORRECTION_REQUESTED"}
  PROVE  Allocated(p)'
BY DEF Allocated, Reviewable

(* Every step keeps every payment allocated. *)
LEMMA AllocatedStep ==
  ASSUME LedgerInv, [Next]_vars, NEW p \in Payment, Allocated(p)
  PROVE  Allocated(p)'
<1>1. /\ payment \in [Payment -> PaymentRow]
      /\ pending \in [Payment -> [Slot -> Minor]] /\ applied \in [Payment -> [Slot -> Minor]]
  BY DEF LedgerInv, TypeOK
<1>2. CASE UNCHANGED <<payment, pending, applied>>
  BY <1>2, StaysAllocated
<1>3. ASSUME NEW m \in Member, NEW q \in Payment, NEW amount \in Amounts, NEW wanted,
             SubmitPayment(m, q, amount, wanted)
      PROVE  Allocated(p)'
  <2>1. PICK a \in Allocations(m, amount, wanted) : pending' = [pending EXCEPT ![q] = a]
    BY <1>3 DEF SubmitPayment
  <2>2. payment' = [payment EXCEPT ![q] =
                     [status |-> "PENDING_VERIFICATION", member |-> m, amount |-> amount,
                      reviewer |-> None, historical |-> FALSE]]
    BY <1>3 DEF SubmitPayment
  <2>3. payment[q].status = "ABSENT" /\ applied' = applied
    BY <1>3 DEF SubmitPayment
  <2>4. CASE p = q
    <3>1. pending'[p] = a /\ Total(Slot, a) = amount
      BY <1>1, <2>1, <2>4, AllocationIsWhole
    <3>2. applied'[p] = Nothing
      BY <2>3, <2>4 DEF LedgerInv, AllocationsFollowStatus
    <3>3. payment'[p].status = "PENDING_VERIFICATION" /\ payment'[p].amount = amount
          /\ ~payment'[p].historical
      BY <1>1, <2>2, <2>4
    <3> QED
      BY <3>1, <3>2, <3>3, NothingIsNothing DEF Allocated
  <2>5. CASE p # q
    <3>1. payment'[p] = payment[p] /\ pending'[p] = pending[p] /\ applied'[p] = applied[p]
      BY <1>1, <2>1, <2>2, <2>3, <2>5
    <3> QED
      BY <3>1, StaysAllocated
  <2> QED
    BY <2>4, <2>5
<1>4. ASSUME NEW m \in Member, NEW q \in Payment, NEW amount \in Amounts, NEW wanted,
             CommitRecord(m, q, amount, wanted)
      PROVE  Allocated(p)'
  <2>1. PICK a \in Allocations(request[m].payer, amount, wanted) : applied' = [applied EXCEPT ![q] = a]
    BY <1>4 DEF CommitRecord
  <2>2. payment' = [payment EXCEPT ![q] =
                     [status |-> "APPROVED", member |-> request[m].payer, amount |-> amount,
                      reviewer |-> m, historical |-> FALSE]]
    BY <1>4 DEF CommitRecord
  <2>3. payment[q].status = "ABSENT" /\ pending' = pending
    BY <1>4 DEF CommitRecord
  <2>4. CASE p = q
    <3>1. applied'[p] = a /\ Total(Slot, a) = amount
      BY <1>1, <2>1, <2>4, AllocationIsWhole
    <3>2. pending'[p] = Nothing
      BY <2>3, <2>4 DEF LedgerInv, AllocationsFollowStatus
    <3>3. payment'[p].status = "APPROVED" /\ payment'[p].amount = amount /\ ~payment'[p].historical
      BY <1>1, <2>2, <2>4
    <3> QED
      BY <3>1, <3>2, <3>3, NothingIsNothing DEF Allocated
  <2>5. CASE p # q
    <3>1. payment'[p] = payment[p] /\ pending'[p] = pending[p] /\ applied'[p] = applied[p]
      BY <1>1, <2>1, <2>2, <2>3, <2>5
    <3> QED
      BY <3>1, StaysAllocated
  <2> QED
    BY <2>4, <2>5
<1>5. ASSUME NEW m \in Member, NEW q \in Payment, NEW payer \in Member, NEW amount \in Amounts,
             ImportHistorical(m, q, payer, amount)
      PROVE  Allocated(p)'
  <2>1. payment' = [payment EXCEPT ![q] =
                     [status |-> "APPROVED", member |-> payer, amount |-> amount,
                      reviewer |-> m, historical |-> TRUE]]
    BY <1>5 DEF ImportHistorical
  <2>2. payment[q].status = "ABSENT" /\ pending' = pending /\ applied' = applied
    BY <1>5 DEF ImportHistorical, schedule
  <2>3. CASE p = q
    <3>1. pending'[p] = Nothing /\ applied'[p] = Nothing
      BY <2>2, <2>3 DEF LedgerInv, AllocationsFollowStatus
    <3>2. payment'[p].historical
      BY <1>1, <2>1, <2>3
    <3> QED
      BY <3>1, <3>2, NothingIsNothing DEF Allocated
  <2>4. CASE p # q
    <3>1. payment'[p] = payment[p]
      BY <1>1, <2>1, <2>4
    <3> QED
      BY <2>2, <3>1, StaysAllocated
  <2> QED
    BY <2>3, <2>4
<1>6. ASSUME NEW m \in Member, CommitApproval(m)
      PROVE  Allocated(p)'
  <2>1. PICK q \in Payment : q = request[m].payment
    BY <1>6 DEF CommitApproval, LedgerInv, RequestsAreSound
  <2>2. /\ payment[q].status \in Reviewable
        /\ payment' = [payment EXCEPT ![q] = Decided(payment[q], "APPROVED", m)]
        /\ applied' = [applied EXCEPT ![q] = pending[q]]
        /\ pending' = [pending EXCEPT ![q] = Nothing]
    BY <1>6, <2>1 DEF CommitApproval
  <2>3. CASE p = q
    <3>1. pending'[p] = Nothing /\ applied'[p] = pending[p]
      BY <1>1, <2>2, <2>3
    <3>2. /\ payment'[p].status = "APPROVED" /\ payment'[p].amount = payment[p].amount
          /\ payment'[p].historical = payment[p].historical
      BY <1>1, <2>2, <2>3 DEF Decided, PaymentRow
    <3> QED
      BY <2>2, <2>3, <3>1, <3>2, NothingIsNothing DEF Allocated, Reviewable
  <2>4. CASE p # q
    <3>1. payment'[p] = payment[p] /\ pending'[p] = pending[p] /\ applied'[p] = applied[p]
      BY <1>1, <2>2, <2>4
    <3> QED
      BY <3>1, StaysAllocated
  <2> QED
    BY <2>3, <2>4
<1>7. ASSUME NEW m \in Member, WriteReview(m)
      PROVE  Allocated(p)'
  <2>1. PICK q \in Payment : q = request[m].payment
    BY <1>7 DEF WriteReview, LedgerInv, RequestsAreSound
  <2>2. PICK st \in {"REJECTED", "CORRECTION_REQUESTED"} :
          payment' = [payment EXCEPT ![q] = Decided(payment[q], st, m)]
    BY <1>7, <2>1 DEF WriteReview
  <2>3. payment[q].status \in Reviewable /\ pending' = pending /\ applied' = applied
    BY <1>7, <2>1 DEF WriteReview, schedule, StillAsRead, LedgerInv, RequestsAreSound
  <2>4. CASE p = q
    <3>1. /\ payment'[p].status = st /\ payment'[p].amount = payment[p].amount
          /\ payment'[p].historical = payment[p].historical
      BY <1>1, <2>2, <2>4 DEF Decided, PaymentRow
    <3> QED
      BY <2>3, <2>4, <3>1, StaysAllocated
  <2>5. CASE p # q
    <3>1. payment'[p] = payment[p]
      BY <1>1, <2>2, <2>5
    <3> QED
      BY <2>3, <3>1, StaysAllocated
  <2> QED
    BY <2>4, <2>5
<1>8. CASE RunSchedule
  BY <1>2, <1>8 DEF RunSchedule, BeginPass, PassStep, ReadPartial, WritePartial, ReadPlans, WaiveInactive,
     FallDue, Reprice, Create, ReadRule, FindLate, Penalise, EndPass, AbandonPass, Reads, Writes
<1>9. ASSUME \/ SaveFinancialYear
             \/ \E r \in Runner, price \in Prices, active \in BOOLEAN :
                  SaveContributionSettings(r, price, active)
      PROVE  Allocated(p)'
  BY <1>2, <1>9 DEF SaveFinancialYear, WholePass, SaveContributionSettings, SaveSettings
<1> QED
  BY <1>2, <1>3, <1>4, <1>5, <1>6, <1>7, <1>8, <1>9
  DEF Next, vars, schedule, Tick, SavePaymentRules, AssignRole, BeginRecord, IssueHistoricalReceipt,
      BeginReview, ReadForReview, AbandonRequest

(* The allocations of a payment add up to it, from the submission or the
   record on, through correction, approval and rejection: no unit a member
   paid is dropped or counted twice. *)
THEOREM PaymentsAreAllocated == Spec => []PaymentsFullyAllocated
<1>1. Init => PaymentsFullyAllocated
  <2> SUFFICES ASSUME Init, NEW p \in Payment PROVE Allocated(p)
    BY DEF PaymentsFullyAllocated, Allocated
  <2>1. payment[p].status = "ABSENT" /\ pending[p] = Nothing /\ applied[p] = Nothing
    BY DEF Init, AbsentPayment
  <2> QED
    BY <2>1, NothingIsNothing DEF Allocated
<1>2. LedgerInv /\ PaymentsFullyAllocated /\ [Next]_vars => PaymentsFullyAllocated'
  <2> SUFFICES ASSUME LedgerInv, PaymentsFullyAllocated, [Next]_vars, NEW p \in Payment
               PROVE  Allocated(p)'
    BY DEF PaymentsFullyAllocated, Allocated
  <2>1. Allocated(p)
    BY DEF PaymentsFullyAllocated, Allocated
  <2> QED
    BY <2>1, AllocatedStep
<1> QED
  BY <1>1, <1>2, LedgerInvariant, PTL DEF Spec

-----------------------------------------------------------------------------
(* The ledger implements the account of DuesAccount. *)

(* A new ledger is a new account. *)
LEMMA InitAccount == Init => Account!Init
  BY DEF Init, NoRows, Account!Init, AbsentObligation, AbsentPayment

(* Every step of the ledger is a step of the account or does not show. *)
LEMMA StepAccount ==
  ASSUME LedgerInv, LedgerInv', [Next]_vars
  PROVE  [Account!Next]_(Account!account)
<1> DEFINE owed == [s \in Slot |-> obligation[s].due]
           paid == [s \in Slot |-> obligation[s].paid]
           closed == {p \in Payment : payment[p].status \in {"APPROVED", "REJECTED"}}
<1>1. ASSUME NEW p \in Payment, NEW h \in Member, NEW a \in [Slot -> Minor], Moves(p, h, a)
      PROVE  Account!Next
  <2>1. \A s \in Slot : /\ obligation'[s].paid = obligation[s].paid + a[s]
                        /\ obligation'[s].due = obligation[s].due
    BY <1>1, ApplyAdds DEF Moves, LedgerInv
  <2>2. \A s \in Slot : a[s] \in Nat /\ obligation[s].paid \in Nat
    BY MaxMinorAssumption DEF LedgerInv, TypeOK, Obligation, Minor
  <2>3. \A s \in Slot : paid'[s] - paid[s] = a[s] /\ paid'[s] = paid[s] + a[s]
    BY <2>1, <2>2
  <2>4. p \notin closed
    BY <1>1 DEF Moves
  <2>5. closed' = closed \cup {p}
    BY <1>1 DEF Moves, LedgerInv, TypeOK
  <2>6. owed' = owed
    BY <2>1
  <2>7. \A s \in Slot : /\ paid[s] + a[s] <= owed[s]
                        /\ a[s] > 0 => OwnerOf(s) = h
    BY <1>1 DEF Moves
  <2> QED
    BY <2>2, <2>3, <2>4, <2>5, <2>6, <2>7 DEF Account!Settle, Account!Next
<1>2. CASE Revises
  <2>1. UNCHANGED payment
    BY <1>2 DEF Revises
  <2>2. \A s \in Slot : /\ obligation'[s].paid = obligation[s].paid
                        /\ obligation[s].paid > 0 => obligation'[s] = obligation[s]
    BY <1>2, RevisedKeeps
  <2>3. \A s \in Slot : obligation'[s].due \in Nat /\ obligation[s].paid \in Nat
    BY MaxMinorAssumption DEF LedgerInv, TypeOK, Obligation, Minor
  <2>4. Account!Assess
    BY <2>1, <2>2, <2>3 DEF Account!Assess
  <2> QED
    BY <2>4 DEF Account!Next
<1>3. CASE Quiet
  <2>1. owed' = owed /\ paid' = paid
    BY <1>3 DEF Quiet
  <2>2. CASE payment' = payment
    BY <2>1, <2>2 DEF Account!account
  <2>3. ASSUME NEW p \in Payment, NEW row, payment[p].status \notin {"APPROVED", "REJECTED"},
               payment' = [payment EXCEPT ![p] = row]
        PROVE  Account!Refuse(p) \/ UNCHANGED Account!account
    <3>1. p \notin closed /\ closed' \in {closed, closed \cup {p}}
      BY <2>3 DEF LedgerInv, TypeOK
    <3> QED
      BY <2>1, <3>1 DEF Account!Refuse, Account!account
  <2> QED
    BY <1>3, <2>2, <2>3 DEF Quiet, Account!Next
<1> QED
  BY <1>1, <1>2, <1>3, StepShape

(* Refinement: whatever officers, members, admins and the schedule do at the
   same time, what is owed and paid changes only as DuesAccount allows. *)
THEOREM LedgerImplementsAccount == Spec => ImplementsAccount
<1>1. Init => Account!Init
  BY InitAccount
<1>2. LedgerInv /\ LedgerInv' /\ [Next]_vars => [Account!Next]_(Account!account)
  BY StepAccount
<1> QED
  BY <1>1, <1>2, LedgerInvariant, PTL DEF Spec, ImplementsAccount, Account!Spec

-----------------------------------------------------------------------------
(* Late penalties are prospective. *)

(* The row of a due, once there, has the date its period says. *)
Dated(s, o) == s[2] = "CONTRIBUTION" /\ o.status # "ABSENT" => o.dueAt = DueDate[s[1]]

(* So have all rows and all drafts. *)
DatesAreFixed ==
  \A s \in Slot : /\ Dated(s, obligation[s])
                  /\ \A r \in Runner : Dated(s, pass[r].draft[s])

(* Only a join that is adding penalties, by a rule that has them, holds the
   draft of a penalty that is not there yet. *)
PenaltyDrafts ==
  \A r \in Runner, d \in Due :
    obligation[Penalty(d)].status = "ABSENT" /\ HasDraft(r, Penalty(d))
      => pass[r].at = "PENALISE" /\ pass[r].rule.penalties

(* What the step of a pass does to the rows: in row s it makes w of what it
   sees, and writes it to the table or to its draft. *)
Effect(r) ==
  /\ \A s \in Slot : \E w :
       /\ obligation'[s] \in {obligation[s], Seen(r)[s], w}
       /\ pass'[r].draft[s] \in {pass[r].draft[s], AbsentObligation, w}
       /\ Dated(s, Seen(r)[s]) => Dated(s, w)
       /\ s[2] = "PENALTY" /\ Seen(r)[s].status = "ABSENT"
            => \/ w.status = "ABSENT"
               \/ /\ pass[r].at = "PENALISE" /\ s[1] \in pass[r].todo
                  /\ pass'[r].at = "PENALISE" /\ pass'[r].rule = pass[r].rule
  /\ \A q \in Runner : q # r => pass'[q] = pass[q]
  /\ UNCHANGED <<now, rule>>

(* What it does to the rule it keeps and to the penalties it still has to add. *)
Keeps(r) ==
  /\ pass'[r].rule.penalties => \/ pass'[r].rule = rule
                                \/ /\ pass[r].rule.penalties
                                   /\ pass'[r].rule.effectiveAt = pass[r].rule.effectiveAt
  /\ pass[r].at = "PENALISE" => \/ pass'[r].at = "PENALISE" /\ pass'[r].rule = pass[r].rule
                                \/ pass'[r].draft = NoRows
  /\ pass'[r].at = "PENALISE" => \A d \in pass'[r].todo :
       \/ pass[r].at = "PENALISE" /\ d \in pass[r].todo
       \/ /\ Late(Seen(r)[Contribution(d)], pass[r].rule)
          /\ pass[r].rule.penalties

(* A step that only reads, or gives the pass up, changes no row. *)
LEMMA ReadsEffect ==
  ASSUME LedgerInv, NEW r \in Runner, NEW next, pass' = [pass EXCEPT ![r] = next],
         next.draft \in {pass[r].draft, NoRows}, UNCHANGED <<now, rule, obligation>>
  PROVE  Effect(r)
<1>1. pass'[r] = next /\ \A q \in Runner : q # r => pass'[q] = pass[q]
  BY DEF LedgerInv, TypeOK
<1>2. ASSUME NEW s \in Slot
      PROVE  \E w :
               /\ obligation'[s] \in {obligation[s], Seen(r)[s], w}
               /\ pass'[r].draft[s] \in {pass[r].draft[s], AbsentObligation, w}
               /\ Dated(s, Seen(r)[s]) => Dated(s, w)
               /\ s[2] = "PENALTY" /\ Seen(r)[s].status = "ABSENT"
                    => \/ w.status = "ABSENT"
                       \/ /\ pass[r].at = "PENALISE" /\ s[1] \in pass[r].todo
                          /\ pass'[r].at = "PENALISE" /\ pass'[r].rule = pass[r].rule
  <2>1. pass'[r].draft[s] \in {pass[r].draft[s], AbsentObligation}
    BY <1>1 DEF NoRows
  <2> QED
    BY <2>1
<1> QED
  BY <1>1, <1>2 DEF Effect

(* A step that writes rows which keep the dates and add only penalties that
   are still to be added. *)
LEMMA WritesEffect ==
  ASSUME LedgerInv, NEW r \in Runner, NEW rows, NEW next \in Pass, next.draft = pass[r].draft,
         Writes(r, rows, next),
         \A s \in Slot :
           /\ Dated(s, Seen(r)[s]) => Dated(s, rows[s])
           /\ s[2] = "PENALTY" /\ Seen(r)[s].status = "ABSENT"
                => \/ rows[s].status = "ABSENT"
                   \/ /\ pass[r].at = "PENALISE" /\ s[1] \in pass[r].todo
                      /\ next.at = "PENALISE" /\ next.rule = pass[r].rule
  PROVE  /\ Effect(r)
         /\ pass'[r].at = next.at /\ pass'[r].rule = next.rule /\ pass'[r].todo = next.todo
<1>1. /\ pass \in [Runner -> Pass] /\ UNCHANGED <<now, rule>>
  BY DEF LedgerInv, TypeOK, Writes
<1>2. PICK after :
        /\ pass' = [pass EXCEPT ![r] = after]
        /\ after.at = next.at /\ after.rule = next.rule /\ after.todo = next.todo
        /\ \A s \in Slot : /\ after.draft[s] \in {pass[r].draft[s], rows[s]}
                           /\ obligation'[s] \in {obligation[s], rows[s]}
  <2>1. CASE next.call = "JOIN"
    <3> DEFINE changed == {s \in Slot : rows[s] # Seen(r)[s]}
               draft == [s \in Slot |-> IF s \in changed THEN rows[s] ELSE next.draft[s]]
               after == [next EXCEPT !.draft = draft]
    <3>1. pass' = [pass EXCEPT ![r] = after] /\ obligation' = obligation
      BY <2>1 DEF Writes, Write
    <3>2. \A s \in Slot : draft[s] \in {pass[r].draft[s], rows[s]}
      OBVIOUS
    <3> HIDE DEF draft
    <3>3. after.at = next.at /\ after.rule = next.rule /\ after.todo = next.todo /\ after.draft = draft
      BY DEF Pass
    <3> HIDE DEF after
    <3> QED
      BY <3>1, <3>2, <3>3
  <2>2. CASE next.call # "JOIN"
    BY <2>2 DEF Writes, Write
  <2> QED
    BY <2>1, <2>2
<1>3. pass'[r] = after /\ \A q \in Runner : q # r => pass'[q] = pass[q]
  BY <1>1, <1>2
<1>4. ASSUME NEW s \in Slot
      PROVE  /\ obligation'[s] \in {obligation[s], Seen(r)[s], rows[s]}
             /\ pass'[r].draft[s] \in {pass[r].draft[s], AbsentObligation, rows[s]}
             /\ Dated(s, Seen(r)[s]) => Dated(s, rows[s])
             /\ s[2] = "PENALTY" /\ Seen(r)[s].status = "ABSENT"
                  => \/ rows[s].status = "ABSENT"
                     \/ /\ pass[r].at = "PENALISE" /\ s[1] \in pass[r].todo
                        /\ pass'[r].at = "PENALISE" /\ pass'[r].rule = pass[r].rule
  BY <1>2, <1>3
<1> HIDE DEF Dated
<1>5. Effect(r)
  BY <1>1, <1>3, <1>4 DEF Effect
<1> QED
  BY <1>2, <1>3, <1>5

(* The row operators keep the date, and create no penalty but on purpose. *)
LEMMA RowsKeepDates ==
  ASSUME NEW s \in Slot, NEW o \in Obligation
  PROVE  /\ Dated(s, o) => Dated(s, Waived(s, o)) /\ Dated(s, FallenDue(o))
         /\ \A price : Dated(s, o) => Dated(s, Repriced(s, o, price))
         /\ \A price : s[2] = "CONTRIBUTION" /\ Dated(s, o)
                         => Dated(s, Created(o, price, DueDate[s[1]]))
         /\ s[2] = "PENALTY" /\ o.status = "ABSENT"
              => /\ Waived(s, o).status = "ABSENT" /\ FallenDue(o).status = "ABSENT"
                 /\ \A price : Repriced(s, o, price).status = "ABSENT"
<1>1. Dated(s, o) => Dated(s, Waived(s, o)) /\ Dated(s, FallenDue(o))
  BY DEF Dated, Waived, FallenDue, Obligation
<1>2. ASSUME NEW price PROVE Dated(s, o) => Dated(s, Repriced(s, o, price))
  BY DEF Dated, Repriced, Obligation
<1>3. ASSUME NEW price, s[2] = "CONTRIBUTION", Dated(s, o)
      PROVE  Dated(s, Created(o, price, DueDate[s[1]]))
  BY <1>3 DEF Dated, Created, NewObligation
<1>4. ASSUME s[2] = "PENALTY", o.status = "ABSENT"
      PROVE  /\ Waived(s, o).status = "ABSENT" /\ FallenDue(o).status = "ABSENT"
             /\ \A price : Repriced(s, o, price).status = "ABSENT"
  BY <1>4 DEF Waived, FallenDue, Repriced
<1> QED
  BY <1>1, <1>2, <1>3, <1>4

(* Every step of a running pass has these effects. *)
LEMMA PassStepEffect ==
  ASSUME LedgerInv, NEW r \in Runner, PassStep(r)
  PROVE  Effect(r) /\ Keeps(r)
<1>1. PICK q \in Pass : q = pass[r] /\ PassIsSound(q)
  BY DEF LedgerInv, TypeOK, PassesAreSound
<1>2. pass \in [Runner -> Pass] /\ rule \in Rule
  BY DEF LedgerInv, TypeOK
<1>3. \A s \in Slot : Seen(r)[s] \in Obligation
  BY RowsAreSound DEF RowIsSound
<1>4. ASSUME NEW next, pass' = [pass EXCEPT ![r] = next], UNCHANGED <<now, rule, obligation>>,
             next.draft \in {q.draft, NoRows}, next.at # "PENALISE", q.at = "PENALISE" => next.draft = NoRows,
             next.rule.penalties => next.rule = rule \/ /\ q.rule.penalties
                                                        /\ next.rule.effectiveAt = q.rule.effectiveAt
      PROVE  Effect(r) /\ Keeps(r)
  <2>1. pass'[r] = next
    BY <1>2, <1>4
  <2> QED
    BY <1>1, <1>4, <2>1, ReadsEffect DEF Keeps
<1>5. ASSUME NEW rows, NEW next \in Pass, next.draft = q.draft, next.rule = q.rule,
             next.at # "PENALISE", q.at # "PENALISE", Writes(r, rows, next),
             \A s \in Slot :
               /\ Dated(s, Seen(r)[s]) => Dated(s, rows[s])
               /\ s[2] = "PENALTY" /\ Seen(r)[s].status = "ABSENT" => rows[s].status = "ABSENT"
      PROVE  Effect(r) /\ Keeps(r)
  <2>1. Effect(r) /\ pass'[r].at = next.at /\ pass'[r].rule = next.rule
    BY <1>1, <1>5, WritesEffect
  <2> QED
    BY <1>1, <1>5, <2>1 DEF Keeps
<1>6. CASE ReadPartial(r)
  <2> DEFINE next == [[q EXCEPT !.at = "WRITE_PARTIAL"] EXCEPT !.rule.allowsPartial = rule.allowsPartial]
  <2>1. /\ next.draft = q.draft /\ next.at = "WRITE_PARTIAL"
        /\ next.rule.penalties = q.rule.penalties /\ next.rule.effectiveAt = q.rule.effectiveAt
    BY DEF Pass, Rule
  <2>2. /\ q.at = "READ_PARTIAL" /\ pass' = [pass EXCEPT ![r] = next]
        /\ UNCHANGED <<now, rule, obligation>>
    BY <1>1, <1>6 DEF ReadPartial, Goto, Reads
  <2> HIDE DEF next
  <2> QED
    BY <1>4, <2>1, <2>2
<1>7. CASE WritePartial(r)
  <2> DEFINE next == [q EXCEPT !.at = "READ_PLANS"]
  <2>1. next.draft = q.draft /\ next.at = "READ_PLANS" /\ next.rule = q.rule
    BY DEF Pass
  <2>2. /\ q.at = "WRITE_PARTIAL" /\ pass' = [pass EXCEPT ![r] = next]
        /\ UNCHANGED <<now, rule, obligation>>
    BY <1>1, <1>7 DEF WritePartial, Goto
  <2> HIDE DEF next
  <2> QED
    BY <1>4, <2>1, <2>2
<1>8. CASE ReadPlans(r)
  <2> DEFINE next == [[q EXCEPT !.at = "WAIVE"] EXCEPT !.plan = plan]
  <2>1. next.draft = q.draft /\ next.at = "WAIVE" /\ next.rule = q.rule
    BY DEF Pass
  <2>2. /\ q.at = "READ_PLANS" /\ pass' = [pass EXCEPT ![r] = next]
        /\ UNCHANGED <<now, rule, obligation>>
    BY <1>1, <1>8 DEF ReadPlans, Goto, Reads
  <2> HIDE DEF next
  <2> QED
    BY <1>4, <2>1, <2>2
<1>9. CASE WaiveInactive(r)
  <2> DEFINE next == [q EXCEPT !.at = "FALL_DUE"]
             rows == [s \in Slot |-> Waived(s, Seen(r)[s])]
  <2>1. next \in Pass /\ next.draft = q.draft /\ next.at = "FALL_DUE" /\ next.rule = q.rule
    BY DEF Pass, Statement
  <2>2. Writes(r, rows, next) /\ q.at = "WAIVE"
    BY <1>1, <1>9 DEF WaiveInactive, Goto
  <2>3. \A s \in Slot :
          /\ Dated(s, Seen(r)[s]) => Dated(s, rows[s])
          /\ s[2] = "PENALTY" /\ Seen(r)[s].status = "ABSENT" => rows[s].status = "ABSENT"
    BY <1>3, RowsKeepDates
  <2> HIDE DEF next, rows
  <2> QED
    BY <1>5, <2>1, <2>2, <2>3
<1>10. CASE FallDue(r)
  <2> DEFINE next == [q EXCEPT !.at = IF q.plan.active THEN "REPRICE" ELSE "CREATE"]
             rows == [s \in Slot |-> FallenDue(Seen(r)[s])]
  <2>1. next \in Pass /\ next.draft = q.draft /\ next.at # "PENALISE" /\ next.rule = q.rule
    BY DEF Pass, Statement
  <2>2. Writes(r, rows, next) /\ q.at = "FALL_DUE"
    BY <1>1, <1>10 DEF FallDue, Goto
  <2>3. \A s \in Slot :
          /\ Dated(s, Seen(r)[s]) => Dated(s, rows[s])
          /\ s[2] = "PENALTY" /\ Seen(r)[s].status = "ABSENT" => rows[s].status = "ABSENT"
    BY <1>3, RowsKeepDates
  <2> HIDE DEF next, rows
  <2> QED
    BY <1>5, <2>1, <2>2, <2>3
<1>11. CASE Reprice(r)
  <2> DEFINE next == [[q EXCEPT !.at = "CREATE"] EXCEPT
                        !.todo = IF q.plan.price = 0 \/ q.call = "JOIN" THEN {} ELSE Due]
             rows == [s \in Slot |-> Repriced(s, Seen(r)[s], q.plan.price)]
  <2>1. next \in Pass /\ next.draft = q.draft /\ next.at = "CREATE" /\ next.rule = q.rule
    BY DEF Pass, Statement
  <2>2. Writes(r, rows, next) /\ q.at = "REPRICE"
    BY <1>1, <1>11 DEF Reprice, Goto
  <2>3. \A s \in Slot :
          /\ Dated(s, Seen(r)[s]) => Dated(s, rows[s])
          /\ s[2] = "PENALTY" /\ Seen(r)[s].status = "ABSENT" => rows[s].status = "ABSENT"
    BY <1>3, RowsKeepDates
  <2> HIDE DEF next, rows
  <2> QED
    BY <1>5, <2>1, <2>2, <2>3
<1>12. ASSUME NEW s \in Slot, NEW amount, NEW dueAt
       PROVE  \A t \in Slot : Upserted(r, s, amount, dueAt)[t]
                                = IF t = s THEN Created(Seen(r)[s], amount, dueAt) ELSE Seen(r)[t]
  BY DEF Seen, Upserted
<1>13. ASSUME NEW d \in Due, Create(r, d)
       PROVE  Effect(r) /\ Keeps(r)
  <2> DEFINE next == [q EXCEPT !.todo = @ \ {d}]
             s == Contribution(d)
             rows == Upserted(r, s, q.plan.price, DueDate[d])
  <2>1. /\ next \in Pass /\ next.draft = q.draft /\ next.at = q.at /\ next.rule = q.rule
        /\ s \in Slot /\ s[1] = d /\ s[2] = "CONTRIBUTION"
    BY DEF Pass, Slot, Contribution
  <2>2. Writes(r, rows, next) /\ q.at = "CREATE"
    BY <1>1, <1>13 DEF Create, Upserted
  <2>3. \A t \in Slot : rows[t] = IF t = s THEN Created(Seen(r)[s], q.plan.price, DueDate[d]) ELSE Seen(r)[t]
    BY <1>12, <2>1
  <2>4. Dated(s, Seen(r)[s]) => Dated(s, Created(Seen(r)[s], q.plan.price, DueDate[d]))
    BY <1>3, <2>1, RowsKeepDates
  <2> HIDE DEF next, s, rows
  <2>5. \A t \in Slot :
          /\ Dated(t, Seen(r)[t]) => Dated(t, rows[t])
          /\ t[2] = "PENALTY" /\ Seen(r)[t].status = "ABSENT" => rows[t].status = "ABSENT"
    BY <2>1, <2>3, <2>4
  <2> QED
    BY <1>5, <2>1, <2>2, <2>5
<1>14. CASE ReadRule(r)
  <2> DEFINE next == [[q EXCEPT !.at = IF rule.penalties THEN "FIND_LATE" ELSE "PENALISE"]
                        EXCEPT !.rule = rule]
  <2>1. /\ next.draft = q.draft /\ next.todo = q.todo /\ next.rule = rule
    BY DEF Pass
  <2>2. /\ pass' = [pass EXCEPT ![r] = next] /\ UNCHANGED <<now, rule, obligation>>
        /\ q.todo = {} /\ q.at = "CREATE"
    BY <1>1, <1>14 DEF ReadRule, Goto, Reads
  <2> HIDE DEF next
  <2>3. pass'[r] = next
    BY <1>2, <2>2
  <2>4. Effect(r)
    BY <1>1, <2>1, <2>2, ReadsEffect
  <2> QED
    BY <1>1, <2>1, <2>2, <2>3, <2>4 DEF Keeps
<1>15. CASE FindLate(r)
  <2> DEFINE late == {d \in Due : Late(Seen(r)[Contribution(d)], q.rule)}
             next == [[q EXCEPT !.at = "PENALISE"] EXCEPT !.todo = late]
  <2>1. /\ next.draft = q.draft /\ next.todo = late /\ next.rule = q.rule
    BY DEF Pass
  <2>2. /\ pass' = [pass EXCEPT ![r] = next] /\ UNCHANGED <<now, rule, obligation>>
        /\ q.at = "FIND_LATE"
    BY <1>1, <1>15 DEF FindLate, Goto, Reads
  <2> HIDE DEF next
  <2>3. pass'[r] = next
    BY <1>2, <2>2
  <2>4. Effect(r)
    BY <1>1, <2>1, <2>2, ReadsEffect
  <2>5. q.rule.penalties
    BY <1>1, <2>2 DEF PassIsSound
  <2> QED
    BY <1>1, <2>1, <2>2, <2>3, <2>4, <2>5 DEF Keeps
<1>16. ASSUME NEW d \in Due, Penalise(r, d)
       PROVE  Effect(r) /\ Keeps(r)
  <2> DEFINE next == [q EXCEPT !.todo = @ \ {d}]
             s == Penalty(d)
             rows == Upserted(r, s, PenaltyAmount, now)
  <2>1. /\ next \in Pass /\ next.draft = q.draft /\ next.at = q.at /\ next.rule = q.rule
        /\ next.todo = q.todo \ {d}
        /\ s \in Slot /\ s[1] = d /\ s[2] = "PENALTY"
    BY DEF Pass, Slot, Penalty
  <2>2. Writes(r, rows, next) /\ q.at = "PENALISE" /\ d \in q.todo
    BY <1>1, <1>16 DEF Penalise, Upserted
  <2>3. \A t \in Slot : rows[t] = IF t = s THEN Created(Seen(r)[s], PenaltyAmount, now) ELSE Seen(r)[t]
    BY <1>12, <2>1
  <2> HIDE DEF next, s, rows
  <2>4. \A t \in Slot :
          /\ Dated(t, Seen(r)[t]) => Dated(t, rows[t])
          /\ t[2] = "PENALTY" /\ Seen(r)[t].status = "ABSENT"
               => \/ rows[t].status = "ABSENT"
                  \/ /\ q.at = "PENALISE" /\ t[1] \in q.todo
                     /\ next.at = "PENALISE" /\ next.rule = q.rule
    BY <2>1, <2>2, <2>3 DEF Dated
  <2>5. Effect(r) /\ pass'[r].at = next.at /\ pass'[r].rule = next.rule /\ pass'[r].todo = next.todo
    BY <1>1, <2>1, <2>2, <2>4, WritesEffect
  <2> QED
    BY <1>1, <2>1, <2>2, <2>5 DEF Keeps
<1>17. CASE EndPass(r)
  <2>1. /\ obligation' = Seen(r) /\ pass' = [pass EXCEPT ![r] = IdlePass] /\ UNCHANGED <<now, rule>>
    BY <1>17 DEF EndPass
  <2>2. /\ pass'[r] = IdlePass /\ \A p \in Runner : p # r => pass'[p] = pass[p]
    BY <1>2, <2>1
  <2>3. /\ IdlePass.draft = NoRows /\ ~IdlePass.rule.penalties /\ IdlePass.at = "IDLE"
        /\ \A s \in Slot : IdlePass.draft[s] = AbsentObligation
    BY DEF IdlePass, NoRule, NoRows
  <2>4. Effect(r)
    BY <2>1, <2>2, <2>3 DEF Effect
  <2> QED
    BY <2>2, <2>3, <2>4 DEF Keeps
<1>18. CASE AbandonPass(r)
  <2>1. pass' = [pass EXCEPT ![r] = IdlePass] /\ UNCHANGED <<now, rule, obligation>>
    BY <1>18 DEF AbandonPass, Reads
  <2>2. IdlePass.draft = NoRows /\ ~IdlePass.rule.penalties /\ IdlePass.at = "IDLE"
    BY DEF IdlePass, NoRule
  <2> QED
    BY <1>4, <2>1, <2>2
<1> QED
  BY <1>6, <1>7, <1>8, <1>9, <1>10, <1>11, <1>13, <1>14, <1>15, <1>16, <1>17, <1>18 DEF PassStep

(* So has the start of a pass. *)
LEMMA BeginPassEffect ==
  ASSUME LedgerInv, NEW r \in Runner,
         \/ \E call : BeginPass(r, call)
         \/ \E price, active : SaveSettings(r, price, active)
  PROVE  Effect(r) /\ Keeps(r)
<1>1. PICK at \in {"READ_PLANS", "READ_PARTIAL"}, call \in Call :
        /\ pass' = [pass EXCEPT ![r] = [IdlePass EXCEPT !.at = at, !.call = call]]
        /\ UNCHANGED <<now, rule, obligation>>
        /\ pass[r].at = "IDLE"
  BY DEF BeginPass, SaveSettings, Reads, Call
<1>2. PICK next : next = [IdlePass EXCEPT !.at = at, !.call = call]
  OBVIOUS
<1>3. IdlePass.rule = NoRule /\ ~NoRule.penalties /\ IdlePass.draft = NoRows /\ IdlePass \in Pass
  BY IdlePassIsSound DEF IdlePass, NoRule
<1>4. next.draft = NoRows /\ next.rule = NoRule /\ next.at = at
  BY <1>2, <1>3 DEF Pass
<1>5. pass' = [pass EXCEPT ![r] = next] /\ pass'[r] = next
  BY <1>1, <1>2 DEF LedgerInv, TypeOK
<1> QED
  BY <1>1, <1>3, <1>4, <1>5, ReadsEffect DEF Keeps

(* Every step is that of one pass, the whole pass of a financial year, or one
   that leaves the passes alone, moves no date and creates no row. *)
LEMMA ScheduleShape ==
  ASSUME LedgerInv, [Next]_vars
  PROVE  \/ \E r \in Runner : Effect(r) /\ Keeps(r)
         \/ WholePass
         \/ /\ pass' = pass
            /\ now' \in Nat /\ now <= now'
            /\ rule' = rule \/ rule'.effectiveAt = now
            /\ \A s \in Slot : /\ obligation'[s].dueAt = obligation[s].dueAt
                               /\ obligation'[s].status = "ABSENT" <=> obligation[s].status = "ABSENT"
<1>1. TypeOK /\ now \in Nat /\ now <= now
  BY DEF LedgerInv, TypeOK
<1>2. CASE RunSchedule
  <2>1. ASSUME NEW rc \in RunnerCalls, BeginPass(rc[1], rc[2])
        PROVE  \E r \in Runner : Effect(r) /\ Keeps(r)
    <3>1. rc[1] \in Runner
      BY LedgerAssumption
    <3> QED
      BY <2>1, <3>1, BeginPassEffect
  <2> QED
    BY <1>2, <2>1, PassStepEffect DEF RunSchedule
<1>3. ASSUME NEW r \in Runner, NEW price, NEW active, SaveContributionSettings(r, price, active)
      PROVE  Effect(r) /\ Keeps(r)
  BY <1>3, BeginPassEffect DEF SaveContributionSettings
<1>4. CASE SaveFinancialYear
  BY <1>4 DEF SaveFinancialYear
<1>5. ASSUME NEW r \in Rules, SavePaymentRules(r)
      PROVE  UNCHANGED <<pass, now, obligation>> /\ rule'.effectiveAt = now
  <2>1. r \in Rule /\ rule' = [r EXCEPT !.effectiveAt = now]
    BY <1>5, LedgerAssumption DEF SavePaymentRules
  <2> QED
    BY <1>5, <2>1 DEF SavePaymentRules, Rule
<1>6. CASE Tick
  BY <1>1, <1>6 DEF Tick
<1>7. ASSUME \/ \E m \in Member : CommitApproval(m)
             \/ \E m \in Member, p \in Payment, amount \in Amounts :
                  \E wanted \in SUBSET Slot : CommitRecord(m, p, amount, wanted)
      PROVE  /\ UNCHANGED <<pass, now, rule>>
             /\ \A s \in Slot : /\ obligation'[s].dueAt = obligation[s].dueAt
                                /\ obligation'[s].status = "ABSENT" <=> obligation[s].status = "ABSENT"
  <2>1. UNCHANGED <<pass, now, rule>>
    BY <1>7 DEF CommitApproval, CommitRecord
  <2>2. PICK p \in Payment, h \in Member, a \in [Slot -> Minor] : Moves(p, h, a)
    BY <1>7, RecordMoves, ApprovalMoves
  <2>3. ASSUME NEW s \in Slot
        PROVE  /\ obligation'[s].dueAt = obligation[s].dueAt
               /\ obligation'[s].status = "ABSENT" <=> obligation[s].status = "ABSENT"
    <3>1. /\ obligation'[s].dueAt = obligation[s].dueAt
          /\ a[s] = 0 => obligation'[s] = obligation[s]
          /\ a[s] > 0 => obligation'[s].status = StatusFor(obligation[s].due, obligation[s].paid + a[s])
      BY <2>2, ApplyAdds DEF Moves, LedgerInv
    <3>2. obligation[s].status = "ABSENT" => obligation[s].due = 0 /\ obligation[s].paid = 0
      BY DEF LedgerInv, AbsentRowsAreBlank, AbsentObligation
    <3>3. a[s] \in Nat /\ obligation[s].paid + a[s] <= obligation[s].due
      BY <2>2, MaxMinorAssumption DEF Moves, Minor
    <3> QED
      BY <3>1, <3>2, <3>3 DEF StatusFor
  <2> QED
    BY <2>1, <2>3
<1>8. CASE UNCHANGED <<pass, now, rule, obligation>>
  BY <1>1, <1>8
<1> QED
  BY <1>1, <1>2, <1>3, <1>4, <1>5, <1>6, <1>7, <1>8
  DEF Next, vars, schedule, AssignRole, SubmitPayment, BeginRecord, ImportHistorical,
      IssueHistoricalReceipt, BeginReview, ReadForReview, WriteReview, AbandonRequest

(* What a pass sees has the date of its period too. *)
LEMMA SeenIsDated ==
  ASSUME DatesAreFixed, NEW r \in Runner, NEW s \in Slot
  PROVE  Dated(s, Seen(r)[s])
BY DEF DatesAreFixed, Seen, HasDraft

(* The rows after the whole pass. *)
LEMMA WholePassRows ==
  ASSUME LedgerInv, DatesAreFixed, WholePass, NEW d \in Due
  PROVE  /\ Dated(Contribution(d), obligation'[Contribution(d)])
         /\ \/ obligation'[Penalty(d)] = obligation[Penalty(d)]
            \/ rule.penalties /\ Late(obligation'[Contribution(d)], rule)
         /\ obligation[Penalty(d)].status # "ABSENT" => obligation'[Penalty(d)].status # "ABSENT"
<1> DEFINE s == Contribution(d)
           t == Penalty(d)
           o == obligation[s]
           w == Waived(s, o)
           f == FallenDue(w)
<1>1. /\ s \in Slot /\ s[1] = d /\ s[2] = "CONTRIBUTION"
      /\ t \in Slot /\ t[1] = d /\ t[2] = "PENALTY"
      /\ o \in Obligation /\ Dated(s, o)
  BY DEF Slot, Contribution, Penalty, LedgerInv, TypeOK, DatesAreFixed
<1>2. /\ obligation'[s] = Scheduled(d)
      /\ obligation'[t] = IF rule.penalties /\ Late(Scheduled(d), rule)
                          THEN Created(obligation[t], PenaltyAmount, now)
                          ELSE obligation[t]
  BY <1>1 DEF WholePass
<1>3. w \in Obligation /\ f \in Obligation
  BY <1>1 DEF Waived, FallenDue, Obligation, ObligationStatus
<1>4. Dated(s, f)
  BY <1>1, <1>3, RowsKeepDates
<1>5. ASSUME NEW price \in Minor PROVE Repriced(s, f, price) \in Obligation
  BY <1>3, <1>5 DEF Repriced, Obligation, ObligationStatus
<1>6. 0 \in Minor /\ plan.price \in Minor
  BY MaxMinorAssumption DEF LedgerInv, TypeOK, PlanRow, Minor
<1>7. Dated(s, Repriced(s, f, 0)) /\ Dated(s, Repriced(s, f, plan.price))
  BY <1>1, <1>3, <1>4, RowsKeepDates
<1>8. Dated(s, Created(Repriced(s, f, plan.price), plan.price, DueDate[d]))
  BY <1>1, <1>5, <1>6, <1>7, RowsKeepDates
<1>9. Dated(s, Scheduled(d))
  BY <1>4, <1>7, <1>8 DEF Scheduled
<1>10. obligation[t].status # "ABSENT" => obligation'[t].status # "ABSENT"
  BY <1>2 DEF Created
<1> QED
  BY <1>2, <1>9, <1>10

(* Dates stay, whatever happens to a row. *)
LEMMA DatesStep == LedgerInv /\ DatesAreFixed /\ [Next]_vars => DatesAreFixed'
<1> SUFFICES ASSUME LedgerInv, DatesAreFixed, [Next]_vars, NEW s \in Slot
             PROVE  /\ Dated(s, obligation'[s])
                    /\ \A r \in Runner : Dated(s, pass'[r].draft[s])
  BY DEF DatesAreFixed, Dated
<1>1. /\ Dated(s, obligation[s]) /\ \A r \in Runner : Dated(s, pass[r].draft[s])
      /\ s[1] \in Due /\ (s[2] = "CONTRIBUTION" => s = Contribution(s[1]))
      /\ Dated(s, AbsentObligation)
  BY DEF DatesAreFixed, Slot, Contribution, Dated, AbsentObligation
<1>2. ASSUME NEW r \in Runner, Effect(r)
      PROVE  /\ Dated(s, obligation'[s])
             /\ \A q \in Runner : Dated(s, pass'[q].draft[s])
  <2>1. Dated(s, Seen(r)[s])
    BY SeenIsDated
  <2>2. PICK w : /\ obligation'[s] \in {obligation[s], Seen(r)[s], w}
                 /\ pass'[r].draft[s] \in {pass[r].draft[s], AbsentObligation, w}
                 /\ Dated(s, w)
    BY <1>2, <2>1 DEF Effect
  <2>3. \A q \in Runner : q # r => pass'[q] = pass[q]
    BY <1>2 DEF Effect
  <2> QED
    BY <1>1, <2>1, <2>2, <2>3
<1>3. CASE WholePass
  <2>1. pass' = pass
    BY <1>3 DEF WholePass
  <2>2. s[2] = "CONTRIBUTION" => Dated(s, obligation'[s])
    BY <1>1, <1>3, WholePassRows
  <2>3. Dated(s, obligation'[s])
    BY <2>2 DEF Dated
  <2> QED
    BY <1>1, <2>1, <2>3
<1>4. CASE /\ pass' = pass
           /\ obligation'[s].dueAt = obligation[s].dueAt
           /\ obligation'[s].status = "ABSENT" <=> obligation[s].status = "ABSENT"
  BY <1>1, <1>4 DEF Dated
<1> QED
  BY <1>2, <1>3, <1>4, ScheduleShape

(* A row that is there stays there. *)
LEMMA RowsStay ==
  ASSUME LedgerInv, [Next]_vars, NEW s \in Slot, obligation[s].status # "ABSENT"
  PROVE  obligation'[s].status # "ABSENT"
<1>1. ASSUME NEW p \in Payment, NEW h \in Member, NEW a \in [Slot -> Minor], Moves(p, h, a)
      PROVE  obligation'[s].status # "ABSENT"
  <2>1. /\ a[s] = 0 => obligation'[s] = obligation[s]
        /\ a[s] > 0 => obligation'[s].status = StatusFor(obligation[s].due, obligation[s].paid + a[s])
    BY <1>1, ApplyAdds DEF Moves, LedgerInv
  <2>2. a[s] = 0 \/ a[s] > 0
    BY MaxMinorAssumption DEF Minor
  <2> QED
    BY <2>1, <2>2 DEF StatusFor
<1>2. CASE Revises
  BY <1>2 DEF Revises, Revised, Fresh
<1> QED
  BY <1>1, <1>2, StepShape DEF Quiet

(* The drafts of new penalties stay with the joins that add them. *)
LEMMA PenaltyDraftsStep == LedgerInv /\ PenaltyDrafts /\ [Next]_vars => PenaltyDrafts'
<1> SUFFICES ASSUME LedgerInv, PenaltyDrafts, [Next]_vars, NEW p \in Runner, NEW d \in Due,
                    obligation'[Penalty(d)].status = "ABSENT",
                    pass'[p].draft[Penalty(d)].status # "ABSENT"
             PROVE  pass'[p].at = "PENALISE" /\ pass'[p].rule.penalties
  BY DEF PenaltyDrafts, HasDraft, Penalty
<1> DEFINE s == Penalty(d)
<1>1. s \in Slot /\ s[1] = d /\ s[2] = "PENALTY"
  BY DEF Penalty, Slot
<1>2. obligation[s].status = "ABSENT"
  BY <1>1, RowsStay
<1>3. HasDraft(p, s) => pass[p].at = "PENALISE" /\ pass[p].rule.penalties
  BY <1>2 DEF PenaltyDrafts
<1>4. CASE pass'[p] = pass[p]
  BY <1>3, <1>4 DEF HasDraft
<1>5. CASE Effect(p) /\ Keeps(p)
  <2>1. CASE HasDraft(p, s)
    <3>1. pass'[p].draft # NoRows
      BY <1>1, IdlePassIsSound
    <3> QED
      BY <1>3, <1>5, <2>1, <3>1 DEF Keeps
  <2>2. CASE ~HasDraft(p, s)
    <3>1. Seen(p)[s].status = "ABSENT"
      BY <1>1, <1>2, <2>2 DEF Seen
    <3>2. /\ pass[p].at = "PENALISE" /\ pass[p].todo # {}
          /\ pass'[p].at = "PENALISE" /\ pass'[p].rule = pass[p].rule
      BY <1>1, <1>5, <2>2, <3>1 DEF Effect, HasDraft, AbsentObligation
    <3>3. pass[p].rule.penalties
      BY <3>2 DEF LedgerInv, PassesAreSound, PassIsSound
    <3> QED
      BY <3>2, <3>3
  <2> QED
    BY <2>1, <2>2
<1> QED
  BY <1>4, <1>5, ScheduleShape DEF WholePass, Effect

(* Due d has fallen due without a penalty, no rule in force may penalise it,
   and no running pass is about to. *)
Spared(d) ==
  /\ obligation[Penalty(d)].status = "ABSENT"
  /\ DueDate[d] <= now
  /\ rule.penalties => DueDate[d] <= rule.effectiveAt
  /\ \A r \in Runner :
       /\ ~HasDraft(r, Penalty(d))
       /\ pass[r].rule.penalties => DueDate[d] <= pass[r].rule.effectiveAt
       /\ pass[r].at = "PENALISE" => d \notin pass[r].todo

(* Where penalties are off, such a due is spared. *)
LEMMA SparedWhenOff ==
  ASSUME LedgerInv, PenaltyDrafts, PenaltiesAreOff, NEW d \in Due, DueDate[d] <= now,
         obligation[Penalty(d)].status = "ABSENT"
  PROVE  Spared(d)
BY DEF LedgerInv, PassesAreSound, PassIsSound, PenaltyDrafts, PenaltiesAreOff, Spared

(* A due that is spared once is spared for ever. *)
LEMMA SparedStep ==
  ASSUME LedgerInv, DatesAreFixed, NEW d \in Due, Spared(d), [Next]_vars
  PROVE  Spared(d)'
<1> DEFINE s == Penalty(d)
<1>1. s \in Slot /\ s[1] = d /\ s[2] = "PENALTY"
  BY DEF Penalty, Slot
<1>2. DueDate[d] \in Nat /\ now \in Nat /\ rule \in Rule
  BY ScheduleAssumption DEF LedgerInv, TypeOK
<1>3. ASSUME NEW o, NEW r \in Rule, Dated(Contribution(d), o), Late(o, r)
      PROVE  DueDate[d] > r.effectiveAt
  BY <1>3 DEF Dated, Late, Contribution
<1>4. ASSUME NEW r \in Runner, Effect(r), Keeps(r)
      PROVE  Spared(d)'
  <2>1. Seen(r)[s].status = "ABSENT" /\ d \notin (IF pass[r].at = "PENALISE" THEN pass[r].todo ELSE {})
    BY <1>1 DEF Spared, Seen
  <2>2. PICK w : /\ obligation'[s] \in {obligation[s], Seen(r)[s], w}
                 /\ pass'[r].draft[s] \in {pass[r].draft[s], AbsentObligation, w}
                 /\ w.status = "ABSENT"
    BY <1>1, <1>4, <2>1 DEF Effect
  <2>3. obligation'[s].status = "ABSENT" /\ pass'[r].draft[s].status = "ABSENT"
    BY <2>1, <2>2 DEF Spared, HasDraft, AbsentObligation
  <2>4. UNCHANGED <<now, rule>> /\ \A q \in Runner : q # r => pass'[q] = pass[q]
    BY <1>4 DEF Effect
  <2>5. pass'[r].rule.penalties => DueDate[d] <= pass'[r].rule.effectiveAt
    BY <1>4 DEF Keeps, Spared
  <2>6. ASSUME pass'[r].at = "PENALISE", d \in pass'[r].todo
        PROVE  FALSE
    <3>1. Late(Seen(r)[Contribution(d)], pass[r].rule) /\ pass[r].rule.penalties
      BY <1>4, <2>1, <2>6 DEF Keeps
    <3>2. Dated(Contribution(d), Seen(r)[Contribution(d)])
      BY SeenIsDated DEF Slot, Contribution
    <3>3. pass[r].rule \in Rule /\ pass[r].rule.effectiveAt \in Nat
      BY DEF LedgerInv, TypeOK, Pass, Rule
    <3>4. DueDate[d] > pass[r].rule.effectiveAt /\ DueDate[d] <= pass[r].rule.effectiveAt
      BY <1>3, <3>1, <3>2, <3>3 DEF Spared
    <3> QED
      BY <1>2, <3>3, <3>4
  <2>7. ASSUME NEW q \in Runner
        PROVE  /\ pass'[q].draft[s].status = "ABSENT"
               /\ pass'[q].rule.penalties => DueDate[d] <= pass'[q].rule.effectiveAt
               /\ pass'[q].at = "PENALISE" => d \notin pass'[q].todo
    BY <2>3, <2>4, <2>5, <2>6 DEF Spared, HasDraft
  <2> QED
    BY <2>3, <2>4, <2>7 DEF Spared, HasDraft, Penalty
<1>5. CASE WholePass
  <2>1. UNCHANGED <<now, rule, pass>>
    BY <1>5 DEF WholePass
  <2>2. obligation'[s] = obligation[s]
    <3>1. SUFFICES ASSUME rule.penalties, Late(obligation'[Contribution(d)], rule) PROVE FALSE
      BY <1>5, WholePassRows
    <3>2. DueDate[d] > rule.effectiveAt
      BY <1>2, <1>3, <1>5, <3>1, WholePassRows
    <3> QED
      BY <1>2, <3>1, <3>2 DEF Spared, Rule
  <2> QED
    BY <2>1, <2>2 DEF Spared, HasDraft, Penalty
<1>6. CASE /\ pass' = pass
           /\ now' \in Nat /\ now <= now'
           /\ rule' = rule \/ rule'.effectiveAt = now
           /\ \A t \in Slot : obligation'[t].status = "ABSENT" <=> obligation[t].status = "ABSENT"
  <2>1. DueDate[d] <= now /\ DueDate[d] <= now'
    BY <1>2, <1>6 DEF Spared
  <2>2. rule'.penalties => DueDate[d] <= rule'.effectiveAt
    BY <1>6, <2>1 DEF Spared
  <2>3. obligation'[s].status = "ABSENT"
    BY <1>1, <1>6 DEF Spared
  <2> QED
    BY <1>6, <2>1, <2>2, <2>3 DEF Spared, HasDraft, Penalty
<1> QED
  BY <1>4, <1>5, <1>6, ScheduleShape

(* The dates of the dues never change, and drafts of penalties stay where they
   belong. *)
THEOREM DatesInvariant == Spec => [](LedgerInv /\ DatesAreFixed /\ PenaltyDrafts)
<1>1. Init => DatesAreFixed /\ PenaltyDrafts
  <2> SUFFICES ASSUME Init PROVE DatesAreFixed /\ PenaltyDrafts
    OBVIOUS
  <2>1. \A s \in Slot : obligation[s].status = "ABSENT" /\ \A r \in Runner : pass[r].draft[s].status = "ABSENT"
    BY IdlePassIsSound DEF Init
  <2> QED
    BY <2>1 DEF DatesAreFixed, PenaltyDrafts, Dated, HasDraft, Penalty, Slot
<1> QED
  BY <1>1, DatesStep, PenaltyDraftsStep, LedgerInvariant, PTL DEF Spec

(* Penalties are prospective: once no rule that penalises is in force and no
   running pass has read one, a due that has fallen due never gets a penalty,
   whichever rules are saved afterwards and however the statements of any
   number of passes are interleaved with them. *)
THEOREM PenaltiesLookAhead == Spec => PenaltiesAreProspective
<1> SUFFICES ASSUME NEW d \in Due
             PROVE  Spec => [](PenaltiesAreOff /\ DueDate[d] <= now /\ obligation[Penalty(d)].status = "ABSENT"
                                 => [](obligation[Penalty(d)].status = "ABSENT"))
  BY DEF PenaltiesAreProspective
<1> DEFINE Unpunished == obligation[Penalty(d)].status = "ABSENT"
           Free == PenaltiesAreOff /\ DueDate[d] <= now /\ obligation[Penalty(d)].status = "ABSENT"
<1>1. LedgerInv /\ PenaltyDrafts /\ Free => Spared(d)
  BY SparedWhenOff
<1>2. LedgerInv /\ DatesAreFixed /\ Spared(d) /\ [Next]_vars => Spared(d)'
  BY SparedStep
<1>3. Spared(d) => Unpunished
  BY DEF Spared
<1> QED
  BY <1>1, <1>2, <1>3, DatesInvariant, PTL DEF Spec

=============================================================================

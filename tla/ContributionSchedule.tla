------------------------- MODULE ContributionSchedule -------------------------
(***************************************************************************)
(* The schedule of one group's dues: the pass that waives, re-prices and   *)
(* creates the rows of the plan and then adds late penalties               *)
(* (generateContributionSchedule and applyLatePenalties of                 *)
(* apps/api/src/groups/groups.service.ts).                                 *)
(*                                                                         *)
(* Three callers run a pass statement by statement.  The register of       *)
(* contributions and the saving of settings run it outside any             *)
(* transaction: what a statement writes is seen at once.  A newcomer's     *)
(* joinGroup runs it in a READ COMMITTED transaction: its statements see   *)
(* what others commit, while its own writes stay a draft, with their rows  *)
(* locked, until it commits.  Each runner is one such call, and one action *)
(* here is one statement.  Only saveFinancialYear runs the whole pass in a *)
(* Serializable transaction, one action here.                              *)
(*                                                                         *)
(* One recurring plan is modelled next to an always-active one, so a pass  *)
(* never stops early for want of an active plan; the plan of the late      *)
(* penalties exists.  The members of Due are ACTIVE; a newcomer's own dues *)
(* are not among them, since nobody sees those before the join commits.    *)
(***************************************************************************)
EXTENDS MinorUnits

CONSTANTS
  Due,             \* (member, period) slots of the recurring plan
  Payment,         \* payment ids that may be used
  DueDate,         \* [Due -> Nat]: when the slot falls due
  PenaltyAmount,   \* late penalty of a rule that enables penalties
  GraceDays,       \* days of grace of the rule
  Runner           \* calls that may run a pass at the same time

PlanRow == [price : Minor, active : BOOLEAN]
Rule == [allowsPartial : BOOLEAN, autoAllocate : BOOLEAN,
         penalties : BOOLEAN, effectiveAt : Nat]

ASSUME ScheduleAssumption ==
  /\ IsFiniteSet(Due) /\ IsFiniteSet(Payment)
  /\ DueDate \in [Due -> Nat]
  /\ PenaltyAmount \in Minor \ {0}
  /\ GraceDays \in Nat

VARIABLES
  now,          \* the clock, in days
  rule,         \* GroupPaymentRule
  partial,      \* ContributionPlan.allowsPartial, on all plans of the group
  plan,         \* the recurring ContributionPlan
  obligation,   \* MemberContributionObligation rows, by slot
  pending,      \* PENDING PaymentAllocation amounts, by payment and slot
  applied,      \* APPLIED PaymentAllocation amounts, by payment and slot
  pass          \* the running passes: next statement, what was read, draft

-----------------------------------------------------------------------------
(* Slots: each due may also carry one late penalty (penaltySourceId). *)

Slot == Due \X {"CONTRIBUTION", "PENALTY"}
Contribution(d) == <<d, "CONTRIBUTION">>
Penalty(d) == <<d, "PENALTY">>

ObligationStatus == {"ABSENT", "UPCOMING", "DUE", "PARTIALLY_PAID", "PAID", "WAIVED"}
Obligation == [status : ObligationStatus, due : Minor, paid : Minor, dueAt : Nat]
AbsentObligation == [status |-> "ABSENT", due |-> 0, paid |-> 0, dueAt |-> 0]
NoRows == [s \in Slot |-> AbsentObligation]

Call == {"REGISTER", "SETTINGS", "JOIN"}
Statement == {"IDLE", "READ_PARTIAL", "WRITE_PARTIAL", "READ_PLANS", "WAIVE", "FALL_DUE",
              "REPRICE", "CREATE", "FIND_LATE", "PENALISE"}
Pass == [at : Statement, call : Call, plan : PlanRow, rule : Rule, todo : SUBSET Due,
         draft : [Slot -> Obligation]]
NoRule == [allowsPartial |-> FALSE, autoAllocate |-> FALSE, penalties |-> FALSE,
           effectiveAt |-> 0]
IdlePass == [at |-> "IDLE", call |-> "REGISTER", plan |-> [price |-> 0, active |-> FALSE],
             rule |-> NoRule, todo |-> {}, draft |-> NoRows]

-----------------------------------------------------------------------------
(* What the statements do to a row o of slot s. *)

(* Mutation: rows that are due or promised are changed too. *)
UnpaidOnly(s, o) == o.paid = 0

(* The rows the schedule may still change: not due yet, nothing paid, no
   allocation of any payment. *)
Untouched(s, o) ==
  /\ o.paid = 0
  /\ o.dueAt > now
  /\ \A p \in Payment : pending[p][s] = 0 /\ applied[p][s] = 0

NewObligation(amount, dueAt) ==
  [status |-> IF dueAt <= now THEN "DUE" ELSE "UPCOMING",
   due |-> amount, paid |-> 0, dueAt |-> dueAt]

(* The plan is asked for again, not the one read before. *)
Waived(s, o) ==
  IF s[2] = "CONTRIBUTION" /\ o.status # "ABSENT" /\ ~plan.active /\ Untouched(s, o)
  THEN [o EXCEPT !.status = "WAIVED"]
  ELSE o

FallenDue(o) ==
  IF o.status = "UPCOMING" /\ o.dueAt <= now THEN [o EXCEPT !.status = "DUE"] ELSE o

Repriced(s, o, price) ==
  IF s[2] = "CONTRIBUTION" /\ o.status \in {"DUE", "UPCOMING"} /\ Untouched(s, o)
  THEN [o EXCEPT !.due = price, !.status = IF price = 0 THEN "WAIVED" ELSE @]
  ELSE o

(* An upsert with an empty update. *)
Created(o, amount, dueAt) == IF o.status = "ABSENT" THEN NewObligation(amount, dueAt) ELSE o

(* Which rows attract the late penalty of rule r.  A due falls on the start
   of its day, a rule is saved in the course of one: a due of that very day
   came before the rule. *)
Late(o, r) ==
  /\ o.status \in {"DUE", "PARTIALLY_PAID"}
  /\ o.dueAt > r.effectiveAt
  /\ o.dueAt < now - GraceDays
  /\ o.paid < o.due

-----------------------------------------------------------------------------
(* Reading and writing in a pass. *)

HasDraft(r, s) == pass[r].draft[s].status # "ABSENT"

(* The rows as the statements of pass r see them. *)
Seen(r) == [s \in Slot |-> IF HasDraft(r, s) THEN pass[r].draft[s] ELSE obligation[s]]

(* A write waits for the transactions that have written its rows. *)
Unlocked(r, s) == \A other \in Runner \ {r} : ~HasDraft(other, s)

(* A statement of pass r turns what it sees into rows and leaves the pass as
   next.  (That a row which a statement of a join leaves as it was is locked
   too only delays others; they would find the same row.) *)
Write(r, rows, next) ==
  LET changed == {s \in Slot : rows[s] # Seen(r)[s]}
  IN  /\ \A s \in changed : Unlocked(r, s)
      /\ IF next.call = "JOIN"
         THEN /\ pass' = [pass EXCEPT ![r] =
                   [next EXCEPT !.draft = [s \in Slot |-> IF s \in changed THEN rows[s] ELSE @[s]]]]
              /\ obligation' = obligation
         ELSE /\ pass' = [pass EXCEPT ![r] = next]
              /\ obligation' = rows

Goto(r, statement) == [pass[r] EXCEPT !.at = statement]

(* The steps that only read, and those that write rows. *)
Reads(r, next) ==
  /\ pass' = [pass EXCEPT ![r] = next]
  /\ UNCHANGED <<now, rule, partial, plan, obligation, pending, applied>>

Writes(r, rows, next) ==
  /\ Write(r, rows, next)
  /\ UNCHANGED <<now, rule, partial, plan, pending, applied>>

-----------------------------------------------------------------------------
(* The pass. *)

(* contributionRegister and joinGroup reach the schedule directly ... *)
BeginPass(r, call) ==
  /\ pass[r].at = "IDLE"
  /\ call \in {"REGISTER", "JOIN"}
  /\ Reads(r, [IdlePass EXCEPT !.at = "READ_PLANS", !.call = call])

(* ... while saveContributionSettings writes the plans first, in an array
   transaction, and then gives all plans the allowsPartial of the payment
   rule, which it reads in a statement of its own.  active = FALSE is the
   choice of another cycle, which switches this plan off. *)
SaveSettings(r, price, active) ==
  /\ pass[r].at = "IDLE"
  /\ plan' = [price |-> IF active THEN price ELSE plan.price, active |-> active]
  /\ pass' = [pass EXCEPT ![r] = [IdlePass EXCEPT !.at = "READ_PARTIAL", !.call = "SETTINGS"]]
  /\ UNCHANGED <<now, rule, partial, obligation, pending, applied>>

ReadPartial(r) ==
  /\ pass[r].at = "READ_PARTIAL"
  /\ Reads(r, [Goto(r, "WRITE_PARTIAL") EXCEPT !.rule.allowsPartial = rule.allowsPartial])

WritePartial(r) ==
  /\ pass[r].at = "WRITE_PARTIAL"
  /\ partial' = pass[r].rule.allowsPartial
  /\ pass' = [pass EXCEPT ![r] = Goto(r, "READ_PLANS")]
  /\ UNCHANGED <<now, rule, plan, obligation, pending, applied>>

ReadPlans(r) ==
  /\ pass[r].at = "READ_PLANS"
  /\ Reads(r, [Goto(r, "WAIVE") EXCEPT !.plan = plan])

WaiveInactive(r) ==
  /\ pass[r].at = "WAIVE"
  /\ Writes(r, [s \in Slot |-> Waived(s, Seen(r)[s])], Goto(r, "FALL_DUE"))

FallDue(r) ==
  /\ pass[r].at = "FALL_DUE"
  /\ Writes(r, [s \in Slot |-> FallenDue(Seen(r)[s])],
            Goto(r, IF pass[r].plan.active THEN "REPRICE" ELSE "CREATE"))

(* At the price read before, whatever it is now. *)
Reprice(r) ==
  /\ pass[r].at = "REPRICE"
  /\ Writes(r, [s \in Slot |-> Repriced(s, Seen(r)[s], pass[r].plan.price)],
            [Goto(r, "CREATE") EXCEPT
               !.todo = IF pass[r].plan.price = 0 \/ pass[r].call = "JOIN" THEN {} ELSE Due])

(* The rows of a member's periods are created concurrently. *)
Create(r, d) ==
  /\ pass[r].at = "CREATE"
  /\ d \in pass[r].todo
  /\ Writes(r, [Seen(r) EXCEPT ![Contribution(d)] = Created(@, pass[r].plan.price, DueDate[d])],
            [pass[r] EXCEPT !.todo = @ \ {d}])

(* applyLatePenalties: the rule ... *)
ReadRule(r) ==
  /\ pass[r].at = "CREATE"
  /\ pass[r].todo = {}
  /\ Reads(r, [Goto(r, IF rule.penalties THEN "FIND_LATE" ELSE "PENALISE") EXCEPT !.rule = rule])

(* ... the late rows under that rule ... *)
FindLate(r) ==
  /\ pass[r].at = "FIND_LATE"
  /\ Reads(r, [Goto(r, "PENALISE") EXCEPT
                 !.todo = {d \in Due : Late(Seen(r)[Contribution(d)], pass[r].rule)}])

(* ... and one upsert for each of them. *)
Penalise(r, d) ==
  /\ pass[r].at = "PENALISE"
  /\ d \in pass[r].todo
  /\ Writes(r, [Seen(r) EXCEPT ![Penalty(d)] = Created(@, PenaltyAmount, now)],
            [pass[r] EXCEPT !.todo = @ \ {d}])

(* The call returns; a join commits its draft. *)
EndPass(r) ==
  /\ pass[r].at = "PENALISE"
  /\ pass[r].todo = {}
  /\ obligation' = Seen(r)
  /\ pass' = [pass EXCEPT ![r] = IdlePass]
  /\ UNCHANGED <<now, rule, partial, plan, pending, applied>>

(* A statement fails, a join is rolled back, or the process dies. *)
AbandonPass(r) ==
  /\ pass[r].at # "IDLE"
  /\ Reads(r, IdlePass)

PassStep(r) ==
  \/ ReadPartial(r)
  \/ WritePartial(r)
  \/ ReadPlans(r)
  \/ WaiveInactive(r)
  \/ FallDue(r)
  \/ Reprice(r)
  \/ \E d \in Due : Create(r, d)
  \/ ReadRule(r)
  \/ FindLate(r)
  \/ \E d \in Due : Penalise(r, d)
  \/ EndPass(r)
  \/ AbandonPass(r)

(* saveFinancialYear: the whole pass in one Serializable transaction. *)
Scheduled(d) ==
  LET s == Contribution(d)
      standing == FallenDue(Waived(s, obligation[s]))
  IN  IF ~plan.active THEN standing
      ELSE IF plan.price = 0 THEN Repriced(s, standing, 0)
           ELSE Created(Repriced(s, standing, plan.price), plan.price, DueDate[d])

WholePass ==
  LET rows == [s \in Slot |->
                 IF s[2] = "CONTRIBUTION" THEN Scheduled(s[1])
                 ELSE IF rule.penalties /\ Late(Scheduled(s[1]), rule)
                      THEN Created(obligation[s], PenaltyAmount, now)
                      ELSE obligation[s]]
  IN  /\ \A s \in Slot, r \in Runner : rows[s] # obligation[s] => ~HasDraft(r, s)
      /\ obligation' = rows
      /\ UNCHANGED <<now, rule, partial, plan, pending, applied, pass>>

=============================================================================

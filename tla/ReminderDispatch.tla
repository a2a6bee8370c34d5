--------------------------- MODULE ReminderDispatch ---------------------------
(***************************************************************************)
(* The payment reminders of one group: the scheduler of                    *)
(* apps/api/src/groups/reminder-dispatch.service.ts and the manual         *)
(* dispatch of groups.service.ts add jobs to a BullMQ queue; workers take  *)
(* them, reserve paid credits under a delivery key, call the provider and  *)
(* record the outcome.  A worker may crash, stall past its lock, or get no *)
(* answer; jobs are tried again, removed and added again.                  *)
(*                                                                         *)
(* The queue itself is a library: what is modelled is what its options     *)
(* (queue.module.ts: attempts, removeOnComplete, removeOnFail) and its     *)
(* jobId make of add, take, finish and stall.  Its back-off delay is the   *)
(* time a job stays WAITING.  A job is named by its delivery key.          *)
(***************************************************************************)
EXTENDS MinorUnits

CONSTANTS
  Key,          \* delivery keys: one per due and day, or per manual recipient
  Scheduled,    \* the keys the scheduler uses
  DayOf,        \* [Scheduled -> Nat]: the day a rule's offset selects the due
  DueOf,        \* [Scheduled -> Owing]: the due the reminder is about
  Owing,        \* dues
  Cost,         \* [Key -> Minor]: segments of the text
  Channel,      \* [Key -> {"SMS", "WHATSAPP"}]
  Package,      \* purchased reminder packages
  Quantity,     \* [Package -> Minor]
  Sold,         \* [Package -> {"SMS", "WHATSAPP", "BOTH"}]
  Dispatch,     \* manual dispatches: sets of keys
  Server,       \* processes that run the scheduler
  Worker,       \* queue workers
  Nobody,       \* no worker, no key
  MaxAttempts,  \* attempts of a job
  MaxStalls,    \* stalls the queue forgives a job
  LastDay,      \* bound on the calendar
  Faults        \* what may go wrong in this instance

Fault == {"ABORT", "LOST_ANSWER", "LOST_WRITE", "CRASH", "SLOW", "REMOVE", "SKIP", "RESTART",
          "RESTATUS"}

Manual == Key \ Scheduled

ASSUME ReminderAssumption ==
  /\ IsFiniteSet(Key) /\ IsFiniteSet(Package)
  /\ Scheduled \subseteq Key
  /\ DayOf \in [Scheduled -> Nat]
  /\ DueOf \in [Scheduled -> Owing]
  /\ Cost \in [Key -> Minor \ {0}]
  /\ Channel \in [Key -> {"SMS", "WHATSAPP"}]
  /\ Quantity \in [Package -> Minor]
  /\ Sold \in [Package -> {"SMS", "WHATSAPP", "BOTH"}]
  /\ Dispatch \subseteq SUBSET Manual
  /\ Nobody \notin Worker \cup Key
  /\ MaxAttempts \in Nat \ {0} /\ MaxStalls \in Nat /\ LastDay \in Nat
  /\ Faults \subseteq Fault

VARIABLES
  today,      \* the calendar day in Dar es Salaam
  enabled,    \* GroupReminderRule.enabled
  owes,       \* dues that still have a balance
  paid,       \* packages whose status is PAID
  paidAt,     \* [Package -> Nat]: order of the paidAt columns, 0 where null
  used,       \* ReminderPackagePurchase.usedQuantity
  delivery,   \* ReminderDelivery.state, by key
  texts,      \* texts the provider has accepted, by key
  job,        \* jobs of the queue, by key
  run,        \* the scheduler of each server
  worker,     \* what each worker is doing
  manual      \* progress of manual dispatches, by key

data == <<paid, paidAt, used, delivery, texts>>
calendar == <<today, enabled, owes>>
vars == <<today, enabled, owes, paid, paidAt, used, delivery, texts, job, run, worker, manual>>

DeliveryState == {"ABSENT", "RESERVED", "SENT", "UNKNOWN"}

Job == [state : {"ABSENT", "WAITING", "ACTIVE", "COMPLETED", "FAILED"},
        tries : 0 .. MaxAttempts, stalls : 0 .. MaxStalls, lock : Worker \cup {Nobody}]
Run == [at : {"IDLE", "READING", "QUEUEING"}, day : Nat, todo : SUBSET Scheduled]
Hand == [at : {"IDLE", "RESERVE", "SEND", "MARK_SENT", "MARK_UNKNOWN", "RETURN", "THROW"},
         key : Key \cup {Nobody}]

NoJob == [state |-> "ABSENT", tries |-> 0, stalls |-> 0, lock |-> Nobody]
NewJob == [NoJob EXCEPT !.state = "WAITING"]
Free == [at |-> "IDLE", key |-> Nobody]
Resting == [at |-> "IDLE", day |-> 0, todo |-> {}]

TypeOK ==
  /\ today \in Nat /\ enabled \in BOOLEAN /\ owes \subseteq Owing
  /\ paid \subseteq Package
  /\ paidAt \in [Package -> Nat]
  /\ used \in [Package -> Minor]
  /\ delivery \in [Key -> DeliveryState]
  /\ texts \in [Key -> Nat]
  /\ job \in [Key -> Job]
  /\ run \in [Server -> Run]
  /\ worker \in [Worker -> Hand]
  /\ manual \in [Manual -> {"NEW", "CHECKED", "QUEUED"}]

Init ==
  /\ today = 0
  /\ enabled \in BOOLEAN
  /\ owes = Owing
  /\ paid = {}
  /\ paidAt = [g \in Package |-> 0]
  /\ used = [g \in Package |-> 0]
  /\ delivery = [k \in Key |-> "ABSENT"]
  /\ texts = [k \in Key |-> 0]
  /\ job = [k \in Key |-> NoJob]
  /\ run = [s \in Server |-> Resting]
  /\ worker = [w \in Worker |-> Free]
  /\ manual = [k \in Manual |-> "NEW"]

-----------------------------------------------------------------------------
(* Credits. *)

(* Mutation: purchases that are still PENDING can be charged. *)
ChargeableUnpaid(k) == {g \in Package : Sold[g] \in {Channel[k], "BOTH"}}

(* The packages the text of key k may be charged to. *)
Chargeable(k) == {g \in paid : Sold[g] \in {Channel[k], "BOTH"}}

(* Credits left in a set of packages. *)
Left(S) == Total(S, [g \in S |-> Quantity[g] - used[g]])

(* Mutation: packages are charged up to what they held when bought. *)
ChargesIgnoringUse(k) ==
  {u \in [Package -> Minor] :
     /\ \A g \in Package : used[g] <= u[g]
     /\ \A g \in Package \ Chargeable(k) : u[g] = used[g]
     /\ \A g \in Chargeable(k) : u[g] - used[g] <= Quantity[g]
     /\ Total(Package, [g \in Package |-> u[g] - used[g]]) = Cost[k]}

(* Mutation: what can be charged is charged, and the shortfall is forgotten. *)
ChargesPartly(k) ==
  {u \in [Package -> Minor] :
     /\ \A g \in Package : used[g] <= u[g] /\ u[g] <= Quantity[g]
     /\ \A g \in Package \ Chargeable(k) : u[g] = used[g]
     /\ \/ Total(Package, [g \in Package |-> u[g] - used[g]]) = Cost[k]
        \/ /\ Total(Package, [g \in Package |-> u[g] - used[g]]) < Cost[k]
           /\ \A g \in Chargeable(k) : u[g] = Quantity[g]}

(* The new usedQuantity columns when the text of k is charged in full: oldest
   package first, none beyond its quantity.  {} when credits are short. *)
Charges(k) ==
  {u \in [Package -> Minor] :
     /\ \A g \in Package : used[g] <= u[g] /\ u[g] <= Quantity[g]
     /\ \A g \in Package \ Chargeable(k) : u[g] = used[g]
     /\ Total(Package, [g \in Package |-> u[g] - used[g]]) = Cost[k]
     /\ \A g, h \in Chargeable(k) :
          paidAt[g] < paidAt[h] /\ used[h] < u[h] => u[g] = Quantity[g]}

(* Packages that were confirmed at some time. *)
Confirmed == {g \in Package : paidAt[g] > 0}

(* The paidAt columns after g is stamped with the current time. *)
Stamped(g) ==
  [h \in Package |->
     IF h = g THEN Cardinality(Confirmed \cup {g})
     ELSE IF g \in Confirmed /\ paidAt[h] > paidAt[g] THEN paidAt[h] - 1 ELSE paidAt[h]]

(* The payment provider says that a purchase is completed.  It may say so
   again, in a second event for the same order. *)
PayPackage(g) ==
  /\ g \notin Confirmed \/ "RESTATUS" \in Faults
  /\ paid' = paid \cup {g}
  /\ paidAt' = Stamped(g)
  /\ UNCHANGED <<calendar, used, delivery, texts, job, run, worker, manual>>

(* The provider says that it failed or was cancelled; a purchase that is
   already PAID, and perhaps used, is not protected from it. *)
FailPackage(g) ==
  /\ "RESTATUS" \in Faults
  /\ paid' = paid \ {g}
  /\ UNCHANGED <<calendar, paidAt, used, delivery, texts, job, run, worker, manual>>

-----------------------------------------------------------------------------
(* The world around the scheduler. *)

NewDay ==
  /\ today < LastDay
  /\ today' = today + 1
  /\ UNCHANGED <<enabled, owes, data, job, run, worker, manual>>

(* saveReminderSettings *)
SaveReminderSettings ==
  /\ enabled' = ~enabled
  /\ UNCHANGED <<today, owes, data, job, run, worker, manual>>

(* A due is paid in full. *)
Settle(o) ==
  /\ o \in owes
  /\ owes' = owes \ {o}
  /\ UNCHANGED <<today, enabled, data, job, run, worker, manual>>

-----------------------------------------------------------------------------
(* Queue.add: a job with a known jobId is not added again. *)
Added(keys) == [k \in Key |-> IF k \in keys /\ job[k].state = "ABSENT" THEN NewJob ELSE job[k]]

(* runScheduled: the running flag, the date and the enabled rules ... *)
StartRun(s) ==
  /\ run[s].at = "IDLE"
  /\ run' = [run EXCEPT ![s] = IF enabled THEN [at |-> "READING", day |-> today, todo |-> {}]
                               ELSE Resting]
  /\ UNCHANGED <<calendar, data, job, worker, manual>>

(* ... the dues the rule selects on that date ... *)
ReadDues(s) ==
  /\ run[s].at = "READING"
  /\ run' = [run EXCEPT
       ![s].at = "QUEUEING",
       ![s].todo = {k \in Scheduled : DayOf[k] = run[s].day /\ DueOf[k] \in owes}]
  /\ UNCHANGED <<calendar, data, job, worker, manual>>

(* ... one job each (a failing add is logged and skipped) ... *)
QueueScheduled(s, k) ==
  /\ run[s].at = "QUEUEING" /\ k \in run[s].todo
  /\ run' = [run EXCEPT ![s].todo = @ \ {k}]
  /\ \/ job' = Added({k})
     \/ "SKIP" \in Faults /\ job' = job
  /\ UNCHANGED <<calendar, data, worker, manual>>

(* ... and the flag is cleared, also when the run throws or the server restarts. *)
EndRun(s) ==
  /\ \/ run[s].at = "QUEUEING" /\ run[s].todo = {}
     \/ run[s].at # "IDLE" /\ "RESTART" \in Faults
  /\ run' = [run EXCEPT ![s] = Resting]
  /\ UNCHANGED <<calendar, data, job, worker, manual>>

(* sendReminder: the credits of the whole dispatch are checked, per channel ... *)
CheckManual(d) ==
  /\ \A k \in d : manual[k] = "NEW"
  /\ \A c \in {"SMS", "WHATSAPP"} :
       LET texted == {k \in d : Channel[k] = c}
       IN  texted # {} =>
             Total(texted, Cost) <= Left({g \in paid : Sold[g] \in {c, "BOTH"}})
  /\ manual' = [k \in Manual |-> IF k \in d THEN "CHECKED" ELSE manual[k]]
  /\ UNCHANGED <<calendar, data, job, run, worker>>

(* ... and every recipient gets a job of their own. *)
QueueManual(k) ==
  /\ manual[k] = "CHECKED"
  /\ manual' = [manual EXCEPT ![k] = "QUEUED"]
  /\ job' = Added({k})
  /\ UNCHANGED <<calendar, data, run, worker>>

-----------------------------------------------------------------------------
(* Workers: sendSms and sendWhatsApp. *)

To(w, at) == worker' = [worker EXCEPT ![w].at = at]

Take(w, k) ==
  /\ worker[w].at = "IDLE" /\ job[k].state = "WAITING"
  /\ job' = [job EXCEPT ![k].state = "ACTIVE", ![k].lock = w]
  /\ worker' = [worker EXCEPT ![w] = [at |-> "RESERVE", key |-> k]]
  /\ UNCHANGED <<calendar, data, run, manual>>

(* Mutation: an earlier delivery that failed does not count as a delivery. *)
FreshUnlessSent(k) == delivery[k] \in {"ABSENT", "UNKNOWN"}

(* The unique delivery key is not taken. *)
Fresh(k) == delivery[k] = "ABSENT"

(* reserveCredits: one Serializable transaction creates the key and charges
   the packages, or leaves both alone. *)
Reserve(w) ==
  LET k == worker[w].key
  IN  /\ worker[w].at = "RESERVE"
      /\ Fresh(k)
      /\ used' \in Charges(k)
      /\ delivery' = [delivery EXCEPT ![k] = "RESERVED"]
      /\ To(w, "SEND")
      /\ UNCHANGED <<calendar, paid, paidAt, texts, job, run, manual>>

(* The key exists and nothing is to be done, credits are short, or the
   database aborts the transaction. *)
ReserveNothing(w) ==
  LET k == worker[w].key
  IN  /\ worker[w].at = "RESERVE"
      /\ \/ ~Fresh(k) /\ To(w, "RETURN")
         \/ Fresh(k) /\ Charges(k) = {} /\ To(w, "THROW")
         \/ "ABORT" \in Faults /\ To(w, "THROW")
      /\ UNCHANGED <<calendar, data, job, run, manual>>

(* Mutation: an error of the provider is not told from success. *)
SendOptimistic(w) ==
  LET k == worker[w].key
  IN  /\ worker[w].at = "SEND"
      /\ texts' \in {texts, [texts EXCEPT ![k] = @ + 1]}
      /\ To(w, "MARK_SENT")
      /\ UNCHANGED <<calendar, paid, paidAt, used, delivery, job, run, manual>>

(* The provider accepts the text and says so, accepts it and the answer is
   lost, or does not accept it. *)
Send(w) ==
  LET k == worker[w].key
  IN  /\ worker[w].at = "SEND"
      /\ \/ texts' = [texts EXCEPT ![k] = @ + 1] /\ To(w, "MARK_SENT")
         \/ /\ "LOST_ANSWER" \in Faults
            /\ texts' \in {texts, [texts EXCEPT ![k] = @ + 1]}
            /\ To(w, "MARK_UNKNOWN")
      /\ UNCHANGED <<calendar, paid, paidAt, used, delivery, job, run, manual>>

(* The outcome is written; when the first write fails it is UNKNOWN, when the
   second fails the key stays as it is. *)
Mark(w) ==
  LET k == worker[w].key
  IN  /\ \/ /\ worker[w].at = "MARK_SENT"
            /\ \/ delivery' = [delivery EXCEPT ![k] = "SENT"] /\ To(w, "RETURN")
               \/ "LOST_WRITE" \in Faults /\ delivery' = delivery /\ To(w, "MARK_UNKNOWN")
         \/ /\ worker[w].at = "MARK_UNKNOWN"
            /\ \/ delivery' = [delivery EXCEPT ![k] = "UNKNOWN"]
               \/ "LOST_WRITE" \in Faults /\ delivery' = delivery
            /\ To(w, "THROW")
      /\ UNCHANGED <<calendar, paid, paidAt, used, texts, job, run, manual>>

(* Mutation: one attempt too many. *)
AfterThrowOneMore(j) ==
  [j EXCEPT !.tries = @ + 1, !.lock = Nobody,
            !.state = IF j.tries < MaxAttempts THEN "WAITING" ELSE "FAILED"]

(* Mutation: attempts are not counted. *)
AfterThrowForever(j) == [j EXCEPT !.state = "WAITING", !.lock = Nobody]

(* A job after its handler throws. *)
AfterThrow(j) ==
  [j EXCEPT !.tries = @ + 1, !.lock = Nobody,
            !.state = IF j.tries + 1 < MaxAttempts THEN "WAITING" ELSE "FAILED"]

(* The handler ends; only the holder of the lock may finish the job. *)
Finish(w) ==
  LET k == worker[w].key
      j == job[k]
  IN  /\ worker[w].at \in {"RETURN", "THROW"}
      /\ job' = [job EXCEPT ![k] =
           IF j.lock # w THEN j
           ELSE IF worker[w].at = "THROW" THEN AfterThrow(j)
           ELSE [j EXCEPT !.state = "COMPLETED", !.lock = Nobody]]
      /\ worker' = [worker EXCEPT ![w] = Free]
      /\ UNCHANGED <<calendar, data, run, manual>>

(* The process of the worker dies. *)
Crash(w) ==
  /\ "CRASH" \in Faults
  /\ worker[w].at # "IDLE"
  /\ worker' = [worker EXCEPT ![w] = Free]
  /\ job' = [k \in Key |-> IF job[k].lock = w THEN [job[k] EXCEPT !.lock = Nobody] ELSE job[k]]
  /\ UNCHANGED <<calendar, data, run, manual>>

(* The lock of an active job expires: its worker died, or is alive but slow.
   The queue gives it to another worker, or fails it. *)
Stall(k) ==
  /\ job[k].state = "ACTIVE"
  /\ job[k].lock = Nobody \/ "SLOW" \in Faults
  /\ job' = [job EXCEPT ![k] =
       IF job[k].stalls < MaxStalls
       THEN [job[k] EXCEPT !.state = "WAITING", !.stalls = @ + 1, !.lock = Nobody]
       ELSE [job[k] EXCEPT !.state = "FAILED", !.lock = Nobody]]
  /\ UNCHANGED <<calendar, data, run, worker, manual>>

(* removeOnComplete and removeOnFail *)
Remove(k) ==
  /\ "REMOVE" \in Faults
  /\ job[k].state \in {"COMPLETED", "FAILED"}
  /\ job' = [job EXCEPT ![k] = NoJob]
  /\ UNCHANGED <<calendar, data, run, worker, manual>>

Next ==
  \/ NewDay
  \/ SaveReminderSettings
  \/ \E o \in Owing : Settle(o)
  \/ \E g \in Package : PayPackage(g)
  \/ \E g \in Package : FailPackage(g)
  \/ \E s \in Server : StartRun(s)
  \/ \E s \in Server : ReadDues(s)
  \/ \E s \in Server, k \in Scheduled : QueueScheduled(s, k)
  \/ \E s \in Server : EndRun(s)
  \/ \E d \in Dispatch : CheckManual(d)
  \/ \E k \in Manual : QueueManual(k)
  \/ \E w \in Worker, k \in Key : Take(w, k)
  \/ \E w \in Worker : Reserve(w)
  \/ \E w \in Worker : ReserveNothing(w)
  \/ \E w \in Worker : Send(w)
  \/ \E w \in Worker : Mark(w)
  \/ \E w \in Worker : Finish(w)
  \/ \E w \in Worker : Crash(w)
  \/ \E k \in Key : Stall(k)
  \/ \E k \in Key : Remove(k)

Spec == Init /\ [][Next]_vars

(* The queue hands every waiting job to a worker in turn (it is first in,
   first out), workers go on, and the lock of a job whose worker died runs out. *)
Fairness ==
  /\ \A k \in Key : SF_vars(\E w \in Worker : Take(w, k))
  /\ \A w \in Worker :
       WF_vars(Reserve(w) \/ ReserveNothing(w) \/ Send(w) \/ Mark(w) \/ Finish(w))
  /\ \A k \in Key : WF_vars(job[k].lock = Nobody /\ Stall(k))

(* The timer of every server starts a run each minute, and the run goes on. *)
Timer ==
  \A s \in Server : /\ SF_vars(enabled /\ StartRun(s))
                    /\ SF_vars(ReadDues(s))
                    /\ \A k \in Scheduled : SF_vars(QueueScheduled(s, k) /\ job' = Added({k}))
                    /\ WF_vars(run[s].todo = {} /\ EndRun(s))

FairSpec == Spec /\ Fairness
TimedSpec == FairSpec /\ Timer

-----------------------------------------------------------------------------
(* Safety. *)

(* A reminder is never texted twice, however often its job is tried again,
   stalls on a slow worker, is removed and added again, or survives a crash
   between the charge, the text and the record of the outcome.  README.md:58. *)
TextedAtMostOnce == \A k \in Key : texts[k] <= 1

(* No package is ever charged beyond what was bought, and none before its
   payment is confirmed, whatever the provider says of it afterwards. *)
NeverOverdrawn == \A g \in Package : used[g] <= Quantity[g] /\ (used[g] > 0 => g \in Confirmed)

(* Every credit that was used is held by exactly one delivery key: uncertain
   deliveries keep theirs, failed charges leave none behind.  README.md:58. *)
CreditsAccounted ==
  Total(Package, used) = Total({k \in Key : delivery[k] # "ABSENT"}, Cost)

(* A text costs credits, and a key marked SENT has been texted: the record
   never claims more, and the provider never does more, than was reserved. *)
RecordsAreHonest ==
  \A k \in Key :
    /\ texts[k] > 0 => delivery[k] # "ABSENT"
    /\ delivery[k] = "SENT" => texts[k] = 1

(* Liveness. *)

(* No reminder is tried for ever: every job that is queued is completed, or
   given up, or removed, though its workers may crash or stall. *)
JobsEnd ==
  \A k \in Key :
    job[k].state \in {"WAITING", "ACTIVE"} ~> job[k].state \in {"ABSENT", "COMPLETED", "FAILED"}

(* "Enabled reminder rules dispatch SMS through Briq using paid SMS credits.
   The worker checks every minute" (README.md:58): while the rule stays
   enabled, the due unpaid, the day the right one and the credits sufficient,
   the reminder is at some time charged. *)
PaidRemindersAreSent ==
  \A k \in Scheduled :
    <>[](enabled /\ DueOf[k] \in owes /\ today = DayOf[k] /\ (Fresh(k) => Charges(k) # {}))
      => <>(delivery[k] # "ABSENT")

-----------------------------------------------------------------------------
(* The promise the dispatcher implements: jobs, workers, crashes and the
   scheduler do not show. *)
Promise == INSTANCE PrepaidOnce WITH
  Text <- Key,
  Price <- [S \in SUBSET Key |-> Total(S, Cost)],
  bought <- Total(Confirmed, Quantity),
  charged <- {k \in Key : delivery[k] # "ABSENT"},
  sent <- texts

(* Every step of the dispatcher buys credits, charges one text that the
   credits still cover, or sends one charged text for the first time. *)
ImplementsPromise == Promise!Spec

=============================================================================

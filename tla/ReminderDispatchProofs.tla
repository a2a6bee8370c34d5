------------------------ MODULE ReminderDispatchProofs ------------------------
(***************************************************************************)
(* Proofs about ReminderDispatch, for every set of dues, texts, packages,  *)
(* servers and workers, every number of attempts and stalls, and every     *)
(* choice of what may go wrong.  Three invariants build on one another:    *)
(* QueueInv (jobs and the workers that hold them), DispatchInv (a delivery *)
(* key is in the hands of one worker between the charge and the record of  *)
(* the outcome), CreditInv (what is charged is bought).                    *)
(***************************************************************************)
EXTENDS ReminderDispatch, MinorUnitsTheorems

(* Jobs that may run have attempts left, and only running jobs are locked. *)
JobsSound ==
  \A k \in Key : /\ job[k].state \in {"WAITING", "ACTIVE"} => job[k].tries < MaxAttempts
                 /\ job[k].lock # Nobody => job[k].state = "ACTIVE"

(* A worker that is not idle holds a key. *)
KeysInHand == \A w \in Worker : worker[w].at # "IDLE" => worker[w].key \in Key

QueueInv == TypeOK /\ JobsSound /\ KeysInHand

(* Between the charge and the end of the record of its outcome. *)
Dispatching == {"SEND", "MARK_SENT", "MARK_UNKNOWN"}

(* No two workers dispatch the same key. *)
DispatchedAlone ==
  \A v, w \in Worker :
    worker[v].at \in Dispatching /\ worker[w].at \in Dispatching /\ worker[v].key = worker[w].key
      => v = w

(* The key a worker dispatches is reserved, and texted when the worker has
   been told so and not before it asks. *)
DispatchesSound ==
  \A w \in Worker :
    /\ worker[w].at \in Dispatching => delivery[worker[w].key] = "RESERVED"
    /\ worker[w].at = "SEND" => texts[worker[w].key] = 0
    /\ worker[w].at = "MARK_SENT" => texts[worker[w].key] = 1

DispatchInv == DispatchedAlone /\ DispatchesSound /\ TextedAtMostOnce /\ RecordsAreHonest

CreditInv == paid \subseteq Confirmed /\ NeverOverdrawn /\ CreditsAccounted

-----------------------------------------------------------------------------
(* Facts about the operators. *)

(* Adding jobs keeps the queue sound. *)
LEMMA AddedIsSound ==
  ASSUME QueueInv, NEW keys \in SUBSET Key
  PROVE  /\ Added(keys) \in [Key -> Job]
         /\ \A k \in Key :
              /\ Added(keys)[k].state \in {"WAITING", "ACTIVE"} => Added(keys)[k].tries < MaxAttempts
              /\ Added(keys)[k].lock # Nobody => Added(keys)[k].state = "ACTIVE"
BY ReminderAssumption DEF QueueInv, TypeOK, JobsSound, Added, NewJob, NoJob, Job

(* A stamp confirms its package and unconfirms none. *)
LEMMA StampedIsSound ==
  ASSUME NEW g \in Package, paidAt \in [Package -> Nat]
  PROVE  /\ Stamped(g) \in [Package -> Nat]
         /\ \A h \in Package : Stamped(g)[h] > 0 <=> h \in Confirmed \cup {g}
<1>1. IsFiniteSet(Confirmed \cup {g})
  <2>1. IsFiniteSet(Package) /\ Confirmed \cup {g} \in SUBSET Package
    BY ReminderAssumption DEF Confirmed
  <2> QED
    BY <2>1, FS_Subset
<1>2. Cardinality(Confirmed \cup {g}) \in Nat
  BY <1>1, FS_CardinalityType
<1>3. Cardinality(Confirmed \cup {g}) # 0
  BY <1>1, FS_EmptySet
<1> QED
  BY <1>2, <1>3 DEF Stamped, Confirmed

(* A charge raises the credits used by exactly the cost of the text, and takes
   none beyond what a package of the text's channel holds. *)
LEMMA ChargeIsExact ==
  ASSUME TypeOK, NEW k \in Key, used' \in Charges(k)
  PROVE  /\ used' \in [Package -> Minor]
         /\ Total(Package, used') = Total(Package, used) + Cost[k]
         /\ \A g \in Package : used[g] <= used'[g] /\ used'[g] <= Quantity[g]
         /\ \A g \in Package \ paid : used'[g] = used[g]
<1> DEFINE raise == [g \in Package |-> used'[g] - used[g]]
<1>1. /\ used' \in [Package -> Minor]
      /\ \A g \in Package : used[g] <= used'[g] /\ used'[g] <= Quantity[g]
      /\ \A g \in Package \ Chargeable(k) : used'[g] = used[g]
      /\ Total(Package, raise) = Cost[k]
  BY DEF Charges
<1>2. used \in [Package -> Minor]
  BY DEF TypeOK
<1>3. Total(Package, used') = Total(Package, used) + Total(Package, raise)
  BY <1>1, <1>2, TotalOfRaises, ReminderAssumption
<1>4. Chargeable(k) \subseteq paid
  BY DEF Chargeable
<1> HIDE DEF raise
<1> QED
  BY <1>1, <1>3, <1>4

-----------------------------------------------------------------------------
(* Jobs and workers. *)

LEMMA QueueInit == Init => QueueInv
<1> SUFFICES ASSUME Init
             PROVE  QueueInv
  OBVIOUS
<1>1. job \in [Key -> Job] /\ worker \in [Worker -> Hand]
  BY ReminderAssumption DEF Init, Job, Hand, NoJob, Free
<1>2. used \in [Package -> Minor]
  BY MaxMinorAssumption DEF Init, Minor
<1>3. TypeOK
  BY <1>1, <1>2 DEF Init, TypeOK, Run, Resting, DeliveryState
<1>4. JobsSound /\ KeysInHand
  BY DEF Init, JobsSound, KeysInHand, NoJob, Free
<1> QED
  BY <1>3, <1>4 DEF QueueInv

(* Every step keeps the queue sound. *)
LEMMA QueueStep == QueueInv /\ [Next]_vars => QueueInv'
<1> SUFFICES ASSUME QueueInv, [Next]_vars
             PROVE  QueueInv'
  OBVIOUS
<1> USE DEF QueueInv
<1>1. CASE NewDay
  BY <1>1 DEF NewDay, TypeOK, JobsSound, KeysInHand, data, calendar
<1>2. CASE SaveReminderSettings
  BY <1>2 DEF SaveReminderSettings, TypeOK, JobsSound, KeysInHand, data, calendar
<1>3. ASSUME NEW o \in Owing, Settle(o) PROVE QueueInv'
  BY <1>3 DEF Settle, TypeOK, JobsSound, KeysInHand, data, calendar
<1>4. ASSUME NEW g \in Package, PayPackage(g) PROVE QueueInv'
  <2>1. paidAt' \in [Package -> Nat]
    BY <1>4, StampedIsSound DEF PayPackage, TypeOK
  <2>2. TypeOK'
    BY <1>4, <2>1 DEF PayPackage, TypeOK, data, calendar
  <2> QED
    BY <1>4, <2>2 DEF PayPackage, JobsSound, KeysInHand
<1>5. ASSUME NEW g \in Package, FailPackage(g) PROVE QueueInv'
  BY <1>5 DEF FailPackage, TypeOK, JobsSound, KeysInHand, data, calendar
<1>6. ASSUME NEW s \in Server, StartRun(s) PROVE QueueInv'
  <2>1. [at |-> "READING", day |-> today, todo |-> {}] \in Run /\ Resting \in Run
    BY DEF Run, Resting, TypeOK
  <2>2. run' \in [Server -> Run]
    BY <1>6, <2>1 DEF StartRun, TypeOK
  <2> QED
    BY <1>6, <2>2 DEF StartRun, TypeOK, JobsSound, KeysInHand, data, calendar
<1>7. ASSUME NEW s \in Server, ReadDues(s) PROVE QueueInv'
  <2>1. run' \in [Server -> Run]
    BY <1>7 DEF ReadDues, Run, TypeOK
  <2> QED
    BY <1>7, <2>1 DEF ReadDues, TypeOK, JobsSound, KeysInHand, data, calendar
<1>8. ASSUME NEW s \in Server, NEW k \in Scheduled, QueueScheduled(s, k) PROVE QueueInv'
  <2>1. {k} \in SUBSET Key
    BY ReminderAssumption
  <2>2. job' = Added({k}) \/ job' = job
    BY <1>8 DEF QueueScheduled
  <2>3. run' \in [Server -> Run]
    BY <1>8 DEF QueueScheduled, Run, TypeOK
  <2>4. TypeOK'
    BY <1>8, <2>1, <2>2, <2>3, AddedIsSound DEF QueueScheduled, TypeOK, data, calendar
  <2>5. JobsSound' /\ KeysInHand'
    BY <1>8, <2>1, <2>2, AddedIsSound DEF QueueScheduled, JobsSound, KeysInHand
  <2> QED
    BY <2>4, <2>5
<1>9. ASSUME NEW s \in Server, EndRun(s) PROVE QueueInv'
  <2>1. run' \in [Server -> Run]
    BY <1>9 DEF EndRun, Run, Resting, TypeOK
  <2> QED
    BY <1>9, <2>1 DEF EndRun, TypeOK, JobsSound, KeysInHand, data, calendar
<1>10. ASSUME NEW d \in Dispatch, CheckManual(d) PROVE QueueInv'
  BY <1>10 DEF CheckManual, TypeOK, JobsSound, KeysInHand, data, calendar
<1>11. ASSUME NEW k \in Manual, QueueManual(k) PROVE QueueInv'
  <2>1. {k} \in SUBSET Key
    BY DEF Manual
  <2>2. TypeOK'
    BY <1>11, <2>1, AddedIsSound DEF QueueManual, TypeOK, data, calendar
  <2>3. JobsSound' /\ KeysInHand'
    BY <1>11, <2>1, AddedIsSound DEF QueueManual, JobsSound, KeysInHand
  <2> QED
    BY <2>2, <2>3
<1>12. ASSUME NEW w \in Worker, NEW k \in Key, Take(w, k) PROVE QueueInv'
  <2>1. [job[k] EXCEPT !.state = "ACTIVE", !.lock = w] \in Job
    BY DEF Job, TypeOK
  <2>2. job' = [job EXCEPT ![k] = [job[k] EXCEPT !.state = "ACTIVE", !.lock = w]]
    BY <1>12 DEF Take, TypeOK
  <2>3. job' \in [Key -> Job]
    BY <2>1, <2>2 DEF TypeOK
  <2>4. JobsSound'
    BY <1>12, <2>2 DEF Take, TypeOK, Job, JobsSound
  <2>5. worker' \in [Worker -> Hand] /\ KeysInHand'
    BY <1>12 DEF Take, Hand, TypeOK, KeysInHand
  <2> QED
    BY <1>12, <2>3, <2>4, <2>5 DEF Take, TypeOK, data, calendar
<1>13. ASSUME NEW w \in Worker, Reserve(w) PROVE QueueInv'
  <2>1. worker[w].key \in Key
    BY <1>13 DEF Reserve, KeysInHand
  <2>2. used' \in [Package -> Minor]
    BY <1>13, <2>1, ChargeIsExact DEF Reserve
  <2>3. delivery' \in [Key -> DeliveryState]
    BY <1>13, <2>1 DEF Reserve, TypeOK, DeliveryState
  <2>4. worker' \in [Worker -> Hand] /\ KeysInHand'
    BY <1>13 DEF Reserve, To, Hand, TypeOK, KeysInHand
  <2> QED
    BY <1>13, <2>2, <2>3, <2>4 DEF Reserve, TypeOK, JobsSound, calendar
<1>14. ASSUME NEW w \in Worker, ReserveNothing(w) PROVE QueueInv'
  <2>1. worker' \in [Worker -> Hand] /\ KeysInHand'
    BY <1>14 DEF ReserveNothing, To, Hand, TypeOK, KeysInHand
  <2> QED
    BY <1>14, <2>1 DEF ReserveNothing, TypeOK, JobsSound, data, calendar
<1>15. ASSUME NEW w \in Worker, Send(w) PROVE QueueInv'
  <2>1. worker[w].key \in Key
    BY <1>15 DEF Send, KeysInHand
  <2>2. texts' \in [Key -> Nat]
    BY <1>15, <2>1 DEF Send, TypeOK
  <2>3. worker' \in [Worker -> Hand] /\ KeysInHand'
    BY <1>15 DEF Send, To, Hand, TypeOK, KeysInHand
  <2> QED
    BY <1>15, <2>2, <2>3 DEF Send, TypeOK, JobsSound, calendar
<1>16. ASSUME NEW w \in Worker, Mark(w) PROVE QueueInv'
  <2>1. worker[w].key \in Key
    BY <1>16 DEF Mark, KeysInHand
  <2>2. delivery' \in [Key -> DeliveryState]
    BY <1>16, <2>1 DEF Mark, TypeOK, DeliveryState
  <2>3. worker' \in [Worker -> Hand] /\ KeysInHand'
    BY <1>16 DEF Mark, To, Hand, TypeOK, KeysInHand
  <2> QED
    BY <1>16, <2>2, <2>3 DEF Mark, TypeOK, JobsSound, calendar
<1>17. ASSUME NEW w \in Worker, Finish(w) PROVE QueueInv'
  <2>1. worker[w].key \in Key
    BY <1>17 DEF Finish, KeysInHand
  <2>2. job' \in [Key -> Job]
    <3> DEFINE j == job[worker[w].key]
    <3>1. j \in Job
      BY <2>1 DEF TypeOK
    <3>2. [j EXCEPT !.state = "COMPLETED", !.lock = Nobody] \in Job
      BY <3>1 DEF Job
    <3>3. ASSUME j.lock = w PROVE AfterThrow(j) \in Job
      <4>1. j.tries + 1 \in 0 .. MaxAttempts
        BY <2>1, <3>1, <3>3, ReminderAssumption DEF Job, JobsSound
      <4> QED
        BY <3>1, <4>1 DEF AfterThrow, Job
    <3> QED
      BY <1>17, <2>1, <3>1, <3>2, <3>3 DEF Finish, TypeOK
  <2>3. JobsSound'
    BY <1>17, <2>1, ReminderAssumption DEF Finish, AfterThrow, TypeOK, JobsSound
  <2>4. worker' \in [Worker -> Hand] /\ KeysInHand'
    BY <1>17 DEF Finish, Free, Hand, TypeOK, KeysInHand
  <2> QED
    BY <1>17, <2>2, <2>3, <2>4 DEF Finish, TypeOK, data, calendar
<1>18. ASSUME NEW w \in Worker, Crash(w) PROVE QueueInv'
  <2>1. job' \in [Key -> Job] /\ JobsSound'
    BY <1>18 DEF Crash, Job, TypeOK, JobsSound
  <2>2. worker' \in [Worker -> Hand] /\ KeysInHand'
    BY <1>18 DEF Crash, Free, Hand, TypeOK, KeysInHand
  <2> QED
    BY <1>18, <2>1, <2>2 DEF Crash, TypeOK, data, calendar
<1>19. ASSUME NEW k \in Key, Stall(k) PROVE QueueInv'
  <2>1. job' \in [Key -> Job]
    <3>1. job[k] \in Job
      BY DEF TypeOK
    <3>2. [job[k] EXCEPT !.state = "FAILED", !.lock = Nobody] \in Job
      BY <3>1 DEF Job
    <3>3. ASSUME job[k].stalls < MaxStalls
          PROVE  [job[k] EXCEPT !.state = "WAITING", !.stalls = @ + 1, !.lock = Nobody] \in Job
      <4>1. job[k].stalls + 1 \in 0 .. MaxStalls
        BY <3>1, <3>3, ReminderAssumption DEF Job
      <4> QED
        BY <3>1, <4>1 DEF Job
    <3> QED
      BY <1>19, <3>2, <3>3 DEF Stall, TypeOK
  <2>2. JobsSound' /\ KeysInHand'
    BY <1>19 DEF Stall, TypeOK, JobsSound, KeysInHand
  <2> QED
    BY <1>19, <2>1, <2>2 DEF Stall, TypeOK, data, calendar
<1>20. ASSUME NEW k \in Key, Remove(k) PROVE QueueInv'
  <2>1. job' \in [Key -> Job]
    BY <1>20, ReminderAssumption DEF Remove, NoJob, Job, TypeOK
  <2>2. JobsSound' /\ KeysInHand'
    BY <1>20 DEF Remove, NoJob, TypeOK, JobsSound, KeysInHand
  <2> QED
    BY <1>20, <2>1, <2>2 DEF Remove, TypeOK, data, calendar
<1>21. CASE UNCHANGED vars
  BY <1>21 DEF vars, TypeOK, JobsSound, KeysInHand
<1> QED
  BY <1>1, <1>2, <1>3, <1>4, <1>5, <1>6, <1>7, <1>8, <1>9, <1>10, <1>11, <1>12, <1>13,
     <1>14, <1>15, <1>16, <1>17, <1>18, <1>19, <1>20, <1>21 DEF Next

(* Every variable keeps its type: attempts and stalls stay within what the
   options of the queue allow, used credits stay amounts. *)
THEOREM QueueInvariant == Spec => []QueueInv
BY QueueInit, QueueStep, PTL DEF Spec

THEOREM TypeCorrect == Spec => []TypeOK
BY QueueInvariant, PTL DEF QueueInv

-----------------------------------------------------------------------------
(* Dispatch. *)

LEMMA DispatchInit == Init => DispatchInv
BY DEF Init, DispatchInv, DispatchedAlone, DispatchesSound, Dispatching, TextedAtMostOnce,
       RecordsAreHonest, Free

(* Steps that leave deliveries, texts and the dispatching workers alone. *)
LEMMA DispatchKept ==
  ASSUME DispatchInv, UNCHANGED <<delivery, texts>>,
         \A w \in Worker : worker'[w].at \in Dispatching => worker'[w] = worker[w]
  PROVE  DispatchInv'
BY DEF DispatchInv, DispatchedAlone, DispatchesSound, TextedAtMostOnce, RecordsAreHonest,
       Dispatching

LEMMA DispatchReserve ==
  ASSUME QueueInv, DispatchInv, NEW w \in Worker, Reserve(w)
  PROVE  DispatchInv'
<1> USE DEF DispatchInv
<1>1. PICK k \in Key : k = worker[w].key
  BY DEF Reserve, QueueInv, KeysInHand
<1>2. /\ delivery[k] = "ABSENT"
      /\ delivery' = [delivery EXCEPT ![k] = "RESERVED"] /\ texts' = texts
      /\ worker' = [worker EXCEPT ![w].at = "SEND"]
  BY <1>1 DEF Reserve, Fresh, To
<1>3. texts[k] = 0
  BY <1>2 DEF RecordsAreHonest, QueueInv, TypeOK
<1>4. \A v \in Worker : worker[v].at \in Dispatching => worker[v].key # k
  BY <1>2 DEF DispatchesSound
<1>5. \A v \in Worker : /\ worker'[v].key = worker[v].key
                        /\ v # w => worker'[v] = worker[v]
                        /\ worker'[w].at = "SEND"
  BY <1>2 DEF QueueInv, TypeOK, Hand
<1>6. DispatchedAlone'
  BY <1>1, <1>4, <1>5 DEF DispatchedAlone
<1>7. DispatchesSound'
  BY <1>1, <1>2, <1>3, <1>4, <1>5 DEF DispatchesSound, QueueInv, TypeOK, Dispatching
<1>8. TextedAtMostOnce' /\ RecordsAreHonest'
  BY <1>2, <1>3 DEF TextedAtMostOnce, RecordsAreHonest, QueueInv, TypeOK
<1> QED
  BY <1>6, <1>7, <1>8

LEMMA DispatchSend ==
  ASSUME QueueInv, DispatchInv, NEW w \in Worker, Send(w)
  PROVE  DispatchInv'
<1> USE DEF DispatchInv
<1>1. PICK k \in Key : k = worker[w].key
  BY DEF Send, QueueInv, KeysInHand
<1>2. /\ delivery[k] = "RESERVED" /\ texts[k] = 0 /\ worker[w].at = "SEND"
  BY <1>1 DEF Send, DispatchesSound, Dispatching
<1>3. /\ delivery' = delivery
      /\ \A j \in Key \ {k} : texts'[j] = texts[j]
      /\ \/ texts'[k] = 1 /\ worker' = [worker EXCEPT ![w].at = "MARK_SENT"]
         \/ texts'[k] \in {0, 1} /\ worker' = [worker EXCEPT ![w].at = "MARK_UNKNOWN"]
  BY <1>1, <1>2 DEF Send, To, QueueInv, TypeOK
<1>4. \A v \in Worker : v # w /\ worker[v].at \in Dispatching => worker[v].key # k
  BY <1>1, <1>2 DEF DispatchedAlone, Dispatching
<1>5. \A v \in Worker : /\ worker'[v].key = worker[v].key
                        /\ v # w => worker'[v] = worker[v]
                        /\ worker'[w].at \in {"MARK_SENT", "MARK_UNKNOWN"}
  BY <1>3 DEF QueueInv, TypeOK, Hand
<1>6. DispatchedAlone'
  BY <1>1, <1>4, <1>5 DEF DispatchedAlone
<1>7. ASSUME NEW v \in Worker
      PROVE  /\ worker'[v].at \in Dispatching => delivery'[worker'[v].key] = "RESERVED"
             /\ worker'[v].at = "SEND" => texts'[worker'[v].key] = 0
             /\ worker'[v].at = "MARK_SENT" => texts'[worker'[v].key] = 1
  <2>1. CASE v = w
    BY <1>1, <1>2, <1>3, <1>5, <2>1 DEF QueueInv, TypeOK, Hand
  <2>2. CASE v # w
    <3>1. worker'[v] = worker[v]
      BY <1>5, <2>2
    <3>2. CASE worker[v].at \in Dispatching
      <4>1. worker[v].key \in Key \ {k}
        BY <1>4, <2>2, <3>2 DEF QueueInv, KeysInHand, Dispatching
      <4> QED
        BY <1>3, <3>1, <4>1 DEF DispatchesSound
    <3>3. CASE worker[v].at \notin Dispatching
      BY <3>1, <3>3 DEF Dispatching
    <3> QED
      BY <3>2, <3>3
  <2> QED
    BY <2>1, <2>2
<1>8. TextedAtMostOnce' /\ RecordsAreHonest'
  BY <1>2, <1>3 DEF TextedAtMostOnce, RecordsAreHonest, QueueInv, TypeOK
<1> QED
  BY <1>6, <1>7, <1>8 DEF DispatchesSound

LEMMA DispatchMark ==
  ASSUME QueueInv, DispatchInv, NEW w \in Worker, Mark(w)
  PROVE  DispatchInv'
<1> USE DEF DispatchInv
<1>1. PICK k \in Key : k = worker[w].key
  BY DEF Mark, QueueInv, KeysInHand
<1>2. /\ worker[w].at \in {"MARK_SENT", "MARK_UNKNOWN"}
      /\ worker[w].at = "MARK_SENT" => texts[k] = 1
      /\ delivery[k] = "RESERVED"
  BY <1>1 DEF Mark, DispatchesSound, Dispatching
<1>3. /\ texts' = texts
      /\ \A j \in Key \ {k} : delivery'[j] = delivery[j]
      /\ delivery'[k] \in {"RESERVED", "SENT", "UNKNOWN"}
      /\ delivery'[k] = "SENT" => texts[k] = 1
      /\ \A v \in Worker : /\ worker'[v].key = worker[v].key
                           /\ v # w => worker'[v] = worker[v]
      /\ \/ worker'[w].at = "MARK_UNKNOWN" /\ delivery' = delivery
         \/ worker'[w].at \in {"RETURN", "THROW"}
  BY <1>1, <1>2 DEF Mark, To, QueueInv, TypeOK, Hand
<1>4. \A v \in Worker : v # w /\ worker[v].at \in Dispatching => worker[v].key # k
  BY <1>1, <1>2 DEF DispatchedAlone, Dispatching
<1>5. DispatchedAlone'
  BY <1>1, <1>3, <1>4 DEF DispatchedAlone, Dispatching
<1>6. ASSUME NEW v \in Worker
      PROVE  /\ worker'[v].at \in Dispatching => delivery'[worker'[v].key] = "RESERVED"
             /\ worker'[v].at = "SEND" => texts'[worker'[v].key] = 0
             /\ worker'[v].at = "MARK_SENT" => texts'[worker'[v].key] = 1
  <2>1. CASE v = w
    BY <1>1, <1>2, <1>3, <2>1 DEF Dispatching
  <2>2. CASE v # w
    <3>1. worker'[v] = worker[v]
      BY <1>3, <2>2
    <3>2. CASE worker[v].at \in Dispatching
      <4>1. worker[v].key \in Key \ {k}
        BY <1>4, <2>2, <3>2 DEF QueueInv, KeysInHand, Dispatching
      <4> QED
        BY <1>3, <3>1, <4>1 DEF DispatchesSound
    <3>3. CASE worker[v].at \notin Dispatching
      BY <3>1, <3>3 DEF Dispatching
    <3> QED
      BY <3>2, <3>3
  <2> QED
    BY <2>1, <2>2
<1>7. TextedAtMostOnce' /\ RecordsAreHonest'
  BY <1>2, <1>3 DEF TextedAtMostOnce, RecordsAreHonest
<1> QED
  BY <1>5, <1>6, <1>7 DEF DispatchesSound

(* Every step keeps dispatches sound. *)
LEMMA DispatchStep == QueueInv /\ DispatchInv /\ [Next]_vars => DispatchInv'
<1> SUFFICES ASSUME QueueInv, DispatchInv, [Next]_vars
             PROVE  DispatchInv'
  OBVIOUS
<1>1. ASSUME UNCHANGED <<delivery, texts, worker>> PROVE DispatchInv'
  BY <1>1, DispatchKept
<1>2. ASSUME NEW w \in Worker, NEW k \in Key, Take(w, k) PROVE DispatchInv'
  <2>1. UNCHANGED <<delivery, texts>> /\ worker' = [worker EXCEPT ![w] = [at |-> "RESERVE", key |-> k]]
    BY <1>2 DEF Take, data
  <2> QED
    BY <2>1, DispatchKept DEF Dispatching, QueueInv, TypeOK
<1>3. ASSUME NEW w \in Worker, ReserveNothing(w) PROVE DispatchInv'
  <2>1. /\ UNCHANGED <<delivery, texts>>
        /\ \E at \in {"RETURN", "THROW"} : worker' = [worker EXCEPT ![w].at = at]
    BY <1>3 DEF ReserveNothing, To, data
  <2>2. \A v \in Worker : worker'[v].at \in Dispatching => worker'[v] = worker[v]
    BY <2>1 DEF Dispatching, QueueInv, TypeOK, Hand
  <2> QED
    BY <2>1, <2>2, DispatchKept
<1>4. ASSUME NEW w \in Worker, Finish(w) \/ Crash(w) PROVE DispatchInv'
  <2>1. UNCHANGED <<delivery, texts>> /\ worker' = [worker EXCEPT ![w] = Free]
    BY <1>4 DEF Finish, Crash, data
  <2> QED
    BY <2>1, DispatchKept DEF Dispatching, Free, QueueInv, TypeOK
<1> QED
  BY <1>1, <1>2, <1>3, <1>4, DispatchReserve, DispatchSend, DispatchMark
     DEF Next, vars, data, NewDay, SaveReminderSettings, Settle, PayPackage, FailPackage,
         StartRun, ReadDues, QueueScheduled, EndRun, CheckManual, QueueManual, Stall, Remove

(* A delivery key is held by at most one dispatching worker, whatever jobs
   are stalled, removed, added again or tried again. *)
THEOREM DispatchInvariant == Spec => []DispatchInv
BY QueueInvariant, DispatchInit, DispatchStep, PTL DEF Spec

(* No reminder is texted twice, for any number of workers, retries, stalls
   and crashes: the persistent delivery key of reserveCredits. *)
THEOREM NeverTextedTwice == Spec => []TextedAtMostOnce
BY DispatchInvariant, PTL DEF DispatchInv

(* A delivery marked SENT was texted, and a text was reserved before it. *)
THEOREM RecordsHonest == Spec => []RecordsAreHonest
BY DispatchInvariant, PTL DEF DispatchInv

-----------------------------------------------------------------------------
(* Credits. *)

Charged == {k \in Key : delivery[k] # "ABSENT"}

LEMMA CreditInit == Init => CreditInv
<1> SUFFICES ASSUME Init
             PROVE  CreditInv
  OBVIOUS
<1>1. Total(Package, used) = 0
  BY TotalOfZeros DEF Init
<1>2. Total({k \in Key : delivery[k] # "ABSENT"}, Cost) = 0
  BY TotalOfZeros DEF Init
<1> QED
  BY <1>1, <1>2, ReminderAssumption
     DEF Init, CreditInv, CreditsAccounted, NeverOverdrawn, Minor

(* What a reservation does to credits and charged keys. *)
LEMMA ReserveCharges ==
  ASSUME QueueInv, CreditInv, NEW w \in Worker, Reserve(w)
  PROVE  \E k \in Key :
           /\ k \notin Charged /\ Charged' = Charged \cup {k}
           /\ UNCHANGED <<paid, paidAt, texts>>
           /\ CreditInv'
<1>1. PICK k \in Key : k = worker[w].key
  BY DEF Reserve, QueueInv, KeysInHand
<1>2. /\ delivery[k] = "ABSENT" /\ delivery' = [delivery EXCEPT ![k] = "RESERVED"]
      /\ used' \in Charges(k)
      /\ UNCHANGED <<paid, paidAt, texts>>
  BY <1>1 DEF Reserve, Fresh
<1>3. k \notin Charged /\ Charged' = Charged \cup {k}
  BY <1>2 DEF Charged, QueueInv, TypeOK
<1>4. /\ used' \in [Package -> Minor]
      /\ Total(Package, used') = Total(Package, used) + Cost[k]
      /\ \A g \in Package : used[g] <= used'[g] /\ used'[g] <= Quantity[g]
      /\ \A g \in Package \ paid : used'[g] = used[g]
  BY <1>2, ChargeIsExact DEF QueueInv
<1>5. IsFiniteSet(Charged) /\ Cost[k] \in Minor
  <2>1. IsFiniteSet(Key) /\ Charged \in SUBSET Key
    BY ReminderAssumption DEF Charged
  <2> QED
    BY <2>1, FS_Subset, ReminderAssumption
<1>6. Total(Charged \cup {k}, Cost) = Total(Charged, Cost) + Cost[k]
  BY <1>3, <1>5, TotalExtended
<1>7. CreditsAccounted'
  BY <1>3, <1>4, <1>6 DEF CreditInv, CreditsAccounted, Charged
<1>8. (paid \subseteq Confirmed)'
  BY <1>2 DEF CreditInv, Confirmed
<1>9. NeverOverdrawn'
  BY <1>2, <1>4 DEF CreditInv, NeverOverdrawn, Confirmed
<1> QED
  BY <1>2, <1>3, <1>7, <1>8, <1>9 DEF CreditInv

(* Steps other than charges, texts and confirmations are invisible to whoever
   watches only the credits, the charged keys and the texts. *)
Hidden ==
  /\ UNCHANGED <<paidAt, used, texts>>
  /\ paid' \subseteq paid
  /\ Charged' = Charged

(* Every step confirms a package, charges, texts, or is hidden. *)
LEMMA StepShape ==
  ASSUME QueueInv, DispatchInv, [Next]_vars
  PROVE  \/ \E g \in Package : PayPackage(g)
         \/ \E w \in Worker : Reserve(w)
         \/ \E w \in Worker : Send(w)
         \/ Hidden
<1>1. ASSUME NEW w \in Worker, Mark(w) PROVE Hidden
  <2>1. PICK k \in Key : k = worker[w].key
    BY <1>1 DEF Mark, QueueInv, KeysInHand
  <2>2. delivery[k] = "RESERVED"
    BY <1>1, <2>1 DEF Mark, DispatchInv, DispatchesSound, Dispatching
  <2>3. delivery' \in {delivery, [delivery EXCEPT ![k] = "SENT"],
                        [delivery EXCEPT ![k] = "UNKNOWN"]}
    BY <1>1, <2>1 DEF Mark
  <2>4. Charged' = Charged
    BY <2>2, <2>3 DEF Charged, QueueInv, TypeOK
  <2> QED
    BY <1>1, <2>4 DEF Mark, Hidden
<1>2. ASSUME NEW g \in Package, FailPackage(g) PROVE Hidden
  BY <1>2 DEF FailPackage, Hidden, Charged
<1>3. ASSUME UNCHANGED data PROVE Hidden
  BY <1>3 DEF data, Hidden, Charged
<1> QED
  BY <1>1, <1>2, <1>3
     DEF Next, vars, data, NewDay, SaveReminderSettings, Settle,
         StartRun, ReadDues, QueueScheduled, EndRun, CheckManual, QueueManual,
         Take, ReserveNothing, Finish, Crash, Stall, Remove

(* Every step keeps the credits right. *)
LEMMA CreditStep == QueueInv /\ DispatchInv /\ CreditInv /\ [Next]_vars => CreditInv'
<1> SUFFICES ASSUME QueueInv, DispatchInv, CreditInv, [Next]_vars
             PROVE  CreditInv'
  OBVIOUS
<1>1. ASSUME NEW g \in Package, PayPackage(g) PROVE CreditInv'
  <2>1. \A h \in Package : paidAt'[h] > 0 <=> h \in Confirmed \cup {g}
    BY <1>1, StampedIsSound DEF PayPackage, QueueInv, TypeOK
  <2>2. Confirmed' = Confirmed \cup {g}
    BY <2>1 DEF Confirmed
  <2> QED
    BY <1>1, <2>2 DEF PayPackage, CreditInv, NeverOverdrawn, CreditsAccounted
<1>2. ASSUME NEW w \in Worker, Reserve(w) PROVE CreditInv'
  BY <1>2, ReserveCharges
<1>3. ASSUME NEW w \in Worker, Send(w) PROVE CreditInv'
  BY <1>3 DEF Send, CreditInv, NeverOverdrawn, CreditsAccounted, Confirmed
<1>4. CASE Hidden
  BY <1>4 DEF Hidden, Charged, CreditInv, NeverOverdrawn, CreditsAccounted, Confirmed
<1> QED
  BY <1>1, <1>2, <1>3, <1>4, StepShape

(* Used credits are those of the charged keys, and within what was bought. *)
THEOREM CreditInvariant == Spec => []CreditInv
<1>1. Init => CreditInv
  BY CreditInit
<1>2. QueueInv /\ DispatchInv /\ CreditInv /\ [Next]_vars => CreditInv'
  BY CreditStep
<1> QED
  BY <1>1, <1>2, QueueInvariant, DispatchInvariant, PTL DEF Spec

(* No package is charged beyond its quantity or before it is confirmed, for
   any packages, texts and concurrent workers. *)
THEOREM CreditsNeverOverdrawn == Spec => []NeverOverdrawn
BY CreditInvariant, PTL DEF CreditInv

(* The credits used are exactly those of the keys that were charged: an
   uncertain delivery keeps its charge, an aborted one leaves none. *)
THEOREM CreditsAddUp == Spec => []CreditsAccounted
BY CreditInvariant, PTL DEF CreditInv

-----------------------------------------------------------------------------
(* The dispatcher implements PrepaidOnce. *)

LEMMA PromiseInit == Init => Promise!Init
<1> SUFFICES ASSUME Init
             PROVE  Promise!Init
  OBVIOUS
<1>1. Confirmed = {}
  BY DEF Init, Confirmed
<1>2. Total(Confirmed, Quantity) = 0
  BY <1>1, TotalOfZeros
<1>3. Charged = {}
  BY DEF Init, Charged
<1> QED
  BY <1>2, <1>3 DEF Init, Promise!Init, Charged

(* What is charged is covered by what was confirmed. *)
LEMMA ChargesAreCovered ==
  TypeOK /\ CreditInv => Total(Charged, Cost) <= Total(Confirmed, Quantity)
<1> SUFFICES ASSUME TypeOK, CreditInv
             PROVE  Total(Charged, Cost) <= Total(Confirmed, Quantity)
  OBVIOUS
<1>1. /\ IsFiniteSet(Package) /\ Confirmed \subseteq Package
      /\ \A g \in Package : used[g] \in Minor /\ Quantity[g] \in Minor /\ used[g] <= Quantity[g]
      /\ \A g \in Package \ Confirmed : used[g] = 0
  BY ReminderAssumption DEF TypeOK, Confirmed, CreditInv, NeverOverdrawn, Minor
<1>2. IsFiniteSet(Confirmed)
  BY <1>1, FS_Subset
<1>3. Total(Confirmed, used) = Total(Package, used)
  BY <1>1, TotalOfSupport
<1>4. Total(Confirmed, used) <= Total(Confirmed, Quantity)
  BY <1>1, <1>2, TotalGrows
<1> QED
  BY <1>3, <1>4 DEF CreditInv, CreditsAccounted, Charged

LEMMA PromiseStep ==
  ASSUME QueueInv, DispatchInv, CreditInv, QueueInv', CreditInv', [Next]_vars
  PROVE  [Promise!Next]_(Promise!prepaid)
<1>1. ASSUME NEW g \in Package, PayPackage(g)
      PROVE  Promise!Buy \/ UNCHANGED Promise!prepaid
  <2>1. \A h \in Package : paidAt'[h] > 0 <=> h \in Confirmed \cup {g}
    BY <1>1, StampedIsSound DEF PayPackage, QueueInv, TypeOK
  <2>2. Confirmed' = Confirmed \cup {g}
    BY <2>1 DEF Confirmed
  <2>3. IsFiniteSet(Confirmed) /\ IsFiniteSet(Confirmed')
    BY ReminderAssumption, FS_Subset DEF Confirmed
  <2>4. \A h \in Confirmed : Quantity[h] \in Minor /\ Quantity[h] <= Quantity[h]
    BY ReminderAssumption DEF Confirmed, Minor
  <2>5. Total(Confirmed, Quantity) <= Total(Confirmed', Quantity)
    BY <2>2, <2>3, <2>4, TotalGrows
  <2>6. Total(Confirmed, Quantity) \in Nat /\ Total(Confirmed', Quantity) \in Nat
    BY <2>3, TotalIsNat
  <2>7. Total(Confirmed', Quantity) > Total(Confirmed, Quantity)
          \/ Total(Confirmed', Quantity) = Total(Confirmed, Quantity)
    BY <2>5, <2>6
  <2> QED
    BY <1>1, <2>7 DEF PayPackage, Promise!Buy, Promise!prepaid
<1>2. ASSUME NEW w \in Worker, Reserve(w)
      PROVE  \E k \in Key : Promise!Charge(k)
  <2>1. PICK k \in Key : /\ k \notin Charged /\ Charged' = Charged \cup {k}
                         /\ UNCHANGED <<paid, paidAt, texts>>
    BY <1>2, ReserveCharges
  <2>2. Confirmed' = Confirmed
    BY <2>1 DEF Confirmed
  <2>3. TypeOK' /\ CreditInv'
    BY DEF QueueInv
  <2>4. (Total(Charged, Cost) <= Total(Confirmed, Quantity))'
    BY <2>3, ChargesAreCovered, PTL
  <2>5. Total(Charged \cup {k}, Cost) <= Total(Confirmed, Quantity)
    BY <2>1, <2>2, <2>4
  <2>6. Total(Confirmed, Quantity)' = Total(Confirmed, Quantity)
    BY <2>2
  <2>7. Charged \cup {k} \in SUBSET Key
    BY DEF Charged
  <2>8. Promise!Charge(k)
    BY <2>1, <2>5, <2>6, <2>7 DEF Promise!Charge, Charged
  <2> QED
    BY <2>8
<1>3. ASSUME NEW w \in Worker, Send(w)
      PROVE  (\E k \in Key : Promise!Deliver(k)) \/ UNCHANGED Promise!prepaid
  <2>1. PICK k \in Key : k = worker[w].key
    BY <1>3 DEF Send, QueueInv, KeysInHand
  <2>2. delivery[k] = "RESERVED" /\ texts[k] = 0
    BY <1>3, <2>1 DEF Send, DispatchInv, DispatchesSound, Dispatching
  <2>3. UNCHANGED <<paidAt, delivery>> /\ (texts' = texts \/ texts' = [texts EXCEPT ![k] = 1])
    BY <1>3, <2>1, <2>2 DEF Send
  <2>4. Confirmed' = Confirmed /\ Charged' = Charged /\ k \in Charged
    BY <2>2, <2>3 DEF Confirmed, Charged
  <2> QED
    BY <2>2, <2>3, <2>4 DEF Promise!Deliver, Promise!prepaid, Charged
<1>4. ASSUME Hidden
      PROVE  UNCHANGED Promise!prepaid
  BY <1>4 DEF Hidden, Confirmed, Charged, Promise!prepaid
<1> QED
  BY <1>1, <1>2, <1>3, <1>4, StepShape DEF Promise!Next

(* Refinement: to whoever sees only the credits bought, the texts charged and
   the texts sent, the queue and its workers keep the promise of PrepaidOnce. *)
THEOREM DispatchImplementsPromise == Spec => ImplementsPromise
<1>1. Init => Promise!Init
  BY PromiseInit
<1>2. QueueInv /\ DispatchInv /\ CreditInv /\ QueueInv' /\ CreditInv' /\ [Next]_vars
        => [Promise!Next]_(Promise!prepaid)
  BY PromiseStep
<1> QED
  BY <1>1, <1>2, QueueInvariant, DispatchInvariant, CreditInvariant, PTL
     DEF Spec, ImplementsPromise, Promise!Spec

=============================================================================

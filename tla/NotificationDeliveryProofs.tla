--------------------- MODULE NotificationDeliveryProofs ---------------------
(***************************************************************************)
(* Theorems about NotificationDelivery, for any number of workers, events, *)
(* members and operators.                                                  *)
(***************************************************************************)
EXTENDS NotificationDelivery, TLAPS

-----------------------------------------------------------------------------
(***************************************************************************)
(* Type correctness.                                                       *)
(***************************************************************************)

\* What a refresh computes is an event status.
LEMMA SummaryType == \A e : Summary(e) \in EventStatus
  BY DEF Summary, EventStatus, Status, Final

\* What a re-read row calls for is a verdict.
LEMMA VerdictType == \A w, d : VerdictOn(w, d) \in Verdict
  BY DEF VerdictOn, Verdict

\* A delivery belongs to an event, a member and a channel.
LEMMA DeliveryParts ==
    \A d \in Delivery : EventOf(d) \in Event /\ UserOf(d) \in User /\ ChannelOf(d) \in Channel
  BY DEF Delivery, EventOf, UserOf, ChannelOf

\* A task may be given a program counter it can have.
LEMMA TaskTypes ==
    ASSUME TypeOK, NEW w \in Worker, NEW d \in Delivery, NEW pc \in TaskPC
    PROVE  /\ task[w][d] \in TaskType
           /\ Task(pc, 0, 0) \in TaskType
           /\ Task(pc, attemptCount[d], 0) \in TaskType
           /\ Task(pc, task[w][d].count, task[w][d].age) \in TaskType
  BY ConstantsAssumption DEF TypeOK, Task, TaskType

\* Setting one task keeps the type of all.
LEMMA SetTaskType ==
    ASSUME TypeOK, NEW w \in Worker, NEW d \in Delivery, NEW t \in TaskType, SetTask(w, d, t)
    PROVE  task' \in [Worker -> [Delivery -> TaskType]]
  BY DEF TypeOK, SetTask

\* A task that ends is well typed.
LEMMA EndTaskType ==
    ASSUME TypeOK, NEW w \in Worker, NEW d \in Delivery, EndTask(w, d)
    PROVE  task' \in [Worker -> [Delivery -> TaskType]]
  BY TaskTypes, SetTaskType DEF EndTask, TaskPC

\* The cap of the ages of acceptances.
LEMMA AgeCapType == AgeCap \in Nat /\ AgeCap >= KeyTicks /\ AgeCap >= WindowTicks + 2 * BatchTicks
  BY ConstantsAssumption DEF AgeCap

\* So are an unlocked row and what the provider remembers.
LEMMA UnlockType ==
    ASSUME TypeOK, NEW d \in Delivery, Unlock(d)
    PROVE  lease' \in [Delivery -> Worker \cup {None}] /\ lockAge' \in [Delivery -> 0 .. StaleTicks]
  BY ConstantsAssumption DEF TypeOK, Unlock

\* What the provider remembers stays well typed when it takes a message.
LEMMA AcceptType ==
    ASSUME TypeOK, NEW d \in Delivery, Accept(d) \/ UNCHANGED providerVars
    PROVE  copies' \in [Delivery -> 0 .. 2] /\ acceptedAge' \in [Delivery -> 0 .. AgeCap]
  <1>1. CASE UNCHANGED providerVars
    BY <1>1 DEF TypeOK, providerVars
  <1>2. CASE /\ copies' = [copies EXCEPT ![d] = AtMost(@ + 1, 2)]
             /\ acceptedAge' = [acceptedAge EXCEPT ![d] = IF copies[d] = 0 THEN 0 ELSE @]
    <2>1. AtMost(copies[d] + 1, 2) \in 0 .. 2
      <3>1. copies[d] \in 0 .. 2
        BY DEF TypeOK
      <3>2. QED
        BY <3>1 DEF AtMost
    <2>2. copies' \in [Delivery -> 0 .. 2]
      BY <1>2, <2>1 DEF TypeOK
    <2>3. 0 \in 0 .. AgeCap
      BY AgeCapType
    <2>4. acceptedAge' \in [Delivery -> 0 .. AgeCap]
      BY <1>2, <2>3 DEF TypeOK
    <2>5. QED
      BY <2>2, <2>4
  <1>3. QED
    BY <1>1, <1>2 DEF Accept

\* The initial state is well typed.
LEMMA TypeInit == Init => TypeOK
  <1> SUFFICES ASSUME Init PROVE TypeOK
    OBVIOUS
  <1> USE ConstantsAssumption, AgeCapType
  <1> QED
    BY DEF Init, TypeOK, IdleTasks, Task, TaskType, TaskPC, EventStatus, Status, Final, Recorded, Outcome

\* Every step keeps the types.
LEMMA TypeStep == TypeOK /\ [Next]_vars => TypeOK'
  <1> SUFFICES ASSUME TypeOK, [Next]_vars PROVE TypeOK'
    OBVIOUS
  <1> USE ConstantsAssumption, AgeCapType
      DEF settingVars, eventVars, attemptVars, rowVars, workerVars, requestVars, providerVars, lossVars
  <1>1. ASSUME NEW w \in Worker, NEW c \in Channel, BeginBatch(w, c) PROVE TypeOK'
    BY <1>1 DEF TypeOK, BeginBatch
  <1>2. ASSUME NEW w \in Worker, NEW e \in Event, ExpandEvent(w, e) PROVE TypeOK'
    <2>1. status' \in [Delivery -> Status \cup {"NONE"}]
      BY <1>2 DEF TypeOK, ExpandEvent, Status
    <2>2. todo' \in [Worker -> SUBSET Event]
      BY <1>2 DEF TypeOK, ExpandEvent
    <2>3. channel[w] \in Channel
      BY DEF TypeOK
    <2>4. expanded' \in [Event -> SUBSET Channel]
      <3>1. CASE expanded' = [expanded EXCEPT ![e] = @ \cup {channel[w]}]
        BY <2>3, <3>1 DEF TypeOK
      <3>2. CASE expanded' = expanded
        BY <3>2 DEF TypeOK
      <3>3. QED
        BY <1>2, <3>1, <3>2 DEF ExpandEvent
    <2>5. touched' \in [Worker -> SUBSET Event]
      <3>1. CASE touched' = [touched EXCEPT ![w] = {e}]
        BY <3>1 DEF TypeOK
      <3>2. CASE touched' = touched
        BY <3>2 DEF TypeOK
      <3>3. QED
        BY <1>2, <3>1, <3>2 DEF ExpandEvent
    <2>6. QED
      BY <1>2, <2>1, <2>2, <2>4, <2>5 DEF TypeOK, ExpandEvent
  <1>3. ASSUME NEW w \in Worker, NEW e \in Event, ReadStatuses(w, e) PROVE TypeOK'
    BY <1>3, SummaryType DEF TypeOK, ReadStatuses
  <1>4. ASSUME NEW w \in Worker, WriteEventStatus(w) PROVE TypeOK'
    BY <1>4 DEF TypeOK, WriteEventStatus
  <1>5. ASSUME NEW w \in Worker, ClaimDeliveries(w) PROVE TypeOK'
    BY <1>5 DEF TypeOK, ClaimDeliveries, Task, TaskType, TaskPC, Status
  <1>6. ASSUME NEW w \in Worker, EndSkippedBatch(w) PROVE TypeOK'
    BY <1>6 DEF TypeOK, EndSkippedBatch
  <1>7. ASSUME NEW w \in Worker, NEW d \in Delivery, LoadDelivery(w, d) PROVE TypeOK'
    <2>1. task' \in [Worker -> [Delivery -> TaskType]]
      <3>1. CASE HoldsLease(w, d)
        <4>1. VerdictOn(w, d) \in TaskPC
          BY VerdictType DEF TaskPC, Working
        <4>2. SetTask(w, d, Task(VerdictOn(w, d), attemptCount[d], 0))
          BY <1>7, <3>1 DEF LoadDelivery
        <4>3. QED
          BY <4>1, <4>2, TaskTypes, SetTaskType
      <3>2. CASE ~HoldsLease(w, d)
        BY <1>7, <3>2, EndTaskType DEF LoadDelivery
      <3>3. QED
        BY <3>1, <3>2
    <2>2. touched' \in [Worker -> SUBSET Event]
      <3>1. CASE touched' = [touched EXCEPT ![w] = TouchedWith(w, d)]
        BY <3>1, DeliveryParts DEF TypeOK, TouchedWith
      <3>2. CASE touched' = touched
        BY <3>2 DEF TypeOK
      <3>3. QED
        BY <1>7, <3>1, <3>2 DEF LoadDelivery
    <2>3. QED
      BY <1>7, <2>1, <2>2 DEF TypeOK, LoadDelivery
  <1>8. ASSUME NEW w \in Worker, NEW d \in Delivery, Requeue(w, d) PROVE TypeOK'
    <2>1. task' \in [Worker -> [Delivery -> TaskType]]
      BY <1>8, EndTaskType DEF Requeue
    <2>2. CASE HoldsLease(w, d)
      <3>1. Unlock(d) /\ status' = [status EXCEPT ![d] = "QUEUED"]
        BY <1>8, <2>2 DEF Requeue
      <3>2. status' \in [Delivery -> Status \cup {"NONE"}]
        BY <3>1 DEF TypeOK, Status
      <3>3. QED
        BY <1>8, <2>1, <3>1, <3>2, UnlockType DEF TypeOK, Requeue
    <2>3. CASE ~HoldsLease(w, d)
      BY <1>8, <2>1, <2>3 DEF TypeOK, Requeue
    <2>4. QED
      BY <2>2, <2>3
  <1>9. ASSUME NEW w \in Worker, NEW d \in Delivery, AttemptConflict(w, d) PROVE TypeOK'
    <2>1. task' \in [Worker -> [Delivery -> TaskType]]
      BY <1>9, TaskTypes, SetTaskType DEF AttemptConflict, MoveTask, TaskPC
    <2>2. QED
      BY <1>9, <2>1 DEF TypeOK, AttemptConflict
  <1>10. ASSUME NEW w \in Worker, NEW d \in Delivery, SkipDelivery(w, d) PROVE TypeOK'
    <2>1. task' \in [Worker -> [Delivery -> TaskType]]
      BY <1>10, EndTaskType DEF SkipDelivery
    <2>2. QED
      BY <1>10, <2>1 DEF TypeOK, SkipDelivery, InsertAttempt, FirstAge, Recorded, Unlock, Status, Final, TaskType
  <1>11. ASSUME NEW w \in Worker, NEW d \in Delivery, GiveUp(w, d) PROVE TypeOK'
    <2>1. task' \in [Worker -> [Delivery -> TaskType]]
      BY <1>11, EndTaskType DEF GiveUp
    <2>2. QED
      BY <1>11, <2>1 DEF TypeOK, GiveUp, Unlock, Status, Final
  <1>12. ASSUME NEW w \in Worker, NEW d \in Delivery, StartSending(w, d) PROVE TypeOK'
    <2>1. task' \in [Worker -> [Delivery -> TaskType]]
      BY <1>12, TaskTypes, SetTaskType DEF StartSending, MoveTask, TaskPC, Working
    <2>2. QED
      BY <1>12, <2>1 DEF TypeOK, StartSending
  <1>13. ASSUME NEW w \in Worker, NEW d \in Delivery, CallProvider(w, d) PROVE TypeOK'
    <2>1. task' \in [Worker -> [Delivery -> TaskType]]
      BY <1>13, TaskTypes, SetTaskType DEF CallProvider, MoveTask, TaskPC, Working
    <2>2. QED
      BY <1>13, <2>1, AcceptType DEF TypeOK, CallProvider
  <1>14. ASSUME NEW w \in Worker, NEW d \in Delivery, RecordOutcome(w, d) PROVE TypeOK'
    <2>1. wait' \in [Delivery -> 0 .. WindowTicks - 1]
      <3>1. CASE wait' = [wait EXCEPT ![d] = 0]
        BY <3>1 DEF TypeOK
      <3>2. ASSUME NEW delay \in 1 .. WindowTicks, RetriesAfter(w, d, delay),
                   wait' = [wait EXCEPT ![d] = delay]
            PROVE  wait' \in [Delivery -> 0 .. WindowTicks - 1]
        <4>1. FirstAge(w, d) \in Nat
          BY DEF TypeOK, FirstAge, TaskType
        <4>2. delay \in 0 .. WindowTicks - 1
          BY <3>2, <4>1 DEF RetriesAfter
        <4>3. QED
          BY <3>2, <4>2 DEF TypeOK
      <3>3. QED
        BY <1>14, <3>1, <3>2 DEF RecordOutcome
    <2>2. task' \in [Worker -> [Delivery -> TaskType]]
      BY <1>14, EndTaskType DEF RecordOutcome
    <2>3. status' \in [Delivery -> Status \cup {"NONE"}]
      BY <1>14 DEF TypeOK, RecordOutcome, StatusAfter, Status, Final
    <2>4. /\ DOMAIN attempts' = Delivery
          /\ \A x \in Delivery : attempts'[x] \in [DOMAIN attempts'[x] -> Recorded]
      BY <1>14 DEF TypeOK, RecordOutcome, InsertAttempt, Recorded
    <2>5. /\ attemptCount' \in [Delivery -> Nat]
          /\ firstAge' \in [Delivery -> 0 .. WindowTicks]
      BY <1>14 DEF TypeOK, RecordOutcome, InsertAttempt, FirstAge, TaskType
    <2>6. forceAttempt' \in [Delivery -> BOOLEAN]
      BY <1>14 DEF TypeOK, RecordOutcome
    <2>7. Unlock(d)
      BY <1>14 DEF RecordOutcome
    <2>8. QED
      BY <1>14, <2>1, <2>2, <2>3, <2>4, <2>5, <2>6, <2>7, UnlockType DEF TypeOK, RecordOutcome
  <1>15. ASSUME NEW w \in Worker, FinishDeliveries(w) PROVE TypeOK'
    BY <1>15 DEF TypeOK, FinishDeliveries, IdleTasks, Task, TaskType, TaskPC
  <1>16. ASSUME NEW w \in Worker, EndBatch(w) PROVE TypeOK'
    BY <1>16 DEF TypeOK, EndBatch
  <1>17. ASSUME NEW w \in Worker, LoseMemory(w), crashes' \in 0 .. MaxCrashes PROVE TypeOK'
    BY <1>17 DEF TypeOK, LoseMemory, IdleTasks, Task, TaskType, TaskPC
  <1>18. ASSUME NEW w \in Worker, ExitOnError(w) PROVE TypeOK'
    BY <1>17, <1>18 DEF TypeOK, ExitOnError
  <1>19. ASSUME NEW w \in Worker, Crash(w) PROVE TypeOK'
    <2>1. crashes' \in 0 .. MaxCrashes
      BY <1>19 DEF TypeOK, Crash
    <2>2. QED
      BY <1>17, <1>19, <2>1 DEF Crash
  <1>20. ASSUME NEW a \in Admin, NEW d \in Delivery, ReadForRetry(a, d) PROVE TypeOK'
    BY <1>20 DEF TypeOK, ReadForRetry
  <1>21. ASSUME NEW a \in Admin, QueueRetry(a) PROVE TypeOK'
    BY <1>21, DeliveryParts DEF TypeOK, QueueRetry, Unlock, EventStatus, Status
  <1>22. ASSUME NEW c \in Channel, SwitchChannel(c) PROVE TypeOK'
    BY <1>22 DEF TypeOK, SwitchChannel
  <1>23. ASSUME NEW n \in AttemptLimits, ChangeAttemptLimit(n) PROVE TypeOK'
    BY <1>23 DEF TypeOK, ChangeAttemptLimit
  <1>24. ASSUME NEW u \in User, NEW c \in Channel, ChangeMember(u, c) PROVE TypeOK'
    BY <1>24 DEF TypeOK, ChangeMember
  <1>25. ASSUME Tick PROVE TypeOK'
    BY <1>25 DEF TypeOK, Tick, AtMost, InHand, Task, TaskType
  <1>26. CASE UNCHANGED vars
    BY <1>26 DEF TypeOK, vars
  <1>27. QED
    BY <1>1, <1>2, <1>3, <1>4, <1>5, <1>6, <1>7, <1>8, <1>9, <1>10, <1>11, <1>12, <1>13,
       <1>14, <1>15, <1>16, <1>18, <1>19, <1>20, <1>21, <1>22, <1>23, <1>24, <1>25, <1>26
    DEF Next, WorkerStep, DeliveryStep, Environment

\* Whatever the interleaving of workers, operators and crashes, every variable
\* holds a value of its type.
THEOREM TypeCorrect == Spec => []TypeOK
  BY TypeInit, TypeStep, PTL DEF Spec

-----------------------------------------------------------------------------
(***************************************************************************)
(* What one step may do to the tasks, the attempts and the provider.  The  *)
(* invariants below rest on these three facts and not on single actions.   *)
(***************************************************************************)

\* A worker's write that ends an attempt of d.
Records(w, d, outcome) ==
    /\ InHand(w, d)
    /\ ~AttemptTaken(d, task[w][d].count + 1)
    /\ InsertAttempt(w, d, outcome)
    /\ outcome = "SENT" => task[w][d].pc = "SENT"
    /\ \A x \in Delivery :
        status'[x] = "SENT" => IF x = d THEN outcome = "SENT" ELSE status[x] = "SENT"

\* Attempts are only written by a worker that has the delivery in hand, and a
\* delivery only becomes SENT with such a write.
LEMMA AttemptStep ==
    ASSUME TypeOK, [Next]_vars
    PROVE  \/ /\ UNCHANGED <<attempts, attemptCount>>
              /\ \A x \in Delivery : status'[x] = "SENT" => status[x] = "SENT"
           \/ \E w \in Worker, d \in Delivery, outcome \in Recorded : Records(w, d, outcome)
  <1> USE DEF settingVars, eventVars, attemptVars, rowVars, workerVars, requestVars, providerVars, lossVars
  <1> DEFINE Quiet == /\ UNCHANGED <<attempts, attemptCount>>
                      /\ \A x \in Delivery : status'[x] = "SENT" => status[x] = "SENT"
  <1>1. ASSUME NEW w \in Worker, NEW c \in Channel, BeginBatch(w, c) PROVE Quiet
    BY <1>1 DEF BeginBatch
  <1>2. ASSUME NEW w \in Worker, NEW e \in Event, ExpandEvent(w, e) PROVE Quiet
    BY <1>2 DEF ExpandEvent, TypeOK
  <1>3. ASSUME NEW w \in Worker, NEW e \in Event, ReadStatuses(w, e) PROVE Quiet
    BY <1>3 DEF ReadStatuses
  <1>4. ASSUME NEW w \in Worker, WriteEventStatus(w) PROVE Quiet
    BY <1>4 DEF WriteEventStatus
  <1>5. ASSUME NEW w \in Worker, ClaimDeliveries(w) PROVE Quiet
    BY <1>5 DEF ClaimDeliveries, TypeOK
  <1>6. ASSUME NEW w \in Worker, EndSkippedBatch(w) \/ FinishDeliveries(w) \/ EndBatch(w)
        PROVE  Quiet
    BY <1>6 DEF EndSkippedBatch, FinishDeliveries, EndBatch
  <1>7. ASSUME NEW w \in Worker, NEW d \in Delivery,
               LoadDelivery(w, d) \/ AttemptConflict(w, d) \/ StartSending(w, d) \/ CallProvider(w, d)
        PROVE  Quiet
    BY <1>7 DEF LoadDelivery, AttemptConflict, StartSending, CallProvider
  <1>8. ASSUME NEW w \in Worker, NEW d \in Delivery, Requeue(w, d) PROVE Quiet
    BY <1>8 DEF Requeue, TypeOK
  <1>9. ASSUME NEW w \in Worker, NEW d \in Delivery, SkipDelivery(w, d)
        PROVE  Records(w, d, "SKIPPED")
    BY <1>9 DEF SkipDelivery, Records, InHand, Working, Verdict, TypeOK
  <1>10. ASSUME NEW w \in Worker, NEW d \in Delivery, GiveUp(w, d) PROVE Quiet
    BY <1>10 DEF GiveUp, TypeOK
  <1>11. ASSUME NEW w \in Worker, NEW d \in Delivery, RecordOutcome(w, d)
         PROVE  Records(w, d, task[w][d].pc)
    BY <1>11 DEF RecordOutcome, StatusAfter, Records, InHand, Working, TypeOK
  <1>12. ASSUME NEW w \in Worker, Crash(w) \/ ExitOnError(w) PROVE Quiet
    BY <1>12 DEF Crash, ExitOnError, LoseMemory
  <1>13. ASSUME NEW a \in Admin, NEW d \in Delivery, ReadForRetry(a, d) PROVE Quiet
    BY <1>13 DEF ReadForRetry
  <1>14. ASSUME NEW a \in Admin, QueueRetry(a) PROVE Quiet
    BY <1>14 DEF QueueRetry, TypeOK
  <1>15. ASSUME NEW u \in User, NEW c \in Channel, ChangeMember(u, c) PROVE Quiet
    BY <1>15 DEF ChangeMember
  <1>16. ASSUME NEW n \in AttemptLimits, ChangeAttemptLimit(n) PROVE Quiet
    BY <1>16 DEF ChangeAttemptLimit
  <1>17. ASSUME Tick PROVE Quiet
    BY <1>17 DEF Tick
  <1>18. CASE UNCHANGED vars
    BY <1>18 DEF vars
  <1>19. "SKIPPED" \in Recorded /\ Outcome \subseteq Recorded
    BY DEF Recorded
  <1>20. ASSUME NEW c \in Channel, SwitchChannel(c) PROVE Quiet
    BY <1>20 DEF SwitchChannel
  <1>21. ASSUME NEW w \in Worker, NEW d \in Delivery, RecordOutcome(w, d)
         PROVE  task[w][d].pc \in Outcome
    BY <1>21 DEF RecordOutcome
  <1>22. QED
    BY <1>1, <1>2, <1>3, <1>4, <1>5, <1>6, <1>7, <1>8, <1>9, <1>10, <1>11, <1>12, <1>13,
       <1>14, <1>15, <1>16, <1>17, <1>18, <1>19, <1>20, <1>21
    DEF Next, WorkerStep, DeliveryStep, Environment

\* The task v has x in hand after the step: it had before, or just re-read it.
Continues(v, x) ==
    /\ InHand(v, x)
    /\ task'[v][x].count = task[v][x].count
    /\ task'[v][x].pc = "SENT" => task[v][x].pc = "SENT" \/ copies'[x] > 0
Loads(v, x) ==
    /\ task'[v][x].pc \in Verdict
    /\ task'[v][x].count = attemptCount[x]
    /\ UNCHANGED <<attempts, attemptCount>>

\* A message that the provider takes is one copy more; none is taken back.
LEMMA CopiesStep ==
    ASSUME TypeOK, [Next]_vars, NEW x \in Delivery
    PROVE  copies[x] > 0 => copies'[x] > 0
  <1> USE DEF settingVars, eventVars, attemptVars, rowVars, workerVars, requestVars, providerVars, lossVars
  <1>1. ASSUME NEW w \in Worker, NEW d \in Delivery, CallProvider(w, d)
        PROVE  copies[x] > 0 => copies'[x] > 0
    <2>1. copies' = copies \/ copies' = [copies EXCEPT ![d] = AtMost(@ + 1, 2)]
      BY <1>1 DEF CallProvider, Accept
    <2>2. copies[d] \in 0 .. 2
      BY DEF TypeOK
    <2>3. AtMost(copies[d] + 1, 2) > 0
      BY <2>2 DEF AtMost
    <2>4. QED
      BY <2>1, <2>3 DEF TypeOK
  <1>2. ASSUME NEW w \in Worker, NEW d \in Delivery, DeliveryStep(w, d), ~CallProvider(w, d)
        PROVE  UNCHANGED copies
    BY <1>2
    DEF DeliveryStep, LoadDelivery, Requeue, AttemptConflict, SkipDelivery, GiveUp, StartSending,
        RecordOutcome
  <1>3. ASSUME NEW w \in Worker, WorkerStep(w), ~ \E d \in Delivery : DeliveryStep(w, d)
        PROVE  UNCHANGED copies
    BY <1>3
    DEF WorkerStep, BeginBatch, ExpandEvent, ReadStatuses, WriteEventStatus, ClaimDeliveries,
        EndSkippedBatch, FinishDeliveries, EndBatch, ExitOnError, LoseMemory
  <1>4. CASE Environment
    BY <1>4
    DEF Environment, Crash, LoseMemory, QueueRetry, ReadForRetry, SwitchChannel,
        ChangeAttemptLimit, ChangeMember
  <1>5. CASE Tick \/ UNCHANGED vars
    BY <1>5 DEF Tick, vars
  <1>6. QED
    BY <1>1, <1>2, <1>3, <1>4, <1>5 DEF Next

\* An accepted message is one the provider holds a copy of.
LEMMA SentCopies ==
    ASSUME TypeOK, NEW w \in Worker, NEW d \in Delivery, CallProvider(w, d),
           task'[w][d].pc = "SENT"
    PROVE  copies'[d] > 0
  <1>1. PICK outcome \in Outcome :
            /\ MoveTask(w, d, outcome)
            /\ \/ outcome # "PERMANENT_FAILURE" /\ Accept(d)
               \/ outcome # "SENT" /\ UNCHANGED providerVars
    BY DEF CallProvider
  <1>2. task'[w][d].pc = outcome
    BY <1>1 DEF MoveTask, SetTask, Task, TypeOK
  <1>3. Accept(d)
    BY <1>1, <1>2
  <1>4. copies[d] \in 0 .. 2
    BY DEF TypeOK
  <1>5. AtMost(copies[d] + 1, 2) > 0
    BY <1>4 DEF AtMost
  <1>6. CASE KeyKnown(d)
    BY <1>3, <1>4, <1>6 DEF Accept, KeyKnown, providerVars
  <1>7. CASE ~KeyKnown(d)
    BY <1>3, <1>5, <1>7 DEF Accept, TypeOK
  <1>8. QED
    BY <1>6, <1>7

\* A task in hand continues or was just loaded.
LEMMA TaskStep ==
    ASSUME TypeOK, [Next]_vars, NEW v \in Worker, NEW x \in Delivery, InHand(v, x)'
    PROVE  Continues(v, x) \/ Loads(v, x)
  <1> USE DEF settingVars, eventVars, attemptVars, rowVars, workerVars, requestVars, providerVars, lossVars
  <1> DEFINE Goal == Continues(v, x) \/ Loads(v, x)
  <1>0. task'[v][x].pc \in Working
    BY DEF InHand
  <1>1. CASE UNCHANGED task
    BY <1>0, <1>1 DEF Continues, InHand
  <1>2. ASSUME NEW w \in Worker, NEW d \in Delivery, NEW pc, MoveTask(w, d, pc), InHand(w, d),
               pc = "SENT" => copies'[d] > 0
        PROVE  Goal
    BY <1>0, <1>2 DEF MoveTask, SetTask, Task, TypeOK, Continues, InHand
  <1>3. ASSUME NEW w \in Worker, NEW d \in Delivery, NEW pc, SetTask(w, d, Task(pc, 0, 0)),
               pc \notin Working
        PROVE  Goal
    BY <1>0, <1>3 DEF SetTask, Task, TypeOK, Continues, InHand
  <1>4. ASSUME NEW w \in Worker, task' = [task EXCEPT ![w] = IdleTasks] PROVE Goal
    BY <1>0, <1>4 DEF IdleTasks, Task, TypeOK, Continues, InHand, Working, Verdict, Outcome
  <1>5. ASSUME NEW w \in Worker, ClaimDeliveries(w) PROVE Goal
    BY <1>0, <1>5
    DEF ClaimDeliveries, Task, TypeOK, Continues, InHand, Working, Verdict, Outcome
  <1>6. ASSUME NEW w \in Worker, NEW d \in Delivery, LoadDelivery(w, d) PROVE Goal
    <2>1. CASE SetTask(w, d, Task(VerdictOn(w, d), attemptCount[d], 0))
      <3>1. CASE v = w /\ x = d
        BY <1>6, <2>1, <3>1, VerdictType DEF SetTask, Task, TypeOK, Loads, LoadDelivery
      <3>2. CASE v # w \/ x # d
        BY <1>0, <2>1, <3>2 DEF SetTask, TypeOK, Continues, InHand
      <3>3. QED
        BY <3>1, <3>2
    <2>2. CASE EndTask(w, d)
      BY <1>3, <2>2 DEF EndTask, Working, Verdict, Outcome
    <2>3. QED
      BY <1>6, <2>1, <2>2 DEF LoadDelivery
  <1>7. ASSUME NEW w \in Worker, NEW d \in Delivery,
               Requeue(w, d) \/ SkipDelivery(w, d) \/ GiveUp(w, d) \/ RecordOutcome(w, d)
        PROVE  Goal
    BY <1>3, <1>7
    DEF Requeue, SkipDelivery, GiveUp, RecordOutcome, EndTask, Working, Verdict, Outcome
  <1>8. ASSUME NEW w \in Worker, NEW d \in Delivery, AttemptConflict(w, d) \/ StartSending(w, d)
        PROVE  Goal
    BY <1>2, <1>8 DEF AttemptConflict, StartSending, InHand, Working, Verdict
  <1>9. ASSUME NEW w \in Worker, NEW d \in Delivery, CallProvider(w, d) PROVE Goal
    <2>1. PICK outcome \in Outcome : MoveTask(w, d, outcome)
      BY <1>9 DEF CallProvider
    <2>2. task'[w][d].pc = outcome
      BY <2>1 DEF MoveTask, SetTask, Task, TypeOK
    <2>3. InHand(w, d)
      BY <1>9 DEF CallProvider, InHand, Working
    <2>4. QED
      BY <1>2, <1>9, <2>1, <2>2, <2>3, SentCopies
  <1>10. ASSUME Tick PROVE Goal
    BY <1>0, <1>10 DEF Tick, Task, TypeOK, Continues, InHand
  <1>11. ASSUME NEW w \in Worker, FinishDeliveries(w) \/ LoseMemory(w) PROVE Goal
    BY <1>4, <1>11 DEF FinishDeliveries, LoseMemory
  <1>12. QED
    BY <1>1, <1>5, <1>6, <1>7, <1>8, <1>9, <1>10, <1>11
    DEF Next, WorkerStep, DeliveryStep, Environment, Crash, ExitOnError, vars, BeginBatch,
        ExpandEvent, ReadStatuses, WriteEventStatus, EndSkippedBatch, EndBatch, ReadForRetry,
        QueueRetry, SwitchChannel, ChangeAttemptLimit, ChangeMember

-----------------------------------------------------------------------------
(***************************************************************************)
(* The attempt history.  A worker may lose its lease while it has a        *)
(* delivery in hand; its count of attempts is then behind the row's, and   *)
(* the unique key refuses its attempt.                                     *)
(***************************************************************************)
CountBehind ==
    \A w \in Worker, d \in Delivery : InHand(w, d) => task[w][d].count <= attemptCount[d]
HistoryInv == TypeOK /\ AttemptHistory /\ CountBehind

\* The initial state has no attempts at all.
LEMMA HistoryInit == Init => HistoryInv
  <1> SUFFICES ASSUME Init PROVE AttemptHistory /\ CountBehind
    BY TypeInit DEF HistoryInv
  <1>1. AttemptHistory
    BY DEF Init, AttemptHistory
  <1>2. CountBehind
    BY DEF Init, CountBehind, InHand, IdleTasks, Task, Working, Verdict, Outcome
  <1>3. QED
    BY <1>1, <1>2

\* An attempt that is accepted by the unique key is the next one.
LEMMA NextAttempt ==
    ASSUME HistoryInv, NEW w \in Worker, NEW d \in Delivery, NEW outcome, Records(w, d, outcome)
    PROVE  /\ task[w][d].count = attemptCount[d]
           /\ attemptCount' = [attemptCount EXCEPT ![d] = attemptCount[d] + 1]
           /\ DOMAIN attempts'[d] = 1 .. attemptCount[d] + 1
           /\ attempts'[d][attemptCount[d] + 1] = outcome
           /\ \A x \in Delivery : x # d => attempts'[x] = attempts[x]
  <1>1. task[w][d].count \in Nat /\ attemptCount[d] \in Nat
    BY DEF HistoryInv, TypeOK, TaskType
  <1>2. DOMAIN attempts[d] = 1 .. attemptCount[d]
    BY DEF HistoryInv, AttemptHistory
  <1>3. task[w][d].count <= attemptCount[d]
    BY DEF HistoryInv, CountBehind, Records
  <1>4. task[w][d].count + 1 \notin 1 .. attemptCount[d]
    BY <1>2 DEF Records, AttemptTaken
  <1>5. task[w][d].count = attemptCount[d]
    BY <1>1, <1>3, <1>4
  <1>6. d \in DOMAIN attempts
    BY DEF HistoryInv, TypeOK
  <1>7. 1 .. attemptCount[d] + 1 = (1 .. attemptCount[d]) \cup {attemptCount[d] + 1}
    BY <1>1
  <1>8. QED
    BY <1>2, <1>5, <1>6, <1>7 DEF Records, InsertAttempt

\* Every step keeps the history gapless and the counts workers read behind it.
LEMMA HistoryStep == HistoryInv /\ [Next]_vars => HistoryInv'
  <1> SUFFICES ASSUME HistoryInv, [Next]_vars PROVE HistoryInv'
    OBVIOUS
  <1>0. TypeOK /\ TypeOK'
    BY TypeStep DEF HistoryInv
  <1>1. CASE UNCHANGED <<attempts, attemptCount>>
    <2>1. AttemptHistory'
      BY <1>1 DEF HistoryInv, AttemptHistory
    <2>2. ASSUME NEW w \in Worker, NEW d \in Delivery, InHand(w, d)'
          PROVE  task'[w][d].count <= attemptCount'[d]
      <3>1. task'[w][d].count \in Nat /\ attemptCount[d] \in Nat
        BY <1>0 DEF TypeOK, TaskType
      <3>2. CASE Continues(w, d)
        BY <1>1, <3>2 DEF HistoryInv, CountBehind, Continues
      <3>3. CASE Loads(w, d)
        BY <3>1, <3>3 DEF Loads
      <3>4. QED
        BY <1>0, <2>2, <3>2, <3>3, TaskStep
    <2>3. QED
      BY <1>0, <2>1, <2>2 DEF HistoryInv, CountBehind
  <1>2. ASSUME NEW w \in Worker, NEW d \in Delivery, NEW outcome \in Recorded, Records(w, d, outcome)
        PROVE  HistoryInv'
    <2>1. \A x \in Delivery : attemptCount[x] \in Nat
      BY <1>0 DEF TypeOK
    <2>2. AttemptHistory'
      <3>1. SUFFICES ASSUME NEW x \in Delivery
                     PROVE  DOMAIN attempts'[x] = 1 .. attemptCount'[x]
        BY DEF AttemptHistory
      <3>2. CASE x = d
        BY <1>0, <1>2, <3>2, NextAttempt DEF TypeOK
      <3>3. CASE x # d
        <4>1. attempts'[x] = attempts[x] /\ attemptCount'[x] = attemptCount[x]
          <5>1. /\ attemptCount' = [attemptCount EXCEPT ![d] = attemptCount[d] + 1]
                /\ attempts'[x] = attempts[x]
            BY <1>2, <3>3, NextAttempt
          <5>2. QED
            BY <1>0, <3>3, <5>1 DEF TypeOK
        <4>2. QED
          BY <4>1 DEF HistoryInv, AttemptHistory
      <3>4. QED
        BY <3>2, <3>3
    <2>3. ASSUME NEW v \in Worker, NEW x \in Delivery, InHand(v, x)'
          PROVE  task'[v][x].count <= attemptCount'[x]
      <3>1. attemptCount'[x] \in {attemptCount[x], attemptCount[x] + 1}
        <4>1. attemptCount' = [attemptCount EXCEPT ![d] = attemptCount[d] + 1]
          BY <1>2, NextAttempt
        <4>2. QED
          BY <1>0, <4>1 DEF TypeOK
      <3>2. task'[v][x].count \in Nat
        BY <1>0 DEF TypeOK, TaskType
      <3>3. CASE Continues(v, x)
        BY <2>1, <3>1, <3>2, <3>3 DEF HistoryInv, CountBehind, Continues
      <3>4. CASE Loads(v, x)
        BY <2>1, <3>4 DEF Loads
      <3>5. QED
        BY <1>0, <2>3, <3>3, <3>4, TaskStep
    <2>4. QED
      BY <1>0, <2>2, <2>3 DEF HistoryInv, CountBehind
  <1>3. QED
    BY <1>0, <1>1, <1>2, AttemptStep

\* However many workers race for a delivery, whatever the operators retry and
\* wherever a worker dies: the attempts of a delivery are numbered 1, 2, ...
\* without a gap, and attemptCount is their number.
THEOREM AttemptHistoryCorrect == Spec => []AttemptHistory
  <1>1. HistoryInv => AttemptHistory
    BY DEF HistoryInv
  <1>2. QED
    BY <1>1, HistoryInit, HistoryStep, PTL DEF Spec

-----------------------------------------------------------------------------
(***************************************************************************)
(* SENT means accepted.                                                    *)
(***************************************************************************)
AcceptedBeforeRecorded ==
    \A w \in Worker, d \in Delivery : task[w][d].pc = "SENT" => copies[d] > 0
AcceptedInv == HistoryInv /\ SentIsAccepted /\ AcceptedBeforeRecorded

\* Initially nothing is sent.
LEMMA AcceptedInit == Init => AcceptedInv
  BY HistoryInit
  DEF Init, AcceptedInv, SentIsAccepted, AcceptedBeforeRecorded, IdleTasks, Task

\* Every step keeps SENT rows accepted.
LEMMA AcceptedStep == AcceptedInv /\ [Next]_vars => AcceptedInv'
  <1> SUFFICES ASSUME AcceptedInv, [Next]_vars PROVE AcceptedInv'
    OBVIOUS
  <1>0. TypeOK /\ HistoryInv /\ HistoryInv'
    BY HistoryStep DEF AcceptedInv, HistoryInv
  <1>1. AcceptedBeforeRecorded'
    <2>1. SUFFICES ASSUME NEW w \in Worker, NEW d \in Delivery, task'[w][d].pc = "SENT"
                   PROVE  copies'[d] > 0
      BY DEF AcceptedBeforeRecorded
    <2>2. InHand(w, d)'
      BY <2>1 DEF InHand, Working, Outcome
    <2>3. "SENT" \notin Verdict
      BY DEF Verdict
    <2>4. QED
      BY <1>0, <2>1, <2>2, <2>3, TaskStep, CopiesStep
      DEF AcceptedInv, AcceptedBeforeRecorded, Continues, Loads
  <1>2. ASSUME UNCHANGED <<attempts, attemptCount>>,
               \A x \in Delivery : status'[x] = "SENT" => status[x] = "SENT"
        PROVE  SentIsAccepted'
    BY <1>0, <1>2, CopiesStep DEF AcceptedInv, SentIsAccepted, AttemptTaken
  <1>3. ASSUME NEW w \in Worker, NEW d \in Delivery, NEW outcome \in Recorded, Records(w, d, outcome)
        PROVE  SentIsAccepted'
    <2>1. SUFFICES ASSUME NEW x \in Delivery, status'[x] = "SENT"
                   PROVE  /\ copies'[x] > 0
                          /\ attemptCount'[x] \in DOMAIN attempts'[x]
                          /\ attempts'[x][attemptCount'[x]] = "SENT"
      BY DEF SentIsAccepted, AttemptTaken
    <2>2. \A y \in Delivery : attemptCount[y] \in Nat
      BY <1>0 DEF TypeOK
    <2>3. CASE x = d
      <3>1. outcome = "SENT" /\ task[w][d].pc = "SENT"
        BY <1>3, <2>1, <2>3 DEF Records
      <3>2. copies'[d] > 0
        BY <1>0, <3>1, CopiesStep DEF AcceptedInv, AcceptedBeforeRecorded
      <3>3. attemptCount'[d] = attemptCount[d] + 1
        BY <1>0, <1>3, NextAttempt DEF TypeOK
      <3>4. QED
        BY <1>0, <1>3, <2>2, <2>3, <3>1, <3>2, <3>3, NextAttempt
    <2>4. CASE x # d
      <3>1. status[x] = "SENT"
        BY <1>3, <2>1, <2>4 DEF Records
      <3>2. attemptCount'[x] = attemptCount[x] /\ attempts'[x] = attempts[x]
        BY <1>0, <1>3, <2>4, NextAttempt DEF TypeOK
      <3>3. QED
        BY <1>0, <3>1, <3>2, CopiesStep DEF AcceptedInv, SentIsAccepted, AttemptTaken
    <2>5. QED
      BY <2>3, <2>4
  <1>4. SentIsAccepted'
    BY <1>0, <1>2, <1>3, AttemptStep
  <1>5. QED
    BY <1>0, <1>1, <1>4 DEF AcceptedInv

\* A delivery that reads SENT was accepted by the provider, and its last
\* attempt is the one that says so: late writes of a worker that lost its
\* lease cannot mark as sent what was not.
THEOREM SentIsAcceptedCorrect == Spec => []SentIsAccepted
  <1>1. AcceptedInv => SentIsAccepted
    BY DEF AcceptedInv
  <1>2. QED
    BY <1>1, AcceptedInit, AcceptedStep, PTL DEF Spec

-----------------------------------------------------------------------------
(***************************************************************************)
(* The lease.  The writes that end an attempt are made by the row's id and *)
(* not under the lease.  They are safe when a batch always ends before its *)
(* leases may be taken over, for the deliveries of which no two operators  *)
(* ever raced: whoever queues such a row has read it FAILED, and as long   *)
(* as the request is open nobody else may touch a FAILED row.              *)
(***************************************************************************)
LeaseOutlivesBatch == BatchTicks < StaleTicks

\* The worker will still write the row.
Open(w, d) == task[w][d].pc = "claimed" \/ InHand(w, d)

\* An open delivery is under the worker's lease, which is as old as its batch.
OpenIsLeased ==
    \A w \in Worker, d \in Delivery \ raced :
        Open(w, d) => phase[w] = "work" /\ HoldsLease(w, d) /\ lockAge[d] = batchAge[w]
\* A delivery an operator is about to queue is still FAILED, and no other
\* operator is about to queue it.
RequestedIsFailed ==
    \A a \in Admin, d \in Delivery \ raced :
        request[a] = d => status[d] = "FAILED" /\ \A b \in Admin : request[b] = d => b = a
LeaseInv == TypeOK /\ OpenIsLeased /\ RequestedIsFailed

\* Initially nothing is open or requested.
LEMMA LeaseInit == Init => LeaseInv
  <1>1. None \notin Delivery
    BY ConstantsAssumption DEF Delivery
  <1>2. QED
    BY <1>1, TypeInit
    DEF Init, LeaseInv, OpenIsLeased, RequestedIsFailed, Open, InHand, IdleTasks, Task, Working,
        Verdict, Outcome

\* Whoever has such a delivery open is the only one, and no operator is about
\* to queue it.
LEMMA OpenAlone ==
    ASSUME LeaseInv, NEW w \in Worker, NEW d \in Delivery \ raced, Open(w, d)
    PROVE  /\ status[d] = "SENDING"
           /\ \A v \in Worker : Open(v, d) => v = w
           /\ \A a \in Admin : request[a] # d
  BY DEF LeaseInv, OpenIsLeased, RequestedIsFailed, HoldsLease

\* A worker's write that closes d and changes no other row.
Closes(w, d) ==
    /\ Open(w, d)
    /\ EndTask(w, d)
    /\ \A x \in Delivery :
        x # d => status'[x] = status[x] /\ lease'[x] = lease[x] /\ lockAge'[x] = lockAge[x]
    /\ UNCHANGED <<phase, batchAge, request, raced>>

\* A step that ends the only open task of a row keeps the lease invariant.
LEMMA ClosingStep ==
    ASSUME LeaseInv, TypeOK', NEW w \in Worker, NEW d \in Delivery, Closes(w, d)
    PROVE  LeaseInv'
  <1>1. ASSUME NEW v \in Worker, NEW x \in Delivery \ raced, Open(v, x)'
        PROVE  phase'[v] = "work" /\ HoldsLease(v, x)' /\ lockAge'[x] = batchAge'[v]
    <2>1. ~(v = w /\ x = d)
      BY <1>1
      DEF Closes, EndTask, SetTask, Task, Open, InHand, Working, Verdict, Outcome, LeaseInv, TypeOK
    <2>2. Open(v, x)
      BY <1>1, <2>1 DEF Closes, EndTask, SetTask, Open, InHand, LeaseInv, TypeOK
    <2>3. x # d
      BY <2>1, <2>2, OpenAlone DEF Closes
    <2>4. QED
      BY <2>2, <2>3 DEF Closes, LeaseInv, OpenIsLeased, HoldsLease
  <1>2. ASSUME NEW a \in Admin, NEW x \in Delivery \ raced, request'[a] = x
        PROVE  status'[x] = "FAILED" /\ \A b \in Admin : request'[b] = x => b = a
    <2>1. request[a] = x /\ UNCHANGED request
      BY <1>2 DEF Closes
    <2>2. x # d
      BY <2>1, OpenAlone DEF Closes
    <2>3. QED
      BY <2>1, <2>2 DEF Closes, LeaseInv, RequestedIsFailed
  <1>3. raced' = raced
    BY DEF Closes
  <1>4. QED
    BY <1>1, <1>2, <1>3 DEF LeaseInv, OpenIsLeased, RequestedIsFailed

\* Each of the writes that end a task closes it.
LEMMA ClosingActions ==
    ASSUME LeaseInv, NEW w \in Worker, NEW d \in Delivery,
           Requeue(w, d) \/ SkipDelivery(w, d) \/ GiveUp(w, d) \/ RecordOutcome(w, d)
    PROVE  Closes(w, d)
  <1> USE DEF Closes, Open, InHand, Working, Verdict, rowVars, requestVars
  <1>1. CASE Requeue(w, d)
    <2>1. CASE HoldsLease(w, d)
      BY <1>1, <2>1 DEF Requeue, Unlock, LeaseInv, TypeOK
    <2>2. CASE ~HoldsLease(w, d)
      BY <1>1, <2>2 DEF Requeue
    <2>3. QED
      BY <2>1, <2>2
  <1>2. CASE SkipDelivery(w, d)
    BY <1>2 DEF SkipDelivery, Unlock, LeaseInv, TypeOK
  <1>3. CASE GiveUp(w, d)
    BY <1>3 DEF GiveUp, Unlock, LeaseInv, TypeOK
  <1>4. CASE RecordOutcome(w, d)
    BY <1>4 DEF RecordOutcome, Unlock, LeaseInv, TypeOK
  <1>5. QED
    BY <1>1, <1>2, <1>3, <1>4

\* A step that opens no task and changes none of what the invariant reads.
Passes ==
    /\ \A w \in Worker, d \in Delivery \ raced : Open(w, d)' =>
        Open(w, d) /\ phase'[w] = phase[w] /\ batchAge'[w] = batchAge[w]
    /\ UNCHANGED <<status, lease, lockAge, request, raced>>

\* A step that neither opens nor closes a task keeps the lease invariant.
LEMMA PassingStep ==
    ASSUME LeaseInv, TypeOK', Passes
    PROVE  LeaseInv'
  BY DEF LeaseInv, OpenIsLeased, RequestedIsFailed, Passes, HoldsLease

\* Under the hypothesis every step keeps the lease invariant.
LEMMA LeaseStep ==
    ASSUME LeaseOutlivesBatch, LeaseInv, [Next]_vars
    PROVE  LeaseInv'
  <1> USE DEF settingVars, eventVars, attemptVars, rowVars, workerVars, requestVars, providerVars, lossVars
  <1>0. TypeOK /\ TypeOK'
    BY TypeStep DEF LeaseInv
  <1>1. ASSUME NEW w \in Worker, NEW c \in Channel, BeginBatch(w, c) PROVE LeaseInv'
    <2>1. ASSUME NEW v \in Worker, NEW x \in Delivery \ raced, Open(v, x)'
          PROVE  Open(v, x) /\ phase'[v] = phase[v]
      <3>1. Open(v, x)
        BY <1>1, <2>1 DEF BeginBatch, Open, InHand
      <3>2. v # w
        BY <1>1, <3>1 DEF BeginBatch, LeaseInv, OpenIsLeased
      <3>3. QED
        BY <1>0, <1>1, <3>1, <3>2 DEF BeginBatch, TypeOK
    <2>2. QED
      BY <1>0, <1>1, <2>1, PassingStep DEF BeginBatch, Passes
  <1>2. ASSUME NEW w \in Worker, NEW e \in Event, ExpandEvent(w, e) PROVE LeaseInv'
    <2>1. \A x \in Delivery : status[x] # "NONE" => status'[x] = status[x]
      BY <1>0, <1>2 DEF ExpandEvent, TypeOK
    <2>2. OpenIsLeased'
      BY <1>2, <2>1 DEF ExpandEvent, LeaseInv, OpenIsLeased, HoldsLease, Open, InHand
    <2>3. RequestedIsFailed'
      BY <1>0, <1>2, <2>1 DEF ExpandEvent, LeaseInv, RequestedIsFailed, TypeOK
    <2>4. QED
      BY <1>0, <2>2, <2>3 DEF LeaseInv
  <1>3. ASSUME NEW w \in Worker, ClaimDeliveries(w) PROVE LeaseInv'
    <2> DEFINE claim == {d \in Delivery : ChannelOf(d) = channel[w] /\ Claimable(d)}
    <2>1. ASSUME NEW x \in Delivery, x \notin claim
          PROVE  status'[x] = status[x] /\ lease'[x] = lease[x] /\ lockAge'[x] = lockAge[x]
      BY <1>3, <2>1 DEF ClaimDeliveries
    <2>2. ASSUME NEW v \in Worker, NEW x \in Delivery \ raced, Open(v, x)'
          PROVE  phase'[v] = "work" /\ HoldsLease(v, x)' /\ lockAge'[x] = batchAge'[v]
      <3>1. CASE v = w
        <4>1. x \in claim
          BY <1>0, <1>3, <2>2, <3>1
          DEF ClaimDeliveries, Task, Open, InHand, Working, Verdict, Outcome, TypeOK
        <4>2. QED
          BY <1>0, <1>3, <3>1, <4>1 DEF ClaimDeliveries, HoldsLease, TypeOK
      <3>2. CASE v # w
        <4>1. Open(v, x) /\ phase'[v] = phase[v] /\ batchAge'[v] = batchAge[v]
          BY <1>0, <1>3, <2>2, <3>2 DEF ClaimDeliveries, Open, InHand, TypeOK
        <4>2. phase[v] = "work" /\ HoldsLease(v, x) /\ lockAge[x] = batchAge[v]
          BY <4>1 DEF LeaseInv, OpenIsLeased
        <4>3. batchAge[v] \in 0 .. BatchTicks
          BY <1>0 DEF TypeOK
        <4>4. ~(lockAge[x] >= StaleTicks)
          BY <4>2, <4>3, ConstantsAssumption DEF LeaseOutlivesBatch
        <4>5. x \notin claim
          BY <4>2, <4>4 DEF Claimable, HoldsLease
        <4>6. QED
          BY <2>1, <4>1, <4>2, <4>5 DEF HoldsLease
      <3>3. QED
        BY <3>1, <3>2
    <2>3. ASSUME NEW a \in Admin, NEW x \in Delivery \ raced, request'[a] = x
          PROVE  status'[x] = "FAILED" /\ \A b \in Admin : request'[b] = x => b = a
      <3>1. request' = request /\ request[a] = x
        BY <1>3, <2>3 DEF ClaimDeliveries
      <3>2. status[x] = "FAILED" /\ \A b \in Admin : request[b] = x => b = a
        BY <3>1 DEF LeaseInv, RequestedIsFailed
      <3>3. x \notin claim
        BY <3>2 DEF Claimable
      <3>4. QED
        BY <2>1, <3>1, <3>2, <3>3
    <2>4. raced' = raced
      BY <1>3 DEF ClaimDeliveries
    <2>5. QED
      BY <1>0, <2>2, <2>3, <2>4 DEF LeaseInv, OpenIsLeased, RequestedIsFailed
  <1>4. ASSUME NEW w \in Worker, NEW d \in Delivery, NEW t,
               SetTask(w, d, t), Open(w, d), UNCHANGED <<phase, batchAge, rowVars, requestVars>>
        PROVE  LeaseInv'
    <2>1. \A v \in Worker, x \in Delivery : Open(v, x)' => Open(v, x)
      BY <1>0, <1>4 DEF SetTask, Open, InHand, TypeOK
    <2>2. QED
      BY <1>0, <1>4, <2>1, PassingStep DEF Passes
  <1>5. ASSUME NEW w \in Worker, NEW d \in Delivery, DeliveryStep(w, d) PROVE LeaseInv'
    <2>1. CASE Requeue(w, d) \/ SkipDelivery(w, d) \/ GiveUp(w, d) \/ RecordOutcome(w, d)
      BY <1>0, <2>1, ClosingActions, ClosingStep
    <2>2. CASE LoadDelivery(w, d)
      BY <1>4, <2>2 DEF LoadDelivery, EndTask, Open
    <2>3. CASE AttemptConflict(w, d)
      BY <1>4, <2>3 DEF AttemptConflict, MoveTask, Open, InHand, Working, Verdict
    <2>4. CASE StartSending(w, d)
      BY <1>4, <2>4 DEF StartSending, MoveTask, Open, InHand, Working, Verdict
    <2>5. CASE CallProvider(w, d)
      <3>1. PICK outcome \in Outcome : MoveTask(w, d, outcome)
        BY <2>5 DEF CallProvider
      <3>2. QED
        BY <1>4, <2>5, <3>1 DEF CallProvider, MoveTask, Open, InHand, Working
    <2>6. QED
      BY <1>5, <2>1, <2>2, <2>3, <2>4, <2>5 DEF DeliveryStep
  <1>6. ASSUME NEW w \in Worker, task' = [task EXCEPT ![w] = IdleTasks],
               \A v \in Worker : v # w => phase'[v] = phase[v] /\ batchAge'[v] = batchAge[v],
               UNCHANGED <<rowVars, requestVars>>
        PROVE  LeaseInv'
    <2>1. ASSUME NEW v \in Worker, NEW x \in Delivery \ raced, Open(v, x)' PROVE v # w /\ Open(v, x)
      BY <1>0, <1>6, <2>1 DEF IdleTasks, Task, Open, InHand, Working, Verdict, Outcome, TypeOK
    <2>2. QED
      BY <1>0, <1>6, <2>1, PassingStep DEF Passes
  <1>7. ASSUME NEW w \in Worker, FinishDeliveries(w) \/ LoseMemory(w) PROVE LeaseInv'
    BY <1>0, <1>6, <1>7 DEF FinishDeliveries, LoseMemory, TypeOK
  <1>8. ASSUME NEW w \in Worker, EndSkippedBatch(w) \/ EndBatch(w) PROVE LeaseInv'
    <2>1. phase[w] # "work" /\ UNCHANGED <<task, batchAge, rowVars, requestVars>>
      BY <1>8 DEF EndSkippedBatch, EndBatch
    <2>2. \A v \in Worker : v # w => phase'[v] = phase[v]
      BY <1>0, <1>8 DEF EndSkippedBatch, EndBatch, TypeOK
    <2>3. \A v \in Worker, x \in Delivery \ raced : Open(v, x)' => Open(v, x) /\ v # w
      BY <2>1 DEF LeaseInv, OpenIsLeased, Open, InHand
    <2>4. QED
      BY <1>0, <2>1, <2>2, <2>3, PassingStep DEF Passes
  <1>9. ASSUME NEW a \in Admin, NEW d \in Delivery, ReadForRetry(a, d) PROVE LeaseInv'
    <2>1. /\ UNCHANGED <<task, phase, batchAge, rowVars>>
          /\ request' = [request EXCEPT ![a] = d]
          /\ status[d] = "FAILED"
          /\ raced' = IF \E b \in Admin : request[b] = d THEN raced \cup {d} ELSE raced
      BY <1>9 DEF ReadForRetry, MayRetry
    <2>2. OpenIsLeased'
      BY <2>1 DEF LeaseInv, OpenIsLeased, HoldsLease, Open, InHand
    <2>3. ASSUME NEW b \in Admin, NEW x \in Delivery \ raced', request'[b] = x
          PROVE  status'[x] = "FAILED" /\ \A c \in Admin : request'[c] = x => c = b
      <3>1. \A c \in Admin : request'[c] = IF c = a THEN d ELSE request[c]
        BY <1>0, <2>1 DEF TypeOK
      <3>2. CASE x = d
        <4>1. \A c \in Admin : request[c] # d
          BY <2>1, <2>3, <3>2
        <4>2. QED
          BY <2>1, <2>3, <3>1, <3>2, <4>1
      <3>3. CASE x # d
        <4>1. x \notin raced
          BY <2>1, <2>3
        <4>2. QED
          BY <2>1, <2>3, <3>1, <3>3, <4>1 DEF LeaseInv, RequestedIsFailed
      <3>4. QED
        BY <3>2, <3>3
    <2>4. QED
      BY <1>0, <2>2, <2>3 DEF LeaseInv, RequestedIsFailed
  <1>10. ASSUME NEW a \in Admin, QueueRetry(a) PROVE LeaseInv'
    <2> DEFINE d == request[a]
    <2>1. d \in Delivery /\ (d \notin raced => status[d] = "FAILED")
      BY <1>0, <1>10 DEF QueueRetry, LeaseInv, RequestedIsFailed, TypeOK
    <2>2. \A x \in Delivery :
            x # d => status'[x] = status[x] /\ lease'[x] = lease[x] /\ lockAge'[x] = lockAge[x]
      BY <1>0, <1>10 DEF QueueRetry, Unlock, TypeOK
    <2>3. ASSUME NEW v \in Worker, NEW x \in Delivery \ raced, Open(v, x)'
          PROVE  phase'[v] = "work" /\ HoldsLease(v, x)' /\ lockAge'[x] = batchAge'[v]
      <3>1. Open(v, x) /\ UNCHANGED <<phase, batchAge>>
        BY <1>10, <2>3 DEF QueueRetry, Open, InHand
      <3>2. x # d
        BY <3>1, OpenAlone
      <3>3. QED
        BY <2>2, <3>1, <3>2 DEF LeaseInv, OpenIsLeased, HoldsLease
    <2>4. ASSUME NEW b \in Admin, NEW x \in Delivery \ raced, request'[b] = x
          PROVE  status'[x] = "FAILED" /\ \A c \in Admin : request'[c] = x => c = b
      <3>1. \A c \in Admin : request'[c] = IF c = a THEN None ELSE request[c]
        BY <1>0, <1>10 DEF QueueRetry, TypeOK
      <3>2. x # None
        BY ConstantsAssumption DEF Delivery
      <3>3. b # a /\ request[b] = x
        BY <2>4, <3>1, <3>2
      <3>4. status[x] = "FAILED" /\ \A c \in Admin : request[c] = x => c = b
        BY <3>3 DEF LeaseInv, RequestedIsFailed
      <3>5. x # d
        BY <3>3, <3>4
      <3>6. QED
        BY <2>2, <3>1, <3>2, <3>4, <3>5
    <2>5. raced' = raced
      BY <1>10 DEF QueueRetry
    <2>6. QED
      BY <1>0, <2>3, <2>4, <2>5 DEF LeaseInv, OpenIsLeased, RequestedIsFailed
  <1>11. ASSUME Tick PROVE LeaseInv'
    <2>1. ASSUME NEW v \in Worker, NEW x \in Delivery \ raced, Open(v, x)'
          PROVE  phase'[v] = "work" /\ HoldsLease(v, x)' /\ lockAge'[x] = batchAge'[v]
      <3>1. Open(v, x)
        BY <1>11, <2>1 DEF Tick, Task, Open, InHand
      <3>2. phase[v] = "work" /\ HoldsLease(v, x) /\ lockAge[x] = batchAge[v]
        BY <3>1 DEF LeaseInv, OpenIsLeased
      <3>3. batchAge[v] \in Nat /\ batchAge[v] < BatchTicks
        BY <1>0, <1>11, <3>2 DEF Tick, TypeOK
      <3>4. batchAge'[v] = batchAge[v] + 1
        BY <1>11, <3>2 DEF Tick
      <3>5. lockAge'[x] = AtMost(lockAge[x] + 1, StaleTicks)
        BY <1>11, <3>2 DEF Tick, HoldsLease
      <3>6. lockAge'[x] = lockAge[x] + 1
        BY <3>2, <3>3, <3>5, ConstantsAssumption DEF AtMost, LeaseOutlivesBatch
      <3>7. QED
        BY <1>11, <3>2, <3>4, <3>6 DEF Tick, HoldsLease
    <2>2. RequestedIsFailed'
      BY <1>11 DEF Tick, LeaseInv, RequestedIsFailed
    <2>3. raced' = raced
      BY <1>11 DEF Tick
    <2>4. QED
      BY <1>0, <2>1, <2>2, <2>3 DEF LeaseInv, OpenIsLeased
  <1>12. ASSUME UNCHANGED <<task, phase, batchAge, rowVars, requestVars>> PROVE LeaseInv'
    BY <1>0, <1>12, PassingStep DEF Passes, Open, InHand
  <1>13. ASSUME NEW w \in Worker, WorkerStep(w) PROVE LeaseInv'
    BY <1>1, <1>2, <1>3, <1>5, <1>7, <1>8, <1>12, <1>13
    DEF WorkerStep, ReadStatuses, WriteEventStatus, ExitOnError
  <1>14. CASE Environment
    BY <1>7, <1>9, <1>10, <1>12, <1>14
    DEF Environment, Crash, SwitchChannel, ChangeAttemptLimit, ChangeMember
  <1>15. CASE UNCHANGED vars
    BY <1>12, <1>15 DEF vars
  <1>16. QED
    BY <1>11, <1>13, <1>14, <1>15 DEF Next

\* Once two operators raced for a delivery, that is not forgotten.
LEMMA RacedGrows == ASSUME TypeOK, [Next]_vars PROVE raced \subseteq raced'
  <1> USE DEF requestVars
  <1>1. ASSUME NEW w \in Worker, NEW d \in Delivery, DeliveryStep(w, d) PROVE UNCHANGED raced
    BY <1>1
    DEF DeliveryStep, LoadDelivery, Requeue, AttemptConflict, SkipDelivery, GiveUp, StartSending,
        CallProvider, RecordOutcome
  <1>2. ASSUME NEW w \in Worker, WorkerStep(w) PROVE UNCHANGED raced
    BY <1>1, <1>2
    DEF WorkerStep, BeginBatch, ExpandEvent, ReadStatuses, WriteEventStatus, ClaimDeliveries,
        EndSkippedBatch, FinishDeliveries, EndBatch, ExitOnError, LoseMemory
  <1>3. CASE Environment
    BY <1>3
    DEF Environment, Crash, LoseMemory, QueueRetry, ReadForRetry, SwitchChannel,
        ChangeAttemptLimit, ChangeMember
  <1>4. CASE Tick \/ UNCHANGED vars
    BY <1>4 DEF Tick, vars
  <1>5. QED
    BY <1>2, <1>3, <1>4 DEF Next

\* When a batch ends before its leases are stale, no two workers ever send the
\* same delivery, unless two operators raced to send it back.
THEOREM SingleSenderCorrect ==
    ASSUME LeaseOutlivesBatch
    PROVE  Spec => []SingleSender
  <1>1. LeaseInv => SingleSender
    BY OpenAlone DEF SingleSender, Open
  <1>2. LeaseInv /\ [Next]_vars => LeaseInv'
    BY LeaseStep
  <1>3. QED
    BY <1>1, <1>2, LeaseInit, PTL DEF Spec

\* Under the same condition no write of a worker, no crash and no retry takes a
\* sent delivery back to the queue, fails it or skips it, however many
\* operators there are, while no two of them are about to send it back at once.
THEOREM SentStaysSentCorrect ==
    ASSUME LeaseOutlivesBatch
    PROVE  Spec => SentStaysSent
  <1>1. ASSUME LeaseInv, [Next]_vars, NEW x \in Delivery \ raced, status[x] = "SENT"
        PROVE  status'[x] = "SENT"
    <2> USE DEF settingVars, eventVars, attemptVars, rowVars, workerVars, requestVars, providerVars, lossVars
    <2>0. TypeOK
      BY <1>1 DEF LeaseInv
    <2>1. ASSUME NEW w \in Worker, NEW e \in Event, ExpandEvent(w, e) PROVE status'[x] = "SENT"
      BY <1>1, <2>1 DEF ExpandEvent
    <2>2. ASSUME NEW w \in Worker, ClaimDeliveries(w) PROVE status'[x] = "SENT"
      BY <1>1, <2>2 DEF ClaimDeliveries, Claimable
    <2>3. ASSUME NEW w \in Worker, NEW d \in Delivery,
                 Requeue(w, d) \/ SkipDelivery(w, d) \/ GiveUp(w, d) \/ RecordOutcome(w, d)
          PROVE  status'[x] = "SENT"
      <3>1. Closes(w, d)
        BY <1>1, <2>3, ClosingActions
      <3>2. x # d
        BY <1>1, <3>1, OpenAlone DEF Closes
      <3>3. QED
        BY <1>1, <3>1, <3>2 DEF Closes
    <2>4. ASSUME NEW a \in Admin, QueueRetry(a) PROVE status'[x] = "SENT"
      <3>1. request[a] # x
        BY <1>1, <2>4 DEF QueueRetry, LeaseInv, RequestedIsFailed
      <3>2. QED
        BY <1>1, <2>0, <2>4, <3>1 DEF QueueRetry, TypeOK
    <2>5. ASSUME UNCHANGED status PROVE status'[x] = "SENT"
      BY <1>1, <2>5
    <2>6. ASSUME NEW w \in Worker, NEW d \in Delivery, DeliveryStep(w, d) PROVE status'[x] = "SENT"
      BY <2>3, <2>5, <2>6
      DEF DeliveryStep, LoadDelivery, AttemptConflict, StartSending, CallProvider
    <2>7. ASSUME NEW w \in Worker, WorkerStep(w) PROVE status'[x] = "SENT"
      BY <2>1, <2>2, <2>5, <2>6, <2>7
      DEF WorkerStep, BeginBatch, ReadStatuses, WriteEventStatus, EndSkippedBatch,
          FinishDeliveries, EndBatch, ExitOnError, LoseMemory
    <2>8. CASE Environment
      BY <2>4, <2>5, <2>8
      DEF Environment, Crash, LoseMemory, ReadForRetry, SwitchChannel, ChangeAttemptLimit,
          ChangeMember
    <2>9. CASE Tick \/ UNCHANGED vars
      BY <2>5, <2>9 DEF Tick, vars
    <2>10. QED
      BY <1>1, <2>7, <2>8, <2>9 DEF Next
  <1>2. LeaseInv /\ [Next]_vars =>
            (\A d \in Delivery \ raced' : status[d] = "SENT" => status'[d] = "SENT")
    BY <1>1, RacedGrows DEF LeaseInv
  <1>3. LeaseInv /\ [Next]_vars => LeaseInv'
    BY LeaseStep
  <1>4. QED
    BY <1>2, <1>3, LeaseInit, PTL DEF Spec, SentStaysSent

-----------------------------------------------------------------------------
(***************************************************************************)
(* How late a message the provider took may be sent again.  An attempt     *)
(* only begins inside the retry window, the window opens with the first    *)
(* recorded attempt, and the first acceptance is recorded within the batch *)
(* that made it; so a resend is late by a batch at either end at most.     *)
(***************************************************************************)
\* Whoever has a delivery open is at its batch.
OpenIsWorking ==
    \A w \in Worker, d \in Delivery : Open(w, d) => phase[w] = "work"

\* An accepted message without an attempt is still known to its worker.
AcceptanceKnown(d) ==
    \E w \in Worker : Unrecorded(w, d) /\ acceptedAge[d] <= batchAge[w]
\* With an attempt, the acceptance is at most a batch older than the window.
AcceptedInWindow(d) ==
    firstAge[d] = WindowTicks \/ acceptedAge[d] <= firstAge[d] + BatchTicks
\* An attempt under way began inside the window and within its batch.
AttemptsInTime(d) ==
    \A w \in Worker :
        Trying(w, d) => acceptedAge[d] <= WindowTicks - 1 + BatchTicks + batchAge[w]

ResendSafe(d) ==
    copies[d] > 0 =>
        /\ IF DOMAIN attempts[d] = {} THEN AcceptanceKnown(d) ELSE AcceptedInWindow(d)
        /\ AttemptsInTime(d)
ResendInv == TypeOK /\ OpenIsWorking /\ \A d \in Delivery \ lost : ResendSafe(d)

\* Initially nothing is open or accepted.
LEMMA ResendInit == Init => ResendInv
  <1> SUFFICES ASSUME Init PROVE ResendInv
    OBVIOUS
  <1>1. OpenIsWorking
    BY DEF Init, OpenIsWorking, Open, InHand, IdleTasks, Task, Working, Verdict, Outcome
  <1>2. \A d \in Delivery : copies[d] = 0
    BY DEF Init
  <1>3. \A d \in Delivery : ResendSafe(d)
    BY <1>2 DEF ResendSafe
  <1>4. QED
    BY <1>1, <1>3, TypeInit DEF ResendInv

\* A step that neither first accepts nor records x: it forgets no acceptance without
\* counting x as lost, and it only begins an attempt inside the window.
Forgets(x) == \E v \in Worker : Unrecorded(v, x) /\ ~(Unrecorded(v, x)' /\ batchAge'[v] = batchAge[v])
Begins(v, x) == Trying(v, x)' /\ ~(Trying(v, x) /\ batchAge'[v] = batchAge[v])
Keeps(x) ==
    /\ copies'[x] > 0 <=> copies[x] > 0
    /\ acceptedAge'[x] = acceptedAge[x]
    /\ attempts'[x] = attempts[x] /\ firstAge'[x] = firstAge[x]
    /\ ~Forgets(x)
    /\ \A v \in Worker : Begins(v, x) => ~WindowClosed(x)

\* An attempt that may begin now is in time.
LEMMA NewAttemptInTime ==
    ASSUME TypeOK, NEW x \in Delivery, ResendSafe(x), copies[x] > 0, ~WindowClosed(x)
    PROVE  acceptedAge[x] <= WindowTicks - 1 + BatchTicks
  <1>1. /\ acceptedAge[x] \in Nat /\ firstAge[x] \in 0 .. WindowTicks
        /\ \A w \in Worker : batchAge[w] \in 0 .. BatchTicks
    BY ConstantsAssumption DEF TypeOK
  <1>2. CASE DOMAIN attempts[x] = {}
    <2>1. PICK w \in Worker : acceptedAge[x] <= batchAge[w]
      BY <1>2 DEF ResendSafe, AcceptanceKnown
    <2>2. QED
      BY <1>1, <2>1, ConstantsAssumption
  <1>3. CASE DOMAIN attempts[x] # {}
    <2>1. AcceptedInWindow(x) /\ firstAge[x] < WindowTicks
      BY <1>1, <1>3, ConstantsAssumption DEF ResendSafe, WindowClosed
    <2>2. QED
      BY <1>1, <2>1, ConstantsAssumption DEF AcceptedInWindow
  <1>4. QED
    BY <1>2, <1>3

\* Such a step keeps x safe.
LEMMA KeepsStep ==
    ASSUME TypeOK, TypeOK', NEW x \in Delivery, ResendSafe(x), Keeps(x)
    PROVE  ResendSafe(x)'
  <1>1. CASE copies[x] > 0
    <2>1. DOMAIN attempts[x] = {} => AcceptanceKnown(x)'
      BY <1>1 DEF ResendSafe, AcceptanceKnown, Keeps, Forgets
    <2>2. DOMAIN attempts[x] # {} => AcceptedInWindow(x)'
      BY <1>1 DEF ResendSafe, AcceptedInWindow, Keeps
    <2>3. ASSUME NEW v \in Worker, Trying(v, x)'
          PROVE  acceptedAge'[x] <= WindowTicks - 1 + BatchTicks + batchAge'[v]
      <3>1. CASE Trying(v, x) /\ batchAge'[v] = batchAge[v]
        BY <1>1, <3>1 DEF ResendSafe, AttemptsInTime, Keeps
      <3>2. CASE ~(Trying(v, x) /\ batchAge'[v] = batchAge[v])
        <4>1. ~WindowClosed(x)
          BY <2>3, <3>2 DEF Keeps, Begins
        <4>2. acceptedAge[x] <= WindowTicks - 1 + BatchTicks
          BY <1>1, <4>1, NewAttemptInTime
        <4>3. acceptedAge[x] \in Nat /\ batchAge'[v] \in Nat
          BY ConstantsAssumption DEF TypeOK
        <4>4. QED
          BY <4>2, <4>3, ConstantsAssumption DEF Keeps
      <3>3. QED
        BY <3>1, <3>2
    <2>4. AttemptsInTime(x)'
      BY <2>3 DEF AttemptsInTime
    <2>5. QED
      BY <2>1, <2>2, <2>4 DEF ResendSafe, Keeps
  <1>2. CASE ~(copies[x] > 0)
    BY <1>2 DEF ResendSafe, Keeps
  <1>3. QED
    BY <1>1, <1>2

\* Recording an attempt of x opens the window no later than a batch after the
\* acceptance, or finds it open.
LEMMA RecordKeeps ==
    ASSUME TypeOK, TypeOK', NEW x \in Delivery, ResendSafe(x), NEW w \in Worker, NEW outcome,
           InsertAttempt(w, x, outcome), EndTask(w, x),
           UNCHANGED <<copies, acceptedAge, batchAge>>
    PROVE  ResendSafe(x)'
  <1>1. DOMAIN attempts'[x] # {}
    BY DEF InsertAttempt, TypeOK
  <1>2. firstAge'[x] = FirstAge(w, x)
    BY DEF InsertAttempt, TypeOK
  <1>3. ASSUME copies[x] > 0 PROVE AcceptedInWindow(x)'
    <2>1. CASE DOMAIN attempts[x] = {}
      <3>1. PICK v \in Worker : acceptedAge[x] <= batchAge[v]
        BY <1>3, <2>1 DEF ResendSafe, AcceptanceKnown
      <3>2. /\ acceptedAge[x] \in Nat /\ firstAge'[x] \in Nat
            /\ batchAge[v] \in 0 .. BatchTicks
        BY ConstantsAssumption DEF TypeOK
      <3>3. QED
        BY <3>1, <3>2, ConstantsAssumption DEF AcceptedInWindow
    <2>2. CASE DOMAIN attempts[x] # {}
      BY <1>2, <1>3, <2>2 DEF ResendSafe, AcceptedInWindow, FirstAge
    <2>3. QED
      BY <2>1, <2>2
  <1>4. ASSUME NEW v \in Worker, Trying(v, x)' PROVE Trying(v, x)
    BY <1>4 DEF Trying, EndTask, SetTask, Task, TypeOK
  <1>5. copies[x] > 0 => AttemptsInTime(x)'
    BY <1>4 DEF ResendSafe, AttemptsInTime
  <1>6. QED
    BY <1>1, <1>3, <1>5 DEF ResendSafe

\* The provider takes a message of x for the first time.
LEMMA AcceptKeeps ==
    ASSUME TypeOK, TypeOK', NEW x \in Delivery, NEW w \in Worker, NEW outcome \in Outcome,
           MoveTask(w, x, outcome), outcome # "PERMANENT_FAILURE",
           copies'[x] > 0, acceptedAge'[x] = 0, UNCHANGED <<attempts, firstAge, batchAge>>
    PROVE  ResendSafe(x)'
  <1>0. /\ firstAge'[x] \in Nat
        /\ \A v \in Worker : batchAge'[v] \in Nat
    BY DEF TypeOK
  <1>1. task'[w][x].pc \in {"SENT", "TRANSIENT_FAILURE"}
    BY DEF MoveTask, SetTask, Task, TypeOK, Outcome
  <1>2. DOMAIN attempts'[x] = {} => AcceptanceKnown(x)'
    BY <1>0, <1>1 DEF AcceptanceKnown, Unrecorded
  <1>3. AcceptedInWindow(x)'
    BY <1>0, ConstantsAssumption DEF AcceptedInWindow
  <1>4. AttemptsInTime(x)'
    BY <1>0, ConstantsAssumption DEF AttemptsInTime
  <1>5. QED
    BY <1>2, <1>3, <1>4 DEF ResendSafe

\* The provider's answer keeps x safe.
LEMMA ProviderKeeps ==
    ASSUME TypeOK, TypeOK', NEW x \in Delivery, ResendSafe(x),
           NEW w \in Worker, CallProvider(w, x)
    PROVE  ResendSafe(x)'
  <1>1. PICK outcome \in Outcome :
            /\ MoveTask(w, x, outcome)
            /\ \/ outcome # "PERMANENT_FAILURE" /\ Accept(x)
               \/ outcome # "SENT" /\ UNCHANGED providerVars
    BY DEF CallProvider
  <1>2. Trying(w, x)
    BY DEF CallProvider, Trying
  <1>3. UNCHANGED <<attempts, firstAge, batchAge>>
    BY DEF CallProvider, attemptVars
  <1>4. ASSUME copies'[x] > 0 <=> copies[x] > 0, acceptedAge'[x] = acceptedAge[x]
        PROVE  ResendSafe(x)'
    <2>1. \A v \in Worker : Trying(v, x)' => Trying(v, x)
      BY <1>1 DEF Trying, MoveTask, SetTask, Task, TypeOK, Outcome
    <2>2. \A v \in Worker : Unrecorded(v, x) => Unrecorded(v, x)'
      <3>1. ~Unrecorded(w, x)
        BY DEF CallProvider, Unrecorded
      <3>2. \A v \in Worker : v # w => task'[v] = task[v]
        BY <1>1 DEF MoveTask, SetTask, TypeOK
      <3>3. QED
        BY <1>3, <1>4, <3>1, <3>2 DEF Unrecorded
    <2>3. Keeps(x)
      BY <1>3, <1>4, <2>1, <2>2 DEF Keeps, Forgets, Begins
    <2>4. QED
      BY <2>3, KeepsStep
  <1>5. CASE outcome # "PERMANENT_FAILURE" /\ Accept(x) /\ ~KeyKnown(x)
    <2>1. copies[x] \in 0 .. 2 /\ AtMost(copies[x] + 1, 2) > 0
      BY DEF TypeOK, AtMost
    <2>2. /\ copies'[x] > 0
          /\ acceptedAge'[x] = IF copies[x] = 0 THEN 0 ELSE acceptedAge[x]
      BY <1>5, <2>1 DEF Accept, TypeOK
    <2>3. CASE copies[x] = 0
      BY <1>1, <1>3, <1>5, <2>2, <2>3, AcceptKeeps
    <2>4. CASE copies[x] > 0
      BY <1>4, <2>2, <2>4
    <2>5. QED
      BY <2>1, <2>3, <2>4
  <1>6. CASE UNCHANGED providerVars \/ (Accept(x) /\ KeyKnown(x))
    BY <1>4, <1>6 DEF Accept, providerVars
  <1>7. QED
    BY <1>1, <1>5, <1>6

\* A tick ages the window, the batches and the acceptance together.
LEMMA TickKeeps ==
    ASSUME TypeOK, TypeOK', OpenIsWorking, NEW x \in Delivery, ResendSafe(x), Tick
    PROVE  ResendSafe(x)'
  <1>1. copies'[x] = copies[x] /\ attempts'[x] = attempts[x]
    BY DEF Tick
  <1>2. \A v \in Worker : task'[v][x].pc = task[v][x].pc
    BY DEF Tick, Task, TypeOK
  <1>3. \A v \in Worker : phase[v] = "work" => batchAge'[v] = batchAge[v] + 1
    BY DEF Tick
  <1>4. ASSUME copies[x] > 0
        PROVE  acceptedAge[x] \in Nat /\ acceptedAge'[x] \in Nat /\ acceptedAge'[x] <= acceptedAge[x] + 1
    <2>1. acceptedAge'[x] = AtMost(acceptedAge[x] + 1, AgeCap)
      BY <1>4 DEF Tick
    <2>2. acceptedAge[x] \in Nat /\ acceptedAge'[x] \in Nat
      BY DEF TypeOK
    <2>3. QED
      BY <2>1, <2>2, AgeCapType DEF AtMost
  <1>5. \A v \in Worker : batchAge[v] \in Nat
    BY DEF TypeOK
  <1>6. ASSUME copies[x] > 0, DOMAIN attempts[x] = {} PROVE AcceptanceKnown(x)'
    <2>1. PICK v \in Worker : Unrecorded(v, x) /\ acceptedAge[x] <= batchAge[v]
      BY <1>6 DEF ResendSafe, AcceptanceKnown
    <2>2. Unrecorded(v, x)'
      BY <1>1, <1>2, <2>1 DEF Unrecorded
    <2>3. phase[v] = "work"
      BY <2>1 DEF Unrecorded, OpenIsWorking, Open, InHand, Working, Outcome
    <2>4. QED
      BY <1>3, <1>4, <1>5, <1>6, <2>1, <2>2, <2>3 DEF AcceptanceKnown
  <1>7. ASSUME copies[x] > 0, DOMAIN attempts[x] # {} PROVE AcceptedInWindow(x)'
    <2>1. firstAge'[x] = AtMost(firstAge[x] + 1, WindowTicks)
      BY <1>7 DEF Tick
    <2>2. firstAge[x] \in 0 .. WindowTicks
      BY DEF TypeOK
    <2>3. AcceptedInWindow(x)
      BY <1>7 DEF ResendSafe
    <2>4. QED
      BY <1>4, <1>7, <2>1, <2>2, <2>3, ConstantsAssumption DEF AcceptedInWindow, AtMost
  <1>8. ASSUME copies[x] > 0, NEW v \in Worker, Trying(v, x)'
        PROVE  acceptedAge'[x] <= WindowTicks - 1 + BatchTicks + batchAge'[v]
    <2>1. Trying(v, x)
      BY <1>2, <1>8 DEF Trying
    <2>2. phase[v] = "work"
      BY <2>1 DEF Trying, OpenIsWorking, Open, InHand, Working, Verdict
    <2>3. acceptedAge[x] <= WindowTicks - 1 + BatchTicks + batchAge[v]
      BY <1>8, <2>1 DEF ResendSafe, AttemptsInTime
    <2>4. QED
      BY <1>3, <1>4, <1>5, <1>8, <2>2, <2>3, ConstantsAssumption
  <1>9. copies[x] > 0 => AttemptsInTime(x)'
    BY <1>8 DEF AttemptsInTime
  <1>10. QED
    BY <1>1, <1>6, <1>7, <1>9 DEF ResendSafe

\* What is open is at a batch, whatever the step.
LEMMA WorkingStep ==
    ASSUME TypeOK, OpenIsWorking, [Next]_vars
    PROVE  OpenIsWorking'
  <1> USE DEF settingVars, eventVars, attemptVars, rowVars, workerVars, requestVars, providerVars, lossVars
  <1> SUFFICES ASSUME NEW v \in Worker, NEW x \in Delivery, Open(v, x)'
               PROVE  phase'[v] = "work"
    BY DEF OpenIsWorking
  <1>1. ASSUME Open(v, x), phase'[v] = phase[v] PROVE phase'[v] = "work"
    BY <1>1 DEF OpenIsWorking
  <1>2. CASE UNCHANGED <<task, phase>>
    BY <1>1, <1>2 DEF Open, InHand
  <1>3. ASSUME NEW w \in Worker, UNCHANGED task, phase[w] # "work",
               \A u \in Worker : u # w => phase'[u] = phase[u]
        PROVE  phase'[v] = "work"
    <2>1. Open(v, x)
      BY <1>3 DEF Open, InHand
    <2>2. v # w
      BY <1>3, <2>1 DEF OpenIsWorking
    <2>3. QED
      BY <1>1, <1>3, <2>1, <2>2
  <1>4. ASSUME NEW w \in Worker, NEW d \in Delivery, NEW t, SetTask(w, d, t), Open(w, d),
               UNCHANGED phase
        PROVE  phase'[v] = "work"
    <2>1. Open(v, x)
      BY <1>4 DEF SetTask, Open, InHand, TypeOK
    <2>2. QED
      BY <1>1, <1>4, <2>1
  <1>5. ASSUME NEW w \in Worker, task' = [task EXCEPT ![w] = IdleTasks],
               \A u \in Worker : u # w => phase'[u] = phase[u]
        PROVE  phase'[v] = "work"
    <2>1. v # w /\ Open(v, x)
      BY <1>5 DEF IdleTasks, Task, Open, InHand, Working, Verdict, Outcome, TypeOK
    <2>2. QED
      BY <1>1, <1>5, <2>1
  <1>6. ASSUME NEW w \in Worker, NEW c \in Channel, BeginBatch(w, c) PROVE phase'[v] = "work"
    BY <1>3, <1>6 DEF BeginBatch, TypeOK
  <1>7. ASSUME NEW w \in Worker, EndSkippedBatch(w) \/ EndBatch(w) PROVE phase'[v] = "work"
    BY <1>3, <1>7 DEF EndSkippedBatch, EndBatch, TypeOK
  <1>8. ASSUME NEW w \in Worker, FinishDeliveries(w) \/ LoseMemory(w) PROVE phase'[v] = "work"
    BY <1>5, <1>8 DEF FinishDeliveries, LoseMemory, TypeOK
  <1>9. ASSUME NEW w \in Worker, ClaimDeliveries(w) PROVE phase'[v] = "work"
    <2>1. CASE v = w
      BY <1>9, <2>1 DEF ClaimDeliveries, TypeOK
    <2>2. CASE v # w
      BY <1>1, <1>9, <2>2 DEF ClaimDeliveries, Open, InHand, TypeOK
    <2>3. QED
      BY <2>1, <2>2
  <1>10. ASSUME NEW w \in Worker, NEW d \in Delivery, DeliveryStep(w, d) PROVE phase'[v] = "work"
    <2>1. Open(w, d) /\ UNCHANGED phase
      BY <1>10
      DEF DeliveryStep, LoadDelivery, Requeue, AttemptConflict, SkipDelivery, GiveUp, StartSending,
          CallProvider, RecordOutcome, Open, InHand, Working, Verdict
    <2>2. \E t : SetTask(w, d, t)
      BY <1>10
      DEF DeliveryStep, LoadDelivery, Requeue, AttemptConflict, SkipDelivery, GiveUp, StartSending,
          CallProvider, RecordOutcome, EndTask, MoveTask
    <2>3. QED
      BY <1>4, <2>1, <2>2
  <1>11. ASSUME Tick PROVE phase'[v] = "work"
    BY <1>1, <1>11 DEF Tick, Task, Open, InHand
  <1>12. ASSUME NEW w \in Worker, WorkerStep(w) PROVE phase'[v] = "work"
    BY <1>2, <1>6, <1>7, <1>8, <1>9, <1>10, <1>12
    DEF WorkerStep, ExpandEvent, ReadStatuses, WriteEventStatus, ExitOnError
  <1>13. CASE Environment
    BY <1>2, <1>8, <1>13
    DEF Environment, Crash, ReadForRetry, QueueRetry, SwitchChannel, ChangeAttemptLimit,
        ChangeMember
  <1>14. CASE UNCHANGED vars
    BY <1>2, <1>14 DEF vars
  <1>15. QED
    BY <1>11, <1>12, <1>13, <1>14 DEF Next

\* A step of d leaves every other delivery as it is.
LEMMA OthersKeep ==
    ASSUME TypeOK, NEW w \in Worker, NEW d \in Delivery, DeliveryStep(w, d),
           NEW x \in Delivery, x # d
    PROVE  Keeps(x)
  <1> USE DEF attemptVars, providerVars
  <1>1. \A v \in Worker : task'[v][x] = task[v][x]
    <2>1. PICK t : SetTask(w, d, t)
      BY DEF DeliveryStep, LoadDelivery, Requeue, AttemptConflict, SkipDelivery, GiveUp,
             StartSending, CallProvider, RecordOutcome, EndTask, MoveTask
    <2>2. QED
      BY <2>1 DEF SetTask, TypeOK
  <1>2. UNCHANGED batchAge
    BY DEF DeliveryStep, LoadDelivery, Requeue, AttemptConflict, SkipDelivery, GiveUp,
           StartSending, CallProvider, RecordOutcome
  <1>3. copies'[x] = copies[x] /\ acceptedAge'[x] = acceptedAge[x]
    <2>1. CASE CallProvider(w, d)
      BY <2>1 DEF CallProvider, Accept, TypeOK
    <2>2. CASE ~CallProvider(w, d)
      BY <2>2
      DEF DeliveryStep, LoadDelivery, Requeue, AttemptConflict, SkipDelivery, GiveUp,
          StartSending, RecordOutcome
    <2>3. QED
      BY <2>1, <2>2
  <1>4. attempts'[x] = attempts[x] /\ firstAge'[x] = firstAge[x]
    <2>1. ASSUME NEW outcome, InsertAttempt(w, d, outcome)
          PROVE  attempts'[x] = attempts[x] /\ firstAge'[x] = firstAge[x]
      BY <2>1 DEF InsertAttempt, TypeOK
    <2>2. QED
      BY <2>1
      DEF DeliveryStep, LoadDelivery, Requeue, AttemptConflict, SkipDelivery, GiveUp,
          StartSending, CallProvider, RecordOutcome
  <1>5. QED
    BY <1>1, <1>2, <1>3, <1>4 DEF Keeps, Forgets, Begins, Unrecorded, Trying

\* A step of x itself keeps it safe: an answer is recorded by its worker, which
\* begins an attempt only inside the window.
LEMMA OwnStepKeeps ==
    ASSUME TypeOK, TypeOK', NEW x \in Delivery, ResendSafe(x),
           NEW w \in Worker, DeliveryStep(w, x)
    PROVE  ResendSafe(x)'
  <1> USE DEF attemptVars, providerVars
  <1>1. ASSUME NEW t, SetTask(w, x, t), ~Unrecorded(w, x),
               t.pc \in {"try", "sending"} => Trying(w, x) \/ ~WindowClosed(x),
               UNCHANGED <<copies, acceptedAge, attempts, firstAge, batchAge>>
        PROVE  ResendSafe(x)'
    <2>1. \A v \in Worker : v # w => task'[v] = task[v]
      BY <1>1 DEF SetTask, TypeOK
    <2>2. task'[w][x] = t
      BY <1>1 DEF SetTask, TypeOK
    <2>3. ~Forgets(x)
      BY <1>1, <2>1 DEF Forgets, Unrecorded
    <2>4. \A v \in Worker : Begins(v, x) => ~WindowClosed(x)
      BY <1>1, <2>1, <2>2 DEF Begins, Trying
    <2>5. Keeps(x)
      BY <1>1, <2>3, <2>4 DEF Keeps
    <2>6. QED
      BY <2>5, KeepsStep
  <1>2. CASE LoadDelivery(w, x)
    <2>1. ~Unrecorded(w, x)
      BY <1>2 DEF LoadDelivery, Unrecorded
    <2>2. CASE HoldsLease(w, x)
      <3>1. SetTask(w, x, Task(VerdictOn(w, x), attemptCount[x], 0))
        BY <1>2, <2>2 DEF LoadDelivery
      <3>2. VerdictOn(w, x) = "try" => ~WindowClosed(x)
        BY DEF VerdictOn
      <3>3. VerdictOn(w, x) # "sending"
        BY DEF VerdictOn
      <3>4. QED
        BY <1>1, <1>2, <2>1, <3>1, <3>2, <3>3 DEF LoadDelivery, Task
    <2>3. CASE ~HoldsLease(w, x)
      BY <1>1, <1>2, <2>1, <2>3 DEF LoadDelivery, EndTask, Task
    <2>4. QED
      BY <2>2, <2>3
  <1>3. CASE Requeue(w, x)
    BY <1>1, <1>3 DEF Requeue, EndTask, Task, Unrecorded, Verdict
  <1>4. CASE AttemptConflict(w, x)
    <2>1. ~Unrecorded(w, x)
      BY <1>4 DEF AttemptConflict, AttemptTaken, Unrecorded
    <2>2. QED
      BY <1>1, <1>4, <2>1 DEF AttemptConflict, MoveTask, Task
  <1>5. CASE SkipDelivery(w, x)
    BY <1>5, RecordKeeps DEF SkipDelivery
  <1>6. CASE GiveUp(w, x)
    BY <1>1, <1>6 DEF GiveUp, EndTask, Task, Unrecorded
  <1>7. CASE StartSending(w, x)
    BY <1>1, <1>7 DEF StartSending, MoveTask, Task, Trying, Unrecorded
  <1>8. CASE CallProvider(w, x)
    BY <1>8, ProviderKeeps
  <1>9. CASE RecordOutcome(w, x)
    BY <1>9, RecordKeeps DEF RecordOutcome
  <1>10. QED
    BY <1>2, <1>3, <1>4, <1>5, <1>6, <1>7, <1>8, <1>9 DEF DeliveryStep

\* Every step keeps every delivery safe that it does not lose.
LEMMA ResendStep ==
    ASSUME ResendInv, [Next]_vars
    PROVE  ResendInv'
  <1> USE DEF settingVars, eventVars, attemptVars, rowVars, workerVars, requestVars, providerVars, lossVars
  <1>0. TypeOK /\ TypeOK' /\ OpenIsWorking /\ OpenIsWorking'
    BY TypeStep, WorkingStep DEF ResendInv
  <1>1. SUFFICES ASSUME NEW x \in Delivery, x \notin lost'
                 PROVE  ResendSafe(x)'
    BY <1>0 DEF ResendInv
  <1>2. ASSUME x \notin lost, Keeps(x) PROVE ResendSafe(x)'
    BY <1>0, <1>2, KeepsStep DEF ResendInv
  <1>3. ASSUME x \notin lost, UNCHANGED <<copies, acceptedAge, attempts, firstAge, task, batchAge>>
        PROVE  ResendSafe(x)'
    BY <1>2, <1>3 DEF Keeps, Forgets, Begins, Unrecorded, Trying
  <1>4. ASSUME NEW w \in Worker, x \notin lost, \A d \in Delivery : ~Unrecorded(w, d),
               UNCHANGED <<copies, acceptedAge, attempts, firstAge>>,
               \A d \in Delivery : task'[w][d].pc \in {"idle", "claimed"},
               \A v \in Worker : v # w => task'[v] = task[v] /\ batchAge'[v] = batchAge[v]
        PROVE  ResendSafe(x)'
    <2>1. ~Forgets(x)
      BY <1>4 DEF Forgets, Unrecorded
    <2>2. \A v \in Worker : ~Begins(v, x)
      BY <1>4 DEF Begins, Trying
    <2>3. QED
      BY <1>2, <1>4, <2>1, <2>2 DEF Keeps
  <1>5. ASSUME NEW w \in Worker, ClaimDeliveries(w) PROVE ResendSafe(x)'
    <2>1. \A d \in Delivery : ~Unrecorded(w, d)
      BY <1>0, <1>5 DEF ClaimDeliveries, OpenIsWorking, Open, InHand, Working, Outcome, Unrecorded
    <2>2. \A d \in Delivery : task'[w][d].pc \in {"idle", "claimed"}
      BY <1>0, <1>5 DEF ClaimDeliveries, Task, TypeOK
    <2>3. \A v \in Worker : v # w => task'[v] = task[v] /\ batchAge'[v] = batchAge[v]
      BY <1>0, <1>5 DEF ClaimDeliveries, TypeOK
    <2>4. QED
      BY <1>1, <1>4, <1>5, <2>1, <2>2, <2>3 DEF ClaimDeliveries
  <1>6. ASSUME NEW w \in Worker, FinishDeliveries(w) PROVE ResendSafe(x)'
    <2>1. \A d \in Delivery : ~Unrecorded(w, d)
      BY <1>6 DEF FinishDeliveries, Unrecorded
    <2>2. \A d \in Delivery : task'[w][d].pc \in {"idle", "claimed"}
      BY <1>0, <1>6 DEF FinishDeliveries, IdleTasks, Task, TypeOK
    <2>3. \A v \in Worker : v # w => task'[v] = task[v] /\ batchAge'[v] = batchAge[v]
      BY <1>0, <1>6 DEF FinishDeliveries, TypeOK
    <2>4. QED
      BY <1>1, <1>4, <1>6, <2>1, <2>2, <2>3 DEF FinishDeliveries
  <1>7. ASSUME NEW w \in Worker, LoseMemory(w) PROVE ResendSafe(x)'
    <2>1. x \notin lost /\ ~Unrecorded(w, x)
      BY <1>1, <1>7 DEF LoseMemory
    <2>2. task'[w][x].pc = "idle"
      BY <1>0, <1>7 DEF LoseMemory, IdleTasks, Task, TypeOK
    <2>3. \A v \in Worker : v # w => task'[v] = task[v] /\ batchAge'[v] = batchAge[v]
      BY <1>0, <1>7 DEF LoseMemory, TypeOK
    <2>4. ~Forgets(x)
      BY <1>7, <2>1, <2>3 DEF LoseMemory, Forgets, Unrecorded
    <2>5. \A v \in Worker : ~Begins(v, x)
      BY <2>2, <2>3 DEF Begins, Trying
    <2>6. QED
      BY <1>2, <1>7, <2>1, <2>4, <2>5 DEF LoseMemory, Keeps
  <1>8. ASSUME NEW w \in Worker, NEW d \in Delivery, DeliveryStep(w, d) PROVE ResendSafe(x)'
    <2>1. x \notin lost
      BY <1>1, <1>8
      DEF DeliveryStep, LoadDelivery, Requeue, AttemptConflict, SkipDelivery, GiveUp,
          StartSending, CallProvider, RecordOutcome
    <2>2. CASE x = d
      BY <1>0, <1>8, <2>1, <2>2, OwnStepKeeps DEF ResendInv
    <2>3. CASE x # d
      BY <1>0, <1>2, <1>8, <2>1, <2>3, OthersKeep
    <2>4. QED
      BY <2>2, <2>3
  <1>9. ASSUME NEW w \in Worker, WorkerStep(w) PROVE ResendSafe(x)'
    BY <1>1, <1>3, <1>5, <1>6, <1>7, <1>8, <1>9
    DEF WorkerStep, BeginBatch, ExpandEvent, ReadStatuses, WriteEventStatus, EndSkippedBatch,
        EndBatch, ExitOnError
  <1>10. CASE Environment
    BY <1>1, <1>3, <1>7, <1>10
    DEF Environment, Crash, ReadForRetry, QueueRetry, SwitchChannel, ChangeAttemptLimit,
        ChangeMember
  <1>11. CASE Tick
    BY <1>0, <1>1, <1>11, TickKeeps DEF ResendInv, Tick
  <1>12. CASE UNCHANGED vars
    BY <1>1, <1>3, <1>12 DEF vars
  <1>13. QED
    BY <1>9, <1>10, <1>11, <1>12 DEF Next

\* However many workers take over each other's leases, whatever answers are
\* lost and whatever operators retry: a message the provider took is sent again
\* only while the acceptance is younger than the retry window and two batches,
\* which is how long the provider must recognise its key for a member to get
\* one copy.  Only a worker that takes its unrecorded first attempt with it can
\* cause a later one.
THEOREM ResendsEndInTimeCorrect == Spec => []ResendsEndInTime
  <1>1. ResendInv => ResendsEndInTime
    <2> SUFFICES ASSUME ResendInv, NEW d \in Delivery \ lost, NEW w \in Worker, Trying(w, d),
                        copies[d] > 0
                 PROVE  acceptedAge[d] < WindowTicks + 2 * BatchTicks
      BY DEF ResendsEndInTime
    <2>1. acceptedAge[d] <= WindowTicks - 1 + BatchTicks + batchAge[w]
      BY DEF ResendInv, ResendSafe, AttemptsInTime
    <2>2. acceptedAge[d] \in Nat /\ batchAge[w] \in 0 .. BatchTicks
      BY AgeCapType DEF ResendInv, TypeOK
    <2>3. QED
      BY <2>1, <2>2, ConstantsAssumption
  <1>2. ResendInv /\ [Next]_vars => ResendInv'
    BY ResendStep
  <1>3. QED
    BY <1>1, <1>2, ResendInit, PTL DEF Spec
=============================================================================

------------------------ MODULE NotificationDelivery ------------------------
(***************************************************************************)
(* The notification outbox of the worker process                           *)
(* (apps/worker/src/notification-runner.ts) together with the operators'   *)
(* retry request (apps/api/src/notifications.controller.ts).               *)
(*                                                                         *)
(* A publication leaves one row in notification_events.  A worker expands  *)
(* the event, once per channel, into one delivery row per recipient, then  *)
(* claims due rows under a lease, re-reads each of them, calls the         *)
(* provider and records the attempt.  Several worker processes may run, a  *)
(* worker may die between any two steps, and an operator may send a FAILED *)
(* delivery back to the queue.                                             *)
(*                                                                         *)
(* A step is one database transaction or one provider call.  Time is kept  *)
(* as ages in ticks, each capped where the code stops telling values       *)
(* apart, so time itself is unbounded.  The lease token is the worker: a   *)
(* worker has one batch at a time, and whatever it held under an earlier   *)
(* token is gone from its memory when it draws the next one.               *)
(***************************************************************************)
EXTENDS Naturals, FiniteSets

CONSTANTS
    Worker,         \* worker processes
    Admin,          \* operators' retry requests
    Event,          \* rows of notification_events
    User,           \* members
    Channel,        \* "LINE", "EMAIL"
    OffTransport,   \* channels whose transport the deployment switches off
    Addressee,      \* Event -> SUBSET User: the one member of a billing or
                    \* support event, {} for an event sent to all who may read it
    AttemptLimits,  \* values the setting notificationMaxAttempts may take
    BaseDelay,      \* notificationBaseDelaySeconds, in ticks
    StaleTicks,     \* age at which a lease may be taken over (5 minutes)
    WindowTicks,    \* the retry window (24 hours)
    KeyTicks,       \* how long the provider remembers a retry key
    BatchTicks,     \* the longest a live worker takes for a claimed batch
    MaxManual,      \* bound: operators' retries of one delivery
    MaxCrashes,     \* bound: worker crashes in a behaviour
    None            \* the null of lease tokens, requests and views

\* No guard and no property tells ages of an acceptance apart beyond these.
AgeCap ==
    LET end == WindowTicks + 2 * BatchTicks IN IF KeyTicks > end THEN KeyTicks ELSE end

Delivery == Event \X User \X Channel
EventOf(d)   == d[1]
UserOf(d)    == d[2]
ChannelOf(d) == d[3]

Outcome  == {"SENT", "TRANSIENT_FAILURE", "PERMANENT_FAILURE"}
Recorded == Outcome \cup {"SKIPPED"}
Final    == {"SENT", "FAILED", "SKIPPED"}
Status   == Final \cup {"QUEUED", "SENDING"}
EventStatus == Status \cup {"RETRIED"}

\* What a worker found when it re-read a claimed delivery.
Verdict == {"skip", "limit", "expire", "try"}
\* From the re-read of the row until its attempt is recorded.
Working == Verdict \cup {"sending"} \cup Outcome
TaskPC  == {"idle", "claimed", "done", "error"} \cup Working

ASSUME ConstantsAssumption ==
    /\ Addressee \in [Event -> SUBSET User]
    /\ OffTransport \subseteq Channel
    /\ AttemptLimits \subseteq Nat \ {0} /\ AttemptLimits # {}
    /\ BaseDelay \in Nat \ {0}
    /\ StaleTicks \in Nat \ {0} /\ WindowTicks \in Nat \ {0}
    /\ KeyTicks \in Nat /\ BatchTicks \in Nat
    /\ MaxManual \in Nat /\ MaxCrashes \in Nat
    /\ None \notin Worker /\ None \notin Event \X User \X Channel
    /\ None \notin [event : Event, status : EventStatus]

VARIABLES
    (* settings and members *)
    enabled,        \* Channel -> the channel's notification switch
    maxAttempts,    \* the setting notificationMaxAttempts
    reachable,      \* User \X Channel -> may the member be notified there now
    (* notification_events *)
    expanded,       \* Event -> channels with expandedAt / emailExpandedAt set
    eventStatus,
    (* notification_deliveries *)
    status,         \* Delivery -> Status, or "NONE" where there is no row
    attemptCount, forceAttempt, manualRetryCount,
    lease,          \* leaseToken
    lockAge,        \* age of lockedAt
    wait,           \* ticks until nextAttemptAt
    (* notification_attempts *)
    attempts,       \* Delivery -> (attemptNumber -> Recorded)
    firstAge,       \* age of the first attempt's startedAt
    (* memory of the workers and of the operators' requests *)
    phase, channel, limit, todo, touched, view, batchAge, task,
    request,
    raced,          \* deliveries two operators were about to send back at once
    (* the provider *)
    copies,         \* Delivery -> messages handed to the member, up to 2
    acceptedAge,    \* age of the first message the provider took
    (* what was lost with a worker *)
    crashes,
    lost            \* deliveries whose first attempt a worker took with it,
                    \* answered by the provider and not recorded

settingVars  == <<enabled, maxAttempts, reachable>>
eventVars    == <<expanded, eventStatus>>
attemptVars  == <<attempts, firstAge>>
rowVars      == <<status, attemptCount, forceAttempt, manualRetryCount, lease, lockAge, wait>>
workerVars   == <<phase, channel, limit, todo, touched, view, batchAge, task>>
requestVars  == <<request, raced>>
providerVars == <<copies, acceptedAge>>
lossVars     == <<crashes, lost>>
vars == <<settingVars, eventVars, rowVars, attemptVars, workerVars, requestVars,
          providerVars, lossVars>>

Task(pc, count, age) == [pc |-> pc, count |-> count, age |-> age]
TaskType == [pc : TaskPC, count : Nat, age : 0 .. WindowTicks]
IdleTasks == [d \in Delivery |-> Task("idle", 0, 0)]

Init ==
    /\ enabled \in [Channel -> BOOLEAN] /\ \A c \in OffTransport : enabled[c]
    /\ maxAttempts \in AttemptLimits
    /\ reachable \in [User \X Channel -> BOOLEAN]
    /\ \A u \in User, c \in OffTransport : reachable[<<u, c>>]
    /\ expanded = [e \in Event |-> {}]
    /\ eventStatus = [e \in Event |-> "QUEUED"]
    /\ status = [d \in Delivery |-> "NONE"]
    /\ attemptCount = [d \in Delivery |-> 0]
    /\ forceAttempt = [d \in Delivery |-> FALSE]
    /\ manualRetryCount = [d \in Delivery |-> 0]
    /\ lease = [d \in Delivery |-> None]
    /\ lockAge = [d \in Delivery |-> 0]
    /\ wait = [d \in Delivery |-> 0]
    /\ attempts = [d \in Delivery |-> [n \in {} |-> "SKIPPED"]]
    /\ firstAge = [d \in Delivery |-> 0]
    /\ phase = [w \in Worker |-> "idle"]
    /\ channel \in [Worker -> Channel]
    /\ limit = [w \in Worker |-> 0]
    /\ todo = [w \in Worker |-> {}]
    /\ touched = [w \in Worker |-> {}]
    /\ view = [w \in Worker |-> None]
    /\ batchAge = [w \in Worker |-> 0]
    /\ task = [w \in Worker |-> IdleTasks]
    /\ request = [a \in Admin |-> None] /\ raced = {}
    /\ copies = [d \in Delivery |-> 0]
    /\ acceptedAge = [d \in Delivery |-> 0]
    /\ crashes = 0 /\ lost = {}
-----------------------------------------------------------------------------
(***************************************************************************)
(* Helpers.                                                                *)
(***************************************************************************)
AtMost(n, cap) == IF n < cap THEN n ELSE cap

\* retryDelayMs: doubling from the base delay; its cap of 86400 seconds is
\* the retry window.
RetryDelay(n) == AtMost(BaseDelay * 2 ^ (n - 1), WindowTicks)

\* The members a new event goes to (notificationRecipientWhere, or the one
\* member a billing or support event belongs to).
Recipients(e, c) ==
    IF c \in OffTransport THEN {}
    ELSE IF Addressee[e] # {} THEN Addressee[e]
    ELSE {u \in User : reachable[<<u, c>>]}

\* refreshEventStatus' summary of an event's deliveries.
Summary(e) ==
    LET rows == {d \in Delivery : EventOf(d) = e /\ status[d] # "NONE"}
        Has(s) == \E d \in rows : status[d] = s
    IN  IF rows = {} THEN "SKIPPED"
        ELSE IF Has("SENDING") THEN "SENDING"
        ELSE IF Has("QUEUED")
             THEN IF \E d \in rows : status[d] = "QUEUED" /\ attemptCount[d] > 0
                  THEN "RETRIED" ELSE "QUEUED"
        ELSE IF Has("FAILED") THEN "FAILED"
        ELSE IF Has("SENT") THEN "SENT"
        ELSE "SKIPPED"

\* Faulty variant: a lease is never taken over.
ClaimableNeverStale(d) == status[d] = "QUEUED" /\ wait[d] = 0

\* Faulty variant: a lease may be taken over at any age.
ClaimableAtAnyAge(d) == status[d] = "SENDING" \/ (status[d] = "QUEUED" /\ wait[d] = 0)

\* claimDeliveries' condition on a row.
Claimable(d) ==
    \/ status[d] = "QUEUED" /\ wait[d] = 0
    \/ status[d] = "SENDING" /\ lockAge[d] >= StaleTicks

\* Faulty variant: the table has no unique key.
AttemptNeverTaken(d, n) == FALSE

\* The unique key (deliveryId, attemptNumber).
AttemptTaken(d, n) == n \in DOMAIN attempts[d]

\* Faulty variant: retries know no window.
WindowNeverClosed(d) == FALSE

\* "startedAt - firstAttemptAt >= 24h" for an attempt starting now.
WindowClosed(d) == DOMAIN attempts[d] # {} /\ firstAge[d] >= WindowTicks

\* Age of firstAttemptAt: the first recorded attempt, or the one in hand.
FirstAge(w, d) == IF DOMAIN attempts[d] = {} THEN task[w][d].age ELSE firstAge[d]

\* Does the provider still recognise the delivery's retry key?
KeyKnown(d) == copies[d] > 0 /\ acceptedAge[d] < KeyTicks

\* The worker is between the re-read and the recording of the attempt.
InHand(w, d) == task[w][d].pc \in Working

\* The worker is about to call the provider, or is calling it.
Trying(w, d) == task[w][d].pc \in {"try", "sending"}

\* The worker's lease is still on the row.
HoldsLease(w, d) == status[d] = "SENDING" /\ lease[d] = w

\* Row columns that every write ending an attempt clears.
Unlock(d) ==
    /\ lease' = [lease EXCEPT ![d] = None]
    /\ lockAge' = [lockAge EXCEPT ![d] = 0]

SetTask(w, d, t)   == task' = [task EXCEPT ![w] = [@ EXCEPT ![d] = t]]
MoveTask(w, d, pc) == SetTask(w, d, Task(pc, task[w][d].count, task[w][d].age))
EndTask(w, d)      == SetTask(w, d, Task("done", 0, 0))

\* notificationAttempt.create, numbered after the count the worker read.
InsertAttempt(w, d, outcome) ==
    LET n == task[w][d].count + 1
    IN  /\ attempts' = [attempts EXCEPT ![d] =
                            [m \in DOMAIN attempts[d] \cup {n} |->
                                IF m = n THEN outcome ELSE attempts[d][m]]]
        /\ firstAge' = [firstAge EXCEPT ![d] = FirstAge(w, d)]
        /\ attemptCount' = [attemptCount EXCEPT ![d] = n]

-----------------------------------------------------------------------------
(***************************************************************************)
(* A worker's batch on one channel.                                        *)
(***************************************************************************)

\* A batch starts when its channel is switched on; with the transport off,
\* the worker only marks pending events as handled.
BeginBatch(w, c) ==
    /\ phase[w] = "idle"
    /\ c \in OffTransport \/ enabled[c]
    /\ phase' = [phase EXCEPT ![w] = "expand"]
    /\ channel' = [channel EXCEPT ![w] = c]
    /\ limit' = [limit EXCEPT ![w] = maxAttempts]
    /\ todo' = [todo EXCEPT ![w] = {e \in Event : c \notin expanded[e]}]
    /\ UNCHANGED <<touched, view, batchAge, task>>
    /\ UNCHANGED <<settingVars, eventVars, rowVars, attemptVars, requestVars, providerVars, lossVars>>

\* One event of expandEvents: the marker is checked again under the row lock,
\* the deliveries and the marker are written in one transaction.  The status
\* refresh that follows is a transaction of its own.
ExpandEvent(w, e) ==
    LET c == channel[w]
        new == {d \in Delivery : /\ EventOf(d) = e /\ ChannelOf(d) = c
                                 /\ UserOf(d) \in Recipients(e, c)
                                 /\ status[d] = "NONE"}
    IN  /\ phase[w] = "expand" /\ touched[w] = {}
        /\ e \in todo[w]
        /\ todo' = [todo EXCEPT ![w] = @ \ {e}]
        /\ IF c \notin expanded[e]
           THEN /\ expanded' = [expanded EXCEPT ![e] = @ \cup {c}]
                /\ status' = [d \in Delivery |-> IF d \in new THEN "QUEUED" ELSE status[d]]
                /\ touched' = [touched EXCEPT ![w] = {e}]
           ELSE UNCHANGED <<expanded, status, touched>>
        /\ UNCHANGED <<phase, channel, limit, view, batchAge, task>>
        /\ UNCHANGED <<eventStatus, attemptCount, forceAttempt, manualRetryCount, lease, lockAge, wait>>
        /\ UNCHANGED <<settingVars, attemptVars, requestVars, providerVars, lossVars>>

\* refreshEventStatus reads the deliveries ...
ReadStatuses(w, e) ==
    /\ phase[w] \in {"expand", "refresh"}
    /\ e \in touched[w] /\ view[w] = None
    /\ view' = [view EXCEPT ![w] = [event |-> e, status |-> Summary(e)]]
    /\ UNCHANGED <<phase, channel, limit, todo, touched, batchAge, task>>
    /\ UNCHANGED <<settingVars, eventVars, rowVars, attemptVars, requestVars, providerVars, lossVars>>

\* ... and writes the summary it computed, whatever happened since.
WriteEventStatus(w) ==
    /\ view[w] # None
    /\ eventStatus' = [eventStatus EXCEPT ![view[w].event] = view[w].status]
    /\ touched' = [touched EXCEPT ![w] = @ \ {view[w].event}]
    /\ view' = [view EXCEPT ![w] = None]
    /\ UNCHANGED <<phase, channel, limit, todo, batchAge, task>>
    /\ UNCHANGED <<expanded, settingVars, rowVars, attemptVars, requestVars, providerVars, lossVars>>

\* claimDeliveries: every due row and every row under a stale lease, in one
\* transaction.  A batch (50 rows) is larger than the instance.
ClaimDeliveries(w) ==
    LET claim == {d \in Delivery : ChannelOf(d) = channel[w] /\ Claimable(d)}
    IN  /\ phase[w] = "expand" /\ todo[w] = {} /\ touched[w] = {}
        /\ channel[w] \notin OffTransport
        /\ status' = [d \in Delivery |-> IF d \in claim THEN "SENDING" ELSE status[d]]
        /\ lease' = [d \in Delivery |-> IF d \in claim THEN w ELSE lease[d]]
        /\ lockAge' = [d \in Delivery |-> IF d \in claim THEN 0 ELSE lockAge[d]]
        /\ task' = [task EXCEPT ![w] = [d \in Delivery |->
                        Task(IF d \in claim THEN "claimed" ELSE "idle", 0, 0)]]
        /\ phase' = [phase EXCEPT ![w] = "work"]
        /\ batchAge' = [batchAge EXCEPT ![w] = 0]
        /\ UNCHANGED <<channel, limit, todo, touched, view>>
        /\ UNCHANGED <<attemptCount, forceAttempt, manualRetryCount, wait>>
        /\ UNCHANGED <<settingVars, eventVars, attemptVars, requestVars, providerVars, lossVars>>

\* With the transport off there is nothing to claim.
EndSkippedBatch(w) ==
    /\ phase[w] = "expand" /\ todo[w] = {} /\ touched[w] = {}
    /\ channel[w] \in OffTransport
    /\ phase' = [phase EXCEPT ![w] = "idle"]
    /\ limit' = [limit EXCEPT ![w] = 0]
    /\ UNCHANGED <<channel, todo, touched, view, batchAge, task>>
    /\ UNCHANGED <<settingVars, eventVars, rowVars, attemptVars, requestVars, providerVars, lossVars>>

\* What the re-read row, its member and its attempts call for.
VerdictOn(w, d) ==
    IF ~reachable[<<UserOf(d), ChannelOf(d)>>] THEN "skip"
    ELSE IF attemptCount[d] >= limit[w] /\ ~forceAttempt[d] THEN "limit"
    ELSE IF WindowClosed(d) THEN "expire"
    ELSE "try"

\* The events whose status the batch refreshes at its end.
TouchedWith(w, d) == touched[w] \cup {EventOf(d)}

\* The re-read under the lease; a row that is no longer the worker's is left.
LoadDelivery(w, d) ==
    /\ task[w][d].pc = "claimed"
    /\ IF HoldsLease(w, d)
       THEN /\ SetTask(w, d, Task(VerdictOn(w, d), attemptCount[d], 0))
            /\ touched' = [touched EXCEPT ![w] = TouchedWith(w, d)]
       ELSE EndTask(w, d) /\ UNCHANGED touched
    /\ UNCHANGED <<phase, channel, limit, todo, view, batchAge>>
    /\ UNCHANGED <<settingVars, eventVars, rowVars, attemptVars, requestVars, providerVars, lossVars>>

\* The channel was switched off meanwhile: the row goes back to the queue, if
\* it is still the worker's.
Requeue(w, d) ==
    /\ task[w][d].pc \in Verdict
    /\ ~enabled[ChannelOf(d)]
    /\ EndTask(w, d)
    /\ IF HoldsLease(w, d)
       THEN status' = [status EXCEPT ![d] = "QUEUED"] /\ Unlock(d)
       ELSE UNCHANGED <<status, lease, lockAge>>
    /\ UNCHANGED <<phase, channel, limit, todo, touched, view, batchAge>>
    /\ UNCHANGED <<attemptCount, forceAttempt, manualRetryCount, wait>>
    /\ UNCHANGED <<settingVars, eventVars, attemptVars, requestVars, providerVars, lossVars>>

\* The transaction of an attempt meets the unique key of attempts: it rolls
\* back and the exception ends the batch.
AttemptConflict(w, d) ==
    /\ \/ task[w][d].pc = "skip" /\ enabled[ChannelOf(d)]
       \/ task[w][d].pc \in Outcome
    /\ AttemptTaken(d, task[w][d].count + 1)
    /\ MoveTask(w, d, "error")
    /\ UNCHANGED <<phase, channel, limit, todo, touched, view, batchAge>>
    /\ UNCHANGED <<settingVars, eventVars, rowVars, attemptVars, requestVars, providerVars, lossVars>>

\* The member may not be notified: a SKIPPED attempt ends the delivery.  The
\* row is written by its id, not under the lease.
SkipDelivery(w, d) ==
    /\ task[w][d].pc = "skip" /\ enabled[ChannelOf(d)]
    /\ ~AttemptTaken(d, task[w][d].count + 1)
    /\ InsertAttempt(w, d, "SKIPPED")
    /\ status' = [status EXCEPT ![d] = "SKIPPED"]
    /\ forceAttempt' = [forceAttempt EXCEPT ![d] = FALSE]
    /\ Unlock(d) /\ EndTask(w, d)
    /\ UNCHANGED <<phase, channel, limit, todo, touched, view, batchAge>>
    /\ UNCHANGED <<manualRetryCount, wait>>
    /\ UNCHANGED <<settingVars, eventVars, requestVars, providerVars, lossVars>>

\* ATTEMPT_LIMIT_REACHED and RETRY_WINDOW_EXPIRED: the delivery fails without
\* an attempt, again written by its id.
GiveUp(w, d) ==
    /\ task[w][d].pc \in {"limit", "expire"} /\ enabled[ChannelOf(d)]
    /\ status' = [status EXCEPT ![d] = "FAILED"]
    /\ forceAttempt' = [forceAttempt EXCEPT ![d] = @ /\ task[w][d].pc = "limit"]
    /\ Unlock(d) /\ EndTask(w, d)
    /\ UNCHANGED <<phase, channel, limit, todo, touched, view, batchAge>>
    /\ UNCHANGED <<attemptCount, manualRetryCount, wait>>
    /\ UNCHANGED <<settingVars, eventVars, attemptVars, requestVars, providerVars, lossVars>>

\* All checks passed: the message is built and the provider call begins.
StartSending(w, d) ==
    /\ task[w][d].pc = "try" /\ enabled[ChannelOf(d)]
    /\ MoveTask(w, d, "sending")
    /\ UNCHANGED <<phase, channel, limit, todo, touched, view, batchAge>>
    /\ UNCHANGED <<settingVars, eventVars, rowVars, attemptVars, requestVars, providerVars, lossVars>>
\* The provider takes the message, unless it recognises the retry key of one
\* it took before.
Accept(d) ==
    IF KeyKnown(d) THEN UNCHANGED providerVars
    ELSE /\ copies' = [copies EXCEPT ![d] = AtMost(@ + 1, 2)]
         /\ acceptedAge' = [acceptedAge EXCEPT ![d] = IF copies[d] = 0 THEN 0 ELSE @]

\* transport.send: accepted; accepted with the answer lost; or refused.
CallProvider(w, d) ==
    /\ task[w][d].pc = "sending"
    /\ \E outcome \in Outcome :
        /\ MoveTask(w, d, outcome)
        /\ \/ outcome # "PERMANENT_FAILURE" /\ Accept(d)
           \/ outcome # "SENT" /\ UNCHANGED providerVars
    /\ UNCHANGED <<phase, channel, limit, todo, touched, view, batchAge>>
    /\ UNCHANGED <<settingVars, eventVars, rowVars, attemptVars, requestVars, lossVars>>

\* Whether a failed attempt is tried again, and in how many ticks.
RetriesAfter(w, d, delay) ==
    /\ task[w][d].pc = "TRANSIENT_FAILURE"
    /\ task[w][d].count + 1 < limit[w]
    /\ delay = RetryDelay(task[w][d].count + 1)
    /\ FirstAge(w, d) + delay < WindowTicks

\* The status a recorded attempt leaves on the row.
StatusAfter(w, d) ==
    IF task[w][d].pc = "SENT" THEN "SENT"
    ELSE IF \E delay \in 1 .. WindowTicks : RetriesAfter(w, d, delay) THEN "QUEUED"
    ELSE "FAILED"

\* The attempt and the row are written in one transaction, the row by its id.
RecordOutcome(w, d) ==
    /\ task[w][d].pc \in Outcome
    /\ ~AttemptTaken(d, task[w][d].count + 1)
    /\ InsertAttempt(w, d, task[w][d].pc)
    /\ status' = [status EXCEPT ![d] = StatusAfter(w, d)]
    /\ forceAttempt' = [forceAttempt EXCEPT ![d] = FALSE]
    /\ \/ /\ ~ \E delay \in 1 .. WindowTicks : RetriesAfter(w, d, delay)
          /\ wait' = [wait EXCEPT ![d] = 0]
       \/ \E delay \in 1 .. WindowTicks :
            RetriesAfter(w, d, delay) /\ wait' = [wait EXCEPT ![d] = delay]
    /\ Unlock(d) /\ EndTask(w, d)
    /\ UNCHANGED <<phase, channel, limit, todo, touched, view, batchAge>>
    /\ UNCHANGED manualRetryCount
    /\ UNCHANGED <<settingVars, eventVars, requestVars, providerVars, lossVars>>

\* All deliveries of the batch are done: the touched events are refreshed.  The
\* settings the batch read are not used again.
FinishDeliveries(w) ==
    /\ phase[w] = "work"
    /\ \A d \in Delivery : task[w][d].pc \in {"idle", "done"}
    /\ phase' = [phase EXCEPT ![w] = "refresh"]
    /\ task' = [task EXCEPT ![w] = IdleTasks]
    /\ batchAge' = [batchAge EXCEPT ![w] = 0]
    /\ limit' = [limit EXCEPT ![w] = 0]
    /\ UNCHANGED <<channel, todo, touched, view>>
    /\ UNCHANGED <<settingVars, eventVars, rowVars, attemptVars, requestVars, providerVars, lossVars>>

EndBatch(w) ==
    /\ phase[w] = "refresh" /\ touched[w] = {}
    /\ phase' = [phase EXCEPT ![w] = "idle"]
    /\ limit' = [limit EXCEPT ![w] = 0]
    /\ UNCHANGED <<channel, todo, touched, view, batchAge, task>>
    /\ UNCHANGED <<settingVars, eventVars, rowVars, attemptVars, requestVars, providerVars, lossVars>>

\* The provider has taken the message, and only this worker's attempt can say so.
Unrecorded(w, d) ==
    /\ task[w][d].pc \in {"SENT", "TRANSIENT_FAILURE"}
    /\ copies[d] > 0 /\ DOMAIN attempts[d] = {}

\* The process ends and is started again: its memory is gone, the database
\* keeps what was committed.
LoseMemory(w) ==
    /\ phase' = [phase EXCEPT ![w] = "idle"]
    /\ todo' = [todo EXCEPT ![w] = {}]
    /\ touched' = [touched EXCEPT ![w] = {}]
    /\ view' = [view EXCEPT ![w] = None]
    /\ batchAge' = [batchAge EXCEPT ![w] = 0]
    /\ task' = [task EXCEPT ![w] = IdleTasks]
    /\ limit' = [limit EXCEPT ![w] = 0]
    /\ lost' = lost \cup {d \in Delivery : Unrecorded(w, d)}
    /\ UNCHANGED channel
    /\ UNCHANGED <<settingVars, eventVars, rowVars, attemptVars, requestVars, providerVars>>

Crash(w) ==
    /\ phase[w] # "idle" /\ crashes < MaxCrashes
    /\ crashes' = crashes + 1
    /\ LoseMemory(w)

\* An exception in one delivery rejects the batch and ends the main loop.
ExitOnError(w) ==
    /\ \E d \in Delivery : task[w][d].pc = "error"
    /\ LoseMemory(w) /\ UNCHANGED crashes

-----------------------------------------------------------------------------
(***************************************************************************)
(* Operators, members and time.                                            *)
(***************************************************************************)

\* Faulty variant: any delivery that has ended may be sent again.
MayRetryAnyEnded(d) == status[d] \in Final /\ ~WindowClosed(d)

\* retry's conditions on the delivery: FAILED and inside the retry window.
MayRetry(d) == status[d] = "FAILED" /\ ~WindowClosed(d)

\* retry reads the delivery ...
ReadForRetry(a, d) ==
    /\ request[a] = None
    /\ MayRetry(d)
    /\ manualRetryCount[d] < MaxManual
    /\ request' = [request EXCEPT ![a] = d]
    /\ raced' = IF \E b \in Admin : request[b] = d THEN raced \cup {d} ELSE raced
    /\ UNCHANGED <<settingVars, eventVars, rowVars, attemptVars, workerVars, providerVars, lossVars>>

\* ... and queues it by its id, whatever the row has become.
QueueRetry(a) ==
    LET d == request[a]
    IN  /\ d # None
        /\ status' = [status EXCEPT ![d] = "QUEUED"]
        /\ forceAttempt' = [forceAttempt EXCEPT ![d] = TRUE]
        /\ manualRetryCount' = [manualRetryCount EXCEPT ![d] = @ + 1]
        /\ wait' = [wait EXCEPT ![d] = 0]
        /\ Unlock(d)
        /\ eventStatus' = [eventStatus EXCEPT ![EventOf(d)] = "RETRIED"]
        /\ request' = [request EXCEPT ![a] = None]
        /\ UNCHANGED <<raced, attemptCount, expanded, settingVars, attemptVars, workerVars, providerVars, lossVars>>

\* Of a channel without a transport neither the switch nor what members prefer
\* is read, so that both stay as they are.
SwitchChannel(c) ==
    /\ c \notin OffTransport
    /\ enabled' = [enabled EXCEPT ![c] = ~@]
    /\ UNCHANGED <<maxAttempts, reachable, eventVars, rowVars, attemptVars, workerVars, requestVars, providerVars, lossVars>>

ChangeAttemptLimit(n) ==
    /\ n # maxAttempts /\ maxAttempts' = n
    /\ UNCHANGED <<enabled, reachable, eventVars, rowVars, attemptVars, workerVars, requestVars, providerVars, lossVars>>

\* A member changes preferences, links or unlinks a channel, is disabled,
\* gains or loses the entitlement.
ChangeMember(u, c) ==
    /\ c \notin OffTransport
    /\ reachable' = [reachable EXCEPT ![<<u, c>>] = ~@]
    /\ UNCHANGED <<enabled, maxAttempts, eventVars, rowVars, attemptVars, workerVars, requestVars, providerVars, lossVars>>

\* One tick.  A live worker is through with its batch within BatchTicks.
Tick ==
    /\ \A w \in Worker : phase[w] = "work" => batchAge[w] < BatchTicks
    /\ batchAge' = [w \in Worker |-> IF phase[w] = "work" THEN batchAge[w] + 1 ELSE 0]
    /\ task' = [w \in Worker |-> [d \in Delivery |->
                    IF InHand(w, d)
                    THEN Task(task[w][d].pc, task[w][d].count, AtMost(task[w][d].age + 1, WindowTicks))
                    ELSE task[w][d]]]
    /\ lockAge' = [d \in Delivery |->
                    IF status[d] = "SENDING" THEN AtMost(lockAge[d] + 1, StaleTicks) ELSE lockAge[d]]
    /\ wait' = [d \in Delivery |-> IF wait[d] > 0 THEN wait[d] - 1 ELSE 0]
    /\ firstAge' = [d \in Delivery |->
                    IF DOMAIN attempts[d] # {} THEN AtMost(firstAge[d] + 1, WindowTicks) ELSE 0]
    /\ acceptedAge' = [d \in Delivery |->
                    IF copies[d] > 0 THEN AtMost(acceptedAge[d] + 1, AgeCap) ELSE 0]
    /\ UNCHANGED <<phase, channel, limit, todo, touched, view>>
    /\ UNCHANGED <<status, attemptCount, forceAttempt, manualRetryCount, lease, attempts, copies>>
    /\ UNCHANGED <<settingVars, eventVars, requestVars, lossVars>>

-----------------------------------------------------------------------------
DeliveryStep(w, d) ==
    \/ LoadDelivery(w, d) \/ Requeue(w, d) \/ AttemptConflict(w, d)
    \/ SkipDelivery(w, d) \/ GiveUp(w, d)
    \/ StartSending(w, d) \/ CallProvider(w, d) \/ RecordOutcome(w, d)

\* What a running worker does of its own accord.
WorkerStep(w) ==
    \/ \E c \in Channel : BeginBatch(w, c)
    \/ \E e \in Event : ExpandEvent(w, e) \/ ReadStatuses(w, e)
    \/ WriteEventStatus(w) \/ ClaimDeliveries(w) \/ EndSkippedBatch(w)
    \/ \E d \in Delivery : DeliveryStep(w, d)
    \/ FinishDeliveries(w) \/ EndBatch(w) \/ ExitOnError(w)

Environment ==
    \/ \E w \in Worker : Crash(w)
    \/ \E a \in Admin : QueueRetry(a) \/ \E d \in Delivery : ReadForRetry(a, d)
    \/ \E c \in Channel : SwitchChannel(c)
    \/ \E n \in AttemptLimits : ChangeAttemptLimit(n)
    \/ \E u \in User, c \in Channel : ChangeMember(u, c)

Next == (\E w \in Worker : WorkerStep(w)) \/ Environment \/ Tick

Spec == Init /\ [][Next]_vars

\* The main loop runs the batches of both channels again and again and is
\* restarted when it ends; time passes.  Nothing else is owed.
FairSpec ==
    /\ Spec
    /\ WF_vars(Tick)
    /\ \A w \in Worker : WF_vars(WorkerStep(w))
    /\ \A w \in Worker, c \in Channel : SF_vars(BeginBatch(w, c))

-----------------------------------------------------------------------------
(***************************************************************************)
(* Properties.                                                             *)
(***************************************************************************)

\* Every variable holds a value of its type: a retry is never scheduled at or
\* past the retry window, and no age passes its cap.
TypeOK ==
    /\ enabled \in [Channel -> BOOLEAN]
    /\ maxAttempts \in AttemptLimits
    /\ reachable \in [User \X Channel -> BOOLEAN]
    /\ expanded \in [Event -> SUBSET Channel]
    /\ eventStatus \in [Event -> EventStatus]
    /\ status \in [Delivery -> Status \cup {"NONE"}]
    /\ attemptCount \in [Delivery -> Nat]
    /\ forceAttempt \in [Delivery -> BOOLEAN]
    /\ manualRetryCount \in [Delivery -> Nat]
    /\ lease \in [Delivery -> Worker \cup {None}]
    /\ lockAge \in [Delivery -> 0 .. StaleTicks]
    /\ wait \in [Delivery -> 0 .. WindowTicks - 1]
    /\ DOMAIN attempts = Delivery
    /\ \A d \in Delivery : attempts[d] \in [DOMAIN attempts[d] -> Recorded]
    /\ firstAge \in [Delivery -> 0 .. WindowTicks]
    /\ phase \in [Worker -> {"idle", "expand", "work", "refresh"}]
    /\ channel \in [Worker -> Channel]
    /\ limit \in [Worker -> Nat]
    /\ todo \in [Worker -> SUBSET Event]
    /\ touched \in [Worker -> SUBSET Event]
    /\ view \in [Worker -> [event : Event, status : EventStatus] \cup {None}]
    /\ batchAge \in [Worker -> 0 .. BatchTicks]
    /\ task \in [Worker -> [Delivery -> TaskType]]
    /\ request \in [Admin -> Delivery \cup {None}]
    /\ raced \subseteq Delivery
    /\ copies \in [Delivery -> 0 .. 2]
    /\ acceptedAge \in [Delivery -> 0 .. AgeCap]
    /\ crashes \in 0 .. MaxCrashes
    /\ lost \subseteq Delivery

\* The attempt history of a delivery is numbered 1, 2, ... without a gap and
\* attemptCount is its length, although the writes that end an attempt are not
\* made under the lease and take the count from an earlier read.
AttemptHistory ==
    \A d \in Delivery : DOMAIN attempts[d] = 1 .. attemptCount[d]

\* A delivery marked SENT was accepted by the provider, and its last attempt
\* says so.
SentIsAccepted ==
    \A d \in Delivery :
        status[d] = "SENT" =>
            /\ copies[d] > 0
            /\ AttemptTaken(d, attemptCount[d]) /\ attempts[d][attemptCount[d]] = "SENT"

\* A member gets one copy of a notification.
AtMostOneCopy == \A d \in Delivery : copies[d] <= 1

\* How long the provider must recognise a retry key: a message it took is sent
\* again only while the acceptance is younger than the retry window and a batch
\* at either end of it, whoever takes over whose lease and whatever answer was
\* lost.  Left out are the deliveries of which a worker took the first,
\* unrecorded attempt with it, as only a recorded attempt opens the window.
ResendsEndInTime ==
    \A d \in Delivery \ lost, w \in Worker :
        Trying(w, d) /\ copies[d] > 0 => acceptedAge[d] < WindowTicks + 2 * BatchTicks

\* Two workers never have the same delivery in hand between the re-read and
\* the recording of the attempt, unless two operators raced to send it back.
SingleSender ==
    \A d \in Delivery \ raced, v, w \in Worker : InHand(v, d) /\ InHand(w, d) => v = w

\* A delivery that was sent stays sent.
SentIsFinal == [][\A d \in Delivery : status[d] = "SENT" => status'[d] = "SENT"]_vars

\* A delivery that was sent stays sent while it is never in the hands of two
\* operators at once, however many of them and however many workers there are.
SentStaysSent ==
    [][\A d \in Delivery \ raced' : status[d] = "SENT" => status'[d] = "SENT"]_vars

\* While its channel stays on, a delivery waiting or being sent is sent, fails
\* or is skipped.
EveryDeliverySettles ==
    (<>[] \A c \in Channel : enabled[c]) =>
        \A d \in Delivery : status[d] \in {"QUEUED", "SENDING"} ~> status[d] \in Final

\* Once an event is expanded on all channels and none of its deliveries is
\* open, the status operators wait for comes to say so.
Ended(e) ==
    /\ expanded[e] = Channel
    /\ \A d \in Delivery : EventOf(d) = e => status[d] \in Final \cup {"NONE"}
EventStatusSettles == \A e \in Event : Ended(e) ~> (eventStatus[e] \in Final \/ ~Ended(e))
=============================================================================

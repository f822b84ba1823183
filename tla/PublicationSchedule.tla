------------------------ MODULE PublicationSchedule ------------------------
(***************************************************************************)
(* The scheduled publications of one race: the announcement of the race    *)
(* and the free report before it.  Staff schedule, cancel and publish by   *)
(* hand (apps/api/src/publication-schedules.controller.ts,                 *)
(* free-reports.controller.ts, races.controller.ts), workers execute what  *)
(* is due (apps/worker/src/publication-scheduler.ts), and administrators   *)
(* suspend staff (staff.controller.ts, admin-continuity.controller.ts).    *)
(*                                                                         *)
(* A transaction that others can interleave with is two steps, what it     *)
(* reads and what it writes when it commits.  The manual operations hold   *)
(* the advisory lock 7262026 between the two, creations a lock of the race *)
(* and kind, executions the schedule's row; cancellations hold a lock that *)
(* only cancellations take.  Repetitions of a request with the same        *)
(* idempotency key return the stored response and are left out.            *)
(***************************************************************************)
EXTENDS Naturals, FiniteSets

CONSTANTS
    Schedule,       \* rows of publication_schedules
    Worker,         \* worker processes
    Request,        \* API requests in flight
    Staff,          \* administrators and operators
    LastTime,       \* bound: time at which the behaviour ends
    LastRevision,   \* bound: saved drafts of the free report
    LastVersion,    \* bound: versions published by hand
    None

Announcement == "RACE_ANNOUNCEMENT"
FreeReport   == "FREE_REPORT_PRE_RACE"
Kind == {Announcement, FreeReport}
Time == 0 .. LastTime
Status == {"NONE", "PENDING", "PUBLISHED", "FAILED", "CANCELLED"}

ASSUME ConstantsAssumption ==
    /\ LastTime \in Nat /\ LastRevision \in Nat /\ LastVersion \in Nat
    /\ IsFiniteSet(Schedule)
    /\ None \notin Schedule

VARIABLES
    schedule,       \* Schedule -> its row
    versions,       \* published announcements and reports, with their events
    draft,          \* revision of the free report's draft, 0 before it is saved
    runnable,       \* are both horses of the draft active entries
    race,           \* its start and whether it is neither FINISHED nor CANCELLED
    active,         \* staff who may manage publications
    now,
    worker,         \* Worker -> what it is doing
    request         \* Request -> its open transaction

vars == <<schedule, versions, draft, runnable, race, active, now, worker, request>>
content == <<draft, runnable, race>>

Row == [status : Status, kind : Kind, revision : 0 .. LastRevision, at : Time,
        creator : Staff \cup {None}]
NoRow == [status |-> "NONE", kind |-> Announcement, revision |-> 0, at |-> 0, creator |-> None]

\* A version with its number, the draft's revision it shows (0 in an
\* announcement) and the schedule that published it.
Version == [kind : Kind, number : Nat \ {0}, revision : 0 .. LastRevision, by : Schedule \cup {None}]

Does(op, about) == [op |-> op, about |-> about]
Idle == Does("idle", None)
WorkerType ==
    {Idle} \cup [op : {"publishing"}, about : {v \in Version : v.by # None}]
           \cup [op : {"failing"}, about : Schedule]
RequestType ==
    {Idle} \cup [op : {"creating"}, about : Row] \cup [op : {"cancelling"}, about : Schedule]
           \cup [op : {"publishing"}, about : Version] \cup [op : {"suspending"}, about : Staff]

Init ==
    /\ schedule = [s \in Schedule |-> NoRow]
    /\ versions = {}
    /\ draft = 0
    /\ runnable = TRUE
    /\ race = [startsAt |-> LastTime, open |-> TRUE]
    /\ active = Staff
    /\ now = 0
    /\ worker = [w \in Worker |-> Idle]
    /\ request = [q \in Request |-> Idle]

-----------------------------------------------------------------------------
(***************************************************************************)
(* Helpers.                                                                *)
(***************************************************************************)
PendingOf(staff) == {s \in Schedule : schedule[s].status = "PENDING" /\ schedule[s].creator = staff}
WithStatus(s, status) == [schedule EXCEPT ![s].status = status]
Holds(q, transaction) == request' = [request EXCEPT ![q] = transaction]
Works(w, transaction) == worker' = [worker EXCEPT ![w] = transaction]

\* No execution holds the row's lock.
RowFree(s) == \A w \in Worker : worker[w].op = "publishing" => worker[w].about.by # s

\* The advisory lock 7262026 is free.
OperationsFree == \A q \in Request : request[q].op \notin {"publishing", "suspending"}

Numbers(k) == {v.number : v \in {v \in versions : v.kind = k}}

\* The version that follows the latest one.
Following(k, revision, by) ==
    LET latest == CHOOSE n \in Numbers(k) \cup {0} : \A m \in Numbers(k) : m <= n
    IN  [kind |-> k, number |-> latest + 1, revision |-> revision, by |-> by]

\* Faulty variant: versions have no unique key.
NumberAlwaysFree(version) == TRUE

\* The unique key (raceId, version) of announcements and of reports.
NumberFree(version) == version.number \notin Numbers(version.kind)

BeforeStart == now < race.startsAt /\ race.open

\* Faulty variant: the draft is published whatever its revision.
ExecutableAnyDraft(row) ==
    /\ row.creator \in active
    /\ BeforeStart
    /\ row.kind = FreeReport => runnable

\* What a worker checks before it executes a schedule.
Executable(row) ==
    /\ row.creator \in active
    /\ BeforeStart
    /\ row.kind = FreeReport => draft = row.revision /\ runnable

-----------------------------------------------------------------------------
(***************************************************************************)
(* Workers (runPublicationSchedules).                                      *)
(***************************************************************************)

\* The row of a candidate is locked if it is still pending; the creator, the
\* race and the draft are read.  What fails rolls the transaction back.
Execute(w, s) ==
    LET row == schedule[s]
    IN  /\ worker[w] = Idle
        /\ row.status = "PENDING" /\ row.at <= now /\ RowFree(s)
        /\ IF Executable(row)
           THEN Works(w, Does("publishing",
                              Following(row.kind, IF row.kind = FreeReport THEN draft ELSE 0, s)))
           ELSE Works(w, Does("failing", s))
        /\ UNCHANGED <<schedule, versions, content, active, now, request>>

\* The version, its event and the schedule are written together.
CommitExecution(w) ==
    LET version == worker[w].about
    IN  /\ worker[w].op = "publishing" /\ NumberFree(version)
        /\ versions' = versions \cup {version}
        /\ schedule' = WithStatus(version.by, "PUBLISHED")
        /\ Works(w, Idle)
        /\ UNCHANGED <<content, active, now, request>>

\* A version published by hand took the number.
ConflictInExecution(w) ==
    /\ worker[w].op = "publishing" /\ ~NumberFree(worker[w].about)
    /\ Works(w, Does("failing", worker[w].about.by))
    /\ UNCHANGED <<schedule, versions, content, active, now, request>>

\* Faulty variant: the schedule is marked whatever became of it.
FailsAnyway(s) == WithStatus(s, "FAILED")

\* Faulty variant: the failure is not recorded.
FailsUnrecorded(s) == schedule

\* updateMany where PENDING: another worker or a request may have been there.
Fails(s) == IF schedule[s].status = "PENDING" THEN WithStatus(s, "FAILED") ELSE schedule

\* A failed execution marks the schedule in a second transaction.
MarkFailed(w) ==
    /\ worker[w].op = "failing" /\ RowFree(worker[w].about)
    /\ schedule' = Fails(worker[w].about)
    /\ Works(w, Idle)
    /\ UNCHANGED <<versions, content, active, now, request>>

\* A worker dies; its transaction is rolled back.
Crash(w) ==
    /\ worker[w] # Idle
    /\ Works(w, Idle)
    /\ UNCHANGED <<schedule, versions, content, active, now, request>>

-----------------------------------------------------------------------------
(***************************************************************************)
(* Scheduling and cancelling.                                              *)
(***************************************************************************)

\* create: an active creator, whose row it locks FOR SHARE; a time before the
\* start; for a report the draft's current revision.
BeginCreate(q, k, at, staff) ==
    /\ request[q] = Idle
    /\ \A p \in Request : request[p].op = "creating" => request[p].about.kind # k
    /\ staff \in active
    /\ now < at /\ at < race.startsAt /\ race.open
    /\ k = FreeReport => draft > 0
    /\ Holds(q, Does("creating", [status |-> "PENDING", kind |-> k, at |-> at, creator |-> staff,
                                 revision |-> IF k = FreeReport THEN draft ELSE 0]))
    /\ UNCHANGED <<schedule, versions, content, active, now, worker>>

\* The partial unique index publication_schedules_one_pending.
OnlyPending(k) ==
    \A s \in Schedule : schedule[s].status = "PENDING" => schedule[s].kind # k

CommitCreate(q, s) ==
    /\ request[q].op = "creating" /\ OnlyPending(request[q].about.kind)
    /\ schedule[s] = NoRow
    /\ schedule' = [schedule EXCEPT ![s] = request[q].about]
    /\ Holds(q, Idle)
    /\ UNCHANGED <<versions, content, active, now, worker>>

\* A schedule of the kind is pending (or the model has no row left).
RejectCreate(q) ==
    /\ request[q].op = "creating"
    /\ OnlyPending(request[q].about.kind) => \A s \in Schedule : schedule[s] # NoRow
    /\ Holds(q, Idle)
    /\ UNCHANGED <<schedule, versions, content, active, now, worker>>

\* cancel reads the row without locking it.
BeginCancel(q, s) ==
    /\ request[q] = Idle
    /\ \A p \in Request : request[p] # Does("cancelling", s)
    /\ schedule[s].status = "PENDING"
    /\ Holds(q, Does("cancelling", s))
    /\ UNCHANGED <<schedule, versions, content, active, now, worker>>

\* ... and updates it by its id once its lock is free.
CommitCancel(q) ==
    /\ request[q].op = "cancelling" /\ RowFree(request[q].about)
    /\ schedule' = WithStatus(request[q].about, "CANCELLED")
    /\ Holds(q, Idle)
    /\ UNCHANGED <<versions, content, active, now, worker>>

-----------------------------------------------------------------------------
(***************************************************************************)
(* Manual operations under the lock 7262026.                               *)
(***************************************************************************)

\* announce, and publish of the report before the race or of its review after.
BeginPublish(q, k) ==
    /\ request[q] = Idle /\ OperationsFree
    /\ k = FreeReport => draft > 0
    /\ \/ BeforeStart /\ (k = FreeReport => runnable)
       \/ k = FreeReport /\ now >= race.startsAt /\ \E v \in versions : v.kind = k
    /\ Following(k, 0, None).number <= LastVersion
    /\ Holds(q, Does("publishing", Following(k, IF k = FreeReport THEN draft ELSE 0, None)))
    /\ UNCHANGED <<schedule, versions, content, active, now, worker>>

CommitPublish(q) ==
    /\ request[q].op = "publishing" /\ NumberFree(request[q].about)
    /\ versions' = versions \cup {request[q].about}
    /\ Holds(q, Idle)
    /\ UNCHANGED <<schedule, content, active, now, worker>>

\* An execution took the number.
ConflictInPublish(q) ==
    /\ request[q].op = "publishing" /\ ~NumberFree(request[q].about)
    /\ Holds(q, Idle)
    /\ UNCHANGED <<schedule, versions, content, active, now, worker>>

\* save: the draft's horses are active when it is saved.
SaveDraft ==
    /\ OperationsFree /\ draft < LastRevision
    /\ draft' = draft + 1
    /\ runnable' = TRUE
    /\ UNCHANGED <<schedule, versions, race, active, now, worker, request>>

\* An entry of the draft is scratched.
ScratchEntry ==
    /\ OperationsFree /\ draft > 0
    /\ runnable' = FALSE
    /\ UNCHANGED <<schedule, versions, draft, race, active, now, worker, request>>

\* update of the race: its start and status.
ChangeRace(startsAt, open) ==
    /\ OperationsFree
    /\ race' = [startsAt |-> startsAt, open |-> open]
    /\ UNCHANGED <<schedule, versions, draft, runnable, active, now, worker, request>>

-----------------------------------------------------------------------------
(***************************************************************************)
(* Suspending staff (changeStatus; changeRole and demote check alike).     *)
(***************************************************************************)

\* The transaction is SERIALIZABLE: what it will read is what was there when
\* it asked for its first lock.  With a pending schedule it refuses.
BeginSuspend(q, staff) ==
    /\ request[q] = Idle /\ OperationsFree
    /\ staff \in active /\ PendingOf(staff) = {}
    /\ Holds(q, Does("suspending", staff))
    /\ UNCHANGED <<schedule, versions, content, active, now, worker>>

\* It waits for the staff member's row, which creations hold FOR SHARE.
CommitSuspend(q) ==
    /\ request[q].op = "suspending"
    /\ \A p \in Request : request[p].op = "creating" => request[p].about.creator # request[q].about
    /\ active' = active \ {request[q].about}
    /\ Holds(q, Idle)
    /\ UNCHANGED <<schedule, versions, content, now, worker>>

Restore(staff) ==
    /\ OperationsFree /\ staff \notin active
    /\ active' = active \cup {staff}
    /\ UNCHANGED <<schedule, versions, content, now, worker, request>>

Tick ==
    /\ now < LastTime
    /\ now' = now + 1
    /\ UNCHANGED <<schedule, versions, content, active, worker, request>>

-----------------------------------------------------------------------------
FinishExecution(w) == CommitExecution(w) \/ ConflictInExecution(w) \/ MarkFailed(w)
FinishRequest(q) ==
    \/ \E s \in Schedule : CommitCreate(q, s)
    \/ RejectCreate(q) \/ CommitCancel(q)
    \/ CommitPublish(q) \/ ConflictInPublish(q) \/ CommitSuspend(q)

Step ==
    \/ \E w \in Worker : FinishExecution(w) \/ Crash(w) \/ \E s \in Schedule : Execute(w, s)
    \/ \E q \in Request : FinishRequest(q)
    \/ \E q \in Request, k \in Kind, at \in Time, staff \in Staff : BeginCreate(q, k, at, staff)
    \/ \E q \in Request, s \in Schedule : BeginCancel(q, s)
    \/ \E q \in Request, k \in Kind : BeginPublish(q, k)
    \/ \E q \in Request, staff \in Staff : BeginSuspend(q, staff)
    \/ \E staff \in Staff : Restore(staff)
    \/ \E startsAt \in Time, open \in BOOLEAN : ChangeRace(startsAt, open)
    \/ SaveDraft \/ ScratchEntry \/ Tick

Spec == Init /\ [][Step]_vars

\* Workers keep polling and do not die in the same place for ever; requests
\* end, at the latest when their transaction times out.
Fairness ==
    /\ \A w \in Worker : SF_vars(\E s \in Schedule : Execute(w, s)) /\ SF_vars(FinishExecution(w))
    /\ \A q \in Request : WF_vars(FinishRequest(q))

FairSpec == Spec /\ Fairness

-----------------------------------------------------------------------------
(***************************************************************************)
(* Properties.                                                             *)
(***************************************************************************)

\* Every variable holds a value of its type.
TypeOK ==
    /\ schedule \in [Schedule -> Row]
    /\ versions \subseteq Version
    /\ draft \in 0 .. LastRevision
    /\ runnable \in BOOLEAN
    /\ race \in [startsAt : Time, open : BOOLEAN]
    /\ active \subseteq Staff
    /\ now \in Time
    /\ worker \in [Worker -> WorkerType]
    /\ request \in [Request -> RequestType]

By(s) == {v \in versions : v.by = s}

\* A schedule that reads PUBLISHED published one version; one that is pending
\* or failed none; and none published two, however workers, crashes and
\* cancellations interleave.
PublishedOnce ==
    \A s \in Schedule :
        /\ schedule[s].status = "PUBLISHED" => By(s) # {}
        /\ schedule[s].status \in {"NONE", "PENDING", "FAILED"} => By(s) = {}
        /\ \A v, x \in By(s) : v = x

\* What a schedule published is what was reviewed: the draft's revision when
\* it was scheduled, although anybody may save the draft meanwhile.
PublishedAsScheduled ==
    \A s \in Schedule : \A v \in By(s) :
        v.kind = schedule[s].kind /\ v.revision = schedule[s].revision

\* Executions and manual publications take no common lock, and yet versions
\* are numbered from one without gap or repetition.
NumberedWithoutGap ==
    \A k \in Kind :
        Numbers(k) = 1 .. Cardinality({v \in versions : v.kind = k})

\* A schedule that is due ends: published, failed or cancelled.
EveryDueScheduleEnds ==
    \A s \in Schedule :
        schedule[s].status = "PENDING" /\ schedule[s].at <= now ~> schedule[s].status # "PENDING"

\* What reads CANCELLED was not published.
CancelledIsUnpublished ==
    \A s \in Schedule : schedule[s].status = "CANCELLED" => By(s) = {}

\* The creator of a pending schedule may manage publications: staff with a
\* pending schedule are not suspended.
PendingHasCreator ==
    \A s \in Schedule : schedule[s].status = "PENDING" => schedule[s].creator \in active
=============================================================================

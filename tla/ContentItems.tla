---------------------------- MODULE ContentItems ----------------------------
(***************************************************************************)
(* An article, video or audio item of the CMS, with its published          *)
(* versions.  Editors save, publish, schedule, withdraw and restore it     *)
(* (apps/api/src/content.controller.ts); workers publish what is scheduled *)
(* (apps/worker/src/content-scheduler.ts); administrators suspend editors  *)
(* and let them back (apps/api/src/staff.controller.ts).                   *)
(*                                                                         *)
(* An editor works on the item as it was loaded, is admitted when a        *)
(* request arrives and writes when it gets the advisory lock 7262027, so   *)
(* much may happen in between.  A worker picks what is due in one          *)
(* transaction, executes it in another and records a failure in a third;   *)
(* it may die between them.  Each of these transactions locks the item's   *)
(* row and is one step.  Items meet only in the worker's loop: one item,   *)
(* picked and executed at any later time, stands for the loop.  Left out:  *)
(* what the content says, its related races and horses, its kind (frozen   *)
(* once published), audit, and who may read what.                          *)
(***************************************************************************)
EXTENDS ContentPromises

CONSTANTS
    Editor,         \* administrators, editors and operators
    Worker,
    Draft,          \* what the item may say
    LastTime,       \* bound
    Bounds,         \* the bounds one behaviour may keep to: who takes part, the
                    \* revisions editors make, the workers' deaths
    None

ASSUME ConstantsAssumption ==
    /\ LastTime \in Nat
    /\ Bounds \subseteq [editors : SUBSET Editor, workers : SUBSET Worker, revisions : Nat, deaths : Nat]
    /\ None \notin Draft \cup Editor

VARIABLES
    view,           \* Editor -> the item as loaded, and whether a request is admitted
    disabled,       \* editors who are suspended
    suspending,     \* the editor whose suspension has counted its dependencies
    worker,         \* Worker -> what it is doing with the item
    deaths, now, bound,
    promise         \* history: the schedule that stands, as its editor saw the item

vars == <<item, contentVersions, view, disabled, suspending, worker, deaths, now, bound, promise,
          withdrawn>>
published == <<contentVersions, withdrawn>>
staff == <<disabled, suspending>>
clock == <<now, bound>>
run == <<worker, deaths, clock>>

Init ==
    /\ item = [revision |-> 0, status |-> "DRAFT", visible |-> FALSE, draft |-> None,
               at |-> 0, scheduled |-> 0, by |-> None]
    /\ contentVersions = <<>>
    /\ view = [e \in Editor |-> [revision |-> 0, draft |-> None, admitted |-> FALSE]]
    /\ disabled = {} /\ suspending = None
    /\ worker = [w \in Worker |-> "idle"]
    /\ deaths = 0 /\ now = 0 /\ bound \in Bounds
    /\ promise = None /\ withdrawn = 0

-----------------------------------------------------------------------------
(***************************************************************************)
(* Editors.                                                                *)
(***************************************************************************)
Load(e) ==
    /\ e \notin disabled
    /\ view' = [view EXCEPT ![e].revision = item.revision, ![e].draft = item.draft]
    /\ UNCHANGED <<item, published, staff, run, promise>>

\* A request arrives and its session is found valid, before any lock.
Admit(e) ==
    /\ e \notin disabled /\ ~view[e].admitted
    /\ view' = [view EXCEPT ![e].admitted = TRUE]
    /\ UNCHANGED <<item, published, staff, run, promise>>

\* A request that meets one of the controller's refusals writes nothing.
Refuse(e) ==
    /\ view[e].admitted
    /\ view' = [view EXCEPT ![e].admitted = FALSE]
    /\ UNCHANGED <<item, published, staff, run, promise>>

\* Faulty variant: whatever was loaded may be written over.
CurrentAlways(e) == view[e].admitted /\ item.revision < bound.revisions

\* The revision the client sends is still the item's.
Current(e) ==
    /\ view[e].admitted /\ item.revision < bound.revisions
    /\ view[e].revision = item.revision

\* The item changes by e's hand, and the answer tells e its revision.
Becomes(e, new) ==
    LET row == [new EXCEPT !.revision = item.revision + 1, !.by = e]
    IN  /\ item' = row
        /\ view' = [view EXCEPT ![e] = [revision |-> row.revision, draft |-> row.draft,
                                        admitted |-> FALSE]]

Unscheduled(status) == [item EXCEPT !.status = status, !.at = 0, !.scheduled = 0]

\* What is published stays published and visible while the draft changes.
Save(e, d) ==
    /\ Current(e) /\ item.status \notin {"SCHEDULED", "ARCHIVED"}
    /\ Becomes(e, [item EXCEPT !.status = "DRAFT", !.draft = d])
    /\ UNCHANGED <<published, staff, run, promise>>

\* The next version shows the draft as it stands; `reviewed' is what the person
\* who asked for it had seen.
Appended(by, reviewed) ==
    contentVersions' = Append(contentVersions, [draft |-> item.draft, by |-> by, reviewed |-> reviewed])

\* The trigger on content_versions refuses a publisher who is suspended.
Publish(e) ==
    /\ Current(e) /\ item.revision > 0 /\ item.status \notin {"SCHEDULED", "ARCHIVED"}
    /\ e \notin disabled
    /\ Appended(e, [draft |-> view[e].draft, by |-> e])
    /\ Becomes(e, [Unscheduled("PUBLISHED") EXCEPT !.visible = TRUE])
    /\ UNCHANGED <<withdrawn, staff, run, promise>>

\* The schedule is for the revision that setting it makes.  Its time was compared
\* with the clock before the lock was taken, and may have come by now.
Schedule(e, at) ==
    /\ Current(e) /\ item.revision > 0 /\ item.status \notin {"SCHEDULED", "ARCHIVED"}
    /\ at >= now
    /\ Becomes(e, [item EXCEPT !.status = "SCHEDULED", !.at = at, !.scheduled = item.revision + 1])
    /\ promise' = [draft |-> view[e].draft, by |-> e]
    /\ UNCHANGED <<published, staff, run>>

Cancel(e) ==
    /\ Current(e) /\ item.status = "SCHEDULED"
    /\ Becomes(e, Unscheduled("DRAFT"))
    /\ promise' = None
    /\ UNCHANGED <<published, staff, run>>

Archive(e) ==
    /\ Current(e) /\ item.status # "SCHEDULED" /\ contentVersions # <<>>
    /\ Becomes(e, [item EXCEPT !.status = "ARCHIVED", !.visible = FALSE])
    /\ withdrawn' = Len(contentVersions)
    /\ UNCHANGED <<contentVersions, staff, run, promise>>

\* Faulty variant: a restored item shows its last version again.
RestoredVisible == [item EXCEPT !.status = "DRAFT", !.visible = TRUE]

\* A restored item is a draft; what was published of it stays hidden.
Restored == [item EXCEPT !.status = "DRAFT"]

Restore(e) ==
    /\ Current(e) /\ item.status = "ARCHIVED"
    /\ Becomes(e, Restored)
    /\ UNCHANGED <<published, staff, run, promise>>

Edit(e) ==
    \/ \E d \in Draft : Save(e, d)
    \/ Publish(e)
    \/ \E at \in 1 .. LastTime : Schedule(e, at)
    \/ Cancel(e) \/ Archive(e) \/ Restore(e)

-----------------------------------------------------------------------------
(***************************************************************************)
(* Administrators.  The suspension counts schedules in the snapshot its    *)
(* serializable transaction takes before it waits for the locks.           *)
(***************************************************************************)
BeginSuspend(e) ==
    /\ suspending = None /\ e \notin disabled
    /\ ~ (item.status = "SCHEDULED" /\ item.by = e)
    /\ suspending' = e
    /\ UNCHANGED <<item, published, view, disabled, run, promise>>

CommitSuspend ==
    /\ suspending # None
    /\ disabled' = disabled \cup {suspending} /\ suspending' = None
    /\ UNCHANGED <<item, published, view, run, promise>>

LetBack(e) ==
    /\ e \in disabled
    /\ disabled' = disabled \ {e}
    /\ UNCHANGED <<item, published, view, suspending, run, promise>>

-----------------------------------------------------------------------------
(***************************************************************************)
(* Workers.                                                                *)
(***************************************************************************)
Works(w, what) == worker' = [worker EXCEPT ![w] = what]

\* Faulty variant: a schedule of the present moment is not yet due.
DuePast == item.status = "SCHEDULED" /\ item.at < now /\ now < LastTime

Due == item.status = "SCHEDULED" /\ item.at <= now

\* The transaction that selects the candidates lets go of them at once.
Pick(w) ==
    /\ worker[w] = "idle" /\ Due
    /\ Works(w, "picked")
    /\ UNCHANGED <<item, published, view, staff, deaths, clock, promise>>

\* The execution finds the row scheduled; it does not look at its time again.
Stands == item.status = "SCHEDULED"

Executable == item.scheduled = item.revision /\ item.by \notin disabled

Skip(w) ==
    /\ worker[w] = "picked" /\ ~Stands
    /\ Works(w, "idle")
    /\ UNCHANGED <<item, published, view, staff, deaths, clock, promise>>

Execute(w) ==
    /\ worker[w] = "picked" /\ Stands /\ Executable
    /\ Appended(item.by, promise)
    /\ item' = [Unscheduled("PUBLISHED") EXCEPT !.visible = TRUE, !.revision = @ + 1]
    /\ promise' = None
    /\ Works(w, "idle")
    /\ UNCHANGED <<withdrawn, view, staff, deaths, clock>>

\* The execution throws, for what it checks or because the database fails.
Fail(w) ==
    /\ worker[w] = "picked" /\ Stands
    /\ Works(w, "failed")
    /\ UNCHANGED <<item, published, view, staff, deaths, clock, promise>>

\* Whatever schedule stands by now is ended.
RecordFailure(w) ==
    /\ worker[w] = "failed"
    /\ Works(w, "idle")
    /\ IF Stands
       THEN item' = [Unscheduled("DRAFT") EXCEPT !.revision = @ + 1] /\ promise' = None
       ELSE UNCHANGED <<item, promise>>
    /\ UNCHANGED <<published, view, staff, deaths, clock>>

Die(w) ==
    /\ worker[w] # "idle" /\ deaths < bound.deaths
    /\ Works(w, "idle") /\ deaths' = deaths + 1
    /\ UNCHANGED <<item, published, view, staff, clock, promise>>

Work(w) == Pick(w) \/ Skip(w) \/ Execute(w) \/ Fail(w) \/ RecordFailure(w)

Tick ==
    /\ now < LastTime
    /\ now' = now + 1
    /\ UNCHANGED <<item, published, view, staff, worker, deaths, bound, promise>>

Next ==
    \/ \E e \in bound.editors : Load(e) \/ Admit(e) \/ Refuse(e) \/ Edit(e) \/ BeginSuspend(e) \/ LetBack(e)
    \/ CommitSuspend
    \/ \E w \in bound.workers : Work(w) \/ Die(w)
    \/ Tick

Spec == Init /\ [][Next]_vars

\* The worker's loop goes round every five seconds and every process that dies
\* is started again.
FairSpec == Spec /\ \A w \in Worker : WF_vars(w \in bound.workers /\ Work(w))

-----------------------------------------------------------------------------
(***************************************************************************)
(* Properties.                                                             *)
(***************************************************************************)

Text == Draft \cup {None}
Person == Editor \cup {None}
Shown == [draft : Text, by : Person]
ItemRow == [revision : Nat, status : {"DRAFT", "SCHEDULED", "PUBLISHED", "ARCHIVED"}, visible : BOOLEAN,
            draft : Text, at : 0 .. LastTime, scheduled : Nat, by : Person]
ViewRow == [revision : Nat, draft : Text, admitted : BOOLEAN]

\* Every variable holds a value of its type.
TypeOK ==
    /\ item \in ItemRow
    /\ contentVersions \in Seq([draft : Text, by : Person, reviewed : Shown])
    /\ view \in [Editor -> ViewRow]
    /\ disabled \subseteq Editor /\ suspending \in Person
    /\ worker \in [Worker -> {"idle", "picked", "failed"}]
    /\ deaths \in Nat /\ now \in 0 .. LastTime /\ bound \in Bounds
    /\ promise \in Shown \cup {None} /\ withdrawn \in Nat

\* A schedule that is due is executed, fails or is cancelled.
EveryDueScheduleEnds ==
    item.status = "SCHEDULED" /\ item.at <= now ~> item.status # "SCHEDULED"
=============================================================================

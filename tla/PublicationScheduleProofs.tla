--------------------- MODULE PublicationScheduleProofs ---------------------
(***************************************************************************)
(* Proofs about what workers publish when it is due.  PublicationSchedule: *)
(* types, that a schedule publishes at most once and what was scheduled,   *)
(* and that versions are numbered without gap although no lock is common   *)
(* to those who publish.  ContentItems, in the second part: types, that    *)
(* content is published as it was reviewed and stays hidden once withdrawn.*)
(***************************************************************************)
EXTENDS PublicationSchedule, ContentPromises, FiniteSetTheorems, TLAPS

\* What the transactions of workers and requests are about.
LEMMA AboutTyped ==
    ASSUME TypeOK
    PROVE  /\ \A w \in Worker :
                /\ worker[w].op = "publishing" => worker[w].about \in Version /\ worker[w].about.by \in Schedule
                /\ worker[w].op = "failing" => worker[w].about \in Schedule
           /\ \A q \in Request :
                /\ request[q].op = "creating" => request[q].about \in Row
                /\ request[q].op = "cancelling" => request[q].about \in Schedule
                /\ request[q].op = "publishing" => request[q].about \in Version
                /\ request[q].op = "suspending" => request[q].about \in Staff
  <1>1. \A w \in Worker : worker[w] \in WorkerType
    BY DEF TypeOK
  <1>2. \A q \in Request : request[q] \in RequestType
    BY DEF TypeOK
  <1>3. QED
    BY <1>1, <1>2 DEF WorkerType, RequestType, Idle, Does, Version

\* Numbers are the numbers of versions.
LEMMA NumbersTyped ==
    ASSUME TypeOK, NEW k \in Kind
    PROVE  Numbers(k) \subseteq Nat \ {0}
  BY DEF TypeOK, Numbers, Version

\* A step of a worker keeps the workers' type.
LEMMA WorksTyped ==
    ASSUME TypeOK, NEW w \in Worker, NEW t \in WorkerType, Works(w, t)
    PROVE  worker' \in [Worker -> WorkerType]
  BY DEF TypeOK, Works

\* A step of a request keeps the requests' type.
LEMMA HoldsTyped ==
    ASSUME TypeOK, NEW q \in Request, NEW t \in RequestType, Holds(q, t)
    PROVE  request' \in [Request -> RequestType]
  BY DEF TypeOK, Holds

\* A change of status keeps the rows' type.
LEMMA StatusTyped ==
    ASSUME TypeOK, NEW s, NEW status \in Status
    PROVE  WithStatus(s, status) \in [Schedule -> Row]
  BY DEF TypeOK, WithStatus, Row

\* The initial state is well typed.
LEMMA TypeInit == Init => TypeOK
  BY ConstantsAssumption
  DEF Init, TypeOK, NoRow, Row, Status, Kind, Time, WorkerType, RequestType, Idle, Does

-----------------------------------------------------------------------------
(***************************************************************************)
(* Types and numbers.  A version in the making has a number that was next  *)
(* when it was read; others may have been published since, and the unique  *)
(* key lets it through only if none took the number.                       *)
(***************************************************************************)
OfKind(k) == {v \in versions : v.kind = k}

NumberInv ==
    /\ TypeOK
    /\ IsFiniteSet(versions)
    /\ NumberedWithoutGap
    /\ \A w \in Worker :
         worker[w].op = "publishing" =>
           worker[w].about.number <= Cardinality(OfKind(worker[w].about.kind)) + 1
    /\ \A q \in Request :
         request[q].op = "publishing" =>
           request[q].about.number <= Cardinality(OfKind(request[q].about.kind)) + 1

\* The version that follows is numbered one more than there are.
LEMMA FollowingIs ==
    ASSUME NumberInv, NEW k \in Kind, NEW revision \in 0 .. LastRevision,
           NEW by \in Schedule \cup {None}
    PROVE  /\ Cardinality(OfKind(k)) \in Nat
           /\ Following(k, revision, by) =
                [kind |-> k, number |-> Cardinality(OfKind(k)) + 1, revision |-> revision, by |-> by]
           /\ Following(k, revision, by) \in Version
  <1> DEFINE n == Cardinality(OfKind(k))
  <1>1. n \in Nat
    BY FS_Subset, FS_CardinalityType DEF NumberInv, OfKind
  <1>2. Numbers(k) = 1 .. n
    BY DEF NumberInv, NumberedWithoutGap, OfKind
  <1> HIDE DEF n
  <1>3. (CHOOSE m \in Numbers(k) \cup {0} : \A l \in Numbers(k) : l <= m) = n
    <2>1. ASSUME NEW m \in Numbers(k) \cup {0}, \A l \in Numbers(k) : l <= m
          PROVE  m = n
      <3>1. m \in 0 .. n
        BY <1>1, <1>2, <2>1
      <3>2. n \in Numbers(k) \/ n = 0
        BY <1>1, <1>2
      <3>3. QED
        BY <1>1, <2>1, <3>1, <3>2
    <2>2. n \in Numbers(k) \cup {0} /\ \A l \in Numbers(k) : l <= n
      BY <1>1, <1>2
    <2>3. QED
      BY <2>1, <2>2
  <1>4. Following(k, revision, by) = [kind |-> k, number |-> n + 1, revision |-> revision, by |-> by]
    BY <1>3 DEF Following
  <1>5. QED
    BY <1>1, <1>4 DEF Version, n

\* A version whose number was next and is not taken is the next one.
LEMMA AddedVersion ==
    ASSUME NumberInv, NEW v \in Version, NumberFree(v),
           v.number <= Cardinality(OfKind(v.kind)) + 1,
           versions' = versions \cup {v}
    PROVE  /\ IsFiniteSet(versions')
           /\ NumberedWithoutGap'
           /\ \A k \in Kind : /\ Cardinality(OfKind(k)) \in Nat
                              /\ Cardinality(OfKind(k))' \in Nat
                              /\ Cardinality(OfKind(k)) <= Cardinality(OfKind(k))'
  <1> DEFINE n == Cardinality(OfKind(v.kind))
  <1>1. IsFiniteSet(versions')
    BY FS_AddElement DEF NumberInv
  <1>2. n \in Nat /\ IsFiniteSet(OfKind(v.kind))
    BY FS_Subset, FS_CardinalityType DEF NumberInv, OfKind
  <1>3. v.kind \in Kind /\ v.number \in Nat \ {0} /\ Numbers(v.kind) = 1 .. n
    BY DEF NumberInv, NumberedWithoutGap, OfKind, Version
  <1>4. v.number \notin 1 .. n
    BY <1>3 DEF NumberFree
  <1>5. v.number = n + 1
    BY <1>2, <1>3, <1>4
  <1>6. v \notin OfKind(v.kind) /\ OfKind(v.kind)' = OfKind(v.kind) \cup {v}
    BY <1>3, <1>4 DEF OfKind, Numbers
  <1>7. Cardinality(OfKind(v.kind))' = n + 1
    BY <1>2, <1>6, FS_AddElement
  <1>8. Numbers(v.kind)' = Numbers(v.kind) \cup {v.number}
    BY DEF Numbers
  <1>9. Numbers(v.kind)' = 1 .. Cardinality(OfKind(v.kind))'
    BY <1>2, <1>3, <1>5, <1>7, <1>8
  <1>10. ASSUME NEW k \in Kind, k # v.kind
         PROVE  OfKind(k)' = OfKind(k) /\ Numbers(k)' = Numbers(k) /\ Cardinality(OfKind(k)) \in Nat
    BY <1>10, FS_Subset, FS_CardinalityType DEF NumberInv, OfKind, Numbers
  <1>11. NumberedWithoutGap'
    BY <1>9, <1>10 DEF NumberInv, NumberedWithoutGap, OfKind
  <1>12. QED
    BY <1>1, <1>2, <1>7, <1>10, <1>11

\* What does not touch versions and takes up no version keeps the invariant.
LEMMA QuietForNumbers ==
    ASSUME NumberInv, TypeOK', versions' = versions,
           \A w \in Worker : worker'[w].op = "publishing" =>
               \/ worker'[w] = worker[w]
               \/ /\ worker'[w].about.kind \in Kind
                  /\ worker'[w].about.number = Cardinality(OfKind(worker'[w].about.kind)) + 1,
           \A q \in Request : request'[q].op = "publishing" =>
               \/ request'[q] = request[q]
               \/ /\ request'[q].about.kind \in Kind
                  /\ request'[q].about.number = Cardinality(OfKind(request'[q].about.kind)) + 1
    PROVE  NumberInv'
  <1>1. \A k : OfKind(k)' = OfKind(k) /\ Numbers(k)' = Numbers(k)
    BY DEF OfKind, Numbers
  <1>2. \A k \in Kind : Cardinality(OfKind(k)) \in Nat
    BY FS_Subset, FS_CardinalityType DEF NumberInv, OfKind
  <1>3. NumberedWithoutGap' /\ IsFiniteSet(versions)'
    BY <1>1 DEF NumberInv, NumberedWithoutGap, OfKind
  <1>4. ASSUME NEW w \in Worker, worker'[w].op = "publishing"
        PROVE  worker'[w].about.number <= Cardinality(OfKind(worker'[w].about.kind)) + 1
    BY <1>2, <1>4 DEF NumberInv
  <1>5. ASSUME NEW q \in Request, request'[q].op = "publishing"
        PROVE  request'[q].about.number <= Cardinality(OfKind(request'[q].about.kind)) + 1
    BY <1>2, <1>5 DEF NumberInv
  <1>6. QED
    BY <1>1, <1>3, <1>4, <1>5 DEF NumberInv

\* A published version, with its transaction's end, keeps the invariant.
LEMMA GrownForNumbers ==
    ASSUME NumberInv, TypeOK', NEW v \in Version, NumberFree(v),
           v.number <= Cardinality(OfKind(v.kind)) + 1,
           versions' = versions \cup {v},
           \A w \in Worker : worker'[w] = worker[w] \/ worker'[w].op = "idle",
           \A q \in Request : request'[q] = request[q] \/ request'[q].op = "idle"
    PROVE  NumberInv'
  <1>1. /\ IsFiniteSet(versions') /\ NumberedWithoutGap'
        /\ \A k \in Kind : /\ Cardinality(OfKind(k)) \in Nat
                           /\ Cardinality(OfKind(k))' \in Nat
                           /\ Cardinality(OfKind(k)) <= Cardinality(OfKind(k))'
    BY AddedVersion
  <1>2. ASSUME NEW w \in Worker, worker'[w].op = "publishing"
        PROVE  worker'[w].about.number <= Cardinality({y \in versions' : y.kind = worker'[w].about.kind}) + 1
    <2>1. worker'[w] = worker[w] /\ worker[w].about \in Version
      BY <1>2, AboutTyped DEF NumberInv
    <2>2. worker[w].about.kind \in Kind /\ worker[w].about.number \in Nat
      BY <2>1 DEF Version
    <2>3. worker[w].about.number <= Cardinality(OfKind(worker[w].about.kind)) + 1
      BY <1>2, <2>1 DEF NumberInv
    <2>4. PICK k \in Kind : k = worker[w].about.kind
      BY <2>2
    <2>5. worker[w].about.number <= Cardinality(OfKind(k))' + 1
      BY <1>1, <2>2, <2>3, <2>4
    <2>6. OfKind(k)' = {y \in versions' : y.kind = worker'[w].about.kind}
      BY <2>1, <2>4 DEF OfKind
    <2>7. QED
      BY <2>1, <2>5, <2>6
  <1>3. ASSUME NEW q \in Request, request'[q].op = "publishing"
        PROVE  request'[q].about.number <= Cardinality({y \in versions' : y.kind = request'[q].about.kind}) + 1
    <2>1. request'[q] = request[q] /\ request[q].about \in Version
      BY <1>3, AboutTyped DEF NumberInv
    <2>2. request[q].about.kind \in Kind /\ request[q].about.number \in Nat
      BY <2>1 DEF Version
    <2>3. request[q].about.number <= Cardinality(OfKind(request[q].about.kind)) + 1
      BY <1>3, <2>1 DEF NumberInv
    <2>4. PICK k \in Kind : k = request[q].about.kind
      BY <2>2
    <2>5. request[q].about.number <= Cardinality(OfKind(k))' + 1
      BY <1>1, <2>2, <2>3, <2>4
    <2>6. OfKind(k)' = {y \in versions' : y.kind = request'[q].about.kind}
      BY <2>1, <2>4 DEF OfKind
    <2>7. QED
      BY <2>1, <2>5, <2>6
  <1>4. QED
    BY <1>1, <1>2, <1>3 DEF NumberInv, OfKind

\* So does the beginning of a request's transaction ...
LEMMA BegunForNumbers ==
    ASSUME NumberInv, NEW q \in Request, NEW t \in RequestType, Holds(q, t),
           t.op = "publishing" =>
             t.about.kind \in Kind /\ t.about.number = Cardinality(OfKind(t.about.kind)) + 1,
           UNCHANGED <<schedule, versions, content, active, now, worker>>
    PROVE  NumberInv'
  <1>1. TypeOK
    BY DEF NumberInv
  <1>2. TypeOK'
    BY <1>1, HoldsTyped DEF TypeOK, content
  <1>3. \A p \in Request : request'[p] = request[p] \/ request'[p] = t
    BY <1>1 DEF Holds, TypeOK
  <1>4. QED
    BY <1>2, <1>3, QuietForNumbers

\* ... and its end, unless it publishes.
LEMMA EndedForNumbers ==
    ASSUME NumberInv, NEW q \in Request, Holds(q, Idle),
           schedule' \in [Schedule -> Row], active' \subseteq Staff,
           UNCHANGED <<versions, content, now, worker>>
    PROVE  NumberInv'
  <1>1. TypeOK
    BY DEF NumberInv
  <1>2. Idle \in RequestType /\ Idle.op = "idle"
    BY DEF RequestType, Idle, Does
  <1>3. TypeOK'
    BY <1>1, <1>2, HoldsTyped DEF TypeOK, content
  <1>4. \A p \in Request : request'[p] = request[p] \/ request'[p] = Idle
    BY <1>1 DEF Holds, TypeOK
  <1>5. QED
    BY <1>2, <1>3, <1>4, QuietForNumbers

\* The initial state satisfies the invariant.
LEMMA NumberInit == Init => NumberInv
  <1> SUFFICES ASSUME Init PROVE NumberInv
    OBVIOUS
  <1>1. versions = {} /\ \A k : OfKind(k) = {} /\ Numbers(k) = {}
    BY DEF Init, OfKind, Numbers
  <1>2. IsFiniteSet(versions) /\ NumberedWithoutGap
    BY <1>1, FS_EmptySet DEF NumberedWithoutGap
  <1>3. /\ \A w \in Worker : worker[w].op = "idle"
        /\ \A q \in Request : request[q].op = "idle"
    BY DEF Init, Idle, Does
  <1>4. QED
    BY <1>2, <1>3, TypeInit DEF NumberInv

\* Every step keeps it.
LEMMA NumberStep == NumberInv /\ [Step]_vars => NumberInv'
  <1> SUFFICES ASSUME NumberInv, [Step]_vars PROVE NumberInv'
    OBVIOUS
  <1>t. TypeOK
    BY DEF NumberInv
  <1>i. Idle \in WorkerType /\ Idle \in RequestType /\ Idle.op = "idle"
    BY DEF WorkerType, RequestType, Idle, Does
  <1> USE DEF content
  <1>1. CASE UNCHANGED vars
    <2>1. TypeOK'
      BY <1>t, <1>1 DEF vars, TypeOK
    <2>2. QED
      BY <1>1, <2>1, QuietForNumbers DEF vars
  <1>2. ASSUME NEW w \in Worker, NEW s \in Schedule, Execute(w, s) PROVE NumberInv'
    <2> DEFINE row == schedule[s]
               revision == IF row.kind = FreeReport THEN draft ELSE 0
               t == IF Executable(row) THEN Does("publishing", Following(row.kind, revision, s))
                    ELSE Does("failing", s)
    <2>1. row.kind \in Kind /\ revision \in 0 .. LastRevision
      BY <1>t, ConstantsAssumption DEF TypeOK, Row
    <2>2. t \in WorkerType
      BY <2>1, FollowingIs, ConstantsAssumption DEF WorkerType, Does
    <2>3. Works(w, t)
      BY <1>2 DEF Execute
    <2>4. TypeOK'
      BY <1>2, <1>t, <2>2, <2>3, WorksTyped DEF Execute, TypeOK
    <2>5. t.op = "publishing" =>
            t.about.kind \in Kind /\ t.about.number = Cardinality(OfKind(t.about.kind)) + 1
      BY <2>1, FollowingIs DEF Does
    <2>6. \A x \in Worker : worker'[x] = worker[x] \/ worker'[x] = t
      BY <1>t, <2>3 DEF Works, TypeOK
    <2> HIDE DEF t
    <2>7. QED
      BY <1>2, <2>4, <2>5, <2>6, QuietForNumbers DEF Execute
  <1>3. ASSUME NEW w \in Worker, CommitExecution(w) PROVE NumberInv'
    <2> DEFINE v == worker[w].about
    <2>1. v \in Version /\ v.number <= Cardinality(OfKind(v.kind)) + 1 /\ NumberFree(v)
      BY <1>3, <1>t, AboutTyped DEF CommitExecution, NumberInv
    <2>2. versions' = versions \cup {v} /\ Works(w, Idle) /\ request' = request
      BY <1>3 DEF CommitExecution
    <2>3. TypeOK'
      BY <1>3, <1>t, <1>i, <2>1, <2>2, WorksTyped, StatusTyped DEF CommitExecution, TypeOK, Status
    <2>4. \A x \in Worker : worker'[x] = worker[x] \/ worker'[x] = Idle
      BY <1>t, <2>2 DEF Works, TypeOK
    <2> HIDE DEF v
    <2>5. QED
      BY <1>i, <2>1, <2>2, <2>3, <2>4, GrownForNumbers
  <1>4. ASSUME NEW w \in Worker, ConflictInExecution(w) PROVE NumberInv'
    <2>1. Does("failing", worker[w].about.by) \in WorkerType
      BY <1>4, <1>t, AboutTyped DEF ConflictInExecution, WorkerType, Does
    <2>2. TypeOK'
      BY <1>4, <1>t, <2>1, WorksTyped DEF ConflictInExecution, TypeOK
    <2>3. \A x \in Worker : worker'[x] = worker[x] \/ worker'[x].op = "failing"
      BY <1>4, <1>t DEF ConflictInExecution, Works, Does, TypeOK
    <2>4. QED
      BY <1>4, <2>2, <2>3, QuietForNumbers DEF ConflictInExecution
  <1>5. ASSUME NEW w \in Worker, MarkFailed(w) \/ Crash(w) PROVE NumberInv'
    <2>1. schedule' \in [Schedule -> Row]
      BY <1>5, <1>t, StatusTyped DEF MarkFailed, Crash, Fails, TypeOK, Status
    <2>2. TypeOK'
      BY <1>5, <1>t, <1>i, <2>1, WorksTyped DEF MarkFailed, Crash, TypeOK
    <2>3. \A x \in Worker : worker'[x] = worker[x] \/ worker'[x] = Idle
      BY <1>5, <1>t DEF MarkFailed, Crash, Works, TypeOK
    <2>4. QED
      BY <1>5, <1>i, <2>2, <2>3, QuietForNumbers DEF MarkFailed, Crash
  <1>6. ASSUME NEW q \in Request, NEW k \in Kind, NEW at \in Time, NEW staff \in Staff,
               BeginCreate(q, k, at, staff)
        PROVE  NumberInv'
    <2> DEFINE row == [status |-> "PENDING", kind |-> k, at |-> at, creator |-> staff,
                       revision |-> IF k = FreeReport THEN draft ELSE 0]
    <2>1. row \in Row
      BY <1>t, ConstantsAssumption DEF TypeOK, Row, Status
    <2>2. Does("creating", row) \in RequestType /\ Does("creating", row).op = "creating"
      BY <2>1 DEF RequestType, Does
    <2>3. Holds(q, Does("creating", row))
      BY <1>6 DEF BeginCreate
    <2> HIDE DEF row
    <2>4. QED
      BY <1>6, <1>t, <2>2, <2>3, BegunForNumbers DEF BeginCreate
  <1>7. ASSUME NEW q \in Request, NEW s \in Schedule, CommitCreate(q, s) PROVE NumberInv'
    <2>1. schedule' \in [Schedule -> Row]
      BY <1>7, <1>t, AboutTyped DEF CommitCreate, TypeOK
    <2>2. QED
      BY <1>7, <1>t, <2>1, EndedForNumbers DEF CommitCreate, TypeOK
  <1>8. ASSUME NEW q \in Request, RejectCreate(q) \/ ConflictInPublish(q) PROVE NumberInv'
    BY <1>8, <1>t, EndedForNumbers DEF RejectCreate, ConflictInPublish, TypeOK
  <1>9. ASSUME NEW q \in Request, NEW s \in Schedule, BeginCancel(q, s) PROVE NumberInv'
    <2>1. Does("cancelling", s) \in RequestType /\ Does("cancelling", s).op = "cancelling"
      BY DEF RequestType, Does
    <2>2. QED
      BY <1>9, <1>t, <2>1, BegunForNumbers DEF BeginCancel
  <1>10. ASSUME NEW q \in Request, CommitCancel(q) PROVE NumberInv'
    <2>1. schedule' \in [Schedule -> Row]
      BY <1>10, <1>t, StatusTyped DEF CommitCancel, Status
    <2>2. QED
      BY <1>10, <1>t, <2>1, EndedForNumbers DEF CommitCancel, TypeOK
  <1>11. ASSUME NEW q \in Request, NEW k \in Kind, BeginPublish(q, k) PROVE NumberInv'
    <2> DEFINE revision == IF k = FreeReport THEN draft ELSE 0
               t == Does("publishing", Following(k, revision, None))
    <2>1. revision \in 0 .. LastRevision
      BY <1>t, ConstantsAssumption DEF TypeOK
    <2>2. t \in RequestType
      BY <2>1, FollowingIs DEF RequestType, Does
    <2>3. t.about.kind \in Kind /\ t.about.number = Cardinality(OfKind(t.about.kind)) + 1
      BY <2>1, FollowingIs DEF Does
    <2>4. Holds(q, t)
      BY <1>11 DEF BeginPublish
    <2> HIDE DEF t
    <2>5. QED
      BY <1>11, <1>t, <2>2, <2>3, <2>4, BegunForNumbers DEF BeginPublish
  <1>12. ASSUME NEW q \in Request, CommitPublish(q) PROVE NumberInv'
    <2> DEFINE v == request[q].about
    <2>1. v \in Version /\ v.number <= Cardinality(OfKind(v.kind)) + 1 /\ NumberFree(v)
      BY <1>12, <1>t, AboutTyped DEF CommitPublish, NumberInv
    <2>2. versions' = versions \cup {v} /\ Holds(q, Idle) /\ worker' = worker
      BY <1>12 DEF CommitPublish
    <2>3. TypeOK'
      BY <1>12, <1>t, <1>i, <2>1, <2>2, HoldsTyped DEF CommitPublish, TypeOK
    <2>4. \A x \in Request : request'[x] = request[x] \/ request'[x] = Idle
      BY <1>t, <2>2 DEF Holds, TypeOK
    <2> HIDE DEF v
    <2>5. QED
      BY <1>i, <2>1, <2>2, <2>3, <2>4, GrownForNumbers
  <1>13. ASSUME NEW q \in Request, NEW staff \in Staff, BeginSuspend(q, staff) PROVE NumberInv'
    <2>1. Does("suspending", staff) \in RequestType /\ Does("suspending", staff).op = "suspending"
      BY DEF RequestType, Does
    <2>2. QED
      BY <1>13, <1>t, <2>1, BegunForNumbers DEF BeginSuspend
  <1>14. ASSUME NEW q \in Request, CommitSuspend(q) PROVE NumberInv'
    BY <1>14, <1>t, EndedForNumbers DEF CommitSuspend, TypeOK
  <1>15. CASE SaveDraft \/ ScratchEntry \/ Tick \/ \E staff \in Staff : Restore(staff)
    <2>1. ASSUME SaveDraft PROVE TypeOK'
      BY <2>1, <1>t, ConstantsAssumption DEF SaveDraft, TypeOK
    <2>2. ASSUME Tick PROVE TypeOK'
      BY <2>2, <1>t, ConstantsAssumption DEF Tick, TypeOK, Time
    <2>3. ASSUME ScratchEntry \/ \E staff \in Staff : Restore(staff) PROVE TypeOK'
      BY <2>3, <1>t DEF ScratchEntry, Restore, TypeOK
    <2>4. QED
      BY <1>15, <2>1, <2>2, <2>3, QuietForNumbers DEF SaveDraft, ScratchEntry, Tick, Restore
  <1>16. ASSUME NEW startsAt \in Time, NEW open \in BOOLEAN, ChangeRace(startsAt, open)
         PROVE  NumberInv'
    <2>1. TypeOK'
      BY <1>16, <1>t DEF ChangeRace, TypeOK
    <2>2. QED
      BY <1>16, <2>1, QuietForNumbers DEF ChangeRace
  <1>17. QED
    BY <1>1, <1>2, <1>3, <1>4, <1>5, <1>6, <1>7, <1>8, <1>9, <1>10, <1>11, <1>12, <1>13, <1>14,
       <1>15, <1>16
    DEF Step, FinishExecution, FinishRequest

\* Every variable holds a value of its type.
THEOREM TypeCorrect == Spec => []TypeOK
  <1>1. NumberInv => TypeOK
    BY DEF NumberInv
  <1>2. QED
    BY <1>1, NumberInit, NumberStep, PTL DEF Spec

\* Announcements and reports are numbered without gap, although executions
\* and manual publications take no common lock.
THEOREM NumberedWithoutGapCorrect == Spec => []NumberedWithoutGap
  <1>1. NumberInv => NumberedWithoutGap
    BY DEF NumberInv
  <1>2. QED
    BY <1>1, NumberInit, NumberStep, PTL DEF Spec

-----------------------------------------------------------------------------
(***************************************************************************)
(* What schedules publish.  An execution holds its row until it commits,   *)
(* so that the row is still pending then; a failure and a cancellation     *)
(* wait for it.                                                            *)
(***************************************************************************)
ExecutionInv ==
    /\ \A w \in Worker : worker[w].op = "publishing" =>
         LET v == worker[w].about
         IN  /\ schedule[v.by].status = "PENDING"
             /\ v.kind = schedule[v.by].kind
             /\ v.revision = schedule[v.by].revision
    /\ \A w, x \in Worker :
         worker[w].op = "publishing" /\ worker[x].op = "publishing"
           /\ worker[w].about.by = worker[x].about.by => w = x

RequestInv ==
    \A q \in Request :
        /\ request[q].op = "creating" =>
             /\ request[q].about.status = "PENDING"
             /\ request[q].about.kind = Announcement => request[q].about.revision = 0
        /\ request[q].op = "cancelling" => schedule[request[q].about].status # "NONE"
        /\ request[q].op = "publishing" => request[q].about.by = None

AnnouncementsHaveNoDraft ==
    \A s \in Schedule : schedule[s].kind = Announcement => schedule[s].revision = 0

PublishInv ==
    /\ NumberInv
    /\ PublishedOnce /\ PublishedAsScheduled
    /\ ExecutionInv /\ RequestInv /\ AnnouncementsHaveNoDraft

\* The initial state satisfies the invariant.
LEMMA PublishInit == Init => PublishInv
  <1> SUFFICES ASSUME Init PROVE PublishInv
    OBVIOUS
  <1>1. /\ \A w \in Worker : worker[w].op = "idle"
        /\ \A q \in Request : request[q].op = "idle"
        /\ versions = {}
        /\ \A s \in Schedule : schedule[s] = NoRow
    BY DEF Init, Idle, Does
  <1>2. QED
    BY <1>1, NumberInit
    DEF PublishInv, PublishedOnce, PublishedAsScheduled, By, ExecutionInv, RequestInv,
        AnnouncementsHaveNoDraft, NoRow

\* Rows and versions that stay, with transactions that stay, end or begin
\* well, keep the invariant.
LEMMA QuietForPublishing ==
    ASSUME PublishInv, NumberInv', versions' = versions, schedule' = schedule,
           \A w \in Worker : worker'[w] = worker[w] \/ worker'[w].op # "publishing",
           \A q \in Request :
               \/ request'[q] = request[q]
               \/ request'[q].op \in {"idle", "suspending"}
               \/ /\ request'[q].op = "creating" /\ request'[q].about.status = "PENDING"
                  /\ request'[q].about.kind = Announcement => request'[q].about.revision = 0
               \/ request'[q].op = "cancelling" /\ schedule[request'[q].about].status # "NONE"
               \/ request'[q].op = "publishing" /\ request'[q].about.by = None
    PROVE  PublishInv'
  <1>1. ExecutionInv'
    BY DEF PublishInv, ExecutionInv
  <1>2. RequestInv'
    BY DEF PublishInv, RequestInv
  <1>3. PublishedOnce' /\ PublishedAsScheduled' /\ AnnouncementsHaveNoDraft'
    BY DEF PublishInv, PublishedOnce, PublishedAsScheduled, By, AnnouncementsHaveNoDraft
  <1>4. QED
    BY <1>1, <1>2, <1>3 DEF PublishInv

\* A row that no execution holds may fail if it is pending, and be cancelled
\* if there is one.
LEMMA StatusForPublishing ==
    ASSUME PublishInv, NumberInv', versions' = versions,
           NEW s \in Schedule, RowFree(s), NEW status, schedule' = WithStatus(s, status),
           \/ status = "FAILED" /\ schedule[s].status = "PENDING"
           \/ status = "CANCELLED" /\ schedule[s].status # "NONE",
           \A w \in Worker : worker'[w] = worker[w] \/ worker'[w] = Idle,
           \A q \in Request : request'[q] = request[q] \/ request'[q] = Idle
    PROVE  PublishInv'
  <1>1. TypeOK /\ TypeOK'
    BY DEF PublishInv, NumberInv
  <1>2. \A x \in Schedule :
          /\ schedule'[x].kind = schedule[x].kind
          /\ schedule'[x].revision = schedule[x].revision
          /\ schedule'[x].status = IF x = s THEN status ELSE schedule[x].status
    BY <1>1 DEF WithStatus, TypeOK, Row
  <1>3. Idle.op = "idle"
    BY DEF Idle, Does
  <1>4. ExecutionInv'
    BY <1>1, <1>2, <1>3, AboutTyped DEF PublishInv, ExecutionInv, RowFree
  <1>5. RequestInv'
    BY <1>1, <1>2, <1>3, AboutTyped DEF PublishInv, RequestInv
  <1>6. PublishedOnce'
    BY <1>2 DEF PublishInv, PublishedOnce, By
  <1>7. PublishedAsScheduled' /\ AnnouncementsHaveNoDraft'
    BY <1>2 DEF PublishInv, PublishedAsScheduled, AnnouncementsHaveNoDraft, By
  <1>8. QED
    BY <1>4, <1>5, <1>6, <1>7 DEF PublishInv

\* Every step keeps the invariant.
LEMMA PublishStep == PublishInv /\ [Step]_vars => PublishInv'
  <1> SUFFICES ASSUME PublishInv, [Step]_vars PROVE PublishInv'
    OBVIOUS
  <1>n. NumberInv /\ NumberInv' /\ TypeOK
    BY NumberStep DEF PublishInv, NumberInv
  <1>i. Idle.op = "idle"
    BY DEF Idle, Does
  <1>a. \A w \in Worker : \A t : Works(w, t) =>
          /\ worker'[w] = t
          /\ \A x \in Worker : x # w => worker'[x] = worker[x]
    BY <1>n DEF Works, TypeOK
  <1>b. \A q \in Request : \A t : Holds(q, t) =>
          /\ request'[q] = t
          /\ \A x \in Request : x # q => request'[x] = request[x]
    BY <1>n DEF Holds, TypeOK
  <1> USE DEF content
  <1>1. CASE UNCHANGED vars
    BY <1>1, <1>n, QuietForPublishing DEF vars
  <1>2. ASSUME NEW w \in Worker, NEW s \in Schedule, Execute(w, s) PROVE PublishInv'
    <2> DEFINE row == schedule[s]
               revision == IF row.kind = FreeReport THEN draft ELSE 0
    <2>1. CASE ~Executable(row)
      <3>1. worker'[w].op = "failing"
        BY <1>2, <1>a, <2>1 DEF Execute, Does
      <3>2. \A x \in Worker : worker'[x] = worker[x] \/ worker'[x].op # "publishing"
        BY <1>2, <1>a, <2>1, <3>1 DEF Execute
      <3>3. QED
        BY <1>2, <1>n, <3>2, QuietForPublishing DEF Execute
    <2>2. CASE Executable(row)
      <3>1. row.kind \in Kind /\ revision \in 0 .. LastRevision
        BY <1>n, ConstantsAssumption DEF TypeOK, Row
      <3>2. revision = row.revision
        BY <2>2, <3>1 DEF Executable, PublishInv, AnnouncementsHaveNoDraft, Kind
      <3>3. worker'[w] = Does("publishing", Following(row.kind, revision, s))
        BY <1>2, <1>a, <2>2 DEF Execute
      <3>4. /\ worker'[w].about.by = s
            /\ worker'[w].about.kind = row.kind
            /\ worker'[w].about.revision = row.revision
        BY <3>1, <3>2, <3>3, <1>n, FollowingIs DEF Does
      <3>5. \A x \in Worker : x # w => worker'[x] = worker[x]
        BY <1>2, <1>a, <2>2 DEF Execute
      <3>6. ExecutionInv'
        BY <1>2, <3>4, <3>5 DEF Execute, ExecutionInv, PublishInv, RowFree
      <3>7. PublishedOnce' /\ PublishedAsScheduled' /\ AnnouncementsHaveNoDraft' /\ RequestInv'
        BY <1>2 DEF Execute, PublishInv, PublishedOnce, PublishedAsScheduled, By,
                    AnnouncementsHaveNoDraft, RequestInv
      <3>8. QED
        BY <1>n, <3>6, <3>7 DEF PublishInv
    <2>3. QED
      BY <2>1, <2>2
  <1>3. ASSUME NEW w \in Worker, CommitExecution(w) PROVE PublishInv'
    <2> DEFINE v == worker[w].about
    <2>1. /\ v.by \in Schedule /\ schedule[v.by].status = "PENDING"
          /\ v.kind = schedule[v.by].kind /\ v.revision = schedule[v.by].revision
      BY <1>3, <1>n, AboutTyped DEF CommitExecution, PublishInv, ExecutionInv
    <2>2. \A x \in Schedule :
            /\ schedule'[x].kind = schedule[x].kind
            /\ schedule'[x].revision = schedule[x].revision
            /\ schedule'[x].status = IF x = v.by THEN "PUBLISHED" ELSE schedule[x].status
      BY <1>3, <1>n, <2>1 DEF CommitExecution, WithStatus, TypeOK, Row
    <2>3. \A x \in Schedule : By(x)' = IF x = v.by THEN By(x) \cup {v} ELSE By(x)
      BY <1>3 DEF CommitExecution, By
    <2>4. By(v.by) = {}
      BY <2>1 DEF PublishInv, PublishedOnce
    <2>5. PublishedOnce'
      BY <2>2, <2>3, <2>4 DEF PublishInv, PublishedOnce
    <2>6. PublishedAsScheduled' /\ AnnouncementsHaveNoDraft'
      BY <2>1, <2>2, <2>3 DEF PublishInv, PublishedAsScheduled, AnnouncementsHaveNoDraft
    <2>7. /\ worker'[w].op = "idle"
          /\ \A x \in Worker : x # w => worker'[x] = worker[x]
          /\ request' = request
      BY <1>3, <1>a, <1>i DEF CommitExecution
    <2>8. ASSUME NEW x \in Worker, worker'[x].op = "publishing"
          PROVE  x # w /\ worker'[x] = worker[x] /\ worker[x].about.by \in Schedule \ {v.by}
      BY <1>3, <1>n, <2>7, <2>8, AboutTyped DEF CommitExecution, PublishInv, ExecutionInv
    <2>9. ExecutionInv'
      BY <2>2, <2>8 DEF PublishInv, ExecutionInv
    <2>10. RequestInv'
      BY <1>n, <2>2, <2>7, AboutTyped DEF PublishInv, RequestInv
    <2>11. QED
      BY <1>n, <2>5, <2>6, <2>9, <2>10 DEF PublishInv
  <1>4. ASSUME NEW w \in Worker, ConflictInExecution(w) \/ Crash(w) PROVE PublishInv'
    <2>1. \A x \in Worker : worker'[x] = worker[x] \/ worker'[x].op # "publishing"
      BY <1>4, <1>a, <1>i DEF ConflictInExecution, Crash, Does
    <2>2. QED
      BY <1>4, <1>n, <2>1, QuietForPublishing DEF ConflictInExecution, Crash
  <1>5. ASSUME NEW w \in Worker, MarkFailed(w) PROVE PublishInv'
    <2> DEFINE s == worker[w].about
    <2>1. s \in Schedule /\ \A x \in Worker : worker'[x] = worker[x] \/ worker'[x] = Idle
      BY <1>5, <1>n, <1>a, AboutTyped DEF MarkFailed
    <2>2. CASE schedule[s].status = "PENDING"
      BY <1>5, <1>n, <2>1, <2>2, StatusForPublishing DEF MarkFailed, Fails
    <2>3. CASE schedule[s].status # "PENDING"
      BY <1>5, <1>n, <1>i, <2>1, <2>3, QuietForPublishing DEF MarkFailed, Fails
    <2>4. QED
      BY <2>2, <2>3
  <1>6. ASSUME NEW q \in Request, NEW k \in Kind, NEW at \in Time, NEW staff \in Staff,
               BeginCreate(q, k, at, staff)
        PROVE  PublishInv'
    <2>1. /\ request'[q].op = "creating" /\ request'[q].about.status = "PENDING"
          /\ request'[q].about.kind = Announcement => request'[q].about.revision = 0
      BY <1>6, <1>b DEF BeginCreate, Does, Announcement, FreeReport
    <2>2. \A x \in Request : x # q => request'[x] = request[x]
      BY <1>6, <1>b DEF BeginCreate
    <2>3. QED
      BY <1>6, <1>n, <2>1, <2>2, QuietForPublishing DEF BeginCreate
  <1>7. ASSUME NEW q \in Request, NEW s \in Schedule, CommitCreate(q, s) PROVE PublishInv'
    <2> DEFINE row == request[q].about
    <2>1. /\ row.status = "PENDING"
          /\ row.kind = Announcement => row.revision = 0
      BY <1>7 DEF CommitCreate, PublishInv, RequestInv
    <2>2. /\ schedule'[s] = row /\ schedule[s].status = "NONE"
          /\ \A x \in Schedule : x # s => schedule'[x] = schedule[x]
      BY <1>7, <1>n DEF CommitCreate, TypeOK, NoRow
    <2>3. By(s) = {} /\ versions' = versions /\ worker' = worker
      BY <1>7, <2>2 DEF CommitCreate, PublishInv, PublishedOnce
    <2>4. PublishedOnce' /\ PublishedAsScheduled' /\ AnnouncementsHaveNoDraft'
      BY <2>1, <2>2, <2>3 DEF PublishInv, PublishedOnce, PublishedAsScheduled, By, AnnouncementsHaveNoDraft
    <2>5. ExecutionInv'
      BY <1>n, <2>2, <2>3, AboutTyped DEF PublishInv, ExecutionInv
    <2>6. request'[q] = Idle /\ \A x \in Request : x # q => request'[x] = request[x]
      BY <1>7, <1>b DEF CommitCreate
    <2>7. RequestInv'
      BY <1>n, <1>i, <2>1, <2>2, <2>6, AboutTyped DEF PublishInv, RequestInv
    <2>8. QED
      BY <1>n, <2>4, <2>5, <2>7 DEF PublishInv
  <1>8. ASSUME NEW q \in Request, RejectCreate(q) \/ ConflictInPublish(q) \/ CommitSuspend(q)
        PROVE  PublishInv'
    <2>1. \A x \in Request : request'[x] = request[x] \/ request'[x].op = "idle"
      BY <1>8, <1>b, <1>i DEF RejectCreate, ConflictInPublish, CommitSuspend
    <2>2. QED
      BY <1>8, <1>n, <2>1, QuietForPublishing DEF RejectCreate, ConflictInPublish, CommitSuspend
  <1>9. ASSUME NEW q \in Request, NEW s \in Schedule, BeginCancel(q, s) PROVE PublishInv'
    <2>1. /\ request'[q].op = "cancelling" /\ schedule[request'[q].about].status # "NONE"
          /\ \A x \in Request : x # q => request'[x] = request[x]
      BY <1>9, <1>b DEF BeginCancel, Does
    <2>2. QED
      BY <1>9, <1>n, <2>1, QuietForPublishing DEF BeginCancel
  <1>10. ASSUME NEW q \in Request, CommitCancel(q) PROVE PublishInv'
    <2>1. request[q].about \in Schedule /\ schedule[request[q].about].status # "NONE"
      BY <1>10, <1>n, AboutTyped DEF CommitCancel, PublishInv, RequestInv
    <2>2. \A x \in Request : request'[x] = request[x] \/ request'[x] = Idle
      BY <1>10, <1>b DEF CommitCancel
    <2>3. QED
      BY <1>10, <1>n, <2>1, <2>2, StatusForPublishing DEF CommitCancel
  <1>11. ASSUME NEW q \in Request, NEW k \in Kind, BeginPublish(q, k) PROVE PublishInv'
    <2> DEFINE revision == IF k = FreeReport THEN draft ELSE 0
    <2>1. revision \in 0 .. LastRevision
      BY <1>n, ConstantsAssumption DEF TypeOK
    <2>2. request'[q] = Does("publishing", Following(k, revision, None))
      BY <1>11, <1>b DEF BeginPublish
    <2>3. request'[q].op = "publishing" /\ request'[q].about.by = None
      BY <1>n, <2>1, <2>2, FollowingIs DEF Does
    <2>4. \A x \in Request : x # q => request'[x] = request[x]
      BY <1>11, <1>b DEF BeginPublish
    <2>5. QED
      BY <1>11, <1>n, <2>3, <2>4, QuietForPublishing DEF BeginPublish
  <1>12. ASSUME NEW q \in Request, CommitPublish(q) PROVE PublishInv'
    <2>1. request[q].about.by = None
      BY <1>12 DEF CommitPublish, PublishInv, RequestInv
    <2>2. \A s \in Schedule : By(s)' = By(s)
      BY <1>12, <2>1, ConstantsAssumption DEF CommitPublish, By
    <2>3. PublishedOnce' /\ PublishedAsScheduled' /\ AnnouncementsHaveNoDraft' /\ ExecutionInv'
      BY <1>12, <2>2 DEF CommitPublish, PublishInv, PublishedOnce, PublishedAsScheduled,
                         AnnouncementsHaveNoDraft, ExecutionInv
    <2>4. request'[q] = Idle /\ \A x \in Request : x # q => request'[x] = request[x]
      BY <1>12, <1>b DEF CommitPublish
    <2>5. RequestInv'
      BY <1>12, <1>i, <2>4 DEF CommitPublish, PublishInv, RequestInv
    <2>6. QED
      BY <1>n, <2>3, <2>5 DEF PublishInv
  <1>13. ASSUME NEW q \in Request, NEW staff \in Staff, BeginSuspend(q, staff) PROVE PublishInv'
    <2>1. /\ request'[q].op = "suspending"
          /\ \A x \in Request : x # q => request'[x] = request[x]
      BY <1>13, <1>b DEF BeginSuspend, Does
    <2>2. QED
      BY <1>13, <1>n, <2>1, QuietForPublishing DEF BeginSuspend
  <1>14. CASE \/ SaveDraft \/ ScratchEntry \/ Tick \/ \E staff \in Staff : Restore(staff)
              \/ \E startsAt \in Time, open \in BOOLEAN : ChangeRace(startsAt, open)
    BY <1>14, <1>n, QuietForPublishing DEF SaveDraft, ScratchEntry, Tick, Restore, ChangeRace
  <1>15. QED
    BY <1>1, <1>2, <1>3, <1>4, <1>5, <1>6, <1>7, <1>8, <1>9, <1>10, <1>11, <1>12, <1>13, <1>14
    DEF Step, FinishExecution, FinishRequest

\* A schedule publishes at most one version, and reads PUBLISHED only if it
\* did, however workers, crashes, failures and cancellations interleave.
THEOREM PublishedOnceCorrect == Spec => []PublishedOnce
  <1>1. PublishInv => PublishedOnce
    BY DEF PublishInv
  <1>2. QED
    BY <1>1, PublishInit, PublishStep, PTL DEF Spec

\* A schedule publishes the revision that was scheduled, or nothing.
THEOREM PublishedAsScheduledCorrect == Spec => []PublishedAsScheduled
  <1>1. PublishInv => PublishedAsScheduled
    BY DEF PublishInv
  <1>2. QED
    BY <1>1, PublishInit, PublishStep, PTL DEF Spec

-----------------------------------------------------------------------------
(***************************************************************************)
(* The other thing workers publish when it is due is the content of the    *)
(* CMS.  It stands here beside the schedules with constants and variables  *)
(* of its own; what is said of its constants is a hypothesis of each       *)
(* theorem about it.                                                       *)
(***************************************************************************)
CONSTANTS Editor, Draft, Bounds

VARIABLES view, disabled, suspending, contentWorker, deaths, contentNow, bound, promise

CMS == INSTANCE ContentItems WITH worker <- contentWorker, now <- contentNow

-----------------------------------------------------------------------------
(***************************************************************************)
(* What an editor has seen of an item.  A view with the item's revision    *)
(* shows the item, and while a schedule stands nobody changes the item     *)
(* without ending it; so what is published is what somebody had seen.      *)
(***************************************************************************)

\* Views are of the item as it is or was.
ViewsFollow ==
    \A e \in Editor :
        /\ view[e].revision <= item.revision
        /\ view[e].revision = item.revision => view[e].draft = item.draft

\* A schedule that stands is the one that was promised, of the present revision.
PromiseStands ==
    item.status = "SCHEDULED" =>
        /\ promise = [draft |-> item.draft, by |-> item.by]
        /\ item.scheduled = item.revision

Withdrawals == withdrawn <= Len(contentVersions)

ItemInv == CMS!TypeOK /\ ViewsFollow /\ PromiseStands /\ Withdrawals

\* Before it exists the item is nobody's.
LEMMA ItemInit ==
    ASSUME CMS!ConstantsAssumption
    PROVE  CMS!Init => ItemInv
  <1> SUFFICES ASSUME CMS!Init PROVE ItemInv
    OBVIOUS
  <1>1. LastTime \in Nat
    BY DEF CMS!ConstantsAssumption
  <1>2. item \in CMS!ItemRow /\ item.status = "DRAFT" /\ item.revision = 0 /\ item.draft = None
    <2>1. item = [revision |-> 0, status |-> "DRAFT", visible |-> FALSE, draft |-> None,
                  at |-> 0, scheduled |-> 0, by |-> None]
      BY DEF CMS!Init
    <2>2. 0 \in 0 .. LastTime /\ 0 \in Nat /\ None \in CMS!Text /\ None \in CMS!Person
      BY <1>1 DEF CMS!Text, CMS!Person
    <2>3. QED
      BY <2>1, <2>2 DEF CMS!ItemRow
  <1>3. /\ view \in [Editor -> CMS!ViewRow]
        /\ \A e \in Editor : view[e].revision = 0 /\ view[e].draft = None
    BY DEF CMS!Init, CMS!ViewRow, CMS!Text
  <1>4. CMS!TypeOK
    <2>1. /\ contentVersions = <<>> /\ disabled = {} /\ suspending = None /\ contentWorker = [w \in Worker |-> "idle"]
          /\ deaths = 0 /\ contentNow = 0 /\ bound \in Bounds /\ promise = None /\ withdrawn = 0
      BY DEF CMS!Init
    <2>2. /\ contentVersions \in Seq([draft : CMS!Text, by : CMS!Person, reviewed : CMS!Shown])
          /\ suspending \in CMS!Person /\ contentWorker \in [Worker -> {"idle", "picked", "failed"}]
          /\ contentNow \in 0 .. LastTime
      BY <1>1, <2>1 DEF CMS!Person
    <2>3. QED
      BY <1>2, <1>3, <2>1, <2>2 DEF CMS!TypeOK
  <1>5. QED
    BY <1>2, <1>3, <1>4 DEF CMS!Init, ItemInv, ViewsFollow, PromiseStands, Withdrawals

\* The item as a version or an unscheduled draft leaves it.
LEMMA UnscheduledTyped ==
    ASSUME CMS!ConstantsAssumption, CMS!TypeOK, NEW status \in {"DRAFT", "PUBLISHED"}
    PROVE  /\ CMS!Unscheduled(status) \in CMS!ItemRow
           /\ CMS!Unscheduled(status).status = status
           /\ CMS!Unscheduled(status).draft = item.draft
           /\ CMS!Unscheduled(status).visible = item.visible
           /\ CMS!Unscheduled(status).revision = item.revision
  <1>1. item \in CMS!ItemRow /\ 0 \in 0 .. LastTime
    BY DEF CMS!ConstantsAssumption, CMS!TypeOK
  <1>2. QED
    BY <1>1 DEF CMS!ItemRow, CMS!Unscheduled

\* So is the item as an execution leaves it.
LEMMA ExecutedTyped ==
    ASSUME NEW r \in CMS!ItemRow, NEW n \in Nat
    PROVE  /\ [r EXCEPT !.visible = TRUE, !.revision = n] \in CMS!ItemRow
           /\ [r EXCEPT !.visible = TRUE, !.revision = n].status = r.status
           /\ [r EXCEPT !.visible = TRUE, !.revision = n].revision = n
  BY DEF CMS!ItemRow

\* An editor's change makes the next revision, which that editor alone has seen.
LEMMA Changed ==
    ASSUME CMS!ConstantsAssumption, ItemInv, NEW e \in Editor,
           NEW new \in CMS!ItemRow, CMS!Becomes(e, new)
    PROVE  /\ item' = [new EXCEPT !.revision = item.revision + 1, !.by = e]
           /\ item' \in CMS!ItemRow
           /\ item'.status = new.status /\ item'.draft = new.draft /\ item'.scheduled = new.scheduled
           /\ view' \in [Editor -> CMS!ViewRow]
           /\ ViewsFollow'
  <1>1. item' = [new EXCEPT !.revision = item.revision + 1, !.by = e]
    BY DEF CMS!Becomes
  <1>2. item.revision \in Nat
    BY DEF ItemInv, CMS!TypeOK, CMS!ItemRow
  <1>3. item' \in CMS!ItemRow /\ item'.revision = item.revision + 1
       /\ item'.status = new.status /\ item'.draft = new.draft /\ item'.scheduled = new.scheduled
    <2>1. item.revision + 1 \in Nat /\ e \in CMS!Person
      BY <1>2 DEF CMS!Person
    <2>2. QED
      BY <1>1, <2>1 DEF CMS!ItemRow
  <1>4. view' = [view EXCEPT ![e] = [revision |-> item'.revision, draft |-> item'.draft, admitted |-> FALSE]]
    BY <1>1 DEF CMS!Becomes
  <1>5. view \in [Editor -> CMS!ViewRow]
    BY DEF ItemInv, CMS!TypeOK
  <1>6. view' \in [Editor -> CMS!ViewRow]
    BY <1>3, <1>4, <1>5 DEF CMS!ItemRow, CMS!ViewRow
  <1>7. ASSUME NEW d \in Editor
        PROVE  /\ view'[d].revision <= item'.revision
               /\ view'[d].revision = item'.revision => view'[d].draft = item'.draft
    <2>1. CASE d = e
      <3>1. view'[d] = [revision |-> item'.revision, draft |-> item'.draft, admitted |-> FALSE]
        BY <1>4, <1>5, <2>1
      <3>2. item'.revision \in Nat
        BY <1>2, <1>3
      <3>3. QED
        BY <3>1, <3>2
    <2>2. CASE d # e
      <3>1. view'[d] = view[d]
        BY <1>4, <1>5, <2>2
      <3>2. view[d].revision \in Nat /\ view[d].revision <= item.revision
        BY <1>5 DEF CMS!ViewRow, ItemInv, ViewsFollow
      <3>3. QED
        BY <1>2, <1>3, <3>1, <3>2
    <2>3. QED
      BY <2>1, <2>2
  <1>8. QED
    BY <1>1, <1>3, <1>6, <1>7 DEF ViewsFollow

\* The item moves on by itself when a worker writes it, and no view follows.
LEMMA Overtaken ==
    ASSUME ItemInv, UNCHANGED view, item'.revision = item.revision + 1
    PROVE  ViewsFollow'
  <1>1. item.revision \in Nat /\ \A e \in Editor : view[e].revision \in Nat
    BY DEF ItemInv, CMS!TypeOK, CMS!ItemRow, CMS!ViewRow
  <1>2. \A e \in Editor : view[e].revision <= item.revision
    BY DEF ItemInv, ViewsFollow
  <1>3. QED
    BY <1>1, <1>2 DEF ViewsFollow

\* A version more is a version of the item's text, and withdrawals stay behind.
LEMMA VersionAppended ==
    ASSUME ItemInv, NEW by \in CMS!Person, NEW reviewed \in CMS!Shown, CMS!Appended(by, reviewed)
    PROVE  /\ contentVersions' = Append(contentVersions, [draft |-> item.draft, by |-> by, reviewed |-> reviewed])
           /\ contentVersions' \in Seq([draft : CMS!Text, by : CMS!Person, reviewed : CMS!Shown])
           /\ Len(contentVersions') = Len(contentVersions) + 1
           /\ Len(contentVersions) \in Nat
  <1>1. item.draft \in CMS!Text
    BY DEF ItemInv, CMS!TypeOK, CMS!ItemRow
  <1>2. contentVersions \in Seq([draft : CMS!Text, by : CMS!Person, reviewed : CMS!Shown])
    BY DEF ItemInv, CMS!TypeOK
  <1>3. QED
    BY <1>1, <1>2 DEF CMS!Appended

\* What an editor does keeps views, schedules and withdrawals together.
LEMMA EditStep ==
    ASSUME CMS!ConstantsAssumption, ItemInv, NEW e \in Editor, CMS!Edit(e)
    PROVE  ItemInv'
  <1>1. CMS!TypeOK /\ item \in CMS!ItemRow /\ item.revision \in Nat /\ e \in CMS!Person
    BY DEF ItemInv, CMS!TypeOK, CMS!ItemRow, CMS!Person
  <1>2. ASSUME NEW d \in Draft, CMS!Save(e, d) PROVE ItemInv'
    <2> DEFINE new == [item EXCEPT !.status = "DRAFT", !.draft = d]
    <2>1. new \in CMS!ItemRow /\ new.status = "DRAFT"
      BY <1>1 DEF CMS!ItemRow, CMS!Text
    <2>2. CMS!Becomes(e, new)
      BY <1>2 DEF CMS!Save
    <2> HIDE DEF new
    <2>3. /\ item' \in CMS!ItemRow /\ view' \in [Editor -> CMS!ViewRow] /\ ViewsFollow'
          /\ item'.status = "DRAFT"
      BY <2>1, <2>2, Changed
    <2>4. QED
      BY <1>1, <1>2, <2>3
      DEF CMS!Save, ItemInv, CMS!TypeOK, PromiseStands, Withdrawals, CMS!published, CMS!staff,
          CMS!run, CMS!clock
  <1>3. CASE CMS!Publish(e)
    <2> DEFINE new == [CMS!Unscheduled("PUBLISHED") EXCEPT !.visible = TRUE]
               seen == [draft |-> view[e].draft, by |-> e]
    <2>1. new \in CMS!ItemRow /\ new.status = "PUBLISHED"
      BY <1>1, UnscheduledTyped DEF CMS!ItemRow
    <2>2. seen \in CMS!Shown
      BY <1>1 DEF CMS!TypeOK, CMS!ViewRow, CMS!Shown
    <2>3. /\ contentVersions' \in Seq([draft : CMS!Text, by : CMS!Person, reviewed : CMS!Shown])
          /\ Len(contentVersions') = Len(contentVersions) + 1 /\ Len(contentVersions) \in Nat
      BY <1>1, <1>3, <2>2, VersionAppended DEF CMS!Publish
    <2>4. CMS!Becomes(e, new)
      BY <1>3 DEF CMS!Publish
    <2> HIDE DEF new, seen
    <2>5. /\ item' \in CMS!ItemRow /\ view' \in [Editor -> CMS!ViewRow] /\ ViewsFollow'
          /\ item'.status = "PUBLISHED"
      BY <1>1, <2>1, <2>4, Changed
    <2>6. withdrawn' = withdrawn /\ withdrawn \in Nat /\ withdrawn <= Len(contentVersions)
      BY <1>1, <1>3 DEF CMS!Publish, CMS!TypeOK, ItemInv, Withdrawals
    <2>7. Withdrawals'
      BY <2>3, <2>6 DEF Withdrawals
    <2>8. QED
      BY <1>1, <1>3, <2>3, <2>5, <2>6, <2>7
      DEF CMS!Publish, ItemInv, CMS!TypeOK, PromiseStands, CMS!staff, CMS!run, CMS!clock
  <1>4. ASSUME NEW at \in 1 .. LastTime, CMS!Schedule(e, at) PROVE ItemInv'
    <2> DEFINE new == [item EXCEPT !.status = "SCHEDULED", !.at = at, !.scheduled = item.revision + 1]
    <2>1. /\ new \in CMS!ItemRow /\ new.draft = item.draft /\ new.scheduled = item.revision + 1
      <3>1. at \in 0 .. LastTime /\ item.revision + 1 \in Nat
        BY <1>1 DEF CMS!ConstantsAssumption
      <3>2. QED
        BY <1>1, <3>1 DEF CMS!ItemRow
    <2>2. CMS!Becomes(e, new)
      BY <1>4 DEF CMS!Schedule
    <2>3. item' = [new EXCEPT !.revision = item.revision + 1, !.by = e]
      BY <2>1, <2>2, Changed
    <2>4. /\ item'.draft = item.draft /\ item'.by = e /\ item'.revision = item.revision + 1
          /\ item'.scheduled = item.revision + 1
      BY <1>1, <2>1, <2>3 DEF CMS!ItemRow
    <2> HIDE DEF new
    <2>5. item' \in CMS!ItemRow /\ view' \in [Editor -> CMS!ViewRow] /\ ViewsFollow'
      BY <2>1, <2>2, Changed
    <2>6. view[e].revision = item.revision /\ view[e].draft = item.draft
      BY <1>4 DEF CMS!Schedule, CMS!Current, ItemInv, ViewsFollow
    <2>7. promise' = [draft |-> item.draft, by |-> e] /\ promise' \in CMS!Shown
      BY <1>1, <1>4, <2>6 DEF CMS!Schedule, CMS!Shown, CMS!ItemRow
    <2>8. PromiseStands'
      BY <2>4, <2>7 DEF PromiseStands
    <2>9. QED
      BY <1>1, <1>4, <2>5, <2>7, <2>8
      DEF CMS!Schedule, ItemInv, CMS!TypeOK, Withdrawals, CMS!published, CMS!staff, CMS!run,
          CMS!clock
  <1>5. CASE CMS!Cancel(e)
    <2>1. CMS!Unscheduled("DRAFT") \in CMS!ItemRow /\ CMS!Unscheduled("DRAFT").status = "DRAFT"
      BY <1>1, UnscheduledTyped
    <2>2. CMS!Becomes(e, CMS!Unscheduled("DRAFT"))
      BY <1>5 DEF CMS!Cancel
    <2>3. /\ item' \in CMS!ItemRow /\ view' \in [Editor -> CMS!ViewRow] /\ ViewsFollow'
          /\ item'.status = "DRAFT"
      BY <2>1, <2>2, Changed
    <2>4. QED
      BY <1>1, <1>5, <2>3
      DEF CMS!Cancel, ItemInv, CMS!TypeOK, PromiseStands, Withdrawals, CMS!published, CMS!staff,
          CMS!run, CMS!clock
  <1>6. CASE CMS!Archive(e)
    <2> DEFINE new == [item EXCEPT !.status = "ARCHIVED", !.visible = FALSE]
    <2>1. new \in CMS!ItemRow /\ new.status = "ARCHIVED"
      BY <1>1 DEF CMS!ItemRow
    <2>2. CMS!Becomes(e, new)
      BY <1>6 DEF CMS!Archive
    <2> HIDE DEF new
    <2>3. /\ item' \in CMS!ItemRow /\ view' \in [Editor -> CMS!ViewRow] /\ ViewsFollow'
          /\ item'.status = "ARCHIVED"
      BY <2>1, <2>2, Changed
    <2>4. withdrawn' = Len(contentVersions) /\ contentVersions' = contentVersions /\ Len(contentVersions) \in Nat
      BY <1>1, <1>6 DEF CMS!Archive, CMS!TypeOK
    <2>5. QED
      BY <1>1, <1>6, <2>3, <2>4
      DEF CMS!Archive, ItemInv, CMS!TypeOK, PromiseStands, Withdrawals, CMS!staff, CMS!run,
          CMS!clock
  <1>7. CASE CMS!Restore(e)
    <2>1. CMS!Restored \in CMS!ItemRow /\ CMS!Restored.status = "DRAFT"
      BY <1>1 DEF CMS!ItemRow, CMS!Restored
    <2>2. CMS!Becomes(e, CMS!Restored)
      BY <1>7 DEF CMS!Restore
    <2>3. /\ item' \in CMS!ItemRow /\ view' \in [Editor -> CMS!ViewRow] /\ ViewsFollow'
          /\ item'.status = "DRAFT"
      BY <2>1, <2>2, Changed
    <2>4. QED
      BY <1>1, <1>7, <2>3
      DEF CMS!Restore, ItemInv, CMS!TypeOK, PromiseStands, Withdrawals, CMS!published, CMS!staff,
          CMS!run, CMS!clock
  <1>8. QED
    BY <1>2, <1>3, <1>4, <1>5, <1>6, <1>7 DEF CMS!Edit

\* Loading, requests and suspensions leave the item as it is.
LEMMA OtherStep ==
    ASSUME CMS!ConstantsAssumption, ItemInv, NEW e \in Editor,
           \/ CMS!Load(e) \/ CMS!Admit(e) \/ CMS!Refuse(e)
           \/ CMS!BeginSuspend(e) \/ CMS!LetBack(e) \/ CMS!CommitSuspend
    PROVE  ItemInv'
  <1>1. /\ view \in [Editor -> CMS!ViewRow] /\ item.revision \in Nat /\ item.draft \in CMS!Text
        /\ disabled \subseteq Editor /\ suspending \in CMS!Person
    BY DEF ItemInv, CMS!TypeOK, CMS!ItemRow
  <1>2. view' \in [Editor -> CMS!ViewRow]
    <2>1. CASE CMS!Load(e)
      <3>1. [view[e] EXCEPT !.revision = item.revision, !.draft = item.draft] \in CMS!ViewRow
        BY <1>1 DEF CMS!ViewRow
      <3>2. QED
        BY <1>1, <2>1, <3>1 DEF CMS!Load
    <2>2. CASE CMS!Admit(e) \/ CMS!Refuse(e)
      <3>1. \A b \in BOOLEAN : [view[e] EXCEPT !.admitted = b] \in CMS!ViewRow
        BY <1>1 DEF CMS!ViewRow
      <3>2. QED
        BY <1>1, <2>2, <3>1 DEF CMS!Admit, CMS!Refuse
    <2>3. CASE CMS!BeginSuspend(e) \/ CMS!LetBack(e) \/ CMS!CommitSuspend
      BY <1>1, <2>3 DEF CMS!BeginSuspend, CMS!LetBack, CMS!CommitSuspend
    <2>4. QED
      BY <2>1, <2>2, <2>3
  <1>3. ViewsFollow'
    BY <1>1
    DEF ItemInv, ViewsFollow, CMS!Load, CMS!Admit, CMS!Refuse, CMS!BeginSuspend, CMS!LetBack,
        CMS!CommitSuspend, CMS!ViewRow
  <1>4. disabled' \subseteq Editor /\ suspending' \in CMS!Person
    BY <1>1
    DEF CMS!Load, CMS!Admit, CMS!Refuse, CMS!BeginSuspend, CMS!LetBack, CMS!CommitSuspend,
        CMS!staff, CMS!Person
  <1>5. UNCHANGED <<item, contentVersions, contentWorker, deaths, contentNow, bound, promise, withdrawn>>
    BY
    DEF CMS!Load, CMS!Admit, CMS!Refuse, CMS!BeginSuspend, CMS!LetBack, CMS!CommitSuspend,
        CMS!published, CMS!run, CMS!clock
  <1>6. QED
    BY <1>2, <1>3, <1>4, <1>5 DEF ItemInv, CMS!TypeOK, PromiseStands, Withdrawals

\* Workers publish what was promised, or end the schedule.
LEMMA WorkStep ==
    ASSUME CMS!ConstantsAssumption, ItemInv, NEW w \in Worker, CMS!Work(w) \/ CMS!Die(w)
    PROVE  ItemInv'
  <1>1. /\ CMS!TypeOK /\ item \in CMS!ItemRow /\ item.revision \in Nat /\ deaths \in Nat
        /\ contentWorker \in [Worker -> {"idle", "picked", "failed"}]
    BY DEF ItemInv, CMS!TypeOK, CMS!ItemRow
  <1>2. CASE CMS!Pick(w) \/ CMS!Skip(w) \/ CMS!Fail(w) \/ CMS!Die(w)
    <2>1. contentWorker' \in [Worker -> {"idle", "picked", "failed"}] /\ deaths' \in Nat
      BY <1>1, <1>2 DEF CMS!Pick, CMS!Skip, CMS!Fail, CMS!Die, CMS!Works
    <2>2. UNCHANGED <<item, contentVersions, view, disabled, suspending, contentNow, bound, promise, withdrawn>>
      BY <1>2 DEF CMS!Pick, CMS!Skip, CMS!Fail, CMS!Die, CMS!published, CMS!staff, CMS!clock
    <2>3. QED
      BY <2>1, <2>2 DEF ItemInv, CMS!TypeOK, ViewsFollow, PromiseStands, Withdrawals
  <1>3. CASE CMS!Execute(w)
    <2> DEFINE new == [CMS!Unscheduled("PUBLISHED") EXCEPT !.visible = TRUE, !.revision = @ + 1]
    <2>1. new \in CMS!ItemRow /\ new.status = "PUBLISHED" /\ new.revision = item.revision + 1
      <3> DEFINE u == CMS!Unscheduled("PUBLISHED")
      <3>1. u \in CMS!ItemRow /\ u.status = "PUBLISHED" /\ u.revision = item.revision
        BY <1>1, UnscheduledTyped
      <3>2. new = [u EXCEPT !.visible = TRUE, !.revision = u.revision + 1]
        OBVIOUS
      <3> HIDE DEF u, new
      <3>3. u.revision + 1 \in Nat
        BY <1>1, <3>1
      <3>4. /\ [u EXCEPT !.visible = TRUE, !.revision = u.revision + 1] \in CMS!ItemRow
            /\ [u EXCEPT !.visible = TRUE, !.revision = u.revision + 1].status = u.status
            /\ [u EXCEPT !.visible = TRUE, !.revision = u.revision + 1].revision = u.revision + 1
        BY <3>1, <3>3, ExecutedTyped
      <3>5. QED
        BY <3>1, <3>2, <3>4
    <2>2. item' = new
      BY <1>3 DEF CMS!Execute
    <2> HIDE DEF new
    <2>3. ViewsFollow'
      BY <1>3, <2>1, <2>2, Overtaken DEF CMS!Execute
    <2>4. promise \in CMS!Shown /\ item.by \in CMS!Person
      BY <1>1, <1>3 DEF CMS!Execute, CMS!Stands, ItemInv, PromiseStands, CMS!ItemRow, CMS!Shown
    <2>5. /\ contentVersions' \in Seq([draft : CMS!Text, by : CMS!Person, reviewed : CMS!Shown])
          /\ Len(contentVersions') = Len(contentVersions) + 1 /\ Len(contentVersions) \in Nat
      BY <1>3, <2>4, VersionAppended DEF CMS!Execute
    <2>6. withdrawn' = withdrawn /\ withdrawn \in Nat /\ withdrawn <= Len(contentVersions)
      BY <1>1, <1>3 DEF CMS!Execute, CMS!TypeOK, ItemInv, Withdrawals
    <2>7. Withdrawals'
      BY <2>5, <2>6 DEF Withdrawals
    <2>8. contentWorker' \in [Worker -> {"idle", "picked", "failed"}]
      BY <1>1, <1>3 DEF CMS!Execute, CMS!Works
    <2>9. QED
      BY <1>1, <1>3, <2>1, <2>2, <2>3, <2>5, <2>6, <2>7, <2>8
      DEF CMS!Execute, ItemInv, CMS!TypeOK, PromiseStands, CMS!staff, CMS!clock
  <1>4. CASE CMS!RecordFailure(w)
    <2>1. contentWorker' \in [Worker -> {"idle", "picked", "failed"}]
      BY <1>1, <1>4 DEF CMS!RecordFailure, CMS!Works
    <2>2. UNCHANGED <<contentVersions, view, disabled, suspending, deaths, contentNow, bound, withdrawn>>
      BY <1>4 DEF CMS!RecordFailure, CMS!published, CMS!staff, CMS!clock
    <2>3. CASE CMS!Stands
      <3> DEFINE new == [CMS!Unscheduled("DRAFT") EXCEPT !.revision = @ + 1]
      <3>1. new \in CMS!ItemRow /\ new.status = "DRAFT" /\ new.revision = item.revision + 1
        BY <1>1, UnscheduledTyped DEF CMS!ItemRow
      <3>2. item' = new /\ promise' = None
        BY <1>4, <2>3 DEF CMS!RecordFailure
      <3> HIDE DEF new
      <3>3. ViewsFollow'
        BY <2>2, <3>1, <3>2, Overtaken
      <3>4. QED
        BY <1>1, <2>1, <2>2, <3>1, <3>2, <3>3 DEF ItemInv, CMS!TypeOK, PromiseStands, Withdrawals
    <2>4. CASE ~CMS!Stands
      BY <1>1, <1>4, <2>1, <2>2, <2>4
      DEF CMS!RecordFailure, ItemInv, CMS!TypeOK, ViewsFollow, PromiseStands, Withdrawals
    <2>5. QED
      BY <2>3, <2>4
  <1>5. QED
    BY <1>2, <1>3, <1>4 DEF CMS!Work

\* Who takes part.
LEMMA BoundTyped ==
    ASSUME CMS!ConstantsAssumption, ItemInv
    PROVE  bound.editors \subseteq Editor /\ bound.workers \subseteq Worker
  <1>1. bound \in [editors : SUBSET Editor, workers : SUBSET Worker, revisions : Nat, deaths : Nat]
    BY DEF CMS!ConstantsAssumption, ItemInv, CMS!TypeOK
  <1>2. QED
    BY <1>1

\* So does every step.
LEMMA ItemStep ==
    ASSUME CMS!ConstantsAssumption
    PROVE  ItemInv /\ [CMS!Next]_CMS!vars => ItemInv'
  <1> SUFFICES ASSUME ItemInv, [CMS!Next]_CMS!vars PROVE ItemInv'
    OBVIOUS
  <1>2. bound.editors \subseteq Editor /\ bound.workers \subseteq Worker
    BY BoundTyped
  <1>3. ASSUME NEW e \in bound.editors,
               \/ CMS!Load(e) \/ CMS!Admit(e) \/ CMS!Refuse(e)
               \/ CMS!Edit(e) \/ CMS!BeginSuspend(e) \/ CMS!LetBack(e)
        PROVE  ItemInv'
    BY <1>2, <1>3, EditStep, OtherStep
  <1>4. CASE CMS!CommitSuspend
    <2>1. suspending \in Editor
      BY <1>4 DEF CMS!CommitSuspend, ItemInv, CMS!TypeOK, CMS!Person
    <2>2. QED
      BY <1>4, <2>1, OtherStep
  <1>5. ASSUME NEW w \in bound.workers, CMS!Work(w) \/ CMS!Die(w) PROVE ItemInv'
    BY <1>2, <1>5, WorkStep
  <1>6. CASE CMS!Tick
    <2>1. contentNow' \in 0 .. LastTime
      BY <1>6 DEF CMS!ConstantsAssumption, CMS!Tick, ItemInv, CMS!TypeOK
    <2>2. UNCHANGED <<item, contentVersions, view, disabled, suspending, contentWorker, deaths, bound, promise, withdrawn>>
      BY <1>6 DEF CMS!Tick, CMS!published, CMS!staff
    <2>3. QED
      BY <2>1, <2>2 DEF ItemInv, CMS!TypeOK, ViewsFollow, PromiseStands, Withdrawals
  <1>7. CASE UNCHANGED CMS!vars
    BY <1>7 DEF CMS!vars, ItemInv, CMS!TypeOK, ViewsFollow, PromiseStands, Withdrawals
  <1>8. QED
    BY <1>3, <1>4, <1>5, <1>6, <1>7 DEF CMS!Next

\* Every variable of a content item holds a value of its type.
THEOREM ContentTypeCorrect ==
    ASSUME CMS!ConstantsAssumption
    PROVE  CMS!Spec => []CMS!TypeOK
  <1>1. ItemInv => CMS!TypeOK
    BY DEF ItemInv
  <1>2. QED
    BY <1>1, ItemInit, ItemStep, PTL DEF CMS!Spec

\* No version is published, by hand or by a worker, but what the person in
\* whose name it is published had before them, however many editors, workers,
\* suspensions and deaths there are between a look at the item and its execution.
THEOREM PublishedAsReviewedCorrect ==
    ASSUME CMS!ConstantsAssumption
    PROVE  CMS!Spec => []PublishedAsReviewed
  <1>1. CMS!Init => PublishedAsReviewed
    BY DEF CMS!Init, PublishedAsReviewed
  <1>2. ItemInv /\ PublishedAsReviewed /\ [CMS!Next]_CMS!vars => PublishedAsReviewed'
    <2> SUFFICES ASSUME ItemInv, PublishedAsReviewed, [CMS!Next]_CMS!vars
                 PROVE  PublishedAsReviewed'
      OBVIOUS
    <2>1. bound.editors \subseteq Editor /\ bound.workers \subseteq Worker
      BY BoundTyped
    <2>2. CASE UNCHANGED contentVersions
      BY <2>2 DEF PublishedAsReviewed
    <2>3. ASSUME NEW by \in CMS!Person, NEW reviewed \in CMS!Shown, CMS!Appended(by, reviewed),
                 reviewed = [draft |-> item.draft, by |-> by]
          PROVE  PublishedAsReviewed'
      <3>1. /\ contentVersions' = Append(contentVersions, [draft |-> item.draft, by |-> by, reviewed |-> reviewed])
            /\ Len(contentVersions') = Len(contentVersions) + 1 /\ Len(contentVersions) \in Nat
        BY <2>3, VersionAppended
      <3>2. contentVersions \in Seq([draft : CMS!Text, by : CMS!Person, reviewed : CMS!Shown])
        BY DEF ItemInv, CMS!TypeOK
      <3>3. QED
        BY <2>3, <3>1, <3>2 DEF PublishedAsReviewed
    <2>4. ASSUME NEW e \in bound.editors, CMS!Publish(e) PROVE PublishedAsReviewed'
      <3>1. e \in Editor /\ view[e] \in CMS!ViewRow /\ view[e].draft = item.draft
        BY <2>1, <2>4 DEF CMS!Publish, CMS!Current, ItemInv, CMS!TypeOK, ViewsFollow
      <3>2. [draft |-> view[e].draft, by |-> e] \in CMS!Shown /\ e \in CMS!Person
        BY <3>1 DEF CMS!ViewRow, CMS!Shown, CMS!Person
      <3>3. QED
        BY <2>3, <2>4, <3>1, <3>2 DEF CMS!Publish
    <2>5. ASSUME NEW w \in bound.workers, CMS!Execute(w) PROVE PublishedAsReviewed'
      <3>1. item \in CMS!ItemRow /\ promise = [draft |-> item.draft, by |-> item.by]
        BY <2>5 DEF CMS!Execute, CMS!Stands, ItemInv, CMS!TypeOK, PromiseStands
      <3>2. promise \in CMS!Shown /\ item.by \in CMS!Person
        BY <3>1 DEF CMS!ItemRow, CMS!Shown
      <3>3. QED
        BY <2>3, <2>5, <3>1, <3>2 DEF CMS!Execute
    <2>6. QED
      BY <2>2, <2>4, <2>5
      DEF CMS!Next, CMS!Load, CMS!Admit, CMS!Refuse, CMS!Edit, CMS!Save, CMS!Schedule, CMS!Cancel,
          CMS!Archive, CMS!Restore, CMS!BeginSuspend,
          CMS!CommitSuspend, CMS!LetBack, CMS!Work, CMS!Pick, CMS!Skip, CMS!Fail,
          CMS!RecordFailure, CMS!Die, CMS!Tick, CMS!vars, CMS!published
  <1>3. QED
    BY <1>1, <1>2, ItemInit, ItemStep, PTL DEF CMS!Spec

\* A withdrawn item is shown again by a new version only, whatever drafts,
\* restorations, schedules and failures come between.
THEOREM WithdrawnStaysHiddenCorrect ==
    ASSUME CMS!ConstantsAssumption
    PROVE  CMS!Spec => []WithdrawnStaysHidden
  <1>1. CMS!Init => WithdrawnStaysHidden
    BY DEF CMS!Init, WithdrawnStaysHidden
  <1>2. ItemInv /\ WithdrawnStaysHidden /\ [CMS!Next]_CMS!vars => WithdrawnStaysHidden'
    <2> SUFFICES ASSUME ItemInv, WithdrawnStaysHidden, [CMS!Next]_CMS!vars
                 PROVE  WithdrawnStaysHidden'
      OBVIOUS
    <2>1. bound.editors \subseteq Editor /\ bound.workers \subseteq Worker
      BY BoundTyped
    <2>2. /\ item \in CMS!ItemRow /\ CMS!TypeOK /\ withdrawn \in Nat /\ Len(contentVersions) \in Nat
          /\ withdrawn <= Len(contentVersions)
      BY DEF ItemInv, CMS!TypeOK, Withdrawals
    <2>3. CASE item'.visible = item.visible /\ UNCHANGED <<contentVersions, withdrawn>>
      BY <2>3 DEF WithdrawnStaysHidden
    <2>4. CASE Len(contentVersions') = Len(contentVersions) + 1 /\ UNCHANGED withdrawn
      BY <2>2, <2>4 DEF WithdrawnStaysHidden
    <2>5. ASSUME NEW e \in bound.editors, NEW d \in Draft, CMS!Save(e, d)
          PROVE  WithdrawnStaysHidden'
      <3>1. item'.visible = item.visible
        BY <2>2, <2>5 DEF CMS!Save, CMS!Becomes, CMS!ItemRow
      <3>2. QED
        BY <2>3, <2>5, <3>1 DEF CMS!Save, CMS!published
    <2>6. ASSUME NEW e \in bound.editors, CMS!Publish(e) PROVE WithdrawnStaysHidden'
      <3>1. [draft |-> view[e].draft, by |-> e] \in CMS!Shown /\ e \in CMS!Person
        BY <2>1 DEF ItemInv, CMS!TypeOK, CMS!ViewRow, CMS!Shown, CMS!Person
      <3>2. QED
        BY <2>4, <2>6, <3>1, VersionAppended DEF CMS!Publish
    <2>7. ASSUME NEW e \in bound.editors, NEW at \in 1 .. LastTime, CMS!Schedule(e, at)
          PROVE  WithdrawnStaysHidden'
      <3>1. item'.visible = item.visible
        BY <2>2, <2>7 DEF CMS!Schedule, CMS!Becomes, CMS!ItemRow
      <3>2. QED
        BY <2>3, <2>7, <3>1 DEF CMS!Schedule, CMS!published
    <2>8. ASSUME NEW e \in bound.editors, CMS!Cancel(e) PROVE WithdrawnStaysHidden'
      <3>1. item'.visible = item.visible
        BY <2>2, <2>8 DEF CMS!Cancel, CMS!Becomes, CMS!Unscheduled, CMS!ItemRow
      <3>2. QED
        BY <2>3, <2>8, <3>1 DEF CMS!Cancel, CMS!published
    <2>9. ASSUME NEW e \in bound.editors, CMS!Archive(e) PROVE WithdrawnStaysHidden'
      <3>1. item'.visible = FALSE
        BY <2>2, <2>9 DEF CMS!Archive, CMS!Becomes, CMS!ItemRow
      <3>2. QED
        BY <3>1 DEF WithdrawnStaysHidden
    <2>10. ASSUME NEW e \in bound.editors, CMS!Restore(e) PROVE WithdrawnStaysHidden'
      <3>1. item'.visible = item.visible
        BY <2>2, <2>10 DEF CMS!Restore, CMS!Restored, CMS!Becomes, CMS!ItemRow
      <3>2. QED
        BY <2>3, <2>10, <3>1 DEF CMS!Restore, CMS!published
    <2>11. ASSUME NEW w \in bound.workers, CMS!Execute(w) PROVE WithdrawnStaysHidden'
      <3>1. promise \in CMS!Shown /\ item.by \in CMS!Person
        BY <2>2, <2>11 DEF CMS!Execute, CMS!Stands, ItemInv, PromiseStands, CMS!ItemRow, CMS!Shown
      <3>2. QED
        BY <2>4, <2>11, <3>1, VersionAppended DEF CMS!Execute
    <2>12. ASSUME NEW w \in bound.workers, CMS!RecordFailure(w) PROVE WithdrawnStaysHidden'
      <3>1. item'.visible = item.visible
        BY <2>2, <2>12 DEF CMS!RecordFailure, CMS!Unscheduled, CMS!ItemRow
      <3>2. QED
        BY <2>3, <2>12, <3>1 DEF CMS!RecordFailure, CMS!published
    <2>13. CASE UNCHANGED <<item, contentVersions, withdrawn>>
      BY <2>3, <2>13
    <2>14. QED
      BY <2>5, <2>6, <2>7, <2>8, <2>9, <2>10, <2>11, <2>12, <2>13
      DEF CMS!Next, CMS!Load, CMS!Admit, CMS!Refuse, CMS!Edit, CMS!BeginSuspend, CMS!CommitSuspend,
          CMS!LetBack, CMS!Work, CMS!Pick, CMS!Skip,
          CMS!Fail, CMS!Die, CMS!Tick, CMS!vars, CMS!published
  <1>3. QED
    BY <1>1, <1>2, ItemInit, ItemStep, PTL DEF CMS!Spec

\* A schedule that stands is always of the item's present revision: what the
\* execution checks of revisions never refuses it, and only the suspension of
\* its editor can.
THEOREM ScheduleIsCurrentCorrect ==
    ASSUME CMS!ConstantsAssumption
    PROVE  CMS!Spec => [](CMS!Stands => CMS!Executable \/ item.by \in disabled)
  <1>1. ItemInv => (CMS!Stands => CMS!Executable \/ item.by \in disabled)
    BY DEF ItemInv, PromiseStands, CMS!Stands, CMS!Executable
  <1>2. QED
    BY <1>1, ItemInit, ItemStep, PTL DEF CMS!Spec
=============================================================================

------------------------------- MODULE RaceDay -------------------------------
(***************************************************************************)
(* One race from its registration to its evaluated result.  Staff edit the *)
(* race and its entries, by hand or from a file that is previewed first    *)
(* (apps/api/src/races.controller.ts), assess the horses                   *)
(* (assessments.controller.ts), save, preview and publish the prediction   *)
(* (predictions.controller.ts), then save or import, and confirm, the      *)
(* result, which evaluates every published version (results.controller.ts).*)
(*                                                                         *)
(* Most of these transactions take the advisory lock 7262026, so they do   *)
(* not interleave with each other; saving and confirming a result does not *)
(* take it.  A transaction that one of those two can interleave with has   *)
(* two steps: what it reads, and what it writes and commits.  The others   *)
(* are one step.  A transaction lasts less than one unit of time.          *)
(*                                                                         *)
(* Left out: who may do what, the audit log, the switches that stop        *)
(* publications and imports, the horses' identities, and requests repeated *)
(* under the same idempotency key, which are answered without a change.    *)
(***************************************************************************)
EXTENDS Naturals, Sequences, FiniteSets

CONSTANTS
    Request,        \* requests in flight
    Horse, Entered, \* the horses, and those entered when the race is created
    Marks,          \* what a draft may say: functions from horses to types
    Result,         \* what a result draft may say: [place, canceled]
    EditTo,         \* the statuses an edit may choose
    DelayedOpen,    \* delayedPublicationPolicy is LATEST_STARTS_AT
    Bounds          \* the bounds one behaviour may keep to: revisions of the race
                    \* and of assessments, drafts and previews of the prediction,
                    \* drafts and imports of the result, start of the race, time

Known == {"SCHEDULED", "ACTIVE", "DELAYED", "FINISHED", "CANCELLED"}

ASSUME ConstantsAssumption ==
    /\ Entered \subseteq Horse
    /\ \A m \in Marks : DOMAIN m \subseteq Horse
    /\ \A r \in Result : DOMAIN r.place \subseteq Horse /\ r.canceled \in BOOLEAN
    /\ EditTo \subseteq Known /\ DelayedOpen \in BOOLEAN
    /\ Bounds \subseteq [revision : Nat, assessment : Nat, draft : Nat, previews : Nat,
                         saved : Nat, imports : Nat, start : Nat, time : Nat]

VARIABLES
    race,       \* status, startsAt, revision
    entry,      \* Horse -> its status in this race
    assessed,   \* Horse -> the revision of its assessment
    draft,      \* the prediction's draft: revision, marks
    previews,   \* rows of publication_previews
    versions,   \* rows of prediction_versions, in order
    saved,      \* the contents of the result draft, by revision
    imports,    \* rows of import_batches
    results,    \* rows of race_result_versions, in order
    request,    \* Request -> what its transaction is about to do
    now, bound,
    overlapped, \* history: versions inserted while a confirmation had read them
    reopened    \* history: a race with a result was edited

vars == <<race, entry, assessed, draft, previews, versions, saved, imports, results,
          request, now, bound, overlapped, reopened>>

Closed == {"FINISHED", "CANCELLED"}
Idle == [op |-> "idle"]
Does(q, what) == request' = [request EXCEPT ![q] = what]
Runners == {h \in Horse : entry[h] # "NONE"}

\* The advisory lock 7262026.
LockFree == \A q \in Request : request[q].op \notin {"publish", "edit", "import"}

Init ==
    /\ race = [status |-> "SCHEDULED", startsAt |-> 1, revision |-> 1]
    /\ entry = [h \in Horse |-> IF h \in Entered THEN "ACTIVE" ELSE "NONE"]
    /\ assessed = [h \in Horse |-> 0]
    /\ draft = [revision |-> 0, marks |-> <<>>]
    /\ previews = {} /\ versions = <<>> /\ saved = <<>> /\ imports = {} /\ results = <<>>
    /\ request = [q \in Request |-> Idle]
    /\ now = 0 /\ bound \in Bounds /\ overlapped = {} /\ reopened = FALSE

-----------------------------------------------------------------------------
(***************************************************************************)
(* The race, its entries and the assessments.                              *)
(***************************************************************************)

\* A race is edited by a client that holds its current revision.
BeginEdit(q, status, start) ==
    /\ LockFree /\ request[q] = Idle
    /\ race.revision < bound.revision
    /\ Does(q, [op |-> "edit", at |-> now, status |-> status, start |-> start,
                seen |-> results, file |-> {}])
    /\ UNCHANGED <<bound, race, entry, assessed, draft, previews, versions, saved, imports, results,
                   now, overlapped, reopened>>

EditBase == <<race, entry>>

\* The same edit from a file: the preview keeps what it was compared with.
PreviewEdit(status, start) ==
    /\ LockFree
    /\ Cardinality(imports) < bound.imports
    /\ imports' = imports \cup
           {[kind |-> "race", status |-> status, start |-> start, base |-> EditBase,
             until |-> now + 1, confirmed |-> FALSE]}
    /\ UNCHANGED <<bound, race, entry, assessed, draft, previews, versions, saved, results,
                   request, now, overlapped, reopened>>

BeginImportEdit(q, b) ==
    /\ LockFree /\ request[q] = Idle
    /\ b.kind = "race" /\ ~b.confirmed /\ now < b.until
    /\ b.base = EditBase
    /\ race.revision < bound.revision
    /\ Does(q, [op |-> "edit", at |-> now, status |-> b.status, start |-> b.start,
                seen |-> results, file |-> {b}])
    /\ UNCHANGED <<bound, race, entry, assessed, draft, previews, versions, saved, imports, results,
                   now, overlapped, reopened>>

\* saveRace writes the row by its id.
CommitEdit(q) ==
    /\ request[q].op = "edit"
    /\ race' = [status |-> request[q].status, startsAt |-> request[q].start,
                revision |-> race.revision + 1]
    /\ reopened' = (reopened \/ results # <<>> \/ \E p \in Request : request[p].op = "confirm")
    /\ imports' = (imports \ request[q].file) \cup
                   {[b EXCEPT !.confirmed = TRUE] : b \in request[q].file}
    /\ Does(q, Idle)
    /\ UNCHANGED <<bound, entry, assessed, draft, previews, versions, saved, results, now, overlapped>>

\* A horse is entered, taken out (scratched, excluded, stopped) or put back.
SaveEntry(h, status) ==
    /\ LockFree
    /\ race.revision < bound.revision
    /\ status # entry[h]
    /\ entry' = [entry EXCEPT ![h] = status]
    /\ race' = [race EXCEPT !.revision = @ + 1]
    /\ UNCHANGED <<bound, assessed, draft, previews, versions, saved, imports, results, request, now,
                   overlapped, reopened>>

Assess(h) ==
    /\ LockFree
    /\ h \in Runners
    /\ assessed[h] < bound.assessment
    /\ assessed' = [assessed EXCEPT ![h] = @ + 1]
    /\ UNCHANGED <<bound, race, entry, draft, previews, versions, saved, imports, results, request,
                   now, overlapped, reopened>>

-----------------------------------------------------------------------------
(***************************************************************************)
(* The prediction.                                                         *)
(***************************************************************************)
SaveDraft(marks) ==
    /\ LockFree
    /\ draft.revision < bound.draft
    /\ draft' = [revision |-> draft.revision + 1, marks |-> marks]
    /\ UNCHANGED <<bound, race, entry, assessed, previews, versions, saved, imports, results, request,
                   now, overlapped, reopened>>

Snapshot == [race |-> race, entry |-> entry, assessed |-> assessed, draft |-> draft,
             latest |-> Len(versions)]

\* Faulty variant: without the assessments.
FingerprintUnassessed(s) == [s EXCEPT !.assessed = 0]

\* The hash of what the reviewer was shown and what it depends on.
Fingerprint(s) == s

\* What is published of it.
Shown(s) == [marks |-> s.draft.marks, entry |-> s.entry, assessed |-> s.assessed]

Open ==
    /\ race.status \notin Closed
    /\ race.status = "DELAYED" => DelayedOpen
    /\ now < race.startsAt

MarksValid == \A h \in DOMAIN draft.marks : entry[h] = "ACTIVE"

\* A preview is good for a quarter of an hour, one unit of time.
Preview ==
    /\ LockFree /\ Open /\ MarksValid
    /\ draft.revision > 0
    /\ Cardinality(previews) < bound.previews
    /\ previews' = previews \cup
           {[base |-> Fingerprint(Snapshot), shown |-> Shown(Snapshot), next |-> Len(versions) + 1,
             until |-> now + 1, version |-> 0]}
    /\ UNCHANGED <<bound, race, entry, assessed, draft, versions, saved, imports, results, request,
                   now, overlapped, reopened>>

BeginPublish(q, p) ==
    /\ LockFree /\ request[q] = Idle
    /\ p.version = 0 /\ now < p.until
    /\ Open /\ MarksValid
    /\ p.base = Fingerprint(Snapshot)
    /\ p.next = Len(versions) + 1
    /\ Does(q, [op |-> "publish", at |-> now, preview |-> p, shown |-> Shown(Snapshot)])
    /\ UNCHANGED <<bound, race, entry, assessed, draft, previews, versions, saved, imports, results,
                   now, overlapped, reopened>>

\* Faulty variant: the deadline alone.
InsertableBefore(at) == at < race.startsAt

\* The trigger of prediction_versions reads the race again, under a row lock;
\* `at' is when the transaction began.
Insertable(at) == race.status \notin Closed /\ at < race.startsAt

CommitPublish(q) ==
    LET p == request[q].preview
        number == Len(versions) + 1
    IN  /\ request[q].op = "publish"
        /\ IF Insertable(request[q].at)
           THEN /\ versions' = Append(versions, request[q].shown)
                /\ previews' = (previews \ {p}) \cup {[p EXCEPT !.version = number]}
                /\ overlapped' = IF \E c \in Request : request[c].op = "confirm"
                                 THEN overlapped \cup {number} ELSE overlapped
           ELSE UNCHANGED <<versions, previews, overlapped>>
        /\ Does(q, Idle)
        /\ UNCHANGED <<bound, race, entry, assessed, draft, saved, imports, results, now, reopened>>

-----------------------------------------------------------------------------
(***************************************************************************)
(* The result.                                                             *)
(***************************************************************************)
Started == now >= race.startsAt
Complete(result) == DOMAIN result.place = Runners

\* The draft's row is locked by a confirmation that read it.
DraftFree == \A q \in Request : request[q].op # "confirm"

\* The race and its entries are read before the transaction.
BeginSave(q, result) ==
    /\ request[q] = Idle
    /\ Len(saved) < bound.saved
    /\ Started /\ Complete(result)
    /\ Does(q, [op |-> "save", at |-> now, result |-> result, revision |-> Len(saved)])
    /\ UNCHANGED <<bound, race, entry, assessed, draft, previews, versions, saved, imports, results,
                   now, overlapped, reopened>>

\* Faulty variant: the later one wins.
SameRevisionUnchecked(q) == TRUE

\* updateMany where revision, or a first row that is unique.
SameRevision(q) == request[q].revision = Len(saved)

CommitSave(q) ==
    /\ request[q].op = "save"
    /\ DraftFree
    /\ saved' = IF SameRevision(q) THEN Append(saved, request[q].result) ELSE saved
    /\ Does(q, Idle)
    /\ UNCHANGED <<bound, race, entry, assessed, draft, previews, versions, imports, results, now,
                   overlapped, reopened>>

Standing == IF saved = <<>> THEN <<>> ELSE saved[Len(saved)]

\* Faulty variant: without the draft.
BaselineOfRace == [startsAt |-> race.startsAt, status |-> race.status, horses |-> Runners]

\* What an import replaces.
Baseline == [startsAt |-> race.startsAt, status |-> race.status, horses |-> Runners,
             revision |-> Len(saved), content |-> Standing]

\* A file of several races is imported once; one of a single race may be
\* imported again.
SourceFree(kind, result) ==
    kind = "batch" => \A b \in imports : ~(b.kind = "batch" /\ b.confirmed /\ b.result = result)

PreviewImport(kind, result) ==
    /\ LockFree
    /\ Cardinality(imports) < bound.imports
    /\ Started /\ Complete(result) /\ SourceFree(kind, result)
    /\ imports' = imports \cup
           {[kind |-> kind, result |-> result, base |-> Baseline, replaces |-> Standing,
             target |-> Len(saved) + 1, until |-> now + 1, confirmed |-> FALSE]}
    /\ UNCHANGED <<bound, race, entry, assessed, draft, previews, versions, saved, results, request,
                   now, overlapped, reopened>>

BeginImport(q, b) ==
    /\ LockFree /\ request[q] = Idle
    /\ b.kind # "race" /\ ~b.confirmed /\ now < b.until
    /\ SourceFree(b.kind, b.result)
    /\ b.base = Baseline
    /\ Started /\ Complete(b.result)
    /\ Does(q, [op |-> "import", at |-> now, batch |-> b, result |-> b.result, revision |-> Len(saved)])
    /\ UNCHANGED <<bound, race, entry, assessed, draft, previews, versions, saved, imports, results,
                   now, overlapped, reopened>>

CommitImport(q) ==
    LET b == request[q].batch
    IN  /\ request[q].op = "import"
        /\ DraftFree
        /\ IF SameRevision(q)
           THEN /\ saved' = Append(saved, b.result)
                /\ imports' = (imports \ {b}) \cup {[b EXCEPT !.confirmed = TRUE]}
           ELSE UNCHANGED <<saved, imports>>
        /\ Does(q, Idle)
        /\ UNCHANGED <<bound, race, entry, assessed, draft, previews, versions, results, now,
                       overlapped, reopened>>

\* How a published version did (evaluatePrediction).
Evaluate(marks, result) ==
    LET place == result.place
        primary == {h \in DOMAIN marks : marks[h] = "PRIMARY"}
        winners == {h \in DOMAIN place : place[h] = 1}
    IN  CASE result.canceled -> "CANCELED"
          [] ~result.canceled /\ marks = <<>> -> "SKIPPED"
          [] OTHER ->
             IF Cardinality(primary) # 1 \/ ~(primary \subseteq DOMAIN place) THEN "REVIEW_REQUIRED"
             ELSE LET p == place[CHOOSE h \in primary : TRUE]
                  IN  CASE p = 0 -> "EXCLUDED"
                        [] p # 0 /\ Cardinality(winners) # 1 -> "REVIEW_REQUIRED"
                        [] p = 1 /\ Cardinality(winners) = 1 -> "PRIMARY_WIN"
                        [] OTHER -> IF p = 2 THEN "PRIMARY_TOP2"
                                    ELSE IF p = 3 THEN "PRIMARY_TOP3"
                                    ELSE IF \E h \in winners : h \in DOMAIN marks /\ marks[h] # "RISK"
                                    THEN "WINNER_IN_RECOMMENDED" ELSE "WINNER_NOT_RECOMMENDED"

Sourced(revision) == \E i \in DOMAIN results : results[i].source = revision

\* A confirmation of a revision that has its result is answered at once.
AskConfirm(q, revision) ==
    /\ request[q] = Idle
    /\ ~Sourced(revision)
    /\ Does(q, [op |-> "ask", at |-> now, revision |-> revision])
    /\ UNCHANGED <<bound, race, entry, assessed, draft, previews, versions, saved, imports, results,
                   now, overlapped, reopened>>

\* It waits for the draft's row, and reads everything under it.
ReadConfirm(q) ==
    /\ request[q].op = "ask"
    /\ DraftFree
    /\ IF SameRevision(q) /\ Started /\ Complete(saved[Len(saved)])
       THEN Does(q, [op |-> "confirm", at |-> request[q].at, revision |-> request[q].revision,
                     result |-> saved[Len(saved)], versions |-> Len(versions)])
       ELSE Does(q, Idle)
    /\ UNCHANGED <<bound, race, entry, assessed, draft, previews, versions, saved, imports, results,
                   now, overlapped, reopened>>

\* unique (raceId, sourceRevision).
Unsourced(revision) == ~Sourced(revision)

\* A cancelled race is spelled otherwise than in raceStatuses.
StatusOf(result) == IF result.canceled THEN "CANCELED" ELSE "FINISHED"

CommitConfirm(q) ==
    LET result == request[q].result
    IN  /\ request[q].op = "confirm"
        /\ IF Unsourced(request[q].revision)
           THEN /\ results' = Append(results,
                       [source |-> request[q].revision, content |-> result,
                        evaluated |-> [v \in 1 .. request[q].versions |-> Evaluate(versions[v].marks, result)]])
                /\ race' = [race EXCEPT !.status = StatusOf(result), !.revision = @ + 1]
           ELSE UNCHANGED <<results, race>>
        /\ Does(q, Idle)
        /\ UNCHANGED <<bound, entry, assessed, draft, previews, versions, saved, imports, now,
                       overlapped, reopened>>

-----------------------------------------------------------------------------
\* A transaction that fails or whose process dies leaves nothing.
Abort(q) ==
    /\ request[q] # Idle
    /\ Does(q, Idle)
    /\ UNCHANGED <<bound, race, entry, assessed, draft, previews, versions, saved, imports, results,
                   now, overlapped, reopened>>

Tick ==
    /\ now < bound.time
    /\ \A q \in Request : request[q] # Idle => request[q].at = now
    /\ now' = now + 1
    /\ UNCHANGED <<bound, race, entry, assessed, draft, previews, versions, saved, imports, results,
                   request, overlapped, reopened>>

Next ==
    \/ \E q \in Request :
        \/ \E status \in EditTo, start \in 1 .. bound.start : BeginEdit(q, status, start)
        \/ \E b \in imports : BeginImportEdit(q, b) \/ BeginImport(q, b)
        \/ CommitEdit(q)
        \/ \E p \in previews : BeginPublish(q, p)
        \/ CommitPublish(q)
        \/ \E result \in Result : BeginSave(q, result)
        \/ CommitSave(q)
        \/ CommitImport(q)
        \/ \E revision \in DOMAIN saved : AskConfirm(q, revision)
        \/ ReadConfirm(q) \/ CommitConfirm(q) \/ Abort(q)
    \/ \E h \in Horse : (\E status \in {"ACTIVE", "SCRATCHED"} : SaveEntry(h, status)) \/ Assess(h)
    \/ \E marks \in Marks : SaveDraft(marks)
    \/ Preview
    \/ \E status \in EditTo, start \in 1 .. bound.start : PreviewEdit(status, start)
    \/ \E kind \in {"single", "batch"}, result \in Result : PreviewImport(kind, result)
    \/ Tick

Spec == Init /\ [][Next]_vars

-----------------------------------------------------------------------------
(***************************************************************************)
(* Properties.                                                             *)
(***************************************************************************)

RaceRow == [status : Known \cup {"CANCELED"}, startsAt : Nat, revision : Nat]
Entries == [Horse -> {"NONE", "ACTIVE", "SCRATCHED"}]
Assessments == [Horse -> Nat]
DraftRow == [revision : Nat, marks : Marks \cup {<<>>}]
VersionRow == [marks : Marks \cup {<<>>}, entry : Entries, assessed : Assessments]
SnapshotRow == [race : RaceRow, entry : Entries, assessed : Assessments, draft : DraftRow, latest : Nat]
PreviewRow == [base : SnapshotRow, shown : VersionRow, next : Nat, until : Nat, version : Nat]
RaceImport == [kind : {"race"}, status : EditTo, start : Nat, base : RaceRow \X Entries,
               until : Nat, confirmed : BOOLEAN]
BaselineRow == [startsAt : Nat, status : Known \cup {"CANCELED"}, horses : SUBSET Horse,
                revision : Nat, content : Result \cup {<<>>}]
ResultImport == [kind : {"single", "batch"}, result : Result, base : BaselineRow,
                 replaces : Result \cup {<<>>}, target : Nat, until : Nat, confirmed : BOOLEAN]
Verdicts == {"CANCELED", "SKIPPED", "REVIEW_REQUIRED", "EXCLUDED", "PRIMARY_WIN", "PRIMARY_TOP2",
             "PRIMARY_TOP3", "WINNER_IN_RECOMMENDED", "WINNER_NOT_RECOMMENDED"}
ResultRow == [source : Nat \ {0}, content : Result, evaluated : Seq(Verdicts)]
Doing ==
    [op : {"idle"}]
    \cup [op : {"edit"}, at : Nat, status : EditTo, start : Nat, seen : Seq(ResultRow),
          file : SUBSET RaceImport]
    \cup [op : {"publish"}, at : Nat, preview : PreviewRow, shown : VersionRow]
    \cup [op : {"save"}, at : Nat, result : Result, revision : Nat]
    \cup [op : {"import"}, at : Nat, batch : ResultImport, result : Result, revision : Nat]
    \cup [op : {"ask"}, at : Nat, revision : Nat \ {0}]
    \cup [op : {"confirm"}, at : Nat, revision : Nat \ {0}, result : Result, versions : Nat]

\* Every variable holds a value of its type.
TypeOK ==
    /\ race \in RaceRow
    /\ entry \in Entries
    /\ assessed \in Assessments
    /\ draft \in DraftRow
    /\ previews \subseteq PreviewRow
    /\ versions \in Seq(VersionRow)
    /\ saved \in Seq(Result)
    /\ imports \subseteq RaceImport \cup ResultImport
    /\ results \in Seq(ResultRow)
    /\ request \in [Request -> Doing]
    /\ now \in Nat /\ bound \in Bounds
    /\ overlapped \subseteq Nat /\ reopened \in BOOLEAN

\* Members read what the reviewer saw: whatever was edited, assessed, saved or
\* published by others between a preview and its publication.
PublishedAsPreviewed == \A p \in previews : p.version # 0 => versions[p.version] = p.shown

\* A finished race is evaluated in full: every version its members read has an
\* evaluation by the last result, unless it was inserted while the
\* confirmation was under way or the race was edited after.  Publications do
\* not take the confirmation's lock, nor the confirmation theirs.
EveryVersionIsEvaluated ==
    race.status = "FINISHED" /\ results # <<>> /\ ~reopened
    => \A v \in DOMAIN versions \ overlapped : v \in DOMAIN results[Len(results)].evaluated

\* Imports replace what their preview compared them with, although drafts are
\* saved without their lock.
ImportedAsPreviewed ==
    \A b \in imports : b.kind # "race" /\ b.confirmed =>
        /\ b.target \in DOMAIN saved /\ saved[b.target] = b.result
        /\ b.target > 1 => saved[b.target - 1] = b.replaces

Reviewed == INSTANCE ReviewedLedger WITH
    Content <- Result,
    ledger <- [i \in DOMAIN results |-> [source |-> results[i].source, content |-> results[i].content]]

\* Each result takes over one saved revision as it stands, once, although
\* drafts are saved, imported and confirmed by several people at a time.
ResultsAreReviewed == Reviewed!Spec

\* A race with a result keeps the status the result gave it, until someone who
\* saw that result edits it.
ResultStands == [][\A q \in Request :
    request[q].op = "edit" /\ request'[q].op = "idle" /\ race' # race => request[q].seen = results]_vars
=============================================================================

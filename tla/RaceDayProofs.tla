---------------------------- MODULE RaceDayProofs ----------------------------
(***************************************************************************)
(* Theorems about RaceDay, for any horses, requests, drafts and results,   *)
(* and, from the middle on, about Win5Day, the WIN5 product over the races *)
(* of a day, which stands here as the instance Win5.                       *)
(***************************************************************************)
EXTENDS RaceDay, Win5Promises, FiniteSetTheorems, WellFoundedInduction, TLAPS

-----------------------------------------------------------------------------
(***************************************************************************)
(* Type correctness.                                                       *)
(***************************************************************************)

\* The bounds are numbers.
LEMMA BoundTyped ==
    ASSUME TypeOK
    PROVE  /\ bound.revision \in Nat /\ bound.assessment \in Nat /\ bound.draft \in Nat
           /\ bound.previews \in Nat /\ bound.saved \in Nat /\ bound.imports \in Nat
           /\ bound.start \in Nat /\ bound.time \in Nat
  BY ConstantsAssumption DEF TypeOK

\* A step of a request that does what is typed keeps the requests' type.
LEMMA DoesTyped ==
    ASSUME TypeOK, NEW q \in Request, NEW what \in Doing, Does(q, what)
    PROVE  /\ request' \in [Request -> Doing]
           /\ request'[q] = what
           /\ \A p \in Request \ {q} : request'[p] = request[p]
  BY DEF TypeOK, Does

\* What a request does determines the rest of its record.
LEMMA DoingTyped ==
    ASSUME TypeOK, NEW q \in Request
    PROVE  /\ Idle \in Doing
           /\ request[q].op = "edit" => request[q] \in
                [op : {"edit"}, at : Nat, status : EditTo, start : Nat, seen : Seq(ResultRow),
                 file : SUBSET RaceImport]
           /\ request[q].op = "publish" => request[q] \in
                [op : {"publish"}, at : Nat, preview : PreviewRow, shown : VersionRow]
           /\ request[q].op = "save" => request[q] \in
                [op : {"save"}, at : Nat, result : Result, revision : Nat]
           /\ request[q].op = "import" => request[q] \in
                [op : {"import"}, at : Nat, batch : ResultImport, result : Result, revision : Nat]
           /\ request[q].op = "ask" => request[q] \in
                [op : {"ask"}, at : Nat, revision : Nat \ {0}]
           /\ request[q].op = "confirm" => request[q] \in
                [op : {"confirm"}, at : Nat, revision : Nat \ {0}, result : Result, versions : Nat]
  <1>1. request[q] \in Doing
    BY DEF TypeOK
  <1>2. Idle \in Doing
    BY DEF Idle, Doing
  <1>3. QED
    BY <1>1, <1>2 DEF Doing

\* What is shown of the present state is typed.
LEMMA SnapshotTyped ==
    ASSUME TypeOK
    PROVE  /\ Snapshot \in SnapshotRow
           /\ Fingerprint(Snapshot) \in SnapshotRow
           /\ Shown(Snapshot) \in VersionRow
  <1>1. draft.marks \in Marks \cup {<<>>}
    BY DEF TypeOK, DraftRow
  <1>2. QED
    BY <1>1 DEF TypeOK, Snapshot, Fingerprint, Shown, SnapshotRow, VersionRow

\* What an import is compared with is typed.
LEMMA BaselineTyped ==
    ASSUME TypeOK
    PROVE  Standing \in Result \cup {<<>>} /\ Baseline \in BaselineRow
  <1>1. Standing \in Result \cup {<<>>}
    BY DEF TypeOK, Standing
  <1>2. Runners \in SUBSET Horse
    BY DEF Runners
  <1>3. race.startsAt \in Nat /\ race.status \in Known \cup {"CANCELED"}
    BY DEF TypeOK, RaceRow
  <1>4. QED
    BY <1>1, <1>2, <1>3 DEF TypeOK, Baseline, BaselineRow

\* An evaluation comes to one of the verdicts.
LEMMA EvaluateTyped ==
    ASSUME NEW marks, NEW result \in Result
    PROVE  Evaluate(marks, result) \in Verdicts
  <1>1. result.canceled \in BOOLEAN
    BY ConstantsAssumption
  <1>2. QED
    BY <1>1 DEF Evaluate, Verdicts

\* A confirmed preview keeps its other fields.
LEMMA PreviewUsed ==
    ASSUME NEW p \in PreviewRow, NEW number \in Nat
    PROVE  /\ [p EXCEPT !.version = number] \in PreviewRow
           /\ [p EXCEPT !.version = number].version = number
           /\ [p EXCEPT !.version = number].shown = p.shown
           /\ [p EXCEPT !.version = number].base = p.base
  BY DEF PreviewRow

\* A confirmed file of races is still a row of import_batches.
LEMMA RaceImportUsed ==
    ASSUME NEW b \in RaceImport
    PROVE  [b EXCEPT !.confirmed = TRUE] \in RaceImport
  BY DEF RaceImport

\* So is a confirmed file of results, which keeps what it announced.
LEMMA ResultImportUsed ==
    ASSUME NEW b \in ResultImport
    PROVE  LET c == [b EXCEPT !.confirmed = TRUE]
           IN  /\ c \in ResultImport
               /\ c.kind = b.kind /\ c.result = b.result /\ c.base = b.base
               /\ c.replaces = b.replaces /\ c.target = b.target /\ c.confirmed
  BY DEF ResultImport

\* The initial state is well typed.
LEMMA TypeInit == Init => TypeOK
  <1> SUFFICES ASSUME Init PROVE TypeOK
    OBVIOUS
  <1>1. race \in RaceRow /\ entry \in Entries /\ assessed \in Assessments /\ draft \in DraftRow
    BY DEF Init, RaceRow, Known, Entries, Assessments, DraftRow
  <1>2. request \in [Request -> Doing]
    BY DEF Init, Idle, Doing
  <1>3. /\ versions \in Seq(VersionRow) /\ saved \in Seq(Result) /\ results \in Seq(ResultRow)
        /\ previews \subseteq PreviewRow /\ imports \subseteq RaceImport \cup ResultImport
    BY DEF Init
  <1>4. now \in Nat /\ bound \in Bounds /\ overlapped \subseteq Nat /\ reopened \in BOOLEAN
    BY DEF Init
  <1> QED
    BY <1>1, <1>2, <1>3, <1>4 DEF TypeOK

\* Every step keeps the types.
LEMMA TypeStep == TypeOK /\ [Next]_vars => TypeOK'
  <1> SUFFICES ASSUME TypeOK, [Next]_vars PROVE TypeOK'
    OBVIOUS
  <1>e. EditTo \subseteq Known
    BY ConstantsAssumption
  <1>1. ASSUME NEW q \in Request, NEW status \in EditTo, NEW start \in 1 .. bound.start,
               BeginEdit(q, status, start)
        PROVE  TypeOK'
    <2> DEFINE what == [op |-> "edit", at |-> now, status |-> status, start |-> start,
                        seen |-> results, file |-> {}]
    <2>1. what \in Doing /\ Does(q, what)
      BY <1>1, BoundTyped DEF BeginEdit, TypeOK, Doing
    <2> HIDE DEF what
    <2>2. request' \in [Request -> Doing]
      BY <2>1, DoesTyped
    <2>3. QED
      BY <1>1, <2>2 DEF BeginEdit, TypeOK
  <1>2. ASSUME NEW q \in Request, NEW b \in imports, BeginImportEdit(q, b)
        PROVE  TypeOK'
    <2> DEFINE what == [op |-> "edit", at |-> now, status |-> b.status, start |-> b.start,
                        seen |-> results, file |-> {b}]
    <2>1. b \in RaceImport
      BY <1>2 DEF BeginImportEdit, TypeOK, ResultImport
    <2>2. what \in Doing /\ Does(q, what)
      BY <1>2, <2>1 DEF BeginImportEdit, TypeOK, Doing, RaceImport
    <2> HIDE DEF what
    <2>3. request' \in [Request -> Doing]
      BY <2>2, DoesTyped
    <2>4. QED
      BY <1>2, <2>3 DEF BeginImportEdit, TypeOK
  <1>3. ASSUME NEW q \in Request, CommitEdit(q) PROVE TypeOK'
    <2>1. request' \in [Request -> Doing]
      BY <1>3, DoesTyped, DoingTyped DEF CommitEdit
    <2>2. race' \in RaceRow
      <3>1. request[q].status \in Known /\ request[q].start \in Nat
        BY <1>3, <1>e, DoingTyped DEF CommitEdit
      <3>2. QED
        BY <1>3, <3>1 DEF CommitEdit, TypeOK, RaceRow
    <2>3. imports' \subseteq RaceImport \cup ResultImport
      <3>1. request[q].file \subseteq RaceImport
        BY <1>3, DoingTyped DEF CommitEdit
      <3>2. {[b EXCEPT !.confirmed = TRUE] : b \in request[q].file} \subseteq RaceImport
        BY <3>1, RaceImportUsed
      <3>3. QED
        BY <1>3, <3>2 DEF CommitEdit, TypeOK
    <2>4. reopened' \in BOOLEAN
      BY <1>3 DEF CommitEdit, TypeOK
    <2>5. QED
      BY <1>3, <2>1, <2>2, <2>3, <2>4 DEF CommitEdit, TypeOK
  <1>4. ASSUME NEW q \in Request, NEW p \in previews, BeginPublish(q, p) PROVE TypeOK'
    <2> DEFINE what == [op |-> "publish", at |-> now, preview |-> p, shown |-> Shown(Snapshot)]
    <2>1. what \in Doing /\ Does(q, what)
      BY <1>4, SnapshotTyped DEF BeginPublish, TypeOK, Doing
    <2> HIDE DEF what
    <2>2. request' \in [Request -> Doing]
      BY <2>1, DoesTyped
    <2>3. QED
      BY <1>4, <2>2 DEF BeginPublish, TypeOK
  <1>5. ASSUME NEW q \in Request, CommitPublish(q) PROVE TypeOK'
    <2>1. request' \in [Request -> Doing]
      BY <1>5, DoesTyped, DoingTyped DEF CommitPublish
    <2>2. request[q].preview \in PreviewRow /\ request[q].shown \in VersionRow
      BY <1>5, DoingTyped DEF CommitPublish
    <2>3. Len(versions) + 1 \in Nat
      BY DEF TypeOK
    <2>4. versions' \in Seq(VersionRow) /\ previews' \subseteq PreviewRow /\ overlapped' \subseteq Nat
      <3>1. CASE Insertable(request[q].at)
        <4>1. [request[q].preview EXCEPT !.version = Len(versions) + 1] \in PreviewRow
          BY <2>2, <2>3, PreviewUsed
        <4>2. previews' \subseteq PreviewRow
          BY <1>5, <3>1, <4>1 DEF CommitPublish, TypeOK
        <4>3. versions' = Append(versions, request[q].shown)
          BY <1>5, <3>1 DEF CommitPublish
        <4>4. overlapped' \in {overlapped, overlapped \cup {Len(versions) + 1}}
          BY <1>5, <3>1 DEF CommitPublish
        <4>5. QED
          BY <2>2, <2>3, <4>2, <4>3, <4>4 DEF TypeOK
      <3>2. CASE ~Insertable(request[q].at)
        BY <1>5, <3>2 DEF CommitPublish, TypeOK
      <3>3. QED
        BY <3>1, <3>2
    <2>5. QED
      BY <1>5, <2>1, <2>4 DEF CommitPublish, TypeOK
  <1>6. ASSUME NEW q \in Request, NEW result \in Result, BeginSave(q, result) PROVE TypeOK'
    <2> DEFINE what == [op |-> "save", at |-> now, result |-> result, revision |-> Len(saved)]
    <2>1. what \in Doing /\ Does(q, what)
      BY <1>6 DEF BeginSave, TypeOK, Doing
    <2> HIDE DEF what
    <2>2. request' \in [Request -> Doing]
      BY <2>1, DoesTyped
    <2>3. QED
      BY <1>6, <2>2 DEF BeginSave, TypeOK
  <1>7. ASSUME NEW q \in Request, CommitSave(q) PROVE TypeOK'
    <2>1. request' \in [Request -> Doing]
      BY <1>7, DoesTyped, DoingTyped DEF CommitSave
    <2>2. saved' \in Seq(Result)
      BY <1>7, DoingTyped DEF CommitSave, TypeOK
    <2>3. QED
      BY <1>7, <2>1, <2>2 DEF CommitSave, TypeOK
  <1>8. ASSUME NEW q \in Request, NEW b \in imports, BeginImport(q, b) PROVE TypeOK'
    <2> DEFINE what == [op |-> "import", at |-> now, batch |-> b, result |-> b.result,
                        revision |-> Len(saved)]
    <2>1. b \in ResultImport
      BY <1>8 DEF BeginImport, TypeOK, RaceImport
    <2>2. what \in Doing /\ Does(q, what)
      BY <1>8, <2>1 DEF BeginImport, TypeOK, Doing, ResultImport
    <2> HIDE DEF what
    <2>3. request' \in [Request -> Doing]
      BY <2>2, DoesTyped
    <2>4. QED
      BY <1>8, <2>3 DEF BeginImport, TypeOK
  <1>9. ASSUME NEW q \in Request, CommitImport(q) PROVE TypeOK'
    <2>1. request' \in [Request -> Doing]
      BY <1>9, DoesTyped, DoingTyped DEF CommitImport
    <2>2. request[q].batch \in ResultImport
      BY <1>9, DoingTyped DEF CommitImport
    <2>3. request[q].batch.result \in Result
      BY <2>2 DEF ResultImport
    <2>4. saved' \in Seq(Result) /\ imports' \subseteq RaceImport \cup ResultImport
      <3>1. [request[q].batch EXCEPT !.confirmed = TRUE] \in ResultImport
        BY <2>2, ResultImportUsed
      <3>2. CASE SameRevision(q)
        <4>1. saved' = Append(saved, request[q].batch.result)
          BY <1>9, <3>2 DEF CommitImport
        <4>2. imports' = (imports \ {request[q].batch})
                           \cup {[request[q].batch EXCEPT !.confirmed = TRUE]}
          BY <1>9, <3>2 DEF CommitImport
        <4>3. saved' \in Seq(Result)
          BY <2>3, <4>1 DEF TypeOK
        <4>4. imports' \subseteq RaceImport \cup ResultImport
          BY <3>1, <4>2 DEF TypeOK
        <4>5. QED
          BY <4>3, <4>4
      <3>3. CASE ~SameRevision(q)
        BY <1>9, <3>3 DEF CommitImport, TypeOK
      <3>4. QED
        BY <3>2, <3>3
    <2>5. QED
      BY <1>9, <2>1, <2>4 DEF CommitImport, TypeOK
  <1>10. ASSUME NEW q \in Request, NEW revision \in DOMAIN saved, AskConfirm(q, revision)
         PROVE  TypeOK'
    <2> DEFINE what == [op |-> "ask", at |-> now, revision |-> revision]
    <2>1. what \in Doing /\ Does(q, what)
      BY <1>10 DEF AskConfirm, TypeOK, Doing
    <2> HIDE DEF what
    <2>2. request' \in [Request -> Doing]
      BY <2>1, DoesTyped
    <2>3. QED
      BY <1>10, <2>2 DEF AskConfirm, TypeOK
  <1>11. ASSUME NEW q \in Request, ReadConfirm(q) PROVE TypeOK'
    <2> DEFINE what == [op |-> "confirm", at |-> request[q].at, revision |-> request[q].revision,
                        result |-> saved[Len(saved)], versions |-> Len(versions)]
    <2>1. request[q].at \in Nat /\ request[q].revision \in Nat \ {0}
      BY <1>11, DoingTyped DEF ReadConfirm
    <2>2. CASE SameRevision(q) /\ Started /\ Complete(saved[Len(saved)])
      <3>1. what \in Doing
        BY <2>1, <2>2 DEF SameRevision, TypeOK, Doing
      <3>2. Does(q, what)
        BY <1>11, <2>2 DEF ReadConfirm
      <3> HIDE DEF what
      <3>3. request' \in [Request -> Doing]
        BY <3>1, <3>2, DoesTyped
      <3>4. QED
        BY <1>11, <3>3 DEF ReadConfirm, TypeOK
    <2>3. CASE ~(SameRevision(q) /\ Started /\ Complete(saved[Len(saved)]))
      <3>1. request' \in [Request -> Doing]
        BY <1>11, <2>3, DoesTyped, DoingTyped DEF ReadConfirm
      <3>2. QED
        BY <1>11, <3>1 DEF ReadConfirm, TypeOK
    <2>4. QED
      BY <2>2, <2>3
  <1>12. ASSUME NEW q \in Request, CommitConfirm(q) PROVE TypeOK'
    <2>1. request' \in [Request -> Doing]
      BY <1>12, DoesTyped, DoingTyped DEF CommitConfirm
    <2>2. /\ request[q].revision \in Nat \ {0} /\ request[q].result \in Result
          /\ request[q].versions \in Nat
      BY <1>12, DoingTyped DEF CommitConfirm
    <2>3. race' \in RaceRow
      <3>1. StatusOf(request[q].result) \in Known \cup {"CANCELED"}
        BY DEF StatusOf, Known
      <3>2. race \in RaceRow /\ race.revision + 1 \in Nat
        BY DEF TypeOK, RaceRow
      <3>3. race' = race \/ race' = [race EXCEPT !.status = StatusOf(request[q].result),
                                               !.revision = race.revision + 1]
        BY <1>12 DEF CommitConfirm
      <3>4. QED
        BY <3>1, <3>2, <3>3 DEF RaceRow
    <2>4. results' \in Seq(ResultRow)
      <3> DEFINE evaluated == [v \in 1 .. request[q].versions |->
                                 Evaluate(versions[v].marks, request[q].result)]
      <3>1. evaluated \in Seq(Verdicts)
        BY <2>2, EvaluateTyped
      <3>2. [source |-> request[q].revision, content |-> request[q].result,
             evaluated |-> evaluated] \in ResultRow
        BY <2>2, <3>1 DEF ResultRow
      <3>3. results' \in {results,
                  Append(results, [source |-> request[q].revision, content |-> request[q].result,
                                   evaluated |-> evaluated])}
        BY <1>12 DEF CommitConfirm
      <3>4. results \in Seq(ResultRow)
        BY DEF TypeOK
      <3> HIDE DEF evaluated
      <3>5. QED
        BY <3>2, <3>3, <3>4
    <2>5. QED
      BY <1>12, <2>1, <2>3, <2>4 DEF CommitConfirm, TypeOK
  <1>13. ASSUME NEW q \in Request, Abort(q) PROVE TypeOK'
    BY <1>13, DoesTyped, DoingTyped DEF Abort, TypeOK
  <1>14. ASSUME NEW h \in Horse, NEW status \in {"ACTIVE", "SCRATCHED"}, SaveEntry(h, status)
         PROVE  TypeOK'
    <2>1. entry \in Entries /\ race \in RaceRow /\ race.revision + 1 \in Nat
      BY DEF TypeOK, RaceRow
    <2>2. entry' \in Entries /\ race' \in RaceRow
      BY <1>14, <2>1 DEF SaveEntry, Entries, RaceRow
    <2>3. QED
      BY <1>14, <2>2 DEF SaveEntry, TypeOK
  <1>15. ASSUME NEW h \in Horse, Assess(h) PROVE TypeOK'
    BY <1>15 DEF Assess, TypeOK, Assessments
  <1>16. ASSUME NEW marks \in Marks, SaveDraft(marks) PROVE TypeOK'
    BY <1>16 DEF SaveDraft, TypeOK, DraftRow
  <1>17. ASSUME Preview PROVE TypeOK'
    BY <1>17, SnapshotTyped DEF Preview, TypeOK, PreviewRow
  <1>18. ASSUME NEW status \in EditTo, NEW start \in 1 .. bound.start, PreviewEdit(status, start)
         PROVE  TypeOK'
    <2> DEFINE b == [kind |-> "race", status |-> status, start |-> start, base |-> EditBase,
                     until |-> now + 1, confirmed |-> FALSE]
    <2>1. EditBase \in RaceRow \X Entries
      BY DEF TypeOK, EditBase
    <2>2. b \in RaceImport
      BY <2>1, BoundTyped DEF TypeOK, RaceImport
    <2>3. imports' = imports \cup {b}
      BY <1>18 DEF PreviewEdit
    <2> HIDE DEF b
    <2>4. QED
      BY <1>18, <2>2, <2>3 DEF PreviewEdit, TypeOK
  <1>19. ASSUME NEW kind \in {"single", "batch"}, NEW result \in Result, PreviewImport(kind, result)
         PROVE  TypeOK'
    <2> DEFINE b == [kind |-> kind, result |-> result, base |-> Baseline, replaces |-> Standing,
                     target |-> Len(saved) + 1, until |-> now + 1, confirmed |-> FALSE]
    <2>1. b \in ResultImport
      BY BaselineTyped DEF TypeOK, ResultImport
    <2>2. imports' = imports \cup {b}
      BY <1>19 DEF PreviewImport
    <2> HIDE DEF b
    <2>3. QED
      BY <1>19, <2>1, <2>2 DEF PreviewImport, TypeOK
  <1>20. ASSUME Tick PROVE TypeOK'
    BY <1>20 DEF Tick, TypeOK
  <1>21. CASE UNCHANGED vars
    BY <1>21 DEF vars, TypeOK
  <1> QED
    BY <1>1, <1>2, <1>3, <1>4, <1>5, <1>6, <1>7, <1>8, <1>9, <1>10, <1>11, <1>12, <1>13, <1>14,
       <1>15, <1>16, <1>17, <1>18, <1>19, <1>20, <1>21 DEF Next

\* Every reachable state is well typed.
THEOREM TypeCorrect == Spec => []TypeOK
  BY TypeInit, TypeStep, PTL DEF Spec

-----------------------------------------------------------------------------
(***************************************************************************)
(* Predictions are published as they were previewed.                       *)
(***************************************************************************)

\* A step leaves those that do `op' as they are, and nobody comes to do it.
Leaves(op) == \A q \in Request : request'[q].op = op => request'[q] = request[q]

\* A request that comes to do something else is not one that does `op'.
LEMMA LeavesOthers ==
    ASSUME TypeOK, NEW op, NEW q \in Request, NEW what, Does(q, what), what.op # op
    PROVE  Leaves(op)
  BY DEF TypeOK, Does, Leaves

\* So do steps that leave every transaction alone.
LEMMA LeavesAll ==
    ASSUME NEW op, UNCHANGED request
    PROVE  Leaves(op)
  BY DEF Leaves

\* A preview shows what its hash is about, it names a version that exists, and
\* a publication under way is about to insert what its preview shows.
PreviewInv ==
    /\ \A p \in previews : p.shown = Shown(p.base) /\ p.version <= Len(versions)
    /\ \A q \in Request : request[q].op = "publish" =>
          /\ request[q].preview.shown = Shown(request[q].preview.base)
          /\ request[q].shown = request[q].preview.shown
    /\ PublishedAsPreviewed

\* Whatever neither previews nor publishes disturbs none of it.
LEMMA PublishFrame ==
    ASSUME TypeOK, PreviewInv, UNCHANGED <<previews, versions>>, Leaves("publish")
    PROVE  PreviewInv'
  BY DEF PreviewInv, PublishedAsPreviewed, Leaves

\* At first nothing is previewed.
LEMMA PreviewInit == Init => PreviewInv
  BY DEF Init, PreviewInv, PublishedAsPreviewed, Idle

\* Every step keeps previews and versions together.
LEMMA PreviewStep == TypeOK /\ PreviewInv /\ [Next]_vars => PreviewInv'
  <1> SUFFICES ASSUME TypeOK, PreviewInv, [Next]_vars PROVE PreviewInv'
    OBVIOUS
  <1>1. ASSUME Preview PROVE PreviewInv'
    <2> DEFINE p == [base |-> Fingerprint(Snapshot), shown |-> Shown(Snapshot),
                     next |-> Len(versions) + 1, until |-> now + 1, version |-> 0]
    <2>1. p.shown = Shown(p.base) /\ p.version = 0
      BY DEF Fingerprint
    <2>2. previews' = previews \cup {p} /\ UNCHANGED <<versions, request>>
      BY <1>1 DEF Preview
    <2>3. 0 <= Len(versions)
      BY DEF TypeOK
    <2> HIDE DEF p
    <2>4. QED
      BY <2>1, <2>2, <2>3 DEF PreviewInv, PublishedAsPreviewed
  <1>2. ASSUME NEW q \in Request, NEW p \in previews, BeginPublish(q, p) PROVE PreviewInv'
    <2>1. p.shown = Shown(Snapshot) /\ p.shown = Shown(p.base)
      BY <1>2 DEF BeginPublish, PreviewInv, Fingerprint
    <2>2. \A r \in Request : request'[r] =
            IF r = q THEN [op |-> "publish", at |-> now, preview |-> p, shown |-> Shown(Snapshot)]
            ELSE request[r]
      BY <1>2 DEF BeginPublish, Does, TypeOK
    <2>3. UNCHANGED <<previews, versions>>
      BY <1>2 DEF BeginPublish
    <2>4. QED
      BY <2>1, <2>2, <2>3 DEF PreviewInv, PublishedAsPreviewed
  <1>3. ASSUME NEW q \in Request, CommitPublish(q) PROVE PreviewInv'
    <2>1. Leaves("publish")
      BY <1>3, LeavesOthers DEF CommitPublish, Idle
    <2>2. CASE ~Insertable(request[q].at)
      BY <1>3, <2>1, <2>2, PublishFrame DEF CommitPublish
    <2>3. CASE Insertable(request[q].at)
      <3> DEFINE number == Len(versions) + 1
                 used == [request[q].preview EXCEPT !.version = number]
      <3>1. /\ versions' = Append(versions, request[q].shown)
            /\ previews' = (previews \ {request[q].preview}) \cup {used}
        BY <1>3, <2>3 DEF CommitPublish
      <3>2. request[q].preview \in PreviewRow /\ number \in Nat /\ Len(versions) \in Nat
        BY <1>3, DoingTyped DEF CommitPublish, TypeOK
      <3>3. /\ used.version = number
            /\ used.shown = request[q].shown
            /\ used.shown = Shown(used.base)
        BY <1>3, <3>2, PreviewUsed DEF CommitPublish, PreviewInv
      <3>4. /\ Len(versions') = number /\ versions'[number] = request[q].shown
            /\ \A i \in 1 .. Len(versions) : versions'[i] = versions[i]
        BY <1>3, <3>1, DoingTyped DEF CommitPublish, TypeOK
      <3> HIDE DEF number, used
      <3>5. ASSUME NEW p \in previews'
            PROVE  /\ p.shown = Shown(p.base) /\ p.version <= Len(versions')
                   /\ p.version # 0 => versions'[p.version] = p.shown
        <4>1. CASE p = used
          BY <3>2, <3>3, <3>4, <4>1 DEF number
        <4>2. CASE p \in previews
          <5>1. p.version \in Nat
            BY <4>2 DEF TypeOK, PreviewRow
          <5>2. QED
            BY <3>2, <3>4, <4>2, <5>1 DEF number, PreviewInv, PublishedAsPreviewed
        <4>3. QED
          BY <3>1, <4>1, <4>2
      <3>6. QED
        BY <2>1, <3>5 DEF PreviewInv, PublishedAsPreviewed, Leaves
    <2>4. QED
      BY <2>2, <2>3
  <1>4. ASSUME NEW q \in Request,
               \/ \E status \in EditTo, start \in 1 .. bound.start : BeginEdit(q, status, start)
               \/ \E b \in imports : BeginImportEdit(q, b) \/ BeginImport(q, b)
               \/ \E result \in Result : BeginSave(q, result)
               \/ \E revision \in DOMAIN saved : AskConfirm(q, revision)
        PROVE  PreviewInv'
    <2>1. Leaves("publish")
      BY <1>4, LeavesOthers DEF BeginEdit, BeginImportEdit, BeginImport, BeginSave, AskConfirm
    <2>2. QED
      BY <1>4, <2>1, PublishFrame DEF BeginEdit, BeginImportEdit, BeginImport, BeginSave, AskConfirm
  <1>5. ASSUME NEW q \in Request,
               CommitEdit(q) \/ CommitSave(q) \/ CommitImport(q) \/ CommitConfirm(q) \/ Abort(q)
        PROVE  PreviewInv'
    <2>1. Leaves("publish")
      BY <1>5, LeavesOthers DEF CommitEdit, CommitSave, CommitImport, CommitConfirm, Abort, Idle
    <2>2. QED
      BY <1>5, <2>1, PublishFrame DEF CommitEdit, CommitSave, CommitImport, CommitConfirm, Abort
  <1>6. ASSUME NEW q \in Request, ReadConfirm(q) PROVE PreviewInv'
    <2>1. Leaves("publish")
      BY <1>6, LeavesOthers DEF ReadConfirm, Idle
    <2>2. QED
      BY <1>6, <2>1, PublishFrame DEF ReadConfirm
  <1>7. ASSUME \/ \E h \in Horse : \/ \E status \in {"ACTIVE", "SCRATCHED"} : SaveEntry(h, status)
                                 \/ Assess(h)
               \/ \E marks \in Marks : SaveDraft(marks)
               \/ \E status \in EditTo, start \in 1 .. bound.start : PreviewEdit(status, start)
               \/ \E kind \in {"single", "batch"}, result \in Result : PreviewImport(kind, result)
               \/ Tick
               \/ UNCHANGED vars
        PROVE  PreviewInv'
    <2>1. UNCHANGED <<previews, versions, request>>
      BY <1>7 DEF SaveEntry, Assess, SaveDraft, PreviewEdit, PreviewImport, Tick, vars
    <2>2. QED
      BY <2>1, LeavesAll, PublishFrame
  <1> QED
    BY <1>1, <1>2, <1>3, <1>4, <1>5, <1>6, <1>7 DEF Next

\* Whatever was edited, assessed, saved or published by others between a preview
\* and its publication, members read what the reviewer saw.
THEOREM PublishedAsPreviewedCorrect == Spec => []PublishedAsPreviewed
  <1>1. PreviewInv => PublishedAsPreviewed
    BY DEF PreviewInv
  <1>2. QED
    BY <1>1, TypeInit, TypeStep, PreviewInit, PreviewStep, PTL DEF Spec

-----------------------------------------------------------------------------
(***************************************************************************)
(* A confirmation holds the draft it has read.                             *)
(***************************************************************************)

\* The revision that is being confirmed is the one that stands.
HeldInv ==
    \A q \in Request : request[q].op = "confirm" =>
        request[q].revision = Len(saved) /\ request[q].result = saved[Len(saved)]

\* Steps that leave confirmations and the revisions they hold alone.
LEMMA HeldFrame ==
    ASSUME TypeOK, HeldInv, UNCHANGED saved, Leaves("confirm")
    PROVE  HeldInv'
  BY DEF HeldInv, Leaves

\* At first no confirmation holds anything.
LEMMA HeldInit == Init => HeldInv
  BY DEF Init, HeldInv, Idle

\* Whoever writes the draft waits until no confirmation has it.
LEMMA HeldStep == TypeOK /\ HeldInv /\ [Next]_vars => HeldInv'
  <1> SUFFICES ASSUME TypeOK, HeldInv, [Next]_vars PROVE HeldInv'
    OBVIOUS
  <1>1. ASSUME NEW q \in Request, CommitSave(q) \/ CommitImport(q) PROVE HeldInv'
    <2>1. \A p \in Request : request'[p].op # "confirm"
      BY <1>1 DEF CommitSave, CommitImport, DraftFree, Does, TypeOK, Idle
    <2>2. QED
      BY <2>1 DEF HeldInv
  <1>2. ASSUME NEW q \in Request, ReadConfirm(q) PROVE HeldInv'
    <2>1. CASE SameRevision(q) /\ Started /\ Complete(saved[Len(saved)])
      <3>1. request[q].revision = Len(saved) /\ UNCHANGED saved
        BY <1>2, <2>1 DEF ReadConfirm, SameRevision
      <3>2. \A p \in Request : request'[p] =
              IF p = q THEN [op |-> "confirm", at |-> request[q].at, revision |-> request[q].revision,
                             result |-> saved[Len(saved)], versions |-> Len(versions)]
              ELSE request[p]
        BY <1>2, <2>1 DEF ReadConfirm, Does, TypeOK
      <3>3. QED
        BY <3>1, <3>2 DEF HeldInv
    <2>2. CASE ~(SameRevision(q) /\ Started /\ Complete(saved[Len(saved)]))
      <3>1. Leaves("confirm")
        BY <1>2, <2>2, LeavesOthers DEF ReadConfirm, Idle
      <3>2. QED
        BY <1>2, <3>1, HeldFrame DEF ReadConfirm
    <2>3. QED
      BY <2>1, <2>2
  <1>3. ASSUME NEW q \in Request,
               \/ \E status \in EditTo, start \in 1 .. bound.start : BeginEdit(q, status, start)
               \/ \E b \in imports : BeginImportEdit(q, b) \/ BeginImport(q, b)
               \/ \E p \in previews : BeginPublish(q, p)
               \/ \E result \in Result : BeginSave(q, result)
               \/ \E revision \in DOMAIN saved : AskConfirm(q, revision)
        PROVE  HeldInv'
    <2>1. Leaves("confirm")
      BY <1>3, LeavesOthers
         DEF BeginEdit, BeginImportEdit, BeginImport, BeginPublish, BeginSave, AskConfirm
    <2>2. QED
      BY <1>3, <2>1, HeldFrame
         DEF BeginEdit, BeginImportEdit, BeginImport, BeginPublish, BeginSave, AskConfirm
  <1>4. ASSUME NEW q \in Request, CommitEdit(q) \/ CommitPublish(q) \/ CommitConfirm(q) \/ Abort(q)
        PROVE  HeldInv'
    <2>1. Leaves("confirm")
      BY <1>4, LeavesOthers DEF CommitEdit, CommitPublish, CommitConfirm, Abort, Idle
    <2>2. QED
      BY <1>4, <2>1, HeldFrame DEF CommitEdit, CommitPublish, CommitConfirm, Abort
  <1>5. ASSUME \/ \E h \in Horse : \/ \E status \in {"ACTIVE", "SCRATCHED"} : SaveEntry(h, status)
                                 \/ Assess(h)
               \/ \E marks \in Marks : SaveDraft(marks)
               \/ Preview
               \/ \E status \in EditTo, start \in 1 .. bound.start : PreviewEdit(status, start)
               \/ \E kind \in {"single", "batch"}, result \in Result : PreviewImport(kind, result)
               \/ Tick
               \/ UNCHANGED vars
        PROVE  HeldInv'
    <2>1. UNCHANGED <<saved, request>>
      BY <1>5 DEF SaveEntry, Assess, SaveDraft, Preview, PreviewEdit, PreviewImport, Tick, vars
    <2>2. QED
      BY <2>1, LeavesAll, HeldFrame
  <1> QED
    BY <1>1, <1>2, <1>3, <1>4, <1>5 DEF Next

-----------------------------------------------------------------------------
(***************************************************************************)
(* RaceDay implements ReviewedLedger.                                      *)
(***************************************************************************)

\* The ledger that RaceDay implements.
Ledger == [i \in DOMAIN results |-> [source |-> results[i].source, content |-> results[i].content]]

\* A function on 1 .. n is a sequence of length n.
LEMMA FunctionIsSeq ==
    ASSUME NEW S, NEW n \in Nat, NEW f \in [1 .. n -> S]
    PROVE  f \in Seq(S) /\ Len(f) = n
  OBVIOUS

\* A result that is appended is appended to the ledger.
LEMMA LedgerAppend ==
    ASSUME results \in Seq(ResultRow), NEW r \in ResultRow, results' = Append(results, r)
    PROVE  Ledger' = Append(Ledger, [source |-> r.source, content |-> r.content])
  <1> DEFINE entry_ == [source |-> r.source, content |-> r.content]
  <1>1. DOMAIN results = 1 .. Len(results) /\ Len(results) \in Nat
    OBVIOUS
  <1>2. Len(Ledger) = Len(results) /\ Ledger \in Seq([source : Nat \ {0}, content : Result])
    <2>1. \A i \in 1 .. Len(results) : results[i] \in ResultRow
      OBVIOUS
    <2>2. Ledger \in [1 .. Len(results) -> [source : Nat \ {0}, content : Result]]
      BY <1>1, <2>1 DEF Ledger, ResultRow
    <2>3. QED
      BY <1>1, <2>2, FunctionIsSeq
  <1>3. DOMAIN results' = 1 .. Len(results) + 1
    BY <1>1
  <1>4. \A i \in 1 .. Len(results) : results'[i] = results[i]
    BY <1>1
  <1>5. results'[Len(results) + 1] = r
    BY <1>1
  <1>6. Ledger' = [i \in 1 .. Len(results) + 1 |->
                     [source |-> results'[i].source, content |-> results'[i].content]]
    BY <1>3 DEF Ledger
  <1>7. Append(Ledger, entry_) = [i \in 1 .. Len(results) + 1 |->
                     IF i = Len(results) + 1 THEN entry_ ELSE Ledger[i]]
    BY <1>2
  <1>8. \A i \in 1 .. Len(results) : Ledger[i] = [source |-> results[i].source, content |-> results[i].content]
    BY <1>1 DEF Ledger
  <1>9. QED
    BY <1>1, <1>4, <1>5, <1>6, <1>7, <1>8

\* A race without results is an empty ledger.
LEMMA LedgerInit == Init => Reviewed!Init
  <1> SUFFICES ASSUME Init PROVE Reviewed!Init
    OBVIOUS
  <1>1. Ledger = <<>>
    BY DEF Init, Ledger
  <1>2. QED
    BY <1>1 DEF Init, Ledger, Reviewed!Init

\* A step saves a revision, confirms the one that stands, or changes neither.
LEMMA LedgerStep ==
    TypeOK /\ HeldInv /\ [Next]_vars => [Reviewed!Save \/ Reviewed!Confirm]_<<saved, Ledger>>
  <1> SUFFICES ASSUME TypeOK, HeldInv, [Next]_vars
               PROVE  Reviewed!Save \/ Reviewed!Confirm \/ UNCHANGED <<saved, Ledger>>
    OBVIOUS
  <1>u. ASSUME UNCHANGED <<saved, results>> PROVE UNCHANGED <<saved, Ledger>>
    BY <1>u DEF Ledger
  <1>1. ASSUME NEW q \in Request, CommitSave(q)
        PROVE  Reviewed!Save \/ UNCHANGED <<saved, Ledger>>
    <2>1. request[q].result \in Result /\ UNCHANGED results
      BY <1>1, DoingTyped DEF CommitSave
    <2>2. UNCHANGED Ledger
      BY <2>1 DEF Ledger
    <2>3. saved' = Append(saved, request[q].result) \/ UNCHANGED saved
      BY <1>1 DEF CommitSave
    <2>4. QED
      BY <2>1, <2>2, <2>3 DEF Reviewed!Save, Ledger
  <1>2. ASSUME NEW q \in Request, CommitImport(q)
        PROVE  Reviewed!Save \/ UNCHANGED <<saved, Ledger>>
    <2>1. request[q].batch.result \in Result /\ UNCHANGED results
      BY <1>2, DoingTyped DEF CommitImport, ResultImport
    <2>2. UNCHANGED Ledger
      BY <2>1 DEF Ledger
    <2>3. saved' = Append(saved, request[q].batch.result) \/ UNCHANGED saved
      BY <1>2 DEF CommitImport
    <2>4. QED
      BY <2>1, <2>2, <2>3 DEF Reviewed!Save, Ledger
  <1>3. ASSUME NEW q \in Request, CommitConfirm(q)
        PROVE  Reviewed!Confirm \/ UNCHANGED <<saved, Ledger>>
    <2>1. CASE ~Unsourced(request[q].revision)
      BY <1>3, <2>1, <1>u DEF CommitConfirm
    <2>2. CASE Unsourced(request[q].revision)
      <3> DEFINE evaluated == [v \in 1 .. request[q].versions |->
                                 Evaluate(versions[v].marks, request[q].result)]
                 r == [source |-> request[q].revision, content |-> request[q].result,
                       evaluated |-> evaluated]
      <3>1. /\ request[q].revision \in Nat \ {0} /\ request[q].result \in Result
            /\ request[q].versions \in Nat
        BY <1>3, DoingTyped DEF CommitConfirm
      <3>2. r \in ResultRow
        <4>1. evaluated \in Seq(Verdicts)
          BY <3>1, EvaluateTyped
        <4>2. QED
          BY <3>1, <4>1 DEF ResultRow
      <3>3. results' = Append(results, r) /\ UNCHANGED saved
        BY <1>3, <2>2 DEF CommitConfirm
      <3>4. r.source = request[q].revision /\ r.content = request[q].result
        OBVIOUS
      <3> HIDE DEF r
      <3>5. Ledger' = Append(Ledger, [source |-> r.source, content |-> r.content])
        BY <3>2, <3>3, LedgerAppend DEF TypeOK
      <3>6. request[q].revision = Len(saved) /\ request[q].result = saved[Len(saved)]
        BY <1>3 DEF HeldInv, CommitConfirm
      <3>7. \A i \in DOMAIN Ledger : Ledger[i].source # Len(saved)
        BY <2>2, <3>6 DEF Unsourced, Sourced, Ledger
      <3>8. /\ Ledger' = Append(Ledger, [source |-> Len(saved), content |-> saved[Len(saved)]])
            /\ Len(saved) > 0
        BY <3>1, <3>4, <3>5, <3>6
      <3>9. Reviewed!Confirm
        BY <3>3, <3>7, <3>8, Zenon DEF Reviewed!Confirm, Ledger
      <3>10. QED
        BY <3>9
    <2>3. QED
      BY <2>1, <2>2
  <1>4. ASSUME NEW q \in Request,
               \/ \E status \in EditTo, start \in 1 .. bound.start : BeginEdit(q, status, start)
               \/ \E b \in imports : BeginImportEdit(q, b) \/ BeginImport(q, b)
               \/ CommitEdit(q)
               \/ \E p \in previews : BeginPublish(q, p)
               \/ CommitPublish(q)
               \/ \E result \in Result : BeginSave(q, result)
               \/ \E revision \in DOMAIN saved : AskConfirm(q, revision)
               \/ ReadConfirm(q) \/ Abort(q)
        PROVE  UNCHANGED <<saved, Ledger>>
    BY <1>4, <1>u DEF BeginEdit, BeginImportEdit, BeginImport, CommitEdit, BeginPublish,
       CommitPublish, BeginSave, AskConfirm, ReadConfirm, Abort
  <1>5. ASSUME \/ \E h \in Horse : \/ \E status \in {"ACTIVE", "SCRATCHED"} : SaveEntry(h, status)
                                 \/ Assess(h)
               \/ \E marks \in Marks : SaveDraft(marks)
               \/ Preview
               \/ \E status \in EditTo, start \in 1 .. bound.start : PreviewEdit(status, start)
               \/ \E kind \in {"single", "batch"}, result \in Result : PreviewImport(kind, result)
               \/ Tick
               \/ UNCHANGED vars
        PROVE  UNCHANGED <<saved, Ledger>>
    BY <1>5, <1>u DEF SaveEntry, Assess, SaveDraft, Preview, PreviewEdit, PreviewImport, Tick, vars
  <1> QED
    BY <1>1, <1>2, <1>3, <1>4, <1>5 DEF Next

\* Each result takes over one saved revision as it stands, once, although
\* drafts are saved, imported and confirmed by several people at a time.
THEOREM ResultsAreReviewedCorrect == Spec => ResultsAreReviewed
  BY TypeInit, TypeStep, HeldInit, HeldStep, LedgerInit, LedgerStep, PTL
     DEF Spec, ResultsAreReviewed, Reviewed!Spec, Ledger

-----------------------------------------------------------------------------
(***************************************************************************)
(* A finished race is evaluated in full.                                   *)
(***************************************************************************)

\* A confirmation under way evaluates every version but those inserted since it
\* read them.
EvaluatedInv ==
    /\ \A q \in Request : request[q].op = "confirm" =>
          \A v \in DOMAIN versions \ overlapped : v <= request[q].versions
    /\ EveryVersionIsEvaluated

\* Steps that insert no version, confirm nothing and do not finish the race.
LEMMA EvaluatedFrame ==
    ASSUME TypeOK, EvaluatedInv, Leaves("confirm"), race'.status = race.status,
           UNCHANGED <<versions, overlapped, results, reopened>>
    PROVE  EvaluatedInv'
  BY DEF EvaluatedInv, EveryVersionIsEvaluated, Leaves

\* At first there is nothing to evaluate.
LEMMA EvaluatedInit == Init => EvaluatedInv
  BY DEF Init, EvaluatedInv, EveryVersionIsEvaluated, Idle

\* A version is inserted into a race that has no result, or while a confirmation
\* is under way; and a confirmation evaluates all it read.
LEMMA EvaluatedStep == TypeOK /\ EvaluatedInv /\ [Next]_vars => EvaluatedInv'
  <1> SUFFICES ASSUME TypeOK, EvaluatedInv, [Next]_vars PROVE EvaluatedInv'
    OBVIOUS
  <1>1. ASSUME NEW q \in Request, CommitEdit(q) PROVE EvaluatedInv'
    <2>1. Leaves("confirm")
      BY <1>1, LeavesOthers DEF CommitEdit, Idle
    <2>2. results # <<>> => reopened'
      BY <1>1 DEF CommitEdit, TypeOK
    <2>3. UNCHANGED <<versions, overlapped, results>>
      BY <1>1 DEF CommitEdit
    <2>4. QED
      BY <2>1, <2>2, <2>3 DEF EvaluatedInv, EveryVersionIsEvaluated, Leaves
  <1>2. ASSUME NEW q \in Request, CommitPublish(q) PROVE EvaluatedInv'
    <2>1. Leaves("confirm") /\ UNCHANGED <<race, results, reopened>>
      BY <1>2, LeavesOthers DEF CommitPublish, Idle
    <2>2. CASE ~Insertable(request[q].at)
      BY <1>2, <2>1, <2>2, EvaluatedFrame DEF CommitPublish
    <2>3. CASE Insertable(request[q].at)
      <3>1. race.status # "FINISHED"
        BY <2>3 DEF Insertable, Closed
      <3>2. DOMAIN versions' = DOMAIN versions \cup {Len(versions) + 1}
        BY <1>2, <2>3, DoingTyped DEF CommitPublish, TypeOK
      <3>3. \A c \in Request : request[c].op = "confirm" =>
              overlapped' = overlapped \cup {Len(versions) + 1}
        BY <1>2, <2>3 DEF CommitPublish
      <3>4. QED
        BY <2>1, <3>1, <3>2, <3>3 DEF EvaluatedInv, EveryVersionIsEvaluated, Leaves
    <2>4. QED
      BY <2>2, <2>3
  <1>3. ASSUME NEW q \in Request, ReadConfirm(q) PROVE EvaluatedInv'
    <2>1. UNCHANGED <<race, versions, overlapped, results, reopened>>
      BY <1>3 DEF ReadConfirm
    <2>2. CASE SameRevision(q) /\ Started /\ Complete(saved[Len(saved)])
      <3>1. \A p \in Request : request'[p] =
              IF p = q THEN [op |-> "confirm", at |-> request[q].at, revision |-> request[q].revision,
                             result |-> saved[Len(saved)], versions |-> Len(versions)]
              ELSE request[p]
        BY <1>3, <2>2 DEF ReadConfirm, Does, TypeOK
      <3>2. \A v \in DOMAIN versions : v <= Len(versions)
        BY DEF TypeOK
      <3>3. QED
        BY <2>1, <3>1, <3>2 DEF EvaluatedInv, EveryVersionIsEvaluated
    <2>3. CASE ~(SameRevision(q) /\ Started /\ Complete(saved[Len(saved)]))
      <3>1. Leaves("confirm")
        BY <1>3, <2>3, LeavesOthers DEF ReadConfirm, Idle
      <3>2. QED
        BY <2>1, <3>1, EvaluatedFrame
    <2>4. QED
      BY <2>2, <2>3
  <1>4. ASSUME NEW q \in Request, CommitConfirm(q) PROVE EvaluatedInv'
    <2>1. Leaves("confirm") /\ UNCHANGED <<versions, overlapped, reopened>>
      BY <1>4, LeavesOthers DEF CommitConfirm, Idle
    <2>2. CASE ~Unsourced(request[q].revision)
      BY <1>4, <2>1, <2>2, EvaluatedFrame DEF CommitConfirm
    <2>3. CASE Unsourced(request[q].revision)
      <3> DEFINE r == [source |-> request[q].revision, content |-> request[q].result,
                       evaluated |-> [v \in 1 .. request[q].versions |->
                                        Evaluate(versions[v].marks, request[q].result)]]
      <3>1. results' = Append(results, r)
        BY <1>4, <2>3 DEF CommitConfirm
      <3>2. DOMAIN r.evaluated = 1 .. request[q].versions
        OBVIOUS
      <3> HIDE DEF r
      <3>3. results'[Len(results')] = r
        BY <3>1 DEF TypeOK
      <3>4. \A v \in DOMAIN versions \ overlapped : v \in 1 .. request[q].versions
        <4>1. request[q].versions \in Nat /\ DOMAIN versions = 1 .. Len(versions)
          BY <1>4, DoingTyped DEF CommitConfirm, TypeOK
        <4>2. QED
          BY <1>4, <4>1 DEF EvaluatedInv, CommitConfirm
      <3>5. QED
        BY <2>1, <3>2, <3>3, <3>4 DEF EvaluatedInv, EveryVersionIsEvaluated, Leaves
    <2>4. QED
      BY <2>2, <2>3
  <1>5. ASSUME NEW q \in Request,
               \/ \E status \in EditTo, start \in 1 .. bound.start : BeginEdit(q, status, start)
               \/ \E b \in imports : BeginImportEdit(q, b) \/ BeginImport(q, b)
               \/ \E p \in previews : BeginPublish(q, p)
               \/ \E result \in Result : BeginSave(q, result)
               \/ \E revision \in DOMAIN saved : AskConfirm(q, revision)
        PROVE  EvaluatedInv'
    <2>1. Leaves("confirm")
      BY <1>5, LeavesOthers
         DEF BeginEdit, BeginImportEdit, BeginImport, BeginPublish, BeginSave, AskConfirm
    <2>2. QED
      BY <1>5, <2>1, EvaluatedFrame
         DEF BeginEdit, BeginImportEdit, BeginImport, BeginPublish, BeginSave, AskConfirm
  <1>6. ASSUME NEW q \in Request, CommitSave(q) \/ CommitImport(q) \/ Abort(q)
        PROVE  EvaluatedInv'
    <2>1. Leaves("confirm")
      BY <1>6, LeavesOthers DEF CommitSave, CommitImport, Abort, Idle
    <2>2. QED
      BY <1>6, <2>1, EvaluatedFrame DEF CommitSave, CommitImport, Abort
  <1>7. ASSUME \/ \E h \in Horse : \/ \E status \in {"ACTIVE", "SCRATCHED"} : SaveEntry(h, status)
                                 \/ Assess(h)
               \/ \E marks \in Marks : SaveDraft(marks)
               \/ Preview
               \/ \E status \in EditTo, start \in 1 .. bound.start : PreviewEdit(status, start)
               \/ \E kind \in {"single", "batch"}, result \in Result : PreviewImport(kind, result)
               \/ Tick
               \/ UNCHANGED vars
        PROVE  EvaluatedInv'
    <2>1. race'.status = race.status
      BY <1>7 DEF SaveEntry, Assess, SaveDraft, Preview, PreviewEdit, PreviewImport, Tick, vars,
                  TypeOK, RaceRow
    <2>2. UNCHANGED <<versions, overlapped, results, reopened, request>>
      BY <1>7 DEF SaveEntry, Assess, SaveDraft, Preview, PreviewEdit, PreviewImport, Tick, vars
    <2>3. QED
      BY <2>1, <2>2, LeavesAll, EvaluatedFrame
  <1> QED
    BY <1>1, <1>2, <1>3, <1>4, <1>5, <1>6, <1>7 DEF Next

\* Every version members read of a finished race is evaluated by its last
\* result, but for insertions during the confirmation and later edits.
THEOREM EveryVersionIsEvaluatedCorrect == Spec => []EveryVersionIsEvaluated
  <1>1. EvaluatedInv => EveryVersionIsEvaluated
    BY DEF EvaluatedInv
  <1>2. QED
    BY <1>1, TypeInit, TypeStep, EvaluatedInit, EvaluatedStep, PTL DEF Spec

-----------------------------------------------------------------------------
(***************************************************************************)
(* Imports replace what their preview compared them with.                  *)
(***************************************************************************)

\* What an import is to replace is what it was compared with.
Matched(b) == b.target = b.base.revision + 1 /\ b.replaces = b.base.content

\* An import stands in the draft where its preview said.
Stands(b) ==
    /\ b.target \in DOMAIN saved /\ saved[b.target] = b.result
    /\ b.target > 1 => saved[b.target - 1] = b.replaces

\* An import under way was compared with the revision it is about to follow,
\* and that revision is in the draft as it was.
Follows(r) ==
    /\ Matched(r.batch)
    /\ r.batch.base.revision = r.revision
    /\ r.revision <= Len(saved)
    /\ r.revision > 0 => r.batch.replaces = saved[r.revision]

ImportInv ==
    /\ \A b \in imports : b.kind # "race" => Matched(b)
    /\ \A q \in Request : request[q].op = "import" => Follows(request[q])
    /\ ImportedAsPreviewed

\* Once in the draft, an import stays there: the draft keeps its revisions.
LEMMA StandsOn ==
    ASSUME TypeOK, UNCHANGED saved \/ \E c \in Result : saved' = Append(saved, c),
           NEW b, b.target \in Nat, Stands(b)
    PROVE  /\ b.target \in DOMAIN saved' /\ saved'[b.target] = b.result
           /\ b.target > 1 => saved'[b.target - 1] = b.replaces
  <1>1. Len(saved) \in Nat /\ DOMAIN saved = 1 .. Len(saved)
    BY DEF TypeOK
  <1>2. DOMAIN saved \subseteq DOMAIN saved' /\ \A i \in DOMAIN saved : saved'[i] = saved[i]
    <2>1. CASE UNCHANGED saved
      BY <2>1
    <2>2. ASSUME NEW c \in Result, saved' = Append(saved, c)
          PROVE  DOMAIN saved \subseteq DOMAIN saved' /\ \A i \in DOMAIN saved : saved'[i] = saved[i]
      <3>1. DOMAIN saved' = 1 .. Len(saved) + 1 /\ \A i \in 1 .. Len(saved) : saved'[i] = saved[i]
        BY <2>2 DEF TypeOK
      <3>2. QED
        BY <1>1, <3>1
    <2>3. QED
      BY <2>1, <2>2
  <1>3. b.target \in DOMAIN saved /\ (b.target > 1 => b.target - 1 \in DOMAIN saved)
    BY <1>1 DEF Stands
  <1>4. QED
    BY <1>2, <1>3 DEF Stands

\* Nor does an import under way lose the revision it is to follow.
LEMMA FollowsOn ==
    ASSUME TypeOK, UNCHANGED saved \/ \E c \in Result : saved' = Append(saved, c),
           NEW q \in Request, request[q].op = "import", Follows(request[q])
    PROVE  /\ request[q].revision <= Len(saved')
           /\ request[q].revision > 0 => request[q].batch.replaces = saved'[request[q].revision]
  <1>1. request[q].revision \in Nat
    BY DoingTyped
  <1>2. /\ Len(saved) \in Nat /\ Len(saved) <= Len(saved')
        /\ \A i \in 1 .. Len(saved) : saved'[i] = saved[i]
    <2>1. saved \in Seq(Result)
      BY DEF TypeOK
    <2>2. QED
      BY <2>1
  <1>3. QED
    BY <1>1, <1>2 DEF Follows

\* Steps that begin no import, and whose new imports are in order.
LEMMA ImportFrame ==
    ASSUME TypeOK, ImportInv, UNCHANGED saved \/ \E c \in Result : saved' = Append(saved, c),
           Leaves("import"),
           \A b \in imports' \ imports : b.kind # "race" =>
               Matched(b) /\ (b.confirmed => Stands(b)')
    PROVE  ImportInv'
  <1>1. ASSUME NEW q \in Request, request'[q].op = "import" PROVE Follows(request[q])'
    <2>1. request'[q] = request[q] /\ Follows(request[q])
      BY <1>1 DEF Leaves, ImportInv
    <2>2. QED
      BY <1>1, <2>1, FollowsOn DEF Follows, Matched
  <1>2. ASSUME NEW b \in imports', b.kind # "race" PROVE Matched(b)
    BY <1>2 DEF ImportInv
  <1>3. ASSUME NEW b \in imports', b.kind # "race", b.confirmed PROVE Stands(b)'
    <2>1. CASE b \in imports
      <3>1. b.target \in Nat
        BY <1>3, <2>1 DEF TypeOK, RaceImport, ResultImport
      <3>2. Stands(b)
        BY <1>3, <2>1 DEF ImportInv, ImportedAsPreviewed, Stands
      <3>3. QED
        BY <3>1, <3>2, StandsOn DEF Stands
    <2>2. CASE b \notin imports
      BY <1>3, <2>2
    <2>3. QED
      BY <2>1, <2>2
  <1>4. ImportedAsPreviewed'
    BY <1>3 DEF ImportedAsPreviewed, Stands
  <1>5. QED
    BY <1>1, <1>2, <1>4 DEF ImportInv, Matched

\* At first nothing is imported.
LEMMA ImportInit == Init => ImportInv
  BY DEF Init, ImportInv, ImportedAsPreviewed, Idle

\* An import replaces only the revision it was compared with.
LEMMA ImportStep == TypeOK /\ ImportInv /\ [Next]_vars => ImportInv'
  <1> SUFFICES ASSUME TypeOK, ImportInv, [Next]_vars PROVE ImportInv'
    OBVIOUS
  <1>1. ASSUME NEW q \in Request, NEW b \in imports, BeginImport(q, b) PROVE ImportInv'
    <2>1. \A p \in Request : request'[p] =
            IF p = q THEN [op |-> "import", at |-> now, batch |-> b, result |-> b.result,
                           revision |-> Len(saved)]
            ELSE request[p]
      BY <1>1 DEF BeginImport, Does, TypeOK
    <2>2. UNCHANGED <<saved, imports>>
      BY <1>1 DEF BeginImport
    <2>3. Matched(b) /\ b.base.revision = Len(saved) /\ b.base.content = Standing
      BY <1>1 DEF BeginImport, ImportInv, Baseline
    <2>4. Len(saved) \in Nat /\ (Len(saved) > 0 => Standing = saved[Len(saved)])
      BY DEF TypeOK, Standing
    <2>5. Follows(request[q])'
      BY <2>1, <2>2, <2>3, <2>4 DEF Follows, Matched
    <2>6. \A p \in Request \ {q} : request[p].op = "import" => Follows(request[p])'
      BY <2>1, <2>2 DEF Follows, Matched, ImportInv
    <2>7. QED
      BY <2>1, <2>2, <2>5, <2>6 DEF ImportInv, ImportedAsPreviewed, Matched
  <1>2. ASSUME NEW q \in Request, CommitImport(q) PROVE ImportInv'
    <2>1. Leaves("import")
      BY <1>2, LeavesOthers DEF CommitImport, Idle
    <2>2. CASE ~SameRevision(q)
      <3>1. UNCHANGED <<saved, imports>>
        BY <1>2, <2>2 DEF CommitImport
      <3>2. QED
        BY <2>1, <3>1, ImportFrame
    <2>3. CASE SameRevision(q)
      <3>0. PICK b, used : b = request[q].batch /\ used = [b EXCEPT !.confirmed = TRUE]
        OBVIOUS
      <3>1. saved' = Append(saved, b.result) /\ imports' = (imports \ {b}) \cup {used}
        BY <1>2, <2>3, <3>0 DEF CommitImport
      <3>2. b \in ResultImport /\ b.result \in Result
        BY <1>2, <3>0, DoingTyped DEF CommitImport, ResultImport
      <3>3. used.result = b.result /\ used.base = b.base /\ used.replaces = b.replaces /\ used.target = b.target
        BY <3>0, <3>2, ResultImportUsed
      <3>4. Follows(request[q]) /\ request[q].revision = Len(saved)
        BY <1>2, <2>3 DEF CommitImport, ImportInv, SameRevision
      <3>5. b.target = Len(saved) + 1 /\ (Len(saved) > 0 => b.replaces = saved[Len(saved)]) /\ Matched(b)
        BY <3>0, <3>4 DEF Follows, Matched
      <3>6. Matched(used) /\ Stands(used)'
        <4>1. Matched(used)
          BY <3>3, <3>5 DEF Matched
        <4>2. /\ Len(saved) \in Nat
              /\ DOMAIN saved' = 1 .. Len(saved) + 1
              /\ saved'[Len(saved) + 1] = b.result
              /\ \A i \in 1 .. Len(saved) : saved'[i] = saved[i]
          BY <3>1, <3>2 DEF TypeOK
        <4>3. used.target \in DOMAIN saved' /\ saved'[used.target] = used.result
          BY <3>3, <3>5, <4>2
        <4>4. used.target > 1 => saved'[used.target - 1] = used.replaces
          BY <3>3, <3>5, <4>2
        <4>5. QED
          BY <4>1, <4>3, <4>4 DEF Stands
      <3>7. \A x \in imports' \ imports : Matched(x) /\ Stands(x)'
        BY <3>1, <3>6 DEF Stands, Matched
      <3>8. \E c \in Result : saved' = Append(saved, c)
        BY <3>1, <3>2
      <3>9. QED
        BY <2>1, <3>7, <3>8, ImportFrame
    <2>4. QED
      BY <2>2, <2>3
  <1>3. ASSUME NEW q \in Request, CommitSave(q) PROVE ImportInv'
    <2>1. Leaves("import") /\ UNCHANGED imports
      BY <1>3, LeavesOthers DEF CommitSave, Idle
    <2>2. UNCHANGED saved \/ \E c \in Result : saved' = Append(saved, c)
      BY <1>3, DoingTyped DEF CommitSave
    <2>3. QED
      BY <2>1, <2>2, ImportFrame
  <1>4. ASSUME NEW q \in Request, CommitEdit(q) PROVE ImportInv'
    <2>1. Leaves("import") /\ UNCHANGED saved
      BY <1>4, LeavesOthers DEF CommitEdit, Idle
    <2>2. \A b \in request[q].file : [b EXCEPT !.confirmed = TRUE] \in RaceImport
      BY <1>4, DoingTyped, RaceImportUsed DEF CommitEdit
    <2>3. \A b \in imports' \ imports : b.kind = "race"
      BY <1>4, <2>2 DEF CommitEdit, RaceImport
    <2>4. QED
      BY <2>1, <2>3, ImportFrame
  <1>5. ASSUME NEW kind \in {"single", "batch"}, NEW result \in Result, PreviewImport(kind, result)
        PROVE  ImportInv'
    <2> DEFINE b == [kind |-> kind, result |-> result, base |-> Baseline, replaces |-> Standing,
                     target |-> Len(saved) + 1, until |-> now + 1, confirmed |-> FALSE]
    <2>1. Matched(b) /\ ~b.confirmed
      BY DEF Matched, Baseline
    <2>2. imports' = imports \cup {b} /\ UNCHANGED <<saved, request>>
      BY <1>5 DEF PreviewImport
    <2> HIDE DEF b
    <2>3. QED
      BY <2>1, <2>2, LeavesAll, ImportFrame
  <1>6. ASSUME NEW status \in EditTo, NEW start \in 1 .. bound.start, PreviewEdit(status, start)
        PROVE  ImportInv'
    <2>1. UNCHANGED <<saved, request>> /\ \A b \in imports' \ imports : b.kind = "race"
      BY <1>6 DEF PreviewEdit
    <2>2. QED
      BY <2>1, LeavesAll, ImportFrame
  <1>7. ASSUME NEW q \in Request,
               \/ \E status \in EditTo, start \in 1 .. bound.start : BeginEdit(q, status, start)
               \/ \E b \in imports : BeginImportEdit(q, b)
               \/ \E p \in previews : BeginPublish(q, p)
               \/ \E result \in Result : BeginSave(q, result)
               \/ \E revision \in DOMAIN saved : AskConfirm(q, revision)
        PROVE  ImportInv'
    <2>1. Leaves("import")
      BY <1>7, LeavesOthers DEF BeginEdit, BeginImportEdit, BeginPublish, BeginSave, AskConfirm
    <2>2. UNCHANGED <<saved, imports>>
      BY <1>7 DEF BeginEdit, BeginImportEdit, BeginPublish, BeginSave, AskConfirm
    <2>3. QED
      BY <2>1, <2>2, ImportFrame
  <1>8. ASSUME NEW q \in Request, CommitPublish(q) \/ ReadConfirm(q) \/ CommitConfirm(q) \/ Abort(q)
        PROVE  ImportInv'
    <2>1. Leaves("import")
      BY <1>8, LeavesOthers DEF CommitPublish, ReadConfirm, CommitConfirm, Abort, Idle
    <2>2. UNCHANGED <<saved, imports>>
      BY <1>8 DEF CommitPublish, ReadConfirm, CommitConfirm, Abort
    <2>3. QED
      BY <2>1, <2>2, ImportFrame
  <1>9. ASSUME \/ \E h \in Horse : \/ \E status \in {"ACTIVE", "SCRATCHED"} : SaveEntry(h, status)
                                 \/ Assess(h)
               \/ \E marks \in Marks : SaveDraft(marks)
               \/ Preview
               \/ Tick
               \/ UNCHANGED vars
        PROVE  ImportInv'
    <2>1. UNCHANGED <<saved, imports, request>>
      BY <1>9 DEF SaveEntry, Assess, SaveDraft, Preview, Tick, vars
    <2>2. QED
      BY <2>1, LeavesAll, ImportFrame
  <1> QED
    BY <1>1, <1>2, <1>3, <1>4, <1>5, <1>6, <1>7, <1>8, <1>9 DEF Next

\* A confirmed import is the revision its preview announced, after the one it
\* was compared with, although drafts are saved without the imports' lock.
THEOREM ImportedAsPreviewedCorrect == Spec => []ImportedAsPreviewed
  <1>1. ImportInv => ImportedAsPreviewed
    BY DEF ImportInv
  <1>2. QED
    BY <1>1, TypeInit, TypeStep, ImportInit, ImportStep, PTL DEF Spec

-----------------------------------------------------------------------------
(***************************************************************************)
(* The WIN5 product stands beside the races of its legs, whose horses and  *)
(* requests it shares; the rest of its constants and its variables are its *)
(* own.  What is said of its constants is a hypothesis of each theorem     *)
(* about it.                                                               *)
(***************************************************************************)
CONSTANTS Worker, DayStart, DayEnd, FirstRace, Limit

VARIABLES
    legRace, product, win5Previews, win5Versions, legResult, win5Request, win5Now, win5Bound

Win5 == INSTANCE Win5Day WITH
    race <- legRace, previews <- win5Previews, versions <- win5Versions, result <- legResult,
    request <- win5Request, now <- win5Now, bound <- win5Bound

-----------------------------------------------------------------------------
(***************************************************************************)
(* Types of a WIN5 day.  What an evaluation says of versions and results   *)
(* stays within the bounds of the behaviour, since every version uses up a *)
(* preview: types and counts are proved together.                          *)
(***************************************************************************)
PublishesWin5(q) == win5Request[q].op \in {"publish", "start"}

VersionsCounted ==
    /\ IsFiniteSet(win5Previews) /\ Cardinality(win5Previews) <= win5Bound.previews
    /\ Cardinality({p \in win5Previews : p.version > 0}) = Len(win5Versions)
    /\ \A p \in win5Previews : p.version <= Len(win5Versions)

\* One publication at a time is under way, of a preview that is not used yet.
OnePublication ==
    /\ \A q \in Win5!Process : PublishesWin5(q) =>
          win5Request[q].preview \in win5Previews /\ win5Request[q].preview.version = 0
    /\ \A p, q \in Win5!Process : PublishesWin5(p) /\ PublishesWin5(q) => p = q

ResultsCounted == \A l \in Leg : Len(legResult[l]) <= win5Bound.results

\* One confirmation at a time is under way, of the standing revision, which no
\* evaluation took over yet.
ConfirmHeld ==
    /\ \A p, q \in Request : win5Request[p].op = "confirm" /\ win5Request[q].op = "confirm" => p = q
    /\ \A q \in Request : win5Request[q].op = "confirm" =>
          /\ win5Saved # <<>> /\ win5Request[q].content = win5Saved[Len(win5Saved)]
          /\ \A i \in DOMAIN evaluations : evaluations[i].source # Len(win5Saved)

DayInv == Win5!TypeOK /\ VersionsCounted /\ OnePublication /\ ResultsCounted /\ ConfirmHeld

\* What a transaction does determines the rest of its record.
LEMMA Win5DoingTyped ==
    ASSUME Win5!TypeOK, NEW q \in Win5!Process
    PROVE  /\ win5Request[q] \in Win5!Doing /\ Win5!Idle \in Win5!Doing
           /\ win5Request[q].op = "publish" => win5Request[q] \in
                [op : {"publish"}, at : Nat \ {0}, preview : Win5!PreviewRow, legs : Win5!Picks]
           /\ win5Request[q].op = "start" => win5Request[q] \in
                [op : {"start"}, at : Nat \ {0}, preview : Win5!PreviewRow, legs : Win5!Picks,
                 rows : SUBSET Member, deadline : Nat]
           /\ win5Request[q].op = "buy" => win5Request[q] \in
                [op : {"buy"}, at : Nat, member : Member, source : Win5!Source, starts : Nat]
           /\ win5Request[q].op = "activate" => win5Request[q] \in
                [op : {"activate"}, at : Nat, rows : SUBSET Member]
           /\ win5Request[q].op \in {"refund", "refunded"} => win5Request[q] \in
                [op : {"refund", "refunded"}, at : Nat, member : Member]
           /\ win5Request[q].op = "hear" => win5Request[q] \in
                [op : {"hear"}, at : Nat, member : Member, row : Win5!PassRow]
           /\ win5Request[q].op \in {"import", "confirm"} => win5Request[q] \in
                [op : {"import", "confirm"}, at : Nat, content : Win5!EvaluationRow]
  <1>1. win5Request[q] \in Win5!Doing
    BY DEF Win5!TypeOK
  <1>2. Win5!Idle \in Win5!Doing
    BY DEF Win5!Doing
  <1>3. QED
    BY <1>1, <1>2 DEF Win5!Doing, Win5!Idle

\* A transaction's step is its own.
LEMMA Win5DoesTyped ==
    ASSUME Win5!TypeOK, NEW q \in Win5!Process, NEW what \in Win5!Doing, Win5!Does(q, what)
    PROVE  /\ win5Request' \in [Win5!Process -> Win5!Doing] /\ win5Request'[q] = what
           /\ \A p \in Win5!Process \ {q} : win5Request'[p] = win5Request[p]
  BY DEF Win5!TypeOK, Win5!Does

\* Whatever it does.
LEMMA Win5DoesAlone ==
    ASSUME Win5!TypeOK, NEW q \in Win5!Process, NEW what, Win5!Does(q, what)
    PROVE  /\ win5Request'[q] = what
           /\ \A p \in Win5!Process \ {q} : win5Request'[p] = win5Request[p]
  BY DEF Win5!TypeOK, Win5!Does

\* The bound that was chosen is one of Win5Bounds.
LEMMA Win5BoundTyped ==
    ASSUME Win5!ConstantsAssumption, Win5!TypeOK
    PROVE  /\ win5Bound.revision \in Nat /\ win5Bound.previews \in Nat /\ win5Bound.changes \in Nat
           /\ win5Bound.results \in Nat /\ win5Bound.imports \in Nat
           /\ win5Bound.buyers \subseteq Member /\ win5Bound.time \in Nat
  <1>1. win5Bound \in [revision : Nat, previews : Nat, changes : Nat, results : Nat,
                   imports : Nat, buyers : SUBSET Member, time : Nat]
    BY DEF Win5!ConstantsAssumption, Win5!TypeOK
  <1>2. QED
    BY <1>1

\* Counts that keep to the bound of this behaviour are counts of some behaviour.
LEMMA WithinBounds ==
    ASSUME Win5!ConstantsAssumption, Win5!TypeOK, NEW n \in Nat \ {0}
    PROVE  /\ n <= win5Bound.previews => n \in Win5!UpTo("previews")
           /\ n <= win5Bound.results => n \in Win5!UpTo("results")
  <1>1. win5Bound \in Win5Bounds /\ win5Bound.previews \in Nat /\ win5Bound.results \in Nat
    BY Win5BoundTyped DEF Win5!TypeOK
  <1>2. win5Bound.previews = win5Bound["previews"] /\ win5Bound.results = win5Bound["results"]
    OBVIOUS
  <1>3. n <= win5Bound.previews => n \in 1 .. win5Bound["previews"]
    BY <1>1, <1>2
  <1>4. n <= win5Bound.results => n \in 1 .. win5Bound["results"]
    BY <1>1, <1>2
  <1>5. QED
    BY <1>1, <1>3, <1>4 DEF Win5!UpTo

\* A set of numbers has a least one.
LEMMA Win5Least ==
    ASSUME NEW times \in SUBSET Nat, times # {}
    PROVE  \E t \in times : \A u \in times : t <= u
  <1> DEFINE less == {ss \in Nat \X Nat : ss[1] < ss[2]}
  <1>1. IsWellFoundedOn(less, Nat)
    BY NatLessThanWellFounded DEF OpToRel
  <1>2. \A t, u \in Nat : t < u => <<t, u>> \in less
    OBVIOUS
  <1> HIDE DEF less
  <1>3. PICK t \in times : \A u \in times : ~ (<<u, t>> \in less)
    BY <1>1, WFMin
  <1>4. ASSUME NEW u \in times PROVE t <= u
    <2>1. t \in Nat /\ u \in Nat /\ ~ (<<u, t>> \in less)
      BY <1>3
    <2>2. QED
      BY <1>2, <2>1
  <1>5. QED
    BY <1>4

\* The first leg starts at some time.
LEMMA EarliestTyped ==
    ASSUME Win5!ConstantsAssumption, Win5!TypeOK
    PROVE  Win5!Earliest \in Nat
  <1> DEFINE times == {legRace[l].startsAt : l \in Leg}
  <1>1. times \in SUBSET Nat /\ times # {}
    <2>1. Leg # {} /\ legRace \in [Leg -> Win5!RaceRow]
      BY DEF Win5!ConstantsAssumption, Win5!TypeOK
    <2>2. \A l \in Leg : legRace[l].startsAt \in Nat
      BY <2>1 DEF Win5!RaceRow
    <2>3. QED
      BY <2>1, <2>2
  <1>2. \E t \in times : \A u \in times : t <= u
    BY <1>1, Win5Least
  <1>3. \E t \in times : \A l \in Leg : t <= legRace[l].startsAt
    BY <1>2
  <1>4. QED
    BY <1>1, <1>3 DEF Win5!Earliest

\* What the latest version comes to is an evaluation.
LEMMA CalculatedTyped ==
    ASSUME Win5!ConstantsAssumption, DayInv, Win5!Calculable
    PROVE  Win5!Calculated \in Win5!EvaluationRow
  <1>1. /\ Win5!TypeOK /\ Len(win5Versions) \in Nat \ {0} /\ Len(win5Versions) <= win5Bound.previews
    <2>1. Len(win5Versions) \in Nat \ {0}
      BY DEF DayInv, Win5!TypeOK, Win5!Calculable
    <2>2. Cardinality({p \in win5Previews : p.version > 0}) <= Cardinality(win5Previews)
      BY FS_Subset DEF DayInv, VersionsCounted
    <2>3. Cardinality(win5Previews) \in Nat
      BY FS_CardinalityType DEF DayInv, VersionsCounted
    <2>4. win5Bound.previews \in Nat /\ Win5!TypeOK
      BY Win5BoundTyped DEF DayInv
    <2>5. QED
      BY <2>1, <2>2, <2>3, <2>4 DEF DayInv, VersionsCounted
  <1>2. Len(win5Versions) \in Win5!UpTo("previews")
    BY <1>1, WithinBounds
  <1>3. ASSUME NEW l \in Leg PROVE Len(legResult[l]) \in Win5!UpTo("results")
    <2>1. legResult[l] \in Seq(Horse \cup {Win5!NoOne}) /\ legResult[l] # <<>>
      BY DEF DayInv, Win5!TypeOK, Win5!Calculable
    <2>2. Len(legResult[l]) \in Nat \ {0} /\ Len(legResult[l]) <= win5Bound.results
      BY <2>1 DEF DayInv, ResultsCounted
    <2>3. QED
      BY <1>1, <2>2, WithinBounds
  <1>4. [l \in Leg |-> Len(legResult[l])] \in [Leg -> Win5!UpTo("results")]
    BY <1>3
  <1>5. QED
    BY <1>2, <1>4 DEF Win5!Calculated, Win5!EvaluationRow

\* The initial state is well typed and nothing is counted.
LEMMA Win5Init ==
    ASSUME Win5!ConstantsAssumption
    PROVE  Win5!Init => DayInv
  <1> SUFFICES ASSUME Win5!Init PROVE DayInv
    OBVIOUS
  <1>1. legRace \in [Leg -> Win5!RaceRow] /\ product \in Win5!ProductRow
    BY DEF Win5!ConstantsAssumption, Win5!Init, Win5!RaceRow, Win5!ProductRow
  <1>2. pass \in [Member -> Win5!PassRow] /\ refund \in [Member -> Win5!RefundRow]
    BY DEF Win5!Init, Win5!PassRow, Win5!RefundRow, Win5!Source
  <1>3. win5Request \in [Win5!Process -> Win5!Doing]
      /\ \A q \in Win5!Process : win5Request[q].op = "idle"
    BY DEF Win5!Init, Win5!Doing, Win5!Idle
  <1>4. /\ legResult \in [Leg -> Seq(Horse \cup {Win5!NoOne})]
        /\ win5Saved \in Seq(Win5!EvaluationRow)
        /\ evaluations \in Seq([source : Nat \ {0}, content : Win5!EvaluationRow])
        /\ win5Versions \in Seq(Win5!VersionRow) /\ win5Previews \in SUBSET Win5!PreviewRow
        /\ win5Now \in Nat \ {0} /\ win5Bound \in Win5Bounds
    BY DEF Win5!Init
  <1>5. Win5!TypeOK
    BY <1>1, <1>2, <1>3, <1>4 DEF Win5!TypeOK
  <1>6. VersionsCounted
    <2>1. {p \in win5Previews : p.version > 0} = {} /\ win5Previews = {} /\ Len(win5Versions) = 0
      BY DEF Win5!Init
    <2>2. IsFiniteSet({}) /\ Cardinality({}) = 0
      BY FS_EmptySet
    <2>3. win5Bound.previews \in Nat
      BY <1>5, Win5BoundTyped
    <2>4. QED
      BY <2>1, <2>2, <2>3 DEF VersionsCounted
  <1>7. OnePublication
    BY <1>3 DEF OnePublication, PublishesWin5
  <1>8. ResultsCounted
    BY <1>5, Win5BoundTyped DEF Win5!Init, ResultsCounted
  <1>9. ConfirmHeld
    BY <1>3 DEF ConfirmHeld, Win5!Process
  <1>10. QED
    BY <1>5, <1>6, <1>7, <1>8, <1>9 DEF DayInv

-----------------------------------------------------------------------------
\* Races, products and previews keep their types.
LEMMA StaffTyped ==
    ASSUME Win5!ConstantsAssumption, DayInv,
           \/ \E l \in Leg :
                 \/ \E start \in {FirstRace, FirstRace - 1}, status \in {"SCHEDULED", "DELAYED"} :
                       Win5!ChangeRace(l, start, status)
                 \/ \E winner \in Horse \cup {Win5!NoOne} : Win5!ConfirmRace(l, winner)
                 \/ \E horses \in (SUBSET Horse) \ {{}} : Win5!SaveLeg(l, horses)
           \/ Win5!SaveProduct \/ Win5!Preview
    PROVE  Win5!TypeOK'
  <1>1. Win5!TypeOK
    BY DEF DayInv
  <1>2. ASSUME NEW l \in Leg, NEW start \in {FirstRace, FirstRace - 1},
               NEW status \in {"SCHEDULED", "DELAYED"}, Win5!ChangeRace(l, start, status)
        PROVE  Win5!TypeOK'
    <2>1. legRace \in [Leg -> Win5!RaceRow] /\ start \in Nat
      BY <1>1 DEF Win5!ConstantsAssumption, Win5!TypeOK
    <2>2. legRace' \in [Leg -> Win5!RaceRow]
      <3>1. [startsAt |-> start, status |-> status, revision |-> legRace[l].revision + 1] \in Win5!RaceRow
        BY <2>1 DEF Win5!RaceRow
      <3>2. QED
        BY <1>2, <2>1, <3>1 DEF Win5!ChangeRace
    <2>3. QED
      BY <1>1, <1>2, <2>2 DEF Win5!ChangeRace, Win5!TypeOK, Win5!staff, Win5!sales, Win5!outcome
  <1>3. ASSUME NEW l \in Leg, NEW winner \in Horse \cup {Win5!NoOne}, Win5!ConfirmRace(l, winner)
        PROVE  Win5!TypeOK'
    <2> DEFINE new == [legRace[l] EXCEPT !.status = "FINISHED", !.revision = @ + 1]
    <2>1. legRace' \in [Leg -> Win5!RaceRow]
      <3>1. legRace[l] \in Win5!RaceRow /\ legRace[l].revision + 1 \in Nat
          /\ legRace \in [Leg -> Win5!RaceRow]
        <4>1. legRace \in [Leg -> Win5!RaceRow]
          BY <1>1 DEF Win5!TypeOK
        <4>2. QED
          BY <4>1 DEF Win5!RaceRow
      <3>2. new \in Win5!RaceRow
        BY <3>1 DEF Win5!RaceRow
      <3>3. legRace' = [legRace EXCEPT ![l] = new]
        BY <1>3, <3>1 DEF Win5!ConfirmRace, Win5!RaceRow
      <3> HIDE DEF new
      <3>4. QED
        BY <3>1, <3>2, <3>3
    <2>2. legResult' \in [Leg -> Seq(Horse \cup {Win5!NoOne})]
      <3>1. legResult \in [Leg -> Seq(Horse \cup {Win5!NoOne})]
        BY <1>1 DEF Win5!TypeOK
      <3>2. legResult' = [legResult EXCEPT ![l] = Append(@, winner)]
        BY <1>3 DEF Win5!ConfirmRace
      <3>3. Append(legResult[l], winner) \in Seq(Horse \cup {Win5!NoOne})
        BY <3>1
      <3>4. QED
        BY <3>1, <3>2, <3>3
    <2>3. QED
      BY <1>1, <1>3, <2>1, <2>2 DEF Win5!ConfirmRace, Win5!TypeOK, Win5!staff, Win5!sales
  <1>4. ASSUME NEW l \in Leg, NEW horses \in (SUBSET Horse) \ {{}}, Win5!SaveLeg(l, horses)
        PROVE  Win5!TypeOK'
    <2>1. product' \in Win5!ProductRow
      <3>1. product \in Win5!ProductRow
        BY <1>1 DEF Win5!TypeOK
      <3>2. QED
        BY <1>4, <3>1 DEF Win5!SaveLeg, Win5!ProductRow
    <2>2. QED
      BY <1>1, <1>4, <2>1 DEF Win5!SaveLeg, Win5!TypeOK, Win5!sales, Win5!outcome
  <1>5. CASE Win5!SaveProduct
    <2>1. product' \in Win5!ProductRow
      <3>1. product \in Win5!ProductRow /\ product.revision + 1 \in Nat
        BY <1>1 DEF Win5!TypeOK, Win5!ProductRow
      <3>2. QED
        BY <1>5, <3>1 DEF Win5!SaveProduct, Win5!ProductRow
    <2>2. QED
      BY <1>1, <1>5, <2>1 DEF Win5!SaveProduct, Win5!TypeOK, Win5!sales, Win5!outcome
  <1>6. CASE Win5!Preview
    <2>1. Win5!Fingerprint \in Win5!FingerprintRow
      BY <1>1 DEF Win5!Fingerprint, Win5!FingerprintRow, Win5!TypeOK
    <2>2. product.legs \in Win5!Picks
      BY <1>1, <1>6 DEF Win5!Preview, Win5!Publishable, Win5!TypeOK, Win5!ProductRow, Win5!Picks
    <2>3. Len(win5Versions) + 1 \in Nat /\ win5Now + 1 \in Nat
      BY <1>1 DEF Win5!TypeOK
    <2>4. [base |-> Win5!Fingerprint, legs |-> product.legs, next |-> Len(win5Versions) + 1,
           until |-> win5Now + 1, version |-> 0] \in Win5!PreviewRow
      BY <2>1, <2>2, <2>3 DEF Win5!PreviewRow
    <2>5. win5Previews' \in SUBSET Win5!PreviewRow
      BY <1>1, <1>6, <2>4 DEF Win5!Preview, Win5!TypeOK
    <2>6. QED
      BY <1>1, <1>6, <2>5 DEF Win5!Preview, Win5!TypeOK, Win5!sales, Win5!outcome
  <1>7. QED
    BY <1>2, <1>3, <1>4, <1>5, <1>6

\* A transaction that ends leaves its types.
LEMMA RequestTyped ==
    ASSUME Win5!TypeOK, NEW q \in Win5!Process, NEW what \in Win5!Doing, Win5!Does(q, what)
    PROVE  win5Request' \in [Win5!Process -> Win5!Doing] /\ Win5!Idle \in Win5!Doing
  BY Win5DoesTyped DEF Win5!Doing

\* Publications and starts keep types.
LEMMA PublicationTyped ==
    ASSUME Win5!ConstantsAssumption, DayInv, NEW q \in Win5!Process,
           \/ \E p \in win5Previews : Win5!BeginPublish(q, p)
           \/ Win5!InsertVersion(q) \/ Win5!CommitPublish(q) \/ Win5!BeginActivate
           \/ Win5!CommitActivate
           \/ \E r \in Win5!Process : Win5!Abort(r)
    PROVE  Win5!TypeOK'
  <1>1. Win5!TypeOK /\ Worker \in Win5!Process /\ Win5!Idle \in Win5!Doing /\ Win5!Earliest \in Nat
    BY EarliestTyped DEF DayInv, Win5!Process, Win5!Doing
  <1>2. ASSUME NEW rows \in SUBSET Member, NEW at \in Nat, Win5!TypeOK
        PROVE  Win5!Started(rows, at) \in [Member -> Win5!PassRow]
    <2>1. ASSUME NEW m \in Member
          PROVE  [pass[m] EXCEPT !.status = "ACTIVE", !.starts = at,
              !.access = @ + 1] \in Win5!PassRow
      <3>1. pass[m] \in Win5!PassRow /\ pass[m].access + 1 \in Nat
        BY <1>2 DEF Win5!TypeOK, Win5!PassRow
      <3>2. QED
        BY <3>1 DEF Win5!PassRow
    <2>2. QED
      BY <1>2, <2>1 DEF Win5!Started, Win5!TypeOK
  <1>3. ASSUME NEW p \in win5Previews, Win5!BeginPublish(q, p) PROVE Win5!TypeOK'
    <2> DEFINE what == [op |-> "publish", at |-> win5Now, preview |-> p, legs |-> product.legs]
    <2>1. product.legs \in Win5!Picks /\ p \in Win5!PreviewRow
      BY <1>1, <1>3
      DEF Win5!BeginPublish, Win5!Publishable, Win5!TypeOK, Win5!ProductRow, Win5!Picks
    <2>2. what \in Win5!Doing
      BY <1>1, <2>1 DEF Win5!Doing, Win5!TypeOK
    <2>3. win5Request' \in [Win5!Process -> Win5!Doing]
      BY <1>1, <1>3, <2>2, RequestTyped DEF Win5!BeginPublish
    <2>4. QED
      BY <1>1, <1>3, <2>3 DEF Win5!BeginPublish, Win5!TypeOK, Win5!staff, Win5!sales, Win5!outcome
  <1>4. CASE Win5!InsertVersion(q)
    <2> DEFINE rows == IF win5Versions = <<>> THEN Win5!Pending(win5Request[q].at) ELSE {}
               what == [op |-> "start", at |-> win5Request[q].at,
                   preview |-> win5Request[q].preview,
                        legs |-> win5Request[q].legs, rows |-> rows, deadline |-> Win5!Earliest]
    <2>1. rows \in SUBSET Member
      BY DEF Win5!Pending
    <2>2. win5Request[q] \in [op : {"publish"}, at : Nat \ {0}, preview : Win5!PreviewRow,
        legs : Win5!Picks]
      BY <1>1, <1>4, Win5DoingTyped DEF Win5!InsertVersion
    <2>3. what \in Win5!Doing
      <3> HIDE DEF rows
      <3>1. QED
        BY <1>1, <2>1, <2>2 DEF Win5!Doing
    <2>4. Win5!Does(q, what) \/ Win5!Does(q, Win5!Idle)
      BY <1>4 DEF Win5!InsertVersion
    <2> HIDE DEF what
    <2>5. win5Request' \in [Win5!Process -> Win5!Doing]
      BY <1>1, <2>3, <2>4, RequestTyped
    <2>6. QED
      BY <1>1, <1>4, <2>5 DEF Win5!InsertVersion, Win5!TypeOK, Win5!staff, Win5!sales, Win5!outcome
  <1>5. CASE Win5!CommitPublish(q)
    <2>1. win5Request[q] \in [op : {"start"}, at : Nat \ {0}, preview : Win5!PreviewRow,
        legs : Win5!Picks,
                          rows : SUBSET Member, deadline : Nat]
      BY <1>1, <1>5, Win5DoingTyped DEF Win5!CommitPublish
    <2>2. win5Versions' \in Seq(Win5!VersionRow)
      BY <1>1, <1>5, <2>1 DEF Win5!CommitPublish, Win5!TypeOK, Win5!VersionRow
    <2>3. [win5Request[q].preview EXCEPT !.version = Len(win5Versions) + 1] \in Win5!PreviewRow
      <3>1. Len(win5Versions) + 1 \in Nat /\ win5Request[q].preview \in Win5!PreviewRow
        BY <1>1, <2>1 DEF Win5!TypeOK
      <3>2. QED
        BY <3>1 DEF Win5!PreviewRow
    <2>4. win5Previews' \in SUBSET Win5!PreviewRow
      BY <1>1, <1>5, <2>3 DEF Win5!CommitPublish, Win5!TypeOK
    <2>5. pass' \in [Member -> Win5!PassRow]
      BY <1>1, <1>2, <1>5, <2>1 DEF Win5!CommitPublish
    <2>6. win5Request' \in [Win5!Process -> Win5!Doing]
      BY <1>1, <1>5, RequestTyped DEF Win5!CommitPublish
    <2>7. QED
      BY <1>1, <1>5, <2>2, <2>4, <2>5, <2>6 DEF Win5!CommitPublish, Win5!TypeOK, Win5!outcome
  <1>6. CASE Win5!BeginActivate
    <2>1. PICK rows \in SUBSET Member : Win5!Does(Worker, [op |-> "activate", at |-> win5Now,
        rows |-> rows])
      BY <1>6 DEF Win5!BeginActivate, Win5!Due, Win5!Pending
    <2>2. [op |-> "activate", at |-> win5Now, rows |-> rows] \in Win5!Doing
      BY <1>1 DEF Win5!Doing, Win5!TypeOK
    <2>3. win5Request' \in [Win5!Process -> Win5!Doing]
      BY <1>1, <2>1, <2>2, RequestTyped
    <2>4. QED
      BY <1>1, <1>6, <2>3 DEF Win5!BeginActivate, Win5!TypeOK, Win5!staff, Win5!sales, Win5!outcome
  <1>7. CASE Win5!CommitActivate
    <2>1. win5Request[Worker].rows \in SUBSET Member /\ DayStart \in Nat
      BY <1>1, <1>7, Win5DoingTyped DEF Win5!ConstantsAssumption, Win5!CommitActivate
    <2>2. pass' \in [Member -> Win5!PassRow]
      BY <1>1, <1>2, <1>7, <2>1 DEF Win5!CommitActivate
    <2>3. win5Request' \in [Win5!Process -> Win5!Doing]
      BY <1>1, <1>7, RequestTyped DEF Win5!CommitActivate
    <2>4. QED
      BY <1>1, <1>7, <2>2, <2>3 DEF Win5!CommitActivate, Win5!TypeOK, Win5!staff, Win5!outcome
  <1>8. ASSUME NEW r \in Win5!Process, Win5!Abort(r) PROVE Win5!TypeOK'
    <2>1. win5Request' \in [Win5!Process -> Win5!Doing]
      BY <1>1, <1>8, RequestTyped DEF Win5!Abort
    <2>2. QED
      BY <1>1, <1>8, <2>1 DEF Win5!Abort, Win5!TypeOK, Win5!staff, Win5!sales, Win5!outcome
  <1>9. QED
    BY <1>3, <1>4, <1>5, <1>6, <1>7, <1>8

\* Sales and refunds keep types.
LEMMA SalesTyped ==
    ASSUME Win5!ConstantsAssumption, DayInv, NEW q \in Win5!Process, NEW m \in Member,
           \/ \E source \in Win5!Source : Win5!BeginBuy(q, m, source)
           \/ Win5!CommitBuy(q) \/ Win5!ReserveRefund(q, m) \/ Win5!CallRefund(q)
           \/ Win5!FinishRefund(q)
           \/ Win5!SettleRefund(m) \/ Win5!HearRefund(q, m) \/ Win5!CommitHear(q)
    PROVE  Win5!TypeOK'
  <1>1. Win5!TypeOK /\ Win5!Idle \in Win5!Doing
    BY DEF DayInv, Win5!Doing
  <1>2. pass \in [Member -> Win5!PassRow] /\ refund \in [Member -> Win5!RefundRow]
      /\ win5Now \in Nat
    BY <1>1 DEF Win5!TypeOK
  <1>3. ASSUME NEW source \in Win5!Source, Win5!BeginBuy(q, m, source) PROVE Win5!TypeOK'
    <2>1. \/ win5Versions = <<>>
          \/ win5Versions[1].publishedAt \in Nat
      <3>1. win5Versions # <<>> => win5Versions[1] \in Win5!VersionRow
        BY <1>1 DEF Win5!TypeOK
      <3>2. QED
        BY <3>1 DEF Win5!VersionRow
    <2>2. PICK starts \in Nat :
             Win5!Does(q, [op |-> "buy", at |-> win5Now, member |-> m, source |-> source,
             starts |-> starts])
      BY <1>2, <1>3, <2>1 DEF Win5!ConstantsAssumption, Win5!BeginBuy
    <2>3. [op |-> "buy", at |-> win5Now, member |-> m, source |-> source,
        starts |-> starts] \in Win5!Doing
      BY <1>2 DEF Win5!Doing
    <2>4. win5Request' \in [Win5!Process -> Win5!Doing]
      BY <1>1, <2>2, <2>3, RequestTyped
    <2>5. QED
      BY <1>1, <1>3, <2>4 DEF Win5!BeginBuy, Win5!TypeOK, Win5!staff, Win5!sales, Win5!outcome
  <1>4. CASE Win5!CommitBuy(q)
    <2>1. win5Request[q] \in [op : {"buy"}, at : Nat, member : Member, source : Win5!Source,
        starts : Nat]
      BY <1>1, <1>4, Win5DoingTyped DEF Win5!CommitBuy
    <2>2. pass' \in [Member -> Win5!PassRow]
      BY <1>2, <1>4, <2>1 DEF Win5!CommitBuy, Win5!PassRow
    <2>3. win5Request' \in [Win5!Process -> Win5!Doing]
      BY <1>1, <1>4, RequestTyped DEF Win5!CommitBuy
    <2>4. QED
      BY <1>1, <1>4, <2>2, <2>3 DEF Win5!CommitBuy, Win5!TypeOK, Win5!staff, Win5!outcome
  <1>5. CASE Win5!ReserveRefund(q, m)
    <2>1. [op |-> "refund", at |-> win5Now, member |-> m] \in Win5!Doing
      BY <1>2 DEF Win5!Doing
    <2>2. pass' \in [Member -> Win5!PassRow]
      BY <1>2, <1>5 DEF Win5!ReserveRefund, Win5!PassRow
    <2>3. win5Request' \in [Win5!Process -> Win5!Doing]
      BY <1>1, <1>5, <2>1, RequestTyped DEF Win5!ReserveRefund
    <2>4. QED
      BY <1>1, <1>5, <2>2, <2>3 DEF Win5!ReserveRefund, Win5!TypeOK, Win5!staff, Win5!outcome
  <1>6. CASE Win5!CallRefund(q)
    <2> DEFINE n == win5Request[q].member
    <2>1. win5Request[q] \in [op : {"refund", "refunded"}, at : Nat, member : Member]
      BY <1>1, <1>6, Win5DoingTyped DEF Win5!CallRefund
    <2>2. PICK answer \in {"succeeded", "pending"} :
             /\ refund' = [refund EXCEPT ![n].answer = answer,
                  ![n].done = @ \/ answer = "succeeded"]
             /\ Win5!Does(q, IF answer = "succeeded" THEN [win5Request[q] EXCEPT !.op = "refunded"]
                             ELSE Win5!Idle)
      <3>1. refund[n].answer \in {"none", "pending", "succeeded"}
        BY <1>2, <2>1 DEF Win5!RefundRow
      <3>2. \E answer \in IF refund[n].answer = "none" THEN {"succeeded", "pending"}
                          ELSE {refund[n].answer} :
              /\ refund' = [refund EXCEPT ![n].answer = answer,
                   ![n].done = @ \/ answer = "succeeded"]
              /\ Win5!Does(q, IF answer = "succeeded" THEN [win5Request[q] EXCEPT !.op = "refunded"]
                              ELSE Win5!Idle)
        BY <1>6 DEF Win5!CallRefund
      <3>3. QED
        BY <3>1, <3>2
    <2>3. refund' \in [Member -> Win5!RefundRow]
      BY <1>2, <2>1, <2>2 DEF Win5!RefundRow
    <2>4. [win5Request[q] EXCEPT !.op = "refunded"] \in Win5!Doing
      BY <2>1 DEF Win5!Doing
    <2>5. win5Request' \in [Win5!Process -> Win5!Doing]
      BY <1>1, <2>2, <2>4, RequestTyped
    <2>6. QED
      BY <1>1, <1>6, <2>3, <2>5 DEF Win5!CallRefund, Win5!TypeOK, Win5!staff, Win5!outcome
  <1>7. ASSUME NEW n \in Member, Win5!Book(n)
        PROVE  pass' \in [Member -> Win5!PassRow] /\ refund' \in [Member -> Win5!RefundRow]
    <2>1. pass[n] \in Win5!PassRow /\ refund[n] \in Win5!RefundRow /\ refund[n].booked + 1 \in Nat
      BY <1>2, <1>7 DEF Win5!RefundRow
    <2>2. pass' \in [Member -> Win5!PassRow]
      BY <1>2, <1>7, <2>1 DEF Win5!Book, Win5!PassRow
    <2>3. refund' \in [Member -> Win5!RefundRow]
      BY <1>2, <1>7, <2>1 DEF Win5!Book, Win5!RefundRow
    <2>4. QED
      BY <2>2, <2>3
  <1>8. CASE Win5!FinishRefund(q)
    <2>1. win5Request[q].member \in Member
      BY <1>1, <1>8, Win5DoingTyped DEF Win5!FinishRefund
    <2>2. pass' \in [Member -> Win5!PassRow] /\ refund' \in [Member -> Win5!RefundRow]
      BY <1>2, <1>7, <1>8, <2>1 DEF Win5!FinishRefund, Win5!sales
    <2>3. win5Request' \in [Win5!Process -> Win5!Doing]
      BY <1>1, <1>8, RequestTyped DEF Win5!FinishRefund
    <2>4. QED
      BY <1>1, <1>8, <2>2, <2>3 DEF Win5!FinishRefund, Win5!TypeOK, Win5!staff, Win5!outcome
  <1>9. CASE Win5!SettleRefund(m)
    <2>1. refund' \in [Member -> Win5!RefundRow]
      BY <1>2, <1>9 DEF Win5!SettleRefund, Win5!RefundRow
    <2>2. QED
      BY <1>1, <1>9, <2>1 DEF Win5!SettleRefund, Win5!TypeOK, Win5!staff, Win5!outcome
  <1>10. CASE Win5!HearRefund(q, m)
    <2>1. [op |-> "hear", at |-> win5Now, member |-> m, row |-> pass[m]] \in Win5!Doing
      BY <1>2 DEF Win5!Doing
    <2>2. refund' \in [Member -> Win5!RefundRow]
      <3>1. refund' = refund \/ refund' = [refund EXCEPT ![m].heard = TRUE]
        BY <1>10 DEF Win5!HearRefund
      <3>2. [refund[m] EXCEPT !.heard = TRUE] \in Win5!RefundRow
        BY <1>2 DEF Win5!RefundRow
      <3>3. QED
        BY <1>2, <3>1, <3>2
    <2>3. win5Request' \in [Win5!Process -> Win5!Doing]
      BY <1>1, <1>10, <2>1, RequestTyped DEF Win5!HearRefund, Win5!TypeOK
    <2>4. QED
      BY <1>1, <1>10, <2>2, <2>3 DEF Win5!HearRefund, Win5!TypeOK, Win5!staff, Win5!outcome
  <1>11. CASE Win5!CommitHear(q)
    <2>1. win5Request[q].member \in Member
      BY <1>1, <1>11, Win5DoingTyped DEF Win5!CommitHear
    <2>2. refund' \in [Member -> Win5!RefundRow]
      BY <1>2, <1>11, <2>1 DEF Win5!CommitHear, Win5!RefundRow, Win5!sales
    <2>3. pass' \in [Member -> Win5!PassRow]
      <3>1. pass[win5Request[q].member] \in Win5!PassRow
        BY <1>2, <2>1
      <3>2. [pass[win5Request[q].member] EXCEPT !.status = "REFUNDED"] \in Win5!PassRow
        BY <3>1 DEF Win5!PassRow
      <3>3. pass' = pass \/ pass' = [pass EXCEPT ![win5Request[q].member].status = "REFUNDED"]
        BY <1>11 DEF Win5!CommitHear, Win5!sales
      <3>4. QED
        BY <1>2, <2>1, <3>2, <3>3
    <2>4. win5Request' \in [Win5!Process -> Win5!Doing]
      BY <1>1, <1>11, RequestTyped DEF Win5!CommitHear
    <2>5. QED
      BY <1>1, <1>11, <2>2, <2>3, <2>4 DEF Win5!CommitHear, Win5!TypeOK, Win5!staff, Win5!outcome
  <1>12. QED
    BY <1>3, <1>4, <1>5, <1>6, <1>8, <1>9, <1>10, <1>11

\* Evaluations keep types.
LEMMA EvaluationTyped ==
    ASSUME Win5!ConstantsAssumption, DayInv, NEW q \in Request,
           Win5!BeginImport(q) \/ Win5!CommitImport(q) \/ Win5!BeginConfirm(q)
               \/ Win5!CommitConfirm(q)
    PROVE  Win5!TypeOK'
  <1>1. Win5!TypeOK /\ q \in Win5!Process /\ Win5!Idle \in Win5!Doing /\ win5Now \in Nat
    BY DEF DayInv, Win5!Process, Win5!Doing, Win5!TypeOK
  <1>2. ASSUME NEW op \in {"import", "confirm"}, Win5!Calculated \in Win5!EvaluationRow,
               Win5!Does(q, [op |-> op, at |-> win5Now, content |-> Win5!Calculated])
        PROVE  win5Request' \in [Win5!Process -> Win5!Doing]
    <2>1. [op |-> op, at |-> win5Now, content |-> Win5!Calculated] \in Win5!Doing
      BY <1>1, <1>2 DEF Win5!Doing
    <2>2. QED
      BY <1>1, <1>2, <2>1, RequestTyped
  <1>3. CASE Win5!BeginImport(q)
    <2>1. win5Request' \in [Win5!Process -> Win5!Doing]
      BY <1>2, <1>3, CalculatedTyped DEF Win5!BeginImport
    <2>2. QED
      BY <1>1, <1>3, <2>1 DEF Win5!BeginImport, Win5!TypeOK, Win5!staff, Win5!sales, Win5!outcome
  <1>4. CASE Win5!CommitImport(q)
    <2>1. win5Request[q].content \in Win5!EvaluationRow
      BY <1>1, <1>4, Win5DoingTyped DEF Win5!CommitImport
    <2>2. win5Saved' \in Seq(Win5!EvaluationRow)
      BY <1>1, <1>4, <2>1 DEF Win5!CommitImport, Win5!TypeOK
    <2>3. win5Request' \in [Win5!Process -> Win5!Doing]
      BY <1>1, <1>4, RequestTyped DEF Win5!CommitImport
    <2>4. QED
      BY <1>1, <1>4, <2>2, <2>3 DEF Win5!CommitImport, Win5!TypeOK, Win5!staff, Win5!sales
  <1>5. CASE Win5!BeginConfirm(q)
    <2>1. Win5!Calculated \in Win5!EvaluationRow
      BY <1>1, <1>5 DEF Win5!BeginConfirm, Win5!SourceUnchanged, Win5!TypeOK
    <2>2. win5Request' \in [Win5!Process -> Win5!Doing]
      BY <1>2, <1>5, <2>1 DEF Win5!BeginConfirm
    <2>3. QED
      BY <1>1, <1>5, <2>2 DEF Win5!BeginConfirm, Win5!TypeOK, Win5!staff, Win5!sales, Win5!outcome
  <1>6. CASE Win5!CommitConfirm(q)
    <2>1. win5Request[q].content \in Win5!EvaluationRow
      BY <1>1, <1>6, Win5DoingTyped DEF Win5!CommitConfirm
    <2>2. Len(win5Saved) \in Nat \ {0}
      BY <1>1, <1>6 DEF Win5!CommitConfirm, DayInv, ConfirmHeld, Win5!TypeOK
    <2> DEFINE new == [source |-> Len(win5Saved), content |-> win5Request[q].content]
               rows == [source : Nat \ {0}, content : Win5!EvaluationRow]
    <2>3. new \in rows
      BY <2>1, <2>2
    <2>4. evaluations' \in Seq(rows)
      <3>1. evaluations \in Seq(rows)
        BY <1>1 DEF Win5!TypeOK
      <3>2. evaluations' = Append(evaluations, new) \/ evaluations' = evaluations
        BY <1>6 DEF Win5!CommitConfirm
      <3> HIDE DEF new, rows
      <3>3. QED
        BY <2>3, <3>1, <3>2
    <2>5. win5Request' \in [Win5!Process -> Win5!Doing]
      BY <1>1, <1>6, RequestTyped DEF Win5!CommitConfirm
    <2>6. QED
      BY <1>1, <1>6, <2>4, <2>5 DEF Win5!CommitConfirm, Win5!TypeOK, Win5!staff, Win5!sales
  <1>7. QED
    BY <1>3, <1>4, <1>5, <1>6

-----------------------------------------------------------------------------
(***************************************************************************)
(* The counts, and what is held while a transaction is under way.          *)
(***************************************************************************)

\* A step that begins neither a publication nor a confirmation leaves those
\* that are under way.
LEMMA Win5OthersStay ==
    ASSUME Win5!TypeOK, NEW q \in Win5!Process, NEW what, Win5!Does(q, what),
           what.op \notin {"publish", "start", "confirm"}
    PROVE  \A p \in Win5!Process : win5Request'[p].op \in {"publish", "start", "confirm"}
                              => win5Request'[p] = win5Request[p]
  BY DEF Win5!TypeOK, Win5!Does

\* Steps that leave the product's publications, the draft and the evaluations.
LEMMA DayFrame ==
    ASSUME DayInv, Win5!TypeOK', UNCHANGED <<win5Previews, win5Versions, win5Saved, evaluations,
        legResult, win5Bound>>,
           \A p \in Win5!Process : win5Request'[p].op \in {"publish", "start", "confirm"}
                              => win5Request'[p] = win5Request[p]
    PROVE  DayInv'
  <1>1. VersionsCounted' /\ ResultsCounted'
    BY DEF DayInv, VersionsCounted, ResultsCounted
  <1>2. OnePublication'
    BY DEF DayInv, OnePublication, PublishesWin5
  <1>3. ConfirmHeld'
    BY DEF DayInv, ConfirmHeld, Win5!Process
  <1>4. QED
    BY <1>1, <1>2, <1>3 DEF DayInv

\* A preview more.
LEMMA PreviewCounted ==
    ASSUME Win5!ConstantsAssumption, DayInv, Win5!Preview
    PROVE  VersionsCounted'
  <1> DEFINE new == [base |-> Win5!Fingerprint, legs |-> product.legs,
      next |-> Len(win5Versions) + 1,
                     until |-> win5Now + 1, version |-> 0]
             used == {p \in win5Previews : p.version > 0}
  <1>1. /\ IsFiniteSet(win5Previews) /\ Cardinality(win5Previews) < win5Bound.previews
        /\ Cardinality(used) = Len(win5Versions)
        /\ \A p \in win5Previews : p.version <= Len(win5Versions)
        /\ win5Previews' = win5Previews \cup {new} /\ win5Versions' = win5Versions
        /\ win5Bound' = win5Bound
        /\ new.version = 0 /\ Len(win5Versions) \in Nat /\ win5Bound.previews \in Nat
    <2>1. Len(win5Versions) \in Nat /\ win5Bound.previews \in Nat
      BY Win5BoundTyped DEF DayInv, Win5!TypeOK
    <2>2. Cardinality(win5Previews) < win5Bound.previews /\ win5Previews' = win5Previews \cup {new}
      BY DEF Win5!Preview, Win5!Cardinality, Cardinality
    <2>3. win5Versions' = win5Versions /\ win5Bound' = win5Bound
      BY DEF Win5!Preview
    <2>4. QED
      BY <2>1, <2>2, <2>3 DEF DayInv, VersionsCounted
  <1> HIDE DEF new
  <1>2. Cardinality(win5Previews) \in Nat
    BY <1>1, FS_CardinalityType
  <1>3. IsFiniteSet(win5Previews') /\ Cardinality(win5Previews') <= win5Bound'.previews
    <2>1. /\ IsFiniteSet(win5Previews \cup {new})
          /\ \/ Cardinality(win5Previews \cup {new}) = Cardinality(win5Previews)
             \/ Cardinality(win5Previews \cup {new}) = Cardinality(win5Previews) + 1
      BY <1>1, FS_AddElement
    <2>2. QED
      BY <1>1, <1>2, <2>1
  <1>4. {p \in win5Previews' : p.version > 0} = used
      /\ \A p \in win5Previews' : p.version <= Len(win5Versions')
    BY <1>1
  <1>5. QED
    BY <1>1, <1>3, <1>4 DEF VersionsCounted

\* A publication uses up its preview.
LEMMA PublishCounted ==
    ASSUME Win5!ConstantsAssumption, DayInv, NEW q \in Win5!Process, Win5!CommitPublish(q)
    PROVE  VersionsCounted'
  <1> DEFINE p == win5Request[q].preview
             used == {r \in win5Previews : r.version > 0}
             new == [p EXCEPT !.version = Len(win5Versions) + 1]
  <1>1. win5Request[q].op = "start" /\ Win5!TypeOK
    BY DEF Win5!CommitPublish, DayInv
  <1>2. p \in Win5!PreviewRow /\ p \in win5Previews /\ p.version = 0
    BY <1>1, Win5DoingTyped DEF DayInv, OnePublication, PublishesWin5
  <1>3. Len(win5Versions) \in Nat /\ win5Bound.previews \in Nat
      /\ Len(win5Versions') = Len(win5Versions) + 1
    <2>1. win5Versions \in Seq(Win5!VersionRow)
      BY <1>1 DEF Win5!TypeOK
    <2>2. PICK row : win5Versions' = Append(win5Versions, row)
      BY DEF Win5!CommitPublish
    <2>3. QED
      BY <1>1, <2>1, <2>2, Win5BoundTyped
  <1>4. new.version = Len(win5Versions) + 1 /\ win5Previews' = (win5Previews \ {p}) \cup {new}
    BY <1>1, <1>2, <1>3 DEF Win5!CommitPublish, Win5!PreviewRow
  <1>5. /\ IsFiniteSet(win5Previews) /\ Cardinality(win5Previews) <= win5Bound.previews
        /\ Cardinality(used) = Len(win5Versions)
        /\ \A r \in win5Previews : r.version <= Len(win5Versions)
        /\ \A r \in win5Previews : r.version \in Nat
    BY <1>1 DEF DayInv, VersionsCounted, Win5!TypeOK, Win5!PreviewRow
  <1> HIDE DEF p, new
  <1>6. new \notin win5Previews
    BY <1>3, <1>4, <1>5
  <1>7. IsFiniteSet(win5Previews') /\ Cardinality(win5Previews') = Cardinality(win5Previews)
    <2>1. IsFiniteSet(win5Previews \ {p})
        /\ Cardinality(win5Previews \ {p}) = Cardinality(win5Previews) - 1
      BY <1>2, <1>5, FS_RemoveElement
    <2>2. new \notin win5Previews \ {p} /\ Cardinality(win5Previews) \in Nat
      BY <1>5, <1>6, FS_CardinalityType
    <2>3. /\ IsFiniteSet((win5Previews \ {p}) \cup {new})
          /\ Cardinality((win5Previews \ {p}) \cup {new}) = Cardinality(win5Previews \ {p}) + 1
      BY <2>1, <2>2, FS_AddElement
    <2>4. QED
      BY <1>4, <2>1, <2>2, <2>3
  <1>8. {r \in win5Previews' : r.version > 0} = used \cup {new}
    BY <1>2, <1>3, <1>4
  <1>9. IsFiniteSet(used) /\ new \notin used
    BY <1>5, <1>6, FS_Subset
  <1>10. Cardinality({r \in win5Previews' : r.version > 0}) = Len(win5Versions')
    BY <1>3, <1>5, <1>8, <1>9, FS_AddElement
  <1>11. \A r \in win5Previews' : r.version <= Len(win5Versions')
    BY <1>3, <1>4, <1>5
  <1>12. win5Bound' = win5Bound
    BY DEF Win5!CommitPublish
  <1>13. QED
    BY <1>5, <1>7, <1>10, <1>11, <1>12 DEF VersionsCounted

\* Previews and publications.
LEMMA PublicationStep ==
    ASSUME Win5!ConstantsAssumption, DayInv, Win5!TypeOK', NEW q \in Win5!Process,
           \/ Win5!Preview \/ \E p \in win5Previews : Win5!BeginPublish(q, p)
           \/ Win5!InsertVersion(q) \/ Win5!CommitPublish(q)
    PROVE  DayInv'
  <1>1. Win5!TypeOK /\ q \in Win5!Process /\ VersionsCounted /\ OnePublication /\ ResultsCounted
      /\ ConfirmHeld
    BY DEF DayInv, Win5!Process
  <1>2. UNCHANGED <<legResult, win5Saved, evaluations, win5Bound>>
    BY DEF Win5!Preview, Win5!BeginPublish, Win5!InsertVersion, Win5!CommitPublish, Win5!outcome
  <1>3. ResultsCounted'
    BY <1>1, <1>2 DEF ResultsCounted
  <1>4. ConfirmHeld'
    <2> DEFINE Kept == \A p \in Request : win5Request'[p].op = "confirm"
        => win5Request'[p] = win5Request[p]
    <2>1. Kept
      <3>1. CASE Win5!Preview
        BY <3>1 DEF Win5!Preview
      <3>2. ASSUME ~Win5!Preview PROVE Kept
        <4> DEFINE NoConfirm == \E what : Win5!Does(q, what) /\ what.op # "confirm"
        <4>1. ASSUME NEW p \in win5Previews, Win5!BeginPublish(q, p) PROVE NoConfirm
          <5>1. PICK what : Win5!Does(q, what) /\ what.op = "publish"
            BY <4>1 DEF Win5!BeginPublish
          <5>2. QED
            BY <5>1
        <4>2. ASSUME Win5!InsertVersion(q) PROVE NoConfirm
          <5>1. PICK what : Win5!Does(q, what) /\ what.op \in {"start", "idle"}
            BY <4>2 DEF Win5!InsertVersion, Win5!Idle
          <5>2. QED
            BY <5>1
        <4>3. ASSUME Win5!CommitPublish(q) PROVE NoConfirm
          BY <4>3 DEF Win5!CommitPublish, Win5!Idle
        <4>4. PICK what : Win5!Does(q, what) /\ what.op # "confirm"
          BY <3>2, <4>1, <4>2, <4>3
        <4>5. QED
          BY <1>1, <4>4, Win5DoesAlone DEF Win5!Process
      <3>3. QED
        BY <3>1, <3>2
    <2>2. QED
      BY <1>1, <1>2, <2>1 DEF ConfirmHeld
  <1>5. CASE Win5!Preview
    <2>1. OnePublication'
      BY <1>1, <1>5 DEF Win5!Preview, OnePublication, PublishesWin5
    <2>2. QED
      BY <1>3, <1>4, <1>5, <2>1, PreviewCounted DEF DayInv
  <1>6. ASSUME NEW p \in win5Previews, Win5!BeginPublish(q, p) PROVE DayInv'
    <2>1. VersionsCounted'
      BY <1>1, <1>6 DEF Win5!BeginPublish, VersionsCounted, Win5!staff
    <2>2. /\ win5Request'[q].preview = p /\ p \in win5Previews' /\ p.version = 0
          /\ \A r \in Win5!Process \ {q} : ~PublishesWin5(r)'
      BY <1>1, <1>6
      DEF Win5!BeginPublish, Win5!LockFree, Win5!Does, Win5!TypeOK, PublishesWin5, Win5!staff
    <2>3. OnePublication'
      BY <2>2 DEF OnePublication
    <2>4. QED
      BY <1>3, <1>4, <2>1, <2>3 DEF DayInv
  <1>7. CASE Win5!InsertVersion(q)
    <2>1. VersionsCounted'
      BY <1>1, <1>7 DEF Win5!InsertVersion, VersionsCounted, Win5!staff
    <2>2. /\ win5Request[q].op = "publish"
          /\ win5Request'[q].op # "idle" => win5Request'[q].preview = win5Request[q].preview
          /\ \A r \in Win5!Process \ {q} : win5Request'[r] = win5Request[r]
      <3>1. PICK what : /\ Win5!Does(q, what)
                        /\ what.op # "idle" => what.preview = win5Request[q].preview
        BY <1>7 DEF Win5!InsertVersion, Win5!Idle
      <3>2. /\ win5Request'[q] = what
            /\ \A r \in Win5!Process \ {q} : win5Request'[r] = win5Request[r]
        BY <1>1, <3>1 DEF Win5!Does, Win5!TypeOK
      <3>3. QED
        BY <1>7, <3>1, <3>2 DEF Win5!InsertVersion
    <2>3. \A r \in Win5!Process : PublishesWin5(r)' =>
              PublishesWin5(r) /\ win5Request'[r].preview = win5Request[r].preview
      BY <2>2 DEF PublishesWin5
    <2>4. win5Previews' = win5Previews
      BY <1>7 DEF Win5!InsertVersion, Win5!staff
    <2>5. OnePublication'
      BY <1>1, <2>3, <2>4 DEF OnePublication
    <2>6. QED
      BY <1>3, <1>4, <2>1, <2>5 DEF DayInv
  <1>8. CASE Win5!CommitPublish(q)
    <2>1. \A r \in Win5!Process : ~PublishesWin5(r)'
      BY <1>1, <1>8
      DEF Win5!CommitPublish, OnePublication, PublishesWin5, Win5!Does, Win5!Idle, Win5!TypeOK
    <2>2. OnePublication'
      BY <2>1 DEF OnePublication
    <2>3. QED
      BY <1>3, <1>4, <1>8, <2>2, PublishCounted DEF DayInv
  <1>9. QED
    BY <1>5, <1>6, <1>7, <1>8

\* Imports and confirmations.
LEMMA EvaluationStep ==
    ASSUME DayInv, Win5!TypeOK', NEW q \in Request,
           Win5!CommitImport(q) \/ Win5!BeginConfirm(q) \/ Win5!CommitConfirm(q)
    PROVE  DayInv'
  <1>1. Win5!TypeOK /\ q \in Win5!Process /\ VersionsCounted /\ OnePublication /\ ResultsCounted
      /\ ConfirmHeld
    BY DEF DayInv, Win5!Process
  <1>2. UNCHANGED <<win5Previews, win5Versions, legResult, win5Bound>>
    BY DEF Win5!CommitImport, Win5!BeginConfirm, Win5!CommitConfirm, Win5!staff, Win5!outcome
  <1>3. VersionsCounted' /\ ResultsCounted'
    BY <1>1, <1>2 DEF VersionsCounted, ResultsCounted
  <1>4. \A p \in Win5!Process : PublishesWin5(p)' => win5Request'[p] = win5Request[p]
    <2>1. PICK what : Win5!Does(q, what) /\ what.op \notin {"publish", "start"}
      BY DEF Win5!CommitImport, Win5!BeginConfirm, Win5!CommitConfirm, Win5!Idle
    <2>2. QED
      BY <1>1, <2>1, Win5DoesAlone DEF PublishesWin5
  <1>5. OnePublication'
    BY <1>1, <1>2, <1>4 DEF OnePublication, PublishesWin5
  <1>6. CASE Win5!CommitImport(q)
    <2>1. \A p \in Request : win5Request'[p].op # "confirm"
      BY <1>1, <1>6
      DEF Win5!CommitImport, Win5!DraftFree, Win5!Does, Win5!Idle, Win5!TypeOK, Win5!Process
    <2>2. QED
      BY <1>3, <1>5, <2>1 DEF DayInv, ConfirmHeld
  <1>7. CASE Win5!BeginConfirm(q)
    <2>1. /\ \A p \in Request \ {q} : win5Request'[p].op # "confirm"
          /\ win5Request'[q].content = Win5!Calculated
      BY <1>1, <1>7 DEF Win5!BeginConfirm, Win5!DraftFree, Win5!Does, Win5!TypeOK, Win5!Process
    <2>2. /\ win5Saved # <<>> /\ Win5!Calculated = win5Saved[Len(win5Saved)]
          /\ \A i \in DOMAIN evaluations : evaluations[i].source # Len(win5Saved)
          /\ win5Saved' = win5Saved /\ evaluations' = evaluations
      BY <1>7 DEF Win5!BeginConfirm, Win5!SourceUnchanged, Win5!outcome
    <2>3. ConfirmHeld'
      BY <2>1, <2>2 DEF ConfirmHeld
    <2>4. QED
      BY <1>3, <1>5, <2>3 DEF DayInv
  <1>8. CASE Win5!CommitConfirm(q)
    <2>1. \A p \in Request : win5Request'[p].op # "confirm"
      BY <1>1, <1>8
      DEF Win5!CommitConfirm, ConfirmHeld, Win5!Does, Win5!Idle, Win5!TypeOK, Win5!Process
    <2>2. QED
      BY <1>3, <1>5, <2>1 DEF DayInv, ConfirmHeld
  <1>9. QED
    BY <1>6, <1>7, <1>8

\* Every step of the day keeps the types, the counts and what is held.
LEMMA DayStep ==
    ASSUME Win5!ConstantsAssumption
    PROVE  DayInv /\ [Win5!Next]_Win5!vars => DayInv'
  <1> SUFFICES ASSUME DayInv, [Win5!Next]_Win5!vars PROVE DayInv'
    OBVIOUS
  <1> DEFINE Stay == \A p \in Win5!Process : win5Request'[p].op \in {"publish", "start", "confirm"}
                                        => win5Request'[p] = win5Request[p]
  <1>1. Win5!TypeOK /\ Request \subseteq Win5!Process /\ Worker \in Win5!Process
      /\ Win5!Source = {"PURCHASE", "REFERRAL_REWARD"}
    BY DEF DayInv, Win5!Process, Win5!Source
  <1>2. ASSUME NEW l \in Leg, NEW start \in {FirstRace, FirstRace - 1},
               NEW status \in {"SCHEDULED", "DELAYED"}, Win5!ChangeRace(l, start, status)
        PROVE  DayInv'
    <2>1. Win5!TypeOK' /\ Stay
      BY <1>2, StaffTyped DEF Win5!ChangeRace
    <2>2. QED
      BY <1>2, <2>1, DayFrame DEF Win5!ChangeRace, Win5!staff, Win5!outcome
  <1>3. ASSUME NEW l \in Leg, NEW winner \in Horse \cup {Win5!NoOne}, Win5!ConfirmRace(l, winner)
        PROVE  DayInv'
    <2>1. Win5!TypeOK'
      BY <1>3, StaffTyped
    <2>2. ResultsCounted'
      <3>1. win5Bound.results \in Nat /\ legResult \in [Leg -> Seq(Horse \cup {Win5!NoOne})]
        BY <1>1, Win5BoundTyped DEF Win5!TypeOK
      <3>2. QED
        BY <1>3, <3>1 DEF Win5!ConfirmRace, DayInv, ResultsCounted
    <2>3. VersionsCounted' /\ OnePublication' /\ ConfirmHeld'
      BY <1>3
      DEF Win5!ConfirmRace, DayInv, VersionsCounted, OnePublication, PublishesWin5, ConfirmHeld,
          Win5!staff
    <2>4. QED
      BY <2>1, <2>2, <2>3 DEF DayInv
  <1>4. ASSUME NEW l \in Leg, NEW horses \in (SUBSET Horse) \ {{}}, Win5!SaveLeg(l, horses)
        PROVE  DayInv'
    <2>1. Win5!TypeOK' /\ Stay
      BY <1>4, StaffTyped DEF Win5!SaveLeg
    <2>2. QED
      BY <1>4, <2>1, DayFrame DEF Win5!SaveLeg, Win5!outcome
  <1>5. CASE Win5!SaveProduct
    <2>1. Win5!TypeOK' /\ Stay
      BY <1>5, StaffTyped DEF Win5!SaveProduct
    <2>2. QED
      BY <1>5, <2>1, DayFrame DEF Win5!SaveProduct, Win5!outcome
  <1>6. ASSUME NEW q \in Win5!Process,
               \/ \E p \in win5Previews : Win5!BeginPublish(q, p)
               \/ Win5!InsertVersion(q) \/ Win5!CommitPublish(q)
        PROVE  DayInv'
    BY <1>6, PublicationTyped, PublicationStep
  <1>7. ASSUME NEW q \in Win5!Process, NEW m \in Member,
               \/ \E source \in Win5!Source : Win5!BeginBuy(q, m, source)
               \/ Win5!CommitBuy(q) \/ Win5!ReserveRefund(q, m) \/ Win5!CallRefund(q)
               \/ Win5!FinishRefund(q)
               \/ Win5!SettleRefund(m) \/ Win5!HearRefund(q, m) \/ Win5!CommitHear(q)
        PROVE  DayInv'
    <2>1. Win5!TypeOK'
      BY <1>7, SalesTyped
    <2>2. UNCHANGED <<win5Previews, win5Versions, win5Saved, evaluations, legResult, win5Bound>>
      BY <1>7
      DEF Win5!BeginBuy, Win5!CommitBuy, Win5!ReserveRefund, Win5!CallRefund, Win5!FinishRefund,
          Win5!SettleRefund,
                  Win5!HearRefund, Win5!CommitHear, Win5!staff, Win5!outcome
    <2>3. CASE Win5!CallRefund(q)
      <3>1. win5Request[q] \in [op : {"refund", "refunded"}, at : Nat, member : Member]
        BY <1>1, <2>3, Win5DoingTyped DEF Win5!CallRefund
      <3>2. PICK what \in {[win5Request[q] EXCEPT !.op = "refunded"], Win5!Idle} : Win5!Does(q, what)
        BY <2>3 DEF Win5!CallRefund
      <3>3. what.op \in {"refunded", "idle"}
        BY <3>1 DEF Win5!Idle
      <3>4. QED
        BY <1>1, <3>2, <3>3, <2>1, <2>2, Win5OthersStay, DayFrame
    <2>4. CASE ~Win5!CallRefund(q)
      <3> DEFINE Other == \E what : Win5!Does(q, what) /\ what.op \notin {"publish", "start", "confirm"}
      <3>1. ASSUME NEW source \in Win5!Source, Win5!BeginBuy(q, m, source) PROVE Other
        BY <3>1 DEF Win5!BeginBuy
      <3>2. ASSUME Win5!ReserveRefund(q, m) PROVE Other
        BY <3>2 DEF Win5!ReserveRefund
      <3>3. ASSUME Win5!HearRefund(q, m) \/ Win5!SettleRefund(m)
            PROVE  Other \/ UNCHANGED win5Request
        BY <3>3 DEF Win5!HearRefund, Win5!SettleRefund
      <3>4. ASSUME Win5!CommitBuy(q) \/ Win5!FinishRefund(q) \/ Win5!CommitHear(q) PROVE Other
        <4>1. Win5!Does(q, Win5!Idle)
          BY <3>4 DEF Win5!CommitBuy, Win5!FinishRefund, Win5!CommitHear
        <4>2. QED
          BY <4>1 DEF Win5!Idle
      <3>5. Other \/ UNCHANGED win5Request
        BY <1>7, <2>4, <3>1, <3>2, <3>3, <3>4
      <3>6. Stay
        BY <1>1, <3>5, Win5OthersStay
      <3>7. QED
        BY <2>1, <2>2, <3>6, DayFrame
    <2>5. QED
      BY <2>3, <2>4
  <1>8. ASSUME NEW q \in Request, Win5!BeginImport(q) PROVE DayInv'
    <2>1. Win5!TypeOK'
      BY <1>8, EvaluationTyped
    <2>2. Stay
      BY <1>1, <1>8, Win5OthersStay DEF Win5!BeginImport
    <2>3. QED
      BY <1>8, <2>1, <2>2, DayFrame DEF Win5!BeginImport, Win5!staff, Win5!outcome
  <1>9. ASSUME NEW q \in Request, Win5!CommitImport(q) \/ Win5!BeginConfirm(q)
      \/ Win5!CommitConfirm(q)
        PROVE  DayInv'
    BY <1>9, EvaluationTyped, EvaluationStep
  <1>10. CASE Win5!BeginActivate \/ Win5!CommitActivate
    <2>1. Win5!TypeOK'
      BY <1>1, <1>10, PublicationTyped
    <2>2. CASE Win5!BeginActivate
      <3>1. PICK rows : Win5!Does(Worker, [op |-> "activate", at |-> win5Now, rows |-> rows])
        BY <2>2 DEF Win5!BeginActivate
      <3>2. QED
        BY <1>1, <2>1, <2>2, <3>1, Win5OthersStay, DayFrame
        DEF Win5!BeginActivate, Win5!staff, Win5!outcome
    <2>3. CASE Win5!CommitActivate
      <3>1. Stay
        BY <1>1, <2>3, Win5OthersStay DEF Win5!CommitActivate, Win5!Idle
      <3>2. QED
        BY <2>1, <2>3, <3>1, DayFrame DEF Win5!CommitActivate, Win5!staff, Win5!outcome
    <2>4. QED
      BY <1>10, <2>2, <2>3
  <1>11. ASSUME NEW r \in Win5!Process, Win5!Abort(r) PROVE DayInv'
    <2>1. Win5!TypeOK'
      BY <1>11, PublicationTyped
    <2>2. Stay
      BY <1>1, <1>11, Win5OthersStay DEF Win5!Abort, Win5!Idle
    <2>3. QED
      BY <1>11, <2>1, <2>2, DayFrame DEF Win5!Abort, Win5!staff, Win5!outcome
  <1>12. CASE Win5!Tick
    <2>1. Win5!TypeOK'
      BY <1>1, <1>12 DEF Win5!Tick, Win5!TypeOK, Win5!staff, Win5!sales, Win5!outcome
    <2>2. Stay
      BY <1>12 DEF Win5!Tick
    <2>3. QED
      BY <1>12, <2>1, <2>2, DayFrame DEF Win5!Tick, Win5!staff, Win5!outcome
  <1>13. CASE UNCHANGED Win5!vars
    <2>1. Win5!TypeOK' /\ Stay
      BY <1>1, <1>13 DEF Win5!TypeOK, Win5!vars, Win5!staff, Win5!sales, Win5!outcome
    <2>2. QED
      BY <1>13, <2>1, DayFrame DEF Win5!vars, Win5!staff, Win5!sales, Win5!outcome
  <1>14. CASE Win5!Preview
    BY <1>1, <1>14, StaffTyped, PublicationStep
  <1>15. ASSUME NEW q \in Request, Win5!Commit(q) PROVE DayInv'
    <2>1. CASE Win5!CallRefund(q)
      BY <1>1, <1>7, <2>1, Win5DoingTyped DEF Win5!CallRefund
    <2>2. CASE Win5!CommitBuy(q)
      BY <1>1, <1>7, <2>2, Win5DoingTyped DEF Win5!CommitBuy
    <2>3. CASE Win5!FinishRefund(q)
      BY <1>1, <1>7, <2>3, Win5DoingTyped DEF Win5!FinishRefund
    <2>4. CASE Win5!CommitHear(q)
      BY <1>1, <1>7, <2>4, Win5DoingTyped DEF Win5!CommitHear
    <2>5. QED
      BY <1>1, <1>6, <1>9, <1>15, <2>1, <2>2, <2>3, <2>4 DEF Win5!Commit
  <1>16. CASE Win5!Next
    BY <1>1, <1>2, <1>3, <1>4, <1>5, <1>6, <1>7, <1>8, <1>9, <1>10, <1>11, <1>12, <1>14, <1>15,
        <1>16
       DEF Win5!Next
  <1>17. QED
    BY <1>13, <1>16

\* Every variable holds a value of its type, whatever the legs, the horses, the
\* members and the bounds.
THEOREM Win5TypeCorrect ==
    ASSUME Win5!ConstantsAssumption
    PROVE  Win5!Spec => []Win5!TypeOK
  <1>1. DayInv => Win5!TypeOK
    BY DEF DayInv
  <1>2. QED
    BY <1>1, Win5Init, DayStep, PTL DEF Win5!Spec

-----------------------------------------------------------------------------
(***************************************************************************)
(* The publications.  The lock keeps the number a preview announced free   *)
(* until its publication commits.                                          *)
(***************************************************************************)

\* A version has the number and the picks its preview announced, and is
\* published before the first leg starts.
Win5PublishedAsPreviewed ==
    /\ \A p \in win5Previews : p.version > 0 => p.version = p.next
         /\ win5Versions[p.version].legs = p.legs
    /\ \A i \in DOMAIN win5Versions : win5Versions[i].publishedAt < win5Versions[i].deadline

AnnouncedInv ==
    /\ \A p \in win5Previews : p.legs = p.base.product.legs
    /\ \A q \in Win5!Process : PublishesWin5(q) =>
          win5Request[q].preview.next = Len(win5Versions) + 1
              /\ win5Request[q].legs = win5Request[q].preview.legs
    /\ \A q \in Win5!Process : win5Request[q].op = "start"
         => win5Request[q].at < win5Request[q].deadline
    /\ Win5PublishedAsPreviewed

LEMMA AnnouncedInit == Win5!Init => AnnouncedInv
  BY DEF Win5!Init, AnnouncedInv, Win5PublishedAsPreviewed, PublishesWin5, Win5!Idle

LEMMA AnnouncedFrame ==
    ASSUME AnnouncedInv, UNCHANGED <<win5Previews, win5Versions>>,
           \A p \in Win5!Process : win5Request'[p].op \in {"publish", "start"}
               => win5Request'[p] = win5Request[p]
    PROVE  AnnouncedInv'
  BY DEF AnnouncedInv, Win5PublishedAsPreviewed, PublishesWin5

LEMMA AnnouncedStep ==
    ASSUME Win5!ConstantsAssumption
    PROVE  DayInv /\ AnnouncedInv /\ [Win5!Next]_Win5!vars => AnnouncedInv'
  <1> SUFFICES ASSUME DayInv, AnnouncedInv, [Win5!Next]_Win5!vars PROVE AnnouncedInv'
    OBVIOUS
  <1>1. /\ Win5!TypeOK /\ Win5!TypeOK' /\ Request \subseteq Win5!Process
        /\ win5Request \in [Win5!Process -> Win5!Doing]
        /\ win5Versions \in Seq(Win5!VersionRow) /\ win5Previews \in SUBSET Win5!PreviewRow
        /\ VersionsCounted /\ OnePublication
    BY DayStep DEF DayInv, Win5!Process, Win5!TypeOK
  <1>2. ASSUME NEW q \in Win5!Process, NEW what, Win5!Does(q, what)
        PROVE  win5Request'[q] = what
            /\ \A p \in Win5!Process \ {q} : win5Request'[p] = win5Request[p]
    BY <1>1, <1>2 DEF Win5!Does
  <1>3. CASE Win5!Preview
    <2>1. PICK new : /\ win5Previews' = win5Previews \cup {new}
                     /\ new.legs = new.base.product.legs /\ new.version = 0
      <3> DEFINE row == [base |-> Win5!Fingerprint, legs |-> product.legs,
          next |-> Len(win5Versions) + 1,
                         until |-> win5Now + 1, version |-> 0]
      <3>1. win5Previews' = win5Previews \cup {row} /\ row.base = Win5!Fingerprint
          /\ row.legs = product.legs
            /\ row.version = 0
        BY <1>3 DEF Win5!Preview
      <3> HIDE DEF row
      <3>2. QED
        BY <3>1 DEF Win5!Fingerprint
    <2>2. win5Versions' = win5Versions /\ win5Request' = win5Request
      BY <1>3 DEF Win5!Preview
    <2>3. QED
      BY <2>1, <2>2 DEF AnnouncedInv, Win5PublishedAsPreviewed, PublishesWin5
  <1>4. ASSUME NEW q \in Request, NEW p \in win5Previews, Win5!BeginPublish(q, p) PROVE AnnouncedInv'
    <2>1. /\ UNCHANGED <<win5Previews, win5Versions>> /\ p.next = Len(win5Versions) + 1
          /\ p.base = Win5!Fingerprint
          /\ Win5!Does(q, [op |-> "publish", at |-> win5Now, preview |-> p, legs |-> product.legs])
      BY <1>4 DEF Win5!BeginPublish, Win5!staff
    <2>2. p.legs = product.legs
      BY <2>1 DEF AnnouncedInv, Win5!Fingerprint
    <2>3. /\ win5Request'[q].op = "publish" /\ win5Request'[q].preview = p
          /\ win5Request'[q].legs = p.legs
          /\ \A r \in Win5!Process \ {q} : win5Request'[r] = win5Request[r]
      BY <1>1, <1>2, <2>1, <2>2
    <2>4. QED
      BY <2>1, <2>3 DEF AnnouncedInv, Win5PublishedAsPreviewed, PublishesWin5
  <1>5. ASSUME NEW q \in Request, Win5!InsertVersion(q) PROVE AnnouncedInv'
    <2>1. UNCHANGED <<win5Previews, win5Versions>> /\ win5Request[q].op = "publish"
      BY <1>5 DEF Win5!InsertVersion, Win5!staff
    <2>2. CASE Win5!Does(q, Win5!Idle)
      BY <1>1, <1>2, <2>1, <2>2, AnnouncedFrame DEF Win5!Idle
    <2>3. CASE ~Win5!Does(q, Win5!Idle)
      <3>1. PICK rows : /\ Win5!Insertable(win5Request[q].at)
                        /\ Win5!Does(q, [op |-> "start", at |-> win5Request[q].at,
                                    preview |-> win5Request[q].preview,
                                        legs |-> win5Request[q].legs,
                                    rows |-> rows, deadline |-> Win5!Earliest])
        BY <1>5, <2>3 DEF Win5!InsertVersion
      <3>2. /\ win5Request'[q].op = "start" /\ win5Request'[q].preview = win5Request[q].preview
            /\ win5Request'[q].legs = win5Request[q].legs
            /\ win5Request'[q].at < win5Request'[q].deadline
            /\ \A r \in Win5!Process \ {q} : win5Request'[r] = win5Request[r]
        BY <1>1, <1>2, <3>1 DEF Win5!Insertable
      <3>3. QED
        BY <1>1, <2>1, <3>2 DEF AnnouncedInv, Win5PublishedAsPreviewed, PublishesWin5
    <2>4. QED
      BY <2>2, <2>3
  <1>6. ASSUME NEW q \in Request, Win5!CommitPublish(q) PROVE AnnouncedInv'
    <2>1. PICK p, row, at :
             /\ p = win5Request[q].preview /\ at = win5Request[q].at
             /\ row = [legs |-> win5Request[q].legs, publishedAt |-> win5Request[q].at,
                       deadline |-> win5Request[q].deadline]
      OBVIOUS
    <2>2. /\ p \in win5Previews /\ p \in Win5!PreviewRow /\ p.version = 0
          /\ p.next = Len(win5Versions) + 1
          /\ row.legs = p.legs /\ row.publishedAt < row.deadline
      BY <1>1, <1>6, <2>1 DEF Win5!CommitPublish, AnnouncedInv, OnePublication, PublishesWin5
    <2>3. PICK new : new = [p EXCEPT !.version = Len(win5Versions) + 1]
      OBVIOUS
    <2>4. /\ new.version = Len(win5Versions) + 1 /\ new.next = p.next /\ new.legs = p.legs
          /\ new.base = p.base
      BY <2>2, <2>3 DEF Win5!PreviewRow
    <2>5. win5Versions' = Append(win5Versions, row)
        /\ win5Previews' = (win5Previews \ {p}) \cup {new}
      BY <1>6, <2>1, <2>3 DEF Win5!CommitPublish
    <2>6. \A r \in Win5!Process : ~PublishesWin5(r)'
      <3>1. Win5!Does(q, Win5!Idle) /\ PublishesWin5(q)
        BY <1>6 DEF Win5!CommitPublish, PublishesWin5
      <3>2. /\ win5Request'[q] = Win5!Idle
            /\ \A r \in Win5!Process \ {q} : win5Request'[r] = win5Request[r]
        BY <1>1, <3>1 DEF Win5!Does
      <3>3. QED
        BY <1>1, <3>1, <3>2 DEF OnePublication, PublishesWin5, Win5!Idle
    <2>7. /\ Len(win5Versions) \in Nat /\ Len(win5Versions') = Len(win5Versions) + 1
          /\ win5Versions'[Len(win5Versions) + 1] = row
          /\ \A i \in 1 .. Len(win5Versions) : win5Versions'[i] = win5Versions[i]
      BY <1>1, <2>5
    <2>8. \A r \in win5Previews : r.version \in Nat /\ r.version <= Len(win5Versions)
      BY <1>1 DEF VersionsCounted, Win5!PreviewRow
    <2>9. \A r \in win5Previews' : r.version > 0 => r.version = r.next
        /\ win5Versions'[r.version].legs = r.legs
      <3>1. ASSUME NEW r \in win5Previews, r.version > 0
            PROVE  r.version = r.next /\ win5Versions'[r.version].legs = r.legs
        BY <2>7, <2>8, <3>1 DEF AnnouncedInv, Win5PublishedAsPreviewed
      <3>2. new.version = new.next /\ win5Versions'[new.version].legs = new.legs
        BY <2>2, <2>4, <2>7
      <3>3. \A r \in win5Previews' : r \in win5Previews \/ r = new
        BY <2>5
      <3>4. QED
        BY <3>1, <3>2, <3>3
    <2>10. \A i \in DOMAIN win5Versions' : win5Versions'[i].publishedAt < win5Versions'[i].deadline
      <3>1. DOMAIN win5Versions = 1 .. Len(win5Versions)
          /\ DOMAIN win5Versions' = 1 .. Len(win5Versions')
        BY <1>1, <2>5
      <3>2. ASSUME NEW i \in 1 .. Len(win5Versions)
            PROVE  win5Versions'[i].publishedAt < win5Versions'[i].deadline
        BY <2>7, <3>1, <3>2 DEF AnnouncedInv, Win5PublishedAsPreviewed
      <3>3. win5Versions'[Len(win5Versions) + 1] = row
        BY <2>7
      <3>4. \A i \in DOMAIN win5Versions' : i \in 1 .. Len(win5Versions) \/ i = Len(win5Versions) + 1
        BY <2>7, <3>1
      <3>5. QED
        BY <2>2, <3>2, <3>3, <3>4
    <2>11. \A r \in win5Previews' : r.legs = r.base.product.legs
      BY <2>2, <2>4, <2>5 DEF AnnouncedInv
    <2>12. QED
      BY <2>6, <2>9, <2>10, <2>11 DEF AnnouncedInv, Win5PublishedAsPreviewed, PublishesWin5
  <1>7. ASSUME \/ \E l \in Leg :
                     \/ \E start \in {FirstRace, FirstRace - 1}, status \in {"SCHEDULED", "DELAYED"} :
                           Win5!ChangeRace(l, start, status)
                     \/ \E winner \in Horse \cup {Win5!NoOne} : Win5!ConfirmRace(l, winner)
                     \/ \E horses \in (SUBSET Horse) \ {{}} : Win5!SaveLeg(l, horses)
               \/ Win5!SaveProduct \/ Win5!Tick \/ UNCHANGED Win5!vars
               \/ \E n \in Member : Win5!SettleRefund(n)
        PROVE  AnnouncedInv'
    <2>1. UNCHANGED <<win5Previews, win5Versions, win5Request>>
      BY <1>7
      DEF Win5!ChangeRace, Win5!ConfirmRace, Win5!SaveLeg, Win5!SaveProduct, Win5!Tick, Win5!vars,
          Win5!SettleRefund, Win5!staff
    <2>2. QED
      BY <2>1, AnnouncedFrame
  <1>8. ASSUME NEW q \in Win5!Process, NEW what, Win5!Does(q, what), UNCHANGED <<win5Previews,
      win5Versions>>,
               what.op \notin {"publish", "start"}
        PROVE  AnnouncedInv'
    BY <1>2, <1>8, AnnouncedFrame
  <1>9. ASSUME \/ Win5!BeginActivate \/ Win5!CommitActivate
               \/ \E q \in Win5!Process : Win5!Abort(q)
        PROVE  AnnouncedInv'
    <2>1. CASE Win5!BeginActivate
      <3>1. PICK rows : Win5!Does(Worker, [op |-> "activate", at |-> win5Now, rows |-> rows])
        BY <2>1 DEF Win5!BeginActivate
      <3>2. QED
        BY <1>8, <2>1, <3>1 DEF Win5!BeginActivate, Win5!staff, Win5!Process
    <2>2. CASE Win5!CommitActivate
      BY <1>8, <2>2 DEF Win5!CommitActivate, Win5!staff, Win5!Process, Win5!Idle
    <2>3. CASE \E q \in Win5!Process : Win5!Abort(q)
      BY <1>8, <2>3 DEF Win5!Abort, Win5!staff, Win5!Idle
    <2>4. QED
      BY <1>9, <2>1, <2>2, <2>3
  <1>10. ASSUME NEW q \in Request,
                \/ \E n \in Member :
                      \/ \E source \in {"PURCHASE", "REFERRAL_REWARD"} : Win5!BeginBuy(q, n, source)
                      \/ Win5!ReserveRefund(q, n) \/ Win5!HearRefund(q, n)
                \/ Win5!CommitBuy(q) \/ Win5!CallRefund(q) \/ Win5!FinishRefund(q)
                \/ Win5!CommitHear(q)
                \/ Win5!BeginImport(q) \/ Win5!CommitImport(q) \/ Win5!BeginConfirm(q)
                \/ Win5!CommitConfirm(q)
         PROVE  AnnouncedInv'
    <2>1. UNCHANGED <<win5Previews, win5Versions>>
      BY <1>10
      DEF Win5!BeginBuy, Win5!ReserveRefund, Win5!HearRefund, Win5!CommitBuy, Win5!CallRefund,
          Win5!FinishRefund, Win5!CommitHear,
                   Win5!BeginImport, Win5!CommitImport, Win5!BeginConfirm, Win5!CommitConfirm,
                   Win5!staff
    <2>2. CASE Win5!CallRefund(q)
      <3>1. win5Request[q] \in [op : {"refund", "refunded"}, at : Nat, member : Member]
        BY <1>1, <2>2, Win5DoingTyped DEF Win5!CallRefund
      <3>2. PICK what \in {[win5Request[q] EXCEPT !.op = "refunded"], Win5!Idle} : Win5!Does(q, what)
        BY <2>2 DEF Win5!CallRefund
      <3>3. what.op \in {"refunded", "idle"}
        BY <3>1 DEF Win5!Idle
      <3>4. QED
        BY <1>1, <1>8, <2>1, <3>2, <3>3
    <2>3. CASE ~Win5!CallRefund(q)
      <3>1. \A p \in Win5!Process : win5Request'[p].op \in {"publish", "start"}
          => win5Request'[p] = win5Request[p]
        <4> DEFINE Other == \E what : Win5!Does(q, what) /\ what.op \notin {"publish", "start"}
        <4>1. ASSUME NEW m \in Member, NEW source \in {"PURCHASE", "REFERRAL_REWARD"},
                     Win5!BeginBuy(q, m, source)
              PROVE  Other
          BY <4>1 DEF Win5!BeginBuy
        <4>2. ASSUME NEW m \in Member, Win5!ReserveRefund(q, m) PROVE Other
          BY <4>2 DEF Win5!ReserveRefund
        <4>3. ASSUME NEW m \in Member, Win5!HearRefund(q, m) PROVE Other \/ UNCHANGED win5Request
          BY <4>3 DEF Win5!HearRefund
        <4>4. ASSUME Win5!BeginImport(q) \/ Win5!BeginConfirm(q) PROVE Other
          BY <4>4 DEF Win5!BeginImport, Win5!BeginConfirm
        <4>5. ASSUME \/ Win5!CommitBuy(q) \/ Win5!FinishRefund(q) \/ Win5!CommitHear(q)
                     \/ Win5!CommitImport(q) \/ Win5!CommitConfirm(q)
              PROVE  Other
          <5>1. Win5!Does(q, Win5!Idle)
            BY <4>5 DEF Win5!CommitBuy, Win5!FinishRefund, Win5!CommitHear, Win5!CommitImport,
                        Win5!CommitConfirm
          <5>2. QED
            BY <5>1 DEF Win5!Idle
        <4>6. Other \/ UNCHANGED win5Request
          BY <1>10, <2>3, <4>1, <4>2, <4>3, <4>4, <4>5
        <4>7. QED
          BY <1>1, <4>6, Win5DoesAlone
      <3>2. QED
        BY <2>1, <3>1, AnnouncedFrame
    <2>4. QED
      BY <2>2, <2>3
  <1>11. QED
    BY <1>3, <1>4, <1>5, <1>6, <1>7, <1>9, <1>10 DEF Win5!Next, Win5!Commit

\* A version of the product has the number and the picks its preview announced,
\* and is published before the first leg starts, though legs and races are
\* edited while it is published.
THEOREM Win5PublishedAsPreviewedCorrect ==
    ASSUME Win5!ConstantsAssumption
    PROVE  Win5!Spec => []Win5PublishedAsPreviewed
  <1>1. AnnouncedInv => Win5PublishedAsPreviewed
    BY DEF AnnouncedInv
  <1>2. QED
    BY <1>1, Win5Init, DayStep, AnnouncedInit, AnnouncedStep, PTL DEF Win5!Spec

-----------------------------------------------------------------------------
(***************************************************************************)
(* The passes.  The rows a transaction locked still wait when it commits,  *)
(* whoever else starts, sells or refunds passes meanwhile; and once the    *)
(* provider was asked for a refund its pass can only be closed.            *)
(***************************************************************************)
Waiting(m) == pass[m].status = "PENDING" /\ pass[m].starts = 0
HoldsRows(q) == win5Request[q].op \in {"start", "activate"}
InRefund(m) == pass[m].status \in {"REFUNDING", "REFUNDED"}

\* What holds of a pass, its entitlement and its refund.
PassKept(m) ==
    /\ pass[m].starts = 0 <=> pass[m].status # "ACTIVE"
    /\ pass[m].access = IF pass[m].status = "ACTIVE" THEN 1 ELSE 0
    /\ refund[m].booked = IF pass[m].status = "REFUNDED" THEN 1 ELSE 0
    /\ refund[m].booked > 0 => refund[m].done
    /\ refund[m].answer # "none" \/ refund[m].done => InRefund(m)

\* What holds of the passes a transaction is about.
TransactionKept(q) ==
    /\ HoldsRows(q) => \A m \in win5Request[q].rows : Waiting(m)
    /\ win5Request[q].op \in {"refund", "refunded"} => InRefund(win5Request[q].member)
    /\ win5Request[q].op = "refunded" => refund[win5Request[q].member].done
    /\ win5Request[q].op = "hear" =>
          /\ refund[win5Request[q].member].done
          /\ win5Request[q].row.status = "REFUNDING" /\ win5Request[q].row.starts = 0

RowsApart ==
    \A p, q \in Win5!Process : HoldsRows(p) /\ HoldsRows(q) /\ p # q
                          => win5Request[p].rows \cap win5Request[q].rows = {}

SalesInv ==
    /\ \A m \in Member : PassKept(m)
    /\ \A q \in Win5!Process : TransactionKept(q)
    /\ RowsApart

\* No transaction is under way at first, no pass is sold.
LEMMA SalesInit == Win5!Init => SalesInv
  <1> SUFFICES ASSUME Win5!Init PROVE SalesInv
    OBVIOUS
  <1>1. \A q \in Win5!Process : win5Request[q].op = "idle"
    BY DEF Win5!Init, Win5!Idle
  <1>2. \A m \in Member : PassKept(m)
    BY DEF Win5!Init, PassKept, InRefund
  <1>3. QED
    BY <1>1, <1>2 DEF SalesInv, TransactionKept, RowsApart, HoldsRows

\* Steps that leave passes and refunds and begin nothing with them.
LEMMA SalesFrame ==
    ASSUME SalesInv, UNCHANGED Win5!sales,
           \A p \in Win5!Process : win5Request'[p].op \in {"start", "activate", "refund",
               "refunded", "hear"}
                              => win5Request'[p] = win5Request[p]
    PROVE  SalesInv'
  <1>1. pass' = pass /\ refund' = refund
    BY DEF Win5!sales
  <1>2. \A m \in Member : PassKept(m)'
    BY <1>1 DEF SalesInv, PassKept, InRefund
  <1>3. ASSUME NEW p \in Win5!Process PROVE TransactionKept(p)'
    BY <1>1, <1>3 DEF SalesInv, TransactionKept, HoldsRows, Waiting, InRefund
  <1>4. RowsApart'
    BY DEF SalesInv, RowsApart, HoldsRows
  <1>5. QED
    BY <1>2, <1>3, <1>4 DEF SalesInv

\* A transaction locks rows that wait and that nobody else locked.
LEMMA RowsLocked ==
    ASSUME DayInv, SalesInv, UNCHANGED Win5!sales, NEW q \in Win5!Process, NEW what, Win5!Does(q, what),
           what.op \in {"start", "activate"},
           \A m \in what.rows : Waiting(m) /\ ~Win5!Locked(m)
    PROVE  SalesInv'
  <1>1. /\ pass' = pass /\ refund' = refund /\ win5Request'[q] = what
        /\ \A p \in Win5!Process \ {q} : win5Request'[p] = win5Request[p]
    BY DEF Win5!sales, DayInv, Win5!TypeOK, Win5!Does
  <1>2. \A m \in Member : PassKept(m)'
    BY <1>1 DEF SalesInv, PassKept, InRefund
  <1>3. ASSUME NEW p \in Win5!Process PROVE TransactionKept(p)'
    BY <1>1, <1>3 DEF SalesInv, TransactionKept, HoldsRows, Waiting, InRefund
  <1>4. ASSUME NEW p \in Win5!Process \ {q},
      HoldsRows(p)' PROVE win5Request'[p].rows \cap what.rows = {}
    BY <1>1, <1>4 DEF HoldsRows, Win5!Locked
  <1>5. RowsApart'
    BY <1>1, <1>4 DEF SalesInv, RowsApart, HoldsRows
  <1>6. QED
    BY <1>2, <1>3, <1>5 DEF SalesInv

\* A transaction starts the rows it locked.
LEMMA RowsStarted ==
    ASSUME DayInv, SalesInv, NEW q \in Win5!Process, HoldsRows(q), NEW at \in Nat \ {0},
           pass' = Win5!Started(win5Request[q].rows, at), refund' = refund, Win5!Does(q, Win5!Idle)
    PROVE  SalesInv'
  <1>1. /\ pass \in [Member -> Win5!PassRow] /\ win5Request'[q] = Win5!Idle
        /\ \A p \in Win5!Process \ {q} : win5Request'[p] = win5Request[p]
    BY DEF DayInv, Win5!TypeOK, Win5!Does
  <1>2. ASSUME NEW m \in Member
        PROVE  IF m \in win5Request[q].rows
               THEN Waiting(m)
                   /\ pass'[m] = [pass[m] EXCEPT !.status = "ACTIVE", !.starts = at,
                        !.access = @ + 1]
               ELSE pass'[m] = pass[m]
    BY <1>2 DEF Win5!Started, SalesInv, TransactionKept
  <1>3. ASSUME NEW m \in Member PROVE PassKept(m)' /\ (InRefund(m) => InRefund(m)')
    <2>1. PassKept(m) /\ pass[m] \in Win5!PassRow
      BY <1>1 DEF SalesInv
    <2>2. CASE m \in win5Request[q].rows
      <3>1. pass'[m].status = "ACTIVE" /\ pass'[m].starts = at /\ pass'[m].access = 1
        <4>1. pass[m].access = 0
          BY <1>2, <2>1, <2>2 DEF PassKept, Waiting
        <4>2. pass'[m] = [pass[m] EXCEPT !.status = "ACTIVE", !.starts = at, !.access = @ + 1]
          BY <1>2, <2>2
        <4>3. pass[m] \in [status : {"NONE", "PENDING", "ACTIVE", "REFUNDING", "REFUNDED"},
                          source : Win5!Source, starts : Nat, access : Nat]
          BY <2>1 DEF Win5!PassRow
        <4>4. QED
          BY <4>1, <4>2, <4>3
      <3>2. Waiting(m)
        BY <1>2, <2>2
      <3>3. QED
        BY <2>1, <3>1, <3>2 DEF PassKept, InRefund, Waiting
    <2>3. CASE m \notin win5Request[q].rows
      BY <1>2, <2>1, <2>3 DEF PassKept, InRefund
    <2>4. QED
      BY <2>2, <2>3
  <1>4. ASSUME NEW p \in Win5!Process PROVE TransactionKept(p)'
    <2>1. CASE p = q
      BY <1>1, <2>1 DEF TransactionKept, HoldsRows, Win5!Idle
    <2>2. CASE p # q
      <3>1. win5Request'[p] = win5Request[p] /\ TransactionKept(p) /\ win5Request[p] \in Win5!Doing
        BY <1>1, <2>2 DEF SalesInv, DayInv, Win5!TypeOK
      <3>2. HoldsRows(p) => win5Request[p].rows \cap win5Request[q].rows = {}
          /\ win5Request[p].rows \subseteq Member
        BY <2>2, Win5DoingTyped DEF SalesInv, RowsApart, HoldsRows, DayInv
      <3>3. HoldsRows(p) => \A m \in win5Request[p].rows : pass'[m] = pass[m]
        BY <1>2, <3>2
      <3>4. win5Request[p].op \in {"refund", "refunded"} => win5Request[p].member \in Member
        BY Win5DoingTyped DEF DayInv
      <3>5. QED
        BY <1>3, <3>1, <3>3, <3>4 DEF TransactionKept, HoldsRows, Waiting
    <2>3. QED
      BY <2>1, <2>2
  <1>5. RowsApart'
    BY <1>1 DEF SalesInv, RowsApart, HoldsRows, Win5!Idle
  <1>6. QED
    BY <1>3, <1>4, <1>5 DEF SalesInv

\* A step about the pass of one member, whose row nobody else locked.
LEMMA RowStep ==
    ASSUME DayInv, SalesInv, NEW m \in Member,
           \A n \in Member \ {m} : pass'[n] = pass[n] /\ refund'[n] = refund[n],
           PassKept(m)', InRefund(m) => InRefund(m)', refund[m].done => refund'[m].done,
           pass'[m] = pass[m] \/ ~Win5!Locked(m),
           \A p \in Win5!Process :
              \/ win5Request'[p] = win5Request[p]
              \/ ~HoldsRows(p)' /\ TransactionKept(p)'
    PROVE  SalesInv'
  <1>1. \A n \in Member : PassKept(n)'
    BY DEF SalesInv, PassKept, InRefund
  <1>2. \A n \in Member : (InRefund(n) => InRefund(n)') /\ (refund[n].done => refund'[n].done)
    BY DEF InRefund
  <1>3. ASSUME NEW p \in Win5!Process, win5Request'[p] = win5Request[p] PROVE TransactionKept(p)'
    <2>1. TransactionKept(p) /\ Win5!TypeOK
      BY DEF SalesInv, DayInv
    <2>2. HoldsRows(p) => \A n \in win5Request[p].rows : pass'[n] = pass[n]
      BY <2>1, Win5DoingTyped DEF HoldsRows, Win5!Locked
    <2>3. win5Request[p].op \in {"refund", "refunded", "hear"} => win5Request[p].member \in Member
      BY <2>1, Win5DoingTyped
    <2>4. QED
      BY <1>2, <1>3, <2>1, <2>2, <2>3 DEF TransactionKept, HoldsRows, Waiting
  <1>4. RowsApart'
    BY DEF SalesInv, RowsApart, HoldsRows
  <1>5. QED
    BY <1>1, <1>3, <1>4 DEF SalesInv

\* Sales and refunds keep it.
LEMMA PassStep ==
    ASSUME DayInv, Win5!TypeOK', SalesInv, NEW q \in Win5!Process, NEW m \in Member,
           \/ Win5!CommitBuy(q) \/ Win5!ReserveRefund(q, m) \/ Win5!CallRefund(q)
           \/ Win5!FinishRefund(q)
           \/ Win5!SettleRefund(m) \/ Win5!HearRefund(q, m) \/ Win5!CommitHear(q)
    PROVE  SalesInv'
  <1>1. /\ Win5!TypeOK /\ pass \in [Member -> Win5!PassRow] /\ refund \in [Member -> Win5!RefundRow]
        /\ \A n \in Member : PassKept(n) /\ pass[n] \in Win5!PassRow /\ refund[n] \in Win5!RefundRow
        /\ TransactionKept(q)
    BY DEF DayInv, SalesInv, Win5!TypeOK
  <1>2. ASSUME NEW what, Win5!Does(q, what)
        PROVE  win5Request'[q] = what
            /\ \A p \in Win5!Process \ {q} : win5Request'[p] = win5Request[p]
    BY <1>1, <1>2 DEF Win5!Does, Win5!TypeOK
  <1>3. CASE Win5!CommitBuy(q)
    <2>1. PICK n \in Member, starts \in Nat : n = win5Request[q].member
        /\ starts = win5Request[q].starts
      BY <1>1, <1>3, Win5DoingTyped DEF Win5!CommitBuy
    <2> DEFINE new == [status |-> IF starts = 0 THEN "PENDING" ELSE "ACTIVE",
                       source |-> win5Request[q].source, starts |-> starts,
                       access |-> IF starts = 0 THEN 0 ELSE 1]
    <2>2. /\ refund' = refund /\ Win5!Does(q, Win5!Idle)
          /\ pass' = IF pass[n].status # "NONE" THEN pass ELSE [pass EXCEPT ![n] = new]
      BY <1>3, <2>1 DEF Win5!CommitBuy
    <2>3. CASE pass[n].status # "NONE"
      <3>1. UNCHANGED Win5!sales
        BY <2>2, <2>3 DEF Win5!sales
      <3>2. QED
        BY <1>1, <1>2, <2>2, <3>1, SalesFrame DEF Win5!Idle
    <2>4. CASE pass[n].status = "NONE"
      <3>1. pass'[n] = new /\ \A k \in Member \ {n} : pass'[k] = pass[k]
        BY <1>1, <2>1, <2>2, <2>4
      <3>2. PassKept(n)'
        <4>1. refund[n].booked = 0 /\ refund[n].answer = "none" /\ ~refund[n].done
          BY <1>1, <2>1, <2>4 DEF PassKept, InRefund
        <4>2. /\ pass'[n].status = IF starts = 0 THEN "PENDING" ELSE "ACTIVE"
              /\ pass'[n].starts = starts
              /\ pass'[n].access = IF starts = 0 THEN 0 ELSE 1
          BY <3>1
        <4>3. refund'[n] = refund[n]
          BY <2>2
        <4> HIDE DEF new
        <4>4. QED
          BY <4>1, <4>2, <4>3 DEF PassKept, InRefund
      <3>3. ~Win5!Locked(n)
        <4>1. ASSUME NEW p \in Win5!Process, HoldsRows(p), n \in win5Request[p].rows PROVE FALSE
          BY <2>4, <4>1 DEF SalesInv, TransactionKept, Waiting
        <4>2. QED
          BY <4>1 DEF Win5!Locked, HoldsRows
      <3>4. ~HoldsRows(q)' /\ TransactionKept(q)'
        BY <1>2, <2>2 DEF HoldsRows, TransactionKept, Win5!Idle
      <3>5. \A p \in Win5!Process \ {q} : win5Request'[p] = win5Request[p]
        BY <1>2, <2>2
      <3>6. refund' = refund /\ ~InRefund(n)
        BY <2>2, <2>4 DEF InRefund
      <3> HIDE DEF new
      <3>7. QED
        BY <2>1, <3>1, <3>2, <3>3, <3>4, <3>5, <3>6, RowStep
    <2>5. QED
      BY <2>3, <2>4
  <1>4. CASE Win5!ReserveRefund(q, m)
    <2> DEFINE what == [op |-> "refund", at |-> win5Now, member |-> m]
    <2>1. /\ pass' = [pass EXCEPT ![m].status = "REFUNDING"] /\ refund' = refund
          /\ Win5!Does(q, what)
          /\ pass[m].status \in {"PENDING", "REFUNDING"} /\ pass[m].starts = 0 /\ ~Win5!Locked(m)
      BY <1>4 DEF Win5!ReserveRefund, Win5!Refundable
    <2>2. /\ pass'[m].status = "REFUNDING" /\ pass'[m].starts = 0
          /\ pass'[m].access = pass[m].access
          /\ \A n \in Member \ {m} : pass'[n] = pass[n]
      BY <1>1, <2>1 DEF Win5!PassRow
    <2>3. PassKept(m)' /\ InRefund(m)'
      BY <1>1, <2>1, <2>2 DEF PassKept, InRefund
    <2>4. ~HoldsRows(q)' /\ TransactionKept(q)'
      BY <1>2, <2>1, <2>3 DEF HoldsRows, TransactionKept
    <2>5. QED
      BY <1>2, <2>1, <2>2, <2>3, <2>4, RowStep
  <1>5. CASE Win5!CallRefund(q)
    <2>0. win5Request[q] \in [op : {"refund", "refunded"}, at : Nat, member : Member]
        /\ win5Request[q].op = "refund"
      BY <1>1, <1>5, Win5DoingTyped DEF Win5!CallRefund
    <2>1. PICK n \in Member : n = win5Request[q].member
      BY <2>0
    <2>2. PICK answer \in {"succeeded", "pending", refund[n].answer} :
             /\ refund' = [refund EXCEPT ![n].answer = answer,
                  ![n].done = @ \/ answer = "succeeded"]
             /\ Win5!Does(q, IF answer = "succeeded" THEN [win5Request[q] EXCEPT !.op = "refunded"]
                             ELSE Win5!Idle)
      <3>1. \E answer \in IF refund[n].answer = "none" THEN {"succeeded", "pending"}
                          ELSE {refund[n].answer} :
              /\ refund' = [refund EXCEPT ![n].answer = answer,
                   ![n].done = @ \/ answer = "succeeded"]
              /\ Win5!Does(q, IF answer = "succeeded" THEN [win5Request[q] EXCEPT !.op = "refunded"]
                              ELSE Win5!Idle)
        BY <1>5, <2>1 DEF Win5!CallRefund
      <3>2. QED
        BY <3>1
    <2>3. pass' = pass /\ InRefund(n)
      BY <1>1, <1>5, <2>0, <2>1 DEF Win5!CallRefund, TransactionKept
    <2>4. /\ refund'[n].booked = refund[n].booked
          /\ refund[n].done \/ answer = "succeeded" => refund'[n].done
          /\ \A k \in Member \ {n} : refund'[k] = refund[k]
      BY <1>1, <2>2, <2>3 DEF Win5!RefundRow
    <2>5. PassKept(n)' /\ InRefund(n)'
      BY <1>1, <2>3, <2>4 DEF PassKept, InRefund
    <2>6. ~HoldsRows(q)' /\ TransactionKept(q)'
      <3>1. CASE answer = "succeeded"
        <4>1. win5Request'[q] = [win5Request[q] EXCEPT !.op = "refunded"]
          BY <1>2, <2>2, <3>1
        <4>2. win5Request'[q].op = "refunded" /\ win5Request'[q].member = n
          BY <2>0, <2>1, <4>1
        <4>3. QED
          BY <2>4, <2>5, <3>1, <4>2 DEF HoldsRows, TransactionKept
      <3>2. CASE answer # "succeeded"
        <4>1. win5Request'[q] = Win5!Idle
          BY <1>2, <2>2, <3>2
        <4>2. QED
          BY <4>1 DEF HoldsRows, TransactionKept, Win5!Idle
      <3>3. QED
        BY <3>1, <3>2
    <2>7. \A p \in Win5!Process \ {q} : win5Request'[p] = win5Request[p]
      BY <1>2, <2>2
    <2>8. QED
      BY <2>3, <2>4, <2>5, <2>6, <2>7, RowStep
  <1>6. ASSUME NEW n \in Member, Win5!Unbooked(n), refund[n].done, ~Win5!Locked(n),
      pass[n].status = "REFUNDING",
               pass'[n] = [pass[n] EXCEPT !.status = "REFUNDED"],
               refund'[n].booked = refund[n].booked + 1, refund'[n].done = refund[n].done,
               \A k \in Member \ {n} : pass'[k] = pass[k] /\ refund'[k] = refund[k],
               Win5!Does(q, Win5!Idle)
        PROVE  SalesInv'
    <2>1. /\ pass'[n].status = "REFUNDED" /\ pass'[n].starts = pass[n].starts
          /\ pass'[n].access = pass[n].access
      BY <1>1, <1>6 DEF Win5!PassRow
    <2>2. PassKept(n)' /\ InRefund(n)'
      BY <1>1, <1>6, <2>1 DEF PassKept, InRefund, Win5!Unbooked
    <2>3. ~HoldsRows(q)' /\ TransactionKept(q)'
      BY <1>2, <1>6 DEF HoldsRows, TransactionKept, Win5!Idle
    <2>4. QED
      BY <1>2, <1>6, <2>2, <2>3, RowStep
  <1>7. CASE Win5!FinishRefund(q)
    <2> DEFINE n == win5Request[q].member
    <2>1. n \in Member /\ win5Request[q].op = "refunded" /\ refund[n].done /\ ~Win5!Locked(n)
        /\ Win5!Does(q, Win5!Idle)
      BY <1>1, <1>7, Win5DoingTyped DEF Win5!FinishRefund, TransactionKept
    <2>2. CASE pass[n].status = "REFUNDING" /\ pass[n].starts = 0 /\ Win5!Unbooked(n)
      <3>1. /\ refund' = [refund EXCEPT ![n].booked = @ + 1]
            /\ pass' = [pass EXCEPT ![n].status = "REFUNDED"]
        BY <1>7, <2>2 DEF Win5!FinishRefund, Win5!Book
      <3>2. /\ pass'[n] = [pass[n] EXCEPT !.status = "REFUNDED"]
            /\ refund'[n].booked = refund[n].booked + 1 /\ refund'[n].done = refund[n].done
            /\ \A k \in Member \ {n} : pass'[k] = pass[k] /\ refund'[k] = refund[k]
        BY <1>1, <2>1, <3>1 DEF Win5!RefundRow
      <3> HIDE DEF n
      <3>3. QED
        BY <1>6, <2>1, <2>2, <3>2
    <2>3. CASE ~(pass[n].status = "REFUNDING" /\ pass[n].starts = 0 /\ Win5!Unbooked(n))
      <3>1. UNCHANGED Win5!sales
        BY <1>7, <2>3 DEF Win5!FinishRefund
      <3>2. QED
        BY <1>2, <2>1, <3>1, SalesFrame DEF Win5!Idle
    <2>4. QED
      BY <2>2, <2>3
  <1>8. CASE Win5!SettleRefund(m)
    <2>1. /\ pass' = pass /\ win5Request' = win5Request /\ refund[m].answer = "pending"
          /\ refund' = [refund EXCEPT ![m].done = TRUE]
      BY <1>8 DEF Win5!SettleRefund
    <2>2. /\ refund'[m].booked = refund[m].booked /\ refund'[m].done
          /\ \A n \in Member \ {m} : refund'[n] = refund[n]
      BY <1>1, <2>1 DEF Win5!RefundRow
    <2>3. PassKept(m)' /\ (InRefund(m) => InRefund(m)')
      BY <1>1, <2>1, <2>2 DEF PassKept, InRefund
    <2>4. QED
      BY <2>1, <2>2, <2>3, RowStep
  <1>9. CASE Win5!HearRefund(q, m)
    <2>1. pass' = pass /\ refund[m].done
      BY <1>9 DEF Win5!HearRefund
    <2>2. CASE Win5!Unbooked(m)
      <3>1. Win5!Does(q, [op |-> "hear", at |-> win5Now, member |-> m, row |-> pass[m]])
          /\ refund' = refund
        BY <1>9, <2>2 DEF Win5!HearRefund
      <3>2. pass[m].status = "REFUNDING" /\ pass[m].starts = 0
        BY <1>1, <2>1, <2>2 DEF PassKept, InRefund, Win5!Unbooked
      <3>3. ~HoldsRows(q)' /\ TransactionKept(q)'
        BY <1>2, <2>1, <3>1, <3>2 DEF HoldsRows, TransactionKept
      <3>4. PassKept(m)' /\ (InRefund(m) => InRefund(m)')
        BY <1>1, <2>1, <3>1 DEF PassKept, InRefund
      <3>5. QED
        BY <1>2, <2>1, <3>1, <3>3, <3>4, RowStep
    <2>3. CASE ~Win5!Unbooked(m)
      <3>1. refund' = [refund EXCEPT ![m].heard = TRUE] /\ win5Request' = win5Request
        BY <1>9, <2>3 DEF Win5!HearRefund
      <3>2. /\ refund'[m].booked = refund[m].booked /\ refund'[m].done = refund[m].done
            /\ refund'[m].answer = refund[m].answer
            /\ \A n \in Member \ {m} : refund'[n] = refund[n]
        BY <1>1, <3>1 DEF Win5!RefundRow
      <3>3. PassKept(m)' /\ (InRefund(m) => InRefund(m)')
        BY <1>1, <2>1, <3>2 DEF PassKept, InRefund
      <3>4. QED
        BY <2>1, <3>1, <3>2, <3>3, RowStep
    <2>4. QED
      BY <2>2, <2>3
  <1>10. CASE Win5!CommitHear(q)
    <2> DEFINE n == win5Request[q].member
    <2>1. n \in Member /\ win5Request[q].op = "hear" /\ ~Win5!Locked(n) /\ Win5!Does(q, Win5!Idle)
      BY <1>1, <1>10, Win5DoingTyped DEF Win5!CommitHear
    <2>2. refund[n].done /\ win5Request[q].row.status = "REFUNDING" /\ win5Request[q].row.starts = 0
      BY <1>1, <2>1 DEF TransactionKept
    <2>3. CASE Win5!Unbooked(n)
      <3>1. /\ refund' = [refund EXCEPT ![n].booked = @ + 1, ![n].heard = TRUE]
            /\ pass' = [pass EXCEPT ![n].status = "REFUNDED"]
        BY <1>10, <2>2, <2>3 DEF Win5!CommitHear
      <3>2. /\ pass'[n] = [pass[n] EXCEPT !.status = "REFUNDED"]
            /\ refund'[n].booked = refund[n].booked + 1 /\ refund'[n].done = refund[n].done
            /\ \A k \in Member \ {n} : pass'[k] = pass[k] /\ refund'[k] = refund[k]
        <4>1. n \in Member /\ refund[n] \in Win5!RefundRow
          BY <1>1, <2>1
        <4> HIDE DEF n
        <4>2. QED
          BY <1>1, <3>1, <4>1 DEF Win5!RefundRow
      <3>3. pass[n].status = "REFUNDING"
        BY <1>1, <2>1, <2>2, <2>3 DEF PassKept, InRefund, Win5!Unbooked
      <3> HIDE DEF n
      <3>4. QED
        BY <1>6, <2>1, <2>2, <2>3, <3>2, <3>3
    <2>4. CASE ~Win5!Unbooked(n)
      <3>1. UNCHANGED Win5!sales
        BY <1>10, <2>4 DEF Win5!CommitHear
      <3>2. QED
        BY <1>2, <2>1, <3>1, SalesFrame DEF Win5!Idle
    <2>5. QED
      BY <2>3, <2>4
  <1>11. QED
    BY <1>3, <1>4, <1>5, <1>7, <1>8, <1>9, <1>10

\* Every step of the day keeps what is said of the passes.
LEMMA SalesStep ==
    ASSUME Win5!ConstantsAssumption
    PROVE  DayInv /\ SalesInv /\ [Win5!Next]_Win5!vars => SalesInv'
  <1> SUFFICES ASSUME DayInv, SalesInv, [Win5!Next]_Win5!vars PROVE SalesInv'
    OBVIOUS
  <1>1. /\ Win5!TypeOK /\ Win5!TypeOK' /\ Request \subseteq Win5!Process /\ Worker \in Win5!Process
        /\ pass \in [Member -> Win5!PassRow] /\ win5Request \in [Win5!Process -> Win5!Doing]
    BY DayStep DEF DayInv, Win5!Process, Win5!TypeOK
  <1>2. ASSUME NEW q \in Win5!Process, NEW what, Win5!Does(q, what), UNCHANGED Win5!sales,
               what.op \notin {"start", "activate", "refund", "refunded", "hear"}
        PROVE  SalesInv'
    <2>1. win5Request'[q] = what /\ \A p \in Win5!Process \ {q} : win5Request'[p] = win5Request[p]
      BY <1>1, <1>2 DEF Win5!Does
    <2>2. QED
      BY <1>2, <2>1, SalesFrame
  <1>3. ASSUME UNCHANGED <<Win5!sales, win5Request>> PROVE SalesInv'
    BY <1>3, SalesFrame
  <1>4. ASSUME NEW q \in Request, Win5!InsertVersion(q) PROVE SalesInv'
    <2> DEFINE rows == IF win5Versions = <<>> THEN Win5!Pending(win5Request[q].at) ELSE {}
               what == [op |-> "start", at |-> win5Request[q].at,
                   preview |-> win5Request[q].preview,
                        legs |-> win5Request[q].legs, rows |-> rows, deadline |-> Win5!Earliest]
    <2>1. \/ Win5!Does(q, what) /\ \A m \in rows : ~Win5!Locked(m)
          \/ Win5!Does(q, Win5!Idle)
      BY <1>4 DEF Win5!InsertVersion
    <2>2. UNCHANGED Win5!sales /\ what.op = "start" /\ what.rows = rows
      BY <1>4 DEF Win5!InsertVersion
    <2>3. \A m \in rows : Waiting(m)
      BY DEF Win5!Pending, Waiting
    <2>4. Win5!Idle.op = "idle"
      BY DEF Win5!Idle
    <2> HIDE DEF what, rows
    <2>5. QED
      BY <1>1, <1>2, <2>1, <2>2, <2>3, <2>4, RowsLocked
  <1>5. CASE Win5!BeginActivate
    <2>1. PICK rows \in SUBSET {m \in Win5!Due : ~Win5!Locked(m)} :
             Win5!Does(Worker, [op |-> "activate", at |-> win5Now, rows |-> rows])
      BY <1>5 DEF Win5!BeginActivate
    <2>2. \A m \in rows : Waiting(m) /\ ~Win5!Locked(m)
      BY <2>1 DEF Win5!Due, Win5!Pending, Waiting
    <2>3. UNCHANGED Win5!sales
      BY <1>5 DEF Win5!BeginActivate
    <2>4. QED
      BY <1>1, <2>1, <2>2, <2>3, RowsLocked
  <1>6. CASE Win5!CommitActivate
    <2>1. /\ HoldsRows(Worker) /\ pass' = Win5!Started(win5Request[Worker].rows, DayStart)
          /\ refund' = refund /\ Win5!Does(Worker, Win5!Idle)
      BY <1>6 DEF Win5!CommitActivate, HoldsRows
    <2>2. DayStart \in Nat \ {0}
      BY DEF Win5!ConstantsAssumption
    <2>3. QED
      BY <1>1, <2>1, <2>2, RowsStarted
  <1>7. ASSUME NEW q \in Request, Win5!CommitPublish(q) PROVE SalesInv'
    <2>1. /\ HoldsRows(q) /\ pass' = Win5!Started(win5Request[q].rows, win5Request[q].at)
          /\ refund' = refund /\ Win5!Does(q, Win5!Idle)
      BY <1>7 DEF Win5!CommitPublish, HoldsRows
    <2>2. win5Request[q].at \in Nat \ {0}
      BY <1>1, <1>7, Win5DoingTyped DEF Win5!CommitPublish
    <2>3. QED
      BY <1>1, <2>1, <2>2, RowsStarted
  <1>8. ASSUME NEW q \in Request, Win5!CommitBuy(q) \/ Win5!CallRefund(q) \/ Win5!FinishRefund(q)
      \/ Win5!CommitHear(q)
        PROVE  SalesInv'
    <2>1. win5Request[q].member \in Member
      BY <1>1, <1>8, Win5DoingTyped
      DEF Win5!CommitBuy, Win5!CallRefund, Win5!FinishRefund, Win5!CommitHear
    <2>2. QED
      BY <1>1, <1>8, <2>1, PassStep
  <1>9. ASSUME NEW q \in Win5!Process, NEW m \in Member,
               Win5!ReserveRefund(q, m) \/ Win5!SettleRefund(m) \/ Win5!HearRefund(q, m)
        PROVE  SalesInv'
    BY <1>1, <1>9, PassStep
  <1>10. ASSUME NEW q \in Request,
                \/ \E p \in win5Previews : Win5!BeginPublish(q, p)
                \/ \E m \in Member, source \in {"PURCHASE", "REFERRAL_REWARD"} : Win5!BeginBuy(q, m, source)
                \/ Win5!BeginImport(q) \/ Win5!CommitImport(q) \/ Win5!BeginConfirm(q)
                \/ Win5!CommitConfirm(q)
         PROVE  SalesInv'
    <2>1. \E what : Win5!Does(q, what)
        /\ what.op \in {"publish", "buy", "import", "confirm", "idle"}
      <3>1. CASE \E p \in win5Previews : Win5!BeginPublish(q, p)
        <4>1. PICK p \in win5Previews :
                 Win5!Does(q, [op |-> "publish", at |-> win5Now, preview |-> p,
                 legs |-> product.legs])
          BY <3>1 DEF Win5!BeginPublish
        <4>2. QED
          BY <4>1
      <3>2. CASE \E m \in Member, source \in {"PURCHASE", "REFERRAL_REWARD"} : Win5!BeginBuy(q, m,
          source)
        <4>1. PICK m \in Member, source \in {"PURCHASE", "REFERRAL_REWARD"} : Win5!BeginBuy(q, m, source)
          BY <3>2
        <4>2. \E starts : Win5!Does(q, [op |-> "buy", at |-> win5Now, member |-> m,
            source |-> source,
                                   starts |-> starts])
          BY <4>1 DEF Win5!BeginBuy
        <4>3. QED
          BY <4>2
      <3>3. CASE Win5!BeginImport(q)
        BY <3>3 DEF Win5!BeginImport
      <3>4. CASE Win5!BeginConfirm(q)
        BY <3>4 DEF Win5!BeginConfirm
      <3>5. CASE Win5!CommitImport(q) \/ Win5!CommitConfirm(q)
        BY <3>5 DEF Win5!CommitImport, Win5!CommitConfirm, Win5!Idle
      <3>6. QED
        BY <1>10, <3>1, <3>2, <3>3, <3>4, <3>5
    <2>2. UNCHANGED Win5!sales
      BY <1>10
      DEF Win5!BeginPublish, Win5!BeginBuy, Win5!BeginImport, Win5!CommitImport, Win5!BeginConfirm,
          Win5!CommitConfirm
    <2>3. QED
      BY <1>1, <1>2, <2>1, <2>2
  <1>11. ASSUME NEW q \in Win5!Process, Win5!Abort(q) PROVE SalesInv'
    BY <1>2, <1>11 DEF Win5!Abort, Win5!Idle
  <1>12. ASSUME \/ \E l \in Leg :
                      \/ \E start \in {FirstRace, FirstRace - 1}, status \in {"SCHEDULED", "DELAYED"} :
                            Win5!ChangeRace(l, start, status)
                      \/ \E winner \in Horse \cup {Win5!NoOne} : Win5!ConfirmRace(l, winner)
                      \/ \E horses \in (SUBSET Horse) \ {{}} : Win5!SaveLeg(l, horses)
                \/ Win5!SaveProduct \/ Win5!Preview \/ Win5!Tick \/ UNCHANGED Win5!vars
         PROVE  SalesInv'
    <2>1. UNCHANGED <<Win5!sales, win5Request>>
      BY <1>12
      DEF Win5!ChangeRace, Win5!ConfirmRace, Win5!SaveLeg, Win5!SaveProduct, Win5!Preview,
          Win5!Tick, Win5!vars
    <2>2. QED
      BY <1>3, <2>1
  <1>13. QED
    BY <1>1, <1>4, <1>5, <1>6, <1>7, <1>8, <1>9, <1>10, <1>11, <1>12 DEF Win5!Next, Win5!Commit

\* The first publication, the worker and the sale all start passes: a pass has
\* one entitlement from its start on and none before.
THEOREM StartsOnceCorrect ==
    ASSUME Win5!ConstantsAssumption
    PROVE  Win5!Spec => []StartsOnce
  <1>1. SalesInv => StartsOnce
    BY DEF SalesInv, PassKept, StartsOnce
  <1>2. QED
    BY <1>1, Win5Init, DayStep, SalesInit, SalesStep, PTL DEF Win5!Spec

\* A refund that the administrator's request and the provider's event both
\* report is booked once, with the pass closed, and only what the provider gave
\* back is booked.
THEOREM RefundBookedOnceCorrect ==
    ASSUME Win5!ConstantsAssumption
    PROVE  Win5!Spec => []RefundBookedOnce
  <1>1. SalesInv => RefundBookedOnce
    BY DEF SalesInv, PassKept, RefundBookedOnce
  <1>2. QED
    BY <1>1, Win5Init, DayStep, SalesInit, SalesStep, PTL DEF Win5!Spec

LEMMA PassesSettleStep == DayInv /\ SalesInv /\ [Win5!Next]_Win5!vars => PassesSettle
  <1> SUFFICES ASSUME DayInv, SalesInv, [Win5!Next]_Win5!vars, NEW m \in Member,
                      pass[m].status \in {"ACTIVE", "REFUNDED"}
               PROVE  pass'[m] = pass[m]
    BY DEF PassesSettle
  <1>1. /\ Win5!TypeOK /\ Request \subseteq Win5!Process /\ Worker \in Win5!Process
        /\ pass \in [Member -> Win5!PassRow]
        /\ PassKept(m) /\ \A q \in Win5!Process : TransactionKept(q)
    BY DEF DayInv, SalesInv, Win5!Process, Win5!TypeOK
  <1>2. ASSUME NEW q \in Win5!Process, HoldsRows(q), NEW at,
      pass' = Win5!Started(win5Request[q].rows, at)
        PROVE  pass'[m] = pass[m]
    <2>1. m \notin win5Request[q].rows
      BY <1>1, <1>2 DEF TransactionKept, Waiting
    <2>2. QED
      BY <1>2, <2>1 DEF Win5!Started
  <1>3. ASSUME NEW q \in Request, Win5!CommitPublish(q) PROVE pass'[m] = pass[m]
    BY <1>1, <1>2, <1>3 DEF Win5!CommitPublish, HoldsRows
  <1>4. CASE Win5!CommitActivate
    BY <1>1, <1>2, <1>4 DEF Win5!CommitActivate, HoldsRows
  <1>5. ASSUME NEW q \in Request, Win5!CommitBuy(q) PROVE pass'[m] = pass[m]
    BY <1>1, <1>5 DEF Win5!CommitBuy
  <1>6. ASSUME NEW q \in Request, NEW n \in Member, Win5!ReserveRefund(q, n) PROVE pass'[m] = pass[m]
    BY <1>1, <1>6 DEF Win5!ReserveRefund, Win5!Refundable
  <1>7. ASSUME NEW q \in Request, Win5!FinishRefund(q) PROVE pass'[m] = pass[m]
    BY <1>1, <1>7 DEF Win5!FinishRefund, Win5!Book, Win5!sales
  <1>8. ASSUME NEW q \in Request, Win5!CommitHear(q) PROVE pass'[m] = pass[m]
    <2>1. CASE m # win5Request[q].member
      BY <1>1, <1>8, <2>1 DEF Win5!CommitHear, Win5!sales
    <2>2. CASE m = win5Request[q].member
      <3>1. InRefund(m) /\ refund[m].booked = 1
        BY <1>1, <1>8, <2>2 DEF Win5!CommitHear, TransactionKept, PassKept, InRefund
      <3>2. QED
        BY <1>8, <2>2, <3>1 DEF Win5!CommitHear, Win5!Unbooked, Win5!sales
    <2>3. QED
      BY <2>1, <2>2
  <1>9. ASSUME \/ \E l \in Leg :
                     \/ \E start \in {FirstRace, FirstRace - 1}, status \in {"SCHEDULED", "DELAYED"} :
                           Win5!ChangeRace(l, start, status)
                     \/ \E winner \in Horse \cup {Win5!NoOne} : Win5!ConfirmRace(l, winner)
                     \/ \E horses \in (SUBSET Horse) \ {{}} : Win5!SaveLeg(l, horses)
               \/ Win5!SaveProduct \/ Win5!Preview \/ Win5!Tick \/ UNCHANGED Win5!vars
               \/ Win5!BeginActivate
               \/ \E n \in Member : Win5!SettleRefund(n)
               \/ \E q \in Win5!Process : Win5!Abort(q)
        PROVE  pass'[m] = pass[m]
    BY <1>9
    DEF Win5!ChangeRace, Win5!ConfirmRace, Win5!SaveLeg, Win5!SaveProduct, Win5!Preview, Win5!Tick,
        Win5!vars, Win5!BeginActivate,
                Win5!SettleRefund, Win5!Abort, Win5!sales
  <1>10. ASSUME NEW q \in Request,
                \/ \E p \in win5Previews : Win5!BeginPublish(q, p)
                \/ \E n \in Member : \/ \E source \in {"PURCHASE", "REFERRAL_REWARD"} : Win5!BeginBuy(q, n, source)
                                     \/ Win5!HearRefund(q, n)
                \/ Win5!InsertVersion(q) \/ Win5!CallRefund(q)
                \/ Win5!BeginImport(q) \/ Win5!CommitImport(q) \/ Win5!BeginConfirm(q)
                \/ Win5!CommitConfirm(q)
         PROVE  pass'[m] = pass[m]
    BY <1>10
    DEF Win5!BeginPublish, Win5!BeginBuy, Win5!HearRefund, Win5!InsertVersion, Win5!CallRefund,
        Win5!BeginImport,
                 Win5!CommitImport, Win5!BeginConfirm, Win5!CommitConfirm, Win5!sales
  <1>11. QED
    BY <1>3, <1>4, <1>5, <1>6, <1>7, <1>8, <1>9, <1>10 DEF Win5!Next, Win5!Commit

\* A pass that is in use is neither closed nor started again, and a refunded one
\* is not opened, though refunds, events and starts act on what they read before.
THEOREM PassesSettleCorrect ==
    ASSUME Win5!ConstantsAssumption
    PROVE  Win5!Spec => [][PassesSettle]_Win5!vars
  <1>1. DayInv /\ SalesInv /\ [Win5!Next]_Win5!vars => [PassesSettle]_Win5!vars
    BY PassesSettleStep
  <1>2. QED
    BY <1>1, Win5Init, DayStep, SalesInit, SalesStep, PTL DEF Win5!Spec

\* The worker's query finds every pass that still waits on its day: what is
\* started or refunded is no longer pending, and what is pending has no start.
THEOREM PendingIsDueCorrect ==
    ASSUME Win5!ConstantsAssumption
    PROVE  Win5!Spec => [](win5Now \in DayStart .. DayEnd - 1 =>
                             \A m \in Member : pass[m].status = "PENDING" => m \in Win5!Due)
  <1> DEFINE Found == win5Now \in DayStart .. DayEnd - 1 =>
                         \A m \in Member : pass[m].status = "PENDING" => m \in Win5!Due
  <1>1. SalesInv => Found
    BY DEF Win5!ConstantsAssumption, SalesInv, PassKept, Win5!Due, Win5!Pending
  <1>2. QED
    BY <1>1, Win5Init, DayStep, SalesInit, SalesStep, PTL DEF Win5!Spec

-----------------------------------------------------------------------------
(***************************************************************************)
(* The evaluations are a reviewed ledger.                                  *)
(***************************************************************************)
LEMMA Win5LedgerInit == Win5!Init => EvaluationLedger!Init
  BY DEF Win5!Init, EvaluationLedger!Init

\* An import is a save, a confirmation that its sources allow takes over what
\* stands in the draft, and every other step changes neither.
LEMMA Win5LedgerStep ==
    DayInv
        /\ [Win5!Next]_Win5!vars
             => [EvaluationLedger!Save \/ EvaluationLedger!Confirm]_<<win5Saved, evaluations>>
  <1> SUFFICES ASSUME DayInv, [Win5!Next]_Win5!vars
               PROVE  EvaluationLedger!Save \/ EvaluationLedger!Confirm
                   \/ UNCHANGED <<win5Saved, evaluations>>
    OBVIOUS
  <1>1. Win5!TypeOK /\ ConfirmHeld /\ Request \subseteq Win5!Process
    BY DEF DayInv, Win5!Process
  <1>2. ASSUME NEW q \in Request, Win5!CommitImport(q) PROVE EvaluationLedger!Save
    <2>1. win5Request[q].content \in EvaluationRow
      <3>1. Win5!EvaluationRow = EvaluationRow
        BY DEF Win5!EvaluationRow, Win5!UpTo, EvaluationRow, UpTo
      <3>2. QED
        BY <1>1, <1>2, <3>1, Win5DoingTyped DEF Win5!CommitImport
    <2>2. QED
      BY <1>2, <2>1 DEF Win5!CommitImport, EvaluationLedger!Save
  <1>3. ASSUME NEW q \in Request, Win5!CommitConfirm(q)
        PROVE  EvaluationLedger!Confirm \/ UNCHANGED <<win5Saved, evaluations>>
    <2>1. /\ win5Saved # <<>> /\ win5Request[q].content = win5Saved[Len(win5Saved)]
          /\ \A i \in DOMAIN evaluations : evaluations[i].source # Len(win5Saved)
      BY <1>1, <1>3 DEF Win5!CommitConfirm, ConfirmHeld
    <2>2. Len(win5Saved) > 0
      BY <1>1, <2>1 DEF Win5!TypeOK
    <2>3. CASE Win5!SourcesLatest(win5Request[q].content)
      BY <1>3, <2>1, <2>2, <2>3 DEF Win5!CommitConfirm, EvaluationLedger!Confirm
    <2>4. CASE ~Win5!SourcesLatest(win5Request[q].content)
      BY <1>3, <2>4 DEF Win5!CommitConfirm
    <2>5. QED
      BY <2>3, <2>4
  <1>4. ASSUME \/ \E l \in Leg :
                     \/ \E start \in {FirstRace, FirstRace - 1}, status \in {"SCHEDULED", "DELAYED"} :
                           Win5!ChangeRace(l, start, status)
                     \/ \E winner \in Horse \cup {Win5!NoOne} : Win5!ConfirmRace(l, winner)
                     \/ \E horses \in (SUBSET Horse) \ {{}} : Win5!SaveLeg(l, horses)
               \/ Win5!SaveProduct \/ Win5!Preview \/ Win5!Tick \/ UNCHANGED Win5!vars
               \/ Win5!BeginActivate \/ Win5!CommitActivate
               \/ \E n \in Member : Win5!SettleRefund(n)
               \/ \E q \in Win5!Process : Win5!Abort(q)
        PROVE  UNCHANGED <<win5Saved, evaluations>>
    BY <1>4
    DEF Win5!ChangeRace, Win5!ConfirmRace, Win5!SaveLeg, Win5!SaveProduct, Win5!Preview, Win5!Tick,
        Win5!vars, Win5!BeginActivate,
                Win5!CommitActivate, Win5!SettleRefund, Win5!Abort, Win5!outcome
  <1>5. ASSUME NEW q \in Request,
               \/ \E p \in win5Previews : Win5!BeginPublish(q, p)
               \/ \E n \in Member :
                     \/ \E source \in {"PURCHASE", "REFERRAL_REWARD"} : Win5!BeginBuy(q, n, source)
                     \/ Win5!ReserveRefund(q, n) \/ Win5!HearRefund(q, n)
               \/ Win5!InsertVersion(q) \/ Win5!CommitPublish(q) \/ Win5!CommitBuy(q)
               \/ Win5!CallRefund(q)
               \/ Win5!FinishRefund(q) \/ Win5!CommitHear(q) \/ Win5!BeginImport(q)
               \/ Win5!BeginConfirm(q)
        PROVE  UNCHANGED <<win5Saved, evaluations>>
    BY <1>5
    DEF Win5!BeginPublish, Win5!BeginBuy, Win5!ReserveRefund, Win5!HearRefund, Win5!InsertVersion,
        Win5!CommitPublish,
                Win5!CommitBuy, Win5!CallRefund, Win5!FinishRefund, Win5!CommitHear,
                Win5!BeginImport, Win5!BeginConfirm, Win5!outcome
  <1>6. QED
    BY <1>2, <1>3, <1>4, <1>5 DEF Win5!Next, Win5!Commit

\* An evaluation takes over one saved revision as it stands, once, although
\* results are corrected and versions published while it is confirmed.
THEOREM EvaluationsAreReviewedCorrect ==
    ASSUME Win5!ConstantsAssumption
    PROVE  Win5!Spec => EvaluationsAreReviewed
  BY Win5Init, DayStep, Win5LedgerInit, Win5LedgerStep, PTL
     DEF Win5!Spec, EvaluationsAreReviewed, EvaluationLedger!Spec
=============================================================================

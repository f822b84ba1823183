------------------------ MODULE RaceDocumentsProofs ------------------------
(***************************************************************************)
(* Theorems about RaceDocuments, for any races and times of their start.   *)
(***************************************************************************)
EXTENDS RaceDocuments, WellFoundedInduction, TLAPS

-----------------------------------------------------------------------------
(***************************************************************************)
(* Times.                                                                  *)
(***************************************************************************)

\* Of any times there is a soonest.
LEMMA SoonestIs ==
    ASSUME NEW times \in SUBSET Nat, times # {}
    PROVE  Soonest(times) \in times /\ \A t \in times : Soonest(times) <= t
  <1> DEFINE less == {ss \in Nat \X Nat : ss[1] < ss[2]}
  <1>1. IsWellFoundedOn(less, Nat)
    BY NatLessThanWellFounded DEF OpToRel
  <1>2. \A t, u \in Nat : t < u => <<t, u>> \in less
    OBVIOUS
  <1> HIDE DEF less
  <1>3. PICK t \in times : \A u \in times : ~ (<<u, t>> \in less)
    BY <1>1, WFMin
  <1>4. ASSUME NEW u \in times PROVE t <= u
    <2>1. ~ (<<u, t>> \in less)
      BY <1>3
    <2>2. t \in Nat /\ u \in Nat
      OBVIOUS
    <2>3. ~ (u < t)
      BY <1>2, <2>1, <2>2
    <2>4. QED
      BY <2>2, <2>3
  <1>5. QED
    BY <1>4 DEF Soonest

\* What is known of a version's row.
LEMMA VersionTyped ==
    ASSUME TypeOK, NEW i \in DOMAIN paperVersions
    PROVE  /\ paperVersions[i].draft \in SUBSET Race
           /\ paperVersions[i].deadline \in Nat /\ paperVersions[i].at \in Nat
  BY DEF TypeOK, PapersTyped, VersionRow

\* What is known of a preview's row.
LEMMA PreviewTyped ==
    ASSUME TypeOK, NEW p \in paperPreviews
    PROVE  \E draft \in (SUBSET Race) \ {{}}, prior \in SUBSET Race :
               /\ p \in PreviewRow(draft, prior)
               /\ p.base.paper.draft = draft /\ p.base.paper.revision > 0
               /\ DOMAIN p.base.prior = prior
  <1>1. PICK draft \in (SUBSET Race) \ {{}}, prior \in SUBSET Race : p \in PreviewRow(draft, prior)
    BY DEF TypeOK, PapersTyped
  <1>2. /\ p.base.paper \in [revision : Nat \ {0}, draft : {draft}]
        /\ p.base.prior \in [prior -> [startsAt : Nat, status : Status]]
    BY <1>1 DEF PreviewRow
  <1>3. QED
    BY <1>1, <1>2

\* A preview that became a version is still a preview.
LEMMA PreviewUsed ==
    ASSUME NEW draft, NEW prior, NEW p \in PreviewRow(draft, prior), NEW n \in Nat
    PROVE  /\ [p EXCEPT !.version = n] \in PreviewRow(draft, prior)
           /\ [p EXCEPT !.version = n].version = n
           /\ [p EXCEPT !.version = n].base = p.base
           /\ [p EXCEPT !.version = n].snapshot = p.snapshot
           /\ [p EXCEPT !.version = n].deadline = p.deadline
           /\ [p EXCEPT !.version = n].next = p.next
  BY DEF PreviewRow

\* The races of versions are races.
LEMMA CoveredTyped ==
    ASSUME TypeOK
    PROVE  Prior \in SUBSET Race /\ Covered \in SUBSET Race
  <1>1. Prior \in SUBSET Race
    BY VersionTyped DEF Prior
  <1>2. QED
    BY <1>1 DEF Covered, TypeOK, PapersTyped

\* The end of corrections comes no later than any start it looks at, nor than
\* any version said.
LEMMA DeadlineIs ==
    ASSUME TypeOK, paper.draft # {}
    PROVE  /\ Deadline \in Nat
           /\ \A i \in DOMAIN paperVersions : Deadline <= paperVersions[i].deadline
  <1> DEFINE times == {race[r].startsAt : r \in Covered} \cup
                      {paperVersions[i].deadline : i \in DOMAIN paperVersions}
  <1>1. times \in SUBSET Nat
    <2>1. \A r \in Covered : race[r].startsAt \in Nat
      BY CoveredTyped DEF TypeOK, RacesTyped, RaceRow
    <2>2. QED
      BY <2>1, VersionTyped
  <1>2. times # {}
    BY DEF Covered
  <1>3. \A i \in DOMAIN paperVersions : paperVersions[i].deadline \in times
    OBVIOUS
  <1>4. Deadline = Soonest(times)
    BY DEF Deadline
  <1> HIDE DEF times
  <1>5. QED
    BY <1>1, <1>2, <1>3, <1>4, SoonestIs

-----------------------------------------------------------------------------
(***************************************************************************)
(* Type correctness.                                                       *)
(***************************************************************************)

\* At first nothing is written.
LEMMA TypeInit == Init => TypeOK
  BY DocumentsAssumption
  DEF Init, TypeOK, RacesTyped, PapersTyped, GuidesTyped, RaceRow, Status, Entry, Guide

\* What a preview keeps of the races.
LEMMA FingerprintTyped ==
    ASSUME TypeOK, paper.revision > 0
    PROVE  Fingerprint \in [paper : [revision : Nat \ {0}, draft : {paper.draft}], latest : Nat,
                            races : [paper.draft -> RaceRow],
                            prior : [Prior -> [startsAt : Nat, status : Status]]]
  <1>1. paper \in [revision : Nat \ {0}, draft : {paper.draft}]
    BY DEF TypeOK, RacesTyped, PapersTyped
  <1>2. Len(paperVersions) \in Nat
    BY DEF TypeOK, RacesTyped, PapersTyped
  <1>3. ASSUME NEW r \in Race
        PROVE  [race[r] EXCEPT !.revision = 0] \in RaceRow
    BY DEF TypeOK, RacesTyped, RaceRow
  <1>4. [r \in paper.draft |-> [race[r] EXCEPT !.revision = 0]] \in [paper.draft -> RaceRow]
    BY <1>3 DEF TypeOK, RacesTyped, PapersTyped
  <1>5. [r \in Prior |-> [startsAt |-> race[r].startsAt, status |-> race[r].status]]
            \in [Prior -> [startsAt : Nat, status : Status]]
    BY CoveredTyped DEF TypeOK, RacesTyped, RaceRow
  <1>6. QED
    BY <1>1, <1>2, <1>4, <1>5 DEF Fingerprint

\* What is shown of the races.
LEMMA SnapshotTyped == ASSUME TypeOK PROVE Snapshot \in Pages(paper.draft)
  <1>1. \A r \in paper.draft : race[r] \in RaceRow
    BY DEF TypeOK, RacesTyped, PapersTyped
  <1>2. QED
    BY <1>1 DEF RaceRow, Snapshot, Pages

\* Steps that leave the papers alone keep their types.
LEMMA PapersKept == ASSUME PapersTyped, UNCHANGED papers PROVE PapersTyped'
  <1>1. UNCHANGED <<paper, paperPreviews, paperVersions>>
    BY DEF papers
  <1>2. QED
    BY <1>1 DEF PapersTyped

\* The same of the guides.
LEMMA GuidesKept == ASSUME GuidesTyped, UNCHANGED guided PROVE GuidesTyped'
  BY DEF GuidesTyped, guided

\* Each field of a race may be written, and its revision counted on.
LEMMA FieldsTyped ==
    ASSUME NEW row \in RaceRow, NEW start \in Nat, NEW status \in Status, NEW e \in Entry
    PROVE  /\ [row EXCEPT !.startsAt = start] \in RaceRow
           /\ [row EXCEPT !.status = status] \in RaceRow
           /\ [row EXCEPT !.entry = e] \in RaceRow
           /\ [row EXCEPT !.revision = @ + 1] \in RaceRow
  BY DEF RaceRow

\* A race that is edited, or given a result, is still a race.
LEMMA EditedTyped ==
    ASSUME NEW row \in RaceRow, NEW start \in Nat, NEW status \in Status, NEW e \in Entry
    PROVE  /\ [row EXCEPT !.startsAt = start, !.status = status, !.revision = @ + 1] \in RaceRow
           /\ [row EXCEPT !.status = status, !.revision = @ + 1] \in RaceRow
           /\ [row EXCEPT !.entry = e, !.revision = @ + 1] \in RaceRow
  <1>1. PICK moved, ended, put, both :
            /\ moved = [row EXCEPT !.startsAt = start] /\ ended = [row EXCEPT !.status = status]
            /\ put = [row EXCEPT !.entry = e] /\ both = [moved EXCEPT !.status = status]
    OBVIOUS
  <1>2. moved \in RaceRow /\ ended \in RaceRow /\ put \in RaceRow
    BY <1>1, FieldsTyped
  <1>3. both \in RaceRow
    BY <1>1, <1>2, FieldsTyped
  <1>4. /\ [both EXCEPT !.revision = @ + 1] \in RaceRow
        /\ [ended EXCEPT !.revision = @ + 1] \in RaceRow
        /\ [put EXCEPT !.revision = @ + 1] \in RaceRow
    BY <1>2, <1>3, FieldsTyped
  <1>5. QED
    BY <1>1, <1>4

\* Every step keeps the races' types.
LEMMA RacesStep == ASSUME TypeOK, [Next]_vars PROVE RacesTyped'
  <1>1. /\ race \in [Race -> RaceRow] /\ now \in Nat /\ bound \in DocumentBounds
        /\ bound.races \subseteq Race /\ FirstStart \in Nat
    BY DocumentsAssumption DEF TypeOK, RacesTyped
  <1>2. {"SCHEDULED", "DELAYED", "CANCELLED", "FINISHED", "CANCELED"} \subseteq Status
    BY DEF Status
  <1>3. ASSUME NEW r \in bound.races, NEW start \in 1 .. FirstStart + 1,
               NEW status \in {"SCHEDULED", "DELAYED", "CANCELLED"}, EditRace(r, start, status)
        PROVE  RacesTyped'
    <2>1. race[r] \in RaceRow /\ start \in Nat /\ status \in Status
      BY <1>1, <1>2
    <2>2. race' = [race EXCEPT ![r] = [race[r] EXCEPT !.startsAt = start, !.status = status,
                                                       !.revision = @ + 1]]
      BY <1>1, <1>3 DEF EditRace, RaceRow
    <2>3. PICK e \in Entry : TRUE
      BY DEF Entry
    <2>4. race' \in [Race -> RaceRow]
      BY <1>1, <2>1, <2>2, <2>3, EditedTyped
    <2>5. QED
      BY <1>1, <1>3, <2>4 DEF EditRace, RacesTyped
  <1>4. ASSUME NEW r \in bound.races, NEW e \in {"ACTIVE", "SCRATCHED", "RENAMED"}, EditEntry(r, e)
        PROVE  RacesTyped'
    <2>1. race[r] \in RaceRow /\ e \in Entry /\ "FINISHED" \in Status /\ 0 \in Nat
      BY <1>1, <1>2 DEF Entry
    <2>2. race' = [race EXCEPT ![r] = [race[r] EXCEPT !.entry = e, !.revision = @ + 1]]
      BY <1>1, <1>4 DEF EditEntry, RaceRow
    <2>3. race' \in [Race -> RaceRow]
      BY <1>1, <2>1, <2>2, EditedTyped
    <2>4. QED
      BY <1>1, <1>4, <2>3 DEF EditEntry, RacesTyped
  <1>5. ASSUME NEW r \in bound.races, NEW status \in {"FINISHED", "CANCELED"}, ConfirmResult(r, status)
        PROVE  RacesTyped'
    <2>1. race[r] \in RaceRow /\ status \in Status /\ "ACTIVE" \in Entry /\ 0 \in Nat
      BY <1>1, <1>2 DEF Entry
    <2>2. race' = [race EXCEPT ![r] = [race[r] EXCEPT !.status = status, !.revision = @ + 1]]
      BY <1>1, <1>5 DEF ConfirmResult, RaceRow
    <2>3. race' \in [Race -> RaceRow]
      BY <1>1, <2>1, <2>2, EditedTyped
    <2>4. QED
      BY <1>1, <1>5, <2>3 DEF ConfirmResult, RacesTyped
  <1>6. ASSUME UNCHANGED <<race, bound>>, now' = now \/ now' = now + 1 PROVE RacesTyped'
    BY <1>1, <1>6 DEF RacesTyped
  <1>7. ASSUME \/ \E d \in SUBSET Race : SavePaper(d)
               \/ PreviewPaper \/ \E p \in paperPreviews : PublishPaper(p)
               \/ \E valid \in BOOLEAN : Generate(valid)
               \/ \E g \in DOMAIN generations : Approve(g) \/ PublishGuide(g)
               \/ Tick \/ UNCHANGED vars
        PROVE  RacesTyped'
    <2>1. UNCHANGED <<race, bound>> /\ (now' = now \/ now' = now + 1)
      BY <1>7 DEF SavePaper, PreviewPaper, PublishPaper, Generate, Approve, PublishGuide, Tick, vars
    <2>2. QED
      BY <1>6, <2>1
  <1> QED
    BY <1>3, <1>4, <1>5, <1>7 DEF Next

\* A sequence is one over any set that has its elements.
LEMMA SeqOver ==
    ASSUME NEW S, NEW s \in Seq(S), NEW T, \A i \in 1 .. Len(s) : s[i] \in T
    PROVE  s \in Seq(T)
  OBVIOUS

\* What a sequence holds is of its set.
LEMMA ElementOf ==
    ASSUME NEW S, NEW s \in Seq(S), NEW i \in DOMAIN s
    PROVE  s[i] \in S
  OBVIOUS

\* What is known of the paper's row.
LEMMA PaperIs ==
    ASSUME TypeOK
    PROVE  /\ paper \in [revision : Nat, draft : SUBSET Race]
           /\ paper.revision > 0 => paper.draft # {}
           /\ now \in Nat
  BY DEF TypeOK, PapersTyped, RacesTyped

\* A new version takes its place after the others.
LEMMA VersionAdded ==
    ASSUME TypeOK, NEW v, paperVersions' = Append(paperVersions, v)
    PROVE  /\ Len(paperVersions) \in Nat /\ DOMAIN paperVersions = 1 .. Len(paperVersions)
           /\ DOMAIN paperVersions' = 1 .. Len(paperVersions) + 1
           /\ Len(paperVersions') = Len(paperVersions) + 1
           /\ paperVersions'[Len(paperVersions) + 1] = v
           /\ \A i \in DOMAIN paperVersions : paperVersions'[i] = paperVersions[i]
           /\ paperVersions' \in Seq({paperVersions'[i] : i \in DOMAIN paperVersions'})
  <1> DEFINE old == {paperVersions[i] : i \in DOMAIN paperVersions}
             new == {paperVersions'[i] : i \in DOMAIN paperVersions'}
  <1>1. paperVersions \in Seq(old)
    BY DEF TypeOK, PapersTyped
  <1> HIDE DEF old
  <1>2. paperVersions \in Seq(old \cup {v})
    BY <1>1
  <1>3. /\ Len(paperVersions) \in Nat /\ DOMAIN paperVersions = 1 .. Len(paperVersions)
        /\ Len(paperVersions') = Len(paperVersions) + 1
        /\ paperVersions' \in Seq(old \cup {v})
        /\ paperVersions'[Len(paperVersions) + 1] = v
        /\ \A i \in 1 .. Len(paperVersions) : paperVersions'[i] = paperVersions[i]
    <2>1. v \in old \cup {v}
      OBVIOUS
    <2>2. QED
      BY <1>2, <2>1
  <1>4. DOMAIN paperVersions' = 1 .. Len(paperVersions')
    BY <1>3
  <1>5. \A i \in 1 .. Len(paperVersions') : paperVersions'[i] \in new
    BY <1>4
  <1> HIDE DEF new
  <1>6. paperVersions' \in Seq(new)
    BY <1>3, <1>5, SeqOver
  <1>7. QED
    BY <1>3, <1>4, <1>6 DEF new

\* What a publication adds is a version, and what it leaves of the preview is
\* still a preview of the same races.
LEMMA PublicationTyped ==
    ASSUME TypeOK, NEW p \in paperPreviews, PublishPaper(p)
    PROVE  /\ p.next \in Nat
           /\ p.base.paper = paper /\ paper.draft # {}
           /\ p.base.latest = Len(paperVersions)
           /\ [draft |-> paper.draft, snapshot |-> Snapshot, deadline |-> Deadline,
               at |-> now, number |-> p.next] \in VersionRow(paper.draft)
           /\ \E draft \in (SUBSET Race) \ {{}}, prior \in SUBSET Race :
                  p \in PreviewRow(draft, prior) /\ [p EXCEPT !.version = p.next] \in PreviewRow(draft, prior)
  <1>1. PICK draft \in (SUBSET Race) \ {{}}, prior \in SUBSET Race :
            p \in PreviewRow(draft, prior) /\ p.base.paper.draft = draft
    BY PreviewTyped
  <1>2. p.next \in Nat
    BY <1>1 DEF PreviewRow
  <1>3. p.base = Fingerprint
    BY DEF PublishPaper
  <1>4. p.base.paper = paper /\ p.base.latest = Len(paperVersions)
    BY <1>3 DEF Fingerprint
  <1>5. now \in Nat
    BY DEF TypeOK, RacesTyped
  <1>6. paper.draft # {}
    BY <1>1, <1>4
  <1>7. Snapshot \in Pages(paper.draft) /\ Deadline \in Nat
    BY <1>6, SnapshotTyped, DeadlineIs
  <1>8. [draft |-> paper.draft, snapshot |-> Snapshot, deadline |-> Deadline,
         at |-> now, number |-> p.next] \in VersionRow(paper.draft)
    BY <1>2, <1>5, <1>7 DEF VersionRow
  <1>9. [p EXCEPT !.version = p.next] \in PreviewRow(draft, prior)
    BY <1>1, <1>2, PreviewUsed
  <1>10. QED
    BY <1>1, <1>2, <1>4, <1>6, <1>8, <1>9

\* Every step keeps the papers' types.
LEMMA PapersStep == ASSUME TypeOK, [Next]_vars PROVE PapersTyped'
  <1>1. ASSUME NEW d \in SUBSET Race, SavePaper(d) PROVE PapersTyped'
    <2>1. paper' \in [revision : Nat, draft : SUBSET Race] /\ paper'.draft # {}
      BY <1>1 DEF SavePaper, TypeOK, PapersTyped
    <2>2. UNCHANGED <<paperPreviews, paperVersions>>
      BY <1>1 DEF SavePaper
    <2>3. QED
      BY <2>1, <2>2 DEF TypeOK, PapersTyped
  <1>2. ASSUME PreviewPaper PROVE PapersTyped'
    <2> DEFINE p == [base |-> Fingerprint, snapshot |-> Snapshot, deadline |-> Deadline,
                     next |-> Len(paperVersions) + 1, until |-> now + 1, version |-> 0]
    <2>1. paper.revision > 0 /\ paper.draft \in (SUBSET Race) \ {{}}
      BY <1>2, PaperIs DEF PreviewPaper
    <2>2. Len(paperVersions) + 1 \in Nat /\ now + 1 \in Nat /\ 0 \in Nat
      BY DEF TypeOK, RacesTyped, PapersTyped
    <2>3. p \in PreviewRow(paper.draft, Prior)
      <3>1. paper.draft # {}
        BY <2>1
      <3>2. Snapshot \in Pages(paper.draft) /\ Deadline \in Nat
        BY <3>1, SnapshotTyped, DeadlineIs
      <3>3. Fingerprint \in [paper : [revision : Nat \ {0}, draft : {paper.draft}], latest : Nat,
                            races : [paper.draft -> RaceRow],
                            prior : [Prior -> [startsAt : Nat, status : Status]]]
        BY <2>1, FingerprintTyped
      <3>4. QED
        BY <2>2, <3>2, <3>3 DEF PreviewRow
    <2>4. paperPreviews' = paperPreviews \cup {p} /\ UNCHANGED <<paper, paperVersions>>
      BY <1>2 DEF PreviewPaper
    <2> HIDE DEF p
    <2>5. \A x \in paperPreviews' : \E draft \in (SUBSET Race) \ {{}}, prior \in SUBSET Race :
              x \in PreviewRow(draft, prior)
      BY <2>1, <2>3, <2>4, CoveredTyped DEF TypeOK, PapersTyped
    <2>6. QED
      BY <2>4, <2>5 DEF TypeOK, PapersTyped
  <1>3. ASSUME NEW p \in paperPreviews, PublishPaper(p) PROVE PapersTyped'
    <2>1. PICK v : /\ v = [draft |-> paper.draft, snapshot |-> Snapshot, deadline |-> Deadline,
                           at |-> now, number |-> p.next]
      OBVIOUS
    <2>2. PICK used : used = [p EXCEPT !.version = p.next]
      OBVIOUS
    <2>3. /\ paperVersions' = Append(paperVersions, v) /\ paperPreviews' = (paperPreviews \ {p}) \cup {used}
          /\ UNCHANGED paper
      BY <1>3, <2>1, <2>2 DEF PublishPaper
    <2>4. \A x \in paperPreviews' : \E draft \in (SUBSET Race) \ {{}}, prior \in SUBSET Race :
              x \in PreviewRow(draft, prior)
      <3>1. \E draft \in (SUBSET Race) \ {{}}, prior \in SUBSET Race : used \in PreviewRow(draft, prior)
        BY <1>3, <2>2, PublicationTyped
      <3>2. QED
        BY <2>3, <3>1 DEF TypeOK, PapersTyped
    <2>5. v \in VersionRow(paper.draft) /\ paper.draft \in SUBSET Race
      BY <1>3, <2>1, PublicationTyped DEF TypeOK, PapersTyped
    <2>6. \A i \in DOMAIN paperVersions' : \E draft \in SUBSET Race : paperVersions'[i] \in VersionRow(draft)
      <3>1. \A i \in DOMAIN paperVersions : \E draft \in SUBSET Race : paperVersions[i] \in VersionRow(draft)
        BY DEF TypeOK, PapersTyped
      <3>2. \A i \in DOMAIN paperVersions' : i \in DOMAIN paperVersions \/ i = Len(paperVersions) + 1
        BY <2>3, VersionAdded
      <3>3. QED
        BY <2>3, <2>5, <3>1, <3>2, VersionAdded
    <2>7. paperVersions' \in Seq({paperVersions'[i] : i \in DOMAIN paperVersions'})
      BY <2>3, VersionAdded
    <2>8. QED
      BY <2>3, <2>4, <2>6, <2>7 DEF TypeOK, PapersTyped
  <1>4. ASSUME \/ \E r \in bound.races :
                   \/ \E start \in 1 .. FirstStart + 1, status \in {"SCHEDULED", "DELAYED", "CANCELLED"} :
                          EditRace(r, start, status)
                   \/ \E e \in {"ACTIVE", "SCRATCHED", "RENAMED"} : EditEntry(r, e)
                   \/ \E status \in {"FINISHED", "CANCELED"} : ConfirmResult(r, status)
               \/ \E valid \in BOOLEAN : Generate(valid)
               \/ \E g \in DOMAIN generations : Approve(g) \/ PublishGuide(g)
               \/ Tick \/ UNCHANGED vars
        PROVE  PapersTyped'
    <2>1. UNCHANGED papers
      BY <1>4 DEF EditRace, EditEntry, ConfirmResult, Generate, Approve, PublishGuide, Tick, vars
    <2>2. QED
      BY <2>1, PapersKept DEF TypeOK
  <1> QED
    BY <1>1, <1>2, <1>3, <1>4 DEF Next

\* A guide that is approved or published is still a guide.
LEMMA GuideTyped ==
    ASSUME TypeOK, NEW status \in Guide
    PROVE  [guide EXCEPT !.status = status, !.revision = @ + 1]
               \in [status : Guide, revision : Nat, latest : 0 .. Len(generations)]
  <1>1. guide \in [status : Guide, revision : Nat, latest : 0 .. Len(generations)]
    BY DEF TypeOK, GuidesTyped
  <1>2. PICK stands : stands = [guide EXCEPT !.status = status]
    OBVIOUS
  <1>3. stands \in [status : Guide, revision : Nat, latest : 0 .. Len(generations)]
    BY <1>1, <1>2
  <1>4. [stands EXCEPT !.revision = @ + 1]
            \in [status : Guide, revision : Nat, latest : 0 .. Len(generations)]
    BY <1>3
  <1>5. QED
    BY <1>2, <1>4

\* Every step keeps the guides' types.
LEMMA GuidesStep == ASSUME TypeOK, [Next]_vars PROVE GuidesTyped'
  <1>1. /\ guide \in [status : Guide, revision : Nat, latest : 0 .. Len(generations)]
        /\ generations \in Seq([revision : Nat, valid : BOOLEAN]) /\ Len(generations) \in Nat
        /\ guides \in Seq(Publication) /\ approvals \subseteq Publication
        /\ Current.revision \in Nat
    BY DocumentsAssumption DEF TypeOK, GuidesTyped, RacesTyped, RaceRow, Current
  <1>2. ASSUME NEW valid \in BOOLEAN, Generate(valid) PROVE GuidesTyped'
    <2>1. /\ generations' \in Seq([revision : Nat, valid : BOOLEAN])
          /\ Len(generations') = Len(generations) + 1
      BY <1>1, <1>2 DEF Generate
    <2>2. guide' \in [status : Guide, revision : Nat, latest : 0 .. Len(generations')]
      BY <1>1, <1>2, <2>1 DEF Generate, StatusOf, Guide
    <2>3. QED
      BY <1>1, <1>2, <2>1, <2>2 DEF Generate, GuidesTyped
  <1>3. ASSUME NEW g \in DOMAIN generations, Approve(g) PROVE GuidesTyped'
    <2>1. g \in Nat
      BY <1>1
    <2>2. guide' \in [status : Guide, revision : Nat, latest : 0 .. Len(generations)]
      BY <1>3, GuideTyped DEF Approve, Guide
    <2>3. approvals' \subseteq Publication
      BY <1>1, <1>3, <2>1 DEF Approve, Publication
    <2>4. QED
      BY <1>1, <1>3, <2>2, <2>3 DEF Approve, GuidesTyped
  <1>4. ASSUME NEW g \in DOMAIN generations, PublishGuide(g) PROVE GuidesTyped'
    <2>1. [generation |-> g, revision |-> Current.revision] \in Publication
      BY <1>1 DEF Publication
    <2>2. guide' \in [status : Guide, revision : Nat, latest : 0 .. Len(generations)]
      BY <1>4, GuideTyped DEF PublishGuide, Guide
    <2>3. guides' \in Seq(Publication)
      BY <1>1, <1>4, <2>1 DEF PublishGuide
    <2>4. QED
      BY <1>1, <1>4, <2>2, <2>3 DEF PublishGuide, GuidesTyped
  <1>5. ASSUME \/ \E r \in bound.races :
                   \/ \E start \in 1 .. FirstStart + 1, status \in {"SCHEDULED", "DELAYED", "CANCELLED"} :
                          EditRace(r, start, status)
                   \/ \E e \in {"ACTIVE", "SCRATCHED", "RENAMED"} : EditEntry(r, e)
                   \/ \E status \in {"FINISHED", "CANCELED"} : ConfirmResult(r, status)
               \/ \E d \in SUBSET Race : SavePaper(d)
               \/ PreviewPaper \/ \E p \in paperPreviews : PublishPaper(p)
               \/ Tick \/ UNCHANGED vars
        PROVE  GuidesTyped'
    <2>1. UNCHANGED guided
      BY <1>5 DEF EditRace, EditEntry, ConfirmResult, SavePaper, PreviewPaper, PublishPaper, Tick, vars
    <2>2. QED
      BY <2>1, GuidesKept DEF TypeOK
  <1> QED
    BY <1>2, <1>3, <1>4, <1>5 DEF Next

\* The variables of RaceDocuments hold values of their types.
THEOREM TypeCorrect == Spec => []TypeOK
  <1>1. TypeOK /\ [Next]_vars => TypeOK'
    BY RacesStep, PapersStep, GuidesStep DEF TypeOK
  <1>2. QED
    BY <1>1, TypeInit, PTL DEF Spec

-----------------------------------------------------------------------------
(***************************************************************************)
(* The corrections' end.                                                   *)
(***************************************************************************)

\* A publication comes before all that earlier versions said of the end, and
\* says nothing later.
LEMMA WindowStep == TypeOK /\ WindowNeverReopens /\ [Next]_vars => WindowNeverReopens'
  <1> SUFFICES ASSUME TypeOK, WindowNeverReopens, [Next]_vars PROVE WindowNeverReopens'
    OBVIOUS
  <1>1. ASSUME NEW p \in paperPreviews, PublishPaper(p) PROVE WindowNeverReopens'
    <2>1. PICK v : /\ paperVersions' = Append(paperVersions, v)
                   /\ v.at = now /\ v.deadline = Deadline
      BY <1>1 DEF PublishPaper
    <2>2. now < Deadline
      BY <1>1 DEF PublishPaper, PaperOpen
    <2>3. Deadline \in Nat /\ now \in Nat /\ \A i \in DOMAIN paperVersions : Deadline <= paperVersions[i].deadline
      BY <1>1, PublicationTyped, DeadlineIs, PaperIs
    <2>4. \A i \in DOMAIN paperVersions : paperVersions[i].deadline \in Nat
      BY VersionTyped
    <2>5. \A i \in DOMAIN paperVersions : now < paperVersions[i].deadline
      BY <2>2, <2>3, <2>4
    <2> HIDE DEF Deadline
    <2>6. /\ Len(paperVersions) \in Nat /\ DOMAIN paperVersions = 1 .. Len(paperVersions)
          /\ DOMAIN paperVersions' = 1 .. Len(paperVersions) + 1
          /\ paperVersions'[Len(paperVersions) + 1] = v
          /\ \A i \in DOMAIN paperVersions : paperVersions'[i] = paperVersions[i]
      BY <2>1, VersionAdded
    <2>7. ASSUME NEW i \in DOMAIN paperVersions', NEW j \in DOMAIN paperVersions', i <= j
          PROVE  paperVersions'[j].at < paperVersions'[i].deadline
                 /\ paperVersions'[j].deadline <= paperVersions'[i].deadline
      <3>1. CASE j \in DOMAIN paperVersions
        <4>1. i \in DOMAIN paperVersions
          BY <2>6, <2>7, <3>1
        <4>2. QED
          BY <2>6, <2>7, <3>1, <4>1 DEF WindowNeverReopens
      <3>2. CASE j = Len(paperVersions) + 1 /\ i \in DOMAIN paperVersions
        BY <2>1, <2>3, <2>5, <2>6, <3>2
      <3>3. CASE j = Len(paperVersions) + 1 /\ i = Len(paperVersions) + 1
        BY <2>1, <2>2, <2>3, <2>6, <3>3
      <3>4. QED
        BY <2>6, <3>1, <3>2, <3>3
    <2>8. QED
      BY <2>7 DEF WindowNeverReopens
  <1>2. CASE UNCHANGED paperVersions
    BY <1>2 DEF WindowNeverReopens
  <1>3. ASSUME ~ \E p \in paperPreviews : PublishPaper(p) PROVE UNCHANGED paperVersions
    BY <1>3 DEF Next, vars, papers, EditRace, EditEntry, ConfirmResult, SavePaper, PreviewPaper,
                Generate, Approve, PublishGuide, Tick
  <1> QED
    BY <1>1, <1>2, <1>3

\* Once a version said when corrections end, no later version comes after that
\* or says a later time, whatever is done to races and to the paper's draft.
THEOREM WindowNeverReopensCorrect == Spec => []WindowNeverReopens
  <1>1. Init => WindowNeverReopens
    BY DEF Init, WindowNeverReopens
  <1>2. Spec => []TypeOK
    BY TypeCorrect
  <1>3. QED
    BY <1>1, <1>2, WindowStep, PTL DEF Spec

-----------------------------------------------------------------------------
(***************************************************************************)
(* What is published of a paper is what its preview showed.  The preview   *)
(* keeps all that its pages and its deadline were computed from, and a     *)
(* publication goes through only if that is the same again.                *)
(***************************************************************************)

\* The end of the corrections as a preview of `base' computed it.
EndBy(base) ==
    Soonest({base.races[r].startsAt : r \in base.paper.draft} \cup
            {base.prior[r].startsAt : r \in DOMAIN base.prior} \cup
            {paperVersions[i].deadline : i \in 1 .. base.latest})

\* The pages that `base' makes.
PagesOf(base) ==
    [r \in base.paper.draft |-> [startsAt |-> base.races[r].startsAt, entry |-> base.races[r].entry]]

Shows(p) ==
    /\ p.base.latest \in 0 .. Len(paperVersions)
    /\ p.next = p.base.latest + 1
    /\ p.snapshot = PagesOf(p.base)
    /\ p.deadline = EndBy(p.base)

Became(p) ==
    /\ p.version \in DOMAIN paperVersions
    /\ paperVersions[p.version].snapshot = p.snapshot
    /\ paperVersions[p.version].deadline = p.deadline
    /\ paperVersions[p.version].number = p.version

PaperInv == \A p \in paperPreviews : Shows(p) /\ (p.version > 0 => Became(p))

\* What a fingerprint keeps is enough for the pages and the end.
LEMMA FingerprintSuffices ==
    ASSUME TypeOK
    PROVE  /\ Fingerprint.latest = Len(paperVersions)
           /\ PagesOf(Fingerprint) = Snapshot
           /\ EndBy(Fingerprint) = Deadline
  <1>1. PICK base : base = Fingerprint
    OBVIOUS
  <1>2. /\ base.latest = Len(paperVersions) /\ base.paper = paper
        /\ base.races = [r \in paper.draft |-> [race[r] EXCEPT !.revision = 0]]
        /\ base.prior = [r \in Prior |-> [startsAt |-> race[r].startsAt, status |-> race[r].status]]
    BY <1>1 DEF Fingerprint
  <1>3. ASSUME NEW r \in paper.draft
        PROVE  base.races[r].startsAt = race[r].startsAt /\ base.races[r].entry = race[r].entry
    <2>1. r \in Race
      BY PaperIs
    <2>2. race[r] \in RaceRow
      BY <2>1 DEF TypeOK, RacesTyped
    <2>3. base.races[r] = [race[r] EXCEPT !.revision = 0]
      BY <1>2
    <2>4. QED
      BY <2>2, <2>3 DEF RaceRow
  <1>4. DOMAIN base.prior = Prior /\ \A r \in Prior : base.prior[r].startsAt = race[r].startsAt
    BY <1>2
  <1>5. DOMAIN paperVersions = 1 .. Len(paperVersions)
    BY DEF TypeOK, PapersTyped
  <1>6. PagesOf(base) = Snapshot
    BY <1>2, <1>3 DEF PagesOf, Snapshot
  <1>7. {base.races[r].startsAt : r \in base.paper.draft} \cup
        {base.prior[r].startsAt : r \in DOMAIN base.prior} = {race[r].startsAt : r \in Covered}
    BY <1>2, <1>3, <1>4 DEF Covered
  <1>8. {paperVersions[i].deadline : i \in 1 .. base.latest} = {paperVersions[i].deadline : i \in DOMAIN paperVersions}
    BY <1>2, <1>5
  <1>9. EndBy(base) = Deadline
    BY <1>7, <1>8 DEF EndBy, Deadline
  <1>10. QED
    BY <1>1, <1>2, <1>6, <1>9

\* Versions that follow change nothing of what a preview shows or became.
LEMMA ShownStays ==
    ASSUME TypeOK, NEW v, paperVersions' = Append(paperVersions, v), NEW p
    PROVE  /\ Shows(p) => Shows(p)'
           /\ Became(p) => Became(p)'
  <1>1. /\ Len(paperVersions) \in Nat /\ DOMAIN paperVersions = 1 .. Len(paperVersions)
        /\ Len(paperVersions') = Len(paperVersions) + 1
        /\ DOMAIN paperVersions' = 1 .. Len(paperVersions) + 1
        /\ \A i \in DOMAIN paperVersions : paperVersions'[i] = paperVersions[i]
    BY VersionAdded
  <1>2. ASSUME Shows(p) PROVE Shows(p)'
    <2>1. p.base.latest \in 0 .. Len(paperVersions)
      BY <1>2 DEF Shows
    <2>2. p.base.latest \in 0 .. Len(paperVersions')
      BY <1>1, <2>1
    <2>3. \A i \in 1 .. p.base.latest : paperVersions'[i] = paperVersions[i]
      BY <1>1, <2>1
    <2>4. EndBy(p.base)' = EndBy(p.base)
      BY <2>3 DEF EndBy
    <2>5. QED
      BY <1>2, <2>2, <2>4 DEF Shows, PagesOf
  <1>3. ASSUME Became(p) PROVE Became(p)'
    BY <1>1, <1>3 DEF Became
  <1>4. QED
    BY <1>2, <1>3

\* Steps that leave previews and versions alone.
LEMMA PaperFrame == ASSUME PaperInv, UNCHANGED <<paperPreviews, paperVersions>> PROVE PaperInv'
  <1>1. \A p : Shows(p)' = Shows(p) /\ Became(p)' = Became(p)
    BY DEF Shows, Became, EndBy, PagesOf
  <1>2. QED
    BY <1>1 DEF PaperInv

\* Previews keep what they show, and become it.
LEMMA PaperStep == TypeOK /\ PaperInv /\ [Next]_vars => PaperInv'
  <1> SUFFICES ASSUME TypeOK, PaperInv, [Next]_vars PROVE PaperInv'
    OBVIOUS
  <1>1. ASSUME PreviewPaper PROVE PaperInv'
    <2>1. PICK p : p = [base |-> Fingerprint, snapshot |-> Snapshot, deadline |-> Deadline,
                        next |-> Len(paperVersions) + 1, until |-> now + 1, version |-> 0]
      OBVIOUS
    <2>2. paperPreviews' = paperPreviews \cup {p} /\ UNCHANGED paperVersions
      BY <1>1, <2>1 DEF PreviewPaper
    <2>3. Len(paperVersions) \in Nat
      BY DEF TypeOK, PapersTyped
    <2>4. Shows(p) /\ p.version = 0
      BY <2>1, <2>3, FingerprintSuffices DEF Shows
    <2>5. \A x : Shows(x)' = Shows(x) /\ Became(x)' = Became(x)
      BY <2>2 DEF Shows, Became, EndBy, PagesOf
    <2>6. QED
      BY <2>2, <2>4, <2>5 DEF PaperInv
  <1>2. ASSUME NEW p \in paperPreviews, PublishPaper(p) PROVE PaperInv'
    <2>1. PICK v : v = [draft |-> paper.draft, snapshot |-> Snapshot, deadline |-> Deadline,
                        at |-> now, number |-> p.next]
      OBVIOUS
    <2>2. PICK used : used = [p EXCEPT !.version = p.next]
      OBVIOUS
    <2>3. paperVersions' = Append(paperVersions, v) /\ paperPreviews' = (paperPreviews \ {p}) \cup {used}
      BY <1>2, <2>1, <2>2 DEF PublishPaper
    <2>4. p.base = Fingerprint /\ Shows(p)
      BY <1>2 DEF PublishPaper, PaperInv
    <2>5. /\ p.next = Len(paperVersions) + 1 /\ p.next \in Nat
          /\ p.snapshot = Snapshot /\ p.deadline = Deadline
      BY <1>2, <2>4, FingerprintSuffices, PublicationTyped DEF Shows
    <2>6. /\ used.version = p.next /\ used.base = p.base /\ used.snapshot = p.snapshot
          /\ used.deadline = p.deadline /\ used.next = p.next
      BY <1>2, <2>2, PublicationTyped, PreviewUsed
    <2>7. Shows(used)
      BY <2>4, <2>6 DEF Shows
    <2>8. v.snapshot = p.snapshot /\ v.deadline = p.deadline /\ v.number = p.next
      BY <2>1, <2>5
    <2>9. p.next \in DOMAIN paperVersions' /\ paperVersions'[p.next] = v
      BY <2>3, <2>5, VersionAdded
    <2>10. Became(used)'
      BY <2>6, <2>8, <2>9 DEF Became
    <2>11. \A x : (Shows(x) => Shows(x)') /\ (Became(x) => Became(x)')
      BY <2>3, ShownStays
    <2>12. QED
      BY <2>3, <2>7, <2>10, <2>11 DEF PaperInv
  <1>3. ASSUME ~PreviewPaper, ~ \E p \in paperPreviews : PublishPaper(p) PROVE UNCHANGED <<paperPreviews, paperVersions>>
    BY <1>3 DEF Next, vars, papers, EditRace, EditEntry, ConfirmResult, SavePaper,
                Generate, Approve, PublishGuide, Tick
  <1> QED
    BY <1>1, <1>2, <1>3, PaperFrame

\* A version of a paper has the number, the pages and the end of corrections
\* its preview showed, although races are edited under neither preview.
THEOREM PaperAsPreviewedCorrect == Spec => []PaperAsPreviewed
  <1>1. Init => PaperInv
    BY DEF Init, PaperInv
  <1>2. PaperInv => PaperAsPreviewed
    BY DEF PaperInv, PaperAsPreviewed, Became
  <1>3. Spec => []TypeOK
    BY TypeCorrect
  <1>4. QED
    BY <1>1, <1>2, <1>3, PaperStep, PTL DEF Spec

-----------------------------------------------------------------------------
(***************************************************************************)
(* A guide is published as it was approved.                                *)
(***************************************************************************)

\* A guide that is ready is so by an approval of its latest generation, which
\* still stands.
ReadyIsApproved ==
    guide.status = "READY" =>
        /\ guide.latest > 0 /\ generations[guide.latest].valid
        /\ [generation |-> guide.latest, revision |-> generations[guide.latest].revision] \in approvals

\* What is published was generated.
Generated == \A i \in DOMAIN guides : guides[i].generation \in DOMAIN generations

GuideInv == ReadyIsApproved /\ Generated /\ GuideAsApproved

\* Every step keeps publications, approvals and generations together.
LEMMA GuideStep == TypeOK /\ GuideInv /\ [Next]_vars => GuideInv'
  <1> SUFFICES ASSUME TypeOK, GuideInv, [Next]_vars PROVE GuideInv'
    OBVIOUS
  <1>1. /\ guide \in [status : Guide, revision : Nat, latest : 0 .. Len(generations)]
        /\ generations \in Seq([revision : Nat, valid : BOOLEAN])
        /\ Len(generations) \in Nat /\ DOMAIN generations = 1 .. Len(generations)
        /\ guides \in Seq(Publication) /\ Len(guides) \in Nat
    BY DEF TypeOK, GuidesTyped
  <1>2. ASSUME NEW valid \in BOOLEAN, Generate(valid) PROVE GuideInv'
    <2>1. PICK g \in [revision : Nat, valid : BOOLEAN] : generations' = Append(generations, g)
      <3>1. Current.revision \in Nat
        BY DocumentsAssumption DEF Current, TypeOK, RacesTyped, RaceRow
      <3>2. QED
        BY <1>2, <3>1 DEF Generate
    <2>2. DOMAIN generations' = 1 .. Len(generations) + 1
          /\ \A i \in DOMAIN generations : generations'[i] = generations[i]
      BY <1>1, <2>1
    <2>3. guide'.status # "READY" /\ UNCHANGED <<guides, approvals>>
      BY <1>2 DEF Generate, StatusOf
    <2>4. QED
      BY <1>1, <2>2, <2>3 DEF GuideInv, ReadyIsApproved, Generated, GuideAsApproved
  <1>3. ASSUME NEW g \in DOMAIN generations, Approve(g) PROVE GuideInv'
    <2>1. /\ g = guide.latest /\ generations[g].valid
          /\ approvals' = approvals \cup {[generation |-> g, revision |-> generations[g].revision]}
          /\ UNCHANGED <<generations, guides>>
      BY <1>3 DEF Approve, Fresh
    <2>2. guide'.latest = guide.latest
      BY <1>1, <1>3 DEF Approve
    <2>3. QED
      BY <1>1, <2>1, <2>2 DEF GuideInv, ReadyIsApproved, Generated, GuideAsApproved
  <1>4. ASSUME NEW g \in DOMAIN generations, PublishGuide(g) PROVE GuideInv'
    <2>1. PICK x : x = [generation |-> g, revision |-> Current.revision]
      OBVIOUS
    <2>2. x \in Publication
      BY <1>1, <2>1, DocumentsAssumption DEF Publication, Current, TypeOK, RacesTyped, RaceRow
    <2>3. /\ guides' = Append(guides, x) /\ UNCHANGED <<generations, approvals>>
          /\ guide.status = "READY" /\ g = guide.latest /\ generations[g].valid
          /\ generations[g].revision = Current.revision
      BY <1>4, <2>1 DEF PublishGuide, Fresh
    <2>4. x \in approvals
      BY <2>1, <2>3 DEF GuideInv, ReadyIsApproved
    <2>5. generations[g] = [revision |-> x.revision, valid |-> TRUE] /\ x.generation = g
      <3>1. generations[g] \in [revision : Nat, valid : BOOLEAN]
        <4>1. generations \in Seq([revision : Nat, valid : BOOLEAN])
          BY <1>1
        <4>2. QED
          BY <4>1, ElementOf
      <3>2. x.revision = generations[g].revision /\ x.generation = g
        BY <2>1, <2>3
      <3>3. generations[g].valid = TRUE
        BY <2>3, <3>1
      <3>4. generations[g] = [revision |-> generations[g].revision, valid |-> generations[g].valid]
        BY <3>1
      <3>5. QED
        BY <3>2, <3>3, <3>4
    <2>6. guide'.status # "READY"
      BY <1>1, <1>4 DEF PublishGuide
    <2>7. /\ DOMAIN guides' = 1 .. Len(guides) + 1 /\ guides'[Len(guides) + 1] = x
          /\ \A i \in 1 .. Len(guides) : guides'[i] = guides[i]
          /\ DOMAIN guides = 1 .. Len(guides)
      BY <1>1, <2>2, <2>3
    <2>8. ASSUME NEW i \in DOMAIN guides'
          PROVE  /\ guides'[i].generation \in DOMAIN generations
                 /\ guides'[i] \in approvals
                 /\ generations[guides'[i].generation] = [revision |-> guides'[i].revision, valid |-> TRUE]
      <3>1. CASE i \in DOMAIN guides
        BY <2>7, <3>1 DEF GuideInv, Generated, GuideAsApproved
      <3>2. CASE i = Len(guides) + 1
        BY <2>4, <2>5, <2>7, <3>2
      <3>3. QED
        BY <1>1, <2>7, <3>1, <3>2
    <2>9. QED
      BY <2>3, <2>6, <2>8 DEF GuideInv, ReadyIsApproved, Generated, GuideAsApproved
  <1>5. CASE UNCHANGED guided
    BY <1>5 DEF guided, GuideInv, ReadyIsApproved, Generated, GuideAsApproved
  <1>6. ASSUME ~ \E valid \in BOOLEAN : Generate(valid),
               ~ \E g \in DOMAIN generations : Approve(g) \/ PublishGuide(g)
        PROVE  UNCHANGED guided
    BY <1>6 DEF Next, vars, EditRace, EditEntry, ConfirmResult, SavePaper, PreviewPaper,
                PublishPaper, Tick
  <1> QED
    BY <1>2, <1>3, <1>4, <1>5, <1>6

\* A published guide was generated, approved and published for one and the
\* same revision of its race.
THEOREM GuideAsApprovedCorrect == Spec => []GuideAsApproved
  <1>1. Init => GuideInv
    BY DEF Init, GuideInv, ReadyIsApproved, Generated, GuideAsApproved
  <1>2. GuideInv => GuideAsApproved
    BY DEF GuideInv
  <1>3. Spec => []TypeOK
    BY TypeCorrect
  <1>4. QED
    BY <1>1, <1>2, <1>3, GuideStep, PTL DEF Spec
=============================================================================

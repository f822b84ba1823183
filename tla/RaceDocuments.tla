---------------------------- MODULE RaceDocuments ----------------------------
(***************************************************************************)
(* What is written about races besides predictions: the paper of a day,    *)
(* previewed, published and corrected until its first race starts          *)
(* (apps/api/src/race-papers.controller.ts), and the guide of a race,      *)
(* generated, approved and published                                       *)
(* (apps/api/src/ai-race-guide.controller.ts, ai-race-guide.service.ts).   *)
(* Both show races and entries that staff edit meanwhile                   *)
(* (races.controller.ts) and whose results are confirmed                   *)
(* (results.controller.ts).                                                *)
(*                                                                         *)
(* Papers and edits of races take the advisory lock 7262026, guides        *)
(* 7262031, confirmations neither.  Every transaction is one step: what    *)
(* another changes after a publication has read it is either read again by *)
(* the insertion trigger, which locks the races, or takes effect as if     *)
(* after the publication.  Left out: roles and assignments, the correction *)
(* policy, marks and their text, expired access, what a guide says, audit, *)
(* and repeated idempotency keys.                                          *)
(***************************************************************************)
EXTENDS DocumentPromises, FiniteSets

VARIABLES
    race,           \* Race -> its row, and its one entry
    paper,          \* revision (0 before it exists) and the races of its draft
    guide,          \* status, revision and latest generation; revision 0 before it exists
    now, bound

papers == <<paper, paperPreviews, paperVersions>>
guided == <<guide, generations, guides, approvals>>
vars == <<race, papers, guided, now, bound>>

Init ==
    /\ race = [r \in Race |-> [startsAt |-> FirstStart, status |-> "SCHEDULED",
                               entry |-> "ACTIVE", revision |-> 1]]
    /\ paper = [revision |-> 0, draft |-> {}]
    /\ paperPreviews = {} /\ paperVersions = <<>>
    /\ guide = [status |-> "NONE", revision |-> 0, latest |-> 0]
    /\ generations = <<>> /\ guides = <<>> /\ approvals = {}
    /\ now = 0 /\ bound \in DocumentBounds

-----------------------------------------------------------------------------
(***************************************************************************)
(* The races.                                                              *)
(***************************************************************************)
EditRace(r, start, status) ==
    /\ race[r].revision < bound.race
    /\ race' = [race EXCEPT ![r].startsAt = start, ![r].status = status, ![r].revision = @ + 1]
    /\ UNCHANGED <<papers, guided, now, bound>>

\* The entry is scratched, put back, or its horse's name corrected.
EditEntry(r, entry) ==
    /\ race[r].revision < bound.race
    /\ race[r].entry # entry
    /\ race' = [race EXCEPT ![r].entry = entry, ![r].revision = @ + 1]
    /\ UNCHANGED <<papers, guided, now, bound>>

\* A cancellation is written CANCELED here, which nothing else reads as such.
ConfirmResult(r, status) ==
    /\ now >= race[r].startsAt
    /\ race[r].revision < bound.race
    /\ race' = [race EXCEPT ![r].status = status, ![r].revision = @ + 1]
    /\ UNCHANGED <<papers, guided, now, bound>>

-----------------------------------------------------------------------------
(***************************************************************************)
(* The paper.                                                              *)
(***************************************************************************)
SavePaper(draft) ==
    /\ paper.revision < bound.paper
    /\ draft # {} /\ \A r \in draft : race[r].entry # "SCRATCHED"
    /\ paper' = [revision |-> paper.revision + 1, draft |-> draft]
    /\ UNCHANGED <<race, paperPreviews, paperVersions, guided, now, bound>>

\* The races of any version, whether or not the draft still has them.
Prior == UNION {paperVersions[i].draft : i \in DOMAIN paperVersions}
Covered == paper.draft \cup Prior

Soonest(times) == CHOOSE t \in times : \A u \in times : t <= u

\* Faulty variant: a race put off opens the paper again.
DeadlineOfRaces == Soonest({race[r].startsAt : r \in Covered})

\* The first start of any race it shows or has shown, and no later than a
\* version said; the controller and the trigger both compute it.
Deadline == Soonest({race[r].startsAt : r \in Covered} \cup
                    {paperVersions[i].deadline : i \in DOMAIN paperVersions})

PaperOpen ==
    /\ \A r \in paper.draft : race[r].entry # "SCRATCHED"
    /\ \A r \in Covered : /\ race[r].status \notin {"FINISHED", "CANCELLED"}
                          /\ race[r].status = "DELAYED" => DelayedMayPublish
    /\ now < Deadline

Snapshot == [r \in paper.draft |-> [startsAt |-> race[r].startsAt, entry |-> race[r].entry]]

\* Faulty variant: races are left out of what must not change.
FingerprintOfDraft == [paper |-> paper, latest |-> Len(paperVersions)]

\* What must not change between the preview and the publication.
Fingerprint ==
    [paper |-> paper, latest |-> Len(paperVersions),
     races |-> [r \in paper.draft |-> [race[r] EXCEPT !.revision = 0]],
     prior |-> [r \in Prior |-> [startsAt |-> race[r].startsAt, status |-> race[r].status]]]

\* A preview shows the version that would follow, and is good for a quarter of
\* an hour, one unit of time.
PreviewPaper ==
    /\ paper.revision > 0 /\ PaperOpen
    /\ Cardinality(paperPreviews) < bound.previews
    /\ paperPreviews' = paperPreviews \cup
           {[base |-> Fingerprint, snapshot |-> Snapshot, deadline |-> Deadline,
             next |-> Len(paperVersions) + 1, until |-> now + 1, version |-> 0]}
    /\ UNCHANGED <<race, paper, paperVersions, guided, now, bound>>

\* Confirming a preview again returns the version it became.
PublishPaper(p) ==
    /\ p.version = 0 /\ now < p.until
    /\ Fingerprint = p.base /\ PaperOpen
    /\ paperVersions' = Append(paperVersions, [draft |-> paper.draft, snapshot |-> Snapshot,
                                     deadline |-> Deadline, at |-> now, number |-> p.next])
    /\ paperPreviews' = (paperPreviews \ {p}) \cup {[p EXCEPT !.version = p.next]}
    /\ UNCHANGED <<race, paper, guided, now, bound>>

-----------------------------------------------------------------------------
(***************************************************************************)
(* The guide.                                                              *)
(***************************************************************************)
Current == race[Guided]

GuideOpen == now < Current.startsAt /\ Current.status \notin {"FINISHED", "CANCELLED"}

StatusOf(valid) == IF valid THEN "REVIEW_REQUIRED" ELSE "FAILED"

\* A generation shows the race as it is; one that fails or is not valid stands
\* as the latest all the same.  Corrections generate likewise.
Generate(valid) ==
    /\ GuideOpen
    /\ guide.revision < bound.guide
    /\ generations' = Append(generations, [revision |-> Current.revision, valid |-> valid])
    /\ LET created == IF guide.revision = 0 THEN 1 ELSE guide.revision
       IN  guide' = [status |-> StatusOf(valid), revision |-> created + 1,
                     latest |-> Len(generations) + 1]
    /\ UNCHANGED <<race, papers, guides, approvals, now, bound>>

\* Faulty variant: the race may have changed since.
FreshAlways(g) == g \in DOMAIN generations

\* Each change of the race or its entries makes a revision.
Fresh(g) == generations[g].revision = Current.revision

Approve(g) ==
    /\ GuideOpen /\ guide.revision < bound.guide
    /\ g = guide.latest /\ generations[g].valid /\ Fresh(g)
    /\ guide' = [guide EXCEPT !.status = "READY", !.revision = @ + 1]
    /\ approvals' = approvals \cup {[generation |-> g, revision |-> Current.revision]}
    /\ UNCHANGED <<race, papers, generations, guides, now, bound>>

PublishGuide(g) ==
    /\ GuideOpen /\ guide.revision < bound.guide
    /\ guide.status = "READY" /\ g = guide.latest /\ generations[g].valid /\ Fresh(g)
    /\ guides' = Append(guides, [generation |-> g, revision |-> Current.revision])
    /\ guide' = [guide EXCEPT !.status = "PUBLISHED", !.revision = @ + 1]
    /\ UNCHANGED <<race, papers, generations, approvals, now, bound>>

-----------------------------------------------------------------------------
Tick ==
    /\ now < bound.time
    /\ now' = now + 1
    /\ UNCHANGED <<race, papers, guided, bound>>

Next ==
    \/ \E r \in bound.races :
        \/ \E start \in 1 .. FirstStart + 1, status \in {"SCHEDULED", "DELAYED", "CANCELLED"} :
               EditRace(r, start, status)
        \/ \E entry \in {"ACTIVE", "SCRATCHED", "RENAMED"} : EditEntry(r, entry)
        \/ \E status \in {"FINISHED", "CANCELED"} : ConfirmResult(r, status)
    \/ \E draft \in SUBSET Race : SavePaper(draft)
    \/ PreviewPaper
    \/ \E p \in paperPreviews : PublishPaper(p)
    \/ \E valid \in BOOLEAN : Generate(valid)
    \/ \E g \in DOMAIN generations : Approve(g) \/ PublishGuide(g)
    \/ Tick

Spec == Init /\ [][Next]_vars

-----------------------------------------------------------------------------
(***************************************************************************)
(* Properties.                                                             *)
(***************************************************************************)

Status == {"SCHEDULED", "DELAYED", "FINISHED", "CANCELLED", "CANCELED"}
Entry == {"ACTIVE", "SCRATCHED", "RENAMED"}
RaceRow == [startsAt : Nat, status : Status, entry : Entry, revision : Nat]
Pages(draft) == [draft -> [startsAt : Nat, entry : Entry]]
PreviewRow(draft, prior) ==
    [base : [paper : [revision : Nat \ {0}, draft : {draft}], latest : Nat,
             races : [draft -> RaceRow], prior : [prior -> [startsAt : Nat, status : Status]]],
     snapshot : Pages(draft), deadline : Nat, next : Nat, until : Nat, version : Nat]
VersionRow(draft) ==
    [draft : {draft}, snapshot : Pages(draft), deadline : Nat, at : Nat, number : Nat]
Guide == {"NONE", "REVIEW_REQUIRED", "FAILED", "READY", "PUBLISHED"}
Publication == [generation : Nat, revision : Nat]

RacesTyped == race \in [Race -> RaceRow] /\ now \in Nat /\ bound \in DocumentBounds

PapersTyped ==
    /\ paper \in [revision : Nat, draft : SUBSET Race] /\ (paper.revision > 0 => paper.draft # {})
    /\ \A p \in paperPreviews : \E draft \in (SUBSET Race) \ {{}}, prior \in SUBSET Race :
           p \in PreviewRow(draft, prior)
    /\ paperVersions \in Seq({paperVersions[i] : i \in DOMAIN paperVersions})
    /\ \A i \in DOMAIN paperVersions : \E draft \in SUBSET Race : paperVersions[i] \in VersionRow(draft)

GuidesTyped ==
    /\ guide \in [status : Guide, revision : Nat, latest : 0 .. Len(generations)]
    /\ generations \in Seq([revision : Nat, valid : BOOLEAN])
    /\ guides \in Seq(Publication) /\ approvals \subseteq Publication

\* Every variable holds a value of its type; a paper that exists has races, and
\* the guide's latest generation was generated.
TypeOK == RacesTyped /\ PapersTyped /\ GuidesTyped
=============================================================================

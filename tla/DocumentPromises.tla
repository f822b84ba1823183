-------------------------- MODULE DocumentPromises --------------------------
(***************************************************************************)
(* What is promised of race papers and guides, over the rows members read  *)
(* and those they were reviewed by.  RaceDocuments is how the code keeps   *)
(* it.                                                                     *)
(***************************************************************************)
EXTENDS Naturals, Sequences

CONSTANTS
    Race,
    Guided,             \* the race that has a guide
    FirstStart,         \* when races start, as registered
    DelayedMayPublish,  \* delayedPublicationPolicy = LATEST_STARTS_AT
    DocumentBounds      \* the bounds one behaviour may keep to: the races that change,
                        \* their revisions, those of the paper, its previews,
                        \* revisions of the guide, time

ASSUME DocumentsAssumption ==
    /\ Guided \in Race
    /\ FirstStart \in Nat /\ DelayedMayPublish \in BOOLEAN
    /\ DocumentBounds \subseteq [races : SUBSET Race, race : Nat, paper : Nat, previews : Nat,
                                 guide : Nat, time : Nat]

VARIABLES
    paperPreviews,  \* rows of race_paper_previews
    paperVersions,  \* rows of race_paper_versions
    generations,    \* rows of ai_race_guide_generations
    guides,         \* rows of ai_race_guide_versions
    approvals       \* history: generations approved, with the race's revision then

\* Once a version said when corrections end, no version comes later and none
\* says a later time, though races are put off or taken out of the paper.
WindowNeverReopens ==
    \A i, j \in DOMAIN paperVersions :
        i <= j => paperVersions[j].at < paperVersions[i].deadline /\ paperVersions[j].deadline <= paperVersions[i].deadline

\* A version is what its preview showed: its number, its races and horses as
\* they are, and the end of the corrections.
PaperAsPreviewed ==
    \A p \in paperPreviews : p.version > 0 =>
        /\ paperVersions[p.version].snapshot = p.snapshot
        /\ paperVersions[p.version].deadline = p.deadline
        /\ paperVersions[p.version].number = p.version

\* A guide is published of the generation that was approved, for the race as it
\* was when it was generated, approved and published.
GuideAsApproved ==
    \A i \in DOMAIN guides :
        /\ guides[i] \in approvals
        /\ generations[guides[i].generation] = [revision |-> guides[i].revision, valid |-> TRUE]
=============================================================================

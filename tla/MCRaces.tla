------------------------------- MODULE MCRaces -------------------------------
(***************************************************************************)
(* Instances for TLC of what is published about races.  The predictions    *)
(* and results of one race (RaceDay) share no row with papers and guides   *)
(* (RaceDocuments) but the races that staff edit, which both have as their *)
(* environment; so a behaviour is of one or of the other.                  *)
(***************************************************************************)
EXTENDS RaceDay, DocumentPromises, TLC

CONSTANTS q1, q2, h1, h2

Symmetric == Permutations(Request)

OneMark == {<<>>, h1 :> "PRIMARY"}
TwoResults ==
    {[place |-> h1 :> 1, canceled |-> FALSE],
     [place |-> h1 :> 0, canceled |-> TRUE],
     [place |-> h1 :> 2 @@ h2 :> 1, canceled |-> FALSE]}

DayProfile(revision, assessment, draft_, previews_, saved_, imports_, start, time) ==
    [revision |-> revision, assessment |-> assessment, draft |-> draft_, previews |-> previews_,
     saved |-> saved_, imports |-> imports_, start |-> start, time |-> time]
\* Two publications of an edited race; a correction after a new draft; a start
\* that is moved; a published race with its results; an edited race with its
\* results; two imports.
DayProfiles ==
    {DayProfile(3, 1, 1, 2, 1, 0, 1, 1), DayProfile(2, 1, 2, 2, 1, 0, 1, 1), DayProfile(2, 0, 1, 2, 1, 0, 2, 2),
     DayProfile(1, 0, 1, 1, 2, 1, 1, 1), DayProfile(2, 0, 0, 0, 2, 1, 1, 2), DayProfile(1, 0, 0, 0, 2, 2, 1, 1)}

\* A paper of two races that change, published twice; a guide of one that
\* changes twice.
DocumentProfile(races, race_, paper_, previews_, guide_, time) ==
    [races |-> races, race |-> race_, paper |-> paper_, previews |-> previews_,
     guide |-> guide_, time |-> time]
DocumentProfiles == {DocumentProfile(Race, 2, 3, 2, 0, 2), DocumentProfile({Guided}, 3, 0, 0, 7, 2)}

VARIABLES
    documentRaces, paper, guide, documentNow, documentBound,
    about     \* which of the two the behaviour is of

Documents == INSTANCE RaceDocuments WITH race <- documentRaces, now <- documentNow, bound <- documentBound
documents == <<documentRaces, paper, paperPreviews, paperVersions, guide, generations, guides,
               approvals, documentNow, documentBound>>

\* The bounds of the part that rests do not matter.
RacesInit ==
    /\ Init /\ Documents!Init
    /\ \/ about = "day" /\ documentBound = CHOOSE any \in DocumentBounds : TRUE
       \/ about = "documents" /\ bound = CHOOSE any \in Bounds : TRUE

RacesNext ==
    \/ about = "day" /\ Next /\ UNCHANGED <<documents, about>>
    \/ about = "documents" /\ Documents!Next /\ UNCHANGED <<vars, about>>

RacesSpec == RacesInit /\ [][RacesNext]_<<vars, documents, about>>
=============================================================================

--------------------------- MODULE ContentPromises ---------------------------
(***************************************************************************)
(* What the CMS promises of an item, over the rows that members read and   *)
(* its published versions.  ContentItems is how the code keeps it.         *)
(***************************************************************************)
EXTENDS Naturals, Sequences

VARIABLES
    item,             \* the row of content_items; revision 0 before it exists
    contentVersions,  \* rows of content_versions, each with its notification event
    withdrawn         \* history: the versions there were when the item was last archived

\* A version shows what the person in whose name it is published had before
\* them: the item as they loaded it, or as it was when they set the schedule
\* that stands at that moment.
PublishedAsReviewed ==
    \A i \in DOMAIN contentVersions :
        contentVersions[i].reviewed = [draft |-> contentVersions[i].draft, by |-> contentVersions[i].by]

\* Members see an item that was withdrawn only once it is published anew,
\* through whatever drafts, schedules and failures it went since.
WithdrawnStaysHidden == item.visible => Len(contentVersions) > withdrawn
=============================================================================

\* Two editors, two workers, two drafts
CONSTANTS
    e1 = e1
    e2 = e2
    Editor = {e1, e2}
    w1 = w1
    w2 = w2
    Worker = {w1, w2}
    Draft = {"d1", "d2"}
    LastTime = 2
    Bounds <- Profiles
    None = None
SPECIFICATION FairSpec
INVARIANTS PublishedAsReviewed WithdrawnStaysHidden
PROPERTIES EveryDueScheduleEnds
CHECK_DEADLOCK FALSE

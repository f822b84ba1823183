\* One horse entered, one to come, two requests; see the bounds
CONSTANTS
    q1 = q1
    q2 = q2
    h1 = h1
    h2 = h2
    Request = {q1, q2}
    Horse = {h1, h2}
    Entered = {h1}
    Marks <- OneMark
    Result <- TwoResults
    EditTo = {"DELAYED", "CANCELLED"}
    DelayedOpen = TRUE
    Bounds <- DayProfiles
    Race = {"r1", "r2"}
    Guided = "r1"
    FirstStart = 2
    DelayedMayPublish = TRUE
    DocumentBounds <- DocumentProfiles
SPECIFICATION RacesSpec
SYMMETRY Symmetric
INVARIANTS PublishedAsPreviewed EveryVersionIsEvaluated ImportedAsPreviewed
    WindowNeverReopens PaperAsPreviewed GuideAsApproved
PROPERTY ResultsAreReviewed
CHECK_DEADLOCK FALSE

CONSTANTS
    Products = {"p", "q"}
    Languages <- Both
    DefaultLanguage = "nl"
    Feeds <- TwoFeeds
    NameRequired = TRUE
    Batches = {{"p"}, {"p", "q"}}
    SignOffs = {{"q"}, {"p", "q"}}
    Published = {"f2"}
    MaxAttempts = 2
    MaxJobs = 1
    MaxActs = 4
SPECIFICATION Spec
INVARIANTS
    WrittenIsEnough
    DoctorAgreesWithPlan
    NamesFollowTheFeed
PROPERTIES
    NextKnowsTheBatch
CHECK_DEADLOCK FALSE

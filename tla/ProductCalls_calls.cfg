CONSTANTS
    nl = nl
    fr = fr
    hero = hero
    clip = clip
    Plan <- PlanOrder
    FilesOf <- FilesOfPages
    MediaIds = {1, 2, 3}
    PageIds = {1, 2}
    ClientFiles = {clip}
    MaxRuns = 2
    MaxTries429 = 2
    MaxTries5xx = 2
SPECIFICATION FairSpec
INVARIANTS
    SlugMeansWhole
    PointedPagesShowTheRun
PROPERTIES
    OkPagesKeepMedia
    RunsEnd
CHECK_DEADLOCK FALSE

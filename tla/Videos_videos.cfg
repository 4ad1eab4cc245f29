CONSTANTS
    Products = {"p", "q"}
    Languages = {"nl", "fr"}
    Files = {"a", "b"}
    Unset = "unset"
    Skip = "skip"
    NoFile = "nofile"
    Blank = "blank"
    Junk = "junk"
    InScope = {"p"}
    Sheets <- TwoSheets
    Exports = {{"q"}}
    Clients <- ThreeClients
    ByHand <- Hands
    MaxSheets = 2
    MaxActs = 3
SPECIFICATION Spec
INVARIANT
    RecordedVideoShows
PROPERTIES
    HeldMeansUnpublished
    FillsOnlyAdd
    StrictPagesCarryVideo
    ConfirmedVideoArrives
CHECK_DEADLOCK FALSE

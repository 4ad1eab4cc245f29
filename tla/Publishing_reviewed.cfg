CONSTANTS
    MaxVersion = 2
    Gtins = {g1}
    Languages = {nl, fr}
    DefaultLanguage = nl
    NoGtin = NoGtin
    ForeignPages <- NoForeign
    ListedGtins = {}
    EditorDrafts = FALSE
    StalePlans = FALSE
    CanCalm = TRUE
    Kills = TRUE
    StateSpoils = TRUE
    Revives = FALSE
SPECIFICATION RepeatedSpec
INVARIANTS
    AllOrNothing
    TakenDownIsHeld
    UnchangedIsPublished
PROPERTIES
    OnlySeenTargets
    HeldRecordStaysDown
    ClaimsFollowRecord
    Converges

CONSTANTS
    MaxVersion = 3
    Gtins = {g1}
    Languages = {nl}
    DefaultLanguage = nl
    NoGtin = NoGtin
    ForeignPages <- DefaultForeign
    ListedGtins = {g1}
    EditorDrafts = TRUE
    StalePlans = TRUE
    CanCalm = FALSE
    Kills = TRUE
    StateSpoils = TRUE
    Revives = TRUE
SPECIFICATION CheckedSpec
INVARIANTS
    UnchangedIsPublished
PROPERTIES
    DisabledBeforeDrafted
    ListedNeverOverridesOwn
    LastingGapsAreReported
    FindingsWereTrue

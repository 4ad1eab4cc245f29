CONSTANTS
    MaxVersion = 1
    Gtins = {g1}
    Languages = {nl}
    DefaultLanguage = nl
    NoGtin = NoGtin
    ForeignPages <- NoForeign
    ListedGtins = {}
    EditorDrafts = FALSE
    StalePlans = FALSE
    CanCalm = FALSE
    Kills = TRUE
    StateSpoils = FALSE
    Revives = FALSE
SPECIFICATION Spec
INVARIANTS
    InterruptedTakeDownIsHeld

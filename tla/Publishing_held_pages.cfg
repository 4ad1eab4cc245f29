CONSTANTS
    MaxVersion = 1
    Gtins = {g1}
    Languages = {nl, fr}
    DefaultLanguage = nl
    NoGtin = NoGtin
    ForeignPages <- NoForeign
    ListedGtins = {}
    EditorDrafts = FALSE
    StalePlans = FALSE
    CanCalm = FALSE
    Kills = FALSE
    StateSpoils = FALSE
    Revives = FALSE
SPECIFICATION Spec
PROPERTIES
    HeldPagesStayDown

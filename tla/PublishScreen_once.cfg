CONSTANTS
    g1 = g1
    nl = nl
    fr = fr
    Gtins = {g1}
    Languages = {nl, fr}
    HasGenerator = FALSE
    IsProduction = TRUE
    Contents <- TwoContents
    MaxPlans = 2
    ModeFromBatch = FALSE
    Slots = {1, 2}
    MaxHaste = 2
SPECIFICATION Spec
INVARIANTS
    RunsForRealOnce

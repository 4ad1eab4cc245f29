CONSTANTS
    g1 = g1
    nl = nl
    fr = fr
    Gtins = {g1}
    Languages = {nl, fr}
    HasGenerator = TRUE
    IsProduction = TRUE
    Contents <- TwoContents
    MaxPlans = 2
    ModeFromBatch = FALSE
    Slots = {1}
    MaxHaste = 1
SPECIFICATION Spec
INVARIANTS
    ProductionIsConfirmed
    LinksOnlyWritesNoPages
    RealRunsArePreviewed
    PatientRunsWriteWhatWasMeant

SPECIFICATION Spec
CONSTANTS
    MaxCalls = 2
    MaxEdits = 1
    Max429 = 2
    Max5xx = 2
    MaxPages = 3
    MaxMedia = 3
    BatchSize = 1
    DefaultLanguage = "nl"
    Inputs <- MCInputs
    Workloads <- MCWorkloads
    Configs <- MCConfigs
    Gtins <- MCGtins
    Languages <- MCLanguages
    Sites <- MCSites
CHECK_DEADLOCK FALSE
INVARIANT WritesAreConfirmed
INVARIANT OkMeansWritten
INVARIANT PagesKeepTheirLanguage
PROPERTY ForeignPagesStay
PROPERTY OnlyFragmentsGo

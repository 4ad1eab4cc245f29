SPECIFICATION Spec
CONSTANTS
    p = p
    q = q
    Products = {p, q}
    Lists <- MCLists
    ByHand <- MCByHand
    Exports <- MCExports
    Mappings <- MCMappings
    Published = {}
    Enforced = TRUE
    WithoutVideo = TRUE
    NeedsImage = FALSE
    MaxSeconds = 1
    MaxActs = 4
    Offered = {"both", "links"}
    MaxMishaps = 1
INVARIANTS RememberedIsOfThisList OpenStepsHaveTheirBatch PlansKeepTheBatch
PROPERTIES SavesLoseNoList

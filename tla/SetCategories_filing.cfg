SPECIFICATION Spec
CONSTANTS
    g = g
    h = h
    k = k
    none = none
    blank = blank
    NoKey = none
    NoText = blank
    Gtins = {g, h}
    Languages = {"nl", "fr"}
    DefaultLanguage = "nl"
    MarketPriority <- MCMarkets
    Deliveries <- MCDeliveries
    Later <- MCLater
    PageOrder <- MCPageOrder
    Live <- MCLive
    Mappings <- MCMappings
    SiteTerms <- MCSiteTerms
    FirstTerms <- MCFirstTerms
    ConfiguredPlugin = "wpml"
    SitePlugin = "wpml"
    RequireTermsExist = TRUE
    MaxEdits = 1
INVARIANTS NothingIsHidden DoneMeansFiled
CHECK_DEADLOCK FALSE

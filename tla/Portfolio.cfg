SPECIFICATION PortfolioSpec
CONSTANTS
    w1 = w1  w2 = w2  u1 = u1  u2 = u2  s1 = s1  s2 = s2  v1 = v1  p1 = p1
    NoParty = NoParty
    Workers = {w1, w2}
    UseCases = {u1, u2}
    Systems = {s1, s2}
    Vendors = {v1}
    Products = {p1}
    SystemOf <- MCSystemOf
    ProductOf <- MCProductOf
    CatalogueVendorOf <- MCCatalogueVendorOf
    VendorAtFirst <- MCVendorAtFirst
    MetAtRegistration <- MCMetAtRegistration
    ClearedAtFirst = {v1}
    MaxChanges = 2
INVARIANTS
    EngineWritesLegalTrails ReEvaluateSettles
    ClearanceTypeOK StaleIsKnown QueueShowsTheParked
PROPERTIES
    AuthorisedOnlyByTheAct FanOutCatchesUp LeverMends
CHECK_DEADLOCK FALSE

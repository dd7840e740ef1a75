SPECIFICATION Spec
CONSTANTS
    r1 = r1  r2 = r2  c1 = c1  c2 = c2  f1 = f1  f2 = f2  e1 = e1
    w1 = w1  w2 = w2  sP = sP  sH = sH  sL = sL
    q1 = q1  q2 = q2  q3 = q3  yes = yes  no = no  maybe = maybe  role = role  k = k
    Requests = {r1, r2}
    FeederTypes = {"FRIA"}
    Prefills <- MCPrefills
    AssessedTiers = {"HIGH"}
    Deployer = TRUE
    SpecialData = FALSE
    Controls = {c1, c2}
    FrameworksOf <- MCFrameworksOf
    Evidence = {e1}
    MaxWrites = 2
    MaxItems = 3
    MaxRounds = 2
    Categories = {c1, c2}
    NoCategory = NoCategory
    QuestionCodes = {q1, q2, q3}
    Questions = {q1, q2}
    OptionCodes = {yes, no, maybe}
    Asserts <- MCAsserts
    TierOf <- MCTierOf
    MaxAnswers = 3
    Writers = {w1, w2}
    MaxSnapshots = 3
    Pages = {"t1"}
    NoPage = NoPage
    DerivedFields = {role}
    CatalogueFields = {}
    FactKeys = {k}
    Values = {"v0", "v1"}
    NoValue = NoValue
    Seeds <- MCSeeds
    MaxDrafts = 1
    MaxSystems = 1
    MaxReloads = 1
    MaxUnderWay = 2
INVARIANTS
    DossierTypeOK SuggestionsStayOut TrailAccountsForTheRecord
    VerdictsRestOnTheRecord HashIsOfTheRecord
    RecordsTypeOK OneCurrent EffectiveTierIsRatified
    ComputedTierIsAsserted SelfApprovedIsHighest
    WizardTypeOK
PROPERTIES
    LockHolds ConfirmationIsGenuine SpentDraftStaysSpent
CHECK_DEADLOCK FALSE

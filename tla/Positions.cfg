SPECIFICATION Spec
CONSTANTS
    u1 = u1  u2 = u2  alice = alice  bob = bob  carol = carol
    w1 = w1  w2 = w2  acme = acme  NoLink = NoLink  NoUser = NoUser
    UseCases = {u1}
    Users = {alice, bob, carol}
    Workers = {w1, w2}
    Parties = {acme}
    VendorOf <- LinkedToAcme
    ProductOf <- Unlinked
    MaxRound = 1
    MaxVersion = 2
    MaxAiia = 1
    Handlers <- PositionHandlers
    Intakes <- FourIntakes
SYMMETRY RequestSymmetry
INVARIANTS TypeOK HeldHint ProhibitedHalts
PROPERTY ImplementsContract

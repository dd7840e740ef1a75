SPECIFICATION Spec
CONSTANTS
    u1 = u1  u2 = u2  alice = alice  bob = bob  carol = carol
    w1 = w1  w2 = w2  acme = acme  NoLink = NoLink  NoUser = NoUser
    UseCases = {u1}
    Users = {alice, bob}
    Workers = {w1, w2}
    Parties = {}
    VendorOf <- Unlinked
    ProductOf <- Unlinked
    MaxRound = 1
    MaxVersion = 1
    MaxAiia = 1
    Handlers <- ReviewHandlers
    Intakes <- Ratified
INVARIANT SubmittedNeverDeleted

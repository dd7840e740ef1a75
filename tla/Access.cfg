SPECIFICATION AccessSpec
CONSTANTS
    w1 = w1  w2 = w2  g1 = g1  g2 = g2  t1 = t1  t2 = t2  ann = ann  ben = ben
    k1 = k1  k2 = k2  i1 = i1
    Nothing = Nothing
    Tenants = {t1, t2}
    Emails = {ann, ben}
    Workers = {w1, w2}
    Granters = {g1, g2}
    Kinds <- AllKinds
    Faults <- AllFaults
    MaxSub = 2
    Roles = {1, 2}
    ConflictRows <- OneConflict
    NoItem = NoItem
    Callers = {k1, k2}
    Items = {i1}
    MaxEvidence = 2
    MaxLinks = 2
    StoreFaults <- AllStoreFaults
SYMMETRY AccessSymmetry
INVARIANTS
    TypeOK AccountsCanSignIn StrandedUsersAreKnown AdminsHoldNoRole ConflictsComeFromRaces
    StoreTypeOK PointersResolve OrphansAreKnown NoDanglingLink
CHECK_DEADLOCK FALSE

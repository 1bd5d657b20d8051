SPECIFICATION BackendSpec
CONSTANTS
    r1 = r1
    r2 = r2
    p1 = p1
    p2 = p2
    u1 = u1
    u2 = u2
    k1 = k1
    Account = {a1, a2}
    Id = {i1, i2, i3, i4}
    Request = {r1, r2}
    Replica = {p1, p2}
    host <- TwoRequests
    Modulus = 3
    MaxCount = 2
    User = {u1, u2}
    Clerk = {k1, k2}
    Good = {g1}
    Job = {j1}
    SeedUsers <- OneUser
    SeedTrusts <- TwoTrusts
    MaxTrust = 1
SYMMETRY Symmetric
INVARIANTS
    OneKeyPerAccount
    StaleOnlyInCount
    ReceiversWereNamed
    TrustsStay
PROPERTIES
    ImplementsUserKeys
    DeletedStaysDeleted

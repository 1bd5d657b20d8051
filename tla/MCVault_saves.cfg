SPECIFICATION Spec
CONSTANTS
    u1 = u1
    u2 = u2
    U1 = U1
    User = {u1, u2}
    Spelling = {u1, u2, U1}
    canonical <- Spelled
    Password = {x, y}
    AccountId = {a1, a2}
    Key = {k1, k2, k3}
    Request = {r1, r2}
    MaxStored = 3
SYMMETRY Symmetric
CONSTRAINT FewStored
INVARIANTS
    NothingLost
    ShownWasSaved
PROPERTY ImplementsBook

SPECIFICATION FairSpec
CONSTANTS
    User = {u1}
    DisclosureId = {d1, d2}
    HistoryId = {h1, h2}
    Request = {r1, r2}
    NoDisclosure = NoDisclosure
    NoHistory = NoHistory
    Duration = {1}
    LinkLife = 2
    SelfLife = 1
    MaxTime = 0
INVARIANT IInv
PROPERTY EveryClickSettles

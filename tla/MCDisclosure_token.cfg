SPECIFICATION Spec
CONSTANTS
    User = {u1, u2}
    DisclosureId = {d1, d2}
    HistoryId = {h1, h2}
    Request = {r1}
    NoDisclosure = NoDisclosure
    NoHistory = NoHistory
    Duration = {1}
    LinkLife = 1
    SelfLife = 1
    MaxTime = 0
SYMMETRY Symmetric
INVARIANT TokenBoundToDisclosure

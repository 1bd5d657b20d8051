SPECIFICATION Spec
CONSTANTS
    User = {u1, u2}
    DisclosureId = {d1}
    HistoryId = {h1, h2}
    Request = {r1, r2}
    NoDisclosure = NoDisclosure
    NoHistory = NoHistory
    Duration = {1}
    LinkLife = 2
    SelfLife = 1
    MaxTime = 1
SYMMETRY Symmetric
INVARIANTS
    StatusConsistent
    StaleRowHarmless
    AnswersTrue
    RejectionBacked
PROPERTIES
    RejectionIsFinal
    ImplementsLifecycle

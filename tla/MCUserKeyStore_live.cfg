SPECIFICATION FairSpec
CONSTANTS
    c1 = c1
    c2 = c2
    c3 = c3
    p1 = p1
    p2 = p2
    User = {u1}
    Key = {k1, k2, k3}
    Process = {p1, p2}
    Call = {c1, c2, c3}
    host <- ThreeCalls
    NoText = NoText
    Nobody = Nobody
INVARIANTS
    MutexDiscipline
    KeyAgreement
PROPERTY EveryCallEnds

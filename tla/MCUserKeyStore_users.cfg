SPECIFICATION Spec
CONSTANTS
    c1 = c1
    c2 = c2
    c3 = c3
    p1 = p1
    p2 = p2
    User = {u1, u2}
    Key = {k1, k2, k3}
    Process = {p1, p2}
    Call = {c1, c2}
    host <- TwoCalls
    NoText = NoText
    Nobody = Nobody
SYMMETRY Symmetric
INVARIANTS
    Decryptable
    RoundTrip
    HistoryHonest
PROPERTIES
    KeyIsForever
    ImplementsUserKeys

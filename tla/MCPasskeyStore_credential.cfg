SPECIFICATION Spec
CONSTANTS
    r1 = r1
    p1 = p1
    Account = {a1}
    Id = {i1, i2, i3}
    Request = {r1}
    Replica = {p1}
    host <- OneRequest
    Modulus = 8
    MaxCount = 3
SYMMETRY Symmetric
INVARIANT CreatedCredentialIsSaved

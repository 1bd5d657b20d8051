SPECIFICATION ExtensionSpec
CONSTANTS
    Request = {q1, q2}
    Tab = {t1, t2}
    Port = {p1, p2}
    NoRequest = NoRequest
    Feature <- SomeFeatures
INVARIANTS
    OnePlace
    SpinnerBacked
    KindsAgree
    
PROPERTIES
    EveryClickEnds
    ImplementsConsent

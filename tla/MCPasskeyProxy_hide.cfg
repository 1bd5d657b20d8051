SPECIFICATION Spec
CONSTANTS
    Request = {q1, q2}
    Tab = {t1}
    Port = {p1, p2}
    NoRequest = NoRequest
SYMMETRY Symmetric
PROPERTY TimerHidesItsOwn

SPECIFICATION MCSpec
CONSTANTS
    Clients = {c1, c2}
    Requests = {q1, q2}
    Limit = 1
    MaxClock = 3
    MaxArrivals = 3
    AiEnabled = TRUE
    Words = {w}
    RecordIds = {id}
    OtherIds = {other}
    RequestIds = {this, earlier}
SYMMETRY MCSymmetry
INVARIANT NeverOverLimit
INVARIANT RefusedForCause
INVARIANT ReturnedIsGrounded

SPECIFICATION Spec
CONSTANTS
    w1 = w1
    w2 = w2
    n1 = n1
    n2 = n2
    NoNonce = NoNonce
    Worker = {w1, w2}
    Nonce = {n1, n2}
    GateOf <- Gates
    Lists <- LimitLists
    MaxTime = 3
    DayLength = 2
    MaxRows = 3
    Ops = {"late", "pay", "cancel", "die", "revert"}
SYMMETRY Symmetric
INVARIANTS
    OncePerLimit

SPECIFICATION Spec
CONSTANTS
    w1 = w1
    w2 = w2
    n1 = n1
    n2 = n2
    NoNonce = NoNonce
    Worker = {w1, w2}
    Nonce = {n1, n2}
    GateOf <- OneGate
    Lists <- OnceLists
    MaxTime = 2
    DayLength = 1
    MaxRows = 3
    Ops = {"exit_all", "die", "force", "clerk"}
SYMMETRY AllSymmetric
INVARIANTS
    TypeOK
    OneEntry
    NonceOnce
PROPERTIES
    RetryAnswered

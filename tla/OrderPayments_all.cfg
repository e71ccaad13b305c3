SPECIFICATION Spec
CONSTANTS
    w1 = w1
    w2 = w2
    Worker = {w1, w2}
    MaxPayments = 3
    Total = 2
    Credit = 2
    Overlap = FALSE
    Ops = {"create", "change", "confirm", "fail", "cancel", "card", "refund", "expire"}
SYMMETRY Symmetric
INVARIANTS
    TypeOK
    FullyConfirmedIsPaid
    CardNotNegative
    CardAccount
    RefundsWithinPayment
PROPERTIES
    ConfirmedStays

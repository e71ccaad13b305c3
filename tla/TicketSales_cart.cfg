SPECIFICATION Spec
CONSTANTS
    s1 = s1
    s2 = s2
    w1 = w1
    w2 = w2
    None = None
    Session = {s1, s2}
    Worker = {w1, w2}
    SlotsPer = 2
    MaxCart = 2
    Size = 2
    MaxUsages = 1
    Blocking = FALSE
    HasRedis = TRUE
    Overlap = FALSE
    Ops = {"add", "remove", "setAddons", "voucher", "checkout"}
SYMMETRY Symmetric
INVARIANTS
    TypeOK
    VoucherPromisesKept
PROPERTIES
    ReservationHonoured
    PoolSpec

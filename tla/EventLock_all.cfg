SPECIFICATION FairSpec
CONSTANTS
    c1 = c1
    c2 = c2
    t1 = t1
    t2 = t2
    t3 = t3
    t4 = t4
    t5 = t5
    t6 = t6
    None = None
    Client = {c1, c2}
    Token = {t1, t2, t3, t4, t5, t6}
    LockTimeout = 2
    Retries = 2
    Patience = 1
    Backends = {TRUE, FALSE}
INVARIANTS
    TypeOK
    MutualExclusion
PROPERTIES
    OnlyOwnerGivesUp
    AlwaysObtainableAgain
    CallEnds

SPECIFICATION Spec
SYMMETRY Perms
CONSTANTS
    Sender = {s1, s2, s3}
    Reader = {r1}
    First = 4
    MaxSends = 4
    MaxLosses = 1
INVARIANTS
    TypeOK
    NotMissed
    GivenOnce
PROPERTIES
    Heals

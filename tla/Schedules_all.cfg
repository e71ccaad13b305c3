SPECIFICATION Spec
CONSTANTS
    Talk = {t1}
    Name = {n1, n2, n3}
    Clerk = {c1, c2}
    NoName = NoName
    MaxSchedules = 5
SYMMETRY Symmetric
INVARIANTS
    TypeOK
PROPERTIES
    ReleasedFixed
    DraftKeepsTalks

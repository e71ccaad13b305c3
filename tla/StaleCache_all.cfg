SPECIFICATION FairSpec
CONSTANTS
    Thread = {t1, t2}
    Reader = {r1}
    MaxChanges = 2
    MaxCommits = 2
INVARIANTS
    TypeOK
    Fresh
PROPERTIES
    BumpedOnce
    CaughtUp

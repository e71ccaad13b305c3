SPECIFICATION FairSpec
CONSTANTS
    std = std
    vip = vip
    all = all
    few = few
    any = any
    s1 = s1
    Product = {std, vip}
    Quota = {all, few, any}
    QuotasOf <- TwoQuotas
    Sizes <- TwoSizes
    WaitsFor <- Wishes
    NumEntries = 3
    Claim = {1,2,3}
    Staff = {s1}
    Moves = {1}
    Handled = {1,3}
    MaxDate = 3
    Ending = {vip}
    Ops = {"hand","delete","edit","move","die"}
INVARIANTS
    TypeOK
    PromisesFit
PROPERTIES
    AutoOnce
    FirstComesFirst
    NobodyForgotten

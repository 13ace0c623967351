SPECIFICATION RecordsSpec
CONSTANTS
    j1 = j1
    j2 = j2
    k1 = k1
    k2 = k2
    o1 = o1
    None = None
    Journals = {j1, j2}
    Keys = {k1, k2}
    Operators = {o1}
    KeyOf <- DistinctKeys
    Named <- AnyPayment
    MarketStatuses = {s1, s2}
    NoStatus = NoStatus
    Messages = {m1, m2}
    MaxDelivered = 1
    MaxChanges = 2
    MaxLines = 2
    MaxForgets = 1
    MaxDoubts = 1
INVARIANTS
    RecordsTypeOK
    OneJourneyPerPayment
    PaidIsClaimed
    NothingLost
    RepeatsAreExplained

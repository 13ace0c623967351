SPECIFICATION FairSpec
CONSTANTS
    j1 = j1
    j2 = j2
    k1 = k1
    k2 = k2
    o1 = o1
    None = None
    Journals = {j1}
    Keys = {k1}
    Operators = {o1}
    KeyOf <- SharedKey
    Named <- OwnPayment
PROPERTIES
    LeftBehindEventuallyFreed

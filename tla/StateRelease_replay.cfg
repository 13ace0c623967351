SPECIFICATION Spec
CONSTANTS
    j1 = j1
    j2 = j2
    k1 = k1
    k2 = k2
    p1 = p1
    p2 = p2
    Procs = {p1, p2}
    Exec = Exec
    None = None
    Journals = {j1, j2}
    Keys = {k1}
    Opens = {j1}
    KeyOf <- SharedKey
    MaxClaims = 0
    MaxFaults = 1
SYMMETRY ProcSymmetry
INVARIANTS
    ExclusiveBinding
    ReplayLockTells
PROPERTIES
    RefinesRegistry

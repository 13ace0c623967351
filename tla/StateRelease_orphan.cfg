SPECIFICATION Spec
CONSTANTS
    j1 = j1
    j2 = j2
    k1 = k1
    k2 = k2
    p1 = p1
    p2 = p2
    Procs = {p1, p2}
    Exec = Exec
    None = None
    Journals = {j1}
    Keys = {k1}
    Opens = {}
    KeyOf <- SharedKey
    MaxClaims = 2
    MaxFaults = 1
INVARIANTS
    ExecLockRecoverable

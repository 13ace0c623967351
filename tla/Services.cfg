SPECIFICATION ServicesSpec
CONSTANTS
    Procs = {p1}
    Journals = {j1}
    Keys = {k1}
    Shares = 2
    None = None
    MaxClaims = 2
    MaxFaults = 1
    Calls = {c1, c2}
    Auths = {a1}
    NoAuth = NoAuth
    Ttl = 1
    Window = 2
    MaxSeconds = 3
    MaxCards = 3
    Reads = {r1, r2, r3}
    Clients = {cl1, cl2}
    Markets = {mk1, mk2}
    Nothing = Nothing
    Limit = 2
    WindowTicks = 1
    MaxInFlight = 2
    MaxClients = 1
    MaxEntries = 1
    TtlTicks = 1
    MaxTicks = 2
    Requests = {q1, q2}
    ChallengeTtl = 1
    SessionTtl = 2
    DeployTtl = 2
    MaxTokens = 6
    MaxDeploys = 1
    MaxTime = 2
    Instances = {i1, i2}
    CacheTtl = 2
    LockTtl = 1
    Absent = Absent
    MaxClock = 3
    Scale = 6
    Step = 3
    BpsScale = 4
    Budgets = {5, 6, 8, 11, 13}
    Lots = {1, 2}
    MinLot = 6
    Prices = {2, 3, 5}
    FeeRates = {0, 1}
    Fills = {3, 5, 6, 9, 12}
    NoCard = NoCard
    TicksPerSecond = 2
    CardTtl = 4
    ConfirmHeadroom = 2
    LaunchHeadroom = 2
    LockedHeadroom = 1
    Never = Never
    MaxWallet = 1
    MaxNow = 5
INVARIANTS
    ServicesTypeOK
    ChargedOnlyForCard
    FreeCardsDoNotChain
    PublicReadsSound
    OneDeploymentPerConsent
    ProbeAnswersFresh
    EconomicsSound
    SentAsConfirmed
    ProofIsOfTheOrder
PROPERTIES
    LockReturns
CHECK_DEADLOCK FALSE

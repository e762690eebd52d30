SPECIFICATION ServicesSpec
CONSTANTS
    Canonical = 0
    Delta = 2
    Callers = {"panel", "monitor", "sweep"}
    MaxHeight = 2
    MaxAwaiting = 2
    slotA = slotA
    slotB = slotB
    oldA = oldA
    oldB = oldB
    newA = newA
    newB = newB
    medium = medium
    short = short
    bundle1 = bundle1
    bundle2 = bundle2
    Slots = {slotA, slotB}
    Digests = {oldA, oldB, newA, newB, medium, short}
    Bundles = {bundle1, bundle2, validator}
    Genesis <- MCGenesis
    Length <- MCLength
    NoBundle = NoBundle
    NoDigest = NoDigest
    ValidatorBundle = validator
    DefaultSlot = slotA
    Entries <- MCEntries
    BundleOffers <- MCBundleOffers
    Documents <- MCDocuments
    NumAgents = 2
    Increments = {10, 29}
    MaxTasks = 4
    Drops = {7, 8, 12}
    MaxRemediations = 2
    Base = 849
    MaxRuns = 3
    Tabs = {tab1, tab2}
    LongCycle = 3
    ShortCycle = 2
    MaxBackups = 2
    MaxLocks = 1
    Tokens = {t1, t2}
    Passkeys = {t2}
    Expirable = {t2}
    Local = local
    NoSession = none
    MaxCalls = 2
    Emails = {alice, bob}
    MaxTickets = 3
    Pages = {page1, page2}
    TuningPages = {page1}
    Canonical11 = canonical
    Offered = {prop1}
    Probed = probe
    NoView = NoView
    MaxTrail = 5
    MaxLate = 1
    MaxRequests = 5
    Foci = {"autonomy", "registry", "swarm", "cluster", "federation", "backup", "sessions", "tickets", "tuning",
            "atlas"}
INVARIANTS
    ServicesTypeOK
    DriftAgrees
    CustodianInv
    CopilotInv
    SwarmInv
    ClusterInv
    FederationInv
    SessionsDurable
    LogoutSticks
    ConfirmedAccepted
    TicketsInv
    TuningInv
    AtlasInv
PROPERTIES
    HeightsKept
    FreshDigests
    HealsEventually
    EverySyncSeals
    BackupsContinue
    TrailKept
    HudNeverGoesBack
    ImplementsOrderedPromises
    EveryCallSettles
CHECK_DEADLOCK FALSE

SPECIFICATION Spec
CONSTANTS
    Requests = {"r1", "r2"}
    Passwords = {"p1", "p2"}
    MostFactors = 2
    MostSessions = 3
    LastTick = 1
    AddressesOf = {"a1", "a2"}
    Senders = {"s1", "s2"}
    MostLinks = 3
    MaxTries = 1
    LinkLife = 2
    CodeLife = 1
    ResendGap = 1
    TryWindow = 2
    LastHour = 3
    SendTime = 1
    Names = {"n1", "n2"}
    Addresses = {"a1"}
    Attempts = {"r1", "r2"}
    FreeAttempts = 1
    AddressFreeAttempts = 1
    BucketTTL = 1
    MaxBackoff = 2
    SweepInterval = 1
    FullSweepInterval = 1
    Ceiling = 1
    Batch = 2
    MostFailures = 2
    LastMoment = 2
    Claimants = {"u","v"}
    Tabs = {"t1","t2","t3"}
    TabOf <- mcTabOf
    ClaimCodes = {"c1","c2"}
    CodeGroup <- mcCodeGroup
    CodeDays <- mcCodeDays
    CodeDaysMax <- mcCodeDaysMax
    CodeMaxUses <- mcCodeMaxUses
    CodeExpires <- mcCodeExpires
    Groups = {"base","plus","other"}
    DefaultGroup = "base"
    MaxClaimFailures = 2
    FailureWindow = 1
    LastClaimMoment = 2
    Holders = {"u","v"}
    Codes = {"c"}
    CodeCards <- mcCodeCards
    CardCodeLife <- mcCodeLife
    MostCards = 2
    SpendAttempts = 1
    LastDay = 2
    Clients = {"p"}
    Callers = {"r1", "r2"}
    MostAuthCodes = 1
    MostPairs = 2
    Visitors = {"v1", "v2", "v3"}
    WayOf <- mcWayOf
    OriginOf <- mcOriginOf
    ProcessOf <- mcProcessOf
    PerMinute = 1
    PerHour = 2
    PerAddress = 1
    Minute = 1
    Hour = 3
    AddressWindow = 1
    LastSignupMoment = 3
INVARIANTS SessionsHold AddressesProved LimiterCounts ClaimsCounted CardsHold ConsentHolds SignupHolds
PROPERTIES AMailedLinkStays LimiterServes ClaimsOnlyAdd
CHECK_DEADLOCK FALSE

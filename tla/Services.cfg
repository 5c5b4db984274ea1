SPECIFICATION Spec
CONSTANTS
    Readers = {"r1", "r2"}
    Aggregates = {"summary", "breakdown"}
    Editors = {"e1", "e2"}
    BuildSlots = 1
    Entries = {1, 2, 3, 4}
    At <- mcEntriesAt
    BufferSize = 2
    BatchSize = 2
    TrimEvery = 2
    MaxStored = 1
    DatabaseFails = TRUE
    Invitees = {"u", "v"}
    Callers = {"k"}
    RewardCards = 1
    RewardEvery = 2
    RewardLimit = 2
    PageSize = 1
    MostCodes = 1
    MostRewardFailures = 0
    Turns = {"x1", "x2"}
    Pictures = {}
    Caps = {0, 1}
    HistoryLimit = 1
    Retain = TRUE
    Sweeps = FALSE
    Crashes = TRUE
    MaxVersion = 0
INVARIANTS RankingsHold EntriesAccounted RewardsExact SlotsExact
PROPERTIES EveryReaderAnswered TrimIsExact Flushed PendingResolved SlotReturns
CHECK_DEADLOCK FALSE

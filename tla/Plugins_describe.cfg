SPECIFICATION PluginsSpec
CONSTANTS
    Savers = {"s1"}
    MostPackages = 1
    MostSettings = 2
INVARIANTS DescribedAsSaved
CHECK_DEADLOCK FALSE

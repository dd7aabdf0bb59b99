CONSTANTS
    NoRow = NoRow
    StatsKeep = 1
    PriceKeep = 0
    SupplyRefreshEvery = 2
    StaleAfter = 1
    PollTime = 1
    Ahead = 1
    MaxRestarts = 1

SPECIFICATION CallsSpec

PROPERTY SupplyCallsSpaced

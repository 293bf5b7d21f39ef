SPECIFICATION Spec
CONSTANTS
    Event = {1, 2, 3}
    Source = {"USGS", "GFZ"}
    SourceOf <- MCSourceOf
    Ascending = {"GFZ"}
    FetchLimit = 1
    Malformed = {}
    Unreadable = {}
    Unencodable = {2}
    Significant = {3}
    LruCapacity = 1
    MaxAttempts = 2
    MaxRestarts = 1
    MaxFaults = 2
    MaxRedisFaults = 1
INVARIANTS TypeOK SeenIsPublished DuplicatesArePaidFor HealthyRedisDeduplicates
PROPERTIES EventuallyPublished

SPECIFICATION Spec
CONSTANTS
    Keys = {k1, k2, k3}
    Workers = {w1, w2}
    Limit = 2
    Cost = 3
    Second = 2
    MaxShardEntries = 2
    MaxTime = 4
INVARIANTS
    ShardBounded
    GrantsBounded
    RetryAfterHonoured
SYMMETRY Symmetry

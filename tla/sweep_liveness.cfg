SPECIFICATION FairSpec
CONSTANTS
    Media = {1, 2, 3}
    Catalogue <- TwoSeasons
    Related <- TwoSeasonsRelated
    Roots = {}
    Mains = {1, 2}
    Recent = {2}
    LowSignal = {}
    Threshold = 1
    Week = 1
    Long = 2
    Cap = 1
    Breaker = 2
    Moves <- Failing
    MaxMoves = 2
    MaxFaults = 1
PROPERTIES DueMediaRefreshed GoneQuietens SequelsFound

SPECIFICATION Spec
CONSTANTS
    Media = {1, 2, 3, 4}
    Catalogue <- Crossover
    Related <- CrossoverRelated
    Roots = {4}
    Mains = {1, 3}
    Recent = {1}
    LowSignal = {3}
    Threshold = 1
    Week = 1
    Long = 1
    Cap = 2
    Breaker = 2
    Moves <- Turning
    MaxMoves = 2
    MaxFaults = 1
PROPERTY BlacklistHolds

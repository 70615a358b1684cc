SPECIFICATION Spec
CONSTANTS
    Unknown = Unknown
    a1 = a1
    a2 = a2
    m1 = m1
    m2 = m2
    m3 = m3
    Anime = {a1, a2}
    MediaIds = {m1, m2, m3}
    Contents <- UndatedShapes
    Opinions <- AllOpinions
    Genres = {"drama", "comedy"}
    Studios = {"s1", "s2"}
    Log10 <- Decades
    RecentSince = 2021
    ArchivalBefore = 2016
    StabilizeThreshold = 3
    MaxPersonal = 4
SYMMETRY Symmetry
CONSTRAINT FewPersonal
CHECK_DEADLOCK FALSE
INVARIANT TierRollsUpAlways

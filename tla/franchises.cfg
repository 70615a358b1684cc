SPECIFICATION FSpec
CONSTANTS
    Worlds <- AllWorlds
    Searches <- AllSearches
    Catalogues <- AnyCatalogue
    Blacklists <- AnyBlacklist
    Casts <- AnyCast
    MaxTies = 2
    MaxHops = 2
    MaxScrapes = 1
    MaxMedia = 4
    MaxEdges = 3
    Kinds = {"season", "brief", "special", "announced"}
    Relations = {"sequel", "alternative_version", "parent_story", "full_story"}
INVARIANTS OneGraphPerMedia GraphsBounded SplitIsFinal FrontierAsSpecified
PROPERTY NewEntryHarmless
CHECK_DEADLOCK FALSE

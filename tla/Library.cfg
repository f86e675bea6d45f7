SPECIFICATION LibrarySpec
CONSTANTS
    top = top inbox = inbox show = show disc = disc lib = lib season = season
    v1 = v1 v2 = v2 s1 = s1 f1 = f1 f2 = f2 f3 = f3
    Files = {f1, f2, f3}
    Home <- MCHome
    Dirs = {top, inbox, show, disc, lib, season}
    Top = top
    Source = inbox
    Parent <- MCParent
    Names = {v1, v2, s1}
    Goal <- MCGoal
    Matches <- MCMatches
    MaxTroubles = 3
    MaxRuns = 3
    Torn = Torn
    Nothing = Nothing
    Titles <- MCTitles
    Unknown = "unknown"
    HashKey <- MCHashKey
    IndexKey <- MCIndexKey
    NoKey = "none"
    Alike <- MCAlike
    Beats <- MCBeats
    SeasonTitle <- MCSeasonTitle
    Base <- MCBase
    Weights <- MCWeights
    MaxRefine = 3
    Paths <- MCPaths
    Namings <- MCNamings
    MaxFailures = 1
    Series <- MCSeries
    Ids = {"i1", "i2"}
    MatchTitle <- MCMatchTitle
    NoId = "none"
    Confidences = {1}
    Resolution <- MCResolution
    NameOf <- MCNameOf
    EpisodeOf <- MCEpisodeOf
    VersionsIn <- MCVersionsIn
    TagsIn <- MCTagsIn
    SizeOf <- MCSizeOf
    quality_scores <- MCScores
    NoEpisode = 0
    Given <- MCGiven
    Keys = {"k1", "k2", "k3"}
    Values = {"v", "w"}
    None = None
    Hash <- MCHash
    InitialCapacity = 2
    Nil = Nil
INVARIANTS NothingLost LibraryInOrder NoEmptyDirectories  
PROPERTIES TableIsMap
CHECK_DEADLOCK FALSE

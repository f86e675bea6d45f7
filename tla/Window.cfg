CONSTANTS
    Paths = {"videos", "subtitles"}
    Metas = {"parsed", "matched", "manual"}
    MaxBuilds = 2
    MaxScans = 2
    MaxHasty = 2
    Nothing = Nothing
SPECIFICATION WindowSpec
INVARIANTS SettledShowsLast 
PROPERTIES StartsCovered ManualChoiceKept
CHECK_DEADLOCK FALSE

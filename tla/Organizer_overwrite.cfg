CONSTANTS
    top = top inbox = inbox show = show disc = disc lib = lib season = season
    v1 = v1 v2 = v2 s1 = s1 f1 = f1 f2 = f2 f3 = f3
    Files = {f1, f2, f3}
    Home <- SameName
    Dirs = {top, inbox, show, disc, lib, season}
    Top = top
    Source = inbox
    Parent <- MCParent
    Names = {v1, v2, s1}
    Goal <- MCGoal
    Matches <- MCMatches
    MaxTroubles = 0
    MaxRuns = 1
    Torn = Torn
    Nothing = Nothing
SPECIFICATION Spec
INVARIANT NothingLost
CHECK_DEADLOCK FALSE

SPECIFICATION ServicesSpec
CONSTANTS
  MaxScans = 2
  MaxQueue = 3
  MaxCancels = 2
  Capacity = 3
  Rate = 2
  MaxClock = 5
  MaxWindow = 5
  Dirs = {"d1", "d2"}
  FilesOf <- MCFilesOf
  RootFiles = {"r"}
  Threshold = 2
  QueueSize = 1
  SENTINEL = SENTINEL
  Reentrant = TRUE
  Suffix <- MCSuffix
  Patterns = 1
  Known <- MCKnown
  Malformed = {}
  Batch <- MCBatch
  Concurrency = 2
  Likeness <- MCLikeness
  Weight <- MCWeight
  MinConfidence = 30
  Fetchable <- MCFetchable
  None = None
  MaxFailures = 2
  Users = {u1, u2}
  Keys = {k1}
  Types = {search, parser}
  Data = {d1}
  Main = Main
  Ttls = {1}
  MaxTime = 2
  MaxSteps = 3
  MaxFaults = 3
  ApiKeys = {"tiny", "short", "long", "other"}
  Folders = {"f1", "f2", "bad"}
  BadFolders = {"bad"}
  KeyLength <- MCKeyLength
  Torn = Torn
  Empty = Empty
  MaxSaves = 2
  MaxErrors = 2
  Subs = {"f1", "f2", "f3"}
  Stem <- MCStem
  Videos <- MCVideos
  Contents = {"c1", "c2"}
  SubtitleMarks = {"[eng]"}
  VideoMarks = {"[1080p]"}
  Brackets = {"[eng]","[1080p]","[grp]","[H]"}
  Hashes = {"[H]"}
  Space = " "
  Rank <- MCRank
  Lower <- MCLower
  NoIndex = NoIndex
  MaxChanges = 2
  Wrap <- MCWrap
  Label <- MCLabel
  Size <- MCSize
  Hints <- MCHints
  High = {"1080P","2160P","4K","UHD"}
  Upper <- MCUpper
  Forbidden <- MCForbidden
  SeasonText <- MCSeasonText
  YearText <- MCYearText
  Placeholders = {"{x}", "{title}"}
  NoText = NoText
  Library = {"a", "b"}
  Ending <- MCEnding
  ExtensionLists <- MCExtensionLists
  CLI_VIDEO_EXTENSIONS = {".mkv"}
  NoFiles = NoFiles
  Wired = {"scan", "match", "organize", "run", "verify"}
  NormalizedToList = FALSE
INVARIANTS NeverStuck OnlyCurrentLives ReportsAreTrue WindowBound EnrichedTrue ParallelSound    DestinationsTrue  
PROPERTIES BecomesFree
CHECK_DEADLOCK FALSE

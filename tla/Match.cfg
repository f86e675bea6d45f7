SPECIFICATION Spec
CONSTANTS
  show = show
  season = season
  nothing = nothing
  show1 = show1
  film1 = film1
  untitled = untitled
  y1 = y1
  y2 = y2
  NoMatch = NoMatch
  NoTitle = NoTitle
  NoYear = NoYear
  Candidates = {show1, film1, untitled}
  Animation = {}
  Paths = {"a1", "a2", "a3"}
  High = 8000
  Low = 2000
  Boost = 5000
  Full = 10000
  TTL = 1
  Concurrency = 2
  MaxTime = 2
  MaxMatches <- MCMaxMatches
  MaxFaults = 1
  Titles <- MCTitles
  RawTitles <- MCRaw
  Found <- MCFound
  Lists <- MCLists
  ParsedTitle <- MCParsed
  Series <- MCSeries
  Query <- MCQuery
  CacheKey <- MCCacheKey
  Answers <- MCAnswers
  TitleOf <- MCTitleOf
  YearOf <- MCYearOf
  Similarity <- MCSimilarity
  MediaType <- MCMediaType
  Weights <- MCWeights
  Popularity <- MCPopularity
  PartOf <- MCPartOf
INVARIANTS OnlyAnswersCached SearchesPerSeries
PROPERTIES  ResultsKeepOrder CancelIsHeeded MatchEnds

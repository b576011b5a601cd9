SPECIFICATION ServicesSpec
CHECK_DEADLOCK FALSE
CONSTANTS
  Clients = {"a", "b", "c"}
  UserOf <- Connected
  Admins = {"a"}
  BufferSize = 1
  MaxEvents = 2
  JobKinds = {"scan", "organize", "organize dry", "merge", "warm-library", "recheck-unmatched", "tracked-refresh", "search one"}
  MaxItems = 1
  MaxJobs = 2
  MaxRestarts = 1
  Discography = {"old", "new"}
  Future = {"new"}
  searchBatchSize = 1
  MaxSearches = 1
  MaxRefreshes = 2
  MaxEdits = 1
  Users = {1, 2}
  Logins = {1, 2}
  SessionTTL = 2
  RenewAfter = 2
  defaultLoginRate = 1
  LoginWindow = 1
  DayMax = 3
  MaxUserEdits = 2
  Songs = {"s"}
  Answers <- SourceAnswers
  Runners = {1, 2}
  ListLength = 1
  MaxStarts = 2
  MaxTurns = 1
  DownloadSources = {"tidal", "soulseek"}
  Pool <- SearchResults
  MaxAnswer = 2
  Contents <- ProfileContents
  ProfileIds = {1, 2}
  Releases = {1, 2}
  MaxProfileEdits = 1
  Plugins = {"p"}
  Savers = {1, 2}
  FirstLength = 4
  SecretLengths = {0}
  MaxSaves = 2
  MaxBoots = 2
  MaxChecks = 1
  ZipRequests = {1, 2}
  albumZipMaxConcurrent = 1
  ZipItems <- AlbumItems
INVARIANTS ServicesTypeOK  ChosenFits ResponsesSound JobsKept   SyncExclusive
PROPERTIES ForwardOnly RowsKept

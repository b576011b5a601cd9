SPECIFICATION ProvidersSpec
CHECK_DEADLOCK FALSE
CONSTANTS
  Limited = {"d"}
  Markers = {1, 2}
  RetryAfters = {0, 1, 3}
  CoolDefault = 1
  CoolMax = 4
  BanThreshold = 2
  BanGrace = 1
  EscalationWindow = 2
  CoolHorizon = 4
  Requests = {1, 2, 3}
  MinInterval = 2
  RateHorizon = 7
  Spellings = {"A", "a"}
  ArtistIds = {1, 2, 3}
  DiscIds = {1, 2, 3}
  RowIds = {1, 2, 3, 4}
  Merges = {1}
  MaxLibraryJobs = 1
  TokenUsers = {1, 2}
  MaxTokens = 3
  MaxClients = 2
  Segments = 3
  Chunks = 2
  Peers = {"u1"}
  PeerFiles = {"f", "g"}
  Backslashed = {"g"}
  Pollers = {1, 2}
  MaxTransfers = 1
  Replies <- SomeReplies
  MaxReplies = 2
  AlbumFolders <- SomeFolders
  ScanAttempts = 2
  MaxImports = 2
  EnoughPeers = 2
  DeezerCallers = {"s"}
  DeezerCheckers = {"h", "t"}
  ChunkUnits = 2
  TrackLengths = {2, 7, 8}
  MinUnits = 3
  Formats = 2
  AlbumTracks <- OneTrackAlbum
  EnrichOrder <- OneProvider
  EnrichProviders = 1
  BulkWorkers = {1, 2}
  TrackFields = {"isrc"}
  AlbumFields = {"title", "thumb"}
  MaxEnrichJobs = 1
  MaxEnrichImports = 1
INVARIANTS ProvidersTypeOK AlbumAccounted  LoginsHonest DownloadsWhole  
 

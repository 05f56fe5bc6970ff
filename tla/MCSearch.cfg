SPECIFICATION Spec
CONSTANTS
  Fields <- FieldOrder
  ColumnWidth = 16
  MaxGroupDepth = 1
  MaxLexemes = 5
  MaxTokens = 4
  MaxDistance = 2
  InputsOf <- AllInputs
  narrow = narrow
  wide = wide
  Stores = {narrow, wide}
  KeysOf <- KeysOfStores
  Keys = {"k", "l"}
  Values = {1, 2}
  Contents <- IndexedContents
  MaxDocId = 4
  KeysOnlyGrow = TRUE
  NoKeys = NoKeys
  RecordIds = {1, 2, 3}
  Passages <- Embedded
  Scores = {0, 1, 2}
  Pool = 3
  ChunkPool = 3
  TopK = 2
  K = 1
  Scale = 12
  HasFinder = TRUE
  MaxIndexWrites = 1
  GraphRecords = {1, 2, 3, 4}
  Seed = 1
  Sources = {1, 2}
  Weights <- Corpora
  Depth = 2
  Fanout = 1
  MinWeight = 1
  MaxNodes = 4
  MutualOnly = TRUE
  MaxIterations = 2
  MaxCorpusWrites = 1
  Entries = 6
  Unreadable = {}
  PageSize = 2
  PlainPageSize = 1
  HeadIdLimit = 2
  Totals = {TRUE, FALSE}
  SubmitMidRun = TRUE
  MaxWithdrawals = 1
  MaxRuns = 3
INVARIANTS
  SnippetsKeepTheirRanges AnswersAreReference FilteredNeverShown BestInEveryLegFirst
  GraphHangsTogether CommunitiesAreStable GapIsSettled
PROPERTIES
  ParsesAsGrammar CompilationsAgree HitsAreShown NearIsDeclarative CleanRunsSettle
CHECK_DEADLOCK FALSE

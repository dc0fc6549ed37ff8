SPECIFICATION FairSpec
CONSTANTS
  typed = typed
  bare = bare
  slashes = slashes
  m1 = m1
  m2 = m2
  digits = digits
  Urls <- MCUrls
  Blank = Blank
  DefaultUrl = DefaultUrl
  Bare <- MCBare
  Models = {m1, m2}
  Lengths = {0, 40000}
  ModelLists <- MCModelLists
  FirstStored <- MCFirstStored
  Sliders = {2000}
  Refreshes = {r1}
  Junk = Junk
  NumberOf <- MCNumberOf
  NoConfig = NoConfig
  NoRequest = NoRequest
  NoReport = NoReport
  Pats <- MCPats
  ImportFiles <- MCImportFiles
  Broken = Broken
  Structs = {"s"}
  SourceRefs <- MCSourceRefs
  Implied = {}
  Candidates = {"t", "int"}
  Primitives = {"int"}
  FirstKept <- MCFirstKept
  MaxIds = 12
  NoId = NoId
  Proposals <- MCProposals
  ProposalLists <- MCProposalLists
  MaxActions = 3
INVARIANTS TypeOK CopiesAgree UsableMeansProbed StoredIsShown
PROPERTIES RequestsSettle
CHECK_DEADLOCK FALSE

\* Every component around the pipelines, each on its own instance.
SPECIFICATION Spec
CONSTANTS
    Off = Off
\* agents and keys: two requests at a time, one failed command or crash
    Agents = {a1}
    MaxRequests = 2
    Levels = {1, 2}
    NoLevel = NoLevel
    NoAgent = NoAgent
    MaxKeys = 3
    MaxStarts = 2
    MaxFaults = 1
\* connections of two agents
    Conns = {c1, c2}
    Partners = {p1, p2}
    Calls = {q1, q2}
    MaxCalls = 4
    MaxCallFaults = 1
\* edge weights in thousandths
    Neurons = {"m1", "m2", "m3"}
    Synapses <- MCSynapses
    Vocabulary = {"knows", "likes"}
    FirstWeights = {0, 301, 1990}
    MaxSteps = 3
\* URL and MCP connectors
    Sources = {s1, s2}
    Changing = {s1}
    Syncs = {y1, y2}
    NoObject = NoObject
    MaxVersion = 2
    MaxSyncFaults = 1
\* SQL connector; BatchSize also is the batch of an import
    MaxRows = 3
    Queries = {qa, qb}
    NoQueryYet = NoQueryYet
    MaxKey = 2
    BatchSize = 2
    MaxRuns = 3
\* two askers of one question
    Facts = {"f1", "f2"}
    Links <- MCLinks
    WeakLinks = {}
    Restricted = {"f2"}
    Asks = {r1, r2}
    MaxIter = 2
    TTL = 0
    MaxHour = 1
    MaxQueryFaults = 0
\* lists of up to four ids
    Ids = {"w", "x", "y", "z"}
    Size = 4
    Select = 3
    NoWeight = NoWeight
    NoText = NoText
    Unverified = Unverified
\* retrieval over a bridge
    Notes = {"n1", "n2", "n3"}
    PartnerNotes = {"n2"}
    ClosedNotes = {"n3"}
    Matching = {"n1"}
    Bonds <- MCBonds
    ContextLimit = 1
\* one connector, two overlapping runs
    Feeds = {f1}
    Slots = {1, 2}
    MaxDocs = 2
    Permits = 2
    MaxHangs = 1
    MaxRunFaults = 1
\* export and two imports
    Items = {"a", "b", "c"}
    Ties <- MCArcs
    MaxAttempts = 2
    MaxErased = 1
\* scoped connections
    Targets = {"t", "u"}
    Kinds = {"P", "O"}
    Rels = {"R"}
    Grants = {"g", "h"}
    MaxNow = 1
\* swarm answer of two brains
    Brains = {"a", "b"}
    Insights <- MCInsights
    Secret <- MCSecret
    TopK = 3
    Thin = 2
    TextLimit = 3
    ContextCap = 5
    PromptCap = 2
\* chunks of five units
    ChunkSize = 5
    Overlap = 1
    MaxDrift = 1
    ChunkAttempts = 2
    Documents <- MCTexts
    MaxText = 7
    Extractions <- MCAnswers
    LabelKey <- MCLabelKey
    NoExtract = NoExtract
    FailedChunk = FailedChunk
\* entity resolution
    Ingests = {"r1", "r2", "r3"}
    Names = {"Ann", "ann", "Anne", "Annie", "f1", "f2"}
    NameKey <- MCNameKey
    Alike <- MCAlike
    NearPairs <- MCClose
    Says <- MCSays
    FactNames = {"f1", "f2"}
    NoMatch = NoMatch
    MaxVectorFaults = 1
\* three starts of the process
    Lengths = {1, 2}
    OldEdges = {"e"}
    MaxBoots = 3
    MaxBootFaults = 1
\* rate limiter
    Arrivals = {"h1", "h2", "h3", "h4"}
    Limit = 2
    WindowSize = 3
    MaxTime = 3
    MaxDown = 1
\* token counting
    Blocks = {"outer", "left", "right"}
    ParentOf <- MCAround
    NoBlock = NoBlock
    Completions = {"c1", "c2", "c3"}
    CalledIn <- MCCalledIn
    MaxTries = 2
\* workflow log
    Events = {"e1", "e2", "e3"}
    OwnerOf <- MCOwnerOf
    WorkflowOf <- MCWorkflowOf
    Services = {v1, v2}
    NoService = NoService
    Nobody = Nobody
    AnyOwner = AnyOwner
    LogLimit = 2
    MaxReplayFaults = 1
\* generated datasets
    Makers = {"d1", "d2", "d3"}
    MakerAgent <- MCMakerAgent
    ArcsOf <- MCArcsOf
    Drafts <- MCPairs
    MaxExamples = 3
    MaxSecond = 1
    NoFile = NoFile
INVARIANTS
    KnowledgeTypeOK
    AdminTypeOK
    RegistriesAgree
    WeightsFollowUse
    SourcesAreCovered
    AnswersAreServable
    ChoicesAreSound
    AnswersAreScoped
    BackupIsComplete
    ExtractionIsKept
    LifespanIsOrdered
    AccountsAreExact
    RecordsAreFound
PROPERTIES
    NothingIsUnlearned
CHECK_DEADLOCK FALSE

SPECIFICATION MCSpec
CONSTANTS
  Accounts = {"a", "b"}
  Addresses = {"x"}
  Logins = 3
  Clock = 2
  Soft = 1
  Hard = 2
  Lock = 2
  Contents = {0, 1}
  LastStamp = 1
  MaxWorkflows = 2
  MaxVersions = 3
  MaxCases = 2
  CaseIds = {1, 2, 3}
  Rules = {1, 2}
  MaxEdges = 2
  MaxWho = 3
  Browsers = {1}
  Emails = {"a", "b"}
  MaxInvites = 1
  LastTime = 1
  Lifetime = 1
  MaxSessions = 2
  MaxCredentials = 2
  MaxRows = 1
  Owners = {1, 2, 3}
  NumItems = 2
  Writers = {1, 2}
  MaxEvents = 5
  PageSize = 2
  Processes = {1, 2}
  Newest = 3
  MaxRunEvents = 2
  MaxStarts = 2
  Executions = {1, 2}
  MaxPending = 2
  Attempts = 2
  MaxCalls = 2
  MaxTokens = 1
  Sources = {1, 2}
  MaxIndexes = 2
  AgentInputs = {1, 2}
  AgentSteps = 3
  SpecialistSteps = 1
  RunAttempts = 3
  MaxClaims = 2
  Names = {1}
  Endpoints = {1, 2}
  Secrets = {1, 2}
  MaxEdits = 2
  MaxItems = 2
  Budget = 12
  Scale = 3
  Magnitude = 2
  Precision = 2
  FloatRange = 1
  IntDigits = 1
  TextDigits = 2
  MaxExponent = 2
  BaseChunks = {1, 2}
  MaxEvidence = 1
  MaxFound = 1
  AnswerAttempts = 2
CHECK_DEADLOCK FALSE
INVARIANT BranchesHold
INVARIANT ActedOnChecked
INVARIANT AccountsHold
INVARIANT HistoryTells
INVARIANT AgentsHold
INVARIANT CountsHold
INVARIANT OriginsHold
INVARIANT DecidedExactly
INVARIANT ReadingsHold
INVARIANT ToolsHold
PROPERTY LoopsKept
PROPERTY SourcesHold
PROPERTY EditsKept
PROPERTY StartupHolds

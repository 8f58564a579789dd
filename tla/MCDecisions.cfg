SPECIFICATION Spec
CONSTANTS
  None = None
  Day = 4
  TargetIds = {1, 2, 3, 4}
  LongIds = {3, 4}
  EventLimit = 3
  EventBytes = 4
  RecordLimit = 4
  RecordBytes = 11
  HistoryBytes = 11
  SharedLimit = 2
  TargetLimit = 2
  ChainLimit = 2
  EntryLimit = 2
  EditLimit = 2
  Decisions = {d1, d2}
  MaxRev = 5
  MaxEvents = 4
  Providers = {1, 2, 3}
  Desireds <- MCDesireds
  Findings <- MCFindings
  AxesSeen <- MCAxes
  Moments = {0, 1, 2, 15, 16}
  MaxPolls = 2
  Bad = Bad
  Exchanges <- MCExchanges
  ReviewBy = 15
  MaxPages = 2
  Adapters = {"codex", "anthropic", "anthropic-subscription"}
  Budgeted = "anthropic"
  Subscription = "anthropic-subscription"
  MaxOnChangeActions = 1
  Patterns = {"star"}
  NamedUnder <- MCNamedUnder
  Lives <- MCLives
  Documents <- MCDocuments
  MaxWrites = 3
  ConfigFile = "config"
  Allowlisted = {"f"}
  GroupKeys = {"g"}
  TierKeys = {"full"}
  AuthKeys = {"key", "dyn"}
  KindOf <- MCKindOf
  Inert = Inert
  Removed = Removed
  Operated <- MCOperated
  Commands <- MCCommands
  MaxCommands = 3
  Family <- MCFamily
  Whole = 4
  DefaultFreshness = 1
  MaxCases = 3
  Configs <- MCConfigs
  Sightings <- MCSightings
  Answers <- MCAnswers
  Clocks = {4, 5}
  MaxCommits = 1
INVARIANTS TimelineCounted RecordsAccount RankIsPreference ChainsKept GateAndRankAgree SayingsKept LoadedIsUsable InitKeeps SelectionEarned
PROPERTY PublishedAsValidated
CHECK_DEADLOCK FALSE

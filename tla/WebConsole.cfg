SPECIFICATION Spec
CONSTANTS
    Agents = {a1, a2}
    First = a1
    Nodes = {n1, n2}
    None = None
    Invalid = Invalid
    MaxCalls = 2
    Usages <- Boundaries
    MaxReported = 2
    ShownAlerts = 2
    TopNodes = 1
INVARIANTS
    TypeOK
    OperationShown
    LogsOfViewedAgent
    ChartsOfSelection
    WorstFirst
    NormalIsTrue
    DeletedRowGoes
    ShownAsAsked
    HistoryOfRange
PROPERTIES
    ListNeverOlder
    NothingSticks
    LogsAnswered
    CardsFollow
CHECK_DEADLOCK FALSE

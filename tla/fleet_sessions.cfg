SPECIFICATION Spec
CONSTANTS
    Requests <- MCRequests
    Tests <- MCTests
    Pids <- MCPids
    PidOf <- MCPidOf
    MaxPort = 2
    NoRequest = NoRequest
    NTargets = 2
    Concurrency = 2
    Scenarios <- MCScenarios
CHECK_DEADLOCK FALSE
INVARIANTS TypeOK NoStrayChild PortsDistinct NoSessionLeft ReportIsTrue
PROPERTIES NewestWins CallsSettle CollectReturns

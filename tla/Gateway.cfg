SPECIFICATION FairSpec
CONSTANTS
    Names = {"one", "x"}
    Values = {"two", "v"}
    Bodies = {"b"}
    Routes <- AllRoutes
    Refusals = {"absent", "throws", "traps"}
    NoRequest = NoRequest
INVARIANTS
    TypeOK
    OnlyMatchedRouted
    RequestKept
    ResponseKept
    RunnerReturned
PROPERTY ExchangeEnds

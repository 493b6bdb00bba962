SPECIFICATION Spec
CONSTANTS
    Names = {"one"}
    Values = {"two", "v"}
    Bodies = {}
    Routes <- BodyRoute
    Refusals = {}
    NoRequest = NoRequest
INVARIANT CachedRequestThere

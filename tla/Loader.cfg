SPECIFICATION FairSpec
CONSTANTS
    Threads = {t1, t2}
    Resources = {good, broken, unlinkable}
    Compilable = {good, unlinkable}
    Linkable = {good}
    MaxRunners = 3
INVARIANTS
    TypeOK
    CompiledOnce
    AbsentOnlyAfterOwnReadFailure
    LinkersAccountedFor
PROPERTIES
    LeaseSpec
    RequestEnds

SPECIFICATION FairSpec
CONSTANTS
    Threads = {t1, t2}
    Resources = {message}
    Compilable = {message}
    Linkable = {message}
    MaxRunners = 3
    Events <- SomeEvents
    Nothing = Nothing
INVARIANT OnlyDecorated
PROPERTY EventEnds
PROPERTY LoaderSpec

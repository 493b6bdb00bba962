SPECIFICATION Spec
CONSTANTS
    Threads = {t1}
    Resources = {good, unlinkable}
    Compilable = {good, unlinkable}
    Linkable = {good}
    MaxRunners = 3
INVARIANT
    InstancesReused

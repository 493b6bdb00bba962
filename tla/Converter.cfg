SPECIFICATION Spec
CONSTANT Maps <- SomeMaps
INVARIANTS
    ConvertsBack
    ConvertsAgain

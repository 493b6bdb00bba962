SPECIFICATION Spec
CONSTANTS
    Exports = {"predicate", "request", "response", "filter"}
    Contents <- MCContents
    Addresses = {1, 2, 3, 4, 5, 6, 7}
    Layouts <- MCLayouts
    Nothing = Nothing
CHECK_DEADLOCK FALSE
INVARIANTS
    SoundObjects
    MessageReleased
PROPERTY
    PluginSpec

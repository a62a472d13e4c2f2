SPECIFICATION PartSpec
CONSTANTS
    Tasks = {1, 2, 3, 4}
    NoTask = 0
    Keys = {1, 2}
    RawKeys <- FewRawKeys
INVARIANTS
    OneTimerPerEntry
    EntriesHaveTasks
    MutualExclusion
PROPERTIES
    KeysComeBack
    WorkEnds
CHECK_DEADLOCK FALSE

\* Sessions of at most four lines and three children; six frames of stack.
CONSTANTS
    Sessions <- MCSessions
    Garbage <- MCGarbage
    Histories <- MCHistories
    Pids = {1, 2, 3}
    MaxDepth = 6
SPECIFICATION Spec
INVARIANTS BackgroundListed HistoryIsExpansion ExitSkipsOnlyErased
PROPERTIES EveryLineIsDone

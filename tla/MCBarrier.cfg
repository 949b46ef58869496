\* Four threads meet three times.
CONSTANTS
    t1 = t1
    t2 = t2
    t3 = t3
    t4 = t4
    Threads = {t1, t2, t3, t4}
    n_threads = 4
    Rounds = 3
SPECIFICATION FairSpec
INVARIANTS NobodyPassesEarly SleeperHasReason ReturnsRound
PROPERTIES ImplementsBarrier AllRoundsComplete

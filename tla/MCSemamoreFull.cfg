CONSTANTS
    pool = pool
    tight = tight
    t1 = t1
    t2 = t2
    t3 = t3
    t4 = t4
    t5 = t5
    Semamores = {tight}
    Threads = {t4, t5}
    Script <- FullScript
    initial <- StartEmpty
    max_val <- MaxValues
SPECIFICATION FairSpec
PROPERTY PostIsNotStuck

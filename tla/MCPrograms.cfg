\* rpc: four clients share a server that may open two sockets.
CONSTANTS
    pool = pool
    tight = tight
    t1 = t1
    t2 = t2
    t3 = t3
    t4 = t4
    t5 = t5
    Semamores = {pool, tight}
    Threads = {t1, t2, t3, t4, t5}
    Script <- PoolScript
    initial <- StartEmpty
    max_val <- MaxValues
    Workers = {1, 2, 3}
    Tasks <- MCTasks
    lst <- MClst
    num_threads = 3
    quoteLen = 3
    count = 3
    Inputs <- MCInputs
    Mappers = {"wordcount", "wordlengths", "lettercount", "asciicount"}
    Letters = {"A", "a", "b"}
    tolower <- MCtolower
    PipeSize = 1
    OlderSizes = {0, 12}
    Faults = {"fork", "input", "mapper", "reducer"}
    CommandLines <- MCTyped
    Answers <- MCAnswers
    LocalFiles <- MCLocalFiles
    NoFile = NoFile
    BUFFER = 2
    MayChange = TRUE
    TypedLines <- MCTypedLines
    ServerPosts <- MCServerPosts
    MaxSigints = 2
    Resolvers = {1, 2, 3, 4}
    asks <- MCasks
    ClientCache <- MCClientCache
    ServerCache <- MCServerCache
    Zone <- MCZone
    MaxSends = 2
    MaxFds = 2
SPECIFICATION ProgramsSpec
INVARIANTS
    SemamoreIsSound CrackersAreExact ThreadLabsAreSafe OutputCountsInput
    ClientIsTruthful ChatClientInOrder ResolverIsRight
PROPERTIES ProgramsEnd
\* The programs end.
CHECK_DEADLOCK FALSE

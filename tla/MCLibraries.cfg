\* malloc: requests below, at and above the size from which a block is split.
\* mmu: fewer frames than two processes with all their tables and pages need.
\* minixfs: two files need more blocks than there are, one fills both levels.
CONSTANTS
    META = 1
    HeapLimit = 11
    Sizes = {0, 1, 2, 5, 254}
    Counts = {2}
    SIZE_MOD = 256
    Pids = {7, 8}
    Pages = {1, 2, 3, 4, 5}
    VPN0 <- MCVPN0
    TestPage1 = 1
    TestPage2 = 2
    Segment <- MCSegment
    NumFrames = 5
    TlbSize = 2
    Data = {1}
    MaxAdds = 2
    Elements = {1, 2}
    INITIAL_CAPACITY = 2
    MaxSize = 4
    Delimiter = " "
    Texts <- MCTexts
    MaxLen = 4
    Addresses = {1, 2, 3}
    MvSizes = {0, 1, 2}
    MaxTotal = 7
    MaxInvalid = 1
    Typed <- MCTyped
    Searched <- MCSearched
    MaxLines = 2
    MaxLineLen = 3
    Jobs = {1, 2, 3}
    priority <- MCPriority
    runtime <- MCRuntime
    Schemes = {"FCFS", "PRI", "PPRI", "PSRTF", "SJF", "RR"}
    MaxTime = 2
    Names = {"f", "g", "h"}
    NumBlocks = 6
    BlockSize = 2
    DirentsPerBlock = 2
    NUM_DIRECT = 2
    NUM_INDIRECT = 2
    WriteCounts = {3, 7}
    Seeds = {0, 1}
    Permissions = {512}
    Owners = {1}
    Chowned = {"h"}
    Inputs <- MCInputs
    Trees <- MCTrees
    NotATree = NotATree
    Words <- MCWords
    Sources <- MCSources
    LIMIT = 2
    EXTRACT = 1
    PAGE_SIZE = 3
    ITERATIONS = 2
    MoveFaults = {"read", "write", "shred"}
    CommandLines <- MCLines
SPECIFICATION LibrariesSpec
INVARIANTS
    MemoryIsSafe ListsAreSound PagesKeepTheirData VectorIsSound LeaksAreCounted
    EditorKeepsText ScheduleAccounts FileSystemIsSound ToolsMatchReference
\* The programs end, and a library need not be called again.
CHECK_DEADLOCK FALSE

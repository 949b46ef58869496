\* Buffers of two units, a send buffer of three.
CONSTANTS
    Clients = {1, 2}
    Names = {"a", "b"}
    Scripts <- MCScripts
    MayVanish = {2}
    Earlier <- MCEarlier
    CHUNK = 2
    HEADER = 2
    WINDOW = 3
SPECIFICATION FairSpec
INVARIANT FilesAreFaithful
PROPERTY EveryRequestAnswered
CHECK_DEADLOCK FALSE

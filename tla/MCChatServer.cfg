\* Three clients for two slots; the first may leave and SIGINT may come.
CONSTANTS
    Conns = 3
    MAX_CLIENTS = 2
    Quota <- FirstTwo
    MayLeave <- First
    Interrupts = TRUE
SPECIFICATION FairSpec
INVARIANTS TableIsSound BroadcastOrder
PROPERTIES EveryMessageDelivered
CHECK_DEADLOCK FALSE

\* A client leaves while another one's message is broadcast.
CONSTANTS
    Conns = 2
    MAX_CLIENTS = 2
    Quota <- One
    MayLeave <- First
    Interrupts = FALSE
SPECIFICATION Spec
INVARIANT WriteFailureReturns
CHECK_DEADLOCK FALSE

\* Three pushers and two pullers over a queue of two slots.
CONSTANTS
    p1 = p1
    p2 = p2
    p3 = p3
    c1 = c1
    c2 = c2
    Producers = {p1, p2, p3}
    Consumers = {c1, c2}
    max_size = 2
    Calls <- MCCalls
SPECIFICATION FairSpec
INVARIANT NoLostWakeup
PROPERTIES ImplementsFifo EveryCallReturns

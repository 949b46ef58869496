\* Two workers build two goals that share a dependency.
CONSTANTS
    root = root
    a = a
    b = b
    c = c
    d = d
    w1 = w1
    w2 = w2
    Rules = {a, b, c, d}
    Root = root
    Deps <- DiamondDeps
    Commands <- DiamondCommands
    FileRules = {a, b, c}
    Workers = {w1, w2}
    Times = {1, 2}
SPECIFICATION FairSpec
INVARIANTS RunsInOrder ResultIsTrue
PROPERTIES Terminates DecidedForGood

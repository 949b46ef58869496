\* Two goals, one of which fails while the other waits for its dependencies.
CONSTANTS
    root = root
    a = a
    b = b
    c = c
    d = d
    w1 = w1
    w2 = w2
    Rules = {a, b, c, d}
    Root = root
    Deps <- DiamondDeps
    Commands <- DiamondCommands
    FileRules = {a, b, c}
    Workers = {w1, w2}
    Times = {1}
SPECIFICATION Spec
INVARIANT DescendantsStillRun

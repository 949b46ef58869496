\* Every makefile of up to four lines over three names.
CONSTANTS
    a = a
    b = b
    c = c
    Targets = {a, b, c}
    Goals <- GoalSets
    MaxLines = 4
SPECIFICATION PrepareSpec
SYMMETRY Names
INVARIANTS ParsedRight PreparedRight

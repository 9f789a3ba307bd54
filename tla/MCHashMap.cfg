SPECIFICATION MapSpec
CONSTANTS
    N = 11
    RemoveUpTo = 6
    E = 3
    BusyUpTo = 2
INVARIANTS
    Found
    Balanced
    Iteration
    ListsKept

SPECIFICATION Spec
CONSTANTS
    Addr = {0, 1, 2}
    Byte = 4
    Word = 1024
    Size = 4096
INVARIANTS
    SumsExact
    ToldIsCurrent
    AveragesAreMeans

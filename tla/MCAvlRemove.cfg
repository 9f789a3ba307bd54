SPECIFICATION Spec
CONSTANTS
    N = 7
    RemoveUpTo = 7
INVARIANT
    ParentIsParent

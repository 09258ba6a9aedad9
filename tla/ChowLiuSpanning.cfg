CONSTANTS
    N = 4
    Root = 1
SPECIFICATION Spec
INVARIANT
    TreeSpansColumns

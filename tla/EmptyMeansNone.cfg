\* Assertions for a side without assertion verifiers.
SPECIFICATION VerdictSpec
CONSTANTS
    Ids = {"i1", "i2"}
\* A peer has presented everything.
CHECK_DEADLOCK FALSE
INVARIANT
    EmptyMeansNone

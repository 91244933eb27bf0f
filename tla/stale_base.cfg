\* One header declaring two classes.
\* CHECK_DEADLOCK FALSE: the generator terminates (done or exit).
CONSTANTS
    Names = {"A", "B"}
    Vars = {"m"}
    NumFiles = 1
    ClassesPerFile = 2
    MaxGlobals = 1
SPECIFICATION Spec
INVARIANT StubsMatchBase
CHECK_DEADLOCK FALSE

\* Two headers of up to two classes each, and up to two map declarations.
\* CHECK_DEADLOCK FALSE: the generator terminates (done or exit).
CONSTANTS
    Names = {"A", "B", "C"}
    Vars = {"m"}
    NumFiles = 2
    ClassesPerFile = 2
    MaxGlobals = 2
SPECIFICATION Spec
INVARIANT TypeOK
 
CHECK_DEADLOCK FALSE

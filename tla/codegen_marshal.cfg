\* Stub and skeleton layouts of methods with plain and pointer arguments.
\* CHECK_DEADLOCK FALSE: get_method has returned or exited, nothing follows.
CONSTANTS
    Bases = {"SWObject", "MWObject"}
    ArgTypes <- MC_PlainTypes
    MaxArgs = 3
SPECIFICATION Spec
INVARIANT TypeOK
INVARIANT MarshalAgree
CHECK_DEADLOCK FALSE

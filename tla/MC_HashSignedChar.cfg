\* A build where char is signed (x86 with gcc or clang).
CONSTANTS
    Inputs <- MC_Inputs
    Seeds <- MC_Seeds
    CharIsSigned = {TRUE}
SPECIFICATION Spec
INVARIANT HashMatchesReference
CHECK_DEADLOCK FALSE

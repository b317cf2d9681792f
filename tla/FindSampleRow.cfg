\* A token is accepted that the target never puts out in its place.
SPECIFICATION Spec
CONSTANTS
    K = 2
    VocabSize = 2
    FanOut <- MCFanOut
    Mass = 2
INVARIANTS
    EmittedByTarget
CHECK_DEADLOCK FALSE

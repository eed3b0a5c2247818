CONSTANTS
    Streams <- Two
    Bodies <- TheBodies
    Scenes <- Pairs
SPECIFICATION Spec
INVARIANTS
    StreamsAreIndependent
CHECK_DEADLOCK FALSE

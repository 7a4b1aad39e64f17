CONSTANTS
    MaxLength = 2
    UsizeModulus = 5
    Inputs <- MixedInputs
SPECIFICATION FairSpec
CHECK_DEADLOCK FALSE
INVARIANTS BufferBound FramesAsDefined
PROPERTIES DecodingEnds

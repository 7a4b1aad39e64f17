CONSTANTS
    MaxLength = 2
    UsizeModulus = 5
    Inputs <- TextInputs
SPECIFICATION Spec
CHECK_DEADLOCK FALSE
INVARIANTS SkipsOffendingFrameOnly

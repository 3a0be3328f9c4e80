CONSTANTS
    MaxFifo = 64
    Masks <- MC_MasksAll
    IntStatus = FALSE
    DmpLen = 16
    SwitchFaults = FALSE
    GapSamples = 1
    MaxFaults = 0

SPECIFICATION Spec

INVARIANT NoMisframedSample

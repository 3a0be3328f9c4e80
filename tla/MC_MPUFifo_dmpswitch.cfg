CONSTANTS
    MaxFifo = 64
    Masks <- MC_MasksAligned
    IntStatus = FALSE
    DmpLen = 16
    SwitchFaults = TRUE
    GapSamples = 1
    MaxFaults = 1

SPECIFICATION Spec

INVARIANT NoMisframedSample

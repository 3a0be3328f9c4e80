CONSTANTS
    MaxFifo = 64
    Masks <- MC_MasksAligned
    IntStatus = TRUE
    DmpLen = 16
    SwitchFaults = FALSE
    GapSamples = 2
    MaxFaults = 1

SPECIFICATION Spec

INVARIANT TypeOK
INVARIANT NoMisframedSample
INVARIANT SingleLayout

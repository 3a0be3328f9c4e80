CONSTANTS
    GyroFactory <- MC_GyroFactory
    AccelFactory <- MC_AccelFactory
    Corrections <- MC_Corrections
    MaxCalls = 4
    MaxFaults = 1

SPECIFICATION Spec

INVARIANT AccelTrimBitKept
INVARIANT FaultFreeBiasMatchesCalls

CONSTANTS
    GyroReqs <- MC_GyroReqs
    AccelReqs <- MC_AccelReqs
    LpfReqs <- MC_LpfReqs
    RateReqs <- MC_RateReqs
    LpRates <- MC_LpRatesRegs
    SensorReqs <- MC_SensorReqs
    FifoReqs <- MC_FifoReqs
    DmpRate = 200
    FwChunks = 2
    MaxIO = 26
    MaxFaults = 1
    Calls <- MC_CallsRegs

SPECIFICATION Spec

INVARIANT TypeOK
INVARIANT RegisterCacheCoherent

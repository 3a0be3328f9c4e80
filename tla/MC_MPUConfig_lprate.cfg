CONSTANTS
    GyroReqs <- MC_GyroReqs
    AccelReqs <- MC_AccelReqs
    LpfReqs <- MC_LpfReqs
    RateReqs <- MC_RateReqs
    LpRates <- MC_LpRates
    SensorReqs <- MC_SensorReqs
    FifoReqs <- MC_FifoReqs
    DmpRate = 200
    FwChunks = 2
    MaxIO = 26
    MaxFaults = 0
    Calls <- MC_CallsFifo

SPECIFICATION Spec

INVARIANT SampleRateReportsChip

---------------------------- MODULE MC_MPUConfig ----------------------------
(* Model values for checking MPUConfig.  Together with the values mpu_init *)
(* itself passes (2000 dps, 2 g, 42 Hz, 50 Hz) the arguments below reach   *)
(* every branch of the setters: an unsupported range, a rate whose divider *)
(* does not divide 1000 evenly (300 Hz runs at 333 Hz), a rate low enough  *)
(* to stay in low-power mode, and masks with and without gyros, the        *)
(* accel-only mask (the latch special case) and the compass bit.           *)
EXTENDS MPUConfig

MC_GyroReqs == {250, 300}
MC_AccelReqs == {16}
MC_LpfReqs == {5}
MC_RateReqs == {300, 5}
MC_LpRates == {20}
MC_LpRatesRegs == {0, 20}
MC_SensorReqs == {{}, {"A"}, {"XG", "A"}, {"XG", "YG", "ZG", "A", "C"}}
MC_FifoReqs == {{}, {"XG", "A"}, {"XG", "YG", "ZG", "A", "C"}}

(* The calls of each run: the register setters with everything that calls *)
(* them from inside (low-power mode, the DMP switch); the FIFO and DMP     *)
(* calls with the sensor and rate calls that interact with them.           *)
MC_CallsRegs == {"restart", "gyro_fsr", "accel_fsr", "lpf", "sample_rate",
                 "lp_accel", "sensors", "bypass", "int_latched", "load", "dmp"}
MC_CallsFifo == {"restart", "sample_rate", "lp_accel", "sensors", "fifo",
                 "reset_fifo", "int_level", "load", "dmp"}
=============================================================================

----------------------------- MODULE MPUConfig -----------------------------
(***************************************************************************)
(* The configuration engine of the MPU6050 driver (lib/mpu6050/inv_mpu.c): *)
(* the cached chip configuration st.chip_cfg, the chip registers it        *)
(* mirrors, and every public operation that changes either.                *)
(*                                                                         *)
(* The driver is single threaded and every call is synchronous, so one     *)
(* call of a public function is one atomic step of this specification.    *)
(* Inside a call the C code is rendered as operators over a "call frame"   *)
(* d = [hw, cfg, io, fail, rc]: hw is the register file, cfg the cache,    *)
(* io the number of bus transactions issued so far in this call, rc the   *)
(* return code of the last operator.  The bus transaction whose number is *)
(* d.fail fails (the twi driver reports an error and the register keeps   *)
(* its value); fail = 0 is a call in which every transaction succeeds.    *)
(* Nested driver calls are operator applications, and the code's early    *)
(* returns are the IF/ELSE chains.                                         *)
(***************************************************************************)
EXTENDS Integers, FiniteSets, Sequences, FiniteSetsExt

CONSTANTS
    GyroReqs,     \* dps values passed to mpu_set_gyro_fsr
    AccelReqs,    \* g values passed to mpu_set_accel_fsr
    LpfReqs,      \* Hz values passed to mpu_set_lpf
    RateReqs,     \* Hz values passed to mpu_set_sample_rate
    LpRates,      \* values passed to mpu_lp_accel_mode (0 = leave LP mode)
    SensorReqs,   \* masks passed to mpu_set_sensors
    FifoReqs,     \* masks passed to mpu_configure_fifo
    DmpRate,      \* sample_rate argument of mpu_load_firmware
    FwChunks,     \* length of the DMP image in LOAD_CHUNK (16 byte) chunks
    MaxIO,        \* bound on the bus transactions of one call (failure index)
    MaxFaults,    \* bound on the failed bus transactions of one behaviour
    Calls         \* the public functions the caller uses in a model

ASSUME FwChunks \in Nat \ {0} /\ DmpRate \in 1..1000 /\ MaxIO \in Nat /\ MaxFaults \in Nat

VARIABLES
    hw,      \* the chip's registers
    cfg,     \* st.chip_cfg, the driver's cache of them
    inited,  \* mpu_init has returned 0 since the MCU last (re)started
    faults   \* failed bus transactions so far (bounded by MaxFaults)

vars == <<hw, cfg, inited, faults>>

(***************************************************************************)
(* Sensor masks.  A mask is the set of its INV_* bits: gyro axes, the     *)
(* accelerometer (one bit for all three axes) and the compass.  The cache *)
(* sentinel 0xFF is the mask with every bit set.                           *)
(***************************************************************************)
SENSOR == {"XG", "YG", "ZG", "A", "C"}
GYRO == {"XG", "YG", "ZG"}
STANDBY == {"XG", "YG", "ZG", "A"}   \* sensors with a PWR_MGMT_2 standby bit
ALL_BITS == SENSOR                   \* 0xFF

UNKNOWN8 == 255      \* 0xFF sentinel of the byte fields of chip_cfg
UNKNOWN16 == 65535   \* 0xFFFF sentinel of sample_rate

(* PWR_MGMT_1 values the driver writes. *)
CLK_INTERNAL == 0
CLK_PLL == 1
BIT_LPA_CYCLE == 32
BIT_SLEEP == 64

(* INT_ENABLE values. *)
BIT_DATA_RDY_EN == 1
BIT_DMP_INT_EN == 2

(* The full-scale-range selects (gyro_fsr_e, accel_fsr_e). *)
GyroFsrCode == [x \in {250, 500, 1000, 2000} |->
                  CASE x = 250 -> 0 [] x = 500 -> 1 [] x = 1000 -> 2 [] x = 2000 -> 3]
AccelFsrCode == [x \in {2, 4, 8, 16} |->
                  CASE x = 2 -> 0 [] x = 4 -> 1 [] x = 8 -> 2 [] x = 16 -> 3]

(* mpu_set_lpf: the highest tier at or below the request, INV_FILTER_5HZ  *)
(* (6) below 10 Hz.  Tier k of lpf_e starts at LpfFloor[k].               *)
LpfFloor == <<188, 98, 42, 20, 10>>
LpfCode(hz) == LET k == {i \in 1..5 : hz >= LpfFloor[i]}
               IN IF k = {} THEN 6 ELSE Min(k)

(* The register file after a chip reset (BIT_RESET in PWR_MGMT_1). *)
HwReset == [gyro_cfg |-> 0, accel_cfg |-> 0, lpf |-> 0, rate_div |-> 0,
            fifo_en |-> {}, int_enable |-> 0, user_ctrl |-> {},
            pwr1 |-> BIT_SLEEP, pwr2 |-> [wake |-> 0, stby |-> {}],
            int_pin_cfg |-> {}]

(* st is a static, so before mpu_init the cache is all zero. *)
CfgZero == [gyro_fsr |-> 0, accel_fsr |-> 0, sensors |-> {}, lpf |-> 0,
            sample_rate |-> 0, fifo_enable |-> {}, int_enable |-> 0,
            bypass_mode |-> 0, lp_accel_mode |-> FALSE,
            active_low_int |-> FALSE, latched_int |-> FALSE,
            dmp_on |-> FALSE, dmp_loaded |-> FALSE, dmp_sample_rate |-> 0]

-----------------------------------------------------------------------------
(***************************************************************************)
(* Call frames and bus transactions.                                       *)
(***************************************************************************)
Start(f) == [hw |-> hw, cfg |-> cfg, io |-> 0, fail |-> f, rc |-> 0]

Ret(d, code) == [d EXCEPT !.rc = code]

Failing(d) == d.io + 1 = d.fail   \* the next transaction fails

(* i2c_write of one register. *)
Write(d, r, v) ==
    IF Failing(d) THEN [d EXCEPT !.io = @ + 1, !.rc = -1]
    ELSE [d EXCEPT !.io = @ + 1, !.hw[r] = v, !.rc = 0]

(* A run of i2c_writes, each "if (i2c_write(...)) return -1;". *)
RECURSIVE WriteSeq(_, _)
WriteSeq(d, s) ==
    IF s = <<>> THEN Ret(d, 0)
    ELSE LET w == Write(d, Head(s)[1], Head(s)[2])
         IN IF w.rc # 0 THEN w ELSE WriteSeq(w, Tail(s))

(* i2c_read: only the transaction and its status matter to the driver. *)
Read(d) == IF Failing(d) THEN [d EXCEPT !.io = @ + 1, !.rc = -1]
           ELSE [d EXCEPT !.io = @ + 1, !.rc = 0]

(* n transactions whose data the configuration engine does not keep. *)
Transfer(d, n) ==
    [d EXCEPT !.io = @ + n,
              !.rc = IF d.fail \in d.io + 1 .. d.io + n THEN -1 ELSE 0]

(* Write a register, and on success record the value in cache field f. *)
WriteThenCache(d, r, f, v) ==
    LET w == Write(d, r, v) IN IF w.rc # 0 THEN w ELSE [w EXCEPT !.cfg[f] = v]

(* INT_PIN_CFG composed from the bypass, active-low and latch flags. *)
PinCfg(bypass, actl, latch) ==
    {b \in {"BYPASS_EN", "ACTL", "LATCH_EN"} :
        \/ b = "BYPASS_EN" /\ bypass
        \/ b = "ACTL" /\ actl
        \/ b = "LATCH_EN" /\ latch}

-----------------------------------------------------------------------------
(***************************************************************************)
(* The driver's functions, in the order of inv_mpu.c.                      *)
(***************************************************************************)

(* set_int_enable: DMP interrupt while the DMP is on, else data ready. *)
set_int_enable(d, enable) ==
    IF d.cfg.dmp_on
    THEN WriteThenCache(d, "int_enable", "int_enable",
                        IF enable THEN BIT_DMP_INT_EN ELSE 0)
    ELSE IF d.cfg.sensors = {} THEN Ret(d, -1)
    ELSE IF enable /\ d.cfg.int_enable # 0 THEN Ret(d, 0)
    ELSE WriteThenCache(d, "int_enable", "int_enable",
                        IF enable THEN BIT_DATA_RDY_EN ELSE 0)

(* Mutant: the cache keeps the register byte (data) without ">> 3". *)
SetGyroFsrCachesRegByte(d, fsr) ==
    IF d.cfg.sensors = {} THEN Ret(d, -1)
    ELSE IF fsr \notin DOMAIN GyroFsrCode THEN Ret(d, -1)
    ELSE IF d.cfg.gyro_fsr = GyroFsrCode[fsr] THEN Ret(d, 0)
    ELSE LET w == Write(d, "gyro_cfg", GyroFsrCode[fsr])
         IN IF w.rc # 0 THEN w
            ELSE [w EXCEPT !.cfg.gyro_fsr = GyroFsrCode[fsr] * 8]

mpu_set_gyro_fsr(d, fsr) ==
    IF d.cfg.sensors = {} THEN Ret(d, -1)
    ELSE IF fsr \notin DOMAIN GyroFsrCode THEN Ret(d, -1)
    ELSE IF d.cfg.gyro_fsr = GyroFsrCode[fsr] THEN Ret(d, 0)
    ELSE WriteThenCache(d, "gyro_cfg", "gyro_fsr", GyroFsrCode[fsr])

mpu_set_accel_fsr(d, fsr) ==
    IF d.cfg.sensors = {} THEN Ret(d, -1)
    ELSE IF fsr \notin DOMAIN AccelFsrCode THEN Ret(d, -1)
    ELSE IF d.cfg.accel_fsr = AccelFsrCode[fsr] THEN Ret(d, 0)
    ELSE WriteThenCache(d, "accel_cfg", "accel_fsr", AccelFsrCode[fsr])

mpu_set_lpf(d, lpf) ==
    IF d.cfg.sensors = {} THEN Ret(d, -1)
    ELSE IF d.cfg.lpf = LpfCode(lpf) THEN Ret(d, 0)
    ELSE WriteThenCache(d, "lpf", "lpf", LpfCode(lpf))

mpu_set_int_latched(d, enable) ==
    IF d.cfg.latched_int = enable THEN Ret(d, 0)
    ELSE LET tmp == PinCfg(d.cfg.bypass_mode # 0, d.cfg.active_low_int, enable)
             w == Write(d, "int_pin_cfg", tmp)
         IN IF w.rc # 0 THEN w ELSE [w EXCEPT !.cfg.latched_int = enable]

mpu_set_int_level(d, active_low) ==
    Ret([d EXCEPT !.cfg.active_low_int = active_low], 0)

(* mpu_reset_fifo.  The FIFO_RST / DMP_RST bits clear themselves, so the  *)
(* pulse leaves USER_CTRL at 0 whatever happens next.                      *)
mpu_reset_fifo(d) ==
    IF d.cfg.sensors = {} THEN Ret(d, -1)
    ELSE LET c == d.cfg
             aux == IF "C" \in c.sensors THEN {"AUX_IF_EN"} ELSE {}
             head == << <<"int_enable", 0>>, <<"fifo_en", {}>>,
                        <<"user_ctrl", {}>>, <<"user_ctrl", {}>> >>
         IN IF c.dmp_on
            THEN WriteSeq(d, head \o
                   << <<"user_ctrl", {"DMP_EN", "FIFO_EN"} \cup aux>>,
                      <<"int_enable", IF c.int_enable # 0 THEN BIT_DMP_INT_EN ELSE 0>>,
                      <<"fifo_en", {}>> >>)
            ELSE WriteSeq(d, head \o
                   << <<"user_ctrl", {"FIFO_EN"} \cup
                                     (IF c.bypass_mode # 0 THEN {} ELSE aux)>>,
                      <<"int_enable", IF c.int_enable # 0 THEN BIT_DATA_RDY_EN ELSE 0>>,
                      <<"fifo_en", c.fifo_enable>> >>)

(* mpu_configure_fifo: the cache is updated before the reset, and rolled   *)
(* back if the reset fails.  The set_int_enable status is not checked.     *)
mpu_configure_fifo(d, sensors) ==
    LET req == sensors \ {"C"} IN
    IF d.cfg.dmp_on THEN Ret(d, 0)
    ELSE IF d.cfg.sensors = {} THEN Ret(d, -1)
    ELSE LET prev == d.cfg.fifo_enable
             d1 == [d EXCEPT !.cfg.fifo_enable = req \cap d.cfg.sensors]
             result == IF d1.cfg.fifo_enable # req THEN -1 ELSE 0
             d2 == set_int_enable(d1, req # {} \/ d.cfg.lp_accel_mode)
             d3 == mpu_reset_fifo(d2)
         IN IF req = {} THEN Ret(d2, result)
            ELSE IF d3.rc # 0 THEN Ret([d3 EXCEPT !.cfg.fifo_enable = prev], -1)
            ELSE Ret(d3, result)

(* PWR_MGMT_1 and PWR_MGMT_2 in one two-byte i2c_write.  The chip stores   *)
(* each data byte as it acknowledges it, so the write has two failure      *)
(* points: the address or first byte (nothing written) and the second byte *)
(* (PWR_MGMT_1 written, PWR_MGMT_2 not).                                   *)
WritePwr(d, p1, p2) ==
    CASE d.fail = d.io + 1 -> [d EXCEPT !.io = @ + 2, !.rc = -1]
      [] d.fail = d.io + 2 -> [d EXCEPT !.io = @ + 2, !.hw.pwr1 = p1, !.rc = -1]
      [] OTHER -> [d EXCEPT !.io = @ + 2, !.hw.pwr1 = p1, !.hw.pwr2 = p2, !.rc = 0]

(* LP_WAKE_CTRL and filter for a low-power accel rate (MPU6050 branch). *)
LpWake(rate) == CASE rate = 1 -> 0 [] rate <= 5 -> 1 [] rate <= 20 -> 2 [] OTHER -> 3
LpLpf(rate) == CASE rate <= 5 -> 5 [] rate <= 20 -> 10 [] OTHER -> 20

(* mpu_lp_accel_mode (MPU6050).  The latch and filter calls are unchecked. *)
mpu_lp_accel_mode(d, rate) ==
    IF rate = 0
    THEN LET w == WritePwr(mpu_set_int_latched(d, FALSE), CLK_INTERNAL,
                           [wake |-> 0, stby |-> GYRO])
         IN IF w.rc # 0 THEN w
            ELSE Ret([w EXCEPT !.cfg.lp_accel_mode = FALSE], 0)
    ELSE LET d1 == mpu_set_lpf(mpu_set_int_latched(d, TRUE), LpLpf(rate))
             w == WritePwr(d1, BIT_LPA_CYCLE, [wake |-> LpWake(rate), stby |-> GYRO])
         IN IF w.rc # 0 THEN w
            ELSE Ret(mpu_configure_fifo([w EXCEPT !.cfg.sensors = {"A"},
                                                  !.cfg.lp_accel_mode = TRUE], {}), 0)

(* Mutant: the requested (clamped) rate is cached instead of the achieved  *)
(* rate 1000/(1+div).                                                      *)
SetSampleRateCachesRequest(d, rate) ==
    IF d.cfg.sensors = {} \/ d.cfg.dmp_on THEN Ret(d, -1)
    ELSE IF d.cfg.lp_accel_mode /\ rate # 0 /\ rate <= 40
    THEN Ret(mpu_lp_accel_mode(d, rate), 0)
    ELSE LET d1 == IF d.cfg.lp_accel_mode THEN mpu_lp_accel_mode(d, 0) ELSE d
             r == IF rate < 4 THEN 4 ELSE IF rate > 1000 THEN 1000 ELSE rate
             w == Write(d1, "rate_div", 1000 \div r - 1)
             w2 == [w EXCEPT !.cfg.sample_rate = r]
         IN IF w.rc # 0 THEN Ret(w, -1)
            ELSE Ret(mpu_set_lpf(w2, w2.cfg.sample_rate \div 2), 0)

(* mpu_set_sample_rate: divider 1000/rate - 1, then the achieved rate is   *)
(* cached and the filter set to half of it (that status is unchecked).     *)
mpu_set_sample_rate(d, rate) ==
    IF d.cfg.sensors = {} \/ d.cfg.dmp_on THEN Ret(d, -1)
    ELSE IF d.cfg.lp_accel_mode /\ rate # 0 /\ rate <= 40
    THEN Ret(mpu_lp_accel_mode(d, rate), 0)
    ELSE LET d1 == IF d.cfg.lp_accel_mode THEN mpu_lp_accel_mode(d, 0) ELSE d
             r == IF rate < 4 THEN 4 ELSE IF rate > 1000 THEN 1000 ELSE rate
             div == 1000 \div r - 1
             w == Write(d1, "rate_div", div)
             w2 == [w EXCEPT !.cfg.sample_rate = 1000 \div (1 + div)]
         IN IF w.rc # 0 THEN Ret(w, -1)
            ELSE Ret(mpu_set_lpf(w2, w2.cfg.sample_rate \div 2), 0)

(* mpu_set_sensors: clock/sleep, then the standby bits.  A failure of     *)
(* either write leaves the cache saying "all asleep".                     *)
mpu_set_sensors(d, sensors) ==
    LET p1 == IF sensors \cap GYRO # {} THEN CLK_PLL
              ELSE IF sensors # {} THEN CLK_INTERNAL ELSE BIT_SLEEP
        w1 == Write(d, "pwr1", p1)
        w2 == Write(w1, "pwr2", [wake |-> 0, stby |-> STANDBY \ sensors])
        w3 == IF sensors # {} /\ sensors # {"A"}
              THEN mpu_set_int_latched(w2, FALSE) ELSE w2
    IN IF w1.rc # 0 THEN Ret([w1 EXCEPT !.cfg.sensors = {}], -1)
       ELSE IF w2.rc # 0 THEN Ret([w2 EXCEPT !.cfg.sensors = {}], -1)
       ELSE Ret([w3 EXCEPT !.cfg.sensors = sensors,
                           !.cfg.lp_accel_mode = FALSE], 0)

(* mpu_set_bypass: read-modify-write of USER_CTRL, then INT_PIN_CFG. *)
mpu_set_bypass(d, bypass_on) ==
    IF d.cfg.bypass_mode = bypass_on THEN Ret(d, 0)
    ELSE LET r == Read(d)
             uc == IF bypass_on = 0 /\ "C" \in d.cfg.sensors
                   THEN d.hw.user_ctrl \cup {"AUX_IF_EN"}
                   ELSE d.hw.user_ctrl \ {"AUX_IF_EN"}
             w == WriteSeq(r, << <<"user_ctrl", uc>>,
                                 <<"int_pin_cfg", PinCfg(bypass_on = 1,
                                     d.cfg.active_low_int, d.cfg.latched_int)>> >>)
         IN IF r.rc # 0 THEN r
            ELSE IF w.rc # 0 THEN w
            ELSE [w EXCEPT !.cfg.bypass_mode = bypass_on]

(* mpu_load_firmware: one-shot; per 16-byte chunk mpu_write_mem (bank      *)
(* select + data) and mpu_read_mem (bank select + data) then a compare,    *)
(* then the program start address.  The memory contents are the subject   *)
(* of DmpLoader; here a chunk costs its four transactions and any failure *)
(* (or a read-back mismatch, which returns like one) aborts the load.     *)
mpu_load_firmware(d, sample_rate) ==
    IF d.cfg.dmp_loaded THEN Ret(d, -1)
    ELSE IF d.cfg.sensors = {} THEN Ret(d, -2)
    ELSE LET t == Transfer(d, 4 * FwChunks + 1)
         IN IF t.rc # 0 THEN t
            ELSE [t EXCEPT !.cfg.dmp_loaded = TRUE,
                           !.cfg.dmp_sample_rate = sample_rate]

(* Mutant: the DMP is switched on without clearing FIFO_EN first. *)
SetDmpStateKeepsFifoEn(d, enable) ==
    IF d.cfg.dmp_on = enable THEN Ret(d, 0)
    ELSE IF enable
    THEN IF ~d.cfg.dmp_loaded THEN Ret(d, -1)
         ELSE LET d1 == mpu_set_bypass(set_int_enable(d, FALSE), 0)
                  w == mpu_set_sample_rate(d1, d1.cfg.dmp_sample_rate)
              IN Ret(mpu_reset_fifo(set_int_enable(
                            [w EXCEPT !.cfg.dmp_on = TRUE], TRUE)), 0)
    ELSE LET d1 == set_int_enable(d, FALSE)
             w == Write(d1, "fifo_en", d1.cfg.fifo_enable)
         IN IF w.rc # 0 THEN w
            ELSE Ret(mpu_reset_fifo([w EXCEPT !.cfg.dmp_on = FALSE]), 0)

(* mpu_set_dmp_state.  Only the FIFO_EN write is checked: the interrupt,   *)
(* bypass, rate and FIFO-reset calls may fail and the call still succeeds. *)
mpu_set_dmp_state(d, enable) ==
    IF d.cfg.dmp_on = enable THEN Ret(d, 0)
    ELSE IF enable
    THEN IF ~d.cfg.dmp_loaded THEN Ret(d, -1)
         ELSE LET d1 == mpu_set_bypass(set_int_enable(d, FALSE), 0)
                  d2 == mpu_set_sample_rate(d1, d1.cfg.dmp_sample_rate)
                  w == Write(d2, "fifo_en", {})
              IN IF w.rc # 0 THEN w
                 ELSE Ret(mpu_reset_fifo(set_int_enable(
                            [w EXCEPT !.cfg.dmp_on = TRUE], TRUE)), 0)
    ELSE LET d1 == set_int_enable(d, FALSE)
             w == Write(d1, "fifo_en", d1.cfg.fifo_enable)
         IN IF w.rc # 0 THEN w
            ELSE Ret(mpu_reset_fifo([w EXCEPT !.cfg.dmp_on = FALSE]), 0)

(* mpu_init: chip reset, wake, every cached field set "unknown", then the  *)
(* defaults, each sub-step with its own error code.                        *)
ChipReset(d) ==
    IF Failing(d) THEN [d EXCEPT !.io = @ + 1, !.rc = -1]
    ELSE [d EXCEPT !.io = @ + 1, !.hw = HwReset, !.rc = 0]

Unknown(c) ==
    [c EXCEPT !.sensors = ALL_BITS, !.gyro_fsr = UNKNOWN8,
              !.accel_fsr = UNKNOWN8, !.lpf = UNKNOWN8,
              !.sample_rate = UNKNOWN16, !.fifo_enable = ALL_BITS,
              !.bypass_mode = UNKNOWN8, !.active_low_int = TRUE,
              !.latched_int = FALSE, !.lp_accel_mode = FALSE,
              !.dmp_on = FALSE, !.dmp_loaded = FALSE, !.dmp_sample_rate = 0]

mpu_init(d) ==
    LET r == ChipReset(d)
        w == Write(r, "pwr1", CLK_INTERNAL)
        s0 == [w EXCEPT !.cfg = Unknown(w.cfg)]
        s1 == mpu_set_gyro_fsr(s0, 2000)
        s2 == mpu_set_accel_fsr(s1, 2)
        s3 == mpu_set_lpf(s2, 42)
        s4 == mpu_set_sample_rate(s3, 50)
        s5 == mpu_configure_fifo(s4, {})
        s6 == mpu_set_bypass(s5, 0)
    IN IF r.rc # 0 THEN Ret(r, -1)
       ELSE IF w.rc # 0 THEN Ret(w, -2)
       ELSE IF s1.rc # 0 THEN Ret(s1, -30)
       ELSE IF s2.rc # 0 THEN Ret(s2, -31)
       ELSE IF s3.rc # 0 THEN Ret(s3, -32)
       ELSE IF s4.rc # 0 THEN Ret(s4, -33)
       ELSE IF s5.rc # 0 THEN Ret(s5, -34)
       ELSE IF s6.rc # 0 THEN Ret(s6, -4)
       ELSE Ret(mpu_set_sensors(s6, {}), 0)

(***************************************************************************)
(* The getters: what each reports from the cache alone, as [rc, value].    *)
(* accel_half is cleared by mpu_init and never set on the MPU6050, so the  *)
(* doubling of mpu_get_accel_fsr never happens.                            *)
(***************************************************************************)
mpu_get_gyro_fsr(c) ==
    [rc |-> 0, fsr |-> CASE c.gyro_fsr = 0 -> 250 [] c.gyro_fsr = 1 -> 500
                         [] c.gyro_fsr = 2 -> 1000 [] c.gyro_fsr = 3 -> 2000
                         [] OTHER -> 0]

mpu_get_accel_fsr(c) ==
    IF c.accel_fsr \notin 0..3 THEN [rc |-> -1, fsr |-> 0]
    ELSE [rc |-> 0, fsr |-> <<2, 4, 8, 16>>[c.accel_fsr + 1]]

(* INV_FILTER_256HZ_NOLPF2, _2100HZ_NOLPF and unknown report 0. *)
mpu_get_lpf(c) ==
    [rc |-> 0, lpf |-> IF c.lpf \in 1..6 THEN <<188, 98, 42, 20, 10, 5>>[c.lpf] ELSE 0]

mpu_get_sample_rate(c) ==
    IF c.dmp_on THEN [rc |-> -1, rate |-> 0] ELSE [rc |-> 0, rate |-> c.sample_rate]

mpu_get_fifo_config(c) == c.fifo_enable

mpu_get_dmp_state(c) == c.dmp_on

-----------------------------------------------------------------------------
(***************************************************************************)
(* The specification.  Every call picks the transaction that fails (or     *)
(* none).  The caller retries mpu_init until it succeeds before it makes   *)
(* any other call; the MCU may restart at any time (watchdog, bootloader   *)
(* jump), which zeroes st but leaves the chip's registers as they were.    *)
(***************************************************************************)
FailIdx == IF faults < MaxFaults THEN 0..MaxIO ELSE {0}

(* What a call leaves behind: registers, cache, status, and whether one of *)
(* its transactions failed.                                                *)
Outcome(d) == [hw |-> d.hw, cfg |-> d.cfg, rc |-> d.rc,
               faulted |-> d.fail \in 1..d.io]

Outcomes(Op(_)) == {Outcome(Op(Start(f))) : f \in FailIdx}

Commit(o) ==
    /\ hw' = o.hw
    /\ cfg' = o.cfg
    /\ faults' = faults + (IF o.faulted THEN 1 ELSE 0)

Init ==
    /\ hw = HwReset
    /\ cfg = CfgZero
    /\ inited = FALSE
    /\ faults = 0

McuRestart ==
    /\ cfg' = CfgZero
    /\ inited' = FALSE
    /\ UNCHANGED <<hw, faults>>

CallInit ==
    \E o \in Outcomes(mpu_init) : Commit(o) /\ inited' = (o.rc = 0)

\* A call other than mpu_init, made once initialisation has succeeded.
Call(Op(_)) ==
    /\ inited
    /\ \E o \in Outcomes(Op) : Commit(o)
    /\ UNCHANGED inited

Next ==
    \/ CallInit
    \/ "restart" \in Calls /\ McuRestart
    \/ "gyro_fsr" \in Calls /\
          \E x \in GyroReqs : Call(LAMBDA d : mpu_set_gyro_fsr(d, x))
    \/ "accel_fsr" \in Calls /\
          \E x \in AccelReqs : Call(LAMBDA d : mpu_set_accel_fsr(d, x))
    \/ "lpf" \in Calls /\ \E x \in LpfReqs : Call(LAMBDA d : mpu_set_lpf(d, x))
    \/ "sample_rate" \in Calls /\
          \E x \in RateReqs : Call(LAMBDA d : mpu_set_sample_rate(d, x))
    \/ "lp_accel" \in Calls /\
          \E x \in LpRates : Call(LAMBDA d : mpu_lp_accel_mode(d, x))
    \/ "sensors" \in Calls /\
          \E x \in SensorReqs : Call(LAMBDA d : mpu_set_sensors(d, x))
    \/ "fifo" \in Calls /\
          \E x \in FifoReqs : Call(LAMBDA d : mpu_configure_fifo(d, x))
    \/ "reset_fifo" \in Calls /\ Call(mpu_reset_fifo)
    \/ "bypass" \in Calls /\
          \E x \in {0, 1} : Call(LAMBDA d : mpu_set_bypass(d, x))
    \/ "int_level" \in Calls /\
          \E x \in BOOLEAN : Call(LAMBDA d : mpu_set_int_level(d, x))
    \/ "int_latched" \in Calls /\
          \E x \in BOOLEAN : Call(LAMBDA d : mpu_set_int_latched(d, x))
    \/ "load" \in Calls /\ Call(LAMBDA d : mpu_load_firmware(d, DmpRate))
    \/ "dmp" \in Calls /\
          \E x \in BOOLEAN : Call(LAMBDA d : mpu_set_dmp_state(d, x))

Spec == Init /\ [][Next]_vars

-----------------------------------------------------------------------------
(***************************************************************************)
(* Properties.                                                             *)
(***************************************************************************)
TypeOK ==
    /\ hw \in [gyro_cfg : 0..3, accel_cfg : 0..3, lpf : 0..6, rate_div : 0..255,
               fifo_en : SUBSET SENSOR, int_enable : {0, 1, 2},
               user_ctrl : SUBSET {"FIFO_EN", "DMP_EN", "AUX_IF_EN"},
               pwr1 : {CLK_INTERNAL, CLK_PLL, BIT_LPA_CYCLE, BIT_SLEEP},
               pwr2 : [wake : 0..3, stby : SUBSET STANDBY],
               int_pin_cfg : SUBSET {"BYPASS_EN", "ACTL", "LATCH_EN"}]
    /\ cfg \in [gyro_fsr : 0..3 \cup {UNKNOWN8}, accel_fsr : 0..3 \cup {UNKNOWN8},
                sensors : SUBSET SENSOR, lpf : 0..6 \cup {UNKNOWN8},
                sample_rate : 0..1000 \cup {UNKNOWN16},
                fifo_enable : SUBSET SENSOR, int_enable : {0, 1, 2},
                bypass_mode : {0, 1, UNKNOWN8}, lp_accel_mode : BOOLEAN,
                active_low_int : BOOLEAN, latched_int : BOOLEAN,
                dmp_on : BOOLEAN, dmp_loaded : BOOLEAN,
                dmp_sample_rate : {0, DmpRate}]
    /\ inited \in BOOLEAN
    /\ faults \in 0..MaxFaults

(* The chip's configuration read off its registers, as the register map   *)
(* defines it: full scale 250 * 2^FS_SEL dps and 2 * 2^AFS_SEL g, the      *)
(* DLPF_CFG bandwidths (0 and 7: no filter), and the sample rate, the gyro *)
(* output rate (8 kHz without the filter, else 1 kHz) over 1 + SMPLRT_DIV. *)
ChipGyroDps(r) == 250 * 2^r.gyro_cfg
ChipAccelG(r) == 2 * 2^r.accel_cfg
ChipBandwidth(r) == CASE r.lpf \in {0, 7} -> 0 [] r.lpf = 1 -> 188 [] r.lpf = 2 -> 98
                      [] r.lpf = 3 -> 42 [] r.lpf = 4 -> 20 [] r.lpf = 5 -> 10
                      [] r.lpf = 6 -> 5
ChipRate(r) == (IF r.lpf \in {0, 7} THEN 8000 ELSE 1000) \div (1 + r.rate_div)

(* The write-skipping setters (gyro/accel range, filter, sample rate,      *)
(* bypass, latch) are only sound, and the getters only tell the truth, if  *)
(* the cache is what the chip holds: after a successful mpu_init, through  *)
(* any sequence of calls, bus failures and nested unchecked calls, the     *)
(* ranges, filter and (DMP off) sample rate the getters report are the    *)
(* chip's, and the bypass and latch flags match INT_PIN_CFG.  The rate is  *)
(* the divider's: in low-power cycle mode the accelerometer wakes at the   *)
(* LP_WAKE_CTRL frequency instead, which SampleRateReportsChip claims.    *)
RegisterCacheCoherent ==
    inited =>
      /\ mpu_get_gyro_fsr(cfg).fsr = ChipGyroDps(hw)
      /\ mpu_get_accel_fsr(cfg) = [rc |-> 0, fsr |-> ChipAccelG(hw)]
      /\ mpu_get_lpf(cfg).lpf = ChipBandwidth(hw)
      /\ ~cfg.dmp_on => mpu_get_sample_rate(cfg) = [rc |-> 0, rate |-> ChipRate(hw)]
      /\ cfg.bypass_mode # UNKNOWN8 =>
            ("BYPASS_EN" \in hw.int_pin_cfg) = (cfg.bypass_mode = 1)
      /\ ("LATCH_EN" \in hw.int_pin_cfg) = cfg.latched_int

(* While the cache says the DMP is on (it owns the FIFO and its packet     *)
(* layout), no raw sensor channel is enabled into the FIFO, whatever       *)
(* mpu_set_dmp_state, mpu_reset_fifo or mpu_configure_fifo did or failed.  *)
DmpOwnsFifo ==
    inited /\ mpu_get_dmp_state(cfg) => hw.fifo_en = {}

(* spec.md 3: the cache mirrors the hardware; for the FIFO: while the DMP  *)
(* is off the FIFO_EN register holds the cached fifo_enable mask.          *)
FifoMirrorsHardware ==
    inited /\ ~mpu_get_dmp_state(cfg) => hw.fifo_en = mpu_get_fifo_config(cfg)

(* The chip's sampling rate in hundredths of a Hz: in low-power cycle     *)
(* mode (PWR_MGMT_1.CYCLE) the accelerometer wakes at the LP_WAKE_CTRL      *)
(* frequency, 1.25, 5, 20 or 40 Hz; otherwise the divider's rate.           *)
ChipSampleCentiHz(r) ==
    IF r.pwr1 = BIT_LPA_CYCLE THEN <<125, 500, 2000, 4000>>[r.pwr2.wake + 1]
    ELSE 100 * ChipRate(r)

(* spec.md 3 and 4.1: the cache mirrors the hardware, and a caller re-reads *)
(* the rate it actually got from mpu_get_sample_rate.  Whenever a sensor is *)
(* awake and the DMP is off, the rate it reports is the one the chip        *)
(* samples at, also after mpu_lp_accel_mode or mpu_set_sample_rate in       *)
(* low-power mode have moved the chip to a wake frequency.                 *)
SampleRateReportsChip ==
    inited /\ cfg.sensors # {} /\ ~cfg.dmp_on =>
        100 * mpu_get_sample_rate(cfg).rate = ChipSampleCentiHz(hw)

=============================================================================

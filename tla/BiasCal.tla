------------------------------ MODULE BiasCal ------------------------------
(***************************************************************************)
(* The bias writers of inv_mpu.c (582-749): each reads the three offset   *)
(* registers of one sensor, subtracts the caller's correction             *)
(* and writes the three results back, one I2C transaction per register.   *)
(* The registers are signed 16-bit values; the read assembles the two     *)
(* bytes without sign extension into a long, the write keeps the low two   *)
(* bytes of the difference.  The accel writer clears bit 0 of each        *)
(* correction so that the factory-set bit 0 of the register is kept.  The *)
(* accel writer comes in two variants, identical but for the registers:    *)
(* XA/YA/ZA_OFFS (0x06..0x0B) of the MPU6050 and XA/YA/ZA_OFFSET (0x77,    *)
(* 0x7A, 0x7D) of the MPU6500; both are compiled in, so each is a bank.    *)
(*                                                                         *)
(* A call is one step.  One of its six transactions (three reads, three   *)
(* writes) may fail; the call returns -1 at once and the writes issued     *)
(* before stay on the chip.  No cache is involved: the chip is the state.  *)
(***************************************************************************)
EXTENDS Integers

CONSTANTS
    GyroFactory,   \* factory trim of XG/YG/ZG_OFFS (0x13..0x18), signed
    AccelFactory,  \* factory trim of each bank's accel offsets, signed
    Corrections,   \* the bias vectors callers pass (long[3])
    MaxCalls,      \* calls in one behaviour
    MaxFaults      \* failed transactions in one behaviour

Axes == 1..3

Banks == {"6050", "6500"}

Int16 == -32768..32767

ASSUME /\ GyroFactory \in [Axes -> Int16] /\ AccelFactory \in [Banks -> [Axes -> Int16]]
       /\ Corrections \subseteq [Axes -> Int]
       /\ MaxCalls \in Nat /\ MaxFaults \in Nat

VARIABLES
    gyro_reg,    \* the gyro offset registers, as the chip holds them
    accel_reg,   \* the accel offset registers of each bank
    gyro_sum,    \* sum (mod 2^16) of the corrections of calls that returned 0
    accel_sum,   \* the same for each accel writer, after its bit-0 mask
    calls,
    faults

vars == <<gyro_reg, accel_reg, gyro_sum, accel_sum, calls, faults>>

-----------------------------------------------------------------------------
(* ((long)data[0] << 8) | data[1]: the register's two bytes as an unsigned *)
(* value; a negative trim reads as 65536 + trim.                          *)
ReadU16(r) == r % 65536

(* (x >> 8) & 0xff and x & 0xff for a long x (arithmetic shift). *)
HiByte(x) == (x \div 256) % 256
LoByte(x) == x % 256

(* The register the chip holds after receiving bytes hi, lo. *)
FromBytes(hi, lo) == LET u == 256 * hi + lo IN IF u >= 32768 THEN u - 65536 ELSE u

(* Mutant: data[2i] and data[2i+1] filled the other way round. *)
WrittenRegSwapped(x) == FromBytes(LoByte(x), HiByte(x))

(* The register after writing data[2i] = (x >> 8) & 0xff, data[2i+1] = x & 0xff. *)
WrittenReg(x) == FromBytes(HiByte(x), LoByte(x))

(* Transactions of a call: 1..3 the reads of X, Y, Z, 4..6 their writes. *)
FailChoices == IF faults < MaxFaults THEN 0..6 ELSE {0}

(* The read-subtract-write of one setter, given the three register values, *)
(* the three deltas and the failing transaction f (0: none).  A failed     *)
(* read returns before any write; a failed write of axis a keeps the       *)
(* writes of the axes before it.                                          *)
BiasRMW(reg, delta, f) ==
    LET new == [a \in Axes |-> WrittenReg(ReadU16(reg[a]) - delta[a])]
    IN [rc  |-> IF f = 0 THEN 0 ELSE -1,
        reg |-> [a \in Axes |-> IF f = 0 \/ (f > 3 /\ a < f - 3) THEN new[a] ELSE reg[a]]]

(* Mutant: the correction subtracted as given, bit 0 included. *)
AccelDeltaUnmasked(b) == b

(* accel_bias[i] & ~1 *)
AccelDelta(b) == b - (b % 2)

-----------------------------------------------------------------------------
Init ==
    /\ gyro_reg = GyroFactory
    /\ accel_reg = AccelFactory
    /\ gyro_sum = [a \in Axes |-> 0]
    /\ accel_sum = [k \in Banks |-> [a \in Axes |-> 0]]
    /\ calls = 0
    /\ faults = 0

Count(f) ==
    /\ calls' = calls + 1
    /\ faults' = faults + (IF f = 0 THEN 0 ELSE 1)

(* mpu_set_gyro_bias_reg(gyro_bias) *)
mpu_set_gyro_bias_reg ==
    /\ calls < MaxCalls
    /\ \E b \in Corrections, f \in FailChoices :
         LET r == BiasRMW(gyro_reg, b, f)
         IN /\ gyro_reg' = r.reg
            /\ gyro_sum' = IF r.rc = 0 THEN [a \in Axes |-> (gyro_sum[a] + b[a]) % 65536]
                                       ELSE gyro_sum
            /\ Count(f)
    /\ UNCHANGED <<accel_reg, accel_sum>>

(* The accel writer on the registers of bank k. *)
SetAccelBias(k) ==
    /\ calls < MaxCalls
    /\ \E b \in Corrections, f \in FailChoices :
         LET d == [a \in Axes |-> AccelDelta(b[a])]
             r == BiasRMW(accel_reg[k], d, f)
         IN /\ accel_reg' = [accel_reg EXCEPT ![k] = r.reg]
            /\ accel_sum' = IF r.rc = 0
                            THEN [accel_sum EXCEPT ![k] =
                                    [a \in Axes |-> (@[a] + d[a]) % 65536]]
                            ELSE accel_sum
            /\ Count(f)
    /\ UNCHANGED <<gyro_reg, gyro_sum>>

(* mpu_set_accel_bias_6050_reg(accel_bias) *)
mpu_set_accel_bias_6050_reg == SetAccelBias("6050")

(* mpu_set_accel_bias_6500_reg(accel_bias) *)
mpu_set_accel_bias_6500_reg == SetAccelBias("6500")

(* The caller is done once its calls are used up. *)
Done ==
    /\ calls = MaxCalls
    /\ UNCHANGED vars

Next ==
    \/ mpu_set_gyro_bias_reg
    \/ mpu_set_accel_bias_6050_reg
    \/ mpu_set_accel_bias_6500_reg
    \/ Done

Spec == Init /\ [][Next]_vars

-----------------------------------------------------------------------------
(***************************************************************************)
(* Properties.                                                             *)
(***************************************************************************)
(* The reference meaning of a 16-bit two's-complement register. *)
Wrap16(x) == ((x + 32768) % 65536) - 32768

(* Both accel writers keep bit 0 of every accel offset register at its    *)
(* factory value ("Preserve bit 0 of factory value", says the 6500 writer; *)
(* spec.md 4.4), over any sequence of calls, odd and negative corrections, *)
(* wrap-around and calls that fail part-way.                               *)
AccelTrimBitKept ==
    \A k \in Banks, a \in Axes : accel_reg[k][a] % 2 = AccelFactory[k][a] % 2

(* Corrections accumulate (spec.md 8, "bias accumulation"): every offset  *)
(* register holds its factory trim minus the sum of the corrections of the *)
(* calls that returned 0, in 16-bit arithmetic.                            *)
BiasMatchesCalls ==
    \A a \in Axes :
        /\ gyro_reg[a] = Wrap16(GyroFactory[a] - gyro_sum[a])
        /\ \A k \in Banks : accel_reg[k][a] = Wrap16(AccelFactory[k][a] - accel_sum[k][a])

(* As long as no transaction has failed, the offset registers accumulate  *)
(* the corrections exactly (BiasMatchesCalls), over chains of calls whose *)
(* sums wrap, although each call reads the register unsigned into a long  *)
(* and writes the difference back as two bytes.  A failed call breaks the *)
(* relation for good: its earlier axes are written and it returns -1.     *)
FaultFreeBiasMatchesCalls ==
    faults = 0 => BiasMatchesCalls

=============================================================================

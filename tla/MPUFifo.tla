------------------------------ MODULE MPUFifo ------------------------------
(***************************************************************************)
(* The raw FIFO path of inv_mpu.c: mpu_read_fifo (1311-1381), the         *)
(* mpu_reset_fifo it calls on overflow (755-809, non-DMP branch),         *)
(* mpu_configure_fifo (1181-1215) and mpu_get_int_status (1283-1291),     *)
(* and the DMP path: mpu_read_fifo_stream (1390-1425), the DMP branch of  *)
(* mpu_reset_fifo and the FIFO side of mpu_set_dmp_state (1624-1663),    *)
(* with the chip appending a packet to its FIFO at every sample, and the  *)
(* DMP appending one of its own packets while DMP_EN is set.              *)
(*                                                                         *)
(* The chip samples on its own clock, so a sample can land between the    *)
(* three bus reads of mpu_read_fifo (count, INT_STATUS, packet): the call  *)
(* is three steps.  Other calls are atomic.  The FIFO is byte-oriented:    *)
(* when it is full, each new byte replaces the oldest one and              *)
(* FIFO_OFLOW_INT is set; reading INT_STATUS clears it.  The FIFO is      *)
(* modelled by its byte count, the channel layout of its packets, and the  *)
(* number of bytes of its oldest packet already lost (skew).               *)
(*                                                                         *)
(* The sensors are awake throughout and the DMP firmware is loaded        *)
(* (MPUConfig and DmpLoader model how they change); the cached sensor mask *)
(* is therefore every channel.  The calls mpu_set_dmp_state makes before  *)
(* its FIFO_EN write (set_int_enable, mpu_set_bypass, mpu_set_sample_rate) *)
(* have their status ignored and touch no FIFO register, so a failure in  *)
(* them is the same here as none.                                          *)
(***************************************************************************)
EXTENDS Integers, FiniteSets, FiniteSetsExt

CONSTANTS
    MaxFifo,    \* st.hw->max_fifo
    Masks,      \* the masks callers pass to mpu_configure_fifo
    IntStatus,  \* TRUE if the caller also calls mpu_get_int_status
    DmpLen,     \* the DMP packet, and the length passed to mpu_read_fifo_stream
    SwitchFaults, \* TRUE if the transactions of mpu_set_dmp_state may fail
    GapSamples, \* samples the chip takes while one read call is between its bus reads
    MaxFaults   \* failed transactions in one behaviour

Channels == {"accel", "gx", "gy", "gz"}

(* The layout of a DMP packet, opaque to the driver. *)
DMP_PKT == {"dmp"}

ASSUME /\ MaxFifo \in Nat /\ Masks \subseteq SUBSET Channels
       /\ IntStatus \in BOOLEAN /\ MaxFaults \in Nat
       /\ DmpLen \in 1..MaxFifo /\ SwitchFaults \in BOOLEAN /\ GapSamples \in Nat

VARIABLES
    fifo_enable, \* st.chip_cfg.fifo_enable
    fifo_en_reg, \* the FIFO_EN register
    fifo_on,     \* USER_CTRL.FIFO_EN
    dmp_en,      \* USER_CTRL.DMP_EN
    dmp_on,      \* st.chip_cfg.dmp_on
    count,       \* FIFO_COUNT, in bytes
    content,     \* channels of the newest packets in the FIFO
    mixed,       \* the FIFO also holds packets of another layout
    skew,        \* bytes of the oldest packet already overwritten
    overflow,    \* INT_STATUS.FIFO_OFLOW_INT
    pc,          \* "idle", or where mpu_read_fifo is: "counted", "checked"
    cnt,         \* the fifo_count local of mpu_read_fifo
    gap,         \* samples taken since the current read call began
    misframed,   \* some call returned 0 with a sample not cut from one whole packet
    faults

(* The chip's FIFO: its registers and what it holds. *)
chip == <<fifo_en_reg, fifo_on, dmp_en, count, content, mixed, skew>>

vars == <<fifo_enable, dmp_on, chip, overflow, pc, cnt, gap, misframed, faults>>

-----------------------------------------------------------------------------
(* Bytes per packet: 2 per gyro axis, 6 for the accel (1327-1334). *)
PacketSize(m) == (IF "accel" \in m THEN 6 ELSE 0) + 2 * Cardinality(m \ {"accel"})

(* Where the chip puts each channel in a packet: in register order,      *)
(* ACCEL_XOUT (6 bytes), then GYRO_XOUT, _YOUT, _ZOUT (2 bytes each).      *)
ChipRank == [accel |-> 0, gx |-> 1, gy |-> 2, gz |-> 3]

ChipSize(c) == IF c = "accel" THEN 6 ELSE 2

ChipOffsets(layout) ==
    [c \in layout |-> MapThenSumSet(ChipSize, {d \in layout : ChipRank[d] < ChipRank[c]})]

(* Mutant: the gyro axes decoded before the accel. *)
DecodeGyroFirst(fe) ==
    LET x == IF "gx" \in fe THEN 2 ELSE 0
        y == x + (IF "gy" \in fe THEN 2 ELSE 0)
        z == y + (IF "gz" \in fe THEN 2 ELSE 0)
    IN [c \in fe |-> CASE c = "gx" -> 0 [] c = "gy" -> x [] c = "gz" -> y
                       [] c = "accel" -> z]

(* Where the decoder of mpu_read_fifo takes each channel from in the     *)
(* packet: accel first, then gyro X, Y, Z, advancing index (1357-1378).   *)
DecodeOffsets(fe) ==
    LET a == IF "accel" \in fe THEN 6 ELSE 0
        x == a + (IF "gx" \in fe THEN 2 ELSE 0)
        y == x + (IF "gy" \in fe THEN 2 ELSE 0)
    IN [c \in fe |-> CASE c = "accel" -> 0 [] c = "gx" -> a [] c = "gy" -> x
                       [] c = "gz" -> y]

FailOr0(n) == IF faults < MaxFaults THEN 0..n ELSE {0}

Fault(f) == faults' = faults + (IF f = 0 THEN 0 ELSE 1)

(* Bytes of a packet of either layout. *)
LayoutSize(l) == IF l = DMP_PKT THEN DmpLen ELSE PacketSize(l)

(* Mutant: FIFO_EN restored from the cache before FIFO_RST is written. *)
ResetFifoEnFirst(f, cache, dmp, en0) ==
    LET done(k) == f = 0 \/ f > k
    IN [rc      |-> IF f = 0 THEN 0 ELSE -1,
        en      |-> IF dmp THEN (IF done(2) THEN {} ELSE en0)
                   ELSE IF done(2) THEN cache ELSE en0,
        on      |-> IF done(5) THEN TRUE ELSE IF done(3) THEN FALSE ELSE fifo_on,
        dmpen   |-> IF done(5) THEN dmp ELSE IF done(3) THEN FALSE ELSE dmp_en,
        emptied |-> done(4)]

(* mpu_reset_fifo with transaction f failing (0: none), FIFO_EN holding en0 *)
(* and the branch of dmp = st.chip_cfg.dmp_on: 1 INT_ENABLE 0, 2 FIFO_EN 0,*)
(* 3 USER_CTRL 0 (FIFO and DMP stop), 4 FIFO_RST (with DMP_RST), 5        *)
(* USER_CTRL FIFO_EN (with DMP_EN in the DMP branch), 6 INT_ENABLE, 7     *)
(* FIFO_EN: the cached mask, or 0 in the DMP branch.  The FIFO register   *)
(* values that result.                                                    *)
ResetFifo(f, cache, dmp, en0) ==
    LET done(k) == f = 0 \/ f > k
    IN [rc      |-> IF f = 0 THEN 0 ELSE -1,
        en      |-> IF done(7) /\ ~dmp THEN cache ELSE IF done(2) THEN {} ELSE en0,
        on      |-> IF done(5) THEN TRUE ELSE IF done(3) THEN FALSE ELSE fifo_on,
        dmpen   |-> IF done(5) THEN dmp ELSE IF done(3) THEN FALSE ELSE dmp_en,
        emptied |-> done(4)]

(* The FIFO after a reset r. *)
ApplyReset(r) ==
    /\ fifo_en_reg' = r.en
    /\ fifo_on' = r.on
    /\ dmp_en' = r.dmpen
    /\ IF r.emptied THEN count' = 0 /\ skew' = 0 /\ content' = r.en /\ mixed' = FALSE
                    ELSE UNCHANGED <<count, skew, content, mixed>>

-----------------------------------------------------------------------------
(* After mpu_init: FIFO_EN and USER_CTRL at their reset values, the cache *)
(* mask cleared by mpu_configure_fifo(0), the DMP off.                    *)
Init ==
    /\ fifo_enable = {}
    /\ dmp_on = FALSE
    /\ fifo_en_reg = {}
    /\ fifo_on = FALSE
    /\ dmp_en = FALSE
    /\ count = 0
    /\ content = {}
    /\ mixed = FALSE
    /\ skew = 0
    /\ overflow = FALSE
    /\ pc = "idle"
    /\ cnt = 0
    /\ gap = 0
    /\ misframed = FALSE
    /\ faults = 0

(* The chip or the DMP writes one packet of layout l; on a full FIFO the  *)
(* bytes that do not fit replace the oldest ones and the overflow is set. *)
(* The bus reads of one call are microseconds apart, so at most GapSamples *)
(* samples fall inside a call.                                            *)
Append(l) ==
    LET p == LayoutSize(l)
        lost == count + p - MaxFifo
    IN /\ pc = "idle" \/ gap < GapSamples
       /\ gap' = IF pc = "idle" THEN gap ELSE gap + 1
       /\ count' = IF lost > 0 THEN MaxFifo ELSE count + p
       /\ skew' = IF lost > 0 THEN (skew + lost) % p ELSE skew
       /\ overflow' = (overflow \/ lost > 0)
       /\ content' = l
       /\ mixed' = (count > 0 /\ (mixed \/ content # l))
       /\ UNCHANGED <<fifo_enable, dmp_on, fifo_en_reg, fifo_on, dmp_en, pc, cnt,
                      misframed, faults>>

(* A sample of the channels enabled in FIFO_EN. *)
Sample == fifo_on /\ fifo_en_reg # {} /\ Append(fifo_en_reg)

(* A DMP output packet. *)
DmpSample == fifo_on /\ dmp_en /\ Append(DMP_PKT)

(* mpu_configure_fifo(sensors), every sensor awake, DMP off (with the DMP *)
(* on it returns 0 at once): the cache takes the mask; set_int_enable's   *)
(* status is ignored; a non-empty mask resets the FIFO, and a failed      *)
(* reset puts the old mask back in the cache.                             *)
mpu_configure_fifo ==
    /\ pc = "idle" /\ ~dmp_on
    /\ \E m \in Masks, f \in FailOr0(7) :
         IF m = {}
         THEN /\ fifo_enable' = {}
              /\ UNCHANGED <<chip, faults>>
         ELSE LET r == ResetFifo(f, m, FALSE, fifo_en_reg)
              IN /\ ApplyReset(r)
                 /\ fifo_enable' = IF r.rc = 0 THEN m ELSE fifo_enable
                 /\ Fault(f)
    /\ UNCHANGED <<dmp_on, overflow, pc, cnt, gap, misframed>>

(* mpu_set_dmp_state(enable), the firmware loaded.  Transaction 1 (on) or *)
(* 2 (off, after set_int_enable(0)) writes FIFO_EN: 0, or the cached mask *)
(* back; if it fails the call returns -1.  Otherwise dmp_on is set, then  *)
(* the unchecked set_int_enable(1) (on) and mpu_reset_fifo, whose status  *)
(* is ignored too: its transactions are 3 to 9.                           *)
mpu_set_dmp_state ==
    /\ pc = "idle"
    /\ \E enable \in BOOLEAN, f \in IF SwitchFaults THEN FailOr0(9) ELSE {0} :
         /\ enable # dmp_on
         /\ Fault(f)
         /\ IF f = (IF enable THEN 1 ELSE 2)
            THEN UNCHANGED <<dmp_on, chip>>
            ELSE /\ dmp_on' = enable
                 /\ ApplyReset(ResetFifo(IF f > 2 THEN f - 2 ELSE 0, fifo_enable, enable,
                                         IF enable THEN {} ELSE fifo_enable))
    /\ UNCHANGED <<fifo_enable, overflow, pc, cnt, gap, misframed>>

(* mpu_get_int_status: the two-byte read from DMP_INT_STATUS also reads   *)
(* INT_STATUS, which clears FIFO_OFLOW_INT.                               *)
mpu_get_int_status ==
    /\ IntStatus /\ pc = "idle"
    /\ \E f \in FailOr0(1) :
         /\ overflow' = (overflow /\ f # 0)
         /\ Fault(f)
    /\ UNCHANGED <<fifo_enable, dmp_on, chip, pc, cnt, gap, misframed>>

(* Mutant: the "fifo_count < packet_size" early return dropped. *)
ReadFifoCountNoMin ==
    /\ pc = "idle" /\ ~dmp_on /\ fifo_enable # {}
    /\ \E f \in FailOr0(1) :
         /\ Fault(f)
         /\ IF f # 0
            THEN UNCHANGED <<pc, cnt>>
            ELSE /\ cnt' = count
                 /\ pc' = IF count > MaxFifo \div 2 THEN "counted" ELSE "checked"
    /\ UNCHANGED <<fifo_enable, dmp_on, chip, overflow, misframed>>
    /\ gap' = 0

(* mpu_read_fifo up to the count: -1 with the DMP on, the cache mask empty *)
(* or the count read failed, 0 with no data below one packet, else on to  *)
(* the overflow check when more than half full, or straight to the packet.*)
ReadFifoCount ==
    /\ pc = "idle" /\ ~dmp_on /\ fifo_enable # {}
    /\ \E f \in FailOr0(1) :
         /\ Fault(f)
         /\ IF f # 0 \/ count < PacketSize(fifo_enable)
            THEN UNCHANGED <<pc, cnt>>
            ELSE /\ cnt' = count
                 /\ pc' = IF count > MaxFifo \div 2 THEN "counted" ELSE "checked"
    /\ UNCHANGED <<fifo_enable, dmp_on, chip, overflow, misframed>>
    /\ gap' = 0

(* mpu_read_fifo_stream(DmpLen) up to the count: -1 with the DMP off, -3  *)
(* if the count read fails, -4 below one packet, else on to the overflow  *)
(* check or the packet, as in mpu_read_fifo.                              *)
ReadStreamCount ==
    /\ pc = "idle" /\ dmp_on
    /\ \E f \in FailOr0(1) :
         /\ Fault(f)
         /\ IF f # 0 \/ count < DmpLen
            THEN UNCHANGED <<pc, cnt>>
            ELSE /\ cnt' = count
                 /\ pc' = IF count > MaxFifo \div 2 THEN "counted" ELSE "checked"
    /\ UNCHANGED <<fifo_enable, dmp_on, chip, overflow, misframed>>
    /\ gap' = 0

(* The INT_STATUS read of either function: on overflow, mpu_reset_fifo    *)
(* (status ignored) and return -2 (-6 for the stream).                    *)
ReadFifoCheck ==
    /\ pc = "counted"
    /\ \E f \in FailOr0(1), g \in FailOr0(7) :
         \/ /\ f # 0 /\ g = 0
            /\ pc' = "idle" /\ Fault(f)
            /\ UNCHANGED <<overflow, chip>>
         \/ /\ f = 0 /\ ~overflow /\ g = 0
            /\ pc' = "checked" /\ overflow' = FALSE
            /\ UNCHANGED <<chip, faults>>
         \/ /\ f = 0 /\ overflow
            /\ pc' = "idle" /\ overflow' = FALSE
            /\ ApplyReset(ResetFifo(g, fifo_enable, dmp_on, fifo_en_reg))
            /\ Fault(g)
    /\ UNCHANGED <<fifo_enable, dmp_on, cnt, gap, misframed>>

(* The packet read and decode of mpu_read_fifo: a sample of the cached    *)
(* channels at the decoder's offsets.                                     *)
ReadFifoPacket ==
    /\ pc = "checked" /\ ~dmp_on
    /\ \E f \in FailOr0(1) :
         /\ pc' = "idle" /\ Fault(f)
         /\ IF f # 0
            THEN UNCHANGED <<count, misframed>>
            ELSE LET whole == /\ skew = 0 /\ ~mixed /\ content = fifo_enable
                              /\ DecodeOffsets(fifo_enable) = ChipOffsets(content)
                 IN /\ count' = count - PacketSize(fifo_enable)
                    /\ misframed' = (misframed \/ ~whole)
    /\ UNCHANGED <<fifo_enable, dmp_on, fifo_en_reg, fifo_on, dmp_en, content, mixed, skew,
                   overflow, cnt, gap>>

(* The packet read of mpu_read_fifo_stream: DmpLen raw bytes (-7 if the   *)
(* read fails).                                                           *)
ReadStreamPacket ==
    /\ pc = "checked" /\ dmp_on
    /\ \E f \in FailOr0(1) :
         /\ pc' = "idle" /\ Fault(f)
         /\ IF f # 0
            THEN UNCHANGED <<count, misframed>>
            ELSE /\ count' = count - DmpLen
                 /\ misframed' = (misframed \/ ~(skew = 0 /\ ~mixed /\ content = DMP_PKT))
    /\ UNCHANGED <<fifo_enable, dmp_on, fifo_en_reg, fifo_on, dmp_en, content, mixed, skew,
                   overflow, cnt, gap>>

Next ==
    \/ Sample
    \/ DmpSample
    \/ mpu_configure_fifo
    \/ mpu_set_dmp_state
    \/ mpu_get_int_status
    \/ ReadFifoCount
    \/ ReadStreamCount
    \/ ReadFifoCheck
    \/ ReadFifoPacket
    \/ ReadStreamPacket

Spec == Init /\ [][Next]_vars

-----------------------------------------------------------------------------
(***************************************************************************)
(* Properties.                                                             *)
(***************************************************************************)
TypeOK ==
    /\ fifo_enable \in SUBSET Channels /\ fifo_en_reg \in SUBSET Channels
    /\ fifo_on \in BOOLEAN /\ dmp_en \in BOOLEAN /\ dmp_on \in BOOLEAN
    /\ overflow \in BOOLEAN
    /\ count \in 0..MaxFifo /\ cnt \in 0..MaxFifo /\ gap \in 0..GapSamples
    /\ content \in SUBSET Channels \cup {DMP_PKT} /\ mixed \in BOOLEAN
    /\ skew \in 0..MaxFifo
    /\ pc \in {"idle", "counted", "checked"}
    /\ misframed \in BOOLEAN
    /\ faults \in 0..MaxFaults

(* spec.md 4.2 and 8: neither mpu_read_fifo nor mpu_read_fifo_stream ever *)
(* returns 0 with data that is not one whole packet of the layout it      *)
(* reads (the cached channels, or the DMP's packet): an overflow is       *)
(* reported and the FIFO reset instead, also when the overflow happens    *)
(* while the call is between its bus reads, when mpu_get_int_status has   *)
(* already read the overflow bit, when the reset fails, and when the DMP  *)
(* has just been switched on or off.                                      *)
NoMisframedSample == ~misframed

(* mpu_reset_fifo switches FIFO_EN off before the FIFO_RST and back on     *)
(* after it, so that however far it gets, the FIFO never holds packets of  *)
(* two layouts.                                                            *)
SingleLayout == ~mixed

=============================================================================

----------------------------- MODULE DmpLoader -----------------------------
(***************************************************************************)
(* mpu_load_firmware with the DMP memory it writes (inv_mpu.c 1515-1617): *)
(* the image is copied in LOAD_CHUNK pieces, each written with            *)
(* mpu_write_mem, read back with mpu_read_mem and compared, then the      *)
(* program start address is set and dmp_loaded cached.                   *)
(*                                                                         *)
(* One iteration of the copy loop is one step, so that an MCU reset       *)
(* (watchdog, bootloader jump) can fall between two chunks; everything    *)
(* else the caller does happens between calls.  A bus transaction may     *)
(* fail (NACK: a data write keeps the bytes sent before it) or, since I2C *)
(* has no checksum, deliver a wrong byte without an error.                *)
(*                                                                         *)
(* Sizes are scaled down with their ratios kept: BankSize for the 256-byte *)
(* bank (hw.bank_size), LoadChunk for LOAD_CHUNK = 16, which divides it.  *)
(***************************************************************************)
EXTENDS Integers, FiniteSets

CONSTANTS
    Len,        \* length of the firmware image in bytes
    Image,      \* the image: a function 0..Len-1 -> Val (firmware[] in flash)
    MemSize,    \* DMP memory size (addresses 0..MemSize-1)
    BankSize,   \* st.hw->bank_size
    LoadChunk,  \* LOAD_CHUNK
    Val,        \* byte values; Blank is what memory holds after power-up
    Blank,
    MaxFaults,  \* bus faults in one behaviour
    InitFailPoints \* where mpu_init may fail: a subset of {"reset", "wake", "setters"}

ASSUME /\ Len \in 1..MemSize /\ Image \in [0..Len-1 -> Val] /\ Blank \in Val
       /\ LoadChunk \in 1..BankSize /\ MaxFaults \in Nat
       /\ InitFailPoints \subseteq {"reset", "wake", "setters"}

Addr == 0..MemSize-1

VARIABLES
    mem,         \* the DMP memory
    awake,       \* st.chip_cfg.sensors # 0
    sleeping,    \* PWR_MGMT_1.SLEEP of the chip
    dmp_loaded,  \* st.chip_cfg.dmp_loaded
    pc,          \* "idle", or "loop" inside mpu_load_firmware
    ii,          \* the loop index of mpu_load_firmware
    lastRc,      \* what the last finished mpu_load_firmware returned
    callFaulted, \* a bus fault happened during the current/last call
    faults

vars == <<mem, awake, sleeping, dmp_loaded, pc, ii, lastRc, callFaulted, faults>>

NONE == 1   \* lastRc before any call returned, or after another call

-----------------------------------------------------------------------------
(***************************************************************************)
(* Bus faults of one loop iteration.  Transactions are numbered as the     *)
(* iteration issues them: 1 bank select and 2 data write (mpu_write_mem),  *)
(* 3 bank select and 4 data read (mpu_read_mem).  "error": the TWI driver  *)
(* reports failure; for a data write the first k bytes were taken.         *)
(* "corrupt": byte k of the data written or read is v, and no error.       *)
(***************************************************************************)
NoFault == [tx |-> 0, kind |-> "none", k |-> 0, v |-> Blank]

FaultsOf(n) ==
    {[tx |-> t, kind |-> "error", k |-> 0, v |-> Blank] : t \in {1, 3, 4}}
    \cup {[tx |-> 2, kind |-> "error", k |-> j, v |-> Blank] : j \in 0..n-1}
    \cup {[tx |-> t, kind |-> "corrupt", k |-> j, v |-> x] :
              t \in {2, 4}, j \in 0..n-1, x \in Val}

Choices(n) == IF faults < MaxFaults THEN {NoFault} \cup FaultsOf(n) ELSE {NoFault}

(* m with the first n bytes of data stored from address addr on. *)
Put(m, addr, n, data) ==
    [a \in DOMAIN m |-> IF a \in addr..addr+n-1 THEN data[a - addr] ELSE m[a]]

(* What the chip's memory becomes when a data write delivers it m2: "the *)
(* DMP memory is only accessible when the chip is awake" (inv_mpu.c 1508), *)
(* so a sleeping chip acknowledges the bytes and keeps m.                  *)
Stored(m, m2) == IF sleeping THEN m ELSE m2

(* mpu_write_mem: a cache saying asleep or a bank crossing refuse the     *)
(* transfer; then the bank select and the data write, each of which may   *)
(* fail.                                                                   *)
mpu_write_mem(m, addr, n, data, f) ==
    IF ~awake \/ (addr % BankSize) + n > BankSize THEN [rc |-> -1, mem |-> m]
    ELSE IF f.tx = 1 THEN [rc |-> -1, mem |-> m]
    ELSE IF f.tx = 2 /\ f.kind = "error"
         THEN [rc |-> -1, mem |-> Stored(m, Put(m, addr, f.k, data))]
    ELSE IF f.tx = 2
         THEN [rc |-> 0, mem |-> Stored(m, [Put(m, addr, n, data) EXCEPT ![addr + f.k] = f.v])]
    ELSE [rc |-> 0, mem |-> Stored(m, Put(m, addr, n, data))]

(* mpu_read_mem: the same refusals, then bank select and data read. *)
mpu_read_mem(m, addr, n, f) ==
    LET got == [i \in 0..n-1 |-> m[addr + i]]
    IN IF ~awake \/ (addr % BankSize) + n > BankSize THEN [rc |-> -1, data |-> got]
       ELSE IF f.tx \in {3, 4} /\ f.kind = "error" THEN [rc |-> -1, data |-> got]
       ELSE IF f.tx = 4 THEN [rc |-> 0, data |-> [got EXCEPT ![f.k] = f.v]]
       ELSE [rc |-> 0, data |-> got]

(* Mutants of this_write: min() forgotten; a chunk one byte too wide;    *)
(* the remaining length computed one short.                               *)
ThisWriteNoMin(i) == LoadChunk
ThisWriteWide(i) == IF LoadChunk + 1 < Len - i THEN LoadChunk + 1 ELSE Len - i
ThisWriteShort(i) == IF LoadChunk < Len - i - 1 THEN LoadChunk ELSE Len - i - 1

(* this_write = min(LOAD_CHUNK, length - ii) *)
ThisWrite(i) == IF LoadChunk < Len - i THEN LoadChunk ELSE Len - i

(* firmware_chunk: the pgm_read_byte copy of the next chunk; flash past  *)
(* the end of firmware[] holds something else, taken here as Blank.       *)
ChunkOf(i) ==
    [j \in 0..ThisWrite(i)-1 |-> IF i + j < Len THEN Image[i + j] ELSE Blank]

(* Mutant: memcmp over this_write - 1 bytes. *)
ChunkVerifiedShort(i, cur) ==
    \A j \in 0..ThisWrite(i)-2 : cur[j] = ChunkOf(i)[j]

(* memcmp(firmware_chunk, cur, this_write) == 0 *)
ChunkVerified(i, cur) == cur = ChunkOf(i)

-----------------------------------------------------------------------------
Init ==
    /\ mem = [a \in Addr |-> Blank]
    /\ awake = FALSE
    /\ sleeping = TRUE
    /\ dmp_loaded = FALSE
    /\ pc = "idle"
    /\ ii = 0
    /\ lastRc = NONE
    /\ callFaulted = FALSE
    /\ faults = 0

Return(rc) ==
    /\ pc' = "idle"
    /\ lastRc' = rc

LoadStart ==
    /\ pc = "idle"
    /\ callFaulted' = FALSE
    /\ IF dmp_loaded
       THEN Return(-1) /\ UNCHANGED ii
       ELSE pc' = "loop" /\ ii' = 0 /\ lastRc' = NONE
    /\ UNCHANGED <<mem, awake, sleeping, dmp_loaded, faults>>

(* One iteration: write the chunk, read it back, compare. *)
LoadChunkStep ==
    /\ pc = "loop"
    /\ ii < Len
    /\ \E f \in Choices(ThisWrite(ii)) :
         LET n == ThisWrite(ii)
             w == mpu_write_mem(mem, ii, n, ChunkOf(ii), f)
             r == mpu_read_mem(w.mem, ii, n, f)
         IN /\ mem' = w.mem
            /\ faults' = faults + (IF f = NoFault THEN 0 ELSE 1)
            /\ callFaulted' = (callFaulted \/ f # NoFault)
            /\ IF w.rc # 0 THEN Return(-2) /\ UNCHANGED ii
               ELSE IF r.rc # 0 THEN Return(-3) /\ UNCHANGED ii
               ELSE IF ~ChunkVerified(ii, r.data) THEN Return(-4) /\ UNCHANGED ii
               ELSE ii' = ii + n /\ UNCHANGED <<pc, lastRc>>
    /\ UNCHANGED <<awake, sleeping, dmp_loaded>>

(* After the loop: PRGM_START write, then the cache update. *)
LoadFinish ==
    /\ pc = "loop"
    /\ ii >= Len
    /\ \/ /\ Return(0)
          /\ dmp_loaded' = TRUE
          /\ UNCHANGED <<faults, callFaulted>>
       \/ /\ faults < MaxFaults
          /\ Return(-5)
          /\ faults' = faults + 1
          /\ callFaulted' = TRUE
          /\ UNCHANGED dmp_loaded
    /\ UNCHANGED <<mem, awake, sleeping, ii>>

(* mpu_set_sensors, between calls: PWR_MGMT_1 puts the chip to sleep when *)
(* no sensor is on and wakes it otherwise, and the cache follows.          *)
SetSensors ==
    /\ pc = "idle"
    /\ awake' \in BOOLEAN
    /\ sleeping' = ~awake'
    /\ lastRc' = NONE
    /\ UNCHANGED <<mem, dmp_loaded, pc, ii, callFaulted, faults>>

(* What BIT_RESET does to DMP memory is the chip's business: either it *)
(* survives or it is cleared.                                              *)
ChipReset(m) == {m, [a \in Addr |-> Blank]}

(* mpu_init: the BIT_RESET write (fails: -1, nothing happened), the wake   *)
(* write (fails: -2, the chip was reset, which sets SLEEP, but st not yet  *)
(* touched), then st is set to "unknown" (sensors = 0xFF, dmp_loaded = 0)  *)
(* and the setters run on the woken chip (a failure of one: -30..-4, the   *)
(* cache still says awake); on success mpu_set_sensors(0) ends the call   *)
(* and puts the chip to sleep.  InitFailPoints says which of these        *)
(* failures a run lets happen.                                             *)
MpuInit ==
    /\ pc = "idle"
    /\ \/ /\ mem' \in ChipReset(mem)
          /\ awake' = FALSE /\ sleeping' = TRUE /\ dmp_loaded' = FALSE
          /\ UNCHANGED faults
       \/ /\ "reset" \in InitFailPoints /\ faults < MaxFaults
          /\ faults' = faults + 1
          /\ UNCHANGED <<mem, awake, sleeping, dmp_loaded>>
       \/ /\ "wake" \in InitFailPoints /\ faults < MaxFaults
          /\ mem' \in ChipReset(mem)
          /\ sleeping' = TRUE
          /\ faults' = faults + 1
          /\ UNCHANGED <<awake, dmp_loaded>>
       \/ /\ "setters" \in InitFailPoints /\ faults < MaxFaults
          /\ mem' \in ChipReset(mem)
          /\ awake' = TRUE /\ sleeping' = FALSE /\ dmp_loaded' = FALSE
          /\ faults' = faults + 1
    /\ lastRc' = NONE
    /\ UNCHANGED <<pc, ii, callFaulted>>

(* MCU reset at any point, also inside the loop: st is zeroed, the chip *)
(* and its memory are untouched.                                         *)
McuRestart ==
    /\ awake' = FALSE
    /\ dmp_loaded' = FALSE
    /\ pc' = "idle"
    /\ lastRc' = NONE
    /\ UNCHANGED <<mem, sleeping, ii, callFaulted, faults>>

LoaderStep == LoadChunkStep \/ LoadFinish

Next ==
    \/ LoadStart
    \/ LoaderStep
    \/ SetSensors
    \/ MpuInit
    \/ McuRestart

(* The copy loop runs on the CPU with nothing to wait for: once inside    *)
(* mpu_load_firmware the next iteration is always taken.                  *)
Fairness == WF_vars(LoaderStep)

Spec == Init /\ [][Next]_vars /\ Fairness

-----------------------------------------------------------------------------
(***************************************************************************)
(* Properties.                                                             *)
(***************************************************************************)
TypeOK ==
    /\ mem \in [Addr -> Val]
    /\ awake \in BOOLEAN /\ sleeping \in BOOLEAN /\ dmp_loaded \in BOOLEAN
    /\ pc \in {"idle", "loop"}
    /\ ii \in 0..Len
    /\ lastRc \in {NONE, 0, -1, -2, -3, -4, -5}
    /\ callFaulted \in BOOLEAN
    /\ faults \in 0..MaxFaults

(* The read-back compare is what makes dmp_loaded trustworthy: whenever    *)
(* the cache says the DMP is loaded, its memory holds the image byte for   *)
(* byte, despite NACKs, silently corrupted bytes, and resets mid-load.     *)
LoadedImageIntact ==
    dmp_loaded => \A a \in 0..Len-1 : mem[a] = Image[a]

(* The chunking respects the bank rule: on a healthy bus a load that the   *)
(* cache lets through (sensors on) into a chip that really is awake never  *)
(* fails, in particular never because mpu_write_mem/mpu_read_mem refused a *)
(* chunk crossing a bank.  The chip can be asleep while the cache says     *)
(* awake (after mpu_init failed at its wake write); such a load fails with *)
(* -4 on a healthy bus, which this does not claim against.                 *)
FaultFreeLoadSucceeds ==
    lastRc \in {-2, -3, -4, -5} => callFaulted \/ ~awake \/ sleeping

(* A call of mpu_load_firmware returns: the loop terminates for every     *)
(* length, unless the MCU is reset first.                                  *)
LoadTerminates == pc = "loop" ~> pc = "idle"

(* The chunked, verified, interruptible load implements the atomic one of *)
(* DmpImage, with dmp_loaded as the claim and mem as the memory.           *)
Abs == INSTANCE DmpImage WITH Addr <- Addr, loaded <- dmp_loaded, dmem <- mem

=============================================================================

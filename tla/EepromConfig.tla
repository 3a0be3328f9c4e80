---------------------------- MODULE EepromConfig ----------------------------
(***************************************************************************)
(* The persisted settings block of the Pico build (src/src/pico/lib/eeprom *)
(* /eeprom.c).  loadConfig copies the flash sector into a Configuration_t,  *)
(* falls back to the defaults (version 0) when the signature is wrong,     *)
(* applies the version migrations and, when it migrated anything, writes   *)
(* the block back.  writeConfigBlock copies a range of bytes into the RAM  *)
(* image newConfig and, when the range reaches the end of the structure,   *)
(* erases the sector and programs newConfig into it; resetConfig writes    *)
(* default_config that way.                                                *)
(*                                                                         *)
(* A configuration is a record of the fields the migrations touch.  Its    *)
(* bytes are cut into blocks (BlockOf); a write names a range of blocks.   *)
(* The erase and the program are separate steps, since the MCU can lose    *)
(* power between them; Configuration_t is taken to fit one 256-byte flash  *)
(* page, so the program is one step.  Erased flash reads 0xFF everywhere   *)
(* (EraseCfg): no signature, version 255.                                  *)
(*                                                                         *)
(* The caller of writeConfigBlock (the USB control handler of the config   *)
(* tool) is not in this repository.  It is modelled as sessions that send  *)
(* one configuration in ascending block ranges starting at block 1; a      *)
(* session may be abandoned and a new one started at any time.            *)
(***************************************************************************)
EXTENDS Integers

CONSTANTS
    Blocks,        \* 1..NB, the blocks of a Configuration_t
    BlockOf,       \* the block holding each field
    CONFIG_VERSION,
    DefaultCfg,    \* default_config (DEFAULT_CONFIG)
    EraseCfg,      \* what the Configuration_t read from an erased sector holds
    OldCfgs,       \* configurations an earlier firmware may have left in flash
    HostCfgs,      \* configurations the config tool sends
    Orients,       \* mpu6050Orientation values
    MaxCrashes     \* power losses in one behaviour

NB == CHOOSE n \in Blocks : \A b \in Blocks : b <= n

VARIABLES
    flash,     \* the config sector at FLASH_TARGET_OFFSET
    ram,       \* newConfig
    pc,        \* "off", "ready" (main loop), "erase" / "program" (flush)
    config,    \* the Configuration_t loadConfig returned at the last boot
    host,      \* the config tool's session: its configuration and next block (0: none)
    origin,    \* (ghost) the configuration last stored before any migration
    pending,   \* (ghost) what origin becomes when the flush completes
    crashes

vars == <<flash, ram, pc, config, host, origin, pending, crashes>>

-----------------------------------------------------------------------------
(* isGuitar(subType) is kept as a flag of the record. *)
isGuitar(c) == c.guitar

(* The switch of the version-14 migration: signed axes become plain axes. *)
OrientMap(o) ==
    CASE o \in {"NEGATIVE_X", "POSITIVE_X"} -> "X"
      [] o \in {"NEGATIVE_Y", "POSITIVE_Y"} -> "Y"
      [] o \in {"NEGATIVE_Z", "POSITIVE_Z"} -> "Z"
      [] OTHER -> o

(* Mutant: the sector used as read, signature or not. *)
LoadedNoSigCheck(f) == f

(* The memcpy of flash_target_contents and the signature check. *)
Loaded(f) ==
    IF f.sig THEN f ELSE [DefaultCfg EXCEPT !.ver = 0]

(* The configuration stored before any migration that a boot starts from: *)
(* the last one written, or the defaults at version 0 if the signature is  *)
(* gone.                                                                   *)
Source(f, o) == IF f.sig THEN o ELSE [DefaultCfg EXCEPT !.ver = 0]

(* The migrations for versions below 9, 12, 13, 14 and 15, in order.  The  *)
(* debounce memcpy (below 13) also brings the default combinedStrum.      *)
Migrate(c) ==
    LET c9  == IF c.ver < 9 /\ isGuitar(c) THEN [c EXCEPT !.inv = ~@] ELSE c
        c12 == IF c.ver < 12 THEN [c9 EXCEPT !.scale = DefaultCfg.scale] ELSE c9
        c13 == IF c.ver < 13
               THEN [c12 EXCEPT !.debounce = DefaultCfg.debounce,
                                !.strum = DefaultCfg.strum]
               ELSE c12
        c14 == IF c.ver < 14 THEN [c13 EXCEPT !.orient = OrientMap(@)] ELSE c13
    IN IF c.ver < 15 THEN [c14 EXCEPT !.strum = FALSE] ELSE c14

(* Mutant: the write-back keeps the old version number. *)
WriteBackNoBump(c) == c

(* config.main.version = CONFIG_VERSION before the write-back. *)
WriteBack(c) == [c EXCEPT !.ver = CONFIG_VERSION]

(* memcpy(newConfig + offset, data, len) for the blocks lo..hi of data. *)
CopyBlocks(r, lo, hi, data) ==
    [f \in DOMAIN r |-> IF BlockOf[f] \in lo..hi THEN data[f] ELSE r[f]]

(* Mutant: the sector is rewritten after every block. *)
FlushesAlways(hi) == TRUE

(* offset + len >= sizeof(Configuration_t) *)
Flushes(hi) == hi = NB

-----------------------------------------------------------------------------
Init ==
    /\ flash \in OldCfgs \cup {EraseCfg}
    /\ ram = EraseCfg
    /\ pc = "off"
    /\ config = EraseCfg
    /\ host = [cfg |-> DefaultCfg, next |-> 0]
    /\ origin = flash
    /\ pending = flash
    /\ crashes = 0

(* loadConfig at boot: its write-back, when the version was old, is a     *)
(* writeConfigBlock of the whole structure and so starts the flush.       *)
loadConfig ==
    /\ pc = "off"
    /\ LET c0 == Loaded(flash)
           c == Migrate(c0)
       IN IF c0.ver < CONFIG_VERSION
          THEN /\ config' = WriteBack(c)
               /\ ram' = WriteBack(c)
               /\ pc' = "erase"
          ELSE /\ config' = c
               /\ ram' = c
               /\ pc' = "ready"
    /\ pending' = Source(flash, origin)
    /\ UNCHANGED <<flash, host, origin, crashes>>

(* flash_range_erase of the sector, interrupts disabled. *)
FlashErase ==
    /\ pc = "erase"
    /\ flash' = EraseCfg
    /\ pc' = "program"
    /\ UNCHANGED <<ram, config, host, origin, pending, crashes>>

(* flash_range_program of newConfig; writeConfigBlock returns. *)
FlashProgram ==
    /\ pc = "program"
    /\ flash' = ram
    /\ origin' = pending
    /\ pc' = "ready"
    /\ UNCHANGED <<ram, config, host, pending, crashes>>

(* The config tool opens a session for configuration h, abandoning any    *)
(* session it had open.                                                    *)
HostStart(h) ==
    /\ pc = "ready"
    /\ host' = [cfg |-> h, next |-> 1]
    /\ UNCHANGED <<flash, ram, pc, config, origin, pending, crashes>>

(* writeConfigBlock(offset, data, len) for the blocks host.next..hi of the *)
(* session's configuration.                                                *)
writeConfigBlock(hi) ==
    /\ pc = "ready"
    /\ host.next # 0
    /\ ram' = CopyBlocks(ram, host.next, hi, host.cfg)
    /\ IF Flushes(hi)
       THEN /\ pc' = "erase"
            /\ pending' = host.cfg
       ELSE UNCHANGED <<pc, pending>>
    /\ host' = IF hi = NB THEN [host EXCEPT !.next = 0]
                          ELSE [host EXCEPT !.next = hi + 1]
    /\ UNCHANGED <<flash, config, origin, crashes>>

(* resetConfig: writeConfigBlock(0, default_config, sizeof).  The tool   *)
(* sends it as a command of its own, outside a write session.              *)
resetConfig ==
    /\ pc = "ready"
    /\ host.next = 0
    /\ ram' = DefaultCfg
    /\ pc' = "erase"
    /\ pending' = DefaultCfg
    /\ UNCHANGED <<flash, config, host, origin, crashes>>

(* Power loss or reset: RAM is gone, flash keeps what it holds. *)
PowerLoss ==
    /\ pc # "off"
    /\ crashes < MaxCrashes
    /\ pc' = "off"
    /\ ram' = EraseCfg
    /\ config' = EraseCfg
    /\ host' = [host EXCEPT !.next = 0]
    /\ crashes' = crashes + 1
    /\ UNCHANGED <<flash, origin, pending>>

Next ==
    \/ loadConfig
    \/ FlashErase
    \/ FlashProgram
    \/ \E h \in HostCfgs : HostStart(h)
    \/ \E hi \in Blocks : host.next <= hi /\ writeConfigBlock(hi)
    \/ resetConfig
    \/ PowerLoss

Spec == Init /\ [][Next]_vars

-----------------------------------------------------------------------------
(***************************************************************************)
(* Properties.                                                             *)
(***************************************************************************)
Config == [sig : BOOLEAN, ver : 0..CONFIG_VERSION \cup {255}, guitar : BOOLEAN,
           inv : BOOLEAN, scale : {"d", "u"}, debounce : {"d", "u"},
           strum : BOOLEAN, orient : Orients]

(* The firmware runs only with a signed configuration of a known version. *)
TypeOK ==
    /\ flash \in Config /\ ram \in Config /\ origin \in Config
    /\ pending \in Config
    /\ pc \in {"off", "ready", "erase", "program"}
    /\ pc # "off" => config \in {c \in Config : c.sig /\ c.ver <= CONFIG_VERSION}
    /\ host \in [cfg : HostCfgs \cup {DefaultCfg}, next : {0} \cup Blocks]
    /\ crashes \in 0..MaxCrashes

(* What a boot should run with, given the configuration last stored: each *)
(* migration applied once and the version brought up to date.             *)
Expected(s) == IF s.ver < CONFIG_VERSION THEN WriteBack(Migrate(s)) ELSE Migrate(s)

(* Every boot runs with the configuration last stored migrated exactly    *)
(* once, although loadConfig migrates on every boot and its write-back    *)
(* may be cut by a power loss before or after the erase; in particular    *)
(* the whammy inversion of an old guitar configuration is flipped once.   *)
MigratedOnce ==
    [][pc = "off" /\ pc' # "off" => config' = Expected(Source(flash, origin))]_vars

(* What may legitimately be in the sector: a configuration some party      *)
(* stored whole, or an erased sector.                                      *)
Stored ==
    OldCfgs \cup HostCfgs \cup {DefaultCfg, EraseCfg}
      \cup {WriteBack(Migrate(s)) : s \in OldCfgs \cup HostCfgs \cup
                                     {[DefaultCfg EXCEPT !.ver = 0]}}

(* writeConfigBlock buffers partial writes in newConfig and rewrites the  *)
(* sector only when a write reaches the end of the structure: whatever    *)
(* blocks the tool sends, sessions it abandons and power losses between   *)
(* blocks or between erase and program, the sector never holds blocks of  *)
(* two different configurations.                                           *)
FlashWholeConfig == flash \in Stored

=============================================================================

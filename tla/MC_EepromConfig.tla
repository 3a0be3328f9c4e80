--------------------------- MODULE MC_EepromConfig ---------------------------
(* A two-block Configuration_t: block 1 holds main (signature, version,   *)
(* subType), block 2 the pin, axis and debounce settings.  The old flash  *)
(* holds a version-8 guitar configuration (every migration applies) or a  *)
(* current one; the tool sends two current configurations that differ in  *)
(* both blocks from each other and from everything else stored.           *)
EXTENDS EepromConfig

MC_BlockOf == [sig |-> 1, ver |-> 1, guitar |-> 1,
               inv |-> 2, scale |-> 2, debounce |-> 2, strum |-> 2, orient |-> 2]

Cfg(sig, ver, guitar, inv, scale, debounce, strum, orient) ==
    [sig |-> sig, ver |-> ver, guitar |-> guitar, inv |-> inv, scale |-> scale,
     debounce |-> debounce, strum |-> strum, orient |-> orient]

MC_Version == 16

MC_DefaultCfg == Cfg(TRUE, MC_Version, TRUE, FALSE, "d", "d", TRUE, "NEGATIVE_Z")

MC_EraseCfg == Cfg(FALSE, 255, TRUE, TRUE, "u", "u", TRUE, "Y")

MC_OldCfgs == {Cfg(TRUE, 8, TRUE, TRUE, "u", "u", TRUE, "POSITIVE_X"),
               Cfg(TRUE, MC_Version, FALSE, FALSE, "u", "u", FALSE, "Y")}

MC_HostCfgs == {Cfg(TRUE, MC_Version, TRUE, TRUE, "u", "d", TRUE, "X"),
                Cfg(TRUE, MC_Version, FALSE, FALSE, "d", "u", FALSE, "Z")}

MC_Orients == {"NEGATIVE_X", "POSITIVE_X", "NEGATIVE_Y", "POSITIVE_Y",
               "NEGATIVE_Z", "POSITIVE_Z", "X", "Y", "Z"}
=============================================================================

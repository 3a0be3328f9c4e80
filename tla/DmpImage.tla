------------------------------ MODULE DmpImage ------------------------------
(***************************************************************************)
(* What mpu_load_firmware promises about the DMP's program memory, with   *)
(* no chunks, no bus and no verification: while the driver does not claim *)
(* a loaded image the memory may hold anything and may change in any way; *)
(* the claim is made in one step that puts the image in place and touches *)
(* nothing outside it; once made, the memory does not change until the    *)
(* claim is dropped (a chip reset or a restart of the MCU).                *)
(***************************************************************************)
CONSTANTS
    Addr,    \* the DMP memory addresses
    Val,     \* the byte values
    Image    \* the firmware image: a function from a subset of Addr to Val

VARIABLES
    loaded,  \* the driver claims the image is in place (dmp_loaded)
    dmem     \* the DMP memory

Init ==
    /\ loaded = FALSE
    /\ dmem \in [Addr -> Val]

(* Memory not yet claimed may be written by anything, completely or not. *)
Scribble ==
    /\ ~loaded
    /\ dmem' \in [Addr -> Val]
    /\ UNCHANGED loaded

(* The image appears at once, and the rest of memory is left alone. *)
Load ==
    /\ ~loaded
    /\ loaded' = TRUE
    /\ dmem' = [a \in Addr |-> IF a \in DOMAIN Image THEN Image[a] ELSE dmem[a]]

(* The claim is dropped; the memory may be lost with it. *)
Forget ==
    /\ loaded' = FALSE
    /\ dmem' \in [Addr -> Val]

Spec == Init /\ [][Scribble \/ Load \/ Forget]_<<loaded, dmem>>

=============================================================================

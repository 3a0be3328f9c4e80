----------------------------- MODULE MC_MPUFifo -----------------------------
(***************************************************************************)
(* FIFO masks for mpu_configure_fifo.  MC_MasksAligned have packets of 2,  *)
(* 4 and 8 bytes, which divide the 1024-byte FIFO; MC_MasksAll adds the    *)
(* 12-byte packet of spec.md 8 (all gyro axes and the accel), which does   *)
(* not.  Both include the empty mask.                                      *)
(***************************************************************************)
EXTENDS MPUFifo

MC_MasksAligned == {{}, {"gx"}, {"gx", "gy"}, {"accel", "gx"}}

MC_MasksAll == {{}, {"gx"}, {"accel", "gx", "gy", "gz"}}

(* One gyro axis: 2-byte packets, the most a 1024-byte FIFO can hold. *)
MC_MasksGyroX == {{"gx"}}

=============================================================================

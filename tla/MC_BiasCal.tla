----------------------------- MODULE MC_BiasCal -----------------------------
(***************************************************************************)
(* Trims near both ends of the 16-bit range, negative and odd ones, and   *)
(* corrections that are odd, negative and as large as 2^15, so that the    *)
(* unsigned read, the wrap-around and the bit-0 mask all matter.           *)
(***************************************************************************)
EXTENDS BiasCal

MC_GyroFactory == <<-16, 32767, 0>>

MC_AccelFactory == [k \in Banks |-> IF k = "6050" THEN <<-3, 1, 32766>> ELSE <<-32767, 2, 5>>]

MC_Corrections == {<<10, 10, 10>>, <<-4, -4, -4>>, <<1, -32767, 32768>>}

=============================================================================

----------------------- MODULE MCInternalFlashDriver ------------------------
(* An instance of InternalFlashDriver for TLC: words of one bit. *)
EXTENDS InternalFlashDriver

CONSTANT bit

MCBits == {bit}
==============================================================================

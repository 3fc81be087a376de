-------------------------- MODULE MCFlashManagment --------------------------
(* An instance of FlashManagment for TLC. *)
EXTENDS FlashManagment

CONSTANTS p1, p2

MCPayloads == {p1, p2}
==============================================================================

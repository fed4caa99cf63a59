------------------------------- MODULE MCCCEH -------------------------------
(* CCEH with the hashes of nine keys: the first three bits, and two slots. *)
EXTENDS CCEH

MCBits == <<0, 2, 3, 4, 5, 5, 6, 1, 4>>
MCFirst == <<0, 0, 0, 0, 0, 0, 0, 0, 0>>
MCSecond == <<1, 1, 1, 1, 1, 1, 1, 1, 1>>

MCCalled == [grow |-> {2, 5, 6, 9}, wide |-> {2, 3, 6, 8}, single |-> {3, 6, 8}]
=============================================================================

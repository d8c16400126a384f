------------------------------ MODULE MCMemMap ------------------------------
(* An instance of MemMap for TLC: pages of two bytes, huge pages of two pages, *)
(* slots of one or three pages, three places to map them, next to each other,  *)
(* and a log that does not cover the last addresses.                           *)
EXTENDS MemMap

MCGpa == {0, 4, 6, 12}
MCUva == {0, 6}
MCSize == {0, 2, 6}
MCPtr == {4, 16, 28}
=============================================================================

--------------------------- MODULE MCRequestQueue ---------------------------
(***************************************************************************)
(* Instances of RequestQueue for TLC.                                      *)
(***************************************************************************)
EXTENDS RequestQueue

CONSTANTS t1, t2, b1, b2, b3, v1, v2

MCThread == {t1, t2}
MCBio == {b1, b2, b3}
MCVring == {v1, v2}
=============================================================================

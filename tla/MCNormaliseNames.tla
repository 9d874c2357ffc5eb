------------------------- MODULE MCNormaliseNames --------------------------
(* Small instances of NormaliseNames for TLC.                              *)
EXTENDS NormaliseNames

(* Empty names, short names, and names of 8 and 9 characters on each side *)
(* of the fixed-format limit.                                              *)
MCLengths == {0, 1, 8, 9}
(* A desired maximum below a constructed name, at the fixed-format limit   *)
(* and above it.                                                           *)
MCDesired == {1, 8, 9}
=============================================================================

--------------------------- MODULE MCDoubleBuffer ---------------------------
(* DoubleBuffer for TLC: a struct of three words.                          *)
EXTENDS DoubleBuffer

MCWord == {"mech_angle_rad", "elec_angle_rad", "quality"}
=============================================================================

--------------------------- MODULE MCCommandBuffer ---------------------------
(* CommandBuffer for TLC: a command of three words.                        *)
EXTENDS CommandBuffer

MCWord == {"target", "mode", "sequence"}

=============================================================================

---------------------------- MODULE MCEventQueue ----------------------------
(* EventQueue for TLC: one publisher and one poller, in any order.         *)
EXTENDS EventQueue

CONSTANTS Slow, Service

MCTask      == {Slow, Service}
MCPublisher == {Slow}
MCPriority  == [t \in MCTask |-> 0]
=============================================================================

------------------------------- MODULE Settings -------------------------------
(***************************************************************************)
(* What the debug CLI promises whoever types at it and whoever runs beside *)
(* it, without buffers, slots or stores: a line that was accepted changes  *)
(* the one thing it names, at one instant, once, and before the next line; *)
(* any other line changes nothing.                                         *)
(*                                                                         *)
(* The order is [do |-> "set", param, value], [do |-> "mode", mode,        *)
(* target], [do |-> "stream", rate], or [do |-> "none"].                   *)
(***************************************************************************)
CONSTANTS
  Order,    \* the orders a line can give
  Rates     \* the rates the stream can run at

VARIABLES
  params,   \* the parameters the control steps use
  command,  \* the command they follow
  rate,     \* the rate of the stream, 0 when it is off
  pending   \* the order of the line being executed

vars == <<params, command, rate, pending>>

Nothing == [do |-> "none"]

Accept ==
  /\ pending = Nothing
  /\ pending' \in Order
  /\ UNCHANGED <<params, command, rate>>

Set ==
  /\ pending.do = "set"
  /\ params' = [params EXCEPT ![pending.param] = pending.value]
  /\ UNCHANGED <<command, rate>>

Mode ==
  /\ pending.do = "mode"
  /\ command' = [mode |-> pending.mode, target |-> pending.target]
  /\ UNCHANGED <<params, rate>>

\* What becomes of a rate that the stream cannot run at is left open.
Stream ==
  /\ pending.do = "stream"
  /\ rate' \in IF pending.rate \in Rates THEN {pending.rate} ELSE Rates
  /\ UNCHANGED <<params, command>>

Execute == (Set \/ Mode \/ Stream) /\ pending' = Nothing

Next == Accept \/ Execute

\* The initial settings are the configuration's.
Init == rate = 0 /\ pending = Nothing

Spec == Init /\ [][Next]_vars /\ WF_vars(Execute)
===============================================================================

------------------------------ MODULE MCDebugCli ------------------------------
(* DebugCli for TLC: lines of every kind and what they should do, as in    *)
(* test_debug_cli.c.  A buffer of seven symbols cuts the last of them.     *)
EXTENDS DebugCli, TLC

MCParam == {"kp", "ki"}

MCDigit == "0" :> 0 @@ "1" :> 1 @@ "2" :> 2 @@ "5" :> 5

Set(p, v)  == [do |-> "set", param |-> p, value |-> v]
Mode(m, t) == [do |-> "mode", mode |-> m, target |-> t]
Stream(r)  == [do |-> "stream", rate |-> r]

Executed ==
     <<"set", " ", "kp", " ", "1">>                :> Set("kp", 1)
  @@ <<"set", " ", "ki", " ", "-", "1", "2">>      :> Set("ki", -12)
  @@ <<"set", " ", "xx", " ", "1">>                :> None
  @@ <<"set", " ", "kp">>                          :> None
  @@ <<"cmd", " ", "mode", " ", "p", " ", "1">>    :> Mode("p", 1)
  @@ <<"cmd", " ", "mode", " ", "xx", " ", "1">>   :> None
  @@ <<"cmd", " ", "enable">>                      :> None
  @@ <<"stream", " ", "1">>                        :> Stream(1)
  @@ <<"stream", " ", "5">>                        :> Stream(5)
  @@ <<"stream", " ", "1", "0">>                   :> Stream(10)
  @@ <<"stream", " ", "off">>                      :> Stream(0)
  @@ <<"stream">>                                  :> Stream(0)
  @@ <<"stream", " ", "xx">>                       :> None
  @@ <<"stream", " ", "-", "1">>                   :> Stream(-1)
  @@ <<"status">>                                  :> None

\* An indented command with arguments is refused: its own name is taken for
\* the first of them.
Keyed ==
     <<>>                                          :> None
  @@ <<"set", " ", " ", "kp", " ", "2">>           :> Set("kp", 2)
  @@ <<" ", "set", " ", "kp", " ", "5">>           :> None
  @@ <<"cmd", " ", "mode", " ", "p", " ", "2", "5">> :> Mode("p", 2)

MCText    == DOMAIN Executed
MCTyped   == DOMAIN Keyed
MCOrderOf == Executed @@ Keyed

ASSUME OrdersFit
===============================================================================

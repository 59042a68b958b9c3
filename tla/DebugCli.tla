------------------------------- MODULE DebugCli -------------------------------
(***************************************************************************)
(* The debug CLI (src/service/debug_cli.c): the line buffer, the parser,   *)
(* and the commands that change something, with the configuration snapshot *)
(* (src/runtime/config_snapshot.c) and the command buffer they write, and  *)
(* the telemetry stream.                                                   *)
(*                                                                         *)
(* The Service task, the lowest, reads characters and executes lines, one  *)
(* step per store that another task can see.  Both other tasks preempt it  *)
(* between two of them; of theirs only debug_cli_stream_tick, which the    *)
(* Motion task calls every millisecond, writes anything here.              *)
(*                                                                         *)
(* A line is a sequence of symbols: " ", the digits, and one symbol for    *)
(* each keyword, name and other character.  Numbers are written with a     *)
(* sign and digits, without fractions and exponents.  help, status, dump, get and    *)
(* faults only read and print.  What is printed is left out, and so are    *)
(* stream_seq and the sequence number of a command (346), which nothing    *)
(* acts on.  The calls behind "cmd enable" and the like are those of       *)
(* MotorLifecycle, and change nothing here.                                *)
(***************************************************************************)
EXTENDS Integers, SequencesExt

CONSTANTS
  Param,      \* the names of cli_params
  Digit,      \* a function: the digits and their values
  Text,       \* the lines that are passed to debug_cli_exec
  Typed,      \* the lines that are typed, without their ends
  OrderOf,    \* a function: what each of them should do, see Settings
  LineMax,    \* CLI_LINE_MAX
  TickRate,   \* ticks in a second, 1000 in the code; also the highest rate
  RateMod,    \* 256: the rate is stored in a uint8_t
  ULongMod,   \* the range of unsigned long
  MaxLines,   \* bound: lines executed
  MaxTicks    \* bound: ticks after one stream command

ASSUME CliAssumption ==
  /\ LineMax \in Nat /\ LineMax > 1 /\ MaxLines \in Nat /\ MaxTicks \in Nat
  /\ TickRate \in Nat /\ RateMod \in 1 .. TickRate
  /\ ULongMod \in Nat /\ ULongMod > TickRate

ASSUME TextAssumption ==
  /\ Digit \in [DOMAIN Digit -> 0 .. 9]
  /\ Text \cup Typed \subseteq Seq(STRING)
  /\ \A s \in Typed : \A i \in 1 .. Len(s) : s[i] \notin {"\n", "\r"}

VARIABLES
  line,        \* line_buf[0 .. line_len - 1]
  cfg_data, cfg_index, \* rt->cfg_snapshot
  cmd_data, cmd_index, \* rt->cmd_buf
  stream_hz,
  stream_div,
  doing,       \* what the command in execution still has to store
  step,        \* which of its stores comes next
  typing,      \* what is left to type of the current line and its end
  \* History, no part of the program:
  lines,       \* lines executed
  typed,       \* the current line
  text,        \* the line in execution
  asked,       \* the rate the last stream command asked for
  ticks, rows  \* ticks and rows since

buffers == <<cfg_data, cfg_index, cmd_data, cmd_index>>
stream  == <<stream_hz, stream_div>>
rates   == <<asked, ticks, rows>>
cliVars    == <<line, buffers, stream, doing, step, typing, lines, typed, text, rates>>

Ends == {<<"\n">>, <<"\r">>, <<"\r", "\n">>}

-----------------------------------------------------------------------------
(* The parser.                                                             *)

cli_skip_sp(s) ==
  LET k == SelectInSeq(s, LAMBDA c : c # " ") IN
  IF k = 0 THEN <<>> ELSE SubSeq(s, k, Len(s))

Token(s) == LET k == SelectInSeq(s, LAMBDA c : c = " ") IN
            IF k = 0 THEN s ELSE SubSeq(s, 1, k - 1)

cli_token(s) == Token(cli_skip_sp(s))

\* s + n
Past(s, n) == SubSeq(s, n + 1, Len(s))

\* What strtof and strtoul read: a sign, and the digits at the head of the rest.
Signed(s)    == s # <<>> /\ s[1] \in {"+", "-"}
Magnitude(s) == IF Signed(s) THEN Tail(s) ELSE s
Digits(s) == LET k == SelectInSeq(s, LAMBDA c : c \notin DOMAIN Digit) IN
             IF k = 0 THEN s ELSE SubSeq(s, 1, k - 1)
Natural(d) ==
  LET value[n \in 0 .. Len(d)] == IF n = 0 THEN 0 ELSE 10 * value[n - 1] + Digit[d[n]]
  IN  value[Len(d)]
IsNumber(s)  == Digits(Magnitude(s)) # <<>>
Number(s) ==
  LET n == Natural(Digits(Magnitude(s)))
  IN  IF Signed(s) /\ s[1] = "-" THEN 0 - n ELSE n

\* strtoul takes a sign too: it wraps what is below 0.
Unsigned(n) ==
  CASE n \in 0 .. ULongMod - 1 -> n
    [] n \in 1 - ULongMod .. -1 -> ULongMod + n
    [] OTHER -> ULongMod - 1

None == [do |-> "none"]

cli_find_param(tok) == \E p \in Param : tok = <<p>>

cli_cmd_set(arg) ==
  LET tok == cli_token(arg)
      val == cli_skip_sp(Past(arg, Len(tok)))
  IN IF cli_find_param(tok) /\ IsNumber(val)
     THEN [do |-> "set", param |-> tok[1], value |-> Number(val)]
     ELSE None

cli_cmd_mode(arg) ==
  LET s   == cli_skip_sp(arg)
      tok == Token(s)
      val == cli_skip_sp(Past(s, Len(tok)))
  IN IF tok \in {<<"t">>, <<"v">>, <<"p">>} /\ IsNumber(val)
     THEN [do |-> "mode", mode |-> tok[1], target |-> Number(val)]
     ELSE None

cli_cmd_cmd(arg) ==
  LET tok == cli_token(arg) IN
  IF tok = <<"mode">> THEN cli_cmd_mode(Past(arg, Len(tok))) ELSE None

cli_cmd_stream(arg) ==
  LET tok == cli_token(arg) IN
  CASE tok \in {<<>>, <<"off">>, <<"0">>} -> [do |-> "off"]
    [] IsNumber(tok) /\ tok # <<"0">> ->
         [do |-> "on", hz |-> Min({Unsigned(Number(tok)), TickRate})]
    [] OTHER -> None

\* rest is taken from the head of the line and not from its first token,
\* which is the same but for a line that begins with blanks.
cli_dispatch(s) ==
  LET tok  == cli_token(s)
      rest == cli_skip_sp(Past(s, Len(tok)))
  IN CASE tok = <<"set">>    -> cli_cmd_set(rest)
       [] tok = <<"cmd">>    -> cli_cmd_cmd(rest)
       [] tok = <<"stream">> -> cli_cmd_stream(rest)
       [] OTHER              -> None

-----------------------------------------------------------------------------
Idle == [do |-> "idle"]

\* debug_cli_init, after config_snapshot_init and command_buffer_init.
CliInit ==
  /\ line = <<>> /\ stream_hz = 0 /\ stream_div = 0
  /\ cfg_data = [s \in {0, 1} |-> [p \in Param |-> 0]] /\ cfg_index = 0
  /\ cmd_data = [s \in {0, 1} |-> [mode |-> "v", target |-> 0]] /\ cmd_index = 0
  /\ doing = Idle /\ step = 1 /\ typing = <<>>
  /\ lines = 0 /\ typed = <<>> /\ text = <<>>
  /\ asked = 0 /\ ticks = 0 /\ rows = 0

-----------------------------------------------------------------------------
(* The Service task.                                                       *)

\* External: somebody goes on to type another line.
Type ==
  /\ typing = <<>> /\ lines < MaxLines
  /\ \E s \in Typed, e \in Ends : typing' = s \o e /\ typed' = s
  /\ UNCHANGED <<line, buffers, stream, doing, step, lines, text, rates>>

Dispatch(s) ==
  /\ doing = Idle /\ doing' = cli_dispatch(s) /\ step' = 1
  /\ lines < MaxLines /\ lines' = lines + 1

debug_cli_exec ==
  /\ \E s \in Text : Dispatch(s) /\ text' = s
  /\ UNCHANGED <<line, buffers, stream, typing, typed, rates>>

Key == doing = Idle /\ typing # <<>> /\ typing' = Tail(typing)

EndOfLine ==
  /\ Key /\ Head(typing) \in {"\n", "\r"} /\ line # <<>>
  /\ Dispatch(line) /\ text' = typed
  /\ line' = <<>>
  /\ UNCHANGED <<buffers, stream, typed, rates>>

\* Also the second half of "\r\n".
EmptyLine ==
  /\ Key /\ Head(typing) \in {"\n", "\r"} /\ line = <<>>
  /\ UNCHANGED <<line, buffers, stream, doing, step, lines, typed, text, rates>>

\* What does not fit is dropped.
Character ==
  /\ Key /\ Head(typing) \notin {"\n", "\r"}
  /\ line' = IF Len(line) < LineMax - 1 THEN Append(line, Head(typing)) ELSE line
  /\ UNCHANGED <<buffers, stream, doing, step, lines, typed, text, rates>>

debug_cli_putc == EndOfLine \/ EmptyLine \/ Character

\* The command in execution makes its n-th store, and is done after the last.
Store(what, n, last) ==
  /\ doing.do = what /\ step = n /\ step' = n + 1
  /\ doing' = IF n = last THEN Idle ELSE doing
  /\ UNCHANGED <<line, typing, lines, typed, text>>

\* Mutant: the new configuration is made from the slot it goes to.
SetSlot_FromInactive ==
  /\ Store("set", 1, 2)
  /\ cfg_data' = [cfg_data EXCEPT ![1 - cfg_index][doing.param] = doing.value]
  /\ UNCHANGED <<cfg_index, cmd_data, cmd_index, stream, rates>>

\* config_snapshot_read, the change, and config_snapshot_update.
SetSlot ==
  /\ Store("set", 1, 2)
  /\ cfg_data' = [cfg_data EXCEPT ![1 - cfg_index] = [cfg_data[cfg_index] EXCEPT ![doing.param] = doing.value]]
  /\ UNCHANGED <<cfg_index, cmd_data, cmd_index, stream, rates>>

SetSwap ==
  /\ Store("set", 2, 2)
  /\ cfg_index' = 1 - cfg_index
  /\ UNCHANGED <<cfg_data, cmd_data, cmd_index, stream, rates>>

\* command_buffer_write.
ModeSlot ==
  /\ Store("mode", 1, 2)
  /\ cmd_data' = [cmd_data EXCEPT ![1 - cmd_index] = [mode |-> doing.mode, target |-> doing.target]]
  /\ UNCHANGED <<cfg_data, cfg_index, cmd_index, stream, rates>>

ModeSwap ==
  /\ Store("mode", 2, 2)
  /\ cmd_index' = 1 - cmd_index
  /\ UNCHANGED <<cfg_data, cfg_index, cmd_data, stream, rates>>

StreamHz ==
  /\ Store("on", 1, 2)
  /\ stream_hz' = doing.hz % RateMod
  /\ UNCHANGED <<buffers, stream_div, rates>>

\* Mutant: the divider goes on from the last stream.
StreamDiv_Kept ==
  /\ Store("on", 2, 2)
  /\ asked' = doing.hz /\ ticks' = 0 /\ rows' = 0
  /\ UNCHANGED <<buffers, stream>>

StreamDiv ==
  /\ Store("on", 2, 2)
  /\ stream_div' = 0
  /\ asked' = doing.hz /\ ticks' = 0 /\ rows' = 0
  /\ UNCHANGED <<buffers, stream_hz>>

\* debug_cli_stream_stop.
StopHz ==
  /\ Store("off", 1, 2)
  /\ stream_hz' = 0
  /\ asked' = 0 /\ ticks' = 0 /\ rows' = 0
  /\ UNCHANGED <<buffers, stream_div>>

StopDiv ==
  /\ Store("off", 2, 2)
  /\ stream_div' = 0
  /\ UNCHANGED <<buffers, stream_hz, rates>>

\* A line that was refused, or that only reads.
NoStore ==
  /\ Store("none", 1, 1)
  /\ UNCHANGED <<buffers, stream, rates>>

Execute ==
  \/ SetSlot \/ SetSwap \/ ModeSlot \/ ModeSwap
  \/ StreamHz \/ StreamDiv \/ StopHz \/ StopDiv \/ NoStore

-----------------------------------------------------------------------------
(* The Motion task.                                                        *)

Period(hz) == TickRate \div hz

debug_cli_stream_tick ==
  /\ ticks < MaxTicks
  /\ stream_hz # 0
  /\ LET due == stream_div + 1 >= Period(stream_hz) IN
       /\ stream_div' = IF due THEN 0 ELSE stream_div + 1
       /\ rows' = IF due THEN rows + 1 ELSE rows
  /\ ticks' = ticks + 1
  /\ UNCHANGED <<line, buffers, stream_hz, doing, step, typing, lines, typed, text, asked>>

-----------------------------------------------------------------------------
CliNext ==
  \/ Type \/ debug_cli_exec \/ debug_cli_putc \/ Execute
  \/ debug_cli_stream_tick

\* The Service task comes to run, and finishes the line it began.
CliSpec == CliInit /\ [][CliNext]_cliVars /\ WF_cliVars(Execute)

-----------------------------------------------------------------------------
(* Every line executed changes the one setting it names to the value it    *)
(* names, at one instant and nothing else, and other lines change nothing: *)
(* neither the alternation of the slots (282-307), nor lines that are cut  *)
(* or refused half way, nor stores that other tasks see one by one may     *)
(* break it.  OrderOf says what each line should do.                       *)
Pending ==
  IF doing = Idle \/ (doing.do \in {"on", "off"} /\ step = 2)
  THEN None ELSE OrderOf[text]

Settings == INSTANCE Settings WITH
  Order   <- {OrderOf[s] : s \in Text \cup Typed},
  Rates   <- 0 .. RateMod - 1,
  params  <- cfg_data[cfg_index],
  command <- cmd_data[cmd_index],
  rate    <- stream_hz,
  pending <- Pending

ImplementsSettings == Settings!Spec

\* The store that a line leads to is what its order says; a rate that the
\* stream cannot run at may have become another, as in Settings.
Fits(store, order) ==
  CASE store.do = "on"  ->
         order.do = "stream" /\ (order.rate = store.hz \/ order.rate \notin 0 .. RateMod - 1)
    [] store.do = "off" -> order.do = "stream" /\ order.rate = 0
    [] OTHER            -> order = store

\* What the buffer holds of a line.
Cut(s) == SubSeq(s, 1, Min({Len(s), LineMax - 1}))

\* The parser makes of each line what OrderOf says.
OrdersFit ==
  /\ \A s \in Text : Fits(cli_dispatch(s), OrderOf[s])
  /\ \A s \in Typed : s # <<>> => Fits(cli_dispatch(Cut(s)), OrderOf[s])

(* A stream prints at least the rows it was asked for, of a rate as far as *)
(* eight bits hold it, and none once it was stopped, wherever the ticks    *)
(* fall between the stores of the commands, and whatever stream ran before *)
(* (361-382, 444-490).  The time between two rows, TickRate / rate ticks   *)
(* as they were asked for, is less than one tick short: no row comes       *)
(* sooner than (TickRate - rate + 1) / rate ticks after the one before.    *)
RateIsKept ==
  LET rate == asked % RateMod IN
  doing.do # "on" =>
    IF rate = 0 THEN rows = 0
    ELSE /\ rows >= (ticks * rate) \div TickRate
         /\ rows * (TickRate - rate + 1) <= ticks * rate
===============================================================================

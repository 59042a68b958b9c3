-------------------------------- MODULE EncAbs --------------------------------
(***************************************************************************)
(* The absolute encoder (src/device/encoder/enc_abs.c) as functions of its *)
(* context, a record.  Angles are in units of the encoder's resolution, a  *)
(* velocity is the way and the time between two good reads.  The optional  *)
(* PLL is left out, and so are the totals behind err_rate.                 *)
(***************************************************************************)
EXTENDS Integers

CONSTANTS
  Resolution,
  DtMax        \* ENC_ABS_DT_MAX: a longer time gives no velocity

ASSUME ResolutionAssumption == Resolution \in Nat \ {0}
ASSUME DtAssumption == DtMax \in Nat \ {0}

HalfRes == Resolution \div 2

Quality == {"GOOD", "STALE", "BAD"}

enc_abs_init(limit, inverted) ==
  [data_err_limit |-> IF limit = 0 THEN 1 ELSE limit, inverted |-> inverted,
   data_err_count |-> 0, last_raw |-> 0, last_turn |-> 0,
   angle |-> 0, velocity |-> <<0, 1>>, first |-> TRUE, quality |-> "GOOD"]

\* read_abs fails.
enc_abs_update_Failed(c) ==
  [c EXCEPT !.data_err_count = @ + 1, !.quality = "BAD"]

\* read_abs gave a valid raw, which ends the errors before, and read_multi fails.
enc_abs_update_MultiFailed(c) ==
  [c EXCEPT !.data_err_count = 1, !.quality = "BAD"]

\* Mutant: one invalid read too many is tolerated.
enc_abs_update_Invalid_Late(c) ==
  [c EXCEPT !.data_err_count = @ + 1,
            !.quality = IF c.data_err_count >= c.data_err_limit
                        THEN "BAD" ELSE "STALE"]

\* read_abs answers, but the data is not valid.
enc_abs_update_Invalid(c) ==
  [c EXCEPT !.data_err_count = @ + 1,
            !.quality = IF c.data_err_count + 1 >= c.data_err_limit
                        THEN "BAD" ELSE "STALE"]

\* Mutant: a turn backwards is not undone.
Wrap_OneSided(d) == IF d < -HalfRes THEN d + Resolution ELSE d

\* The shortest way around the turn.
Wrap(d) == IF d > HalfRes THEN d - Resolution
           ELSE IF d < -HalfRes THEN d + Resolution ELSE d

\* Mutant: 0 is turned around too, out of the range of the others.
Directed_Zero(c, raw) == IF c.inverted THEN Resolution - raw ELSE raw

Directed(c, raw) ==
  IF c.inverted /\ raw # 0 THEN Resolution - raw ELSE raw

\* read_abs gives raw, in range, and read_multi, if there is one, turns, when
\* dt passed since the last good read.
enc_abs_update_Valid(c, raw, turns, dt) ==
  LET ang == Directed(c, raw)
  IN  [c EXCEPT
        !.data_err_count = 0, !.quality = "GOOD",
        !.velocity = IF ~c.first /\ 0 < dt /\ dt < DtMax
                     THEN <<Wrap(ang - c.last_raw)
                              + (turns - c.last_turn) * Resolution, dt>>
                     ELSE @,
        !.angle = turns * Resolution + ang,
        !.last_raw = ang, !.last_turn = turns, !.first = FALSE]
===============================================================================

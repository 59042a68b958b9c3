------------------------------ MODULE Commutation ------------------------------
(***************************************************************************)
(* From the encoder's angle to the frame in which currents are measured    *)
(* and voltages applied: foc_calc_elec_angle and foc_wrap_pi               *)
(* (src/foc/foc_math.c) and foc_sincos with its table                      *)
(* (src/foc/foc_trig.c), as motor_fast_step calls them in every cycle      *)
(* after the calibration of Calibration.                                   *)
(*                                                                         *)
(* What can go wrong here is in the rounding, so angles are floats with a  *)
(* short mantissa: whole numbers of a unit up to Precision, then even      *)
(* ones, then multiples of 4, and so on.  Sines are thousandths.  Park and *)
(* inverse Park, sums of products with sine and cosine, are left out.      *)
(***************************************************************************)
EXTENDS Calibration

CONSTANTS
  Quarter,    \* pi / 2
  Precision,  \* 2^24 units in the code
  Gaps,       \* bound: the distances between neighbouring floats, 1, 2, 4 ...
  Sine,       \* the sine of 0 .. Quarter
  Intervals,  \* of the table, 256 in the code
  Table       \* foc_sin_quarter: the sines at their ends

ASSUME FloatAssumption ==
  /\ Precision \in Nat /\ Precision % 2 = 0
  /\ Quarter \in Nat /\ 2 < Quarter /\ Quarter < Precision
  /\ {1, 2, 4, 8} \subseteq Gaps /\ Gaps \subseteq Nat \ {0}
  /\ \A g \in Gaps \ {1} : \E h \in Gaps : g = 2 * h
  /\ \A g, h \in Gaps : g < h => 2 * g <= h

Pi    == 2 * Quarter
TwoPi == 4 * Quarter

Abs(x) == IF x < 0 THEN -x ELSE x

-------------------------------------------------------------------------------
(* Floats.                                                                 *)

\* The distance between the floats around x; an x beyond them is no float.
InRange(x) == \E g \in Gaps : Abs(x) < Precision * g
Gap(x) == CHOOSE g \in Gaps : Abs(x) < Precision * g
                               /\ (g = 1 \/ Precision * g <= 2 * Abs(x))

\* The float nearest to x, the even one of two.
Float(x) ==
  LET g == Gap(x) n == x \div g r == x % g
  IN  IF 2 * r < g \/ (2 * r = g /\ n % 2 = 0) THEN n * g ELSE (n + 1) * g

\* An angle of n counts: made a float, a product, then a quotient.
Product(n)  == Float(n) * TwoPi
Quotient(n) == (2 * Float(Product(n)) + CPR) \div (2 * CPR)
Radians(n)  == Float(Quotient(n))

\* (int32_t)(a * (1 / 2 pi)): toward zero, of a product that was rounded,
\* as its second factor was, and may already, or not yet, have reached the
\* next whole number.
Truncated(a)  == IF a < 0 THEN -((-a) \div TwoPi) ELSE a \div TwoPi
WholeTurns(a) == {Truncated(a + e * Gap(a)) : e \in -2 .. 2}

Unwound(a, n) == Float(a - Float(n * TwoPi))

-------------------------------------------------------------------------------
(* The code.  Operators that truncate give the set of what may come out.   *)

\* Mutant: the way down is missing.
foc_wrap_pi_Once(a) ==
  {LET b == Unwound(a, n) IN IF b < -Pi THEN Float(b + TwoPi) ELSE b : n \in WholeTurns(a)}

foc_wrap_pi(a) ==
  {LET b == Unwound(a, n) IN
   IF b >= Pi THEN Float(b - TwoPi) ELSE IF b < -Pi THEN Float(b + TwoPi) ELSE b
   : n \in WholeTurns(a)}

\* What the phase alignment computed in floats from the angle it had read:
\* Base - mech * pp.
ZeroAngle   == (Base - zero) \div pp
ZeroTurned  == Radians(ZeroAngle) * pp
EncoderZero == Float(Radians(Base) - Float(ZeroTurned))

\* mech_angle_rad * pole_pairs + encoder_zero, before it is rounded.
Elec(mech) == Float(mech * pp) + EncoderZero
foc_calc_elec_angle(mech) == foc_wrap_pi(Float(Elec(mech)))

foc_trig_reduce(th) ==
  IF th \in 0 .. TwoPi - 1 THEN {th}
  ELSE {LET b == Unwound(th, n) IN IF b < 0 THEN Float(b + TwoPi) ELSE b : n \in WholeTurns(th)}

\* The sine, per unit.
Steepest == 1571 \div Quarter + 1

\* In the table, and on the line between two of its sines.
foc_sin_lookup(u) ==
  LET n    == (u * Intervals) \div Quarter
      frac == u * Intervals - n * Quarter  \* in parts of Quarter
  IN  IF n >= Intervals THEN Table[Intervals]
      ELSE Table[n] + (frac * (Table[n + 1] - Table[n])) \div Quarter

ASSUME TableAssumption ==
  /\ Intervals \in Nat \ {0} /\ Table \in [0 .. Intervals -> 0 .. 1000]
  /\ Sine \in [0 .. Quarter -> 0 .. 1000] /\ Sine[0] = 0
  \* From one unit to the next; and the table's intervals are short enough.
  /\ \A x \in 0 .. Quarter - 1 : Abs(Sine[x + 1] - Sine[x]) <= Steepest
  /\ \A x \in 0 .. Quarter : foc_sin_lookup(x) \in Sine[x] - 4 .. Sine[x] + 4

\* Mutant: the second half turn goes on like the first.
Folded_Half(quad, x, y) ==
  CASE quad \in {0, 2} -> [s |-> x, c |-> y]
    [] OTHER           -> [s |-> y, c |-> -x]

\* x and y are the sines of u and of Quarter - u.
Folded(quad, x, y) ==
  CASE quad = 0 -> [s |-> x,  c |-> y]
    [] quad = 1 -> [s |-> y,  c |-> -x]
    [] quad = 2 -> [s |-> -x, c |-> -y]
    [] OTHER    -> [s |-> -y, c |-> x]

\* Of the reduced angle.
foc_sincos(a) ==
  LET quad == a \div Quarter
      u    == Float(a - Float(quad * Quarter))
  IN  Folded(quad, foc_sin_lookup(u), foc_sin_lookup(Quarter - u))

\* fb.elec_angle_rad of the next fast step.
ElecAngles == foc_calc_elec_angle(Radians(enc.total))

-------------------------------------------------------------------------------
Commutated == Calibrated /\ (inverted => clean)

\* What rounding x moves it by at most; the numbers that are rounded.
Err(x) == Gap(x) \div 2
Sum    == Elec(Radians(enc.total))
Rounded ==
  LET angles == {enc.total, ZeroAngle, Base}
  IN  angles \cup {Product(n) : n \in angles} \cup {Quotient(n) : n \in angles} \cup
      {Radians(enc.total) * pp, ZeroTurned, Radians(Base) - Float(ZeroTurned), Sum,
       Float(Sum), Abs(Float(Sum)) + 2 * Gap(Float(Sum))}

\* Of a subtraction of whole turns; a difference is less than two of them.
WrapErr(a) == Err(Abs(a) + 2 * Gap(a)) + Err(2 * TwoPi)

\* The turns are limited (foc_math.c:69), so that neighbouring floats are not
\* a quarter of a turn apart.
Limited ==
  /\ \A x \in Rounded : InRange(x)
  /\ 2 * Gap(Float(Sum)) + WrapErr(Float(Sum)) < Pi

\* The roundings, in CPRths of half a unit: of an angle of the encoder, times
\* the pole pairs, of the zero, and of their sum; and then of the wrap.
Scale       == 2 * CPR
AngleErr(n) == (2 * TwoPi) * Err(n) + 2 * Err(Product(n)) + CPR + Scale * Err(Quotient(n))
TurnErr(n)  == pp * AngleErr(n) + Scale * Err(Radians(n) * pp)
ZeroErr     == AngleErr(Base) + TurnErr(ZeroAngle)
               + Scale * Err(Radians(Base) - Float(ZeroTurned))
SumErr      == TurnErr(enc.total) + ZeroErr + Scale * Err(Sum)
Slack       == SumErr + Scale * WrapErr(Float(Sum))

(* The electrical angle that the code computes in floats is in [-pi, pi)   *)
(* and the rotor's but for its roundings, however far the rotor turned,    *)
(* and wherever the quotient that counts the turns was rounded to          *)
(* (foc_math.c:55-78, cal_abi_align.c:113-115).                            *)
ElecIsRotors ==
  Commutated /\ Limited => \A e \in ElecAngles :
    /\ e \in -Pi .. Pi - 1
    /\ (Scale * e - 2 * pos * PP * TwoPi + Slack) % (Scale * TwoPi) <= 2 * Slack

\* The sine and the cosine, by their symmetries.
HalfSine(x) == IF x <= Quarter THEN Sine[x] ELSE Sine[Pi - x]
Sin(x) == LET r == x % TwoPi IN IF r <= Pi THEN HalfSine(r) ELSE -HalfSine(r - Pi)
Cos(x) == Sin(x + Quarter)

\* What the frame may be off: the table, and when the angle was negative the
\* roundings of an angle below 2 pi and of three quarters of a turn.
Tolerance(e) ==
  4 + (IF e < 0 THEN Steepest * (Err(TwoPi - 1) + Err(3 * Quarter)) ELSE 0)

\* The angle of the frame: that of the motor, but a quarter of a turn back
\* where the reduced angle was rounded to a whole turn, which is in no quadrant.
FrameAngle(a, e) == IF a = TwoPi THEN e - Quarter ELSE e

(* Voltages and currents are turned by that angle, in all four quadrants   *)
(* and across the ends of the table (foc_trig.c:93-184), except where a    *)
(* negative angle is so small that it is reduced to a whole turn           *)
(* (foc_trig.c:41-43): no other angle is, and the frame is then the one a  *)
(* quarter of a turn back.                                                 *)
FrameIsRotors ==
  Commutated /\ Limited => \A e \in ElecAngles : \A a \in foc_trig_reduce(e) :
    /\ a \in 0 .. TwoPi
    /\ a = TwoPi => e \in -Err(TwoPi - 1) .. -1
    /\ Abs(foc_sincos(a).s - Sin(FrameAngle(a, e))) <= Tolerance(e)
    /\ Abs(foc_sincos(a).c - Cos(FrameAngle(a, e))) <= Tolerance(e)
===============================================================================

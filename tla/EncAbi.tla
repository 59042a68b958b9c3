-------------------------------- MODULE EncAbi --------------------------------
(***************************************************************************)
(* The incremental encoder (src/device/encoder/enc_abi.c) as functions of  *)
(* its context, a record.  An angle is a number of counts, a velocity the  *)
(* pair of an angle and a time; the optional PLL, which smooths both, is   *)
(* left out.                                                               *)
(***************************************************************************)
EXTENDS Integers

CONSTANTS
  CPR,    \* counts per turn
  DtMax   \* ENC_ABI_DT_MAX: a longer time gives no velocity

ASSUME CPRAssumption == CPR \in Nat /\ CPR % 2 = 0 /\ CPR >= 4
ASSUME DtAssumption  == DtMax \in Nat

Half == CPR \div 2

enc_abi_init(useIndex, inverted) ==
  [use_index |-> useIndex, inverted |-> inverted,
   total |-> 0, last |-> 0, angle |-> 0, velocity |-> <<0, 1>>,
   index_found |-> ~useIndex, first |-> TRUE, quality |-> "GOOD"]

Directed(c, count) == IF c.inverted THEN -count ELSE count

\* Mutant: no correction for a counter that went back around.
enc_abi_delta_OneSided(cur, prev) ==
  IF cur - prev > Half THEN cur - prev - CPR ELSE cur - prev

\* The shortest way from prev to cur around the turn.
enc_abi_delta(cur, prev) ==
  LET d == cur - prev
  IN  IF d > Half THEN d - CPR ELSE IF d < -Half THEN d + CPR ELSE d

\* llroundf(total / CPR) * CPR: the nearest whole turn, halves away from 0.
WholeTurn(total) ==
  IF total >= 0 THEN ((total + Half) \div CPR) * CPR
                ELSE -(((Half - total) \div CPR) * CPR)

\* Mutant: last_angle_rad is not moved along.
AtIndex_KeepsAngle(c) ==
  IF c.index_found THEN [c EXCEPT !.total = WholeTurn(c.total)]
                   ELSE [c EXCEPT !.total = 0, !.index_found = TRUE]

\* What the index pulse does to a context whose total is up to date.
AtIndex(c) ==
  IF c.index_found
  THEN [c EXCEPT !.angle = @ + WholeTurn(c.total) - c.total,
                 !.total = WholeTurn(c.total)]
  ELSE [c EXCEPT !.total = 0, !.index_found = TRUE]

\* Mutant: an encoder that found no index is as good as one that did.
QualityOf_Always(c) == "GOOD"

QualityOf(c) == IF c.index_found THEN "GOOD" ELSE "STALE"

\* enc_abi_update when read_count succeeds, dt after the last time it did.
enc_abi_update(c, count, index, dt) ==
  LET now     == Directed(c, count)
      counted == [c EXCEPT
        !.total = IF c.first THEN @ ELSE @ + enc_abi_delta(now, c.last),
        !.last  = now,
        !.first = FALSE]
      aligned == IF c.use_index /\ index THEN AtIndex(counted) ELSE counted
  IN  [aligned EXCEPT
        !.velocity = IF 0 < dt /\ dt < DtMax
                     THEN <<aligned.total - aligned.angle, dt>> ELSE @,
        !.angle    = aligned.total,
        !.quality  = QualityOf(aligned)]

\* Mutant: a failed read counts as a count of 0.
enc_abi_update_FailedAsZero(c) == enc_abi_update(c, 0, FALSE, 0)

\* enc_abi_update when read_count fails.
enc_abi_update_Failed(c) == [c EXCEPT !.quality = "BAD"]
===============================================================================

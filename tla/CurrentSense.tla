----------------------------- MODULE CurrentSense -----------------------------
(***************************************************************************)
(* The phase currents (src/device/current_sense.c) as functions of the     *)
(* context, a record.  A sample is what the code tells apart: within       *)
(* max_current or over it.  So is a frame: the measurement, one cut down   *)
(* to max_current, or nothing, where the function leaves it unwritten.     *)
(***************************************************************************)
EXTENDS Naturals

Frame == {"measured", "clamped", "unwritten"}

Counters(limit, count, blank) ==
  [overcurrent_limit |-> limit, overcurrent_count |-> count, oc_blank_remaining |-> blank]

current_sense_init(limit) == Counters(IF limit = 0 THEN 1 ELSE limit, 0, 0)

\* A call that counted up to n and leaves the given number of blanked ones.
Reading(c, n, blank, rc, frame) ==
  [ctx |-> Counters(c.overcurrent_limit, n, blank), rc |-> rc, frame |-> frame]

\* read_phase_raw fails.
reconstruct_Failed(c) ==
  Reading(c, c.overcurrent_count, c.oc_blank_remaining, "ERROR", "unwritten")

\* Within max_current.
reconstruct_Normal(c) ==
  Reading(c, 0, IF c.oc_blank_remaining > 0 THEN c.oc_blank_remaining - 1 ELSE 0,
          "OK", "measured")

\* Over max_current while blanked.
Blanked(c) == Reading(c, 0, c.oc_blank_remaining - 1, "OK", "clamped")

\* Over max_current: an error from the limit-th call in a row on.
CountedTo(c, limit) ==
  LET n == c.overcurrent_count + 1
  IN  Reading(c, n, 0, IF n >= limit THEN "ERROR" ELSE "OK", "unwritten")

\* Mutant: one sample too few.
Counted_Early(c) == CountedTo(c, c.overcurrent_limit - 1)

\* Mutant: one sample too many.
Counted_Late(c) == CountedTo(c, c.overcurrent_limit + 1)

\* Over max_current and not blanked.
Counted(c) == CountedTo(c, c.overcurrent_limit)

reconstruct_Over(c) ==
  IF c.oc_blank_remaining > 0 THEN Blanked(c) ELSE Counted(c)
===============================================================================

---------------------------- MODULE Sensing_proofs ----------------------------
(***************************************************************************)
(* For every overcurrent_limit and every number of blanked samples,        *)
(* whatever the encoder and the shaft do: TripInTime and BlankHolds.  For  *)
(* every resolution, direction, speed and data_err_limit: what the encoder *)
(* says of the shaft, TypeOK, AngleIsNear and VelocityIsWay.               *)
(***************************************************************************)
EXTENDS Sensing, TLAPS

Limit == oc.overcurrent_limit
Count == oc.overcurrent_count
Left  == oc.oc_blank_remaining

OcTypeOK ==
  /\ oc \in [overcurrent_limit : Nat \ {0}, overcurrent_count : Nat,
             oc_blank_remaining : Nat]
  /\ overs \in Nat /\ since \in Nat /\ blanking \in BOOLEAN

\* What is left of the blanking, and counted after it, covers Blank samples
\* from the call of set_oc_blank on.
BlankCovers ==
  /\ since <= SinceMax
  /\ since < SinceMax => /\ since + Left >= Blank
                         /\ Left = 0 => Count <= since - Blank

\* The counter misses no sample over max_current but those before the second
\* store of set_oc_blank, which are fewer than Limit.
CountFollows ==
  state = "RUNNING" =>
    /\ TripInTime
    /\ Left = 0 => /\ blanking => overs <= Count /\ overs < Limit
                   /\ overs <= Count + (Limit - 1)

IInv == OcTypeOK /\ BlankCovers /\ CountFollows

\* No trip while blanked: the step of BlankHolds.
NoEarlyTrip ==
  oc'.overcurrent_count > oc.overcurrent_count /\ state' = "FAULT" => since' = SinceMax

-----------------------------------------------------------------------------
LEMMA Types ==
  ASSUME OcTypeOK
  PROVE  /\ Limit \in Nat /\ Limit >= 1 /\ Count \in Nat /\ Left \in Nat
         /\ Blank \in Nat /\ Blank >= 1
         /\ SinceMax \in Nat /\ SinceMax = Blank + Limit
BY SensingAssumption DEF OcTypeOK, Limit, Count, Left, SinceMax

LEMMA InitIInv == Init => IInv
<1> SUFFICES ASSUME Init PROVE IInv
  OBVIOUS
<1>1. PICK m \in Limits : oc = current_sense_init(m)
  BY DEF Init
<1>2. oc \in [overcurrent_limit : Nat \ {0}, overcurrent_count : Nat, oc_blank_remaining : Nat]
  <2>1. m \in Nat
    BY SensingAssumption
  <2>2. (IF m = 0 THEN 1 ELSE m) \in Nat \ {0}
    BY <2>1
  <2> QED
    BY <1>1, <2>2 DEF current_sense_init, Counters
<1>3. overs = 0 /\ since = SinceMax /\ blanking = FALSE /\ state = "READY"
  BY DEF Init
<1>4. OcTypeOK
  <2>1. Blank \in Nat /\ oc.overcurrent_limit \in Nat
    BY <1>2, SensingAssumption
  <2>2. since \in Nat
    BY <1>3, <2>1 DEF SinceMax
  <2> QED
    BY <1>2, <1>3, <2>2 DEF OcTypeOK
<1> QED
  BY <1>3, <1>4, Types DEF IInv, BlankCovers, CountFollows

\* A sample: the counters n and b that it leaves, and what it says.
LEMMA SampleIInv ==
  ASSUME IInv, state = "RUNNING", UNCHANGED blanking,
         NEW n \in Nat, NEW b \in Nat, NEW rc, NEW frm, NEW o \in Nat,
         Sample(Reading(oc, n, b, rc, frm), o),
         \/ n = Count /\ b = Left /\ rc = "ERROR"
         \/ n = 0 /\ o = 0 /\ rc = "OK" /\ b = IF Left > 0 THEN Left - 1 ELSE 0
         \/ /\ Left = 0 /\ b = 0 /\ n = Count + 1 /\ o = overs + 1
            /\ rc = IF n >= Limit THEN "ERROR" ELSE "OK"
  PROVE  IInv' /\ NoEarlyTrip
<1>1. OcTypeOK /\ Limit \in Nat /\ Limit >= 1 /\ Count \in Nat /\ Left \in Nat
      /\ Blank \in Nat /\ Blank >= 1 /\ SinceMax \in Nat /\ SinceMax = Blank + Limit
      /\ overs \in Nat /\ since \in Nat
  BY Types DEF IInv, OcTypeOK
<1>2. oc' = Counters(Limit, n, b)
  BY DEF Sample, Reading, Limit
<1>3. Limit' = Limit /\ Count' = n /\ Left' = b /\ SinceMax' = SinceMax
  BY <1>2 DEF Counters, Limit, Count, Left, SinceMax
<1>4. overs' = o /\ since' = IF since < SinceMax THEN since + 1 ELSE since
  BY DEF Sample
<1>5. IF rc = "OK" THEN state' = state ELSE state' = "FAULT"
  BY DEF Sample, Reading, Shutdown
<1>6. OcTypeOK'
  <2>1. oc' \in [overcurrent_limit : Nat \ {0}, overcurrent_count : Nat,
                 oc_blank_remaining : Nat]
    BY <1>1, <1>2 DEF Counters
  <2> QED
    BY <1>1, <1>4, <2>1 DEF OcTypeOK
<1>7. since <= SinceMax
      /\ (since < SinceMax => since + Left >= Blank /\ (Left = 0 => Count <= since - Blank))
  BY DEF IInv, BlankCovers
<1>8. BlankCovers'
  BY <1>1, <1>3, <1>4, <1>7 DEF BlankCovers
<1>9. CountFollows'
  <2> SUFFICES ASSUME state' = "RUNNING"
               PROVE  /\ o <= 2 * (Limit - 1)
                      /\ b = 0 => /\ blanking => o <= n /\ o < Limit
                                  /\ o <= n + (Limit - 1)
    BY <1>3, <1>4 DEF CountFollows, TripInTime, Limit
  <2>1. rc = "OK"
    BY <1>5
  <2>2. Left = 0 => (blanking => overs <= Count /\ overs < Limit) /\ overs <= Count + (Limit - 1)
    BY DEF IInv, CountFollows
  <2> QED
    BY <1>1, <2>1, <2>2
<1>10. NoEarlyTrip
  <2> SUFFICES ASSUME n > Count, rc # "OK" PROVE since' = SinceMax
    BY <1>3, <1>5 DEF NoEarlyTrip, Count
  <2>1. Left = 0 /\ n = Count + 1 /\ n >= Limit
    BY <1>1
  <2> QED
    BY <1>1, <1>4, <1>7, <2>1
<1> QED
  BY <1>6, <1>8, <1>9, <1>10 DEF IInv

LEMMA SamplesIInv ==
  ASSUME IInv, state = "RUNNING", UNCHANGED blanking, SampleCurrents
  PROVE  IInv' /\ NoEarlyTrip
<1>1. OcTypeOK /\ Limit \in Nat /\ Count \in Nat /\ Left \in Nat /\ overs \in Nat
  BY Types DEF IInv, OcTypeOK
<1>2. CASE Sample(reconstruct_Normal(oc), 0)
  <2> DEFINE b == IF Left > 0 THEN Left - 1 ELSE 0
  <2>1. Sample(Reading(oc, 0, b, "OK", "measured"), 0) /\ b \in Nat
    BY <1>1, <1>2 DEF reconstruct_Normal, Left
  <2> HIDE DEF b
  <2>2. b = IF Left > 0 THEN Left - 1 ELSE 0
    BY DEF b
  <2> QED
    BY <2>1, <2>2, SampleIInv
<1>3. CASE Sample(reconstruct_Failed(oc), overs)
  <2>1. Sample(Reading(oc, Count, Left, "ERROR", "unwritten"), overs)
    BY <1>3 DEF reconstruct_Failed, Count, Left
  <2> QED
    BY <1>1, <2>1, SampleIInv
<1>4. CASE Left > 0 /\ Sample(reconstruct_Over(oc), 0)
  <2>1. Sample(Reading(oc, 0, Left - 1, "OK", "clamped"), 0) /\ Left - 1 \in Nat
    BY <1>1, <1>4 DEF reconstruct_Over, Blanked, Left
  <2> QED
    BY <1>4, <2>1, SampleIInv
<1>5. CASE ~(Left > 0) /\ Sample(reconstruct_Over(oc), overs + 1)
  <2> DEFINE rc == IF Count + 1 >= Limit THEN "ERROR" ELSE "OK"
  <2>1. Sample(Reading(oc, Count + 1, 0, rc, "unwritten"), overs + 1)
    BY <1>5 DEF reconstruct_Over, Counted, CountedTo, Count, Limit, Left
  <2>2. rc = IF Count + 1 >= Limit THEN "ERROR" ELSE "OK"
    OBVIOUS
  <2>3. Left = 0 /\ Count + 1 \in Nat /\ overs + 1 \in Nat
    BY <1>1, <1>5
  <2> HIDE DEF rc
  <2> QED
    BY <2>1, <2>2, <2>3, SampleIInv
<1> QED
  BY <1>2, <1>3, <1>4, <1>5 DEF SampleCurrents, Left

\* A step that leaves the counters alone, and does not start a run.
LEMMA QuietIInv ==
  ASSUME IInv, UNCHANGED <<oc, overs, since, blanking>>,
         state' = "RUNNING" => state = "RUNNING"
  PROVE  IInv' /\ NoEarlyTrip
<1>1. Count \in Nat
  BY Types DEF IInv
<1>2. NoEarlyTrip
  BY <1>1 DEF NoEarlyTrip, Count
<1> QED
  BY <1>2 DEF IInv, OcTypeOK, BlankCovers, SinceMax, CountFollows, TripInTime, Limit, Count, Left

LEMMA EnableIInv ==
  ASSUME IInv, motor_enable
  PROVE  IInv' /\ NoEarlyTrip
<1>1. UNCHANGED <<oc, since, blanking>> /\ overs' = 0 /\ ~blanking /\ state' = "RUNNING"
  BY DEF motor_enable, Go
<1>2. OcTypeOK' /\ BlankCovers'
  BY <1>1 DEF IInv, OcTypeOK, BlankCovers, SinceMax, Limit, Count, Left
<1>3. Limit \in Nat /\ Limit >= 1 /\ Count \in Nat
  BY Types DEF IInv
<1>4. CountFollows'
  <2>1. 0 <= 2 * (Limit - 1) /\ 0 <= Count + (Limit - 1)
    BY <1>3
  <2> QED
    BY <1>1, <2>1 DEF CountFollows, TripInTime, Limit, Count, Left
<1> QED
  BY <1>1, <1>2, <1>4 DEF IInv, NoEarlyTrip

LEMMA BlankIInv ==
  ASSUME IInv, current_sense_set_oc_blank
  PROVE  IInv' /\ NoEarlyTrip
<1>1. OcTypeOK /\ Limit \in Nat /\ Limit >= 1 /\ Count \in Nat /\ Left \in Nat
      /\ Blank \in Nat /\ Blank >= 1 /\ SinceMax \in Nat /\ SinceMax = Blank + Limit
      /\ overs \in Nat /\ since \in Nat
  BY Types DEF IInv, OcTypeOK
<1>2. UNCHANGED <<state, overs>> /\ blanking' = ~blanking
  BY DEF current_sense_set_oc_blank
<1>3. CASE ~blanking /\ oc' = [oc EXCEPT !.oc_blank_remaining = Blank] /\ since' = 0
  <2>1. Limit' = Limit /\ Count' = Count /\ Left' = Blank /\ SinceMax' = SinceMax
    BY <1>1, <1>3 DEF OcTypeOK, Limit, Count, Left, SinceMax
  <2>2. OcTypeOK'
    BY <1>1, <1>2, <1>3 DEF OcTypeOK
  <2>3. BlankCovers'
    BY <1>1, <1>3, <2>1 DEF BlankCovers
  <2>4. CountFollows'
    BY <1>1, <1>2, <2>1 DEF IInv, CountFollows, TripInTime, Limit
  <2> QED
    BY <1>1, <2>1, <2>2, <2>3, <2>4 DEF IInv, NoEarlyTrip, Count
<1>4. CASE blanking /\ oc' = [oc EXCEPT !.overcurrent_count = 0] /\ UNCHANGED since
  <2>1. Limit' = Limit /\ Count' = 0 /\ Left' = Left /\ SinceMax' = SinceMax
    BY <1>1, <1>4 DEF OcTypeOK, Limit, Count, Left, SinceMax
  <2>2. OcTypeOK'
    BY <1>1, <1>2, <1>4 DEF OcTypeOK
  <2>3. BlankCovers'
    BY <1>1, <1>4, <2>1 DEF IInv, BlankCovers
  <2>4. CountFollows'
    <3>1. ~blanking' /\ state' = state /\ overs' = overs
      BY <1>2, <1>4
    <3>2. ASSUME state = "RUNNING"
          PROVE  overs <= 2 * (Limit - 1) /\ (Left = 0 => overs <= Limit - 1)
      BY <1>1, <1>4, <3>2 DEF IInv, CountFollows, TripInTime, Limit
    <3> QED
      BY <1>1, <2>1, <3>1, <3>2 DEF CountFollows, TripInTime, Limit
  <2> QED
    BY <1>1, <2>1, <2>2, <2>3, <2>4 DEF IInv, NoEarlyTrip, Count
<1> QED
  BY <1>3, <1>4 DEF current_sense_set_oc_blank

LEMMA NextIInv ==
  ASSUME IInv, [Next]_vars
  PROVE  IInv' /\ [NoEarlyTrip]_vars
<1>1. CASE motor_fast_step
  <2>1. state = "RUNNING" /\ UNCHANGED blanking
    BY <1>1 DEF motor_fast_step
  <2>2. CASE SampleCurrents
    BY <2>1, <2>2, SamplesIInv
  <2>3. CASE UNCHANGED <<oc, overs, since>>
    BY <2>1, <2>3, QuietIInv
  <2> QED
    BY <1>1, <2>2, <2>3 DEF motor_fast_step, history
<1>2. CASE Coast
  BY <1>2, QuietIInv DEF Coast, history
<1>3. CASE motor_enable
  BY <1>3, EnableIInv
<1>4. CASE Leave
  BY <1>4, QuietIInv DEF Leave, motor_stop, motor_recover, Go, history
<1>5. CASE current_sense_set_oc_blank
  BY <1>5, BlankIInv
<1>6. CASE UNCHANGED vars
  BY <1>6, QuietIInv DEF vars, history
<1> QED
  BY <1>1, <1>2, <1>3, <1>4, <1>5, <1>6 DEF Next

LEMMA Invariant == Spec => []IInv
<1>1. IInv /\ [Next]_vars => IInv'
  BY NextIInv
<1> QED
  BY <1>1, InitIInv, PTL DEF Spec

(* Overcurrent trips within Limit samples, twice that if set_oc_blank is   *)
(* overtaken by its own blanking (current_sense.c:43-44, 102-107).         *)
THEOREM TripsInTime == Spec => []TripInTime
<1>1. IInv => TripInTime
  BY DEF IInv, CountFollows, TripInTime
<1> QED
  BY <1>1, Invariant, PTL

(* Nothing is reported while blanked, wherever set_oc_blank is interrupted *)
(* (current_sense.c:85-107).                                               *)
THEOREM BlankingHolds == Spec => BlankHolds
<1>1. IInv /\ [Next]_vars => [NoEarlyTrip]_vars
  BY NextIInv
<1> QED
  BY <1>1, Invariant, PTL DEF Spec, BlankHolds, NoEarlyTrip

-----------------------------------------------------------------------------
(* The encoder.                                                            *)

Context ==
  [data_err_limit : Nat \ {0}, inverted : BOOLEAN, data_err_count : Nat,
   last_raw : 0 .. Resolution - 1, last_turn : Int, angle : Int,
   velocity : Int \X Int, first : BOOLEAN, quality : Quality]

EncTypeOK ==
  /\ enc \in Context /\ pos \in Int /\ gap \in Nat /\ seen \in Int
  /\ multi \in BOOLEAN /\ fresh \in BOOLEAN
  /\ ~(multi /\ enc.inverted)

Turns(p) == IF multi THEN TurnOf(p) ELSE 0

\* What was read is where the shaft was.
Remembered ==
  /\ fresh => ~enc.first
  /\ ~enc.first => /\ enc.last_raw = seen % Resolution
                   /\ enc.last_turn = Turns(seen)
                   /\ enc.angle = enc.last_turn * Resolution + enc.last_raw

\* Every invalid read since costs one move of the shaft.
Lag ==
  state = "RUNNING" /\ fresh =>
    /\ Abs(pos - seen) <= MaxMove * enc.data_err_count
    /\ enc.data_err_count < enc.data_err_limit

\* The rest of TypeOK.
OutcomeOK ==
  /\ state \in {"READY", "RUNNING", "FAULT"} /\ code \in Code \cup {"none"}
  /\ frame \in Frame /\ Left <= Blank

EInv == EncTypeOK /\ Remembered /\ Lag /\ OutcomeOK

LEMMA Modulo ==
  ASSUME NEW n \in Nat \ {0}, NEW a \in Int
  PROVE  a % n \in 0 .. n - 1 /\ a \div n \in Int /\ a = n * (a \div n) + (a % n)
OBVIOUS

LEMMA ModuloUnique ==
  ASSUME NEW n \in Nat \ {0}, NEW q \in Int, NEW r \in 0 .. n - 1
  PROVE  (n * q + r) % n = r
OBVIOUS

\* Whichever way the encoder counts, the reading is the shaft's angle.
LEMMA RawDirected ==
  ASSUME EncTypeOK, NEW p \in Int
  PROVE  Directed(enc, Raw(p)) = p % Resolution
<1>1. Resolution \in Nat \ {0} /\ enc.inverted \in BOOLEAN
  BY ResolutionAssumption DEF EncTypeOK, Context
<1>2. CASE ~enc.inverted
  BY <1>2 DEF Directed, Raw
<1>3. CASE enc.inverted
  <2> DEFINE q == (-p) \div Resolution
             r == (-p) % Resolution
  <2>1. r \in 0 .. Resolution - 1 /\ q \in Int /\ -p = Resolution * q + r
    BY <1>1, Modulo
  <2>2. Directed(enc, Raw(p)) = IF r # 0 THEN Resolution - r ELSE r
    BY <1>3 DEF Directed, Raw
  <2> HIDE DEF q, r
  <2>3. CASE r = 0
    <3>1. p = Resolution * (-q) + 0
      BY <1>1, <2>1, <2>3
    <3>2. (Resolution * (-q) + 0) % Resolution = 0
      BY <1>1, <2>1, ModuloUnique
    <3> QED
      BY <2>2, <2>3, <3>1, <3>2
  <2>4. CASE r # 0
    <3>1. p = Resolution * (-q - 1) + (Resolution - r)
      BY <1>1, <2>1
    <3>2. -q - 1 \in Int /\ Resolution - r \in 0 .. Resolution - 1
      BY <1>1, <2>1, <2>4
    <3>3. (Resolution * (-q - 1) + (Resolution - r)) % Resolution = Resolution - r
      BY <1>1, <3>2, ModuloUnique
    <3> QED
      BY <2>2, <2>4, <3>1, <3>3
  <2> QED
    BY <2>3, <2>4
<1> QED
  BY <1>1, <1>2, <1>3

LEMMA TurnIsInt == \A p \in Int : Turns(p) \in Int /\ p % Resolution \in 0 .. Resolution - 1
BY ResolutionAssumption, Modulo DEF Turns, TurnOf

LEMMA InitEInv == Init => EInv
<1> SUFFICES ASSUME Init PROVE EInv
  OBVIOUS
<1>1. PICK n \in Limits, inverted \in BOOLEAN : enc = enc_abs_init(n, inverted)
  BY DEF Init
<1>2. /\ state = "READY" /\ code = "none" /\ frame = "measured" /\ pos = 0 /\ gap = 0 /\ seen = 0
      /\ fresh = FALSE /\ multi \in BOOLEAN /\ ~(multi /\ enc.inverted)
  BY DEF Init
<1>3. enc \in Context /\ enc.first
  <2>1. (IF n = 0 THEN 1 ELSE n) \in Nat \ {0} /\ 0 \in 0 .. Resolution - 1
    BY SensingAssumption, ResolutionAssumption
  <2> QED
    BY <1>1, <2>1 DEF enc_abs_init, Context, Quality
<1>4. Left = 0 /\ Blank \in Nat
  BY SensingAssumption DEF Init, current_sense_init, Counters, Left
<1>5. EncTypeOK
  <2>1. pos \in Int /\ gap \in Nat /\ seen \in Int
    BY <1>2
  <2>2. fresh \in BOOLEAN
    BY <1>2
  <2>3. multi \in BOOLEAN /\ ~(multi /\ enc.inverted)
    BY <1>2
  <2> QED
    BY <1>3, <2>1, <2>2, <2>3 DEF EncTypeOK
<1>6. Remembered /\ Lag
  BY <1>2, <1>3 DEF Remembered, Lag
<1>7. OutcomeOK
  BY <1>2, <1>4 DEF OutcomeOK, Frame
<1> QED
  BY <1>5, <1>6, <1>7 DEF EInv

LEMMA AbsMove ==
  ASSUME NEW a \in Int, NEW b \in Int, NEW c \in Int, NEW m \in Nat, NEW n \in Nat,
         Abs(a - b) <= n, c - a \in -m .. m
  PROVE  Abs(c - b) <= n + m
<1>1. a - b <= n /\ -(a - b) <= n
  <2>1. a - b \in Int
    OBVIOUS
  <2> QED
    BY <2>1 DEF Abs
<1>2. c - b <= n + m /\ -(c - b) <= n + m /\ c - b \in Int
  BY <1>1
<1> QED
  BY <1>2 DEF Abs

LEMMA ElapseType == \A n \in Nat : Elapse(n) => gap' \in Nat
BY SensingAssumption, DtAssumption DEF Elapse

\* A good read; the velocity it gives, see VelocityIsWay.
LEMMA ReadEInv ==
  ASSUME EncTypeOK, Remembered, Lag, pos' \in Int, UNCHANGED multi, ReadEncoder
  PROVE  EncTypeOK' /\ Remembered' /\ Lag'
<1> DEFINE raw == pos' % Resolution
           n   == Turns(pos')
<1>1. Directed(enc, Raw(pos')) = raw
  BY RawDirected
<1>2. n \in Int /\ raw \in 0 .. Resolution - 1 /\ n = IF multi THEN TurnOf(pos') ELSE 0
  BY TurnIsInt DEF Turns
<1>3. Resolution \in Nat /\ MaxMove \in Nat
  BY ResolutionAssumption, SensingAssumption
<1>4. enc \in Context
  BY DEF EncTypeOK
<1> HIDE DEF raw, n
<1>5. /\ enc' = [enc EXCEPT
           !.data_err_count = 0, !.quality = "GOOD",
           !.velocity = IF ~enc.first /\ 0 < gap /\ gap < DtMax
                        THEN <<Wrap(raw - enc.last_raw) + (n - enc.last_turn) * Resolution, gap>>
                        ELSE @,
           !.angle = n * Resolution + raw,
           !.last_raw = raw, !.last_turn = n, !.first = FALSE]
      /\ fresh' = TRUE /\ seen' = pos'
  BY <1>1, <1>2 DEF ReadEncoder, enc_abs_update_Valid
<1>6. n * Resolution + raw \in Int
      /\ \A d \in Int : Wrap(d) \in Int
  BY <1>2, <1>3 DEF Wrap
<1>7. (IF ~enc.first /\ 0 < gap /\ gap < DtMax
       THEN <<Wrap(raw - enc.last_raw) + (n - enc.last_turn) * Resolution, gap>>
       ELSE enc.velocity) \in Int \X Int
  <2>1. Wrap(raw - enc.last_raw) + (n - enc.last_turn) * Resolution \in Int
    BY <1>2, <1>3, <1>4, <1>6 DEF Context
  <2>2. enc.velocity \in Int \X Int /\ gap \in Int
    BY <1>4 DEF Context, EncTypeOK
  <2> QED
    BY <2>1, <2>2
<1>8. enc' \in Context
  BY <1>2, <1>4, <1>5, <1>6, <1>7 DEF Context, Quality
<1>9. /\ enc'.last_raw = raw /\ enc'.last_turn = n /\ enc'.first = FALSE
      /\ enc'.angle = n * Resolution + raw /\ enc'.data_err_count = 0
      /\ enc'.inverted = enc.inverted /\ enc'.data_err_limit = enc.data_err_limit
  BY <1>4, <1>5 DEF Context
<1>10. EncTypeOK'
  <2>1. gap' \in Nat
    BY ElapseType DEF ReadEncoder
  <2> QED
    BY <1>5, <1>8, <1>9, <2>1 DEF EncTypeOK
<1>11. Remembered'
  <2>1. raw = seen' % Resolution /\ n = Turns(seen)'
    BY <1>2, <1>5 DEF raw, n, Turns
  <2> QED
    BY <1>9, <2>1 DEF Remembered
<1>12. Lag'
  BY <1>3, <1>4, <1>5, <1>9 DEF Lag, Abs, Context
<1> QED
  BY <1>10, <1>11, <1>12

\* A bad read; a run that goes on had one that was tolerated.
LEMMA MissEInv ==
  ASSUME EncTypeOK, Remembered, Lag, MissEncoder, UNCHANGED multi,
         state = "RUNNING", pos' \in Int, pos' - pos \in -MaxMove .. MaxMove,
         state' = "RUNNING" => enc'.quality # "BAD"
  PROVE  EncTypeOK' /\ Remembered' /\ Lag'
<1>1. enc \in Context /\ enc.data_err_count \in Nat /\ enc.data_err_limit \in Nat
  BY DEF EncTypeOK, Context
<1>2. PICK q \in Quality, e \in {1, enc.data_err_count + 1} :
        /\ enc' = [enc EXCEPT !.data_err_count = e, !.quality = q]
        /\ q # "BAD" => e = enc.data_err_count + 1 /\ e < enc.data_err_limit
  <2> DEFINE q == IF enc.data_err_count + 1 >= enc.data_err_limit THEN "BAD" ELSE "STALE"
  <2>1. CASE enc' = enc_abs_update_Failed(enc)
    BY <2>1 DEF enc_abs_update_Failed, Quality
  <2>2. CASE enc' = enc_abs_update_Invalid(enc)
    <3>1. enc' = [enc EXCEPT !.data_err_count = @ + 1, !.quality = q]
      BY <1>1, <2>2 DEF enc_abs_update_Invalid, Context
    <3>2. q \in Quality /\ (q # "BAD" => enc.data_err_count + 1 < enc.data_err_limit)
      BY <1>1 DEF Quality
    <3> QED
      BY <3>1, <3>2
  <2>3. CASE enc' = enc_abs_update_MultiFailed(enc)
    BY <2>3 DEF enc_abs_update_MultiFailed, Quality
  <2> QED
    BY <2>1, <2>2, <2>3 DEF MissEncoder
<1>3. UNCHANGED <<fresh, seen>>
  BY DEF MissEncoder
<1>4. EncTypeOK'
  <2>1. enc' \in Context
    <3>1. e \in Nat
      BY <1>1, <1>2
    <3> QED
      BY <1>1, <1>2, <3>1 DEF Context
  <2>2. enc'.inverted = enc.inverted
    BY <1>1, <1>2 DEF Context
  <2>3. gap' \in Nat
    BY ElapseType DEF MissEncoder, EncTypeOK
  <2> QED
    BY <1>3, <2>1, <2>2, <2>3 DEF EncTypeOK
<1>5. Remembered'
  BY <1>1, <1>2, <1>3 DEF Remembered, Turns, TurnOf, Context
<1>6. Lag'
  <2> SUFFICES ASSUME state' = "RUNNING", fresh
               PROVE  /\ Abs(pos' - seen) <= MaxMove * e
                      /\ e < enc.data_err_limit
    BY <1>1, <1>2, <1>3 DEF Lag, Context
  <2>1. e = enc.data_err_count + 1 /\ e < enc.data_err_limit
    BY <1>1, <1>2 DEF Context
  <2>2. Abs(pos - seen) <= MaxMove * enc.data_err_count
    BY DEF Lag
  <2>3. MaxMove * (enc.data_err_count + 1) = MaxMove * enc.data_err_count + MaxMove
        /\ MaxMove * enc.data_err_count \in Nat /\ MaxMove \in Nat
    BY <1>1, SensingAssumption
  <2>4. pos \in Int /\ seen \in Int
    BY DEF EncTypeOK
  <2>5. Abs(pos' - seen) <= MaxMove * enc.data_err_count + MaxMove
    BY <2>2, <2>3, <2>4, AbsMove
  <2> QED
    BY <1>2, <2>1, <2>3, <2>5
<1> QED
  BY <1>4, <1>5, <1>6

\* A step that does not read the encoder, nor move a running motor.
LEMMA StillEInv ==
  ASSUME EncTypeOK, Remembered, Lag, UNCHANGED <<enc, multi, seen>>, pos' \in Int, gap' \in Nat,
         state' = "RUNNING" => (state = "RUNNING" /\ pos' = pos) \/ ~fresh',
         fresh' \in BOOLEAN, fresh' => fresh
  PROVE  EncTypeOK' /\ Remembered' /\ Lag'
BY DEF EncTypeOK, Remembered, Lag, Turns, TurnOf

LEMMA SampleOutcome ==
  ASSUME IInv, OutcomeOK, SampleCurrents
  PROVE  OutcomeOK'
<1>1. Left \in Nat /\ Count \in Nat /\ Blank \in Nat
  BY Types DEF IInv
<1>2. ASSUME NEW n, NEW b \in Nat, NEW rc, NEW frm \in Frame, NEW o,
             Sample(Reading(oc, n, b, rc, frm), o), b <= Left
      PROVE  OutcomeOK'
  <2>1. Left' = b
    BY <1>2 DEF Sample, Reading, Counters, Left
  <2>2. \/ frame' = frm /\ UNCHANGED <<state, code>>
        \/ state' = "FAULT" /\ code' = "FAULT_OVERCURRENT" /\ UNCHANGED frame
    BY <1>2 DEF Sample, Reading, Shutdown
  <2> QED
    BY <1>1, <1>2, <2>1, <2>2 DEF OutcomeOK, Code
<1>3. CASE Sample(reconstruct_Normal(oc), 0)
  BY <1>1, <1>2, <1>3 DEF reconstruct_Normal, Left, Frame
<1>4. CASE Sample(reconstruct_Failed(oc), overs)
  BY <1>1, <1>2, <1>4 DEF reconstruct_Failed, Left, Frame
<1>5. ASSUME NEW o, Sample(reconstruct_Over(oc), o), Left > 0 PROVE OutcomeOK'
  <2>1. Sample(Reading(oc, 0, Left - 1, "OK", "clamped"), o)
    BY <1>5 DEF reconstruct_Over, Blanked, Left
  <2> QED
    BY <1>1, <1>2, <1>5, <2>1 DEF Frame
<1>6. ASSUME NEW o, Sample(reconstruct_Over(oc), o), ~(Left > 0) PROVE OutcomeOK'
  <2> DEFINE rc == IF Count + 1 >= Limit THEN "ERROR" ELSE "OK"
  <2>1. Sample(Reading(oc, Count + 1, 0, rc, "unwritten"), o)
    BY <1>6 DEF reconstruct_Over, Counted, CountedTo, Count, Limit, Left
  <2> HIDE DEF rc
  <2> QED
    BY <1>1, <1>2, <2>1 DEF Frame
<1> QED
  BY <1>3, <1>4, <1>5, <1>6 DEF SampleCurrents

LEMMA FastEInv ==
  ASSUME IInv, EInv, motor_fast_step
  PROVE  EInv'
<1>1. /\ EncTypeOK /\ Remembered /\ Lag /\ OutcomeOK
      /\ state = "RUNNING" /\ UNCHANGED multi
  BY DEF EInv, motor_fast_step
<1>2. pos' \in Int /\ pos' - pos \in -MaxMove .. MaxMove
  BY SensingAssumption DEF motor_fast_step, Angles
<1>3. OutcomeOK'
  <2>1. ASSUME NEW c \in Code, Shutdown(c), UNCHANGED oc
        PROVE  OutcomeOK'
    BY <1>1, <2>1 DEF OutcomeOK, Shutdown, Left
  <2> QED
    BY <1>1, <2>1, SampleOutcome DEF motor_fast_step, Code
<1>4. state' = "RUNNING" => enc'.quality # "BAD"
  BY DEF motor_fast_step, Shutdown
<1>5. ASSUME Shutdown("FAULT_ENCODER_LOSS") /\ Elapse(gap) /\ UNCHANGED <<enc, oc, history>>
      PROVE  EncTypeOK' /\ Remembered' /\ Lag'
  <2>1. UNCHANGED <<enc, multi, seen>> /\ fresh' = fresh /\ state' # "RUNNING"
    BY <1>1, <1>5 DEF Shutdown, history
  <2>2. fresh' \in BOOLEAN
    BY <1>1, <2>1 DEF EncTypeOK
  <2>3. gap' \in Nat
    BY <1>1, <1>5, ElapseType DEF EncTypeOK
  <2> QED
    BY <1>1, <1>2, <2>1, <2>2, <2>3, StillEInv
<1>6. ASSUME ReadEncoder
      PROVE  EncTypeOK' /\ Remembered' /\ Lag'
  <2>1. UNCHANGED multi
    BY <1>1
  <2> QED
    BY <1>1, <1>2, <1>6, <2>1, ReadEInv
<1>7. ASSUME MissEncoder
      PROVE  EncTypeOK' /\ Remembered' /\ Lag'
  <2>1. UNCHANGED multi
    BY <1>1
  <2> QED
    BY <1>1, <1>2, <1>4, <1>7, <2>1, MissEInv
<1>8. EncTypeOK' /\ Remembered' /\ Lag'
  <2>1. \/ Shutdown("FAULT_ENCODER_LOSS") /\ Elapse(gap) /\ UNCHANGED <<enc, oc, history>>
        \/ ReadEncoder \/ MissEncoder
    BY DEF motor_fast_step
  <2> QED
    BY <1>5, <1>6, <1>7, <2>1
<1> QED
  BY <1>3, <1>8 DEF EInv

LEMMA NextEInv ==
  ASSUME IInv, EInv, [Next]_vars
  PROVE  EInv'
<1>1. EncTypeOK /\ Remembered /\ Lag /\ OutcomeOK /\ pos \in Int /\ fresh \in BOOLEAN
      /\ gap \in Nat /\ Blank \in Nat
  BY SensingAssumption DEF EInv, EncTypeOK
<1>2. CASE motor_fast_step
  BY <1>2, FastEInv
<1>3. CASE Coast
  <2>1. pos' \in Int /\ gap' \in Nat
    BY <1>1, <1>3, ElapseType, SensingAssumption DEF Coast, Angles
  <2>2. EncTypeOK' /\ Remembered' /\ Lag'
    BY <1>1, <1>3, <2>1, StillEInv DEF Coast, history
  <2> QED
    BY <1>1, <1>3, <2>2 DEF Coast, EInv, OutcomeOK, Left
<1>4. CASE motor_enable
  <2>1. EncTypeOK' /\ Remembered' /\ Lag'
    BY <1>1, <1>4, StillEInv DEF motor_enable, Go
  <2> QED
    BY <1>1, <1>4, <2>1 DEF motor_enable, Go, EInv, OutcomeOK, Left
<1>5. CASE Leave
  <2>1. EncTypeOK' /\ Remembered' /\ Lag'
    BY <1>1, <1>5, StillEInv DEF Leave, motor_stop, motor_recover, Go, history
  <2> QED
    BY <1>1, <1>5, <2>1 DEF Leave, motor_stop, motor_recover, Go, EInv, OutcomeOK, Left
<1>6. CASE current_sense_set_oc_blank
  <2>1. EncTypeOK' /\ Remembered' /\ Lag'
    BY <1>1, <1>6, StillEInv DEF current_sense_set_oc_blank
  <2>2. Left' \in {Left, Blank}
    BY <1>6 DEF current_sense_set_oc_blank, IInv, OcTypeOK, Left
  <2> QED
    BY <1>1, <1>6, <2>1, <2>2 DEF current_sense_set_oc_blank, EInv, OutcomeOK
<1>7. CASE UNCHANGED vars
  <2>1. EncTypeOK' /\ Remembered' /\ Lag'
    BY <1>1, <1>7, StillEInv DEF vars, history
  <2> QED
    BY <1>1, <1>7, <2>1 DEF vars, EInv, OutcomeOK, Left
<1> QED
  BY <1>2, <1>3, <1>4, <1>5, <1>6, <1>7 DEF Next

LEMMA EncInvariant == Spec => [](IInv /\ EInv)
<1>1. IInv /\ EInv /\ [Next]_vars => IInv' /\ EInv'
  BY NextIInv, NextEInv
<1> QED
  BY <1>1, InitIInv, InitEInv, PTL DEF Spec

(* Every context keeps its type; in particular the reading of the encoder  *)
(* stays within its resolution, and no blanking outlasts blank_cycles      *)
(* (enc_abs.c:120-152, current_sense.c:38-115).                            *)
THEOREM TypeCorrect == Spec => []TypeOK
<1>1. IInv /\ EInv => TypeOK
  BY DEF IInv, OcTypeOK, EInv, EncTypeOK, Context, OutcomeOK, TypeOK, Left
<1> QED
  BY <1>1, EncInvariant, PTL

(* The angle that a running motor is driven with lags the shaft by fewer   *)
(* moves than data_err_limit, whichever reads fail, for every resolution,  *)
(* limit and speed (enc_abs.c:76-92, motor_runtime.c:235).                 *)
THEOREM AngleStaysNear == Spec => []AngleIsNear
<1>1. ASSUME EInv PROVE AngleIsNear
  <2> SUFFICES ASSUME state = "RUNNING", fresh
               PROVE  /\ (enc.angle - seen) % Resolution = 0
                      /\ Abs(pos - seen) <= MaxMove * (enc.data_err_limit - 1)
    BY DEF AngleIsNear
  <2>1. enc \in Context /\ seen \in Int /\ pos \in Int
    BY <1>1 DEF EInv, EncTypeOK
  <2>2. (enc.angle - seen) % Resolution = 0
    <3> DEFINE t == enc.last_turn
               q == seen \div Resolution
    <3>1. enc.angle = t * Resolution + (seen % Resolution) /\ t \in Int
      BY <1>1, <2>1 DEF EInv, Remembered, Context
    <3>2. q \in Int /\ seen = Resolution * q + (seen % Resolution)
          /\ seen % Resolution \in 0 .. Resolution - 1
      BY <2>1, Modulo, ResolutionAssumption
    <3> HIDE DEF t, q
    <3>3. enc.angle - seen = Resolution * (t - q) + 0 /\ t - q \in Int
      BY <3>1, <3>2, ResolutionAssumption
    <3>4. (Resolution * (t - q) + 0) % Resolution = 0
      BY <3>3, ModuloUnique, ResolutionAssumption
    <3> QED
      BY <3>3, <3>4
  <2>3. Abs(pos - seen) <= MaxMove * (enc.data_err_limit - 1)
    <3>1. Abs(pos - seen) <= MaxMove * enc.data_err_count
          /\ enc.data_err_count < enc.data_err_limit
      BY <1>1 DEF EInv, Lag
    <3>2. enc.data_err_count \in Nat /\ enc.data_err_limit - 1 \in Nat /\ MaxMove \in Nat
          /\ enc.data_err_count <= enc.data_err_limit - 1 /\ Abs(pos - seen) \in Nat
      BY <2>1, <3>1, SensingAssumption DEF Context, Abs
    <3>3. MaxMove * enc.data_err_count <= MaxMove * (enc.data_err_limit - 1)
      BY <3>2
    <3> QED
      BY <3>1, <3>2, <3>3
  <2> QED
    BY <2>2, <2>3
<1> QED
  BY <1>1, EncInvariant, PTL

\* Two angles less than half a turn apart: which way round they are.
LEMMA WrapIsShortest ==
  ASSUME NEW a \in Int, NEW b \in Int, Abs(a - b) < HalfRes
  PROVE  Wrap((a % Resolution) - (b % Resolution)) = a - b
<1> DEFINE qa == a \div Resolution  qb == b \div Resolution
           ra == a % Resolution     rb == b % Resolution
           k  == qb - qa
<1>1. Resolution \in Nat \ {0} /\ HalfRes \in Nat
      /\ 2 * HalfRes <= Resolution
  BY ResolutionAssumption DEF HalfRes
<1>2. /\ qa \in Int /\ qb \in Int
      /\ ra \in 0 .. Resolution - 1 /\ rb \in 0 .. Resolution - 1
      /\ a = Resolution * qa + ra /\ b = Resolution * qb + rb
  BY <1>1, Modulo
<1> HIDE DEF qa, qb, ra, rb
<1>3. k \in Int /\ ra - rb = (a - b) + Resolution * k
  BY <1>1, <1>2
<1>4. a - b < HalfRes /\ -(a - b) < HalfRes
  <2>1. a - b \in Int
    OBVIOUS
  <2> QED
    BY <1>1, <2>1 DEF Abs
<1> HIDE DEF k
<1>5. k \in {-1, 0, 1}
  <2>1. k >= 2 => Resolution * k >= 2 * Resolution
    BY <1>1, <1>3
  <2>2. k <= -2 => Resolution * k <= -(2 * Resolution)
    BY <1>1, <1>3
  <2> QED
    BY <1>1, <1>2, <1>3, <1>4, <2>1, <2>2
<1>6. Wrap(ra - rb) = a - b
  BY <1>1, <1>2, <1>3, <1>4, <1>5 DEF Wrap
<1> QED
  BY <1>6 DEF ra, rb

VelocityStep ==
  /\ ReadEncoder /\ ~enc.first
  /\ 0 < gap /\ gap < DtMax
  /\ Abs(pos' - seen) < HalfRes
  /\ ~multi \/ TurnOf(pos') = TurnOf(seen)
  => enc'.velocity = <<pos' - seen, gap>>

(* The velocity is what the shaft turned over the time it took, if that is *)
(* less than DtMax, for every resolution, even or odd, either direction    *)
(* and every pattern of pauses (enc_abs.c:139-170).                        *)
THEOREM VelocityIsShafts == Spec => VelocityIsWay
<1>1. ASSUME EInv, EInv' PROVE VelocityStep
  <2> SUFFICES ASSUME ReadEncoder, ~enc.first, 0 < gap, gap < DtMax,
                      Abs(pos' - seen) < HalfRes,
                      ~multi \/ TurnOf(pos') = TurnOf(seen)
               PROVE  enc'.velocity = <<pos' - seen, gap>>
    BY DEF VelocityStep
  <2>1. EncTypeOK /\ enc \in Context /\ pos' \in Int /\ seen \in Int
        /\ enc.last_raw = seen % Resolution /\ enc.last_turn = Turns(seen)
    BY <1>1 DEF EInv, EncTypeOK, Remembered
  <2>2. enc'.velocity = <<Wrap((pos' % Resolution) - enc.last_raw)
                            + (Turns(pos') - enc.last_turn) * Resolution, gap>>
    BY <2>1, RawDirected DEF ReadEncoder, enc_abs_update_Valid, Context, Turns
  <2>3. Turns(pos') = enc.last_turn /\ enc.last_turn \in Int
    BY <2>1, TurnIsInt DEF Turns
  <2>4. (Turns(pos') - enc.last_turn) * Resolution = 0
    BY <2>3, ResolutionAssumption
  <2>5. Wrap((pos' % Resolution) - enc.last_raw) = pos' - seen
    BY <2>1, WrapIsShortest
  <2> QED
    BY <2>1, <2>2, <2>4, <2>5
<1>2. EInv /\ EInv' /\ [Next]_vars => [VelocityStep]_vars
  BY <1>1
<1> QED
  BY <1>2, EncInvariant, PTL DEF Spec, VelocityIsWay, VelocityStep
===============================================================================

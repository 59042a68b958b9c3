----------------------------- MODULE EncAbi_proofs -----------------------------
(***************************************************************************)
(* Proofs about the incremental encoder where it is used: on a shaft that  *)
(* turns, coasts and loses counts (EncAbiTracking), for every number of    *)
(* counts and every bound that the assumptions allow; and in the           *)
(* calibration (Calibration), for every number of counts, pole pairs,      *)
(* align angle and scan, and every rotor that follows, sticks, is dragged  *)
(* or stops following at any step; and in the angle and the frame of the   *)
(* commutation (Commutation), for every precision and range of the floats, *)
(* every quarter of a turn and every table of sines.  All of them rest on  *)
(* the same lemmas about counts modulo a turn and about the operators of   *)
(* EncAbi, which come first.                                               *)
(***************************************************************************)
EXTENDS Commutation, EncAbiTracking, WellFoundedInduction, TLAPS

Context ==
  [use_index : BOOLEAN, inverted : BOOLEAN, total : Int, last : Int, angle : Int,
   velocity : Int \X Int, index_found : BOOLEAN, first : BOOLEAN,
   quality : {"GOOD", "STALE", "BAD"}]

-----------------------------------------------------------------------------
(* Counts that are the same place on the turn.                             *)
Same(a, b) == a % CPR = b % CPR

LEMMA Modulo ==
  ASSUME NEW a \in Int, NEW n \in Nat \ {0}
  PROVE  a % n \in 0 .. n - 1 /\ a \div n \in Int /\ a = n * (a \div n) + (a % n)
OBVIOUS

LEMMA SameModulo ==
  ASSUME NEW a \in Int, NEW b \in Int, NEW n \in Nat \ {0}
  PROVE  a % n = b % n <=> \E k \in Int : a = b + n * k
<1>1. b % n \in 0 .. n - 1 /\ b \div n \in Int /\ b = n * (b \div n) + (b % n)
  BY Modulo
<1>2. ASSUME a % n = b % n PROVE \E k \in Int : a = b + n * k
  <2> DEFINE k == (a \div n) - (b \div n)
  <2>1. k \in Int /\ a = b + n * k
    BY <1>1, <1>2, Modulo
  <2> QED
    BY <2>1
<1>3. ASSUME NEW k \in Int, a = b + n * k PROVE a % n = b % n
  <2>1. a = n * ((b \div n) + k) + (b % n)
    BY <1>1, <1>3
  <2>2. (n * ((b \div n) + k) + (b % n)) % n = b % n
    BY <1>1
  <2> QED
    BY <2>1, <2>2
<1> QED
  BY <1>2, <1>3

LEMMA Counts ==
  /\ CPR \in Nat \ {0} /\ Half \in Nat /\ CPR = 2 * Half /\ Half >= 2
BY CPRAssumption DEF Half

LEMMA SameIs ==
  ASSUME NEW a \in Int, NEW b \in Int
  PROVE  Same(a, b) <=> \E k \in Int : a = b + CPR * k
BY Counts, SameModulo DEF Same

LEMMA SameSum ==
  ASSUME NEW a \in Int, NEW b \in Int, NEW c \in Int, NEW d \in Int,
         Same(a, b), Same(c, d)
  PROVE  Same(a + c, b + d) /\ Same(a - c, b - d) /\ Same(-a, -b)
<1>1. PICK k \in Int : a = b + CPR * k
  BY SameIs
<1>2. PICK m \in Int : c = d + CPR * m
  BY SameIs
<1>3. /\ a + c = (b + d) + CPR * (k + m) /\ k + m \in Int
      /\ a - c = (b - d) + CPR * (k - m) /\ k - m \in Int
      /\ -a = -b + CPR * (-k)            /\ -k \in Int
  BY <1>1, <1>2, Counts
<1>4. Same(a + c, b + d)
  BY <1>3, SameIs
<1>5. Same(a - c, b - d)
  BY <1>3, SameIs
<1>6. Same(-a, -b)
  BY <1>3, SameIs
<1> QED
  BY <1>4, <1>5, <1>6

LEMMA SameShift ==
  ASSUME NEW a \in Int, NEW b \in Int, NEW c \in Int, Same(a, b)
  PROVE  Same(a + c, b + c) /\ Same(a - c, b - c)
<1>1. Same(c, c)
  BY DEF Same
<1> QED
  BY <1>1, SameSum

LEMMA SameProduct ==
  ASSUME NEW a \in Int, NEW b \in Int, NEW m \in Int, Same(a, b)
  PROVE  Same(a * m, b * m)
<1>1. PICK k \in Int : a = b + CPR * k
  BY SameIs
<1>2. a * m = b * m + CPR * (k * m) /\ k * m \in Int /\ a * m \in Int /\ b * m \in Int
  BY <1>1, Counts
<1> QED
  BY <1>2, SameIs

\* Two places less than a turn apart are one if they are the same.
LEMMA SameIsNear ==
  ASSUME NEW a \in Int, NEW b \in Int, Same(a, b), a - b < CPR, b - a < CPR
  PROVE  a = b
<1>1. PICK k \in Int : a = b + CPR * k
  BY SameIs
<1>2. k >= 1 => CPR * k >= CPR
  BY Counts
<1>3. k <= -1 => CPR * k <= -CPR
  BY Counts
<1>4. k = 0
  BY <1>1, <1>2, <1>3, Counts
<1> QED
  BY <1>1, <1>4, Counts

LEMMA CountIs ==
  ASSUME NEW a \in Int PROVE a % CPR \in 0 .. CPR - 1 /\ Same(a % CPR, a)
<1>1. PICK q \in Int : a % CPR \in 0 .. CPR - 1 /\ a = CPR * q + (a % CPR)
  BY Counts, Modulo
<1>2. a = (a % CPR) + CPR * q
  BY <1>1, Counts
<1>3. Same(a, a % CPR)
  BY <1>1, <1>2, SameIs
<1> QED
  BY <1>1, <1>3 DEF Same

\* The functions of the encoder and of the alignment, on the turn.
LEMMA DeltaIs ==
  ASSUME NEW a \in Int, NEW b \in Int
  PROVE  enc_abi_delta(a, b) \in Int /\ Same(enc_abi_delta(a, b), a - b)
<1> DEFINE d == enc_abi_delta(a, b)
<1>1. d \in Int /\ \E k \in Int : d = (a - b) + CPR * k
  <2>1. CASE a - b > Half
    <3>1. d = (a - b) + CPR * (-1)
      BY <2>1, Counts DEF enc_abi_delta
    <3> QED
      BY <3>1, Counts
  <2>2. CASE ~(a - b > Half) /\ a - b < -Half
    <3>1. d = (a - b) + CPR * 1
      BY <2>2, Counts DEF enc_abi_delta
    <3> QED
      BY <3>1, Counts
  <2>3. CASE ~(a - b > Half) /\ ~(a - b < -Half)
    <3>1. d = (a - b) + CPR * 0
      BY <2>3, Counts DEF enc_abi_delta
    <3> QED
      BY <3>1, Counts
  <2> QED
    BY <2>1, <2>2, <2>3
<1> HIDE DEF d
<1>2. Same(d, a - b)
  BY <1>1, SameIs
<1> QED
  BY <1>1, <1>2 DEF d

LEMMA WholeTurnIs ==
  ASSUME NEW t \in Int
  PROVE  WholeTurn(t) \in Int /\ Same(WholeTurn(t), 0)
<1>1. \E k \in Int : WholeTurn(t) = 0 + CPR * k
  <2>1. CASE t >= 0
    <3>1. (t + Half) \div CPR \in Int
      BY Counts, Modulo
    <3>2. WholeTurn(t) = 0 + CPR * ((t + Half) \div CPR)
      BY <2>1, <3>1, Counts DEF WholeTurn
    <3> QED
      BY <3>1, <3>2
  <2>2. CASE ~(t >= 0)
    <3>1. (Half - t) \div CPR \in Int
      BY Counts, Modulo
    <3>2. WholeTurn(t) = 0 + CPR * (-((Half - t) \div CPR))
      BY <2>2, <3>1, Counts DEF WholeTurn
    <3> QED
      BY <3>1, <3>2
  <2> QED
    BY <2>1, <2>2
<1>2. WholeTurn(t) \in Int
  BY <1>1, Counts
<1> QED
  BY <1>1, <1>2, SameIs

LEMMA WrapIs ==
  ASSUME NEW a \in Int
  PROVE  /\ cal_wrap_pi(a) \in Int /\ Same(cal_wrap_pi(a), a)
         /\ -Half < cal_wrap_pi(a) /\ cal_wrap_pi(a) <= Half
<1>1. a % CPR \in 0 .. CPR - 1 /\ Same(a % CPR, a)
  BY CountIs
<1>2. PICK k \in Int : a % CPR = a + CPR * k
  BY <1>1, SameIs
<1>3. (a % CPR) - CPR = a + CPR * (k - 1) /\ k - 1 \in Int
  BY <1>2, Counts
<1>4. \E m \in Int : cal_wrap_pi(a) = a + CPR * m
  BY <1>2, <1>3 DEF cal_wrap_pi
<1>5. cal_wrap_pi(a) \in Int /\ -Half < cal_wrap_pi(a) /\ cal_wrap_pi(a) <= Half
  BY <1>1, Counts DEF cal_wrap_pi
<1> QED
  BY <1>4, <1>5, SameIs

-----------------------------------------------------------------------------
\* What an update that reads the counter makes of a context.
LEMMA UpdateReports ==
  ASSUME NEW c \in Context, NEW count \in Int, NEW index \in BOOLEAN, NEW dt \in Nat
  PROVE  LET u == enc_abi_update(c, count, index, dt)
             t == IF c.first THEN c.total ELSE c.total + enc_abi_delta(Directed(c, count), c.last)
         IN  /\ u \in Context
             /\ u.use_index = c.use_index /\ u.inverted = c.inverted
             /\ u.last = Directed(c, count) /\ u.first = FALSE
             /\ u.index_found = IF c.use_index /\ index THEN TRUE ELSE c.index_found
             /\ u.total = IF c.use_index /\ index
                          THEN IF c.index_found THEN WholeTurn(t) ELSE 0
                          ELSE t
             /\ u.angle = u.total
             /\ (c.use_index /\ index => c.index_found)
                => u.velocity = IF 0 < dt /\ dt < DtMax THEN <<t - c.angle, dt>> ELSE c.velocity
             /\ u.quality = IF u.index_found THEN "GOOD" ELSE "STALE"
<1> DEFINE now == Directed(c, count)
           t   == IF c.first THEN c.total ELSE c.total + enc_abi_delta(now, c.last)
           counted == [c EXCEPT !.total = IF c.first THEN @ ELSE @ + enc_abi_delta(now, c.last),
                                !.last = now, !.first = FALSE]
           aligned == IF c.use_index /\ index THEN AtIndex(counted) ELSE counted
<1>1. now \in Int /\ c.last \in Int /\ c.total \in Int
  BY DEF Context, Directed
<1>2. enc_abi_delta(now, c.last) \in Int
  BY <1>1, DeltaIs
<1>3. t \in Int
  BY <1>1, <1>2
<1>4. counted = [c EXCEPT !.total = t, !.last = now, !.first = FALSE]
  OBVIOUS
<1> HIDE DEF now, t, counted
<1>5. counted \in Context /\ counted.total = t /\ counted.last = now /\ counted.first = FALSE
      /\ counted.use_index = c.use_index /\ counted.inverted = c.inverted
      /\ counted.index_found = c.index_found /\ counted.angle = c.angle
      /\ counted.velocity = c.velocity
  BY <1>1, <1>3, <1>4 DEF Context
<1>6. WholeTurn(t) \in Int /\ c.angle \in Int
  BY <1>3, WholeTurnIs DEF Context
<1>7. /\ aligned \in Context /\ aligned.last = now /\ aligned.first = FALSE
      /\ aligned.use_index = c.use_index /\ aligned.inverted = c.inverted
      /\ aligned.index_found = IF c.use_index /\ index THEN TRUE ELSE c.index_found
      /\ aligned.total = IF c.use_index /\ index
                         THEN IF c.index_found THEN WholeTurn(t) ELSE 0
                         ELSE t
      /\ aligned.velocity = c.velocity
      /\ (c.use_index /\ index => c.index_found) => aligned.total - aligned.angle = t - c.angle
  <2>1. CASE ~(c.use_index /\ index)
    BY <1>5, <2>1
  <2>2. CASE c.use_index /\ index /\ c.index_found
    <3>1. aligned = [counted EXCEPT !.angle = c.angle + WholeTurn(t) - t, !.total = WholeTurn(t)]
      BY <1>5, <2>2 DEF AtIndex
    <3>2. c.angle + WholeTurn(t) - t \in Int
          /\ WholeTurn(t) - (c.angle + WholeTurn(t) - t) = t - c.angle
      BY <1>3, <1>6
    <3> HIDE DEF aligned
    <3>3. /\ aligned \in Context /\ aligned.total = WholeTurn(t)
          /\ aligned.angle = c.angle + WholeTurn(t) - t
          /\ aligned.last = now /\ aligned.first = FALSE /\ aligned.velocity = c.velocity
          /\ aligned.use_index = c.use_index /\ aligned.inverted = c.inverted
          /\ aligned.index_found = c.index_found
      BY <1>3, <1>5, <1>6, <3>1, <3>2 DEF Context
    <3> QED
      BY <2>2, <3>2, <3>3
  <2>3. CASE c.use_index /\ index /\ ~c.index_found
    <3>1. aligned = [counted EXCEPT !.total = 0, !.index_found = TRUE]
      BY <1>5, <2>3 DEF AtIndex
    <3> HIDE DEF aligned
    <3>2. aligned \in Context
      <4>1. counted \in Context /\ TRUE \in BOOLEAN /\ 0 \in Int
        BY <1>5
      <4> QED
        BY <3>1, <4>1 DEF Context
    <3>3. /\ aligned.last = now /\ aligned.first = FALSE /\ aligned.total = 0
          /\ aligned.use_index = c.use_index /\ aligned.inverted = c.inverted
          /\ aligned.velocity = c.velocity
      BY <1>5, <3>1 DEF Context
    <3>4. aligned.index_found = TRUE
      BY <1>5, <3>1 DEF Context
    <3> QED
      BY <2>3, <3>2, <3>3, <3>4
  <2> QED
    BY <2>1, <2>2, <2>3
<1> DEFINE v == IF 0 < dt /\ dt < DtMax THEN <<aligned.total - aligned.angle, dt>>
                                       ELSE aligned.velocity
           u == enc_abi_update(c, count, index, dt)
<1>8. u = [aligned EXCEPT !.velocity = v, !.angle = aligned.total, !.quality = QualityOf(aligned)]
  BY DEF enc_abi_update, aligned, counted, now
<1> HIDE DEF aligned
<1>9. v \in Int \X Int
  BY <1>7 DEF Context
<1>10. QualityOf(aligned) = IF aligned.index_found THEN "GOOD" ELSE "STALE"
  BY DEF QualityOf
<1>11. aligned.total \in Int
  BY <1>7 DEF Context
<1>12. /\ u \in Context /\ u.use_index = aligned.use_index /\ u.inverted = aligned.inverted
       /\ u.last = aligned.last /\ u.first = aligned.first
       /\ u.index_found = aligned.index_found /\ u.total = aligned.total
       /\ u.angle = aligned.total /\ u.velocity = v /\ u.quality = QualityOf(aligned)
  <2> HIDE DEF u, v
  <2> QED
    BY <1>7, <1>8, <1>9, <1>10, <1>11 DEF Context
<1>13. (c.use_index /\ index => c.index_found)
         => v = IF 0 < dt /\ dt < DtMax THEN <<t - c.angle, dt>> ELSE c.velocity
  BY <1>7
<1> HIDE DEF u, v
<1>14. /\ u \in Context
       /\ u.use_index = c.use_index /\ u.inverted = c.inverted
       /\ u.last = now /\ u.first = FALSE
       /\ u.index_found = IF c.use_index /\ index THEN TRUE ELSE c.index_found
       /\ u.total = IF c.use_index /\ index
                    THEN IF c.index_found THEN WholeTurn(t) ELSE 0
                    ELSE t
       /\ u.angle = u.total
  BY <1>7, <1>12
<1>15. u.quality = IF u.index_found THEN "GOOD" ELSE "STALE"
  BY <1>10, <1>12
<1>16. (c.use_index /\ index => c.index_found)
         => u.velocity = IF 0 < dt /\ dt < DtMax THEN <<t - c.angle, dt>> ELSE c.velocity
  BY <1>12, <1>13
<1> QED
  BY <1>14, <1>15, <1>16 DEF now, t, u

\* As it is read in a calibration.
LEMMA UpdateIs ==
  ASSUME NEW c \in Context, NEW count \in Int, NEW index \in BOOLEAN
  PROVE  LET u == enc_abi_update(c, count, index, 1)
             t == IF c.first THEN c.total ELSE c.total + enc_abi_delta(Directed(c, count), c.last)
         IN  /\ u \in Context
             /\ u.use_index = c.use_index /\ u.inverted = c.inverted
             /\ u.last = Directed(c, count) /\ u.first = FALSE
             /\ u.index_found = IF c.use_index /\ index THEN TRUE ELSE c.index_found
             /\ u.total = IF c.use_index /\ index
                          THEN IF c.index_found THEN WholeTurn(t) ELSE 0
                          ELSE t
BY UpdateReports, 1 \in Nat

\* The total moves as the counter does, through the index too.
LEMMA UpdateMoves ==
  ASSUME NEW c \in Context, NEW count \in Int, NEW index \in BOOLEAN, NEW m \in Int,
         ~c.first, Same(Directed(c, count) - c.last, m),
         c.use_index /\ index => c.index_found /\ Same(c.total + m, 0)
  PROVE  Same(enc_abi_update(c, count, index, 1).total, c.total + m)
<1> DEFINE u == enc_abi_update(c, count, index, 1)
           d == enc_abi_delta(Directed(c, count), c.last)
           t == c.total + d
<1>1. c.total \in Int /\ c.last \in Int /\ Directed(c, count) \in Int
  BY DEF Context, Directed
<1>2. d \in Int /\ Same(d, m)
  BY <1>1, DeltaIs DEF Same
<1>3. t \in Int /\ Same(t, c.total + m)
  <2> HIDE DEF d
  <2>1. Same(c.total, c.total)
    BY DEF Same
  <2>2. Same(c.total + d, c.total + m)
    BY <1>1, <1>2, <2>1, SameSum
  <2> QED
    BY <1>1, <1>2, <2>2
<1>4. u.total = IF c.use_index /\ index THEN IF c.index_found THEN WholeTurn(t) ELSE 0 ELSE t
  <2> DEFINE v == IF c.first THEN c.total
                  ELSE c.total + enc_abi_delta(Directed(c, count), c.last)
  <2>1. u.total = IF c.use_index /\ index THEN IF c.index_found THEN WholeTurn(v) ELSE 0 ELSE v
    BY UpdateIs
  <2>2. v = t
    OBVIOUS
  <2> HIDE DEF u, v, t
  <2> QED
    BY <2>1, <2>2
<1>5. Same(WholeTurn(t), 0)
  BY <1>3, WholeTurnIs
<1> HIDE DEF u, t, d
<1>6. Same(u.total, c.total + m)
  <2>1. CASE c.use_index /\ index
    BY <1>4, <1>5, <2>1 DEF Same
  <2>2. CASE ~(c.use_index /\ index)
    BY <1>3, <1>4, <2>2
  <2> QED
    BY <2>1, <2>2
<1> QED
  BY <1>6 DEF u

-----------------------------------------------------------------------------
(* The shaft: what the encoder has counted, and what it has not yet.       *)
ShaftTypeOK ==
  /\ abi \in Context /\ shaft \in Int /\ drift \in 0 .. CPR - 1
  /\ slip \in -MaxSlip .. MaxSlip /\ gap \in 0 .. MaxGap
  /\ origin \in Int /\ seen \in Int /\ coasted \in BOOLEAN
  /\ abi.last \in IF abi.inverted THEN -(CPR - 1) .. 0 ELSE 0 .. CPR - 1

\* How far the shaft and the slip went since the last good read.
Unread == shaft + slip - seen

LEMMA UnreadNext == Unread' = shaft' + slip' - seen'
BY DEF Unread

\* After a good read; before it, nothing was counted and no index seen.
FollowInv ==
  /\ abi.first => abi.total = 0 /\ ~(abi.use_index /\ abi.index_found)
  /\ ~abi.first =>
       /\ abi.angle = abi.total /\ (abi.quality = "GOOD" => abi.index_found)
       /\ Same(abi.last, seen + drift - slip)
       /\ abi.use_index /\ abi.index_found => Same(abi.total, seen) /\ Same(origin, 0)
       /\ ~coasted => /\ abi.total = seen - origin
                      /\ Unread \in -(gap * (MaxMove + 1)) .. gap * (MaxMove + 1)

ShaftInv == ShaftTypeOK /\ FollowInv

\* A difference of less than half a turn is counted as what it is.
LEMMA DeltaNear ==
  ASSUME NEW a \in Int, NEW b \in Int, NEW m \in Int, a - b < CPR, b - a < CPR,
         Same(a - b, m), -Half < m, m < Half
  PROVE  enc_abi_delta(a, b) = m
<1> DEFINE d == enc_abi_delta(a, b)
<1>1. d \in Int /\ Same(d, a - b)
  BY DeltaIs
<1>2. -Half <= d /\ d <= Half
  BY Counts DEF enc_abi_delta
<1>3. Same(d, m)
  BY <1>1 DEF Same
<1> HIDE DEF d
<1>4. d - m < CPR /\ m - d < CPR
  BY <1>1, <1>2, Counts
<1>5. d = m
  BY <1>1, <1>3, <1>4, SameIsNear
<1> QED
  BY <1>5 DEF d

\* The nearest whole turn is the whole turn that is less than half a turn away.
LEMMA WholeNear ==
  ASSUME NEW t \in Int, NEW w \in Int, Same(w, 0), -Half < t - w, t - w < Half
  PROVE  WholeTurn(t) = w
<1> DEFINE u == WholeTurn(t)
<1>1. u \in Int /\ Same(u, 0)
  BY WholeTurnIs
<1>2. -Half <= u - t /\ u - t <= Half
  <2>1. CASE t >= 0
    <3> DEFINE a == t + Half
               q == a \div CPR
    <3>1. a \in Int
      BY Counts
    <3> HIDE DEF a
    <3>2. q \in Int /\ a % CPR \in 0 .. CPR - 1 /\ a = CPR * q + (a % CPR)
      BY <3>1, Counts, Modulo
    <3>3. u = q * CPR
      BY <2>1 DEF WholeTurn, a
    <3> HIDE DEF q, u
    <3>4. u = CPR * q
      BY <3>2, <3>3, Counts
    <3> QED
      BY <3>1, <3>2, <3>4, Counts DEF a
  <2>2. CASE ~(t >= 0)
    <3> DEFINE a == Half - t
               q == a \div CPR
    <3>1. a \in Int
      BY Counts
    <3> HIDE DEF a
    <3>2. q \in Int /\ a % CPR \in 0 .. CPR - 1 /\ a = CPR * q + (a % CPR)
      BY <3>1, Counts, Modulo
    <3>3. u = -(q * CPR)
      BY <2>2 DEF WholeTurn, a
    <3> HIDE DEF q, u
    <3>4. u = -(CPR * q)
      BY <3>2, <3>3, Counts
    <3> QED
      BY <3>1, <3>2, <3>4, Counts DEF a
  <2> QED
    BY <2>1, <2>2
<1>3. Same(u, w)
  BY <1>1 DEF Same
<1> HIDE DEF u
<1>4. u - w < CPR /\ w - u < CPR
  BY <1>1, <1>2, Counts
<1>5. u = w
  BY <1>1, <1>3, <1>4, SameIsNear
<1> QED
  BY <1>5 DEF u

\* What the counter reads, in the direction of the shaft.
LEMMA Reading ==
  ASSUME abi \in Context, NEW n \in Int
  PROVE  LET now == Directed(abi, ShaftCount(n))
         IN  /\ ShaftCount(n) \in Int /\ now \in Int /\ Same(now, n)
             /\ now \in IF abi.inverted THEN -(CPR - 1) .. 0 ELSE 0 .. CPR - 1
<1>1. CASE ~abi.inverted
  <2>1. ShaftCount(n) = n % CPR
    BY <1>1 DEF ShaftCount
  <2>2. n % CPR \in 0 .. CPR - 1 /\ Same(n % CPR, n)
    BY CountIs
  <2> QED
    BY <1>1, <2>1, <2>2, Counts DEF Directed
<1>2. CASE abi.inverted
  <2> DEFINE k == (-n) % CPR
  <2>1. ShaftCount(n) = k
    BY <1>2 DEF ShaftCount
  <2>2. -n \in Int /\ k \in 0 .. CPR - 1 /\ Same(k, -n)
    BY CountIs
  <2> HIDE DEF k
  <2>3. k \in Int /\ -(-n) = n
    BY <2>2, Counts
  <2>4. Same(-k, -(-n))
    BY <2>2, <2>3, SameSum
  <2>5. -k \in -(CPR - 1) .. 0 /\ -k \in Int
    BY <2>2, Counts
  <2> QED
    BY <1>2, <2>1, <2>3, <2>4, <2>5 DEF Directed
<1> QED
  BY <1>1, <1>2

LEMMA Cancel ==
  ASSUME NEW p \in Int, NEW q \in Int, NEW r \in Int
  PROVE  /\ p - p = 0 /\ p + 0 = p /\ (p + r) - p = r
         /\ (p + r) + q - r = p + q /\ p + (q - (p + q)) = 0
OBVIOUS

\* What a step of the shaft adds to its way, counted or not.
LEMMA ShaftTurns ==
  ASSUME ShaftTypeOK, NEW s \in {-1, 0, 1}, NEW max \in Nat, Turn(max, s)
  PROVE  /\ shaft' \in Int /\ drift' \in 0 .. CPR - 1 /\ slip + s \in -MaxSlip .. MaxSlip
         /\ Same(drift', drift + s) /\ shaft' - shaft \in -max .. max
<1>1. shaft' \in Int /\ shaft' - shaft \in -max .. max /\ drift + s \in Int
      /\ drift' = (drift + s) % CPR /\ slip + s \in -MaxSlip .. MaxSlip
  <2>1. /\ shaft' \in -MaxBack .. MaxPos /\ shaft' - shaft \in -max .. max
        /\ slip + s \in -MaxSlip .. MaxSlip
        /\ drift' = (drift + s) % CPR
    BY DEF Turn
  <2>2. drift \in Int /\ s \in Int
    BY Counts DEF ShaftTypeOK
  <2>3. drift + s \in Int
    BY <2>2
  <2>4. shaft' \in Int
    BY <2>1, MoveAssumption
  <2> QED
    BY <2>1, <2>3, <2>4
<1> QED
  BY <1>1, CountIs

\* As often as reads may fail, the way since the last good one is less than
\* half a turn.
LEMMA Reach ==
  ASSUME NEW g \in 0 .. MaxGap
  PROVE  /\ g * (MaxMove + 1) \in Nat
         /\ (g + 1) * (MaxMove + 1) = g * (MaxMove + 1) + MaxMove + 1
         /\ g * (MaxMove + 1) + MaxMove + 1 < Half
<1>1. MaxMove \in Nat /\ MaxGap \in Nat /\ g \in Nat /\ MaxGap - g \in Nat
      /\ (MaxMove + 1) * (MaxGap + 1) < Half
  BY MoveAssumption
<1>2. /\ (MaxMove + 1) * (MaxGap + 1)
            = g * (MaxMove + 1) + MaxMove + 1 + (MaxGap - g) * (MaxMove + 1)
      /\ (MaxGap - g) * (MaxMove + 1) \in Nat /\ g * (MaxMove + 1) \in Nat
  BY <1>1
<1> QED
  BY <1>1, <1>2, Counts

\* A good read counts the way since the last one: m.
LEMMA ReadCounts ==
  ASSUME ShaftInv, ~abi.first, NEW s \in {-1, 0, 1}, Turn(MaxMove, s)
  PROVE  LET d == enc_abi_delta(Directed(abi, ShaftCount(shaft' + drift')), abi.last)
             m == shaft' + slip + s - seen
         IN  /\ d \in Int /\ m \in Int /\ Same(d, m)
             /\ ~coasted => d = m
<1> DEFINE n == shaft' + drift'
           now == Directed(abi, ShaftCount(n))
           last == abi.last
           d == enc_abi_delta(now, last)
           m == shaft' + slip + s - seen
<1>1. /\ shaft' \in Int /\ drift' \in 0 .. CPR - 1 /\ Same(drift', drift + s)
      /\ shaft' - shaft \in -MaxMove .. MaxMove
  <2>1. MaxMove \in Nat /\ ShaftTypeOK
    BY MoveAssumption DEF ShaftInv
  <2> QED
    BY <2>1, ShaftTurns
<1>2. /\ shaft \in Int /\ drift \in Int /\ slip \in Int /\ seen \in Int /\ abi \in Context
      /\ last \in Int /\ Same(last, seen + drift - slip)
      /\ last \in IF abi.inverted THEN -(CPR - 1) .. 0 ELSE 0 .. CPR - 1
  BY Counts, MoveAssumption DEF ShaftInv, ShaftTypeOK, FollowInv, Context
<1>3. n \in Int /\ m \in Int
  BY <1>1, <1>2, Counts
<1>4. now \in Int /\ Same(now, n)
      /\ now \in IF abi.inverted THEN -(CPR - 1) .. 0 ELSE 0 .. CPR - 1
  <2> HIDE DEF n
  <2> QED
    BY <1>2, <1>3, Reading
<1> HIDE DEF now, last
<1>5. now - last < CPR /\ last - now < CPR
  BY <1>2, <1>4, Counts
<1>6. Same(now - last, m)
  <2> DEFINE a == shaft' + (drift + s)
             b == seen + drift - slip
  <2>1. drift' \in Int /\ drift + s \in Int /\ a \in Int /\ b \in Int
    BY <1>1, <1>2, Counts
  <2>2. Same(shaft' + drift', shaft' + (drift + s))
    <3>1. Same(shaft', shaft')
      BY DEF Same
    <3> QED
      BY <1>1, <2>1, <3>1, SameSum
  <2>3. Same(now, a)
    BY <1>4, <2>2 DEF Same
  <2>4. a - b = m
    BY <1>1, <1>2
  <2> HIDE DEF a, m
  <2>5. Same(now - last, a - b)
    <3>1. Same(last, b)
      BY <1>2
    <3> HIDE DEF b
    <3> QED
      BY <1>2, <1>4, <2>1, <2>3, <3>1, SameSum
  <2> QED
    BY <2>4, <2>5
<1> HIDE DEF n
<1>7. d \in Int /\ Same(d, m)
  <2>1. d \in Int /\ Same(d, now - last)
    BY <1>2, <1>4, DeltaIs
  <2> QED
    BY <1>6, <2>1 DEF Same
<1>8. ASSUME ~coasted PROVE d = m
  <2> DEFINE r == gap * (MaxMove + 1)
  <2>1. Unread \in -r .. r /\ gap \in 0 .. MaxGap
    BY <1>8 DEF ShaftInv, FollowInv, ShaftTypeOK
  <2>2. r \in Nat /\ r + MaxMove + 1 < Half /\ MaxMove \in Nat
    BY <2>1, Reach, MoveAssumption
  <2> HIDE DEF r
  <2>3. m = Unread + (shaft' - shaft) + s
    BY <1>1, <1>2 DEF Unread
  <2> HIDE DEF m
  <2>4. -Half < m /\ m < Half
    <3>1. Unread \in Int /\ shaft' - shaft \in Int /\ -r <= Unread /\ Unread <= r
          /\ -MaxMove <= shaft' - shaft /\ shaft' - shaft <= MaxMove
      BY <1>1, <2>1, <2>2
    <3> DEFINE w == shaft' - shaft
    <3> HIDE DEF w
    <3>2. w \in Int /\ -MaxMove <= w /\ w <= MaxMove /\ m = Unread + w + s
      BY <2>3, <3>1 DEF w
    <3> QED
      BY <2>2, <3>1, <3>2, Counts
  <2> QED
    BY <1>2, <1>3, <1>4, <1>5, <1>6, <2>4, DeltaNear
<1> QED
  BY <1>3, <1>7, <1>8 DEF now, last, n

\* What a good read leaves, and the velocity it reports.
LEMMA ReadFollows ==
  ASSUME ShaftInv, Read
  PROVE  /\ ShaftInv'
         /\ abi'.velocity # abi.velocity /\ abi'.index_found = abi.index_found
              /\ ~abi.first /\ ~coasted
            => abi'.velocity[1] = shaft' + slip + Slipped - seen
<1>1. PICK s \in {-1, 0, 1}, dt \in 0 .. DtMax :
        /\ Turn(MaxMove, s)
        /\ abi' = enc_abi_update(abi, ShaftCount(shaft' + drift'), ShaftIndex(shaft'), dt)
        /\ slip' = IF abi.use_index /\ ShaftIndex(shaft') THEN 0 ELSE slip + s
        /\ origin' = IF abi.first \/ (abi'.index_found /\ ~abi.index_found)
                   THEN shaft' + slip' ELSE origin
        /\ seen' = shaft' + slip' /\ gap' = 0 /\ coasted' = coasted
  BY DEF Read
<1> DEFINE n == shaft' + drift'
           count == ShaftCount(n)
           index == ShaftIndex(shaft')
           now == Directed(abi, count)
           d == enc_abi_delta(now, abi.last)
           m == shaft' + slip + s - seen
           t == IF abi.first THEN abi.total ELSE abi.total + d
<1>2. /\ shaft' \in Int /\ drift' \in 0 .. CPR - 1 /\ slip + s \in -MaxSlip .. MaxSlip
      /\ Same(drift', drift + s) /\ MaxSlip \in Nat /\ MaxSlip < Half
  <2>1. MaxMove \in Nat /\ ShaftTypeOK
    BY MoveAssumption DEF ShaftInv
  <2> QED
    BY <1>1, <2>1, ShaftTurns, MoveAssumption
<1>3. /\ abi \in Context /\ abi.total \in Int /\ abi.angle \in Int /\ index \in BOOLEAN
      /\ shaft \in Int /\ slip \in Int /\ seen \in Int /\ origin \in Int /\ dt \in Nat
      /\ coasted \in BOOLEAN /\ gap \in Int /\ drift \in 0 .. CPR - 1
  BY <1>1, <1>2, DtAssumption DEF ShaftInv, ShaftTypeOK, Context, ShaftIndex
<1>4. /\ count \in Int /\ now \in Int /\ Same(now, n) /\ n \in Int
      /\ now \in IF abi.inverted THEN -(CPR - 1) .. 0 ELSE 0 .. CPR - 1
  <2>1. n \in Int
    BY <1>2, Counts
  <2> HIDE DEF n
  <2> QED
    BY <1>3, <2>1, Reading
<1>5. ~abi.first => d \in Int /\ m \in Int /\ Same(d, m) /\ (~coasted => d = m)
  BY <1>1, ReadCounts
<1> HIDE DEF n, count, index, now, d
<1>6. /\ abi' \in Context
      /\ abi'.use_index = abi.use_index /\ abi'.inverted = abi.inverted
      /\ abi'.last = now /\ abi'.first = FALSE
      /\ abi'.index_found = IF abi.use_index /\ index THEN TRUE ELSE abi.index_found
      /\ abi'.total = IF abi.use_index /\ index
                      THEN IF abi.index_found THEN WholeTurn(t) ELSE 0
                      ELSE t
      /\ abi'.angle = abi'.total
      /\ (abi.use_index /\ index => abi.index_found)
           => abi'.velocity = IF 0 < dt /\ dt < DtMax THEN <<t - abi.angle, dt>> ELSE abi.velocity
      /\ abi'.quality = IF abi'.index_found THEN "GOOD" ELSE "STALE"
  <2>1. abi' = enc_abi_update(abi, count, index, dt)
    BY <1>1 DEF n, count, index
  <2>2. now = Directed(abi, count) /\ d = enc_abi_delta(Directed(abi, count), abi.last)
    BY DEF now, d
  <2> HIDE DEF t
  <2>3. t = IF abi.first THEN abi.total ELSE abi.total + d
    BY DEF t
  <2> DEFINE u == enc_abi_update(abi, count, index, dt)
             v == IF abi.first THEN abi.total
                  ELSE abi.total + enc_abi_delta(Directed(abi, count), abi.last)
  <2>4. /\ u \in Context
        /\ u.use_index = abi.use_index /\ u.inverted = abi.inverted
        /\ u.last = Directed(abi, count) /\ u.first = FALSE
        /\ u.index_found = IF abi.use_index /\ index THEN TRUE ELSE abi.index_found
        /\ u.total = IF abi.use_index /\ index
                     THEN IF abi.index_found THEN WholeTurn(v) ELSE 0
                     ELSE v
        /\ u.angle = u.total
        /\ (abi.use_index /\ index => abi.index_found)
             => u.velocity = IF 0 < dt /\ dt < DtMax THEN <<v - abi.angle, dt>> ELSE abi.velocity
        /\ u.quality = IF u.index_found THEN "GOOD" ELSE "STALE"
    <3>1. abi \in Context /\ count \in Int /\ index \in BOOLEAN /\ dt \in Nat
      BY <1>3, <1>4
    <3> QED
      BY <3>1, UpdateReports
  <2>5. v = t /\ abi' = u
    BY <2>1, <2>2, <2>3
  <2> HIDE DEF u, v
  <2> QED
    BY <2>2, <2>4, <2>5
<1> HIDE DEF m, t
<1>7. t = IF abi.first THEN abi.total ELSE abi.total + d
  BY DEF t
<1>8. ShaftTypeOK'
  <2>1. slip' \in -MaxSlip .. MaxSlip /\ slip' \in Int
    BY <1>1, <1>2
  <2>2. seen' \in Int /\ origin' \in Int
    BY <1>1, <1>2, <1>3, <2>1
  <2>3. gap' \in 0 .. MaxGap
    BY <1>1, MoveAssumption
  <2> QED
    BY <1>1, <1>2, <1>3, <1>4, <1>6, <2>1, <2>2, <2>3 DEF ShaftTypeOK
<1>9. index => Same(shaft', 0)
  <2>1. 0 % CPR = 0
    BY Counts
  <2> QED
    BY <2>1 DEF Same, index, ShaftIndex
<1>10. Same(abi'.last, seen' + drift' - slip')
  <2>1. shaft' \in Int /\ drift' \in Int /\ slip' \in Int
    BY <1>1, <1>2
  <2>2. (shaft' + slip') + drift' - slip' = shaft' + drift'
    BY <2>1, Cancel
  <2>3. seen' + drift' - slip' = n
    BY <1>1, <2>2 DEF n
  <2> QED
    BY <1>4, <1>6, <2>3
<1>11. ASSUME abi.use_index, index
       PROVE  slip' = 0 /\ seen' = shaft' /\ Same(seen', 0) /\ abi'.index_found
  <2>1. slip' = 0 /\ seen' = shaft' + 0 /\ abi'.index_found
    BY <1>1, <1>6, <1>11 DEF index
  <2>2. shaft' + 0 = shaft'
    BY <1>2, Cancel
  <2> QED
    BY <1>9, <1>11, <2>1, <2>2
<1>12. ASSUME ~(abi.use_index /\ index)
       PROVE  slip' = slip + s /\ seen' = shaft' + (slip + s) /\ abi'.total = t
              /\ abi'.index_found = abi.index_found
  BY <1>1, <1>6, <1>12 DEF index
<1>13. ASSUME abi'.use_index, abi'.index_found
       PROVE  Same(abi'.total, seen') /\ Same(origin', 0)
  <2>1. CASE index
    <3>1. Same(seen', 0) /\ abi.use_index /\ seen' = shaft' + slip'
      BY <1>1, <1>6, <1>11, <1>13, <2>1
    <3>2. Same(abi'.total, 0)
      <4>1. CASE abi.index_found
        <5>1. ~abi.first /\ t \in Int
          BY <1>3, <1>5, <1>7, <3>1, <4>1 DEF ShaftInv, FollowInv
        <5> QED
          BY <1>6, <2>1, <3>1, <4>1, <5>1, WholeTurnIs
      <4>2. CASE ~abi.index_found
        BY <1>6, <2>1, <3>1, <4>2 DEF Same
      <4> QED
        BY <4>1, <4>2
    <3>3. Same(origin', 0)
      <4>1. CASE abi.first \/ (abi'.index_found /\ ~abi.index_found)
        BY <1>1, <3>1, <4>1
      <4>2. CASE ~(abi.first \/ (abi'.index_found /\ ~abi.index_found))
        BY <1>1, <1>6, <1>13, <4>2 DEF ShaftInv, FollowInv
      <4> QED
        BY <4>1, <4>2
    <3> QED
      BY <3>1, <3>2, <3>3 DEF Same
  <2>2. CASE ~index
    <3>1. abi.use_index /\ abi.index_found /\ ~abi.first
      BY <1>6, <1>12, <1>13, <2>2 DEF ShaftInv, FollowInv
    <3>2. Same(abi.total, seen) /\ Same(origin, 0) /\ origin' = origin
      BY <1>1, <3>1 DEF ShaftInv, FollowInv
    <3>3. Same(abi.total + d, seen + m) /\ m \in Int
      BY <1>3, <1>5, <3>1, <3>2, SameSum
    <3>4. seen + m = shaft' + (slip + s)
      BY <1>1, <1>2, <1>3 DEF m
    <3> QED
      BY <1>7, <1>12, <2>2, <3>1, <3>2, <3>3, <3>4
  <2> QED
    BY <2>1, <2>2
<1>14. ASSUME ~coasted PROVE abi'.total = seen' - origin'
  <2>1. CASE abi.first
    <3>1. abi'.total = 0
      BY <1>6, <1>7, <2>1 DEF ShaftInv, FollowInv
    <3>2. origin' = seen' /\ seen' \in Int
      BY <1>1, <1>8, <2>1 DEF ShaftTypeOK
    <3>3. seen' - seen' = 0
      BY <3>2, Cancel
    <3> QED
      BY <3>1, <3>2, <3>3
  <2>2. CASE ~abi.first /\ abi.use_index /\ index /\ ~abi.index_found
    <3>1. abi'.total = 0 /\ abi'.index_found
      BY <1>6, <2>2
    <3>2. origin' = seen' /\ seen' \in Int
      BY <1>1, <1>8, <2>2, <3>1 DEF ShaftTypeOK
    <3>3. seen' - seen' = 0
      BY <3>2, Cancel
    <3> QED
      BY <3>1, <3>2, <3>3
  <2>3. ASSUME ~abi.first
        PROVE  t = (shaft' - origin) + (slip + s) /\ t \in Int
    <3>1. abi.total = seen - origin /\ d = m
      BY <1>5, <1>14, <2>3 DEF ShaftInv, FollowInv
    <3> QED
      BY <1>1, <1>2, <1>3, <1>7, <2>3, <3>1 DEF m
  <2>4. CASE ~abi.first /\ abi.use_index /\ index /\ abi.index_found
    <3> DEFINE w == shaft' - origin
    <3>1. Same(origin, 0) /\ origin' = origin /\ seen' = shaft'
      BY <1>1, <1>6, <1>11, <2>4 DEF ShaftInv, FollowInv
    <3>2. Same(shaft' - origin, 0 - 0)
      BY <1>2, <1>3, <1>9, <2>4, <3>1, SameSum
    <3>3. w \in Int /\ Same(w, 0) /\ t - w = slip + s /\ t \in Int
      <4>1. t = w + (slip + s) /\ t \in Int /\ w \in Int
        BY <1>2, <1>3, <2>3, <2>4
      <4>2. 0 - 0 = 0
        OBVIOUS
      <4>3. Same(w, 0)
        BY <3>2, <4>2
      <4> HIDE DEF w
      <4> QED
        BY <1>2, <4>1, <4>3
    <3> HIDE DEF w
    <3>4. WholeTurn(t) = w
      BY <1>2, <3>3, Counts, WholeNear
    <3>5. abi'.total = w
      BY <1>6, <2>4, <3>4
    <3> QED
      BY <3>1, <3>5 DEF w
  <2>5. CASE ~abi.first /\ ~(abi.use_index /\ index)
    <3>1. origin' = origin /\ seen' = shaft' + (slip + s) /\ abi'.total = t
      BY <1>1, <1>12, <2>5
    <3>2. (shaft' - origin) + (slip + s) = (shaft' + (slip + s)) - origin
      BY <1>2, <1>3
    <3> QED
      BY <2>3, <2>5, <3>1, <3>2
  <2> QED
    BY <2>1, <2>2, <2>4, <2>5
<1>15. Unread' \in -(gap' * (MaxMove + 1)) .. gap' * (MaxMove + 1)
  <2>1. Unread' = 0
    <3>1. shaft' \in Int /\ slip' \in Int /\ seen' = shaft' + slip'
      BY <1>1, <1>2, <1>8 DEF ShaftTypeOK
    <3>2. shaft' + (slip' - (shaft' + slip')) = 0
      BY <3>1, Cancel
    <3> QED
      BY <3>1, <3>2, UnreadNext
  <2>2. gap' * (MaxMove + 1) = 0
    BY <1>1, MoveAssumption
  <2> QED
    BY <2>1, <2>2
<1>16. FollowInv'
  <2>1. abi'.quality = "GOOD" => abi'.index_found
    BY <1>6
  <2>2. ~coasted' => abi'.total = seen' - origin'
    BY <1>1, <1>14
  <2> QED
    BY <1>6, <1>10, <1>13, <1>15, <2>1, <2>2 DEF FollowInv, Same, Unread
<1>17. ASSUME abi'.velocity # abi.velocity, abi'.index_found = abi.index_found,
              ~abi.first, ~coasted
       PROVE  abi'.velocity[1] = shaft' + slip + Slipped - seen
  <2>1. abi.use_index /\ index => abi.index_found
    BY <1>6, <1>17
  <2>2. abi'.velocity[1] = t - abi.angle
    BY <1>6, <1>17, <2>1
  <2>3. t - abi.angle = m /\ m \in Int
    BY <1>3, <1>5, <1>7, <1>17 DEF ShaftInv, FollowInv
  <2>4. Slipped = s
    <3> DEFINE a == drift' - drift + 1
               b == s + 1
    <3>1. drift' \in Int /\ drift \in Int /\ a \in Int /\ b \in 0 .. 2
          /\ (drift + s) - drift + 1 = b
      BY <1>1, <1>2, <1>3, Counts
    <3>2. Same(drift' - (drift - 1), (drift + s) - (drift - 1))
      <4>1. drift' \in Int /\ drift + s \in Int /\ drift - 1 \in Int /\ Same(drift', drift + s)
        BY <1>1, <1>2, <3>1
      <4> QED
        BY <4>1, SameShift
    <3>3. drift' - (drift - 1) = a /\ (drift + s) - (drift - 1) = b
      BY <1>1, <3>1
    <3> HIDE DEF a, b
    <3>4. Same(a, b)
      BY <3>2, <3>3
    <3>5. a % CPR \in 0 .. CPR - 1 /\ Same(a % CPR, b)
      BY <3>1, <3>4, CountIs DEF Same
    <3>6. a % CPR = b
      <4> DEFINE r == a % CPR
      <4>1. r \in 0 .. CPR - 1 /\ Same(r, b)
        BY <3>5
      <4> HIDE DEF r
      <4>2. r - b < CPR /\ b - r < CPR /\ r \in Int /\ b \in Int
        BY <3>1, <4>1, Counts
      <4>3. r = b
        BY <4>1, <4>2, SameIsNear
      <4> QED
        BY <4>3 DEF r
    <3>7. Slipped = b - 1
      BY <3>6 DEF Slipped, a
    <3> QED
      BY <1>1, <3>7 DEF b
  <2> QED
    BY <1>1, <1>2, <1>3, <2>2, <2>3, <2>4 DEF m
<1> QED
  BY <1>8, <1>16, <1>17 DEF ShaftInv

\* The counter keeps its distance from the shaft where nothing is read.
LEMMA StaysBehind ==
  ASSUME ShaftInv, ~abi.first, NEW s \in Int, NEW v \in Int, Same(v, drift + s)
  PROVE  Same(abi.last, seen + v - (slip + s))
<1> DEFINE last == abi.last
<1>1. /\ drift \in Int /\ slip \in Int /\ seen \in Int /\ last \in Int
      /\ Same(last, seen + drift - slip)
  BY Counts DEF ShaftInv, ShaftTypeOK, FollowInv, Context
<1> HIDE DEF last
<1> DEFINE w == seen - (slip + s)
<1>2. w \in Int /\ v + w = seen + v - (slip + s) /\ (drift + s) + w = seen + drift - slip
  BY <1>1
<1> HIDE DEF w
<1>3. Same(v + w, (drift + s) + w)
  <2>1. drift + s \in Int
    BY <1>1
  <2> QED
    BY <1>2, <2>1, SameShift
<1> QED
  BY <1>1, <1>2, <1>3 DEF Same, last

\* A failed read leaves the context but for its quality, and the shaft is at
\* most a move and a slip further.
LEMMA FailFollows ==
  ASSUME ShaftInv, ReadFails
  PROVE  ShaftInv' /\ abi'.velocity = abi.velocity
<1>1. PICK s \in {-1, 0, 1} :
         /\ gap < MaxGap /\ gap' = gap + 1
         /\ Turn(MaxMove, s) /\ slip' = slip + s
         /\ abi' = enc_abi_update_Failed(abi)
         /\ origin' = origin /\ seen' = seen /\ coasted' = coasted
  BY DEF ReadFails
<1>2. /\ shaft' \in Int /\ drift' \in 0 .. CPR - 1 /\ slip + s \in -MaxSlip .. MaxSlip
      /\ Same(drift', drift + s) /\ shaft' - shaft \in -MaxMove .. MaxMove
      /\ MaxMove \in Nat /\ MaxSlip \in Nat /\ MaxGap \in Nat
  <2>1. MaxMove \in Nat /\ ShaftTypeOK
    BY MoveAssumption DEF ShaftInv
  <2> QED
    BY <1>1, <2>1, ShaftTurns, MoveAssumption
<1>3. /\ shaft \in Int /\ slip \in Int /\ seen \in Int /\ gap \in 0 .. MaxGap
      /\ abi \in Context
  BY <1>2 DEF ShaftInv, ShaftTypeOK
<1>4. /\ abi' \in Context /\ abi'.quality = "BAD" /\ abi'.velocity = abi.velocity
      /\ abi'.first = abi.first /\ abi'.total = abi.total /\ abi'.angle = abi.angle
      /\ abi'.last = abi.last /\ abi'.inverted = abi.inverted
      /\ abi'.use_index = abi.use_index /\ abi'.index_found = abi.index_found
  BY <1>1, <1>3 DEF enc_abi_update_Failed, Context
<1>5. ShaftTypeOK'
  <2>1. gap' \in 0 .. MaxGap
    BY <1>1, <1>2, <1>3
  <2> QED
    BY <1>1, <1>2, <1>4, <2>1 DEF ShaftInv, ShaftTypeOK
<1>6. ASSUME ~abi.first PROVE Same(abi.last, seen + drift' - slip')
  <2>1. drift' \in Int /\ s \in Int
    BY <1>2, Counts
  <2>2. Same(abi.last, seen + drift' - (slip + s))
    BY <1>2, <1>6, <2>1, StaysBehind
  <2> QED
    BY <1>1, <2>2
<1>7. ASSUME ~abi.first, ~coasted
      PROVE  Unread' \in -(gap' * (MaxMove + 1)) .. gap' * (MaxMove + 1)
  <2> DEFINE r == gap * (MaxMove + 1)
             w == shaft' - shaft
             q == shaft' + (slip + s) - seen
  <2>1. Unread \in -r .. r
    BY <1>7 DEF ShaftInv, FollowInv
  <2>2. r \in Nat /\ (gap + 1) * (MaxMove + 1) = r + MaxMove + 1
    BY <1>3, Reach
  <2> HIDE DEF r
  <2>3. w \in Int /\ -MaxMove <= w /\ w <= MaxMove
    BY <1>2
  <2>4. Unread \in Int /\ q = Unread + (w + s)
    BY <1>2, <1>3 DEF Unread
  <2>5. Unread' = q
    BY <1>1, UnreadNext
  <2> HIDE DEF w, q
  <2>6. q \in -(r + MaxMove + 1) .. (r + MaxMove + 1)
    BY <1>2, <2>1, <2>2, <2>3, <2>4
  <2> QED
    BY <1>1, <2>2, <2>5, <2>6
<1>8. FollowInv'
  <2>1. abi.first => abi'.total = 0 /\ ~(abi'.use_index /\ abi'.index_found)
    BY <1>4 DEF ShaftInv, FollowInv
  <2>2. ~abi.first =>
          /\ abi'.angle = abi'.total
          /\ abi.use_index /\ abi.index_found => Same(abi'.total, seen') /\ Same(origin', 0)
          /\ ~coasted => abi'.total = seen' - origin'
    BY <1>1, <1>4 DEF ShaftInv, FollowInv
  <2> QED
    BY <1>1, <1>4, <1>6, <1>7, <2>1, <2>2 DEF FollowInv, Same, Unread
<1> QED
  BY <1>4, <1>5, <1>8 DEF ShaftInv

\* After the shaft coasted, how far it turned is no longer known, but the
\* counter is still where it was on it.
LEMMA CoastFollows ==
  ASSUME ShaftInv, Coast
  PROVE  ShaftInv' /\ abi' = abi
<1>1. /\ Turn(CPR, 0) /\ coasted' = TRUE
      /\ abi' = abi /\ slip' = slip /\ gap' = gap /\ origin' = origin /\ seen' = seen
  BY DEF Coast
<1>2. shaft' \in Int /\ drift' \in 0 .. CPR - 1 /\ Same(drift', drift + 0)
  <2>1. CPR \in Nat /\ ShaftTypeOK
    BY Counts DEF ShaftInv
  <2> QED
    BY <1>1, <2>1, ShaftTurns
<1>3. ShaftTypeOK'
  BY <1>1, <1>2 DEF ShaftInv, ShaftTypeOK
<1>4. ASSUME ~abi.first PROVE Same(abi.last, seen + drift' - slip')
  <2>1. drift' \in Int /\ slip \in Int
    BY <1>2, <1>3, Counts, MoveAssumption DEF ShaftInv, ShaftTypeOK
  <2>2. Same(abi.last, seen + drift' - (slip + 0))
    BY <1>2, <1>4, <2>1, StaysBehind
  <2>3. slip + 0 = slip
    BY <2>1
  <2> QED
    BY <1>1, <2>2, <2>3
<1>5. FollowInv'
  BY <1>1, <1>4 DEF ShaftInv, FollowInv, Same
<1> QED
  BY <1>1, <1>3, <1>5 DEF ShaftInv

LEMMA ShaftInitHolds ==
  ASSUME ShaftInit
  PROVE  ShaftInv
<1>1. PICK useIndex \in BOOLEAN, inv \in BOOLEAN : abi = enc_abi_init(useIndex, inv)
  BY DEF ShaftInit
<1>2. /\ shaft \in Start /\ Start \subseteq 0 .. MaxPos /\ drift = (-shaft) % CPR
      /\ slip = 0 /\ gap = 0 /\ origin = shaft /\ seen = shaft /\ coasted = FALSE
  BY MoveAssumption DEF ShaftInit
<1>3. shaft \in Int /\ -shaft \in Int
  BY <1>2, MoveAssumption
<1>4. drift \in 0 .. CPR - 1
  BY <1>2, <1>3, CountIs
<1>5. abi \in Context /\ abi.first /\ abi.total = 0 /\ abi.last = 0
      /\ ~(abi.use_index /\ abi.index_found)
  <2>1. abi \in Context
    BY <1>1 DEF enc_abi_init, Context
  <2>2. /\ abi.first = TRUE /\ abi.total = 0 /\ abi.last = 0
        /\ abi.use_index = useIndex /\ abi.index_found = ~useIndex
    BY <1>1 DEF enc_abi_init
  <2> QED
    BY <2>1, <2>2
<1>6. 0 \in -(CPR - 1) .. 0 /\ 0 \in 0 .. CPR - 1
      /\ 0 \in -MaxSlip .. MaxSlip /\ 0 \in 0 .. MaxGap
  BY Counts, MoveAssumption
<1> QED
  BY <1>2, <1>3, <1>4, <1>5, <1>6 DEF ShaftInv, ShaftTypeOK, FollowInv

LEMMA ShaftStays ==
  ASSUME ShaftInv, [ShaftNext]_shaftVars
  PROVE  ShaftInv'
<1>1. CASE Read
  BY <1>1, ReadFollows
<1>2. CASE ReadFails
  BY <1>2, FailFollows
<1>3. CASE Coast
  BY <1>3, CoastFollows
<1>4. CASE UNCHANGED shaftVars
  BY <1>4 DEF shaftVars, ShaftInv, ShaftTypeOK, FollowInv, Unread, Same
<1> QED
  BY <1>1, <1>2, <1>3, <1>4 DEF ShaftNext

LEMMA ShaftInductive == ShaftSpec => []ShaftInv
<1>1. ShaftInit => ShaftInv
  BY ShaftInitHolds
<1>2. ShaftInv /\ [ShaftNext]_shaftVars => ShaftInv'
  BY ShaftStays
<1> QED
  BY <1>1, <1>2, PTL DEF ShaftSpec

(* The encoder counts the shaft's way, turns and all, but for the slip     *)
(* since the last index, for every count per turn, speed and number of     *)
(* failed reads the assumption on the shaft allows (enc_abi.c:79-101).     *)
THEOREM ShaftTracks == ShaftSpec => []Tracks
<1>1. ShaftInv => Tracks
  BY DEF ShaftInv, FollowInv, Tracks
<1> QED
  BY <1>1, ShaftInductive, PTL

(* An encoder with an index that says GOOD gives the angle from the index, *)
(* even after the shaft coasted any distance unseen (enc_abi.c:84, 130).   *)
THEOREM GoodStaysAbsolute == ShaftSpec => []GoodIsAbsolute
<1>1. ShaftInv => GoodIsAbsolute
  <2> SUFFICES ASSUME ShaftInv, abi.quality = "GOOD", abi.use_index, ~abi.first
               PROVE  (abi.total - seen) % CPR = 0
    BY DEF GoodIsAbsolute
  <2>1. Same(abi.total, seen) /\ abi.total \in Int /\ seen \in Int
    BY DEF ShaftInv, ShaftTypeOK, FollowInv, Context
  <2> DEFINE t == abi.total
  <2> HIDE DEF t
  <2>2. t \in Int /\ seen \in Int /\ Same(t, seen)
    BY <2>1 DEF t
  <2>3. Same(t - seen, seen - seen)
    BY <2>2, SameShift
  <2>4. seen - seen = 0 /\ 0 % CPR = 0
    BY <2>2, Counts
  <2> QED
    BY <2>3, <2>4 DEF Same, t
<1> QED
  BY <1>1, ShaftInductive, PTL

(* The velocity is the counter's way since the last good read; the         *)
(* correction at the index is kept out of it (enc_abi.c:95-98).            *)
THEOREM VelocityFollows == ShaftSpec => VelocityIsMotion
<1> DEFINE Told == /\ abi'.velocity # abi.velocity
                   /\ abi'.index_found = abi.index_found
                   /\ ~abi.first /\ ~coasted
                   => abi'.velocity[1] = shaft' + slip + Slipped - seen
<1>1. ShaftInv /\ [ShaftNext]_shaftVars => [Told]_shaftVars
  <2> SUFFICES ASSUME ShaftInv, ShaftNext
               PROVE  Told
    OBVIOUS
  <2>1. CASE Read
    BY <2>1, ReadFollows
  <2>2. CASE ReadFails
    BY <2>2, FailFollows
  <2>3. CASE Coast
    BY <2>3, CoastFollows
  <2> QED
    BY <2>1, <2>2, <2>3 DEF ShaftNext
<1> QED
  BY <1>1, ShaftInductive, PTL DEF ShaftSpec, VelocityIsMotion

-----------------------------------------------------------------------------
Searching == {"find", "release"}
Aligning  == {"base", "plus", "back", "minus", "check", "align", "off"}
After     == {"backfill", "ready", "run"}
Label     == Searching \cup Aligning \cup {"current"} \cup After
Result    == {"none", "OK", "ERROR"}

TypeOK ==
  /\ pos \in Int /\ datum \in Int /\ down \in BOOLEAN /\ enc \in Context
  /\ rotor \in {"free", "stuck", "dragged"}
  /\ pc \in Label /\ i \in Nat /\ pp \in Nat \ {0}
  /\ base \in Int /\ plus \in Int /\ minus \in Int
  /\ inverted \in BOOLEAN /\ encoder_zero \in Int /\ zero \in Int
  /\ rc \in [encoder : Result, phase : Result, current : Result]

\* The way that the counter goes.
Dir(x) == IF down THEN -x ELSE x

\* The counter is followed, and from the index on the angle is absolute.
EncInv ==
  pc \notin After =>
    /\ ~enc.inverted
    /\ ~enc.first => enc.last = Count(pos)
    /\ enc.use_index /\ enc.index_found => ~enc.first /\ Same(enc.total, Dir(pos))
    /\ rc.encoder = "OK" => enc.use_index /\ enc.index_found
    /\ pc \in Searching => enc.use_index

\* A plugin that succeeded as the last one has released the vector.
VoltageInv ==
  /\ pc \in Searching \cup Aligning => rc.phase = "none"
  /\ pc \in Searching \cup Aligning \cup {"current"} => rc.current = "none"
  /\ pc \in After \cup {"current"} /\ (rc.phase = "OK" \/ rc.current = "OK") => ~vector

-----------------------------------------------------------------------------
LEMMA DirIs ==
  ASSUME NEW x \in Int, NEW y \in Int
  PROVE  Dir(x) \in Int /\ Dir(x + y) = Dir(x) + Dir(y) /\ Dir(x - y) = Dir(x) - Dir(y)
BY DEF Dir

LEMMA CountSame ==
  ASSUME TypeOK, NEW p \in Int
  PROVE  Count(p) \in 0 .. CPR - 1 /\ Same(Count(p), Dir(p) - Dir(datum))
<1>1. datum \in Int /\ (IF down THEN datum - p ELSE p - datum) = Dir(p) - Dir(datum)
  BY DEF TypeOK, Dir
<1>2. Dir(p) - Dir(datum) \in Int /\ Count(p) = (Dir(p) - Dir(datum)) % CPR
  BY <1>1 DEF Count, Dir
<1> QED
  BY <1>2, CountIs

\* A step that applies a vector: the encoder follows the rotor.
EncFollows ==
  /\ enc' \in Context /\ enc'.use_index = enc.use_index
  /\ enc'.inverted = enc.inverted /\ enc'.first = FALSE /\ enc'.last = Count(pos')
  /\ enc.index_found => enc'.index_found
  /\ enc'.use_index /\ enc'.index_found => Same(enc'.total, Dir(pos'))
  /\ ~enc.first /\ (enc.use_index => enc.index_found)
       => Same(enc'.total, enc.total + Dir(pos' - pos))

LEMMA ApplyFollows ==
  ASSUME TypeOK, EncInv, pc \notin After, pos' \in Int,
         enc' = enc_abi_update(enc, Count(pos'), Index(pos'), 1)
  PROVE  EncFollows
<1> DEFINE count == Count(pos')
           index == Index(pos')
           m     == Dir(pos' - pos)
<1>1. enc \in Context /\ count \in Int /\ index \in BOOLEAN /\ pos \in Int /\ datum \in Int
  BY CountSame DEF TypeOK, Index
<1>2. ~enc.inverted /\ Directed(enc, count) = count
  BY DEF EncInv, Directed
<1>3. /\ enc' \in Context /\ enc'.use_index = enc.use_index
      /\ enc'.inverted = enc.inverted /\ enc'.first = FALSE /\ enc'.last = count
      /\ enc'.index_found = IF enc.use_index /\ index THEN TRUE ELSE enc.index_found
  BY <1>1, <1>2, UpdateIs
<1>4. m \in Int /\ Dir(pos) \in Int /\ Dir(pos') \in Int /\ Dir(datum) \in Int
      /\ m = Dir(pos') - Dir(pos)
  <2>1. pos' - pos \in Int /\ pos' \in Int
    BY <1>1
  <2> QED
    BY <1>1, <2>1, DirIs
<1>5. index => Same(Dir(pos'), 0)
  <2>1. 0 % CPR = 0
    BY Counts
  <2>2. index => Same(pos', 0)
    BY <2>1 DEF Same, Index
  <2>3. index => Same(-pos', -0)
    BY <2>2, SameSum
  <2> QED
    BY <2>2, <2>3 DEF Dir
<1>6. ASSUME ~enc.first PROVE Same(count - enc.last, m)
  <2>1. enc.last = Count(pos) /\ Count(pos) \in Int
    BY <1>1, <1>6, CountSame DEF EncInv
  <2>2. Same(count, Dir(pos') - Dir(datum)) /\ Same(enc.last, Dir(pos) - Dir(datum))
    BY <1>1, <2>1, CountSame
  <2>3. Same(count - enc.last, (Dir(pos') - Dir(datum)) - (Dir(pos) - Dir(datum)))
    BY <1>1, <1>4, <2>1, <2>2, SameSum
  <2>4. (Dir(pos') - Dir(datum)) - (Dir(pos) - Dir(datum)) = m
    BY <1>4
  <2> QED
    BY <2>3, <2>4
<1>7. ASSUME enc.use_index, enc.index_found
      PROVE  ~enc.first /\ Same(enc.total + m, Dir(pos'))
  <2>1. ~enc.first /\ Same(enc.total, Dir(pos)) /\ enc.total \in Int
    BY <1>1, <1>7 DEF EncInv, Context
  <2>2. Same(m, m)
    BY DEF Same
  <2>3. Same(enc.total + m, Dir(pos) + m)
    BY <1>4, <2>1, <2>2, SameSum
  <2>4. Dir(pos) + m = Dir(pos')
    BY <1>4
  <2> QED
    BY <2>1, <2>3, <2>4
<1> HIDE DEF count, index, m
<1>8. ASSUME ~enc.first, enc.use_index => enc.index_found
      PROVE  Same(enc'.total, enc.total + m)
  <2>1. enc.use_index /\ index => enc.index_found /\ Same(enc.total + m, 0)
    BY <1>5, <1>7, <1>8 DEF Same
  <2>2. Same(enc_abi_update(enc, count, index, 1).total, enc.total + m)
    BY <1>1, <1>2, <1>4, <1>6, <1>8, <2>1, UpdateMoves
  <2> QED
    BY <2>2 DEF count, index
<1>9. ASSUME enc'.use_index, enc'.index_found
      PROVE  Same(enc'.total, Dir(pos'))
  <2>1. CASE enc.index_found
    BY <1>3, <1>7, <1>8, <1>9, <2>1 DEF Same
  <2>2. CASE ~enc.index_found
    <3>1. index /\ enc.use_index
      BY <1>3, <1>9, <2>2
    <3>2. enc'.total = 0
      BY <1>1, <2>2, <3>1, UpdateIs DEF count, index
    <3> QED
      BY <1>5, <3>1, <3>2 DEF Same
  <2> QED
    BY <2>1, <2>2
<1> QED
  BY <1>3, <1>8, <1>9 DEF EncFollows, count, m
-----------------------------------------------------------------------------
(* What the steps are made of.                                             *)
Rcs == [encoder : Result, phase : Result, current : Result]

LEMMA ReturnIs ==
  ASSUME TypeOK, NEW r \in Result, NEW next
  PROVE  /\ Return("encoder", r, next) =>
              rc' \in Rcs /\ rc'.encoder = r /\ rc'.phase = rc.phase /\ rc'.current = rc.current
         /\ Return("phase", r, next) =>
              rc' \in Rcs /\ rc'.encoder = rc.encoder /\ rc'.phase = r /\ rc'.current = rc.current
         /\ Return("current", r, next) =>
              rc' \in Rcs /\ rc'.encoder = rc.encoder /\ rc'.phase = rc.phase /\ rc'.current = r
BY DEF TypeOK, Return, Rcs

LEMMA MechAngleIs ==
  ASSUME TypeOK, NEW next, MechAngle(next)
  PROVE  /\ rc' \in Rcs /\ rc'.encoder = rc.encoder /\ rc'.current = rc.current
         /\ \/ pc' = next /\ rc'.phase = rc.phase
            \/ pc' = AfterPhase /\ rc'.phase = "ERROR"
<1>1. "ERROR" \in Result /\ rc \in Rcs
  BY DEF TypeOK, Result, Rcs
<1> QED
  BY <1>1, ReturnIs DEF MechAngle, Continue, PhaseFails, Return

LEMMA ApplyIs ==
  ASSUME TypeOK, NEW theta, Apply(theta)
  PROVE  pos' \in Int /\ vector' = TRUE
         /\ enc' = enc_abi_update(enc, Count(pos'), Index(pos'), 1)
<1>1. CPR \div (2 * PP) \in Int
  BY Counts, MotorAssumption, Modulo
<1>2. pos \in Int
  BY DEF TypeOK
<1> DEFINE h == CPR \div (2 * PP)
<1>3. pos - h .. pos + h \subseteq Int
  BY <1>1, <1>2
<1>4. Follow(theta) \subseteq Int
  BY <1>2, <1>3 DEF Follow
<1>5. rotor \in {"free", "stuck", "dragged"}
  BY DEF TypeOK
<1>6. pos' \in Int
  BY <1>2, <1>4, <1>5 DEF Apply
<1> QED
  BY <1>6 DEF Apply
\* A vector is applied before the results are copied back.
LEMMA ApplyInv ==
  ASSUME TypeOK, EncInv, pc \notin After, NEW theta, Apply(theta), UNCHANGED <<datum, down>>,
         pc' \in Searching => pc \in Searching,
         rc'.encoder = "OK" => rc.encoder = "OK" \/ (enc.use_index /\ enc'.index_found)
  PROVE  EncFollows /\ EncInv' /\ enc' \in Context /\ pos' \in Int /\ vector' = TRUE
<1>1. EncFollows /\ pos' \in Int /\ vector' = TRUE
  BY ApplyIs, ApplyFollows
<1>2. Count(pos)' = Count(pos') /\ Dir(pos)' = Dir(pos')
  BY DEF Count, Dir
<1>3. EncInv'
  BY <1>1, <1>2 DEF EncInv, EncFollows, Same
<1> QED
  BY <1>1, <1>3 DEF EncFollows

\* The rotor and its encoder are left alone.
LEMMA RestInv ==
  ASSUME EncInv, UNCHANGED <<pos, enc, datum, down>>, rc'.encoder = rc.encoder,
         pc \notin After \/ pc' \in After, pc' \in Searching => pc \in Searching
  PROVE  EncInv'
BY DEF EncInv, Count, Dir, Same

LEMMA FindInv ==
  ASSUME TypeOK, EncInv, VoltageInv, find_index
  PROVE  TypeOK' /\ EncInv' /\ VoltageInv'
<1>1. rc \in Rcs /\ i \in Nat
  BY DEF TypeOK, Rcs
<1>2. CASE FindStep
  <2>1. /\ pc = "find" /\ UNCHANGED <<rotor, fixed, moves, outputs, zero, history>>
        /\ Apply(i * PP + CPR \div 4)
    BY <1>2 DEF FindStep
  <2>2. /\ rc' \in Rcs /\ rc'.phase = rc.phase /\ rc'.current = rc.current
        /\ pc' \in {"find", "release", "base"} /\ i' \in Nat
        /\ rc'.encoder = "OK" => rc.encoder = "OK" \/ enc'.index_found
    BY <1>1, <1>2, ReturnIs DEF FindStep, Continue, Return, Result
  <2>3. enc.use_index
    BY <2>1 DEF EncInv, Searching, After
  <2>4. EncInv' /\ enc' \in Context /\ pos' \in Int
    <3>1. UNCHANGED <<datum, down>>
      BY <2>1 DEF fixed
    <3>2. rc'.encoder = "OK" => rc.encoder = "OK" \/ (enc.use_index /\ enc'.index_found)
      BY <2>2, <2>3
    <3>3. pc \in Searching /\ pc \notin After
      BY <2>1 DEF Searching, After
    <3> QED
      BY <2>1, <3>1, <3>2, <3>3, ApplyInv
  <2>5. TypeOK'
    BY <2>1, <2>2, <2>4 DEF TypeOK, Rcs, fixed, moves, outputs, Label, Searching, Aligning
  <2>6. VoltageInv'
    BY <2>1, <2>2 DEF VoltageInv, Searching, Aligning, After
  <2> QED
    BY <2>4, <2>5, <2>6
<1>3. CASE FindRelease
  <2>1. /\ pc = "release" /\ pc' = "base"
        /\ UNCHANGED <<pos, enc, rotor, fixed, i, moves, outputs, zero, rc>>
    BY <1>3 DEF FindRelease, Release, Continue
  <2>2. EncInv'
    BY <2>1, RestInv DEF fixed, Searching, After
  <2>3. TypeOK'
    BY <2>1 DEF TypeOK, fixed, moves, outputs, Label, Searching, Aligning
  <2>4. VoltageInv'
    BY <2>1 DEF VoltageInv, Searching, Aligning, After
  <2> QED
    BY <2>2, <2>3, <2>4
<1> QED
  BY <1>2, <1>3 DEF find_index

\* A step of the alignment that applies a vector.
LEMMA ScanInv ==
  ASSUME TypeOK, EncInv, VoltageInv, NEW theta, Apply(theta),
         pc \in Aligning,
         \/ pc' \in Aligning /\ rc'.phase = rc.phase
         \/ pc' = AfterPhase /\ rc'.phase = "ERROR",
         rc' \in Rcs, rc'.encoder = rc.encoder, rc'.current = rc.current,
         UNCHANGED <<rotor, fixed, inverted, zero>>,
         i' \in Nat, base' \in Int, plus' \in Int, minus' \in Int, encoder_zero' \in Int
  PROVE  EncFollows /\ TypeOK' /\ EncInv' /\ VoltageInv'
<1>1. pc' \in Label /\ pc' \notin Searching /\ pc \notin After
  BY DEF Label, Searching, Aligning, AfterPhase, After
<1>2. EncFollows /\ EncInv' /\ enc' \in Context /\ pos' \in Int
  <2>1. UNCHANGED <<datum, down>>
    BY DEF fixed
  <2>2. rc'.encoder = "OK" => rc.encoder = "OK" \/ (enc.use_index /\ enc'.index_found)
    OBVIOUS
  <2>3. pc' \in Searching => pc \in Searching
    BY <1>1
  <2> QED
    BY <1>1, <2>1, <2>2, <2>3, ApplyInv
<1>3. TypeOK'
  BY <1>1, <1>2 DEF TypeOK, fixed, Rcs
<1>4. VoltageInv'
  BY DEF VoltageInv, Searching, Aligning, After, AfterPhase
<1> QED
  BY <1>2, <1>3, <1>4
LEMMA AlignInv ==
  ASSUME TypeOK, EncInv, VoltageInv, align_phase
  PROVE  TypeOK' /\ EncInv' /\ VoltageInv'
<1>1. /\ rc \in Rcs /\ i \in Nat /\ base \in Int /\ plus \in Int /\ minus \in Int
      /\ encoder_zero \in Int /\ Base \in Int /\ pp \in Nat \ {0}
  BY MotorAssumption DEF TypeOK, Rcs
<1> USE DEF Aligning
<1>2. ASSUME NEW theta, Apply(theta)
      PROVE  enc'.total \in Int /\ cal_wrap_pi(enc'.total - base) \in Int
             /\ ZeroFrom(enc'.total) \in Int
  <2>1. pos' \in Int /\ enc' = enc_abi_update(enc, Count(pos'), Index(pos'), 1)
        /\ enc \in Context
    BY <1>2, ApplyIs DEF TypeOK
  <2>2. enc' \in Context
    <3>1. Count(pos') \in Int /\ Index(pos') \in BOOLEAN
      BY <2>1, CountSame DEF Index
    <3> QED
      BY <2>1, <3>1, UpdateIs
  <2>3. enc'.total \in Int /\ enc'.total - base \in Int
    BY <1>1, <2>2 DEF Context
  <2> QED
    BY <1>1, <2>3, WrapIs DEF ZeroFrom
<1>3. CASE AlignBase
  <2>1. MechAngle("plus") /\ Apply(Base) /\ pc = "base" /\ base' = enc'.total
        /\ UNCHANGED <<rotor, fixed, i, plus, minus, outputs, zero, history>>
    BY <1>3 DEF AlignBase
  <2> QED
    BY <1>1, <1>2, <2>1, MechAngleIs, ScanInv DEF outputs
<1>4. CASE ScanPlus
  <2>1. pc = "plus" /\ UNCHANGED <<rotor, fixed, base, minus, outputs, zero, history>>
        /\ Apply(Base + (i + 1) * ScanStep)
    BY <1>4 DEF ScanPlus
  <2>2. \/ i' = i + 1 /\ UNCHANGED plus /\ Continue("plus")
        \/ i' = 0 /\ plus' = cal_wrap_pi(enc'.total - base) /\ MechAngle("back")
    BY <1>4 DEF ScanPlus
  <2>3. i' \in Nat /\ plus' \in Int
    BY <1>1, <1>2, <2>1, <2>2
  <2>4. /\ rc' \in Rcs /\ rc'.encoder = rc.encoder /\ rc'.current = rc.current
        /\ \/ pc' \in {"plus", "back"} /\ rc'.phase = rc.phase
           \/ pc' = AfterPhase /\ rc'.phase = "ERROR"
    BY <1>1, <2>2, MechAngleIs DEF Continue
  <2> QED
    BY <1>1, <2>1, <2>3, <2>4, ScanInv DEF outputs
<1>5. CASE ReturnToBase
  <2>1. /\ pc = "back" /\ pc' = "minus" /\ Apply(Base) /\ rc' = rc
        /\ UNCHANGED <<rotor, fixed, i, moves, outputs, zero, history>>
    BY <1>5 DEF ReturnToBase, Continue
  <2> QED
    BY <1>1, <2>1, ScanInv DEF moves, outputs
<1>6. CASE ScanMinus
  <2>1. pc = "minus" /\ UNCHANGED <<rotor, fixed, base, plus, outputs, zero, history>>
        /\ Apply(Base - (i + 1) * ScanStep)
    BY <1>6 DEF ScanMinus
  <2>2. \/ i' = i + 1 /\ UNCHANGED minus /\ Continue("minus")
        \/ i' = 0 /\ minus' = cal_wrap_pi(enc'.total - base) /\ MechAngle("check")
    BY <1>6 DEF ScanMinus
  <2>3. i' \in Nat /\ minus' \in Int
    BY <1>1, <1>2, <2>1, <2>2
  <2>4. /\ rc' \in Rcs /\ rc'.encoder = rc.encoder /\ rc'.current = rc.current
        /\ \/ pc' \in {"minus", "check"} /\ rc'.phase = rc.phase
           \/ pc' = AfterPhase /\ rc'.phase = "ERROR"
    BY <1>1, <2>2, MechAngleIs DEF Continue
  <2> QED
    BY <1>1, <2>1, <2>3, <2>4, ScanInv DEF outputs
<1>7. CASE Judge
  <2>1. /\ pc = "check" /\ inverted' \in BOOLEAN
        /\ PhaseFails \/ Continue("align")
        /\ UNCHANGED <<world, rotor, fixed, i, moves, encoder_zero, zero, history>>
    <3>1. inverted' = inverted \/ inverted' = (plus < 0)
      BY <1>7 DEF Judge
    <3>2. inverted' \in BOOLEAN
      <4>1. inverted \in BOOLEAN /\ (plus < 0) \in BOOLEAN
        BY DEF TypeOK
      <4> QED
        BY <3>1, <4>1, Zenon
    <3> QED
      BY <1>7, <3>2 DEF Judge
  <2>2. /\ rc' \in Rcs /\ rc'.encoder = rc.encoder /\ rc'.current = rc.current
        /\ \/ pc' = "align" /\ rc'.phase = rc.phase
           \/ pc' = AfterPhase /\ rc'.phase = "ERROR"
    BY <1>1, <2>1, ReturnIs DEF Continue, PhaseFails, Return, Result
  <2>3. EncInv'
    BY <2>1, <2>2, RestInv DEF world, fixed, Searching, After, AfterPhase
  <2>4. TypeOK'
    BY <2>1, <2>2 DEF TypeOK, Rcs, world, fixed, moves, Label, AfterPhase, After
  <2>5. VoltageInv'
    BY <2>1, <2>2 DEF VoltageInv, Searching, After, AfterPhase
  <2> QED
    BY <2>3, <2>4, <2>5
<1>8. CASE AlignZero
  <2>1. /\ pc = "align" /\ Apply(Base) /\ encoder_zero' \in Int
        /\ PhaseFails \/ Continue("off")
        /\ UNCHANGED <<rotor, fixed, i, moves, inverted, zero, clean>>
    BY <1>1, <1>2, <1>8 DEF AlignZero
  <2>2. /\ rc' \in Rcs /\ rc'.encoder = rc.encoder /\ rc'.current = rc.current
        /\ \/ pc' = "off" /\ rc'.phase = rc.phase
           \/ pc' = AfterPhase /\ rc'.phase = "ERROR"
    BY <1>1, <2>1, ReturnIs DEF Continue, PhaseFails, Return, Result
  <2> QED
    BY <1>1, <2>1, <2>2, ScanInv DEF moves
<1>9. CASE AlignRelease
  <2>1. /\ pc = "off" /\ pc' = AfterPhase /\ vector' = FALSE
        /\ rc' \in Rcs /\ rc'.encoder = rc.encoder /\ rc'.current = rc.current
        /\ rc'.phase \in Result
        /\ UNCHANGED <<pos, enc, rotor, fixed, i, moves, outputs, zero>>
    BY <1>1, <1>9, ReturnIs DEF AlignRelease, Release, Return, Result, Rcs
  <2>2. EncInv'
    BY <2>1, RestInv DEF fixed, Searching, After, AfterPhase
  <2>3. TypeOK'
    BY <2>1 DEF TypeOK, Rcs, fixed, moves, outputs, Label, AfterPhase, After
  <2>4. VoltageInv'
    BY <2>1 DEF VoltageInv, Searching, After, AfterPhase
  <2> QED
    BY <2>2, <2>3, <2>4
<1> QED
  BY <1>3, <1>4, <1>5, <1>6, <1>7, <1>8, <1>9 DEF align_phase
LEMMA LaterInv ==
  ASSUME TypeOK, EncInv, VoltageInv, ZeroVoltage \/ Backfill \/ Run \/ Freeze
  PROVE  TypeOK' /\ EncInv' /\ VoltageInv'
<1>1. rc \in Rcs /\ rc.phase \in Result
  BY DEF TypeOK, Rcs
<1> USE DEF After
<1>2. CASE ZeroVoltage
  <2>1. /\ pc = "current" /\ pc' = "backfill"
        /\ rc' \in Rcs /\ rc'.encoder = rc.encoder /\ rc'.phase = rc.phase
        /\ UNCHANGED <<pos, enc, rotor, fixed, i, moves, outputs, zero, history>>
        /\ vector' = FALSE \/ (UNCHANGED vector /\ rc'.current = "ERROR")
    BY <1>1, <1>2, ReturnIs DEF ZeroVoltage, Release, Return, Result, world
  <2>2. EncInv'
    BY <2>1, RestInv DEF fixed, Searching
  <2>3. TypeOK'
    BY <2>1 DEF TypeOK, Rcs, fixed, moves, outputs, Label
  <2>4. VoltageInv'
    BY <2>1 DEF VoltageInv, Searching, Aligning
  <2> QED
    BY <2>2, <2>3, <2>4
<1>3. CASE Backfill
  <2>1. /\ pc = "backfill" /\ pc' = "ready" /\ rc' = rc /\ zero' = encoder_zero
        /\ enc' = [enc EXCEPT !.inverted = inverted]
        /\ UNCHANGED <<pos, vector, rotor, fixed, i, moves, outputs>>
    BY <1>3 DEF Backfill, Continue
  <2>2. enc' \in Context
    BY <2>1 DEF TypeOK, Context
  <2>3. TypeOK'
    BY <2>1, <2>2 DEF TypeOK, fixed, moves, outputs, Label
  <2>4. EncInv' /\ VoltageInv'
    BY <2>1 DEF EncInv, VoltageInv, Searching, Aligning
  <2> QED
    BY <2>3, <2>4
<1>4. CASE Run
  <2>1. /\ pc \in {"ready", "run"} /\ pc' = "run" /\ rc' = rc /\ i' = i + 1
        /\ pos' \in {pos - 1, pos + 1}
        /\ enc' = enc_abi_update(enc, Count(pos'), Index(pos'), 1)
        /\ UNCHANGED <<vector, rotor, fixed, moves, outputs, zero>>
    BY <1>4 DEF Run, Continue
  <2>2. pos' \in Int /\ i' \in Nat /\ enc \in Context
    BY <2>1 DEF TypeOK
  <2>3. Count(pos') \in Int /\ Index(pos') \in BOOLEAN
    BY <2>2, CountSame DEF Index
  <2>4. enc' \in Context
    BY <2>1, <2>2, <2>3, UpdateIs
  <2>5. TypeOK'
    BY <2>1, <2>2, <2>4 DEF TypeOK, fixed, moves, outputs, Label
  <2>6. EncInv' /\ VoltageInv'
    BY <2>1 DEF EncInv, VoltageInv, Searching, Aligning
  <2> QED
    BY <2>5, <2>6
<1>5. CASE Freeze
  <2>1. /\ rotor' = "stuck" /\ UNCHANGED <<world, fixed, pc, i, moves, outputs, zero, rc>>
    BY <1>5 DEF Freeze
  <2>2. EncInv'
    BY <2>1, RestInv DEF world, fixed
  <2>3. TypeOK' /\ VoltageInv'
    BY <2>1 DEF TypeOK, VoltageInv, world, fixed, moves, outputs
  <2> QED
    BY <2>2, <2>3
<1> QED
  BY <1>2, <1>3, <1>4, <1>5

Inv1 == TypeOK /\ EncInv /\ VoltageInv

LEMMA InitInv1 == Init => Inv1
<1> SUFFICES ASSUME Init PROVE Inv1
  OBVIOUS
<1>1. PICK useIndex \in BOOLEAN : /\ enc = enc_abi_init(useIndex, FALSE)
                                  /\ pc = IF useIndex THEN "find" ELSE "base"
  BY DEF Init
<1>2. enc \in Context
  BY <1>1 DEF enc_abi_init, Context
<1>3. enc.inverted = FALSE /\ enc.first = TRUE /\ enc.use_index = useIndex
      /\ enc.index_found = ~useIndex
  BY <1>1 DEF enc_abi_init
<1>4. pos \in Int /\ datum \in Int
  BY Counts DEF Init
<1>5. /\ rotor \in {"free", "stuck", "dragged"} /\ pp \in Nat \ {0}
      /\ vector = FALSE /\ i = 0 /\ base = 0 /\ plus = 0 /\ minus = 0
      /\ encoder_zero = 0 /\ zero = 0
      /\ rc = [encoder |-> "none", phase |-> "none", current |-> "none"]
  BY MotorAssumption DEF Init
<1>6. down \in BOOLEAN /\ inverted \in BOOLEAN
  BY DEF Init
<1>7. TypeOK
  <2>1. pc \in Label
    BY <1>1 DEF Label, Searching, Aligning
  <2>2. rc \in [encoder : Result, phase : Result, current : Result]
    BY <1>5 DEF Result
  <2>3. i \in Nat /\ base \in Int /\ plus \in Int /\ minus \in Int
        /\ encoder_zero \in Int /\ zero \in Int
    BY <1>5
  <2> QED
    BY <1>2, <1>4, <1>5, <1>6, <2>1, <2>2, <2>3 DEF TypeOK
<1>8. EncInv
  BY <1>1, <1>3, <1>5 DEF EncInv, Searching, After
<1>9. VoltageInv
  BY <1>1, <1>5 DEF VoltageInv, Searching, Aligning, After
<1> QED
  BY <1>7, <1>8, <1>9 DEF Inv1

LEMMA NextInv1 == Inv1 /\ [Next]_vars => Inv1'
<1> SUFFICES ASSUME Inv1, [Next]_vars PROVE Inv1'
  OBVIOUS
<1>1. TypeOK /\ EncInv /\ VoltageInv
  BY DEF Inv1
<1>2. CASE UNCHANGED vars
  <2>1. UNCHANGED <<pos, vector, enc, rotor, datum, down, pp, current, pc, i, base, plus,
                    minus, inverted, encoder_zero, zero, rc>>
    BY <1>2 DEF vars, world, fixed, moves, outputs
  <2>2. EncInv'
    BY <1>1, <2>1, RestInv
  <2> QED
    BY <1>1, <2>1, <2>2 DEF TypeOK, VoltageInv, Inv1
<1> QED
  BY <1>1, <1>2, FindInv, AlignInv, LaterInv DEF Next, Inv1

LEMMA Invariant1 == Spec => []Inv1
BY InitInv1, NextInv1, PTL DEF Spec

(* When a plugin succeeded after the last one that applied a vector, the   *)
(* motor has no voltage (cal_abi_align.c:116, cal_current.c:19-24).        *)
THEOREM NoVoltageIsLeft == Spec => []NoVoltageLeft
<1>1. Inv1 => NoVoltageLeft
  BY DEF Inv1, VoltageInv, NoVoltageLeft, After
<1> QED
  BY <1>1, Invariant1, PTL

(* A successful index search makes the angle absolute, and every vector    *)
(* applied after it keeps it so, for every number of counts, whichever way *)
(* the counter goes (cal_abi_find_index.c:38-51, enc_abi.c:59-101).        *)
THEOREM FoundStaysAbsolute == Spec => []FoundIsAbsolute
<1>1. ASSUME Inv1 PROVE FoundIsAbsolute
  <2> SUFFICES ASSUME rc.encoder = "OK", pc \notin After
               PROVE  enc.index_found
                      /\ (enc.total - (IF down THEN -pos ELSE pos)) % CPR = 0
    BY DEF FoundIsAbsolute, After
  <2>1. enc.index_found /\ Same(enc.total, Dir(pos))
    BY <1>1 DEF Inv1, EncInv
  <2>2. enc.total \in Int /\ Dir(pos) \in Int
    BY <1>1 DEF Inv1, TypeOK, Context, Dir
  <2>3. Same(Dir(pos), Dir(pos))
    BY DEF Same
  <2>4. Same(enc.total - Dir(pos), Dir(pos) - Dir(pos))
    BY <2>1, <2>2, <2>3, SameSum
  <2>5. Dir(pos) - Dir(pos) = 0 /\ 0 % CPR = 0
    BY <2>2, Counts
  <2>6. (enc.total - Dir(pos)) % CPR = 0
    BY <2>4, <2>5 DEF Same
  <2> QED
    BY <2>1, <2>6 DEF Dir
<1> QED
  BY <1>1, Invariant1, PTL
-----------------------------------------------------------------------------
(* The rotor, in counts.                                                   *)
ElecTurn == CPR \div PP        \* an electrical turn
ElecHalf == CPR \div (2 * PP)
Step     == ScanStep \div PP
Origin   == Base \div PP
Travel   == ScanSteps * Step

LEMMA Motor ==
  /\ PP \in Nat \ {0} /\ ScanSteps \in Nat \ {0}
  /\ ElecTurn \in Nat \ {0} /\ CPR = PP * ElecTurn
  /\ ElecHalf \in Nat \ {0} /\ ElecTurn = 2 * ElecHalf
  /\ Origin \in Int /\ Base = PP * Origin
  /\ Step \in Nat \ {0} /\ ScanStep = PP * Step
  /\ Travel \in Nat \ {0} /\ 4 * Travel < ElecTurn
  /\ Tol \in Nat /\ (200 + Tol) * Travel < 50 * ElecTurn
  /\ \E v \in Nat : CPR = 4 * v
<1>1. PP \in Nat \ {0} /\ ScanSteps \in Nat \ {0} /\ Base \in Int /\ ScanStep \in Nat
      /\ ScanStep > 0 /\ CPR \in Nat \ {0}
      /\ Tol \in Nat /\ (200 + Tol) * (ScanSteps * ScanStep) < 50 * CPR
  BY MotorAssumption, ScanAssumption, Counts
<1>2. PICK v \in Nat \ {0} : CPR = PP * (4 * v)
  <2> DEFINE n == 4 * PP
  <2>1. n \in Nat \ {0} /\ CPR % n = 0
    BY <1>1, MotorAssumption
  <2> HIDE DEF n
  <2>2. PICK q \in Int : CPR = n * q
    <3> DEFINE q == CPR \div n
    <3>1. q \in Int /\ CPR = n * q + (CPR % n)
      BY <1>1, <2>1, Modulo
    <3> HIDE DEF q
    <3>2. CPR = n * q
      BY <2>1, <3>1
    <3> QED
      BY <3>1, <3>2
  <2> USE DEF n
  <2>3. q >= 1
    <3>1. q <= 0 => (4 * PP) * q <= 0
      BY <1>1
    <3> QED
      BY <1>1, <2>2, <3>1
  <2>4. CPR = PP * (4 * q)
    BY <1>1, <2>2
  <2> QED
    BY <2>3, <2>4
<1>3. ElecTurn = 4 * v /\ ElecHalf = 2 * v
  <2>1. ASSUME NEW n \in Nat \ {0}, NEW q \in Int, NEW a \in Int, a = n * q
        PROVE  a \div n = q
    BY <2>1
  <2>2. 4 * v \in Int /\ CPR \in Int
    BY <1>1
  <2>3. CPR \div PP = 4 * v
    BY <1>1, <1>2, <2>1, <2>2
  <2>4. CPR = (2 * PP) * (2 * v) /\ 2 * PP \in Nat \ {0} /\ 2 * v \in Int
    BY <1>1, <1>2
  <2>5. CPR \div (2 * PP) = 2 * v
    BY <1>1, <2>1, <2>4
  <2> QED
    BY <2>3, <2>5 DEF ElecTurn, ElecHalf
<1>4. Origin \in Int /\ Base = PP * Origin
  <2>1. Base % PP = 0
    BY MotorAssumption
  <2> QED
    BY <1>1, <2>1, Modulo DEF Origin
<1>5. Step \in Nat \ {0} /\ ScanStep = PP * Step
  <2>1. ScanStep % PP = 0
    BY MotorAssumption
  <2>2. Step \in Int /\ ScanStep = PP * Step
    BY <1>1, <2>1, Modulo DEF Step
  <2>3. Step <= 0 => PP * Step <= 0
    BY <1>1, <2>2
  <2> QED
    BY <1>1, <2>2, <2>3
<1>6. /\ Travel \in Nat \ {0} /\ 4 * Travel < ElecTurn
      /\ (200 + Tol) * Travel < 50 * ElecTurn
  <2>1. Travel \in Nat \ {0} /\ ScanSteps * ScanStep = PP * Travel
    BY <1>1, <1>5 DEF Travel
  <2> DEFINE x == (200 + Tol) * Travel
             y == 50 * (4 * v)
  <2>2. x \in Nat /\ y \in Nat /\ x >= 200 * Travel
    <3>1. Tol * Travel \in Nat /\ x = 200 * Travel + Tol * Travel
      BY <1>1, <2>1
    <3> QED
      BY <1>1, <2>1, <3>1
  <2>3. PP * x < PP * y
    <3>1. (200 + Tol) * (PP * Travel) = PP * x
      BY <1>1, <2>1
    <3>2. 50 * CPR = PP * y
      BY <1>1, <1>2
    <3> QED
      BY <1>1, <2>1, <3>1, <3>2
  <2> HIDE DEF x, y
  <2>4. x >= y => PP * x >= PP * y
    BY <1>1, <2>2
  <2>5. x < y
    BY <1>1, <2>2, <2>3, <2>4
  <2>6. y = 50 * ElecTurn
    BY <1>3 DEF y
  <2>7. 4 * Travel < ElecTurn
    BY <1>3, <2>1, <2>2, <2>5 DEF y
  <2> QED
    BY <2>1, <2>5, <2>6, <2>7 DEF x
<1>7. CPR = 4 * (PP * v) /\ PP * v \in Nat
  BY <1>1, <1>2
<1> QED
  BY <1>1, <1>2, <1>3, <1>4, <1>5, <1>6, <1>7

\* A rotor's d axis is at the same electrical angle once per electrical turn.
LEMMA AtIs ==
  ASSUME NEW a \in Int, NEW p \in Int
  PROVE  At(PP * a, p) <=> p % ElecTurn = a % ElecTurn
<1>1. PP * a \in Int /\ p * PP \in Int
  BY Motor
<1>2. At(PP * a, p) <=> \E k \in Int : p * PP = PP * a + CPR * k
  BY <1>1, Counts, SameModulo DEF At
<1>3. p % ElecTurn = a % ElecTurn <=> \E k \in Int : p = a + ElecTurn * k
  BY Motor, SameModulo
<1>4. ASSUME NEW k \in Int
      PROVE  p * PP = PP * a + CPR * k <=> p = a + ElecTurn * k
  <2> DEFINE y == a + ElecTurn * k
  <2>1. PP * a + CPR * k = PP * y /\ y \in Int
    BY Motor
  <2> HIDE DEF y
  <2>2. p * PP = PP * y <=> p = y
    BY <2>1, Motor
  <2> QED
    BY <2>1, <2>2 DEF y
<1> QED
  BY <1>2, <1>3, <1>4
\* The candidates of Follow: one, or two on either side.
LEMMA NearIs ==
  ASSUME NEW a \in Int, NEW q \in Int, pos \in Int, q % ElecTurn = a % ElecTurn,
         pos - ElecHalf < q, q <= pos + ElecHalf
  PROVE  {p \in pos - ElecHalf .. pos + ElecHalf : At(PP * a, p)}
           = IF q = pos + ElecHalf THEN {q, pos - ElecHalf} ELSE {q}
<1> DEFINE near == {p \in pos - ElecHalf .. pos + ElecHalf : At(PP * a, p)}
<1>1. ElecTurn \in Nat \ {0} /\ ElecHalf \in Nat \ {0} /\ ElecTurn = 2 * ElecHalf
  BY Motor
<1>2. ASSUME NEW p \in Int
      PROVE  At(PP * a, p) <=> \E k \in Int : p = q + ElecTurn * k
  <2>1. At(PP * a, p) <=> p % ElecTurn = q % ElecTurn
    BY AtIs
  <2>2. p % ElecTurn = q % ElecTurn <=> \E k \in Int : p = q + ElecTurn * k
    BY <1>1, SameModulo
  <2> QED
    BY <2>1, <2>2
<1>3. q \in near
  <2>1. q = q + ElecTurn * 0
    BY <1>1
  <2>2. At(PP * a, q)
    BY <1>2, <2>1
  <2> QED
    BY <1>1, <2>2
<1>4. ASSUME NEW p \in near PROVE p = q \/ (p = pos - ElecHalf /\ q = pos + ElecHalf)
  <2>1. PICK k \in Int : p = q + ElecTurn * k
    <3>1. p \in Int /\ At(PP * a, p)
      BY <1>1
    <3> QED
      BY <1>2, <3>1
  <2>2. k >= 1 => ElecTurn * k >= ElecTurn
    BY <1>1
  <2>3. k <= -2 => ElecTurn * k <= -(2 * ElecTurn)
    BY <1>1
  <2>4. k = -1 => ElecTurn * k = -ElecTurn
    BY <1>1
  <2>5. k = 0 => ElecTurn * k = 0
    BY <1>1
  <2>6. p \in Int /\ pos - ElecHalf <= p /\ p <= pos + ElecHalf
    BY <1>1
  <2>7. k \in {0, -1}
    BY <1>1, <2>1, <2>2, <2>3, <2>6
  <2> QED
    BY <1>1, <2>1, <2>4, <2>5, <2>6, <2>7
<1>5. ASSUME q = pos + ElecHalf PROVE pos - ElecHalf \in near
  <2>1. pos - ElecHalf = q + ElecTurn * (-1)
    BY <1>1, <1>5
  <2> QED
    BY <1>1, <1>2, <2>1
<1> QED
  BY <1>3, <1>4, <1>5

\* Where a free rotor goes: to the angle, if it is less than half an
\* electrical turn away; else either way, or nowhere.
LEMMA FollowIs ==
  ASSUME NEW a \in Int, NEW q \in Int, pos \in Int, q % ElecTurn = a % ElecTurn,
         pos - ElecHalf < q, q <= pos + ElecHalf
  PROVE  Follow(PP * a) = IF q = pos + ElecHalf THEN {q, pos - ElecHalf, pos} ELSE {q}
<1> DEFINE near == {p \in pos - ElecHalf .. pos + ElecHalf : At(PP * a, p)}
           ds   == {Distance(p) : p \in near}
           d    == Min(ds)
<1>1. ElecHalf \in Nat \ {0}
  BY Motor
<1>2. near = IF q = pos + ElecHalf THEN {q, pos - ElecHalf} ELSE {q}
  BY NearIs
<1>3. Follow(PP * a) = {p \in near : Distance(p) = d}
                         \cup (IF d = ElecHalf THEN {pos} ELSE {})
  BY DEF Follow, ElecHalf
<1> HIDE DEF near
<1>4. Distance(q) \in Int /\ (Distance(q) = ElecHalf <=> q = pos + ElecHalf)
      /\ Distance(pos - ElecHalf) = ElecHalf
  BY <1>1 DEF Distance
<1>5. ds = {Distance(q)}
  BY <1>2, <1>4
<1>6. d = Distance(q)
  BY <1>4, <1>5 DEF Min
<1> QED
  BY <1>2, <1>3, <1>4, <1>6

LEMMA FollowAt ==
  ASSUME NEW a \in Int, pos \in Int, NEW p \in Follow(PP * a)
  PROVE  p \in Int /\ (\/ p % ElecTurn = a % ElecTurn
                       \/ (p - ElecHalf) % ElecTurn = a % ElecTurn)
<1>1. ElecHalf \in Nat \ {0} /\ ElecTurn \in Nat \ {0} /\ ElecTurn = 2 * ElecHalf
  BY Motor
<1> DEFINE r == (pos + ElecHalf - a) % ElecTurn
           q == pos + ElecHalf - r
<1>2. PICK k \in Int : r \in 0 .. ElecTurn - 1 /\ pos + ElecHalf - a = ElecTurn * k + r
  <2>1. pos + ElecHalf - a \in Int
    BY <1>1
  <2> QED
    BY <1>1, <2>1, Modulo
<1> HIDE DEF r
<1>3. q \in Int /\ pos - ElecHalf < q /\ q <= pos + ElecHalf /\ q = a + ElecTurn * k
  BY <1>1, <1>2
<1> HIDE DEF q
<1>4. q % ElecTurn = a % ElecTurn
  BY <1>1, <1>3, SameModulo
<1>5. Follow(PP * a) = IF q = pos + ElecHalf THEN {q, pos - ElecHalf, pos} ELSE {q}
  BY <1>3, <1>4, FollowIs
<1>6. CASE p = q
  BY <1>3, <1>4, <1>6
<1>7. CASE p = pos - ElecHalf /\ q = pos + ElecHalf
  <2>1. p = a + ElecTurn * (k - 1) /\ k - 1 \in Int /\ p \in Int
    BY <1>1, <1>3, <1>7
  <2> QED
    BY <1>1, <2>1, SameModulo
<1>8. CASE p = pos /\ q = pos + ElecHalf
  <2>1. p - ElecHalf = a + ElecTurn * (k - 1) /\ k - 1 \in Int /\ p - ElecHalf \in Int
    BY <1>1, <1>3, <1>8
  <2> DEFINE m == p - ElecHalf
  <2> HIDE DEF m
  <2>2. m % ElecTurn = a % ElecTurn
    <3>1. m \in Int /\ m = a + ElecTurn * (k - 1) /\ k - 1 \in Int
      BY <2>1 DEF m
    <3> QED
      BY <1>1, <3>1, SameModulo
  <2> QED
    BY <1>8, <2>2 DEF m
<1> QED
  BY <1>5, <1>6, <1>7, <1>8
LEMMA FreeMoves ==
  ASSUME TypeOK, rotor = "free", NEW a \in Int, NEW y \in Int,
         (pos + y) % ElecTurn = a % ElecTurn, -ElecHalf < y, y < ElecHalf,
         Apply(PP * a)
  PROVE  pos' = pos + y
<1> DEFINE q == pos + y
<1>1. pos \in Int /\ ElecHalf \in Nat
  BY Motor DEF TypeOK
<1>2. q \in Int /\ pos - ElecHalf < q /\ q < pos + ElecHalf /\ q % ElecTurn = a % ElecTurn
  BY <1>1
<1> HIDE DEF q
<1>3. Follow(PP * a) = {q}
  <2>1. q <= pos + ElecHalf /\ q # pos + ElecHalf
    BY <1>1, <1>2
  <2> QED
    BY <1>1, <1>2, <2>1, FollowIs
<1>4. pos' = q
  BY <1>3 DEF Apply
<1> QED
  BY <1>4 DEF q

LEMMA DraggedMoves ==
  ASSUME rotor = "dragged", NEW theta, Apply(theta) PROVE pos' = pos + 1
BY DEF Apply

LEMMA StuckStays ==
  ASSUME rotor = "stuck", NEW theta, Apply(theta) PROVE pos' = pos
BY DEF Apply

-----------------------------------------------------------------------------
(* The scans.  x is how far the rotor is from where base was read; e is 0, *)
(* or, if the rotor was on the far side of the angle and stayed there, half *)
(* an electrical turn: then the first step takes it to e from there.       *)
Offsets == {0, -ElecHalf}

Moved(x)        == Same(enc.total - base, Dir(x))
Displaced(e, x) == Moved(x) /\ (pos - x + e) % ElecTurn = Origin % ElecTurn
PlusFrom(e)     == plus = cal_wrap_pi(Dir(e + Travel))

PlusInv ==
  pc = "plus" =>
    /\ i < ScanSteps
    /\ rotor = "free" => \E e \in Offsets : Displaced(e, IF i = 0 THEN 0 ELSE e + i * Step)
    /\ rotor = "dragged" => Moved(i)

BackInv ==
  pc = "back" =>
    /\ rotor = "free" => \E e \in Offsets : Displaced(e, e + Travel) /\ PlusFrom(e)
    /\ rotor = "stuck" => plus = cal_wrap_pi(enc.total - base)
    /\ rotor = "dragged" => Moved(ScanSteps) /\ plus = cal_wrap_pi(Dir(ScanSteps))

\* A rotor that stopped in the middle of a scan: before plus was measured,
\* or after it.
MinusInv ==
  pc = "minus" =>
    /\ i < ScanSteps
    /\ rotor = "free" => \E e \in Offsets : Displaced(e, e - i * Step) /\ PlusFrom(e)
    /\ rotor = "stuck" => \/ plus = cal_wrap_pi(enc.total - base)
                          \/ \E e \in Offsets, j \in 0 .. ScanSteps :
                                Moved(e - j * Step) /\ PlusFrom(e)
    /\ rotor = "dragged" => Moved(ScanSteps + 1 + i) /\ plus = cal_wrap_pi(Dir(ScanSteps))

Measured ==
  \/ plus = minus
  \/ /\ rotor # "dragged"
     /\ \E e \in Offsets, j \in 0 .. ScanSteps :
          PlusFrom(e) /\ minus = cal_wrap_pi(Dir(e - j * Step))
  \/ plus = cal_wrap_pi(Dir(ScanSteps)) /\ minus = cal_wrap_pi(Dir(2 * ScanSteps + 1))

Earned == WithinTol(pp, PP) /\ inverted = down /\ rotor # "dragged"

AlignSteady ==
  /\ pc \in {"release", "base", "back", "check"} => i = 0
  /\ pc \in {"plus", "back", "minus"} => ~enc.first

ScanInv2 ==
  AlignSteady /\ (Referenced =>
    /\ PlusInv /\ BackInv /\ MinusInv
    /\ pc = "check" => Measured
    /\ pc \in {"align", "off"} \/ rc.phase = "OK" => Earned)

\* A measured move of less than half a turn is what it is.
LEMMA WrapNear ==
  ASSUME NEW x \in Int, -Half < x, x < Half
  PROVE  cal_wrap_pi(Dir(x)) = Dir(x)
<1>1. Dir(x) \in Int /\ -Half < Dir(x) /\ Dir(x) < Half
  BY Counts DEF Dir
<1>2. cal_wrap_pi(Dir(x)) \in Int /\ Same(cal_wrap_pi(Dir(x)), Dir(x))
      /\ -Half < cal_wrap_pi(Dir(x)) /\ cal_wrap_pi(Dir(x)) <= Half
  BY <1>1, WrapIs
<1> QED
  BY <1>1, <1>2, Counts, SameIsNear

LEMMA Steps ==
  ASSUME NEW n \in 0 .. ScanSteps
  PROVE  n * Step \in 0 .. Travel /\ (n + 1) * Step = n * Step + Step
<1>1. n \in Nat /\ ScanSteps \in Nat /\ Step \in Nat
  BY Motor
<1>2. n * Step \in Nat /\ n * Step + (ScanSteps - n) * Step = ScanSteps * Step
      /\ (ScanSteps - n) * Step \in Nat
  BY <1>1
<1> QED
  BY <1>1, <1>2 DEF Travel

\* Two products with the same factor are as near as the others.
LEMMA NearProduct ==
  ASSUME NEW n \in Nat \ {0}, NEW x \in Nat, NEW y \in Nat, WithinTol(n * x, n * y)
  PROVE  WithinTol(x, y)
<1> DEFINE d == IF x < y THEN y - x ELSE x - y
           u == 100 * d
           v == Tol * y
<1>1. u \in Nat /\ v \in Nat /\ Tol \in Nat
  BY Motor
<1>2. (IF n * x < n * y THEN n * y - n * x ELSE n * x - n * y) = n * d
  <2>1. CASE x < y
    <3>1. y - x \in Nat \ {0} /\ n * y = n * x + n * (y - x)
      BY <2>1
    <3>2. n * (y - x) > 0
      BY <3>1
    <3> QED
      BY <2>1, <3>1, <3>2
  <2>2. CASE ~(x < y)
    <3>1. x - y \in Nat /\ n * x = n * y + n * (x - y)
      BY <2>2
    <3>2. n * (x - y) >= 0
      BY <3>1
    <3> QED
      BY <2>2, <3>1, <3>2
  <2> QED
    BY <2>1, <2>2
<1>3. 100 * (n * d) <= Tol * (n * y)
  BY <1>2 DEF WithinTol
<1>4. n * u <= n * v
  <2>1. d \in Nat
    OBVIOUS
  <2> HIDE DEF d
  <2>2. 100 * (n * d) = n * (100 * d)
    BY <2>1
  <2>3. Tol * (n * y) = n * (Tol * y)
    BY <1>1
  <2> QED
    BY <1>3, <2>2, <2>3
<1> HIDE DEF u, v, d
<1>5. u > v => n * u > n * v
  BY <1>1
<1>6. n * u \in Nat /\ n * v \in Nat
  BY <1>1
<1>7. u <= v
  BY <1>1, <1>4, <1>5, <1>6
<1> QED
  BY <1>7 DEF WithinTol, u, v, d

\* What tells a motor's number of pole pairs from the next.
LEMMA NearIsExact ==
  ASSUME pp \in Nat, WithinTol(pp, PP), ToldApart PROVE pp = PP
<1>1. PP \in Nat /\ Tol * PP \in Nat
  BY Motor
<1> DEFINE x == Tol * PP
<1>2. 100 * (IF pp < PP THEN PP - pp ELSE pp - PP) <= x /\ x < 100 /\ x \in Nat
  BY <1>1 DEF WithinTol, ToldApart
<1> HIDE DEF x
<1> QED
  BY <1>1, <1>2

\* The judgement of the plugin is right.
LEMMA JudgedRight ==
  ASSUME TypeOK, Measured, Followed, PolePairsFit
  PROVE  WithinTol(pp, PP) /\ (plus < 0 <=> down) /\ rotor # "dragged"
<1>1. /\ PP \in Nat \ {0} /\ ScanSteps \in Nat \ {0} /\ Step \in Nat \ {0}
      /\ Travel \in Nat \ {0} /\ 4 * Travel < ElecTurn /\ ElecTurn = 2 * ElecHalf
      /\ ElecHalf \in Nat /\ ElecTurn \in Nat /\ CPR = PP * ElecTurn
      /\ Half \in Nat /\ CPR = 2 * Half /\ ScanSteps * ScanStep = PP * Travel
      /\ pp \in Nat \ {0} /\ plus \in Int /\ minus \in Int
      /\ Tol \in Nat /\ (200 + Tol) * Travel < 50 * ElecTurn
  <2>1. ScanSteps * ScanStep = PP * Travel
    BY Motor DEF Travel
  <2> QED
    BY <2>1, Motor, Counts DEF TypeOK
<1>2. ElecTurn <= CPR /\ ElecHalf <= Half
  <2>1. PP * ElecTurn >= ElecTurn
    BY <1>1
  <2> QED
    BY <1>1, <2>1
<1>3. plus # 0 /\ minus # 0 /\ ~(plus < 0 <=> minus < 0)
  BY <1>1 DEF Followed
<1>4. ~(plus = cal_wrap_pi(Dir(ScanSteps)) /\ minus = cal_wrap_pi(Dir(2 * ScanSteps + 1)))
  <2>1. ScanSteps <= Travel
    <3>1. ScanSteps * Step >= ScanSteps
      BY <1>1
    <3> QED
      BY <3>1 DEF Travel
  <2>2. PICK v \in Nat : CPR = 4 * v
    BY Motor
  <2>3. 2 * ScanSteps + 1 < Half
    BY <1>1, <1>2, <2>1, <2>2
  <2>4. cal_wrap_pi(Dir(ScanSteps)) = Dir(ScanSteps)
    BY <1>1, <2>3, WrapNear
  <2>5. cal_wrap_pi(Dir(2 * ScanSteps + 1)) = Dir(2 * ScanSteps + 1)
    BY <1>1, <2>3, WrapNear
  <2> QED
    BY <1>1, <1>3, <2>4, <2>5 DEF Dir
<1>5. PICK e \in Offsets, j \in 0 .. ScanSteps :
        rotor # "dragged" /\ PlusFrom(e) /\ minus = cal_wrap_pi(Dir(e - j * Step))
  BY <1>3, <1>4 DEF Measured
<1>6. j * Step \in 0 .. Travel
  BY Steps
<1>7. CASE e = 0
  <2>1. plus = Dir(Travel)
    BY <1>1, <1>2, <1>5, <1>7, WrapNear DEF PlusFrom
  <2>2. (plus < 0 <=> down) /\ (IF plus < 0 THEN -plus ELSE plus) = Travel
    BY <1>1, <2>1 DEF Dir
  <2>3. WithinTol(pp, PP)
    <3>1. PP * Travel = Travel * PP
      BY <1>1
    <3>2. WithinTol(Travel * pp, Travel * PP)
      BY <1>1, <2>2, <3>1 DEF PolePairsFit
    <3> QED
      BY <1>1, <3>2, NearProduct
  <2> QED
    BY <1>5, <2>2, <2>3
<1>8. CASE e = -ElecHalf
  <2>1. plus = Dir(-ElecHalf + Travel)
    BY <1>1, <1>2, <1>5, <1>8, WrapNear DEF PlusFrom
  <2>2. CASE PP = 1
    <3> DEFINE x == (ElecHalf - Travel) * pp
               y == Tol * Travel
    <3>1. ElecHalf - Travel \in Nat /\ ElecHalf - Travel > Travel
      BY <1>1
    <3>2. x \in Nat /\ x >= ElecHalf - Travel
      BY <1>1, <3>1
    <3>3. (IF plus < 0 THEN -plus ELSE plus) = ElecHalf - Travel
      BY <1>1, <2>1, <3>1 DEF Dir
    <3>4. WithinTol(x, Travel)
      BY <1>1, <2>2, <3>3 DEF PolePairsFit
    <3>5. y \in Nat /\ (200 + Tol) * Travel = 200 * Travel + y
      BY <1>1
    <3> HIDE DEF x
    <3>6. 100 * (x - Travel) <= y
      BY <1>1, <3>1, <3>2, <3>4 DEF WithinTol
    <3> HIDE DEF y
    <3> QED
      BY <1>1, <3>1, <3>2, <3>5, <3>6
  <2>3. CASE PP # 1
    <3>1. 2 * ElecTurn <= PP * ElecTurn
      BY <1>1, <2>3
    <3>2. -ElecHalf - j * Step \in Int /\ -Half < -ElecHalf - j * Step
          /\ -ElecHalf - j * Step < 0
      BY <1>1, <1>6, <3>1
    <3>3. minus = Dir(-ElecHalf - j * Step)
      BY <1>1, <1>5, <1>8, <3>2, WrapNear
    <3> QED
      BY <1>1, <1>3, <2>1, <3>2, <3>3 DEF Dir
  <2> QED
    BY <2>2, <2>3
<1> QED
  BY <1>7, <1>8 DEF Offsets
-----------------------------------------------------------------------------
LEMMA MovesOn ==
  ASSUME TypeOK, EncFollows, ~enc.first, enc.use_index => enc.index_found,
         NEW x \in Int, NEW y \in Int, Moved(x), pos' = pos + y
  PROVE  Same(enc'.total - base, Dir(x + y))
<1>1. pos \in Int /\ enc.total \in Int /\ enc'.total \in Int /\ base \in Int
  BY DEF TypeOK, EncFollows, Context
<1>2. pos' - pos = y
  BY <1>1
<1>3. Same(enc'.total, enc.total + Dir(y))
  BY <1>2 DEF EncFollows
<1>4. Dir(x) \in Int /\ Dir(y) \in Int /\ Dir(x + y) = Dir(x) + Dir(y)
  BY DirIs
<1>5. Same(enc'.total - base, (enc.total + Dir(y)) - base)
  BY <1>1, <1>3, <1>4, SameSum DEF Same
<1>6. Same((enc.total - base) + Dir(y), Dir(x) + Dir(y))
  <2>1. Same(enc.total - base, Dir(x)) /\ enc.total - base \in Int
    BY <1>1 DEF Moved
  <2> QED
    BY <1>4, <2>1, SameSum DEF Same
<1>7. (enc.total + Dir(y)) - base = (enc.total - base) + Dir(y)
  BY <1>1, <1>4
<1> QED
  BY <1>4, <1>5, <1>6, <1>7 DEF Same

\* A free rotor that a step of a scan takes on by y.
LEMMA FreeScans ==
  ASSUME TypeOK, EncFollows, ~enc.first, enc.use_index => enc.index_found,
         rotor = "free", NEW e \in Offsets, NEW x \in Int, NEW y \in Int, NEW a \in Int,
         Displaced(e, x), x - e + y = a - Origin, -ElecHalf < y, y < ElecHalf,
         Apply(PP * a)
  PROVE  /\ Same(enc'.total - base, Dir(x + y))
         /\ (pos' - (x + y) + e) % ElecTurn = Origin % ElecTurn
<1>1. pos \in Int /\ e \in Int /\ Origin \in Int /\ ElecTurn \in Nat \ {0}
  BY Motor DEF TypeOK, Offsets
<1>2. PICK k \in Int : pos - x + e = Origin + ElecTurn * k
  <2>1. pos - x + e \in Int /\ (pos - x + e) % ElecTurn = Origin % ElecTurn
    BY <1>1 DEF Displaced
  <2> DEFINE p == pos - x + e
  <2> HIDE DEF p
  <2>2. p \in Int /\ p % ElecTurn = Origin % ElecTurn
    BY <2>1 DEF p
  <2>3. \E k \in Int : p = Origin + ElecTurn * k
    BY <1>1, <2>2, SameModulo
  <2> QED
    BY <2>3 DEF p
<1>3. pos + y = a + ElecTurn * k /\ pos + y \in Int
  BY <1>1, <1>2
<1>4. (pos + y) % ElecTurn = a % ElecTurn
  <2> DEFINE p == pos + y
  <2> HIDE DEF p
  <2>1. p \in Int /\ p = a + ElecTurn * k
    BY <1>3 DEF p
  <2>2. p % ElecTurn = a % ElecTurn
    BY <1>1, <2>1, SameModulo
  <2> QED
    BY <2>2 DEF p
<1>5. pos' = pos + y
  BY <1>4, FreeMoves
<1>6. Same(enc'.total - base, Dir(x + y))
  BY <1>5, MovesOn DEF Displaced
<1>7. pos' - (x + y) + e = pos - x + e
  BY <1>1, <1>5
<1> QED
  BY <1>6, <1>7 DEF Displaced

LEMMA DraggedScans ==
  ASSUME TypeOK, EncFollows, ~enc.first, enc.use_index => enc.index_found,
         rotor = "dragged", NEW x \in Int, Moved(x), NEW theta, Apply(theta)
  PROVE  Same(enc'.total - base, Dir(x + 1))
BY DraggedMoves, MovesOn

LEMMA StuckScans ==
  ASSUME TypeOK, EncFollows, ~enc.first, enc.use_index => enc.index_found,
         rotor = "stuck", NEW theta, Apply(theta)
  PROVE  /\ Same(enc'.total - base, enc.total - base)
         /\ \A x \in Int : Moved(x) => Same(enc'.total - base, Dir(x))
<1>1. pos' = pos + 0 /\ pos' = pos
  BY StuckStays DEF TypeOK
<1>2. Same(enc'.total - base, enc.total - base)
  <2>1. enc.total \in Int /\ enc'.total \in Int /\ base \in Int /\ pos \in Int
    BY DEF TypeOK, EncFollows, Context
  <2>2. pos' - pos = 0
    BY <1>1, <2>1
  <2>3. enc.total + Dir(pos' - pos) = enc.total
    BY <2>1, <2>2 DEF Dir
  <2>4. Same(enc'.total, enc.total)
    BY <2>3 DEF EncFollows
  <2> QED
    BY <2>1, <2>4, SameSum DEF Same
<1> QED
  BY <1>2 DEF Moved, Same

\* The steps of the scans that the phase plugin gives up in.
LEMMA GivenUp ==
  ASSUME pc' = AfterPhase, rc'.phase = "ERROR"
  PROVE  ScanInv2'
BY DEF AfterPhase, ScanInv2, AlignSteady, PlusInv, BackInv, MinusInv

\* A step of the alignment that applies a vector, in a calibration whose
\* index was found or is not used.
Scanning ==
  /\ TypeOK /\ EncFollows /\ rc.phase = "none"
  /\ enc.use_index => enc.index_found

LEMMA ScansAre ==
  ASSUME Inv1, NEW theta, Apply(theta), pc \in Aligning, UNCHANGED fixed
  PROVE  EncFollows /\ (Referenced => Scanning)
<1>1. pc \notin After /\ rc.phase = "none"
  BY DEF Inv1, VoltageInv, Aligning, After
<1>2. EncFollows
  <2>1. /\ pos' \in Int
        /\ enc' = enc_abi_update(enc, Count(pos'), Index(pos'), 1)
    BY ApplyIs DEF Inv1
  <2> QED
    BY <1>1, <2>1, ApplyFollows DEF Inv1
<1>3. Referenced /\ enc.use_index => enc.index_found
  BY <1>1 DEF Inv1, EncInv, Referenced
<1> QED
  BY <1>1, <1>2, <1>3 DEF Scanning, Inv1

\* Outside the plugin.
LEMMA NotScanning ==
  ASSUME ScanInv2, pc' \notin {"plus", "back", "minus", "check", "align", "off"},
         pc' \in {"release", "base"} => i' = 0,
         Referenced' /\ rc'.phase = "OK" => Referenced /\ rc.phase = "OK",
         UNCHANGED <<pp, down, inverted>>, rotor' = rotor \/ rotor' = "stuck"
  PROVE  ScanInv2'
BY DEF ScanInv2, AlignSteady, PlusInv, BackInv, MinusInv, Earned

LEMMA BaseScans ==
  ASSUME Inv1, ScanInv2, AlignBase PROVE ScanInv2'
<1>1. /\ pc = "base" /\ Apply(Base) /\ base' = enc'.total /\ MechAngle("plus")
      /\ UNCHANGED <<rotor, fixed, i, inverted>> /\ i = 0 /\ TypeOK
  BY DEF AlignBase, outputs, ScanInv2, AlignSteady, Inv1
<1>2. EncFollows /\ (Referenced => Scanning)
  BY <1>1, ScansAre DEF Aligning
<1>3. \/ pc' = "plus" /\ rc'.phase = rc.phase
      \/ pc' = AfterPhase /\ rc'.phase = "ERROR"
  BY <1>1, MechAngleIs
<1>4. CASE pc' = "plus" /\ rc'.phase = rc.phase
  <2>1. rc.phase = "none"
    BY <1>1 DEF Inv1, VoltageInv, Aligning
  <2>2. AlignSteady'
    BY <1>1, <1>2, <1>4 DEF AlignSteady, EncFollows
  <2>3. Same(enc'.total - base', IF down' THEN -0 ELSE 0)
    <3>1. enc'.total - base' = 0
      BY <1>1, <1>2 DEF EncFollows, Context
    <3> QED
      BY <3>1 DEF Same
  <2>4. PlusInv'
    <3>1. i' = 0 /\ i' < ScanSteps
      BY <1>1, Motor
    <3>2. ASSUME rotor' = "free"
          PROVE  \E e \in Offsets : (pos' - 0 + e) % ElecTurn = Origin % ElecTurn
      <4>1. pos' \in Follow(PP * Origin)
        BY <1>1, <3>2, Motor DEF Apply
      <4>2. pos' \in Int /\ (\/ pos' % ElecTurn = Origin % ElecTurn
                             \/ (pos' - ElecHalf) % ElecTurn = Origin % ElecTurn)
        BY <1>1, <4>1, FollowAt, Motor DEF TypeOK
      <4>3. pos' \in Int /\ ElecHalf \in Int
        BY <4>2, Motor
      <4>4. ASSUME NEW p \in Int, NEW h \in Int PROVE p - 0 + 0 = p /\ p - 0 + (-h) = p - h
        OBVIOUS
      <4> QED
        BY <4>2, <4>3, <4>4 DEF Offsets
    <3> QED
      BY <1>4, <2>3, <3>1, <3>2 DEF PlusInv, Displaced, Moved, Dir, Same
  <2> QED
    BY <1>4, <2>1, <2>2, <2>4 DEF ScanInv2, BackInv, MinusInv
<1>5. CASE pc' = AfterPhase /\ rc'.phase = "ERROR"
  BY <1>5, GivenUp
<1> QED
  BY <1>3, <1>4, <1>5

LEMMA PlusScans ==
  ASSUME Inv1, ScanInv2, ScanPlus PROVE ScanInv2'
<1>1. /\ pc = "plus" /\ Apply(Base + (i + 1) * ScanStep) /\ UNCHANGED <<rotor, fixed, base, inverted>>
      /\ TypeOK /\ i \in Nat /\ ~enc.first /\ rc.phase = "none"
      /\ \/ i + 1 < ScanSteps /\ i' = i + 1 /\ Continue("plus")
         \/ i + 1 >= ScanSteps /\ i' = 0 /\ plus' = cal_wrap_pi(enc'.total - base)
            /\ MechAngle("back")
  BY Motor DEF ScanPlus, outputs, ScanInv2, AlignSteady, Inv1, TypeOK, VoltageInv, Aligning
<1>2. EncFollows /\ (Referenced => Scanning)
  BY <1>1, ScansAre DEF Aligning
<1>3. \/ i + 1 < ScanSteps /\ i' = i + 1 /\ pc' = "plus" /\ rc' = rc
      \/ /\ i + 1 >= ScanSteps /\ i' = 0 /\ plus' = cal_wrap_pi(enc'.total - base)
         /\ pc' = "back" /\ rc'.phase = rc.phase /\ rc'.encoder = rc.encoder
      \/ pc' = AfterPhase /\ rc'.phase = "ERROR"
  BY <1>1, MechAngleIs DEF Continue
<1>4. CASE pc' = AfterPhase /\ rc'.phase = "ERROR"
  BY <1>4, GivenUp
<1>5. ASSUME pc' \in {"plus", "back"}, rc'.encoder = rc.encoder, Referenced'
      PROVE  /\ i < ScanSteps
             /\ rotor = "free" => \E e \in Offsets :
                  /\ Same(enc'.total - base, Dir(e + (i + 1) * Step))
                  /\ (pos' - (e + (i + 1) * Step) + e) % ElecTurn = Origin % ElecTurn
             /\ rotor = "dragged" => Same(enc'.total - base, Dir(i + 1))
  <2>1. Referenced /\ Scanning /\ PlusInv
    BY <1>2, <1>5 DEF Referenced, EncFollows, ScanInv2
  <2>2. i < ScanSteps
    BY <1>1, <2>1 DEF PlusInv
  <2>3. ASSUME rotor = "free"
        PROVE \E e \in Offsets :
                  /\ Same(enc'.total - base, Dir(e + (i + 1) * Step))
                  /\ (pos' - (e + (i + 1) * Step) + e) % ElecTurn = Origin % ElecTurn
    <3> DEFINE X(e) == IF i = 0 THEN 0 ELSE e + i * Step
    <3>1. PICK e \in Offsets : Displaced(e, X(e))
      BY <1>1, <2>1, <2>3 DEF PlusInv
    <3> DEFINE x == X(e)
               n == (i + 1) * Step
               y == e + n - x
               a == Origin + n
    <3>2. /\ e \in {0, -ElecHalf} /\ Step \in Nat \ {0} /\ Origin \in Int
          /\ ElecHalf \in Nat /\ 2 * Travel < ElecHalf
          /\ n = i * Step + Step /\ i * Step \in 0 .. Travel /\ Step <= Travel
      <4>1. i \in 0 .. ScanSteps /\ 1 \in 0 .. ScanSteps /\ 1 * Step = Step
        BY <1>1, <2>2, Motor
      <4>2. n = i * Step + Step /\ i * Step \in 0 .. Travel /\ Step \in 0 .. Travel
        BY <4>1, Steps
      <4> QED
        BY <4>2, Motor DEF Offsets
    <3>3. Base + (i + 1) * ScanStep = PP * a
      BY <1>1, Motor
    <3>4. i = 0 => i * Step = 0
      BY <3>2
    <3>5. x \in Int /\ y \in Int /\ a \in Int /\ x - e + y = a - Origin
          /\ -ElecHalf < y /\ y < ElecHalf /\ x + y = e + n
      <4> DEFINE m == i * Step
      <4>1. m \in Int
        BY <3>2
      <4> HIDE DEF m
      <4>2. n = m + Step /\ m >= 0 /\ m <= Travel /\ (i = 0 => m = 0)
        BY <3>2, <3>4 DEF m
      <4>3. x = IF i = 0 THEN 0 ELSE e + m
        BY DEF m
      <4> HIDE DEF n, x
      <4> QED
        BY <1>1, <3>2, <4>1, <4>2, <4>3, Motor
    <3>6. /\ Same(enc'.total - base, Dir(x + y))
          /\ (pos' - (x + y) + e) % ElecTurn = Origin % ElecTurn
      <4>1. Displaced(e, x) /\ Apply(PP * a) /\ rotor = "free" /\ ~enc.first
        BY <1>1, <2>3, <3>1, <3>3
      <4> HIDE DEF x, y, a
      <4> QED
        BY <1>1, <1>2, <2>1, <3>5, <4>1, FreeScans DEF Scanning
    <3> HIDE DEF x, y, n
    <3>7. /\ Same(enc'.total - base, Dir(e + n))
          /\ (pos' - (e + n) + e) % ElecTurn = Origin % ElecTurn
      BY <3>5, <3>6
    <3> QED
      BY <3>7 DEF n
  <2>4. ASSUME rotor = "dragged" PROVE Same(enc'.total - base, Dir(i + 1))
    <3>1. Moved(i) /\ i \in Int /\ EncFollows /\ (enc.use_index => enc.index_found)
      BY <1>1, <2>1, <2>4 DEF PlusInv, Scanning
    <3> QED
      BY <1>1, <2>4, <3>1, DraggedScans
  <2> QED
    BY <2>2, <2>3, <2>4
<1>6. CASE i + 1 < ScanSteps /\ i' = i + 1 /\ pc' = "plus" /\ rc' = rc
  <2>1. AlignSteady'
    BY <1>2, <1>6 DEF AlignSteady, EncFollows
  <2>2. Referenced' => PlusInv'
    <3>1. i' # 0 /\ UNCHANGED <<rotor, base, down>>
      BY <1>1, <1>6 DEF fixed
    <3> QED
      BY <1>5, <1>6, <3>1 DEF PlusInv, Displaced, Moved, Dir, Same
  <2> QED
    BY <1>1, <1>6, <2>1, <2>2 DEF ScanInv2, BackInv, MinusInv
<1>7. CASE /\ i + 1 >= ScanSteps /\ i' = 0 /\ plus' = cal_wrap_pi(enc'.total - base)
           /\ pc' = "back" /\ rc'.phase = rc.phase /\ rc'.encoder = rc.encoder
  <2>1. AlignSteady'
    BY <1>2, <1>7 DEF AlignSteady, EncFollows
  <2>2. ASSUME Referenced' PROVE BackInv'
    <3>1. UNCHANGED <<rotor, base, down>> /\ enc'.total - base \in Int
      BY <1>1, <1>2 DEF fixed, EncFollows, Context, TypeOK
    <3>2. i + 1 = ScanSteps /\ (i + 1) * Step = Travel
      <4>1. i < ScanSteps
        BY <1>5, <1>7, <2>2
      <4>2. i + 1 = ScanSteps
        BY <1>1, <1>7, <4>1, Motor
      <4> QED
        BY <4>2 DEF Travel
    <3>3. rotor = "free" => \E e \in Offsets :
                  /\ Same(enc'.total - base, Dir(e + Travel))
                  /\ (pos' - (e + Travel) + e) % ElecTurn = Origin % ElecTurn
                  /\ plus' = cal_wrap_pi(Dir(e + Travel))
      <4>1. ASSUME NEW e \in Offsets, Same(enc'.total - base, Dir(e + Travel))
            PROVE  cal_wrap_pi(enc'.total - base) = cal_wrap_pi(Dir(e + Travel))
        BY <4>1 DEF cal_wrap_pi, Same
      <4> QED
        BY <1>5, <1>7, <2>2, <3>2, <4>1
    <3>4. rotor = "dragged" => Same(enc'.total - base, Dir(ScanSteps))
                               /\ plus' = cal_wrap_pi(Dir(ScanSteps))
      BY <1>5, <1>7, <2>2, <3>2 DEF Same, cal_wrap_pi
    <3> QED
      BY <1>7, <3>1, <3>3, <3>4 DEF BackInv, Displaced, Moved, PlusFrom, Dir, Same, cal_wrap_pi
  <2> QED
    BY <1>1, <1>7, <2>1, <2>2 DEF ScanInv2, PlusInv, MinusInv
<1> QED
  BY <1>3, <1>4, <1>6, <1>7

LEMMA BackScans ==
  ASSUME Inv1, ScanInv2, ReturnToBase PROVE ScanInv2'
<1>1. /\ pc = "back" /\ pc' = "minus" /\ Apply(Base) /\ rc' = rc
      /\ UNCHANGED <<rotor, fixed, i, base, plus, inverted>> /\ i = 0
      /\ TypeOK /\ ~enc.first /\ rc.phase = "none"
  BY DEF ReturnToBase, Continue, moves, outputs, ScanInv2, AlignSteady, Inv1, VoltageInv, Aligning
<1>2. EncFollows /\ (Referenced => Scanning)
  BY <1>1, ScansAre DEF Aligning
<1>3. AlignSteady'
  BY <1>1, <1>2 DEF AlignSteady, EncFollows
<1>4. ASSUME Referenced' PROVE MinusInv'
  <2>1. Referenced /\ Scanning /\ BackInv
    BY <1>1, <1>2, <1>4 DEF Referenced, EncFollows, ScanInv2
  <2>2. i < ScanSteps /\ 0 * Step = 0 /\ UNCHANGED <<rotor, base, down, i, plus>>
    BY <1>1, Motor DEF fixed
  <2>3. ASSUME rotor = "free"
        PROVE  \E e \in Offsets :
                 /\ Same(enc'.total - base, Dir(e - 0 * Step))
                 /\ (pos' - (e - 0 * Step) + e) % ElecTurn = Origin % ElecTurn
                 /\ PlusFrom(e)
    <3>1. PICK e \in Offsets : Displaced(e, e + Travel) /\ PlusFrom(e)
      BY <1>1, <2>1, <2>3 DEF BackInv
    <3> DEFINE x == e + Travel
               y == -Travel
    <3>2. e \in Int /\ x \in Int /\ y \in Int /\ Origin \in Int /\ x + y = e
          /\ x - e + y = Origin - Origin /\ -ElecHalf < y /\ y < ElecHalf
          /\ Base = PP * Origin
      BY Motor DEF Offsets
    <3>3. Displaced(e, x) /\ Apply(PP * Origin)
      BY <1>1, <3>1, <3>2
    <3> HIDE DEF x, y
    <3>4. /\ Same(enc'.total - base, Dir(x + y))
          /\ (pos' - (x + y) + e) % ElecTurn = Origin % ElecTurn
      BY <1>1, <2>1, <2>3, <3>2, <3>3, FreeScans DEF Scanning
    <3>5. e - 0 * Step = x + y
      BY <2>2, <3>2
    <3> QED
      BY <3>1, <3>4, <3>5
  <2>4. ASSUME rotor = "stuck" PROVE plus = cal_wrap_pi(enc'.total - base)
    <3>1. Same(enc'.total - base, enc.total - base)
      BY <1>1, <2>1, <2>4, StuckScans DEF Scanning
    <3> QED
      BY <1>1, <2>1, <2>4, <3>1 DEF BackInv, cal_wrap_pi, Same
  <2>5. ASSUME rotor = "dragged"
        PROVE  Same(enc'.total - base, Dir(ScanSteps + 1 + 0)) /\ plus = cal_wrap_pi(Dir(ScanSteps))
    <3>1. Moved(ScanSteps) /\ plus = cal_wrap_pi(Dir(ScanSteps)) /\ ScanSteps \in Int
      BY <1>1, <2>1, <2>5, Motor DEF BackInv
    <3>2. Same(enc'.total - base, Dir(ScanSteps + 1))
      BY <1>1, <2>1, <2>5, <3>1, DraggedScans DEF Scanning
    <3>3. ScanSteps + 1 + 0 = ScanSteps + 1
      BY <3>1
    <3> QED
      BY <3>1, <3>2, <3>3
  <2> QED
    BY <1>1, <2>2, <2>3, <2>4, <2>5
       DEF MinusInv, Displaced, Moved, PlusFrom, Dir, Same, cal_wrap_pi
<1> QED
  BY <1>1, <1>3, <1>4 DEF ScanInv2, PlusInv, BackInv

LEMMA MinusScans ==
  ASSUME Inv1, ScanInv2, ScanMinus PROVE ScanInv2'
<1>1. /\ pc = "minus" /\ Apply(Base - (i + 1) * ScanStep)
      /\ UNCHANGED <<rotor, fixed, base, plus, inverted>>
      /\ TypeOK /\ i \in Nat /\ ~enc.first /\ rc.phase = "none"
      /\ \/ i + 1 < ScanSteps /\ i' = i + 1 /\ Continue("minus")
         \/ i + 1 >= ScanSteps /\ i' = 0 /\ minus' = cal_wrap_pi(enc'.total - base)
            /\ MechAngle("check")
  BY Motor DEF ScanMinus, outputs, ScanInv2, AlignSteady, Inv1, TypeOK, VoltageInv, Aligning
<1>2. EncFollows /\ (Referenced => Scanning)
  BY <1>1, ScansAre DEF Aligning
<1>3. \/ i + 1 < ScanSteps /\ i' = i + 1 /\ pc' = "minus" /\ rc' = rc
      \/ /\ i + 1 >= ScanSteps /\ i' = 0 /\ minus' = cal_wrap_pi(enc'.total - base)
         /\ pc' = "check" /\ rc'.phase = rc.phase /\ rc'.encoder = rc.encoder
      \/ pc' = AfterPhase /\ rc'.phase = "ERROR"
  BY <1>1, MechAngleIs DEF Continue
<1>4. CASE pc' = AfterPhase /\ rc'.phase = "ERROR"
  BY <1>4, GivenUp
<1>5. ASSUME pc' \in {"minus", "check"}, rc'.encoder = rc.encoder, Referenced'
      PROVE  /\ i < ScanSteps
             /\ rotor = "free" => \E e \in Offsets :
                  /\ Same(enc'.total - base, Dir(e - (i + 1) * Step))
                  /\ (pos' - (e - (i + 1) * Step) + e) % ElecTurn = Origin % ElecTurn
                  /\ PlusFrom(e)
             /\ rotor = "stuck" =>
                  \/ plus = cal_wrap_pi(enc'.total - base)
                  \/ \E e \in Offsets, j \in 0 .. ScanSteps :
                       Same(enc'.total - base, Dir(e - j * Step)) /\ PlusFrom(e)
             /\ rotor = "dragged" =>
                  Same(enc'.total - base, Dir(ScanSteps + 1 + (i + 1)))
                  /\ plus = cal_wrap_pi(Dir(ScanSteps))
  <2>1. Referenced /\ Scanning /\ MinusInv
    BY <1>2, <1>5 DEF Referenced, EncFollows, ScanInv2
  <2>2. i < ScanSteps
    BY <1>1, <2>1 DEF MinusInv
  <2>3. ASSUME rotor = "free"
        PROVE  \E e \in Offsets :
                 /\ Same(enc'.total - base, Dir(e - (i + 1) * Step))
                 /\ (pos' - (e - (i + 1) * Step) + e) % ElecTurn = Origin % ElecTurn
                 /\ PlusFrom(e)
    <3>1. PICK e \in Offsets : Displaced(e, e - i * Step) /\ PlusFrom(e)
      BY <1>1, <2>1, <2>3 DEF MinusInv
    <3> DEFINE n == (i + 1) * Step
               x == e - i * Step
               y == -Step
               a == Origin - n
    <3>2. /\ e \in Int /\ Step \in Nat \ {0} /\ Origin \in Int
          /\ ElecHalf \in Nat /\ 2 * Travel < ElecHalf
          /\ n = i * Step + Step /\ i * Step \in 0 .. Travel /\ Step <= Travel
      <4>1. i \in 0 .. ScanSteps /\ 1 \in 0 .. ScanSteps /\ 1 * Step = Step
        BY <1>1, <2>2, Motor
      <4>2. n = i * Step + Step /\ i * Step \in 0 .. Travel /\ Step \in 0 .. Travel
        BY <4>1, Steps
      <4> QED
        BY <4>2, Motor DEF Offsets
    <3>3. Base - (i + 1) * ScanStep = PP * a
      BY <1>1, Motor
    <3>4. x \in Int /\ y \in Int /\ a \in Int /\ x - e + y = a - Origin
          /\ -ElecHalf < y /\ y < ElecHalf /\ x + y = e - n
      <4> DEFINE m == i * Step
      <4>1. m \in Int /\ n = m + Step /\ x = e - m
        BY <3>2
      <4> HIDE DEF m, n, x
      <4> QED
        BY <3>2, <4>1, Motor
    <3>5. /\ Same(enc'.total - base, Dir(x + y))
          /\ (pos' - (x + y) + e) % ElecTurn = Origin % ElecTurn
      <4>1. Displaced(e, x) /\ Apply(PP * a) /\ rotor = "free" /\ ~enc.first
        BY <1>1, <2>3, <3>1, <3>3
      <4> HIDE DEF x, y, a
      <4> QED
        BY <1>1, <1>2, <2>1, <3>4, <4>1, FreeScans DEF Scanning
    <3> HIDE DEF x, y, n
    <3>6. /\ Same(enc'.total - base, Dir(e - n))
          /\ (pos' - (e - n) + e) % ElecTurn = Origin % ElecTurn
      BY <3>4, <3>5
    <3> QED
      BY <3>1, <3>6 DEF n
  <2>4. ASSUME rotor = "stuck"
        PROVE  \/ plus = cal_wrap_pi(enc'.total - base)
               \/ \E e \in Offsets, j \in 0 .. ScanSteps :
                    Same(enc'.total - base, Dir(e - j * Step)) /\ PlusFrom(e)
    <3>1. Same(enc'.total - base, enc.total - base)
      BY <1>1, <2>1, <2>4, StuckScans DEF Scanning
    <3>2. \/ plus = cal_wrap_pi(enc.total - base)
          \/ \E e \in Offsets, j \in 0 .. ScanSteps : Moved(e - j * Step) /\ PlusFrom(e)
      BY <1>1, <2>1, <2>4 DEF MinusInv
    <3> QED
      BY <3>1, <3>2 DEF cal_wrap_pi, Same, Moved
  <2>5. ASSUME rotor = "dragged"
        PROVE  Same(enc'.total - base, Dir(ScanSteps + 1 + (i + 1)))
               /\ plus = cal_wrap_pi(Dir(ScanSteps))
    <3> DEFINE x == ScanSteps + 1 + i
    <3>1. Moved(x) /\ plus = cal_wrap_pi(Dir(ScanSteps)) /\ x \in Int
          /\ ScanSteps + 1 + (i + 1) = x + 1
      BY <1>1, <2>1, <2>5, Motor DEF MinusInv
    <3> HIDE DEF x
    <3>2. Same(enc'.total - base, Dir(x + 1))
      BY <1>1, <2>1, <2>5, <3>1, DraggedScans DEF Scanning
    <3> QED
      BY <3>1, <3>2
  <2> QED
    BY <2>2, <2>3, <2>4, <2>5
<1>6. CASE i + 1 < ScanSteps /\ i' = i + 1 /\ pc' = "minus" /\ rc' = rc
  <2>1. AlignSteady'
    BY <1>2, <1>6 DEF AlignSteady, EncFollows
  <2>2. Referenced' => MinusInv'
    <3>1. UNCHANGED <<rotor, base, down, plus>>
      BY <1>1, <1>6 DEF fixed
    <3> QED
      BY <1>5, <1>6, <3>1
         DEF MinusInv, Displaced, Moved, PlusFrom, Dir, Same, cal_wrap_pi
  <2> QED
    BY <1>1, <1>6, <2>1, <2>2 DEF ScanInv2, PlusInv, BackInv
<1>7. CASE /\ i + 1 >= ScanSteps /\ i' = 0 /\ minus' = cal_wrap_pi(enc'.total - base)
           /\ pc' = "check" /\ rc'.phase = rc.phase /\ rc'.encoder = rc.encoder
  <2>1. AlignSteady'
    BY <1>2, <1>7 DEF AlignSteady, EncFollows
  <2>2. ASSUME Referenced' PROVE Measured'
    <3>1. UNCHANGED <<rotor, base, down, plus>>
      BY <1>1 DEF fixed
    <3>2. i + 1 = ScanSteps /\ ScanSteps \in 0 .. ScanSteps
          /\ ScanSteps + 1 + (i + 1) = 2 * ScanSteps + 1
      <4>1. i < ScanSteps
        BY <1>5, <1>7, <2>2
      <4> QED
        BY <1>1, <1>7, <4>1, Motor
    <3>3. ASSUME NEW x, Same(enc'.total - base, Dir(x))
          PROVE  minus' = cal_wrap_pi(Dir(x))
      BY <1>7, <3>3 DEF cal_wrap_pi, Same
    <3>4. CASE rotor = "free"
      <4>1. PICK e \in Offsets :
              Same(enc'.total - base, Dir(e - ScanSteps * Step)) /\ PlusFrom(e)
        BY <1>5, <1>7, <2>2, <3>2, <3>4
      <4>2. minus' = cal_wrap_pi(Dir(e - ScanSteps * Step))
        BY <3>3, <4>1
      <4> QED
        BY <3>1, <3>2, <3>4, <4>1, <4>2 DEF Measured, PlusFrom, Dir, cal_wrap_pi
    <3>5. CASE rotor = "stuck"
      <4>1. \/ plus = minus'
            \/ \E e \in Offsets, j \in 0 .. ScanSteps :
                 minus' = cal_wrap_pi(Dir(e - j * Step)) /\ PlusFrom(e)
        BY <1>5, <1>7, <2>2, <3>3, <3>5
      <4> QED
        BY <3>1, <3>5, <4>1 DEF Measured, PlusFrom, Dir, cal_wrap_pi
    <3>6. CASE rotor = "dragged"
      <4>1. minus' = cal_wrap_pi(Dir(2 * ScanSteps + 1)) /\ plus = cal_wrap_pi(Dir(ScanSteps))
        BY <1>5, <1>7, <2>2, <3>2, <3>3, <3>6
      <4> QED
        BY <3>1, <4>1 DEF Measured, Dir, cal_wrap_pi
    <3> QED
      BY <1>1, <3>4, <3>5, <3>6 DEF TypeOK
  <2> QED
    BY <1>1, <1>7, <2>1, <2>2 DEF ScanInv2, PlusInv, BackInv, MinusInv
<1> QED
  BY <1>3, <1>4, <1>6, <1>7

LEMMA Judges ==
  ASSUME Inv1, ScanInv2, Judge PROVE ScanInv2'
<1>1. /\ pc = "check" /\ i' = i /\ i = 0 /\ rc.phase = "none" /\ TypeOK
      /\ UNCHANGED <<world, rotor, fixed>>
      /\ PhaseFails \/ (Followed /\ PolePairsFit /\ inverted' = (plus < 0) /\ Continue("align"))
  BY DEF Judge, ScanInv2, AlignSteady, Inv1, VoltageInv, Aligning
<1>2. CASE PhaseFails
  <2>1. pc' = AfterPhase /\ rc'.phase = "ERROR"
    BY <1>1, <1>2, ReturnIs DEF PhaseFails, Return, Result
  <2> QED
    BY <2>1, GivenUp
<1>3. CASE Followed /\ PolePairsFit /\ inverted' = (plus < 0) /\ Continue("align")
  <2>1. pc' = "align" /\ rc' = rc
    BY <1>3 DEF Continue
  <2>2. ASSUME Referenced PROVE Earned'
    <3>1. Measured
      BY <1>1, <2>2 DEF ScanInv2
    <3>2. WithinTol(pp, PP) /\ (plus < 0 <=> down) /\ rotor # "dragged"
      BY <1>1, <1>3, <3>1, JudgedRight
    <3>3. inverted' = down
      <4>1. down \in BOOLEAN /\ (plus < 0) \in BOOLEAN
        BY <1>1 DEF TypeOK
      <4> QED
        BY <1>3, <3>2, <4>1, Zenon
    <3> QED
      BY <1>1, <3>2, <3>3 DEF Earned, fixed, WithinTol
  <2>3. Referenced' => Referenced
    BY <1>1, <2>1 DEF Referenced, world
  <2> QED
    BY <1>1, <2>1, <2>2, <2>3 DEF ScanInv2, AlignSteady, PlusInv, BackInv, MinusInv
<1> QED
  BY <1>1, <1>2, <1>3

LEMMA ZeroScans ==
  ASSUME Inv1, ScanInv2, AlignZero PROVE ScanInv2'
<1>1. /\ pc = "align" /\ Apply(Base) /\ UNCHANGED <<rotor, fixed, inverted>> /\ TypeOK
      /\ rc.phase = "none" /\ (PhaseFails \/ Continue("off"))
  BY DEF AlignZero, Inv1, VoltageInv, Aligning
<1>2. EncFollows
  BY <1>1, ScansAre DEF Aligning
<1>3. CASE PhaseFails
  <2>1. pc' = AfterPhase /\ rc'.phase = "ERROR"
    BY <1>1, <1>3, ReturnIs DEF PhaseFails, Return, Result
  <2> QED
    BY <2>1, GivenUp
<1>4. CASE Continue("off")
  <2>1. pc' = "off" /\ rc' = rc
    BY <1>4 DEF Continue
  <2>2. Referenced' => Referenced
    BY <1>2, <2>1 DEF Referenced, EncFollows
  <2> QED
    BY <1>1, <2>1, <2>2
       DEF ScanInv2, AlignSteady, PlusInv, BackInv, MinusInv, Earned, WithinTol, fixed
<1> QED
  BY <1>1, <1>3, <1>4

LEMMA ReleaseScans ==
  ASSUME Inv1, ScanInv2, AlignRelease PROVE ScanInv2'
<1>1. /\ pc = "off" /\ pc' = AfterPhase /\ UNCHANGED <<rotor, fixed, inverted, enc>>
      /\ rc'.encoder = rc.encoder
  BY ReturnIs DEF AlignRelease, Release, Return, outputs, Inv1, Result
<1>2. Referenced' => Referenced
  BY <1>1 DEF Referenced
<1> QED
  BY <1>1, <1>2
     DEF ScanInv2, AlignSteady, PlusInv, BackInv, MinusInv, Earned, WithinTol, fixed, AfterPhase

LEMMA FreezeScans ==
  ASSUME Inv1, ScanInv2, Freeze PROVE ScanInv2'
<1>1. /\ rotor = "free" /\ rotor' = "stuck" /\ enc \in Context /\ base \in Int
      /\ UNCHANGED <<pos, enc, datum, down, pp, pc, i, base, plus, minus, inverted, rc>>
  BY DEF Freeze, world, fixed, moves, outputs, Inv1, TypeOK
<1>2. AlignSteady' /\ (Referenced' => Referenced)
  BY <1>1 DEF ScanInv2, AlignSteady, Referenced
<1>3. ASSUME Referenced PROVE PlusInv' /\ BackInv' /\ MinusInv'
  <2>1. PlusInv'
    BY <1>1, <1>3 DEF ScanInv2, PlusInv
  <2>2. BackInv'
    <3>1. ASSUME NEW e, Moved(e + Travel), PlusFrom(e)
          PROVE  plus = cal_wrap_pi(enc.total - base)
      BY <3>1 DEF Moved, PlusFrom, cal_wrap_pi, Same
    <3>2. pc = "back" => plus = cal_wrap_pi(enc.total - base)
      BY <1>1, <1>3, <3>1 DEF ScanInv2, BackInv, Displaced
    <3> QED
      BY <1>1, <3>2 DEF BackInv, cal_wrap_pi
  <2>3. MinusInv'
    <3>1. pc = "minus" =>
            /\ i < ScanSteps
            /\ \E e \in Offsets : Moved(e - i * Step) /\ PlusFrom(e)
      BY <1>1, <1>3 DEF ScanInv2, MinusInv, Displaced
    <3>2. pc = "minus" => i \in 0 .. ScanSteps
      BY <3>1, Motor DEF Inv1, TypeOK
    <3>3. pc = "minus" => \E e \in Offsets, j \in 0 .. ScanSteps :
                            Moved(e - j * Step) /\ PlusFrom(e)
      BY <3>1, <3>2
    <3> QED
      BY <1>1, <3>1, <3>3 DEF MinusInv, Moved, PlusFrom, Dir, Same, cal_wrap_pi
  <2> QED
    BY <2>1, <2>2, <2>3
<1>4. ASSUME Referenced, Measured PROVE Measured'
  BY <1>1, <1>4 DEF Measured, PlusFrom, Dir, cal_wrap_pi
<1> QED
  BY <1>1, <1>2, <1>3, <1>4 DEF ScanInv2, Earned, WithinTol

LEMMA OthersScan ==
  ASSUME Inv1, ScanInv2, find_index \/ ZeroVoltage \/ Backfill \/ Run PROVE ScanInv2'
<1>1. TypeOK /\ enc \in Context /\ (pc \in Searching => rc.phase = "none")
  BY DEF Inv1, TypeOK, VoltageInv
<1>2. CASE find_index
  <2>1. /\ pc \in Searching /\ rc'.phase = rc.phase
        /\ pc' \in {"find", "release", "base"} /\ (pc' \in {"release", "base"} => i' = 0)
        /\ UNCHANGED <<rotor, fixed, inverted>>
    BY <1>1, <1>2, ReturnIs
       DEF find_index, FindStep, FindRelease, Return, Continue, Result, Searching, outputs,
           ScanInv2, AlignSteady
  <2> QED
    BY <1>1, <2>1, NotScanning DEF fixed
<1>3. CASE ZeroVoltage
  <2>1. /\ pc' = "backfill" /\ rc'.phase = rc.phase /\ rc'.encoder = rc.encoder
        /\ UNCHANGED <<enc, rotor, fixed, inverted>>
    BY <1>1, <1>3, ReturnIs DEF ZeroVoltage, Release, Return, Result, outputs, world
  <2> QED
    BY <2>1, NotScanning DEF fixed, Referenced
<1>4. CASE Backfill
  <2>1. /\ pc' = "ready" /\ rc' = rc /\ enc'.use_index = enc.use_index
        /\ UNCHANGED <<rotor, fixed, inverted>>
    BY <1>1, <1>4 DEF Backfill, Continue, outputs, Context
  <2> QED
    BY <2>1, NotScanning DEF fixed, Referenced
<1>5. CASE Run
  <2>1. /\ pc' = "run" /\ rc' = rc /\ UNCHANGED <<rotor, fixed, inverted>>
        /\ pos' \in {pos - 1, pos + 1} /\ enc' = enc_abi_update(enc, Count(pos'), Index(pos'), 1)
    BY <1>5 DEF Run, Continue, outputs
  <2>2. Count(pos') \in Int /\ Index(pos') \in BOOLEAN
    BY <1>1, <2>1, CountSame DEF Index, TypeOK
  <2>3. enc'.use_index = enc.use_index
    BY <1>1, <2>1, <2>2, UpdateIs
  <2> QED
    BY <2>1, <2>3, NotScanning DEF fixed, Referenced
<1> QED
  BY <1>2, <1>3, <1>4, <1>5

LEMMA NextScanInv2 == Inv1 /\ ScanInv2 /\ [Next]_vars => ScanInv2'
<1> SUFFICES ASSUME Inv1, ScanInv2, [Next]_vars PROVE ScanInv2'
  OBVIOUS
<1>1. CASE align_phase
  BY <1>1, BaseScans, PlusScans, BackScans, MinusScans, Judges, ZeroScans, ReleaseScans
     DEF align_phase
<1>2. CASE find_index \/ ZeroVoltage \/ Backfill \/ Run
  BY <1>2, OthersScan
<1>3. CASE Freeze
  BY <1>3, FreezeScans
<1>4. CASE UNCHANGED vars
  <2>1. UNCHANGED <<pos, enc, rotor, down, pp, pc, i, base, plus, minus, inverted, rc>>
    BY <1>4 DEF vars, world, fixed, moves, outputs
  <2> QED
    BY <2>1 DEF ScanInv2, AlignSteady, PlusInv, BackInv, MinusInv, Measured, Earned, WithinTol,
                Referenced, Displaced, Moved, PlusFrom, Dir, Same, cal_wrap_pi
<1> QED
  BY <1>1, <1>2, <1>3, <1>4 DEF Next

LEMMA Invariant2 == Spec => [](Inv1 /\ ScanInv2)
<1>1. Init => ScanInv2
  BY DEF Init, ScanInv2, AlignSteady, PlusInv, BackInv, MinusInv
<1> QED
  BY <1>1, Invariant1, NextScanInv2, PTL DEF Spec

(* The phase alignment (cal_abi_align.c:57-129) ends with CAL_OK only with *)
(* pole pairs within the tolerance of the motor's, whatever the tolerance  *)
(* is, and with the encoder's direction, and never on a rotor that         *)
(* something drags, wherever the rotor was, whichever way it went from the *)
(* far side of the angle, and if it stopped following.                     *)
THEOREM SuccessIsEarned == Spec => []OkIsEarned
<1>1. ScanInv2 => OkIsEarned
  BY DEF ScanInv2, OkIsEarned, Earned
<1> QED
  BY <1>1, Invariant2, PTL
-----------------------------------------------------------------------------
(* The zero.  Where the total and the counter differ is steady from then   *)
(* on, and the zero makes up for it.                                       *)
ZeroRead == pc = "off" \/ (pc \in {"current", "backfill"} /\ rc.phase = "OK")

ReadInv ==
  ZeroRead =>
    /\ ~enc.first /\ ~enc.inverted /\ enc.last = Count(pos)
    /\ enc.use_index => enc.index_found /\ Same(enc.total, Dir(pos))
    /\ Same(pos * PP, encoder_zero + Dir(enc.total) * PP)

RunInv ==
  pc \in {"ready", "run"} /\ rc.phase = "OK" /\ (inverted => clean) =>
    /\ ~enc.first /\ enc.inverted = down
    /\ enc.use_index => enc.index_found /\ Same(enc.total - enc.last, datum)
    /\ Same((enc.total - enc.last - datum) * PP + zero, 0)
    /\ pc = "run" => Same(enc.last, pos - datum)

ZeroInv == Referenced /\ held /\ pp = PP => ReadInv /\ RunInv

\* In the letters: the total t, the last count l, the rotor's place p, the
\* datum d and the zero z.
LEMMA ZeroSuits ==
  ASSUME NEW t \in Int, NEW l \in Int, NEW p \in Int, NEW d \in Int, NEW z \in Int,
         Same(l, p - d), Same(p * PP, z + t * PP)
  PROVE  Same((t - l - d) * PP + z, 0) /\ (Same(t, p) => Same(t - l, d))
<1>1. PICK k \in Int : l = (p - d) + CPR * k
  BY SameIs
<1>2. PICK m \in Int : p * PP = (z + t * PP) + CPR * m
  <2>1. p * PP \in Int /\ z + t * PP \in Int
    BY Motor
  <2> QED
    BY <2>1, SameIs
<1>3. Same((t - l - d) * PP + z, 0)
  <2>1. t - l - d = t - p - CPR * k
    BY <1>1, Counts
  <2>2. (t - p - CPR * k) * PP = t * PP - p * PP - CPR * (k * PP)
    BY Counts, Motor
  <2>3. (t - l - d) * PP + z = 0 + CPR * (-m - k * PP) /\ -m - k * PP \in Int
    BY <1>2, <2>1, <2>2, Counts, Motor
  <2> DEFINE x == (t - l - d) * PP + z
             n == -m - k * PP
  <2>4. x \in Int
    BY Motor
  <2>5. x = 0 + CPR * n /\ n \in Int
    BY <2>3
  <2> HIDE DEF x, n
  <2>6. Same(x, 0)
    BY <2>4, <2>5, SameIs
  <2> QED
    BY <2>6 DEF x
<1>4. ASSUME Same(t, p) PROVE Same(t - l, d)
  <2>1. p - (p - d) = d
    OBVIOUS
  <2> QED
    BY <1>4, <2>1, SameSum
<1> QED
  BY <1>3, <1>4

LEMMA ZeroSuitsDown ==
  ASSUME NEW t \in Int, NEW l \in Int, NEW p \in Int, NEW d \in Int, NEW z \in Int,
         Same(l, d - p), Same(l - t, 0), Same(p * PP, z + (-t) * PP)
  PROVE  Same((t - l - d) * PP + z, 0) /\ (Same(t, -p) => Same(t - l, d))
<1>1. PICK k \in Int : l = (d - p) + CPR * k
  BY SameIs
<1>2. PICK m \in Int : p * PP = (z + (-t) * PP) + CPR * m
  <2>1. p * PP \in Int /\ z + (-t) * PP \in Int
    BY Motor
  <2> QED
    BY <2>1, SameIs
<1>3. PICK n \in Int : l - t = 0 + CPR * n
  BY SameIs
<1>4. Same((t - l - d) * PP + z, 0)
  <2>1. t - l - d = -d - CPR * n /\ t = d - p + CPR * k - CPR * n
    BY <1>1, <1>3, Counts
  <2>2. (-d - CPR * n) * PP = -(d * PP) - CPR * (n * PP)
    BY Counts, Motor
  <2>3. (-t) * PP = p * PP - d * PP - CPR * (k * PP) + CPR * (n * PP)
    BY <2>1, Counts, Motor
  <2>4. z = d * PP + CPR * (k * PP) - CPR * (n * PP) - CPR * m
    BY <1>2, <2>3, Counts, Motor
  <2> DEFINE x == (t - l - d) * PP + z
             q == k * PP - 2 * (n * PP) - m
  <2>5. x \in Int /\ q \in Int /\ x = 0 + CPR * q
    BY <2>1, <2>2, <2>4, Counts, Motor
  <2> HIDE DEF x, q
  <2>6. Same(x, 0)
    BY <2>5, SameIs
  <2> QED
    BY <2>6 DEF x
<1>5. ASSUME Same(t, -p) PROVE Same(t - l, d)
  <2>1. Same(0 - (l - t), 0 - 0)
    BY SameSum DEF Same
  <2>2. 0 - (l - t) = t - l /\ 0 - 0 = 0
    OBVIOUS
  <2>3. Same(l - t, (d - p) - (-p)) /\ (d - p) - (-p) = d
    BY <1>5, SameSum
  <2> QED
    BY <2>1, <2>2, <2>3 DEF Same
<1> QED
  BY <1>4, <1>5

LEMMA AngleReads ==
  ASSUME NEW t \in Int, NEW l \in Int, NEW p \in Int, NEW d \in Int, NEW z \in Int,
         Same((t - l - d) * PP + z, 0), Same(l, p - d)
  PROVE  Same(p * PP, t * PP + z)
<1>1. PICK k \in Int : (t - l - d) * PP + z = 0 + CPR * k
  <2>1. (t - l - d) * PP + z \in Int
    BY Motor
  <2> QED
    BY <2>1, SameIs
<1>2. PICK m \in Int : l = (p - d) + CPR * m
  BY SameIs
<1>3. t - l - d = t - p - CPR * m
  BY <1>2, Counts
<1>4. (t - p - CPR * m) * PP = t * PP - p * PP - CPR * (m * PP)
  BY Counts, Motor
<1> DEFINE n == -k - m * PP
           x == t * PP + z
           y == p * PP
<1>5. y = x + CPR * n /\ n \in Int /\ x \in Int /\ y \in Int
  BY <1>1, <1>3, <1>4, Counts, Motor
<1> HIDE DEF n, x, y
<1>6. Same(y, x)
  BY <1>5, SameIs
<1> QED
  BY <1>6 DEF x, y

LEMMA ZeroReadIs ==
  ASSUME Inv1, ScanInv2, ZeroInv, AlignZero PROVE ZeroInv'
<1>1. /\ pc = "align" /\ Apply(Base) /\ UNCHANGED <<fixed, inverted>> /\ TypeOK /\ EncInv
      /\ \/ PhaseFails /\ UNCHANGED held
         \/ encoder_zero' = ZeroFrom(enc'.total) /\ held' = At(Base, pos') /\ Continue("off")
  BY DEF AlignZero, Inv1
<1>2. EncFollows /\ (Referenced => Scanning) /\ pos' \in Int
  BY <1>1, ScansAre, ApplyIs DEF Aligning
<1>3. CASE PhaseFails /\ UNCHANGED held
  <2>1. pc' = AfterPhase /\ rc'.phase = "ERROR"
    BY <1>1, <1>3, ReturnIs DEF PhaseFails, Return, Result
  <2> QED
    BY <2>1 DEF ZeroInv, ReadInv, RunInv, ZeroRead, AfterPhase
<1>4. CASE encoder_zero' = ZeroFrom(enc'.total) /\ held' = At(Base, pos') /\ Continue("off")
  <2>1. pc' = "off" /\ rc' = rc
    BY <1>4 DEF Continue
  <2>2. SUFFICES ASSUME Referenced', held', pp = PP PROVE ReadInv' /\ RunInv'
    BY <1>1 DEF ZeroInv, fixed
  <2>3. Referenced /\ Scanning
    BY <1>2, <2>1, <2>2 DEF Referenced, EncFollows
  <2>4. pp = PP /\ inverted = down
    BY <1>1, <2>2, <2>3 DEF ScanInv2, Earned
  <2>5. ~enc'.first /\ ~enc'.inverted /\ enc'.last = Count(pos')
        /\ (enc'.use_index => enc'.index_found /\ Same(enc'.total, Dir(pos')))
    BY <1>1, <1>2, <2>3 DEF EncFollows, EncInv, Scanning, After
  <2>6. Same(pos' * PP, encoder_zero' + Dir(enc'.total) * PP)
    <3> DEFINE t == Dir(enc'.total)
               v == t * PP
    <3>1. enc'.total \in Int /\ t \in Int /\ v \in Int /\ Base \in Int
      <4>1. enc'.total \in Int /\ PP \in Int /\ Base \in Int
        BY <1>2, Motor, MotorAssumption DEF EncFollows, Context
      <4>2. t \in Int
        BY <4>1, DirIs
      <4> HIDE DEF t
      <4> QED
        BY <4>1, <4>2
    <3>2. encoder_zero' = Base - v
      BY <1>4, <2>4 DEF ZeroFrom, Dir
    <3>3. At(Base, pos')
      BY <1>4, <2>2
    <3> HIDE DEF t, v
    <3>4. (Base - v) + v = Base
      BY <3>1
    <3>5. Same(pos' * PP, encoder_zero' + v)
      BY <3>2, <3>3, <3>4 DEF At, Same
    <3> QED
      BY <3>5 DEF v, t
  <2> QED
    BY <1>1, <2>1, <2>5, <2>6 DEF ReadInv, RunInv, fixed, Count, Dir, Same
<1> QED
  BY <1>1, <1>3, <1>4

LEMMA BackfillIs ==
  ASSUME Inv1, ScanInv2, ZeroInv, Backfill PROVE ZeroInv'
<1>1. /\ pc = "backfill" /\ pc' = "ready" /\ rc' = rc /\ zero' = encoder_zero
      /\ enc' = [enc EXCEPT !.inverted = inverted] /\ TypeOK
      /\ clean' = ((enc.last - enc.total) % CPR = 0)
      /\ UNCHANGED <<pos, datum, down, pp, inverted, held>>
  BY DEF Backfill, Continue, fixed, outputs, Inv1
<1>2. SUFFICES ASSUME Referenced', held', pp = PP PROVE RunInv'
  BY <1>1 DEF ZeroInv, ReadInv, ZeroRead
<1>3. SUFFICES ASSUME rc.phase = "OK", inverted => clean'
      PROVE  /\ ~enc'.first /\ enc'.inverted = down
             /\ (enc'.use_index => enc'.index_found /\ Same(enc'.total - enc'.last, datum))
             /\ Same((enc'.total - enc'.last - datum) * PP + zero', 0)
  BY <1>1 DEF RunInv, Same
<1>4. /\ enc \in Context /\ enc'.first = enc.first /\ enc'.use_index = enc.use_index
      /\ enc'.index_found = enc.index_found /\ enc'.total = enc.total /\ enc'.last = enc.last
      /\ enc'.inverted = inverted
  BY <1>1 DEF TypeOK, Context
<1>5. Referenced /\ held /\ pp = PP
  BY <1>1, <1>2, <1>4 DEF Referenced
<1>6. inverted = down
  BY <1>3, <1>5 DEF ScanInv2, Earned
<1>7. /\ ~enc.first /\ enc.last = Count(pos)
      /\ (enc.use_index => enc.index_found /\ Same(enc.total, Dir(pos)))
      /\ Same(pos * PP, encoder_zero + Dir(enc.total) * PP)
  BY <1>1, <1>3, <1>5 DEF ZeroInv, ReadInv, ZeroRead
<1> DEFINE t == enc.total
           l == enc.last
<1>8. t \in Int /\ l \in Int /\ pos \in Int /\ datum \in Int /\ encoder_zero \in Int
  BY <1>1, <1>4 DEF TypeOK, Context
<1>9. Same(l, Dir(pos) - Dir(datum))
  BY <1>1, <1>7, <1>8, CountSame
<1>10. /\ Same((t - l - datum) * PP + encoder_zero, 0)
       /\ enc.use_index => Same(t - l, datum)
  <2>1. CASE ~down
    <3>1. Same(l, pos - datum) /\ Same(pos * PP, encoder_zero + t * PP)
          /\ (enc.use_index => Same(t, pos))
      BY <1>7, <1>9, <2>1 DEF Dir
    <3> HIDE DEF t, l
    <3> QED
      BY <1>8, <3>1, ZeroSuits
  <2>2. CASE down
    <3>1. Same(l, datum - pos)
      <4>1. Dir(pos) - Dir(datum) = datum - pos
        BY <1>8, <2>2 DEF Dir
      <4> QED
        BY <1>9, <4>1
    <3>2. Same(pos * PP, encoder_zero + (-t) * PP) /\ (enc.use_index => Same(t, -pos))
      BY <1>7, <2>2 DEF Dir
    <3>3. Same(l - t, 0)
      <4>1. 0 % CPR = 0
        BY Counts
      <4> QED
        BY <1>1, <1>3, <1>6, <2>2, <4>1 DEF Same
    <3> HIDE DEF t, l
    <3> QED
      BY <1>8, <3>1, <3>2, <3>3, ZeroSuitsDown
  <2> QED
    BY <2>1, <2>2
<1> QED
  BY <1>1, <1>4, <1>6, <1>7, <1>10

LEMMA RunIs ==
  ASSUME Inv1, ZeroInv, Run PROVE ZeroInv'
<1>1. /\ pc \in {"ready", "run"} /\ pc' = "run" /\ rc' = rc
      /\ pos' \in {pos - 1, pos + 1} /\ enc' = enc_abi_update(enc, Count(pos'), Index(pos'), 1)
      /\ TypeOK /\ UNCHANGED <<datum, down, pp, inverted, held, clean, zero>>
  BY DEF Run, Continue, fixed, outputs, history, Inv1
<1>2. SUFFICES ASSUME Referenced', held', pp = PP PROVE RunInv'
  BY <1>1 DEF ZeroInv, ReadInv, ZeroRead
<1>3. SUFFICES ASSUME rc.phase = "OK", inverted => clean
      PROVE  /\ ~enc'.first /\ enc'.inverted = down
             /\ (enc'.use_index => enc'.index_found /\ Same(enc'.total - enc'.last, datum))
             /\ Same((enc'.total - enc'.last - datum) * PP + zero, 0)
             /\ Same(enc'.last, pos' - datum)
  BY <1>1 DEF RunInv, Same
<1> DEFINE p == pos'
           count == Count(p)
           index == Index(p)
           now == Directed(enc, count)
           t == enc.total
           l == enc.last
<1>4. /\ enc \in Context /\ p \in Int /\ pos \in Int /\ datum \in Int /\ count \in Int
      /\ index \in BOOLEAN /\ t \in Int /\ l \in Int /\ zero \in Int /\ now \in Int
  <2>1. enc \in Context /\ p \in Int /\ pos \in Int /\ datum \in Int /\ zero \in Int
    BY <1>1 DEF TypeOK
  <2>2. count \in Int /\ index \in BOOLEAN
    BY <1>1, <2>1, CountSame DEF Index
  <2> QED
    BY <2>1, <2>2 DEF Directed, Context
<1>5. /\ enc'.use_index = enc.use_index /\ enc'.inverted = enc.inverted
      /\ enc'.last = now /\ enc'.first = FALSE
      /\ enc'.index_found = IF enc.use_index /\ index THEN TRUE ELSE enc.index_found
      /\ enc' \in Context
  <2> HIDE DEF index, count
  <2>1. enc' = enc_abi_update(enc, count, index, 1)
    BY <1>1 DEF index, count
  <2> QED
    BY <1>4, <2>1, UpdateIs
<1>6. Referenced /\ held /\ pp = PP
  BY <1>1, <1>2, <1>5 DEF Referenced
<1>7. /\ ~enc.first /\ enc.inverted = down
      /\ (enc.use_index => enc.index_found /\ Same(t - l, datum))
      /\ Same((t - l - datum) * PP + zero, 0)
  BY <1>1, <1>3, <1>6 DEF ZeroInv, RunInv
<1>8. Same(now, p - datum)
  <2>1. Same(count, Dir(p) - Dir(datum))
    BY <1>1, <1>4, CountSame
  <2>2. CASE ~down
    BY <1>7, <2>1, <2>2 DEF Dir, Directed
  <2>3. CASE down
    <3>1. now = -count
      BY <1>7, <2>3 DEF Directed
    <3>2. Dir(p) - Dir(datum) \in Int /\ -(Dir(p) - Dir(datum)) = p - datum
      BY <1>4, <2>3 DEF Dir
    <3> HIDE DEF now, count, p
    <3>3. Same(-count, -(Dir(p) - Dir(datum)))
      BY <1>4, <2>1, <3>2, SameSum
    <3> QED
      BY <3>1, <3>2, <3>3
  <2> QED
    BY <2>2, <2>3
<1>9. Same(enc'.total - enc'.last, t - l)
  <2> DEFINE m == (p - datum) - l
  <2>1. Same(now - l, m) /\ m \in Int
    <3> HIDE DEF now, p, l
    <3>1. p - datum \in Int
      BY <1>4
    <3>2. Same(now - l, (p - datum) - l)
      BY <1>4, <1>8, <3>1, SameShift
    <3> QED
      BY <1>4, <3>1, <3>2
  <2>2. ASSUME enc.use_index, index PROVE enc.index_found /\ Same(t + m, 0)
    <3>1. enc.index_found /\ Same(t - l, datum)
      BY <1>7, <2>2
    <3>2. Same(p, 0)
      <4>1. 0 % CPR = 0
        BY Counts
      <4> QED
        BY <2>2, <4>1 DEF Same, Index
    <3> HIDE DEF p, t, l
    <3>3. Same((t - l) + (p - datum), datum + (p - datum))
      BY <1>4, <3>1, SameSum DEF Same
    <3>4. (t - l) + (p - datum) = t + m /\ datum + (p - datum) = p
      BY <1>4
    <3> QED
      BY <3>1, <3>2, <3>3, <3>4 DEF Same
  <2>3. Same(enc'.total, t + m)
    <3> HIDE DEF index, count, m
    <3>1. enc' = enc_abi_update(enc, count, index, 1)
      BY <1>1 DEF index, count
    <3>2. Same(Directed(enc, count) - enc.last, m)
      BY <2>1
    <3>3. enc.use_index /\ index => enc.index_found /\ Same(enc.total + m, 0)
      BY <2>2
    <3> QED
      BY <1>4, <1>7, <2>1, <3>1, <3>2, <3>3, UpdateMoves
  <2>4. enc'.total \in Int
    BY <1>5 DEF Context
  <2> HIDE DEF p, now, t, l
  <2>5. Same(enc'.total - now, (t + m) - (p - datum))
    <3>1. t + m \in Int /\ p - datum \in Int /\ now \in Int
      BY <1>4, <2>1
    <3> HIDE DEF m
    <3> QED
      BY <1>8, <2>3, <2>4, <3>1, SameSum
  <2>6. (t + m) - (p - datum) = t - l
    BY <1>4
  <2> QED
    BY <1>5, <2>5, <2>6
<1>10. Same((enc'.total - enc'.last - datum) * PP + zero, 0)
  <2> DEFINE a == enc'.total - enc'.last
             b == t - l
             x == (a - datum) * PP
             y == (b - datum) * PP
  <2>1. a \in Int /\ b \in Int /\ a - datum \in Int /\ b - datum \in Int
        /\ x \in Int /\ y \in Int
    BY <1>4, <1>5, Motor DEF Context
  <2>2. Same(a, b)
    BY <1>9
  <2> HIDE DEF a, b
  <2>3. Same(a - datum, b - datum)
    <3>1. a \in Int /\ b \in Int /\ datum \in Int
      BY <1>4, <2>1
    <3> QED
      BY <2>2, <3>1, SameShift
  <2>4. Same(x, y)
    BY <2>1, <2>3, Motor, SameProduct
  <2>5. Same(y + zero, 0)
    BY <1>7 DEF b
  <2> HIDE DEF x, y
  <2>6. Same(x + zero, y + zero)
    <3>1. x \in Int /\ y \in Int /\ zero \in Int
      BY <1>4, <2>1
    <3> QED
      BY <2>4, <3>1, SameShift
  <2>7. Same(x + zero, 0)
    BY <2>5, <2>6 DEF Same
  <2> QED
    BY <2>7 DEF x, a
<1>11. enc'.use_index => enc'.index_found /\ Same(enc'.total - enc'.last, datum)
  BY <1>5, <1>7, <1>9 DEF Same
<1> QED
  BY <1>5, <1>7, <1>8, <1>10, <1>11

LEMMA OthersZero ==
  ASSUME Inv1, ScanInv2, ZeroInv, [Next]_vars, ~AlignZero, ~Backfill, ~Run
  PROVE  ZeroInv'
<1>1. TypeOK
  BY DEF Inv1
<1>2. CASE find_index \/ AlignBase \/ ScanPlus \/ ReturnToBase \/ ScanMinus \/ Judge
  <2>1. \/ pc' \in {"find", "release", "base", "plus", "back", "minus", "check", "align"}
        \/ pc' = AfterPhase /\ rc'.phase = "ERROR"
    BY <1>1, <1>2, ReturnIs
       DEF find_index, FindStep, FindRelease, AlignBase, ScanPlus, ReturnToBase, ScanMinus, Judge,
           MechAngle, PhaseFails, Continue, Return, Result
  <2> QED
    BY <2>1 DEF ZeroInv, ReadInv, RunInv, ZeroRead, AfterPhase
<1>3. CASE AlignRelease \/ ZeroVoltage
  <2>1. /\ UNCHANGED <<pos, enc, datum, down, pp, encoder_zero, held>> /\ rc'.encoder = rc.encoder
        /\ pc' \in {"current", "backfill"}
        /\ pc = "off" \/ (pc = "current" /\ rc'.phase = rc.phase)
    BY <1>1, <1>3, ReturnIs
       DEF AlignRelease, ZeroVoltage, Release, Return, Result, AfterPhase, fixed, outputs,
           history, world
  <2>2. Referenced' => Referenced
    BY <2>1 DEF Referenced
  <2> QED
    BY <2>1, <2>2 DEF ZeroInv, ReadInv, RunInv, ZeroRead, Count, Dir, Same
<1>4. CASE Freeze \/ UNCHANGED vars
  <2>1. UNCHANGED <<pos, enc, datum, down, pp, inverted, encoder_zero, zero, held, clean,
                    pc, rc>>
    BY <1>4 DEF Freeze, vars, world, fixed, outputs, history
  <2> QED
    BY <2>1 DEF ZeroInv, ReadInv, RunInv, ZeroRead, Referenced, Count, Dir, Same
<1> QED
  BY <1>2, <1>3, <1>4 DEF Next, align_phase

LEMMA Invariant3 == Spec => [](Inv1 /\ ScanInv2 /\ ZeroInv)
<1>1. Init => ZeroInv
  BY DEF Init, ZeroInv
<1>2. Inv1 /\ ScanInv2 /\ ZeroInv /\ [Next]_vars => ZeroInv'
  BY ZeroReadIs, BackfillIs, RunIs, OthersZero
<1> QED
  BY <1>1, <1>2, Invariant2, PTL DEF Spec

(* After a calibration that succeeded, on a rotor that was at the vector   *)
(* when the zero was read, the angle the motor is commutated with          *)
(* (foc_math.c:55-61) is the rotor's for ever, with the index or without   *)
(* it, and whatever pole pairs were configured, if the tolerance tells     *)
(* them apart, for the alignment then refuses wrong ones; for a counter    *)
(* wired to count down, if it agreed with the total when the board set     *)
(* inverted (cal_abi_align.h:18-19, enc_abi.c:60-70).                      *)
THEOREM CommutatesRight == Spec => []AngleIsRight
<1>1. ASSUME Inv1, ScanInv2, ZeroInv PROVE AngleIsRight
  <2> SUFFICES ASSUME Calibrated, inverted => clean PROVE At(ElectricalAngle, pos)
    BY DEF AngleIsRight
  <2>1. pc = "run" /\ rc.phase = "OK" /\ held /\ Referenced
    BY DEF Calibrated
  <2>2. pp = PP
    <3>1. pp \in Nat /\ WithinTol(pp, PP)
      BY <1>1, <2>1, Motor DEF ScanInv2, Earned, Inv1, TypeOK
    <3> QED
      BY <3>1, NearIsExact DEF Calibrated
  <2>3. /\ enc.total \in Int /\ enc.last \in Int /\ pos \in Int /\ datum \in Int /\ zero \in Int
    BY <1>1 DEF Inv1, TypeOK, Context
  <2>4. /\ Same((enc.total - enc.last - datum) * PP + zero, 0)
        /\ Same(enc.last, pos - datum)
    BY <1>1, <2>1, <2>2 DEF ZeroInv, RunInv
  <2>5. Same(pos * PP, enc.total * PP + zero)
    BY <2>3, <2>4, AngleReads
  <2>6. enc.total * PP + zero \in Int
    BY <2>3, Motor
  <2>7. Same((enc.total * PP + zero) % CPR, enc.total * PP + zero)
    BY <2>6, CountIs
  <2> QED
    BY <2>2, <2>5, <2>7 DEF At, ElectricalAngle, Same
<1> QED
  BY <1>1, Invariant3, PTL

-----------------------------------------------------------------------------
(* Floats: how far apart they are, and what rounding does.                 *)
LEMMA Angles ==
  /\ Quarter \in Nat /\ Precision \in Nat /\ 2 < Quarter /\ Quarter < Precision
  /\ Pi = 2 * Quarter /\ TwoPi = 4 * Quarter
BY FloatAssumption DEF Pi, TwoPi

LEMMA GapsAre ==
  /\ 1 \in Gaps /\ 2 \in Gaps /\ 4 \in Gaps /\ 8 \in Gaps
  /\ \A g \in Gaps : g \in Nat \ {0} /\ (g # 1 => \E h \in Gaps : g = 2 * h)
  /\ \A g, h \in Gaps : g < h => 2 * g <= h
BY FloatAssumption

LEMMA AbsIs == \A x \in Int : Abs(x) \in Nat /\ -Abs(x) <= x /\ x <= Abs(x)
BY DEF Abs

LEMMA LeastOf ==
  ASSUME NEW T \in SUBSET Nat, T # {}
  PROVE  \E m \in T : \A k \in T : m <= k
<1> DEFINE R == OpToRel(<, Nat)
<1>1. IsWellFoundedOn(R, Nat)
  BY NatLessThanWellFounded
<1>2. \A x, y \in Nat : x < y => <<x, y>> \in R
  BY DEF OpToRel
<1> HIDE DEF R
<1>3. PICK m \in T : \A y \in T : ~(<<y, m>> \in R)
  BY <1>1, WFMin
<1>4. ASSUME NEW k \in T PROVE m <= k
  <2>1. m \in Nat /\ k \in Nat
    OBVIOUS
  <2>2. ~(k < m)
    BY <1>2, <1>3, <2>1
  <2> QED
    BY <2>1, <2>2
<1> QED
  BY <1>4

LEMMA GapIs ==
  ASSUME NEW x \in Int, InRange(x)
  PROVE  /\ Gap(x) \in Gaps /\ Gap(x) \in Nat \ {0}
         /\ Abs(x) < Precision * Gap(x)
         /\ Gap(x) = 1 \/ Precision * Gap(x) <= 2 * Abs(x)
<1> DEFINE T == {g \in Gaps : Abs(x) < Precision * g}
<1>1. T # {} /\ T \in SUBSET Nat
  BY GapsAre DEF InRange
<1>2. PICK g \in T : \A k \in T : g <= k
  BY <1>1, LeastOf
<1>3. g = 1 \/ Precision * g <= 2 * Abs(x)
  <2>1. CASE g # 1
    <3>1. PICK h \in Gaps : g = 2 * h
      BY <2>1, GapsAre
    <3>2. h \in Nat \ {0} /\ Precision \in Nat /\ Abs(x) \in Nat
      BY GapsAre, Angles, AbsIs
    <3>3. h \notin T
      BY <1>2, <3>1, <3>2
    <3>4. Precision * h <= Abs(x)
      BY <3>2, <3>3
    <3>5. Precision * g = 2 * (Precision * h)
      BY <3>1, <3>2
    <3> QED
      BY <3>2, <3>4, <3>5
  <2> QED
    BY <2>1
<1>4. g \in Gaps /\ Abs(x) < Precision * g
  BY <1>2
<1> QED
  BY <1>3, <1>4, GapsAre DEF Gap

\* Below a bound that is in range.
LEMMA GapUpTo ==
  ASSUME NEW x \in Int, NEW h \in Gaps, Abs(x) < Precision * h
  PROVE  InRange(x) /\ Gap(x) <= h
<1>1. InRange(x)
  BY DEF InRange
<1> DEFINE g == Gap(x)
<1>2. /\ g \in Gaps /\ g \in Nat \ {0}
      /\ g = 1 \/ Precision * g <= 2 * Abs(x)
  BY <1>1, GapIs
<1>3. h \in Nat \ {0} /\ Precision \in Nat /\ Abs(x) \in Nat
  BY GapsAre, Angles, AbsIs
<1> HIDE DEF g
<1>4. ~(h < g)
  <2> SUFFICES ASSUME h < g PROVE FALSE
    OBVIOUS
  <2>1. 2 * h <= g /\ g # 1
    BY <1>2, <1>3, GapsAre
  <2>2. Precision * (2 * h) <= Precision * g
    BY <1>2, <1>3, <2>1
  <2>3. Precision * (2 * h) = 2 * (Precision * h) /\ Precision * h \in Int /\ Precision * g \in Int
    BY <1>2, <1>3
  <2> QED
    BY <1>2, <1>3, <2>1, <2>2, <2>3
<1> QED
  BY <1>1, <1>2, <1>3, <1>4 DEF g

LEMMA GapGrows ==
  ASSUME NEW x \in Int, NEW y \in Int, InRange(y), Abs(x) <= Abs(y)
  PROVE  InRange(x) /\ Gap(x) <= Gap(y)
<1>1. /\ Gap(y) \in Gaps /\ Gap(y) \in Nat
      /\ Abs(y) < Precision * Gap(y)
  BY GapIs
<1>2. Abs(x) \in Int /\ Abs(y) \in Int /\ Precision \in Int
  BY AbsIs, Angles
<1>3. Precision * Gap(y) \in Int
  BY <1>1, <1>2
<1>4. Abs(x) < Precision * Gap(y)
  BY <1>1, <1>2, <1>3
<1> QED
  BY <1>1, <1>4, GapUpTo

\* Up to Precision every number is a float, from there up to twice as much
\* every even one.
LEMMA GapOne ==
  ASSUME NEW x \in Int, Abs(x) < Precision
  PROVE  InRange(x) /\ Gap(x) = 1
<1>1. Precision * 1 = Precision
  BY Angles
<1>2. InRange(x) /\ Gap(x) <= 1
  BY <1>1, GapsAre, GapUpTo
<1> QED
  BY <1>2, GapIs

LEMMA GapTwo ==
  ASSUME NEW x \in Int, Precision <= Abs(x), Abs(x) < 2 * Precision
  PROVE  InRange(x) /\ Gap(x) = 2
<1>1. InRange(x) /\ Gap(x) <= 2
  BY Angles, GapsAre, GapUpTo
<1>2. Gap(x) \in Nat \ {0} /\ Abs(x) < Precision * Gap(x) /\ Abs(x) \in Nat
  BY <1>1, GapIs, AbsIs
<1>3. Gap(x) # 1
  BY <1>2, Angles
<1> QED
  BY <1>1, <1>2, <1>3

\* What rounding does: it moves by half a gap, to a multiple of the gap, and
\* such a multiple not at all.
LEMMA ErrIs ==
  ASSUME NEW x \in Int, InRange(x)
  PROVE  Err(x) \in Nat /\ 2 * Err(x) <= Gap(x) /\ Gap(x) <= 2 * Err(x) + 1
BY GapIs DEF Err

LEMMA ErrGrows ==
  ASSUME NEW x \in Int, NEW y \in Int, InRange(y), Abs(x) <= Abs(y)
  PROVE  InRange(x) /\ Err(x) \in Nat /\ Err(x) <= Err(y)
<1>1. InRange(x) /\ Gap(x) <= Gap(y)
  BY GapGrows
<1>2. Gap(x) \in Nat /\ Gap(y) \in Nat
  BY <1>1, GapIs
<1>3. Gap(x) \div 2 <= Gap(y) \div 2 /\ Gap(x) \div 2 \in Nat
  BY <1>1, <1>2
<1> QED
  BY <1>1, <1>3 DEF Err

LEMMA FloatIs ==
  ASSUME NEW x \in Int, InRange(x)
  PROVE  /\ Float(x) \in Int
         /\ Float(x) - x <= Err(x) /\ x - Float(x) <= Err(x)
         /\ \E k \in Int : Float(x) = k * Gap(x)
<1> DEFINE g == Gap(x)  n == x \div g  r == x % g  e == Err(x)
<1>1. g \in Nat \ {0} /\ g \in Gaps
  BY GapIs
<1>2. g = 1 \/ \E h \in Nat : g = 2 * h
  BY <1>1, GapsAre
<1>3. e \in Nat /\ (g = 1 \/ g = 2 * e)
  BY <1>1, <1>2 DEF Err
<1>4. r \in 0 .. g - 1 /\ n \in Int /\ x = g * n + r
  BY <1>1, Modulo
<1>5. Float(x) = IF 2 * r < g \/ (2 * r = g /\ n % 2 = 0) THEN n * g ELSE (n + 1) * g
  BY DEF Float
<1> HIDE DEF g, n, r, e
<1>6. n * g \in Int /\ (n + 1) * g = n * g + g /\ n * g = g * n /\ n + 1 \in Int
  BY <1>1, <1>4
<1>7. CASE 2 * r < g \/ (2 * r = g /\ n % 2 = 0)
  <2>1. Float(x) = n * g
    BY <1>5, <1>7
  <2>2. r <= e
    BY <1>1, <1>3, <1>4, <1>7
  <2> DEFINE p == n * g
  <2>3. p \in Int /\ x = p + r /\ r \in Int
    BY <1>4, <1>6, <1>1
  <2> HIDE DEF p
  <2>4. p - x <= e /\ x - p <= e
    BY <1>3, <2>2, <2>3, <1>4, <1>1
  <2>5. Float(x) = p /\ \E k \in Int : p = k * g
    BY <2>1, <1>4 DEF p
  <2> QED
    BY <2>3, <2>4, <2>5 DEF e, g
<1>8. CASE ~(2 * r < g \/ (2 * r = g /\ n % 2 = 0))
  <2>1. Float(x) = (n + 1) * g
    BY <1>5, <1>8
  <2>2. g - r <= e /\ r < g
    BY <1>1, <1>3, <1>4, <1>8
  <2> DEFINE p == (n + 1) * g
  <2>3. p \in Int /\ x = (p - g) + r /\ r \in Int
    <3>1. p = n * g + g
      BY <1>6
    <3> HIDE DEF p
    <3> DEFINE q == n * g
    <3>2. q \in Int /\ x = q + r /\ p = q + g
      BY <1>4, <1>6, <3>1
    <3> HIDE DEF q
    <3> QED
      BY <1>1, <1>4, <3>2
  <2> HIDE DEF p
  <2>4. p - x <= e /\ x - p <= e
    BY <1>1, <1>3, <2>2, <2>3
  <2>5. Float(x) = p /\ \E k \in Int : p = k * g
    BY <2>1, <1>6 DEF p
  <2> QED
    BY <2>3, <2>4, <2>5 DEF e, g
<1> QED
  BY <1>7, <1>8

LEMMA FloatSame ==
  ASSUME NEW x \in Int, InRange(x), NEW k \in Int, x = k * Gap(x)
  PROVE  Float(x) = x
<1> DEFINE g == Gap(x)
<1>1. g \in Nat \ {0} /\ x = g * k + 0 /\ x = k * g
  BY GapIs
<1>2. x % g = 0 /\ x \div g = k
  <2> HIDE DEF g
  <2> QED
    BY <1>1
<1>3. Float(x) = (x \div g) * g
  BY <1>1, <1>2 DEF Float
<1> QED
  BY <1>1, <1>2, <1>3

LEMMA FloatSmall ==
  ASSUME NEW x \in Int, Abs(x) < Precision
  PROVE  Float(x) = x /\ Err(x) = 0 /\ InRange(x)
<1>1. InRange(x) /\ Gap(x) = 1 /\ x = x * 1
  BY GapOne
<1> QED
  BY <1>1, FloatSame DEF Err

LEMMA FloatEven ==
  ASSUME NEW x \in Int, Abs(x) < 2 * Precision, NEW h \in Int, x = 2 * h
  PROVE  Float(x) = x /\ InRange(x)
<1>1. CASE Abs(x) < Precision
  BY <1>1, FloatSmall
<1>2. CASE ~(Abs(x) < Precision)
  <2>1. InRange(x) /\ Gap(x) = 2 /\ x = h * 2
    BY <1>2, Angles, AbsIs, GapTwo
  <2> QED
    BY <2>1, FloatSame
<1> QED
  BY <1>1, <1>2

-----------------------------------------------------------------------------
(* The wrap.                                                               *)
LEMMA TruncatedIs ==
  ASSUME NEW a \in Int
  PROVE  /\ Truncated(a) \in Int /\ Truncated(a) * TwoPi \in Int
         /\ a - Truncated(a) * TwoPi < TwoPi /\ Truncated(a) * TwoPi - a < TwoPi
         /\ Abs(Truncated(a) * TwoPi) <= Abs(a)
<1> DEFINE T == TwoPi
<1>1. T \in Nat \ {0}
  BY Angles
<1>2. CASE a < 0
  <2> DEFINE q == (-a) \div T  r == (-a) % T
  <2>1. r \in 0 .. T - 1 /\ q \in Int /\ -a = T * q + r
    <3>1. -a \in Int
      OBVIOUS
    <3> HIDE DEF T
    <3> QED
      BY <1>1, <3>1, Modulo
  <2>2. Truncated(a) = -q
    BY <1>2 DEF Truncated
  <2> HIDE DEF q, r, T
  <2>3. (-q) * T = -(T * q) /\ T * q \in Int
    BY <1>1, <2>1
  <2>4. T * q >= 0
    <3>1. CASE q < 0
      <4>1. T * q <= -T
        BY <1>1, <2>1, <3>1
      <4> QED
        BY <1>1, <1>2, <2>1, <2>3, <4>1
    <3>2. CASE q >= 0
      BY <1>1, <2>1, <3>2
    <3> QED
      BY <2>1, <3>1, <3>2
  <2> DEFINE p == T * q
  <2>5. p \in Int /\ p >= 0 /\ -a = p + r /\ (-q) * T = -p
    BY <2>1, <2>3, <2>4
  <2> HIDE DEF p
  <2>6. /\ a - (-p) < T /\ (-p) - a < T
        /\ Abs(-p) <= Abs(a) /\ -p \in Int
    BY <1>1, <1>2, <2>1, <2>5 DEF Abs
  <2> QED
    BY <2>1, <2>2, <2>5, <2>6 DEF T
<1>3. CASE ~(a < 0)
  <2> DEFINE q == a \div T  r == a % T
  <2>1. r \in 0 .. T - 1 /\ q \in Int /\ a = T * q + r
    BY <1>1, Modulo
  <2>2. Truncated(a) = q
    BY <1>3 DEF Truncated
  <2> HIDE DEF q, r, T
  <2>3. q * T = T * q /\ T * q \in Int
    BY <1>1, <2>1
  <2>4. T * q >= 0
    <3>1. CASE q < 0
      <4>1. T * q <= -T
        BY <1>1, <2>1, <3>1
      <4> QED
        BY <1>1, <1>3, <2>1, <2>3, <4>1
    <3>2. CASE q >= 0
      BY <1>1, <2>1, <3>2
    <3> QED
      BY <2>1, <3>1, <3>2
  <2> DEFINE p == T * q
  <2>5. p \in Int /\ p >= 0 /\ a = p + r /\ q * T = p
    BY <2>1, <2>3, <2>4
  <2> HIDE DEF p
  <2>6. /\ a - p < T /\ p - a < T
        /\ Abs(p) <= Abs(a)
    BY <1>1, <1>3, <2>1, <2>5 DEF Abs
  <2> QED
    BY <2>1, <2>2, <2>5, <2>6 DEF T
<1> QED
  BY <1>2, <1>3

\* A float of 2 pi's size that is less than half a turn away from a whole turn.
LEMMA HalfTurn ==
  ASSUME NEW x \in Int, -Pi <= x, x <= Pi,
         Precision <= Abs(x) => \E h \in Int : x = 2 * h
  PROVE  Float(x) = x /\ InRange(x)
<1>1. Abs(x) < 2 * Precision /\ Abs(x) \in Int
  BY Angles, AbsIs DEF Abs
<1>2. CASE Precision <= Abs(x)
  BY <1>1, <1>2, FloatEven
<1>3. CASE ~(Precision <= Abs(x))
  BY <1>1, <1>3, Angles, FloatSmall
<1> QED
  BY <1>2, <1>3

\* Below 2 pi and to both sides of it.
LEMMA ShortFloat ==
  ASSUME NEW x \in Int, InRange(x), Precision <= Abs(Float(x))
  PROVE  \E h \in Int : Float(x) = 2 * h
<1>1. /\ Gap(x) \in Gaps
      /\ \E k \in Int : Float(x) = k * Gap(x)
  BY GapIs, FloatIs
<1>2. Gap(x) # 1
  <2> SUFFICES ASSUME Gap(x) = 1 PROVE FALSE
    OBVIOUS
  <2>1. x * 1 = x
    OBVIOUS
  <2>2. Float(x) = x
    BY <2>1, FloatSame
  <2>3. Abs(x) < Precision * 1
    BY GapIs
  <2> QED
    BY <2>2, <2>3, Angles, AbsIs
<1>3. PICK g \in Gaps : Gap(x) = 2 * g
  BY <1>1, <1>2, GapsAre
<1>4. PICK k \in Int : Float(x) = k * Gap(x)
  BY <1>1
<1>5. g \in Int /\ k * (2 * g) = 2 * (k * g) /\ k * g \in Int
  BY GapsAre
<1> QED
  BY <1>3, <1>4, <1>5

LEMMA UnwoundIs ==
  ASSUME NEW a \in Int, InRange(a), InRange(Abs(a) + 2 * Gap(a)),
         2 * Gap(a) + WrapErr(a) < Pi, NEW n \in WholeTurns(a)
  PROVE  /\ n \in Int /\ n * TwoPi \in Int
         /\ Unwound(a, n) \in Int
         /\ Unwound(a, n) - (a - n * TwoPi) <= WrapErr(a)
         /\ (a - n * TwoPi) - Unwound(a, n) <= WrapErr(a)
         /\ Unwound(a, n) < TwoPi + Pi /\ -(TwoPi + Pi) < Unwound(a, n)
         /\ Precision <= Abs(Unwound(a, n)) => \E h \in Int : Unwound(a, n) = 2 * h
         /\ WrapErr(a) \in Nat
<1> DEFINE G == Gap(a)  E1 == Err(Abs(a) + 2 * G)  E2 == Err(2 * TwoPi)
<1>1. G \in Nat /\ Abs(a) \in Nat /\ Abs(a) + 2 * G \in Int /\ 2 * TwoPi \in Int
  BY GapIs, AbsIs, Angles
<1>2. InRange(2 * TwoPi)
  <2>1. Abs(2 * TwoPi) = 8 * Quarter /\ 8 * Quarter < Precision * 8
    BY Angles DEF Abs
  <2> QED
    BY <1>1, <2>1, GapsAre, GapUpTo
<1>3. E1 \in Nat /\ E2 \in Nat /\ WrapErr(a) = E1 + E2
  BY <1>1, <1>2, ErrIs DEF WrapErr
<1>4. PICK e \in -2 .. 2 : n = Truncated(a + e * G)
  BY DEF WholeTurns
<1> DEFINE c == a + e * G  m == n * TwoPi  d == a - Float(m)
<1>5. /\ c \in Int /\ c - a <= 2 * G /\ a - c <= 2 * G
  <2>1. e = -2 \/ e = -1 \/ e = 0 \/ e = 1 \/ e = 2
    OBVIOUS
  <2> HIDE DEF G
  <2> QED
    BY <1>1, <2>1
<1>6. /\ n \in Int /\ m \in Int /\ c - m < TwoPi /\ m - c < TwoPi
      /\ Abs(m) <= Abs(c)
  BY <1>4, <1>5, TruncatedIs
<1>7. InRange(m) /\ Err(m) <= E1 /\ Err(m) \in Nat
  <2> DEFINE y == Abs(a) + 2 * G
  <2>1. y \in Int /\ Abs(c) <= y /\ Abs(y) = y
    <3> HIDE DEF G, c
    <3> QED
      BY <1>1, <1>5 DEF Abs
  <2>2. Abs(m) \in Int /\ Abs(c) \in Int
    BY <1>5, <1>6, AbsIs
  <2> HIDE DEF y, m, c
  <2>3. Abs(m) <= Abs(y) /\ m \in Int
    BY <1>6, <2>1, <2>2
  <2>4. InRange(y)
    BY DEF y
  <2>5. InRange(m) /\ Err(m) <= Err(y) /\ Err(m) \in Nat
    BY <2>1, <2>3, <2>4, ErrGrows
  <2> QED
    BY <2>5 DEF y
<1>8. /\ Float(m) \in Int /\ Float(m) - m <= E1 /\ m - Float(m) <= E1
  <2>1. Float(m) \in Int /\ Float(m) - m <= Err(m) /\ m - Float(m) <= Err(m)
    BY <1>6, <1>7, FloatIs
  <2> HIDE DEF m, E1
  <2> QED
    BY <1>3, <1>6, <1>7, <2>1
<1>9. /\ d \in Int /\ d < TwoPi + Pi - E2 /\ -(TwoPi + Pi - E2) < d
      /\ d - (a - m) <= E1 /\ (a - m) - d <= E1
  <2> DEFINE f == Float(m)
  <2>1. d = a - f /\ f \in Int /\ f - m <= E1 /\ m - f <= E1
    BY <1>8
  <2>2. 2 * G + E1 + E2 < Pi
    BY <1>1, <1>3
  <2> HIDE DEF f, m, c, G, E1, E2, d
  <2> QED
    BY <1>1, <1>3, <1>5, <1>6, <2>1, <2>2, Angles
<1>10. InRange(d) /\ Err(d) <= E2 /\ Err(d) \in Nat
  <2> HIDE DEF d
  <2>1. Abs(d) <= Abs(2 * TwoPi)
    BY <1>3, <1>9, Angles DEF Abs
  <2> QED
    BY <1>1, <1>2, <1>9, <2>1, ErrGrows
<1>11. Unwound(a, n) = Float(d)
  BY DEF Unwound
<1>12. /\ Float(d) \in Int /\ Float(d) - d <= E2 /\ d - Float(d) <= E2
  <2>1. Float(d) \in Int /\ Float(d) - d <= Err(d) /\ d - Float(d) <= Err(d)
    BY <1>9, <1>10, FloatIs
  <2> HIDE DEF d, E2
  <2> QED
    BY <1>3, <1>9, <1>10, <2>1
<1>13. Precision <= Abs(Float(d)) => \E h \in Int : Float(d) = 2 * h
  BY <1>9, <1>10, ShortFloat
<1>14. /\ Float(d) - (a - m) <= E1 + E2 /\ (a - m) - Float(d) <= E1 + E2
       /\ Float(d) < TwoPi + Pi /\ -(TwoPi + Pi) < Float(d)
  <2> DEFINE b == Float(d)
  <2>1. b \in Int /\ b - d <= E2 /\ d - b <= E2
    BY <1>12
  <2> HIDE DEF b, d, m, E1, E2
  <2>2. /\ b - (a - m) <= E1 + E2 /\ (a - m) - b <= E1 + E2
        /\ b < TwoPi + Pi /\ -(TwoPi + Pi) < b
    BY <1>3, <1>6, <1>9, <2>1, Angles
  <2> QED
    BY <2>2 DEF b
<1> QED
  BY <1>3, <1>6, <1>11, <1>12, <1>13, <1>14

\* foc_wrap_pi: into [-pi, pi), and by whole turns but for its roundings.
LEMMA WrapIsNear ==
  ASSUME NEW a \in Int, InRange(a), InRange(Abs(a) + 2 * Gap(a)),
         2 * Gap(a) + WrapErr(a) < Pi, NEW e \in foc_wrap_pi(a)
  PROVE  /\ e \in -Pi .. Pi - 1 /\ Float(e) = e /\ InRange(e) /\ WrapErr(a) \in Nat
         /\ \E n \in Int : /\ n * TwoPi \in Int
                           /\ e - (a - n * TwoPi) <= WrapErr(a)
                           /\ (a - n * TwoPi) - e <= WrapErr(a)
<1>1. PICK n \in WholeTurns(a) :
        e = LET b == Unwound(a, n) IN
            IF b >= Pi THEN Float(b - TwoPi) ELSE IF b < -Pi THEN Float(b + TwoPi) ELSE b
  BY DEF foc_wrap_pi
<1> DEFINE b == Unwound(a, n)  m == n * TwoPi  w == WrapErr(a)
<1>2. /\ n \in Int /\ m \in Int /\ b \in Int /\ w \in Nat
      /\ b - (a - m) <= w /\ (a - m) - b <= w
      /\ b < TwoPi + Pi /\ -(TwoPi + Pi) < b
      /\ Precision <= Abs(b) => \E h \in Int : b = 2 * h
  BY UnwoundIs
<1>3. e = IF b >= Pi THEN Float(b - TwoPi) ELSE IF b < -Pi THEN Float(b + TwoPi) ELSE b
  BY <1>1
<1>4. (n + 1) * TwoPi = m + TwoPi /\ (n - 1) * TwoPi = m - TwoPi /\ n + 1 \in Int /\ n - 1 \in Int
  BY <1>2, Angles
<1> DEFINE Near(x, k) ==
      /\ x \in -Pi .. Pi - 1 /\ Float(x) = x /\ InRange(x)
      /\ k * TwoPi \in Int /\ x - (a - k * TwoPi) <= w /\ (a - k * TwoPi) - x <= w
<1> HIDE DEF b, w
<1>5. CASE b >= Pi
  <2> DEFINE x == b - TwoPi
  <2>1. x \in Int /\ -Pi <= x /\ x < Pi
    BY <1>2, <1>5, Angles
  <2>2. Precision <= Abs(x) => \E h \in Int : x = 2 * h
    <3> SUFFICES ASSUME Precision <= Abs(x) PROVE \E h \in Int : x = 2 * h
      OBVIOUS
    <3>1. Precision <= Abs(b)
      BY <1>2, <1>5, <2>1, Angles DEF Abs
    <3>2. PICK h \in Int : b = 2 * h
      BY <1>2, <3>1
    <3>3. x = 2 * (h - 2 * Quarter) /\ h - 2 * Quarter \in Int
      BY <3>2, Angles
    <3> QED
      BY <3>3
  <2>3. Float(x) = x /\ InRange(x)
    BY <2>1, <2>2, Angles, HalfTurn
  <2>4. e = x
    BY <1>3, <1>5, <2>3
  <2>5. x - (a - (m + TwoPi)) <= w /\ (a - (m + TwoPi)) - x <= w /\ m + TwoPi \in Int
    <3> HIDE DEF m
    <3> QED
      BY <1>2, Angles
  <2>6. Near(x, n + 1)
    <3>1. x \in -Pi .. Pi - 1
      BY <2>1, Angles
    <3> HIDE DEF x, m
    <3> QED
      BY <1>4, <2>3, <2>5, <3>1
  <2> QED
    BY <1>2, <1>4, <2>4, <2>6 DEF w
<1>6. CASE ~(b >= Pi) /\ b < -Pi
  <2> DEFINE x == b + TwoPi
  <2>1. x \in Int /\ -Pi <= x /\ x < Pi
    BY <1>2, <1>6, Angles
  <2>2. Precision <= Abs(x) => \E h \in Int : x = 2 * h
    <3> SUFFICES ASSUME Precision <= Abs(x) PROVE \E h \in Int : x = 2 * h
      OBVIOUS
    <3>1. Precision <= Abs(b)
      BY <1>2, <1>6, <2>1, Angles DEF Abs
    <3>2. PICK h \in Int : b = 2 * h
      BY <1>2, <3>1
    <3>3. x = 2 * (h + 2 * Quarter) /\ h + 2 * Quarter \in Int
      BY <3>2, Angles
    <3> QED
      BY <3>3
  <2>3. Float(x) = x /\ InRange(x)
    BY <2>1, <2>2, Angles, HalfTurn
  <2>4. e = x
    BY <1>3, <1>6, <2>3
  <2>5. x - (a - (m - TwoPi)) <= w /\ (a - (m - TwoPi)) - x <= w /\ m - TwoPi \in Int
    <3> HIDE DEF m
    <3> QED
      BY <1>2, Angles
  <2>6. Near(x, n - 1)
    <3>1. x \in -Pi .. Pi - 1
      BY <2>1, Angles
    <3> HIDE DEF x, m
    <3> QED
      BY <1>4, <2>3, <2>5, <3>1
  <2> QED
    BY <1>2, <1>4, <2>4, <2>6 DEF w
<1>7. CASE ~(b >= Pi) /\ ~(b < -Pi)
  <2>1. e = b /\ b \in -Pi .. Pi - 1
    BY <1>2, <1>3, <1>7, Angles
  <2>2. Float(b) = b /\ InRange(b)
    BY <1>2, <1>7, Angles, HalfTurn
  <2>3. Near(b, n)
    BY <1>2, <2>1, <2>2
  <2> QED
    BY <1>2, <2>1, <2>3 DEF w
<1> QED
  BY <1>5, <1>6, <1>7

-----------------------------------------------------------------------------
(* Roundings add up.                                                       *)
Within(x, y, e) == x - y <= e /\ y - x <= e

LEMMA WithinSum ==
  ASSUME NEW x \in Int, NEW y \in Int, NEW u \in Int, NEW v \in Int,
         NEW d \in Int, NEW e \in Int, Within(x, y, d), Within(u, v, e)
  PROVE  Within(x + u, y + v, d + e) /\ Within(x - u, y - v, d + e)
BY DEF Within

LEMMA WithinThen ==
  ASSUME NEW x \in Int, NEW y \in Int, NEW z \in Int, NEW d \in Int, NEW e \in Int,
         Within(x, y, d), Within(y, z, e)
  PROVE  Within(x, z, d + e)
BY DEF Within

LEMMA WithinTimes ==
  ASSUME NEW x \in Int, NEW y \in Int, NEW e \in Int, NEW m \in Nat, Within(x, y, e)
  PROVE  Within(m * x, m * y, m * e)
<1>1. x - y <= e /\ y - x <= e
  BY DEF Within
<1> DEFINE u == x - y
<1>2. u \in Int /\ u <= e /\ -u <= e
  BY <1>1
<1>3. m * x - m * y = m * u /\ m * y - m * x = m * (-u)
  OBVIOUS
<1> HIDE DEF u
<1>4. m * u <= m * e /\ m * (-u) <= m * e
  BY <1>2
<1> QED
  BY <1>3, <1>4 DEF Within

LEMMA ScaleIs == Scale \in Nat \ {0} /\ Scale = 2 * CPR
BY Counts DEF Scale

\* A rounded number, in the scale of the errors.
LEMMA Rounds ==
  ASSUME NEW x \in Int, InRange(x)
  PROVE  /\ Float(x) \in Int /\ Err(x) \in Nat /\ Scale * Err(x) \in Nat
         /\ Scale * Float(x) \in Int /\ Scale * x \in Int
         /\ Within(Scale * Float(x), Scale * x, Scale * Err(x))
<1>1. Float(x) \in Int /\ Err(x) \in Nat /\ Within(Float(x), x, Err(x))
  BY FloatIs, ErrIs DEF Within
<1>2. Scale \in Nat
  BY ScaleIs
<1>3. Within(Scale * Float(x), Scale * x, Scale * Err(x))
  BY <1>1, <1>2, WithinTimes
<1>4. Scale * Err(x) \in Nat /\ Scale * Float(x) \in Int /\ Scale * x \in Int
  BY <1>1, <1>2
<1> QED
  BY <1>1, <1>3, <1>4

\* The angle of n counts, n 2 pi / CPR.
RoundedAngles(n) == InRange(n) /\ InRange(Product(n)) /\ InRange(Quotient(n))

LEMMA RadiansAre ==
  ASSUME NEW n \in Int, RoundedAngles(n)
  PROVE  /\ Radians(n) \in Int /\ AngleErr(n) \in Nat
         /\ 2 * (n * TwoPi) \in Int /\ Scale * Radians(n) \in Int
         /\ Within(Scale * Radians(n), 2 * (n * TwoPi), AngleErr(n))
<1> DEFINE x == Product(n)  f == Float(x)  q == Quotient(n)  r == (2 * f + CPR) % Scale
           y == 2 * (n * TwoPi)  c == (2 * TwoPi) * Err(n)
<1>1. x \in Int /\ y \in Int /\ c \in Nat /\ Within(2 * x, y, c)
  <2>1. Float(n) \in Int /\ Err(n) \in Nat /\ Within(Float(n), n, Err(n))
    BY FloatIs, ErrIs DEF RoundedAngles, Within
  <2>2. 2 * TwoPi \in Nat /\ TwoPi \in Nat
    BY Angles
  <2>3. Within((2 * TwoPi) * Float(n), (2 * TwoPi) * n, (2 * TwoPi) * Err(n))
    BY <2>1, <2>2, WithinTimes
  <2>4. (2 * TwoPi) * Float(n) = 2 * x /\ (2 * TwoPi) * n = y /\ x \in Int /\ y \in Int /\ c \in Nat
    BY <2>1, <2>2 DEF Product
  <2> QED
    BY <2>3, <2>4
<1>2. f \in Int /\ Err(x) \in Nat /\ f - x <= Err(x) /\ x - f <= Err(x)
  BY <1>1, FloatIs, ErrIs DEF RoundedAngles
<1>3. q \in Int /\ r \in 0 .. Scale - 1 /\ 2 * f + CPR = Scale * q + r
  <2>1. 2 * f + CPR \in Int
    BY <1>2, Counts
  <2> HIDE DEF f
  <2>2. q = (2 * f + CPR) \div Scale
    BY DEF f, x, Quotient, Scale
  <2> QED
    BY <2>1, <2>2, ScaleIs, Modulo
<1>4. Within(Scale * q, 2 * x, 2 * Err(x) + CPR)
  <2> DEFINE s == Scale * q  e == Err(x)
  <2>1. s \in Int /\ e \in Nat /\ 2 * f + CPR = s + r
    BY <1>2, <1>3, ScaleIs
  <2> HIDE DEF s, r, f, x, e, q
  <2>2. f - x <= e /\ x - f <= e
    BY <1>2 DEF e
  <2>3. Within(s, 2 * x, 2 * e + CPR)
    BY <1>1, <1>2, <1>3, <2>1, <2>2, ScaleIs, Counts DEF Within
  <2> QED
    BY <2>3 DEF s, e
<1>5. /\ Float(q) \in Int /\ Err(q) \in Nat /\ Scale * Err(q) \in Nat
      /\ Scale * Float(q) \in Int /\ Scale * q \in Int
      /\ Within(Scale * Float(q), Scale * q, Scale * Err(q))
  <2>1. q \in Int /\ InRange(q)
    BY <1>3 DEF RoundedAngles
  <2> HIDE DEF q
  <2> QED
    BY <2>1, Rounds
<1>6. 2 * x \in Int /\ 2 * Err(x) + CPR \in Nat
  BY <1>1, <1>2, Counts
<1> HIDE DEF x, q, y, c
<1>7. Within(Scale * Float(q), 2 * x, Scale * Err(q) + (2 * Err(x) + CPR))
  BY <1>4, <1>5, <1>6, WithinThen
<1> DEFINE d == Scale * Err(q) + (2 * Err(x) + CPR)
<1>8. d \in Nat /\ Within(Scale * Float(q), 2 * x, d)
  BY <1>5, <1>6, <1>7
<1>9. d + c = AngleErr(n)
  <2> DEFINE g == Scale * Err(q)  e == Err(x)
  <2>1. AngleErr(n) = c + 2 * e + CPR + g /\ d = g + (2 * e + CPR)
    BY DEF AngleErr, x, q, c
  <2>2. g \in Nat /\ e \in Nat
    BY <1>2, <1>5
  <2> HIDE DEF g, e, d
  <2> QED
    BY <1>1, <2>1, <2>2, Counts
<1> HIDE DEF d
<1>10. Within(Scale * Float(q), y, d + c) /\ d + c \in Nat
  BY <1>1, <1>5, <1>6, <1>8, WithinThen
<1> QED
  BY <1>1, <1>5, <1>9, <1>10 DEF Radians, q, y

\* Times the pole pairs.
LEMMA TurnsAre ==
  ASSUME NEW n \in Int, NEW m \in Nat, RoundedAngles(n), InRange(Radians(n) * m)
  PROVE  /\ Radians(n) * m \in Int /\ Float(Radians(n) * m) \in Int
         /\ m * AngleErr(n) + Scale * Err(Radians(n) * m) \in Nat
         /\ Scale * Float(Radians(n) * m) \in Int /\ 2 * ((n * m) * TwoPi) \in Int
         /\ Within(Scale * Float(Radians(n) * m), 2 * ((n * m) * TwoPi),
                   m * AngleErr(n) + Scale * Err(Radians(n) * m))
<1> DEFINE r == Radians(n)  p == r * m
<1>1. /\ r \in Int /\ AngleErr(n) \in Nat
      /\ 2 * (n * TwoPi) \in Int /\ Scale * r \in Int
      /\ Within(Scale * r, 2 * (n * TwoPi), AngleErr(n))
  BY RadiansAre
<1>2. p \in Int
  BY <1>1
<1>3. /\ Float(p) \in Int /\ Err(p) \in Nat /\ Scale * Err(p) \in Nat
      /\ Scale * Float(p) \in Int /\ Scale * p \in Int
      /\ Within(Scale * Float(p), Scale * p, Scale * Err(p))
  BY <1>2, Rounds
<1>4. Within(m * (Scale * r), m * (2 * (n * TwoPi)), m * AngleErr(n))
  BY <1>1, WithinTimes
<1>5. m * (Scale * r) = Scale * p /\ m * (2 * (n * TwoPi)) = 2 * ((n * m) * TwoPi)
      /\ 2 * ((n * m) * TwoPi) \in Int /\ m * AngleErr(n) \in Nat
  <2>1. TwoPi \in Int
    BY Angles
  <2> HIDE DEF r
  <2>2. m * (Scale * r) = Scale * p
    BY <1>1, ScaleIs
  <2>3. m * (2 * (n * TwoPi)) = 2 * ((n * m) * TwoPi) /\ 2 * ((n * m) * TwoPi) \in Int
    BY <2>1
  <2>4. m * AngleErr(n) \in Nat
    <3> DEFINE e == AngleErr(n)
    <3>1. e \in Nat
      BY <1>1
    <3> HIDE DEF e
    <3>2. m * e \in Nat
      BY <3>1
    <3> QED
      BY <3>2 DEF e
  <2> QED
    BY <2>2, <2>3, <2>4
<1> DEFINE z == 2 * ((n * m) * TwoPi)
<1>6. Within(Scale * p, z, m * AngleErr(n)) /\ z \in Int
  BY <1>4, <1>5
<1> HIDE DEF z
<1>7. Within(Scale * Float(p), z, Scale * Err(p) + m * AngleErr(n))
  BY <1>3, <1>5, <1>6, WithinThen
<1>8. Scale * Err(p) + m * AngleErr(n) = m * AngleErr(n) + Scale * Err(p)
      /\ m * AngleErr(n) + Scale * Err(p) \in Nat
  <2> DEFINE c == Scale * Err(p)  d == m * AngleErr(n)
  <2>1. c \in Nat /\ d \in Nat
    BY <1>3, <1>5
  <2> HIDE DEF c, d
  <2>2. c + d = d + c /\ d + c \in Nat
    BY <2>1
  <2> QED
    BY <2>2 DEF c, d
<1> QED
  BY <1>2, <1>3, <1>6, <1>7, <1>8 DEF z

\* A multiple of a turn more does not tell.
LEMMA WithinTurn ==
  ASSUME NEW x \in Int, NEW y \in Int, NEW e \in Nat, NEW m \in Nat \ {0}, NEW k \in Int,
         Within(x, y + m * k, e)
  PROVE  (x - y + e) % m <= 2 * e
<1> DEFINE d == x - (y + m * k) + e
<1>1. d \in 0 .. 2 * e /\ x - y + e = d + m * k
  BY DEF Within
<1> HIDE DEF d
<1>2. d \div m \in Int /\ d = m * (d \div m) + (d % m) /\ d % m \in 0 .. m - 1
  BY <1>1, Modulo
<1>3. (d + m * k) % m = d % m
  <2>1. d + m * k \in Int /\ d \in Int
    BY <1>1
  <2> DEFINE y2 == d + m * k
  <2>2. y2 \in Int /\ \E j \in Int : y2 = d + m * j
    BY <2>1
  <2> HIDE DEF y2
  <2>3. y2 % m = d % m
    BY <2>1, <2>2, SameModulo
  <2> QED
    BY <2>3 DEF y2
<1>4. d % m <= d
  <2> DEFINE q == d \div m  r == d % m
  <2>1. q \in Int /\ d = m * q + r /\ r \in 0 .. m - 1 /\ d >= 0
    BY <1>1, <1>2
  <2> HIDE DEF q, r
  <2>2. q >= 0
    <3>1. q < 0 => m * q <= -m
      BY <2>1
    <3>2. m * q \in Int
      BY <2>1
    <3> QED
      BY <2>1, <3>1, <3>2
  <2>3. m * q >= 0
    BY <2>1, <2>2
  <2>4. m * q \in Int
    BY <2>1
  <2>5. r <= d
    BY <2>1, <2>3, <2>4
  <2> QED
    BY <2>5 DEF r
<1> QED
  BY <1>1, <1>2, <1>3, <1>4

-----------------------------------------------------------------------------
(* The electrical angle.                                                   *)
LEMMA RoundedAre ==
  ASSUME \A x \in Rounded : InRange(x)
  PROVE  /\ RoundedAngles(enc.total) /\ RoundedAngles(ZeroAngle) /\ RoundedAngles(Base)
         /\ InRange(Radians(enc.total) * pp) /\ InRange(Radians(ZeroAngle) * pp)
         /\ InRange(Radians(Base) - Float(ZeroTurned)) /\ InRange(Sum)
         /\ InRange(Float(Sum)) /\ InRange(Abs(Float(Sum)) + 2 * Gap(Float(Sum)))
<1> DEFINE angles == {enc.total, ZeroAngle, Base}
           others == {Radians(enc.total) * pp, ZeroTurned, Radians(Base) - Float(ZeroTurned),
                      Sum, Float(Sum), Abs(Float(Sum)) + 2 * Gap(Float(Sum))}
<1>1. Rounded = angles \cup {Product(n) : n \in angles} \cup {Quotient(n) : n \in angles} \cup others
  BY DEF Rounded
<1>2. enc.total \in angles /\ ZeroAngle \in angles /\ Base \in angles
  OBVIOUS
<1>3. \A x \in others : InRange(x)
  <2> HIDE DEF angles, others
  <2> QED
    BY <1>1
<1>4. \A n \in angles : RoundedAngles(n)
  <2> HIDE DEF angles, others
  <2> QED
    BY <1>1 DEF RoundedAngles
<1> QED
  BY <1>2, <1>3, <1>4 DEF ZeroTurned

LEMMA ZeroIsNear ==
  ASSUME NEW m \in Nat, ZeroAngle \in Int, pp = m, \A x \in Rounded : InRange(x)
  PROVE  /\ EncoderZero \in Int /\ ZeroErr \in Nat
         /\ 2 * ((Base - ZeroAngle * m) * TwoPi) \in Int /\ Scale * EncoderZero \in Int
         /\ Within(Scale * EncoderZero, 2 * ((Base - ZeroAngle * m) * TwoPi), ZeroErr)
<1> DEFINE k == ZeroAngle  b == Radians(Base)  f == Float(Radians(k) * m)  s == b - f
<1>1. /\ b \in Int /\ AngleErr(Base) \in Nat
      /\ 2 * (Base * TwoPi) \in Int /\ Scale * b \in Int
      /\ Within(Scale * b, 2 * (Base * TwoPi), AngleErr(Base))
  BY RoundedAre, RadiansAre, MotorAssumption
<1>2. /\ f \in Int
      /\ m * AngleErr(k) + Scale * Err(Radians(k) * m) \in Nat
      /\ Scale * f \in Int /\ 2 * ((k * m) * TwoPi) \in Int
      /\ Within(Scale * f, 2 * ((k * m) * TwoPi),
                m * AngleErr(k) + Scale * Err(Radians(k) * m))
  BY RoundedAre, TurnsAre
<1>3. TurnErr(k) = m * AngleErr(k) + Scale * Err(Radians(k) * m)
  BY DEF TurnErr
<1>4. s \in Int /\ s = Radians(Base) - Float(ZeroTurned)
  BY <1>1, <1>2 DEF ZeroTurned
<1>5. InRange(s)
  BY <1>4, RoundedAre
<1> HIDE DEF s
<1>6. /\ Float(s) \in Int /\ Scale * Err(s) \in Nat
      /\ Scale * Float(s) \in Int /\ Scale * s \in Int
      /\ Within(Scale * Float(s), Scale * s, Scale * Err(s))
  BY <1>4, <1>5, Rounds
<1> DEFINE x == 2 * (Base * TwoPi)  y == 2 * ((k * m) * TwoPi)
           c == AngleErr(Base)  d == TurnErr(k)
<1>7. /\ x \in Int /\ y \in Int /\ c \in Nat /\ d \in Nat
      /\ Within(Scale * b, x, c) /\ Within(Scale * f, y, d)
  BY <1>1, <1>2, <1>3
<1>8. Scale * s = Scale * b - Scale * f
  <2> HIDE DEF b, f
  <2> QED
    BY <1>1, <1>2, ScaleIs DEF s
<1>9. x - y = 2 * ((Base - k * m) * TwoPi) /\ x - y \in Int
  <2>1. TwoPi \in Int /\ Base \in Int /\ k \in Int
    BY Angles, MotorAssumption
  <2> HIDE DEF k
  <2> QED
    BY <2>1
<1> HIDE DEF x, y, c, d
<1>10. Within(Scale * b - Scale * f, x - y, c + d)
  BY <1>1, <1>2, <1>7, WithinSum
<1>11. Within(Scale * Float(s), x - y, Scale * Err(s) + (c + d)) /\ c + d \in Int
  <2>1. c + d \in Int /\ Scale * Err(s) \in Int
    BY <1>6, <1>7
  <2>2. Within(Scale * s, x - y, c + d)
    BY <1>8, <1>10
  <2> QED
    BY <1>6, <1>9, <2>1, <2>2, WithinThen
<1>12. ZeroErr = Scale * Err(s) + (c + d) /\ ZeroErr \in Nat
  <2> DEFINE e == Scale * Err(s)
  <2>1. ZeroErr = c + d + e
    BY <1>4 DEF ZeroErr, c, d
  <2>2. e \in Nat
    BY <1>6
  <2> HIDE DEF e
  <2>3. ZeroErr = e + (c + d) /\ ZeroErr \in Nat
    BY <1>7, <2>1, <2>2
  <2> QED
    BY <2>3 DEF e
<1>13. EncoderZero = Float(s)
  BY <1>4 DEF EncoderZero
<1> QED
  BY <1>6, <1>9, <1>11, <1>12, <1>13

LEMMA SumIsNear ==
  ASSUME NEW m \in Nat, ZeroAngle \in Int, pp = m, NEW t \in Int, enc.total = t,
         \A x \in Rounded : InRange(x)
  PROVE  /\ Float(Sum) \in Int /\ SumErr \in Nat
         /\ 2 * ((t * m + (Base - ZeroAngle * m)) * TwoPi) \in Int /\ Scale * Float(Sum) \in Int
         /\ Within(Scale * Float(Sum), 2 * ((t * m + (Base - ZeroAngle * m)) * TwoPi), SumErr)
<1> DEFINE z == EncoderZero  f == Float(Radians(t) * m)  s == f + z
           u == Base - ZeroAngle * m
<1>1. /\ z \in Int /\ ZeroErr \in Nat
      /\ 2 * (u * TwoPi) \in Int /\ Scale * z \in Int
      /\ Within(Scale * z, 2 * (u * TwoPi), ZeroErr)
  BY ZeroIsNear
<1>2. /\ f \in Int
      /\ m * AngleErr(t) + Scale * Err(Radians(t) * m) \in Nat
      /\ Scale * f \in Int /\ 2 * ((t * m) * TwoPi) \in Int
      /\ Within(Scale * f, 2 * ((t * m) * TwoPi),
                m * AngleErr(t) + Scale * Err(Radians(t) * m))
  BY RoundedAre, TurnsAre
<1>3. TurnErr(t) = m * AngleErr(t) + Scale * Err(Radians(t) * m)
  BY DEF TurnErr
<1>4. s \in Int /\ s = Sum
  BY <1>1, <1>2 DEF Sum, Elec
<1>5. InRange(s)
  BY <1>4, RoundedAre
<1> HIDE DEF s
<1>6. /\ Float(s) \in Int /\ Scale * Err(s) \in Nat
      /\ Scale * Float(s) \in Int /\ Scale * s \in Int
      /\ Within(Scale * Float(s), Scale * s, Scale * Err(s))
  BY <1>4, <1>5, Rounds
<1> DEFINE x == 2 * ((t * m) * TwoPi)  y == 2 * (u * TwoPi)
           c == TurnErr(t)  d == ZeroErr
<1>7. /\ x \in Int /\ y \in Int /\ c \in Nat /\ d \in Nat
      /\ Within(Scale * f, x, c) /\ Within(Scale * z, y, d)
  BY <1>1, <1>2, <1>3
<1>8. Scale * s = Scale * f + Scale * z
  <2> HIDE DEF z, f
  <2> QED
    BY <1>1, <1>2, ScaleIs DEF s
<1>9. x + y = 2 * ((t * m + u) * TwoPi) /\ x + y \in Int
  <2>1. TwoPi \in Int /\ u \in Int
    BY Angles, MotorAssumption
  <2> HIDE DEF u
  <2> QED
    BY <2>1
<1> HIDE DEF x, y, c, d
<1>10. Within(Scale * f + Scale * z, x + y, c + d)
  BY <1>1, <1>2, <1>7, WithinSum
<1>11. Within(Scale * Float(s), x + y, Scale * Err(s) + (c + d))
  <2>1. c + d \in Int /\ Scale * Err(s) \in Int
    BY <1>6, <1>7
  <2>2. Within(Scale * s, x + y, c + d)
    BY <1>8, <1>10
  <2> QED
    BY <1>6, <1>9, <2>1, <2>2, WithinThen
<1>12. SumErr = Scale * Err(s) + (c + d) /\ SumErr \in Nat
  <2> DEFINE e == Scale * Err(s)
  <2>1. SumErr = c + d + e
    BY <1>4 DEF SumErr, c, d
  <2>2. e \in Nat
    BY <1>6
  <2> HIDE DEF e
  <2>3. SumErr = e + (c + d) /\ SumErr \in Nat
    BY <1>7, <2>1, <2>2
  <2> QED
    BY <2>3 DEF e
<1> QED
  BY <1>4, <1>6, <1>9, <1>11, <1>12

\* What CommutatesRight says, in whole numbers.
LEMMA CommutatedIs ==
  ASSUME Inv1, ScanInv2, ZeroInv, Commutated
  PROVE  /\ pp = PP /\ enc.total \in Int /\ pos \in Int /\ zero \in Int
         /\ ZeroAngle \in Int /\ ZeroAngle * PP = Base - zero
         /\ \E j \in Int : enc.total * PP + zero = pos * PP + CPR * j
<1>1. pc = "run" /\ rc.phase = "OK" /\ held /\ Referenced /\ (inverted => clean)
  BY DEF Commutated, Calibrated
<1>2. pp = PP
  <2>1. pp \in Nat /\ WithinTol(pp, PP)
    BY <1>1, Motor DEF ScanInv2, Earned, Inv1, TypeOK
  <2> QED
    BY <2>1, NearIsExact DEF Commutated, Calibrated
<1>3. /\ enc.total \in Int /\ enc.last \in Int /\ pos \in Int /\ datum \in Int /\ zero \in Int
  BY DEF Inv1, TypeOK, Context
<1>4. /\ Same((enc.total - enc.last - datum) * PP + zero, 0)
      /\ Same(enc.last, pos - datum)
  BY <1>1, <1>2 DEF ZeroInv, RunInv
<1>5. Same(pos * PP, enc.total * PP + zero)
  BY <1>3, <1>4, AngleReads
<1>6. Same(enc.total * PP + zero, pos * PP)
  BY <1>5 DEF Same
<1>7. enc.total * PP + zero \in Int /\ pos * PP \in Int
  BY <1>3, Motor
<1>8. PICK j \in Int : enc.total * PP + zero = pos * PP + CPR * j
  BY <1>6, <1>7, SameIs
<1> DEFINE k == Origin - pos + enc.total - ElecTurn * j
<1>9. k \in Int /\ Base - zero = PP * k
  <2>1. CPR * j = PP * (ElecTurn * j) /\ ElecTurn * j \in Int
    BY Motor
  <2>2. /\ PP \in Int /\ Base = PP * Origin /\ Origin \in Int
    BY Motor
  <2> DEFINE v == ElecTurn * j  x == enc.total * PP  y == pos * PP  w == CPR * j
  <2>3. v \in Int /\ x \in Int /\ y \in Int /\ w = PP * v /\ w \in Int
    BY <1>3, <2>1, <2>2, Counts
  <2>4. x + zero = y + w
    BY <1>8
  <2>5. k = Origin - pos + enc.total - v /\ PP * enc.total = x /\ PP * pos = y
    BY <1>3, <2>2
  <2> HIDE DEF v, x, y, w, k
  <2>6. k \in Int /\ PP * k = PP * Origin - PP * pos + PP * enc.total - PP * v
    BY <1>3, <2>2, <2>3, <2>5
  <2>7. PP * k = Base - y + x - w
    BY <2>2, <2>3, <2>5, <2>6
  <2> QED
    BY <1>3, <2>2, <2>3, <2>4, <2>6, <2>7
<1>10. (Base - zero) \div PP = k
  <2>1. PP \in Nat \ {0} /\ Base - zero \in Int
    BY <1>3, Motor, MotorAssumption
  <2> HIDE DEF k
  <2> DEFINE n == PP
  <2>2. n \in Nat \ {0} /\ Base - zero = n * k + 0
    BY <1>9, <2>1
  <2> HIDE DEF n
  <2>3. (n * k + 0) \div n = k
    BY <1>9, <2>2
  <2> QED
    BY <2>2, <2>3 DEF n
<1>11. ZeroAngle = k
  BY <1>2, <1>10 DEF ZeroAngle
<1>12. k * PP = Base - zero
  <2> HIDE DEF k
  <2> QED
    BY <1>9, Motor
<1> QED
  BY <1>2, <1>3, <1>8, <1>9, <1>11, <1>12

\* Both halves of ElecIsRotors, and what the frame needs of the angle.
LEMMA ElecAnglesAre ==
  ASSUME Inv1, ScanInv2, ZeroInv, Commutated, Limited, NEW e \in ElecAngles
  PROVE  /\ e \in -Pi .. Pi - 1 /\ Float(e) = e /\ InRange(e)
         /\ (Scale * e - 2 * pos * PP * TwoPi + Slack) % (Scale * TwoPi) <= 2 * Slack
<1>1. /\ pp = PP /\ enc.total \in Int /\ pos \in Int /\ zero \in Int
      /\ ZeroAngle \in Int /\ ZeroAngle * PP = Base - zero
      /\ PP \in Nat \ {0} /\ Base \in Int
  BY CommutatedIs, MotorAssumption
<1>2. PICK j \in Int : enc.total * PP + zero = pos * PP + CPR * j
  BY CommutatedIs
<1> DEFINE a == Float(Sum)  t == enc.total
<1>3. /\ \A x \in Rounded : InRange(x)
      /\ 2 * Gap(a) + WrapErr(a) < Pi
  BY DEF Limited
<1>4. t * PP + (Base - ZeroAngle * PP) = t * PP + zero
  BY <1>1
<1>5. /\ a \in Int /\ SumErr \in Nat
      /\ 2 * ((t * PP + zero) * TwoPi) \in Int /\ Scale * a \in Int
      /\ Within(Scale * a, 2 * ((t * PP + zero) * TwoPi), SumErr)
  BY <1>1, <1>3, <1>4, SumIsNear
<1>6. InRange(Abs(a) + 2 * Gap(a))
  BY <1>3, RoundedAre
<1>7. InRange(a)
  BY <1>3, RoundedAre
<1>8. e \in foc_wrap_pi(a)
  BY DEF ElecAngles, foc_calc_elec_angle, Sum
<1>9. /\ e \in -Pi .. Pi - 1 /\ Float(e) = e /\ InRange(e) /\ WrapErr(a) \in Nat
      /\ \E n \in Int : /\ n * TwoPi \in Int
                        /\ e - (a - n * TwoPi) <= WrapErr(a)
                        /\ (a - n * TwoPi) - e <= WrapErr(a)
  <2> HIDE DEF a
  <2> QED
    BY <1>3, <1>5, <1>6, <1>7, <1>8, WrapIsNear
<1>10. PICK n \in Int : n * TwoPi \in Int /\ Within(e, a - n * TwoPi, WrapErr(a))
  BY <1>9 DEF Within
<1> DEFINE w == WrapErr(a)  b == a - n * TwoPi  v == 2 * ((t * PP + zero) * TwoPi)
<1>11. e \in Int /\ w \in Nat /\ b \in Int /\ v \in Int /\ Within(e, b, w) /\ Within(Scale * a, v, SumErr)
  BY <1>5, <1>9, <1>10, Angles
<1>12. Within(Scale * e, Scale * b, Scale * w)
  <2>1. Scale \in Nat /\ e \in Int /\ b \in Int /\ w \in Int /\ Within(e, b, w)
    BY <1>11, ScaleIs
  <2> HIDE DEF b, w
  <2> QED
    BY <2>1, WithinTimes
<1> DEFINE s == Scale * (n * TwoPi)
<1>13. Scale * b = Scale * a - s /\ s \in Int
  <2> DEFINE m == n * TwoPi
  <2>1. m \in Int /\ b = a - m
    BY <1>10
  <2> HIDE DEF m, a, b
  <2>2. Scale * b = Scale * a - Scale * m /\ Scale * m \in Int
    BY <1>5, <2>1, ScaleIs
  <2> QED
    BY <2>2 DEF m
<1> DEFINE p == Scale * a  q == Scale * e
<1>14. p \in Int /\ q \in Int /\ Scale * w \in Nat /\ Within(q, p - s, Scale * w) /\ Within(p, v, SumErr)
  <2> HIDE DEF a, w, b, s
  <2> QED
    BY <1>5, <1>11, <1>12, <1>13, ScaleIs
<1> DEFINE g == Scale * w
<1>15. g + SumErr = Slack /\ Slack \in Nat
  <2>1. g \in Nat /\ SumErr \in Nat
    BY <1>5, <1>14
  <2>2. Slack = SumErr + g
    BY DEF Slack
  <2> HIDE DEF g
  <2> QED
    BY <2>1, <2>2
<1>16. Within(q, v - s, Slack)
  <2>1. g \in Nat /\ SumErr \in Nat /\ Within(q, p - s, g)
    BY <1>5, <1>14
  <2> HIDE DEF p, q, s, v, g
  <2>2. Within(q, v - s, g + SumErr)
    BY <1>11, <1>13, <1>14, <2>1 DEF Within
  <2> QED
    BY <1>15, <2>2
<1> DEFINE y == 2 * pos * PP * TwoPi  m == Scale * TwoPi
<1>17. y \in Int /\ m \in Nat \ {0} /\ v - s = y + m * (j - n) /\ j - n \in Int
  <2> DEFINE P == pos * PP  T == TwoPi  C == CPR
  <2>1. P \in Int /\ T \in Nat \ {0} /\ C \in Nat \ {0} /\ Scale = 2 * C
    BY <1>1, Angles, Counts, ScaleIs
  <2>2. v = 2 * ((P + C * j) * T) /\ s = (2 * C) * (n * T) /\ m = (2 * C) * T
    BY <1>2, ScaleIs
  <2>3. y = 2 * P * T
    BY <1>1, Angles
  <2> HIDE DEF P, T, C, v, s, m, y
  <2>4. 2 * ((P + C * j) * T) = 2 * (P * T) + 2 * ((C * j) * T)
    BY <2>1
  <2>5. 2 * ((C * j) * T) - (2 * C) * (n * T) = ((2 * C) * T) * (j - n)
    BY <2>1
  <2>6. 2 * P * T = 2 * (P * T) /\ P * T \in Int /\ C * j \in Int /\ (C * j) * T \in Int
        /\ (2 * C) * T \in Nat \ {0} /\ (2 * C) * (n * T) \in Int
    BY <2>1
  <2> QED
    BY <2>2, <2>3, <2>4, <2>5, <2>6
<1>18. (q - y + Slack) % m <= 2 * Slack
  <2> HIDE DEF q, y, m, v, s
  <2>1. Within(q, y + m * (j - n), Slack)
    BY <1>16, <1>17
  <2> QED
    BY <1>14, <1>15, <1>17, <2>1, WithinTurn
<1> QED
  BY <1>9, <1>18

-----------------------------------------------------------------------------
(* The frame.  The sine is nowhere steeper than Steepest.                  *)
LEMMA SteepestIs == Steepest \in Nat
<1> DEFINE q == 1571 \div Quarter  r == 1571 % Quarter
<1>1. Quarter \in Nat \ {0}
  BY Angles
<1>2. r \in 0 .. Quarter - 1 /\ q \in Int /\ 1571 = Quarter * q + r
  BY <1>1, Modulo
<1> HIDE DEF q, r
<1>3. q >= 0
  <2>1. q < 0 => Quarter * q <= -Quarter
    BY <1>1, <1>2
  <2>2. Quarter * q \in Int
    BY <1>1, <1>2
  <2> QED
    BY <1>1, <1>2, <2>1, <2>2
<1>4. Steepest = q + 1
  BY DEF Steepest, q
<1> QED
  BY <1>2, <1>3, <1>4

LEMMA TableIs ==
  /\ \A x \in 0 .. Quarter : Sine[x] \in Nat
  /\ Sine[0] = 0
  /\ \A x \in 0 .. Quarter - 1 : Within(Sine[x + 1], Sine[x], Steepest)
<1>1. ASSUME NEW x \in 0 .. Quarter PROVE Sine[x] \in Nat
  <2>1. Sine \in [0 .. Quarter -> 0 .. 1000]
    BY TableAssumption
  <2>2. Sine[x] \in 0 .. 1000
    BY <2>1
  <2> QED
    BY <2>2
<1>2. ASSUME NEW x \in 0 .. Quarter - 1 PROVE Within(Sine[x + 1], Sine[x], Steepest)
  <2>1. Abs(Sine[x + 1] - Sine[x]) <= Steepest
    BY TableAssumption
  <2>2. x + 1 \in 0 .. Quarter /\ x \in 0 .. Quarter
    BY Angles
  <2> DEFINE u == Sine[x + 1]  v == Sine[x]
  <2>3. u \in Nat /\ v \in Nat /\ Abs(u - v) <= Steepest
    BY <1>1, <2>1, <2>2
  <2> HIDE DEF u, v
  <2>4. Within(u, v, Steepest)
    BY <2>3, SteepestIs DEF Abs, Within
  <2> QED
    BY <2>4 DEF u, v
<1> QED
  BY <1>1, <1>2, TableAssumption

LEMMA NoSine == -Sine[0] = Sine[0]
<1> DEFINE x == Sine[0]
<1>1. x \in Int /\ x <= 0 /\ 0 <= x
  BY TableIs
<1> HIDE DEF x
<1>2. -x = x
  BY <1>1
<1> QED
  BY <1>2 DEF x

LEMMA SineSteps ==
  ASSUME NEW d \in 0 .. Quarter, NEW x \in 0 .. Quarter - d
  PROVE  Within(Sine[x + d], Sine[x], Steepest * d)
<1> DEFINE T == {k \in 0 .. Quarter : \E y \in 0 .. Quarter - k :
                   ~Within(Sine[y + k], Sine[y], Steepest * k)}
<1>1. SUFFICES ASSUME T # {} PROVE FALSE
  OBVIOUS
<1>2. PICK k \in T : \A j \in T : k <= j
  <2>1. T \in SUBSET Nat
    BY Angles
  <2> HIDE DEF T
  <2> QED
    BY <1>1, <2>1, LeastOf
<1>3. k \in 0 .. Quarter /\ \E y \in 0 .. Quarter - k : ~Within(Sine[y + k], Sine[y], Steepest * k)
  BY <1>2
<1>4. PICK y \in 0 .. Quarter - k : ~Within(Sine[y + k], Sine[y], Steepest * k)
  BY <1>3
<1>5. k # 0
  <2> SUFFICES ASSUME k = 0 PROVE FALSE
    OBVIOUS
  <2>1. y \in 0 .. Quarter /\ y + k = y /\ Steepest * k = 0
    BY <1>4, SteepestIs, Angles
  <2>2. Sine[y] \in Nat
    BY <2>1, TableIs
  <2>3. Within(Sine[y], Sine[y], 0)
    BY <2>2 DEF Within
  <2> QED
    BY <1>4, <2>1, <2>3
<1>6. k - 1 \in 0 .. Quarter /\ k - 1 \notin T /\ y \in 0 .. Quarter - (k - 1)
  <2>1. k - 1 \in 0 .. Quarter /\ ~(k <= k - 1) /\ y \in 0 .. Quarter - (k - 1)
    BY <1>3, <1>4, <1>5, Angles
  <2> HIDE DEF T
  <2> QED
    BY <1>2, <2>1
<1>7. Within(Sine[y + (k - 1)], Sine[y], Steepest * (k - 1))
  BY <1>6
<1> DEFINE z == y + (k - 1)
<1>8. z \in 0 .. Quarter - 1 /\ z + 1 = y + k /\ y \in 0 .. Quarter /\ y + k \in 0 .. Quarter
      /\ z \in 0 .. Quarter
  BY <1>3, <1>4, <1>5, Angles
<1> HIDE DEF z
<1>9. Within(Sine[z + 1], Sine[z], Steepest)
  BY <1>8, TableIs
<1>10. Sine[z + 1] \in Int /\ Sine[z] \in Int /\ Sine[y] \in Int
  BY <1>8, TableIs
<1>11. Steepest * (k - 1) \in Int /\ Steepest \in Int /\ Steepest + Steepest * (k - 1) = Steepest * k
  BY <1>3, SteepestIs, Angles
<1>12. Within(Sine[z], Sine[y], Steepest * (k - 1))
  BY <1>7 DEF z
<1>13. Within(Sine[z + 1], Sine[y], Steepest * k)
  <2>1. Within(Sine[z + 1], Sine[y], Steepest + Steepest * (k - 1))
    BY <1>9, <1>10, <1>11, <1>12, WithinThen
  <2> QED
    BY <1>11, <2>1
<1> QED
  BY <1>4, <1>8, <1>13

LEMMA SineNear ==
  ASSUME NEW x \in 0 .. Quarter, NEW y \in 0 .. Quarter, NEW d \in Nat, Within(x, y, d)
  PROVE  Within(Sine[x], Sine[y], Steepest * d) /\ Steepest * d \in Nat
<1>1. Steepest * d \in Nat
  BY SteepestIs
<1>2. Sine[x] \in Nat /\ Sine[y] \in Nat
  BY TableIs
<1>3. ASSUME NEW c \in 0 .. d, NEW u \in Int, NEW v \in Int, Within(u, v, Steepest * c)
      PROVE  Within(u, v, Steepest * d) /\ Within(v, u, Steepest * d)
  <2>1. Steepest * c <= Steepest * d /\ Steepest * c \in Int
    BY SteepestIs
  <2> DEFINE p == Steepest * c  q == Steepest * d
  <2>2. p <= q /\ p \in Int /\ q \in Int /\ Within(u, v, p)
    BY <1>1, <1>3, <2>1
  <2> HIDE DEF p, q
  <2>3. Within(u, v, q) /\ Within(v, u, q)
    BY <2>2 DEF Within
  <2> QED
    BY <2>3 DEF q
<1>4. CASE y <= x
  <2> DEFINE c == x - y
  <2>1. c \in 0 .. d /\ c \in 0 .. Quarter /\ y \in 0 .. Quarter - c /\ y + c = x
    BY <1>4, Angles DEF Within
  <2> HIDE DEF c
  <2>2. Within(Sine[x], Sine[y], Steepest * c)
    BY <2>1, SineSteps
  <2> QED
    BY <1>1, <1>2, <1>3, <2>1, <2>2
<1>5. CASE ~(y <= x)
  <2> DEFINE c == y - x
  <2>1. c \in 0 .. d /\ c \in 0 .. Quarter /\ x \in 0 .. Quarter - c /\ x + c = y
    BY <1>5, Angles DEF Within
  <2> HIDE DEF c
  <2>2. Within(Sine[y], Sine[x], Steepest * c)
    BY <2>1, SineSteps
  <2> QED
    BY <1>1, <1>2, <1>3, <2>1, <2>2
<1> QED
  BY <1>4, <1>5

LEMMA LookupIs ==
  ASSUME NEW u \in 0 .. Quarter
  PROVE  foc_sin_lookup(u) \in Int /\ Within(foc_sin_lookup(u), Sine[u], 4)
<1>1. foc_sin_lookup(u) \in Sine[u] - 4 .. Sine[u] + 4 /\ Sine[u] \in Nat
  BY TableAssumption, TableIs
<1> QED
  BY <1>1 DEF Within

-----------------------------------------------------------------------------
(* The second half turn, Pi .. TwoPi, of which a quarter runs down and a   *)
(* quarter up.                                                             *)
LowerSine(z)   == IF z <= 3 * Quarter THEN -Sine[z - Pi] ELSE -Sine[TwoPi - z]
LowerCosine(z) == IF z <= 3 * Quarter THEN -Sine[3 * Quarter - z] ELSE Sine[z - 3 * Quarter]

LEMMA TurnModulo ==
  ASSUME NEW x \in Int, NEW r \in 0 .. TwoPi - 1, x = r \/ x = r - TwoPi
  PROVE  x % TwoPi = r
<1> DEFINE T == TwoPi
<1>1. T \in Nat \ {0} /\ r \in 0 .. T - 1
  BY Angles
<1>2. \E k \in Int : x = r + T * k
  <2>1. x = r + T * 0 \/ x = r + T * (-1)
    BY <1>1
  <2> QED
    BY <2>1
<1> HIDE DEF T
<1>3. r % T = r
  BY <1>1
<1>4. x % T = r % T
  BY <1>1, <1>2, SameModulo
<1> QED
  BY <1>3, <1>4 DEF T

LEMMA UpperIs ==
  ASSUME NEW e \in 0 .. Pi - 1
  PROVE  /\ e < Quarter => Sin(e) = Sine[e] /\ Cos(e) = Sine[Quarter - e]
         /\ Quarter <= e => Sin(e) = Sine[Pi - e] /\ Cos(e) = -Sine[e - Quarter]
<1>1. e % TwoPi = e /\ (e + Quarter) % TwoPi = e + Quarter
  BY Angles, TurnModulo
<1>2. Sin(e) = HalfSine(e)
  BY <1>1, Angles DEF Sin
<1>3. Cos(e) = IF e + Quarter <= Pi THEN HalfSine(e + Quarter) ELSE -HalfSine(e + Quarter - Pi)
  <2> DEFINE r == e + Quarter
  <2>1. r % TwoPi = r /\ Cos(e) = Sin(r)
    BY <1>1 DEF Cos
  <2> HIDE DEF r
  <2>2. Cos(e) = IF r <= Pi THEN HalfSine(r) ELSE -HalfSine(r - Pi)
    BY <2>1 DEF Sin
  <2>3. r = e + Quarter /\ r - Pi = e + Quarter - Pi
    BY Angles DEF r
  <2> QED
    BY <2>2, <2>3, Zenon
<1>4. ASSUME e < Quarter PROVE Sin(e) = Sine[e] /\ Cos(e) = Sine[Quarter - e]
  <2>1. Sin(e) = Sine[e]
    BY <1>2, <1>4, Angles DEF HalfSine
  <2>2. Cos(e) = HalfSine(e + Quarter)
    BY <1>3, <1>4, Angles
  <2>3. CASE e = 0
    <3>1. e + Quarter = Quarter /\ Quarter - e = Quarter
      BY <2>3, Angles
    <3> QED
      BY <2>1, <2>2, <3>1, Angles DEF HalfSine
  <2>4. CASE e # 0
    <3>1. ~(e + Quarter <= Quarter) /\ Pi - (e + Quarter) = Quarter - e
      BY <2>4, Angles
    <3> QED
      BY <2>1, <2>2, <3>1 DEF HalfSine
  <2> QED
    BY <2>3, <2>4
<1>5. ASSUME Quarter <= e PROVE Sin(e) = Sine[Pi - e] /\ Cos(e) = -Sine[e - Quarter]
  <2>1. CASE e = Quarter
    <3>1. Pi - e = Quarter /\ e + Quarter = Pi /\ e - Quarter = 0 /\ ~(Pi <= Quarter) /\ Pi - Pi = 0
      BY <2>1, Angles
    <3>2. Sin(e) = Sine[Quarter]
      BY <1>2, <2>1, Angles DEF HalfSine
    <3>3. Cos(e) = Sine[0]
      BY <1>3, <3>1, Angles DEF HalfSine
    <3>4. -Sine[0] = Sine[0]
      BY NoSine
    <3> QED
      BY <3>1, <3>2, <3>3, <3>4
  <2>2. CASE e # Quarter
    <3>1. ~(e <= Quarter) /\ ~(e + Quarter <= Pi) /\ e + Quarter - Pi = e - Quarter
          /\ e - Quarter <= Quarter
      BY <1>5, <2>2, Angles
    <3>2. Sin(e) = Sine[Pi - e]
      BY <1>2, <3>1 DEF HalfSine
    <3>3. Cos(e) = -HalfSine(e - Quarter)
      BY <1>3, <3>1
    <3> QED
      BY <3>1, <3>2, <3>3 DEF HalfSine
  <2> QED
    BY <2>1, <2>2
<1> QED
  BY <1>4, <1>5

LEMMA LowerIs ==
  ASSUME NEW e \in -Pi .. -1
  PROVE  Sin(e) = LowerSine(e + TwoPi) /\ Cos(e) = LowerCosine(e + TwoPi)
<1> DEFINE z == e + TwoPi
<1>1. z \in Pi .. TwoPi - 1 /\ z \in 0 .. TwoPi - 1 /\ e = z - TwoPi
  BY Angles
<1> HIDE DEF z
<1>2. e % TwoPi = z
  BY <1>1, TurnModulo
<1>3. Sin(e) = IF z <= Pi THEN HalfSine(z) ELSE -HalfSine(z - Pi)
  BY <1>2 DEF Sin
<1>4. Sin(e) = LowerSine(z)
  <2>1. CASE z = Pi
    <3>1. ~(Pi <= Quarter) /\ Pi - Pi = 0 /\ Pi <= 3 * Quarter /\ Pi <= Pi
      BY Angles
    <3>2. Sin(e) = Sine[0]
      BY <1>3, <2>1, <3>1 DEF HalfSine
    <3>3. LowerSine(z) = -Sine[0]
      BY <2>1, <3>1 DEF LowerSine
    <3> QED
      BY <3>2, <3>3, NoSine, Zenon
  <2>2. CASE z # Pi
    <3>1. ~(z <= Pi) /\ (z - Pi <= Quarter <=> z <= 3 * Quarter) /\ Pi - (z - Pi) = TwoPi - z
      BY <1>1, <2>2, Angles
    <3>2. Sin(e) = -HalfSine(z - Pi)
      BY <1>3, <3>1
    <3>3. HalfSine(z - Pi) = IF z <= 3 * Quarter THEN Sine[z - Pi] ELSE Sine[TwoPi - z]
      BY <3>1 DEF HalfSine
    <3> QED
      BY <3>2, <3>3 DEF LowerSine
  <2> QED
    BY <2>1, <2>2
<1>5. Cos(e) = LowerCosine(z)
  <2>1. CASE z < 3 * Quarter
    <3> DEFINE r == z + Quarter
    <3>1. r \in 0 .. TwoPi - 1 /\ e + Quarter = r - TwoPi /\ ~(r <= Pi) /\ Quarter <= r - Pi
          /\ Pi - (r - Pi) = 3 * Quarter - z /\ (r - Pi = Quarter => 3 * Quarter - z = Quarter)
          /\ (r - Pi <= Quarter => r - Pi = Quarter) /\ e + Quarter \in Int
      BY <1>1, <2>1, Angles
    <3> HIDE DEF r
    <3>2. (e + Quarter) % TwoPi = r
      BY <3>1, TurnModulo
    <3>3. Cos(e) = -HalfSine(r - Pi)
      BY <3>1, <3>2 DEF Cos, Sin
    <3>4. HalfSine(r - Pi) = Sine[3 * Quarter - z]
      BY <3>1 DEF HalfSine
    <3> QED
      BY <1>1, <2>1, <3>3, <3>4, Angles DEF LowerCosine
  <2>2. CASE ~(z < 3 * Quarter)
    <3> DEFINE r == z - 3 * Quarter
    <3>1. r \in 0 .. TwoPi - 1 /\ e + Quarter = r /\ r <= Pi /\ r <= Quarter
          /\ (z <= 3 * Quarter => r = 0 /\ 3 * Quarter - z = 0)
      BY <1>1, <2>2, Angles
    <3>2. LowerCosine(z) = IF z <= 3 * Quarter THEN -Sine[3 * Quarter - z] ELSE Sine[r]
      BY DEF LowerCosine
    <3> HIDE DEF r
    <3>3. (e + Quarter) % TwoPi = r
      BY <3>1, TurnModulo
    <3>4. Cos(e) = Sine[r]
      BY <3>1, <3>3 DEF Cos, Sin, HalfSine
    <3> QED
      BY <3>1, <3>2, <3>4, NoSine
  <2> QED
    BY <2>1, <2>2
<1> QED
  BY <1>4, <1>5 DEF z

LEMMA LowerNear ==
  ASSUME NEW x \in Pi .. TwoPi, NEW y \in Pi .. TwoPi, NEW d \in Nat, Within(x, y, d)
  PROVE  /\ LowerSine(x) \in Int /\ LowerSine(y) \in Int
         /\ LowerCosine(x) \in Int /\ LowerCosine(y) \in Int
         /\ Steepest * d \in Nat
         /\ Within(LowerSine(x), LowerSine(y), Steepest * d)
         /\ Within(LowerCosine(x), LowerCosine(y), Steepest * d)
<1> DEFINE Arc(z) == IF z <= 3 * Quarter THEN z - Pi ELSE TwoPi - z
<1>1. ASSUME NEW z \in Pi .. TwoPi
      PROVE  /\ Arc(z) \in 0 .. Quarter /\ LowerSine(z) = -Sine[Arc(z)]
             /\ LowerSine(z) \in Int /\ LowerCosine(z) \in Int
             /\ z <= 3 * Quarter => 3 * Quarter - z \in 0 .. Quarter
             /\ ~(z <= 3 * Quarter) => z - 3 * Quarter \in 0 .. Quarter
  <2>1. /\ z <= 3 * Quarter => z - Pi \in 0 .. Quarter /\ 3 * Quarter - z \in 0 .. Quarter
        /\ ~(z <= 3 * Quarter) => TwoPi - z \in 0 .. Quarter /\ z - 3 * Quarter \in 0 .. Quarter
    BY Angles
  <2>2. LowerSine(z) = -Sine[Arc(z)] /\ Arc(z) \in 0 .. Quarter
    BY <2>1 DEF LowerSine
  <2>3. \A u \in 0 .. Quarter : Sine[u] \in Int /\ -Sine[u] \in Int
    BY TableIs
  <2> QED
    BY <2>1, <2>2, <2>3 DEF LowerCosine
<1>2. Steepest * d \in Nat
  BY SteepestIs
<1>3. Within(LowerSine(x), LowerSine(y), Steepest * d)
  <2>1. Within(Arc(x), Arc(y), d)
    BY Angles DEF Within
  <2>2. Arc(x) \in 0 .. Quarter /\ Arc(y) \in 0 .. Quarter
    BY <1>1
  <2> DEFINE u == Arc(x)  v == Arc(y)
  <2>3. LowerSine(x) = -Sine[u] /\ LowerSine(y) = -Sine[v]
    BY <1>1
  <2>4. u \in 0 .. Quarter /\ v \in 0 .. Quarter /\ Within(u, v, d)
    BY <2>1, <2>2
  <2> HIDE DEF u, v
  <2>5. Within(Sine[u], Sine[v], Steepest * d) /\ Sine[u] \in Int /\ Sine[v] \in Int
    BY <2>4, SineNear, TableIs
  <2>6. Within(-Sine[u], -Sine[v], Steepest * d)
    BY <1>2, <2>5 DEF Within
  <2> QED
    BY <2>3, <2>6
<1>4. ASSUME NEW u \in 0 .. Quarter, NEW v \in 0 .. Quarter, u + v <= d
      PROVE  Within(-Sine[u], Sine[v], Steepest * d) /\ Within(Sine[v], -Sine[u], Steepest * d)
  <2>1. /\ Within(Sine[u], Sine[0], Steepest * u) /\ Steepest * u \in Nat
        /\ Within(Sine[v], Sine[0], Steepest * v) /\ Steepest * v \in Nat
    <3>1. u \in Nat /\ v \in Nat /\ 0 \in 0 .. Quarter /\ Within(u, 0, u) /\ Within(v, 0, v)
      BY Angles DEF Within
    <3> QED
      BY <3>1, SineNear
  <2>2. Sine[0] = 0 /\ Sine[u] \in Nat /\ Sine[v] \in Nat
    BY TableIs
  <2>3. Steepest * u + Steepest * v <= Steepest * d
    <3> DEFINE w == d - (u + v)
    <3>1. w \in Nat /\ d = u + v + w /\ u \in Nat /\ v \in Nat
      BY <1>4, Angles
    <3> HIDE DEF w
    <3>2. Steepest * d = Steepest * u + Steepest * v + Steepest * w /\ Steepest * w \in Nat
      BY <3>1, SteepestIs
    <3> QED
      BY <2>1, <3>2
  <2> QED
    BY <1>2, <2>1, <2>2, <2>3 DEF Within
<1>5. Within(LowerCosine(x), LowerCosine(y), Steepest * d)
  <2> DEFINE q == 3 * Quarter
  <2>1. CASE x <= q /\ y <= q
    <3> DEFINE u == q - x  v == q - y
    <3>1. u \in 0 .. Quarter /\ v \in 0 .. Quarter
      BY <1>1, <2>1
    <3>2. Within(u, v, d) /\ LowerCosine(x) = -Sine[u] /\ LowerCosine(y) = -Sine[v]
      BY <2>1, Angles DEF LowerCosine, Within
    <3> HIDE DEF u, v
    <3>3. Within(Sine[u], Sine[v], Steepest * d) /\ Sine[u] \in Int /\ Sine[v] \in Int
      BY <3>1, <3>2, SineNear, TableIs
    <3>4. Within(-Sine[u], -Sine[v], Steepest * d)
      BY <1>2, <3>3 DEF Within
    <3> QED
      BY <3>2, <3>4
  <2>2. CASE x <= q /\ ~(y <= q)
    <3> DEFINE u == q - x  v == y - q
    <3>1. u \in 0 .. Quarter /\ v \in 0 .. Quarter
      BY <1>1, <2>2
    <3>2. u + v <= d /\ LowerCosine(x) = -Sine[u] /\ LowerCosine(y) = Sine[v]
      BY <2>2, Angles DEF LowerCosine, Within
    <3> HIDE DEF u, v
    <3> QED
      BY <1>4, <3>1, <3>2
  <2>3. CASE ~(x <= q) /\ y <= q
    <3> DEFINE u == q - y  v == x - q
    <3>1. u \in 0 .. Quarter /\ v \in 0 .. Quarter
      BY <1>1, <2>3
    <3>2. u + v <= d /\ LowerCosine(y) = -Sine[u] /\ LowerCosine(x) = Sine[v]
      BY <2>3, Angles DEF LowerCosine, Within
    <3> HIDE DEF u, v
    <3> QED
      BY <1>4, <3>1, <3>2
  <2>4. CASE ~(x <= q) /\ ~(y <= q)
    <3> DEFINE u == x - q  v == y - q
    <3>1. u \in 0 .. Quarter /\ v \in 0 .. Quarter
      BY <1>1, <2>4
    <3>2. Within(u, v, d) /\ LowerCosine(x) = Sine[u] /\ LowerCosine(y) = Sine[v]
      BY <2>4, Angles DEF LowerCosine, Within
    <3> HIDE DEF u, v
    <3> QED
      BY <3>1, <3>2, SineNear
  <2> QED
    BY <2>1, <2>2, <2>3, <2>4
<1> QED
  BY <1>1, <1>2, <1>3, <1>5

-----------------------------------------------------------------------------
(* Below 2 pi the floats are whole, then even, then multiples of 4.        *)
LEMMA FloatBelow ==
  ASSUME NEW x \in Int, 0 <= x, x < 4 * Precision
  PROVE  /\ InRange(x) /\ Float(x) \in Int
         /\ x < Precision => Float(x) = x
         /\ Precision <= x /\ x < 2 * Precision =>
              \E h \in Int : Float(x) = 2 * h /\ Float(x) - x <= 1 /\ x - Float(x) <= 1
         /\ 2 * Precision <= x =>
              \E h \in Int : Float(x) = 4 * h /\ Float(x) - x <= 2 /\ x - Float(x) <= 2
<1>1. Abs(x) = x /\ Precision \in Nat
  BY Angles DEF Abs
<1>2. InRange(x) /\ Gap(x) <= 4
  BY <1>1, GapsAre, GapUpTo
<1>3. x < Precision => Float(x) = x
  BY <1>1, FloatSmall
<1>4. /\ Float(x) \in Int /\ Float(x) - x <= Err(x) /\ x - Float(x) <= Err(x)
      /\ \E k \in Int : Float(x) = k * Gap(x)
  BY <1>2, FloatIs
<1>5. ASSUME Precision <= x, x < 2 * Precision
      PROVE  \E h \in Int : Float(x) = 2 * h /\ Float(x) - x <= 1 /\ x - Float(x) <= 1
  <2>1. Gap(x) = 2 /\ 2 \div 2 = 1
    BY <1>1, <1>5, GapTwo
  <2>2. Err(x) = 1
    BY <2>1 DEF Err
  <2>3. PICK k \in Int : Float(x) = k * 2
    BY <1>4, <2>1
  <2>4. Float(x) = 2 * k
    BY <2>3
  <2> QED
    BY <1>4, <2>2, <2>4
<1>6. ASSUME 2 * Precision <= x
      PROVE  \E h \in Int : Float(x) = 4 * h /\ Float(x) - x <= 2 /\ x - Float(x) <= 2
  <2>1. /\ Gap(x) \in Nat \ {0} /\ Gap(x) \in Gaps
        /\ x < Precision * Gap(x)
    BY <1>1, <1>2, GapIs
  <2>2. Gap(x) # 1 /\ Gap(x) # 2
    BY <1>1, <1>6, <2>1
  <2>3. Gap(x) # 3
    <3>1. \A h \in Nat : 3 # 2 * h
      OBVIOUS
    <3> QED
      BY <2>1, <3>1, GapsAre
  <2>4. Gap(x) = 4 /\ 4 \div 2 = 2
    BY <1>2, <2>1, <2>2, <2>3
  <2>5. Err(x) = 2
    BY <2>4 DEF Err
  <2>6. PICK k \in Int : Float(x) = k * 4
    BY <1>4, <2>4
  <2>7. Float(x) = 4 * k
    BY <2>6
  <2> QED
    BY <1>4, <2>5, <2>7
<1> QED
  BY <1>2, <1>3, <1>4, <1>5, <1>6

\* An angle of the second half turn is rounded to a whole turn at most.
LEMMA TurnFloat ==
  ASSUME NEW z \in Pi .. TwoPi - 1
  PROVE  /\ Float(z) \in Int /\ Float(z) <= TwoPi
         /\ Within(Float(z), z, Err(TwoPi - 1)) /\ Err(TwoPi - 1) \in Nat
         /\ Float(z) - z <= 2 /\ Float(TwoPi) = TwoPi
<1> DEFINE a == Float(z)
<1>1. /\ z \in Int /\ 0 <= z /\ z < 4 * Precision /\ TwoPi \in Int
      /\ 0 <= TwoPi /\ TwoPi < 4 * Precision
  BY Angles
<1> DEFINE Rounding(x, y) ==
      /\ y \in Int
      /\ x < Precision => y = x
      /\ Precision <= x /\ x < 2 * Precision => \E h \in Int : y = 2 * h /\ y - x <= 1 /\ x - y <= 1
      /\ 2 * Precision <= x => \E h \in Int : y = 4 * h /\ y - x <= 2 /\ x - y <= 2
<1>2. Rounding(z, a)
  BY <1>1, FloatBelow
<1>3. Rounding(TwoPi, Float(TwoPi))
  BY <1>1, FloatBelow
<1>4. Within(a, z, Err(TwoPi - 1)) /\ Err(TwoPi - 1) \in Nat
  <2>1. Abs(z) <= Abs(TwoPi - 1) /\ TwoPi - 1 \in Int /\ 0 <= TwoPi - 1 /\ TwoPi - 1 < 4 * Precision
    BY <1>1, Angles DEF Abs
  <2>2. InRange(TwoPi - 1)
    BY <2>1, FloatBelow
  <2>3. InRange(z) /\ Err(z) \in Nat /\ Err(z) <= Err(TwoPi - 1)
    BY <1>1, <2>1, <2>2, ErrGrows
  <2>4. Err(TwoPi - 1) \in Nat
    BY <2>1, <2>2, ErrIs
  <2>5. a - z <= Err(z) /\ z - a <= Err(z) /\ a \in Int
    BY <1>1, <2>3, FloatIs
  <2> HIDE DEF a
  <2> QED
    BY <1>1, <2>3, <2>4, <2>5 DEF Within
<1> HIDE DEF a
<1>5. a <= TwoPi /\ a - z <= 2 /\ a \in Int
  <2>1. CASE z < Precision
    BY <1>1, <1>2, <2>1
  <2>2. CASE Precision <= z /\ z < 2 * Precision
    BY <1>1, <1>2, <2>2
  <2>3. CASE 2 * Precision <= z
    <3>1. PICK h \in Int : a = 4 * h /\ a - z <= 2
      BY <1>2, <2>3
    <3>2. 4 * h <= 4 * Quarter + 1
      BY <1>1, <3>1, Angles
    <3>3. h <= Quarter
      BY <3>2, Angles
    <3> QED
      BY <1>1, <3>1, <3>3, Angles
  <2> QED
    BY <1>1, <2>1, <2>2, <2>3, Angles
<1>6. Float(TwoPi) = TwoPi
  <2> DEFINE f == Float(TwoPi)
  <2>1. Rounding(TwoPi, f)
    BY <1>3
  <2> HIDE DEF f
  <2>2. CASE TwoPi < Precision
    BY <2>1, <2>2 DEF f
  <2>3. CASE Precision <= TwoPi /\ TwoPi < 2 * Precision
    <3>1. PICK h \in Int : f = 2 * h /\ f - TwoPi <= 1 /\ TwoPi - f <= 1
      BY <2>1, <2>3
    <3>2. h = 2 * Quarter
      BY <3>1, Angles
    <3> QED
      BY <3>1, <3>2, Angles DEF f
  <2>4. CASE 2 * Precision <= TwoPi
    <3>1. PICK h \in Int : f = 4 * h /\ f - TwoPi <= 2 /\ TwoPi - f <= 2
      BY <2>1, <2>4
    <3>2. h = Quarter
      BY <3>1, Angles
    <3> QED
      BY <3>1, <3>2, Angles DEF f
  <2> QED
    BY <1>1, <2>2, <2>3, <2>4, Angles
<1> QED
  BY <1>4, <1>5, <1>6 DEF a

\* An angle of the second half turn is rounded to one, and where the last
\* quarter is subtracted from it the difference fits into the table.
LEMMA LowerFloat ==
  ASSUME NEW z \in Pi .. TwoPi - 1, Float(z) < TwoPi
  PROVE  /\ Float(z) \in Pi .. TwoPi - 1
         /\ Within(Float(z), z, Err(TwoPi - 1)) /\ Err(TwoPi - 1) \in Nat
         /\ Float(3 * Quarter) \in Int
         /\ Within(Float(3 * Quarter), 3 * Quarter, Err(3 * Quarter)) /\ Err(3 * Quarter) \in Nat
         /\ 3 * Quarter <= Float(z) => Float(z) - Float(3 * Quarter) \in 0 .. Quarter
<1> DEFINE a == Float(z)  q == 3 * Quarter  f == Float(q)
<1>1. /\ z \in Int /\ 0 <= z /\ z < 4 * Precision /\ q \in Int /\ 0 <= q /\ q < 4 * Precision
      /\ Pi \in Int /\ TwoPi \in Int
  BY Angles
<1>2. PICK p \in Nat : Precision = 2 * p
  <2>1. Precision \in Nat /\ Precision % 2 = 0
    BY FloatAssumption
  <2> QED
    BY <2>1
<1> DEFINE Rounding(x, y) ==
      /\ y \in Int
      /\ x < Precision => y = x
      /\ Precision <= x /\ x < 2 * Precision => \E h \in Int : y = 2 * h /\ y - x <= 1 /\ x - y <= 1
      /\ 2 * Precision <= x => \E h \in Int : y = 4 * h /\ y - x <= 2 /\ x - y <= 2
<1>3. Rounding(z, a) /\ Rounding(q, f)
  BY <1>1, FloatBelow
<1>4. Within(a, z, Err(TwoPi - 1)) /\ Err(TwoPi - 1) \in Nat
  <2>1. Abs(z) <= Abs(TwoPi - 1) /\ TwoPi - 1 \in Int /\ 0 <= TwoPi - 1 /\ TwoPi - 1 < 4 * Precision
    BY <1>1, Angles DEF Abs
  <2>2. InRange(TwoPi - 1)
    BY <2>1, FloatBelow
  <2>3. InRange(z) /\ Err(z) \in Nat /\ Err(z) <= Err(TwoPi - 1)
    BY <1>1, <2>1, <2>2, ErrGrows
  <2>4. Err(TwoPi - 1) \in Nat
    BY <2>1, <2>2, ErrIs
  <2>5. a - z <= Err(z) /\ z - a <= Err(z) /\ a \in Int
    BY <1>1, <2>3, FloatIs
  <2> HIDE DEF a
  <2> QED
    BY <1>1, <2>3, <2>4, <2>5 DEF Within
<1>5. Within(f, q, Err(q)) /\ Err(q) \in Nat
  <2>1. InRange(q)
    BY <1>1, FloatBelow
  <2> HIDE DEF q
  <2> QED
    BY <1>1, <2>1, FloatIs, ErrIs DEF Within
<1> HIDE DEF a, f
<1>6. a \in Int /\ f \in Int
  BY <1>3
<1>7. Pi <= a
  <2>1. CASE z < Precision
    BY <1>1, <1>3, <2>1
  <2>2. CASE Precision <= z /\ z < 2 * Precision
    <3>1. PICK h \in Int : a = 2 * h /\ z - a <= 1
      BY <1>3, <2>2
    <3> QED
      BY <1>1, <3>1, Angles
  <2>3. CASE 2 * Precision <= z
    <3>1. PICK h \in Int : a = 4 * h /\ z - a <= 2
      BY <1>3, <2>3
    <3>2. 4 * h >= 4 * p - 2 /\ Precision = 2 * p
      BY <1>1, <1>2, <2>3, <3>1
    <3>3. h >= p
      BY <1>2, <3>2
    <3> QED
      BY <1>1, <1>2, <3>1, <3>3, Angles
  <2> QED
    BY <1>1, <1>2, <2>1, <2>2, <2>3
<1>8. ASSUME q <= a PROVE a - f \in 0 .. Quarter
  <2>1. a < TwoPi /\ Quarter \in Nat /\ q = 3 * Quarter /\ TwoPi = 4 * Quarter /\ Precision = 2 * p
        /\ Quarter < Precision
    BY <1>2, Angles DEF a
  <2> HIDE DEF q
  <2>2. CASE q < Precision
    <3>1. f = q
      BY <1>3, <2>2
    <3> QED
      BY <1>6, <1>8, <2>1, <3>1
  <2>3. CASE Precision <= q /\ q < 2 * Precision
    <3>1. PICK h \in Int : f = 2 * h /\ f - q <= 1 /\ q - f <= 1
      BY <1>3, <2>3
    <3>2. ~(z < Precision)
      BY <1>1, <1>2, <1>3, <1>8, <2>3
    <3>3. PICK k \in Int : a = 2 * k
      <4>1. CASE z < 2 * Precision
        BY <1>1, <1>2, <1>3, <3>2, <4>1
      <4>2. CASE ~(z < 2 * Precision)
        <5>1. PICK j \in Int : a = 4 * j
          BY <1>1, <1>2, <1>3, <4>2
        <5>2. a = 2 * (2 * j) /\ 2 * j \in Int
          BY <5>1
        <5> QED
          BY <5>2
      <4> QED
        BY <4>1, <4>2
    <3> QED
      BY <1>8, <2>1, <3>1, <3>3
  <2>4. CASE 2 * Precision <= q
    <3>1. PICK h \in Int : f = 4 * h /\ f - q <= 2 /\ q - f <= 2
      BY <1>3, <2>4
    <3>2. PICK k \in Int : a = 4 * k
      <4>1. CASE 2 * Precision <= z
        BY <1>3, <4>1
      <4>2. CASE ~(2 * Precision <= z)
        <5>1. ~(z < Precision)
          BY <1>1, <1>2, <1>3, <1>8, <2>1, <2>4
        <5>2. PICK j \in Int : a = 2 * j /\ a - z <= 1
          BY <1>1, <1>2, <1>3, <4>2, <5>1
        <5>3. a = 4 * p
          BY <1>1, <1>2, <1>8, <2>1, <2>4, <4>2, <5>2
        <5> QED
          BY <1>2, <5>3
      <4> QED
        BY <4>1, <4>2
    <3> QED
      BY <1>8, <2>1, <3>1, <3>2
  <2> QED
    BY <1>1, <1>2, <2>2, <2>3, <2>4
<1>9. a \in Pi .. TwoPi - 1
  BY <1>1, <1>6, <1>7 DEF a
<1> QED
  BY <1>4, <1>5, <1>6, <1>8, <1>9 DEF a, f

\* foc_trig_reduce on what foc_wrap_pi returns.
LEMMA ReduceIs ==
  ASSUME NEW e \in -Pi .. Pi - 1, Float(e) = e, NEW a \in foc_trig_reduce(e)
  PROVE  a = IF 0 <= e THEN e ELSE Float(e + TwoPi)
<1>1. CASE 0 <= e
  <2>1. e \in 0 .. TwoPi - 1
    BY <1>1, Angles
  <2> QED
    BY <1>1, <2>1 DEF foc_trig_reduce
<1>2. CASE ~(0 <= e)
  <2>1. e \in Int /\ e < 0 /\ e \notin 0 .. TwoPi - 1 /\ Abs(e) < Precision * 2
    BY <1>2, Angles DEF Abs
  <2>2. PICK n \in WholeTurns(e) :
          a = LET b == Unwound(e, n) IN IF b < 0 THEN Float(b + TwoPi) ELSE b
    BY <2>1 DEF foc_trig_reduce
  <2>3. PICK j \in -2 .. 2 : n = Truncated(e + j * Gap(e))
    BY DEF WholeTurns
  <2>4. Gap(e) \in Nat /\ Gap(e) <= 2
    BY <2>1, GapsAre, GapUpTo, GapIs
  <2> DEFINE c == e + j * Gap(e)
  <2>5. c \in Int /\ c < TwoPi /\ -c < TwoPi
    <3>1. j = -2 \/ j = -1 \/ j = 0 \/ j = 1 \/ j = 2
      OBVIOUS
    <3> DEFINE g == Gap(e)
    <3>2. g \in 0 .. 2 /\ c = e + j * g
      BY <2>4
    <3> HIDE DEF g, c
    <3>3. j * g \in Int /\ j * g <= 4 /\ -4 <= j * g
      BY <3>1, <3>2
    <3> QED
      BY <1>2, <3>2, <3>3, Angles
  <2> HIDE DEF c
  <2>6. n = 0
    <3> DEFINE T == TwoPi
    <3>1. T \in Nat \ {0} /\ c < T /\ -c < T
      BY <2>5, Angles
    <3> HIDE DEF T
    <3>2. c < 0 => (-c) \div T = 0
      BY <2>5, <3>1
    <3>3. ~(c < 0) => c \div T = 0
      BY <2>5, <3>1
    <3>4. Truncated(c) = 0
      <4>1. CASE c < 0
        <5> DEFINE m == (-c) \div T
        <5>1. Truncated(c) = -m /\ m \in Int /\ m <= 0 /\ 0 <= m
          BY <3>2, <4>1 DEF Truncated, T
        <5> HIDE DEF m
        <5>2. -m \in Int /\ -m <= 0 /\ 0 <= -m
          BY <5>1
        <5> QED
          BY <5>1, <5>2
      <4>2. CASE ~(c < 0)
        BY <3>3, <4>2 DEF Truncated, T
      <4> QED
        BY <4>1, <4>2
    <3> QED
      BY <2>3, <3>4 DEF c
  <2>7. Unwound(e, n) = e
    <3>1. n * TwoPi = 0
      BY <2>6, Angles
    <3>2. Abs(0) < Precision /\ 0 \in Int
      BY Angles DEF Abs
    <3>3. Float(0) = 0
      BY <3>2, FloatSmall
    <3>4. e - 0 = e
      BY <2>1
    <3> QED
      BY <3>1, <3>3, <3>4 DEF Unwound
  <2> QED
    BY <2>1, <2>2, <2>7
<1> QED
  BY <1>1, <1>2

\* The quadrant, and the angle in it.
LEMMA QuadrantIs ==
  ASSUME NEW a \in 0 .. TwoPi - 1, NEW k \in 0 .. 3, k * Quarter <= a, a < (k + 1) * Quarter
  PROVE  a \div Quarter = k
<1> DEFINE r == a - k * Quarter  n == Quarter
<1>1. n \in Nat \ {0} /\ k * n \in Int /\ (k + 1) * n = k * n + n /\ a \in Int
  BY Angles
<1>2. r \in 0 .. n - 1 /\ a = n * k + r
  BY <1>1
<1> HIDE DEF n, r
<1>3. (n * k + r) \div n = k
  BY <1>1, <1>2
<1> QED
  BY <1>2, <1>3 DEF n

LEMMA ShortIs ==
  ASSUME NEW x \in 0 .. Quarter
  PROVE  Float(x) = x
BY Angles, FloatSmall DEF Abs

LEMMA HalfIs == Float(2 * Quarter) = 2 * Quarter /\ Float(1 * Quarter) = Quarter /\ Float(0 * Quarter) = 0
<1>1. Quarter \in 0 .. Quarter /\ 0 \in 0 .. Quarter /\ 1 * Quarter = Quarter /\ 0 * Quarter = 0
  BY Angles
<1>2. Abs(2 * Quarter) < 2 * Precision /\ 2 * Quarter \in Int
  BY Angles DEF Abs
<1>3. Float(2 * Quarter) = 2 * Quarter
  BY <1>1, <1>2, FloatEven, Angles
<1> QED
  BY <1>1, <1>3, ShortIs

\* foc_sincos, quadrant by quadrant.
LEMMA SincosIs ==
  ASSUME NEW a \in 0 .. TwoPi - 1, NEW k \in 0 .. 3, k * Quarter <= a, a < (k + 1) * Quarter,
         NEW u, u = a - Float(k * Quarter), u \in 0 .. Quarter
  PROVE  foc_sincos(a) = Folded(k, foc_sin_lookup(u), foc_sin_lookup(Quarter - u))
<1>1. a \div Quarter = k
  BY QuadrantIs
<1>2. Float(a - Float(k * Quarter)) = u
  BY ShortIs
<1> QED
  BY <1>1, <1>2 DEF foc_sincos

\* The table, from here on only through its lookup.
LEMMA UpperFrame ==
  ASSUME NEW e \in 0 .. Pi - 1
  PROVE  /\ foc_sincos(e).s \in Int /\ Sin(e) \in Int /\ Within(foc_sincos(e).s, Sin(e), 4)
         /\ foc_sincos(e).c \in Int /\ Cos(e) \in Int /\ Within(foc_sincos(e).c, Cos(e), 4)
<1>1. e \in 0 .. TwoPi - 1
  BY Angles
<1>2. CASE e < Quarter
  <2> DEFINE u == e - Float(0 * Quarter)
  <2>1. u = e /\ u \in 0 .. Quarter /\ Quarter - u \in 0 .. Quarter
        /\ 0 * Quarter <= e /\ e < (0 + 1) * Quarter
    BY <1>2, HalfIs, Angles
  <2> HIDE DEF u
  <2>2. foc_sincos(e) = Folded(0, foc_sin_lookup(u), foc_sin_lookup(Quarter - u))
    BY <1>1, <2>1, SincosIs DEF u
  <2>3. foc_sincos(e).s = foc_sin_lookup(u) /\ foc_sincos(e).c = foc_sin_lookup(Quarter - u)
    BY <2>2 DEF Folded
  <2>4. Sin(e) = Sine[u] /\ Cos(e) = Sine[Quarter - u]
    BY <1>2, <2>1, UpperIs
  <2>5. Sine[u] \in Int /\ Sine[Quarter - u] \in Int
    BY <2>1, TableIs
  <2> QED
    BY <2>1, <2>3, <2>4, <2>5, LookupIs
<1>3. CASE ~(e < Quarter)
  <2> DEFINE u == e - Float(1 * Quarter)
  <2>1. u = e - Quarter /\ u \in 0 .. Quarter /\ Quarter - u \in 0 .. Quarter
        /\ Pi - e = Quarter - u /\ 1 * Quarter <= e /\ e < (1 + 1) * Quarter
    BY <1>3, HalfIs, Angles
  <2> HIDE DEF u
  <2>2. foc_sincos(e) = Folded(1, foc_sin_lookup(u), foc_sin_lookup(Quarter - u))
    BY <1>1, <2>1, SincosIs DEF u
  <2>3. foc_sincos(e).s = foc_sin_lookup(Quarter - u) /\ foc_sincos(e).c = -foc_sin_lookup(u)
    BY <2>2 DEF Folded
  <2>4. Sin(e) = Sine[Quarter - u] /\ Cos(e) = -Sine[u]
    BY <1>3, <2>1, UpperIs, Angles
  <2>5. Sine[u] \in Int /\ Sine[Quarter - u] \in Int
    BY <2>1, TableIs
  <2>6. /\ foc_sin_lookup(u) \in Int /\ Within(foc_sin_lookup(u), Sine[u], 4)
        /\ foc_sin_lookup(Quarter - u) \in Int
        /\ Within(foc_sin_lookup(Quarter - u), Sine[Quarter - u], 4)
    BY <2>1, LookupIs
  <2>7. Within(-foc_sin_lookup(u), -Sine[u], 4)
    BY <2>5, <2>6 DEF Within
  <2> QED
    BY <2>3, <2>4, <2>5, <2>6, <2>7
<1> QED
  BY <1>2, <1>3

LEMMA LowerFrame ==
  ASSUME NEW e \in -Pi .. -1, NEW a, a = Float(e + TwoPi), a < TwoPi
  PROVE  /\ foc_sincos(a).s \in Int /\ Sin(e) \in Int /\ Tolerance(e) \in Nat
         /\ Within(foc_sincos(a).s, Sin(e), Tolerance(e))
         /\ foc_sincos(a).c \in Int /\ Cos(e) \in Int
         /\ Within(foc_sincos(a).c, Cos(e), Tolerance(e))
<1> DEFINE z == e + TwoPi  d1 == Err(TwoPi - 1)  d2 == Err(3 * Quarter)
<1>1. z \in Pi .. TwoPi - 1 /\ z \in Pi .. TwoPi /\ a = Float(z) /\ e < 0
  BY Angles
<1>2. Sin(e) = LowerSine(z) /\ Cos(e) = LowerCosine(z)
  BY LowerIs
<1> HIDE DEF z
<1>3. /\ a \in Pi .. TwoPi - 1
      /\ Within(a, z, d1) /\ d1 \in Nat
      /\ Float(3 * Quarter) \in Int
      /\ Within(Float(3 * Quarter), 3 * Quarter, d2) /\ d2 \in Nat
      /\ 3 * Quarter <= a => a - Float(3 * Quarter) \in 0 .. Quarter
  BY <1>1, LowerFloat
<1> DEFINE t1 == Steepest * d1  t2 == Steepest * d2
<1>4. a \in Pi .. TwoPi /\ a \in 0 .. TwoPi - 1
  BY <1>3, Angles
<1>5. /\ LowerSine(a) \in Int /\ LowerSine(z) \in Int
      /\ LowerCosine(a) \in Int /\ LowerCosine(z) \in Int /\ t1 \in Nat
      /\ Within(LowerSine(a), LowerSine(z), t1)
      /\ Within(LowerCosine(a), LowerCosine(z), t1)
  BY <1>1, <1>3, <1>4, LowerNear
<1>6. t2 \in Nat /\ Tolerance(e) = 4 + t1 + t2
  <2>1. t2 \in Nat
    BY <1>3, SteepestIs
  <2>2. Tolerance(e) = 4 + Steepest * (d1 + d2)
    BY <1>1 DEF Tolerance
  <2> HIDE DEF d1, d2
  <2>3. Steepest * (d1 + d2) = t1 + t2
    BY <1>3, SteepestIs
  <2> HIDE DEF t1, t2
  <2> QED
    BY <1>5, <2>1, <2>2, <2>3
<1>7. \E x, y \in Int :
        /\ foc_sincos(a).s \in Int /\ Within(foc_sincos(a).s, x, 4) /\ Within(x, LowerSine(a), t2)
        /\ foc_sincos(a).c \in Int /\ Within(foc_sincos(a).c, y, 4) /\ Within(y, LowerCosine(a), t2)
  <2>1. CASE a < 3 * Quarter
    <3> DEFINE u == a - Float(2 * Quarter)
    <3>1. u = a - Pi /\ u \in 0 .. Quarter /\ Quarter - u \in 0 .. Quarter
          /\ 3 * Quarter - a = Quarter - u /\ 2 * Quarter <= a /\ a < (2 + 1) * Quarter
      BY <1>3, <2>1, HalfIs, Angles
    <3> HIDE DEF u
    <3>2. foc_sincos(a) = Folded(2, foc_sin_lookup(u), foc_sin_lookup(Quarter - u))
      BY <1>4, <3>1, SincosIs DEF u
    <3>3. foc_sincos(a).s = -foc_sin_lookup(u) /\ foc_sincos(a).c = -foc_sin_lookup(Quarter - u)
      BY <3>2 DEF Folded
    <3>4. LowerSine(a) = -Sine[u] /\ LowerCosine(a) = -Sine[Quarter - u]
      BY <1>3, <2>1, <3>1, Angles DEF LowerSine, LowerCosine
    <3>5. /\ Sine[u] \in Int /\ Sine[Quarter - u] \in Int
          /\ foc_sin_lookup(u) \in Int /\ Within(foc_sin_lookup(u), Sine[u], 4)
          /\ foc_sin_lookup(Quarter - u) \in Int
          /\ Within(foc_sin_lookup(Quarter - u), Sine[Quarter - u], 4)
      BY <3>1, TableIs, LookupIs
    <3>6. /\ Within(-foc_sin_lookup(u), -Sine[u], 4)
          /\ Within(-foc_sin_lookup(Quarter - u), -Sine[Quarter - u], 4)
          /\ -Sine[u] \in Int /\ -Sine[Quarter - u] \in Int
      BY <3>5 DEF Within
    <3>7. \A x \in Int : Within(x, x, t2)
      BY <1>6 DEF Within
    <3> QED
      BY <3>3, <3>4, <3>5, <3>6, <3>7
  <2>2. CASE ~(a < 3 * Quarter)
    <3> DEFINE u == a - Float(3 * Quarter)  v == a - 3 * Quarter
    <3>1. u \in 0 .. Quarter /\ Quarter - u \in 0 .. Quarter /\ v \in 0 .. Quarter
          /\ Quarter - v \in 0 .. Quarter /\ TwoPi - a = Quarter - v
          /\ 3 * Quarter <= a /\ a < (3 + 1) * Quarter
          /\ (a <= 3 * Quarter => v = 0 /\ a - Pi = Quarter - v /\ 3 * Quarter - a = v)
      BY <1>3, <2>2, Angles
    <3>2. Within(u, v, d2) /\ Within(Quarter - u, Quarter - v, d2)
      BY <1>3, Angles DEF Within
    <3>3. LowerSine(a) = -Sine[Quarter - v] /\ LowerCosine(a) = Sine[v]
      <4> HIDE DEF v
      <4>1. LowerSine(a) = -Sine[Quarter - v]
        BY <3>1 DEF LowerSine
      <4>2. CASE a <= 3 * Quarter
        BY <3>1, <4>1, <4>2, NoSine DEF LowerCosine
      <4>3. CASE ~(a <= 3 * Quarter)
        BY <4>1, <4>3 DEF LowerCosine, v
      <4> QED
        BY <4>2, <4>3
    <3> HIDE DEF u, v
    <3>4. foc_sincos(a) = Folded(3, foc_sin_lookup(u), foc_sin_lookup(Quarter - u))
      BY <1>4, <3>1, SincosIs DEF u
    <3>5. foc_sincos(a).s = -foc_sin_lookup(Quarter - u) /\ foc_sincos(a).c = foc_sin_lookup(u)
      BY <3>4 DEF Folded
    <3>6. /\ Sine[u] \in Int /\ Sine[Quarter - u] \in Int /\ Sine[v] \in Int /\ Sine[Quarter - v] \in Int
          /\ foc_sin_lookup(u) \in Int /\ Within(foc_sin_lookup(u), Sine[u], 4)
          /\ foc_sin_lookup(Quarter - u) \in Int
          /\ Within(foc_sin_lookup(Quarter - u), Sine[Quarter - u], 4)
      BY <3>1, TableIs, LookupIs
    <3>7. Within(Sine[u], Sine[v], t2)
      BY <1>3, <3>1, <3>2, SineNear
    <3>8. Within(Sine[Quarter - u], Sine[Quarter - v], t2)
      BY <1>3, <3>1, <3>2, SineNear
    <3>9. Within(-Sine[Quarter - u], -Sine[Quarter - v], t2) /\ -Sine[Quarter - u] \in Int
          /\ Within(-foc_sin_lookup(Quarter - u), -Sine[Quarter - u], 4)
      BY <1>6, <3>6, <3>8 DEF Within
    <3> QED
      BY <3>3, <3>5, <3>6, <3>7, <3>9
  <2> QED
    BY <2>1, <2>2
<1> HIDE DEF t1, t2
<1>8. PICK x \in Int, y \in Int :
        /\ foc_sincos(a).s \in Int /\ Within(foc_sincos(a).s, x, 4) /\ Within(x, LowerSine(a), t2)
        /\ foc_sincos(a).c \in Int /\ Within(foc_sincos(a).c, y, 4) /\ Within(y, LowerCosine(a), t2)
  BY <1>7
<1>9. Within(foc_sincos(a).s, LowerSine(z), 4 + t1 + t2)
  BY <1>5, <1>6, <1>8 DEF Within
<1>10. Within(foc_sincos(a).c, LowerCosine(z), 4 + t1 + t2)
  BY <1>5, <1>6, <1>8 DEF Within
<1>11. 4 + t1 + t2 \in Nat
  BY <1>5, <1>6
<1> QED
  BY <1>2, <1>5, <1>6, <1>8, <1>9, <1>10, <1>11

\* The frame of an angle that was reduced to a whole turn.
LEMMA TurnFrame ==
  ASSUME NEW e \in -Pi .. -1, Float(e + TwoPi) = TwoPi
  PROVE  /\ e \in -Err(TwoPi - 1) .. -1 /\ Err(TwoPi - 1) \in Nat /\ Tolerance(e) \in Nat
         /\ foc_sincos(TwoPi).s \in Int /\ Sin(e - Quarter) \in Int
         /\ Within(foc_sincos(TwoPi).s, Sin(e - Quarter), Tolerance(e))
         /\ foc_sincos(TwoPi).c \in Int /\ Cos(e - Quarter) \in Int
         /\ Within(foc_sincos(TwoPi).c, Cos(e - Quarter), Tolerance(e))
<1> DEFINE d1 == Err(TwoPi - 1)  d2 == Err(3 * Quarter)
           t1 == Steepest * d1   t2 == Steepest * d2
           z == e + TwoPi        f == e - Quarter
<1>1. z \in Pi .. TwoPi - 1 /\ Float(z) = TwoPi /\ TwoPi \in Int
  BY Angles
<1>2. /\ d1 \in Nat /\ TwoPi - z <= d1 /\ TwoPi - z <= 2 /\ Float(TwoPi) = TwoPi
  <2> HIDE DEF d1, z
  <2>1. Within(Float(z), z, d1) /\ d1 \in Nat /\ Float(z) - z <= 2 /\ Float(TwoPi) = TwoPi
    BY <1>1, TurnFloat DEF d1
  <2> QED
    BY <1>1, <2>1 DEF Within
<1>3. /\ e \in -d1 .. -1 /\ -e \in 0 .. d1 /\ -2 <= e /\ e < 0
  BY <1>1, <1>2, Angles
<1>4. d2 \in Nat
  <2>1. 3 * Quarter \in Int /\ 0 <= 3 * Quarter /\ 3 * Quarter < 4 * Precision
    BY Angles
  <2>2. InRange(3 * Quarter)
    BY <2>1, FloatBelow
  <2> QED
    BY <2>1, <2>2, ErrIs
<1>5. t1 \in Nat /\ t2 \in Nat /\ Tolerance(e) = 4 + t1 + t2
  <2>1. t1 \in Nat /\ t2 \in Nat
    BY <1>2, <1>4, SteepestIs
  <2>2. Tolerance(e) = 4 + Steepest * (d1 + d2)
    BY <1>3 DEF Tolerance
  <2> HIDE DEF d1, d2
  <2>3. Steepest * (d1 + d2) = t1 + t2
    BY <1>2, <1>4, SteepestIs
  <2> HIDE DEF t1, t2
  <2> QED
    BY <2>1, <2>2, <2>3
<1>6. foc_sincos(TwoPi).s = -foc_sin_lookup(Quarter) /\ foc_sincos(TwoPi).c = foc_sin_lookup(0)
  <2>1. TwoPi \div Quarter = 4
    <3> DEFINE n == Quarter
    <3>1. n \in Nat \ {0} /\ TwoPi = n * 4 + 0
      BY Angles
    <3> HIDE DEF n
    <3>2. (n * 4 + 0) \div n = 4
      BY <3>1
    <3> QED
      BY <3>1, <3>2 DEF n
  <2>2. Float(TwoPi - Float(4 * Quarter)) = 0 /\ Quarter - 0 = Quarter
    <3>1. 4 * Quarter = TwoPi /\ TwoPi - TwoPi = 0 /\ 0 \in 0 .. Quarter
      BY Angles
    <3> QED
      BY <1>2, <3>1, ShortIs, Angles
  <2>3. foc_sincos(TwoPi) = Folded(4, foc_sin_lookup(0), foc_sin_lookup(Quarter))
    BY <2>1, <2>2 DEF foc_sincos
  <2> QED
    BY <2>3 DEF Folded
<1>7. Sin(f) = -Sine[Quarter + e] /\ Cos(f) = -Sine[-e]
  <2>1. /\ f \in -Pi .. -1 /\ f + TwoPi = 3 * Quarter + e /\ f + Quarter = e
        /\ 3 * Quarter + e <= 3 * Quarter /\ 3 * Quarter + e - Pi = Quarter + e
        /\ z > 3 * Quarter /\ TwoPi - z = -e
    BY <1>3, Angles
  <2>2. Sin(f) = LowerSine(f + TwoPi) /\ Sin(e) = LowerSine(z)
    <3> HIDE DEF f
    <3> QED
      BY <2>1, LowerIs DEF z
  <2>3. Sin(f) = -Sine[Quarter + e]
    <3> DEFINE y == f + TwoPi
    <3>1. y <= 3 * Quarter /\ y - Pi = Quarter + e
      BY <1>3, Angles
    <3> HIDE DEF f, y
    <3>2. LowerSine(y) = -Sine[Quarter + e]
      BY <3>1 DEF LowerSine
    <3> QED
      BY <2>2, <3>2 DEF y
  <2>4. Sin(e) = -Sine[-e]
    <3>1. ~(z <= 3 * Quarter)
      BY <1>1, <2>1, Angles
    <3> HIDE DEF z
    <3> QED
      BY <2>1, <2>2, <3>1 DEF LowerSine
  <2> QED
    BY <2>1, <2>3, <2>4 DEF Cos
<1>8. /\ Quarter + e \in 0 .. Quarter /\ -e \in 0 .. Quarter /\ 0 \in 0 .. Quarter
      /\ Quarter \in 0 .. Quarter
      /\ Within(Quarter, Quarter + e, d1) /\ Within(0, -e, d1)
  BY <1>2, <1>3, Angles DEF Within
<1> HIDE DEF d1, d2, f, z
<1>9. Within(Sine[Quarter], Sine[Quarter + e], t1) /\ Within(Sine[0], Sine[-e], t1)
  BY <1>2, <1>8, SineNear
<1> HIDE DEF t1, t2
<1>10. /\ Sine[Quarter] \in Int /\ Sine[Quarter + e] \in Int /\ Sine[-e] \in Int
       /\ Sine[0] \in Int /\ Sine[0] = 0
  BY <1>8, TableIs
<1>11. /\ foc_sin_lookup(Quarter) \in Int /\ Within(foc_sin_lookup(Quarter), Sine[Quarter], 4)
       /\ foc_sin_lookup(0) \in Int /\ Within(foc_sin_lookup(0), Sine[0], 4)
  BY <1>8, LookupIs
<1>12. /\ foc_sincos(TwoPi).s \in Int /\ Sin(f) \in Int
       /\ Within(foc_sincos(TwoPi).s, Sin(f), Tolerance(e))
  <2> DEFINE u == foc_sin_lookup(Quarter)  v == Sine[Quarter + e]
  <2>1. u \in Int /\ v \in Int /\ Within(-u, -v, 4 + t1 + t2)
    BY <1>5, <1>9, <1>10, <1>11 DEF Within
  <2> HIDE DEF u, v
  <2>2. -u \in Int /\ -v \in Int
    BY <2>1
  <2> QED
    BY <1>5, <1>6, <1>7, <2>1, <2>2 DEF u, v
<1>13. /\ foc_sincos(TwoPi).c \in Int /\ Cos(f) \in Int
       /\ Within(foc_sincos(TwoPi).c, Cos(f), Tolerance(e))
  <2> DEFINE u == foc_sin_lookup(0)  v == Sine[-e]
  <2>1. u \in Int /\ v \in Int /\ Within(u, -v, 4 + t1 + t2)
    BY <1>5, <1>9, <1>10, <1>11 DEF Within
  <2> HIDE DEF u, v
  <2>2. -v \in Int
    BY <2>1
  <2> QED
    BY <1>5, <1>6, <1>7, <2>1, <2>2 DEF u, v
<1> QED
  BY <1>2, <1>3, <1>5, <1>12, <1>13 DEF d1, f

(* The electrical angle that the code computes in floats is in [-pi, pi)   *)
(* and the rotor's but for its roundings, for every precision, number of   *)
(* pole pairs and way the rotor turned that leaves floats closer together  *)
(* than a quarter of a turn (foc_math.c:55-78, cal_abi_align.c:113-115).   *)
THEOREM ElecIsTheRotors == Spec => []ElecIsRotors
<1>1. ASSUME Inv1, ScanInv2, ZeroInv PROVE ElecIsRotors
  <2> SUFFICES ASSUME Commutated, Limited, NEW e \in ElecAngles
               PROVE  /\ e \in -Pi .. Pi - 1
                      /\ (Scale * e - 2 * pos * PP * TwoPi + Slack) % (Scale * TwoPi) <= 2 * Slack
    BY DEF ElecIsRotors
  <2> QED
    BY <1>1, ElecAnglesAre
<1> QED
  BY <1>1, Invariant3, PTL

(* Voltages and currents are turned by that angle in all four quadrants,   *)
(* across the ends of the table and of the turn, for every sine that is    *)
(* nowhere too steep and every table that is fine enough                   *)
(* (foc_trig.c:93-184); but by a quarter of a turn less where a negative   *)
(* angle within a rounding of 0 is reduced to a whole turn                 *)
(* (foc_trig.c:41-43), and nowhere else.                                   *)
THEOREM FrameIsTheRotors == Spec => []FrameIsRotors
<1>1. ASSUME Inv1, ScanInv2, ZeroInv PROVE FrameIsRotors
  <2> SUFFICES ASSUME Commutated, Limited, NEW e \in ElecAngles,
                      NEW a \in foc_trig_reduce(e)
               PROVE  /\ a \in 0 .. TwoPi
                      /\ a = TwoPi => e \in -Err(TwoPi - 1) .. -1
                      /\ Abs(foc_sincos(a).s - Sin(FrameAngle(a, e))) <= Tolerance(e)
                      /\ Abs(foc_sincos(a).c - Cos(FrameAngle(a, e))) <= Tolerance(e)
    BY DEF FrameIsRotors
  <2>1. e \in -Pi .. Pi - 1 /\ Float(e) = e
    BY <1>1, ElecAnglesAre
  <2>2. a = IF 0 <= e THEN e ELSE Float(e + TwoPi)
    BY <2>1, ReduceIs
  <2>3. ASSUME NEW x \in Int, NEW y \in Int, Within(x, y, Tolerance(e)), Tolerance(e) \in Nat
        PROVE  Abs(x - y) <= Tolerance(e)
    BY <2>3 DEF Within, Abs
  <2>4. CASE 0 <= e
    <3>1. e \in 0 .. Pi - 1 /\ a = e /\ ~(e < 0) /\ a \in 0 .. TwoPi /\ a # TwoPi
      BY <2>1, <2>2, <2>4, Angles
    <3>2. Tolerance(e) = 4 /\ FrameAngle(a, e) = e
      BY <3>1 DEF Tolerance, FrameAngle
    <3> QED
      BY <2>3, <3>1, <3>2, UpperFrame
  <2>5. CASE ~(0 <= e)
    <3>1. e \in -Pi .. -1 /\ a = Float(e + TwoPi) /\ e + TwoPi \in Pi .. TwoPi - 1
      BY <2>1, <2>2, <2>5, Angles
    <3>2. a \in Int /\ a <= TwoPi /\ TwoPi \in Int
      BY <3>1, TurnFloat, Angles
    <3>3. CASE a = TwoPi
      <4>1. FrameAngle(a, e) = e - Quarter /\ a \in 0 .. TwoPi
        BY <3>3, Angles DEF FrameAngle
      <4> QED
        BY <2>3, <3>1, <3>3, <4>1, TurnFrame
    <3>4. CASE a # TwoPi
      <4>1. FrameAngle(a, e) = e /\ a < TwoPi
        BY <3>2, <3>4 DEF FrameAngle
      <4>2. a \in 0 .. TwoPi
        <5>1. a \in Pi .. TwoPi - 1
          BY <3>1, <4>1, LowerFloat
        <5> QED
          BY <5>1, Angles
      <4> QED
        BY <2>3, <3>1, <3>4, <4>1, <4>2, LowerFrame
    <3> QED
      BY <3>3, <3>4
  <2> QED
    BY <2>4, <2>5
<1> QED
  BY <1>1, Invariant3, PTL
=============================================================================

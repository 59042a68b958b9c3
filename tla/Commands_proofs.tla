---------------------------- MODULE Commands_proofs ----------------------------
(***************************************************************************)
(* Proofs about what carries a command from the console to the control     *)
(* steps.  First the double buffer, for every struct, every number of      *)
(* writes and both priorities, provided that at most one write begins      *)
(* during a read when the writer is the one that preempts; and, from it,   *)
(* the command buffer, for a reader of higher priority than the writer,    *)
(* as motor_slow_step is.  Then the debug CLI, for every set of lines and  *)
(* parameters, length of the line buffer and rate of the ticks.            *)
(***************************************************************************)
EXTENDS CommandBuffer, DebugCli, SequenceTheorems, WellFoundedInduction, TLAPS


OneOverlap == ReaderFirst \/ MaxOverlap <= 1

LEMMA WholeType == \A n \in Nat : Whole(n) \in [Word -> Nat]
BY DEF Whole

LEMMA InitIInv == Init => IInv
<1> SUFFICES ASSUME Init PROVE IInv
  OBVIOUS
<1>1. Whole(0) \in [Word -> Nat]
  BY WholeType
<1>2. data \in [Slot -> [Word -> Nat]] /\ data[index] = Whole(0)
  BY <1>1 DEF Init, Slot
<1> QED
  BY <1>1, <1>2 DEF Init, IInv, TypeOK, Untorn, Slot

(* The steps of the writer preserve the invariant.                         *)
LEMMA WriterIInv ==
  ASSUME OneOverlap, IInv, WriteBegin \/ WriteWord \/ WriteSwap
  PROVE  IInv'
<1> USE DEF Slot
<1>1. CASE WriteBegin
  <2> USE <1>1 DEF WriteBegin, WriterRuns, reader
  <2>1. TypeOK'
    BY BoundsAssumption DEF IInv, TypeOK
  <2>2. reading => (index = rslot /\ overlap = 0) \/ ReaderFirst
    BY BoundsAssumption, ReaderFirstAssumption DEF IInv, TypeOK, OneOverlap
  <2>3. reading => index = rslot /\ overlap' = 1
    BY <2>2, BoundsAssumption, ReaderFirstAssumption DEF IInv, TypeOK, OneOverlap
  <2> QED
    BY <2>1, <2>2, <2>3 DEF IInv, TypeOK, Untorn, Whole
<1>2. CASE WriteWord
  <2> USE <1>2 DEF WriteWord, WriterRuns, reader
  <2>1. PICK w \in wtodo : /\ data' = [data EXCEPT ![wslot][w] = seq]
                           /\ wtodo' = wtodo \ {w}
    OBVIOUS
  <2>2. TypeOK'
    BY <2>1 DEF IInv, TypeOK
  <2>3. data'[index] = data[index]
    BY <2>1 DEF IInv, TypeOK
  <2>4. \A v \in Word \ wtodo' : data'[wslot][v] = seq
    BY <2>1 DEF IInv, TypeOK
  <2>5. reading => index = rslot
    BY DEF IInv
  <2> QED
    BY <2>2, <2>3, <2>4, <2>5 DEF IInv, Untorn, Whole
<1>3. CASE WriteSwap
  <2> USE <1>3 DEF WriteSwap, WriterRuns, reader
  <2>1. TypeOK'
    BY DEF IInv, TypeOK
  <2>2. data[wslot] = Whole(seq)
    BY DEF IInv, TypeOK, Whole
  <2> QED
    BY <2>1, <2>2, ReaderFirstAssumption DEF IInv, TypeOK, Untorn, Whole
<1> QED
  BY <1>1, <1>2, <1>3

(* The steps of the reader do, too.                                        *)
LEMMA ReaderIInv ==
  ASSUME IInv, ReadBegin \/ ReadWord \/ ReadEnd
  PROVE  IInv'
<1> USE DEF Slot
<1>1. CASE ReadBegin
  BY <1>1, ReaderFirstAssumption
  DEF ReadBegin, ReaderRuns, writer, IInv, TypeOK, Untorn, Whole
<1>2. CASE ReadWord
  <2> USE <1>2 DEF ReadWord, ReaderRuns, writer
  <2>1. PICK w \in rtodo : /\ out' = [out EXCEPT ![w] = data[rslot][w]]
                           /\ rtodo' = rtodo \ {w}
    OBVIOUS
  <2>2. data[rslot][w] = snap
    BY <2>1 DEF IInv, TypeOK, Whole
  <2>3. TypeOK'
    BY <2>1, <2>2 DEF IInv, TypeOK
  <2>4. \A v \in Word \ rtodo' : out'[v] = snap
    BY <2>1, <2>2 DEF IInv, TypeOK
  <2> QED
    BY <2>3, <2>4 DEF IInv, Untorn, Whole
<1>3. CASE ReadEnd
  <2> USE <1>3 DEF ReadEnd, ReaderRuns, writer
  <2>1. out = Whole(snap)
    BY DEF IInv, TypeOK, Whole
  <2> QED
    BY <2>1 DEF IInv, TypeOK, Untorn, Whole
<1> QED
  BY <1>1, <1>2, <1>3

LEMMA NextIInv ==
  ASSUME OneOverlap, IInv, [Next]_vars
  PROVE  IInv'
<1>1. CASE UNCHANGED vars
  BY <1>1 DEF vars, writer, reader, IInv, TypeOK, Untorn, Whole, Slot
<1> QED
  BY <1>1, WriterIInv, ReaderIInv DEF Next

(* The invariant of the double buffer.                                     *)
THEOREM Invariant == ASSUME OneOverlap PROVE Spec => []IInv
<1>1. IInv /\ [Next]_vars => IInv'
  BY NextIInv
<1> QED
  BY <1>1, InitIInv, PTL DEF Spec

(* Both slots, indices and the reader's copy keep their types.             *)
THEOREM TypeCorrect == ASSUME OneOverlap PROVE Spec => []TypeOK
<1>1. IInv => TypeOK
  BY DEF IInv
<1> QED
  BY <1>1, Invariant, PTL

(* No read mixes two writes, whatever the struct and however the tasks     *)
(* preempt each other (feedback.c:25-44).                                  *)
THEOREM ReadsAreWhole == ASSUME OneOverlap PROVE Spec => []Untorn
<1>1. IInv => Untorn
  BY DEF IInv
<1> QED
  BY <1>1, Invariant, PTL

-----------------------------------------------------------------------------
(* The register that the double buffer implements.                         *)

LEMMA ResultOfWhole == \A n \in Nat : got = Whole(n) => Result = n
BY WordAssumption DEF Result, AnyWord, Whole

LEMMA RegisterStep ==
  ASSUME IInv, IInv', [Next]_vars
  PROVE  [Register!Next]_(Register!vars)
<1> USE DEF Register!Next, Register!vars
<1>1. got' = got => Result' = Result
  BY DEF Result
<1>2. CASE WriteBegin \/ WriteWord
  BY <1>1, <1>2 DEF WriteBegin, WriteWord, reader
<1>3. CASE WriteSwap
  <2>1. pub' = pub + 1
    BY <1>3 DEF WriteSwap, IInv
  <2> QED
    BY <1>1, <1>3, <2>1 DEF WriteSwap, reader, Register!Write
<1>4. CASE ReadBegin
  BY <1>1, <1>4 DEF ReadBegin, Register!Ask
<1>5. CASE ReadWord
  BY <1>1, <1>5 DEF ReadWord
<1>6. CASE ReadEnd
  <2>1. got' = Whole(snap) /\ snap' \in Nat /\ snap' = snap
    BY <1>6 DEF ReadEnd, IInv, TypeOK, Untorn, Whole
  <2>2. Result' = snap
    BY <2>1, WordAssumption DEF Result, AnyWord, Whole
  <2> QED
    BY <1>6, <2>2 DEF ReadEnd, Register!Answer
<1>7. CASE UNCHANGED vars
  BY <1>1, <1>7 DEF vars, reader
<1> QED
  BY <1>2, <1>3, <1>4, <1>5, <1>6, <1>7 DEF Next

(* The double buffer implements the register: every read returns the value *)
(* published when it began, and no read goes back in time.                 *)
THEOREM Refinement == ASSUME OneOverlap PROVE Spec => ImplementsRegister
<1>1. Init => Register!Init
  <2>1. Init => got = Whole(0)
    BY DEF Init
  <2> QED
    BY <2>1, ResultOfWhole DEF Init, Register!Init
<1>2. IInv /\ IInv' /\ [Next]_vars => [Register!Next]_(Register!vars)
  BY RegisterStep
<1> QED
  BY <1>1, <1>2, Invariant, PTL DEF Spec, ImplementsRegister, Register!Spec

-----------------------------------------------------------------------------
(* The command buffer.                                                     *)

LEMMA InitCInv == CInit => CInv
<1> SUFFICES ASSUME CInit PROVE CInv
  OBVIOUS
<1>1. IInv
  BY InitIInv DEF CInit
<1>2. TypeOK
  BY <1>1 DEF IInv
<1>3. /\ index = 0 /\ pub = 0 /\ snap = 0 /\ reading = FALSE
      /\ last_index = 0 /\ setting = FALSE /\ is_new = FALSE /\ prev = 0
  BY DEF CInit, Init
<1>4. CTypeOK
  BY <1>2, <1>3 DEF CTypeOK, Slot
<1>5. NoSpuriousNew
  BY <1>3 DEF NoSpuriousNew
<1> QED
  BY <1>1, <1>3, <1>4, <1>5 DEF CInv

(* Each step is a step of the double buffer, or set_mode's read.           *)
LEMMA Projection == [CNext]_cbvars => [Next]_vars
BY DEF CNext, command_buffer_write, SetModeRead, command_buffer_read, cbvars, Next

LEMMA StepCInv ==
  ASSUME ReaderFirst, CInv, [CNext]_cbvars
  PROVE  CInv'
<1>1. IInv' /\ TypeOK'
  BY Projection, NextIInv DEF CInv, IInv, OneOverlap
<1>2. /\ TypeOK /\ CTypeOK
      /\ seq = IF writing THEN pub + 1 ELSE pub
      /\ writing => wslot = 1 - index
      /\ reading => index = rslot
  BY DEF CInv, IInv
<1>3. /\ index \in {0, 1} /\ rslot \in {0, 1} /\ last_index \in {0, 1}
      /\ writing \in BOOLEAN /\ reading \in BOOLEAN
      /\ setting \in BOOLEAN /\ is_new \in BOOLEAN
      /\ pub \in Nat /\ snap \in Nat /\ prev \in Nat
  BY <1>2 DEF TypeOK, CTypeOK, Slot
<1>4. /\ ~reading /\ index # last_index => pub > snap
      /\ reading /\ rslot # last_index => snap > prev
      /\ pub >= snap /\ snap >= prev
      /\ ~reading /\ is_new => snap # prev
  BY DEF CInv, NoSpuriousNew
<1> HIDE DEF CInv, IInv, TypeOK
<1> SUFFICES /\ CTypeOK' /\ NoSpuriousNew'
             /\ (~reading /\ index # last_index => pub > snap)'
             /\ (reading /\ rslot # last_index => snap > prev)'
             /\ (pub >= snap /\ snap >= prev)'
  BY <1>1 DEF CInv
<1> USE DEF CTypeOK, NoSpuriousNew, Slot
<1>5. CASE WriteBegin /\ setting' = FALSE /\ UNCHANGED <<last_index, is_new, prev>>
  BY <1>1, <1>3, <1>4, <1>5 DEF WriteBegin, reader
<1>6. CASE WriteWord /\ UNCHANGED <<last_index, setting, is_new, prev>>
  BY <1>1, <1>3, <1>4, <1>6 DEF WriteWord, reader
<1>7. CASE WriteSwap /\ UNCHANGED <<last_index, setting, is_new, prev>>
  BY <1>1, <1>2, <1>3, <1>4, <1>7 DEF WriteSwap, reader
<1>8. CASE SetModeRead
  BY <1>1, <1>3, <1>4, <1>8 DEF SetModeRead, WriterRuns, vars, reader
<1>9. CASE ReadBegin /\ prev' = snap /\ UNCHANGED <<last_index, setting, is_new>>
  BY <1>1, <1>3, <1>4, <1>9 DEF ReadBegin
<1>10. CASE ReadWord /\ UNCHANGED <<last_index, setting, is_new, prev>>
  BY <1>1, <1>3, <1>4, <1>10 DEF ReadWord
<1>11. CASE /\ ReadEnd /\ is_new' = (rslot # last_index) /\ last_index' = rslot
            /\ UNCHANGED <<setting, prev>>
  <2>1. /\ is_new' <=> rslot # last_index
        /\ is_new' \in BOOLEAN
    BY <1>11
  <2>2. is_new' => snap > prev
    BY <1>4, <1>11, <2>1 DEF ReadEnd
  <2> QED
    BY <1>1, <1>2, <1>3, <1>4, <1>11, <2>1, <2>2 DEF ReadEnd
<1>12. CASE UNCHANGED cbvars
  BY <1>1, <1>3, <1>4, <1>12 DEF cbvars, vars, reader
<1> QED
  BY <1>5, <1>6, <1>7, <1>8, <1>9, <1>10, <1>11, <1>12
  DEF CNext, command_buffer_write, command_buffer_read

(* A read that returns true did return another command than the read       *)
(* before it, whatever set_mode did to last_index in between               *)
(* (command_buffer.c:39-63).  The converse does not hold.                  *)
THEOREM NewMeansChanged ==
  ASSUME ReaderFirst PROVE CSpec => [](CTypeOK /\ NoSpuriousNew /\ Untorn)
<1>1. CInv /\ [CNext]_cbvars => CInv'
  BY StepCInv
<1>2. CInv => CTypeOK /\ NoSpuriousNew /\ Untorn
  BY DEF CInv, IInv
<1> QED
  BY <1>1, <1>2, InitCInv, PTL DEF CSpec

(* The command buffer implements the register: the flag and set_mode       *)
(* change nothing of what a read returns.                                  *)
THEOREM CommandRefinement == ASSUME ReaderFirst PROVE CSpec => ImplementsRegister
<1>1. CSpec => Spec
  BY Projection, PTL DEF CSpec, CInit, Spec
<1> QED
  BY <1>1, Refinement, PTL DEF OneOverlap

-----------------------------------------------------------------------------
(* The debug CLI: its parser.                                              *)

(* Every non-empty set of numbers has a least one: < is well-founded.      *)
LEMMA LeastOf ==
  ASSUME NEW T \in SUBSET Nat, T # {}
  PROVE  \E m \in T : \A k \in T : m <= k
<1> DEFINE R == OpToRel(<, Nat)
<1>1. IsWellFoundedOn(R, Nat)
  BY NatLessThanWellFounded
<1>2. \A x, y \in Nat : x < y => <<x, y>> \in R
  BY DEF OpToRel
<1> HIDE DEF R
<1>3. PICK m \in T : \A y \in T : ~(<<y, m>> \in R)
  BY <1>1, WFMin
<1>4. ASSUME NEW k \in T PROVE m <= k
  <2>1. m \in Nat /\ k \in Nat
    OBVIOUS
  <2>2. ~(k < m)
    BY <1>2, <1>3, <2>1
  <2> QED
    BY <2>1, <2>2
<1> QED
  BY <1>4

(* Induction, over a set that has 0 and with each number up to n the next. *)
LEMMA UpTo ==
  ASSUME NEW n \in Nat, NEW S, 0 \in S, \A k \in 0 .. n - 1 : k \in S => k + 1 \in S
  PROVE  0 .. n \subseteq S
<1> DEFINE T == {k \in 0 .. n : k \notin S}
<1>1. SUFFICES ASSUME T # {} PROVE FALSE
  OBVIOUS
<1>2. T \in SUBSET Nat
  OBVIOUS
<1>3. \A k : k \in T <=> k \in 0 .. n /\ k \notin S
  OBVIOUS
<1> HIDE DEF T
<1>4. PICK m \in T : \A k \in T : m <= k
  BY <1>1, <1>2, LeastOf
<1>5. m \in 0 .. n /\ m \notin S /\ m # 0
  BY <1>3, <1>4
<1>6. m - 1 \in 0 .. n - 1 /\ ~(m <= m - 1) /\ (m - 1) + 1 = m
  BY <1>5
<1>7. m - 1 \in S
  BY <1>3, <1>4, <1>6
<1> QED
  BY <1>5, <1>6, <1>7

(* The recursion of Natural has a solution: extended digit by digit.        *)
LEMMA ValueExists ==
  ASSUME NEW d \in Seq(DOMAIN Digit)
  PROVE  \E v \in [0 .. Len(d) -> Nat] :
           v = [n \in 0 .. Len(d) |-> IF n = 0 THEN 0 ELSE 10 * v[n - 1] + Digit[d[n]]]
<1> DEFINE Good(v, k) == /\ v \in [0 .. k -> Nat] /\ v[0] = 0
                         /\ \A n \in 1 .. k : v[n] = 10 * v[n - 1] + Digit[d[n]]
           S == {k \in 0 .. Len(d) : \E v : Good(v, k)}
<1>1. Len(d) \in Nat /\ \A n \in 1 .. Len(d) : Digit[d[n]] \in Nat
  BY TextAssumption
<1>2. 0 \in S
  <2>1. Good([n \in {0} |-> 0], 0)
    OBVIOUS
  <2> HIDE DEF Good
  <2> QED
    BY <1>1, <2>1
<1>3. \A k \in 0 .. Len(d) - 1 : k \in S => k + 1 \in S
  <2> SUFFICES ASSUME NEW k \in 0 .. Len(d) - 1, k \in S PROVE k + 1 \in S
    OBVIOUS
  <2>1. PICK v : Good(v, k)
    OBVIOUS
  <2> DEFINE w == [n \in 0 .. k + 1 |-> IF n = k + 1 THEN 10 * v[k] + Digit[d[k + 1]] ELSE v[n]]
  <2>2. k + 1 \in 1 .. Len(d) /\ k \in 0 .. k /\ k \in Nat /\ 0 \in 0 .. k
    BY <1>1
  <2>3. 10 * v[k] + Digit[d[k + 1]] \in Nat
    BY <1>1, <2>1, <2>2
  <2>4. w \in [0 .. k + 1 -> Nat] /\ w[0] = 0
    BY <2>1, <2>2, <2>3
  <2>5. \A n \in 1 .. k + 1 : w[n] = 10 * w[n - 1] + Digit[d[n]]
    <3> TAKE n \in 1 .. k + 1
    <3>1. n - 1 \in 0 .. k /\ n - 1 \in 0 .. k + 1 /\ n \in 0 .. k + 1 /\ n - 1 # k + 1
      BY <2>2
    <3>2. w[n - 1] = v[n - 1]
      BY <3>1
    <3>3. CASE n = k + 1
      BY <2>2, <3>1, <3>2, <3>3
    <3>4. CASE n # k + 1
      <4>1. n \in 1 .. k /\ w[n] = v[n]
        BY <2>2, <3>1, <3>4
      <4> QED
        BY <2>1, <3>2, <4>1
    <3> QED
      BY <3>3, <3>4
  <2> HIDE DEF w
  <2>6. Good(w, k + 1)
    BY <2>4, <2>5
  <2>7. k + 1 \in 0 .. Len(d)
    BY <2>2
  <2> HIDE DEF Good
  <2> QED
    BY <2>6, <2>7
<1>4. Len(d) \in S
  <2> HIDE DEF S
  <2>1. 0 .. Len(d) \subseteq S
    BY <1>1, <1>2, <1>3, UpTo
  <2> QED
    BY <1>1, <2>1
<1>5. PICK v : Good(v, Len(d))
  BY <1>4
<1>6. \A n \in 0 .. Len(d) : v[n] = IF n = 0 THEN 0 ELSE 10 * v[n - 1] + Digit[d[n]]
  <2> TAKE n \in 0 .. Len(d)
  <2>1. n = 0 \/ n \in 1 .. Len(d)
    BY <1>1
  <2> QED
    BY <1>5, <2>1
<1>7. v \in [0 .. Len(d) -> Nat]
  BY <1>5
<1>8. v = [n \in 0 .. Len(d) |-> IF n = 0 THEN 0 ELSE 10 * v[n - 1] + Digit[d[n]]]
  BY <1>6, <1>7
<1> QED
  BY <1>7, <1>8

(* What SelectInSeq returns when it finds something.                       *)
LEMMA FirstIndex ==
  ASSUME NEW S, NEW s \in Seq(S), NEW I \in SUBSET (1 .. Len(s)), I # {}
  PROVE  Min(I) \in I /\ \A i \in I : Min(I) <= i
<1>1. PICK m \in I : \A k \in I : m <= k
  <2>1. I \in SUBSET Nat
    OBVIOUS
  <2> QED
    BY <2>1, LeastOf
<1> QED
  BY <1>1 DEF Min

(* The pieces that the parser cuts out of a line are sequences of its      *)
(* symbols, and what it reads as a number is made of digits.               *)
LEMMA SubSeqIn ==
  ASSUME NEW S, NEW s \in Seq(S), NEW m \in 1 .. Len(s), NEW n \in 0 .. Len(s)
  PROVE  SubSeq(s, m, n) \in Seq(S)
<1>1. \A i \in m .. n : s[i] \in S
  OBVIOUS
<1> QED
  BY <1>1, SubSeqProperties

LEMMA TokenType ==
  ASSUME NEW S, NEW s \in Seq(S)
  PROVE  Token(s) \in Seq(S)
<1> DEFINE I == {i \in 1 .. Len(s) : s[i] = " "}
<1>1. CASE I = {}
  BY <1>1 DEF Token, SelectInSeq
<1>2. CASE I # {}
  <2>1. Token(s) = IF Min(I) = 0 THEN s ELSE SubSeq(s, 1, Min(I) - 1)
    BY <1>2 DEF Token, SelectInSeq
  <2>2. I \in SUBSET (1 .. Len(s))
    OBVIOUS
  <2> HIDE DEF I
  <2>3. Min(I) \in 1 .. Len(s)
    BY <1>2, <2>2, FirstIndex
  <2>4. Min(I) # 0 /\ SubSeq(s, 1, Min(I) - 1) \in Seq(S)
    BY <2>3, SubSeqIn
  <2> QED
    BY <2>1, <2>4
<1> QED
  BY <1>1, <1>2

LEMMA SkipType ==
  ASSUME NEW S, NEW s \in Seq(S)
  PROVE  cli_skip_sp(s) \in Seq(S)
<1> DEFINE I == {i \in 1 .. Len(s) : s[i] # " "}
<1>1. CASE I = {}
  <2>1. cli_skip_sp(s) = <<>>
    BY <1>1 DEF cli_skip_sp, SelectInSeq
  <2> QED
    BY <2>1
<1>2. CASE I # {}
  <2>1. cli_skip_sp(s) = IF Min(I) = 0 THEN <<>> ELSE SubSeq(s, Min(I), Len(s))
    BY <1>2 DEF cli_skip_sp, SelectInSeq
  <2>2. I \in SUBSET (1 .. Len(s))
    OBVIOUS
  <2> HIDE DEF I
  <2>3. Min(I) \in 1 .. Len(s)
    BY <1>2, <2>2, FirstIndex
  <2>4. Min(I) # 0 /\ SubSeq(s, Min(I), Len(s)) \in Seq(S)
    BY <2>3, SubSeqIn
  <2> QED
    BY <2>1, <2>4
<1> QED
  BY <1>1, <1>2

LEMMA PastType ==
  ASSUME NEW S, NEW s \in Seq(S), NEW n \in Nat
  PROVE  Past(s, n) \in Seq(S)
BY DEF Past

LEMMA DigitsType ==
  ASSUME NEW S, NEW s \in Seq(S)
  PROVE  Digits(s) \in Seq(DOMAIN Digit)
<1> DEFINE I == {i \in 1 .. Len(s) : s[i] \notin DOMAIN Digit}
<1>1. CASE I = {}
  <2>1. \A i \in 1 .. Len(s) : s[i] \in DOMAIN Digit
    BY <1>1
  <2>2. Digits(s) = s
    BY <1>1 DEF Digits, SelectInSeq
  <2> QED
    BY <2>1, <2>2
<1>2. CASE I # {}
  <2>1. Digits(s) = IF Min(I) = 0 THEN s ELSE SubSeq(s, 1, Min(I) - 1)
    BY <1>2 DEF Digits, SelectInSeq
  <2>2. I \in SUBSET (1 .. Len(s)) /\ \A i \in 1 .. Len(s) : s[i] \in DOMAIN Digit \/ i \in I
    OBVIOUS
  <2> HIDE DEF I
  <2>3. Min(I) \in 1 .. Len(s) /\ \A i \in I : Min(I) <= i
    BY <1>2, <2>2, FirstIndex
  <2>4. \A i \in 1 .. Min(I) - 1 : s[i] \in DOMAIN Digit
    BY <2>2, <2>3
  <2>5. Min(I) # 0 /\ SubSeq(s, 1, Min(I) - 1) \in Seq(DOMAIN Digit)
    BY <2>3, <2>4, SubSeqProperties
  <2> QED
    BY <2>1, <2>5
<1> QED
  BY <1>1, <1>2

(* The value of digits is a natural number.                                *)
LEMMA NaturalType ==
  ASSUME NEW d \in Seq(DOMAIN Digit)
  PROVE  Natural(d) \in Nat
<1> DEFINE F == CHOOSE v : v = [n \in 0 .. Len(d) |-> IF n = 0 THEN 0 ELSE 10 * v[n - 1] + Digit[d[n]]]
<1>1. Natural(d) = F[Len(d)]
  BY DEF Natural
<1>3. \E v : v = [n \in 0 .. Len(d) |-> IF n = 0 THEN 0 ELSE 10 * v[n - 1] + Digit[d[n]]]
  BY ValueExists
<1>4. F = [n \in 0 .. Len(d) |-> IF n = 0 THEN 0 ELSE 10 * F[n - 1] + Digit[d[n]]]
  BY <1>3
<1> HIDE DEF F
<1>5. /\ Len(d) \in Nat /\ \A n \in 1 .. Len(d) : Digit[d[n]] \in Nat
  BY TextAssumption
<1> DEFINE K == {k \in 0 .. Len(d) : F[k] \in Nat}
<1>6. 0 \in K
  BY <1>4, <1>5
<1>7. \A k \in 0 .. Len(d) - 1 : k \in K => k + 1 \in K
  <2> SUFFICES ASSUME NEW k \in 0 .. Len(d) - 1, k \in K PROVE k + 1 \in K
    OBVIOUS
  <2>1. k + 1 \in 1 .. Len(d) /\ k + 1 \in 0 .. Len(d) /\ k + 1 # 0 /\ (k + 1) - 1 = k
    BY <1>5
  <2>2. F[k + 1] = 10 * F[k] + Digit[d[k + 1]]
    BY <1>4, <2>1
  <2> QED
    BY <1>5, <2>1, <2>2
<1>8. Len(d) \in K
  <2> HIDE DEF K
  <2>1. 0 .. Len(d) \subseteq K
    BY <1>5, <1>6, <1>7, UpTo
  <2> QED
    BY <1>5, <2>1
<1> QED
  BY <1>1, <1>8

(* What strtof reads is an integer, what strtoul returns is in its range.  *)
LEMMA NumberType ==
  ASSUME NEW S, NEW s \in Seq(S)
  PROVE  Number(s) \in Int
<1>1. Magnitude(s) \in Seq(S)
  BY DEF Magnitude, Signed
<1>2. Natural(Digits(Magnitude(s))) \in Nat
  BY <1>1, DigitsType, NaturalType
<1> QED
  BY <1>2 DEF Number

LEMMA UnsignedType == \A n \in Int : Unsigned(n) \in 0 .. ULongMod - 1
BY CliAssumption DEF Unsigned

(* Every line leads to a store of a known kind, and a rate is a number no  *)
(* higher than the highest.                                                *)
LEMMA DispatchType ==
  ASSUME NEW S, NEW s \in Seq(S)
  PROVE  /\ cli_dispatch(s).do \in {"none", "set", "mode", "on", "off"}
         /\ cli_dispatch(s).do = "on" => cli_dispatch(s).hz \in 0 .. TickRate
         /\ cli_dispatch(s).do = "none" => cli_dispatch(s) = None
<1> DEFINE tok  == cli_token(s)
           rest == cli_skip_sp(Past(s, Len(tok)))
<1>1. tok \in Seq(S)
  BY SkipType, TokenType DEF cli_token
<1>2. Len(tok) \in Nat
  BY <1>1
<1>3. rest \in Seq(S)
  <2> HIDE DEF tok
  <2> QED
    BY <1>2, PastType, SkipType
<1>4. cli_dispatch(s) \in {cli_cmd_set(rest), cli_cmd_cmd(rest), cli_cmd_stream(rest), None}
  BY DEF cli_dispatch
<1> HIDE DEF tok, rest
<1>5. Min({Unsigned(Number(cli_token(rest))), TickRate}) \in 0 .. TickRate
  <2> DEFINE n == Unsigned(Number(cli_token(rest)))
  <2>1. Number(cli_token(rest)) \in Int
    BY <1>3, SkipType, TokenType, NumberType DEF cli_token
  <2>2. n \in Nat /\ TickRate \in Nat
    BY <2>1, UnsignedType, CliAssumption
  <2> HIDE DEF n
  <2>3. {n, TickRate} \in SUBSET Nat
    BY <2>2
  <2>4. PICK m \in {n, TickRate} : \A k \in {n, TickRate} : m <= k
    BY <2>3, LeastOf
  <2>5. Min({n, TickRate}) \in {n, TickRate} /\ Min({n, TickRate}) <= TickRate
    BY <2>4 DEF Min
  <2> QED
    BY <2>2, <2>5 DEF n
<1>6. cli_cmd_set(rest) = None \/ cli_cmd_set(rest).do = "set"
  BY DEF cli_cmd_set, None
<1>7. cli_cmd_cmd(rest) = None \/ cli_cmd_cmd(rest).do = "mode"
  BY DEF cli_cmd_cmd, cli_cmd_mode, None
<1>8. /\ cli_cmd_stream(rest) = None \/ cli_cmd_stream(rest).do \in {"on", "off"}
      /\ cli_cmd_stream(rest).do = "on" => cli_cmd_stream(rest).hz \in 0 .. TickRate
  BY <1>5, CliAssumption DEF cli_cmd_stream, None
<1> QED
  BY <1>4, <1>6, <1>7, <1>8 DEF None

-----------------------------------------------------------------------------
(* The debug CLI: the stream.                                              *)

\* The characters, and those that end a line, which the provers do not know
\* to be strings.
Symbol == STRING \cup {"\n", "\r"}

CliType ==
  /\ line \in Seq(Symbol) /\ typing \in Seq(Symbol)
  /\ stream_hz \in 0 .. RateMod - 1 /\ asked \in 0 .. TickRate
  /\ stream_div \in Nat /\ ticks \in Nat /\ rows \in Nat
  /\ doing.do = "on" => doing.hz \in 0 .. TickRate

\* Outside StreamHz and StreamDiv the rate is the low bits of the one asked
\* for, and the ticks are the rows times their period and what the divider has.
StreamInv ==
  /\ IF doing.do = "on" /\ step = 2 THEN stream_hz = doing.hz % RateMod
     ELSE /\ stream_hz = asked % RateMod
          /\ IF stream_hz = 0 THEN ticks = 0 /\ rows = 0
             ELSE /\ rows * Period(stream_hz) + stream_div = ticks
                  /\ stream_div < Period(stream_hz)
  /\ doing.do = "off" /\ step = 2 => stream_hz = 0

(* The eight bits of a rate, and its period.                               *)
LEMMA ModType ==
  ASSUME NEW h \in 0 .. TickRate
  PROVE  /\ h % RateMod \in 0 .. RateMod - 1
         /\ h < RateMod => h % RateMod = h
  BY CliAssumption

LEMMA PeriodType ==
  ASSUME NEW h \in 1 .. RateMod - 1
  PROVE  /\ Period(h) \in Nat \ {0}
         /\ Period(h) * h <= TickRate
         /\ TickRate - h + 1 <= Period(h) * h
<1>1. TickRate \in Nat /\ h \in Nat \ {0} /\ h <= TickRate
  BY CliAssumption
<1>2. TickRate = h * (TickRate \div h) + (TickRate % h) /\ TickRate % h \in 0 .. h - 1 /\ TickRate \div h \in Int
  BY <1>1
<1> DEFINE q == TickRate \div h
           m == TickRate % h
<1>3. q \in Int /\ m \in 0 .. h - 1 /\ TickRate = h * q + m
  BY <1>2
<1> HIDE DEF q, m
<1>4. q >= 1
  <2> SUFFICES ASSUME q <= 0 PROVE FALSE
    BY <1>3
  <2>1. h * q <= 0
    BY <1>1, <1>3
  <2> QED
    BY <1>1, <1>3, <2>1
<1>5. q * h <= TickRate /\ TickRate - h + 1 <= q * h
  BY <1>1, <1>3
<1> QED
  BY <1>3, <1>4, <1>5 DEF Period, q

LEMMA InitStream == CliInit => CliType /\ StreamInv
<1> SUFFICES ASSUME CliInit PROVE CliType /\ StreamInv
  OBVIOUS
<1>1. CliType
  BY CliAssumption DEF CliInit, CliType, Idle
<1>2. 0 % RateMod = 0
  BY CliAssumption
<1> QED
  BY <1>1, <1>2 DEF CliInit, StreamInv, Idle

(* What is typed is made of symbols.                                       *)
LEMMA LineTypes ==
  /\ Ends \subseteq Seq(Symbol)
  /\ Text \cup Typed \subseteq Seq(Symbol)
<1>1. "\n" \in Symbol /\ "\r" \in Symbol
  BY DEF Symbol
<1>2. \A a, b \in Symbol : <<a>> \in Seq(Symbol) /\ <<a, b>> \in Seq(Symbol)
  OBVIOUS
<1>3. \A s \in Seq(STRING) : s \in Seq(Symbol)
  BY DEF Symbol
<1> QED
  BY <1>1, <1>2, <1>3, TextAssumption DEF Ends

(* The steps that take characters and lines preserve the invariant; a line *)
(* that begins has stored nothing yet.                                     *)
LEMMA TypingStream ==
  ASSUME CliType, StreamInv, Type \/ debug_cli_exec \/ debug_cli_putc
  PROVE  CliType' /\ StreamInv'
<1>1. ASSUME Type PROVE CliType' /\ StreamInv'
  <2>1. typing' \in Seq(Symbol)
    <3>1. PICK s \in Typed, e \in Ends : typing' = s \o e
      BY <1>1 DEF Type
    <3>2. s \in Seq(Symbol) /\ e \in Seq(Symbol)
      BY LineTypes
    <3> QED
      BY <3>1, <3>2
  <2> QED
    BY <1>1, <2>1 DEF Type, CliType, StreamInv, stream, rates
<1>2. ASSUME NEW s \in Seq(Symbol), Dispatch(s), UNCHANGED <<stream, rates>>,
             line' \in Seq(Symbol), typing' \in Seq(Symbol)
      PROVE  CliType' /\ StreamInv'
  <2>1. CliType'
    <3>1. doing'.do = "on" => doing'.hz \in 0 .. TickRate
      BY <1>2, DispatchType DEF Dispatch
    <3> QED
      BY <1>2, <3>1 DEF CliType, stream, rates
  <2>2. step' = 1 /\ doing.do = "idle"
    BY <1>2 DEF Dispatch, Idle
  <2> QED
    BY <1>2, <2>1, <2>2 DEF StreamInv, stream, rates
<1>3. ASSUME debug_cli_exec PROVE CliType' /\ StreamInv'
  <2>1. PICK s \in Text : Dispatch(s)
    BY <1>3 DEF debug_cli_exec
  <2>2. s \in Seq(Symbol)
    BY LineTypes
  <2>3. line' \in Seq(Symbol) /\ typing' \in Seq(Symbol) /\ UNCHANGED <<stream, rates>>
    BY <1>3 DEF debug_cli_exec, CliType
  <2> QED
    BY <1>2, <2>1, <2>2, <2>3
<1>4. ASSUME Key PROVE typing' \in Seq(Symbol) /\ Head(typing) \in Symbol
  BY <1>4 DEF Key, CliType
<1>5. ASSUME EndOfLine PROVE CliType' /\ StreamInv'
  <2>1. line \in Seq(Symbol) /\ Dispatch(line)
    BY <1>5 DEF EndOfLine, CliType
  <2>2. line' \in Seq(Symbol) /\ typing' \in Seq(Symbol) /\ UNCHANGED <<stream, rates>>
    BY <1>4, <1>5 DEF EndOfLine
  <2> QED
    BY <1>2, <2>1, <2>2
<1>6. ASSUME EmptyLine PROVE CliType' /\ StreamInv'
  BY <1>4, <1>6 DEF EmptyLine, CliType, StreamInv, stream, rates
<1>7. ASSUME Character PROVE CliType' /\ StreamInv'
  <2>1. typing' \in Seq(Symbol) /\ Head(typing) \in Symbol
    BY <1>4, <1>7 DEF Character
  <2>2. Append(line, Head(typing)) \in Seq(Symbol)
    BY <2>1, AppendProperties DEF CliType
  <2>3. line' \in Seq(Symbol)
    BY <1>7, <2>2 DEF Character, CliType
  <2> QED
    BY <1>7, <2>1, <2>3 DEF Character, CliType, StreamInv, stream, rates
<1> QED
  BY <1>1, <1>3, <1>5, <1>6, <1>7 DEF debug_cli_putc

(* So do the stores of a command ...                                       *)
LEMMA ExecuteStream ==
  ASSUME CliType, StreamInv, Execute
  PROVE  CliType' /\ StreamInv'
<1>1. ASSUME SetSlot \/ SetSwap \/ ModeSlot \/ ModeSwap \/ NoStore PROVE CliType' /\ StreamInv'
  <2>1. doing.do \notin {"on", "off"} /\ doing'.do \notin {"on", "off"}
    BY <1>1 DEF SetSlot, SetSwap, ModeSlot, ModeSwap, NoStore, Store, Idle
  <2>2. UNCHANGED <<line, typing, stream_hz, stream_div, asked, ticks, rows>>
    BY <1>1 DEF SetSlot, SetSwap, ModeSlot, ModeSwap, NoStore, Store, stream, rates
  <2> QED
    BY <2>1, <2>2 DEF CliType, StreamInv
<1>2. CASE StreamHz
  <2>1. /\ doing.do = "on" /\ step = 1 /\ step' = 2 /\ doing' = doing
        /\ stream_hz' = doing.hz % RateMod
        /\ UNCHANGED <<line, typing, stream_div, asked, ticks, rows>>
    BY <1>2 DEF StreamHz, Store, rates
  <2>2. stream_hz' \in 0 .. RateMod - 1
    BY <2>1, ModType DEF CliType
  <2> QED
    BY <2>1, <2>2 DEF CliType, StreamInv
<1>3. CASE StreamDiv
  <2>1. /\ doing.do = "on" /\ step = 2 /\ doing'.do = "idle"
        /\ stream_div' = 0 /\ asked' = doing.hz /\ ticks' = 0 /\ rows' = 0
        /\ UNCHANGED <<line, typing, stream_hz>>
    BY <1>3 DEF StreamDiv, Store, Idle
  <2>2. stream_hz' = asked' % RateMod
    BY <2>1 DEF StreamInv
  <2>3. stream_hz # 0 => Period(stream_hz) \in Nat \ {0}
    BY PeriodType DEF CliType
  <2>4. CliType'
    BY <2>1 DEF CliType
  <2>5. stream_hz # 0 => 0 * Period(stream_hz) + 0 = 0 /\ 0 < Period(stream_hz)
    BY <2>3
  <2> QED
    BY <2>1, <2>2, <2>4, <2>5 DEF StreamInv, Period
<1>4. CASE StopHz
  <2>1. /\ doing.do = "off" /\ step = 1 /\ doing' = doing
        /\ stream_hz' = 0 /\ asked' = 0 /\ ticks' = 0 /\ rows' = 0
        /\ UNCHANGED <<line, typing, stream_div>>
    BY <1>4 DEF StopHz, Store
  <2>2. 0 % RateMod = 0 /\ 0 \in 0 .. RateMod - 1 /\ 0 \in 0 .. TickRate
    BY CliAssumption
  <2> QED
    BY <2>1, <2>2 DEF CliType, StreamInv
<1>5. CASE StopDiv
  <2>1. /\ doing.do = "off" /\ step = 2 /\ doing'.do = "idle" /\ stream_div' = 0
        /\ UNCHANGED <<line, typing, stream_hz, asked, ticks, rows>>
    BY <1>5 DEF StopDiv, Store, Idle, rates
  <2> QED
    BY <2>1 DEF CliType, StreamInv
<1> QED
  BY <1>1, <1>2, <1>3, <1>4, <1>5 DEF Execute

(* ... and the ticks between them.                                         *)
LEMMA TickStream ==
  ASSUME CliType, StreamInv, debug_cli_stream_tick
  PROVE  CliType' /\ StreamInv'
<1> DEFINE P == Period(stream_hz)
<1>1. /\ stream_hz # 0 /\ ticks' = ticks + 1
      /\ UNCHANGED <<line, stream_hz, doing, step, typing, asked>>
  BY DEF debug_cli_stream_tick
<1>2. P \in Nat \ {0}
  BY <1>1, PeriodType DEF CliType
<1>3. /\ stream_div + 1 >= P => stream_div' = 0 /\ rows' = rows + 1
      /\ ~(stream_div + 1 >= P) => stream_div' = stream_div + 1 /\ rows' = rows
  BY DEF debug_cli_stream_tick
<1> HIDE DEF P
<1>4. CliType'
  BY <1>1, <1>2, <1>3 DEF CliType
<1>5. CASE doing.do = "on" /\ step = 2
  BY <1>1, <1>4, <1>5 DEF StreamInv
<1>6. CASE ~(doing.do = "on" /\ step = 2)
  <2>1. rows * P + stream_div = ticks /\ stream_div < P
    BY <1>1, <1>6 DEF StreamInv, P
  <2>2. rows' * P + stream_div' = ticks' /\ stream_div' < P
    <3>1. CASE stream_div + 1 >= P
      <4>1. stream_div + 1 = P /\ (rows + 1) * P = rows * P + P
        BY <1>2, <2>1, <3>1 DEF CliType
      <4> QED
        BY <1>1, <1>2, <1>3, <2>1, <3>1, <4>1 DEF CliType
    <3>2. CASE ~(stream_div + 1 >= P)
      BY <1>1, <1>2, <1>3, <2>1, <3>2 DEF CliType
    <3> QED
      BY <3>1, <3>2
  <2>3. Period(stream_hz)' = P
    BY <1>1 DEF Period, P
  <2> QED
    BY <1>1, <1>4, <1>6, <2>2, <2>3 DEF StreamInv, Period, P
<1> QED
  BY <1>5, <1>6

LEMMA StreamSteps == CliSpec => [](CliType /\ StreamInv)
<1>1. ASSUME CliType, StreamInv, [CliNext]_cliVars PROVE CliType' /\ StreamInv'
  <2>1. CASE UNCHANGED cliVars
    BY <1>1, <2>1 DEF cliVars, CliType, StreamInv, stream, rates
  <2> QED
    BY <1>1, <2>1, TypingStream, ExecuteStream, TickStream DEF CliNext
<1> QED
  BY <1>1, InitStream, PTL DEF CliSpec

(* rows * period <= ticks < (rows + 1) * period, and period * rate is at   *)
(* most a second and more than a second less the rate.                     *)
LEMMA RowsEnough == ASSUME CliType, StreamInv PROVE RateIsKept
<1> DEFINE r == asked % RateMod
<1> SUFFICES ASSUME doing.do # "on"
             PROVE  IF r = 0 THEN rows = 0
                    ELSE /\ rows >= (ticks * r) \div TickRate
                         /\ rows * (TickRate - r + 1) <= ticks * r
  BY DEF RateIsKept
<1>1. stream_hz = r /\ r \in 0 .. RateMod - 1
  BY ModType DEF CliType, StreamInv
<1> HIDE DEF r
<1>2. CASE r = 0
  BY <1>1, <1>2 DEF StreamInv
<1>3. CASE r # 0
  <2> DEFINE P == Period(r)
  <2>1. r \in 1 .. RateMod - 1 /\ r \in Nat /\ r <= TickRate /\ TickRate \in Nat
        /\ rows \in Nat /\ ticks \in Nat /\ stream_div \in Nat
    BY <1>1, <1>3, CliAssumption DEF CliType
  <2>2. P \in Nat \ {0} /\ P * r <= TickRate /\ TickRate - r + 1 <= P * r
    BY <2>1, PeriodType
  <2>3. rows * P + stream_div = ticks /\ stream_div < P
    BY <1>1, <1>3 DEF StreamInv
  <2> HIDE DEF P
  <2>4. rows * P \in Nat /\ rows * P <= ticks
    BY <2>1, <2>2, <2>3
  <2>5. ticks * r < (rows + 1) * TickRate
    <3>1. ticks < (rows + 1) * P /\ (rows + 1) * P \in Nat
      <4>1. (rows + 1) * P = rows * P + P
        BY <2>1, <2>2
      <4> QED
        BY <2>1, <2>2, <2>3, <2>4, <4>1
    <3>2. ticks * r < ((rows + 1) * P) * r
      BY <2>1, <3>1
    <3>3. ((rows + 1) * P) * r = (rows + 1) * (P * r)
      BY <2>1, <2>2
    <3>4. (rows + 1) * (P * r) <= (rows + 1) * TickRate
      <4> DEFINE a == P * r
                 b == rows + 1
      <4>1. a \in Nat /\ b \in Nat /\ TickRate \in Nat /\ a <= TickRate
        BY <2>1, <2>2, CliAssumption
      <4> HIDE DEF a, b
      <4>2. b * a <= b * TickRate
        BY <4>1
      <4> QED
        BY <4>2 DEF a, b
    <3>5. ticks * r \in Int /\ (rows + 1) * TickRate \in Int /\ (rows + 1) * (P * r) \in Int
      BY <2>1, <2>2, CliAssumption
    <3> QED
      BY <3>2, <3>3, <3>4, <3>5
  <2>6. (ticks * r) \div TickRate <= rows
    <3> DEFINE x == ticks * r
               q == x \div TickRate
    <3>1. x \in Nat /\ TickRate \in Nat \ {0}
      BY <2>1, CliAssumption
    <3>2. x < (rows + 1) * TickRate
      BY <2>5
    <3> HIDE DEF x
    <3>3. q \in Int /\ TickRate * q <= x
      BY <3>1
    <3> HIDE DEF q
    <3>4. SUFFICES ASSUME q >= rows + 1 PROVE FALSE
      BY <2>1, <3>3 DEF q, x
    <3>5. TickRate * q >= TickRate * (rows + 1)
      <4> DEFINE b == rows + 1
      <4>1. b \in Nat /\ q >= b
        BY <2>1, <3>4
      <4> HIDE DEF b
      <4>2. TickRate * q >= TickRate * b
        BY <3>1, <3>3, <4>1
      <4> QED
        BY <4>2 DEF b
    <3>6. TickRate * (rows + 1) = (rows + 1) * TickRate /\ (rows + 1) * TickRate \in Int /\ TickRate * q \in Int
      BY <2>1, <3>1, <3>3
    <3> QED
      BY <3>1, <3>2, <3>3, <3>5, <3>6
  <2>7. (ticks * r) \div TickRate \in Int
    BY <2>1, CliAssumption
  <2>8. rows * (TickRate - r + 1) <= ticks * r
    <3> DEFINE a == P * r
               g == TickRate - r + 1
    <3>1. a \in Nat /\ g \in Nat /\ g <= a
      BY <2>1, <2>2
    <3>2. (rows * P) * r <= ticks * r
      BY <2>1, <2>4
    <3>3. (rows * P) * r = rows * a
      BY <2>1, <2>2
    <3> HIDE DEF a, g
    <3>4. rows * g <= rows * a /\ rows * g \in Int /\ rows * a \in Int
      BY <2>1, <3>1
    <3>5. rows * g <= ticks * r
      BY <2>1, <3>2, <3>3, <3>4
    <3> QED
      BY <3>5 DEF g
  <2> QED
    BY <1>3, <2>1, <2>6, <2>7, <2>8
<1> QED
  BY <1>2, <1>3

(* A stream prints the rows it was asked for, as far as eight bits hold    *)
(* the rate, and at intervals less than one tick short, for every rate of  *)
(* the ticks and wherever they fall between the stores of a command        *)
(* (debug_cli_stream_start, _stop and _tick).                              *)
THEOREM RatesAreKept == CliSpec => []RateIsKept
  BY StreamSteps, RowsEnough, PTL

-----------------------------------------------------------------------------
(* The debug CLI: lines and what they change.                              *)

\* The store under way is the one its line orders, and the inactive slot has
\* what the next swap is to publish.
StoreInv ==
  /\ doing = Idle \/ Fits(doing, OrderOf[text])
  /\ doing = Idle \/ doing.do \in {"none", "set", "mode", "on", "off"}
  /\ doing.do = "none" => doing = None
  /\ cfg_index \in {0, 1} /\ DOMAIN cfg_data = {0, 1}
  /\ cmd_index \in {0, 1} /\ DOMAIN cmd_data = {0, 1}
  /\ doing.do = "set" /\ step = 2 =>
       cfg_data[1 - cfg_index] = [cfg_data[cfg_index] EXCEPT ![doing.param] = doing.value]
  /\ doing.do = "mode" /\ step = 2 =>
       cmd_data[1 - cmd_index] = [mode |-> doing.mode, target |-> doing.target]

\* i symbols of the line were typed, of which the buffer has what fits; the
\* others and the end are to come.
Typing(i, e) ==
  LET n == Len(typed) IN
  /\ typed \in Typed
  /\ Len(typing) = n - i + Len(e)
  /\ \A j \in 1 .. n - i : typing[j] = typed[i + j]
  /\ \A j \in 1 .. Len(e) : typing[n - i + j] = e[j]
  /\ Len(line) = IF i < LineMax THEN i ELSE LineMax - 1
  /\ \A j \in 1 .. Len(line) : line[j] = typed[j]

\* Between lines, or before the second half of "\r\n", the buffer is empty.
LineInv ==
  \/ line = <<>> /\ typing \in {<<>>, <<"\n">>}
  \/ \E e \in Ends, i \in 0 .. Len(typed) : Typing(i, e)

(* An end is one or two symbols that are in no line.                       *)
LEMMA EndFacts ==
  ASSUME NEW e \in Ends
  PROVE  /\ Len(e) \in {1, 2} /\ \A j \in 1 .. Len(e) : e[j] \in {"\n", "\r"}
         /\ Len(e) = 2 => e[2] = "\n"
<1>1. ASSUME NEW a, NEW b
      PROVE  /\ Len(<<a>>) = 1 /\ <<a>>[1] = a /\ Len(<<a, b>>) = 2
             /\ <<a, b>>[1] = a /\ <<a, b>>[2] = b
  OBVIOUS
<1>2. CASE e = <<"\r", "\n">>
  <2>1. Len(e) = 2 /\ e[1] = "\r" /\ e[2] = "\n"
    BY <1>1, <1>2
  <2> QED
    BY <2>1
<1>3. CASE e # <<"\r", "\n">>
  <2>1. PICK a \in {"\n", "\r"} : e = <<a>>
    BY <1>3 DEF Ends
  <2>2. Len(e) = 1 /\ e[1] = a
    BY <1>1, <2>1
  <2> QED
    BY <2>1, <2>2
<1> QED
  BY <1>2, <1>3

LEMMA TypedFacts ==
  ASSUME NEW s \in Typed
  PROVE  s \in Seq(Symbol) /\ Len(s) \in Nat /\ \A i \in 1 .. Len(s) : s[i] \notin {"\n", "\r"}
BY LineTypes, TextAssumption

(* A key is the next symbol of the line typed, or the first of its end.    *)
LEMMA KeyFacts ==
  ASSUME CliType, Key, NEW e \in Ends, NEW i \in 0 .. Len(typed), Typing(i, e)
  PROVE  /\ Len(typing) > 0 /\ Len(typing') = Len(typing) - 1
         /\ \A j \in 1 .. Len(typing') : typing'[j] = typing[j + 1]
         /\ Head(typing) = typing[1]
         /\ Head(typing) \in {"\n", "\r"} <=> i = Len(typed)
         /\ i < Len(typed) => Head(typing) = typed[i + 1]
<1>1. /\ Len(typing) > 0 /\ Len(typing') = Len(typing) - 1
      /\ \A j \in 1 .. Len(typing') : typing'[j] = typing[j + 1]
      /\ Head(typing) = typing[1]
  BY HeadTailProperties DEF Key, CliType
<1>2. Len(typed) \in Nat /\ typed \in Typed
  BY TypedFacts DEF Typing
<1>3. CASE i < Len(typed)
  <2>1. 1 \in 1 .. Len(typed) - i /\ i + 1 \in 1 .. Len(typed)
    BY <1>2, <1>3
  <2>2. typing[1] = typed[i + 1]
    BY <2>1 DEF Typing
  <2>3. typed[i + 1] \notin {"\n", "\r"}
    BY <1>2, <2>1, TypedFacts
  <2> QED
    BY <1>1, <1>2, <1>3, <2>2, <2>3
<1>4. CASE i = Len(typed)
  <2>1. 1 \in 1 .. Len(e) /\ Len(typed) - i + 1 = 1
    BY <1>2, <1>4, EndFacts
  <2>2. typing[1] = e[1]
    BY <2>1 DEF Typing
  <2> QED
    BY <1>1, <1>4, <2>1, <2>2, <1>2, EndFacts
<1> QED
  BY <1>2, <1>3, <1>4

(* The keys follow the line: one begins, a character, the end.             *)
LEMMA TypeLine == ASSUME CliType, CliType', LineInv, Type PROVE LineInv'
<1>1. typing = <<>>
  BY DEF Type
<1>2. line = <<>>
  <2>1. ASSUME NEW e \in Ends, NEW i \in 0 .. Len(typed), Typing(i, e) PROVE FALSE
    <3>1. Len(typed) \in Nat /\ Len(e) \in {1, 2} /\ Len(typing) = Len(typed) - i + Len(e)
      BY <2>1, TypedFacts, EndFacts DEF Typing
    <3> QED
      BY <1>1, <3>1, EmptySeq
  <2> QED
    BY <2>1 DEF LineInv
<1>3. PICK s \in Typed, e \in Ends : typing' = s \o e /\ typed' = s
  BY DEF Type
<1>4. line' = <<>>
  BY <1>2 DEF Type
<1>5. s \in Seq(Symbol) /\ e \in Seq(Symbol) /\ Len(s) \in Nat
  BY LineTypes, TypedFacts
<1>6. /\ Len(typing') = Len(s) + Len(e)
      /\ \A j \in 1 .. Len(s) : typing'[j] = s[j]
      /\ \A j \in 1 .. Len(e) : typing'[Len(s) + j] = e[j]
  <2>1. Len(e) \in Nat
    BY <1>5
  <2> QED
    BY <1>3, <1>5, <2>1, ConcatProperties
<1>7. Len(line') = 0
  BY <1>4
<1>8. Typing(0, e)'
  BY <1>3, <1>5, <1>6, <1>7, CliAssumption DEF Typing
<1> QED
  BY <1>3, <1>5, <1>8 DEF LineInv

LEMMA CharacterLine == ASSUME CliType, CliType', LineInv, Character PROVE LineInv'
<1>1. Key /\ Head(typing) \notin {"\n", "\r"} /\ typed' = typed
  BY DEF Character
<1>2. typing # <<>>
  BY <1>1 DEF Key
<1>3. typing # <<"\n">>
  <2>1. Head(<<"\n">>) = "\n"
    OBVIOUS
  <2> QED
    BY <1>1, <2>1
<1>4. PICK e \in Ends, i \in 0 .. Len(typed) : Typing(i, e)
  BY <1>2, <1>3 DEF LineInv
<1>5. Len(typed) \in Nat /\ typed \in Typed
  BY <1>4, TypedFacts DEF Typing
<1>6. i < Len(typed) /\ Head(typing) = typed[i + 1]
  BY <1>1, <1>4, <1>5, KeyFacts
<1>7. /\ Len(typing') = Len(typing) - 1
      /\ \A j \in 1 .. Len(typing') : typing'[j] = typing[j + 1]
  BY <1>1, <1>4, KeyFacts
<1> DEFINE n == Len(typed)
           k == i + 1
<1>8. /\ Len(line') = IF k < LineMax THEN k ELSE LineMax - 1
      /\ \A j \in 1 .. Len(line') : line'[j] = typed[j]
  <2>1. CASE Len(line) < LineMax - 1
    <3>1. line' = Append(line, typed[k])
      BY <1>6, <2>1 DEF Character
    <3>2. Len(line) = i
      BY <1>4, <2>1, CliAssumption DEF Typing
    <3>3. Len(line') = k /\ line'[k] = typed[k] /\ \A j \in 1 .. i : line'[j] = line[j]
      BY <3>1, <3>2 DEF CliType
    <3>4. \A j \in 1 .. i : line[j] = typed[j]
      BY <1>4, <3>2 DEF Typing
    <3> QED
      BY <2>1, <3>2, <3>3, <3>4, CliAssumption
  <2>2. CASE ~(Len(line) < LineMax - 1)
    <3>1. line' = line
      BY <2>2 DEF Character
    <3> QED
      BY <1>4, <2>2, <3>1, CliAssumption DEF Typing
  <2> QED
    BY <2>1, <2>2
<1>9. /\ Len(typing') = n - k + Len(e)
      /\ \A j \in 1 .. n - k : typing'[j] = typed[k + j]
      /\ \A j \in 1 .. Len(e) : typing'[n - k + j] = e[j]
  <2>1. n \in Nat /\ Len(e) \in Nat /\ i \in Nat /\ i < n
    BY <1>5, <1>6, EndFacts
  <2>2. Len(typing') = n - k + Len(e)
    BY <1>4, <1>7, <2>1 DEF Typing
  <2>3. ASSUME NEW j \in 1 .. n - k PROVE typing'[j] = typed[k + j]
    <3>1. j + 1 \in 1 .. n - i /\ j \in 1 .. n - k + Len(e) /\ i + (j + 1) = k + j
      BY <2>1
    <3> QED
      BY <1>4, <1>7, <2>2, <3>1 DEF Typing
  <2>4. ASSUME NEW j \in 1 .. Len(e) PROVE typing'[n - k + j] = e[j]
    <3>1. n - k + j \in 1 .. n - k + Len(e) /\ (n - k + j) + 1 = n - i + j
      BY <2>1
    <3> QED
      BY <1>4, <1>7, <2>2, <3>1 DEF Typing
  <2> QED
    BY <2>2, <2>3, <2>4
<1>10. Typing(k, e)'
  BY <1>1, <1>5, <1>8, <1>9 DEF Typing
<1>11. k \in 0 .. Len(typed')
  BY <1>1, <1>5, <1>6
<1> QED
  BY <1>10, <1>11 DEF LineInv

(* What the end of a line finds in the buffer is that line, cut.           *)
LEMMA EndLine ==
  ASSUME CliType, CliType', LineInv, EndOfLine \/ EmptyLine
  PROVE  LineInv' /\ (line # <<>> => typed \in Typed /\ typed # <<>> /\ line = Cut(typed))
<1>1. Key /\ Head(typing) \in {"\n", "\r"} /\ typed' = typed /\ line' = <<>>
  BY DEF EndOfLine, EmptyLine
<1>2. CASE line = <<>> /\ typing \in {<<>>, <<"\n">>}
  <2>1. typing = <<"\n">> /\ typing' = Tail(typing)
    BY <1>1, <1>2 DEF Key
  <2>2. typing' = <<>>
    BY <2>1
  <2> QED
    BY <1>1, <1>2, <2>2 DEF LineInv
<1>3. ASSUME NEW e \in Ends, NEW i \in 0 .. Len(typed), Typing(i, e)
      PROVE  LineInv' /\ (line # <<>> => typed \in Typed /\ typed # <<>> /\ line = Cut(typed))
  <2>1. Len(typed) \in Nat /\ typed \in Typed /\ typed \in Seq(Symbol)
    BY <1>3, TypedFacts DEF Typing
  <2>2. i = Len(typed)
    BY <1>1, <1>3, KeyFacts
  <2>3. Len(typing) = Len(e) /\ \A j \in 1 .. Len(e) : typing[j] = e[j]
    <3>1. Len(e) \in Nat /\ Len(typed) - i = 0 /\ \A j \in 1 .. Len(e) : 0 + j = j
      BY <2>1, <2>2, EndFacts
    <3> QED
      BY <1>3, <2>1, <2>2, <3>1 DEF Typing
  <2>4. /\ typing' \in Seq(Symbol)
        /\ Len(typing') = Len(typing) - 1
        /\ \A j \in 1 .. Len(typing') : typing'[j] = typing[j + 1]
    BY <1>1, <1>3, KeyFacts DEF CliType
  <2>5. typing' \in {<<>>, <<"\n">>}
    <3>1. CASE Len(e) = 1
      BY <2>3, <2>4, <3>1
    <3>2. CASE Len(e) = 2
      <4>1. Len(typing') = 1 /\ typing'[1] = "\n"
        BY <2>3, <2>4, <3>2, EndFacts
      <4> QED
        BY <2>4, <4>1
    <3> QED
      BY <3>1, <3>2, EndFacts
  <2>6. LineInv'
    BY <1>1, <2>5 DEF LineInv
  <2>7. line = Cut(typed)
    <3> DEFINE m == Min({Len(typed), LineMax - 1})
    <3>1. m = IF Len(typed) < LineMax THEN Len(typed) ELSE LineMax - 1
      <4> DEFINE a == Len(typed)
                 b == LineMax - 1
      <4>1. a \in Nat /\ b \in Nat
        BY <2>1, CliAssumption
      <4> HIDE DEF a, b
      <4>2. \E x \in {a, b} : \A y \in {a, b} : x <= y
        BY <4>1
      <4>3. Min({a, b}) \in {a, b} /\ \A y \in {a, b} : Min({a, b}) <= y
        BY <4>2 DEF Min
      <4>4. Min({a, b}) = IF a <= b THEN a ELSE b
        BY <4>1, <4>3
      <4> QED
        BY <2>1, <4>4, CliAssumption DEF a, b
    <3>2. m \in 0 .. Len(typed)
      BY <2>1, <3>1, CliAssumption
    <3>3. Len(line) = m /\ \A j \in 1 .. m : line[j] = typed[j]
      BY <1>3, <2>2, <3>1 DEF Typing
    <3>4. Cut(typed) = SubSeq(typed, 1, m)
      BY DEF Cut
    <3> HIDE DEF m
    <3>5. \A j \in 1 .. m : typed[j] \in Symbol
      BY <2>1, <3>2
    <3>6. SubSeq(typed, 1, m) \in Seq(Symbol) /\ Len(SubSeq(typed, 1, m)) = m
          /\ \A j \in 1 .. m : SubSeq(typed, 1, m)[j] = typed[j]
      BY <3>2, <3>5, SubSeqProperties
    <3> QED
      BY <3>3, <3>4, <3>6, SeqEqual DEF CliType
  <2>8. line # <<>> => typed # <<>>
    BY <1>3, <2>2, CliAssumption DEF Typing, CliType
  <2> QED
    BY <2>1, <2>6, <2>7, <2>8
<1> QED
  BY <1>2, <1>3 DEF LineInv

LEMMA InitStore == CliInit => StoreInv /\ LineInv
  BY DEF CliInit, StoreInv, LineInv, Idle

(* A line begins: the store it leads to is the one it orders.              *)
LEMMA DispatchFits ==
  ASSUME OrdersFit, CliType, CliType', LineInv, debug_cli_exec \/ EndOfLine
  PROVE  /\ LineInv' /\ doing = Idle /\ step' = 1
         /\ Fits(doing', OrderOf[text'])
         /\ doing'.do \in {"none", "set", "mode", "on", "off"}
         /\ doing'.do = "none" => doing' = None
         /\ text' \in Text \cup Typed
         /\ UNCHANGED <<buffers, stream>>
<1>1. CASE debug_cli_exec
  <2>1. PICK s \in Text : Dispatch(s) /\ text' = s
    BY <1>1 DEF debug_cli_exec
  <2>2. s \in Seq(Symbol)
    BY LineTypes
  <2>3. Fits(doing', OrderOf[text'])
    BY <2>1 DEF OrdersFit, Dispatch
  <2>4. LineInv'
    BY <1>1 DEF debug_cli_exec, LineInv, Typing
  <2> QED
    BY <1>1, <2>1, <2>2, <2>3, <2>4, DispatchType DEF debug_cli_exec, Dispatch
<1>2. CASE EndOfLine
  <2>1. Dispatch(line) /\ text' = typed /\ line # <<>>
    BY <1>2 DEF EndOfLine
  <2>2. LineInv' /\ typed \in Typed /\ typed # <<>> /\ line = Cut(typed)
    BY <1>2, <2>1, EndLine
  <2>3. doing' = cli_dispatch(Cut(typed)) /\ doing = Idle /\ step' = 1
    BY <2>1, <2>2 DEF Dispatch
  <2>4. Fits(doing', OrderOf[text'])
    BY <2>1, <2>2, <2>3 DEF OrdersFit
  <2>5. /\ doing'.do \in {"none", "set", "mode", "on", "off"}
        /\ doing'.do = "none" => doing' = None
    BY <2>1, DispatchType DEF Dispatch, CliType
  <2> QED
    BY <1>2, <2>1, <2>2, <2>3, <2>4, <2>5 DEF EndOfLine
<1> QED
  BY <1>1, <1>2

LEMMA TypingStore ==
  ASSUME OrdersFit, CliType, CliType', StoreInv, LineInv,
         Type \/ debug_cli_exec \/ debug_cli_putc
  PROVE  StoreInv' /\ LineInv'
<1>1. CASE debug_cli_exec \/ EndOfLine
  <2>1. /\ LineInv' /\ step' = 1 /\ Fits(doing', OrderOf[text'])
        /\ doing'.do \in {"none", "set", "mode", "on", "off"}
        /\ doing'.do = "none" => doing' = None
        /\ UNCHANGED <<cfg_data, cfg_index, cmd_data, cmd_index>>
    BY <1>1, DispatchFits DEF buffers
  <2> QED
    BY <2>1 DEF StoreInv
<1>2. CASE Type \/ EmptyLine \/ Character
  <2>1. UNCHANGED <<doing, step, text, cfg_data, cfg_index, cmd_data, cmd_index>>
    BY <1>2 DEF Type, EmptyLine, Character, buffers
  <2>2. StoreInv'
    BY <2>1 DEF StoreInv, Fits
  <2> QED
    BY <1>2, <2>2, TypeLine, CharacterLine, EndLine
<1> QED
  BY <1>1, <1>2 DEF debug_cli_putc

(* A command's stores: the slot, then the swap that publishes it.          *)
LEMMA ExecuteStore ==
  ASSUME StoreInv, LineInv, Execute
  PROVE  StoreInv' /\ LineInv'
<1>1. LineInv'
  <2>1. UNCHANGED <<line, typing, typed>>
    BY DEF Execute, SetSlot, SetSwap, ModeSlot, ModeSwap, StreamHz, StreamDiv, StopHz, StopDiv, NoStore, Store
  <2> QED
    BY <2>1 DEF LineInv, Typing
<1>2. ASSUME NEW what, NEW n \in {1, 2}, Store(what, n, 2) PROVE
        /\ text' = text /\ doing.do = what
        /\ n = 1 => doing' = doing
        /\ n = 2 => doing' = Idle /\ doing'.do = "idle"
  BY <1>2 DEF Store, Idle
<1>3. CASE SetSlot
  <2>1. /\ doing' = doing /\ text' = text /\ doing.do = "set"
        /\ UNCHANGED <<cfg_index, cmd_data, cmd_index>>
    BY <1>2, <1>3 DEF SetSlot
  <2>2. /\ DOMAIN cfg_data' = DOMAIN cfg_data /\ cfg_data'[cfg_index] = cfg_data[cfg_index]
        /\ cfg_data'[1 - cfg_index] = [cfg_data[cfg_index] EXCEPT ![doing.param] = doing.value]
    BY <1>3 DEF SetSlot, StoreInv
  <2> QED
    BY <1>1, <2>1, <2>2 DEF StoreInv, Fits
<1>4. CASE ModeSlot
  <2>1. /\ doing' = doing /\ text' = text /\ doing.do = "mode"
        /\ UNCHANGED <<cfg_index, cfg_data, cmd_index>>
    BY <1>2, <1>4 DEF ModeSlot
  <2>2. /\ DOMAIN cmd_data' = DOMAIN cmd_data
        /\ cmd_data'[1 - cmd_index] = [mode |-> doing.mode, target |-> doing.target]
    BY <1>4 DEF ModeSlot, StoreInv
  <2> QED
    BY <1>1, <2>1, <2>2 DEF StoreInv, Fits
<1>5. CASE SetSwap \/ ModeSwap \/ StreamDiv \/ StopDiv \/ NoStore
  <2>1. doing' = Idle /\ doing'.do = "idle" /\ UNCHANGED <<cfg_data, cmd_data>>
    BY <1>5 DEF SetSwap, ModeSwap, StreamDiv, StopDiv, NoStore, Store, Idle, buffers
  <2>2. cfg_index' \in {cfg_index, 1 - cfg_index} /\ cmd_index' \in {cmd_index, 1 - cmd_index}
    BY <1>5 DEF SetSwap, ModeSwap, StreamDiv, StopDiv, NoStore, buffers
  <2>3. cfg_index' \in {0, 1} /\ cmd_index' \in {0, 1}
    BY <2>2 DEF StoreInv
  <2> QED
    BY <1>1, <2>1, <2>3 DEF StoreInv
<1>6. CASE StreamHz \/ StopHz
  <2>1. /\ doing' = doing /\ text' = text /\ doing.do \in {"on", "off"}
        /\ UNCHANGED <<cfg_data, cfg_index, cmd_data, cmd_index>>
    BY <1>2, <1>6 DEF StreamHz, StopHz, buffers
  <2> QED
    BY <1>1, <2>1 DEF StoreInv, Fits
<1> QED
  BY <1>3, <1>4, <1>5, <1>6 DEF Execute

LEMMA TickStore ==
  ASSUME StoreInv, LineInv, debug_cli_stream_tick
  PROVE  StoreInv' /\ LineInv'
BY DEF debug_cli_stream_tick, StoreInv, LineInv, Typing, Fits, buffers

CliInv == CliType /\ StreamInv /\ StoreInv /\ LineInv

LEMMA CliSteps == OrdersFit /\ CliSpec => []CliInv
<1> SUFFICES ASSUME OrdersFit PROVE CliSpec => []CliInv
  OBVIOUS
<1>1. ASSUME CliInv, [CliNext]_cliVars PROVE CliInv'
  <2>1. CliType' /\ StreamInv'
    <3>1. CASE UNCHANGED cliVars
      BY <1>1, <3>1 DEF cliVars, CliInv, CliType, StreamInv, stream, rates
    <3> QED
      BY <1>1, <3>1, TypingStream, ExecuteStream, TickStream DEF CliNext, CliInv
  <2>2. StoreInv' /\ LineInv'
    <3>1. CASE UNCHANGED cliVars
      BY <1>1, <3>1 DEF cliVars, CliInv, StoreInv, LineInv, Typing, Fits, buffers
    <3> QED
      BY <1>1, <2>1, <3>1, TypingStore, ExecuteStore, TickStore DEF CliNext, CliInv
  <2> QED
    BY <2>1, <2>2 DEF CliInv
<1> QED
  BY <1>1, InitStream, InitStore, PTL DEF CliSpec, CliInv

LEMMA SettingsInit == CliInit => Settings!Init
  BY DEF CliInit, Settings!Init, Pending, Idle, None, Settings!Nothing

(* The refinement: a line that begins is accepted, the swap or the rate is *)
(* the instant of the change, and all else is a stutter.                   *)
LEMMA SettingsAccept ==
  ASSUME OrdersFit, CliInv, CliInv', debug_cli_exec \/ EndOfLine
  PROVE  Settings!Accept
<1>1. /\ doing = Idle /\ step' = 1 /\ doing'.do \in {"none", "set", "mode", "on", "off"}
      /\ text' \in Text \cup Typed
      /\ UNCHANGED <<cfg_data, cfg_index, cmd_data, cmd_index, stream_hz>>
  BY DispatchFits DEF CliInv, buffers, stream
<1>2. Pending = Settings!Nothing
  BY <1>1 DEF Pending, Settings!Nothing, None
<1>3. Pending' = OrderOf[text']
  BY <1>1 DEF Pending, Idle
<1>4. Pending' \in {OrderOf[s] : s \in Text \cup Typed}
  BY <1>1, <1>3
<1> QED
  BY <1>1, <1>2, <1>4 DEF Settings!Accept

LEMMA SettingsExecute ==
  ASSUME CliInv, CliInv', Execute
  PROVE  [Settings!Next]_(Settings!vars)
<1> USE DEF CliInv, Settings!Nothing
<1>1. CASE SetSlot
  <2>1. /\ doing' = doing /\ text' = text /\ doing.do = "set"
        /\ UNCHANGED <<cfg_index, cmd_data, cmd_index, stream_hz>>
    BY <1>1 DEF SetSlot, Store, stream
  <2>2. cfg_data'[cfg_index] = cfg_data[cfg_index]
    BY <1>1 DEF SetSlot, StoreInv
  <2>3. Pending' = Pending
    BY <2>1 DEF Pending
  <2> QED
    BY <2>1, <2>2, <2>3 DEF Settings!vars
<1>2. CASE ModeSlot
  <2>1. /\ doing' = doing /\ text' = text /\ doing.do = "mode"
        /\ UNCHANGED <<cfg_index, cfg_data, cmd_index, stream_hz>>
    BY <1>2 DEF ModeSlot, Store, stream
  <2>2. cmd_data'[cmd_index] = cmd_data[cmd_index]
    BY <1>2 DEF ModeSlot, StoreInv
  <2>3. Pending' = Pending
    BY <2>1 DEF Pending
  <2> QED
    BY <2>1, <2>2, <2>3 DEF Settings!vars
<1>3. CASE SetSwap
  <2>1. /\ doing.do = "set" /\ step = 2 /\ doing # Idle /\ doing' = Idle
        /\ cfg_index' = 1 - cfg_index
        /\ UNCHANGED <<cfg_data, cmd_data, cmd_index, stream_hz>>
    BY <1>3 DEF SetSwap, Store, stream, Idle
  <2>2. Pending = doing /\ Pending' = Settings!Nothing
    BY <2>1 DEF Pending, None, StoreInv, Fits
  <2>3. cfg_data'[cfg_index'] = [cfg_data[cfg_index] EXCEPT ![Pending.param] = Pending.value]
    BY <2>1, <2>2 DEF StoreInv
  <2>4. Settings!Set
    BY <2>1, <2>2, <2>3 DEF Settings!Set
  <2> QED
    BY <2>2, <2>4 DEF Settings!Next, Settings!Execute
<1>4. CASE ModeSwap
  <2>1. /\ doing.do = "mode" /\ step = 2 /\ doing # Idle /\ doing' = Idle
        /\ cmd_index' = 1 - cmd_index
        /\ UNCHANGED <<cfg_data, cmd_data, cfg_index, stream_hz>>
    BY <1>4 DEF ModeSwap, Store, stream, Idle
  <2>2. Pending = doing /\ Pending' = Settings!Nothing
    BY <2>1 DEF Pending, None, StoreInv, Fits
  <2>3. cmd_data'[cmd_index'] = [mode |-> Pending.mode, target |-> Pending.target]
    BY <2>1, <2>2 DEF StoreInv
  <2>4. Settings!Mode
    BY <2>1, <2>2, <2>3 DEF Settings!Mode
  <2> QED
    BY <2>2, <2>4 DEF Settings!Next, Settings!Execute
<1>5. CASE StreamHz
  <2>1. /\ doing.do = "on" /\ step = 1 /\ step' = 2 /\ doing # Idle /\ doing' = doing
        /\ stream_hz' = doing.hz % RateMod
        /\ UNCHANGED <<cfg_data, cmd_data, cfg_index, cmd_index>>
    BY <1>5 DEF StreamHz, Store, Idle, buffers
  <2>2. Pending = OrderOf[text] /\ Pending' = Settings!Nothing
    BY <2>1 DEF Pending, None
  <2>3. /\ Pending.do = "stream"
        /\ Pending.rate = doing.hz \/ Pending.rate \notin 0 .. RateMod - 1
    BY <2>1, <2>2 DEF StoreInv, Fits
  <2>4. /\ doing.hz \in 0 .. TickRate /\ stream_hz' \in 0 .. RateMod - 1
        /\ doing.hz < RateMod => stream_hz' = doing.hz
    BY <2>1, ModType DEF CliType
  <2>5. Pending.rate \in 0 .. RateMod - 1 => stream_hz' = Pending.rate
    BY <2>3, <2>4, CliAssumption
  <2>6. Settings!Stream
    BY <2>1, <2>3, <2>4, <2>5 DEF Settings!Stream
  <2> QED
    BY <2>2, <2>6 DEF Settings!Next, Settings!Execute
<1>6. CASE StopHz
  <2>1. /\ doing.do = "off" /\ step = 1 /\ step' = 2 /\ doing # Idle /\ doing' = doing
        /\ stream_hz' = 0
        /\ UNCHANGED <<cfg_data, cmd_data, cfg_index, cmd_index>>
    BY <1>6 DEF StopHz, Store, Idle, buffers
  <2>2. Pending = OrderOf[text] /\ Pending' = Settings!Nothing
    BY <2>1 DEF Pending, None
  <2>3. Pending.do = "stream" /\ Pending.rate = 0
    BY <2>1, <2>2 DEF StoreInv, Fits
  <2>4. 0 \in 0 .. RateMod - 1
    BY CliAssumption
  <2>5. Settings!Stream
    BY <2>1, <2>3, <2>4 DEF Settings!Stream
  <2> QED
    BY <2>2, <2>5 DEF Settings!Next, Settings!Execute
<1>7. CASE StreamDiv \/ StopDiv
  <2>1. /\ doing.do \in {"on", "off"} /\ step = 2 /\ doing' = Idle
        /\ UNCHANGED <<cfg_data, cmd_data, cfg_index, cmd_index, stream_hz>>
    BY <1>7 DEF StreamDiv, StopDiv, Store, buffers
  <2>2. Pending' = Pending
    BY <2>1 DEF Pending
  <2> QED
    BY <2>1, <2>2 DEF Settings!vars
<1>8. CASE NoStore
  <2>1. /\ doing.do = "none" /\ doing # Idle /\ doing' = Idle
        /\ UNCHANGED <<cfg_data, cmd_data, cfg_index, cmd_index, stream_hz>>
    BY <1>8 DEF NoStore, Store, buffers, stream, Idle
  <2>2. OrderOf[text] = doing /\ doing = None
    BY <2>1 DEF StoreInv, Fits
  <2>3. Pending = None /\ Pending' = None
    BY <2>1, <2>2 DEF Pending
  <2> QED
    BY <2>1, <2>3 DEF Settings!vars
<1> QED
  BY <1>1, <1>2, <1>3, <1>4, <1>5, <1>6, <1>7, <1>8 DEF Execute

LEMMA SettingsStep ==
  ASSUME OrdersFit, CliInv, CliInv', [CliNext]_cliVars
  PROVE  [Settings!Next]_(Settings!vars)
<1>1. CASE debug_cli_exec \/ EndOfLine
  BY <1>1, SettingsAccept DEF Settings!Next
<1>2. CASE Execute
  BY <1>2, SettingsExecute
<1>3. CASE Type \/ EmptyLine \/ Character \/ debug_cli_stream_tick \/ UNCHANGED cliVars
  <2>1. UNCHANGED <<cfg_data, cfg_index, cmd_data, cmd_index, stream_hz, doing, step, text>>
    BY <1>3 DEF Type, EmptyLine, Character, debug_cli_stream_tick, cliVars, buffers, stream
  <2>2. Pending' = Pending
    BY <2>1 DEF Pending
  <2> QED
    BY <2>1, <2>2 DEF Settings!vars
<1> QED
  BY <1>1, <1>2, <1>3 DEF CliNext, debug_cli_putc

(* The CLI implements Settings but for its fairness: if the parser makes   *)
(* of each line what its order says, then every line changes what it names *)
(* at one instant and nothing else, cut by the buffer or not, and for any  *)
(* alternation of the slots (debug_cli_exec, debug_cli_putc,               *)
(* config_snapshot_update, command_buffer_write).                          *)
THEOREM SettingsAreSafe ==
  OrdersFit /\ CliSpec => Settings!Init /\ [][Settings!Next]_(Settings!vars)
<1> SUFFICES ASSUME OrdersFit
             PROVE  CliSpec => Settings!Init /\ [][Settings!Next]_(Settings!vars)
  OBVIOUS
<1>1. CliSpec => []CliInv
  BY CliSteps
<1>2. ASSUME CliInv, CliInv', [CliNext]_cliVars PROVE [Settings!Next]_(Settings!vars)
  BY <1>2, SettingsStep
<1>3. CliInit => Settings!Init
  BY SettingsInit
<1> QED
  BY <1>1, <1>2, <1>3, PTL DEF CliSpec
===============================================================================

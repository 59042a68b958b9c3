---------------------------- MODULE DoubleBuffer ----------------------------
(***************************************************************************)
(* The lock-free double buffer between two tasks of one core, as           *)
(* src/runtime/feedback.c writes it out (command_buffer.c, setpoint.c and  *)
(* config_snapshot.c repeat it).                                           *)
(*                                                                         *)
(* A struct copy is one step per word, in any order: C fixes none, and the *)
(* release fence only keeps all of them before the store to index.  The    *)
(* task of higher priority preempts the other anywhere and runs to         *)
(* completion, so the steps of the other wait while it is at work.         *)
(*                                                                         *)
(* A word holds the number of the write that stored it, 0 from init.       *)
(***************************************************************************)
EXTENDS Naturals

CONSTANTS
  Word,        \* the words of the struct
  ReaderFirst, \* the reader has the higher priority, else the writer has
  MaxOverlap,  \* writes that can begin during one read
  MaxWrites    \* bound: writes

ASSUME WordAssumption        == Word # {}
ASSUME ReaderFirstAssumption == ReaderFirst \in BOOLEAN
ASSUME BoundsAssumption      == MaxOverlap \in Nat /\ MaxWrites \in Nat

VARIABLES
  data,    \* the two slots
  index,   \* the active slot
  writing, \* a write is in progress
  wslot,   \* its inactive
  wtodo,   \* the words it has yet to copy
  seq,     \* writes begun
  reading, \* a read is in progress
  rslot,   \* its active
  rtodo,   \* the words it has yet to copy
  out,     \* the words it copied
  got,     \* what the last completed read gave its caller
  \* History, no part of the program:
  pub,     \* writes whose store to index is done
  snap,    \* pub when the last read began
  overlap  \* writes begun since

writer == <<writing, wslot, wtodo, seq>>
reader == <<reading, rslot, rtodo, out, got, snap>>
vars   == <<data, index, writer, reader, pub, overlap>>

Slot     == {0, 1}
Whole(n) == [w \in Word |-> n]

Init ==
  /\ data = [s \in Slot |-> Whole(0)] /\ index = 0
  /\ writing = FALSE /\ wslot = 1 /\ wtodo = {} /\ seq = 0
  /\ reading = FALSE /\ rslot = 0 /\ rtodo = {}
  /\ out = Whole(0) /\ got = Whole(0)
  /\ pub = 0 /\ snap = 0 /\ overlap = 0

-----------------------------------------------------------------------------
(* The writer.                                                             *)

WriterRuns == ReaderFirst => ~reading

\* Mutant: picks the slot the readers use.
WriteBegin_ActiveSlot ==
  /\ WriterRuns
  /\ ~writing /\ writing' = TRUE
  /\ seq < MaxWrites /\ seq' = seq + 1
  /\ reading => overlap < MaxOverlap
  /\ overlap' = IF reading THEN overlap + 1 ELSE overlap
  /\ wslot' = index /\ wtodo' = Word
  /\ UNCHANGED <<data, index, reader, pub>>

WriteBegin ==
  /\ WriterRuns
  /\ ~writing /\ writing' = TRUE
  /\ seq < MaxWrites /\ seq' = seq + 1
  /\ reading => overlap < MaxOverlap
  /\ overlap' = IF reading THEN overlap + 1 ELSE overlap
  /\ wslot' = 1 - index /\ wtodo' = Word
  /\ UNCHANGED <<data, index, reader, pub>>

WriteWord ==
  /\ WriterRuns
  /\ writing
  /\ \E w \in wtodo :
       /\ data' = [data EXCEPT ![wslot][w] = seq]
       /\ wtodo' = wtodo \ {w}
  /\ UNCHANGED <<index, writing, wslot, seq, reader, pub, overlap>>

\* Mutant: no fence, the store to index overtakes stores to the slot.
WriteSwap_NoFence ==
  /\ WriterRuns
  /\ writing /\ index # wslot
  /\ index' = wslot /\ pub' = seq
  /\ writing' = (wtodo # {})
  /\ UNCHANGED <<data, wslot, wtodo, seq, reader, overlap>>

WriteSwap ==
  /\ WriterRuns
  /\ writing /\ wtodo = {}
  /\ index' = wslot /\ pub' = seq
  /\ writing' = FALSE
  /\ UNCHANGED <<data, wslot, wtodo, seq, reader, overlap>>

-----------------------------------------------------------------------------
(* The reader.                                                             *)

ReaderRuns == ~ReaderFirst => ~writing

\* Mutant: index is not volatile, and stays in a register across reads.
ReadBegin_Cached ==
  /\ ReaderRuns
  /\ ~reading /\ reading' = TRUE
  /\ rtodo' = Word
  /\ snap' = pub /\ overlap' = 0
  /\ UNCHANGED <<data, index, writer, rslot, out, got, pub>>

ReadBegin ==
  /\ ReaderRuns
  /\ ~reading /\ reading' = TRUE
  /\ rslot' = index /\ rtodo' = Word
  /\ snap' = pub /\ overlap' = 0
  /\ UNCHANGED <<data, index, writer, out, got, pub>>

\* Mutant: index is loaded again for every word.
ReadWord_Reload ==
  /\ ReaderRuns
  /\ reading
  /\ \E w \in rtodo :
       /\ out' = [out EXCEPT ![w] = data[index][w]]
       /\ rtodo' = rtodo \ {w}
  /\ UNCHANGED <<data, index, writer, reading, rslot, got, pub, snap, overlap>>

ReadWord ==
  /\ ReaderRuns
  /\ reading
  /\ \E w \in rtodo :
       /\ out' = [out EXCEPT ![w] = data[rslot][w]]
       /\ rtodo' = rtodo \ {w}
  /\ UNCHANGED <<data, index, writer, reading, rslot, got, pub, snap, overlap>>

ReadEnd ==
  /\ ReaderRuns
  /\ reading /\ rtodo = {}
  /\ reading' = FALSE /\ got' = out
  /\ UNCHANGED <<data, index, writer, rslot, rtodo, out, pub, snap, overlap>>

-----------------------------------------------------------------------------
Next ==
  \/ WriteBegin \/ WriteWord \/ WriteSwap
  \/ ReadBegin \/ ReadWord \/ ReadEnd

Spec == Init /\ [][Next]_vars

(* The reader is a periodic task: it reads again and again, and finishes.  *)
(* The writer finishes what it began, but need never write.                *)
Fairness ==
  /\ WF_vars(WriteWord) /\ WF_vars(WriteSwap)
  /\ WF_vars(ReadBegin) /\ WF_vars(ReadWord) /\ WF_vars(ReadEnd)

FairSpec == Spec /\ Fairness

-----------------------------------------------------------------------------
TypeOK ==
  /\ data \in [Slot -> [Word -> Nat]]
  /\ index \in Slot /\ wslot \in Slot /\ rslot \in Slot
  /\ writing \in BOOLEAN /\ reading \in BOOLEAN
  /\ wtodo \in SUBSET Word /\ rtodo \in SUBSET Word
  /\ out \in [Word -> Nat] /\ got \in [Word -> Nat]
  /\ seq \in Nat /\ pub \in Nat /\ snap \in Nat /\ overlap \in Nat

(* A read never mixes two writes, and returns the last one published when  *)
(* it began, wherever in their copies the two tasks preempt each other     *)
(* (feedback.c:43-44).  It needs ReaderFirst or MaxOverlap <= 1.           *)
Untorn == ~reading => got = Whole(snap)

(* The inductive strengthening of Untorn: the active slot is whole, and    *)
(* the slot being read is not the one being written, nor will be.          *)
IInv ==
  /\ TypeOK
  /\ data[index] = Whole(pub)
  /\ seq = IF writing THEN pub + 1 ELSE pub
  /\ writing => /\ wslot = 1 - index
                /\ \A w \in Word \ wtodo : data[wslot][w] = seq
  /\ reading => /\ data[rslot] = Whole(snap)
                /\ \A w \in Word \ rtodo : out[w] = snap
                /\ index = rslot \/ (~writing /\ ~ReaderFirst /\ overlap = 1)
                /\ ~ReaderFirst /\ writing => overlap = 1
  /\ Untorn

(* The double buffer implements the register, when a torn read counts as   *)
(* a value that is never written.                                          *)
AnyWord == CHOOSE w \in Word : TRUE
Result  == IF \A w \in Word : got[w] = got[AnyWord]
           THEN got[AnyWord] ELSE MaxWrites + 1

Register == INSTANCE Register WITH value <- pub, result <- Result

ImplementsRegister == Register!Spec

(* What is published reaches the reader's caller, or something newer does: *)
(* keeping no flag that a read could consume, the buffer loses nothing.    *)
PublishedIsRead ==
  \A n \in 1..MaxWrites : (pub = n) ~> (\E m \in n..MaxWrites : got = Whole(m))
=============================================================================

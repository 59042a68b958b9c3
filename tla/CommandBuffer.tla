---------------------------- MODULE CommandBuffer ----------------------------
(***************************************************************************)
(* The command buffer (src/runtime/command_buffer.c): a double buffer that *)
(* also tells its reader whether the command is new.  The Service task     *)
(* writes, the Motion task, of higher priority, reads.                     *)
(*                                                                         *)
(* command_buffer_set_mode is a read and a write by the writer.  The read  *)
(* stores last_index, which is the reader's, between its load of index and *)
(* the write: the reader may run on either side of that store.             *)
(***************************************************************************)
EXTENDS DoubleBuffer

VARIABLES
  last_index, \* the active slot of the last read
  setting,    \* command_buffer_set_mode is between its read and its write
  is_new,     \* what the last completed read returned
  prev        \* history: snap of the read before the last one

cbvars == <<vars, last_index, setting, is_new, prev>>

CInit ==
  /\ Init
  /\ last_index = 0 /\ setting = FALSE /\ is_new = FALSE /\ prev = 0

command_buffer_write ==
  \/ WriteBegin /\ setting' = FALSE /\ UNCHANGED <<last_index, is_new, prev>>
  \/ (WriteWord \/ WriteSwap) /\ UNCHANGED <<last_index, setting, is_new, prev>>

\* The writer's own read is whole: nobody else writes a slot.
SetModeRead ==
  /\ WriterRuns
  /\ ~writing /\ ~setting /\ setting' = TRUE
  /\ seq < MaxWrites
  /\ last_index' = index
  /\ UNCHANGED <<vars, is_new, prev>>

\* Mutant: last_index is not kept.
command_buffer_read_KeepsLast ==
  \/ ReadBegin /\ prev' = snap /\ UNCHANGED <<last_index, setting, is_new>>
  \/ ReadWord /\ UNCHANGED <<last_index, setting, is_new, prev>>
  \/ ReadEnd /\ is_new' = (rslot # last_index)
             /\ UNCHANGED <<last_index, setting, prev>>

command_buffer_read ==
  \/ ReadBegin /\ prev' = snap /\ UNCHANGED <<last_index, setting, is_new>>
  \/ ReadWord /\ UNCHANGED <<last_index, setting, is_new, prev>>
  \/ ReadEnd /\ is_new' = (rslot # last_index) /\ last_index' = rslot
             /\ UNCHANGED <<setting, prev>>

CNext == command_buffer_write \/ SetModeRead \/ command_buffer_read

CSpec == CInit /\ [][CNext]_cbvars

-----------------------------------------------------------------------------
CTypeOK ==
  /\ TypeOK
  /\ last_index \in Slot
  /\ setting \in BOOLEAN /\ is_new \in BOOLEAN
  /\ prev \in Nat

(* A read that says the command is new returns another one than the read   *)
(* before it did, even when set_mode stored last_index in between.         *)
NoSpuriousNew == ~reading /\ is_new => snap # prev

(* Its inductive strengthening: a slot other than last_index holds a write *)
(* that no read returned, and once a read has begun, its snap and the one  *)
(* before it differ.                                                       *)
CInv ==
  /\ IInv /\ CTypeOK
  /\ ~reading /\ index # last_index => pub > snap
  /\ reading /\ rslot # last_index => snap > prev
  /\ pub >= snap /\ snap >= prev
  /\ NoSpuriousNew
=============================================================================

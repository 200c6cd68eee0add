------------------------------ MODULE BlockPool ------------------------------
(***************************************************************************)
(* The pool of physical KV-cache blocks (class BlockPool) and the vector   *)
(* operations KVCacheManager builds on it.  Every BlockPool operation runs *)
(* under the pool's own mutex, so each is one action here.                 *)
(*                                                                         *)
(* Only the state is here; PoolClients and Scheduler say who calls what.   *)
(* KV bytes are abstracted to what a slot was last written with: an entry  *)
(* chosen by the caller, or Blank for zeroed bytes.  The layers of a block *)
(* are written alike by every caller, so one layer stands for all.         *)
(***************************************************************************)
EXTENDS Integers, FiniteSets, Sequences

CONSTANTS
  NumBlocks,    (* blocks in the pool                          *)
  BlockSize     (* BLOCK_SIZE: token slots per block           *)

ASSUME NumBlocksAssumption == NumBlocks \in Nat
ASSUME BlockSizeAssumption == BlockSize \in Nat \ {0}

VARIABLES
  isFree,       (* KVsBlock::free                              *)
  refCount,     (* KVsBlock::ref_count                         *)
  kv            (* k_data / v_data, one entry per token slot   *)

poolVars == <<isFree, refCount, kv>>

Blocks == 0 .. NumBlocks - 1
Slots  == 0 .. BlockSize - 1

Blank       == <<>>
ZeroedBlock == [s \in Slots |-> Blank]

PoolInit ==
  /\ isFree   = [b \in Blocks |-> TRUE]
  /\ refCount = [b \in Blocks |-> 0]
  /\ kv       = [b \in Blocks |-> ZeroedBlock]

-----------------------------------------------------------------------------

FreeCount == Cardinality({b \in Blocks : isFree[b]})

\* alloc() returns -1
PoolExhausted == \A b \in Blocks : ~isFree[b]

\* the scan of alloc() stops at b
FirstFree(b) == isFree[b] /\ \A c \in Blocks : c < b => ~isFree[c]

\* mutant: the block is handed out but stays marked free
AllocStaysFree(b) ==
  /\ FirstFree(b)
  /\ refCount' = [refCount EXCEPT ![b] = 1]
  /\ UNCHANGED <<isFree, kv>>

Alloc(b) ==
  /\ FirstFree(b)
  /\ isFree'   = [isFree EXCEPT ![b] = FALSE]
  /\ refCount' = [refCount EXCEPT ![b] = 1]
  /\ UNCHANGED kv

LastRef(b) == refCount[b] <= 1

\* mutant: free() does not clear the data
FreeKeepsData(b) ==
  /\ refCount' = [refCount EXCEPT ![b] = IF LastRef(b) THEN 0 ELSE @ - 1]
  /\ isFree'   = [isFree EXCEPT ![b] = @ \/ LastRef(b)]
  /\ UNCHANGED kv

\* mutant: the data is cleared while others still hold the block
FreeClearsShared(b) ==
  /\ refCount' = [refCount EXCEPT ![b] = IF LastRef(b) THEN 0 ELSE @ - 1]
  /\ isFree'   = [isFree EXCEPT ![b] = @ \/ LastRef(b)]
  /\ kv'       = [kv EXCEPT ![b] = ZeroedBlock]

Free(b) ==
  /\ refCount' = [refCount EXCEPT ![b] = IF LastRef(b) THEN 0 ELSE @ - 1]
  /\ isFree'   = [isFree EXCEPT ![b] = @ \/ LastRef(b)]
  /\ kv'       = IF LastRef(b) THEN [kv EXCEPT ![b] = ZeroedBlock] ELSE kv

Ref(b) ==
  /\ refCount' = [refCount EXCEPT ![b] = @ + 1]
  /\ UNCHANGED <<isFree, kv>>

\* mutant: the last reference goes and the block stays taken
DerefNeverFrees(b) ==
  /\ refCount' = [refCount EXCEPT ![b] = IF LastRef(b) THEN 0 ELSE @ - 1]
  /\ UNCHANGED <<isFree, kv>>

\* unlike free(), deref() leaves the bytes of a block it releases
Deref(b) ==
  /\ refCount' = [refCount EXCEPT ![b] = IF LastRef(b) THEN 0 ELSE @ - 1]
  /\ isFree'   = [isFree EXCEPT ![b] = @ \/ LastRef(b)]
  /\ UNCHANGED kv

Reset ==
  /\ isFree'   = [b \in Blocks |-> TRUE]
  /\ refCount' = [b \in Blocks |-> 0]
  /\ kv'       = [b \in Blocks |-> ZeroedBlock]

CopyTo(dst, src) ==
  /\ kv' = [kv EXCEPT ![dst] = kv[src]]
  /\ UNCHANGED <<isFree, refCount>>

\* mutant: the slot's offset is lost
WriteBlock(b, s, entry) ==
  /\ kv' = [kv EXCEPT ![b] = entry]
  /\ UNCHANGED <<isFree, refCount>>

WriteSlot(b, s, entry) ==
  /\ kv' = [kv EXCEPT ![b][s] = entry]
  /\ UNCHANGED <<isFree, refCount>>

-----------------------------------------------------------------------------
(***************************************************************************)
(* Block tables: the block and the slot of a token position, and what the  *)
(* KV data becomes when a position is written through a table.  A position *)
(* the table does not reach is skipped, as write_kv_token does.            *)
(***************************************************************************)

BlocksFor(tokens) == (tokens + BlockSize - 1) \div BlockSize

Reaches(blockTable, pos) == pos \div BlockSize < Len(blockTable)
BlockAt(blockTable, pos) == blockTable[pos \div BlockSize + 1]
SlotAt(pos)              == pos % BlockSize

\* kv after an entry is written at a position
Written(blockTable, pos, entry) ==
  IF Reaches(blockTable, pos)
  THEN [kv EXCEPT ![BlockAt(blockTable, pos)][SlotAt(pos)] = entry]
  ELSE kv

\* what an attention over the table reads at a position (Blank if skipped)
ReadAt(blockTable, pos) ==
  IF Reaches(blockTable, pos)
  THEN kv[BlockAt(blockTable, pos)][SlotAt(pos)]
  ELSE Blank

=============================================================================

----------------------------- MODULE PoolClients -----------------------------
(***************************************************************************)
(* The block pool under every use its interface documents, prefix sharing  *)
(* included.  A client gives back only references it holds and touches     *)
(* only data of blocks it holds; it may release one either with free() or  *)
(* with deref(), and share a block with another client after ref().  The   *)
(* pool is reset only when nobody holds anything.  A client is any code    *)
(* with block ids in hand: in this program request tables and the vectors  *)
(* of alloc_blocks, which never call ref, deref or reset.                  *)
(***************************************************************************)
EXTENDS BlockPool, Functions

CONSTANTS
  Clients,
  MaxHandles     (* bound on the references one client has to one block *)

ASSUME ClientsAssumption    == IsFiniteSet(Clients)
ASSUME MaxHandlesAssumption == MaxHandles \in Nat \ {0}

VARIABLE handles    (* the references each client holds, by block *)

holderVars == <<poolVars, handles>>

Holds(c, b)  == handles[c][b] > 0
HandlesOf(b) == SumFunction([c \in Clients |-> handles[c][b]])

Gains(c, b)  == /\ handles[c][b] < MaxHandles
                /\ handles' = [handles EXCEPT ![c][b] = @ + 1]
Yields(c, b) == /\ Holds(c, b)
                /\ handles' = [handles EXCEPT ![c][b] = @ - 1]

HolderInit == PoolInit /\ handles = [c \in Clients |-> [b \in Blocks |-> 0]]

\* alloc() that returns -1 changes nothing
HolderAllocates(c) == \E b \in Blocks : Alloc(b) /\ Gains(c, b)

\* c takes the reference for d
HolderShares(c, d, b) == Holds(c, b) /\ Ref(b) /\ Gains(d, b)

HolderFrees(c, b)  == Yields(c, b) /\ Free(b)
HolderDerefs(c, b) == Yields(c, b) /\ Deref(b)

HolderWrites(c, b, s) == Holds(c, b) /\ WriteSlot(b, s, c) /\ UNCHANGED handles

HolderCopies(c, dst, src) ==
  /\ Holds(c, dst) /\ Holds(c, src)
  /\ CopyTo(dst, src) /\ UNCHANGED handles

ResetIdlePool ==
  /\ \A c \in Clients, b \in Blocks : ~Holds(c, b)
  /\ Reset /\ UNCHANGED handles

HolderNext ==
  \/ \E c \in Clients :
       \/ HolderAllocates(c)
       \/ \E b \in Blocks :
            \/ HolderFrees(c, b) \/ HolderDerefs(c, b)
            \/ \E d \in Clients : HolderShares(c, d, b)
            \/ \E s \in Slots : HolderWrites(c, b, s)
            \/ \E src \in Blocks : HolderCopies(c, b, src)
  \/ ResetIdlePool

HolderSpec == HolderInit /\ [][HolderNext]_holderVars

-----------------------------------------------------------------------------

\* Type invariant of the pool and its clients.
PoolTypeOK ==
  /\ isFree \in [Blocks -> BOOLEAN]
  /\ refCount \in [Blocks -> Nat]
  /\ kv \in [Blocks -> [Slots -> {Blank} \cup Clients]]
  /\ handles \in [Clients -> [Blocks -> 0 .. MaxHandles]]

\* The pool's bookkeeping is exact: ref_count is the number of references given out, and
\* a block is free exactly when there are none, so alloc() never hands out a held block
\* and no block is lost, whatever mix of alloc, ref, free and deref led here.
CountsAreExact ==
  \A b \in Blocks : refCount[b] = HandlesOf(b) /\ (isFree[b] <=> HandlesOf(b) = 0)

\* Sharing is transparent to the data: while somebody keeps a block, taking or giving
\* back other references to it ("decrement ref_count, physically free if reaches 0",
\* kv_cache_manager.h:59) leaves its bytes alone.
SharedDataSurvives ==
  [][\A b \in Blocks :
       /\ refCount'[b] # refCount[b]
       /\ \E c \in Clients : handles[c][b] > 0 /\ handles'[c][b] > 0
       => kv'[b] = kv[b]]_holderVars

=============================================================================

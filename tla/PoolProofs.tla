----------------------------- MODULE PoolProofs -----------------------------
(***************************************************************************)
(* Proofs about the block pool under every use its interface documents:    *)
(* the reference counts are exact, and sharing a block leaves its data     *)
(* alone.  The number of blocks, their size, the clients (finitely many)   *)
(* and the references a client may collect are arbitrary.                  *)
(***************************************************************************)
EXTENDS PoolClients, SumLemmas

USE DEF poolVars, holderVars

\* one client's references to one block, as HandlesOf sums them
HandlesAt(b) == [c \in Clients |-> handles[c][b]]

-----------------------------------------------------------------------------
(* What the steps do to the references held. *)

LEMMA HandlesType ==
  ASSUME PoolTypeOK, NEW b \in Blocks
  PROVE  /\ HandlesAt(b) \in [Clients -> Nat]
         /\ HandlesOf(b) = SumFunction(HandlesAt(b))
         /\ HandlesOf(b) \in Nat
         /\ \A c \in Clients : handles[c][b] \in Nat /\ handles[c][b] <= HandlesOf(b)
         /\ (\A c \in Clients : handles[c][b] = 0) => HandlesOf(b) = 0
<1>1. \A c \in Clients : handles[c][b] \in Nat
  BY MaxHandlesAssumption DEF PoolTypeOK
<1>2. HandlesAt(b) \in [Clients -> Nat] /\ \A c \in Clients : HandlesAt(b)[c] = handles[c][b]
  BY <1>1 DEF HandlesAt
<1>3. HandlesOf(b) = SumFunction(HandlesAt(b))
  BY DEF HandlesOf, HandlesAt
<1>4. /\ SumFunction(HandlesAt(b)) \in Nat
      /\ \A c \in Clients : HandlesAt(b)[c] <= SumFunction(HandlesAt(b))
      /\ (\A c \in Clients : HandlesAt(b)[c] = 0) => SumFunction(HandlesAt(b)) = 0
  BY <1>2, ClientsAssumption, SumBounds
<1>. QED  BY <1>1, <1>2, <1>3, <1>4

\* One client's references to one block change, and the sum with them.
LEMMA HandlesMove ==
  ASSUME PoolTypeOK, PoolTypeOK', NEW c \in Clients, NEW b \in Blocks, NEW k \in Int,
         handles' = [handles EXCEPT ![c][b] = k]
  PROVE  /\ HandlesOf(b)' = HandlesOf(b) - handles[c][b] + k
         /\ \A a \in Blocks : a # b => HandlesOf(a)' = HandlesOf(a)
<1>1. \A d \in Clients, a \in Blocks :
        handles'[d][a] = IF d = c /\ a = b THEN k ELSE handles[d][a]
  BY DEF PoolTypeOK
<1>2. ASSUME NEW a \in Blocks, a # b PROVE HandlesOf(a)' = HandlesOf(a)
  <2>1. [d \in Clients |-> handles'[d][a]] = [d \in Clients |-> handles[d][a]]
    BY <1>1, <1>2
  <2>. QED  BY <2>1 DEF HandlesOf
<1>3. HandlesOf(b)' = HandlesOf(b) - handles[c][b] + k
  <2> DEFINE f == HandlesAt(b)
             g == [d \in Clients |-> handles'[d][b]]
  <2>1. f \in [Clients -> Int] /\ g \in [Clients -> Int]
    BY MaxHandlesAssumption DEF PoolTypeOK, HandlesAt
  <2>2. f[c] = handles[c][b] /\ g[c] = k /\ \A d \in Clients : d # c => g[d] = f[d]
    BY <1>1 DEF HandlesAt
  <2>3. HandlesOf(b) = SumFunction(f) /\ HandlesOf(b)' = SumFunction(g)
    BY DEF HandlesOf, HandlesAt
  <2>. HIDE DEF f, g
  <2>4. SumFunction(g) = SumFunction(f) - f[c] + g[c]
    BY <2>1, <2>2, ClientsAssumption, SumChange
  <2>. QED  BY <2>2, <2>3, <2>4
<1>. QED  BY <1>2, <1>3

LEMMA HandlesStayTyped ==
  ASSUME PoolTypeOK, NEW c \in Clients, NEW b \in Blocks, Gains(c, b) \/ Yields(c, b)
  PROVE  handles' \in [Clients -> [Blocks -> 0 .. MaxHandles]]
<1>1. handles \in [Clients -> [Blocks -> 0 .. MaxHandles]] /\ handles[c][b] \in 0 .. MaxHandles
  BY DEF PoolTypeOK
<1>2. CASE Gains(c, b)
  <2> DEFINE k == handles[c][b] + 1
  <2>1. k \in 0 .. MaxHandles /\ handles' = [handles EXCEPT ![c][b] = k]
    BY <1>1, <1>2, MaxHandlesAssumption DEF Gains
  <2>. HIDE DEF k
  <2>. QED  BY <1>1, <2>1
<1>3. CASE Yields(c, b)
  <2> DEFINE k == handles[c][b] - 1
  <2>1. k \in 0 .. MaxHandles /\ handles' = [handles EXCEPT ![c][b] = k]
    BY <1>1, <1>3, MaxHandlesAssumption DEF Yields, Holds
  <2>. HIDE DEF k
  <2>. QED  BY <1>1, <2>1
<1>. QED  BY <1>2, <1>3

LEMMA PoolStaysTyped ==
  ASSUME PoolTypeOK, NEW b \in Blocks, Alloc(b) \/ Free(b) \/ Ref(b) \/ Deref(b)
  PROVE  /\ isFree' \in [Blocks -> BOOLEAN] /\ refCount' \in [Blocks -> Nat]
         /\ kv' \in [Blocks -> [Slots -> {Blank} \cup Clients]]
<1>1. /\ isFree \in [Blocks -> BOOLEAN] /\ refCount \in [Blocks -> Nat] /\ refCount[b] \in Nat
      /\ kv \in [Blocks -> [Slots -> {Blank} \cup Clients]]
      /\ ZeroedBlock \in [Slots -> {Blank} \cup Clients]
  BY DEF PoolTypeOK, ZeroedBlock
<1>2. isFree' \in [Blocks -> BOOLEAN]
  BY <1>1 DEF Alloc, Free, Ref, Deref, LastRef
<1>3. refCount' \in [Blocks -> Nat]
  <2>1. PICK k \in Nat : refCount' = [refCount EXCEPT ![b] = k]
    BY <1>1 DEF Alloc, Free, Ref, Deref, LastRef
  <2>. QED  BY <1>1, <2>1
<1>4. kv' \in [Blocks -> [Slots -> {Blank} \cup Clients]]
  BY <1>1 DEF Alloc, Free, Ref, Deref
<1>. QED  BY <1>2, <1>3, <1>4

LEMMA HolderType ==
  ASSUME PoolTypeOK, HolderNext
  PROVE  PoolTypeOK'
<1>1. ASSUME NEW c \in Clients, NEW b \in Blocks, Gains(c, b) \/ Yields(c, b),
             Alloc(b) \/ Free(b) \/ Ref(b) \/ Deref(b)
      PROVE  PoolTypeOK'
  BY <1>1, HandlesStayTyped, PoolStaysTyped DEF PoolTypeOK
<1>2. ASSUME NEW c \in Clients, NEW b \in Blocks, NEW s \in Slots, HolderWrites(c, b, s)
      PROVE  PoolTypeOK'
  BY <1>2 DEF HolderWrites, WriteSlot, PoolTypeOK
<1>3. ASSUME NEW c \in Clients, NEW b \in Blocks, NEW src \in Blocks, HolderCopies(c, b, src)
      PROVE  PoolTypeOK'
  BY <1>3 DEF HolderCopies, CopyTo, PoolTypeOK
<1>4. CASE ResetIdlePool
  BY <1>4 DEF ResetIdlePool, Reset, ZeroedBlock, PoolTypeOK
<1>. QED  BY <1>1, <1>2, <1>3, <1>4
          DEF HolderNext, HolderAllocates, HolderFrees, HolderDerefs, HolderShares

\* What a step does to the references to one block.
LEMMA HolderMoves ==
  ASSUME PoolTypeOK, PoolTypeOK', NEW c \in Clients, NEW b \in Blocks
  PROVE  /\ Gains(c, b) => /\ HandlesOf(b)' = HandlesOf(b) + 1
                           /\ \A a \in Blocks : a # b => HandlesOf(a)' = HandlesOf(a)
         /\ Yields(c, b) => /\ HandlesOf(b)' = HandlesOf(b) - 1 /\ HandlesOf(b) >= 1
                            /\ \A a \in Blocks : a # b => HandlesOf(a)' = HandlesOf(a)
<1>1. /\ handles[c][b] \in Nat /\ HandlesOf(b) \in Nat
      /\ handles[c][b] <= HandlesOf(b)
  BY HandlesType
<1>2. CASE Gains(c, b)
  <2> DEFINE k == handles[c][b] + 1
  <2>1. handles' = [handles EXCEPT ![c][b] = k] /\ k \in Int
    BY <1>1, <1>2 DEF Gains
  <2>2. /\ HandlesOf(b)' = HandlesOf(b) - handles[c][b] + k
        /\ \A a \in Blocks : a # b => HandlesOf(a)' = HandlesOf(a)
    <3>. HIDE DEF k
    <3>. QED  BY <2>1, HandlesMove
  <2>3. ~Yields(c, b)
    BY <1>1, <1>2 DEF Gains, Yields, PoolTypeOK
  <2>. QED  BY <1>1, <2>2, <2>3
<1>3. CASE Yields(c, b)
  <2> DEFINE k == handles[c][b] - 1
  <2>1. handles' = [handles EXCEPT ![c][b] = k] /\ k \in Int /\ handles[c][b] >= 1
    BY <1>1, <1>3 DEF Yields, Holds
  <2>2. /\ HandlesOf(b)' = HandlesOf(b) - handles[c][b] + k
        /\ \A a \in Blocks : a # b => HandlesOf(a)' = HandlesOf(a)
    <3>. HIDE DEF k
    <3>. QED  BY <2>1, HandlesMove
  <2>3. ~Gains(c, b)
    BY <1>1, <1>3 DEF Gains, Yields, PoolTypeOK
  <2>. QED  BY <1>1, <2>1, <2>2, <2>3
<1>. QED  BY <1>2, <1>3

-----------------------------------------------------------------------------

LEMMA CountsStep ==
  ASSUME PoolTypeOK, CountsAreExact, HolderNext
  PROVE  CountsAreExact'
<1>0. PoolTypeOK'
  BY HolderType
<1>. USE DEF CountsAreExact
<1>a. \A a \in Blocks : refCount[a] \in Nat /\ HandlesOf(a) \in Nat
  BY HandlesType DEF PoolTypeOK
<1>1. ASSUME NEW c \in Clients, HolderAllocates(c) PROVE CountsAreExact'
  <2>1. PICK b \in Blocks : Alloc(b) /\ Gains(c, b)
    BY <1>1 DEF HolderAllocates
  <2>2. isFree[b] /\ HandlesOf(b) = 0
    BY <2>1 DEF Alloc, FirstFree
  <2>3. /\ HandlesOf(b)' = 1
        /\ \A a \in Blocks : a # b => HandlesOf(a)' = HandlesOf(a)
    BY <1>0, <2>1, <2>2, HolderMoves
  <2>4. /\ refCount'[b] = 1 /\ isFree'[b] = FALSE
        /\ \A a \in Blocks : a # b => refCount'[a] = refCount[a] /\ isFree'[a] = isFree[a]
    BY <2>1 DEF Alloc, PoolTypeOK
  <2>. QED  BY <2>3, <2>4
<1>2. ASSUME NEW c \in Clients, NEW b \in Blocks, HolderFrees(c, b) \/ HolderDerefs(c, b)
      PROVE  CountsAreExact'
  <2>1. /\ HandlesOf(b)' = HandlesOf(b) - 1 /\ HandlesOf(b) >= 1
        /\ \A a \in Blocks : a # b => HandlesOf(a)' = HandlesOf(a)
    BY <1>0, <1>2, HolderMoves DEF HolderFrees, HolderDerefs
  <2>2. /\ refCount'[b] = IF refCount[b] <= 1 THEN 0 ELSE refCount[b] - 1
        /\ isFree'[b] = (isFree[b] \/ refCount[b] <= 1)
        /\ \A a \in Blocks : a # b => refCount'[a] = refCount[a] /\ isFree'[a] = isFree[a]
    BY <1>2 DEF HolderFrees, HolderDerefs, Free, Deref, LastRef, PoolTypeOK
  <2>3. refCount[b] = HandlesOf(b) /\ ~isFree[b]
    BY <1>a, <2>1
  <2>4. refCount'[b] = HandlesOf(b)'
    BY <1>a, <2>1, <2>2, <2>3
  <2>5. isFree'[b] <=> HandlesOf(b)' = 0
    <3>1. refCount[b] <= 1 <=> HandlesOf(b) - 1 = 0
      BY <1>a, <2>1, <2>3
    <3>. QED  BY <2>1, <2>2, <2>3, <3>1
  <2>. QED  BY <2>1, <2>2, <2>4, <2>5
<1>3. ASSUME NEW c \in Clients, NEW d \in Clients, NEW b \in Blocks, HolderShares(c, d, b)
      PROVE  CountsAreExact'
  <2>1. /\ HandlesOf(b)' = HandlesOf(b) + 1
        /\ \A a \in Blocks : a # b => HandlesOf(a)' = HandlesOf(a)
    BY <1>0, <1>3, HolderMoves DEF HolderShares
  <2>2. handles[c][b] > 0 /\ handles[c][b] \in Nat /\ handles[c][b] <= HandlesOf(b)
    BY <1>3, HandlesType DEF HolderShares, Holds
  <2>3. /\ refCount'[b] = refCount[b] + 1 /\ isFree' = isFree
        /\ \A a \in Blocks : a # b => refCount'[a] = refCount[a]
    BY <1>3 DEF HolderShares, Ref, PoolTypeOK
  <2>4. HandlesOf(b) # 0 /\ HandlesOf(b)' # 0
    BY <1>a, <2>1, <2>2
  <2>. QED  BY <2>1, <2>3, <2>4
<1>4. ASSUME UNCHANGED <<isFree, refCount, handles>> PROVE CountsAreExact'
  BY <1>4 DEF HandlesOf
<1>5. ASSUME NEW c \in Clients, NEW b \in Blocks, NEW s \in Slots, HolderWrites(c, b, s)
      PROVE  CountsAreExact'
  BY <1>4, <1>5 DEF HolderWrites, WriteSlot
<1>6. ASSUME NEW c \in Clients, NEW b \in Blocks, NEW src \in Blocks, HolderCopies(c, b, src)
      PROVE  CountsAreExact'
  BY <1>4, <1>6 DEF HolderCopies, CopyTo
<1>7. CASE ResetIdlePool
  <2>1. ASSUME NEW b \in Blocks PROVE HandlesOf(b)' = 0
    <3>1. \A c \in Clients : handles[c][b] = 0
      BY <1>7, HandlesType DEF ResetIdlePool, Holds
    <3>2. HandlesOf(b) = 0
      BY <3>1, HandlesType
    <3>. QED  BY <1>7, <3>2 DEF ResetIdlePool, HandlesOf
  <2>. QED  BY <1>7, <2>1 DEF ResetIdlePool, Reset
<1>. QED  BY <1>1, <1>2, <1>3, <1>5, <1>6, <1>7 DEF HolderNext

LEMMA CountsInit == HolderInit => PoolTypeOK /\ CountsAreExact
<1>. SUFFICES ASSUME HolderInit PROVE PoolTypeOK /\ CountsAreExact
  OBVIOUS
<1>1. PoolTypeOK
  BY MaxHandlesAssumption DEF HolderInit, PoolInit, PoolTypeOK, ZeroedBlock
<1>2. \A b \in Blocks : HandlesOf(b) = 0
  BY <1>1, HandlesType DEF HolderInit
<1>. QED  BY <1>1, <1>2 DEF HolderInit, PoolInit, CountsAreExact

\* The pool's variables and its clients' have their types.
THEOREM PoolTypeCorrect == HolderSpec => []PoolTypeOK
<1>1. PoolTypeOK /\ [HolderNext]_holderVars => PoolTypeOK'
  BY HolderType DEF PoolTypeOK
<1>. QED  BY <1>1, CountsInit, PTL DEF HolderSpec

LEMMA CountsInduction == HolderSpec => [](PoolTypeOK /\ CountsAreExact)
<1>1. PoolTypeOK /\ CountsAreExact /\ [HolderNext]_holderVars
        => PoolTypeOK' /\ CountsAreExact'
  <2>. SUFFICES ASSUME PoolTypeOK, CountsAreExact, [HolderNext]_holderVars
                PROVE  PoolTypeOK' /\ CountsAreExact'
    OBVIOUS
  <2>1. CASE HolderNext
    BY <2>1, HolderType, CountsStep
  <2>2. CASE UNCHANGED holderVars
    BY <2>2 DEF PoolTypeOK, CountsAreExact, HandlesOf
  <2>. QED  BY <2>1, <2>2
<1>. QED  BY <1>1, CountsInit, PTL DEF HolderSpec

\* ref_count is the number of references given out and a block is free exactly when there
\* are none, after any mix of alloc, ref, free, deref and reset.
THEOREM CountsCorrect == HolderSpec => []CountsAreExact
  BY CountsInduction, PTL

LEMMA DataStep ==
  ASSUME PoolTypeOK, CountsAreExact, HolderNext, NEW b \in Blocks, refCount'[b] # refCount[b],
         NEW c \in Clients, handles[c][b] > 0, handles'[c][b] > 0
  PROVE  kv'[b] = kv[b]
<1>0. PoolTypeOK'
  BY HolderType
<1>1. CASE \E d \in Clients, a \in Blocks : HolderFrees(d, a)
  <2>1. PICK d \in Clients, a \in Blocks : Yields(d, a) /\ Free(a)
    BY <1>1 DEF HolderFrees
  <2>2. SUFFICES ASSUME a = b, LastRef(b) PROVE FALSE
    BY <2>1 DEF Free, PoolTypeOK
  <2>3. HandlesOf(b)' = HandlesOf(b) - 1 /\ HandlesOf(b) >= 1
    BY <1>0, <2>1, <2>2, HolderMoves
  <2>4. HandlesOf(b) \in Nat /\ HandlesOf(b) <= 1
    BY <2>2, HandlesType DEF LastRef, CountsAreExact
  <2>5. HandlesOf(b)' = 0
    BY <2>3, <2>4
  <2>6. handles'[c][b] <= HandlesOf(b)' /\ handles'[c][b] \in Nat
    <3> DEFINE g == [d1 \in Clients |-> handles'[d1][b]]
    <3>1. g \in [Clients -> Nat] /\ g[c] = handles'[c][b]
      BY <1>0, MaxHandlesAssumption DEF PoolTypeOK
    <3>2. HandlesOf(b)' = SumFunction(g)
      BY DEF HandlesOf
    <3>. HIDE DEF g
    <3>3. g[c] <= SumFunction(g)
      BY <3>1, ClientsAssumption, SumBounds
    <3>. QED  BY <3>1, <3>2, <3>3
  <2>. QED  BY <2>5, <2>6
<1>2. CASE ~ \E d \in Clients, a \in Blocks : HolderFrees(d, a)
  <2>1. ~ResetIdlePool
    BY DEF ResetIdlePool, Holds
  <2>. QED  BY <1>2, <2>1 DEF HolderNext, HolderAllocates, Alloc, HolderDerefs, Deref,
                              HolderShares, Ref, HolderWrites, WriteSlot, HolderCopies, CopyTo
<1>. QED  BY <1>1, <1>2

\* While a client keeps a block, references to it that others take or give back leave its
\* data alone.
THEOREM SharedDataCorrect == HolderSpec => SharedDataSurvives
<1> DEFINE Kept == \A b \in Blocks :
                     /\ refCount'[b] # refCount[b]
                     /\ \E c \in Clients : handles[c][b] > 0 /\ handles'[c][b] > 0
                     => kv'[b] = kv[b]
<1>1. PoolTypeOK /\ CountsAreExact /\ [HolderNext]_holderVars => [Kept]_holderVars
  BY DataStep
<1>2. [][PoolTypeOK /\ CountsAreExact /\ [HolderNext]_holderVars]_holderVars
        => [][Kept]_holderVars
  BY <1>1, PTL
<1>3. SharedDataSurvives <=> [][Kept]_holderVars
  BY DEF SharedDataSurvives
<1>. QED  BY <1>1, <1>3, CountsInduction, PTL DEF HolderSpec

=============================================================================

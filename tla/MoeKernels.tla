------------------------------ MODULE MoeKernels ------------------------------
(***************************************************************************)
(* The expert-routing kernels of the CUDA build, one GPU thread per token: *)
(* moe_route_kernel picks top_k experts, moe_dispatch_kernel puts the      *)
(* token into their buffers, moe_combine_kernel sums what the buffers hold *)
(* for the token.  Kernels run one after the other; the threads of         *)
(* dispatch run concurrently.  Calls share one temp_buf, so what a call    *)
(* leaves there is what the next one finds.  The experts work in place, so *)
(* an entry of a buffer stands for the expert's output as well.            *)
(*                                                                         *)
(* The CPU's moe_forward (model.cpp) says what the sum should be.          *)
(***************************************************************************)
EXTENDS Integers, FiniteSets, Sequences

CONSTANTS
  NumExperts,   (* num_experts                                              *)
  TopK,         (* top_k                                                    *)
  TokenCounts,  (* values of num_tokens                                     *)
  ScoreTables,  (* softmaxed gate scores a token may have: one per expert   *)
  MaxCalls,     (* bound: calls of moe_forward_cuda                         *)
  Stale         (* what earlier calls or nobody left in a buffer            *)

ASSUME TopKAssumption == NumExperts \in Nat /\ TopK \in 1 .. NumExperts
ASSUME TokenCountsAssumption == TokenCounts \subseteq Nat \ {0}
ASSUME ScoresAssumption == ScoreTables \subseteq [0 .. NumExperts - 1 -> Int]
ASSUME StaleAssumption  == Stale \notin [token : Nat, w : Int]
ASSUME CallsAssumption  == MaxCalls \in Nat

VARIABLES
  phase,     (* the kernel that runs                                        *)
  ncalls,    (* calls begun                                                 *)
  n,         (* num_tokens                                                  *)
  cap,       (* max_tokens_per_expert                                       *)
  scores,    (* per token: its scores                                       *)
  picks,     (* per token: topk_ids and topk_weights, a sequence of [id, w] *)
  count,     (* expert_token_count                                          *)
  slots,     (* expert_token_indices and expert_weights: [token, w] or Stale *)
  k,         (* per thread of dispatch: its loop variable                   *)
  pos,       (* per thread of dispatch: what atomicAdd returned, or NoPos   *)
  out        (* per token: what combine added to its row, [id, entry]       *)

moeVars == <<phase, ncalls, n, cap, scores, picks, count, slots, k, pos, out>>

Experts == 0 .. NumExperts - 1
Tokens  == 0 .. n - 1
NoPos   == -1

-----------------------------------------------------------------------------
(* moe_route_kernel                                                         *)

\* the first position from i on with the largest score
BestFrom(s, i) ==
  CHOOSE b \in i .. NumExperts - 1 :
    \A e \in i .. NumExperts - 1 : s[e] < s[b] \/ (s[e] = s[b] /\ b <= e)

Swap(s, a, b) == [s EXCEPT ![a] = s[b], ![b] = s[a]]

\* partial selection: scores are swapped, and the position found is taken for the expert's id
Routed(s) ==
  LET select[i \in 0 .. TopK] ==
        IF i = 0 THEN [s |-> s, picks |-> <<>>]
        ELSE LET b == BestFrom(select[i - 1].s, i - 1)
                 t == Swap(select[i - 1].s, i - 1, b)
             IN  [s |-> t, picks |-> Append(select[i - 1].picks, [id |-> b, w |-> t[i - 1]])]
  IN select[TopK].picks

-----------------------------------------------------------------------------

NoSlots(c) == [e \in Experts |-> [p \in 0 .. c - 1 |-> Stale]]

MoeInit ==
  /\ phase = "idle" /\ ncalls = 0 /\ n = 1 /\ cap = TopK
  /\ scores = <<>> /\ picks = <<>> /\ k = <<>> /\ pos = <<>> /\ out = <<>>
  /\ count = [e \in Experts |-> 0]
  /\ slots = NoSlots(TopK)

\* temp_buf is cut up by num_tokens: with another number old contents are anywhere
BeginCall(m, c, s) ==
  /\ phase = "idle" /\ ncalls < MaxCalls
  /\ ncalls' = ncalls + 1 /\ n' = m /\ cap' = c /\ scores' = s
  /\ slots' = NoSlots(c)
  /\ phase' = "route"
  /\ UNCHANGED <<picks, count, k, pos, out>>

\* a thread of this kernel touches nothing but its own token
Route ==
  /\ phase = "route"
  /\ picks' = [t \in Tokens |-> Routed(scores[t])]
  /\ phase' = "reset"
  /\ UNCHANGED <<ncalls, n, cap, scores, count, slots, k, pos, out>>

\* mutant: the counts of the last call are kept
KeepCounts ==
  /\ phase = "reset"
  /\ k' = [t \in Tokens |-> 1] /\ pos' = [t \in Tokens |-> NoPos]
  /\ phase' = "dispatch"
  /\ UNCHANGED <<ncalls, n, cap, scores, picks, count, slots, out>>

\* the counts are cleared, the indices are not
ResetCounts ==
  /\ phase = "reset"
  /\ count' = [e \in Experts |-> 0]
  /\ k' = [t \in Tokens |-> 1] /\ pos' = [t \in Tokens |-> NoPos]
  /\ phase' = "dispatch"
  /\ UNCHANGED <<ncalls, n, cap, scores, picks, slots, out>>

Expert(t) == picks[t][k[t]].id

\* mutant: the count is read without taking the place
ReadPosition(t) ==
  /\ phase = "dispatch" /\ k[t] <= TopK /\ pos[t] = NoPos
  /\ pos' = [pos EXCEPT ![t] = count[Expert(t)]]
  /\ count' = [count EXCEPT ![Expert(t)] = Cardinality({p \in 0 .. cap - 1 : slots[Expert(t)][p] # Stale})]
  /\ UNCHANGED <<phase, ncalls, n, cap, scores, picks, slots, k, out>>

\* atomicAdd on expert_token_count
TakePosition(t) ==
  /\ phase = "dispatch" /\ k[t] <= TopK /\ pos[t] = NoPos
  /\ pos' = [pos EXCEPT ![t] = count[Expert(t)]]
  /\ count' = [count EXCEPT ![Expert(t)] = @ + 1]
  /\ UNCHANGED <<phase, ncalls, n, cap, scores, picks, slots, k, out>>

\* index, hidden state and weight; nothing when the buffer is full
FillPosition(t) ==
  /\ phase = "dispatch" /\ k[t] <= TopK /\ pos[t] # NoPos
  /\ slots' = IF pos[t] >= cap THEN slots
              ELSE [slots EXCEPT ![Expert(t)][pos[t]] = [token |-> t, w |-> picks[t][k[t]].w]]
  /\ k' = [k EXCEPT ![t] = @ + 1] /\ pos' = [pos EXCEPT ![t] = NoPos]
  /\ UNCHANGED <<phase, ncalls, n, cap, scores, picks, count, out>>

\* the kernel ends when its threads have
Dispatched ==
  /\ phase = "dispatch" /\ \A t \in Tokens : k[t] > TopK
  /\ out' = [t \in Tokens |-> <<>>]
  /\ phase' = "combine" /\ k' = [t \in Tokens |-> 1]
  /\ UNCHANGED <<ncalls, n, cap, scores, picks, count, slots, pos>>

Names(entry, t) == entry # Stale /\ entry.token = t

\* the scan of thread t over the indices of e may stop at p: leftovers may look like anything
Finds(t, e, p) ==
  /\ p \in 0 .. cap - 1
  /\ slots[e][p] = Stale \/ Names(slots[e][p], t)
  /\ \A q \in 0 .. p - 1 : ~Names(slots[e][q], t)

\* mutant: the weight is the one at the start of the buffer
CombineFirstWeight(t) ==
  /\ phase = "combine" /\ k[t] <= TopK
  /\ \E p \in 0 .. cap - 1 :
       /\ Finds(t, Expert(t), p) /\ slots[Expert(t)][p] # Stale
       /\ out' = [out EXCEPT ![t] = Append(@, [id |-> Expert(t),
                    entry |-> [slots[Expert(t)][p] EXCEPT !.w = slots[Expert(t)][0].w]])]
  /\ k' = [k EXCEPT ![t] = @ + 1]
  /\ UNCHANGED <<phase, ncalls, n, cap, scores, picks, count, slots, pos>>

\* one expert of one token: what is at the place found is added, nothing if there is none
CombineOne(t) ==
  /\ phase = "combine" /\ k[t] <= TopK
  /\ LET e == Expert(t) IN
     \/ \E p \in 0 .. cap - 1 :
          Finds(t, e, p) /\ out' = [out EXCEPT ![t] = Append(@, [id |-> e, entry |-> slots[e][p]])]
     \/ (\A p \in 0 .. cap - 1 : ~Names(slots[e][p], t)) /\ UNCHANGED out
  /\ k' = [k EXCEPT ![t] = @ + 1]
  /\ UNCHANGED <<phase, ncalls, n, cap, scores, picks, count, slots, pos>>

EndCall ==
  /\ phase = "combine" /\ \A t \in Tokens : k[t] > TopK
  /\ phase' = "idle"
  /\ scores' = <<>> /\ picks' = <<>> /\ k' = <<>> /\ pos' = <<>> /\ out' = <<>>
  /\ UNCHANGED <<ncalls, n, cap, count, slots>>

MoeNext ==
  \/ \E m \in TokenCounts :
       \E c \in {1, m * TopK}, s \in [0 .. m - 1 -> ScoreTables] : BeginCall(m, c, s)
  \/ Route \/ ResetCounts \/ Dispatched \/ EndCall
  \/ \E t \in Tokens : TakePosition(t) \/ FillPosition(t) \/ CombineOne(t)

MoeSpec == MoeInit /\ [][MoeNext]_moeVars

-----------------------------------------------------------------------------

PicksIn(t) == {picks[t][i] : i \in 1 .. TopK}
Combined   == phase = "combine" /\ \A t \in Tokens : k[t] > TopK

\* what moe_forward of the CPU adds up: the experts of the TopK largest scores, each with its
\* score; std::sort settles ties as it likes
CpuSums(s) ==
  { {[id |-> e, w |-> s[e]] : e \in chosen} :
      chosen \in {c \in SUBSET Experts : /\ Cardinality(c) = TopK
                                         /\ \A e \in c, f \in Experts \ c : s[e] >= s[f]} }

\* Type invariant.
MoeTypeOK ==
  /\ phase \in {"idle", "route", "reset", "dispatch", "combine"}
  /\ ncalls \in 0 .. MaxCalls /\ n \in TokenCounts \cup {1} /\ cap \in Nat \ {0}
  /\ count \in [Experts -> IF phase \in {"dispatch", "combine"} THEN 0 .. n * TopK ELSE Nat]
  /\ \A e \in Experts : DOMAIN slots[e] = 0 .. cap - 1

\* When dispatch ends, every place of a buffer below its count has been filled by this call, and
\* each (token, expert) pair that was picked is in the buffer as often as it was picked, unless
\* the buffer is full: no two threads were given the same place.
SlotsFilledOnce ==
  phase = "combine" => \A e \in Experts :
    LET wanted(t) == {i \in 1 .. TopK : picks[t][i].id = e}
        got(t)    == {p \in 0 .. cap - 1 : Names(slots[e][p], t)}
        full      == \A p \in 0 .. cap - 1 : slots[e][p] # Stale
    IN /\ \A p \in 0 .. cap - 1 : p < count[e] <=> slots[e][p] # Stale
       /\ \A t \in Tokens : \/ Cardinality(got(t)) = Cardinality(wanted(t))
                            \/ full /\ Cardinality(got(t)) < Cardinality(wanted(t))

\* Although the index buffers are never cleared, a token takes nothing from a place that this
\* call did not fill, or that it filled for another token.
OwnEntriesOnly ==
  phase = "combine" =>
    \A t \in Tokens : \A i \in 1 .. Len(out[t]) : Names(out[t][i].entry, t)

\* With buffers as large as moe_forward_cuda makes them, a token whose picks name the experts
\* they were scored for ends with the sum the CPU computes.
CombinedAsOnCpu ==
  (Combined /\ cap = n * TopK) =>
    \A t \in Tokens :
      (/\ \A i \in 1 .. TopK : scores[t][picks[t][i].id] = picks[t][i].w
       /\ \A i, j \in 1 .. TopK : i # j => picks[t][i].id # picks[t][j].id)
        => /\ Len(out[t]) = TopK
           /\ {[id |-> out[t][i].id, w |-> out[t][i].entry.w] : i \in 1 .. TopK}
                \in CpuSums(scores[t])

\* The router selects, for every token, top_k different experts with the highest scores.
PicksAreTopK ==
  phase = "reset" =>
    \A t \in Tokens : PicksIn(t) \in CpuSums(scores[t])

=============================================================================

----------------------------- MODULE TensorShard -----------------------------
(***************************************************************************)
(* Which part of a weight a rank of a tensor-parallel job holds: the       *)
(* splitting arithmetic of tp.cu and the slices and local dimensions that  *)
(* tp_load_model derives with it.  Pure operators.  n is the size of the   *)
(* job, k a rank of it, c a checkpoint: a record of the dimensions that    *)
(* config.json and the tensors' shapes give.  An element's value is left   *)
(* out; what is kept is where in the full tensor it comes from.            *)
(***************************************************************************)
EXTENDS Integers, FiniteSets

Divides(n, d) == d % n = 0

\* mutant: the ranks that take a row of the remainder do not move the later ones
SplitDimNoShift(d, n, k) ==
  [off |-> (d \div n) * k, len |-> (d \div n) + (IF k < d % n THEN 1 ELSE 0)]

\* the first d % n ranks take one row more
SplitDim(d, n, k) ==
  [off |-> (d \div n) * k + (IF k < d % n THEN k ELSE d % n),
   len |-> (d \div n) + (IF k < d % n THEN 1 ELSE 0)]

\* mutant: heads that do not divide are spread like rows
SplitHeadsUneven(d, n, k) == SplitDim(d, n, k)

\* heads that do not divide: an error is printed and every rank takes them all
SplitHeads(d, n, k) ==
  IF Divides(n, d) THEN [off |-> k * (d \div n), len |-> d \div n]
                   ELSE [off |-> 0, len |-> d]

Whole(d) == [off |-> 0, len |-> d]

NoSplit == -1    (* dim_to_split *)

\* load_slice: the rows and columns of a tensor that go to the GPU
LoadSlice(shape, dim, n, k) ==
  [rows |-> IF dim = 0 /\ n > 1 THEN SplitDim(shape.rows, n, k) ELSE Whole(shape.rows),
   cols |-> IF dim = 1 /\ n > 1 THEN SplitDim(shape.cols, n, k) ELSE Whole(shape.cols)]

-----------------------------------------------------------------------------
(* What a checkpoint holds.  A tensor is <<name, layer, expert>>; expert is *)
(* 0 where there are none.                                                  *)

HeadDim(c) == IF c.headDim > 0 THEN c.headDim ELSE c.hidden \div c.heads
KvHeads(c) == IF c.kvHeads > 0 THEN c.kvHeads ELSE c.heads

LayerIds(c) == 0 .. c.layers - 1
Experts(c)  == 0 .. c.experts - 1
IsMoe(c)    == c.experts > 0

AttnNames == {"input_norm", "attn_norm", "q", "k", "v", "o"}
BiasNames == {"q_bias", "k_bias", "v_bias", "q_norm", "k_norm"}
MlpNames  == {"gate", "up", "down"}

TensorsOf(c) ==
  ({"embed", "final_norm", "rope"} \cup (IF c.tied THEN {} ELSE {"lm_head"})) \X {0} \X {0}
  \cup (AttnNames \cup (IF c.biases THEN BiasNames ELSE {})) \X LayerIds(c) \X {0}
  \cup IF IsMoe(c)
       THEN ({"moe_gate"} \X LayerIds(c) \X {0}) \cup (MlpNames \X LayerIds(c) \X Experts(c))
       ELSE MlpNames \X LayerIds(c) \X {0}

\* column-parallel weights are split by rows, row-parallel ones by columns
SplitOf(t) ==
  CASE t[1] \in {"q", "k", "v", "gate", "up"} -> 0
    [] t[1] \in {"o", "down"}                 -> 1
    [] OTHER                                  -> NoSplit

\* the matrices the forward pass multiplies with; the other shapes do not matter
Matrices(c) == {t \in TensorsOf(c) : SplitOf(t) # NoSplit}

ShapeOf(c, t) ==
  CASE t[1] = "q"             -> [rows |-> c.heads * HeadDim(c), cols |-> c.hidden]
    [] t[1] \in {"k", "v"}    -> [rows |-> KvHeads(c) * HeadDim(c), cols |-> c.hidden]
    [] t[1] = "o"             -> [rows |-> c.hidden, cols |-> c.heads * HeadDim(c)]
    [] t[1] \in {"gate", "up"} -> [rows |-> c.ffn, cols |-> c.hidden]
    [] OTHER                  -> [rows |-> c.hidden, cols |-> c.ffn]

SliceOf(c, t, n, k) == LoadSlice(ShapeOf(c, t), SplitOf(t), n, k)

-----------------------------------------------------------------------------
(* The TPModel of one rank.                                                 *)

LocalHeads(c, n, k)   == IF n > 1 THEN SplitHeads(c.heads, n, k).len ELSE c.heads
LocalKvHeads(c, n, k) == IF n > 1 THEN SplitHeads(KvHeads(c), n, k).len ELSE KvHeads(c)

\* ffn_intermediate is taken to be n times the rows this rank read, and is split again
LocalFfn(c, n, k) ==
  LET gr == SliceOf(c, <<"gate", 0, 0>>, n, k).rows.len IN SplitDim(gr * n, n, k).len

\* mutant: the output projection is split by rows like the others
LoadModelRowsOnly(c, n, k) ==
  [slice     |-> [t \in Matrices(c) |-> LoadSlice(ShapeOf(c, t), 0, n, k)],
   local_q   |-> LocalHeads(c, n, k) * HeadDim(c),
   local_kv  |-> LocalKvHeads(c, n, k) * HeadDim(c),
   local_ffn |-> LocalFfn(c, n, k)]

LoadModel(c, n, k) ==
  [slice     |-> [t \in Matrices(c) |-> SliceOf(c, t, n, k)],
   local_q   |-> LocalHeads(c, n, k) * HeadDim(c),    (* local_o_in too *)
   local_kv  |-> LocalKvHeads(c, n, k) * HeadDim(c),
   local_ffn |-> LocalFfn(c, n, k)]

-----------------------------------------------------------------------------
(* tp_free_model.  A pointer field is <<place, name, layer, expert>>, place *)
(* being the TPModel, one of its layers or the experts of a layer; the name *)
(* is that of the tensor tp_load_model reads into it.                       *)

ModelFields  == {"embed", "lm_head", "final_norm", "rope"}
LayerFields  == {"input_norm", "attn_norm", "q", "k", "v", "o", "q_bias", "k_bias", "v_bias",
                 "q_norm", "k_norm", "gate", "up", "down", "moe_gate", "moe_score_corr"}
ExpertFields == {"gate", "up", "down"}

\* mutant: the experts' up projections are forgotten
FreedFieldsNoUp(c) ==
  ({"model"} \X ModelFields \X {0} \X {0})
  \cup ({"layer"} \X LayerFields \X LayerIds(c) \X {0})
  \cup IF IsMoe(c) THEN {"experts"} \X {"gate", "down"} \X LayerIds(c) \X Experts(c) ELSE {}

\* the fields passed to cudaFree
FreedFields(c) ==
  ({"model"} \X ModelFields \X {0} \X {0})
  \cup ({"layer"} \X LayerFields \X LayerIds(c) \X {0})
  \cup IF IsMoe(c) THEN {"experts"} \X ExpertFields \X LayerIds(c) \X Experts(c) ELSE {}

NullPointer == <<"nullptr", 0, 0>>

\* what tp_load_model left in a field: nothing where the checkpoint has no such tensor, or
\* where the experts have them; the embeddings where there is no lm_head
Held(c, f) ==
  LET t == <<f[2], f[3], f[4]>> IN
  IF f[2] = "lm_head" /\ c.tied THEN <<"embed", 0, 0>>
  ELSE IF t \notin TensorsOf(c) \/ (f[1] = "layer" /\ f[2] \in MlpNames /\ IsMoe(c))
       THEN NullPointer
       ELSE t

\* how often each tensor's memory is freed
Frees(c) == [t \in TensorsOf(c) |-> Cardinality({f \in FreedFields(c) : Held(c, f) = t})]

=============================================================================

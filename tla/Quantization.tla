----------------------------- MODULE Quantization -----------------------------
(***************************************************************************)
(* INT4 weights: packed tensors and the matrix product that dequantizes as *)
(* it goes.  Scales and activations are integers here, so that sums are    *)
(* exact: the rounding of floats is left out.                              *)
(*                                                                         *)
(* A packed tensor is a record of is_awq, out_features, in_features and    *)
(* the functions qweight and qzeros (index -> byte) and scales (index ->   *)
(* number), with codes, zeros and matrix for what was packed.  bits,       *)
(* group_size and desc_act are those of QuantConfig, which                 *)
(* parse_quant_config leaves at their defaults (4, 128, false): g_idx is   *)
(* never consulted.                                                        *)
(***************************************************************************)
EXTENDS Integers, Functions

CONSTANTS
  GroupSize,  (* QuantConfig::group_size, 128 in the code                   *)
  BLK         (* the tile, 64 in the code                                   *)

ASSUME QuantAssumption == GroupSize \in Nat \ {0} /\ BLK \in Nat \ {0}

\* int4x2
Int4x2(lo, hi) == lo + 16 * hi

\* bytes of zeros to a group, by the comments: those of GPTQ are packed as the weights are, in
\* in_features / 2 bytes, those of AWQ in out_features / 8 numbers of four
ZeroBytes(t) == IF t.is_awq THEN t.out_features \div 2 ELSE t.in_features \div 2

\* the layouts the comments give, for rows of even length: a byte holds two codes of a row, or
\* the zeros of two rows as far as its group has room for them; a weight is its code less the zero
\* of its group and row, times the scale of both.  What unpack_zero finds elsewhere, another
\* group's zeros or what lies behind the array, is any byte.
IsPacked(t) ==
  LET half   == t.in_features \div 2
      rows   == 0 .. t.out_features - 1
      groups == {c \div GroupSize : c \in 0 .. t.in_features - 1}
  IN
  /\ t.in_features \in Nat /\ t.in_features % 2 = 0 /\ t.out_features \in Nat
  /\ t.is_awq => t.out_features % 8 = 0
  /\ \A j \in rows, h \in 0 .. half - 1 :
       /\ {t.codes[<<j, 2 * h>>], t.codes[<<j, 2 * h + 1>>]} \subseteq 0 .. 15
       /\ t.qweight[j * half + h] = Int4x2(t.codes[<<j, 2 * h>>], t.codes[<<j, 2 * h + 1>>])
  /\ \A g \in groups, h \in 0 .. ZeroBytes(t) - 1 : 2 * h < t.out_features =>
       /\ {t.zeros[<<g, 2 * h>>], t.zeros[<<g, 2 * h + 1>>]} \subseteq 0 .. 15
       /\ t.qzeros[g * ZeroBytes(t) + h] = Int4x2(t.zeros[<<g, 2 * h>>], t.zeros[<<g, 2 * h + 1>>])
  /\ \A g \in groups, j \in rows : t.qzeros[g * half + j \div 2] \in 0 .. 255
  /\ \A g \in groups, j \in rows : t.scales[g * t.out_features + j] \in Int
  /\ \A j \in rows, c \in 0 .. t.in_features - 1 :
       t.matrix[<<j, c>>] = (t.codes[<<j, c>>] - t.zeros[<<c \div GroupSize, j>>])
                              * t.scales[(c \div GroupSize) * t.out_features + j]

\* two nibbles to a byte, the even one low
Nibble(byte, i) == IF i % 2 = 0 THEN byte % 16 ELSE byte \div 16

UnpackInt4(t, row, col) == Nibble(t.qweight[row * (t.in_features \div 2) + col \div 2], col)

UnpackZero(t, group, row) == Nibble(t.qzeros[group * (t.in_features \div 2) + row \div 2], row)

DequantInt4(t, row, col) ==
  LET g == col \div GroupSize IN
  (UnpackInt4(t, row, col) - UnpackZero(t, g, row)) * t.scales[g * t.out_features + row]

\* dequantize_int4_row_range: past the end of the row there are zeros
DequantRange(t, row, from, count) ==
  [i \in 0 .. count - 1 |-> IF from + i >= t.in_features THEN 0 ELSE DequantInt4(t, row, from + i)]

Dot(f, g, n) == SumFunction([i \in 0 .. n - 1 |-> f[i] * g[i]])

\* mutant: the last tile is left out when it is not a whole one
TilesWhole(k) == {p \in 0 .. k - 1 : p % BLK = 0 /\ p + BLK <= k}

\* where the tiles over the inner dimension start
Tiles(k) == {p \in 0 .. k - 1 : p % BLK = 0}

\* quantized_matmul_transpose, one element of C: activations a with row j of the weight
TiledProduct(a, t, j, k) ==
  LET size(p) == IF p + BLK < k THEN BLK ELSE k - p IN
  SumFunction([p \in Tiles(k) |->
    Dot([i \in 0 .. size(p) - 1 |-> a[p + i]], DequantRange(t, j, p, size(p)), size(p))])

=============================================================================

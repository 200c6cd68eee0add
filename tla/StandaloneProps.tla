--------------------------- MODULE StandaloneProps ---------------------------
(***************************************************************************)
(* What the standard mode of cpu_runner promises: the right tensors in the *)
(* right fields, a prompt that keeps its text, products that are those of  *)
(* the weights that were packed, tokens drawn from the nucleus.            *)
(***************************************************************************)
EXTENDS Standalone

\* Type invariant of the loader and of the generation loop.
StandaloneTypeOK ==
  /\ step \in {"open", "read", "quant", "loaded", "prompt", "forward", "sample", "sampled", "done", "crashed"}
  /\ at \in 1 .. Len(files) + 1
  /\ \A t \in DOMAIN tensors : tensors[t] \in DOMAIN files
  /\ \A b \in DOMAIN quant : DOMAIN quant[b] = Needed
  /\ \A i \in 2 .. Len(output) : output[i] \in Ids \cup DOMAIN tok.inv
  /\ seen \subseteq 0 .. Len(output) - 1
  /\ next \in Ids \cup {None}

-----------------------------------------------------------------------------
(* Loading                                                                  *)

FilesWith(t) == {i \in DOMAIN files : files[i].readable /\ t \in Readable(files[i])}

\* found in some file, and the last of them could be read
Available(t) == FilesWith(t) # {} /\ <<t, Max(FilesWith(t))>> \notin failures

FieldIs(field, t) ==
  IF Available(t) THEN field = t /\ tensors[t] = Max(FilesWith(t)) ELSE field = Global("none")

\* However the tensors are spread over the files, and whichever could not be read, a field of
\* the model holds the tensor of its name from the last file that has it, or nothing; the LM
\* head is the embeddings when there is none; and no layer that has a tensor is left out
\* (load_all_tensors, find_tensor, and the binding in load_model_safetensors).  The final norm
\* is its own only when no layer has one: find_tensor looks for "norm.weight" in every name.
FieldsNameTheirTensors ==
  model # Empty =>
    /\ FieldIs(model.embed, Global("embed"))
    /\ IF Available(Global("lm_head")) THEN FieldIs(model.head, Global("lm_head")) ELSE model.head = model.embed
    /\ \A l \in DOMAIN model.layers : \A t \in LayerAt(l) : FieldIs(model.layers[l][t], t)
    /\ \A i \in DOMAIN files : files[i].readable =>
         \A t \in Readable(files[i]) : IsLayer(t) /\ Available(t) => t.layer \in DOMAIN model.layers
    /\ (\A t \in DOMAIN tensors : EndsInNorm(t) => t.kind = "final_norm") => FieldIs(model.norm, Global("final_norm"))

Mentions(b) == {i \in DOMAIN files : files[i].readable /\ \E p \in Parts : <<b, p>> \in files[i].parts}

\* A quantized weight is used only with its codes, zeros and scales, all named by some file,
\* behind a plain tensor of the same name; and when one file names all its parts each is read
\* from there (load_quantized_tensors reads them from the last file that names any).
QuantGroupsWhole ==
  /\ \A b \in DOMAIN quant :
       /\ \A p \in Needed : \E i \in Mentions(b) : <<b, p>> \in files[i].parts
       /\ Cardinality(Mentions(b)) = 1 => \A p \in Needed : <<b, p>> \in files[quant[b][p]].parts
  /\ model # Empty => \A b \in model.quant : b \in DOMAIN quant /\ Available(b)

Complete0 ==
  /\ \A i \in DOMAIN files : files[i].readable
  /\ \A t \in {Global("embed"), Global("final_norm")} : FilesWith(t) # {}
  /\ \A i \in DOMAIN files : \A t \in Readable(files[i]) :
       IsLayer(t) => \A l \in 0 .. t.layer : \A u \in LayerAt(l) : FilesWith(u) # {}

\* A checkpoint that has every tensor of its layers, all of them read, is never a reason to
\* fault: neither in load_model_safetensors, which copies *up_w and *down_w without a test, nor
\* in forward_cpu, which tests only the MLP's buffers.
CompleteNeverFaults == step = "crashed" => failures # {} \/ ~Complete0

-----------------------------------------------------------------------------
(* Generation                                                               *)

\* the zeros of a row are where unpack_zero looks for them, in_features / 2 bytes to a group: all
\* of AWQ's only when that is their stride or there is one group, and GPTQ's as far as they go
ZerosInPlace(t, row) ==
  IF t.is_awq THEN t.out_features = t.in_features \/ t.in_features <= GroupSize
  ELSE row < t.in_features

\* The product of a row with a quantized weight is that of the whole row dequantized at
\* once, whatever the number of tiles and the end of the last one (quantized_matmul_transpose over
\* dequantize_int4_row_range); and it is that of the matrix that was packed, by the layouts of
\* quantization.h:70-79 and quantization.cpp:195, wherever unpack_zero looks where the zeros are.
\* It does not for AWQ tensors that are not square, whose zeros no loader converts, nor for the
\* rows past in_features of a GPTQ tensor with more rows than columns.
DequantExact ==
  product # Empty =>
    LET t == product.weight
        j == product.row
        n == t.in_features
    IN
    /\ product.value = Dot(product.with, DequantRange(t, j, 0, n), n)
    /\ ZerosInPlace(t, j) => product.value = Dot(product.with, [c \in 0 .. n - 1 |-> t.matrix[<<j, c>>]], n)

\* characters of a piece between the first and the last
IsOneWord(p) ==
  /\ \A i \in 2 .. Len(p) : p[i] # Space
  /\ Len(p) > 1 => \A i \in DOMAIN p : p[i] # Newline

\* Tokenizing loses nothing: when every piece is in the vocabulary, decoding the prompt's tokens
\* gives back its text, and no token crosses the beginning of a word, however the merges
\* overlap and wherever the limit on their number stops them (tokenize, decode_tokens).
TokensSpellText ==
  step = "forward" =>
    LET pieces == Pieces(tok, prompt) IN
    (\A i \in DOMAIN pieces : pieces[i] \in DOMAIN tok.id) =>
      /\ Decode(tok, Tokenize(tok, prompt)) = prompt
      /\ \A i \in DOMAIN pieces : IsOneWord(pieces[i])

\* the weight of what is strictly likelier than the token has not reached top_p
InNucleus(w, t) ==
  Total(w, {u \in Ids : w[u] > w[t]}) * 100 < sampling.top_p * Total(w, Ids)

\* For a temperature other than 0, the token is one of the smallest set of likeliest tokens that
\* has weight top_p, for logits that depend on every token so far (forward_cpu, sample_token).
SampledFromNucleus ==
  step = "sampled" =>
    /\ sampling.temperature # 0 => InNucleus(Softmax(sampling.temperature), next)
    /\ DOMAIN model.layers # {} => seen = {p \in 0 .. Len(output) - 1 : output[p + 1] \in Ids}

=============================================================================

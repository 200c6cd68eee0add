------------------------------ MODULE Standalone ------------------------------
(***************************************************************************)
(* The standard mode of cpu_runner: load the model, tokenize the prompt,   *)
(* and generate with forward_cpu and sample_token.  One thread.            *)
(*                                                                         *)
(* forward_cpu is modelled by what it depends on: which input positions    *)
(* reach the last hidden state, which tensors it reads through, and the    *)
(* products with quantized weights.  The logits are any of LogitTables.    *)
(* Scores are integers, and exp of what a score is below the maximum is    *)
(* read from a table, 0 past its end as exp is in floats.                  *)
(***************************************************************************)
EXTENDS ModelLoader, Quantization, Tokenizer

CONSTANTS
  Tables,         (* [lines, vocab, added]: merges.txt, vocab.json, tokenizer_config.json *)
  Texts,          (* prompts                                                *)
  UnkId, BosId, EosId,   (* defaults of TokenizerConfig                     *)
  EndOfText, ImEnd,      (* the texts of special tokens                     *)
  VocabSize,      (* rows of the embeddings                                 *)
  LogitTables,    (* what the LM head may give                              *)
  MaxNew,         (* values of max_new_tokens                               *)
  Temperatures, TopPs,   (* temperature; top_p in percent                   *)
  RepeatPenalty, History,   (* 1.1 and 64 in the code                       *)
  ExpTable,       (* exp of 0, -1, -2, ..., on some scale                   *)
  Packed, Activations       (* quantized weights, and rows to multiply with them *)

VARIABLES
  tok,        (* model.tokenizer                                            *)
  prompt,     (* the prompt's text                                          *)
  sampling,   (* max_new_tokens, temperature, top_p                         *)
  output,     (* the tokens, prompt first                                   *)
  product,    (* the last product with a quantized weight                   *)
  seen,       (* positions the last hidden state depends on                 *)
  logits,
  next        (* the sampled token                                          *)

genVars == <<tok, prompt, sampling, output, product, seen, logits, next>>

None == -1

Ids == 0 .. VocabSize - 1

ASSUME SamplingAssumption ==
  /\ VocabSize \in Nat \ {0} /\ UnkId \in Ids
  /\ LogitTables \subseteq [Ids -> Int] /\ ExpTable \in Seq(Nat)
  /\ Temperatures \subseteq Nat /\ TopPs \subseteq Nat \ {0} /\ RepeatPenalty \in Nat \ {0}
  /\ History \in Nat \ {0}

\* a vocabulary gives no identifier to two texts
ASSUME VocabularyAssumption ==
  /\ Texts \subseteq Seq(UNION {Range(x) : x \in Texts})
  /\ \A t \in Tables : /\ t.lines \in Seq(Range(t.lines))
                       /\ IsInjective(t.vocab) /\ IsInjective(ReadVocab(t.vocab, t.added).id)

\* quantized weights are laid out as the comments say, and a row of numbers fits them
ASSUME PackedAssumption ==
  \A p \in Packed : IsPacked(p) /\ \A a \in Activations : \A c \in 0 .. p.in_features - 1 : a[c] \in Int

-----------------------------------------------------------------------------

StandaloneInit ==
  /\ LoaderInit
  /\ tok = Empty /\ prompt = <<>> /\ sampling = Empty /\ output = <<>>
  /\ product = Empty /\ seen = {} /\ logits = Empty /\ next = None

\* the end of load_model_safetensors: merges, vocabulary, added tokens, special ids
ReadTokenizer(table) ==
  LET v == ReadVocab(table.vocab, table.added)
      special(text, default) == IF text \in DOMAIN v.id THEN v.id[text] ELSE default
  IN  [id |-> v.id, inv |-> v.inv, merges |-> ReadMerges(table.lines), unk |-> UnkId,
       bos |-> special(EndOfText, BosId), eos |-> special(ImEnd, EosId)]

LoadTokenizer ==
  /\ step = "loaded"
  /\ \E t \in Tables : tok' = ReadTokenizer(t)
  /\ step' = "prompt"
  /\ UNCHANGED <<files, at, todo, tensors, groups, quant, failures, model>>
  /\ UNCHANGED <<prompt, sampling, output, product, seen, logits, next>>

\* main: the prompt's tokens after the first special one
Prompt(text) ==
  /\ step = "prompt"
  /\ prompt' = text
  /\ output' = <<tok.bos>> \o Tokenize(tok, text)
  /\ sampling' \in [max : MaxNew, temperature : Temperatures, top_p : TopPs]
  /\ step' = "forward"
  /\ UNCHANGED <<files, at, todo, tensors, groups, quant, failures, model>>
  /\ UNCHANGED <<tok, product, seen, logits, next>>

-----------------------------------------------------------------------------
(* forward_cpu                                                              *)

Generated == Len(output) - 1 - Len(Tokenize(tok, prompt))

\* every buffer it reads without a test is there
Runnable ==
  /\ Global("none") \notin {model.embed, model.head, model.norm}
  /\ \A l \in DOMAIN model.layers : \A k \in {"input_norm", "attn_norm", "q"} :
       model.layers[l][[kind |-> k, layer |-> l]] # Global("none")

\* qmatmul with a quantized weight, one element of the result; the destination is not the
\* row that is read
MultiplyQuantized(b) ==
  /\ step = "forward" /\ Runnable /\ b \in model.quant /\ product = Empty
  /\ \E p \in Packed, a \in Activations : \E j \in 0 .. p.out_features - 1 :
       product' = [weight |-> p, row |-> j, with |-> a, value |-> TiledProduct(a, p, j, p.in_features)]
  /\ UNCHANGED <<loaderVars, tok, prompt, sampling, output, seen, logits, next>>

\* compute_attention is given pos + 1 entries of the cache
Attended(pos) == 0 .. pos

\* what hidden_states[pos] depends on after n layers.  Positions go one after the other through
\* a layer; K and V of a position are cached before it attends
Reaches(n, pos) ==
  LET hidden[l \in 0 .. n] ==
        IF l = 0 THEN [p \in 0 .. pos |-> IF output[p + 1] \in Ids THEN {p} ELSE {}]
        ELSE [p \in 0 .. pos |-> hidden[l - 1][p] \cup UNION {hidden[l - 1][s] : s \in Attended(p)}]
  IN  hidden[n][pos]

Forward ==
  /\ step = "forward" /\ Generated < sampling.max /\ Runnable
  /\ model.quant # {} => product # Empty
  /\ seen' = Reaches(Cardinality(DOMAIN model.layers), Len(output) - 1)
  /\ logits' \in LogitTables
  /\ step' = "sample" /\ product' = Empty
  /\ UNCHANGED <<files, at, todo, tensors, groups, quant, failures, model>>
  /\ UNCHANGED <<tok, prompt, sampling, output, next>>

\* a null pointer is read
ForwardFaults ==
  /\ step = "forward" /\ Generated < sampling.max /\ ~Runnable
  /\ step' = "crashed"
  /\ UNCHANGED <<files, at, todo, tensors, groups, quant, failures, model, genVars>>

-----------------------------------------------------------------------------
(* sample_token                                                             *)

Tail64 == SubSeq(output, IF Len(output) > History THEN Len(output) - History + 1 ELSE 1, Len(output))

\* once for every occurrence in the history
Penalised ==
  FoldLeft(LAMBDA s, id :
             IF id \notin Ids THEN s
             ELSE [s EXCEPT ![id] = IF @ > 0 THEN @ \div RepeatPenalty ELSE @ * RepeatPenalty],
           logits, Tail64)

Highest(s) == Max({s[i] : i \in Ids})

\* nothing is above the maximum
Exp(d) == IF 1 - d \in DOMAIN ExpTable THEN ExpTable[1 - d] ELSE 0

\* softmax without its divisor, for a temperature that is not 0
Softmax(t) ==
  LET s == [i \in Ids |-> Penalised[i] \div t] IN [i \in Ids |-> Exp(s[i] - Highest(s))]

Total(w, S) == SumFunction([i \in S |-> w[i]])

\* std::sort leaves equal scores in any order
Rankings(w) ==
  {r \in [1 .. VocabSize -> Ids] :
     /\ \A i, j \in 1 .. VocabSize : i # j => r[i] # r[j]
     /\ \A i, j \in 1 .. VocabSize : i < j => w[r[i]] >= w[r[j]]}

\* mutant: the entry after the one that reaches top_p is kept too
KeepOneMore(w, r) ==
  {r[i] : i \in {x \in 1 .. VocabSize :
                   x <= 2 \/ Total(w, {r[j] : j \in 1 .. x - 2}) * 100 < sampling.top_p * Total(w, Ids)}}

\* ranks are kept until their sum reaches top_p
Kept(w, r) ==
  {r[i] : i \in {x \in 1 .. VocabSize :
                   x = 1 \/ Total(w, {r[j] : j \in 1 .. x - 1}) * 100 < sampling.top_p * Total(w, Ids)}}

\* any kept token that a draw can fall on
Drawn(w) == UNION {{t \in Kept(w, r) : w[t] > 0} : r \in Rankings(w)}

\* divided by 0, positive scores are infinite and tie for the first rank, which is taken since
\* no comparison with the NaN of their softmax holds; a score of 0 is a NaN and sorts anywhere
DrawnAtZero ==
  LET positive == {i \in Ids : Penalised[i] > 0}
  IN  IF positive = {} \/ \E i \in Ids : Penalised[i] = 0 THEN Ids ELSE positive

Sample ==
  /\ step = "sample"
  /\ next' \in IF sampling.temperature = 0 THEN DrawnAtZero ELSE Drawn(Softmax(sampling.temperature))
  /\ step' = "sampled"
  /\ UNCHANGED <<files, at, todo, tensors, groups, quant, failures, model>>
  /\ UNCHANGED <<tok, prompt, sampling, output, product, seen, logits>>

-----------------------------------------------------------------------------
(* generate_cpu                                                             *)

\* push_back and the callback
Push ==
  /\ step = "sampled" /\ next # tok.eos
  /\ output' = Append(output, next)
  /\ step' = "forward" /\ seen' = {} /\ logits' = Empty /\ next' = None
  /\ UNCHANGED <<files, at, todo, tensors, groups, quant, failures, model>>
  /\ UNCHANGED <<tok, prompt, sampling, product>>

Finish ==
  /\ \/ step = "sampled" /\ next = tok.eos
     \/ step = "forward" /\ Generated >= sampling.max
  /\ step' = "done"
  /\ UNCHANGED <<files, at, todo, tensors, groups, quant, failures, model, genVars>>

StandaloneNext ==
  \/ LoaderNext /\ UNCHANGED genVars
  \/ LoadTokenizer
  \/ \E text \in Texts : Prompt(text)
  \/ IF step = "forward" THEN \E b \in model.quant : MultiplyQuantized(b) ELSE FALSE
  \/ Forward \/ ForwardFaults \/ Sample \/ Push \/ Finish

StandaloneSpec == StandaloneInit /\ [][StandaloneNext]_<<loaderVars, genVars>>

=============================================================================

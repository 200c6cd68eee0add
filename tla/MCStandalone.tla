----------------------------- MODULE MCStandalone -----------------------------
(* One to two layers in one to two files, a three-row vocabulary, small tables.  *)
EXTENDS StandaloneProps

CONSTANTS a, b, SP, NL, W, IM, ET

Layer(l)   == LayerAt(l)
Q(l)       == [kind |-> "q", layer |-> l]
Whole      == Layer(0) \cup {Global("embed"), Global("final_norm")}
FileOf(ts, ps) == [readable |-> TRUE, tensors |-> ts, parts |-> ps]
Broken     == [readable |-> FALSE, tensors |-> {}, parts |-> {}]
All(l)     == {<<Q(l), p>> : p \in Parts}
Some(l, S) == {<<Q(l), p>> : p \in S}

MCCheckpoints ==
  { <<FileOf(Whole, {})>>,
    <<FileOf(Whole \cup {Global("lm_head")}, All(0))>>,
    \* the norm on its own; a tensor twice; an index in a file of its own
    <<FileOf({Global("embed"), Global("final_norm")}, {})>>,
    <<FileOf(Whole, All(0) \ Some(0, {"g_idx"})), FileOf({Global("embed")}, Some(0, {"g_idx"}))>>,
    <<FileOf({Global("embed")} \cup Layer(0), Some(0, {"qweight", "qzeros"})), FileOf(Layer(1) \cup {Global("final_norm")}, All(1))>>,
    <<FileOf(Whole, {}), Broken>>,
    <<FileOf(Whole \ {[kind |-> "up", layer |-> 0]}, {})>>,
    <<Broken, FileOf({Global("embed")}, {})>> }

MCImEnd     == <<IM>>
MCEndOfText == <<ET>>

Merge(x, y) == <<x, y>>

MCTables ==
  { [lines |-> <<Merge(<<a>>, <<b>>), Merge(<<b>>, <<W>>), Merge(<<a>>, <<b, W>>), Merge(<<SP>>, <<a, b>>)>>,
     vocab |-> [p \in {<<a>>, <<b>>, <<SP>>, <<NL>>, <<W>>, <<b, W>>, <<a, b, W>>} |->
                  IF p = <<a>> THEN 0 ELSE IF p = <<b>> THEN 1 ELSE IF p = <<SP>> THEN 3 ELSE IF p = <<NL>> THEN 4
                  ELSE IF p = <<W>> THEN 5 ELSE IF p = <<b, W>> THEN 6 ELSE 7],
     added |-> [p \in {MCImEnd, MCEndOfText} |-> IF p = MCImEnd THEN 2 ELSE 8]],
    [lines |-> <<Merge(<<a, a>>, <<b, b>>), Merge(<<a>>, <<a, W>>)>>,
     vocab |-> [p \in {<<a>>, <<b>>, <<SP>>} |-> IF p = <<a>> THEN 0 ELSE IF p = <<b>> THEN 1 ELSE 3],
     added |-> [p \in {} |-> 0]] }

MCTexts == { <<a, b, W>>, <<SP, a, a, b, W, b, W, NL>>, <<a, SP, b>> }

MCLogits ==
  { l \in [0 .. 2 -> {-4, 0, 8, 12}] :
      <<l[0], l[1], l[2]>> \in {<<12, 8, 8>>, <<8, 0, -4>>, <<0, 0, 8>>, <<-4, 12, 12>>} }

\* packs a matrix of codes as GPTQ or AWQ does; Stray is found where no zeros are
Stray == 165

Pack(awq, rows, cols, codes, zeros, scales) ==
  LET groups_ == 0 .. (cols + GroupSize - 1) \div GroupSize - 1
      half == cols \div 2
      stride == IF awq THEN rows \div 2 ELSE half
      pair(f, x, y) == Int4x2(f[<<x, 2 * y>>], f[<<x, 2 * y + 1>>])
  IN
  [is_awq |-> awq, out_features |-> rows, in_features |-> cols, codes |-> codes, zeros |-> zeros,
   qweight |-> [i \in 0 .. rows * half - 1 |-> pair(codes, i \div half, i % half)],
   qzeros  |-> [i \in 0 .. cols * rows |->
                  IF i \div stride \in groups_ /\ 2 * (i % stride) < rows
                  THEN pair(zeros, i \div stride, i % stride) ELSE Stray],
   scales  |-> [i \in {g * rows + r : g \in groups_, r \in 0 .. rows - 1} |-> scales[<<i \div rows, i % rows>>]],
   matrix  |-> [x \in (0 .. rows - 1) \X (0 .. cols - 1) |->
                  (codes[x] - zeros[<<x[2] \div GroupSize, x[1]>>]) * scales[<<x[2] \div GroupSize, x[1]>>]]]

Mix(p, q, n) == [x \in (0 .. 8) \X (0 .. 8) |-> (p * x[1] + q * x[2] + 1) % n]

\* GPTQ, then AWQ: wider than high and higher than wide, square, of one group
MCPacked == { Pack(FALSE, 2, 4, Mix(5, 3, 16), Mix(7, 2, 16), Mix(1, 2, 3)),
              Pack(FALSE, 3, 6, Mix(11, 7, 16), Mix(3, 5, 16), Mix(2, 1, 4)),
              Pack(FALSE, 6, 4, Mix(5, 3, 16), Mix(7, 2, 16), Mix(1, 2, 3)),
              Pack(TRUE, 8, 4, Mix(11, 7, 16), Mix(3, 5, 16), Mix(2, 1, 4)),
              Pack(TRUE, 8, 8, Mix(5, 3, 16), Mix(7, 2, 16), Mix(1, 2, 3)),
              Pack(TRUE, 8, 2, Mix(11, 7, 16), Mix(3, 5, 16), Mix(2, 1, 4)) }

MCExp == [i \in 1 .. 13 |-> 2 ^ (13 - i)]

MCActivations == { [i \in 0 .. 7 |-> i + 1], [i \in 0 .. 7 |-> (-2) ^ i] }

=============================================================================

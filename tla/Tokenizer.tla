------------------------------ MODULE Tokenizer ------------------------------
(***************************************************************************)
(* The tokenizer: the tables it is loaded with, byte-pair encoding and     *)
(* decoding.  A text is a sequence of characters of the byte-to-unicode    *)
(* alphabet, which has one for every byte, so that a byte and its          *)
(* character are the same thing here; Space and Newline are two of them.   *)
(* A piece of a word is a non-empty sequence of characters.                *)
(***************************************************************************)
EXTENDS Integers, SequencesExt, FiniteSetsExt

CONSTANTS
  Space, Newline,
  Wide,           (* characters that take two bytes in UTF-8                *)
  MaxMerges       (* merges of a word, 200 in the code                       *)

ASSUME TextAssumption == Space # Newline /\ MaxMerges \in Nat

Width(piece) == FoldSeq(LAMBDA c, n : n + IF c \in Wide THEN 2 ELSE 1, 0, piece)

\* the reader of merges.txt keeps a line if two bytes or more follow the space
ReadMerges(lines) ==
  FoldLeft(LAMBDA kept, m : IF Width(m[2]) >= 2 THEN Append(kept, m) ELSE kept, <<>>, lines)

\* load_vocab, then load_added_tokens over it; both directions of the table
ReadVocab(vocab, added) ==
  [id  |-> [p \in DOMAIN vocab \cup DOMAIN added |-> IF p \in DOMAIN added THEN added[p] ELSE vocab[p]],
   inv |-> [i \in Range(vocab) \cup Range(added) |->
              IF i \in Range(added) THEN CHOOSE p \in DOMAIN added : added[p] = i
                                    ELSE CHOOSE p \in DOMAIN vocab : vocab[p] = i]]

Join(pieces, i) ==
  SubSeq(pieces, 1, i - 1) \o <<pieces[i] \o pieces[i + 1]>> \o SubSeq(pieces, i + 2, Len(pieces))

\* positions whose pair spells what some merge makes; a merge is recognised by what it makes,
\* not by its two parts
Ranks(merges, pieces, i) == {m \in DOMAIN merges : merges[m][1] \o merges[m][2] = pieces[i] \o pieces[i + 1]}

Mergeable(merges, pieces) == {i \in 1 .. Len(pieces) - 1 : Ranks(merges, pieces, i) # {}}

\* the lowest rank, and of its places the leftmost
Best(merges, pieces) ==
  LET rank(i) == Min(Ranks(merges, pieces, i))
      places  == Mergeable(merges, pieces)
      low     == Min({rank(i) : i \in places})
  IN  Min({i \in places : rank(i) = low})

\* mutant: the second piece is lost with the pair
MergeFirst(merges, pieces) ==
  IF Mergeable(merges, pieces) = {} THEN pieces
  ELSE LET i == Best(merges, pieces) IN SubSeq(pieces, 1, i) \o SubSeq(pieces, i + 2, Len(pieces))

MergeBest(merges, pieces) ==
  IF Mergeable(merges, pieces) = {} THEN pieces ELSE Join(pieces, Best(merges, pieces))

BpeEncode(merges, word) ==
  LET after[n \in 0 .. MaxMerges] ==
        IF n = 0 THEN [i \in DOMAIN word |-> <<word[i]>>] ELSE MergeBest(merges, after[n - 1])
  IN  after[MaxMerges]

\* a space begins a word, a newline is a word
Words(text) ==
  LET step(c, acc) ==
        LET done == IF acc.cur = <<>> THEN acc.words ELSE Append(acc.words, acc.cur)
        IN  IF c = Space THEN [words |-> done, cur |-> <<c>>]
            ELSE IF c = Newline THEN [words |-> Append(done, <<c>>), cur |-> <<>>]
            ELSE [acc EXCEPT !.cur = Append(@, c)]
      end == FoldLeft(LAMBDA acc, c : step(c, acc), [words |-> <<>>, cur |-> <<>>], text)
  IN  IF end.cur = <<>> THEN end.words ELSE Append(end.words, end.cur)

Pieces(tok, text) ==
  FoldLeft(LAMBDA acc, w : acc \o BpeEncode(tok.merges, w), <<>>, Words(text))

\* tokenize, for a vocabulary that is not empty
Tokenize(tok, text) ==
  LET pieces == Pieces(tok, text) IN
  [i \in DOMAIN pieces |-> IF pieces[i] \in DOMAIN tok.id THEN tok.id[pieces[i]] ELSE tok.unk]

\* decode_tokens, for identifiers the table has
Decode(tok, ids) == FoldLeft(LAMBDA acc, i : acc \o tok.inv[i], <<>>, ids)

=============================================================================

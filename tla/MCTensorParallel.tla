--------------------------- MODULE MCTensorParallel ---------------------------
(* Jobs of 1, 2 and 3 ranks, and one too large; dimensions that divide and that do not. *)
EXTENDS TensorParallel

Dense  == [heads |-> 2, kvHeads |-> 0, headDim |-> 0, hidden |-> 4, ffn |-> 5, layers |-> 2,
           experts |-> 0, tied |-> TRUE, biases |-> FALSE]
Odd    == [heads |-> 3, kvHeads |-> 3, headDim |-> 3, hidden |-> 4, ffn |-> 4, layers |-> 1,
           experts |-> 0, tied |-> FALSE, biases |-> TRUE]
Expert == [heads |-> 6, kvHeads |-> 2, headDim |-> 1, hidden |-> 5, ffn |-> 3, layers |-> 1,
           experts |-> 2, tied |-> FALSE, biases |-> FALSE]

Job(n, c, p) == [size |-> n, files |-> c, batch |-> 2, seq |-> 2, passes |-> p]

MCJobs == {Job(1, Dense, 1), Job(1, Expert, 2), Job(2, Dense, 2), Job(2, Odd, 2),
           Job(2, Expert, 1), Job(3, Odd, 1), Job(3, Expert, 1), Job(9, Dense, 1)}
===============================================================================

------------------------------- MODULE MCServer -------------------------------
(* Two clients of the paged server at once, or one, on a small instance. *)
EXTENDS ServerProps

ClientSymmetry == Permutations(Threads)
===============================================================================

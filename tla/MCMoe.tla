-------------------------------- MODULE MCMoe --------------------------------
(* Three experts; scores in an order that selection keeps, one it does not, and ties. *)
EXTENDS MoeKernels

MCScores ==
  {s \in [Experts -> 1 .. 3] : <<s[0], s[1], s[2]>> \in {<<3, 2, 1>>, <<1, 3, 2>>, <<2, 1, 3>>, <<1, 1, 3>>, <<2, 2, 2>>}}
=============================================================================

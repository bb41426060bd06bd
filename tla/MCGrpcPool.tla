----------------------------- MODULE MCGrpcPool -----------------------------
(* Constants of the GrpcPool runs. *)
EXTENDS GrpcPool, TLC

MCUsers2 == {"g1", "g2"}

(* The users run the same code, so permuting them (model values in the    *)
(* cfg) is a symmetry of the specification.                                *)
MCUserSymmetry == Permutations(Users)
=============================================================================

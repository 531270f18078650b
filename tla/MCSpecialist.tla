---------------------------- MODULE MCSpecialist ----------------------------
(* Four works, one of them outside the node's contract, and a node with   *)
(* fewer slots than works it may take.                                     *)
EXTENDS SpecialistNode, TLC

CONSTANTS w1, w2, w3, w4

(* The works within the contract are interchangeable.                      *)
FitWorks == Permutations(Fit)
=============================================================================

-------------------------------- MODULE MCChat --------------------------------
(* A small instance of PromptDelivery for TLC. *)
EXTENDS PromptDelivery
CONSTANTS p1, p2
TwoPrompts == {p1, p2}
ChatFrames == PromptFrames
Symmetry == Permutations(TwoPrompts)
===============================================================================

------------------------------ MODULE MCImageData ------------------------------
(***************************************************************************)
(* ImageData for TLC: objects and blocks are interchangeable.              *)
(***************************************************************************)
EXTENDS ImageData, TLC

Symmetry == Permutations(Objects) \cup Permutations(Block)
=============================================================================

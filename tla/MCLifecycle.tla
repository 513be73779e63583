------------------------------ MODULE MCLifecycle ------------------------------
(* The instance of Lifecycle that is model-checked. *)
EXTENDS Lifecycle

\* Grabbers that may be moved have no order.
Symmetry == Permutations(Movable)
=============================================================================

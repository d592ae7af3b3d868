----------------------------- MODULE MCAtomics ------------------------------
(* A word of two bits, and what the comments promise of the increments.    *)
EXTENDS Atomics
MCFunctor == [w \in Words |-> (2 * w + 1) % 4]
=============================================================================

-------------------------- MODULE MCReactorService --------------------------
EXTENDS ReactorService, TLC

\* Descriptor numbers and operations are interchangeable.
Symmetry == Permutations(Fd) \cup Permutations(Op)
=============================================================================

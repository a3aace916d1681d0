----------------------------- MODULE MCSockets -----------------------------
(* Sockets on two TCP objects and two descriptors, which are interchangeable. *)
EXTENDS Sockets, TLC

Symmetry == Permutations(Tcp) \cup Permutations(Fd)
=============================================================================

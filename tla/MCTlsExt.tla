------------------------------ MODULE MCTlsExt ------------------------------
(* Two slots of the operating system and four indices beyond the last one. *)
EXTENDS TlsExt, TLC

ThreadSymmetry == Permutations(Threads)

=============================================================================

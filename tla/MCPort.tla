------------------------------- MODULE MCPort -------------------------------
(* Three worker threads and two kinds of packets. *)
EXTENDS CompletionPort

=============================================================================

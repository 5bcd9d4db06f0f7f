---------------------------- MODULE MCWorkFiles ----------------------------
(* A small instance of WorkFiles for TLC. *)
EXTENDS WorkFiles, TLC

\* Rows, files and goroutines are interchangeable.
Symmetric == Permutations(Rows) \cup Permutations(Files) \cup Permutations(Requests)
=============================================================================

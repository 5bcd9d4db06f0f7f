--------------------------- MODULE MCLoginAttempt ---------------------------
(* Small instances of LoginAttempt for TLC. *)
EXTENDS LoginAttempt
=============================================================================

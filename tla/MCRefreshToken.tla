--------------------------- MODULE MCRefreshToken ---------------------------
(* A small instance of RefreshToken for TLC. *)
EXTENDS RefreshToken

\* The tokens that clients make up have a uuid of no login.
UnsignedOther == {NoUuid} \X Users
=============================================================================

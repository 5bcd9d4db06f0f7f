------------------------------ MODULE MCSessions ------------------------------
(* Small instances of Sessions for TLC. *)
EXTENDS Sessions, TLC

\* Goroutines and uuids are interchangeable: for the safety runs only.
Symmetric == Permutations(Requests) \cup Permutations(Uuids)

\* The tokens that clients make up say staff, with any uuid.
UnsignedStaff == (Uuids \cup {NoUuid}) \X (Users \ Admins)
=============================================================================

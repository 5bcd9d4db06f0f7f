--------------------------- MODULE MCNotifications ---------------------------
(* Small instances of Notifications for TLC. *)
EXTENDS Notifications, TLC

\* Connections and goroutines are interchangeable.
Symmetric == Permutations(Clients) \cup Permutations(Requests)
=============================================================================

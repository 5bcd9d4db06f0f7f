--------------------------------- MODULE Trx ---------------------------------
(***************************************************************************)
(* Trx: what the services expect of WithTrx.  A transaction writes rows, each *)
(* of which it then holds alone; what it wrote is kept from everybody else     *)
(* until it commits, when all of it is stored and nothing else; if its function *)
(* returns an error or panics, or the server restarts, nothing of it is.  The  *)
(* modules of the services implement this one: each says what of its state is  *)
(* stored, held and pending.                                                  *)
(* (WithTrx of pkg/util/trxmanager/trxmanager.go.)                            *)
(***************************************************************************)

CONSTANTS
    Rows,      \* what a transaction may write
    Requests,  \* the goroutines, each in one transaction at most
    Values     \* of a row, one for no row among them

VARIABLES
    stored,    \* row -> what is committed
    holder,    \* row -> {the request whose transaction has written it}, or {}
    pending    \* row -> {what that transaction wrote last}, or {}

vars == <<stored, holder, pending>>

TypeOK ==
    /\ stored \in [Rows -> Values]
    /\ holder \in [Rows -> {{}} \cup {{r} : r \in Requests}]
    /\ pending \in [Rows -> {{}} \cup {{v} : v \in Values}]
    /\ \A x \in Rows : pending[x] = {} <=> holder[x] = {}

Init ==
    /\ stored \in [Rows -> Values]
    /\ holder = [x \in Rows |-> {}]
    /\ pending = [x \in Rows |-> {}]

Mine(r) == {x \in Rows : holder[x] = {r}}

\* A statement of r: the row is free or its own.
Write(r, x) ==
    /\ holder[x] \subseteq {r}
    /\ holder' = [holder EXCEPT ![x] = {r}]
    /\ UNCHANGED stored
    /\ \E v \in Values : pending' = [pending EXCEPT ![x] = {v}]

\* The rows of xs are free again.
Release(xs) ==
    /\ holder' = [x \in Rows |-> IF x \in xs THEN {} ELSE holder[x]]
    /\ pending' = [x \in Rows |-> IF x \in xs THEN {} ELSE pending[x]]

\* The function has returned no error, and COMMIT went through.
Commit(r) ==
    /\ Mine(r) # {}
    /\ Release(Mine(r))
    /\ stored' = [x \in Rows |-> IF x \in Mine(r) THEN CHOOSE v \in pending[x] : TRUE
                                ELSE stored[x]]

\* It has returned an error, it panicked, or COMMIT failed.
Rollback(r) == Mine(r) # {} /\ Release(Mine(r)) /\ UNCHANGED stored

\* The server restarts.
Restart == Release(Rows) /\ UNCHANGED stored

Next ==
    \/ \E r \in Requests :
          \/ \E x \in Rows : Write(r, x)
          \/ Commit(r) \/ Rollback(r)
    \/ Restart

Spec == Init /\ [][Next]_vars
=============================================================================

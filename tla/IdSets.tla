-------------------------------- MODULE IdSets --------------------------------
(***************************************************************************)
(* IdSets: what the lists in Redis are to those who use them.  At each key is *)
(* a set of ids; a request reads one, and later writes back what it read with  *)
(* one id more or one less, whatever became of the list in between; a read that *)
(* fails is of an empty set.  The requests of Sessions and Comments implement   *)
(* this module, and so do the strings of RedisLists.                            *)
(* (The list helpers of pkg/util/general/general.go.)                          *)
(***************************************************************************)

CONSTANTS Keys, Ids, Writers

VARIABLES
    listed,    \* key -> the ids on its list
    pending    \* writer -> {the helper it is in, and what its GET returned}, or {}

vars == <<listed, pending>>

Init == listed = [k \in Keys |-> {}] /\ pending = [w \in Writers |-> {}]

\* (That there is a change then saves TLC the choice of one where there is none.)
Read(w, op, k, id) ==
    /\ pending[w] = {} /\ pending'[w] # {}
    /\ UNCHANGED listed
    /\ \E seen \in {listed[k], {}} :
          pending' = [pending EXCEPT ![w] = {[op |-> op, key |-> k, id |-> id, seen |-> seen]}]

\* Nothing is written back of a list that was empty.
Result(c) ==
    IF c.op = "append" THEN c.seen \cup {c.id}
    ELSE IF c.seen = {} THEN listed[c.key] ELSE c.seen \ {c.id}

Write(w) ==
    /\ \E c \in pending[w] : listed' = [listed EXCEPT ![c.key] = Result(c)]
    /\ pending' = [pending EXCEPT ![w] = {}]

\* The write fails.
Forget(w) == pending' = [pending EXCEPT ![w] = {}] /\ UNCHANGED listed

\* The server restarts.
Restart == pending' = [w \in Writers |-> {}] /\ UNCHANGED listed

Next ==
    \/ \E w \in Writers :
          \/ \E op \in {"append", "remove"}, k \in Keys, id \in Ids : Read(w, op, k, id)
          \/ Write(w) \/ Forget(w)
    \/ Restart

Spec == Init /\ [][Next]_vars
=============================================================================

------------------------------ MODULE RedisLists ------------------------------
(***************************************************************************)
(* RedisLists: lists of ids are kept in Redis as one string, the ids joined   *)
(* with "/".  Helpers split it, search it, append to it and remove from it, by *)
(* a GET and a SET.  No helper looks whether an id is there already, a string  *)
(* may be empty although the key exists, and to split an empty string gives    *)
(* one blank part, not none.                                                   *)
(* (GetRedisUUIDArray to RemoveUUIDFromRedisArray and their likes for user ids *)
(* in pkg/util/general/general.go.)                                            *)
(***************************************************************************)
EXTENDS Integers, Sequences, SequencesExt

CONSTANTS
    Ids,          \* uuids of logins, or ids of users
    Writers,      \* goroutines
    Blank,        \* the part that is empty
    NoKey,        \* what a GET returns if there is no key, or fails
    MaxParts      \* bound: parts of a string

ASSUME RedisListsAssumption ==
    /\ Blank \notin Ids /\ NoKey \notin Seq(Ids \cup {Blank})
    /\ MaxParts \in Nat

\* A string by its parts: they have no "/" in them, and there is one at least.
Strings == {t \in Seq(Ids \cup {Blank}) : t # <<>>}
Join(parts) == IF parts = <<>> THEN <<Blank>> ELSE parts

VARIABLES
    value,    \* Redis: the string at the key, or NoKey
    change    \* goroutine -> {the helper it is in, and what its GET returned}, or {}

listVars == <<value, change>>

\* err != nil || val == ""
Empty(val) == val \in {NoKey, <<Blank>>}

Split(val) == IF Empty(val) THEN <<>> ELSE val

\* Mutant of Appended: an empty string is appended to.
AppendedToEmpty(val, id) == IF val = NoKey THEN <<id>> ELSE Append(val, id)

Appended(val, id) == IF Empty(val) THEN <<id>> ELSE Append(val, id)

\* Mutant of Removed: an id that is there twice stays.
RemovedOnce(val, id) ==
    IF id \notin ToSet(val) THEN val
    ELSE LET k == CHOOSE n \in DOMAIN val : val[n] = id /\ \A m \in 1..n - 1 : val[m] # id
         IN  Join(RemoveAt(val, k))

\* What the loop over the parts keeps, joined.
Removed(val, id) ==
    LET kept[n \in 0..Len(val)] ==
            IF n = 0 THEN <<>>
            ELSE IF val[n] \in {id, Blank} THEN kept[n - 1] ELSE Append(kept[n - 1], val[n])
    IN  Join(kept[Len(val)])

\* What the helpers make of a list.
Listing(val) == val \in {NoKey, <<Blank>>} \/ (val \in Strings /\ Blank \notin ToSet(val))

ListsTypeOK ==
    /\ Listing(value)
    /\ DOMAIN change = Writers
    /\ \A w \in Writers : \A c, d \in change[w] :
          /\ c.op \in {"append", "remove"} /\ c.id \in Ids /\ Listing(c.val)
          /\ c = d

ListsInit == value = NoKey /\ change = [w \in Writers |-> {}]

\* GET, which may fail.
GetValue(w, op, id) ==
    /\ change[w] = {}
    /\ \E val \in {value, NoKey} : change' = [change EXCEPT ![w] = {[op |-> op, id |-> id, val |-> val]}]
    /\ UNCHANGED value

SetAppended(w) ==
    /\ \E c \in change[w] :
          /\ c.op = "append" /\ (~ Empty(c.val) => Len(c.val) < MaxParts)
          /\ value' = Appended(c.val, c.id)
    /\ change' = [change EXCEPT ![w] = {}]

\* Removing from an empty list returns before the SET.
SetRemoved(w) ==
    /\ \E c \in change[w] :
          /\ c.op = "remove"
          /\ value' = IF Empty(c.val) THEN value ELSE Removed(c.val, c.id)
    /\ change' = [change EXCEPT ![w] = {}]

\* The SET fails, which no helper tells, or the server restarts.
SetFails(w) == change[w] # {} /\ change' = [change EXCEPT ![w] = {}] /\ UNCHANGED value

ListsNext ==
    \E w \in Writers :
        \/ \E op \in {"append", "remove"}, id \in Ids : GetValue(w, op, id)
        \/ SetAppended(w) \/ SetRemoved(w) \/ SetFails(w)

ListsSpec == ListsInit /\ [][ListsNext]_listVars

-----------------------------------------------------------------------------
(* Properties.                                                              *)

\* What Split finds of a string, and of what the goroutines have read.  There is one
\* key here.
Abstract(c) == [op |-> c.op, key |-> "list", id |-> c.id, seen |-> ToSet(Split(c.val))]

ListedIds == [k \in {"list"} |-> ToSet(Split(value))]
ListChanges == [w \in Writers |-> {Abstract(c) : c \in change[w]}]

S == INSTANCE IdSets WITH Keys <- {"list"}, listed <- ListedIds, pending <- ListChanges

\* The strings do what sets would: an id that was removed is gone however often
\* it had been appended, an emptied list lists nothing, and the next id appended
\* to it is the only one (general.go 820-858, 926-964).
StringsAreSets == S!Spec
=============================================================================

------------------------------- MODULE Paging -------------------------------
(***************************************************************************)
(* Paging: a client reads a list (users, comments, tasks, task types, roles)  *)
(* page by page, while rows are created, edited and deleted; a row has its id  *)
(* from the insert and is seen from the commit on.  A request runs two queries *)
(* with the same filter and no transaction around them: a page of the rows, by *)
(* limit, offset and order, and the number of rows.                           *)
(* (ProcessWhereParam, ProcessLimitOffset and ProcessOrder of                 *)
(* pkg/util/general/general.go, Find and Count of internal/repository.)       *)
(***************************************************************************)
EXTENDS Integers, Sequences, SequencesExt

CONSTANTS
    Values,         \* of the column a list is filtered and may be sorted by
    Limits,         \* the limits clients ask for, none included
    NoParam,        \* a query parameter that is left out
    DefaultLimit,   \* 10 in the code
    MaxRows         \* bound: rows ever created

ASSUME PagingAssumption ==
    /\ Values \subseteq Int
    /\ NoParam \in Limits /\ Limits \ {NoParam} \subseteq Nat /\ NoParam \notin Nat
    /\ DefaultLimit \in Nat \ {0}
    /\ MaxRows \in Nat

VARIABLES
    rows,      \* MySQL: all rows by their ids, those of open inserts included
    query,     \* what the client asks for, the same for each page but the offset
    at,        \* what the client's request does next
    offset,    \* of the page
    page,      \* the ids on the page
    got,       \* the ids on the pages so far
    count      \* what the last request counted

VARIABLES      \* history, since the client began
    since,     \* the rows that have been in the list all the time
    grown,     \* a row was created in the list
    late,      \* and one with a higher id was there before it
    shrunk,    \* a row of the list was deleted
    edited,    \* a row was edited, in the list before or after it
    tied       \* two rows of the list had the same place in its order

vars == <<rows, query, at, offset, page, got, count, since, grown, late, shrunk,
          edited, tied>>

Row == [value : Values, state : {"open", "live", "deleted", "undone"}]
Query == [order : {"id", "value"}, desc : BOOLEAN, limit : Limits, all : BOOLEAN,
          match : SUBSET Values]

-----------------------------------------------------------------------------
(* The queries.                                                             *)

\* WHERE: committed, not deleted, and what the filters let through.
InList(q, rs, i) == rs[i].state = "live" /\ rs[i].value \in q.match
List(q, rs) == {i \in DOMAIN rs : InList(q, rs, i)}

\* ORDER BY one column: where it is the same, any order is as good.
Before(q, rs, i, j) ==
    LET x == IF q.order = "id" THEN i ELSE rs[i].value
        y == IF q.order = "id" THEN j ELSE rs[j].value
    IN  IF q.desc THEN x > y ELSE x < y

\* Mutant of Ordered: the order is not handed to the query.
OrderedAnyhow(q, rs) == SetToSeqs(List(q, rs))

Ordered(q, rs) ==
    {s \in SetToSeqs(List(q, rs)) :
        \A m, n \in DOMAIN s : m < n => ~ Before(q, rs, s[n], s[m])}

Tied(q, rs) ==
    \E i, j \in List(q, rs) : i # j /\ ~ Before(q, rs, i, j) /\ ~ Before(q, rs, j, i)

\* LIMIT: no_paging=yes stands for no limit, which is more than there are rows.
Limit(q) ==
    IF q.all THEN MaxRows + 1 ELSE IF q.limit = NoParam THEN DefaultLimit ELSE q.limit

\* Mutants of PageAt: a page has a row too many; the offset counts from one.
PageAtLong(s, q, o) ==
    SubSeq(s, o + 1, IF o + Limit(q) < Len(s) THEN o + Limit(q) + 1 ELSE Len(s))
PageAtNext(s, q, o) ==
    SubSeq(s, o + 2, IF o + 1 + Limit(q) < Len(s) THEN o + 1 + Limit(q) ELSE Len(s))

PageAt(s, q, o) == SubSeq(s, o + 1, IF o + Limit(q) < Len(s) THEN o + Limit(q) ELSE Len(s))

\* Mutant of CountOf: deleted rows are counted.
CountOfAll(q, rs) ==
    Cardinality({i \in DOMAIN rs : rs[i].state \in {"live", "deleted"} /\ rs[i].value \in q.match})

CountOf(q, rs) == Cardinality(List(q, rs))

-----------------------------------------------------------------------------
TypeOK ==
    /\ rows \in Seq(Row) /\ Len(rows) <= MaxRows
    /\ query \in Query
    /\ at \in {"idle", "find", "count", "done"}
    /\ offset \in Nat
    /\ page \in Seq(DOMAIN rows) /\ got \in Seq(DOMAIN rows)
    /\ at # "idle" => Len(page) <= Limit(query)
    /\ count \in 0..MaxRows
    /\ since \subseteq List(query, rows)
    /\ grown \in BOOLEAN /\ late \in BOOLEAN
    /\ late => grown
    /\ shrunk \in BOOLEAN /\ edited \in BOOLEAN /\ tied \in BOOLEAN

NoQuery == [order |-> "id", desc |-> FALSE, limit |-> NoParam, all |-> TRUE, match |-> {}]

Init ==
    /\ rows \in UNION {[1..n -> [value : Values, state : {"live"}]] : n \in 0..MaxRows}
    /\ query = NoQuery
    /\ at = "idle"
    /\ offset = 0 /\ count = 0
    /\ page = <<>> /\ got = <<>>
    /\ since = {}
    /\ grown = FALSE /\ late = FALSE /\ shrunk = FALSE /\ edited = FALSE /\ tied = FALSE

-----------------------------------------------------------------------------
(* The writers.                                                             *)

\* The rows are rs from now on.
Write(rs) ==
    /\ rows' = rs
    /\ since' = since \cap List(query, rs)
    /\ tied' = (tied \/ Tied(query, rs))
    /\ UNCHANGED <<query, at, offset, page, got, count>>

Insert(v) ==
    /\ Len(rows) < MaxRows
    /\ Write(Append(rows, [value |-> v, state |-> "open"]))
    /\ UNCHANGED <<grown, late, shrunk, edited>>

\* Transactions end in any order.
Commit(i) ==
    /\ rows[i].state = "open"
    /\ Write([rows EXCEPT ![i].state = "live"])
    /\ grown' = (grown \/ rows[i].value \in query.match)
    /\ late' = (late \/ (rows[i].value \in query.match /\ \E j \in List(query, rows) : j > i))
    /\ UNCHANGED <<shrunk, edited>>

Rollback(i) ==
    /\ rows[i].state = "open"
    /\ Write([rows EXCEPT ![i].state = "undone"])
    /\ UNCHANGED <<grown, late, shrunk, edited>>

Edit(i, v) ==
    /\ rows[i].state = "live" /\ rows[i].value # v
    /\ Write([rows EXCEPT ![i].value = v])
    /\ edited' = (edited \/ {v, rows[i].value} \cap query.match # {})
    /\ UNCHANGED <<grown, late, shrunk>>

Delete(i) ==
    /\ rows[i].state = "live"
    /\ Write([rows EXCEPT ![i].state = "deleted"])
    /\ shrunk' = (shrunk \/ i \in List(query, rows))
    /\ UNCHANGED <<grown, late, edited>>

-----------------------------------------------------------------------------
(* The client and its requests.                                             *)

Start(q) ==
    /\ at = "idle"
    /\ query' = q
    /\ at' = "find"
    /\ since' = List(q, rows) /\ tied' = Tied(q, rows)
    /\ UNCHANGED <<rows, offset, page, got, count, grown, late, shrunk, edited>>

Find ==
    /\ at = "find"
    /\ \E s \in Ordered(query, rows) :
          /\ page' = PageAt(s, query, offset)
          /\ got' = got \o PageAt(s, query, offset)
    /\ at' = "count"
    /\ UNCHANGED <<rows, query, offset, count, since, grown, late, shrunk, edited, tied>>

\* The client asks for the next page until one is not full.
Count ==
    /\ at = "count"
    /\ count' = CountOf(query, rows)
    /\ IF Len(page) = Limit(query) /\ page # <<>>
       THEN at' = "find" /\ offset' = offset + Len(page)
       ELSE at' = "done" /\ UNCHANGED offset
    /\ UNCHANGED <<rows, query, page, got, since, grown, late, shrunk, edited, tied>>

Next ==
    \/ \E v \in Values : Insert(v)
    \/ \E i \in DOMAIN rows : Commit(i) \/ Rollback(i) \/ Delete(i) \/ \E v \in Values : Edit(i, v)
    \/ \E q \in Query : Start(q)
    \/ Find \/ Count

Spec == Init /\ [][Next]_vars

-----------------------------------------------------------------------------
(* Properties.                                                              *)

\* Rows that are created while a client reads page by page never make it miss
\* one: it gets every row that was in the list all the time, unless a row was
\* deleted or edited or two rows tie in its order (repository/user.go 69-82).
NothingMissed ==
    at = "done" /\ Limit(query) > 0 =>
        since \subseteq ToSet(got) \/ shrunk \/ edited \/ tied

\* Rows that are deleted never make a client get another one twice: only rows
\* that are created or edited do, or ties; and in the order of the ids, which
\* is the order when nothing else is asked for, rows created do not either, unless
\* one is committed after a row that was inserted after it (general.go 397-411).
NothingTwice ==
    \/ IsInjective(got)
    \/ tied \/ edited
    \/ grown /\ (query.order = "id" => query.desc \/ late)

\* The count is of the rows the pages show: nobody having written, they are as
\* many, whatever the filter, order and limit (repository/user.go 84-95).
CountsWhatIsShown ==
    at = "done" /\ Limit(query) > 0 /\ ~ grown /\ ~ shrunk /\ ~ edited => Len(got) = count

-----------------------------------------------------------------------------
(* What makes them inductive (module PagingProofs).                         *)

\* The rows of the list that come before i.
Ahead(i) == {j \in List(query, rows) : Before(query, rows, j, i)}

\* What the next page, or the one that was found, leaves behind it.
Behind == IF at = "count" THEN offset + Len(page) ELSE offset

\* The history knows of the ties there are.
TiesKnown == at # "idle" /\ Tied(query, rows) => tied

\* What the client has yet to get is not before the next page.
AheadOfMissed ==
    ~ shrunk /\ ~ edited /\ ~ tied /\ Limit(query) > 0 =>
        \A i \in since \ ToSet(got) :
            /\ at # "done" /\ Behind <= Cardinality(Ahead(i))
            /\ at = "count" => Len(page) = Limit(query)

\* What it has got was in the list, and is before the next page if it still is.
AheadOfGot ==
    \/ /\ IsInjective(got)
       /\ \A i \in ToSet(got) :
             /\ rows[i].state \in {"live", "deleted"} /\ rows[i].value \in query.match
             /\ at \in {"find", "count"} /\ i \in List(query, rows) => Cardinality(Ahead(i)) < Behind
    \/ tied \/ edited
    \/ grown /\ (query.order = "id" => query.desc \/ late)

\* Nobody having written, it has got as many rows as are before the next page.
GotSoFar ==
    ~ grown /\ ~ shrunk /\ ~ edited =>
        /\ at \in {"find", "count"} => Len(got) = Behind /\ Behind <= CountOf(query, rows)
        /\ at = "count" /\ Len(page) < Limit(query) => Behind = CountOf(query, rows)
        /\ at = "done" /\ Limit(query) > 0 => Len(got) = count

Begun == at = "idle" => offset = 0 /\ got = <<>> /\ page = <<>>

IInv == TypeOK /\ Begun /\ TiesKnown /\ AheadOfMissed /\ AheadOfGot /\ GotSoFar
=============================================================================

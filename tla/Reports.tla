------------------------------ MODULE Reports ------------------------------
(***************************************************************************)
(* Reports: the export of works and the two dashboards.  An export finds the  *)
(* works in one query and the names of their users and task types in two more; *)
(* a dashboard counts the works of a task by floor and by user, or by task     *)
(* type, joining the names in.  Meanwhile works are created and updated by     *)
(* requests that have looked the task type up before, users are renamed and    *)
(* deleted, and task types come and go.                                        *)
(* (internal/app/work/service.go Export, DashboardAdmin and DashboardStaf,     *)
(* internal/repository/work.go, internal/app/task/tipe/service.go.)            *)
(***************************************************************************)
EXTENDS Integers, Sequences, FiniteSets, FiniteSetsExt

CONSTANTS
    Users, Floors, Names,
    Tasks,          \* rows that the server never writes
    TASK_ID_DAILY,
    NoName,         \* what a row that a preload did not find leaves behind
    Skips,          \* the offsets clients ask for, an export or dashboard included
    MaxTypes,       \* bound: task types ever inserted
    MaxWorks,       \* bound: works ever inserted
    MaxAsked,       \* bound: requests that write a work at a time
    MaxChanges      \* bound: rows updated or deleted

ASSUME ReportsAssumption ==
    /\ TASK_ID_DAILY \in Tasks /\ NoName \notin Names
    /\ Skips \subseteq Nat
    /\ {MaxTypes, MaxWorks, MaxAsked, MaxChanges} \subseteq Nat
    /\ MaxTypes > 0     \* one is there at first

VARIABLES
    user,        \* MySQL: user -> its name and whether it is deleted
    task_type,   \* MySQL: the task types by their ids
    work,        \* MySQL: the works by their ids
    asked,       \* the requests that have looked up the task type of a work
    report,      \* the report somebody asked for
    lines,       \* the lines of an export so far
    groups       \* the groups of a dashboard so far, by floor, user or task type

VARIABLES        \* history
    changes,     \* rows updated or deleted so far
    names,       \* the names users and task types have had while the report ran
    matched      \* the works of the task when the dashboard counted them

tables == <<user, task_type, work, asked, changes>>
reportVars == <<tables, report, lines, groups, names, matched>>

\* A row is there from the commit of its insert, and stays when it is deleted.
States == {"live", "deleted"}
TypeIds == DOMAIN task_type
WorkIds == DOMAIN work

Work == [user : Users, task : Tasks, type : 1..MaxTypes, floor : Floors, state : States]

\* What is asked of the report, and which of its queries is next.
Report ==
    [kind : {"none", "export", "admin", "staf"}, task : Tasks, skip : Skips \cup {0},
     left : SUBSET {"works", "floor", "user", "type"}]

\* No report runs.
NoReport == [kind |-> "none", task |-> TASK_ID_DAILY, skip |-> 0, left |-> {}]

\* Whoever has a name.
Named == ({"user"} \X Users) \cup ({"type"} \X TypeIds)

NameOf(x) == IF x[1] = "user" THEN user[x[2]].name ELSE task_type[x[2]].name

Line == [work : WorkIds, user : Users, type : 1..MaxTypes,
         userName : Names \cup {NoName}, typeName : Names \cup {NoName}]

ReportsTypeOK ==
    /\ user \in [Users -> [name : Names, state : States]]
    /\ task_type \in Seq([name : Names, state : States]) /\ Len(task_type) <= MaxTypes
    /\ work \in Seq(Work) /\ Len(work) <= MaxWorks
    /\ \A i \in WorkIds : work[i].type \in TypeIds
    /\ asked \subseteq [id : 0..MaxWorks, work : Work, columns : SUBSET {"task", "type", "floor"}]
    /\ report \in Report
    /\ lines \subseteq Line
    /\ \A g \in groups : g.count \in 1..MaxWorks
    /\ changes \in 0..MaxChanges
    /\ DOMAIN names = Named /\ \A x \in Named : names[x] \subseteq Names
    /\ matched \in 0..MaxWorks

ReportsInit ==
    /\ user \in [Users -> [name : Names, state : {"live"}]]
    /\ task_type \in [1..1 -> [name : Names, state : {"live"}]]
    /\ work = <<>>
    /\ asked = {}
    /\ report = NoReport
    /\ lines = {} /\ groups = {}
    /\ changes = 0
    /\ names = [x \in Named |-> {}]
    /\ matched = 0

-----------------------------------------------------------------------------
(* The writers of the tables.                                               *)

\* The names there are after a change may be seen by an export, too.
Tables ==
    /\ names' = [x \in Named' |-> IF report.kind # "export" THEN {}
                                  ELSE (IF x \in Named THEN names[x] ELSE {}) \cup {NameOf(x)'}]
    /\ UNCHANGED <<report, lines, groups, matched>>

Bounded == changes < MaxChanges /\ changes' = changes + 1

ChangeUser(u, n, s) ==
    /\ user[u].state = "live" /\ user[u] # [name |-> n, state |-> s]
    /\ user' = [user EXCEPT ![u] = [name |-> n, state |-> s]]
    /\ Bounded
    /\ UNCHANGED <<task_type, work, asked>> /\ Tables

CreateType(n) ==
    /\ Len(task_type) < MaxTypes
    /\ task_type' = Append(task_type, [name |-> n, state |-> "live"])
    /\ UNCHANGED <<user, work, asked, changes>> /\ Tables

\* Update renames it, Delete marks it.
ChangeType(i, n, s) ==
    /\ task_type[i].state = "live"
    /\ task_type[i] # [name |-> n, state |-> s]
    /\ task_type' = [task_type EXCEPT ![i] = [name |-> n, state |-> s]]
    /\ Bounded
    /\ UNCHANGED <<user, work, asked>> /\ Tables

\* A request may write these columns of work w: all of a new one, some of one
\* that its user updates.
Given(id, w) ==
    IF id = 0 THEN {{"task", "type", "floor"}}
    ELSE {cs \in SUBSET {"task", "type", "floor"} :
            work[id].state = "live" /\ \A c \in DOMAIN w \ cs : w[c] = work[id][c]}

Room(id) == Cardinality(asked) < MaxAsked /\ (id = 0 => Len(work) < MaxWorks)

\* Mutant of LookUp: the task type is not looked for.
LookUpNothing(id, w) ==
    /\ Room(id) /\ w.state = "live"
    /\ \E cs \in Given(id, w) : asked' = asked \cup {[id |-> id, work |-> w, columns |-> cs]}
    /\ UNCHANGED <<user, task_type, work, changes>> /\ Tables

\* Create or Update: the task type, if one is given, is there now.
LookUp(id, w) ==
    /\ Room(id) /\ w.state = "live"
    /\ \E cs \in Given(id, w) :
          /\ "type" \in cs => w.type \in TypeIds /\ task_type[w.type].state = "live"
          /\ asked' = asked \cup {[id |-> id, work |-> w, columns |-> cs]}
    /\ UNCHANGED <<user, task_type, work, changes>> /\ Tables

\* INSERT, or UPDATE of what may have been deleted meanwhile, and the commit.
Store(q) ==
    /\ IF q.id = 0
       THEN /\ Len(work) < MaxWorks
            /\ work' = Append(work, q.work) /\ UNCHANGED changes
       ELSE /\ Bounded
            /\ work' = [work EXCEPT ![q.id] =
                           [c \in DOMAIN @ |-> IF c \in q.columns THEN q.work[c] ELSE @[c]]]
    /\ asked' = asked \ {q}
    /\ UNCHANGED <<user, task_type>> /\ Tables

\* It fails, or the server restarts.
GiveUp(q) ==
    /\ asked' = asked \ {q}
    /\ UNCHANGED <<user, task_type, work, changes>> /\ Tables

WithdrawWork(i) ==
    /\ work[i].state = "live" /\ Bounded
    /\ work' = [work EXCEPT ![i].state = "deleted"]
    /\ UNCHANGED <<user, task_type, asked>> /\ Tables

-----------------------------------------------------------------------------
(* The reports.                                                             *)

Ask(kind, t, skip) ==
    /\ report = NoReport
    /\ report' = [kind |-> kind, task |-> t, skip |-> skip,
                  left |-> CASE kind = "export" -> {"works"}
                             [] kind = "admin" -> {"floor", "user"}
                             [] kind = "staf" -> {"type"}]
    /\ names' = [x \in Named |-> IF kind = "export" THEN {NameOf(x)} ELSE {}]
    /\ UNCHANGED <<tables, lines, groups, matched>>

Send ==
    /\ report # NoReport /\ report.left = {}
    /\ report' = NoReport
    /\ lines' = {} /\ groups' = {} /\ matched' = 0
    /\ names' = [x \in Named |-> {}]
    /\ UNCHANGED tables

\* The works of a task, deleted ones left out, and what an offset leaves of them,
\* in whatever order.
Matching == {i \in WorkIds : work[i].state = "live" /\ work[i].task = report.task}
From(S) == {T \in SUBSET S : Cardinality(T) = Max({Cardinality(S) - report.skip, 0})}

FindWorks ==
    /\ report.left = {"works"}
    /\ \E found \in From(Matching) :
          lines' = {[work |-> i, user |-> work[i].user, type |-> work[i].type,
                     userName |-> NoName, typeName |-> NoName] : i \in found}
    /\ report' = [report EXCEPT !.left = {"user", "type"}]
    /\ UNCHANGED <<tables, groups, names, matched>>

\* Mutant of PreloadUsers: a preload leaves deleted rows out.
PreloadUsersLive ==
    /\ report.kind = "export" /\ "user" \in report.left
    /\ lines' = {[l EXCEPT !.userName =
                    IF user[l.user].state = "live" THEN user[l.user].name ELSE NoName] : l \in lines}
    /\ report' = [report EXCEPT !.left = @ \ {"user"}]
    /\ UNCHANGED <<tables, groups, names, matched>>

\* Preload("User"), by the ids that the works have named; deleted or not.
PreloadUsers ==
    /\ report.kind = "export" /\ "user" \in report.left
    /\ lines' = {[l EXCEPT !.userName = user[l.user].name] : l \in lines}
    /\ report' = [report EXCEPT !.left = @ \ {"user"}]
    /\ UNCHANGED <<tables, groups, names, matched>>

\* Preload("TaskType").
PreloadTypes ==
    /\ report.kind = "export" /\ "type" \in report.left
    /\ lines' = {[l EXCEPT !.typeName =
                    IF l.type \in TypeIds THEN task_type[l.type].name ELSE NoName] : l \in lines}
    /\ report' = [report EXCEPT !.left = @ \ {"type"}]
    /\ UNCHANGED <<tables, groups, names, matched>>

\* Mutant of Joined: deleted task types are not joined.
JoinedLive(by) ==
    {i \in Matching : by = "type" => work[i].type \in TypeIds /\ task_type[work[i].type].state = "live"}

\* JOIN: a work whose row of the other table is not there falls out; one that is
\* deleted is there.
Joined(by) ==
    {i \in Matching : by = "type" => work[i].type \in TypeIds}

\* GROUP BY and COUNT; the offset is of groups.
Grouped(by) ==
    {[by |-> by, key |-> k, count |-> Cardinality({i \in Joined(by) : work[i][by] = k})] :
        k \in {work[i][by] : i \in Joined(by)}}

\* DashboardAdmin answers with the floors for the daily task and with the users
\* for another; DashboardStaf with the task types.
Shown ==
    IF report.kind = "staf" THEN "type"
    ELSE IF report.task = TASK_ID_DAILY THEN "floor" ELSE "user"

\* DashboardAdmin runs both of its queries, by floor and then by user.
Summarise(by) ==
    /\ report.kind # "export" /\ by \in report.left
    /\ by = "user" => "floor" \notin report.left
    /\ \E found \in From(Grouped(by)) : groups' = groups \cup found
    /\ report' = [report EXCEPT !.left = @ \ {by}]
    /\ matched' = IF by = Shown THEN Cardinality(Matching) ELSE matched
    /\ UNCHANGED <<tables, lines, names>>

Summary == {g \in groups : g.by = Shown}

\* The works that groups count.
Total(S) == MapThenSumSet(LAMBDA g : g.count, S)

ReportsNext ==
    \/ \E u \in Users, n \in Names, s \in States : ChangeUser(u, n, s)
    \/ \E n \in Names : CreateType(n)
    \/ \E i \in TypeIds, n \in Names, s \in States : ChangeType(i, n, s)
    \/ \E id \in {0} \cup WorkIds, w \in Work : LookUp(id, w)
    \/ \E q \in asked : Store(q) \/ GiveUp(q)
    \/ \E i \in WorkIds : WithdrawWork(i)
    \/ \E kind \in {"export", "admin", "staf"}, t \in Tasks, skip \in Skips : Ask(kind, t, skip)
    \/ Send \/ FindWorks \/ PreloadUsers \/ PreloadTypes
    \/ \E by \in {"floor", "user", "type"} : Summarise(by)

ReportsSpec == ReportsInit /\ [][ReportsNext]_reportVars

-----------------------------------------------------------------------------
(* Properties.                                                              *)

\* Each line of an export has the names of the user and of the task type of its
\* work, as they were at some time while it ran, although the names are found
\* after the works and users and task types may be deleted before or meanwhile
\* (work/service.go 521-522, repository/work.go 58-74).
NamesShown ==
    report.left = {} =>
        \A l \in lines :
            l.userName \in names[<<"user", l.user>>] /\ l.typeName \in names[<<"type", l.type>>]

\* A dashboard that is asked for from its start counts every work of its task,
\* whatever became of its user and its task type: the join loses none
\* (repository/work.go 94-142, work/service.go 80-86).
SumsComplete ==
    report.left = {} /\ report.kind \in {"admin", "staf"} /\ report.skip = 0 =>
        Total(Summary) = matched

-----------------------------------------------------------------------------
(* What makes them inductive.                                               *)

\* A request that has looked a work or a task type up keeps to rows that stay.
AskedOK ==
    \A q \in asked :
        /\ q.id \in {0} \cup WorkIds
        /\ q.id = 0 => q.columns = {"task", "type", "floor"}
        /\ "type" \in q.columns => q.work.type \in TypeIds

\* A report runs queries of its kind only.
LeftOK ==
    /\ report.kind = "none" => report.left = {}
    /\ report.kind = "export" => report.left = {"works"} \/ report.left \subseteq {"user", "type"}
    /\ report.kind = "admin" => report.left \subseteq {"floor", "user"}
    /\ report.kind = "staf" => report.left \subseteq {"type"}

\* While an export runs, the names there are now are among those there were; what
\* a preload has filled in is one of them.
LinesOK ==
    /\ report.kind # "export" \/ "works" \in report.left => lines = {}
    /\ report.kind = "export" => \A x \in Named : NameOf(x) \in names[x]
    /\ \A l \in lines :
          /\ l.type \in TypeIds
          /\ "user" \notin report.left => l.userName \in names[<<"user", l.user>>]
          /\ "type" \notin report.left => l.typeName \in names[<<"type", l.type>>]

\* The groups that are shown are there once their query has run, and add up to the
\* works there were then.
SumsOK ==
    /\ report.kind \notin {"admin", "staf"} => groups = {}
    /\ Shown \in report.left => Summary = {}
    /\ report.kind \in {"admin", "staf"} /\ Shown \notin report.left /\ report.skip = 0 =>
          Total(Summary) = matched

ReportsInv == ReportsTypeOK /\ AskedOK /\ LeftOK /\ LinesOK /\ SumsOK
=============================================================================

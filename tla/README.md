# CleanCare in TLA+

CleanCare is an HTTP server (Go, Echo) with which cleaning staff report their
work and administrators read it. This directory models it: TLA+ modules
translated from the source, TLC runs that check them on small instances, and
TLAPS proofs that hold for every instance. All paths below are relative to the
repository; line numbers are those of the commit the modules were written from.

## The system

One process. Echo serves each request in a goroutine of its own; a goroutine
runs middlewares, then a handler, then a service method. The state is in four
places, and no transaction spans two of them:

| where | what | who writes it |
|---|---|---|
| memory of the process | the map of login attempts; the websocket node with its connections and subscriptions | the `LoginAttempt` middleware, under a mutex; the websocket handlers |
| Redis | uuid lists of logins, the list `AUTO_LOGOUT`, refresh counters, per-address counters, reset tokens, unread lists; the publications of the websocket channels | middlewares and services, single commands |
| MySQL | users, roles, tasks, task types, works, comments, notifications | services, one transaction per request (`trxmanager.WithTrx`) |
| Google Drive | image files | work and user services |

What makes this hard: every request may be anywhere between two commands while
another one runs; a Redis list is rewritten by a `GET` and a later `SET`; Redis
and the drive do not roll back with MySQL; errors of Redis and of the drive are
often ignored; the process may stop between any two commands; a row that a
transaction has read may change before the transaction writes it.

### Inventory

| component (source) | state | operations | what makes it correct |
|---|---|---|---|
| login attempt limiter (`internal/middleware/login-attempt.go`) | `users`, `lastCleanUp` | Allow, IncreaseAttempt, cleanUpStaleUsers | failures lock; a lock is served; it lifts; few logins slip in under it |
| request limits (`internal/middleware/noauthentication.go`) | a counter per kind and address | INCR, refuse, EXPIRE | at most Max pass in a life of the counter; a refusal ends |
| sessions (`internal/app/auth/service.go` Login, Logout; `internal/app/user/service.go` ChangePassword, Delete; `internal/middleware/authentication.go`; list helpers of `pkg/util/general/general.go`) | uuid lists, AUTO_LOGOUT, tokens held by clients | login, logout, the three revocations, the check | a revocation ends the sessions of its user and nobody else's, whatever tokens log out |
| token refresh (`RefreshToken` of the middleware and of the auth service) | a counter per uuid | INCR, refuse and DEL, read user, sign | the counter bounds refreshes; a deleted user fades out |
| password reset (`SendEmailForgotPassword`, `ValidationResetPassword`; `internal/model/token`) | one-time token in Redis, password hash | send, validate | a token resets once; the last mail names the password |
| accounts (`Create`, `Update`, `Register`, `VerifyNumber`) | user rows | create, update, verify | number and email belong to one account |
| work reports and images (`internal/app/work/service.go`, `pkg/gdrive`) | work rows, files | Create, Update, Delete, reads | rows name existing files; no file is left over |
| comments (`internal/app/work/comment/service.go`) | comments, unread lists in Redis | Create, Update, Delete, FindByWorkId | a comment not read stays marked unread |
| transaction manager (`pkg/util/trxmanager`) | a transaction | WithTrx | all or nothing, also under a panic; rows change by commits alone |
| tasks, task types, roles (`internal/app/task`, `internal/app/role`) | lookup tables; only task types are written | Find; Create, Update, Delete of task types | pages miss nothing; works never name a type that is not there |
| general helpers (`pkg/util/general`) | strings in Redis | append, remove, split, search; paging and ordering | the strings do what sets would; a page is what was asked for |
| websocket (`pkg/ws/centrifugal.go`, `main.go`) | centrifuge node, subscriptions, publications | connect, subscribe, GetNotification, PublishNotification, start, stop | a tab ends up with the right count; the node is stopped |
| exports and dashboards (`Export`, `DashboardAdmin`, `DashboardStaf` of `internal/app/work/service.go`, `internal/repository/work.go`) | none of their own | the queries of a report, one after the other | every line has its names; the groups add up |
| wiring and adapters (`main.go`, `internal/config`, `pkg/gomail`, ...) | none | start-up, logging, mail and drive clients | – |

`PROJECT.json` lists them with their status, and under `hazards` the places in
the code that tests would hardly reach, with the property that covers each.

## Modules

| module | models | checked by |
|---|---|---|
| `LoginAttempt` | the login attempt limiter | `MCLimits`, `MCLoginAttempt`, `LimitsProofs` |
| `IpCheck` | the request limits | `MCLimits`, `LimitsProofs` |
| `Sessions` | sessions and their revocation; implements `IdSets` | `MCSessions`, `SessionsProofs` |
| `RefreshToken` | token refresh; extends `Sessions` and implements it | `MCRefreshToken`, `SessionsProofs` |
| `PasswordReset` | reset by mail and the other writers of the password; implements `Trx` | `MCUsers`, `UsersProofs` |
| `Accounts` | numbers and emails; implements `Trx` | `MCUsers`, `UsersProofs` |
| `Trx` | what `WithTrx` promises (abstract) | through `PasswordReset` and `Accounts`; `CommentsProofs`, `WorkFilesProofs` |
| `WorkFiles` | images of works and users; implements `Trx` | `MCWorkFiles`, `WorkFilesProofs` |
| `Comments` | comments and their unread lists; implements `Trx` and `IdSets` | `MCComments`, `CommentsProofs` |
| `RedisLists` | lists kept as strings; implements `IdSets` | `MCComments`, `CommentsProofs` |
| `IdSets` | what `Sessions` and `Comments` take such lists to be, and how they use them (abstract) | through `RedisLists` and `Comments`; `SessionsProofs` |
| `WorkList` | the unread flag in the list of works | `MCWorkList`, `WorksProofs` |
| `Reports` | export and dashboards against their writers | `MCWorkList`, `WorksProofs` |
| `Paging` | lists read page by page | `MCPaging`, `PagingProofs` |
| `Notifications` | the websocket | `MCNotifications`, `NotificationsProofs` |

`RefreshToken` extends `Sessions`: its goroutines meet those of `Sessions` in
Redis, in MySQL and in a crash. `MCLimits`, `MCUsers`, `MCComments` and
`MCWorkList` instantiate two modules each that share no variable; a variable
`model` says which of them a behaviour is of, so that the states add up and are
not multiplied. Their `TypesOK` is the type invariant of both. Each `*Proofs`
module holds the theorems about the modules of one run, first those about each
module by itself and then those about the two side by side. Operators introduced as "Mutant of X" are
wrong versions of X that a run is known to reject; nothing uses them.

### LoginAttempt

`users` is the map; `inFlight` holds the goroutines between `Allow` and
`IncreaseAttempt`. Each of these two runs under the mutex and is one step:
`Admit` and `Deny` are the outcomes of `Allow`; `RecordFailure`, `RecordOther`
and `RecordingFails` those of `IncreaseAttempt` (401, another status, the failed
query); `HandlerError` is the return before it. `Touch` is the trailing part
both share, LastSeen and the sweep. Times are kept relative to now, so that the
clock needs no bound: `idle` is now - LastSeen and stops one past the only value
it is compared with. `User.Locked` is never set by the code and left out.

History variables: `owed` is what is left of the last lock given, whatever the
map says; `streak` counts failures in a row; `late` counts failures recorded
under a lock; `quiet` and `steady` tell whether the client stayed away.

* `FailuresLock`: Max failures in a row lock the key, however sweeps and other
  keys interleave, provided the key is never quiet for more than a minute.
* `LockServedInFull`: such a client serves exactly the lock it was given.
* `OverrunBounded`: under a lock, the failures recorded and those in flight are
  fewer than the goroutines.
* `LockLifts`: every lock ends, under fairness of the clock alone.
* `LockLastsItsDuration` does **not** hold, see Findings.

### IpCheck

A counter is `count` (0: no key) and `ttl` (0: no time to live). `Count` and
`Refuse` are the outcomes of INCR; `Pass` is EXPIRE and the call of the handler;
`CountFails` and `PassFails` are the errors, where Redis may or may not have run
the command; `Crash` stops the server. The three middlewares are one text with
three key templates, `Kinds`. Counters saturate one above Max: nothing tells the
higher values apart.

* `AdmissionBounded`: at most Max requests reach the handler in a life of the
  counter.
* `StuckOnlyByLosses`: a counter that is full and has no time to live, and so
  refuses its address for ever, takes Max requests each cut off between INCR
  and EXPIRE.
* `RefusalEnds`: else a refusal ends, although refused clients go on calling.

### Sessions

`login[u]` and `autoLogout` are the two kinds of list, as sets (neither order
nor repetition is observed). A request is a record with the step it is at and
what its last GET returned; GET and SET are separate steps. Login is `StartLogin,
LoginGet, LoginSet, LoginEnd`; logout is `StartLogout, LogoutGet, LogoutSet,
UnmarkGet, UnmarkSet`; the three revocations start differently and share
`RevokeUpdate` (which takes the row lock), `RevokeGet`, `MarkGet`, `MarkSet`,
`RevokeEnd` and `RevokeAbort`; `MarkGet` chooses the uuid to mark, since no order of
the list is observed. A GET that fails reads as an empty list, as
`AppendUUIDToRedisArray` and `GetRedisUUIDArray` have it, and a SET that fails
is ignored.

A token is its claims, a uuid and a user. `token` has those that the server signed in
the last 24 hours; a login's token of any age is `issued`. `Logout` and `RefreshToken`
of the middleware look at neither signature nor age: the error of
`jwt.ParseWithClaims` is overwritten without a look at it (authentication.go 142-152,
225-235), and the uuid and id of the user are what the claims say. So a client may
come with claims that the server never signed (`MakeUp`, `madeUp`; `Unsigned` bounds
which), also with a uuid that no login has made (`NoUuid`), and `StartLogout` and
`Renew` take any `Claimed` pair: the list that a logout rewrites is that of the user it
names, who need not be the owner of the uuid. `StartChangePassword` and `StartDelete`
are behind `Authentication`, which does check the signature and the age, and so need a
pair in `token`. One thing is assumed of clients: they do not name a uuid that
`uuid.NewString()` has yet to return.

A Redis list written by GET and SET can lose what another request wrote in
between, and a logout takes off what its token names. The model does not hide this:
`excused` collects the sessions that a logout named and those that a failed command
or an overlapping GET/SET window may lose, and no others.

* `NoSpuriousLogout`: nobody is logged out by the revocation of another user,
  whatever stale lists are written back. No exception.
* `RevokedStayRefused`: a committed revocation ends the sessions its user had
  when it began, and they stay ended until a logout names them, except those
  in `excused`. It need not be a logout of the session's own client: anybody's will do,
  with any user in its token, after which a token of the session that is not yet 24 hours
  old is good again. That is the most the code allows one to say.

`IInv` is the inductive strengthening, proved in `SessionsProofs`. That the two kinds
of list are used as `IdSets` has them (`UuidListsAreSets`) is proved there, too.

### RefreshToken

`StartRefresh` is the middleware's check of AUTO_LOGOUT; `RefreshPass` and
`RefreshRefuse` the outcomes of INCR, `RefreshDel` the DEL of a refused
request; `RefreshFind` and `RefreshSign` the service, between which the user may
be deleted. Both take the user and the uuid from the token, whose signature nobody has
checked, so that `RefreshFind` reads the user it names and `RefreshSign` signs what it
says; a refresh also works for a uuid that no login has made, which has a counter like
the others.

* `RefreshBudget`: a uuid's refreshes are those of a bucket that starts with
  MaxRefresh and gets MaxRefresh more with each refusal, up to `FullCredit`,
  although a refusal removes the counter under concurrent refreshes.
* `DeletedFadeOut`: once a user is deleted, all tokens that name the user grow old and
  no new one is signed, also for sessions the revocation missed. It speaks of the
  user in a token: that the uuid of a deleted user's session is renewed for somebody
  else, whom an unverified token names, the code does not prevent.
* `ImplementsSessions`: the module implements `Spec` of `Sessions`, in which a
  refresh is the single step `Renew` (the variables have the same names, so the
  refinement mapping is the identity).

### WorkFiles

The rows are works, with two images, and users, with one picture; `table` says
which. `row`, `status` and `rowLock` are MySQL as committed plus the row locks; `drive`
the files; a request walks through the image slots (`SlotKept, SlotUploaded,
SlotRefused, SlotFails, SlotCleared` and `SetNull, SlotPanics`), writes the row
(`WriteRow`, `WriteFails`), commits (`Commit`, `CommitFails`) or rolls back, and
then deletes files one by one (`Tidy`). `old` is what `FindById` returned at the
start, a snapshot that other transactions overtake. A read (`StartRead, Look,
NotFound, AnswerRead`) is the row and then the drive, image by image. Works and
users share all this; a user is created without a picture, and may register again
(`StartRegister`), which deletes no old picture. `NotFound` has two causes, as any error of
`gdrive.GetFile` is answered with the same "not found": the file is not there, or the
call failed; `refused` tells the two apart.

* `NamedFilesExist`: no deletion hits a file that a row names, except by a
  transaction that deletes the image first (`delete_image = "yes"`) and does not
  commit, or by a commit whose answer was lost (`spoilt`). The first needs no
  fault: a request that clears one image and sends a file that is no image for
  the other slot rolls back and leaves the row with a missing image.
* `NotFoundMeansReplaced`: a read of which no call failed is answered "not found" only
  if the image was replaced between its two steps, or is `spoilt`. A client cannot
  tell this answer from that to a failed call, which it also gets for an image that is
  there.
* `NoStrays`: no file is left for nobody, except by a failed call, a restart, an
  update that was overtaken or a user who registers again (`stray`).

The rows by themselves keep to what `WithTrx` promises (`RowTrx`), see `Trx`: what can
go wrong here is between them and the drive.

### PasswordReset

`stored` holds the token keys in Redis, `mailed` the links that reached a user,
`password`, `deleted` and `rowLock` the row. A request for a link is
`StartForgot, StoreLink, MailLink`; a reset is `StartReset, GetLink, BurnLink,
Find, Update, MailPassword, Commit`; `StartChange`, `StartRegister` and
`StartDelete` are the other writers of the row and meet the reset in `Update`.
Errors of GET and DEL do what the code makes of them: only "no such key" ends a
reset. Which of its random values a password is does not matter; an email is
something every user may have; a hash stands for its password.

History variables: `told` is the password by the last mail or change; `uses`
counts the resets committed with a token; `leaked` and `spoilt` collect the
exceptions below, exactly where they arise.

* `LinkOnce`: a link resets once, except when a GET or DEL of it failed or two
  requests got it before either deleted it (`leaked`).
* `LastToldHolds`: a row that nobody writes holds the password its user was told
  last, although the mail goes out before the commit and ChangePassword compares
  with a row it has not locked; except after a reset that mailed and did not
  commit (`spoilt`): the user then holds a password that never was valid.
* `ImplementsTrx` (with `Accounts`): the writers of the row keep to what `WithTrx`
  promises, see `Trx`.

### Comments

`text[c]` counts how often a comment was written (0: no row), `unread[c]` is its
list in Redis, as a set. A write is `StartCreate` or `StartChange` and `Update`
(the row lock), the query for the administrators (`Query`), then `MarkGet, MarkSet` for
each user `Found`, then `Commit` or `Rollback`. `Audience` are those who have to read
what a user writes. The query is not paged, but it obeys the offset in the URL of
the request that creates or edits the comment (repository/user.go 116-128, general.go
374-396): the first administrators, in whatever order the URL asks for, are not marked.
They are in `left`. Reading is `StartRead` (one query, any page), then for
each comment `Look`, `ClearGet`, `ClearSet`, then `Answer`.

History variables: `due` and `shown` are the newest text a user was marked for
and answered with; `SetList` compares what a SET writes with what the helper
meant to change, and collects the difference in `missed` (dropped) and
`lingering` (back).

* `UnreadUntilShown`: who has to read a text has been answered with it or has
  the comment marked, but for `missed` and for the administrators whom the offset of the
  writer's request `left` out. No fault is needed to be in either; in `missed`, a
  reader who is given the old text, meets the mark of an edit that is about to
  commit and clears it, never learns of the new text.
* `UnreadMeansNew`: a mark means a text not shown yet, but for `lingering`.
* `ImplementsIdSets` (with `RedisLists`): the requests use the lists as `IdSets`
  says, see there.

### WorkList

One request lists works and says of each whether it has a comment the user has
not read: `Find`, `Count`, then for each work `FindComments`, a `Look` per
comment, `NextWork`, and `Answer`; `RequestFails` are the ways to no answer, one
of them an order by a column that comments do not have. Everything else is a
single step here (`Write, Edit, Read, DeleteComment, DeleteWork`), since the
interleavings of those are the matter of `Comments`. Filters let any set of works
through; the order of works and comments may be any, so that an offset leaves any
rows of the right number (`Rest`).

History variables, since the request began: `steady` are the comments that have
been unread all the time, `there` those that have been there at some time, `ever`
those of them that have been unread then or later; `unsure` are works with a
comment whose GET failed, which the code takes for an empty list.

* `FlagMeansUnread`: a flagged work had a comment, not deleted before, that was
  unread while the request ran, although lists of deleted comments stay in Redis.
* `UnreadIsFlagged`: a work with a comment that is unread all the while is
  flagged, unless it is in `unsure` or the request has an offset.
* `CheckCommentUnread`, without the last exception, does **not** hold, see
  Findings.

`ListInv` is the inductive strengthening, proved in `WorksProofs`.

### Paging

A client asks for one page after the other (`Find` and `Count`, the two queries
of a request) until one is not full. Meanwhile rows are written: an insert takes
its id at once (`Insert`) and is seen from its `Commit` on, if no `Rollback` comes
first, so that rows may turn up in the middle of the ids; `Edit` and `Delete` are
one step each, as nothing is seen of them before their commit. Rows have one
column besides the id; a filter is the set of values it lets through; a sort that
ties may come out in any order each time. The module is the text of five
repositories, which differ in the name of the table alone; that deleting a task
leaves its task types alone is not part of it.

History variables: `since` are the rows that were in the list all the time;
`grown`, `shrunk`, `edited` and `tied` tell what happened to the list meanwhile,
`late` that a row came into it before one that was there.

* `NothingMissed`: rows created meanwhile never make a client miss another one.
* `NothingTwice`: rows deleted meanwhile never make it get one twice, nor, in the
  order of the ids, rows created, unless one is committed late.
* `CountsWhatIsShown`: if nobody writes, the count is the number of rows on all
  pages, for every filter, order and limit but 0: the filter is built once for each of
  the two queries. Of a write between the two it says nothing.

### Accounts

`accounts` are the rows by id with what is committed, `held` who holds each. A
request looks things up (`StartCreate, StartRegistration, StartUpdate,
StartDeletion`; what it found is in `call`), sends its statement (`Insert`,
`UpdateRow`) and ends (`CommitRow`, `RollbackRow`, `Restart`). MySQL has no index
that keeps numbers or emails apart, and returns the row with the least id.

History variables: `raced` are numbers and emails that a request found free while
another one was about to give them; `assigned` those given by `Update`, which
does not look them up.

* `OneOwner`: apart from these two cases, a number and an email belong to one
  account at a time, through deletions, rollbacks and restarts.
* `ImplementsTrx`: the requests are transactions as `Trx` has them, see there.

`AccountsInv` is the inductive strengthening, proved in `UsersProofs`.

### Trx

What a service expects of `WithTrx`, for any rows: `stored` is what is committed,
`holder` and `pending` are the transaction that wrote a row and what it wrote.
`Write`, `Commit`, `Rollback` (an error, a panic, a failed COMMIT) and `Restart`
are all there is: a row changes by a commit only, of the request that alone held
it, to what it wrote, with everything else it wrote. Four modules implement it,
each under a mapping that says what of its state is stored and held, and what a
holder has written:

| module | a row | held | written |
|---|---|---|---|
| `Accounts` | an account; an insert that is not committed is no row (`Row`) | `held` | what the statement will have written (`Written`) |
| `PasswordReset` | a user's password and deletion | `rowLock` | `WrittenUser`, from the `Update` to the commit, the mail in between included |
| `Comments` | a comment's text, writer and deletion | `rowLock` | `WrittenComment`, from the statement to the commit, the marks in between included |
| `WorkFiles` | the images and the status of a work or user | `rowLock` | `WrittenRow`: the NULLs that `SetNull` has written, and from `WriteRow` on all columns |

For `Accounts` and `PasswordReset` a run checks this, too (`ImplementsTrx`); of the
other two it is a theorem only.

Two things about `WithTrx` do not show in any of them: its comment says
"rollback and repanic" of a panic, which is turned into an error instead
(trxmanager.go 30-35), and the context keeps the transaction after its end.

### RedisLists and IdSets

`IdSets` is the lists as `Sessions` and `Comments` have them: at each key a set of
ids, and for each request what its last GET returned (`pending`), from which the
SET to the same key is computed. `RedisLists` has the string of one such list as
the sequence of its parts, and goroutines that append and remove by a GET
(`GetValue`) and a SET (`SetAppended`, `SetRemoved`, `SetFails`). What makes the
strings unlike sets: an id may be appended twice, the key may exist and be empty,
and splitting an empty string gives one blank part.

* `ImplementsIdSets`, of the strings (`StringsAreSets`): they do what sets would,
  the operations in between included: what was appended twice is gone when removed
  once, and an emptied list lists nothing. Of the requests of `Comments`
  (`MarksAreSets`): a list changes in no other way than by such a GET and SET, of
  the same key, by a request that is in one helper at a time. The two together are
  what allows `Comments` to have sets. The same of the requests of `Sessions` is a
  theorem (`UuidListsImplementIdSets`), not a property of a run.

### Reports

An export is `FindWorks` and then `PreloadUsers` and `PreloadTypes`, in any
order; a dashboard is one or two `Summarise`; each is a query of its own. Works
are written by requests that have looked up the task type in a step of its own
(`LookUp`, then `Store` or `GiveUp`), so that the type may be deleted meanwhile
(`ChangeType`); users are renamed and deleted (`ChangeUser`). Deletion marks rows
here, and the preloads and joins read marked rows, too.

History variables: `names` are the names each user and type had while the export
ran; `matched` the number of works when the dashboard counted.

* `NamesShown`: each line of an export has the names of its user and task type,
  as they were at some time while it ran.
* `SumsComplete`: the groups of a dashboard add up to the works of its task: no
  join loses a work, whatever was deleted.

### Notifications

A tab is a connection: `Connect` (the token decides whose), `Subscribe`, then the
handler's `ReadCount` and `PublishCount`, which a `Disconnect` does not end. A
request that has written notifications (`Write`) runs PublishNotification:
`Check` (does anybody listen), `Read`, `PublishRead`. Publications of a user's
channel go through Redis in their order, `queue`, and reach the tabs subscribed
by then (`Deliver`). `Start`, `Stop`, `WatcherEnds` and `Exit` are the life of the
process. Two publishers may read one after the other and publish the other way
round: nothing in the code orders them.

The centrifuge library is modelled from how the code uses it: per channel in
order, at most once, to the current subscribers. In the present source no service
calls PublishNotification; `Write` is what a caller would do.

History variables: `version` counts the writes; `overtaken` are users whose last
publication had read less than the one before; `lost` those who missed one.

* `LastCountHolds`: once nothing is under way, each tab shows the number of
  unread notifications, except for `lost` and `overtaken`.
* `TabsAgree`: all tabs of a user show the same number, right or wrong.
* `CentrifugalIsStopped` does **not** hold, see Findings.

## Runs

| run | instance | checks |
|---|---|---|
| `limits` | `LoginAttempt`: 2 keys, 2 goroutines, Max 3, a minute of 1 tick, 1 restart; `IpCheck`: 2 kinds, both loopbacks, 3 goroutines, Max 3, 3 failures | types, `FailuresLock`, `LockServedInFull`, `OverrunBounded`, `AdmissionBounded`, `StuckOnlyByLosses`, `LockLifts`, `RefusalEnds` |
| `login_attempt_lock_duration` | 2 keys, 2 goroutines, Max 2 | violation of `LockLastsItsDuration` |
| `sessions` | 2 users, 2 uuids, 2 goroutines, 1 failure or made up token, which names the user who is no administrator, with any uuid or none | type, `NoSpuriousLogout`, `RevokedStayRefused` |
| `refresh_token` | 1 user, 1 session, 1 made up token with a uuid of no login, 2 refreshers, MaxRefresh 1, 1 failure, 1 error | type, `RefreshBudget`, `ImplementsSessions`, `DeletedFadeOut` |
| `work_files` | 1 row, a work or a user, 4 files, 2 goroutines, 1 fault | type, `NamedFilesExist`, `NotFoundMeansReplaced`, `NoStrays` |
| `users` | `PasswordReset`: 1 user, 2 tokens, 2 passwords, 2 goroutines, 2 failures; `Accounts`: 2 accounts, 2 numbers, 1 email, 2 goroutines, 1 failure | types, `LinkOnce`, `LastToldHolds`, `OneOwner`, `ImplementsTrx` |
| `comments` | `Comments`: 2 comments, 2 texts in all, 2 users, 2 goroutines, 1 failure or offset that leaves the administrator out; `RedisLists`: 2 ids, 2 goroutines, 3 parts | types, `UnreadUntilShown`, `UnreadMeansNew`, `ImplementsIdSets` |
| `paging` | 3 rows, 2 values, limits none (2), 0 and 1 | type, `NothingMissed`, `NothingTwice`, `CountsWhatIsShown` |
| `work_list` | `WorkList`: 2 works, 2 comments, offsets 0 and 1, 1 failure; `Reports`: 1 user, 2 tasks, 2 task types, 2 works, 2 names, offsets 0 and 1, 1 writer of works, 1 change | types, `FlagMeansUnread`, `UnreadIsFlagged`, `NamesShown`, `SumsComplete` |
| `work_list_offset` | the same | violation of `CheckCommentUnread` |
| `notifications` | 1 user, 2 tabs, 2 requests, 2 writes, 2 publications under way, 1 failure | type, `LastCountHolds`, `TabsAgree` |
| `notifications_shutdown` | 1 tab, 1 request, 1 write, no failure | violation of `CentrifugalIsStopped` |

Why the bounds are enough to be interesting: Max 3 has a first, a middle and a
last failure; three requests of one address let two be counted between the INCR
and the EXPIRE of a third, and in the other modules two goroutines already have
each between any two steps of the other; two comments are a work with two, one of
which an offset skips, or two works with one each; Max 3
with three failures fills a counter by losses alone; two uuids are the smallest
lists that can lose an entry while another stays; four files are two for the row
and two to replace them; a list of three parts has an id twice and another one;
two writes and two publishers overtake one another; two task types, one change and
two works are a work whose type is deleted between its lookup and its insert, and
one beside it. With MaxRefresh 1 the second refresh of a session is refused already, and
its DEL comes before or after the INCR of a third. The runs have 6.0 million
distinct states (`sessions`), 4.4 million (`comments`), 3.2 million (`work_files`) and
0.9 million (`refresh_token`). Tokens that clients make up, and offsets that leave an
administrator out, are counted with the failures: one of them, at any moment, is what a
run has. Bounds on failures, faults and
restarts (`MaxRestarts`, `MaxFailures`, `MaxErrors`, `MaxFaults`) only limit how
many there are in a behaviour; the proofs hold for every value of
them.
`CHECK_DEADLOCK FALSE` is given where the system really may stop: every uuid is
used, every work or account deleted, the client has its pages and all rows are
deleted, or the process has ended. Symmetry is used only in runs without a liveness property, and never of users whose roles
matter.

Fairness: time goes on (`Tick`, `IpTick`; in `Sessions` and `RefreshToken` `Expire`, for
each pair of uuid and user). Nothing else is fair: clients need
not call, and a request may hang, since neither the Redis nor the drive calls
have a deadline of their own.

## Proofs

Checked by tlapm without assumptions other than the named ones on constants.

* `LimitsProofs`, of `LoginAttempt`: `IInv` is inductive. `FailuresLock` and
  `LockServedInFull` are not: one needs that the streak is no more than the
  count in the map and the key was seen a minute ago at most (`StreakCounted`),
  the other the same of the lock (`LockKept`), and both that the age of an entry
  is the time its key was quiet (`AgesAgree`): only so no sweep can drop it.
  `OverrunBounded` is inductive with these. Lemmas say what `Touch`, a tick and
  the record updates do, key by key.
* `LimitsProofs`, of `IpCheck`: `AdmissionBounded` and `StuckOnlyByLosses` both follow from
  an account of every value up to Max (`Accounted`): it is held by a request
  that has passed, waits or is lost. `PassedExpires` adds that a counter without
  a time to live has let nobody pass. The counting is done with the cardinality
  lemmas of the library.
* `SessionsProofs`: `RevokedStayRefused` speaks of lists, but a list is only as
  good as what the request that writes it back has read. `RequestUpToDate` says
  that a request between GET and SET has seen what the list still holds, and
  that a revocation has each session marked or still to mark; `Ownership` and
  `RequestOwnership` say whose uuids are where; `Listed` that a session a client
  holds can be found. The first and the last hold modulo `excused` uuids. A logout
excuses the uuid it names when it begins, so that what its token says of the user needs
no proof: the list that it rewrites loses an excused uuid, or none. A step
  of one request keeps what the others know (`StepOf`) if the lists lose
  nothing (`ListsKept`) and gain nothing that an open window has not seen
  (`NothingUnseen`), but for excused uuids: this is what each action lemma shows.
  `UuidListsImplementIdSets`: `LoginGet`, `LogoutGet`, `UnmarkGet` and `MarkGet` are
  `Read`, of the list of a user or of `AUTO_LOGOUT`, the key `NoUser`; their SETs are
  `Write` or, where they fail, `Forget`, and every other step but `Crash` is a stutter.
  It needs that a list found empty is not written back, which is in `RequestOwnership`.
  The module then goes on to `RefreshToken`. `RefreshBudget` is inductive once the
  credit is compared with what it has to pay for: the refreshes that the counter lets
  through yet (`Remaining`) and `MaxRefresh` for each refusal whose DEL is to
  come (`Refusing`, counted by the cardinality lemmas): `CreditCovers`. A step
  of a refresh is `Renew` or a stutter, for which its claims have to be those of some
  token, signed or not (`RefreshTypeOK` has it), and so everything proved of `Spec` holds
  of `RefreshSpec`.

* `UsersProofs`, of `PasswordReset`: `LinkOnce` rests on `Once`, that a token which GET let
  through is with one request alone and, once deleted or used, out of Redis, and
  on `FreshOK`, that no mailed token is stored again. `LastToldHolds` rests on
  the lock: a mail that is not yet committed comes from the request that holds
  the row (`LockOK`), so no commit comes between the two (`ToldOK`).
  `PasswordsImplementTrx` rests on `LockOK` again: a row is held exactly by the
  request whose `Update` has taken it (`LockedByHolder`), so `Update` is `Write`,
  `Commit` is `Commit`, a rollback is `Rollback` or, before the update, a stutter
  (`EndsAreRelease` says what both do to the mapping), and all others stutter.

* `UsersProofs`, of `Accounts`: `OneOwner` speaks of rows that are committed; it holds since
  what a request looked for and found free is still nobody's when it commits, or
  was claimed by another request in between. `StillFree` is the first half,
  `ClaimsShared` the second: two requests with the same claim have put it into
  `raced`. `KnowsRow` ties what a request is about to write to its row, `HeldByOne`
  a row to one request. `AccountsImplementTrx` takes each step to one of `Trx` or
  to a stutter: the lookups stutter, `Insert` and `UpdateRow` are `Write`,
  `CommitRow` is `Commit`, `RollbackRow` is `Rollback` or, before its statement, a
  stutter, `Restart` is `Restart`. It needs that what `Written` says at the
  statement is what it says at the commit, which is the work of the row lock.
* `WorksProofs`, of `WorkList`: `UnreadIsFlagged` is about an answer, `ListInv` about the way
  to it: while the list begins at its start, a steady comment of a work in the
  answer has raised its flag or is yet to be looked at (`YetToFlag`), since all its
  comments were found (`RestIsAll`, by cardinality). `FlagMeansUnread` needs that
  the request looks at comments of one work at a time (`OneWorkAtATime`) and that
  what it has yet to look at has been there (`Observed`), deleted since or not.
* `WorksProofs`, of `Reports`: `NamesShown` needs that, while an export runs, the name
  of today is among those recorded (`LinesOK`), `SumsComplete` that the task type of a
  work is a row, marked deleted or not (`AskedOK` for what is about to be stored), so
  that the joins lose nobody (`AllJoin`), and that a report runs queries of its own kind
  (`LeftOK`). That the groups add up is counted: `Total` is the sum over a
  set of the community modules, a recursive function on the sets of groups; it is unfolded
  by an induction over a set of numbers, from the well-foundedness of `<` alone
  (`AllNumbers`, `SumIsDefined`, `TotalUnfolds`), and the works fall into disjoint groups (`TotalCounts`, `GroupsOfWorks`).
* `CommentsProofs`, of `Comments`: `UnreadUntilShown` speaks of texts that are committed, but their
  marks are set before. `MarksHold` carries a mark from the SET to the commit: whom a
  writer has dealt with is on the list, or missed, for the text to come, since the
  row lock (`HoldsRow`) keeps every other text out. `DueOK` says that whoever has to read
  a text and was not `left` out was marked for it, so a reader who clears a mark that is no newer than the
  text it was given was given the newest (`HasText` in `NobodyForgotten`). `Cleared`
  says what a reader has already taken off, which gives `UnreadMeansNew` at the
  answer. What one request knows survives the steps of the others (`OthersKeep`)
  if no row they hold moves (`RowsStay`) and the lists lose a mark only to `missed`
  and get one back only in `lingering` (`ListsMove`). Two refinements follow.
  `MarksImplementIdSets`: `MarkGet` and `ClearGet` are `Read`, `MarkSet` and `ClearSet`
  are `Write` or, where the SET fails, `Forget`; this needs that a list that was found
  empty is never written back (`Shape`). `CommentsImplementTrx`: `StartCreate` and
  `Update` are `Write`, `Commit` and `Crash` are `Commit` and `Restart`, `Rollback` is
  `Rollback` or a stutter; `HeldByWriter`, proved along with it, is the converse of
  `HoldsRow`.
* `CommentsProofs`, of `RedisLists`: `StringsImplementIdSets` takes each step of a string
  to one of its set of ids. What the helpers do to a string is a loop over its parts, a
  recursive function on their number, unfolded by induction like the sum of `Reports`
  (`LoopIsDefined`); `RemovedKeeps` says which ids it leaves, `AppendedLists` and
  `RemovedLists` what that is as a set, blank parts and repetitions included.
* `NotificationsProofs`: `LastCountHolds` is about a quiet moment, `ToldOK` about all
  others: whoever listens has been told of the last change, unless it is `lost` or
  `overtaken`, or a request is on its way to tell it (`Owed`), or the tab itself is
  about to publish what it has read. `LastOK` says that the last publication, if it is
  of the last change, carries today's number, in the queue or in the tabs that took it
  from there; `MessagesOK`, that what was read and is as new as the last change is today's
  number.
* `PagingProofs`: a place in the list is a rank, the number of rows before it (`Ahead`,
  `PlaceIsRank`), and the whole proof compares ranks with what the pages have left
  behind (`Behind`): a row not yet got has at least as many before it
  (`AheadOfMissed`), one that was got has fewer (`AheadOfGot`), and what was got is as
  much as was left behind (`GotSoFar`). Inserts only raise a rank, deletions only
  lower it; that is all there is to `NothingMissed` and `NothingTwice`.
* `WorkFilesProofs`: `NamedFilesExist` rests on what becomes of a file. What a request
  has uploaded is on the drive and named nowhere before its commit (`UploadedOK`), and
  nobody else has to do with it (`Apart`). A file is named once (`NamedOnce`), and what a
  request has read only where it read it (`OldOK`), so its commit takes the old name
  away before `Tidy` deletes the file, which is then named no more or `spoilt`
  (`TrashOK`). `GoneOK` says what is gone: it gives `NotFoundMeansReplaced`, of readers who were
  `refused` nothing. A step
  of one request keeps what the others know (`OthersKeep`) if rows and drive move
  only as `StoresMove` says and its uploads as `HandsMove` says. `RowsImplementTrx`
  then looks at the rows alone: `SetNull` and `WriteRow` are `Write`, `Commit`, and
  `CommitFails` where only the answer is lost, are `Commit`, and the other ends are
  `Rollback`, or a stutter for a request that has written nothing. `HeldByWriter` says
  who holds a row; that a cleared column is written by `SetNull`, not before, is in
  `Shape`.

* The theorems named `*Typed`, and `UsersImplementTrx` and `CommentsImplementIdSets`, are
  about the specification that a run checks, two modules side by side; they follow from
  the theorems about each, since a step of one leaves the variables of the other alone.

Proving corrected the model in places where TLC had no reason to complain: a conjunct
of `Paging`'s type invariant meant less than it seemed, by the precedence of `=>`, and a
limit may always be left out; `Reports` bounds what is stored and not only who asks, and
has a task type to begin with; the loop of `RemoveUserIdFromKeyRedis` was a selection of
the parts in `RedisLists` and is now the loop itself, and `NoKey` has to be no string; a
reader of `Comments` never writes a list back that it found empty, which no invariant
had said.

Only model-checked: the liveness properties `LockLifts`, `RefusalEnds` and
`DeletedFadeOut`, which need fairness and so `ENABLED`, out of the prover's reach. All
other properties of the passing runs are theorems for every value of the constants.

## Findings

`cleanUpStaleUsers` (login-attempt.go 373-376) drops an entry that was not seen
for a minute even if it is locked. A five-minute lock thus ends after a minute
if the client stays away and another login sweeps the map, against the comments
of the type (216, 222). Run `login_attempt_lock_duration`.

`Find` of work/service.go checks the comments of each work with
`FindByWorkIdArr`, which takes offset and order from the same request
(repository/comment.go 87-88). With an offset of 1 it skips one comment of each
work, and `unread_comment` is false although that one is unread. Run
`work_list_offset`. (An order by a column comments do not have, such as `floor`,
fails the whole request; the model has it as `RequestFails`.)

`InitCentrifugal` starts a goroutine that is to shut the node down when the
context is cancelled, but ranges over `ctx.Done()` (centrifugal.go 187): the channel
is closed without a value, so the loop ends before its body has run, and
"centrifugal is stopped" is never logged. Run `notifications_shutdown`.

Three more things are the code's behaviour in the models, without a run of their own,
and are exceptions in the properties named: `Logout` and `RefreshToken` believe a token
without looking at its signature (`RevokedStayRefused`, `DeletedFadeOut`); a comment that
is written with an offset in the URL marks fewer administrators (`UnreadUntilShown`); and
any error of the drive is answered "not found" (`NotFoundMeansReplaced`).

## Not modelled

Configuration, start-up, logging, mail and drive clients and test endpoints: input
and output. The start-up of the drive looks for its folder and creates it, once and
before any request. The layout of the exported files, dates, sanitizing, file names,
random strings and the helpers that nothing calls: formatting. Websocket channels
named `chat-` can be subscribed to but nothing is published there; presence and
recovery are the library's. Of the modelled components: bcrypt and AES are taken as right or wrong outcomes,
and so is the parsing of a token where the code looks at its error; reads that change nothing are left out, but for
those of `WorkFiles`, `WorkList`, `Paging` and `Reports`.

## Plan

What is left: `Trx` implemented by the users' rows of `Sessions`, whose revocations hold
a row while they mark uuids in Redis.

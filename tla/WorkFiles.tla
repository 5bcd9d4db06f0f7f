------------------------------ MODULE WorkFiles ------------------------------
(***************************************************************************)
(* The images of the work reports and the pictures of the users: rows in    *)
(* MySQL that name files on the drive (internal/app/work/service.go,        *)
(* internal/app/user/service.go, Register of internal/app/auth/service.go). *)
(* An update uploads before it writes the row and deletes what it replaced  *)
(* after the commit; an image that is to go without a new one is deleted on *)
(* the drive inside the transaction.  No transaction spans the two stores:  *)
(* between any two of these steps other requests run, a call fails or the   *)
(* server stops.                                                            *)
(***************************************************************************)
EXTENDS Integers, FiniteSets

CONSTANTS
    Rows,      \* the ids of works and users
    NSlots,    \* image_before and image_after of a work: 2; a user has one picture
    Files,     \* the ids the drive gives, each once
    Requests,  \* the goroutines serving requests
    NoRow, NoRequest,
    NoFile,    \* NULL in a column
    Keep,      \* a nil field of newWorkData: the column is not written
    MaxFaults  \* bound: failing calls and restarts

Slots == 1..NSlots

ASSUME WorkFilesAssumption ==
    /\ NSlots \in Nat \ {0}
    /\ MaxFaults \in Nat
    /\ NoRow \notin Rows
    /\ NoRequest \notin Requests
    /\ NoFile \notin Files
    /\ Keep \notin Files \cup {NoFile}

VARIABLES
    table,    \* the table of each row, which never changes
    row,      \* MySQL, committed: row -> slot -> the file it names or NoFile
    status,   \* MySQL, committed: row -> no row, a row, one with is_delete
    rowLock,  \* MySQL: row -> the request whose transaction has written it
    drive,    \* the files on the drive
    made,     \* the files that were ever uploaded
    req,      \* goroutine -> the request it serves
    faults    \* faults so far

VARIABLES     \* history
    spoilt,   \* files a failed transaction removed under the row naming them
    stray     \* files that a fault or an overtaken update left behind

mysql == <<table, row, status, rowLock>>
files == <<drive, made>>
history == <<spoilt, stray>>
vars == <<table, row, status, rowLock, drive, made, req, faults, spoilt, stray>>

Tables == {"work", "user"}
SlotsOf(t) == IF t = "work" THEN Slots ELSE {1}

\* A request: its kind, the step it is at, the row and its table, the next slot
\* to look at, the images FindById returned, what the columns shall be, the files to
\* delete when the transaction is over, and whether the drive refused it an image.
Request ==
    [kind : {"none", "create", "register", "update", "delete", "read"},
     at : {"idle", "slot", "null", "commit", "tidy", "look", "not found"},
     of : Tables, id : Rows \cup {NoRow}, slot : 1..(NSlots + 1),
     old : [Slots -> Files \cup {NoFile}], new : [Slots -> Files \cup {NoFile, Keep}],
     trash : SUBSET Files, refused : BOOLEAN]

Idle == [kind |-> "none", at |-> "idle", of |-> "user", id |-> NoRow, slot |-> 1,
         old |-> [i \in Slots |-> NoFile], new |-> [i \in Slots |-> Keep], trash |-> {},
         refused |-> FALSE]

TypeOK ==
    /\ table \in [Rows -> Tables]
    /\ row \in [Rows -> [Slots -> Files \cup {NoFile}]]
    /\ \A w \in Rows : \A i \in Slots \ SlotsOf(table[w]) : row[w][i] = NoFile
    /\ status \in [Rows -> {"none", "live", "deleted"}]
    /\ rowLock \in [Rows -> Requests \cup {NoRequest}]
    /\ drive \subseteq made
    /\ made \subseteq Files
    /\ req \in [Requests -> Request]
    /\ faults \in 0..MaxFaults
    /\ spoilt \subseteq Files
    /\ stray \subseteq Files

Init ==
    /\ table \in [Rows -> Tables]
    /\ row = [w \in Rows |-> [i \in Slots |-> NoFile]]
    /\ status = [w \in Rows |-> "none"]
    /\ rowLock = [w \in Rows |-> NoRequest]
    /\ drive = {}
    /\ made = {}
    /\ req = [r \in Requests |-> Idle]
    /\ faults = 0
    /\ spoilt = {}
    /\ stray = {}

-----------------------------------------------------------------------------
\* A call fails, or does not.
Fails == faults < MaxFaults /\ faults' = faults + 1
Works == UNCHANGED faults

Begin(r, kind, t, w, step) ==
    /\ req[r].at = "idle"
    /\ req' = [req EXCEPT ![r] =
                  [Idle EXCEPT !.kind = kind, !.at = step, !.of = t, !.id = w,
                               !.old = IF kind = "create" THEN @ ELSE row[w]]]

\* allFileUploaded, allFileOld, and the images deleted before the commit.
Uploaded(r) == {req[r].new[i] : i \in Slots} \cap Files
Replaced(r) == {req[r].old[i] : i \in {j \in Slots : req[r].new[j] \in Files}} \cap Files
Cleared(r) == {req[r].old[i] : i \in {j \in Slots : req[r].new[j] = NoFile}} \cap Files

Unlocked(r) == [w \in Rows |-> IF rowLock[w] = r THEN NoRequest ELSE rowLock[w]]

\* The row is free for r to write, which locks it.
Lock(r, w) ==
    /\ rowLock[w] \in {NoRequest, r}
    /\ rowLock' = [rowLock EXCEPT ![w] = r]

\* The transaction is over: the files of trash are deleted one by one.
Over(r, trash) == req' = [req EXCEPT ![r] = [Idle EXCEPT !.at = "tidy", !.trash = trash]]

\* Mutant of Rollback: the uploads of a failed transaction stay.
RollbackOnly(r) ==
    /\ rowLock' = Unlocked(r)
    /\ Over(r, {})
    /\ spoilt' = spoilt \cup Cleared(r)
    /\ UNCHANGED <<table, row, status>>

\* The transaction rolls back, and its uploads are to be deleted.
Rollback(r) ==
    /\ rowLock' = Unlocked(r)
    /\ Over(r, Uploaded(r))
    /\ spoilt' = spoilt \cup Cleared(r)
    /\ UNCHANGED <<table, row, status>>

-----------------------------------------------------------------------------
(* The requests: the row is read, and what the request may do is checked.   *)

\* The images of a work, or none.  A user begins without a picture.  There are
\* ids left.
StartCreate(r, t) ==
    /\ \E w \in Rows : table[w] = t /\ status[w] = "none"
    /\ Begin(r, "create", t, NoRow, "slot")
    /\ UNCHANGED <<mysql, files, faults, history>>

\* The user has been created, and may register once more.
StartRegister(r, w) ==
    /\ table[w] = "user" /\ status[w] = "live"
    /\ Begin(r, "register", "user", w, "slot")
    /\ UNCHANGED <<mysql, files, faults, history>>

StartUpdate(r, w) ==
    /\ status[w] = "live"
    /\ Begin(r, "update", table[w], w, "slot")
    /\ UNCHANGED <<mysql, files, faults, history>>

StartDelete(r, w) ==
    /\ status[w] = "live"
    /\ Begin(r, "delete", table[w], w, "slot")
    /\ UNCHANGED <<mysql, files, faults, history>>

-----------------------------------------------------------------------------
(* The slots of a create, a registration or an update, image_before first.  *)

SlotsToDo(r) ==
    IF req[r].kind = "delete" \/ (req[r].kind = "create" /\ req[r].of = "user") THEN {}
    ELSE SlotsOf(req[r].of)

AtSlot(r) == req[r].at = "slot" /\ req[r].slot \in SlotsToDo(r)

\* Mutant of SlotKept: the last slot is not the last.
SlotKeptPastEnd(r) ==
    /\ req[r].at = "slot"
    /\ req' = [req EXCEPT ![r].slot = @ + 1]
    /\ UNCHANGED <<mysql, files, faults, history>>

\* Neither a new image nor delete_image: the column stays.
SlotKept(r) ==
    /\ AtSlot(r)
    /\ req' = [req EXCEPT ![r].slot = @ + 1]
    /\ UNCHANGED <<mysql, files, faults, history>>

\* Mutant of SlotUploaded: the old image is deleted here, not after the commit.
SlotUploadedOver(r, f) ==
    /\ AtSlot(r)
    /\ f \notin made
    /\ drive' = (drive \cup {f}) \ {req[r].old[req[r].slot]}
    /\ made' = made \cup {f}
    /\ req' = [req EXCEPT ![r].new[req[r].slot] = f, ![r].slot = @ + 1]
    /\ UNCHANGED <<mysql, faults, history>>

\* A new image is uploaded.
SlotUploaded(r, f) ==
    /\ AtSlot(r)
    /\ f \notin made
    /\ drive' = drive \cup {f}
    /\ made' = made \cup {f}
    /\ req' = [req EXCEPT ![r].new[req[r].slot] = f, ![r].slot = @ + 1]
    /\ UNCHANGED <<mysql, faults, history>>

\* A task or role of the request is not found, or a file is no image.
SlotRefused(r) ==
    /\ AtSlot(r)
    /\ Rollback(r)
    /\ UNCHANGED <<files, faults, stray>>

\* The upload fails: without a file, or with one whose permission is not set.
SlotFails(r) ==
    /\ AtSlot(r)
    /\ Fails
    /\ \/ UNCHANGED <<files, stray>>
       \/ \E f \in Files \ made : /\ drive' = drive \cup {f}
                                  /\ made' = made \cup {f}
                                  /\ stray' = stray \cup {f}
    /\ Rollback(r)

\* delete_image = "yes": the old image is deleted on the drive at once.  An
\* error is only logged.
SlotCleared(r) ==
    LET f == req[r].old[req[r].slot] IN
        /\ AtSlot(r)
        /\ req[r].kind = "update"
        /\ f # NoFile
        /\ \/ Works /\ drive' = drive \ {f} /\ UNCHANGED stray
           \/ Fails /\ stray' = stray \cup {f} /\ UNCHANGED drive
        /\ req' = [req EXCEPT ![r].new[req[r].slot] = NoFile, ![r].at = "null"]
        /\ UNCHANGED <<mysql, made, spoilt>>

\* ... when there was none: a nil pointer, which WithTrx turns into a rollback.
SlotPanics(r) ==
    /\ AtSlot(r)
    /\ req[r].kind = "update"
    /\ req[r].old[req[r].slot] = NoFile
    /\ Rollback(r)
    /\ UNCHANGED <<files, faults, stray>>

\* UpdateToNull.
SetNull(r) ==
    /\ req[r].at = "null"
    /\ Lock(r, req[r].id)
    /\ req' = [req EXCEPT ![r].at = "slot", ![r].slot = @ + 1]
    /\ UNCHANGED <<table, row, status, files, faults, history>>

-----------------------------------------------------------------------------
(* The end of the transaction.                                              *)

AtWrite(r) == req[r].at = "slot" /\ req[r].slot \notin SlotsToDo(r)

\* INSERT, which gives the row its id, or UPDATE.
WriteRow(r) ==
    /\ AtWrite(r)
    /\ \E w \in Rows :
        /\ IF req[r].kind = "create" THEN status[w] = "none" /\ table[w] = req[r].of
                                     ELSE w = req[r].id
        /\ Lock(r, w)
        /\ req' = [req EXCEPT ![r].at = "commit", ![r].id = w]
    /\ UNCHANGED <<table, row, status, files, faults, history>>

\* A write reports an error, or waits too long for the lock of another.
WriteFails(r) ==
    /\ req[r].at = "null" \/ AtWrite(r)
    /\ Fails \/ (Works /\ req[r].id # NoRow /\ rowLock[req[r].id] \notin {NoRequest, r})
    /\ Rollback(r)
    /\ UNCHANGED <<files, stray>>

\* The columns that r leaves in its work, and what of others it overwrites.
Columns(r) == [i \in Slots |-> IF req[r].new[i] = Keep THEN row[req[r].id][i]
                               ELSE req[r].new[i]]
Overtaken(r) ==
    {row[req[r].id][i] : i \in {j \in Slots : req[r].new[j] # Keep
                                     /\ row[req[r].id][j] # req[r].old[j]}} \cap Files

NewStatus(r) ==
    CASE req[r].kind = "create" -> "live"
      [] req[r].kind = "delete" -> "deleted"
      [] OTHER -> status[req[r].id]

\* What MySQL does when it commits.
CommitRow(r) ==
    LET w == req[r].id IN
        /\ row' = [row EXCEPT ![w] = Columns(r)]
        /\ status' = [status EXCEPT ![w] = NewStatus(r)]
        /\ rowLock' = Unlocked(r)
        /\ UNCHANGED table

\* A registration leaves the picture of the one before on the drive.
Commit(r) ==
    /\ req[r].at = "commit"
    /\ CommitRow(r)
    /\ IF req[r].kind = "register"
       THEN Over(r, {}) /\ stray' = stray \cup Overtaken(r) \cup Replaced(r)
       ELSE Over(r, Replaced(r)) /\ stray' = stray \cup Overtaken(r)
    /\ UNCHANGED <<files, faults, spoilt>>

\* COMMIT reports an error: it was rolled back, or it was done and the answer
\* was lost.  The uploads are deleted in either case.
CommitFails(r) ==
    /\ req[r].at = "commit"
    /\ Fails
    /\ \/ Rollback(r) /\ UNCHANGED stray
       \/ /\ CommitRow(r)
          /\ Over(r, Uploaded(r))
          /\ spoilt' = spoilt \cup Uploaded(r)
          /\ stray' = stray \cup Overtaken(r) \cup Replaced(r)
    /\ UNCHANGED files

-----------------------------------------------------------------------------
\* One file of the trash is deleted; an error is only logged.
Tidy(r) ==
    /\ req[r].at = "tidy"
    /\ \E f \in req[r].trash :
        /\ \/ Works /\ drive' = drive \ {f} /\ UNCHANGED stray
           \/ Fails /\ stray' = stray \cup {f} /\ UNCHANGED drive
        /\ req' = [req EXCEPT ![r].trash = @ \ {f}]
    /\ UNCHANGED <<mysql, made, spoilt>>

Answer(r) ==
    /\ req[r].at = "tidy"
    /\ req[r].trash = {}
    /\ req' = [req EXCEPT ![r] = Idle]
    /\ UNCHANGED <<mysql, files, faults, history>>

-----------------------------------------------------------------------------
(* A request that reads a row asks the drive for its images, one by one.    *)

StartRead(r, w) ==
    /\ status[w] = "live"
    /\ Begin(r, "read", table[w], w, "look")
    /\ UNCHANGED <<mysql, files, faults, history>>

\* The image is there, or the column was NULL.
Look(r) ==
    /\ req[r].at = "look" /\ req[r].slot \in SlotsOf(req[r].of)
    /\ req[r].old[req[r].slot] \in drive \cup {NoFile}
    /\ req' = [req EXCEPT ![r].slot = @ + 1]
    /\ UNCHANGED <<mysql, files, faults, history>>

\* Mutant of NotFound: a column that is NULL is looked for, too.
NotFoundForNull(r) ==
    /\ req[r].at = "look" /\ req[r].slot \in SlotsOf(req[r].of)
    /\ req[r].old[req[r].slot] \notin drive
    /\ req' = [req EXCEPT ![r].at = "not found"]
    /\ UNCHANGED <<mysql, files, faults, history>>

\* The image is not there, or the call fails: the answer is "not found" in either case.
NotFound(r) ==
    /\ req[r].at = "look" /\ req[r].slot \in SlotsOf(req[r].of)
    /\ req[r].old[req[r].slot] # NoFile
    /\ \/ /\ Works /\ req[r].old[req[r].slot] \notin drive
          /\ req' = [req EXCEPT ![r].at = "not found"]
       \/ Fails /\ req' = [req EXCEPT ![r].at = "not found", ![r].refused = TRUE]
    /\ UNCHANGED <<mysql, files, history>>

\* The answer goes out.
AnswerRead(r) ==
    /\ \/ req[r].at = "not found"
       \/ req[r].at = "look" /\ req[r].slot \notin SlotsOf(req[r].of)
    /\ req' = [req EXCEPT ![r] = Idle]
    /\ UNCHANGED <<mysql, files, faults, history>>

\* The server restarts: MySQL rolls back, nothing is deleted on the drive.
Crash ==
    /\ Fails
    /\ req' = [r \in Requests |-> Idle]
    /\ rowLock' = [w \in Rows |-> NoRequest]
    /\ spoilt' = spoilt \cup UNION {Cleared(r) : r \in Requests}
    /\ stray' = stray \cup UNION {Uploaded(r) \cup req[r].trash : r \in Requests}
    /\ UNCHANGED <<table, row, status, files>>

Serve(r) ==
    \/ \E t \in Tables : StartCreate(r, t)
    \/ \E w \in Rows : StartRegister(r, w) \/ StartUpdate(r, w) \/ StartDelete(r, w)
    \/ \E f \in Files : SlotUploaded(r, f)
    \/ SlotKept(r) \/ SlotRefused(r) \/ SlotFails(r)
    \/ SlotCleared(r) \/ SlotPanics(r) \/ SetNull(r)
    \/ WriteRow(r) \/ WriteFails(r) \/ Commit(r) \/ CommitFails(r)
    \/ Tidy(r) \/ Answer(r)
    \/ (\E w \in Rows : StartRead(r, w)) \/ Look(r) \/ NotFound(r) \/ AnswerRead(r)

Next == (\E r \in Requests : Serve(r)) \/ Crash

Spec == Init /\ [][Next]_vars

-----------------------------------------------------------------------------
(* Properties.                                                              *)

Named == {row[w][i] : w \in Rows, i \in Slots} \cap Files
InHands == UNION {Uploaded(r) \cup req[r].trash : r \in Requests}

\* However updates of one work overlap, the deletions after a commit and the
\* deletions after a rollback never hit a file that a row names.  A row names
\* a missing file, which FindById then answers with "not found", only
\* while or after a transaction that deleted the image first and did not
\* commit, or after a commit whose answer was lost (work/service.go 443-453,
\* 482-492, 499-514).
NamedFilesExist ==
    Named \subseteq drive \cup spoilt \cup UNION {Cleared(r) : r \in Requests}

\* A reader whom the drive refuses no image is told "not found" only if the image
\* it read of was replaced meanwhile or is one of the exceptions above: no row that
\* stays as it is loses an image.  Any error of the drive is answered the same way
\* (work/service.go 300-303, 335-352, user/service.go 188-190).
NotFoundMeansReplaced ==
    \A r \in Requests : req[r].at = "not found" /\ ~req[r].refused =>
        LET f == req[r].old[req[r].slot] IN
            \/ row[req[r].id][req[r].slot] # f
            \/ f \in spoilt \cup UNION {Cleared(q) : q \in Requests}

\* No file is left on the drive for nobody, except by a failed call, a restart,
\* an update that overwrites a column which changed since it was read, or a
\* user who registers again (work/service.go 434-442, 499-514,
\* auth/service.go 408-431).
NoStrays == drive \subseteq Named \cup InHands \cup stray

\* What makes these inductive.  For each request: its state at each step, in which
\* it has dealt with the slots before req[r].slot; what it read is named where it
\* was read, if at all; what it uploaded is on the drive and named nowhere; what
\* it is to delete is no longer named; and what it cleared and what it found
\* missing is gone.
Olds(r) == {req[r].old[i] : i \in Slots} \cap Files

Shape(q) ==
    /\ q.id \in Rows => table[q.id] = q.of
    /\ q.id = NoRow => q.kind \in {"none", "create"} /\ q.at \in {"idle", "slot", "tidy"}
    /\ q.kind = "create" => \A i \in Slots : q.old[i] = NoFile
    /\ \A i \in Slots : q.new[i] # Keep =>
          /\ i \in SlotsOf(q.of) /\ q.at \in {"slot", "null", "commit"}
          /\ i < q.slot \/ (q.at = "null" /\ i = q.slot /\ q.new[i] = NoFile)
    /\ q.at = "null" => q.slot \in SlotsOf(q.of)
    /\ q.at # "tidy" => q.trash = {}

OldOK(r) ==
    LET q == req[r] IN
        /\ Olds(r) \subseteq made
        /\ \A i \in Slots, w \in Rows, j \in Slots :
              q.old[i] \in Files /\ row[w][j] = q.old[i] => w = q.id /\ j = i

UploadedOK(r) ==
    LET q == req[r] IN
        /\ Uploaded(r) \subseteq drive \ Named
        /\ \A i, j \in Slots : q.new[i] \in Files /\ q.new[j] = q.new[i] => i = j

TrashOK(r) ==
    /\ req[r].trash \subseteq made
    /\ req[r].trash \cap Named \subseteq spoilt

GoneOK(r) ==
    LET q == req[r] IN
        /\ Cleared(r) \cap drive \subseteq stray
        /\ q.at = "not found" /\ ~q.refused =>
              q.slot \in Slots /\ q.old[q.slot] \in Files \ drive

RequestInv(r) == Shape(req[r]) /\ OldOK(r) /\ UploadedOK(r) /\ TrashOK(r) /\ GoneOK(r)

\* No file is named twice, and what one request uploaded no other has to do with.
NamedOnce ==
    /\ Named \subseteq made
    /\ \A w, v \in Rows, i, j \in Slots :
          row[w][i] \in Files /\ row[v][j] = row[w][i] => w = v /\ i = j

Apart ==
    \A r, q \in Requests :
        /\ Uploaded(r) \cap (Olds(q) \cup req[q].trash) = {}
        /\ r # q => Uploaded(r) \cap Uploaded(q) = {}

IInv ==
    /\ TypeOK /\ \A r \in Requests : RequestInv(r)
    /\ NamedOnce /\ Apart /\ NamedFilesExist /\ NoStrays

-----------------------------------------------------------------------------
(* What WorkFiles implements.                                               *)

\* A row is held by who has written it, be it a NULL, to its commit.
HeldByWriter ==
    /\ \A w \in Rows, r \in Requests :
          rowLock[w] = r => /\ req[r].id = w /\ req[r].at \in {"slot", "null", "commit"}
                            /\ req[r].kind = "create" => req[r].at = "commit"
    /\ \A r \in Requests :
          /\ req[r].at = "null" => req[r].kind = "update"
          /\ req[r].at = "commit" => req[r].id \in Rows /\ rowLock[req[r].id] = r

\* What is stored of a row, who holds it, and what its holder has written: the
\* columns set to NULL before the statement at the end, then all the others.
StoredRow(w) == [images |-> row[w], status |-> status[w]]

Written(r, i) ==
    IF req[r].at = "commit" THEN req[r].new[i] # Keep
    ELSE req[r].new[i] = NoFile /\ i < req[r].slot

WrittenRow(r) ==
    [images |-> [i \in Slots |-> IF Written(r, i) THEN req[r].new[i] ELSE row[req[r].id][i]],
     status |-> IF req[r].at = "commit" THEN NewStatus(r) ELSE status[req[r].id]]

StoredRows == [w \in Rows |-> StoredRow(w)]
RowHolders == [w \in Rows |-> {rowLock[w]} \ {NoRequest}]
PendingRows == [w \in Rows |-> {WrittenRow(r) : r \in {rowLock[w]} \ {NoRequest}}]

WT == INSTANCE Trx WITH
        Values <- [images : [Slots -> Files \cup {NoFile}], status : {"none", "live", "deleted"}],
        stored <- StoredRows, holder <- RowHolders, pending <- PendingRows

\* The columns of a row, in the statements that clear an image and in the one at
\* the end, are stored all at once and by a commit alone, though the drive is not
\* (trxmanager.go 23-46, work/service.go 380-516, work/repository.go).
RowTrx == WT!Spec
=============================================================================

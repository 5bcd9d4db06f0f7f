---------------------------- MODULE WorkFilesProofs ----------------------------
(***************************************************************************)
(* IInv of WorkFiles is inductive, and with it TypeOK, NamedFilesExist,       *)
(* NotFoundMeansReplaced and NoStrays hold, for all sets of rows, files and   *)
(* goroutines, any number of slots and any number of faults.  The rows by      *)
(* themselves implement Trx.                                                *)
(***************************************************************************)
EXTENDS WorkFiles, TLAPS

-----------------------------------------------------------------------------
(* What the helpers give.                                                   *)

LEMMA SlotFacts ==
    /\ NSlots \in Nat /\ 1 \in Slots /\ Slots \subseteq Nat
    /\ \A t : SlotsOf(t) \subseteq Slots
    /\ \A i \in Slots : i + 1 \in 1..(NSlots + 1)
  BY WorkFilesAssumption DEF Slots, SlotsOf

LEMMA IdleFields ==
    /\ Idle \in Request /\ Idle.kind = "none" /\ Idle.at = "idle" /\ Idle.of = "user"
    /\ Idle.id = NoRow /\ Idle.slot = 1 /\ Idle.trash = {}
    /\ \A i \in Slots : Idle.old[i] = NoFile /\ Idle.new[i] = Keep
  BY SlotFacts DEF Idle, Request, Tables

\* A request that is not at work on its slots has no files but its trash.
LEMMA KeepsNothing ==
    ASSUME NEW r, \A i \in Slots : req[r].new[i] = Keep
    PROVE  Uploaded(r) = {} /\ Cleared(r) = {} /\ Replaced(r) = {}
  BY WorkFilesAssumption DEF Uploaded, Cleared, Replaced

LEMMA KeepsNothingNext ==
    ASSUME NEW r, \A i \in Slots : req'[r].new[i] = Keep
    PROVE  Uploaded(r)' = {} /\ Cleared(r)' = {}
  BY WorkFilesAssumption DEF Uploaded, Cleared

LEMMA FaultsStay ==
    ASSUME TypeOK, Works \/ Fails
    PROVE  faults' \in 0..MaxFaults
<1>1. faults \in 0..MaxFaults /\ MaxFaults \in Nat
  BY WorkFilesAssumption DEF TypeOK
<1> QED BY <1>1 DEF Works, Fails

\* Over and Idle: what is left of a request is its trash.
LEMMA EndedInv ==
    ASSUME NEW r \in Requests, NEW at \in {"idle", "tidy"}, NEW trash \in SUBSET Files,
           req'[r] = [Idle EXCEPT !.at = at, !.trash = trash],
           at = "idle" => trash = {}, TrashOK(r)'
    PROVE  /\ RequestInv(r)' /\ Uploaded(r)' = {} /\ Cleared(r)' = {} /\ Olds(r)' = {}
           /\ req'[r].trash = trash /\ req'[r] \in Request
<1> DEFINE v == [Idle EXCEPT !.at = at, !.trash = trash]
<1>1. /\ v \in Request /\ v.kind = "none" /\ v.at = at /\ v.of = "user"
      /\ v.id = NoRow /\ v.trash = trash
      /\ \A i \in Slots : v.old[i] = NoFile /\ v.new[i] = Keep
  BY IdleFields, SlotFacts DEF Idle, Request, Tables
<1> HIDE DEF v
<1>2. /\ \A i \in Slots : req'[r].old[i] = NoFile /\ req'[r].new[i] = Keep
      /\ req'[r].kind = "none" /\ req'[r].at = at /\ req'[r].id = NoRow
      /\ req'[r].trash = trash /\ req'[r] \in Request
  BY <1>1 DEF v
<1>3. Uploaded(r)' = {} /\ Cleared(r)' = {}
  BY <1>2, KeepsNothingNext
<1>4. Olds(r)' = {}
  BY <1>2, WorkFilesAssumption DEF Olds
<1>5. Shape(req[r])'
  BY <1>2, WorkFilesAssumption DEF Shape
<1>6. OldOK(r)' /\ UploadedOK(r)' /\ GoneOK(r)'
  BY <1>2, <1>3, <1>4, WorkFilesAssumption DEF OldOK, UploadedOK, GoneOK
<1> QED BY <1>2, <1>3, <1>4, <1>5, <1>6 DEF RequestInv

LEMMA InitIInv == Init => IInv
<1> SUFFICES ASSUME Init PROVE IInv
  OBVIOUS
<1>1. /\ req = [r \in Requests |-> Idle] /\ drive = {} /\ made = {} /\ spoilt = {} /\ stray = {}
      /\ row = [w \in Rows |-> [i \in Slots |-> NoFile]] /\ table \in [Rows -> Tables]
  BY DEF Init
<1>2. Named = {}
  BY <1>1, WorkFilesAssumption DEF Named
<1>3. ASSUME NEW r \in Requests
      PROVE  RequestInv(r) /\ Uploaded(r) = {} /\ Olds(r) = {} /\ req[r].trash = {}
  <2>1. req[r] = Idle
    BY <1>1
  <2>2. Uploaded(r) = {} /\ Cleared(r) = {}
    BY <2>1, IdleFields, KeepsNothing
  <2>3. Olds(r) = {}
    BY <2>1, IdleFields, WorkFilesAssumption DEF Olds
  <2>4. Shape(req[r])
    BY <2>1, IdleFields, WorkFilesAssumption DEF Shape
  <2>5. OldOK(r) /\ UploadedOK(r) /\ TrashOK(r) /\ GoneOK(r)
    BY <2>1, <2>2, <2>3, IdleFields, WorkFilesAssumption DEF OldOK, UploadedOK, TrashOK, GoneOK
  <2> QED BY <2>1, <2>2, <2>3, <2>4, <2>5, IdleFields DEF RequestInv
<1>4. TypeOK
  BY <1>1, IdleFields, WorkFilesAssumption DEF Init, TypeOK
<1>5. NamedOnce
  BY <1>1, <1>2, WorkFilesAssumption DEF NamedOnce
<1>6. Apart /\ NamedFilesExist /\ NoStrays
  BY <1>1, <1>2, <1>3 DEF Apart, NamedFilesExist, NoStrays
<1> QED BY <1>3, <1>4, <1>5, <1>6 DEF IInv

-----------------------------------------------------------------------------
(* What a step of r may do for the others to keep what they know: it lets them *)
(* alone; the drive gains new files only and loses nothing they uploaded; a row   *)
(* gets no names but of files that r uploaded.  And r itself comes by a file     *)
(* only by uploading it, by reading a row or by taking it from one of its hands   *)
(* into the other.                                                          *)

OthersStay(r) == \A q \in Requests \ {r} : req'[q] = req[q]

StoresMove(r) ==
    /\ table' = table
    /\ made \subseteq made' /\ spoilt \subseteq spoilt' /\ stray \subseteq stray'
    /\ drive' \cap made \subseteq drive
    /\ \A q \in Requests \ {r} : Uploaded(q) \subseteq drive'
    /\ \A w \in Rows, i \in Slots :
          row'[w][i] \in Files => row'[w][i] = row[w][i] \/ row'[w][i] \in Uploaded(r)

HandsMove(r) ==
    /\ Uploaded(r)' \subseteq Uploaded(r) \cup (made' \ made)
    /\ Olds(r)' \subseteq Olds(r) \cup Named
    /\ req'[r].trash \subseteq req[r].trash \cup Olds(r) \cup Uploaded(r)

LEMMA NamedIs ==
    \A f : f \in Named <=> f \in Files /\ \E w \in Rows, i \in Slots : row[w][i] = f
  BY DEF Named

LEMMA NamedIsNext ==
    \A f : f \in Named' <=> f \in Files /\ \E w \in Rows, i \in Slots : row'[w][i] = f
  BY DEF Named

LEMMA SamePossessions ==
    ASSUME NEW r, NEW q \in Requests \ {r}, OthersStay(r)
    PROVE  /\ Uploaded(q)' = Uploaded(q) /\ Olds(q)' = Olds(q) /\ Cleared(q)' = Cleared(q)
           /\ req'[q] = req[q]
  BY DEF OthersStay, Uploaded, Olds, Cleared

LEMMA NamesMove ==
    ASSUME NEW r, StoresMove(r)
    PROVE  Named' \subseteq Named \cup Uploaded(r)
  BY NamedIs, NamedIsNext DEF StoresMove

LEMMA OthersKeep ==
    ASSUME IInv, NEW r \in Requests, OthersStay(r), StoresMove(r)
    PROVE  \A q \in Requests \ {r} : RequestInv(q)'
<1> SUFFICES ASSUME NEW q \in Requests \ {r} PROVE RequestInv(q)'
  OBVIOUS
<1>1. /\ req'[q] = req[q] /\ req[q] \in Request /\ RequestInv(q)
      /\ Uploaded(q)' = Uploaded(q) /\ Olds(q)' = Olds(q) /\ Cleared(q)' = Cleared(q)
  BY SamePossessions DEF IInv, TypeOK
<1>2. /\ Uploaded(r) \cap Olds(q) = {} /\ Uploaded(r) \cap req[q].trash = {}
      /\ Uploaded(r) \cap Uploaded(q) = {}
  BY DEF IInv, Apart
<1>3. Named' \subseteq Named \cup Uploaded(r)
  BY NamesMove
<1>4. drive \subseteq made
  BY DEF IInv, TypeOK
<1>5. Shape(req[q])'
  BY <1>1 DEF RequestInv, Shape, StoresMove
<1>6. OldOK(q)'
  <2>1. Olds(q)' \subseteq made'
    BY <1>1 DEF RequestInv, OldOK, StoresMove
  <2>2. ASSUME NEW i \in Slots, NEW w \in Rows, NEW j \in Slots,
               req[q].old[i] \in Files, row'[w][j] = req[q].old[i]
        PROVE  w = req[q].id /\ j = i
    <3>1. req[q].old[i] \in Olds(q)
      BY <2>2 DEF Olds
    <3>2. row[w][j] = req[q].old[i]
      BY <1>2, <2>2, <3>1 DEF StoresMove
    <3> QED BY <1>1, <2>2, <3>2 DEF RequestInv, OldOK
  <2> QED BY <1>1, <2>1, <2>2 DEF OldOK
<1>7. UploadedOK(q)'
  <2>1. Uploaded(q) \subseteq drive' \ Named'
    BY <1>1, <1>2, <1>3 DEF RequestInv, UploadedOK, StoresMove
  <2> QED BY <1>1, <2>1 DEF RequestInv, UploadedOK
<1>8. TrashOK(q)'
  BY <1>1, <1>2, <1>3 DEF RequestInv, TrashOK, StoresMove
<1>9. GoneOK(q)'
  <2>1. Cleared(q) \subseteq Olds(q) /\ Olds(q) \subseteq made
    BY <1>1 DEF Cleared, Olds, RequestInv, OldOK
  <2>2. Cleared(q) \cap drive' \subseteq stray'
    BY <1>1, <2>1 DEF RequestInv, GoneOK, StoresMove
  <2>3. req[q].at = "not found" /\ ~req[q].refused =>
          req[q].slot \in Slots /\ req[q].old[req[q].slot] \in Files \ drive'
    <3> SUFFICES ASSUME req[q].at = "not found", ~req[q].refused
                 PROVE  req[q].slot \in Slots /\ req[q].old[req[q].slot] \in Files \ drive'
      OBVIOUS
    <3>1. req[q].slot \in Slots /\ req[q].old[req[q].slot] \in Files \ drive
      BY <1>1 DEF RequestInv, GoneOK
    <3>2. req[q].old[req[q].slot] \in made
      BY <2>1, <3>1 DEF Olds
    <3> QED BY <3>1, <3>2 DEF StoresMove
  <2> QED BY <1>1, <2>2, <2>3 DEF GoneOK
<1> QED BY <1>5, <1>6, <1>7, <1>8, <1>9 DEF RequestInv

LEMMA ApartKeeps ==
    ASSUME IInv, NEW r \in Requests, OthersStay(r), HandsMove(r),
           RequestInv(r)'
    PROVE  Apart'
<1>1. \A p \in Requests : /\ Uploaded(p) \subseteq made \ Named
                          /\ Olds(p) \subseteq made /\ req[p].trash \subseteq made
  BY DEF IInv, TypeOK, RequestInv, OldOK, UploadedOK, TrashOK
<1>2. /\ Named \subseteq made
      /\ \A p, q \in Requests : /\ Uploaded(p) \cap (Olds(q) \cup req[q].trash) = {}
                                /\ p # q => Uploaded(p) \cap Uploaded(q) = {}
  BY DEF IInv, NamedOnce, Apart
<1>3. \A q \in Requests \ {r} : /\ Uploaded(q)' = Uploaded(q) /\ Olds(q)' = Olds(q)
                               /\ req'[q].trash = req[q].trash
  BY SamePossessions
<1>4. req'[r].trash = {} \/ Uploaded(r)' = {}
  <2>1. CASE req'[r].at = "tidy"
    <3>1. \A i \in Slots : req'[r].new[i] = Keep
      BY <2>1 DEF RequestInv, Shape
    <3> QED BY <3>1, KeepsNothingNext
  <2>2. CASE req'[r].at # "tidy"
    BY <2>2 DEF RequestInv, Shape
  <2> QED BY <2>1, <2>2
<1> SUFFICES ASSUME NEW p \in Requests, NEW q \in Requests
             PROVE  /\ Uploaded(p)' \cap (Olds(q)' \cup req'[q].trash) = {}
                    /\ p # q => Uploaded(p)' \cap Uploaded(q)' = {}
  BY DEF Apart
<1>5. CASE p # r /\ q # r
  BY <1>2, <1>3, <1>5
<1>6. CASE p = r /\ q # r
  BY <1>1, <1>2, <1>3, <1>6 DEF HandsMove
<1>7. CASE p # r /\ q = r
  BY <1>1, <1>2, <1>3, <1>7 DEF HandsMove
<1>8. CASE p = r /\ q = r
  BY <1>1, <1>2, <1>4, <1>8 DEF HandsMove
<1> QED BY <1>5, <1>6, <1>7, <1>8

\* With that, a step keeps IInv if a name that is new has its file, a file that goes is
\* not named or is excused, and one that stays is still named or in somebody's hands.
LEMMA StepKeeps ==
    ASSUME IInv, TypeOK', NEW r \in Requests, OthersStay(r), StoresMove(r), HandsMove(r),
           RequestInv(r)', NamedOnce',
           Named' \ Named \subseteq drive' \cup spoilt',
           Named' \cap (drive \cup Cleared(r)) \subseteq drive' \cup spoilt' \cup Cleared(r)',
           drive' \ drive \subseteq Uploaded(r)' \cup stray',
           (Named \cup Uploaded(r) \cup req[r].trash) \cap drive'
              \subseteq Named' \cup Uploaded(r)' \cup req'[r].trash \cup stray'
    PROVE  IInv'
<1>1. \A q \in Requests : RequestInv(q)'
  BY OthersKeep
<1>2. Apart'
  BY ApartKeeps
<1>3. \A q \in Requests \ {r} : /\ Uploaded(q)' = Uploaded(q) /\ Cleared(q)' = Cleared(q)
                               /\ req'[q] = req[q]
  BY SamePossessions
<1>4. NamedFilesExist'
  <2> SUFFICES ASSUME NEW f \in Named'
               PROVE  f \in drive' \cup spoilt' \/ \E q \in Requests : f \in Cleared(q)'
    BY DEF NamedFilesExist
  <2>1. \/ f \in Named' \ Named
        \/ f \in drive \cup spoilt
        \/ \E q \in Requests : f \in Cleared(q)
    BY DEF IInv, NamedFilesExist
  <2> QED BY <1>3, <2>1 DEF StoresMove
<1>5. NoStrays'
  <2> SUFFICES ASSUME NEW f \in drive', f \notin stray'
               PROVE  f \in Named' \/ \E q \in Requests : f \in Uploaded(q)' \cup req'[q].trash
    BY DEF NoStrays, InHands
  <2>1. CASE f \notin drive
    BY <2>1
  <2>2. CASE f \in drive
    <3>1. f \in Named \/ \E q \in Requests : f \in Uploaded(q) \cup req[q].trash
      BY <2>2 DEF IInv, NoStrays, InHands, StoresMove
    <3> QED BY <1>3, <3>1
  <2> QED BY <2>1, <2>2
<1> QED BY <1>1, <1>2, <1>4, <1>5 DEF IInv

LEMMA NamesStay ==
    ASSUME IInv, row' = row, made \subseteq made'
    PROVE  Named' = Named /\ NamedOnce'
<1>1. Named' = Named
  BY DEF Named
<1> QED BY <1>1 DEF IInv, NamedOnce

\* A step of r that moves no file.
LEMMA QuietKeeps ==
    ASSUME IInv, TypeOK', NEW r \in Requests, OthersStay(r),
           table' = table, row' = row, drive' = drive, made' = made,
           spoilt' = spoilt, stray' = stray,
           Uploaded(r)' = Uploaded(r), Cleared(r)' = Cleared(r),
           req'[r].trash = req[r].trash, Olds(r)' \subseteq Olds(r) \cup Named,
           RequestInv(r)'
    PROVE  IInv'
<1>1. Named' = Named /\ NamedOnce'
  BY NamesStay
<1>2. StoresMove(r) /\ HandsMove(r)
  BY DEF StoresMove, HandsMove, IInv, RequestInv, UploadedOK
<1>3. Named \subseteq drive \cup spoilt \cup UNION {Cleared(q) : q \in Requests}
  BY DEF IInv, NamedFilesExist
<1> QED BY <1>1, <1>2, <1>3, StepKeeps

\* The transaction of r is over: its uploads, or nothing, are trash.
LEMMA RollbackKeeps ==
    ASSUME IInv, NEW r \in Requests, Rollback(r), faults' \in 0..MaxFaults,
           made \subseteq made', made' \subseteq Files, drive \subseteq drive',
           drive' \subseteq made', drive' \cap made \subseteq drive,
           stray \subseteq stray', stray' \subseteq Files,
           drive' \ drive \subseteq stray', req[r].trash = {}
    PROVE  IInv'
<1>1. TypeOK /\ RequestInv(r) /\ Uploaded(r) \subseteq Files /\ Cleared(r) \subseteq Files
  BY DEF IInv, Uploaded, Cleared
<1>2. /\ table' = table /\ row' = row /\ status' = status /\ rowLock' = Unlocked(r)
      /\ req' = [req EXCEPT ![r] = [Idle EXCEPT !.at = "tidy", !.trash = Uploaded(r)]]
      /\ spoilt' = spoilt \cup Cleared(r)
  BY DEF Rollback, Over
<1>3. Named' = Named /\ NamedOnce'
  BY <1>2, NamesStay
<1>4. /\ req'[r] = [Idle EXCEPT !.at = "tidy", !.trash = Uploaded(r)]
      /\ OthersStay(r) /\ req \in [Requests -> Request]
  BY <1>1, <1>2 DEF TypeOK, OthersStay
<1>5. req'[r].trash = Uploaded(r)
  BY <1>4, IdleFields DEF Idle
<1>6. TrashOK(r)'
  BY <1>1, <1>3, <1>5 DEF TrashOK, RequestInv, UploadedOK, TypeOK
<1>7. /\ RequestInv(r)' /\ Uploaded(r)' = {} /\ Cleared(r)' = {} /\ Olds(r)' = {}
      /\ req'[r] \in Request
  BY <1>1, <1>4, <1>6, EndedInv
<1>8. TypeOK'
  <2>1. rowLock' \in [Rows -> Requests \cup {NoRequest}]
    BY <1>1, <1>2 DEF TypeOK, Unlocked
  <2>2. req' \in [Requests -> Request]
    BY <1>2, <1>4, <1>7
  <2> QED BY <1>1, <1>2, <2>1, <2>2 DEF TypeOK
<1>9. StoresMove(r) /\ HandsMove(r)
  BY <1>2, <1>5, <1>7 DEF StoresMove, HandsMove, IInv, RequestInv, UploadedOK
<1> QED BY <1>2, <1>3, <1>4, <1>5, <1>7, <1>8, <1>9, StepKeeps

-----------------------------------------------------------------------------
(* The requests begin.                                                      *)

LEMMA BeginKeeps ==
    ASSUME IInv, NEW r \in Requests, NEW t \in Tables, NEW w \in Rows \cup {NoRow},
           NEW kind \in {"create", "register", "update", "delete", "read"},
           NEW step \in {"slot", "look"}, Begin(r, kind, t, w, step),
           w \in Rows => table[w] = t, w = NoRow <=> kind = "create",
           w = NoRow => step = "slot", UNCHANGED <<mysql, files, faults, history>>
    PROVE  IInv'
<1> DEFINE old == IF kind = "create" THEN Idle.old ELSE row[w]
           v == [Idle EXCEPT !.kind = kind, !.at = step, !.of = t, !.id = w, !.old = old]
<1>1. /\ table' = table /\ row' = row /\ status' = status /\ rowLock' = rowLock
      /\ drive' = drive /\ made' = made /\ faults' = faults
      /\ spoilt' = spoilt /\ stray' = stray
  BY DEF mysql, files, history
<1>2. TypeOK /\ RequestInv(r) /\ req[r].at = "idle" /\ req' = [req EXCEPT ![r] = v]
  BY DEF IInv, Begin
<1>3. /\ old \in [Slots -> Files \cup {NoFile}]
      /\ kind = "create" => \A i \in Slots : old[i] = NoFile
      /\ kind # "create" => w \in Rows /\ old = row[w]
  BY <1>2, IdleFields DEF TypeOK, Idle
<1> HIDE DEF old
<1>4. /\ v \in Request /\ v.kind = kind /\ v.at = step /\ v.of = t /\ v.id = w /\ v.old = old
      /\ v.slot = 1 /\ v.trash = {} /\ \A i \in Slots : v.new[i] = Keep
  BY <1>3, IdleFields, SlotFacts DEF Idle, Request
<1> HIDE DEF v
<1>5. /\ req' \in [Requests -> Request] /\ req'[r] = v /\ OthersStay(r)
  BY <1>2, <1>4 DEF TypeOK, OthersStay
<1>6. /\ \A i \in Slots : req[r].new[i] = Keep
      /\ req[r].trash = {}
  BY <1>2 DEF RequestInv, Shape
<1>7. /\ Uploaded(r) = {} /\ Cleared(r) = {} /\ Uploaded(r)' = {} /\ Cleared(r)' = {}
  BY <1>4, <1>5, <1>6, KeepsNothing, KeepsNothingNext
<1>8. TypeOK'
  BY <1>1, <1>2, <1>5 DEF TypeOK
<1>9. Olds(r)' \subseteq Named
  BY <1>3, <1>4, <1>5, WorkFilesAssumption DEF Olds, Named
<1>10. RequestInv(r)'
  <2>1. Shape(req[r])'
    BY <1>1, <1>3, <1>4, <1>5, WorkFilesAssumption DEF Shape
  <2>2. OldOK(r)'
    <3>1. Olds(r)' \subseteq made'
      BY <1>1, <1>9 DEF IInv, NamedOnce
    <3>2. ASSUME NEW i \in Slots, NEW x \in Rows, NEW j \in Slots,
                 old[i] \in Files, row[x][j] = old[i]
          PROVE  x = w /\ j = i
      BY <1>3, <3>2, WorkFilesAssumption DEF IInv, NamedOnce
    <3> QED BY <1>1, <1>4, <1>5, <3>1, <3>2 DEF OldOK
  <2>3. UploadedOK(r)' /\ TrashOK(r)' /\ GoneOK(r)'
    BY <1>4, <1>5, <1>7, WorkFilesAssumption DEF UploadedOK, TrashOK, GoneOK
  <2> QED BY <2>1, <2>2, <2>3 DEF RequestInv
<1> QED BY <1>1, <1>4, <1>5, <1>6, <1>7, <1>8, <1>9, <1>10, QuietKeeps

LEMMA StartsKeep ==
    ASSUME IInv, NEW r \in Requests,
           \/ \E t \in Tables : StartCreate(r, t)
           \/ \E w \in Rows : \/ StartRegister(r, w) \/ StartUpdate(r, w)
                              \/ StartDelete(r, w) \/ StartRead(r, w)
    PROVE  IInv'
<1>1. TypeOK
  BY DEF IInv
<1>2. CASE \E t \in Tables : StartCreate(r, t)
  BY <1>2, BeginKeeps, WorkFilesAssumption DEF StartCreate
<1>3. CASE \E w \in Rows : StartRegister(r, w)
  BY <1>3, BeginKeeps, WorkFilesAssumption DEF StartRegister, Tables
<1>4. CASE \E w \in Rows : StartUpdate(r, w)
  BY <1>1, <1>4, BeginKeeps, WorkFilesAssumption DEF StartUpdate, TypeOK
<1>5. CASE \E w \in Rows : StartDelete(r, w)
  BY <1>1, <1>5, BeginKeeps, WorkFilesAssumption DEF StartDelete, TypeOK
<1>6. CASE \E w \in Rows : StartRead(r, w)
  BY <1>1, <1>6, BeginKeeps, WorkFilesAssumption DEF StartRead, TypeOK
<1> QED BY <1>2, <1>3, <1>4, <1>5, <1>6

-----------------------------------------------------------------------------
(* The slots.                                                               *)

LEMMA SameColumns ==
    ASSUME NEW r, req'[r].new = req[r].new, req'[r].old = req[r].old
    PROVE  Uploaded(r)' = Uploaded(r) /\ Cleared(r)' = Cleared(r) /\ Olds(r)' = Olds(r)
  BY DEF Uploaded, Cleared, Olds

\* Steps of r that change no image that it knows of.
LEMMA SteppedKeeps ==
    ASSUME IInv, NEW r \in Requests, OthersStay(r), req' \in [Requests -> Request],
           req'[r].new = req[r].new, req'[r].old = req[r].old, req'[r].id = req[r].id,
           req'[r].trash = req[r].trash, req'[r].at \in {"slot", "commit", "look", "not found"},
           req'[r].at = "not found" /\ ~req'[r].refused =>
              req'[r].slot \in Slots /\ req[r].old[req'[r].slot] \in Files \ drive,
           Shape(req[r])', rowLock' \in [Rows -> Requests \cup {NoRequest}],
           faults' \in 0..MaxFaults, UNCHANGED <<table, row, status, files, history>>
    PROVE  IInv'
<1>1. /\ table' = table /\ row' = row /\ status' = status
      /\ drive' = drive /\ made' = made /\ spoilt' = spoilt /\ stray' = stray
  BY DEF files, history
<1>2. TypeOK /\ RequestInv(r) /\ req \in [Requests -> Request] /\ req[r] \in Request
  BY DEF IInv, TypeOK
<1>3. /\ req'[r].new = req[r].new /\ req'[r].old = req[r].old /\ req'[r].id = req[r].id
      /\ req'[r].trash = req[r].trash /\ OthersStay(r)
  OBVIOUS
<1>4. req' \in [Requests -> Request]
  OBVIOUS
<1>5. TypeOK'
  BY <1>1, <1>2, <1>4 DEF TypeOK
<1>6. Uploaded(r)' = Uploaded(r) /\ Cleared(r)' = Cleared(r) /\ Olds(r)' = Olds(r)
  BY <1>3, SameColumns
<1>7. Named' = Named
  BY <1>1, NamesStay
<1>8. OldOK(r)' /\ UploadedOK(r)' /\ TrashOK(r)' /\ GoneOK(r)'
  <2>1. OldOK(r)'
    <3>1. \A i \in Slots, w \in Rows, j \in Slots :
             req[r].old[i] \in Files /\ row[w][j] = req[r].old[i] => w = req[r].id /\ j = i
      BY <1>2 DEF RequestInv, OldOK
    <3>2. Olds(r) \subseteq made
      BY <1>2 DEF RequestInv, OldOK
    <3>3. req'[r].old = req[r].old /\ req'[r].id = req[r].id /\ row' = row
      BY <1>1, <1>3
    <3>4. \A i \in Slots, w \in Rows, j \in Slots :
             req'[r].old[i] \in Files /\ row'[w][j] = req'[r].old[i] => w = req'[r].id /\ j = i
      <4> SUFFICES ASSUME NEW i \in Slots, NEW w \in Rows, NEW j \in Slots,
                          req'[r].old[i] \in Files, row'[w][j] = req'[r].old[i]
                   PROVE  w = req'[r].id /\ j = i
        OBVIOUS
      <4>1. req[r].old[i] \in Files /\ row[w][j] = req[r].old[i]
        BY <3>3
      <4> QED BY <3>1, <3>3, <4>1
    <3>5. Olds(r)' \subseteq made'
      BY <1>1, <1>6, <3>2
    <3> QED BY <3>4, <3>5 DEF OldOK
  <2>2. UploadedOK(r)'
    BY <1>1, <1>2, <1>3, <1>6, <1>7 DEF RequestInv, UploadedOK
  <2>3. TrashOK(r)'
    BY <1>1, <1>2, <1>3, <1>7 DEF RequestInv, TrashOK
  <2>4. GoneOK(r)'
    BY <1>1, <1>2, <1>3, <1>6 DEF RequestInv, GoneOK
  <2> QED BY <2>1, <2>2, <2>3, <2>4
<1> QED BY <1>1, <1>3, <1>5, <1>6, <1>8, QuietKeeps DEF RequestInv

\* Steps that only move r on.
LEMMA MoveOnKeeps ==
    ASSUME IInv, NEW r \in Requests, NEW at \in {"slot", "commit", "look", "not found"},
           NEW slot \in 1..(NSlots + 1),
           req' = [req EXCEPT ![r].at = at, ![r].slot = slot],
           req'[r] \in Request, Shape(req[r])', rowLock' \in [Rows -> Requests \cup {NoRequest}],
           at = "not found" => slot \in Slots /\ req[r].old[slot] \in Files \ drive,
           UNCHANGED <<table, row, status, files, faults, history>>
    PROVE  IInv'
<1>1. /\ req \in [Requests -> Request] /\ req[r] \in Request
      /\ faults' \in 0..MaxFaults /\ UNCHANGED <<table, row, status, files, history>>
  BY DEF IInv, TypeOK
<1>2. /\ req'[r].new = req[r].new /\ req'[r].old = req[r].old /\ req'[r].id = req[r].id
      /\ req'[r].trash = req[r].trash /\ req'[r].at = at /\ req'[r].slot = slot
      /\ OthersStay(r) /\ req' \in [Requests -> Request]
  BY <1>1 DEF Request, OthersStay
<1> QED BY <1>1, <1>2, SteppedKeeps

LEMMA AtSlotFacts ==
    ASSUME IInv, NEW r \in Requests, AtSlot(r)
    PROVE  /\ req[r].at = "slot" /\ req[r].slot \in Slots /\ req[r].slot \in SlotsOf(req[r].of)
           /\ req[r].slot + 1 \in 1..(NSlots + 1) /\ req[r].slot \in Nat
           /\ req[r].new[req[r].slot] = Keep /\ req[r].trash = {}
<1>1. req[r].slot \in SlotsOf(req[r].of) /\ req[r].at = "slot"
  BY DEF AtSlot, SlotsToDo
<1>2. RequestInv(r)
  BY DEF IInv
<1>3. req[r].slot \in Slots /\ req[r].slot \in Nat /\ req[r].slot + 1 \in 1..(NSlots + 1)
  BY <1>1, SlotFacts
<1>4. ~ (req[r].slot < req[r].slot)
  BY <1>3
<1> QED BY <1>1, <1>2, <1>3, <1>4 DEF RequestInv, Shape

LEMMA SlotKeptKeeps ==
    ASSUME IInv, NEW r \in Requests, SlotKept(r)
    PROVE  IInv'
<1>1. TypeOK /\ RequestInv(r) /\ req[r] \in Request
  BY DEF IInv, TypeOK
<1>2. /\ req[r].at = "slot" /\ req[r].slot \in Nat /\ req[r].slot + 1 \in 1..(NSlots + 1)
      /\ \A i \in Slots : i \in Nat
  BY AtSlotFacts, SlotFacts DEF SlotKept
<1>3. req' = [req EXCEPT ![r].at = "slot", ![r].slot = req[r].slot + 1]
  BY <1>1, <1>2 DEF SlotKept, TypeOK, Request
<1>4. UNCHANGED <<table, row, status, rowLock, files, faults, history>>
  BY DEF SlotKept, mysql
<1>5. /\ req'[r] = [req[r] EXCEPT !.at = "slot", !.slot = req[r].slot + 1]
  BY <1>1, <1>3 DEF TypeOK
<1>6. req'[r] \in Request
  BY <1>1, <1>2, <1>5 DEF Request
<1>7. Shape(req[r])'
  <2>1. /\ req'[r].at = "slot" /\ req'[r].slot = req[r].slot + 1
        /\ req'[r].id = req[r].id /\ req'[r].kind = req[r].kind /\ req'[r].of = req[r].of
        /\ req'[r].old = req[r].old /\ req'[r].new = req[r].new /\ req'[r].trash = req[r].trash
    BY <1>1, <1>5 DEF Request
  <2>2. \A i \in Slots : i < req[r].slot => i < req[r].slot + 1
    BY <1>2
  <2> QED BY <1>1, <1>2, <1>4, <2>1, <2>2 DEF RequestInv, Shape
<1>8. rowLock' \in [Rows -> Requests \cup {NoRequest}]
  BY <1>1, <1>4 DEF TypeOK
<1> QED BY <1>2, <1>3, <1>4, <1>6, <1>7, <1>8, MoveOnKeeps

LEMMA LockTypes ==
    ASSUME TypeOK, NEW r \in Requests, NEW w \in Rows, Lock(r, w)
    PROVE  rowLock' \in [Rows -> Requests \cup {NoRequest}]
  BY DEF TypeOK, Lock

LEMMA SetNullKeeps ==
    ASSUME IInv, NEW r \in Requests, SetNull(r)
    PROVE  IInv'
<1>1. TypeOK /\ RequestInv(r) /\ req[r] \in Request /\ req[r].at = "null"
  BY DEF IInv, TypeOK, SetNull
<1>2. /\ req[r].slot \in Nat /\ req[r].slot + 1 \in 1..(NSlots + 1)
      /\ \A i \in Slots : i \in Nat
  BY <1>1, SlotFacts DEF RequestInv, Shape
<1>3. req' = [req EXCEPT ![r].at = "slot", ![r].slot = req[r].slot + 1]
  BY DEF SetNull
<1>4. UNCHANGED <<table, row, status, files, faults, history>>
  BY DEF SetNull
<1>5. req[r].id \in Rows
  BY <1>1 DEF RequestInv, Shape, Request
<1>6. rowLock' \in [Rows -> Requests \cup {NoRequest}]
  BY <1>1, <1>5, LockTypes DEF SetNull
<1>7. req'[r] = [req[r] EXCEPT !.at = "slot", !.slot = req[r].slot + 1]
  BY <1>1, <1>3 DEF TypeOK
<1>8. req'[r] \in Request
  BY <1>1, <1>2, <1>7 DEF Request
<1>9. Shape(req[r])'
  <2>1. /\ req'[r].at = "slot" /\ req'[r].slot = req[r].slot + 1
        /\ req'[r].id = req[r].id /\ req'[r].kind = req[r].kind /\ req'[r].of = req[r].of
        /\ req'[r].old = req[r].old /\ req'[r].new = req[r].new /\ req'[r].trash = req[r].trash
    BY <1>1, <1>7 DEF Request
  <2>2. \A i \in Slots : i < req[r].slot \/ i = req[r].slot => i < req[r].slot + 1
    BY <1>2
  <2> QED BY <1>1, <1>2, <1>4, <2>1, <2>2 DEF RequestInv, Shape
<1> QED BY <1>2, <1>3, <1>4, <1>6, <1>8, <1>9, MoveOnKeeps

\* The upload is named nowhere, nor in anybody else's hands: it is new.
LEMMA SlotUploadedKeeps ==
    ASSUME IInv, NEW r \in Requests, NEW f \in Files, SlotUploaded(r, f)
    PROVE  IInv'
<1> DEFINE q == req[r]
           s == req[r].slot
<1>1. TypeOK /\ RequestInv(r) /\ q \in Request /\ req \in [Requests -> Request]
  BY DEF IInv, TypeOK
<1>2. /\ q.at = "slot" /\ s \in Slots /\ s \in SlotsOf(q.of) /\ s + 1 \in 1..(NSlots + 1)
      /\ s \in Nat /\ q.new[s] = Keep /\ q.trash = {} /\ \A i \in Slots : i \in Nat
  BY AtSlotFacts, SlotFacts DEF SlotUploaded
<1>3. /\ table' = table /\ row' = row /\ status' = status /\ rowLock' = rowLock
      /\ faults' = faults /\ spoilt' = spoilt /\ stray' = stray
      /\ f \notin made /\ drive' = drive \cup {f} /\ made' = made \cup {f}
      /\ req' = [req EXCEPT ![r].new[s] = f, ![r].slot = s + 1]
  BY DEF SlotUploaded, mysql, history
<1>4. /\ req'[r] = [q EXCEPT !.new = [@ EXCEPT ![s] = f], !.slot = s + 1]
      /\ OthersStay(r)
  BY <1>1, <1>3 DEF OthersStay
<1> HIDE DEF q, s
<1>5. /\ req'[r] \in Request
      /\ req'[r].at = "slot" /\ req'[r].slot = s + 1 /\ req'[r].id = q.id
      /\ req'[r].kind = q.kind /\ req'[r].of = q.of /\ req'[r].old = q.old
      /\ req'[r].trash = {} /\ req'[r].new[s] = f
      /\ \A i \in Slots \ {s} : req'[r].new[i] = q.new[i]
  <2> DEFINE new == [q.new EXCEPT ![s] = f]
  <2>1. /\ new \in [Slots -> Files \cup {NoFile, Keep}] /\ new[s] = f
        /\ \A i \in Slots \ {s} : new[i] = q.new[i]
    BY <1>1, <1>2 DEF Request
  <2>2. req'[r] = [q EXCEPT !.new = new, !.slot = s + 1]
    BY <1>1, <1>4 DEF Request
  <2> HIDE DEF new
  <2>3. /\ req'[r] \in Request
        /\ req'[r].at = q.at /\ req'[r].slot = s + 1 /\ req'[r].id = q.id
        /\ req'[r].kind = q.kind /\ req'[r].of = q.of /\ req'[r].old = q.old
        /\ req'[r].trash = q.trash /\ req'[r].new = new
    BY <1>1, <1>2, <2>1, <2>2 DEF Request
  <2> QED BY <1>2, <2>1, <2>3
<1>6. req' \in [Requests -> Request]
  BY <1>1, <1>3, <1>5
<1>7. TypeOK'
  BY <1>1, <1>3, <1>6 DEF TypeOK
<1>8. /\ Uploaded(r)' = Uploaded(r) \cup {f}
      /\ Olds(r)' = Olds(r) /\ Cleared(r)' = Cleared(r)
  <2>1. f \in Files \ {Keep, NoFile} /\ Keep \notin Files /\ NoFile \notin Files
        /\ Keep # NoFile
    BY WorkFilesAssumption
  <2>2. \A i \in Slots : req'[r].old[i] = req[r].old[i]
    BY <1>5 DEF q
  <2>3. /\ req'[r].new[s] = f /\ req[r].new[s] = Keep
        /\ \A i \in Slots \ {s} : req'[r].new[i] = req[r].new[i]
    BY <1>2, <1>5 DEF q
  <2>4. Uploaded(r)' = Uploaded(r) \cup {f}
    BY <1>2, <2>1, <2>3 DEF Uploaded
  <2>5. Olds(r)' = Olds(r)
    BY <2>2 DEF Olds
  <2>6. Cleared(r)' = Cleared(r)
    BY <1>2, <2>1, <2>2, <2>3 DEF Cleared
  <2> QED BY <2>4, <2>5, <2>6
<1>9. Named' = Named /\ NamedOnce' /\ Named \subseteq made /\ drive \subseteq made
  BY <1>1, <1>3, NamesStay DEF IInv, NamedOnce, TypeOK
<1>10. RequestInv(r)'
  <2>1. Shape(req[r])'
    <3>1. \A i \in Slots : i = s \/ i < s => i < s + 1
      BY <1>2
    <3> QED BY <1>1, <1>2, <1>3, <1>5, <3>1 DEF RequestInv, Shape, q, s
  <2>2. OldOK(r)'
    BY <1>1, <1>3, <1>5, <1>8 DEF RequestInv, OldOK, q
  <2>3. UploadedOK(r)'
    <3>1. Uploaded(r) \subseteq drive \ Named
      BY <1>1 DEF RequestInv, UploadedOK
    <3>2. \A i \in Slots \ {s} : req'[r].new[i] # f
      BY <1>3, <1>5, <1>9, <3>1 DEF Uploaded, q
    <3>3. \A i, j \in Slots : req'[r].new[i] \in Files /\ req'[r].new[j] = req'[r].new[i] => i = j
      BY <1>1, <1>5, <3>2 DEF RequestInv, UploadedOK, q
    <3> QED BY <1>3, <1>8, <1>9, <3>1, <3>3 DEF UploadedOK
  <2>4. TrashOK(r)'
    BY <1>5 DEF TrashOK
  <2>5. GoneOK(r)'
    <3>1. Cleared(r) \subseteq made
      BY <1>1 DEF RequestInv, OldOK, Cleared, Olds
    <3> QED BY <1>1, <1>3, <1>5, <1>8, <3>1 DEF RequestInv, GoneOK
  <2> QED BY <2>1, <2>2, <2>3, <2>4, <2>5 DEF RequestInv
<1>11. StoresMove(r) /\ HandsMove(r)
  BY <1>3, <1>5, <1>8 DEF StoresMove, HandsMove, IInv, RequestInv, UploadedOK
<1>12. Named \subseteq drive \cup spoilt \cup UNION {Cleared(p) : p \in Requests}
  BY DEF IInv, NamedFilesExist
<1> QED BY <1>2, <1>3, <1>4, <1>5, <1>7, <1>8, <1>9, <1>10, <1>11, StepKeeps DEF q

\* The image that is deleted at once is excused by the request that does it.
LEMMA SlotClearedKeeps ==
    ASSUME IInv, NEW r \in Requests, SlotCleared(r)
    PROVE  IInv'
<1> DEFINE q == req[r]
           s == req[r].slot
           f == req[r].old[req[r].slot]
<1>1. TypeOK /\ RequestInv(r) /\ q \in Request /\ req \in [Requests -> Request]
  BY DEF IInv, TypeOK
<1>2. /\ q.at = "slot" /\ s \in Slots /\ s \in SlotsOf(q.of)
      /\ q.new[s] = Keep /\ q.trash = {}
  BY AtSlotFacts DEF SlotCleared
<1>3. /\ table' = table /\ row' = row /\ status' = status /\ rowLock' = rowLock
      /\ made' = made /\ spoilt' = spoilt /\ q.kind = "update"
      /\ Works \/ Fails
      /\ \/ drive' = drive \ {f} /\ stray' = stray
         \/ stray' = stray \cup {f} /\ drive' = drive
      /\ req' = [req EXCEPT ![r].new[s] = NoFile, ![r].at = "null"]
  BY DEF SlotCleared, mysql
<1>4. f \in Files /\ f \in Olds(r)
  BY <1>1, <1>2 DEF SlotCleared, Request, Olds
<1>5. /\ req'[r] = [q EXCEPT !.new = [@ EXCEPT ![s] = NoFile], !.at = "null"]
      /\ OthersStay(r)
  BY <1>1, <1>3 DEF OthersStay
<1>6. q.old[s] = f
  OBVIOUS
<1> HIDE DEF q, s, f
<1>7. /\ req'[r] \in Request
      /\ req'[r].at = "null" /\ req'[r].slot = s /\ req'[r].id = q.id
      /\ req'[r].kind = q.kind /\ req'[r].of = q.of /\ req'[r].old = q.old
      /\ req'[r].trash = {} /\ req'[r].new[s] = NoFile
      /\ \A i \in Slots \ {s} : req'[r].new[i] = q.new[i]
  <2> DEFINE new == [q.new EXCEPT ![s] = NoFile]
  <2>1. /\ new \in [Slots -> Files \cup {NoFile, Keep}] /\ new[s] = NoFile
        /\ \A i \in Slots \ {s} : new[i] = q.new[i]
    BY <1>1, <1>2 DEF Request
  <2>2. req'[r] = [q EXCEPT !.new = new, !.at = "null"]
    BY <1>1, <1>5 DEF Request
  <2> HIDE DEF new
  <2>3. /\ req'[r] \in Request
        /\ req'[r].at = "null" /\ req'[r].slot = q.slot /\ req'[r].id = q.id
        /\ req'[r].kind = q.kind /\ req'[r].of = q.of /\ req'[r].old = q.old
        /\ req'[r].trash = q.trash /\ req'[r].new = new
    BY <1>1, <2>1, <2>2 DEF Request
  <2>4. q.slot = s
    BY DEF q, s
  <2> QED BY <1>2, <2>1, <2>3, <2>4
<1>8. req' \in [Requests -> Request] /\ faults' \in 0..MaxFaults
  BY <1>1, <1>3, <1>7, FaultsStay
<1>9. TypeOK'
  BY <1>1, <1>3, <1>4, <1>8 DEF TypeOK
<1>10. /\ Uploaded(r)' = Uploaded(r) /\ Olds(r)' = Olds(r) /\ Cleared(r)' = Cleared(r) \cup {f}
  BY <1>2, <1>4, <1>6, <1>7, WorkFilesAssumption DEF Uploaded, Olds, Cleared, q
<1>11. Named' = Named /\ NamedOnce'
  BY <1>3, NamesStay
<1>12. \A p \in Requests : Uploaded(p) \subseteq drive \ Named /\ f \notin Uploaded(p)
  BY <1>4 DEF IInv, Apart, RequestInv, UploadedOK
<1>13. RequestInv(r)'
  <2>1. Shape(req[r])'
    BY <1>1, <1>2, <1>3, <1>7 DEF RequestInv, Shape, q, s
  <2>2. OldOK(r)'
    BY <1>1, <1>3, <1>7, <1>10 DEF RequestInv, OldOK, q
  <2>3. UploadedOK(r)'
    <3>1. \A i, j \in Slots : req'[r].new[i] \in Files /\ req'[r].new[j] = req'[r].new[i] => i = j
      BY <1>1, <1>7, WorkFilesAssumption DEF RequestInv, UploadedOK, q
    <3>2. Uploaded(r)' \subseteq drive' \ Named'
      BY <1>3, <1>10, <1>11, <1>12
    <3> QED BY <3>1, <3>2 DEF UploadedOK
  <2>4. TrashOK(r)'
    BY <1>7 DEF TrashOK
  <2>5. GoneOK(r)'
    BY <1>1, <1>3, <1>7, <1>10 DEF RequestInv, GoneOK
  <2> QED BY <2>1, <2>2, <2>3, <2>4, <2>5 DEF RequestInv
<1>14. StoresMove(r) /\ HandsMove(r)
  BY <1>3, <1>7, <1>10, <1>12 DEF StoresMove, HandsMove
<1> QED BY <1>2, <1>3, <1>5, <1>7, <1>9, <1>10, <1>11, <1>12, <1>13, <1>14, StepKeeps DEF q

-----------------------------------------------------------------------------
(* The end of the transaction.                                              *)

\* The id changes only if the row is new, which nothing was read of.
LEMMA WriteRowKeeps ==
    ASSUME IInv, NEW r \in Requests, WriteRow(r)
    PROVE  IInv'
<1> DEFINE q == req[r]
<1>1. TypeOK /\ RequestInv(r) /\ q \in Request /\ req \in [Requests -> Request] /\ q.at = "slot"
  BY DEF IInv, TypeOK, WriteRow, AtWrite
<1>2. /\ table' = table /\ row' = row /\ status' = status
      /\ drive' = drive /\ made' = made /\ faults' = faults
      /\ spoilt' = spoilt /\ stray' = stray
  BY DEF WriteRow, files, history
<1>3. PICK w \in Rows :
        /\ IF q.kind = "create" THEN table[w] = q.of ELSE w = q.id
        /\ Lock(r, w)
        /\ req' = [req EXCEPT ![r].at = "commit", ![r].id = w]
  BY DEF WriteRow
<1>4. /\ req'[r] \in Request /\ OthersStay(r)
      /\ req'[r].at = "commit" /\ req'[r].id = w /\ req'[r].kind = q.kind
      /\ req'[r].of = q.of /\ req'[r].slot = q.slot /\ req'[r].old = q.old
      /\ req'[r].new = q.new /\ req'[r].trash = q.trash
  BY <1>1, <1>3 DEF Request, OthersStay
<1>5. req' \in [Requests -> Request] /\ rowLock' \in [Rows -> Requests \cup {NoRequest}]
  BY <1>1, <1>3, <1>4, LockTypes
<1>6. TypeOK'
  BY <1>1, <1>2, <1>5 DEF TypeOK
<1>7. Uploaded(r)' = Uploaded(r) /\ Cleared(r)' = Cleared(r) /\ Olds(r)' = Olds(r)
  BY <1>4, SameColumns
<1>8. Named' = Named
  BY <1>2, NamesStay
<1>9. RequestInv(r)'
  <2>1. Shape(req[r])'
    BY <1>1, <1>2, <1>3, <1>4, WorkFilesAssumption DEF RequestInv, Shape
  <2>2. OldOK(r)'
    <3>1. q.kind = "create" => \A i \in Slots : q.old[i] \notin Files
      BY <1>1, WorkFilesAssumption DEF RequestInv, Shape
    <3>2. \A i \in Slots, x \in Rows, j \in Slots :
             q.old[i] \in Files /\ row[x][j] = q.old[i] => x = w /\ j = i
      BY <1>1, <1>3, <3>1 DEF RequestInv, OldOK
    <3>3. Olds(r) \subseteq made
      BY <1>1 DEF RequestInv, OldOK
    <3>4. \A i \in Slots, x \in Rows, j \in Slots :
             req'[r].old[i] \in Files /\ row'[x][j] = req'[r].old[i] => x = req'[r].id /\ j = i
      BY <1>2, <1>4, <3>2
    <3>5. Olds(r)' \subseteq made'
      BY <1>2, <1>7, <3>3
    <3> QED BY <3>4, <3>5 DEF OldOK
  <2>3. UploadedOK(r)'
    BY <1>1, <1>2, <1>4, <1>7, <1>8 DEF RequestInv, UploadedOK
  <2>4. TrashOK(r)'
    BY <1>1, <1>2, <1>4, <1>8 DEF RequestInv, TrashOK
  <2>5. GoneOK(r)'
    BY <1>1, <1>2, <1>4, <1>7 DEF RequestInv, GoneOK
  <2> QED BY <2>1, <2>2, <2>3, <2>4, <2>5 DEF RequestInv
<1> QED BY <1>2, <1>4, <1>6, <1>7, <1>9, QuietKeeps

LEMMA RollbacksKeep ==
    ASSUME IInv, NEW r \in Requests,
           \/ SlotRefused(r) \/ SlotFails(r) \/ SlotPanics(r) \/ WriteFails(r)
           \/ req[r].at = "commit" /\ Fails /\ Rollback(r) /\ UNCHANGED stray /\ UNCHANGED files
    PROVE  IInv'
<1>1. TypeOK /\ RequestInv(r)
  BY DEF IInv
<1>2. made \subseteq Files /\ drive \subseteq made /\ stray \subseteq Files
      /\ faults \in 0..MaxFaults
  BY <1>1 DEF TypeOK
<1>3. Rollback(r) /\ req[r].at \in {"slot", "null", "commit"}
  BY DEF SlotRefused, SlotFails, SlotPanics, WriteFails, AtSlot, AtWrite
<1>4. req[r].trash = {}
  BY <1>1, <1>3 DEF RequestInv, Shape
<1>5. faults' \in 0..MaxFaults
  BY <1>1, <1>2, FaultsStay
     DEF SlotRefused, SlotFails, SlotPanics, WriteFails
<1>6. CASE drive' = drive /\ made' = made /\ stray' = stray
  BY <1>2, <1>3, <1>4, <1>5, <1>6, RollbackKeeps
<1>7. CASE \E f \in Files \ made : /\ drive' = drive \cup {f} /\ made' = made \cup {f}
                                   /\ stray' = stray \cup {f}
  BY <1>2, <1>3, <1>4, <1>5, <1>7, RollbackKeeps
<1> QED BY <1>6, <1>7 DEF SlotRefused, SlotFails, SlotPanics, WriteFails, files

\* The columns that r writes name its uploads; what they named before is deleted,
\* was deleted or is stray.
LEMMA CommitRowKeeps ==
    ASSUME IInv, NEW r \in Requests, req[r].at = "commit", CommitRow(r),
           NEW trash \in SUBSET Files, Over(r, trash), faults' \in 0..MaxFaults,
           UNCHANGED files, spoilt \subseteq spoilt', spoilt' \subseteq Files,
           stray' \subseteq Files, stray \cup Overtaken(r) \subseteq stray',
           trash \subseteq Replaced(r) \cup Uploaded(r),
           trash \cap Uploaded(r) \subseteq spoilt', Replaced(r) \subseteq trash \cup stray'
    PROVE  IInv'
<1> DEFINE q == req[r]
           w == req[r].id
           new == req[r].new
           old == req[r].old
<1>1. TypeOK /\ RequestInv(r) /\ q \in Request /\ req \in [Requests -> Request]
  BY DEF IInv, TypeOK
<1>2. /\ table' = table /\ row' = [row EXCEPT ![w] = Columns(r)] /\ rowLock' = Unlocked(r)
      /\ drive' = drive /\ made' = made
      /\ req' = [req EXCEPT ![r] = [Idle EXCEPT !.at = "tidy", !.trash = trash]]
  BY DEF CommitRow, Over, files
<1>3. /\ w \in Rows /\ q.trash = {} /\ table[w] = q.of
      /\ \A i \in Slots : new[i] # Keep => i \in SlotsOf(q.of)
      /\ new \in [Slots -> Files \cup {NoFile, Keep}]
      /\ old \in [Slots -> Files \cup {NoFile}]
  BY <1>1 DEF RequestInv, Shape, Request
<1>4. row \in [Rows -> [Slots -> Files \cup {NoFile}]]
  BY <1>1 DEF TypeOK
<1>5. /\ row' \in [Rows -> [Slots -> Files \cup {NoFile}]]
      /\ \A x \in Rows, i \in Slots :
            row'[x][i] = IF x = w /\ new[i] # Keep THEN new[i] ELSE row[x][i]
  <2>1. /\ Columns(r) \in [Slots -> Files \cup {NoFile}]
        /\ \A i \in Slots : Columns(r)[i] = IF new[i] # Keep THEN new[i] ELSE row[w][i]
    BY <1>3, <1>4 DEF Columns
  <2> HIDE DEF w, new
  <2> QED BY <1>2, <1>3, <1>4, <2>1
<1>6. /\ \A f : f \in Uploaded(r) <=> f \in Files /\ \E i \in Slots : new[i] = f
      /\ \A f : f \in Cleared(r) <=> f \in Files /\ \E i \in Slots : new[i] = NoFile /\ old[i] = f
      /\ \A f : f \in Replaced(r) <=> f \in Files /\ \E i \in Slots : new[i] \in Files /\ old[i] = f
      /\ \A f : f \in Overtaken(r) <=> f \in Files /\ \E i \in Slots :
                   new[i] # Keep /\ row[w][i] # old[i] /\ row[w][i] = f
  BY DEF Uploaded, Cleared, Replaced, Overtaken
<1>7. status' \in [Rows -> {"none", "live", "deleted"}]
  BY <1>1 DEF TypeOK, CommitRow, NewStatus
<1>8. Uploaded(r) \cap Olds(r) = {} /\ Uploaded(r) \subseteq drive \ Named
  BY <1>1 DEF IInv, Apart, RequestInv, UploadedOK
<1>9. \A i \in Slots, x \in Rows, j \in Slots :
          old[i] \in Files /\ row[x][j] = old[i] => x = w /\ j = i
  BY <1>1 DEF RequestInv, OldOK
<1>10. \A i \in Slots : old[i] \in Files => old[i] \in Olds(r) /\ old[i] \in made
  BY <1>1 DEF RequestInv, OldOK, Olds
<1>11. \A i, j \in Slots : new[i] \in Files /\ new[j] = new[i] => i = j
  BY <1>1 DEF RequestInv, UploadedOK
<1>12. Cleared(r) \cap drive \subseteq stray
  BY <1>1 DEF RequestInv, GoneOK
<1>13. /\ req'[r] = [Idle EXCEPT !.at = "tidy", !.trash = trash] /\ OthersStay(r)
  BY <1>1, <1>2 DEF OthersStay
<1> HIDE DEF q, w, new, old
<1>14. Named' \subseteq Named \cup Uploaded(r)
  BY <1>5, <1>6, NamedIs, NamedIsNext
<1>15. NamedOnce'
  <2>1. Named' \subseteq made'
    BY <1>1, <1>2, <1>8, <1>14 DEF IInv, NamedOnce, TypeOK
  <2>2. \A x, y \in Rows, i, j \in Slots :
           row[x][i] \in Files /\ row[y][j] = row[x][i] => x = y /\ i = j
    BY DEF IInv, NamedOnce
  <2>3. \A x \in Rows, i, j \in Slots : new[j] \in Files => row[x][i] # new[j]
    BY <1>6, <1>8, NamedIs
  <2>4. ASSUME NEW x \in Rows, NEW y \in Rows, NEW i \in Slots, NEW j \in Slots,
               row'[x][i] \in Files, row'[y][j] = row'[x][i]
        PROVE  x = y /\ i = j
    BY <1>5, <1>11, <2>2, <2>3, <2>4
  <2> QED BY <2>1, <2>4 DEF NamedOnce
<1>16. ASSUME NEW i \in Slots, old[i] \in Files, new[i] # Keep
       PROVE  old[i] \notin Named'
  <2> SUFFICES ASSUME NEW x \in Rows, NEW j \in Slots, row'[x][j] = old[i] PROVE FALSE
    BY NamedIsNext
  <2>1. old[i] \notin Uploaded(r)
    BY <1>8, <1>10, <1>16
  <2>2. row[x][j] = old[i] /\ ~ (x = w /\ new[j] # Keep)
    BY <1>5, <1>6, <1>16, <2>1
  <2> QED BY <1>9, <1>16, <2>2
<1>17. req'[r].trash = trash
  BY <1>13, IdleFields DEF Idle
<1>18. TrashOK(r)'
  <2>1. trash \subseteq made'
    BY <1>1, <1>2, <1>6, <1>8, <1>10 DEF TypeOK
  <2>2. trash \cap Named' \subseteq spoilt'
    <3> SUFFICES ASSUME NEW f \in trash, f \in Named', f \notin Uploaded(r) PROVE FALSE
      OBVIOUS
    <3>1. PICK i \in Slots : new[i] \in Files /\ old[i] = f /\ f \in Files
      BY <1>6
    <3> QED BY <1>16, <3>1, WorkFilesAssumption
  <2> QED BY <1>17, <2>1, <2>2 DEF TrashOK
<1>19. /\ RequestInv(r)' /\ Uploaded(r)' = {} /\ Cleared(r)' = {} /\ Olds(r)' = {}
       /\ req'[r] \in Request
  BY <1>13, <1>18, EndedInv
<1>20. TypeOK'
  <2>1. rowLock' \in [Rows -> Requests \cup {NoRequest}]
    BY <1>1, <1>2 DEF TypeOK, Unlocked
  <2>2. req' \in [Requests -> Request]
    BY <1>1, <1>2, <1>13, <1>19
  <2>3. ASSUME NEW x \in Rows, NEW i \in Slots \ SlotsOf(table[x])
        PROVE  row'[x][i] = NoFile
    <3>1. row[x][i] = NoFile
      BY <1>1 DEF TypeOK
    <3>2. x = w => new[i] = Keep
      BY <1>3
    <3> QED BY <1>5, <3>1, <3>2
  <2> QED BY <1>1, <1>2, <1>5, <1>7, <2>1, <2>2, <2>3 DEF TypeOK
<1>21. StoresMove(r)
  <2>1. \A x \in Rows, i \in Slots :
           row'[x][i] \in Files => row'[x][i] = row[x][i] \/ row'[x][i] \in Uploaded(r)
    BY <1>5, <1>6
  <2>2. \A p \in Requests : Uploaded(p) \subseteq drive'
    BY <1>2 DEF IInv, RequestInv, UploadedOK
  <2> QED BY <1>2, <2>1, <2>2 DEF StoresMove
<1>22. HandsMove(r)
  <2>1. Replaced(r) \subseteq Olds(r)
    BY <1>6, <1>10
  <2> QED BY <1>17, <1>19, <2>1 DEF HandsMove
<1>23. Named' \cap Cleared(r) = {}
  BY <1>6, <1>16, WorkFilesAssumption
<1>24. ASSUME NEW f \in Named, f \in drive'
       PROVE  f \in Named' \cup trash \cup stray'
  <2>1. PICK x \in Rows, i \in Slots : row[x][i] = f /\ f \in Files
    BY NamedIs
  <2>2. CASE row'[x][i] = f
    BY <2>1, <2>2, NamedIsNext
  <2>3. CASE row'[x][i] # f
    <3>1. x = w /\ new[i] # Keep
      BY <1>5, <2>1, <2>3
    <3>2. CASE old[i] # f
      BY <1>6, <2>1, <3>1, <3>2
    <3>3. CASE old[i] = f /\ new[i] \in Files
      BY <1>6, <2>1, <3>3
    <3>4. CASE old[i] = f /\ new[i] = NoFile
      BY <1>2, <1>6, <1>12, <1>24, <2>1, <3>4
    <3> QED BY <1>3, <3>1, <3>2, <3>3, <3>4 DEF new
  <2> QED BY <2>2, <2>3
<1>25. Uploaded(r) \subseteq Named'
  <2> SUFFICES ASSUME NEW f \in Uploaded(r) PROVE f \in Named'
    OBVIOUS
  <2>1. PICK i \in Slots : new[i] = f /\ f \in Files
    BY <1>6
  <2>2. row'[w][i] = f
    BY <1>3, <1>5, <2>1, WorkFilesAssumption
  <2> QED BY <1>3, <2>1, <2>2, NamedIsNext
<1> QED BY <1>2, <1>3, <1>8, <1>13, <1>14, <1>15, <1>17, <1>19, <1>20, <1>21, <1>22,
           <1>23, <1>24, <1>25, StepKeeps DEF q

LEMMA CommitKeeps ==
    ASSUME IInv, NEW r \in Requests, Commit(r)
    PROVE  IInv'
<1>1. /\ req[r].at = "commit" /\ CommitRow(r) /\ UNCHANGED files
      /\ faults' \in 0..MaxFaults /\ spoilt' = spoilt
      /\ spoilt \subseteq Files /\ stray \subseteq Files
  BY DEF IInv, TypeOK, Commit
<1>2. /\ Overtaken(r) \subseteq Files /\ Replaced(r) \subseteq Files /\ {} \subseteq Files
      /\ Replaced(r) \cap Uploaded(r) = {}
  BY DEF Overtaken, Replaced, IInv, Apart, Olds
<1>3. CASE Over(r, {}) /\ stray' = stray \cup Overtaken(r) \cup Replaced(r)
  BY <1>1, <1>2, <1>3, CommitRowKeeps
<1>4. CASE Over(r, Replaced(r)) /\ stray' = stray \cup Overtaken(r)
  BY <1>1, <1>2, <1>4, CommitRowKeeps
<1> QED BY <1>3, <1>4 DEF Commit

LEMMA CommitFailsKeeps ==
    ASSUME IInv, NEW r \in Requests, CommitFails(r)
    PROVE  IInv'
<1>1. /\ req[r].at = "commit" /\ UNCHANGED files /\ Fails
      /\ TypeOK /\ spoilt \subseteq Files /\ stray \subseteq Files
  BY DEF IInv, TypeOK, CommitFails
<1>2. faults' \in 0..MaxFaults
  BY <1>1, FaultsStay
<1>3. Overtaken(r) \subseteq Files /\ Replaced(r) \subseteq Files /\ Uploaded(r) \subseteq Files
  BY DEF Overtaken, Replaced, Uploaded
<1>4. CASE Rollback(r) /\ UNCHANGED stray
  BY <1>1, <1>4, RollbacksKeep
<1>5. CASE /\ CommitRow(r) /\ Over(r, Uploaded(r)) /\ spoilt' = spoilt \cup Uploaded(r)
           /\ stray' = stray \cup Overtaken(r) \cup Replaced(r)
  BY <1>1, <1>2, <1>3, <1>5, CommitRowKeeps
<1> QED BY <1>4, <1>5 DEF CommitFails

\* What is deleted after the transaction is named no more, or spoilt.
LEMMA TidyKeeps ==
    ASSUME IInv, NEW r \in Requests, Tidy(r)
    PROVE  IInv'
<1> DEFINE q == req[r]
<1>1. /\ TypeOK /\ RequestInv(r) /\ q \in Request /\ req \in [Requests -> Request]
      /\ q.at = "tidy" /\ q.trash \subseteq Files
  BY DEF IInv, TypeOK, Tidy, Request
<1>2. PICK f \in q.trash :
        /\ Works \/ Fails
        /\ \/ drive' = drive \ {f} /\ stray' = stray
           \/ stray' = stray \cup {f} /\ drive' = drive
        /\ req' = [req EXCEPT ![r].trash = @ \ {f}]
  BY DEF Tidy
<1>3. /\ table' = table /\ row' = row /\ status' = status /\ rowLock' = rowLock
      /\ made' = made /\ spoilt' = spoilt
  BY DEF Tidy, mysql
<1>4. /\ req'[r] \in Request /\ OthersStay(r) /\ req'[r].trash = q.trash \ {f}
      /\ req'[r].at = q.at /\ req'[r].id = q.id /\ req'[r].kind = q.kind /\ req'[r].of = q.of
      /\ req'[r].slot = q.slot /\ req'[r].old = q.old /\ req'[r].new = q.new
  BY <1>1, <1>2 DEF Request, OthersStay
<1>5. req' \in [Requests -> Request] /\ faults' \in 0..MaxFaults
  BY <1>1, <1>2, <1>4, FaultsStay
<1>6. TypeOK'
  BY <1>1, <1>2, <1>3, <1>5 DEF TypeOK
<1>7. \A i \in Slots : q.new[i] = Keep
  BY <1>1 DEF RequestInv, Shape
<1>8. /\ Uploaded(r) = {} /\ Cleared(r) = {}
      /\ Uploaded(r)' = {} /\ Cleared(r)' = {} /\ Olds(r)' = Olds(r)
  BY <1>4, <1>7, KeepsNothing, SameColumns
<1>9. Named' = Named /\ NamedOnce'
  BY <1>3, NamesStay
<1>10. \A p \in Requests : f \notin Uploaded(p) /\ Uploaded(p) \subseteq drive
  BY DEF IInv, Apart, RequestInv, UploadedOK
<1>11. f \in Named => f \in spoilt
  BY <1>1 DEF RequestInv, TrashOK
<1>12. RequestInv(r)'
  <2>1. Shape(req[r])'
    BY <1>1, <1>3, <1>4 DEF RequestInv, Shape
  <2>2. OldOK(r)'
    <3>1. \A i \in Slots, w \in Rows, j \in Slots :
             q.old[i] \in Files /\ row[w][j] = q.old[i] => w = q.id /\ j = i
      BY <1>1 DEF RequestInv, OldOK
    <3>2. \A i \in Slots, w \in Rows, j \in Slots :
             req'[r].old[i] \in Files /\ row'[w][j] = req'[r].old[i] => w = req'[r].id /\ j = i
      BY <1>3, <1>4, <3>1
    <3>3. Olds(r)' \subseteq made'
      BY <1>1, <1>3, <1>8 DEF RequestInv, OldOK
    <3> QED BY <3>2, <3>3 DEF OldOK
  <2>3. UploadedOK(r)'
    BY <1>4, <1>7, <1>8, WorkFilesAssumption DEF UploadedOK
  <2>4. TrashOK(r)'
    BY <1>1, <1>3, <1>4, <1>9 DEF RequestInv, TrashOK
  <2>5. GoneOK(r)'
    BY <1>1, <1>4, <1>8 DEF GoneOK
  <2> QED BY <2>1, <2>2, <2>3, <2>4, <2>5 DEF RequestInv
<1>13. StoresMove(r) /\ HandsMove(r)
  BY <1>2, <1>3, <1>4, <1>8, <1>10 DEF StoresMove, HandsMove
<1> QED BY <1>2, <1>3, <1>4, <1>6, <1>8, <1>9, <1>11, <1>12, <1>13, StepKeeps DEF q

\* A request that has no trash ends.
LEMMA DoneKeeps ==
    ASSUME IInv, NEW r \in Requests, req[r].trash = {},
           req[r].at \in {"tidy", "look", "not found"}, req' = [req EXCEPT ![r] = Idle],
           Works \/ Fails, UNCHANGED <<mysql, files, history>>
    PROVE  IInv'
<1>1. TypeOK /\ RequestInv(r) /\ req \in [Requests -> Request]
  BY DEF IInv, TypeOK
<1>2. /\ table' = table /\ row' = row /\ status' = status /\ rowLock' = rowLock
      /\ drive' = drive /\ made' = made /\ spoilt' = spoilt /\ stray' = stray
  BY DEF mysql, files, history
<1>3. req'[r] = [Idle EXCEPT !.at = "idle", !.trash = {}] /\ OthersStay(r)
  BY <1>1, IdleFields DEF OthersStay, Idle
<1>4. req'[r].trash = {}
  BY <1>1, IdleFields
<1>5. TrashOK(r)'
  BY <1>4 DEF TrashOK
<1>6. /\ RequestInv(r)' /\ Uploaded(r)' = {} /\ Cleared(r)' = {} /\ Olds(r)' = {}
      /\ req'[r] \in Request
  BY <1>3, <1>5, EndedInv
<1>7. \A i \in Slots : req[r].new[i] = Keep
  BY <1>1 DEF RequestInv, Shape
<1>8. Uploaded(r) = {} /\ Cleared(r) = {}
  BY <1>7, KeepsNothing
<1>9. faults' \in 0..MaxFaults /\ req' \in [Requests -> Request]
  BY <1>1, <1>6, FaultsStay
<1>10. TypeOK'
  BY <1>1, <1>2, <1>9 DEF TypeOK
<1> QED BY <1>2, <1>3, <1>4, <1>6, <1>8, <1>10, QuietKeeps

LEMMA AnswerKeeps ==
    ASSUME IInv, NEW r \in Requests, Answer(r) \/ AnswerRead(r)
    PROVE  IInv'
<1>1. Shape(req[r])
  BY DEF IInv, RequestInv
<1>2. CASE Answer(r)
  BY <1>2, DoneKeeps DEF Answer, Works
<1>3. CASE AnswerRead(r)
  BY <1>1, <1>3, DoneKeeps DEF AnswerRead, Shape, Works
<1> QED BY <1>2, <1>3

-----------------------------------------------------------------------------
(* The readers and the restart.                                             *)

LEMMA LookKeeps ==
    ASSUME IInv, NEW r \in Requests, Look(r) \/ NotFound(r)
    PROVE  IInv'
<1>1. /\ TypeOK /\ RequestInv(r) /\ req[r] \in Request /\ req \in [Requests -> Request]
      /\ req[r].at = "look" /\ req[r].slot \in Slots
  BY SlotFacts DEF IInv, TypeOK, Look, NotFound
<1>2. UNCHANGED <<table, row, status, rowLock, files, history>>
  BY DEF Look, NotFound, mysql
<1>3. /\ req[r].slot \in 1..(NSlots + 1) /\ req[r].slot + 1 \in 1..(NSlots + 1)
      /\ \A i \in Slots : req[r].new[i] = Keep
  BY <1>1, SlotFacts DEF RequestInv, Shape, Request
<1>4. rowLock' \in [Rows -> Requests \cup {NoRequest}]
  BY <1>1, <1>2 DEF TypeOK
<1>5. CASE Look(r)
  <2>1. req' = [req EXCEPT ![r].at = "look", ![r].slot = req[r].slot + 1]
    BY <1>1, <1>5 DEF Look, Request
  <2>2. req'[r] = [req[r] EXCEPT !.at = "look", !.slot = req[r].slot + 1]
    BY <1>1, <2>1
  <2>3. req'[r] \in Request
    BY <1>1, <1>3, <2>2 DEF Request
  <2>4. Shape(req[r])'
    BY <1>1, <1>2, <1>3, <2>2 DEF RequestInv, Shape, Request
  <2>5. UNCHANGED faults
    BY <1>5 DEF Look
  <2> QED BY <1>2, <1>3, <1>4, <2>1, <2>3, <2>4, <2>5, MoveOnKeeps
<1>6. CASE NotFound(r)
  <2>1. PICK refused \in BOOLEAN :
           /\ req' = [req EXCEPT ![r].at = "not found", ![r].refused = refused]
           /\ refused \/ req[r].old[req[r].slot] \in Files \ drive
    <3>1. CASE req' = [req EXCEPT ![r].at = "not found"] /\ req[r].old[req[r].slot] \notin drive
      <4>1. req' = [req EXCEPT ![r].at = "not found", ![r].refused = req[r].refused]
        BY <1>1, <3>1 DEF Request
      <4>2. req[r].old[req[r].slot] \in Files \ drive /\ req[r].refused \in BOOLEAN
        BY <1>1, <1>6, <3>1 DEF NotFound, Request
      <4> QED BY <4>1, <4>2
    <3>2. CASE req' = [req EXCEPT ![r].at = "not found", ![r].refused = TRUE]
      BY <3>2
    <3> QED BY <1>6, <3>1, <3>2 DEF NotFound
  <2>2. req'[r] = [req[r] EXCEPT !.at = "not found", !.refused = refused] /\ OthersStay(r)
    BY <1>1, <2>1 DEF OthersStay
  <2>3. /\ req'[r] \in Request /\ req'[r].at = "not found" /\ req'[r].refused = refused
        /\ req'[r].new = req[r].new /\ req'[r].old = req[r].old /\ req'[r].id = req[r].id
        /\ req'[r].trash = req[r].trash /\ req'[r].slot = req[r].slot
    BY <1>1, <2>2 DEF Request
  <2>4. req' \in [Requests -> Request]
    BY <1>1, <2>1, <2>3
  <2>5. Shape(req[r])'
    BY <1>1, <1>2, <1>3, <2>2 DEF RequestInv, Shape, Request
  <2>6. faults' \in 0..MaxFaults
    BY <1>1, <1>6, FaultsStay DEF NotFound
  <2> QED BY <1>1, <1>2, <1>4, <2>1, <2>2, <2>3, <2>4, <2>5, <2>6, SteppedKeeps
<1> QED BY <1>5, <1>6

LEMMA CrashKeeps ==
    ASSUME IInv, Crash
    PROVE  IInv'
<1>1. TypeOK
  BY DEF IInv
<1>2. /\ table' = table /\ row' = row /\ status' = status /\ drive' = drive /\ made' = made
      /\ req' = [r \in Requests |-> Idle] /\ rowLock' = [w \in Rows |-> NoRequest]
      /\ spoilt' = spoilt \cup UNION {Cleared(r) : r \in Requests}
      /\ stray' = stray \cup UNION {Uploaded(r) \cup req[r].trash : r \in Requests}
  BY DEF Crash, files
<1>3. Named' = Named /\ NamedOnce'
  BY <1>2, NamesStay
<1>4. ASSUME NEW r \in Requests
      PROVE  /\ RequestInv(r)' /\ Uploaded(r)' = {} /\ Cleared(r)' = {} /\ Olds(r)' = {}
             /\ req'[r].trash = {} /\ req'[r] \in Request
  <2>1. req'[r] = [Idle EXCEPT !.at = "idle", !.trash = {}]
    BY <1>2, IdleFields DEF Idle
  <2>2. req'[r].trash = {}
    BY <1>2, IdleFields
  <2>3. TrashOK(r)'
    BY <2>2 DEF TrashOK
  <2> QED BY <2>1, <2>2, <2>3, EndedInv
<1>5. \A r \in Requests : /\ Cleared(r) \subseteq Files /\ Uploaded(r) \subseteq Files
                         /\ req[r].trash \subseteq Files
  BY <1>1 DEF TypeOK, Cleared, Uploaded, Request
<1>6. faults' \in 0..MaxFaults
  BY <1>1, FaultsStay DEF Crash
<1>7. TypeOK'
  <2>1. spoilt' \subseteq Files /\ stray' \subseteq Files
    BY <1>1, <1>2, <1>5 DEF TypeOK
  <2>2. req' \in [Requests -> Request] /\ rowLock' \in [Rows -> Requests \cup {NoRequest}]
    BY <1>2, IdleFields
  <2> QED BY <1>1, <1>2, <1>6, <2>1, <2>2 DEF TypeOK
<1>8. Apart'
  BY <1>4 DEF Apart
<1>9. NamedFilesExist'
  BY <1>2, <1>3 DEF IInv, NamedFilesExist
<1>10. NoStrays'
  BY <1>2, <1>3 DEF IInv, NoStrays, InHands
<1> QED BY <1>3, <1>4, <1>7, <1>8, <1>9, <1>10 DEF IInv

LEMMA StutterKeeps ==
    ASSUME IInv, UNCHANGED vars
    PROVE  IInv'
<1>1. /\ table' = table /\ row' = row /\ status' = status /\ rowLock' = rowLock
      /\ drive' = drive /\ made' = made /\ req' = req /\ faults' = faults
      /\ spoilt' = spoilt /\ stray' = stray
  BY DEF vars
<1>2. Named' = Named /\ NamedOnce'
  BY <1>1, NamesStay
<1>3. \A r \in Requests : /\ Uploaded(r)' = Uploaded(r) /\ Cleared(r)' = Cleared(r)
                         /\ Olds(r)' = Olds(r)
  BY <1>1 DEF Uploaded, Cleared, Olds
<1>4. TypeOK'
  BY <1>1 DEF IInv, TypeOK
<1>5. ASSUME NEW r \in Requests PROVE RequestInv(r)'
  <2>1. RequestInv(r)
    BY DEF IInv
  <2>2. Shape(req[r])' /\ TrashOK(r)' /\ GoneOK(r)' /\ UploadedOK(r)'
    BY <1>1, <1>2, <1>3, <2>1 DEF RequestInv, Shape, TrashOK, GoneOK, UploadedOK
  <2>3. OldOK(r)'
    <3>1. \A i \in Slots, w \in Rows, j \in Slots :
             req[r].old[i] \in Files /\ row[w][j] = req[r].old[i] => w = req[r].id /\ j = i
      BY <2>1 DEF RequestInv, OldOK
    <3>2. Olds(r)' \subseteq made'
      BY <1>1, <1>3, <2>1 DEF RequestInv, OldOK
    <3> QED BY <1>1, <3>1, <3>2 DEF OldOK
  <2> QED BY <2>1, <2>2, <2>3 DEF RequestInv
<1>6. Apart' /\ NamedFilesExist' /\ NoStrays'
  BY <1>1, <1>2, <1>3 DEF IInv, Apart, NamedFilesExist, NoStrays, InHands
<1> QED BY <1>2, <1>4, <1>5, <1>6 DEF IInv

-----------------------------------------------------------------------------
(* The theorems.                                                            *)

LEMMA ServeKeeps ==
    ASSUME IInv, NEW r \in Requests, Serve(r)
    PROVE  IInv'
<1>1. CASE \/ \E t \in Tables : StartCreate(r, t)
           \/ \E w \in Rows : \/ StartRegister(r, w) \/ StartUpdate(r, w)
                              \/ StartDelete(r, w) \/ StartRead(r, w)
  BY <1>1, StartsKeep
<1>2. CASE \E f \in Files : SlotUploaded(r, f)
  BY <1>2, SlotUploadedKeeps
<1>3. CASE SlotKept(r)
  BY <1>3, SlotKeptKeeps
<1>4. CASE SlotRefused(r) \/ SlotFails(r) \/ SlotPanics(r) \/ WriteFails(r)
  BY <1>4, RollbacksKeep
<1>5. CASE SlotCleared(r)
  BY <1>5, SlotClearedKeeps
<1>6. CASE SetNull(r)
  BY <1>6, SetNullKeeps
<1>7. CASE WriteRow(r)
  BY <1>7, WriteRowKeeps
<1>8. CASE Commit(r) \/ CommitFails(r)
  BY <1>8, CommitKeeps, CommitFailsKeeps
<1>9. CASE Tidy(r)
  BY <1>9, TidyKeeps
<1>10. CASE Answer(r) \/ AnswerRead(r)
  BY <1>10, AnswerKeeps
<1>11. CASE Look(r) \/ NotFound(r)
  BY <1>11, LookKeeps
<1> QED BY <1>1, <1>2, <1>3, <1>4, <1>5, <1>6, <1>7, <1>8, <1>9, <1>10, <1>11 DEF Serve

\* IInv is an invariant of the rows and the files they name (work/service.go
\* 67-204, 286-519, user/service.go and auth/service.go where they upload a picture).
THEOREM Invariant == Spec => []IInv
<1>1. IInv /\ [Next]_vars => IInv'
  BY ServeKeeps, CrashKeeps, StutterKeeps DEF Next
<1> QED BY <1>1, InitIInv, PTL DEF Spec

\* The rows, the drive and the requests have their types.
THEOREM TypeCorrect == Spec => []TypeOK
<1>1. IInv => TypeOK
  BY DEF IInv
<1> QED BY <1>1, Invariant, PTL

\* No file that a row names is deleted, however requests overlap, but by a
\* transaction that deletes first and does not commit, or when the answer of a commit
\* is lost (work/service.go 443-453, 482-492, 499-514).
THEOREM NamedAreThere == Spec => []NamedFilesExist
<1>1. IInv => NamedFilesExist
  BY DEF IInv
<1> QED BY <1>1, Invariant, PTL

\* Who is told "not found" asked for an image that has been replaced or was deleted
\* by such a transaction, unless the call to the drive failed
\* (work/service.go 300-303, 335-352, user/service.go 188-190).
THEOREM NotFoundIsReplaced == Spec => []NotFoundMeansReplaced
<1>1. IInv => NotFoundMeansReplaced
  <2> SUFFICES ASSUME IInv, NEW r \in Requests, req[r].at = "not found", ~req[r].refused,
                      row[req[r].id][req[r].slot] = req[r].old[req[r].slot]
               PROVE  req[r].old[req[r].slot] \in spoilt \cup UNION {Cleared(q) : q \in Requests}
    BY DEF NotFoundMeansReplaced
  <2>1. req[r].slot \in Slots /\ req[r].old[req[r].slot] \in Files \ drive
    BY DEF IInv, RequestInv, GoneOK
  <2>2. req[r].id \in Rows
    BY DEF IInv, RequestInv, Shape, TypeOK, Request
  <2>3. req[r].old[req[r].slot] \in Named
    BY <2>1, <2>2, NamedIs
  <2> QED BY <2>1, <2>3 DEF IInv, NamedFilesExist
<1> QED BY <1>1, Invariant, PTL

\* A file on the drive is named by a row or in the hands of a request, but for those
\* that faults, overtaken updates and second registrations leave
\* (work/service.go 434-442, 499-514, auth/service.go 408-431).
THEOREM NothingStrays == Spec => []NoStrays
<1>1. IInv => NoStrays
  BY DEF IInv
<1> QED BY <1>1, Invariant, PTL


-----------------------------------------------------------------------------
(* The rows of a transaction are stored by its commit.                      *)

RowValues == [images : [Slots -> Files \cup {NoFile}], status : {"none", "live", "deleted"}]

\* Of a row that is locked, its holder and what it has written.
LEMMA LockedIs ==
    ASSUME TypeOK, NEW w \in Rows
    PROVE  /\ rowLock[w] \in Requests \cup {NoRequest}
           /\ \A r \in Requests : {rowLock[w]} \ {NoRequest} = {r} <=> rowLock[w] = r
           /\ {rowLock[w]} \ {NoRequest} = {} <=> rowLock[w] = NoRequest
  BY WorkFilesAssumption DEF TypeOK

LEMMA MineIs ==
    ASSUME TypeOK, NEW r \in Requests
    PROVE  WT!Mine(r) = {w \in Rows : rowLock[w] = r}
  BY LockedIs DEF WT!Mine, RowHolders

LEMMA WrittenTypes ==
    ASSUME TypeOK', NEW r \in Requests, req'[r].id \in Rows
    PROVE  WrittenRow(r)' \in RowValues
<1>1. /\ req'[r] \in Request /\ row' \in [Rows -> [Slots -> Files \cup {NoFile}]]
      /\ status' \in [Rows -> {"none", "live", "deleted"}]
  BY DEF TypeOK
<1>2. ASSUME NEW i \in Slots
      PROVE  (IF Written(r, i) THEN req[r].new[i] ELSE row[req[r].id][i])' \in Files \cup {NoFile}
  <2>1. row'[req'[r].id][i] \in Files \cup {NoFile}
    BY <1>1
  <2>2. req'[r].new[i] \in Files \cup {NoFile, Keep}
    BY <1>1 DEF Request
  <2>3. Written(r, i)' => req'[r].new[i] # Keep
    BY WorkFilesAssumption DEF Written
  <2> QED BY <2>1, <2>2, <2>3
<1>3. (IF req[r].at = "commit" THEN NewStatus(r) ELSE status[req[r].id])'
         \in {"none", "live", "deleted"}
  BY <1>1 DEF NewStatus
<1> QED BY <1>2, <1>3 DEF WrittenRow, RowValues

\* Whoever writes the same as before and whose row stays has the same to store.
SameWrite(q) ==
    /\ req'[q].id = req[q].id /\ req'[q].kind = req[q].kind
    /\ req'[q].at = "commit" <=> req[q].at = "commit"
    /\ \A i \in Slots : /\ Written(q, i)' <=> Written(q, i)
                        /\ Written(q, i) => req'[q].new[i] = req[q].new[i]

LEMMA SameRow ==
    ASSUME NEW q \in Requests, SameWrite(q), NEW w, req[q].id = w,
           row'[w] = row[w], status'[w] = status[w]
    PROVE  WrittenRow(q)' = WrittenRow(q)
<1>1. \A i \in Slots :
         (IF Written(q, i) THEN req[q].new[i] ELSE row[req[q].id][i])'
         = IF Written(q, i) THEN req[q].new[i] ELSE row[req[q].id][i]
  BY DEF SameWrite
<1>2. (IF req[q].at = "commit" THEN NewStatus(q) ELSE status[req[q].id])'
      = IF req[q].at = "commit" THEN NewStatus(q) ELSE status[req[q].id]
  BY DEF SameWrite, NewStatus
<1> QED BY <1>1, <1>2 DEF WrittenRow

LEMMA OthersWriteTheSame ==
    ASSUME NEW r, OthersStay(r), NEW q \in Requests \ {r}
    PROVE  SameWrite(q)
  BY DEF OthersStay, SameWrite, Written

LEMMA PendingIs ==
    /\ PendingRows = [w \in Rows |-> {WrittenRow(r) : r \in {rowLock[w]} \ {NoRequest}}]
    /\ PendingRows' = [w \in Rows |-> {WrittenRow(r)' : r \in {rowLock'[w]} \ {NoRequest}}]
  BY DEF PendingRows

\* A step of r that leaves the rows and their locks alone, and so does what r has
\* written to the row it holds, if it holds one.
LEMMA RowsStand ==
    ASSUME TypeOK, HeldByWriter, NEW r \in Requests, OthersStay(r),
           UNCHANGED <<row, status, rowLock>>,
           \A w \in Rows : rowLock[w] = r => SameWrite(r) /\ req'[r].at \in {"slot", "null", "commit"},
           req'[r].at = "commit" => req[r].at = "commit" /\ SameWrite(r),
           req'[r].at = "null" => req'[r].kind = "update"
    PROVE  HeldByWriter' /\ UNCHANGED WT!vars
<1>1. HeldByWriter'
  BY DEF HeldByWriter, OthersStay, SameWrite
<1>2. UNCHANGED StoredRows /\ UNCHANGED RowHolders
  BY DEF StoredRows, StoredRow, RowHolders
<1>3. ASSUME NEW w \in Rows, NEW q \in {rowLock[w]} \ {NoRequest}
      PROVE  WrittenRow(q)' = WrittenRow(q)
  <2>1. q \in Requests /\ req[q].id = w
    BY LockedIs DEF HeldByWriter
  <2>2. SameWrite(q)
    BY <2>1, OthersWriteTheSame
  <2> QED BY <2>1, <2>2, SameRow
<1>4. UNCHANGED PendingRows
  BY <1>3, PendingIs
<1> QED BY <1>1, <1>2, <1>4 DEF WT!vars

LEMMA NotHolding ==
    ASSUME TypeOK, HeldByWriter, NEW r \in Requests, OthersStay(r),
           UNCHANGED <<row, status, rowLock>>,
           req[r].at \notin {"slot", "null", "commit"}, req'[r].at \notin {"null", "commit"}
    PROVE  HeldByWriter' /\ UNCHANGED WT!vars
<1>1. \A w \in Rows : rowLock[w] # r
  BY DEF HeldByWriter
<1> QED BY <1>1, RowsStand

\* A statement of r writes to w.
LEMMA StatementIsWrite ==
    ASSUME TypeOK, TypeOK', HeldByWriter, NEW r \in Requests, OthersStay(r), NEW w \in Rows,
           Lock(r, w), UNCHANGED <<row, status>>, \A x \in Rows : rowLock[x] = r => x = w,
           req'[r].id = w, req'[r].at \in {"slot", "commit"},
           req'[r].kind = "create" => req'[r].at = "commit"
    PROVE  HeldByWriter' /\ WT!Next
<1>1. /\ rowLock[w] \in {NoRequest, r} /\ rowLock' = [rowLock EXCEPT ![w] = r]
      /\ rowLock \in [Rows -> Requests \cup {NoRequest}] /\ r # NoRequest
  BY WorkFilesAssumption DEF Lock, TypeOK
<1>2. \A x \in Rows : rowLock'[x] = IF x = w THEN r ELSE rowLock[x]
  BY <1>1
<1>3. HeldByWriter'
  <2>1. ASSUME NEW x \in Rows, NEW q \in Requests, rowLock'[x] = q
        PROVE  /\ req'[q].id = x /\ req'[q].at \in {"slot", "null", "commit"}
               /\ req'[q].kind = "create" => req'[q].at = "commit"
    BY <1>2, <2>1 DEF HeldByWriter, OthersStay
  <2>2. ASSUME NEW q \in Requests, req'[q].at = "commit"
        PROVE  req'[q].id \in Rows /\ rowLock'[req'[q].id] = q
    <3>1. CASE q = r
      BY <1>2, <3>1
    <3>2. CASE q # r
      <4>1. req'[q] = req[q] /\ q # NoRequest
        BY <3>2, WorkFilesAssumption DEF OthersStay
      <4>2. PICK x \in Rows : req[q].id = x /\ rowLock[x] = q
        BY <2>2, <4>1 DEF HeldByWriter
      <4>3. rowLock'[x] = q
        BY <1>1, <1>2, <3>2, <4>1, <4>2
      <4> QED BY <4>1, <4>2, <4>3
    <3> QED BY <3>1, <3>2
  <2>3. \A q \in Requests : req'[q].at = "null" => req'[q].kind = "update"
    BY DEF HeldByWriter, OthersStay
  <2> QED BY <2>1, <2>2, <2>3 DEF HeldByWriter
<1>4. UNCHANGED StoredRows
  BY DEF StoredRows, StoredRow
<1>5. RowHolders' = [RowHolders EXCEPT ![w] = {r}] /\ RowHolders[w] \subseteq {r}
  BY <1>1, <1>2 DEF RowHolders
<1>6. WrittenRow(r)' \in RowValues
  BY WrittenTypes
<1>7. PICK v \in RowValues : v = WrittenRow(r)'
  BY <1>6
<1>8. PendingRows' = [PendingRows EXCEPT ![w] = {v}]
  <2> DEFINE P(x) == {WrittenRow(q) : q \in {rowLock[x]} \ {NoRequest}}
             Q(x) == {WrittenRow(q)' : q \in {rowLock'[x]} \ {NoRequest}}
  <2>1. Q(w) = {v}
    BY <1>1, <1>2, <1>7
  <2>2. ASSUME NEW x \in Rows \ {w} PROVE Q(x) = P(x)
    <3>1. ASSUME NEW q \in {rowLock[x]} \ {NoRequest} PROVE WrittenRow(q)' = WrittenRow(q)
      <4>1. q \in Requests \ {r} /\ req[q].id = x
        BY <3>1, LockedIs DEF HeldByWriter
      <4> QED BY <4>1, OthersWriteTheSame, SameRow
    <3>2. rowLock'[x] = rowLock[x]
      BY <1>2
    <3> QED BY <3>1, <3>2
  <2>3. PendingRows = [x \in Rows |-> P(x)] /\ PendingRows' = [x \in Rows |-> Q(x)]
    BY PendingIs
  <2> HIDE DEF P, Q
  <2> QED BY <2>1, <2>2, <2>3
<1>9. WT!Write(r, w)
  BY <1>4, <1>5, <1>7, <1>8 DEF WT!Write, RowValues
<1> QED BY <1>3, <1>9 DEF WT!Next

\* The transaction of r is over.
LEMMA EndIsRelease ==
    ASSUME TypeOK, HeldByWriter, NEW r \in Requests, OthersStay(r), rowLock' = Unlocked(r),
           req'[r].at = "tidy",
           \A w \in Rows : rowLock[w] # r => row'[w] = row[w] /\ status'[w] = status[w]
    PROVE  HeldByWriter' /\ WT!Release(WT!Mine(r))
<1>1. /\ \A w \in Rows : rowLock'[w] = IF rowLock[w] = r THEN NoRequest ELSE rowLock[w]
      /\ r # NoRequest
  BY WorkFilesAssumption DEF Unlocked
<1>2. HeldByWriter'
  <2>1. ASSUME NEW x \in Rows, NEW q \in Requests, rowLock'[x] = q
        PROVE  /\ req'[q].id = x /\ req'[q].at \in {"slot", "null", "commit"}
               /\ req'[q].kind = "create" => req'[q].at = "commit"
    BY <1>1, <2>1, WorkFilesAssumption DEF HeldByWriter, OthersStay
  <2>2. ASSUME NEW q \in Requests, req'[q].at = "commit"
        PROVE  req'[q].id \in Rows /\ rowLock'[req'[q].id] = q
    <3>1. q \in Requests \ {r} /\ req'[q] = req[q]
      BY <2>2 DEF OthersStay
    <3>2. PICK x \in Rows : req[q].id = x /\ rowLock[x] = q
      BY <2>2, <3>1 DEF HeldByWriter
    <3>3. rowLock'[x] = q
      BY <1>1, <3>1, <3>2
    <3> QED BY <3>1, <3>2, <3>3
  <2>3. \A q \in Requests : req'[q].at = "null" => req'[q].kind = "update"
    BY DEF HeldByWriter, OthersStay
  <2> QED BY <2>1, <2>2, <2>3 DEF HeldByWriter
<1>3. \A w \in Rows : w \in WT!Mine(r) <=> rowLock[w] = r
  BY MineIs
<1>4. RowHolders' = [w \in Rows |-> IF w \in WT!Mine(r) THEN {} ELSE RowHolders[w]]
  BY <1>1, <1>3 DEF RowHolders
<1>5. PendingRows' = [w \in Rows |-> IF w \in WT!Mine(r) THEN {} ELSE PendingRows[w]]
  <2> DEFINE P(x) == {WrittenRow(q) : q \in {rowLock[x]} \ {NoRequest}}
             Q(x) == {WrittenRow(q)' : q \in {rowLock'[x]} \ {NoRequest}}
  <2>1. ASSUME NEW x \in Rows, rowLock[x] = r PROVE Q(x) = {}
    BY <1>1, <2>1
  <2>2. ASSUME NEW x \in Rows, rowLock[x] # r PROVE Q(x) = P(x)
    <3>1. ASSUME NEW q \in {rowLock[x]} \ {NoRequest} PROVE WrittenRow(q)' = WrittenRow(q)
      <4>1. q \in Requests \ {r} /\ req[q].id = x
        BY <2>2, <3>1, LockedIs DEF HeldByWriter
      <4> QED BY <2>2, <4>1, OthersWriteTheSame, SameRow
    <3>2. rowLock'[x] = rowLock[x]
      BY <1>1, <2>2
    <3> QED BY <3>1, <3>2
  <2>3. PendingRows = [x \in Rows |-> P(x)] /\ PendingRows' = [x \in Rows |-> Q(x)]
    BY PendingIs
  <2> HIDE DEF P, Q
  <2> QED BY <1>3, <2>1, <2>2, <2>3
<1> QED BY <1>2, <1>4, <1>5 DEF WT!Release

LEMMA RollbackIsRollback ==
    ASSUME TypeOK, HeldByWriter, NEW r \in Requests, Rollback(r)
    PROVE  HeldByWriter' /\ (WT!Next \/ UNCHANGED WT!vars)
<1>1. /\ rowLock' = Unlocked(r) /\ row' = row /\ status' = status
      /\ req' = [req EXCEPT ![r] = [Idle EXCEPT !.at = "tidy", !.trash = Uploaded(r)]]
  BY DEF Rollback, Over
<1>2. OthersStay(r) /\ req'[r].at = "tidy"
  BY <1>1 DEF OthersStay, TypeOK, Idle
<1>3. HeldByWriter' /\ WT!Release(WT!Mine(r))
  BY <1>1, <1>2, EndIsRelease
<1>4. UNCHANGED StoredRows
  BY <1>1 DEF StoredRows, StoredRow
<1>5. CASE WT!Mine(r) # {}
  BY <1>3, <1>4, <1>5 DEF WT!Rollback, WT!Next
<1>6. CASE WT!Mine(r) = {}
  BY <1>3, <1>4, <1>6 DEF WT!Release, WT!vars, RowHolders, PendingRows
<1> QED BY <1>3, <1>5, <1>6

LEMMA CommitIsCommit ==
    ASSUME IInv, HeldByWriter, NEW r \in Requests, req[r].at = "commit", CommitRow(r),
           NEW trash, Over(r, trash)
    PROVE  HeldByWriter' /\ WT!Next
<1>1. PICK w \in Rows : w = req[r].id /\ rowLock[w] = r
  BY DEF HeldByWriter
<1>2. TypeOK /\ \A x \in Rows : rowLock[x] = r <=> x = w
  BY <1>1 DEF HeldByWriter, IInv
<1>3. /\ row' = [row EXCEPT ![w] = Columns(r)] /\ rowLock' = Unlocked(r)
      /\ status' = [status EXCEPT ![w] = NewStatus(r)]
      /\ req' = [req EXCEPT ![r] = [Idle EXCEPT !.at = "tidy", !.trash = trash]]
  BY <1>1 DEF CommitRow, Over
<1>4. OthersStay(r) /\ req'[r].at = "tidy"
  BY <1>2, <1>3 DEF OthersStay, TypeOK, Idle
<1>5. HeldByWriter' /\ WT!Release({w}) /\ WT!Mine(r) = {w}
  <2>1. \A x \in Rows : rowLock[x] # r => row'[x] = row[x] /\ status'[x] = status[x]
    BY <1>2, <1>3 DEF TypeOK
  <2>2. WT!Mine(r) = {w}
    BY <1>2, MineIs
  <2> QED BY <1>2, <1>3, <1>4, <2>1, <2>2, EndIsRelease
<1>6. StoredRow(w)' = WrittenRow(r)
  <2>1. Columns(r) = [i \in Slots |-> IF Written(r, i) THEN req[r].new[i] ELSE row[req[r].id][i]]
    BY DEF Columns, Written
  <2>2. row'[w] = Columns(r) /\ status'[w] = NewStatus(r)
    BY <1>2, <1>3 DEF TypeOK
  <2> QED BY <2>1, <2>2 DEF StoredRow, WrittenRow
<1>7. (CHOOSE v \in PendingRows[w] : TRUE) = WrittenRow(r)
  <2>1. PendingRows[w] = {WrittenRow(r)}
    BY <1>1, WorkFilesAssumption DEF PendingRows
  <2> QED BY <2>1
<1>8. StoredRows' = [x \in Rows |-> IF x \in {w} THEN CHOOSE v \in PendingRows[x] : TRUE
                                    ELSE StoredRows[x]]
  <2>1. ASSUME NEW x \in Rows \ {w} PROVE StoredRow(x)' = StoredRow(x)
    BY <1>2, <1>3 DEF TypeOK, StoredRow
  <2>2. StoredRows = [x \in Rows |-> StoredRow(x)] /\ StoredRows' = [x \in Rows |-> StoredRow(x)']
    BY DEF StoredRows
  <2> QED BY <1>6, <1>7, <2>1, <2>2
<1> QED BY <1>5, <1>8 DEF WT!Commit, WT!Next

LEMMA CrashIsRestart ==
    ASSUME Crash
    PROVE  HeldByWriter' /\ WT!Next
<1>1. /\ rowLock' = [w \in Rows |-> NoRequest] /\ UNCHANGED <<row, status>>
      /\ req' = [r \in Requests |-> Idle]
  BY DEF Crash
<1>2. HeldByWriter'
  BY <1>1, WorkFilesAssumption DEF HeldByWriter, Idle
<1>3. /\ RowHolders' = [w \in Rows |-> {}] /\ PendingRows' = [w \in Rows |-> {}]
      /\ UNCHANGED StoredRows
  BY <1>1 DEF RowHolders, PendingRows, StoredRows, StoredRow
<1>4. WT!Restart
  BY <1>3 DEF WT!Restart, WT!Release
<1> QED BY <1>2, <1>4 DEF WT!Next

\* The steps at a slot: a NULL is not yet written where r sees to clear the image.
LEMMA SlotIsStutter ==
    ASSUME IInv, HeldByWriter, NEW r \in Requests,
           SlotKept(r) \/ SlotCleared(r) \/ \E f \in Files : SlotUploaded(r, f)
    PROVE  HeldByWriter' /\ UNCHANGED WT!vars
<1>1. TypeOK /\ req[r] \in Request /\ req \in [Requests -> Request]
  BY DEF IInv, TypeOK
<1>2. PICK s \in Slots :
         /\ s = req[r].slot /\ s \in Nat /\ req[r].at = "slot" /\ req[r].new[s] = Keep
         /\ \A i \in Slots : i \in Nat
  BY AtSlotFacts, SlotFacts DEF SlotKept, SlotCleared, SlotUploaded
<1>3. UNCHANGED <<row, status, rowLock>>
  BY DEF SlotKept, SlotCleared, SlotUploaded, mysql
<1>4. /\ OthersStay(r) /\ req'[r].id = req[r].id /\ req'[r].kind = req[r].kind
      /\ \/ /\ req'[r].at = "slot" /\ req'[r].slot = s + 1
            /\ \/ req'[r].new = req[r].new
               \/ \E f \in Files : req'[r].new = [req[r].new EXCEPT ![s] = f]
         \/ /\ req'[r].at = "null" /\ req'[r].slot = s
            /\ req'[r].new = [req[r].new EXCEPT ![s] = NoFile]
  <2>1. CASE SlotKept(r)
    <3>1. req' = [req EXCEPT ![r] = [@ EXCEPT !.slot = s + 1]]
      BY <1>1, <1>2, <2>1 DEF SlotKept, Request
    <3> QED BY <1>1, <1>2, <3>1 DEF OthersStay, Request
  <2>2. CASE SlotCleared(r)
    <3>1. req' = [req EXCEPT ![r] = 
               [req[r] EXCEPT !.new = [req[r].new EXCEPT ![s] = NoFile], !.at = "null"]]
      BY <1>1, <1>2, <2>2 DEF SlotCleared, Request
    <3> QED BY <1>1, <1>2, <3>1 DEF OthersStay, Request
  <2>3. CASE \E f \in Files : SlotUploaded(r, f)
    <3>1. PICK f \in Files : SlotUploaded(r, f)
      BY <2>3
    <3>2. req' = [req EXCEPT ![r] = 
               [req[r] EXCEPT !.new = [req[r].new EXCEPT ![s] = f], !.slot = s + 1]]
      BY <1>1, <1>2, <3>1 DEF SlotUploaded, Request
    <3> QED BY <1>1, <1>2, <3>2 DEF OthersStay, Request
  <2> QED BY <2>1, <2>2, <2>3
<1>5. req[r].new \in [Slots -> Files \cup {NoFile, Keep}]
  BY <1>1 DEF Request
<1>6. ASSUME NEW i \in Slots
      PROVE  /\ Written(r, i)' <=> Written(r, i)
             /\ Written(r, i) => req'[r].new[i] = req[r].new[i]
  <2>1. /\ Written(r, i) <=> req[r].new[i] = NoFile /\ i < s
        /\ Written(r, i)' <=> req'[r].new[i] = NoFile /\ i < req'[r].slot
    BY <1>2, <1>4 DEF Written
  <2>2. CASE i = s
    <3>1. ~ (s < s) /\ req[r].new[s] # NoFile
      BY <1>2, WorkFilesAssumption
    <3>2. req'[r].new[s] # NoFile \/ req'[r].slot = s
      BY <1>4, <1>5, <3>1, WorkFilesAssumption
    <3> QED BY <2>1, <2>2, <3>1, <3>2
  <2>3. CASE i # s
    <3>1. req'[r].new[i] = req[r].new[i]
      BY <1>4, <1>5, <2>3
    <3>2. i < s + 1 <=> i < s
      BY <1>2, <2>3
    <3> QED BY <1>4, <2>1, <3>1, <3>2
  <2> QED BY <2>2, <2>3
<1>7. SameWrite(r) /\ req'[r].at \in {"slot", "null", "commit"} /\ req'[r].at # "commit"
  BY <1>2, <1>4, <1>6 DEF SameWrite
<1>8. req'[r].at = "null" => req'[r].kind = "update"
  <2>1. CASE SlotCleared(r)
    BY <1>4, <2>1 DEF SlotCleared
  <2>2. CASE SlotKept(r) \/ \E f \in Files : SlotUploaded(r, f)
    <3>1. req'[r].at = "slot"
      <4>1. CASE SlotKept(r)
        BY <1>1, <1>2, <4>1 DEF SlotKept, Request
      <4>2. CASE \E f \in Files : SlotUploaded(r, f)
        BY <1>1, <1>2, <4>2 DEF SlotUploaded, Request
      <4> QED BY <2>2, <4>1, <4>2
    <3> QED BY <3>1
  <2> QED BY <2>1, <2>2
<1> QED BY <1>1, <1>3, <1>4, <1>7, <1>8, RowsStand

LEMMA SetNullIsWrite ==
    ASSUME IInv, IInv', HeldByWriter, NEW r \in Requests, SetNull(r)
    PROVE  HeldByWriter' /\ WT!Next
<1>1. TypeOK /\ req[r] \in Request /\ Shape(req[r]) /\ req[r].at = "null" /\ TypeOK'
  BY DEF IInv, RequestInv, TypeOK, SetNull
<1>2. PICK w \in Rows : w = req[r].id
  BY <1>1 DEF Shape, Request
<1>3. Lock(r, w) /\ UNCHANGED <<row, status>>
  BY <1>2 DEF SetNull
<1>4. \A x \in Rows : rowLock[x] = r => x = w /\ req[r].kind # "create"
  BY <1>1, <1>2 DEF HeldByWriter
<1>5. /\ req' = [req EXCEPT ![r] = [@ EXCEPT !.at = "slot", !.slot = req[r].slot + 1]]
  BY <1>1 DEF SetNull, TypeOK, Request
<1>6. /\ OthersStay(r) /\ req'[r].id = w /\ req'[r].at = "slot" /\ req'[r].kind = req[r].kind
  BY <1>1, <1>2, <1>5 DEF OthersStay, TypeOK, Request
<1>7. req[r].kind # "create"
  BY <1>1 DEF HeldByWriter
<1> QED BY <1>1, <1>3, <1>4, <1>6, <1>7, StatementIsWrite

LEMMA WriteRowIsWrite ==
    ASSUME IInv, IInv', HeldByWriter, NEW r \in Requests, WriteRow(r)
    PROVE  HeldByWriter' /\ WT!Next
<1>1. TypeOK /\ req \in [Requests -> Request] /\ req[r].at = "slot" /\ TypeOK'
  BY DEF IInv, TypeOK, WriteRow, AtWrite
<1>2. PICK w \in Rows :
         /\ req[r].kind # "create" => w = req[r].id
         /\ Lock(r, w) /\ req' = [req EXCEPT ![r].at = "commit", ![r].id = w]
  BY DEF WriteRow
<1>3. UNCHANGED <<row, status>>
  BY DEF WriteRow
<1>4. \A x \in Rows : rowLock[x] = r => x = w
  BY <1>1, <1>2 DEF HeldByWriter
<1>5. OthersStay(r) /\ req'[r].id = w /\ req'[r].at = "commit"
  BY <1>1, <1>2 DEF OthersStay, Request
<1> QED BY <1>1, <1>2, <1>3, <1>4, <1>5, StatementIsWrite

LEMMA ServeIsTrx ==
    ASSUME IInv, IInv', HeldByWriter, NEW r \in Requests, Serve(r)
    PROVE  HeldByWriter' /\ (WT!Next \/ UNCHANGED WT!vars)
<1>1. TypeOK /\ req \in [Requests -> Request] /\ req[r] \in Request
  BY DEF IInv, TypeOK
<1>2. CASE \/ \E t \in Tables : StartCreate(r, t)
           \/ \E w \in Rows : \/ StartRegister(r, w) \/ StartUpdate(r, w)
                              \/ StartDelete(r, w) \/ StartRead(r, w)
  <2>1. PICK step \in {"slot", "look"} : \E kind, t, w : Begin(r, kind, t, w, step)
    <3>1. (\E kind, t, w : Begin(r, kind, t, w, "slot")) \/ \E kind, t, w : Begin(r, kind, t, w, "look")
      BY <1>2, Zenon DEF StartCreate, StartRegister, StartUpdate, StartDelete, StartRead
    <3> QED BY <3>1, Zenon
  <2>2. UNCHANGED <<row, status, rowLock>>
    BY <1>2 DEF StartCreate, StartRegister, StartUpdate, StartDelete, StartRead, mysql
  <2>3. PICK kind, t, w : Begin(r, kind, t, w, step)
    BY <2>1
  <2>4. OthersStay(r) /\ req'[r].at = step
    BY <1>1, <2>3 DEF Begin, OthersStay, Idle
  <2> QED BY <1>1, <2>2, <2>3, <2>4, NotHolding DEF Begin
<1>3. CASE SlotKept(r) \/ SlotCleared(r) \/ \E f \in Files : SlotUploaded(r, f)
  BY <1>3, SlotIsStutter
<1>4. CASE SlotRefused(r) \/ SlotFails(r) \/ SlotPanics(r) \/ WriteFails(r)
  BY <1>1, <1>4, RollbackIsRollback DEF SlotRefused, SlotFails, SlotPanics, WriteFails
<1>5. CASE SetNull(r) \/ WriteRow(r)
  BY <1>5, SetNullIsWrite, WriteRowIsWrite
<1>6. CASE Commit(r)
  <2>1. req[r].at = "commit" /\ CommitRow(r) /\ \E trash : Over(r, trash)
    BY <1>6 DEF Commit
  <2> QED BY <2>1, CommitIsCommit
<1>7. CASE CommitFails(r)
  <2>1. CASE Rollback(r)
    BY <1>1, <2>1, RollbackIsRollback
  <2>2. CASE req[r].at = "commit" /\ CommitRow(r) /\ Over(r, Uploaded(r))
    BY <2>2, CommitIsCommit
  <2> QED BY <1>7, <2>1, <2>2 DEF CommitFails
<1>8. CASE Tidy(r) \/ Answer(r) \/ Look(r) \/ NotFound(r) \/ AnswerRead(r)
  <2>1. UNCHANGED <<row, status, rowLock>> /\ req[r].at \in {"tidy", "look", "not found"}
    BY <1>8 DEF Tidy, Answer, Look, NotFound, AnswerRead, mysql
  <2>2. OthersStay(r) /\ req'[r].at \notin {"null", "commit"}
    <3>1. CASE Tidy(r)
      <4>1. PICK trash : req' = [req EXCEPT ![r] = [@ EXCEPT !.trash = trash]]
        BY <3>1 DEF Tidy
      <4> QED BY <1>1, <2>1, <4>1 DEF OthersStay, Request
    <3>2. CASE Answer(r) \/ AnswerRead(r)
      <4>1. req' = [req EXCEPT ![r] = Idle]
        BY <3>2 DEF Answer, AnswerRead
      <4> QED BY <1>1, <4>1, IdleFields DEF OthersStay
    <3>3. CASE Look(r)
      BY <1>1, <2>1, <3>3 DEF Look, OthersStay, Request
    <3>4. CASE NotFound(r)
      <4>1. CASE req' = [req EXCEPT ![r].at = "not found"]
        BY <1>1, <4>1 DEF OthersStay, Request
      <4>2. CASE req' = [req EXCEPT ![r].at = "not found", ![r].refused = TRUE]
        BY <1>1, <4>2 DEF OthersStay, Request
      <4> QED BY <3>4, <4>1, <4>2 DEF NotFound
    <3> QED BY <1>8, <3>1, <3>2, <3>3, <3>4
  <2> QED BY <1>1, <2>1, <2>2, NotHolding
<1> QED BY <1>2, <1>3, <1>4, <1>5, <1>6, <1>7, <1>8 DEF Serve

\* The columns of a row and its is_delete are stored all at once, by the commit of the
\* request that has held the row since its first statement, be that a NULL for an image
\* that goes: creates, registrations, updates and deletions keep to what WithTrx
\* promises, an answer to COMMIT that is lost included (trxmanager.go 23-46,
\* work/service.go 374-516).
THEOREM RowsImplementTrx == Spec => RowTrx
<1>1. Init => HeldByWriter /\ WT!Init
  <2> SUFFICES ASSUME Init PROVE HeldByWriter /\ WT!Init
    OBVIOUS
  <2>1. HeldByWriter
    BY WorkFilesAssumption DEF Init, HeldByWriter, Idle
  <2>2. RowHolders = [w \in Rows |-> {}] /\ PendingRows = [w \in Rows |-> {}]
    BY DEF Init, RowHolders, PendingRows
  <2>3. StoredRows \in [Rows -> RowValues]
    BY DEF Init, StoredRows, StoredRow, RowValues
  <2> QED BY <2>1, <2>2, <2>3 DEF WT!Init, RowValues
<1>2. IInv /\ IInv' /\ HeldByWriter /\ [Next]_vars => HeldByWriter' /\ [WT!Next]_WT!vars
  <2> SUFFICES ASSUME IInv, IInv', HeldByWriter, [Next]_vars
               PROVE  HeldByWriter' /\ (WT!Next \/ UNCHANGED WT!vars)
    OBVIOUS
  <2>1. CASE \E r \in Requests : Serve(r)
    BY <2>1, ServeIsTrx
  <2>2. CASE Crash
    BY <2>2, CrashIsRestart
  <2>3. CASE UNCHANGED vars
    BY <2>3 DEF vars, HeldByWriter, WT!vars, StoredRows, StoredRow, RowHolders, PendingRows,
                WrittenRow, Written, NewStatus
  <2> QED BY <2>1, <2>2, <2>3 DEF Next
<1> QED BY <1>1, <1>2, Invariant, PTL DEF Spec, RowTrx, WT!Spec

=============================================================================

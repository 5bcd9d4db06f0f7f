----------------------------- MODULE WorksProofs -----------------------------
(***************************************************************************)
(* The list of works and the reports (WorkList, Reports).  ListInv and         *)
(* ReportsInv are inductive, and with them what the runs check of the two      *)
(* holds for all sets of works, users, names, tasks and offsets and any number *)
(* of comments, rows, changes and failures.                                  *)
(***************************************************************************)
EXTENDS MCWorkList, FiniteSetTheorems, WellFoundedInduction, TLAPS

-----------------------------------------------------------------------------
(* What the helpers give.                                                   *)

LEMMA DomainIsFinite ==
    ASSUME TypeOK
    PROVE  DOMAIN comments \subseteq Nat /\ IsFiniteSet(DOMAIN comments)
<1>1. DOMAIN comments = 1..Len(comments) /\ Len(comments) \in Nat
  BY DEF TypeOK
<1>2. IsFiniteSet(1..Len(comments))
  BY <1>1, FS_Interval
<1> QED BY <1>1, <1>2

\* From its start, a list leaves nothing out.
LEMMA RestIsAll ==
    ASSUME NEW S, IsFiniteSet(S), NEW some \in Rest(S, 0)
    PROVE  some = S
<1>1. some \in SUBSET S /\ Cardinality(some) = IF Cardinality(S) > 0 THEN Cardinality(S) - 0 ELSE 0
  BY DEF Rest
<1>2. Cardinality(S) \in Nat
  BY FS_CardinalityType
<1>3. Cardinality(some) = Cardinality(S)
  BY <1>1, <1>2
<1> QED BY <1>1, <1>3, FS_Subset

LEMMA NoRequestFields ==
    /\ NoRequest \in Request /\ NoRequest.at = "failed" /\ NoRequest.offset \in Offsets
    /\ NoRequest.works = {} /\ NoRequest.work = {} /\ NoRequest.todo = {}
<1>1. (CHOOSE o \in Offsets : TRUE) \in Offsets
  BY WorkListAssumption
<1> QED BY <1>1 DEF NoRequest, Request, Columns

-----------------------------------------------------------------------------
(* Initially.                                                               *)

LEMMA InitListInv == Init => ListInv
<1> SUFFICES ASSUME Init PROVE ListInv
  OBVIOUS
<1>1. MaxComments \in Nat
  BY WorkListAssumption
<1>2. comments \in Seq(Comment) /\ Len(comments) <= MaxComments
  <2> DEFINE n == IF MaxComments = 0 THEN 0 ELSE MaxComments - 1
  <2>1. n \in Nat /\ n <= MaxComments /\ 1..n = 1..MaxComments - 1
    BY <1>1
  <2>2. [work : Works, deleted : {FALSE}] \subseteq Comment
    BY DEF Comment
  <2>3. comments \in [1..n -> Comment]
    BY <2>1, <2>2 DEF Init
  <2> QED BY <2>1, <2>3
<1>3. req = NoRequest /\ DOMAIN flag = {}
  BY DEF Init
<1>4. TypeOK
  BY <1>1, <1>2, <1>3, NoRequestFields, WorkListAssumption DEF Init, TypeOK, Listed
<1>5. OneWorkAtATime
  BY <1>3, NoRequestFields DEF OneWorkAtATime, Listed
<1>6. Observed
  BY <1>3, NoRequestFields DEF Init, Observed
<1>7. FlagMeansUnread /\ YetToFlag
  BY <1>3 DEF FlagMeansUnread, YetToFlag, Listed
<1> QED BY <1>4, <1>5, <1>6, <1>7 DEF ListInv

-----------------------------------------------------------------------------
(* What goes on meanwhile.                                                  *)

\* Comments keep their work, whatever becomes of them.
LEMMA ObserveKeeps ==
    ASSUME ListInv, Observe, works' \subseteq Works,
           comments' \in Seq(Comment), Len(comments') <= MaxComments,
           DOMAIN comments \subseteq DOMAIN comments',
           \A c \in DOMAIN comments : comments'[c].work = comments[c].work,
           unread' \subseteq DOMAIN comments'
    PROVE  ListInv'
<1> USE DEF ListInv
<1>1. /\ req' = req /\ flag' = flag /\ failures' = failures /\ unsure' = unsure
      /\ Listed' = Listed /\ Live' \subseteq DOMAIN comments'
      /\ steady' = steady \cap Live' \cap unread' /\ there' = there \cup Live'
      /\ ever' = ever \cup (there' \cap unread')
  BY DEF Observe, Listed, Live
<1>2. req.todo \subseteq DOMAIN comments
  BY DEF TypeOK, Observed
<1>3. \A w : Of(w) \subseteq Of(w)' /\ (Of(w)' \cap steady' \subseteq Of(w) \cap steady)
  BY <1>1 DEF Of, TypeOK
<1>4. TypeOK'
  BY <1>1, <1>2 DEF TypeOK, Observed
<1>5. OneWorkAtATime'
  BY <1>1 DEF OneWorkAtATime
<1>6. Observed'
  BY <1>1 DEF Observed
<1>7. FlagMeansUnread'
  BY <1>1, <1>3 DEF FlagMeansUnread
<1>8. YetToFlag'
  BY <1>1, <1>3 DEF YetToFlag
<1> QED BY <1>4, <1>5, <1>6, <1>7, <1>8

LEMMA MeanwhileKeeps ==
    ASSUME ListInv,
           \/ \E w \in Works : Write(w) \/ DeleteWork(w)
           \/ \E c \in DOMAIN comments : Edit(c) \/ Read(c) \/ DeleteComment(c)
    PROVE  ListInv'
<1>1. TypeOK
  BY DEF ListInv
<1>2. ASSUME NEW w \in Works, Write(w) PROVE ListInv'
  <2> DEFINE new == [work |-> w, deleted |-> FALSE]
  <2>1. new \in Comment /\ comments' = Append(comments, new) /\ Len(comments) < MaxComments
    BY <1>2 DEF Write, Comment
  <2>2. /\ comments' \in Seq(Comment) /\ Len(comments') = Len(comments) + 1
        /\ \A c \in DOMAIN comments : comments'[c] = comments[c]
        /\ DOMAIN comments = 1..Len(comments) /\ DOMAIN comments' = 1..Len(comments')
        /\ Len(comments) \in Nat
    BY <1>1, <2>1 DEF TypeOK
  <2>3. Len(comments') <= MaxComments /\ DOMAIN comments \subseteq DOMAIN comments'
    BY <2>1, <2>2, WorkListAssumption
  <2>4. unread' \subseteq DOMAIN comments' /\ works' \subseteq Works
    BY <1>1, <1>2, <2>2 DEF Write, TypeOK
  <2> QED BY <1>2, <2>2, <2>3, <2>4, ObserveKeeps DEF Write
<1>3. ASSUME NEW w \in Works, DeleteWork(w) PROVE ListInv'
  BY <1>1, <1>3, ObserveKeeps DEF DeleteWork, TypeOK
<1>4. ASSUME NEW c \in DOMAIN comments, Edit(c) PROVE ListInv'
  BY <1>1, <1>4, ObserveKeeps DEF Edit, TypeOK
<1>5. ASSUME NEW c \in DOMAIN comments, Read(c) PROVE ListInv'
  BY <1>1, <1>5, ObserveKeeps DEF Read, TypeOK
<1>6. ASSUME NEW c \in DOMAIN comments, DeleteComment(c) PROVE ListInv'
  <2> DEFINE gone == [comments[c] EXCEPT !.deleted = TRUE]
  <2>1. comments[c] \in Comment
    BY <1>1 DEF TypeOK
  <2>2. gone \in Comment /\ gone.work = comments[c].work
    BY <2>1 DEF Comment
  <2>3. comments' = [comments EXCEPT ![c] = gone]
    BY <1>6 DEF DeleteComment
  <2> HIDE DEF gone
  <2>4. /\ comments' \in Seq(Comment) /\ Len(comments') = Len(comments)
        /\ DOMAIN comments' = DOMAIN comments
        /\ \A d \in DOMAIN comments : comments'[d].work = comments[d].work
    BY <1>1, <2>2, <2>3 DEF TypeOK
  <2> QED BY <1>1, <1>6, <2>4, ObserveKeeps DEF DeleteComment, TypeOK
<1> QED BY <1>2, <1>3, <1>4, <1>5, <1>6

-----------------------------------------------------------------------------
(* The request.                                                             *)

LEMMA StartKeeps ==
    ASSUME ListInv, NEW order \in Columns, NEW offset \in Offsets, Start(order, offset)
    PROVE  ListInv'
<1>1. TypeOK
  BY DEF ListInv
<1>2. /\ req' \in Request /\ req'.at = "find"
      /\ req'.works = {} /\ req'.work = {} /\ req'.todo = {}
  BY NoRequestFields DEF Start, Request
<1>3. DOMAIN flag' = {} /\ Listed' = {}
  BY DEF Start, Listed
<1>4. works' = works /\ comments' = comments /\ unread' = unread /\ failures' = failures
  BY DEF Start, env
<1>5. /\ Live' = Live /\ Live \subseteq DOMAIN comments
      /\ steady' = Live \cap unread /\ there' = Live /\ ever' = Live \cap unread
      /\ unsure' = {}
  BY <1>4 DEF Start, Live
<1>6. TypeOK'
  BY <1>1, <1>2, <1>3, <1>4, <1>5 DEF TypeOK
<1>7. OneWorkAtATime' /\ Observed'
  BY <1>2, <1>3, <1>4, <1>5 DEF OneWorkAtATime, Observed
<1>8. FlagMeansUnread' /\ YetToFlag'
  BY <1>3 DEF FlagMeansUnread, YetToFlag
<1> QED BY <1>6, <1>7, <1>8 DEF ListInv

\* A step of the request that adds no work to the answer and sees no comment.
LEMMA StepKeeps ==
    ASSUME ListInv, UNCHANGED <<env, flag, failures, steady, there, ever, unsure>>,
           req' \in Request, req'.offset = req.offset,
           req.at # "failed" \/ req'.at = "failed", req'.at # "comments",
           req'.at # "find",
           req.todo = {}, req'.todo = {}, req'.work = {}, req'.works \cap Listed = {}
    PROVE  ListInv'
<1> USE DEF ListInv
<1>1. /\ works' = works /\ comments' = comments /\ unread' = unread
      /\ flag' = flag /\ failures' = failures /\ steady' = steady /\ there' = there
      /\ ever' = ever /\ unsure' = unsure
  BY DEF env
<1>2. Listed' = Listed /\ Live' = Live /\ \A w : Of(w)' = Of(w)
  BY <1>1 DEF Listed, Live, Of
<1>3. TypeOK'
  BY <1>1, <1>2 DEF TypeOK
<1>4. OneWorkAtATime' /\ Observed'
  BY <1>1, <1>2 DEF OneWorkAtATime, Observed
<1>5. FlagMeansUnread'
  BY <1>1, <1>2 DEF FlagMeansUnread
<1>6. YetToFlag'
  BY <1>1, <1>2 DEF YetToFlag
<1> QED BY <1>3, <1>4, <1>5, <1>6

LEMMA FindKeeps ==
    ASSUME ListInv, Find
    PROVE  ListInv'
<1> USE DEF ListInv
<1>1. PICK found \in SUBSET works : \E some \in Rest(found, req.offset) :
          req' = [req EXCEPT !.at = "count", !.works = some]
  BY DEF Find
<1>2. PICK some \in SUBSET Works : req' = [req EXCEPT !.at = "count", !.works = some]
  BY <1>1 DEF Rest, TypeOK
<1>3. /\ req' \in Request /\ req'.offset = req.offset /\ req'.at = "count"
      /\ req'.works = some /\ req'.work = req.work /\ req'.todo = req.todo
  BY <1>2 DEF TypeOK, Request
<1>4. req.at = "find" /\ req.work = {} /\ req.todo = {} /\ Listed = {}
  BY DEF Find, OneWorkAtATime
<1> QED BY <1>3, <1>4, StepKeeps DEF Find

LEMMA OtherStepsKeep ==
    ASSUME ListInv, Count \/ NextWork \/ Answer
    PROVE  ListInv'
<1> USE DEF ListInv
<1>1. /\ req' \in Request /\ req'.offset = req.offset /\ req'.works = req.works
      /\ req'.at \in {"works", "answer"} /\ req'.todo = {} /\ req'.work = {}
      /\ req.todo = {} /\ req.at # "failed"
  <2>1. CASE Count
    BY <2>1 DEF Count, TypeOK, OneWorkAtATime, Request
  <2>2. CASE NextWork
    BY <2>2 DEF NextWork, TypeOK, OneWorkAtATime, Request
  <2>3. CASE Answer
    BY <2>3 DEF Answer, TypeOK, OneWorkAtATime, Request
  <2> QED BY <2>1, <2>2, <2>3
<1>2. req'.works \cap Listed = {}
  BY <1>1 DEF TypeOK
<1>3. UNCHANGED <<env, flag, failures, steady, there, ever, unsure>>
  BY DEF Count, NextWork, Answer
<1> QED BY <1>1, <1>2, <1>3, StepKeeps

LEMMA RequestFailsKeeps ==
    ASSUME ListInv, RequestFails
    PROVE  ListInv'
<1> USE DEF ListInv
<1>1. req' = NoRequest /\ DOMAIN flag' = {} /\ Listed' = {}
  BY DEF RequestFails, Listed
<1>2. /\ works' = works /\ comments' = comments /\ unread' = unread
      /\ steady' = steady /\ there' = there /\ ever' = ever /\ unsure' = unsure /\ Live' = Live
  BY DEF RequestFails, env, Live
<1>3. failures' \in 0..MaxFailures
  BY WorkListAssumption DEF RequestFails, Fails, TypeOK
<1>4. TypeOK'
  BY <1>1, <1>2, <1>3, NoRequestFields DEF TypeOK
<1>5. OneWorkAtATime' /\ Observed'
  BY <1>1, <1>2, NoRequestFields DEF OneWorkAtATime, Observed
<1>6. FlagMeansUnread' /\ YetToFlag'
  BY <1>1 DEF FlagMeansUnread, YetToFlag
<1> QED BY <1>4, <1>5, <1>6

\* The next work has no flag yet, and all its comments are yet to be looked at.
LEMMA FindCommentsKeeps ==
    ASSUME ListInv, NEW w \in Works, FindComments(w)
    PROVE  ListInv'
<1> USE DEF ListInv
<1> DEFINE here == {c \in Live : comments[c].work = w}
<1>1. PICK some \in Rest(here, req.offset) :
          req' = [req EXCEPT !.at = "comments", !.works = @ \ {w}, !.work = {w}, !.todo = some]
  BY DEF FindComments
<1>2. req.at = "works" /\ w \in req.works /\ w \notin Listed /\ req.work = {}
  BY DEF FindComments, TypeOK, OneWorkAtATime
<1>3. some \subseteq here /\ here \subseteq DOMAIN comments /\ some \in SUBSET Nat
  BY DomainIsFinite DEF Rest, Live
<1>4. /\ req' \in Request /\ req'.at = "comments" /\ req'.offset = req.offset
      /\ req'.works = req.works \ {w} /\ req'.work = {w} /\ req'.todo = some
  BY <1>1, <1>3 DEF TypeOK, Request
<1>5. /\ flag' = [v \in Listed \cup {w} |-> IF v = w THEN FALSE ELSE flag[v]]
      /\ works' = works /\ comments' = comments /\ unread' = unread /\ failures' = failures
      /\ steady' = steady /\ there' = there /\ ever' = ever /\ unsure' = unsure
  BY DEF FindComments, env
<1>6. /\ Listed' = Listed \cup {w} /\ flag'[w] = FALSE /\ \A v \in Listed : flag'[v] = flag[v]
  BY <1>2, <1>5 DEF Listed
<1>7. Live' = Live /\ \A v : Of(v)' = Of(v)
  BY <1>5 DEF Live, Of
<1>8. TypeOK'
  BY <1>2, <1>3, <1>4, <1>5, <1>6 DEF TypeOK
<1>9. OneWorkAtATime'
  BY <1>4 DEF OneWorkAtATime
<1>10. Observed'
  BY <1>2, <1>3, <1>4, <1>5, <1>7 DEF Observed, Live
<1>11. FlagMeansUnread'
  BY <1>5, <1>6, <1>7 DEF FlagMeansUnread
<1>12. YetToFlag'
  <2> SUFFICES ASSUME req.offset = 0, NEW v \in Listed \cup {w}, NEW c \in Of(v) \cap steady
               PROVE  flag'[v] \/ v \in unsure \/ (v \in {w} /\ c \in some)
    BY <1>4, <1>5, <1>6, <1>7 DEF YetToFlag
  <2>1. CASE v = w
    <3>1. c \in here
      BY <2>1 DEF Of, Observed
    <3>2. some = here
      BY <1>1, <1>3, DomainIsFinite, FS_Subset, RestIsAll
    <3> QED BY <2>1, <3>1, <3>2
  <2>2. CASE v # w
    BY <1>2, <1>6, <2>2 DEF YetToFlag
  <2> QED BY <2>1, <2>2
<1> QED BY <1>8, <1>9, <1>10, <1>11, <1>12

\* An unread comment of the work raises its flag, and no other.
LEMMA LookKeeps ==
    ASSUME ListInv, NEW c \in DOMAIN comments, Look(c)
    PROVE  ListInv'
<1> USE DEF ListInv
<1>1. req.at = "comments" /\ c \in req.todo /\ c \in there /\ comments[c].work \in req.work
  BY DEF Look, TypeOK, Observed
<1>2. /\ req' \in Request /\ req'.at = "comments" /\ req'.offset = req.offset
      /\ req'.works = req.works /\ req'.work = req.work /\ req'.todo = req.todo \ {c}
  BY <1>1 DEF Look, TypeOK, Request
<1>3. /\ works' = works /\ comments' = comments /\ unread' = unread
      /\ steady' = steady /\ there' = there /\ ever' = ever
      /\ Live' = Live /\ \A v : Of(v)' = Of(v)
  BY DEF Look, env, Live, Of
<1>4. CASE /\ flag' = [w \in Listed |-> flag[w] \/ (w \in req.work /\ c \in unread)]
           /\ UNCHANGED <<failures, unsure>>
  <2>1. /\ Listed' = Listed
        /\ \A w \in Listed : flag'[w] = (flag[w] \/ (w \in req.work /\ c \in unread))
    BY <1>4 DEF Listed
  <2>2. \A w \in Listed : flag'[w] \in BOOLEAN
    BY <2>1
  <2>3. TypeOK'
    BY <1>1, <1>2, <1>3, <1>4, <2>1, <2>2 DEF TypeOK
  <2>4. OneWorkAtATime' /\ Observed'
    BY <1>1, <1>2, <1>3 DEF OneWorkAtATime, Observed
  <2>5. FlagMeansUnread'
    <3> SUFFICES ASSUME NEW w \in Listed, flag'[w] PROVE Of(w) \cap ever # {}
      BY <1>3, <2>1 DEF FlagMeansUnread
    <3>1. CASE flag[w]
      BY <3>1 DEF FlagMeansUnread
    <3>2. CASE w \in req.work /\ c \in unread
      <4>1. c \in Of(w)
        BY <1>1, <3>2 DEF OneWorkAtATime, Of
      <4>2. c \in ever
        BY <1>1, <3>2 DEF Observed
      <4> QED BY <4>1, <4>2
    <3> QED BY <2>1, <3>1, <3>2
  <2>6. YetToFlag'
    <3> SUFFICES ASSUME req.offset = 0, NEW w \in Listed, NEW d \in Of(w) \cap steady
                 PROVE  flag'[w] \/ w \in unsure \/ (w \in req.work /\ d \in req.todo \ {c})
      BY <1>2, <1>3, <1>4, <2>1 DEF YetToFlag
    <3>1. flag[w] \/ w \in unsure \/ (w \in req.work /\ d \in req.todo)
      BY DEF YetToFlag
    <3>2. d \in unread
      BY DEF Observed
    <3> QED BY <2>1, <3>1, <3>2
  <2> QED BY <2>3, <2>4, <2>5, <2>6
<1>5. CASE Fails /\ unsure' = unsure \cup req.work /\ UNCHANGED flag
  <2>1. Listed' = Listed
    BY <1>5 DEF Listed
  <2>2. failures' \in 0..MaxFailures
    BY <1>5, WorkListAssumption DEF Fails, TypeOK
  <2>3. TypeOK'
    BY <1>1, <1>2, <1>3, <1>5, <2>1, <2>2 DEF TypeOK, Request
  <2>4. OneWorkAtATime' /\ Observed'
    BY <1>1, <1>2, <1>3 DEF OneWorkAtATime, Observed
  <2>5. FlagMeansUnread'
    BY <1>3, <1>5, <2>1 DEF FlagMeansUnread
  <2>6. YetToFlag'
    BY <1>2, <1>3, <1>5, <2>1 DEF YetToFlag
  <2> QED BY <2>3, <2>4, <2>5, <2>6
<1> QED BY <1>4, <1>5 DEF Look

-----------------------------------------------------------------------------
(* All steps.                                                               *)

LEMMA NextKeeps == ListInv /\ [Next]_vars => ListInv'
<1> SUFFICES ASSUME ListInv, [Next]_vars PROVE ListInv'
  OBVIOUS
<1>1. ASSUME NEW w \in Works, Write(w) \/ DeleteWork(w) PROVE ListInv'
  BY <1>1, MeanwhileKeeps
<1>2. ASSUME NEW c \in DOMAIN comments, Edit(c) \/ Read(c) \/ DeleteComment(c) PROVE ListInv'
  BY <1>2, MeanwhileKeeps
<1>3. ASSUME NEW order \in Columns, NEW offset \in Offsets, Start(order, offset) PROVE ListInv'
  BY <1>3, StartKeeps
<1>4. ASSUME Find PROVE ListInv'
  BY <1>4, FindKeeps
<1>5. ASSUME Count \/ NextWork \/ Answer PROVE ListInv'
  BY <1>5, OtherStepsKeep
<1>6. ASSUME NEW w \in Works, FindComments(w) PROVE ListInv'
  BY <1>6, FindCommentsKeeps
<1>7. ASSUME RequestFails PROVE ListInv'
  BY <1>7, RequestFailsKeeps
<1>8. ASSUME NEW c \in DOMAIN comments, Look(c) PROVE ListInv'
  BY <1>8, LookKeeps
<1>9. ASSUME UNCHANGED vars PROVE ListInv'
  BY <1>9 DEF vars, ListInv, TypeOK, OneWorkAtATime, Observed, FlagMeansUnread, YetToFlag,
              Listed, Live, Of
<1> QED BY <1>1, <1>2, <1>3, <1>4, <1>5, <1>6, <1>7, <1>8, <1>9 DEF Next

\* A request deals with one work at a time and has seen, or has yet to look at,
\* every comment that is unread all the while (work/service.go 208-260).
THEOREM Invariant == Spec => []ListInv
<1> QED BY InitListInv, NextKeeps, PTL DEF Spec

\* A request looks at comments of the work it is at, and answers for works it has
\* dealt with only (work/service.go 208-260).
THEOREM TypeCorrect == Spec => []TypeOK
<1>1. ListInv => TypeOK
  BY DEF ListInv
<1> QED BY <1>1, Invariant, PTL

\* A flag is raised by a comment that was there and unread while the request ran
\* (work/service.go 217-228).
THEOREM FlagsAreUnread == Spec => []FlagMeansUnread
<1>1. ListInv => FlagMeansUnread
  BY DEF ListInv
<1> QED BY <1>1, Invariant, PTL

\* From its start, the list flags each work with a comment that is unread all the
\* while, but for those a GET failed for (work/service.go 217-228).
THEOREM UnreadAreFlagged == Spec => []UnreadIsFlagged
<1>1. ListInv => UnreadIsFlagged
  BY DEF ListInv, OneWorkAtATime, YetToFlag, UnreadIsFlagged
<1> QED BY <1>1, Invariant, PTL

-----------------------------------------------------------------------------
(* Reports: what a sum is.                                                  *)

\* What a set of numbers has that has 0, and n + 1 with n.
LEMMA AllNumbers ==
    ASSUME NEW A, 0 \in A, \A n \in Nat : n \in A => n + 1 \in A
    PROVE  Nat \subseteq A
<1> DEFINE R == OpToRel(<, Nat)
<1> SUFFICES ASSUME Nat \ A # {} PROVE FALSE
  OBVIOUS
<1>1. IsWellFoundedOn(R, Nat)
  BY NatLessThanWellFounded
<1> HIDE DEF R
<1>2. PICK n \in Nat \ A : \A m \in Nat \ A : ~ (<<m, n>> \in R)
  <2>1. Nat \ A \subseteq Nat
    OBVIOUS
  <2> QED BY <1>1, <2>1, WFMin, Zenon
<1>3. n # 0 /\ n - 1 \in Nat /\ n - 1 < n
  BY <1>2
<1>4. <<n - 1, n>> \in R
  BY <1>2, <1>3 DEF R, OpToRel
<1>5. n - 1 \in A
  BY <1>2, <1>3, <1>4
<1>6. n - 1 + 1 = n
  BY <1>2
<1> QED BY <1>2, <1>3, <1>5, <1>6

\* One step of the sum: some group, and the rest.
SumStep(f, s) ==
    IF s = {} THEN 0 ELSE LET g == CHOOSE x \in s : TRUE IN g.count + f[s \ {g}]

LEMMA SumIsDefined ==
    ASSUME NEW S, IsFiniteSet(S)
    PROVE  \E f : f = [s \in SUBSET S |-> SumStep(f, s)]
<1> DEFINE Small(n) == {s \in SUBSET S : Cardinality(s) <= n}
           A == {n \in Nat : \E f : f = [s \in Small(n) |-> SumStep(f, s)]}
<1>1. \A s \in SUBSET S : IsFiniteSet(s) /\ Cardinality(s) \in Nat /\ Cardinality(s) <= Cardinality(S)
  BY FS_Subset, FS_CardinalityType
<1>2. 0 \in A
  <2>1. \A s \in Small(0) : s = {}
    BY <1>1, FS_EmptySet
  <2> DEFINE z == [s \in Small(0) |-> 0]
  <2>2. z = [s \in Small(0) |-> SumStep(z, s)]
    BY <2>1 DEF SumStep
  <2> QED BY <2>2
<1>3. ASSUME NEW n \in Nat, n \in A PROVE n + 1 \in A
  <2>1. PICK f : f = [s \in Small(n) |-> SumStep(f, s)]
    BY <1>3
  <2> DEFINE h == [s \in Small(n + 1) |-> SumStep(f, s)]
  <2>2. \A s \in Small(n) : s \in Small(n + 1) /\ h[s] = f[s]
    <3> SUFFICES ASSUME NEW s \in Small(n) PROVE s \in Small(n + 1) /\ h[s] = f[s]
      OBVIOUS
    <3>1. s \in Small(n + 1)
      BY <1>1
    <3>2. f[s] = SumStep(f, s)
      BY <2>1, Zenon
    <3> HIDE DEF Small
    <3> QED BY <3>1, <3>2
  <2>3. ASSUME NEW s \in Small(n + 1) PROVE SumStep(h, s) = SumStep(f, s)
    <3> DEFINE g == CHOOSE x \in s : TRUE
    <3>1. CASE s = {}
      BY <3>1 DEF SumStep
    <3>2. CASE s # {}
      <4>1. g \in s
        BY <3>2
      <4> HIDE DEF g
      <4>2. s \ {g} \in Small(n)
        BY <1>1, <4>1, FS_RemoveElement
      <4>3. h[s \ {g}] = f[s \ {g}]
        BY <2>2, <4>2
      <4> HIDE DEF h, Small
      <4> QED BY <3>2, <4>3 DEF SumStep, g
    <3> QED BY <3>1, <3>2
  <2>4. h = [s \in Small(n + 1) |-> SumStep(h, s)]
    <3> HIDE DEF Small
    <3> QED BY <2>3
  <2>5. \E e : e = [s \in Small(n + 1) |-> SumStep(e, s)]
    <3> HIDE DEF h, Small
    <3> QED BY <2>4
  <2> QED BY <2>5
<1> HIDE DEF A
<1>4. Cardinality(S) \in A
  BY <1>2, <1>3, AllNumbers, FS_CardinalityType
<1>5. Small(Cardinality(S)) = SUBSET S
  BY <1>1
<1> QED BY <1>4, <1>5 DEF A

LEMMA TotalUnfolds ==
    ASSUME NEW S, IsFiniteSet(S)
    PROVE  \E f : Total(S) = f[S] /\ f = [s \in SUBSET S |-> SumStep(f, s)]
<1>1. Total(S) = (CHOOSE f : f = [s \in SUBSET S |-> SumStep(f, s)])[S]
  BY DEF Total, MapThenSumSet, MapThenFoldSet, SumStep
<1>2. (CHOOSE f : f = [s \in SUBSET S |-> SumStep(f, s)])
        = [s \in SUBSET S |-> SumStep((CHOOSE f : f = [t \in SUBSET S |-> SumStep(f, t)]), s)]
  BY SumIsDefined, Zenon
<1> QED BY <1>1, <1>2, Zenon

\* Groups with distinct keys that count the members of a finite set with that key
\* add up to the members with one of the keys.
LEMMA TotalCounts ==
    ASSUME NEW J, IsFiniteSet(J), NEW h, NEW S, IsFiniteSet(S),
           \A g \in S : g.count = Cardinality({i \in J : h[i] = g.key}),
           \A a, b \in S : a.key = b.key => a = b
    PROVE  Total(S) = Cardinality({i \in J : \E g \in S : h[i] = g.key})
<1> DEFINE Having(s) == {i \in J : \E g \in s : h[i] = g.key}
           A == {n \in Nat : \A s \in SUBSET S : Cardinality(s) <= n => TRUE}
<1>1. PICK f : Total(S) = f[S] /\ f = [s \in SUBSET S |-> SumStep(f, s)]
  BY TotalUnfolds
<1> DEFINE B == {n \in Nat : \A s \in SUBSET S : Cardinality(s) = n => f[s] = Cardinality(Having(s))}
<1>2. \A s \in SUBSET S : IsFiniteSet(s) /\ Cardinality(s) \in Nat
  BY FS_Subset, FS_CardinalityType
<1>3. 0 \in B
  <2> SUFFICES ASSUME NEW s \in SUBSET S, Cardinality(s) = 0 PROVE f[s] = Cardinality(Having(s))
    OBVIOUS
  <2>1. s = {}
    BY <1>2, FS_EmptySet
  <2>2. f[s] = 0
    BY <1>1, <2>1 DEF SumStep
  <2>3. Having(s) = {}
    BY <2>1
  <2> QED BY <2>2, <2>3, FS_EmptySet
<1>4. ASSUME NEW n \in Nat, n \in B PROVE n + 1 \in B
  <2> SUFFICES ASSUME NEW s \in SUBSET S, Cardinality(s) = n + 1 PROVE f[s] = Cardinality(Having(s))
    OBVIOUS
  <2>1. s # {}
    BY FS_EmptySet
  <2> DEFINE g == CHOOSE x \in s : TRUE
  <2>2. g \in s
    BY <2>1
  <2>3. f[s] = g.count + f[s \ {g}]
    BY <1>1, <2>1 DEF SumStep
  <2> HIDE DEF g
  <2>4. s \ {g} \in SUBSET S /\ Cardinality(s \ {g}) = n
    <3>1. Cardinality(s \ {g}) = Cardinality(s) - 1
      BY <1>2, <2>2, FS_RemoveElement
    <3> QED BY <3>1
  <2>5. f[s \ {g}] = Cardinality(Having(s \ {g}))
    BY <1>4, <2>4
  <2> DEFINE mine == {i \in J : h[i] = g.key}
  <2>6. IsFiniteSet(mine) /\ IsFiniteSet(Having(s \ {g}))
    BY FS_Subset
  <2>7. Having(s) = mine \cup Having(s \ {g})
    BY <2>2
  <2>8. mine \cap Having(s \ {g}) = {}
    BY <2>2
  <2>9. g.count = Cardinality(mine)
    BY <2>2
  <2> HIDE DEF mine, Having
  <2>10. Cardinality(Having(s)) = Cardinality(mine) + Cardinality(Having(s \ {g})) - Cardinality(mine \cap Having(s \ {g}))
    BY <2>6, <2>7, FS_Union
  <2>11. Cardinality(mine) \in Nat /\ Cardinality(Having(s \ {g})) \in Nat
    BY <2>6, FS_CardinalityType
  <2>12. Cardinality(mine \cap Having(s \ {g})) = 0
    BY <2>8, FS_EmptySet
  <2>13. Cardinality(Having(s)) = Cardinality(mine) + Cardinality(Having(s \ {g}))
    BY <2>10, <2>11, <2>12
  <2> QED BY <2>3, <2>5, <2>9, <2>13
<1> HIDE DEF B
<1>5. Cardinality(S) \in B
  BY <1>3, <1>4, AllNumbers, FS_CardinalityType
<1> QED BY <1>1, <1>5 DEF B

-----------------------------------------------------------------------------
(* Reports: what the helpers give.                                           *)

LEMMA Elements ==
    ASSUME NEW Row, NEW s \in Seq(Row)
    PROVE  DOMAIN s = 1..Len(s) /\ Len(s) \in Nat /\ \A i \in DOMAIN s : s[i] \in Row
OBVIOUS

LEMMA WorksAreFinite ==
    ASSUME ReportsTypeOK
    PROVE  /\ WorkIds = 1..Len(work) /\ Len(work) \in Nat /\ IsFiniteSet(WorkIds)
           /\ \A S \in SUBSET WorkIds :
                 IsFiniteSet(S) /\ Cardinality(S) \in Nat /\ Cardinality(S) <= Len(work)
<1>1. WorkIds = 1..Len(work) /\ Len(work) \in Nat
  BY DEF ReportsTypeOK, WorkIds
<1>2. IsFiniteSet(WorkIds) /\ Cardinality(WorkIds) = Len(work)
  BY <1>1, FS_Interval
<1> QED BY <1>1, <1>2, FS_Subset, FS_CardinalityType

\* From the start, a query leaves nothing out.
LEMMA FromStart ==
    ASSUME NEW S, IsFiniteSet(S), report.skip = 0, NEW found \in From(S)
    PROVE  found = S
<1>1. Cardinality(S) \in Nat
  BY FS_CardinalityType
<1>2. found \in SUBSET S /\ Cardinality(found) = Max({Cardinality(S) - 0, 0})
  BY DEF From
<1>3. Cardinality(S) - 0 = Cardinality(S)
  BY <1>1
<1>4. Max({Cardinality(S), 0}) = Cardinality(S)
  BY <1>1 DEF Max
<1> QED BY <1>2, <1>3, <1>4, FS_Subset

\* A row joins to its task type, for types stay.
LEMMA AllJoin ==
    ASSUME ReportsTypeOK, NEW by
    PROVE  Joined(by) = Matching /\ Matching \subseteq WorkIds
BY DEF ReportsTypeOK, Joined, Matching

LEMMA GroupsOfWorks ==
    ASSUME ReportsTypeOK, NEW by
    PROVE  /\ IsFiniteSet(Grouped(by))
           /\ \A g \in Grouped(by) :
                 g.by = by /\ g.count \in 1..MaxWorks
           /\ Total(Grouped(by)) = Cardinality(Matching)
<1> DEFINE J == Matching
           h == [i \in J |-> work[i][by]]
           Keys == {h[i] : i \in J}
           Many(k) == Cardinality({i \in J : h[i] = k})
<1>1. IsFiniteSet(J) /\ J \subseteq WorkIds /\ Joined(by) = J
  BY AllJoin, WorksAreFinite
<1>2. Grouped(by) = {[by |-> by, key |-> k, count |-> Many(k)] : k \in Keys}
  <2>1. {work[i][by] : i \in J} = Keys
    OBVIOUS
  <2>2. ASSUME NEW k PROVE Cardinality({i \in J : work[i][by] = k}) = Many(k)
    <3>1. {i \in J : work[i][by] = k} = {i \in J : h[i] = k}
      OBVIOUS
    <3> QED BY <3>1
  <2>3. Grouped(by) = {[by |-> by, key |-> k, count |-> Cardinality({i \in J : work[i][by] = k})] :
                         k \in {work[i][by] : i \in J}}
    BY <1>1 DEF Grouped
  <2> HIDE DEF Keys, Many, J
  <2> QED BY <2>1, <2>2, <2>3
<1>3. \A g \in Grouped(by) : g.by = by /\ g.key \in Keys /\ g.count = Many(g.key)
  <2> HIDE DEF Keys, Many
  <2> QED BY <1>2
<1>4. \A a, b \in Grouped(by) : a.key = b.key => a = b
  <2> HIDE DEF Keys, Many
  <2> QED BY <1>2
<1>5. IsFiniteSet(Grouped(by))
  <2> DEFINE G == [i \in J |-> [by |-> by, key |-> h[i], count |-> Many(h[i])]]
  <2>1. G \in Surjection(J, Grouped(by))
    <3> HIDE DEF Many, h, J
    <3> QED BY <1>2 DEF Surjection
  <2> HIDE DEF G, J
  <2> QED BY <1>1, <2>1, FS_Surjection
<1>6. \A k \in Keys : Many(k) \in 1..MaxWorks
  <2> SUFFICES ASSUME NEW j \in J PROVE Many(h[j]) \in 1..MaxWorks
    OBVIOUS
  <2> DEFINE same == {i \in J : h[i] = h[j]}
  <2>1. same \in SUBSET WorkIds /\ same # {}
    BY <1>1
  <2>2. Cardinality(same) \in Nat /\ Cardinality(same) <= Len(work) /\ IsFiniteSet(same)
    BY <1>1, <2>1, WorksAreFinite
  <2>3. Cardinality(same) # 0
    BY <2>1, <2>2, FS_EmptySet
  <2>4. Len(work) <= MaxWorks /\ Len(work) \in Nat /\ MaxWorks \in Nat
    BY WorksAreFinite, ReportsAssumption DEF ReportsTypeOK
  <2> HIDE DEF same
  <2>5. Cardinality(same) \in 1..MaxWorks
    BY <2>2, <2>3, <2>4
  <2> QED BY <2>5 DEF same
<1>7. Total(Grouped(by)) = Cardinality({i \in J : \E g \in Grouped(by) : h[i] = g.key})
  <2> HIDE DEF J, h, Keys
  <2> QED BY <1>1, <1>3, <1>4, <1>5, TotalCounts
<1>8. {i \in J : \E g \in Grouped(by) : h[i] = g.key} = J
  <2> SUFFICES ASSUME NEW i \in J PROVE \E g \in Grouped(by) : h[i] = g.key
    OBVIOUS
  <2> DEFINE k == h[i]
             g == [by |-> by, key |-> k, count |-> Many(k)]
  <2>1. k \in Keys
    OBVIOUS
  <2> HIDE DEF k, Keys, Many
  <2>2. g \in Grouped(by) /\ g.key = k
    BY <1>2, <2>1
  <2> QED BY <2>2 DEF k
<1> QED BY <1>3, <1>5, <1>6, <1>7, <1>8

-----------------------------------------------------------------------------
(* Reports: initially.                                                       *)

LEMMA InitReportsInv == ReportsInit => ReportsInv
<1> SUFFICES ASSUME ReportsInit PROVE ReportsInv
  OBVIOUS
<1>1. /\ {MaxTypes, MaxWorks, MaxAsked, MaxChanges} \subseteq Nat /\ MaxTypes > 0
      /\ TASK_ID_DAILY \in Tasks
  BY ReportsAssumption
<1> DEFINE Row == [name : Names, state : States]
<1>2. user \in [Users -> Row] /\ \A u \in Users : user[u].name \in Names
  BY DEF ReportsInit, States
<1>3. task_type \in Seq(Row) /\ Len(task_type) = 1 /\ TypeIds = {1} /\ task_type[1].name \in Names
  <2>1. task_type \in [1..1 -> Row] /\ 1..1 = {1}
    BY DEF ReportsInit, States
  <2> HIDE DEF Row
  <2>2. \A n \in Nat : \A s \in [1..n -> Row] : s \in Seq(Row) /\ Len(s) = n
    OBVIOUS
  <2>3. task_type \in Seq(Row) /\ Len(task_type) = 1
    BY <2>1, <2>2
  <2>4. task_type[1] \in Row
    BY <2>1
  <2> QED BY <2>1, <2>3, <2>4 DEF TypeIds, Row
<1>4. work = <<>> /\ work \in Seq(Work) /\ Len(work) = 0 /\ WorkIds = {}
  BY DEF ReportsInit, WorkIds
<1>5. report = NoReport /\ report \in Report /\ report.kind = "none" /\ report.left = {}
  BY <1>1 DEF ReportsInit, NoReport, Report
<1>6. /\ lines = {} /\ groups = {} /\ asked = {} /\ changes = 0 /\ matched = 0
      /\ DOMAIN names = Named /\ \A x \in Named : names[x] = {}
  BY DEF ReportsInit
<1>7. ReportsTypeOK
  BY <1>1, <1>2, <1>3, <1>4, <1>5, <1>6 DEF ReportsTypeOK
<1> QED BY <1>5, <1>6, <1>7 DEF ReportsInv, AskedOK, LeftOK, LinesOK, SumsOK, Summary

-----------------------------------------------------------------------------
(* Reports: the writers of the tables.                                       *)

\* What a writer has to keep; a report goes on with what it has.
LEMMA TablesKeep ==
    ASSUME ReportsInv, Tables,
           user' \in [Users -> [name : Names, state : States]],
           task_type' \in Seq([name : Names, state : States]), Len(task_type') <= MaxTypes,
           TypeIds \subseteq TypeIds',
           work' \in Seq(Work), Len(work') <= MaxWorks, WorkIds \subseteq WorkIds',
           \A i \in WorkIds' : work'[i].type \in TypeIds',
           asked' \subseteq [id : 0..MaxWorks, work : Work, columns : SUBSET {"task", "type", "floor"}],
           AskedOK',
           changes' \in 0..MaxChanges
    PROVE  ReportsInv'
<1> USE DEF ReportsInv
<1>1. /\ report' = report /\ lines' = lines /\ groups' = groups /\ matched' = matched
      /\ names' = [x \in Named' |-> IF report.kind # "export" THEN {}
                                    ELSE (IF x \in Named THEN names[x] ELSE {}) \cup {NameOf(x)'}]
  BY DEF Tables
<1>2. Named \subseteq Named'
  BY DEF Named
<1>3. \A x \in Named' : NameOf(x)' \in Names
  <2> SUFFICES ASSUME NEW x \in Named' PROVE NameOf(x)' \in Names
    OBVIOUS
  <2>1. CASE x \in {"user"} \X Users
    BY <2>1 DEF NameOf
  <2>2. CASE x \in {"type"} \X TypeIds'
    <3>1. x[1] = "type" /\ x[2] \in TypeIds'
      BY <2>2
    <3>2. \A i \in TypeIds' : task_type'[i] \in [name : Names, state : States]
      BY Elements, Zenon DEF TypeIds
    <3> QED BY <3>1, <3>2 DEF NameOf
  <2> QED BY <2>1, <2>2 DEF Named
<1>4. /\ DOMAIN names' = Named' /\ \A x \in Named' : names'[x] \subseteq Names
      /\ report.kind = "export" => \A x \in Named' : NameOf(x)' \in names'[x]
      /\ report.kind = "export" => \A x \in Named : names[x] \subseteq names'[x]
  <2>1. \A x \in Named : names[x] \subseteq Names
    BY DEF ReportsTypeOK
  <2>2. DOMAIN names' = Named'
    BY <1>1
  <2>3. ASSUME NEW x \in Named' PROVE names'[x] \subseteq Names
    BY <1>1, <1>3, <2>1
  <2>4. ASSUME report.kind = "export", NEW x \in Named' PROVE NameOf(x)' \in names'[x]
    BY <1>1, <2>4
  <2>5. ASSUME report.kind = "export", NEW x \in Named PROVE names[x] \subseteq names'[x]
    BY <1>1, <1>2, <2>5
  <2> QED BY <2>2, <2>3, <2>4, <2>5
<1>5. lines' \subseteq Line'
  BY <1>1 DEF ReportsTypeOK, Line
<1>6. ReportsTypeOK'
  BY <1>1, <1>4, <1>5 DEF ReportsTypeOK
<1>7. LeftOK'
  BY <1>1 DEF LeftOK
<1>8. LinesOK'
  <2>1. ASSUME NEW l \in lines
        PROVE  /\ l.type \in TypeIds'
               /\ "user" \notin report.left => l.userName \in names'[<<"user", l.user>>]
               /\ "type" \notin report.left => l.typeName \in names'[<<"type", l.type>>]
    <3>1. report.kind = "export" /\ l.type \in TypeIds /\ l.user \in Users
      BY DEF LinesOK, ReportsTypeOK, Line
    <3>2. <<"user", l.user>> \in Named /\ <<"type", l.type>> \in Named
      BY <3>1 DEF Named
    <3> QED BY <1>4, <3>1, <3>2 DEF LinesOK
  <2> QED BY <1>1, <1>4, <2>1 DEF LinesOK
<1>9. SumsOK'
  <2>1. Shown' = Shown /\ Summary' = Summary
    BY <1>1 DEF Shown, Summary
  <2> QED BY <1>1, <2>1 DEF SumsOK
<1> QED BY <1>6, <1>7, <1>8, <1>9

\* A bounded change leaves the number of changes within its bound.
LEMMA BoundedKeeps ==
    ASSUME ReportsTypeOK, Bounded
    PROVE  changes' \in 0..MaxChanges
BY ReportsAssumption DEF ReportsTypeOK, Bounded

LEMMA NamesKeep ==
    ASSUME ReportsInv,
           \/ \E u \in Users, n \in Names, s \in States : ChangeUser(u, n, s)
           \/ \E n \in Names : CreateType(n)
           \/ \E i \in TypeIds, n \in Names, s \in States : ChangeType(i, n, s)
    PROVE  ReportsInv'
<1> USE DEF ReportsInv
<1> DEFINE Row == [name : Names, state : States]
<1>0. /\ user \in [Users -> Row] /\ task_type \in Seq(Row) /\ Len(task_type) <= MaxTypes
      /\ TypeIds = 1..Len(task_type) /\ Len(task_type) \in Nat
      /\ work \in Seq(Work) /\ Len(work) <= MaxWorks
      /\ \A i \in WorkIds : work[i].type \in TypeIds
      /\ asked \subseteq [id : 0..MaxWorks, work : Work, columns : SUBSET {"task", "type", "floor"}]
      /\ changes \in 0..MaxChanges /\ AskedOK
  BY DEF ReportsTypeOK, TypeIds
<1>1. ASSUME NEW u \in Users, NEW n \in Names, NEW s \in States, ChangeUser(u, n, s)
      PROVE  ReportsInv'
  <2> DEFINE r == [name |-> n, state |-> s]
  <2>1. r \in Row
    OBVIOUS
  <2>2. /\ user' = [user EXCEPT ![u] = r] /\ Bounded /\ Tables
        /\ task_type' = task_type /\ work' = work /\ asked' = asked
    BY <1>1 DEF ChangeUser
  <2> HIDE DEF r, Row
  <2>3. user' \in [Users -> Row] /\ TypeIds' = TypeIds /\ WorkIds' = WorkIds
    BY <1>0, <2>1, <2>2 DEF TypeIds, WorkIds
  <2>4. AskedOK'
    BY <1>0, <2>2, <2>3 DEF AskedOK
  <2>5. changes' \in 0..MaxChanges
    BY <2>2, BoundedKeeps
  <2> QED BY <1>0, <2>2, <2>3, <2>4, <2>5, TablesKeep DEF Row
<1>2. ASSUME NEW n \in Names, CreateType(n) PROVE ReportsInv'
  <2> DEFINE r == [name |-> n, state |-> "live"]
  <2>1. r \in Row
    BY DEF States
  <2>2. /\ task_type' = Append(task_type, r) /\ Len(task_type) < MaxTypes /\ Tables
        /\ user' = user /\ work' = work /\ asked' = asked /\ changes' = changes
    BY <1>2 DEF CreateType
  <2> HIDE DEF r, Row
  <2>3. task_type' \in Seq(Row) /\ Len(task_type') = Len(task_type) + 1
    BY <1>0, <2>1, <2>2
  <2>4. Len(task_type') <= MaxTypes /\ TypeIds' = 1..Len(task_type')
    BY <1>0, <2>2, <2>3, ReportsAssumption DEF TypeIds
  <2>5. TypeIds \subseteq TypeIds' /\ WorkIds' = WorkIds
    BY <1>0, <2>2, <2>3, <2>4 DEF WorkIds
  <2>6. AskedOK'
    BY <1>0, <2>2, <2>5 DEF AskedOK
  <2> QED BY <1>0, <2>2, <2>3, <2>4, <2>5, <2>6, TablesKeep DEF Row
<1>3. ASSUME NEW i \in TypeIds, NEW n \in Names, NEW s \in States, ChangeType(i, n, s)
      PROVE  ReportsInv'
  <2> DEFINE r == [name |-> n, state |-> s]
  <2>1. r \in Row
    OBVIOUS
  <2>2. /\ task_type' = [task_type EXCEPT ![i] = r] /\ Bounded /\ Tables
        /\ user' = user /\ work' = work /\ asked' = asked
    BY <1>3 DEF ChangeType
  <2> HIDE DEF r, Row
  <2>3. /\ task_type' \in Seq(Row) /\ Len(task_type') = Len(task_type)
        /\ TypeIds' = TypeIds /\ WorkIds' = WorkIds
    BY <1>0, <2>1, <2>2 DEF TypeIds, WorkIds
  <2>4. AskedOK'
    BY <1>0, <2>2, <2>3 DEF AskedOK
  <2>5. changes' \in 0..MaxChanges
    BY <2>2, BoundedKeeps
  <2> QED BY <1>0, <2>2, <2>3, <2>4, <2>5, TablesKeep DEF Row
<1> QED BY <1>1, <1>2, <1>3

LEMMA WorksKeep ==
    ASSUME ReportsInv,
           \/ \E id \in {0} \cup WorkIds, w \in Work : LookUp(id, w)
           \/ \E q \in asked : Store(q) \/ GiveUp(q)
           \/ \E i \in WorkIds : WithdrawWork(i)
    PROVE  ReportsInv'
<1> USE DEF ReportsInv
<1> DEFINE Asked == [id : 0..MaxWorks, work : Work, columns : SUBSET {"task", "type", "floor"}]
<1>0. /\ user \in [Users -> [name : Names, state : States]]
      /\ task_type \in Seq([name : Names, state : States]) /\ Len(task_type) <= MaxTypes
      /\ work \in Seq(Work) /\ Len(work) <= MaxWorks
      /\ WorkIds = 1..Len(work) /\ Len(work) \in Nat /\ MaxWorks \in Nat
      /\ \A i \in WorkIds : work[i] \in Work /\ work[i].type \in TypeIds
      /\ asked \subseteq Asked
      /\ changes \in 0..MaxChanges /\ AskedOK
  BY WorksAreFinite, ReportsAssumption DEF ReportsTypeOK, WorkIds
<1>1. ASSUME NEW id \in {0} \cup WorkIds, NEW w \in Work, LookUp(id, w) PROVE ReportsInv'
  <2>1. PICK cs \in Given(id, w) :
          /\ "type" \in cs => w.type \in TypeIds /\ task_type[w.type].state = "live"
          /\ asked' = asked \cup {[id |-> id, work |-> w, columns |-> cs]}
    BY <1>1 DEF LookUp
  <2>2. cs \in SUBSET {"task", "type", "floor"} /\ (id = 0 => cs = {"task", "type", "floor"})
    BY DEF Given
  <2> DEFINE q == [id |-> id, work |-> w, columns |-> cs]
  <2>3. q \in Asked /\ q.id = id /\ q.work = w /\ q.columns = cs
    BY <1>0, <2>2
  <2>4. user' = user /\ task_type' = task_type /\ work' = work /\ changes' = changes /\ Tables
    BY <1>1 DEF LookUp
  <2>5. TypeIds' = TypeIds /\ WorkIds' = WorkIds
    BY <2>4 DEF TypeIds, WorkIds
  <2>6. asked' = asked \cup {q}
    BY <2>1
  <2> HIDE DEF q, Asked
  <2>7. AskedOK'
    BY <1>0, <2>1, <2>2, <2>3, <2>5, <2>6 DEF AskedOK
  <2>8. asked' \subseteq Asked
    BY <1>0, <2>3, <2>6
  <2> QED BY <1>0, <2>4, <2>5, <2>7, <2>8, TablesKeep DEF Asked
<1>2. ASSUME NEW q \in asked, Store(q) PROVE ReportsInv'
  <2>1. /\ q.id \in {0} \cup WorkIds /\ q.work \in Work
        /\ q.id = 0 => q.work.type \in TypeIds
        /\ "type" \in q.columns => q.work.type \in TypeIds
    BY <1>0 DEF AskedOK
  <2>2. /\ user' = user /\ task_type' = task_type /\ Tables
        /\ asked' = asked \ {q} /\ TypeIds' = TypeIds
    BY <1>2 DEF Store, TypeIds
  <2>3. /\ work' \in Seq(Work) /\ Len(work') <= MaxWorks /\ WorkIds \subseteq WorkIds'
        /\ \A i \in WorkIds' : work'[i].type \in TypeIds
        /\ changes' \in 0..MaxChanges
    <3>1. CASE q.id = 0
      <4>1. work' = Append(work, q.work) /\ Len(work) < MaxWorks /\ changes' = changes
        BY <1>2, <3>1 DEF Store
      <4>2. /\ work' \in Seq(Work) /\ Len(work') = Len(work) + 1
            /\ work'[Len(work) + 1] = q.work
            /\ \A i \in 1..Len(work) : work'[i] = work[i]
        BY <1>0, <2>1, <4>1
      <4>3. WorkIds' = 1..Len(work') /\ Len(work') <= MaxWorks
        BY <1>0, <4>1, <4>2 DEF WorkIds
      <4> QED BY <1>0, <2>1, <3>1, <4>1, <4>2, <4>3
    <3>2. CASE q.id # 0
      <4> DEFINE old == work[q.id]
                 new == [c \in DOMAIN old |-> IF c \in q.columns THEN q.work[c] ELSE old[c]]
      <4>1. q.id \in WorkIds /\ old \in Work
        BY <1>0, <2>1, <3>2
      <4>2. new \in Work /\ new.type \in TypeIds
        BY <1>0, <2>1, <4>1 DEF Work
      <4>3. work' = [work EXCEPT ![q.id] = new] /\ Bounded
        BY <1>2, <3>2 DEF Store
      <4> HIDE DEF new
      <4>4. /\ work' \in Seq(Work) /\ Len(work') = Len(work) /\ WorkIds' = WorkIds
            /\ \A i \in WorkIds : work'[i] = IF i = q.id THEN new ELSE work[i]
        BY <1>0, <4>1, <4>2, <4>3 DEF WorkIds
      <4> QED BY <1>0, <4>2, <4>3, <4>4, BoundedKeeps
    <3> QED BY <3>1, <3>2
  <2>4. AskedOK'
    BY <1>0, <2>2, <2>3 DEF AskedOK
  <2>5. asked' \subseteq Asked
    BY <1>0, <2>2
  <2> QED BY <1>0, <2>2, <2>3, <2>4, <2>5, TablesKeep
<1>3. ASSUME NEW q \in asked, GiveUp(q) PROVE ReportsInv'
  <2>1. /\ user' = user /\ task_type' = task_type /\ work' = work /\ changes' = changes /\ Tables
        /\ asked' = asked \ {q} /\ TypeIds' = TypeIds /\ WorkIds' = WorkIds
    BY <1>3 DEF GiveUp, TypeIds, WorkIds
  <2>2. AskedOK'
    BY <1>0, <2>1 DEF AskedOK
  <2>3. asked' \subseteq Asked
    BY <1>0, <2>1
  <2> QED BY <1>0, <2>1, <2>2, <2>3, TablesKeep
<1>4. ASSUME NEW i \in WorkIds, WithdrawWork(i) PROVE ReportsInv'
  <2> DEFINE gone == [work[i] EXCEPT !.state = "deleted"]
  <2>1. gone \in Work /\ gone.type \in TypeIds
    BY <1>0 DEF Work, States
  <2>2. /\ user' = user /\ task_type' = task_type /\ asked' = asked /\ Tables
        /\ work' = [work EXCEPT ![i] = gone] /\ Bounded /\ TypeIds' = TypeIds
    BY <1>4 DEF WithdrawWork, TypeIds
  <2> HIDE DEF gone
  <2>3. /\ work' \in Seq(Work) /\ Len(work') = Len(work) /\ WorkIds' = WorkIds
        /\ \A j \in WorkIds : work'[j] = IF j = i THEN gone ELSE work[j]
    BY <1>0, <2>1, <2>2 DEF WorkIds
  <2>4. AskedOK'
    BY <1>0, <2>2, <2>3 DEF AskedOK
  <2>5. \A j \in WorkIds' : work'[j].type \in TypeIds'
    BY <1>0, <2>1, <2>2, <2>3
  <2>6. changes' \in 0..MaxChanges
    BY <2>2, BoundedKeeps
  <2> QED BY <1>0, <2>2, <2>3, <2>4, <2>5, <2>6, TablesKeep
<1> QED BY <1>1, <1>2, <1>3, <1>4

-----------------------------------------------------------------------------
(* Reports: the reports.                                                    *)

\* A report changes no table.
LEMMA ReportKeeps ==
    ASSUME ReportsInv, UNCHANGED tables,
           report' \in Report, lines' \subseteq Line,
           \A g \in groups' : g.count \in 1..MaxWorks,
           DOMAIN names' = Named, \A x \in Named : names'[x] \subseteq Names,
           matched' \in 0..MaxWorks
    PROVE  ReportsTypeOK' /\ AskedOK'
<1>1. /\ user' = user /\ task_type' = task_type /\ work' = work /\ asked' = asked
      /\ changes' = changes
  BY DEF tables
<1>2. TypeIds' = TypeIds /\ WorkIds' = WorkIds /\ Named' = Named /\ Line' = Line
  BY <1>1 DEF TypeIds, WorkIds, Named, Line
<1>3. ReportsTypeOK'
  BY <1>1, <1>2 DEF ReportsInv, ReportsTypeOK
<1>4. AskedOK'
  BY <1>1, <1>2 DEF ReportsInv, AskedOK
<1> QED BY <1>3, <1>4

LEMMA NamesAreNames ==
    ASSUME ReportsTypeOK, NEW x \in Named
    PROVE  NameOf(x) \in Names
<1>1. CASE x \in {"user"} \X Users
  BY <1>1 DEF ReportsTypeOK, NameOf
<1>2. CASE x \in {"type"} \X TypeIds
  <2>1. x[1] = "type" /\ x[2] \in TypeIds
    BY <1>2
  <2>2. \A i \in TypeIds : task_type[i] \in [name : Names, state : States]
    BY Elements, Zenon DEF ReportsTypeOK, TypeIds
  <2> QED BY <2>1, <2>2 DEF NameOf
<1> QED BY <1>1, <1>2 DEF Named

LEMMA AskKeeps ==
    ASSUME ReportsInv, NEW kind \in {"export", "admin", "staf"}, NEW t \in Tasks,
           NEW skip \in Skips, Ask(kind, t, skip)
    PROVE  ReportsInv'
<1> USE DEF ReportsInv
<1>1. report.kind = "none" /\ lines = {} /\ groups = {}
  BY DEF Ask, NoReport, LinesOK, SumsOK
<1> DEFINE left == CASE kind = "export" -> {"works"}
                     [] kind = "admin" -> {"floor", "user"}
                     [] kind = "staf" -> {"type"}
<1>2. /\ kind = "export" => left = {"works"}
      /\ kind = "admin" => left = {"floor", "user"}
      /\ kind = "staf" => left = {"type"}
  OBVIOUS
<1>3. /\ report' = [kind |-> kind, task |-> t, skip |-> skip, left |-> left]
      /\ names' = [x \in Named |-> IF kind = "export" THEN {NameOf(x)} ELSE {}]
      /\ lines' = lines /\ groups' = groups /\ matched' = matched /\ UNCHANGED tables
  BY DEF Ask, tables
<1> HIDE DEF left
<1>4. left \in SUBSET {"works", "floor", "user", "type"}
  BY <1>2
<1>5. /\ report'.kind = kind /\ report'.task = t /\ report'.skip = skip /\ report'.left = left
      /\ report' \in Report
  BY <1>3, <1>4 DEF Report
<1>6. DOMAIN names' = Named /\ \A x \in Named : names'[x] \subseteq Names
  BY <1>3, NamesAreNames
<1>7. \A g \in groups' : g.count \in 1..MaxWorks
  BY <1>1, <1>3
<1>8. matched' \in 0..MaxWorks /\ lines' \subseteq Line
  BY <1>1, <1>3 DEF ReportsTypeOK
<1>9. ReportsTypeOK' /\ AskedOK'
  BY <1>3, <1>5, <1>6, <1>7, <1>8, ReportKeeps
<1>10. LeftOK'
  BY <1>2, <1>5 DEF LeftOK
<1>11. LinesOK'
  <2>1. Named' = Named /\ \A x : NameOf(x)' = NameOf(x)
    BY <1>3 DEF tables, Named, TypeIds, NameOf
  <2> QED BY <1>1, <1>3, <1>5, <2>1 DEF LinesOK
<1>12. SumsOK'
  <2>1. CASE kind = "export"
    BY <1>1, <1>3, <1>5, <2>1 DEF SumsOK, Summary
  <2>2. CASE kind \in {"admin", "staf"}
    <3>1. Shown' \in report'.left
      BY <1>2, <1>5, <2>2 DEF Shown
    <3> QED BY <1>1, <1>3, <3>1 DEF SumsOK, Summary
  <2> QED BY <2>1, <2>2
<1> QED BY <1>9, <1>10, <1>11, <1>12

LEMMA SendKeeps ==
    ASSUME ReportsInv, Send
    PROVE  ReportsInv'
<1> USE DEF ReportsInv
<1>1. /\ report' = NoReport /\ lines' = {} /\ groups' = {} /\ matched' = 0
      /\ names' = [x \in Named |-> {}] /\ UNCHANGED tables
  BY DEF Send
<1>2. /\ report'.kind = "none" /\ report'.left = {} /\ report' \in Report
  BY <1>1, ReportsAssumption DEF NoReport, Report
<1>3. ReportsTypeOK' /\ AskedOK'
  BY <1>1, <1>2, ReportsAssumption, ReportKeeps
<1> QED BY <1>1, <1>2, <1>3 DEF LeftOK, LinesOK, SumsOK, Summary

\* A query of an export: what it leaves to do, and the lines it leaves.
LEMMA ExportKeeps ==
    ASSUME ReportsInv, report.kind = "export", UNCHANGED <<tables, groups, names, matched>>,
           NEW left, left \subseteq {"user", "type"}, report' = [report EXCEPT !.left = left],
           lines' \subseteq Line,
           \A l \in lines' :
              /\ l.type \in TypeIds
              /\ "user" \notin left => l.userName \in names[<<"user", l.user>>]
              /\ "type" \notin left => l.typeName \in names[<<"type", l.type>>]
    PROVE  ReportsInv'
<1> USE DEF ReportsInv
<1>1. /\ report' \in Report /\ report'.kind = "export" /\ report'.task = report.task
      /\ report'.skip = report.skip /\ report'.left = left
  BY DEF ReportsTypeOK, Report
<1>2. groups' = groups /\ names' = names /\ matched' = matched /\ UNCHANGED tables
  OBVIOUS
<1>3. ReportsTypeOK' /\ AskedOK'
  BY <1>1, <1>2, ReportKeeps DEF ReportsTypeOK
<1>4. LeftOK'
  BY <1>1 DEF LeftOK
<1>5. LinesOK'
  <2>1. Named' = Named /\ TypeIds' = TypeIds /\ \A x : NameOf(x)' = NameOf(x)
    BY <1>2 DEF tables, Named, TypeIds, NameOf
  <2> QED BY <1>1, <1>2, <2>1 DEF LinesOK
<1>6. SumsOK'
  BY <1>1, <1>2 DEF SumsOK, Summary
<1> QED BY <1>3, <1>4, <1>5, <1>6

LEMMA FindWorksKeeps ==
    ASSUME ReportsInv, FindWorks
    PROVE  ReportsInv'
<1> USE DEF ReportsInv
<1>1. PICK found \in From(Matching) :
          lines' = {[work |-> i, user |-> work[i].user, type |-> work[i].type,
                     userName |-> NoName, typeName |-> NoName] : i \in found}
  BY DEF FindWorks
<1>2. found \subseteq WorkIds
  BY DEF From, Matching
<1>3. \A i \in WorkIds : work[i].user \in Users /\ work[i].type \in 1..MaxTypes /\ work[i].type \in TypeIds
  <2>1. \A i \in WorkIds : work[i] \in Work /\ work[i].type \in TypeIds
    BY Elements, Zenon DEF ReportsTypeOK, WorkIds
  <2> QED BY <2>1 DEF Work
<1>4. lines' \subseteq Line /\ \A l \in lines' : l.type \in TypeIds
  BY <1>1, <1>2, <1>3 DEF Line
<1>5. report.kind = "export"
  BY DEF FindWorks, LeftOK, ReportsTypeOK, Report
<1>6. report' = [report EXCEPT !.left = {"user", "type"}]
  BY DEF FindWorks
<1> DEFINE left == {"user", "type"}
<1>7. \A l \in lines' :
         /\ l.type \in TypeIds
         /\ "user" \notin left => l.userName \in names[<<"user", l.user>>]
         /\ "type" \notin left => l.typeName \in names[<<"type", l.type>>]
  BY <1>4
<1>8. left \subseteq {"user", "type"} /\ report' = [report EXCEPT !.left = left]
  BY <1>6
<1>9. UNCHANGED <<tables, groups, names, matched>>
  BY DEF FindWorks
<1> HIDE DEF left
<1> QED BY <1>4, <1>5, <1>7, <1>8, <1>9, ExportKeeps

LEMMA PreloadsKeep ==
    ASSUME ReportsInv, PreloadUsers \/ PreloadTypes
    PROVE  ReportsInv'
<1> USE DEF ReportsInv
<1>1. /\ report.kind = "export" /\ report.left # {} /\ lines \subseteq Line
      /\ \A x \in Named : NameOf(x) \in names[x]
  BY DEF PreloadUsers, PreloadTypes, LinesOK, ReportsTypeOK
<1>2. report.left \subseteq {"user", "type"} \/ lines = {}
  BY <1>1 DEF LeftOK, LinesOK
<1>3. report.left \subseteq {"user", "type"}
  BY <1>1 DEF LeftOK, PreloadUsers, PreloadTypes
<1>4. \A l \in lines : l \in Line /\ l.type \in TypeIds /\ l.user \in Users
  BY <1>1 DEF LinesOK, Line
<1>5. ASSUME PreloadUsers PROVE ReportsInv'
  <2>1. /\ lines' = {[l EXCEPT !.userName = user[l.user].name] : l \in lines}
        /\ report' = [report EXCEPT !.left = report.left \ {"user"}]
    BY <1>5 DEF PreloadUsers
  <2>2. ASSUME NEW l \in lines
        PROVE  /\ [l EXCEPT !.userName = user[l.user].name] \in Line
               /\ user[l.user].name \in names[<<"user", l.user>>]
    <3>1. <<"user", l.user>> \in Named /\ NameOf(<<"user", l.user>>) = user[l.user].name
      BY <1>4 DEF Named, NameOf
    <3>2. user[l.user].name \in Names
      BY <3>1, NamesAreNames
    <3> QED BY <1>1, <1>4, <3>1, <3>2 DEF Line
  <2>3. lines' \subseteq Line
    BY <2>1, <2>2
  <2>4. ASSUME NEW m \in lines'
        PROVE  /\ m.type \in TypeIds
               /\ m.userName \in names[<<"user", m.user>>]
               /\ "type" \notin report.left => m.typeName \in names[<<"type", m.type>>]
    <3>1. PICK l \in lines : m = [l EXCEPT !.userName = user[l.user].name]
      BY <2>1
    <3>2. /\ m.type = l.type /\ m.user = l.user /\ m.typeName = l.typeName
          /\ m.userName = user[l.user].name
      BY <1>4, <3>1 DEF Line
    <3> QED BY <1>4, <2>2, <3>2 DEF LinesOK
  <2> DEFINE left == report.left \ {"user"}
  <2>5. \A m \in lines' :
           /\ m.type \in TypeIds
           /\ "user" \notin left => m.userName \in names[<<"user", m.user>>]
           /\ "type" \notin left => m.typeName \in names[<<"type", m.type>>]
    BY <2>4
  <2>6. left \subseteq {"user", "type"} /\ report' = [report EXCEPT !.left = left]
    BY <1>3, <2>1
  <2>7. UNCHANGED <<tables, groups, names, matched>>
    BY <1>5 DEF PreloadUsers
  <2> HIDE DEF left
  <2> QED BY <1>1, <2>3, <2>5, <2>6, <2>7, ExportKeeps
<1>6. ASSUME PreloadTypes PROVE ReportsInv'
  <2>1. /\ lines' = {[l EXCEPT !.typeName =
                        IF l.type \in TypeIds THEN task_type[l.type].name ELSE NoName] : l \in lines}
        /\ report' = [report EXCEPT !.left = report.left \ {"type"}]
    BY <1>6 DEF PreloadTypes
  <2>2. ASSUME NEW l \in lines
        PROVE  /\ [l EXCEPT !.typeName = task_type[l.type].name] \in Line
               /\ task_type[l.type].name \in names[<<"type", l.type>>]
    <3>1. <<"type", l.type>> \in Named /\ NameOf(<<"type", l.type>>) = task_type[l.type].name
      BY <1>4 DEF Named, NameOf
    <3>2. task_type[l.type].name \in Names
      BY <3>1, NamesAreNames
    <3> QED BY <1>1, <1>4, <3>1, <3>2 DEF Line
  <2>3. lines' = {[l EXCEPT !.typeName = task_type[l.type].name] : l \in lines}
    BY <1>4, <2>1
  <2>4. lines' \subseteq Line
    BY <2>2, <2>3
  <2>5. ASSUME NEW m \in lines'
        PROVE  /\ m.type \in TypeIds
               /\ "user" \notin report.left => m.userName \in names[<<"user", m.user>>]
               /\ m.typeName \in names[<<"type", m.type>>]
    <3>1. PICK l \in lines : m = [l EXCEPT !.typeName = task_type[l.type].name]
      BY <2>3
    <3>2. /\ m.type = l.type /\ m.user = l.user /\ m.userName = l.userName
          /\ m.typeName = task_type[l.type].name
      BY <1>4, <3>1 DEF Line
    <3> QED BY <1>4, <2>2, <3>2 DEF LinesOK
  <2> DEFINE left == report.left \ {"type"}
  <2>6. \A m \in lines' :
           /\ m.type \in TypeIds
           /\ "user" \notin left => m.userName \in names[<<"user", m.user>>]
           /\ "type" \notin left => m.typeName \in names[<<"type", m.type>>]
    BY <2>5
  <2>7. left \subseteq {"user", "type"} /\ report' = [report EXCEPT !.left = left]
    BY <1>3, <2>1
  <2>8. UNCHANGED <<tables, groups, names, matched>>
    BY <1>6 DEF PreloadTypes
  <2> HIDE DEF left
  <2> QED BY <1>1, <2>4, <2>6, <2>7, <2>8, ExportKeeps
<1> QED BY <1>5, <1>6

\* The query whose groups are shown finds none of them there; the other one adds
\* groups that are not shown.
LEMMA SummariseKeeps ==
    ASSUME ReportsInv, NEW by \in {"floor", "user", "type"}, Summarise(by)
    PROVE  ReportsInv'
<1> USE DEF ReportsInv
<1>1. PICK found \in From(Grouped(by)) : groups' = groups \cup found
  BY DEF Summarise
<1>2. found \subseteq Grouped(by) /\ IsFiniteSet(Grouped(by))
  BY GroupsOfWorks DEF From
<1>3. /\ UNCHANGED tables /\ lines' = lines /\ names' = names
      /\ matched' = IF by = Shown THEN Cardinality(Matching) ELSE matched
      /\ report' = [report EXCEPT !.left = report.left \ {by}]
      /\ by \in report.left /\ report.kind # "export"
  BY DEF Summarise
<1>4. /\ report' \in Report /\ report'.kind = report.kind /\ report'.task = report.task
      /\ report'.skip = report.skip /\ report'.left = report.left \ {by}
  BY <1>3 DEF ReportsTypeOK, Report
<1>5. report.kind \in {"admin", "staf"} /\ lines = {}
  BY <1>3 DEF LeftOK, LinesOK, ReportsTypeOK, Report
<1>6. \A g \in groups' : g.count \in 1..MaxWorks
  BY <1>1, <1>2, GroupsOfWorks DEF ReportsTypeOK
<1>7. matched' \in 0..MaxWorks
  <2>1. Matching \in SUBSET WorkIds
    BY DEF Matching
  <2> QED BY <1>3, <2>1, WorksAreFinite, ReportsAssumption DEF ReportsTypeOK
<1>8. ReportsTypeOK' /\ AskedOK'
  BY <1>3, <1>4, <1>6, <1>7, ReportKeeps DEF ReportsTypeOK
<1>9. LeftOK'
  BY <1>4 DEF LeftOK
<1>10. LinesOK'
  BY <1>3, <1>4, <1>5 DEF LinesOK
<1>11. SumsOK'
  <2>1. Shown' = Shown
    BY <1>4 DEF Shown
  <2>2. CASE by = Shown
    <3>1. Summary' = found
      <4>1. \A g \in groups : g.by # Shown
        BY <1>3, <2>2 DEF SumsOK, Summary
      <4>2. \A g \in found : g.by = Shown
        BY <1>2, <2>2, GroupsOfWorks
      <4> QED BY <1>1, <2>1, <4>1, <4>2 DEF Summary
    <3>2. report.skip = 0 => found = Grouped(by)
      BY <1>2, FromStart
    <3>3. report.skip = 0 => Total(Summary') = matched'
      BY <1>3, <2>2, <3>1, <3>2, GroupsOfWorks
    <3> QED BY <1>4, <1>5, <2>1, <2>2, <3>3 DEF SumsOK
  <2>3. CASE by # Shown
    <3>1. Summary' = Summary
      <4>1. \A g \in found : g.by # Shown
        BY <1>2, <2>3, GroupsOfWorks
      <4> QED BY <1>1, <2>1, <4>1 DEF Summary
    <3> QED BY <1>3, <1>4, <1>5, <2>1, <2>3, <3>1 DEF SumsOK
  <2> QED BY <2>2, <2>3
<1> QED BY <1>8, <1>9, <1>10, <1>11

-----------------------------------------------------------------------------
(* Reports: all steps.                                                      *)

LEMMA ReportsNextKeeps == ReportsInv /\ [ReportsNext]_reportVars => ReportsInv'
<1> SUFFICES ASSUME ReportsInv, [ReportsNext]_reportVars PROVE ReportsInv'
  OBVIOUS
<1>1. ASSUME NEW u \in Users, NEW n \in Names, NEW s \in States, ChangeUser(u, n, s)
      PROVE  ReportsInv'
  BY <1>1, NamesKeep
<1>2. ASSUME NEW n \in Names, CreateType(n) PROVE ReportsInv'
  BY <1>2, NamesKeep
<1>3. ASSUME NEW i \in TypeIds, NEW n \in Names, NEW s \in States, ChangeType(i, n, s)
      PROVE  ReportsInv'
  BY <1>3, NamesKeep
<1>4. ASSUME NEW id \in {0} \cup WorkIds, NEW w \in Work, LookUp(id, w) PROVE ReportsInv'
  BY <1>4, WorksKeep
<1>5. ASSUME NEW q \in asked, Store(q) \/ GiveUp(q) PROVE ReportsInv'
  BY <1>5, WorksKeep
<1>6. ASSUME NEW i \in WorkIds, WithdrawWork(i) PROVE ReportsInv'
  BY <1>6, WorksKeep
<1>7. ASSUME NEW kind \in {"export", "admin", "staf"}, NEW t \in Tasks, NEW skip \in Skips,
             Ask(kind, t, skip)
      PROVE  ReportsInv'
  BY <1>7, AskKeeps
<1>8. ASSUME Send PROVE ReportsInv'
  BY <1>8, SendKeeps
<1>9. ASSUME FindWorks PROVE ReportsInv'
  BY <1>9, FindWorksKeeps
<1>10. ASSUME PreloadUsers \/ PreloadTypes PROVE ReportsInv'
  BY <1>10, PreloadsKeep
<1>11. ASSUME NEW by \in {"floor", "user", "type"}, Summarise(by) PROVE ReportsInv'
  BY <1>11, SummariseKeeps
<1>12. ASSUME UNCHANGED reportVars PROVE ReportsInv'
  <2>1. /\ user' = user /\ task_type' = task_type /\ work' = work /\ asked' = asked
        /\ changes' = changes /\ report' = report /\ lines' = lines /\ groups' = groups
        /\ names' = names /\ matched' = matched
    BY <1>12 DEF reportVars, tables
  <2>2. TypeIds' = TypeIds /\ WorkIds' = WorkIds
    BY <2>1 DEF TypeIds, WorkIds
  <2>3. /\ Named' = Named /\ Line' = Line /\ Shown' = Shown /\ Summary' = Summary
        /\ \A x : NameOf(x)' = NameOf(x)
    BY <2>1, <2>2 DEF Named, Line, Shown, Summary, NameOf
  <2>4. ReportsTypeOK' /\ AskedOK'
    BY <2>1, <2>2, <2>3 DEF ReportsInv, ReportsTypeOK, AskedOK
  <2>5. LeftOK' /\ LinesOK' /\ SumsOK'
    BY <2>1, <2>2, <2>3 DEF ReportsInv, LeftOK, LinesOK, SumsOK
  <2> QED BY <2>4, <2>5 DEF ReportsInv
<1> QED BY <1>1, <1>2, <1>3, <1>4, <1>5, <1>6, <1>7, <1>8, <1>9, <1>10, <1>11, <1>12
        DEF ReportsNext

\* Works that refer to task types that are there, lines with the names there were,
\* and groups that add up, whatever is written while a report runs
\* (work/service.go 67-172, 369-519, repository/work.go 58-142).
THEOREM ReportsInvariant == ReportsSpec => []ReportsInv
<1> QED BY InitReportsInv, ReportsNextKeeps, PTL DEF ReportsSpec

\* No work refers to a task type that is not there, and a sheet has lines of works
\* that are (work/service.go 80-86, 369-519).
THEOREM ReportsTypeCorrect == ReportsSpec => []ReportsTypeOK
<1>1. ReportsInv => ReportsTypeOK
  BY DEF ReportsInv
<1> QED BY <1>1, ReportsInvariant, PTL

\* An export has for each line a name its user, and one its task type, had while it
\* ran (work/service.go 521-522, repository/work.go 58-74).
THEOREM NamesAlwaysShown == ReportsSpec => []NamesShown
<1>1. ReportsInv => NamesShown
  BY DEF ReportsInv, LinesOK, NamesShown
<1> QED BY <1>1, ReportsInvariant, PTL

\* A dashboard asked for from its start counts each work of its task once and
\* leaves none out (repository/work.go 94-142, work/service.go 80-86).
THEOREM SumsAlwaysComplete == ReportsSpec => []SumsComplete
<1>1. ReportsInv => SumsComplete
  <2> SUFFICES ASSUME ReportsInv, report.left = {}, report.kind \in {"admin", "staf"},
                      report.skip = 0
               PROVE  Total(Summary) = matched
    BY DEF SumsComplete
  <2> QED BY DEF ReportsInv, SumsOK
<1> QED BY <1>1, ReportsInvariant, PTL

-----------------------------------------------------------------------------
(* Side by side.                                                            *)

\* Where one of the two moves at a time, both keep their types
\* (work/service.go, repository/work.go).
THEOREM WorksTyped == WorksSpec => []TypesOK
<1>1. WorksInit => Init /\ ReportsInit
  BY DEF WorksInit
<1>2. [WorksNext]_<<vars, reportVars, model>> => [Next]_vars /\ [ReportsNext]_reportVars
  BY DEF WorksNext
<1>3. WorksSpec => Spec /\ ReportsSpec
  BY <1>1, <1>2, PTL DEF WorksSpec, Spec, ReportsSpec
<1> QED BY <1>3, TypeCorrect, ReportsTypeCorrect, PTL DEF TypesOK
=============================================================================

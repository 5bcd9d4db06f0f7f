----------------------------- MODULE PagingProofs -----------------------------
(***************************************************************************)
(* IInv of Paging is inductive, and with it TypeOK, NothingMissed,            *)
(* NothingTwice and CountsWhatIsShown hold, for all sets of values and limits, *)
(* every default limit and any number of rows.                               *)
(***************************************************************************)
EXTENDS Paging, SequenceTheorems, FiniteSetTheorems, TLAPS

-----------------------------------------------------------------------------
(* The list and its order.                                                  *)

LEMMA LimitIsNat == \A q \in Query : Limit(q) \in Nat
<1> SUFFICES ASSUME NEW q \in Query PROVE Limit(q) \in Nat
  OBVIOUS
<1>1. q.limit \in Limits
  BY DEF Query
<1>2. q.limit = NoParam \/ q.limit \in Nat
  BY <1>1, PagingAssumption
<1> QED BY <1>2, PagingAssumption DEF Limit

LEMMA UpTo ==
    ASSUME NEW n \in Nat
    PROVE  IsFiniteSet(1..n) /\ Cardinality(1..n) = n
<1>1. IsFiniteSet(1..n) /\ Cardinality(1..n) = IF 1 > n THEN 0 ELSE n - 1 + 1
  BY FS_Interval
<1> QED BY <1>1

LEMMA RowsInList ==
    ASSUME NEW rs \in Seq(Row), NEW q, NEW i \in List(q, rs)
    PROVE  i \in 1..Len(rs) /\ i \in Nat /\ rs[i] \in Row /\ rs[i].value \in Int
<1>1. i \in 1..Len(rs) /\ Len(rs) \in Nat
  BY DEF List
<1>2. rs[i] \in Row
  BY <1>1, ElementOfSeq
<1>3. rs[i].value \in Int
  BY <1>2, PagingAssumption DEF Row
<1> QED BY <1>1, <1>2, <1>3

\* The rows of a list are finitely many.
LEMMA ListFinite ==
    ASSUME NEW q, NEW rs \in Seq(Row)
    PROVE  /\ List(q, rs) \subseteq 1..Len(rs)
           /\ IsFiniteSet(List(q, rs)) /\ CountOf(q, rs) \in Nat /\ CountOf(q, rs) <= Len(rs)
<1>1. List(q, rs) \subseteq 1..Len(rs) /\ Len(rs) \in Nat
  BY DEF List
<1>2. IsFiniteSet(1..Len(rs)) /\ Cardinality(1..Len(rs)) = Len(rs)
  BY <1>1, UpTo
<1>3. IsFiniteSet(List(q, rs)) /\ Cardinality(List(q, rs)) <= Len(rs)
  BY <1>1, <1>2, FS_Subset
<1> QED BY <1>1, <1>3, FS_CardinalityType DEF CountOf

\* And so are those before one of them.
LEMMA AheadFinite ==
    ASSUME TypeOK, NEW i
    PROVE  IsFiniteSet(Ahead(i)) /\ Cardinality(Ahead(i)) \in Nat
<1>1. IsFiniteSet(List(query, rows)) /\ Ahead(i) \subseteq List(query, rows)
  BY ListFinite DEF TypeOK, Ahead
<1>2. IsFiniteSet(Ahead(i))
  BY <1>1, FS_Subset
<1> QED BY <1>2, FS_CardinalityType

\* A sequence of all elements of a finite set has each in one place.
LEMMA SequenceOfSet ==
    ASSUME NEW S, IsFiniteSet(S), NEW s \in SetToSeqs(S)
    PROVE  /\ s \in Seq(S) /\ Len(s) = Cardinality(S) /\ Cardinality(S) \in Nat
           /\ DOMAIN s = 1..Cardinality(S)
           /\ \A m, n \in 1..Cardinality(S) : s[m] = s[n] => m = n
           /\ \A x \in S : \E n \in 1..Cardinality(S) : s[n] = x
<1> DEFINE D == 1..Cardinality(S)
<1>1. Cardinality(S) \in Nat
  BY FS_CardinalityType
<1>2. s \in [D -> S] /\ \A m, n \in D : m # n => s[m] # s[n]
  BY DEF SetToSeqs
<1>3. s \in Seq(S) /\ Len(s) = Cardinality(S) /\ DOMAIN s = D
  BY <1>1, <1>2
<1>4. s \in Injection(D, S)
  BY <1>2 DEF Injection, IsInjective
<1>5. IsFiniteSet(D) /\ Cardinality(D) = Cardinality(S)
  BY <1>1, UpTo
<1>6. s \in Surjection(D, S)
  BY <1>4, <1>5, FS_Injection
<1> QED BY <1>1, <1>2, <1>3, <1>6 DEF Surjection

LEMMA OrderedIsList ==
    ASSUME TypeOK, NEW s \in Ordered(query, rows)
    PROVE  LET N == CountOf(query, rows) IN
              /\ s \in Seq(DOMAIN rows) /\ Len(s) = N /\ N \in Nat /\ DOMAIN s = 1..N
              /\ \A n \in 1..N : s[n] \in List(query, rows)
              /\ \A m, n \in 1..N : s[m] = s[n] => m = n
              /\ \A i \in List(query, rows) : \E n \in 1..N : s[n] = i
<1>1. IsFiniteSet(List(query, rows)) /\ s \in SetToSeqs(List(query, rows))
  BY ListFinite DEF TypeOK, Ordered
<1>2. List(query, rows) \subseteq DOMAIN rows
  BY DEF List
<1>3. /\ s \in Seq(List(query, rows)) /\ Len(s) = CountOf(query, rows)
      /\ CountOf(query, rows) \in Nat
      /\ DOMAIN s = 1..CountOf(query, rows)
      /\ \A m, n \in 1..CountOf(query, rows) : s[m] = s[n] => m = n
      /\ \A i \in List(query, rows) : \E n \in 1..CountOf(query, rows) : s[n] = i
  BY <1>1, SequenceOfSet DEF CountOf
<1>4. s \in Seq(DOMAIN rows)
  BY <1>2, <1>3, SeqMonotonic
<1>5. \A n \in 1..CountOf(query, rows) : s[n] \in List(query, rows)
  BY <1>3, ElementOfSeq
<1> QED BY <1>3, <1>4, <1>5

LEMMA BeforeStrict ==
    ASSUME TypeOK, NEW i \in List(query, rows)
    PROVE  ~ Before(query, rows, i, i)
<1>1. i \in Int /\ rows[i].value \in Int
  BY RowsInList DEF TypeOK
<1> QED BY <1>1 DEF Before

\* Where no two rows tie, the n-th has n - 1 before it.
LEMMA PlaceIsRank ==
    ASSUME TypeOK, ~ Tied(query, rows), NEW s \in Ordered(query, rows),
           NEW n \in 1..CountOf(query, rows)
    PROVE  Cardinality(Ahead(s[n])) = n - 1
<1> DEFINE N == CountOf(query, rows)
           f == [m \in 1..(n - 1) |-> s[m]]
<1>1. /\ N \in Nat /\ DOMAIN s = 1..N
      /\ \A k \in 1..N : s[k] \in List(query, rows)
      /\ \A m, k \in 1..N : s[m] = s[k] => m = k
      /\ \A i \in List(query, rows) : \E k \in 1..N : s[k] = i
  BY OrderedIsList
<1>2. \A m, k \in 1..N : m < k => ~ Before(query, rows, s[k], s[m])
  BY <1>1 DEF Ordered
<1>3. \A m, k \in 1..N : m < k => Before(query, rows, s[m], s[k])
  BY <1>1, <1>2 DEF Tied
<1>4. \A m \in 1..N : s[m] \in Ahead(s[n]) <=> m < n
  <2> SUFFICES ASSUME NEW m \in 1..N
               PROVE  Before(query, rows, s[m], s[n]) <=> m < n
    BY <1>1 DEF Ahead
  <2>1. m < n \/ m = n \/ n < m
    OBVIOUS
  <2> QED BY <1>1, <1>2, <1>3, <2>1, BeforeStrict
<1>5. f \in [1..(n - 1) -> Ahead(s[n])]
  BY <1>1, <1>4
<1>6. \A m, k \in 1..(n - 1) : f[m] = f[k] => m = k
  BY <1>1
<1>7. \A i \in Ahead(s[n]) : \E m \in 1..(n - 1) : f[m] = i
  <2> SUFFICES ASSUME NEW i \in Ahead(s[n]) PROVE \E m \in 1..(n - 1) : f[m] = i
    OBVIOUS
  <2>1. PICK m \in 1..N : s[m] = i
    BY <1>1 DEF Ahead
  <2>2. m \in 1..(n - 1)
    BY <1>4, <2>1
  <2> QED BY <2>1, <2>2
<1>8. f \in Bijection(1..(n - 1), Ahead(s[n]))
  BY <1>5, <1>6, <1>7 DEF Bijection, Injection, Surjection, IsInjective
<1>9. IsFiniteSet(1..(n - 1)) /\ Cardinality(1..(n - 1)) = n - 1
  BY <1>1, UpTo
<1>10. ExistsBijection(1..(n - 1), Ahead(s[n]))
  BY <1>8 DEF ExistsBijection
<1> QED BY <1>9, <1>10, FS_Bijection

\* A page is what a sequence has behind the offset, up to the limit.
LEMMA PageEffect ==
    ASSUME NEW S, NEW s \in Seq(S), NEW q \in Query, NEW o \in Nat
    PROVE  LET p == PageAt(s, q, o) IN
              /\ p \in Seq(S) /\ Len(p) \in Nat /\ Len(p) <= Limit(q)
              /\ o <= Len(s) => o + Len(p) <= Len(s)
              /\ \A k \in 1..Len(p) : p[k] = s[o + k] /\ o + k \in 1..Len(s)
              /\ \A n \in (o + 1)..Len(s) : n <= o + Len(p) \/ Len(p) = Limit(q)
              /\ o <= Len(s) /\ Len(p) < Limit(q) => o + Len(p) = Len(s)
<1> DEFINE e == IF o + Limit(q) < Len(s) THEN o + Limit(q) ELSE Len(s)
           p == PageAt(s, q, o)
<1>1. Limit(q) \in Nat /\ Len(s) \in Nat
  BY LimitIsNat
<1>2. e \in Nat /\ o + 1 \in Nat
  BY <1>1
<1>3. \A i \in (o + 1)..e : s[i] \in S
  <2> SUFFICES ASSUME NEW i \in (o + 1)..e PROVE s[i] \in S
    OBVIOUS
  <2>1. i \in 1..Len(s)
    BY <1>1
  <2> QED BY <2>1, ElementOfSeq
<1>4. p = SubSeq(s, o + 1, e)
  BY DEF PageAt
<1> HIDE DEF e, p
<1>5. /\ p \in Seq(S) /\ Len(p) = IF o + 1 <= e THEN e - o ELSE 0
      /\ \A k \in 1..(e - o) : p[k] = s[o + k]
  <2>1. /\ p \in Seq(S) /\ Len(p) = IF o + 1 <= e THEN e - (o + 1) + 1 ELSE 0
        /\ \A k \in 1..(e - (o + 1) + 1) : p[k] = s[(o + 1) + k - 1]
    BY <1>2, <1>3, <1>4, SubSeqProperties
  <2>2. e - (o + 1) + 1 = e - o
    BY <1>2
  <2>3. ASSUME NEW k \in 1..(e - o) PROVE p[k] = s[o + k]
    <3>1. (o + 1) + k - 1 = o + k
      OBVIOUS
    <3>2. p[k] = s[(o + 1) + k - 1]
      BY <2>1, <2>2
    <3> QED BY <3>1, <3>2
  <2>4. Len(p) = IF o + 1 <= e THEN e - o ELSE 0
    BY <2>1, <2>2
  <2> QED BY <2>1, <2>3, <2>4
<1>6. e <= Len(s) /\ (o + Limit(q) < Len(s) => e = o + Limit(q)) /\ (~ o + Limit(q) < Len(s) => e = Len(s))
  BY <1>1 DEF e
<1>7. Len(p) \in Nat /\ Len(p) <= Limit(q)
  BY <1>1, <1>2, <1>5, <1>6
<1>8. o <= Len(s) => o + Len(p) <= Len(s)
  BY <1>1, <1>2, <1>5, <1>6
<1>9. ASSUME NEW k \in 1..Len(p) PROVE p[k] = s[o + k] /\ o + k \in 1..Len(s)
  BY <1>1, <1>2, <1>5, <1>6
<1>10. ASSUME NEW n \in (o + 1)..Len(s) PROVE n <= o + Len(p) \/ Len(p) = Limit(q)
  BY <1>1, <1>2, <1>5, <1>6
<1>11. o <= Len(s) /\ Len(p) < Limit(q) => o + Len(p) = Len(s)
  BY <1>1, <1>2, <1>5, <1>6
<1> QED BY <1>5, <1>7, <1>8, <1>9, <1>10, <1>11 DEF p

-----------------------------------------------------------------------------
(* The writers.                                                             *)

\* Write(rs) and what it does to the flags keeps the invariant if, unless the
\* flags say otherwise, the list only loses rows that were deleted and gains rows
\* that had not been seen, none of which comes before another by its id.
LEMMA WriteKeeps ==
    ASSUME IInv, NEW rs \in Seq(Row), Len(rows) <= Len(rs), Len(rs) <= MaxRows, Write(rs),
           grown' \in BOOLEAN, late' \in BOOLEAN, shrunk' \in BOOLEAN, edited' \in BOOLEAN,
           late' => grown', grown => grown', late => late', shrunk => shrunk', edited => edited',
           ~ shrunk' /\ ~ edited' => List(query, rows) \subseteq List(query, rs),
           ~ edited' => \A i \in List(query, rows) : rs[i].value = rows[i].value,
           ~ edited' => \A i \in List(query, rs) \ List(query, rows) :
              /\ i \in DOMAIN rows /\ rows[i].state = "open" /\ grown'
              /\ late' \/ \A j \in List(query, rows) : j < i,
           ~ edited' => \A i \in DOMAIN rows :
              rows[i].state \in {"live", "deleted"} /\ rows[i].value \in query.match =>
                 rs[i].state \in {"live", "deleted"} /\ rs[i].value \in query.match
    PROVE  IInv'
<1> DEFINE L == List(query, rows)
           M == List(query, rs)
<1>1. /\ rows' = rs /\ since' = since \cap M /\ tied' = (tied \/ Tied(query, rs))
      /\ UNCHANGED <<query, at, offset, page, got, count>>
      /\ TypeOK /\ rows \in Seq(Row) /\ rs \in Seq(Row) /\ query \in Query
  BY DEF Write, IInv, TypeOK
<1>2. TypeOK'
  <2>1. DOMAIN rows \subseteq DOMAIN rs
    BY <1>1
  <2>2. page \in Seq(DOMAIN rs) /\ got \in Seq(DOMAIN rs)
    BY <1>1, <2>1, SeqMonotonic DEF TypeOK
  <2>3. since' \subseteq List(query', rows') /\ tied' \in BOOLEAN
    BY <1>1 DEF Tied, TypeOK
  <2> QED BY <1>1, <2>2, <2>3 DEF TypeOK
<1>3. Begun' /\ TiesKnown'
  BY <1>1 DEF IInv, Begun, TiesKnown
<1>4. Behind' = Behind /\ Limit(query)' = Limit(query)
  BY <1>1 DEF Behind
<1>5. ASSUME ~ edited', NEW i \in L \cap M, NEW j \in L \cap M
      PROVE  Before(query, rs, i, j) <=> Before(query, rows, i, j)
  BY <1>5 DEF Before
<1>6. AheadOfMissed'
  <2> SUFFICES ASSUME ~ shrunk', ~ edited', ~ tied', Limit(query) > 0,
                      NEW i \in since' \ ToSet(got)
               PROVE  /\ at # "done" /\ Behind <= Cardinality(Ahead(i)')
                      /\ at = "count" => Len(page) = Limit(query)
    BY <1>1, <1>4 DEF AheadOfMissed
  <2>1. /\ at # "done" /\ Behind <= Cardinality(Ahead(i))
        /\ at = "count" => Len(page) = Limit(query)
    BY <1>1 DEF IInv, AheadOfMissed
  <2>2. i \in L /\ i \in M /\ L \subseteq M
    BY <1>1 DEF TypeOK
  <2>3. Ahead(i) \subseteq Ahead(i)'
    BY <1>1, <1>5, <2>2 DEF Ahead
  <2>4. IsFiniteSet(Ahead(i)') /\ Cardinality(Ahead(i)') \in Nat
    <3>1. IsFiniteSet(M) /\ Ahead(i)' \subseteq M
      BY <1>1, ListFinite DEF Ahead
    <3>2. IsFiniteSet(Ahead(i)')
      BY <3>1, FS_Subset
    <3> QED BY <3>2, FS_CardinalityType
  <2>5. Cardinality(Ahead(i)) <= Cardinality(Ahead(i)')
    BY <2>3, <2>4, FS_Subset
  <2>6. Cardinality(Ahead(i)) \in Nat /\ Behind \in Nat
    BY <1>1, AheadFinite DEF TypeOK, Behind
  <2> QED BY <2>1, <2>4, <2>5, <2>6
<1>7. AheadOfGot'
  <2> SUFFICES ASSUME ~ tied', ~ edited',
                      ~ grown' \/ (query.order = "id" /\ ~ query.desc /\ ~ late')
               PROVE  /\ IsInjective(got)
                      /\ \A i \in ToSet(got) :
                            /\ rs[i].state \in {"live", "deleted"} /\ rs[i].value \in query.match
                            /\ at \in {"find", "count"} /\ i \in M => Cardinality(Ahead(i)') < Behind
    BY <1>1, <1>4 DEF AheadOfGot
  <2>1. /\ IsInjective(got)
        /\ \A i \in ToSet(got) :
              /\ rows[i].state \in {"live", "deleted"} /\ rows[i].value \in query.match
              /\ at \in {"find", "count"} /\ i \in L => Cardinality(Ahead(i)) < Behind
    BY <1>1 DEF IInv, AheadOfGot
  <2> SUFFICES ASSUME NEW i \in ToSet(got)
               PROVE  /\ rs[i].state \in {"live", "deleted"} /\ rs[i].value \in query.match
                      /\ at \in {"find", "count"} /\ i \in M => Cardinality(Ahead(i)') < Behind
    BY <2>1
  <2>2. i \in DOMAIN rows
    BY <1>1 DEF TypeOK, ToSet
  <2>3. rs[i].state \in {"live", "deleted"} /\ rs[i].value \in query.match
    BY <2>1, <2>2
  <2>4. ASSUME at \in {"find", "count"}, i \in M PROVE Cardinality(Ahead(i)') < Behind
    <3>1. i \in L
      BY <2>1, <2>4
    <3>2. ASSUME NEW j \in Ahead(i)' PROVE j \in Ahead(i)
      <4>1. j \in M /\ Before(query, rs, j, i)
        BY <1>1 DEF Ahead
      <4>2. CASE j \in L
        BY <1>5, <2>4, <3>1, <4>1, <4>2 DEF Ahead
      <4>3. CASE j \notin L
        <5>1. i < j /\ query.order = "id" /\ ~ query.desc
          BY <3>1, <4>1, <4>3
        <5>2. j < i
          BY <4>1, <5>1 DEF Before
        <5>3. i \in Nat /\ j \in Nat
          BY <1>1, <3>1, <4>1, RowsInList
        <5> QED BY <5>1, <5>2, <5>3
      <4> QED BY <4>2, <4>3
    <3>3. Cardinality(Ahead(i)) < Behind /\ Cardinality(Ahead(i)) \in Nat /\ IsFiniteSet(Ahead(i))
      BY <1>1, <2>1, <2>4, <3>1, AheadFinite
    <3>4. Cardinality(Ahead(i)') <= Cardinality(Ahead(i)) /\ IsFiniteSet(Ahead(i)')
      BY <3>2, <3>3, FS_Subset
    <3>5. Cardinality(Ahead(i)') \in Nat /\ Behind \in Nat
      BY <1>1, <3>4, FS_CardinalityType DEF TypeOK, Behind
    <3> QED BY <3>3, <3>4, <3>5
  <2> QED BY <2>3, <2>4
<1>8. GotSoFar'
  <2> SUFFICES ASSUME ~ grown', ~ shrunk', ~ edited'
               PROVE  /\ at \in {"find", "count"} => Len(got) = Behind /\ Behind <= CountOf(query, rs)
                      /\ at = "count" /\ Len(page) < Limit(query) => Behind = CountOf(query, rs)
                      /\ at = "done" /\ Limit(query) > 0 => Len(got) = count
    BY <1>1, <1>4 DEF GotSoFar
  <2>1. L = M
    OBVIOUS
  <2>2. CountOf(query, rs) = CountOf(query, rows)
    BY <2>1 DEF CountOf
  <2> QED BY <1>1, <2>2 DEF IInv, GotSoFar
<1> QED BY <1>2, <1>3, <1>6, <1>7, <1>8 DEF IInv

\* What becomes of a row that is written: rs has it with another value or state.
LEMMA RowWritten ==
    ASSUME rows \in Seq(Row), NEW i \in DOMAIN rows, NEW v \in Values,
           NEW st \in {"open", "live", "deleted", "undone"},
           NEW rs, rs = [rows EXCEPT ![i] = [value |-> v, state |-> st]]
    PROVE  /\ rs \in Seq(Row) /\ Len(rs) = Len(rows) /\ DOMAIN rs = DOMAIN rows
           /\ rs[i].value = v /\ rs[i].state = st
           /\ \A j \in DOMAIN rows : j # i => rs[j] = rows[j]
<1>1. [value |-> v, state |-> st] \in Row /\ i \in 1..Len(rows)
  BY DEF Row
<1>2. /\ rs \in Seq(Row) /\ Len(rs) = Len(rows)
      /\ \A j \in 1..Len(rows) : rs[j] = IF j = i THEN [value |-> v, state |-> st] ELSE rows[j]
  BY <1>1, ExceptSeq
<1> QED BY <1>1, <1>2

LEMMA FlagsAreBoolean ==
    ASSUME IInv
    PROVE  /\ grown \in BOOLEAN /\ late \in BOOLEAN /\ shrunk \in BOOLEAN /\ edited \in BOOLEAN
           /\ late => grown
<1>1. TypeOK
  BY DEF IInv
<1>2. grown \in BOOLEAN
  BY <1>1, Zenon DEF TypeOK
<1>3. late \in BOOLEAN
  BY <1>1, Zenon DEF TypeOK
<1>4. shrunk \in BOOLEAN /\ edited \in BOOLEAN
  BY <1>1, Zenon DEF TypeOK
<1>5. late => grown
  BY <1>1, Zenon DEF TypeOK
<1> QED BY <1>2, <1>3, <1>4, <1>5

LEMMA InsertKeeps ==
    ASSUME IInv, NEW v \in Values, Insert(v)
    PROVE  IInv'
<1> DEFINE row == [value |-> v, state |-> "open"]
<1>1. PICK rs : rs = Append(rows, row)
  OBVIOUS
<1>2. rows \in Seq(Row) /\ row \in Row /\ Len(rows) < MaxRows /\ Len(rows) \in Nat /\ MaxRows \in Nat
  BY PagingAssumption DEF IInv, TypeOK, Row, Insert
<1>3. /\ rs \in Seq(Row) /\ Len(rs) = Len(rows) + 1
      /\ \A i \in 1..Len(rows) : rs[i] = rows[i]
      /\ rs[Len(rows) + 1] = row
  BY <1>1, <1>2, AppendProperties
<1>4. Write(rs) /\ UNCHANGED <<grown, late, shrunk, edited>>
  BY <1>1 DEF Insert
<1>5. DOMAIN rows = 1..Len(rows) /\ DOMAIN rs = 1..(Len(rows) + 1)
  BY <1>2, <1>3
<1>6. List(query, rs) = List(query, rows)
  <2>1. row.state = "open"
    OBVIOUS
  <2>2. ASSUME NEW i \in 1..(Len(rows) + 1)
        PROVE  i \in List(query, rs) <=> i \in List(query, rows)
    <3>1. CASE i \in 1..Len(rows)
      BY <1>3, <1>5, <3>1 DEF List, InList
    <3>2. CASE i = Len(rows) + 1
      BY <1>2, <1>3, <1>5, <2>1, <3>2 DEF List, InList
    <3> QED BY <1>2, <3>1, <3>2
  <2>3. List(query, rs) \subseteq 1..(Len(rows) + 1) /\ List(query, rows) \subseteq 1..(Len(rows) + 1)
    BY <1>2, <1>5 DEF List
  <2> QED BY <2>2, <2>3
<1>7. \A i \in DOMAIN rows : rs[i] = rows[i]
  BY <1>3, <1>5
<1>8. \A i \in List(query, rows) : rs[i].value = rows[i].value
  BY <1>7 DEF List
<1>9. Len(rows) <= Len(rs) /\ Len(rs) <= MaxRows
  BY <1>2, <1>3
<1>10. /\ grown' \in BOOLEAN /\ late' \in BOOLEAN /\ shrunk' \in BOOLEAN /\ edited' \in BOOLEAN
       /\ late' => grown'
  BY <1>4, FlagsAreBoolean
<1> QED BY <1>3, <1>4, <1>6, <1>7, <1>8, <1>9, <1>10, WriteKeeps

\* The writers of one row: its value and state before and after decide what
\* becomes of the list.
LEMMA RowKeeps ==
    ASSUME IInv, NEW i \in DOMAIN rows, NEW v \in Values,
           NEW st \in {"live", "deleted", "undone"},
           Write([rows EXCEPT ![i] = [value |-> v, state |-> st]]),
           grown' \in BOOLEAN, late' \in BOOLEAN, shrunk' \in BOOLEAN, edited' \in BOOLEAN,
           late' => grown', grown => grown', late => late', shrunk => shrunk', edited => edited',
           rows[i].state \in {"open", "live"},
           rows[i].state = "live" => st \in {"live", "deleted"},
           v = rows[i].value \/ (rows[i].state = "live" /\ st = "live"),
           v # rows[i].value => edited' \/ {v, rows[i].value} \cap query.match = {},
           i \in List(query, rows) /\ st = "deleted" => shrunk',
           rows[i].state = "open" /\ st = "live" /\ v \in query.match =>
              grown' /\ (late' \/ ~ \E j \in List(query, rows) : j > i)
    PROVE  IInv'
<1>1. PICK rs : rs = [rows EXCEPT ![i] = [value |-> v, state |-> st]]
  OBVIOUS
<1>2. rows \in Seq(Row) /\ Len(rows) <= MaxRows /\ Len(rows) \in Nat
  BY DEF IInv, TypeOK
<1>3. /\ rs \in Seq(Row) /\ Len(rs) = Len(rows) /\ DOMAIN rs = DOMAIN rows
      /\ rs[i].value = v /\ rs[i].state = st
      /\ \A j \in DOMAIN rows : j # i => rs[j] = rows[j]
  BY <1>1, <1>2, RowWritten
<1>4. Write(rs)
  BY <1>1
<1>5. \A j \in DOMAIN rows : j # i => (j \in List(query, rs) <=> j \in List(query, rows))
  BY <1>3 DEF List, InList
<1>6. List(query, rs) \subseteq DOMAIN rows /\ List(query, rows) \subseteq DOMAIN rows
  BY <1>3 DEF List
<1>7. /\ i \in List(query, rows) <=> rows[i].state = "live" /\ rows[i].value \in query.match
      /\ i \in List(query, rs) <=> st = "live" /\ v \in query.match
  BY <1>3 DEF List, InList
<1>8. ~ shrunk' /\ ~ edited' => List(query, rows) \subseteq List(query, rs)
  <2>1. ~ shrunk' /\ ~ edited' /\ i \in List(query, rows) => i \in List(query, rs)
    BY <1>7
  <2> QED BY <1>5, <1>6, <2>1
<1>9. ~ edited' => \A j \in List(query, rows) : rs[j].value = rows[j].value
  <2>1. ~ edited' /\ i \in List(query, rows) => rs[i].value = rows[i].value
    BY <1>3, <1>7
  <2> QED BY <1>3, <1>6, <2>1
<1>10. ~ edited' => \A j \in List(query, rs) \ List(query, rows) :
              /\ j \in DOMAIN rows /\ rows[j].state = "open" /\ grown'
              /\ late' \/ \A k \in List(query, rows) : k < j
  <2> SUFFICES ASSUME ~ edited', NEW j \in List(query, rs) \ List(query, rows)
               PROVE  /\ j \in DOMAIN rows /\ rows[j].state = "open" /\ grown'
                      /\ late' \/ \A k \in List(query, rows) : k < j
    OBVIOUS
  <2>1. j = i
    BY <1>5, <1>6
  <2>2. st = "live" /\ v \in query.match /\ rows[i].state = "open"
    BY <1>7, <2>1
  <2>3. \A k \in List(query, rows) : k \in Nat /\ i \in Nat /\ k # i
    BY <1>2, <1>6, <2>1
  <2> QED BY <2>1, <2>2, <2>3
<1>11. ~ edited' => \A j \in DOMAIN rows :
              rows[j].state \in {"live", "deleted"} /\ rows[j].value \in query.match =>
                 rs[j].state \in {"live", "deleted"} /\ rs[j].value \in query.match
  <2>1. ~ edited' /\ rows[i].state \in {"live", "deleted"} /\ rows[i].value \in query.match =>
           rs[i].state \in {"live", "deleted"} /\ rs[i].value \in query.match
    BY <1>3
  <2> QED BY <1>3, <2>1
<1>12. Len(rows) <= Len(rs) /\ Len(rs) <= MaxRows
  BY <1>2, <1>3
<1> QED BY <1>3, <1>4, <1>8, <1>9, <1>10, <1>11, <1>12, WriteKeeps

\* EXCEPT on a field of a row is EXCEPT on the row.
LEMMA RowFields ==
    ASSUME IInv, NEW i \in DOMAIN rows
    PROVE  /\ rows[i].value \in Values
           /\ \A st : [rows EXCEPT ![i].state = st] = [rows EXCEPT ![i] = [value |-> rows[i].value, state |-> st]]
           /\ \A v : [rows EXCEPT ![i].value = v] = [rows EXCEPT ![i] = [value |-> v, state |-> rows[i].state]]
<1>1. rows \in Seq(Row) /\ i \in 1..Len(rows)
  BY DEF IInv, TypeOK
<1>2. rows[i] \in Row
  BY <1>1, ElementOfSeq
<1>3. /\ \A st : [rows[i] EXCEPT !.state = st] = [value |-> rows[i].value, state |-> st]
      /\ \A v : [rows[i] EXCEPT !.value = v] = [value |-> v, state |-> rows[i].state]
  BY <1>2 DEF Row
<1> QED BY <1>2, <1>3 DEF Row

LEMMA CommitKeeps ==
    ASSUME IInv, NEW i \in DOMAIN rows, Commit(i)
    PROVE  IInv'
<1>1. Write([rows EXCEPT ![i] = [value |-> rows[i].value, state |-> "live"]]) /\ rows[i].state = "open"
  BY RowFields DEF Commit
<1>2. /\ grown' = (grown \/ rows[i].value \in query.match)
      /\ late' = (late \/ (rows[i].value \in query.match /\ \E j \in List(query, rows) : j > i))
      /\ UNCHANGED <<shrunk, edited>>
  BY DEF Commit
<1>3. /\ grown' \in BOOLEAN /\ late' \in BOOLEAN /\ shrunk' \in BOOLEAN /\ edited' \in BOOLEAN
      /\ late' => grown' /\ (grown => grown') /\ (late => late')
  BY <1>2, FlagsAreBoolean
<1>4. rows[i].value \in query.match => grown' /\ (late' \/ ~ \E j \in List(query, rows) : j > i)
  BY <1>2
<1> QED BY <1>1, <1>2, <1>3, <1>4, RowFields, RowKeeps

LEMMA RollbackKeeps ==
    ASSUME IInv, NEW i \in DOMAIN rows, Rollback(i)
    PROVE  IInv'
<1>1. /\ Write([rows EXCEPT ![i] = [value |-> rows[i].value, state |-> "undone"]])
      /\ rows[i].state = "open" /\ UNCHANGED <<grown, late, shrunk, edited>>
  BY RowFields DEF Rollback
<1> QED BY <1>1, RowFields, FlagsAreBoolean, RowKeeps

LEMMA EditKeeps ==
    ASSUME IInv, NEW i \in DOMAIN rows, NEW v \in Values, Edit(i, v)
    PROVE  IInv'
<1>1. Write([rows EXCEPT ![i] = [value |-> v, state |-> "live"]]) /\ rows[i].state = "live"
  <2>1. rows[i].state = "live" /\ Write([rows EXCEPT ![i].value = v])
    BY DEF Edit
  <2>2. [rows EXCEPT ![i].value = v] = [rows EXCEPT ![i] = [value |-> v, state |-> rows[i].state]]
    BY RowFields
  <2> QED BY <2>1, <2>2
<1>2. /\ edited' = (edited \/ {v, rows[i].value} \cap query.match # {})
      /\ UNCHANGED <<grown, late, shrunk>>
  BY DEF Edit
<1>3. edited' \in BOOLEAN /\ (edited => edited') /\ (edited' \/ {v, rows[i].value} \cap query.match = {})
  BY <1>2, FlagsAreBoolean
<1> QED BY <1>1, <1>2, <1>3, RowFields, FlagsAreBoolean, RowKeeps

LEMMA DeleteKeeps ==
    ASSUME IInv, NEW i \in DOMAIN rows, Delete(i)
    PROVE  IInv'
<1>1. Write([rows EXCEPT ![i] = [value |-> rows[i].value, state |-> "deleted"]]) /\ rows[i].state = "live"
  BY RowFields DEF Delete
<1>2. /\ shrunk' = (shrunk \/ i \in List(query, rows))
      /\ UNCHANGED <<grown, late, edited>>
  BY DEF Delete
<1>3. shrunk' \in BOOLEAN /\ (shrunk => shrunk') /\ (i \in List(query, rows) => shrunk')
  BY <1>2, FlagsAreBoolean DEF List
<1> QED BY <1>1, <1>2, <1>3, RowFields, FlagsAreBoolean, RowKeeps

-----------------------------------------------------------------------------
(* The client.                                                              *)

LEMMA StartKeeps ==
    ASSUME IInv, NEW q \in Query, Start(q)
    PROVE  IInv'
<1>1. /\ TypeOK /\ at = "idle" /\ query' = q /\ at' = "find"
      /\ since' = List(q, rows) /\ tied' = Tied(q, rows)
      /\ UNCHANGED <<rows, offset, page, got, count, grown, late, shrunk, edited>>
      /\ offset = 0 /\ got = <<>> /\ page = <<>>
  BY DEF IInv, Begun, Start
<1>2. Len(page) = 0 /\ Len(got) = 0 /\ DOMAIN got = {} /\ ToSet(got) = {}
  BY <1>1 DEF ToSet
<1>3. TypeOK'
  <2>1. Limit(q) \in Nat
    BY LimitIsNat
  <2>2. tied' \in BOOLEAN
    BY <1>1 DEF Tied
  <2>3. /\ grown' \in BOOLEAN /\ late' \in BOOLEAN /\ shrunk' \in BOOLEAN /\ edited' \in BOOLEAN
        /\ late' => grown'
    BY <1>1, FlagsAreBoolean
  <2> QED BY <1>1, <1>2, <2>1, <2>2, <2>3 DEF TypeOK
<1>4. Begun' /\ TiesKnown'
  BY <1>1 DEF Begun, TiesKnown
<1>5. Behind' = 0 /\ at' = "find"
  BY <1>1 DEF Behind
<1>6. AheadOfMissed'
  <2>1. ASSUME NEW i PROVE 0 <= Cardinality(Ahead(i)')
    <3>1. rows \in Seq(Row) /\ rows' = rows
      BY <1>1 DEF TypeOK
    <3>2. IsFiniteSet(List(q, rows)) /\ Ahead(i)' \subseteq List(q, rows)
      BY <1>1, <3>1, ListFinite DEF Ahead
    <3>3. IsFiniteSet(Ahead(i)')
      BY <3>2, FS_Subset
    <3> QED BY <3>3, FS_CardinalityType
  <2> QED BY <1>5, <2>1 DEF AheadOfMissed
<1>7. AheadOfGot'
  BY <1>1, <1>2 DEF AheadOfGot, IsInjective
<1>8. GotSoFar'
  <2>1. CountOf(q, rows) \in Nat
    BY <1>1, ListFinite DEF TypeOK
  <2> QED BY <1>1, <1>2, <1>5, <2>1 DEF GotSoFar
<1> QED BY <1>3, <1>4, <1>6, <1>7, <1>8 DEF IInv

\* Where no two rows tie, the page has the rows that the limit lets follow on
\* those before it.
LEMMA FindKeeps ==
    ASSUME IInv, Find
    PROVE  IInv'
<1>1. PICK s \in Ordered(query, rows) :
         page' = PageAt(s, query, offset) /\ got' = got \o PageAt(s, query, offset)
  BY DEF Find
<1>2. PICK p, N : p = PageAt(s, query, offset) /\ N = CountOf(query, rows)
  OBVIOUS
<1>3. /\ TypeOK /\ at = "find" /\ at' = "count" /\ page' = p /\ got' = got \o p
      /\ UNCHANGED <<rows, query, offset, count, since, grown, late, shrunk, edited, tied>>
      /\ query \in Query /\ offset \in Nat /\ Limit(query) \in Nat
  BY <1>1, <1>2, LimitIsNat DEF Find, IInv, TypeOK
<1>4. /\ s \in Seq(DOMAIN rows) /\ Len(s) = N /\ N \in Nat /\ DOMAIN s = 1..N
      /\ \A n \in 1..N : s[n] \in List(query, rows)
      /\ \A m, n \in 1..N : s[m] = s[n] => m = n
      /\ \A i \in List(query, rows) : \E n \in 1..N : s[n] = i
  BY <1>2, <1>3, OrderedIsList
<1>5. /\ p \in Seq(DOMAIN rows) /\ Len(p) \in Nat /\ Len(p) <= Limit(query)
      /\ offset <= N => offset + Len(p) <= N
      /\ \A k \in 1..Len(p) : p[k] = s[offset + k] /\ offset + k \in 1..N
      /\ \A n \in (offset + 1)..N : n <= offset + Len(p) \/ Len(p) = Limit(query)
      /\ offset <= N /\ Len(p) < Limit(query) => offset + Len(p) = N
  BY <1>2, <1>3, <1>4, PageEffect
<1>6. /\ got \in Seq(DOMAIN rows) /\ got' \in Seq(DOMAIN rows)
      /\ Len(got') = Len(got) + Len(p) /\ Len(got) \in Nat
      /\ \A k \in 1..(Len(got) + Len(p)) : got'[k] = IF k <= Len(got) THEN got[k] ELSE p[k - Len(got)]
  BY <1>3, <1>5, ConcatProperties DEF TypeOK
<1>7. Behind = offset /\ Behind' = offset + Len(p)
  BY <1>3 DEF Behind
<1>8. TypeOK'
  BY <1>3, <1>5, <1>6 DEF TypeOK
<1>9. Begun' /\ TiesKnown'
  BY <1>3 DEF IInv, Begun, TiesKnown
<1>10. \A i : i \in ToSet(got') <=> i \in ToSet(got) \/ \E k \in 1..Len(p) : i = p[k]
  <2>1. DOMAIN got = 1..Len(got) /\ DOMAIN got' = 1..(Len(got) + Len(p))
    BY <1>6
  <2>2. ASSUME NEW k \in 1..Len(p)
        PROVE  Len(got) + k \in DOMAIN got' /\ got'[Len(got) + k] = p[k]
    <3>1. /\ Len(got) + k \in 1..(Len(got) + Len(p)) /\ ~ Len(got) + k <= Len(got)
          /\ (Len(got) + k) - Len(got) = k
      BY <1>5, <1>6
    <3> QED BY <1>6, <2>1, <3>1
  <2>3. ASSUME NEW k \in 1..Len(got) PROVE k \in DOMAIN got' /\ got'[k] = got[k]
    BY <1>5, <1>6, <2>1
  <2>4. ASSUME NEW k \in DOMAIN got'
        PROVE  (k \in DOMAIN got /\ got'[k] = got[k])
               \/ (k - Len(got) \in 1..Len(p) /\ got'[k] = p[k - Len(got)])
    BY <1>5, <1>6, <2>1
  <2>5. ASSUME NEW i, i \in ToSet(got) PROVE i \in ToSet(got')
    <3>1. PICK k \in 1..Len(got) : i = got[k]
      BY <2>1, <2>5 DEF ToSet
    <3> QED BY <2>3, <3>1 DEF ToSet
  <2>6. ASSUME NEW i, \E k \in 1..Len(p) : i = p[k] PROVE i \in ToSet(got')
    <3>1. PICK k \in 1..Len(p) : i = p[k]
      BY <2>6
    <3> QED BY <2>2, <3>1 DEF ToSet
  <2>7. ASSUME NEW i, i \in ToSet(got') PROVE i \in ToSet(got) \/ \E k \in 1..Len(p) : i = p[k]
    <3>1. PICK k \in DOMAIN got' : i = got'[k]
      BY <2>7 DEF ToSet
    <3> QED BY <2>4, <3>1 DEF ToSet
  <2> QED BY <2>5, <2>6, <2>7
<1>11. Ahead(0)' = Ahead(0) /\ \A i : Cardinality(Ahead(i)') = Cardinality(Ahead(i))
  BY <1>3 DEF Ahead
<1>12. ~ tied => \A n \in 1..N : Cardinality(Ahead(s[n])) = n - 1
  BY <1>2, <1>3, PlaceIsRank DEF IInv, TiesKnown
<1>13. AheadOfMissed'
  <2> SUFFICES ASSUME ~ shrunk, ~ edited, ~ tied, Limit(query) > 0,
                      NEW i \in since, i \notin ToSet(got')
               PROVE  offset + Len(p) <= Cardinality(Ahead(i)) /\ Len(p) = Limit(query)
    <3>1. Limit(query)' = Limit(query)
      BY <1>3 DEF Limit
    <3> QED BY <1>3, <1>7, <1>11, <3>1 DEF AheadOfMissed
  <2>1. i \notin ToSet(got) /\ i \in List(query, rows)
    BY <1>3, <1>10 DEF TypeOK
  <2>2. offset <= Cardinality(Ahead(i))
    BY <1>3, <1>7, <2>1 DEF IInv, AheadOfMissed
  <2>3. PICK n \in 1..N : s[n] = i
    BY <1>4, <2>1
  <2>4. Cardinality(Ahead(i)) = n - 1
    BY <1>12, <2>3
  <2>5. n \in (offset + 1)..N
    BY <1>3, <1>4, <2>2, <2>4
  <2>6. ~ n <= offset + Len(p)
    <3> SUFFICES ASSUME n <= offset + Len(p) PROVE FALSE
      OBVIOUS
    <3>1. n - offset \in 1..Len(p) /\ offset + (n - offset) = n
      BY <1>3, <1>4, <1>5, <2>5
    <3>2. p[n - offset] = i
      BY <1>5, <2>3, <3>1
    <3> QED BY <1>10, <3>1, <3>2
  <2> QED BY <1>3, <1>4, <1>5, <2>4, <2>5, <2>6
<1>14. AheadOfGot'
  <2> SUFFICES ASSUME ~ tied, ~ edited, ~ grown \/ (query.order = "id" /\ ~ query.desc /\ ~ late)
               PROVE  /\ IsInjective(got')
                      /\ \A i \in ToSet(got') :
                            /\ rows[i].state \in {"live", "deleted"} /\ rows[i].value \in query.match
                            /\ i \in List(query, rows) => Cardinality(Ahead(i)) < offset + Len(p)
    BY <1>3, <1>7, <1>11 DEF AheadOfGot
  <2>1. /\ IsInjective(got)
        /\ \A i \in ToSet(got) :
              /\ rows[i].state \in {"live", "deleted"} /\ rows[i].value \in query.match
              /\ i \in List(query, rows) => Cardinality(Ahead(i)) < offset
    BY <1>3, <1>7 DEF IInv, AheadOfGot
  <2>2. ASSUME NEW k \in 1..Len(p)
        PROVE  /\ p[k] \in List(query, rows) /\ offset <= Cardinality(Ahead(p[k]))
               /\ Cardinality(Ahead(p[k])) < offset + Len(p)
               /\ p[k] \notin ToSet(got)
    <3>1. p[k] = s[offset + k] /\ offset + k \in 1..N
      BY <1>5
    <3>2. Cardinality(Ahead(p[k])) = offset + k - 1
      <4>1. PICK n \in 1..N : n = offset + k
        BY <3>1
      <4>2. Cardinality(Ahead(s[n])) = n - 1
        BY <1>12
      <4>3. p[k] = s[n]
        BY <3>1, <4>1
      <4> QED BY <1>3, <4>1, <4>2, <4>3
    <3>3. offset <= Cardinality(Ahead(p[k])) /\ Cardinality(Ahead(p[k])) < offset + Len(p)
      BY <1>3, <1>5, <3>2
    <3>4. p[k] \in List(query, rows)
      BY <1>4, <3>1
    <3>5. ~ Cardinality(Ahead(p[k])) < offset
      BY <1>3, <3>2
    <3> QED BY <2>1, <3>3, <3>4, <3>5
  <2>3. \A k, m \in 1..Len(p) : p[k] = p[m] => k = m
    <3> SUFFICES ASSUME NEW k \in 1..Len(p), NEW m \in 1..Len(p), p[k] = p[m] PROVE k = m
      OBVIOUS
    <3>1. s[offset + k] = s[offset + m] /\ offset + k \in 1..N /\ offset + m \in 1..N
      BY <1>5
    <3>2. offset + k = offset + m
      BY <1>4, <3>1
    <3> QED BY <1>3, <3>2
  <2>4. IsInjective(got')
    <3> SUFFICES ASSUME NEW k \in DOMAIN got', NEW m \in DOMAIN got', got'[k] = got'[m]
                 PROVE  k = m
      BY DEF IsInjective
    <3>1. k \in 1..(Len(got) + Len(p)) /\ m \in 1..(Len(got) + Len(p)) /\ DOMAIN got = 1..Len(got)
      BY <1>6
    <3>2. CASE k <= Len(got) /\ m <= Len(got)
      <4>1. k \in DOMAIN got /\ m \in DOMAIN got /\ got[k] = got[m]
        BY <1>6, <3>1, <3>2
      <4> QED BY <2>1, <4>1 DEF IsInjective
    <3>3. CASE ~ k <= Len(got) /\ ~ m <= Len(got)
      <4>1. /\ k - Len(got) \in 1..Len(p) /\ m - Len(got) \in 1..Len(p)
            /\ p[k - Len(got)] = p[m - Len(got)]
        BY <1>5, <1>6, <3>1, <3>3
      <4>2. k - Len(got) = m - Len(got)
        BY <2>3, <4>1
      <4> QED BY <1>6, <3>1, <4>2
    <3>4. CASE k <= Len(got) /\ ~ m <= Len(got)
      <4>1. k \in DOMAIN got /\ m - Len(got) \in 1..Len(p) /\ got[k] = p[m - Len(got)]
        BY <1>5, <1>6, <3>1, <3>4
      <4> QED BY <2>2, <4>1 DEF ToSet
    <3>5. CASE ~ k <= Len(got) /\ m <= Len(got)
      <4>1. m \in DOMAIN got /\ k - Len(got) \in 1..Len(p) /\ got[m] = p[k - Len(got)]
        BY <1>5, <1>6, <3>1, <3>5
      <4> QED BY <2>2, <4>1 DEF ToSet
    <3> QED BY <3>2, <3>3, <3>4, <3>5
  <2>5. ASSUME NEW i \in ToSet(got')
        PROVE  /\ rows[i].state \in {"live", "deleted"} /\ rows[i].value \in query.match
               /\ i \in List(query, rows) => Cardinality(Ahead(i)) < offset + Len(p)
    <3>1. CASE i \in ToSet(got)
      <4>1. Cardinality(Ahead(i)) \in Nat
        BY <1>3, AheadFinite
      <4> QED BY <1>3, <1>5, <2>1, <3>1, <4>1
    <3>2. CASE \E k \in 1..Len(p) : i = p[k]
      BY <2>2, <3>2 DEF List, InList
    <3> QED BY <1>10, <3>1, <3>2
  <2> QED BY <2>4, <2>5
<1>15. GotSoFar'
  <2>1. CountOf(query', rows') = N /\ Limit(query') = Limit(query)
    BY <1>2, <1>3
  <2> SUFFICES ASSUME ~ grown, ~ shrunk, ~ edited
               PROVE  /\ Len(got') = offset + Len(p) /\ offset + Len(p) <= N
                      /\ Len(p) < Limit(query) => offset + Len(p) = N
    BY <1>3, <1>7, <2>1 DEF GotSoFar
  <2>2. Len(got) = offset /\ offset <= N
    BY <1>2, <1>3, <1>7 DEF IInv, GotSoFar
  <2> QED BY <1>5, <1>6, <2>2
<1> QED BY <1>8, <1>9, <1>13, <1>14, <1>15 DEF IInv

LEMMA CountKeeps ==
    ASSUME IInv, Count
    PROVE  IInv'
<1>1. /\ TypeOK /\ at = "count" /\ count' = CountOf(query, rows)
      /\ UNCHANGED <<rows, query, page, got, since, grown, late, shrunk, edited, tied>>
  BY DEF IInv, Count
<1>2. Len(page) \in Nat /\ Len(page) <= Limit(query) /\ Limit(query) \in Nat /\ offset \in Nat
  BY <1>1, LimitIsNat DEF TypeOK
<1>3. \/ /\ Len(page) = Limit(query) /\ page # <<>>
         /\ at' = "find" /\ offset' = offset + Len(page)
      \/ /\ ~ (Len(page) = Limit(query) /\ page # <<>>)
         /\ at' = "done" /\ offset' = offset
  BY DEF Count
<1>4. page = <<>> => Len(page) = 0
  OBVIOUS
<1>5. TypeOK'
  <2>1. CountOf(query, rows) \in 0..MaxRows
    <3>1. CountOf(query, rows) \in Nat /\ CountOf(query, rows) <= Len(rows) /\ Len(rows) <= MaxRows
          /\ Len(rows) \in Nat /\ MaxRows \in Nat
      BY <1>1, ListFinite, PagingAssumption DEF TypeOK
    <3> QED BY <3>1
  <2>2. offset' \in Nat /\ at' \in {"find", "done"}
    BY <1>2, <1>3
  <2> QED BY <1>1, <2>1, <2>2 DEF TypeOK
<1>6. Begun' /\ TiesKnown'
  BY <1>1, <1>3 DEF IInv, Begun, TiesKnown
<1>7. \A i : Cardinality(Ahead(i)') = Cardinality(Ahead(i))
  BY <1>1 DEF Ahead
<1>8. Behind = offset + Len(page) /\ (at' = "find" => Behind' = Behind)
  BY <1>1, <1>3 DEF Behind
<1>9. AheadOfMissed'
  <2> SUFFICES ASSUME ~ shrunk, ~ edited, ~ tied, Limit(query) > 0, NEW i \in since, i \notin ToSet(got)
               PROVE  at' = "find" /\ Behind <= Cardinality(Ahead(i))
    <3>1. Limit(query)' = Limit(query)
      BY <1>1 DEF Limit
    <3> QED BY <1>1, <1>7, <1>8, <3>1 DEF AheadOfMissed
  <2>1. Behind <= Cardinality(Ahead(i)) /\ Len(page) = Limit(query)
    BY <1>1 DEF IInv, AheadOfMissed
  <2> QED BY <1>2, <1>3, <1>4, <2>1
<1>10. AheadOfGot'
  <2> SUFFICES ASSUME ~ tied, ~ edited, ~ grown \/ (query.order = "id" /\ ~ query.desc /\ ~ late)
               PROVE  /\ IsInjective(got)
                      /\ \A i \in ToSet(got) :
                            /\ rows[i].state \in {"live", "deleted"} /\ rows[i].value \in query.match
                            /\ at' = "find" /\ i \in List(query, rows) => Cardinality(Ahead(i)) < Behind
    BY <1>1, <1>3, <1>7, <1>8 DEF AheadOfGot
  <2> QED BY <1>1 DEF IInv, AheadOfGot
<1>11. GotSoFar'
  <2> SUFFICES ASSUME ~ grown, ~ shrunk, ~ edited
               PROVE  /\ at' = "find" => Len(got) = Behind /\ Behind <= CountOf(query, rows)
                      /\ at' = "done" /\ Limit(query) > 0 => Len(got) = CountOf(query, rows)
    <3>1. CountOf(query', rows') = CountOf(query, rows) /\ Limit(query') = Limit(query)
      BY <1>1
    <3> QED BY <1>1, <1>3, <1>8, <3>1 DEF GotSoFar
  <2>1. /\ Len(got) = Behind /\ Behind <= CountOf(query, rows)
        /\ Len(page) < Limit(query) => Behind = CountOf(query, rows)
    BY <1>1 DEF IInv, GotSoFar
  <2>2. at' = "done" /\ Limit(query) > 0 => Len(page) < Limit(query)
    BY <1>2, <1>3, <1>4
  <2> QED BY <2>1, <2>2
<1> QED BY <1>5, <1>6, <1>9, <1>10, <1>11 DEF IInv

-----------------------------------------------------------------------------
(* The theorems.                                                            *)

LEMMA InitIInv == Init => IInv
<1> SUFFICES ASSUME Init PROVE IInv
  OBVIOUS
<1>1. PICK n \in 0..MaxRows : rows \in [1..n -> [value : Values, state : {"live"}]]
  BY DEF Init
<1>2. /\ query = NoQuery /\ at = "idle" /\ offset = 0 /\ count = 0 /\ page = <<>> /\ got = <<>>
      /\ since = {} /\ ~ grown /\ ~ late /\ ~ shrunk /\ ~ edited /\ ~ tied
      /\ grown \in BOOLEAN /\ late \in BOOLEAN /\ shrunk \in BOOLEAN /\ edited \in BOOLEAN /\ tied \in BOOLEAN
  BY DEF Init
<1>3. rows \in Seq(Row) /\ Len(rows) <= MaxRows
  <2>1. n \in Nat /\ n <= MaxRows
    BY <1>1, PagingAssumption
  <2>2. rows \in [1..n -> Row]
    BY <1>1 DEF Row
  <2>3. rows \in Seq(Row)
    BY <2>1, <2>2, SeqDef
  <2>4. Len(rows) = n
    BY <2>1, <2>2, <2>3
  <2> QED BY <2>1, <2>3, <2>4
<1>4. ToSet(got) = {} /\ DOMAIN got = {}
  BY <1>2 DEF ToSet
<1>5. TypeOK
  <2>1. NoQuery \in Query
    BY PagingAssumption DEF NoQuery, Query
  <2>2. 0 \in 0..MaxRows /\ <<>> \in Seq(DOMAIN rows)
    BY PagingAssumption
  <2> QED BY <1>2, <1>3, <2>1, <2>2 DEF TypeOK
<1>6. Begun /\ TiesKnown /\ AheadOfMissed /\ AheadOfGot /\ GotSoFar
  BY <1>2, <1>4 DEF Begun, TiesKnown, AheadOfMissed, AheadOfGot, GotSoFar, IsInjective
<1> QED BY <1>5, <1>6 DEF IInv

LEMMA NextIInv == IInv /\ [Next]_vars => IInv'
<1> SUFFICES ASSUME IInv, [Next]_vars PROVE IInv'
  OBVIOUS
<1>1. CASE \E v \in Values : Insert(v)
  BY <1>1, InsertKeeps
<1>2. ASSUME NEW i \in DOMAIN rows,
             Commit(i) \/ Rollback(i) \/ Delete(i) \/ \E v \in Values : Edit(i, v)
      PROVE  IInv'
  BY <1>2, CommitKeeps, RollbackKeeps, DeleteKeeps, EditKeeps
<1>3. CASE \E q \in Query : Start(q)
  BY <1>3, StartKeeps
<1>4. CASE Find \/ Count
  BY <1>4, FindKeeps, CountKeeps
<1>5. CASE UNCHANGED vars
  <2>1. UNCHANGED <<rows, query, at, offset, page, got, count, since, grown, late, shrunk, edited, tied>>
    BY <1>5 DEF vars
  <2>2. TypeOK'
    BY <2>1 DEF IInv, TypeOK
  <2>3. \A i : Ahead(i)' = Ahead(i)
    BY <2>1 DEF Ahead
  <2>4. Behind' = Behind
    BY <2>1 DEF Behind
  <2>5. AheadOfMissed' /\ AheadOfGot'
    BY <2>1, <2>3, <2>4 DEF IInv, AheadOfMissed, AheadOfGot
  <2>6. GotSoFar' /\ Begun' /\ TiesKnown'
    BY <2>1, <2>4 DEF IInv, GotSoFar, Begun, TiesKnown
  <2> QED BY <2>2, <2>5, <2>6 DEF IInv
<1> QED BY <1>1, <1>2, <1>3, <1>4, <1>5 DEF Next

\* The inductive invariant: a row the client has yet to get has at least as many
\* before it as the pages so far, one it has got has fewer, and without writers
\* the pages so far are as long as what they leave behind (general.go 397-411,
\* repository/user.go 69-95).
THEOREM Invariant == Spec => []IInv
<1>1. Init => IInv
  BY InitIInv
<1>2. IInv /\ [Next]_vars => IInv'
  BY NextIInv
<1> QED BY <1>1, <1>2, PTL DEF Spec

\* Pages are of rows there are and no longer than the limit, 10 where none is given
\* (general.go 397-411).
THEOREM TypeCorrect == Spec => []TypeOK
<1>1. IInv => TypeOK
  BY DEF IInv
<1> QED BY <1>1, Invariant, PTL

\* No row that is in the list all the time is missed by a client that reads to the
\* end, whatever is created meanwhile, for every limit, order and filter and any
\* number of rows: only a deletion, an edit or a tie can hide one
\* (repository/user.go 69-82).
THEOREM NoRowMissed == Spec => []NothingMissed
<1>1. IInv => NothingMissed
  BY DEF IInv, AheadOfMissed, NothingMissed
<1> QED BY <1>1, Invariant, PTL

\* No row is got twice, whatever is deleted meanwhile; and, where the order is that
\* of the ids, whatever is created, unless a later row was committed before
\* (general.go 397-411).
THEOREM NoRowTwice == Spec => []NothingTwice
<1>1. IInv => NothingTwice
  BY DEF IInv, AheadOfGot, NothingTwice
<1> QED BY <1>1, Invariant, PTL

\* Where nobody writes, the count is the number of rows that all pages together
\* have, ties or not (repository/user.go 84-95).
THEOREM CountMatchesPages == Spec => []CountsWhatIsShown
<1>1. IInv => CountsWhatIsShown
  BY DEF IInv, GotSoFar, CountsWhatIsShown
<1> QED BY <1>1, Invariant, PTL
=============================================================================

-------------------------- MODULE NotesListProofs --------------------------
(* Proofs about NotesList, for any set of notes, any size of a page and    *)
(* any number of mutations and faults.                                     *)
EXTENDS NotesList, TLAPS, FiniteSetTheorems, SequenceTheorems

-----------------------------------------------------------------------------
(* Finite sets of numbers, listed in order.                                *)

LEMMA NotesFinite ==
    ASSUME NEW S \in SUBSET Notes
    PROVE  S \in SUBSET Nat /\ IsFiniteSet(S) /\ Cardinality(S) \in Nat
  BY NotesAssumption, FS_Subset, FS_CardinalityType

LEMMA CountTo ==
    ASSUME NEW n \in Nat
    PROVE  IsFiniteSet(1..n) /\ Cardinality(1..n) = n
  BY FS_Interval

(* A number is listed behind those below it: the place of each is how many *)
(* there are up to it.                                                     *)
LEMMA AscendingExists ==
    ASSUME NEW S \in SUBSET Nat, IsFiniteSet(S)
    PROVE  \E f \in [1..Cardinality(S) -> S] :
              \A i, j \in 1..Cardinality(S) : i < j => f[i] < f[j]
<1> DEFINE n == Cardinality(S)
           upTo(m) == {k \in S : k <= m}
           rank == [m \in S |-> Cardinality(upTo(m))]
           f == [i \in 1..n |-> CHOOSE m \in S : rank[m] = i]
<1>1. n \in Nat
  BY FS_CardinalityType
<1>2. ASSUME NEW m \in S
      PROVE  /\ IsFiniteSet(upTo(m))
             /\ rank[m] \in 1..n
  <2>1. upTo(m) \in SUBSET S
    OBVIOUS
  <2>2. IsFiniteSet(upTo(m)) /\ Cardinality(upTo(m)) <= n
    BY <2>1, FS_Subset
  <2>3. Cardinality(upTo(m)) \in Nat
    BY <2>2, FS_CardinalityType
  <2>4. m \in upTo(m)
    OBVIOUS
  <2>5. Cardinality(upTo(m)) # 0
    BY <2>2, <2>4, FS_EmptySet
  <2> QED BY <1>1, <2>2, <2>3, <2>5
<1>3. ASSUME NEW k \in S, NEW m \in S, k < m
      PROVE  rank[k] < rank[m]
  <2>0. k \in Nat /\ m \in Nat /\ \A j \in S : j \in Nat
    OBVIOUS
  <2>1. upTo(k) \in SUBSET upTo(m) /\ m \in upTo(m) /\ m \notin upTo(k)
    <3>1. \A j \in S : j <= k => j <= m
      BY <1>3, <2>0
    <3>2. m <= m /\ ~ m <= k
      BY <1>3, <2>0
    <3> QED BY <3>1, <3>2, Zenon
  <2>2. /\ Cardinality(upTo(k)) <= Cardinality(upTo(m))
        /\ Cardinality(upTo(k)) # Cardinality(upTo(m))
    BY <1>2, <2>1, FS_Subset
  <2>3. Cardinality(upTo(k)) \in Nat /\ Cardinality(upTo(m)) \in Nat
    BY <1>2, FS_CardinalityType
  <2> QED BY <2>2, <2>3
<1>4. \A k, m \in S : rank[k] = rank[m] => k = m
  <2> SUFFICES ASSUME NEW k \in S, NEW m \in S, rank[k] = rank[m], k # m
               PROVE  FALSE
    OBVIOUS
  <2>1. k < m \/ m < k
    OBVIOUS
  <2>2. rank[k] \in 1..n /\ rank[m] \in 1..n
    BY <1>2
  <2> QED BY <1>3, <2>1, <2>2
<1>5. rank \in Injection(S, 1..n)
  BY <1>2, <1>4 DEF Injection, IsInjective
<1>6. rank \in Surjection(S, 1..n)
  <2> HIDE DEF rank
  <2> QED BY <1>1, <1>5, CountTo, FS_Injection
<1>7. \A i \in 1..n : \E m \in S : rank[m] = i
  BY <1>6 DEF Surjection
<1>8. \A i \in 1..n : f[i] \in S /\ rank[f[i]] = i
  BY <1>7
<1>9. f \in [1..n -> S]
  BY <1>8
<1> HIDE DEF f, rank
<1>10. ASSUME NEW i \in 1..n, NEW j \in 1..n, i < j
       PROVE  f[i] < f[j]
  <2>1. f[i] \in S /\ f[j] \in S /\ rank[f[i]] = i /\ rank[f[j]] = j
    BY <1>8
  <2>0. f[i] \in Nat /\ f[j] \in Nat
    <3>1. \A m \in S : m \in Nat
      OBVIOUS
    <3> QED BY <2>1, <3>1, Zenon
  <2>2. ~ rank[f[j]] < rank[f[i]] /\ f[i] # f[j]
    BY <1>10, <2>0, <2>1
  <2>3. ~ f[j] < f[i]
    BY <1>3, <2>1, <2>2
  <2> QED BY <2>0, <2>2, <2>3
<1> QED BY <1>9, <1>10

(* Ascending lists every number of S once.                                 *)
LEMMA AscendingLists ==
    ASSUME NEW S \in SUBSET Nat, IsFiniteSet(S)
    PROVE  /\ Ascending(S) \in [1..Cardinality(S) -> S]
           /\ \A i, j \in 1..Cardinality(S) :
                 Ascending(S)[i] = Ascending(S)[j] => i = j
           /\ \A m \in S : \E i \in 1..Cardinality(S) : Ascending(S)[i] = m
<1> DEFINE n == Cardinality(S)
           f == Ascending(S)
<1>1. n \in Nat
  BY FS_CardinalityType
<1>2. f \in [1..n -> S] /\ \A i, j \in 1..n : i < j => f[i] < f[j]
  BY AscendingExists DEF Ascending
<1> HIDE DEF f
<1>3. \A i, j \in 1..n : f[i] = f[j] => i = j
  <2> SUFFICES ASSUME NEW i \in 1..n, NEW j \in 1..n, f[i] = f[j], i # j
               PROVE  FALSE
    OBVIOUS
  <2>1. i < j \/ j < i
    BY <1>1
  <2>2. f[i] \in Nat /\ f[j] \in Nat
    BY <1>2
  <2> QED BY <1>2, <2>1, <2>2
<1>4. f \in Injection(1..n, S)
  BY <1>2, <1>3 DEF Injection, IsInjective
<1>5. f \in Surjection(1..n, S)
  BY <1>1, <1>4, CountTo, FS_Injection
<1> QED BY <1>2, <1>3, <1>5 DEF Surjection, f

LEMMA AscendingType ==
    ASSUME NEW S \in SUBSET Notes
    PROVE  /\ Ascending(S) \in Seq(Notes) /\ Len(Ascending(S)) = Cardinality(S)
           /\ ToSet(Ascending(S)) = S
           /\ IsInjective(Ascending(S))
<1>1. S \in SUBSET Nat /\ IsFiniteSet(S) /\ Cardinality(S) \in Nat
  BY NotesFinite
<1>2. /\ Ascending(S) \in [1..Cardinality(S) -> S]
      /\ \A i, j \in 1..Cardinality(S) : Ascending(S)[i] = Ascending(S)[j] => i = j
      /\ \A m \in S : \E i \in 1..Cardinality(S) : Ascending(S)[i] = m
  BY <1>1, AscendingLists
<1> DEFINE a == Ascending(S)
           n == Cardinality(S)
<1>3. DOMAIN a = 1..n /\ n \in Nat
  BY <1>1, <1>2
<1>4. a \in Seq(Notes) /\ Len(a) = n
  <2>1. a \in [1..n -> Notes]
    BY <1>2
  <2> HIDE DEF a, n
  <2> QED BY <1>3, <2>1
<1>5. ToSet(a) = S
  BY <1>2, <1>3 DEF ToSet
<1>6. IsInjective(a)
  BY <1>2, <1>3 DEF IsInjective
<1> QED BY <1>4, <1>5, <1>6

LEMMA NewestType ==
    ASSUME NEW S \in SUBSET Notes
    PROVE  /\ Newest(S) \in Seq(Notes)
           /\ ToSet(Newest(S)) = S
           /\ IsInjective(Newest(S))
<1> DEFINE a == Ascending(S)
           n == Cardinality(S)
<1>1. a \in Seq(Notes) /\ Len(a) = n /\ ToSet(a) = S /\ IsInjective(a) /\ n \in Nat
  BY AscendingType, NotesFinite
<1> HIDE DEF a, n
<1>2. Newest(S) = [i \in 1..n |-> a[(n - i) + 1]]
  BY <1>1 DEF Newest, Reverse, a
<1>3. \A i \in 1..n : (n - i) + 1 \in 1..n /\ (n - ((n - i) + 1)) + 1 = i
  BY <1>1
<1>4. a \in [1..n -> Notes] /\ \A i, j \in 1..n : a[i] = a[j] => i = j
  BY <1>1 DEF IsInjective
<1>5. Newest(S) \in Seq(Notes)
  BY <1>1, <1>2, <1>3, <1>4
<1>6. ToSet(Newest(S)) = S
  <2>1. ToSet(Newest(S)) = {a[(n - i) + 1] : i \in 1..n}
    BY <1>2 DEF ToSet
  <2>2. S = {a[i] : i \in 1..n}
    BY <1>1 DEF ToSet
  <2> QED BY <1>3, <2>1, <2>2
<1>7. IsInjective(Newest(S))
  <2> SUFFICES ASSUME NEW i \in 1..n, NEW j \in 1..n, a[(n - i) + 1] = a[(n - j) + 1]
               PROVE  i = j
    BY <1>2 DEF IsInjective
  <2>1. (n - i) + 1 = (n - j) + 1
    BY <1>3, <1>4
  <2> QED BY <1>1, <2>1
<1> QED BY <1>5, <1>6, <1>7

(* What is left of a list when some notes go.                              *)
LEMMA WithoutType ==
    ASSUME NEW seq \in Seq(Notes), NEW S
    PROVE  /\ Without(seq, S) \in Seq(Notes)
           /\ ToSet(Without(seq, S)) = ToSet(seq) \ S
           /\ IsInjective(seq) => IsInjective(Without(seq, S))
<1> DEFINE kept == {k \in DOMAIN seq : seq[k] \notin S}
           n == Cardinality(kept)
           a == Ascending(kept)
<1>1. Len(seq) \in Nat /\ DOMAIN seq = 1..Len(seq)
  OBVIOUS
<1>2. kept \in SUBSET Nat /\ IsFiniteSet(kept) /\ n \in Nat
  <2>1. kept \in SUBSET (1..Len(seq))
    BY <1>1
  <2>2. IsFiniteSet(1..Len(seq))
    BY <1>1, CountTo
  <2>3. IsFiniteSet(kept)
    BY <2>1, <2>2, FS_Subset
  <2> QED BY <2>1, <2>3, FS_CardinalityType
<1>3. /\ a \in [1..n -> kept]
      /\ \A i, j \in 1..n : a[i] = a[j] => i = j
      /\ \A k \in kept : \E i \in 1..n : a[i] = k
  BY <1>2, AscendingLists
<1>4. Without(seq, S) = [i \in 1..n |-> seq[a[i]]]
  BY DEF Without
<1> HIDE DEF a, n
<1>5. \A i \in 1..n : a[i] \in DOMAIN seq /\ seq[a[i]] \notin S
  BY <1>3
<1>6. \A k \in DOMAIN seq : seq[k] \in Notes
  OBVIOUS
<1>7. Without(seq, S) \in Seq(Notes)
  <2>1. Without(seq, S) \in [1..n -> Notes]
    BY <1>4, <1>5, <1>6
  <2> QED BY <1>2, <2>1
<1>8. ToSet(Without(seq, S)) = ToSet(seq) \ S
  BY <1>3, <1>4, <1>5 DEF ToSet
<1>9. IsInjective(seq) => IsInjective(Without(seq, S))
  BY <1>3, <1>4, <1>5 DEF IsInjective
<1> QED BY <1>7, <1>8, <1>9

-----------------------------------------------------------------------------
(* Two lists without a note in common, joined.                             *)

LEMMA Joined ==
    ASSUME NEW s \in Seq(Notes), NEW t \in Seq(Notes)
    PROVE  /\ s \o t \in Seq(Notes)
           /\ ToSet(s \o t) = ToSet(s) \cup ToSet(t)
           /\ IsInjective(s \o t) <=>
                 IsInjective(s) /\ IsInjective(t) /\ ToSet(s) \cap ToSet(t) = {}
<1> DEFINE m == Len(s)
           n == Len(t)
           u == s \o t
<1>1. /\ m \in Nat /\ n \in Nat
      /\ DOMAIN s = 1..m /\ DOMAIN t = 1..n
      /\ u \in Seq(Notes) /\ DOMAIN u = 1..(m + n)
      /\ \A i \in 1..m : u[i] = s[i]
      /\ \A j \in 1..n : u[m + j] = t[j]
  OBVIOUS
<1> HIDE DEF m, n, u
<1>2. \A i \in 1..(m + n) : i \in 1..m \/ \E j \in 1..n : i = m + j
  <2> SUFFICES ASSUME NEW i \in 1..(m + n), i \notin 1..m
               PROVE  i - m \in 1..n /\ i = m + (i - m)
    OBVIOUS
  <2> QED BY <1>1
<1>3. (\A i \in 1..m : i \in 1..(m + n)) /\ (\A j \in 1..n : m + j \in 1..(m + n))
  BY <1>1
<1>4. ToSet(u) = ToSet(s) \cup ToSet(t)
  <2>1. ToSet(u) = {u[i] : i \in 1..(m + n)}
    BY <1>1 DEF ToSet
  <2>2. ToSet(s) = {u[i] : i \in 1..m}
    BY <1>1 DEF ToSet
  <2>3. ToSet(t) = {u[m + j] : j \in 1..n}
    BY <1>1 DEF ToSet
  <2> QED BY <1>2, <1>3, <2>1, <2>2, <2>3
<1>5. ASSUME IsInjective(u)
      PROVE  IsInjective(s) /\ IsInjective(t) /\ ToSet(s) \cap ToSet(t) = {}
  <2>1. IsInjective(s)
    BY <1>1, <1>3, <1>5 DEF IsInjective
  <2>2. IsInjective(t)
    <3> SUFFICES ASSUME NEW i \in 1..n, NEW j \in 1..n, t[i] = t[j] PROVE i = j
      BY <1>1 DEF IsInjective
    <3>1. u[m + i] = u[m + j] /\ m + i \in 1..(m + n) /\ m + j \in 1..(m + n)
      BY <1>1, <1>3
    <3>2. m + i = m + j
      BY <1>1, <1>5, <3>1 DEF IsInjective
    <3> QED BY <1>1, <3>2
  <2>3. ToSet(s) \cap ToSet(t) = {}
    <3> SUFFICES ASSUME NEW i \in 1..m, NEW j \in 1..n, s[i] = t[j] PROVE FALSE
      BY <1>1 DEF ToSet
    <3>1. u[i] = u[m + j] /\ i \in 1..(m + n) /\ m + j \in 1..(m + n)
      BY <1>1, <1>3
    <3>2. i = m + j
      BY <1>1, <1>5, <3>1 DEF IsInjective
    <3> QED BY <1>1, <3>2
  <2> QED BY <2>1, <2>2, <2>3
<1>6. ASSUME IsInjective(s), IsInjective(t), ToSet(s) \cap ToSet(t) = {}
      PROVE  IsInjective(u)
  <2> SUFFICES ASSUME NEW i \in 1..(m + n), NEW j \in 1..(m + n), u[i] = u[j]
               PROVE  i = j
    BY <1>1 DEF IsInjective
  <2>1. CASE i \in 1..m /\ j \in 1..m
    BY <1>1, <1>6, <2>1 DEF IsInjective
  <2>2. ASSUME NEW k \in 1..m, NEW l \in 1..n
        PROVE  u[k] # u[m + l]
    <3>1. u[k] \in ToSet(s) /\ u[m + l] \in ToSet(t)
      BY <1>1 DEF ToSet
    <3> QED BY <1>6, <3>1
  <2>3. CASE i \in 1..m <=> j \notin 1..m
    BY <1>2, <2>2, <2>3
  <2>4. CASE i \notin 1..m /\ j \notin 1..m
    <3>1. PICK k \in 1..n, l \in 1..n : i = m + k /\ j = m + l
      BY <1>2, <2>4
    <3>2. t[k] = t[l]
      BY <1>1, <3>1
    <3>3. k = l
      BY <1>1, <1>6, <3>2 DEF IsInjective
    <3> QED BY <3>1, <3>3
  <2> QED BY <2>1, <2>3, <2>4
<1> QED BY <1>1, <1>4, <1>5, <1>6 DEF u
-----------------------------------------------------------------------------
(* Bulk statements: the notes that match change list, none is lost or      *)
(* listed twice.                                                           *)

Listed == ToSet(rows["live"]) \cup ToSet(rows["deleted"])

RowsOK ==
    /\ rows \in [Views -> Seq(Notes)]
    /\ IsInjective(rows["live"] \o rows["deleted"])

LEMMA RowsApart ==
    ASSUME RowsOK
    PROVE  /\ IsInjective(rows["live"]) /\ IsInjective(rows["deleted"])
           /\ ToSet(rows["live"]) \cap ToSet(rows["deleted"]) = {}
  BY Joined DEF RowsOK, Views

LEMMA MovedApart ==
    ASSUME RowsOK, NEW from \in Views, NEW to \in Views, from # to,
           NEW ids \in SUBSET Notes, rows' = Moved(from, to, ids)
    PROVE  /\ RowsOK'
           /\ Listed' = Listed
           /\ ToSet(rows'[to]) = ToSet(rows[to]) \cup Matching(from, ids)
<1> DEFINE left == Without(rows[from], ids)
           head == Newest(Matching(from, ids))
           joined == head \o rows[to]
<1>0. /\ \/ from = "live" /\ to = "deleted"
         \/ from = "deleted" /\ to = "live"
      /\ \A v \in Views : v = from \/ v = to
  BY DEF Views
<1>1. /\ left \in Seq(Notes) /\ ToSet(left) = ToSet(rows[from]) \ ids
      /\ IsInjective(left)
  <2>1. rows[from] \in Seq(Notes) /\ IsInjective(rows[from])
    BY RowsApart DEF RowsOK, Views
  <2> QED BY <2>1, WithoutType
<1>2. /\ head \in Seq(Notes) /\ ToSet(head) = Matching(from, ids)
      /\ IsInjective(head)
  <2>1. Matching(from, ids) \in SUBSET Notes
    BY DEF Matching
  <2> QED BY <2>1, NewestType
<1>3. rows[to] \in Seq(Notes) /\ IsInjective(rows[to])
  BY RowsApart DEF RowsOK, Views
<1>4. ToSet(rows[from]) \cap ToSet(rows[to]) = {}
  BY RowsApart DEF Views
<1>5. rows'[from] = left /\ rows'[to] = joined /\ rows' = [v \in Views |-> rows'[v]]
  BY DEF Moved
<1> HIDE DEF left, head
<1>6. /\ joined \in Seq(Notes)
      /\ ToSet(joined) = Matching(from, ids) \cup ToSet(rows[to])
      /\ IsInjective(joined)
  <2>1. ToSet(head) \cap ToSet(rows[to]) = {}
    BY <1>2, <1>4 DEF Matching
  <2> QED BY <1>2, <1>3, <2>1, Joined
<1> HIDE DEF joined
<1>7. ToSet(left) \cap ToSet(joined) = {}
  BY <1>1, <1>4, <1>6 DEF Matching
<1>8. ToSet(left) \cup ToSet(joined) = ToSet(rows[from]) \cup ToSet(rows[to])
  BY <1>1, <1>6 DEF Matching
<1>9. rows' \in [Views -> Seq(Notes)]
  <2>1. \A v \in Views : rows'[v] \in Seq(Notes)
    BY <1>0, <1>1, <1>5, <1>6
  <2> QED BY <1>5, <2>1
<1>10. IsInjective(rows'["live"] \o rows'["deleted"])
  <2>1. IsInjective(left \o joined) /\ IsInjective(joined \o left)
    BY <1>1, <1>6, <1>7, Joined
  <2> QED BY <1>0, <1>5, <2>1
<1>11. Listed' = Listed
  BY <1>0, <1>5, <1>8 DEF Listed
<1> QED BY <1>5, <1>6, <1>9, <1>10, <1>11 DEF RowsOK

-----------------------------------------------------------------------------
(* Pages.                                                                  *)

LEMMA PageType ==
    ASSUME RowsOK, NEW v \in Views, NEW n \in Nat
    PROVE  PageAt(v, n) \in Seq(Notes)
<1> DEFINE r == rows[v]
           hi == Min({n + PageSize, Len(r)})
<1>1. r \in Seq(Notes) /\ Len(r) \in Nat
  BY DEF RowsOK
<1>2. hi \in Nat /\ hi <= Len(r)
  BY <1>1, PageAssumption DEF Min
<1>3. \A i \in n + 1 .. hi : r[i] \in Notes
  BY <1>1, <1>2
<1> HIDE DEF r, hi
<1>4. SubSeq(r, n + 1, hi) \in Seq(Notes)
  BY <1>2, <1>3, SubSeqProperties
<1> QED BY <1>4 DEF PageAt, r, hi

(* The page behind the rows that are loaded continues them.                *)
LEMMA PageContinues ==
    ASSUME RowsOK, NEW v \in Views, NEW s \in Seq(Notes), IsPrefix(s, rows[v])
    PROVE  IsPrefix(s \o PageAt(v, Len(s)), rows[v])
<1> DEFINE r == rows[v]
           n == Len(s)
           hi == Min({n + PageSize, Len(r)})
<1>1. r \in Seq(Notes) /\ Len(r) \in Nat /\ n \in Nat /\ n <= Len(r)
  BY DEF RowsOK, IsPrefix
<1>2. hi \in n..Len(r)
  BY <1>1, PageAssumption DEF Min
<1>3. s = SubSeq(r, 1, n)
  BY <1>1, SubSeqFull DEF IsPrefix
<1>4. PageAt(v, n) = SubSeq(r, n + 1, hi)
  BY DEF PageAt
<1> HIDE DEF r, n, hi
<1>5. SubSeq(r, 1, n) \o SubSeq(r, n + 1, hi) = SubSeq(r, 1, hi)
  BY <1>1, <1>2, ConcatAdjacentSubSeq
<1>6. IsPrefix(SubSeq(r, 1, hi), r)
  <2>1. hi \in Nat /\ \A i \in 1..hi : r[i] \in Notes
    BY <1>1, <1>2
  <2>2. SubSeq(r, 1, hi) \in Seq(Notes) /\ Len(SubSeq(r, 1, hi)) = hi
    BY <2>1, SubSeqProperties
  <2>3. SubSeq(SubSeq(r, 1, hi), 1, hi) = SubSeq(r, 1, hi)
    BY <2>2, SubSeqFull
  <2> QED BY <1>1, <1>2, <2>2, <2>3 DEF IsPrefix
<1> QED BY <1>3, <1>4, <1>5, <1>6 DEF r, n

-----------------------------------------------------------------------------
(* Types.                                                                  *)

LEMMA RowsFromTypes ==
    ASSUME TypeOK
    PROVE  RowsOK
  BY DEF TypeOK, RowsOK

LEMMA ShownType ==
    ASSUME TypeOK
    PROVE  Shown \in Seq(Notes) /\ ToSet(Shown) \in SUBSET Notes
<1>1. Other(view) \in Views
  BY DEF Other, Views, TypeOK
<1>2. \A v \in Views : data[v] # None => data[v].rows \in Seq(Notes)
  BY DEF TypeOK, Pages
<1>3. Shown \in Seq(Notes)
  BY <1>1, <1>2 DEF Shown, TypeOK
<1>4. \A i \in DOMAIN Shown : Shown[i] \in Notes
  BY <1>3
<1> QED BY <1>3, <1>4 DEF ToSet

(* The request on its way, by how far it has come.                         *)
LEMMA RequestShape ==
    ASSUME NEW q \in Request, q # Idle
    PROVE  /\ q.pc \in {"sent", "done"}
           /\ q.kind \in {"create", "delete", "restore", "undo"}
           /\ q.ids \in SUBSET Notes
           /\ [q EXCEPT !.pc = "done"] \in Request
           /\ [q EXCEPT !.pc = "done"].pc = "done"
           /\ [q EXCEPT !.pc = "done"].kind = q.kind
           /\ [q EXCEPT !.pc = "done"].ids = q.ids
           /\ \A n \in Notes :
                 /\ [q EXCEPT !.pc = "done", !.ids = {n}] \in Request
                 /\ [q EXCEPT !.pc = "done", !.ids = {n}].pc = "done"
                 /\ [q EXCEPT !.pc = "done", !.ids = {n}].kind = q.kind
  BY DEF Request, Idle

LEMMA IdleShape == Idle \in Request /\ Idle.pc = "idle"
  BY DEF Request, Idle

LEMMA SelectedType ==
    ASSUME TypeOK
    PROVE  Selected \in SUBSET Notes
  BY DEF TypeOK, Selected

LEMMA ScreenType ==
    ASSUME TypeOK,
           \/ \E n \in Notes : Toggle(n)
           \/ ToggleAll \/ SetView \/ Peek \/ AutoSelect \/ EditorArrives \/ Return
    PROVE  TypeOK'
<1>1. UNCHANGED <<rows, data, invalid, fetch, request, torn, moved, requests, faults>>
  BY DEF Toggle, ToggleAll, SetView, Peek, AutoSelect, EditorArrives, Return,
         queries, observers
<1>2. /\ place' \in {"list", "opening", "editor"} /\ view' \in Views
      /\ leaving' \in BOOLEAN /\ undo' \subseteq Notes
  BY DEF Toggle, ToggleAll, SetView, Peek, AutoSelect, EditorArrives, Return,
         TypeOK, Views
<1>3. ticked' \subseteq Notes
  BY ShownType
  DEF Toggle, ToggleAll, SetView, Peek, AutoSelect, EditorArrives, Return, TypeOK
<1>4. peeked' \in Notes \cup {None}
  <2>1. CASE AutoSelect
    <3>1. Shown \in Seq(Notes) /\ Shown # <<>>
      BY <2>1, ShownType DEF AutoSelect
    <3>2. Shown[1] \in Notes
      BY <3>1
    <3> QED BY <2>1, <3>2 DEF AutoSelect
  <2>2. CASE Peek
    BY <2>2, ShownType DEF Peek
  <2> QED BY <2>1, <2>2
      DEF Toggle, ToggleAll, SetView, EditorArrives, Return, TypeOK
<1> QED BY <1>1, <1>2, <1>3, <1>4 DEF TypeOK

LEMMA FaultType ==
    ASSUME TypeOK, Fault
    PROVE  faults' \in 0..Faults /\ moved' \in (SUBSET Notes) \cup {None}
  BY PageAssumption DEF TypeOK, Fault

(* The loads there are.                                                    *)
LEMMA LoadType ==
    ASSUME TypeOK, NEW v \in Views, fetch[v] # None
    PROVE  /\ fetch[v] \in Loading
           /\ fetch[v].rows \in Seq(Notes) /\ fetch[v].pages \in Nat
           /\ fetch[v].left \in Nat
           /\ fetch[v].page # None =>
                 fetch[v].page.rows \in Seq(Notes) /\ fetch[v].page.total \in Nat
  BY DEF TypeOK, Loading, Page

LEMMA AnewType ==
    ASSUME TypeOK, NEW v \in Views
    PROVE  /\ Anew(v) \in Loading /\ Anew(v) # None
           /\ Anew(v).rows = <<>> /\ Anew(v).page = None
<1>1. (IF data[v] = None THEN 1 ELSE data[v].pages) \in Nat
  BY DEF TypeOK, Pages
<1>2. <<>> \in Seq(Notes)
  OBVIOUS
<1>3. Anew(v) \in Loading
  BY <1>1, <1>2 DEF Anew, Loading
<1> QED BY <1>3, NoneAssumption DEF Anew

(* The page that is read, and the load that waits for it to land.          *)
Answer(v) == [rows |-> PageAt(v, NextOffset(v)), total |-> Len(rows[v])]
Answered(v) == [fetch[v] EXCEPT !.page = Answer(v)]

LEMMA ReadEffect ==
    ASSUME TypeOK, NEW v \in Views, ReadPage(v)
    PROVE  /\ fetch[v] # None
           /\ UNCHANGED <<rows, data, invalid, screen, request, observers, requests, faults>>
           /\ fetch' = [fetch EXCEPT ![v] = Answered(v)]
           /\ Answered(v) \in Loading
           /\ Answered(v).rows = fetch[v].rows
           /\ Answered(v).page.rows = PageAt(v, Len(fetch[v].rows))
<1>1. fetch[v] # None /\ fetch' = [fetch EXCEPT ![v] = Answered(v)]
  BY DEF ReadPage, Answered, Answer
<1>2. fetch[v] \in Loading /\ NextOffset(v) \in Nat
  BY <1>1, LoadType DEF NextOffset
<1>3. Answer(v) \in Page
  <2>1. PageAt(v, NextOffset(v)) \in Seq(Notes)
    BY <1>2, RowsFromTypes, PageType
  <2>2. Len(rows[v]) \in Nat
    BY DEF TypeOK
  <2> QED BY <2>1, <2>2 DEF Answer, Page
<1>4. /\ Answered(v) \in Loading /\ Answered(v).rows = fetch[v].rows
      /\ Answered(v).page = Answer(v)
  BY <1>2, <1>3 DEF Answered, Loading
<1>5. Answer(v).rows = PageAt(v, Len(fetch[v].rows))
  BY DEF Answer, NextOffset
<1> QED BY <1>1, <1>4, <1>5 DEF ReadPage

(* What has been loaded once the page has landed; the load that goes on    *)
(* behind it, and what the query holds when none does.                     *)
Landed(v) == fetch[v].rows \o fetch[v].page.rows
GoesOn(v) ==
    [more |-> FALSE, rows |-> Landed(v), pages |-> fetch[v].pages + 1,
     left |-> fetch[v].left - 1, page |-> None]
Held(v) == [rows |-> Landed(v), pages |-> fetch[v].pages + 1, total |-> fetch[v].page.total]

LEMMA LandsEffect ==
    ASSUME TypeOK, NEW v \in Views, PageLands(v)
    PROVE  /\ fetch[v] # None /\ fetch[v].page # None
           /\ UNCHANGED <<rows, screen, request, observers, requests, faults>>
           /\ Held(v) \in Pages /\ Held(v).rows = Landed(v)
           /\ \/ /\ GoesOn(v) \in Loading
                 /\ GoesOn(v).rows = Landed(v) /\ GoesOn(v).page = None
                 /\ fetch' = [fetch EXCEPT ![v] = GoesOn(v)]
                 /\ UNCHANGED <<data, invalid>>
              \/ /\ fetch' = [fetch EXCEPT ![v] = None]
                 /\ data' = [data EXCEPT ![v] = Held(v)]
                 /\ invalid' = [invalid EXCEPT ![v] = FALSE]
<1>1. fetch[v] # None /\ fetch[v].page # None
  BY DEF PageLands
<1>2. /\ fetch[v].rows \in Seq(Notes) /\ fetch[v].page.rows \in Seq(Notes)
      /\ fetch[v].pages \in Nat /\ fetch[v].left \in Nat /\ fetch[v].page.total \in Nat
  BY <1>1, LoadType
<1>3. Landed(v) \in Seq(Notes)
  BY <1>2 DEF Landed
<1>4. Held(v) \in Pages /\ Held(v).rows = Landed(v)
  BY <1>2, <1>3 DEF Held, Pages
<1>5. fetch[v].left > 1 =>
         GoesOn(v) \in Loading /\ GoesOn(v).rows = Landed(v) /\ GoesOn(v).page = None
  BY <1>2, <1>3 DEF GoesOn, Loading
<1>6. \/ /\ fetch[v].left > 1
         /\ fetch' = [fetch EXCEPT ![v] = GoesOn(v)]
         /\ UNCHANGED <<data, invalid>>
      \/ /\ fetch' = [fetch EXCEPT ![v] = None]
         /\ data' = [data EXCEPT ![v] = Held(v)]
         /\ invalid' = [invalid EXCEPT ![v] = FALSE]
  BY DEF PageLands, GoesOn, Held, Landed
<1> QED BY <1>1, <1>4, <1>5, <1>6 DEF PageLands

(* The load of another page.                                               *)
NextPage ==
    [more |-> TRUE, rows |-> data[view].rows, pages |-> data[view].pages,
     left |-> 1, page |-> None]

LEMMA LoadMoreEffect ==
    ASSUME TypeOK, LoadMore
    PROVE  /\ data[view] # None
           /\ NextPage \in Loading /\ NextPage.rows = data[view].rows
           /\ NextPage.page = None
           /\ fetch' = [fetch EXCEPT ![view] = NextPage]
           /\ torn' = [torn EXCEPT ![view] = @ \/ invalid[view] \/ fetch[view] # None]
           /\ UNCHANGED <<rows, data, invalid, screen, request, moved, requests, faults>>
<1>1. data[view] # None
  BY DEF LoadMore
<1>2. data[view].rows \in Seq(Notes) /\ data[view].pages \in Nat
  BY <1>1 DEF TypeOK, Pages
<1>3. NextPage \in Loading /\ NextPage.rows = data[view].rows /\ NextPage.page = None
  BY <1>2 DEF NextPage, Loading
<1> QED BY <1>1, <1>3 DEF LoadMore, NextPage

LEMMA LoadingType ==
    ASSUME TypeOK,
           \/ Load \/ LoadMore
           \/ \E v \in Views : ReadPage(v) \/ PageLands(v) \/ LoadFails(v)
    PROVE  TypeOK'
<1>1. CASE Load
  BY <1>1, AnewType DEF Load, TypeOK, screen
<1>2. CASE LoadMore
  BY <1>2, LoadMoreEffect DEF TypeOK, screen
<1>3. ASSUME NEW v \in Views, ReadPage(v)
      PROVE  TypeOK'
  BY <1>3, ReadEffect DEF TypeOK, screen, observers
<1>4. ASSUME NEW v \in Views, PageLands(v)
      PROVE  TypeOK'
  <2>1. /\ data' \in [Views -> Pages \cup {None}] /\ invalid' \in [Views -> BOOLEAN]
        /\ fetch' \in [Views -> Loading \cup {None}]
    <3>1. CASE /\ GoesOn(v) \in Loading
               /\ fetch' = [fetch EXCEPT ![v] = GoesOn(v)]
               /\ UNCHANGED <<data, invalid>>
      BY <3>1 DEF TypeOK
    <3>2. CASE /\ Held(v) \in Pages
               /\ fetch' = [fetch EXCEPT ![v] = None]
               /\ data' = [data EXCEPT ![v] = Held(v)]
               /\ invalid' = [invalid EXCEPT ![v] = FALSE]
      BY <3>2 DEF TypeOK
    <3> QED BY <1>4, <3>1, <3>2, LandsEffect
  <2> QED BY <1>4, <2>1, LandsEffect DEF TypeOK, screen, observers
<1>5. ASSUME NEW v \in Views, LoadFails(v)
      PROVE  TypeOK'
  BY <1>5, FaultType DEF LoadFails, TypeOK, screen
<1> QED BY <1>1, <1>2, <1>3, <1>4, <1>5

LEMMA SendingType ==
    ASSUME TypeOK, NewNote \/ ConfirmDelete \/ RestoreSelected \/ UndoDelete
    PROVE  TypeOK'
<1>1. PICK kind \in {"create", "delete", "restore", "undo"}, ids \in SUBSET Notes :
          Send(kind, ids)
  BY SelectedType DEF NewNote, ConfirmDelete, RestoreSelected, UndoDelete, TypeOK
<1>2. request' \in Request
  BY <1>1 DEF Send, Request
<1>3. requests' \in 0..Requests
  BY <1>1, PageAssumption DEF Send, Spent, TypeOK
<1> QED BY <1>1, <1>2, <1>3 DEF Send, TypeOK, queries, screen, observers

(* A new note is put before the others.                                    *)
LEMMA CreatedApart ==
    ASSUME RowsOK, NEW n \in Unborn, rows' = [rows EXCEPT !["live"] = <<n>> \o @]
    PROVE  /\ RowsOK'
           /\ Listed \subseteq Listed'
<1> DEFINE live == <<n>> \o rows["live"]
<1>1. n \in Notes /\ n \notin ToSet(rows["live"]) /\ n \notin ToSet(rows["deleted"])
  BY DEF Unborn
<1>2. rows["live"] \in Seq(Notes) /\ rows["deleted"] \in Seq(Notes)
  BY DEF RowsOK, Views
<1>3. <<n>> \in Seq(Notes) /\ ToSet(<<n>>) = {n} /\ IsInjective(<<n>>)
  BY <1>1 DEF ToSet, IsInjective
<1>4. /\ live \in Seq(Notes) /\ ToSet(live) = {n} \cup ToSet(rows["live"])
      /\ IsInjective(live)
  <2>1. ToSet(<<n>>) \cap ToSet(rows["live"]) = {}
    BY <1>1, <1>3
  <2>2. IsInjective(rows["live"])
    BY RowsApart
  <2> HIDE DEF live
  <2>3. live = <<n>> \o rows["live"]
    BY DEF live
  <2>4. /\ live \in Seq(Notes)
        /\ ToSet(live) = ToSet(<<n>>) \cup ToSet(rows["live"])
        /\ IsInjective(live) <=> /\ IsInjective(<<n>>) /\ IsInjective(rows["live"])
                                 /\ ToSet(<<n>>) \cap ToSet(rows["live"]) = {}
    <3>1. \A s, t \in Seq(Notes) :
             /\ s \o t \in Seq(Notes)
             /\ ToSet(s \o t) = ToSet(s) \cup ToSet(t)
             /\ IsInjective(s \o t) <=>
                   IsInjective(s) /\ IsInjective(t) /\ ToSet(s) \cap ToSet(t) = {}
      BY Joined
    <3> QED BY <1>2, <1>3, <2>3, <3>1, Zenon
  <2> QED BY <1>3, <2>1, <2>2, <2>4
<1>5. rows'["live"] = live /\ rows'["deleted"] = rows["deleted"]
  BY DEF RowsOK, Views
<1> HIDE DEF live
<1>6. IsInjective(live \o rows["deleted"])
  BY <1>1, <1>2, <1>4, RowsApart, Joined
<1>7. rows' \in [Views -> Seq(Notes)]
  BY <1>4 DEF RowsOK, Views, live
<1> QED BY <1>4, <1>5, <1>6, <1>7 DEF RowsOK, Listed

(* What a bulk statement or a new note does to the rows.                   *)
LEMMA CommitEffect ==
    ASSUME TypeOK, Commit
    PROVE  /\ RowsOK' /\ Listed \subseteq Listed'
           /\ request \in Request /\ request # Idle /\ request.pc = "sent"
           /\ request' \in Request /\ request'.pc = "done"
           /\ request'.kind = request.kind
           /\ request.kind # "create" => request'.ids = request.ids
           /\ UNCHANGED <<queries, screen, torn, requests, faults>>
           /\ request.kind = "delete" =>
                 moved' = IF faults = 0 /\ Matching("live", request.ids) = request.ids
                          THEN request.ids ELSE None
           /\ request.kind # "delete" => UNCHANGED moved
           /\ request.kind = "delete" => SoftDelete(request.ids)
           /\ request.kind \in {"restore", "undo"} => Restore(request.ids)
<1>1. request \in Request /\ request # Idle /\ request.pc = "sent"
  BY IdleShape DEF Commit, TypeOK
<1>2. RowsOK
  BY RowsFromTypes
<1>3. CASE request.kind = "delete"
  <2>1. RowsOK' /\ Listed' = Listed
    BY <1>1, <1>2, <1>3, RequestShape, MovedApart DEF Commit, SoftDelete, Views
  <2> QED BY <1>1, <1>3, <2>1, RequestShape DEF Commit
<1>4. CASE request.kind \in {"restore", "undo"}
  <2>1. RowsOK' /\ Listed' = Listed
    BY <1>1, <1>2, <1>4, RequestShape, MovedApart DEF Commit, Restore, Views
  <2> QED BY <1>1, <1>4, <2>1, RequestShape DEF Commit
<1>5. CASE request.kind = "create"
  <2>1. PICK n \in Unborn : /\ rows' = [rows EXCEPT !["live"] = <<n>> \o @]
                            /\ request' = [request EXCEPT !.pc = "done", !.ids = {n}]
    BY <1>5 DEF Commit
  <2>2. RowsOK' /\ Listed \subseteq Listed' /\ n \in Notes
    BY <1>2, <2>1, CreatedApart DEF Unborn
  <2> QED BY <1>1, <1>5, <2>1, <2>2, RequestShape DEF Commit
<1> QED BY <1>1, <1>3, <1>4, <1>5, RequestShape

LEMMA CommitType ==
    ASSUME TypeOK, Commit
    PROVE  TypeOK'
<1>1. moved' \in (SUBSET Notes) \cup {None}
  BY CommitEffect, RequestShape DEF TypeOK
<1> QED BY <1>1, CommitEffect DEF TypeOK, RowsOK, queries, screen

(* The answer to a mutation.                                               *)
LEMMA SucceedsEffect ==
    ASSUME TypeOK, Succeeds
    PROVE  /\ request \in Request /\ request # Idle /\ request.pc = "done"
           /\ request' = Idle
           /\ UNCHANGED <<rows, data, view, peeked, moved, requests, faults>>
           /\ invalid' = [v \in Views |-> TRUE]
           /\ fetch' = [v \in Views |-> IF Restarts(v) THEN Anew(v) ELSE fetch[v]]
           /\ fetch' \in [Views -> Loading \cup {None}]
           /\ torn' = [v \in Views |-> ~ Restarts(v) /\ (torn[v] \/ HasRead(v))]
           /\ ticked' \in {ticked, {}}
           /\ undo' \in {undo, request.ids, {}}
           /\ undo' # undo /\ undo' # {} => request.kind = "delete" /\ Mounted
           /\ Mounted /\ request.kind = "delete" => undo' = request.ids
           /\ \/ place' = "opening" /\ leaving' = TRUE /\ Mounted
              \/ UNCHANGED <<place, leaving>>
<1>1. request \in Request /\ request # Idle /\ request.pc = "done" /\ request' = Idle
  BY IdleShape DEF Succeeds, TypeOK
<1>2. request.kind \in {"create", "delete", "restore", "undo"}
  BY <1>1, RequestShape
<1>3. /\ UNCHANGED <<rows, data, view, peeked, moved, requests, faults>>
      /\ invalid' = [v \in Views |-> TRUE]
      /\ torn' = [v \in Views |-> ~ Restarts(v) /\ (torn[v] \/ HasRead(v))]
  BY DEF Succeeds, Invalidated
<1>4. /\ fetch' = [v \in Views |-> IF Restarts(v) THEN Anew(v) ELSE fetch[v]]
      /\ fetch' \in [Views -> Loading \cup {None}]
  BY AnewType DEF Succeeds, TypeOK
<1>5. CASE request.kind = "create" /\ Mounted
  BY <1>1, <1>3, <1>4, <1>5 DEF Succeeds
<1>6. CASE request.kind = "delete" /\ Mounted
  BY <1>1, <1>3, <1>4, <1>6 DEF Succeeds, Offered
<1>7. CASE request.kind \in {"restore", "undo"} /\ Mounted
  BY <1>1, <1>3, <1>4, <1>7 DEF Succeeds
<1>8. CASE ~ Mounted
  BY <1>1, <1>3, <1>4, <1>8 DEF Succeeds
<1> QED BY <1>2, <1>5, <1>6, <1>7, <1>8

LEMMA SucceedsType ==
    ASSUME TypeOK, Succeeds
    PROVE  TypeOK'
<1>1. request.ids \in SUBSET Notes
  BY SucceedsEffect, RequestShape
<1>2. undo' \subseteq Notes /\ ticked' \subseteq Notes
  BY <1>1, SucceedsEffect DEF TypeOK
<1>3. /\ place' \in {"list", "opening", "editor"} /\ leaving' \in BOOLEAN
      /\ request' \in Request
      /\ torn' \in [Views -> BOOLEAN] /\ invalid' \in [Views -> BOOLEAN]
  BY SucceedsEffect, IdleShape DEF TypeOK
<1> QED BY <1>2, <1>3, SucceedsEffect DEF TypeOK

LEMMA TroubleType ==
    ASSUME TypeOK, Fails \/ Elsewhere
    PROVE  TypeOK'
<1>1. faults' \in 0..Faults /\ moved' \in (SUBSET Notes) \cup {None}
  BY FaultType DEF Fails, Elsewhere
<1>2. CASE Fails
  BY <1>1, <1>2, IdleShape DEF Fails, TypeOK, queries, screen
<1>3. CASE Elsewhere
  <2>1. PICK n \in Notes : SoftDelete({n}) \/ Restore({n})
    BY <1>3 DEF Elsewhere
  <2>2. RowsOK'
    BY <2>1, RowsFromTypes, MovedApart DEF SoftDelete, Restore, Views
  <2> QED BY <1>1, <1>3, <2>2 DEF Elsewhere, TypeOK, RowsOK, queries, screen
<1> QED BY <1>2, <1>3

LEMMA TypeInit == Init => TypeOK
<1> SUFFICES ASSUME Init PROVE TypeOK
  OBVIOUS
<1>1. PICK first \in SUBSET Notes :
          rows = [v \in Views |-> IF v = "live" THEN Ascending(first) ELSE <<>>]
  BY DEF Init
<1>2. /\ Ascending(first) \in Seq(Notes) /\ IsInjective(Ascending(first))
  BY AscendingType
<1>3. rows \in [Views -> Seq(Notes)]
  BY <1>1, <1>2
<1>4. IsInjective(rows["live"] \o rows["deleted"])
  <2>1. <<>> \in Seq(Notes) /\ ToSet(<<>>) = {} /\ IsInjective(<<>>)
    BY DEF ToSet, IsInjective
  <2>2. rows["live"] = Ascending(first) /\ rows["deleted"] = <<>>
    BY <1>1 DEF Views
  <2> QED BY <1>2, <2>1, <2>2, Joined
<1>5. /\ data \in [Views -> Pages \cup {None}] /\ invalid \in [Views -> BOOLEAN]
      /\ fetch \in [Views -> Loading \cup {None}] /\ torn \in [Views -> BOOLEAN]
  BY DEF Init
<1>6. requests \in 0..Requests /\ faults \in 0..Faults
  BY PageAssumption DEF Init
<1>7. /\ place \in {"list", "opening", "editor"} /\ view \in Views
      /\ leaving \in BOOLEAN /\ peeked \in Notes \cup {None}
      /\ ticked \subseteq Notes /\ undo \subseteq Notes
      /\ request \in Request /\ moved \in (SUBSET Notes) \cup {None}
  BY IdleShape DEF Init, Views
<1> QED BY <1>3, <1>4, <1>5, <1>6, <1>7 DEF TypeOK

LEMMA TypeStep ==
    ASSUME TypeOK, [Next]_vars
    PROVE  TypeOK'
<1>1. CASE UNCHANGED vars
  BY <1>1 DEF TypeOK, vars, queries, screen, observers
<1> QED BY <1>1, ScreenType, LoadingType, SendingType, CommitType, SucceedsType,
           TroubleType DEF Next

(* The queries, the ticks and the request are what they are said to be,    *)
(* and no statement loses a note or lists it twice, whatever the order of  *)
(* deletes, restores and undos (notes.sql).                                *)
THEOREM TypeCorrect == Spec => []TypeOK
<1>1. TypeOK /\ [Next]_vars => TypeOK'
  BY TypeStep
<1> QED BY TypeInit, <1>1, PTL DEF Spec

-----------------------------------------------------------------------------
(* Whole lists.                                                            *)

(* No change is on its way that the query of v has not been told of.       *)
Sure(v) == ~ torn[v] /\ request.pc # "done"

(* Then what has been loaded so far is the head of the list, and so is     *)
(* what the query holds, unless it is invalidated or loaded anew.          *)
Whole(v) ==
    Sure(v) =>
        /\ fetch[v] # None => IsPrefix(fetch[v].rows, rows[v])
        /\ fetch[v] # None /\ fetch[v].page # None =>
               IsPrefix(fetch[v].rows \o fetch[v].page.rows, rows[v])
        /\ fetch[v] = None /\ data[v] # None /\ ~ invalid[v] =>
               IsPrefix(data[v].rows, rows[v])

PagesWhole == \A v \in Views : Whole(v)

LEMMA WholeUnchanged ==
    ASSUME PagesWhole, UNCHANGED <<rows, data, invalid, fetch, torn>>,
           request'.pc # "done" => request.pc # "done"
    PROVE  PagesWhole'
  BY DEF PagesWhole, Whole, Sure

LEMMA WholeInit == Init => PagesWhole
  BY DEF Init, PagesWhole, Whole, Views

LEMMA NothingIsHead ==
    ASSUME RowsOK, NEW v \in Views
    PROVE  IsPrefix(<<>>, rows[v])
<1>1. rows[v] \in Seq(Notes) /\ Len(rows[v]) \in Nat
  BY DEF RowsOK
<1> QED BY <1>1 DEF IsPrefix

LEMMA LoadKeepsWhole ==
    ASSUME TypeOK, PagesWhole, Load
    PROVE  PagesWhole'
<1> SUFFICES ASSUME NEW v \in Views PROVE Whole(v)'
  BY DEF PagesWhole
<1>1. Whole(v) /\ UNCHANGED <<rows, data, invalid, request>>
  BY DEF PagesWhole, Load
<1>2. CASE v = view
  <2>1. fetch'[v] # None /\ fetch'[v].rows = <<>> /\ fetch'[v].page = None
    BY <1>2, AnewType DEF Load, TypeOK
  <2> QED BY <1>1, <2>1, RowsFromTypes, NothingIsHead DEF Whole
<1>3. CASE v # view
  <2>1. fetch'[v] = fetch[v] /\ torn'[v] = torn[v]
    BY <1>3 DEF Load, TypeOK
  <2> QED BY <1>1, <2>1 DEF Whole, Sure
<1> QED BY <1>2, <1>3

(* A list that is not torn by it was valid when the next page was asked    *)
(* for, and no reload was under way.                                       *)
LEMMA LoadMoreKeepsWhole ==
    ASSUME TypeOK, PagesWhole, LoadMore
    PROVE  PagesWhole'
<1> SUFFICES ASSUME NEW v \in Views PROVE Whole(v)'
  BY DEF PagesWhole
<1>1. Whole(v) /\ UNCHANGED <<rows, data, invalid, request>>
  BY LoadMoreEffect DEF PagesWhole
<1>2. CASE v = view
  <2>1. ~ torn'[v] => ~ torn[v] /\ ~ invalid[v] /\ fetch[v] = None
    BY <1>2, LoadMoreEffect DEF TypeOK
  <2>2. data[v] # None /\ fetch'[v].rows = data[v].rows /\ fetch'[v].page = None
    BY <1>2, LoadMoreEffect DEF TypeOK
  <2>3. fetch'[v] # None
    BY <1>2, LoadMoreEffect, NoneAssumption DEF TypeOK
  <2> QED BY <1>1, <2>1, <2>2, <2>3 DEF Whole, Sure
<1>3. CASE v # view
  <2>1. fetch'[v] = fetch[v] /\ torn'[v] = torn[v]
    BY <1>3, LoadMoreEffect DEF TypeOK
  <2> QED BY <1>1, <2>1 DEF Whole, Sure
<1> QED BY <1>2, <1>3

(* A page is read behind what has been loaded of it.                       *)
LEMMA ReadKeepsWhole ==
    ASSUME TypeOK, PagesWhole, NEW w \in Views, ReadPage(w)
    PROVE  PagesWhole'
<1> SUFFICES ASSUME NEW v \in Views PROVE Whole(v)'
  BY DEF PagesWhole
<1>1. Whole(v) /\ UNCHANGED <<rows, data, invalid, request, torn>>
  BY ReadEffect DEF PagesWhole, observers
<1>2. CASE v = w
  <2>1. fetch[v] # None /\ fetch[v].rows \in Seq(Notes)
    BY <1>2, ReadEffect, LoadType
  <2>2. fetch'[v] # None /\ fetch'[v] = Answered(v)
    BY <1>2, ReadEffect, NoneAssumption DEF TypeOK
  <2>3. /\ fetch'[v].rows = fetch[v].rows
        /\ fetch'[v].page.rows = PageAt(v, Len(fetch[v].rows))
    BY <1>2, <2>2, ReadEffect
  <2>4. Sure(v) => IsPrefix(fetch[v].rows, rows[v])
    BY <1>1, <2>1 DEF Whole
  <2>5. Sure(v) => IsPrefix(fetch[v].rows \o PageAt(v, Len(fetch[v].rows)), rows[v])
    BY <2>1, <2>4, RowsFromTypes, PageContinues
  <2> QED BY <1>1, <2>2, <2>3, <2>4, <2>5 DEF Whole, Sure
<1>3. CASE v # w
  <2>1. fetch'[v] = fetch[v]
    BY <1>3, ReadEffect DEF TypeOK
  <2> QED BY <1>1, <2>1 DEF Whole, Sure
<1> QED BY <1>2, <1>3

LEMMA LandsKeepsWhole ==
    ASSUME TypeOK, PagesWhole, NEW w \in Views, PageLands(w)
    PROVE  PagesWhole'
<1> SUFFICES ASSUME NEW v \in Views PROVE Whole(v)'
  BY DEF PagesWhole
<1>1. Whole(v) /\ UNCHANGED <<rows, request, torn>>
  BY LandsEffect DEF PagesWhole, observers
<1>2. CASE v = w
  <2>1. Sure(v) => IsPrefix(Landed(v), rows[v])
    BY <1>1, <1>2, LandsEffect DEF Whole, Landed
  <2>2. CASE /\ GoesOn(v) \in Loading
             /\ GoesOn(v).rows = Landed(v) /\ GoesOn(v).page = None
             /\ fetch' = [fetch EXCEPT ![v] = GoesOn(v)]
    <3>1. fetch'[v] # None /\ fetch'[v].rows = Landed(v) /\ fetch'[v].page = None
      BY <2>2, NoneAssumption DEF TypeOK
    <3> QED BY <1>1, <2>1, <3>1 DEF Whole, Sure
  <2>3. CASE /\ fetch' = [fetch EXCEPT ![v] = None]
             /\ data' = [data EXCEPT ![v] = Held(v)]
    <3>1. fetch'[v] = None /\ data'[v].rows = Landed(v)
      BY <1>2, <2>3, LandsEffect DEF TypeOK
    <3> QED BY <1>1, <2>1, <3>1 DEF Whole, Sure
  <2> QED BY <1>2, <2>2, <2>3, LandsEffect
<1>3. CASE v # w
  <2>1. fetch'[v] = fetch[v] /\ data'[v] = data[v] /\ invalid'[v] = invalid[v]
    <3>1. /\ \E r : fetch' = [fetch EXCEPT ![w] = r]
          /\ data' = data \/ \E r : data' = [data EXCEPT ![w] = r]
          /\ invalid' = invalid \/ \E r : invalid' = [invalid EXCEPT ![w] = r]
      BY LandsEffect
    <3> QED BY <1>3, <3>1 DEF TypeOK
  <2> QED BY <1>1, <2>1 DEF Whole, Sure
<1> QED BY <1>2, <1>3

LEMMA LoadFailsKeepsWhole ==
    ASSUME TypeOK, PagesWhole, NEW w \in Views, LoadFails(w)
    PROVE  PagesWhole'
<1> SUFFICES ASSUME NEW v \in Views PROVE Whole(v)'
  BY DEF PagesWhole
<1>1. Whole(v) /\ UNCHANGED <<rows, data, invalid, request>>
  BY DEF PagesWhole, LoadFails
<1>2. CASE v = w
  BY <1>2 DEF LoadFails, TypeOK, Whole, Sure
<1>3. CASE v # w
  <2>1. fetch'[v] = fetch[v] /\ torn'[v] = torn[v]
    BY <1>3 DEF LoadFails, TypeOK
  <2> QED BY <1>1, <2>1 DEF Whole, Sure
<1> QED BY <1>2, <1>3

(* The answer comes: every query is invalidated.  A load that begins anew  *)
(* has read nothing, and one that is kept is torn if it has.               *)
LEMMA SucceedsKeepsWhole ==
    ASSUME TypeOK, PagesWhole, Succeeds
    PROVE  PagesWhole'
<1> SUFFICES ASSUME NEW v \in Views, ~ torn'[v]
             PROVE  Whole(v)'
  BY DEF PagesWhole, Whole, Sure
<1>1. invalid'[v] /\ rows' = rows
  BY SucceedsEffect
<1>2. fetch'[v] # None => fetch'[v].rows = <<>> /\ fetch'[v].page = None
  <2>1. CASE Restarts(v)
    BY <2>1, SucceedsEffect, AnewType
  <2>2. CASE ~ Restarts(v)
    <3>1. fetch'[v] = fetch[v] /\ ~ HasRead(v)
      BY <2>2, SucceedsEffect
    <3> QED BY <3>1 DEF HasRead
  <2> QED BY <2>1, <2>2
<1> QED BY <1>1, <1>2, RowsFromTypes, NothingIsHead DEF Whole

LEMMA FailsKeepsWhole ==
    ASSUME TypeOK, PagesWhole, Fails
    PROVE  PagesWhole'
<1> SUFFICES ASSUME NEW v \in Views PROVE Whole(v)'
  BY DEF PagesWhole
<1>1. Whole(v) /\ UNCHANGED <<rows, data, invalid, fetch>>
  BY DEF PagesWhole, Fails, queries
<1>2. ~ torn'[v] => ~ torn[v] /\ request.pc # "done"
  BY DEF Fails
<1> QED BY <1>1, <1>2 DEF Whole, Sure

LEMMA WholeStep ==
    ASSUME TypeOK, PagesWhole, [Next]_vars
    PROVE  PagesWhole'
<1>1. CASE UNCHANGED vars
  BY <1>1, WholeUnchanged DEF vars, queries, observers
<1>2. CASE \/ \E n \in Notes : Toggle(n)
           \/ ToggleAll \/ SetView \/ Peek \/ AutoSelect \/ EditorArrives \/ Return
  BY <1>2, WholeUnchanged DEF Toggle, ToggleAll, SetView, Peek, AutoSelect,
     EditorArrives, Return, queries, observers
<1>3. CASE NewNote \/ ConfirmDelete \/ RestoreSelected \/ UndoDelete
  <2>1. UNCHANGED <<rows, data, invalid, fetch, torn>> /\ request'.pc = "sent"
        /\ request = Idle
    BY <1>3 DEF NewNote, ConfirmDelete, RestoreSelected, UndoDelete, Send, queries,
       observers
  <2> QED BY <2>1, IdleShape, WholeUnchanged
<1>4. CASE Commit
  <2>1. request'.pc = "done"
    BY <1>4, CommitEffect
  <2> QED BY <2>1 DEF PagesWhole, Whole, Sure
<1>5. CASE Elsewhere
  <2>1. \A v \in Views : torn'[v]
    BY <1>5 DEF Elsewhere
  <2> QED BY <2>1 DEF PagesWhole, Whole, Sure
<1> QED BY <1>1, <1>2, <1>3, <1>4, <1>5, LoadKeepsWhole, LoadMoreKeepsWhole,
           ReadKeepsWhole, LandsKeepsWhole, LoadFailsKeepsWhole, SucceedsKeepsWhole,
           FailsKeepsWhole DEF Next

(* A list that is loaded, valid and not torn is the head of what the       *)
(* server holds: pages read one by one around deletes, restores and undos  *)
(* leave no gap (paging.ts).  Torn are the lists that missed a change made *)
(* elsewhere or never answered, those that a load kept over the answer had *)
(* read past, and those whose reload the button for more has cut off.      *)
THEOREM ListIsWholeHolds == Spec => []ListIsWhole
<1>1. TypeOK /\ PagesWhole /\ [Next]_vars => TypeOK' /\ PagesWhole'
  BY TypeStep, WholeStep
<1>2. PagesWhole => ListIsWhole
  BY DEF PagesWhole, Whole, Sure, ListIsWhole
<1> QED BY TypeInit, WholeInit, <1>1, <1>2, PTL DEF Spec

-----------------------------------------------------------------------------
(* The offer to undo.                                                      *)

(* A delete that has been committed and not answered.                      *)
Answering == request.pc = "done" /\ request.kind = "delete"

(* What the last delete moved is what is offered, from its answer on, and  *)
(* what an undo asks for, however late it is carried out; and the notes it *)
(* moved are still in one view or the other.                               *)
UndoInv ==
    moved # None =>
        /\ moved \subseteq Listed
        /\ Mounted /\ undo # {} /\ ~ Answering => undo = moved
        /\ Answering => request.ids = moved
        /\ request # Idle /\ request.kind = "undo" => request.ids = moved

LEMMA UndoInit == Init => UndoInv
  BY IdleShape DEF Init, UndoInv, Answering

LEMMA UndoUnchanged ==
    ASSUME UndoInv, UNCHANGED <<rows, request, moved>>,
           \/ Mounted' => Mounted /\ undo' \in {undo, {}}
           \/ undo' = {}
    PROVE  UndoInv'
  BY DEF UndoInv, Answering, Listed

LEMMA ScreenKeepsUndo ==
    ASSUME UndoInv,
           \/ \E n \in Notes : Toggle(n)
           \/ ToggleAll \/ SetView \/ Peek \/ AutoSelect \/ EditorArrives \/ Return
    PROVE  UndoInv'
<1>1. UNCHANGED <<rows, request, moved>>
  BY DEF Toggle, ToggleAll, SetView, Peek, AutoSelect, EditorArrives, Return, observers
<1>2. \/ Mounted' => Mounted /\ undo' \in {undo, {}}
      \/ undo' = {}
  BY DEF Toggle, ToggleAll, SetView, Peek, AutoSelect, EditorArrives, Return, Mounted
<1> QED BY <1>1, <1>2, UndoUnchanged

LEMMA SendingKeepsUndo ==
    ASSUME TypeOK, UndoInv, NewNote \/ ConfirmDelete \/ RestoreSelected \/ UndoDelete
    PROVE  UndoInv'
<1>1. PICK kind \in {"create", "delete", "restore", "undo"}, ids \in SUBSET Notes :
          Send(kind, ids) /\ (kind = "undo" => undo # {} /\ ids = undo)
  BY SelectedType DEF NewNote, ConfirmDelete, RestoreSelected, UndoDelete, TypeOK
<1>2. /\ Mounted /\ Mounted' /\ ~ Answering /\ ~ Answering'
      /\ UNCHANGED <<rows, undo, moved>>
      /\ request'.kind = kind /\ request'.ids = ids
  BY <1>1, IdleShape DEF Send, Mounted, Answering, screen, observers
<1> QED BY <1>1, <1>2 DEF UndoInv, Listed

LEMMA CommitKeepsUndo ==
    ASSUME TypeOK, UndoInv, Commit
    PROVE  UndoInv'
<1>1. /\ Listed \subseteq Listed' /\ request # Idle /\ request.pc = "sent"
      /\ request'.pc = "done" /\ request'.kind = request.kind
      /\ request.kind # "create" => request'.ids = request.ids
      /\ UNCHANGED <<place, undo>>
  BY CommitEffect DEF screen
<1>2. CASE request.kind = "delete"
  <2>1. moved' # None => moved' = request.ids /\ Matching("live", request.ids) = request.ids
    BY <1>2, CommitEffect
  <2>2. moved' # None => moved' \subseteq Listed'
    BY <1>1, <2>1 DEF Matching, Listed
  <2>3. Answering'
    BY <1>1, <1>2 DEF Answering
  <2> QED BY <1>1, <1>2, <2>1, <2>2, <2>3 DEF UndoInv
<1>3. CASE request.kind # "delete"
  <2>1. moved' = moved /\ ~ Answering /\ ~ Answering'
    BY <1>1, <1>3, CommitEffect DEF Answering
  <2> QED BY <1>1, <1>3, <2>1 DEF UndoInv, Mounted
<1> QED BY <1>2, <1>3

LEMMA SucceedsKeepsUndo ==
    ASSUME TypeOK, UndoInv, Succeeds
    PROVE  UndoInv'
<1>1. /\ UNCHANGED <<rows, moved>> /\ request' = Idle /\ ~ Answering'
      /\ Mounted' => Mounted
  BY SucceedsEffect, IdleShape DEF Answering, Mounted
<1>2. moved # None /\ Mounted /\ undo' # {} => undo' = moved
  <2>1. CASE request.kind = "delete"
    <3>1. Answering /\ (Mounted => undo' = request.ids)
      BY <2>1, SucceedsEffect DEF Answering
    <3> QED BY <3>1 DEF UndoInv
  <2>2. CASE request.kind # "delete"
    <3>1. ~ Answering /\ undo' \in {undo, {}}
      BY <2>2, SucceedsEffect DEF Answering
    <3> QED BY <3>1 DEF UndoInv
  <2> QED BY <2>1, <2>2
<1> QED BY <1>1, <1>2 DEF UndoInv, Listed

LEMMA UndoStep ==
    ASSUME TypeOK, UndoInv, [Next]_vars
    PROVE  UndoInv'
<1>1. CASE UNCHANGED vars
  BY <1>1, UndoUnchanged DEF vars, screen, observers, Mounted
<1>2. CASE Load \/ LoadMore \/ \E v \in Views : ReadPage(v) \/ PageLands(v)
  BY <1>2, UndoUnchanged DEF Load, LoadMore, ReadPage, PageLands, screen, observers,
     Mounted
<1>3. CASE (\E v \in Views : LoadFails(v)) \/ Fails \/ Elsewhere
  BY <1>3 DEF LoadFails, Fails, Elsewhere, Fault, UndoInv
<1> QED BY <1>1, <1>2, <1>3, ScreenKeepsUndo, SendingKeepsUndo, CommitKeepsUndo,
           SucceedsKeepsUndo DEF Next

(* A request is carried out by Commit alone.                               *)
LEMMA OnlyCommit ==
    ASSUME TypeOK, [Next]_vars, request.pc = "sent", request'.pc = "done"
    PROVE  Commit
<1>1. ~ (request' = request) /\ request # Idle /\ request' # Idle
  BY IdleShape
<1> QED BY <1>1
    DEF Next, vars, Toggle, ToggleAll, SetView, Peek, AutoSelect, EditorArrives, Return,
        Load, LoadMore, ReadPage, PageLands, LoadFails, NewNote, ConfirmDelete, RestoreSelected,
        UndoDelete, Send, Succeeds, Fails, Elsewhere

LEMMA UndoMoves ==
    ASSUME TypeOK, UndoInv, Commit, request.kind = "undo", moved # None
    PROVE  /\ Matching("deleted", request.ids) \subseteq moved
           /\ moved \subseteq ToSet(rows'["live"])
<1>1. request.ids = moved /\ moved \subseteq Listed
  BY CommitEffect DEF UndoInv
<1>2. Matching("deleted", moved) = moved \cap ToSet(rows["deleted"])
  BY DEF Matching
<1>3. ToSet(rows'["live"]) = ToSet(rows["live"]) \cup Matching("deleted", moved)
  <2>1. rows' = Moved("deleted", "live", moved) /\ moved \in SUBSET Notes
    BY <1>1, CommitEffect, RequestShape DEF Restore
  <2> QED BY <2>1, RowsFromTypes, MovedApart DEF Views
<1> QED BY <1>1, <1>2, <1>3 DEF Listed

(* An undo brings back nothing but what the delete had moved, and leaves   *)
(* none of it in the bin, whatever was ticked, filtered, created, restored *)
(* or reloaded in between (undoDelete of NotesPage.tsx).                   *)
THEOREM UndoIsExactHolds == Spec => UndoIsExact
<1>1. TypeOK /\ UndoInv /\ [Next]_vars => TypeOK' /\ UndoInv'
  BY TypeStep, UndoStep
<1>2. TypeOK /\ UndoInv /\ [Next]_vars
      => [request.pc = "sent" /\ request'.pc = "done" /\ request.kind = "undo"
          /\ moved # None
          => /\ Matching("deleted", request.ids) \subseteq moved
             /\ moved \subseteq ToSet(rows'["live"])]_vars
  BY OnlyCommit, UndoMoves
<1> QED BY TypeInit, UndoInit, <1>1, <1>2, PTL DEF Spec, UndoIsExact

-----------------------------------------------------------------------------
(* The way to a new note.                                                  *)

(* While the editor is on its way the list knows that it is being left.    *)
LeavingIsKnown == place = "opening" => leaving

(* The answer to a mutation changes the place only for a new note.         *)
LEMMA SucceedsLeaves ==
    ASSUME Succeeds
    PROVE  \/ place' = "opening" /\ leaving' = TRUE
           \/ UNCHANGED <<place, leaving>>
<1>1. CASE request.kind = "create" /\ Mounted
  BY <1>1, Zenon DEF Succeeds
<1>2. CASE request.kind \in {"delete", "restore", "undo"} /\ Mounted
  BY <1>2 DEF Succeeds
<1>3. CASE ~ (request.kind \in {"create", "delete", "restore", "undo"} /\ Mounted)
  BY <1>3 DEF Succeeds
<1>. QED BY <1>1, <1>2, <1>3

LEMMA StepKeepsTheWay ==
    ASSUME LeavingIsKnown, [Next]_vars
    PROVE  /\ LeavingIsKnown'
           /\ place = "opening" => place' \in {"opening", "editor"}
<1>. USE DEF LeavingIsKnown
<1>1. CASE UNCHANGED <<place, leaving>>
  BY <1>1
<1>2. CASE AutoSelect
  BY <1>2 DEF AutoSelect, Enabled
<1>3. CASE EditorArrives \/ Return
  BY <1>3 DEF EditorArrives, Return
<1>4. CASE Succeeds
  BY <1>4, SucceedsLeaves
<1>5. UNCHANGED <<place, leaving>> \/ AutoSelect \/ EditorArrives \/ Return \/ Succeeds
  BY DEF Next, vars, screen, Toggle, ToggleAll, SetView, Peek, Load, LoadMore,
         ReadPage, PageLands, LoadFails, NewNote, ConfirmDelete, RestoreSelected, UndoDelete,
         Send, Commit, Fails, Elsewhere
<1>. QED BY <1>1, <1>2, <1>3, <1>4, <1>5

(* Whatever reload lands between the new note and its editor, the editor   *)
(* is what opens (newNote and the auto-select effect of NotesPage.tsx).    *)
THEOREM NewNoteOpensHolds == Spec => NewNoteOpens
<1>1. Init => LeavingIsKnown
  BY DEF Init, LeavingIsKnown
<1>2. LeavingIsKnown /\ [Next]_vars => LeavingIsKnown'
  BY StepKeepsTheWay
<1>3. LeavingIsKnown /\ [Next]_vars
      => [place = "opening" => place' \in {"opening", "editor"}]_vars
  BY StepKeepsTheWay
<1>. QED BY <1>1, <1>2, <1>3, PTL DEF Spec, NewNoteOpens
=============================================================================

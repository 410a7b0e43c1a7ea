----------------------------- MODULE DataLemmas -----------------------------
(***************************************************************************)
(* Lemmas about sequences without duplicates, the form in which the        *)
(* modules keep the kernel's linked lists of threads and of work items:    *)
(* what insertion, removal, prepending and taking the head do to the       *)
(* members, their positions and their order; the least element of a set of *)
(* numbers; and that a recursion on the natural numbers has a solution.    *)
(***************************************************************************)
EXTENDS Integers, Sequences, SequencesExt, SequenceTheorems,
        WellFoundedInduction, TLAPS

\* r is q with t at position i and the elements from i on moved up by one.
ShiftedUp(r, q, i, t) ==
  \A k \in 1..(Len(q) + 1) :
    r[k] = IF k < i THEN q[k] ELSE IF k = i THEN t ELSE q[k - 1]

\* r is q without its i-th element, the elements after it moved down by one.
ShiftedDown(r, q, i) ==
  \A k \in 1..(Len(q) - 1) : r[k] = IF k < i THEN q[k] ELSE q[k + 1]

\* InsertAt(q, i, t), the list insertion of _pend_thread(): the elements from
\* position i on move up by one.
LEMMA InsertAtEntries ==
  ASSUME NEW S, NEW q \in Seq(S), NEW t \in S, NEW i \in 1..(Len(q) + 1)
  PROVE  /\ InsertAt(q, i, t) \in Seq(S)
         /\ Len(InsertAt(q, i, t)) = Len(q) + 1
         /\ ShiftedUp(InsertAt(q, i, t), q, i, t)
<1> DEFINE a == SubSeq(q, 1, i - 1)
           b == SubSeq(q, i, Len(q))
<1>1. /\ a \in Seq(S)
      /\ Len(a) = i - 1
      /\ \A k \in 1..(i - 1) : a[k] = q[k]
  BY SubSeqProperties
<1>2. /\ b \in Seq(S)
      /\ Len(b) = Len(q) - i + 1
      /\ \A k \in 1..(Len(q) - i + 1) : b[k] = q[i + k - 1]
  BY SubSeqProperties
<1> DEFINE c == a \o <<t>>
<1> HIDE DEF a, b
<1>3. /\ c \in Seq(S)
      /\ Len(c) = i
      /\ \A k \in 1..i : c[k] = IF k < i THEN q[k] ELSE t
  BY <1>1
<1> HIDE DEF c
<1>4. /\ c \o b \in Seq(S)
      /\ Len(c \o b) = Len(q) + 1
      /\ \A k \in 1..(Len(q) + 1) :
            (c \o b)[k] = IF k < i THEN q[k] ELSE IF k = i THEN t ELSE q[k - 1]
  <2>1. /\ c \o b \in Seq(S)
        /\ Len(c \o b) = Len(c) + Len(b)
        /\ \A k \in 1..(Len(c) + Len(b)) :
              (c \o b)[k] = IF k <= Len(c) THEN c[k] ELSE b[k - Len(c)]
    BY <1>2, <1>3, ConcatProperties
  <2>2. ASSUME NEW k \in 1..(Len(q) + 1), k > i
        PROVE  b[k - i] = q[k - 1]
    BY <1>2, <2>2, k - i \in 1..(Len(q) - i + 1), i + (k - i) - 1 = k - 1
  <2> QED
    BY <2>1, <2>2, <1>2, <1>3
<1> QED
  BY <1>4 DEF InsertAt, ShiftedUp, a, b, c

\* RemoveAt(q, i), the list removal of _unpend_thread(): the elements after
\* position i move down by one.
LEMMA RemoveAtEntries ==
  ASSUME NEW S, NEW q \in Seq(S), NEW i \in 1..Len(q)
  PROVE  /\ RemoveAt(q, i) \in Seq(S)
         /\ Len(RemoveAt(q, i)) = Len(q) - 1
         /\ ShiftedDown(RemoveAt(q, i), q, i)
<1> DEFINE a == SubSeq(q, 1, i - 1)
           b == SubSeq(q, i + 1, Len(q))
<1>1. /\ a \in Seq(S)
      /\ Len(a) = i - 1
      /\ \A k \in 1..(i - 1) : a[k] = q[k]
  BY SubSeqProperties
<1>2. /\ b \in Seq(S)
      /\ Len(b) = Len(q) - i
      /\ \A k \in 1..(Len(q) - i) : b[k] = q[i + k]
  BY SubSeqProperties
<1> HIDE DEF a, b
<1>3. /\ a \o b \in Seq(S)
      /\ Len(a \o b) = Len(q) - 1
      /\ \A k \in 1..(Len(q) - 1) :
            (a \o b)[k] = IF k < i THEN q[k] ELSE q[k + 1]
  <2>1. /\ a \o b \in Seq(S)
        /\ Len(a \o b) = Len(a) + Len(b)
        /\ \A k \in 1..(Len(a) + Len(b)) :
              (a \o b)[k] = IF k <= Len(a) THEN a[k] ELSE b[k - Len(a)]
    BY <1>1, <1>2, ConcatProperties
  <2>2. ASSUME NEW k \in 1..(Len(q) - 1), k >= i
        PROVE  b[k - (i - 1)] = q[k + 1]
    BY <1>2, <2>2, k - (i - 1) \in 1..(Len(q) - i), i + (k - (i - 1)) = k + 1
  <2> QED
    BY <2>1, <2>2, <1>1, <1>2
<1> QED
  BY <1>3 DEF RemoveAt, ShiftedDown, a, b

\* The queue after an insertion holds t and what it held before, still
\* without duplicates.
LEMMA InsertAtMembers ==
  ASSUME NEW S, NEW q \in Seq(S), NEW t \in S, NEW i \in 1..(Len(q) + 1),
         IsInjective(q), ~Contains(q, t)
  PROVE  /\ IsInjective(InsertAt(q, i, t))
         /\ \A u \in S : Contains(InsertAt(q, i, t), u) <=> (u = t \/ Contains(q, u))
<1> DEFINE r == InsertAt(q, i, t)
           n == Len(q)
<1>0. /\ \A j, k \in 1..n : q[j] = q[k] => j = k
      /\ \A k \in 1..n : q[k] # t
  BY DEF IsInjective, Contains
<1>1. /\ n \in Nat
      /\ r \in Seq(S) /\ Len(r) = n + 1
      /\ \A k \in 1..(n + 1) :
           r[k] = IF k < i THEN q[k] ELSE IF k = i THEN t ELSE q[k - 1]
  <2>1. n \in Nat
    OBVIOUS
  <2>2. InsertAt(q, i, t) \in Seq(S)
    BY InsertAtEntries, Zenon
  <2>3. Len(InsertAt(q, i, t)) = Len(q) + 1
    BY InsertAtEntries, Zenon
  <2>4. ShiftedUp(InsertAt(q, i, t), q, i, t)
    BY InsertAtEntries, Zenon
  <2> QED
    BY <2>1, <2>2, <2>3, <2>4, Zenon DEF ShiftedUp
<1> HIDE DEF r
<1>2. ASSUME NEW j \in 1..(n + 1), NEW k \in 1..(n + 1), r[j] = r[k], j < k
      PROVE  FALSE
  <2>1. CASE k < i
    <3>1. j \in 1..n /\ k \in 1..n /\ r[j] = q[j] /\ r[k] = q[k] /\ j # k
      BY <1>1, <1>2, <2>1
    <3> QED
      BY <3>1, <1>2, <1>0
  <2>2. CASE k = i
    <3>1. j \in 1..n /\ r[j] = q[j] /\ r[k] = t
      BY <1>1, <1>2, <2>2
    <3> QED
      BY <3>1, <1>2, <1>0
  <2>3. CASE k > i /\ j < i
    <3>1. j \in 1..n /\ k - 1 \in 1..n /\ r[j] = q[j] /\ r[k] = q[k - 1] /\ j # k - 1
      BY <1>1, <1>2, <2>3
    <3> QED
      BY <3>1, <1>2, <1>0
  <2>4. CASE k > i /\ j = i
    <3>1. k - 1 \in 1..n /\ r[j] = t /\ r[k] = q[k - 1]
      BY <1>1, <1>2, <2>4
    <3> QED
      BY <3>1, <1>2, <1>0
  <2>5. CASE k > i /\ j > i
    <3>1. j - 1 \in 1..n /\ k - 1 \in 1..n /\ r[j] = q[j - 1] /\ r[k] = q[k - 1] /\ j - 1 # k - 1
      BY <1>1, <1>2, <2>5
    <3> QED
      BY <3>1, <1>2, <1>0
  <2> QED
    BY <2>1, <2>2, <2>3, <2>4, <2>5, <1>1, <1>2
<1>3. \A j, k \in 1..(n + 1) : r[j] = r[k] => j = k
  <2> SUFFICES ASSUME NEW j \in 1..(n + 1), NEW k \in 1..(n + 1), r[j] = r[k] PROVE j = k
    OBVIOUS
  <2>1. j < k \/ k < j \/ j = k
    BY <1>1
  <2> QED
    BY <1>2, <2>1
<1>4. ASSUME NEW k \in 1..(n + 1), k # i
      PROVE  \E m \in 1..n : q[m] = r[k]
  <2>1. CASE k < i
    BY <2>1, <1>1, k \in 1..n
  <2>2. CASE k > i
    BY <2>2, <1>1, k - 1 \in 1..n
  <2> QED
    BY <2>1, <2>2, <1>1, <1>4
<1>5. ASSUME NEW k \in 1..n
      PROVE  \E m \in 1..(n + 1) : r[m] = q[k]
  <2>1. CASE k < i
    BY <2>1, <1>1, k \in 1..(n + 1)
  <2>2. CASE k >= i
    <3>1. k + 1 \in 1..(n + 1) /\ r[k + 1] = q[k]
      BY <2>2, <1>1
    <3> QED
      BY <3>1
  <2> QED
    BY <2>1, <2>2, <1>1
<1>6. i \in 1..(n + 1) /\ r[i] = t
  BY <1>1
<1>7. \A u \in S : (\E k \in 1..(n + 1) : r[k] = u)
                    <=> (u = t \/ \E k \in 1..n : q[k] = u)
  BY <1>4, <1>5, <1>6
<1>8. IsInjective(r)
  BY <1>1, <1>3 DEF IsInjective
<1>9. \A u \in S : Contains(r, u) <=> (u = t \/ Contains(q, u))
  BY <1>1, <1>7 DEF Contains
<1> QED
  BY <1>8, <1>9 DEF r

\* The queue after a removal holds everything but the element removed.
LEMMA RemoveAtMembers ==
  ASSUME NEW S, NEW q \in Seq(S), NEW i \in 1..Len(q),
         IsInjective(q)
  PROVE  /\ IsInjective(RemoveAt(q, i))
         /\ \A u \in S : Contains(RemoveAt(q, i), u) <=> (u # q[i] /\ Contains(q, u))
<1> DEFINE r == RemoveAt(q, i)
           n == Len(q)
<1>0. \A j, k \in 1..n : q[j] = q[k] => j = k
  BY DEF IsInjective
<1>1. /\ n \in Nat
      /\ r \in Seq(S) /\ Len(r) = n - 1
      /\ \A k \in 1..(n - 1) : r[k] = IF k < i THEN q[k] ELSE q[k + 1]
  <2>1. n \in Nat
    OBVIOUS
  <2>2. RemoveAt(q, i) \in Seq(S)
    BY RemoveAtEntries, Zenon
  <2>3. Len(RemoveAt(q, i)) = Len(q) - 1
    BY RemoveAtEntries, Zenon
  <2>4. ShiftedDown(RemoveAt(q, i), q, i)
    BY RemoveAtEntries, Zenon
  <2> QED
    BY <2>1, <2>2, <2>3, <2>4, Zenon DEF ShiftedDown
<1> HIDE DEF r
<1>2. ASSUME NEW j \in 1..(n - 1), NEW k \in 1..(n - 1), r[j] = r[k], j < k
      PROVE  FALSE
  <2>1. CASE k < i
    <3>1. j \in 1..n /\ k \in 1..n /\ r[j] = q[j] /\ r[k] = q[k] /\ j # k
      BY <1>1, <1>2, <2>1
    <3> QED
      BY <3>1, <1>2, <1>0
  <2>2. CASE k >= i /\ j < i
    <3>1. j \in 1..n /\ k + 1 \in 1..n /\ r[j] = q[j] /\ r[k] = q[k + 1] /\ j # k + 1
      BY <1>1, <1>2, <2>2
    <3> QED
      BY <3>1, <1>2, <1>0
  <2>3. CASE j >= i
    <3>1. j + 1 \in 1..n /\ k + 1 \in 1..n /\ r[j] = q[j + 1] /\ r[k] = q[k + 1] /\ j + 1 # k + 1
      BY <1>1, <1>2, <2>3
    <3> QED
      BY <3>1, <1>2, <1>0
  <2> QED
    BY <2>1, <2>2, <2>3, <1>1, <1>2
<1>3. \A j, k \in 1..(n - 1) : r[j] = r[k] => j = k
  <2> SUFFICES ASSUME NEW j \in 1..(n - 1), NEW k \in 1..(n - 1), r[j] = r[k] PROVE j = k
    OBVIOUS
  <2>1. j < k \/ k < j \/ j = k
    BY <1>1
  <2> QED
    BY <1>2, <2>1
<1>4. ASSUME NEW k \in 1..(n - 1)
      PROVE  r[k] # q[i] /\ \E m \in 1..n : q[m] = r[k]
  <2>1. CASE k < i
    <3>1. k \in 1..n /\ r[k] = q[k] /\ k # i
      BY <2>1, <1>1
    <3> QED
      BY <3>1, <1>0
  <2>2. CASE k >= i
    <3>1. k + 1 \in 1..n /\ r[k] = q[k + 1] /\ k + 1 # i
      BY <2>2, <1>1
    <3> QED
      BY <3>1, <1>0
  <2> QED
    BY <2>1, <2>2, <1>1
<1>5. ASSUME NEW m \in 1..n, q[m] # q[i]
      PROVE  \E k \in 1..(n - 1) : r[k] = q[m]
  <2>1. CASE m < i
    <3>1. m \in 1..(n - 1) /\ r[m] = q[m]
      BY <2>1, <1>1
    <3> QED
      BY <3>1, <1>0
  <2>2. CASE m > i
    <3>1. m - 1 \in 1..(n - 1) /\ r[m - 1] = q[m]
      BY <2>2, <1>1
    <3> QED
      BY <3>1, <1>0
  <2> QED
    BY <2>1, <2>2, <1>1, <1>5
<1>6. \A u \in S : (\E k \in 1..(n - 1) : r[k] = u)
                    <=> (u # q[i] /\ \E k \in 1..n : q[k] = u)
  BY <1>4, <1>5
<1>7. IsInjective(r)
  BY <1>1, <1>3 DEF IsInjective
<1>8. \A u \in S : Contains(r, u) <=> (u # q[i] /\ Contains(q, u))
  BY <1>1, <1>6 DEF Contains
<1> QED
  BY <1>7, <1>8 DEF r

\* <<t>> \o q, what sys_dlist_prepend() makes of a list.
LEMMA PrependMembers ==
  ASSUME NEW S, NEW q \in Seq(S), NEW t \in S, IsInjective(q), ~Contains(q, t)
  PROVE  /\ <<t>> \o q \in Seq(S)
         /\ IsInjective(<<t>> \o q)
         /\ \A u \in S : Contains(<<t>> \o q, u) <=> (u = t \/ Contains(q, u))
<1> DEFINE e == <<t>> \o q
<1>1. /\ e \in Seq(S)
      /\ Len(e) = Len(q) + 1
      /\ e[1] = t
      /\ \A k \in 1..Len(q) : e[k + 1] = q[k]
      /\ \A k \in 2..(Len(q) + 1) : e[k] = q[k - 1]
      /\ Len(q) \in Nat
  OBVIOUS
<1>2. DOMAIN e = 1..(Len(q) + 1)
  BY <1>1, LenProperties
<1> HIDE DEF e
<1>3. \A k \in 1..Len(q) : q[k] # t
  BY DEF Contains
<1>4. \A j, k \in 1..Len(q) : q[j] = q[k] => j = k
  BY LenProperties DEF IsInjective
<1>5. ASSUME NEW j \in 1..(Len(q) + 1), NEW k \in 1..(Len(q) + 1), e[j] = e[k], j < k
      PROVE  FALSE
  <2>1. CASE j = 1
    <3>1. k - 1 \in 1..Len(q) /\ e[k] = q[k - 1]
      BY <1>1, <1>5, <2>1
    <3> QED
      BY <3>1, <1>1, <1>3, <1>5, <2>1
  <2>2. CASE j > 1
    <3>1. /\ j - 1 \in 1..Len(q) /\ e[j] = q[j - 1]
          /\ k - 1 \in 1..Len(q) /\ e[k] = q[k - 1]
          /\ j - 1 # k - 1
      BY <1>1, <1>5, <2>2
    <3> QED
      BY <3>1, <1>4, <1>5
  <2> QED
    BY <2>1, <2>2, <1>5
<1>6. IsInjective(e)
  BY <1>1, <1>2, <1>5 DEF IsInjective
<1>7. \A u \in S : Contains(e, u) <=> (u = t \/ Contains(q, u))
  <2>1. ASSUME NEW u \in S, Contains(e, u)
        PROVE  u = t \/ Contains(q, u)
    <3>1. PICK k \in 1..(Len(q) + 1) : e[k] = u
      BY <2>1, <1>1 DEF Contains
    <3>2. CASE k = 1
      BY <3>1, <3>2, <1>1
    <3>3. CASE k > 1
      BY <3>1, <3>3, <1>1, k - 1 \in 1..Len(q) DEF Contains
    <3> QED
      BY <3>1, <3>2, <3>3
  <2>2. ASSUME NEW u \in S, Contains(q, u)
        PROVE  Contains(e, u)
    <3>1. PICK k \in 1..Len(q) : q[k] = u
      BY <2>2 DEF Contains
    <3>2. k + 1 \in 1..Len(e) /\ e[k + 1] = u
      BY <3>1, <1>1
    <3> QED
      BY <3>2 DEF Contains
  <2>3. Contains(e, t)
    BY <1>1, 1 \in 1..Len(e) DEF Contains
  <2> QED
    BY <2>1, <2>2, <2>3
<1> QED
  BY <1>1, <1>6, <1>7 DEF e

\* Tail(q), what taking the head off a list leaves.
LEMMA TailMembers ==
  ASSUME NEW S, NEW q \in Seq(S), q # << >>, IsInjective(q)
  PROVE  /\ Head(q) \in S /\ Contains(q, Head(q))
         /\ Tail(q) \in Seq(S)
         /\ IsInjective(Tail(q))
         /\ \A u \in S : Contains(Tail(q), u) <=> (u # Head(q) /\ Contains(q, u))
<1> DEFINE e == Tail(q)
           h == Head(q)
<1>1. /\ h \in S /\ h = q[1]
      /\ e \in Seq(S)
      /\ Len(e) = Len(q) - 1
      /\ Len(q) \in Nat \ {0}
      /\ \A k \in 1..(Len(q) - 1) : e[k] = q[k + 1]
  OBVIOUS
<1>2. \A j, k \in 1..Len(q) : q[j] = q[k] => j = k
  BY LenProperties DEF IsInjective
<1>3. DOMAIN e = 1..(Len(q) - 1)
  BY <1>1, LenProperties
<1> HIDE DEF e, h
<1>4. ASSUME NEW j \in 1..(Len(q) - 1), NEW k \in 1..(Len(q) - 1), e[j] = e[k]
      PROVE  j = k
  <2>1. j + 1 \in 1..Len(q) /\ k + 1 \in 1..Len(q) /\ q[j + 1] = q[k + 1]
    BY <1>1, <1>4
  <2>2. j + 1 = k + 1
    BY <2>1, <1>2
  <2> QED
    BY <2>2
<1>5. IsInjective(e)
  BY <1>3, <1>4 DEF IsInjective
<1>6. ASSUME NEW u \in S, Contains(e, u)
      PROVE  u # h /\ Contains(q, u)
  <2>1. PICK k \in 1..(Len(q) - 1) : e[k] = u
    BY <1>6, <1>1 DEF Contains
  <2>2. k + 1 \in 1..Len(q) /\ q[k + 1] = u /\ k + 1 # 1 /\ 1 \in 1..Len(q)
    BY <2>1, <1>1
  <2>3. Contains(q, u)
    BY <2>2 DEF Contains
  <2>4. u # h
    BY <2>2, <1>2, <1>1
  <2> QED
    BY <2>3, <2>4
<1>7. ASSUME NEW u \in S, u # h, Contains(q, u)
      PROVE  Contains(e, u)
  <2>1. PICK k \in 1..Len(q) : q[k] = u
    BY <1>7 DEF Contains
  <2>2. k # 1
    BY <2>1, <1>7, <1>1
  <2>3. k - 1 \in 1..Len(e) /\ e[k - 1] = u
    BY <2>1, <2>2, <1>1
  <2> QED
    BY <2>3 DEF Contains
<1>8. Contains(q, h)
  BY <1>1, 1 \in 1..Len(q) DEF Contains
<1> QED
  BY <1>1, <1>5, <1>6, <1>7, <1>8 DEF e, h

-----------------------------------------------------------------------------
\* Of two elements of q the later one is among those that may follow the other.
Ordered(q, R) == \A i, j \in 1..Len(q) : i < j => q[j] \in R[q[i]]

\* q is in the order of the keys P, as _pend_thread() keeps a wait queue.
Ascending(q, P) == \A i, j \in 1..Len(q) : i < j => P[q[i]] <= P[q[j]]

\* Inserting behind what may precede an element and before what may follow it
\* keeps the order.
LEMMA InsertAtOrdered ==
  ASSUME NEW S, NEW q \in Seq(S), NEW t \in S, NEW i \in 1..(Len(q) + 1),
         NEW R, Ordered(q, R),
         \A j \in 1..(i - 1) : t \in R[q[j]],
         \A j \in 1..Len(q) : j >= i => q[j] \in R[t]
  PROVE  Ordered(InsertAt(q, i, t), R)
<1> DEFINE r == InsertAt(q, i, t)
           n == Len(q)
<1>0. n \in Nat
  OBVIOUS
<1>1. /\ r \in Seq(S) /\ Len(r) = n + 1
      /\ ShiftedUp(r, q, i, t)
  BY InsertAtEntries, Zenon
<1>2. \A k \in 1..(n + 1) : r[k] = IF k < i THEN q[k] ELSE IF k = i THEN t ELSE q[k - 1]
  BY <1>1 DEF ShiftedUp
<1>3. /\ \A j, k \in 1..n : j < k => q[k] \in R[q[j]]
      /\ \A j \in 1..n : j >= i => q[j] \in R[t]
  BY DEF Ordered
<1> HIDE DEF r, n
<1>4. ASSUME NEW j \in 1..(n + 1), NEW k \in 1..(n + 1), j < k
      PROVE  r[k] \in R[r[j]]
  <2>1. CASE k < i
    <3>1. r[j] = q[j] /\ r[k] = q[k] /\ j \in 1..n /\ k \in 1..n
      BY <1>0, <1>2, <1>4, <2>1 DEF n
    <3> QED
      BY <1>3, <1>4, <3>1
  <2>2. CASE k = i
    <3>1. r[j] = q[j] /\ r[k] = t /\ j \in 1..(i - 1)
      BY <1>0, <1>2, <1>4, <2>2
    <3> QED
      BY <3>1
  <2>3. CASE k > i /\ j < i
    <3>1. r[j] = q[j] /\ r[k] = q[k - 1] /\ j \in 1..n /\ k - 1 \in 1..n /\ j < k - 1
      BY <1>0, <1>2, <1>4, <2>3 DEF n
    <3> QED
      BY <1>3, <3>1
  <2>4. CASE k > i /\ j = i
    <3>1. r[j] = t /\ r[k] = q[k - 1] /\ k - 1 \in 1..n /\ k - 1 >= i
      BY <1>0, <1>2, <1>4, <2>4 DEF n
    <3> QED
      BY <1>3, <3>1
  <2>5. CASE k > i /\ j > i
    <3>1. r[j] = q[j - 1] /\ r[k] = q[k - 1] /\ j - 1 \in 1..n /\ k - 1 \in 1..n /\ j - 1 < k - 1
      BY <1>0, <1>2, <1>4, <2>5 DEF n
    <3> QED
      BY <1>3, <3>1
  <2> QED
    BY <2>1, <2>2, <2>3, <2>4, <2>5, <1>0, <1>4
<1>5. Ordered(r, R)
  BY <1>1, <1>4 DEF Ordered
<1> QED
  BY <1>5 DEF r

\* Taking an element out of a list keeps the order of the others.
LEMMA RemoveAtOrdered ==
  ASSUME NEW S, NEW q \in Seq(S), NEW i \in 1..Len(q), NEW R, Ordered(q, R)
  PROVE  Ordered(RemoveAt(q, i), R)
<1> DEFINE r == RemoveAt(q, i)
           n == Len(q)
<1>1. /\ r \in Seq(S) /\ Len(r) = n - 1
      /\ ShiftedDown(r, q, i)
  BY RemoveAtEntries, Zenon
<1>2. n \in Nat /\ \A k \in 1..(n - 1) : r[k] = IF k < i THEN q[k] ELSE q[k + 1]
  BY <1>1 DEF ShiftedDown
<1> HIDE DEF r, n
<1>3. ASSUME NEW j \in 1..(n - 1), NEW k \in 1..(n - 1), j < k
      PROVE  r[k] \in R[r[j]]
  <2>1. PICK a \in 1..n, b \in 1..n : r[j] = q[a] /\ r[k] = q[b] /\ a < b
    <3>1. CASE k < i
      BY <1>2, <1>3, <3>1, j \in 1..n, k \in 1..n, SMTT(40)
    <3>2. CASE k >= i /\ j < i
      BY <1>2, <1>3, <3>2, j \in 1..n, k + 1 \in 1..n, j < k + 1
    <3>3. CASE k >= i /\ j >= i
      BY <1>2, <1>3, <3>3, j + 1 \in 1..n, k + 1 \in 1..n, j + 1 < k + 1
    <3> QED
      BY <1>2, <1>3, <3>1, <3>2, <3>3
  <2> QED
    BY <2>1 DEF Ordered, n
<1>4. Ordered(r, R)
  BY <1>1, <1>3 DEF Ordered
<1> QED
  BY <1>4 DEF r

\* To be in the order of the keys is to be ordered by the relation they induce.
LEMMA AscendingIsOrdered ==
  ASSUME NEW S, NEW q \in Seq(S), NEW P \in [S -> Int]
  PROVE  Ascending(q, P) <=> Ordered(q, [x \in S |-> {y \in S : P[x] <= P[y]}])
<1>1. \A k \in 1..Len(q) : q[k] \in S
  OBVIOUS
<1> QED
  BY <1>1 DEF Ascending, Ordered

\* Inserting behind every element whose key is not larger keeps the order.
LEMMA InsertAtAscending ==
  ASSUME NEW S, NEW q \in Seq(S), NEW t \in S, NEW i \in 1..(Len(q) + 1),
         NEW P \in [S -> Int], Ascending(q, P),
         \A j \in 1..(i - 1) : P[q[j]] <= P[t],
         i <= Len(q) => P[t] <= P[q[i]]
  PROVE  Ascending(InsertAt(q, i, t), P)
<1> DEFINE R == [x \in S |-> {y \in S : P[x] <= P[y]}]
<1>0. Len(q) \in Nat /\ \A k \in 1..Len(q) : q[k] \in S
  OBVIOUS
<1>1. Ordered(q, R)
  BY AscendingIsOrdered
<1>2. \A j \in 1..(i - 1) : t \in R[q[j]]
  BY <1>0
<1>3. \A k \in 1..Len(q) : k >= i => q[k] \in R[t]
  BY <1>0 DEF Ascending
<1>4. InsertAt(q, i, t) \in Seq(S)
  BY InsertAtEntries, Zenon
<1>5. Ordered(InsertAt(q, i, t), R)
  <2> HIDE DEF R
  <2> QED
    BY <1>1, <1>2, <1>3, InsertAtOrdered
<1> QED
  BY <1>4, <1>5, AscendingIsOrdered

\* Taking an element out keeps the order of the keys.
LEMMA RemoveAtAscending ==
  ASSUME NEW S, NEW q \in Seq(S), NEW i \in 1..Len(q), NEW P \in [S -> Int], Ascending(q, P)
  PROVE  Ascending(RemoveAt(q, i), P)
<1> DEFINE R == [x \in S |-> {y \in S : P[x] <= P[y]}]
<1>1. Ordered(q, R)
  BY AscendingIsOrdered
<1>2. RemoveAt(q, i) \in Seq(S)
  BY RemoveAtEntries, Zenon
<1>3. Ordered(RemoveAt(q, i), R)
  <2> HIDE DEF R
  <2> QED
    BY <1>1, RemoveAtOrdered
<1> QED
  BY <1>2, <1>3, AscendingIsOrdered

\* The head has the least key, and the tail is in order.
LEMMA TailAscending ==
  ASSUME NEW S, NEW q \in Seq(S), q # << >>, NEW P \in [S -> Int], Ascending(q, P)
  PROVE  /\ Ascending(Tail(q), P)
         /\ \A u \in S : Contains(q, u) => P[Head(q)] <= P[u]
<1> DEFINE e == Tail(q)
           h == Head(q)
           n == Len(q)
<1>1. /\ h = q[1] /\ h \in S
      /\ Len(e) = n - 1
      /\ n \in Nat \ {0}
      /\ \A k \in 1..(n - 1) : e[k] = q[k + 1]
  OBVIOUS
<1> HIDE DEF e, h, n
<1>2. ASSUME NEW j \in 1..(n - 1), NEW k \in 1..(n - 1), j < k
      PROVE  P[e[j]] <= P[e[k]]
  <2>1. e[j] = q[j + 1] /\ e[k] = q[k + 1] /\ j + 1 \in 1..n /\ k + 1 \in 1..n /\ j + 1 < k + 1
    BY <1>1, <1>2
  <2> QED
    BY <2>1 DEF Ascending, n
<1>3. Ascending(e, P)
  BY <1>1, <1>2 DEF Ascending
<1>4. ASSUME NEW u \in S, Contains(q, u)
      PROVE  P[h] <= P[u]
  <2>1. PICK k \in 1..n : q[k] = u
    BY <1>4 DEF Contains, n
  <2>2. CASE k = 1
    BY <1>1, <2>1, <2>2
  <2>3. CASE k > 1
    <3>1. 1 \in 1..n /\ 1 < k
      BY <1>1, <2>3
    <3> QED
      BY <3>1, <2>1, <1>1 DEF Ascending, n
  <2> QED
    BY <1>1, <2>1, <2>2, <2>3
<1> QED
  BY <1>3, <1>4 DEF e, h

-----------------------------------------------------------------------------
\* A set of natural numbers that is not empty has a least element.
LEMMA LeastNatural ==
  ASSUME NEW S \in SUBSET Nat, S # {}
  PROVE  \E i \in S : \A j \in S : i <= j
<1> DEFINE R == OpToRel(<, Nat)
<1>1. IsWellFoundedOn(R, Nat)
  BY NatLessThanWellFounded
<1>2. \A x, y \in Nat : <<y, x>> \in R <=> y < x
  BY DEF OpToRel
<1> HIDE DEF R
<1>3. PICK x \in S : \A y \in S : ~(<<y, x>> \in R)
  BY <1>1, WFMin
<1>4. \A y \in S : y \in Nat /\ x \in Nat /\ ~(y < x)
  BY ONLY S \in SUBSET Nat, x \in S, <1>2, <1>3, Zenon
<1> QED
  BY <1>4

\* The same of a set of integers that is bounded below.
LEMMA LeastInteger ==
  ASSUME NEW S \in SUBSET Int, S # {}, NEW b \in Int, \A x \in S : b <= x
  PROVE  \E x \in S : \A y \in S : x <= y
<1> DEFINE T == {n \in Nat : n + b \in S}
<1>1. T \in SUBSET Nat /\ T # {}
  <2>1. PICK x \in S : TRUE
    OBVIOUS
  <2>2. x - b \in Nat /\ (x - b) + b = x
    BY <2>1
  <2> QED
    BY <2>2
<1> HIDE DEF T
<1>2. PICK i \in T : \A j \in T : i <= j
  BY <1>1, LeastNatural
<1>3. PICK x \in S : i = x - b
  <2>1. i + b \in S /\ i \in Nat /\ (i + b) - b = i
    BY DEF T
  <2> QED
    BY <2>1
<1>4. ASSUME NEW y \in S PROVE x <= y
  <2>1. y - b \in Nat /\ (y - b) + b = y /\ y - b \in T
    BY DEF T
  <2> QED
    BY <1>2, <1>3, <2>1
<1> QED
  BY <1>4

\* The smaller and the larger of two numbers.
LEMMA TwoNumbers ==
  ASSUME NEW a \in Int, NEW b \in Int
  PROVE  /\ Min({a, b}) = IF a <= b THEN a ELSE b
         /\ Max({a, b}) = IF a >= b THEN a ELSE b
<1>1. \E x \in {a, b} : \A y \in {a, b} : x <= y
  OBVIOUS
<1>2. \E x \in {a, b} : \A y \in {a, b} : x >= y
  OBVIOUS
<1>3. Min({a, b}) \in {a, b} /\ \A y \in {a, b} : Min({a, b}) <= y
  BY <1>1 DEF Min
<1>4. Max({a, b}) \in {a, b} /\ \A y \in {a, b} : Max({a, b}) >= y
  BY <1>2 DEF Max
<1> QED
  BY <1>3, <1>4

-----------------------------------------------------------------------------
\* Append(q, t), what sys_slist_append() makes of a list.
LEMMA AppendMembers ==
  ASSUME NEW S, NEW q \in Seq(S), NEW t \in S, IsInjective(q), ~Contains(q, t)
  PROVE  /\ Append(q, t) \in Seq(S)
         /\ IsInjective(Append(q, t))
         /\ \A u \in S : Contains(Append(q, t), u) <=> (u = t \/ Contains(q, u))
<1> DEFINE e == Append(q, t)
           n == Len(q)
<1>1. /\ e \in Seq(S) /\ Len(e) = n + 1 /\ n \in Nat
      /\ e[n + 1] = t
      /\ \A k \in 1..n : e[k] = q[k]
  OBVIOUS
<1>2. DOMAIN e = 1..(n + 1)
  BY <1>1, LenProperties
<1>3. \A k \in 1..n : q[k] # t
  BY DEF Contains
<1>4. \A j, k \in 1..n : q[j] = q[k] => j = k
  BY LenProperties DEF IsInjective
<1> HIDE DEF e, n
<1>5. \A k \in 1..(n + 1) : k = n + 1 \/ k \in 1..n
  BY <1>1
<1>6. \A j, k \in 1..(n + 1) : e[j] = e[k] => j = k
  BY <1>1, <1>3, <1>4, <1>5
<1>7. IsInjective(e)
  BY <1>2, <1>6 DEF IsInjective
<1>8. \A u \in S : Contains(e, u) <=> (u = t \/ Contains(q, u))
  <2>1. \A k \in 1..n : k \in 1..Len(e)
    BY <1>1
  <2>2. n + 1 \in 1..Len(e)
    BY <1>1
  <2> QED
    BY <1>1, <1>5, <2>1, <2>2 DEF Contains, n
<1> QED
  BY <1>1, <1>7, <1>8 DEF e

\* RemoveFirst(q, e), what sys_slist_find_and_remove() makes of a list.
LEMMA RemoveFirstMembers ==
  ASSUME NEW S, NEW q \in Seq(S), NEW e, IsInjective(q)
  PROVE  /\ RemoveFirst(q, e) \in Seq(S)
         /\ IsInjective(RemoveFirst(q, e))
         /\ \A u \in S : Contains(RemoveFirst(q, e), u) <=> (u # e /\ Contains(q, u))
<1>1. CASE \E i \in 1..Len(q) : q[i] = e
  <2> DEFINE I == {i \in 1..Len(q) : q[i] = e}
             k == Min(I)
  <2>1. I \in SUBSET Nat /\ I # {}
    BY <1>1
  <2>2. k \in I
    BY <2>1, LeastNatural DEF Min
  <2>3. RemoveFirst(q, e) = RemoveAt(q, k)
    BY <1>1, <2>1 DEF RemoveFirst, SelectInSeq
  <2>4. k \in 1..Len(q) /\ q[k] = e
    BY <2>2
  <2> HIDE DEF k, I
  <2>5. RemoveAt(q, k) \in Seq(S)
    BY ONLY q \in Seq(S), <2>4, RemoveAtEntries
  <2>6. /\ IsInjective(RemoveAt(q, k))
        /\ \A u \in S : Contains(RemoveAt(q, k), u) <=> (u # q[k] /\ Contains(q, u))
    BY ONLY q \in Seq(S), IsInjective(q), <2>4, RemoveAtMembers
  <2> QED
    BY <2>3, <2>4, <2>5, <2>6
<1>2. CASE ~\E i \in 1..Len(q) : q[i] = e
  BY <1>2 DEF RemoveFirst, Contains
<1> QED
  BY <1>1, <1>2

\* It keeps the order of the others.
LEMMA RemoveFirstOrdered ==
  ASSUME NEW S, NEW q \in Seq(S), NEW e, NEW R, Ordered(q, R)
  PROVE  Ordered(RemoveFirst(q, e), R)
<1>1. CASE \E i \in 1..Len(q) : q[i] = e
  <2> DEFINE I == {i \in 1..Len(q) : q[i] = e}
             k == Min(I)
  <2>1. I \in SUBSET Nat /\ I # {}
    BY <1>1
  <2>2. k \in I
    BY <2>1, LeastNatural DEF Min
  <2>3. RemoveFirst(q, e) = RemoveAt(q, k)
    BY <1>1, <2>1 DEF RemoveFirst, SelectInSeq
  <2>4. k \in 1..Len(q)
    BY <2>2
  <2> HIDE DEF k, I
  <2>5. Ordered(RemoveAt(q, k), R)
    BY ONLY q \in Seq(S), Ordered(q, R), <2>4, RemoveAtOrdered
  <2> QED
    BY <2>3, <2>5
<1>2. CASE ~\E i \in 1..Len(q) : q[i] = e
  BY <1>2 DEF RemoveFirst
<1> QED
  BY <1>1, <1>2

-----------------------------------------------------------------------------
\* The first n + 1 values of the recursion from a by the steps g.
Approximations(n, S, a, g) ==
  {f \in [0..n -> S] : f[0] = a /\ \A i \in 0..(n - 1) : f[i + 1] = g[i][f[i]]}

\* Two initial parts of one recursion agree.
LEMMA ApproximationsAgree ==
  ASSUME NEW S, NEW a \in S, NEW g \in [Nat -> [S -> S]],
         NEW m \in Nat, NEW n \in Nat,
         NEW f \in Approximations(m, S, a, g), NEW h \in Approximations(n, S, a, g)
  PROVE  \A i \in 0..m : i \in 0..n => f[i] = h[i]
<1> DEFINE D == {i \in 0..m : i \in 0..n /\ f[i] # h[i]}
<1> SUFFICES ASSUME D # {} PROVE FALSE
  OBVIOUS
<1>1. D \in SUBSET Nat
  OBVIOUS
<1>2. PICK i \in D : \A j \in D : i <= j
  BY <1>1, LeastNatural
<1>3. i # 0
  BY DEF Approximations
<1>4. i - 1 \in 0..(m - 1) /\ i - 1 \in 0..(n - 1) /\ i - 1 \notin D /\ (i - 1) + 1 = i
  BY <1>2, <1>3
<1>5. f[i - 1] = h[i - 1]
  BY <1>4
<1>6. f[i] = g[i - 1][f[i - 1]] /\ h[i] = g[i - 1][h[i - 1]]
  BY <1>4 DEF Approximations
<1> QED
  BY <1>5, <1>6

\* f is the function on Nat with the first value a and the steps g.
Recursion(f, S, a, g) ==
  f \in [Nat -> S] /\ f[0] = a /\ \A n \in Nat : f[n + 1] = g[n][f[n]]

\* There is a function on Nat with a given first value and given steps: what
\* makes a recursive function definition mean what it says.
LEMMA RecursionExists ==
  ASSUME NEW S, NEW a \in S, NEW g \in [Nat -> [S -> S]]
  PROVE  \E f : Recursion(f, S, a, g)
<1> DEFINE E == {n \in Nat : Approximations(n, S, a, g) = {}}
           F == [n \in Nat |-> (CHOOSE f \in Approximations(n, S, a, g) : TRUE)]
           G == [n \in Nat |-> F[n][n]]
<1>1. E = {}
  <2> SUFFICES ASSUME E # {} PROVE FALSE
    OBVIOUS
  <2>1. E \in SUBSET Nat
    OBVIOUS
  <2>2. PICK n \in E : \A j \in E : n <= j
    BY <2>1, LeastNatural
  <2>3. n # 0
    <3>1. [i \in 0..0 |-> a] \in Approximations(0, S, a, g)
      BY DEF Approximations
    <3> QED
      BY <3>1
  <2>4. n - 1 \in Nat /\ n - 1 \notin E
    <3> HIDE DEF E
    <3>1. n \in Nat
      BY <2>1
    <3>2. n - 1 \in Nat /\ ~(n <= n - 1)
      BY <2>3, <3>1
    <3> QED
      BY <2>2, <3>2
  <2>5. PICK f \in Approximations(n - 1, S, a, g) : TRUE
    BY <2>4
  <2> DEFINE h == [i \in 0..n |-> IF i = n THEN g[n - 1][f[n - 1]] ELSE f[i]]
  <2>6. f \in [0..(n - 1) -> S] /\ f[0] = a /\ \A i \in 0..(n - 2) : f[i + 1] = g[i][f[i]]
    BY <2>4, <2>5 DEF Approximations
  <2>7. h \in [0..n -> S]
    BY <2>4, <2>6
  <2>8. h[0] = a
    BY <2>3, <2>4, <2>6
  <2>9. ASSUME NEW i \in 0..(n - 1) PROVE h[i + 1] = g[i][h[i]]
    <3>1. i \in 0..n /\ i + 1 \in 0..n /\ i # n
      BY <2>4
    <3>2. CASE i = n - 1
      BY <3>1, <3>2
    <3>3. CASE i # n - 1
      <4>1. i \in 0..(n - 2) /\ i + 1 # n
        BY <2>4, <3>3
      <4> QED
        BY <2>6, <3>1, <4>1
    <3> QED
      BY <3>2, <3>3
  <2>10. h \in Approximations(n, S, a, g)
    BY <2>7, <2>8, <2>9 DEF Approximations
  <2> QED
    BY <2>10
<1>2. \A n \in Nat : F[n] \in Approximations(n, S, a, g)
  BY <1>1
<1> HIDE DEF E, F
<1>3. \A n \in Nat : F[n] \in [0..n -> S] /\ F[n][0] = a
  BY <1>2 DEF Approximations
<1>4. G \in [Nat -> S] /\ G[0] = a
  BY <1>3
<1>5. ASSUME NEW n \in Nat PROVE G[n + 1] = g[n][G[n]]
  <2>1. n + 1 \in Nat /\ n \in 0..(n + 1) /\ n \in 0..n /\ n \in 0..((n + 1) - 1)
    OBVIOUS
  <2>2. F[n + 1] \in Approximations(n + 1, S, a, g) /\ F[n] \in Approximations(n, S, a, g)
    BY <1>2, <2>1
  <2>3. F[n + 1][n] = F[n][n]
    <3> DEFINE A == F[n + 1]
               B == F[n]
    <3>1. A \in Approximations(n + 1, S, a, g) /\ B \in Approximations(n, S, a, g)
      BY <2>2
    <3> HIDE DEF A, B
    <3>2. \A i \in 0..(n + 1) : i \in 0..n => A[i] = B[i]
      <4> DEFINE m == n + 1
      <4>1. m \in Nat /\ A \in Approximations(m, S, a, g)
        BY <2>1, <3>1
      <4> HIDE DEF m
      <4>2. \A i \in 0..m : i \in 0..n => A[i] = B[i]
        BY <3>1, <4>1, ApproximationsAgree, SMTT(40)
      <4> QED
        BY <4>2 DEF m
    <3> QED
      BY <2>1, <3>2 DEF A, B
  <2>4. F[n + 1][n + 1] = g[n][F[n + 1][n]]
    BY <2>1, <2>2 DEF Approximations
  <2> QED
    BY <2>1, <2>3, <2>4
<1> QED
  BY <1>4, <1>5 DEF Recursion

=============================================================================

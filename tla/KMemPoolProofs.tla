--------------------------- MODULE KMemPoolProofs ---------------------------
(***************************************************************************)
(* The memory pool for every set of threads, every number of levels and of *)
(* large blocks: no memory is lost or given twice, four free partners      *)
(* never stay apart, and a waiter is overlooked in no other way than the   *)
(* two that WaitersOverlooked names.                                       *)
(***************************************************************************)
EXTENDS KMemPool, DataLemmas, FiniteSetTheorems

-----------------------------------------------------------------------------
(* Numbers of blocks and the smallest blocks they consist of *)

\* The recursive definition of the powers of four has a solution.
LEMMA Pow4Is ==
  /\ Pow4 \in [Nat -> Nat \ {0}]
  /\ Pow4[0] = 1
  /\ \A n \in Nat : Pow4[n + 1] = 4 * Pow4[n]
<1> DEFINE S == Nat \ {0}
           g == [n \in Nat |-> [x \in S |-> 4 * x]]
           rhs(f) == [l \in Nat |-> IF l = 0 THEN 1 ELSE 4 * f[l - 1]]
<1>1. 1 \in S /\ g \in [Nat -> [S -> S]]
  OBVIOUS
<1>2. PICK f \in [Nat -> S] : f[0] = 1 /\ \A n \in Nat : f[n + 1] = g[n][f[n]]
  <2> DEFINE a == 1
  <2>1. a \in S /\ g \in [Nat -> [S -> S]]
    BY <1>1
  <2> HIDE DEF S, g, a
  <2>2. \E f : Recursion(f, S, a, g)
    BY <2>1, RecursionExists, Zenon
  <2> QED
    BY <2>2 DEF a, Recursion
<1>3. \A n \in Nat : f[n + 1] = 4 * f[n]
  BY <1>2
<1>4. f = rhs(f)
  <2>1. ASSUME NEW l \in Nat, l # 0 PROVE f[l] = 4 * f[l - 1]
    <3>1. l - 1 \in Nat /\ (l - 1) + 1 = l
      BY <2>1
    <3> QED
      BY <1>3, <3>1
  <2> QED
    BY <1>2, <2>1
<1>5. Pow4 = rhs(Pow4)
  BY <1>4 DEF Pow4
<1>6. \A n \in Nat : Pow4[n] = IF n = 0 THEN 1 ELSE 4 * Pow4[n - 1]
  BY <1>5
<1>7. \A n \in Nat : Pow4[n + 1] = 4 * Pow4[n]
  <2> TAKE n \in Nat
  <2>1. n + 1 \in Nat /\ n + 1 # 0 /\ (n + 1) - 1 = n
    OBVIOUS
  <2> QED
    BY <1>6, <2>1
<1>8. \A n \in Nat : Pow4[n] \in Nat \ {0}
  <2> DEFINE B == {n \in Nat : Pow4[n] \notin Nat \ {0}}
  <2> SUFFICES ASSUME B # {} PROVE FALSE
    OBVIOUS
  <2>1. PICK n \in B : \A m \in B : n <= m
    BY LeastNatural, B \in SUBSET Nat
  <2>2. n # 0
    BY <1>6
  <2>3. n \in Nat
    OBVIOUS
  <2>4. n - 1 \in Nat /\ ~(n <= n - 1)
    BY <2>2, <2>3
  <2>5. Pow4[n - 1] \in Nat \ {0}
    BY <2>1, <2>4
  <2>6. Pow4[n] = 4 * Pow4[n - 1]
    BY <1>6, <2>2, <2>3
  <2> QED
    BY <2>5, <2>6
<1>9. Pow4[0] = 1
  BY <1>6
<1>10. Pow4 = [n \in Nat |-> Pow4[n]]
  BY <1>5, Zenon
<1> QED
  BY <1>7, <1>8, <1>9, <1>10

\* The smallest blocks in a block of level l.
Size(l) == Pow4[NLevels - 1 - l]

\* A block is four times as large as one of the next level.
LEMMA SizeIs ==
  /\ \A l \in Levels : Size(l) \in Nat \ {0}
  /\ \A l \in Levels : l + 1 \in Levels => Size(l) = 4 * Size(l + 1)
  /\ Size(0) = Pow4[NLevels - 1]
<1>1. ASSUME NEW l \in Levels PROVE Size(l) \in Nat \ {0}
  BY Pow4Is, PoolAssumption, NLevels - 1 - l \in Nat DEF Size, Levels
<1>2. ASSUME NEW l \in Levels, l + 1 \in Levels PROVE Size(l) = 4 * Size(l + 1)
  <2>1. NLevels - 1 - (l + 1) \in Nat /\ (NLevels - 1 - (l + 1)) + 1 = NLevels - 1 - l
    BY <1>2, PoolAssumption DEF Levels
  <2> QED
    BY <2>1, Pow4Is DEF Size
<1>3. NLevels - 1 - 0 = NLevels - 1
  BY PoolAssumption
<1> QED
  BY <1>1, <1>2, <1>3 DEF Size

\* The smallest blocks in a block are consecutive.
LEMMA LeavesAre ==
  ASSUME NEW l \in Levels, NEW b \in Int, NEW x
  PROVE  x \in Leaves(l, b) <=> x \in Int /\ b * Size(l) <= x /\ x < b * Size(l) + Size(l)
<1> DEFINE p == Size(l)
           y == b * p
<1>1. p \in Nat \ {0}
  BY SizeIs
<1>2. y \in Int
  BY <1>1
<1>3. Leaves(l, b) = {y + i : i \in 0..(p - 1)}
  BY DEF Leaves, Size
<1> HIDE DEF p, y
<1>4. ASSUME x \in Int, y <= x, x < y + p PROVE x \in {y + i : i \in 0..(p - 1)}
  <2>1. x - y \in 0..(p - 1) /\ x = y + (x - y)
    BY <1>1, <1>2, <1>4
  <2> QED
    BY <2>1
<1>5. ASSUME x \in {y + i : i \in 0..(p - 1)} PROVE x \in Int /\ y <= x /\ x < y + p
  BY <1>1, <1>2, <1>5
<1>6. x \in Leaves(l, b) <=> x \in Int /\ y <= x /\ x < y + p
  BY <1>3, <1>4, <1>5
<1> QED
  BY <1>6 DEF p, y

\* No block is empty.
LEMMA LeavesNotEmpty ==
  ASSUME NEW l \in Levels, NEW b \in Int
  PROVE  \E x : x \in Leaves(l, b)
<1>1. Size(l) \in Nat \ {0}
  BY SizeIs
<1>2. b * Size(l) \in Int
  BY <1>1
<1>3. b * Size(l) \in Leaves(l, b)
  BY <1>1, <1>2, LeavesAre
<1> QED
  BY <1>3

\* Blocks of one level have nothing in common.
LEMMA LeavesApart ==
  ASSUME NEW l \in Levels, NEW b \in Int, NEW c \in Int, NEW x,
         x \in Leaves(l, b), x \in Leaves(l, c)
  PROVE  b = c
<1> DEFINE p == Size(l)
<1>1. p \in Nat \ {0}
  BY SizeIs
<1>2. /\ x \in Int /\ b * p <= x /\ x < b * p + p
      /\ c * p <= x /\ x < c * p + p
  BY LeavesAre
<1> HIDE DEF p
<1>3. ASSUME NEW d \in Int, NEW e \in Int, d < e PROVE d * p + p <= e * p
  <2>1. e - d - 1 \in Nat
    BY <1>3
  <2>2. (e - d - 1) * p >= 0
    BY <1>1, <2>1
  <2>3. (e - d - 1) * p = e * p - d * p - p
    BY <1>1
  <2>4. d * p \in Int /\ e * p \in Int
    BY <1>1
  <2> QED
    BY <1>1, <2>2, <2>3, <2>4
<1>4. b * p \in Int /\ c * p \in Int
  BY <1>1
<1>5. ~(b < c) /\ ~(c < b)
  BY <1>1, <1>2, <1>3, <1>4
<1> QED
  BY <1>5

\* A block consists of four blocks of the next level.
LEMMA LeavesSplit ==
  ASSUME NEW l \in Levels, l + 1 \in Levels, NEW b \in Int, NEW x
  PROVE  x \in Leaves(l, b) <=> \E i \in 0..3 : x \in Leaves(l + 1, 4 * b + i)
<1> DEFINE p == Size(l + 1)
           y == b * p
<1>1. p \in Nat \ {0} /\ Size(l) = 4 * p
  BY SizeIs
<1>2. y \in Int /\ b * Size(l) = 4 * y
  BY <1>1
<1>3. /\ (4 * b + 0) * p = 4 * y
      /\ (4 * b + 1) * p = 4 * y + p
      /\ (4 * b + 2) * p = 4 * y + 2 * p
      /\ (4 * b + 3) * p = 4 * y + 3 * p
  BY <1>1
<1>4. x \in Leaves(l, b) <=> x \in Int /\ 4 * y <= x /\ x < 4 * y + 4 * p
  BY <1>1, <1>2, LeavesAre
<1>5. ASSUME NEW i \in 0..3
      PROVE  x \in Leaves(l + 1, 4 * b + i) <=>
               x \in Int /\ (4 * b + i) * p <= x /\ x < (4 * b + i) * p + p
  BY LeavesAre, 4 * b + i \in Int
<1> HIDE DEF p, y
<1>6. \A i \in 0..3 : i = 0 \/ i = 1 \/ i = 2 \/ i = 3
  OBVIOUS
<1>7. x \in Leaves(l + 1, 4 * b + 0) <=> x \in Int /\ 4 * y <= x /\ x < 4 * y + p
  BY <1>3, <1>5
<1>8. x \in Leaves(l + 1, 4 * b + 1) <=> x \in Int /\ 4 * y + p <= x /\ x < 4 * y + p + p
  BY <1>3, <1>5
<1>9. x \in Leaves(l + 1, 4 * b + 2) <=> x \in Int /\ 4 * y + 2 * p <= x /\ x < 4 * y + 2 * p + p
  BY <1>3, <1>5
<1>10. x \in Leaves(l + 1, 4 * b + 3) <=> x \in Int /\ 4 * y + 3 * p <= x /\ x < 4 * y + 3 * p + p
  BY <1>3, <1>5
<1>11. x \in Leaves(l, b) <=>
         \/ x \in Leaves(l + 1, 4 * b + 0) \/ x \in Leaves(l + 1, 4 * b + 1)
         \/ x \in Leaves(l + 1, 4 * b + 2) \/ x \in Leaves(l + 1, 4 * b + 3)
  <2>1. x \in Int => (4 * y <= x /\ x < 4 * y + 4 * p <=>
          \/ 4 * y <= x /\ x < 4 * y + p
          \/ 4 * y + p <= x /\ x < 4 * y + p + p
          \/ 4 * y + 2 * p <= x /\ x < 4 * y + 2 * p + p
          \/ 4 * y + 3 * p <= x /\ x < 4 * y + 3 * p + p)
    BY <1>1, <1>2
  <2> QED
    BY <1>4, <1>7, <1>8, <1>9, <1>10, <2>1
<1>12. 0 \in 0..3 /\ 1 \in 0..3 /\ 2 \in 0..3 /\ 3 \in 0..3
  OBVIOUS
<1> QED
  BY <1>6, <1>11, <1>12, Zenon

\* The blocks of level 0 are the whole memory.
LEMMA LeavesCover ==
  ASSUME NEW x \in Numbers(NLevels - 1)
  PROVE  \E b \in Numbers(0) : x \in Leaves(0, b)
<1> DEFINE p == Size(0)
           B == {b \in Nat : x < b * p + p}
<1>1. 0 \in Levels /\ p \in Nat \ {0} /\ p = Pow4[NLevels - 1] /\ NMax \in Nat \ {0}
  BY SizeIs, PoolAssumption DEF Levels
<1>2. Numbers(0) = 0..(NMax - 1)
  BY Pow4Is, PoolAssumption DEF Numbers
<1>3. x \in Nat /\ x < NMax * p
  <2>1. Numbers(NLevels - 1) = 0..(NMax * p - 1)
    BY <1>1 DEF Numbers
  <2>2. NMax * p \in Nat
    BY <1>1
  <2> HIDE DEF p
  <2> QED
    BY <2>1, <2>2
<1> HIDE DEF p
<1>4. NMax - 1 \in B
  <2>1. (NMax - 1) * p + p = NMax * p
    BY <1>1
  <2> QED
    BY <1>1, <1>3, <2>1
<1>5. PICK b \in B : \A c \in B : b <= c
  BY <1>4, LeastNatural, B \in SUBSET Nat
<1>6. b \in Nat /\ x < b * p + p /\ b <= NMax - 1
  BY <1>4, <1>5
<1>7. b * p <= x
  <2>1. CASE b = 0
    BY <1>1, <1>3, <2>1
  <2>2. CASE b # 0
    <3>1. b - 1 \in Nat /\ ~(b <= b - 1)
      BY <1>6, <2>2
    <3>2. ~(x < (b - 1) * p + p)
      BY <1>5, <3>1
    <3>3. (b - 1) * p + p = b * p /\ b * p \in Int
      BY <1>1, <1>6
    <3> QED
      BY <1>3, <3>2, <3>3
  <2> QED
    BY <2>1, <2>2
<1>8. b \in Numbers(0) /\ b \in Int
  BY <1>1, <1>2, <1>6
<1> QED
  BY <1>1, <1>3, <1>6, <1>7, <1>8, LeavesAre DEF p

\* The numbers of the parts of a block, and of the block it is a part of.
LEMMA NumbersSplit ==
  ASSUME NEW l \in Nat
  PROVE  /\ Numbers(l) \subseteq Nat
         /\ \A b \in Numbers(l), i \in 0..3 : 4 * b + i \in Numbers(l + 1)
         /\ \A b \in Numbers(l + 1) : b \div 4 \in Numbers(l)
<1> DEFINE n == NMax * Pow4[l]
<1>1. Pow4[l] \in Nat /\ Pow4[l + 1] = 4 * Pow4[l] /\ NMax \in Nat
  BY Pow4Is, PoolAssumption
<1>2. n \in Nat /\ NMax * Pow4[l + 1] = 4 * n
  BY <1>1
<1>3. Numbers(l) = 0..(n - 1) /\ Numbers(l + 1) = 0..(4 * n - 1)
  BY <1>2 DEF Numbers
<1> HIDE DEF n
<1> QED
  BY <1>2, <1>3, SMTT(40)

-----------------------------------------------------------------------------
(* The blocks there are, as entries <<level, number, owner>> *)

Part(o) == Leaves(o[1], o[2])

Parts(B) == UNION {Part(o) : o \in B}

\* No two entries of B have a smallest block in common.
Apart(B) == \A o, p \in B : \A x : x \in Part(o) /\ x \in Part(p) => o = p

\* Every smallest block is part of an entry of B.
Covers(B) == Numbers(NLevels - 1) \subseteq Parts(B)

\* To replace entries by others that consist of the same smallest blocks
\* neither loses nor doubles any.
LEMMA Replaced ==
  ASSUME NEW B, NEW R \in SUBSET B, NEW N, Apart(B), Covers(B), Apart(N),
         Parts(R) = Parts(N)
  PROVE  Apart((B \ R) \cup N) /\ Covers((B \ R) \cup N)
<1> DEFINE C == (B \ R) \cup N
<1>1. \A D : \A x : x \in Parts(D) <=> \E o \in D : x \in Part(o)
  BY DEF Parts
<1>2. ASSUME NEW o \in C, NEW p \in C, NEW x, x \in Part(o), x \in Part(p)
      PROVE  o = p
  <2>1. CASE o \in B \ R /\ p \in B \ R
    BY <1>2, <2>1 DEF Apart
  <2>2. CASE o \in N /\ p \in N
    BY <1>2, <2>2 DEF Apart
  <2>3. CASE o \in B \ R /\ p \in N
    <3>1. PICK r \in R : x \in Part(r)
      BY <1>1, <1>2, <2>3
    <3> QED
      BY <1>2, <2>3, <3>1 DEF Apart
  <2>4. CASE o \in N /\ p \in B \ R
    <3>1. PICK r \in R : x \in Part(r)
      BY <1>1, <1>2, <2>4
    <3> QED
      BY <1>2, <2>4, <3>1 DEF Apart
  <2> QED
    BY <2>1, <2>2, <2>3, <2>4
<1>3. ASSUME NEW x \in Numbers(NLevels - 1) PROVE x \in Parts(C)
  <2>1. PICK o \in B : x \in Part(o)
    BY <1>1 DEF Covers
  <2>2. CASE o \in R
    BY <1>1, <2>1, <2>2
  <2>3. CASE o \notin R
    BY <1>1, <2>1, <2>3
  <2> QED
    BY <2>2, <2>3
<1> HIDE DEF C
<1>4. Apart(C) /\ Covers(C)
  BY <1>2, <1>3 DEF Apart, Covers
<1> QED
  BY <1>4 DEF C

\* An entry that changes only its owner.
LEMMA OwnerChanges ==
  ASSUME NEW B, NEW l, NEW b, NEW v, NEW w, <<l, b, v>> \in B, Apart(B), Covers(B)
  PROVE  /\ Apart((B \ {<<l, b, v>>}) \cup {<<l, b, w>>})
         /\ Covers((B \ {<<l, b, v>>}) \cup {<<l, b, w>>})
<1> DEFINE R == {<<l, b, v>>}
           N == {<<l, b, w>>}
<1>1. Part(<<l, b, v>>) = Part(<<l, b, w>>)
  BY DEF Part
<1>2. Parts(R) = Parts(N)
  BY <1>1 DEF Parts
<1>3. Apart(N) /\ R \in SUBSET B
  BY DEF Apart
<1> HIDE DEF R, N
<1>4. Apart((B \ R) \cup N) /\ Covers((B \ R) \cup N)
  BY <1>2, <1>3, Replaced
<1> QED
  BY <1>4 DEF R, N

\* The four parts of a block that b is one of, and who has them.
Quarter(l, b, w) == {<<l + 1, 4 * b + i, w[i]>> : i \in 0..3}

\* The four parts of a block are apart and consist of what the block does.
LEMMA QuarterIs ==
  ASSUME NEW l \in Levels, l + 1 \in Levels, NEW b \in Int, NEW w, NEW v
  PROVE  /\ Apart(Quarter(l, b, w))
         /\ Apart({<<l, b, v>>})
         /\ Parts(Quarter(l, b, w)) = Parts({<<l, b, v>>})
<1>1. \A D : \A x : x \in Parts(D) <=> \E o \in D : x \in Part(o)
  BY DEF Parts
<1>2. \A i \in 0..3 : Part(<<l + 1, 4 * b + i, w[i]>>) = Leaves(l + 1, 4 * b + i)
  BY DEF Part
<1>3. Part(<<l, b, v>>) = Leaves(l, b)
  BY DEF Part
<1>4. ASSUME NEW o \in Quarter(l, b, w), NEW p \in Quarter(l, b, w), NEW x,
             x \in Part(o), x \in Part(p)
      PROVE  o = p
  <2>1. PICK i \in 0..3 : o = <<l + 1, 4 * b + i, w[i]>>
    BY DEF Quarter
  <2>2. PICK j \in 0..3 : p = <<l + 1, 4 * b + j, w[j]>>
    BY DEF Quarter
  <2>3. x \in Leaves(l + 1, 4 * b + i) /\ x \in Leaves(l + 1, 4 * b + j)
    BY <1>2, <1>4, <2>1, <2>2
  <2>4. 4 * b + i \in Int /\ 4 * b + j \in Int
    OBVIOUS
  <2>5. 4 * b + i = 4 * b + j
    BY <2>3, <2>4, LeavesApart, Zenon
  <2>6. i = j
    BY <2>5
  <2> QED
    BY <2>1, <2>2, <2>6
<1>5. ASSUME NEW x PROVE x \in Parts(Quarter(l, b, w)) <=> x \in Parts({<<l, b, v>>})
  <2>1. x \in Parts({<<l, b, v>>}) <=> x \in Leaves(l, b)
    BY <1>1, <1>3
  <2>2. x \in Parts(Quarter(l, b, w)) <=> \E i \in 0..3 : x \in Leaves(l + 1, 4 * b + i)
    BY <1>1, <1>2 DEF Quarter
  <2> QED
    BY <2>1, <2>2, LeavesSplit
<1>6. Apart({<<l, b, v>>})
  BY DEF Apart
<1> QED
  BY <1>4, <1>5, <1>6 DEF Apart

-----------------------------------------------------------------------------
(* The inductive invariant *)

\* The entries of Blocks, read from the bits instead of the lists.
Owned ==
  {o \in Levels \X Int \X (Threads \cup {"free"}) :
     \/ o[3] = "free" /\ o[2] \in bits[o[1]]
     \/ /\ o[3] \in Threads
        /\ \/ <<o[1], o[2]>> \in held[o[3]]
           \/ hand[o[3]] # -1 /\ o[1] = lev[o[3]] /\ o[2] = hand[o[3]]}

\* Types, and the two records of the free blocks
DataInv ==
  /\ TypeOK /\ BitsMatchLists
  /\ list \in [Levels -> Seq(Int)]
  /\ hand \in [Threads -> Int]
  /\ held \in [Threads -> SUBSET (Levels \X Int)]

\* A call has a block in its hands only between alloc_block() and the return
\* of pool_alloc(), and in free_block(); its thread does not hold that block.
CallInv ==
  \A t \in Threads :
    /\ hand[t] # -1 <=> pc[t] \in {"break", "free"}
    /\ hand[t] # -1 => <<lev[t], hand[t]>> \notin held[t]

TileInv == Apart(Owned) /\ Covers(Owned)

\* Where the walk over the levels begins and ends
WalkInv ==
  \A t \in Threads :
    /\ pc[t] = "out" => lev[t] = 0 /\ freeL[t] = -1
    /\ pc[t] = "scan" => lev[t] <= want[t]

\* t was overlooked, or a wake-up is on the way.
Noticed(t) == t \in missed \/ \E u \in Threads : pc[u] = "wake"

\* The levels whose lists t has found empty, before and while it waits
Seen(t) ==
  IF pc[t] = "scan" /\ freeL[t] = -1 THEN 0..(lev[t] - 1)
  ELSE IF pc[t] = "pend" \/ t \in waiting THEN 0..want[t]
  ELSE {}

\* Nothing fills a list that a thread has found empty without the thread being
\* overlooked or a wake-up coming.
SeenInv == \A t \in Threads : \A l \in Seen(t) : list[l] # << >> => Noticed(t)

\* MemoryConserved counts the owners of one smallest block; what a step does is
\* told by TileInv, on entries, once it is known what a call has in its hands
\* (CallInv).  NoFragments needs it: the parts that break_block() frees must
\* not find the fourth one free.  WaitersOverlooked is about a decision that a
\* walk over the lists prepares; SeenInv says what the walk has established.
IInv == DataInv /\ CallInv /\ TileInv /\ NoFragments /\ WalkInv /\ SeenInv

\* What an entry of Owned is.
LEMMA OwnedIs ==
  /\ Owned \subseteq Levels \X Int \X (Threads \cup {"free"})
  /\ \A l \in Levels, b \in Int : <<l, b, "free">> \in Owned <=> b \in bits[l]
  /\ \A l \in Levels, b \in Int, t \in Threads :
       <<l, b, t>> \in Owned <=>
         <<l, b>> \in held[t] \/ (hand[t] # -1 /\ l = lev[t] /\ b = hand[t])
<1>1. "free" \notin Threads
  BY PoolAssumption
<1> QED
  BY <1>1 DEF Owned

\* The same of the entries after a step.
LEMMA OwnedNext ==
  /\ Owned' \subseteq Levels \X Int \X (Threads \cup {"free"})
  /\ \A l \in Levels, b \in Int : <<l, b, "free">> \in Owned' <=> b \in bits'[l]
  /\ \A l \in Levels, b \in Int, t \in Threads :
       <<l, b, t>> \in Owned' <=>
         <<l, b>> \in held'[t] \/ (hand'[t] # -1 /\ l = lev'[t] /\ b = hand'[t])
<1>1. "free" \notin Threads
  BY PoolAssumption
<1> QED
  BY <1>1 DEF Owned

\* A set of entries is known by its free and by its owned ones.
LEMMA OwnedEqual ==
  ASSUME NEW B \in SUBSET (Levels \X Int \X (Threads \cup {"free"})),
         NEW C \in SUBSET (Levels \X Int \X (Threads \cup {"free"})),
         \A l \in Levels, b \in Int : <<l, b, "free">> \in B <=> <<l, b, "free">> \in C,
         \A l \in Levels, b \in Int, t \in Threads : <<l, b, t>> \in B <=> <<l, b, t>> \in C
  PROVE  B = C
<1>1. ASSUME NEW o \in Levels \X Int \X (Threads \cup {"free"}) PROVE o \in B <=> o \in C
  <2>1. o = <<o[1], o[2], o[3]>> /\ o[1] \in Levels /\ o[2] \in Int
        /\ o[3] \in Threads \cup {"free"}
    OBVIOUS
  <2> QED
    BY <2>1
<1> QED
  BY <1>1

\* The lists and the bits tell the same blocks.
LEMMA BlocksOwned ==
  ASSUME DataInv
  PROVE  Blocks = Owned
<1> DEFINE F == UNION {{<<l, list[l][i], "free">> : i \in DOMAIN list[l]} : l \in Levels}
           H == UNION {{<<b[1], b[2], t>> : b \in held[t]} : t \in Threads}
           C == {<<lev[t], hand[t], t>> : t \in {u \in Threads : hand[u] # -1}}
<1>0. Blocks = F \cup H \cup C
  BY Zenon DEF Blocks
<1>1. ASSUME NEW o PROVE o \in F <=>
        \E l \in Levels : \E b \in bits[l] : b \in Int /\ o = <<l, b, "free">>
  <2>1. \A l \in Levels : \A b : b \in bits[l] <=> \E i \in DOMAIN list[l] : b = list[l][i]
    BY DEF DataInv, BitsMatchLists, ToSet
  <2>2. \A l \in Levels : bits[l] \subseteq Int
    BY DEF DataInv, TypeOK
  <2>3. o \in F <=> \E l \in Levels : \E i \in DOMAIN list[l] : o = <<l, list[l][i], "free">>
    OBVIOUS
  <2> QED
    BY <2>1, <2>2, <2>3
<1>2. ASSUME NEW o PROVE o \in H <=>
        \E t \in Threads : \E l \in Levels, b \in Int : <<l, b>> \in held[t] /\ o = <<l, b, t>>
  <2>1. o \in H <=> \E t \in Threads : \E b \in held[t] : o = <<b[1], b[2], t>>
    OBVIOUS
  <2>2. \A t \in Threads : held[t] \subseteq Levels \X Int
    BY DEF DataInv
  <2>3. \A t \in Threads : \A b \in held[t] :
          b = <<b[1], b[2]>> /\ b[1] \in Levels /\ b[2] \in Int
    BY <2>2
  <2>4. ASSUME NEW t \in Threads
        PROVE  (\E b \in held[t] : o = <<b[1], b[2], t>>) <=>
               (\E l \in Levels, b \in Int : <<l, b>> \in held[t] /\ o = <<l, b, t>>)
    BY <2>3
  <2> QED
    BY <2>1, <2>4, Zenon
<1>3. ASSUME NEW o PROVE o \in C <=>
        \E t \in Threads : hand[t] # -1 /\ o = <<lev[t], hand[t], t>>
  OBVIOUS
<1>4. \A t \in Threads : lev[t] \in Levels /\ hand[t] \in Int
  BY DEF DataInv, TypeOK
<1> HIDE DEF F, H, C
<1>5. F \cup H \cup C \subseteq Levels \X Int \X (Threads \cup {"free"})
  <2>1. F \subseteq Levels \X Int \X (Threads \cup {"free"})
    BY <1>1
  <2>2. ASSUME NEW o \in H PROVE o \in Levels \X Int \X (Threads \cup {"free"})
    <3>1. PICK t \in Threads, l \in Levels, b \in Int : o = <<l, b, t>>
      BY <1>2, Zenon
    <3> QED
      BY <3>1
  <2>3. C \subseteq Levels \X Int \X (Threads \cup {"free"})
    BY <1>3, <1>4
  <2> QED
    BY <2>1, <2>2, <2>3
<1>6. "free" \notin Threads
  BY PoolAssumption
<1>7. ASSUME NEW l \in Levels, NEW b \in Int
      PROVE  <<l, b, "free">> \in F \cup H \cup C <=> b \in bits[l]
  <2>1. \A t \in Threads : \A m, c : <<l, b, "free">> # <<m, c, t>>
    BY <1>6
  <2>2. <<l, b, "free">> \notin H
    BY <1>2, <2>1, Zenon
  <2>3. <<l, b, "free">> \notin C
    BY <1>3, <2>1, Zenon
  <2> QED
    BY <1>1, <2>2, <2>3
<1>8. ASSUME NEW l \in Levels, NEW b \in Int, NEW t \in Threads
      PROVE  <<l, b, t>> \in F \cup H \cup C <=>
               <<l, b>> \in held[t] \/ (hand[t] # -1 /\ l = lev[t] /\ b = hand[t])
  <2>1. <<l, b, t>> \notin F
    BY <1>1, <1>6
  <2>2. <<l, b, t>> \in H <=> <<l, b>> \in held[t]
    <3>1. ASSUME <<l, b, t>> \in H PROVE <<l, b>> \in held[t]
      <4>1. PICK u \in Threads, m \in Levels, c \in Int :
              <<m, c>> \in held[u] /\ <<l, b, t>> = <<m, c, u>>
        BY <1>2, <3>1, Zenon
      <4>2. m = l /\ c = b /\ u = t
        BY <4>1
      <4> QED
        BY <4>1, <4>2
    <3>2. ASSUME <<l, b>> \in held[t] PROVE <<l, b, t>> \in H
      BY <1>2, <3>2, Zenon
    <3> QED
      BY <3>1, <3>2
  <2>3. <<l, b, t>> \in C <=> (hand[t] # -1 /\ l = lev[t] /\ b = hand[t])
    BY <1>3
  <2> QED
    BY <2>1, <2>2, <2>3
<1> DEFINE D == F \cup H \cup C
<1>9. /\ D \in SUBSET (Levels \X Int \X (Threads \cup {"free"}))
      /\ Owned \in SUBSET (Levels \X Int \X (Threads \cup {"free"}))
      /\ \A l \in Levels, b \in Int : <<l, b, "free">> \in D <=> <<l, b, "free">> \in Owned
      /\ \A l \in Levels, b \in Int, t \in Threads : <<l, b, t>> \in D <=> <<l, b, t>> \in Owned
  <2>1. \A l \in Levels, b \in Int : <<l, b, "free">> \in Owned <=> b \in bits[l]
    BY OwnedIs
  <2>2. \A l \in Levels, b \in Int, t \in Threads : <<l, b, t>> \in Owned <=>
          <<l, b>> \in held[t] \/ (hand[t] # -1 /\ l = lev[t] /\ b = hand[t])
    BY OwnedIs
  <2>3. Owned \in SUBSET (Levels \X Int \X (Threads \cup {"free"}))
    BY OwnedIs
  <2>4. \A l \in Levels, b \in Int : <<l, b, "free">> \in D <=> <<l, b, "free">> \in Owned
    BY <1>7, <2>1
  <2>5. \A l \in Levels, b \in Int, t \in Threads : <<l, b, t>> \in D <=> <<l, b, t>> \in Owned
    <3> TAKE l \in Levels, b \in Int, t \in Threads
    <3>1. <<l, b, t>> \in D <=>
            <<l, b>> \in held[t] \/ (hand[t] # -1 /\ l = lev[t] /\ b = hand[t])
      BY <1>8
    <3>2. <<l, b, t>> \in Owned <=>
            <<l, b>> \in held[t] \/ (hand[t] # -1 /\ l = lev[t] /\ b = hand[t])
      BY <2>2
    <3> HIDE DEF D
    <3> QED
      BY <3>1, <3>2
  <2> QED
    BY <1>5, <2>3, <2>4, <2>5
<1> HIDE DEF D
<1>10. D = Owned
  BY <1>9, OwnedEqual
<1> QED
  BY <1>0, <1>10 DEF D

\* MemoryConserved, told of entries.
LEMMA ConservedIs ==
  ASSUME DataInv, TileInv
  PROVE  MemoryConserved
<1>1. Blocks = Owned
  BY BlocksOwned
<1>2. ASSUME NEW x \in Numbers(NLevels - 1)
      PROVE  Cardinality({b \in Blocks : x \in Leaves(b[1], b[2])}) = 1
  <2>1. PICK o \in Blocks : x \in Leaves(o[1], o[2])
    BY <1>1 DEF TileInv, Covers, Parts, Part
  <2>2. \A p \in Blocks : x \in Leaves(p[1], p[2]) => p = o
    BY <1>1, <2>1 DEF TileInv, Apart, Part
  <2>3. {b \in Blocks : x \in Leaves(b[1], b[2])} = {o}
    BY <2>1, <2>2
  <2> QED
    BY <2>3, FS_Singleton
<1> QED
  BY <1>2 DEF MemoryConserved, DataInv

-----------------------------------------------------------------------------
(* The steps *)

\* The state of the pool at the end of init_mem_pool().
LEMMA InitInv == Init => IInv
<1> SUFFICES ASSUME Init PROVE IInv
  OBVIOUS
<1>0. /\ 0 \in Levels /\ NMax \in Nat \ {0} /\ Levels \subseteq Nat
      /\ Numbers(0) = 0..(NMax - 1)
  BY PoolAssumption, Pow4Is DEF Levels, Numbers
<1>1. list \in [Levels -> Seq(Int)] /\ \A l \in Levels : list[l] \in Seq(Numbers(l))
  <2>1. [i \in 1..NMax |-> i - 1] \in Seq(Int) /\ [i \in 1..NMax |-> i - 1] \in Seq(Numbers(0))
    BY <1>0
  <2> QED
    BY <2>1, <1>0 DEF Init
<1>2. bits \in [Levels -> SUBSET Int] /\ \A l \in Levels : bits[l] \subseteq Numbers(l)
  BY <1>0 DEF Init
<1>3. BitsMatchLists
  <2>1. ASSUME NEW l \in Levels, l # 0 PROVE bits[l] = ToSet(list[l]) /\ IsInjective(list[l])
    BY <2>1 DEF Init, ToSet, IsInjective
  <2>2. list[0] = [i \in 1..NMax |-> i - 1] /\ bits[0] = 0..(NMax - 1)
    BY <1>0 DEF Init
  <2>3. DOMAIN list[0] = 1..NMax /\ \A i \in 1..NMax : list[0][i] = i - 1
    BY <2>2
  <2>4. ToSet(list[0]) = 0..(NMax - 1)
    <3>1. ASSUME NEW x \in 0..(NMax - 1) PROVE \E i \in 1..NMax : list[0][i] = x
      <4>1. x + 1 \in 1..NMax /\ (x + 1) - 1 = x
        BY <1>0
      <4> QED
        BY <2>3, <4>1
    <3>2. \A i \in 1..NMax : list[0][i] \in 0..(NMax - 1)
      BY <1>0, <2>3
    <3> QED
      BY <2>3, <3>1, <3>2 DEF ToSet
  <2>5. IsInjective(list[0])
    BY <1>0, <2>3 DEF IsInjective
  <2> QED
    BY <2>1, <2>2, <2>4, <2>5 DEF BitsMatchLists
<1>4. DataInv
  BY <1>0, <1>1, <1>2, <1>3 DEF DataInv, TypeOK, Init
<1>5. CallInv
  BY DEF CallInv, Init
<1>6. ASSUME NEW o \in Owned PROVE o[1] = 0 /\ o[2] \in Numbers(0) /\ o[2] \in Int /\ o[3] = "free"
                                  /\ o = <<o[1], o[2], o[3]>>
  BY <1>0 DEF Owned, Init
<1>7. TileInv
  <2>1. ASSUME NEW o \in Owned, NEW p \in Owned, NEW x, x \in Part(o), x \in Part(p)
        PROVE  o = p
    <3>1. o[2] = p[2]
      BY <1>0, <1>6, <2>1, LeavesApart DEF Part
    <3> QED
      BY <1>6, <3>1
  <2>2. ASSUME NEW x \in Numbers(NLevels - 1) PROVE x \in Parts(Owned)
    <3>1. PICK b \in Numbers(0) : x \in Leaves(0, b)
      BY LeavesCover
    <3>2. <<0, b, "free">> \in Owned
      BY <1>0, OwnedIs DEF Init
    <3> QED
      BY <3>1, <3>2 DEF Parts, Part
  <2> QED
    BY <2>1, <2>2 DEF TileInv, Apart, Covers
<1>8. NoFragments
  BY DEF NoFragments, Init, Partners
<1>9. WalkInv /\ SeenInv
  BY DEF WalkInv, SeenInv, Seen, Init
<1> QED
  BY <1>4, <1>5, <1>7, <1>8, <1>9 DEF IInv

\* What a step leaves alone that changes no entry of Owned.
LEMMA OwnedKept ==
  ASSUME TileInv, Owned' = Owned
  PROVE  TileInv'
<1>1. Apart(Owned') /\ Covers(Owned')
  BY DEF TileInv
<1> QED
  BY <1>1 DEF TileInv, Apart, Covers, Parts, Part

\* The types after Finish().
LEMMA FinishIs ==
  ASSUME DataInv, NEW t \in Threads, Finish(t)
  PROVE  /\ pc' \in [Threads -> {"out", "scan", "take", "break", "pend", "wait", "free", "wake"}]
         /\ want' \in [Threads -> Levels] /\ lev' \in [Threads -> Levels]
         /\ timeout' \in [Threads -> {"nowait", "timed", "forever"}]
         /\ freeL' \in [Threads -> Levels \cup {-1}]
         /\ hand' \in [Threads -> Int]
         /\ \A u \in Threads : hand'[u] \in Numbers(lev'[u]) \cup {-1}
         /\ hand'[t] = -1 /\ pc'[t] = "out" /\ lev'[t] = 0 /\ freeL'[t] = -1
         /\ \A u \in Threads \ {t} : /\ hand'[u] = hand[u] /\ lev'[u] = lev[u]
                                     /\ pc'[u] = pc[u] /\ freeL'[u] = freeL[u]
                                     /\ want'[u] = want[u]
<1>1. 0 \in Levels
  BY PoolAssumption DEF Levels
<1> QED
  BY <1>1 DEF DataInv, TypeOK, Finish

\* The steps that only move a call on, or end it with nothing in its hands.
LEMMA CallStepInv ==
  ASSUME IInv, NEW t \in Threads,
         \/ \E l \in Levels, to \in {"nowait", "timed", "forever"} : Alloc(t, l, to)
         \/ Scan(t) \/ Pend(t) \/ Expire(t) \/ Retry(t) \/ Wake(t)
         \/ Take(t) /\ list[lev[t]] = << >>
  PROVE  DataInv' /\ CallInv' /\ TileInv' /\ NoFragments'
<1>0. 0 \in Levels /\ Levels \subseteq Nat /\ \A l \in Levels : 0..l \subseteq Levels
  BY PoolAssumption DEF Levels
<1>1. /\ bits' = bits /\ list' = list /\ held' = held
      /\ waiting' \subseteq {u \in Threads : pc'[u] = "wait"}
      /\ missed' \subseteq Threads
  BY DEF Alloc, Scan, Pend, Expire, Retry, Wake, Take, poolVars, IInv, DataInv, TypeOK, Finish
<1> DEFINE Moved ==
      /\ pc' \in [Threads -> {"out", "scan", "take", "break", "pend", "wait", "free", "wake"}]
      /\ want' \in [Threads -> Levels] /\ lev' \in [Threads -> Levels]
      /\ timeout' \in [Threads -> {"nowait", "timed", "forever"}]
      /\ freeL' \in [Threads -> Levels \cup {-1}]
      /\ hand' = hand
      /\ \A u \in Threads : hand[u] # -1 => lev'[u] = lev[u]
      /\ \A u \in Threads : hand'[u] # -1 <=> pc'[u] \in {"break", "free"}
<1>2. Moved
  <2> USE DEF IInv, DataInv, TypeOK, CallInv
  <2>1. ASSUME NEW l \in Levels, NEW to \in {"nowait", "timed", "forever"}, Alloc(t, l, to)
        PROVE  Moved
    BY <2>1 DEF Alloc
  <2>2. CASE Scan(t)
    <3>1. freeL'[t] \in Levels \cup {-1} /\ freeL' \in [Threads -> Levels \cup {-1}]
      BY <2>2 DEF Scan
    <3>2. lev[t] \in Levels /\ want[t] \in Levels
      OBVIOUS
    <3>3. lev[t] < want[t] => lev[t] + 1 \in Levels
      BY ONLY <3>2, PoolAssumption DEF Levels
    <3>4. /\ lev' \in [Threads -> Levels]
          /\ \A u \in Threads \ {t} : lev'[u] = lev[u] /\ pc'[u] = pc[u]
          /\ pc'[t] \in {"scan", "pend", "take"} /\ hand[t] = -1
          /\ UNCHANGED <<want, timeout, hand>>
          /\ pc' \in [Threads -> {"out", "scan", "take", "break", "pend", "wait", "free", "wake"}]
      <4>0. /\ lev \in [Threads -> Levels] /\ pc[t] = "scan" /\ hand[t] = -1
            /\ pc \in [Threads -> {"out", "scan", "take", "break", "pend", "wait", "free", "wake"}]
        BY <2>2 DEF Scan
      <4>1. CASE lev[t] < want[t]
        <5>1. lev' = [lev EXCEPT ![t] = lev[t] + 1] /\ UNCHANGED <<pc, want, timeout, hand>>
          BY <2>2, <4>1 DEF Scan
        <5> QED
          BY ONLY <3>3, <4>0, <4>1, <5>1
      <4>2. CASE ~(lev[t] < want[t])
        <5>1. /\ lev' = [lev EXCEPT ![t] = IF freeL'[t] = -1 THEN 0 ELSE freeL'[t]]
              /\ pc' = [pc EXCEPT ![t] = IF freeL'[t] = -1 THEN "pend" ELSE "take"]
              /\ UNCHANGED <<want, timeout, hand>>
          BY <2>2, <4>2 DEF Scan
        <5> QED
          BY ONLY <1>0, <3>1, <4>0, <5>1
      <4> QED
        BY <4>1, <4>2
    <3> QED
      BY <3>1, <3>4
  <2>3. CASE Finish(t) /\ pc[t] \notin {"break", "free"}
    <3>1. hand[t] = -1
      BY <2>3
    <3>2. hand' = hand
      BY <2>3, <3>1 DEF Finish
    <3> QED
      BY <2>3, <3>1, <3>2, FinishIs
  <2>4. CASE Pend(t)
    BY <2>3, <2>4 DEF Pend
  <2>5. CASE Expire(t)
    BY <2>5 DEF Expire
  <2>6. CASE Retry(t)
    <3>1. CASE timeout[t] = "timed" /\ Finish(t)
      BY <2>3, <2>6, <3>1 DEF Retry
    <3>2. CASE pc'[t] = "scan"
      <4>1. ~Finish(t)
        BY <3>2, FinishIs
      <4>2. PICK to \in {"nowait", "timed", "forever"} : timeout' = [timeout EXCEPT ![t] = to]
        BY <2>6, <4>1 DEF Retry
      <4>3. pc[t] = "wait" /\ hand' = hand /\ want' = want
            /\ pc' = [pc EXCEPT ![t] = "scan"]
            /\ lev' = [lev EXCEPT ![t] = 0] /\ freeL' = [freeL EXCEPT ![t] = -1]
        BY <2>6, <4>1 DEF Retry
      <4> QED
        BY <1>0, <4>2, <4>3
    <3>3. pc'[t] = "scan" \/ (timeout[t] = "timed" /\ Finish(t))
      BY <2>6 DEF Retry
    <3> QED
      BY <3>1, <3>2, <3>3
  <2>7. CASE Wake(t)
    BY <2>3, <2>7 DEF Wake
  <2>8. CASE Take(t) /\ list[lev[t]] = << >>
    BY <2>3, <2>8 DEF Take
  <2> HIDE DEF Moved, IInv
  <2> QED
    BY <2>1, <2>2, <2>4, <2>5, <2>6, <2>7, <2>8
<1>3. Owned' = Owned
  BY <1>1, <1>2 DEF Owned
<1>4. TileInv'
  BY <1>3, OwnedKept DEF IInv
<1>5. DataInv'
  BY <1>1, <1>2 DEF DataInv, IInv, TypeOK, BitsMatchLists
<1>6. CallInv'
  BY <1>1, <1>2 DEF CallInv, IInv
<1>7. NoFragments'
  BY <1>1 DEF NoFragments, IInv
<1> QED
  BY <1>4, <1>5, <1>6, <1>7

\* One block has one owner, and its parts are not blocks of their own.
LEMMA OneOwner ==
  ASSUME TileInv, NEW l \in Levels, NEW b \in Int, NEW v, NEW w, <<l, b, v>> \in Owned
  PROVE  /\ <<l, b, w>> \in Owned => v = w
         /\ l + 1 \in Levels => \A i \in 0..3 : <<l + 1, 4 * b + i, w>> \notin Owned
<1>1. ASSUME <<l, b, w>> \in Owned PROVE v = w
  <2>1. PICK x : x \in Leaves(l, b)
    BY LeavesNotEmpty
  <2>2. x \in Part(<<l, b, v>>) /\ x \in Part(<<l, b, w>>)
    BY <2>1 DEF Part
  <2>3. <<l, b, v>> = <<l, b, w>>
    BY <1>1, <2>2 DEF TileInv, Apart
  <2> QED
    BY <2>3
<1>2. ASSUME l + 1 \in Levels, NEW i \in 0..3, <<l + 1, 4 * b + i, w>> \in Owned PROVE FALSE
  <2>0. 4 * b + i \in Int
    OBVIOUS
  <2>1. PICK x : x \in Leaves(l + 1, 4 * b + i)
    BY <1>2, <2>0, LeavesNotEmpty
  <2>2. x \in Leaves(l, b)
    BY <1>2, <2>1, LeavesSplit
  <2>3. x \in Part(<<l, b, v>>) /\ x \in Part(<<l + 1, 4 * b + i, w>>)
    BY <2>1, <2>2 DEF Part
  <2>4. <<l, b, v>> = <<l + 1, 4 * b + i, w>>
    BY <1>2, <2>3 DEF TileInv, Apart
  <2>5. l = l + 1 /\ l \in Int
    BY <2>4, PoolAssumption DEF Levels
  <2> QED
    BY <2>5
<1> QED
  BY <1>1, <1>2

\* The members of a list, in the two ways the modules name them.
LEMMA ToSetIs ==
  ASSUME NEW S, NEW q \in Seq(S)
  PROVE  ToSet(q) \subseteq S /\ \A x : x \in ToSet(q) <=> Contains(q, x)
BY DEF ToSet, Contains

\* The bits and the list of one level change together.
LEMMA LevelChanged ==
  ASSUME DataInv, NEW l \in Levels, NEW q \in Seq(Numbers(l)), IsInjective(q),
         bits' = [bits EXCEPT ![l] = ToSet(q)], list' = [list EXCEPT ![l] = q]
  PROVE  /\ bits' \in [Levels -> SUBSET Int] /\ \A m \in Levels : bits'[m] \subseteq Numbers(m)
         /\ list' \in [Levels -> Seq(Int)] /\ \A m \in Levels : list'[m] \in Seq(Numbers(m))
         /\ BitsMatchLists'
<1>1. l \in Nat
  BY PoolAssumption DEF Levels
<1>2. Numbers(l) \subseteq Int
  BY <1>1, NumbersSplit
<1>3. q \in Seq(Int)
  BY <1>2
<1>4. ToSet(q) \subseteq Numbers(l)
  BY ToSetIs
<1>5. bits \in [Levels -> SUBSET Int] /\ \A m \in Levels : bits[m] \subseteq Numbers(m)
  BY DEF DataInv, TypeOK
<1>6. list \in [Levels -> Seq(Int)] /\ \A m \in Levels : list[m] \in Seq(Numbers(m))
  BY DEF DataInv, TypeOK
<1>7. bits'[l] = ToSet(q) /\ \A m \in Levels \ {l} : bits'[m] = bits[m]
  BY <1>5
<1>8. list'[l] = q /\ \A m \in Levels \ {l} : list'[m] = list[m]
  BY <1>6
<1>9. bits' \in [Levels -> SUBSET Int] /\ \A m \in Levels : bits'[m] \subseteq Numbers(m)
  BY <1>2, <1>4, <1>5, <1>7
<1>10. list' \in [Levels -> Seq(Int)]
  BY <1>3, <1>6
<1>11. \A m \in Levels : list'[m] \in Seq(Numbers(m))
  BY <1>6, <1>8
<1>12. \A m \in Levels : bits'[m] = ToSet(list'[m]) /\ IsInjective(list'[m])
  BY <1>7, <1>8 DEF DataInv, BitsMatchLists
<1> QED
  BY <1>9, <1>10, <1>11, <1>12 DEF BitsMatchLists

\* alloc_block() of the first block on a list
LEMMA TakeInv ==
  ASSUME IInv, NEW t \in Threads, Take(t), list[lev[t]] # << >>
  PROVE  DataInv' /\ CallInv' /\ TileInv' /\ NoFragments'
<1> DEFINE l == lev[t]
           b == Head(list[l])
           q == Tail(list[l])
<1>0. DataInv /\ CallInv /\ TileInv /\ NoFragments
  BY DEF IInv
<1>1. l \in Levels /\ l \in Nat /\ pc[t] = "take" /\ hand[t] = -1
  <2>1. l \in Levels
    BY <1>0 DEF DataInv, TypeOK
  <2>2. pc[t] = "take" /\ hand[t] = -1
    BY <1>0 DEF Take, CallInv
  <2> QED
    BY <2>1, <2>2, PoolAssumption DEF Levels
<1>2. /\ list[l] \in Seq(Numbers(l)) /\ IsInjective(list[l]) /\ bits[l] = ToSet(list[l])
      /\ bits[l] \subseteq Numbers(l) /\ Numbers(l) \subseteq Nat
  BY <1>0, <1>1, NumbersSplit DEF DataInv, TypeOK, BitsMatchLists
<1>3. /\ b \in Numbers(l) /\ Contains(list[l], b)
      /\ q \in Seq(Numbers(l)) /\ IsInjective(q)
      /\ \A u \in Numbers(l) : Contains(q, u) <=> (u # b /\ Contains(list[l], u))
  BY <1>2, TailMembers
<1>4. b \in bits[l] /\ ToSet(q) = bits[l] \ {b} /\ b \in Int /\ b # -1
  <2>1. /\ \A x : x \in ToSet(q) <=> Contains(q, x)
        /\ ToSet(q) \subseteq Numbers(l)
    BY <1>3, ToSetIs
  <2>2. \A x : x \in bits[l] <=> Contains(list[l], x)
    BY <1>2, ToSetIs
  <2> QED
    BY <1>2, <1>3, <2>1, <2>2
<1>5. /\ list' = [list EXCEPT ![l] = q]
      /\ bits' = [bits EXCEPT ![l] = bits[l] \ {b}]
      /\ hand' = [hand EXCEPT ![t] = b] /\ pc' = [pc EXCEPT ![t] = "break"]
      /\ UNCHANGED <<want, timeout, lev, freeL, waiting, held>>
      /\ missed' = missed \ {t}
  BY DEF Take, TakenBit
<1> HIDE DEF b, q, l
<1>6. /\ bits' \in [Levels -> SUBSET Int] /\ \A m \in Levels : bits'[m] \subseteq Numbers(m)
      /\ list' \in [Levels -> Seq(Int)] /\ \A m \in Levels : list'[m] \in Seq(Numbers(m))
      /\ BitsMatchLists'
  <2>1. bits' = [bits EXCEPT ![l] = ToSet(q)]
    BY <1>4, <1>5
  <2> QED
    BY <1>0, <1>1, <1>3, <1>5, <2>1, LevelChanged
<1>7. hand' \in [Threads -> Int] /\ hand'[t] = b /\ \A u \in Threads \ {t} : hand'[u] = hand[u]
  BY <1>0, <1>4, <1>5 DEF DataInv
<1>8. DataInv'
  <2>1. \A u \in Threads : hand'[u] \in Numbers(lev'[u]) \cup {-1}
    BY <1>0, <1>3, <1>5, <1>7 DEF DataInv, TypeOK, l
  <2>2. pc' \in [Threads -> {"out", "scan", "take", "break", "pend", "wait", "free", "wake"}]
        /\ waiting' \subseteq {u \in Threads : pc'[u] = "wait"} /\ missed' \subseteq Threads
    BY <1>0, <1>1, <1>5 DEF DataInv, TypeOK
  <2>3. TypeOK'
    BY <1>0, <1>5, <1>6, <2>1, <2>2 DEF DataInv, TypeOK
  <2> QED
    BY <1>0, <1>5, <1>6, <1>7, <2>3 DEF DataInv
<1>9. <<l, b, "free">> \in Owned /\ <<l, b, t>> \notin Owned
  <2>1. <<l, b, "free">> \in Owned
    BY <1>1, <1>4, OwnedIs
  <2>2. t # "free"
    BY PoolAssumption
  <2> QED
    BY <1>0, <1>1, <1>4, <2>1, <2>2, OneOwner
<1>10. CallInv'
  <2>1. <<l, b>> \notin held[t]
    BY <1>1, <1>4, <1>9, OwnedIs
  <2> QED
    BY <1>0, <1>4, <1>5, <1>7, <2>1 DEF CallInv, l, DataInv, TypeOK
<1> DEFINE O == (Owned \ {<<l, b, "free">>}) \cup {<<l, b, t>>}
<1>11. Owned' = O
  <2>1. /\ Owned' \in SUBSET (Levels \X Int \X (Threads \cup {"free"}))
        /\ \A m \in Levels, c \in Int : <<m, c, "free">> \in Owned' <=> c \in bits'[m]
        /\ \A m \in Levels, c \in Int, u \in Threads : <<m, c, u>> \in Owned' <=>
             <<m, c>> \in held[u] \/ (hand'[u] # -1 /\ m = lev[u] /\ c = hand'[u])
    BY <1>5, OwnedNext
  <2>2. O \in SUBSET (Levels \X Int \X (Threads \cup {"free"}))
    BY <1>1, <1>4, OwnedIs
  <2>3. ASSUME NEW m \in Levels, NEW c \in Int
        PROVE  <<m, c, "free">> \in Owned' <=> <<m, c, "free">> \in O
    <3>1. <<m, c, "free">> \in O <=> <<m, c, "free">> \in Owned /\ ~(m = l /\ c = b)
      BY PoolAssumption
    <3>2. c \in bits'[m] <=> c \in bits[m] /\ ~(m = l /\ c = b)
      BY <1>0, <1>1, <1>5 DEF DataInv, TypeOK
    <3> QED
      BY <2>1, <3>1, <3>2, OwnedIs
  <2>4. ASSUME NEW m \in Levels, NEW c \in Int, NEW u \in Threads
        PROVE  <<m, c, u>> \in Owned' <=> <<m, c, u>> \in O
    <3>1. <<m, c, u>> \in O <=> <<m, c, u>> \in Owned \/ (m = l /\ c = b /\ u = t)
      BY PoolAssumption
    <3>2. <<m, c, u>> \in Owned <=>
            <<m, c>> \in held[u] \/ (hand[u] # -1 /\ m = lev[u] /\ c = hand[u])
      BY OwnedIs
    <3>3. <<m, c, u>> \in Owned' <=>
            <<m, c>> \in held[u] \/ (hand'[u] # -1 /\ m = lev[u] /\ c = hand'[u])
      BY <2>1
    <3> HIDE DEF O
    <3>4. CASE u = t
      BY <1>1, <1>4, <1>7, <3>1, <3>2, <3>3, <3>4 DEF l
    <3>5. CASE u # t
      BY <1>7, <3>1, <3>2, <3>3, <3>5
    <3> QED
      BY <3>4, <3>5
  <2> HIDE DEF O
  <2> QED
    BY <2>1, <2>2, <2>3, <2>4, OwnedEqual
<1>12. TileInv'
  <2>1. Apart(O) /\ Covers(O)
    BY <1>0, <1>9, OwnerChanges DEF TileInv
  <2> QED
    BY <1>11, <2>1 DEF TileInv, Apart, Covers, Parts, Part
<1>13. NoFragments'
  <2>1. \A m \in Levels : bits'[m] \subseteq bits[m]
    BY <1>0, <1>5 DEF DataInv, TypeOK
  <2> QED
    BY <1>0, <2>1 DEF NoFragments
<1> QED
  BY <1>8, <1>10, <1>12, <1>13

\* k_mem_pool_free() takes the block from the application.
LEMMA FreeInv ==
  ASSUME IInv, NEW t \in Threads, NEW b \in held[t], Free(t, b)
  PROVE  DataInv' /\ CallInv' /\ TileInv' /\ NoFragments'
<1>0. DataInv /\ CallInv /\ TileInv /\ NoFragments
  BY DEF IInv
<1>1. /\ b \in Levels \X Int /\ b = <<b[1], b[2]>> /\ b[1] \in Levels /\ b[2] \in Int
      /\ b[2] \in Numbers(b[1]) /\ b[1] \in Nat
  <2>1. held[t] \subseteq Levels \X Int
    BY <1>0 DEF DataInv
  <2>2. b[2] \in Numbers(b[1])
    BY <1>0 DEF DataInv, TypeOK
  <2> QED
    BY <2>1, <2>2, PoolAssumption DEF Levels
<1>2. b[2] # -1
  BY <1>1, NumbersSplit
<1>3. /\ pc[t] = "out" /\ hand[t] = -1
      /\ held' = [held EXCEPT ![t] = held[t] \ {b}]
      /\ lev' = [lev EXCEPT ![t] = b[1]] /\ hand' = [hand EXCEPT ![t] = b[2]]
      /\ pc' = [pc EXCEPT ![t] = "free"]
      /\ UNCHANGED <<bits, list, waiting, want, timeout, freeL, missed>>
  BY <1>0 DEF Free, CallInv, poolVars
<1>4. /\ hand' \in [Threads -> Int] /\ hand'[t] = b[2]
      /\ lev' \in [Threads -> Levels] /\ lev'[t] = b[1]
      /\ held' \in [Threads -> SUBSET (Levels \X Int)] /\ held'[t] = held[t] \ {b}
      /\ \A u \in Threads \ {t} : hand'[u] = hand[u] /\ lev'[u] = lev[u] /\ held'[u] = held[u]
  <2>1. held[t] \ {b} \in SUBSET (Levels \X Int)
    BY <1>0 DEF DataInv
  <2>2. held \in [Threads -> SUBSET (Levels \X Int)] /\ hand \in [Threads -> Int]
        /\ lev \in [Threads -> Levels]
    BY <1>0 DEF DataInv, TypeOK
  <2> QED
    BY ONLY <1>1, <1>3, <2>1, <2>2, t \in Threads
<1>5. DataInv'
  <2>1. \A u \in Threads : hand'[u] \in Numbers(lev'[u]) \cup {-1}
    BY <1>0, <1>1, <1>4 DEF DataInv, TypeOK
  <2>2. \A u \in Threads : \A c \in held'[u] : c[1] \in Levels /\ c[2] \in Numbers(c[1])
    <3>1. \A u \in Threads : held'[u] \subseteq held[u]
      BY <1>4
    <3> QED
      BY <1>0, <3>1 DEF DataInv, TypeOK
  <2>3. pc' \in [Threads -> {"out", "scan", "take", "break", "pend", "wait", "free", "wake"}]
        /\ waiting' \subseteq {u \in Threads : pc'[u] = "wait"}
    BY <1>0, <1>3 DEF DataInv, TypeOK
  <2>4. TypeOK'
    BY <1>0, <1>3, <1>4, <2>1, <2>2, <2>3 DEF DataInv, TypeOK
  <2> QED
    BY <1>0, <1>3, <1>4, <2>4 DEF DataInv, BitsMatchLists
<1>6. CallInv'
  <2>1. <<lev'[t], hand'[t]>> \notin held'[t]
    BY <1>1, <1>4
  <2>2. pc'[t] = "free" /\ \A u \in Threads \ {t} : pc'[u] = pc[u]
    BY <1>0, <1>3 DEF DataInv, TypeOK
  <2> QED
    BY <1>0, <1>2, <1>4, <2>1, <2>2 DEF CallInv
<1>7. Owned' = Owned
  <2>1. ASSUME NEW m \in Levels, NEW c \in Int, NEW u \in Threads
        PROVE  <<m, c, u>> \in Owned' <=> <<m, c, u>> \in Owned
    <3>1. <<m, c, u>> \in Owned <=>
            <<m, c>> \in held[u] \/ (hand[u] # -1 /\ m = lev[u] /\ c = hand[u])
      BY OwnedIs
    <3>2. <<m, c, u>> \in Owned' <=>
            <<m, c>> \in held'[u] \/ (hand'[u] # -1 /\ m = lev'[u] /\ c = hand'[u])
      BY OwnedNext
    <3>3. CASE u = t
      <4>1. <<m, c>> = b <=> m = b[1] /\ c = b[2]
        BY <1>1
      <4> QED
        BY <1>2, <1>3, <1>4, <3>1, <3>2, <3>3, <4>1
    <3>4. CASE u # t
      BY <1>4, <3>1, <3>2, <3>4
    <3> QED
      BY <3>3, <3>4
  <2>2. \A m \in Levels, c \in Int : <<m, c, "free">> \in Owned' <=> <<m, c, "free">> \in Owned
    BY <1>3, OwnedIs, OwnedNext
  <2>3. /\ Owned \in SUBSET (Levels \X Int \X (Threads \cup {"free"}))
        /\ Owned' \in SUBSET (Levels \X Int \X (Threads \cup {"free"}))
    BY OwnedIs, OwnedNext
  <2> QED
    BY <2>1, <2>2, <2>3, OwnedEqual
<1>8. TileInv'
  BY <1>0, <1>7, OwnedKept
<1>9. NoFragments'
  BY <1>0, <1>3 DEF NoFragments
<1> QED
  BY <1>5, <1>6, <1>8, <1>9

\* The allocation returns what has been reached.
LEMMA ReturnInv ==
  ASSUME IInv, NEW t \in Threads, Break(t), ~(lev[t] < want[t])
  PROVE  DataInv' /\ CallInv' /\ TileInv' /\ NoFragments'
<1> DEFINE l == lev[t]
           b == hand[t]
<1>0. DataInv /\ CallInv /\ TileInv /\ NoFragments
  BY DEF IInv
<1>1. /\ pc[t] = "break" /\ b # -1 /\ b \in Int /\ l \in Levels /\ b \in Numbers(l)
      /\ <<l, b>> \notin held[t]
  BY <1>0 DEF DataInv, TypeOK, CallInv, Break
<1>2. /\ held' = [held EXCEPT ![t] = held[t] \cup {<<l, b>>}]
      /\ Finish(t)
      /\ UNCHANGED <<bits, list, missed, waiting>>
  BY DEF Break, poolVars
<1>3. /\ held' \in [Threads -> SUBSET (Levels \X Int)] /\ held'[t] = held[t] \cup {<<l, b>>}
      /\ \A u \in Threads \ {t} : held'[u] = held[u]
  <2>1. held[t] \cup {<<l, b>>} \in SUBSET (Levels \X Int)
    BY <1>0, <1>1 DEF DataInv
  <2>2. held \in [Threads -> SUBSET (Levels \X Int)]
    BY <1>0 DEF DataInv
  <2> HIDE DEF l, b
  <2> QED
    BY ONLY <1>2, <2>1, <2>2, t \in Threads
<1>4. /\ pc' \in [Threads -> {"out", "scan", "take", "break", "pend", "wait", "free", "wake"}]
      /\ want' \in [Threads -> Levels] /\ lev' \in [Threads -> Levels]
      /\ timeout' \in [Threads -> {"nowait", "timed", "forever"}]
      /\ freeL' \in [Threads -> Levels \cup {-1}]
      /\ hand' \in [Threads -> Int]
      /\ \A u \in Threads : hand'[u] \in Numbers(lev'[u]) \cup {-1}
      /\ hand'[t] = -1 /\ pc'[t] = "out"
      /\ \A u \in Threads \ {t} : /\ hand'[u] = hand[u] /\ lev'[u] = lev[u]
                                  /\ pc'[u] = pc[u]
  BY <1>0, <1>2, FinishIs
<1>5. DataInv'
  <2>1. \A u \in Threads : \A c \in held'[u] : c[1] \in Levels /\ c[2] \in Numbers(c[1])
    <3>1. \A u \in Threads : \A c \in held[u] : c[1] \in Levels /\ c[2] \in Numbers(c[1])
      BY <1>0 DEF DataInv, TypeOK
    <3>2. <<l, b>>[1] \in Levels /\ <<l, b>>[2] \in Numbers(<<l, b>>[1])
      BY <1>1
    <3>3. \A u \in Threads : \A c \in held'[u] : c \in held[u] \/ c = <<l, b>>
      BY <1>3
    <3> HIDE DEF l, b
    <3> QED
      BY <3>1, <3>2, <3>3
  <2>2. waiting' \subseteq {u \in Threads : pc'[u] = "wait"}
    BY <1>0, <1>1, <1>2, <1>4 DEF DataInv, TypeOK
  <2>3. TypeOK'
    BY <1>0, <1>2, <1>4, <2>1, <2>2 DEF DataInv, TypeOK
  <2> QED
    BY <1>0, <1>2, <1>3, <1>4, <2>3 DEF DataInv, BitsMatchLists
<1>6. CallInv'
  BY <1>0, <1>3, <1>4 DEF CallInv
<1>7. Owned' = Owned
  <2>1. ASSUME NEW m \in Levels, NEW c \in Int, NEW u \in Threads
        PROVE  <<m, c, u>> \in Owned' <=> <<m, c, u>> \in Owned
    <3>1. <<m, c, u>> \in Owned <=>
            <<m, c>> \in held[u] \/ (hand[u] # -1 /\ m = lev[u] /\ c = hand[u])
      BY OwnedIs
    <3>2. <<m, c, u>> \in Owned' <=>
            <<m, c>> \in held'[u] \/ (hand'[u] # -1 /\ m = lev'[u] /\ c = hand'[u])
      BY OwnedNext
    <3>3. CASE u = t
      BY <1>1, <1>3, <1>4, <3>1, <3>2, <3>3
    <3>4. CASE u # t
      BY <1>3, <1>4, <3>1, <3>2, <3>4
    <3> QED
      BY <3>3, <3>4
  <2>2. \A m \in Levels, c \in Int : <<m, c, "free">> \in Owned' <=> <<m, c, "free">> \in Owned
    BY <1>2, OwnedIs, OwnedNext
  <2>3. /\ Owned \in SUBSET (Levels \X Int \X (Threads \cup {"free"}))
        /\ Owned' \in SUBSET (Levels \X Int \X (Threads \cup {"free"}))
    BY OwnedIs, OwnedNext
  <2> QED
    BY <2>1, <2>2, <2>3, OwnedEqual
<1>8. TileInv'
  BY <1>0, <1>7, OwnedKept
<1>9. NoFragments'
  BY <1>0, <1>2 DEF NoFragments
<1> QED
  BY <1>5, <1>6, <1>8, <1>9

\* The partners of a block are the parts of one block of the level above.
LEMMA PartnersAre ==
  ASSUME NEW b \in Nat
  PROVE  /\ b \div 4 \in Nat
         /\ b \in Partners(b)
         /\ Partners(b) \subseteq Nat
         /\ \A c \in Nat : c \in Partners(b) <=> c \div 4 = b \div 4
         /\ \A i \in 0..3 : 4 * (b \div 4) + i \in Partners(b)
<1> DEFINE d == b \div 4
<1>1. d \in Nat /\ 4 * d <= b /\ b < 4 * d + 4
  OBVIOUS
<1>2. Partners(b) = {4 * d + i : i \in 0..3}
  BY DEF Partners
<1> HIDE DEF d
<1>3. ASSUME NEW c \in Nat, c \in Partners(b) PROVE c \div 4 = d
  BY <1>1, <1>2, <1>3
<1>4. ASSUME NEW c \in Nat, c \div 4 = d PROVE c \in Partners(b)
  <2>1. c - 4 * d \in 0..3 /\ c = 4 * d + (c - 4 * d)
    BY <1>1, <1>4
  <2> QED
    BY <1>2, <2>1
<1>5. b \in Partners(b)
  BY <1>4 DEF d
<1>6. Partners(b) \subseteq Nat
  BY <1>1, <1>2
<1>7. \A i \in 0..3 : 4 * d + i \in Partners(b)
  BY <1>2
<1> QED
  BY <1>1, <1>3, <1>4, <1>5, <1>6, <1>7 DEF d

\* Three blocks are put at the end of a list.
LEMMA RestMembers ==
  ASSUME NEW S, NEW q \in Seq(S), NEW x \in S, NEW y \in S, NEW z \in S,
         x # y, x # z, y # z, IsInjective(q),
         ~Contains(q, x), ~Contains(q, y), ~Contains(q, z)
  PROVE  /\ q \o <<x, y, z>> \in Seq(S)
         /\ IsInjective(q \o <<x, y, z>>)
         /\ ToSet(q \o <<x, y, z>>) = ToSet(q) \cup {x, y, z}
         /\ q \o <<x, y, z>> # << >>
<1> DEFINE a == Append(q, x)
           b == Append(a, y)
           c == Append(b, z)
<1>1. a \in Seq(S) /\ IsInjective(a) /\ \A u \in S : Contains(a, u) <=> (u = x \/ Contains(q, u))
  BY AppendMembers
<1>2. c = q \o <<x, y, z>>
  OBVIOUS
<1> HIDE DEF a
<1>3. b \in Seq(S) /\ IsInjective(b) /\ \A u \in S : Contains(b, u) <=> (u = y \/ Contains(a, u))
  BY <1>1, AppendMembers
<1> HIDE DEF b
<1>4. c \in Seq(S) /\ IsInjective(c) /\ \A u \in S : Contains(c, u) <=> (u = z \/ Contains(b, u))
  BY <1>1, <1>3, AppendMembers
<1>5. c # << >>
  BY <1>3
<1> HIDE DEF c
<1>6. ToSet(c) = ToSet(q) \cup {x, y, z}
  <2>1. ToSet(c) \subseteq S /\ \A u : u \in ToSet(c) <=> Contains(c, u)
    BY <1>4, ToSetIs
  <2>2. ToSet(q) \subseteq S /\ \A u : u \in ToSet(q) <=> Contains(q, u)
    BY ToSetIs
  <2> QED
    BY <1>1, <1>3, <1>4, <2>1, <2>2
<1> QED
  BY <1>2, <1>4, <1>5, <1>6

\* The partners of b leave their list.
LEMMA WithoutPartnersIs ==
  ASSUME DataInv, NEW l \in Levels, NEW b \in Nat
  PROVE  /\ WithoutPartners(l, b) \in Seq(Numbers(l))
         /\ IsInjective(WithoutPartners(l, b))
         /\ ToSet(WithoutPartners(l, b)) = bits[l] \ Partners(b)
<1> DEFINE f == 4 * (b \div 4)
           q0 == list[l]
           q1 == RemoveFirst(q0, f)
           q2 == RemoveFirst(q1, f + 1)
           q3 == RemoveFirst(q2, f + 2)
           q4 == RemoveFirst(q3, f + 3)
           S == Numbers(l)
<1>1. q0 \in Seq(S) /\ IsInjective(q0) /\ bits[l] = ToSet(q0)
  BY DEF DataInv, TypeOK, BitsMatchLists
<1>2. q4 = WithoutPartners(l, b)
  BY DEF WithoutPartners
<1>3. \A x : x \in Partners(b) <=> x = f \/ x = f + 1 \/ x = f + 2 \/ x = f + 3
  BY DEF Partners
<1> HIDE DEF q0, q1, q2, q3, q4, S, f
<1>4. /\ q1 \in Seq(S) /\ IsInjective(q1)
      /\ \A u \in S : Contains(q1, u) <=> (u # f /\ Contains(q0, u))
  BY <1>1, RemoveFirstMembers DEF q1
<1>5. /\ q2 \in Seq(S) /\ IsInjective(q2)
      /\ \A u \in S : Contains(q2, u) <=> (u # f + 1 /\ Contains(q1, u))
  BY <1>4, RemoveFirstMembers DEF q2
<1>6. /\ q3 \in Seq(S) /\ IsInjective(q3)
      /\ \A u \in S : Contains(q3, u) <=> (u # f + 2 /\ Contains(q2, u))
  BY <1>5, RemoveFirstMembers DEF q3
<1>7. /\ q4 \in Seq(S) /\ IsInjective(q4)
      /\ \A u \in S : Contains(q4, u) <=> (u # f + 3 /\ Contains(q3, u))
  BY <1>6, RemoveFirstMembers DEF q4
<1>8. ToSet(q4) = bits[l] \ Partners(b)
  <2>1. ToSet(q4) \subseteq S /\ \A u : u \in ToSet(q4) <=> Contains(q4, u)
    BY <1>7, ToSetIs
  <2>2. ToSet(q0) \subseteq S /\ \A u : u \in ToSet(q0) <=> Contains(q0, u)
    BY <1>1, ToSetIs
  <2>3. \A u \in S : u \in ToSet(q4) <=> u \in ToSet(q0) /\ u \notin Partners(b)
    BY <1>3, <1>4, <1>5, <1>6, <1>7, <2>1, <2>2
  <2> QED
    BY <1>1, <2>1, <2>2, <2>3
<1> QED
  BY <1>2, <1>7, <1>8 DEF S

\* break_block(): three parts become free, the fourth stays in hand.
LEMMA BreakInv ==
  ASSUME IInv, NEW t \in Threads, Break(t), lev[t] < want[t]
  PROVE  DataInv' /\ CallInv' /\ TileInv' /\ NoFragments'
<1> DEFINE l == lev[t]
           k == l + 1
           b == hand[t]
           q == list[k] \o RestOfBlock(b)
           New == {4 * b + 1, 4 * b + 2, 4 * b + 3}
<1>0. DataInv /\ CallInv /\ TileInv /\ NoFragments
  BY DEF IInv
<1>1. /\ pc[t] = "break" /\ b # -1 /\ b \in Int /\ l \in Levels /\ b \in Numbers(l)
      /\ <<l, b>> \notin held[t]
  BY <1>0 DEF DataInv, TypeOK, CallInv, Break
<1>2. k \in Levels /\ l \in Nat /\ k # l
  <2>1. want[t] \in Levels
    BY <1>0 DEF DataInv, TypeOK
  <2> QED
    BY <1>1, <2>1, PoolAssumption DEF Levels
<1>3. /\ b \in Nat /\ Numbers(k) \subseteq Nat /\ \A i \in 0..3 : 4 * b + i \in Numbers(k)
      /\ 4 * b \in Numbers(k) /\ New \subseteq Numbers(k)
      /\ New \subseteq Int /\ 4 * b \in Int /\ 4 * b # -1 /\ 4 * b \notin New
  <2>1. b \in Nat /\ \A i \in 0..3 : 4 * b + i \in Numbers(k)
    BY <1>1, <1>2, NumbersSplit
  <2>2. Numbers(k) \subseteq Nat
    BY <1>2, NumbersSplit
  <2>3. 4 * b + 0 \in Numbers(k) /\ 4 * b + 1 \in Numbers(k) /\ 4 * b + 2 \in Numbers(k)
        /\ 4 * b + 3 \in Numbers(k)
    BY <2>1
  <2> QED
    BY <2>1, <2>2, <2>3
<1>4. /\ bits' = [bits EXCEPT ![k] = bits[k] \cup ToSet(RestOfBlock(b))]
      /\ list' = [list EXCEPT ![k] = q]
      /\ lev' = [lev EXCEPT ![t] = k] /\ hand' = [hand EXCEPT ![t] = 4 * b]
      /\ UNCHANGED <<pc, want, timeout, freeL, held, waiting>>
      /\ missed' = missed \cup {u \in Threads : pc[u] \in {"scan", "pend"} \/ u \in waiting}
  BY DEF Break
<1>5. ToSet(RestOfBlock(b)) = New
  BY DEF RestOfBlock, ToSet
<1>6. <<l, b, t>> \in Owned
  BY <1>1, OwnedIs
<1>7. \A i \in 0..3 : \A w : <<k, 4 * b + i, w>> \notin Owned
  BY <1>0, <1>1, <1>2, <1>6, OneOwner
<1>8. ASSUME NEW i \in 0..3 PROVE 4 * b + i \notin bits[k]
  <2> DEFINE c == 4 * b + i
  <2>1. c \in Int /\ <<k, c, "free">> \notin Owned
    BY <1>3, <1>7
  <2> HIDE DEF c, k
  <2>2. c \notin bits[k]
    BY <1>2, <2>1, OwnedIs
  <2> QED
    BY <2>2 DEF c
<1>9. /\ list[k] \in Seq(Numbers(k)) /\ IsInjective(list[k]) /\ bits[k] = ToSet(list[k])
  BY <1>0, <1>2 DEF DataInv, TypeOK, BitsMatchLists
<1>10. q \in Seq(Numbers(k)) /\ IsInjective(q) /\ ToSet(q) = bits[k] \cup New
  <2> DEFINE x == 4 * b + 1
             y == 4 * b + 2
             z == 4 * b + 3
  <2>1. x # y /\ x # z /\ y # z
    BY <1>3
  <2>2. x \in Numbers(k) /\ y \in Numbers(k) /\ z \in Numbers(k)
    BY <1>3
  <2>3. x \notin bits[k] /\ y \notin bits[k] /\ z \notin bits[k]
    BY <1>8
  <2>4. RestOfBlock(b) = <<x, y, z>> /\ New = {x, y, z}
    BY DEF RestOfBlock
  <2> DEFINE p == list[k]
             S == Numbers(k)
  <2> HIDE DEF x, y, z, p, S, New
  <2>5. ~Contains(p, x) /\ ~Contains(p, y) /\ ~Contains(p, z)
    BY <1>9, <2>3, ToSetIs DEF p, S
  <2>6. p \o <<x, y, z>> \in Seq(S) /\ IsInjective(p \o <<x, y, z>>)
        /\ ToSet(p \o <<x, y, z>>) = ToSet(p) \cup {x, y, z}
    BY <1>9, <2>1, <2>2, <2>5, RestMembers DEF p, S
  <2> QED
    BY <1>9, <2>4, <2>6 DEF p, S
<1> HIDE DEF q, b, l, k, New
<1>11. /\ bits' \in [Levels -> SUBSET Int] /\ \A m \in Levels : bits'[m] \subseteq Numbers(m)
       /\ list' \in [Levels -> Seq(Int)] /\ \A m \in Levels : list'[m] \in Seq(Numbers(m))
       /\ BitsMatchLists'
  <2>1. bits' = [bits EXCEPT ![k] = ToSet(q)]
    BY <1>4, <1>5, <1>10
  <2> QED
    BY <1>0, <1>2, <1>4, <1>10, <2>1, LevelChanged
<1>12. /\ hand' \in [Threads -> Int] /\ hand'[t] = 4 * b
       /\ lev' \in [Threads -> Levels] /\ lev'[t] = k
       /\ \A u \in Threads \ {t} : hand'[u] = hand[u] /\ lev'[u] = lev[u]
  BY <1>0, <1>2, <1>3, <1>4 DEF DataInv, TypeOK
<1>13. DataInv'
  <2>1. \A u \in Threads : hand'[u] \in Numbers(lev'[u]) \cup {-1}
    BY <1>0, <1>3, <1>12 DEF DataInv, TypeOK
  <2>2. TypeOK'
    BY <1>0, <1>4, <1>11, <1>12, <2>1 DEF DataInv, TypeOK
  <2> QED
    BY <1>0, <1>4, <1>11, <1>12, <2>2 DEF DataInv
<1>14. <<k, 4 * b, t>> \notin Owned /\ 4 * b \notin bits[k]
  <2>1. 4 * b + 0 = 4 * b /\ 0 \in 0..3
    BY <1>3
  <2> QED
    BY <1>7, <1>8, <2>1
<1>15. CallInv'
  <2>1. <<k, 4 * b>> \notin held[t]
    BY <1>2, <1>3, <1>14, OwnedIs
  <2> QED
    BY <1>0, <1>1, <1>3, <1>4, <1>12, <2>1 DEF CallInv
<1> DEFINE w == [i \in 0..3 |-> IF i = 0 THEN t ELSE "free"]
           Q == Quarter(l, b, w)
           O == (Owned \ {<<l, b, t>>}) \cup Q
<1>16. Q = {<<k, 4 * b, t>>, <<k, 4 * b + 1, "free">>, <<k, 4 * b + 2, "free">>,
            <<k, 4 * b + 3, "free">>}
  <2>1. 0..3 = {0, 1, 2, 3}
    OBVIOUS
  <2>2. 4 * b + 0 = 4 * b
    BY <1>3
  <2>3. w[0] = t /\ w[1] = "free" /\ w[2] = "free" /\ w[3] = "free"
    OBVIOUS
  <2> HIDE DEF w
  <2> QED
    BY <2>1, <2>2, <2>3 DEF Quarter, k
<1> HIDE DEF Q
<1>17. /\ \A m \in Levels, c \in Int : <<m, c, "free">> \in Q <=> m = k /\ c \in New
       /\ \A m \in Levels, c \in Int, u \in Threads :
            <<m, c, u>> \in Q <=> m = k /\ c = 4 * b /\ u = t
       /\ Q \subseteq Levels \X Int \X (Threads \cup {"free"})
  <2>1. "free" \notin Threads
    BY PoolAssumption
  <2>2. ASSUME NEW m \in Levels, NEW c \in Int
        PROVE  <<m, c, "free">> \in Q <=> m = k /\ c \in New
    BY <1>16, <2>1 DEF New
  <2>3. ASSUME NEW m \in Levels, NEW c \in Int, NEW u \in Threads
        PROVE  <<m, c, u>> \in Q <=> m = k /\ c = 4 * b /\ u = t
    BY <1>16, <2>1
  <2>4. Q \subseteq Levels \X Int \X (Threads \cup {"free"})
    BY <1>2, <1>3, <1>16 DEF New
  <2> QED
    BY <2>2, <2>3, <2>4
<1>18. Owned' = O
  <2>1. O \in SUBSET (Levels \X Int \X (Threads \cup {"free"}))
    BY <1>17, OwnedIs
  <2>2. ASSUME NEW m \in Levels, NEW c \in Int
        PROVE  <<m, c, "free">> \in Owned' <=> <<m, c, "free">> \in O
    <3>1. <<m, c, "free">> \in O <=> <<m, c, "free">> \in Owned \/ (m = k /\ c \in New)
      BY <1>17, PoolAssumption
    <3>2. c \in bits'[m] <=> c \in bits[m] \/ (m = k /\ c \in New)
      BY <1>0, <1>2, <1>4, <1>5 DEF DataInv, TypeOK
    <3> HIDE DEF O
    <3> QED
      BY <3>1, <3>2, OwnedIs, OwnedNext
  <2>3. ASSUME NEW m \in Levels, NEW c \in Int, NEW u \in Threads
        PROVE  <<m, c, u>> \in Owned' <=> <<m, c, u>> \in O
    <3>1. <<m, c, u>> \in O <=>
            \/ <<m, c, u>> \in Owned /\ ~(m = l /\ c = b /\ u = t)
            \/ m = k /\ c = 4 * b /\ u = t
      BY <1>17
    <3>2. <<m, c, u>> \in Owned <=>
            <<m, c>> \in held[u] \/ (hand[u] # -1 /\ m = lev[u] /\ c = hand[u])
      BY OwnedIs
    <3>3. <<m, c, u>> \in Owned' <=>
            <<m, c>> \in held[u] \/ (hand'[u] # -1 /\ m = lev'[u] /\ c = hand'[u])
      BY <1>4, OwnedNext
    <3> HIDE DEF O
    <3>4. CASE u = t
      <4>1. lev[t] = l /\ hand[t] = b
        BY DEF l, b
      <4> QED
        BY <1>1, <1>3, <1>12, <3>1, <3>2, <3>3, <3>4, <4>1
    <3>5. CASE u # t
      BY <1>12, <3>1, <3>2, <3>3, <3>5
    <3> QED
      BY <3>4, <3>5
  <2>4. Owned' \in SUBSET (Levels \X Int \X (Threads \cup {"free"}))
    BY OwnedNext
  <2> HIDE DEF O
  <2> QED
    BY <2>1, <2>2, <2>3, <2>4, OwnedEqual
<1>19. TileInv'
  <2> DEFINE R == {<<l, b, t>>}
  <2>1. Apart(Q) /\ Parts(Q) = Parts(R)
    <3> HIDE DEF w
    <3> QED
      BY <1>1, <1>2, QuarterIs DEF Q, k, l, b
  <2>2. R \in SUBSET Owned
    BY <1>6
  <2>3. O = (Owned \ R) \cup Q
    OBVIOUS
  <2> HIDE DEF R
  <2>4. Apart(O) /\ Covers(O)
    BY <1>0, <2>1, <2>2, <2>3, Replaced DEF TileInv
  <2> QED
    BY <1>18, <2>4 DEF TileInv, Apart, Covers, Parts, Part
<1>20. NoFragments'
  <2> SUFFICES ASSUME NEW m \in Levels \ {0}, NEW c \in Numbers(m), Partners(c) \subseteq bits'[m]
               PROVE  FALSE
    BY DEF NoFragments
  <2>1. CASE m # k
    <3>1. bits'[m] = bits[m]
      BY <1>0, <1>4, <2>1 DEF DataInv, TypeOK
    <3> QED
      BY <1>0, <3>1 DEF NoFragments
  <2>2. CASE m = k
    <3>1. bits'[k] = bits[k] \cup New
      BY <1>0, <1>2, <1>4, <1>5 DEF DataInv, TypeOK
    <3>2. c \in Nat
      BY <1>3, <2>2
    <3>3. \A x \in New : x \in Nat /\ x \div 4 = b
      BY <1>3 DEF New
    <3>4. CASE c \div 4 = b
      <4>1. (4 * b) \div 4 = b /\ 4 * b \in Nat
        BY <1>3
      <4>2. 4 * b \in Partners(c)
        BY <3>2, <3>4, <4>1, PartnersAre
      <4> QED
        BY <1>3, <1>14, <2>2, <3>1, <4>2
    <3>5. CASE c \div 4 # b
      <4>1. \A x \in New : x \notin Partners(c)
        BY <3>2, <3>3, <3>5, PartnersAre
      <4>2. Partners(c) \subseteq bits[k]
        BY <2>2, <3>1, <4>1
      <4> QED
        BY <1>0, <2>2, <4>2 DEF NoFragments
    <3> QED
      BY <3>4, <3>5
  <2> QED
    BY <2>1, <2>2
<1> QED
  BY <1>13, <1>15, <1>19, <1>20

\* free_block() that ends the recursion: the block goes on the free list.
LEMMA FreeEndInv ==
  ASSUME IInv, NEW t \in Threads, FreeBlock(t), ~AllPartnersFree(lev[t], hand[t])
  PROVE  DataInv' /\ CallInv' /\ TileInv' /\ NoFragments'
<1> DEFINE l == lev[t]
           b == hand[t]
           q == Append(list[l], b)
<1>0. DataInv /\ CallInv /\ TileInv /\ NoFragments
  BY DEF IInv
<1>1. /\ pc[t] = "free" /\ b # -1 /\ b \in Int /\ l \in Levels /\ b \in Numbers(l)
      /\ <<l, b>> \notin held[t]
  BY <1>0 DEF DataInv, TypeOK, CallInv, FreeBlock
<1>2. /\ bits' = [bits EXCEPT ![l] = bits[l] \cup {b}]
      /\ list' = [list EXCEPT ![l] = q]
      /\ hand' = [hand EXCEPT ![t] = -1] /\ pc' = [pc EXCEPT ![t] = "wake"]
      /\ UNCHANGED <<lev, waiting, want, timeout, freeL, held, missed>>
  BY DEF FreeBlock
<1>3. <<l, b, t>> \in Owned /\ b \notin bits[l]
  <2>1. <<l, b, t>> \in Owned
    BY <1>1, OwnedIs
  <2>2. t # "free"
    BY PoolAssumption
  <2>3. <<l, b, "free">> \notin Owned
    BY <1>0, <1>1, <2>1, <2>2, OneOwner
  <2> QED
    BY <1>1, <2>1, <2>3, OwnedIs
<1>4. q \in Seq(Numbers(l)) /\ IsInjective(q) /\ ToSet(q) = bits[l] \cup {b}
  <2>1. list[l] \in Seq(Numbers(l)) /\ IsInjective(list[l]) /\ bits[l] = ToSet(list[l])
    BY <1>0, <1>1 DEF DataInv, TypeOK, BitsMatchLists
  <2>2. /\ \A x : x \in bits[l] <=> Contains(list[l], x)
        /\ bits[l] \subseteq Numbers(l)
    BY <2>1, ToSetIs
  <2>3. ~Contains(list[l], b)
    BY <1>3, <2>2
  <2>4. /\ q \in Seq(Numbers(l)) /\ IsInjective(q)
        /\ \A u \in Numbers(l) : Contains(q, u) <=> (u = b \/ Contains(list[l], u))
    <3> DEFINE p == list[l]
               S == Numbers(l)
    <3> HIDE DEF p, S, l, b
    <3> QED
      BY <1>1, <2>1, <2>3, AppendMembers DEF p, S
  <2>5. ToSet(q) \subseteq Numbers(l) /\ \A x : x \in ToSet(q) <=> Contains(q, x)
    <3> HIDE DEF q
    <3> QED
      BY <2>4, ToSetIs
  <2> QED
    BY <1>1, <2>2, <2>4, <2>5
<1> HIDE DEF q, b, l
<1>5. /\ bits' \in [Levels -> SUBSET Int] /\ \A m \in Levels : bits'[m] \subseteq Numbers(m)
      /\ list' \in [Levels -> Seq(Int)] /\ \A m \in Levels : list'[m] \in Seq(Numbers(m))
      /\ BitsMatchLists'
  <2>1. bits' = [bits EXCEPT ![l] = ToSet(q)]
    BY <1>2, <1>4
  <2> QED
    BY <1>0, <1>1, <1>2, <1>4, <2>1, LevelChanged
<1>6. /\ hand' \in [Threads -> Int] /\ hand'[t] = -1
      /\ \A u \in Threads \ {t} : hand'[u] = hand[u]
  BY <1>0, <1>2 DEF DataInv
<1>7. /\ pc' \in [Threads -> {"out", "scan", "take", "break", "pend", "wait", "free", "wake"}]
      /\ pc'[t] = "wake" /\ \A u \in Threads \ {t} : pc'[u] = pc[u]
  BY <1>0, <1>2 DEF DataInv, TypeOK
<1>8. DataInv'
  <2>1. \A u \in Threads : hand'[u] \in Numbers(lev'[u]) \cup {-1}
    BY <1>0, <1>2, <1>6 DEF DataInv, TypeOK
  <2>2. waiting' \subseteq {u \in Threads : pc'[u] = "wait"}
    BY <1>0, <1>1, <1>2, <1>7 DEF DataInv, TypeOK
  <2>3. TypeOK'
    BY <1>0, <1>2, <1>5, <1>7, <2>1, <2>2 DEF DataInv, TypeOK
  <2> QED
    BY <1>0, <1>2, <1>5, <1>6, <2>3 DEF DataInv
<1>9. CallInv'
  BY <1>0, <1>2, <1>6, <1>7 DEF CallInv
<1> DEFINE O == (Owned \ {<<l, b, t>>}) \cup {<<l, b, "free">>}
<1>10. Owned' = O
  <2>1. O \in SUBSET (Levels \X Int \X (Threads \cup {"free"}))
    BY <1>1, OwnedIs
  <2>2. ASSUME NEW m \in Levels, NEW c \in Int
        PROVE  <<m, c, "free">> \in Owned' <=> <<m, c, "free">> \in O
    <3>1. <<m, c, "free">> \in O <=> <<m, c, "free">> \in Owned \/ (m = l /\ c = b)
      BY PoolAssumption
    <3>2. c \in bits'[m] <=> c \in bits[m] \/ (m = l /\ c = b)
      BY <1>0, <1>1, <1>2 DEF DataInv, TypeOK
    <3> HIDE DEF O
    <3> QED
      BY <3>1, <3>2, OwnedIs, OwnedNext
  <2>3. ASSUME NEW m \in Levels, NEW c \in Int, NEW u \in Threads
        PROVE  <<m, c, u>> \in Owned' <=> <<m, c, u>> \in O
    <3>1. <<m, c, u>> \in O <=> <<m, c, u>> \in Owned /\ ~(m = l /\ c = b /\ u = t)
      BY PoolAssumption
    <3>2. <<m, c, u>> \in Owned <=>
            <<m, c>> \in held[u] \/ (hand[u] # -1 /\ m = lev[u] /\ c = hand[u])
      BY OwnedIs
    <3>3. <<m, c, u>> \in Owned' <=>
            <<m, c>> \in held[u] \/ (hand'[u] # -1 /\ m = lev[u] /\ c = hand'[u])
      BY <1>2, OwnedNext
    <3> HIDE DEF O
    <3>4. CASE u = t
      <4>1. lev[t] = l /\ hand[t] = b
        BY DEF l, b
      <4> QED
        BY <1>1, <1>6, <3>1, <3>2, <3>3, <3>4, <4>1
    <3>5. CASE u # t
      BY <1>6, <3>1, <3>2, <3>3, <3>5
    <3> QED
      BY <3>4, <3>5
  <2>4. Owned' \in SUBSET (Levels \X Int \X (Threads \cup {"free"}))
    BY OwnedNext
  <2> HIDE DEF O
  <2> QED
    BY <2>1, <2>2, <2>3, <2>4, OwnedEqual
<1>11. TileInv'
  <2>1. Apart(O) /\ Covers(O)
    BY <1>0, <1>3, OwnerChanges DEF TileInv
  <2> QED
    BY <1>10, <2>1 DEF TileInv, Apart, Covers, Parts, Part
<1>12. NoFragments'
  <2> SUFFICES ASSUME NEW m \in Levels \ {0}, NEW c \in Numbers(m), Partners(c) \subseteq bits'[m]
               PROVE  FALSE
    BY DEF NoFragments
  <2>0. m \in Nat /\ c \in Nat /\ b \in Nat /\ l \in Nat
    <3>1. \A n \in Levels : n \in Nat
      BY PoolAssumption DEF Levels
    <3> QED
      BY <1>1, <3>1, NumbersSplit
  <2>1. CASE m # l
    <3>1. bits'[m] = bits[m]
      BY <1>0, <1>2, <2>1 DEF DataInv, TypeOK
    <3> QED
      BY <1>0, <3>1 DEF NoFragments
  <2>2. CASE m = l
    <3>1. bits'[l] = bits[l] \cup {b}
      BY <1>0, <1>1, <1>2 DEF DataInv, TypeOK
    <3>2. CASE b \in Partners(c)
      <4>1. b \div 4 = c \div 4
        BY <2>0, <3>2, PartnersAre
      <4>2. Partners(b) = Partners(c)
        BY <4>1 DEF Partners
      <4>3. AllPartnersFree(l, b)
        BY <2>0, <2>2, <3>1, <4>2 DEF AllPartnersFree
      <4> QED
        BY <4>3 DEF l, b
    <3>3. CASE b \notin Partners(c)
      <4>1. Partners(c) \subseteq bits[l]
        BY <2>2, <3>1, <3>3
      <4> QED
        BY <1>0, <2>2, <4>1 DEF NoFragments
    <3> QED
      BY <3>2, <3>3
  <2> QED
    BY <2>1, <2>2
<1> QED
  BY <1>8, <1>9, <1>11, <1>12

\* free_block() that joins four partners.
LEMMA JoinInv ==
  ASSUME IInv, NEW t \in Threads, FreeBlock(t), AllPartnersFree(lev[t], hand[t])
  PROVE  DataInv' /\ CallInv' /\ TileInv' /\ NoFragments'
<1> DEFINE k == lev[t]
           l == k - 1
           b == hand[t]
           d == b \div 4
           q == WithoutPartners(k, b)
<1>0. DataInv /\ CallInv /\ TileInv /\ NoFragments
  BY DEF IInv
<1>1. /\ pc[t] = "free" /\ b # -1 /\ b \in Int /\ k \in Levels /\ b \in Numbers(k)
      /\ <<k, b>> \notin held[t]
  BY <1>0 DEF DataInv, TypeOK, CallInv, FreeBlock
<1>2. l \in Levels /\ l \in Nat /\ l + 1 = k /\ k \in Nat /\ l # k
  <2>1. k > 0
    BY DEF AllPartnersFree
  <2> QED
    BY <1>1, <2>1, PoolAssumption DEF Levels
<1>3. b \in Nat /\ d \in Numbers(l) /\ d \in Nat /\ d # -1
  BY <1>1, <1>2, NumbersSplit
<1>4. /\ bits' = [bits EXCEPT ![k] = bits[k] \ Partners(b)]
      /\ list' = [list EXCEPT ![k] = q]
      /\ lev' = [lev EXCEPT ![t] = l] /\ hand' = [hand EXCEPT ![t] = d]
      /\ UNCHANGED <<pc, waiting, want, timeout, freeL, held, missed>>
  BY DEF FreeBlock
<1>5. Partners(b) \subseteq bits[k] \cup {b}
  BY DEF AllPartnersFree
<1>6. /\ Partners(b) \subseteq Nat /\ b \in Partners(b)
      /\ \A x : x \in Partners(b) <=> \E i \in 0..3 : x = 4 * d + i
  BY <1>3, PartnersAre DEF Partners
<1>7. q \in Seq(Numbers(k)) /\ IsInjective(q) /\ ToSet(q) = bits[k] \ Partners(b)
  BY <1>0, <1>1, <1>3, WithoutPartnersIs
<1> HIDE DEF q, b, k, l, d
<1>8. /\ bits' \in [Levels -> SUBSET Int] /\ \A m \in Levels : bits'[m] \subseteq Numbers(m)
      /\ list' \in [Levels -> Seq(Int)] /\ \A m \in Levels : list'[m] \in Seq(Numbers(m))
      /\ BitsMatchLists'
  <2>1. bits' = [bits EXCEPT ![k] = ToSet(q)]
    BY <1>4, <1>7
  <2> QED
    BY <1>0, <1>1, <1>4, <1>7, <2>1, LevelChanged
<1>9. /\ hand' \in [Threads -> Int] /\ hand'[t] = d
      /\ lev' \in [Threads -> Levels] /\ lev'[t] = l
      /\ \A u \in Threads \ {t} : hand'[u] = hand[u] /\ lev'[u] = lev[u]
  BY <1>0, <1>2, <1>3, <1>4 DEF DataInv, TypeOK
<1>10. DataInv'
  <2>1. \A u \in Threads : hand'[u] \in Numbers(lev'[u]) \cup {-1}
    BY <1>0, <1>3, <1>9 DEF DataInv, TypeOK
  <2>2. TypeOK'
    BY <1>0, <1>4, <1>8, <1>9, <2>1 DEF DataInv, TypeOK
  <2> QED
    BY <1>0, <1>4, <1>8, <1>9, <2>2 DEF DataInv
<1>11. /\ <<k, b, t>> \in Owned /\ b \notin bits[k]
       /\ \A u \in Threads : <<l, d, u>> \notin Owned
  <2>1. <<k, b, t>> \in Owned
    BY <1>1, OwnedIs DEF k, b
  <2>2. t # "free"
    BY PoolAssumption
  <2>3. <<k, b, "free">> \notin Owned
    BY <1>0, <1>1, <2>1, <2>2, OneOwner
  <2>4. b \notin bits[k]
    BY <1>1, <2>3, OwnedIs
  <2>5. ASSUME NEW u \in Threads, <<l, d, u>> \in Owned PROVE FALSE
    <3>1. PICK i \in 0..3 : b = 4 * d + i
      BY <1>6
    <3>2. d \in Int
      BY <1>3
    <3>3. \A j \in 0..3 : <<l + 1, 4 * d + j, t>> \notin Owned
      BY <1>0, <1>1, <1>2, <2>5, <3>2, OneOwner
    <3> QED
      BY <1>2, <2>1, <3>1, <3>3
  <2> QED
    BY <2>1, <2>4, <2>5
<1>12. CallInv'
  <2>1. <<l, d>> \notin held[t]
    <3>1. d \in Int /\ <<l, d, t>> \notin Owned
      BY <1>3, <1>11
    <3> QED
      BY <1>2, <3>1, OwnedIs
  <2> QED
    BY <1>0, <1>1, <1>3, <1>4, <1>9, <2>1 DEF CallInv
<1> DEFINE w == [i \in 0..3 |-> IF 4 * d + i = b THEN t ELSE "free"]
           Q == Quarter(l, d, w)
           O == (Owned \ Q) \cup {<<l, d, t>>}
<1>13. \A o : o \in Q <=> \E x \in Partners(b) : o = <<k, x, IF x = b THEN t ELSE "free">>
  <2>1. \A i \in 0..3 : w[i] = IF 4 * d + i = b THEN t ELSE "free"
    OBVIOUS
  <2> HIDE DEF w
  <2>2. \A o : o \in Q <=> \E i \in 0..3 : o = <<k, 4 * d + i, IF 4 * d + i = b THEN t ELSE "free">>
    BY <1>2, <2>1 DEF Quarter
  <2> HIDE DEF Q
  <2> QED
    BY <1>6, <2>2
<1> HIDE DEF Q
<1>14. /\ \A m \in Levels, c \in Int :
            <<m, c, "free">> \in Q <=> m = k /\ c \in Partners(b) /\ c # b
       /\ \A m \in Levels, c \in Int, u \in Threads :
            <<m, c, u>> \in Q <=> m = k /\ c = b /\ u = t
       /\ Q \subseteq Owned
  <2>1. "free" \notin Threads
    BY PoolAssumption
  <2>2. ASSUME NEW m \in Levels, NEW c \in Int
        PROVE  <<m, c, "free">> \in Q <=> m = k /\ c \in Partners(b) /\ c # b
    BY <1>13, <2>1
  <2>3. ASSUME NEW m \in Levels, NEW c \in Int, NEW u \in Threads
        PROVE  <<m, c, u>> \in Q <=> m = k /\ c = b /\ u = t
    BY <1>6, <1>13, <2>1
  <2>4. ASSUME NEW o \in Q PROVE o \in Owned
    <3>1. PICK x \in Partners(b) : o = <<k, x, IF x = b THEN t ELSE "free">>
      BY <1>13
    <3>2. x \in Int
      BY <1>6
    <3>3. CASE x = b
      BY <1>11, <3>1, <3>3
    <3>4. CASE x # b
      BY <1>1, <1>5, <3>1, <3>2, <3>4, OwnedIs
    <3> QED
      BY <3>3, <3>4
  <2> QED
    BY <2>2, <2>3, <2>4
<1>15. Owned' = O
  <2>1. O \in SUBSET (Levels \X Int \X (Threads \cup {"free"}))
    BY <1>2, <1>3, OwnedIs
  <2>2. ASSUME NEW m \in Levels, NEW c \in Int
        PROVE  <<m, c, "free">> \in Owned' <=> <<m, c, "free">> \in O
    <3>1. <<m, c, "free">> \in O <=>
            <<m, c, "free">> \in Owned /\ ~(m = k /\ c \in Partners(b) /\ c # b)
      BY <1>14, PoolAssumption
    <3>2. c \in bits'[m] <=> c \in bits[m] /\ ~(m = k /\ c \in Partners(b))
      BY <1>0, <1>1, <1>4 DEF DataInv, TypeOK
    <3>3. m = k /\ c = b => c \notin bits[m]
      BY <1>11
    <3> HIDE DEF O
    <3> QED
      BY <3>1, <3>2, <3>3, OwnedIs, OwnedNext
  <2>3. ASSUME NEW m \in Levels, NEW c \in Int, NEW u \in Threads
        PROVE  <<m, c, u>> \in Owned' <=> <<m, c, u>> \in O
    <3>1. <<m, c, u>> \in O <=>
            \/ <<m, c, u>> \in Owned /\ ~(m = k /\ c = b /\ u = t)
            \/ m = l /\ c = d /\ u = t
      BY <1>14
    <3>2. <<m, c, u>> \in Owned <=>
            <<m, c>> \in held[u] \/ (hand[u] # -1 /\ m = lev[u] /\ c = hand[u])
      BY OwnedIs
    <3>3. <<m, c, u>> \in Owned' <=>
            <<m, c>> \in held[u] \/ (hand'[u] # -1 /\ m = lev'[u] /\ c = hand'[u])
      BY <1>4, OwnedNext
    <3> HIDE DEF O
    <3>4. CASE u = t
      <4>1. lev[t] = k /\ hand[t] = b
        BY DEF k, b
      <4> QED
        BY <1>1, <1>3, <1>9, <3>1, <3>2, <3>3, <3>4, <4>1
    <3>5. CASE u # t
      BY <1>9, <3>1, <3>2, <3>3, <3>5
    <3> QED
      BY <3>4, <3>5
  <2>4. Owned' \in SUBSET (Levels \X Int \X (Threads \cup {"free"}))
    BY OwnedNext
  <2> HIDE DEF O
  <2> QED
    BY <2>1, <2>2, <2>3, <2>4, OwnedEqual
<1>16. TileInv'
  <2> DEFINE N == {<<l, d, t>>}
  <2>1. Apart(N) /\ Parts(Q) = Parts(N)
    <3>1. l + 1 \in Levels /\ d \in Int
      BY <1>1, <1>2, <1>3
    <3> HIDE DEF w
    <3> QED
      BY <1>2, <3>1, QuarterIs DEF Q
  <2>2. Q \in SUBSET Owned
    BY <1>14
  <2>3. O = (Owned \ Q) \cup N
    OBVIOUS
  <2> HIDE DEF N
  <2>4. Apart(O) /\ Covers(O)
    BY <1>0, <2>1, <2>2, <2>3, Replaced DEF TileInv
  <2> QED
    BY <1>15, <2>4 DEF TileInv, Apart, Covers, Parts, Part
<1>17. NoFragments'
  <2>1. \A m \in Levels : bits'[m] \subseteq bits[m]
    BY <1>0, <1>4 DEF DataInv, TypeOK
  <2> QED
    BY <1>0, <2>1 DEF NoFragments
<1> QED
  BY <1>10, <1>12, <1>16, <1>17

-----------------------------------------------------------------------------
(* The waiters *)

\* A step of t that fills no list leaves what the others have seen.
LEMMA OthersSeen ==
  ASSUME IInv, NEW t \in Threads, pc[t] # "wake",
         \A u \in Threads \ {t} :
           /\ pc'[u] = pc[u] /\ freeL'[u] = freeL[u] /\ lev'[u] = lev[u] /\ want'[u] = want[u]
           /\ u \in waiting' <=> u \in waiting
           /\ u \in missed => u \in missed',
         \A l \in Levels : list'[l] # << >> => list[l] # << >>
  PROVE  \A u \in Threads \ {t} : \A l \in Seen(u)' : list'[l] # << >> => Noticed(u)'
<1> SUFFICES ASSUME NEW u \in Threads \ {t}, NEW l \in Seen(u)', list'[l] # << >>
             PROVE  Noticed(u)'
  OBVIOUS
<1>1. Seen(u)' = Seen(u)
  BY DEF Seen
<1>2. l \in Levels
  <2>1. lev[u] \in Levels /\ want[u] \in Levels
    BY DEF IInv, DataInv, TypeOK
  <2>2. 0..(lev[u] - 1) \subseteq Levels /\ 0..want[u] \subseteq Levels
    BY <2>1, PoolAssumption DEF Levels
  <2> QED
    BY <1>1, <2>2 DEF Seen
<1>3. Noticed(u)
  BY <1>1, <1>2 DEF IInv, SeenInv
<1> QED
  BY <1>3 DEF Noticed

\* A list shrinks when a block is taken from it, and when partners are joined.
LEMMA ListsShrink ==
  ASSUME IInv, NEW t \in Threads,
         \/ Take(t) /\ list[lev[t]] # << >>
         \/ FreeBlock(t) /\ AllPartnersFree(lev[t], hand[t])
  PROVE  \A l \in Levels : list'[l] # << >> => list[l] # << >>
<1>0. lev[t] \in Levels /\ list \in [Levels -> Seq(Int)]
  BY DEF IInv, DataInv, TypeOK
<1>1. \A l \in Levels \ {lev[t]} : list'[l] = list[l]
  BY <1>0 DEF Take, FreeBlock
<1>2. list'[lev[t]] # << >> => list[lev[t]] # << >>
  <2>1. CASE Take(t) /\ list[lev[t]] # << >>
    BY <2>1
  <2>2. CASE FreeBlock(t) /\ AllPartnersFree(lev[t], hand[t])
    <3> DEFINE q == WithoutPartners(lev[t], hand[t])
    <3>1. hand[t] \in Nat
      <4>1. pc[t] = "free"
        BY <2>2 DEF FreeBlock
      <4>2. hand[t] # -1
        BY <4>1 DEF IInv, CallInv
      <4>3. hand[t] \in Numbers(lev[t]) \cup {-1}
        BY DEF IInv, DataInv, TypeOK
      <4>4. lev[t] \in Nat
        BY <1>0, PoolAssumption DEF Levels
      <4> QED
        BY <4>2, <4>3, <4>4, NumbersSplit
    <3>2. q \in Seq(Numbers(lev[t])) /\ ToSet(q) \subseteq bits[lev[t]]
      BY <1>0, <3>1, WithoutPartnersIs DEF IInv
    <3>3. bits[lev[t]] = ToSet(list[lev[t]])
      BY <1>0 DEF IInv, DataInv, BitsMatchLists
    <3>4. list'[lev[t]] = q
      BY <1>0, <2>2 DEF FreeBlock
    <3> HIDE DEF q
    <3>5. q # << >> => ToSet(q) # {}
      <4> DEFINE S == Numbers(lev[t])
      <4>1. q \in Seq(S)
        BY <3>2
      <4> HIDE DEF S
      <4>2. q # << >> => 1 \in DOMAIN q
        BY <4>1
      <4> QED
        BY <4>2 DEF ToSet
    <3>6. list[lev[t]] = << >> => ToSet(list[lev[t]]) = {}
      BY DEF ToSet
    <3> QED
      BY <3>2, <3>3, <3>4, <3>5, <3>6
  <2> QED
    BY <2>1, <2>2
<1> QED
  BY <1>1, <1>2

\* The walk over the levels, and what a thread and a freed block tell the
\* others.
LEMMA NextSeen ==
  ASSUME IInv, NEW t \in Threads,
         \/ \E l \in Levels, to \in {"nowait", "timed", "forever"} : Alloc(t, l, to)
         \/ Scan(t) \/ Take(t) \/ Break(t) \/ Pend(t) \/ Expire(t) \/ Retry(t)
         \/ \E b \in held[t] : Free(t, b)
         \/ FreeBlock(t) \/ Wake(t)
  PROVE  WalkInv' /\ SeenInv'
<1>0. /\ DataInv /\ CallInv /\ WalkInv /\ SeenInv
      /\ pc \in [Threads -> {"out", "scan", "take", "break", "pend", "wait", "free", "wake"}]
      /\ lev \in [Threads -> Levels] /\ freeL \in [Threads -> Levels \cup {-1}]
      /\ want \in [Threads -> Levels]
      /\ waiting \subseteq {u \in Threads : pc[u] = "wait"}
      /\ list \in [Levels -> Seq(Int)]
      /\ lev[t] \in Nat /\ want[t] \in Nat
  <2>1. lev[t] \in Levels /\ want[t] \in Levels
    BY DEF IInv, DataInv, TypeOK
  <2>2. lev[t] \in Nat /\ want[t] \in Nat
    BY <2>1, PoolAssumption DEF Levels
  <2> QED
    BY <2>2 DEF IInv, DataInv, TypeOK
<1> DEFINE Kept ==
      \A u \in Threads \ {t} :
        /\ pc'[u] = pc[u] /\ freeL'[u] = freeL[u] /\ lev'[u] = lev[u] /\ want'[u] = want[u]
        /\ u \in waiting' <=> u \in waiting
        /\ u \in missed => u \in missed'
    Own == /\ pc'[t] = "out" => lev'[t] = 0 /\ freeL'[t] = -1
           /\ pc'[t] = "scan" => lev'[t] <= want'[t]
<1>1. ASSUME pc[t] # "wake", Kept, Own, \A l \in Levels : list'[l] # << >> => list[l] # << >>,
             \A l \in Seen(t)' : list'[l] # << >> => Noticed(t)'
      PROVE  WalkInv' /\ SeenInv'
  <2>1. \A u \in Threads \ {t} : \A l \in Seen(u)' : list'[l] # << >> => Noticed(u)'
    BY <1>1, OthersSeen
  <2>2. SeenInv'
    BY <1>1, <2>1 DEF SeenInv
  <2>3. WalkInv'
    BY <1>0, <1>1 DEF WalkInv
  <2> QED
    BY <2>2, <2>3
<1>2. ASSUME NEW l \in Levels, NEW to \in {"nowait", "timed", "forever"}, Alloc(t, l, to)
      PROVE  WalkInv' /\ SeenInv'
  <2>1. pc[t] = "out" /\ Kept /\ list' = list
    BY <1>0, <1>2 DEF Alloc, poolVars
  <2>2. pc'[t] = "scan" /\ lev'[t] = 0 /\ want'[t] = l /\ freeL'[t] = -1
    BY <1>0, <1>2, <2>1 DEF Alloc, WalkInv
  <2>3. l >= 0
    BY PoolAssumption DEF Levels
  <2>4. Seen(t)' = {}
    BY <2>2 DEF Seen
  <2> QED
    BY <1>1, <2>1, <2>2, <2>3, <2>4
<1>3. ASSUME Scan(t) PROVE WalkInv' /\ SeenInv'
  <2>1. pc[t] = "scan" /\ Kept /\ list' = list /\ missed' = missed /\ waiting' = waiting
    BY <1>0, <1>3 DEF Scan, poolVars
  <2>2. lev[t] <= want[t] /\ t \notin waiting /\ want' = want
    BY <1>0, <1>3, <2>1 DEF WalkInv, Scan
  <2>3. freeL'[t] = IF list[lev[t]] # << >> THEN lev[t] ELSE freeL[t]
    BY <1>0, <1>3 DEF Scan
  <2>4. CASE lev[t] < want[t]
    <3>1. lev'[t] = lev[t] + 1 /\ pc'[t] = "scan"
      BY <1>0, <1>3, <2>1, <2>4 DEF Scan
    <3>2. Own
      BY <1>0, <2>2, <2>4, <3>1
    <3>3. ASSUME NEW l \in Seen(t)', list'[l] # << >> PROVE Noticed(t)'
      <4>1. freeL'[t] = -1 /\ l \in 0..(lev'[t] - 1)
        BY <2>1, <2>2, <3>1 DEF Seen
      <4>2. freeL[t] = -1 /\ list[lev[t]] = << >>
        BY <1>0, <2>3, <4>1
      <4>3. l \in 0..(lev[t] - 1)
        BY <1>0, <2>1, <3>1, <3>3, <4>1, <4>2
      <4>4. l \in Seen(t)
        BY <2>1, <4>2, <4>3 DEF Seen
      <4>5. Noticed(t)
        BY <1>0, <2>1, <3>3, <4>4 DEF SeenInv
      <4>6. \A u \in Threads : pc[u] = "wake" => pc'[u] = "wake"
        BY <2>1
      <4> QED
        BY <2>1, <4>5, <4>6 DEF Noticed
    <3> QED
      BY <1>1, <2>1, <3>2, <3>3
  <2>5. CASE ~(lev[t] < want[t])
    <3>1. /\ lev'[t] = IF freeL'[t] = -1 THEN 0 ELSE freeL'[t]
          /\ pc'[t] = IF freeL'[t] = -1 THEN "pend" ELSE "take"
      BY <1>0, <1>3, <2>1, <2>5 DEF Scan
    <3>2. lev[t] = want[t] /\ want'[t] = want[t]
      BY <1>0, <2>2, <2>5
    <3>3. ASSUME NEW l \in Seen(t)', list'[l] # << >> PROVE Noticed(t)'
      <4>1. pc'[t] = "pend" /\ freeL'[t] = -1 /\ l \in 0..want[t]
        BY <2>1, <2>2, <3>1, <3>2, <3>3 DEF Seen
      <4>2. freeL[t] = -1 /\ list[lev[t]] = << >>
        BY <1>0, <2>3, <4>1
      <4>3. l \in 0..(lev[t] - 1)
        BY <1>0, <2>1, <3>2, <3>3, <4>1, <4>2
      <4>4. l \in Seen(t)
        BY <2>1, <4>2, <4>3 DEF Seen
      <4>5. Noticed(t)
        BY <1>0, <2>1, <3>3, <4>4 DEF SeenInv
      <4>6. \A u \in Threads : pc[u] = "wake" => pc'[u] = "wake"
        BY <2>1
      <4> QED
        BY <2>1, <4>5, <4>6 DEF Noticed
    <3> QED
      BY <1>1, <2>1, <3>1, <3>3
  <2> QED
    BY <2>4, <2>5
<1>4. ASSUME Finish(t), pc[t] # "wake", list' = list,
             \A u \in Threads \ {t} : /\ u \in waiting' <=> u \in waiting
                                      /\ u \in missed => u \in missed',
             waiting' \subseteq waiting, pc[t] # "wait" \/ t \notin waiting
      PROVE  WalkInv' /\ SeenInv'
  <2>1. pc'[t] = "out" /\ lev'[t] = 0 /\ freeL'[t] = -1
        /\ \A u \in Threads \ {t} : /\ lev'[u] = lev[u]
                                    /\ pc'[u] = pc[u] /\ freeL'[u] = freeL[u]
                                    /\ want'[u] = want[u]
    BY <1>0, <1>4, FinishIs
  <2>2. t \notin waiting'
    BY <1>0, <1>4
  <2>3. Kept /\ Own
    BY <1>4, <2>1
  <2>4. Seen(t)' = {}
    BY <2>1, <2>2 DEF Seen
  <2> QED
    BY <1>1, <1>4, <2>3, <2>4
<1>5. ASSUME Take(t) PROVE WalkInv' /\ SeenInv'
  <2>1. CASE list[lev[t]] = << >>
    BY <1>4, <1>5, <2>1 DEF Take, poolVars
  <2>2. CASE list[lev[t]] # << >>
    <3>1. pc[t] = "take" /\ pc'[t] = "break" /\ Kept /\ waiting' = waiting
      BY <1>0, <1>5, <2>2 DEF Take
    <3>2. Seen(t)' = {}
      BY <1>0, <3>1 DEF Seen
    <3> QED
      BY <1>1, <1>5, <2>2, <3>1, <3>2, ListsShrink
  <2> QED
    BY <2>1, <2>2
<1>6. ASSUME Break(t) PROVE WalkInv' /\ SeenInv'
  <2>1. CASE ~(lev[t] < want[t])
    BY <1>4, <1>6, <2>1 DEF Break, poolVars
  <2>2. CASE lev[t] < want[t]
    <3>1. /\ UNCHANGED <<pc, want, freeL, waiting>> /\ pc[t] = "break"
          /\ \A u \in Threads \ {t} : lev'[u] = lev[u]
          /\ missed' = missed \cup {u \in Threads : pc[u] \in {"scan", "pend"} \/ u \in waiting}
      BY <1>0, <1>6, <2>2 DEF Break
    <3>2. WalkInv'
      BY <1>0, <3>1 DEF WalkInv
    <3>3. ASSUME NEW u \in Threads, NEW l \in Seen(u)' PROVE Noticed(u)'
      <4>1. pc[u] \in {"scan", "pend"} \/ u \in waiting
        BY <3>1, <3>3 DEF Seen
      <4> QED
        BY <3>1, <4>1 DEF Noticed
    <3> QED
      BY <3>2, <3>3 DEF SeenInv
  <2> QED
    BY <2>1, <2>2
<1>7. ASSUME Pend(t) PROVE WalkInv' /\ SeenInv'
  <2>1. pc[t] = "pend" /\ list' = list /\ t \notin waiting
    BY <1>0, <1>7 DEF Pend, poolVars
  <2>2. CASE timeout[t] = "nowait"
    BY <1>4, <1>7, <2>1, <2>2 DEF Pend
  <2>3. CASE timeout[t] # "nowait"
    <3>1. /\ pc'[t] = "wait" /\ waiting' = waiting \cup {t} /\ Kept
          /\ want' = want /\ missed' = missed
      BY <1>0, <1>7, <2>3 DEF Pend
    <3>2. ASSUME NEW l \in Seen(t)', list'[l] # << >> PROVE Noticed(t)'
      <4>1. l \in Seen(t)
        BY <2>1, <3>1, <3>2 DEF Seen
      <4>2. Noticed(t)
        BY <1>0, <2>1, <3>2, <4>1 DEF SeenInv
      <4>3. \A u \in Threads : pc[u] = "wake" => pc'[u] = "wake"
        BY <2>1, <3>1
      <4> QED
        BY <3>1, <4>2, <4>3 DEF Noticed
    <3> QED
      BY <1>1, <2>1, <3>1, <3>2
  <2> QED
    BY <2>2, <2>3
<1>8. ASSUME Expire(t) PROVE WalkInv' /\ SeenInv'
  <2>1. pc[t] = "wait" /\ pc'[t] = "wait" /\ Kept /\ list' = list /\ t \notin waiting'
    BY <1>0, <1>8 DEF Expire, poolVars
  <2>2. Seen(t)' = {}
    BY <2>1 DEF Seen
  <2> QED
    BY <1>1, <2>1, <2>2
<1>9. ASSUME Retry(t) PROVE WalkInv' /\ SeenInv'
  <2>1. pc[t] = "wait" /\ list' = list /\ t \notin waiting
        /\ waiting' = waiting /\ missed' = missed
    BY <1>9 DEF Retry, poolVars
  <2>2. CASE Finish(t)
    BY <1>4, <2>1, <2>2
  <2>3. CASE ~Finish(t)
    <3>1. /\ pc' = [pc EXCEPT ![t] = "scan"] /\ lev' = [lev EXCEPT ![t] = 0]
          /\ freeL' = [freeL EXCEPT ![t] = -1] /\ want' = want
      BY <1>9, <2>3 DEF Retry
    <3>2. Kept /\ pc'[t] = "scan" /\ lev'[t] = 0 /\ freeL'[t] = -1
      BY <1>0, <2>1, <3>1
    <3>3. Own
      BY <1>0, <3>1, <3>2
    <3>4. Seen(t)' = {}
      BY <3>2 DEF Seen
    <3> QED
      BY <1>1, <2>1, <3>2, <3>3, <3>4
  <2> QED
    BY <2>2, <2>3
<1>10. ASSUME NEW b \in held[t], Free(t, b) PROVE WalkInv' /\ SeenInv'
  <2>1. pc[t] = "out" /\ pc'[t] = "free" /\ Kept /\ list' = list /\ waiting' = waiting
    BY <1>0, <1>10 DEF Free, poolVars
  <2>2. Seen(t)' = {}
    BY <1>0, <2>1 DEF Seen
  <2> QED
    BY <1>1, <2>1, <2>2
<1>11. ASSUME FreeBlock(t) PROVE WalkInv' /\ SeenInv'
  <2>1. CASE AllPartnersFree(lev[t], hand[t])
    <3>1. pc[t] = "free" /\ pc'[t] = "free" /\ Kept /\ waiting' = waiting
      BY <1>0, <1>11, <2>1 DEF FreeBlock
    <3>2. Seen(t)' = {}
      BY <1>0, <3>1 DEF Seen
    <3> QED
      BY <1>1, <1>11, <2>1, <3>1, <3>2, ListsShrink
  <2>2. CASE ~AllPartnersFree(lev[t], hand[t])
    <3>1. pc'[t] = "wake" /\ Kept
      BY <1>0, <1>11, <2>2 DEF FreeBlock
    <3>2. \A u \in Threads : Noticed(u)'
      BY <3>1 DEF Noticed
    <3>3. WalkInv'
      BY <1>0, <3>1 DEF WalkInv
    <3> QED
      BY <3>2, <3>3 DEF SeenInv
  <2> QED
    BY <2>1, <2>2
<1>12. ASSUME Wake(t) PROVE WalkInv' /\ SeenInv'
  <2>1. pc'[t] = "out" /\ lev'[t] = 0 /\ freeL'[t] = -1
        /\ \A u \in Threads \ {t} : /\ lev'[u] = lev[u]
                                    /\ pc'[u] = pc[u] /\ freeL'[u] = freeL[u]
                                    /\ want'[u] = want[u]
    BY <1>0, <1>12, FinishIs DEF Wake
  <2>2. /\ waiting' = {}
        /\ missed' = (missed \ waiting) \cup {u \in Threads : pc[u] \in {"scan", "pend"}}
    BY <1>12 DEF Wake
  <2>3. WalkInv'
    BY <1>0, <2>1 DEF WalkInv
  <2>4. ASSUME NEW u \in Threads, NEW l \in Seen(u)' PROVE Noticed(u)'
    <3>1. pc'[u] \in {"scan", "pend"}
      BY <2>2, <2>4 DEF Seen
    <3>2. u # t
      BY <2>1, <3>1
    <3>3. pc[u] \in {"scan", "pend"}
      BY <2>1, <3>1, <3>2
    <3> QED
      BY <2>2, <3>3 DEF Noticed
  <2> QED
    BY <2>3, <2>4 DEF SeenInv
<1> QED
  BY <1>2, <1>3, <1>5, <1>6, <1>7, <1>8, <1>9, <1>10, <1>11, <1>12

-----------------------------------------------------------------------------
(* The theorems *)

\* Every step preserves the invariant.
LEMMA NextInv == IInv /\ [Next]_vars => IInv'
<1> SUFFICES ASSUME IInv, [Next]_vars PROVE IInv'
  OBVIOUS
<1>1. CASE UNCHANGED vars
  <2>1. /\ bits' = bits /\ list' = list /\ held' = held /\ hand' = hand /\ lev' = lev
        /\ UNCHANGED <<waiting, pc, want, timeout, freeL, missed>>
    BY <1>1 DEF vars, poolVars
  <2>2. Owned' = Owned
    BY <2>1 DEF Owned
  <2>3. TileInv'
    BY <2>2, OwnedKept DEF IInv
  <2>4. DataInv' /\ CallInv' /\ NoFragments'
    BY <2>1 DEF IInv, DataInv, TypeOK, BitsMatchLists, CallInv, NoFragments
  <2>5. WalkInv' /\ SeenInv'
    BY <2>1 DEF IInv, WalkInv, SeenInv, Seen, Noticed
  <2> QED
    BY <2>3, <2>4, <2>5 DEF IInv
<1>2. CASE Next
  <2>1. PICK t \in Threads :
          \/ \E l \in Levels, to \in {"nowait", "timed", "forever"} : Alloc(t, l, to)
          \/ Scan(t) \/ Take(t) \/ Break(t) \/ Pend(t) \/ Expire(t) \/ Retry(t)
          \/ \E b \in held[t] : Free(t, b)
          \/ FreeBlock(t) \/ Wake(t)
    BY <1>2 DEF Next
  <2>2. WalkInv' /\ SeenInv'
    BY <2>1, NextSeen
  <2>3. DataInv' /\ CallInv' /\ TileInv' /\ NoFragments'
    BY <2>1, CallStepInv, TakeInv, BreakInv, ReturnInv, FreeInv, FreeEndInv, JoinInv
  <2> QED
    BY <2>2, <2>3 DEF IInv
<1> QED
  BY <1>1, <1>2

\* The invariant holds in every reachable state.
LEMMA SpecInv == Spec => []IInv
BY InitInv, NextInv, PTL DEF Spec

\* alloc_block(), break_block() and free_block() lose no memory and give none
\* twice, wherever the threads that run them stand.
THEOREM PoolMemoryConserved == Spec => []MemoryConserved
<1>1. IInv => MemoryConserved
  BY ConservedIs DEF IInv
<1> QED
  BY <1>1, SpecInv, PTL

\* free_block() joins four free partners whenever the last of them comes free.
THEOREM PoolNoFragments == Spec => []NoFragments
<1>1. IInv => NoFragments
  BY DEF IInv
<1> QED
  BY <1>1, SpecInv, PTL

\* k_mem_pool_free() wakes every waiter, except those that had failed and not
\* yet begun to wait; and break_block() wakes nobody.
THEOREM PoolWaitersOverlooked == Spec => []WaitersOverlooked
<1>1. ASSUME IInv PROVE WaitersOverlooked
  <2> SUFFICES ASSUME NEW t \in waiting, NEW l \in 0..want[t], list[l] # << >>
               PROVE  Noticed(t)
    BY DEF WaitersOverlooked, Noticed
  <2>1. t \in Threads /\ pc[t] = "wait"
    BY <1>1 DEF IInv, DataInv, TypeOK
  <2>2. l \in Seen(t)
    BY <2>1 DEF Seen
  <2> QED
    BY <1>1, <2>1, <2>2 DEF IInv, SeenInv
<1> QED
  BY <1>1, SpecInv, PTL

=============================================================================

---------------------------- MODULE KNvramProofs ----------------------------
(***************************************************************************)
(* The NVRAM driver for every set of names and values, every number and    *)
(* size of segments and any number of power losses: region_info matches    *)
(* the flash, an item is never written past its segment, and what was set  *)
(* survives, but for the names caught in the windows of Exposes.           *)
(***************************************************************************)
EXTENDS KNvram, DataLemmas, FiniteSetTheorems

(* One segment, as a sequence w of items *)

\* An item that the walk of region_seg_scan() does not pass.
Bad(it) == it.st \in {"torn", "nodata"}

\* The complete items among the first k, and their names.
Live(w, k) == {i \in 1..k : w[i].st = "valid"}
NamesIn(w, k) == {w[i].name : i \in Live(w, k)}

\* All but c of the complete items have names of their own.
Few(w, k, c) == Cardinality(Live(w, k)) <= Cardinality(NamesIn(w, k)) + c

\* No complete item comes after a bad one, and what lies beyond the end of the
\* segment is not an item.
Sound(w) ==
  /\ w \in Seq(Item)
  /\ \A i, j \in 1..Len(w) : i < j /\ Bad(w[i]) => w[j].st # "valid"
  /\ \A i \in 1..Len(w) : i > Slots => w[i] = Torn

\* The constants, in the form the proofs use them.
LEMMA Constants ==
  /\ Segs \in Nat /\ Segs >= 2 /\ SeqRange \in Nat /\ SeqRange >= 2 * Segs
  /\ SeqRange % 2 = 0
  /\ MaxCrash \in Nat /\ Slots \in Nat /\ Cardinality(Names) \in Nat
  /\ Slots > Cardinality(Names) + MaxCrash /\ Slots >= 1
  /\ IsFiniteSet(Names) /\ None \notin Vals /\ None \notin Seg
  /\ 0 \in Seg /\ Seg \subseteq Nat /\ \A s \in Seg : s < Segs
<1>1. /\ Segs \in Nat /\ Segs >= 2 /\ SeqRange \in Nat /\ SeqRange >= 2 * Segs /\ SeqRange % 2 = 0
      /\ MaxCrash \in Nat /\ Slots \in Nat /\ IsFiniteSet(Names)
      /\ None \notin Vals /\ None \notin 0..(Segs - 1)
      /\ Slots > Cardinality(Names) + MaxCrash
  BY NvramAssumption
<1>2. Cardinality(Names) \in Nat
  BY <1>1, FS_CardinalityType
<1> QED
  BY <1>1, <1>2 DEF Seg

\* The kinds of items.
LEMMA ItemKinds ==
  /\ \A it \in Item :
       /\ it.st \in {"valid", "nodata", "obsolete", "torn"}
       /\ it.st = "valid" => it.name \in Names /\ it.val \in Vals /\ it = Valid(it.name, it.val)
       /\ it.st = "nodata" => it.name \in Names /\ it = NoData(it.name)
       /\ it.st = "obsolete" <=> it = Obsolete
       /\ it.st = "torn" <=> it = Torn
       /\ ~Bad(it) <=> it.st \in {"valid", "obsolete"}
  /\ Obsolete \in Item /\ Obsolete.st = "obsolete" /\ Torn \in Item /\ Torn.st = "torn"
  /\ \A n \in Names : NoData(n) \in Item /\ NoData(n).st = "nodata" /\ NoData(n).name = n
  /\ \A n \in Names, v \in Vals :
       /\ Valid(n, v) \in Item /\ Valid(n, v).st = "valid"
       /\ Valid(n, v).name = n /\ Valid(n, v).val = v
<1>1. \A n \in Names : /\ NoData(n) \in Item /\ NoData(n).st = "nodata" /\ NoData(n).name = n
                       /\ NoData(n) # Obsolete /\ NoData(n) # Torn
  BY DEF Item, NoData, Obsolete, Torn
<1>2. \A n \in Names, v \in Vals :
        /\ Valid(n, v) \in Item /\ Valid(n, v).st = "valid"
        /\ Valid(n, v).name = n /\ Valid(n, v).val = v
        /\ Valid(n, v) # Obsolete /\ Valid(n, v) # Torn
  BY DEF Item, Valid, Obsolete, Torn
<1>3. Obsolete \in Item /\ Obsolete.st = "obsolete" /\ Torn \in Item /\ Torn.st = "torn"
  BY DEF Item, Obsolete, Torn
<1>4. \A it \in Item : \/ \E n \in Names, v \in Vals : it = Valid(n, v)
                       \/ \E n \in Names : it = NoData(n)
                       \/ it = Obsolete \/ it = Torn
  BY DEF Item, Valid
<1>5. ASSUME NEW it \in Item
      PROVE  /\ it.st \in {"valid", "nodata", "obsolete", "torn"}
             /\ it.st = "valid" => it.name \in Names /\ it.val \in Vals /\ it = Valid(it.name, it.val)
             /\ it.st = "nodata" => it.name \in Names /\ it = NoData(it.name)
             /\ it.st = "obsolete" <=> it = Obsolete
             /\ it.st = "torn" <=> it = Torn
             /\ ~Bad(it) <=> it.st \in {"valid", "obsolete"}
  BY <1>1, <1>2, <1>3, <1>4 DEF Bad
<1> QED
  BY <1>1, <1>2, <1>3, <1>5

\* The complete items of a segment are finitely many.
LEMMA LiveFinite ==
  ASSUME NEW w \in Seq(Item), NEW k \in 0..Len(w)
  PROVE  /\ Live(w, k) \subseteq 1..k /\ IsFiniteSet(Live(w, k))
         /\ Cardinality(Live(w, k)) \in Nat
         /\ NamesIn(w, k) \subseteq Names /\ IsFiniteSet(NamesIn(w, k))
         /\ Cardinality(NamesIn(w, k)) \in Nat
         /\ Cardinality(NamesIn(w, k)) <= Cardinality(Names)
<1>1. Len(w) \in Nat /\ k \in Nat /\ \A i \in 1..k : w[i] \in Item
  OBVIOUS
<1>2. Live(w, k) \in SUBSET (1..k)
  BY DEF Live
<1>3. IsFiniteSet(1..k)
  BY <1>1, FS_Interval
<1>4. IsFiniteSet(Live(w, k))
  BY <1>2, <1>3, FS_Subset
<1>5. NamesIn(w, k) \in SUBSET Names
  BY <1>1, ItemKinds DEF NamesIn, Live
<1>6. IsFiniteSet(NamesIn(w, k)) /\ Cardinality(NamesIn(w, k)) <= Cardinality(Names)
  BY <1>5, Constants, FS_Subset
<1> QED
  BY <1>2, <1>4, <1>5, <1>6, FS_CardinalityType

\* An item marked obsolete.
LEMMA LiveObsolete ==
  ASSUME NEW w \in Seq(Item), NEW i \in 1..Len(w)
  PROVE  LET u == [w EXCEPT ![i] = Obsolete]
         IN  /\ u \in Seq(Item) /\ Len(u) = Len(w) /\ u[i] = Obsolete
             /\ \A j \in 1..Len(w) : j # i => u[j] = w[j]
             /\ \A k \in 0..Len(w) :
                  /\ Live(u, k) = Live(w, k) \ {i}
                  /\ NamesIn(u, k) \subseteq NamesIn(w, k)
                  /\ \A n \in NamesIn(w, k) : n # w[i].name => n \in NamesIn(u, k)
<1> DEFINE u == [w EXCEPT ![i] = Obsolete]
<1>1. /\ u \in Seq(Item) /\ Len(u) = Len(w) /\ u[i] = Obsolete /\ Len(w) \in Nat
      /\ \A j \in 1..Len(w) : j # i => u[j] = w[j]
  BY ItemKinds
<1> HIDE DEF u
<1>2. ASSUME NEW k \in 0..Len(w)
      PROVE  /\ Live(u, k) = Live(w, k) \ {i}
             /\ NamesIn(u, k) \subseteq NamesIn(w, k)
             /\ \A n \in NamesIn(w, k) : n # w[i].name => n \in NamesIn(u, k)
  <2>1. \A j \in 1..k : j \in 1..Len(w)
    BY <1>1
  <2>2. Live(u, k) = Live(w, k) \ {i}
    BY <1>1, <2>1, ItemKinds DEF Live
  <2>3. \A j \in Live(u, k) : j \in Live(w, k) /\ u[j].name = w[j].name
    BY <1>1, <2>1, <2>2 DEF Live
  <2>4. ASSUME NEW j \in Live(w, k), w[j].name # w[i].name
        PROVE  j \in Live(u, k) /\ u[j].name = w[j].name
    BY <2>2, <2>3, <2>4
  <2> QED
    BY <2>2, <2>3, <2>4 DEF NamesIn
<1> QED
  BY <1>1, <1>2 DEF u

\* Marking an item obsolete takes one from the items and at most one from the
\* names: none, if another item has the name.
LEMMA FewObsolete ==
  ASSUME NEW w \in Seq(Item), NEW i \in 1..Len(w), NEW k \in 0..Len(w), NEW c \in Nat
  PROVE  LET u == [w EXCEPT ![i] = Obsolete]
         IN  /\ Few(w, k, c) => Few(u, k, c)
             /\ i \in Live(w, k) /\ w[i].name \in NamesIn(u, k) /\ Few(w, k, c + 1) => Few(u, k, c)
<1> DEFINE u == [w EXCEPT ![i] = Obsolete]
           n == w[i].name
<1>1. /\ u \in Seq(Item) /\ Len(u) = Len(w)
      /\ Live(u, k) = Live(w, k) \ {i}
      /\ NamesIn(u, k) \subseteq NamesIn(w, k)
      /\ \A m \in NamesIn(w, k) : m # n => m \in NamesIn(u, k)
  BY LiveObsolete
<1> HIDE DEF u
<1>2. /\ IsFiniteSet(Live(w, k)) /\ Cardinality(Live(w, k)) \in Nat
      /\ IsFiniteSet(NamesIn(w, k)) /\ Cardinality(NamesIn(w, k)) \in Nat
  BY LiveFinite
<1>3. /\ IsFiniteSet(Live(u, k)) /\ Cardinality(Live(u, k)) \in Nat
      /\ IsFiniteSet(NamesIn(u, k)) /\ Cardinality(NamesIn(u, k)) \in Nat
  BY <1>1, LiveFinite
<1>4. Cardinality(Live(u, k)) = IF i \in Live(w, k) THEN Cardinality(Live(w, k)) - 1
                                                    ELSE Cardinality(Live(w, k))
  BY <1>1, <1>2, FS_RemoveElement
<1>5. CASE i \notin Live(w, k)
  <2>1. \A j \in Live(w, k) : j \in Live(u, k) /\ j # i
    BY <1>1, <1>5
  <2>2. NamesIn(w, k) \subseteq NamesIn(u, k)
    <3>1. \A j \in 1..Len(w) : j # i => u[j] = w[j]
      BY LiveObsolete DEF u
    <3>2. \A j \in Live(w, k) : j \in 1..Len(w)
      BY DEF Live
    <3>3. ASSUME NEW j \in Live(w, k) PROVE w[j].name \in NamesIn(u, k)
      <4>1. j \in Live(u, k) /\ u[j].name = w[j].name
        BY <2>1, <3>1, <3>2
      <4> QED
        BY <4>1 DEF NamesIn
    <3>4. ASSUME NEW x \in NamesIn(w, k) PROVE x \in NamesIn(u, k)
      <4>1. PICK j \in Live(w, k) : x = w[j].name
        BY DEF NamesIn
      <4> QED
        BY <3>3, <4>1
    <3> QED
      BY <3>4
  <2>3. NamesIn(w, k) = NamesIn(u, k)
    BY <1>1, <2>2
  <2> QED
    BY <1>4, <1>5, <2>3 DEF Few, u
<1>6. CASE i \in Live(w, k) /\ n \in NamesIn(u, k)
  <2>1. NamesIn(w, k) = NamesIn(u, k)
    BY <1>1, <1>6
  <2>2. Cardinality(Live(u, k)) = Cardinality(Live(w, k)) - 1
    BY <1>4, <1>6
  <2>3. /\ Few(w, k, c) => Few(u, k, c)
        /\ Few(w, k, c + 1) => Few(u, k, c)
    BY <1>2, <1>3, <2>1, <2>2 DEF Few
  <2> QED
    BY <2>3 DEF u
<1>7. CASE i \in Live(w, k) /\ n \notin NamesIn(u, k)
  <2>1. NamesIn(u, k) = NamesIn(w, k) \ {n}
    BY <1>1, <1>7
  <2>2. n \in NamesIn(w, k)
    BY <1>7 DEF NamesIn
  <2>3. Cardinality(NamesIn(w, k) \ {n}) = Cardinality(NamesIn(w, k)) - 1
    <3> HIDE DEF n
    <3> QED
      BY <1>2, <2>2, FS_RemoveElement
  <2>4. Cardinality(Live(u, k)) = Cardinality(Live(w, k)) - 1
    BY <1>4, <1>7
  <2>5. Few(w, k, c) => Few(u, k, c)
    BY <1>2, <1>3, <2>1, <2>3, <2>4 DEF Few
  <2> QED
    BY <1>7, <2>5 DEF u
<1> QED
  BY <1>5, <1>6, <1>7

\* Two segments with the same first k items.
LEMMA LiveSame ==
  ASSUME NEW u, NEW w, NEW k \in Nat, \A i \in 1..k : u[i] = w[i]
  PROVE  /\ Live(u, k) = Live(w, k) /\ NamesIn(u, k) = NamesIn(w, k)
         /\ \A c : Few(u, k, c) <=> Few(w, k, c)
<1>1. Live(u, k) = Live(w, k)
  BY DEF Live
<1>2. \A i \in Live(w, k) : u[i].name = w[i].name
  BY DEF Live
<1>3. NamesIn(u, k) = NamesIn(w, k)
  BY <1>1, <1>2 DEF NamesIn
<1> QED
  BY <1>1, <1>3 DEF Few

\* One item more.
LEMMA LiveExtend ==
  ASSUME NEW u \in Seq(Item), NEW m \in Nat, m + 1 <= Len(u)
  PROVE  /\ u[m + 1].st = "valid" =>
              /\ Live(u, m + 1) = Live(u, m) \cup {m + 1}
              /\ NamesIn(u, m + 1) = NamesIn(u, m) \cup {u[m + 1].name}
         /\ u[m + 1].st # "valid" =>
              Live(u, m + 1) = Live(u, m) /\ NamesIn(u, m + 1) = NamesIn(u, m)
         /\ m + 1 \notin Live(u, m)
<1>1. 1..(m + 1) = (1..m) \cup {m + 1} /\ m + 1 \notin 1..m
  OBVIOUS
<1>2. Live(u, m + 1) = IF u[m + 1].st = "valid" THEN Live(u, m) \cup {m + 1} ELSE Live(u, m)
  BY <1>1 DEF Live
<1>3. NamesIn(u, m + 1) = IF u[m + 1].st = "valid" THEN NamesIn(u, m) \cup {u[m + 1].name} ELSE NamesIn(u, m)
  BY <1>2 DEF NamesIn
<1>4. m + 1 \notin Live(u, m)
  BY <1>1 DEF Live
<1> QED
  BY <1>2, <1>3, <1>4

\* The same, for the k-th item.
LEMMA LiveStep ==
  ASSUME NEW u \in Seq(Item), NEW k \in 1..Len(u)
  PROVE  /\ u[k].st = "valid" => Live(u, k) = Live(u, k - 1) \cup {k}
         /\ u[k].st # "valid" => Live(u, k) = Live(u, k - 1)
         /\ k \notin Live(u, k - 1)
<1>1. PICK m \in Nat : k = m + 1 /\ k - 1 = m /\ m + 1 <= Len(u)
  <2>1. k - 1 \in Nat /\ k = (k - 1) + 1 /\ k <= Len(u)
    OBVIOUS
  <2> QED
    BY <2>1
<1> QED
  BY <1>1, LiveExtend

\* A complete item more: one more item, and one more name if it is new.
LEMMA FewExtend ==
  ASSUME NEW u \in Seq(Item), NEW m \in Nat, m + 1 <= Len(u), NEW c \in Nat, Few(u, m, c)
  PROVE  /\ Few(u, m + 1, c + 1)
         /\ u[m + 1].st # "valid" \/ u[m + 1].name \notin NamesIn(u, m) => Few(u, m + 1, c)
<1> DEFINE n == u[m + 1].name
<1>1. m \in 0..Len(u) /\ m + 1 \in 0..Len(u)
  OBVIOUS
<1>2. /\ IsFiniteSet(Live(u, m)) /\ Cardinality(Live(u, m)) \in Nat
      /\ IsFiniteSet(NamesIn(u, m)) /\ Cardinality(NamesIn(u, m)) \in Nat
  BY <1>1, LiveFinite
<1>3. CASE u[m + 1].st = "valid"
  <2>1. Live(u, m + 1) = Live(u, m) \cup {m + 1} /\ NamesIn(u, m + 1) = NamesIn(u, m) \cup {n}
    BY <1>3, LiveExtend
  <2>2. m + 1 \notin Live(u, m)
    BY LiveExtend
  <2> HIDE DEF n
  <2>3. Cardinality(Live(u, m + 1)) = Cardinality(Live(u, m)) + 1
    BY <1>2, <2>1, <2>2, FS_AddElement
  <2>4. Cardinality(NamesIn(u, m + 1)) = IF n \in NamesIn(u, m) THEN Cardinality(NamesIn(u, m))
                                                                  ELSE Cardinality(NamesIn(u, m)) + 1
    BY <1>2, <2>1, FS_AddElement
  <2>5. Few(u, m + 1, c + 1) /\ (n \notin NamesIn(u, m) => Few(u, m + 1, c))
    BY <1>2, <2>3, <2>4 DEF Few
  <2> QED
    BY <1>3, <2>5 DEF n
<1>4. CASE u[m + 1].st # "valid"
  <2>1. Live(u, m + 1) = Live(u, m) /\ NamesIn(u, m + 1) = NamesIn(u, m)
    BY <1>4, LiveExtend
  <2> QED
    BY <1>2, <2>1 DEF Few
<1> QED
  BY <1>3, <1>4

\* An item that is not complete, at the end of a segment or in the bytes that
\* run over its end.
LEMMA AppendBad ==
  ASSUME NEW w, Sound(w), NEW it \in Item, Bad(it), Len(w) < Slots \/ it = Torn,
         NEW c \in Nat, \A k \in 0..Len(w) : Few(w, k, c)
  PROVE  LET u == Append(w, it)
         IN  /\ Sound(u) /\ Len(u) = Len(w) + 1
             /\ \A k \in 0..Len(u) : Few(u, k, c)
             /\ Live(u, Len(u)) = Live(w, Len(w)) /\ Live(u, Len(w)) = Live(w, Len(w))
             /\ u[Len(w) + 1] = it /\ \A i \in 1..Len(w) : u[i] = w[i]
<1> DEFINE u == Append(w, it)
           m == Len(w)
<1>1. /\ w \in Seq(Item) /\ it.st # "valid" /\ m \in Nat
      /\ u \in Seq(Item) /\ Len(u) = m + 1 /\ u[m + 1] = it /\ \A i \in 1..m : u[i] = w[i]
  BY DEF Sound, Bad
<1> HIDE DEF u, m
<1>2. Sound(u)
  <2>1. ASSUME NEW i \in 1..Len(u), NEW j \in 1..Len(u), i < j, Bad(u[i])
        PROVE  u[j].st # "valid"
    <3>1. i \in 1..m /\ (j \in 1..m \/ j = m + 1)
      BY <1>1, <2>1
    <3> QED
      BY <1>1, <2>1, <3>1 DEF Sound, m
  <2>2. ASSUME NEW i \in 1..Len(u), i > Slots PROVE u[i] = Torn
    <3>1. i \in 1..m \/ i = m + 1
      BY <1>1
    <3> QED
      BY <1>1, <2>2, <3>1, Constants DEF Sound, m
  <2> QED
    BY <1>1, <2>1, <2>2 DEF Sound
<1>3. ASSUME NEW k \in 0..m PROVE Live(u, k) = Live(w, k) /\ Few(u, k, c)
  <2>1. k \in Nat /\ \A i \in 1..k : u[i] = w[i]
    BY <1>1
  <2>2. Few(w, k, c)
    BY DEF m
  <2> QED
    BY <2>1, <2>2, LiveSame
<1>4. m \in 0..m
  BY <1>1
<1>5. Few(u, m + 1, c) /\ Live(u, m + 1) = Live(u, m)
  <2>1. m + 1 <= Len(u) /\ u[m + 1].st # "valid" /\ Few(u, m, c)
    BY <1>1, <1>3, <1>4
  <2>2. Few(u, m + 1, c)
    BY <1>1, <2>1, FewExtend
  <2> QED
    BY <1>1, <2>1, <2>2, LiveExtend
<1>6. \A k \in 0..Len(u) : k \in 0..m \/ k = m + 1
  BY <1>1
<1>7. \A k \in 0..Len(u) : Few(u, k, c)
  BY <1>3, <1>5, <1>6
<1>8. Live(u, Len(u)) = Live(w, m) /\ Live(u, m) = Live(w, m)
  BY <1>1, <1>3, <1>4, <1>5
<1> QED
  BY <1>1, <1>2, <1>7, <1>8 DEF u, m

\* The sequences a segment is made anew with.
LEMMA SmallSegs ==
  ASSUME NEW c \in Nat
  PROVE  /\ Sound(<< >>) /\ Len(<< >>) = 0 /\ Live(<< >>, 0) = {} /\ Few(<< >>, 0, c)
         /\ Sound(<<Torn>>) /\ Len(<<Torn>>) = 1 /\ Live(<<Torn>>, 1) = {}
         /\ \A k \in 0..1 : Few(<<Torn>>, k, c)
<1>1. Len(<< >>) = 0 /\ << >> \in Seq(Item) /\ Sound(<< >>)
  BY DEF Sound
<1>2. Live(<< >>, 0) = {} /\ NamesIn(<< >>, 0) = {}
  BY DEF Live, NamesIn
<1> DEFINE w == <<Torn>>
<1>3. w \in Seq(Item) /\ Len(w) = 1 /\ w[1] = Torn /\ Torn.st # "valid"
  BY ItemKinds
<1> HIDE DEF w
<1>4. \A k \in 0..1 : Live(w, k) = {}
  BY <1>3 DEF Live
<1>5. \A k \in 0..1 : NamesIn(w, k) = {}
  BY <1>4 DEF NamesIn
<1>6. Sound(w)
  <2>1. \A i \in 1..Len(w) : i = 1
    BY <1>3
  <2>2. \A i, j \in 1..Len(w) : ~(i < j)
    BY <2>1
  <2> QED
    BY <1>3, <2>1, <2>2 DEF Sound
<1>7. Cardinality({}) = 0
  BY FS_EmptySet
<1>8. Few(<< >>, 0, c) /\ \A k \in 0..1 : Few(w, k, c)
  <2>1. 0 <= 0 + c
    OBVIOUS
  <2>2. Few(<< >>, 0, c)
    BY <1>2, <1>7, <2>1, Zenon DEF Few
  <2>3. ASSUME NEW k \in 0..1 PROVE Few(w, k, c)
    BY <1>4, <1>5, <1>7, <2>1, <2>3, Zenon DEF Few
  <2> QED
    BY <2>2, <2>3
<1>9. Live(w, 1) = {} /\ Len(w) = 1
  BY <1>3, <1>4
<1> QED
  BY <1>1, <1>2, <1>6, <1>8, <1>9 DEF w

-----------------------------------------------------------------------------
(* The sequence numbers                                                    *)

\* How many turns of the ring of segments t lies behind c, and the sequence
\* number d steps before a.
Behind(t, c) == IF t <= c THEN c - t ELSE c - t + Segs
Minus(a, d) == IF d <= a THEN a - d ELSE a - d + SeqRange

\* The sequence numbers of the valid segments fall along the ring, from a in c.
Ring(c, a) == \A t \in ValidSegs : hdr[t].seq = Minus(a, Behind(t, c))

\* A remainder, as a case distinction.
LEMMA Remainder ==
  ASSUME NEW m \in Nat, m > 0, NEW x \in (-m)..(2 * m - 1)
  PROVE  x % m = IF x < 0 THEN x + m ELSE IF x < m THEN x ELSE x - m
OBVIOUS

\* The ring of segments.
LEMMA RingOfSegs ==
  ASSUME NEW c \in Seg
  PROVE  /\ Succ(c) \in Seg /\ Succ(c) # c
         /\ Succ(c) = IF c = Segs - 1 THEN 0 ELSE c + 1
         /\ \A t \in Seg : Behind(t, c) \in 0..(Segs - 1)
         /\ \A t \in Seg : t # Succ(c) => Behind(t, Succ(c)) = Behind(t, c) + 1
         /\ \A t \in Seg : Behind(t, t) = 0
         /\ \A s, t \in Seg : Behind(s, c) = Behind(t, c) => s = t
         /\ \A t \in Seg : t # c => Behind(t, c) # 0
         /\ \A p \in 0..(Segs - 2) : (c + 1 + p) % Segs \in Seg /\ (c + 1 + p) % Segs # c
<1>1. Segs \in Nat /\ Segs >= 2 /\ c \in Nat /\ c < Segs /\ \A t \in Seg : t \in Nat /\ t < Segs
  BY Constants
<1>2. \A t : t \in Seg <=> t \in Nat /\ t < Segs
  BY <1>1 DEF Seg
<1>3. Succ(c) = IF c = Segs - 1 THEN 0 ELSE c + 1
  <2>1. c + 1 \in (-Segs)..(2 * Segs - 1) /\ Segs > 0
    BY <1>1
  <2>2. (c + 1) % Segs = IF c + 1 < 0 THEN c + 1 + Segs ELSE IF c + 1 < Segs THEN c + 1 ELSE c + 1 - Segs
    BY <1>1, <2>1, Remainder
  <2> HIDE DEF Seg
  <2> QED
    BY <1>1, <2>2 DEF Succ
<1>4. Succ(c) \in Seg /\ Succ(c) # c
  BY <1>1, <1>2, <1>3
<1>5. ASSUME NEW t \in Seg
      PROVE  /\ Behind(t, c) \in 0..(Segs - 1)
             /\ t # Succ(c) => Behind(t, Succ(c)) = Behind(t, c) + 1
             /\ Behind(t, t) = 0 /\ (t # c => Behind(t, c) # 0)
  BY <1>1, <1>3 DEF Behind
<1>6. \A s, t \in Seg : Behind(s, c) = Behind(t, c) => s = t
  BY <1>1 DEF Behind
<1>7. ASSUME NEW p \in 0..(Segs - 2) PROVE (c + 1 + p) % Segs \in Seg /\ (c + 1 + p) % Segs # c
  <2> DEFINE x == c + 1 + p
  <2>1. x \in (-Segs)..(2 * Segs - 1) /\ Segs > 0 /\ p \in Nat
    BY <1>1
  <2>2. x % Segs = IF x < 0 THEN x + Segs ELSE IF x < Segs THEN x ELSE x - Segs
    <3> HIDE DEF x
    <3> QED
      BY <1>1, <2>1, Remainder
  <2>3. \/ x % Segs = c + 1 + p /\ c + 1 + p < Segs
        \/ x % Segs = c + 1 + p - Segs /\ c + 1 + p >= Segs
    BY <1>1, <2>1, <2>2
  <2> QED
    BY <1>1, <1>2, <2>1, <2>3
<1> QED
  BY <1>3, <1>4, <1>5, <1>6, <1>7

\* Counting down from a sequence number: one fewer step is later, whatever
\* wraps around on the way.
LEMMA MinusLater ==
  ASSUME NEW a \in 0..(SeqRange - 1)
  PROVE  /\ \A d \in 0..(Segs - 1) : Minus(a, d) \in 0..(SeqRange - 1)
         /\ Minus(a, 0) = a
         /\ \A d, e \in 0..(Segs - 1) : Later(Minus(a, d), Minus(a, e)) <=> d < e
         /\ (a + 1) % SeqRange \in 0..(SeqRange - 1)
         /\ \A d \in 0..(Segs - 2) : Minus((a + 1) % SeqRange, d + 1) = Minus(a, d)
<1> DEFINE R == SeqRange
<1>1. R \in Nat /\ R >= 2 * Segs /\ Segs \in Nat /\ Segs >= 2 /\ R % 2 = 0
  BY Constants
<1>2. PICK h \in Nat : R = 2 * h /\ R \div 2 = h /\ h >= Segs
  <2>1. R \div 2 \in Nat /\ R = 2 * (R \div 2)
    BY <1>1
  <2> QED
    BY <1>1, <2>1
<1> HIDE DEF R
<1>3. \A d \in 0..(Segs - 1) : Minus(a, d) \in 0..(R - 1)
  BY <1>1 DEF Minus, R
<1>4. Minus(a, 0) = a
  BY <1>1 DEF Minus, R
<1>5. ASSUME NEW d \in 0..(Segs - 1), NEW e \in 0..(Segs - 1)
      PROVE  Later(Minus(a, d), Minus(a, e)) <=> d < e
  <2> DEFINE x == Minus(a, d) - Minus(a, e)
  <2>1. x = e - d \/ (x = e - d + R /\ e < d) \/ (x = e - d - R /\ d < e)
    BY <1>1 DEF Minus, R
  <2>2. x \in (-R)..(2 * R - 1) /\ R > 0
    BY <1>1, <2>1
  <2>3. x % R = IF x < 0 THEN x + R ELSE IF x < R THEN x ELSE x - R
    <3> HIDE DEF x
    <3> QED
      BY <1>1, <2>2, Remainder
  <2>4. x % R = IF d <= e THEN e - d ELSE e - d + R
    <3> HIDE DEF x
    <3> QED
      BY <1>1, <2>1, <2>3
  <2>5. (x % R \in 1..(h - 1)) <=> d < e
    <3> DEFINE y == x % R
    <3> HIDE DEF x, y
    <3>1. y = IF d <= e THEN e - d ELSE e - d + R
      BY <2>4 DEF y
    <3>2. y \in 1..(h - 1) <=> d < e
      BY <1>1, <1>2, <3>1
    <3> QED
      BY <3>2 DEF y
  <2> QED
    BY <1>2, <2>5 DEF Later, R
<1>6. (a + 1) % R = IF a + 1 < R THEN a + 1 ELSE 0
  <2>1. a + 1 \in (-R)..(2 * R - 1) /\ R > 0 /\ a + 1 > 0 /\ a + 1 <= R
    BY <1>1 DEF R
  <2>2. (a + 1) % R = IF a + 1 < 0 THEN a + 1 + R ELSE IF a + 1 < R THEN a + 1 ELSE a + 1 - R
    BY <1>1, <2>1, Remainder
  <2> QED
    BY <1>1, <2>1, <2>2
<1>7. (a + 1) % R \in 0..(R - 1)
  BY <1>1, <1>6 DEF R
<1>8. ASSUME NEW d \in 0..(Segs - 2) PROVE Minus((a + 1) % R, d + 1) = Minus(a, d)
  <2> DEFINE b == (a + 1) % R
  <2>1. b = IF a + 1 < R THEN a + 1 ELSE 0
    BY <1>6
  <2> HIDE DEF b
  <2>2. Minus(b, d + 1) = Minus(a, d)
    BY <1>1, <2>1 DEF Minus, R
  <2> QED
    BY <2>2 DEF b
<1> QED
  BY <1>3, <1>4, <1>5, <1>7, <1>8 DEF R

\* The loop of region_scan() ends with the valid segment that lies least behind
\* c; the sequence numbers fall along the ring from there.
LEMMA NewestOfRing ==
  ASSUME TypeOK, NEW c \in Seg, NEW a \in 0..(SeqRange - 1), Ring(c, a), ValidSegs # {}
  PROVE  /\ Newest \in ValidSegs /\ Newest \in Seg
         /\ Ring(Newest, hdr[Newest].seq)
         /\ c \in ValidSegs => Newest = c
<1> DEFINE D == {Behind(t, c) : t \in ValidSegs}
           Top(s) == \A t \in ValidSegs \ {s} : Later(hdr[s].seq, hdr[t].seq)
<1>1. ValidSegs \subseteq Seg
  BY DEF ValidSegs
<1>2. \A t \in Seg : Behind(t, c) \in 0..(Segs - 1)
  BY RingOfSegs
<1>3. \A s, t \in Seg : Behind(s, c) = Behind(t, c) => s = t
  BY RingOfSegs
<1>4. \A s, t \in ValidSegs : Later(hdr[s].seq, hdr[t].seq) <=> Behind(s, c) < Behind(t, c)
  BY <1>1, <1>2, MinusLater DEF Ring
<1>5. PICK s \in ValidSegs : \A t \in ValidSegs : Behind(s, c) <= Behind(t, c)
  <2>1. D \in SUBSET Nat /\ D # {}
    BY <1>1, <1>2
  <2>2. PICK i \in D : \A j \in D : i <= j
    BY <2>1, LeastNatural
  <2> QED
    BY <2>2
<1>6. ASSUME NEW t \in ValidSegs \ {s} PROVE Behind(s, c) < Behind(t, c)
  <2>1. Behind(s, c) # Behind(t, c) /\ Behind(s, c) <= Behind(t, c)
    BY <1>1, <1>3, <1>5
  <2> QED
    BY <1>1, <1>2, <2>1
<1>7. Top(s)
  BY <1>4, <1>6
<1>8. Newest \in ValidSegs /\ Top(Newest)
  <2>1. \E x \in ValidSegs : Top(x)
    BY <1>7
  <2>2. Newest = CHOOSE x \in ValidSegs : Top(x)
    BY DEF Newest
  <2> HIDE DEF Top
  <2> QED
    BY <2>1, <2>2
<1>9. Newest = s
  <2> SUFFICES ASSUME Newest # s PROVE FALSE
    OBVIOUS
  <2>1. Later(hdr[Newest].seq, hdr[s].seq)
    BY <1>8
  <2>2. Behind(Newest, c) < Behind(s, c)
    BY <1>4, <1>8, <2>1
  <2>3. Behind(s, c) <= Behind(Newest, c)
    BY <1>5, <1>8
  <2> QED
    BY <1>1, <1>2, <1>8, <2>2, <2>3
<1>10. ASSUME NEW t \in ValidSegs
       PROVE  hdr[t].seq = Minus(hdr[s].seq, Behind(t, s))
  <2>1. hdr[t].seq = Minus(a, Behind(t, c)) /\ hdr[s].seq = Minus(a, Behind(s, c))
    BY DEF Ring
  <2>2. /\ s \in Nat /\ s < Segs /\ t \in Nat /\ t < Segs /\ c \in Nat /\ c < Segs
        /\ SeqRange \in Nat /\ SeqRange >= 2 * Segs /\ Segs \in Nat
    BY <1>1, Constants
  <2>3. Behind(s, c) <= Behind(t, c)
    BY <1>5
  <2>4. Behind(t, s) = Behind(t, c) - Behind(s, c)
    BY <2>2, <2>3 DEF Behind
  <2>5. Behind(t, c) \in 0..(Segs - 1) /\ Behind(s, c) \in 0..(Segs - 1)
    BY <1>1, <1>2
  <2>6. \A d, e \in 0..(Segs - 1) : d <= e => Minus(Minus(a, d), e - d) = Minus(a, e)
    BY <2>2 DEF Minus
  <2> QED
    BY <2>1, <2>3, <2>4, <2>5, <2>6
<1>11. Ring(Newest, hdr[Newest].seq)
  BY <1>9, <1>10 DEF Ring
<1>12. ASSUME c \in ValidSegs PROVE s = c
  <2>1. Behind(c, c) = 0 /\ (s # c => Behind(s, c) # 0)
    BY <1>1, RingOfSegs
  <2>2. Behind(s, c) <= Behind(c, c)
    BY <1>5, <1>12
  <2> QED
    BY <1>1, <1>2, <2>1, <2>2
<1> QED
  BY <1>1, <1>8, <1>9, <1>11, <1>12

\* region_init_new_seg(): the next segment gets the next sequence number.
LEMMA RingGrows ==
  ASSUME NEW c \in Seg, NEW a \in 0..(SeqRange - 1), Ring(c, a), TypeOK,
         hdr' = [hdr EXCEPT ![Succ(c)] = [st |-> "valid", seq |-> (a + 1) % SeqRange]]
  PROVE  \A t \in ValidSegs' : hdr'[t].seq = Minus((a + 1) % SeqRange, Behind(t, Succ(c)))
<1> DEFINE b == (a + 1) % SeqRange
<1>1. Succ(c) \in Seg /\ \A t \in Seg : Behind(t, c) \in 0..(Segs - 1)
  BY RingOfSegs
<1>1a. \A t \in Seg : Behind(t, Succ(c)) \in 0..(Segs - 1)
  BY <1>1, RingOfSegs
<1>2. b \in 0..(SeqRange - 1)
  BY MinusLater
<1>3. ASSUME NEW t \in Seg, hdr'[t].st = "valid" PROVE hdr'[t].seq = Minus(b, Behind(t, Succ(c)))
  <2>1. CASE t = Succ(c)
    <3>1. hdr'[t].seq = b
      BY <2>1 DEF TypeOK
    <3>2. Behind(t, Succ(c)) = 0
      BY <1>1, <2>1, RingOfSegs
    <3>3. Minus(b, 0) = b
      BY <1>2, MinusLater
    <3> QED
      BY <3>1, <3>2, <3>3
  <2>2. CASE t # Succ(c)
    <3>1. hdr'[t] = hdr[t]
      BY <2>2 DEF TypeOK
    <3>2. hdr[t].seq = Minus(a, Behind(t, c))
      BY <1>3, <3>1 DEF Ring, ValidSegs
    <3>3. Behind(t, Succ(c)) = Behind(t, c) + 1
      BY <2>2, RingOfSegs
    <3>4. Behind(t, c) \in 0..(Segs - 2)
      BY <1>1, <1>1a, <3>3, Constants
    <3>5. Minus(b, Behind(t, c) + 1) = Minus(a, Behind(t, c))
      BY <3>4, MinusLater
    <3> QED
      BY <3>1, <3>2, <3>3, <3>5
  <2> QED
    BY <2>1, <2>2
<1> QED
  BY <1>3 DEF Ring, ValidSegs

-----------------------------------------------------------------------------
(* The walks over a segment                                                *)

\* region_seg_scan() stops at the first bad item: behind it nothing is complete.
LEMMA ScanStops ==
  ASSUME NEW s \in Seg, Sound(items[s])
  PROVE  /\ ScanEnd(s) \in 1..(Len(items[s]) + 1) /\ ScanEnd(s) \in 1..(Slots + 1)
         /\ \A i \in 1..(ScanEnd(s) - 1) : ~Bad(items[s][i])
         /\ \A i \in ScanEnd(s)..Len(items[s]) : items[s][i].st # "valid"
         /\ ScanEnd(s) <= Len(items[s]) => Bad(items[s][ScanEnd(s)])
<1> DEFINE w == items[s]
           bad == {i \in 1..Len(w) : ~Intact(w[i]) /\ w[i] # Obsolete}
           e == ScanEnd(s)
<1>1. w \in Seq(Item) /\ Len(w) \in Nat /\ \A i \in 1..Len(w) : w[i] \in Item
  BY DEF Sound
<1>2. \A i \in 1..Len(w) : i \in bad <=> Bad(w[i])
  BY <1>1, ItemKinds DEF Intact, Bad
<1>3. e = IF bad = {} THEN Len(w) + 1 ELSE CHOOSE i \in bad : \A j \in bad : i <= j
  BY DEF ScanEnd
<1>4. CASE bad = {}
  <2>1. e = Len(w) + 1 /\ \A i \in 1..Len(w) : ~Bad(w[i])
    BY <1>2, <1>3, <1>4
  <2>2. Len(w) <= Slots
    <3> SUFFICES ASSUME Len(w) > Slots PROVE FALSE
      BY <1>1, Constants
    <3>1. Len(w) \in 1..Len(w)
      BY <1>1, Constants
    <3>2. w[Len(w)] = Torn
      BY <3>1 DEF Sound
    <3> QED
      BY <2>1, <3>1, <3>2, ItemKinds DEF Bad
  <2> HIDE DEF e, w
  <2>3. /\ e \in 1..(Len(w) + 1) /\ e \in 1..(Slots + 1)
        /\ \A i \in 1..(e - 1) : ~Bad(w[i])
        /\ \A i \in e..Len(w) : w[i].st # "valid"
        /\ ~(e <= Len(w))
    BY <1>1, <2>1, <2>2, Constants
  <2> QED
    BY <2>3 DEF e, w
<1>5. CASE bad # {}
  <2>1. bad \in SUBSET Nat
    BY <1>1
  <2>2. \E i \in bad : \A j \in bad : i <= j
    BY <1>5, <2>1, LeastNatural
  <2>3. e \in bad /\ \A j \in bad : e <= j
    <3> HIDE DEF bad, e
    <3> QED
      BY <1>3, <1>5, <2>2
  <2>4. e \in 1..Len(w) /\ Bad(w[e])
    BY <1>2, <2>3
  <2>5. \A i \in 1..Len(w) : i < e => ~Bad(w[i])
    <3> SUFFICES ASSUME NEW i \in 1..Len(w), i < e, Bad(w[i]) PROVE FALSE
      OBVIOUS
    <3>1. i \in bad
      BY <1>2
    <3>2. e <= i
      BY <2>3, <3>1
    <3> HIDE DEF e, w, bad
    <3> QED
      BY <1>1, <2>4, <3>2
  <2>6. \A i \in 1..Len(w) : e < i => w[i].st # "valid"
    BY <2>4 DEF Sound
  <2>7. w[e].st # "valid"
    BY <2>4 DEF Bad
  <2>8. e <= Slots + 1
    <3> SUFFICES ASSUME e > Slots + 1 PROVE FALSE
      BY <1>1, <2>4, Constants
    <3>1. Slots + 1 \in 1..Len(w) /\ Slots + 1 > Slots
      BY <1>1, <2>4, Constants
    <3>2. w[Slots + 1] = Torn
      BY <3>1 DEF Sound
    <3>3. Bad(w[Slots + 1])
      BY <3>2, ItemKinds DEF Bad
    <3> QED
      BY <2>5, <3>1, <3>3
  <2> HIDE DEF e, w, bad
  <2>9. /\ e \in 1..(Len(w) + 1) /\ e \in 1..(Slots + 1)
        /\ \A i \in 1..(e - 1) : ~Bad(w[i])
        /\ \A i \in e..Len(w) : w[i].st # "valid"
        /\ Bad(w[e])
    <3>1. \A i \in 1..(e - 1) : i \in 1..Len(w) /\ i < e
      BY <1>1, <2>4
    <3>2. \A i \in e..Len(w) : i \in 1..Len(w) /\ (i = e \/ e < i)
      BY <1>1, <2>4
    <3> QED
      BY <1>1, <2>4, <2>5, <2>6, <2>7, <2>8, <3>1, <3>2, Constants
  <2> QED
    BY <2>9 DEF e, w
<1> QED
  BY <1>4, <1>5

\* region_find_item() with a bitmap of complete items.
LEMMA FindFinds ==
  ASSUME TypeOK, NEW k \in 0..Len(items[cur]), map = Live(items[cur], k), NEW n \in Names
  PROVE  /\ (Find(n) \in map /\ items[cur][Find(n)].name = n) \/ Find(n) = 0
         /\ Find(n) = 0 => \A i \in map : items[cur][i].name # n
         /\ Find(n) # 0 => Get(n) = items[cur][Find(n)].val
         /\ Find(n) # 0 => Get(n) # None
         /\ Find(n) = 0 => Get(n) = None
         /\ 0 \notin map
<1> DEFINE w == items[cur]
           found == {i \in map : i <= Len(w) /\ Readable(w[i]) /\ w[i].name = n}
<1>1. w \in Seq(Item) /\ Len(w) \in Nat
  BY DEF TypeOK
<1>2. \A i \in map : i \in 1..Len(w) /\ w[i].st = "valid" /\ w[i] \in Item
  BY <1>1 DEF Live
<1>3. found = {i \in map : w[i].name = n}
  BY <1>1, <1>2 DEF Readable
<1>4. found \in SUBSET Nat
  BY <1>1, <1>2
<1>5. Find(n) = IF found = {} THEN 0 ELSE CHOOSE i \in found : \A j \in found : i <= j
  BY DEF Find
<1>6. found # {} => Find(n) \in found
  <2> HIDE DEF found
  <2> QED
    BY <1>4, <1>5, LeastNatural
<1>7. 0 \notin map
  BY <1>1, <1>2
<1>8. Find(n) = 0 <=> found = {}
  BY <1>3, <1>5, <1>6, <1>7
<1>9. Find(n) # 0 => Find(n) \in map /\ w[Find(n)].name = n /\ w[Find(n)].val \in Vals
  BY <1>2, <1>3, <1>6, <1>8, ItemKinds
<1>10. Find(n) = 0 => \A i \in map : w[i].name # n
  BY <1>3, <1>8
<1> QED
  BY <1>7, <1>9, <1>10, Constants DEF Get

-----------------------------------------------------------------------------
(* The inductive invariant                                                 *)

\* A sound segment in which all but c of any first items have different names.
Good(w, c) == Sound(w) /\ \A k \in 0..Len(w) : Few(w, k, c)

\* Between region_write_data() and the mark on the old item one name has two
\* items; a power loss makes the second one stay.
Replacing == pc = "obsolete" /\ arg.val # None
Spare(s, k) == IF Replacing /\ s = cur /\ k = woff - 1 THEN crashes + 1 ELSE crashes

SegsInv ==
  \A s \in Seg : Sound(items[s]) /\ \A k \in 0..Len(items[s]) : Few(items[s], k, Spare(s, k))

\* Segment w has at most one complete item n; it has none, or one with value v.
One(w, n) == \A i, j \in Live(w, Len(w)) : w[i].name = n /\ w[j].name = n => i = j
Holds(w, n, v) ==
  /\ \A i \in Live(w, Len(w)) : w[i].name = n => w[i].val = v
  /\ v # None => \E i \in Live(w, Len(w)) : w[i].name = n

\* What clients know, and what a restart finds: a clear_all that power loss
\* interrupted may have come through.
Agrees(w, n) == One(w, n) /\ Holds(w, n, acked[n])
Durable(w, n) ==
  One(w, n) /\ (Holds(w, n, acked[n]) \/ (op = "clear_all" /\ Holds(w, n, None)))

\* The names of which something is promised.
Sure == Names \ exposed

\* No valid segment at all, as at the first start or after a clear_all.
Empty == ValidSegs = {} /\ (op = "clear_all" \/ \A n \in Sure : acked[n] = None)

\* region_info describes the segment it points to.
Current == hdr[cur] = [st |-> "valid", seq |-> seqId]
Full == \A i \in 1..Len(items[cur]) : ~Bad(items[cur][i])
Mapped == map = Live(items[cur], Len(items[cur]))

OffInv ==
  pc = "off" => \E c \in Seg, a \in 0..(SeqRange - 1) :
    /\ Ring(c, a)
    /\ \/ hdr[c] = [st |-> "valid", seq |-> a] /\ \A n \in Sure : Durable(items[c], n)
       \/ Empty
       \/ Sure = {}

RingInv == pc # "off" => Ring(cur, seqId)

IdleInv ==
  pc = "idle" =>
    /\ Current /\ Full /\ Mapped /\ woff = Len(items[cur]) + 1
    /\ ~booting /\ op = "none" /\ old = None
    /\ \A n \in Sure : Agrees(items[cur], n)

\* The segment that is written next by region_init_new_seg().
NewSeg == IF old = None THEN 0 ELSE Succ(old)

\* A new segment with nothing to copy to it.
FreshInv ==
  pc \in {"erase", "header"} /\ old = None => Empty /\ (~booting => op = "clear_all")

\* A segment that is copied up to lim: at start what a restart finds, for a set
\* what clients know.
Source(w) ==
  /\ lim \in 1..(Slots + 1) /\ lim <= Len(w) + 1
  /\ \A i \in 1..(lim - 1) : ~Bad(w[i])
  /\ \A i \in lim..Len(w) : w[i].st # "valid"
  /\ booting => \A n \in Sure : Durable(w, n)
  /\ ~booting => /\ op = "set" /\ arg.name \in Names /\ arg.val # None
                 /\ \A n \in Sure : Agrees(w, n)

PurgeInv ==
  pc \in {"erase", "header"} /\ old # None =>
    old = cur /\ Current /\ Source(items[old])

HeaderInv == pc = "header" => items[NewSeg] = << >> /\ hdr[NewSeg] = Blank

\* The copy holds the complete items before pos, and as many as they are.
CopyInv ==
  pc = "copy" =>
    /\ old \in Seg /\ cur = Succ(old) /\ Current /\ Source(items[old])
    /\ pos \in 1..lim
    /\ woff = Len(items[cur]) + 1 /\ woff <= pos
    /\ \A i \in 1..Len(items[cur]) : items[cur][i].st = "valid"
    /\ map = 1..(woff - 1)
    /\ Cardinality(Live(items[old], pos - 1)) = woff - 1
    /\ \A it \in Item : it.st = "valid" =>
         ((\E j \in 1..(woff - 1) : items[cur][j] = it) <=> (\E i \in 1..(pos - 1) : items[old][i] = it))
    /\ \A n \in Sure : One(items[cur], n)

SetInv ==
  pc \in {"write", "data", "obsolete"} =>
    /\ Current /\ ~booting /\ old = None /\ op = "set" /\ arg.name \in Names
    /\ map = Live(items[cur], woff - 1)
    /\ \A i \in 1..(woff - 1) : ~Bad(items[cur][i])
    /\ Len(items[cur]) = IF pc = "data" THEN woff ELSE woff - 1
    /\ ~Replacing => \A n \in Sure : Agrees(items[cur], n)

WriteInv == pc = "write" => woff <= Slots /\ arg.val # None

DataInv ==
  pc = "data" =>
    /\ woff <= Slots /\ arg.val # None
    /\ items[cur][woff] = NoData(arg.name)
    /\ tgt = 0 => \A i \in map : items[cur][i].name # arg.name
    /\ tgt # 0 => tgt \in map /\ items[cur][tgt].name = arg.name

TargetInv ==
  pc = "obsolete" =>
    /\ tgt \in map /\ items[cur][tgt].name = arg.name
    /\ arg.val # None =>
         /\ tgt < woff - 1 /\ items[cur][woff - 1] = Valid(arg.name, arg.val)
         /\ \A n \in Sure \ {arg.name} : Agrees(items[cur], n)
         /\ arg.name \in Sure =>
              \A i \in map : items[cur][i].name = arg.name => i \in {tgt, woff - 1}

ClearInv ==
  pc = "clear" =>
    /\ Current /\ Full /\ Mapped /\ woff = Len(items[cur]) + 1
    /\ booting /\ old = None /\ pos <= ClearCount
    /\ \A n \in Sure : Durable(items[cur], n)

EraseAllInv ==
  pc = "erase_all" =>
    /\ op = "clear_all" /\ old = None /\ ~booting /\ pos <= Segs - 1
    /\ \A s \in 0..(pos - 1) : hdr[s] = Blank
    /\ cur >= pos => Current /\ \A n \in Sure : Agrees(items[cur], n)

IInv ==
  /\ TypeOK /\ SegsInv /\ RingInv /\ NeverOverruns
  /\ OffInv /\ IdleInv /\ FreshInv /\ PurgeInv /\ HeaderInv /\ CopyInv
  /\ SetInv /\ WriteInv /\ DataInv /\ TargetInv /\ ClearInv /\ EraseAllInv

\* What an inactive part of the invariant says.
LEMMA Elsewhere ==
  /\ pc' # "off" => OffInv'
  /\ pc' # "idle" => IdleInv'
  /\ pc' \notin {"erase", "header"} => FreshInv' /\ PurgeInv'
  /\ pc' # "header" => HeaderInv'
  /\ pc' # "copy" => CopyInv'
  /\ pc' \notin {"write", "data", "obsolete"} => SetInv'
  /\ pc' # "write" => WriteInv'
  /\ pc' # "data" => DataInv'
  /\ pc' # "obsolete" => TargetInv' /\ ~Replacing'
  /\ pc' # "clear" => ClearInv'
  /\ pc' # "erase_all" => EraseAllInv'
BY DEF OffInv, IdleInv, FreshInv, PurgeInv, HeaderInv, CopyInv, SetInv, WriteInv, DataInv,
       TargetInv, Replacing, ClearInv, EraseAllInv

\* Where nothing is being replaced, every segment is good.
LEMMA SegsGood ==
  ASSUME SegsInv, ~Replacing
  PROVE  \A s \in Seg : Good(items[s], crashes)
BY DEF SegsInv, Spare, Good

\* Good segments make up the invariant again.
LEMMA GoodSegs ==
  ASSUME ~Replacing', \A s \in Seg : Good(items'[s], crashes')
  PROVE  SegsInv'
BY DEF SegsInv, Spare, Good

\* A step that changes one segment.
LEMMA OneSegment ==
  ASSUME TypeOK, NEW c, \A s \in Seg : Good(items[s], c),
         NEW t \in Seg, NEW u, Good(u, c), items' = [items EXCEPT ![t] = u]
  PROVE  /\ items' \in [Seg -> Seq(Item)] /\ items'[t] = u
         /\ \A s \in Seg : Good(items'[s], c)
         /\ \A s \in Seg : s # t => items'[s] = items[s]
<1>1. u \in Seq(Item)
  BY DEF Good, Sound
<1>2. items \in [Seg -> Seq(Item)]
  BY DEF TypeOK
<1>3. items' \in [Seg -> Seq(Item)] /\ items'[t] = u /\ \A s \in Seg : s # t => items'[s] = items[s]
  BY <1>1, <1>2
<1> QED
  BY <1>3

\* The same complete items mean the same values.
LEMMA SameValues ==
  ASSUME NEW u, NEW w, Live(u, Len(u)) = Live(w, Len(w)),
         \A i \in Live(w, Len(w)) : u[i] = w[i], NEW n
  PROVE  (One(u, n) <=> One(w, n)) /\ \A v : Holds(u, n, v) <=> Holds(w, n, v)
BY DEF One, Holds

\* A segment without complete items.
LEMMA NoValues ==
  ASSUME NEW w, Live(w, Len(w)) = {}, NEW n
  PROVE  One(w, n) /\ Holds(w, n, None)
BY DEF One, Holds

\* A get returns the value that the segment holds.
LEMMA GetHeld ==
  ASSUME TypeOK, Mapped, NEW n \in Names, NEW v \in Vals \cup {None}, Holds(items[cur], n, v)
  PROVE  Get(n) = v
<1> DEFINE w == items[cur]
<1>1. w \in Seq(Item) /\ Len(w) \in 0..Len(w) /\ map = Live(w, Len(w))
  BY DEF TypeOK, Mapped
<1>2. /\ (Find(n) \in map /\ w[Find(n)].name = n) \/ Find(n) = 0
      /\ Find(n) = 0 => \A i \in map : w[i].name # n
      /\ Find(n) # 0 => Get(n) = w[Find(n)].val
      /\ Find(n) = 0 => Get(n) = None
  BY <1>1, FindFinds
<1>3. CASE Find(n) = 0
  BY <1>1, <1>2, <1>3 DEF Holds
<1>4. CASE Find(n) # 0
  BY <1>1, <1>2, <1>4 DEF Holds
<1> QED
  BY <1>3, <1>4

\* Fresh and erased segments.
LEMMA GoodNew ==
  ASSUME NEW c \in Nat
  PROVE  /\ Good(<< >>, c) /\ Len(<< >>) = 0 /\ Live(<< >>, 0) = {}
         /\ Good(<<Torn>>, c) /\ Len(<<Torn>>) = 1 /\ Live(<<Torn>>, 1) = {}
<1>1. /\ Sound(<< >>) /\ Len(<< >>) = 0 /\ Live(<< >>, 0) = {} /\ Few(<< >>, 0, c)
      /\ Sound(<<Torn>>) /\ Len(<<Torn>>) = 1 /\ Live(<<Torn>>, 1) = {}
      /\ \A k \in 0..1 : Few(<<Torn>>, k, c)
  BY SmallSegs
<1>2. \A k \in 0..0 : k = 0
  OBVIOUS
<1>3. Good(<< >>, c)
  BY <1>1, <1>2, Zenon DEF Good
<1>4. Good(<<Torn>>, c)
  BY <1>1, Zenon DEF Good
<1> QED
  BY <1>1, <1>3, <1>4

\* A bad item at the end changes no value.
LEMMA GoodAppendBad ==
  ASSUME NEW w, NEW c \in Nat, Good(w, c), NEW it \in Item, Bad(it), Len(w) < Slots \/ it = Torn
  PROVE  LET u == Append(w, it)
         IN  /\ Good(u, c) /\ Len(u) = Len(w) + 1
             /\ Live(u, Len(u)) = Live(w, Len(w)) /\ Live(u, Len(w)) = Live(w, Len(w))
             /\ u[Len(w) + 1] = it /\ \A i \in 1..Len(w) : u[i] = w[i]
             /\ \A n : One(u, n) <=> One(w, n)
             /\ \A n, v : Holds(u, n, v) <=> Holds(w, n, v)
<1> DEFINE u == Append(w, it)
<1>1. Sound(w) /\ \A k \in 0..Len(w) : Few(w, k, c)
  BY DEF Good
<1>2. /\ Sound(u) /\ Len(u) = Len(w) + 1
      /\ \A k \in 0..Len(u) : Few(u, k, c)
      /\ Live(u, Len(u)) = Live(w, Len(w)) /\ Live(u, Len(w)) = Live(w, Len(w))
      /\ u[Len(w) + 1] = it /\ \A i \in 1..Len(w) : u[i] = w[i]
  BY <1>1, AppendBad
<1> HIDE DEF u
<1>3. \A i \in Live(w, Len(w)) : u[i] = w[i]
  BY <1>2 DEF Live
<1>4. \A n : (One(u, n) <=> One(w, n)) /\ \A v : Holds(u, n, v) <=> Holds(w, n, v)
  BY <1>2, <1>3, SameValues
<1> QED
  BY <1>2, <1>4 DEF Good, u

\* An item of the segment marked obsolete.
LEMMA GoodObsolete ==
  ASSUME NEW w, NEW c \in Nat, Good(w, c), NEW i \in 1..Len(w), i <= Slots
  PROVE  Good([w EXCEPT ![i] = Obsolete], c)
<1> DEFINE u == [w EXCEPT ![i] = Obsolete]
<1>1. w \in Seq(Item) /\ Len(w) \in Nat
  BY DEF Good, Sound
<1>2. /\ u \in Seq(Item) /\ Len(u) = Len(w) /\ u[i] = Obsolete
      /\ \A j \in 1..Len(w) : j # i => u[j] = w[j]
  BY <1>1, LiveObsolete
<1>3. ASSUME NEW k \in 0..Len(w) PROVE Few(u, k, c)
  <2>1. Few(w, k, c)
    BY DEF Good
  <2> QED
    BY <1>1, <2>1, FewObsolete
<1> HIDE DEF u
<1>4. Obsolete.st # "valid" /\ ~Bad(Obsolete)
  BY ItemKinds
<1>5. Sound(u)
  BY <1>1, <1>2, <1>4, Constants, SMTT(40) DEF Good, Sound
<1>6. Good(u, c)
  BY <1>2, <1>3, <1>5 DEF Good
<1> QED
  BY <1>6 DEF u

-----------------------------------------------------------------------------
(* The invariant holds at first and is kept by every step                  *)

\* The first start, of a region that is erased.
LEMMA InitInv == Init => IInv
<1> SUFFICES ASSUME Init PROVE IInv
  OBVIOUS
<1> USE DEF Init
<1>0. 0 \in Seg /\ Segs \in Nat /\ Segs >= 2 /\ SeqRange \in Nat /\ SeqRange >= 2 * Segs /\ MaxCrash \in Nat
      /\ Slots \in Nat
  BY Constants
<1>0a. << >> \in Seq(Item) /\ Blank \in [st : {"erased", "torn", "valid", "obsolete"}, seq : 0..(SeqRange - 1)]
  BY <1>0 DEF Blank
<1>1. TypeOK
  <2>1. arg \in [name : Names \cup {None}, val : Vals \cup {None}]
    BY DEF NoArg
  <2>2. hdr \in [Seg -> [st : {"erased", "torn", "valid", "obsolete"}, seq : 0..(SeqRange - 1)]]
        /\ items \in [Seg -> Seq(Item)]
    BY <1>0a
  <2>3. acked \in [Names -> Vals \cup {None}] /\ exposed \subseteq Names
    OBVIOUS
  <2>4. /\ cur \in Seg /\ seqId \in 0..(SeqRange - 1) /\ woff \in 1..(Slots + 1) /\ map \subseteq 1..Slots
        /\ pos \in 0..(Slots + Segs) /\ lim \in 0..(Slots + 1) /\ tgt \in 0..Slots /\ crashes \in 0..MaxCrash
    BY <1>0
  <2> QED
    BY <2>1, <2>2, <2>3, <2>4 DEF TypeOK
<1>2. ValidSegs = {}
  BY DEF ValidSegs, Blank
<1>3. ~Replacing
  BY DEF Replacing
<1>4. SegsInv
  <2>1. 0 \in Nat
    OBVIOUS
  <2>2. Good(<< >>, 0)
    BY <2>1, GoodNew
  <2>3. ASSUME NEW s \in Seg PROVE Sound(items[s]) /\ \A k \in 0..Len(items[s]) : Few(items[s], k, Spare(s, k))
    <3>1. items[s] = << >> /\ \A k : Spare(s, k) = 0
      BY <1>3 DEF Spare
    <3> QED
      BY <2>2, <3>1, Zenon DEF Good
  <2> QED
    BY <2>3 DEF SegsInv
<1>5. OffInv
  <2>1. Ring(0, 0)
    BY <1>2 DEF Ring
  <2>2. Empty
    BY <1>2 DEF Empty, Sure
  <2> QED
    BY <1>0, <2>1, <2>2 DEF OffInv
<1> QED
  BY <1>1, <1>4, <1>5 DEF IInv, RingInv, NeverOverruns, IdleInv, FreshInv, PurgeInv, HeaderInv, CopyInv,
     SetInv, WriteInv, DataInv, TargetInv, ClearInv, EraseAllInv

\* nvram_config_set() up to its first flash operation.
LEMMA SetStartInv ==
  ASSUME IInv, NEW n \in Names, NEW v \in Vals \cup {None}, SetStart(n, v)
  PROVE  IInv'
<1> USE DEF SetStart, flash, region, history
<1> DEFINE w == items[cur]
<1>1. TypeOK /\ SegsInv /\ RingInv /\ IdleInv /\ pc = "idle"
  BY DEF IInv
<1>2. /\ Current /\ Full /\ Mapped /\ woff = Len(w) + 1 /\ ~booting /\ op = "none" /\ old = None
      /\ \A m \in Sure : Agrees(w, m)
  BY <1>1 DEF IdleInv
<1>3. /\ hdr' = hdr /\ items' = items /\ cur' = cur /\ seqId' = seqId /\ woff' = woff /\ map' = map
      /\ booting' = booting /\ pos' = pos /\ crashes' = crashes /\ acked' = acked /\ exposed' = exposed
      /\ op' = "set" /\ arg' = [name |-> n, val |-> v] /\ arg'.name = n /\ arg'.val = v
  OBVIOUS
<1>4. w \in Seq(Item) /\ Len(w) \in 0..Len(w) /\ woff - 1 = Len(w) /\ Len(w) \in Nat
  BY <1>1, <1>2 DEF TypeOK
<1>5. Current' /\ Sure' = Sure /\ \A m \in Sure : Agrees(w, m)'
  BY <1>2, <1>3 DEF Current, Sure, Agrees
<1>6. map = Live(w, woff - 1) /\ \A i \in 1..(woff - 1) : ~Bad(w[i])
  BY <1>2, <1>4 DEF Mapped, Full
<1>7. /\ (Find(n) \in map /\ w[Find(n)].name = n) \/ Find(n) = 0
      /\ Find(n) = 0 => Get(n) = None
  BY <1>1, <1>2, <1>4, FindFinds DEF Mapped
<1>8. Find(n) \in 0..Slots
  <2>1. map \subseteq 1..Slots /\ 0 \in 0..Slots /\ 1..Slots \subseteq 0..Slots
    BY <1>1, Constants DEF TypeOK
  <2> QED
    BY <1>7, <2>1
<1>9. TypeOK'
  <2>1. arg' \in [name : Names \cup {None}, val : Vals \cup {None}]
    BY <1>3
  <2>2. tgt' \in 0..Slots /\ old' \in Seg \cup {None} /\ lim' \in 0..(Slots + 1)
        /\ pc' \in {"erase", "write", "obsolete"}
    BY <1>1, <1>8, Constants, SMTT(40) DEF TypeOK, StartPurge
  <2> QED
    BY <1>1, <1>3, <2>1, <2>2 DEF TypeOK
<1>10. ~Replacing' /\ ~Replacing
  BY <1>1, <1>3 DEF Replacing, StartPurge
<1>11. SegsInv'
  BY <1>1, <1>3, <1>10, SegsGood, GoodSegs
<1>12. RingInv'
  BY <1>1, <1>3 DEF RingInv, Ring, ValidSegs
<1>13. CASE v = None
  <2>1. pc' = "obsolete" /\ tgt' = Find(n) /\ old' = old
    BY <1>13
  <2>2. Find(n) # 0
    BY <1>7, <1>13
  <2>3. SetInv'
    BY <1>2, <1>3, <1>4, <1>5, <1>6, <2>1 DEF SetInv
  <2>4. TargetInv'
    BY <1>3, <1>7, <1>13, <2>1, <2>2 DEF TargetInv
  <2> QED
    BY <1>9, <1>11, <1>12, <2>1, <2>3, <2>4, Elsewhere DEF IInv, NeverOverruns
<1>14. CASE v # None /\ woff > Slots
  <2>1. pc' = "erase" /\ old' = cur /\ lim' = woff
    BY <1>14 DEF StartPurge
  <2>2. cur \in Seg /\ cur # None /\ woff \in 1..(Slots + 1)
    BY <1>1, Constants DEF TypeOK
  <2>3. Source(w)'
    BY <1>2, <1>3, <1>4, <1>5, <1>6, <1>14, <2>1, <2>2 DEF Source
  <2>4. PurgeInv' /\ FreshInv'
    BY <1>3, <1>5, <2>1, <2>2, <2>3 DEF PurgeInv, FreshInv
  <2> QED
    BY <1>9, <1>11, <1>12, <2>1, <2>4, Elsewhere DEF IInv, NeverOverruns
<1>15. CASE v # None /\ ~(woff > Slots)
  <2>1. pc' = "write" /\ old' = old /\ woff <= Slots
    BY <1>1, <1>15, Constants DEF TypeOK
  <2>2. SetInv' /\ WriteInv'
    BY <1>2, <1>3, <1>4, <1>5, <1>6, <1>15, <2>1 DEF SetInv, WriteInv
  <2> QED
    BY <1>9, <1>11, <1>12, <2>1, <2>2, Elsewhere DEF IInv, NeverOverruns
<1> QED
  BY <1>13, <1>14, <1>15

\* The header of a segment.
Header == [st : {"erased", "torn", "valid", "obsolete"}, seq : 0..(SeqRange - 1)]

\* A header that is erased, torn or marked obsolete: fewer segments are valid.
LEMMA HeaderLost ==
  ASSUME TypeOK, NEW s \in Seg, NEW h \in Header, h.st = "valid" => h = hdr[s],
         hdr' = [hdr EXCEPT ![s] = h]
  PROVE  /\ hdr' \in [Seg -> Header] /\ hdr'[s] = h
         /\ \A t \in Seg : t # s => hdr'[t] = hdr[t]
         /\ ValidSegs' \subseteq ValidSegs
         /\ \A c, a : Ring(c, a) => \A t \in ValidSegs' : hdr'[t].seq = Minus(a, Behind(t, c))
<1>1. hdr \in [Seg -> Header]
  BY DEF TypeOK, Header
<1>2. hdr' \in [Seg -> Header] /\ hdr'[s] = h /\ \A t \in Seg : t # s => hdr'[t] = hdr[t]
  BY <1>1
<1>3. \A t \in ValidSegs' : t \in ValidSegs /\ hdr'[t] = hdr[t]
  BY <1>2 DEF ValidSegs
<1> QED
  BY <1>2, <1>3 DEF Ring

\* The headers that a step leaves behind.
LEMMA LostHeaders ==
  /\ Blank \in Header /\ Blank.st # "valid" /\ TornHdr \in Header /\ TornHdr.st # "valid"
  /\ [st |-> "obsolete", seq |-> 0] \in Header /\ [st |-> "obsolete", seq |-> 0].st # "valid"
<1>1. 0 \in 0..(SeqRange - 1)
  BY Constants
<1> QED
  BY <1>1 DEF Blank, TornHdr, Header

\* nvram_config_clear_all() begins; nothing is erased yet.
LEMMA ClearAllStartInv ==
  ASSUME IInv, ClearAllStart
  PROVE  IInv'
<1> USE DEF ClearAllStart, flash, region, history
<1>1. TypeOK /\ SegsInv /\ RingInv /\ IdleInv /\ pc = "idle"
  BY DEF IInv
<1>2. /\ Current /\ ~booting /\ op = "none" /\ old = None
      /\ \A m \in Sure : Agrees(items[cur], m)
  BY <1>1 DEF IdleInv
<1>3. TypeOK'
  BY <1>1, Constants, SMTT(40) DEF TypeOK
<1>4. ~Replacing' /\ ~Replacing
  BY <1>1 DEF Replacing
<1>5. SegsInv'
  BY <1>1, <1>4, SegsGood, GoodSegs
<1>6. RingInv'
  BY <1>1 DEF RingInv, Ring, ValidSegs
<1>7. EraseAllInv'
  <2>1. Current' /\ Sure' = Sure /\ (\A m \in Sure : Agrees(items[cur], m)')
    BY <1>2 DEF Current, Sure, Agrees
  <2>2. 0 <= Segs - 1 /\ \A s \in 0..(0 - 1) : FALSE
    BY Constants
  <2> QED
    BY <1>2, <2>1, <2>2 DEF EraseAllInv
<1> QED
  BY <1>3, <1>5, <1>6, <1>7, Elsewhere DEF IInv, NeverOverruns

\* The next segment of the ring is erased; it is never the one copied from.
LEMMA EraseInv ==
  ASSUME IInv, Erase
  PROVE  IInv'
<1> USE DEF Erase, region, purge, call, history
<1>1. TypeOK /\ SegsInv /\ RingInv /\ FreshInv /\ PurgeInv /\ pc = "erase"
  BY DEF IInv
<1>2. cur \in Seg /\ 0 \in Seg /\ crashes \in Nat /\ None \notin Seg /\ old \in Seg \cup {None}
  BY <1>1, Constants DEF TypeOK
<1>3. NewSeg \in Seg /\ (old # None => NewSeg # old)
  BY <1>2, RingOfSegs DEF NewSeg
<1>4. hdr' = [hdr EXCEPT ![NewSeg] = Blank] /\ items' = [items EXCEPT ![NewSeg] = << >>] /\ NewSeg' = NewSeg
  BY DEF NewSeg
<1>5. /\ hdr' \in [Seg -> Header] /\ hdr'[NewSeg] = Blank
      /\ \A t \in Seg : t # NewSeg => hdr'[t] = hdr[t]
      /\ ValidSegs' \subseteq ValidSegs
      /\ Ring(cur, seqId) => \A t \in ValidSegs' : hdr'[t].seq = Minus(seqId, Behind(t, cur))
  BY <1>1, <1>3, <1>4, LostHeaders, HeaderLost
<1>6. ~Replacing /\ ~Replacing'
  BY <1>1 DEF Replacing
<1>7. /\ items' \in [Seg -> Seq(Item)] /\ items'[NewSeg] = << >>
      /\ \A s \in Seg : Good(items'[s], crashes)
      /\ \A s \in Seg : s # NewSeg => items'[s] = items[s]
  BY <1>1, <1>2, <1>3, <1>4, <1>6, SegsGood, GoodNew, OneSegment
<1>8. TypeOK'
  BY <1>1, <1>5, <1>7 DEF TypeOK, Header
<1>9. SegsInv'
  BY <1>6, <1>7, GoodSegs
<1>10. RingInv'
  BY <1>1, <1>5 DEF RingInv, Ring
<1>11. HeaderInv'
  BY <1>4, <1>5, <1>7 DEF HeaderInv
<1>12. FreshInv'
  BY <1>1, <1>5 DEF FreshInv, Empty, Sure
<1>13. PurgeInv'
  <2> SUFFICES ASSUME old # None PROVE old = cur /\ Current' /\ Source(items[old])'
    BY DEF PurgeInv
  <2>1. old = cur /\ Current /\ Source(items[old])
    BY <1>1 DEF PurgeInv
  <2>2. hdr'[cur] = hdr[cur] /\ items'[old] = items[old]
    BY <1>2, <1>3, <1>5, <1>7, <2>1
  <2>3. Current'
    BY <2>1, <2>2 DEF Current
  <2>4. Source(items[old])'
    BY <2>1, <2>2 DEF Source, Durable, Agrees, Sure
  <2> QED
    BY <2>1, <2>3, <2>4
<1> QED
  BY <1>8, <1>9, <1>10, <1>11, <1>12, <1>13, Elsewhere DEF IInv, NeverOverruns

\* clear_all erases segment after segment, the current one among them.
LEMMA EraseAllInvariant ==
  ASSUME IInv, EraseAll
  PROVE  IInv'
<1> USE DEF EraseAll, region, call, history
<1>1. TypeOK /\ SegsInv /\ RingInv /\ EraseAllInv /\ pc = "erase_all"
  BY DEF IInv
<1>2. /\ op = "clear_all" /\ old = None /\ ~booting /\ pos <= Segs - 1
      /\ \A s \in 0..(pos - 1) : hdr[s] = Blank
      /\ cur >= pos => Current /\ \A n \in Sure : Agrees(items[cur], n)
  BY <1>1 DEF EraseAllInv
<1>3. /\ cur \in Nat /\ cur \in Seg /\ pos \in Nat /\ pos \in Seg /\ crashes \in Nat /\ Segs \in Nat
      /\ pos \in 0..(Slots + Segs) /\ Slots \in Nat /\ Segs >= 2
  BY <1>1, <1>2, Constants DEF TypeOK, Seg
<1>3a. pos \in Seg
  BY <1>3
<1>4. /\ hdr' \in [Seg -> Header] /\ hdr'[pos] = Blank
      /\ \A t \in Seg : t # pos => hdr'[t] = hdr[t]
      /\ ValidSegs' \subseteq ValidSegs
      /\ Ring(cur, seqId) => \A t \in ValidSegs' : hdr'[t].seq = Minus(seqId, Behind(t, cur))
  <2>1. hdr' = [hdr EXCEPT ![pos] = Blank] /\ Blank \in Header /\ Blank.st # "valid"
    BY LostHeaders
  <2> HIDE DEF EraseAll
  <2> QED
    BY <1>1, <1>3a, <2>1, HeaderLost, ZenonT(40)
<1>5. ~Replacing /\ ~Replacing'
  BY <1>1 DEF Replacing
<1>6. /\ items' \in [Seg -> Seq(Item)]
      /\ \A s \in Seg : Good(items'[s], crashes)
      /\ \A s \in Seg : s # pos => items'[s] = items[s]
  BY <1>1, <1>3, <1>5, SegsGood, GoodNew, OneSegment
<1>7. TypeOK'
  <2>1. pos' \in 0..(Slots + Segs) /\ old' \in Seg \cup {None} /\ pc' \in {"erase_all", "erase"}
    BY <1>1, <1>2, <1>3
  <2> QED
    BY <1>1, <1>4, <1>6, <2>1 DEF TypeOK, Header
<1>8. SegsInv'
  BY <1>5, <1>6, GoodSegs
<1>9. RingInv'
  BY <1>1, <1>4 DEF RingInv, Ring
<1>10. \A s \in 0..pos : hdr'[s] = Blank
  <2> SUFFICES ASSUME NEW s \in 0..pos, s # pos PROVE hdr'[s] = Blank
    BY <1>4
  <2>1. s \in 0..(pos - 1) /\ s \in Seg
    BY <1>2, <1>3 DEF Seg
  <2> QED
    BY <1>2, <1>4, <2>1
<1>10a. pos < Segs - 1 \/ pos = Segs - 1
  BY <1>2, <1>3
<1>11. CASE pos < Segs - 1
  <2>1. pos' = pos + 1 /\ pc' = "erase_all" /\ old' = None
    BY <1>1, <1>2, <1>3, <1>11
  <2>2. ASSUME cur >= pos + 1 PROVE Current' /\ \A n \in Sure' : Agrees(items[cur], n)'
    <3>1. cur # pos /\ cur >= pos
      BY <1>3, <2>2
    <3>2. hdr'[cur] = hdr[cur] /\ items'[cur] = items[cur]
      BY <1>3, <1>4, <1>6, <3>1
    <3> QED
      BY <1>2, <3>1, <3>2 DEF Current, Agrees, Sure
  <2>3. pos' <= Segs - 1 /\ \A s \in 0..(pos' - 1) : hdr'[s] = Blank
    BY <1>3, <1>10, <1>11, <2>1
  <2>4. EraseAllInv'
    BY <1>2, <2>1, <2>2, <2>3 DEF EraseAllInv
  <2> QED
    BY <1>7, <1>8, <1>9, <2>1, <2>4, Elsewhere DEF IInv, NeverOverruns
<1>12. CASE pos = Segs - 1
  <2>1. pc' = "erase" /\ old' = None
    BY <1>3, <1>12
  <2>2. ValidSegs' = {}
    <3>1. \A s \in Seg : hdr'[s] = Blank
      BY <1>10, <1>12 DEF Seg
    <3> QED
      BY <3>1, LostHeaders DEF ValidSegs
  <2>3. FreshInv' /\ PurgeInv'
    BY <1>2, <2>1, <2>2 DEF FreshInv, PurgeInv, Empty
  <2> QED
    BY <1>7, <1>8, <1>9, <2>1, <2>3, Elsewhere DEF IInv, NeverOverruns
<1> QED
  BY <1>10a, <1>11, <1>12

\* The new segment becomes the newest, with the next sequence number.
LEMMA WriteHeaderInv ==
  ASSUME IInv, WriteHeader
  PROVE  IInv'
<1> USE DEF WriteHeader
<1> DEFINE seq == (seqId + 1) % SeqRange
           h == [st |-> "valid", seq |-> seq]
<1>1. TypeOK /\ SegsInv /\ RingInv /\ FreshInv /\ PurgeInv /\ HeaderInv /\ pc = "header"
  BY DEF IInv
<1>2. /\ cur \in Seg /\ 0 \in Seg /\ crashes \in Nat /\ None \notin Seg /\ old \in Seg \cup {None}
      /\ seqId \in 0..(SeqRange - 1)
  BY <1>1, Constants DEF TypeOK
<1>3. NewSeg \in Seg /\ (old # None => NewSeg # old /\ NewSeg = Succ(old))
  BY <1>2, RingOfSegs DEF NewSeg
<1>4. /\ hdr' = [hdr EXCEPT ![NewSeg] = h] /\ cur' = NewSeg /\ seqId' = seq /\ woff' = 1 /\ map' = {}
      /\ items' = items /\ booting' = booting /\ old' = old /\ lim' = lim /\ arg' = arg /\ tgt' = tgt
      /\ crashes' = crashes /\ exposed' = exposed /\ pos' = IF old = None THEN 0 ELSE 1
  BY DEF NewSeg
<1>5. seq \in 0..(SeqRange - 1)
  BY <1>2, MinusLater
<1> HIDE DEF seq
<1>6. h \in Header /\ h.st = "valid"
  BY <1>5 DEF Header
<1>7. hdr' \in [Seg -> Header] /\ hdr'[NewSeg] = h /\ \A t \in Seg : t # NewSeg => hdr'[t] = hdr[t]
  <2>1. hdr \in [Seg -> Header]
    BY <1>1 DEF TypeOK, Header
  <2> QED
    BY <1>3, <1>4, <1>6, <2>1
<1>8. items[NewSeg] = << >> /\ Len(<< >>) = 0 /\ Live(<< >>, 0) = {}
  BY <1>1, GoodNew DEF HeaderInv
<1>9. ~Replacing /\ ~Replacing'
  BY <1>1 DEF Replacing
<1>10. SegsInv'
  BY <1>1, <1>4, <1>9, SegsGood, GoodSegs
<1>11. Current'
  BY <1>4, <1>7 DEF Current
<1>12. TypeOK'
  <2>1. op' \in {"none", "set", "clear_all"} /\ acked' \in [Names -> Vals \cup {None}]
        /\ pc' \in {"copy", "clear", "idle"}
    BY <1>1 DEF TypeOK
  <2>2. 1 \in 1..(Slots + 1) /\ {} \subseteq 1..Slots /\ pos' \in 0..(Slots + Segs)
    BY <1>4, Constants
  <2> QED
    BY <1>1, <1>3, <1>4, <1>5, <1>7, <2>1, <2>2 DEF TypeOK, Header
<1>13. CASE old # None
  <2>1. pc' = "copy" /\ op' = op /\ acked' = acked /\ pos' = 1
    BY <1>4, <1>13
  <2>2. old = cur /\ Current /\ Source(items[old]) /\ old \in Seg
    BY <1>1, <1>2, <1>13 DEF PurgeInv
  <2>3. RingInv'
    <3>1. Ring(cur, seqId)
      BY <1>1 DEF RingInv
    <3>2. hdr' = [hdr EXCEPT ![Succ(cur)] = [st |-> "valid", seq |-> (seqId + 1) % SeqRange]]
      BY <1>3, <1>4, <1>13, <2>2 DEF seq
    <3>3. \A t \in ValidSegs' : hdr'[t].seq = Minus((seqId + 1) % SeqRange, Behind(t, Succ(cur)))
      BY <1>1, <1>2, <3>1, <3>2, RingGrows
    <3> QED
      BY <1>3, <1>4, <1>13, <2>2, <3>3 DEF RingInv, Ring, seq
  <2>4. Source(items[old])'
    BY <1>4, <2>1, <2>2 DEF Source, Durable, Agrees, Sure
  <2>5. Cardinality(Live(items[old], 1 - 1)) = 0
    <3>1. Live(items[old], 1 - 1) = {}
      BY DEF Live
    <3> QED
      BY <3>1, FS_EmptySet
  <2>6. /\ 1 = Len(items'[cur']) + 1 /\ pos' \in 1..lim' /\ woff' <= pos'
        /\ \A i \in 1..Len(items'[cur']) : FALSE
        /\ map' = 1..(woff' - 1) /\ 1..(woff' - 1) = {} /\ 1..(pos' - 1) = {}
    <3>1. lim \in 1..(Slots + 1)
      BY <2>2 DEF Source
    <3> QED
      BY <1>4, <1>8, <2>1, <3>1, Constants
  <2>7. \A n : One(items'[cur'], n)
    BY <1>4, <1>8, NoValues
  <2>8. CopyInv'
    BY <1>3, <1>4, <1>11, <1>13, <2>1, <2>2, <2>4, <2>5, <2>6, <2>7 DEF CopyInv
  <2> QED
    BY <1>10, <1>12, <2>1, <2>3, <2>8, Elsewhere DEF IInv, NeverOverruns
<1>14. CASE old = None
  <2>1. Empty /\ (~booting => op = "clear_all") /\ pos' = 0 /\ pos' <= ClearCount
    BY <1>1, <1>4, <1>14, Constants DEF FreshInv, ClearCount
  <2>2. RingInv'
    <3>1. \A t \in ValidSegs' : t = NewSeg
      BY <1>7, <2>1 DEF ValidSegs, Empty
    <3>2. Minus(seq, Behind(NewSeg, NewSeg)) = seq
      BY <1>3, <1>5, RingOfSegs, MinusLater
    <3>3. hdr'[NewSeg].seq = seq
      BY <1>7
    <3> QED
      BY <1>4, <3>1, <3>2, <3>3 DEF RingInv, Ring
  <2>3. items'[cur'] = << >> /\ Len(items'[cur']) = 0 /\ Live(items'[cur'], Len(items'[cur'])) = {}
    BY <1>4, <1>8
  <2>4. Full' /\ Mapped' /\ woff' = Len(items'[cur']) + 1
    BY <1>4, <2>3 DEF Full, Mapped
  <2>5. \A n : One(items'[cur'], n) /\ Holds(items'[cur'], n, None)
    BY <2>3, NoValues
  <2>6. CASE booting
    <3>1. pc' = "clear" /\ op' = op /\ acked' = acked
      BY <1>14, <2>6
    <3>2. \A n \in Sure' : Durable(items[cur], n)'
      BY <1>4, <2>1, <2>5, <3>1 DEF Empty, Durable, Sure
    <3>3. ClearInv'
      BY <1>4, <1>11, <1>14, <2>1, <2>4, <2>6, <3>2 DEF ClearInv
    <3> QED
      BY <1>10, <1>12, <2>2, <3>1, <3>3, Elsewhere DEF IInv, NeverOverruns
  <2>7. CASE ~booting
    <3>1. pc' = "idle" /\ op' = "none" /\ acked' = [n \in Names |-> None]
      BY <1>14, <2>7
    <3>2. \A n \in Sure' : Agrees(items[cur], n)'
      BY <2>5, <3>1 DEF Agrees, Sure
    <3>3. IdleInv'
      BY <1>4, <1>11, <1>14, <2>4, <2>7, <3>1, <3>2 DEF IdleInv
    <3> QED
      BY <1>10, <1>12, <2>2, <3>1, <3>3, Elsewhere DEF IInv, NeverOverruns
  <2> QED
    BY <2>6, <2>7
<1> QED
  BY <1>13, <1>14

\* An item of the segment that is copied.
LEMMA SourceItem ==
  ASSUME TypeOK, CopyInv, pc = "copy", NEW i \in 1..(lim - 1)
  PROVE  /\ i \in 1..Len(items[old]) /\ items[old][i] \in Item
         /\ items[old][i].st = "valid" \/ items[old][i] = Obsolete
<1>1. old \in Seg /\ lim \in 1..(Slots + 1) /\ lim <= Len(items[old]) + 1 /\ ~Bad(items[old][i])
  BY DEF CopyInv, Source
<1>2. items[old] \in Seq(Item) /\ Len(items[old]) \in Nat
  BY <1>1 DEF TypeOK
<1>3. i \in 1..Len(items[old]) /\ items[old][i] \in Item
  BY <1>1, <1>2, Constants
<1> QED
  BY <1>1, <1>3, ItemKinds

\* One item is copied, or skipped as obsolete; none is lost or doubled.
LEMMA CopyInvariant ==
  ASSUME IInv, Copy
  PROVE  IInv'
<1> DEFINE w == items[old]
           u == items[cur]
           it == w[pos]
<1>1. TypeOK /\ SegsInv /\ RingInv /\ CopyInv /\ pc = "copy"
  BY DEF IInv, Copy
<1>2. /\ hdr' = hdr /\ cur' = cur /\ seqId' = seqId /\ pc' = pc /\ booting' = booting /\ old' = old /\ lim' = lim
      /\ op' = op /\ arg' = arg /\ tgt' = tgt /\ crashes' = crashes /\ acked' = acked /\ exposed' = exposed
      /\ pos < lim
  BY DEF Copy, call, history
<1>3. /\ old \in Seg /\ cur = Succ(old) /\ Current /\ Source(w)
      /\ pos \in 1..lim /\ woff = Len(u) + 1 /\ woff <= pos
      /\ \A i \in 1..Len(u) : u[i].st = "valid"
      /\ map = 1..(woff - 1)
      /\ Cardinality(Live(w, pos - 1)) = woff - 1
      /\ \A x \in Item : x.st = "valid" =>
           ((\E j \in 1..(woff - 1) : u[j] = x) <=> (\E i \in 1..(pos - 1) : w[i] = x))
      /\ \A n \in Sure : One(u, n)
  BY <1>1 DEF CopyInv
<1>4. /\ cur \in Seg /\ cur # old /\ crashes \in Nat /\ lim \in 1..(Slots + 1) /\ Slots \in Nat /\ Segs \in Nat
      /\ lim <= Len(w) + 1 /\ w \in Seq(Item) /\ u \in Seq(Item) /\ Len(u) \in Nat /\ Len(w) \in Nat
      /\ pos \in Nat /\ woff \in Nat /\ items \in [Seg -> Seq(Item)]
  <2>1. cur \in Seg /\ cur # old
    BY <1>3, RingOfSegs
  <2>2. items \in [Seg -> Seq(Item)] /\ crashes \in Nat /\ pos \in Nat /\ woff \in Nat
    BY <1>1, Constants DEF TypeOK
  <2>3. lim \in 1..(Slots + 1) /\ lim <= Len(w) + 1
    BY <1>3 DEF Source
  <2>4. w \in Seq(Item) /\ u \in Seq(Item) /\ Len(u) \in Nat /\ Len(w) \in Nat
    BY <1>3, <2>1, <2>2
  <2> QED
    BY <2>1, <2>2, <2>3, <2>4, Constants
<1>5. pos \in 1..(lim - 1) /\ pos \in 1..Len(w) /\ it \in Item /\ (it.st = "valid" \/ it = Obsolete)
  <2>1. pos \in 1..(lim - 1)
    BY <1>2, <1>3, <1>4
  <2> QED
    BY <1>1, <2>1, SourceItem
<1>5a. /\ pos \in Nat /\ woff \in Nat /\ 1 <= woff /\ woff <= pos /\ pos + 1 <= lim /\ lim <= Slots + 1
       /\ lim \in Nat /\ Slots \in Nat /\ Segs \in Nat /\ Segs >= 2 /\ map = 1..(woff - 1)
  <2>1. Len(u) + 1 >= 1
    BY <1>4
  <2> QED
    BY <1>2, <1>3, <1>4, <2>1, Constants
<1>6. ~Replacing /\ ~Replacing'
  BY <1>1, <1>2 DEF Replacing
<1>7. \A s \in Seg : Good(items[s], crashes)
  BY <1>1, <1>6, SegsGood
<1>8. RingInv'
  BY <1>1, <1>2 DEF RingInv, Ring, ValidSegs
<1>9. Current' /\ Sure' = Sure
  BY <1>2, <1>3 DEF Current, Sure
<1>10. CASE it = Obsolete
  <2>1. it.st # "valid" /\ CopyStatus(it) = "obsolete"
    BY <1>10, ItemKinds DEF CopyStatus, Intact, Readable
  <2>2. pos' = pos + 1 /\ items' = items /\ map' = map /\ woff' = woff
    <3>1. CopyStatus(items[old][pos]) # "valid" /\ CopyStatus(items[old][pos]) # "invalid"
      BY <2>1
    <3> QED
      BY <3>1 DEF Copy
  <2>3. TypeOK'
    <3>1. pos' \in 0..(Slots + Segs)
      BY <1>5a, <2>2
    <3> QED
      BY <1>1, <1>2, <2>2, <3>1 DEF TypeOK
  <2>4. SegsInv'
    BY <1>2, <1>6, <1>7, <2>2, GoodSegs
  <2>5. Cardinality(Live(w, pos)) = woff - 1
    <3>1. Live(w, pos) = Live(w, pos - 1)
      BY <1>4, <1>5, <2>1, LiveStep
    <3> QED
      BY <1>3, <3>1
  <2>6. \A x \in Item : x.st = "valid" =>
          ((\E j \in 1..(woff - 1) : u[j] = x) <=> (\E i \in 1..pos : w[i] = x))
    <3>1. 1..pos = 1..(pos - 1) \cup {pos}
      BY <1>4, <1>5
    <3>2. \A x \in Item : x.st = "valid" => w[pos] # x
      BY <2>1
    <3> HIDE DEF w, u
    <3> QED
      BY <1>3, <3>1, <3>2
  <2>7. CopyInv'
    <3>1. Source(w)'
      BY <1>2, <1>3, <2>2 DEF Source, Durable, Agrees, Sure
    <3>2. pos' \in 1..lim' /\ pos' - 1 = pos /\ woff' <= pos'
      BY <1>2, <1>5a, <2>2
    <3>3. w' = w /\ u' = u
      BY <1>2, <2>2
    <3>4. \A n \in Sure' : One(u, n)'
      BY <1>3, <1>9, <3>3 DEF One
    <3> QED
      BY <1>2, <1>3, <1>9, <2>2, <2>5, <2>6, <3>1, <3>2, <3>3, <3>4 DEF CopyInv
  <2> QED
    BY <1>1, <1>2, <1>8, <2>3, <2>4, <2>7, Elsewhere DEF IInv, NeverOverruns
<1>11. CASE it.st = "valid"
  <2> DEFINE z == Append(u, it)
             m == Len(u)
  <2>1. CopyStatus(it) = "valid"
    BY <1>11, ItemKinds DEF CopyStatus, Intact, Readable
  <2>2. pos' = pos + 1 /\ items' = [items EXCEPT ![cur] = z] /\ map' = map \cup {woff} /\ woff' = woff + 1
    <3>1. CopyStatus(items[old][pos]) # "obsolete" /\ CopyStatus(items[old][pos]) # "invalid"
      BY <2>1
    <3> QED
      BY <3>1 DEF Copy
  <2>3. z \in Seq(Item) /\ Len(z) = m + 1 /\ z[m + 1] = it /\ (\A i \in 1..m : z[i] = u[i]) /\ woff = m + 1
    BY <1>3, <1>4, <1>5
  <2>4. items' \in [Seg -> Seq(Item)] /\ items'[cur] = z /\ \A s \in Seg : s # cur => items'[s] = items[s]
    BY <1>4, <2>2, <2>3
  <2> HIDE DEF z, m
  <2>5. \A i \in 1..(m + 1) : z[i].st = "valid" /\ z[i] \in Item
    <3>1. \A i \in 1..(m + 1) : i \in 1..m \/ i = m + 1
      BY <1>4 DEF m
    <3> QED
      BY <1>3, <1>4, <1>11, <2>3, <3>1 DEF m
  <2>6. Cardinality(Live(w, pos)) = woff
    <3>2. Live(w, pos) = Live(w, pos - 1) \cup {pos} /\ pos \notin Live(w, pos - 1)
      BY <1>4, <1>5, <1>11, LiveStep
    <3>3. IsFiniteSet(Live(w, pos - 1))
      <4>1. pos - 1 \in 0..Len(w)
        BY <1>4, <1>5
      <4> QED
        BY <1>4, <4>1, LiveFinite
    <3>4. Cardinality(Live(w, pos)) = Cardinality(Live(w, pos - 1)) + 1
      BY <3>2, <3>3, FS_AddElement
    <3> QED
      BY <1>3, <1>4, <3>4
  <2>7. \A x \in Item : x.st = "valid" =>
          ((\E j \in 1..woff : z[j] = x) <=> (\E i \in 1..pos : w[i] = x))
    <3>1. 1..pos = 1..(pos - 1) \cup {pos} /\ 1..woff = 1..(woff - 1) \cup {woff}
      BY <1>4, <1>5, <2>3 DEF m
    <3>2. z[woff] = it /\ \A j \in 1..(woff - 1) : z[j] = u[j]
      BY <1>4, <2>3 DEF m
    <3> HIDE DEF w, u
    <3> QED
      BY <1>3, <3>1, <3>2, SMTT(40)
  <2>8. ASSUME NEW n \in Sure PROVE One(z, n)
    <3>1. One(w, n) /\ One(u, n)
      BY <1>3 DEF Source, Durable, Agrees
    <3>2. ASSUME NEW j \in 1..m, z[j].name = n, it.name = n PROVE FALSE
      <4>1. u[j] \in Item /\ u[j].st = "valid" /\ u[j].name = n /\ j \in 1..(woff - 1)
        BY <1>3, <1>4, <2>3, <3>2 DEF m
      <4>2. PICK i \in 1..(pos - 1) : w[i] = u[j]
        BY <1>3, <4>1
      <4>3. i \in Live(w, Len(w)) /\ pos \in Live(w, Len(w)) /\ i # pos
        BY <1>4, <1>5, <1>11, <4>1, <4>2 DEF Live
      <4> QED
        BY <3>1, <3>2, <4>1, <4>2, <4>3 DEF One
    <3>3. ASSUME NEW i \in Live(z, Len(z)), NEW j \in Live(z, Len(z)), z[i].name = n, z[j].name = n
          PROVE  i = j
      <4>1. i \in 1..(m + 1) /\ j \in 1..(m + 1)
        BY <2>3 DEF Live
      <4>2. CASE i \in 1..m /\ j \in 1..m
        <5>1. i \in Live(u, Len(u)) /\ j \in Live(u, Len(u)) /\ u[i] = z[i] /\ u[j] = z[j]
          BY <1>3, <2>3, <4>2 DEF Live, m
        <5> QED
          BY <3>1, <3>3, <5>1 DEF One
      <4>3. CASE i = m + 1 /\ j \in 1..m
        BY <2>3, <3>2, <3>3, <4>3
      <4>4. CASE j = m + 1 /\ i \in 1..m
        BY <2>3, <3>2, <3>3, <4>4
      <4> QED
        <5>1. /\ i \in 1..m \/ i = m + 1
              /\ j \in 1..m \/ j = m + 1
          BY <1>4, <4>1 DEF m
        <5> QED
          BY <4>2, <4>3, <4>4, <5>1
    <3> QED
      BY <3>3 DEF One
  <2>9. Good(z, crashes)
    <3>1. Sound(z)
      <4>1. woff <= Slots
        BY <1>3, <1>4, <1>5
      <4> QED
        BY <1>4, <2>3, <2>5, <4>1 DEF Sound, Bad, m
    <3>2. ASSUME NEW k \in 0..m PROVE Few(z, k, crashes)
      <4>1. k \in Nat /\ \A i \in 1..k : z[i] = u[i]
        BY <1>4, <2>3 DEF m
      <4>2. Few(u, k, crashes)
        BY <1>4, <1>7 DEF Good, m
      <4> QED
        BY <4>1, <4>2, LiveSame
    <3>3. Few(z, m + 1, crashes)
      <4>1. Few(w, pos, crashes)
        <5>1. pos \in 0..Len(w)
          BY <1>5
        <5> QED
          BY <1>3, <1>7, <5>1 DEF Good
      <4>2. NamesIn(z, m + 1) = NamesIn(w, pos)
        <5>1. ASSUME NEW n \in NamesIn(z, m + 1) PROVE n \in NamesIn(w, pos)
          <6>1. PICK j \in Live(z, m + 1) : z[j].name = n
            BY DEF NamesIn
          <6>2. j \in 1..woff /\ z[j] \in Item /\ z[j].st = "valid"
            BY <2>3, <2>5, <6>1 DEF Live
          <6>3. PICK i \in 1..pos : w[i] = z[j]
            BY <2>7, <6>2
          <6>4. i \in Live(w, pos)
            BY <6>2, <6>3 DEF Live
          <6> QED
            BY <6>1, <6>3, <6>4 DEF NamesIn
        <5>2. ASSUME NEW n \in NamesIn(w, pos) PROVE n \in NamesIn(z, m + 1)
          <6>1. PICK i \in Live(w, pos) : w[i].name = n
            BY DEF NamesIn
          <6>2. i \in 1..pos /\ w[i] \in Item /\ w[i].st = "valid"
            BY <1>4, <1>5, <6>1 DEF Live
          <6>3. PICK j \in 1..woff : z[j] = w[i]
            BY <2>7, <6>2
          <6>4. j \in Live(z, m + 1)
            BY <2>3, <6>2, <6>3 DEF Live
          <6> QED
            BY <6>1, <6>3, <6>4 DEF NamesIn
        <5> QED
          BY <5>1, <5>2
      <4>3. Cardinality(Live(z, m + 1)) = m + 1
        <5>1. Live(z, m + 1) = 1..(m + 1)
          BY <2>5 DEF Live
        <5> QED
          BY <1>4, <5>1, FS_Interval DEF m
      <4> QED
        BY <2>3, <2>6, <4>1, <4>2, <4>3 DEF Few
    <3>4. \A k \in 0..Len(z) : k \in 0..m \/ k = m + 1
      BY <1>4, <2>3 DEF m
    <3> QED
      BY <3>1, <3>2, <3>3, <3>4 DEF Good
  <2>10. SegsInv'
    <3>1. \A s \in Seg : Good(items'[s], crashes)
      BY <1>7, <2>4, <2>9
    <3> QED
      BY <1>2, <1>6, <3>1, GoodSegs
  <2>11. TypeOK'
    <3>1. pos' \in 0..(Slots + Segs) /\ woff' \in 1..(Slots + 1) /\ map' \subseteq 1..Slots
      BY <1>5a, <2>2
    <3> QED
      BY <1>1, <1>2, <2>4, <3>1 DEF TypeOK
  <2>12. CopyInv'
    <3>1. w' = w /\ u' = z
      BY <1>2, <1>3, <1>4, <2>4
    <3>2. Source(w)'
      BY <1>2, <1>3, <3>1 DEF Source, Durable, Agrees, Sure
    <3>3. pos' \in 1..lim' /\ pos' - 1 = pos /\ woff' <= pos' /\ woff' - 1 = woff /\ woff' = Len(z) + 1
      BY <1>2, <1>5a, <2>2, <2>3
    <3>4. \A n \in Sure' : One(u, n)'
      BY <1>9, <2>8, <3>1 DEF One
    <3>5. map' = 1..(woff' - 1)
      BY <1>5a, <2>2, <3>3
    <3> DEFINE w1 == items'[old']
               z1 == items'[cur']
    <3>6. w1 = w /\ z1 = z
      BY <3>1
    <3> HIDE DEF w, z, w1, z1
    <3>7. \A x \in Item : x.st = "valid" =>
            ((\E j \in 1..(woff' - 1) : z1[j] = x) <=> (\E i \in 1..(pos' - 1) : w1[i] = x))
      BY <2>7, <3>3, <3>6
    <3>8. Cardinality(Live(w1, pos' - 1)) = woff' - 1 /\ \A i \in 1..Len(z1) : z1[i].st = "valid"
      BY <2>3, <2>5, <2>6, <3>3, <3>6
    <3>9. woff' = Len(z1) + 1
      BY <3>3, <3>6
    <3>10. /\ old' \in Seg /\ cur' = Succ(old') /\ Current' /\ Source(items[old])'
           /\ \A n \in Sure' : One(items[cur], n)'
      BY <1>2, <1>3, <1>9, <3>2, <3>4 DEF w
    <3> QED
      BY <3>3, <3>5, <3>7, <3>8, <3>9, <3>10, Zenon DEF CopyInv, w1, z1
  <2> QED
    BY <1>1, <1>2, <1>8, <2>10, <2>11, <2>12, Elsewhere DEF IInv, NeverOverruns
<1> QED
  BY <1>5, <1>10, <1>11

\* A value whose item is not among those still to be copied is in the copy.
LEMMA CopiedValue ==
  ASSUME TypeOK, CopyInv, pc = "copy", NEW n, NEW v, Holds(items[old], n, v),
         \A i \in pos..(lim - 1) : items[old][i].st = "valid" => items[old][i].name # n
  PROVE  Holds(items[cur], n, v)
<1> DEFINE w == items[old]
           u == items[cur]
<1>1. /\ old \in Seg /\ cur = Succ(old) /\ Source(w)
      /\ pos \in 1..lim /\ woff = Len(u) + 1
      /\ \A x \in Item : x.st = "valid" =>
           ((\E j \in 1..(woff - 1) : u[j] = x) <=> (\E i \in 1..(pos - 1) : w[i] = x))
  BY DEF CopyInv
<1>2. cur \in Seg /\ items \in [Seg -> Seq(Item)]
  BY DEF TypeOK
<1>3. w \in Seq(Item) /\ u \in Seq(Item) /\ Len(w) \in Nat /\ Len(u) \in Nat
  BY <1>1, <1>2
<1>4. /\ lim \in Nat /\ lim <= Len(w) + 1 /\ pos \in Nat /\ pos <= lim /\ woff - 1 = Len(u)
      /\ \A i \in lim..Len(w) : w[i].st # "valid"
  BY <1>1, <1>3, Constants DEF Source
<1> HIDE DEF w, u
<1>5. ASSUME NEW j \in Live(u, Len(u)), u[j].name = n PROVE u[j].val = v
  <2>1. j \in 1..(woff - 1) /\ u[j] \in Item /\ u[j].st = "valid"
    BY <1>3, <1>4 DEF Live
  <2>2. PICK i \in 1..(pos - 1) : w[i] = u[j]
    BY <1>1, <2>1
  <2>3. i \in Live(w, Len(w))
    BY <1>3, <1>4, <2>1, <2>2 DEF Live
  <2> QED
    BY <1>5, <2>2, <2>3 DEF Holds, w
<1>6. ASSUME v # None PROVE \E j \in Live(u, Len(u)) : u[j].name = n
  <2>1. PICK i \in Live(w, Len(w)) : w[i].name = n
    BY <1>6 DEF Holds, w
  <2>2. i \in 1..Len(w) /\ w[i].st = "valid" /\ w[i] \in Item
    BY <1>3 DEF Live
  <2>3. i \notin lim..Len(w) /\ i \notin pos..(lim - 1)
    BY <1>4, <2>1, <2>2 DEF w
  <2>4. i \in 1..(pos - 1)
    BY <1>3, <1>4, <2>2, <2>3
  <2>5. PICK j \in 1..(woff - 1) : u[j] = w[i]
    BY <1>1, <2>2, <2>4
  <2>6. j \in Live(u, Len(u))
    BY <1>4, <2>2, <2>5 DEF Live
  <2> QED
    BY <2>1, <2>5, <2>6
<1> QED
  BY <1>5, <1>6 DEF Holds, u

\* The copy has all items, and room for one more.
LEMMA CopyDoneInv ==
  ASSUME IInv, CopyDone
  PROVE  IInv'
<1> DEFINE w == items[old]
           u == items[cur]
<1>1. TypeOK /\ SegsInv /\ RingInv /\ CopyInv /\ pc = "copy"
  BY DEF IInv, CopyDone
<1>2. /\ hdr' = [hdr EXCEPT ![old] = [st |-> "obsolete", seq |-> 0]]
      /\ items' = [items EXCEPT ![old] = <<Torn>>]
      /\ old' = None /\ lim' = 0 /\ pos' = 0 /\ pc' = IF booting THEN "clear" ELSE "write"
      /\ cur' = cur /\ seqId' = seqId /\ woff' = woff /\ map' = map /\ booting' = booting
      /\ op' = op /\ arg' = arg /\ tgt' = tgt /\ crashes' = crashes /\ acked' = acked /\ exposed' = exposed
      /\ pos >= lim
  BY DEF CopyDone, region, call, history
<1>3. /\ old \in Seg /\ cur = Succ(old) /\ Current /\ Source(w)
      /\ pos \in 1..lim /\ woff = Len(u) + 1 /\ woff <= pos
      /\ \A i \in 1..Len(u) : u[i].st = "valid"
      /\ map = 1..(woff - 1)
      /\ Cardinality(Live(w, pos - 1)) = woff - 1
      /\ \A n \in Sure : One(u, n)
  BY <1>1 DEF CopyInv
<1>4. cur \in Seg /\ cur # old /\ items \in [Seg -> Seq(Item)] /\ crashes \in 0..MaxCrash /\ crashes \in Nat
  BY <1>1, <1>3, RingOfSegs, Constants DEF TypeOK
<1>5. w \in Seq(Item) /\ u \in Seq(Item) /\ Len(w) \in Nat /\ Len(u) \in Nat
  BY <1>3, <1>4
<1>6. pos = lim /\ lim \in Nat /\ lim >= 1 /\ lim <= Len(w) + 1
  BY <1>2, <1>3, Constants DEF Source
<1>7. ~Replacing /\ ~Replacing'
  BY <1>1, <1>2 DEF Replacing
<1>8. \A s \in Seg : Good(items[s], crashes)
  BY <1>1, <1>7, SegsGood
<1>9. /\ items' \in [Seg -> Seq(Item)] /\ (\A s \in Seg : Good(items'[s], crashes))
      /\ \A s \in Seg : s # old => items'[s] = items[s]
  BY <1>1, <1>2, <1>3, <1>4, <1>8, GoodNew, OneSegment
<1>10. /\ hdr' \in [Seg -> Header]
       /\ \A t \in Seg : t # old => hdr'[t] = hdr[t]
       /\ Ring(cur, seqId) => \A t \in ValidSegs' : hdr'[t].seq = Minus(seqId, Behind(t, cur))
  <2> DEFINE h == [st |-> "obsolete", seq |-> 0]
  <2>1. h \in Header /\ h.st # "valid" /\ hdr' = [hdr EXCEPT ![old] = h] /\ old \in Seg
    BY <1>2, <1>3, LostHeaders
  <2> HIDE DEF h
  <2> QED
    BY <1>1, <2>1, HeaderLost, ZenonT(40)
<1>11. items'[cur'] = u /\ hdr'[cur'] = hdr[cur] /\ Sure' = Sure
  BY <1>2, <1>4, <1>9, <1>10 DEF Sure
<1>12. TypeOK'
  <2>1. 0 \in 0..(Slots + Segs) /\ 0 \in 0..(Slots + 1) /\ pc' \in {"clear", "write"}
    BY <1>2, Constants
  <2> QED
    BY <1>1, <1>2, <1>9, <1>10, <2>1 DEF TypeOK, Header
<1>13. SegsInv'
  BY <1>2, <1>7, <1>9, GoodSegs
<1>14. RingInv'
  BY <1>1, <1>2, <1>10 DEF RingInv, Ring
<1>15. Current'
  BY <1>2, <1>3, <1>11 DEF Current
<1>16. \A n, v : Holds(w, n, v) => Holds(u, n, v)
  <2>1. \A i \in pos..(lim - 1) : FALSE
    BY <1>6
  <2> QED
    BY <1>1, <2>1, CopiedValue
<1>17. woff <= Slots
  <2>1. pos - 1 \in 0..Len(w)
    BY <1>5, <1>6
  <2>2. Few(w, pos - 1, crashes)
    BY <1>3, <1>8, <2>1 DEF Good
  <2>3. Cardinality(NamesIn(w, pos - 1)) \in Nat /\ Cardinality(NamesIn(w, pos - 1)) <= Cardinality(Names)
    BY <1>5, <2>1, LiveFinite
  <2>4. woff - 1 <= Cardinality(NamesIn(w, pos - 1)) + crashes /\ woff \in Nat
    BY <1>1, <1>3, <2>2, Constants DEF Few, TypeOK
  <2> QED
    BY <1>4, <2>3, <2>4, Constants
<1>18. Live(u, Len(u)) = map /\ Len(u) = woff - 1 /\ \A i \in 1..Len(u) : ~Bad(u[i])
  BY <1>3, <1>5 DEF Live, Bad
<1>19. CASE booting
  <2>1. \A n \in Sure' : Durable(items[cur], n)'
    <3>1. \A n \in Sure : Durable(w, n)
      BY <1>3, <1>19 DEF Source
    <3> QED
      BY <1>2, <1>3, <1>11, <1>16, <3>1 DEF Durable
  <2>2. Full' /\ Mapped'
    BY <1>2, <1>11, <1>18 DEF Full, Mapped
  <2>3. ClearInv'
    <3>1. 0 <= ClearCount
      BY Constants DEF ClearCount
    <3> QED
      BY <1>2, <1>3, <1>11, <1>15, <1>19, <2>1, <2>2, <3>1 DEF ClearInv
  <2> QED
    BY <1>2, <1>12, <1>13, <1>14, <1>19, <2>3, Elsewhere DEF IInv, NeverOverruns
<1>20. CASE ~booting
  <2>1. /\ op = "set" /\ arg.name \in Names /\ arg.val # None
        /\ \A n \in Sure : Agrees(w, n)
    BY <1>3, <1>20 DEF Source
  <2>2. \A n \in Sure' : Agrees(items[cur], n)'
    BY <1>2, <1>3, <1>11, <1>16, <2>1 DEF Agrees
  <2>3. SetInv' /\ WriteInv'
    BY <1>2, <1>11, <1>15, <1>17, <1>18, <1>20, <2>1, <2>2 DEF SetInv, WriteInv
  <2> QED
    BY <1>2, <1>12, <1>13, <1>14, <1>20, <2>3, Elsewhere DEF IInv, NeverOverruns
<1> QED
  BY <1>19, <1>20

\* Header and name of the new item, in the first free slot.
LEMMA WriteItemInv ==
  ASSUME IInv, WriteItem
  PROVE  IInv'
<1> DEFINE w == items[cur]
           z == Append(w, NoData(arg.name))
<1>1. TypeOK /\ SegsInv /\ RingInv /\ SetInv /\ WriteInv /\ pc = "write"
  BY DEF IInv, WriteItem
<1>2. ~Replacing /\ woff <= Slots /\ arg.val # None
  BY <1>1 DEF Replacing, WriteInv
<1>3. /\ Current /\ ~booting /\ old = None /\ op = "set" /\ arg.name \in Names
      /\ map = Live(w, woff - 1)
      /\ \A i \in 1..(woff - 1) : ~Bad(w[i])
      /\ Len(w) = woff - 1
      /\ \A n \in Sure : Agrees(w, n)
  BY <1>1, <1>2 DEF SetInv
<1>4. /\ items' = [items EXCEPT ![cur] = z] /\ pc' = "data" /\ tgt' = Find(arg.name)
      /\ hdr' = hdr /\ cur' = cur /\ seqId' = seqId /\ woff' = woff /\ map' = map /\ booting' = booting
      /\ old' = old /\ pos' = pos /\ lim' = lim /\ op' = op /\ arg' = arg
      /\ crashes' = crashes /\ acked' = acked /\ exposed' = exposed
  <2>1. ~(woff > Slots)
    BY <1>1, <1>2, Constants DEF TypeOK
  <2> QED
    BY <2>1 DEF WriteItem, region, purge, history
<1>5. cur \in Seg /\ w \in Seq(Item) /\ Len(w) \in Nat /\ Len(w) \in 0..Len(w) /\ crashes \in Nat /\ woff \in Nat
  BY <1>1, Constants DEF TypeOK
<1>6. \A s \in Seg : Good(items[s], crashes)
  BY <1>1, <1>2, SegsGood
<1>7. /\ Good(z, crashes) /\ Len(z) = Len(w) + 1
      /\ Live(z, Len(w)) = Live(w, Len(w))
      /\ z[Len(w) + 1] = NoData(arg.name) /\ \A i \in 1..Len(w) : z[i] = w[i]
      /\ \A n : One(z, n) <=> One(w, n)
      /\ \A n, v : Holds(z, n, v) <=> Holds(w, n, v)
  <2>1. NoData(arg.name) \in Item /\ Bad(NoData(arg.name))
    BY <1>3, ItemKinds DEF Bad
  <2>2. Len(w) < Slots
    BY <1>2, <1>3, <1>5, Constants
  <2>3. Good(w, crashes)
    BY <1>5, <1>6
  <2> HIDE DEF w
  <2> QED
    BY <1>5, <2>1, <2>2, <2>3, GoodAppendBad
<1> HIDE DEF z
<1>8. /\ items' \in [Seg -> Seq(Item)] /\ items'[cur] = z
      /\ \A s \in Seg : Good(items'[s], crashes)
  BY <1>1, <1>4, <1>5, <1>6, <1>7, OneSegment
<1>9. /\ (Find(arg.name) \in map /\ w[Find(arg.name)].name = arg.name) \/ Find(arg.name) = 0
      /\ Find(arg.name) = 0 => \A i \in map : w[i].name # arg.name
  BY <1>1, <1>3, <1>5, FindFinds
<1>10. TypeOK'
  <2>1. Find(arg.name) \in 0..Slots
    <3>1. map \subseteq 1..Slots /\ 0 \in 0..Slots /\ 1..Slots \subseteq 0..Slots
      BY <1>1, Constants DEF TypeOK
    <3> QED
      BY <1>9, <3>1
  <2> QED
    BY <1>1, <1>4, <1>8, <2>1 DEF TypeOK
<1>11. ~Replacing'
  BY <1>4 DEF Replacing
<1>12. SegsInv'
  BY <1>4, <1>8, <1>11, GoodSegs
<1>13. RingInv'
  BY <1>1, <1>4 DEF RingInv, Ring, ValidSegs
<1>14. \A i \in map : i \in 1..Len(w) /\ z[i] = w[i]
  BY <1>3, <1>5, <1>7 DEF Live
<1>15. SetInv'
  <2>1. Current' /\ Sure' = Sure
    BY <1>3, <1>4 DEF Current, Sure
  <2>2. \A n \in Sure' : Agrees(items[cur], n)'
    BY <1>3, <1>4, <1>7, <1>8, <2>1 DEF Agrees
  <2>3. map' = Live(z, woff' - 1) /\ (\A i \in 1..(woff' - 1) : ~Bad(z[i])) /\ Len(z) = woff'
    BY <1>3, <1>4, <1>5, <1>7
  <2> QED
    BY <1>3, <1>4, <1>8, <2>1, <2>2, <2>3 DEF SetInv
<1>16. DataInv'
  <2>1. z[woff] = NoData(arg.name)
    BY <1>3, <1>5, <1>7
  <2>2. Find(arg.name) # 0 => Find(arg.name) \in map /\ z[Find(arg.name)].name = arg.name
    BY <1>9, <1>14
  <2>3. Find(arg.name) = 0 => \A i \in map : z[i].name # arg.name
    BY <1>9, <1>14
  <2> QED
    BY <1>2, <1>4, <1>8, <2>1, <2>2, <2>3 DEF DataInv
<1> QED
  BY <1>4, <1>10, <1>12, <1>13, <1>15, <1>16, Elsewhere DEF IInv, NeverOverruns

\* The new item is complete: the old one, if any, is a duplicate now.
LEMMA WriteDataInv ==
  ASSUME IInv, WriteData
  PROVE  IInv'
<1> DEFINE w == items[cur]
           x == Valid(arg.name, arg.val)
           z == [w EXCEPT ![woff] = x]
           m == woff - 1
<1>1. TypeOK /\ SegsInv /\ RingInv /\ SetInv /\ DataInv /\ pc = "data"
  BY DEF IInv, WriteData
<1>2. ~Replacing
  BY <1>1 DEF Replacing
<1>3. /\ Current /\ ~booting /\ old = None /\ op = "set" /\ arg.name \in Names
      /\ map = Live(w, m)
      /\ \A i \in 1..m : ~Bad(w[i])
      /\ Len(w) = woff
      /\ \A n \in Sure : Agrees(w, n)
  BY <1>1, <1>2 DEF SetInv
<1>4. /\ woff <= Slots /\ arg.val # None /\ w[woff] = NoData(arg.name)
      /\ tgt = 0 => \A i \in map : w[i].name # arg.name
      /\ tgt # 0 => tgt \in map /\ w[tgt].name = arg.name
  BY <1>1 DEF DataInv
<1>5. /\ items' = [items EXCEPT ![cur] = z] /\ map' = map \cup {woff} /\ woff' = woff + 1
      /\ hdr' = hdr /\ cur' = cur /\ seqId' = seqId /\ booting' = booting
      /\ old' = old /\ pos' = pos /\ lim' = lim /\ crashes' = crashes /\ exposed' = exposed
  BY DEF WriteData, purge
<1>6. /\ cur \in Seg /\ w \in Seq(Item) /\ woff \in Nat /\ woff >= 1 /\ m \in Nat /\ m + 1 = woff
      /\ crashes \in Nat /\ arg.val \in Vals /\ Slots \in Nat
  BY <1>1, <1>4, Constants DEF TypeOK
<1>7. x \in Item /\ x.st = "valid" /\ x.name = arg.name /\ x.val = arg.val
  BY <1>3, <1>6, ItemKinds
<1> HIDE DEF x
<1>8. z \in Seq(Item) /\ Len(z) = woff /\ z[woff] = x /\ \A i \in 1..m : z[i] = w[i]
  BY <1>3, <1>6, <1>7
<1> HIDE DEF z, m
<1>9. \A k \in 0..woff : k \in 0..m \/ k = woff
  BY <1>6
<1>10. 1..woff = 1..m \cup {woff} /\ woff \notin 1..m
  BY <1>6
<1>11. \A s \in Seg : Good(items[s], crashes)
  BY <1>1, <1>2, SegsGood
<1>12. Sound(z)
  <2>1. ASSUME NEW i \in 1..Len(z), NEW j \in 1..Len(z), i < j PROVE ~Bad(z[i])
    BY <1>3, <1>6, <1>8, <2>1
  <2>2. \A i \in 1..Len(z) : ~(i > Slots)
    BY <1>4, <1>6, <1>8
  <2> QED
    BY <1>8, <2>1, <2>2 DEF Sound
<1>13. ASSUME NEW k \in 0..m PROVE Few(z, k, crashes)
  <2>1. k \in Nat /\ (\A i \in 1..k : z[i] = w[i]) /\ k \in 0..Len(w)
    BY <1>3, <1>6, <1>8
  <2>2. Few(w, k, crashes)
    BY <1>6, <1>11, <2>1 DEF Good
  <2> QED
    BY <2>1, <2>2, LiveSame
<1>14. Live(z, m) = Live(w, m) /\ NamesIn(z, m) = NamesIn(w, m)
  BY <1>6, <1>8, LiveSame
<1>15. /\ Few(z, woff, crashes + 1) /\ (arg.name \notin NamesIn(z, m) => Few(z, woff, crashes))
       /\ Live(z, woff) = Live(z, m) \cup {woff}
  <2>1. m + 1 <= Len(z) /\ z[m + 1] = x /\ m \in 0..m
    BY <1>6, <1>8
  <2>2. Few(z, m, crashes)
    BY <1>13, <2>1
  <2>3. Few(z, m + 1, crashes + 1) /\ (arg.name \notin NamesIn(z, m) => Few(z, m + 1, crashes))
    BY <1>6, <1>7, <1>8, <2>1, <2>2, FewExtend
  <2>4. Live(z, m + 1) = Live(z, m) \cup {m + 1}
    <3>1. z \in Seq(Item) /\ m \in Nat /\ m + 1 <= Len(z) /\ z[m + 1].st = "valid"
      BY <1>6, <1>7, <1>8, <2>1
    <3> QED
      BY <3>1, LiveExtend
  <2> QED
    BY <1>6, <2>3, <2>4
<1>16. map' = Live(z, Len(z)) /\ \A i \in map : i \in 1..m /\ z[i] = w[i]
  BY <1>3, <1>5, <1>8, <1>14, <1>15 DEF Live
<1>17. items' \in [Seg -> Seq(Item)] /\ items'[cur] = z /\ items'[cur'] = z
       /\ \A s \in Seg : s # cur => items'[s] = items[s]
  <2>1. items \in [Seg -> Seq(Item)]
    BY <1>1 DEF TypeOK
  <2> QED
    BY <1>5, <1>6, <1>8, <2>1
<1>18. RingInv'
  BY <1>1, <1>5, <1>17 DEF RingInv, Ring, ValidSegs
<1>19. Current' /\ Sure' = Sure
  BY <1>3, <1>5 DEF Current, Sure
<1>20. Live(w, Len(w)) = map
  <2>1. w[m + 1].st # "valid" /\ m + 1 <= Len(w)
    BY <1>3, <1>4, <1>6, ItemKinds
  <2>2. Live(w, m + 1) = Live(w, m)
    BY <1>6, <2>1, LiveExtend
  <2> QED
    BY <1>3, <1>6, <2>2
<1>21. \A i \in 1..Len(z) : ~Bad(z[i])
  BY <1>3, <1>7, <1>8, <1>10 DEF Bad
\* Of the other names nothing changes.
<1>22. ASSUME NEW n, n # arg.name
       PROVE  (One(z, n) <=> One(w, n)) /\ \A v : Holds(z, n, v) <=> Holds(w, n, v)
  <2>1. \A i \in Live(z, Len(z)) : z[i].name = n => i \in map
    BY <1>5, <1>7, <1>8, <1>16, <1>22
  <2>2. map \subseteq Live(z, Len(z)) /\ \A i \in map : z[i] = w[i]
    BY <1>5, <1>16
  <2> HIDE DEF w
  <2> QED
    BY <1>20, <2>1, <2>2 DEF One, Holds
<1>23. CASE tgt = 0
  <2>1. /\ pc' = "idle" /\ op' = "none" /\ arg' = NoArg /\ tgt' = 0
        /\ acked' = [acked EXCEPT ![arg.name] = arg.val]
    BY <1>23 DEF WriteData, SetReturns
  <2>2. acked \in [Names -> Vals \cup {None}]
    BY <1>1 DEF TypeOK
  <2>3. acked' \in [Names -> Vals \cup {None}] /\ acked'[arg.name] = arg.val
        /\ \A n \in Names : n # arg.name => acked'[n] = acked[n]
    BY <1>3, <1>6, <2>1, <2>2
  <2>4. TypeOK'
    <3>1. /\ 0 \in 0..Slots /\ woff' \in 1..(Slots + 1) /\ map' \subseteq 1..Slots
      BY <1>1, <1>4, <1>5, <1>6 DEF TypeOK
    <3>2. NoArg \in [name : Names \cup {None}, val : Vals \cup {None}]
      BY DEF NoArg
    <3> QED
      BY <1>1, <1>5, <1>17, <2>1, <2>3, <3>1, <3>2 DEF TypeOK
  <2>5. arg.name \notin NamesIn(z, m)
    BY <1>3, <1>4, <1>14, <1>23 DEF NamesIn
  <2>6. Good(z, crashes)
    BY <1>8, <1>9, <1>12, <1>13, <1>15, <2>5 DEF Good
  <2>7. SegsInv'
    <3>1. \A s \in Seg : Good(items'[s], crashes')
      BY <1>5, <1>11, <1>17, <2>6
    <3>2. ~Replacing'
      BY <2>1 DEF Replacing
    <3> QED
      BY <3>1, <3>2, GoodSegs
  <2>8. One(z, arg.name) /\ Holds(z, arg.name, arg.val)
    <3>1. \A i \in Live(z, Len(z)) : z[i].name = arg.name <=> i = woff
      BY <1>4, <1>5, <1>7, <1>8, <1>16, <1>23
    <3>2. woff \in Live(z, Len(z)) /\ z[woff].val = arg.val
      BY <1>5, <1>7, <1>8, <1>16
    <3> QED
      BY <3>1, <3>2 DEF One, Holds
  <2>9. ASSUME NEW n \in Sure' PROVE One(z, n) /\ Holds(z, n, acked'[n])
    <3>1. n \in Sure /\ n \in Names
      BY <1>19 DEF Sure
    <3>2. CASE n = arg.name
      BY <2>3, <2>8, <3>2
    <3>3. CASE n # arg.name
      BY <1>3, <1>22, <2>3, <3>1, <3>3 DEF Agrees
    <3> QED
      BY <3>2, <3>3
  <2>10. IdleInv'
    <3>1. Full' /\ Mapped' /\ woff' = Len(z) + 1
      BY <1>5, <1>8, <1>16, <1>17, <1>21 DEF Full, Mapped
    <3>2. \A n \in Sure' : Agrees(items[cur], n)'
      BY <1>17, <2>9 DEF Agrees
    <3> QED
      BY <1>3, <1>5, <1>17, <1>19, <2>1, <3>1, <3>2 DEF IdleInv
  <2> QED
    BY <1>18, <2>1, <2>4, <2>7, <2>10, Elsewhere DEF IInv, NeverOverruns
<1>24. CASE tgt # 0
  <2>1. pc' = "obsolete" /\ op' = op /\ arg' = arg /\ tgt' = tgt /\ acked' = acked
    BY <1>24 DEF WriteData, call
  <2>2. TypeOK'
    <3>1. woff' \in 1..(Slots + 1) /\ map' \subseteq 1..Slots
      BY <1>1, <1>4, <1>5, <1>6 DEF TypeOK
    <3> QED
      BY <1>1, <1>5, <1>17, <2>1, <3>1 DEF TypeOK
  <2>3. Replacing' /\ woff' - 1 = woff
    BY <1>4, <1>5, <1>6, <2>1 DEF Replacing
  <2>4. SegsInv'
    <3>1. ASSUME NEW s \in Seg, s # cur, NEW k \in 0..Len(items'[s])
          PROVE  Sound(items'[s]) /\ Few(items'[s], k, Spare(s, k)')
      BY <1>5, <1>11, <1>17, <3>1 DEF Good, Spare
    <3>2. ASSUME NEW s \in Seg, s # cur PROVE Sound(items'[s])
      BY <1>11, <1>17, <3>2 DEF Good
    <3>3. ASSUME NEW k \in 0..Len(z) PROVE Few(z, k, Spare(cur, k)')
      <4>1. CASE k = woff
        <5>1. Spare(cur, k)' = crashes + 1
          BY <1>5, <2>3, <4>1 DEF Spare
        <5> QED
          BY <1>15, <4>1, <5>1
      <4>2. CASE k \in 0..m
        <5>1. k # woff
          BY <1>6, <4>2
        <5>2. Spare(cur, k)' = crashes
          BY <1>5, <2>3, <5>1 DEF Spare
        <5> QED
          BY <1>13, <4>2, <5>2
      <4> QED
        BY <1>8, <1>9, <4>1, <4>2
    <3>4. ASSUME NEW s \in Seg
          PROVE  Sound(items'[s]) /\ \A k \in 0..Len(items'[s]) : Few(items'[s], k, Spare(s, k)')
      <4>1. CASE s = cur
        <5>1. s = cur' /\ items'[s] = z
          BY <1>5, <1>17, <4>1
        <5>2. \A k : Spare(s, k)' = Spare(cur, k)'
          BY <5>1 DEF Spare
        <5> QED
          BY <1>12, <3>3, <5>1, <5>2
      <4>2. CASE s # cur
        BY <3>1, <3>2, <4>2
      <4> QED
        BY <4>1, <4>2
    <3> QED
      BY <3>4 DEF SegsInv
  <2>5. SetInv'
    <3>1. map' = Live(z, woff' - 1) /\ (\A i \in 1..(woff' - 1) : ~Bad(z[i])) /\ Len(z) = woff' - 1
      BY <1>8, <1>16, <1>21, <2>3
    <3> QED
      BY <1>3, <1>5, <1>17, <1>19, <2>1, <2>3, <3>1 DEF SetInv
  <2>6. TargetInv'
    <3>1. tgt \in map /\ tgt \in map' /\ z[tgt].name = arg.name /\ tgt < woff' - 1 /\ z[woff' - 1] = x
      BY <1>4, <1>5, <1>6, <1>8, <1>16, <1>24, <2>3
    <3>2. \A n \in Sure' \ {arg.name} : Agrees(items[cur], n)'
      BY <1>3, <1>17, <1>19, <1>22, <2>1 DEF Agrees
    <3>3. ASSUME arg.name \in Sure, NEW i \in map', z[i].name = arg.name PROVE i \in {tgt, woff' - 1}
      <4>1. CASE i = woff
        BY <2>3, <4>1
      <4>2. CASE i \in map
        <5>1. w[i].name = arg.name /\ w[tgt].name = arg.name /\ i \in Live(w, Len(w)) /\ tgt \in Live(w, Len(w))
          BY <1>4, <1>16, <1>20, <1>24, <3>3, <4>2
        <5>2. One(w, arg.name)
          BY <1>3, <3>3 DEF Agrees
        <5> QED
          BY <5>1, <5>2 DEF One
      <4> QED
        BY <1>5, <4>1, <4>2
    <3> QED
      BY <1>17, <1>19, <2>1, <3>1, <3>2, <3>3 DEF TargetInv, x
  <2> QED
    BY <1>18, <2>1, <2>2, <2>4, <2>5, <2>6, Elsewhere DEF IInv, NeverOverruns
<1> QED
  BY <1>23, <1>24

\* The old item is marked obsolete, and the call returns.
LEMMA MarkOldInv ==
  ASSUME IInv, MarkOld
  PROVE  IInv'
<1> DEFINE w == items[cur]
           z == [w EXCEPT ![tgt] = Obsolete]
           m == woff - 1
<1>1. TypeOK /\ SegsInv /\ RingInv /\ SetInv /\ TargetInv /\ pc = "obsolete"
  BY DEF IInv, MarkOld
<1>2. /\ items' = [items EXCEPT ![cur] = z] /\ map' = map \ {tgt} /\ pc' = "idle" /\ op' = "none"
      /\ arg' = NoArg /\ tgt' = 0 /\ acked' = [acked EXCEPT ![arg.name] = arg.val]
      /\ hdr' = hdr /\ cur' = cur /\ seqId' = seqId /\ woff' = woff /\ booting' = booting
      /\ old' = old /\ pos' = pos /\ lim' = lim /\ crashes' = crashes /\ exposed' = exposed
  BY DEF MarkOld, SetReturns, purge
<1>3. /\ Current /\ ~booting /\ old = None /\ op = "set" /\ arg.name \in Names
      /\ map = Live(w, m)
      /\ \A i \in 1..m : ~Bad(w[i])
      /\ Len(w) = m
      /\ ~Replacing => \A n \in Sure : Agrees(w, n)
  BY <1>1 DEF SetInv
<1>4. /\ tgt \in map /\ w[tgt].name = arg.name
      /\ arg.val # None =>
           /\ tgt < m /\ w[m] = Valid(arg.name, arg.val)
           /\ \A n \in Sure \ {arg.name} : Agrees(w, n)
           /\ arg.name \in Sure => \A i \in map : w[i].name = arg.name => i \in {tgt, m}
  BY <1>1 DEF TargetInv
<1>5. /\ cur \in Seg /\ w \in Seq(Item) /\ woff \in Nat /\ m \in Nat /\ map \subseteq 1..Slots
      /\ crashes \in Nat /\ arg.val \in Vals \cup {None} /\ Slots \in Nat /\ woff = m + 1
  BY <1>1, <1>3, Constants DEF TypeOK
<1>6. tgt \in 1..Len(w) /\ tgt <= Slots
  BY <1>3, <1>4, <1>5 DEF Live
<1>7. /\ z \in Seq(Item) /\ Len(z) = m /\ z[tgt] = Obsolete
      /\ \A j \in 1..m : j # tgt => z[j] = w[j]
      /\ \A k \in 0..m : Live(z, k) = Live(w, k) \ {tgt}
  <2>1. /\ z \in Seq(Item) /\ Len(z) = Len(w) /\ z[tgt] = Obsolete
        /\ \A j \in 1..Len(w) : j # tgt => z[j] = w[j]
        /\ \A k \in 0..Len(w) : Live(z, k) = Live(w, k) \ {tgt}
    BY <1>5, <1>6, LiveObsolete
  <2> HIDE DEF z, w, m
  <2> QED
    BY <1>3, <2>1
<1>8. \A k \in 0..m, c \in Nat :
        /\ Few(w, k, c) => Few(z, k, c)
        /\ tgt \in Live(w, k) /\ w[tgt].name \in NamesIn(z, k) /\ Few(w, k, c + 1) => Few(z, k, c)
  BY <1>3, <1>5, <1>6, FewObsolete
<1> HIDE DEF z, m
<1>9. m \in 0..m
  BY <1>5
<1>10. map' = Live(z, Len(z)) /\ map = Live(w, Len(w))
  BY <1>2, <1>3, <1>7, <1>9
<1>11. \A i \in map : i \in 1..m
  BY <1>3 DEF Live
<1>12. \A k \in 0..Len(w) : Few(w, k, Spare(cur, k)) /\ Sound(w)
  BY <1>1, <1>5 DEF SegsInv
<1>13. \A s \in Seg : s # cur => Good(items[s], crashes)
  BY <1>1 DEF SegsInv, Spare, Good
<1>14. Sound(z)
  <2>1. \A i \in 1..Len(z) : ~Bad(z[i])
    BY <1>3, <1>7, ItemKinds
  <2>2. \A i \in 1..Len(z) : i > Slots => z[i] = Torn
    BY <1>3, <1>5, <1>6, <1>7, <1>9, <1>12 DEF Sound
  <2> QED
    BY <1>7, <2>1, <2>2 DEF Sound
<1>15. ASSUME NEW k \in 0..m PROVE Few(z, k, crashes)
  <2>1. Few(w, k, Spare(cur, k))
    BY <1>3, <1>12
  <2>2. CASE ~(Replacing /\ k = m)
    <3>1. Spare(cur, k) = crashes
      BY <1>5, <2>2 DEF Spare, m
    <3> QED
      BY <1>5, <1>8, <2>1, <3>1
  <2>3. CASE Replacing /\ k = m
    <3>1. Spare(cur, k) = crashes + 1 /\ arg.val # None
      BY <1>5, <2>3 DEF Spare, Replacing, m
    <3>2. tgt \in Live(w, k) /\ tgt # m /\ m \in 1..m /\ w[m] = Valid(arg.name, arg.val)
      BY <1>3, <1>4, <1>5, <1>11, <2>3, <3>1
    <3>3. z[m] = w[m] /\ z[m].st = "valid" /\ z[m].name = arg.name
      BY <1>3, <1>5, <1>7, <3>1, <3>2, ItemKinds
    <3>4. m \in Live(z, m)
      BY <3>2, <3>3 DEF Live
    <3>5. w[tgt].name \in NamesIn(z, k)
      BY <1>4, <2>3, <3>3, <3>4 DEF NamesIn
    <3>6. Few(w, k, crashes + 1)
      BY <2>1, <3>1
    <3> QED
      BY <1>5, <1>8, <3>2, <3>5, <3>6
  <2> QED
    BY <2>2, <2>3
<1>16. items' \in [Seg -> Seq(Item)] /\ items'[cur] = z /\ items'[cur'] = z
       /\ \A s \in Seg : s # cur => items'[s] = items[s]
  <2>1. items \in [Seg -> Seq(Item)]
    BY <1>1 DEF TypeOK
  <2> QED
    BY <1>2, <1>5, <1>7, <2>1
<1>17. SegsInv'
  <2>1. Good(z, crashes)
    BY <1>7, <1>14, <1>15 DEF Good
  <2>2. \A s \in Seg : Good(items'[s], crashes')
    BY <1>2, <1>13, <1>16, <2>1
  <2>3. ~Replacing'
    BY <1>2 DEF Replacing
  <2> QED
    BY <2>2, <2>3, GoodSegs
<1>18. acked' \in [Names -> Vals \cup {None}] /\ acked'[arg.name] = arg.val
       /\ \A n \in Names : n # arg.name => acked'[n] = acked[n]
  <2>1. acked \in [Names -> Vals \cup {None}]
    BY <1>1 DEF TypeOK
  <2> QED
    BY <1>2, <1>3, <1>5, <2>1
<1>19. TypeOK'
  <2>1. 0 \in 0..Slots /\ NoArg \in [name : Names \cup {None}, val : Vals \cup {None}]
    BY <1>5 DEF NoArg
  <2>2. map' \subseteq 1..Slots
    BY <1>2, <1>5
  <2> QED
    BY <1>1, <1>2, <1>16, <1>18, <2>1, <2>2 DEF TypeOK
<1>20. RingInv'
  BY <1>1, <1>2 DEF RingInv, Ring, ValidSegs
\* Of the other names nothing changes.
<1>21. ASSUME NEW n, n # arg.name
       PROVE  (One(z, n) <=> One(w, n)) /\ \A v : Holds(z, n, v) <=> Holds(w, n, v)
  <2>1. \A i \in map : w[i].name = n => i \in map' /\ i # tgt
    BY <1>2, <1>4, <1>21
  <2>2. map' \subseteq map /\ \A i \in map' : z[i] = w[i]
    BY <1>2, <1>7, <1>11
  <2> HIDE DEF w
  <2> QED
    BY <1>10, <2>1, <2>2 DEF One, Holds
<1>22. ASSUME arg.name \in Sure PROVE One(z, arg.name) /\ Holds(z, arg.name, arg.val)
  <2>1. map' \subseteq map /\ tgt \notin map' /\ \A i \in map' : z[i] = w[i]
    BY <1>2, <1>7, <1>11
  <2>2. CASE arg.val = None
    <3>1. One(w, arg.name)
      BY <1>3, <1>22, <2>2 DEF Replacing, Agrees
    <3>2. \A i \in map' : z[i].name # arg.name
      BY <1>4, <1>10, <2>1, <3>1 DEF One
    <3> QED
      BY <1>10, <2>2, <3>2 DEF One, Holds
  <2>3. CASE arg.val # None
    <3>1. /\ tgt < m /\ w[m] = Valid(arg.name, arg.val)
          /\ \A i \in map : w[i].name = arg.name => i \in {tgt, m}
      BY <1>4, <1>22, <2>3
    <3>2. w[m].st = "valid" /\ w[m].name = arg.name /\ w[m].val = arg.val
      BY <1>3, <1>5, <2>3, <3>1, ItemKinds
    <3>3. m \in 1..m /\ m # tgt
      BY <1>5, <1>6, <3>1
    <3>4. m \in map'
      BY <1>2, <1>3, <3>2, <3>3 DEF Live
    <3>5. \A i \in map' : z[i].name = arg.name => i = m
      BY <2>1, <3>1
    <3> QED
      BY <1>10, <2>1, <3>2, <3>4, <3>5 DEF One, Holds
  <2> QED
    BY <2>2, <2>3
<1>23. Sure' = Sure
  BY <1>2 DEF Sure
<1>24. ASSUME NEW n \in Sure PROVE One(z, n) /\ Holds(z, n, acked'[n])
  <2>1. n \in Names
    BY DEF Sure
  <2>2. CASE n = arg.name
    BY <1>18, <1>22, <2>2
  <2>3. CASE n # arg.name
    <3>1. Agrees(w, n)
      BY <1>1, <1>3, <1>4, <2>3 DEF Replacing
    <3> QED
      BY <1>18, <1>21, <2>1, <2>3, <3>1 DEF Agrees
  <2> QED
    BY <2>2, <2>3
<1>25. IdleInv'
  <2>1. Current' /\ Mapped' /\ woff' = Len(items'[cur']) + 1
    BY <1>2, <1>3, <1>5, <1>7, <1>10, <1>16 DEF Current, Mapped
  <2>2. Full'
    BY <1>3, <1>7, <1>16, ItemKinds DEF Full
  <2>3. \A n \in Sure' : Agrees(items[cur], n)'
    BY <1>16, <1>23, <1>24 DEF Agrees
  <2> QED
    BY <1>2, <1>3, <2>1, <2>2, <2>3 DEF IdleInv
<1> QED
  BY <1>2, <1>17, <1>19, <1>20, <1>25, Elsewhere DEF IInv, NeverOverruns

\* The end of a start: old segments are erased, then clients read.
LEMMA ClearInvariant ==
  ASSUME IInv, Clear
  PROVE  IInv'
<1> DEFINE w == items[cur]
<1>1. TypeOK /\ SegsInv /\ RingInv /\ ClearInv /\ pc = "clear"
  BY DEF IInv, Clear
<1>2. /\ cur' = cur /\ seqId' = seqId /\ woff' = woff /\ map' = map /\ old' = old /\ lim' = lim
      /\ tgt' = tgt /\ crashes' = crashes /\ exposed' = exposed
  BY DEF Clear, region
<1>3. /\ Current /\ Full /\ Mapped /\ woff = Len(w) + 1 /\ booting /\ old = None
      /\ pos <= ClearCount /\ \A n \in Sure : Durable(w, n)
  BY <1>1 DEF ClearInv
<1>4. /\ cur \in Seg /\ crashes \in Nat /\ pos \in Nat /\ ClearCount \in Nat /\ ClearCount <= Segs - 1
      /\ Segs \in Nat /\ Slots \in Nat
  <2>1. (Segs + 1) \div 2 \in Nat
    BY Constants
  <2> QED
    BY <1>1, <2>1, Constants DEF TypeOK, ClearCount
<1>5. ~Replacing /\ Sure' = Sure
  BY <1>1, <1>2 DEF Replacing, Sure
<1>6. \A s \in Seg : Good(items[s], crashes)
  BY <1>1, <1>5, SegsGood
<1>7. CASE pos < ClearCount
  <2> DEFINE s == (cur + 1 + pos) % Segs
  <2>1. /\ hdr' = [hdr EXCEPT ![s] = Blank] /\ items' = [items EXCEPT ![s] = << >>] /\ pos' = pos + 1
        /\ pc' = pc /\ booting' = booting /\ op' = op /\ arg' = arg /\ acked' = acked
    BY <1>4, <1>7 DEF Clear
  <2>2. s \in Seg /\ s # cur
    <3>1. pos \in 0..(Segs - 2)
      BY <1>4, <1>7
    <3> QED
      BY <1>4, <3>1, RingOfSegs
  <2> HIDE DEF s
  <2>3. /\ hdr' \in [Seg -> Header]
        /\ \A t \in Seg : t # s => hdr'[t] = hdr[t]
        /\ Ring(cur, seqId) => \A t \in ValidSegs' : hdr'[t].seq = Minus(seqId, Behind(t, cur))
    <3>1. hdr' = [hdr EXCEPT ![s] = Blank] /\ Blank \in Header /\ Blank.st # "valid" /\ s \in Seg
      BY <2>1, <2>2, LostHeaders
    <3> QED
      BY <1>1, <3>1, HeaderLost, ZenonT(40)
  <2>4. /\ items' \in [Seg -> Seq(Item)] /\ (\A t \in Seg : Good(items'[t], crashes))
        /\ \A t \in Seg : t # s => items'[t] = items[t]
    BY <1>1, <1>4, <1>6, <2>1, <2>2, GoodNew, OneSegment
  <2>5. TypeOK'
    <3>1. pos' \in 0..(Slots + Segs)
      BY <1>4, <1>7, <2>1
    <3> QED
      BY <1>1, <1>2, <2>1, <2>3, <2>4, <3>1 DEF TypeOK, Header
  <2>6. SegsInv'
    <3>1. ~Replacing'
      BY <1>1, <2>1 DEF Replacing
    <3> QED
      BY <1>2, <2>4, <3>1, GoodSegs
  <2>7. RingInv'
    BY <1>1, <1>2, <2>3 DEF RingInv, Ring
  <2>8. hdr'[cur'] = hdr[cur] /\ items'[cur'] = w
    BY <1>2, <1>4, <2>2, <2>3, <2>4
  <2>9. ClearInv'
    <3>1. Current' /\ Full' /\ Mapped'
      BY <1>2, <1>3, <2>8 DEF Current, Full, Mapped
    <3>2. \A n \in Sure' : Durable(items[cur], n)'
      BY <1>3, <1>5, <2>1, <2>8 DEF Durable
    <3>3. pos' <= ClearCount
      BY <1>4, <1>7, <2>1
    <3> QED
      BY <1>2, <1>3, <2>1, <2>8, <3>1, <3>2, <3>3 DEF ClearInv
  <2> QED
    BY <1>1, <2>1, <2>5, <2>6, <2>7, <2>9, Elsewhere DEF IInv, NeverOverruns
<1>8. CASE pos = ClearCount
  <2>1. /\ pc' = "idle" /\ booting' = FALSE /\ pos' = 0 /\ op' = "none" /\ arg' = NoArg
        /\ acked' = [n \in Names |->
             IF \/ op = "set" /\ n = arg.name /\ Get(n) = arg.val
                \/ op = "clear_all" /\ Get(n) = None
               THEN Get(n) ELSE acked[n]]
        /\ hdr' = hdr /\ items' = items
    BY <1>4, <1>8 DEF Clear, flash
  <2>2. \A n \in Names, v \in Vals \cup {None} : Holds(w, n, v) => Get(n) = v
    BY <1>1, <1>3, GetHeld
  <2>3. acked \in [Names -> Vals \cup {None}]
    BY <1>1 DEF TypeOK
  <2>4. \A n \in Names : Get(n) \in Vals \cup {None}
    <3>1. w \in Seq(Item) /\ Len(w) \in 0..Len(w) /\ map = Live(w, Len(w))
      BY <1>1, <1>3 DEF TypeOK, Mapped
    <3> SUFFICES ASSUME NEW n \in Names PROVE Get(n) \in Vals \cup {None}
      OBVIOUS
    <3>2. /\ Find(n) \in map \/ Find(n) = 0
          /\ Find(n) # 0 => Get(n) = w[Find(n)].val
          /\ Find(n) = 0 => Get(n) = None
      BY <1>1, <3>1, FindFinds
    <3>3. \A i \in map : w[i].val \in Vals
      BY <3>1, ItemKinds DEF Live
    <3> QED
      BY <3>2, <3>3
  <2>5. acked' \in [Names -> Vals \cup {None}]
    BY <2>1, <2>3, <2>4
  <2>6. TypeOK'
    <3>1. 0 \in 0..(Slots + Segs) /\ NoArg \in [name : Names \cup {None}, val : Vals \cup {None}]
      BY <1>4 DEF NoArg
    <3> QED
      BY <1>1, <1>2, <2>1, <2>5, <3>1 DEF TypeOK
  <2>7. SegsInv'
    <3>1. ~Replacing'
      BY <2>1 DEF Replacing
    <3> QED
      BY <1>2, <1>6, <2>1, <3>1, GoodSegs
  <2>8. RingInv'
    BY <1>1, <1>2, <2>1 DEF RingInv, Ring, ValidSegs
  <2>9. ASSUME NEW n \in Sure PROVE One(w, n) /\ Holds(w, n, acked'[n])
    <3>1. n \in Names /\ One(w, n) /\ (Holds(w, n, acked[n]) \/ (op = "clear_all" /\ Holds(w, n, None)))
      BY <1>3 DEF Durable, Sure
    <3>2. CASE Holds(w, n, acked[n])
      <4>1. Get(n) = acked[n]
        BY <2>2, <2>3, <3>1, <3>2
      <4>2. acked'[n] = acked[n]
        BY <2>1, <3>1, <4>1
      <4> QED
        BY <3>1, <3>2, <4>2
    <3>3. CASE op = "clear_all" /\ Holds(w, n, None)
      <4>1. Get(n) = None
        BY <2>2, <3>1, <3>3
      <4>2. acked'[n] = None
        BY <2>1, <3>1, <3>3, <4>1
      <4> QED
        BY <3>1, <3>3, <4>2
    <3> QED
      BY <3>1, <3>2, <3>3
  <2>10. IdleInv'
    <3>1. Current' /\ Full' /\ Mapped'
      BY <1>2, <1>3, <2>1 DEF Current, Full, Mapped
    <3>2. \A n \in Sure' : Agrees(items[cur], n)'
      BY <1>2, <1>5, <2>1, <2>9 DEF Agrees
    <3> QED
      BY <1>2, <1>3, <2>1, <3>1, <3>2 DEF IdleInv
  <2> QED
    BY <2>1, <2>6, <2>7, <2>8, <2>10, Elsewhere DEF IInv, NeverOverruns
<1> QED
  BY <1>3, <1>4, <1>7, <1>8

\* The misplaced mark of item_check_validity() on the item i that is bad in
\* segment t: it changes an item that is complete only in another segment.
LEMMA MarkBadItemKeeps ==
  ASSUME TypeOK, NEW c \in Nat, \A s \in Seg : Good(items[s], c), NEW t \in Seg,
         NEW i \in 1..Len(items[t]), items[t][i].st = "nodata", MarkBadItem(i)
  PROVE  /\ items' \in [Seg -> Seq(Item)] /\ \A s \in Seg : Good(items'[s], c)
         /\ Len(items'[t]) = Len(items[t])
         /\ \A j \in 1..Len(items[t]) : j # i => items'[t][j] = items[t][j]
         /\ items'[t][i].st # "valid"
<1> DEFINE w == items[0]
<1>1. 0 \in Seg /\ items \in [Seg -> Seq(Item)] /\ Good(w, c)
  BY Constants DEF TypeOK
<1>2. w \in Seq(Item) /\ Len(w) \in Nat /\ items[t] \in Seq(Item) /\ Len(items[t]) \in Nat /\ i \in Nat /\ i >= 1
  BY <1>1
<1>3. CASE i <= Len(w) /\ Readable(w[i])
  <2> DEFINE u == [w EXCEPT ![i] = Obsolete]
  <2>1. items' = [items EXCEPT ![0] = u] /\ i \in 1..Len(w)
    BY <1>2, <1>3 DEF MarkBadItem
  <2>2. i <= Slots
    <3> SUFFICES ASSUME i > Slots PROVE FALSE
      BY <1>2, Constants
    <3>1. w[i] = Torn
      BY <1>1, <2>1 DEF Good, Sound
    <3> QED
      BY <1>3, <3>1, ItemKinds DEF Readable
  <2>3. Good(u, c)
    BY <1>1, <2>1, <2>2, GoodObsolete
  <2>4. Len(u) = Len(w) /\ u[i] = Obsolete /\ \A j \in 1..Len(w) : j # i => u[j] = w[j]
    BY <1>2, <2>1
  <2> HIDE DEF u
  <2>5. /\ items' \in [Seg -> Seq(Item)] /\ items'[0] = u /\ (\A s \in Seg : Good(items'[s], c))
        /\ \A s \in Seg : s # 0 => items'[s] = items[s]
    BY <1>1, <2>1, <2>3, OneSegment
  <2>6. CASE t = 0
    BY <2>4, <2>5, <2>6, ItemKinds
  <2>7. CASE t # 0
    BY <2>5, <2>7
  <2> QED
    BY <2>5, <2>6, <2>7
<1>4. CASE ~(i <= Len(w) /\ Readable(w[i]))
  <2> DEFINE u == Append(w, Torn)
  <2>1. items' = [items EXCEPT ![0] = u]
    BY <1>4 DEF MarkBadItem
  <2>2. Good(u, c)
    <3>1. Torn \in Item /\ Bad(Torn)
      BY ItemKinds DEF Bad
    <3> QED
      BY <1>1, <3>1, GoodAppendBad
  <2>3. t # 0
    BY <1>4 DEF Readable
  <2> HIDE DEF u
  <2>4. /\ items' \in [Seg -> Seq(Item)] /\ (\A s \in Seg : Good(items'[s], c))
        /\ \A s \in Seg : s # 0 => items'[s] = items[s]
    BY <1>1, <2>1, <2>2, OneSegment
  <2> QED
    BY <2>3, <2>4
<1> QED
  BY <1>3, <1>4

\* region_scan() finds the newest segment and rebuilds region_info from it.
LEMMA BootInv ==
  ASSUME IInv, Boot
  PROVE  IInv'
<1>1. TypeOK /\ SegsInv /\ OffInv /\ pc = "off"
  BY DEF IInv, Boot
<1>2. /\ booting' = TRUE /\ tgt' = 0 /\ hdr' = hdr /\ op' = op /\ arg' = arg
      /\ crashes' = crashes /\ acked' = acked /\ exposed' = exposed
  BY DEF Boot, history
<1>3. PICK c \in Seg, a \in 0..(SeqRange - 1) :
        /\ Ring(c, a)
        /\ \/ hdr[c] = [st |-> "valid", seq |-> a] /\ \A n \in Sure : Durable(items[c], n)
           \/ Empty
           \/ Sure = {}
  BY <1>1 DEF OffInv
<1>4. ~Replacing /\ Sure' = Sure /\ ValidSegs' = ValidSegs /\ crashes \in Nat
  BY <1>1, <1>2, Constants DEF Replacing, Sure, ValidSegs, TypeOK
<1>5. \A s \in Seg : Good(items[s], crashes)
  BY <1>1, <1>4, SegsGood
<1>6. 0 \in Seg /\ 0 \in 0..(SeqRange - 1) /\ 1 \in 1..(Slots + 1) /\ 0 \in 0..(Slots + Segs)
      /\ 0 \in 0..(Slots + 1) /\ 0 \in 0..Slots
  BY Constants
<1>7. CASE ValidSegs = {}
  <2>1. /\ cur' = 0 /\ seqId' = 0 /\ woff' = 1 /\ map' = {} /\ old' = None /\ pos' = 0 /\ lim' = 0
        /\ pc' = "erase" /\ items' = items
    BY <1>7 DEF Boot
  <2>2. TypeOK'
    BY <1>1, <1>2, <1>6, <2>1 DEF TypeOK
  <2>3. ~Replacing'
    BY <2>1 DEF Replacing
  <2>4. SegsInv'
    BY <1>2, <1>5, <2>1, <2>3, GoodSegs
  <2>5. RingInv'
    BY <1>4, <1>7 DEF RingInv, Ring
  <2>6. Empty \/ Sure = {}
    <3>1. hdr[c].st # "valid"
      BY <1>7 DEF ValidSegs
    <3> QED
      BY <1>3, <3>1
  <2>7. FreshInv' /\ PurgeInv'
    BY <1>2, <1>4, <1>7, <2>1, <2>6 DEF FreshInv, PurgeInv, Empty
  <2> QED
    BY <2>1, <2>2, <2>4, <2>5, <2>7, Elsewhere DEF IInv, NeverOverruns
<1>8. CASE ValidSegs # {}
  <2> DEFINE t == Newest
             e == ScanEnd(t)
             w == items[t]
             bad == e <= Len(w)
  <2>1. t \in ValidSegs /\ t \in Seg /\ Ring(t, hdr[t].seq) /\ (c \in ValidSegs => t = c)
    BY <1>1, <1>3, <1>8, NewestOfRing
  <2>2. /\ cur' = t /\ seqId' = hdr[t].seq /\ woff' = e /\ pos' = 0
        /\ map' = {i \in 1..(e - 1) : Intact(w[i])}
        /\ IF bad /\ w[e].st = "nodata" THEN MarkBadItem(e) ELSE items' = items
        /\ IF bad \/ e > Slots THEN pc' = "erase" /\ old' = t /\ lim' = e
                               ELSE pc' = "clear" /\ old' = None /\ lim' = 0
    BY <1>8 DEF Boot
  <2> HIDE DEF t
  <2>3. /\ e \in 1..(Len(w) + 1) /\ e \in 1..(Slots + 1)
        /\ \A i \in 1..(e - 1) : ~Bad(w[i])
        /\ \A i \in e..Len(w) : w[i].st # "valid"
    BY <1>5, <2>1, ScanStops DEF Good
  <2> HIDE DEF e
  <2>4. w \in Seq(Item) /\ Len(w) \in Nat /\ e \in Nat /\ e >= 1 /\ e <= Slots + 1 /\ Slots \in Nat /\ e <= Len(w) + 1
    <3>1. w \in Seq(Item)
      BY <1>1, <2>1 DEF TypeOK
    <3> QED
      BY <2>3, <3>1, Constants
  <2>5. /\ items' \in [Seg -> Seq(Item)] /\ (\A s \in Seg : Good(items'[s], crashes))
        /\ Len(items'[t]) = Len(w)
        /\ \A j \in 1..Len(w) : j < e => items'[t][j] = w[j]
        /\ \A j \in e..Len(w) : items'[t][j].st # "valid"
    <3>1. CASE bad /\ w[e].st = "nodata"
      <4>1. e \in 1..Len(w) /\ MarkBadItem(e)
        BY <2>2, <2>4, <3>1
      <4>2. /\ items' \in [Seg -> Seq(Item)] /\ (\A s \in Seg : Good(items'[s], crashes))
            /\ Len(items'[t]) = Len(w)
            /\ \A j \in 1..Len(w) : j # e => items'[t][j] = w[j]
            /\ items'[t][e].st # "valid"
        BY <1>1, <1>4, <1>5, <2>1, <3>1, <4>1, MarkBadItemKeeps
      <4> HIDE DEF w
      <4>3. \A j \in 1..Len(w) : j < e => j # e
        BY <2>4
      <4>4. \A j \in e..Len(w) : j \in 1..Len(w)
        BY <2>4
      <4> QED
        BY <2>3, <4>2, <4>3, <4>4
    <3>2. CASE ~(bad /\ w[e].st = "nodata")
      <4>1. items' = items /\ items \in [Seg -> Seq(Item)]
        BY <1>1, <2>2, <3>2 DEF TypeOK
      <4> QED
        BY <1>5, <2>3, <4>1
    <3> QED
      BY <3>1, <3>2
  <2> DEFINE u == items'[t]
  <2>6. Live(u, Len(u)) = Live(w, Len(w)) /\ \A i \in Live(w, Len(w)) : u[i] = w[i]
    <3>1. \A i \in 1..Len(w) : i < e \/ i \in e..Len(w)
      BY <2>4
    <3>2. \A i \in 1..Len(w) : u[i].st = "valid" <=> w[i].st = "valid"
      BY <2>3, <2>5, <3>1
    <3>3. \A i \in 1..Len(w) : w[i].st = "valid" => u[i] = w[i]
      BY <2>3, <2>5, <3>1
    <3> QED
      BY <2>5, <3>2, <3>3 DEF Live
  <2>7. \A n \in Sure : Durable(w, n)
    <3>1. ~Empty
      BY <1>8 DEF Empty
    <3>2. CASE Sure = {}
      BY <3>2
    <3>3. CASE hdr[c] = [st |-> "valid", seq |-> a] /\ \A n \in Sure : Durable(items[c], n)
      <4>1. c \in ValidSegs
        BY <3>3 DEF ValidSegs
      <4> QED
        BY <2>1, <3>3, <4>1
    <3> QED
      BY <1>3, <3>1, <3>2, <3>3
  <2>8. \A n \in Sure' : Durable(items[cur], n)'
    <3>1. \A n : (One(u, n) <=> One(w, n)) /\ \A v : Holds(u, n, v) <=> Holds(w, n, v)
      BY <2>6, SameValues
    <3>2. items'[cur'] = u
      BY <2>2
    <3> HIDE DEF u, w
    <3> QED
      BY <1>2, <1>4, <2>7, <3>1, <3>2 DEF Durable
  <2>9. Current' /\ hdr[t].seq \in 0..(SeqRange - 1)
    <3>1. hdr[t] \in Header /\ hdr[t].st = "valid"
      BY <1>1, <2>1 DEF TypeOK, ValidSegs, Header
    <3>2. hdr[t] = [st |-> "valid", seq |-> hdr[t].seq] /\ hdr[t].seq \in 0..(SeqRange - 1)
      BY <3>1 DEF Header
    <3> QED
      BY <1>2, <2>2, <3>2 DEF Current
  <2>10. TypeOK'
    <3>1. map' \subseteq 1..Slots
      BY <2>2, <2>4
    <3>2. old' \in Seg \cup {None} /\ lim' \in 0..(Slots + 1) /\ pc' \in {"erase", "clear"} /\ woff' \in 1..(Slots + 1)
      BY <1>6, <2>1, <2>2, <2>3, <2>4
    <3> QED
      BY <1>1, <1>2, <1>6, <2>1, <2>2, <2>5, <2>9, <3>1, <3>2 DEF TypeOK
  <2>11. ~Replacing'
    BY <2>2 DEF Replacing
  <2>12. SegsInv'
    BY <1>2, <2>5, <2>11, GoodSegs
  <2>13. RingInv'
    BY <1>2, <1>4, <2>1, <2>2 DEF RingInv, Ring
  <2>14. CASE bad \/ e > Slots
    <3>1. pc' = "erase" /\ old' = t /\ lim' = e /\ old' # None
      BY <2>1, <2>2, <2>14, Constants
    <3>2. Source(items[old])'
      <4>1. /\ e <= Len(u) + 1
            /\ \A i \in 1..(e - 1) : ~Bad(u[i])
            /\ \A i \in e..Len(u) : u[i].st # "valid"
        <5>1. \A i \in 1..(e - 1) : i \in 1..Len(w) /\ i < e
          BY <2>4
        <5> QED
          BY <2>3, <2>4, <2>5, <5>1
      <4>2. items'[old'] = u /\ cur' = t /\ u = items'[cur']
        BY <2>2, <3>1
      <4> QED
        BY <1>2, <2>3, <2>8, <3>1, <4>1, <4>2 DEF Source
    <3>3. PurgeInv' /\ FreshInv'
      BY <2>2, <2>9, <3>1, <3>2 DEF PurgeInv, FreshInv
    <3> QED
      BY <2>10, <2>12, <2>13, <3>1, <3>3, Elsewhere DEF IInv, NeverOverruns
  <2>15. CASE ~(bad \/ e > Slots)
    <3>1. pc' = "clear" /\ old' = None /\ items' = items /\ e = Len(w) + 1
      BY <2>2, <2>4, <2>15
    <3>2. Full' /\ Mapped'
      <4>1. map' = Live(w, Len(w)) /\ \A i \in 1..Len(w) : ~Bad(w[i])
        BY <2>2, <2>3, <2>4, <3>1 DEF Live, Intact
      <4> QED
        BY <2>2, <3>1, <4>1 DEF Full, Mapped
    <3>3. woff' = Len(items'[cur']) + 1 /\ pos' <= ClearCount
      BY <2>2, <3>1, Constants DEF ClearCount
    <3>4. ClearInv'
      BY <1>2, <2>8, <2>9, <3>1, <3>2, <3>3 DEF ClearInv
    <3> QED
      BY <2>10, <2>12, <2>13, <3>1, <3>4, Elsewhere DEF IInv, NeverOverruns
  <2> QED
    BY <2>14, <2>15
<1> QED
  BY <1>7, <1>8

\* A power loss makes a second item of a name one that stays.
LEMMA SegsMore ==
  ASSUME TypeOK, SegsInv
  PROVE  \A s \in Seg : Good(items[s], crashes + 1)
<1> SUFFICES ASSUME NEW s \in Seg PROVE Good(items[s], crashes + 1)
  OBVIOUS
<1> DEFINE w == items[s]
<1>1. Sound(w) /\ w \in Seq(Item) /\ crashes \in Nat
  BY Constants, SMTT(40) DEF SegsInv, Sound, TypeOK
<1>2. ASSUME NEW k \in 0..Len(w) PROVE Few(w, k, crashes + 1)
  <2>1. Few(w, k, Spare(s, k)) /\ Spare(s, k) \in Nat /\ Spare(s, k) <= crashes + 1
    BY <1>1 DEF SegsInv, Spare
  <2>2. Cardinality(Live(w, k)) \in Nat /\ Cardinality(NamesIn(w, k)) \in Nat
    BY <1>1, LiveFinite
  <2> HIDE DEF w
  <2> QED
    BY <1>1, <2>1, <2>2 DEF Few
<1> QED
  BY <1>1, <1>2 DEF Good

\* A segment that an erase, a header or a clear works on is not the current one.
LEMMA ErasingOther ==
  ASSUME IInv, \/ pc \in {"erase", "erase_all"}
               \/ pc = "clear" /\ pos < ClearCount
  PROVE  /\ Erasing \in Seg
         /\ pc = "erase" => Erasing = NewSeg
         /\ pc = "erase_all" => Erasing = pos
         /\ pc # "erase_all" /\ (pc = "erase" => old # None) => Erasing # cur
<1>1. TypeOK /\ PurgeInv /\ EraseAllInv
  BY DEF IInv
<1>2. cur \in Seg /\ 0 \in Seg /\ None \notin Seg /\ old \in Seg \cup {None} /\ Segs \in Nat /\ pos \in Nat
  BY <1>1, Constants DEF TypeOK
<1>3. CASE pc = "erase"
  <2>1. Erasing = NewSeg
    BY <1>3 DEF Erasing, NewSeg
  <2>2. NewSeg \in Seg /\ (old # None => NewSeg # old)
    BY <1>2, RingOfSegs DEF NewSeg
  <2>3. old # None => old = cur
    BY <1>1, <1>3 DEF PurgeInv
  <2> QED
    BY <1>3, <2>1, <2>2, <2>3
<1>4. CASE pc = "erase_all"
  <2>1. Erasing = pos /\ pos <= Segs - 1
    BY <1>1, <1>4 DEF Erasing, EraseAllInv
  <2> QED
    BY <1>2, <1>4, <2>1 DEF Seg
<1>5. CASE pc = "clear" /\ pos < ClearCount
  <2>1. Erasing = (cur + 1 + pos) % Segs
    BY <1>5 DEF Erasing
  <2>2. pos \in 0..(Segs - 2)
    <3>1. (Segs + 1) \div 2 \in Nat
      BY <1>2
    <3>2. ClearCount \in Nat /\ ClearCount <= Segs - 1
      BY <1>2, <3>1, Constants DEF ClearCount
    <3> QED
      BY <1>2, <1>5, <3>2
  <2> QED
    BY <1>2, <1>5, <2>1, <2>2, RingOfSegs
<1> QED
  BY <1>3, <1>4, <1>5

\* What a power loss leaves in the flash.
LEMMA CrashFlash ==
  ASSUME IInv, Crash
  PROVE  /\ hdr' \in [Seg -> Header] /\ items' \in [Seg -> Seq(Item)]
         /\ \A s \in Seg : Good(items'[s], crashes + 1)
         /\ ValidSegs' \subseteq ValidSegs /\ \A t \in ValidSegs' : hdr'[t] = hdr[t]
         /\ pc # "erase_all" /\ (pc \in {"erase", "header"} => old # None) =>
              /\ hdr'[cur] = hdr[cur]
              /\ \A n : One(items'[cur], n) <=> One(items[cur], n)
              /\ \A n, v : Holds(items'[cur], n, v) <=> Holds(items[cur], n, v)
         /\ pc = "erase_all" => /\ \A s \in Seg : s # pos => hdr'[s] = hdr[s] /\ items'[s] = items[s]
                                /\ items'[pos] = items[pos] \/ items'[pos] = <<Torn>>
<1> DEFINE c == crashes + 1
<1>1. TypeOK /\ SegsInv /\ CrashDamage
  BY DEF IInv, Crash
<1>2. /\ hdr \in [Seg -> Header] /\ items \in [Seg -> Seq(Item)] /\ cur \in Seg /\ c \in Nat
      /\ 0 \in Seg /\ None \notin Seg /\ old \in Seg \cup {None}
  BY <1>1, Constants DEF TypeOK, Header
<1>3. \A s \in Seg : Good(items[s], c)
  BY <1>1, SegsMore
<1> HIDE DEF c
<1>4. CASE UNCHANGED flash
  <2>1. hdr' = hdr /\ items' = items
    BY <1>4 DEF flash
  <2> QED
    BY <1>2, <1>3, <2>1 DEF ValidSegs, c
<1>5. CASE /\ \/ pc \in {"erase", "erase_all"}
              \/ pc = "clear" /\ pos < ClearCount
           /\ \E h \in {hdr[Erasing], TornHdr} : hdr' = [hdr EXCEPT ![Erasing] = h]
           /\ items' = [items EXCEPT ![Erasing] = <<Torn>>]
  <2>1. /\ Erasing \in Seg /\ (pc = "erase_all" => Erasing = pos)
        /\ pc # "erase_all" /\ (pc = "erase" => old # None) => Erasing # cur
    BY <1>5, ErasingOther
  <2>2. PICK h \in {hdr[Erasing], TornHdr} : hdr' = [hdr EXCEPT ![Erasing] = h]
    BY <1>5
  <2>3. h \in Header /\ (h.st = "valid" => h = hdr[Erasing])
    BY <1>2, <2>1, LostHeaders
  <2>4. /\ hdr' \in [Seg -> Header]
        /\ \A t \in Seg : t # Erasing => hdr'[t] = hdr[t]
        /\ \A t \in Seg : hdr'[t].st = "valid" => hdr'[t] = hdr[t]
    BY <1>2, <2>1, <2>2, <2>3
  <2>5. ValidSegs' \subseteq ValidSegs /\ \A t \in ValidSegs' : hdr'[t] = hdr[t]
    BY <2>4 DEF ValidSegs
  <2>6. /\ items' \in [Seg -> Seq(Item)] /\ (\A s \in Seg : Good(items'[s], c)) /\ items'[Erasing] = <<Torn>>
        /\ \A s \in Seg : s # Erasing => items'[s] = items[s]
    BY <1>1, <1>2, <1>3, <1>5, <2>1, GoodNew, OneSegment
  <2> QED
    BY <1>2, <2>1, <2>4, <2>5, <2>6 DEF c
<1>6. CASE /\ pc = "header"
           /\ hdr' = [hdr EXCEPT ![IF old = None THEN 0 ELSE Succ(old)] = TornHdr]
           /\ UNCHANGED items
  <2>1. hdr' = [hdr EXCEPT ![NewSeg] = TornHdr] /\ NewSeg \in Seg /\ (old # None => NewSeg # old)
    BY <1>2, <1>6, RingOfSegs DEF NewSeg
  <2>2. old # None => old = cur
    BY <1>6 DEF IInv, PurgeInv
  <2>3. TornHdr \in Header /\ TornHdr.st # "valid"
    BY LostHeaders
  <2>4. /\ hdr' \in [Seg -> Header]
        /\ \A t \in Seg : t # NewSeg => hdr'[t] = hdr[t]
        /\ \A t \in Seg : hdr'[t].st = "valid" => hdr'[t] = hdr[t]
    BY <1>2, <2>1, <2>3
  <2>5. ValidSegs' \subseteq ValidSegs /\ \A t \in ValidSegs' : hdr'[t] = hdr[t]
    BY <2>4 DEF ValidSegs
  <2> QED
    BY <1>2, <1>3, <1>6, <2>1, <2>2, <2>4, <2>5 DEF c
\* An item that was cut off at the end of the current segment.
<1>7. ASSUME NEW it \in Item, Bad(it), Len(items[cur]) < Slots \/ it = Torn, pc # "erase_all",
             items' = [items EXCEPT ![cur] = Append(items[cur], it)], hdr' = hdr
      PROVE  /\ hdr' \in [Seg -> Header] /\ items' \in [Seg -> Seq(Item)]
             /\ \A s \in Seg : Good(items'[s], c)
             /\ ValidSegs' = ValidSegs
             /\ \A n : One(items'[cur], n) <=> One(items[cur], n)
             /\ \A n, v : Holds(items'[cur], n, v) <=> Holds(items[cur], n, v)
  <2> DEFINE w == items[cur]
             u == Append(w, it)
  <2>1. /\ Good(u, c)
        /\ \A n : One(u, n) <=> One(w, n)
        /\ \A n, v : Holds(u, n, v) <=> Holds(w, n, v)
    BY <1>2, <1>3, <1>7, GoodAppendBad
  <2> HIDE DEF u
  <2>2. /\ items' \in [Seg -> Seq(Item)] /\ (\A s \in Seg : Good(items'[s], c)) /\ items'[cur] = u
    <3>1. items' = [items EXCEPT ![cur] = u]
      BY <1>7 DEF u
    <3> QED
      BY <1>1, <1>2, <1>3, <2>1, <3>1, OneSegment
  <2> QED
    BY <1>2, <1>7, <2>1, <2>2 DEF ValidSegs
<1>8. CASE /\ pc = "copy" /\ pos < lim /\ CopyStatus(items[old][pos]) = "valid"
           /\ \E it \in {Torn, NoData(items[old][pos].name)} :
                items' = [items EXCEPT ![cur] = Append(@, it)]
           /\ UNCHANGED hdr
  <2>1. CopyInv
    BY DEF IInv
  <2>2. /\ pos \in 1..lim /\ lim \in 1..(Slots + 1) /\ woff = Len(items[cur]) + 1 /\ woff <= pos
    BY <1>8, <2>1 DEF CopyInv, Source
  <2>3. pos \in 1..(lim - 1) /\ Len(items[cur]) < Slots
    BY <1>2, <1>8, <2>2, Constants
  <2>4. items[old][pos] \in Item /\ (items[old][pos].st = "valid" \/ items[old][pos] = Obsolete)
    BY <1>1, <1>8, <2>1, <2>3, SourceItem
  <2>5. items[old][pos].st = "valid" /\ items[old][pos].name \in Names
    <3>1. items[old][pos] # Obsolete
      BY <1>8, ItemKinds DEF CopyStatus, Intact, Readable
    <3> QED
      BY <2>4, <3>1, ItemKinds
  <2>6. PICK it \in {Torn, NoData(items[old][pos].name)} :
          items' = [items EXCEPT ![cur] = Append(items[cur], it)]
    BY <1>8
  <2>7. it \in Item /\ Bad(it)
    BY <2>5, ItemKinds DEF Bad
  <2> QED
    BY <1>7, <1>8, <2>3, <2>6, <2>7 DEF c
<1>9. CASE /\ pc = "write" /\ woff <= Slots
           /\ items' = [items EXCEPT ![cur] = Append(@, Torn)]
           /\ UNCHANGED hdr
  <2>1. Torn \in Item /\ Bad(Torn)
    BY ItemKinds DEF Bad
  <2>2. items' = [items EXCEPT ![cur] = Append(items[cur], Torn)]
    BY <1>9
  <2> QED
    BY <1>7, <1>9, <2>1, <2>2 DEF c
<1> QED
  BY <1>1, <1>4, <1>5, <1>6, <1>8, <1>9 DEF CrashDamage

\* Power is lost: what clients know is still in the flash, or exposed.
LEMMA CrashInv ==
  ASSUME IInv, Crash
  PROVE  IInv'
<1>1. /\ TypeOK /\ SegsInv /\ RingInv /\ IdleInv /\ FreshInv /\ PurgeInv /\ CopyInv /\ SetInv /\ TargetInv
      /\ ClearInv /\ EraseAllInv /\ pc \notin {"off", "halt"}
  BY DEF IInv, Crash
<1>2. /\ crashes' = crashes + 1 /\ exposed' = exposed \cup Exposes /\ pc' = "off"
      /\ cur' = 0 /\ seqId' = 0 /\ woff' = 1 /\ map' = {} /\ booting' = FALSE
      /\ old' = None /\ pos' = 0 /\ lim' = 0 /\ tgt' = 0 /\ op' = op /\ arg' = arg /\ acked' = acked
      /\ crashes < MaxCrash
  BY DEF Crash
<1>3. /\ hdr' \in [Seg -> Header] /\ items' \in [Seg -> Seq(Item)]
      /\ \A s \in Seg : Good(items'[s], crashes + 1)
      /\ ValidSegs' \subseteq ValidSegs /\ \A t \in ValidSegs' : hdr'[t] = hdr[t]
      /\ pc # "erase_all" /\ (pc \in {"erase", "header"} => old # None) =>
           /\ hdr'[cur] = hdr[cur]
           /\ \A n : One(items'[cur], n) <=> One(items[cur], n)
           /\ \A n, v : Holds(items'[cur], n, v) <=> Holds(items[cur], n, v)
      /\ pc = "erase_all" => /\ \A s \in Seg : s # pos => hdr'[s] = hdr[s] /\ items'[s] = items[s]
                             /\ items'[pos] = items[pos] \/ items'[pos] = <<Torn>>
  BY CrashFlash
<1>4. exposed' \subseteq Names /\ Sure' \subseteq Sure
  <2>1. Exposes \subseteq Names
    <3>1. pc = "copy" => {items[old][i].name : i \in {j \in pos..(lim - 1) : Intact(items[old][j])}} \subseteq Names
      <4> SUFFICES ASSUME pc = "copy", NEW i \in pos..(lim - 1), Intact(items[old][i])
                   PROVE  items[old][i].name \in Names
        OBVIOUS
      <4>1. pos \in 1..lim /\ lim \in 1..(Slots + 1)
        BY <1>1 DEF CopyInv, Source
      <4>2. i \in 1..(lim - 1)
        BY <4>1, Constants
      <4>3. items[old][i] \in Item
        BY <1>1, <4>2, SourceItem
      <4> QED
        BY <4>3, ItemKinds DEF Intact
    <3>2. pc = "obsolete" => arg.name \in Names
      BY <1>1 DEF SetInv
    <3> QED
      BY <3>1, <3>2 DEF Exposes
  <2> QED
    BY <1>1, <1>2, <2>1 DEF TypeOK, Sure
<1>5. TypeOK'
  <2>1. crashes' \in 0..MaxCrash
    BY <1>1, <1>2, Constants DEF TypeOK
  <2>2. 0 \in Seg /\ 0 \in 0..(SeqRange - 1) /\ 1 \in 1..(Slots + 1) /\ 0 \in 0..(Slots + Segs)
        /\ 0 \in 0..(Slots + 1) /\ 0 \in 0..Slots
    BY Constants
  <2> QED
    BY <1>1, <1>2, <1>3, <1>4, <2>1, <2>2 DEF TypeOK, Header
<1>6. SegsInv'
  <2>1. ~Replacing'
    BY <1>2 DEF Replacing
  <2> QED
    BY <1>2, <1>3, <2>1, GoodSegs
<1>7. /\ cur \in Seg /\ seqId \in 0..(SeqRange - 1)
      /\ \A t \in ValidSegs' : hdr'[t].seq = Minus(seqId, Behind(t, cur))
  BY <1>1, <1>3 DEF TypeOK, RingInv, Ring
\* What the current segment holds is what a restart finds.
<1>8. ASSUME Current, pc # "erase_all", pc \in {"erase", "header"} => old # None,
             \A n \in Sure' : Durable(items[cur], n)
      PROVE  OffInv'
  <2>1. hdr'[cur] = [st |-> "valid", seq |-> seqId]
    BY <1>3, <1>8 DEF Current
  <2>2. \A n \in Sure' : One(items'[cur], n) /\ (Holds(items'[cur], n, acked'[n])
                             \/ (op' = "clear_all" /\ Holds(items'[cur], n, None)))
    BY <1>2, <1>3, <1>8 DEF Durable
  <2>3. PICK c \in Seg, a \in 0..(SeqRange - 1) : c = cur /\ a = seqId
    BY <1>7
  <2>4. Ring(c, a)' /\ hdr'[c] = [st |-> "valid", seq |-> a] /\ \A n \in Sure' : Durable(items[c], n)'
    BY <1>7, <2>1, <2>2, <2>3 DEF Ring, Durable
  <2> QED
    BY <2>4 DEF OffInv
<1>9. \A w, n : Agrees(w, n) => Durable(w, n)
  BY DEF Agrees, Durable
<1>10. ASSUME pc = "idle" PROVE OffInv'
  BY <1>1, <1>4, <1>8, <1>9, <1>10 DEF IdleInv
<1>11. ASSUME pc \in {"erase", "header"} /\ old # None PROVE OffInv'
  <2>1. old = cur /\ Current /\ Source(items[cur])
    BY <1>1, <1>11 DEF PurgeInv
  <2>2. \A n \in Sure : Durable(items[cur], n)
    BY <1>9, <2>1 DEF Source
  <2> QED
    BY <1>4, <1>8, <1>11, <2>1, <2>2
<1>12. ASSUME pc \in {"erase", "header"} /\ old = None PROVE OffInv'
  <2>1. Empty
    BY <1>1, <1>12 DEF FreshInv
  <2>2. Empty'
    BY <1>2, <1>3, <1>4, <2>1 DEF Empty
  <2>3. Ring(0, 0)'
    BY <2>2 DEF Ring, Empty
  <2> QED
    BY <2>2, <2>3, Constants DEF OffInv
<1>13. ASSUME pc = "copy" PROVE OffInv'
  <2>1. Current /\ Source(items[old]) /\ \A n \in Sure : One(items[cur], n)
    BY <1>1, <1>13 DEF CopyInv
  <2>2. ASSUME NEW n \in Sure' PROVE Durable(items[cur], n)
    <3>1. n \in Sure /\ One(items[cur], n) /\ Durable(items[old], n)
      BY <1>4, <1>9, <2>1 DEF Source
    <3>2. n \notin {items[old][i].name : i \in {j \in pos..(lim - 1) : Intact(items[old][j])}}
      BY <1>2, <1>13 DEF Sure, Exposes
    <3>3. \A i \in pos..(lim - 1) : items[old][i].st = "valid" => items[old][i].name # n
      BY <3>2 DEF Intact
    <3>4. \A v : Holds(items[old], n, v) => Holds(items[cur], n, v)
      BY <1>1, <1>13, <3>3, CopiedValue
    <3> QED
      BY <3>1, <3>4 DEF Durable
  <2> QED
    BY <1>8, <1>13, <2>1, <2>2
<1>14. ASSUME pc \in {"write", "data", "obsolete"} PROVE OffInv'
  <2>1. Current /\ (~Replacing => \A n \in Sure : Agrees(items[cur], n))
    BY <1>1, <1>14 DEF SetInv
  <2>2. Replacing => \A n \in Sure' : Agrees(items[cur], n)
    <3>1. Replacing => arg.name \notin Sure' /\ \A n \in Sure \ {arg.name} : Agrees(items[cur], n)
      BY <1>1, <1>2 DEF Replacing, TargetInv, Sure, Exposes
    <3> QED
      BY <1>4, <3>1
  <2>3. \A n \in Sure' : Durable(items[cur], n)
    BY <1>4, <1>9, <2>1, <2>2
  <2> QED
    BY <1>8, <1>14, <2>1, <2>3
<1>15. ASSUME pc = "clear" PROVE OffInv'
  BY <1>1, <1>4, <1>8, <1>15 DEF ClearInv
<1>16. ASSUME pc = "erase_all" PROVE OffInv'
  <2>1. /\ op = "clear_all" /\ pos <= Segs - 1 /\ pos \in Nat /\ cur \in Nat
        /\ \A s \in 0..(pos - 1) : hdr[s] = Blank
        /\ cur >= pos => Current /\ \A n \in Sure : Agrees(items[cur], n)
    BY <1>1, <1>16, Constants DEF EraseAllInv, TypeOK
  <2>2. PICK c \in Seg, a \in 0..(SeqRange - 1) : c = cur /\ a = seqId
    BY <1>7
  <2>3. Ring(c, a)'
    BY <1>7, <2>2 DEF Ring
  <2>4. CASE hdr'[cur].st = "valid"
    <3>1. hdr'[cur] = hdr[cur] /\ hdr[cur].st = "valid"
      BY <1>3, <1>7, <2>4 DEF ValidSegs
    <3>2. cur >= pos
      <4> SUFFICES ASSUME ~(cur >= pos) PROVE FALSE
        OBVIOUS
      <4>1. cur \in 0..(pos - 1)
        BY <2>1
      <4> QED
        BY <2>1, <3>1, <4>1, LostHeaders
    <3>3. Current /\ \A n \in Sure : Agrees(items[cur], n)
      BY <2>1, <3>2
    <3>4. \A n \in Sure : One(items'[cur], n) /\ (Holds(items'[cur], n, acked[n]) \/ Holds(items'[cur], n, None))
      <4>1. CASE items'[cur] = items[cur]
        BY <3>3, <4>1 DEF Agrees
      <4>2. CASE items'[cur] = <<Torn>>
        <5>1. 0 \in Nat
          OBVIOUS
        <5>2. Live(items'[cur], Len(items'[cur])) = {}
          BY <4>2, <5>1, GoodNew
        <5> QED
          BY <5>2, NoValues
      <4> QED
        BY <1>3, <1>7, <1>16, <4>1, <4>2
    <3>5. hdr'[c] = [st |-> "valid", seq |-> a]
      BY <2>2, <3>1, <3>3 DEF Current
    <3>6. \A n \in Sure' : Durable(items[c], n)'
      BY <1>2, <1>4, <2>1, <2>2, <3>4 DEF Durable
    <3> QED
      BY <2>3, <3>5, <3>6 DEF OffInv
  <2>5. CASE hdr'[cur].st # "valid" /\ \E s \in Seg : hdr'[s].st = "valid"
    <3>1. Names \subseteq Exposes
      BY <1>16, <2>5 DEF Exposes
    <3>2. Sure' = {}
      BY <1>2, <3>1 DEF Sure
    <3> QED
      BY <2>3, <3>2 DEF OffInv
  <2>6. CASE ~\E s \in Seg : hdr'[s].st = "valid"
    <3>1. Empty'
      BY <1>2, <2>1, <2>6 DEF Empty, ValidSegs
    <3> QED
      BY <2>3, <3>1 DEF OffInv
  <2> QED
    BY <2>4, <2>5, <2>6
<1>17. OffInv'
  BY <1>1, <1>10, <1>11, <1>12, <1>13, <1>14, <1>15, <1>16 DEF TypeOK
<1>18. RingInv'
  BY <1>2 DEF RingInv
<1> QED
  BY <1>2, <1>5, <1>6, <1>17, <1>18, Elsewhere DEF IInv, NeverOverruns

\* Every step keeps the invariant.
LEMMA NextInv ==
  ASSUME IInv, [Next]_vars
  PROVE  IInv'
<1>1. CASE Next
  BY <1>1, SetStartInv, ClearAllStartInv, BootInv, EraseInv, WriteHeaderInv, CopyInvariant, CopyDoneInv,
     WriteItemInv, WriteDataInv, MarkOldInv, EraseAllInvariant, ClearInvariant, CrashInv DEF Next, Step
<1>2. CASE UNCHANGED vars
  <2>1. /\ hdr' = hdr /\ items' = items /\ cur' = cur /\ seqId' = seqId /\ woff' = woff /\ map' = map
        /\ pc' = pc /\ booting' = booting /\ old' = old /\ pos' = pos /\ lim' = lim
        /\ op' = op /\ arg' = arg /\ tgt' = tgt /\ crashes' = crashes /\ acked' = acked /\ exposed' = exposed
    BY <1>2 DEF vars, flash, region, purge, call, history
  <2>2. TypeOK' /\ SegsInv' /\ RingInv' /\ NeverOverruns'
    BY <2>1 DEF IInv, TypeOK, SegsInv, Spare, Replacing, RingInv, Ring, ValidSegs, NeverOverruns
  <2>3. OffInv' /\ FreshInv'
    BY <2>1 DEF IInv, OffInv, FreshInv, Ring, ValidSegs, Empty, Sure, Durable
  <2>4. IdleInv' /\ ClearInv' /\ EraseAllInv'
    BY <2>1 DEF IInv, IdleInv, ClearInv, EraseAllInv, Current, Full, Mapped, Sure, Agrees, Durable
  <2>5. PurgeInv' /\ HeaderInv' /\ CopyInv'
    BY <2>1 DEF IInv, PurgeInv, HeaderInv, CopyInv, NewSeg, Source, Current, Sure, Agrees, Durable
  <2>6. SetInv' /\ WriteInv' /\ DataInv' /\ TargetInv'
    BY <2>1 DEF IInv, SetInv, WriteInv, DataInv, TargetInv, Replacing, Current, Sure, Agrees
  <2> QED
    BY <2>2, <2>3, <2>4, <2>5, <2>6 DEF IInv
<1> QED
  BY <1>1, <1>2

\* The invariant holds in every reachable state.
LEMMA InvHolds == Spec => []IInv
<1>1. Init => IInv
  BY InitInv
<1>2. IInv /\ [Next]_vars => IInv'
  BY NextInv
<1> QED
  BY <1>1, <1>2, PTL DEF Spec

-----------------------------------------------------------------------------
(* The theorems                                                            *)

\* The write offset never leaves the segment that a set writes to, although
\* region_write_item() does not look: a purge leaves room, because the complete
\* items are at most one for each name and one for each power loss.
THEOREM NvramNeverOverruns == Spec => []NeverOverruns
<1>1. IInv => NeverOverruns
  BY DEF IInv
<1> QED
  BY <1>1, InvHolds, PTL

\* Between two calls region_info is what a fresh region_scan() of the flash
\* would find: the newest segment, its sequence number (which wraps around),
\* the bit of exactly the complete items and the first free slot.
THEOREM NvramMapMatchesFlash == Spec => []MapMatchesFlash
<1>1. ASSUME IInv PROVE MapMatchesFlash
  <2>1. TypeOK /\ RingInv /\ IdleInv
    BY <1>1 DEF IInv
  <2>2. ASSUME pc = "idle"
        PROVE  /\ hdr[cur] = [st |-> "valid", seq |-> seqId]
               /\ \A s \in ValidSegs \ {cur} : Later(seqId, hdr[s].seq)
               /\ map = {i \in 1..Len(items[cur]) : Intact(items[cur][i])}
               /\ woff = Len(items[cur]) + 1
    <3>1. Current /\ Mapped /\ woff = Len(items[cur]) + 1 /\ Ring(cur, seqId)
      BY <2>1, <2>2 DEF IdleInv, RingInv
    <3>2. cur \in Seg /\ seqId \in 0..(SeqRange - 1)
      BY <2>1 DEF TypeOK
    <3>3. ASSUME NEW s \in ValidSegs \ {cur} PROVE Later(seqId, hdr[s].seq)
      <4>1. s \in Seg /\ hdr[s].seq = Minus(seqId, Behind(s, cur))
        BY <3>1 DEF Ring, ValidSegs
      <4>2. Behind(s, cur) \in 0..(Segs - 1) /\ Behind(s, cur) # 0
        BY <3>2, <3>3, <4>1, RingOfSegs
      <4>3. 0 \in 0..(Segs - 1) /\ 0 < Behind(s, cur)
        BY <4>2, Constants
      <4>4. Later(Minus(seqId, 0), Minus(seqId, Behind(s, cur))) /\ Minus(seqId, 0) = seqId
        BY <3>2, <4>2, <4>3, MinusLater
      <4> QED
        BY <4>1, <4>4
    <3>4. map = {i \in 1..Len(items[cur]) : Intact(items[cur][i])}
      BY <3>1 DEF Mapped, Live, Intact
    <3> QED
      BY <3>1, <3>3, <3>4 DEF Current
  <2> QED
    BY <2>1, <2>2 DEF MapMatchesFlash
<1> QED
  BY <1>1, InvHolds, PTL

\* After any calls and any losses of power, a get returns the value of the last
\* completed set, or of the one that was cut off: but for the names caught in
\* the windows that Exposes names.
THEOREM NvramCommittedSurvives == Spec => []CommittedSurvives
<1>1. ASSUME IInv PROVE CommittedSurvives
  <2> SUFFICES ASSUME pc = "idle", NEW n \in Names \ exposed PROVE Get(n) = acked[n]
    BY DEF CommittedSurvives
  <2>1. TypeOK /\ Mapped /\ Holds(items[cur], n, acked[n])
    BY <1>1 DEF IInv, IdleInv, Agrees, Sure
  <2>2. acked[n] \in Vals \cup {None}
    BY <2>1 DEF TypeOK
  <2> QED
    BY <2>1, <2>2, GetHeld
<1> QED
  BY <1>1, InvHolds, PTL

=============================================================================

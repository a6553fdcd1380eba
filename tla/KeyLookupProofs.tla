--------------------------- MODULE KeyLookupProofs ---------------------------
(***************************************************************************)
(* A tuple is found by its encoded key: binary_search_by returns the right *)
(* index, encoding keeps the order of tuples, decode inverts it, and so a  *)
(* search in a leaf ends at the least tuple that is not below the target,  *)
(* for every number and length of strings and every length of a block.     *)
(***************************************************************************)
EXTENDS KeyLookup, SequenceTheorems, FiniteSetTheorems, WellFoundedInduction, TLAPS

-----------------------------------------------------------------------------
(* Natural numbers.                                                        *)

LEMMA NatIsWellFounded == IsWellFoundedOn({ss \in Nat \X Nat : ss[1] < ss[2]}, Nat)
  BY NatLessThanWellFounded DEF OpToRel

\* A set of numbers that is not empty has a least one.
LEMMA LeastOf ==
  ASSUME NEW D \in SUBSET Nat, D # {}
  PROVE  \E m \in D : \A x \in D : m <= x
  <1> DEFINE R == {ss \in Nat \X Nat : ss[1] < ss[2]}
  <1>1. PICK m \in D : \A y \in D : <<y, m>> \notin R
    <2>1. IsWellFoundedOn(R, Nat)
      BY NatIsWellFounded
    <2> HIDE DEF R
    <2> QED BY <2>1, WFMin
  <1>2. \A y \in D : ~(y < m)
    BY <1>1
  <1> QED BY <1>1, <1>2

\* Induction over the set of numbers for which something holds.
LEMMA SetInduction ==
  ASSUME NEW T, 0 \in T, \A m \in Nat : m \in T => m + 1 \in T
  PROVE  Nat \subseteq T
  <1> DEFINE U == Nat \ T
  <1>1. SUFFICES ASSUME U # {} PROVE FALSE
    OBVIOUS
  <1>2. PICK x \in U : \A y \in U : x <= y
    <2>1. U \in SUBSET Nat
      OBVIOUS
    <2> HIDE DEF U
    <2> QED BY <1>1, <2>1, LeastOf
  <1>3. x # 0 /\ x - 1 \in Nat
    OBVIOUS
  <1>4. x - 1 \in U
    BY <1>3
  <1> QED BY <1>2, <1>3, <1>4

\* Quotient and remainder, where they are known.
LEMMA DivIs ==
  ASSUME NEW d \in Nat \ {0}, NEW q \in Nat, NEW r \in 0 .. d - 1
  PROVE  (q * d + r) \div d = q /\ (q * d + r) % d = r
  OBVIOUS

LEMMA DivBelow ==
  ASSUME NEW d \in Nat \ {0}, NEW r \in 0 .. d - 1
  PROVE  r \div d = 0 /\ r % d = r
  OBVIOUS

LEMMA DivExists ==
  ASSUME NEW d \in Nat \ {0}, NEW a \in Nat
  PROVE  \E q \in Nat, r \in 0 .. d - 1 : a = q * d + r
  <1> DEFINE T == {m \in Nat : \E q \in Nat, r \in 0 .. d - 1 : m = q * d + r}
  <1>1. 0 \in T
    <2>1. 0 = 0 * d + 0 /\ 0 \in 0 .. d - 1
      OBVIOUS
    <2> QED BY <2>1
  <1>2. ASSUME NEW m \in Nat, m \in T PROVE m + 1 \in T
    <2>1. PICK q \in Nat, r \in 0 .. d - 1 : m = q * d + r
      BY <1>2
    <2>2. CASE r + 1 = d
      <3>1. m + 1 = (q + 1) * d + 0
        BY <2>1, <2>2
      <3>2. q + 1 \in Nat /\ 0 \in 0 .. d - 1 /\ m + 1 \in Nat
        OBVIOUS
      <3> HIDE DEF T
      <3>3. \E q2 \in Nat, r2 \in 0 .. d - 1 : m + 1 = q2 * d + r2
        BY <3>1, <3>2
      <3> QED BY <3>2, <3>3 DEF T
    <2>3. CASE r + 1 # d
      <3>1. m + 1 = q * d + (r + 1) /\ r + 1 \in 0 .. d - 1
        BY <2>1, <2>3
      <3> QED BY <3>1
    <2> QED BY <2>2, <2>3
  <1>3. Nat \subseteq T
    <2> HIDE DEF T
    <2> QED BY <1>1, <1>2, SetInduction
  <1> QED BY <1>3

LEMMA DivBounds ==
  ASSUME NEW d \in Nat \ {0}, NEW a \in Nat
  PROVE  a \div d \in Nat /\ a % d \in 0 .. d - 1 /\ a = (a \div d) * d + (a % d)
  <1>1. PICK q \in Nat, r \in 0 .. d - 1 : a = q * d + r
    BY DivExists
  <1>2. a \div d = q /\ a % d = r
    BY <1>1, DivIs
  <1> QED BY <1>1, <1>2

LEMMA DivNext ==
  ASSUME NEW d \in Nat \ {0}, NEW a \in Nat
  PROVE  (a + d) \div d = a \div d + 1 /\ (a + d) % d = a % d
  <1>1. PICK q \in Nat, r \in 0 .. d - 1 : a = q * d + r
    BY DivExists
  <1>2. a + d = (q + 1) * d + r /\ q + 1 \in Nat
    BY <1>1
  <1>3. a \div d = q /\ a % d = r
    BY <1>1, DivIs
  <1>4. (a + d) \div d = q + 1 /\ (a + d) % d = r
    BY <1>2, DivIs
  <1> QED BY <1>3, <1>4

-----------------------------------------------------------------------------
(* The order of byte strings.                                              *)

Numbers == Seq(Nat)

\* s and t are equal before place i, which s may have or not.
SameBefore(s, t, i) == \A j \in 1 .. i - 1 : j <= Len(s) /\ s[j] = t[j]

LEMMA LessIs ==
  ASSUME NEW s, NEW t
  PROVE  NumbersLess(s, t) <=>
           \E i \in 1 .. Len(t) : SameBefore(s, t, i) /\ (i > Len(s) \/ s[i] < t[i])
  BY DEF NumbersLess, Precedes, SameBefore

\* Two strings are equal, or one ends where they begin to differ, or there they
\* have different bytes.
LEMMA FirstDifference ==
  ASSUME NEW S, NEW s \in Seq(S), NEW t \in Seq(S)
  PROVE  \/ s = t
         \/ Len(s) < Len(t) /\ \A j \in 1 .. Len(s) : s[j] = t[j]
         \/ Len(t) < Len(s) /\ \A j \in 1 .. Len(t) : s[j] = t[j]
         \/ \E i \in 1 .. Len(s) : /\ i <= Len(t) /\ s[i] # t[i]
                                   /\ \A j \in 1 .. i - 1 : s[j] = t[j]
  <1> DEFINE D == {i \in 1 .. Len(s) : i <= Len(t) /\ s[i] # t[i]}
  <1>1. Len(s) \in Nat /\ Len(t) \in Nat
    OBVIOUS
  <1>2. CASE D = {}
    <2>1. \A i \in 1 .. Len(s) : i <= Len(t) => s[i] = t[i]
      BY <1>2
    <2>2. Len(s) = Len(t) => s = t
      <3>1. ASSUME Len(s) = Len(t) PROVE \A i \in 1 .. Len(s) : s[i] = t[i]
        BY <1>1, <2>1, <3>1
      <3> QED BY <3>1, SeqEqual
    <2> QED BY <1>1, <2>1, <2>2
  <1>3. CASE D # {}
    <2>1. PICK i \in D : \A j \in D : i <= j
      <3>1. D \in SUBSET Nat
        BY <1>1
      <3> HIDE DEF D
      <3> QED BY <1>3, <3>1, LeastOf
    <2>2. \A j \in 1 .. i - 1 : s[j] = t[j]
      BY <1>1, <2>1
    <2> QED BY <2>1, <2>2
  <1> QED BY <1>2, <1>3

LEMMA NumbersTotal ==
  ASSUME NEW s \in Numbers, NEW t \in Numbers
  PROVE  s = t \/ NumbersLess(s, t) \/ NumbersLess(t, s)
  <1>1. s \in Seq(Nat) /\ t \in Seq(Nat) /\ Len(s) \in Nat /\ Len(t) \in Nat
    BY DEF Numbers
  <1>2. CASE Len(s) < Len(t) /\ \A j \in 1 .. Len(s) : s[j] = t[j]
    <2>1. Len(s) + 1 \in 1 .. Len(t) /\ SameBefore(s, t, Len(s) + 1) /\ Len(s) + 1 > Len(s)
      BY <1>1, <1>2 DEF SameBefore
    <2> QED BY <2>1, LessIs
  <1>3. CASE Len(t) < Len(s) /\ \A j \in 1 .. Len(t) : s[j] = t[j]
    <2>1. Len(t) + 1 \in 1 .. Len(s) /\ SameBefore(t, s, Len(t) + 1) /\ Len(t) + 1 > Len(t)
      BY <1>1, <1>3 DEF SameBefore
    <2> QED BY <2>1, LessIs
  <1>4. ASSUME NEW i \in 1 .. Len(s), i <= Len(t), s[i] # t[i],
               \A j \in 1 .. i - 1 : s[j] = t[j]
        PROVE  NumbersLess(s, t) \/ NumbersLess(t, s)
    <2>1. SameBefore(s, t, i) /\ SameBefore(t, s, i) /\ i \in 1 .. Len(t)
      BY <1>1, <1>4 DEF SameBefore
    <2>2. s[i] \in Nat /\ t[i] \in Nat
      BY <1>1, <2>1
    <2>3. s[i] < t[i] \/ t[i] < s[i]
      BY <1>4, <2>2
    <2> QED BY <2>1, <2>3, LessIs
  <1> QED BY <1>1, <1>2, <1>3, <1>4, FirstDifference

LEMMA NumbersIrreflexive ==
  ASSUME NEW s \in Numbers
  PROVE  ~NumbersLess(s, s)
  <1>1. Len(s) \in Nat /\ \A i \in 1 .. Len(s) : s[i] \in Nat
    BY DEF Numbers
  <1> QED BY <1>1, LessIs

LEMMA NumbersTransitive ==
  ASSUME NEW s \in Numbers, NEW t \in Numbers, NEW u \in Numbers,
         NumbersLess(s, t), NumbersLess(t, u)
  PROVE  NumbersLess(s, u)
  <1>1. /\ Len(s) \in Nat /\ Len(t) \in Nat /\ Len(u) \in Nat
        /\ \A i \in 1 .. Len(s) : s[i] \in Nat
        /\ \A i \in 1 .. Len(t) : t[i] \in Nat
        /\ \A i \in 1 .. Len(u) : u[i] \in Nat
    BY DEF Numbers
  <1>2. PICK i \in 1 .. Len(t) : SameBefore(s, t, i) /\ (i > Len(s) \/ s[i] < t[i])
    BY LessIs
  <1>3. PICK k \in 1 .. Len(u) : SameBefore(t, u, k) /\ (k > Len(t) \/ t[k] < u[k])
    BY LessIs
  <1>4. CASE i < k
    <2>1. i \in 1 .. Len(u) /\ t[i] = u[i]
      BY <1>1, <1>3, <1>4 DEF SameBefore
    <2>2. SameBefore(s, u, i)
      BY <1>1, <1>2, <1>3, <1>4 DEF SameBefore
    <2> QED BY <1>2, <2>1, <2>2, LessIs
  <1>5. CASE ~(i < k)
    <2>1. SameBefore(s, u, k)
      BY <1>1, <1>2, <1>3, <1>5 DEF SameBefore
    <2>2. k > Len(s) \/ s[k] < u[k]
      <3>1. k <= Len(t) /\ t[k] < u[k]
        BY <1>1, <1>2, <1>3, <1>5
      <3>2. CASE k = i
        BY <1>1, <1>2, <3>1, <3>2
      <3>3. CASE k < i
        BY <1>1, <1>2, <3>1, <3>3 DEF SameBefore
      <3> QED BY <1>1, <1>5, <3>2, <3>3
    <2> QED BY <2>1, <2>2, LessIs
  <1> QED BY <1>4, <1>5

-----------------------------------------------------------------------------
(* Ascending enumerates a finite set of strings in their order.            *)

LessIn(S, a) == {b \in S : NumbersLess(b, a)}

LEMMA RankGrows ==
  ASSUME NEW S \in SUBSET Numbers, IsFiniteSet(S), NEW a \in S
  PROVE  /\ IsFiniteSet(LessIn(S, a))
         /\ Cardinality(LessIn(S, a)) \in 0 .. Cardinality(S) - 1
         /\ \A b \in S : NumbersLess(a, b) =>
              Cardinality(LessIn(S, a)) < Cardinality(LessIn(S, b))
  <1>1. a \notin LessIn(S, a)
    BY NumbersIrreflexive DEF LessIn
  <1>2. \A b \in S : LessIn(S, b) \in SUBSET S
    BY DEF LessIn
  <1>3. \A b \in S : IsFiniteSet(LessIn(S, b)) /\ Cardinality(LessIn(S, b)) \in Nat
    BY <1>2, FS_Subset, FS_CardinalityType
  <1>4. IsFiniteSet(LessIn(S, a) \cup {a})
        /\ Cardinality(LessIn(S, a) \cup {a}) = Cardinality(LessIn(S, a)) + 1
    BY <1>1, <1>3, FS_AddElement
  <1>5. Cardinality(LessIn(S, a) \cup {a}) <= Cardinality(S) /\ Cardinality(S) \in Nat
    <2>1. LessIn(S, a) \cup {a} \in SUBSET S
      BY <1>2
    <2> QED BY <2>1, FS_Subset, FS_CardinalityType
  <1>6. ASSUME NEW b \in S, NumbersLess(a, b)
        PROVE  Cardinality(LessIn(S, a)) < Cardinality(LessIn(S, b))
    <2>1. LessIn(S, a) \cup {a} \in SUBSET LessIn(S, b)
      BY <1>6, NumbersTransitive DEF LessIn
    <2>2. Cardinality(LessIn(S, a) \cup {a}) <= Cardinality(LessIn(S, b))
      BY <1>3, <2>1, FS_Subset
    <2> QED BY <1>3, <1>4, <2>2
  <1> QED BY <1>3, <1>4, <1>5, <1>6

LEMMA RankOnto ==
  ASSUME NEW S \in SUBSET Numbers, IsFiniteSet(S), NEW r \in 0 .. Cardinality(S) - 1
  PROVE  \E a \in S : Cardinality(LessIn(S, a)) = r
  <1> DEFINE n0 == Cardinality(S)
             rank == [a \in S |-> Cardinality(LessIn(S, a))]
  <1>1. n0 \in Nat
    BY FS_CardinalityType
  <1>2. IsFiniteSet(0 .. n0 - 1) /\ Cardinality(0 .. n0 - 1) = n0
    BY <1>1, FS_Interval
  <1>3. rank \in [S -> 0 .. n0 - 1]
    BY RankGrows
  <1>4. \A a, b \in S : a # b => rank[a] # rank[b]
    <2> SUFFICES ASSUME NEW a \in S, NEW b \in S, a # b PROVE rank[a] # rank[b]
      OBVIOUS
    <2>1. NumbersLess(a, b) \/ NumbersLess(b, a)
      BY NumbersTotal
    <2>2. rank[a] < rank[b] \/ rank[b] < rank[a]
      BY <2>1, RankGrows
    <2>3. rank[a] \in Nat /\ rank[b] \in Nat
      BY <1>3
    <2> HIDE DEF rank
    <2> QED BY <2>2, <2>3
  <1> HIDE DEF rank, n0
  <1>5. rank \in Injection(S, 0 .. n0 - 1)
    BY <1>3, <1>4 DEF Injection, IsInjective
  <1>6. rank \in Surjection(S, 0 .. n0 - 1)
    BY <1>2, <1>5, FS_Injection DEF n0
  <1>7. PICK a \in S : rank[a] = r
    BY <1>6 DEF Surjection, n0
  <1> QED BY <1>7 DEF rank

LEMMA AscendingIs ==
  ASSUME NEW S \in SUBSET Numbers, IsFiniteSet(S)
  PROVE  LET a == Ascending(S, NumbersLess)
         IN  /\ a \in Seq(S) /\ Len(a) = Cardinality(S) /\ Len(a) \in Nat
             /\ \A x \in S : \E i \in 1 .. Len(a) : a[i] = x
             /\ \A i, j \in 1 .. Len(a) : i < j => NumbersLess(a[i], a[j])
  <1> DEFINE a == Ascending(S, NumbersLess)
             n0 == Cardinality(S)
  <1>1. n0 \in Nat
    BY FS_CardinalityType
  <1>2. a = [i \in 1 .. n0 |-> CHOOSE x \in S : Cardinality(LessIn(S, x)) = i - 1]
    BY DEF Ascending, LessIn
  <1>3. \A i \in 1 .. n0 : a[i] \in S /\ Cardinality(LessIn(S, a[i])) = i - 1
    <2> TAKE i \in 1 .. n0
    <2>1. i - 1 \in 0 .. n0 - 1
      BY <1>1
    <2>2. \E x \in S : Cardinality(LessIn(S, x)) = i - 1
      BY <2>1, RankOnto
    <2> HIDE DEF a
    <2> QED BY <1>2, <2>2
  <1>4. a \in Seq(S) /\ Len(a) = n0
    <2> HIDE DEF a, n0
    <2>1. DOMAIN a = 1 .. n0 /\ a \in [1 .. n0 -> S]
      BY <1>2, <1>3
    <2> QED BY <1>1, <2>1
  <1> HIDE DEF a
  <1>5. ASSUME NEW x \in S PROVE \E i \in 1 .. n0 : a[i] = x
    <2>1. Cardinality(LessIn(S, x)) \in 0 .. n0 - 1
      BY RankGrows
    <2> DEFINE i == Cardinality(LessIn(S, x)) + 1
    <2>2. i \in 1 .. n0 /\ i - 1 = Cardinality(LessIn(S, x))
      BY <1>1, <2>1
    <2>3. a[i] \in S /\ Cardinality(LessIn(S, a[i])) = Cardinality(LessIn(S, x))
      BY <1>3, <2>2
    <2>4. a[i] = x
      <3>1. ~NumbersLess(a[i], x) /\ ~NumbersLess(x, a[i])
        BY <2>1, <2>3, RankGrows
      <3> QED BY <2>3, <3>1, NumbersTotal
    <2> QED BY <2>2, <2>4
  <1>6. ASSUME NEW i \in 1 .. n0, NEW j \in 1 .. n0, i < j PROVE NumbersLess(a[i], a[j])
    <2>1. /\ a[i] \in S /\ a[j] \in S
          /\ Cardinality(LessIn(S, a[i])) = i - 1 /\ Cardinality(LessIn(S, a[j])) = j - 1
      BY <1>3
    <2>2. a[i] # a[j] /\ ~NumbersLess(a[j], a[i])
      BY <1>6, <2>1, RankGrows
    <2> QED BY <2>1, <2>2, NumbersTotal
  <1> QED BY <1>1, <1>4, <1>5, <1>6 DEF a

-----------------------------------------------------------------------------
(* What encode writes for one string.                                      *)

Strings == Seq(Byte)

LEMMA BlockLenIs ==
  /\ ESCAPE_LENGTH \in Nat \ {0} /\ BlockLen \in Nat \ {0} /\ ESCAPE_LENGTH = BlockLen + 1
  /\ ESCAPE_LENGTH <= 255
  BY MemcmpableAssumption DEF BlockLen

\* The block that begins the encoding of s.
FirstBlock(s) ==
    [k \in 1 .. ESCAPE_LENGTH |->
        IF k <= BlockLen THEN IF k <= Len(s) THEN s[k] ELSE 0
                         ELSE IF Len(s) <= BlockLen THEN Len(s) ELSE ESCAPE_LENGTH]

\* What is left of a string that takes more than one block.
RestOf(s) == SubSeq(s, BlockLen + 1, Len(s))

LEMMA RestIs ==
  ASSUME NEW s \in Strings, Len(s) > BlockLen
  PROVE  /\ RestOf(s) \in Strings /\ Len(RestOf(s)) = Len(s) - BlockLen
         /\ \A k \in 1 .. Len(s) - BlockLen : RestOf(s)[k] = s[BlockLen + k]
  <1>1. /\ s \in Seq(Byte) /\ Len(s) \in Nat /\ BlockLen \in Nat
        /\ BlockLen + 1 \in Int /\ Len(s) \in Int
    BY BlockLenIs DEF Strings
  <1>2. \A i \in BlockLen + 1 .. Len(s) : s[i] \in Byte
    BY <1>1
  <1>3. /\ RestOf(s) \in Seq(Byte)
        /\ Len(RestOf(s)) = IF BlockLen + 1 <= Len(s) THEN Len(s) - (BlockLen + 1) + 1 ELSE 0
        /\ \A i \in 1 .. Len(s) - (BlockLen + 1) + 1 : RestOf(s)[i] = s[BlockLen + 1 + i - 1]
    BY <1>1, <1>2, SubSeqProperties DEF RestOf
  <1>4. /\ Len(s) - (BlockLen + 1) + 1 = Len(s) - BlockLen
        /\ \A i \in Nat : BlockLen + 1 + i - 1 = BlockLen + i
        /\ BlockLen + 1 <= Len(s)
    BY <1>1
  <1>5. Len(RestOf(s)) = Len(s) - BlockLen
    BY <1>3, <1>4
  <1>6. ASSUME NEW k \in 1 .. Len(s) - BlockLen PROVE RestOf(s)[k] = s[BlockLen + k]
    <2>1. k \in 1 .. Len(s) - (BlockLen + 1) + 1 /\ BlockLen + 1 + k - 1 = BlockLen + k
      BY <1>1, <1>4
    <2>2. RestOf(s)[k] = s[BlockLen + 1 + k - 1]
      BY <1>3, <2>1
    <2> QED BY <2>1, <2>2
  <1> QED BY <1>3, <1>5, <1>6 DEF Strings

LEMMA FirstBlockIs ==
  ASSUME NEW s \in Strings
  PROVE  FirstBlock(s) \in Strings /\ Len(FirstBlock(s)) = ESCAPE_LENGTH
  <1>1. Len(s) \in Nat /\ \A k \in 1 .. Len(s) : s[k] \in Byte
    BY DEF Strings
  <1>2. ASSUME NEW k \in 1 .. ESCAPE_LENGTH PROVE FirstBlock(s)[k] \in Byte
    <2>1. /\ Len(s) <= BlockLen => Len(s) \in Byte
          /\ ESCAPE_LENGTH \in Byte /\ 0 \in Byte
      <3>1. Len(s) \in Nat
        BY <1>1
      <3>2. ESCAPE_LENGTH \in 0 .. 255 /\ 0 \in 0 .. 255
        BY BlockLenIs
      <3>3. ASSUME Len(s) <= BlockLen PROVE Len(s) \in 0 .. 255
        <4> DEFINE m == Len(s)
        <4>1. m \in Nat /\ m <= BlockLen
          BY <3>1, <3>3
        <4> HIDE DEF m
        <4>2. m \in 0 .. 255
          BY <4>1, BlockLenIs
        <4> QED BY <4>2 DEF m
      <3> QED BY <3>2, <3>3 DEF Byte
    <2>2. k <= Len(s) => s[k] \in Byte
      BY <1>1
    <2> QED BY <2>1, <2>2 DEF FirstBlock
  <1>3. FirstBlock(s) \in [1 .. ESCAPE_LENGTH -> Byte]
    BY <1>2 DEF FirstBlock
  <1> QED BY <1>3, BlockLenIs DEF Strings

LEMMA BlocksIs ==
  ASSUME NEW len \in Nat
  PROVE  /\ len <= BlockLen => Blocks(len) = 1
         /\ len > BlockLen => Blocks(len) = Blocks(len - BlockLen) + 1
         /\ Blocks(len) \in Nat
  <1>1. BlockLen \in Nat \ {0}
    BY BlockLenIs
  <1>2. ASSUME len # 0, len <= BlockLen PROVE (len + BlockLen - 1) \div BlockLen = 1
    <2>1. len + BlockLen - 1 = 1 * BlockLen + (len - 1) /\ len - 1 \in 0 .. BlockLen - 1
      BY <1>1, <1>2
    <2> QED BY <1>1, <2>1, DivIs
  <1>3. ASSUME len > BlockLen
        PROVE  (len + BlockLen - 1) \div BlockLen = (len - BlockLen + BlockLen - 1) \div BlockLen + 1
    <2>1. len - BlockLen + BlockLen - 1 \in Nat
          /\ len + BlockLen - 1 = (len - BlockLen + BlockLen - 1) + BlockLen
      BY <1>1, <1>3
    <2> QED BY <1>1, <2>1, DivNext
  <1>4. (len + BlockLen - 1) \div BlockLen \in Nat
    BY <1>1, DivBounds
  <1> QED BY <1>1, <1>2, <1>3, <1>4 DEF Blocks

\* The last block of a string, which has one even if it is empty.
LEMMA EncodeLast ==
  ASSUME NEW s \in Strings, Len(s) <= BlockLen
  PROVE  Encode(s) = FirstBlock(s)
  <1>1. Len(s) \in Nat
    BY DEF Strings
  <1>2. Blocks(Len(s)) * ESCAPE_LENGTH = ESCAPE_LENGTH
    BY <1>1, BlocksIs, BlockLenIs
  <1>3. ASSUME NEW p \in 1 .. ESCAPE_LENGTH
        PROVE  EncodedByte(s, (p - 1) \div ESCAPE_LENGTH, (p - 1) % ESCAPE_LENGTH)
                 = FirstBlock(s)[p]
    <2>1. p - 1 \in 0 .. ESCAPE_LENGTH - 1
      BY BlockLenIs
    <2>2. (p - 1) \div ESCAPE_LENGTH = 0 /\ (p - 1) % ESCAPE_LENGTH = p - 1
      BY <2>1, BlockLenIs, DivBelow
    <2>3. EncodedByte(s, 0, p - 1) = FirstBlock(s)[p]
      <3>1. /\ 0 * BlockLen = 0 /\ Len(s) - 0 = Len(s) /\ 0 + (p - 1) + 1 = p
            /\ p - 1 < BlockLen <=> p <= BlockLen
            /\ p - 1 < Len(s) <=> p <= Len(s)
        BY <1>1, BlockLenIs
      <3> QED BY <3>1 DEF EncodedByte, FirstBlock
    <2> QED BY <2>2, <2>3
  <1> QED BY <1>2, <1>3 DEF Encode, FirstBlock

\* A full block is followed by the encoding of what is left.
LEMMA EncodeFull ==
  ASSUME NEW s \in Strings, Len(s) > BlockLen, Encode(RestOf(s)) \in Strings
  PROVE  Encode(s) = FirstBlock(s) \o Encode(RestOf(s))
  <1> DEFINE E == ESCAPE_LENGTH
             r == RestOf(s)
             whole == FirstBlock(s) \o Encode(r)
             m == Blocks(Len(r)) * E
  <1>1. /\ Len(s) \in Nat /\ r \in Strings /\ Len(r) = Len(s) - BlockLen
        /\ \A k \in 1 .. Len(s) - BlockLen : r[k] = s[BlockLen + k]
    BY RestIs DEF Strings
  <1>2. /\ E \in Nat \ {0} /\ BlockLen \in Nat \ {0} /\ E = BlockLen + 1
    BY BlockLenIs
  <1> HIDE DEF r, E
  <1>3. m \in Nat /\ Blocks(Len(s)) * E = E + m
    <2>1. Len(r) \in Nat /\ Blocks(Len(r)) \in Nat /\ Blocks(Len(s)) = Blocks(Len(r)) + 1
      BY <1>1, <1>2, BlocksIs
    <2> QED BY <1>2, <2>1
  <1> HIDE DEF m
  <1>4. Encode(r) = [p \in 1 .. m |-> EncodedByte(r, (p - 1) \div E, (p - 1) % E)]
    BY DEF Encode, m, E
  <1>5. Encode(s) = [p \in 1 .. E + m |-> EncodedByte(s, (p - 1) \div E, (p - 1) % E)]
    BY <1>3 DEF Encode, E
  <1>6. Encode(r) \in Strings /\ Len(Encode(r)) = m
    <2>1. DOMAIN Encode(r) = 1 .. m
      BY <1>4
    <2> QED BY <1>3, <2>1 DEF Strings, r
  <1>7. /\ whole \in Strings /\ Len(whole) = E + m
        /\ \A p \in 1 .. E + m :
             whole[p] = IF p <= E THEN FirstBlock(s)[p] ELSE Encode(r)[p - E]
    <2>1. /\ Encode(r) \in Seq(Byte) /\ FirstBlock(s) \in Seq(Byte)
          /\ Len(FirstBlock(s)) = E /\ Len(Encode(r)) = m
      BY <1>6, FirstBlockIs DEF Strings, E
    <2>2. /\ whole \in Seq(Byte) /\ Len(whole) = E + m
          /\ \A p \in 1 .. E + m :
               whole[p] = IF p <= E THEN FirstBlock(s)[p] ELSE Encode(r)[p - E]
      BY <2>1, ConcatProperties
    <2> QED BY <2>2 DEF Strings
  <1>8. ASSUME NEW p \in 1 .. E
        PROVE  EncodedByte(s, (p - 1) \div E, (p - 1) % E) = FirstBlock(s)[p]
    <2>1. p - 1 \in 0 .. E - 1
      BY <1>2
    <2>2. (p - 1) \div E = 0 /\ (p - 1) % E = p - 1
      BY <1>2, <2>1, DivBelow
    <2>3. EncodedByte(s, 0, p - 1) = FirstBlock(s)[p]
      <3>1. /\ 0 * BlockLen = 0 /\ Len(s) - 0 = Len(s) /\ 0 + (p - 1) + 1 = p
            /\ p - 1 < BlockLen <=> p <= BlockLen
            /\ p - 1 < Len(s) <=> p <= Len(s)
        BY <1>1, <1>2
      <3> QED BY <3>1 DEF EncodedByte, FirstBlock, E
    <2> QED BY <2>2, <2>3
  <1>9. ASSUME NEW p \in 1 .. m
        PROVE  EncodedByte(s, (E + p - 1) \div E, (E + p - 1) % E)
                 = EncodedByte(r, (p - 1) \div E, (p - 1) % E)
    <2> DEFINE b == (p - 1) \div E
               k == (p - 1) % E
    <2>1. p - 1 \in Nat /\ E + p - 1 = (p - 1) + E
      BY <1>2, <1>3
    <2>2. (E + p - 1) \div E = b + 1 /\ (E + p - 1) % E = k
      BY <1>2, <2>1, DivNext
    <2>3. b \in Nat /\ k \in 0 .. E - 1
      BY <1>2, <2>1, DivBounds
    <2> HIDE DEF b, k
    <2>4. (b + 1) * BlockLen = b * BlockLen + BlockLen /\ b * BlockLen \in Nat
      BY <1>2, <2>3
    <2>5. EncodedByte(s, b + 1, k) = EncodedByte(r, b, k)
      <3> DEFINE start == b * BlockLen
      <3>1. Len(s) - (start + BlockLen) = Len(r) - start
        BY <1>1, <1>2, <2>4
      <3>2. k < Len(r) - start => s[start + BlockLen + k + 1] = r[start + k + 1]
        <4>1. ASSUME k < Len(r) - start PROVE start + k + 1 \in 1 .. Len(s) - BlockLen
          <5>1. start \in Nat /\ k \in Nat /\ Len(r) = Len(s) - BlockLen
            BY <1>1, <1>2, <2>3, <2>4
          <5> HIDE DEF start
          <5> QED BY <1>1, <1>2, <4>1, <5>1
        <4>2. start + BlockLen + k + 1 = BlockLen + (start + k + 1)
          BY <1>2, <2>3, <2>4
        <4> QED BY <1>1, <4>1, <4>2
      <3>3. (b + 1) * BlockLen = start + BlockLen
        BY <2>4
      <3> HIDE DEF start
      <3>4. EncodedByte(s, b + 1, k) =
              IF k < BlockLen
              THEN IF k < Len(r) - start THEN r[start + k + 1] ELSE 0
              ELSE IF Len(r) - start <= BlockLen THEN Len(r) - start ELSE ESCAPE_LENGTH
        BY <3>1, <3>2, <3>3 DEF EncodedByte
      <3> QED BY <3>4 DEF EncodedByte, start
    <2> QED BY <2>2, <2>5 DEF b, k
  <1>10. ASSUME NEW p \in 1 .. E + m PROVE Encode(s)[p] = whole[p]
    <2>1. CASE p <= E
      <3>1. p \in 1 .. E
        BY <1>2, <1>3, <2>1
      <3>2. Encode(s)[p] = FirstBlock(s)[p]
        BY <1>5, <1>8, <3>1
      <3> QED BY <1>7, <2>1, <3>2
    <2>2. CASE ~(p <= E)
      <3>1. p - E \in 1 .. m /\ E + (p - E) - 1 = p - 1
        BY <1>2, <1>3, <2>2
      <3> QED BY <1>4, <1>5, <1>7, <1>9, <2>2, <3>1
    <2> QED BY <2>1, <2>2
  <1>11. whole = [p \in 1 .. E + m |-> whole[p]]
    <2> HIDE DEF whole
    <2>1. DOMAIN whole = 1 .. E + m /\ whole \in [DOMAIN whole -> Byte]
      BY <1>7 DEF Strings
    <2> QED BY <2>1
  <1> HIDE DEF whole
  <1> QED BY <1>5, <1>10, <1>11 DEF whole, r

LEMMA StringInduction ==
  ASSUME NEW X,
         \A s \in Strings : Len(s) <= BlockLen => s \in X,
         \A s \in Strings : Len(s) > BlockLen /\ RestOf(s) \in X => s \in X
  PROVE  Strings \subseteq X
  <1> DEFINE T == {m \in Nat : \A s \in Strings : Len(s) <= m => s \in X}
  <1>1. BlockLen \in Nat \ {0} /\ \A s \in Strings : Len(s) \in Nat
    BY BlockLenIs DEF Strings
  <1>2. 0 \in T
    BY <1>1
  <1>3. ASSUME NEW m \in Nat, m \in T PROVE m + 1 \in T
    <2>1. ASSUME NEW s \in Strings, Len(s) <= m + 1 PROVE s \in X
      <3>1. CASE Len(s) > BlockLen
        <4>1. RestOf(s) \in Strings /\ Len(RestOf(s)) <= m
          BY <1>1, <2>1, <3>1, RestIs
        <4>2. RestOf(s) \in X
          BY <1>3, <4>1
        <4> QED BY <3>1, <4>2
      <3>2. CASE ~(Len(s) > BlockLen)
        BY <1>1, <3>2
      <3> QED BY <3>1, <3>2
    <2> QED BY <2>1
  <1>4. Nat \subseteq T
    <2> HIDE DEF T
    <2> QED BY <1>2, <1>3, SetInduction
  <1>5. ASSUME NEW s \in Strings PROVE s \in X
    <2>1. Len(s) \in T /\ Len(s) <= Len(s)
      BY <1>1, <1>4
    <2> QED BY <2>1
  <1> QED BY <1>5

\* An encoding is a string of bytes that begins with a whole block.
LEMMA EncodeType ==
  ASSUME NEW s \in Strings
  PROVE  /\ Encode(s) \in Strings /\ Len(Encode(s)) \in Nat
         /\ Len(Encode(s)) >= ESCAPE_LENGTH
         /\ \A k \in 1 .. ESCAPE_LENGTH : Encode(s)[k] = FirstBlock(s)[k]
  <1> DEFINE X == {x \in Strings : /\ Encode(x) \in Strings
                                   /\ Len(Encode(x)) >= ESCAPE_LENGTH
                                   /\ \A k \in 1 .. ESCAPE_LENGTH : Encode(x)[k] = FirstBlock(x)[k]}
  <1>1. ASSUME NEW x \in Strings, Len(x) <= BlockLen PROVE x \in X
    <2>1. Encode(x) = FirstBlock(x)
      BY <1>1, EncodeLast
    <2>2. FirstBlock(x) \in Strings /\ Len(FirstBlock(x)) = ESCAPE_LENGTH /\ ESCAPE_LENGTH \in Nat
      BY FirstBlockIs, BlockLenIs
    <2> QED BY <2>1, <2>2
  <1>2. ASSUME NEW x \in Strings, Len(x) > BlockLen, RestOf(x) \in X PROVE x \in X
    <2> DEFINE a == FirstBlock(x)
               b == Encode(RestOf(x))
    <2>1. Encode(x) = a \o b
      BY <1>2, EncodeFull
    <2>2. /\ a \in Seq(Byte) /\ Len(a) = ESCAPE_LENGTH /\ ESCAPE_LENGTH \in Nat
          /\ b \in Seq(Byte) /\ Len(b) \in Nat
      BY <1>2, FirstBlockIs, BlockLenIs DEF Strings
    <2> HIDE DEF a, b
    <2>3. /\ a \o b \in Seq(Byte) /\ Len(a \o b) = Len(a) + Len(b)
          /\ \A k \in 1 .. Len(a) + Len(b) : (a \o b)[k] = IF k <= Len(a) THEN a[k] ELSE b[k - Len(a)]
      BY <2>2, ConcatProperties
    <2>4. Len(a \o b) >= ESCAPE_LENGTH /\ \A k \in 1 .. ESCAPE_LENGTH : (a \o b)[k] = a[k]
      BY <2>2, <2>3
    <2> QED BY <2>1, <2>3, <2>4 DEF a, Strings
  <1>3. Strings \subseteq X
    <2> HIDE DEF X
    <2> QED BY <1>1, <1>2, StringInduction
  <1>4. s \in X
    BY <1>3
  <1> QED BY <1>4 DEF Strings

\* The bytes of its first block.
LEMMA FirstBytes ==
  ASSUME NEW s \in Strings
  PROVE  /\ \A k \in 1 .. BlockLen : Encode(s)[k] = IF k <= Len(s) THEN s[k] ELSE 0
         /\ Encode(s)[ESCAPE_LENGTH] = IF Len(s) <= BlockLen THEN Len(s) ELSE ESCAPE_LENGTH
         /\ \A k \in 1 .. Len(Encode(s)) : Encode(s)[k] \in Nat
  <1>1. \A k \in 1 .. BlockLen : k \in 1 .. ESCAPE_LENGTH /\ k <= BlockLen
    BY BlockLenIs
  <1>2. ESCAPE_LENGTH \in 1 .. ESCAPE_LENGTH /\ ~(ESCAPE_LENGTH <= BlockLen)
    BY BlockLenIs
  <1>3. Encode(s) \in Seq(Byte)
    BY EncodeType DEF Strings
  <1>4. Byte \subseteq Nat
    BY DEF Byte
  <1>5. ASSUME NEW k \in 1 .. Len(Encode(s)) PROVE Encode(s)[k] \in Nat
    <2>1. Encode(s)[k] \in Byte
      BY <1>3, ElementOfSeq
    <2> QED BY <1>4, <2>1
  <1> QED BY <1>1, <1>2, <1>5, EncodeType DEF FirstBlock

-----------------------------------------------------------------------------
(* Encoding keeps the order of strings, and no encoding begins another.    *)

\* In both there is a place, and there a is the smaller.
BelowAt(a, b, p) == p <= Len(a) /\ p <= Len(b) /\ SameBefore(a, b, p) /\ a[p] < b[p]

Below(a, b) == \E p \in Nat \ {0} : BelowAt(a, b, p)

LEMMA StringIsNumbers ==
  ASSUME NEW a \in Strings
  PROVE  /\ a \in Numbers /\ Len(a) \in Nat /\ a \in Seq(Byte)
         /\ \A k \in 1 .. Len(a) : a[k] \in Byte /\ a[k] \in Nat
  <1>1. a \in Seq(Byte)
    BY DEF Strings
  <1>2. Byte \subseteq Nat
    BY DEF Byte
  <1>3. a \in Seq(Nat)
    BY <1>1, <1>2, SeqMonotonic
  <1> QED BY <1>1, <1>3 DEF Numbers

LEMMA BelowByBytes ==
  ASSUME NEW a \in Strings, NEW b \in Strings,
         NEW p \in Nat \ {0}, p <= Len(a), p <= Len(b), a[p] < b[p],
         \A j \in 1 .. p - 1 : a[j] <= b[j]
  PROVE  Below(a, b)
  <1> DEFINE D == {j \in 1 .. p : a[j] < b[j]}
  <1>1. /\ Len(a) \in Nat /\ Len(b) \in Nat
        /\ \A k \in 1 .. p : a[k] \in Nat /\ b[k] \in Nat
    BY StringIsNumbers
  <1>2. p \in D /\ D \in SUBSET Nat
    OBVIOUS
  <1>3. PICK m \in D : \A x \in D : m <= x
    <2> HIDE DEF D
    <2> QED BY <1>2, LeastOf
  <1>4. ASSUME NEW j \in 1 .. m - 1 PROVE j <= Len(a) /\ a[j] = b[j]
    <2>1. j \notin D /\ j \in 1 .. p - 1
      BY <1>3
    <2> QED BY <1>1, <2>1
  <1> QED BY <1>1, <1>3, <1>4 DEF Below, BelowAt, SameBefore

LEMMA BelowIsLess ==
  ASSUME NEW a \in Strings, NEW b \in Strings, Below(a, b)
  PROVE  NumbersLess(a, b)
  <1>1. PICK p \in Nat \ {0} : BelowAt(a, b, p)
    BY DEF Below
  <1>2. p \in 1 .. Len(b)
    BY <1>1, StringIsNumbers DEF BelowAt
  <1> QED BY <1>1, <1>2, LessIs DEF BelowAt

LEMMA ConcatIs ==
  ASSUME NEW a \in Strings, NEW b \in Strings
  PROVE  /\ a \o b \in Strings /\ Len(a \o b) = Len(a) + Len(b)
         /\ \A k \in 1 .. Len(a) : (a \o b)[k] = a[k]
         /\ \A k \in 1 .. Len(b) : (a \o b)[Len(a) + k] = b[k]
  <1>1. a \in Seq(Byte) /\ b \in Seq(Byte) /\ Len(a) \in Nat /\ Len(b) \in Nat
    BY StringIsNumbers
  <1>2. /\ a \o b \in Seq(Byte) /\ Len(a \o b) = Len(a) + Len(b)
        /\ \A k \in 1 .. Len(a) + Len(b) : (a \o b)[k] = IF k <= Len(a) THEN a[k] ELSE b[k - Len(a)]
    BY <1>1, ConcatProperties
  <1>3. ASSUME NEW k \in 1 .. Len(b) PROVE (a \o b)[Len(a) + k] = b[k]
    <2>1. Len(a) + k \in 1 .. Len(a) + Len(b) /\ ~(Len(a) + k <= Len(a)) /\ Len(a) + k - Len(a) = k
      BY <1>1
    <2> QED BY <1>2, <2>1
  <1>4. ASSUME NEW k \in 1 .. Len(a) PROVE (a \o b)[k] = a[k]
    <2>1. k \in 1 .. Len(a) + Len(b) /\ k <= Len(a)
      BY <1>1
    <2> QED BY <1>2, <2>1
  <1> QED BY <1>2, <1>3, <1>4 DEF Strings

LEMMA ConcatThree ==
  \A a, b, c \in Strings : (a \o b) \o c = a \o (b \o c)
  <1> TAKE a, b, c \in Strings
  <1>1. a \in Seq(Byte) /\ b \in Seq(Byte) /\ c \in Seq(Byte)
    BY DEF Strings
  <1> QED BY <1>1, ConcatAssociative

LEMMA BelowGoesOn ==
  ASSUME NEW a \in Strings, NEW b \in Strings, NEW x \in Strings, NEW y \in Strings,
         Below(a, b)
  PROVE  Below(a \o x, b \o y)
  <1>1. PICK p \in Nat \ {0} : BelowAt(a, b, p)
    BY DEF Below
  <1>2. /\ Len(a) \in Nat /\ Len(b) \in Nat /\ Len(x) \in Nat /\ Len(y) \in Nat
        /\ Len(a \o x) = Len(a) + Len(x) /\ Len(b \o y) = Len(b) + Len(y)
        /\ \A k \in 1 .. Len(a) : (a \o x)[k] = a[k]
        /\ \A k \in 1 .. Len(b) : (b \o y)[k] = b[k]
    BY StringIsNumbers, ConcatIs
  <1>3. \A k \in 1 .. p : k <= Len(a \o x) /\ (a \o x)[k] = a[k] /\ (b \o y)[k] = b[k]
    BY <1>1, <1>2 DEF BelowAt
  <1>4. p <= Len(a \o x) /\ p <= Len(b \o y)
    BY <1>1, <1>2 DEF BelowAt
  <1>5. (a \o x)[p] < (b \o y)[p]
    BY <1>1, <1>3 DEF BelowAt
  <1>6. SameBefore(a \o x, b \o y, p)
    BY <1>1, <1>3 DEF BelowAt, SameBefore
  <1> QED BY <1>4, <1>5, <1>6 DEF Below, BelowAt

LEMMA BelowAfter ==
  ASSUME NEW a \in Strings, NEW b \in Strings, NEW c \in Strings, Below(a, b)
  PROVE  Below(c \o a, c \o b)
  <1>1. PICK p \in Nat \ {0} : BelowAt(a, b, p)
    BY DEF Below
  <1> DEFINE x == c \o a
             y == c \o b
             q == Len(c) + p
  <1>2. /\ Len(a) \in Nat /\ Len(b) \in Nat /\ Len(c) \in Nat
        /\ Len(x) = Len(c) + Len(a) /\ Len(y) = Len(c) + Len(b)
        /\ \A k \in 1 .. Len(c) : x[k] = c[k] /\ y[k] = c[k]
        /\ \A k \in 1 .. Len(a) : x[Len(c) + k] = a[k]
        /\ \A k \in 1 .. Len(b) : y[Len(c) + k] = b[k]
    BY StringIsNumbers, ConcatIs
  <1> HIDE DEF x, y
  <1>3. p \in 1 .. Len(a) /\ p \in 1 .. Len(b) /\ a[p] < b[p] /\ SameBefore(a, b, p)
    BY <1>1, <1>2 DEF BelowAt
  <1>4. q \in Nat \ {0} /\ q <= Len(x) /\ q <= Len(y) /\ x[q] < y[q]
    BY <1>2, <1>3
  <1>5. ASSUME NEW j \in 1 .. q - 1 PROVE j <= Len(x) /\ x[j] = y[j]
    <2>1. CASE j <= Len(c)
      BY <1>2, <2>1
    <2>2. CASE ~(j <= Len(c))
      <3> DEFINE k == j - Len(c)
      <3>1. k \in 1 .. p - 1 /\ j = Len(c) + k /\ k \in 1 .. Len(a) /\ k \in 1 .. Len(b)
        BY <1>2, <1>3, <2>2
      <3>2. a[k] = b[k]
        BY <1>3, <3>1 DEF SameBefore
      <3> HIDE DEF k
      <3> QED BY <1>2, <3>1, <3>2
    <2> QED BY <2>1, <2>2
  <1> HIDE DEF q
  <1>6. BelowAt(x, y, q)
    BY <1>4, <1>5 DEF BelowAt, SameBefore
  <1> QED BY <1>4, <1>6 DEF Below, x, y

LEMMA LessAfter ==
  ASSUME NEW a \in Strings, NEW b \in Strings, NEW c \in Strings, NumbersLess(a, b)
  PROVE  NumbersLess(c \o a, c \o b)
  <1>1. PICK p \in 1 .. Len(b) : SameBefore(a, b, p) /\ (p > Len(a) \/ a[p] < b[p])
    BY LessIs
  <1> DEFINE x == c \o a
             y == c \o b
             q == Len(c) + p
  <1>2. /\ Len(a) \in Nat /\ Len(b) \in Nat /\ Len(c) \in Nat
        /\ Len(x) = Len(c) + Len(a) /\ Len(y) = Len(c) + Len(b)
        /\ \A k \in 1 .. Len(c) : x[k] = c[k] /\ y[k] = c[k]
        /\ \A k \in 1 .. Len(a) : x[Len(c) + k] = a[k]
        /\ \A k \in 1 .. Len(b) : y[Len(c) + k] = b[k]
    BY StringIsNumbers, ConcatIs
  <1> HIDE DEF x, y
  <1>3. q \in 1 .. Len(y)
    BY <1>2
  <1>4. q > Len(x) \/ x[q] < y[q]
    BY <1>1, <1>2
  <1>5. ASSUME NEW j \in 1 .. q - 1 PROVE j <= Len(x) /\ x[j] = y[j]
    <2>1. CASE j <= Len(c)
      BY <1>2, <2>1
    <2>2. CASE ~(j <= Len(c))
      <3> DEFINE k == j - Len(c)
      <3>1. k \in 1 .. p - 1 /\ j = Len(c) + k /\ k \in 1 .. Len(b)
        BY <1>2, <2>2
      <3>2. k <= Len(a) /\ a[k] = b[k]
        BY <1>1, <3>1 DEF SameBefore
      <3>3. k \in 1 .. Len(a)
        BY <1>2, <3>1, <3>2
      <3> HIDE DEF k
      <3> QED BY <1>2, <3>1, <3>2, <3>3
    <2> QED BY <2>1, <2>2
  <1> HIDE DEF q
  <1>6. SameBefore(x, y, q)
    BY <1>5 DEF SameBefore
  <1> QED BY <1>3, <1>4, <1>6, LessIs DEF x, y

\* The bytes at which the strings differ, or the numbers of bytes in their last
\* blocks, tell in which order their encodings are.
LEMMA EncodeKeepsOrder ==
  ASSUME NEW s \in Strings, NEW t \in Strings, NumbersLess(s, t)
  PROVE  Below(Encode(s), Encode(t))
  <1> DEFINE X == {x \in Strings : \A y \in Strings :
                      NumbersLess(x, y) => Below(Encode(x), Encode(y))}
  <1> DEFINE Differ(x, y, i) == /\ i \in 1 .. Len(y) /\ SameBefore(x, y, i)
                                /\ i > Len(x) \/ x[i] < y[i]
  \* They differ at a byte of the first block.
  <1>1. ASSUME NEW x \in Strings, NEW y \in Strings, NEW i, Differ(x, y, i),
               i <= BlockLen, i <= Len(x)
        PROVE  Below(Encode(x), Encode(y))
    <2>1. /\ i \in Nat \ {0} /\ Len(x) \in Nat /\ Len(y) \in Nat
          /\ BlockLen \in Nat /\ ESCAPE_LENGTH = BlockLen + 1
      BY <1>1, StringIsNumbers, BlockLenIs
    <2>2. i <= Len(Encode(x)) /\ i <= Len(Encode(y))
      BY <1>1, <2>1, EncodeType
    <2>3. ASSUME NEW k \in 1 .. i
          PROVE  Encode(x)[k] = x[k] /\ Encode(y)[k] = y[k]
      <3>1. k \in 1 .. BlockLen /\ k <= Len(x) /\ k <= Len(y)
        BY <1>1, <2>1
      <3> QED BY <3>1, FirstBytes
    <2>4. Encode(x)[i] < Encode(y)[i]
      BY <1>1, <2>1, <2>3
    <2>5. SameBefore(Encode(x), Encode(y), i)
      BY <1>1, <2>1, <2>2, <2>3, EncodeType DEF SameBefore
    <2> QED BY <2>1, <2>2, <2>4, <2>5 DEF Below, BelowAt
  \* x ends in the first block and y goes on.
  <1>2. ASSUME NEW x \in Strings, NEW y \in Strings, NEW i, Differ(x, y, i),
               Len(x) <= BlockLen, i > Len(x)
        PROVE  Below(Encode(x), Encode(y))
    <2>1. /\ i \in Nat \ {0} /\ Len(x) \in Nat /\ Len(y) \in Nat
          /\ BlockLen \in Nat \ {0} /\ ESCAPE_LENGTH = BlockLen + 1
          /\ Len(x) < Len(y)
      BY <1>2, StringIsNumbers, BlockLenIs
    <2> DEFINE p == ESCAPE_LENGTH
    <2>2. p \in Nat \ {0} /\ p <= Len(Encode(x)) /\ p <= Len(Encode(y))
      BY <2>1, EncodeType
    <2>3. Encode(x)[p] < Encode(y)[p]
      <3>1. Encode(x)[p] = Len(x)
        BY <1>2, FirstBytes
      <3>2. Encode(y)[p] = IF Len(y) <= BlockLen THEN Len(y) ELSE p
        BY FirstBytes
      <3> QED BY <1>2, <2>1, <3>1, <3>2
    <2>4. ASSUME NEW j \in 1 .. p - 1 PROVE Encode(x)[j] <= Encode(y)[j]
      <3>1. j \in 1 .. BlockLen
        BY <2>1
      <3>2. /\ Encode(x)[j] = IF j <= Len(x) THEN x[j] ELSE 0
            /\ Encode(y)[j] = IF j <= Len(y) THEN y[j] ELSE 0
        BY <3>1, FirstBytes
      <3>3. CASE j <= Len(x)
        <4>1. j \in 1 .. i - 1 /\ j \in 1 .. Len(y)
          BY <1>2, <2>1, <3>1, <3>3
        <4>2. x[j] = y[j] /\ y[j] \in Nat
          BY <1>2, <4>1, StringIsNumbers DEF SameBefore
        <4>3. j <= Len(y)
          BY <2>1, <4>1
        <4> QED BY <3>2, <3>3, <4>2, <4>3
      <3>4. CASE ~(j <= Len(x))
        <4>1. j <= Len(y) => y[j] \in Nat
          BY <2>1, <3>1, StringIsNumbers
        <4> QED BY <3>2, <3>4, <4>1
      <3> QED BY <3>3, <3>4
    <2> HIDE DEF p
    <2> QED BY <2>2, <2>3, <2>4, EncodeType, BelowByBytes
  <1>3. ASSUME NEW x \in Strings, Len(x) <= BlockLen PROVE x \in X
    <2> SUFFICES ASSUME NEW y \in Strings, NumbersLess(x, y)
                 PROVE  Below(Encode(x), Encode(y))
      OBVIOUS
    <2>1. PICK i : Differ(x, y, i)
      BY LessIs
    <2>2. Len(x) \in Nat /\ i \in Nat /\ BlockLen \in Nat
      BY <2>1, StringIsNumbers, BlockLenIs
    <2> HIDE DEF Differ, X
    <2>3. CASE i <= Len(x)
      BY <1>1, <1>3, <2>1, <2>2, <2>3
    <2>4. CASE i > Len(x)
      BY <1>2, <1>3, <2>1, <2>4
    <2> QED BY <2>2, <2>3, <2>4
  <1>4. ASSUME NEW x \in Strings, Len(x) > BlockLen, RestOf(x) \in X PROVE x \in X
    <2> SUFFICES ASSUME NEW y \in Strings, NumbersLess(x, y)
                 PROVE  Below(Encode(x), Encode(y))
      OBVIOUS
    <2>1. PICK i : Differ(x, y, i)
      BY LessIs
    <2>2. /\ Len(x) \in Nat /\ Len(y) \in Nat /\ i \in 1 .. Len(y)
          /\ BlockLen \in Nat \ {0} /\ ESCAPE_LENGTH = BlockLen + 1
      BY <2>1, StringIsNumbers, BlockLenIs
    <2>3. CASE i <= BlockLen
      <3>1. i <= Len(x)
        BY <1>4, <2>2, <2>3
      <3> HIDE DEF Differ, X
      <3> QED BY <1>1, <2>1, <2>3, <3>1
    <2>4. CASE i > BlockLen
      <3> DEFINE r == RestOf(x)
                 u == RestOf(y)
      <3>1. Len(y) > BlockLen
        BY <2>2, <2>4
      <3>2. /\ r \in Strings /\ Len(r) = Len(x) - BlockLen
            /\ \A k \in 1 .. Len(x) - BlockLen : r[k] = x[BlockLen + k]
            /\ u \in Strings /\ Len(u) = Len(y) - BlockLen
            /\ \A k \in 1 .. Len(y) - BlockLen : u[k] = y[BlockLen + k]
        BY <1>4, <3>1, RestIs
      <3>3. \A u2 \in Strings : NumbersLess(r, u2) => Below(Encode(r), Encode(u2))
        BY <1>4
      <3> HIDE DEF r, u
      <3>4. NumbersLess(r, u)
        <4> DEFINE k == i - BlockLen
        <4>1. k \in 1 .. Len(u) /\ i = BlockLen + k
          BY <2>2, <2>4, <3>2
        <4>2. ASSUME NEW j \in 1 .. k - 1 PROVE j <= Len(r) /\ r[j] = u[j]
          <5>1. BlockLen + j \in 1 .. i - 1 /\ j \in 1 .. Len(y) - BlockLen
            BY <2>2, <4>1
          <5>2. BlockLen + j <= Len(x) /\ x[BlockLen + j] = y[BlockLen + j]
            BY <2>1, <5>1 DEF SameBefore
          <5>3. j \in 1 .. Len(x) - BlockLen
            BY <2>2, <5>1, <5>2
          <5> QED BY <2>2, <3>2, <5>1, <5>2, <5>3
        <4>3. k > Len(r) \/ r[k] < u[k]
          <5>1. CASE i > Len(x)
            BY <2>2, <3>2, <5>1
          <5>2. CASE ~(i > Len(x))
            <6>1. x[i] < y[i] /\ k \in 1 .. Len(x) - BlockLen /\ k \in 1 .. Len(y) - BlockLen
              BY <2>1, <2>2, <2>4, <5>2
            <6> HIDE DEF k
            <6> QED BY <3>2, <4>1, <6>1
          <5> QED BY <5>1, <5>2
        <4> HIDE DEF k
        <4>4. SameBefore(r, u, k)
          BY <4>2 DEF SameBefore
        <4> QED BY <4>1, <4>3, <4>4, LessIs
      <3>5. Below(Encode(r), Encode(u)) /\ Encode(r) \in Strings /\ Encode(u) \in Strings
        BY <3>2, <3>3, <3>4, EncodeType
      <3>6. FirstBlock(x) = FirstBlock(y)
        <4>1. ASSUME NEW k \in 1 .. ESCAPE_LENGTH, k <= BlockLen
              PROVE  k <= Len(x) /\ k <= Len(y) /\ x[k] = y[k]
          <5>1. k \in 1 .. i - 1
            BY <2>2, <2>4, <4>1
          <5>2. x[k] = y[k]
            BY <2>1, <5>1 DEF SameBefore
          <5> QED BY <1>4, <2>2, <3>1, <4>1, <5>2
        <4>2. ~(Len(x) <= BlockLen) /\ ~(Len(y) <= BlockLen)
          BY <1>4, <2>2, <3>1
        <4> QED BY <4>1, <4>2 DEF FirstBlock
      <3>7. Encode(x) = FirstBlock(x) \o Encode(r) /\ Encode(y) = FirstBlock(y) \o Encode(u)
        BY <1>4, <3>1, <3>5, EncodeFull DEF r, u
      <3>8. FirstBlock(x) \in Strings
        BY FirstBlockIs
      <3> QED BY <3>5, <3>6, <3>7, <3>8, BelowAfter
    <2> QED BY <2>2, <2>3, <2>4
  <1>5. Strings \subseteq X
    <2> HIDE DEF X
    <2> QED BY <1>3, <1>4, StringInduction
  <1> QED BY <1>5

-----------------------------------------------------------------------------
(* What encode writes for a tuple.                                         *)

\* h is what FlattenSeq makes of the first m of seqs.
Flattens(h, seqs, m) ==
    h = [i \in 1 .. m |-> IF i = 1 THEN seqs[i] ELSE h[i - 1] \o seqs[i]]

LEMMA FlattensExists ==
  ASSUME NEW seqs \in Seq(Strings)
  PROVE  \E h : Flattens(h, seqs, Len(seqs))
  <1> DEFINE T == {m \in Nat : \E h : Flattens(h, seqs, m)}
  <1>1. 0 \in T
    <2> DEFINE h == [i \in 1 .. 0 |-> IF i = 1 THEN seqs[i] ELSE <<>>]
    <2>1. Flattens(h, seqs, 0)
      BY DEF Flattens
    <2> QED BY <2>1
  <1>2. ASSUME NEW m \in Nat, m \in T PROVE m + 1 \in T
    <2>1. PICK h : Flattens(h, seqs, m)
      BY <1>2
    <2> DEFINE value(i) == IF i = 1 THEN seqs[i] ELSE h[i - 1] \o seqs[i]
               g == [i \in 1 .. m + 1 |-> value(i)]
    <2>2. \A i \in 1 .. m : h[i] = value(i)
      <3> DEFINE k == [i \in 1 .. m |-> value(i)]
      <3>1. h = k
        BY <2>1 DEF Flattens
      <3>2. \A i \in 1 .. m : k[i] = value(i)
        <4> HIDE DEF value
        <4> QED OBVIOUS
      <3> HIDE DEF k, value
      <3> QED BY <3>1, <3>2
    <2>3. \A i \in 1 .. m + 1 : g[i] = value(i)
      <3> HIDE DEF value
      <3> QED OBVIOUS
    <2>4. ASSUME NEW i \in 1 .. m + 1, i # 1 PROVE g[i - 1] = h[i - 1]
      <3>1. i - 1 \in 1 .. m /\ i - 1 \in 1 .. m + 1
        BY <2>4
      <3> HIDE DEF g, value
      <3> QED BY <2>2, <2>3, <3>1
    <2>5. Flattens(g, seqs, m + 1)
      <3>1. ASSUME NEW i \in 1 .. m + 1
            PROVE  value(i) = IF i = 1 THEN seqs[i] ELSE g[i - 1] \o seqs[i]
        <4> HIDE DEF g
        <4> QED BY <2>4
      <3> QED BY <3>1 DEF Flattens
    <2> QED BY <2>5
  <1>3. Nat \subseteq T
    <2> HIDE DEF T
    <2> QED BY <1>1, <1>2, SetInduction
  <1>4. Len(seqs) \in T
    BY <1>3
  <1> QED BY <1>4

\* h(i) is what the first i strings are written as.
Grows(h, seqs, m) ==
    /\ \A i \in 1 .. m : h[i] \in Strings /\ seqs[i] \in Strings
    /\ m > 0 => h[1] = seqs[1]
    /\ \A i \in 1 .. m : i < m => h[i + 1] = h[i] \o seqs[i + 1]

LEMMA FlattensGrows ==
  ASSUME NEW seqs \in Seq(Strings), NEW m \in Nat, m <= Len(seqs), NEW h, Flattens(h, seqs, m)
  PROVE  Grows(h, seqs, m)
  <1> DEFINE value(i) == IF i = 1 THEN seqs[i] ELSE h[i - 1] \o seqs[i]
             k == [i \in 1 .. m |-> value(i)]
  <1>1. \A i \in 1 .. m : h[i] = value(i)
    <2>1. h = k
      BY DEF Flattens
    <2>2. \A i \in 1 .. m : k[i] = value(i)
      <3> HIDE DEF value
      <3> QED OBVIOUS
    <2> HIDE DEF k, value
    <2> QED BY <2>1, <2>2
  <1> HIDE DEF k
  <1>2. \A i \in 1 .. m : seqs[i] \in Strings
    OBVIOUS
  <1>3. m > 0 => h[1] = seqs[1]
    BY <1>1
  <1>4. ASSUME NEW i \in 1 .. m, i < m PROVE h[i + 1] = h[i] \o seqs[i + 1]
    <2> DEFINE next == i + 1
    <2>1. next \in 1 .. m /\ next # 1 /\ next - 1 = i
      BY <1>4
    <2>2. \A j : j # 1 => value(j) = h[j - 1] \o seqs[j]
      OBVIOUS
    <2> HIDE DEF value, next
    <2>3. h[next] = value(next) /\ value(next) = h[next - 1] \o seqs[next]
      BY <1>1, <2>1, <2>2
    <2> QED BY <2>1, <2>3 DEF next
  <1> HIDE DEF value
  <1> DEFINE T == {i \in Nat : i + 1 \in 1 .. m => h[i + 1] \in Strings}
  <1>5. 0 \in T
    BY <1>2, <1>3
  <1>6. ASSUME NEW i \in Nat, i \in T PROVE i + 1 \in T
    <2>1. ASSUME (i + 1) + 1 \in 1 .. m PROVE h[(i + 1) + 1] \in Strings
      <3>1. i + 1 \in 1 .. m /\ i + 1 < m
        BY <2>1
      <3>2. h[i + 1] \in Strings
        BY <1>6, <3>1
      <3>3. h[(i + 1) + 1] = h[i + 1] \o seqs[(i + 1) + 1] /\ seqs[(i + 1) + 1] \in Strings
        BY <1>2, <1>4, <2>1, <3>1
      <3> QED BY <3>2, <3>3, ConcatIs
    <2> QED BY <2>1
  <1>7. Nat \subseteq T
    <2> HIDE DEF T
    <2> QED BY <1>5, <1>6, SetInduction
  <1>8. ASSUME NEW i \in 1 .. m PROVE h[i] \in Strings
    <2>1. i - 1 \in Nat /\ i - 1 + 1 = i
      OBVIOUS
    <2>2. i - 1 \in T
      BY <1>7, <2>1
    <2>3. i - 1 + 1 \in 1 .. m => h[i - 1 + 1] \in Strings
      BY <2>2
    <2> QED BY <2>1, <2>3
  <1> QED BY <1>2, <1>3, <1>4, <1>8 DEF Grows

LEMMA FlattenIs ==
  ASSUME NEW seqs \in Seq(Strings), seqs # <<>>
  PROVE  \E h : Grows(h, seqs, Len(seqs)) /\ FlattenSeq(seqs) = h[Len(seqs)]
  <1> DEFINE g == CHOOSE g : Flattens(g, seqs, Len(seqs))
  <1>1. Flattens(g, seqs, Len(seqs))
    BY FlattensExists
  <1>2. Len(seqs) # 0 /\ Len(seqs) \in Nat /\ Len(seqs) <= Len(seqs)
    BY EmptySeq
  <1>3. FlattenSeq(seqs) = g[Len(seqs)]
    BY <1>2 DEF FlattenSeq, Flattens
  <1> HIDE DEF g
  <1> QED BY <1>1, <1>2, <1>3, FlattensGrows

\* The strings are written one after the other.
LEMMA FlattenHead ==
  ASSUME NEW seqs \in Seq(Strings), seqs # <<>>
  PROVE  /\ FlattenSeq(seqs) \in Strings
         /\ Tail(seqs) = <<>> => FlattenSeq(seqs) = seqs[1]
         /\ Tail(seqs) # <<>> => FlattenSeq(seqs) = seqs[1] \o FlattenSeq(Tail(seqs))
  <1> DEFINE u == Tail(seqs)
             m == Len(seqs) - 1
             one == seqs[1]
  <1>1. /\ u \in Seq(Strings) /\ Len(u) = m /\ m \in Nat /\ Len(seqs) = m + 1
        /\ \A i \in 1 .. m : u[i] = seqs[i + 1]
    BY HeadTailProperties
  <1>2. PICK h : Grows(h, seqs, m + 1) /\ FlattenSeq(seqs) = h[m + 1]
    BY <1>1, FlattenIs
  <1> HIDE DEF u, m
  <1>3. 1 \in 1 .. m + 1 /\ m + 1 \in 1 .. m + 1 /\ m + 1 > 0 /\ m + 1 - 1 = m
    BY <1>1
  <1>4. one \in Strings /\ h[1] = one /\ FlattenSeq(seqs) \in Strings
    BY <1>2, <1>3 DEF Grows
  <1>5. ASSUME u = <<>> PROVE FlattenSeq(seqs) = one
    <2>1. m = 0
      BY <1>1, <1>5, EmptySeq
    <2> QED BY <1>2, <1>4, <2>1
  <1> HIDE DEF one
  <1>6. ASSUME u # <<>> PROVE FlattenSeq(seqs) = one \o FlattenSeq(u)
    <2>1. m > 0
      BY <1>1, <1>6, EmptySeq
    <2>2. PICK g : Grows(g, u, m) /\ FlattenSeq(u) = g[m]
      BY <1>1, <1>6, FlattenIs
    <2> DEFINE T == {i \in Nat : i + 1 \in 1 .. m => h[(i + 1) + 1] = one \o g[i + 1]}
    <2>3. ASSUME NEW i \in 1 .. m PROVE h[i + 1] = h[i] \o u[i]
      <3>1. h[i + 1] = h[i] \o seqs[i + 1]
        <4>1. i \in 1 .. m + 1 /\ i < m + 1
          BY <1>1
        <4> QED BY <1>2, <4>1 DEF Grows
      <3> QED BY <1>1, <3>1
    <2>4. 0 \in T
      <3>1. 1 \in 1 .. m
        BY <1>1, <2>1
      <3>2. h[1 + 1] = h[1] \o u[1] /\ g[1] = u[1]
        BY <2>1, <2>2, <2>3, <3>1 DEF Grows
      <3>3. h[(0 + 1) + 1] = one \o g[0 + 1]
        BY <1>4, <3>2
      <3> QED BY <3>3
    <2>5. ASSUME NEW i \in Nat, i \in T PROVE i + 1 \in T
      <3>1. ASSUME (i + 1) + 1 \in 1 .. m
            PROVE  h[((i + 1) + 1) + 1] = one \o g[(i + 1) + 1]
        <4> DEFINE k == i + 1
        <4>1. k \in 1 .. m /\ k < m /\ k + 1 \in 1 .. m
          BY <1>1, <3>1
        <4>2. h[k + 1] = one \o g[k]
          BY <2>5, <4>1
        <4> HIDE DEF k
        <4>3. h[(k + 1) + 1] = h[k + 1] \o u[k + 1]
          BY <2>3, <4>1
        <4>4. /\ g[k + 1] = g[k] \o u[k + 1]
              /\ g[k] \in Strings /\ u[k + 1] \in Strings
          BY <2>2, <4>1 DEF Grows
        <4>5. (one \o g[k]) \o u[k + 1] = one \o (g[k] \o u[k + 1])
          BY <1>4, <4>4, ConcatThree, Zenon
        <4> QED BY <4>2, <4>3, <4>4, <4>5 DEF k
      <3> QED BY <3>1
    <2>6. Nat \subseteq T
      <3> HIDE DEF T
      <3> QED BY <2>4, <2>5, SetInduction
    <2>7. m - 1 \in Nat /\ m - 1 + 1 = m /\ m - 1 + 1 \in 1 .. m
      BY <1>1, <2>1
    <2>8. m - 1 \in T
      BY <2>6, <2>7
    <2>9. h[(m - 1 + 1) + 1] = one \o g[m - 1 + 1]
      BY <2>7, <2>8
    <2> QED BY <1>2, <2>2, <2>7, <2>9
  <1> QED BY <1>4, <1>5, <1>6 DEF u, one

LEMMA TuplesAre ==
  /\ Tuples = Seq(Strings)
  /\ \A t \in Tuples : t \in Seq(Strings) /\ Len(t) \in Nat /\ (t # <<>> <=> Len(t) > 0)
                       /\ \A i \in 1 .. Len(t) : t[i] \in Strings
  BY EmptySeq DEF Tuples, Strings

LEMMA TailIs ==
  ASSUME NEW t \in Tuples, t # <<>>
  PROVE  /\ Tail(t) \in Tuples /\ Len(Tail(t)) = Len(t) - 1 /\ Head(t) = t[1]
         /\ t[1] \in Strings
         /\ \A i \in 1 .. Len(t) - 1 : Tail(t)[i] = t[i + 1]
  <1>1. Head(t) = t[1]
    OBVIOUS
  <1> QED BY <1>1, TuplesAre, HeadTailProperties

LEMMA TupleInduction ==
  ASSUME NEW X, <<>> \in X,
         \A t \in Tuples : t # <<>> /\ Tail(t) \in X => t \in X
  PROVE  Tuples \subseteq X
  <1> DEFINE T == {m \in Nat : \A t \in Tuples : Len(t) <= m => t \in X}
  <1>1. 0 \in T
    BY TuplesAre
  <1>2. ASSUME NEW m \in Nat, m \in T PROVE m + 1 \in T
    <2>1. ASSUME NEW t \in Tuples, Len(t) <= m + 1 PROVE t \in X
      <3>1. CASE t # <<>>
        <4>1. Tail(t) \in Tuples /\ Len(Tail(t)) <= m
          BY <2>1, <3>1, TailIs, TuplesAre
        <4> QED BY <1>2, <3>1, <4>1
      <3> QED BY <3>1
    <2> QED BY <2>1
  <1>3. Nat \subseteq T
    <2> HIDE DEF T
    <2> QED BY <1>1, <1>2, SetInduction
  <1>4. ASSUME NEW t \in Tuples PROVE t \in X
    <2>1. Len(t) \in T /\ Len(t) <= Len(t)
      BY <1>3, TuplesAre
    <2> QED BY <2>1
  <1> QED BY <1>4

LEMMA EncodeTupleEmpty == EncodeTuple(<<>>) = <<>>
  <1>1. [i \in DOMAIN <<>> |-> Encode(<<>>[i])] = <<>>
    OBVIOUS
  <1> QED BY <1>1 DEF EncodeTuple, FlattenSeq

\* The elements are encoded one after the other.
LEMMA EncodeTupleHead ==
  ASSUME NEW t \in Tuples, t # <<>>
  PROVE  /\ EncodeTuple(t) \in Strings
         /\ EncodeTuple(t) = Encode(t[1]) \o EncodeTuple(Tail(t))
  <1> DEFINE seqs == [i \in DOMAIN t |-> Encode(t[i])]
             u == Tail(t)
             next == [i \in DOMAIN u |-> Encode(u[i])]
  <1>1. /\ t \in Seq(Strings) /\ Len(t) \in Nat /\ Len(t) > 0 /\ DOMAIN t = 1 .. Len(t)
        /\ \A i \in 1 .. Len(t) : t[i] \in Strings
    BY TuplesAre
  <1>2. u \in Seq(Strings) /\ Len(u) = Len(t) - 1 /\ DOMAIN u = 1 .. Len(u) /\ Len(u) \in Nat
        /\ \A i \in 1 .. Len(u) : u[i] = t[i + 1]
    BY TailIs, TuplesAre
  <1> HIDE DEF u
  <1>3. seqs \in Seq(Strings) /\ Len(seqs) = Len(t) /\ seqs # <<>>
        /\ \A i \in 1 .. Len(t) : seqs[i] = Encode(t[i])
    <2>1. seqs \in [1 .. Len(t) -> Strings]
      BY <1>1, EncodeType
    <2>2. Len(seqs) = Len(t) /\ seqs \in Seq(Strings)
      BY <1>1, <2>1
    <2> QED BY <1>1, <2>2, EmptySeq
  <1> HIDE DEF seqs
  <1>4. Tail(seqs) \in Seq(Strings) /\ Len(Tail(seqs)) = Len(u)
        /\ \A i \in 1 .. Len(u) : Tail(seqs)[i] = Encode(u[i])
    <2>1. Tail(seqs) \in Seq(Strings) /\ Len(Tail(seqs)) = Len(seqs) - 1
          /\ \A i \in 1 .. Len(Tail(seqs)) : Tail(seqs)[i] = seqs[i + 1]
      BY <1>3, HeadTailProperties
    <2>2. ASSUME NEW i \in 1 .. Len(u) PROVE Tail(seqs)[i] = Encode(u[i])
      <3>1. i + 1 \in 1 .. Len(t) /\ i \in 1 .. Len(Tail(seqs))
        BY <1>1, <1>2, <1>3, <2>1
      <3> QED BY <1>2, <1>3, <2>1, <3>1
    <2> QED BY <1>2, <1>3, <2>1, <2>2
  <1>5. Tail(seqs) = next
    <2> DEFINE v == Tail(seqs)
    <2>1. v = [i \in 1 .. Len(v) |-> v[i]]
      <3>1. v \in Seq(Strings)
        BY <1>4
      <3> HIDE DEF v
      <3> QED BY <3>1
    <2> QED BY <1>2, <1>4, <2>1
  <1>6. EncodeTuple(t) = FlattenSeq(seqs) /\ EncodeTuple(u) = FlattenSeq(Tail(seqs))
    BY <1>5 DEF EncodeTuple, seqs
  <1>7. 1 \in 1 .. Len(t)
    BY <1>1
  <1>8. seqs[1] = Encode(t[1]) /\ Encode(t[1]) \in Strings
    BY <1>1, <1>3, <1>7, EncodeType
  <1>9. EncodeTuple(t) = Encode(t[1]) \o EncodeTuple(u)
    <2>1. CASE Tail(seqs) = <<>>
      <3>1. FlattenSeq(Tail(seqs)) = <<>>
        BY <2>1 DEF FlattenSeq
      <3> QED BY <1>3, <1>6, <1>8, <2>1, <3>1, FlattenHead, ConcatEmptySeq DEF Strings
    <2>2. CASE Tail(seqs) # <<>>
      BY <1>3, <1>6, <1>8, <2>2, FlattenHead
    <2> QED BY <2>1, <2>2
  <1> QED BY <1>3, <1>6, <1>9, FlattenHead DEF u

LEMMA EncodeTupleType ==
  ASSUME NEW t \in Tuples
  PROVE  /\ EncodeTuple(t) \in Strings
         /\ t # <<>> => Len(EncodeTuple(t)) > 0
  <1>1. CASE t = <<>>
    <2>1. <<>> \in Strings
      BY DEF Strings
    <2> QED BY <1>1, <2>1, EncodeTupleEmpty
  <1>2. CASE t # <<>>
    <2>1. Tail(t) \in Tuples /\ t[1] \in Strings
      BY <1>2, TailIs
    <2>2. EncodeTuple(Tail(t)) \in Strings
      <3>1. <<>> \in Strings
        BY DEF Strings
      <3> QED BY <2>1, <3>1, EncodeTupleHead, EncodeTupleEmpty
    <2>3. /\ Encode(t[1]) \in Strings /\ Len(Encode(t[1])) \in Nat
          /\ Len(Encode(t[1])) >= ESCAPE_LENGTH /\ ESCAPE_LENGTH \in Nat \ {0}
          /\ Len(EncodeTuple(Tail(t))) \in Nat
      BY <2>1, <2>2, EncodeType, BlockLenIs, StringIsNumbers
    <2>4. Len(EncodeTuple(t)) = Len(Encode(t[1])) + Len(EncodeTuple(Tail(t)))
      BY <1>2, <2>2, <2>3, EncodeTupleHead, ConcatIs
    <2> QED BY <1>2, <2>3, <2>4, EncodeTupleHead
  <1> QED BY <1>1, <1>2

-----------------------------------------------------------------------------
(* Encoding keeps the order of tuples.                                     *)

LEMMA TupleLessIs ==
  ASSUME NEW s, NEW t
  PROVE  TupleLess(s, t) <=>
           \E i \in 1 .. Len(t) : SameBefore(s, t, i) /\ (i > Len(s) \/ NumbersLess(s[i], t[i]))
  BY DEF TupleLess, BytesLess, Precedes, SameBefore

LEMMA TupleTotal ==
  ASSUME NEW s \in Tuples, NEW t \in Tuples
  PROVE  s = t \/ TupleLess(s, t) \/ TupleLess(t, s)
  <1>1. /\ s \in Seq(Strings) /\ t \in Seq(Strings) /\ Len(s) \in Nat /\ Len(t) \in Nat
        /\ \A i \in 1 .. Len(s) : s[i] \in Numbers
        /\ \A i \in 1 .. Len(t) : t[i] \in Numbers
    BY TuplesAre, StringIsNumbers
  <1>2. CASE Len(s) < Len(t) /\ \A j \in 1 .. Len(s) : s[j] = t[j]
    <2>1. Len(s) + 1 \in 1 .. Len(t) /\ SameBefore(s, t, Len(s) + 1) /\ Len(s) + 1 > Len(s)
      BY <1>1, <1>2 DEF SameBefore
    <2> QED BY <2>1, TupleLessIs
  <1>3. CASE Len(t) < Len(s) /\ \A j \in 1 .. Len(t) : s[j] = t[j]
    <2>1. Len(t) + 1 \in 1 .. Len(s) /\ SameBefore(t, s, Len(t) + 1) /\ Len(t) + 1 > Len(t)
      BY <1>1, <1>3 DEF SameBefore
    <2> QED BY <2>1, TupleLessIs
  <1>4. ASSUME NEW i \in 1 .. Len(s), i <= Len(t), s[i] # t[i],
               \A j \in 1 .. i - 1 : s[j] = t[j]
        PROVE  TupleLess(s, t) \/ TupleLess(t, s)
    <2>1. SameBefore(s, t, i) /\ SameBefore(t, s, i) /\ i \in 1 .. Len(t)
      BY <1>1, <1>4 DEF SameBefore
    <2>2. NumbersLess(s[i], t[i]) \/ NumbersLess(t[i], s[i])
      BY <1>1, <1>4, <2>1, NumbersTotal
    <2> QED BY <2>1, <2>2, TupleLessIs
  <1> QED BY <1>1, <1>2, <1>3, <1>4, FirstDifference

LEMMA TupleIrreflexive ==
  ASSUME NEW s \in Tuples
  PROVE  ~TupleLess(s, s)
  <1>1. Len(s) \in Nat /\ \A i \in 1 .. Len(s) : s[i] \in Numbers
    BY TuplesAre, StringIsNumbers
  <1>2. ASSUME NEW i \in 1 .. Len(s) PROVE ~(i > Len(s)) /\ ~NumbersLess(s[i], s[i])
    BY <1>1, NumbersIrreflexive
  <1> QED BY <1>2, TupleLessIs

\* The code's reason to encode keys: their bytes compare as the tuples do.
LEMMA EncodeTupleKeepsOrder ==
  ASSUME NEW s \in Tuples, NEW t \in Tuples, TupleLess(s, t)
  PROVE  BytesLess(EncodeTuple(s), EncodeTuple(t))
  <1> DEFINE X == {x \in Tuples : \A y \in Tuples :
                      TupleLess(x, y) => NumbersLess(EncodeTuple(x), EncodeTuple(y))}
  <1>1. <<>> \in X
    <2>1. <<>> \in Tuples /\ EncodeTuple(<<>>) = <<>> /\ Len(<<>>) = 0
      BY EncodeTupleEmpty DEF Tuples
    <2>2. ASSUME NEW y \in Tuples, TupleLess(<<>>, y)
          PROVE  NumbersLess(<<>>, EncodeTuple(y))
      <3>1. PICK i \in 1 .. Len(y) : TRUE
        BY <2>2, TupleLessIs
      <3>2. y # <<>>
        BY <3>1, TuplesAre
      <3>3. Len(EncodeTuple(y)) \in Nat /\ Len(EncodeTuple(y)) > 0
        BY <3>2, EncodeTupleType, StringIsNumbers
      <3>4. 1 \in 1 .. Len(EncodeTuple(y)) /\ 1 > Len(<<>>)
        BY <2>1, <3>3
      <3>5. SameBefore(<<>>, EncodeTuple(y), 1)
        BY DEF SameBefore
      <3> QED BY <3>4, <3>5, LessIs
    <2> QED BY <2>1, <2>2
  <1>2. ASSUME NEW x \in Tuples, x # <<>>, Tail(x) \in X PROVE x \in X
    <2> SUFFICES ASSUME NEW y \in Tuples, TupleLess(x, y)
                 PROVE  NumbersLess(EncodeTuple(x), EncodeTuple(y))
      OBVIOUS
    <2>1. PICK i \in 1 .. Len(y) : SameBefore(x, y, i) /\ (i > Len(x) \/ NumbersLess(x[i], y[i]))
      BY TupleLessIs
    <2>2. y # <<>>
      BY <2>1, TuplesAre
    <2>3. Len(x) \in Nat /\ Len(y) \in Nat /\ Len(x) > 0 /\ Len(y) > 0
      BY <1>2, <2>2, TuplesAre
    <2> DEFINE a == EncodeTuple(Tail(x))
               b == EncodeTuple(Tail(y))
    <2>4. /\ x[1] \in Strings /\ y[1] \in Strings /\ Tail(x) \in Tuples /\ Tail(y) \in Tuples
          /\ a \in Strings /\ b \in Strings
          /\ EncodeTuple(x) = Encode(x[1]) \o a /\ EncodeTuple(y) = Encode(y[1]) \o b
      BY <1>2, <2>2, TailIs, EncodeTupleHead, EncodeTupleType
    <2>5. Encode(x[1]) \in Strings /\ Encode(y[1]) \in Strings
      BY <2>4, EncodeType
    <2>6. \A z \in Tuples : TupleLess(Tail(x), z) => NumbersLess(a, EncodeTuple(z))
      BY <1>2
    <2>7. CASE i = 1
      <3>1. NumbersLess(x[1], y[1])
        BY <2>1, <2>3, <2>7
      <3>2. Below(Encode(x[1]), Encode(y[1]))
        BY <2>4, <3>1, EncodeKeepsOrder
      <3> HIDE DEF a, b
      <3>3. /\ Below(Encode(x[1]) \o a, Encode(y[1]) \o b)
            /\ Encode(x[1]) \o a \in Strings /\ Encode(y[1]) \o b \in Strings
        BY <2>4, <2>5, <3>2, BelowGoesOn, ConcatIs
      <3> QED BY <2>4, <3>3, BelowIsLess
    <2>8. CASE i # 1
      <3>1. x[1] = y[1]
        <4>1. 1 \in 1 .. i - 1
          BY <2>3, <2>8
        <4> QED BY <2>1, <4>1 DEF SameBefore
      <3>2. TupleLess(Tail(x), Tail(y))
        <4> DEFINE k == i - 1
                   v == Tail(x)
                   w == Tail(y)
        <4>1. /\ Len(v) = Len(x) - 1 /\ Len(w) = Len(y) - 1
              /\ \A j \in 1 .. Len(x) - 1 : v[j] = x[j + 1]
              /\ \A j \in 1 .. Len(y) - 1 : w[j] = y[j + 1]
          BY <1>2, <2>2, TailIs
        <4> HIDE DEF v, w
        <4>2. k \in 1 .. Len(w) /\ k + 1 = i
          BY <2>3, <2>8, <4>1
        <4> HIDE DEF k
        <4>3. ASSUME NEW j \in 1 .. k - 1 PROVE j <= Len(v) /\ v[j] = w[j]
          <5>1. j + 1 \in 1 .. i - 1
            BY <4>2
          <5>2. j + 1 <= Len(x) /\ x[j + 1] = y[j + 1]
            BY <2>1, <5>1 DEF SameBefore
          <5>3. j \in 1 .. Len(x) - 1 /\ j \in 1 .. Len(y) - 1
            BY <2>3, <4>2, <5>1, <5>2
          <5> QED BY <2>3, <4>1, <5>2, <5>3
        <4>4. k > Len(v) \/ NumbersLess(v[k], w[k])
          <5>1. CASE i > Len(x)
            BY <2>3, <4>1, <4>2, <5>1
          <5>2. CASE ~(i > Len(x))
            <6>1. k \in 1 .. Len(x) - 1 /\ k \in 1 .. Len(y) - 1
              BY <2>3, <4>1, <4>2, <5>2
            <6>2. v[k] = x[i] /\ w[k] = y[i]
              BY <4>1, <4>2, <6>1
            <6> QED BY <2>1, <5>2, <6>2
          <5> QED BY <5>1, <5>2
        <4>5. SameBefore(v, w, k)
          BY <4>3 DEF SameBefore
        <4>6. TupleLess(v, w)
          BY <4>2, <4>4, <4>5, TupleLessIs
        <4> QED BY <4>6 DEF v, w
      <3>3. NumbersLess(a, b)
        BY <2>4, <2>6, <3>2
      <3> HIDE DEF a, b
      <3> QED BY <2>4, <2>5, <3>1, <3>3, LessAfter
    <2> QED BY <2>7, <2>8
  <1>3. Tuples \subseteq X
    <2> HIDE DEF X
    <2> QED BY <1>1, <1>2, TupleInduction
  <1> QED BY <1>3 DEF BytesLess

\* So the bytes tell the order of tuples, and whether they are the same.
THEOREM OrderOfEncodings ==
  ASSUME NEW s \in Tuples, NEW t \in Tuples
  PROVE  /\ TupleLess(s, t) <=> NumbersLess(EncodeTuple(s), EncodeTuple(t))
         /\ EncodeTuple(s) = EncodeTuple(t) => s = t
         /\ EncodeTuple(s) \in Numbers /\ EncodeTuple(t) \in Numbers
  <1>1. EncodeTuple(s) \in Numbers /\ EncodeTuple(t) \in Numbers
    BY EncodeTupleType, StringIsNumbers
  <1>2. TupleLess(s, t) => NumbersLess(EncodeTuple(s), EncodeTuple(t))
    BY EncodeTupleKeepsOrder DEF BytesLess
  <1>3. TupleLess(t, s) => NumbersLess(EncodeTuple(t), EncodeTuple(s))
    BY EncodeTupleKeepsOrder DEF BytesLess
  <1>4. ~NumbersLess(EncodeTuple(s), EncodeTuple(s))
    BY <1>1, NumbersIrreflexive
  <1>5. ~(NumbersLess(EncodeTuple(s), EncodeTuple(t)) /\ NumbersLess(EncodeTuple(t), EncodeTuple(s)))
    BY <1>1, <1>4, NumbersTransitive
  <1> QED BY <1>1, <1>2, <1>3, <1>4, <1>5, TupleTotal

-----------------------------------------------------------------------------
(* What a step of encode writes, and a step of decode takes away.          *)

LEMMA FullBlockIs ==
  ASSUME NEW s \in Strings, Len(s) > BlockLen
  PROVE  /\ SubSeq(s, 1, BlockLen) \in Strings /\ <<ESCAPE_LENGTH>> \in Strings
         /\ SubSeq(s, 1, BlockLen) \o <<ESCAPE_LENGTH>> = FirstBlock(s)
         /\ SubSeq(s, 1, BlockLen) \o RestOf(s) = s
         /\ SubSeq(FirstBlock(s), 1, BlockLen) = SubSeq(s, 1, BlockLen)
  <1> DEFINE a == SubSeq(s, 1, BlockLen)
             b == <<ESCAPE_LENGTH>>
             c == FirstBlock(s)
             d == SubSeq(c, 1, BlockLen)
  <1>1. /\ s \in Seq(Byte) /\ Len(s) \in Nat /\ BlockLen \in Nat \ {0}
        /\ ESCAPE_LENGTH = BlockLen + 1 /\ ESCAPE_LENGTH <= 255
    BY BlockLenIs, StringIsNumbers
  <1>2. a \in Strings /\ Len(a) = BlockLen /\ \A k \in 1 .. BlockLen : a[k] = s[k]
    <2>1. \A k \in 1 .. BlockLen : s[k] \in Byte
      BY <1>1
    <2>2. /\ a \in Seq(Byte) /\ Len(a) = IF 1 <= BlockLen THEN BlockLen - 1 + 1 ELSE 0
          /\ \A k \in 1 .. BlockLen - 1 + 1 : a[k] = s[1 + k - 1]
      BY <1>1, <2>1, SubSeqProperties
    <2> HIDE DEF a
    <2>3. BlockLen - 1 + 1 = BlockLen /\ 1 <= BlockLen /\ \A k \in 1 .. BlockLen : 1 + k - 1 = k
      BY <1>1
    <2> QED BY <2>2, <2>3 DEF Strings
  <1>3. b \in Strings /\ Len(b) = 1 /\ b[1] = ESCAPE_LENGTH
    <2>1. ESCAPE_LENGTH \in Byte
      BY <1>1 DEF Byte
    <2> QED BY <2>1 DEF Strings
  <1>4. /\ c \in Strings /\ Len(c) = BlockLen + 1 /\ c[BlockLen + 1] = ESCAPE_LENGTH
        /\ \A k \in 1 .. BlockLen : c[k] = s[k]
    <2>1. c \in Strings /\ Len(c) = BlockLen + 1
      BY <1>1, FirstBlockIs
    <2>2. \A k \in 1 .. BlockLen : k \in 1 .. ESCAPE_LENGTH /\ k <= BlockLen /\ k <= Len(s)
      BY <1>1
    <2>3. BlockLen + 1 \in 1 .. ESCAPE_LENGTH /\ ~(BlockLen + 1 <= BlockLen) /\ ~(Len(s) <= BlockLen)
      BY <1>1
    <2> QED BY <2>1, <2>2, <2>3 DEF FirstBlock
  <1>5. d \in Strings /\ Len(d) = BlockLen /\ \A k \in 1 .. BlockLen : d[k] = c[k]
    <2> HIDE DEF c
    <2>1. \A k \in 1 .. BlockLen : c[k] \in Byte
      BY <1>1, <1>4 DEF Strings
    <2>2. /\ d \in Seq(Byte) /\ Len(d) = IF 1 <= BlockLen THEN BlockLen - 1 + 1 ELSE 0
          /\ \A k \in 1 .. BlockLen - 1 + 1 : d[k] = c[1 + k - 1]
      BY <1>1, <2>1, SubSeqProperties
    <2> HIDE DEF d
    <2>3. BlockLen - 1 + 1 = BlockLen /\ 1 <= BlockLen /\ \A k \in 1 .. BlockLen : 1 + k - 1 = k
      BY <1>1
    <2> QED BY <2>2, <2>3 DEF Strings
  <1>6. RestOf(s) \in Strings /\ Len(RestOf(s)) = Len(s) - BlockLen
        /\ \A k \in 1 .. Len(s) - BlockLen : RestOf(s)[k] = s[BlockLen + k]
    BY RestIs
  <1> HIDE DEF a, b, c, d
  <1>7. a \o b = c
    <2>1. a \o b \in Seq(Byte) /\ c \in Seq(Byte) /\ Len(a \o b) = Len(c)
          /\ Len(a \o b) = BlockLen + 1
      <3>1. a \o b \in Strings /\ Len(a \o b) = Len(a) + Len(b)
        BY <1>2, <1>3, <1>4, ConcatIs
      <3> QED BY <1>1, <1>2, <1>3, <1>4, <3>1 DEF Strings
    <2>2. ASSUME NEW k \in 1 .. Len(a \o b) PROVE (a \o b)[k] = c[k]
      <3>1. CASE k <= BlockLen
        <4>1. k \in 1 .. BlockLen
          BY <1>1, <2>1, <3>1
        <4>2. (a \o b)[k] = a[k]
          BY <1>2, <1>3, <1>4, <4>1, ConcatIs
        <4> QED BY <1>2, <1>3, <1>4, <4>1, <4>2
      <3>2. CASE ~(k <= BlockLen)
        <4>1. k = BlockLen + 1 /\ 1 \in 1 .. Len(b)
          BY <1>1, <1>3, <2>1, <3>2
        <4>2. (a \o b)[Len(a) + 1] = b[1]
          BY <1>2, <1>3, <4>1, ConcatIs
        <4> QED BY <1>2, <1>3, <1>4, <4>1, <4>2
      <3> QED BY <3>1, <3>2
    <2> QED BY <2>1, <2>2, SeqEqual
  <1>8. a \o RestOf(s) = s
    <2>1. a \o RestOf(s) \in Seq(Byte) /\ Len(a \o RestOf(s)) = Len(s)
      <3>1. a \o RestOf(s) \in Strings /\ Len(a \o RestOf(s)) = Len(a) + Len(RestOf(s))
        BY <1>2, <1>6, ConcatIs
      <3> QED BY <1>1, <1>2, <1>6, <3>1 DEF Strings
    <2>2. ASSUME NEW k \in 1 .. Len(a \o RestOf(s)) PROVE (a \o RestOf(s))[k] = s[k]
      <3>1. CASE k <= BlockLen
        BY <1>1, <1>2, <1>6, <2>1, <3>1, ConcatIs
      <3>2. CASE ~(k <= BlockLen)
        <4> DEFINE j == k - BlockLen
        <4>1. j \in 1 .. Len(s) - BlockLen /\ k = BlockLen + j
          BY <1>1, <2>1, <3>2
        <4> HIDE DEF j
        <4>2. (a \o RestOf(s))[Len(a) + j] = RestOf(s)[j]
          BY <1>2, <1>6, <4>1, ConcatIs
        <4> QED BY <1>2, <1>6, <4>1, <4>2
      <3> QED BY <3>1, <3>2
    <2> QED BY <1>1, <2>1, <2>2, SeqEqual
  <1>9. d = a
    <2>1. d \in Seq(Byte) /\ a \in Seq(Byte)
      BY <1>2, <1>5 DEF Strings
    <2> QED BY <1>2, <1>4, <1>5, <2>1, SeqEqual
  <1> QED BY <1>2, <1>3, <1>7, <1>8, <1>9 DEF a, b, c, d

LEMMA LastBlockIs ==
  ASSUME NEW s \in Strings, Len(s) <= BlockLen
  PROVE  LET a == [k \in 1 .. BlockLen |-> IF k <= Len(s) THEN s[k] ELSE 0]
         IN  /\ a \in Strings /\ <<Len(s)>> \in Strings
             /\ a \o <<Len(s)>> = FirstBlock(s)
             /\ SubSeq(FirstBlock(s), 1, Len(s)) = s
  <1> DEFINE a == [k \in 1 .. BlockLen |-> IF k <= Len(s) THEN s[k] ELSE 0]
             b == <<Len(s)>>
             c == FirstBlock(s)
             d == SubSeq(c, 1, Len(s))
  <1>1. /\ s \in Seq(Byte) /\ Len(s) \in Nat /\ BlockLen \in Nat \ {0}
        /\ ESCAPE_LENGTH = BlockLen + 1 /\ ESCAPE_LENGTH <= 255
        /\ \A k \in 1 .. Len(s) : s[k] \in Byte
    BY BlockLenIs, StringIsNumbers
  <1>2. c \in Strings /\ Len(c) = BlockLen + 1 /\ c[BlockLen + 1] = Len(s)
        /\ \A k \in 1 .. BlockLen : c[k] = IF k <= Len(s) THEN s[k] ELSE 0
    <2>1. c \in Strings /\ Len(c) = BlockLen + 1
      BY <1>1, FirstBlockIs
    <2>2. \A k \in 1 .. BlockLen : k \in 1 .. ESCAPE_LENGTH /\ k <= BlockLen
      BY <1>1
    <2>3. BlockLen + 1 \in 1 .. ESCAPE_LENGTH /\ ~(BlockLen + 1 <= BlockLen)
      BY <1>1
    <2> QED BY <2>1, <2>2, <2>3 DEF FirstBlock
  <1> HIDE DEF c
  <1>3. a \in Strings /\ Len(a) = BlockLen /\ \A k \in 1 .. BlockLen : a[k] = c[k]
    <2>1. \A k \in 1 .. BlockLen : a[k] = c[k]
      BY <1>2
    <2>2. \A k \in 1 .. BlockLen : c[k] \in Byte
      BY <1>1, <1>2 DEF Strings
    <2>3. DOMAIN a = 1 .. BlockLen
      OBVIOUS
    <2>4. a = [k \in 1 .. BlockLen |-> c[k]]
      BY <2>1
    <2>5. a \in [1 .. BlockLen -> Byte]
      BY <2>2, <2>4
    <2> QED BY <1>1, <2>1, <2>5 DEF Strings
  <1>4. b \in Strings /\ Len(b) = 1 /\ b[1] = Len(s)
    <2>1. c[BlockLen + 1] \in Byte
      BY <1>1, <1>2 DEF Strings
    <2> QED BY <1>2, <2>1 DEF Strings
  <1>5. d = s
    <2>1. ASSUME NEW k \in 1 .. Len(s) PROVE c[k] = s[k]
      <3>1. k \in 1 .. BlockLen /\ k <= Len(s)
        BY <1>1
      <3> QED BY <1>2, <3>1
    <2>2. \A k \in 1 .. Len(s) : c[k] \in Byte
      BY <1>1, <2>1
    <2>3. /\ d \in Seq(Byte) /\ Len(d) = IF 1 <= Len(s) THEN Len(s) - 1 + 1 ELSE 0
          /\ \A k \in 1 .. Len(s) - 1 + 1 : d[k] = c[1 + k - 1]
      BY <1>1, <2>2, SubSeqProperties
    <2> HIDE DEF d
    <2>4. Len(s) - 1 + 1 = Len(s) /\ (~(1 <= Len(s)) => Len(s) = 0)
          /\ \A k \in 1 .. Len(s) : 1 + k - 1 = k
      BY <1>1
    <2>5. Len(d) = Len(s) /\ \A k \in 1 .. Len(s) : d[k] = s[k]
      BY <2>1, <2>3, <2>4
    <2> QED BY <1>1, <2>3, <2>5, SeqEqual
  <1> HIDE DEF a, b, d
  <1>6. a \o b = c
    <2>1. a \o b \in Seq(Byte) /\ c \in Seq(Byte) /\ Len(a \o b) = Len(c)
          /\ Len(a \o b) = BlockLen + 1
      <3>1. a \o b \in Strings /\ Len(a \o b) = Len(a) + Len(b)
        BY <1>2, <1>3, <1>4, ConcatIs
      <3> QED BY <1>1, <1>2, <1>3, <1>4, <3>1 DEF Strings
    <2>2. ASSUME NEW k \in 1 .. Len(a \o b) PROVE (a \o b)[k] = c[k]
      <3>1. CASE k <= BlockLen
        <4>1. k \in 1 .. BlockLen
          BY <1>1, <2>1, <3>1
        <4>2. (a \o b)[k] = a[k]
          BY <1>2, <1>3, <1>4, <4>1, ConcatIs
        <4> QED BY <1>2, <1>3, <1>4, <4>1, <4>2
      <3>2. CASE ~(k <= BlockLen)
        <4>1. k = BlockLen + 1 /\ 1 \in 1 .. Len(b)
          BY <1>1, <1>4, <2>1, <3>2
        <4>2. (a \o b)[Len(a) + 1] = b[1]
          BY <1>3, <1>4, <4>1, ConcatIs
        <4> QED BY <1>2, <1>3, <1>4, <4>1, <4>2
      <3> QED BY <3>1, <3>2
    <2> QED BY <2>1, <2>2, SeqEqual
  <1> QED BY <1>3, <1>4, <1>5, <1>6 DEF a, b, c, d

\* The front of a concatenation, and what follows it.
LEMMA PartsOfConcat ==
  ASSUME NEW a \in Strings, NEW w \in Strings
  PROVE  /\ SubSeq(a \o w, Len(a) + 1, Len(a \o w)) = w
         /\ \A k \in 0 .. Len(a) : SubSeq(a \o w, 1, k) = SubSeq(a, 1, k)
  <1> DEFINE x == a \o w
  <1>1. /\ a \in Seq(Byte) /\ w \in Seq(Byte) /\ Len(a) \in Nat /\ Len(w) \in Nat
        /\ x \in Seq(Byte) /\ Len(x) = Len(a) + Len(w)
        /\ \A k \in 1 .. Len(a) : x[k] = a[k]
        /\ \A k \in 1 .. Len(w) : x[Len(a) + k] = w[k]
    BY StringIsNumbers, ConcatIs
  <1> HIDE DEF x
  <1>2. SubSeq(x, Len(a) + 1, Len(x)) = w
    <2> DEFINE m == Len(a) + 1
               d == SubSeq(x, m, Len(x))
    <2>1. m \in Int /\ Len(x) \in Int /\ \A i \in m .. Len(x) : x[i] \in Byte
      BY <1>1
    <2>2. /\ d \in Seq(Byte) /\ Len(d) = IF m <= Len(x) THEN Len(x) - m + 1 ELSE 0
          /\ \A k \in 1 .. Len(x) - m + 1 : d[k] = x[m + k - 1]
      BY <2>1, SubSeqProperties
    <2> HIDE DEF d
    <2>3. Len(x) - m + 1 = Len(w) /\ (~(m <= Len(x)) => Len(w) = 0)
          /\ \A k \in 1 .. Len(w) : m + k - 1 = Len(a) + k
      BY <1>1
    <2> HIDE DEF m
    <2>4. Len(d) = Len(w) /\ \A k \in 1 .. Len(w) : d[k] = w[k]
      BY <1>1, <2>2, <2>3
    <2> QED BY <1>1, <2>2, <2>4, SeqEqual DEF d, m
  <1>3. ASSUME NEW k \in 0 .. Len(a) PROVE SubSeq(x, 1, k) = SubSeq(a, 1, k)
    <2> DEFINE d == SubSeq(x, 1, k)
               e == SubSeq(a, 1, k)
    <2>1. \A i \in 1 .. k : x[i] \in Byte /\ a[i] \in Byte /\ x[i] = a[i]
      BY <1>1
    <2>2. /\ d \in Seq(Byte) /\ Len(d) = IF 1 <= k THEN k - 1 + 1 ELSE 0
          /\ \A i \in 1 .. k - 1 + 1 : d[i] = x[1 + i - 1]
      BY <2>1, SubSeqProperties
    <2>3. /\ e \in Seq(Byte) /\ Len(e) = IF 1 <= k THEN k - 1 + 1 ELSE 0
          /\ \A i \in 1 .. k - 1 + 1 : e[i] = a[1 + i - 1]
      BY <2>1, SubSeqProperties
    <2> HIDE DEF d, e
    <2>4. k - 1 + 1 = k /\ (~(1 <= k) => k = 0) /\ \A i \in 1 .. k : 1 + i - 1 = i
      OBVIOUS
    <2>5. Len(d) = k /\ Len(e) = k /\ \A i \in 1 .. k : d[i] = e[i]
      BY <2>1, <2>2, <2>3, <2>4
    <2>6. d = e
      BY <2>2, <2>3, <2>5, SeqEqual
    <2> QED BY <2>6 DEF d, e
  <1> QED BY <1>2, <1>3 DEF x

LEMMA TakenLast ==
  ASSUME NEW s \in Strings, NEW z \in Strings, Len(s) <= BlockLen
  PROVE  LET x == Encode(s) \o z
         IN  /\ x[ESCAPE_LENGTH] = Len(s) /\ Len(s) < ESCAPE_LENGTH
             /\ SubSeq(x, 1, Len(s)) = s
             /\ SubSeq(x, ESCAPE_LENGTH + 1, Len(x)) = z
  <1> DEFINE c == FirstBlock(s)
  <1>1. Encode(s) = c /\ c \in Strings /\ Len(c) = ESCAPE_LENGTH
    BY EncodeLast, FirstBlockIs
  <1>2. /\ Len(s) \in 0 .. Len(c) /\ Len(s) < ESCAPE_LENGTH
        /\ ESCAPE_LENGTH \in 1 .. Len(c) /\ ~(ESCAPE_LENGTH <= BlockLen)
    BY <1>1, BlockLenIs, StringIsNumbers
  <1>3. SubSeq(c, 1, Len(s)) = s
    BY LastBlockIs
  <1>4. c[ESCAPE_LENGTH] = Len(s)
    BY <1>1, <1>2 DEF FirstBlock
  <1> HIDE DEF c
  <1>5. (c \o z)[ESCAPE_LENGTH] = c[ESCAPE_LENGTH]
    BY <1>1, <1>2, ConcatIs
  <1> QED BY <1>1, <1>2, <1>3, <1>4, <1>5, PartsOfConcat

LEMMA TakenFull ==
  ASSUME NEW s \in Strings, NEW z \in Strings, Len(s) > BlockLen
  PROVE  LET x == Encode(s) \o z
         IN  /\ x[ESCAPE_LENGTH] = ESCAPE_LENGTH
             /\ SubSeq(x, 1, BlockLen) = SubSeq(s, 1, BlockLen)
             /\ SubSeq(x, ESCAPE_LENGTH + 1, Len(x)) = Encode(RestOf(s)) \o z
  <1> DEFINE c == FirstBlock(s)
             w == Encode(RestOf(s)) \o z
  <1>1. RestOf(s) \in Strings /\ Encode(RestOf(s)) \in Strings
    BY RestIs, EncodeType
  <1>2. c \in Strings /\ Len(c) = ESCAPE_LENGTH /\ w \in Strings
    BY <1>1, FirstBlockIs, ConcatIs
  <1>3. Encode(s) \o z = c \o w
    <2> DEFINE e == Encode(RestOf(s))
    <2>1. Encode(s) = c \o e /\ e \in Strings
      BY <1>1, EncodeFull
    <2> HIDE DEF c, e
    <2>2. (c \o e) \o z = c \o (e \o z)
      <3>1. c \in Strings /\ e \in Strings /\ z \in Strings
        BY <1>2, <2>1
      <3> QED BY <3>1, ConcatThree, Zenon
    <2> QED BY <2>1, <2>2 DEF e
  <1>4. /\ BlockLen \in 0 .. Len(c) /\ ~(Len(s) <= BlockLen)
        /\ ESCAPE_LENGTH \in 1 .. Len(c) /\ ~(ESCAPE_LENGTH <= BlockLen)
    BY <1>2, BlockLenIs, StringIsNumbers
  <1>5. SubSeq(c, 1, BlockLen) = SubSeq(s, 1, BlockLen)
    BY FullBlockIs
  <1>6. c[ESCAPE_LENGTH] = ESCAPE_LENGTH
    BY <1>2, <1>4 DEF FirstBlock
  <1> HIDE DEF c, w
  <1>7. (c \o w)[ESCAPE_LENGTH] = c[ESCAPE_LENGTH]
    BY <1>2, <1>4, ConcatIs
  <1>8. /\ SubSeq(c \o w, 1, BlockLen) = SubSeq(c, 1, BlockLen)
        /\ SubSeq(c \o w, ESCAPE_LENGTH + 1, Len(c \o w)) = w
    BY <1>2, <1>4, PartsOfConcat
  <1> QED BY <1>3, <1>5, <1>6, <1>7, <1>8 DEF w

\* A tuple is its first element and the others.
LEMMA ConsIs ==
  ASSUME NEW a \in Strings, NEW u \in Tuples
  PROVE  /\ <<a>> \o u \in Tuples
         /\ EncodeTuple(<<a>> \o u) = Encode(a) \o EncodeTuple(u)
  <1> DEFINE c == <<a>> \o u
             v == Tail(c)
  <1>1. u \in Seq(Strings) /\ Len(u) \in Nat
    BY TuplesAre
  <1>2. <<a>> \in Seq(Strings) /\ Len(<<a>>) = 1 /\ <<a>>[1] = a
    OBVIOUS
  <1>3. /\ c \in Seq(Strings) /\ Len(c) = 1 + Len(u)
        /\ \A k \in 1 .. 1 + Len(u) : c[k] = IF k <= 1 THEN <<a>>[k] ELSE u[k - 1]
    BY <1>1, <1>2, ConcatProperties
  <1> HIDE DEF c
  <1>4. c \in Tuples /\ c # <<>> /\ c[1] = a
    BY <1>1, <1>2, <1>3, TuplesAre
  <1>5. v = u
    <2>1. /\ v \in Seq(Strings) /\ Len(v) = Len(u)
          /\ \A k \in 1 .. Len(u) : v[k] = c[k + 1]
      BY <1>1, <1>3, <1>4, TailIs, TuplesAre
    <2>2. ASSUME NEW k \in 1 .. Len(u) PROVE v[k] = u[k]
      <3>1. k + 1 \in 1 .. 1 + Len(u) /\ ~(k + 1 <= 1) /\ k + 1 - 1 = k
        BY <1>1
      <3> HIDE DEF v
      <3> QED BY <1>3, <2>1, <3>1
    <2> QED BY <1>1, <2>1, <2>2, SeqEqual
  <1> QED BY <1>4, <1>5, EncodeTupleHead DEF c

LEMMA HeadAndTail ==
  ASSUME NEW t \in Tuples, t # <<>>
  PROVE  t = <<t[1]>> \o Tail(t)
  <1> DEFINE a == t[1]
             u == Tail(t)
             c == <<a>> \o u
  <1>1. /\ t \in Seq(Strings) /\ Len(t) \in Nat /\ Len(t) > 0 /\ u \in Seq(Strings)
        /\ Len(u) = Len(t) - 1 /\ a \in Strings
        /\ \A k \in 1 .. Len(t) - 1 : u[k] = t[k + 1]
    BY TuplesAre, TailIs
  <1>2. t[1] = a
    OBVIOUS
  <1> HIDE DEF u, a
  <1>3. <<a>> \in Seq(Strings) /\ Len(<<a>>) = 1 /\ <<a>>[1] = a
    BY <1>1
  <1>4. /\ c \in Seq(Strings) /\ Len(c) = 1 + Len(u)
        /\ \A k \in 1 .. 1 + Len(u) : c[k] = IF k <= 1 THEN <<a>>[k] ELSE u[k - 1]
    BY <1>1, <1>3, ConcatProperties
  <1> HIDE DEF c
  <1>5. ASSUME NEW k \in 1 .. Len(t) PROVE t[k] = c[k]
    <2>1. CASE k = 1
      BY <1>1, <1>2, <1>3, <1>4, <2>1
    <2>2. CASE k # 1
      <3> DEFINE j == k - 1
      <3>1. j \in 1 .. Len(t) - 1 /\ k = j + 1 /\ k \in 1 .. 1 + Len(u) /\ ~(k <= 1)
        BY <1>1, <2>2
      <3>2. c[k] = u[j]
        BY <1>4, <3>1
      <3> HIDE DEF j
      <3> QED BY <1>1, <3>1, <3>2
    <2> QED BY <2>1, <2>2
  <1>6. t = c
    BY <1>1, <1>4, <1>5, SeqEqual
  <1> QED BY <1>6 DEF c, a, u

-----------------------------------------------------------------------------
(* The binary search, whatever the number of elements.                     *)

\* Halving what is left of a search that is not over gives an index in it.
LEMMA MidBetween ==
    ASSUME SearchInv, left < right
    PROVE  Mid \in left .. (right - 1) /\ Mid \in Indices
<1>1. size \in Nat \ {0} /\ left \in 0 .. n /\ right \in 0 .. n /\ size = right - left
      /\ n \in Nat
    BY BSearchAssumption DEF SearchInv
<1>2. size \div 2 \in 0 .. (size - 1)
    BY <1>1
<1> QED
    BY <1>1, <1>2, BSearchAssumption DEF Mid, Indices

LEMMA InitSearchInv == Init => SearchInv
BY BSearchAssumption DEF Init, SearchInv, ResultIsRight, Indices

\* Each turn of the loop leaves out elements on the known side only.
LEMMA StepSearchInv == SearchInv /\ [Next]_vars => SearchInv'
<1> SUFFICES ASSUME SearchInv, [Next]_vars PROVE SearchInv'
    OBVIOUS
<1> USE BSearchAssumption
<1>1. CASE GoRight
    <2>1. Mid \in left .. (right - 1) /\ Mid \in Indices
        BY <1>1, MidBetween DEF GoRight
    <2>2. left' \in 0 .. n /\ left' <= right /\ size' = right - left'
        BY <1>1, <2>1 DEF GoRight, SearchInv
    <2>3. \A i \in Indices : i < left' => f[i] = "Less"
        <3> SUFFICES ASSUME NEW i \in Indices, i < left' PROVE f[i] = "Less"
            OBVIOUS
        <3>1. CASE i = Mid
            BY <1>1, <3>1 DEF GoRight
        <3>2. CASE i < Mid
            BY <1>1, <2>1, <3>2 DEF GoRight, SearchInv, Comparisons, Indices
        <3> QED
            BY <1>1, <2>1, <3>1, <3>2 DEF GoRight, Indices, SearchInv
    <2> QED
        BY <1>1, <2>2, <2>3 DEF GoRight, SearchInv, ResultIsRight, Indices, Running
<1>2. CASE GoLeft
    <2>1. Mid \in left .. (right - 1) /\ Mid \in Indices
        BY <1>2, MidBetween DEF GoLeft
    <2>2. right' \in 0 .. n /\ left <= right' /\ size' = right' - left
        BY <1>2, <2>1 DEF GoLeft, SearchInv
    <2>3. \A i \in Indices : i >= right' => f[i] = "Greater"
        <3> SUFFICES ASSUME NEW i \in Indices, i >= right' PROVE f[i] = "Greater"
            OBVIOUS
        <3>1. CASE i = Mid
            BY <1>2, <3>1 DEF GoLeft
        <3>2. CASE i > Mid
            BY <1>2, <2>1, <3>2 DEF GoLeft, SearchInv, Comparisons, Indices
        <3> QED
            BY <1>2, <2>1, <3>1, <3>2 DEF GoLeft, Indices, SearchInv
    <2> QED
        BY <1>2, <2>2, <2>3 DEF GoLeft, SearchInv, ResultIsRight, Indices, Running
<1>3. CASE Found
    <2>1. Mid \in Indices
        BY <1>3, MidBetween DEF Found
    <2> QED
        BY <1>3, <2>1 DEF Found, SearchInv, ResultIsRight, Indices, Running
<1>4. CASE NotFound
    <2>1. left = right
        BY <1>4 DEF NotFound, SearchInv
    <2>2. \A i \in Indices : f[i] = IF i < left THEN "Less" ELSE "Greater"
        BY <2>1 DEF SearchInv, Indices
    <2> QED
        BY <1>4, <2>2 DEF NotFound, SearchInv, ResultIsRight, Indices, Running
<1>5. CASE UNCHANGED vars
    BY <1>5 DEF vars, SearchInv, ResultIsRight, Indices
<1> QED
    BY <1>1, <1>2, <1>3, <1>4, <1>5 DEF Next

\* What the loop of binary_search_by keeps from turn to turn.
THEOREM SearchInvariant == Spec => []SearchInv
BY InitSearchInv, StepSearchInv, PTL DEF Spec

\* Ok is the equal element and Err the place of the target, for every size.
THEOREM SearchCorrect == Spec => []ResultIsRight
<1>1. SearchInv => ResultIsRight
    BY DEF SearchInv
<1> QED
    BY <1>1, SearchInvariant, PTL

\* The closure is called with the index of an element only, for every size.
THEOREM IndexInBounds == Spec => []MidIsIndex
<1>1. SearchInv => MidIsIndex
    BY MidBetween DEF MidIsIndex
<1> QED
    BY <1>1, SearchInvariant, PTL

-----------------------------------------------------------------------------
(* The invariant of a lookup.                                              *)

\* How a key compares with the goal of the search.
ComparedWith(key, goal) ==
    IF NumbersLess(key, goal) THEN "Less" ELSE IF key = goal THEN "Equal" ELSE "Greater"

Goal == EncodeTuple(target)

LeafInv ==
    /\ stored \in Stores /\ target \in Targets
    /\ keys = Ascending({EncodeTuple(t) : t \in stored}, NumbersLess)

\* What is written and what is left to write make the goal.
EncodeInv ==
    /\ elems \in Tuples /\ dst \in Strings
    /\ dst \o EncodeTuple(elems) = Goal
    /\ result = <<"none", 0>>

Searches ==
    /\ n = Len(keys)
    /\ f = [i \in 0 .. Len(keys) - 1 |-> ComparedWith(keys[i + 1], Goal)]

\* t is the tuple at the slot where the search ended.
AtSlot(t) ==
    /\ t \in stored
    /\ result[2] \in 0 .. n - 1
    /\ keys[result[2] + 1] = EncodeTuple(t)

\* Decoding what is left completes t.
Completes(t) ==
    \/ src = <<>> /\ elems = t
    \/ \E s \in Strings, rest \in Tuples :
         /\ t = (elems \o <<dst \o s>>) \o rest
         /\ src = Encode(s) \o EncodeTuple(rest)

LookupInv ==
    /\ LeafInv
    /\ SearchInv
    /\ result[1] \in {"none", "Ok", "Err"}
    /\ pc \in {"encode", "search", "decode", "done"}
    /\ pc = "encode" => EncodeInv
    /\ pc # "encode" => Searches
    /\ pc = "search" => elems = <<>> /\ dst = Goal
    /\ pc = "decode" => /\ ~Running /\ elems \in Tuples /\ dst \in Strings
                        /\ \E t \in Tuples : AtSlot(t) /\ Completes(t)
    /\ pc = "done" => /\ ~Running
                      /\ result[2] >= n \/ \E t \in Tuples : AtSlot(t) /\ elems = t

LEMMA LeafIs ==
  ASSUME LeafInv
  PROVE  /\ Len(keys) \in Nat /\ target \in Tuples /\ Goal \in Strings /\ Goal \in Numbers
         /\ \A t \in stored : t \in Tuples
         /\ \A i \in 1 .. Len(keys) :
              keys[i] \in Numbers /\ \E t \in stored : keys[i] = EncodeTuple(t)
         /\ \A t \in stored : \E i \in 1 .. Len(keys) : keys[i] = EncodeTuple(t)
         /\ \A i, j \in 1 .. Len(keys) : i < j => NumbersLess(keys[i], keys[j])
  <1> DEFINE K == {EncodeTuple(t) : t \in stored}
             g == [t \in stored |-> EncodeTuple(t)]
  <1>1. IsFiniteSet(stored) /\ (\A t \in stored : t \in Tuples) /\ target \in Tuples
    BY KeyLookupAssumption DEF LeafInv
  <1>2. Goal \in Strings /\ Goal \in Numbers
    BY <1>1, EncodeTupleType, StringIsNumbers DEF Goal
  <1>3. \A t \in stored : EncodeTuple(t) \in Numbers
    BY <1>1, EncodeTupleType, StringIsNumbers
  <1>4. IsFiniteSet(K)
    <2>1. g \in Surjection(stored, K)
      BY DEF Surjection
    <2> QED BY <1>1, <2>1, FS_Surjection
  <1>5. K \in SUBSET Numbers /\ keys = Ascending(K, NumbersLess)
    BY <1>3 DEF LeafInv
  <1>6. \A x \in K : \E t \in stored : x = EncodeTuple(t)
    OBVIOUS
  <1>7. \A t \in stored : EncodeTuple(t) \in K
    OBVIOUS
  <1> HIDE DEF K
  <1>8. /\ keys \in Seq(K) /\ Len(keys) \in Nat
        /\ \A x \in K : \E i \in 1 .. Len(keys) : keys[i] = x
        /\ \A i, j \in 1 .. Len(keys) : i < j => NumbersLess(keys[i], keys[j])
    BY <1>4, <1>5, AscendingIs
  <1>9. \A i \in 1 .. Len(keys) : keys[i] \in K
    BY <1>8, ElementOfSeq
  <1>10. \A i \in 1 .. Len(keys) :
           keys[i] \in Numbers /\ \E t \in stored : keys[i] = EncodeTuple(t)
    BY <1>5, <1>6, <1>9
  <1>11. \A t \in stored : \E i \in 1 .. Len(keys) : keys[i] = EncodeTuple(t)
    BY <1>7, <1>8
  <1> QED BY <1>1, <1>2, <1>8, <1>10, <1>11

\* The keys ascend, and so their comparisons with the goal do.
LEMMA KeysCompare ==
  ASSUME LeafInv
  PROVE  [i \in 0 .. Len(keys) - 1 |-> ComparedWith(keys[i + 1], Goal)] \in Comparisons(Len(keys))
  <1> DEFINE c == [i \in 0 .. Len(keys) - 1 |-> ComparedWith(keys[i + 1], Goal)]
  <1>1. c \in [0 .. Len(keys) - 1 -> {"Less", "Equal", "Greater"}]
    BY DEF ComparedWith
  <1>2. ASSUME NEW i \in 0 .. Len(keys) - 1, NEW j \in 0 .. Len(keys) - 1, i < j
        PROVE  c[i] = "Less" \/ c[j] = "Greater"
    <2> DEFINE a == keys[i + 1]
               b == keys[j + 1]
    <2>1. /\ i + 1 \in 1 .. Len(keys) /\ j + 1 \in 1 .. Len(keys) /\ i + 1 < j + 1
      BY <1>2, LeafIs
    <2>2. a \in Numbers /\ b \in Numbers /\ Goal \in Numbers /\ NumbersLess(a, b)
      BY <2>1, LeafIs
    <2>3. c[i] = ComparedWith(a, Goal) /\ c[j] = ComparedWith(b, Goal)
      OBVIOUS
    <2> HIDE DEF a, b, c
    <2>4. CASE NumbersLess(a, Goal)
      BY <2>3, <2>4 DEF ComparedWith
    <2>5. CASE ~NumbersLess(a, Goal)
      <3>1. NumbersLess(Goal, b)
        BY <2>2, <2>5, NumbersTotal, NumbersTransitive
      <3>2. ~NumbersLess(b, Goal) /\ b # Goal
        BY <2>2, <3>1, NumbersTransitive, NumbersIrreflexive
      <3> QED BY <2>3, <3>2 DEF ComparedWith
    <2> QED BY <2>4, <2>5
  <1> HIDE DEF c
  <1>3. c \in Comparisons(Len(keys))
    BY <1>1, <1>2 DEF Comparisons
  <1> QED BY <1>3 DEF c

LEMMA InitLookupInv == LookupInit => LookupInv
  <1> SUFFICES ASSUME LookupInit PROVE LookupInv
    OBVIOUS
  <1>1. LeafInv
    BY DEF LookupInit, LeafInv, Ascending, BytesLess
  <1>2. SearchInv
    <2>1. f \in Comparisons(0)
      <3>1. f = <<>> /\ 0 .. 0 - 1 = {}
        BY DEF LookupInit
      <3>2. f \in [0 .. 0 - 1 -> {"Less", "Equal", "Greater"}]
        BY <3>1
      <3> QED BY <3>1, <3>2 DEF Comparisons
    <2>2. n = 0 /\ left = 0 /\ right = 0 /\ size = 0 /\ result = <<"none", 0>>
      BY DEF LookupInit
    <2> QED BY <2>1, <2>2 DEF SearchInv, ResultIsRight, Indices
  <1>3. EncodeInv
    <2>1. target \in Tuples /\ elems = target /\ dst = <<>> /\ result = <<"none", 0>>
      BY KeyLookupAssumption DEF LookupInit
    <2>2. <<>> \in Strings /\ EncodeTuple(target) \in Strings
      BY <2>1, EncodeTupleType DEF Strings
    <2>3. <<>> \o EncodeTuple(target) = EncodeTuple(target)
      BY <2>2, ConcatEmptySeq DEF Strings
    <2> QED BY <2>1, <2>2, <2>3 DEF EncodeInv, Goal
  <1> QED BY <1>1, <1>2, <1>3 DEF LookupInv, LookupInit

\* A step of encode or decode leaves the leaf and the search alone.
LEMMA CodecKeeps ==
  ASSUME LookupInv, UNCHANGED <<leaf, search>>
  PROVE  /\ LeafInv' /\ SearchInv' /\ result'[1] \in {"none", "Ok", "Err"}
         /\ result' = result /\ n' = n /\ (Running' <=> Running) /\ Goal' = Goal
         /\ Searches => Searches'
         /\ \A t : AtSlot(t) => AtSlot(t)'
  <1>1. UNCHANGED <<stored, keys, target>> /\ UNCHANGED vars
    BY DEF leaf, search, vars
  <1>2. SearchInv'
    BY <1>1, StepSearchInv DEF LookupInv
  <1> QED BY <1>1, <1>2 DEF LookupInv, LeafInv, Running, Goal, Searches, AtSlot, vars

LEMMA StepEncodeFull == LookupInv /\ EncodeFullBlock => LookupInv'
  <1> SUFFICES ASSUME LookupInv, EncodeFullBlock PROVE LookupInv'
    OBVIOUS
  <1> DEFINE s == elems[1]
             u == Tail(elems)
             a == SubSeq(s, 1, BlockLen)
             r == RestOf(s)
  <1>1. pc = "encode" /\ EncodeInv /\ pc' = "encode" /\ UNCHANGED <<leaf, search>> /\ elems # <<>>
    BY DEF LookupInv, EncodeFullBlock
  <1>2. elems \in Tuples /\ dst \in Strings /\ dst \o EncodeTuple(elems) = Goal
        /\ result = <<"none", 0>>
    BY <1>1 DEF EncodeInv
  <1>3. s \in Strings /\ u \in Tuples /\ Head(elems) = s
        /\ EncodeTuple(elems) = Encode(s) \o EncodeTuple(u)
    BY <1>1, <1>2, TailIs, EncodeTupleHead
  <1>4. /\ Len(s) > BlockLen
        /\ dst' = dst \o a \o <<ESCAPE_LENGTH>>
        /\ elems' = <<r>> \o u
    BY <1>3 DEF EncodeFullBlock, Elem, RestOf
  <1>5. a \in Strings /\ <<ESCAPE_LENGTH>> \in Strings /\ a \o <<ESCAPE_LENGTH>> = FirstBlock(s)
    BY <1>3, <1>4, FullBlockIs
  <1>6. r \in Strings /\ Encode(r) \in Strings /\ Encode(s) = FirstBlock(s) \o Encode(r)
        /\ FirstBlock(s) \in Strings /\ EncodeTuple(u) \in Strings
    <2>1. s \in Strings /\ u \in Tuples /\ Len(s) > BlockLen
      BY <1>3, <1>4
    <2> HIDE DEF s, u
    <2>2. r \in Strings /\ Encode(r) \in Strings
      BY <2>1, RestIs, EncodeType
    <2> QED BY <2>1, <2>2, EncodeFull, FirstBlockIs, EncodeTupleType
  <1> HIDE DEF s, u, a, r
  <1>7. elems' \in Tuples /\ EncodeTuple(elems') = Encode(r) \o EncodeTuple(u)
    BY <1>3, <1>4, <1>6, ConsIs
  <1>8. dst' = dst \o FirstBlock(s) /\ dst' \in Strings
    <2> DEFINE last == <<ESCAPE_LENGTH>>
    <2>1. last \in Strings /\ a \o last = FirstBlock(s) /\ dst' = dst \o a \o last
      BY <1>4, <1>5
    <2> HIDE DEF last
    <2>2. (dst \o a) \o last = dst \o (a \o last)
      BY <1>2, <1>5, <2>1, ConcatThree, Zenon
    <2>3. dst \o FirstBlock(s) \in Strings
      BY <1>2, <1>6, ConcatIs
    <2> QED BY <2>1, <2>2, <2>3
  <1>9. dst' \o EncodeTuple(elems') = Goal
    <2> DEFINE d == dst
               b == FirstBlock(s)
               c == Encode(r)
               e == EncodeTuple(u)
    <2>1. d \in Strings /\ b \in Strings /\ c \in Strings /\ e \in Strings
      BY <1>2, <1>6
    <2>2. dst' = d \o b /\ EncodeTuple(elems') = c \o e /\ Goal = d \o ((b \o c) \o e)
      BY <1>2, <1>3, <1>6, <1>7, <1>8
    <2> HIDE DEF d, b, c, e
    <2>3. c \o e \in Strings
      BY <2>1, ConcatIs
    <2>4. (b \o c) \o e = b \o (c \o e)
      BY <2>1, ConcatThree, Zenon
    <2>5. (d \o b) \o (c \o e) = d \o (b \o (c \o e))
      <3> DEFINE g == c \o e
      <3>1. d \in Strings /\ b \in Strings /\ g \in Strings
        BY <2>1, <2>3
      <3> HIDE DEF g
      <3>2. (d \o b) \o g = d \o (b \o g)
        BY <3>1, ConcatThree, Zenon
      <3> QED BY <3>2 DEF g
    <2> QED BY <2>2, <2>4, <2>5
  <1>10. EncodeInv'
    BY <1>1, <1>2, <1>7, <1>8, <1>9, CodecKeeps DEF EncodeInv
  <1> QED BY <1>1, <1>10, CodecKeeps DEF LookupInv

LEMMA StepEncodeLast == LookupInv /\ EncodeLastBlock => LookupInv'
  <1> SUFFICES ASSUME LookupInv, EncodeLastBlock PROVE LookupInv'
    OBVIOUS
  <1> DEFINE s == elems[1]
             u == Tail(elems)
             a == [k \in 1 .. BlockLen |-> IF k <= Len(s) THEN s[k] ELSE 0]
  <1>1. pc = "encode" /\ EncodeInv /\ pc' = "encode" /\ UNCHANGED <<leaf, search>> /\ elems # <<>>
    BY DEF LookupInv, EncodeLastBlock
  <1>2. elems \in Tuples /\ dst \in Strings /\ dst \o EncodeTuple(elems) = Goal
        /\ result = <<"none", 0>>
    BY <1>1 DEF EncodeInv
  <1>3. s \in Strings /\ u \in Tuples /\ Head(elems) = s
        /\ EncodeTuple(elems) = Encode(s) \o EncodeTuple(u)
    BY <1>1, <1>2, TailIs, EncodeTupleHead
  <1>4. /\ Len(s) <= BlockLen
        /\ dst' = dst \o a \o <<Len(s)>>
        /\ elems' = u
    BY <1>3 DEF EncodeLastBlock, Elem
  <1>5. a \in Strings /\ <<Len(s)>> \in Strings /\ a \o <<Len(s)>> = FirstBlock(s)
    BY <1>3, <1>4, LastBlockIs
  <1> HIDE DEF s, u, a
  <1>6. Encode(s) = FirstBlock(s) /\ FirstBlock(s) \in Strings /\ EncodeTuple(u) \in Strings
    BY <1>3, <1>4, EncodeLast, FirstBlockIs, EncodeTupleType
  <1>7. dst' = dst \o FirstBlock(s) /\ dst' \in Strings
    <2> DEFINE last == <<Len(s)>>
    <2>1. last \in Strings /\ a \o last = FirstBlock(s) /\ dst' = dst \o a \o last
      BY <1>4, <1>5
    <2> HIDE DEF last
    <2>2. (dst \o a) \o last = dst \o (a \o last)
      BY <1>2, <1>5, <2>1, ConcatThree, Zenon
    <2>3. dst \o FirstBlock(s) \in Strings
      BY <1>2, <1>6, ConcatIs
    <2> QED BY <2>1, <2>2, <2>3
  <1>8. dst' \o EncodeTuple(elems') = Goal
    <2> DEFINE b == FirstBlock(s)
               e == EncodeTuple(u)
    <2>1. b \in Strings /\ e \in Strings
      BY <1>6
    <2>2. dst' = dst \o b /\ EncodeTuple(elems') = e /\ Goal = dst \o (b \o e)
      BY <1>2, <1>3, <1>4, <1>6, <1>7
    <2> HIDE DEF b, e
    <2>3. (dst \o b) \o e = dst \o (b \o e)
      BY <1>2, <2>1, ConcatThree, Zenon
    <2> QED BY <2>2, <2>3
  <1>9. EncodeInv'
    BY <1>1, <1>2, <1>3, <1>4, <1>7, <1>8, CodecKeeps DEF EncodeInv
  <1> QED BY <1>1, <1>9, CodecKeeps DEF LookupInv

\* The search starts with the whole goal and the comparisons of the keys.
LEMMA StepBeginSearch == LookupInv /\ BeginSearch => LookupInv'
  <1> SUFFICES ASSUME LookupInv, BeginSearch PROVE LookupInv'
    OBVIOUS
  <1>1. /\ pc = "encode" /\ elems = <<>> /\ pc' = "search" /\ elems' = <<>> /\ dst' = dst
        /\ stored' = stored /\ keys' = keys /\ target' = target /\ result' = result
        /\ n' = Len(keys) /\ left' = 0 /\ right' = Len(keys) /\ size' = Len(keys)
        /\ f' = [i \in 0 .. Len(keys) - 1 |-> Compare(keys[i + 1])]
    BY DEF BeginSearch, leaf, codec
  <1>2. dst \in Strings /\ dst \o EncodeTuple(<<>>) = Goal /\ result = <<"none", 0>>
    BY <1>1 DEF LookupInv, EncodeInv
  <1>3. dst = Goal
    BY <1>2, EncodeTupleEmpty, ConcatEmptySeq DEF Strings
  <1>4. LeafInv /\ LeafInv' /\ Goal' = Goal
    BY <1>1 DEF LookupInv, LeafInv, Goal
  <1>5. f' = [i \in 0 .. Len(keys) - 1 |-> ComparedWith(keys[i + 1], Goal)]
    BY <1>1, <1>3 DEF Compare, ComparedWith, BytesLess
  <1>6. Searches'
    BY <1>1, <1>4, <1>5 DEF Searches
  <1>7. f' \in Comparisons(n') /\ Len(keys) \in Nat
    BY <1>1, <1>4, <1>5, KeysCompare, LeafIs
  <1>8. SearchInv'
    BY <1>1, <1>2, <1>7 DEF SearchInv, ResultIsRight, Indices
  <1> QED BY <1>1, <1>2, <1>3, <1>4, <1>6, <1>8 DEF LookupInv

LEMMA StepSearch == LookupInv /\ Search => LookupInv'
  <1> SUFFICES ASSUME LookupInv, Search PROVE LookupInv'
    OBVIOUS
  <1>1. /\ pc = "search" /\ pc' = pc /\ Next /\ elems' = elems /\ dst' = dst
        /\ stored' = stored /\ keys' = keys /\ target' = target
    BY DEF Search, leaf, codec
  <1>2. SearchInv' /\ n' = n /\ f' = f
    BY <1>1, StepSearchInv DEF LookupInv, Next, GoRight, GoLeft, Found, NotFound
  <1>3. result'[1] \in {"none", "Ok", "Err"}
    BY <1>1 DEF LookupInv, Next, GoRight, GoLeft, Found, NotFound
  <1>4. LeafInv' /\ Goal' = Goal /\ Searches'
    BY <1>1, <1>2 DEF LookupInv, LeafInv, Goal, Searches
  <1> QED BY <1>1, <1>2, <1>3, <1>4 DEF LookupInv

\* Where a search that is over points: at a key, or behind the last.
LEMMA SlotIs ==
  ASSUME SearchInv, ~Running, result[1] \in {"none", "Ok", "Err"}
  PROVE  result[2] \in 0 .. n /\ n \in Nat
  BY DEF SearchInv, Running, ResultIsRight, Indices

LEMMA StepTakePair == LookupInv /\ TakePair => LookupInv'
  <1> SUFFICES ASSUME LookupInv, TakePair PROVE LookupInv'
    OBVIOUS
  <1>1. /\ pc = "search" /\ ~Running /\ result[2] < n /\ pc' = "decode"
        /\ src' = keys[result[2] + 1] /\ dst' = <<>> /\ elems' = elems /\ elems = <<>>
        /\ UNCHANGED <<leaf, search>> /\ Searches /\ LeafInv /\ n = Len(keys)
    BY DEF TakePair, LookupInv, Searches
  <1>2. result[2] \in 0 .. n - 1 /\ result[2] + 1 \in 1 .. Len(keys)
    BY <1>1, SlotIs DEF LookupInv
  <1>3. PICK t \in stored : keys[result[2] + 1] = EncodeTuple(t)
    BY <1>1, <1>2, LeafIs
  <1>4. t \in Tuples /\ AtSlot(t) /\ <<>> \in Tuples /\ <<>> \in Strings
    BY <1>1, <1>2, <1>3, LeafIs DEF AtSlot, Tuples, Strings
  <1>5. Completes(t)'
    <2>1. CASE t = <<>>
      BY <1>1, <1>3, <2>1, EncodeTupleEmpty DEF Completes
    <2>2. CASE t # <<>>
      <3> DEFINE a == t[1]
                 u == Tail(t)
      <3>1. a \in Strings /\ u \in Tuples /\ EncodeTuple(t) = Encode(a) \o EncodeTuple(u)
            /\ t = <<a>> \o u
        BY <1>4, <2>2, TailIs, EncodeTupleHead, HeadAndTail
      <3> HIDE DEF a, u
      <3>2. <<>> \o a = a
        BY <3>1, ConcatEmptySeq DEF Strings
      <3>3. <<>> \o <<a>> = <<a>>
        OBVIOUS
      <3>4. t = (elems' \o <<dst' \o a>>) \o u
        BY <1>1, <3>1, <3>2, <3>3
      <3> QED BY <1>1, <1>3, <3>1, <3>4 DEF Completes
    <2> QED BY <2>1, <2>2
  <1> QED BY <1>1, <1>4, <1>5, CodecKeeps DEF LookupInv

LEMMA StepNoPair == LookupInv /\ NoPair => LookupInv'
  <1> SUFFICES ASSUME LookupInv, NoPair PROVE LookupInv'
    OBVIOUS
  <1>1. /\ pc = "search" /\ ~Running /\ result[2] >= n /\ pc' = "done"
        /\ UNCHANGED <<leaf, search>> /\ Searches
    BY DEF NoPair, LookupInv
  <1> QED BY <1>1, CodecKeeps DEF LookupInv

\* The block at which decode stands.
LEMMA BlockAt ==
  ASSUME NEW t \in Tuples, Completes(t), Len(src) >= ESCAPE_LENGTH
  PROVE  \E s \in Strings, rest \in Tuples :
            /\ t = (elems \o <<dst \o s>>) \o rest
            /\ src = Encode(s) \o EncodeTuple(rest)
  <1>1. src # <<>>
    BY BlockLenIs
  <1> QED BY <1>1 DEF Completes

LEMMA StepDecodeFull == LookupInv /\ DecodeFullBlock => LookupInv'
  <1> SUFFICES ASSUME LookupInv, DecodeFullBlock PROVE LookupInv'
    OBVIOUS
  <1>1. /\ pc = "decode" /\ pc' = pc /\ Len(src) >= ESCAPE_LENGTH
        /\ src' = SubSeq(src, ESCAPE_LENGTH + 1, Len(src))
        /\ dst' = dst \o SubSeq(src, 1, BlockLen) /\ elems' = elems
        /\ src[ESCAPE_LENGTH] >= ESCAPE_LENGTH
        /\ UNCHANGED <<leaf, search>>
    BY DEF DecodeFullBlock, NextBlock, Extra
  <1>2. PICK t \in Tuples : AtSlot(t) /\ Completes(t)
    BY <1>1 DEF LookupInv
  <1>3. ~Running /\ elems \in Tuples /\ dst \in Strings /\ Searches
    BY <1>1 DEF LookupInv
  <1>4. PICK s \in Strings, rest \in Tuples : /\ t = (elems \o <<dst \o s>>) \o rest
                                              /\ src = Encode(s) \o EncodeTuple(rest)
    BY <1>1, <1>2, BlockAt
  <1> DEFINE z == EncodeTuple(rest)
             a == SubSeq(s, 1, BlockLen)
             r == RestOf(s)
  <1>5. z \in Strings
    BY EncodeTupleType
  <1>6. Len(s) > BlockLen
    <2>1. ASSUME Len(s) <= BlockLen PROVE FALSE
      <3>1. src[ESCAPE_LENGTH] = Len(s) /\ Len(s) < ESCAPE_LENGTH
        BY <1>4, <1>5, <2>1, TakenLast
      <3> QED BY <1>1, <3>1, StringIsNumbers, BlockLenIs
    <2> QED BY <2>1, StringIsNumbers, BlockLenIs
  <1>7. dst' = dst \o a /\ src' = Encode(r) \o z
    BY <1>1, <1>4, <1>5, <1>6, TakenFull
  <1>8. a \in Strings /\ r \in Strings /\ a \o r = s
    BY <1>6, FullBlockIs, RestIs
  <1> HIDE DEF z, a, r
  <1>9. dst' \in Strings /\ dst' \o r = dst \o s
    <2>1. dst \o a \in Strings
      BY <1>3, <1>8, ConcatIs
    <2>2. (dst \o a) \o r = dst \o (a \o r)
      <3>1. dst \in Strings /\ a \in Strings /\ r \in Strings
        BY <1>3, <1>8
      <3> QED BY <3>1, ConcatThree, Zenon
    <2> QED BY <1>7, <1>8, <2>1, <2>2
  <1>10. t = (elems' \o <<dst' \o r>>) \o rest /\ src' = Encode(r) \o EncodeTuple(rest)
    BY <1>1, <1>4, <1>7, <1>9 DEF z
  <1>11. Completes(t)'
    BY <1>8, <1>10 DEF Completes
  <1> QED BY <1>1, <1>2, <1>3, <1>9, <1>11, CodecKeeps DEF LookupInv

LEMMA StepDecodeLast == LookupInv /\ DecodeLastBlock => LookupInv'
  <1> SUFFICES ASSUME LookupInv, DecodeLastBlock PROVE LookupInv'
    OBVIOUS
  <1>1. /\ pc = "decode" /\ pc' = pc /\ Len(src) >= ESCAPE_LENGTH
        /\ src' = SubSeq(src, ESCAPE_LENGTH + 1, Len(src))
        /\ elems' = Append(elems, dst \o SubSeq(src, 1, src[ESCAPE_LENGTH])) /\ dst' = <<>>
        /\ src[ESCAPE_LENGTH] < ESCAPE_LENGTH
        /\ UNCHANGED <<leaf, search>>
    BY DEF DecodeLastBlock, NextBlock, Extra
  <1>2. PICK t \in Tuples : AtSlot(t) /\ Completes(t)
    BY <1>1 DEF LookupInv
  <1>3. ~Running /\ elems \in Tuples /\ dst \in Strings /\ Searches
    BY <1>1 DEF LookupInv
  <1>4. PICK s \in Strings, rest \in Tuples : /\ t = (elems \o <<dst \o s>>) \o rest
                                              /\ src = Encode(s) \o EncodeTuple(rest)
    BY <1>1, <1>2, BlockAt
  <1> DEFINE z == EncodeTuple(rest)
             x == dst \o s
  <1>5. z \in Strings
    BY EncodeTupleType
  <1>6. Len(s) <= BlockLen
    <2>1. ASSUME Len(s) > BlockLen PROVE FALSE
      <3>1. src[ESCAPE_LENGTH] = ESCAPE_LENGTH
        BY <1>4, <1>5, <2>1, TakenFull
      <3> QED BY <1>1, <3>1, BlockLenIs
    <2> QED BY <2>1, StringIsNumbers, BlockLenIs
  <1>7. src[ESCAPE_LENGTH] = Len(s) /\ SubSeq(src, 1, Len(s)) = s /\ src' = z
    BY <1>1, <1>4, <1>5, <1>6, TakenLast
  <1>8. x \in Strings
    BY <1>3, ConcatIs
  <1>9. elems' = Append(elems, x)
    BY <1>1, <1>7
  <1> HIDE DEF z, x
  <1>10. elems' = elems \o <<x>> /\ elems' \in Tuples
    <2>1. elems \in Seq(Strings) /\ Append(elems, x) \in Seq(Strings)
      BY <1>3, <1>8, TuplesAre, AppendProperties
    <2>2. Append(elems, x) = elems \o <<x>>
      BY <1>8, <2>1, AppendIsConcat
    <2> QED BY <1>9, <2>1, <2>2, TuplesAre
  <1>11. t = elems' \o rest
    BY <1>4, <1>10 DEF x
  <1>12. dst' \in Strings
    BY <1>1 DEF Strings
  <1>13. Completes(t)'
    <2>1. CASE rest = <<>>
      <3>1. elems' \o <<>> = elems'
        BY <1>10, TuplesAre, ConcatEmptySeq
      <3>2. src' = <<>>
        BY <1>7, <2>1, EncodeTupleEmpty DEF z
      <3> QED BY <1>11, <2>1, <3>1, <3>2 DEF Completes
    <2>2. CASE rest # <<>>
      <3> DEFINE b == rest[1]
                 u == Tail(rest)
      <3>1. b \in Strings /\ u \in Tuples /\ rest = <<b>> \o u /\ z = Encode(b) \o EncodeTuple(u)
        BY <2>2, TailIs, HeadAndTail, EncodeTupleHead DEF z
      <3> HIDE DEF b, u
      <3>2. <<>> \o b = b
        BY <3>1, ConcatEmptySeq DEF Strings
      <3>3. elems' \o (<<b>> \o u) = (elems' \o <<b>>) \o u
        <4>1. elems' \in Seq(Strings) /\ <<b>> \in Seq(Strings) /\ u \in Seq(Strings)
          BY <1>10, <3>1, TuplesAre
        <4> QED BY <4>1, ConcatAssociative
      <3>4. t = (elems' \o <<dst' \o b>>) \o u
        BY <1>1, <1>11, <3>1, <3>2, <3>3
      <3> QED BY <1>7, <3>1, <3>4 DEF Completes
    <2> QED BY <2>1, <2>2
  <1> QED BY <1>1, <1>2, <1>3, <1>10, <1>12, <1>13, CodecKeeps DEF LookupInv

LEMMA StepDecoded == LookupInv /\ Decoded => LookupInv'
  <1> SUFFICES ASSUME LookupInv, Decoded PROVE LookupInv'
    OBVIOUS
  <1>1. /\ pc = "decode" /\ pc' = "done" /\ src = <<>> /\ elems' = elems
        /\ UNCHANGED <<leaf, search>> /\ ~Running /\ Searches
    BY DEF Decoded, LookupInv, codec
  <1>2. PICK t \in Tuples : AtSlot(t) /\ Completes(t)
    BY <1>1 DEF LookupInv
  <1>3. elems = t
    <2>1. ASSUME NEW s \in Strings, NEW rest \in Tuples, src = Encode(s) \o EncodeTuple(rest)
          PROVE  FALSE
      <3>1. /\ Encode(s) \in Strings /\ EncodeTuple(rest) \in Strings
            /\ Len(Encode(s)) \in Nat /\ Len(Encode(s)) >= ESCAPE_LENGTH
        BY EncodeType, EncodeTupleType
      <3>2. Len(src) = Len(Encode(s)) + Len(EncodeTuple(rest)) /\ Len(EncodeTuple(rest)) \in Nat
        BY <2>1, <3>1, ConcatIs, StringIsNumbers
      <3>3. Len(src) = 0
        BY <1>1
      <3> QED BY <3>1, <3>2, <3>3, BlockLenIs
    <2> QED BY <1>2, <2>1 DEF Completes
  <1> QED BY <1>1, <1>2, <1>3, CodecKeeps DEF LookupInv

LEMMA StepLookupInv == LookupInv /\ [LookupNext]_<<leaf, pc, codec, search>> => LookupInv'
  <1>1. LookupInv /\ UNCHANGED <<leaf, pc, codec, search>> => LookupInv'
    <2> SUFFICES ASSUME LookupInv, UNCHANGED <<leaf, pc, codec, search>> PROVE LookupInv'
      OBVIOUS
    <2>1. /\ UNCHANGED <<leaf, search>> /\ pc' = pc
          /\ elems' = elems /\ src' = src /\ dst' = dst
      BY DEF codec
    <2>2. EncodeInv => EncodeInv'
      BY <2>1, CodecKeeps DEF EncodeInv
    <2>3. \A t : Completes(t) => Completes(t)'
      BY <2>1 DEF Completes
    <2> QED BY <2>1, <2>2, <2>3, CodecKeeps DEF LookupInv
  <1> QED
    BY <1>1, StepEncodeFull, StepEncodeLast, StepBeginSearch, StepSearch, StepTakePair,
       StepNoPair, StepDecodeFull, StepDecodeLast, StepDecoded DEF LookupNext

-----------------------------------------------------------------------------
(* The theorems.                                                           *)

\* What encode, the search and decode keep from step to step.
THEOREM LookupInvariant == LookupSpec => []LookupInv
  BY InitLookupInv, StepLookupInv, PTL DEF LookupSpec

\* The loop of encode writes the encoding of the tuple, whatever the lengths.
THEOREM EncodeCorrect == LookupSpec => []EncodesAsStated
  <1>1. LookupInv => EncodesAsStated
    BY DEF LookupInv, EncodesAsStated, Goal
  <1> QED BY <1>1, LookupInvariant, PTL

\* The search among the keys of a leaf ends at the right slot, and compares with
\* the keys of the leaf only.
THEOREM LookupSearches == LookupSpec => [](ResultIsRight /\ MidIsIndex)
  <1>1. LookupInv => ResultIsRight /\ MidIsIndex
    BY MidBetween DEF LookupInv, SearchInv, MidIsIndex
  <1> QED BY <1>1, LookupInvariant, PTL

\* What the search says of the keys before its slot, at it and after it.
LEMMA SlotOfKeys ==
  ASSUME LookupInv, ~Running, Searches
  PROVE  /\ result[2] \in 0 .. n /\ n \in Nat /\ n = Len(keys)
         /\ \A i \in 1 .. n : i <= result[2] => NumbersLess(keys[i], Goal)
         /\ result[2] < n => ~NumbersLess(keys[result[2] + 1], Goal)
  <1> DEFINE r == result[2]
  <1>1. r \in 0 .. n /\ n \in Nat /\ n = Len(keys)
    BY SlotIs DEF LookupInv, Searches
  <1>2. \A i \in 0 .. n - 1 : f[i] = ComparedWith(keys[i + 1], Goal)
    BY <1>1 DEF Searches
  <1>3. SearchInv /\ f \in Comparisons(n) /\ ResultIsRight
    BY DEF LookupInv, SearchInv
  <1>4. result[1] = "Ok" \/ result[1] = "Err"
    BY DEF LookupInv, Running
  <1>5. /\ \A i \in 0 .. n - 1 : i < r => f[i] = "Less"
        /\ r < n => f[r] # "Less"
    <2>1. CASE result[1] = "Ok"
      <3>1. r \in 0 .. n - 1 /\ f[r] = "Equal"
        BY <1>3, <2>1 DEF ResultIsRight, Indices
      <3>2. \A i \in 0 .. n - 1 : i < r => f[i] = "Less" \/ f[r] = "Greater"
        BY <1>3, <3>1 DEF Comparisons
      <3> QED BY <3>1, <3>2
    <2>2. CASE result[1] = "Err"
      <3>1. \A i \in 0 .. n - 1 : f[i] = IF i < r THEN "Less" ELSE "Greater"
        BY <1>3, <2>2 DEF ResultIsRight, Indices
      <3> QED BY <1>1, <3>1
    <2> QED BY <1>4, <2>1, <2>2
  <1> HIDE DEF r
  <1>6. ASSUME NEW i \in 1 .. n, i <= r PROVE NumbersLess(keys[i], Goal)
    <2> DEFINE j == i - 1
    <2>1. j \in 0 .. n - 1 /\ j < r /\ j + 1 = i
      BY <1>1, <1>6
    <2>2. ComparedWith(keys[j + 1], Goal) = "Less"
      BY <1>2, <1>5, <2>1
    <2> QED BY <2>1, <2>2 DEF ComparedWith
  <1>7. ASSUME r < n PROVE ~NumbersLess(keys[r + 1], Goal)
    <2>1. r \in 0 .. n - 1
      BY <1>1, <1>7
    <2>2. ComparedWith(keys[r + 1], Goal) # "Less"
      BY <1>2, <1>5, <1>7, <2>1
    <2> QED BY <2>2 DEF ComparedWith
  <1> QED BY <1>1, <1>6, <1>7 DEF r

LEMMA LookupFinds == LookupInv => FindsLeastNotBelow
  <1> SUFFICES ASSUME LookupInv, pc = "done" PROVE FindsLeastNotBelow
    BY DEF FindsLeastNotBelow
  <1> DEFINE r == result[2]
             above == {t \in stored : ~TupleLess(t, target)}
  <1>1. /\ ~Running /\ Searches /\ LeafInv
        /\ result[2] >= n \/ \E t \in Tuples : AtSlot(t) /\ elems = t
    BY DEF LookupInv
  <1>2. /\ r \in 0 .. n /\ n \in Nat /\ n = Len(keys)
        /\ \A i \in 1 .. n : i <= r => NumbersLess(keys[i], Goal)
        /\ r < n => ~NumbersLess(keys[r + 1], Goal)
    BY <1>1, SlotOfKeys
  <1>3. ASSUME NEW t \in stored
        PROVE  \E i \in 1 .. n : keys[i] = EncodeTuple(t)
    BY <1>1, <1>2, LeafIs
  <1>4. target \in Tuples /\ \A t \in stored : t \in Tuples
    BY <1>1, LeafIs
  <1>5. ASSUME r = n PROVE above = {}
    <2>1. ASSUME NEW t \in stored PROVE TupleLess(t, target)
      <3>1. PICK i \in 1 .. n : keys[i] = EncodeTuple(t)
        BY <1>3
      <3>2. NumbersLess(EncodeTuple(t), EncodeTuple(target))
        BY <1>2, <1>5, <3>1 DEF Goal
      <3> QED BY <1>4, <3>2, OrderOfEncodings
    <2> QED BY <2>1
  <1>6. ASSUME r # n
        PROVE  elems \in above /\ \A t \in above \ {elems} : TupleLess(elems, t)
    <2>1. r \in 0 .. n - 1 /\ r + 1 \in 1 .. n /\ r < n /\ ~(r >= n)
      BY <1>2, <1>6
    <2>2. elems \in stored /\ elems \in Tuples /\ keys[r + 1] = EncodeTuple(elems)
      BY <1>1, <2>1 DEF AtSlot
    <2>3. ~TupleLess(elems, target)
      BY <1>2, <1>4, <2>1, <2>2, OrderOfEncodings DEF Goal
    <2>4. ASSUME NEW t \in above, t # elems PROVE TupleLess(elems, t)
      <3>1. PICK i \in 1 .. n : keys[i] = EncodeTuple(t)
        BY <1>3
      <3>2. t \in Tuples /\ ~NumbersLess(EncodeTuple(t), EncodeTuple(target))
        BY <1>4, OrderOfEncodings
      <3>3. ~(i <= r)
        BY <1>2, <3>1, <3>2 DEF Goal
      <3>4. i # r + 1
        BY <2>2, <2>4, <3>1, <3>2, OrderOfEncodings
      <3>5. r + 1 < i
        BY <1>2, <3>3, <3>4
      <3>6. NumbersLess(keys[r + 1], keys[i])
        BY <1>1, <1>2, <2>1, <3>5, LeafIs
      <3> QED BY <2>2, <3>1, <3>2, <3>6, OrderOfEncodings
    <2> QED BY <2>2, <2>3, <2>4
  <1> QED BY <1>5, <1>6 DEF FindsLeastNotBelow

\* The pair that a lookup finds and decodes is the least tuple that is not below
\* the one it looks for, in the order of tuples, for every leaf and every tuple.
THEOREM LookupCorrect == LookupSpec => []FindsLeastNotBelow
  BY LookupFinds, LookupInvariant, PTL

=============================================================================

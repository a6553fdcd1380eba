--------------------------- MODULE BTreeNodeProofs ---------------------------
(***************************************************************************)
(* Facts about the operators of BTreeNode, for any set of keys and any     *)
(* lengths of pairs: what a node uses, where a key is inserted, and where  *)
(* a split cuts.                                                           *)
(***************************************************************************)
EXTENDS BTreeNode, FiniteSetTheorems, SequenceTheorems, WellFoundedInduction, TLAPS

(* Induction over numbers, for a set instead of a predicate.               *)

LEMMA NatIsWellFounded == IsWellFoundedOn({ss \in Nat \X Nat : ss[1] < ss[2]}, Nat)
  BY NatLessThanWellFounded DEF OpToRel

LEMMA SetInduction ==
  ASSUME NEW T, 0 \in T, \A n \in Nat : n \in T => n + 1 \in T
  PROVE  Nat \subseteq T
  <1> DEFINE U == Nat \ T
             R == {ss \in Nat \X Nat : ss[1] < ss[2]}
  <1>1. SUFFICES ASSUME U # {} PROVE FALSE
    OBVIOUS
  <1>2. PICK x \in U : \A y \in U : <<y, x>> \notin R
    <2>1. U \subseteq Nat /\ IsWellFoundedOn(R, Nat)
      BY NatIsWellFounded
    <2> HIDE DEF U, R
    <2> QED BY <1>1, <2>1, WFMin
  <1>3. x # 0 /\ x - 1 \in Nat
    OBVIOUS
  <1>4. x - 1 \in U
    BY <1>3
  <1>5. <<x - 1, x>> \in R
    BY <1>3
  <1> QED BY <1>2, <1>4, <1>5

-----------------------------------------------------------------------------
(* What a node uses.  Upto(f, ...) says that f holds the sums from the     *)
(* left, of which Used is the last.                                        *)

\* Lengths of pairs.
Sized(size, K) == \A k \in K : size[k] \in Nat

Upto(f, keys, size, n) ==
  f = [i \in 0 .. n |-> IF i = 0 THEN 0 ELSE f[i - 1] + PointerSize + size[keys[i]]]

AddsUp(g, keys, size, n) ==
  g[0] = 0 /\ \A i \in 1 .. n : g[i] = g[i - 1] + PointerSize + size[keys[i]]

LEMMA UptoByElements ==
  ASSUME NEW keys, NEW size, NEW n \in Nat, NEW g \in [0 .. n -> Int],
         AddsUp(g, keys, size, n)
  PROVE  Upto(g, keys, size, n)
  <1> USE DEF AddsUp
  <1> DEFINE h == [i \in 0 .. n |-> IF i = 0 THEN 0 ELSE g[i - 1] + PointerSize + size[keys[i]]]
  <1>1. \A i \in 0 .. n : g[i] = h[i]
    <2> TAKE i \in 0 .. n
    <2>1. CASE i = 0
      BY <2>1
    <2>2. CASE i \in 1 .. n
      BY <2>2
    <2> QED BY <2>1, <2>2
  <1>2. g = h
    <2> HIDE DEF h
    <2>1. DOMAIN g = 0 .. n
      OBVIOUS
    <2>2. h = [i \in 0 .. n |-> h[i]]
      BY DEF h
    <2>3. g = [i \in 0 .. n |-> g[i]]
      OBVIOUS
    <2> QED BY <1>1, <2>2, <2>3
  <1> QED BY <1>2 DEF Upto

LEMMA UptoExists ==
  ASSUME NEW K, NEW keys \in Seq(K), NEW size, Sized(size, K)
  PROVE  \E f : Upto(f, keys, size, Len(keys))
  <1> DEFINE T == {n \in Nat : n <= Len(keys) => \E f : Upto(f, keys, size, n)}
  <1>1. 0 \in T
    <2>1. Upto([i \in 0 .. 0 |-> 0], keys, size, 0)
      BY DEF Upto
    <2> QED BY <2>1
  <1>2. ASSUME NEW n \in Nat, n \in T PROVE n + 1 \in T
    <2>1. SUFFICES ASSUME n + 1 <= Len(keys) PROVE \E f : Upto(f, keys, size, n + 1)
      OBVIOUS
    <2>2. PICK f : Upto(f, keys, size, n)
      BY <1>2, <2>1
    <2> DEFINE g == [i \in 0 .. n + 1 |->
                       IF i = n + 1 THEN f[n] + PointerSize + size[keys[i]] ELSE f[i]]
    <2>3. Upto(g, keys, size, n + 1)
      BY <2>2, <2>1 DEF Upto
    <2> QED BY <2>3
  <1>3. Nat \subseteq T
    <2> HIDE DEF T
    <2> QED BY <1>1, <1>2, SetInduction
  <1> QED BY <1>3

LEMMA UptoUnique ==
  ASSUME NEW K, NEW keys \in Seq(K), NEW size, Sized(size, K),
         NEW m \in Nat, NEW n \in Nat, m <= n,
         NEW f, NEW g, Upto(f, keys, size, m), Upto(g, keys, size, n)
  PROVE  \A i \in 0 .. m : f[i] = g[i]
  <1> DEFINE T == {i \in Nat : i <= m => f[i] = g[i]}
  <1>1. 0 \in T
    BY DEF Upto
  <1>2. ASSUME NEW i \in Nat, i \in T PROVE i + 1 \in T
    <2>1. SUFFICES ASSUME i + 1 <= m PROVE f[i + 1] = g[i + 1]
      OBVIOUS
    <2>2. f[i] = g[i]
      BY <1>2, <2>1
    <2>3. f[i + 1] = f[i] + PointerSize + size[keys[i + 1]]
      BY <2>1 DEF Upto
    <2>4. g[i + 1] = g[i] + PointerSize + size[keys[i + 1]]
      BY <2>1 DEF Upto
    <2> QED BY <2>2, <2>3, <2>4
  <1>3. Nat \subseteq T
    <2> HIDE DEF T
    <2> QED BY <1>1, <1>2, SetInduction
  <1> QED BY <1>3

LEMMA UptoType ==
  ASSUME NEW K, NEW keys \in Seq(K), NEW size, Sized(size, K),
         NEW f, Upto(f, keys, size, Len(keys))
  PROVE  f \in [0 .. Len(keys) -> Nat]
  <1> DEFINE T == {i \in Nat : i <= Len(keys) => f[i] \in Nat}
  <1>1. 0 \in T
    BY DEF Upto
  <1>2. ASSUME NEW i \in Nat, i \in T PROVE i + 1 \in T
    <2>1. SUFFICES ASSUME i + 1 <= Len(keys) PROVE f[i + 1] \in Nat
      OBVIOUS
    <2>2. f[i + 1] = f[i] + PointerSize + size[keys[i + 1]]
      BY <2>1 DEF Upto
    <2>3. size[keys[i + 1]] \in Nat
      BY <2>1 DEF Sized
    <2> QED BY <1>2, <2>1, <2>2, <2>3 DEF PointerSize
  <1>3. Nat \subseteq T
    <2> HIDE DEF T
    <2> QED BY <1>1, <1>2, SetInduction
  <1>4. \A i \in 0 .. Len(keys) : f[i] \in Nat
    BY <1>3
  <1> QED BY <1>4 DEF Upto

LEMMA UsedIsSum ==
  ASSUME NEW K, NEW keys \in Seq(K), NEW size, Sized(size, K),
         NEW f, Upto(f, keys, size, Len(keys))
  PROVE  Used(keys, size) = f[Len(keys)]
  <1> DEFINE g == CHOOSE g : Upto(g, keys, size, Len(keys))
  <1>1. Upto(g, keys, size, Len(keys))
    BY UptoExists
  <1>2. Used(keys, size) = g[Len(keys)]
    BY DEF Used, Upto
  <1>3. f[Len(keys)] = g[Len(keys)]
    <2> HIDE DEF g
    <2> QED BY <1>1, UptoUnique
  <1> QED BY <1>2, <1>3

\* What the front of a node uses grows pair by pair.
FrontsUse(f, keys, size) ==
  /\ f \in [0 .. Len(keys) -> Nat]
  /\ f[0] = 0
  /\ \A i \in 1 .. Len(keys) : f[i] = f[i - 1] + PointerSize + size[keys[i]]
  /\ \A i \in 0 .. Len(keys) : Used(SubSeq(keys, 1, i), size) = f[i]

LEMMA UsedOfFronts ==
  ASSUME NEW K, NEW keys \in Seq(K), NEW size, Sized(size, K)
  PROVE  \E f : FrontsUse(f, keys, size)
  <1>1. PICK f : Upto(f, keys, size, Len(keys))
    BY UptoExists
  <1>2. f \in [0 .. Len(keys) -> Nat]
    BY <1>1, UptoType
  <1>3. /\ f[0] = 0
        /\ \A i \in 1 .. Len(keys) : f[i] = f[i - 1] + PointerSize + size[keys[i]]
    BY <1>1 DEF Upto
  <1>4. ASSUME NEW i \in 0 .. Len(keys)
        PROVE  Used(SubSeq(keys, 1, i), size) = f[i]
    <2> DEFINE front == SubSeq(keys, 1, i)
               g == [j \in 0 .. i |-> f[j]]
    <2>1. front \in Seq(K) /\ Len(front) = i /\ \A j \in 1 .. i : front[j] = keys[j]
      OBVIOUS
    <2>2. Upto(g, front, size, i)
      <3> HIDE DEF front
      <3>1. g[0] = 0 /\ g \in [0 .. i -> Int]
        BY <1>2, <1>3
      <3>2. ASSUME NEW j \in 1 .. i
            PROVE  g[j] = g[j - 1] + PointerSize + size[front[j]]
        <4>1. j \in 1 .. Len(keys) /\ j - 1 \in 0 .. i /\ j \in 0 .. i
          OBVIOUS
        <4>2. f[j] = f[j - 1] + PointerSize + size[keys[j]]
          BY <1>3, <4>1
        <4>3. g[j] = f[j] /\ g[j - 1] = f[j - 1]
          BY <4>1
        <4> HIDE DEF g
        <4> QED BY <2>1, <4>2, <4>3
      <3> HIDE DEF g
      <3>3. AddsUp(g, front, size, i)
        BY <3>1, <3>2 DEF AddsUp
      <3>4. i \in Nat
        OBVIOUS
      <3> QED BY <3>1, <3>3, <3>4, UptoByElements
    <2>3. Used(front, size) = g[i]
      <3> HIDE DEF front, g
      <3> QED BY <2>1, <2>2, UsedIsSum
    <2> QED BY <2>3
  <1> QED BY <1>2, <1>3, <1>4 DEF FrontsUse

LEMMA WholeFront ==
  ASSUME NEW K, NEW keys \in Seq(K)
  PROVE  SubSeq(keys, 1, Len(keys)) = keys
  OBVIOUS

LEMMA UsedIsLast ==
  ASSUME NEW K, NEW keys \in Seq(K), NEW size, Sized(size, K),
         NEW f, FrontsUse(f, keys, size)
  PROVE  Used(keys, size) = f[Len(keys)]
  <1>1. Used(SubSeq(keys, 1, Len(keys)), size) = f[Len(keys)]
    BY DEF FrontsUse
  <1> QED BY <1>1, WholeFront

LEMMA UsedType ==
  ASSUME NEW K, NEW keys \in Seq(K), NEW size, Sized(size, K)
  PROVE  Used(keys, size) \in Nat
  <1>1. PICK f : FrontsUse(f, keys, size)
    BY UsedOfFronts
  <1>2. f[Len(keys)] \in Nat
    BY <1>1 DEF FrontsUse
  <1> QED BY <1>1, <1>2, UsedIsLast

LEMMA UsedEmpty ==
  ASSUME NEW K, NEW size, Sized(size, K)
  PROVE  Used(<<>>, size) = 0
  <1> DEFINE none == <<>>
  <1>1. none \in Seq(K) /\ Len(none) = 0
    OBVIOUS
  <1> HIDE DEF none
  <1>2. PICK f : FrontsUse(f, none, size)
    BY <1>1, UsedOfFronts
  <1>3. f[0] = 0
    BY <1>2 DEF FrontsUse
  <1> QED BY <1>1, <1>2, <1>3, UsedIsLast DEF none

LEMMA FrontOfConcat ==
  ASSUME NEW K, NEW s \in Seq(K), NEW t \in Seq(K)
  PROVE  /\ s \o t \in Seq(K) /\ Len(s \o t) = Len(s) + Len(t)
         /\ \A j \in 1 .. Len(t) : (s \o t)[Len(s) + j] = t[j]
         /\ SubSeq(s \o t, 1, Len(s)) = s
  OBVIOUS

\* A node and the pairs behind it.
LEMMA UsedConcat ==
  ASSUME NEW K, NEW s \in Seq(K), NEW t \in Seq(K), NEW size, Sized(size, K)
  PROVE  Used(s \o t, size) = Used(s, size) + Used(t, size)
  <1> DEFINE all == s \o t
  <1>1. /\ all \in Seq(K) /\ Len(all) = Len(s) + Len(t)
        /\ \A j \in 1 .. Len(t) : all[Len(s) + j] = t[j]
        /\ SubSeq(all, 1, Len(s)) = s
    BY FrontOfConcat
  <1> HIDE DEF all
  <1>2. PICK f : FrontsUse(f, all, size)
    BY <1>1, UsedOfFronts
  <1>3. Used(all, size) = f[Len(all)]
    BY <1>1, <1>2, UsedIsLast
  <1>5. /\ Len(s) \in Nat /\ Len(t) \in Nat
        /\ Len(s) \in 0 .. Len(all)
        /\ \A i \in 0 .. Len(t) : Len(s) + i \in 0 .. Len(all)
    BY <1>1
  <1>4. Used(s, size) = f[Len(s)]
    <2>1. Used(SubSeq(all, 1, Len(s)), size) = f[Len(s)]
      BY <1>2, <1>5 DEF FrontsUse
    <2> QED BY <1>1, <2>1
  <1>6. \A i \in 0 .. Len(all) : f[i] \in Nat
    BY <1>2 DEF FrontsUse
  <1> DEFINE g == [j \in 0 .. Len(t) |-> f[Len(s) + j] - f[Len(s)]]
  <1>7. Upto(g, t, size, Len(t))
    <2>1. g \in [0 .. Len(t) -> Int] /\ g[0] = 0
      <3>1. f[Len(s)] \in Nat /\ Len(s) + 0 = Len(s)
        BY <1>5, <1>6
      <3> QED BY <1>5, <1>6, <3>1
    <2>2. ASSUME NEW j \in 1 .. Len(t)
          PROVE  g[j] = g[j - 1] + PointerSize + size[t[j]]
      <3>1. f[Len(s) + j] = f[Len(s) + j - 1] + PointerSize + size[t[j]]
        <4>1. Len(s) + j \in 1 .. Len(all) /\ all[Len(s) + j] = t[j]
          BY <1>1, <1>5
        <4> QED BY <1>2, <4>1 DEF FrontsUse
      <3>2. size[t[j]] \in Nat
        BY DEF Sized
      <3>3. g[j] = f[Len(s) + j] - f[Len(s)] /\ g[j - 1] = f[Len(s) + j - 1] - f[Len(s)]
        <4>1. Len(s) + (j - 1) = Len(s) + j - 1
          BY <1>5
        <4> QED BY <1>5, <4>1
      <3>4. f[Len(s) + j] \in Nat /\ f[Len(s) + j - 1] \in Nat /\ f[Len(s)] \in Nat
        <4>1. j \in 0 .. Len(t) /\ j - 1 \in 0 .. Len(t) /\ Len(s) + (j - 1) = Len(s) + j - 1
          BY <1>5
        <4> QED BY <1>5, <1>6, <4>1
      <3> DEFINE before == f[Len(s) + j - 1]
                 after  == f[Len(s) + j]
                 pair   == size[t[j]]
                 start  == f[Len(s)]
      <3>5. after = before + PointerSize + pair
        BY <3>1
      <3>6. after \in Nat /\ before \in Nat /\ pair \in Nat /\ start \in Nat
        BY <3>2, <3>4
      <3> HIDE DEF g, before, after, pair, start
      <3>7. after - start = (before - start) + PointerSize + pair
        BY <3>5, <3>6 DEF PointerSize
      <3> QED BY <3>3, <3>7 DEF before, after, pair, start
    <2> HIDE DEF g
    <2>3. AddsUp(g, t, size, Len(t))
      BY <2>1, <2>2 DEF AddsUp
    <2> QED BY <1>5, <2>1, <2>3, UptoByElements
  <1>8. Used(t, size) = g[Len(t)]
    <2> HIDE DEF g
    <2> QED BY <1>7, UsedIsSum
  <1>9. g[Len(t)] = f[Len(all)] - f[Len(s)]
    BY <1>1, <1>5
  <1>10. f[Len(s)] \in Nat /\ f[Len(all)] \in Nat
    BY <1>1, <1>5, <1>6
  <1> HIDE DEF g
  <1> QED BY <1>3, <1>4, <1>8, <1>9, <1>10 DEF all

LEMMA UsedSingle ==
  ASSUME NEW K, NEW k \in K, NEW size, Sized(size, K)
  PROVE  Used(<<k>>, size) = PointerSize + size[k]
  <1> DEFINE f == [i \in 0 .. 1 |-> IF i = 0 THEN 0 ELSE PointerSize + size[k]]
  <1>1. <<k>> \in Seq(K) /\ Len(<<k>>) = 1
    OBVIOUS
  <1>2. Upto(f, <<k>>, size, 1)
    <2>1. f \in [0 .. 1 -> Int] /\ f[0] = 0 /\ f[1] = f[0] + PointerSize + size[<<k>>[1]]
      BY DEF PointerSize, Sized
    <2> HIDE DEF f
    <2>2. \A i \in 1 .. 1 : f[i] = f[i - 1] + PointerSize + size[<<k>>[i]]
      BY <2>1
    <2>3. AddsUp(f, <<k>>, size, 1)
      BY <2>1, <2>2 DEF AddsUp
    <2> QED BY <2>1, <2>3, UptoByElements
  <1>3. Used(<<k>>, size) = f[1]
    <2> HIDE DEF f
    <2> QED BY <1>1, <1>2, UsedIsSum
  <1> QED BY <1>3

LEMMA UsedAppend ==
  ASSUME NEW K, NEW keys \in Seq(K), NEW k \in K, NEW size, Sized(size, K)
  PROVE  Used(Append(keys, k), size) = Used(keys, size) + PointerSize + size[k]
  <1> DEFINE one  == <<k>>
             used == Used(keys, size)
             pair == size[k]
  <1>1. one \in Seq(K) /\ Append(keys, k) = keys \o one
    BY AppendIsConcat
  <1>2. used \in Nat /\ pair \in Nat
    BY UsedType DEF Sized
  <1>3. Used(one, size) = PointerSize + pair
    BY UsedSingle
  <1>4. Used(keys \o one, size) = used + Used(one, size)
    <2> HIDE DEF one, pair
    <2> QED BY <1>1, UsedConcat
  <1>5. used + (PointerSize + pair) = used + PointerSize + pair
    <2> HIDE DEF used, pair
    <2> QED BY <1>2 DEF PointerSize
  <1> HIDE DEF one, used, pair
  <1> QED BY <1>1, <1>3, <1>4, <1>5 DEF used, pair

LEMMA UsedTail ==
  ASSUME NEW K, NEW keys \in Seq(K), keys # <<>>, NEW size, Sized(size, K)
  PROVE  Used(keys, size) = PointerSize + size[Head(keys)] + Used(Tail(keys), size)
  <1> DEFINE first == <<Head(keys)>>
             rest  == Tail(keys)
             pair  == size[Head(keys)]
  <1>1. /\ keys = first \o rest
        /\ Head(keys) \in K /\ rest \in Seq(K) /\ first \in Seq(K)
    OBVIOUS
  <1>2. Used(first, size) = PointerSize + pair
    BY <1>1, UsedSingle
  <1> HIDE DEF first, rest, pair
  <1>3. Used(first \o rest, size) = Used(first, size) + Used(rest, size)
    BY <1>1, UsedConcat
  <1> QED BY <1>1, <1>2, <1>3 DEF pair, rest

-----------------------------------------------------------------------------
(* Inserting a pair.                                                       *)

LEMMA InsertAtParts ==
  ASSUME NEW K, NEW s \in Seq(K), NEW i \in 1 .. Len(s) + 1, NEW e \in K
  PROVE  /\ SubSeq(s, 1, i - 1) \in Seq(K) /\ SubSeq(s, i, Len(s)) \in Seq(K)
         /\ s = SubSeq(s, 1, i - 1) \o SubSeq(s, i, Len(s))
         /\ InsertAt(s, i, e) = Append(SubSeq(s, 1, i - 1), e) \o SubSeq(s, i, Len(s))
  <1>1. Len(s) \in Nat
    OBVIOUS
  <1>2. \A j \in 1 .. i - 1 : s[j] \in K
    BY <1>1
  <1>3. \A j \in i .. Len(s) : s[j] \in K
    BY <1>1
  <1>4. SubSeq(s, 1, i - 1) \in Seq(K)
    BY <1>1, <1>2, SubSeqProperties
  <1>5. SubSeq(s, i, Len(s)) \in Seq(K)
    BY <1>1, <1>3, SubSeqProperties
  <1>6. s = SubSeq(s, 1, i - 1) \o SubSeq(s, i, Len(s))
    <2>1. /\ i - 1 \in (1 - 1) .. Len(s) /\ i - 1 + 1 = i
          /\ 1 \in 1 .. Len(s) + 1 /\ Len(s) \in (i - 1) .. Len(s)
      BY <1>1
    <2>2. SubSeq(s, 1, i - 1) \o SubSeq(s, i - 1 + 1, Len(s)) = SubSeq(s, 1, Len(s))
      BY ONLY <2>1, ConcatAdjacentSubSeq, s \in Seq(K)
    <2> QED BY <2>1, <2>2, SubSeqFull
  <1>7. Append(SubSeq(s, 1, i - 1), e) = SubSeq(s, 1, i - 1) \o <<e>>
    BY <1>4, AppendIsConcat
  <1> QED BY <1>4, <1>5, <1>6, <1>7, Zenon DEF InsertAt

\* e is at place i of all, behind what precedes and before what follows it in s.
Inserted(all, s, i, e) ==
  /\ Len(all) = Len(s) + 1
  /\ \A j \in 1 .. i - 1 : all[j] = s[j]
  /\ all[i] = e
  /\ \A j \in i + 1 .. Len(s) + 1 : all[j] = s[j - 1]

LEMMA InsertAtElements ==
  ASSUME NEW K, NEW s \in Seq(K), NEW i \in 1 .. Len(s) + 1, NEW e \in K
  PROVE  InsertAt(s, i, e) \in Seq(K) /\ Inserted(InsertAt(s, i, e), s, i, e)
  <1> DEFINE front == Append(SubSeq(s, 1, i - 1), e)
             back  == SubSeq(s, i, Len(s))
  <1>1. Len(s) \in Nat
    OBVIOUS
  <1>2. /\ front \in Seq(K) /\ Len(front) = i /\ front[i] = e
        /\ \A j \in 1 .. i - 1 : front[j] = s[j]
    <2> DEFINE less == SubSeq(s, 1, i - 1)
    <2>1. \A j \in 1 .. i - 1 : s[j] \in K
      BY <1>1
    <2>2. /\ less \in Seq(K) /\ Len(less) = IF 1 <= i - 1 THEN i - 1 - 1 + 1 ELSE 0
          /\ \A j \in 1 .. i - 1 - 1 + 1 : less[j] = s[1 + j - 1]
      BY <1>1, <2>1, SubSeqProperties
    <2>3. Len(less) = i - 1 /\ \A j \in 1 .. i - 1 : less[j] = s[j]
      <3> HIDE DEF less
      <3> QED BY <1>1, <2>2
    <2> HIDE DEF less
    <2>4. /\ Append(less, e) \in Seq(K) /\ Len(Append(less, e)) = Len(less) + 1
          /\ \A j \in 1 .. Len(less) : Append(less, e)[j] = less[j]
          /\ Append(less, e)[Len(less) + 1] = e
      BY <2>2, AppendProperties
    <2> QED BY <1>1, <2>3, <2>4 DEF less
  <1>3. /\ back \in Seq(K) /\ Len(back) = Len(s) + 1 - i
        /\ \A j \in 1 .. Len(s) + 1 - i : back[j] = s[i + j - 1]
    <2>1. \A j \in i .. Len(s) : s[j] \in K
      BY <1>1
    <2>2. /\ back \in Seq(K) /\ Len(back) = IF i <= Len(s) THEN Len(s) - i + 1 ELSE 0
          /\ \A j \in 1 .. Len(s) - i + 1 : back[j] = s[i + j - 1]
      BY <1>1, <2>1, SubSeqProperties
    <2> HIDE DEF back
    <2> QED BY <1>1, <2>2
  <1>4. InsertAt(s, i, e) = front \o back
    BY InsertAtParts, ZenonT(30)
  <1> HIDE DEF front, back
  <1>5. /\ front \o back \in Seq(K) /\ Len(front \o back) = Len(front) + Len(back)
        /\ \A j \in 1 .. Len(front) + Len(back) : (front \o back)[j] =
              IF j <= Len(front) THEN front[j] ELSE back[j - Len(front)]
    BY <1>2, <1>3, ConcatProperties
  <1> DEFINE all == front \o back
  <1>6. ASSUME NEW j \in 1 .. Len(s) + 1
        PROVE  all[j] = IF j < i THEN s[j] ELSE IF j = i THEN e ELSE s[j - 1]
    <2>0. all[j] = IF j <= i THEN front[j] ELSE back[j - i]
      BY <1>1, <1>2, <1>3, <1>5
    <2> HIDE DEF all
    <2>1. CASE j < i
      BY <1>2, <2>0, <2>1
    <2>2. CASE j = i
      BY <1>2, <2>0, <2>2
    <2>3. CASE j > i
      <3>1. j - i \in 1 .. Len(s) + 1 - i /\ i + (j - i) - 1 = j - 1
        BY <1>1, <2>3
      <3> QED BY <1>3, <2>0, <2>3, <3>1
    <2> QED BY <1>1, <2>1, <2>2, <2>3
  <1>7. all \in Seq(K) /\ Len(all) = Len(s) + 1
    BY <1>1, <1>2, <1>3, <1>5
  <1> HIDE DEF all
  <1>8. \A j \in 1 .. i - 1 : all[j] = s[j]
    BY <1>6
  <1>9. all[i] = e
    BY <1>6
  <1>10. \A j \in i + 1 .. Len(s) + 1 : all[j] = s[j - 1]
    <2> TAKE j \in i + 1 .. Len(s) + 1
    <2>1. j \in 1 .. Len(s) + 1 /\ ~(j < i) /\ j # i
      OBVIOUS
    <2> QED BY <1>6, <2>1
  <1> QED BY <1>4, <1>7, <1>8, <1>9, <1>10 DEF Inserted, all

\* s in two parts, and with e between them.
Around(K, s, i, e) ==
  \E front, back, more \in Seq(K) :
     /\ s = front \o back /\ more = Append(front, e)
     /\ InsertAt(s, i, e) = more \o back

LEMMA InsertAtAround ==
  ASSUME NEW K, NEW s \in Seq(K), NEW i \in 1 .. Len(s) + 1, NEW e \in K
  PROVE  Around(K, s, i, e)
  <1> DEFINE front == SubSeq(s, 1, i - 1)
             back  == SubSeq(s, i, Len(s))
             more  == Append(front, e)
  <1>1. /\ front \in Seq(K) /\ back \in Seq(K)
        /\ s = front \o back /\ InsertAt(s, i, e) = more \o back
    BY InsertAtParts, ZenonT(30)
  <1> HIDE DEF front, back
  <1>2. more \in Seq(K)
    BY <1>1, AppendProperties
  <1> QED BY <1>1, <1>2 DEF Around

LEMMA UsedInsert ==
  ASSUME NEW K, NEW s \in Seq(K), NEW i \in 1 .. Len(s) + 1, NEW k \in K,
         NEW size, Sized(size, K)
  PROVE  Used(InsertAt(s, i, k), size) = Used(s, size) + PointerSize + size[k]
  <1>1. PICK front, back, more \in Seq(K) :
           /\ s = front \o back /\ more = Append(front, k)
           /\ InsertAt(s, i, k) = more \o back
    <2>1. Around(K, s, i, k)
      BY InsertAtAround
    <2> QED BY <2>1, Zenon DEF Around
  <1> DEFINE usedFront == Used(front, size)
             usedBack  == Used(back, size)
             usedMore  == Used(more, size)
             usedS     == Used(s, size)
             usedAll   == Used(more \o back, size)
             pair      == size[k]
  <1>3. usedAll = usedMore + usedBack
    BY UsedConcat
  <1>4. usedMore = usedFront + PointerSize + pair
    BY <1>1, UsedAppend
  <1>5. usedS = usedFront + usedBack
    BY <1>1, UsedConcat
  <1>6. usedFront \in Nat /\ usedBack \in Nat /\ pair \in Nat
    BY UsedType DEF Sized
  <1> HIDE DEF usedFront, usedBack, usedMore, usedS, usedAll, pair
  <1>7. usedAll = usedS + PointerSize + pair
    BY <1>3, <1>4, <1>5, <1>6 DEF PointerSize
  <1> QED BY <1>1, <1>7 DEF usedAll, usedS, pair

\* The slots up to m hold the keys less than key, the others do not.
Splits(m, keys, n, key) == \A i \in 1 .. n : keys[i] < key <=> i <= m

LEMMA SlotOfSplits ==
  ASSUME NEW keys \in Seq(Int), Sorted(keys), NEW key \in Int
  PROVE  /\ SlotOf(keys, key) \in 0 .. Len(keys)
         /\ Splits(SlotOf(keys, key), keys, Len(keys), key)
  <1> DEFINE T == {n \in Nat : n <= Len(keys) => \E m \in 0 .. n : Splits(m, keys, n, key)}
  <1>1. 0 \in T
    <2>1. Splits(0, keys, 0, key) /\ 0 \in 0 .. 0
      BY DEF Splits
    <2> QED BY <2>1
  <1>2. ASSUME NEW n \in Nat, n \in T PROVE n + 1 \in T
    <2>1. SUFFICES ASSUME n + 1 <= Len(keys)
          PROVE  \E m \in 0 .. n + 1 : Splits(m, keys, n + 1, key)
      OBVIOUS
    <2>2. PICK m \in 0 .. n : Splits(m, keys, n, key)
      BY <1>2, <2>1
    <2>3. CASE keys[n + 1] < key
      <3>1. ASSUME NEW i \in 1 .. n + 1 PROVE keys[i] < key
        <4>1. CASE i = n + 1
          BY <2>3, <4>1
        <4>2. CASE i < n + 1
          <5>1. keys[i] < keys[n + 1]
            BY <2>1, <4>2 DEF Sorted
          <5> QED BY <2>1, <2>3, <4>2, <5>1
        <4> QED BY <4>1, <4>2
      <3>2. Splits(n + 1, keys, n + 1, key)
        BY <3>1 DEF Splits
      <3> QED BY <3>2
    <2>4. CASE ~(keys[n + 1] < key)
      <3>1. ASSUME NEW i \in 1 .. n + 1 PROVE keys[i] < key <=> i <= m
        <4>1. CASE i = n + 1
          BY <2>4, <4>1
        <4>2. CASE i \in 1 .. n
          BY <2>2, <4>2 DEF Splits
        <4> QED BY <4>1, <4>2
      <3>2. Splits(m, keys, n + 1, key) /\ m \in 0 .. n + 1
        BY <3>1 DEF Splits
      <3> QED BY <3>2
    <2> QED BY <2>3, <2>4
  <1>3. Nat \subseteq T
    <2> HIDE DEF T
    <2> QED BY <1>1, <1>2, SetInduction
  <1>4. PICK m \in 0 .. Len(keys) : Splits(m, keys, Len(keys), key)
    <2>1. Len(keys) \in T
      <3> HIDE DEF T
      <3> QED BY <1>3
    <2> QED BY <2>1
  <1>5. {i \in DOMAIN keys : keys[i] < key} = 1 .. m
    BY <1>4 DEF Splits
  <1>6. Cardinality(1 .. m) = m
    BY FS_Interval
  <1> QED BY <1>4, <1>5, <1>6 DEF SlotOf

\* The key goes behind the lesser ones, and the greater ones move up.
Placed(all, keys, key, m) ==
  /\ all \in Seq(Int) /\ Len(all) = Len(keys) + 1
  /\ \A j \in 1 .. m : all[j] = keys[j] /\ keys[j] < key
  /\ all[m + 1] = key
  /\ \A j \in m + 2 .. Len(keys) + 1 : all[j] = keys[j - 1] /\ key < keys[j - 1]

LEMMA InsertKeyPlaces ==
  ASSUME NEW keys \in Seq(Int), Sorted(keys), NEW key \in Int, ~Holds(keys, key)
  PROVE  /\ SlotOf(keys, key) \in 0 .. Len(keys)
         /\ Placed(InsertKey(keys, key), keys, key, SlotOf(keys, key))
  <1> DEFINE m   == SlotOf(keys, key)
             at  == m + 1
             all == InsertAt(keys, at, key)
  <1>1. m \in 0 .. Len(keys) /\ Splits(m, keys, Len(keys), key)
    BY SlotOfSplits
  <1> HIDE DEF m
  <1>2. at \in 1 .. Len(keys) + 1
    BY <1>1
  <1>3. all \in Seq(Int) /\ Inserted(all, keys, at, key)
    <2> HIDE DEF at
    <2> QED BY <1>2, InsertAtElements
  <1> HIDE DEF all
  <1>4. ASSUME NEW j \in 1 .. m PROVE all[j] = keys[j] /\ keys[j] < key
    <2>1. j \in 1 .. Len(keys) /\ j \in 1 .. at - 1
      BY <1>1
    <2> QED BY <1>1, <1>3, <2>1 DEF Splits, Inserted
  <1>5. all[m + 1] = key
    BY <1>3 DEF Inserted
  <1>6. ASSUME NEW j \in m + 2 .. Len(keys) + 1
        PROVE  all[j] = keys[j - 1] /\ key < keys[j - 1]
    <2>1. j - 1 \in 1 .. Len(keys) /\ ~(j - 1 <= m) /\ j \in at + 1 .. Len(keys) + 1
      BY <1>1
    <2> DEFINE k == keys[j - 1]
    <2>2. ~(k < key) /\ k # key /\ k \in Int
      BY <1>1, <2>1 DEF Splits, Holds
    <2>3. all[j] = k
      BY <1>3, <2>1 DEF Inserted
    <2> HIDE DEF k
    <2>4. key < k
      BY <2>2
    <2> QED BY <2>3, <2>4 DEF k
  <1>7. Len(all) = Len(keys) + 1
    BY <1>3 DEF Inserted
  <1>8. Placed(all, keys, key, m)
    BY <1>3, <1>4, <1>5, <1>6, <1>7 DEF Placed
  <1> QED BY <1>1, <1>8 DEF InsertKey, all, m

LEMMA PlacedSorted ==
  ASSUME NEW keys \in Seq(Int), Sorted(keys), NEW key \in Int,
         NEW m \in 0 .. Len(keys), NEW all, Placed(all, keys, key, m)
  PROVE  Sorted(all)
  <1> SUFFICES ASSUME NEW i \in 1 .. Len(keys) + 1, NEW j \in 1 .. Len(keys) + 1, i < j
               PROVE  all[i] < all[j]
    BY DEF Sorted, Placed
  <1>1. CASE j <= m
    <2>1. i \in 1 .. m /\ j \in 1 .. m
      BY <1>1
    <2>2. all[i] = keys[i] /\ all[j] = keys[j]
      BY <2>1 DEF Placed
    <2>3. keys[i] < keys[j]
      BY <2>1 DEF Sorted
    <2> QED BY <2>2, <2>3
  <1>2. CASE j = m + 1
    <2>1. i \in 1 .. m
      BY <1>2
    <2> QED BY <1>2, <2>1 DEF Placed
  <1>3. CASE j > m + 1 /\ i <= m
    <2>1. i \in 1 .. m /\ j \in m + 2 .. Len(keys) + 1 /\ j - 1 \in 1 .. Len(keys) /\ i < j - 1
      BY <1>3
    <2>2. all[i] = keys[i] /\ all[j] = keys[j - 1]
      BY <2>1 DEF Placed
    <2>3. keys[i] < keys[j - 1]
      BY <2>1 DEF Sorted
    <2> QED BY <2>2, <2>3
  <1>4. CASE j > m + 1 /\ i = m + 1
    <2>1. j \in m + 2 .. Len(keys) + 1
      BY <1>4
    <2> QED BY <1>4, <2>1 DEF Placed
  <1>5. CASE j > m + 1 /\ i > m + 1
    <2>1. /\ i \in m + 2 .. Len(keys) + 1 /\ j \in m + 2 .. Len(keys) + 1
          /\ j - 1 \in 1 .. Len(keys) /\ i - 1 \in 1 .. Len(keys) /\ i - 1 < j - 1
      BY <1>5
    <2>2. all[i] = keys[i - 1] /\ all[j] = keys[j - 1]
      BY <2>1 DEF Placed
    <2>3. keys[i - 1] < keys[j - 1]
      BY <2>1 DEF Sorted
    <2> QED BY <2>2, <2>3
  <1> QED BY <1>1, <1>2, <1>3, <1>4, <1>5

LEMMA PlacedRange ==
  ASSUME NEW keys \in Seq(Int), NEW key \in Int,
         NEW m \in 0 .. Len(keys), NEW all, Placed(all, keys, key, m)
  PROVE  Range(all) = Range(keys) \union {key}
  <1>1. DOMAIN all = 1 .. Len(keys) + 1 /\ DOMAIN keys = 1 .. Len(keys)
    BY DEF Placed
  <1>2. ASSUME NEW i \in 1 .. Len(keys)
        PROVE  \E j \in 1 .. Len(keys) + 1 : all[j] = keys[i]
    <2>1. CASE i <= m
      <3>1. all[i] = keys[i] /\ i \in 1 .. Len(keys) + 1
        BY <2>1 DEF Placed
      <3> QED BY <3>1
    <2>2. CASE i > m
      <3>1. i + 1 \in m + 2 .. Len(keys) + 1 /\ i + 1 - 1 = i
        BY <2>2
      <3>2. all[i + 1] = keys[i + 1 - 1]
        BY <3>1 DEF Placed
      <3>3. all[i + 1] = keys[i] /\ i + 1 \in 1 .. Len(keys) + 1
        BY <3>1, <3>2
      <3> QED BY <3>3
    <2> QED BY <2>1, <2>2
  <1>3. ASSUME NEW j \in 1 .. Len(keys) + 1
        PROVE  all[j] = key \/ \E i \in 1 .. Len(keys) : keys[i] = all[j]
    <2>1. CASE j <= m
      <3>1. all[j] = keys[j] /\ j \in 1 .. Len(keys)
        <4>1. j \in 1 .. m /\ j \in 1 .. Len(keys)
          BY <2>1
        <4> QED BY <4>1 DEF Placed
      <3> QED BY <3>1
    <2>2. CASE j = m + 1
      BY <2>2 DEF Placed
    <2>3. CASE j > m + 1
      <3>1. j \in m + 2 .. Len(keys) + 1 /\ j - 1 \in 1 .. Len(keys)
        BY <2>3
      <3>2. all[j] = keys[j - 1]
        BY <3>1 DEF Placed
      <3> QED BY <3>1, <3>2
    <2> QED BY <2>1, <2>2, <2>3
  <1>4. all[m + 1] = key /\ m + 1 \in 1 .. Len(keys) + 1
    BY DEF Placed
  <1>5. \A k : (\E i \in 1 .. Len(keys) + 1 : all[i] = k)
                 <=> (k = key \/ \E i \in 1 .. Len(keys) : keys[i] = k)
    BY <1>2, <1>3, <1>4
  <1> QED BY <1>1, <1>5, Zenon DEF Range

LEMMA PlacedUnique ==
  ASSUME NEW keys \in Seq(Int), NEW key \in Int,
         NEW m \in 0 .. Len(keys), NEW n \in 0 .. Len(keys), NEW a, NEW b,
         Placed(a, keys, key, m), Placed(b, keys, key, n)
  PROVE  a = b
  <1>1. m = n
    <2>1. ASSUME m < n PROVE FALSE
      <3>1. m + 2 \in m + 2 .. Len(keys) + 1 /\ m + 2 - 1 = m + 1 /\ m + 1 \in 1 .. n
        BY <2>1
      <3>4. key < keys[m + 2 - 1]
        BY <3>1 DEF Placed
      <3>5. keys[m + 1] < key
        BY <3>1 DEF Placed
      <3>2. key < keys[m + 1] /\ keys[m + 1] < key
        BY <3>1, <3>4, <3>5
      <3>3. keys[m + 1] \in Int
        BY <3>1
      <3> QED BY <3>2, <3>3
    <2>2. ASSUME n < m PROVE FALSE
      <3>1. n + 2 \in n + 2 .. Len(keys) + 1 /\ n + 2 - 1 = n + 1 /\ n + 1 \in 1 .. m
        BY <2>2
      <3>4. key < keys[n + 2 - 1]
        BY <3>1 DEF Placed
      <3>5. keys[n + 1] < key
        BY <3>1 DEF Placed
      <3>2. key < keys[n + 1] /\ keys[n + 1] < key
        BY <3>1, <3>4, <3>5
      <3>3. keys[n + 1] \in Int
        BY <3>1
      <3> QED BY <3>2, <3>3
    <2> QED BY <2>1, <2>2
  <1>2. a \in Seq(Int) /\ b \in Seq(Int) /\ Len(a) = Len(keys) + 1 /\ Len(b) = Len(keys) + 1
    BY DEF Placed
  <1>3. ASSUME NEW j \in 1 .. Len(keys) + 1 PROVE a[j] = b[j]
    <2>1. CASE j <= m
      <3>1. j \in 1 .. m
        BY <2>1
      <3> QED BY <1>1, <3>1 DEF Placed
    <2>2. CASE j = m + 1
      BY <1>1, <2>2 DEF Placed
    <2>3. CASE j > m + 1
      <3>1. j \in m + 2 .. Len(keys) + 1
        BY <2>3
      <3> QED BY <1>1, <3>1 DEF Placed
    <2> QED BY <2>1, <2>2, <2>3
  <1> QED BY <1>2, <1>3

\* A key that goes behind the pairs of s goes into t.
Behind(s, key) == \A i \in 1 .. Len(s) : s[i] < key

LEMMA PartsOfConcat ==
  ASSUME NEW s \in Seq(Int), NEW t \in Seq(Int), NEW key \in Int
  PROVE  /\ s \o t \in Seq(Int) /\ Len(s \o t) = Len(s) + Len(t)
         /\ Len(s) \in Nat /\ Len(t) \in Nat
         /\ \A j \in 1 .. Len(s) : (s \o t)[j] = s[j]
         /\ \A j \in 1 .. Len(t) : (s \o t)[Len(s) + j] = t[j]
         /\ \A j \in Len(s) + 1 .. Len(s) + Len(t) : (s \o t)[j] = t[j - Len(s)]
         /\ Sorted(s \o t) => Sorted(t)
         /\ ~Holds(s \o t, key) => ~Holds(t, key)
  <1> DEFINE all == s \o t
  <1>1. all \in Seq(Int) /\ Len(all) = Len(s) + Len(t)
    OBVIOUS
  <1>2. \A j \in 1 .. Len(s) : all[j] = s[j]
    OBVIOUS
  <1>3. \A j \in 1 .. Len(t) : all[Len(s) + j] = t[j]
    OBVIOUS
  <1>4. \A j \in Len(s) + 1 .. Len(s) + Len(t) : all[j] = t[j - Len(s)]
    OBVIOUS
  <1>5. Len(s) \in Nat /\ Len(t) \in Nat
    OBVIOUS
  <1> HIDE DEF all
  <1>6. ASSUME Sorted(all) PROVE Sorted(t)
    <2> SUFFICES ASSUME NEW i \in 1 .. Len(t), NEW j \in 1 .. Len(t), i < j
                 PROVE  t[i] < t[j]
      <3>1. DOMAIN t = 1 .. Len(t)
        OBVIOUS
      <3> QED BY <3>1 DEF Sorted
    <2>1. Len(s) + i \in DOMAIN all /\ Len(s) + j \in DOMAIN all /\ Len(s) + i < Len(s) + j
      BY <1>1, <1>5
    <2>2. all[Len(s) + i] < all[Len(s) + j]
      BY <1>6, <2>1 DEF Sorted
    <2> QED BY <1>3, <2>2
  <1>7. ASSUME Holds(t, key) PROVE Holds(all, key)
    <2>1. PICK i \in 1 .. Len(t) : t[i] = key
      BY <1>7 DEF Holds
    <2>2. Len(s) + i \in DOMAIN all /\ all[Len(s) + i] = key
      <3>1. Len(s) + i \in 1 .. Len(s) + Len(t)
        BY <1>5, <2>1
      <3> QED BY <1>1, <1>3, <2>1, <3>1
    <2> QED BY <2>2 DEF Holds
  <1>8. /\ all \in Seq(Int) /\ Len(all) = Len(s) + Len(t)
        /\ \A j \in 1 .. Len(s) : all[j] = s[j]
        /\ \A j \in 1 .. Len(t) : all[Len(s) + j] = t[j]
        /\ \A j \in Len(s) + 1 .. Len(s) + Len(t) : all[j] = t[j - Len(s)]
        /\ Sorted(all) => Sorted(t)
        /\ ~Holds(all, key) => ~Holds(t, key)
    BY <1>1, <1>2, <1>3, <1>4, <1>6, <1>7
  <1> QED BY <1>8 DEF all

LEMMA InsertKeyBehind ==
  ASSUME NEW s \in Seq(Int), NEW t \in Seq(Int), NEW key \in Int,
         Sorted(s \o t), ~Holds(s \o t, key), Behind(s, key)
  PROVE  InsertKey(s \o t, key) = s \o InsertKey(t, key)
  <1> DEFINE keys == s \o t
             m == SlotOf(t, key)
             n == Len(s) + m
             more == InsertKey(t, key)
             all == s \o more
  <1>1. /\ keys \in Seq(Int) /\ Len(keys) = Len(s) + Len(t)
        /\ Len(s) \in Nat /\ Len(t) \in Nat
        /\ \A j \in 1 .. Len(s) : keys[j] = s[j]
        /\ \A j \in 1 .. Len(t) : keys[Len(s) + j] = t[j]
        /\ \A j \in Len(s) + 1 .. Len(s) + Len(t) : keys[j] = t[j - Len(s)]
        /\ Sorted(t) /\ ~Holds(t, key)
    BY PartsOfConcat
  <1>2. m \in 0 .. Len(t) /\ Placed(more, t, key, m)
    BY <1>1, InsertKeyPlaces
  <1>3. SlotOf(keys, key) \in 0 .. Len(keys) /\ Placed(InsertKey(keys, key), keys, key, SlotOf(keys, key))
    BY <1>1, InsertKeyPlaces
  <1> HIDE DEF m, more
  <1>4. more \in Seq(Int) /\ Len(more) = Len(t) + 1
    BY <1>2 DEF Placed
  <1>5. /\ all \in Seq(Int) /\ Len(all) = Len(s) + Len(more)
        /\ \A j \in 1 .. Len(s) : all[j] = s[j]
        /\ \A j \in 1 .. Len(more) : all[Len(s) + j] = more[j]
        /\ \A j \in Len(s) + 1 .. Len(s) + Len(more) : all[j] = more[j - Len(s)]
    BY <1>4, PartsOfConcat
  <1> HIDE DEF keys, all
  <1>6. n \in 0 .. Len(keys)
    BY <1>1, <1>2
  <1>7. Placed(all, keys, key, n)
    <2>1. Len(all) = Len(keys) + 1
      BY <1>1, <1>4, <1>5
    <2>2. ASSUME NEW j \in 1 .. n PROVE all[j] = keys[j] /\ keys[j] < key
      <3>1. CASE j <= Len(s)
        <4>1. j \in 1 .. Len(s)
          BY <3>1
        <4> QED BY <1>1, <1>5, <4>1 DEF Behind
      <3>2. CASE j > Len(s)
        <4>1. /\ j \in Len(s) + 1 .. Len(s) + Len(t) /\ j \in Len(s) + 1 .. Len(s) + Len(more)
              /\ j - Len(s) \in 1 .. m
          <5> DEFINE a == Len(s)
                     b == Len(t)
          <5>1. /\ a \in Nat /\ b \in Nat /\ m \in 0 .. b /\ Len(more) = b + 1
                /\ j \in 1 .. a + m /\ j > a
            BY <1>1, <1>2, <1>4, <3>2
          <5> HIDE DEF a, b
          <5>2. j \in a + 1 .. a + b /\ j \in a + 1 .. a + (b + 1) /\ j - a \in 1 .. m
            BY <5>1
          <5> QED BY <5>1, <5>2 DEF a, b
        <4>2. all[j] = more[j - Len(s)] /\ keys[j] = t[j - Len(s)]
          BY <1>1, <1>5, <4>1
        <4> QED BY <1>2, <4>1, <4>2 DEF Placed
      <3> QED BY <1>1, <1>2, <3>1, <3>2
    <2>3. all[n + 1] = key
      <3>1. n + 1 = Len(s) + (m + 1) /\ m + 1 \in 1 .. Len(more)
        BY <1>1, <1>2, <1>4
      <3>2. all[n + 1] = more[m + 1]
        BY <1>5, <3>1
      <3> QED BY <1>2, <3>2 DEF Placed
    <2>4. ASSUME NEW j \in n + 2 .. Len(keys) + 1
          PROVE  all[j] = keys[j - 1] /\ key < keys[j - 1]
      <3>1. /\ j \in Len(s) + 1 .. Len(s) + Len(more)
            /\ j - 1 \in Len(s) + 1 .. Len(s) + Len(t)
            /\ j - Len(s) \in m + 2 .. Len(t) + 1
            /\ j - 1 - Len(s) = j - Len(s) - 1
        <4>1. m \in Nat /\ m <= Len(t) /\ j \in Int /\ j >= n + 2 /\ j <= Len(s) + Len(t) + 1
          BY <1>1, <1>2
        <4>2. Len(more) = Len(t) + 1 /\ Len(s) \in Nat /\ Len(t) \in Nat
          BY <1>1, <1>4
        <4> QED BY <4>1, <4>2
      <3>2. all[j] = more[j - Len(s)] /\ keys[j - 1] = t[j - Len(s) - 1]
        BY <1>1, <1>5, <3>1
      <3> QED BY <1>2, <3>1, <3>2 DEF Placed
    <2> QED BY <1>5, <2>1, <2>2, <2>3, <2>4 DEF Placed
  <1>8. InsertKey(keys, key) = all
    BY <1>1, <1>3, <1>6, <1>7, PlacedUnique
  <1> QED BY <1>8 DEF keys, all, more

\* A key that goes before the pairs of t goes behind s.
LEMMA InsertKeyBetween ==
  ASSUME NEW s \in Seq(Int), NEW t \in Seq(Int), NEW key \in Int,
         Sorted(s \o t), ~Holds(s \o t, key), Behind(s, key),
         t # <<>>, Head(t) >= key
  PROVE  InsertKey(s \o t, key) = Append(s, key) \o t
  <1> DEFINE keys == s \o t
             n == Len(s)
             more == Append(s, key)
             all == more \o t
  <1>1. /\ keys \in Seq(Int) /\ Len(keys) = Len(s) + Len(t)
        /\ Len(s) \in Nat /\ Len(t) \in Nat
        /\ \A j \in 1 .. Len(s) : keys[j] = s[j]
        /\ \A j \in 1 .. Len(t) : keys[Len(s) + j] = t[j]
        /\ \A j \in Len(s) + 1 .. Len(s) + Len(t) : keys[j] = t[j - Len(s)]
        /\ Sorted(t) /\ ~Holds(t, key)
    BY PartsOfConcat
  <1>3. SlotOf(keys, key) \in 0 .. Len(keys) /\ Placed(InsertKey(keys, key), keys, key, SlotOf(keys, key))
    BY <1>1, InsertKeyPlaces
  <1>4. /\ more \in Seq(Int) /\ Len(more) = Len(s) + 1
        /\ \A j \in 1 .. Len(s) : more[j] = s[j]
        /\ more[Len(s) + 1] = key
    BY AppendProperties
  <1>2. \A j \in 1 .. Len(t) : key < t[j]
    <2> TAKE j \in 1 .. Len(t)
    <2>1. Head(t) = t[1] /\ 1 \in 1 .. Len(t) /\ t[1] \in Int
      OBVIOUS
    <2>2. t[1] # key
      BY <1>1, <2>1 DEF Holds
    <2>3. key < t[1]
      BY <2>1, <2>2
    <2>4. CASE j = 1
      BY <2>3, <2>4
    <2>5. CASE j > 1
      <3>1. t[1] < t[j] /\ t[j] \in Int
        BY <1>1, <2>5 DEF Sorted
      <3> QED BY <2>1, <2>3, <3>1
    <2> QED BY <2>4, <2>5
  <1> HIDE DEF more
  <1>5. /\ all \in Seq(Int) /\ Len(all) = Len(more) + Len(t)
        /\ \A j \in 1 .. Len(more) : all[j] = more[j]
        /\ \A j \in Len(more) + 1 .. Len(more) + Len(t) : all[j] = t[j - Len(more)]
    BY <1>4, PartsOfConcat
  <1> HIDE DEF keys, all
  <1>6. n \in 0 .. Len(keys)
    BY <1>1
  <1>7. Placed(all, keys, key, n)
    <2>1. Len(all) = Len(keys) + 1
      BY <1>1, <1>4, <1>5
    <2>2. ASSUME NEW j \in 1 .. n PROVE all[j] = keys[j] /\ keys[j] < key
      <3>1. j \in 1 .. Len(more)
        BY <1>1, <1>4
      <3> QED BY <1>1, <1>4, <1>5, <3>1 DEF Behind
    <2>3. all[n + 1] = key
      <3>1. n + 1 \in 1 .. Len(more)
        BY <1>1, <1>4
      <3> QED BY <1>4, <1>5, <3>1
    <2>4. ASSUME NEW j \in n + 2 .. Len(keys) + 1
          PROVE  all[j] = keys[j - 1] /\ key < keys[j - 1]
      <3>1. /\ j \in Len(more) + 1 .. Len(more) + Len(t)
            /\ j - 1 \in Len(s) + 1 .. Len(s) + Len(t)
            /\ j - 1 - Len(s) = j - Len(more)
            /\ j - Len(more) \in 1 .. Len(t)
        BY <1>1, <1>4
      <3>2. all[j] = t[j - Len(more)] /\ keys[j - 1] = t[j - Len(more)]
        BY <1>1, <1>5, <3>1
      <3> QED BY <1>2, <3>1, <3>2
    <2> QED BY <1>5, <2>1, <2>2, <2>3, <2>4 DEF Placed
  <1>8. InsertKey(keys, key) = all
    BY <1>1, <1>3, <1>6, <1>7, PlacedUnique
  <1> QED BY <1>8 DEF keys, all, more

-----------------------------------------------------------------------------
(* Where a split cuts.                                                    *)

\* No pair and its pointer take more than half of the page (max_pair_size).
ShortPairs(size, K, capacity) ==
  \A k \in K : size[k] \in Nat /\ 2 * (PointerSize + size[k]) <= capacity

LEMMA ShortPairsSized ==
  ASSUME NEW K, NEW size, NEW capacity, ShortPairs(size, K, capacity)
  PROVE  Sized(size, K)
  BY DEF ShortPairs, Sized

LEMMA HalfFullUses ==
  ASSUME NEW K, NEW keys \in Seq(K), NEW size, Sized(size, K), NEW capacity \in Nat
  PROVE  HalfFull(keys, size, capacity) <=> 2 * Used(keys, size) > capacity
  <1> DEFINE used == Used(keys, size)
  <1>1. used \in Nat
    BY UsedType
  <1>2. HalfFull(keys, size, capacity) <=> 2 * (capacity - used) < capacity
    BY DEF HalfFull, FreeSpace
  <1> HIDE DEF used
  <1>3. 2 * (capacity - used) < capacity <=> 2 * used > capacity
    BY <1>1
  <1> QED BY <1>2, <1>3 DEF used

\* Where split_insert stops: the first front of all that is half full.
Cut(n, all, size, capacity) ==
  /\ n \in 1 .. Len(all)
  /\ HalfFull(SubSeq(all, 1, n), size, capacity)
  /\ ~HalfFull(SubSeq(all, 1, n - 1), size, capacity)

LEMMA FrontsGrow ==
  ASSUME NEW K, NEW all \in Seq(K), NEW size, Sized(size, K),
         NEW m \in 0 .. Len(all), NEW n \in 0 .. Len(all), m <= n
  PROVE  Used(SubSeq(all, 1, m), size) <= Used(SubSeq(all, 1, n), size)
  <1>1. PICK f : FrontsUse(f, all, size)
    BY UsedOfFronts
  <1> DEFINE T == {i \in Nat : m + i <= Len(all) => f[m] <= f[m + i]}
  <1>2. 0 \in T
    BY <1>1 DEF FrontsUse
  <1>3. ASSUME NEW i \in Nat, i \in T PROVE i + 1 \in T
    <2> SUFFICES ASSUME m + (i + 1) <= Len(all) PROVE f[m] <= f[m + (i + 1)]
      OBVIOUS
    <2> DEFINE before == f[m + i]
               after  == f[m + (i + 1)]
               start  == f[m]
               pair   == size[all[m + (i + 1)]]
    <2>1. m + i \in 0 .. Len(all) /\ m + (i + 1) \in 1 .. Len(all) /\ m + (i + 1) - 1 = m + i
      OBVIOUS
    <2>2. start <= before
      BY <1>3, <2>1
    <2>3. after = before + PointerSize + pair
      BY <1>1, <2>1 DEF FrontsUse
    <2>4. before \in Nat /\ start \in Nat
      BY <1>1, <2>1 DEF FrontsUse
    <2>5. pair \in Nat
      <3>1. all[m + (i + 1)] \in K
        BY <2>1
      <3> QED BY <3>1 DEF Sized
    <2> HIDE DEF before, after, start, pair
    <2>6. start <= after
      BY <2>2, <2>3, <2>4, <2>5 DEF PointerSize
    <2> QED BY <2>6 DEF start, after
  <1>4. Nat \subseteq T
    <2> HIDE DEF T
    <2> QED BY <1>2, <1>3, SetInduction
  <1>5. n - m \in Nat /\ m + (n - m) = n
    OBVIOUS
  <1>6. f[m] <= f[n]
    <2>1. n - m \in T
      <3> HIDE DEF T
      <3> QED BY <1>4, <1>5
    <2> QED BY <1>5, <2>1
  <1>7. Used(SubSeq(all, 1, m), size) = f[m] /\ Used(SubSeq(all, 1, n), size) = f[n]
    BY <1>1 DEF FrontsUse
  <1> QED BY <1>6, <1>7

LEMMA FrontInSeq ==
  ASSUME NEW K, NEW all \in Seq(K), NEW n \in 0 .. Len(all)
  PROVE  /\ SubSeq(all, 1, n) \in Seq(K) /\ Len(SubSeq(all, 1, n)) = n
         /\ SubSeq(all, n + 1, Len(all)) \in Seq(K)
         /\ Len(SubSeq(all, n + 1, Len(all))) = Len(all) - n
         /\ \A j \in 1 .. n : SubSeq(all, 1, n)[j] = all[j]
         /\ \A j \in 1 .. Len(all) - n : SubSeq(all, n + 1, Len(all))[j] = all[n + j]
         /\ all = SubSeq(all, 1, n) \o SubSeq(all, n + 1, Len(all))
  <1>1. SubSeq(all, 1, n) \in Seq(K) /\ Len(SubSeq(all, 1, n)) = n
    OBVIOUS
  <1>2. /\ SubSeq(all, n + 1, Len(all)) \in Seq(K)
        /\ Len(SubSeq(all, n + 1, Len(all))) = Len(all) - n
    OBVIOUS
  <1>3. \A j \in 1 .. n : SubSeq(all, 1, n)[j] = all[j]
    OBVIOUS
  <1>4. \A j \in 1 .. Len(all) - n : SubSeq(all, n + 1, Len(all))[j] = all[n + j]
    OBVIOUS
  <1>5. all = SubSeq(all, 1, n) \o SubSeq(all, n + 1, Len(all))
    <2>1. /\ n \in (1 - 1) .. Len(all)
          /\ 1 \in 1 .. Len(all) + 1 /\ Len(all) \in n .. Len(all)
      OBVIOUS
    <2>2. SubSeq(all, 1, n) \o SubSeq(all, n + 1, Len(all)) = SubSeq(all, 1, Len(all))
      BY ONLY <2>1, ConcatAdjacentSubSeq, all \in Seq(K)
    <2> QED BY <2>2, WholeFront
  <1> QED BY <1>1, <1>2, <1>3, <1>4, <1>5

LEMMA CutUnique ==
  ASSUME NEW K, NEW all \in Seq(K), NEW size, Sized(size, K), NEW capacity \in Nat,
         NEW m, NEW n, Cut(m, all, size, capacity), Cut(n, all, size, capacity)
  PROVE  m = n
  <1>1. m \in 1 .. Len(all) /\ n \in 1 .. Len(all)
    BY DEF Cut
  <1>2. ASSUME NEW i \in 1 .. Len(all), NEW j \in 1 .. Len(all), i < j,
               Cut(i, all, size, capacity), Cut(j, all, size, capacity)
        PROVE  FALSE
    <2> DEFINE short == SubSeq(all, 1, i)
               long  == SubSeq(all, 1, j - 1)
    <2>1. i \in 0 .. Len(all) /\ j - 1 \in 0 .. Len(all) /\ i <= j - 1
      BY <1>2
    <2>2. short \in Seq(K) /\ long \in Seq(K)
      BY <2>1, FrontInSeq
    <2>3. Used(short, size) <= Used(long, size)
      BY <2>1, FrontsGrow
    <2>4. HalfFull(short, size, capacity) /\ ~HalfFull(long, size, capacity)
      BY <1>2 DEF Cut
    <2> HIDE DEF short, long
    <2> DEFINE usedShort == Used(short, size)
               usedLong  == Used(long, size)
    <2>5. usedShort \in Nat /\ usedLong \in Nat
      BY <2>2, UsedType
    <2>6. 2 * usedShort > capacity /\ ~(2 * usedLong > capacity)
      BY <2>2, <2>4, HalfFullUses
    <2>7. usedShort <= usedLong
      BY <2>3
    <2> HIDE DEF usedShort, usedLong
    <2> QED BY <2>5, <2>6, <2>7
  <1>3. ~(m < n) /\ ~(n < m)
    BY <1>1, <1>2
  <1> QED BY <1>1, <1>3

LEMMA SplitPointIsCut ==
  ASSUME NEW K, NEW keys, NEW key, InsertKey(keys, key) \in Seq(K),
         NEW size, Sized(size, K), NEW capacity \in Nat,
         NEW n, Cut(n, InsertKey(keys, key), size, capacity)
  PROVE  SplitPoint(keys, key, size, capacity) = n
  <1> DEFINE all == InsertKey(keys, key)
             cut == CHOOSE i \in 1 .. Len(all) :
                       /\ HalfFull(SubSeq(all, 1, i), size, capacity)
                       /\ ~HalfFull(SubSeq(all, 1, i - 1), size, capacity)
  <1>1. SplitPoint(keys, key, size, capacity) = cut
    BY DEF SplitPoint
  <1> HIDE DEF all
  <1>2. Cut(cut, all, size, capacity)
    BY DEF Cut, all
  <1> HIDE DEF cut
  <1>3. cut = n
    BY <1>2, CutUnique DEF all
  <1> QED BY <1>1, <1>3

LEMMA CutExists ==
  ASSUME NEW K, NEW all \in Seq(K), NEW size, Sized(size, K), NEW capacity \in Nat,
         Used(all, size) > capacity
  PROVE  \E n : Cut(n, all, size, capacity)
  <1> SUFFICES ASSUME \A n : ~Cut(n, all, size, capacity) PROVE FALSE
    OBVIOUS
  <1> DEFINE Full(i) == HalfFull(SubSeq(all, 1, i), size, capacity)
             T == {i \in Nat : i <= Len(all) => ~Full(i)}
  <1>1. 0 \in T
    <2> DEFINE none == SubSeq(all, 1, 0)
    <2>1. none = <<>> /\ none \in Seq(K)
      OBVIOUS
    <2>2. Used(none, size) = 0
      BY <2>1, UsedEmpty
    <2> HIDE DEF none
    <2>3. HalfFull(none, size, capacity) <=> 2 * Used(none, size) > capacity
      BY <2>1, HalfFullUses
    <2>4. ~(2 * Used(none, size) > capacity)
      BY <2>2
    <2> QED BY <2>3, <2>4 DEF none
  <1>2. ASSUME NEW i \in Nat, i \in T PROVE i + 1 \in T
    <2> SUFFICES ASSUME i + 1 <= Len(all), Full(i + 1) PROVE FALSE
      OBVIOUS
    <2>1. i + 1 \in 1 .. Len(all) /\ i + 1 - 1 = i /\ ~Full(i)
      BY <1>2
    <2>2. Cut(i + 1, all, size, capacity)
      BY <2>1 DEF Cut
    <2> QED BY <2>2
  <1>3. Nat \subseteq T
    <2> HIDE DEF T
    <2> QED BY <1>1, <1>2, SetInduction
  <1>4. ~Full(Len(all))
    <2>1. Len(all) \in T
      <3> HIDE DEF T
      <3> QED BY <1>3
    <2> HIDE DEF Full
    <2> QED BY <2>1
  <1>5. ~HalfFull(all, size, capacity)
    BY <1>4, WholeFront
  <1>6. ~(2 * Used(all, size) > capacity)
    BY <1>5, HalfFullUses
  <1> DEFINE used == Used(all, size)
  <1>7. used \in Nat /\ used > capacity /\ ~(2 * used > capacity)
    BY <1>6, UsedType
  <1> HIDE DEF used
  <1> QED BY <1>7

\* A cut leaves pairs on both sides, two of them in the new node, and neither
\* side is too long.
LEMMA CutFits ==
  ASSUME NEW K, NEW all \in Seq(K), NEW size, NEW capacity \in Nat,
         ShortPairs(size, K, capacity),
         Used(all, size) > capacity, 2 * Used(all, size) <= 3 * capacity,
         NEW n, Cut(n, all, size, capacity)
  PROVE  /\ n >= 2 /\ n < Len(all)
         /\ Used(Lower(all, n), size) <= capacity
         /\ Used(Upper(all, n), size) <= capacity
  <1> DEFINE lower == SubSeq(all, 1, n)
             upper == SubSeq(all, n + 1, Len(all))
             less  == SubSeq(all, 1, n - 1)
             usedAll   == Used(all, size)
             usedLower == Used(lower, size)
             usedUpper == Used(upper, size)
             usedLess  == Used(less, size)
             pair == size[all[n]]
  <1>1. n \in 1 .. Len(all) /\ n \in 0 .. Len(all) /\ n - 1 \in 0 .. Len(all) /\ n - 1 + 1 = n
    BY DEF Cut
  <1>2. Sized(size, K)
    BY ShortPairsSized
  <1>3. /\ lower \in Seq(K) /\ upper \in Seq(K) /\ less \in Seq(K)
        /\ Len(upper) = Len(all) - n /\ Len(less) = n - 1
        /\ all = lower \o upper
    BY <1>1, FrontInSeq
  <1>4. PICK f : FrontsUse(f, all, size)
    BY <1>2, UsedOfFronts
  <1>5. usedLower = usedLess + PointerSize + pair
    <2>1. f[n] = f[n - 1] + PointerSize + size[all[n]]
      BY <1>1, <1>4 DEF FrontsUse
    <2>2. usedLower = f[n] /\ usedLess = f[n - 1]
      BY <1>1, <1>4 DEF FrontsUse
    <2> QED BY <2>1, <2>2
  <1>6. 2 * usedLower > capacity /\ ~(2 * usedLess > capacity)
    <2>1. HalfFull(lower, size, capacity) /\ ~HalfFull(less, size, capacity)
      BY DEF Cut
    <2> HIDE DEF lower, less
    <2> QED BY <1>2, <1>3, <2>1, HalfFullUses
  <1>7. pair \in Nat /\ 2 * (PointerSize + pair) <= capacity
    <2>1. all[n] \in K
      BY <1>1
    <2> QED BY <2>1 DEF ShortPairs
  <1>8. usedAll = usedLower + usedUpper
    <2> HIDE DEF lower, upper
    <2> QED BY <1>2, <1>3, UsedConcat
  <1>9. usedAll \in Nat /\ usedLower \in Nat /\ usedUpper \in Nat /\ usedLess \in Nat
    <2> HIDE DEF lower, upper, less
    <2> QED BY <1>2, <1>3, UsedType
  <1>10. usedAll > capacity /\ 2 * usedAll <= 3 * capacity
    OBVIOUS
  <1>11. n = 1 => usedLess = 0
    <2> SUFFICES ASSUME n = 1 PROVE usedLess = 0
      OBVIOUS
    <2>1. less = <<>>
      BY <1>3
    <2> QED BY <1>2, <2>1, UsedEmpty
  <1>12. n = Len(all) => usedUpper = 0
    <2> SUFFICES ASSUME n = Len(all) PROVE usedUpper = 0
      OBVIOUS
    <2>1. upper = <<>>
      BY <1>3
    <2> QED BY <1>2, <2>1, UsedEmpty
  <1> HIDE DEF usedAll, usedLower, usedUpper, usedLess, pair
  <1>13. usedLess # 0 /\ usedUpper # 0
    BY <1>5, <1>6, <1>7, <1>8, <1>9, <1>10 DEF PointerSize
  <1>14. usedLower <= capacity /\ usedUpper <= capacity
    BY <1>5, <1>6, <1>7, <1>8, <1>9, <1>10 DEF PointerSize
  <1>15. n >= 2 /\ n < Len(all)
    BY <1>1, <1>11, <1>12, <1>13
  <1> QED BY <1>14, <1>15 DEF usedLower, usedUpper, Lower, Upper

-----------------------------------------------------------------------------
(* Which keys a search takes to which child of a branch.                   *)

\* Key k belongs to the i-th child between these keys.
Between(keys, i, k) ==
    (i > 1 => keys[i - 1] <= k) /\ (i <= Len(keys) => k < keys[i])

Segment(keys, i, C) == {k \in C : Between(keys, i, k)}

LEMMA SortedPairs ==
  ASSUME NEW keys \in Seq(Int), Sorted(keys),
         NEW i \in 1 .. Len(keys), NEW j \in 1 .. Len(keys)
  PROVE  /\ keys[i] \in Int /\ keys[j] \in Int
         /\ i < j => keys[i] < keys[j]
         /\ i <= j => keys[i] <= keys[j]
  <1>1. keys[i] \in Int /\ keys[j] \in Int
    OBVIOUS
  <1>2. i < j => keys[i] < keys[j]
    BY DEF Sorted
  <1>3. i <= j => i < j \/ i = j
    OBVIOUS
  <1> QED BY <1>1, <1>2, <1>3

\* It belongs to one child only.
LEMMA BetweenUnique ==
  ASSUME NEW keys \in Seq(Int), Sorted(keys), NEW k \in Int,
         NEW i \in 1 .. Len(keys) + 1, NEW j \in 1 .. Len(keys) + 1,
         Between(keys, i, k), Between(keys, j, k)
  PROVE  i = j
  <1>1. ASSUME NEW a \in 1 .. Len(keys) + 1, NEW b \in 1 .. Len(keys) + 1, a < b,
               Between(keys, a, k), Between(keys, b, k)
        PROVE  FALSE
    <2>1. a \in 1 .. Len(keys) /\ b - 1 \in 1 .. Len(keys) /\ a <= b - 1 /\ b > 1
      BY <1>1
    <2>2. k < keys[a] /\ keys[b - 1] <= k
      BY <1>1, <2>1 DEF Between
    <2>3. keys[a] <= keys[b - 1] /\ keys[a] \in Int /\ keys[b - 1] \in Int
      BY <2>1, SortedPairs
    <2> QED BY <2>2, <2>3
  <1>2. ~(i < j) /\ ~(j < i)
    BY <1>1
  <1> QED BY <1>2

\* A search goes to the child that the key belongs to.
LEMMA SearchFinds ==
  ASSUME NEW n, n.keys \in Seq(Int), Sorted(n.keys), NEW k \in Int
  PROVE  /\ SearchChildIdx(n, k) \in 0 .. Len(n.keys)
         /\ Between(n.keys, SearchChildIdx(n, k) + 1, k)
  <1> DEFINE keys == n.keys
             m    == SlotOf(keys, k)
             idx  == SearchChildIdx(n, k)
  <1>1. m \in 0 .. Len(keys) /\ Splits(m, keys, Len(keys), k) /\ Len(keys) \in Nat
    BY SlotOfSplits
  <1>2. CASE Holds(keys, k)
    <2>1. idx = m + 1
      BY <1>2 DEF SearchChildIdx
    <2>2. PICK j \in 1 .. Len(keys) : keys[j] = k
      BY <1>2 DEF Holds
    <2> HIDE DEF m, idx, keys
    <2>3. ~(j <= m)
      BY <1>1, <2>2 DEF Splits
    <2>4. m + 1 \in 1 .. Len(keys)
      BY <1>1, <2>3
    <2>5. ~(m + 1 < j)
      <3> SUFFICES ASSUME m + 1 < j PROVE FALSE
        OBVIOUS
      <3>1. keys[m + 1] < keys[j]
        BY <2>4, SortedPairs DEF keys
      <3>2. m + 1 <= m
        BY <1>1, <2>2, <2>4, <3>1 DEF Splits
      <3> QED BY <1>1, <3>2
    <2>6. j = m + 1
      BY <1>1, <2>3, <2>5
    <2>7. keys[m + 1] = k
      BY <2>2, <2>6
    <2>8. m + 2 <= Len(keys) => k < keys[m + 2]
      <3> SUFFICES ASSUME m + 2 <= Len(keys) PROVE k < keys[m + 2]
        OBVIOUS
      <3>1. m + 2 \in 1 .. Len(keys) /\ m + 1 < m + 2
        BY <1>1
      <3>2. keys \in Seq(Int) /\ Sorted(keys)
        BY DEF keys
      <3>3. keys[m + 1] < keys[m + 2]
        BY <2>4, <3>1, <3>2, SortedPairs
      <3> QED BY <2>7, <3>3
    <2>9. idx + 1 = m + 2 /\ idx + 1 - 1 = m + 1 /\ idx \in 0 .. Len(keys)
      BY <1>1, <2>1, <2>4
    <2>10. Between(keys, idx + 1, k)
      BY <2>2, <2>7, <2>8, <2>9 DEF Between
    <2> QED BY <2>9, <2>10 DEF keys, idx
  <1>3. CASE ~Holds(keys, k)
    <2>1. idx = m
      BY <1>1, <1>3 DEF SearchChildIdx
    <2> HIDE DEF m, idx
    <2>2. m + 1 > 1 => keys[m] <= k
      <3> SUFFICES ASSUME m + 1 > 1 PROVE keys[m] <= k
        OBVIOUS
      <3>1. m \in 1 .. Len(keys) /\ m <= m
        BY <1>1
      <3>2. keys[m] < k /\ keys[m] \in Int
        BY <1>1, <3>1 DEF Splits
      <3> QED BY <3>2
    <2>3. m + 1 <= Len(keys) => k < keys[m + 1]
      <3> SUFFICES ASSUME m + 1 <= Len(keys) PROVE k < keys[m + 1]
        OBVIOUS
      <3>1. m + 1 \in 1 .. Len(keys) /\ ~(m + 1 <= m)
        BY <1>1
      <3>2. ~(keys[m + 1] < k) /\ keys[m + 1] \in Int
        BY <1>1, <3>1 DEF Splits
      <3>3. keys[m + 1] # k
        BY <1>3, <3>1 DEF Holds
      <3> QED BY <3>2, <3>3
    <2>4. m + 1 - 1 = m
      BY <1>1
    <2> QED BY <1>1, <2>1, <2>2, <2>3, <2>4 DEF Between, idx
  <1> QED BY <1>2, <1>3

\* A key put into slot i - 1 between its neighbours, low having been there.
LEMMA SegmentSplit ==
  ASSUME NEW keys \in Seq(Int), Sorted(keys), NEW i \in 1 .. Len(keys) + 1,
         NEW sep \in Int, NEW low \in Int, low < sep,
         Between(keys, i, sep), Between(keys, i, low)
  PROVE  /\ Sorted(InsertAt(keys, i, sep))
         /\ Len(InsertAt(keys, i, sep)) = Len(keys) + 1
         /\ \A k \in Int :
               /\ Between(InsertAt(keys, i, sep), i, k)
                     <=> Between(keys, i, k) /\ k < sep
               /\ Between(InsertAt(keys, i, sep), i + 1, k)
                     <=> Between(keys, i, k) /\ sep <= k
               /\ \A j \in 1 .. i - 1 :
                     Between(InsertAt(keys, i, sep), j, k) <=> Between(keys, j, k)
               /\ \A j \in i + 1 .. Len(keys) + 1 :
                     Between(InsertAt(keys, i, sep), j + 1, k) <=> Between(keys, j, k)
  <1> DEFINE all == InsertAt(keys, i, sep)
             len == Len(keys)
  <1>1. all \in Seq(Int) /\ Inserted(all, keys, i, sep)
    BY InsertAtElements
  <1>2. len \in Nat
    OBVIOUS
  <1> HIDE DEF all
  <1>3. i > 1 => keys[i - 1] \in Int /\ keys[i - 1] < sep
    <2> SUFFICES ASSUME i > 1 PROVE keys[i - 1] \in Int /\ keys[i - 1] < sep
      OBVIOUS
    <2>1. i - 1 \in 1 .. len
      OBVIOUS
    <2>2. keys[i - 1] \in Int /\ keys[i - 1] <= low
      BY <2>1 DEF Between
    <2> QED BY <2>2
  <1>4. i <= len => keys[i] \in Int /\ sep < keys[i]
    <2> SUFFICES ASSUME i <= len PROVE keys[i] \in Int /\ sep < keys[i]
      OBVIOUS
    <2>1. i \in 1 .. len
      OBVIOUS
    <2> QED BY <2>1 DEF Between
  <1>5. Placed(all, keys, sep, i - 1)
    <2>1. Len(all) = Len(keys) + 1 /\ all[i - 1 + 1] = sep
      BY <1>1 DEF Inserted
    <2>2. \A j \in 1 .. i - 1 : all[j] = keys[j] /\ keys[j] < sep
      <3> TAKE j \in 1 .. i - 1
      <3>1. all[j] = keys[j]
        BY <1>1 DEF Inserted
      <3>2. j \in 1 .. len /\ i - 1 \in 1 .. len /\ j <= i - 1 /\ i > 1
        OBVIOUS
      <3>3. keys[j] <= keys[i - 1] /\ keys[j] \in Int
        BY <3>2, SortedPairs
      <3> QED BY <1>3, <3>1, <3>2, <3>3
    <2>3. \A j \in i - 1 + 2 .. Len(keys) + 1 : all[j] = keys[j - 1] /\ sep < keys[j - 1]
      <3> TAKE j \in i - 1 + 2 .. Len(keys) + 1
      <3>1. j \in i + 1 .. Len(keys) + 1 /\ j - 1 \in 1 .. len /\ i \in 1 .. len
            /\ i <= j - 1 /\ i <= len
        OBVIOUS
      <3>2. all[j] = keys[j - 1]
        BY <1>1, <3>1 DEF Inserted
      <3>3. keys[i] <= keys[j - 1] /\ keys[j - 1] \in Int
        BY <3>1, SortedPairs
      <3> QED BY <1>4, <3>1, <3>2, <3>3
    <2> QED BY <1>1, <2>1, <2>2, <2>3 DEF Placed
  <1>6. Sorted(all)
    <2>1. i - 1 \in 0 .. Len(keys)
      OBVIOUS
    <2> QED BY <1>5, <2>1, PlacedSorted
  <1>7. /\ Len(all) = len + 1 /\ all[i] = sep
        /\ \A j \in 1 .. i - 1 : all[j] = keys[j]
        /\ \A j \in i + 1 .. len + 1 : all[j] = keys[j - 1]
    BY <1>1 DEF Inserted
  <1>8. ASSUME NEW k \in Int
        PROVE  /\ Between(all, i, k) <=> Between(keys, i, k) /\ k < sep
               /\ Between(all, i + 1, k) <=> Between(keys, i, k) /\ sep <= k
               /\ \A j \in 1 .. i - 1 : Between(all, j, k) <=> Between(keys, j, k)
               /\ \A j \in i + 1 .. len + 1 : Between(all, j + 1, k) <=> Between(keys, j, k)
    <2>1. i > 1 => all[i - 1] = keys[i - 1]
      <3>1. i > 1 => i - 1 \in 1 .. i - 1
        OBVIOUS
      <3> QED BY <1>7, <3>1
    <2>2. i + 1 <= len + 1 => all[i + 1] = keys[i]
      <3>1. i + 1 <= len + 1 => i + 1 \in i + 1 .. len + 1 /\ i + 1 - 1 = i
        BY <1>2
      <3> QED BY <1>7, <3>1
    <2>3. Between(all, i, k) <=> Between(keys, i, k) /\ k < sep
      <3>1. Between(all, i, k) <=> (i > 1 => keys[i - 1] <= k) /\ k < sep
        BY <1>2, <1>7, <2>1 DEF Between
      <3>2. k < sep => (i <= len => k < keys[i])
        BY <1>4
      <3> QED BY <3>1, <3>2 DEF Between
    <2>4. Between(all, i + 1, k) <=> Between(keys, i, k) /\ sep <= k
      <3>1. Between(all, i + 1, k) <=> sep <= k /\ (i <= len => k < keys[i])
        <4>1. i + 1 > 1 /\ i + 1 - 1 = i /\ (i + 1 <= len + 1 <=> i <= len)
          BY <1>2
        <4> QED BY <1>7, <2>2, <4>1 DEF Between
      <3>2. sep <= k => (i > 1 => keys[i - 1] <= k)
        BY <1>3
      <3> QED BY <3>1, <3>2 DEF Between
    <2>5. ASSUME NEW j \in 1 .. i - 1 PROVE Between(all, j, k) <=> Between(keys, j, k)
      <3>1. j > 1 => j - 1 \in 1 .. i - 1
        OBVIOUS
      <3>2. all[j] = keys[j] /\ (j > 1 => all[j - 1] = keys[j - 1])
        BY <1>7, <3>1
      <3>3. j <= len /\ j <= len + 1
        OBVIOUS
      <3> QED BY <1>7, <3>2, <3>3 DEF Between
    <2>6. ASSUME NEW j \in i + 1 .. len + 1
          PROVE  Between(all, j + 1, k) <=> Between(keys, j, k)
      <3>1. j + 1 - 1 = j /\ j > 1 /\ j + 1 > 1 /\ (j + 1 <= len + 1 <=> j <= len)
            /\ (j <= len => j + 1 \in i + 1 .. len + 1)
        BY <1>2
      <3>2. all[j] = keys[j - 1] /\ (j <= len => all[j + 1] = keys[j])
        BY <1>7, <3>1
      <3> QED BY <1>7, <3>1, <3>2 DEF Between
    <2> QED BY <2>3, <2>4, <2>5, <2>6
  <1> QED BY <1>6, <1>7, <1>8 DEF all

\* The keys on the two sides of the n-th.
LEMMA SegmentCut ==
  ASSUME NEW keys \in Seq(Int), Sorted(keys), NEW n \in 1 .. Len(keys), NEW k \in Int
  PROVE  /\ \A i \in 1 .. n :
               Between(SubSeq(keys, 1, n - 1), i, k) /\ k < keys[n] <=> Between(keys, i, k)
         /\ \A i \in 1 .. Len(keys) - n + 1 :
               Between(SubSeq(keys, n + 1, Len(keys)), i, k) /\ keys[n] <= k
                  <=> Between(keys, n + i, k)
  <1> DEFINE lower == SubSeq(keys, 1, n - 1)
             upper == SubSeq(keys, n + 1, Len(keys))
             len == Len(keys)
  <1>0. len \in Nat /\ n - 1 \in 0 .. len /\ n \in 0 .. len
    OBVIOUS
  <1>1. /\ Len(lower) = n - 1 /\ \A j \in 1 .. n - 1 : lower[j] = keys[j]
        /\ Len(upper) = len - n /\ \A j \in 1 .. len - n : upper[j] = keys[n + j]
    BY <1>0, FrontInSeq
  <1> HIDE DEF lower, upper
  <1>2. ASSUME NEW i \in 1 .. n
        PROVE  Between(lower, i, k) /\ k < keys[n] <=> Between(keys, i, k)
    <2>1. i > 1 => lower[i - 1] = keys[i - 1]
      <3>1. i > 1 => i - 1 \in 1 .. n - 1
        OBVIOUS
      <3> QED BY <1>1, <3>1
    <2>2. i <= n - 1 => lower[i] = keys[i]
      <3>1. i <= n - 1 => i \in 1 .. n - 1
        OBVIOUS
      <3> QED BY <1>1, <3>1
    <2>3. i <= len
      OBVIOUS
    <2>4. CASE i <= n - 1
      <3>1. i \in 1 .. len /\ i < n
        BY <2>4
      <3>2. keys[i] < keys[n] /\ keys[i] \in Int /\ keys[n] \in Int
        BY <3>1, SortedPairs
      <3>3. k < keys[i] => k < keys[n]
        BY <3>2
      <3> QED BY <1>1, <2>1, <2>2, <2>3, <2>4, <3>3 DEF Between
    <2>5. CASE ~(i <= n - 1)
      <3>1. i = n
        BY <2>5
      <3> QED BY <1>1, <2>1, <2>3, <2>5, <3>1 DEF Between
    <2> QED BY <2>4, <2>5
  <1>3. ASSUME NEW i \in 1 .. len - n + 1
        PROVE  Between(upper, i, k) /\ keys[n] <= k <=> Between(keys, n + i, k)
    <2>1. i <= len - n => upper[i] = keys[n + i]
      <3>1. i <= len - n => i \in 1 .. len - n
        BY <1>0
      <3> QED BY <1>1, <3>1
    <2>2. n + i > 1 /\ (n + i <= len <=> i <= len - n)
      BY <1>0
    <2>3. CASE i = 1
      <3>1. n + i - 1 = n /\ ~(i > 1)
        BY <2>3
      <3> QED BY <1>1, <2>1, <2>2, <3>1 DEF Between
    <2>4. CASE i > 1
      <3>1. i - 1 \in 1 .. len - n /\ n + (i - 1) = n + i - 1 /\ n + i - 1 \in 1 .. len
            /\ n < n + i - 1
        BY <1>0, <2>4
      <3>2. upper[i - 1] = keys[n + i - 1]
        BY <1>1, <3>1
      <3>3. keys[n] < keys[n + i - 1] /\ keys[n] \in Int /\ keys[n + i - 1] \in Int
        BY <3>1, SortedPairs
      <3>4. keys[n + i - 1] <= k => keys[n] <= k
        BY <3>3
      <3>5. i > 1 /\ n + i > 1 /\ upper[i - 1] = keys[n + i - 1]
        BY <2>2, <2>4, <3>2
      <3>6. Between(upper, i, k) <=> keys[n + i - 1] <= k /\ (i <= Len(upper) => k < upper[i])
        BY <3>5 DEF Between
      <3>7. Between(keys, n + i, k) <=> keys[n + i - 1] <= k /\ (n + i <= Len(keys) => k < keys[n + i])
        BY <3>5 DEF Between
      <3>8. (i <= Len(upper) => k < upper[i]) <=> (n + i <= Len(keys) => k < keys[n + i])
        BY <1>1, <2>1, <2>2
      <3> QED BY <3>4, <3>6, <3>7, <3>8
    <2>5. i = 1 \/ i > 1
      OBVIOUS
    <2> QED BY <2>3, <2>4, <2>5
  <1> QED BY <1>2, <1>3 DEF lower, upper

=============================================================================

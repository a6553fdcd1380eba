--------------------------- MODULE NodeSplitProofs ---------------------------
(***************************************************************************)
(* split_insert does not panic and cuts where SplitPoint says, for any     *)
(* keys, lengths of pairs and capacities: the loop keeps the pairs in      *)
(* order, and never fills the new node beyond its first half.              *)
(***************************************************************************)
EXTENDS NodeSplit, BTreeNodeProofs

\* The arguments of the call: an ascending node without room for the pair.
Arguments ==
    /\ capacity \in Nat /\ ShortPairs(size, Keys, capacity)
    /\ key \in Keys
    /\ given \in Seq(Keys) /\ Sorted(given) /\ ~Holds(given, key)
    /\ Used(given, size) <= capacity
    /\ ~HasRoom(given, key, size, capacity)

SplitInv ==
    /\ Arguments
    /\ old \in Seq(Keys) /\ new \in Seq(Keys)
    /\ pc \in {"loop", "fill", "done"}
    /\ pc = "loop" => given = new \o old /\ Behind(new, key)
    /\ pc # "loop" => new \o old = InsertKey(given, key)
    /\ new # <<>> => ~HalfFull(Front(new), size, capacity)
    /\ pc = "done" => NewHalfFull

-----------------------------------------------------------------------------
LEMMA KeysAreInts ==
  /\ Keys \subseteq Int
  /\ \A s : s \in Seq(Keys) => s \in Seq(Int)
  <1>1. Keys \subseteq Int
    BY NodeSplitAssumption
  <1> QED BY <1>1, SeqMonotonic

\* What is counted in the proofs below.
LEMMA Sums ==
  ASSUME Arguments, old \in Seq(Keys), new \in Seq(Keys)
  PROVE  /\ Sized(size, Keys)
         /\ Used(old, size) \in Nat /\ Used(new, size) \in Nat /\ Used(given, size) \in Nat
         /\ Used(new \o old, size) = Used(new, size) + Used(old, size)
         /\ NewHalfFull <=> 2 * Used(new, size) > capacity
         /\ \A k \in Keys : size[k] \in Nat /\ 2 * (PointerSize + size[k]) <= capacity
         /\ \A k \in Keys : Fits(new, k) <=> capacity - Used(new, size) >= PointerSize + size[k]
         /\ \A k \in Keys : Fits(old, k) <=> capacity - Used(old, size) >= PointerSize + size[k]
  <1>1. Sized(size, Keys) /\ capacity \in Nat /\ given \in Seq(Keys)
    BY ShortPairsSized DEF Arguments
  <1>2. Used(old, size) \in Nat /\ Used(new, size) \in Nat /\ Used(given, size) \in Nat
    BY <1>1, UsedType
  <1>3. Used(new \o old, size) = Used(new, size) + Used(old, size)
    BY <1>1, UsedConcat
  <1>4. NewHalfFull <=> 2 * Used(new, size) > capacity
    BY <1>1, HalfFullUses DEF NewHalfFull
  <1>5. \A k \in Keys : size[k] \in Nat /\ 2 * (PointerSize + size[k]) <= capacity
    BY DEF Arguments, ShortPairs
  <1>6. \A k, keys : Fits(keys, k) <=> capacity - Used(keys, size) >= PointerSize + size[k]
    BY DEF Fits, HasRoom, FreeSpace
  <1> QED BY <1>1, <1>2, <1>3, <1>4, <1>5, <1>6

LEMMA SeqOfIsSeq ==
  ASSUME NEW K, NEW n, NEW s \in SeqOf(K, n)
  PROVE  s \in Seq(K)
  BY DEF SeqOf

LEMMA InitSplitInv == Init => SplitInv
  <1> SUFFICES ASSUME Init PROVE SplitInv
    OBVIOUS
  <1>1. old \in Seq(Keys) /\ Sorted(old) /\ new = <<>> /\ given = old /\ pc = "loop"
    BY SeqOfIsSeq DEF Init, SortedNodes
  <1>2. capacity \in Nat
    BY NodeSplitAssumption DEF Init
  <1>3. ShortPairs(size, Keys, capacity)
    <2> SUFFICES ASSUME NEW k \in Keys
                 PROVE  size[k] \in Nat /\ 2 * (PointerSize + size[k]) <= capacity
      BY DEF ShortPairs
    <2>1. size[k] \in Nat /\ size[k] <= MaxPairSize(capacity)
      BY NodeSplitAssumption DEF Init
    <2> DEFINE pair == size[k]
    <2> HIDE DEF pair
    <2>2. pair \in Nat => (pair <= MaxPairSize(capacity) => 2 * (PointerSize + pair) <= capacity)
      BY <1>2 DEF MaxPairSize, PointerSize
    <2> QED BY <2>1, <2>2 DEF pair
  <1>4. Arguments
    BY <1>1, <1>2, <1>3 DEF Arguments, Init
  <1>5. new \o old = old /\ new \in Seq(Keys) /\ Behind(new, key)
    BY <1>1 DEF Behind
  <1> QED BY <1>1, <1>4, <1>5 DEF SplitInv

\* Where the new pair goes while both nodes together are the given one.
LEMMA Destination ==
  ASSUME SplitInv, pc = "loop"
  PROVE  /\ InsertKey(given, key) = new \o InsertKey(old, key)
         /\ ~Holds(old, key)
         /\ InsertKey(old, key) \in Seq(Keys)
         /\ (old # <<>> /\ Head(old) >= key) => InsertKey(given, key) = Append(new, key) \o old
  <1>1. /\ old \in Seq(Int) /\ new \in Seq(Int) /\ key \in Int /\ given = new \o old
        /\ Sorted(new \o old) /\ ~Holds(new \o old, key) /\ Behind(new, key)
    BY KeysAreInts DEF SplitInv, Arguments
  <1>2. InsertKey(given, key) = new \o InsertKey(old, key)
    BY <1>1, InsertKeyBehind
  <1>3. Sorted(old) /\ ~Holds(old, key)
    BY <1>1, PartsOfConcat
  <1>4. InsertKey(old, key) \in Seq(Keys)
    <2> DEFINE at == SlotOf(old, key) + 1
    <2>1. at \in 1 .. Len(old) + 1
      <3>1. SlotOf(old, key) \in 0 .. Len(old)
        BY <1>1, <1>3, SlotOfSplits
      <3> QED BY <1>1, <3>1
    <2>2. old \in Seq(Keys) /\ key \in Keys
      BY DEF SplitInv, Arguments
    <2> HIDE DEF at
    <2>3. InsertAt(old, at, key) \in Seq(Keys)
      BY <2>1, <2>2, InsertAtElements
    <2> QED BY <2>3 DEF InsertKey, at
  <1>5. ASSUME old # <<>>, Head(old) >= key
        PROVE  InsertKey(given, key) = Append(new, key) \o old
    BY <1>1, <1>5, InsertKeyBetween
  <1> QED BY <1>2, <1>3, <1>4, <1>5

\* The first pair of the old node may go to the end of the new one.
LEMMA MoveHead ==
  ASSUME NEW K, NEW s \in Seq(K), NEW t \in Seq(K), t # <<>>
  PROVE  /\ Head(t) \in K /\ Tail(t) \in Seq(K)
         /\ Append(s, Head(t)) \in Seq(K)
         /\ Append(s, Head(t)) \o Tail(t) = s \o t
  <1>1. Head(t) \in K /\ Tail(t) \in Seq(K) /\ t = <<Head(t)>> \o Tail(t)
    OBVIOUS
  <1>2. Append(s, Head(t)) \in Seq(K) /\ Append(s, Head(t)) = s \o <<Head(t)>>
    BY <1>1, AppendIsConcat
  <1>3. (s \o <<Head(t)>>) \o Tail(t) = s \o (<<Head(t)>> \o Tail(t))
    <2> DEFINE first == <<Head(t)>>
               rest == Tail(t)
    <2>1. first \in Seq(K) /\ rest \in Seq(K)
      BY <1>1
    <2> HIDE DEF first, rest
    <2>2. (s \o first) \o rest = s \o (first \o rest)
      BY <2>1, ConcatAssociative, SMTT(30)
    <2> QED BY <2>2 DEF first, rest
  <1> QED BY <1>1, <1>2, <1>3

LEMMA FrontOfAppend ==
  ASSUME NEW K, NEW s \in Seq(K), NEW e \in K
  PROVE  /\ Append(s, e) \in Seq(K) /\ Len(Append(s, e)) = Len(s) + 1
         /\ Append(s, e) # <<>> /\ Front(Append(s, e)) = s
  BY DEF Front

-----------------------------------------------------------------------------
LEMMA NextSplitInv == SplitInv /\ [Next]_vars => SplitInv'
  <1> SUFFICES ASSUME SplitInv, [Next]_vars PROVE SplitInv'
    OBVIOUS
  <1>0. /\ Arguments /\ old \in Seq(Keys) /\ new \in Seq(Keys)
        /\ key \in Keys
    BY DEF SplitInv, Arguments
  <1>u. ASSUME Unchanged PROVE Arguments' /\ InsertKey(given, key)' = InsertKey(given, key)
    <2>1. /\ key' = key /\ size' = size /\ capacity' = capacity /\ given' = given
      BY <1>u DEF Unchanged
    <2> QED BY <1>0, <2>1 DEF Arguments
  <1>1. CASE InsertIntoOld
    <2>1. Unchanged /\ pc = "loop" /\ NewHalfFull
      BY <1>1 DEF InsertIntoOld
    <2>2. pc' = "done" /\ new' = new /\ old' = InsertKey(old, key)
      BY <1>1 DEF InsertIntoOld
    <2>3. InsertKey(given, key) = new \o InsertKey(old, key) /\ InsertKey(old, key) \in Seq(Keys)
      BY <2>1, Destination
    <2>4. NewHalfFull' /\ (new # <<>> => ~HalfFull(Front(new), size, capacity))'
      BY <2>1, <2>2 DEF SplitInv, Unchanged, NewHalfFull
    <2> QED BY <1>0, <1>u, <2>1, <2>2, <2>3, <2>4 DEF SplitInv
  <1>2. CASE TransferSmaller
    <2>1. Unchanged /\ pc = "loop" /\ pc' = "loop" /\ ~NewHalfFull
      BY <1>2 DEF TransferSmaller
    <2>2. /\ old # <<>> /\ Head(old) < key
          /\ new' = Append(new, Head(old)) /\ old' = Tail(old)
      BY <1>2 DEF TransferSmaller, Transfer
    <2>3. new' \in Seq(Keys) /\ old' \in Seq(Keys) /\ new' \o old' = new \o old /\ Head(old) \in Keys
      BY <1>0, <2>2, MoveHead
    <2>4. Len(new') = Len(new) + 1 /\ Front(new') = new
      BY <1>0, <2>2, <2>3, FrontOfAppend
    <2>5. Behind(new, key)'
      <3>1. Behind(new, key) /\ key' = key
        BY <2>1 DEF SplitInv, Unchanged
      <3>2. /\ \A i \in 1 .. Len(new) : new'[i] = new[i]
            /\ new'[Len(new) + 1] = Head(old) /\ Len(new) \in Nat
        BY <1>0, <2>2, <2>3, AppendProperties
      <3> QED BY <2>2, <2>4, <3>1, <3>2 DEF Behind
    <2>6. given' = new' \o old'
      BY <2>1, <2>3 DEF SplitInv, Unchanged
    <2>7. ~HalfFull(Front(new), size, capacity)'
      BY <2>1, <2>4 DEF NewHalfFull, Unchanged
    <2> QED BY <1>u, <2>1, <2>3, <2>5, <2>6, <2>7 DEF SplitInv
  <1>3. CASE InsertIntoNew
    <2>1. Unchanged /\ pc = "loop" /\ pc' = "fill" /\ ~NewHalfFull
      BY <1>3 DEF InsertIntoNew
    <2>2. old # <<>> /\ Head(old) >= key /\ new' = Append(new, key) /\ old' = old
      BY <1>3 DEF InsertIntoNew
    <2>3. InsertKey(given, key) = new' \o old'
      BY <2>1, <2>2, Destination
    <2>4. new' \in Seq(Keys) /\ Front(new') = new
      BY <1>0, <2>2, FrontOfAppend
    <2>5. ~HalfFull(Front(new), size, capacity)'
      BY <2>1, <2>4 DEF NewHalfFull, Unchanged
    <2> QED BY <1>0, <1>u, <2>1, <2>2, <2>3, <2>4, <2>5 DEF SplitInv
  <1>4. CASE TransferMore
    <2>1. Unchanged /\ pc = "fill" /\ pc' = "fill" /\ ~NewHalfFull
      BY <1>4 DEF TransferMore
    <2>2. old # <<>> /\ new' = Append(new, Head(old)) /\ old' = Tail(old)
      BY <1>4 DEF TransferMore, Transfer
    <2>3. new' \in Seq(Keys) /\ old' \in Seq(Keys) /\ new' \o old' = new \o old /\ Head(old) \in Keys
      BY <1>0, <2>2, MoveHead
    <2>4. Front(new') = new
      BY <1>0, <2>2, <2>3, FrontOfAppend
    <2>5. ~HalfFull(Front(new), size, capacity)'
      BY <2>1, <2>4 DEF NewHalfFull, Unchanged
    <2>6. new' \o old' = InsertKey(given, key)
      BY <2>1, <2>3 DEF SplitInv
    <2> QED BY <1>u, <2>1, <2>3, <2>5, <2>6 DEF SplitInv
  <1>5. CASE StopFilling
    <2>1. Unchanged /\ pc = "fill" /\ pc' = "done" /\ NewHalfFull /\ old' = old /\ new' = new
      BY <1>5 DEF StopFilling
    <2>2. NewHalfFull' /\ (new # <<>> => ~HalfFull(Front(new), size, capacity))'
      BY <2>1 DEF SplitInv, Unchanged, NewHalfFull
    <2>3. new \o old = InsertKey(given, key)
      BY <2>1 DEF SplitInv
    <2> QED BY <1>0, <1>u, <2>1, <2>2, <2>3 DEF SplitInv
  <1>6. CASE UNCHANGED vars
    BY <1>0, <1>6 DEF vars, SplitInv, Arguments, NewHalfFull
  <1> QED BY <1>1, <1>2, <1>3, <1>4, <1>5, <1>6 DEF Next

\* What each turn of the loop of split_insert keeps.
THEOREM SplitInvariant == Spec => []SplitInv
  <1> QED BY InitSplitInv, NextSplitInv, PTL DEF Spec

-----------------------------------------------------------------------------
(* No panic: half of a page holds any pair, and what is not yet moved does  *)
(* not all fit beside the new pair.                                        *)

LEMMA NeverPanicsHere == SplitInv => NeverPanics
  <1> SUFFICES ASSUME SplitInv, Panics PROVE FALSE
    BY DEF NeverPanics
  <1> DEFINE inOld   == Used(old, size)
             inNew   == Used(new, size)
             inGiven == Used(given, size)
             pair    == size[key]
  <1>0. Arguments /\ old \in Seq(Keys) /\ new \in Seq(Keys) /\ key \in Keys
    BY DEF SplitInv, Arguments
  <1>1. /\ inOld \in Nat /\ inNew \in Nat /\ inGiven \in Nat
        /\ NewHalfFull <=> 2 * inNew > capacity
        /\ Used(new \o old, size) = inNew + inOld
        /\ capacity \in Nat
    BY <1>0, Sums DEF Arguments
  <1>2. pair \in Nat /\ 2 * (PointerSize + pair) <= capacity
    BY <1>0, Sums
  <1>3. inGiven <= capacity /\ ~(capacity - inGiven >= PointerSize + pair)
    BY DEF SplitInv, Arguments, HasRoom, FreeSpace
  <1>4. Fits(old, key) <=> capacity - inOld >= PointerSize + pair
    BY <1>0, Sums
  <1>5. ASSUME NEW k \in Keys, ~NewHalfFull PROVE Fits(new, k)
    <2> DEFINE next == size[k]
    <2>1. Fits(new, k) <=> capacity - inNew >= PointerSize + next
      BY <1>0, Sums
    <2>2. next \in Nat /\ 2 * (PointerSize + next) <= capacity
      BY <1>0, Sums
    <2> HIDE DEF next, inNew, inOld, inGiven, pair
    <2>3. capacity - inNew >= PointerSize + next
      BY <1>1, <1>5, <2>2 DEF PointerSize
    <2> QED BY <2>1, <2>3
  <1>6. pc = "loop" => inGiven = inNew + inOld
    BY <1>1 DEF SplitInv
  <1>7. pc = "fill" => inNew + inOld = inGiven + PointerSize + pair
    <2> SUFFICES ASSUME pc = "fill" PROVE inNew + inOld = inGiven + PointerSize + pair
      OBVIOUS
    <2> DEFINE at == SlotOf(given, key) + 1
    <2>1. given \in Seq(Keys) /\ given \in Seq(Int) /\ key \in Int /\ Sorted(given)
      BY <1>0, KeysAreInts DEF Arguments
    <2>2. SlotOf(given, key) \in 0 .. Len(given)
      BY <2>1, SlotOfSplits
    <2>3. at \in 1 .. Len(given) + 1
      BY <2>1, <2>2
    <2>4. Sized(size, Keys)
      BY <1>0, Sums
    <2>5. new \o old = InsertAt(given, at, key)
      BY DEF SplitInv, InsertKey
    <2> HIDE DEF at
    <2>6. Used(InsertAt(given, at, key), size) = Used(given, size) + PointerSize + size[key]
      BY <1>0, <2>1, <2>3, <2>4, UsedInsert
    <2> QED BY <1>1, <2>5, <2>6
  <1>8. old = <<>> => inOld = 0
    BY <1>0, Sums, UsedEmpty
  <1>9. old # <<>> => Head(old) \in Keys
    BY <1>0
  <1> HIDE DEF inOld, inNew, inGiven, pair
  <1>10. ASSUME pc = "loop", NewHalfFull PROVE FALSE
    <2>1. ~Holds(old, key)
      BY <1>10, Destination
    <2>2. capacity - inOld >= PointerSize + pair
      BY <1>1, <1>2, <1>3, <1>6, <1>10 DEF PointerSize
    <2> QED BY <1>4, <1>10, <2>1, <2>2 DEF Panics
  <1>11. ASSUME pc = "loop", ~NewHalfFull PROVE FALSE
    <2>1. old # <<>>
      BY <1>1, <1>2, <1>3, <1>6, <1>8, <1>11 DEF PointerSize
    <2>2. Fits(new, key) /\ Fits(new, Head(old))
      BY <1>0, <1>5, <1>9, <1>11, <2>1
    <2> QED BY <1>11, <2>1, <2>2 DEF Panics, TransferPanics
  <1>12. ASSUME pc = "fill" PROVE FALSE
    <2>1. ~NewHalfFull /\ TransferPanics
      BY <1>12 DEF Panics
    <2>2. old # <<>>
      BY <1>1, <1>2, <1>3, <1>7, <1>8, <1>12, <2>1 DEF PointerSize
    <2>3. Fits(new, Head(old))
      BY <1>5, <1>9, <2>1, <2>2
    <2> QED BY <2>1, <2>2, <2>3 DEF TransferPanics
  <1>13. ASSUME pc = "done" PROVE FALSE
    BY <1>13 DEF Panics
  <1>14. pc \in {"loop", "fill", "done"}
    BY DEF SplitInv
  <1> QED BY <1>10, <1>11, <1>12, <1>13, <1>14

\* No expect, assert or index of split_insert fails, for any keys, lengths of
\* pairs and capacity (the loops of Leaf::split_insert and Branch::split_insert).
THEOREM SplitNeverPanics == Spec => []NeverPanics
  <1> QED BY SplitInvariant, NeverPanicsHere, PTL

-----------------------------------------------------------------------------
(* The cut.                                                                *)

LEMMA SplitsAsStatedHere == SplitInv => SplitsAsStated
  <1> SUFFICES ASSUME SplitInv, pc = "done"
               PROVE  LET all == InsertKey(given, key)
                          n   == SplitPoint(given, key, size, capacity)
                      IN  /\ new = Lower(all, n) /\ old = Upper(all, n)
                          /\ old # <<>> /\ Len(new) >= 2
                          /\ Used(new, size) <= capacity /\ Used(old, size) <= capacity
    BY DEF SplitsAsStated
  <1> DEFINE all == InsertKey(given, key)
             n   == Len(new)
             usedAll == Used(all, size)
             inGiven == Used(given, size)
             pair    == size[key]
  <1>0. /\ Arguments /\ old \in Seq(Keys) /\ new \in Seq(Keys) /\ key \in Keys
        /\ capacity \in Nat /\ ShortPairs(size, Keys, capacity) /\ Sized(size, Keys)
    BY ShortPairsSized DEF SplitInv, Arguments
  <1>1. all = new \o old
    BY DEF SplitInv
  <1> HIDE DEF all
  <1>2. all \in Seq(Keys) /\ Len(all) = Len(new) + Len(old)
    BY <1>0, <1>1
  <1>3. new # <<>>
    <2>1. NewHalfFull /\ (new = <<>> => Used(new, size) = 0)
      BY <1>0, UsedEmpty DEF SplitInv
    <2>2. NewHalfFull <=> 2 * Used(new, size) > capacity
      BY <1>0, Sums
    <2> QED BY <1>0, <2>1, <2>2
  <1>4. SubSeq(all, 1, n) = new
    BY <1>0, <1>1
  <1>5. SubSeq(all, 1, n - 1) = Front(new)
    BY <1>0, <1>1, <1>3 DEF Front
  <1>6. Cut(n, all, size, capacity)
    <2>1. n \in 1 .. Len(all)
      BY <1>0, <1>2, <1>3
    <2>2. HalfFull(new, size, capacity) /\ ~HalfFull(Front(new), size, capacity)
      BY <1>3 DEF SplitInv, NewHalfFull
    <2> QED BY <1>4, <1>5, <2>1, <2>2 DEF Cut
  <1>7. SplitPoint(given, key, size, capacity) = n
    <2> HIDE DEF n
    <2> QED BY <1>0, <1>2, <1>6, SplitPointIsCut DEF all
  <1>8. usedAll = inGiven + PointerSize + pair
    <2> DEFINE at == SlotOf(given, key) + 1
    <2>1. given \in Seq(Keys) /\ given \in Seq(Int) /\ key \in Int /\ Sorted(given)
      BY <1>0, KeysAreInts DEF Arguments
    <2>2. SlotOf(given, key) \in 0 .. Len(given)
      BY <2>1, SlotOfSplits
    <2>3. at \in 1 .. Len(given) + 1
      BY <2>1, <2>2
    <2>4. all = InsertAt(given, at, key)
      BY DEF all, InsertKey
    <2> HIDE DEF at
    <2>5. Used(InsertAt(given, at, key), size) = Used(given, size) + PointerSize + size[key]
      BY <1>0, <2>1, <2>3, UsedInsert
    <2> QED BY <2>4, <2>5
  <1>9. inGiven \in Nat /\ inGiven <= capacity /\ ~(capacity - inGiven >= PointerSize + pair)
    BY <1>0, UsedType DEF Arguments, HasRoom, FreeSpace
  <1>10. pair \in Nat /\ 2 * (PointerSize + pair) <= capacity
    BY <1>0 DEF ShortPairs
  <1>11. usedAll > capacity /\ 2 * usedAll <= 3 * capacity
    <2> HIDE DEF usedAll, inGiven, pair
    <2> QED BY <1>0, <1>8, <1>9, <1>10 DEF PointerSize
  <1>12. /\ n >= 2 /\ n < Len(all)
         /\ Used(Lower(all, n), size) <= capacity
         /\ Used(Upper(all, n), size) <= capacity
    <2> HIDE DEF n
    <2> QED BY <1>0, <1>2, <1>6, <1>11, CutFits
  <1>13. Lower(all, n) = new /\ Upper(all, n) = old
    <2>1. SubSeq(new \o old, n + 1, Len(new \o old)) = old
      BY <1>0
    <2> QED BY <1>1, <1>4, <2>1 DEF Lower, Upper
  <1>14. old # <<>>
    BY <1>0, <1>2, <1>12
  <1> HIDE DEF n
  <1> QED BY <1>7, <1>12, <1>13, <1>14 DEF all, n

\* When the loop is done the new node is the first part of the pairs that is
\* half full and the old node the rest, both within their page, with a pair for
\* each use that the callers make of them: what SplitPoint, LeafSplit and
\* BranchSplit take a split to be.
THEOREM SplitCutsAsStated == Spec => []SplitsAsStated
  <1> QED BY SplitInvariant, SplitsAsStatedHere, PTL

=============================================================================

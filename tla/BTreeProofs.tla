----------------------------- MODULE BTreeProofs -----------------------------
(***************************************************************************)
(* What the B+tree keeps, for any keys, lengths of pairs, pool and pages:  *)
(* the proofs follow which numbers a search comes to each page with        *)
(* (cover) and how far the page is above the leaves (height).              *)
(***************************************************************************)
EXTENDS BTree, BTreeNodeProofs

Ahead(A, B) == \A a \in A, b \in B : a < b

LeafNodes == [node_type    : {"LEAF"},
              prev_page_id : PageIds \union {INVALID_PAGE_ID},
              next_page_id : PageIds \union {INVALID_PAGE_ID},
              keys         : Seq(Keys)]
BranchNodes == [node_type : {"BRANCH"}, keys : Seq(Keys), children : Seq(PageIds)]

\* A branch whose children are one level down and share what it covers.
BranchOver(n, p, cover, height) ==
    /\ n \in BranchNodes
    /\ Sorted(n.keys) /\ n.keys # <<>>
    /\ Len(n.children) = Len(n.keys) + 1
    /\ Range(n.keys) \subseteq cover[p]
    /\ \A i \in 1 .. Len(n.keys) + 1 :
          /\ cover[n.children[i]] = Segment(n.keys, i, cover[p])
          /\ height[n.children[i]] + 1 = height[p]

\* What pages cover, and how far they are above the leaves.
Covering(cover, height, P) ==
    /\ cover \in [PageIds -> SUBSET Nat] /\ height \in [PageIds -> Nat]
    /\ P \subseteq PageIds
    /\ \A p \in P : cover[p] # {}
    /\ \A p, q \in P :
          p # q /\ height[p] = height[q]
            => Ahead(cover[p], cover[q]) \/ Ahead(cover[q], cover[p])

\* Page p has given what is below sep to page new.
Divided(c, h, cover, height, p, new, sep) ==
    /\ c \in [PageIds -> SUBSET Nat] /\ h \in [PageIds -> Nat]
    /\ c[p] = {k \in cover[p] : sep <= k}
    /\ c[new] = {k \in cover[p] : k < sep}
    /\ \A q \in PageIds \ {p, new} : c[q] = cover[q]
    /\ h[new] = height[p]
    /\ \A q \in PageIds \ {new} : h[q] = height[q]

LEMMA KeysAreNats ==
  /\ Keys \subseteq Int /\ Keys \subseteq Nat
  /\ \A s : s \in Seq(Keys) => s \in Seq(Int)
  <1>1. Keys \subseteq Int /\ Keys \subseteq Nat
    BY BTreeAssumption
  <1> QED BY <1>1, SeqMonotonic

LEMMA PageIdsAreNats ==
  /\ PageIds \subseteq Nat /\ INVALID_PAGE_ID \notin PageIds /\ NoKey \notin Keys
  /\ MaxPages \in Nat
  BY BTreeAssumption DEF PageIds, INVALID_PAGE_ID, NoKey

LEMMA CanDivide ==
  ASSUME NEW cover, NEW height, NEW P, Covering(cover, height, P),
         NEW p \in P, NEW new \in PageIds \ P, NEW sep
  PROVE  \E c, h : Divided(c, h, cover, height, p, new, sep)
  <1> DEFINE c == [cover EXCEPT ![p]   = {k \in cover[p] : sep <= k},
                                ![new] = {k \in cover[p] : k < sep}]
             h == [height EXCEPT ![new] = height[p]]
  <1>0. /\ cover \in [PageIds -> SUBSET Nat] /\ height \in [PageIds -> Nat]
        /\ P \subseteq PageIds /\ p # new
    BY DEF Covering
  <1>1. /\ c[p] = {k \in cover[p] : sep <= k}
        /\ c[new] = {k \in cover[p] : k < sep}
        /\ \A q \in PageIds \ {p, new} : c[q] = cover[q]
        /\ c \in [PageIds -> SUBSET Nat]
    BY <1>0
  <1>2. /\ h[new] = height[p] /\ \A q \in PageIds \ {new} : h[q] = height[q]
        /\ h \in [PageIds -> Nat]
    BY <1>0
  <1> HIDE DEF c, h
  <1>3. Divided(c, h, cover, height, p, new, sep)
    BY <1>1, <1>2 DEF Divided
  <1> QED BY <1>3

LEMMA CoveringDivided ==
  ASSUME NEW cover, NEW height, NEW P, Covering(cover, height, P),
         NEW p \in P, NEW new \in PageIds \ P,
         NEW sep \in cover[p], NEW low \in cover[p], low < sep,
         NEW c, NEW h, Divided(c, h, cover, height, p, new, sep)
  PROVE  Covering(c, h, P \union {new})
  <1>0. /\ cover \in [PageIds -> SUBSET Nat] /\ height \in [PageIds -> Nat]
        /\ P \subseteq PageIds /\ p # new
    BY DEF Covering
  <1>1. /\ c[p] = {k \in cover[p] : sep <= k}
        /\ c[new] = {k \in cover[p] : k < sep}
        /\ \A q \in PageIds \ {p, new} : c[q] = cover[q]
        /\ c \in [PageIds -> SUBSET Nat]
    BY DEF Divided
  <1>2. /\ h[new] = height[p] /\ \A q \in PageIds \ {new} : h[q] = height[q]
        /\ h \in [PageIds -> Nat]
    BY DEF Divided
  <1>3. \A q \in P \union {new} : c[q] # {}
    <2>1. sep \in Nat /\ low \in Nat
      BY <1>0
    <2>2. sep \in c[p] /\ low \in c[new]
      BY <1>1, <2>1
    <2> QED BY <1>0, <1>1, <2>2 DEF Covering
  <1>4. c[p] \subseteq cover[p] /\ c[new] \subseteq cover[p]
    BY <1>1
  <1>5. Ahead(c[new], c[p])
    <2>1. cover[p] \subseteq Nat
      BY <1>0
    <2> QED BY <1>1, <2>1 DEF Ahead
  <1>6. ASSUME NEW q \in P \ {p}, height[q] = height[p]
        PROVE  /\ Ahead(c[q], c[p]) \/ Ahead(c[p], c[q])
               /\ Ahead(c[q], c[new]) \/ Ahead(c[new], c[q])
    <2>1. c[q] = cover[q]
      BY <1>0, <1>1
    <2>2. Ahead(cover[q], cover[p]) \/ Ahead(cover[p], cover[q])
      BY <1>6 DEF Covering
    <2> QED BY <1>4, <2>1, <2>2 DEF Ahead
  <1>7. ASSUME NEW q \in P \union {new}, NEW r \in P \union {new}, q # r, h[q] = h[r]
        PROVE  Ahead(c[q], c[r]) \/ Ahead(c[r], c[q])
    <2>1. CASE q \in {p, new} /\ r \in {p, new}
      BY <1>5, <1>7, <2>1
    <2>2. CASE q \in {p, new} /\ r \notin {p, new}
      <3>1. r \in P \ {p} /\ height[r] = height[p]
        BY <1>0, <1>2, <1>7, <2>2
      <3> QED BY <1>6, <2>2, <3>1
    <2>3. CASE q \notin {p, new} /\ r \in {p, new}
      <3>1. q \in P \ {p} /\ height[q] = height[p]
        BY <1>0, <1>2, <1>7, <2>3
      <3> QED BY <1>6, <2>3, <3>1
    <2>4. CASE q \notin {p, new} /\ r \notin {p, new}
      <3>1. q \in P /\ r \in P /\ height[q] = height[r] /\ c[q] = cover[q] /\ c[r] = cover[r]
        BY <1>0, <1>1, <1>2, <1>7, <2>4
      <3> QED BY <1>7, <3>1 DEF Covering
    <2> QED BY <2>1, <2>2, <2>3, <2>4
  <1> QED BY <1>0, <1>1, <1>2, <1>3, <1>7 DEF Covering

\* Where a search goes from a branch.
LEMMA SearchDescends ==
  ASSUME NEW n, NEW p, NEW cover, NEW height, BranchOver(n, p, cover, height),
         NEW k \in Nat
  PROVE  /\ SearchChildIdx(n, k) + 1 \in 1 .. Len(n.keys) + 1
         /\ SearchChild(n, k) = n.children[SearchChildIdx(n, k) + 1]
         /\ SearchChild(n, k) \in PageIds
         /\ k \in cover[p] => k \in cover[SearchChild(n, k)]
         /\ height[SearchChild(n, k)] + 1 = height[p]
  <1> DEFINE idx == SearchChildIdx(n, k)
             child == SearchChild(n, k)
  <1>1. n.keys \in Seq(Int) /\ Sorted(n.keys) /\ k \in Int
    BY KeysAreNats DEF BranchOver, BranchNodes
  <1>2. idx \in 0 .. Len(n.keys) /\ Between(n.keys, idx + 1, k)
    <2> HIDE DEF idx
    <2> QED BY <1>1, SearchFinds DEF idx
  <1>3. child = n.children[idx + 1]
    BY DEF SearchChild, ChildAt
  <1> HIDE DEF idx, child
  <1>4. Len(n.keys) \in Nat /\ idx + 1 \in 1 .. Len(n.keys) + 1
    BY <1>1, <1>2
  <1>5. child \in PageIds
    BY <1>3, <1>4 DEF BranchOver, BranchNodes
  <1>6. /\ cover[child] = Segment(n.keys, idx + 1, cover[p])
        /\ height[child] + 1 = height[p]
    BY <1>3, <1>4 DEF BranchOver, BranchNodes
  <1>7. k \in cover[p] => k \in cover[child]
    BY <1>2, <1>6 DEF Segment
  <1>8. /\ idx + 1 \in 1 .. Len(n.keys) + 1 /\ child = n.children[idx + 1]
        /\ child \in PageIds /\ (k \in cover[p] => k \in cover[child])
        /\ height[child] + 1 = height[p]
    BY <1>3, <1>4, <1>5, <1>6, <1>7
  <1> QED BY <1>8 DEF idx, child

\* Two branches share no child.
LEMMA OneParent ==
  ASSUME NEW cover, NEW height, NEW P, Covering(cover, height, P),
         NEW p \in P, NEW q \in P, NEW m, NEW n,
         BranchOver(m, p, cover, height), BranchOver(n, q, cover, height),
         NEW i \in 1 .. Len(m.keys) + 1, NEW j \in 1 .. Len(n.keys) + 1,
         m.children[i] \in P, m.children[i] = n.children[j]
  PROVE  p = q
  <1> DEFINE child == m.children[i]
  <1>1. /\ cover[child] = Segment(m.keys, i, cover[p])
        /\ cover[child] = Segment(n.keys, j, cover[q])
        /\ height[child] + 1 = height[p] /\ height[child] + 1 = height[q]
    BY DEF BranchOver, BranchNodes
  <1>2. cover[child] # {}
    BY DEF Covering
  <1> HIDE DEF child
  <1>3. PICK k \in cover[child] : TRUE
    BY <1>2
  <1>4. k \in cover[p] /\ k \in cover[q]
    BY <1>1, <1>3 DEF Segment
  <1>5. k \in Nat
    BY <1>4 DEF Covering
  <1>6. ~Ahead(cover[p], cover[q]) /\ ~Ahead(cover[q], cover[p])
    BY <1>4, <1>5 DEF Ahead
  <1>7. height[p] = height[q]
    BY <1>1
  <1> QED BY <1>6, <1>7 DEF Covering

\* The children of a branch are different pages.
LEMMA ChildrenDiffer ==
  ASSUME NEW cover, NEW height, NEW P, Covering(cover, height, P),
         NEW p \in P, NEW n, BranchOver(n, p, cover, height),
         NEW i \in 1 .. Len(n.keys) + 1, NEW j \in 1 .. Len(n.keys) + 1,
         n.children[i] \in P, n.children[i] = n.children[j]
  PROVE  i = j
  <1> DEFINE child == n.children[i]
  <1>1. /\ cover[child] = Segment(n.keys, i, cover[p])
        /\ cover[child] = Segment(n.keys, j, cover[p])
        /\ n.keys \in Seq(Int) /\ Sorted(n.keys)
    BY KeysAreNats DEF BranchOver, BranchNodes
  <1>2. cover[child] # {}
    BY DEF Covering
  <1> HIDE DEF child
  <1>3. PICK k \in cover[child] : TRUE
    BY <1>2
  <1>4. Between(n.keys, i, k) /\ Between(n.keys, j, k) /\ k \in cover[p]
    BY <1>1, <1>3 DEF Segment
  <1>5. k \in Int
    BY <1>4 DEF Covering
  <1> QED BY <1>1, <1>4, <1>5, BetweenUnique

\* A branch that has neither of the two pages of a split for a child.
LEMMA BranchElsewhere ==
  ASSUME NEW n, NEW p, NEW cover, NEW height, NEW c, NEW h,
         BranchOver(n, p, cover, height),
         c[p] = cover[p], h[p] = height[p],
         \A i \in 1 .. Len(n.keys) + 1 : /\ c[n.children[i]] = cover[n.children[i]]
                                         /\ h[n.children[i]] = height[n.children[i]]
  PROVE  BranchOver(n, p, c, h)
  BY DEF BranchOver, BranchNodes

\* The parent of a page that is split gets its new page.
LEMMA ParentBranch ==
  ASSUME NEW cover, NEW height, NEW P, Covering(cover, height, P),
         NEW t \in P, NEW new \in PageIds \ P,
         NEW sep \in cover[t], NEW low \in cover[t], low < sep, sep \in Keys,
         NEW c, NEW h, Divided(c, h, cover, height, t, new, sep),
         NEW p \in P \ {t}, NEW n, BranchOver(n, p, cover, height),
         Range(n.children) \subseteq P,
         NEW i \in 1 .. Len(n.keys) + 1, n.children[i] = t
  PROVE  BranchOver(BranchInsert(n, i - 1, sep, new), p, c, h)
  <1> DEFINE b == BranchInsert(n, i - 1, sep, new)
             ks == n.keys
             bs == n.children
             m == Len(ks)
             ks2 == InsertAt(ks, i, sep)
             bs2 == InsertAt(bs, i, new)
  <1>1. /\ c[t] = {k \in cover[t] : sep <= k}
        /\ c[new] = {k \in cover[t] : k < sep}
        /\ h[new] = height[t] 
        /\ \A q \in PageIds \ {t, new} : c[q] = cover[q]
        /\ \A q \in PageIds \ {new} : h[q] = height[q]
    BY DEF Divided
  <1>2. /\ P \subseteq PageIds /\ p # new /\ t # new /\ new \in PageIds
        /\ cover[p] \subseteq Nat /\ cover[t] \subseteq Nat
    BY DEF Covering
  <1>3. /\ n \in BranchNodes
        /\ ks \in Seq(Keys) /\ ks \in Seq(Int) /\ Sorted(ks) /\ m \in Nat
        /\ bs \in Seq(PageIds) /\ Len(bs) = m + 1
        /\ Range(ks) \subseteq cover[p]
        /\ \A j \in 1 .. m + 1 : /\ cover[bs[j]] = Segment(ks, j, cover[p])
                                 /\ height[bs[j]] + 1 = height[p]
        /\ i \in 1 .. m + 1 /\ bs[i] = t
    BY KeysAreNats DEF BranchOver, BranchNodes
  <1>4. i - 1 + 1 = i
    BY <1>3
  <1>5. b = [n EXCEPT !.keys = ks2, !.children = bs2]
    BY <1>4 DEF BranchInsert
  <1>6. ks2 \in Seq(Keys) /\ Inserted(ks2, ks, i, sep)
    BY <1>3, InsertAtElements
  <1>7. bs2 \in Seq(PageIds) /\ Inserted(bs2, bs, i, new)
    <2>1. i \in 1 .. Len(bs) + 1
      BY <1>3
    <2> QED BY <1>2, <1>3, <2>1, InsertAtElements
  <1>8. b.keys = ks2 /\ b.children = bs2 /\ b \in BranchNodes
    BY <1>3, <1>5, <1>6, <1>7 DEF BranchNodes
  <1>9. Between(ks, i, sep) /\ Between(ks, i, low) /\ sep \in cover[p] /\ low \in cover[p]
    <2>1. sep \in Segment(ks, i, cover[p]) /\ low \in Segment(ks, i, cover[p])
      BY <1>3
    <2> QED BY <2>1 DEF Segment
  <1>10. sep \in Int /\ low \in Int
    BY <1>2
  <1>11. /\ Sorted(ks2) /\ Len(ks2) = m + 1
         /\ \A k \in Int :
               /\ Between(ks2, i, k) <=> Between(ks, i, k) /\ k < sep
               /\ Between(ks2, i + 1, k) <=> Between(ks, i, k) /\ sep <= k
               /\ \A j \in 1 .. i - 1 : Between(ks2, j, k) <=> Between(ks, j, k)
               /\ \A j \in i + 1 .. m + 1 : Between(ks2, j + 1, k) <=> Between(ks, j, k)
    BY <1>3, <1>9, <1>10, SegmentSplit
  <1>12. Range(ks2) \subseteq cover[p]
    <2>1. \A j \in 1 .. m + 1 : ks2[j] = sep \/ \E l \in 1 .. m : ks2[j] = ks[l]
      <3> TAKE j \in 1 .. m + 1
      <3>1. CASE j <= i - 1
        BY <1>3, <1>6, <3>1 DEF Inserted
      <3>2. CASE j = i
        BY <1>6, <3>2 DEF Inserted
      <3>3. CASE j >= i + 1
        BY <1>3, <1>6, <3>3 DEF Inserted
      <3> QED BY <1>3, <3>1, <3>2, <3>3
    <2>2. \A l \in 1 .. m : ks[l] \in cover[p]
      BY <1>3 DEF Range
    <2>3. \A j \in 1 .. m + 1 : ks2[j] \in cover[p]
      BY <1>9, <2>1, <2>2
    <2> QED BY <1>6, <1>11, <2>3 DEF Range
  \* The other children stay what they are.
  <1>13. ASSUME NEW j \in 1 .. m + 1, j # i
         PROVE  bs[j] \in PageIds \ {t, new} /\ c[bs[j]] = cover[bs[j]] /\ h[bs[j]] = height[bs[j]]
    <2>1. bs[j] \in P
      BY <1>3 DEF Range
    <2>2. bs[j] # t
      <3>1. j \in 1 .. Len(n.keys) + 1 /\ n.children[j] \in P
        BY <2>1
      <3> QED BY <1>13, <3>1, ChildrenDiffer
    <2> QED BY <1>1, <1>2, <2>1, <2>2
  <1>14. h[p] = height[p] /\ c[p] = cover[p]
    BY <1>1, <1>2
  <1>15. ASSUME NEW j \in 1 .. m + 2
         PROVE  c[bs2[j]] = Segment(ks2, j, c[p]) /\ h[bs2[j]] + 1 = h[p]
    <2>1. CASE j <= i - 1
      <3>1. j \in 1 .. i - 1 /\ j \in 1 .. m + 1 /\ j # i
        BY <1>3, <2>1
      <3>2. bs2[j] = bs[j]
        BY <1>7, <3>1 DEF Inserted
      <3>3. Segment(ks2, j, cover[p]) = Segment(ks, j, cover[p])
        BY <1>2, <1>11, <3>1 DEF Segment
      <3>4. /\ cover[bs[j]] = Segment(ks, j, cover[p]) /\ height[bs[j]] + 1 = height[p]
            /\ c[bs[j]] = cover[bs[j]] /\ h[bs[j]] = height[bs[j]]
        BY <1>3, <1>13, <3>1
      <3> HIDE DEF ks, ks2, bs, bs2
      <3> QED BY <1>14, <3>2, <3>3, <3>4
    <2>2. CASE j = i
      <3>1. bs2[j] = new
        BY <1>7, <2>2 DEF Inserted
      <3>2. c[new] = Segment(ks2, i, cover[p])
        <4>1. cover[t] = Segment(ks, i, cover[p])
          BY <1>3
        <4>2. \A k \in Int : Between(ks2, i, k) <=> Between(ks, i, k) /\ k < sep
          BY <1>11
        <4> HIDE DEF ks, ks2
        <4> QED BY <1>1, <1>2, <4>1, <4>2 DEF Segment
      <3> QED BY <1>1, <1>3, <1>14, <2>2, <3>1, <3>2
    <2>3. CASE j = i + 1
      <3>1. bs2[j] = t
        BY <1>3, <1>7, <2>3 DEF Inserted
      <3>2. c[t] = Segment(ks2, i + 1, cover[p])
        <4>1. cover[t] = Segment(ks, i, cover[p])
          BY <1>3
        <4>2. \A k \in Int : Between(ks2, i + 1, k) <=> Between(ks, i, k) /\ sep <= k
          BY <1>11
        <4> HIDE DEF ks, ks2
        <4> QED BY <1>1, <1>2, <4>1, <4>2 DEF Segment
      <3>3. h[t] = height[t]
        BY <1>1, <1>2
      <3> QED BY <1>3, <1>14, <2>3, <3>1, <3>2, <3>3
    <2>4. CASE j > i + 1
      <3>1. PICK l \in i + 1 .. m + 1 : j = l + 1 /\ l = j - 1 /\ l # i /\ l \in 1 .. m + 1
        BY <1>3, <2>4
      <3>2. bs2[j] = bs[l]
        <4>1. j \in i + 1 .. Len(bs) + 1
          BY <1>3, <2>4
        <4> QED BY <1>7, <3>1, <4>1 DEF Inserted
      <3>3. \A k \in Int : Between(ks2, l + 1, k) <=> Between(ks, l, k)
        BY <1>11, <3>1
      <3>4. Segment(ks2, j, cover[p]) = Segment(ks, l, cover[p])
        BY <1>2, <3>1, <3>3 DEF Segment
      <3>5. c[bs[l]] = cover[bs[l]] /\ h[bs[l]] = height[bs[l]]
        BY <1>13, <3>1
      <3>6. cover[bs[l]] = Segment(ks, l, cover[p]) /\ height[bs[l]] + 1 = height[p]
        BY <1>3, <3>1
      <3> HIDE DEF ks, ks2, bs, bs2
      <3> QED BY <1>14, <3>2, <3>4, <3>5, <3>6
    <2> QED BY <1>3, <2>1, <2>2, <2>3, <2>4
  <1>16. Len(bs2) = m + 2 /\ ks2 # <<>>
    BY <1>3, <1>6, <1>7, <1>11 DEF Inserted
  <1>17. Len(b.children) = Len(b.keys) + 1 /\ 1 .. Len(b.keys) + 1 = 1 .. m + 2
    <2>1. Len(b.keys) = m + 1 /\ Len(b.children) = m + 2
      BY <1>8, <1>11, <1>16
    <2> HIDE DEF m, b
    <2> QED BY <1>3, <2>1
  <1> HIDE DEF b, ks2, bs2, m, bs
  <1>18. /\ Sorted(b.keys) /\ b.keys # <<>> /\ Range(b.keys) \subseteq c[p]
         /\ \A j \in 1 .. Len(b.keys) + 1 :
              c[b.children[j]] = Segment(b.keys, j, c[p]) /\ h[b.children[j]] + 1 = h[p]
    BY <1>8, <1>11, <1>12, <1>14, <1>15, <1>16, <1>17
  <1>19. BranchOver(b, p, c, h)
    BY <1>8, <1>17, <1>18 DEF BranchOver
  <1> QED BY <1>19 DEF b

\* The two branches of a split.
LEMMA CutBranch ==
  ASSUME NEW cover, NEW height, NEW P, Covering(cover, height, P),
         NEW p \in P, NEW new \in PageIds \ P,
         NEW n, BranchOver(n, p, cover, height), Range(n.children) \subseteq P,
         NEW z \in Nat, z >= 2, z < Len(n.keys),
         NEW c, NEW h, Divided(c, h, cover, height, p, new, n.keys[z])
  PROVE  /\ BranchOver(Branch(Upper(n.keys, z), Upper(n.children, z)), p, c, h)
         /\ BranchOver(Branch(Lower(n.keys, z - 1), Lower(n.children, z)), new, c, h)
         /\ n.keys[z] \in Keys /\ n.keys[1] \in cover[p] /\ n.keys[z] \in cover[p]
         /\ n.keys[1] < n.keys[z]
  <1> DEFINE ks == n.keys
             bs == n.children
             m == Len(ks)
             sep == ks[z]
             lks == SubSeq(ks, 1, z - 1)
             lbs == SubSeq(bs, 1, z)
             uks == SubSeq(ks, z + 1, m)
             ubs == SubSeq(bs, z + 1, m + 1)
  <1>1. /\ c[p] = {k \in cover[p] : sep <= k}
        /\ c[new] = {k \in cover[p] : k < sep}
        /\ h[new] = height[p]
        /\ \A q \in PageIds \ {p, new} : c[q] = cover[q]
        /\ \A q \in PageIds \ {new} : h[q] = height[q]
    BY DEF Divided
  <1>2. /\ P \subseteq PageIds /\ p # new /\ new \in PageIds
        /\ cover[p] \subseteq Nat /\ \A q \in P : height[q] \in Nat
    BY DEF Covering
  <1>3. /\ n \in BranchNodes
        /\ ks \in Seq(Keys) /\ ks \in Seq(Int) /\ Sorted(ks) /\ m \in Nat
        /\ bs \in Seq(PageIds) /\ Len(bs) = m + 1
        /\ Range(ks) \subseteq cover[p]
        /\ \A j \in 1 .. m + 1 : /\ cover[bs[j]] = Segment(ks, j, cover[p])
                                 /\ height[bs[j]] + 1 = height[p]
    BY KeysAreNats DEF BranchOver, BranchNodes
  <1>0. m \in Nat /\ z \in Nat /\ 2 <= z /\ z < m
    BY <1>3
  <1>4. z \in 1 .. m /\ z - 1 \in 0 .. m /\ z \in 0 .. m /\ z \in 0 .. m + 1 /\ 1 \in 1 .. m /\ 1 < z
    <2> HIDE DEF m
    <2> QED BY <1>0
  <1>5. /\ lks \in Seq(Keys) /\ Len(lks) = z - 1
        /\ \A j \in 1 .. z - 1 : lks[j] = ks[j]
    BY <1>3, <1>4, FrontInSeq
  <1>6. /\ uks \in Seq(Keys) /\ Len(uks) = m - z
        /\ \A j \in 1 .. m - z : uks[j] = ks[z + j]
    BY <1>3, <1>4, FrontInSeq
  <1>7. /\ lbs \in Seq(PageIds) /\ Len(lbs) = z
        /\ \A j \in 1 .. z : lbs[j] = bs[j]
        /\ ubs \in Seq(PageIds) /\ Len(ubs) = m + 1 - z
        /\ \A j \in 1 .. m + 1 - z : ubs[j] = bs[z + j]
    <2>1. z \in 0 .. Len(bs)
      <3>1. Len(bs) = m + 1
        BY <1>3
      <3> HIDE DEF bs, m
      <3> QED BY <1>0, <3>1
    <2>0. bs \in Seq(PageIds)
      BY <1>3
    <2>2. /\ SubSeq(bs, 1, z) \in Seq(PageIds) /\ Len(SubSeq(bs, 1, z)) = z
          /\ SubSeq(bs, z + 1, Len(bs)) \in Seq(PageIds)
          /\ Len(SubSeq(bs, z + 1, Len(bs))) = Len(bs) - z
          /\ \A j \in 1 .. z : SubSeq(bs, 1, z)[j] = bs[j]
          /\ \A j \in 1 .. Len(bs) - z : SubSeq(bs, z + 1, Len(bs))[j] = bs[z + j]
      <3> HIDE DEF bs
      <3> QED BY <2>0, <2>1, FrontInSeq
    <2>3. Len(bs) = m + 1 /\ m \in Nat
      BY <1>3
    <2> HIDE DEF bs, m
    <2> QED BY <2>2, <2>3
  <1>8. \A k \in Int :
          /\ \A j \in 1 .. z : Between(lks, j, k) /\ k < sep <=> Between(ks, j, k)
          /\ \A j \in 1 .. m - z + 1 : Between(uks, j, k) /\ sep <= k <=> Between(ks, z + j, k)
    BY <1>3, <1>4, SegmentCut
  <1>9. /\ \A j \in 1 .. m : ks[j] \in cover[p] /\ ks[j] \in Nat /\ ks[j] \in Keys
        /\ \A j \in 1 .. z - 1 : ks[j] < sep
        /\ \A j \in z + 1 .. m : sep <= ks[j]
    <2>1. \A j \in 1 .. m : ks[j] \in cover[p] /\ ks[j] \in Nat /\ ks[j] \in Keys
      <3> TAKE j \in 1 .. m
      <3>1. ks[j] \in Range(ks) /\ ks[j] \in Keys
        BY <1>3 DEF Range
      <3> QED BY <1>2, <1>3, <3>1
    <2>2. \A i, j \in 1 .. m : i < j => ks[i] < ks[j]
      BY <1>3, SortedPairs
    <2>3. \A j \in 1 .. z - 1 : j \in 1 .. m /\ j < z
      <3> HIDE DEF m
      <3> QED BY <1>0
    <2>4. \A j \in z + 1 .. m : j \in 1 .. m /\ z < j
      <3> HIDE DEF m
      <3> QED BY <1>0
    <2> HIDE DEF m, ks
    <2> QED BY <1>4, <2>1, <2>2, <2>3, <2>4
  <1>10. Sorted(lks) /\ Sorted(uks)
    <2>1. ASSUME NEW i \in 1 .. z - 1, NEW j \in 1 .. z - 1, i < j
          PROVE  lks[i] < lks[j]
      <3>1. i \in 1 .. m /\ j \in 1 .. m
        <4> HIDE DEF m
        <4> QED BY <1>0
      <3> QED BY <1>3, <1>5, <2>1, <3>1, SortedPairs
    <2>2. ASSUME NEW i \in 1 .. m - z, NEW j \in 1 .. m - z, i < j
          PROVE  uks[i] < uks[j]
      <3>1. z + i \in 1 .. m /\ z + j \in 1 .. m /\ z + i < z + j
        <4> HIDE DEF m
        <4> QED BY <1>0, <2>2
      <3>2. ks[z + i] < ks[z + j]
        BY <1>3, <3>1, SortedPairs
      <3> QED BY <1>6, <3>2
    <2>3. DOMAIN lks = 1 .. z - 1 /\ DOMAIN uks = 1 .. m - z
      BY <1>5, <1>6
    <2> HIDE DEF lks, uks, m
    <2> QED BY <2>1, <2>2, <2>3 DEF Sorted
  <1>11. Range(lks) \subseteq c[new] /\ Range(uks) \subseteq c[p]
    <2>1. \A j \in 1 .. z - 1 : lks[j] \in c[new]
      <3> TAKE j \in 1 .. z - 1
      <3>1. j \in 1 .. m
        <4> HIDE DEF m
        <4> QED BY <1>0
      <3> QED BY <1>1, <1>5, <1>9, <3>1
    <2>2. \A j \in 1 .. m - z : uks[j] \in c[p]
      <3> TAKE j \in 1 .. m - z
      <3>1. z + j \in 1 .. m /\ z + j \in z + 1 .. m
        <4> HIDE DEF m
        <4> QED BY <1>0
      <3>2. ks[z + j] \in cover[p] /\ sep <= ks[z + j]
        BY <1>9, <3>1
      <3> QED BY <1>1, <1>6, <3>2
    <2> HIDE DEF lks, uks, m
    <2> QED BY <1>5, <1>6, <2>1, <2>2 DEF Range
  <1>12. \A j \in 1 .. m + 1 : c[bs[j]] = cover[bs[j]] /\ h[bs[j]] = height[bs[j]]
    <2> TAKE j \in 1 .. m + 1
    <2>1. bs[j] \in P
      BY <1>3 DEF Range
    <2>2. bs[j] # p
      BY <1>2, <1>3, <2>1
    <2> QED BY <1>1, <1>2, <2>1, <2>2
  <1>13. h[p] = height[p]
    BY <1>1, <1>2
  <1> HIDE DEF lks, uks, lbs, ubs, m, ks, bs
  <1>14. ASSUME NEW j \in 1 .. z
         PROVE  c[lbs[j]] = Segment(lks, j, c[new]) /\ h[lbs[j]] + 1 = h[new]
    <2>1. j \in 1 .. m + 1
      BY <1>0
    <2>2. cover[bs[j]] = Segment(ks, j, cover[p]) /\ height[bs[j]] + 1 = height[p]
      BY <1>3, <2>1
    <2>3. \A k \in Int : Between(lks, j, k) /\ k < sep <=> Between(ks, j, k)
      BY <1>8
    <2>4. Segment(lks, j, c[new]) = Segment(ks, j, cover[p])
      BY <1>1, <1>2, <2>3 DEF Segment
    <2> QED BY <1>1, <1>7, <1>12, <2>1, <2>2, <2>4
  <1>15. ASSUME NEW j \in 1 .. m - z + 1
         PROVE  c[ubs[j]] = Segment(uks, j, c[p]) /\ h[ubs[j]] + 1 = h[p]
    <2>1. z + j \in 1 .. m + 1 /\ j \in 1 .. m + 1 - z
      BY <1>0
    <2>2. cover[bs[z + j]] = Segment(ks, z + j, cover[p]) /\ height[bs[z + j]] + 1 = height[p]
      BY <1>3, <2>1
    <2>3. \A k \in Int : Between(uks, j, k) /\ sep <= k <=> Between(ks, z + j, k)
      BY <1>8
    <2>4. Segment(uks, j, c[p]) = Segment(ks, z + j, cover[p])
      BY <1>1, <1>2, <2>3 DEF Segment
    <2>5. ubs[j] = bs[z + j]
      BY <1>7, <2>1
    <2> QED BY <1>12, <1>13, <2>1, <2>2, <2>4, <2>5
  <1> DEFINE lower == Branch(lks, lbs)
             upper == Branch(uks, ubs)
  <1>16. /\ lower \in BranchNodes /\ lower.keys = lks /\ lower.children = lbs
         /\ upper \in BranchNodes /\ upper.keys = uks /\ upper.children = ubs
    BY <1>5, <1>6, <1>7 DEF Branch, BranchNodes
  <1> HIDE DEF lower, upper
  <1>17. /\ lks # <<>> /\ Len(lbs) = Len(lks) + 1 /\ Len(lks) + 1 = z
         /\ uks # <<>> /\ Len(ubs) = Len(uks) + 1 /\ Len(uks) + 1 = m - z + 1
    <2>1. Len(lks) # 0 /\ Len(uks) # 0
      BY <1>0, <1>5, <1>6
    <2> QED BY <1>3, <1>4, <1>5, <1>6, <1>7, <2>1
  <1>18. BranchOver(lower, new, c, h)
    <2>1. \A j \in 1 .. Len(lower.keys) + 1 :
             c[lower.children[j]] = Segment(lower.keys, j, c[new]) /\ h[lower.children[j]] + 1 = h[new]
      BY <1>14, <1>16, <1>17
    <2>2. /\ Sorted(lower.keys) /\ lower.keys # <<>> /\ Range(lower.keys) \subseteq c[new]
          /\ Len(lower.children) = Len(lower.keys) + 1
      BY <1>10, <1>11, <1>16, <1>17
    <2> QED BY <1>16, <2>1, <2>2 DEF BranchOver
  <1>19. BranchOver(upper, p, c, h)
    <2>1. \A j \in 1 .. Len(upper.keys) + 1 :
             c[upper.children[j]] = Segment(upper.keys, j, c[p]) /\ h[upper.children[j]] + 1 = h[p]
      BY <1>15, <1>16, <1>17
    <2>2. /\ Sorted(upper.keys) /\ upper.keys # <<>> /\ Range(upper.keys) \subseteq c[p]
          /\ Len(upper.children) = Len(upper.keys) + 1
      BY <1>10, <1>11, <1>16, <1>17
    <2> QED BY <1>16, <2>1, <2>2 DEF BranchOver
  <1>20. lower = Branch(Lower(n.keys, z - 1), Lower(n.children, z))
    BY DEF lower, lks, lbs, ks, bs, Lower
  <1>21. upper = Branch(Upper(n.keys, z), Upper(n.children, z))
    BY <1>3 DEF upper, uks, ubs, ks, bs, m, Upper
  <1>22. sep \in Keys /\ sep \in cover[p] /\ ks[1] \in cover[p] /\ ks[1] < sep
    <2>1. 1 \in 1 .. z - 1
      BY <1>4
    <2> QED BY <1>4, <1>9, <2>1
  <1> QED BY <1>18, <1>19, <1>20, <1>21, <1>22 DEF ks

-----------------------------------------------------------------------------
(* Where the pairs of a node are cut, with the lengths that they have.     *)

\* The keys whose pairs pass the assertion of Branch::insert.
ShortKeys == {k \in Keys : BranchPair(k) <= MaxPairSize(BranchCapacity)}

LEMMA PairsAreShort ==
  /\ ShortPairs(LeafPairs, Keys, LeafCapacity) /\ LeafCapacity \in Nat
  /\ ShortPairs(BranchPairs, ShortKeys, BranchCapacity) /\ BranchCapacity \in Nat
  /\ ShortKeys \subseteq Keys
  /\ \A s : s \in Seq(ShortKeys) => s \in Seq(Keys)
  <1>1. LeafCapacity = 4064 /\ BranchCapacity = 4072
    BY DEF LeafCapacity, BranchCapacity, PAGE_SIZE
  <1>2. MaxPairSize(LeafCapacity) = 2028 /\ MaxPairSize(BranchCapacity) = 2032
    BY <1>1 DEF MaxPairSize, PointerSize
  <1>3. \A k \in Keys : LeafPairs[k] \in Nat /\ BranchPairs[k] \in Nat
    BY BTreeAssumption DEF LeafPairs, BranchPairs, LeafPair, BranchPair, PairSize, VarintLen, PageIdLen
  <1>4. \A k \in Keys : LeafPairs[k] = LeafPair(k) /\ BranchPairs[k] = BranchPair(k)
    BY DEF LeafPairs, BranchPairs
  <1>5. \A k \in Keys : LeafPairs[k] <= 2028
    BY <1>2, <1>4, BTreeAssumption
  <1>6. \A k \in ShortKeys : BranchPairs[k] <= 2032 /\ k \in Keys
    BY <1>2, <1>4 DEF ShortKeys
  <1>7. ShortPairs(LeafPairs, Keys, LeafCapacity)
    BY <1>1, <1>3, <1>5 DEF ShortPairs, PointerSize
  <1>8. ShortPairs(BranchPairs, ShortKeys, BranchCapacity)
    BY <1>1, <1>3, <1>6 DEF ShortPairs, PointerSize
  <1>9. ShortKeys \subseteq Keys
    BY <1>6
  <1> QED BY <1>1, <1>7, <1>8, <1>9, SeqMonotonic

\* A pair that fits.
LEMMA RoomFits ==
  ASSUME NEW K, NEW keys \in Seq(K), NEW i \in 1 .. Len(keys) + 1, NEW key1 \in K,
         NEW size, Sized(size, K), NEW capacity \in Nat,
         HasRoom(keys, key1, size, capacity)
  PROVE  InsertAt(keys, i, key1) \in Seq(K) /\ Used(InsertAt(keys, i, key1), size) <= capacity
  <1>1. Used(InsertAt(keys, i, key1), size) = Used(keys, size) + PointerSize + size[key1]
    BY UsedInsert
  <1>2. Used(keys, size) \in Nat /\ size[key1] \in Nat /\ PointerSize \in Nat
    BY UsedType DEF Sized, PointerSize
  <1>3. capacity - Used(keys, size) >= PointerSize + size[key1]
    BY DEF HasRoom, FreeSpace
  <1>4. InsertAt(keys, i, key1) \in Seq(K)
    BY InsertAtElements
  <1> QED BY <1>1, <1>2, <1>3, <1>4

\* A pair that does not fit: the node is cut with it.
LEMMA SplitPointCuts ==
  ASSUME NEW K, K \subseteq Int, NEW keys \in Seq(K), Sorted(keys), NEW key1 \in K,
         ~Holds(keys, key1), NEW size, NEW capacity \in Nat, ShortPairs(size, K, capacity),
         Used(keys, size) <= capacity, ~HasRoom(keys, key1, size, capacity)
  PROVE  /\ InsertKey(keys, key1) \in Seq(K) /\ Sorted(InsertKey(keys, key1))
         /\ Len(InsertKey(keys, key1)) = Len(keys) + 1
         /\ Range(InsertKey(keys, key1)) = Range(keys) \union {key1}
         /\ SplitPoint(keys, key1, size, capacity) \in 2 .. Len(keys)
         /\ Used(Lower(InsertKey(keys, key1), SplitPoint(keys, key1, size, capacity)), size) <= capacity
         /\ Used(Upper(InsertKey(keys, key1), SplitPoint(keys, key1, size, capacity)), size) <= capacity
  <1> DEFINE all == InsertKey(keys, key1)
             point == SplitPoint(keys, key1, size, capacity)
  <1>1. Sized(size, K) /\ keys \in Seq(Int) /\ key1 \in Int
    BY ShortPairsSized, SeqMonotonic
  <1>2. /\ SlotOf(keys, key1) \in 0 .. Len(keys)
        /\ Placed(all, keys, key1, SlotOf(keys, key1))
    BY <1>1, InsertKeyPlaces
  <1>3. Sorted(all) /\ Range(all) = Range(keys) \union {key1}
    BY <1>1, <1>2, PlacedSorted, PlacedRange
  <1>4. Len(all) = Len(keys) + 1
    BY <1>2 DEF Placed
  <1>5. SlotOf(keys, key1) + 1 \in 1 .. Len(keys) + 1
    BY <1>2
  <1>6. all \in Seq(K) /\ Used(all, size) = Used(keys, size) + PointerSize + size[key1]
    BY <1>1, <1>5, InsertAtElements, UsedInsert DEF InsertKey
  <1> HIDE DEF all, point
  <1>7. /\ Used(keys, size) \in Nat /\ size[key1] \in Nat
        /\ 2 * (PointerSize + size[key1]) <= capacity /\ PointerSize \in Nat
    BY <1>1, UsedType DEF ShortPairs, PointerSize
  <1>8. capacity - Used(keys, size) < PointerSize + size[key1]
    BY <1>7 DEF HasRoom, FreeSpace
  <1>9. Used(all, size) > capacity /\ 2 * Used(all, size) <= 3 * capacity
    <2> DEFINE u == Used(keys, size)
               s == size[key1]
               a == Used(all, size)
    <2>1. /\ u \in Nat /\ s \in Nat /\ 2 * (PointerSize + s) <= capacity /\ PointerSize \in Nat
          /\ capacity - u < PointerSize + s /\ u <= capacity /\ a = u + PointerSize + s
      BY <1>6, <1>7, <1>8
    <2> HIDE DEF u, s, a
    <2>2. a > capacity /\ 2 * a <= 3 * capacity
      BY <2>1
    <2> QED BY <2>2 DEF a
  <1>10. PICK n : Cut(n, all, size, capacity)
    BY <1>1, <1>6, <1>9, CutExists
  <1>11. point = n
    BY <1>1, <1>6, <1>10, SplitPointIsCut DEF all, point
  <1>12. /\ n >= 2 /\ n < Len(all) /\ n \in Nat
         /\ Used(Lower(all, n), size) <= capacity /\ Used(Upper(all, n), size) <= capacity
    BY <1>6, <1>9, <1>10, CutFits DEF Cut
  <1>13. n \in 2 .. Len(keys)
    BY <1>4, <1>12
  <1> QED BY <1>3, <1>4, <1>6, <1>11, <1>12, <1>13 DEF all, point

\* A key that was put where the others stay in order is where its slot is.
LEMMA SlotOfInserted ==
  ASSUME NEW keys \in Seq(Int), Sorted(keys), NEW at \in 1 .. Len(keys) + 1,
         NEW sep \in Int, Sorted(InsertAt(keys, at, sep))
  PROVE  SlotOf(keys, sep) + 1 = at /\ ~Holds(keys, sep)
  <1> DEFINE all == InsertAt(keys, at, sep)
             m == Len(keys)
             slot == SlotOf(keys, sep)
  <1>1. all \in Seq(Int) /\ Inserted(all, keys, at, sep) /\ m \in Nat
    BY InsertAtElements
  <1>2. slot \in 0 .. m /\ Splits(slot, keys, m, sep)
    BY SlotOfSplits
  <1> HIDE DEF all, slot
  <1>3. Len(all) = m + 1 /\ Sorted(all) /\ all[at] = sep
    BY <1>1 DEF Inserted, all
  <1>4. \A j \in 1 .. at - 1 : keys[j] < sep
    <2> TAKE j \in 1 .. at - 1
    <2>1. j \in 1 .. Len(all) /\ at \in 1 .. Len(all) /\ j < at
      BY <1>1, <1>3
    <2>2. all[j] < all[at]
      BY <1>1, <1>3, <2>1, SortedPairs
    <2>3. all[j] = keys[j]
      BY <1>1 DEF Inserted
    <2> QED BY <1>3, <2>2, <2>3
  <1>5. \A j \in at .. m : sep < keys[j]
    <2> TAKE j \in at .. m
    <2>1. j + 1 \in 1 .. Len(all) /\ at \in 1 .. Len(all) /\ at < j + 1 /\ j + 1 \in at + 1 .. m + 1
      BY <1>1, <1>3
    <2>2. all[at] < all[j + 1]
      BY <1>1, <1>3, <2>1, SortedPairs
    <2>3. \A l \in at + 1 .. m + 1 : all[l] = keys[l - 1]
      BY <1>1 DEF Inserted
    <2>4. PICK l \in at + 1 .. m + 1 : l = j + 1 /\ l - 1 = j
      BY <1>1, <2>1
    <2>5. all[j + 1] = keys[j]
      BY <2>3, <2>4
    <2> QED BY <1>3, <2>2, <2>5
  <1>6. \A j \in 1 .. m : keys[j] \in Int
    OBVIOUS
  <1>7. ~Holds(keys, sep)
    <2> SUFFICES ASSUME NEW j \in 1 .. m PROVE keys[j] # sep
      BY DEF Holds
    <2>1. CASE j \in 1 .. at - 1
      BY <1>4, <1>6, <2>1
    <2>2. CASE j \in at .. m
      BY <1>5, <1>6, <2>2
    <2> QED BY <1>1, <2>1, <2>2
  <1>8. slot + 1 = at
    <2> HIDE DEF m
    <2>1. CASE slot < at - 1
      <3>1. slot + 1 \in 1 .. m /\ slot + 1 \in 1 .. at - 1 /\ ~(slot + 1 <= slot)
        BY <1>1, <1>2, <2>1 DEF m
      <3> QED BY <1>2, <1>4, <3>1 DEF Splits
    <2>2. CASE slot > at - 1
      <3>1. at \in 1 .. m /\ at \in at .. m /\ at <= slot
        BY <1>1, <1>2, <2>2 DEF m
      <3>2. keys[at] < sep /\ sep < keys[at] /\ keys[at] \in Int
        BY <1>2, <1>5, <1>6, <3>1 DEF Splits
      <3> QED BY <3>2
    <2> QED BY <1>1, <1>2, <2>1, <2>2 DEF m
  <1> QED BY <1>7, <1>8 DEF slot

-----------------------------------------------------------------------------
(* The inductive invariant.                                                *)

LeavesOf(N) == {p \in PageIds : N[p] \in LeafNodes}
BranchesOf(N) == {p \in PageIds : N[p] \in BranchNodes}
NodesOf(N) == LeavesOf(N) \union BranchesOf(N)

\* Each node by itself.
LeafSound(N, p) ==
    /\ N[p].prev_page_id \in LeavesOf(N) \union {INVALID_PAGE_ID}
    /\ N[p].next_page_id \in LeavesOf(N) \union {INVALID_PAGE_ID}
    /\ Sorted(N[p].keys)
    /\ Used(N[p].keys, LeafPairs) <= LeafCapacity
BranchSound(N, p) ==
    /\ N[p].keys \in Seq(ShortKeys) /\ N[p].keys # <<>> /\ Sorted(N[p].keys)
    /\ Len(N[p].children) = Len(N[p].keys) + 1
    /\ Range(N[p].children) \subseteq NodesOf(N)
    /\ Used(N[p].keys, BranchPairs) <= BranchCapacity

NodesInv(N, next, meta, root) ==
    /\ N \in [PageIds -> {NoNode} \union LeafNodes \union BranchNodes]
    /\ next \in 0 .. MaxPages
    /\ \A p \in NodesOf(N) : p < next
    /\ meta \in PageIds \ NodesOf(N) /\ meta < next
    /\ root \in NodesOf(N)
    /\ \A p \in LeavesOf(N) : LeafSound(N, p)
    /\ \A p \in BranchesOf(N) : BranchSound(N, p)

\* The nodes, with what insert is about to put into the branch that it is at.
Wholes ==
    IF pc = "unwind" /\ Top \in BranchesOf(nodes)
    THEN [nodes EXCEPT ![Top] = BranchInsert(@, SearchChildIdx(@, key),
                                             overflow.key, overflow.page_id)]
    ELSE nodes

\* The levels of the tree, W being the nodes as they will be.
Levels(N, W, cover, height) ==
    /\ Covering(cover, height, NodesOf(N))
    /\ \A p \in LeavesOf(N) : height[p] = 0 /\ Range(N[p].keys) \subseteq cover[p]
    /\ \A p \in BranchesOf(N) : /\ BranchOver(W[p], p, cover, height)
                                /\ Range(W[p].children) \subseteq NodesOf(N)

SplitRoot == pc = "unwind" /\ Top = meta_page_id

\* The root covers everything, unless it was just split.
RootInv(cover, height) ==
    /\ \A p \in NodesOf(nodes) : height[p] <= height[root_page_id]
    /\ ~SplitRoot => cover[root_page_id] = Nat
    /\ SplitRoot =>
          /\ cover[root_page_id] = {k \in Nat : overflow.key <= k}
          /\ cover[overflow.page_id] = {k \in Nat : k < overflow.key}
          /\ height[overflow.page_id] = height[root_page_id]
          /\ overflow.page_id # root_page_id

\* The links between leaves follow what they cover.
Links(N, cover) ==
    \A p, q \in LeavesOf(N) :
        /\ N[p].next_page_id = q <=> N[q].prev_page_id = p
        /\ N[p].next_page_id = q => Ahead(cover[p], cover[q])
        /\ p # q /\ Ahead(cover[p], cover[q]) =>
              /\ N[p].next_page_id # INVALID_PAGE_ID
              /\ N[p].next_page_id = q \/ Ahead(cover[N[p].next_page_id], cover[q])

\* The pages that insert holds lead from the root to the key k.
PathOver(s, k, N, meta, root, cover, height) ==
    /\ s \in Seq(PageIds)
    /\ Len(s) >= 1 => s[1] = meta
    /\ Len(s) >= 2 => s[2] = root
    /\ \A i \in 2 .. Len(s) : /\ s[i] \in NodesOf(N) /\ k \in cover[s[i]]
                              /\ height[s[i]] + i = height[root] + 2
    /\ \A i \in 2 .. Len(s) - 1 : /\ s[i] \in BranchesOf(N)
                                  /\ s[i + 1] = SearchChild(N[s[i]], k)

PathInv(cover, height) ==
    pc \in {"root", "descend", "split", "unwind"} =>
      PathOver(path, key, nodes, meta_page_id, root_page_id, cover, height)

\* What a call has in hand.
CallInv ==
    /\ foreign \in Nat
    /\ pair \in Keys \union {NoKey} /\ value \in Keys \union {NoKey}
    /\ iter = NoIter \/ iter \in [page : LeavesOf(nodes), slot_id : Nat]
    /\ pc \in {"idle", "meta", "root", "descend", "split", "unwind", "search_meta",
               "search_root", "search", "open_advance", "next", "advance"}
    /\ pc \notin {"root", "descend", "split", "unwind", "search"} => path = <<>>
    /\ pc \in {"meta", "root", "descend", "split", "unwind"} => key \in Keys
    /\ pc \in {"search_meta", "search_root", "search"} => key \in Keys \union {0}
    /\ pc = "root" => path = <<meta_page_id>>
    /\ pc \in {"descend", "split"} => Len(path) >= 2
    /\ pc = "search" => \E p \in NodesOf(nodes) : path = <<p>>
    /\ pc # "split" => prev = INVALID_PAGE_ID
    /\ pc \in {"open_advance", "next", "advance"} => iter # NoIter
    /\ pc \in {"open_advance", "advance"} => IterLeaf.next_page_id # INVALID_PAGE_ID

SplitInv ==
    pc = "split" => /\ Top \in LeavesOf(nodes) /\ prev = Node.prev_page_id
                    /\ ~Holds(Node.keys, key) /\ ~LeafHasRoom

EmptyInv == \A p \in LeavesOf(nodes) :
              nodes[p].keys = <<>> => p = root_page_id /\ pc # "unwind"

UnwindInv ==
    pc = "unwind" => /\ Len(path) >= 1
                     /\ Top = meta_page_id \/ Top \in BranchesOf(nodes)
                     /\ overflow.key \in Keys
                     /\ overflow.page_id \in NodesOf(nodes)
                     /\ Pinned < PoolSize

Inv(cover, height) ==
    /\ NodesInv(nodes, next_page_id, meta_page_id, root_page_id)
    /\ Levels(nodes, Wholes, cover, height)
    /\ RootInv(cover, height)
    /\ Links(nodes, cover)
    /\ PathInv(cover, height)
    /\ CallInv /\ SplitInv /\ EmptyInv /\ UnwindInv

\* Before the tree is created, or after that failed.
Empty ==
    /\ pc = "none"
    /\ nodes = [p \in PageIds |-> NoNode]
    /\ next_page_id \in 0 .. MaxPages
    /\ path = <<>> /\ prev = INVALID_PAGE_ID
    /\ iter = NoIter /\ pair = NoKey /\ value = NoKey
    /\ foreign \in Nat

TreeInv == Empty \/ \E cover, height : Inv(cover, height)

-----------------------------------------------------------------------------
(* Steps that leave the tree as it is.                                     *)

LEMMA EmptyNode ==
  NoNode \notin LeafNodes /\ NoNode \notin BranchNodes /\ LeafNodes \intersect BranchNodes = {}
  BY DEF NoNode, LeafNodes, BranchNodes

LEMMA Initially == Init => TreeInv
  BY BTreeAssumption DEF Init, TreeInv, Empty, NoKey, NoIter

\* What a step that keeps the tree has to keep.
LEMMA SameTree ==
  ASSUME NEW cover, NEW height, Inv(cover, height), UNCHANGED tree,
         pc # "unwind", pc' # "unwind",
         CallInv', SplitInv', PathInv(cover, height)'
  PROVE  Inv(cover, height)'
  <1>1. nodes' = nodes /\ next_page_id' = next_page_id
        /\ meta_page_id' = meta_page_id /\ root_page_id' = root_page_id
    BY DEF tree
  <1>2. NodesInv(nodes, next_page_id, meta_page_id, root_page_id)'
    BY <1>1 DEF Inv
  <1>3. Wholes' = nodes /\ Wholes = nodes
    BY <1>1 DEF Wholes
  <1>4. Levels(nodes, Wholes, cover, height)'
    BY <1>1, <1>3 DEF Inv
  <1>5. RootInv(cover, height)'
    BY <1>1 DEF Inv, RootInv, SplitRoot
  <1>6. Links(nodes, cover)'
    BY <1>1 DEF Inv
  <1>7. EmptyInv' /\ UnwindInv'
    BY <1>1 DEF Inv, EmptyInv, UnwindInv
  <1> QED BY <1>2, <1>4, <1>5, <1>6, <1>7 DEF Inv

\* A return to idle.
LEMMA Returned ==
  ASSUME NEW cover, NEW height, Inv(cover, height), UNCHANGED tree, NEW res, Return(res),
         pc # "unwind", foreign' = foreign, value' \in Keys \union {NoKey},
         iter' = NoIter \/ iter' \in [page : LeavesOf(nodes), slot_id : Nat]
  PROVE  Inv(cover, height)'
  <1>1. nodes' = nodes
    BY DEF tree
  <1>2. /\ pc' = "idle" /\ path' = <<>> /\ prev' = INVALID_PAGE_ID /\ pair' = NoKey
    BY DEF Return
  <1>3. CallInv'
    BY <1>1, <1>2 DEF CallInv, Inv
  <1>4. SplitInv' /\ PathInv(cover, height)'
    BY <1>2 DEF SplitInv, PathInv
  <1> QED BY <1>2, <1>3, <1>4, SameTree

LEMMA Kinds ==
  ASSUME NEW N, N \in [PageIds -> {NoNode} \union LeafNodes \union BranchNodes]
  PROVE  /\ \A p \in PageIds : /\ N[p] = NoNode <=> p \notin NodesOf(N)
                               /\ N[p] # NoNode /\ N[p].node_type = "LEAF" <=> p \in LeavesOf(N)
                               /\ N[p] # NoNode /\ N[p].node_type = "BRANCH" <=> p \in BranchesOf(N)
         /\ \A p \in PageIds : p \in NodesOf(N) =>
              (N[p].node_type = "LEAF" <=> p \in LeavesOf(N))
         /\ LeavesOf(N) \intersect BranchesOf(N) = {}
         /\ LeavesOf(N) \subseteq PageIds /\ BranchesOf(N) \subseteq PageIds
         /\ NodesOf(N) \subseteq PageIds
  BY EmptyNode DEF LeavesOf, BranchesOf, NodesOf, LeafNodes, BranchNodes, NoNode

LEMMA TopIsLast == Top = path[Len(path)]
  BY DEF Top, Last

\* Where insert is on its way down.
LEMMA OnTheWay ==
  ASSUME NEW cover, NEW height, Inv(cover, height), pc \in {"descend", "split"}
  PROVE  /\ Len(path) \in Nat /\ Len(path) >= 2 /\ path \in Seq(PageIds)
         /\ Top = path[Len(path)] /\ Top \in NodesOf(nodes) /\ Top \in PageIds
         /\ key \in cover[Top] /\ key \in Keys /\ key \in Nat
         /\ height[Top] + Len(path) = height[root_page_id] + 2
         /\ AtLeaf <=> Top \in LeavesOf(nodes)
         /\ AtBranch <=> Top \in BranchesOf(nodes)
  <1>1. PathOver(path, key, nodes, meta_page_id, root_page_id, cover, height)
    BY DEF Inv, PathInv
  <1>2. Len(path) \in Nat /\ Len(path) >= 2 /\ path \in Seq(PageIds) /\ key \in Keys
    BY <1>1 DEF PathOver, Inv, CallInv
  <1>3. Len(path) \in 2 .. Len(path)
    BY <1>2
  <1>4. /\ Top = path[Len(path)] /\ Top \in NodesOf(nodes) /\ key \in cover[Top]
        /\ height[Top] + Len(path) = height[root_page_id] + 2
    BY <1>1, <1>3, TopIsLast DEF PathOver
  <1>5. key \in Nat
    BY <1>2, KeysAreNats
  <1>6. nodes \in [PageIds -> {NoNode} \union LeafNodes \union BranchNodes]
    BY DEF Inv, NodesInv
  <1>7. Top \in PageIds
    BY <1>4, <1>6, Kinds
  <1>8. AtLeaf <=> Top \in LeavesOf(nodes)
    BY <1>4, <1>6, <1>7, Kinds DEF AtLeaf, Node
  <1>9. AtBranch <=> Top \in BranchesOf(nodes)
    BY <1>4, <1>6, <1>7, Kinds, EmptyNode DEF AtBranch, Node
  <1> QED BY <1>2, <1>4, <1>5, <1>7, <1>8, <1>9

\* The child that a search goes to.
LEMMA ChildIsNode ==
  ASSUME NEW cover, NEW height, Inv(cover, height), pc # "unwind",
         NEW p \in BranchesOf(nodes), NEW k \in Nat
  PROVE  /\ SearchChild(nodes[p], k) \in NodesOf(nodes)
         /\ SearchChild(nodes[p], k) \in PageIds
         /\ k \in cover[p] => k \in cover[SearchChild(nodes[p], k)]
         /\ height[SearchChild(nodes[p], k)] + 1 = height[p]
  <1>1. Wholes = nodes
    BY DEF Wholes
  <1>2. BranchOver(nodes[p], p, cover, height) /\ Range(nodes[p].children) \subseteq NodesOf(nodes)
    BY <1>1 DEF Inv, Levels
  <1> DEFINE n == nodes[p]
             idx == SearchChildIdx(n, k)
             child == SearchChild(n, k)
  <1> HIDE DEF n
  <1>3. BranchOver(n, p, cover, height) /\ Range(n.children) \subseteq NodesOf(nodes)
    BY <1>2 DEF n
  <1>4. /\ idx + 1 \in 1 .. Len(n.keys) + 1
        /\ child = n.children[idx + 1]
        /\ child \in PageIds
        /\ k \in cover[p] => k \in cover[child]
        /\ height[child] + 1 = height[p]
    BY <1>3, SearchDescends
  <1> HIDE DEF idx, child
  <1>5. n.children \in Seq(PageIds) /\ Len(n.children) = Len(n.keys) + 1
    BY <1>3 DEF BranchOver, BranchNodes
  <1>6. child \in NodesOf(nodes)
    BY <1>3, <1>4, <1>5 DEF Range
  <1> QED BY <1>4, <1>6 DEF n, child

LEMMA FetchMetaKeeps ==
  ASSUME NEW cover, NEW height, Inv(cover, height), FetchMeta
  PROVE  Inv(cover, height)'
  <1>1. /\ pc = "meta" /\ pc' = "root" /\ UNCHANGED <<tree, key, prev, overflow, pair, iter, result, value, foreign>>
        /\ path = <<>> /\ path' = Append(path, meta_page_id) /\ nodes' = nodes
        /\ meta_page_id' = meta_page_id /\ root_page_id' = root_page_id
    BY DEF FetchMeta, Fetch, Inv, CallInv, tree
  <1>2. path' = <<meta_page_id>> /\ meta_page_id \in PageIds
    BY <1>1 DEF Inv, NodesInv
  <1>3. CallInv'
    BY <1>1, <1>2 DEF Inv, CallInv
  <1>4. SplitInv'
    BY <1>1 DEF SplitInv
  <1>5. PathInv(cover, height)'
    BY <1>1, <1>2 DEF PathInv, PathOver
  <1> QED BY <1>1, <1>3, <1>4, <1>5, SameTree

LEMMA AppendPair ==
  ASSUME NEW S, NEW a \in S, NEW b \in S
  PROVE  Append(<<a>>, b) = <<a, b>>
  <1> DEFINE s == Append(<<a>>, b)
             t == <<a, b>>
  <1>1. s \in Seq(S) /\ Len(s) = 2 /\ s[1] = a /\ s[2] = b
    OBVIOUS
  <1>2. t \in Seq(S) /\ Len(t) = 2 /\ t[1] = a /\ t[2] = b
    OBVIOUS
  <1> HIDE DEF s, t
  <1>3. \A i \in 1 .. 2 : s[i] = t[i]
    BY <1>1, <1>2
  <1>4. s = t
    BY <1>1, <1>2, <1>3, SeqEqual
  <1> QED BY <1>4 DEF s, t

LEMMA FetchRootKeeps ==
  ASSUME NEW cover, NEW height, Inv(cover, height), FetchRoot
  PROVE  Inv(cover, height)'
  <1>1. /\ pc = "root" /\ pc' = "descend" /\ UNCHANGED <<tree, key, prev, overflow, pair, iter, result, value, foreign>>
        /\ path = <<meta_page_id>> /\ path' = Append(path, root_page_id) /\ nodes' = nodes
        /\ meta_page_id' = meta_page_id /\ root_page_id' = root_page_id /\ key \in Keys /\ key' = key
    BY DEF FetchRoot, Fetch, Inv, CallInv, tree
  <1>2. /\ path' = <<meta_page_id, root_page_id>> /\ meta_page_id \in PageIds
        /\ root_page_id \in PageIds /\ root_page_id \in NodesOf(nodes)
        /\ key \in Nat
    <2>1. /\ nodes \in [PageIds -> {NoNode} \union LeafNodes \union BranchNodes]
          /\ root_page_id \in NodesOf(nodes) /\ meta_page_id \in PageIds
      BY DEF Inv, NodesInv
    <2>2. root_page_id \in PageIds
      BY <2>1, Kinds
    <2>3. path' = Append(<<meta_page_id>>, root_page_id)
      BY <1>1
    <2>4. path' = <<meta_page_id, root_page_id>>
      BY <2>1, <2>2, <2>3, AppendPair
    <2> QED BY <1>1, <2>1, <2>2, <2>4, KeysAreNats
  <1>3. CallInv'
    BY <1>1, <1>2 DEF Inv, CallInv
  <1>4. SplitInv'
    BY <1>1 DEF SplitInv
  <1>5. key \in cover[root_page_id] /\ height[root_page_id] \in Nat
    BY <1>1, <1>2 DEF Inv, RootInv, SplitRoot, Levels, Covering
  <1>6. PathInv(cover, height)'
    BY <1>1, <1>2, <1>5 DEF PathInv, PathOver
  <1> QED BY <1>1, <1>3, <1>4, <1>6, SameTree

LEMMA FetchChildKeeps ==
  ASSUME NEW cover, NEW height, Inv(cover, height), FetchChild
  PROVE  Inv(cover, height)'
  <1> DEFINE child == SearchChild(Node, key)
             n == Len(path)
  <1>1. /\ pc = "descend" /\ pc' = "descend" /\ UNCHANGED <<tree, key, prev, overflow, pair, iter, result, value, foreign>>
        /\ path' = Append(path, child) /\ nodes' = nodes /\ AtBranch
        /\ meta_page_id' = meta_page_id /\ root_page_id' = root_page_id /\ key' = key
    BY DEF FetchChild, Fetch, tree
  <1>2. /\ n \in Nat /\ n >= 2 /\ path \in Seq(PageIds)
        /\ Top = path[n] /\ Top \in BranchesOf(nodes)
        /\ key \in cover[Top] /\ key \in Nat
        /\ height[Top] + n = height[root_page_id] + 2
    BY <1>1, OnTheWay
  <1>3. /\ child \in NodesOf(nodes) /\ child \in PageIds
        /\ key \in cover[child] /\ height[child] + 1 = height[Top]
    BY <1>1, <1>2, ChildIsNode DEF Node
  <1>4. PathOver(path, key, nodes, meta_page_id, root_page_id, cover, height)
    BY <1>1 DEF Inv, PathInv
  <1>5. child = SearchChild(nodes[path[n]], key)
    BY <1>2 DEF Node
  <1> DEFINE longer == Append(path, child)
  <1> HIDE DEF child
  <1>6. /\ longer \in Seq(PageIds) /\ Len(longer) = n + 1
        /\ \A i \in 1 .. n : longer[i] = path[i]
        /\ longer[n + 1] = child
    BY <1>2, <1>3
  <1>7. height[child] \in Nat /\ height[Top] \in Nat /\ height[root_page_id] \in Nat
    <2>1. /\ height \in [PageIds -> Nat] /\ nodes \in [PageIds -> {NoNode} \union LeafNodes \union BranchNodes]
          /\ root_page_id \in NodesOf(nodes)
      BY DEF Inv, Levels, Covering, NodesInv
    <2> QED BY <1>2, <1>3, <2>1, Kinds
  <1>12. height[child] + (n + 1) = height[root_page_id] + 2
    <2> DEFINE a == height[child]
               b == height[Top]
               d == height[root_page_id]
    <2>1. a \in Nat /\ b \in Nat /\ d \in Nat /\ n \in Nat /\ a + 1 = b /\ b + n = d + 2
      BY <1>2, <1>3, <1>7
    <2> HIDE DEF a, b, d, n
    <2>2. a + (n + 1) = d + 2
      BY <2>1
    <2> QED BY <2>2 DEF a, d
  <1> HIDE DEF longer
  <1>8. PathOver(longer, key, nodes, meta_page_id, root_page_id, cover, height)
    <2> HIDE DEF n
    <2>1. longer[1] = meta_page_id /\ longer[2] = root_page_id
      BY <1>2, <1>4, <1>6 DEF PathOver, n
    <2>2. ASSUME NEW i \in 2 .. n + 1
          PROVE  /\ longer[i] \in NodesOf(nodes) /\ key \in cover[longer[i]]
                 /\ height[longer[i]] + i = height[root_page_id] + 2
      <3>1. CASE i = n + 1
        <4>1. longer[i] = child
          BY <1>6, <3>1
        <4> QED BY <1>3, <1>12, <3>1, <4>1
      <3>2. CASE i # n + 1
        <4>1. i \in 2 .. n /\ i \in 1 .. n
          BY <1>2, <3>2
        <4> QED BY <1>4, <1>6, <4>1 DEF PathOver, n
      <3> QED BY <3>1, <3>2
    <2>3. ASSUME NEW i \in 2 .. n
          PROVE  longer[i] \in BranchesOf(nodes) /\ longer[i + 1] = SearchChild(nodes[longer[i]], key)
      <3>1. CASE i = n
        BY <1>2, <1>5, <1>6, <3>1 DEF n
      <3>2. CASE i # n
        <4>1. i \in 2 .. n - 1 /\ i \in 1 .. n /\ i + 1 \in 1 .. n
          BY <1>2, <3>2
        <4> QED BY <1>4, <1>6, <4>1 DEF PathOver, n
      <3> QED BY <3>1, <3>2
    <2>4. Len(longer) - 1 = n /\ Len(longer) = n + 1
      BY <1>2, <1>6
    <2> QED BY <1>6, <2>1, <2>2, <2>3, <2>4 DEF PathOver
  <1>9. CallInv'
    <2>1. Len(path') >= 2 /\ path' # <<>>
      BY <1>1, <1>2, <1>6 DEF longer
    <2> QED BY <1>1, <2>1 DEF Inv, CallInv
  <1>10. PathInv(cover, height)'
    BY <1>1, <1>8 DEF PathInv, longer
  <1>11. SplitInv'
    BY <1>1 DEF SplitInv
  <1> QED BY <1>1, <1>9, <1>10, <1>11, SameTree

LEMMA LeafOfIter ==
  ASSUME NEW cover, NEW height, Inv(cover, height), iter # NoIter
  PROVE  /\ iter \in [page : LeavesOf(nodes), slot_id : Nat]
         /\ iter.page \in LeavesOf(nodes) /\ iter.slot_id \in Nat
         /\ IterLeaf \in LeafNodes
         /\ IterLeaf.next_page_id \in LeavesOf(nodes) \union {INVALID_PAGE_ID}
  <1>1. iter \in [page : LeavesOf(nodes), slot_id : Nat]
    BY DEF Inv, CallInv
  <1>2. iter.page \in LeavesOf(nodes) /\ iter.slot_id \in Nat
    BY <1>1
  <1>3. IterLeaf \in LeafNodes
    BY <1>2 DEF IterLeaf, LeavesOf
  <1>4. IterLeaf.next_page_id \in LeavesOf(nodes) \union {INVALID_PAGE_ID}
    BY <1>2 DEF IterLeaf, Inv, NodesInv, LeafSound
  <1> QED BY <1>1, <1>2, <1>3, <1>4

LEMMA RejectDuplicateKeeps ==
  ASSUME NEW cover, NEW height, Inv(cover, height), RejectDuplicate
  PROVE  Inv(cover, height)'
  <1>1. /\ Return("DuplicateKey") /\ UNCHANGED tree /\ pc # "unwind"
        /\ foreign' = foreign /\ iter' = iter /\ value' = value /\ nodes' = nodes
    BY DEF RejectDuplicate, AtInsertLeaf, tree
  <1> QED BY <1>1, Returned DEF Inv, CallInv

LEMMA FetchPrevKeeps ==
  ASSUME NEW cover, NEW height, Inv(cover, height), FetchPrev
  PROVE  Inv(cover, height)'
  <1>1. /\ pc = "descend" /\ pc' = "split" /\ AtLeaf /\ ~Holds(Node.keys, key) /\ ~LeafHasRoom
        /\ prev' = Node.prev_page_id
        /\ UNCHANGED <<tree, key, path, overflow, pair, iter, result, value, foreign>>
        /\ UNCHANGED <<nodes, meta_page_id, root_page_id>> /\ UNCHANGED tree
    BY DEF FetchPrev, LeafIsFull, AtInsertLeaf, tree
  <1>2. Top \in LeavesOf(nodes) /\ Len(path) >= 2
    BY <1>1, OnTheWay
  <1>3. Top' = Top /\ Node' = Node /\ (LeafHasRoom <=> LeafHasRoom')
    BY <1>1 DEF Top, Node, LeafHasRoom
  <1>4. SplitInv'
    BY <1>1, <1>2, <1>3 DEF SplitInv
  <1>5. CallInv'
    BY <1>1, <1>2 DEF Inv, CallInv
  <1>6. PathInv(cover, height)'
    BY <1>1 DEF Inv, PathInv
  <1> QED BY <1>1, <1>4, <1>5, <1>6, SameTree

LEMMA HasNoPrevKeeps ==
  ASSUME NEW cover, NEW height, Inv(cover, height), HasNoPrev
  PROVE  Inv(cover, height)'
  <1>1. /\ pc = "descend" /\ pc' = "split" /\ AtLeaf /\ ~Holds(Node.keys, key) /\ ~LeafHasRoom
        /\ Node.prev_page_id = INVALID_PAGE_ID
        /\ UNCHANGED <<tree, key, path, prev, overflow, pair, iter, result, value, foreign>>
        /\ UNCHANGED <<nodes, meta_page_id, root_page_id>> /\ UNCHANGED tree
    BY DEF HasNoPrev, LeafIsFull, AtInsertLeaf, tree, call
  <1>2. Top \in LeavesOf(nodes) /\ Len(path) >= 2 /\ prev = INVALID_PAGE_ID
    BY <1>1, OnTheWay DEF Inv, CallInv
  <1>3. Top' = Top /\ Node' = Node /\ (LeafHasRoom <=> LeafHasRoom')
    BY <1>1 DEF Top, Node, LeafHasRoom
  <1>4. SplitInv'
    BY <1>1, <1>2, <1>3 DEF SplitInv
  <1>5. CallInv'
    BY <1>1, <1>2 DEF Inv, CallInv
  <1>6. PathInv(cover, height)'
    BY <1>1 DEF Inv, PathInv
  <1> QED BY <1>1, <1>4, <1>5, <1>6, SameTree

LEMMA SearchMetaKeeps ==
  ASSUME NEW cover, NEW height, Inv(cover, height), SearchMeta
  PROVE  Inv(cover, height)'
  <1>1. /\ pc = "search_meta" /\ pc' = "search_root"
        /\ UNCHANGED <<tree, key, path, prev, overflow, pair, iter, result, value, foreign>>
        /\ UNCHANGED nodes /\ UNCHANGED tree
    BY DEF SearchMeta, tree, call
  <1>2. CallInv' /\ SplitInv' /\ PathInv(cover, height)'
    BY <1>1 DEF Inv, CallInv, SplitInv, PathInv
  <1> QED BY <1>1, <1>2, SameTree

LEMMA SearchRootKeeps ==
  ASSUME NEW cover, NEW height, Inv(cover, height), SearchRoot
  PROVE  Inv(cover, height)'
  <1>1. /\ pc = "search_root" /\ pc' = "search" /\ path' = <<root_page_id>>
        /\ UNCHANGED <<tree, key, prev, overflow, pair, iter, result, value, foreign>>
        /\ UNCHANGED nodes /\ UNCHANGED tree
    BY DEF SearchRoot, FetchAlone, tree
  <1>2. \E p \in NodesOf(nodes) : path' = <<p>>
    BY <1>1 DEF Inv, NodesInv
  <1>3. CallInv' /\ SplitInv' /\ PathInv(cover, height)'
    BY <1>1, <1>2 DEF Inv, CallInv, SplitInv, PathInv
  <1> QED BY <1>1, <1>3, SameTree

\* Where a search is.
LEMMA Searching ==
  ASSUME NEW cover, NEW height, Inv(cover, height), pc = "search"
  PROVE  /\ Top \in NodesOf(nodes) /\ key \in Nat /\ key \in Keys \union {0}
         /\ AtLeaf <=> Top \in LeavesOf(nodes)
         /\ AtBranch <=> Top \in BranchesOf(nodes)
  <1>1. PICK p \in NodesOf(nodes) : path = <<p>>
    BY DEF Inv, CallInv
  <1>2. Top = p
    BY <1>1, TopIsLast
  <1>3. nodes \in [PageIds -> {NoNode} \union LeafNodes \union BranchNodes]
    BY DEF Inv, NodesInv
  <1>4. key \in Nat /\ key \in Keys \union {0}
    <2>1. key \in Keys \union {0}
      BY DEF Inv, CallInv
    <2> QED BY <2>1, KeysAreNats
  <1>5. Top \in PageIds
    BY <1>1, <1>2, <1>3, Kinds
  <1>6. AtLeaf <=> Top \in LeavesOf(nodes)
    BY <1>1, <1>2, <1>3, <1>5, Kinds DEF AtLeaf, Node
  <1>7. AtBranch <=> Top \in BranchesOf(nodes)
    BY <1>1, <1>2, <1>3, <1>5, Kinds DEF AtBranch, Node
  <1> QED BY <1>1, <1>2, <1>4, <1>6, <1>7

LEMMA SearchChildPageKeeps ==
  ASSUME NEW cover, NEW height, Inv(cover, height), SearchChildPage
  PROVE  Inv(cover, height)'
  <1>1. /\ pc = "search" /\ pc' = "search" /\ path' = <<SearchChild(Node, key)>> /\ AtBranch
        /\ UNCHANGED <<tree, key, prev, overflow, pair, iter, result, value, foreign>>
        /\ UNCHANGED nodes /\ UNCHANGED tree
    BY DEF SearchChildPage, FetchAlone, tree
  <1>2. SearchChild(Node, key) \in NodesOf(nodes)
    BY <1>1, Searching, ChildIsNode DEF Node
  <1>3. \E p \in NodesOf(nodes) : path' = <<p>>
    BY <1>1, <1>2
  <1>4. CallInv' /\ SplitInv' /\ PathInv(cover, height)'
    BY <1>1, <1>3 DEF Inv, CallInv, SplitInv, PathInv
  <1> QED BY <1>1, <1>4, SameTree

LEMMA OpenIterKeeps ==
  ASSUME NEW cover, NEW height, Inv(cover, height), OpenIter
  PROVE  Inv(cover, height)'
  <1> DEFINE slot_id == SlotOf(Node.keys, key)
             is_right_most == Len(Node.keys) = slot_id
             opened == [page |-> Top, slot_id |-> slot_id + (IF is_right_most THEN 1 ELSE 0)]
  <1>1. /\ pc = "search" /\ AtLeaf /\ iter' = opened
        /\ UNCHANGED tree /\ UNCHANGED <<value, foreign, nodes>>
        /\ \/ /\ Node.next_page_id # INVALID_PAGE_ID /\ pc' = "open_advance" /\ path' = <<>>
              /\ UNCHANGED <<key, prev, overflow, pair, result>>
           \/ Return("Ok")
    BY DEF OpenIter, tree
  <1>2. Top \in LeavesOf(nodes) /\ key \in Int
    BY <1>1, Searching
  <1>3. Node \in LeafNodes /\ Sorted(Node.keys) /\ Node.keys \in Seq(Int)
    BY <1>2, KeysAreNats DEF Node, LeavesOf, LeafNodes, Inv, NodesInv, LeafSound
  <1>4. slot_id \in Nat
    <2> HIDE DEF slot_id
    <2> QED BY <1>2, <1>3, SlotOfSplits DEF slot_id
  <1>5. opened \in [page : LeavesOf(nodes), slot_id : Nat] /\ opened.page = Top
    <2> HIDE DEF slot_id, is_right_most
    <2> QED BY <1>2, <1>4
  <1> HIDE DEF opened
  <1>6. CASE Return("Ok")
    <2>1. foreign' = foreign /\ value' \in Keys \union {NoKey} /\ pc # "unwind"
      BY <1>1 DEF Inv, CallInv
    <2> QED BY <1>1, <1>5, <1>6, <2>1, Returned
  <1>7. CASE /\ Node.next_page_id # INVALID_PAGE_ID /\ pc' = "open_advance" /\ path' = <<>>
             /\ UNCHANGED <<key, prev, overflow, pair, result>>
    <2>1. opened # NoIter
      <3>1. NoIter.page \notin PageIds /\ Top \in PageIds
        BY <1>2, PageIdsAreNats DEF NoIter, LeavesOf
      <3> QED BY <1>5, <3>1
    <2>2. IterLeaf'.next_page_id # INVALID_PAGE_ID
      <3>1. IterLeaf' = Node
        BY <1>1, <1>5 DEF IterLeaf, Node
      <3> QED BY <1>7, <3>1
    <2>3. CallInv'
      BY <1>1, <1>5, <1>7, <2>1, <2>2 DEF Inv, CallInv
    <2>4. SplitInv' /\ PathInv(cover, height)'
      BY <1>7 DEF SplitInv, PathInv
    <2> QED BY <1>1, <1>7, <2>3, <2>4, SameTree
  <1> QED BY <1>1, <1>6, <1>7

LEMMA GetPairKeeps ==
  ASSUME NEW cover, NEW height, Inv(cover, height), GetPair
  PROVE  Inv(cover, height)'
  <1> DEFINE len == Len(IterLeaf.keys)
             got == IF iter.slot_id < len THEN IterLeaf.keys[iter.slot_id + 1] ELSE NoKey
  <1>1. /\ pc = "next" /\ iter # NoIter
        /\ UNCHANGED tree /\ UNCHANGED <<foreign, nodes>>
        /\ iter' = [iter EXCEPT !.slot_id = @ + 1]
        /\ \/ /\ IterLeaf.next_page_id # INVALID_PAGE_ID /\ pc' = "advance" /\ pair' = got
              /\ UNCHANGED <<key, path, prev, overflow, result, value>>
           \/ value' = got /\ Return("Ok")
    BY DEF GetPair, tree, Inv, CallInv
  <1>2. iter \in [page : LeavesOf(nodes), slot_id : Nat] /\ iter.slot_id \in Nat /\ IterLeaf \in LeafNodes
        /\ iter.page \in LeavesOf(nodes)
    BY <1>1, LeafOfIter
  <1>3. /\ iter' \in [page : LeavesOf(nodes), slot_id : Nat]
        /\ iter'.page = iter.page
    BY <1>1, <1>2
  <1>4. got \in Keys \union {NoKey}
    BY <1>2 DEF LeafNodes
  <1> HIDE DEF got
  <1>5. CASE value' = got /\ Return("Ok")
    BY <1>1, <1>3, <1>4, <1>5, Returned
  <1>6. CASE /\ IterLeaf.next_page_id # INVALID_PAGE_ID /\ pc' = "advance" /\ pair' = got
             /\ UNCHANGED <<key, path, prev, overflow, result, value>>
    <2>1. IterLeaf' = IterLeaf
      BY <1>1, <1>3 DEF IterLeaf
    <2>2. iter' # NoIter
      <3>1. NoIter.page \notin PageIds /\ iter'.page \in PageIds
        BY <1>2, <1>3, PageIdsAreNats DEF NoIter, LeavesOf
      <3> QED BY <3>1
    <2>3. CallInv'
      BY <1>1, <1>3, <1>4, <1>6, <2>1, <2>2 DEF Inv, CallInv
    <2>4. SplitInv' /\ PathInv(cover, height)'
      BY <1>6 DEF SplitInv, PathInv
    <2> QED BY <1>1, <1>6, <2>3, <2>4, SameTree
  <1> QED BY <1>1, <1>5, <1>6

LEMMA AdvanceKeeps ==
  ASSUME NEW cover, NEW height, Inv(cover, height), Advance
  PROVE  Inv(cover, height)'
  <1>1. /\ pc \in {"open_advance", "advance"} /\ iter # NoIter
        /\ IterLeaf.next_page_id # INVALID_PAGE_ID
        /\ UNCHANGED tree /\ foreign' = foreign /\ Return("Ok")
        /\ iter' = [page |-> IterLeaf.next_page_id, slot_id |-> 0]
        /\ value' \in Keys \union {NoKey} /\ pc # "unwind"
    BY DEF Advance, Inv, CallInv
  <1>2. iter' \in [page : LeavesOf(nodes), slot_id : Nat]
    BY <1>1, LeafOfIter
  <1> QED BY <1>1, <1>2, Returned

\* A call that fails did not come as far as a split.
LEMMA FailureKeeps ==
  ASSUME NEW cover, NEW height, Inv(cover, height), NEW error, CallFails(error), pc # "unwind"
  PROVE  Inv(cover, height)'
  <1>1. /\ Return(error) /\ UNCHANGED tree /\ foreign' = foreign /\ value' = value
        /\ iter' \in {iter, NoIter}
    BY DEF CallFails
  <1>2. /\ iter' = NoIter \/ iter' \in [page : LeavesOf(nodes), slot_id : Nat]
        /\ value' \in Keys \union {NoKey}
    BY <1>1 DEF Inv, CallInv
  <1> QED BY <1>1, <1>2, Returned

LEMMA NoFreeBufferKeeps ==
  ASSUME NEW cover, NEW height, Inv(cover, height), NoFreeBuffer
  PROVE  Inv(cover, height)'
  <1>1. CallFails("NoFreeBuffer") /\ \E p \in Wanted : ~Available(p)
    BY DEF NoFreeBuffer
  <1>2. pc # "unwind"
    BY <1>1 DEF Available, Inv, UnwindInv
  <1> QED BY <1>1, <1>2, FailureKeeps

LEMMA WriteBackFailsKeeps ==
  ASSUME NEW cover, NEW height, Inv(cover, height), WriteBackFails, "after_split" \notin Faults
  PROVE  Inv(cover, height)'
  <1>1. CallFails("Io") /\ pc # "unwind"
    BY DEF WriteBackFails
  <1> QED BY <1>1, FailureKeeps

LEMMA BeginKeeps ==
  ASSUME NEW cover, NEW height, Inv(cover, height),
         BeginInsert \/ BeginSearch \/ BeginNext \/ DropIter \/ SetForeign
  PROVE  Inv(cover, height)'
  <1>1. /\ pc = "idle" /\ pc' \in {"idle", "meta", "search_meta", "next"}
        /\ pc' = "meta" => key' \in Keys
        /\ pc' = "search_meta" => key' \in Keys \union {0}
        /\ iter' = NoIter \/ iter' = iter
        /\ pc' = "next" => iter' # NoIter
        /\ foreign' \in Nat
        /\ UNCHANGED tree /\ UNCHANGED <<path, prev, overflow, pair, value, nodes>>
    <2>1. pc # "none" /\ foreign \in Nat
      BY DEF Inv, CallInv
    <2>2. CASE BeginInsert
      BY <2>1, <2>2 DEF BeginInsert, tree
    <2>3. CASE BeginSearch
      BY <2>1, <2>3 DEF BeginSearch, tree
    <2>4. CASE BeginNext
      BY <2>1, <2>4 DEF BeginNext, tree, call
    <2>5. CASE DropIter
      BY <2>1, <2>5 DEF DropIter, tree, call
    <2>6. CASE SetForeign
      BY <2>1, <2>6, BTreeAssumption DEF SetForeign, tree, call
    <2> QED BY <2>2, <2>3, <2>4, <2>5, <2>6
  <1>2. CallInv'
    BY <1>1 DEF Inv, CallInv
  <1>3. SplitInv' /\ PathInv(cover, height)'
    BY <1>1 DEF SplitInv, PathInv
  <1> QED BY <1>1, <1>2, <1>3, SameTree

-----------------------------------------------------------------------------
(* Steps that change the tree without a split.                             *)

LEMMA PairInserted ==
  ASSUME NEW K, K \subseteq Int, NEW keys \in Seq(K), Sorted(keys), NEW key1 \in K,
         ~Holds(keys, key1), NEW size, Sized(size, K), NEW capacity \in Nat,
         HasRoom(keys, key1, size, capacity)
  PROVE  /\ InsertKey(keys, key1) \in Seq(K) /\ Sorted(InsertKey(keys, key1))
         /\ InsertKey(keys, key1) # <<>>
         /\ Range(InsertKey(keys, key1)) = Range(keys) \union {key1}
         /\ Used(InsertKey(keys, key1), size) <= capacity
  <1> DEFINE all == InsertKey(keys, key1)
             slot == SlotOf(keys, key1)
  <1>1. keys \in Seq(Int) /\ key1 \in Int
    BY SeqMonotonic
  <1>2. slot \in 0 .. Len(keys) /\ Placed(all, keys, key1, slot)
    BY <1>1, InsertKeyPlaces
  <1>3. Sorted(all) /\ Range(all) = Range(keys) \union {key1}
    BY <1>1, <1>2, PlacedSorted, PlacedRange
  <1>4. Len(all) = Len(keys) + 1 /\ Len(keys) \in Nat
    BY <1>2 DEF Placed
  <1>5. slot + 1 \in 1 .. Len(keys) + 1
    BY <1>2
  <1>6. all \in Seq(K) /\ Used(all, size) <= capacity
    <2> HIDE DEF slot
    <2> QED BY <1>5, RoomFits DEF InsertKey, slot
  <1>7. all # <<>>
    <2> HIDE DEF all
    <2> QED BY <1>4
  <1> QED BY <1>3, <1>6, <1>7

LEMMA InsertIntoLeafKeeps ==
  ASSUME NEW cover, NEW height, Inv(cover, height), InsertIntoLeaf
  PROVE  Inv(cover, height)'
  <1> DEFINE all == InsertKey(Node.keys, key)
             n == LeafInsert(Node, key)
  <1>1. /\ pc = "descend" /\ AtLeaf /\ ~Holds(Node.keys, key) /\ LeafHasRoom
        /\ nodes' = [nodes EXCEPT ![Top] = n] /\ Return("Ok")
        /\ UNCHANGED <<next_page_id, meta_page_id, root_page_id, iter, value, foreign>>
    BY DEF InsertIntoLeaf, AtInsertLeaf, Node
  <1>2. Top \in LeavesOf(nodes) /\ Top \in PageIds /\ key \in Keys /\ key \in cover[Top]
    BY <1>1, OnTheWay
  <1>3. NodesInv(nodes, next_page_id, meta_page_id, root_page_id)
    BY DEF Inv
  <1>4. Node \in LeafNodes /\ LeafSound(nodes, Top)
    BY <1>2, <1>3 DEF Node, LeavesOf, NodesInv
  <1>5. Node.keys \in Seq(Keys) /\ Sorted(Node.keys)
    BY <1>4 DEF LeafNodes, LeafSound, Node
  <1>6. /\ all \in Seq(Keys) /\ Sorted(all) /\ all # <<>>
        /\ Range(all) = Range(Node.keys) \union {key}
        /\ Used(all, LeafPairs) <= LeafCapacity
    <2>1. Sized(LeafPairs, Keys) /\ LeafCapacity \in Nat
      BY PairsAreShort, ShortPairsSized
    <2>2. HasRoom(Node.keys, key, LeafPairs, LeafCapacity)
      BY <1>1 DEF LeafHasRoom
    <2> DEFINE keys == Node.keys
    <2>3. keys \in Seq(Keys) /\ Sorted(keys) /\ ~Holds(keys, key) /\ HasRoom(keys, key, LeafPairs, LeafCapacity)
      BY <1>1, <1>5, <2>2
    <2> HIDE DEF keys
    <2>4. /\ InsertKey(keys, key) \in Seq(Keys) /\ Sorted(InsertKey(keys, key)) /\ InsertKey(keys, key) # <<>>
          /\ Range(InsertKey(keys, key)) = Range(keys) \union {key}
          /\ Used(InsertKey(keys, key), LeafPairs) <= LeafCapacity
      BY <1>2, <2>1, <2>3, KeysAreNats, PairInserted, ZenonT(30)
    <2> QED BY <2>4 DEF keys
  <1> HIDE DEF all
  <1>7. /\ n \in LeafNodes /\ n.keys = all
        /\ n.prev_page_id = Node.prev_page_id /\ n.next_page_id = Node.next_page_id
    BY <1>4, <1>6 DEF LeafInsert, LeafNodes, all
  <1> HIDE DEF n
  <1>8. /\ nodes' \in [PageIds -> {NoNode} \union LeafNodes \union BranchNodes]
        /\ nodes'[Top] = n /\ \A p \in PageIds \ {Top} : nodes'[p] = nodes[p]
    BY <1>1, <1>2, <1>3, <1>7 DEF NodesInv
  <1>9. LeavesOf(nodes') = LeavesOf(nodes) /\ BranchesOf(nodes') = BranchesOf(nodes)
        /\ NodesOf(nodes') = NodesOf(nodes) /\ Top \notin BranchesOf(nodes)
    <2>1. Top \notin BranchesOf(nodes) /\ n \notin BranchNodes
      BY <1>2, <1>7, EmptyNode DEF LeavesOf, BranchesOf
    <2> QED BY <1>2, <1>7, <1>8, <2>1 DEF LeavesOf, BranchesOf, NodesOf
  <1>10. \A p \in LeavesOf(nodes) :
            /\ nodes'[p].prev_page_id = nodes[p].prev_page_id
            /\ nodes'[p].next_page_id = nodes[p].next_page_id
    BY <1>7, <1>8 DEF Node, LeavesOf
  <1>11. NodesInv(nodes, next_page_id, meta_page_id, root_page_id)'
    <2>1. \A p \in LeavesOf(nodes) : LeafSound(nodes', p)
      <3> TAKE p \in LeavesOf(nodes)
      <3>1. LeafSound(nodes, p)
        BY <1>3 DEF NodesInv
      <3>2. CASE p = Top
        BY <1>4, <1>6, <1>7, <1>8, <1>9, <3>2 DEF LeafSound, Node
      <3>3. CASE p # Top
        BY <1>8, <1>9, <3>1, <3>3 DEF LeafSound, LeavesOf
      <3> QED BY <3>2, <3>3
    <2>2. \A p \in BranchesOf(nodes) : BranchSound(nodes', p)
      <3> TAKE p \in BranchesOf(nodes)
      <3>1. BranchSound(nodes, p)
        BY <1>3 DEF NodesInv
      <3> QED BY <1>8, <1>9, <3>1 DEF BranchSound, BranchesOf
    <2> QED BY <1>1, <1>3, <1>8, <1>9, <2>1, <2>2 DEF NodesInv
  <1>12. pc' = "idle" /\ path' = <<>> /\ prev' = INVALID_PAGE_ID /\ pair' = NoKey
    BY <1>1 DEF Return
  <1>13. Wholes' = nodes' /\ Wholes = nodes
    BY <1>1, <1>12 DEF Wholes
  <1>14. Levels(nodes, Wholes, cover, height)'
    <2>1. Levels(nodes, nodes, cover, height)
      BY <1>13 DEF Inv
    <2>2. \A p \in LeavesOf(nodes) : height[p] = 0 /\ Range(nodes'[p].keys) \subseteq cover[p]
      <3> TAKE p \in LeavesOf(nodes)
      <3>1. height[p] = 0 /\ Range(nodes[p].keys) \subseteq cover[p]
        BY <2>1 DEF Levels
      <3>2. CASE p = Top
        BY <1>2, <1>6, <1>7, <1>8, <3>1, <3>2 DEF Node
      <3>3. CASE p # Top
        BY <1>8, <3>1, <3>3 DEF LeavesOf
      <3> QED BY <3>2, <3>3
    <2>3. \A p \in BranchesOf(nodes) : nodes'[p] = nodes[p]
      BY <1>8, <1>9 DEF BranchesOf
    <2> QED BY <1>9, <1>13, <2>1, <2>2, <2>3 DEF Levels
  <1>15. RootInv(cover, height)'
    BY <1>1, <1>9, <1>12 DEF Inv, RootInv, SplitRoot
  <1>16. Links(nodes, cover)'
    BY <1>9, <1>10 DEF Inv, Links
  <1>17. PathInv(cover, height)' /\ SplitInv' /\ UnwindInv'
    BY <1>12 DEF PathInv, SplitInv, UnwindInv
  <1>18. EmptyInv'
    <2> SUFFICES ASSUME NEW p \in LeavesOf(nodes), nodes'[p].keys = <<>>
                 PROVE  p = root_page_id
      BY <1>1, <1>9, <1>12 DEF EmptyInv
    <2>1. p # Top
      BY <1>6, <1>7, <1>8
    <2> QED BY <1>8, <2>1 DEF Inv, EmptyInv, LeavesOf
  <1>19. CallInv'
    BY <1>1, <1>9, <1>12 DEF Inv, CallInv
  <1> QED BY <1>11, <1>14, <1>15, <1>16, <1>17, <1>18, <1>19 DEF Inv

\* Where insert is on its way back up, and what the branch there is to become.
LEMMA OnTheWayUp ==
  ASSUME NEW cover, NEW height, Inv(cover, height), pc = "unwind", Top # meta_page_id
  PROVE  /\ Top \in BranchesOf(nodes) /\ Top \in PageIds
         /\ Node \in BranchNodes /\ BranchSound(nodes, Top)
         /\ Wholes = [nodes EXCEPT ![Top] = BranchInsert(Node, SearchChildIdx(Node, key),
                                                         overflow.key, overflow.page_id)]
         /\ \A p \in PageIds \ {Top} : Wholes[p] = nodes[p]
         /\ Wholes[Top] \in BranchNodes
         /\ Wholes[Top].keys = InsertKey(Node.keys, overflow.key)
         /\ Wholes[Top] = BranchInsert(Node, SlotOf(Node.keys, overflow.key),
                                       overflow.key, overflow.page_id)
         /\ BranchOver(Wholes[Top], Top, cover, height)
         /\ Range(Wholes[Top].children) \subseteq NodesOf(nodes)
         /\ overflow.key \in Keys /\ ~Holds(Node.keys, overflow.key)
         /\ SlotOf(Node.keys, overflow.key) + 1 \in 1 .. Len(Node.keys) + 1
  <1> DEFINE ks == Node.keys
             sep == overflow.key
             idx == SearchChildIdx(Node, key)
             whole == BranchInsert(Node, idx, sep, overflow.page_id)
  <1>1. /\ NodesInv(nodes, next_page_id, meta_page_id, root_page_id)
        /\ Levels(nodes, Wholes, cover, height) /\ UnwindInv /\ CallInv
    BY DEF Inv
  <1>2. /\ Top \in BranchesOf(nodes) /\ sep \in Keys /\ overflow.page_id \in NodesOf(nodes)
        /\ key \in Keys
    BY <1>1 DEF UnwindInv, CallInv
  <1>3. Top \in PageIds /\ Node \in BranchNodes /\ BranchSound(nodes, Top)
    BY <1>1, <1>2 DEF BranchesOf, Node, NodesInv
  <1>4. ks \in Seq(Keys) /\ ks \in Seq(Int) /\ Sorted(ks) /\ key \in Int /\ sep \in Int
    BY <1>2, <1>3, KeysAreNats DEF BranchNodes, BranchSound, Node
  <1>5. Wholes = [nodes EXCEPT ![Top] = whole]
    BY <1>2 DEF Wholes, Node
  <1>6. nodes \in [PageIds -> {NoNode} \union LeafNodes \union BranchNodes]
    BY <1>1 DEF NodesInv
  <1> HIDE DEF whole
  <1>7. Wholes[Top] = whole /\ \A p \in PageIds \ {Top} : Wholes[p] = nodes[p]
    BY <1>3, <1>5, <1>6
  <1>8. BranchOver(whole, Top, cover, height) /\ Range(whole.children) \subseteq NodesOf(nodes)
    BY <1>1, <1>2, <1>7 DEF Levels
  <1>9. idx \in 0 .. Len(ks)
    <2> HIDE DEF idx
    <2> QED BY <1>4, SearchFinds DEF idx
  <1>10. idx + 1 \in 1 .. Len(ks) + 1 /\ Len(ks) \in Nat
    BY <1>4, <1>9
  <1>11. whole.keys = InsertAt(ks, idx + 1, sep)
    BY <1>3 DEF whole, BranchInsert, BranchNodes
  <1>12. Sorted(InsertAt(ks, idx + 1, sep)) /\ whole \in BranchNodes
    BY <1>8, <1>11 DEF BranchOver
  <1> HIDE DEF idx
  <1>13. SlotOf(ks, sep) + 1 = idx + 1 /\ ~Holds(ks, sep)
    <2> HIDE DEF ks
    <2> QED BY <1>4, <1>10, <1>12, SlotOfInserted
  <1>14. SlotOf(ks, sep) \in 0 .. Len(ks)
    <2> HIDE DEF ks, sep
    <2> QED BY <1>4, SlotOfSplits
  <1>15. SlotOf(ks, sep) = idx
    BY <1>9, <1>10, <1>13, <1>14
  <1>16. whole.keys = InsertKey(ks, sep)
    BY <1>11, <1>15 DEF InsertKey
  <1>17. whole = BranchInsert(Node, SlotOf(Node.keys, overflow.key), overflow.key, overflow.page_id)
    BY <1>15 DEF whole
  <1>18. Wholes = [nodes EXCEPT ![Top] = BranchInsert(Node, SearchChildIdx(Node, key),
                                                      overflow.key, overflow.page_id)]
    BY <1>5 DEF whole, idx
  <1> QED BY <1>2, <1>3, <1>7, <1>8, <1>10, <1>12, <1>13, <1>15, <1>16, <1>17, <1>18

LEMMA InsertIntoBranchKeeps ==
  ASSUME NEW cover, NEW height, Inv(cover, height), InsertIntoBranch
  PROVE  Inv(cover, height)'
  <1> DEFINE ks == Node.keys
             sep == overflow.key
             all == InsertKey(ks, sep)
             whole == Wholes[Top]
  <1>1. /\ pc = "unwind" /\ Top # meta_page_id /\ SeparatorFits /\ BranchHasRoom
        /\ nodes' = [nodes EXCEPT ![Top] = BranchInsert(Node, SearchChildIdx(Node, key),
                                                        overflow.key, overflow.page_id)]
        /\ Return("Ok")
        /\ UNCHANGED <<next_page_id, meta_page_id, root_page_id, iter, value, foreign>>
    BY DEF InsertIntoBranch, AtParent, Node
  <1>2. /\ Top \in BranchesOf(nodes) /\ Top \in PageIds
        /\ Node \in BranchNodes /\ BranchSound(nodes, Top)
        /\ nodes' = Wholes
        /\ \A p \in PageIds \ {Top} : Wholes[p] = nodes[p]
        /\ whole \in BranchNodes /\ whole.keys = all
        /\ BranchOver(whole, Top, cover, height)
        /\ Range(whole.children) \subseteq NodesOf(nodes)
        /\ sep \in Keys /\ SlotOf(ks, sep) + 1 \in 1 .. Len(ks) + 1
    BY <1>1, OnTheWayUp
  <1>3. /\ NodesInv(nodes, next_page_id, meta_page_id, root_page_id)
        /\ Levels(nodes, Wholes, cover, height)
    BY DEF Inv
  <1>4. all \in Seq(ShortKeys) /\ Used(all, BranchPairs) <= BranchCapacity
    <2>1. Sized(BranchPairs, ShortKeys) /\ BranchCapacity \in Nat
      BY PairsAreShort, ShortPairsSized
    <2>2. ks \in Seq(ShortKeys) /\ sep \in ShortKeys
      BY <1>1, <1>2 DEF BranchSound, Node, SeparatorFits, ShortKeys
    <2>3. HasRoom(ks, sep, BranchPairs, BranchCapacity)
      BY <1>1 DEF BranchHasRoom
    <2> HIDE DEF ks, sep
    <2> QED BY <1>2, <2>1, <2>2, <2>3, RoomFits DEF InsertKey
  <1> HIDE DEF whole, all
  <1>5. /\ nodes' \in [PageIds -> {NoNode} \union LeafNodes \union BranchNodes]
        /\ nodes'[Top] = whole /\ \A p \in PageIds \ {Top} : nodes'[p] = nodes[p]
    <2>1. nodes \in [PageIds -> {NoNode} \union LeafNodes \union BranchNodes]
      BY <1>3 DEF NodesInv
    <2>2. nodes' = [nodes EXCEPT ![Top] = whole]
      BY <1>1, <1>2, <2>1 DEF whole
    <2> QED BY <1>2, <2>1, <2>2
  <1>6. LeavesOf(nodes') = LeavesOf(nodes) /\ BranchesOf(nodes') = BranchesOf(nodes)
        /\ NodesOf(nodes') = NodesOf(nodes) /\ Top \notin LeavesOf(nodes)
    <2>1. Top \notin LeavesOf(nodes) /\ whole \notin LeafNodes
      BY <1>2, EmptyNode DEF LeavesOf, BranchesOf
    <2> QED BY <1>2, <1>5, <2>1 DEF LeavesOf, BranchesOf, NodesOf
  <1>7. \A p \in LeavesOf(nodes) : nodes'[p] = nodes[p]
    BY <1>5, <1>6 DEF LeavesOf
  <1>8. NodesInv(nodes, next_page_id, meta_page_id, root_page_id)'
    <2>1. \A p \in LeavesOf(nodes) : LeafSound(nodes', p)
      BY <1>3, <1>6, <1>7 DEF NodesInv, LeafSound
    <2>2. \A p \in BranchesOf(nodes) : BranchSound(nodes', p)
      <3> TAKE p \in BranchesOf(nodes)
      <3>1. BranchSound(nodes, p)
        BY <1>3 DEF NodesInv
      <3>2. CASE p = Top
        <4>1. Sorted(whole.keys) /\ whole.keys # <<>> /\ Len(whole.children) = Len(whole.keys) + 1
          BY <1>2 DEF BranchOver
        <4> QED BY <1>2, <1>4, <1>5, <1>6, <3>2, <4>1 DEF BranchSound, whole
      <3>3. CASE p # Top
        BY <1>5, <1>6, <3>1, <3>3 DEF BranchSound, BranchesOf
      <3> QED BY <3>2, <3>3
    <2> QED BY <1>1, <1>3, <1>5, <1>6, <2>1, <2>2 DEF NodesInv
  <1>9. pc' = "idle" /\ path' = <<>> /\ prev' = INVALID_PAGE_ID /\ pair' = NoKey
    BY <1>1 DEF Return
  <1>10. Wholes' = nodes' /\ nodes' = Wholes
    BY <1>2, <1>9 DEF Wholes
  <1>11. Levels(nodes, Wholes, cover, height)'
    BY <1>3, <1>6, <1>7, <1>10 DEF Levels
  <1>12. RootInv(cover, height)'
    BY <1>1, <1>6, <1>9 DEF Inv, RootInv, SplitRoot
  <1>13. Links(nodes, cover)'
    BY <1>6, <1>7 DEF Inv, Links
  <1>14. PathInv(cover, height)' /\ SplitInv' /\ UnwindInv'
    BY <1>9 DEF PathInv, SplitInv, UnwindInv
  <1>15. EmptyInv'
    BY <1>1, <1>6, <1>7, <1>9 DEF Inv, EmptyInv
  <1>16. CallInv'
    BY <1>1, <1>6, <1>9 DEF Inv, CallInv
  <1> QED BY <1>8, <1>11, <1>12, <1>13, <1>14, <1>15, <1>16 DEF Inv

LEMMA CreateTreeKeeps ==
  ASSUME Empty, CreateTree
  PROVE  TreeInv'
  <1> DEFINE n == Leaf(INVALID_PAGE_ID, INVALID_PAGE_ID, <<>>)
  <1>a. PICK root : root = next_page_id + 1
    OBVIOUS
  <1>b. PICK cover, height : /\ cover \in [PageIds -> SUBSET Nat] /\ height \in [PageIds -> Nat]
                             /\ \A p \in PageIds : cover[p] = Nat /\ height[p] = 0
    <2> DEFINE all == [p \in PageIds |-> Nat]
               zero == [p \in PageIds |-> 0]
    <2>1. /\ all \in [PageIds -> SUBSET Nat] /\ zero \in [PageIds -> Nat]
          /\ \A p \in PageIds : all[p] = Nat /\ zero[p] = 0
      OBVIOUS
    <2> HIDE DEF all, zero
    <2> QED BY <2>1
  <1>1. /\ next_page_id \in Nat /\ next_page_id + 2 <= MaxPages /\ MaxPages \in Nat
        /\ meta_page_id' = next_page_id /\ root_page_id' = root /\ next_page_id' = next_page_id + 2
        /\ nodes' = [nodes EXCEPT ![root] = n] /\ nodes = [p \in PageIds |-> NoNode]
        /\ pc' = "idle" /\ UNCHANGED <<key, path, prev, overflow, pair, iter, result, value, foreign>>
    BY <1>a, PageIdsAreNats DEF Empty, CreateTree, call
  <1>2. /\ next_page_id \in PageIds /\ root \in PageIds /\ next_page_id # root
        /\ next_page_id' \in 0 .. MaxPages
    BY <1>a, <1>1 DEF PageIds
  <1>3. /\ n \in LeafNodes /\ n.keys = <<>> /\ n.prev_page_id = INVALID_PAGE_ID
        /\ n.next_page_id = INVALID_PAGE_ID
    BY DEF n, Leaf, LeafNodes
  <1> HIDE DEF n
  <1>4. nodes' \in [PageIds -> {NoNode} \union LeafNodes \union BranchNodes]
        /\ nodes'[root] = n /\ \A p \in PageIds \ {root} : nodes'[p] = NoNode
    BY <1>1, <1>2, <1>3
  <1>5. LeavesOf(nodes') = {root} /\ BranchesOf(nodes') = {} /\ NodesOf(nodes') = {root}
    BY <1>2, <1>3, <1>4, EmptyNode DEF LeavesOf, BranchesOf, NodesOf
  <1>6. Used(<<>>, LeafPairs) = 0 /\ LeafCapacity \in Nat
    BY PairsAreShort, ShortPairsSized, UsedEmpty
  <1>7. Sorted(<<>>)
    BY DEF Sorted
  <1>8. NodesInv(nodes, next_page_id, meta_page_id, root_page_id)'
    <2>1. LeafSound(nodes', root)
      BY <1>3, <1>4, <1>5, <1>6, <1>7 DEF LeafSound
    <2>2. root < next_page_id' /\ next_page_id < next_page_id'
      BY <1>a, <1>1
    <2> QED BY <1>1, <1>2, <1>4, <1>5, <2>1, <2>2 DEF NodesInv
  <1>9. Wholes' = nodes'
    BY <1>1 DEF Wholes
  <1>10. /\ cover \in [PageIds -> SUBSET Nat] /\ height \in [PageIds -> Nat]
         /\ cover[root] = Nat /\ height[root] = 0 /\ Nat # {}
    BY <1>b, <1>2
  <1>11. Levels(nodes, Wholes, cover, height)'
    <2>1. Range(n.keys) \subseteq cover[root]
      BY <1>3 DEF Range
    <2> QED BY <1>2, <1>4, <1>5, <1>10, <2>1 DEF Levels, Covering
  <1>12. RootInv(cover, height)'
    <2>1. ~SplitRoot'
      BY <1>1 DEF SplitRoot
    <2>2. \A p \in NodesOf(nodes') : height[p] <= height[root_page_id']
      <3> SUFFICES ASSUME NEW p \in NodesOf(nodes') PROVE height[p] <= height[root_page_id']
        OBVIOUS
      <3>1. root_page_id' = root /\ p = root
        BY <1>1, <1>5
      <3>2. height[p] = 0 /\ height[root_page_id'] = 0
        BY <1>10, <3>1
      <3> QED BY <3>2
    <2> QED BY <1>1, <1>10, <2>1, <2>2 DEF RootInv
  <1>13. Links(nodes, cover)'
    <2>1. INVALID_PAGE_ID # root
      BY <1>2, PageIdsAreNats
    <2> QED BY <1>3, <1>4, <1>5, <2>1 DEF Links
  <1>14. PathInv(cover, height)' /\ SplitInv' /\ UnwindInv'
    BY <1>1 DEF PathInv, SplitInv, UnwindInv
  <1>15. EmptyInv'
    BY <1>1, <1>5 DEF EmptyInv
  <1>16. CallInv'
    BY <1>1 DEF CallInv, Empty
  <1>17. Inv(cover, height)'
    BY <1>8, <1>11, <1>12, <1>13, <1>14, <1>15, <1>16 DEF Inv
  <1> QED BY <1>17 DEF TreeInv

\* No call can begin.
LEMMA EmptyStep ==
  ASSUME Empty, Next
  PROVE  CreateTree \/ CreateTreeFails \/ SetForeign
  <1>0. pc = "none"
    BY DEF Empty
  <1>1. Wanted = {}
    BY <1>0 DEF Wanted, LeafIsFull, AtInsertLeaf, AtParent
  <1>2. ~CallStep
    BY <1>0, <1>1 DEF CallStep, FetchMeta, FetchRoot, FetchChild, RejectDuplicate,
       InsertIntoLeaf, FetchPrev, HasNoPrev, SplitLeaf, InsertIntoBranch, SplitBranch,
       GrowRoot, SearchMeta, SearchRoot, SearchChildPage, OpenIter, GetPair, Advance,
       NoFreeBuffer, WriteBackFails, AtInsertLeaf, LeafIsFull, AtParent
  <1> QED BY <1>0, <1>2 DEF Next, BeginInsert, BeginSearch, BeginNext, DropIter

LEMMA EmptyKeeps ==
  ASSUME Empty, Next
  PROVE  TreeInv'
  <1>1. CASE CreateTree
    BY <1>1, CreateTreeKeeps
  <1>2. CASE CreateTreeFails
    <2>1. next_page_id' \in {0, 1} /\ next_page_id' \in 0 .. MaxPages
      <3>1. 1 <= MaxPages /\ MaxPages \in Nat
        BY BTreeAssumption
      <3>2. next_page_id' \in {0, 1}
        BY <1>2 DEF CreateTreeFails
      <3> QED BY <3>1, <3>2
    <2>2. UNCHANGED <<nodes, meta_page_id, root_page_id, pc, call, iter, result, value, foreign>>
      BY <1>2 DEF CreateTreeFails
    <2> QED BY <2>1, <2>2 DEF TreeInv, Empty, call
  <1>3. CASE SetForeign
    <2>1. foreign' \in Nat /\ UNCHANGED <<tree, pc, call, iter, result, value>>
      BY <1>3, BTreeAssumption DEF SetForeign
    <2> QED BY <2>1 DEF TreeInv, Empty, tree, call
  <1> QED BY <1>1, <1>2, <1>3, EmptyStep

-----------------------------------------------------------------------------
(* Splits: what changes beside the page that is split.                     *)

LEMMA ChildrenInserted ==
  ASSUME NEW n \in BranchNodes, NEW i \in 1 .. Len(n.children) + 1,
         NEW sep, NEW new \in PageIds, NEW P, Range(n.children) \subseteq P
  PROVE  Range(BranchInsert(n, i - 1, sep, new).children) \subseteq P \union {new}
  <1> DEFINE bs == n.children
             bs2 == InsertAt(bs, i, new)
  <1>1. i - 1 + 1 = i
    OBVIOUS
  <1>2. BranchInsert(n, i - 1, sep, new).children = bs2
    BY <1>1 DEF BranchInsert, BranchNodes
  <1>3. bs \in Seq(PageIds)
    BY DEF BranchNodes
  <1>4. bs2 \in Seq(PageIds) /\ Inserted(bs2, bs, i, new) /\ Len(bs) \in Nat
    <2> HIDE DEF bs
    <2>1. i \in 1 .. Len(bs) + 1
      BY DEF bs
    <2> QED BY <1>3, <2>1, InsertAtElements
  <1>5. \A j \in 1 .. Len(bs) : bs[j] \in P
    BY <1>3 DEF Range
  <1> HIDE DEF bs2, bs
  <1>6. ASSUME NEW j \in 1 .. Len(bs) + 1
        PROVE  bs2[j] \in P \union {new}
    <2>0. i \in 1 .. Len(bs) + 1
      BY DEF bs
    <2>1. CASE j <= i - 1
      <3>1. j \in 1 .. i - 1 /\ j \in 1 .. Len(bs)
        BY <1>4, <2>0, <2>1
      <3> QED BY <1>4, <1>5, <3>1 DEF Inserted
    <2>2. CASE j = i
      BY <1>4, <2>2 DEF Inserted
    <2>3. CASE j >= i + 1
      <3>1. j \in i + 1 .. Len(bs) + 1 /\ j - 1 \in 1 .. Len(bs)
        BY <1>4, <2>0, <2>3
      <3>2. bs2[j] = bs[j - 1]
        BY <1>4, <3>1 DEF Inserted
      <3> QED BY <1>5, <3>1, <3>2
    <2> QED BY <2>0, <2>1, <2>2, <2>3
  <1>7. DOMAIN bs2 = 1 .. Len(bs) + 1
    BY <1>4 DEF Inserted
  <1>8. Range(bs2) \subseteq P \union {new}
    BY <1>6, <1>7 DEF Range
  <1> QED BY <1>2, <1>8

\* A branch that is not split: the parent of the page that is, or another.
LEMMA DivideOthers ==
  ASSUME NEW cover, NEW height, NEW P, Covering(cover, height, P),
         NEW t \in P, NEW new \in PageIds \ P,
         NEW sep \in cover[t], NEW low \in cover[t], low < sep, sep \in Keys,
         NEW c, NEW h, Divided(c, h, cover, height, t, new, sep), NEW k \in cover[t],
         NEW p \in P \ {t}, NEW n, BranchOver(n, p, cover, height),
         Range(n.children) \subseteq P
  PROVE  /\ SearchChild(n, k) = t =>
              /\ BranchOver(BranchInsert(n, SearchChildIdx(n, k), sep, new), p, c, h)
              /\ Range(BranchInsert(n, SearchChildIdx(n, k), sep, new).children)
                   \subseteq P \union {new}
         /\ SearchChild(n, k) # t => BranchOver(n, p, c, h)
  <1> DEFINE idx == SearchChildIdx(n, k)
             ks == n.keys
             m == Len(ks)
  <1>1. /\ P \subseteq PageIds /\ p # new /\ t # new /\ new \in PageIds
        /\ k \in Nat /\ k \in Int /\ cover[p] \subseteq Nat
    BY DEF Covering
  <1>2. /\ n \in BranchNodes /\ ks \in Seq(Int) /\ Sorted(ks) /\ m \in Nat
        /\ n.children \in Seq(PageIds) /\ Len(n.children) = m + 1
        /\ \A j \in 1 .. m + 1 : cover[n.children[j]] = Segment(ks, j, cover[p])
    BY KeysAreNats DEF BranchOver, BranchNodes
  <1>3. idx \in 0 .. m /\ Between(ks, idx + 1, k)
    <2> HIDE DEF idx
    <2> QED BY <1>1, <1>2, SearchFinds DEF idx
  <1>4. idx + 1 \in 1 .. m + 1 /\ idx + 1 - 1 = idx /\ idx + 1 \in 1 .. Len(n.children) + 1
    BY <1>2, <1>3
  <1>5. SearchChild(n, k) = n.children[idx + 1]
    BY DEF SearchChild, ChildAt
  <1> HIDE DEF idx
  <1>6. ASSUME SearchChild(n, k) = t
        PROVE  /\ BranchOver(BranchInsert(n, idx, sep, new), p, c, h)
               /\ Range(BranchInsert(n, idx, sep, new).children) \subseteq P \union {new}
    <2>1. PICK i \in 1 .. Len(n.keys) + 1 : i = idx + 1 /\ n.children[i] = t
      BY <1>4, <1>5, <1>6
    <2>2. BranchOver(BranchInsert(n, i - 1, sep, new), p, c, h)
      BY <2>1, ParentBranch
    <2>3. i - 1 = idx /\ i \in 1 .. Len(n.children) + 1
      BY <1>2, <1>3, <1>4, <2>1
    <2>4. Range(BranchInsert(n, i - 1, sep, new).children) \subseteq P \union {new}
      BY <1>1, <1>2, <2>3, ChildrenInserted
    <2> QED BY <2>2, <2>3, <2>4
  <1>7. ASSUME SearchChild(n, k) # t
        PROVE  BranchOver(n, p, c, h)
    <2>1. ASSUME NEW j \in 1 .. m + 1 PROVE n.children[j] # t /\ n.children[j] \in P
      <3>1. n.children[j] \in P
        BY <1>2 DEF Range
      <3>2. ASSUME n.children[j] = t PROVE FALSE
        <4>1. k \in Segment(ks, j, cover[p])
          BY <1>2, <3>2
        <4>2. Between(ks, j, k)
          BY <4>1 DEF Segment
        <4>3. j = idx + 1
          <5> DEFINE i == idx + 1
          <5>1. i \in 1 .. m + 1 /\ Between(ks, i, k)
            BY <1>3, <1>4
          <5> HIDE DEF i, ks
          <5>2. i = j
            BY <1>1, <1>2, <4>2, <5>1, BetweenUnique
          <5> QED BY <5>2 DEF i
        <4> QED BY <1>5, <1>7, <3>2, <4>3
      <3> QED BY <3>1, <3>2
    <2>2. \A j \in 1 .. Len(n.keys) + 1 :
             c[n.children[j]] = cover[n.children[j]] /\ h[n.children[j]] = height[n.children[j]]
      BY <1>1, <2>1 DEF Divided
    <2>3. c[p] = cover[p] /\ h[p] = height[p]
      BY <1>1 DEF Divided
    <2> QED BY <2>2, <2>3, BranchElsewhere
  <1> QED BY <1>6, <1>7 DEF idx

\* The branches in B, whose children are in P.
Branching(N, B, P, cover, height) ==
    \A p \in B : BranchOver(N[p], p, cover, height) /\ Range(N[p].children) \subseteq P

\* u is the parent of t, if t has one.
Above(u, t, k, N, B, P, height) ==
    /\ u \in B => SearchChild(N[u], k) = t
    /\ u \notin B => \A p \in P : height[p] <= height[t]

\* All branches that are not split, u being where insert goes back to.
LEMMA DivideRest ==
  ASSUME NEW cover, NEW height, NEW P, Covering(cover, height, P),
         NEW t \in P, NEW new \in PageIds \ P,
         NEW sep \in cover[t], NEW low \in cover[t], low < sep, sep \in Keys,
         NEW c, NEW h, Divided(c, h, cover, height, t, new, sep), NEW k \in cover[t],
         NEW N, NEW B \in SUBSET (P \ {t}),
         Branching(N, B, P, cover, height), NEW u, Above(u, t, k, N, B, P, height)
  PROVE  /\ u \in B =>
              /\ BranchOver(BranchInsert(N[u], SearchChildIdx(N[u], k), sep, new), u, c, h)
              /\ Range(BranchInsert(N[u], SearchChildIdx(N[u], k), sep, new).children)
                   \subseteq P \union {new}
         /\ Branching(N, B \ {u}, P, c, h)
  <1>0. k \in Nat /\ \A p \in P : height[p] \in Nat
    BY DEF Covering
  <1>1. ASSUME u \in B
        PROVE  /\ BranchOver(BranchInsert(N[u], SearchChildIdx(N[u], k), sep, new), u, c, h)
               /\ Range(BranchInsert(N[u], SearchChildIdx(N[u], k), sep, new).children)
                    \subseteq P \union {new}
    <2> DEFINE n == N[u]
    <2>1. BranchOver(n, u, cover, height) /\ Range(n.children) \subseteq P /\ SearchChild(n, k) = t /\ u \in P \ {t}
      BY <1>1 DEF Branching, Above
    <2> HIDE DEF n
    <2>2. /\ BranchOver(BranchInsert(n, SearchChildIdx(n, k), sep, new), u, c, h)
          /\ Range(BranchInsert(n, SearchChildIdx(n, k), sep, new).children) \subseteq P \union {new}
      BY <2>1, DivideOthers
    <2> QED BY <2>2 DEF n
  <1>2. ASSUME NEW p \in B \ {u}
        PROVE  BranchOver(N[p], p, c, h) /\ Range(N[p].children) \subseteq P
    <2> DEFINE n == N[p]
    <2>1. BranchOver(n, p, cover, height) /\ Range(n.children) \subseteq P /\ p \in P \ {t}
      BY <1>2 DEF Branching
    <2> HIDE DEF n
    <2>2. ASSUME SearchChild(n, k) = t PROVE FALSE
      <3>1. PICK i \in 1 .. Len(n.keys) + 1 : n.children[i] = t /\ height[t] + 1 = height[p]
        <4>1. /\ SearchChildIdx(n, k) + 1 \in 1 .. Len(n.keys) + 1
              /\ SearchChild(n, k) = n.children[SearchChildIdx(n, k) + 1]
              /\ height[SearchChild(n, k)] + 1 = height[p]
          BY <1>0, <2>1, SearchDescends
        <4> QED BY <2>2, <4>1
      <3>2. CASE u \notin B
        <4>1. height[p] <= height[t]
          BY <2>1, <3>2 DEF Above
        <4> QED BY <1>0, <2>1, <3>1, <4>1
      <3>3. CASE u \in B
        <4> DEFINE b == N[u]
        <4>1. BranchOver(b, u, cover, height) /\ SearchChild(b, k) = t /\ u \in P
          BY <3>3 DEF Branching, Above
        <4> HIDE DEF b
        <4>2. PICK j \in 1 .. Len(b.keys) + 1 : b.children[j] = t
          <5>1. /\ SearchChildIdx(b, k) + 1 \in 1 .. Len(b.keys) + 1
                /\ SearchChild(b, k) = b.children[SearchChildIdx(b, k) + 1]
            BY <1>0, <4>1, SearchDescends
          <5> QED BY <4>1, <5>1
        <4>3. n.children[i] \in P /\ n.children[i] = b.children[j]
          BY <3>1, <4>2
        <4>4. p = u
          BY <2>1, <4>1, <4>3, OneParent
        <4> QED BY <1>2, <4>4
      <3> QED BY <3>2, <3>3
    <2>3. BranchOver(n, p, c, h)
      BY <2>1, <2>2, DivideOthers
    <2> QED BY <2>1, <2>3 DEF n
  <1> QED BY <1>1, <1>2 DEF Branching

\* The nodes of N are still there, the branches as they were, but for page t.
Grown(N2, N, t) ==
    /\ NodesOf(N) \subseteq NodesOf(N2) /\ BranchesOf(N) \subseteq BranchesOf(N2)
    /\ \A p \in BranchesOf(N) \ {t} : N2[p] = N[p]

\* The last page of the path s is divided, and N2 is what becomes of the nodes.
EndDivided(s, k, N, meta, root, cover, height, c, h, new, N2, sep) ==
    /\ Covering(cover, height, NodesOf(N)) /\ root \in NodesOf(N)
    /\ PathOver(s, k, N, meta, root, cover, height) /\ Len(s) >= 2
    /\ new \in PageIds \ NodesOf(N)
    /\ Divided(c, h, cover, height, s[Len(s)], new, sep)
    /\ Grown(N2, N, s[Len(s)])

\* The path to the page above the one that is split.
LEMMA PathAbove ==
  ASSUME NEW N, NEW root, NEW meta, NEW s, NEW k, NEW cover, NEW height,
         NEW new, NEW sep, NEW c, NEW h, NEW N2,
         EndDivided(s, k, N, meta, root, cover, height, c, h, new, N2, sep)
  PROVE  /\ PathOver(Front(s), k, N2, meta, root, c, h)
         /\ Len(Front(s)) = Len(s) - 1 /\ Last(Front(s)) = s[Len(s) - 1]
         /\ Len(s) = 2 => s[Len(s)] = root /\ s[Len(s) - 1] = meta
         /\ Len(s) > 2 => /\ s[Len(s) - 1] \in BranchesOf(N) \ {s[Len(s)]}
                          /\ SearchChild(N[s[Len(s) - 1]], k) = s[Len(s)]
  <1>a. Len(s) \in Nat
    BY DEF EndDivided, PathOver
  <1>b. PICK m \in Nat : m = Len(s)
    BY <1>a
  <1>c. /\ root \in NodesOf(N) /\ Covering(cover, height, NodesOf(N))
        /\ PathOver(s, k, N, meta, root, cover, height) /\ m >= 2
        /\ new \in PageIds \ NodesOf(N) /\ Divided(c, h, cover, height, s[m], new, sep)
        /\ Grown(N2, N, s[m])
    BY <1>b DEF EndDivided
  <1> DEFINE f == Front(s)
             t == s[m]
  <1>1. /\ s \in Seq(PageIds) /\ s[1] = meta /\ s[2] = root
        /\ \A i \in 2 .. m : /\ s[i] \in NodesOf(N) /\ k \in cover[s[i]]
                             /\ height[s[i]] + i = height[root] + 2
        /\ \A i \in 2 .. m - 1 : /\ s[i] \in BranchesOf(N)
                                 /\ s[i + 1] = SearchChild(N[s[i]], k)
    BY <1>b, <1>c DEF PathOver
  <1>2. /\ height \in [PageIds -> Nat] /\ NodesOf(N) \subseteq PageIds
        /\ height[root] \in Nat
    BY <1>c DEF Covering
  <1>3. f \in Seq(PageIds) /\ Len(f) = m - 1 /\ \A i \in 1 .. m - 1 : f[i] = s[i]
    <2>1. m - 1 \in 0 .. Len(s) /\ f = SubSeq(s, 1, m - 1)
      BY <1>b, <1>c DEF Front
    <2> HIDE DEF f
    <2> QED BY <1>1, <2>1, FrontInSeq
  <1> HIDE DEF f, t
  <1>4. \A i \in 2 .. m - 1 : s[i] \in NodesOf(N) \ {t, new} /\ s[i] \in PageIds
    <2> TAKE i \in 2 .. m - 1
    <2>1. i \in 2 .. m /\ m \in 2 .. m /\ i < m
      BY <1>c
    <2>2. /\ s[i] \in NodesOf(N) /\ height[s[i]] + i = height[root] + 2
          /\ t \in NodesOf(N) /\ height[t] + m = height[root] + 2
      BY <1>1, <2>1 DEF t
    <2>3. s[i] # t
      <3> DEFINE a == height[t]
                 r == height[root]
      <3>1. ASSUME s[i] = t PROVE FALSE
        <4>1. a \in Nat /\ r \in Nat /\ a + i = r + 2 /\ a + m = r + 2
          BY <1>2, <2>2, <3>1
        <4> HIDE DEF a, r
        <4> QED BY <2>1, <4>1
      <3> QED BY <3>1
    <2> QED BY <1>2, <1>c, <2>2, <2>3
  <1>5. h[root] = height[root]
    BY <1>2, <1>c DEF Divided
  <1>6. ASSUME NEW i \in 2 .. m - 1
        PROVE  /\ f[i] \in NodesOf(N2) /\ k \in c[f[i]]
               /\ h[f[i]] + i = h[root] + 2
    <2>1. f[i] = s[i] /\ s[i] \in PageIds \ {t, new} /\ s[i] \in NodesOf(N2) /\ i \in 2 .. m
      BY <1>3, <1>4, <1>c DEF Grown
    <2>2. c[s[i]] = cover[s[i]] /\ h[s[i]] = height[s[i]]
      BY <1>c, <2>1 DEF Divided, t
    <2> QED BY <1>1, <1>5, <2>1, <2>2
  <1>7. ASSUME NEW i \in 2 .. m - 2
        PROVE  f[i] \in BranchesOf(N2) /\ f[i + 1] = SearchChild(N2[f[i]], k)
    <2>1. i \in 2 .. m - 1 /\ i \in 1 .. m - 1 /\ i + 1 \in 1 .. m - 1
      OBVIOUS
    <2>2. f[i] = s[i] /\ f[i + 1] = s[i + 1] /\ s[i] \in BranchesOf(N) \ {t}
          /\ s[i + 1] = SearchChild(N[s[i]], k)
      BY <1>1, <1>3, <1>4, <2>1
    <2> QED BY <1>c, <2>2 DEF t, Grown
  <1>8. PathOver(f, k, N2, meta, root, c, h)
    <2>1. f[1] = meta /\ (m - 1 >= 2 => f[2] = root)
      BY <1>1, <1>3, <1>c
    <2>2. m - 1 - 1 = m - 2
      OBVIOUS
    <2> QED BY <1>3, <1>6, <1>7, <2>1, <2>2 DEF PathOver
  <1>9. Last(f) = s[m - 1]
    BY <1>3, <1>c DEF Last
  <1>10. m = 2 => s[m] = root /\ s[m - 1] = meta
    BY <1>1
  <1>11. ASSUME m > 2
         PROVE  s[m - 1] \in BranchesOf(N) \ {s[m]} /\ SearchChild(N[s[m - 1]], k) = s[m]
    <2>1. PICK i \in 2 .. m - 1 : i = m - 1 /\ i + 1 = m
      BY <1>11
    <2> QED BY <1>1, <1>4, <2>1 DEF t
  <1> QED BY <1>b, <1>3, <1>8, <1>9, <1>10, <1>11 DEF f

LEMMA PageIdsFinite ==
  ASSUME NEW S \in SUBSET PageIds, NEW T \in SUBSET S
  PROVE  /\ IsFiniteSet(S) /\ IsFiniteSet(T)
         /\ Cardinality(S) \in Nat /\ Cardinality(T) \in Nat
         /\ Cardinality(T) <= Cardinality(S)
  <1>1. MaxPages - 1 \in Int /\ 0 \in Int
    BY BTreeAssumption
  <1>2. IsFiniteSet(PageIds)
    BY <1>1, FS_Interval DEF PageIds
  <1>3. IsFiniteSet(S)
    BY <1>2, FS_Subset
  <1> QED BY <1>3, FS_Subset, FS_CardinalityType

\* What insert holds while it splits: no page that is still to be made.
LEMMA HeldInSplit ==
  ASSUME NEW cover, NEW height, Inv(cover, height), pc \in {"split", "unwind"}
  PROVE  Held \subseteq PageIds /\ next_page_id \notin Held
  <1>1. /\ NodesInv(nodes, next_page_id, meta_page_id, root_page_id) /\ CallInv /\ SplitInv
        /\ PathOver(path, key, nodes, meta_page_id, root_page_id, cover, height)
    BY DEF Inv, PathInv
  <1>2. /\ nodes \in [PageIds -> {NoNode} \union LeafNodes \union BranchNodes]
        /\ \A p \in NodesOf(nodes) : p < next_page_id /\ p \in PageIds
        /\ meta_page_id \in PageIds /\ meta_page_id < next_page_id /\ next_page_id \in Nat
        /\ LeavesOf(nodes) \subseteq NodesOf(nodes)
    BY <1>1, Kinds, PageIdsAreNats DEF NodesInv, NodesOf
  <1>3. \A q \in Range(path) : q \in PageIds /\ q < next_page_id
    <2>1. path \in Seq(PageIds) /\ Len(path) \in Nat
      BY <1>1 DEF PathOver
    <2>2. \A i \in 1 .. Len(path) : path[i] \in PageIds /\ path[i] < next_page_id
      <3> TAKE i \in 1 .. Len(path)
      <3>1. CASE i = 1
        BY <1>1, <1>2, <2>1, <3>1 DEF PathOver
      <3>2. CASE i # 1
        <4>1. i \in 2 .. Len(path)
          BY <2>1, <3>2
        <4> QED BY <1>1, <1>2, <4>1 DEF PathOver
      <3> QED BY <3>1, <3>2
    <2> QED BY <2>1, <2>2 DEF Range
  <1>4. prev = INVALID_PAGE_ID \/ prev \in NodesOf(nodes)
    <2>1. CASE pc = "split"
      <3>1. Top \in LeavesOf(nodes) /\ prev = nodes[Top].prev_page_id
        BY <1>1, <2>1 DEF SplitInv, Node
      <3> QED BY <1>1, <1>2, <3>1 DEF NodesInv, LeafSound
    <2>2. CASE pc # "split"
      BY <1>1, <2>2 DEF CallInv
    <2> QED BY <2>1, <2>2
  <1>5. iter.page = INVALID_PAGE_ID \/ iter.page \in NodesOf(nodes)
    BY <1>1, <1>2 DEF CallInv, NoIter
  <1>6. \A q \in Held : q \in PageIds /\ q < next_page_id
    BY <1>2, <1>3, <1>4, <1>5 DEF Held, Pages, CallHolds
  <1> QED BY <1>2, <1>6

\* A page can be made, and after that there is a frame less that is held.
LEMMA PinnedInSplit ==
  ASSUME NEW cover, NEW height, Inv(cover, height), pc \in {"split", "unwind"},
         CreatePage, Held' \subseteq Held, foreign' = foreign
  PROVE  Pinned' < PoolSize
  <1>1. Held \subseteq PageIds /\ next_page_id \notin Held
    BY HeldInSplit
  <1>2. Pinned < PoolSize
    BY <1>1 DEF CreatePage, Available
  <1>3. /\ Cardinality(Held) \in Nat /\ Cardinality(Held') \in Nat
        /\ Cardinality(Held') <= Cardinality(Held)
    BY <1>1, PageIdsFinite
  <1>4. foreign \in Nat /\ PoolSize \in Nat
    BY BTreeAssumption DEF Inv, CallInv
  <1>5. Pinned = Cardinality(Held) + foreign /\ Pinned' = Cardinality(Held') + foreign
    BY DEF Pinned
  <1> DEFINE a == Cardinality(Held)
             b == Cardinality(Held')
  <1> HIDE DEF a, b
  <1>6. a \in Nat /\ b \in Nat /\ b <= a /\ Pinned = a + foreign /\ Pinned' = b + foreign
    BY <1>3, <1>5 DEF a, b
  <1> QED BY <1>2, <1>4, <1>6

LEMMA FrontRange ==
  ASSUME NEW S, NEW s \in Seq(S), Len(s) >= 1
  PROVE  Range(Front(s)) \subseteq Range(s)
  <1> DEFINE f == SubSeq(s, 1, Len(s) - 1)
  <1>1. Len(s) - 1 \in 0 .. Len(s) /\ Len(s) \in Nat
    OBVIOUS
  <1>2. f \in Seq(S) /\ Len(f) = Len(s) - 1 /\ \A j \in 1 .. Len(s) - 1 : f[j] = s[j]
    BY <1>1, FrontInSeq, ZenonT(30)
  <1> HIDE DEF f
  <1>3. \A j \in 1 .. Len(f) : f[j] \in Range(s)
    BY <1>1, <1>2 DEF Range
  <1>4. Range(f) \subseteq Range(s)
    BY <1>2, <1>3 DEF Range
  <1> QED BY <1>4 DEF f, Front

LEMMA SplitCommon ==
  ASSUME NEW cover, NEW height, Inv(cover, height), pc \in {"split", "unwind"},
         Len(path) >= 2, CreatePage,
         NEW sep \in Keys, sep \in cover[Top], NEW low \in cover[Top], low < sep,
         SendUp(sep),
         UNCHANGED <<meta_page_id, root_page_id, key, pair, iter, result, value, foreign>>,
         NEW c, NEW h, Divided(c, h, cover, height, Top, next_page_id, sep),
         nodes' \in [PageIds -> {NoNode} \union LeafNodes \union BranchNodes],
         NodesOf(nodes') = NodesOf(nodes) \union {next_page_id},
         LeavesOf(nodes) \subseteq LeavesOf(nodes'), Grown(nodes', nodes, Top)
  PROVE  /\ Covering(c, h, NodesOf(nodes'))
         /\ RootInv(c, h)' /\ PathInv(c, h)' /\ UnwindInv' /\ CallInv' /\ SplitInv'
         /\ \A p \in BranchesOf(nodes) \ {Top} :
              BranchOver(Wholes'[p], p, c, h) /\ Range(Wholes'[p].children) \subseteq NodesOf(nodes')
         /\ Wholes'[Top] = nodes'[Top] /\ Wholes'[next_page_id] = nodes'[next_page_id]
  <1> DEFINE P == NodesOf(nodes)
             B == BranchesOf(nodes) \ {Top}
             u == path[Len(path) - 1]
             f == Front(path)
  <1>1. /\ NodesInv(nodes, next_page_id, meta_page_id, root_page_id)
        /\ Levels(nodes, Wholes, cover, height) /\ RootInv(cover, height) /\ CallInv
        /\ PathOver(path, key, nodes, meta_page_id, root_page_id, cover, height)
    BY DEF Inv, PathInv
  <1>2. /\ next_page_id \in PageIds \ P /\ next_page_id \in Nat /\ next_page_id + 1 \in 0 .. MaxPages
        /\ P \subseteq PageIds /\ BranchesOf(nodes) \subseteq P /\ LeavesOf(nodes) \subseteq P
        /\ root_page_id \in P /\ meta_page_id \in PageIds \ P /\ meta_page_id # next_page_id
    <2>1. next_page_id \in Nat /\ next_page_id < MaxPages /\ MaxPages \in Nat /\ meta_page_id < next_page_id
      BY <1>1, PageIdsAreNats DEF CreatePage, NodesInv
    <2>2. next_page_id \in PageIds /\ next_page_id + 1 \in 0 .. MaxPages
      BY <2>1 DEF PageIds
    <2>3. next_page_id \notin P /\ meta_page_id # next_page_id
      BY <1>1, <2>1 DEF NodesInv
    <2> QED BY <1>1, <2>1, <2>2, <2>3, Kinds DEF NodesInv, NodesOf
  <1>3. /\ Covering(cover, height, P) /\ height \in [PageIds -> Nat]
    BY <1>1 DEF Levels, Covering
  <1>4. /\ path \in Seq(PageIds) /\ Len(path) \in Nat /\ Len(path) \in 2 .. Len(path)
        /\ Top = path[Len(path)] /\ Top \in P /\ Top \in PageIds /\ key \in cover[Top]
        /\ height[Top] + Len(path) = height[root_page_id] + 2
    <2>1. path \in Seq(PageIds) /\ Len(path) \in Nat /\ Len(path) \in 2 .. Len(path)
      BY <1>1 DEF PathOver
    <2> QED BY <1>1, <1>2, <2>1, TopIsLast DEF PathOver
  <1>5. /\ pc' = "unwind" /\ path' = f /\ prev' = INVALID_PAGE_ID
        /\ overflow'.key = sep /\ overflow'.page_id = next_page_id
        /\ next_page_id' = next_page_id + 1
        /\ meta_page_id' = meta_page_id /\ root_page_id' = root_page_id /\ key' = key
        /\ pair' = pair /\ iter' = iter /\ value' = value /\ foreign' = foreign
    BY DEF SendUp, CreatePage
  <1>6. Covering(c, h, NodesOf(nodes'))
    BY <1>2, <1>3, <1>4, CoveringDivided
  <1>7. /\ PathOver(f, key, nodes', meta_page_id, root_page_id, c, h)
        /\ Len(f) = Len(path) - 1 /\ Last(f) = u
        /\ Len(path) = 2 => Top = root_page_id /\ u = meta_page_id
        /\ Len(path) > 2 => u \in B /\ SearchChild(nodes[u], key) = Top
    <2>1. EndDivided(path, key, nodes, meta_page_id, root_page_id, cover, height, c, h,
                     next_page_id, nodes', sep)
      BY <1>1, <1>2, <1>3, <1>4 DEF EndDivided
    <2> HIDE DEF f
    <2>2. /\ PathOver(Front(path), key, nodes', meta_page_id, root_page_id, c, h)
          /\ Len(Front(path)) = Len(path) - 1 /\ Last(Front(path)) = path[Len(path) - 1]
          /\ Len(path) = 2 => path[Len(path)] = root_page_id /\ path[Len(path) - 1] = meta_page_id
          /\ Len(path) > 2 => /\ path[Len(path) - 1] \in BranchesOf(nodes) \ {path[Len(path)]}
                              /\ SearchChild(nodes[path[Len(path) - 1]], key) = path[Len(path)]
      BY <2>1, PathAbove
    <2>3. path[Len(path)] = Top
      BY <1>4
    <2> QED BY <2>2, <2>3 DEF f
  <1>8. Top' = u
    BY <1>5, <1>7 DEF Top
  <1>9. u \in B \/ u = meta_page_id
    BY <1>4, <1>7
  <1>10. u \in B <=> Len(path) > 2
    BY <1>2, <1>4, <1>7
  <1> HIDE DEF f, u
  <1>11. \A p \in B : BranchOver(nodes[p], p, cover, height) /\ Range(nodes[p].children) \subseteq P
    <2> TAKE p \in B
    <2>1. BranchOver(Wholes[p], p, cover, height) /\ Range(Wholes[p].children) \subseteq P
      BY <1>1 DEF Levels
    <2>2. Wholes[p] = nodes[p]
      <3>1. nodes \in [PageIds -> {NoNode} \union LeafNodes \union BranchNodes] /\ p \in PageIds /\ p # Top
        BY <1>1, <1>2 DEF NodesInv
      <3> QED BY <3>1 DEF Wholes
    <2> QED BY <2>1, <2>2
  <1>12. /\ u \in B =>
              /\ BranchOver(BranchInsert(nodes[u], SearchChildIdx(nodes[u], key), sep, next_page_id), u, c, h)
              /\ Range(BranchInsert(nodes[u], SearchChildIdx(nodes[u], key), sep, next_page_id).children)
                   \subseteq P \union {next_page_id}
         /\ \A p \in B \ {u} : BranchOver(nodes[p], p, c, h) /\ Range(nodes[p].children) \subseteq P
    <2>1. u \in B => SearchChild(nodes[u], key) = Top
      BY <1>7, <1>10
    <2>2. u \notin B => \A p \in P : height[p] <= height[Top]
      BY <1>1, <1>4, <1>7, <1>10 DEF RootInv
    <2>3. B \in SUBSET (P \ {Top})
      BY <1>2
    <2>4. Branching(nodes, B, P, cover, height) /\ Above(u, Top, key, nodes, B, P, height)
      BY <1>11, <2>1, <2>2 DEF Branching, Above
    <2> HIDE DEF B, P
    <2>5. /\ u \in B =>
              /\ BranchOver(BranchInsert(nodes[u], SearchChildIdx(nodes[u], key), sep, next_page_id), u, c, h)
              /\ Range(BranchInsert(nodes[u], SearchChildIdx(nodes[u], key), sep, next_page_id).children)
                   \subseteq P \union {next_page_id}
          /\ Branching(nodes, B \ {u}, P, c, h)
      BY <1>2, <1>3, <1>4, <2>3, <2>4, DivideRest, ZenonT(30)
    <2> QED BY <2>5 DEF Branching
  <1>13. /\ \A p \in PageIds \ {u} : Wholes'[p] = nodes'[p]
         /\ u \in B => Wholes'[u] = BranchInsert(nodes[u], SearchChildIdx(nodes[u], key), sep, next_page_id)
    <2>1. CASE u \in B
      <3>1. Wholes' = [nodes' EXCEPT ![u] = BranchInsert(nodes'[u], SearchChildIdx(nodes'[u], key),
                                                         sep, next_page_id)]
        BY <1>5, <1>8, <2>1 DEF Wholes, Grown
      <3>2. nodes'[u] = nodes[u] /\ u \in PageIds
        BY <1>2, <2>1 DEF Grown
      <3> QED BY <3>1, <3>2
    <2>2. CASE u \notin B
      <3>1. u \notin BranchesOf(nodes')
        <4>1. u = meta_page_id
          BY <1>9, <2>2
        <4>2. u \notin NodesOf(nodes')
          BY <1>2, <4>1
        <4> QED BY <4>2 DEF NodesOf
      <3>2. Wholes' = nodes'
        BY <1>8, <3>1 DEF Wholes
      <3> QED BY <2>2, <3>2
    <2> QED BY <2>1, <2>2
  <1>14. u # Top /\ u # next_page_id
    BY <1>2, <1>4, <1>9
  <1>15. Wholes'[Top] = nodes'[Top] /\ Wholes'[next_page_id] = nodes'[next_page_id]
    BY <1>2, <1>4, <1>13, <1>14
  <1>16. \A p \in B : BranchOver(Wholes'[p], p, c, h) /\ Range(Wholes'[p].children) \subseteq NodesOf(nodes')
    <2> TAKE p \in B
    <2>1. CASE p = u
      BY <1>12, <1>13, <2>1
    <2>2. CASE p # u
      <3>1. Wholes'[p] = nodes[p]
        BY <1>2, <1>13, <2>2 DEF Grown
      <3> QED BY <1>12, <2>2, <3>1
    <2> QED BY <2>1, <2>2
  <1>17. RootInv(c, h)'
    <2> DEFINE r == root_page_id
    <2>0. r' = r
      BY <1>5
    <2>1. /\ h[next_page_id] = height[Top] /\ \A p \in PageIds \ {next_page_id} : h[p] = height[p]
          /\ c[Top] = {k \in cover[Top] : sep <= k}
          /\ c[next_page_id] = {k \in cover[Top] : k < sep}
          /\ \A p \in PageIds \ {Top, next_page_id} : c[p] = cover[p]
      BY DEF Divided
    <2>2. h[root_page_id] = height[root_page_id]
      BY <1>2, <2>1
    <2>3. \A p \in NodesOf(nodes') : h[p] <= h[root_page_id]
      <3> TAKE p \in NodesOf(nodes')
      <3>1. CASE p = next_page_id
        <4>1. height[Top] <= height[root_page_id]
          BY <1>1, <1>4 DEF RootInv
        <4> QED BY <2>1, <2>2, <3>1, <4>1
      <3>2. CASE p # next_page_id
        <4>1. p \in P /\ h[p] = height[p]
          BY <1>2, <2>1, <3>2
        <4> QED BY <1>1, <2>2, <4>1 DEF RootInv
      <3> QED BY <3>1, <3>2
    <2>4. cover[root_page_id] = Nat
      <3>1. Top # meta_page_id
        BY <1>2, <1>4
      <3> QED BY <1>1, <3>1 DEF RootInv, SplitRoot
    <2>5. CASE Len(path) = 2
      <3>1. Top = root_page_id /\ Top' = meta_page_id
        BY <1>7, <1>8, <2>5
      <3>2. SplitRoot'
        BY <1>5, <3>1 DEF SplitRoot
      <3> QED BY <1>2, <1>5, <2>1, <2>2, <2>3, <2>4, <3>1, <3>2 DEF RootInv
    <2>6. CASE Len(path) > 2
      <3>1. Top' # meta_page_id
        BY <1>2, <1>8, <1>10, <2>6
      <3>2. ~SplitRoot'
        BY <1>5, <3>1 DEF SplitRoot
      <3>3. Top # root_page_id
        <4> DEFINE a == height[root_page_id]
                   b == height[Top]
                   m == Len(path)
        <4>1. a \in Nat /\ b \in Nat /\ m \in Nat /\ m > 2 /\ b + m = a + 2
          BY <1>2, <1>3, <1>4, <2>6
        <4> HIDE DEF a, b, m
        <4>2. a # b
          BY <4>1
        <4> QED BY <4>2 DEF a, b
      <3>4. c[root_page_id] = Nat
        BY <1>2, <2>1, <2>4, <3>3
      <3> QED BY <1>5, <2>3, <3>2, <3>4 DEF RootInv
    <2>7. Len(path) = 2 \/ Len(path) > 2
      <3> DEFINE m == Len(path)
      <3>1. m \in Nat /\ m >= 2
        BY <1>4
      <3> HIDE DEF m
      <3>2. m = 2 \/ m > 2
        BY <3>1
      <3> QED BY <3>2 DEF m
    <2> QED BY <2>5, <2>6, <2>7
  <1>18. PathInv(c, h)'
    BY <1>5, <1>7 DEF PathInv
  <1>19. SplitInv'
    BY <1>5 DEF SplitInv
  <1>20. CallInv'
    <2>1. iter' = NoIter \/ iter' \in [page : LeavesOf(nodes'), slot_id : Nat]
      BY <1>1, <1>5 DEF CallInv
    <2>2. key' \in Keys /\ foreign' \in Nat /\ pair' \in Keys \union {NoKey} /\ value' \in Keys \union {NoKey}
      BY <1>1, <1>5 DEF CallInv
    <2> QED BY <1>5, <2>1, <2>2 DEF CallInv
  <1>21. Pinned' < PoolSize
    <2>1. Range(f) \subseteq Range(path)
      BY <1>4, FrontRange DEF f
    <2>2. Held' \subseteq Held
      BY <1>5, <2>1 DEF Held, CallHolds, Pages
    <2> QED BY <1>5, <2>2, PinnedInSplit
  <1>22. UnwindInv'
    <2>1. Len(path') >= 1
      BY <1>4, <1>5, <1>7
    <2>2. Top' = meta_page_id' \/ Top' \in BranchesOf(nodes')
      BY <1>5, <1>8, <1>9 DEF Grown
    <2> QED BY <1>5, <1>21, <2>1, <2>2 DEF UnwindInv
  <1> QED BY <1>6, <1>15, <1>16, <1>17, <1>18, <1>19, <1>20, <1>22

\* The leaf new is linked in before the leaf t.
Relinked(N2, N, t, new) ==
    /\ LeavesOf(N2) = LeavesOf(N) \union {new}
    /\ N2[t].prev_page_id = new /\ N2[t].next_page_id = N[t].next_page_id
    /\ N2[new].prev_page_id = N[t].prev_page_id /\ N2[new].next_page_id = t
    /\ \A p \in LeavesOf(N) \ {t} :
          /\ N2[p].prev_page_id = N[p].prev_page_id
          /\ N2[p].next_page_id = IF p = N[t].prev_page_id THEN new ELSE N[p].next_page_id

\* The leaves are pages of the lowest level.
Grounded(N, height, P) ==
    /\ LeavesOf(N) \subseteq P
    /\ \A p \in LeavesOf(N) : height[p] = 0 /\ LeafSound(N, p)

\* The leaf t hands its lower half to the leaf new, which comes before it.
LEMMA LinksDivided ==
  ASSUME NEW cover, NEW height, NEW P, Covering(cover, height, P),
         NEW N, Grounded(N, height, P), Links(N, cover),
         NEW t \in LeavesOf(N), NEW new \in PageIds \ P,
         NEW sep \in cover[t], NEW low \in cover[t], low < sep,
         NEW c, NEW h, Divided(c, h, cover, height, t, new, sep),
         NEW N2, Relinked(N2, N, t, new)
  PROVE  Links(N2, c)
  <1> DEFINE L == LeavesOf(N)
             A(p, q) == Ahead(cover[p], cover[q])
             B(p, q) == Ahead(c[p], c[q])
             nx(p) == N[p].next_page_id
             pr(p) == N[p].prev_page_id
             nx2(p) == N2[p].next_page_id
             pr2(p) == N2[p].prev_page_id
  <1>0. /\ L \subseteq P /\ \A p \in L : height[p] = 0 /\ LeafSound(N, p)
        /\ LeavesOf(N2) = L \union {new}
    BY DEF Grounded, Relinked
  <1>1. /\ L \subseteq P /\ P \subseteq PageIds /\ t \in L /\ new \notin L /\ new \in PageIds
        /\ INVALID_PAGE_ID \notin L /\ INVALID_PAGE_ID # new
        /\ cover \in [PageIds -> SUBSET Nat] /\ \A p \in L : cover[p] # {}
    BY <1>0, PageIdsAreNats DEF Covering
  <1>2. /\ c[t] = {k \in cover[t] : sep <= k} /\ c[new] = {k \in cover[t] : k < sep}
        /\ \A q \in PageIds \ {t, new} : c[q] = cover[q]
        /\ sep \in c[t] /\ low \in c[new] /\ sep \in Nat /\ low \in Nat /\ cover[t] \subseteq Nat
    BY <1>1 DEF Divided
  <1>3. \A p \in L : ~A(p, p)
    BY <1>1 DEF Ahead
  <1>4. B(new, t) /\ ~B(t, new)
    BY <1>2 DEF Ahead
  <1>5. ASSUME NEW q \in L \ {t}
        PROVE  /\ B(t, q) <=> A(t, q)
               /\ B(new, q) <=> A(t, q)
               /\ B(q, t) <=> A(q, t)
               /\ B(q, new) <=> A(q, t)
    <2>1. c[q] = cover[q] /\ cover[q] \subseteq Nat
      BY <1>1, <1>2
    <2>2. PICK x \in cover[q] : x \in Nat
      BY <1>1, <2>1
    <2>3. height[q] = height[t] /\ q \in P /\ t \in P /\ q # t
      BY <1>0, <1>1
    <2>4. A(t, q) \/ A(q, t)
      BY <2>3 DEF Covering
    <2>5. ~(B(t, q) /\ A(q, t)) /\ ~(B(new, q) /\ A(q, t))
      BY <1>2, <2>1, <2>2 DEF Ahead
    <2>6. ~(B(q, t) /\ A(t, q)) /\ ~(B(q, new) /\ A(t, q))
      BY <1>2, <2>1, <2>2 DEF Ahead
    <2>7. (A(t, q) => B(t, q) /\ B(new, q)) /\ (A(q, t) => B(q, t) /\ B(q, new))
      BY <1>2, <2>1 DEF Ahead
    <2> QED BY <2>4, <2>5, <2>6, <2>7
  <1>6. \A p, q \in L \ {t} : B(p, q) <=> A(p, q)
    BY <1>1, <1>2
  <1>7. \A p \in L : /\ nx(p) \in L \union {INVALID_PAGE_ID}
                     /\ pr(p) \in L \union {INVALID_PAGE_ID}
    BY <1>0 DEF LeafSound
  <1>8. \A p, q \in L : /\ nx(p) = q <=> pr(q) = p
                        /\ nx(p) = q => A(p, q)
                        /\ p # q /\ A(p, q) => /\ nx(p) # INVALID_PAGE_ID
                                               /\ nx(p) = q \/ A(nx(p), q)
    BY DEF Links
  <1>9. /\ pr2(t) = new /\ nx2(t) = nx(t) /\ pr2(new) = pr(t) /\ nx2(new) = t
        /\ \A p \in L \ {t} : /\ pr2(p) = pr(p)
                              /\ p = pr(t) => nx2(p) = new
                              /\ p # pr(t) => nx2(p) = nx(p)
    BY DEF Relinked
  <1> HIDE DEF L, A, B, nx, pr, nx2, pr2
  <1>10. nx(t) # t /\ pr(t) # t /\ \A p \in L : nx(p) # new /\ pr(p) # new
    BY <1>1, <1>3, <1>7, <1>8
  <1>11. \A p, q \in L \union {new} : nx2(p) = q <=> pr2(q) = p
    BY <1>1, <1>7, <1>8, <1>9, <1>10
  <1>12. \A p, q \in L \union {new} : nx2(p) = q => B(p, q)
    BY <1>1, <1>4, <1>5, <1>6, <1>7, <1>8, <1>9, <1>10
  <1>13. ASSUME NEW p \in L \union {new}, NEW q \in L \union {new}, p # q, B(p, q)
         PROVE  nx2(p) # INVALID_PAGE_ID /\ (nx2(p) = q \/ B(nx2(p), q))
    <2>1. CASE p = new
      BY <1>1, <1>4, <1>5, <1>9, <1>13, <2>1
    <2>2. CASE p = t
      <3>1. q \in L \ {t} /\ A(t, q)
        BY <1>1, <1>4, <1>5, <1>13, <2>2
      <3>2. nx(t) \in L \ {t} /\ (nx(t) = q \/ A(nx(t), q))
        BY <1>1, <1>7, <1>8, <1>10, <3>1
      <3> QED BY <1>1, <1>6, <1>9, <2>2, <3>1, <3>2
    <2>3. CASE p \in L \ {t} /\ q \in {t, new}
      <3>1. A(p, t)
        BY <1>5, <1>13, <2>3
      <3>2. nx(p) \in L /\ (nx(p) = t \/ A(nx(p), t))
        BY <1>1, <1>7, <1>8, <2>3, <3>1
      <3>3. CASE p = pr(t)
        BY <1>1, <1>4, <1>9, <2>3, <3>3
      <3>4. CASE p # pr(t)
        <4>1. nx2(p) = nx(p) /\ nx(p) # t
          BY <1>1, <1>8, <1>9, <2>3, <3>4
        <4> QED BY <1>1, <1>5, <2>3, <3>2, <4>1
      <3> QED BY <3>3, <3>4
    <2>4. CASE p \in L \ {t} /\ q \in L \ {t}
      <3>1. A(p, q)
        BY <1>6, <1>13, <2>4
      <3>2. nx(p) \in L /\ (nx(p) = q \/ A(nx(p), q))
        BY <1>1, <1>7, <1>8, <1>13, <2>4, <3>1
      <3>3. CASE p = pr(t)
        <4>1. nx2(p) = new /\ nx(p) = t
          BY <1>1, <1>8, <1>9, <2>4, <3>3
        <4> QED BY <1>1, <1>5, <2>4, <3>2, <4>1
      <3>4. CASE p # pr(t)
        <4>1. nx2(p) = nx(p) /\ nx(p) # t
          BY <1>1, <1>8, <1>9, <2>4, <3>4
        <4> QED BY <1>1, <1>6, <2>4, <3>2, <4>1
      <3> QED BY <3>3, <3>4
    <2> QED BY <1>1, <2>1, <2>2, <2>3, <2>4
  <1>14. \A p, q \in L \union {new} :
           /\ nx2(p) = q <=> pr2(q) = p
           /\ nx2(p) = q => B(p, q)
           /\ p # q /\ B(p, q) => /\ nx2(p) # INVALID_PAGE_ID
                                  /\ nx2(p) = q \/ B(nx2(p), q)
    BY <1>11, <1>12, <1>13
  <1> QED BY <1>0, <1>14 DEF Links, B, nx2, pr2

LEMMA SortedCut ==
  ASSUME NEW K, K \subseteq Int, NEW all \in Seq(K), Sorted(all),
         NEW z \in Nat, z >= 1, z < Len(all)
  PROVE  /\ Lower(all, z) \in Seq(K) /\ Upper(all, z) \in Seq(K)
         /\ Sorted(Lower(all, z)) /\ Sorted(Upper(all, z))
         /\ Lower(all, z) # <<>> /\ Upper(all, z) # <<>>
         /\ \A k \in Range(Lower(all, z)) : k \in Range(all) /\ k < Upper(all, z)[1]
         /\ \A k \in Range(Upper(all, z)) : k \in Range(all) /\ Upper(all, z)[1] <= k
         /\ Upper(all, z)[1] \in Range(all) /\ all[1] \in Range(all)
         /\ all[1] < Upper(all, z)[1]
         /\ Range(all) \subseteq Range(Lower(all, z)) \union Range(Upper(all, z))
  <1> DEFINE m == Len(all)
             lo == SubSeq(all, 1, z)
             up == SubSeq(all, z + 1, Len(all))
  <1>0. m \in Nat /\ 1 <= z /\ z < m
    OBVIOUS
  <1>1. z \in 0 .. Len(all)
    OBVIOUS
  <1>2. /\ lo \in Seq(K) /\ Len(lo) = z /\ up \in Seq(K) /\ Len(up) = m - z
        /\ \A j \in 1 .. z : lo[j] = all[j]
        /\ \A j \in 1 .. m - z : up[j] = all[z + j]
    BY <1>1, FrontInSeq
  <1>3. \A i, j \in 1 .. m : i < j => all[i] < all[j]
    BY SeqMonotonic, SortedPairs
  <1>4. \A i \in 1 .. m : all[i] \in Range(all) /\ all[i] \in Int
    <2>1. all \in Seq(Int)
      BY SeqMonotonic
    <2> QED BY <2>1 DEF Range
  <1>5. DOMAIN lo = 1 .. z /\ DOMAIN up = 1 .. m - z
    BY <1>2
  <1> HIDE DEF lo, up, m
  <1>6. /\ \A j \in 1 .. z : j \in 1 .. m /\ j < z + 1
        /\ \A j \in 1 .. m - z : z + j \in 1 .. m /\ (j = 1 \/ z + 1 < z + j)
        /\ z + 1 \in 1 .. m /\ 1 \in 1 .. m /\ 1 \in 1 .. m - z /\ 1 < z + 1
    BY <1>0
  <1>7. up[1] = all[z + 1]
    BY <1>2, <1>6
  <1>8. \A k \in Range(lo) : k \in Range(all) /\ k < up[1]
    <2> TAKE k \in Range(lo)
    <2>1. PICK j \in 1 .. z : k = lo[j]
      BY <1>5 DEF Range
    <2>2. k = all[j] /\ j \in 1 .. m /\ j < z + 1
      BY <1>2, <1>6, <2>1
    <2> QED BY <1>3, <1>4, <1>6, <1>7, <2>2
  <1>9. \A k \in Range(up) : k \in Range(all) /\ up[1] <= k
    <2> TAKE k \in Range(up)
    <2>1. PICK j \in 1 .. m - z : k = up[j]
      BY <1>5 DEF Range
    <2>2. k = all[z + j] /\ z + j \in 1 .. m /\ (j = 1 \/ z + 1 < z + j)
      BY <1>2, <1>6, <2>1
    <2> QED BY <1>3, <1>4, <1>6, <1>7, <2>2
  <1>10. Sorted(lo)
    BY <1>2, <1>3, <1>5, <1>6 DEF Sorted
  <1>11. Sorted(up)
    <2> SUFFICES ASSUME NEW i \in 1 .. m - z, NEW j \in 1 .. m - z, i < j
                 PROVE  up[i] < up[j]
      BY <1>5 DEF Sorted
    <2>1. z + i \in 1 .. m /\ z + j \in 1 .. m /\ z + i < z + j
      BY <1>0
    <2> QED BY <1>2, <1>3, <2>1
  <1>12. lo # <<>> /\ up # <<>>
    BY <1>0, <1>2
  <1>13. up[1] \in Range(all) /\ all[1] \in Range(all) /\ all[1] < up[1]
    BY <1>3, <1>4, <1>6, <1>7
  <1>14. ASSUME NEW k \in Range(all) PROVE k \in Range(lo) \union Range(up)
    <2>1. PICK j \in 1 .. m : k = all[j]
      BY DEF Range, m
    <2>2. CASE j <= z
      <3>1. j \in 1 .. z
        BY <2>2
      <3> QED BY <1>2, <1>5, <2>1, <3>1 DEF Range
    <2>3. CASE j > z
      <3>1. j - z \in 1 .. m - z /\ z + (j - z) = j
        BY <1>0, <2>3
      <3>2. up[j - z] = k
        BY <1>2, <2>1, <3>1
      <3> QED BY <1>5, <3>1, <3>2 DEF Range
    <2> QED BY <1>0, <2>2, <2>3
  <1> QED BY <1>2, <1>8, <1>9, <1>10, <1>11, <1>12, <1>13, <1>14 DEF lo, up, Lower, Upper

\* The pairs keys and k, those below sep in lower and the others in upper.
LeafHalves(lower, upper, sep, low, keys, k) ==
    /\ lower \in Seq(Keys) /\ Sorted(lower) /\ lower # <<>> /\ Used(lower, LeafPairs) <= LeafCapacity
    /\ upper \in Seq(Keys) /\ Sorted(upper) /\ upper # <<>> /\ Used(upper, LeafPairs) <= LeafCapacity
    /\ \A x \in Range(lower) : x \in Range(keys) \union {k} /\ x < sep
    /\ \A x \in Range(upper) : x \in Range(keys) \union {k} /\ sep <= x
    /\ sep \in Range(keys) \union {k} /\ low \in Range(keys) \union {k} /\ low < sep
    /\ Range(keys) \union {k} \subseteq Range(lower) \union Range(upper)

LEMMA LeafCut ==
  ASSUME NEW n, n.keys \in Seq(Keys), Sorted(n.keys), Used(n.keys, LeafPairs) <= LeafCapacity,
         NEW k \in Keys, ~Holds(n.keys, k), ~HasRoom(n.keys, k, LeafPairs, LeafCapacity)
  PROVE  \E low : LeafHalves(LeafSplit(n, k, LeafPairs).new, LeafSplit(n, k, LeafPairs).old,
                             LeafSplit(n, k, LeafPairs).overflow_key, low, n.keys, k)
  <1> DEFINE keys == n.keys
             all == InsertKey(keys, k)
             z == SplitPoint(keys, k, LeafPairs, LeafCapacity)
             low == all[1]
  <1>1. /\ LeafSplit(n, k, LeafPairs).new = Lower(all, z)
        /\ LeafSplit(n, k, LeafPairs).old = Upper(all, z)
        /\ LeafSplit(n, k, LeafPairs).overflow_key = Upper(all, z)[1]
    BY DEF LeafSplit
  <1>2. keys \in Seq(Keys) /\ Sorted(keys) /\ Used(keys, LeafPairs) <= LeafCapacity
        /\ ~Holds(keys, k) /\ ~HasRoom(keys, k, LeafPairs, LeafCapacity)
    OBVIOUS
  <1> HIDE DEF keys
  <1>3. /\ all \in Seq(Keys) /\ Sorted(all) /\ Len(all) = Len(keys) + 1
        /\ Range(all) = Range(keys) \union {k} /\ z \in 2 .. Len(keys)
        /\ Used(Lower(all, z), LeafPairs) <= LeafCapacity
        /\ Used(Upper(all, z), LeafPairs) <= LeafCapacity
    <2>1. ShortPairs(LeafPairs, Keys, LeafCapacity) /\ LeafCapacity \in Nat /\ Keys \subseteq Int
      BY PairsAreShort, KeysAreNats
    <2> QED BY <1>2, <2>1, SplitPointCuts
  <1> HIDE DEF all, z
  <1>4. PICK i \in Nat : i = z /\ i >= 1 /\ i < Len(all)
    <2>1. Len(keys) \in Nat
      BY <1>2
    <2>2. z \in 2 .. Len(keys) /\ Len(all) = Len(keys) + 1
      BY <1>3
    <2>3. z \in Nat /\ z >= 1 /\ z < Len(all)
      BY ONLY <2>1, <2>2
    <2> QED BY ONLY <2>3
  <1>5. /\ Lower(all, i) \in Seq(Keys) /\ Upper(all, i) \in Seq(Keys)
        /\ Sorted(Lower(all, i)) /\ Sorted(Upper(all, i))
        /\ Lower(all, i) # <<>> /\ Upper(all, i) # <<>>
        /\ \A x \in Range(Lower(all, i)) : x \in Range(all) /\ x < Upper(all, i)[1]
        /\ \A x \in Range(Upper(all, i)) : x \in Range(all) /\ Upper(all, i)[1] <= x
        /\ Upper(all, i)[1] \in Range(all) /\ low \in Range(all)
        /\ low < Upper(all, i)[1]
        /\ Range(all) \subseteq Range(Lower(all, i)) \union Range(Upper(all, i))
    BY <1>3, <1>4, KeysAreNats, SortedCut
  <1>6. LeafHalves(Lower(all, z), Upper(all, z), Upper(all, z)[1], low, keys, k)
    BY <1>3, <1>4, <1>5 DEF LeafHalves
  <1> QED BY <1>1, <1>6 DEF keys

\* The nodes after a leaf was split.
LEMMA LeafDivided ==
  ASSUME NEW cover, NEW height, Inv(cover, height), SplitLeaf
  PROVE  \E lower, upper, sep, low :
           /\ LeafHalves(lower, upper, sep, low, Node.keys, key)
           /\ nodes' = [LinkPrev(next_page_id) EXCEPT
                          ![Top] = Leaf(next_page_id, Node.next_page_id, upper),
                          ![next_page_id] = Leaf(Node.prev_page_id, Top, lower)]
           /\ SendUp(sep)
  <1>1. pc = "split" /\ Top \in LeavesOf(nodes) /\ ~Holds(Node.keys, key) /\ ~LeafHasRoom /\ key \in Keys
    BY DEF SplitLeaf, Inv, SplitInv, CallInv
  <1>2. Node \in LeafNodes /\ LeafSound(nodes, Top)
    BY <1>1 DEF Inv, NodesInv, LeavesOf, Node
  <1>3. /\ Node.keys \in Seq(Keys) /\ Sorted(Node.keys) /\ Used(Node.keys, LeafPairs) <= LeafCapacity
        /\ ~HasRoom(Node.keys, key, LeafPairs, LeafCapacity)
    BY <1>1, <1>2 DEF LeafNodes, LeafSound, Node, LeafHasRoom
  <1> DEFINE n == Node
             split == LeafSplit(n, key, LeafPairs)
             lower == split.new
             upper == split.old
             sep == split.overflow_key
  <1>4. \E low : LeafHalves(lower, upper, sep, low, n.keys, key)
    <2>1. /\ n.keys \in Seq(Keys) /\ Sorted(n.keys) /\ Used(n.keys, LeafPairs) <= LeafCapacity
          /\ ~Holds(n.keys, key) /\ ~HasRoom(n.keys, key, LeafPairs, LeafCapacity)
      BY <1>1, <1>3
    <2> HIDE DEF n
    <2> QED BY <1>1, <2>1, LeafCut
  <1>5. PICK low : LeafHalves(lower, upper, sep, low, Node.keys, key)
    BY <1>4
  <1>6. /\ nodes' = [LinkPrev(next_page_id) EXCEPT
                       ![Top] = Leaf(next_page_id, Node.next_page_id, upper),
                       ![next_page_id] = Leaf(Node.prev_page_id, Top, lower)]
        /\ SendUp(sep)
    BY DEF SplitLeaf
  <1> HIDE DEF lower, upper, sep
  <1> QED BY <1>5, <1>6

\* The leaves then.
LeafWasSplit ==
    /\ next_page_id \notin LeavesOf(nodes)
    /\ LeavesOf(nodes') = LeavesOf(nodes) \union {next_page_id}
    /\ \A p \in LeavesOf(nodes) \ {Top} : nodes'[p].keys = nodes[p].keys
    /\ \E sep, low : LeafHalves(nodes'[next_page_id].keys, nodes'[Top].keys, sep, low, Node.keys, key)

LEMMA SplitLeafKeeps ==
  ASSUME NEW cover, NEW height, Inv(cover, height), SplitLeaf
  PROVE  (\E c, h : Inv(c, h)') /\ LeafWasSplit
  <1> DEFINE P == NodesOf(nodes)
             L == LeavesOf(nodes)
             new == next_page_id
  <1>1. PICK lower, upper, sep, low :
           /\ LeafHalves(lower, upper, sep, low, Node.keys, key)
           /\ nodes' = [LinkPrev(new) EXCEPT
                          ![Top] = Leaf(new, Node.next_page_id, upper),
                          ![new] = Leaf(Node.prev_page_id, Top, lower)]
           /\ SendUp(sep)
    BY LeafDivided
  <1>2. /\ pc = "split" /\ CreatePage /\ Top \in L /\ prev = Node.prev_page_id /\ key \in Keys
        /\ UNCHANGED <<meta_page_id, root_page_id, key, pair, iter, result, value, foreign>>
        /\ Len(path) >= 2 /\ Len(path) \in Nat
    BY OnTheWay DEF SplitLeaf, Inv, SplitInv, CallInv
  <1>3. /\ NodesInv(nodes, next_page_id, meta_page_id, root_page_id) /\ Links(nodes, cover)
        /\ Levels(nodes, nodes, cover, height) /\ Wholes = nodes /\ RootInv(cover, height)
        /\ key \in cover[Top] /\ Top \in PageIds
    BY <1>2, OnTheWay DEF Inv, Wholes
  <1>4. /\ new \in PageIds \ P /\ P \subseteq PageIds /\ L \subseteq P /\ new # Top
        /\ Covering(cover, height, P) /\ new < MaxPages /\ new \in Nat /\ new' = new + 1
    <2>1. new \in Nat /\ new < MaxPages /\ MaxPages \in Nat
      BY <1>2, <1>3, PageIdsAreNats DEF CreatePage, NodesInv
    <2>2. new \in PageIds /\ new \notin P /\ new' = new + 1
      BY <1>2, <1>3, <2>1 DEF PageIds, NodesInv, CreatePage
    <2> QED BY <1>2, <1>3, <2>1, <2>2, Kinds DEF Levels, NodesInv, NodesOf
  <1>5. /\ Node \in LeafNodes /\ Node = nodes[Top] /\ LeafSound(nodes, Top)
        /\ Range(Node.keys) \subseteq cover[Top]
    BY <1>2, <1>3 DEF Node, LeavesOf, NodesInv, Levels
  <1>6. /\ lower \in Seq(Keys) /\ Sorted(lower) /\ lower # <<>> /\ Used(lower, LeafPairs) <= LeafCapacity
        /\ upper \in Seq(Keys) /\ Sorted(upper) /\ upper # <<>> /\ Used(upper, LeafPairs) <= LeafCapacity
        /\ \A x \in Range(lower) : x \in cover[Top] /\ x < sep
        /\ \A x \in Range(upper) : x \in cover[Top] /\ sep <= x
        /\ sep \in cover[Top] /\ low \in cover[Top] /\ low < sep
    BY <1>1, <1>3, <1>5 DEF LeafHalves
  <1>7. sep \in Keys
    <2>1. Range(Node.keys) \subseteq Keys
      BY <1>5 DEF LeafNodes, Range
    <2> QED BY <1>1, <1>2, <2>1 DEF LeafHalves
  <1>8. PICK c, h : Divided(c, h, cover, height, Top, new, sep)
    BY <1>2, <1>4, CanDivide
  <1>9. prev \in L \union {INVALID_PAGE_ID} /\ prev # Top /\ prev # new
    <2>1. prev \in L \union {INVALID_PAGE_ID} /\ prev = nodes[Top].prev_page_id
      BY <1>2, <1>5 DEF LeafSound
    <2>2. INVALID_PAGE_ID \notin PageIds
      BY PageIdsAreNats
    <2>3. prev # Top
      <3>1. ASSUME prev = Top PROVE FALSE
        <4>1. nodes[Top].next_page_id = Top
          BY <1>2, <1>3, <2>1, <3>1 DEF Links
        <4>2. Ahead(cover[Top], cover[Top])
          BY <1>2, <1>3, <4>1 DEF Links
        <4>3. cover[Top] \subseteq Nat
          BY <1>3, <1>4 DEF Covering
        <4> QED BY <1>3, <4>2, <4>3 DEF Ahead
      <3> QED BY <3>1
    <2> QED BY <1>4, <2>1, <2>2, <2>3
  <1> DEFINE old == Leaf(new, Node.next_page_id, upper)
             half == Leaf(Node.prev_page_id, Top, lower)
             B == BranchesOf(nodes)
  <1>10. /\ old \in LeafNodes /\ old.keys = upper /\ old.prev_page_id = new
         /\ old.next_page_id = nodes[Top].next_page_id
         /\ half \in LeafNodes /\ half.keys = lower /\ half.prev_page_id = nodes[Top].prev_page_id
         /\ half.next_page_id = Top
    BY <1>3, <1>4, <1>5, <1>6 DEF Leaf, LeafNodes
  <1>11. /\ nodes'[Top] = old /\ nodes'[new] = half
         /\ \A p \in PageIds \ {Top, new} :
              /\ p # prev => nodes'[p] = nodes[p]
              /\ p = prev => nodes'[p] = [nodes[p] EXCEPT !.next_page_id = new]
         /\ nodes' \in [PageIds -> {NoNode} \union LeafNodes \union BranchNodes]
    <2> DEFINE base == LinkPrev(new)
    <2>1. nodes \in [PageIds -> {NoNode} \union LeafNodes \union BranchNodes]
      BY <1>3 DEF NodesInv
    <2>2. /\ base \in [PageIds -> {NoNode} \union LeafNodes \union BranchNodes]
          /\ \A p \in PageIds : /\ p # prev => base[p] = nodes[p]
                                /\ p = prev => base[p] = [nodes[p] EXCEPT !.next_page_id = new]
      <3>1. CASE prev = INVALID_PAGE_ID
        BY <2>1, <3>1, PageIdsAreNats DEF LinkPrev
      <3>2. CASE prev # INVALID_PAGE_ID
        <4> DEFINE linked == [nodes[prev] EXCEPT !.next_page_id = new]
        <4>1. prev \in PageIds /\ nodes[prev] \in LeafNodes
          BY <1>9, <3>2 DEF LeavesOf
        <4>2. linked \in LeafNodes
          BY <1>4, <4>1 DEF LeafNodes
        <4>3. base = [nodes EXCEPT ![prev] = linked]
          BY <3>2 DEF LinkPrev
        <4> HIDE DEF base
        <4> QED BY <2>1, <4>1, <4>2, <4>3
      <3> QED BY <3>1, <3>2
    <2>3. nodes' = [base EXCEPT ![Top] = old, ![new] = half]
      BY <1>1
    <2> HIDE DEF base, old, half
    <2> QED BY <1>3, <1>4, <1>10, <2>2, <2>3
  <1> HIDE DEF old, half
  <1>12. ASSUME NEW p \in PageIds \ {Top, new}
         PROVE  /\ nodes'[p] \in LeafNodes <=> nodes[p] \in LeafNodes
                /\ nodes'[p] \in BranchNodes <=> nodes[p] \in BranchNodes
                /\ p \in L => /\ nodes'[p].keys = nodes[p].keys
                              /\ nodes'[p].prev_page_id = nodes[p].prev_page_id
                              /\ p # prev => nodes'[p].next_page_id = nodes[p].next_page_id
                              /\ p = prev => nodes'[p].next_page_id = new
                /\ p \in B => nodes'[p] = nodes[p]
    <2>1. CASE p # prev
      BY <1>11, <2>1
    <2>2. CASE p = prev
      <3>1. nodes[p] \in LeafNodes /\ nodes'[p] = [nodes[p] EXCEPT !.next_page_id = new]
        BY <1>9, <1>11, <2>2, PageIdsAreNats DEF LeavesOf
      <3>2. nodes'[p] \in LeafNodes /\ nodes'[p].keys = nodes[p].keys
            /\ nodes'[p].prev_page_id = nodes[p].prev_page_id /\ nodes'[p].next_page_id = new
        BY <1>4, <3>1 DEF LeafNodes
      <3> QED BY <2>2, <3>1, <3>2, EmptyNode DEF BranchesOf
    <2> QED BY <2>1, <2>2
  <1>13. /\ LeavesOf(nodes') = L \union {new} /\ BranchesOf(nodes') = B
         /\ NodesOf(nodes') = P \union {new} /\ Top \notin B /\ new \notin L /\ new \notin B
         /\ L \intersect B = {} /\ B \subseteq P /\ B \subseteq PageIds
    <2>1. Top \notin B /\ L \intersect B = {}
      BY <1>2, EmptyNode DEF LeavesOf, BranchesOf
    <2>2. new \notin L /\ new \notin B
      BY <1>4 DEF NodesOf
    <2>3. ASSUME NEW p \in PageIds
          PROVE  /\ p \in LeavesOf(nodes') <=> p \in L \union {new}
                 /\ p \in BranchesOf(nodes') <=> p \in B
      <3>1. CASE p = Top
        BY <1>2, <1>3, <1>10, <1>11, <2>1, <3>1, EmptyNode DEF LeavesOf, BranchesOf
      <3>2. CASE p = new
        BY <1>4, <1>10, <1>11, <2>2, <3>2, EmptyNode DEF LeavesOf, BranchesOf
      <3>3. CASE p \notin {Top, new}
        BY <1>12, <3>3 DEF LeavesOf, BranchesOf
      <3> QED BY <3>1, <3>2, <3>3
    <2>4. LeavesOf(nodes') \subseteq PageIds /\ BranchesOf(nodes') \subseteq PageIds
          /\ L \subseteq PageIds /\ B \subseteq PageIds
      BY DEF LeavesOf, BranchesOf
    <2>5. LeavesOf(nodes') = L \union {new} /\ BranchesOf(nodes') = B
      BY <1>4, <2>3, <2>4
    <2> QED BY <2>1, <2>2, <2>4, <2>5 DEF NodesOf
  <1>14. Grown(nodes', nodes, Top)
    BY <1>12, <1>13 DEF Grown
  <1>15. /\ Covering(c, h, NodesOf(nodes'))
         /\ RootInv(c, h)' /\ PathInv(c, h)' /\ UnwindInv' /\ CallInv' /\ SplitInv'
         /\ \A p \in B \ {Top} :
              BranchOver(Wholes'[p], p, c, h) /\ Range(Wholes'[p].children) \subseteq NodesOf(nodes')
    BY <1>1, <1>2, <1>6, <1>7, <1>8, <1>11, <1>13, <1>14, SplitCommon
  <1>16. \A p \in L : height[p] = 0 /\ Range(nodes[p].keys) \subseteq cover[p] /\ LeafSound(nodes, p)
    BY <1>3 DEF Levels, NodesInv
  <1>17. Links(nodes', c)
    <2>1. Grounded(nodes, height, P)
      BY <1>4, <1>16 DEF Grounded
    <2>3. /\ nodes'[Top].prev_page_id = new /\ nodes'[Top].next_page_id = nodes[Top].next_page_id
          /\ nodes'[new].prev_page_id = nodes[Top].prev_page_id /\ nodes'[new].next_page_id = Top
      BY <1>10, <1>11
    <2>4. \A p \in L \ {Top} :
            /\ nodes'[p].prev_page_id = nodes[p].prev_page_id
            /\ nodes'[p].next_page_id = IF p = nodes[Top].prev_page_id THEN new ELSE nodes[p].next_page_id
      BY <1>2, <1>4, <1>5, <1>12, <1>13
    <2>5. Relinked(nodes', nodes, Top, new)
      BY <1>13, <2>3, <2>4 DEF Relinked
    <2> QED BY <1>2, <1>3, <1>4, <1>6, <1>8, <2>1, <2>5, LinksDivided
  <1>18. NodesInv(nodes, next_page_id, meta_page_id, root_page_id)'
    <2>1. \A p \in L \union {new} : LeafSound(nodes', p)
      <3> TAKE p \in L \union {new}
      <3>1. \A q \in L : nodes[q].prev_page_id \in L \union {INVALID_PAGE_ID}
                         /\ nodes[q].next_page_id \in L \union {INVALID_PAGE_ID}
                         /\ Sorted(nodes[q].keys) /\ Used(nodes[q].keys, LeafPairs) <= LeafCapacity
        BY <1>16 DEF LeafSound
      <3>2. CASE p = Top
        BY <1>2, <1>6, <1>10, <1>11, <1>13, <3>1, <3>2 DEF LeafSound
      <3>3. CASE p = new
        BY <1>2, <1>6, <1>10, <1>11, <1>13, <3>1, <3>3 DEF LeafSound
      <3>4. CASE p \in L \ {Top, new}
        <4>1. p \in PageIds \ {Top, new}
          BY <1>4, <3>4
        <4>2. /\ nodes'[p].prev_page_id = nodes[p].prev_page_id /\ nodes'[p].keys = nodes[p].keys
              /\ nodes'[p].next_page_id = nodes[p].next_page_id \/ nodes'[p].next_page_id = new
          BY <1>12, <3>4, <4>1
        <4> QED BY <1>13, <3>1, <3>4, <4>2 DEF LeafSound
      <3> QED BY <3>2, <3>3, <3>4
    <2>2. \A p \in B : BranchSound(nodes', p)
      <3> TAKE p \in B
      <3>1. BranchSound(nodes, p)
        BY <1>3 DEF NodesInv
      <3>2. nodes'[p] = nodes[p]
        BY <1>12, <1>13
      <3> QED BY <1>13, <3>1, <3>2 DEF BranchSound
    <2>3. \A p \in P : p < new /\ p \in Nat
      BY <1>3, <1>4, PageIdsAreNats DEF NodesInv
    <2>4. \A p \in P \union {new} : p < new'
      BY <1>4, <2>3
    <2>5. new' \in 0 .. MaxPages
      BY <1>4, PageIdsAreNats
    <2>6. /\ meta_page_id' = meta_page_id /\ root_page_id' = root_page_id
          /\ meta_page_id \in PageIds \ (P \union {new}) /\ meta_page_id < new'
          /\ root_page_id \in P
      <3>1. meta_page_id \in PageIds /\ meta_page_id < new /\ meta_page_id \notin P
            /\ meta_page_id \in Nat /\ root_page_id \in P
        BY <1>3, PageIdsAreNats DEF NodesInv
      <3> QED BY <1>2, <1>4, <3>1
    <2> QED BY <1>11, <1>13, <2>1, <2>2, <2>4, <2>5, <2>6 DEF NodesInv
  <1>19. Levels(nodes, Wholes, c, h)'
    <2>1. \A p \in L \union {new} : h[p] = 0 /\ Range(nodes'[p].keys) \subseteq c[p]
      <3> TAKE p \in L \union {new}
      <3>0. /\ h[new] = height[Top] /\ \A q \in PageIds \ {new} : h[q] = height[q]
            /\ c[Top] = {k \in cover[Top] : sep <= k} /\ c[new] = {k \in cover[Top] : k < sep}
            /\ \A q \in PageIds \ {Top, new} : c[q] = cover[q]
        BY <1>8 DEF Divided
      <3>1. CASE p = Top
        BY <1>2, <1>4, <1>6, <1>10, <1>11, <1>16, <3>0, <3>1
      <3>2. CASE p = new
        BY <1>2, <1>6, <1>10, <1>11, <1>16, <3>0, <3>2
      <3>3. CASE p \in L \ {Top, new}
        BY <1>4, <1>12, <1>16, <3>0, <3>3
      <3> QED BY <3>1, <3>2, <3>3
    <2>2. \A p \in B : BranchOver(Wholes'[p], p, c, h) /\ Range(Wholes'[p].children) \subseteq NodesOf(nodes')
      BY <1>13, <1>15
    <2> QED BY <1>13, <1>15, <2>1, <2>2 DEF Levels
  <1>20. EmptyInv'
    <2>1. ASSUME NEW p \in L \union {new}, nodes'[p].keys = <<>> PROVE FALSE
      <3>1. p \in L \ {Top, new} /\ p \in PageIds \ {Top, new}
        BY <1>4, <1>6, <1>10, <1>11, <2>1
      <3>2. nodes[p].keys = <<>>
        BY <1>12, <2>1, <3>1
      <3>3. p = root_page_id
        BY <3>1, <3>2 DEF Inv, EmptyInv
      <3>4. cover[p] = Nat
        BY <1>2, <1>3, <3>3 DEF RootInv, SplitRoot
      <3>5. Ahead(cover[p], cover[Top]) \/ Ahead(cover[Top], cover[p])
        BY <1>2, <1>4, <1>16, <3>1 DEF Covering
      <3>6. key \in cover[Top] /\ key \in cover[p] /\ key \in Nat
        BY <1>2, <1>3, <3>4, KeysAreNats
      <3> QED BY <3>5, <3>6 DEF Ahead
    <2> QED BY <1>13, <2>1 DEF EmptyInv
  <1>21. Inv(c, h)'
    BY <1>15, <1>17, <1>18, <1>19, <1>20 DEF Inv
  <1>22. LeafWasSplit
    <2>1. \A p \in L \ {Top} : nodes'[p].keys = nodes[p].keys
      BY <1>4, <1>12, <1>13
    <2>2. nodes'[new].keys = lower /\ nodes'[Top].keys = upper
      BY <1>10, <1>11
    <2> QED BY <1>1, <1>13, <2>1, <2>2 DEF LeafWasSplit
  <1> QED BY <1>21, <1>22

LEMMA CutsInRange ==
  ASSUME NEW K, NEW s \in Seq(K), NEW z \in Nat, z <= Len(s)
  PROVE  /\ Lower(s, z) \in Seq(K) /\ Upper(s, z) \in Seq(K)
         /\ Range(Lower(s, z)) \subseteq Range(s) /\ Range(Upper(s, z)) \subseteq Range(s)
  <1> DEFINE m == Len(s)
             lo == SubSeq(s, 1, z)
             up == SubSeq(s, z + 1, Len(s))
  <1>1. z \in 0 .. Len(s) /\ m \in Nat
    OBVIOUS
  <1>2. /\ lo \in Seq(K) /\ Len(lo) = z /\ up \in Seq(K) /\ Len(up) = m - z
        /\ \A j \in 1 .. z : lo[j] = s[j]
        /\ \A j \in 1 .. m - z : up[j] = s[z + j]
    BY <1>1, FrontInSeq
  <1>3. \A i \in 1 .. m : s[i] \in Range(s)
    BY DEF Range
  <1>4. DOMAIN lo = 1 .. z /\ DOMAIN up = 1 .. m - z
    BY <1>2
  <1> HIDE DEF lo, up, m
  <1>5. /\ \A j \in 1 .. z : j \in 1 .. m
        /\ \A j \in 1 .. m - z : z + j \in 1 .. m
    BY <1>1 DEF m
  <1>6. \A j \in 1 .. z : lo[j] \in Range(s)
    BY <1>2, <1>3, <1>5
  <1>7. \A j \in 1 .. m - z : up[j] \in Range(s)
    BY <1>2, <1>3, <1>5
  <1>8. Range(lo) \subseteq Range(s) /\ Range(up) \subseteq Range(s)
    BY <1>4, <1>6, <1>7 DEF Range
  <1> QED BY <1>2, <1>8 DEF lo, up, Lower, Upper

FitsBranch(keys) == keys \in Seq(ShortKeys) /\ Used(keys, BranchPairs) <= BranchCapacity

\* Where a branch that gets the key k is cut.
LEMMA BranchCut ==
  ASSUME NEW keys, FitsBranch(keys), Sorted(keys), NEW k \in ShortKeys, ~Holds(keys, k),
         ~HasRoom(keys, k, BranchPairs, BranchCapacity)
  PROVE  \E z \in Nat : /\ z = SplitPoint(keys, k, BranchPairs, BranchCapacity)
                        /\ z >= 2 /\ z < Len(InsertKey(keys, k))
                        /\ FitsBranch(Lower(InsertKey(keys, k), z - 1))
                        /\ FitsBranch(Upper(InsertKey(keys, k), z))
  <1> DEFINE all == InsertKey(keys, k)
             point == SplitPoint(keys, k, BranchPairs, BranchCapacity)
  <1>1. /\ ShortPairs(BranchPairs, ShortKeys, BranchCapacity) /\ BranchCapacity \in Nat
        /\ ShortKeys \subseteq Int /\ Sized(BranchPairs, ShortKeys)
    BY PairsAreShort, ShortPairsSized, KeysAreNats
  <1>2. keys \in Seq(ShortKeys) /\ Used(keys, BranchPairs) <= BranchCapacity
    BY DEF FitsBranch
  <1>3. /\ all \in Seq(ShortKeys) /\ Sorted(all) /\ Len(all) = Len(keys) + 1
        /\ point \in 2 .. Len(keys)
        /\ Used(Lower(all, point), BranchPairs) <= BranchCapacity
        /\ Used(Upper(all, point), BranchPairs) <= BranchCapacity
    BY <1>1, <1>2, SplitPointCuts
  <1>4. Len(keys) \in Nat
    BY <1>2
  <1> HIDE DEF all, point
  <1>5. PICK z \in Nat : z = point /\ z >= 2 /\ z < Len(all)
    BY <1>3, <1>4
  <1>6. PICK y \in Nat : y = z - 1 /\ y \in 0 .. Len(all) /\ z \in 0 .. Len(all) /\ y <= z
                         /\ y <= Len(all) /\ z <= Len(all)
    BY <1>3, <1>4, <1>5
  <1>7. Used(Lower(all, y), BranchPairs) <= Used(Lower(all, z), BranchPairs)
    BY <1>1, <1>3, <1>6, FrontsGrow DEF Lower
  <1>8. Lower(all, y) \in Seq(ShortKeys) /\ Upper(all, z) \in Seq(ShortKeys) /\ Lower(all, z) \in Seq(ShortKeys)
    BY <1>3, <1>6, CutsInRange
  <1>9. Used(Lower(all, y), BranchPairs) \in Nat /\ Used(Lower(all, z), BranchPairs) \in Nat
    BY <1>1, <1>8, UsedType
  <1>10. Used(Lower(all, y), BranchPairs) <= BranchCapacity
    <2> DEFINE a == Used(Lower(all, y), BranchPairs)
               b == Used(Lower(all, z), BranchPairs)
    <2>1. a \in Nat /\ b \in Nat /\ a <= b /\ b <= BranchCapacity /\ BranchCapacity \in Nat
      BY <1>1, <1>3, <1>5, <1>7, <1>9
    <2> HIDE DEF a, b
    <2>2. a <= BranchCapacity
      BY <2>1
    <2> QED BY <2>2 DEF a
  <1>11. FitsBranch(Lower(all, z - 1)) /\ FitsBranch(Upper(all, z))
    BY <1>3, <1>5, <1>6, <1>8, <1>10 DEF FitsBranch
  <1> QED BY <1>5, <1>11 DEF all, point

\* The nodes after a branch was split.
LEMMA BranchDivided ==
  ASSUME NEW cover, NEW height, Inv(cover, height), SplitBranch
  PROVE  \E whole, z :
           /\ whole = Wholes[Top] /\ z \in Nat /\ z >= 2 /\ z < Len(whole.keys)
           /\ FitsBranch(Lower(whole.keys, z - 1)) /\ FitsBranch(Upper(whole.keys, z))
           /\ nodes' = [nodes EXCEPT
                 ![Top] = Branch(Upper(whole.keys, z), Upper(whole.children, z)),
                 ![next_page_id] = Branch(Lower(whole.keys, z - 1), Lower(whole.children, z))]
           /\ SendUp(whole.keys[z])
  <1> DEFINE n == Node
             k == overflow.key
             q == overflow.page_id
             whole == Wholes[Top]
             split == BranchSplit(n, k, q, BranchPairs)
  <1>1. /\ pc = "unwind" /\ Top # meta_page_id /\ SeparatorFits /\ ~BranchHasRoom
        /\ nodes' = [nodes EXCEPT ![Top] = split.old, ![next_page_id] = split.new]
        /\ SendUp(split.overflow_key)
    BY DEF SplitBranch, AtParent
  <1>2. /\ BranchSound(nodes, Top) /\ n = nodes[Top]
        /\ whole.keys = InsertKey(n.keys, k)
        /\ whole = BranchInsert(n, SlotOf(n.keys, k), k, q)
        /\ k \in ShortKeys /\ ~Holds(n.keys, k)
    BY <1>1, OnTheWayUp DEF Node, SeparatorFits, ShortKeys
  <1>3. FitsBranch(n.keys) /\ Sorted(n.keys) /\ ~HasRoom(n.keys, k, BranchPairs, BranchCapacity)
    BY <1>1, <1>2 DEF BranchSound, FitsBranch, BranchHasRoom
  <1>4. PICK z \in Nat : /\ z = SplitPoint(n.keys, k, BranchPairs, BranchCapacity)
                         /\ z >= 2 /\ z < Len(InsertKey(n.keys, k))
                         /\ FitsBranch(Lower(InsertKey(n.keys, k), z - 1))
                         /\ FitsBranch(Upper(InsertKey(n.keys, k), z))
    <2> DEFINE keys == n.keys
    <2>1. FitsBranch(keys) /\ Sorted(keys) /\ ~HasRoom(keys, k, BranchPairs, BranchCapacity) /\ ~Holds(keys, k)
      BY <1>2, <1>3
    <2> HIDE DEF keys
    <2>2. \E z \in Nat : /\ z = SplitPoint(keys, k, BranchPairs, BranchCapacity)
                         /\ z >= 2 /\ z < Len(InsertKey(keys, k))
                         /\ FitsBranch(Lower(InsertKey(keys, k), z - 1))
                         /\ FitsBranch(Upper(InsertKey(keys, k), z))
      BY <1>2, <2>1, BranchCut
    <2> QED BY <2>2 DEF keys
  <1>5. /\ split.old = Branch(Upper(whole.keys, z), Upper(whole.children, z))
        /\ split.new = Branch(Lower(whole.keys, z - 1), Lower(whole.children, z))
        /\ split.overflow_key = whole.keys[z]
    <2> HIDE DEF whole
    <2> QED BY <1>2, <1>4 DEF BranchSplit
  <1> HIDE DEF split
  <1>6. nodes' = [nodes EXCEPT
                    ![Top] = Branch(Upper(whole.keys, z), Upper(whole.children, z)),
                    ![next_page_id] = Branch(Lower(whole.keys, z - 1), Lower(whole.children, z))]
        /\ SendUp(whole.keys[z])
    BY <1>1, <1>5
  <1>7. z >= 2 /\ z < Len(whole.keys)
        /\ FitsBranch(Lower(whole.keys, z - 1)) /\ FitsBranch(Upper(whole.keys, z))
    BY <1>2, <1>4
  <1> HIDE DEF whole
  <1> QED BY <1>6, <1>7 DEF whole

LEMMA SplitBranchKeeps ==
  ASSUME NEW cover, NEW height, Inv(cover, height), SplitBranch
  PROVE  \E c, h : Inv(c, h)'
  <1> DEFINE P == NodesOf(nodes)
             L == LeavesOf(nodes)
             B == BranchesOf(nodes)
             new == next_page_id
  <1>1. PICK whole, z :
           /\ whole = Wholes[Top] /\ z \in Nat /\ z >= 2 /\ z < Len(whole.keys)
           /\ FitsBranch(Lower(whole.keys, z - 1)) /\ FitsBranch(Upper(whole.keys, z))
           /\ nodes' = [nodes EXCEPT
                 ![Top] = Branch(Upper(whole.keys, z), Upper(whole.children, z)),
                 ![new] = Branch(Lower(whole.keys, z - 1), Lower(whole.children, z))]
           /\ SendUp(whole.keys[z])
    BY BranchDivided
  <1> DEFINE sep == whole.keys[z]
             low == whole.keys[1]
             upper == Branch(Upper(whole.keys, z), Upper(whole.children, z))
             lower == Branch(Lower(whole.keys, z - 1), Lower(whole.children, z))
  <1>2. /\ pc = "unwind" /\ Top # meta_page_id /\ CreatePage
        /\ UNCHANGED <<meta_page_id, root_page_id, key, pair, iter, result, value, foreign>>
    BY DEF SplitBranch, AtParent
  <1>3. /\ NodesInv(nodes, next_page_id, meta_page_id, root_page_id) /\ Links(nodes, cover)
        /\ Levels(nodes, Wholes, cover, height) /\ RootInv(cover, height) /\ EmptyInv
        /\ PathOver(path, key, nodes, meta_page_id, root_page_id, cover, height)
        /\ UnwindInv
    BY <1>2 DEF Inv, PathInv
  <1>4. /\ Top \in B /\ Top \in PageIds /\ BranchOver(whole, Top, cover, height)
        /\ Range(whole.children) \subseteq P
    BY <1>1, <1>2, OnTheWayUp
  <1>5. /\ new \in PageIds \ P /\ P \subseteq PageIds /\ L \subseteq P /\ B \subseteq P /\ new # Top
        /\ Covering(cover, height, P) /\ new < MaxPages /\ new \in Nat /\ new' = new + 1
        /\ L \intersect B = {} /\ new \notin L /\ new \notin B /\ Top \in P /\ P = L \union B
    <2>1. new \in Nat /\ new < MaxPages /\ MaxPages \in Nat
      BY <1>2, <1>3, PageIdsAreNats DEF CreatePage, NodesInv
    <2>2. new \in PageIds /\ new \notin P /\ new' = new + 1
      BY <1>2, <1>3, <2>1 DEF PageIds, NodesInv, CreatePage
    <2> QED BY <1>3, <1>4, <2>1, <2>2, Kinds DEF Levels, NodesInv, NodesOf
  <1>6. Len(path) >= 2 /\ Len(path) \in Nat
    <2>1. Len(path) \in Nat /\ Len(path) >= 1 /\ Top = path[Len(path)] /\ (Len(path) >= 1 => path[1] = meta_page_id)
      BY <1>2, <1>3, TopIsLast DEF PathOver, UnwindInv
    <2> DEFINE m == Len(path)
    <2>2. m # 1
      BY <1>2, <2>1
    <2>3. m \in Nat /\ m >= 1
      BY <2>1
    <2> HIDE DEF m
    <2>4. m >= 2
      BY <2>2, <2>3
    <2> QED BY <2>1, <2>4 DEF m
  <1>7. PICK c, h : Divided(c, h, cover, height, Top, new, sep)
    BY <1>4, <1>5, CanDivide
  <1>8. /\ BranchOver(upper, Top, c, h) /\ BranchOver(lower, new, c, h)
        /\ sep \in Keys /\ low \in cover[Top] /\ sep \in cover[Top] /\ low < sep
    <2>1. z \in Nat /\ z >= 2 /\ z < Len(whole.keys)
      BY <1>1
    <2> HIDE DEF new, P
    <2> QED BY <1>4, <1>5, <1>7, <2>1, CutBranch
  <1>9. /\ upper.keys = Upper(whole.keys, z) /\ upper.children = Upper(whole.children, z)
        /\ lower.keys = Lower(whole.keys, z - 1) /\ lower.children = Lower(whole.children, z)
    BY DEF Branch
  <1>10. Range(upper.children) \subseteq P /\ Range(lower.children) \subseteq P
    <2> DEFINE bs == whole.children
    <2>1. bs \in Seq(PageIds) /\ z \in Nat /\ z <= Len(bs) /\ Range(bs) \subseteq P
      <3>1. whole \in BranchNodes /\ Len(whole.children) = Len(whole.keys) + 1
        BY <1>4 DEF BranchOver
      <3>2. bs \in Seq(PageIds) /\ Len(whole.keys) \in Nat
        BY <3>1 DEF BranchNodes
      <3> DEFINE m == Len(whole.keys)
      <3>3. m \in Nat /\ z \in Nat /\ z < m /\ Len(bs) = m + 1
        BY <1>1, <3>1, <3>2
      <3> HIDE DEF m, bs
      <3>4. z <= Len(bs)
        BY <3>3
      <3> QED BY <1>1, <1>4, <3>2, <3>4 DEF bs
    <2> HIDE DEF bs
    <2>2. Range(Lower(bs, z)) \subseteq Range(bs) /\ Range(Upper(bs, z)) \subseteq Range(bs)
      BY <2>1, CutsInRange
    <2> QED BY <1>9, <2>1, <2>2 DEF bs
  <1>11. upper \in BranchNodes /\ lower \in BranchNodes
    BY <1>8 DEF BranchOver
  <1>12. /\ nodes'[Top] = upper /\ nodes'[new] = lower
         /\ \A p \in PageIds \ {Top, new} : nodes'[p] = nodes[p]
         /\ nodes' \in [PageIds -> {NoNode} \union LeafNodes \union BranchNodes]
    <2>1. nodes \in [PageIds -> {NoNode} \union LeafNodes \union BranchNodes]
      BY <1>3 DEF NodesInv
    <2>2. nodes' = [nodes EXCEPT ![Top] = upper, ![new] = lower]
      BY <1>1
    <2> HIDE DEF upper, lower
    <2> QED BY <1>4, <1>5, <1>11, <2>1, <2>2
  <1> HIDE DEF upper, lower, sep, low
  <1>13. /\ LeavesOf(nodes') = L /\ BranchesOf(nodes') = B \union {new}
         /\ NodesOf(nodes') = P \union {new} /\ Top \notin L
    <2>1. Top \notin L
      BY <1>4, <1>5
    <2>2. ASSUME NEW p \in PageIds
          PROVE  /\ p \in LeavesOf(nodes') <=> p \in L
                 /\ p \in BranchesOf(nodes') <=> p \in B \union {new}
      <3>1. CASE p = Top
        BY <1>4, <1>11, <1>12, <2>1, <3>1, EmptyNode DEF LeavesOf, BranchesOf
      <3>2. CASE p = new
        BY <1>5, <1>11, <1>12, <3>2, EmptyNode DEF LeavesOf, BranchesOf
      <3>3. CASE p \notin {Top, new}
        BY <1>12, <3>3 DEF LeavesOf, BranchesOf
      <3> QED BY <3>1, <3>2, <3>3
    <2>3. LeavesOf(nodes') \subseteq PageIds /\ BranchesOf(nodes') \subseteq PageIds
          /\ L \subseteq PageIds /\ B \subseteq PageIds
      BY DEF LeavesOf, BranchesOf
    <2>4. LeavesOf(nodes') = L /\ BranchesOf(nodes') = B \union {new}
      BY <1>5, <2>2, <2>3
    <2> QED BY <2>1, <2>4 DEF NodesOf
  <1>14. Grown(nodes', nodes, Top)
    <2>1. \A p \in B \ {Top} : nodes'[p] = nodes[p]
      BY <1>5, <1>12
    <2> QED BY <1>13, <2>1 DEF Grown
  <1>15. /\ Covering(c, h, NodesOf(nodes'))
         /\ RootInv(c, h)' /\ PathInv(c, h)' /\ UnwindInv' /\ CallInv' /\ SplitInv'
         /\ \A p \in B \ {Top} :
              BranchOver(Wholes'[p], p, c, h) /\ Range(Wholes'[p].children) \subseteq NodesOf(nodes')
         /\ Wholes'[Top] = nodes'[Top] /\ Wholes'[new] = nodes'[new]
    <2>1. SendUp(sep)
      BY <1>1 DEF sep
    <2> QED BY <2>1, <1>2, <1>6, <1>7, <1>8, <1>12, <1>13, <1>14, SplitCommon
  <1>16. \A p \in L : h[p] = height[p] /\ c[p] = cover[p] /\ nodes'[p] = nodes[p]
    BY <1>5, <1>7, <1>12, <1>13 DEF Divided
  <1>17. Links(nodes', c)
    <2>1. \A p \in L : nodes[p].next_page_id \in L \union {INVALID_PAGE_ID}
      BY <1>3 DEF NodesInv, LeafSound
    <2>2. ASSUME NEW p \in L, NEW q \in L
          PROVE  /\ nodes'[p].next_page_id = q <=> nodes'[q].prev_page_id = p
                 /\ nodes'[p].next_page_id = q => Ahead(c[p], c[q])
                 /\ p # q /\ Ahead(c[p], c[q]) =>
                       /\ nodes'[p].next_page_id # INVALID_PAGE_ID
                       /\ nodes'[p].next_page_id = q \/ Ahead(c[nodes'[p].next_page_id], c[q])
      <3>1. nodes'[p] = nodes[p] /\ nodes'[q] = nodes[q] /\ c[p] = cover[p] /\ c[q] = cover[q]
        BY <1>16
      <3>2. nodes[p].next_page_id # INVALID_PAGE_ID =>
              c[nodes[p].next_page_id] = cover[nodes[p].next_page_id]
        BY <1>16, <2>1
      <3>3. /\ nodes[p].next_page_id = q <=> nodes[q].prev_page_id = p
            /\ nodes[p].next_page_id = q => Ahead(cover[p], cover[q])
            /\ p # q /\ Ahead(cover[p], cover[q]) =>
                  /\ nodes[p].next_page_id # INVALID_PAGE_ID
                  /\ nodes[p].next_page_id = q \/ Ahead(cover[nodes[p].next_page_id], cover[q])
        BY <1>3 DEF Links
      <3> QED BY <3>1, <3>2, <3>3
    <2> QED BY <1>13, <2>2 DEF Links
  <1>18. NodesInv(nodes, next_page_id, meta_page_id, root_page_id)'
    <2>1. \A p \in L : LeafSound(nodes', p)
      BY <1>3, <1>13, <1>16 DEF NodesInv, LeafSound
    <2>2. \A p \in B \union {new} : BranchSound(nodes', p)
      <3> TAKE p \in B \union {new}
      <3>1. CASE p = Top
        <4>1. /\ Sorted(upper.keys) /\ upper.keys # <<>>
              /\ Len(upper.children) = Len(upper.keys) + 1
          BY <1>8 DEF BranchOver
        <4>2. upper.keys \in Seq(ShortKeys) /\ Used(upper.keys, BranchPairs) <= BranchCapacity
          BY <1>1, <1>9 DEF FitsBranch
        <4> QED BY <1>10, <1>12, <1>13, <3>1, <4>1, <4>2 DEF BranchSound
      <3>2. CASE p = new
        <4>1. /\ Sorted(lower.keys) /\ lower.keys # <<>>
              /\ Len(lower.children) = Len(lower.keys) + 1
          BY <1>8 DEF BranchOver
        <4>2. lower.keys \in Seq(ShortKeys) /\ Used(lower.keys, BranchPairs) <= BranchCapacity
          BY <1>1, <1>9 DEF FitsBranch
        <4> QED BY <1>10, <1>12, <1>13, <3>2, <4>1, <4>2 DEF BranchSound
      <3>3. CASE p \in B \ {Top, new}
        <4>1. BranchSound(nodes, p)
          BY <1>3, <3>3 DEF NodesInv
        <4>2. nodes'[p] = nodes[p]
          BY <1>5, <1>12, <3>3
        <4> QED BY <1>13, <4>1, <4>2 DEF BranchSound
      <3> QED BY <3>1, <3>2, <3>3
    <2>3. \A p \in P : p < new /\ p \in Nat
      BY <1>3, <1>5, PageIdsAreNats DEF NodesInv
    <2>4. \A p \in P \union {new} : p < new'
      BY <1>5, <2>3
    <2>5. new' \in 0 .. MaxPages
      BY <1>5, PageIdsAreNats
    <2>6. /\ meta_page_id' = meta_page_id /\ root_page_id' = root_page_id
          /\ meta_page_id \in PageIds \ (P \union {new}) /\ meta_page_id < new'
          /\ root_page_id \in P
      <3>1. meta_page_id \in PageIds /\ meta_page_id < new /\ meta_page_id \notin P
            /\ meta_page_id \in Nat /\ root_page_id \in P
        BY <1>3, PageIdsAreNats DEF NodesInv
      <3> QED BY <1>2, <1>5, <3>1
    <2> QED BY <1>12, <1>13, <2>1, <2>2, <2>4, <2>5, <2>6 DEF NodesInv
  <1>19. Levels(nodes, Wholes, c, h)'
    <2>1. \A p \in L : h[p] = 0 /\ Range(nodes'[p].keys) \subseteq c[p]
      BY <1>3, <1>16 DEF Levels
    <2>2. \A p \in B \union {new} :
             BranchOver(Wholes'[p], p, c, h) /\ Range(Wholes'[p].children) \subseteq NodesOf(nodes')
      <3> TAKE p \in B \union {new}
      <3>1. CASE p \in {Top, new}
        BY <1>8, <1>10, <1>12, <1>13, <1>15, <3>1
      <3>2. CASE p \in B \ {Top}
        BY <1>15, <3>2
      <3> QED BY <3>1, <3>2
    <2> QED BY <1>13, <1>15, <2>1, <2>2 DEF Levels
  <1>20. EmptyInv'
    <2>1. \A p \in L : nodes[p].keys # <<>>
      BY <1>2, <1>3 DEF EmptyInv
    <2> QED BY <1>13, <1>16, <2>1 DEF EmptyInv
  <1>21. Inv(c, h)'
    BY <1>15, <1>17, <1>18, <1>19, <1>20 DEF Inv
  <1> QED BY <1>21

\* Pages a and b share all numbers, k being the first that is b's, and new is
\* one level above them.
Halved(c, h, a, b, k, new) ==
    /\ c[new] = Nat /\ c[a] = {x \in Nat : x < k} /\ c[b] = {x \in Nat : k <= x}
    /\ h[a] + 1 = h[new] /\ h[b] + 1 = h[new]

\* The branch that becomes the root.
LEMMA RootBranch ==
  ASSUME NEW k \in ShortKeys, NEW a \in PageIds, NEW b \in PageIds, NEW new, NEW c, NEW h,
         Halved(c, h, a, b, k, new)
  PROVE  /\ BranchOver(Branch(<<k>>, <<a, b>>), new, c, h)
         /\ Branch(<<k>>, <<a, b>>).keys \in Seq(ShortKeys)
         /\ Range(Branch(<<k>>, <<a, b>>).children) = {a, b}
         /\ Used(Branch(<<k>>, <<a, b>>).keys, BranchPairs) <= BranchCapacity
  <1> DEFINE n == Branch(<<k>>, <<a, b>>)
             ks == <<k>>
             bs == <<a, b>>
  <1>1. /\ k \in Keys /\ k \in Nat /\ k \in Int
    BY KeysAreNats DEF ShortKeys
  <1>2. /\ ks \in Seq(Keys) /\ ks \in Seq(ShortKeys) /\ Len(ks) = 1 /\ ks[1] = k /\ ks # <<>>
        /\ DOMAIN ks = 1 .. 1
    BY <1>1
  <1>3. bs \in Seq(PageIds) /\ Len(bs) = 2 /\ bs[1] = a /\ bs[2] = b /\ DOMAIN bs = 1 .. 2
    OBVIOUS
  <1>4. n.keys = ks /\ n.children = bs
    BY DEF Branch
  <1> HIDE DEF ks, bs
  <1>5. n \in BranchNodes
    BY <1>2, <1>3 DEF Branch, BranchNodes, ks, bs
  <1> HIDE DEF n
  <1>6. Sorted(ks) /\ Range(ks) \subseteq c[new]
    BY <1>1, <1>2 DEF Sorted, Range, Halved
  <1>7. Range(bs) = {a, b}
    BY <1>3 DEF Range
  <1>8. c[bs[1]] = Segment(ks, 1, c[new]) /\ c[bs[2]] = Segment(ks, 2, c[new])
    BY <1>1, <1>2, <1>3 DEF Segment, Between, Halved
  <1>9. \A i \in 1 .. Len(ks) + 1 : c[bs[i]] = Segment(ks, i, c[new]) /\ h[bs[i]] + 1 = h[new]
    <2> TAKE i \in 1 .. Len(ks) + 1
    <2>1. i = 1 \/ i = 2
      BY <1>2
    <2> QED BY <1>3, <1>8, <2>1 DEF Halved
  <1>10. BranchOver(n, new, c, h)
    <2>1. Len(bs) = Len(ks) + 1
      BY <1>2, <1>3
    <2> QED BY <1>2, <1>4, <1>5, <1>6, <1>9, <2>1 DEF BranchOver
  <1>11. Used(ks, BranchPairs) <= BranchCapacity
    <2>1. Sized(BranchPairs, ShortKeys)
      BY PairsAreShort, ShortPairsSized
    <2>2. Used(ks, BranchPairs) = PointerSize + BranchPairs[k]
      BY <2>1, UsedSingle DEF ks
    <2>3. BranchPairs[k] \in Nat /\ 2 * (PointerSize + BranchPairs[k]) <= BranchCapacity
      BY PairsAreShort DEF ShortPairs
    <2>4. PointerSize \in Nat /\ BranchCapacity \in Nat
      BY PairsAreShort DEF PointerSize
    <2> DEFINE s == PointerSize + BranchPairs[k]
    <2>5. s \in Nat /\ 2 * s <= BranchCapacity /\ Used(ks, BranchPairs) = s
      BY <2>2, <2>3, <2>4
    <2> HIDE DEF s
    <2>6. s <= BranchCapacity
      BY <2>4, <2>5
    <2> QED BY <2>5, <2>6
  <1> QED BY <1>2, <1>4, <1>7, <1>10, <1>11 DEF n

\* The page new covers everything and is above level top.
RaisedOver(c, h, cover, height, new, top) ==
    /\ c[new] = Nat /\ h[new] = top + 1
    /\ \A p \in PageIds \ {new} : c[p] = cover[p] /\ h[p] = height[p]

LEMMA CanRaise ==
  ASSUME NEW cover, NEW height, NEW P, Covering(cover, height, P), NEW new \in PageIds \ P,
         NEW top \in Nat, \A p \in P : height[p] <= top
  PROVE  \E c, h : Covering(c, h, P \union {new}) /\ RaisedOver(c, h, cover, height, new, top)
  <1> DEFINE c == [cover EXCEPT ![new] = Nat]
             h == [height EXCEPT ![new] = top + 1]
  <1>1. /\ cover \in [PageIds -> SUBSET Nat] /\ height \in [PageIds -> Nat] /\ P \subseteq PageIds
        /\ \A p \in P : cover[p] # {}
        /\ \A p, q \in P :
             p # q /\ height[p] = height[q]
               => Ahead(cover[p], cover[q]) \/ Ahead(cover[q], cover[p])
    BY DEF Covering
  <1>2. /\ c \in [PageIds -> SUBSET Nat] /\ h \in [PageIds -> Nat]
        /\ c[new] = Nat /\ h[new] = top + 1
        /\ \A p \in PageIds \ {new} : c[p] = cover[p] /\ h[p] = height[p]
    BY <1>1
  <1> HIDE DEF c, h
  <1>3. \A p \in P : c[p] = cover[p] /\ h[p] = height[p] /\ h[p] # top + 1 /\ p # new
    <2> TAKE p \in P
    <2>1. c[p] = cover[p] /\ h[p] = height[p] /\ p # new
      BY <1>1, <1>2
    <2>2. height[p] \in Nat /\ height[p] <= top
      BY <1>1
    <2> QED BY <2>1, <2>2
  <1>4. Covering(c, h, P \union {new})
    <2>1. \A p \in P \union {new} : c[p] # {}
      BY <1>1, <1>2, <1>3
    <2>2. ASSUME NEW p \in P \union {new}, NEW q \in P \union {new}, p # q, h[p] = h[q]
          PROVE  Ahead(c[p], c[q]) \/ Ahead(c[q], c[p])
      <3>1. p \in P /\ q \in P
        BY <1>2, <1>3, <2>2
      <3> QED BY <1>1, <1>3, <2>2, <3>1
    <2> QED BY <1>1, <1>2, <2>1, <2>2 DEF Covering
  <1>5. RaisedOver(c, h, cover, height, new, top)
    BY <1>2 DEF RaisedOver
  <1> QED BY <1>4, <1>5

LEMMA GrowRootKeeps ==
  ASSUME NEW cover, NEW height, Inv(cover, height), GrowRoot
  PROVE  \E c, h : Inv(c, h)'
  <1> DEFINE P == NodesOf(nodes)
             L == LeavesOf(nodes)
             B == BranchesOf(nodes)
             new == next_page_id
             root == root_page_id
             k == overflow.key
             a == overflow.page_id
             n == Branch(<<k>>, <<a, root>>)
  <1>1. /\ pc = "unwind" /\ Top = meta_page_id /\ k \in ShortKeys /\ CreatePage
        /\ nodes' = [nodes EXCEPT ![new] = n] /\ root_page_id' = new /\ meta_page_id' = meta_page_id
        /\ pc' = "idle" /\ path' = <<>> /\ prev' = INVALID_PAGE_ID /\ pair' = NoKey
        /\ iter' = iter /\ value' = value /\ foreign' = foreign
    BY DEF GrowRoot, Return, SeparatorFits, ShortKeys, Inv, UnwindInv
  <1>2. /\ NodesInv(nodes, next_page_id, meta_page_id, root_page_id) /\ Links(nodes, cover)
        /\ RootInv(cover, height) /\ EmptyInv /\ CallInv
        /\ Levels(nodes, Wholes, cover, height) /\ a \in P
    BY <1>1 DEF Inv, UnwindInv
  <1>3. /\ new \in PageIds \ P /\ P \subseteq PageIds /\ L \subseteq P /\ B \subseteq P
        /\ Covering(cover, height, P) /\ new < MaxPages /\ new \in Nat /\ new' = new + 1
        /\ new \notin L /\ new \notin B /\ root \in P /\ meta_page_id \notin P
        /\ meta_page_id \in PageIds /\ P = L \union B
    <2>1. new \in Nat /\ new < MaxPages /\ MaxPages \in Nat
      BY <1>1, <1>2, PageIdsAreNats DEF CreatePage, NodesInv
    <2>2. new \in PageIds /\ new \notin P /\ new' = new + 1
      BY <1>1, <1>2, <2>1 DEF PageIds, NodesInv, CreatePage
    <2> QED BY <1>2, <2>1, <2>2, Kinds DEF Levels, NodesInv, NodesOf
  <1>4. Wholes = nodes /\ Wholes' = nodes'
    BY <1>1, <1>3 DEF Wholes
  <1>5. /\ \A p \in P : height[p] <= height[root]
        /\ cover[root] = {x \in Nat : k <= x} /\ cover[a] = {x \in Nat : x < k}
        /\ height[a] = height[root] /\ a # root /\ height[root] \in Nat
    BY <1>1, <1>2, <1>3 DEF RootInv, SplitRoot, Covering
  <1>6. PICK c, h : /\ Covering(c, h, P \union {new}) /\ c[new] = Nat /\ h[new] = height[root] + 1
                    /\ \A p \in PageIds \ {new} : c[p] = cover[p] /\ h[p] = height[p]
    <2> DEFINE top == height[root]
    <2>1. top \in Nat /\ \A p \in P : height[p] <= top
      BY <1>5
    <2> HIDE DEF top
    <2>2. \E c, h : Covering(c, h, P \union {new}) /\ RaisedOver(c, h, cover, height, new, top)
      BY <1>3, <2>1, CanRaise
    <2> QED BY <2>2 DEF top, RaisedOver
  <1>7. \A p \in P : p # new /\ p \in PageIds /\ c[p] = cover[p] /\ h[p] = height[p]
    BY <1>3, <1>6
  <1>8. /\ BranchOver(n, new, c, h) /\ n.keys \in Seq(ShortKeys) /\ Range(n.children) = {a, root}
        /\ Used(n.keys, BranchPairs) <= BranchCapacity
    <2>1. Halved(c, h, a, root, k, new)
      BY <1>2, <1>3, <1>5, <1>6, <1>7 DEF Halved
    <2>2. a \in PageIds /\ root \in PageIds
      BY <1>2, <1>3
    <2>3. k \in ShortKeys
      BY <1>1
    <2> HIDE DEF k, a, root, new
    <2> QED BY <2>1, <2>2, <2>3, RootBranch
  <1>9. /\ n \in BranchNodes /\ Sorted(n.keys) /\ n.keys # <<>> /\ Len(n.children) = Len(n.keys) + 1
    BY <1>8 DEF BranchOver
  <1> HIDE DEF n
  <1>10. /\ nodes'[new] = n /\ \A p \in PageIds \ {new} : nodes'[p] = nodes[p]
         /\ nodes' \in [PageIds -> {NoNode} \union LeafNodes \union BranchNodes]
    BY <1>1, <1>2, <1>3, <1>9 DEF NodesInv
  <1>11. /\ LeavesOf(nodes') = L /\ BranchesOf(nodes') = B \union {new}
         /\ NodesOf(nodes') = P \union {new}
    <2>1. ASSUME NEW p \in PageIds
          PROVE  /\ p \in LeavesOf(nodes') <=> p \in L
                 /\ p \in BranchesOf(nodes') <=> p \in B \union {new}
      <3>1. CASE p = new
        BY <1>3, <1>9, <1>10, <3>1, EmptyNode DEF LeavesOf, BranchesOf
      <3>2. CASE p # new
        BY <1>10, <3>2 DEF LeavesOf, BranchesOf
      <3> QED BY <3>1, <3>2
    <2>2. LeavesOf(nodes') \subseteq PageIds /\ BranchesOf(nodes') \subseteq PageIds
          /\ L \subseteq PageIds /\ B \subseteq PageIds
      BY DEF LeavesOf, BranchesOf
    <2>3. LeavesOf(nodes') = L /\ BranchesOf(nodes') = B \union {new}
      BY <1>3, <2>1, <2>2
    <2> QED BY <2>3 DEF NodesOf
  <1>12. \A p \in P : nodes'[p] = nodes[p] /\ c[p] = cover[p] /\ h[p] = height[p]
    BY <1>7, <1>10
  <1>13. NodesInv(nodes, next_page_id, meta_page_id, root_page_id)'
    <2>1. \A p \in L : LeafSound(nodes', p)
      BY <1>2, <1>3, <1>11, <1>12 DEF NodesInv, LeafSound
    <2>2. \A p \in B \union {new} : BranchSound(nodes', p)
      <3> TAKE p \in B \union {new}
      <3>1. CASE p = new
        BY <1>2, <1>3, <1>8, <1>9, <1>10, <1>11, <3>1 DEF BranchSound
      <3>2. CASE p \in B
        <4>1. BranchSound(nodes, p) /\ nodes'[p] = nodes[p]
          BY <1>2, <1>3, <1>12, <3>2 DEF NodesInv
        <4> QED BY <1>11, <4>1 DEF BranchSound
      <3> QED BY <3>1, <3>2
    <2>3. \A p \in P : p < new /\ p \in Nat
      BY <1>2, <1>3, PageIdsAreNats DEF NodesInv
    <2>4. \A p \in P \union {new} : p < new'
      BY <1>3, <2>3
    <2>5. new' \in 0 .. MaxPages
      BY <1>3, PageIdsAreNats
    <2>6. meta_page_id \in PageIds \ (P \union {new}) /\ meta_page_id < new'
      <3>1. meta_page_id < new /\ meta_page_id \in Nat
        BY <1>2, <1>3, PageIdsAreNats DEF NodesInv
      <3> QED BY <1>3, <3>1
    <2> QED BY <1>1, <1>10, <1>11, <2>1, <2>2, <2>4, <2>5, <2>6 DEF NodesInv
  <1>14. Levels(nodes, Wholes, c, h)'
    <2>1. \A p \in L : h[p] = 0 /\ Range(nodes'[p].keys) \subseteq c[p]
      BY <1>2, <1>3, <1>12 DEF Levels
    <2>2. \A p \in B \union {new} :
             BranchOver(nodes'[p], p, c, h) /\ Range(nodes'[p].children) \subseteq P \union {new}
      <3> TAKE p \in B \union {new}
      <3>1. CASE p = new
        BY <1>2, <1>3, <1>8, <1>10, <3>1
      <3>2. CASE p \in B
        <4> DEFINE b == nodes[p]
        <4>1. BranchOver(b, p, cover, height) /\ Range(b.children) \subseteq P /\ nodes'[p] = b
          BY <1>2, <1>3, <1>4, <1>12, <3>2 DEF Levels
        <4> HIDE DEF b
        <4>2. \A i \in 1 .. Len(b.keys) + 1 : b.children[i] \in P
          BY <4>1 DEF BranchOver, BranchNodes, Range
        <4>3. BranchOver(b, p, c, h)
          <5>1. \A i \in 1 .. Len(b.keys) + 1 :
                   c[b.children[i]] = cover[b.children[i]] /\ h[b.children[i]] = height[b.children[i]]
            BY <1>12, <4>2
          <5>2. c[p] = cover[p] /\ h[p] = height[p]
            BY <1>3, <1>12, <3>2
          <5> QED BY <4>1, <5>1, <5>2, BranchElsewhere
        <4> QED BY <4>1, <4>3
      <3> QED BY <3>1, <3>2
    <2> QED BY <1>4, <1>6, <1>11, <2>1, <2>2 DEF Levels
  <1>15. RootInv(c, h)'
    <2>1. ~SplitRoot'
      BY <1>1 DEF SplitRoot
    <2>2. \A p \in P \union {new} : h[p] <= h[new]
      <3> TAKE p \in P \union {new}
      <3>1. CASE p = new
        BY <1>5, <1>6, <3>1
      <3>2. CASE p \in P
        <4>1. height[p] <= height[root] /\ height[p] \in Nat /\ h[p] = height[p]
          BY <1>3, <1>5, <1>12, <3>2 DEF Covering
        <4> QED BY <1>5, <1>6, <4>1
      <3> QED BY <3>1, <3>2
    <2> QED BY <1>1, <1>6, <1>11, <2>1, <2>2 DEF RootInv
  <1>16. Links(nodes, c)'
    <2>1. \A p \in L : nodes[p].next_page_id \in L \union {INVALID_PAGE_ID}
      BY <1>2 DEF NodesInv, LeafSound
    <2>2. ASSUME NEW p \in L, NEW q \in L
          PROVE  /\ nodes'[p].next_page_id = q <=> nodes'[q].prev_page_id = p
                 /\ nodes'[p].next_page_id = q => Ahead(c[p], c[q])
                 /\ p # q /\ Ahead(c[p], c[q]) =>
                       /\ nodes'[p].next_page_id # INVALID_PAGE_ID
                       /\ nodes'[p].next_page_id = q \/ Ahead(c[nodes'[p].next_page_id], c[q])
      <3>1. nodes'[p] = nodes[p] /\ nodes'[q] = nodes[q] /\ c[p] = cover[p] /\ c[q] = cover[q]
        BY <1>3, <1>12
      <3>2. nodes[p].next_page_id # INVALID_PAGE_ID =>
              c[nodes[p].next_page_id] = cover[nodes[p].next_page_id]
        BY <1>3, <1>12, <2>1
      <3>3. /\ nodes[p].next_page_id = q <=> nodes[q].prev_page_id = p
            /\ nodes[p].next_page_id = q => Ahead(cover[p], cover[q])
            /\ p # q /\ Ahead(cover[p], cover[q]) =>
                  /\ nodes[p].next_page_id # INVALID_PAGE_ID
                  /\ nodes[p].next_page_id = q \/ Ahead(cover[nodes[p].next_page_id], cover[q])
        BY <1>2 DEF Links
      <3> QED BY <3>1, <3>2, <3>3
    <2> QED BY <1>11, <2>2 DEF Links
  <1>17. PathInv(c, h)' /\ SplitInv' /\ UnwindInv'
    BY <1>1 DEF PathInv, SplitInv, UnwindInv
  <1>18. EmptyInv'
    <2>1. \A p \in L : nodes[p].keys # <<>>
      BY <1>1, <1>2 DEF EmptyInv
    <2> QED BY <1>3, <1>11, <1>12, <2>1 DEF EmptyInv
  <1>19. CallInv'
    <2>1. iter' = NoIter \/ iter' \in [page : LeavesOf(nodes'), slot_id : Nat]
      BY <1>1, <1>2, <1>11 DEF CallInv
    <2>2. foreign' \in Nat /\ value' \in Keys \union {NoKey}
      BY <1>1, <1>2 DEF CallInv
    <2> QED BY <1>1, <2>1, <2>2 DEF CallInv
  <1>20. Inv(c, h)'
    BY <1>13, <1>14, <1>15, <1>16, <1>17, <1>18, <1>19 DEF Inv
  <1> QED BY <1>20

LEMMA SameState ==
  ASSUME NEW cover, NEW height, Inv(cover, height), UNCHANGED vars
  PROVE  Inv(cover, height)'
  <1>1. UNCHANGED <<nodes, next_page_id, meta_page_id, root_page_id, pc, key, path, prev,
                    overflow, pair, iter, result, value, foreign>>
    BY DEF vars, tree, call
  <1>2. Wholes' = Wholes /\ Top' = Top /\ Node' = Node /\ IterLeaf' = IterLeaf
        /\ Pinned' = Pinned /\ LeafHasRoom' = LeafHasRoom /\ SplitRoot' = SplitRoot
    BY <1>1 DEF Wholes, Top, Node, IterLeaf, Pinned, Held, CallHolds, LeafHasRoom, SplitRoot
  <1>3. Levels(nodes, Wholes, cover, height)' /\ Links(nodes, cover)'
        /\ NodesInv(nodes, next_page_id, meta_page_id, root_page_id)'
    BY <1>1, <1>2 DEF Inv
  <1>4. RootInv(cover, height)' /\ PathInv(cover, height)' /\ EmptyInv'
    BY <1>1, <1>2 DEF Inv, RootInv, PathInv, EmptyInv
  <1>5. CallInv'
    BY <1>1, <1>2 DEF Inv, CallInv
  <1>6. SplitInv' /\ UnwindInv'
    BY <1>1, <1>2 DEF Inv, SplitInv, UnwindInv
  <1> QED BY <1>3, <1>4, <1>5, <1>6 DEF Inv

LEMMA StutterKeeps ==
  ASSUME TreeInv, UNCHANGED vars
  PROVE  TreeInv'
  <1>1. CASE Empty
    BY <1>1 DEF TreeInv, Empty, vars, tree, call
  <1>2. CASE \E cover, height : Inv(cover, height)
    BY <1>2, SameState DEF TreeInv
  <1> QED BY <1>1, <1>2 DEF TreeInv

LEMMA CallStepKeeps ==
  ASSUME NEW cover, NEW height, Inv(cover, height), CallStep, "after_split" \notin Faults
  PROVE  \E c, h : Inv(c, h)'
  <1>1. CASE FetchMeta \/ FetchRoot \/ FetchChild
    BY <1>1, FetchMetaKeeps, FetchRootKeeps, FetchChildKeeps
  <1>2. CASE RejectDuplicate \/ InsertIntoLeaf
    BY <1>2, RejectDuplicateKeeps, InsertIntoLeafKeeps
  <1>3. CASE FetchPrev \/ HasNoPrev
    BY <1>3, FetchPrevKeeps, HasNoPrevKeeps
  <1>4. CASE SplitLeaf
    BY <1>4, SplitLeafKeeps
  <1>5. CASE SplitBranch
    BY <1>5, SplitBranchKeeps
  <1>6. CASE InsertIntoBranch
    BY <1>6, InsertIntoBranchKeeps
  <1>7. CASE GrowRoot
    BY <1>7, GrowRootKeeps
  <1>8. CASE SearchMeta \/ SearchRoot \/ SearchChildPage
    BY <1>8, SearchMetaKeeps, SearchRootKeeps, SearchChildPageKeeps
  <1>9. CASE OpenIter \/ GetPair \/ Advance
    BY <1>9, OpenIterKeeps, GetPairKeeps, AdvanceKeeps
  <1>10. CASE NoFreeBuffer \/ WriteBackFails
    BY <1>10, NoFreeBufferKeeps, WriteBackFailsKeeps
  <1> QED BY <1>1, <1>2, <1>3, <1>4, <1>5, <1>6, <1>7, <1>8, <1>9, <1>10 DEF CallStep

LEMMA StepKeeps ==
  ASSUME TreeInv, Next, "after_split" \notin Faults
  PROVE  TreeInv'
  <1>1. CASE Empty
    BY <1>1, EmptyKeeps
  <1>2. ASSUME NEW cover, NEW height, Inv(cover, height) PROVE \E c, h : Inv(c, h)'
    <2>1. CASE CallStep
      BY <1>2, <2>1, CallStepKeeps
    <2>2. CASE BeginInsert \/ BeginSearch \/ BeginNext \/ DropIter \/ SetForeign
      BY <1>2, <2>2, BeginKeeps
    <2>3. CASE CreateTree \/ CreateTreeFails
      BY <1>2, <2>3 DEF CreateTree, CreateTreeFails, Inv, CallInv
    <2> QED BY <2>1, <2>2, <2>3 DEF Next
  <1>3. CASE \E cover, height : Inv(cover, height)
    BY <1>2, <1>3 DEF TreeInv
  <1> QED BY <1>1, <1>3 DEF TreeInv

\* The tree stays a search tree whose pages cover disjoint intervals, level by
\* level, through every insert, split, search and scan (btree.rs).
THEOREM TreeKept ==
  ASSUME "after_split" \notin Faults
  PROVE  Spec => []TreeInv
  <1>1. Init => TreeInv
    BY Initially
  <1>2. TreeInv /\ [Next]_vars => TreeInv'
    BY StepKeeps, StutterKeeps
  <1> QED BY <1>1, <1>2, PTL DEF Spec

LEMMA PagesAre ==
  ASSUME NEW cover, NEW height, Inv(cover, height)
  PROVE  NodePages = NodesOf(nodes) /\ LeafPages = LeavesOf(nodes) /\ BranchPages = BranchesOf(nodes)
  <1>1. nodes \in [PageIds -> {NoNode} \union LeafNodes \union BranchNodes]
    BY DEF Inv, NodesInv
  <1>2. NodePages = NodesOf(nodes)
    BY <1>1, Kinds DEF NodePages
  <1>3. LeafPages = LeavesOf(nodes)
    BY <1>1, <1>2, Kinds DEF LeafPages, NodesOf
  <1> QED BY <1>1, <1>2, <1>3, Kinds DEF BranchPages, NodesOf

LEMMA NoPages ==
  ASSUME Empty
  PROVE  NodePages = {} /\ LeafPages = {} /\ BranchPages = {}
  BY DEF Empty, NodePages, LeafPages, BranchPages

\* Every reference to a page leads to a node of the kind that it has to have.
THEOREM TreeTypes ==
  ASSUME "after_split" \notin Faults
  PROVE  Spec => []TypeOK
  <1>1. ASSUME Empty PROVE TypeOK
    BY <1>1, NoPages DEF Empty, TypeOK
  <1>2. ASSUME NEW cover, NEW height, Inv(cover, height) PROVE TypeOK
    <2>1. /\ NodesInv(nodes, next_page_id, meta_page_id, root_page_id) /\ CallInv
          /\ NodePages = NodesOf(nodes) /\ LeafPages = LeavesOf(nodes) /\ BranchPages = BranchesOf(nodes)
      BY <1>2, PagesAre DEF Inv
    <2>2. \A p \in LeavesOf(nodes) :
            /\ nodes[p].keys \in Seq(Keys)
            /\ {nodes[p].prev_page_id, nodes[p].next_page_id}
                 \subseteq LeavesOf(nodes) \union {INVALID_PAGE_ID}
      <3> TAKE p \in LeavesOf(nodes)
      <3>1. nodes[p] \in LeafNodes /\ LeafSound(nodes, p)
        BY <2>1 DEF NodesInv, LeavesOf
      <3> QED BY <3>1 DEF LeafNodes, LeafSound
    <2>3. \A p \in BranchesOf(nodes) :
            /\ nodes[p].keys \in Seq(Keys)
            /\ Range(nodes[p].children) \subseteq NodesOf(nodes)
            /\ Len(nodes[p].children) = Len(nodes[p].keys) + 1
      <3> TAKE p \in BranchesOf(nodes)
      <3>1. nodes[p] \in BranchNodes /\ BranchSound(nodes, p)
        BY <2>1 DEF NodesInv, BranchesOf
      <3> QED BY <3>1 DEF BranchNodes, BranchSound
    <2>4. next_page_id \in 0 .. MaxPages
      BY <2>1 DEF NodesInv
    <2>5. iter = NoIter \/ iter.page \in LeavesOf(nodes)
      BY <2>1 DEF CallInv
    <2> QED BY <2>1, <2>2, <2>3, <2>4, <2>5 DEF TypeOK, CallInv
  <1>3. TreeInv => TypeOK
    BY <1>1, <1>2 DEF TreeInv
  <1> QED BY <1>3, TreeKept, PTL

\* No page is borrowed twice: insert's path goes down a level at each step, and
\* the leaf before the one that it splits is another leaf (insert_internal).
THEOREM NeverBorrowsTwice ==
  ASSUME "after_split" \notin Faults
  PROVE  Spec => []NoDoubleBorrow
  <1>0. ASSUME path = <<>> PROVE NoDoubleBorrow
    BY <1>0 DEF NoDoubleBorrow, IsInjective, Range
  <1>1. ASSUME NEW cover, NEW height, Inv(cover, height) PROVE NoDoubleBorrow
    <2>1. CASE pc \notin {"root", "descend", "split", "unwind", "search"}
      BY <1>0, <1>1, <2>1 DEF Inv, CallInv
    <2>2. CASE pc = "search"
      <3>1. PICK p \in NodesOf(nodes) : path = <<p>>
        BY <1>1, <2>2 DEF Inv, CallInv
      <3>2. prev = INVALID_PAGE_ID /\ p \in PageIds
        BY <1>1, <2>2 DEF Inv, CallInv, NodesOf, LeavesOf, BranchesOf
      <3>3. DOMAIN path = 1 .. 1 /\ path[1] = p
        BY <3>1
      <3> QED BY <3>2, <3>3, PageIdsAreNats DEF NoDoubleBorrow, IsInjective, Range
    <2>3. CASE pc \in {"root", "descend", "split", "unwind"}
      <3> DEFINE m == Len(path)
                 r == height[root_page_id]
      <3>1. PathOver(path, key, nodes, meta_page_id, root_page_id, cover, height)
        BY <1>1, <2>3 DEF Inv, PathInv
      <3>2. /\ path \in Seq(PageIds) /\ m \in Nat /\ DOMAIN path = 1 .. m
            /\ m >= 1 => path[1] = meta_page_id
            /\ \A i \in 2 .. m : path[i] \in NodesOf(nodes) /\ height[path[i]] + i = r + 2
        BY <3>1 DEF PathOver
      <3>3. /\ meta_page_id \notin NodesOf(nodes) /\ root_page_id \in NodesOf(nodes)
            /\ NodesOf(nodes) \subseteq PageIds /\ height \in [PageIds -> Nat]
        BY <1>1 DEF Inv, NodesInv, Levels, Covering
      <3>4. r \in Nat /\ \A i \in 2 .. m : height[path[i]] \in Nat
        BY <3>2, <3>3
      <3> HIDE DEF m, r
      <3>5. ASSUME NEW i \in 1 .. m, NEW j \in 1 .. m, path[i] = path[j] PROVE i = j
        <4>1. CASE i = 1 /\ j # 1
          BY <3>2, <3>3, <3>5, <4>1
        <4>2. CASE i # 1 /\ j = 1
          BY <3>2, <3>3, <3>5, <4>2
        <4>3. CASE i # 1 /\ j # 1
          <5> DEFINE x == height[path[i]]
          <5>1. i \in 2 .. m /\ j \in 2 .. m
            BY <3>2, <4>3
          <5>2. x \in Nat /\ x + i = r + 2 /\ x + j = r + 2
            BY <3>2, <3>4, <3>5, <5>1
          <5> HIDE DEF x
          <5> QED BY <3>4, <5>2
        <4> QED BY <4>1, <4>2, <4>3
      <3>6. \A i \in 1 .. m : path[i] # prev
        <4>1. CASE prev = INVALID_PAGE_ID
          BY <3>2, <4>1, PageIdsAreNats
        <4>2. CASE prev # INVALID_PAGE_ID
          <5>1. pc = "split" /\ Top \in LeavesOf(nodes) /\ prev = nodes[Top].prev_page_id
            BY <1>1, <2>3, <4>2 DEF Inv, CallInv, SplitInv, Node
          <5>2. Links(nodes, cover) /\ Levels(nodes, nodes, cover, height) /\ LeafSound(nodes, Top)
            BY <1>1, <5>1 DEF Inv, Wholes, NodesInv
          <5>3. prev \in LeavesOf(nodes) /\ height[prev] = 0 /\ height[Top] = 0
            BY <4>2, <5>1, <5>2 DEF LeafSound, Levels
          <5>4. prev # Top
            <6>1. ASSUME prev = Top PROVE FALSE
              <7>0. nodes[Top].next_page_id = Top
                BY <5>1, <5>2, <6>1 DEF Links
              <7>1. Ahead(cover[Top], cover[Top])
                BY <5>1, <5>2, <7>0 DEF Links
              <7>2. cover[Top] \subseteq Nat /\ cover[Top] # {}
                BY <5>1, <5>2 DEF Levels, Covering, NodesOf
              <7> QED BY <7>1, <7>2 DEF Ahead
            <6> QED BY <6>1
          <5>5. /\ m >= 2 /\ path[m] = Top /\ m \in 2 .. m
            BY <1>1, <5>1, <3>2, TopIsLast DEF Inv, CallInv, m
          <5>6. ASSUME NEW i \in 1 .. m, path[i] = prev PROVE FALSE
            <6>1. CASE i = 1
              BY <3>2, <3>3, <5>3, <5>6, <6>1 DEF NodesOf
            <6>2. CASE i # 1
              <7>1. i \in 2 .. m
                BY <3>2, <6>2
              <7>2. 0 + i = r + 2 /\ 0 + m = r + 2
                BY <3>2, <5>3, <5>5, <5>6, <7>1
              <7>3. i = m
                BY <3>2, <3>4, <7>1, <7>2
              <7> QED BY <5>4, <5>5, <5>6, <7>3
            <6> QED BY <6>1, <6>2
          <5> QED BY <5>6
        <4> QED BY <4>1, <4>2
      <3> QED BY <3>2, <3>5, <3>6 DEF NoDoubleBorrow, IsInjective, Range
    <2> QED BY <2>1, <2>2, <2>3
  <1>2. TreeInv => NoDoubleBorrow
    BY <1>0, <1>1 DEF TreeInv, Empty
  <1> QED BY <1>2, TreeKept, PTL

\* The order of the leaves by their keys is the order by what they cover: a
\* leaf without keys is the only one.
LEMMA LeafOrder ==
  ASSUME NEW cover, NEW height, Inv(cover, height),
         NEW p \in LeavesOf(nodes), NEW q \in LeavesOf(nodes)
  PROVE  /\ Before(p, q) <=> p # q /\ Ahead(cover[p], cover[q])
         /\ p = q \/ Ahead(cover[p], cover[q]) \/ Ahead(cover[q], cover[p])
         /\ ~(Ahead(cover[p], cover[q]) /\ Ahead(cover[q], cover[p]))
  <1>1. /\ Levels(nodes, Wholes, cover, height) /\ EmptyInv /\ RootInv(cover, height)
        /\ LeavesOf(nodes) \subseteq NodesOf(nodes)
    BY DEF Inv, NodesOf
  <1>2. ASSUME NEW x \in LeavesOf(nodes)
        PROVE  /\ height[x] = 0 /\ cover[x] # {} /\ cover[x] \subseteq Nat /\ x \in NodesOf(nodes)
               /\ Range(nodes[x].keys) \subseteq cover[x]
               /\ nodes[x].keys \in Seq(Keys)
    <2>1. nodes[x] \in LeafNodes
      BY DEF LeavesOf
    <2> QED BY <1>1, <2>1 DEF Levels, Covering, LeafNodes
  <1>3. \A x, y \in LeavesOf(nodes) : x = y \/ Ahead(cover[x], cover[y]) \/ Ahead(cover[y], cover[x])
    BY <1>1, <1>2 DEF Levels, Covering
  <1>4. \A x, y \in LeavesOf(nodes) : ~(Ahead(cover[x], cover[y]) /\ Ahead(cover[y], cover[x]))
    <2> TAKE x, y \in LeavesOf(nodes)
    <2>1. PICK a \in cover[x] : a \in Nat
      BY <1>2
    <2>2. PICK b \in cover[y] : b \in Nat
      BY <1>2
    <2> QED BY <2>1, <2>2 DEF Ahead
  <1>5. ASSUME NEW x \in LeavesOf(nodes), NEW y \in LeavesOf(nodes), x # y
        PROVE  \E k \in Range(nodes[x].keys) : k \in Nat
    <2>1. ASSUME nodes[x].keys = <<>> PROVE FALSE
      <3>1. x = root_page_id /\ pc # "unwind"
        BY <1>1, <2>1 DEF EmptyInv
      <3>2. cover[x] = Nat
        BY <1>1, <3>1 DEF RootInv, SplitRoot
      <3>3. PICK b \in cover[y] : b \in Nat
        BY <1>2
      <3>4. b \in cover[x]
        BY <3>2, <3>3
      <3>5. Ahead(cover[x], cover[y]) \/ Ahead(cover[y], cover[x])
        BY <1>3, <1>5
      <3> QED BY <3>3, <3>4, <3>5 DEF Ahead
    <2> DEFINE s == nodes[x].keys
    <2>2. s \in Seq(Keys) /\ s # <<>>
      BY <1>2, <2>1
    <2> HIDE DEF s
    <2>3. 1 \in DOMAIN s /\ s[1] \in Keys
      BY <2>2
    <2>4. s[1] \in Range(s) /\ s[1] \in Nat
      BY <2>3, KeysAreNats DEF Range
    <2> QED BY <2>4 DEF s
  <1>6. ASSUME Before(p, q) PROVE p # q /\ Ahead(cover[p], cover[q])
    <2>1. p # q
      BY <1>6 DEF Before
    <2>2. PICK k \in Range(nodes[p].keys) : k \in Nat
      BY <1>5, <2>1
    <2>3. PICK l \in Range(nodes[q].keys) : l \in Nat
      BY <1>5, <2>1
    <2>4. k < l /\ k \in cover[p] /\ l \in cover[q]
      BY <1>2, <1>6, <2>2, <2>3 DEF Before
    <2>5. ~Ahead(cover[q], cover[p])
      BY <2>2, <2>3, <2>4 DEF Ahead
    <2> QED BY <1>3, <2>1, <2>5
  <1>7. ASSUME p # q, Ahead(cover[p], cover[q]) PROVE Before(p, q)
    BY <1>2, <1>7 DEF Before, Ahead
  <1> QED BY <1>3, <1>4, <1>6, <1>7

\* The links between leaves agree with the order of their keys at every step
\* of every insert.
THEOREM LeavesChained ==
  ASSUME "after_split" \notin Faults
  PROVE  Spec => []LeafChain
  <1>1. ASSUME NEW cover, NEW height, Inv(cover, height) PROVE LeafChain
    <2> DEFINE L == LeavesOf(nodes)
               A(p, q) == Ahead(cover[p], cover[q])
               nx(p) == nodes[p].next_page_id
    <2>1. LeafPages = L
      BY <1>1, PagesAre
    <2>2. \A p \in L : Sorted(nodes[p].keys) /\ nx(p) \in L \union {INVALID_PAGE_ID}
      BY <1>1 DEF Inv, NodesInv, LeafSound
    <2>3. \A p, q \in L : /\ nx(p) = q <=> nodes[q].prev_page_id = p
                          /\ nx(p) = q => A(p, q)
                          /\ p # q /\ A(p, q) => /\ nx(p) # INVALID_PAGE_ID
                                                 /\ nx(p) = q \/ A(nx(p), q)
      BY <1>1 DEF Inv, Links
    <2>4. \A p, q \in L : /\ Before(p, q) <=> p # q /\ A(p, q)
                          /\ p = q \/ A(p, q) \/ A(q, p)
                          /\ ~(A(p, q) /\ A(q, p))
      BY <1>1, LeafOrder
    <2>5. \A p, q \in L : Neighbours(p, q) <=> Before(p, q) /\ ~\E r \in L : Before(p, r) /\ Before(r, q)
      BY <2>1 DEF Neighbours
    <2> HIDE DEF L, A, nx
    <2>6. ASSUME NEW p \in L, NEW q \in L, nx(p) = q PROVE Neighbours(p, q)
      <3>1. Before(p, q) /\ p # q
        BY <2>3, <2>4, <2>6
      <3>2. ASSUME NEW r \in L, Before(p, r), Before(r, q) PROVE FALSE
        BY <2>3, <2>4, <2>6, <3>2
      <3> QED BY <2>5, <3>1, <3>2
    <2>7. ASSUME NEW p \in L, NEW q \in L, Neighbours(p, q) PROVE nx(p) = q
      <3>1. p # q /\ A(p, q) /\ Before(p, q)
        BY <2>4, <2>5, <2>7
      <3>2. nx(p) \in L /\ (nx(p) = q \/ A(nx(p), q))
        BY <2>2, <2>3, <3>1
      <3>3. ASSUME nx(p) # q PROVE FALSE
        <4>1. Before(p, nx(p)) /\ Before(nx(p), q)
          BY <2>3, <2>4, <3>2, <3>3
        <4> QED BY <2>5, <2>7, <3>2, <4>1
      <3> QED BY <3>3
    <2>8. \A p, q \in L : /\ Sorted(nodes[p].keys)
                          /\ p = q \/ Before(p, q) \/ Before(q, p)
                          /\ nx(p) = q <=> Neighbours(p, q)
                          /\ nodes[q].prev_page_id = p <=> Neighbours(p, q)
      BY <2>2, <2>3, <2>4, <2>6, <2>7
    <2> QED BY <2>1, <2>8 DEF LeafChain, nx
  <1>2. ASSUME Empty PROVE LeafChain
    BY <1>2, NoPages DEF LeafChain
  <1>3. TreeInv => LeafChain
    BY <1>1, <1>2 DEF TreeInv
  <1> QED BY <1>3, TreeKept, PTL

\* The key that a split sends up has a smaller one: the first of the node that
\* its lower half became.
LEMMA SomeKeyBelow ==
  ASSUME NEW cover, NEW height, Inv(cover, height), pc = "unwind"
  PROVE  overflow.key \in Keys /\ \E j \in Keys : j < overflow.key
  <1> DEFINE sep == overflow.key
             new == overflow.page_id
  <1>1. /\ sep \in Keys /\ new \in NodesOf(nodes)
        /\ Levels(nodes, Wholes, cover, height) /\ EmptyInv /\ RootInv(cover, height)
    BY DEF Inv, UnwindInv
  <1>2. \A k \in cover[new] : k < sep
    <2>1. CASE Top = meta_page_id
      BY <1>1, <2>1 DEF RootInv, SplitRoot
    <2>2. CASE Top # meta_page_id
      <3> DEFINE whole == Wholes[Top]
                 i == SlotOf(Node.keys, sep) + 1
      <3>1. /\ Node \in BranchNodes /\ whole \in BranchNodes
            /\ whole = BranchInsert(Node, SlotOf(Node.keys, sep), sep, new)
            /\ BranchOver(whole, Top, cover, height)
            /\ i \in 1 .. Len(Node.keys) + 1
            /\ BranchSound(nodes, Top)
        BY <2>2, OnTheWayUp
      <3>2. whole.keys = InsertAt(Node.keys, i, sep) /\ whole.children = InsertAt(Node.children, i, new)
        BY <3>1 DEF BranchInsert, BranchNodes
      <3>3. /\ Len(whole.keys) = Len(Node.keys) + 1 /\ whole.keys[i] = sep
            /\ whole.children[i] = new
        <4>1. /\ Node.keys \in Seq(Keys) /\ Node.children \in Seq(PageIds)
              /\ Len(Node.children) = Len(Node.keys) + 1
          BY <3>1 DEF BranchNodes, BranchSound, Node
        <4>2. new \in PageIds
          BY <1>1 DEF NodesOf, LeavesOf, BranchesOf
        <4> HIDE DEF i, whole, sep, new
        <4>3. Inserted(whole.keys, Node.keys, i, sep)
          BY <1>1, <3>1, <3>2, <4>1, InsertAtElements
        <4>4. i \in 1 .. Len(Node.children) + 1
          BY <3>1, <4>1
        <4>5. Inserted(whole.children, Node.children, i, new)
          BY <3>2, <4>1, <4>2, <4>4, InsertAtElements
        <4> QED BY <4>3, <4>5 DEF Inserted
      <3>4. i \in 1 .. Len(whole.keys) /\ i \in 1 .. Len(whole.keys) + 1
        <4>1. Len(Node.keys) \in Nat
          BY <3>1 DEF BranchNodes
        <4> HIDE DEF i
        <4> QED BY <3>1, <3>3, <4>1
      <3>5. cover[new] = Segment(whole.keys, i, cover[Top])
        <4> HIDE DEF i
        <4> QED BY <3>1, <3>3, <3>4 DEF BranchOver
      <3> HIDE DEF i, whole
      <3> QED BY <3>3, <3>4, <3>5 DEF Segment, Between
    <2> QED BY <2>1, <2>2
  <1>3. ASSUME NEW s \in Seq(Keys), s # <<>>, Range(s) \subseteq cover[new]
        PROVE  \E j \in Keys : j < sep
    <2>1. 1 \in DOMAIN s /\ s[1] \in Keys /\ s[1] \in Range(s)
      BY <1>3 DEF Range
    <2> QED BY <1>2, <1>3, <2>1
  <1>4. CASE new \in LeavesOf(nodes)
    <2>1. nodes[new].keys \in Seq(Keys)
      BY <1>4 DEF LeavesOf, LeafNodes
    <2> QED BY <1>1, <1>3, <1>4, <2>1 DEF Levels, EmptyInv
  <1>5. CASE new \in BranchesOf(nodes)
    <2>1. BranchOver(Wholes[new], new, cover, height)
      BY <1>1, <1>5 DEF Levels
    <2>2. /\ Wholes[new].keys \in Seq(Keys) /\ Wholes[new].keys # <<>>
          /\ Range(Wholes[new].keys) \subseteq cover[new]
      BY <2>1 DEF BranchOver, BranchNodes
    <2> QED BY <1>1, <1>3, <2>2
  <1> QED BY <1>1, <1>4, <1>5 DEF NodesOf

\* The assertion of Branch::insert holds whenever a split sends a pair up, if
\* each key but the least comes with a value of at least four bytes or is itself
\* short enough for a branch: the least is never sent up.  (Of other keys it does
\* not hold: see the finding on it.)
THEOREM LongValuesFit ==
  ASSUME "after_split" \notin Faults,
         \A k \in Keys : (\E j \in Keys : j < k) =>
            ValueLen[k] >= 4 \/ BranchPair(k) <= MaxPairSize(BranchCapacity)
  PROVE  Spec => []SeparatorsFit
  <1>1. ASSUME NEW k \in Keys, \E j \in Keys : j < k
        PROVE  BranchPair(k) <= MaxPairSize(BranchCapacity)
    <2> DEFINE a == KeyLen[k]
               v == ValueLen[k]
               x == VarintLen(a)
               y == VarintLen(v)
    <2>1. CASE v >= 4
      <3>1. a \in Nat /\ v \in Nat /\ LeafPair(k) <= MaxPairSize(LeafCapacity)
        BY BTreeAssumption
      <3>2. MaxPairSize(LeafCapacity) = 2028 /\ MaxPairSize(BranchCapacity) = 2032
        BY DEF MaxPairSize, LeafCapacity, BranchCapacity, PAGE_SIZE, PointerSize
      <3>3. x \in {1, 3} /\ y \in {1, 3} /\ VarintLen(8) = 1
        BY DEF VarintLen
      <3>4. LeafPair(k) = x + a + y + v /\ BranchPair(k) = x + a + 1 + 8
        BY <3>3 DEF LeafPair, BranchPair, PairSize, PageIdLen
      <3> HIDE DEF a, v, x, y
      <3>5. x \in Int /\ y \in Int /\ y >= 1 /\ x + a + y + v <= 2028 /\ v >= 4
        BY <2>1, <3>1, <3>2, <3>3, <3>4
      <3> QED BY <3>1, <3>2, <3>4, <3>5
    <2> QED BY <1>1, <2>1
  <1>2. ASSUME NEW cover, NEW height, Inv(cover, height) PROVE SeparatorsFit
    BY <1>1, <1>2, SomeKeyBelow DEF SeparatorsFit, SeparatorFits
  <1>3. TreeInv => SeparatorsFit
    BY <1>2 DEF TreeInv, Empty, SeparatorsFit
  <1> QED BY <1>3, TreeKept, PTL

-----------------------------------------------------------------------------
(* Between calls the tree is whole: the recursive functions over its pages *)
(* are what the levels say.                                                *)

LEMMA WholeTree ==
  ASSUME NEW cover, NEW height, Inv(cover, height), Linked
  PROVE  /\ NodePages = NodesOf(nodes) /\ LeafPages = LeavesOf(nodes)
         /\ BranchPages = BranchesOf(nodes) /\ NodePages = LeafPages \union BranchPages
         /\ LeafPages \intersect BranchPages = {} /\ NodePages \subseteq PageIds
         /\ root_page_id \in NodePages
         /\ \A p \in NodePages : /\ height[p] \in Nat /\ height[p] <= height[root_page_id]
                                 /\ cover[p] \subseteq Nat
         /\ cover[root_page_id] = Nat
         /\ \A p \in LeafPages : height[p] = 0
         /\ \A p \in BranchPages : /\ BranchOver(nodes[p], p, cover, height)
                                   /\ Range(nodes[p].children) \subseteq NodePages
  <1>1. pc = "idle" /\ Wholes = nodes /\ ~SplitRoot
    BY DEF Linked, Wholes, SplitRoot
  <1>2. NodePages = NodesOf(nodes) /\ LeafPages = LeavesOf(nodes) /\ BranchPages = BranchesOf(nodes)
    BY PagesAre DEF Inv
  <1>3. Levels(nodes, nodes, cover, height) /\ RootInv(cover, height)
        /\ NodesInv(nodes, next_page_id, meta_page_id, root_page_id)
    BY <1>1 DEF Inv
  <1>4. NodePages = LeafPages \union BranchPages /\ LeafPages \intersect BranchPages = {}
        /\ NodePages \subseteq PageIds
    BY <1>2, EmptyNode DEF NodesOf, LeavesOf, BranchesOf
  <1>5. \A p \in NodePages : /\ height[p] \in Nat /\ height[p] <= height[root_page_id]
                             /\ cover[p] \subseteq Nat
    BY <1>2, <1>3, <1>4 DEF Levels, Covering, RootInv
  <1>6. cover[root_page_id] = Nat /\ root_page_id \in NodePages
    BY <1>1, <1>2, <1>3 DEF RootInv, NodesInv
  <1>7. /\ \A p \in LeafPages : height[p] = 0
        /\ \A p \in BranchPages : /\ BranchOver(nodes[p], p, cover, height)
                                  /\ Range(nodes[p].children) \subseteq NodePages
    BY <1>2, <1>3 DEF Levels
  <1> QED BY <1>2, <1>4, <1>5, <1>6, <1>7

\* The children of a branch are one level down.
LEMMA WholeBranch ==
  ASSUME NEW cover, NEW height, Inv(cover, height), Linked, NEW p \in BranchPages
  PROVE  /\ Range(nodes[p].children) # {}
         /\ height[p] \in Nat \ {0}
         /\ \A c \in Range(nodes[p].children) : c \in NodePages /\ height[c] + 1 = height[p]
  <1> DEFINE n == nodes[p]
             m == Len(n.keys)
  <1>1. BranchOver(n, p, cover, height) /\ Range(n.children) \subseteq NodePages
        /\ \A c \in NodePages : height[c] \in Nat
    BY WholeTree
  <1>2. /\ n.children \in Seq(PageIds) /\ m \in Nat /\ Len(n.children) = m + 1
        /\ \A i \in 1 .. m + 1 : height[n.children[i]] + 1 = height[p]
    BY <1>1 DEF BranchOver, BranchNodes
  <1> HIDE DEF m
  <1>3. DOMAIN n.children = 1 .. m + 1 /\ 1 \in 1 .. m + 1
    BY <1>2
  <1>4. \A c \in Range(n.children) : c \in NodePages /\ height[c] + 1 = height[p]
    BY <1>1, <1>2, <1>3 DEF Range
  <1>5. n.children[1] \in Range(n.children)
    BY <1>3 DEF Range
  <1>6. height[p] \in Nat \ {0}
    BY <1>1, <1>4, <1>5
  <1> QED BY <1>4, <1>5, <1>6

\* The function that Depths is defined with.
IsBelow(f) ==
  f = [p \in NodePages |->
         IF p \in LeafPages THEN {0}
         ELSE {d + 1 : d \in UNION {f[c] : c \in Range(nodes[p].children)}}]

LEMMA BelowExists ==
  ASSUME NEW cover, NEW height, Inv(cover, height), Linked
  PROVE  IsBelow([p \in NodePages |-> {height[p]}])
  <1> DEFINE f == [p \in NodePages |-> {height[p]}]
             g == [p \in NodePages |->
                     IF p \in LeafPages THEN {0}
                     ELSE {d + 1 : d \in UNION {f[c] : c \in Range(nodes[p].children)}}]
  <1>1. ASSUME NEW p \in NodePages PROVE f[p] = g[p]
    <2>1. CASE p \in LeafPages
      BY <2>1, WholeTree
    <2>2. CASE p \notin LeafPages
      <3>1. p \in BranchPages
        BY <2>2 DEF BranchPages
      <3> DEFINE C == Range(nodes[p].children)
                 U == UNION {f[c] : c \in C}
      <3>2. C # {} /\ height[p] \in Nat /\ \A c \in C : c \in NodePages /\ height[c] + 1 = height[p]
        BY <3>1, WholeBranch
      <3>3. \A c \in NodePages : height[c] \in Nat
        BY WholeTree
      <3> HIDE DEF C
      <3>4. \A c \in C : f[c] = {height[p] - 1}
        BY <3>2, <3>3
      <3>5. U = {height[p] - 1}
        <4> HIDE DEF f
        <4> QED BY <3>2, <3>4
      <3>6. {d + 1 : d \in U} = {height[p]}
        <4> HIDE DEF U
        <4> QED BY <3>2, <3>5
      <3>7. g[p] = {d + 1 : d \in U}
        BY <2>2 DEF C
      <3> QED BY <3>6, <3>7
    <2> QED BY <2>1, <2>2
  <1>2. f = g
    <2>1. g = [p \in NodePages |-> g[p]]
      OBVIOUS
    <2>2. f = [p \in NodePages |-> f[p]]
      OBVIOUS
    <2> HIDE DEF f, g
    <2> QED BY <1>1, <2>1, <2>2
  <1> QED BY <1>2 DEF IsBelow

LEMMA BelowUnique ==
  ASSUME NEW cover, NEW height, Inv(cover, height), Linked, NEW f, IsBelow(f)
  PROVE  \A p \in NodePages : f[p] = {height[p]}
  <1> DEFINE T == {n \in Nat : \A p \in NodePages : height[p] = n => f[p] = {n}}
  <1>0. /\ \A p \in NodePages : height[p] \in Nat
        /\ \A p \in LeafPages : height[p] = 0
    BY WholeTree
  <1>1. 0 \in T
    <2> SUFFICES ASSUME NEW p \in NodePages, height[p] = 0 PROVE f[p] = {0}
      OBVIOUS
    <2>1. p \in LeafPages
      BY WholeBranch DEF BranchPages
    <2> QED BY <2>1 DEF IsBelow
  <1>2. ASSUME NEW n \in Nat, n \in T PROVE n + 1 \in T
    <2> SUFFICES ASSUME NEW p \in NodePages, height[p] = n + 1 PROVE f[p] = {n + 1}
      OBVIOUS
    <2>1. p \notin LeafPages /\ p \in BranchPages
      BY <1>0 DEF BranchPages
    <2> DEFINE C == Range(nodes[p].children)
               U == UNION {f[c] : c \in C}
    <2>2. C # {} /\ \A c \in C : c \in NodePages /\ height[c] + 1 = height[p]
      BY <2>1, WholeBranch
    <2>3. f[p] = {d + 1 : d \in U}
      BY <2>1 DEF IsBelow
    <2> HIDE DEF C
    <2>4. \A c \in C : c \in NodePages /\ height[c] = n
      BY <1>0, <2>2
    <2>5. \A c \in C : f[c] = {n}
      BY <1>2, <2>4
    <2>6. U = {n}
      BY <2>2, <2>5
    <2> HIDE DEF U
    <2> QED BY <2>3, <2>6
  <1>3. Nat \subseteq T
    <2> HIDE DEF T
    <2> QED BY <1>1, <1>2, SetInduction
  <1>4. ASSUME NEW p \in NodePages PROVE f[p] = {height[p]}
    <2>1. height[p] \in T
      BY <1>0, <1>3
    <2> QED BY <2>1
  <1> QED BY <1>4

\* All leaves are at one depth between calls; no node overflows its page, and
\* none but the leaf of an empty tree is empty (split_insert, fill_right_child).
THEOREM NodesStaySound ==
  ASSUME "after_split" \notin Faults
  PROVE  Spec => []NodesSound
  <1>1. ASSUME NEW cover, NEW height, Inv(cover, height) PROVE NodesSound
    <2>1. /\ LeafPages = LeavesOf(nodes) /\ BranchPages = BranchesOf(nodes)
          /\ NodesInv(nodes, next_page_id, meta_page_id, root_page_id) /\ EmptyInv
      BY <1>1, PagesAre DEF Inv
    <2>2. \A p \in LeafPages :
            /\ nodes[p].keys = <<>> => p = root_page_id
            /\ Used(nodes[p].keys, LeafPairs) <= LeafCapacity
      BY <2>1 DEF NodesInv, LeafSound, EmptyInv
    <2>3. \A p \in BranchPages :
            /\ nodes[p].keys # <<>>
            /\ Used(nodes[p].keys, BranchPairs) <= BranchCapacity
      BY <2>1 DEF NodesInv, BranchSound
    <2>4. ASSUME Linked PROVE Cardinality(Depths) = 1
      <3> DEFINE f == CHOOSE g : IsBelow(g)
      <3>1. IsBelow(f)
        BY <1>1, <2>4, BelowExists
      <3>2. Depths = f[root_page_id]
        BY DEF Depths, IsBelow
      <3> HIDE DEF f
      <3>3. root_page_id \in NodePages
        BY <1>1, <2>4, WholeTree
      <3>4. Depths = {height[root_page_id]}
        BY <1>1, <2>4, <3>1, <3>2, <3>3, BelowUnique
      <3> QED BY <3>4, FS_Singleton
    <2> QED BY <2>2, <2>3, <2>4 DEF NodesSound
  <1>2. ASSUME Empty PROVE NodesSound
    BY <1>2, NoPages DEF NodesSound, Empty, Linked
  <1>3. TreeInv => NodesSound
    BY <1>1, <1>2 DEF TreeInv
  <1> QED BY <1>3, TreeKept, PTL

\* The function that LeafFor is defined with, and one that agrees with it on
\* the n lowest levels.
IsDown(f, k) ==
  f = [p \in NodePages |-> IF p \in LeafPages THEN p ELSE f[SearchChild(nodes[p], k)]]
DownTo(f, k, n, height) ==
  /\ f = [p \in NodePages |-> f[p]]
  /\ \A p \in NodePages : height[p] <= n =>
       f[p] = IF p \in LeafPages THEN p ELSE f[SearchChild(nodes[p], k)]

LEMMA DownExists ==
  ASSUME NEW cover, NEW height, Inv(cover, height), Linked, NEW k \in Nat
  PROVE  \E f : IsDown(f, k)
  <1> DEFINE T == {n \in Nat : \E f : DownTo(f, k, n, height)}
             child(p) == SearchChild(nodes[p], k)
  <1>0. /\ \A p \in NodePages : height[p] \in Nat /\ height[p] <= height[root_page_id]
        /\ root_page_id \in NodePages
        /\ \A p \in LeafPages : height[p] = 0
        /\ \A p \in NodePages \ LeafPages : child(p) \in NodePages /\ height[child(p)] + 1 = height[p]
    <2>1. /\ \A p \in BranchPages : child(p) \in NodePages /\ height[child(p)] + 1 = height[p]
          /\ BranchPages = NodePages \ LeafPages
      <3>1. pc # "unwind" /\ NodePages = NodesOf(nodes) /\ BranchPages = BranchesOf(nodes)
        BY WholeTree DEF Linked
      <3>2. \A p \in BranchesOf(nodes) : child(p) \in NodesOf(nodes) /\ height[child(p)] + 1 = height[p]
        BY <3>1, ChildIsNode
      <3> QED BY <3>1, <3>2 DEF BranchPages
    <2> QED BY <2>1, WholeTree
  <1> HIDE DEF child
  <1>1. 0 \in T
    <2> DEFINE f == [p \in NodePages |-> p]
    <2>1. f = [p \in NodePages |-> f[p]]
      OBVIOUS
    <2>2. ASSUME NEW p \in NodePages, height[p] <= 0 PROVE p \in LeafPages
      <3>1. ASSUME p \notin LeafPages PROVE FALSE
        <4>1. child(p) \in NodePages /\ height[child(p)] + 1 = height[p]
          BY <1>0, <3>1
        <4> QED BY <1>0, <2>2, <4>1
      <3> QED BY <3>1
    <2>3. \A p \in NodePages : height[p] <= 0 =>
            f[p] = IF p \in LeafPages THEN p ELSE f[SearchChild(nodes[p], k)]
      BY <2>2
    <2> HIDE DEF f
    <2>4. DownTo(f, k, 0, height)
      BY <2>1, <2>3 DEF DownTo
    <2> QED BY <2>4
  <1>2. ASSUME NEW n \in Nat, n \in T PROVE n + 1 \in T
    <2>1. PICK f : DownTo(f, k, n, height)
      BY <1>2
    <2> DEFINE g == [p \in NodePages |->
                       IF height[p] = n + 1 /\ p \notin LeafPages THEN f[child(p)] ELSE f[p]]
    <2>2. g = [p \in NodePages |-> g[p]]
      OBVIOUS
    <2>3. ASSUME NEW p \in NodePages, height[p] <= n + 1
          PROVE  g[p] = IF p \in LeafPages THEN p ELSE g[child(p)]
      <3>1. CASE p \in LeafPages
        BY <1>0, <2>1, <3>1 DEF DownTo
      <3>2. CASE p \notin LeafPages
        <4>1. child(p) \in NodePages /\ height[child(p)] + 1 = height[p]
              /\ height[p] \in Nat /\ height[child(p)] \in Nat
          BY <1>0, <3>2
        <4>2. height[child(p)] # n + 1
          BY <2>3, <4>1
        <4>3. g[child(p)] = f[child(p)]
          BY <4>1, <4>2
        <4>4. CASE height[p] = n + 1
          BY <3>2, <4>3, <4>4
        <4>5. CASE height[p] # n + 1
          <5>1. height[p] <= n
            BY <2>3, <4>1, <4>5
          <5>2. f[p] = f[child(p)]
            BY <2>1, <3>2, <5>1 DEF DownTo, child
          <5> QED BY <3>2, <4>3, <4>5, <5>2
        <4> QED BY <4>4, <4>5
      <3> QED BY <3>1, <3>2
    <2> HIDE DEF g
    <2>4. DownTo(g, k, n + 1, height)
      BY <2>2, <2>3 DEF DownTo, child
    <2> QED BY <2>4
  <1>3. Nat \subseteq T
    <2> HIDE DEF T
    <2> QED BY <1>1, <1>2, SetInduction
  <1>4. PICK f : DownTo(f, k, height[root_page_id], height)
    BY <1>0, <1>3
  <1>5. IsDown(f, k)
    <2> DEFINE g == [p \in NodePages |-> IF p \in LeafPages THEN p ELSE f[SearchChild(nodes[p], k)]]
    <2>1. \A p \in NodePages : f[p] = g[p]
      BY <1>0, <1>4 DEF DownTo
    <2>2. f = [p \in NodePages |-> f[p]] /\ g = [p \in NodePages |-> g[p]]
      BY <1>4 DEF DownTo
    <2> HIDE DEF g
    <2>3. f = g
      BY <2>1, <2>2
    <2> QED BY <2>3 DEF IsDown, g
  <1> QED BY <1>5

\* The way down ends at a leaf that covers what the page above covers.
LEMMA DownFinds ==
  ASSUME NEW cover, NEW height, Inv(cover, height), Linked, NEW k \in Nat,
         NEW f, IsDown(f, k)
  PROVE  \A p \in NodePages : k \in cover[p] => f[p] \in LeafPages /\ k \in cover[f[p]]
  <1> DEFINE child(p) == SearchChild(nodes[p], k)
             T == {n \in Nat : \A p \in NodePages : height[p] = n /\ k \in cover[p] =>
                                 f[p] \in LeafPages /\ k \in cover[f[p]]}
  <1>0. /\ \A p \in NodePages : height[p] \in Nat
        /\ \A p \in LeafPages : height[p] = 0 /\ p \in NodePages
        /\ \A p \in NodePages \ LeafPages :
              /\ child(p) \in NodePages /\ height[child(p)] + 1 = height[p]
              /\ k \in cover[p] => k \in cover[child(p)]
    <2>1. pc # "unwind" /\ NodePages = NodesOf(nodes) /\ BranchPages = BranchesOf(nodes)
      BY WholeTree DEF Linked
    <2>2. \A p \in BranchesOf(nodes) :
              /\ child(p) \in NodesOf(nodes) /\ height[child(p)] + 1 = height[p]
              /\ k \in cover[p] => k \in cover[child(p)]
      BY <2>1, ChildIsNode
    <2>3. BranchPages = NodePages \ LeafPages
      BY DEF BranchPages
    <2> QED BY <2>1, <2>2, <2>3, WholeTree
  <1> HIDE DEF child
  <1>1. ASSUME NEW p \in LeafPages PROVE f[p] = p
    BY <1>0 DEF IsDown
  <1>2. ASSUME NEW p \in NodePages \ LeafPages PROVE f[p] = f[child(p)]
    BY DEF IsDown, child
  <1>3. 0 \in T
    <2> SUFFICES ASSUME NEW p \in NodePages, height[p] = 0, k \in cover[p]
                 PROVE  f[p] \in LeafPages /\ k \in cover[f[p]]
      OBVIOUS
    <2>1. ASSUME p \notin LeafPages PROVE FALSE
      <3>1. child(p) \in NodePages /\ height[child(p)] + 1 = height[p]
        BY <1>0, <2>1
      <3> QED BY <1>0, <3>1
    <2> QED BY <1>1, <2>1
  <1>4. ASSUME NEW n \in Nat, n \in T PROVE n + 1 \in T
    <2> SUFFICES ASSUME NEW p \in NodePages, height[p] = n + 1, k \in cover[p]
                 PROVE  f[p] \in LeafPages /\ k \in cover[f[p]]
      OBVIOUS
    <2>1. p \notin LeafPages
      BY <1>0
    <2>2. child(p) \in NodePages /\ height[child(p)] + 1 = height[p] /\ k \in cover[child(p)]
      BY <1>0, <2>1
    <2>3. height[child(p)] = n
      BY <1>0, <2>2
    <2>4. f[child(p)] \in LeafPages /\ k \in cover[f[child(p)]]
      BY <1>4, <2>2, <2>3
    <2> QED BY <1>2, <2>1, <2>4
  <1>5. Nat \subseteq T
    <2> HIDE DEF T
    <2> QED BY <1>3, <1>4, SetInduction
  <1>6. ASSUME NEW p \in NodePages, k \in cover[p]
        PROVE  f[p] \in LeafPages /\ k \in cover[f[p]]
    <2>1. height[p] \in T
      BY <1>0, <1>5
    <2> QED BY <1>6, <2>1
  <1> QED BY <1>6

\* A search for a key that is in some leaf ends at that leaf: no split, failed
\* insert or new root hides a key that was inserted (insert_internal).
THEOREM KeysStayFound ==
  ASSUME "after_split" \notin Faults
  PROVE  Spec => []KeysFound
  <1>1. ASSUME NEW cover, NEW height, Inv(cover, height), Linked,
               NEW p \in LeafPages, NEW k \in Range(nodes[p].keys)
        PROVE  LeafFor(k) = p
    <2> DEFINE f == CHOOSE g : IsDown(g, k)
               q == f[root_page_id]
    <2>1. /\ LeafPages = LeavesOf(nodes) /\ root_page_id \in NodePages
          /\ cover[root_page_id] = Nat /\ \A x \in NodePages : cover[x] \subseteq Nat
          /\ LeafPages \subseteq NodePages
      BY <1>1, WholeTree
    <2>2. k \in cover[p] /\ k \in Nat
      BY <1>1, <2>1 DEF Inv, Levels
    <2>3. IsDown(f, k)
      BY <1>1, <2>2, DownExists
    <2>4. LeafFor(k) = q
      BY DEF LeafFor, IsDown
    <2> HIDE DEF f
    <2>5. q \in LeafPages /\ k \in cover[q]
      BY <1>1, <2>1, <2>2, <2>3, DownFinds
    <2> HIDE DEF q
    <2>6. p = q \/ Ahead(cover[p], cover[q]) \/ Ahead(cover[q], cover[p])
      BY <1>1, <2>1, <2>5, LeafOrder
    <2>7. p = q
      BY <2>2, <2>5, <2>6 DEF Ahead
    <2> QED BY <2>4, <2>7
  <1>2. ASSUME Empty PROVE KeysFound
    BY <1>2 DEF KeysFound, Empty, Linked
  <1>3. TreeInv => KeysFound
    BY <1>1, <1>2 DEF TreeInv, KeysFound
  <1> QED BY <1>3, TreeKept, PTL

=============================================================================

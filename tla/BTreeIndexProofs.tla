-------------------------- MODULE BTreeIndexProofs --------------------------
(***************************************************************************)
(* The B+tree implements the safety part of OrderedIndex: each step of it  *)
(* is a step of the index or leaves the index as it is.  The proofs follow *)
(* what a scan has still to return, as the keys of the leaves in the order *)
(* of what they cover.                                                     *)
(***************************************************************************)
EXTENDS BTreeProofs

-----------------------------------------------------------------------------
(* The leaves in their order.                                              *)

\* Leaves that cover disjoint intervals, linked in the order of these.
Chain(N, cover) ==
    /\ \A p \in LeavesOf(N) : /\ LeafSound(N, p)
                              /\ Range(N[p].keys) \subseteq cover[p]
                              /\ cover[p] \subseteq Nat /\ cover[p] # {}
    /\ \A p, q \in LeavesOf(N) : p = q \/ Ahead(cover[p], cover[q]) \/ Ahead(cover[q], cover[p])
    /\ Links(N, cover)

AllKeys(N) == UNION {Range(N[p].keys) : p \in LeavesOf(N)}
LeavesBehind(N, cover, p) == {q \in LeavesOf(N) : q # p /\ Ahead(cover[p], cover[q])}
KeysBehind(N, cover, p) == UNION {Range(N[q].keys) : q \in LeavesBehind(N, cover, p)}

\* The keys from a slot of leaf p on.
KeysAt(N, cover, p, slot) ==
    {N[p].keys[j] : j \in slot + 1 .. Len(N[p].keys)} \union KeysBehind(N, cover, p)

LEMMA ChainHolds ==
  ASSUME NEW N, NEW next, NEW meta, NEW root, NodesInv(N, next, meta, root),
         NEW W, NEW cover, NEW height, Levels(N, W, cover, height), Links(N, cover)
  PROVE  Chain(N, cover)
  <1>1. ASSUME NEW p \in LeavesOf(N)
        PROVE  /\ LeafSound(N, p) /\ Range(N[p].keys) \subseteq cover[p] /\ height[p] = 0
               /\ cover[p] \subseteq Nat /\ cover[p] # {} /\ p \in NodesOf(N)
    BY DEF NodesInv, Levels, Covering, NodesOf, LeavesOf
  <1>2. \A p, q \in LeavesOf(N) : p = q \/ Ahead(cover[p], cover[q]) \/ Ahead(cover[q], cover[p])
    BY <1>1 DEF Levels, Covering
  <1> QED BY <1>1, <1>2 DEF Chain

\* The keys of a leaf, and its place among the others.
LEMMA LeafInChain ==
  ASSUME NEW N, NEW cover, Chain(N, cover), NEW p \in LeavesOf(N)
  PROVE  /\ N[p].keys \in Seq(Keys) /\ N[p].keys \in Seq(Int)
         /\ Sorted(N[p].keys) /\ Len(N[p].keys) \in Nat
         /\ \A i \in 1 .. Len(N[p].keys) : N[p].keys[i] \in cover[p] /\ N[p].keys[i] \in Nat
         /\ Range(N[p].keys) = {N[p].keys[i] : i \in 1 .. Len(N[p].keys)}
         /\ Range(N[p].keys) \subseteq Keys
         /\ N[p].next_page_id \in LeavesOf(N) \union {INVALID_PAGE_ID}
         /\ ~Ahead(cover[p], cover[p])
  <1>1. N[p] \in LeafNodes /\ LeafSound(N, p)
    BY DEF Chain, LeavesOf
  <1> DEFINE s == N[p].keys
  <1>2. s \in Seq(Keys) /\ Sorted(s) /\ N[p].next_page_id \in LeavesOf(N) \union {INVALID_PAGE_ID}
    BY <1>1 DEF LeafNodes, LeafSound
  <1>3. Range(s) \subseteq cover[p] /\ cover[p] \subseteq Nat /\ cover[p] # {}
    BY DEF Chain
  <1> HIDE DEF s
  <1>4. DOMAIN s = 1 .. Len(s) /\ Len(s) \in Nat /\ \A i \in 1 .. Len(s) : s[i] \in Keys
    BY <1>2
  <1>5. Range(s) = {s[i] : i \in 1 .. Len(s)}
    BY <1>4 DEF Range
  <1>6. Range(s) \subseteq Keys
    BY <1>4, <1>5
  <1>7. \A i \in 1 .. Len(s) : s[i] \in cover[p] /\ s[i] \in Nat
    BY <1>3, <1>5
  <1>8. ~Ahead(cover[p], cover[p])
    BY <1>3 DEF Ahead
  <1>9. s \in Seq(Int)
    BY <1>2, KeysAreNats
  <1> QED BY <1>2, <1>4, <1>5, <1>6, <1>7, <1>8, <1>9 DEF s

\* What stands behind a leaf is what the next leaf and those behind it hold.
LEMMA BehindIsNext ==
  ASSUME NEW N, NEW cover, Chain(N, cover), NEW p \in LeavesOf(N)
  PROVE  /\ N[p].next_page_id = INVALID_PAGE_ID => LeavesBehind(N, cover, p) = {}
         /\ N[p].next_page_id # INVALID_PAGE_ID =>
              /\ N[p].next_page_id \in LeavesOf(N) /\ N[p].next_page_id # p
              /\ N[p].next_page_id \notin LeavesBehind(N, cover, N[p].next_page_id)
              /\ LeavesBehind(N, cover, p)
                   = {N[p].next_page_id} \union LeavesBehind(N, cover, N[p].next_page_id)
  <1> DEFINE L == LeavesOf(N)
             A(x, y) == Ahead(cover[x], cover[y])
             q == N[p].next_page_id
  <1>1. /\ \A x, y \in L : x = y \/ A(x, y) \/ A(y, x)
        /\ \A x \in L : ~A(x, x)
        /\ q \in L \union {INVALID_PAGE_ID}
    BY LeafInChain DEF Chain
  <1>2. \A x, y, z \in L : A(x, y) /\ A(y, z) => A(x, z)
    <2> SUFFICES ASSUME NEW x \in L, NEW y \in L, NEW z \in L, A(x, y), A(y, z)
                 PROVE  A(x, z)
      OBVIOUS
    <2>1. \A w \in L : cover[w] \subseteq Nat /\ cover[w] # {}
      BY DEF Chain
    <2>2. PICK b \in cover[y] : b \in Nat
      BY <2>1
    <2>3. ASSUME NEW a \in cover[x], NEW c \in cover[z] PROVE a < c
      <3>1. a < b /\ b < c
        BY <2>2 DEF Ahead
      <3>2. a \in Nat /\ b \in Nat /\ c \in Nat
        BY <2>1, <2>2
      <3> QED BY <3>1, <3>2
    <2> QED BY <2>3 DEF Ahead
  <1>3. \A y \in L : /\ q = y => A(p, y)
                     /\ p # y /\ A(p, y) => q # INVALID_PAGE_ID /\ (q = y \/ A(q, y))
    BY DEF Chain, Links
  <1> HIDE DEF L, A, q
  <1>4. \A x, y \in L : y \in LeavesBehind(N, cover, x) <=> x # y /\ A(x, y)
    BY DEF LeavesBehind, L, A
  <1>5. \A x \in L : LeavesBehind(N, cover, x) \subseteq L
    BY DEF LeavesBehind, L
  <1>6. p \in L
    BY DEF L
  <1>7. q = INVALID_PAGE_ID => LeavesBehind(N, cover, p) = {}
    BY <1>3, <1>4, <1>5, <1>6
  <1>8. ASSUME q # INVALID_PAGE_ID
        PROVE  /\ q \in L /\ q # p /\ q \notin LeavesBehind(N, cover, q)
               /\ LeavesBehind(N, cover, p) = {q} \union LeavesBehind(N, cover, q)
    <2>1. q \in L /\ q # p /\ A(p, q)
      BY <1>1, <1>3, <1>6, <1>8
    <2>2. q \notin LeavesBehind(N, cover, q)
      BY <1>1, <1>4, <2>1
    <2>3. ASSUME NEW y \in L
          PROVE  y \in LeavesBehind(N, cover, p) <=> y = q \/ y \in LeavesBehind(N, cover, q)
      <3>1. CASE y = q
        BY <1>4, <1>6, <2>1, <3>1
      <3>2. CASE y # q
        <4>1. A(q, y) => y # p
          BY <1>1, <1>2, <1>6, <2>1
        <4> QED BY <1>2, <1>3, <1>4, <1>6, <2>1, <3>2, <4>1
      <3> QED BY <3>1, <3>2
    <2> QED BY <1>5, <1>6, <2>1, <2>2, <2>3
  <1> QED BY <1>7, <1>8 DEF L, q

-----------------------------------------------------------------------------
(* What the links of a leaf lead to.                                       *)

\* The function that KeysFrom is defined with.
IsLinked(f, N, p) ==
    f = [q \in Pages({p}) \union LeavesOf(N) |->
           Range(N[q].keys) \union
             (IF N[q].next_page_id = INVALID_PAGE_ID THEN {} ELSE f[N[q].next_page_id])]

KeysLinked(N, p) == IF p = INVALID_PAGE_ID THEN {} ELSE (CHOOSE f : IsLinked(f, N, p))[p]

LEMMA LinkedExists ==
  ASSUME NEW N, NEW cover, Chain(N, cover), NEW p \in LeavesOf(N)
  PROVE  IsLinked([q \in LeavesOf(N) |-> Range(N[q].keys) \union KeysBehind(N, cover, q)], N, p)
  <1> DEFINE L == LeavesOf(N)
             f == [q \in L |-> Range(N[q].keys) \union KeysBehind(N, cover, q)]
             g == [q \in L |-> Range(N[q].keys) \union
                     (IF N[q].next_page_id = INVALID_PAGE_ID THEN {} ELSE f[N[q].next_page_id])]
  <1>1. Pages({p}) \union L = L
    BY DEF Pages
  <1>2. ASSUME NEW q \in L PROVE f[q] = g[q]
    <2> DEFINE n == N[q].next_page_id
    <2>1. CASE n = INVALID_PAGE_ID
      <3>1. KeysBehind(N, cover, q) = {}
        BY <2>1, BehindIsNext DEF KeysBehind
      <3> QED BY <2>1, <3>1
    <2>2. CASE n # INVALID_PAGE_ID
      <3>1. n \in L /\ LeavesBehind(N, cover, q) = {n} \union LeavesBehind(N, cover, n)
        BY <2>2, BehindIsNext
      <3> HIDE DEF n
      <3>2. KeysBehind(N, cover, q) = Range(N[n].keys) \union KeysBehind(N, cover, n)
        BY <3>1 DEF KeysBehind
      <3> QED BY <2>2, <3>1, <3>2 DEF n
    <2> QED BY <2>1, <2>2
  <1>3. f = g
    <2>1. f = [q \in L |-> f[q]] /\ g = [q \in L |-> g[q]]
      OBVIOUS
    <2> HIDE DEF f, g
    <2> QED BY <1>2, <2>1
  <1> HIDE DEF L
  <1> QED BY <1>1, <1>3 DEF IsLinked, L

LEMMA LinkedUnique ==
  ASSUME NEW N, NEW cover, Chain(N, cover), NEW p \in LeavesOf(N), NEW f, IsLinked(f, N, p)
  PROVE  \A q \in LeavesOf(N) : f[q] = Range(N[q].keys) \union KeysBehind(N, cover, q)
  <1> DEFINE L == LeavesOf(N)
             far(q) == Cardinality(LeavesBehind(N, cover, q))
             T == {n \in Nat : \A q \in L :
                     far(q) = n => f[q] = Range(N[q].keys) \union KeysBehind(N, cover, q)}
  <1>1. ASSUME NEW q \in L
        PROVE  f[q] = Range(N[q].keys) \union
                        (IF N[q].next_page_id = INVALID_PAGE_ID THEN {} ELSE f[N[q].next_page_id])
    BY DEF IsLinked, Pages
  <1>2. ASSUME NEW q \in L
        PROVE  /\ far(q) \in Nat
               /\ N[q].next_page_id # INVALID_PAGE_ID => far(q) = far(N[q].next_page_id) + 1
    <2>1. \A x : LeavesBehind(N, cover, x) \in SUBSET PageIds
      BY DEF LeavesBehind, LeavesOf
    <2>2. \A x : IsFiniteSet(LeavesBehind(N, cover, x)) /\ far(x) \in Nat
      BY <2>1, PageIdsFinite
    <2>3. ASSUME N[q].next_page_id # INVALID_PAGE_ID PROVE far(q) = far(N[q].next_page_id) + 1
      <3> DEFINE n == N[q].next_page_id
                 S == LeavesBehind(N, cover, n)
      <3>1. n \notin S /\ LeavesBehind(N, cover, q) = {n} \union S
        BY <2>3, BehindIsNext
      <3>2. IsFiniteSet(S)
        BY <2>2
      <3> HIDE DEF n, S
      <3>3. S \union {n} = {n} \union S
        OBVIOUS
      <3>4. Cardinality({n} \union S) = Cardinality(S) + 1
        BY <3>1, <3>2, <3>3, FS_AddElement
      <3> QED BY <3>1, <3>4 DEF n, S
    <2> QED BY <2>2, <2>3
  <1>3. ASSUME NEW q \in L, N[q].next_page_id = INVALID_PAGE_ID
        PROVE  f[q] = Range(N[q].keys) \union KeysBehind(N, cover, q)
    <2>1. KeysBehind(N, cover, q) = {}
      BY <1>3, BehindIsNext DEF KeysBehind
    <2> QED BY <1>1, <1>3, <2>1
  <1>4. ASSUME NEW q \in L, N[q].next_page_id # INVALID_PAGE_ID, NEW n, n = N[q].next_page_id,
               f[n] = Range(N[n].keys) \union KeysBehind(N, cover, n)
        PROVE  f[q] = Range(N[q].keys) \union KeysBehind(N, cover, q)
    <2>1. LeavesBehind(N, cover, q) = {n} \union LeavesBehind(N, cover, n)
      BY <1>4, BehindIsNext
    <2>2. KeysBehind(N, cover, q) = Range(N[n].keys) \union KeysBehind(N, cover, n)
      BY <2>1 DEF KeysBehind
    <2>3. f[q] = Range(N[q].keys) \union f[n]
      BY <1>1, <1>4
    <2> QED BY <1>4, <2>2, <2>3
  <1> HIDE DEF far
  <1>5. 0 \in T
    <2> SUFFICES ASSUME NEW q \in L, far(q) = 0
                 PROVE  f[q] = Range(N[q].keys) \union KeysBehind(N, cover, q)
      OBVIOUS
    <2>1. N[q].next_page_id = INVALID_PAGE_ID
      <3>1. ASSUME N[q].next_page_id # INVALID_PAGE_ID PROVE FALSE
        <4>1. N[q].next_page_id \in L
          BY <3>1, BehindIsNext
        <4>2. far(N[q].next_page_id) \in Nat /\ far(q) = far(N[q].next_page_id) + 1
          BY <1>2, <3>1, <4>1
        <4> QED BY <4>2
      <3> QED BY <3>1
    <2> QED BY <1>3, <2>1
  <1>6. ASSUME NEW m \in Nat, m \in T PROVE m + 1 \in T
    <2> SUFFICES ASSUME NEW q \in L, far(q) = m + 1
                 PROVE  f[q] = Range(N[q].keys) \union KeysBehind(N, cover, q)
      OBVIOUS
    <2>1. CASE N[q].next_page_id = INVALID_PAGE_ID
      BY <1>3, <2>1
    <2>2. CASE N[q].next_page_id # INVALID_PAGE_ID
      <3> DEFINE n == N[q].next_page_id
      <3>1. n \in L
        BY <2>2, BehindIsNext
      <3>2. far(n) \in Nat /\ far(q) = far(n) + 1
        BY <1>2, <2>2, <3>1
      <3> HIDE DEF n
      <3>3. far(n) = m
        BY <3>2
      <3>4. f[n] = Range(N[n].keys) \union KeysBehind(N, cover, n)
        BY <1>6, <3>1, <3>3
      <3> QED BY <1>4, <2>2, <3>4 DEF n
    <2> QED BY <2>1, <2>2
  <1>7. Nat \subseteq T
    <2> HIDE DEF T
    <2> QED BY <1>5, <1>6, SetInduction
  <1>8. ASSUME NEW q \in L PROVE f[q] = Range(N[q].keys) \union KeysBehind(N, cover, q)
    <2>1. far(q) \in T
      BY <1>2, <1>7
    <2> QED BY <2>1
  <1> QED BY <1>8

LEMMA LinkedKeys ==
  ASSUME NEW N, NEW cover, Chain(N, cover)
  PROVE  /\ KeysLinked(N, INVALID_PAGE_ID) = {}
         /\ \A p \in LeavesOf(N) : /\ KeysLinked(N, p) = Range(N[p].keys) \union KeysBehind(N, cover, p)
                                   /\ KeysLinked(N, N[p].next_page_id) = KeysBehind(N, cover, p)
  <1>1. KeysLinked(N, INVALID_PAGE_ID) = {}
    BY DEF KeysLinked
  <1>2. ASSUME NEW p \in LeavesOf(N)
        PROVE  KeysLinked(N, p) = Range(N[p].keys) \union KeysBehind(N, cover, p)
    <2> DEFINE f == CHOOSE g : IsLinked(g, N, p)
    <2>1. IsLinked(f, N, p)
      BY LinkedExists
    <2>2. p # INVALID_PAGE_ID
      BY PageIdsAreNats DEF LeavesOf
    <2>3. KeysLinked(N, p) = f[p]
      BY <2>2 DEF KeysLinked
    <2> HIDE DEF f
    <2>4. f[p] = Range(N[p].keys) \union KeysBehind(N, cover, p)
      BY <2>1, LinkedUnique
    <2> QED BY <2>3, <2>4
  <1>3. ASSUME NEW p \in LeavesOf(N)
        PROVE  KeysLinked(N, N[p].next_page_id) = KeysBehind(N, cover, p)
    <2> DEFINE n == N[p].next_page_id
    <2>1. CASE n = INVALID_PAGE_ID
      <3>1. KeysBehind(N, cover, p) = {}
        BY <2>1, BehindIsNext DEF KeysBehind
      <3> QED BY <1>1, <2>1, <3>1
    <2>2. CASE n # INVALID_PAGE_ID
      <3>1. n \in LeavesOf(N) /\ LeavesBehind(N, cover, p) = {n} \union LeavesBehind(N, cover, n)
        BY <2>2, BehindIsNext
      <3> HIDE DEF n
      <3>2. KeysBehind(N, cover, p) = Range(N[n].keys) \union KeysBehind(N, cover, n)
        BY <3>1 DEF KeysBehind
      <3>3. KeysLinked(N, n) = Range(N[n].keys) \union KeysBehind(N, cover, n)
        BY <1>2, <3>1
      <3> QED BY <3>2, <3>3 DEF n
    <2> QED BY <2>1, <2>2
  <1> QED BY <1>1, <1>2, <1>3

-----------------------------------------------------------------------------
(* What a scan returns from a slot of a leaf on.                           *)

\* Keys that follow one another to the last one.
UpIn(S, all) ==
    /\ S \subseteq all
    /\ \A k \in S, l \in all : k <= l => l \in S

LEMMA UpIsSuffix ==
  ASSUME NEW all, all \subseteq Nat, NEW S, UpIn(S, all)
  PROVE  S \in Index!Suffixes(all)
  <1>1. CASE S = {}
    BY <1>1 DEF Index!Suffixes
  <1>2. CASE S # {}
    <2>1. PICK k \in S : \A l \in S : k <= l
      <3>1. S \subseteq Nat /\ IsWellFoundedOn({ss \in Nat \X Nat : ss[1] < ss[2]}, Nat)
        BY NatIsWellFounded DEF UpIn
      <3> DEFINE R == {ss \in Nat \X Nat : ss[1] < ss[2]}
      <3>2. \E k \in S : \A l \in S : <<l, k>> \notin R
        <4> HIDE DEF R
        <4> QED BY <1>2, <3>1, WFMin DEF R
      <3>3. PICK k \in S : \A l \in S : <<l, k>> \notin R
        BY <3>2
      <3>4. \A l \in S : k <= l
        <4> TAKE l \in S
        <4>1. k \in Nat /\ l \in Nat /\ <<l, k>> \notin R
          BY <3>1, <3>3
        <4> QED BY <4>1
      <3> QED BY <3>4
    <2>2. S = {l \in all : l >= k}
      <3>1. \A l \in all : l \in Nat
        OBVIOUS
      <3> QED BY <2>1, <3>1 DEF UpIn
    <2>3. k \in all
      BY <2>1 DEF UpIn
    <2> QED BY <2>2, <2>3 DEF Index!Suffixes
  <1> QED BY <1>1, <1>2

LEMMA AllKeysAre ==
  ASSUME NEW N, NEW cover, Chain(N, cover)
  PROVE  AllKeys(N) \subseteq Keys /\ AllKeys(N) \subseteq Nat /\ NoKey \notin AllKeys(N)
  <1>1. \A p \in LeavesOf(N) : Range(N[p].keys) \subseteq Keys
    BY LeafInChain
  <1>2. AllKeys(N) \subseteq Keys
    BY <1>1 DEF AllKeys
  <1> QED BY <1>2, KeysAreNats, PageIdsAreNats

\* The keys behind a leaf are above what the leaf covers.
LEMMA BehindIsAbove ==
  ASSUME NEW N, NEW cover, Chain(N, cover), NEW p \in LeavesOf(N)
  PROVE  /\ KeysBehind(N, cover, p) \subseteq AllKeys(N)
         /\ \A k \in KeysBehind(N, cover, p), a \in cover[p] : a < k
  <1>1. \A q \in LeavesBehind(N, cover, p) :
          q \in LeavesOf(N) /\ Ahead(cover[p], cover[q]) /\ Range(N[q].keys) \subseteq cover[q]
    BY DEF LeavesBehind, Chain
  <1>2. KeysBehind(N, cover, p) \subseteq AllKeys(N)
    BY <1>1 DEF KeysBehind, AllKeys
  <1>3. ASSUME NEW k \in KeysBehind(N, cover, p), NEW a \in cover[p] PROVE a < k
    <2>1. PICK q \in LeavesBehind(N, cover, p) : k \in Range(N[q].keys)
      BY DEF KeysBehind
    <2> QED BY <1>1, <2>1 DEF Ahead
  <1> QED BY <1>2, <1>3

\* A key is in the leaf, behind it, or below what it covers.
LEMMA KeyIsSomewhere ==
  ASSUME NEW N, NEW cover, Chain(N, cover), NEW p \in LeavesOf(N), NEW k \in AllKeys(N)
  PROVE  \/ k \in Range(N[p].keys)
         \/ k \in KeysBehind(N, cover, p)
         \/ \A a \in cover[p] : k < a
  <1>1. PICK q \in LeavesOf(N) : k \in Range(N[q].keys)
    BY DEF AllKeys
  <1>2. k \in cover[q]
    BY <1>1 DEF Chain
  <1>3. p = q \/ Ahead(cover[p], cover[q]) \/ Ahead(cover[q], cover[p])
    BY DEF Chain
  <1>4. CASE p # q /\ Ahead(cover[p], cover[q])
    BY <1>1, <1>4 DEF KeysBehind, LeavesBehind
  <1>5. CASE Ahead(cover[q], cover[p])
    BY <1>2, <1>5 DEF Ahead
  <1> QED BY <1>1, <1>3, <1>4, <1>5

LEMMA KeysAtIsUp ==
  ASSUME NEW N, NEW cover, Chain(N, cover), NEW p \in LeavesOf(N), NEW slot \in Nat
  PROVE  UpIn(KeysAt(N, cover, p, slot), AllKeys(N))
  <1> DEFINE s == N[p].keys
             m == Len(s)
             K == KeysBehind(N, cover, p)
             S == {s[j] : j \in slot + 1 .. m}
  <1>1. /\ s \in Seq(Int) /\ Sorted(s) /\ m \in Nat
        /\ \A i \in 1 .. m : s[i] \in cover[p] /\ s[i] \in Nat
        /\ Range(s) = {s[i] : i \in 1 .. m}
    <2>1. s \in Seq(Int) /\ Sorted(s) /\ m \in Nat
      BY LeafInChain
    <2>2. \A i \in 1 .. m : s[i] \in cover[p] /\ s[i] \in Nat
      BY LeafInChain
    <2> QED BY <2>1, <2>2, RangeEquality
  <1>2. /\ K \subseteq AllKeys(N) /\ Range(s) \subseteq AllKeys(N) /\ AllKeys(N) \subseteq Nat
        /\ \A k \in K, a \in cover[p] : a < k
    BY BehindIsAbove, AllKeysAre DEF AllKeys
  <1>3. \A l \in AllKeys(N) : l \in Range(s) \/ l \in K \/ \A a \in cover[p] : l < a
    BY KeyIsSomewhere
  <1>4. KeysAt(N, cover, p, slot) = S \union K
    BY DEF KeysAt
  <1>5. \A q \in LeavesBehind(N, cover, p), r \in LeavesOf(N) :
           Ahead(cover[q], cover[r]) => r \in LeavesBehind(N, cover, p)
    <2> SUFFICES ASSUME NEW q \in LeavesBehind(N, cover, p), NEW r \in LeavesOf(N),
                        Ahead(cover[q], cover[r])
                 PROVE  r \in LeavesBehind(N, cover, p)
      OBVIOUS
    <2>1. q \in LeavesOf(N) /\ Ahead(cover[p], cover[q]) /\ p # q
      BY DEF LeavesBehind
    <2>2. \A x \in LeavesOf(N) : cover[x] \subseteq Nat /\ cover[x] # {}
      BY DEF Chain
    <2>3. PICK b \in cover[q] : b \in Nat
      BY <2>1, <2>2
    <2>4. Ahead(cover[p], cover[r])
      <3> SUFFICES ASSUME NEW a \in cover[p], NEW c \in cover[r] PROVE a < c
        BY DEF Ahead
      <3>1. a < b /\ b < c /\ a \in Nat /\ b \in Nat /\ c \in Nat
        BY <2>1, <2>2, <2>3 DEF Ahead
      <3> QED BY <3>1
    <2>5. ~Ahead(cover[p], cover[p])
      BY LeafInChain
    <2> QED BY <2>4, <2>5 DEF LeavesBehind
  <1>6. ASSUME NEW k \in K, NEW l \in AllKeys(N), k <= l PROVE l \in K
    <2>1. PICK q \in LeavesBehind(N, cover, p) : k \in Range(N[q].keys)
      BY DEF KeysBehind
    <2>2. PICK r \in LeavesOf(N) : l \in Range(N[r].keys)
      BY DEF AllKeys
    <2>3. q \in LeavesOf(N) /\ k \in cover[q] /\ l \in cover[r] /\ k \in Nat /\ l \in Nat
      BY <1>2, <2>1, <2>2 DEF LeavesBehind, Chain
    <2>4. q = r \/ Ahead(cover[q], cover[r]) \/ Ahead(cover[r], cover[q])
      BY <2>3 DEF Chain
    <2>5. ~Ahead(cover[r], cover[q])
      BY <1>6, <2>3 DEF Ahead
    <2>6. r \in LeavesBehind(N, cover, p)
      BY <1>5, <2>2, <2>4, <2>5
    <2> QED BY <2>2, <2>6 DEF KeysBehind
  <1> HIDE DEF s, K
  <1>7. ASSUME NEW k \in S, NEW l \in AllKeys(N), k <= l PROVE l \in S \union K
    <2>1. PICK j \in slot + 1 .. m : k = s[j]
      OBVIOUS
    <2>2. j \in 1 .. m /\ k \in cover[p] /\ k \in Nat /\ l \in Nat
      BY <1>1, <1>2, <2>1
    <2>3. CASE l \in Range(s)
      <3>1. PICK i \in 1 .. m : l = s[i]
        BY <1>1, <2>3
      <3>2. ASSUME i < j PROVE FALSE
        <4>1. s[i] < s[j]
          BY <1>1, <2>2, <3>1, <3>2, SortedPairs
        <4> QED BY <1>7, <2>1, <2>2, <3>1, <4>1
      <3>3. i \in slot + 1 .. m
        BY <1>1, <2>1, <2>2, <3>1, <3>2
      <3> QED BY <3>1, <3>3
    <2>4. CASE \A a \in cover[p] : l < a
      BY <1>7, <2>2, <2>4
    <2> QED BY <1>3, <2>3, <2>4
  <1>8. S \subseteq AllKeys(N)
    <2>1. \A j \in slot + 1 .. m : j \in 1 .. m
      BY <1>1
    <2>2. \A j \in slot + 1 .. m : s[j] \in Range(s)
      BY <1>1, <2>1
    <2> QED BY <1>2, <2>2
  <1> HIDE DEF S
  <1> QED BY <1>2, <1>4, <1>6, <1>7, <1>8 DEF UpIn

LEMMA KeysAtSlot ==
  ASSUME NEW N, NEW cover, Chain(N, cover), NEW p \in LeavesOf(N), NEW slot \in Nat
  PROVE  /\ slot >= Len(N[p].keys) => KeysAt(N, cover, p, slot) = KeysBehind(N, cover, p)
         /\ slot < Len(N[p].keys) =>
              /\ N[p].keys[slot + 1] \in KeysAt(N, cover, p, slot)
              /\ N[p].keys[slot + 1] \in Range(N[p].keys)
              /\ \A k \in KeysAt(N, cover, p, slot) : N[p].keys[slot + 1] <= k
              /\ KeysAt(N, cover, p, slot + 1) = KeysAt(N, cover, p, slot) \ {N[p].keys[slot + 1]}
  <1> DEFINE s == N[p].keys
             m == Len(s)
             K == KeysBehind(N, cover, p)
             first == s[slot + 1]
  <1>1. /\ s \in Seq(Int) /\ Sorted(s) /\ m \in Nat
        /\ \A i \in 1 .. m : s[i] \in cover[p] /\ s[i] \in Nat
        /\ Range(s) = {s[i] : i \in 1 .. m}
    <2>1. s \in Seq(Int) /\ Sorted(s) /\ m \in Nat
      BY LeafInChain
    <2>2. \A i \in 1 .. m : s[i] \in cover[p] /\ s[i] \in Nat
      BY LeafInChain
    <2> QED BY <2>1, <2>2, RangeEquality
  <1>2. /\ \A k \in K, a \in cover[p] : a < k
        /\ K \subseteq Nat
    BY BehindIsAbove, AllKeysAre
  <1>3. \A n : KeysAt(N, cover, p, n) = {s[j] : j \in n + 1 .. m} \union K
    BY DEF KeysAt
  <1> HIDE DEF s, K
  <1>4. ASSUME slot >= m PROVE KeysAt(N, cover, p, slot) = K
    <2>1. slot + 1 .. m = {}
      BY <1>1, <1>4
    <2> QED BY <1>3, <2>1
  <1>5. ASSUME slot < m
        PROVE  /\ first \in KeysAt(N, cover, p, slot) /\ first \in Range(s)
               /\ \A k \in KeysAt(N, cover, p, slot) : first <= k
               /\ KeysAt(N, cover, p, slot + 1) = KeysAt(N, cover, p, slot) \ {first}
    <2>1. /\ slot + 1 \in 1 .. m /\ slot + 1 \in slot + 1 .. m
          /\ slot + 1 .. m = {slot + 1} \union (slot + 1 + 1 .. m)
      BY <1>1, <1>5
    <2>2. first \in KeysAt(N, cover, p, slot) /\ first \in Range(s) /\ first \in Nat /\ first \in cover[p]
      BY <1>1, <1>3, <2>1
    <2>3. \A j \in slot + 1 + 1 .. m : first < s[j]
      <3> TAKE j \in slot + 1 + 1 .. m
      <3>1. j \in 1 .. m /\ slot + 1 < j
        BY <1>1
      <3> QED BY <1>1, <2>1, <3>1, SortedPairs
    <2>4. \A j \in slot + 1 + 1 .. m : s[j] \in Nat
      BY <1>1
    <2>5. \A k \in K : first < k /\ k \in Nat
      BY <1>2, <2>2
    <2>6. \A k \in KeysAt(N, cover, p, slot) : first <= k
      BY <1>3, <2>1, <2>2, <2>3, <2>4, <2>5
    <2>7. KeysAt(N, cover, p, slot + 1) = KeysAt(N, cover, p, slot) \ {first}
      <3> DEFINE S == {s[j] : j \in slot + 1 + 1 .. m}
      <3>1. {s[j] : j \in slot + 1 .. m} = {first} \union S
        BY <2>1
      <3>2. first \notin S /\ first \notin K
        BY <2>2, <2>3, <2>4, <2>5
      <3>3. /\ KeysAt(N, cover, p, slot) = ({first} \union S) \union K
            /\ KeysAt(N, cover, p, slot + 1) = S \union K
        BY <1>3, <3>1
      <3> HIDE DEF S, first
      <3> QED BY <3>2, <3>3
    <2> QED BY <2>2, <2>6, <2>7
  <1> QED BY <1>4, <1>5 DEF s, K

\* The step to the next leaf.
LEMMA BehindIsAtNext ==
  ASSUME NEW N, NEW cover, Chain(N, cover), NEW p \in LeavesOf(N)
  PROVE  /\ N[p].next_page_id = INVALID_PAGE_ID => KeysBehind(N, cover, p) = {}
         /\ N[p].next_page_id # INVALID_PAGE_ID =>
              KeysBehind(N, cover, p) = KeysAt(N, cover, N[p].next_page_id, 0)
  <1> DEFINE n == N[p].next_page_id
  <1>1. CASE n = INVALID_PAGE_ID
    BY <1>1, BehindIsNext DEF KeysBehind
  <1>2. CASE n # INVALID_PAGE_ID
    <2>1. n \in LeavesOf(N) /\ LeavesBehind(N, cover, p) = {n} \union LeavesBehind(N, cover, n)
      BY <1>2, BehindIsNext
    <2> HIDE DEF n
    <2>2. KeysBehind(N, cover, p) = Range(N[n].keys) \union KeysBehind(N, cover, n)
      BY <2>1 DEF KeysBehind
    <2>3. Range(N[n].keys) = {N[n].keys[i] : i \in 1 .. Len(N[n].keys)}
      <3>1. N[n].keys \in Seq(Int)
        BY <2>1, LeafInChain
      <3> QED BY <3>1, RangeEquality
    <2>4. KeysAt(N, cover, n, 0) = Range(N[n].keys) \union KeysBehind(N, cover, n)
      BY <2>3 DEF KeysAt
    <2> QED BY <1>2, <2>2, <2>4 DEF n
  <1> QED BY <1>1, <1>2

\* Where a search for k starts the scan.
LEMMA KeysFromSearch ==
  ASSUME NEW N, NEW cover, Chain(N, cover), NEW p \in LeavesOf(N), NEW k \in cover[p]
  PROVE  /\ SlotOf(N[p].keys, k) \in 0 .. Len(N[p].keys)
         /\ KeysAt(N, cover, p, SlotOf(N[p].keys, k)) = {l \in AllKeys(N) : l >= k}
  <1> DEFINE s == N[p].keys
             m == Len(s)
             slot == SlotOf(s, k)
             K == KeysBehind(N, cover, p)
  <1>1. /\ s \in Seq(Int) /\ Sorted(s) /\ m \in Nat
        /\ \A i \in 1 .. m : s[i] \in cover[p] /\ s[i] \in Nat
        /\ Range(s) = {s[i] : i \in 1 .. m}
    <2>1. s \in Seq(Int) /\ Sorted(s) /\ m \in Nat
      BY LeafInChain
    <2>2. \A i \in 1 .. m : s[i] \in cover[p] /\ s[i] \in Nat
      BY LeafInChain
    <2> QED BY <2>1, <2>2, RangeEquality
  <1>2. k \in Nat /\ k \in Int
    BY DEF Chain
  <1>3. /\ \A l \in K, a \in cover[p] : a < l
        /\ K \subseteq AllKeys(N) /\ AllKeys(N) \subseteq Nat /\ Range(s) \subseteq AllKeys(N)
    BY BehindIsAbove, AllKeysAre DEF AllKeys
  <1>4. \A l \in AllKeys(N) : l \in Range(s) \/ l \in K \/ \A a \in cover[p] : l < a
    BY KeyIsSomewhere
  <1>5. \A n : KeysAt(N, cover, p, n) = {s[j] : j \in n + 1 .. m} \union K
    BY DEF KeysAt
  <1> HIDE DEF s, K
  <1>6. slot \in 0 .. m /\ Splits(slot, s, m, k)
    BY <1>1, <1>2, SlotOfSplits
  <1> HIDE DEF slot
  <1>7. \A i \in 1 .. m : s[i] < k <=> i <= slot
    BY <1>6 DEF Splits
  <1>8. ASSUME NEW l \in KeysAt(N, cover, p, slot) PROVE l \in AllKeys(N) /\ l >= k
    <2>1. CASE l \in K
      BY <1>2, <1>3, <2>1
    <2>2. CASE l \in {s[j] : j \in slot + 1 .. m}
      <3>1. PICK j \in slot + 1 .. m : l = s[j]
        BY <2>2
      <3>2. j \in 1 .. m /\ ~(j <= slot)
        BY <1>1, <1>6
      <3> QED BY <1>1, <1>2, <1>3, <1>7, <3>1, <3>2
    <2> QED BY <1>5, <2>1, <2>2
  <1>9. ASSUME NEW l \in AllKeys(N), l >= k PROVE l \in KeysAt(N, cover, p, slot)
    <2>1. CASE l \in Range(s)
      <3>1. PICK i \in 1 .. m : l = s[i]
        BY <1>1, <2>1
      <3>2. ~(i <= slot)
        BY <1>1, <1>2, <1>7, <1>9, <3>1
      <3>3. i \in slot + 1 .. m
        BY <1>1, <1>6, <3>1, <3>2
      <3> QED BY <1>5, <3>1, <3>3
    <2>2. CASE \A a \in cover[p] : l < a
      <3>1. l < k /\ l \in Nat
        BY <1>3, <2>2
      <3> QED BY <1>2, <1>9, <3>1
    <2> QED BY <1>4, <1>5, <2>1, <2>2
  <1>10. KeysAt(N, cover, p, slot) = {l \in AllKeys(N) : l >= k}
    BY <1>8, <1>9
  <1> QED BY <1>6, <1>10 DEF slot, s

LEMMA MinIs ==
  ASSUME NEW S, S \subseteq Nat, NEW k \in S, \A l \in S : k <= l
  PROVE  Index!Min(S) = k
  <1>1. \A m \in S : (\A l \in S : m <= l) => m = k
    OBVIOUS
  <1> QED BY <1>1 DEF Index!Min

-----------------------------------------------------------------------------
(* What the tree shows of the index.                                       *)

KeySet == UNION {Range(nodes[p].keys) : p \in LeafPages}
Left == IF Scan = "open" THEN Remaining ELSE {}
GapNow == Scan = "open" /\ Gap

LEMMA IndexVars ==
  Index!vars = <<KeySet, Doing, key, result, value, Scan, Left, GapNow>>
  BY DEF Index!vars, KeySet, Left, GapNow

\* What a scan that is open shows.
OpenView(cover) ==
    /\ Left = KeysAt(nodes, cover, iter.page, iter.slot_id) \union ({pair} \ {NoKey})
    /\ GapNow <=> IF pc = "advance" THEN pair = NoKey
                  ELSE /\ iter.slot_id >= Len(nodes[iter.page].keys)
                       /\ nodes[iter.page].next_page_id # INVALID_PAGE_ID

View(cover) ==
    /\ KeySet = AllKeys(nodes)
    /\ Scan = "open" <=> iter # NoIter /\ pc # "open_advance"
    /\ Scan = "closed" <=> ~(iter # NoIter /\ pc # "open_advance")
    /\ Scan = "closed" => Left = {} /\ ~GapNow
    /\ Scan = "open" => OpenView(cover)

LEMMA InvView ==
  \A cover, height : Inv(cover, height) => View(cover) /\ Chain(nodes, cover)
  <1> SUFFICES ASSUME NEW cover, NEW height, Inv(cover, height)
               PROVE  View(cover) /\ Chain(nodes, cover)
    OBVIOUS
  <1>1. Chain(nodes, cover)
    BY ChainHolds DEF Inv
  <1>2. LeafPages = LeavesOf(nodes)
    BY PagesAre
  <1>3. KeySet = AllKeys(nodes)
    BY <1>2 DEF KeySet, AllKeys
  <1>4. ASSUME iter # NoIter, pc # "open_advance"
        PROVE  Scan = "open" /\ OpenView(cover)
    <2> DEFINE s == IterLeaf.keys
               n == IterLeaf.next_page_id
    <2>1. iter.page \in LeavesOf(nodes) /\ iter.slot_id \in Nat /\ IterLeaf = nodes[iter.page]
      BY <1>4, LeafOfIter DEF IterLeaf
    <2>2. Scan = "open"
      BY <1>4 DEF Scan
    <2>3. \A p : KeysFrom(p) = KeysLinked(nodes, p)
      BY <1>2 DEF KeysFrom, KeysLinked, IsLinked
    <2>4. KeysFrom(n) = KeysBehind(nodes, cover, iter.page)
      BY <1>1, <2>1, <2>3, LinkedKeys
    <2>5. s \in Seq(Keys) /\ Len(s) \in Nat
      BY <1>1, <2>1, LeafInChain
    <2>6. Range(SubSeq(s, iter.slot_id + 1, Len(s))) = {s[j] : j \in iter.slot_id + 1 .. Len(s)}
      <3> HIDE DEF s
      <3> DEFINE i == iter.slot_id + 1
                 r == SubSeq(s, i, Len(s))
      <3>1. i \in Nat /\ i >= 1
        BY <2>1
      <3> HIDE DEF i
      <3>2. \A j \in i .. Len(s) : s[j] \in Keys
        BY <2>5, <3>1
      <3>3. /\ Len(r) = IF i <= Len(s) THEN Len(s) - i + 1 ELSE 0
            /\ \A j \in 1 .. Len(s) - i + 1 : r[j] = s[i + j - 1]
            /\ r \in Seq(Keys)
        BY <2>5, <3>1, <3>2, SubSeqProperties
      <3>4. DOMAIN r = 1 .. Len(r)
        BY <3>3
      <3> HIDE DEF r
      <3>5. ASSUME NEW k \in Range(r) PROVE k \in {s[j] : j \in i .. Len(s)}
        <4>1. PICK j \in 1 .. Len(r) : k = r[j]
          BY <3>4 DEF Range
        <4>2. j \in 1 .. Len(s) - i + 1 /\ i + j - 1 \in i .. Len(s)
          BY <2>5, <3>1, <3>3, <4>1
        <4> QED BY <3>3, <4>1, <4>2
      <3>6. ASSUME NEW j \in i .. Len(s) PROVE s[j] \in Range(r)
        <4>1. j - i + 1 \in 1 .. Len(s) - i + 1 /\ i + (j - i + 1) - 1 = j /\ j - i + 1 \in 1 .. Len(r)
          BY <2>5, <3>1, <3>3
        <4>2. r[j - i + 1] = s[j]
          BY <3>3, <4>1
        <4> QED BY <3>4, <4>1, <4>2 DEF Range
      <3> QED BY <3>5, <3>6 DEF r, i
    <2>7. Left = KeysAt(nodes, cover, iter.page, iter.slot_id) \union ({pair} \ {NoKey})
      BY <2>1, <2>2, <2>4, <2>6 DEF Left, Remaining, KeysAt
    <2>8. GapNow <=> Gap
      BY <2>2 DEF GapNow
    <2> QED BY <2>1, <2>2, <2>7, <2>8 DEF OpenView, Gap
  <1>5. ASSUME ~(iter # NoIter /\ pc # "open_advance")
        PROVE  Scan = "closed" /\ Left = {} /\ ~GapNow
    BY <1>5 DEF Scan, Left, GapNow
  <1> QED BY <1>1, <1>3, <1>4, <1>5 DEF View

LEMMA InvViewNext ==
  (\A cover, height : Inv(cover, height) => View(cover) /\ Chain(nodes, cover))'
  BY InvView, PTL

\* What else a scan keeps: its start is where the search for it leads to, and
\* the pair that get has returned was the last one of its leaf.
ScanInv(cover) ==
    /\ pc # "advance" => pair = NoKey
    /\ pc \in {"search_meta", "search_root", "search"} => iter = NoIter
    /\ pc = "search" => key \in cover[Top]
    /\ pc = "open_advance" => /\ key \in cover[iter.page]
                              /\ \A k \in Range(IterLeaf.keys) : k < key
    /\ pc = "advance" => /\ iter.slot_id >= Len(IterLeaf.keys)
                         /\ pair = NoKey \/ pair \in Range(IterLeaf.keys)

Scanned == \E cover, height : Inv(cover, height) /\ ScanInv(cover)
IndexInv == Empty \/ Scanned

\* A leaf that another one leads to is not empty.
LEMMA NextHasKeys ==
  ASSUME NEW cover, NEW height, Inv(cover, height), NEW p \in LeavesOf(nodes),
         NEW q \in LeavesOf(nodes), nodes[p].next_page_id = q
  PROVE  Len(nodes[q].keys) > 0
  <1>1. Chain(nodes, cover) /\ q # p
    BY InvView, BehindIsNext, PageIdsAreNats DEF LeavesOf
  <1> DEFINE s == nodes[q].keys
  <1>2. s \in Seq(Int) /\ Len(s) \in Nat
    BY <1>1, LeafInChain
  <1>3. ASSUME s = <<>> PROVE FALSE
    <2>1. q = root_page_id /\ pc # "unwind"
      BY <1>3 DEF Inv, EmptyInv
    <2>2. cover[q] = Nat
      BY <2>1 DEF Inv, RootInv, SplitRoot
    <2>3. cover[p] # {} /\ cover[p] \subseteq Nat /\ (Ahead(cover[p], cover[q]) \/ Ahead(cover[q], cover[p]))
      BY <1>1 DEF Chain
    <2>4. PICK a \in cover[p] : a \in cover[q] /\ a \in Nat
      BY <2>2, <2>3
    <2> QED BY <2>3, <2>4 DEF Ahead
  <1> HIDE DEF s
  <1>4. Len(s) # 0
    BY <1>2, <1>3
  <1>5. Len(s) > 0
    BY <1>2, <1>4
  <1> QED BY <1>5 DEF s

LEMMA BothViews ==
  ASSUME NEW cover, NEW height, Inv(cover, height), NEW c, NEW h, Inv(c, h)'
  PROVE  /\ View(cover) /\ Chain(nodes, cover)
         /\ View(c)' /\ Chain(nodes', c)
         /\ GapNow \in BOOLEAN /\ GapNow' \in BOOLEAN
  <1>1. View(cover) /\ Chain(nodes, cover)
    BY InvView
  <1>2. View(c)' /\ Chain(nodes', c)
    BY InvViewNext
  <1> QED BY <1>1, <1>2 DEF GapNow, Gap

\* The same tree, with the scan at the same place.
LEMMA SameView ==
  ASSUME NEW cover, NEW height, Inv(cover, height), Inv(cover, height)',
         nodes' = nodes, UNCHANGED <<iter, pair>>,
         pc \notin {"advance", "open_advance"}, pc' \notin {"advance", "open_advance"}
  PROVE  KeySet' = KeySet /\ Scan' = Scan /\ Left' = Left /\ GapNow' = GapNow
  <1>1. View(cover) /\ View(cover)' /\ GapNow \in BOOLEAN /\ GapNow' \in BOOLEAN
    BY BothViews
  <1>2. KeySet' = KeySet
    BY <1>1 DEF View
  <1>3. Scan' = Scan
    BY DEF Scan
  <1>4. CASE iter = NoIter
    BY <1>1, <1>2, <1>3, <1>4 DEF View
  <1>5. CASE iter # NoIter
    <2>1. OpenView(cover) /\ OpenView(cover)'
      BY <1>1, <1>5 DEF View
    <2>2. Left' = Left
      BY <2>1 DEF OpenView
    <2>3. GapNow' <=> GapNow
      BY <2>1 DEF OpenView
    <2> QED BY <1>1, <1>2, <1>3, <2>2, <2>3
  <1> QED BY <1>4, <1>5

LEMMA StutterOfIndex ==
  ASSUME KeySet' = KeySet, Scan' = Scan, Left' = Left, GapNow' = GapNow,
         Doing' = Doing, UNCHANGED <<key, result, value>>
  PROVE  UNCHANGED Index!vars
  BY DEF Index!vars, KeySet, Left, GapNow

-----------------------------------------------------------------------------
(* Steps that the index does not show.                                     *)

LEMMA DescentIsQuiet ==
  ASSUME NEW cover, NEW height, Inv(cover, height), ScanInv(cover),
         FetchMeta \/ FetchRoot \/ FetchChild \/ FetchPrev \/ HasNoPrev
  PROVE  Scanned' /\ UNCHANGED Index!vars
  <1>1. Inv(cover, height)'
    BY FetchMetaKeeps, FetchRootKeeps, FetchChildKeeps, FetchPrevKeeps, HasNoPrevKeeps
  <1>2. /\ pc \in {"meta", "root", "descend"} /\ pc' \in {"root", "descend", "split"}
        /\ UNCHANGED <<nodes, iter, pair, key, result, value>>
    BY DEF FetchMeta, FetchRoot, FetchChild, Fetch, FetchPrev, HasNoPrev, LeafIsFull,
           AtInsertLeaf, tree, call
  <1>3. ScanInv(cover)'
    BY <1>2 DEF ScanInv
  <1>4. Doing' = Doing
    BY <1>2 DEF Doing
  <1>5. KeySet' = KeySet /\ Scan' = Scan /\ Left' = Left /\ GapNow' = GapNow
    BY <1>1, <1>2, SameView
  <1>6. UNCHANGED Index!vars
    BY <1>2, <1>4, <1>5, StutterOfIndex
  <1> QED BY <1>1, <1>3, <1>6 DEF Scanned

LEMMA SearchIsQuiet ==
  ASSUME NEW cover, NEW height, Inv(cover, height), ScanInv(cover),
         SearchMeta \/ SearchRoot \/ SearchChildPage
  PROVE  Scanned' /\ UNCHANGED Index!vars
  <1>1. Inv(cover, height)'
    BY SearchMetaKeeps, SearchRootKeeps, SearchChildPageKeeps
  <1>2. /\ pc \in {"search_meta", "search_root", "search"} /\ pc' \in {"search_root", "search"}
        /\ UNCHANGED <<nodes, iter, pair, key, result, value>>
    BY DEF SearchMeta, SearchRoot, SearchChildPage, FetchAlone, tree, call
  <1>3. pc' = "search" => key \in cover[Top']
    <2>1. key \in Nat
      <3>1. key \in Keys \union {0}
        BY <1>2 DEF Inv, CallInv
      <3> QED BY <3>1, KeysAreNats
    <2>2. CASE SearchRoot
      <3>1. pc = "search_root" /\ path' = <<root_page_id>>
        BY <2>2 DEF SearchRoot, FetchAlone
      <3>2. Top' = root_page_id
        BY <3>1 DEF Top, Last
      <3>3. cover[root_page_id] = Nat
        BY <3>1 DEF Inv, RootInv, SplitRoot
      <3> QED BY <2>1, <3>2, <3>3
    <2>3. CASE SearchChildPage
      <3>1. pc = "search" /\ AtBranch /\ path' = <<SearchChild(nodes[Top], key)>>
        BY <2>3 DEF SearchChildPage, FetchAlone, Node
      <3>2. Top' = SearchChild(nodes[Top], key)
        BY <3>1 DEF Top, Last
      <3>3. key \in cover[Top] /\ Top \in BranchesOf(nodes)
        BY <3>1, Searching DEF ScanInv
      <3> QED BY <2>1, <3>1, <3>2, <3>3, ChildIsNode
    <2>4. CASE SearchMeta
      BY <2>4 DEF SearchMeta
    <2> QED BY <2>2, <2>3, <2>4
  <1>4. ScanInv(cover)'
    BY <1>2, <1>3 DEF ScanInv
  <1>5. Doing' = Doing
    BY <1>2 DEF Doing
  <1>6. KeySet' = KeySet /\ Scan' = Scan /\ Left' = Left /\ GapNow' = GapNow
    BY <1>1, <1>2, SameView
  <1>7. UNCHANGED Index!vars
    BY <1>2, <1>5, <1>6, StutterOfIndex
  <1> QED BY <1>1, <1>4, <1>7 DEF Scanned

-----------------------------------------------------------------------------
(* Calls begin, scans are closed, and calls fail.                          *)

LEMMA BeginIsBegin ==
  ASSUME NEW cover, NEW height, Inv(cover, height), ScanInv(cover),
         BeginInsert \/ BeginSearch \/ BeginNext
  PROVE  Scanned' /\ Index!Next
  <1>1. Inv(cover, height)'
    BY BeginKeeps
  <1>2. /\ pc = "idle" /\ pc' \in {"meta", "search_meta", "next"}
        /\ UNCHANGED <<nodes, iter, pair, value>>
        /\ pc' = "search_meta" => iter = NoIter
        /\ result' = "none" /\ Doing = "nothing"
    BY DEF BeginInsert, BeginSearch, BeginNext, tree, call, Doing
  <1>3. ScanInv(cover)'
    BY <1>2 DEF ScanInv
  <1>4. KeySet' = KeySet /\ Scan' = Scan /\ Left' = Left /\ GapNow' = GapNow
    BY <1>1, <1>2, SameView
  <1>5. CASE BeginInsert
    <2>1. Doing' = "insert" /\ key' \in Keys
      BY <1>5 DEF BeginInsert, Doing
    <2>2. Index!BeginInsert
      BY <1>2, <1>4, <2>1 DEF Index!BeginInsert, KeySet, Left, GapNow
    <2> QED BY <1>1, <1>3, <2>2 DEF Scanned, Index!Next
  <1>6. CASE BeginSearch
    <2>1. Doing' = "search" /\ key' \in Keys \union {0} /\ iter = NoIter
      BY <1>6 DEF BeginSearch, Doing
    <2>2. Scan = "closed"
      BY <2>1 DEF Scan
    <2>3. Index!BeginSearch
      BY <1>2, <1>4, <2>1, <2>2 DEF Index!BeginSearch, KeySet, Left, GapNow
    <2> QED BY <1>1, <1>3, <2>3 DEF Scanned, Index!Next
  <1>7. CASE BeginNext
    <2>1. Doing' = "next" /\ key' = key /\ iter # NoIter
      BY <1>7 DEF BeginNext, Doing, call
    <2>2. Scan = "open"
      BY <1>2, <2>1 DEF Scan
    <2>3. Index!BeginNext
      BY <1>2, <1>4, <2>1, <2>2 DEF Index!BeginNext, KeySet, Left, GapNow
    <2> QED BY <1>1, <1>3, <2>3 DEF Scanned, Index!Next
  <1> QED BY <1>5, <1>6, <1>7

LEMMA DropIsClose ==
  ASSUME NEW cover, NEW height, Inv(cover, height), ScanInv(cover), DropIter
  PROVE  Scanned' /\ Index!Next
  <1>1. Inv(cover, height)'
    BY BeginKeeps
  <1>2. /\ pc = "idle" /\ pc' = "idle" /\ iter # NoIter /\ iter' = NoIter
        /\ UNCHANGED <<nodes, pair, value, key, result>>
        /\ Doing = "nothing" /\ Doing' = "nothing"
    BY DEF DropIter, tree, call, Doing
  <1>3. ScanInv(cover)'
    BY <1>2 DEF ScanInv
  <1>4. View(cover) /\ View(cover)'
    BY <1>1, BothViews
  <1>5. Scan = "open" /\ Scan' = "closed"
    BY <1>2 DEF Scan
  <1>6. KeySet' = KeySet /\ Left' = {} /\ GapNow' = FALSE
    BY <1>2, <1>4, <1>5 DEF View
  <1>7. Index!Close
    BY <1>2, <1>5, <1>6 DEF Index!Close, KeySet, Left, GapNow
  <1> QED BY <1>1, <1>3, <1>7 DEF Scanned, Index!Next

LEMMA ForeignIsQuiet ==
  ASSUME NEW cover, NEW height, Inv(cover, height), ScanInv(cover), SetForeign
  PROVE  Scanned' /\ UNCHANGED Index!vars
  <1>1. Inv(cover, height)'
    BY BeginKeeps
  <1>2. /\ pc = "idle" /\ pc' = "idle"
        /\ UNCHANGED <<nodes, iter, pair, key, result, value>>
    BY DEF SetForeign, tree, call, Inv, CallInv
  <1>3. ScanInv(cover)' /\ Doing' = Doing
    BY <1>2 DEF ScanInv, Doing
  <1>4. KeySet' = KeySet /\ Scan' = Scan /\ Left' = Left /\ GapNow' = GapNow
    BY <1>1, <1>2, SameView
  <1>5. UNCHANGED Index!vars
    BY <1>2, <1>3, <1>4, StutterOfIndex
  <1> QED BY <1>1, <1>3, <1>5 DEF Scanned

LEMMA RejectIsReject ==
  ASSUME NEW cover, NEW height, Inv(cover, height), ScanInv(cover), RejectDuplicate
  PROVE  Scanned' /\ Index!Next
  <1>1. Inv(cover, height)'
    BY RejectDuplicateKeeps
  <1>2. /\ pc = "descend" /\ AtLeaf /\ Holds(Node.keys, key)
        /\ pc' = "idle" /\ result' = "DuplicateKey" /\ key' = NoKey /\ pair' = NoKey
        /\ UNCHANGED <<nodes, iter, value>>
    BY DEF RejectDuplicate, AtInsertLeaf, Return, tree
  <1>3. ScanInv(cover)' /\ pair' = pair
    BY <1>2 DEF ScanInv
  <1>4. Doing = "insert" /\ Doing' = "nothing"
    BY <1>2 DEF Doing
  <1>5. KeySet' = KeySet /\ Scan' = Scan /\ Left' = Left /\ GapNow' = GapNow
    BY <1>1, <1>2, <1>3, SameView
  <1>6. key \in KeySet
    <2>1. Top \in LeavesOf(nodes) /\ Chain(nodes, cover) /\ KeySet = AllKeys(nodes)
      BY <1>1, <1>2, OnTheWay, BothViews DEF View
    <2>2. PICK i \in DOMAIN nodes[Top].keys : nodes[Top].keys[i] = key
      BY <1>2 DEF Holds, Node
    <2>3. key \in Range(nodes[Top].keys)
      BY <2>2 DEF Range
    <2> QED BY <2>1, <2>3 DEF AllKeys
  <1>7. Index!RejectDuplicate
    BY <1>2, <1>4, <1>5, <1>6 DEF Index!RejectDuplicate, Index!Return, KeySet, Left, GapNow
  <1> QED BY <1>1, <1>3, <1>7 DEF Scanned, Index!Next

\* When the last pair of a leaf is got, what is left is that pair and what
\* stands behind the leaf.
LEMMA AtAdvance ==
  ASSUME NEW cover, NEW height, Inv(cover, height), ScanInv(cover), pc = "advance"
  PROVE  /\ Scan = "open" /\ iter.page \in LeavesOf(nodes) /\ iter.slot_id \in Nat
         /\ IterLeaf = nodes[iter.page] /\ nodes[iter.page].next_page_id \in LeavesOf(nodes)
         /\ Left \ {Index!NextKey} = KeysBehind(nodes, cover, iter.page)
         /\ Index!NextKey = pair /\ Index!Rest = KeysBehind(nodes, cover, iter.page)
  <1>1. /\ iter # NoIter /\ IterLeaf.next_page_id # INVALID_PAGE_ID
        /\ iter.slot_id >= Len(IterLeaf.keys)
        /\ pair = NoKey \/ pair \in Range(IterLeaf.keys)
    BY DEF Inv, CallInv, ScanInv
  <1>2. iter.page \in LeavesOf(nodes) /\ iter.slot_id \in Nat /\ IterLeaf = nodes[iter.page]
        /\ IterLeaf.next_page_id \in LeavesOf(nodes)
    BY <1>1, LeafOfIter DEF IterLeaf
  <1> DEFINE B == KeysBehind(nodes, cover, iter.page)
  <1>3. Chain(nodes, cover) /\ View(cover)
    BY InvView
  <1>4. Scan = "open" /\ Left = B \union ({pair} \ {NoKey}) /\ (GapNow <=> pair = NoKey)
    BY <1>1, <1>2, <1>3, KeysAtSlot DEF View, OpenView
  <1>5. B \subseteq Nat /\ NoKey \notin B /\ \A k \in B, a \in cover[iter.page] : a < k
    BY <1>2, <1>3, BehindIsAbove, AllKeysAre
  <1>6. Index!NextKey = IF GapNow \/ Left = {} THEN NoKey ELSE Index!Min(Left)
    BY DEF Index!NextKey, GapNow, Left
  <1>7. Index!Rest = Left \ {Index!NextKey}
    BY DEF Index!Rest, Left
  <1> HIDE DEF B
  <1>8. CASE pair = NoKey
    <2>1. Index!NextKey = NoKey
      BY <1>4, <1>6, <1>8
    <2>2. Left \ {Index!NextKey} = B
      BY <1>4, <1>5, <1>8, <2>1
    <2> QED BY <1>2, <1>4, <1>7, <1>8, <2>1, <2>2 DEF B
  <1>9. CASE pair # NoKey
    <2>1. pair \in cover[iter.page] /\ pair \in Nat
      BY <1>1, <1>2, <1>3, <1>9 DEF Chain
    <2>2. \A k \in B : pair < k /\ k \in Nat
      BY <1>5, <2>1
    <2> DEFINE left == Left
    <2>3. left = B \union {pair}
      BY <1>4, <1>9
    <2> HIDE DEF left
    <2>6. left \subseteq Nat /\ pair \in left /\ \A k \in left : pair <= k
      BY <2>1, <2>2, <2>3
    <2>7. Index!Min(left) = pair /\ left # {}
      BY <2>6, MinIs
    <2>4. Index!NextKey = pair
      BY <1>4, <1>6, <1>9, <2>7 DEF left
    <2>5. Left \ {pair} = B
      BY <2>1, <2>2, <2>3 DEF left
    <2> QED BY <1>2, <1>4, <1>7, <2>4, <2>5 DEF B
  <1> QED BY <1>8, <1>9

\* A call fails only before it has done anything but lose a pair.
LEMMA FailureIsFail ==
  ASSUME NEW cover, NEW height, Inv(cover, height), ScanInv(cover),
         "after_split" \notin Faults, NoFreeBuffer \/ WriteBackFails
  PROVE  Scanned' /\ Index!Next
  <1>1. Inv(cover, height)'
    BY NoFreeBufferKeeps, WriteBackFailsKeeps
  <1>2. \E error \in {"NoFreeBuffer", "Io"} : CallFails(error)
    BY DEF NoFreeBuffer, WriteBackFails
  <1>3. /\ UNCHANGED <<nodes, value>> /\ pc' = "idle" /\ key' = NoKey /\ pair' = NoKey
        /\ result' \in {"NoFreeBuffer", "Io"}
        /\ iter' = IF pc = "open_advance" THEN NoIter ELSE iter
    BY <1>2 DEF CallFails, Return, tree
  <1>4. ScanInv(cover)'
    BY <1>3 DEF ScanInv
  <1>5. pc \notin {"idle", "next", "unwind"}
    <2>1. pc # "unwind"
      <3>1. CASE NoFreeBuffer
        BY <3>1 DEF NoFreeBuffer, Available, Inv, UnwindInv
      <3>2. CASE WriteBackFails
        BY <3>2 DEF WriteBackFails
      <3> QED BY <3>1, <3>2
    <2>2. Wanted # {}
      BY DEF NoFreeBuffer, WriteBackFails
    <2>3. pc \in {"idle", "next"} => Wanted = {}
      BY DEF Wanted, LeafIsFull, AtInsertLeaf, AtParent
    <2> QED BY <2>1, <2>2, <2>3
  <1>6. /\ Doing \in {"insert", "search", "next"} /\ Doing' = "nothing"
        /\ Doing = "next" <=> pc = "advance"
    <2>1. pc \in {"meta", "root", "descend", "split", "search_meta", "search_root", "search",
                  "open_advance", "advance"}
      BY <1>5 DEF Inv, CallInv
    <2> QED BY <1>3, <2>1 DEF Doing
  <1>7. View(cover) /\ View(cover)' /\ Chain(nodes, cover)
    BY <1>1, BothViews
  <1>8. KeySet' = KeySet
    BY <1>3, <1>7 DEF View
  <1>9. CASE pc = "advance"
    <2>1. Scan = "open" /\ Index!Rest = KeysBehind(nodes, cover, iter.page)
          /\ iter.page \in LeavesOf(nodes) /\ iter.slot_id \in Nat /\ IterLeaf = nodes[iter.page]
          /\ nodes[iter.page].next_page_id \in LeavesOf(nodes)
      BY <1>9, AtAdvance
    <2>2. iter' = iter /\ iter # NoIter /\ iter.slot_id >= Len(nodes[iter.page].keys)
      BY <1>3, <1>9, <2>1 DEF Inv, CallInv, ScanInv
    <2>3. Scan' = "open" /\ OpenView(cover)'
      BY <1>3, <1>7, <2>2 DEF View
    <2>4. Left' = KeysBehind(nodes, cover, iter.page)
      BY <1>3, <1>7, <2>1, <2>2, <2>3, KeysAtSlot DEF OpenView
    <2>5. nodes[iter.page].next_page_id # INVALID_PAGE_ID
      BY <2>1, PageIdsAreNats DEF LeavesOf
    <2>6. GapNow'
      BY <1>3, <2>2, <2>3, <2>5 DEF OpenView
    <2>7. GapNow' = TRUE
      BY <2>6 DEF GapNow
    <2>8. Index!Fail
      BY <1>3, <1>6, <1>8, <1>9, <2>1, <2>3, <2>4, <2>7 DEF Index!Fail, Index!Return, KeySet, Left, GapNow
    <2> QED BY <1>1, <1>4, <2>8 DEF Scanned, Index!Next
  <1>10. CASE pc # "advance"
    <2>1. pair = NoKey
      BY <1>10 DEF ScanInv
    <2>2. Scan' = Scan /\ Left' = Left /\ GapNow' = GapNow
      <3>1. CASE pc = "open_advance"
        <4>1. Scan = "closed" /\ Scan' = "closed"
          BY <1>3, <3>1 DEF Scan
        <4> QED BY <1>7, <4>1 DEF View, GapNow
      <3>2. CASE pc # "open_advance"
        BY <1>1, <1>3, <1>10, <2>1, <3>2, SameView
      <3> QED BY <3>1, <3>2
    <2>3. Index!Fail
      BY <1>3, <1>6, <1>8, <1>10, <2>2 DEF Index!Fail, Index!Return, KeySet, Left, GapNow
    <2> QED BY <1>1, <1>4, <2>3 DEF Scanned, Index!Next
  <1> QED BY <1>9, <1>10

-----------------------------------------------------------------------------
(* Steps of a scan.                                                        *)

\* A search that ends behind the last pair of its leaf has a step to go.
LEMMA OpenIterIsOpen ==
  ASSUME NEW cover, NEW height, Inv(cover, height), ScanInv(cover), OpenIter
  PROVE  Scanned' /\ (Index!Next \/ UNCHANGED Index!vars)
  <1> DEFINE s == nodes[Top].keys
             slot == SlotOf(s, key)
             is_right_most == Len(s) = slot
             at == slot + (IF is_right_most THEN 1 ELSE 0)
  <1>1. Inv(cover, height)'
    BY OpenIterKeeps
  <1>2. /\ pc = "search" /\ AtLeaf /\ iter' = [page |-> Top, slot_id |-> at]
        /\ UNCHANGED <<nodes, value>>
        /\ \/ /\ is_right_most /\ nodes[Top].next_page_id # INVALID_PAGE_ID
              /\ pc' = "open_advance" /\ UNCHANGED <<key, prev, overflow, pair, result>>
           \/ /\ ~(is_right_most /\ nodes[Top].next_page_id # INVALID_PAGE_ID)
              /\ Return("Ok")
    BY DEF OpenIter, tree, Node
  <1>3. iter = NoIter /\ key \in cover[Top] /\ pair = NoKey
    BY <1>2 DEF ScanInv
  <1>4. Top \in LeavesOf(nodes) /\ Top \in PageIds
    BY <1>2, Searching DEF LeavesOf
  <1>5. View(cover) /\ View(cover)' /\ Chain(nodes, cover) /\ GapNow' \in BOOLEAN
    BY <1>1, BothViews
  <1>6. KeySet' = KeySet /\ KeySet = AllKeys(nodes)
    BY <1>2, <1>5 DEF View
  <1>7. /\ s \in Seq(Int) /\ Sorted(s) /\ Len(s) \in Nat
        /\ Range(s) = {s[i] : i \in 1 .. Len(s)}
    <2>1. s \in Seq(Int) /\ Sorted(s) /\ Len(s) \in Nat
      BY <1>4, <1>5, LeafInChain
    <2> QED BY <2>1, RangeEquality
  <1>8. key \in Nat /\ key \in Int
    BY <1>3, <1>4, <1>5 DEF Chain
  <1> HIDE DEF s
  <1>9. slot \in 0 .. Len(s) /\ Splits(slot, s, Len(s), key)
    BY <1>7, <1>8, SlotOfSplits
  <1>10. KeysAt(nodes, cover, Top, slot) = {k \in KeySet : k >= key}
    BY <1>3, <1>4, <1>5, <1>6, KeysFromSearch DEF s
  <1> HIDE DEF slot
  <1>11. iter'.page = Top /\ iter'.slot_id = at /\ iter' # NoIter
    BY <1>2, <1>4, PageIdsAreNats DEF NoIter
  <1>12. at \in Nat /\ slot \in Nat
    BY <1>9
  <1>13. Scan = "closed"
    BY <1>3 DEF Scan
  <1>14. Doing = "search"
    BY <1>2 DEF Doing
  <1>15. CASE /\ is_right_most /\ nodes[Top].next_page_id # INVALID_PAGE_ID
              /\ pc' = "open_advance" /\ UNCHANGED <<key, prev, overflow, pair, result>>
    <2>1. Scan' = "closed"
      BY <1>15 DEF Scan
    <2>2. Left' = Left /\ GapNow' = GapNow
      BY <1>5, <1>13, <2>1 DEF View, GapNow
    <2>3. \A k \in Range(s) : k < key
      BY <1>7, <1>9, <1>15 DEF Splits
    <2>4. IterLeaf' = nodes[Top]
      BY <1>2, <1>11 DEF IterLeaf
    <2>5. ScanInv(cover)'
      BY <1>3, <1>11, <1>15, <2>3, <2>4 DEF ScanInv, s
    <2>6. Doing' = Doing
      BY <1>14, <1>15 DEF Doing
    <2>7. UNCHANGED Index!vars
      BY <1>2, <1>6, <1>13, <1>15, <2>1, <2>2, <2>6, StutterOfIndex
    <2> QED BY <1>1, <2>5, <2>7 DEF Scanned
  <1>16. CASE /\ ~(is_right_most /\ nodes[Top].next_page_id # INVALID_PAGE_ID)
              /\ Return("Ok")
    <2>1. pc' = "idle" /\ result' = "Ok" /\ key' = NoKey /\ pair' = NoKey
      BY <1>16 DEF Return
    <2>2. ScanInv(cover)'
      BY <2>1 DEF ScanInv
    <2>3. Doing' = "nothing"
      BY <2>1 DEF Doing
    <2>4. Scan' = "open"
      BY <1>11, <2>1 DEF Scan
    <2>5. OpenView(cover)'
      BY <1>5, <2>4 DEF View
    <2>6. KeysAt(nodes, cover, Top, at) = KeysAt(nodes, cover, Top, slot)
      <3>1. CASE is_right_most
        <4>1. at >= Len(s) /\ slot >= Len(s)
          BY <1>12, <3>1
        <4> QED BY <1>4, <1>5, <1>12, <4>1, KeysAtSlot DEF s
      <3>2. CASE ~is_right_most
        BY <1>12, <3>2
      <3> QED BY <3>1, <3>2
    <2>7. Left' = {k \in KeySet : k >= key}
      BY <1>2, <1>10, <1>11, <2>1, <2>5, <2>6 DEF OpenView
    <2>8. ~GapNow'
      <3>1. ~(at >= Len(s) /\ nodes[Top].next_page_id # INVALID_PAGE_ID)
        BY <1>7, <1>9, <1>16
      <3> QED BY <1>2, <1>11, <2>1, <2>5, <3>1 DEF OpenView, s
    <2>9. Index!Open
      BY <1>2, <1>5, <1>6, <1>14, <2>1, <2>3, <2>4, <2>7, <2>8
         DEF Index!Open, Index!Return, KeySet, Left, GapNow
    <2> QED BY <1>1, <2>2, <2>9 DEF Scanned, Index!Next
  <1> QED BY <1>2, <1>15, <1>16

\* A scan that has not just got the last pair of a leaf.
LEMMA AtNext ==
  ASSUME NEW cover, NEW height, Inv(cover, height), ScanInv(cover), pc = "next"
  PROVE  /\ Scan = "open" /\ iter.page \in LeavesOf(nodes) /\ iter.slot_id \in Nat
         /\ Left = KeysAt(nodes, cover, iter.page, iter.slot_id)
         /\ GapNow <=> /\ iter.slot_id >= Len(nodes[iter.page].keys)
                       /\ nodes[iter.page].next_page_id # INVALID_PAGE_ID
         /\ iter.slot_id < Len(nodes[iter.page].keys) =>
              Index!NextKey = nodes[iter.page].keys[iter.slot_id + 1]
         /\ iter.slot_id >= Len(nodes[iter.page].keys) =>
              Index!NextKey = NoKey /\ (GapNow \/ Left = {})
         /\ iter.slot_id < Len(nodes[iter.page].keys) => NoKey # Index!NextKey
         /\ Index!Rest = KeysAt(nodes, cover, iter.page, iter.slot_id + 1)
  <1> DEFINE p == iter.page
             slot == iter.slot_id
             s == nodes[p].keys
             left == KeysAt(nodes, cover, p, slot)
  <1>1. iter # NoIter /\ pair = NoKey
    BY DEF Inv, CallInv, ScanInv
  <1>2. p \in LeavesOf(nodes) /\ slot \in Nat
    BY <1>1, LeafOfIter
  <1>3. View(cover) /\ Chain(nodes, cover)
    BY InvView
  <1>4. Scan = "open" /\ OpenView(cover)
    BY <1>1, <1>3 DEF View
  <1>5. /\ Left = left
        /\ GapNow <=> slot >= Len(s) /\ nodes[p].next_page_id # INVALID_PAGE_ID
    BY <1>1, <1>4 DEF OpenView
  <1>6. Len(s) \in Nat
    BY <1>2, <1>3, LeafInChain
  <1>7. Index!NextKey = IF GapNow \/ Left = {} THEN NoKey ELSE Index!Min(Left)
    BY DEF Index!NextKey, GapNow, Left
  <1>8. Index!Rest = Left \ {Index!NextKey}
    BY DEF Index!Rest, Left
  <1>9. left \subseteq AllKeys(nodes) /\ left \subseteq Nat /\ NoKey \notin left
    BY <1>2, <1>3, KeysAtIsUp, AllKeysAre DEF UpIn
  <1> HIDE DEF left, s
  <1>10. CASE slot < Len(s)
    <2>1. /\ s[slot + 1] \in left /\ \A k \in left : s[slot + 1] <= k
          /\ KeysAt(nodes, cover, p, slot + 1) = left \ {s[slot + 1]}
      BY <1>2, <1>3, <1>10, KeysAtSlot DEF left, s
    <2>2. ~GapNow /\ left # {}
      BY <1>2, <1>5, <1>6, <1>10, <2>1
    <2>3. Index!Min(left) = s[slot + 1]
      BY <1>9, <2>1, MinIs
    <2>4. Index!NextKey = s[slot + 1]
      BY <1>5, <1>7, <2>2, <2>3
    <2>5. ~(slot >= Len(s)) /\ s[slot + 1] # NoKey
      BY <1>2, <1>6, <1>9, <1>10, <2>1
    <2> QED BY <1>2, <1>4, <1>5, <1>8, <2>1, <2>4, <2>5 DEF s, left
  <1>11. CASE slot >= Len(s)
    <2>1. /\ left = KeysBehind(nodes, cover, p)
          /\ KeysAt(nodes, cover, p, slot + 1) = KeysBehind(nodes, cover, p)
      <3>1. slot + 1 \in Nat /\ slot + 1 >= Len(s)
        BY <1>2, <1>6, <1>11
      <3> QED BY <1>2, <1>3, <1>11, <3>1, KeysAtSlot DEF left, s
    <2>2. GapNow \/ left = {}
      BY <1>2, <1>3, <1>5, <1>11, <2>1, BehindIsAtNext
    <2>3. Index!NextKey = NoKey
      BY <1>5, <1>7, <2>2
    <2>4. ~(slot < Len(s))
      BY <1>2, <1>6, <1>11
    <2> QED BY <1>2, <1>4, <1>5, <1>8, <1>9, <2>1, <2>2, <2>3, <2>4 DEF s, left
  <1>12. slot < Len(s) \/ slot >= Len(s)
    BY <1>2, <1>6
  <1> QED BY <1>10, <1>11, <1>12

LEMMA GetPairIsNext ==
  ASSUME NEW cover, NEW height, Inv(cover, height), ScanInv(cover), GetPair
  PROVE  Scanned' /\ (Index!Next \/ UNCHANGED Index!vars)
  <1> DEFINE p == iter.page
             slot == iter.slot_id
             s == nodes[p].keys
             next == nodes[p].next_page_id
             got == IF slot < Len(s) THEN s[slot + 1] ELSE NoKey
  <1>1. Inv(cover, height)'
    BY GetPairKeeps
  <1>2. /\ pc = "next" /\ UNCHANGED nodes
        /\ iter' = [iter EXCEPT !.slot_id = @ + 1]
        /\ \/ /\ slot + 1 >= Len(s) /\ next # INVALID_PAGE_ID
              /\ pc' = "advance" /\ pair' = got /\ UNCHANGED <<key, result, value>>
           \/ /\ ~(slot + 1 >= Len(s) /\ next # INVALID_PAGE_ID)
              /\ value' = got /\ Return("Ok")
    BY DEF GetPair, tree, IterLeaf
  <1>3. /\ Scan = "open" /\ p \in LeavesOf(nodes) /\ slot \in Nat
        /\ Left = KeysAt(nodes, cover, p, slot)
        /\ GapNow <=> slot >= Len(s) /\ next # INVALID_PAGE_ID
        /\ Index!NextKey = got
        /\ Index!Rest = KeysAt(nodes, cover, p, slot + 1)
        /\ slot < Len(s) => got # NoKey
    <2>1. Len(nodes[iter.page].keys) \in Nat
      BY <1>2, AtNext, InvView, LeafInChain
    <2> QED BY <1>2, <2>1, AtNext
  <1>4. View(cover) /\ View(cover)' /\ Chain(nodes, cover) /\ GapNow \in BOOLEAN /\ GapNow' \in BOOLEAN
    BY <1>1, BothViews
  <1>5. KeySet' = KeySet
    BY <1>2, <1>4 DEF View
  <1>6. Len(s) \in Nat
    BY <1>3, <1>4, LeafInChain
  <1>7. iter'.page = p /\ iter'.slot_id = slot + 1 /\ iter' # NoIter
    <2>1. iter \in [page : LeavesOf(nodes), slot_id : Nat]
      BY <1>2, LeafOfIter DEF Inv, CallInv
    <2>2. p \in PageIds
      BY <1>3 DEF LeavesOf
    <2>3. iter'.page = p /\ iter'.slot_id = slot + 1
      BY <1>2, <2>1
    <2> QED BY <2>2, <2>3, PageIdsAreNats DEF NoIter
  <1>8. Doing = "next"
    BY <1>2 DEF Doing
  <1>9. slot < Len(s) =>
          /\ got \in KeysAt(nodes, cover, p, slot) /\ got \in Range(s)
          /\ KeysAt(nodes, cover, p, slot + 1) = KeysAt(nodes, cover, p, slot) \ {got}
    BY <1>3, <1>4, KeysAtSlot
  <1>10. slot >= Len(s) => KeysAt(nodes, cover, p, slot + 1) = KeysAt(nodes, cover, p, slot)
    <2>1. slot >= Len(s) => slot + 1 >= Len(s) /\ slot + 1 \in Nat
      BY <1>3, <1>6
    <2> QED BY <1>3, <1>4, <2>1, KeysAtSlot
  <1>11. slot >= Len(s) => got = NoKey
    BY <1>3, <1>6
  <1> HIDE DEF s, next, got
  <1>12. CASE /\ slot + 1 >= Len(s) /\ next # INVALID_PAGE_ID
              /\ pc' = "advance" /\ pair' = got /\ UNCHANGED <<key, result, value>>
    <2>1. Scan' = "open" /\ OpenView(cover)'
      BY <1>4, <1>7, <1>12 DEF View, Scan
    <2>2. IterLeaf' = nodes[p]
      BY <1>2, <1>7 DEF IterLeaf
    <2>3. ScanInv(cover)'
      BY <1>2, <1>3, <1>6, <1>7, <1>9, <1>11, <1>12, <2>2 DEF ScanInv, s
    <2>4. Left' = KeysAt(nodes, cover, p, slot + 1) \union ({got} \ {NoKey})
      BY <1>2, <1>7, <1>12, <2>1 DEF OpenView
    <2>5. GapNow' <=> got = NoKey
      BY <1>12, <2>1 DEF OpenView
    <2>6. Left' = Left /\ GapNow' = GapNow
      <3>1. CASE slot < Len(s)
        <4>1. ~(slot >= Len(s)) /\ got # NoKey
          BY <1>3, <1>6, <3>1
        <4>2. Left' = Left
          BY <1>3, <1>9, <2>4, <3>1, <4>1
        <4> QED BY <1>3, <1>4, <2>5, <4>1, <4>2
      <3>2. CASE slot >= Len(s)
        <4>1. got = NoKey
          BY <1>11, <3>2
        <4>2. Left' = Left
          BY <1>3, <1>10, <2>4, <3>2, <4>1
        <4> QED BY <1>3, <1>4, <1>12, <2>5, <3>2, <4>1, <4>2
      <3> QED BY <1>3, <1>6, <3>1, <3>2
    <2>7. Doing' = Doing
      BY <1>8, <1>12 DEF Doing
    <2>8. UNCHANGED Index!vars
      BY <1>3, <1>5, <1>12, <2>1, <2>6, <2>7, StutterOfIndex
    <2> QED BY <1>1, <2>3, <2>8 DEF Scanned
  <1>13. CASE /\ ~(slot + 1 >= Len(s) /\ next # INVALID_PAGE_ID)
              /\ value' = got /\ Return("Ok")
    <2>1. pc' = "idle" /\ result' = "Ok" /\ key' = NoKey /\ pair' = NoKey
      BY <1>13 DEF Return
    <2>2. ScanInv(cover)' /\ Doing' = "nothing"
      BY <2>1 DEF ScanInv, Doing
    <2>3. Scan' = "open" /\ OpenView(cover)'
      BY <1>4, <1>7, <2>1 DEF View, Scan
    <2>4. Left' = Index!Rest
      BY <1>2, <1>3, <1>7, <2>1, <2>3 DEF OpenView
    <2>5. ~GapNow'
      BY <1>2, <1>7, <1>13, <2>1, <2>3 DEF OpenView, s, next
    <2>6. Index!ReturnNext
      BY <1>3, <1>4, <1>5, <1>8, <1>13, <2>1, <2>2, <2>3, <2>4, <2>5
         DEF Index!ReturnNext, Index!Return, KeySet, Left, GapNow
    <2> QED BY <1>1, <2>2, <2>6 DEF Scanned, Index!Next
  <1> QED BY <1>2, <1>12, <1>13 DEF s, next, got

LEMMA AdvanceIsNext ==
  ASSUME NEW cover, NEW height, Inv(cover, height), ScanInv(cover), Advance
  PROVE  Scanned' /\ Index!Next
  <1> DEFINE p == iter.page
             next == nodes[p].next_page_id
             B == KeysBehind(nodes, cover, p)
  <1>1. Inv(cover, height)'
    BY AdvanceKeeps
  <1>2. /\ pc \in {"open_advance", "advance"} /\ UNCHANGED nodes
        /\ iter' = [page |-> next, slot_id |-> 0]
        /\ value' = IF pc = "advance" THEN pair ELSE value
        /\ pc' = "idle" /\ result' = "Ok" /\ key' = NoKey /\ pair' = NoKey
    BY DEF Advance, Return, tree, IterLeaf
  <1>3. iter # NoIter /\ IterLeaf.next_page_id # INVALID_PAGE_ID
    BY <1>2 DEF Inv, CallInv
  <1>4. p \in LeavesOf(nodes) /\ iter.slot_id \in Nat /\ next \in LeavesOf(nodes) /\ next # INVALID_PAGE_ID
    BY <1>3, LeafOfIter DEF IterLeaf
  <1>5. View(cover) /\ View(cover)' /\ Chain(nodes, cover) /\ GapNow \in BOOLEAN /\ GapNow' \in BOOLEAN
    BY <1>1, BothViews
  <1>6. KeySet' = KeySet /\ KeySet = AllKeys(nodes)
    BY <1>2, <1>5 DEF View
  <1>7. B = KeysAt(nodes, cover, next, 0)
    BY <1>4, <1>5, BehindIsAtNext
  <1>8. Len(nodes[next].keys) > 0 /\ Len(nodes[next].keys) \in Nat
    BY <1>4, <1>5, NextHasKeys, LeafInChain
  <1>9. iter'.page = next /\ iter'.slot_id = 0 /\ iter' # NoIter
    BY <1>2, <1>4 DEF NoIter
  <1>10. ScanInv(cover)' /\ Doing' = "nothing"
    BY <1>2 DEF ScanInv, Doing
  <1>11. Scan' = "open" /\ OpenView(cover)'
    BY <1>2, <1>5, <1>9 DEF View, Scan
  <1> HIDE DEF next, B
  <1>12. Left' = B
    BY <1>2, <1>7, <1>9, <1>11 DEF OpenView
  <1>13. ~GapNow'
    <2>1. ~(0 >= Len(nodes[next].keys))
      BY <1>8
    <2> QED BY <1>2, <1>9, <1>11, <2>1 DEF OpenView
  <1>14. CASE pc = "advance"
    <2>1. Scan = "open" /\ Index!NextKey = pair /\ Index!Rest = B
      BY <1>14, AtAdvance DEF B
    <2>2. Doing = "next"
      BY <1>14 DEF Doing
    <2>3. Index!ReturnNext
      BY <1>2, <1>5, <1>6, <1>10, <1>11, <1>12, <1>13, <1>14, <2>1, <2>2
         DEF Index!ReturnNext, Index!Return, KeySet, Left, GapNow
    <2> QED BY <1>1, <1>10, <2>3 DEF Scanned, Index!Next
  <1>15. CASE pc = "open_advance"
    <2>1. key \in cover[p] /\ \A k \in Range(nodes[p].keys) : k < key
      BY <1>15 DEF ScanInv, IterLeaf
    <2>2. Doing = "search"
      BY <1>15 DEF Doing
    <2>3. B = {k \in KeySet : k >= key}
      <3>1. AllKeys(nodes) \subseteq Nat /\ key \in Nat
        BY <1>4, <1>5, <2>1, AllKeysAre DEF Chain
      <3>2. B \subseteq AllKeys(nodes) /\ \A k \in B : key < k
        BY <1>4, <1>5, <2>1, BehindIsAbove DEF B
      <3>3. ASSUME NEW k \in AllKeys(nodes), k >= key PROVE k \in B
        <4>1. k \in Nat /\ ~(k < key)
          BY <3>1, <3>3
        <4> QED BY <1>4, <1>5, <2>1, <4>1, KeyIsSomewhere DEF B
      <3>4. ASSUME NEW k \in B PROVE k >= key
        BY <3>1, <3>2
      <3> QED BY <1>6, <3>2, <3>3, <3>4
    <2>4. Index!Open
      BY <1>2, <1>5, <1>6, <1>10, <1>11, <1>12, <1>13, <1>15, <2>2, <2>3
         DEF Index!Open, Index!Return, KeySet, Left, GapNow
    <2> QED BY <1>1, <1>10, <2>4 DEF Scanned, Index!Next
  <1> QED BY <1>2, <1>14, <1>15

-----------------------------------------------------------------------------
(* A key is added to a leaf that has room for it.                          *)

\* A key is in no leaf but the one that covers it.
LEMMA KeyIsNew ==
  ASSUME NEW N, NEW cover, Chain(N, cover), NEW p \in LeavesOf(N),
         NEW k \in cover[p], ~Holds(N[p].keys, k)
  PROVE  k \notin AllKeys(N)
  <1> SUFFICES ASSUME NEW q \in LeavesOf(N), k \in Range(N[q].keys) PROVE FALSE
    BY DEF AllKeys
  <1>1. CASE q = p
    BY <1>1 DEF Holds, Range
  <1>2. CASE q # p
    <2>1. k \in cover[q] /\ k \in Nat
      BY DEF Chain
    <2>2. Ahead(cover[p], cover[q]) \/ Ahead(cover[q], cover[p])
      BY <1>2 DEF Chain
    <2> QED BY <2>1, <2>2 DEF Ahead
  <1> QED BY <1>1, <1>2

\* Leaf p got k; the others are as they were.
GrownLeaf(N, M, cover, p, k) ==
    /\ Chain(N, cover) /\ Chain(M, cover)
    /\ LeavesOf(M) = LeavesOf(N) /\ p \in LeavesOf(N)
    /\ \A q \in LeavesOf(N) : /\ M[q].next_page_id = N[q].next_page_id
                              /\ q # p => M[q].keys = N[q].keys
    /\ ~Holds(N[p].keys, k) /\ k \in cover[p] /\ k \in Nat
    /\ M[p].keys = InsertKey(N[p].keys, k)

\* One more, at most.
OneMore(A, B) == A \subseteq B /\ \E x : B \subseteq A \union {x}

\* The keys of a leaf from a slot on: but for one key they are as before.
FromSlot(s, slot) == {s[j] : j \in slot + 1 .. Len(s)}

LEMMA FromSlotGrows ==
  ASSUME NEW s \in Seq(Int), NEW all, NEW k \in Int, NEW m \in 0 .. Len(s), Placed(all, s, k, m),
         NEW slot \in Nat
  PROVE  OneMore(FromSlot(s, slot), FromSlot(all, slot))
  <1>1. /\ Len(s) \in Nat /\ Len(all) = Len(s) + 1
        /\ \A j \in 1 .. m : all[j] = s[j]
        /\ all[m + 1] = k
        /\ \A j \in m + 2 .. Len(s) + 1 : all[j] = s[j - 1]
    BY DEF Placed
  <1>2. \A j \in m + 1 .. Len(s) : all[j + 1] = s[j]
    <2> TAKE j \in m + 1 .. Len(s)
    <2> DEFINE i == j + 1
    <2>1. i \in m + 2 .. Len(s) + 1 /\ i - 1 = j
      BY <1>1
    <2> HIDE DEF i
    <2>2. all[i] = s[i - 1]
      BY <1>1, <2>1
    <2> QED BY <2>1, <2>2 DEF i
  <1>3. ASSUME NEW j \in slot + 1 .. Len(s) PROVE s[j] \in {all[i] : i \in slot + 1 .. Len(all)}
    <2>1. CASE j <= m
      <3>1. j \in 1 .. m /\ j \in slot + 1 .. Len(all)
        BY <1>1, <2>1
      <3> QED BY <1>1, <3>1
    <2>2. CASE j > m
      <3>1. j \in m + 1 .. Len(s) /\ j + 1 \in slot + 1 .. Len(all)
        BY <1>1, <2>2
      <3> QED BY <1>2, <3>1
    <2> QED BY <1>1, <2>1, <2>2
  <1> DEFINE x == IF slot <= m THEN k ELSE s[slot]
  <1>4. ASSUME NEW j \in slot + 1 .. Len(all)
        PROVE  all[j] \in {s[i] : i \in slot + 1 .. Len(s)} \union {x}
    <2>1. CASE j <= m
      <3>1. j \in 1 .. m /\ j \in slot + 1 .. Len(s)
        BY <1>1, <2>1
      <3> QED BY <1>1, <3>1
    <2>2. CASE j = m + 1
      <3>1. slot <= m
        BY <2>2
      <3> QED BY <1>1, <2>2, <3>1
    <2>3. CASE j > m + 1
      <3> DEFINE i == j - 1
      <3>1. j \in m + 2 .. Len(s) + 1 /\ i \in m + 1 .. Len(s) /\ i >= slot /\ i \in Nat
        BY <1>1, <2>3
      <3>2. all[j] = s[i]
        BY <1>1, <3>1
      <3>3. CASE i = slot
        <4>1. ~(slot <= m)
          BY <3>1, <3>3
        <4> QED BY <3>2, <3>3, <4>1
      <3>4. CASE i # slot
        <4>1. i \in slot + 1 .. Len(s)
          BY <1>1, <3>1, <3>4
        <4> QED BY <3>2, <4>1
      <3> QED BY <3>3, <3>4
    <2> QED BY <1>1, <2>1, <2>2, <2>3
  <1> HIDE DEF x
  <1> QED BY <1>3, <1>4 DEF FromSlot, OneMore

LEMMA KeysGrow ==
  ASSUME NEW N, NEW M, NEW cover, NEW p, NEW k, GrownLeaf(N, M, cover, p, k)
  PROVE  /\ k \notin AllKeys(N) /\ AllKeys(M) = AllKeys(N) \union {k}
         /\ Len(N[p].keys) <= Len(M[p].keys)
         /\ \A q \in LeavesOf(N), slot \in Nat :
              OneMore(KeysAt(N, cover, q, slot), KeysAt(M, cover, q, slot))
  <1> DEFINE L == LeavesOf(N)
             s == N[p].keys
             all == M[p].keys
             m == SlotOf(s, k)
  <1>1. /\ p \in L /\ LeavesOf(M) = L /\ all = InsertKey(s, k) /\ k \in Int /\ ~Holds(s, k)
        /\ \A q \in L : q # p => M[q].keys = N[q].keys
    BY DEF GrownLeaf
  <1>2. s \in Seq(Int) /\ Sorted(s) /\ Len(s) \in Nat
    BY <1>1, LeafInChain DEF GrownLeaf
  <1> HIDE DEF s, all
  <1>3. m \in 0 .. Len(s) /\ Placed(all, s, k, m)
    BY <1>1, <1>2, InsertKeyPlaces
  <1> HIDE DEF m
  <1>4. Range(all) = Range(s) \union {k} /\ Len(all) = Len(s) + 1
    <2>1. Len(all) = Len(s) + 1
      BY <1>3 DEF Placed
    <2>2. Range(all) = Range(s) \union {k}
      BY <1>1, <1>2, <1>3, PlacedRange
    <2> QED BY <2>1, <2>2
  <1>5. k \notin AllKeys(N)
    BY KeyIsNew DEF GrownLeaf
  <1>6. \A q \in L : Range(M[q].keys) = IF q = p THEN Range(N[q].keys) \union {k} ELSE Range(N[q].keys)
    BY <1>1, <1>4 DEF s, all
  <1>7. AllKeys(M) = AllKeys(N) \union {k}
    <2>1. AllKeys(M) = UNION {Range(M[q].keys) : q \in L}
      BY <1>1 DEF AllKeys
    <2>2. AllKeys(N) = UNION {Range(N[q].keys) : q \in L}
      BY DEF AllKeys
    <2>3. ASSUME NEW l \in AllKeys(M) PROVE l \in AllKeys(N) \union {k}
      <3>1. PICK q \in L : l \in Range(M[q].keys)
        BY <2>1
      <3> QED BY <1>6, <2>2, <3>1
    <2>4. AllKeys(N) \subseteq AllKeys(M)
      BY <1>6, <2>1, <2>2
    <2>5. k \in AllKeys(M)
      BY <1>1, <1>6, <2>1
    <2> QED BY <2>3, <2>4, <2>5
  <1>8. \A q \in L : /\ LeavesBehind(M, cover, q) = LeavesBehind(N, cover, q)
                     /\ LeavesBehind(N, cover, q) \subseteq L
                     /\ q \notin LeavesBehind(N, cover, q)
    BY <1>1 DEF LeavesBehind
  <1>9. ASSUME NEW q \in L
        PROVE  /\ KeysBehind(N, cover, q) \subseteq KeysBehind(M, cover, q)
               /\ KeysBehind(M, cover, q) \subseteq KeysBehind(N, cover, q) \union {k}
    <2> HIDE DEF L
    <2> QED BY <1>6, <1>8, ZenonT(30) DEF KeysBehind
  <1>10. KeysBehind(M, cover, p) = KeysBehind(N, cover, p)
    <2>1. \A q \in LeavesBehind(N, cover, p) : Range(M[q].keys) = Range(N[q].keys)
      BY <1>1, <1>6, <1>8
    <2> HIDE DEF L
    <2>2. LeavesBehind(M, cover, p) = LeavesBehind(N, cover, p)
      BY <1>1, <1>8
    <2> QED BY <2>1, <2>2 DEF KeysBehind
  <1>11. ASSUME NEW q \in L, NEW slot \in Nat
         PROVE  OneMore(KeysAt(N, cover, q, slot), KeysAt(M, cover, q, slot))
    <2>1. CASE q # p
      <3>1. M[q].keys = N[q].keys
        BY <1>1, <2>1
      <3>2. /\ KeysAt(N, cover, q, slot) \subseteq KeysAt(M, cover, q, slot)
            /\ KeysAt(M, cover, q, slot) \subseteq KeysAt(N, cover, q, slot) \union {k}
        BY <1>9, <3>1 DEF KeysAt
      <3> QED BY <3>2 DEF OneMore
    <2>2. CASE q = p
      <3> DEFINE a == FromSlot(s, slot)
                 b == FromSlot(all, slot)
                 K == KeysBehind(N, cover, p)
      <3>1. KeysAt(N, cover, q, slot) = a \union K /\ KeysAt(M, cover, q, slot) = b \union K
        BY <1>10, <2>2 DEF KeysAt, FromSlot, s, all
      <3> HIDE DEF K
      <3>2. OneMore(a, b)
        BY <1>1, <1>2, <1>3, FromSlotGrows
      <3> HIDE DEF a, b
      <3>4. PICK x : b \subseteq a \union {x}
        BY <3>2 DEF OneMore
      <3>5. b \union K \subseteq (a \union K) \union {x} /\ a \union K \subseteq b \union K
        BY <3>2, <3>4 DEF OneMore
      <3> QED BY <3>1, <3>5 DEF OneMore
    <2> QED BY <2>1, <2>2
  <1>12. Len(s) <= Len(all)
    BY <1>2, <1>4
  <1> QED BY <1>5, <1>7, <1>11, <1>12 DEF s, all

LEMMA CardinalityIs ==
  ASSUME NEW S
  PROVE  Index!Cardinality(S) = Cardinality(S)
  BY DEF Index!Cardinality, Cardinality

LEMMA InsertIntoLeafIsAdd ==
  ASSUME NEW cover, NEW height, Inv(cover, height), ScanInv(cover), InsertIntoLeaf
  PROVE  Scanned' /\ Index!Next
  <1>1. Inv(cover, height)'
    BY InsertIntoLeafKeeps
  <1>2. /\ pc = "descend" /\ AtLeaf /\ ~Holds(nodes[Top].keys, key)
        /\ nodes' = [nodes EXCEPT ![Top] = LeafInsert(nodes[Top], key)]
        /\ pc' = "idle" /\ result' = "Ok" /\ key' = NoKey /\ pair' = NoKey
        /\ UNCHANGED <<iter, value>>
    BY DEF InsertIntoLeaf, AtInsertLeaf, Node, Return
  <1>3. Top \in LeavesOf(nodes) /\ Top \in PageIds /\ key \in Keys /\ key \in cover[Top] /\ key \in Nat
    BY <1>2, OnTheWay
  <1>4. View(cover) /\ View(cover)' /\ Chain(nodes, cover) /\ Chain(nodes', cover)
        /\ GapNow \in BOOLEAN /\ GapNow' \in BOOLEAN
    BY <1>1, BothViews
  <1>5. /\ nodes \in [PageIds -> {NoNode} \union LeafNodes \union BranchNodes]
        /\ nodes' \in [PageIds -> {NoNode} \union LeafNodes \union BranchNodes]
    <2>1. NodesInv(nodes, next_page_id, meta_page_id, root_page_id)
          /\ NodesInv(nodes, next_page_id, meta_page_id, root_page_id)'
      BY <1>1 DEF Inv
    <2> QED BY <2>1 DEF NodesInv
  <1>6. /\ nodes'[Top] = LeafInsert(nodes[Top], key)
        /\ \A p \in PageIds \ {Top} : nodes'[p] = nodes[p]
    BY <1>2, <1>3, <1>5
  <1>7. /\ nodes[Top] \in LeafNodes
        /\ nodes'[Top].keys = InsertKey(nodes[Top].keys, key)
        /\ nodes'[Top].next_page_id = nodes[Top].next_page_id
        /\ nodes'[Top].node_type = "LEAF"
    BY <1>3, <1>6 DEF LeavesOf, LeafInsert, LeafNodes
  <1>8. LeavesOf(nodes') = LeavesOf(nodes)
    <2>1. nodes'[Top] \in LeafNodes
      BY <1>3, <1>5, <1>7 DEF BranchNodes, NoNode
    <2> QED BY <1>3, <1>6, <2>1 DEF LeavesOf
  <1>9. GrownLeaf(nodes, nodes', cover, Top, key)
    BY <1>2, <1>3, <1>4, <1>6, <1>7, <1>8 DEF GrownLeaf, LeavesOf
  <1>10. /\ key \notin AllKeys(nodes) /\ AllKeys(nodes') = AllKeys(nodes) \union {key}
         /\ Len(nodes[Top].keys) <= Len(nodes'[Top].keys)
         /\ \A q \in LeavesOf(nodes), slot \in Nat :
              OneMore(KeysAt(nodes, cover, q, slot), KeysAt(nodes', cover, q, slot))
    BY <1>9, KeysGrow
  <1>11. key \notin KeySet /\ KeySet' = KeySet \union {key}
    BY <1>4, <1>10 DEF View
  <1>12. pair = NoKey /\ Doing = "insert" /\ Doing' = "nothing" /\ Scan' = Scan
    BY <1>2 DEF ScanInv, Doing, Scan
  <1>13. ScanInv(cover)'
    BY <1>2 DEF ScanInv
  <1>14. /\ OneMore(Left, Left')
         /\ Scan = "closed" => Left' = Left
         /\ Scan # "closed" => Left' \in Index!Suffixes(KeySet')
         /\ GapNow' => GapNow
    <2>1. CASE iter = NoIter
      <3>1. Scan = "closed" /\ Scan' = "closed"
        BY <1>12, <2>1 DEF Scan
      <3>2. Left = {} /\ Left' = {} /\ ~GapNow'
        BY <1>4, <3>1 DEF View
      <3> QED BY <3>1, <3>2 DEF OneMore
    <2>2. CASE iter # NoIter
      <3>1. Scan = "open" /\ Scan' = "open" /\ OpenView(cover) /\ OpenView(cover)'
        BY <1>2, <1>4, <1>12, <2>2 DEF View
      <3>2. iter.page \in LeavesOf(nodes) /\ iter.slot_id \in Nat
        BY <2>2, LeafOfIter
      <3>3. /\ Left = KeysAt(nodes, cover, iter.page, iter.slot_id)
            /\ Left' = KeysAt(nodes', cover, iter.page, iter.slot_id)
        BY <1>2, <1>12, <3>1 DEF OpenView
      <3>4. Left' \in Index!Suffixes(KeySet')
        <4>1. UpIn(KeysAt(nodes', cover, iter.page, iter.slot_id), AllKeys(nodes'))
          BY <1>4, <1>8, <3>2, KeysAtIsUp
        <4>2. AllKeys(nodes') \subseteq Nat /\ KeySet' = AllKeys(nodes')
          BY <1>4, AllKeysAre DEF View
        <4> QED BY <3>3, <4>1, <4>2, UpIsSuffix
      <3>5. GapNow' => GapNow
        <4>1. /\ nodes'[iter.page].next_page_id = nodes[iter.page].next_page_id
              /\ Len(nodes[iter.page].keys) <= Len(nodes'[iter.page].keys)
              /\ Len(nodes[iter.page].keys) \in Nat /\ Len(nodes'[iter.page].keys) \in Nat
          <5>1. CASE iter.page = Top
            BY <1>3, <1>4, <1>7, <1>8, <1>10, <5>1, LeafInChain
          <5>2. CASE iter.page # Top
            <6>1. nodes'[iter.page] = nodes[iter.page] /\ Len(nodes[iter.page].keys) \in Nat
              BY <1>4, <1>6, <3>2, <5>2, LeafInChain DEF LeavesOf
            <6> QED BY <6>1
          <5> QED BY <5>1, <5>2
        <4>2. iter.slot_id >= Len(nodes'[iter.page].keys) => iter.slot_id >= Len(nodes[iter.page].keys)
          BY <3>2, <4>1, SMTT(20)
        <4> QED BY <1>2, <3>1, <4>1, <4>2 DEF OpenView
      <3> QED BY <1>10, <3>1, <3>2, <3>3, <3>4, <3>5
    <2> QED BY <2>1, <2>2
  <1>15. Cardinality(Left' \ Left) <= 1
    <2>1. PICK x : Left' \subseteq Left \union {x}
      BY <1>14 DEF OneMore
    <2> DEFINE D == Left' \ Left
    <2>2. D \subseteq {x}
      BY <2>1
    <2>3. IsFiniteSet({x}) /\ Cardinality({x}) = 1
      BY FS_Singleton
    <2> HIDE DEF D
    <2>4. Cardinality(D) <= 1
      BY <2>2, <2>3, FS_Subset
    <2> QED BY <2>4 DEF D
  <1>16. Index!AddKey
    BY <1>2, <1>11, <1>12, <1>14 DEF Index!AddKey, KeySet, Left, GapNow
  <1>17. Index!Add
    BY <1>2, <1>4, <1>12, <1>14, <1>15, <1>16, CardinalityIs
       DEF OneMore, Index!Add, Index!Return, KeySet, Left, GapNow
  <1> QED BY <1>1, <1>13, <1>17 DEF Scanned, Index!Next

-----------------------------------------------------------------------------
(* The way back up changes branches only.                                  *)

SameLeaves(N, M) ==
    /\ LeavesOf(M) = LeavesOf(N)
    /\ \A p \in LeavesOf(N) : M[p] = N[p]

\* What follows a leaf depends on the leaves and their links alone.
LEMMA SameLeavesSameKeys ==
  ASSUME NEW N, NEW M, SameLeaves(N, M), NEW cover, Chain(N, cover), NEW c, Chain(M, c)
  PROVE  /\ AllKeys(M) = AllKeys(N)
         /\ \A p \in LeavesOf(N) : \A slot : KeysAt(M, c, p, slot) = KeysAt(N, cover, p, slot)
  <1> DEFINE L == LeavesOf(N)
  <1>1. LeavesOf(M) = L /\ \A p \in L : M[p] = N[p]
    BY DEF SameLeaves
  <1>2. AllKeys(M) = AllKeys(N)
    BY <1>1 DEF AllKeys
  <1>3. ASSUME NEW p \in L
        PROVE  Range(N[p].keys) \union KeysBehind(M, c, p) = Range(N[p].keys) \union KeysBehind(N, cover, p)
    <2> DEFINE f == [q \in L |-> Range(N[q].keys) \union KeysBehind(N, cover, q)]
    <2>1. IsLinked(f, N, p)
      BY LinkedExists
    <2>2. f[p] = Range(N[p].keys) \union KeysBehind(N, cover, p)
      OBVIOUS
    <2> HIDE DEF f
    <2>3. Pages({p}) \union LeavesOf(M) = L /\ Pages({p}) \union L = L
      BY <1>1 DEF Pages
    <2>4. IsLinked(f, M, p)
      BY <1>1, <2>1, <2>3 DEF IsLinked
    <2>5. f[p] = Range(M[p].keys) \union KeysBehind(M, c, p)
      BY <1>1, <2>4, LinkedUnique
    <2> QED BY <1>1, <2>2, <2>5
  <1>4. ASSUME NEW p \in L PROVE KeysBehind(M, c, p) = KeysBehind(N, cover, p)
    <2> DEFINE n == N[p].next_page_id
    <2>1. M[p].next_page_id = n
      BY <1>1
    <2>2. CASE n = INVALID_PAGE_ID
      BY <1>1, <2>1, <2>2, BehindIsAtNext
    <2>3. CASE n # INVALID_PAGE_ID
      <3>1. /\ n \in L
            /\ LeavesBehind(N, cover, p) = {n} \union LeavesBehind(N, cover, n)
            /\ LeavesBehind(M, c, p) = {n} \union LeavesBehind(M, c, n)
        BY <1>1, <2>1, <2>3, BehindIsNext
      <3> HIDE DEF n, L
      <3>2. /\ KeysBehind(N, cover, p) = Range(N[n].keys) \union KeysBehind(N, cover, n)
            /\ KeysBehind(M, c, p) = Range(M[n].keys) \union KeysBehind(M, c, n)
        BY <3>1 DEF KeysBehind
      <3> QED BY <1>1, <1>3, <3>1, <3>2
    <2> QED BY <2>2, <2>3
  <1>5. ASSUME NEW p \in L, NEW slot PROVE KeysAt(M, c, p, slot) = KeysAt(N, cover, p, slot)
    BY <1>1, <1>4 DEF KeysAt
  <1> QED BY <1>2, <1>5

LEMMA BranchesOnly ==
  ASSUME NEW N, NEW M, NEW P,
         M \in [PageIds -> {NoNode} \union LeafNodes \union BranchNodes],
         \A p \in PageIds \ P : M[p] = N[p],
         \A p \in PageIds \intersect P : p \notin LeavesOf(N) /\ M[p].node_type = "BRANCH"
  PROVE  SameLeaves(N, M)
  <1>1. \A p \in PageIds \intersect P : p \notin LeavesOf(M)
    BY DEF LeavesOf, LeafNodes
  <1> QED BY <1>1 DEF SameLeaves, LeavesOf

LEMMA UpChangesBranches ==
  ASSUME NEW cover, NEW height, Inv(cover, height), NEW c, NEW h, Inv(c, h)',
         InsertIntoBranch \/ SplitBranch \/ GrowRoot
  PROVE  SameLeaves(nodes, nodes')
  <1>1. /\ nodes \in [PageIds -> {NoNode} \union LeafNodes \union BranchNodes]
        /\ nodes' \in [PageIds -> {NoNode} \union LeafNodes \union BranchNodes]
        /\ next_page_id \in 0 .. MaxPages /\ \A p \in NodesOf(nodes) : p < next_page_id
    <2>1. NodesInv(nodes, next_page_id, meta_page_id, root_page_id)
          /\ NodesInv(nodes, next_page_id, meta_page_id, root_page_id)'
      BY DEF Inv
    <2> QED BY <2>1 DEF NodesInv
  <1>2. next_page_id \notin LeavesOf(nodes)
    BY <1>1 DEF NodesOf
  <1>3. Top # meta_page_id /\ pc = "unwind" =>
          /\ Top \in BranchesOf(nodes) /\ Top \in PageIds /\ Top \notin LeavesOf(nodes)
          /\ nodes[Top] \in BranchNodes
    BY <1>1, Kinds DEF Inv, UnwindInv, BranchesOf
  <1>4. CASE InsertIntoBranch
    <2> DEFINE n == BranchInsert(nodes[Top], SearchChildIdx(nodes[Top], key),
                                 overflow.key, overflow.page_id)
    <2>1. Top # meta_page_id /\ pc = "unwind" /\ nodes' = [nodes EXCEPT ![Top] = n]
      BY <1>4 DEF InsertIntoBranch, AtParent, Node
    <2>2. n.node_type = "BRANCH"
      BY <1>3, <2>1 DEF BranchInsert, BranchNodes
    <2> HIDE DEF n
    <2>3. nodes'[Top] = n /\ \A p \in PageIds \ {Top} : nodes'[p] = nodes[p]
      BY <1>1, <1>3, <2>1
    <2>4. \A p \in PageIds \intersect {Top} : p \notin LeavesOf(nodes) /\ nodes'[p].node_type = "BRANCH"
      BY <1>3, <2>1, <2>2, <2>3
    <2> QED BY <1>1, <2>3, <2>4, BranchesOnly, ZenonT(30)
  <1>5. CASE SplitBranch
    <2> DEFINE split == BranchSplit(nodes[Top], overflow.key, overflow.page_id, BranchPairs)
    <2>1. /\ Top # meta_page_id /\ pc = "unwind"
          /\ nodes' = [nodes EXCEPT ![Top] = split.old, ![next_page_id] = split.new]
      BY <1>5 DEF SplitBranch, AtParent, Node
    <2>2. split.old.node_type = "BRANCH" /\ split.new.node_type = "BRANCH"
      BY DEF BranchSplit, Branch
    <2> HIDE DEF split
    <2>3. /\ \A p \in PageIds \ {Top, next_page_id} : nodes'[p] = nodes[p]
          /\ \A p \in PageIds \intersect {Top, next_page_id} :
               nodes'[p] = split.old \/ nodes'[p] = split.new
      BY <1>1, <1>3, <2>1
    <2>4. \A p \in PageIds \intersect {Top, next_page_id} :
             p \notin LeavesOf(nodes) /\ nodes'[p].node_type = "BRANCH"
      BY <1>2, <1>3, <2>1, <2>2, <2>3
    <2> QED BY <1>1, <2>3, <2>4, BranchesOnly, ZenonT(30)
  <1>6. CASE GrowRoot
    <2> DEFINE n == Branch(<<overflow.key>>, <<overflow.page_id, root_page_id>>)
    <2>1. nodes' = [nodes EXCEPT ![next_page_id] = n]
      BY <1>6 DEF GrowRoot
    <2>2. n.node_type = "BRANCH"
      BY DEF Branch
    <2> HIDE DEF n
    <2>3. /\ \A p \in PageIds \ {next_page_id} : nodes'[p] = nodes[p]
          /\ \A p \in PageIds \intersect {next_page_id} : nodes'[p] = n
      BY <1>1, <2>1
    <2>4. \A p \in PageIds \intersect {next_page_id} :
             p \notin LeavesOf(nodes) /\ nodes'[p].node_type = "BRANCH"
      BY <1>2, <2>2, <2>3
    <2> QED BY <1>1, <2>3, <2>4, BranchesOnly
  <1> QED BY <1>4, <1>5, <1>6

LEMMA UpIsReturn ==
  ASSUME NEW cover, NEW height, Inv(cover, height), ScanInv(cover),
         InsertIntoBranch \/ SplitBranch \/ GrowRoot
  PROVE  Scanned' /\ (Index!Next \/ UNCHANGED Index!vars)
  <1>1. PICK c, h : Inv(c, h)'
    BY InsertIntoBranchKeeps, SplitBranchKeeps, GrowRootKeeps
  <1>2. SameLeaves(nodes, nodes')
    BY <1>1, UpChangesBranches
  <1>3. View(cover) /\ View(c)' /\ Chain(nodes, cover) /\ Chain(nodes', c)
        /\ GapNow \in BOOLEAN /\ GapNow' \in BOOLEAN
    BY <1>1, BothViews
  <1>4. /\ pc = "unwind" /\ UNCHANGED <<iter, value>>
        /\ \/ SplitBranch /\ pc' = "unwind" /\ UNCHANGED <<key, result, pair>>
           \/ (InsertIntoBranch \/ GrowRoot) /\ Return("Ok")
    BY DEF InsertIntoBranch, AtParent, SplitBranch, SendUp, GrowRoot
  <1>5. pair = NoKey /\ pair' = NoKey /\ pc' \in {"unwind", "idle"}
    BY <1>4 DEF ScanInv, Return
  <1>6. ScanInv(c)'
    BY <1>5 DEF ScanInv
  <1>7. /\ AllKeys(nodes') = AllKeys(nodes)
        /\ \A p \in LeavesOf(nodes) : \A slot : KeysAt(nodes', c, p, slot) = KeysAt(nodes, cover, p, slot)
    BY <1>2, <1>3, SameLeavesSameKeys
  <1>8. KeySet' = KeySet
    BY <1>3, <1>7 DEF View
  <1>9. Scan' = Scan /\ Doing = "inserted"
    BY <1>4, <1>5 DEF Scan, Doing
  <1>10. Left' = Left /\ GapNow' = GapNow
    <2>1. CASE iter = NoIter
      <3>1. Scan = "closed"
        BY <2>1 DEF Scan
      <3> QED BY <1>3, <1>9, <3>1 DEF View
    <2>2. CASE iter # NoIter
      <3>1. OpenView(cover) /\ OpenView(c)'
        BY <1>3, <1>4, <1>5, <2>2 DEF View
      <3>2. iter.page \in LeavesOf(nodes) /\ nodes'[iter.page] = nodes[iter.page]
        BY <1>2, <2>2, LeafOfIter DEF SameLeaves
      <3>3. Left' = Left
        BY <1>4, <1>5, <1>7, <3>1, <3>2 DEF OpenView
      <3>4. GapNow' <=> GapNow
        BY <1>4, <1>5, <3>1, <3>2 DEF OpenView
      <3> QED BY <1>3, <3>3, <3>4
    <2> QED BY <2>1, <2>2
  <1>11. CASE SplitBranch /\ pc' = "unwind" /\ UNCHANGED <<key, result, pair>>
    <2>1. Doing' = Doing
      BY <1>9, <1>11 DEF Doing
    <2>2. UNCHANGED Index!vars
      BY <1>4, <1>8, <1>9, <1>10, <1>11, <2>1, StutterOfIndex
    <2> QED BY <1>1, <1>6, <2>2 DEF Scanned
  <1>12. CASE Return("Ok")
    <2>1. Doing' = "nothing" /\ result' = "Ok" /\ key' = NoKey
      BY <1>12 DEF Return, Doing
    <2>2. Index!ReturnInserted
      BY <1>4, <1>8, <1>9, <1>10, <2>1 DEF Index!ReturnInserted, Index!Return, KeySet, Left, GapNow
    <2> QED BY <1>1, <1>6, <2>2 DEF Scanned, Index!Next
  <1> QED BY <1>4, <1>11, <1>12

-----------------------------------------------------------------------------
(* A key is added to a leaf that is split.                                 *)

LEMMA SplitAddsKey ==
  ASSUME NEW cover, NEW height, Inv(cover, height), pc = "split", LeafWasSplit
  PROVE  key \notin AllKeys(nodes) /\ AllKeys(nodes') = AllKeys(nodes) \union {key}
  <1> DEFINE L == LeavesOf(nodes)
             new == next_page_id
             lower == nodes'[new].keys
             upper == nodes'[Top].keys
  <1>1. Top \in L /\ Node = nodes[Top] /\ ~Holds(nodes[Top].keys, key)
    BY DEF Inv, SplitInv, Node
  <1>2. key \in cover[Top] /\ Chain(nodes, cover)
    BY OnTheWay, InvView
  <1>3. key \notin AllKeys(nodes)
    BY <1>1, <1>2, KeyIsNew
  <1>4. /\ LeavesOf(nodes') = L \union {new} /\ new \notin L
        /\ \A p \in L \ {Top} : nodes'[p].keys = nodes[p].keys
        /\ \A x : x \in Range(lower) \union Range(upper) <=> x \in Range(nodes[Top].keys) \union {key}
    BY <1>1 DEF LeafWasSplit, LeafHalves
  <1>5. /\ \A x : x \in AllKeys(nodes) <=> \E p \in L : x \in Range(nodes[p].keys)
        /\ \A x : x \in AllKeys(nodes') <=> \E p \in L \union {new} : x \in Range(nodes'[p].keys)
    BY <1>4 DEF AllKeys
  <1> HIDE DEF L
  <1>6. ASSUME NEW x \in AllKeys(nodes') PROVE x \in AllKeys(nodes) \union {key}
    <2>1. PICK p \in L \union {new} : x \in Range(nodes'[p].keys)
      BY <1>5
    <2>2. CASE p = new \/ p = Top
      <3>1. x \in Range(nodes[Top].keys) \union {key}
        BY <1>4, <2>1, <2>2
      <3> QED BY <1>1, <1>5, <3>1
    <2>3. CASE p \in L \ {Top}
      BY <1>4, <1>5, <2>1, <2>3
    <2> QED BY <2>1, <2>2, <2>3
  <1>7. ASSUME NEW x \in AllKeys(nodes) \union {key} PROVE x \in AllKeys(nodes')
    <2>1. CASE x \in Range(nodes[Top].keys) \union {key}
      <3>1. x \in Range(lower) \union Range(upper)
        BY <1>4, <2>1
      <3> QED BY <1>1, <1>5, <3>1
    <2>2. CASE x \notin Range(nodes[Top].keys) \union {key}
      <3>1. PICK p \in L : x \in Range(nodes[p].keys)
        BY <1>5, <2>2
      <3>2. p \in L \ {Top}
        BY <2>2, <3>1
      <3> QED BY <1>4, <1>5, <3>1, <3>2
    <2> QED BY <2>1, <2>2
  <1> QED BY <1>3, <1>6, <1>7

LEMMA SplitLeafIsAdd ==
  ASSUME NEW cover, NEW height, Inv(cover, height), ScanInv(cover), SplitLeaf
  PROVE  Scanned' /\ Index!Next
  <1>1. LeafWasSplit /\ \E c, h : Inv(c, h)'
    BY SplitLeafKeeps
  <1>2. PICK c, h : Inv(c, h)'
    BY <1>1
  <1>3. pc = "split" /\ pc' = "unwind" /\ UNCHANGED <<key, pair, iter, result, value>>
    BY DEF SplitLeaf, SendUp
  <1>4. View(cover) /\ View(c)' /\ Chain(nodes', c) /\ GapNow' \in BOOLEAN
    BY <1>2, BothViews
  <1>5. key \notin KeySet /\ KeySet' = KeySet \union {key}
    BY <1>1, <1>3, <1>4, SplitAddsKey DEF View
  <1>6. pair = NoKey /\ pair' = NoKey /\ Scan' = Scan /\ Doing = "insert" /\ Doing' = "inserted"
    BY <1>3 DEF ScanInv, Scan, Doing
  <1>7. ScanInv(c)'
    BY <1>3, <1>6 DEF ScanInv
  <1>8. /\ Scan = "closed" => Left' = Left /\ GapNow' = FALSE
        /\ Scan # "closed" => Left' \in Index!Suffixes(KeySet')
    <2>1. ASSUME Scan = "closed" PROVE Left' = Left /\ GapNow' = FALSE
      BY <1>4, <1>6, <2>1 DEF View
    <2>2. ASSUME Scan # "closed" PROVE Left' \in Index!Suffixes(KeySet')
      <3>1. iter # NoIter /\ OpenView(c)'
        BY <1>3, <1>4, <1>6, <2>2 DEF View
      <3>2. iter.page \in LeavesOf(nodes') /\ iter.slot_id \in Nat
        BY <1>1, <3>1, LeafOfIter DEF LeafWasSplit
      <3>3. Left' = KeysAt(nodes', c, iter.page, iter.slot_id)
        BY <1>3, <1>6, <3>1 DEF OpenView
      <3>4. UpIn(KeysAt(nodes', c, iter.page, iter.slot_id), AllKeys(nodes'))
        BY <1>4, <3>2, KeysAtIsUp
      <3>5. AllKeys(nodes') \subseteq Nat /\ KeySet' = AllKeys(nodes')
        BY <1>4, AllKeysAre DEF View
      <3> QED BY <3>3, <3>4, <3>5, UpIsSuffix
    <2> QED BY <2>1, <2>2
  <1>9. Index!AddKey
    BY <1>3, <1>5, <1>6, <1>8 DEF Index!AddKey, KeySet, Left, GapNow
  <1>10. Index!AddAndSplit
    BY <1>3, <1>4, <1>6, <1>8, <1>9 DEF Index!AddAndSplit, KeySet, Left, GapNow
  <1> QED BY <1>2, <1>7, <1>10 DEF Scanned, Index!Next

-----------------------------------------------------------------------------
(* Before the tree is created.                                             *)

LEMMA EmptyIndex ==
  ASSUME Empty
  PROVE  KeySet = {} /\ Scan = "closed" /\ Left = {} /\ GapNow = FALSE /\ Doing = "nothing"
  BY NoPages DEF Empty, KeySet, Scan, Left, GapNow, Doing

LEMMA EmptyIsQuiet ==
  ASSUME Empty, Next
  PROVE  IndexInv' /\ UNCHANGED Index!vars
  <1>1. KeySet = {} /\ Scan = "closed" /\ Left = {} /\ GapNow = FALSE /\ Doing = "nothing"
    BY EmptyIndex
  <1>2. CreateTree \/ CreateTreeFails \/ SetForeign
    BY EmptyStep
  <1>3. UNCHANGED <<key, result, value, iter, pair>> /\ pair = NoKey /\ iter = NoIter
    BY <1>2 DEF Empty, CreateTree, CreateTreeFails, SetForeign, call
  <1>4. pc' \in {"none", "idle"} /\ Doing' = "nothing" /\ Scan' = "closed"
    BY <1>2, <1>3 DEF Empty, CreateTree, CreateTreeFails, SetForeign, Doing, Scan
  <1>5. Left' = {} /\ GapNow' = FALSE
    BY <1>4 DEF Left, GapNow
  <1>6. TreeInv'
    BY EmptyKeeps
  <1>7. \A cover : ScanInv(cover)'
    BY <1>3, <1>4 DEF ScanInv
  <1>8. IndexInv'
    BY <1>6, <1>7 DEF TreeInv, IndexInv, Scanned
  <1>9. KeySet' = {}
    <2>1. \A p \in PageIds : nodes'[p] = NoNode \/ nodes'[p].keys = <<>>
      <3>1. CASE CreateTree
        BY <3>1 DEF CreateTree, Empty, Leaf
      <3>2. CASE CreateTreeFails \/ SetForeign
        BY <3>2 DEF CreateTreeFails, SetForeign, Empty, tree
      <3> QED BY <1>2, <3>1, <3>2
    <2>2. Range(<<>>) = {}
      BY DEF Range
    <2> QED BY <2>1, <2>2 DEF KeySet, LeafPages, NodePages
  <1>10. UNCHANGED Index!vars
    BY <1>1, <1>3, <1>4, <1>5, <1>9, StutterOfIndex
  <1> QED BY <1>8, <1>10

LEMMA StutterIsQuiet ==
  ASSUME IndexInv, UNCHANGED vars
  PROVE  IndexInv' /\ UNCHANGED Index!vars
  <1>1. UNCHANGED <<nodes, next_page_id, pc, key, path, prev, pair, iter, result, value, foreign>>
    BY DEF vars, tree, call
  <1>2. ASSUME Empty PROVE Empty'
    BY <1>1, <1>2 DEF Empty
  <1>3. ASSUME NEW cover, NEW height, Inv(cover, height), ScanInv(cover)
        PROVE  Inv(cover, height)' /\ ScanInv(cover)'
    <2>1. Top' = Top /\ IterLeaf' = IterLeaf
      BY <1>1 DEF Top, IterLeaf
    <2> QED BY <1>1, <1>3, <2>1, SameState DEF ScanInv
  <1>4. IndexInv'
    BY <1>2, <1>3 DEF IndexInv, Scanned
  <1>5. KeySet' = KeySet /\ Scan' = Scan /\ Doing' = Doing
    BY <1>1 DEF KeySet, Scan, Doing, LeafPages, NodePages
  <1>6. Left' = Left /\ GapNow' = GapNow
    BY <1>1, <1>5 DEF Left, GapNow, Gap, Remaining, IterLeaf, KeysFrom, LeafPages, NodePages
  <1> QED BY <1>1, <1>4, <1>5, <1>6, StutterOfIndex

-----------------------------------------------------------------------------
LEMMA StepIsIndex ==
  ASSUME IndexInv, Next, "after_split" \notin Faults
  PROVE  IndexInv' /\ (Index!Next \/ UNCHANGED Index!vars)
  <1>1. CASE Empty
    BY <1>1, EmptyIsQuiet
  <1>2. ASSUME NEW cover, NEW height, Inv(cover, height), ScanInv(cover)
        PROVE  Scanned' /\ (Index!Next \/ UNCHANGED Index!vars)
    <2>1. CASE FetchMeta \/ FetchRoot \/ FetchChild \/ FetchPrev \/ HasNoPrev
      BY <1>2, <2>1, DescentIsQuiet
    <2>2. CASE RejectDuplicate
      BY <1>2, <2>2, RejectIsReject
    <2>3. CASE InsertIntoLeaf
      BY <1>2, <2>3, InsertIntoLeafIsAdd
    <2>4. CASE SplitLeaf
      BY <1>2, <2>4, SplitLeafIsAdd
    <2>5. CASE InsertIntoBranch \/ SplitBranch \/ GrowRoot
      BY <1>2, <2>5, UpIsReturn
    <2>6. CASE SearchMeta \/ SearchRoot \/ SearchChildPage
      BY <1>2, <2>6, SearchIsQuiet
    <2>7. CASE OpenIter
      BY <1>2, <2>7, OpenIterIsOpen
    <2>8. CASE GetPair
      BY <1>2, <2>8, GetPairIsNext
    <2>9. CASE Advance
      BY <1>2, <2>9, AdvanceIsNext
    <2>10. CASE NoFreeBuffer \/ WriteBackFails
      BY <1>2, <2>10, FailureIsFail
    <2>11. CASE BeginInsert \/ BeginSearch \/ BeginNext
      BY <1>2, <2>11, BeginIsBegin
    <2>12. CASE DropIter
      BY <1>2, <2>12, DropIsClose
    <2>13. CASE SetForeign
      BY <1>2, <2>13, ForeignIsQuiet
    <2>14. CASE CreateTree \/ CreateTreeFails
      BY <1>2, <2>14 DEF CreateTree, CreateTreeFails, Inv, CallInv
    <2> QED BY <2>1, <2>2, <2>3, <2>4, <2>5, <2>6, <2>7, <2>8, <2>9, <2>10, <2>11, <2>12, <2>13, <2>14
            DEF Next, CallStep
  <1>3. CASE Scanned
    BY <1>2, <1>3 DEF Scanned, IndexInv
  <1> QED BY <1>1, <1>3 DEF IndexInv

\* Each step of the tree is one of the index or hides from it: an insert adds
\* its key at once or not at all, also where it splits nodes or is refused a
\* frame on its way; a scan starts at the least key not below the one sought
\* and returns each key behind it once, in order, over all links between
\* leaves; and an insert leaves it at some suffix of the keys (btree.rs).
THEOREM TreeIsAnIndex ==
  ASSUME "after_split" \notin Faults
  PROVE  Spec => Index!Init /\ [][Index!Next]_(Index!vars)
  <1>1. Init => IndexInv
    <2>1. Init => Empty
      BY BTreeAssumption DEF Init, Empty, NoKey, NoIter
    <2> QED BY <2>1 DEF IndexInv
  <1>2. Init => Index!Init
    <2> SUFFICES ASSUME Init PROVE Index!Init
      OBVIOUS
    <2>1. Empty /\ key = NoKey /\ result = "none"
      BY BTreeAssumption DEF Init, Empty, NoKey, NoIter
    <2>2. KeySet = {} /\ Scan = "closed" /\ Left = {} /\ GapNow = FALSE /\ Doing = "nothing"
      BY <2>1, EmptyIndex
    <2> QED BY <2>1, <2>2 DEF Empty, Index!Init, KeySet, Left, GapNow
  <1>3. IndexInv /\ [Next]_vars => IndexInv' /\ [Index!Next]_(Index!vars)
    BY StepIsIndex, StutterIsQuiet
  <1> QED BY <1>1, <1>2, <1>3, PTL DEF Spec

=============================================================================

--------------------------- MODULE SlottedProofs ---------------------------
(***************************************************************************)
(* What a slotted page keeps, for any capacity that its offsets can count  *)
(* and any lengths of data, none of them empty: every byte behind          *)
(* free_space_offset belongs to one slot, whatever the order of the slots. *)
(***************************************************************************)
EXTENDS Slotted, SequenceTheorems, TLAPS

-----------------------------------------------------------------------------
(* Elements of sequences that one is put into or taken from.               *)

Inserted(all, s, i, e) ==
  /\ Len(all) = Len(s) + 1
  /\ \A j \in 1 .. Len(s) + 1 :
       all[j] = IF j < i THEN s[j] ELSE IF j = i THEN e ELSE s[j - 1]
Removed(rest, s, i) ==
  /\ Len(rest) = Len(s) - 1
  /\ \A j \in 1 .. Len(s) - 1 : rest[j] = IF j < i THEN s[j] ELSE s[j + 1]

LEMMA InsertAtElements ==
  ASSUME NEW S, NEW s \in Seq(S), NEW i \in 1 .. Len(s) + 1, NEW e \in S
  PROVE  InsertAt(s, i, e) \in Seq(S) /\ Inserted(InsertAt(s, i, e), s, i, e)
  <1> DEFINE front == SubSeq(s, 1, i - 1)
             back  == SubSeq(s, i, Len(s))
             more  == Append(front, e)
  <1>1. Len(s) \in Nat /\ \A j \in 1 .. Len(s) : s[j] \in S
    OBVIOUS
  <1>2. /\ front \in Seq(S) /\ Len(front) = i - 1
        /\ \A j \in 1 .. i - 1 : front[j] = s[j]
    <2>1. /\ front \in Seq(S) /\ Len(front) = IF 1 <= i - 1 THEN i - 1 - 1 + 1 ELSE 0
          /\ \A j \in 1 .. i - 1 - 1 + 1 : front[j] = s[1 + j - 1]
      BY <1>1, SubSeqProperties
    <2> HIDE DEF front
    <2> QED BY <1>1, <2>1
  <1>3. /\ back \in Seq(S) /\ Len(back) = Len(s) + 1 - i
        /\ \A j \in 1 .. Len(s) + 1 - i : back[j] = s[i + j - 1]
    <2>1. /\ back \in Seq(S) /\ Len(back) = IF i <= Len(s) THEN Len(s) - i + 1 ELSE 0
          /\ \A j \in 1 .. Len(s) - i + 1 : back[j] = s[i + j - 1]
      BY <1>1, SubSeqProperties
    <2> HIDE DEF back
    <2> QED BY <1>1, <2>1
  <1> HIDE DEF front, back, more
  <1>4. InsertAt(s, i, e) = more \o back
    <2>1. more = front \o <<e>>
      BY <1>2, AppendIsConcat DEF more
    <2> QED BY <2>1, Zenon DEF InsertAt, front, back
  <1>5. /\ more \in Seq(S) /\ Len(more) = i /\ more[i] = e
        /\ \A j \in 1 .. i - 1 : more[j] = s[j]
    BY <1>1, <1>2, AppendProperties DEF more
  <1>6. /\ more \o back \in Seq(S) /\ Len(more \o back) = Len(more) + Len(back)
        /\ \A j \in 1 .. Len(more) + Len(back) : (more \o back)[j] =
              IF j <= Len(more) THEN more[j] ELSE back[j - Len(more)]
    BY <1>3, <1>5, ConcatProperties
  <1> DEFINE all == more \o back
  <1>7. ASSUME NEW j \in 1 .. Len(s) + 1
        PROVE  all[j] = IF j < i THEN s[j] ELSE IF j = i THEN e ELSE s[j - 1]
    <2>1. all[j] = IF j <= i THEN more[j] ELSE back[j - i]
      BY <1>1, <1>3, <1>5, <1>6
    <2> HIDE DEF all
    <2>2. CASE j <= i
      BY <1>1, <1>5, <2>1, <2>2
    <2>3. CASE j > i
      <3>1. PICK l \in 1 .. Len(s) + 1 - i : j - i = l /\ i + l - 1 = j - 1
        BY <1>1, <2>3
      <3> QED BY <1>1, <1>3, <2>1, <2>3, <3>1
    <2> QED BY <1>1, <2>2, <2>3
  <1>8. all \in Seq(S) /\ Len(all) = Len(s) + 1
    BY <1>1, <1>3, <1>5, <1>6
  <1> QED BY <1>4, <1>7, <1>8 DEF Inserted

LEMMA RemoveAtElements ==
  ASSUME NEW S, NEW s \in Seq(S), NEW i \in 1 .. Len(s)
  PROVE  RemoveAt(s, i) \in Seq(S) /\ Removed(RemoveAt(s, i), s, i)
  <1> DEFINE front == SubSeq(s, 1, i - 1)
             back  == SubSeq(s, i + 1, Len(s))
  <1>1. Len(s) \in Nat /\ \A j \in 1 .. Len(s) : s[j] \in S
    OBVIOUS
  <1>2. /\ front \in Seq(S) /\ Len(front) = i - 1
        /\ \A j \in 1 .. i - 1 : front[j] = s[j]
    <2>1. /\ front \in Seq(S) /\ Len(front) = IF 1 <= i - 1 THEN i - 1 - 1 + 1 ELSE 0
          /\ \A j \in 1 .. i - 1 - 1 + 1 : front[j] = s[1 + j - 1]
      BY <1>1, SubSeqProperties
    <2> HIDE DEF front
    <2> QED BY <1>1, <2>1
  <1>3. /\ back \in Seq(S) /\ Len(back) = Len(s) - i
        /\ \A j \in 1 .. Len(s) - i : back[j] = s[i + j]
    <2>1. /\ back \in Seq(S)
          /\ Len(back) = IF i + 1 <= Len(s) THEN Len(s) - (i + 1) + 1 ELSE 0
          /\ \A j \in 1 .. Len(s) - (i + 1) + 1 : back[j] = s[i + 1 + j - 1]
      BY <1>1, SubSeqProperties
    <2> HIDE DEF back
    <2> QED BY <1>1, <2>1
  <1> HIDE DEF front, back
  <1>4. RemoveAt(s, i) = front \o back
    BY Zenon DEF RemoveAt, front, back
  <1>5. /\ front \o back \in Seq(S) /\ Len(front \o back) = Len(front) + Len(back)
        /\ \A j \in 1 .. Len(front) + Len(back) : (front \o back)[j] =
              IF j <= Len(front) THEN front[j] ELSE back[j - Len(front)]
    BY <1>2, <1>3, ConcatProperties
  <1> DEFINE all == front \o back
  <1>6. ASSUME NEW j \in 1 .. Len(s) - 1
        PROVE  all[j] = IF j < i THEN s[j] ELSE s[j + 1]
    <2>1. all[j] = IF j <= i - 1 THEN front[j] ELSE back[j - (i - 1)]
      BY <1>1, <1>2, <1>3, <1>5
    <2> HIDE DEF all
    <2>2. CASE j < i
      BY <1>1, <1>2, <2>1, <2>2
    <2>3. CASE j >= i
      <3>1. PICK l \in 1 .. Len(s) - i : j - (i - 1) = l /\ i + l = j + 1
        BY <1>1, <2>3
      <3> QED BY <1>1, <1>3, <2>1, <2>3, <3>1
    <2> QED BY <1>1, <2>2, <2>3
  <1>7. all \in Seq(S) /\ Len(all) = Len(s) - 1
    BY <1>1, <1>2, <1>3, <1>5
  <1> QED BY <1>4, <1>6, <1>7 DEF Removed

-----------------------------------------------------------------------------
(* The inductive invariant.                                                *)

Pointers == [offset : 0 .. Capacity, len : 0 .. Capacity]

\* The data of the slots is behind free_space_offset, each byte there in one slot.
Laid(ps, free) ==
    /\ ps \in Seq(Pointers) /\ free \in 0 .. Capacity
    /\ PointerSize * Len(ps) <= free
    /\ \A i \in 1 .. Len(ps) : /\ ps[i].len >= 1 /\ free <= ps[i].offset
                               /\ ps[i].offset + ps[i].len <= Capacity
    /\ \A i, j \in 1 .. Len(ps) :
          i # j => \/ ps[i].offset + ps[i].len <= ps[j].offset
                   \/ ps[j].offset + ps[j].len <= ps[i].offset
    /\ \A o \in free .. (Capacity - 1) :
          \E i \in 1 .. Len(ps) : ps[i].offset <= o /\ o < ps[i].offset + ps[i].len

Filled(ps, b, contents) ==
    /\ \E S : contents \in Seq(S)
    /\ Len(contents) = Len(ps)
    /\ \A i \in 1 .. Len(ps) : Content(ps[i], b) = contents[i]

PageInv == Laid(pointers, free_space_offset) /\ Filled(pointers, body, given)

-----------------------------------------------------------------------------
(* insert.                                                                 *)

LEMMA FitsU16 ==
  ASSUME Capacity < 65536, NEW n \in 0 .. Capacity
  PROVE  U16(n) = n
  <1>1. n \in Nat /\ n < 65536
    BY SlottedAssumption
  <1> QED BY <1>1 DEF U16

LEMMA LaidTypes ==
  ASSUME NEW ps, NEW free, Laid(ps, free)
  PROVE  /\ ps \in Seq(Pointers) /\ Len(ps) \in Nat
         /\ Capacity \in Nat /\ free \in Nat /\ free <= Capacity
         /\ \A i \in 1 .. Len(ps) : /\ ps[i] \in Pointers /\ ps[i].offset \in Nat /\ ps[i].len \in Nat
                                    /\ ps[i].offset + ps[i].len \in Nat
  <1>1. ps \in Seq(Pointers) /\ Len(ps) \in Nat /\ Capacity \in Nat /\ free \in 0 .. Capacity
    BY SlottedAssumption DEF Laid
  <1>2. \A i \in 1 .. Len(ps) : ps[i] \in Pointers
    BY <1>1
  <1>3. \A p \in Pointers : p.offset \in Nat /\ p.len \in Nat /\ p.offset + p.len \in Nat
    BY <1>1 DEF Pointers
  <1> QED BY <1>1, <1>2, <1>3

\* Equal bytes, wherever they lie.
LEMMA SameContent ==
  ASSUME NEW p, NEW q, NEW b, NEW c, p.len = q.len,
         \A j \in 1 .. p.len : b[p.offset + j - 1] = c[q.offset + j - 1]
  PROVE  Content(p, b) = Content(q, c)
  BY DEF Content

\* What a pointer that is put into the others does not change.
LEMMA LaidInserted ==
  ASSUME NEW ps, NEW free, Laid(ps, free), NEW index \in 1 .. Len(ps) + 1,
         NEW len \in Nat \ {0}, PointerSize * (Len(ps) + 1) + len <= free
  PROVE  Laid(InsertAt(ps, index, [offset |-> free - len, len |-> len]), free - len)
  <1> DEFINE new == [offset |-> free - len, len |-> len]
             qs == InsertAt(ps, index, new)
             n == Len(ps)
             off(i) == ps[i].offset
             end(i) == ps[i].offset + ps[i].len
  <1>1. /\ ps \in Seq(Pointers) /\ n \in Nat /\ Capacity \in Nat
        /\ free \in Nat /\ free <= Capacity
        /\ \A i \in 1 .. n : /\ ps[i].len >= 1 /\ free <= off(i) /\ end(i) <= Capacity
                             /\ ps[i] \in Pointers /\ off(i) \in Nat /\ end(i) \in Nat
        /\ \A i, j \in 1 .. n : i # j => end(i) <= off(j) \/ end(j) <= off(i)
        /\ \A o \in free .. (Capacity - 1) : \E i \in 1 .. n : off(i) <= o /\ o < end(i)
    <2>1. /\ \A i \in 1 .. n : ps[i].len >= 1 /\ free <= off(i) /\ end(i) <= Capacity
          /\ \A i, j \in 1 .. n : i # j => end(i) <= off(j) \/ end(j) <= off(i)
          /\ \A o \in free .. (Capacity - 1) : \E i \in 1 .. n : off(i) <= o /\ o < end(i)
      BY DEF Laid
    <2> QED BY <2>1, LaidTypes
  <1>15. n \in Nat /\ Capacity \in Nat /\ free \in Nat /\ free <= Capacity
    BY <1>1
  <1>17. PointerSize * (n + 1) + len <= free
    OBVIOUS
  <1>16. PointerSize * (n + 1) <= free - len
    <2> HIDE DEF n
    <2> QED BY <1>15, <1>17 DEF PointerSize
  <1>2. free - len \in Nat /\ free - len < free
    <2> HIDE DEF n
    <2> QED BY <1>15, <1>17 DEF PointerSize
  <1>3. new \in Pointers
    BY <1>15, <1>2 DEF Pointers
  <1> HIDE DEF new
  <1>4. /\ qs \in Seq(Pointers) /\ Len(qs) = n + 1
        /\ \A j \in 1 .. n + 1 :
              qs[j] = IF j < index THEN ps[j] ELSE IF j = index THEN new ELSE ps[j - 1]
    <2>1. ps \in Seq(Pointers)
      BY <1>1
    <2>2. qs \in Seq(Pointers) /\ Inserted(qs, ps, index, new)
      BY <1>3, <2>1, InsertAtElements
    <2> HIDE DEF qs
    <2> QED BY <2>2 DEF Inserted
  <1> HIDE DEF qs, n
  \* Where the slot was, or is.
  <1> DEFINE was(j) == IF j < index THEN j ELSE j - 1
             is(i) == IF i < index THEN i ELSE i + 1
  <1>5. index \in 1 .. n + 1
    BY DEF n
  <1>6. \A j \in 1 .. n + 1 : j # index => was(j) \in 1 .. n /\ qs[j] = ps[was(j)]
    BY <1>1, <1>4, <1>5
  <1>7. \A i \in 1 .. n : is(i) \in 1 .. n + 1 /\ is(i) # index /\ was(is(i)) = i
    BY <1>1, <1>5
  <1>8. \A j, l \in 1 .. n + 1 : j # index /\ l # index /\ j # l => was(j) # was(l)
    BY <1>1, <1>5
  <1>9. qs[index] = new /\ new.offset = free - len /\ new.len = len
    BY <1>4, <1>5 DEF new
  <1> HIDE DEF was, is
  <1>10. \A j \in 1 .. n + 1 : /\ qs[j].len >= 1 /\ free - len <= qs[j].offset
                               /\ qs[j].offset + qs[j].len <= Capacity
    <2> TAKE j \in 1 .. n + 1
    <2>1. CASE j = index
      BY <1>15, <1>2, <1>9, <2>1
    <2>2. CASE j # index
      <3>1. was(j) \in 1 .. n /\ qs[j] = ps[was(j)] /\ free <= off(was(j))
        BY <1>1, <1>6, <2>2
      <3>2. off(was(j)) \in Nat /\ end(was(j)) <= Capacity /\ ps[was(j)].len >= 1
        BY <1>1, <3>1
      <3> QED BY <1>15, <1>2, <3>1, <3>2
    <2> QED BY <2>1, <2>2
  <1>11. \A i, j \in 1 .. n + 1 :
           i # j => \/ qs[i].offset + qs[i].len <= qs[j].offset
                    \/ qs[j].offset + qs[j].len <= qs[i].offset
    <2> TAKE i, j \in 1 .. n + 1
    <2> SUFFICES ASSUME i # j PROVE \/ qs[i].offset + qs[i].len <= qs[j].offset
                                    \/ qs[j].offset + qs[j].len <= qs[i].offset
      OBVIOUS
    <2>1. CASE i = index
      <3>1. was(j) \in 1 .. n /\ qs[j] = ps[was(j)] /\ free <= off(was(j))
        BY <1>1, <1>6, <2>1
      <3>2. off(was(j)) \in Nat
        BY <1>1, <3>1
      <3> QED BY <1>15, <1>2, <1>9, <2>1, <3>1, <3>2
    <2>2. CASE j = index
      <3>1. was(i) \in 1 .. n /\ qs[i] = ps[was(i)] /\ free <= off(was(i))
        BY <1>1, <1>6, <2>2
      <3>2. off(was(i)) \in Nat
        BY <1>1, <3>1
      <3> QED BY <1>15, <1>2, <1>9, <2>2, <3>1, <3>2
    <2>3. CASE i # index /\ j # index
      <3>1. /\ was(i) \in 1 .. n /\ was(j) \in 1 .. n /\ was(i) # was(j)
            /\ qs[i] = ps[was(i)] /\ qs[j] = ps[was(j)]
        BY <1>6, <1>8, <2>3
      <3> QED BY <1>1, <3>1
    <2> QED BY <2>1, <2>2, <2>3
  <1>12. ASSUME NEW o \in (free - len) .. (Capacity - 1)
         PROVE  \E j \in 1 .. n + 1 : qs[j].offset <= o /\ o < qs[j].offset + qs[j].len
    <2>1. CASE o < free
      <3>1. free - len <= o /\ o < free - len + len
        BY <1>1, <1>2, <2>1
      <3> QED BY <1>5, <1>9, <3>1
    <2>2. CASE o >= free
      <3>1. o \in free .. (Capacity - 1)
        BY <1>1, <1>2, <2>2
      <3>2. PICK i \in 1 .. n : off(i) <= o /\ o < end(i)
        BY <1>1, <3>1
      <3>3. is(i) \in 1 .. n + 1 /\ qs[is(i)] = ps[i]
        BY <1>6, <1>7
      <3> QED BY <3>2, <3>3
    <2> QED BY <1>1, <1>2, <2>1, <2>2
  <1>13. free - len \in 0 .. Capacity
    BY <1>1, <1>2
  <1>14. Laid(qs, free - len)
    BY <1>16, <1>4, <1>10, <1>11, <1>12, <1>13 DEF Laid
  <1> QED BY <1>14 DEF qs, new

LEMMA InsertKeeps ==
  ASSUME Capacity < 65536, 0 \notin Lens, PageInv,
         NEW index \in 1 .. NumSlots + 1, NEW len \in Lens, NEW data, Insert(index, len, data)
  PROVE  PageInv'
  <1> DEFINE n == NumSlots
             free == free_space_offset
             new == [offset |-> free - len, len |-> len]
  <1>1. /\ Laid(pointers, free) /\ pointers \in Seq(Pointers) /\ n \in Nat /\ n = Len(pointers)
        /\ free \in Nat /\ free <= Capacity /\ Capacity \in Nat
        /\ \A i \in 1 .. n : /\ free <= pointers[i].offset /\ pointers[i].offset \in Nat
                             /\ pointers[i].len \in Nat
                             /\ pointers[i].offset + pointers[i].len <= Capacity
    <2>1. Laid(pointers, free)
      BY DEF PageInv
    <2>2. \A i \in 1 .. n : /\ free <= pointers[i].offset
                            /\ pointers[i].offset + pointers[i].len <= Capacity
      BY <2>1 DEF Laid, NumSlots
    <2>3. /\ pointers \in Seq(Pointers) /\ n \in Nat /\ n = Len(pointers)
          /\ free \in Nat /\ free <= Capacity /\ Capacity \in Nat
          /\ \A i \in 1 .. n : pointers[i].offset \in Nat /\ pointers[i].len \in Nat
      BY <2>1, LaidTypes DEF NumSlots
    <2> HIDE DEF free, n
    <2> QED BY <2>1, <2>2, <2>3
  <1>17. n \in Nat /\ Capacity \in Nat /\ free \in Nat /\ free <= Capacity
    BY <1>1
  <1>2. len \in Nat \ {0}
    BY SlottedAssumption
  <1>3. PointerSize * (n + 1) + len <= free /\ free - len \in 0 .. Capacity
    <2>1. FreeSpace >= PointerSize + len /\ FreeSpace = free - PointerSize * n
      BY DEF Insert, HasRoom, FreeSpace
    <2> HIDE DEF n, free
    <2> QED BY <1>2, <1>17, <2>1 DEF PointerSize
  <1>4. U16(free - len) = free - len
    BY <1>3, FitsU16
  <1>5. /\ free_space_offset' = free - len
        /\ pointers' = InsertAt(pointers, index, new)
        /\ body' = [o \in Offsets |-> IF o \in (free - len) .. (free - len) + len - 1
                                      THEN Bytes(data, len)[o - (free - len) + 1] ELSE body[o]]
        /\ given' = InsertAt(given, index, Bytes(data, len))
    BY <1>4 DEF Insert
  <1>6. Laid(pointers', free_space_offset')
    BY <1>1, <1>2, <1>3, <1>5, LaidInserted DEF NumSlots
  <1>7. PICK S : given \in Seq(S)
    BY DEF PageInv, Filled
  <1> DEFINE T == S \union {Bytes(data, len)}
  <1>8. given \in Seq(T) /\ Len(given) = n /\ \A i \in 1 .. n : Content(pointers[i], body) = given[i]
    <2>1. S \subseteq T
      OBVIOUS
    <2>2. given \in Seq(T)
      BY <1>7, <2>1, SeqMonotonic
    <2> QED BY <1>1, <2>2 DEF PageInv, Filled
  <1>9. new \in Pointers
    BY <1>1, <1>2, <1>3 DEF Pointers
  <1> HIDE DEF n, free, new
  <1>10. /\ pointers' \in Seq(Pointers) /\ Len(pointers') = n + 1
         /\ \A j \in 1 .. n + 1 :
              pointers'[j] = IF j < index THEN pointers[j] ELSE IF j = index THEN new ELSE pointers[j - 1]
    <2>3. pointers \in Seq(Pointers) /\ index \in 1 .. Len(pointers) + 1 /\ n = Len(pointers)
      BY <1>1 DEF n
    <2>1. pointers' \in Seq(Pointers) /\ Inserted(pointers', pointers, index, new)
      BY <1>5, <1>9, <2>3, InsertAtElements
    <2> QED BY <2>1, <2>3 DEF Inserted
  <1>11. /\ given' \in Seq(T) /\ Len(given') = n + 1
         /\ \A j \in 1 .. n + 1 :
              given'[j] = IF j < index THEN given[j] ELSE IF j = index THEN Bytes(data, len) ELSE given[j - 1]
    <2>1. index \in 1 .. Len(given) + 1 /\ Bytes(data, len) \in T
      BY <1>8 DEF n
    <2> HIDE DEF T
    <2>2. given' \in Seq(T) /\ Inserted(given', given, index, Bytes(data, len))
      BY <1>5, <1>8, <2>1, InsertAtElements
    <2> QED BY <1>8, <2>2 DEF Inserted
  <1>12. index \in 1 .. n + 1
    BY DEF n
  <1>13. \A i \in 1 .. n : Content(pointers[i], body') = Content(pointers[i], body)
    <2> TAKE i \in 1 .. n
    <2> DEFINE p == pointers[i]
    <2>1. p.offset \in Nat /\ p.len \in Nat /\ free <= p.offset /\ p.offset + p.len <= Capacity
      BY <1>1
    <2> HIDE DEF p
    <2>2. ASSUME NEW j \in 1 .. p.len PROVE body'[p.offset + j - 1] = body[p.offset + j - 1]
      <3>1. p.offset + j - 1 \in Offsets /\ p.offset + j - 1 >= free
        BY <1>17, <2>1 DEF Offsets
      <3>2. p.offset + j - 1 \notin (free - len) .. (free - len) + len - 1
        BY <1>17, <1>2, <2>1, <3>1
      <3> QED BY <1>5, <3>1, <3>2
    <2>3. Content(p, body') = Content(p, body)
      BY <2>2, SameContent
    <2> QED BY <2>3 DEF p
  <1>14. Content(new, body') = Bytes(data, len)
    <2>1. new.offset = free - len /\ new.len = len
      BY DEF new
    <2>2. ASSUME NEW j \in 1 .. len PROVE body'[new.offset + j - 1] = Bytes(data, len)[j]
      <3> DEFINE o == free - len + j - 1
      <3>1. /\ o \in Offsets /\ o \in (free - len) .. (free - len) + len - 1
            /\ o - (free - len) + 1 = j /\ new.offset + j - 1 = o
        BY <1>17, <1>2, <1>3, <2>1 DEF Offsets
      <3> HIDE DEF o
      <3>2. body'[o] = Bytes(data, len)[o - (free - len) + 1]
        BY <1>5, <3>1
      <3> QED BY <3>1, <3>2
    <2>3. Bytes(data, len) = [j \in 1 .. len |-> Bytes(data, len)[j]]
      BY DEF Bytes
    <2>4. Content(new, body') = [j \in 1 .. len |-> body'[new.offset + j - 1]]
      BY <2>1 DEF Content
    <2> HIDE DEF new
    <2> QED BY <2>2, <2>3, <2>4
  <1>15. \A j \in 1 .. n + 1 : Content(pointers'[j], body') = given'[j]
    <2> TAKE j \in 1 .. n + 1
    <2>1. CASE j = index
      BY <1>10, <1>11, <1>12, <1>14, <2>1
    <2>2. CASE j < index
      <3>1. j \in 1 .. n
        BY <1>1, <1>12, <2>2
      <3> QED BY <1>8, <1>10, <1>11, <1>13, <2>2, <3>1
    <2>3. CASE j > index
      <3>1. j - 1 \in 1 .. n
        BY <1>1, <1>12, <2>3
      <3>2. pointers'[j] = pointers[j - 1] /\ given'[j] = given[j - 1]
        BY <1>1, <1>10, <1>11, <1>12, <2>3
      <3> QED BY <1>8, <1>13, <3>1, <3>2
    <2> QED BY <1>1, <1>12, <2>1, <2>2, <2>3
  <1>16. Filled(pointers', body', given')
    BY <1>10, <1>11, <1>15 DEF Filled
  <1> QED BY <1>6, <1>16 DEF PageInv

-----------------------------------------------------------------------------
(* resize and remove.                                                      *)

\* The page when the slot at index has got another length: the slots in front
\* of it have moved, with their bytes.
Shifted(page, index, len_new) ==
    LET orig == pointers[index]
        incr == len_new - orig.len
        n    == Len(pointers)
    IN  /\ page.free = free_space_offset - incr
        /\ page.free \in 0 .. Capacity /\ PointerSize * n <= page.free
        /\ page.pointers \in Seq(Pointers) /\ Len(page.pointers) = n
        /\ page.pointers[index].len = len_new
        /\ page.pointers[index].offset =
             IF len_new = 0 THEN page.free ELSE orig.offset - incr
        /\ \A i \in 1 .. n : i # index =>
             /\ page.pointers[i].len = pointers[i].len
             /\ page.pointers[i].offset =
                  IF pointers[i].offset <= orig.offset THEN pointers[i].offset - incr
                                                       ELSE pointers[i].offset
             /\ Content(page.pointers[i], page.body) = Content(pointers[i], body)

LEMMA ResizedShifts ==
  ASSUME Capacity < 65536, Laid(pointers, free_space_offset),
         NEW index \in 1 .. NumSlots, NEW len_new \in Nat,
         len_new - pointers[index].len <= FreeSpace, len_new # pointers[index].len
  PROVE  Shifted(Resized(index, len_new), index, len_new)
  <1> DEFINE n == NumSlots
             free == free_space_offset
             orig == pointers[index]
             incr == len_new - orig.len
             page == Resized(index, len_new)
             off(i) == pointers[i].offset
             len(i) == pointers[i].len
             front(i) == off(i) <= orig.offset
  <1>1. /\ pointers \in Seq(Pointers) /\ n \in Nat /\ n = Len(pointers) /\ index \in 1 .. n
        /\ Capacity \in Nat /\ free \in Nat /\ free <= Capacity
        /\ \A i \in 1 .. n : pointers[i] \in Pointers /\ off(i) \in Nat /\ len(i) \in Nat
    BY LaidTypes DEF NumSlots
  <1>2. /\ PointerSize * n <= free
        /\ \A i \in 1 .. n : len(i) >= 1 /\ free <= off(i) /\ off(i) + len(i) <= Capacity
        /\ \A i, j \in 1 .. n : i # j => off(i) + len(i) <= off(j) \/ off(j) + len(j) <= off(i)
    BY DEF Laid, NumSlots
  <1>3. /\ orig.offset \in Nat /\ orig.len \in Nat /\ orig.len >= 1 /\ free <= orig.offset
        /\ orig.offset + orig.len <= Capacity
    BY <1>1, <1>2
  <1>4. incr \in Int /\ incr # 0 /\ incr = len_new - orig.len /\ len_new = orig.len + incr
    BY <1>1, <1>3
  <1>15. incr <= free - PointerSize * n /\ PointerSize * n \in Nat
    BY <1>1, <1>3 DEF FreeSpace, PointerSize
  <1> HIDE DEF orig, incr, n, free
  <1>5. free - incr \in 0 .. Capacity /\ PointerSize * n <= free - incr /\ free - incr \in Nat
    <2> DEFINE ps == PointerSize * n
               end == orig.offset
               room == orig.len
    <2>1. /\ incr \in Int /\ incr = len_new - room /\ incr <= free - ps /\ ps \in Nat
          /\ free \in Nat /\ end \in Nat /\ room \in Nat /\ free <= end /\ end + room <= Capacity
          /\ len_new \in Nat /\ Capacity \in Nat
      BY <1>1, <1>3, <1>4, <1>15
    <2> HIDE DEF ps, end, room
    <2>2. ps <= free - incr /\ free - incr \in Nat /\ free - incr <= Capacity
      BY <2>1
    <2> QED BY <1>1, <2>2 DEF ps
  <1>16. free - incr \in Nat /\ free - incr <= Capacity /\ orig.offset - incr <= Capacity
    <2> DEFINE s == orig.offset
               l == orig.len
    <2>1. /\ incr \in Int /\ len_new \in Nat /\ len_new = l + incr /\ s \in Nat /\ l \in Nat
          /\ s + l <= Capacity /\ Capacity \in Nat
      BY <1>1, <1>3, <1>4
    <2> HIDE DEF s, l
    <2>2. s - incr <= Capacity
      BY <2>1
    <2>3. free - incr \in Nat /\ free - incr <= Capacity
      BY <1>5, <2>1
    <2> QED BY <2>2, <2>3 DEF s
  <1>17. n \in Nat /\ Capacity \in Nat /\ free \in Nat /\ free <= Capacity /\ incr \in Int
    BY <1>1, <1>4
  <1>18. /\ orig.offset \in Nat /\ orig.offset <= Capacity /\ free <= orig.offset
         /\ len_new \in 0 .. Capacity
    <2> DEFINE s == orig.offset
               l == orig.len
    <2>1. /\ s \in Nat /\ l \in Nat /\ s + l <= Capacity /\ free <= s /\ len_new = l + incr /\ len_new \in Nat
      BY <1>3, <1>4
    <2>2. s - incr <= Capacity /\ free - incr \in Nat
      BY <1>16
    <2> HIDE DEF s, l
    <2>3. len_new <= Capacity /\ s <= Capacity
      BY <1>17, <2>1, <2>2
    <2> QED BY <1>17, <2>1, <2>3 DEF s
  <1>19. \A i \in 1 .. n : off(i) \in Nat /\ free <= off(i)
    <2> TAKE i \in 1 .. n
    <2>1. off(i) \in Nat
      BY <1>1
    <2>2. free <= off(i)
      BY <1>2
    <2> QED BY <2>1, <2>2
  <1>6. ASSUME NEW i \in 1 .. n, front(i)
        PROVE  off(i) - incr \in 0 .. Capacity /\ off(i) - incr \in Nat
    <2> DEFINE s == orig.offset
               o == off(i)
    <2>1. /\ free <= o /\ o \in Nat /\ o <= s /\ s \in Nat
          /\ free - incr \in Nat /\ s - incr <= Capacity
      BY <1>6, <1>16, <1>18, <1>19
    <2> HIDE DEF s, o
    <2>2. o - incr \in Nat /\ o - incr <= Capacity
      BY <1>17, <2>1
    <2> QED BY <1>17, <2>2 DEF o
  <1>7. U16(free - incr) = free - incr
    <2>1. free - incr \in 0 .. Capacity
      BY <1>5
    <2> QED BY <2>1, FitsU16
  <1>8. \A i \in 1 .. n : front(i) => U16(off(i) - incr) = off(i) - incr
    BY <1>6, FitsU16
  <1> DEFINE moved(p) == IF Moves(p, orig) THEN [p EXCEPT !.offset = U16(@ - incr)] ELSE p
             target   == [offset |-> IF len_new = 0 THEN U16(free - incr) ELSE moved(orig).offset,
                          len    |-> len_new]
             ps == [i \in DOMAIN pointers |-> IF i = index THEN target ELSE moved(pointers[i])]
             b  == CopyWithin(body, free, orig.offset, U16(free - incr))
  <1>9. page.pointers = ps /\ page.free = free - incr /\ page.body = b
    <2>1. page = [pointers |-> ps, free |-> U16(free - incr), body |-> b]
      BY <1>4 DEF Resized, orig, incr, free
    <2> HIDE DEF page, ps, b
    <2> QED BY <1>7, <2>1
  <1>10. ASSUME NEW i \in 1 .. n
         PROVE  /\ moved(pointers[i]).len = len(i)
                /\ moved(pointers[i]).offset = IF front(i) THEN off(i) - incr ELSE off(i)
                /\ moved(pointers[i]) \in Pointers
    <2> DEFINE p == pointers[i]
    <2>1. p \in Pointers /\ p = [offset |-> p.offset, len |-> p.len]
          /\ p.offset \in 0 .. Capacity /\ p.len \in 0 .. Capacity
      BY <1>1 DEF Pointers
    <2>2. CASE front(i)
      <3>1. p.offset <= orig.offset /\ U16(p.offset - incr) = p.offset - incr /\ p.offset - incr \in 0 .. Capacity
        BY <1>6, <1>8, <2>2
      <3> HIDE DEF p
      <3>2. moved(p) = [offset |-> p.offset - incr, len |-> p.len]
        BY <2>1, <3>1 DEF Moves
      <3> HIDE DEF moved
      <3>3. moved(p).len = p.len /\ moved(p).offset = p.offset - incr /\ moved(p) \in Pointers
        BY <2>1, <3>1, <3>2 DEF Pointers
      <3> QED BY <2>2, <3>3 DEF p
    <2>3. CASE ~front(i)
      <3>1. moved(p) = p
        BY <2>3 DEF Moves
      <3> QED BY <2>1, <2>3, <3>1
    <2> QED BY <2>2, <2>3
  <1> HIDE DEF moved
  <1>11. /\ target.len = len_new /\ target \in Pointers
         /\ target.offset = IF len_new = 0 THEN free - incr ELSE orig.offset - incr
    <2> DEFINE p == moved(orig)
    <2>1. p.len = orig.len /\ p.offset = orig.offset - incr /\ p \in Pointers
      BY <1>1, <1>3, <1>10 DEF orig
    <2>2. p = [offset |-> p.offset, len |-> p.len] /\ p.offset \in 0 .. Capacity
      BY <2>1 DEF Pointers
    <2>3. target = [offset |-> IF len_new = 0 THEN free - incr ELSE p.offset, len |-> len_new]
      BY <1>7
    <2> HIDE DEF p
    <2>4. len_new \in 0 .. Capacity
      BY <1>18
    <2> HIDE DEF target
    <2>5. /\ target.len = len_new
          /\ target.offset = IF len_new = 0 THEN free - incr ELSE p.offset
          /\ target \in Pointers
      BY <1>16, <2>2, <2>3, <2>4 DEF Pointers
    <2> QED BY <2>1, <2>5
  <1> HIDE DEF target
  <1>12. /\ ps \in Seq(Pointers) /\ Len(ps) = n /\ ps[index] = target
         /\ \A i \in 1 .. n : i # index => ps[i] = moved(pointers[i])
    <2>1. DOMAIN pointers = 1 .. n
      BY <1>1
    <2>2. ps \in [1 .. n -> Pointers]
      BY <1>10, <1>11, <2>1
    <2>3. ps[index] = target /\ \A i \in 1 .. n : i # index => ps[i] = moved(pointers[i])
      BY <1>1, <2>1
    <2> HIDE DEF ps
    <2>4. ps \in Seq(Pointers) /\ Len(ps) = n
      BY <1>17, <2>2
    <2> QED BY <2>3, <2>4
  <1> HIDE DEF ps
  \* The bytes of the other slots.
  <1>13. ASSUME NEW i \in 1 .. n, i # index
         PROVE  Content(ps[i], b) = Content(pointers[i], body)
    <2> DEFINE p == pointers[i]
               q == ps[i]
    <2>1. /\ q.len = p.len /\ q.offset = (IF front(i) THEN off(i) - incr ELSE off(i))
          /\ p.offset \in Nat /\ p.len \in Nat /\ p.len >= 1 /\ free <= p.offset
          /\ p.offset + p.len <= Capacity
          /\ p.offset + p.len <= orig.offset \/ orig.offset + orig.len <= p.offset
      BY <1>1, <1>2, <1>10, <1>12, <1>13 DEF orig
    <2>2. p.offset = off(i) /\ (front(i) <=> p.offset <= orig.offset)
      OBVIOUS
    <2> DEFINE first == free - incr
               last == free - incr + (orig.offset - free) - 1
    <2>3. \A o \in Offsets : b[o] = IF o \in first .. last THEN body[o - first + free] ELSE body[o]
      BY <1>7 DEF CopyWithin
    <2> HIDE DEF p, q, b
    <2>4. ASSUME NEW j \in 1 .. q.len PROVE b[q.offset + j - 1] = body[p.offset + j - 1]
      <3>1. j \in 1 .. p.len
        BY <2>1
      <3>2. CASE p.offset <= orig.offset
        <4>1. q.offset = p.offset - incr /\ p.offset + p.len <= orig.offset
          BY <1>3, <2>1, <2>2, <3>2
        <4> DEFINE o == q.offset + j - 1
                   po == p.offset
                   pl == p.len
                   oo == orig.offset
        <4>2. /\ po \in Nat /\ pl \in Nat /\ j \in 1 .. pl /\ free \in Nat /\ free <= po
              /\ po + pl <= oo /\ oo \in Nat /\ oo <= Capacity /\ Capacity \in Nat /\ incr \in Int
              /\ free - incr \in Nat /\ o = po - incr + j - 1
          <5>1. po + pl <= oo /\ free <= po /\ j \in 1 .. pl /\ o = po - incr + j - 1
            BY <2>1, <3>1, <4>1
          <5>2. oo <= Capacity
            BY <1>1, <1>3
          <5> QED BY <1>1, <1>3, <1>4, <1>16, <2>1, <5>1, <5>2
        <4> HIDE DEF o, po, pl, oo
        <4>6. oo - incr <= Capacity
          BY <1>16 DEF oo
        <4>5. /\ o \in 0 .. (Capacity - 1) /\ o \in (free - incr) .. (free - incr + (oo - free) - 1)
              /\ o - (free - incr) + free = po + j - 1
          BY <4>2, <4>6
        <4>4. o \in Offsets /\ o \in first .. last /\ o - first + free = p.offset + j - 1
          BY <4>5 DEF Offsets, po, oo
        <4> HIDE DEF o, first, last
        <4>3. b[o] = body[o - first + free]
          BY <2>3, <4>4
        <4> QED BY <4>4, <4>3 DEF o
      <3>3. CASE ~(p.offset <= orig.offset)
        <4>1. q.offset = p.offset /\ orig.offset + orig.len <= p.offset
          BY <1>3, <2>1, <2>2, <3>3
        <4> DEFINE o == q.offset + j - 1
        <4>2. o \in Offsets /\ o \notin first .. last /\ o = p.offset + j - 1
          <5> DEFINE po == p.offset
                     pl == p.len
                     oo == orig.offset
          <5>1. /\ po \in Nat /\ pl \in Nat /\ j \in 1 .. pl /\ po + pl <= Capacity
                /\ oo <= po /\ oo \in Nat /\ o = po + j - 1
            BY <1>3, <2>1, <3>1, <4>1
          <5>2. oo - incr <= po
            <6> DEFINE l == orig.len
            <6>1. len_new \in Nat /\ len_new = l + incr /\ l \in Nat /\ oo + l <= po
              BY <1>3, <1>4, <4>1
            <6> HIDE DEF oo, po, l
            <6> QED BY <1>17, <5>1, <6>1
          <5> HIDE DEF po, pl, oo, o
          <5>3. o \in 0 .. (Capacity - 1) /\ o \notin (free - incr) .. (free - incr + (oo - free) - 1)
            BY <1>17, <5>1, <5>2
          <5> QED BY <5>1, <5>3 DEF Offsets, po, oo
        <4> HIDE DEF o, first, last
        <4>3. b[o] = body[o]
          BY <2>3, <4>2
        <4> QED BY <4>2, <4>3 DEF o
      <3> QED BY <3>2, <3>3
    <2>5. Content(q, b) = Content(p, body)
      BY <2>1, <2>4, SameContent
    <2> QED BY <2>5 DEF p, q
  <1>14. /\ page.free = free - incr /\ page.free \in 0 .. Capacity /\ PointerSize * n <= page.free
         /\ page.pointers \in Seq(Pointers) /\ Len(page.pointers) = n
         /\ page.pointers[index].len = len_new
         /\ page.pointers[index].offset = IF len_new = 0 THEN page.free ELSE orig.offset - incr
         /\ \A i \in 1 .. n : i # index =>
              /\ page.pointers[i].len = len(i)
              /\ page.pointers[i].offset = IF front(i) THEN off(i) - incr ELSE off(i)
              /\ Content(page.pointers[i], page.body) = Content(pointers[i], body)
    <2> HIDE DEF page, b
    <2> QED BY <1>5, <1>9, <1>10, <1>11, <1>12, <1>13
  <1> HIDE DEF page
  <1> QED BY <1>1, <1>14 DEF Shifted, orig, incr, free, page

-----------------------------------------------------------------------------
\* How the slots lie in the page when the slot at index has got another length.
LaidAround(page, index, len_new) ==
    LET n       == Len(page.pointers)
        off(i)  == page.pointers[i].offset
        end(i)  == page.pointers[i].offset + page.pointers[i].len
        Others  == (1 .. n) \ {index}
    IN  /\ \A i \in Others : /\ page.pointers[i].len >= 1
                             /\ page.free <= off(i) /\ end(i) <= Capacity
        /\ \A i, j \in Others : i # j => end(i) <= off(j) \/ end(j) <= off(i)
        /\ \A o \in page.free .. (Capacity - 1) :
              \/ \E i \in Others : off(i) <= o /\ o < end(i)
              \/ len_new >= 1 /\ off(index) <= o /\ o < end(index)
        /\ len_new >= 1 => /\ page.free <= off(index) /\ end(index) <= Capacity
                           /\ \A i \in Others : end(i) <= off(index) \/ end(index) <= off(i)

LEMMA ShiftedLaid ==
  ASSUME Laid(pointers, free_space_offset),
         NEW index \in 1 .. NumSlots, NEW len_new \in Nat,
         NEW page, Shifted(page, index, len_new)
  PROVE  LaidAround(page, index, len_new)
  <1> DEFINE n == NumSlots
             free == free_space_offset
             new == page.free
             s == pointers[index].offset
             l == pointers[index].len
             incr == len_new - l
             off(i) == pointers[i].offset
             len(i) == pointers[i].len
             off2(i) == page.pointers[i].offset
             len2(i) == page.pointers[i].len
             Others == (1 .. n) \ {index}
  <1>1. /\ n \in Nat /\ n = Len(pointers) /\ index \in 1 .. n
        /\ Capacity \in Nat /\ free \in Nat /\ free <= Capacity
        /\ \A i \in 1 .. n : off(i) \in Nat /\ len(i) \in Nat
    BY LaidTypes DEF NumSlots
  <1>2. /\ \A i \in 1 .. n : len(i) >= 1 /\ free <= off(i) /\ off(i) + len(i) <= Capacity
        /\ \A i, j \in 1 .. n : i # j => off(i) + len(i) <= off(j) \/ off(j) + len(j) <= off(i)
        /\ \A o \in free .. (Capacity - 1) :
              \E i \in 1 .. n : off(i) <= o /\ o < off(i) + len(i)
    BY DEF Laid, NumSlots
  <1>3. /\ new = free - incr /\ new \in Nat /\ new <= Capacity /\ Len(page.pointers) = n
        /\ len2(index) = len_new /\ (len_new >= 1 => off2(index) = s - incr)
        /\ \A i \in Others :
             len2(i) = len(i) /\ off2(i) = IF off(i) <= s THEN off(i) - incr ELSE off(i)
    <2>1. new \in 0 .. Capacity
      BY DEF Shifted
    <2>2. new \in Nat /\ new <= Capacity
      BY <1>1, <2>1
    <2> QED BY <1>1, <2>2 DEF Shifted
  <1>4. s \in Nat /\ l \in Nat /\ l >= 1 /\ free <= s /\ s + l <= Capacity
    BY <1>1, <1>2
  <1>15. incr = len_new - l /\ len_new \in Nat
    OBVIOUS
  <1>8. index \in 1 .. n /\ index \notin Others /\ Others \subseteq 1 .. n
        /\ \A i \in 1 .. n : i # index => i \in Others
    BY <1>1
  <1>9. off(index) = s /\ len(index) = l
    OBVIOUS
  <1> HIDE DEF n, free, new, s, l, incr, off, len, off2, len2, Others
  <1>5. /\ incr \in Int /\ s - incr = s + l - len_new /\ s - incr \in Int
        /\ s - incr <= s + l /\ new <= s - incr
    BY <1>1, <1>3, <1>4, <1>15
  <1>6. \A i \in Others : off(i) <= s => off(i) + len(i) <= s
    <2> TAKE i \in Others
    <2>1. /\ off(i) \in Nat /\ len(i) \in Nat
          /\ off(i) + len(i) <= s \/ s + l <= off(i)
      BY <1>1, <1>2, <1>8, <1>9
    <2> QED BY <1>4, <2>1
  <1>7. \A i \in Others : ~(off(i) <= s) => s + l <= off(i)
    <2> TAKE i \in Others
    <2>1. /\ off(i) \in Nat /\ len(i) \in Nat /\ len(i) >= 1
          /\ off(i) + len(i) <= s \/ s + l <= off(i)
      BY <1>1, <1>2, <1>8, <1>9
    <2> QED BY <1>4, <2>1
  <1>10. \A i \in Others : /\ len2(i) >= 1 /\ len2(i) \in Nat /\ new <= off2(i) /\ off2(i) \in Nat
                           /\ off2(i) + len2(i) <= Capacity
    <2> TAKE i \in Others
    <2>1. /\ off(i) \in Nat /\ len(i) \in Nat /\ len(i) >= 1 /\ free <= off(i)
          /\ off(i) + len(i) <= Capacity
      <3>1. i \in 1 .. n
        BY <1>8
      <3>2. off(i) \in Nat /\ len(i) \in Nat
        BY <1>1, <3>1
      <3>3. len(i) >= 1 /\ free <= off(i) /\ off(i) + len(i) <= Capacity
        BY <1>2, <3>1
      <3> QED BY <3>2, <3>3
    <2>4. len2(i) = len(i) /\ off2(i) = IF off(i) <= s THEN off(i) - incr ELSE off(i)
      BY <1>3
    <2>5. /\ Capacity \in Nat /\ free \in Nat /\ new = free - incr /\ new \in Nat /\ new <= Capacity
      BY <1>1, <1>3
    <2>2. CASE off(i) <= s
      <3>1. off(i) + len(i) <= s
        BY <1>6, <2>2
      <3> QED BY <1>4, <1>5, <2>1, <2>2, <2>4, <2>5, <3>1
    <2>3. CASE ~(off(i) <= s)
      <3>1. s + l <= off(i)
        BY <1>7, <2>3
      <3> QED BY <1>4, <1>5, <2>1, <2>3, <2>4, <2>5, <3>1
    <2> QED BY <2>2, <2>3
  <1>11. ASSUME NEW i \in Others, NEW j \in Others, i # j
         PROVE  off2(i) + len2(i) <= off2(j) \/ off2(j) + len2(j) <= off2(i)
    <2>1. /\ off(i) \in Nat /\ len(i) \in Nat /\ off(j) \in Nat /\ len(j) \in Nat
          /\ off(i) + len(i) <= off(j) \/ off(j) + len(j) <= off(i)
      BY <1>1, <1>2, <1>8, <1>11
    <2>2. /\ len2(i) = len(i) /\ off2(i) = IF off(i) <= s THEN off(i) - incr ELSE off(i)
          /\ len2(j) = len(j) /\ off2(j) = IF off(j) <= s THEN off(j) - incr ELSE off(j)
      BY <1>3
    <2>3. /\ off(i) <= s => off(i) + len(i) <= s
          /\ off(j) <= s => off(j) + len(j) <= s
          /\ ~(off(i) <= s) => s + l <= off(i)
          /\ ~(off(j) <= s) => s + l <= off(j)
      BY <1>6, <1>7
    <2> QED BY <1>4, <1>5, <2>1, <2>2, <2>3
  <1>12. len_new >= 1 =>
           /\ new <= off2(index) /\ off2(index) + len2(index) = s + l
           /\ off2(index) + len2(index) <= Capacity
           /\ \A i \in Others : \/ off2(i) + len2(i) <= off2(index)
                                \/ off2(index) + len2(index) <= off2(i)
    <2> SUFFICES ASSUME len_new >= 1
                 PROVE  /\ new <= off2(index) /\ off2(index) + len2(index) = s + l
                        /\ off2(index) + len2(index) <= Capacity
                        /\ \A i \in Others : \/ off2(i) + len2(i) <= off2(index)
                                             \/ off2(index) + len2(index) <= off2(i)
      OBVIOUS
    <2>1. off2(index) = s - incr /\ len2(index) = len_new /\ off2(index) + len2(index) = s + l
      BY <1>3, <1>4, <1>5
    <2>2. ASSUME NEW i \in Others
          PROVE  off2(i) + len2(i) <= off2(index) \/ off2(index) + len2(index) <= off2(i)
      <3>1. off(i) \in Nat /\ len(i) \in Nat
        BY <1>1, <1>8
      <3>2. len2(i) = len(i) /\ off2(i) = IF off(i) <= s THEN off(i) - incr ELSE off(i)
        BY <1>3
      <3>3. /\ off(i) <= s => off(i) + len(i) <= s
            /\ ~(off(i) <= s) => s + l <= off(i)
        BY <1>6, <1>7
      <3> QED BY <1>4, <1>5, <2>1, <3>1, <3>2, <3>3
    <2> QED BY <1>4, <1>5, <2>1, <2>2
  <1>13. ASSUME NEW o \in new .. (Capacity - 1)
         PROVE  \/ \E i \in Others : off2(i) <= o /\ o < off2(i) + len2(i)
                \/ len_new >= 1 /\ off2(index) <= o /\ o < off2(index) + len2(index)
    <2>1. o \in Nat /\ new <= o /\ o < Capacity
      BY <1>1, <1>3
    <2>2. CASE s + l <= o
      <3>1. PICK i \in 1 .. n : off(i) <= o /\ o < off(i) + len(i)
        <4>1. o \in free .. (Capacity - 1)
          BY <1>1, <1>4, <2>1, <2>2
        <4> QED BY <1>2, <4>1
      <3>2. i # index
        BY <1>4, <1>9, <2>1, <2>2, <3>1
      <3>3. i \in Others /\ off(i) \in Nat /\ len(i) \in Nat
        BY <1>1, <1>8, <3>2
      <3>4. ~(off(i) <= s)
        BY <1>4, <1>6, <2>1, <2>2, <3>1, <3>3
      <3>5. off2(i) = off(i) /\ len2(i) = len(i)
        BY <1>3, <3>3, <3>4
      <3> QED BY <3>1, <3>3, <3>5
    <2>3. CASE o < s - incr
      <3> DEFINE w == o + incr
      <3>1. w \in Nat /\ free <= w /\ w < s /\ w < Capacity /\ w - incr = o
        BY <1>1, <1>3, <1>4, <1>5, <2>1, <2>3
      <3>8. w \in free .. (Capacity - 1)
        BY <1>1, <3>1
      <3> HIDE DEF w
      <3>2. PICK i \in 1 .. n : off(i) <= w /\ w < off(i) + len(i)
        BY <1>2, <3>8
      <3>3. i # index
        BY <1>4, <1>9, <3>1, <3>2
      <3>4. i \in Others /\ off(i) \in Nat /\ len(i) \in Nat
        BY <1>1, <1>8, <3>3
      <3>5. off(i) <= s
        BY <1>4, <3>1, <3>2, <3>4
      <3>6. off2(i) = off(i) - incr /\ len2(i) = len(i)
        BY <1>3, <3>4, <3>5
      <3>7. off2(i) <= o /\ o < off2(i) + len2(i)
        BY <1>5, <2>1, <3>1, <3>2, <3>4, <3>6
      <3> QED BY <3>4, <3>7
    <2>4. CASE o < s + l /\ s - incr <= o
      <3>1. len_new >= 1
        BY <1>4, <1>5, <2>1, <2>4
      <3>2. off2(index) = s - incr /\ off2(index) + len2(index) = s + l
        BY <1>3, <1>12, <3>1
      <3> QED BY <2>4, <3>1, <3>2
    <2> QED BY <1>4, <1>5, <2>1, <2>2, <2>3, <2>4
  <1>14. /\ \A i \in (1 .. Len(page.pointers)) \ {index} :
               /\ page.pointers[i].len >= 1
               /\ page.free <= page.pointers[i].offset
               /\ page.pointers[i].offset + page.pointers[i].len <= Capacity
         /\ Others = (1 .. Len(page.pointers)) \ {index} /\ page.free = new
    BY <1>3, <1>10 DEF Others, off2, len2, new
  <1> QED BY <1>11, <1>12, <1>13, <1>14, Zenon DEF LaidAround, off2, len2

-----------------------------------------------------------------------------
LEMMA ResizeKeeps ==
  ASSUME Capacity < 65536, 0 \notin Lens, PageInv,
         NEW index \in 1 .. NumSlots, NEW len_new \in Lens, Resize(index, len_new)
  PROVE  PageInv'
  <1> DEFINE n == NumSlots
             page == Resized(index, len_new)
             mine == Content(page.pointers[index], page.body)
  <1>1. /\ Laid(pointers, free_space_offset) /\ n \in Nat /\ n = Len(pointers)
        /\ pointers \in Seq(Pointers)
        /\ index \in 1 .. n /\ len_new \in Nat /\ len_new >= 1
        /\ len_new - pointers[index].len <= FreeSpace
    <2>1. Laid(pointers, free_space_offset)
      BY DEF PageInv
    <2>2. len_new \in Nat /\ len_new # 0
      BY SlottedAssumption
    <2> QED BY <2>1, <2>2, LaidTypes DEF NumSlots, Resize
  <1>2. PICK S : given \in Seq(S)
    BY DEF PageInv, Filled
  <1>3. Len(given) = n /\ \A i \in 1 .. n : Content(pointers[i], body) = given[i]
    BY DEF PageInv, Filled, NumSlots
  <1>4. /\ pointers' = page.pointers /\ free_space_offset' = page.free /\ body' = page.body
        /\ given' = [given EXCEPT ![index] = mine]
    BY DEF Resize
  <1>5. /\ given' \in Seq(S \union {mine}) /\ Len(given') = n /\ given'[index] = mine
        /\ \A i \in 1 .. n : i # index => given'[i] = given[i]
    <2> DEFINE T == S \union {mine}
    <2> HIDE DEF mine
    <2>1. S \subseteq T /\ mine \in T
      OBVIOUS
    <2> HIDE DEF T
    <2>2. given \in Seq(T)
      BY <1>2, <2>1, SeqMonotonic
    <2>3. given' \in Seq(T) /\ Len(given') = Len(given)
      BY <1>1, <1>3, <1>4, <2>1, <2>2, ExceptSeq
    <2>4. given'[index] = mine /\ \A i \in 1 .. n : i # index => given'[i] = given[i]
      BY <1>1, <1>3, <1>4, <2>2
    <2> QED BY <1>3, <2>3, <2>4 DEF T
  <1> HIDE DEF n
  <1>6. CASE len_new = pointers[index].len
    <2>1. len_new - pointers[index].len = 0
      BY <1>1, <1>6
    <2>2. page = [pointers |-> pointers, free |-> free_space_offset, body |-> body]
      BY <2>1 DEF Resized
    <2> HIDE DEF page
    <2>3. page.pointers = pointers /\ page.free = free_space_offset /\ page.body = body
      BY <2>2
    <2>4. \A i \in 1 .. n : Content(pointers'[i], body') = given'[i]
      BY <1>1, <1>3, <1>4, <1>5, <2>3
    <2>5. Laid(pointers', free_space_offset')
      BY <1>1, <1>4, <2>3
    <2>6. Filled(pointers', body', given')
      BY <1>1, <1>4, <1>5, <2>3, <2>4 DEF Filled
    <2> QED BY <2>5, <2>6 DEF PageInv
  <1>7. CASE len_new # pointers[index].len
    <2>1. Shifted(page, index, len_new)
      BY <1>1, <1>7, ResizedShifts
    <2> HIDE DEF page
    <2>2. LaidAround(page, index, len_new)
      BY <1>1, <2>1, ShiftedLaid
    <2>3. /\ page.pointers \in Seq(Pointers) /\ Len(page.pointers) = n /\ page.free \in 0 .. Capacity
          /\ PointerSize * n <= page.free /\ page.pointers[index].len = len_new
          /\ \A i \in 1 .. n : i # index => Content(page.pointers[i], page.body) = Content(pointers[i], body)
      BY <1>1, <2>1 DEF Shifted
    <2>4. Laid(page.pointers, page.free)
      <3> DEFINE off(i) == page.pointers[i].offset
                 end(i) == page.pointers[i].offset + page.pointers[i].len
                 Others == (1 .. n) \ {index}
      <3>5. \A i \in Others : page.pointers[i].len >= 1 /\ page.free <= off(i) /\ end(i) <= Capacity
        BY <2>2, <2>3 DEF LaidAround
      <3>6. \A i, j \in Others : i # j => end(i) <= off(j) \/ end(j) <= off(i)
        BY <2>2, <2>3 DEF LaidAround
      <3>7. \A o \in page.free .. (Capacity - 1) :
                  \/ \E i \in Others : off(i) <= o /\ o < end(i)
                  \/ off(index) <= o /\ o < end(index)
        BY <2>2, <2>3 DEF LaidAround
      <3>8. /\ page.free <= off(index) /\ end(index) <= Capacity
            /\ \A i \in Others : end(i) <= off(index) \/ end(index) <= off(i)
        BY <1>1, <2>2, <2>3 DEF LaidAround
      <3> HIDE DEF off, end
      <3>2. \A i \in 1 .. n : page.pointers[i].len >= 1 /\ page.free <= off(i) /\ end(i) <= Capacity
        BY <1>1, <2>3, <3>5, <3>8
      <3>3. \A i, j \in 1 .. n : i # j => end(i) <= off(j) \/ end(j) <= off(i)
        BY <3>6, <3>8
      <3>4. \A o \in page.free .. (Capacity - 1) : \E i \in 1 .. n : off(i) <= o /\ o < end(i)
        BY <1>1, <3>7
      <3> QED BY <2>3, <3>2, <3>3, <3>4 DEF Laid, off, end
    <2>5. \A i \in 1 .. n : Content(page.pointers[i], page.body) = given'[i]
      BY <1>3, <1>5, <2>3
    <2>6. Filled(page.pointers, page.body, given')
      BY <1>5, <2>3, <2>5 DEF Filled
    <2> QED BY <1>4, <2>4, <2>6 DEF PageInv
  <1> QED BY <1>6, <1>7

LEMMA RemoveKeeps ==
  ASSUME Capacity < 65536, PageInv, NEW index \in 1 .. NumSlots, RemoveSlot(index)
  PROVE  PageInv'
  <1> DEFINE n == NumSlots
             page == Resized(index, 0)
  <1>1. /\ Laid(pointers, free_space_offset) /\ n \in Nat /\ n = Len(pointers)
        /\ index \in 1 .. n /\ pointers \in Seq(Pointers)
    <2>1. Laid(pointers, free_space_offset)
      BY DEF PageInv
    <2> QED BY <2>1, LaidTypes DEF NumSlots
  <1>2. /\ pointers[index].len \in Nat /\ 0 # pointers[index].len
        /\ 0 - pointers[index].len <= FreeSpace
    <2>1. /\ pointers[index].len \in Nat /\ free_space_offset \in Nat
      BY <1>1, LaidTypes
    <2>2. pointers[index].len >= 1 /\ PointerSize * n <= free_space_offset
      BY <1>1 DEF Laid
    <2>3. FreeSpace \in Int /\ FreeSpace >= 0
      BY <1>1, <2>1, <2>2 DEF FreeSpace, PointerSize
    <2> QED BY <2>1, <2>2, <2>3
  <1>3. PICK S : given \in Seq(S)
    BY DEF PageInv, Filled
  <1>4. Len(given) = n /\ \A i \in 1 .. n : Content(pointers[i], body) = given[i]
    BY DEF PageInv, Filled, NumSlots
  <1>5. /\ pointers' = RemoveAt(page.pointers, index) /\ free_space_offset' = page.free
        /\ body' = page.body /\ given' = RemoveAt(given, index)
    BY DEF RemoveSlot
  <1>6. Shifted(page, index, 0)
    BY <1>1, <1>2, ResizedShifts
  <1> HIDE DEF page
  <1>7. LaidAround(page, index, 0)
    BY <1>1, <1>6, ShiftedLaid
  <1>8. /\ page.pointers \in Seq(Pointers) /\ Len(page.pointers) = n /\ page.free \in 0 .. Capacity
        /\ PointerSize * n <= page.free
        /\ \A i \in 1 .. n : i # index => Content(page.pointers[i], page.body) = Content(pointers[i], body)
    BY <1>1, <1>6 DEF Shifted
  <1> DEFINE off(i) == page.pointers[i].offset
             end(i) == page.pointers[i].offset + page.pointers[i].len
             Others == (1 .. n) \ {index}
  <1>9. /\ \A i \in Others : page.pointers[i].len >= 1 /\ page.free <= off(i) /\ end(i) <= Capacity
        /\ \A i, j \in Others : i # j => end(i) <= off(j) \/ end(j) <= off(i)
        /\ \A o \in page.free .. (Capacity - 1) : \E i \in Others : off(i) <= o /\ o < end(i)
    <2>1. ~(0 >= 1)
      OBVIOUS
    <2>2. \A i \in Others : page.pointers[i].len >= 1 /\ page.free <= off(i) /\ end(i) <= Capacity
      BY <1>7, <1>8 DEF LaidAround
    <2>3. \A i, j \in Others : i # j => end(i) <= off(j) \/ end(j) <= off(i)
      BY <1>7, <1>8 DEF LaidAround
    <2>4. \A o \in page.free .. (Capacity - 1) : \E i \in Others : off(i) <= o /\ o < end(i)
      BY <1>7, <1>8, <2>1 DEF LaidAround
    <2> QED BY <2>2, <2>3, <2>4
  <1> DEFINE rest == RemoveAt(page.pointers, index)
             less == RemoveAt(given, index)
             was(j) == IF j < index THEN j ELSE j + 1
             is(i) == IF i < index THEN i ELSE i - 1
  <1> HIDE DEF n
  <1>10. /\ rest \in Seq(Pointers) /\ Len(rest) = n - 1
         /\ \A j \in 1 .. n - 1 : rest[j] = IF j < index THEN page.pointers[j] ELSE page.pointers[j + 1]
    <2>1. rest \in Seq(Pointers) /\ Removed(rest, page.pointers, index)
      BY <1>1, <1>8, RemoveAtElements
    <2> QED BY <1>1, <1>8, <2>1 DEF Removed
  <1>11. /\ less \in Seq(S) /\ Len(less) = n - 1
         /\ \A j \in 1 .. n - 1 : less[j] = IF j < index THEN given[j] ELSE given[j + 1]
    <2>1. less \in Seq(S) /\ Removed(less, given, index)
      BY <1>1, <1>3, <1>4, RemoveAtElements
    <2> QED BY <1>1, <1>4, <2>1 DEF Removed
  <1> HIDE DEF rest, less
  <1>12. /\ \A j \in 1 .. n - 1 : /\ was(j) \in Others /\ was(j) \in 1 .. n
                                  /\ rest[j] = page.pointers[was(j)] /\ less[j] = given[was(j)]
         /\ \A j, l \in 1 .. n - 1 : j # l => was(j) # was(l)
         /\ \A i \in Others : is(i) \in 1 .. n - 1 /\ was(is(i)) = i
    BY <1>1, <1>10, <1>11
  <1> HIDE DEF was, is
  <1>13. Laid(rest, page.free)
    <2>1. PointerSize * Len(rest) <= page.free
      <3>1. page.free \in Nat
        BY <1>1, <1>8, LaidTypes
      <3> QED BY <1>1, <1>8, <1>10, <3>1 DEF PointerSize
    <2>2. \A j \in 1 .. n - 1 : /\ rest[j].len >= 1 /\ page.free <= rest[j].offset
                                /\ rest[j].offset + rest[j].len <= Capacity
      BY <1>9, <1>12
    <2>3. \A j, l \in 1 .. n - 1 : j # l => \/ rest[j].offset + rest[j].len <= rest[l].offset
                                            \/ rest[l].offset + rest[l].len <= rest[j].offset
      BY <1>9, <1>12
    <2>4. ASSUME NEW o \in page.free .. (Capacity - 1)
          PROVE  \E j \in 1 .. n - 1 : rest[j].offset <= o /\ o < rest[j].offset + rest[j].len
      <3>1. PICK i \in Others : off(i) <= o /\ o < end(i)
        BY <1>9
      <3>2. is(i) \in 1 .. n - 1 /\ rest[is(i)] = page.pointers[i]
        BY <1>12
      <3> QED BY <3>1, <3>2
    <2> QED BY <1>8, <1>10, <2>1, <2>2, <2>3, <2>4 DEF Laid
  <1>14. \A j \in 1 .. n - 1 : Content(rest[j], page.body) = less[j]
    <2> TAKE j \in 1 .. n - 1
    <2>1. /\ was(j) \in 1 .. n /\ was(j) # index
          /\ rest[j] = page.pointers[was(j)] /\ less[j] = given[was(j)]
      BY <1>12
    <2>2. Content(page.pointers[was(j)], page.body) = Content(pointers[was(j)], body)
      BY <1>8, <2>1
    <2> QED BY <1>4, <2>1, <2>2
  <1>15. Filled(rest, page.body, less)
    BY <1>10, <1>11, <1>14 DEF Filled
  <1> QED BY <1>5, <1>13, <1>15 DEF PageInv, rest, less

-----------------------------------------------------------------------------
LEMMA PageKept ==
  ASSUME Capacity < 65536, 0 \notin Lens
  PROVE  Spec => []PageInv
  <1>1. Init => PageInv
    <2> SUFFICES ASSUME Init PROVE PageInv
      OBVIOUS
    <2>1. Capacity \in Nat /\ Capacity \in 0 .. Capacity
      BY SlottedAssumption
    <2>2. free_space_offset = Capacity /\ pointers = <<>> /\ given = <<>>
      BY <2>1, FitsU16 DEF Init
    <2>3. Laid(<<>>, Capacity)
      BY <2>1 DEF Laid, PointerSize
    <2>4. Filled(<<>>, body, <<>>)
      <3>1. <<>> \in Seq({})
        OBVIOUS
      <3> QED BY <3>1 DEF Filled
    <2> QED BY <2>2, <2>3, <2>4 DEF PageInv
  <1>2. PageInv /\ [Next]_vars => PageInv'
    <2> SUFFICES ASSUME PageInv, [Next]_vars PROVE PageInv'
      OBVIOUS
    <2>1. ASSUME NEW index \in 1 .. NumSlots + 1, NEW len \in Lens, NEW data \in Data,
                 Insert(index, len, data)
          PROVE  PageInv'
      BY <2>1, InsertKeeps
    <2>2. ASSUME NEW index \in 1 .. NumSlots, NEW len \in Lens, Resize(index, len)
          PROVE  PageInv'
      BY <2>2, ResizeKeeps
    <2>3. ASSUME NEW index \in 1 .. NumSlots, RemoveSlot(index)
          PROVE  PageInv'
      BY <2>3, RemoveKeeps
    <2>4. CASE UNCHANGED vars
      BY <2>4 DEF PageInv, vars
    <2> QED BY <2>1, <2>2, <2>3, <2>4 DEF Next
  <1> QED BY <1>1, <1>2, PTL DEF Spec

\* The offsets stay in the body: no subtraction of resize or insert wraps.
THEOREM PageTypes ==
  ASSUME Capacity < 65536, 0 \notin Lens
  PROVE  Spec => []TypeOK
  <1>1. PageInv => TypeOK
    <2> SUFFICES ASSUME PageInv PROVE TypeOK
      OBVIOUS
    <2>1. Laid(pointers, free_space_offset) /\ Filled(pointers, body, given)
      BY DEF PageInv
    <2>2. pointers \in Seq(Pointers) /\ free_space_offset \in 0 .. Capacity
      BY <2>1 DEF Laid
    <2>3. PICK S : given \in Seq(S)
      BY <2>1 DEF Filled
    <2>4. Len(given) = Len(pointers)
      BY <2>1 DEF Filled
    <2>5. DOMAIN given = DOMAIN pointers
      BY <2>2, <2>3, <2>4
    <2> QED BY <2>2, <2>5 DEF TypeOK, Pointers
  <1> QED BY <1>1, PageKept, PTL

\* A slot holds the bytes it was given, whatever is inserted, removed or resized
\* around it: the move of the data and the adjustment of the pointers agree.
THEOREM SlotsKeepTheirData ==
  ASSUME Capacity < 65536, 0 \notin Lens
  PROVE  Spec => []SlotsKeepData
  <1>1. PageInv => SlotsKeepData
    <2> SUFFICES ASSUME PageInv PROVE SlotsKeepData
      OBVIOUS
    <2>1. pointers \in Seq(Pointers)
      BY DEF PageInv, Laid
    <2>2. DOMAIN pointers = 1 .. Len(pointers)
      BY <2>1
    <2> QED BY <2>2 DEF PageInv, Filled, SlotsKeepData
  <1> QED BY <1>1, PageKept, PTL

\* The pointers do not run into the data, and each byte behind free_space_offset
\* has exactly one slot: removing or shrinking a slot gives all its bytes back.
THEOREM BytesAreInOneSlot ==
  ASSUME Capacity < 65536, 0 \notin Lens
  PROVE  Spec => []NoSpaceLost
  <1>1. PageInv => NoSpaceLost
    <2> SUFFICES ASSUME PageInv PROVE NoSpaceLost
      OBVIOUS
    <2> DEFINE n == Len(pointers)
               free == free_space_offset
    <2>1. Laid(pointers, free)
      BY DEF PageInv
    <2>2. /\ n \in Nat /\ Capacity \in Nat /\ free \in Nat /\ free <= Capacity
          /\ DOMAIN pointers = 1 .. n
          /\ \A i \in 1 .. n : pointers[i].offset \in Nat /\ pointers[i].len \in Nat
      BY <2>1, LaidTypes
    <2>3. /\ PointerSize * n <= free
          /\ \A i \in 1 .. n : free <= pointers[i].offset
          /\ \A i, j \in 1 .. n :
                i # j => \/ pointers[i].offset + pointers[i].len <= pointers[j].offset
                         \/ pointers[j].offset + pointers[j].len <= pointers[i].offset
          /\ \A o \in free .. (Capacity - 1) : \E i \in 1 .. n :
                pointers[i].offset <= o /\ o < pointers[i].offset + pointers[i].len
      BY <2>1 DEF Laid
    <2>4. ASSUME NEW o \in Offsets
          PROVE  LET owners == {i \in DOMAIN pointers : o \in Extent(pointers[i])}
                 IN  IF o < free THEN owners = {} ELSE \E i \in owners : owners = {i}
      <3> DEFINE owners == {i \in 1 .. n : o \in Extent(pointers[i])}
      <3>1. o \in Nat /\ o < Capacity
        BY <2>2, <2>4 DEF Offsets
      <3> HIDE DEF n, free
      <3>2. \A i \in 1 .. n : o \in Extent(pointers[i])
                <=> pointers[i].offset <= o /\ o < pointers[i].offset + pointers[i].len
        BY <2>2, <3>1 DEF Extent
      <3>3. CASE o < free
        <4>1. owners = {}
          BY <2>2, <2>3, <3>1, <3>2, <3>3
        <4> QED BY <2>2, <3>3, <4>1
      <3>4. CASE ~(o < free)
        <4>1. o \in free .. (Capacity - 1)
          BY <2>2, <3>1, <3>4
        <4>2. PICK i \in 1 .. n : pointers[i].offset <= o /\ o < pointers[i].offset + pointers[i].len
          BY <2>3, <4>1
        <4>3. \A j \in 1 .. n : j # i => ~(pointers[j].offset <= o /\ o < pointers[j].offset + pointers[j].len)
          <5> TAKE j \in 1 .. n
          <5>1. j # i => \/ pointers[i].offset + pointers[i].len <= pointers[j].offset
                         \/ pointers[j].offset + pointers[j].len <= pointers[i].offset
            BY <2>3
          <5>2. /\ pointers[i].offset \in Nat /\ pointers[i].len \in Nat
                /\ pointers[j].offset \in Nat /\ pointers[j].len \in Nat
            BY <2>2
          <5> QED BY <3>1, <4>2, <5>1, <5>2
        <4>4. i \in owners /\ owners = {i}
          BY <3>2, <4>2, <4>3
        <4> QED BY <2>2, <3>4, <4>4
      <3> QED BY <3>3, <3>4
    <2> QED BY <2>3, <2>4 DEF NoSpaceLost, NumSlots
  <1> QED BY <1>1, PageKept, PTL

=============================================================================

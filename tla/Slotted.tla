------------------------------- MODULE Slotted -------------------------------
(***************************************************************************)
(* A slotted page (src/slotted.rs): the pointers grow from the front of    *)
(* the body, the data from its end, and removing or resizing a slot moves  *)
(* the data in front of it.  insert is followed by the copy of the data    *)
(* into the slot, as every caller does.  An insert or resize without room  *)
(* returns None and changes nothing.  Slots are counted from 1 here.        *)
(***************************************************************************)
EXTENDS Integers, Sequences, SequencesExt

CONSTANTS
    Capacity,  \* the length of the body
    Lens,      \* lengths of data
    Data       \* what callers store

ASSUME SlottedAssumption == Capacity \in Nat /\ Lens \subseteq Nat

PointerSize == 4

VARIABLES
    pointers,           \* the pointers of the slots, num_slots of them
    free_space_offset,
    body,               \* the bytes of the body behind the pointers
    given               \* history: the bytes that each slot was given

vars == <<pointers, free_space_offset, body, given>>

Offsets == 0 .. (Capacity - 1)
U16(n) == n % 65536

\* Byte j of data, so that a byte tells where it belongs.
Bytes(data, len) == [j \in 1 .. len |-> <<data, j>>]
Zero == <<"zero", 0>>

NumSlots == Len(pointers)
FreeSpace == free_space_offset - PointerSize * NumSlots

Content(p, b) == [j \in 1 .. p.len |-> b[p.offset + j - 1]]

\* Mutant of CopyWithin: the last byte is left out.
CopyWithinShort(b, first, last, dest) ==
    [o \in Offsets |-> IF o \in dest .. dest + (last - first) - 2
                       THEN b[o - dest + first] ELSE b[o]]

\* slice::copy_within: the bytes from first up to but not last, to dest.
CopyWithin(b, first, last, dest) ==
    [o \in Offsets |-> IF o \in dest .. dest + (last - first) - 1
                       THEN b[o - dest + first] ELSE b[o]]

\* Slotted::initialize on a new page.
Init ==
    /\ pointers = <<>>
    /\ free_space_offset = U16(Capacity)
    /\ body = [o \in Offsets |-> Zero]
    /\ given = <<>>

-----------------------------------------------------------------------------
\* Mutant of HasRoom: the new pointer is not counted.
HasRoomForData(len) == FreeSpace >= len

HasRoom(len) == FreeSpace >= PointerSize + len

Insert(index, len, data) ==
    /\ HasRoom(len)
    /\ LET offset == U16(free_space_offset - len)
       IN  /\ free_space_offset' = offset
           /\ pointers' = InsertAt(pointers, index, [offset |-> offset, len |-> len])
           /\ body' = [o \in Offsets |-> IF o \in offset .. offset + len - 1
                                         THEN Bytes(data, len)[o - offset + 1]
                                         ELSE body[o]]
    /\ given' = InsertAt(given, index, Bytes(data, len))

\* A pointer that resize adjusts: its data is not behind that of the slot.
Moves(p, orig) == p.offset <= orig.offset

\* The page after resize, when it returns Some.
Resized(index, len_new) ==
    LET orig     == pointers[index]
        len_incr == len_new - orig.len
        free_new == U16(free_space_offset - len_incr)
        moved(p) == IF Moves(p, orig)
                    THEN [p EXCEPT !.offset = U16(@ - len_incr)] ELSE p
        target   == [offset |-> IF len_new = 0 THEN free_new ELSE moved(orig).offset,
                     len    |-> len_new]
    IN  IF len_incr = 0
        THEN [pointers |-> pointers, free |-> free_space_offset, body |-> body]
        ELSE [pointers |-> [i \in DOMAIN pointers |->
                              IF i = index THEN target ELSE moved(pointers[i])],
              free     |-> free_new,
              body     |-> CopyWithin(body, free_space_offset, orig.offset, free_new)]

Resize(index, len_new) ==
    /\ len_new - pointers[index].len <= FreeSpace
    /\ LET page == Resized(index, len_new)
       IN  /\ pointers' = page.pointers
           /\ free_space_offset' = page.free
           /\ body' = page.body
           \* What the slot itself now holds is up to its owner.
           /\ given' = [given EXCEPT ![index] =
                          Content(page.pointers[index], page.body)]

\* Mutant of RemoveSlot: num_slots is not decremented.
RemoveSlotKeepsPointer(index) ==
    LET page == Resized(index, 0)
    IN  /\ pointers' = page.pointers
        /\ free_space_offset' = page.free
        /\ body' = page.body
        /\ given' = RemoveAt(given, index)

RemoveSlot(index) ==
    LET page == Resized(index, 0)
    IN  /\ pointers' = RemoveAt(page.pointers, index)
        /\ free_space_offset' = page.free
        /\ body' = page.body
        /\ given' = RemoveAt(given, index)

Next ==
    \/ \E index \in 1 .. NumSlots + 1, len \in Lens, data \in Data :
         Insert(index, len, data)
    \/ \E index \in 1 .. NumSlots, len \in Lens : Resize(index, len)
    \/ \E index \in 1 .. NumSlots : RemoveSlot(index)

Spec == Init /\ [][Next]_vars

-----------------------------------------------------------------------------
TypeOK ==
    /\ pointers \in Seq([offset : 0 .. Capacity, len : 0 .. Capacity])
    /\ free_space_offset \in 0 .. Capacity
    /\ DOMAIN given = DOMAIN pointers

\* Whatever is inserted, removed or resized around it, a slot holds the bytes it
\* was given (the moves of data and the adjustment of pointers in resize).
SlotsKeepData ==
    \A i \in DOMAIN pointers : Content(pointers[i], body) = given[i]

Extent(p) == p.offset .. p.offset + p.len - 1

\* The pointers do not run into the data, and each byte from free_space_offset to
\* the end belongs to exactly one slot: a removed slot's space is free again.
NoSpaceLost ==
    /\ PointerSize * NumSlots <= free_space_offset
    /\ \A o \in Offsets :
          LET owners == {i \in DOMAIN pointers : o \in Extent(pointers[i])}
          IN  IF o < free_space_offset THEN owners = {}
              ELSE \E i \in owners : owners = {i}

=============================================================================

------------------------------ MODULE Memcmpable ------------------------------
(***************************************************************************)
(* The encoding of byte strings (src/memcmpable.rs) and of tuples of them  *)
(* (src/tuple.rs) whose bytes compare as the tuples do.  A string is cut   *)
(* into blocks; the last byte of a block is its marker: the number of its  *)
(* bytes in the last block, ESCAPE_LENGTH in the others.  Encode says what *)
(* the loop of the code, which is in KeyLookup, puts at each place.        *)
(***************************************************************************)
EXTENDS TupleOrder, SequencesExt

CONSTANT ESCAPE_LENGTH  \* the length of a block with its marker, 9 in the code

ASSUME MemcmpableAssumption == ESCAPE_LENGTH \in 2 .. 255

BlockLen == ESCAPE_LENGTH - 1

-----------------------------------------------------------------------------
(* The orders that the encoding keeps.                                     *)

BytesLess(a, b) == NumbersLess(a, b)

\* The order of tuples, element by element.
TupleLess(s, t) == Precedes(s, t, BytesLess)

-----------------------------------------------------------------------------
(* encode.                                                                 *)

\* An empty string has a block, too.
Blocks(len) == IF len = 0 THEN 1 ELSE (len + BlockLen - 1) \div BlockLen

\* Byte k of block b, both counted from 0.
EncodedByte(src, b, k) ==
    LET start == b * BlockLen
        rest  == Len(src) - start
    IN  IF k < BlockLen
        THEN IF k < rest THEN src[start + k + 1] ELSE 0
        ELSE IF rest <= BlockLen THEN rest ELSE ESCAPE_LENGTH

Encode(src) ==
    [p \in 1 .. Blocks(Len(src)) * ESCAPE_LENGTH |->
        EncodedByte(src, (p - 1) \div ESCAPE_LENGTH, (p - 1) % ESCAPE_LENGTH)]

EncodeTuple(elems) == FlattenSeq([i \in DOMAIN elems |-> Encode(elems[i])])

=============================================================================

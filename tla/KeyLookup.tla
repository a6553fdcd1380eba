------------------------------ MODULE KeyLookup ------------------------------
(***************************************************************************)
(* How a row is found by its key: the tuple is encoded (tuple::encode, one *)
(* step per block), the encoding is searched among the keys of a leaf      *)
(* (BSearch, one step per turn), and the key of the pair at the slot where *)
(* the search ends is decoded (tuple::decode, one step per block).         *)
(***************************************************************************)
EXTENDS BSearch, Memcmpable

CONSTANTS
    Stores,  \* the sets of tuples a leaf may hold
    Targets  \* the tuples that are searched

Byte == 0 .. 255
Tuples == Seq(Seq(Byte))

ASSUME KeyLookupAssumption ==
    /\ \A t \in Targets : t \in Tuples
    /\ \A S \in Stores : IsFiniteSet(S) /\ \A t \in S : t \in Tuples

VARIABLES
    stored,  \* history: the tuples whose encodings the leaf holds
    keys,    \* the keys of the leaf
    target,  \* the tuple that is searched
    pc,      \* "encode", "search", "decode" or "done"
    elems,   \* encode: what is left of the target; decode: elements so far
    src,     \* decode: the bytes that are left
    dst      \* encode: bytes so far; decode: the element so far

leaf == <<stored, keys, target>>
codec == <<elems, src, dst>>
search == <<n, f, left, right, size, result>>

LookupInit ==
    /\ stored \in Stores
    /\ keys = Ascending({EncodeTuple(t) : t \in stored}, BytesLess)
    /\ target \in Targets
    /\ pc = "encode"
    /\ elems = target /\ src = <<>> /\ dst = <<>>
    /\ n = 0 /\ f = <<>> /\ left = 0 /\ right = 0 /\ size = 0
    /\ result = <<"none", 0>>

-----------------------------------------------------------------------------
(* tuple::encode, memcmpable::encode                                       *)

Elem == Head(elems)

EncodeFullBlock ==
    /\ pc = "encode" /\ elems # <<>> /\ Len(Elem) > BlockLen
    /\ dst' = dst \o SubSeq(Elem, 1, BlockLen) \o <<ESCAPE_LENGTH>>
    /\ elems' = <<SubSeq(Elem, BlockLen + 1, Len(Elem))>> \o Tail(elems)
    /\ UNCHANGED <<leaf, pc, src, search>>

\* Mutant of EncodeLastBlock: the marker does not tell data from padding.
EncodeLastBlockUncounted ==
    /\ pc = "encode" /\ elems # <<>> /\ Len(Elem) <= BlockLen
    /\ dst' = dst \o [k \in 1 .. BlockLen |-> IF k <= Len(Elem) THEN Elem[k] ELSE 0]
                  \o <<BlockLen>>
    /\ elems' = Tail(elems)
    /\ UNCHANGED <<leaf, pc, src, search>>

EncodeLastBlock ==
    /\ pc = "encode" /\ elems # <<>> /\ Len(Elem) <= BlockLen
    /\ dst' = dst \o [k \in 1 .. BlockLen |-> IF k <= Len(Elem) THEN Elem[k] ELSE 0]
                  \o <<Len(Elem)>>
    /\ elems' = Tail(elems)
    /\ UNCHANGED <<leaf, pc, src, search>>

-----------------------------------------------------------------------------
(* Leaf::search_slot_id, and Iter::get at the slot                         *)

Compare(key) ==
    IF BytesLess(key, dst) THEN "Less" ELSE IF key = dst THEN "Equal" ELSE "Greater"

BeginSearch ==
    /\ pc = "encode" /\ elems = <<>>
    /\ pc' = "search"
    /\ n' = Len(keys) /\ f' = [i \in 0 .. Len(keys) - 1 |-> Compare(keys[i + 1])]
    /\ left' = 0 /\ right' = Len(keys) /\ size' = Len(keys)
    /\ UNCHANGED <<leaf, codec, result>>

Search == pc = "search" /\ Next /\ UNCHANGED <<leaf, pc, codec>>

TakePair ==
    /\ pc = "search" /\ ~Running
    /\ result[2] < n
    /\ pc' = "decode"
    /\ src' = keys[result[2] + 1] /\ dst' = <<>>
    /\ UNCHANGED <<leaf, elems, search>>

NoPair ==
    /\ pc = "search" /\ ~Running
    /\ result[2] >= n
    /\ pc' = "done"
    /\ UNCHANGED <<leaf, codec, search>>

-----------------------------------------------------------------------------
(* tuple::decode, memcmpable::decode.  A rest that is shorter than a block *)
(* is a panic: nothing follows.                                            *)

Extra == src[ESCAPE_LENGTH]

NextBlock ==
    /\ pc = "decode" /\ Len(src) >= ESCAPE_LENGTH
    /\ src' = SubSeq(src, ESCAPE_LENGTH + 1, Len(src))

DecodeFullBlock ==
    /\ NextBlock
    /\ Extra >= ESCAPE_LENGTH
    /\ dst' = dst \o SubSeq(src, 1, BlockLen)
    /\ UNCHANGED <<leaf, pc, elems, search>>

\* Mutant of DecodeLastBlock: a full block is never the last.
DecodeLastBlockShort ==
    /\ NextBlock
    /\ Extra < BlockLen
    /\ elems' = Append(elems, dst \o SubSeq(src, 1, Extra))
    /\ dst' = <<>>
    /\ UNCHANGED <<leaf, pc, search>>

DecodeLastBlock ==
    /\ NextBlock
    /\ Extra < ESCAPE_LENGTH
    /\ elems' = Append(elems, dst \o SubSeq(src, 1, Extra))
    /\ dst' = <<>>
    /\ UNCHANGED <<leaf, pc, search>>

Decoded ==
    /\ pc = "decode" /\ src = <<>>
    /\ pc' = "done"
    /\ UNCHANGED <<leaf, codec, search>>

LookupNext ==
    \/ EncodeFullBlock \/ EncodeLastBlock
    \/ BeginSearch \/ Search \/ TakePair \/ NoPair
    \/ DecodeFullBlock \/ DecodeLastBlock \/ Decoded

LookupSpec ==
    LookupInit /\ [][LookupNext]_<<leaf, pc, codec, search>> /\ WF_<<leaf, pc, codec, search>>(LookupNext)

-----------------------------------------------------------------------------
\* The loop of encode writes what Encode states, element after element.
EncodesAsStated == pc = "search" => dst = EncodeTuple(target)

\* What is found is the least tuple, in the order of tuples, that is not below
\* the target, and none only if there is none: encoding keeps the order of
\* tuples, whatever the lengths of their elements, and decode inverts it.
FindsLeastNotBelow ==
    pc = "done" =>
        LET above == {t \in stored : ~TupleLess(t, target)}
        IN  IF result[2] = n THEN above = {}
            ELSE elems \in above /\ \A t \in above \ {elems} : TupleLess(elems, t)

\* Encoding, search and decoding end, and decode is never left with a part of a
\* block, where its index would panic.
LookupEnds == <>(pc = "done")

=============================================================================

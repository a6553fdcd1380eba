---------------------------- MODULE OrderedIndex ----------------------------
(***************************************************************************)
(* What a B+tree promises: a set of keys to which insert adds one, all or  *)
(* nothing, and a scan that returns, in order, every key not below its     *)
(* start.  An insert that splits a node moves an open scan to some other   *)
(* key, or before a gap: once it returns None although keys are left.  A   *)
(* step of the scan that fails loses the key that it would have returned,  *)
(* and leaves a gap.                                                       *)
(***************************************************************************)
EXTENDS Integers, FiniteSets, FiniteSetsExt

CONSTANTS
    Keys,  \* keys, as positive numbers in their order
    NoKey  \* the value of a scan that is over

VARIABLES
    keys,    \* the keys inserted
    doing,   \* the call that runs: "insert", "inserted" once the key is added,
             \* "search", "next", or "nothing"
    key,     \* its argument
    result,  \* of the last call, "none" while it runs
    value,   \* what the last call of the scan returned
    scan,    \* "closed" or "open"
    left,    \* the keys that an open scan has still to return
    gap      \* it returns None first

vars == <<keys, doing, key, result, value, scan, left, gap>>

Init ==
    /\ keys = {}
    /\ doing = "nothing"
    /\ key = NoKey
    /\ result = "none"
    /\ value = NoKey
    /\ scan = "closed" /\ left = {} /\ gap = FALSE

Return(res) == doing' = "nothing" /\ result' = res /\ key' = NoKey

BeginInsert ==
    /\ doing = "nothing"
    /\ doing' = "insert"
    /\ key' \in Keys
    /\ result' = "none"
    /\ UNCHANGED <<keys, value, scan, left, gap>>

\* A scan has only keys left that follow one another to the last.
Suffixes(S) == {{k \in S : k >= first} : first \in S} \union {{}}

AddKey ==
    /\ doing = "insert"
    /\ key \notin keys
    /\ keys' = keys \union {key}
    /\ IF scan = "closed" THEN UNCHANGED left ELSE left' \in Suffixes(keys')
    /\ UNCHANGED <<value, scan>>

\* No node is split: a scan skips no key, and returns at most one again.
Add ==
    /\ AddKey
    /\ Return("Ok")
    /\ left \subseteq left' /\ Cardinality(left' \ left) <= 1
    /\ gap' \in BOOLEAN /\ (gap' => gap)

\* The call has something left to do; keys have moved to another leaf.
AddAndSplit ==
    /\ AddKey
    /\ doing' = "inserted"
    /\ gap' \in IF scan = "closed" THEN {FALSE} ELSE BOOLEAN
    /\ UNCHANGED <<key, result>>

ReturnInserted ==
    /\ doing = "inserted"
    /\ Return("Ok")
    /\ UNCHANGED <<keys, value, scan, left, gap>>

RejectDuplicate ==
    /\ doing = "insert"
    /\ key \in keys
    /\ Return("DuplicateKey")
    /\ UNCHANGED <<keys, value, scan, left, gap>>

\* What a scan returns next, and what is left then.
NextKey == IF gap \/ left = {} THEN NoKey ELSE Min(left)
Rest == left \ {NextKey}

\* The call fails; not once its key is added.
Fail ==
    /\ doing \in {"insert", "search", "next"}
    /\ \E error \in {"NoFreeBuffer", "Io"} : Return(error)
    /\ IF doing = "next" THEN left' = Rest /\ gap' = TRUE ELSE UNCHANGED <<left, gap>>
    /\ UNCHANGED <<keys, value, scan>>

BeginSearch ==
    /\ doing = "nothing" /\ scan = "closed"
    /\ doing' = "search"
    /\ key' \in Keys \union {0}
    /\ result' = "none"
    /\ UNCHANGED <<keys, value, scan, left, gap>>

Open ==
    /\ doing = "search"
    /\ Return("Ok")
    /\ scan' = "open" /\ left' = {k \in keys : k >= key} /\ gap' = FALSE
    /\ UNCHANGED <<keys, value>>

BeginNext ==
    /\ doing = "nothing" /\ scan = "open"
    /\ doing' = "next"
    /\ result' = "none"
    /\ UNCHANGED <<keys, key, value, scan, left, gap>>

ReturnNext ==
    /\ doing = "next"
    /\ Return("Ok")
    /\ value' = NextKey
    /\ left' = Rest /\ gap' = FALSE
    /\ UNCHANGED <<keys, scan>>

Close ==
    /\ doing = "nothing" /\ scan = "open"
    /\ scan' = "closed" /\ left' = {} /\ gap' = FALSE
    /\ UNCHANGED <<keys, doing, key, result, value>>

Next ==
    \/ BeginInsert \/ Add \/ AddAndSplit \/ ReturnInserted \/ RejectDuplicate \/ Fail
    \/ BeginSearch \/ Open \/ BeginNext \/ ReturnNext \/ Close

Spec == Init /\ [][Next]_vars /\ WF_vars(Add \/ AddAndSplit \/ ReturnInserted
                                          \/ RejectDuplicate \/ Fail \/ Open \/ ReturnNext)

=============================================================================

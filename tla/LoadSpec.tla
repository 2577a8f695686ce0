------------------------------ MODULE LoadSpec ------------------------------
(***************************************************************************)
(* What the Load of a file promises its users (fs.go): a set of bytes that *)
(* are in the cache.  addRange and truncate change it; the queries do not. *)
(***************************************************************************)
EXTENDS Integers

CONSTANT Bytes  \* offsets of a file

VARIABLE ready  \* the offsets whose content is in the cache

Init == ready = {}

Add(start, end) == ready' = ready \cup start..(end - 1)

Trim(end) == ready' = {b \in ready : b < end}

Next ==
    \/ \E start, end \in Bytes : start <= end /\ Add(start, end)
    \/ \E end \in Bytes : Trim(end)

Spec == Init /\ [][Next]_ready
=============================================================================

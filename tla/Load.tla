-------------------------------- MODULE Load --------------------------------
(***************************************************************************)
(* The interval list of load.go: which half-open byte ranges of a file are *)
(* in its cache.  The list is unordered; queries sort it in place; truncate*)
(* removes by moving the last element into the hole while its own loop     *)
(* still runs over the slice as it was on entry.                           *)
(*                                                                         *)
(* addRange and truncate run under the file's write lock and are one step  *)
(* each.  isReady and bytesReady run under its read lock only, so several  *)
(* Reads sort the same array at once, one comparison at a time.            *)
(***************************************************************************)
EXTENDS Integers, Sequences

CONSTANTS
    Bytes,      \* offsets of a file, 0..n
    Readers,    \* threads that Read the file
    MaxRanges   \* bound on the length of the list

ASSUME LoadConstants == Bytes \subseteq Int /\ MaxRanges \in Nat \ {0}

VARIABLES
    ranges,     \* load.ranges
    panicked,   \* an index expression of truncate was out of range
    readers,    \* where each reader stands in isReady or bytesReady
    moved,      \* the readers whose sort has written to the array
    raced,      \* a sort wrote while another reader held the read lock
    settled     \* history: a reader has left since the last change

vars == <<ranges, panicked, readers, moved, raced, settled>>
readVars == <<readers, moved, raced>>

Interval(start, end) == [start |-> start, end |-> end]

Outside == [pc |-> "out", i |-> 0, j |-> 0]

Init ==
    /\ ranges = <<>> /\ panicked = FALSE
    /\ readers = [r \in Readers |-> Outside]
    /\ moved = {} /\ raced = FALSE
    /\ settled = FALSE

-----------------------------------------------------------------------------
(* Mutant: equal starts are out of order.                                  *)
NotAfter(a, b) == a.start <= b.start

(* The order of sortRanges.  slices.SortFunc is an insertion sort for the  *)
(* lists here; a longer list may leave equal starts in another order, which*)
(* is that of another list.                                                *)
Before(a, b) == a.start < b.start

Swapped(rs, j) == [rs EXCEPT ![j] = rs[j - 1], ![j - 1] = rs[j]]

addRange(rs, start, end) == Append(rs, Interval(start, end))

(* The slice as truncate sees it: the backing array, of which load.ranges  *)
(* is the first len elements, while the loop visits every index of arr.    *)
Slice(rs) == [arr |-> rs, len |-> Len(rs), panic |-> FALSE]

(* Mutants: a range that straddles the end is kept whole; isReady accepts  *)
(* a range that ends one byte short.                                       *)
KeepStraddling(l, k, end) == l
StopsAt(v, end) == v.end + 1 < end

(* removeRange: the last element fills the hole and the list shrinks.      *)
removeRange(l, k) ==
    IF k > l.len THEN [l EXCEPT !.panic = TRUE]
    ELSE [l EXCEPT !.arr[k] = l.arr[l.len], !.len = @ - 1]

trimRange(l, k, end) ==
    IF k > l.len THEN [l EXCEPT !.panic = TRUE]
    ELSE [l EXCEPT !.arr[k].end = end]

truncateStep(l, k, end) ==
    IF l.panic THEN l
    ELSE IF l.arr[k].start >= end THEN removeRange(l, k)
    ELSE IF l.arr[k].end > end THEN trimRange(l, k, end)
    ELSE l

truncateLoop(rs, end) ==
    LET loop[k \in 0..Len(rs)] ==
            IF k = 0 THEN Slice(rs) ELSE truncateStep(loop[k - 1], k, end)
    IN loop

truncate(rs, end) == truncateLoop(rs, end)[Len(rs)]

(* isReady on a sorted list: scan with start moving over what is covered.  *)
(* The scan state is the moving start, or the verdict once it is reached.  *)
FallsShort(v, end) == v.end < end

isReadyStep(st, v, end) ==
    IF st.done THEN st
    ELSE IF v.start > st.start THEN [st EXCEPT !.done = TRUE]
    ELSE IF v.end <= st.start THEN st
    ELSE IF FallsShort(v, end) THEN [st EXCEPT !.start = v.end]
    ELSE [st EXCEPT !.done = TRUE, !.ready = TRUE]

isReadyLoop(sorted, start, end) ==
    LET loop[k \in 0..Len(sorted)] ==
            IF k = 0 THEN [start |-> start, done |-> FALSE, ready |-> FALSE]
            ELSE isReadyStep(loop[k - 1], sorted[k], end)
    IN loop

isReady(sorted, start, end) ==
    isReadyLoop(sorted, start, end)[Len(sorted)].ready

(* bytesReady on a sorted list: how far the covered run from start goes.   *)
Extend(v, ptr) == IF v.end >= ptr THEN v.end ELSE ptr

bytesReadyStep(st, v) ==
    IF st.done \/ v.start > st.ptr THEN [st EXCEPT !.done = TRUE]
    ELSE [st EXCEPT !.ptr = Extend(v, @)]

bytesReadyLoop(sorted, start) ==
    LET loop[k \in 0..Len(sorted)] ==
            IF k = 0 THEN [ptr |-> start, done |-> FALSE]
            ELSE bytesReadyStep(loop[k - 1], sorted[k])
    IN loop

bytesReady(sorted, start) ==
    bytesReadyLoop(sorted, start)[Len(sorted)].ptr - start

-----------------------------------------------------------------------------
(* The calls fs.go makes.  A range added may be empty (a zero-length write *)
(* or download) and may reach beyond the file (fs.go:406).                 *)
NoReader == \A r \in Readers : readers[r] = Outside

Lock ==
    /\ ~panicked /\ ~raced
    /\ NoReader
    /\ settled' = FALSE
    /\ UNCHANGED readVars

AddRange(start, end) ==
    /\ Lock
    /\ Len(ranges) < MaxRanges
    /\ start <= end
    /\ ranges' = addRange(ranges, start, end)
    /\ UNCHANGED panicked

Truncate(end) ==
    /\ Lock
    /\ LET l == truncate(ranges, end) IN
        /\ ranges' = SubSeq(l.arr, 1, l.len)
        /\ panicked' = l.panic

Within(at) == {r \in Readers : at[r] # Outside}

(* One step of a reader.  Of an array that one reader has written and      *)
(* another may be reading nothing is known, and it is not followed further.*)
Reader(r, at, rs, writes) ==
    /\ ~panicked /\ ~raced
    /\ readers' = [readers EXCEPT ![r] = at]
    /\ ranges' = rs
    /\ moved' = IF writes THEN moved \cup {r} ELSE moved \cap Within(readers')
    /\ raced' = \E q \in moved' : Within(readers') # {q}
    /\ UNCHANGED panicked

(* file.lock.RLock(), and sortRanges is called.                            *)
RLock(r) ==
    /\ readers[r] = Outside
    /\ Reader(r, [pc |-> "sort", i |-> 2, j |-> 2], ranges, FALSE)
    /\ UNCHANGED settled

(* One comparison of the insertion sort, and the swap it asks for.         *)
Sort(r) ==
    LET i == readers[r].i
        j == readers[r].j
        swap == j > 1 /\ Before(ranges[j], ranges[j - 1])
    IN /\ readers[r].pc = "sort" /\ i <= Len(ranges)
       /\ \/ swap /\ Reader(r, [readers[r] EXCEPT !.j = j - 1],
                            Swapped(ranges, j), TRUE)
          \/ ~swap /\ Reader(r, [readers[r] EXCEPT !.i = i + 1, !.j = i + 1],
                             ranges, FALSE)
       /\ UNCHANGED settled

(* The sort has ended: the list is scanned.                                *)
Scan(r) ==
    /\ readers[r].pc = "sort" /\ readers[r].i > Len(ranges)
    /\ Reader(r, [pc |-> "scan", i |-> 0, j |-> 0], ranges, FALSE)
    /\ UNCHANGED settled

RUnlock(r) ==
    /\ readers[r].pc = "scan"
    /\ Reader(r, Outside, ranges, FALSE)
    /\ settled' = TRUE

Query == \E r \in Readers : RLock(r) \/ Sort(r) \/ Scan(r) \/ RUnlock(r)

Next ==
    \/ \E start, end \in Bytes : AddRange(start, end)
    \/ \E end \in Bytes : Truncate(end)
    \/ Query

Spec == Init /\ [][Next]_vars

-----------------------------------------------------------------------------
(* Properties.                                                             *)

(* The type invariant: every range lies within the file sizes addRange and *)
(* truncate were given.                                                    *)
TypeOK ==
    /\ ranges \in Seq([start : Bytes, end : Bytes])
    /\ Len(ranges) <= MaxRanges
    /\ panicked \in BOOLEAN /\ raced \in BOOLEAN /\ settled \in BOOLEAN
    /\ readers \in [Readers -> [pc : {"out", "sort", "scan"},
                                i : 0..(MaxRanges + 1), j : 0..(MaxRanges + 1)]]
    /\ moved \subseteq Within(readers)

(* Two Reads disturb each other's sort of the list only when both came     *)
(* before any had left since the list was last changed: a list that has    *)
(* been sorted once is never written again, by however many readers at     *)
(* once, until the next addRange or truncate.                              *)
RaceOnlyAtFirst == raced => ~settled

Covered(rs) == UNION {rs[k].start..(rs[k].end - 1) : k \in DOMAIN rs}

(* The list stands for the set of bytes the calls have made ready: each   *)
(* step is one of LoadSpec, and the one with the same arguments.  Sorting  *)
(* changes nothing, addRange adds its own bytes, and a truncate that       *)
(* returns has cut exactly what lies at or beyond its argument.  (After a  *)
(* panic there is no list to speak of.)                                    *)
Abstract == INSTANCE LoadSpec WITH ready <- Covered(ranges)
ImplementsLoadSpec ==
    /\ Abstract!Init
    /\ [][panicked' \/ Abstract!Next]_(Covered(ranges))
    /\ [][/\ \A start, end \in Bytes :
               AddRange(start, end) => Abstract!Add(start, end)
          /\ \A end \in Bytes :
               Truncate(end) => panicked' \/ Abstract!Trim(end)
          /\ Query => UNCHANGED Covered(ranges)]_vars

Scanned == ~raced /\ \E r \in Readers : readers[r].pc = "scan"

(* isReady answers whether every byte asked for is in the cache, whatever  *)
(* the overlaps and the order the sort leaves equal starts in.             *)
IsReadyExact ==
    Scanned => \A start, end \in Bytes :
        start < end =>
            (isReady(ranges, start, end)
                <=> start..(end - 1) \subseteq Covered(ranges))

(* bytesReady is the longest run of cached bytes from start: Read never    *)
(* hands out a byte that is not there, and never withholds one that is.    *)
BytesReadyExact ==
    Scanned => \A start \in Bytes :
        LET n == bytesReady(ranges, start) IN
        /\ start..(start + n - 1) \subseteq Covered(ranges)
        /\ start + n \notin Covered(ranges)

(* The invariant of the list: its type and both queries.                   *)
LoadInv == TypeOK /\ IsReadyExact /\ BytesReadyExact

(* load.go:34: "truncate trims all ranges that are over end".              *)
TruncateReturns == ~panicked
=============================================================================

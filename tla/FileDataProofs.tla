--------------------------- MODULE FileDataProofs ---------------------------
(***************************************************************************)
(* Proofs about the data plane: for every block size, size of a file,      *)
(* number of Reads and of files, every stored and remote transaction and   *)
(* either cache, the bytes that are ready, returned and uploaded are those *)
(* that should be there, unless one of the named defects has bitten.       *)
(*                                                                         *)
(* DataInv is inductive.  It says what each goroutine may rely on, from    *)
(* its own record and the file it works on (LoaderSound, ReaderSound,      *)
(* PatchSound, JobShape and JobExact), and what holds of each file at any  *)
(* time (Sound).  A step that takes a file's lock is shown, once per kind  *)
(* of change, to be a Change: what it may do to those who work on that     *)
(* file.  One lemma per action then puts these together.                   *)
(***************************************************************************)
EXTENDS FileData, WellFoundedInduction, TLAPS

-----------------------------------------------------------------------------
(* Arithmetic of blocks.                                                   *)

(* BlockSize divides every offset with a remainder.                        *)
LEMMA DivMod ==
    ASSUME NEW o \in Nat
    PROVE  /\ o \div BlockSize \in Nat /\ o % BlockSize \in 0..(BlockSize - 1)
           /\ o = (o \div BlockSize) * BlockSize + (o % BlockSize)
BY FileDataConstants, SMT

(* Block and place in the block of an offset, from both.                   *)
LEMMA DivModOf ==
    ASSUME NEW i \in Nat, NEW k \in 0..(BlockSize - 1)
    PROVE  /\ (i * BlockSize + k) \div BlockSize = i
           /\ (i * BlockSize + k) % BlockSize = k
BY FileDataConstants, SMT

(* Blocks are next to each other.                                          *)
LEMMA NextBlockBeyond ==
    ASSUME NEW i \in Nat, NEW j \in Nat, i < j
    PROVE  i * BlockSize + BlockSize <= j * BlockSize
BY FileDataConstants, SMT

(* A file has as many blocks as begin before its end.                      *)
LEMMA BlocksBegin ==
    ASSUME NEW size \in Nat, NEW i \in Nat
    PROVE  /\ i < Blocks(size) <=> i * BlockSize < size
           /\ Blocks(size) \in Nat
           /\ Blocks(size) = 0 <=> size = 0
BY FileDataConstants, SMT DEF Blocks

(* Every block of a file of legal size lies below MaxSize.                 *)
LEMMA BlockFits ==
    ASSUME NEW i \in Nat, i < Blocks(MaxSize)
    PROVE  /\ i * BlockSize \in Nat
           /\ i * BlockSize + BlockSize <= MaxSize
<1>1. i * BlockSize < MaxSize
  BY BlocksBegin, FileDataConstants
<1>2. /\ MaxSize \div BlockSize \in Nat
      /\ MaxSize = (MaxSize \div BlockSize) * BlockSize
  BY DivMod, FileDataConstants, SMT
<1>3. i < MaxSize \div BlockSize
  BY <1>1, <1>2, FileDataConstants, SMT
<1> QED
  BY <1>2, <1>3, NextBlockBeyond, FileDataConstants, SMT

(* A smaller file has no more blocks.                                      *)
LEMMA BlocksMonotone ==
    ASSUME NEW a \in Nat, NEW b \in Nat, a <= b
    PROVE  Blocks(a) <= Blocks(b)
<1>1. SUFFICES ASSUME Blocks(b) < Blocks(a) PROVE FALSE
  BY BlocksBegin, SMT
<1>2. Blocks(b) \in Nat /\ ~(Blocks(b) < Blocks(b))
  BY BlocksBegin, SMT
<1>3. Blocks(b) * BlockSize < a /\ ~(Blocks(b) * BlockSize < b)
  BY <1>1, <1>2, BlocksBegin
<1>4. Blocks(b) * BlockSize \in Nat
  BY <1>2, FileDataConstants, SMT
<1> QED
  BY <1>3, <1>4, SMT

-----------------------------------------------------------------------------
(* What is true of a file, its cache c and its history a, at any time.     *)
(* What a file cannot show, beyond its end, is settled too: an offset there *)
(* is ready only by mistake, and what a temporary file holds there is zero. *)
Sound(kind, c, a) ==
    /\ c.size <= c.len
    /\ \A o \in Ready(c.load) : o < 2 * MaxSize
    /\ \A o \in Ready(c.load) :
        o < c.size => c.data[o] = a.ideal[o] \/ o \in a.spoilt
    /\ \A o \in Ready(c.load) : c.size <= o => o \in a.over
    /\ \A o \in Offsets : c.size <= o =>
        /\ a.ideal[o] = Zero
        /\ o \in a.touched
        /\ kind = "disk" => c.data[o] = Zero \/ o \in a.spoilt

(* What a change of a file under its lock, from c and a to d and b, leaves *)
(* to the others: their bytes outside S, a slice that does not shrink, and *)
(* no offset in sight that nobody will fetch, unless it kept the lock.     *)
Change(kind, c, a, d, b, S) ==
    /\ d \in Cache /\ b \in History
    /\ Sound(kind, d, b)
    /\ b.touched = a.touched \cup S
    /\ \A o \in Offsets \ S :
        b.ideal[o] = a.ideal[o] /\ (o < d.size <=> o < c.size)
    /\ kind = "memory" => c.len <= d.len
    /\ d.lock # "kept" =>
        /\ c.lock # "kept"
        /\ \A o \in Span(0, d.size) :
            \/ o \in Ready(d.load) \cup b.holes
            \/ o < c.size /\ o \notin Ready(c.load) \cup a.holes

(* Either of two numbers.                                                  *)
LEMMA MaxMin ==
    ASSUME NEW x \in Int, NEW y \in Int
    PROVE  /\ Max2(x, y) \in {x, y} /\ x <= Max2(x, y) /\ y <= Max2(x, y)
           /\ Min2(x, y) \in {x, y} /\ Min2(x, y) <= x /\ Min2(x, y) <= y
BY SMT DEF Max2, Min2

(* Offsets are numbers, and the zero byte is a byte.                       *)
LEMMA OffsetsNat == Offsets \subseteq Nat /\ Zero \in Byte
BY FileDataConstants, SMT DEF Offsets, Zero, Byte

(* What Truncate wipes in either cache: what lies beyond the new end, or   *)
(* what a slice uncovers as it grows.                                      *)
LEMMA WipedOf ==
    ASSUME NEW c \in Cache, NEW size \in 0..MaxSize
    PROVE  \A o \in Offsets : o \in Wiped(c, size) <=>
               IF cacheType = "disk" THEN size <= o
               ELSE c.size <= o /\ o < size
<1> c.size \in 0..MaxSize
  BY DEF Cache
<1> QED
  BY FileDataConstants, OffsetsNat, SMT DEF Wiped, Offsets

(* The cache after cache.Truncate, field by field.                         *)
LEMMA CacheTruncateFields ==
    ASSUME NEW c \in Cache, NEW size \in 0..MaxSize
    PROVE  LET d == CacheTruncate(c, size) IN
           /\ d \in Cache
           /\ d.size = size /\ d.load = c.load /\ d.lock = c.lock
           /\ d.len = IF cacheType = "disk" THEN size ELSE Max2(c.len, size)
           /\ \A o \in Offsets :
                d.data[o] = IF o \in Wiped(c, size) THEN Zero ELSE c.data[o]
<1> DEFINE data == [o \in Offsets |->
                      IF o \in Wiped(c, size) THEN Zero ELSE c.data[o]]
           len == IF cacheType = "disk" THEN size ELSE Max2(c.len, size)
<1>1. data \in [Offsets -> Byte]
  BY OffsetsNat DEF Cache
<1>2. len \in 0..MaxSize
  BY FileDataConstants, SMT DEF Cache, Max2
<1>3. \A o \in Offsets :
         data[o] = IF o \in Wiped(c, size) THEN Zero ELSE c.data[o]
  OBVIOUS
<1>4. CacheTruncate(c, size) =
        [c EXCEPT !.size = size, !.data = data, !.len = len]
  BY DEF CacheTruncate
<1> HIDE DEF data, len
<1>5. LET d == [c EXCEPT !.size = size, !.data = data, !.len = len] IN
      /\ d \in Cache
      /\ d.size = size /\ d.load = c.load /\ d.lock = c.lock
      /\ d.len = len /\ d.data = data
  BY <1>1, <1>2 DEF Cache
<1> QED
  BY <1>3, <1>4, <1>5 DEF len

(* The cache after cache.WriteRange, field by field.                       *)
LEMMA WriteRangeFields ==
    ASSUME NEW c \in Cache, NEW ofst \in Nat, NEW buf \in Seq(Byte),
           ofst + Len(buf) <= MaxSize
    PROVE  LET d == WriteRange(c, ofst, buf) IN
           /\ d \in Cache
           /\ d.size = c.size /\ d.load = c.load /\ d.lock = c.lock
           /\ d.len \in Nat /\ c.len <= d.len
           /\ \A o \in Offsets :
                d.data[o] = IF o \in Span(ofst, Len(buf))
                            THEN buf[o - ofst + 1] ELSE c.data[o]
<1> DEFINE data == [o \in Offsets |-> IF o \in Span(ofst, Len(buf))
                            THEN buf[o - ofst + 1] ELSE c.data[o]]
           len == IF buf = <<>> THEN c.len
                  ELSE Max2(c.len, ofst + Len(buf))
<1>0. /\ c.len \in 0..MaxSize /\ c.len \in Nat
      /\ c.data \in [Offsets -> Byte]
  <2>1. c.len \in 0..MaxSize /\ c.data \in [Offsets -> Byte]
    BY DEF Cache
  <2> QED
    BY <2>1, FileDataConstants, SMT
<1>1. data \in [Offsets -> Byte]
  <2>1. \A o \in Offsets : o \in Span(ofst, Len(buf)) =>
           buf[o - ofst + 1] \in Byte
    BY OffsetsNat, SMT DEF Span
  <2> QED
    BY <1>0, <2>1
<1>2. len \in 0..MaxSize /\ len \in Nat /\ c.len <= len
  BY <1>0, FileDataConstants, SMT DEF Max2
<1>3. \A o \in Offsets :
         data[o] = IF o \in Span(ofst, Len(buf))
                   THEN buf[o - ofst + 1] ELSE c.data[o]
  OBVIOUS
<1>4. WriteRange(c, ofst, buf) = [c EXCEPT !.data = data, !.len = len]
  BY DEF WriteRange
<1> HIDE DEF data, len
<1>5. LET d == [c EXCEPT !.data = data, !.len = len] IN
      /\ d \in Cache
      /\ d.size = c.size /\ d.load = c.load /\ d.lock = c.lock
      /\ d.len = len /\ d.data = data
  BY <1>1, <1>2 DEF Cache
<1> QED
  BY <1>2, <1>3, <1>4, <1>5

(* Setting load and dirty leaves the bytes alone.                          *)
SameBytes(d, c, load) ==
    /\ d \in Cache /\ d.size = c.size /\ d.load = load
    /\ d.lock = c.lock /\ d.len = c.len /\ d.data = c.data

LEMMA LoadFields ==
    ASSUME NEW c \in Cache, NEW load \in Load
    PROVE  SameBytes([c EXCEPT !.load = load], c, load)
BY DEF Cache, SameBytes

LEMMA LoadDirtyFields ==
    ASSUME NEW c \in Cache, NEW load \in Load, NEW b \in BOOLEAN
    PROVE  SameBytes([c EXCEPT !.load = load, !.dirty = b], c, load)
BY DEF Cache, SameBytes

-----------------------------------------------------------------------------
(* The bytes of a load, as its operations change them.                     *)

(* What a load calls ready are numbers.                                    *)
LEMMA ReadyNat ==
    ASSUME NEW load \in Load
    PROVE  Ready(load) \in SUBSET Nat
<1>1. ASSUME NEW x \in load.ranges PROVE x[1]..(x[2] - 1) \subseteq Nat
  BY SMT DEF Load, Ranges
<1> QED
  BY <1>1 DEF Ready

(* So is what the load of a file calls ready.                              *)
LEMMA ReadyOf ==
    ASSUME NEW c \in Cache
    PROVE  c.load \in Load /\ Ready(c.load) \subseteq Nat
BY ReadyNat DEF Cache

(* Nothing of a new load is ready.                                         *)
LEMMA NewLoadReady == newLoad \in Load /\ Ready(newLoad) = {}
BY DEF newLoad, Load, Ranges, Ready

(* addRange makes its range ready.                                         *)
LEMMA AddRangeReady ==
    ASSUME NEW load \in Load, NEW start \in Nat, NEW end \in Nat
    PROVE  /\ addRange(load, start, end) \in Load
           /\ Ready(addRange(load, start, end))
                = Ready(load) \cup start..(end - 1)
<1>1. addRange(load, start, end) \in Load
  BY DEF addRange, Load, Ranges
<1>2. addRange(load, start, end).ranges = load.ranges \cup {<<start, end>>}
  BY DEF addRange
<1> DEFINE R == load.ranges \cup {<<start, end>>}
<1>3. ASSUME NEW o
      PROVE  o \in UNION {x[1]..(x[2] - 1) : x \in R}
                <=> \/ o \in UNION {x[1]..(x[2] - 1) : x \in load.ranges}
                    \/ o \in start..(end - 1)
  <2>1. <<start, end>> \in R /\ load.ranges \subseteq R
    OBVIOUS
  <2>2. \A x \in R : x \in load.ranges \/ x = <<start, end>>
    OBVIOUS
  <2>3. <<start, end>>[1] = start /\ <<start, end>>[2] = end
    OBVIOUS
  <2> HIDE DEF R
  <2> QED
    BY <2>1, <2>2, <2>3
<1> QED
  BY <1>1, <1>2, <1>3 DEF Ready

(* So it is after the range is added where it was not ready yet.           *)
LEMMA AddUnreadyReady ==
    ASSUME NEW load \in Load, NEW start \in Nat, NEW end \in Nat
    PROVE  /\ AddUnready(load, start, end) \in Load
           /\ Ready(AddUnready(load, start, end))
                = Ready(load) \cup start..(end - 1)
<1>1. CASE isReady(load, start, end)
  BY <1>1 DEF AddUnready, isReady
<1>2. CASE ~isReady(load, start, end)
  BY <1>2, AddRangeReady DEF AddUnready
<1> QED
  BY <1>1, <1>2

(* A range that is cut is one, and has lost what lies beyond the end.      *)
LEMMA CutToFields ==
    ASSUME NEW x \in Nat \X Nat, NEW end \in Nat
    PROVE  /\ CutTo(x, end) \in Nat \X Nat
           /\ \A o \in Nat :
                o \in CutTo(x, end)[1]..(CutTo(x, end)[2] - 1)
                    <=> o \in x[1]..(x[2] - 1) /\ o < end
BY SMT DEF CutTo, Min2

(* load.truncate, when it returns, leaves what lies before the end.        *)
LEMMA TrimReady ==
    ASSUME NEW load \in Load, NEW end \in Nat
    PROVE  /\ Trim(load, end) \in Load
           /\ Ready(Trim(load, end)) = {o \in Ready(load) : o < end}
<1> DEFINE kept == {x \in load.ranges : x[1] < end}
           merged == {x \in kept : \E y \in kept \ {x} :
                                     CutTo(y, end) = CutTo(x, end)}
           cut == {CutTo(x, end) : x \in kept}
           twice == {CutTo(x, end) : x \in (kept \cap load.twice) \cup merged}
<1>1. load.ranges \subseteq Nat \X Nat
  BY DEF Load, Ranges
<1>2. cut \subseteq Nat \X Nat /\ twice \subseteq Nat \X Nat
  BY <1>1, CutToFields
<1>3. Trim(load, end) = [ranges |-> cut, twice |-> twice]
  BY DEF Trim
<1>4. Trim(load, end) \in Load
  BY <1>2, <1>3 DEF Load, Ranges
<1>5. Ready(Trim(load, end)) = UNION {y[1]..(y[2] - 1) : y \in cut}
  BY <1>3 DEF Ready
<1>6. ASSUME NEW o
      PROVE  o \in UNION {y[1]..(y[2] - 1) : y \in cut}
                <=> o \in Ready(load) /\ o < end
  <2>1. o \in UNION {y[1]..(y[2] - 1) : y \in cut}
           <=> \E x \in kept : o \in CutTo(x, end)[1]..(CutTo(x, end)[2] - 1)
    OBVIOUS
  <2>2. ASSUME NEW x \in kept
        PROVE  o \in CutTo(x, end)[1]..(CutTo(x, end)[2] - 1)
                  <=> o \in x[1]..(x[2] - 1) /\ o < end
    <3>1. x \in Nat \X Nat /\ CutTo(x, end) \in Nat \X Nat
      BY <1>1, CutToFields
    <3>2. o \in CutTo(x, end)[1]..(CutTo(x, end)[2] - 1) => o \in Nat
      BY <3>1, SMT
    <3>3. o \in x[1]..(x[2] - 1) => o \in Nat
      BY <3>1, SMT
    <3> QED
      BY <3>1, <3>2, <3>3, CutToFields
  <2>3. ASSUME NEW x \in load.ranges, o \in x[1]..(x[2] - 1), o < end
        PROVE  x \in kept
    <3>1. x[1] \in Nat /\ x[2] \in Nat
      BY <1>1
    <3> QED
      BY <2>3, <3>1, SMT
  <2>4. o \in Ready(load) <=> \E x \in load.ranges : o \in x[1]..(x[2] - 1)
    BY DEF Ready
  <2> HIDE DEF cut
  <2> QED
    BY <2>1, <2>2, <2>3, <2>4
<1> QED
  BY <1>4, <1>5, <1>6

(* A panic half way makes nothing ready.                                   *)
LEMMA HalfTrimmedReady ==
    ASSUME NEW load \in Load, NEW end \in Nat,
           NEW half \in HalfTrimmed(load, end)
    PROVE  half \in Load /\ Ready(half) \subseteq Ready(load)
<1>1. PICK gone \in SUBSET Beyond(load, end),
           cut \in SUBSET Across(load, end) :
        half = [ranges |-> (load.ranges \ (gone \cup cut))
                               \cup {CutTo(x, end) : x \in cut},
                twice |-> load.twice \ (gone \cup cut)]
  BY DEF HalfTrimmed
<1>2. /\ load.ranges \subseteq Nat \X Nat /\ load.twice \subseteq Nat \X Nat
      /\ cut \subseteq load.ranges
  BY DEF Load, Ranges, Across
<1>3. {CutTo(x, end) : x \in cut} \subseteq Nat \X Nat
  BY <1>2, CutToFields
<1>4. half \in Load
  BY <1>1, <1>2, <1>3 DEF Load, Ranges
<1>5. ASSUME NEW y \in half.ranges
      PROVE  \E x \in load.ranges : y[1]..(y[2] - 1) \subseteq x[1]..(x[2] - 1)
  <2>1. CASE y \in load.ranges
    BY <2>1
  <2>2. CASE y \in {CutTo(x, end) : x \in cut}
    <3>1. PICK x \in cut : y = CutTo(x, end)
      BY <2>2
    <3>2. x \in load.ranges /\ x \in Nat \X Nat /\ y \in Nat \X Nat
      BY <1>2, <1>3, <2>2
    <3>3. y[1]..(y[2] - 1) \subseteq Nat
      BY <3>2, SMT
    <3> QED
      BY <3>1, <3>2, <3>3, CutToFields
  <2> QED
    BY <1>1, <2>1, <2>2
<1> QED
  BY <1>4, <1>5 DEF Ready

-----------------------------------------------------------------------------
(* The caches after each operation.                                        *)

(* The cache and its load after Truncate, field by field.                  *)
LEMMA TruncatedFields ==
    ASSUME NEW c \in Cache, NEW size \in 0..MaxSize
    PROVE  LET d == Truncated(c, size) IN
           /\ d \in Cache
           /\ d.size = size
           /\ Ready(d.load) =
                IF size < c.size THEN {o \in Ready(c.load) : o < size}
                ELSE Ready(c.load) \cup Span(c.size, size)
           /\ d.lock = c.lock
           /\ d.len = IF cacheType = "disk" THEN size ELSE Max2(c.len, size)
           /\ \A o \in Offsets :
                d.data[o] = IF o \in Wiped(c, size) THEN Zero ELSE c.data[o]
<1> DEFINE t == CacheTruncate(c, size)
           load == IF size < c.size THEN Trim(c.load, size)
                   ELSE addRange(c.load, c.size, c.size + size)
<1>0. /\ size \in Nat /\ c.size \in Nat /\ c.size + size \in Nat
      /\ c.load \in Load
  <2>1. c.size \in 0..MaxSize /\ c.load \in Load
    BY DEF Cache
  <2> QED
    BY <2>1, FileDataConstants, SMT
<1>a. /\ Trim(c.load, size) \in Load
      /\ Ready(Trim(c.load, size)) = {o \in Ready(c.load) : o < size}
  BY <1>0, TrimReady
<1>b. /\ addRange(c.load, c.size, c.size + size) \in Load
      /\ Ready(addRange(c.load, c.size, c.size + size))
           = Ready(c.load) \cup Span(c.size, size)
  <2> DEFINE end == c.size + size
  <2>1. end \in Nat /\ c.load \in Load /\ c.size \in Nat
    BY <1>0
  <2> HIDE DEF end
  <2>2. /\ addRange(c.load, c.size, end) \in Load
        /\ Ready(addRange(c.load, c.size, end))
             = Ready(c.load) \cup c.size..(end - 1)
    BY ONLY <2>1, AddRangeReady
  <2> QED
    BY <1>0, <2>2 DEF Span, end
<1>1. load \in Load
  BY <1>a, <1>b
<1>2. Truncated(c, size) = [t EXCEPT !.load = load, !.dirty = TRUE]
  <2>1. t.load = c.load
    BY CacheTruncateFields
  <2> QED
    BY <2>1 DEF Truncated
<1>3. Ready(load) = IF size < c.size THEN {o \in Ready(c.load) : o < size}
                    ELSE Ready(c.load) \cup Span(c.size, size)
  BY <1>a, <1>b
<1>4. t \in Cache
  BY CacheTruncateFields
<1> HIDE DEF t, load
<1>5. SameBytes([t EXCEPT !.load = load, !.dirty = TRUE], t, load)
  BY ONLY <1>1, <1>4, LoadDirtyFields, Zenon
<1> QED
  BY <1>2, <1>3, <1>5, CacheTruncateFields DEF t, SameBytes

(* The cache as Write makes room for its bytes, field by field.            *)
LEMMA GrownFields ==
    ASSUME NEW c \in Cache, NEW end \in 0..MaxSize, c.size <= c.len
    PROVE  LET d == Grown(c, end) IN
           /\ d \in Cache
           /\ d.size = Max2(c.size, end)
           /\ d.load = c.load /\ d.lock = c.lock
           /\ d.size <= d.len
           /\ cacheType = "memory" => c.len <= d.len
           /\ end <= c.size => \A o \in Offsets : d.data[o] = c.data[o]
           /\ c.size < end => \A o \in Offsets :
                d.data[o] = IF o \in Wiped(c, end) THEN Zero ELSE c.data[o]
<1>1. c.size \in Nat /\ c.len \in Nat /\ end \in Nat
  BY FileDataConstants, SMT DEF Cache
<1>2. CASE c.size < end
  <2>1. Grown(c, end) = CacheTruncate(c, end) /\ Max2(c.size, end) = end
    BY <1>1, <1>2, SMT DEF Grown, Max2
  <2>2. /\ CacheTruncate(c, end) \in Cache
        /\ CacheTruncate(c, end).size = end
        /\ CacheTruncate(c, end).load = c.load
        /\ CacheTruncate(c, end).lock = c.lock
        /\ CacheTruncate(c, end).len =
              IF cacheType = "disk" THEN end ELSE Max2(c.len, end)
        /\ \A o \in Offsets : CacheTruncate(c, end).data[o] =
              IF o \in Wiped(c, end) THEN Zero ELSE c.data[o]
    BY CacheTruncateFields
  <2>3. /\ end <= Max2(c.len, end) /\ c.len <= Max2(c.len, end)
        /\ ~(end <= c.size)
    BY <1>1, <1>2, SMT DEF Max2
  <2>4. "memory" # "disk"
    OBVIOUS
  <2>5. end <= end
    BY <1>1
  <2> QED
    BY <1>2, <2>1, <2>2, <2>3, <2>4, <2>5
<1>3. CASE ~(c.size < end)
  <2>1. Grown(c, end) = c /\ Max2(c.size, end) = c.size
    BY <1>1, <1>3, SMT DEF Grown, Max2
  <2> QED
    BY <1>1, <1>3, <2>1, SMT
<1> QED
  BY <1>2, <1>3

(* The cache and its load after Write, field by field.                     *)
LEMMA WrittenFields ==
    ASSUME NEW c \in Cache, NEW ofst \in Nat, NEW buf \in Seq(Byte),
           ofst + Len(buf) <= MaxSize, c.size <= c.len
    PROVE  LET d == Written(c, ofst, buf)
               g == Grown(c, ofst + Len(buf)) IN
           /\ d \in Cache
           /\ d.size = g.size
           /\ Ready(d.load) = Ready(c.load) \cup Span(ofst, Len(buf))
           /\ d.lock = c.lock
           /\ d.size <= d.len
           /\ cacheType = "memory" => c.len <= d.len
           /\ \A o \in Offsets :
                d.data[o] = IF o \in Span(ofst, Len(buf))
                            THEN buf[o - ofst + 1] ELSE g.data[o]
<1> DEFINE g == Grown(c, ofst + Len(buf))
           w == WriteRange(g, ofst, buf)
           load == AddUnready(c.load, ofst, ofst + Len(buf))
<1>0. ofst + Len(buf) \in 0..MaxSize /\ ofst + Len(buf) \in Nat
  BY FileDataConstants, SMT
<1>1. /\ load \in Load /\ c.load \in Load
      /\ Ready(load) = Ready(c.load) \cup Span(ofst, Len(buf))
  <2> DEFINE end == ofst + Len(buf)
  <2>1. c.load \in Load /\ end \in Nat
    BY <1>0 DEF Cache
  <2> HIDE DEF end
  <2>2. /\ AddUnready(c.load, ofst, end) \in Load
        /\ Ready(AddUnready(c.load, ofst, end))
             = Ready(c.load) \cup ofst..(end - 1)
    BY ONLY <2>1, ofst \in Nat, AddUnreadyReady
  <2> QED
    BY <2>1, <2>2 DEF Span, end
<1>2. /\ g \in Cache /\ g.size <= g.len /\ g.load = c.load
      /\ g.lock = c.lock
      /\ cacheType = "memory" => c.len <= g.len
  BY <1>0, GrownFields
<1> HIDE DEF g
<1>4. /\ w \in Cache /\ w.size = g.size /\ w.len \in Nat /\ g.len <= w.len
      /\ w.load = g.load /\ w.lock = g.lock
      /\ \A o \in Offsets :
           w.data[o] = IF o \in Span(ofst, Len(buf))
                       THEN buf[o - ofst + 1] ELSE g.data[o]
  <2>1. /\ g \in Cache /\ g.size <= g.len /\ ofst \in Nat
        /\ buf \in Seq(Byte) /\ ofst + Len(buf) <= MaxSize
    BY <1>2
  <2> QED
    BY ONLY <2>1, WriteRangeFields, SMTT(30)
<1>3. Written(c, ofst, buf) = [w EXCEPT !.load = load, !.dirty = TRUE]
  BY <1>2, <1>4 DEF Written, g
<1> HIDE DEF w, load
<1>5. SameBytes([w EXCEPT !.load = load, !.dirty = TRUE], w, load)
  <2>1. w \in Cache /\ load \in Load
    BY ONLY <1>1, <1>4, Zenon
  <2> QED
    BY ONLY <2>1, LoadDirtyFields, Zenon
<1>6. g.size \in Nat /\ g.len \in Nat /\ c.len \in Nat
  BY <1>2, FileDataConstants, SMT DEF Cache
<1>7. w.size <= w.len /\ (cacheType = "memory" => c.len <= w.len)
  BY <1>2, <1>4, <1>6, SMT
<1> QED
  BY <1>1, <1>2, <1>3, <1>4, <1>5, <1>7 DEF g, SameBytes

(* The cache and its load after a downloaded block, field by field.        *)
LEMMA StoredFields ==
    ASSUME NEW c \in Cache, NEW ofst \in Nat, NEW buf \in Seq(Byte),
           NEW load \in Load, ofst + Len(buf) <= MaxSize
    PROVE  LET d == Stored(c, ofst, buf, load) IN
           /\ d \in Cache
           /\ d.size = c.size /\ d.load = load /\ d.lock = c.lock
           /\ c.len <= d.len
           /\ \A o \in Offsets :
                d.data[o] = IF o \in Span(ofst, Len(buf))
                            THEN buf[o - ofst + 1] ELSE c.data[o]
<1> DEFINE w == WriteRange(c, ofst, buf)
<1>1. Stored(c, ofst, buf, load) = [w EXCEPT !.load = load]
  BY DEF Stored
<1>2. /\ w \in Cache /\ w.size = c.size /\ c.len <= w.len
      /\ w.lock = c.lock
      /\ \A o \in Offsets :
           w.data[o] = IF o \in Span(ofst, Len(buf))
                       THEN buf[o - ofst + 1] ELSE c.data[o]
  BY WriteRangeFields
<1> HIDE DEF w
<1>3. SameBytes([w EXCEPT !.load = load], w, load)
  BY ONLY <1>2, load \in Load, LoadFields
<1>4. Stored(c, ofst, buf, load).data = w.data
  BY ONLY <1>1, <1>3, Zenon DEF SameBytes
<1>5. LET d == Stored(c, ofst, buf, load) IN
      /\ d \in Cache /\ d.size = c.size /\ d.load = load /\ c.len <= d.len
      /\ d.lock = c.lock
  BY ONLY <1>1, <1>2, <1>3, Zenon DEF SameBytes
<1> QED
  BY ONLY <1>2, <1>4, <1>5, Zenon

(* The cache and its load after the Truncate of a remote transaction,      *)
(* field by field.                                                         *)
LEMMA ReplacedFields ==
    ASSUME NEW c \in Cache, NEW size \in 0..MaxSize
    PROVE  LET d == Replaced(c, size) IN
           /\ d \in Cache
           /\ d.size = size
           /\ Ready(d.load) =
                IF size < c.size THEN {o \in Ready(c.load) : o < size}
                ELSE Ready(c.load)
           /\ d.lock = c.lock
           /\ d.len = IF cacheType = "disk" THEN size ELSE Max2(c.len, size)
           /\ \A o \in Offsets :
                d.data[o] = IF o \in Wiped(c, size) THEN Zero ELSE c.data[o]
<1> DEFINE t == CacheTruncate(c, size)
           load == IF size < c.size THEN Trim(c.load, size) ELSE c.load
<1>0. size \in Nat /\ c.load \in Load
  BY FileDataConstants, SMT DEF Cache
<1>1. load \in Load
  BY <1>0, TrimReady
<1>2. Replaced(c, size) = [t EXCEPT !.load = load]
  <2>1. t.load = c.load
    BY CacheTruncateFields
  <2> QED
    BY <2>1 DEF Replaced
<1>3. Ready(load) = IF size < c.size THEN {o \in Ready(c.load) : o < size}
                    ELSE Ready(c.load)
  BY <1>0, TrimReady
<1>4. t \in Cache
  BY CacheTruncateFields
<1> HIDE DEF t, load
<1>5. SameBytes([t EXCEPT !.load = load], t, load)
  BY ONLY <1>1, <1>4, LoadFields
<1> QED
  BY <1>2, <1>3, <1>5, CacheTruncateFields DEF t, SameBytes

(* Truncate keeps a file sound: what it cuts is gone, and what it adds is  *)
(* zero in either cache.                                                   *)
LEMMA TruncateChange ==
    ASSUME NEW c \in Cache, NEW a \in History, NEW size \in 0..MaxSize,
           cacheType \in {"memory", "disk"}, Sound(cacheType, c, a)
    PROVE  Change(cacheType, c, a, Truncated(c, size),
                  AfterTruncate(c, a, size), TouchedByTruncate(c, size))
<1> DEFINE d == Truncated(c, size)
           b == AfterTruncate(c, a, size)
           S == TouchedByTruncate(c, size)
<1>1. /\ d \in Cache
      /\ d.size = size
      /\ Ready(d.load) =
           IF size < c.size THEN {o \in Ready(c.load) : o < size}
           ELSE Ready(c.load) \cup Span(c.size, size)
      /\ d.lock = c.lock
      /\ d.len = IF cacheType = "disk" THEN size ELSE Max2(c.len, size)
      /\ \A o \in Offsets :
           d.data[o] = IF o \in Wiped(c, size) THEN Zero ELSE c.data[o]
  BY TruncatedFields
<1>2. /\ c.size \in Nat /\ c.len \in Nat /\ size \in Nat /\ MaxSize \in Nat
      /\ c.size <= MaxSize /\ size <= MaxSize /\ c.size <= c.len
      /\ Ready(c.load) \subseteq Nat
  <2>1. /\ c.size \in Nat /\ c.len \in Nat /\ size \in Nat /\ MaxSize \in Nat
        /\ c.size <= MaxSize /\ size <= MaxSize /\ c.size <= c.len
    BY FileDataConstants, SMT DEF Cache, Sound
  <2> QED
    BY <2>1, ReadyOf
<1>3. /\ \A o \in Offsets :
           b.ideal[o] = IF o < size THEN a.ideal[o] ELSE Zero
      /\ b.touched = a.touched \cup S
      /\ b.spoilt = a.spoilt \ Wiped(c, size)
      /\ b.holes = a.holes \ S
      /\ b.over = IF size < c.size THEN {o \in a.over : o < size}
                  ELSE a.over \cup (Span(c.size, size) \ Span(0, size))
  BY DEF AfterTruncate, Cleansed
<1>4. \A o : o \in S <=> o \in Offsets /\ (c.size <= o \/ size <= o)
  <2>1. \A o \in Offsets : o >= Min2(c.size, size) <=>
                           c.size <= o \/ size <= o
    BY <1>2, OffsetsNat, SMT DEF Min2
  <2> QED
    BY <2>1 DEF TouchedByTruncate
<1>5. b \in History
  <2>1. a.ideal \in [Offsets -> Byte] /\ a.touched \in SUBSET Offsets
        /\ a.spoilt \in SUBSET Nat /\ a.holes \in SUBSET Nat
        /\ a.over \in SUBSET Nat
    BY DEF History
  <2>2. [o \in Offsets |-> IF o < size THEN a.ideal[o] ELSE Zero]
          \in [Offsets -> Byte]
    BY <2>1, OffsetsNat
  <2>3. b.touched \in SUBSET Offsets
    BY <1>3, <1>4, <2>1
  <2>4. b.spoilt \in SUBSET Nat /\ b.holes \in SUBSET Nat
    BY <1>3, <2>1
  <2>5. b.over \in SUBSET Nat
    BY <1>2, <1>3, <2>1, SMT DEF Span
  <2> QED
    BY <2>2, <2>3, <2>4, <2>5 DEF AfterTruncate, History
<1>6. \A o \in Offsets : o \in Wiped(c, size) <=>
         IF cacheType = "disk" THEN size <= o ELSE c.size <= o /\ o < size
  BY WipedOf
<1> HIDE DEF d, b, S
<1>7. Sound(cacheType, d, b)
  <2>1. d.size <= d.len
    BY <1>1, <1>2, SMT DEF Max2
  <2>2. \A o \in Ready(d.load) : o < 2 * MaxSize
    BY <1>1, <1>2, SMT DEF Sound, Span
  <2>3. ASSUME NEW o \in Ready(d.load), o < d.size
        PROVE  d.data[o] = b.ideal[o] \/ o \in b.spoilt
    <3>1. o \in Offsets /\ o \in Nat
      BY <1>1, <1>2, <2>3, SMT DEF Offsets, Span
    <3>2. CASE o < c.size
      <4>1. o \in Ready(c.load)
        BY <1>1, <1>2, <3>1, <3>2, SMT DEF Span
      <4>2. c.data[o] = a.ideal[o] \/ o \in a.spoilt
        BY <3>2, <4>1 DEF Sound
      <4>3. o \notin Wiped(c, size)
        BY <1>1, <1>2, <1>6, <2>3, <3>1, <3>2, SMT
      <4> QED
        BY <1>1, <1>3, <2>3, <3>1, <4>2, <4>3
    <3>3. CASE c.size <= o
      <4>1. /\ a.ideal[o] = Zero
            /\ cacheType = "disk" => c.data[o] = Zero \/ o \in a.spoilt
        BY <3>1, <3>3 DEF Sound
      <4>2. b.ideal[o] = Zero
        BY <1>1, <1>3, <2>3, <3>1, <4>1
      <4>3. CASE o \in Wiped(c, size)
        BY <1>1, <3>1, <4>2, <4>3
      <4>4. CASE o \notin Wiped(c, size)
        <5>1. cacheType = "disk"
          BY <1>1, <1>6, <2>3, <3>1, <3>3, <4>4
        <5> QED
          BY <1>1, <1>3, <3>1, <4>1, <4>2, <4>4, <5>1
      <4> QED
        BY <4>3, <4>4
    <3> QED
      BY <1>2, <3>1, <3>2, <3>3, SMT
  <2>4. ASSUME NEW o \in Ready(d.load), d.size <= o
        PROVE  o \in b.over
    BY <1>1, <1>2, <1>3, <2>4, SMT DEF Sound, Span
  <2>5. ASSUME NEW o \in Offsets, d.size <= o
        PROVE  /\ b.ideal[o] = Zero
               /\ o \in b.touched
               /\ cacheType = "disk" => d.data[o] = Zero \/ o \in b.spoilt
    <3>1. b.ideal[o] = Zero /\ o \in b.touched
      BY <1>1, <1>2, <1>3, <1>4, <2>5, OffsetsNat, SMT
    <3>2. cacheType = "disk" => d.data[o] = Zero
      BY <1>1, <1>6, <2>5
    <3> QED
      BY <3>1, <3>2
  <2> QED
    BY <2>1, <2>2, <2>3, <2>4, <2>5 DEF Sound
<1>8. \A o \in Offsets \ S :
         b.ideal[o] = a.ideal[o] /\ (o < d.size <=> o < c.size)
  BY <1>1, <1>2, <1>3, <1>4, OffsetsNat, SMT
<1>9. cacheType = "memory" => c.len <= d.len
  BY <1>1, <1>2, SMT DEF Max2
<1>10. ASSUME NEW o \in Span(0, d.size)
       PROVE  \/ o \in Ready(d.load) \cup b.holes
              \/ o < c.size /\ o \notin Ready(c.load) \cup a.holes
  BY <1>1, <1>2, <1>3, <1>4, SMT DEF Span
<1> QED
  BY <1>1, <1>3, <1>5, <1>7, <1>8, <1>9, <1>10 DEF Change, d, b, S

(* Write keeps a file sound: the gap it leaves before its bytes is zero,   *)
(* and is neither ready nor fetched.                                       *)
LEMMA WriteChange ==
    ASSUME NEW c \in Cache, NEW a \in History, NEW ofst \in Nat,
           NEW buf \in Seq(Byte), ofst + Len(buf) <= MaxSize, buf # <<>>,
           cacheType \in {"memory", "disk"}, Sound(cacheType, c, a)
    PROVE  Change(cacheType, c, a, Written(c, ofst, buf),
                  AfterWrite(c, a, ofst, buf),
                  TouchedByWrite(c, ofst, Len(buf)))
<1> DEFINE d == Written(c, ofst, buf)
           b == AfterWrite(c, a, ofst, buf)
           S == TouchedByWrite(c, ofst, Len(buf))
           end == ofst + Len(buf)
           span == Span(ofst, Len(buf))
           g == Grown(c, end)
<1>2. /\ c.size \in Nat /\ c.len \in Nat /\ end \in Nat /\ MaxSize \in Nat
      /\ c.size <= MaxSize /\ end <= MaxSize /\ c.size <= c.len
      /\ ofst < end /\ end \in 0..MaxSize
      /\ Ready(c.load) \subseteq Nat
  <2>1. /\ c.size \in Nat /\ c.len \in Nat /\ end \in Nat /\ MaxSize \in Nat
        /\ c.size <= MaxSize /\ end <= MaxSize /\ c.size <= c.len
        /\ ofst < end /\ end \in 0..MaxSize
    BY FileDataConstants, SMT DEF Cache, Sound
  <2> QED
    BY <2>1, ReadyOf
<1>0. /\ g.size = Max2(c.size, end)
      /\ end <= c.size => \A o \in Offsets : g.data[o] = c.data[o]
      /\ c.size < end => \A o \in Offsets :
           g.data[o] = IF o \in Wiped(c, end) THEN Zero ELSE c.data[o]
  BY <1>2, GrownFields DEF Sound
<1>1. /\ d \in Cache
      /\ d.size = g.size
      /\ Ready(d.load) = Ready(c.load) \cup span
      /\ d.lock = c.lock
      /\ d.size <= d.len
      /\ cacheType = "memory" => c.len <= d.len
      /\ \A o \in Offsets :
           d.data[o] = IF o \in span THEN buf[o - ofst + 1] ELSE g.data[o]
  BY <1>2, WrittenFields
<1>3. /\ \A o \in Offsets :
           b.ideal[o] = IF o \in span THEN buf[o - ofst + 1] ELSE a.ideal[o]
      /\ b.touched = a.touched \cup S
      /\ b.spoilt = (IF end > c.size THEN a.spoilt \ Wiped(c, end)
                     ELSE a.spoilt) \ span
      /\ b.holes = (a.holes \cup c.size..(ofst - 1)) \ span
      /\ b.over = a.over
  BY DEF AfterWrite, Cleansed
<1>4. /\ \A o : o \in S <=> o \in Nat /\ o < end /\ (ofst <= o \/ c.size <= o)
      /\ \A o : o \in span <=> o \in Nat /\ o < end /\ ofst <= o
      /\ \A o : o \in Offsets <=> o \in Nat /\ o < MaxSize
  BY <1>2, SMT DEF TouchedByWrite, Span, Offsets
<1>5. b \in History
  <2>1. a.ideal \in [Offsets -> Byte] /\ a.touched \in SUBSET Offsets
        /\ a.spoilt \in SUBSET Nat /\ a.holes \in SUBSET Nat
        /\ a.over \in SUBSET Nat
    BY DEF History
  <2>2. \A o \in span : buf[o - ofst + 1] \in Byte
    BY <1>2, <1>4, SMT
  <2>3. [o \in Offsets |->
            IF o \in span THEN buf[o - ofst + 1] ELSE a.ideal[o]]
          \in [Offsets -> Byte]
    BY <2>1, <2>2
  <2>4. b.touched \in SUBSET Offsets
    BY <1>2, <1>3, <1>4, <2>1, SMT
  <2>5. b.spoilt \in SUBSET Nat
    BY <1>3, <2>1
  <2>6. b.holes \in SUBSET Nat
    BY <1>2, <1>3, <2>1, SMT
  <2> QED
    BY <2>1, <2>3, <2>4, <2>5, <2>6 DEF AfterWrite, History
<1>6. \A o \in Offsets : o \in Wiped(c, end) <=>
         IF cacheType = "disk" THEN end <= o ELSE c.size <= o /\ o < end
  BY <1>2, WipedOf
<1> HIDE DEF d, b, S, g, end, span
<1>7. d.size \in Nat /\ c.size <= d.size /\ end <= d.size
      /\ (d.size = c.size \/ d.size = end)
  BY <1>0, <1>1, <1>2, SMT DEF Max2
<1>8. Sound(cacheType, d, b)
  <2>2. \A o \in Ready(d.load) : o < 2 * MaxSize
    BY <1>1, <1>2, <1>4, SMT DEF Sound
  <2>3. ASSUME NEW o \in Ready(d.load), o < d.size
        PROVE  d.data[o] = b.ideal[o] \/ o \in b.spoilt
    <3>1. o \in Offsets /\ o \in Nat
      <4>1. d.size <= MaxSize
        BY <1>2, <1>7, SMT
      <4> QED
        BY <1>1, <1>2, <1>4, <1>7, <2>3, <4>1, SMT
    <3>2. CASE o \in span
      BY <1>1, <1>3, <3>1, <3>2
    <3>3. CASE o \notin span /\ o < c.size
      <4>1. o \in Ready(c.load)
        BY <1>1, <3>3
      <4>2. c.data[o] = a.ideal[o] \/ o \in a.spoilt
        BY <3>3, <4>1 DEF Sound
      <4>3. o \notin Wiped(c, end) \/ end <= c.size
        BY <1>2, <1>6, <3>1, <3>3, SMT
      <4>4. g.data[o] = c.data[o]
        BY <1>0, <1>2, <3>1, <4>3, SMT
      <4>5. o \in a.spoilt => o \in b.spoilt
        BY <1>2, <1>3, <3>1, <3>3, <4>3, SMT
      <4> QED
        BY <1>1, <1>3, <3>1, <3>3, <4>2, <4>4, <4>5
    <3>4. CASE o \notin span /\ c.size <= o
      <4>1. c.size < end /\ o < end
        BY <1>2, <1>7, <2>3, <3>1, <3>4, SMT
      <4>2. /\ a.ideal[o] = Zero
            /\ cacheType = "disk" => c.data[o] = Zero \/ o \in a.spoilt
        BY <3>1, <3>4 DEF Sound
      <4>3. CASE o \in Wiped(c, end)
        BY <1>0, <1>1, <1>3, <3>1, <3>4, <4>1, <4>2, <4>3
      <4>4. CASE o \notin Wiped(c, end)
        <5>1. cacheType = "disk"
          BY <1>6, <3>1, <3>4, <4>1, <4>4
        <5>2. g.data[o] = c.data[o]
          BY <1>0, <3>1, <4>1, <4>4
        <5>3. o \in a.spoilt => o \in b.spoilt
          BY <1>3, <3>4, <4>4
        <5> QED
          BY <1>1, <1>3, <3>1, <3>4, <4>2, <5>1, <5>2, <5>3
      <4> QED
        BY <4>3, <4>4
    <3> QED
      BY <1>2, <3>1, <3>2, <3>3, <3>4, SMT
  <2>4. ASSUME NEW o \in Ready(d.load), d.size <= o
        PROVE  o \in b.over
    <3>1. o \in Ready(c.load) /\ c.size <= o
      BY <1>1, <1>2, <1>4, <1>7, <2>4, SMT
    <3> QED
      BY <1>3, <3>1 DEF Sound
  <2>5. ASSUME NEW o \in Offsets, d.size <= o
        PROVE  /\ b.ideal[o] = Zero
               /\ o \in b.touched
               /\ cacheType = "disk" => d.data[o] = Zero \/ o \in b.spoilt
    <3>1. c.size <= o /\ o \notin span /\ end <= o
      BY <1>2, <1>4, <1>7, <2>5, SMT
    <3>2. /\ a.ideal[o] = Zero /\ o \in a.touched
          /\ cacheType = "disk" => c.data[o] = Zero \/ o \in a.spoilt
      BY <3>1 DEF Sound
    <3>3. b.ideal[o] = Zero /\ o \in b.touched
      BY <1>3, <3>1, <3>2
    <3>4. CASE c.size < end
      BY <1>0, <1>1, <1>6, <3>1, <3>3, <3>4
    <3>5. CASE end <= c.size
      <4>1. ~(end > c.size)
        BY <1>2, <3>5, SMT
      <4> QED
        BY <1>0, <1>1, <1>3, <3>1, <3>2, <3>3, <3>5, <4>1
    <3> QED
      BY <1>2, <3>4, <3>5, SMT
  <2> QED
    BY <1>1, <2>2, <2>3, <2>4, <2>5 DEF Sound
<1>9. \A o \in Offsets \ S :
         b.ideal[o] = a.ideal[o] /\ (o < d.size <=> o < c.size)
  BY <1>2, <1>3, <1>4, <1>7, SMT
<1>10. ASSUME NEW o \in Span(0, d.size)
       PROVE  \/ o \in Ready(d.load) \cup b.holes
              \/ o < c.size /\ o \notin Ready(c.load) \cup a.holes
  <2>1. o \in Nat /\ o < d.size
    BY <1>7, SMT DEF Span
  <2>2. CASE o \in span
    BY <1>1, <2>2
  <2>3. CASE o \notin span /\ c.size <= o
    <3>1. o \in c.size..(ofst - 1)
      BY <1>2, <1>4, <1>7, <2>1, <2>3, SMT
    <3> QED
      BY <1>3, <2>3, <3>1
  <2>4. CASE o \notin span /\ o < c.size
    BY <1>1, <1>3, <2>4
  <2> QED
    BY <1>2, <2>1, <2>2, <2>3, <2>4, SMT
<1> QED
  BY <1>1, <1>3, <1>5, <1>8, <1>9, <1>10 DEF Change, d, b, S

(* Every byte of a block put at ofst is right, or is named in bad.         *)
Accounted(c, a, ofst, buf, bad) ==
    \A o \in Span(ofst, Len(buf)) :
        o \in bad \/ (o < c.size /\ buf[o - ofst + 1] = a.ideal[o])

(* A block that may be stored in the file c, and what storing it does.     *)
Storable(c, a, ofst, buf, load, bad, missed) ==
    /\ c \in Cache /\ a \in History /\ ofst \in Nat
    /\ buf \in Seq(Byte) /\ ofst + Len(buf) <= MaxSize
    /\ load \in Load
    /\ Ready(load) = Ready(c.load) \cup Span(ofst, Len(buf))
    /\ missed \in SUBSET Nat /\ cacheType \in {"memory", "disk"}
    /\ Sound(cacheType, c, a) /\ Accounted(c, a, ofst, buf, bad)

StoredRight(c, a, ofst, buf, missed, d, b) ==
    /\ Change(cacheType, c, a, d, b, {})
    /\ d.size = c.size
    /\ Ready(d.load) = Ready(c.load) \cup Span(ofst, Len(buf))
    /\ b.ideal = a.ideal
    /\ b.holes = (a.holes \ Span(ofst, Len(buf))) \cup missed

(* A stored block keeps a file sound if every byte of it is the one that   *)
(* belongs there, or is known as bad.                                      *)
LEMMA StoreChange ==
    ASSUME NEW c, NEW a, NEW ofst, NEW buf, NEW load, NEW bad, NEW missed,
           Storable(c, a, ofst, buf, load, bad, missed)
    PROVE  StoredRight(c, a, ofst, buf, missed, Stored(c, ofst, buf, load),
                       AfterStore(c, a, ofst, Len(buf), bad, missed))
<1>1. /\ c \in Cache /\ a \in History /\ ofst \in Nat
      /\ buf \in Seq(Byte) /\ ofst + Len(buf) <= MaxSize
      /\ load \in Load
      /\ Ready(load) = Ready(c.load) \cup Span(ofst, Len(buf))
      /\ missed \in SUBSET Nat /\ cacheType \in {"memory", "disk"}
      /\ Sound(cacheType, c, a) /\ Accounted(c, a, ofst, buf, bad)
  BY DEF Storable
<1> USE <1>1
<1>2. LET d == Stored(c, ofst, buf, load) IN
      /\ d \in Cache
      /\ d.size = c.size
      /\ Ready(d.load) = Ready(c.load) \cup Span(ofst, Len(buf))
      /\ d.lock = c.lock
      /\ c.len <= d.len
      /\ \A o \in Offsets :
           d.data[o] = IF o \in Span(ofst, Len(buf))
                       THEN buf[o - ofst + 1] ELSE c.data[o]
  BY ONLY <1>1, StoredFields
<1> DEFINE d == Stored(c, ofst, buf, load)
           b == AfterStore(c, a, ofst, Len(buf), bad, missed)
           span == Span(ofst, Len(buf))
<1>3. /\ d \in Cache
      /\ d.size = c.size
      /\ Ready(d.load) = Ready(c.load) \cup span
      /\ d.lock = c.lock
      /\ c.len <= d.len
      /\ \A o \in Offsets :
           d.data[o] = IF o \in span THEN buf[o - ofst + 1] ELSE c.data[o]
  BY <1>2
<1>4. /\ c.size \in Nat /\ c.len \in Nat /\ d.len \in Nat /\ MaxSize \in Nat
      /\ c.size <= MaxSize /\ c.size <= c.len
      /\ Ready(c.load) \subseteq Nat
  <2>1. /\ c.size \in Nat /\ c.len \in Nat /\ d.len \in Nat /\ MaxSize \in Nat
        /\ c.size <= MaxSize /\ c.size <= c.len
    BY <1>3, FileDataConstants, SMT DEF Cache, Sound
  <2> QED
    BY <2>1, ReadyOf
<1>5. /\ \A o : o \in span <=> o \in Nat /\ o < ofst + Len(buf) /\ ofst <= o
      /\ \A o : o \in Offsets <=> o \in Nat /\ o < MaxSize
  BY <1>4, SMT DEF Span, Offsets
<1>6. /\ b \in History
      /\ b.ideal = a.ideal
      /\ b.touched = a.touched
      /\ b.spoilt = (a.spoilt \ span) \cup (bad \cap span)
      /\ b.holes = (a.holes \ span) \cup missed
      /\ b.over = a.over \cup {o \in span : o >= c.size}
  <2> DEFINE spoilt == (a.spoilt \ span) \cup (bad \cap span)
             holes == (a.holes \ span) \cup missed
             over == a.over \cup {o \in span : o >= c.size}
  <2>1. span \in SUBSET Nat
    BY <1>5
  <2>2. /\ spoilt \in SUBSET Nat
        /\ holes \in SUBSET Nat
        /\ over \in SUBSET Nat
    BY <2>1 DEF History
  <2>3. b = [a EXCEPT !.spoilt = spoilt, !.holes = holes, !.over = over]
    BY DEF AfterStore
  <2> HIDE DEF spoilt, holes, over
  <2>4. LET e == [a EXCEPT !.spoilt = spoilt, !.holes = holes,
                           !.over = over] IN
        /\ e \in History
        /\ e.ideal = a.ideal /\ e.touched = a.touched
        /\ e.spoilt = spoilt /\ e.holes = holes /\ e.over = over
    BY <2>2 DEF History
  <2> QED
    BY <2>3, <2>4 DEF spoilt, holes, over
<1> HIDE DEF d, b, span
<1>7. Sound(cacheType, d, b)
  <2>1. d.size <= d.len
    BY <1>3, <1>4, SMT
  <2>2. \A o \in Ready(d.load) : o < 2 * MaxSize
    BY <1>3, <1>4, <1>5, SMT DEF Sound
  <2>3. ASSUME NEW o \in Ready(d.load), o < d.size
        PROVE  d.data[o] = b.ideal[o] \/ o \in b.spoilt
    <3>1. o \in Offsets
      BY <1>3, <1>4, <1>5, <2>3, SMT
    <3>2. CASE o \in span
      BY <1>3, <1>6, <3>1, <3>2 DEF span, Accounted
    <3>3. CASE o \notin span
      BY <1>3, <1>6, <2>3, <3>1, <3>3 DEF Sound
    <3> QED
      BY <3>2, <3>3
  <2>4. ASSUME NEW o \in Ready(d.load), d.size <= o
        PROVE  o \in b.over
    <3>1. CASE o \in span
      <4>1. o >= c.size
        BY <1>3, <1>4, <1>5, <2>4, <3>1, SMT
      <4> QED
        BY <1>6, <3>1, <4>1
    <3>2. CASE o \notin span
      BY <1>3, <1>6, <2>4, <3>2 DEF Sound
    <3> QED
      BY <3>1, <3>2
  <2>5. ASSUME NEW o \in Offsets, d.size <= o
        PROVE  /\ b.ideal[o] = Zero
               /\ o \in b.touched
               /\ cacheType = "disk" => d.data[o] = Zero \/ o \in b.spoilt
    <3>1. /\ a.ideal[o] = Zero /\ o \in a.touched
          /\ cacheType = "disk" => c.data[o] = Zero \/ o \in a.spoilt
      BY <1>3, <2>5 DEF Sound
    <3>2. o \in span => o \in bad
      <4>1. ~(o < c.size)
        BY <1>3, <1>4, <1>5, <2>5, SMT
      <4> QED
        BY <4>1 DEF span, Accounted
    <3> QED
      BY <1>3, <1>6, <3>1, <3>2
  <2> QED
    BY <2>1, <2>2, <2>3, <2>4, <2>5 DEF Sound
<1>8. ASSUME NEW o \in Span(0, d.size)
      PROVE  \/ o \in Ready(d.load) \cup b.holes
             \/ o < c.size /\ o \notin Ready(c.load) \cup a.holes
  <2>1. o < c.size
    BY <1>3, <1>4, SMT DEF Span
  <2> QED
    BY <1>3, <1>6, <2>1
<1>9. Change(cacheType, c, a, d, b, {})
  BY <1>3, <1>6, <1>7, <1>8 DEF Change
<1> QED
  BY <1>3, <1>6, <1>9 DEF d, b, span, StoredRight

(* A transaction stands for a byte at every offset, zero beyond its end.   *)
LEMMA ContentTyped ==
    ASSUME NEW tx \in Tx
    PROVE  /\ Content(tx) \in [Offsets -> Byte]
           /\ \A o \in Offsets : tx.size <= o => Content(tx)[o] = Zero
<1>1. ASSUME NEW o \in Offsets, InBlock(tx, o)
      PROVE  tx.blocks[(o \div BlockSize) + 1][(o % BlockSize) + 1] \in Byte
  <2>1. tx.blocks \in Seq(Seq(Byte))
    BY DEF Tx
  <2>2. o \div BlockSize \in Nat /\ o % BlockSize \in Nat
    BY OffsetsNat, DivMod, FileDataConstants, SMT
  <2>3. (o \div BlockSize) + 1 \in 1..Len(tx.blocks)
    BY <1>1, <2>1, <2>2, SMT DEF InBlock
  <2>4. tx.blocks[(o \div BlockSize) + 1] \in Seq(Byte)
    BY <2>1, <2>3, SMT
  <2>5. (o % BlockSize) + 1 \in 1..Len(tx.blocks[(o \div BlockSize) + 1])
    BY <1>1, <2>2, <2>4, SMT DEF InBlock
  <2> QED
    BY <2>4, <2>5, SMT
<1>2. \A o \in Offsets : tx.size <= o => ~(o < tx.size)
  BY OffsetsNat, FileDataConstants, SMT DEF Tx
<1> QED
  BY <1>1, <1>2, OffsetsNat DEF Content

(* The Truncate of a remote transaction: until it is patched, every byte   *)
(* of the file counts as wrong.                                            *)
LEMMA ReplaceChange ==
    ASSUME NEW c \in Cache, NEW a \in History, NEW tx \in Tx,
           cacheType \in {"memory", "disk"}, Sound(cacheType, c, a)
    PROVE  /\ Change(cacheType, c, a, Replaced(c, tx.size),
                     AfterReplace(c, a, tx), Offsets)
           /\ Replaced(c, tx.size).size = tx.size
           /\ AfterReplace(c, a, tx).ideal = Content(tx)
<1> DEFINE size == tx.size
           d == Replaced(c, size)
           b == AfterReplace(c, a, tx)
<1>0. size \in 0..MaxSize
  BY DEF Tx
<1>1. /\ d \in Cache
      /\ d.size = size
      /\ Ready(d.load) =
           IF size < c.size THEN {o \in Ready(c.load) : o < size}
           ELSE Ready(c.load)
      /\ d.lock = c.lock
      /\ d.len = IF cacheType = "disk" THEN size ELSE Max2(c.len, size)
      /\ \A o \in Offsets :
           d.data[o] = IF o \in Wiped(c, size) THEN Zero ELSE c.data[o]
  BY <1>0, ReplacedFields
<1>2. /\ c.size \in Nat /\ c.len \in Nat /\ size \in Nat /\ MaxSize \in Nat
      /\ c.size <= MaxSize /\ size <= MaxSize /\ c.size <= c.len
      /\ Ready(c.load) \subseteq Nat
  <2>1. /\ c.size \in Nat /\ c.len \in Nat /\ size \in Nat /\ MaxSize \in Nat
        /\ c.size <= MaxSize /\ size <= MaxSize /\ c.size <= c.len
    BY <1>0, FileDataConstants, SMT DEF Cache, Sound
  <2> QED
    BY <2>1, ReadyOf
<1>3. /\ b.ideal = Content(tx)
      /\ b.touched = Offsets
      /\ b.spoilt = (a.spoilt \ Wiped(c, size)) \cup Span(0, size)
      /\ b.holes = {o \in a.holes : o < size} \cup c.size..(size - 1)
      /\ b.over = IF size < c.size THEN {o \in a.over : o < size}
                  ELSE a.over
  BY DEF AfterReplace, Cleansed
<1>4. Content(tx) \in [Offsets -> Byte]
  BY ContentTyped
<1>5. b \in History
  <2>1. a.spoilt \in SUBSET Nat /\ a.holes \in SUBSET Nat
        /\ a.over \in SUBSET Nat
    BY DEF History
  <2>2. Span(0, size) \in SUBSET Nat /\ c.size..(size - 1) \in SUBSET Nat
    BY <1>2, SMT DEF Span
  <2>3. b.spoilt \in SUBSET Nat /\ b.holes \in SUBSET Nat
        /\ b.over \in SUBSET Nat
    BY <1>3, <2>1, <2>2
  <2> QED
    BY <1>3, <1>4, <2>3 DEF AfterReplace, History
<1>6. \A o \in Offsets : o \in Wiped(c, size) <=>
         IF cacheType = "disk" THEN size <= o ELSE c.size <= o /\ o < size
  BY <1>0, WipedOf
<1>7. \A o \in Offsets : size <= o => Content(tx)[o] = Zero
  BY ContentTyped
<1> HIDE DEF d, b, size
<1>8. Sound(cacheType, d, b)
  <2>1. d.size <= d.len
    BY <1>1, <1>2, SMT DEF Max2
  <2>2. \A o \in Ready(d.load) : o < 2 * MaxSize
    BY <1>1, <1>2, SMT DEF Sound
  <2>3. ASSUME NEW o \in Ready(d.load), o < d.size
        PROVE  d.data[o] = b.ideal[o] \/ o \in b.spoilt
    <3>1. o \in Span(0, size)
      BY <1>1, <1>2, <2>3, SMT DEF Span
    <3> QED
      BY <1>3, <3>1
  <2>4. ASSUME NEW o \in Ready(d.load), d.size <= o
        PROVE  o \in b.over
    BY <1>1, <1>2, <1>3, <2>4, SMT DEF Sound
  <2>5. ASSUME NEW o \in Offsets, d.size <= o
        PROVE  /\ b.ideal[o] = Zero
               /\ o \in b.touched
               /\ cacheType = "disk" => d.data[o] = Zero \/ o \in b.spoilt
    BY <1>1, <1>3, <1>6, <1>7, <2>5
  <2> QED
    BY <2>1, <2>2, <2>3, <2>4, <2>5 DEF Sound
<1>9. ASSUME NEW o \in Span(0, d.size)
      PROVE  \/ o \in Ready(d.load) \cup b.holes
             \/ o < c.size /\ o \notin Ready(c.load) \cup a.holes
  BY <1>1, <1>2, <1>3, SMT DEF Span
<1>10. cacheType = "memory" => c.len <= d.len
  BY <1>1, <1>2, SMT DEF Max2
<1>11. b.touched = a.touched \cup Offsets
  BY <1>3 DEF History
<1>12. Change(cacheType, c, a, d, b, Offsets)
  BY <1>1, <1>5, <1>8, <1>9, <1>10, <1>11 DEF Change
<1> QED
  BY <1>1, <1>3, <1>12 DEF d, b, size

(* Moving the position of the temporary file changes nothing else.         *)
LEMMA MoveChange ==
    ASSUME NEW c \in Cache, NEW a \in History, NEW p \in Nat,
           Sound(cacheType, c, a)
    PROVE  LET d == [c EXCEPT !.pos = p] IN
           /\ Change(cacheType, c, a, d, a, {})
           /\ d.size = c.size /\ d.load = c.load /\ d.len = c.len
           /\ d.data = c.data /\ d.pos = p
<1> DEFINE d == [c EXCEPT !.pos = p]
<1>1. /\ d \in Cache
      /\ d.size = c.size /\ d.load = c.load /\ d.len = c.len
      /\ d.data = c.data /\ d.pos = p /\ d.lock = c.lock
  BY DEF Cache
<1> HIDE DEF d
<1>2. Sound(cacheType, d, a)
  BY <1>1 DEF Sound
<1>3. c.size \in Nat /\ c.len \in Nat
  BY FileDataConstants, SMT DEF Cache
<1>4. \A o \in Span(0, d.size) : o < c.size
  BY <1>1, <1>3, SMT DEF Span
<1>5. c.len <= d.len
  BY <1>1, <1>3, SMT
<1>6. Change(cacheType, c, a, d, a, {})
  BY <1>1, <1>2, <1>4, <1>5 DEF Change
<1> QED
  BY <1>1, <1>6 DEF d

(* A Truncate that panics makes nothing ready, and keeps the lock.         *)
LEMMA HalfTrimmedChange ==
    ASSUME NEW c \in Cache, NEW a \in History, NEW size \in Nat,
           NEW load \in HalfTrimmed(c.load, size), Sound(cacheType, c, a)
    PROVE  LET d == [c EXCEPT !.load = load, !.lock = "kept"] IN
           Change(cacheType, c, a, d, a, {}) /\ d.size = c.size
<1> DEFINE d == [c EXCEPT !.load = load, !.lock = "kept"]
<1>1. load \in Load /\ Ready(load) \subseteq Ready(c.load)
  BY ReadyOf, HalfTrimmedReady
<1>2. /\ d \in Cache
      /\ d.size = c.size /\ d.load = load /\ d.len = c.len
      /\ d.data = c.data /\ d.lock = "kept"
  BY <1>1 DEF Cache
<1> HIDE DEF d
<1>3. Sound(cacheType, d, a)
  BY <1>1, <1>2 DEF Sound
<1>4. c.len \in Nat
  BY FileDataConstants, SMT DEF Cache
<1>5. c.len <= d.len
  BY <1>2, <1>4, SMT
<1>6. Change(cacheType, c, a, d, a, {})
  BY <1>2, <1>3, <1>5 DEF Change
<1> QED
  BY <1>2, <1>6 DEF d

-----------------------------------------------------------------------------
(* The inductive invariant.  What each goroutine may rely on, from its own *)
(* record and the file that it works on.                                   *)

(* A loader still has in its transaction whatever nobody has touched.      *)
LoaderSound(kind, l, c, a) ==
    /\ l.tx \in Tx
    /\ \A k \in DOMAIN l.todo : l.todo[k] < Len(l.tx.blocks)
    /\ l.pc \in {"lookup", "store"} => l.todo # <<>>
    /\ \A o \in Offsets \ a.touched :
        o < l.tx.size /\ a.ideal[o] = Content(l.tx)[o]
    /\ kind = "memory" => l.tx.size <= c.len

(* What the open file shows is there, or is named, or still comes, unless  *)
(* a panic has kept its lock.                                              *)
Awaits(l, o) == /\ InBlock(l.tx, o)
                /\ \E k \in DOMAIN l.todo :
                    o \in Span(l.todo[k] * BlockSize, BlockSize)
Reach(l, c, a) ==
    c.lock # "kept" =>
        \A o \in Span(0, c.size) :
            o \in Ready(c.load) \cup a.holes \/ Awaits(l, o)

(* A Read that has counted its bytes finds them where it left them.        *)
ReaderSound(kind, x, c, a) ==
    /\ x.pc = "poll" => 0 < x.len
    /\ x.pc \in {"copy", "panicked"} /\ x.len < 0 => x.ofst \in a.over
    /\ x.pc = "copy" /\ 0 <= x.len =>
        /\ Span(x.ofst, x.len) \subseteq Ready(c.load)
        /\ x.ofst + x.len <= c.size
    /\ x.pc = "copy" /\ kind = "disk" /\ ~x.raced => c.pos = x.ofst

(* A patch knows which bytes are no longer its transaction's.              *)
PatchSound(kind, p, c, a) ==
    /\ p.pc = "cut" => p.idx = 0
    /\ p.pc # "cut" =>
        /\ p.idx < Len(p.tx.blocks)
        /\ \A o \in Offsets \ p.touched :
            /\ a.ideal[o] = Content(p.tx)[o]
            /\ o < c.size => o < p.tx.size
    /\ p.pc = "patch" =>
        /\ \A o \in Span(p.idx * BlockSize, p.n) :
            c.size <= o => o \in p.touched
        /\ kind = "memory" => p.idx * BlockSize + p.n <= c.len

(* The blocks that an upload has gathered are as many, and as long, as its *)
(* file has them, and the bytes of the file, unless it was torn or raced.  *)
JobShape(j) ==
    /\ Len(j.blocks) <= j.idx
    /\ Len(j.blocks) <= Blocks(MaxSize)
    /\ \A i \in DOMAIN j.blocks : Len(j.blocks[i]) <= BlockSize
    /\ j.pc \in {"seek", "copy"} => j.idx < j.end /\ j.end <= Blocks(MaxSize)
    /\ j.pc = "count" => j.idx = 0
Gathered(j, a) ==
    \A i \in DOMAIN j.blocks : \A k \in DOMAIN j.blocks[i] :
        LET o == (i - 1) * BlockSize + k - 1 IN
        j.blocks[i][k] = a.ideal[o] \/ o \in j.bad
Complete(j, c, a) ==
    /\ j.size = c.size
    /\ j.end = Blocks(j.size)
    /\ Len(j.blocks) = j.idx
    /\ \A i \in DOMAIN j.blocks :
        Len(j.blocks[i]) = Min2(BlockSize, j.size - (i - 1) * BlockSize)
    /\ ~j.raced => Gathered(j, a)
JobExact(kind, j, c, a) ==
    /\ j.pc = "count" => j.size = c.size
    /\ j.pc \in {"seek", "copy"} => Complete(j, c, a)
    /\ j.pc = "copy" =>
        /\ j.n = Min2(BlockSize, j.size - j.idx * BlockSize)
        /\ kind = "disk" /\ ~j.raced => c.pos = j.idx * BlockSize

FilesInv ==
    \A f \in Files : files[f] # None => Sound(cacheType, files[f], aux[f])
NewestOpen ==
    /\ \A f, g \in Files : files[f] # None /\ g < f => files[g] # None
    /\ open # None => \A f \in Files : files[f] # None => f <= open
LoaderAt(f) ==
    /\ loader[f].pc # "none" =>
        /\ files[f] # None
        /\ LoaderSound(cacheType, loader[f], files[f], aux[f])
    /\ loader[f].pc = "store" =>
        /\ loader[f].target # None
        /\ files[loader[f].target] # None
        /\ f <= loader[f].target
    /\ open = f /\ loader[f].pc # "stopped" =>
        Reach(loader[f], files[f], aux[f])
LoadersInv == \A f \in Files : LoaderAt(f)
ReadersInv == \A r \in Readers :
    LET f == reader[r].file IN
    ReaderSound(cacheType, reader[r], files[f], aux[f])
PatchInv ==
    patch # None =>
        PatchSound(cacheType, patch, files[patch.file], aux[patch.file])
JobInv ==
    job # None =>
        /\ JobShape(job)
        /\ ~job.torn =>
            JobExact(cacheType, job, files[job.file], aux[job.file])

DataInv == /\ TypeOK /\ FilesInv /\ NewestOpen /\ LoadersInv /\ ReadersInv
           /\ PatchInv /\ JobInv

-----------------------------------------------------------------------------
(* What a change of a file leaves to those who work on it.                 *)

(* A loader still has what it needs after a change of its file.            *)
LEMMA LoaderKept ==
    ASSUME NEW kind, NEW c, NEW a, NEW d, NEW b, NEW S, NEW l, c \in Cache,
           l.tx \in Tx => l.tx.size \in Nat,
           Change(kind, c, a, d, b, S), LoaderSound(kind, l, c, a)
    PROVE  LoaderSound(kind, l, d, b)
<1>1. c.len \in Nat /\ d.len \in Nat
  BY FileDataConstants, SMT DEF Change, Cache
<1>2. \A o \in Offsets \ b.touched :
        o < l.tx.size /\ b.ideal[o] = Content(l.tx)[o]
  BY DEF Change, LoaderSound
<1>3. kind = "memory" => l.tx.size <= d.len
  <2>1. l.tx.size \in Nat
    BY DEF LoaderSound
  <2>2. kind = "memory" => l.tx.size <= c.len /\ c.len <= d.len
    BY DEF Change, LoaderSound
  <2> QED
    BY <1>1, <2>1, <2>2, SMT
<1> QED
  BY <1>2, <1>3 DEF LoaderSound

(* What the open file shows is still there or still comes after a change.  *)
LEMMA ReachKept ==
    ASSUME NEW kind, NEW c, NEW a, NEW d, NEW b, NEW S, NEW l, c \in Cache,
           Change(kind, c, a, d, b, S), Reach(l, c, a)
    PROVE  Reach(l, d, b)
<1>1. d.lock # "kept" =>
        /\ c.lock # "kept"
        /\ \A o \in Span(0, d.size) :
            \/ o \in Ready(d.load) \cup b.holes
            \/ o < c.size /\ o \notin Ready(c.load) \cup a.holes
  BY DEF Change
<1>2. \A o \in Span(0, d.size) : o < c.size => o \in Span(0, c.size)
  BY FileDataConstants, SMT DEF Change, Cache, Span
<1> QED
  BY <1>1, <1>2 DEF Reach

(* A patch that is told what has been touched still knows which bytes are  *)
(* its own.                                                                *)
LEMMA PatchKept ==
    ASSUME NEW kind, NEW c, NEW a, NEW d, NEW b, NEW S, NEW p \in Patch,
           c \in Cache, S \subseteq Offsets,
           Change(kind, c, a, d, b, S), PatchSound(kind, p, c, a),
           p.idx < Len(p.tx.blocks) => p.idx * BlockSize + p.n <= MaxSize
    PROVE  LET q == [p EXCEPT !.touched = p.touched \cup S] IN
           q \in Patch /\ q.file = p.file /\ PatchSound(kind, q, d, b)
<1> DEFINE q == [p EXCEPT !.touched = p.touched \cup S]
<1>1. /\ q \in Patch /\ q.pc = p.pc /\ q.idx = p.idx /\ q.n = p.n
      /\ q.tx = p.tx
      /\ q.file = p.file /\ q.touched = p.touched \cup S
  BY DEF Patch
<1> HIDE DEF q
<1>2. /\ c.len \in Nat /\ d.len \in Nat /\ c.size \in Nat /\ d.size \in Nat
      /\ BlockSize \in Nat /\ p.idx * BlockSize \in Nat /\ p.n \in Nat
  BY FileDataConstants, SMT DEF Change, Cache, Patch
<1>3. p.pc # "cut" => \A o \in Offsets \ q.touched :
        /\ b.ideal[o] = Content(q.tx)[o]
        /\ o < d.size => o < q.tx.size
  BY <1>1 DEF Change, PatchSound
<1>4. p.pc = "patch" =>
        \A o \in Span(p.idx * BlockSize, p.n) :
            d.size <= o => o \in q.touched
  <2>1. SUFFICES ASSUME p.pc = "patch",
                        NEW o \in Span(p.idx * BlockSize, p.n),
                        d.size <= o, o \notin S
                 PROVE  o \in p.touched
    BY <1>1
  <2>2. p.idx * BlockSize + p.n <= MaxSize
    BY <2>1 DEF PatchSound
  <2>3. o \in Offsets /\ o \in Nat
    BY <1>2, <2>2, FileDataConstants, SMT DEF Span, Offsets
  <2>4. ~(o < c.size)
    <3>1. ~(o < d.size)
      BY <1>2, <2>1, <2>3, SMT
    <3> QED
      BY <2>1, <2>3, <3>1 DEF Change
  <2>5. c.size <= o
    BY <1>2, <2>3, <2>4, SMT
  <2> QED
    BY <2>1, <2>5 DEF PatchSound
<1>5. p.pc = "patch" /\ kind = "memory" => p.idx * BlockSize + p.n <= d.len
  <2>1. p.pc = "patch" /\ kind = "memory" =>
          p.idx * BlockSize + p.n <= c.len /\ c.len <= d.len
    BY DEF Change, PatchSound
  <2> QED
    BY <1>2, <2>1, SMT
<1>6. PatchSound(kind, q, d, b)
  BY <1>1, <1>3, <1>4, <1>5 DEF PatchSound
<1> QED
  BY <1>1, <1>6 DEF q

(* A torn upload promises nothing.                                         *)
LEMMA TornJob ==
    ASSUME NEW j \in Job, JobShape(j)
    PROVE  LET t == [j EXCEPT !.torn = TRUE] IN
           t \in Job /\ t.torn /\ t.file = j.file /\ JobShape(t)
<1> DEFINE t == [j EXCEPT !.torn = TRUE]
<1>1. /\ t \in Job /\ t.torn /\ t.file = j.file
      /\ t.blocks = j.blocks /\ t.idx = j.idx /\ t.end = j.end /\ t.pc = j.pc
  BY DEF Job
<1> HIDE DEF t
<1>2. JobShape(t)
  BY <1>1 DEF JobShape
<1> QED
  BY <1>1, <1>2 DEF t

(* An upload that no longer, or not yet, reads is not hurt by a change     *)
(* that keeps the size and the bytes that the file should have.            *)
LEMMA JobKept ==
    ASSUME NEW kind, NEW c, NEW a, NEW d, NEW b, NEW j,
           JobExact(kind, j, c, a), j.pc # "copy",
           \/ j.pc \notin {"count", "seek"}
           \/ d.size = c.size /\ b.ideal = a.ideal
    PROVE  JobExact(kind, j, d, b)
BY DEF JobExact, Complete, Gathered

FilesType ==
    /\ open \in Files \cup {None}
    /\ open # None => files[open] # None
    /\ files \in [Files -> Cache \cup {None}]
    /\ aux \in [Files -> History \cup {None}]
    /\ \A f \in Files : /\ files[f] = None <=> aux[f] = None
                        /\ files[f] # None => files[f].size <= files[f].len
ReadersType ==
    /\ reader \in [Readers -> Reader]
    /\ \A r \in Readers : reader[r].pc # "idle" =>
            reader[r].file # None /\ files[reader[r].file] # None
JobType ==
    /\ job \in Job \cup {None}
    /\ job # None => files[job.file] # None
PatchType ==
    /\ patch \in Patch \cup {None}
    /\ patch # None => files[patch.file] # None

(* None is not a value of any variable that may be None.                   *)
LEMMA NoneIsNot ==
    /\ None \notin Files /\ None \notin Tx /\ None \notin Cache
    /\ None \notin History /\ None \notin Job /\ None \notin Patch
BY FileDataConstants

(* The parts of the type invariant.                                        *)
LEMMA TypeParts ==
    TypeOK <=> /\ cacheType \in CacheTypes
               /\ db \in Tx \cup {None} /\ posted \in Tx \cup {None}
               /\ FilesType
               /\ loader \in [Files -> Loader]
               /\ ReadersType /\ JobType /\ PatchType
               /\ crashed \in BOOLEAN
               /\ left \in [Events -> Nat]
BY DEF TypeOK, FilesType, ReadersType, JobType, PatchType

(* What TypeOK says of a file that is there.                               *)
LEMMA FileThere ==
    ASSUME TypeOK, NEW f \in Files, files[f] # None
    PROVE  /\ files[f] \in Cache /\ aux[f] \in History
           /\ cacheType \in {"memory", "disk"}
BY NoneIsNot, FileDataConstants DEF TypeOK

(* The fields of a transaction.                                            *)
LEMMA TxFields ==
    ASSUME NEW tx \in Tx
    PROVE  /\ tx.size \in 0..MaxSize /\ tx.size \in Nat
           /\ tx.blocks \in Seq(Seq(Byte)) /\ Len(tx.blocks) \in Nat
           /\ Len(tx.blocks) <= Blocks(MaxSize)
           /\ \A i \in DOMAIN tx.blocks : /\ tx.blocks[i] \in Seq(Byte)
                                          /\ Len(tx.blocks[i]) <= BlockSize
<1>1. tx.size \in 0..MaxSize /\ tx.blocks \in Seq(Seq(Byte))
  BY DEF Tx
<1>2. tx.size \in Nat /\ Len(tx.blocks) \in Nat
  BY <1>1, FileDataConstants, SMT
<1>3. \A i \in DOMAIN tx.blocks : tx.blocks[i] \in Seq(Byte)
  BY <1>1, SMT
<1> QED
  BY <1>1, <1>2, <1>3 DEF Tx

(* The block that a patch is at lies below MaxSize.                        *)
LEMMA PatchBlockFits ==
    ASSUME NEW p \in Patch, p.idx < Len(p.tx.blocks)
    PROVE  /\ p.idx * BlockSize \in Nat
           /\ p.idx * BlockSize + BlockSize <= MaxSize
           /\ p.idx * BlockSize + p.n <= MaxSize
<1>1. p.idx \in Nat /\ p.n \in 0..BlockSize /\ p.tx \in Tx
  BY DEF Patch
<1>2. p.idx < Blocks(MaxSize)
  <2>1. Len(p.tx.blocks) \in Nat /\ Len(p.tx.blocks) <= Blocks(MaxSize)
    BY <1>1, TxFields
  <2>2. Blocks(MaxSize) \in Nat
    BY BlocksBegin, FileDataConstants
  <2> QED
    BY <1>1, <2>1, <2>2, SMT
<1>3. p.idx * BlockSize \in Nat /\ p.idx * BlockSize + BlockSize <= MaxSize
  BY <1>1, <1>2, BlockFits
<1> QED
  BY <1>1, <1>3, FileDataConstants, SMT

-----------------------------------------------------------------------------
(* A step that changes one file under its lock, for those it does not      *)
(* belong to.                                                              *)

(* What holds of the files and of the loaders after a change of one file   *)
(* under its lock.                                                         *)
LEMMA OneFileChanges ==
    ASSUME DataInv, NEW f \in Files, files[f] # None,
           NEW d, NEW b, NEW S \in SUBSET Offsets,
           Change(cacheType, files[f], aux[f], d, b, S),
           files' = [files EXCEPT ![f] = d], aux' = [aux EXCEPT ![f] = b],
           cacheType' = cacheType, open' = open
    PROVE  /\ files'[f] = d /\ aux'[f] = b
           /\ \A g \in Files \ {f} : files'[g] = files[g] /\ aux'[g] = aux[g]
           /\ \A g \in Files : files'[g] = None <=> files[g] = None
           /\ FilesType'
           /\ FilesInv' /\ NewestOpen'
           /\ \A g \in Files : loader'[g] = loader[g] => LoaderAt(g)'
<1>1. TypeOK /\ FilesType /\ loader \in [Files -> Loader]
  BY TypeParts DEF DataInv
<1>2. files'[f] = d /\ aux'[f] = b
  BY <1>1 DEF FilesType
<1>3. \A g \in Files \ {f} : files'[g] = files[g] /\ aux'[g] = aux[g]
  BY <1>1 DEF FilesType
<1>4. d \in Cache /\ b \in History /\ d # None /\ b # None
  BY NoneIsNot DEF Change
<1>5. \A g \in Files : files'[g] = None <=> files[g] = None
  BY <1>2, <1>3, <1>4
<1>6. FilesType'
  <2>1. /\ files' \in [Files -> Cache \cup {None}]
        /\ aux' \in [Files -> History \cup {None}]
    BY <1>1, <1>4 DEF FilesType
  <2>2. \A g \in Files : /\ files'[g] = None <=> aux'[g] = None
                         /\ files'[g] # None => files'[g].size <= files'[g].len
    <3>1. d.size <= d.len
      BY DEF Change, Sound
    <3> QED
      BY <1>1, <1>2, <1>3, <1>4, <3>1 DEF FilesType
  <2> QED
    BY <1>1, <1>5, <2>1, <2>2 DEF FilesType
<1>7. FilesInv'
  BY <1>2, <1>3, <1>5 DEF FilesInv, DataInv, Change
<1>8. NewestOpen'
  BY <1>5 DEF NewestOpen, DataInv
<1>9. ASSUME NEW g \in Files, loader'[g] = loader[g]
      PROVE  LoaderAt(g)'
  <2>1. LoaderAt(g)
    BY DEF DataInv, LoadersInv
  <2>2. loader[g].target \in Files \cup {None}
    BY <1>1 DEF Loader
  <2>3. files'[loader[g].target] # None \/ loader[g].pc # "store"
    BY <1>5, <2>1, <2>2 DEF LoaderAt
  <2>4. CASE g # f
    <3>1. files'[g] = files[g] /\ aux'[g] = aux[g]
      BY <1>3, <2>4
    <3> QED
      BY <1>9, <2>1, <2>3, <3>1 DEF LoaderAt
  <2>5. CASE g = f
    <3>0. files[f] \in Cache
      BY <1>1, FileThere
    <3>1. loader[f].pc # "none" => LoaderSound(cacheType, loader[f], d, b)
      <4>1. loader[f].tx \in Tx => loader[f].tx.size \in Nat
        BY TxFields
      <4> QED
        BY <2>1, <2>5, <3>0, <4>1, LoaderKept DEF LoaderAt
    <3>2. open = f /\ loader[f].pc # "stopped" => Reach(loader[f], d, b)
      BY <2>1, <2>5, <3>0, ReachKept DEF LoaderAt
    <3> QED
      BY <1>2, <1>4, <1>9, <2>1, <2>3, <2>5, <3>1, <3>2 DEF LoaderAt
  <2> QED
    BY <2>4, <2>5
<1> QED
  BY <1>2, <1>3, <1>5, <1>6, <1>7, <1>8, <1>9

(* Who shares the lock of a file does not see it change.                   *)
LEMMA ReadersLockedOut ==
    ASSUME TypeOK, ReadersInv, NEW f \in Files, Lock(f),
           reader' = reader, cacheType' = cacheType,
           \A g \in Files \ {f} : files'[g] = files[g] /\ aux'[g] = aux[g],
           \A g \in Files : files'[g] = None <=> files[g] = None
    PROVE  ReadersInv' /\ ReadersType'
<1>1. ReadersType
  BY TypeParts
<1>2. ReadersType'
  BY <1>1 DEF ReadersType, Reader
<1>3. ASSUME NEW r \in Readers
      PROVE  ReaderSound(cacheType, reader[r], files[reader[r].file],
                         aux[reader[r].file])'
  <2>1. CASE reader[r].pc \in {"copy", "panicked"}
    <3>1. reader[r].file # f
      BY <2>1 DEF Lock, Sharing
    <3>2. reader[r].file \in Files
      BY <1>1, <2>1 DEF ReadersType, Reader
    <3> QED
      BY <3>1, <3>2 DEF ReadersInv
  <2>2. CASE reader[r].pc \notin {"copy", "panicked"}
    BY <2>2 DEF ReadersInv, ReaderSound
  <2> QED
    BY <2>1, <2>2
<1> QED
  BY <1>2, <1>3 DEF ReadersInv

(* The patch survives a change of its file that tells it what has been     *)
(* touched.                                                                *)
LEMMA PatchOvertaken ==
    ASSUME TypeOK, PatchInv, NEW f \in Files, files[f] # None,
           NEW S \in SUBSET Offsets,
           Change(cacheType, files[f], aux[f], files'[f], aux'[f], S),
           Overtake(f, S), cacheType' = cacheType,
           \A g \in Files \ {f} : files'[g] = files[g] /\ aux'[g] = aux[g],
           \A g \in Files : files'[g] = None <=> files[g] = None
    PROVE  PatchInv' /\ PatchType'
<1>1. PatchType /\ None \notin Patch
  BY TypeParts, NoneIsNot
<1>2. CASE patch = None
  BY <1>1, <1>2 DEF Overtake, PatchInv, PatchType
<1>3. CASE patch # None /\ patch.file # f
  <2>1. patch' = patch /\ patch.file \in Files
    BY <1>1, <1>3 DEF Overtake, PatchType, Patch
  <2> QED
    BY <1>1, <1>3, <2>1 DEF PatchInv, PatchType
<1>4. CASE patch # None /\ patch.file = f
  <2>1. patch \in Patch
    BY <1>1, <1>4 DEF PatchType
  <2>2. patch' = [patch EXCEPT !.touched = patch.touched \cup S]
    BY <1>4 DEF Overtake
  <2>3. /\ patch.idx < Len(patch.tx.blocks) =>
             patch.idx * BlockSize + patch.n <= MaxSize
        /\ files[f] \in Cache
    BY <2>1, PatchBlockFits, FileThere
  <2>4. PatchSound(cacheType, patch, files[f], aux[f])
    BY <1>4 DEF PatchInv
  <2>5. /\ patch' \in Patch /\ patch'.file = f
        /\ PatchSound(cacheType, patch', files'[f], aux'[f])
    BY <1>4, <2>1, <2>2, <2>3, <2>4, PatchKept
  <2> QED
    BY <2>5 DEF PatchInv, PatchType
<1> QED
  BY <1>2, <1>3, <1>4

(* A change that touches nothing need not tell the patch.                  *)
LEMMA OvertakeNothing ==
    ASSUME TypeOK, NEW f \in Files, patch' = patch
    PROVE  Overtake(f, {})
<1>1. CASE patch # None
  <2>1. patch \in Patch
    BY <1>1 DEF TypeOK
  <2>2. patch = [patch EXCEPT !.touched = patch.touched \cup {}]
    BY <2>1 DEF Patch
  <2> QED
    BY <2>2 DEF Overtake
<1> QED
  BY <1>1 DEF Overtake

(* The upload does not hold the lock of the file that changes: it is torn  *)
(* or does not care.                                                       *)
LEMMA JobLockedOut ==
    ASSUME TypeOK, JobInv, NEW f \in Files, Lock(f), cacheType' = cacheType,
           \/ Tear(f)
           \/ /\ job' = job
              /\ files'[f].size = files[f].size
              /\ aux'[f].ideal = aux[f].ideal,
           \A g \in Files \ {f} : files'[g] = files[g] /\ aux'[g] = aux[g],
           \A g \in Files : files'[g] = None <=> files[g] = None
    PROVE  JobInv' /\ JobType'
<1>1. JobType /\ None \notin Job
  BY TypeParts, NoneIsNot
<1>2. CASE job = None
  BY <1>1, <1>2 DEF Tear, JobInv, JobType
<1>3. CASE job # None /\ job' = job
  <2>1. job \in Job /\ job.file \in Files
    BY <1>1, <1>3 DEF JobType, Job
  <2>2. JobShape(job) /\
        (~job.torn =>
           JobExact(cacheType, job, files[job.file], aux[job.file]))
    BY <1>3 DEF JobInv
  <2>3. CASE job.file # f
    BY <1>1, <1>3, <2>1, <2>2, <2>3 DEF JobInv, JobType
  <2>4. CASE job.file = f
    <3>1. job.pc # "copy"
      BY <1>3, <2>4 DEF Lock, JobSharing
    <3>2. \/ job.pc \notin {"count", "seek"}
          \/ files'[f].size = files[f].size /\ aux'[f].ideal = aux[f].ideal
          \/ job.torn
      <4>1. CASE Tear(f) /\ job.pc \in {"count", "seek"}
        <5>1. job' = [job EXCEPT !.torn = TRUE]
          BY <1>3, <2>4, <4>1 DEF Tear
        <5>2. job'.torn
          BY <2>1, <5>1 DEF Job
        <5> QED
          BY <1>3, <5>2
      <4> QED
        BY <4>1
    <3>3. ~job.torn => JobExact(cacheType, job, files'[f], aux'[f])
      BY <2>2, <2>4, <3>1, <3>2, JobKept
    <3> QED
      BY <1>1, <1>3, <2>1, <2>2, <2>4, <3>3 DEF JobInv, JobType
  <2> QED
    BY <2>3, <2>4
<1>4. CASE job # None /\ job' # job
  <2>1. job \in Job /\ JobShape(job)
    BY <1>1, <1>4 DEF JobType, JobInv
  <2>2. job.file = f /\ job' = [job EXCEPT !.torn = TRUE]
    BY <1>4 DEF Tear
  <2>3. job' \in Job /\ job'.torn /\ job'.file = job.file /\ JobShape(job')
    BY <2>1, <2>2, TornJob
  <2> QED
    BY <1>1, <1>4, <2>2, <2>3 DEF JobInv, JobType
<1> QED
  BY <1>2, <1>3, <1>4

-----------------------------------------------------------------------------
(* Steps that change a file under its lock.                                *)

(* The rest of the invariant when one file has changed.                    *)
LEMMA LockedStep ==
    ASSUME DataInv, NEW f \in Files, files[f] # None, Lock(f),
           NEW d, NEW b, NEW S \in SUBSET Offsets,
           Change(cacheType, files[f], aux[f], d, b, S),
           files' = [files EXCEPT ![f] = d], aux' = [aux EXCEPT ![f] = b],
           \/ Tear(f)
           \/ job' = job /\ d.size = files[f].size /\ b.ideal = aux[f].ideal,
           reader' = reader, UNCHANGED fsVars
    PROVE  /\ FilesType' /\ FilesInv' /\ NewestOpen'
           /\ ReadersType' /\ ReadersInv' /\ JobType' /\ JobInv'
           /\ Overtake(f, S) => PatchType' /\ PatchInv'
           /\ \A g \in Files : loader'[g] = loader[g] => LoaderAt(g)'
           /\ files'[f] = d /\ aux'[f] = b
           /\ \A g \in Files \ {f} : files'[g] = files[g] /\ aux'[g] = aux[g]
           /\ \A g \in Files : files'[g] = None <=> files[g] = None
<1>1. cacheType' = cacheType /\ open' = open
  BY DEF fsVars
<1>2. /\ files'[f] = d /\ aux'[f] = b
      /\ \A g \in Files \ {f} : files'[g] = files[g] /\ aux'[g] = aux[g]
      /\ \A g \in Files : files'[g] = None <=> files[g] = None
      /\ FilesType' /\ FilesInv' /\ NewestOpen'
      /\ \A g \in Files : loader'[g] = loader[g] => LoaderAt(g)'
  <2>1. DataInv /\ Change(cacheType, files[f], aux[f], d, b, S)
        /\ files' = [files EXCEPT ![f] = d] /\ aux' = [aux EXCEPT ![f] = b]
        /\ cacheType' = cacheType /\ open' = open /\ files[f] # None
    BY <1>1
  <2> QED
    BY ONLY <2>1, f \in Files, S \in SUBSET Offsets, OneFileChanges,
       ZenonT(60)
<1>3. TypeOK /\ ReadersInv /\ PatchInv /\ JobInv
  BY DEF DataInv
<1>4. ReadersInv' /\ ReadersType'
  BY <1>1, <1>2, <1>3, ReadersLockedOut
<1>5. JobInv' /\ JobType'
  BY <1>1, <1>2, <1>3, JobLockedOut
<1>6. Overtake(f, S) => PatchType' /\ PatchInv'
  BY <1>1, <1>2, <1>3, PatchOvertaken
<1> QED
  BY <1>2, <1>4, <1>5, <1>6

(* An event leaves one fewer of its kind.                                  *)
LEMMA SpendTyped ==
    ASSUME TypeOK, NEW kind \in Events, Spend(kind)
    PROVE  left' \in [Events -> Nat] /\ left'[kind] # left[kind]
<1>1. left[kind] \in Nat /\ left[kind] > 0 /\ left \in [Events -> Nat]
  BY DEF TypeOK, Spend
<1>2. left' = [left EXCEPT ![kind] = left[kind] - 1]
  BY DEF Spend
<1>3. left[kind] - 1 \in Nat /\ left[kind] - 1 # left[kind]
  BY <1>1, SMT
<1>4. left'[kind] = left[kind] - 1
  BY <1>1, <1>2
<1> QED
  BY <1>1, <1>2, <1>3, <1>4

(* Truncate keeps the invariant.                                           *)
LEMMA TruncateStep ==
    ASSUME DataInv, NEW size \in Sizes, Truncate(size)
    PROVE  DataInv'
<1>1. TypeOK /\ open \in Files /\ files[open] # None
  BY DEF DataInv, TypeOK, Truncate
<1> DEFINE c == files[open]
           a == aux[open]
<1>2. c \in Cache /\ a \in History /\ cacheType \in {"memory", "disk"}
  BY <1>1, FileThere
<1>3. Sound(cacheType, c, a)
  BY <1>1 DEF DataInv, FilesInv
<1>4. size \in 0..MaxSize
  BY FileDataConstants
<1>5. Change(cacheType, c, a, Truncated(c, size), AfterTruncate(c, a, size),
             TouchedByTruncate(c, size))
  BY <1>2, <1>3, <1>4, TruncateChange
<1>6. TouchedByTruncate(c, size) \in SUBSET Offsets
  BY DEF TouchedByTruncate
<1>7. /\ FilesType' /\ FilesInv' /\ NewestOpen'
      /\ ReadersType' /\ ReadersInv' /\ JobType' /\ JobInv'
      /\ Overtake(open, TouchedByTruncate(c, size)) => PatchType' /\ PatchInv'
      /\ \A g \in Files : loader'[g] = loader[g] => LoaderAt(g)'
  BY <1>1, <1>5, <1>6, LockedStep DEF Truncate
<1>8. left' \in [Events -> Nat]
  BY <1>1, SpendTyped DEF Truncate, Events
<1>9. PatchType' /\ PatchInv'
  BY <1>7 DEF Truncate
<1>10. LoadersInv'
  BY <1>7 DEF Truncate, LoadersInv
<1>11. UNCHANGED <<cacheType, db, posted, loader, crashed>>
  BY DEF Truncate, fsVars
<1>12. TypeOK'
  BY <1>1, <1>7, <1>8, <1>9, <1>11
     DEF TypeOK, FilesType, ReadersType, JobType, PatchType
<1> QED
  BY <1>7, <1>9, <1>10, <1>12 DEF DataInv

(* So does a Truncate that panics: the file is locked for good, and nobody *)
(* who works on it had its lock.                                           *)
LEMMA TruncatePanicsStep ==
    ASSUME DataInv, NEW size \in Sizes, TruncatePanics(size)
    PROVE  DataInv'
<1>1. TypeOK /\ open \in Files /\ files[open] # None
  BY DEF DataInv, TypeOK, TruncatePanics
<1> DEFINE c == files[open]
           a == aux[open]
<1>2. c \in Cache /\ a \in History /\ cacheType \in {"memory", "disk"}
  BY <1>1, FileThere
<1>3. Sound(cacheType, c, a)
  BY <1>1 DEF DataInv, FilesInv
<1>4. size \in Nat
  BY FileDataConstants, SMT
<1>5. PICK load \in HalfTrimmed(c.load, size) :
         files' = [files EXCEPT ![open].load = load, ![open].lock = "kept"]
  BY DEF TruncatePanics
<1> DEFINE d == [c EXCEPT !.load = load, !.lock = "kept"]
<1>6. Change(cacheType, c, a, d, a, {}) /\ d.size = c.size
  BY <1>2, <1>3, <1>4, HalfTrimmedChange
<1>7. files' = [files EXCEPT ![open] = d] /\ aux' = [aux EXCEPT ![open] = a]
  BY <1>1, <1>5 DEF TruncatePanics, TypeOK
<1>8. /\ Lock(open) /\ {} \in SUBSET Offsets
      /\ UNCHANGED fsVars /\ reader' = reader /\ job' = job
      /\ patch' = patch /\ loader' = loader
      /\ UNCHANGED <<cacheType, db, posted, open, crashed>>
  BY DEF TruncatePanics, goVars, fsVars
<1> HIDE DEF d
<1>9. /\ FilesType' /\ FilesInv' /\ NewestOpen'
      /\ ReadersType' /\ ReadersInv' /\ JobType' /\ JobInv'
      /\ Overtake(open, {}) => PatchType' /\ PatchInv'
      /\ \A g \in Files : loader'[g] = loader[g] => LoaderAt(g)'
  <2> DEFINE f == open
  <2>1. /\ f \in Files /\ files[f] # None /\ Lock(f)
        /\ Change(cacheType, files[f], aux[f], d, aux[f], {})
        /\ d.size = files[f].size
        /\ files' = [files EXCEPT ![f] = d]
        /\ aux' = [aux EXCEPT ![f] = aux[f]]
    BY <1>1, <1>6, <1>7, <1>8
  <2> HIDE DEF f
  <2>2. /\ FilesType' /\ FilesInv' /\ NewestOpen'
        /\ ReadersType' /\ ReadersInv' /\ JobType' /\ JobInv'
        /\ Overtake(f, {}) => PatchType' /\ PatchInv'
        /\ \A g \in Files : loader'[g] = loader[g] => LoaderAt(g)'
    BY ONLY DataInv, <1>8, <2>1, LockedStep
  <2> QED
    BY <2>2 DEF f
<1>10. PatchType' /\ PatchInv'
  BY <1>1, <1>8, <1>9, OvertakeNothing
<1>11. LoadersInv'
  BY <1>8, <1>9 DEF LoadersInv
<1>12. left' \in [Events -> Nat]
  BY <1>1, SpendTyped DEF TruncatePanics, Events
<1>13. TypeOK'
  BY <1>1, <1>8, <1>9, <1>10, <1>12
     DEF TypeOK, FilesType, ReadersType, JobType, PatchType
<1> QED
  BY <1>9, <1>10, <1>11, <1>13 DEF DataInv

(* Write keeps the invariant.                                              *)
LEMMA WriteStep ==
    ASSUME DataInv, NEW x \in WriteExtents, Write(x[1], x[2])
    PROVE  DataInv'
<1> DEFINE ofst == x[1]
           n == x[2]
           buf == NewBytes(ofst, n)
           c == files[open]
           a == aux[open]
<1>1. TypeOK /\ open \in Files /\ files[open] # None
  BY DEF DataInv, TypeOK, Write
<1>2. c \in Cache /\ a \in History /\ cacheType \in {"memory", "disk"}
  BY <1>1, FileThere
<1>3. Sound(cacheType, c, a)
  BY <1>1 DEF DataInv, FilesInv
<1>4. ofst \in Nat /\ n \in Nat \ {0} /\ ofst + n <= MaxSize
  BY FileDataConstants, SMT
<1>5. buf \in Seq(Byte) /\ Len(buf) = n /\ buf # <<>>
  <2>1. left["write"] \in Nat
    BY <1>1 DEF TypeOK, Events
  <2>2. \A k \in 1..n : ofst + k - 1 \in Nat
    BY <1>4, SMT
  <2>3. \A k \in 1..n : <<left["write"], ofst + k - 1>> \in Byte
    BY <2>1, <2>2 DEF Byte
  <2> HIDE DEF n, ofst
  <2>4. buf \in Seq(Byte) /\ Len(buf) = n
    BY <1>4, <2>3, SMT DEF NewBytes
  <2> QED
    BY <1>4, <2>4, SMT
<1>6. Change(cacheType, c, a, Written(c, ofst, buf),
             AfterWrite(c, a, ofst, buf), TouchedByWrite(c, ofst, Len(buf)))
  BY <1>2, <1>3, <1>4, <1>5, WriteChange
<1>7. TouchedByWrite(c, ofst, n) \in SUBSET Offsets
  <2>1. c.size \in Nat
    BY <1>2, FileDataConstants, SMT DEF Cache
  <2> QED
    BY <1>4, <2>1, FileDataConstants, SMT DEF TouchedByWrite, Span, Offsets
<1>8. /\ files' = [files EXCEPT ![open] = Written(c, ofst, buf)]
      /\ aux' = [aux EXCEPT ![open] = AfterWrite(c, a, ofst, buf)]
      /\ Overtake(open, TouchedByWrite(c, ofst, n))
      /\ Lock(open) /\ Tear(open) /\ reader' = reader /\ UNCHANGED fsVars
  BY DEF Write
<1> HIDE DEF c, a, buf, n, ofst
<1>9. /\ FilesType' /\ FilesInv' /\ NewestOpen'
      /\ ReadersType' /\ ReadersInv' /\ JobType' /\ JobInv'
      /\ Overtake(open, TouchedByWrite(c, ofst, n)) => PatchType' /\ PatchInv'
      /\ \A g \in Files : loader'[g] = loader[g] => LoaderAt(g)'
  BY <1>1, <1>5, <1>6, <1>7, <1>8, LockedStep DEF c, a
<1>10. left' \in [Events -> Nat]
  BY <1>1, SpendTyped DEF Write, Events
<1>11. LoadersInv'
  BY <1>9 DEF Write, LoadersInv
<1>12. UNCHANGED <<cacheType, db, posted, loader, crashed>>
  BY DEF Write, fsVars
<1>13. TypeOK'
  BY <1>1, <1>8, <1>9, <1>10, <1>12
     DEF TypeOK, FilesType, ReadersType, JobType, PatchType
<1> QED
  BY <1>8, <1>9, <1>11, <1>13 DEF DataInv

-----------------------------------------------------------------------------
(* The loader.                                                             *)

(* Where an offset of the i-th block lies in its transaction.              *)
LEMMA BlockContent ==
    ASSUME NEW tx \in Tx, NEW i \in Nat, i < Len(tx.blocks),
           NEW o \in Span(i * BlockSize, BlockSize)
    PROVE  /\ o \in Offsets /\ o \in Nat /\ i * BlockSize \in Nat
           /\ InBlock(tx, o) <=>
                o \in Span(i * BlockSize, Len(tx.blocks[i + 1]))
           /\ InBlock(tx, o) /\ o < tx.size =>
                Content(tx)[o] = tx.blocks[i + 1][o - i * BlockSize + 1]
<1>1. i < Blocks(MaxSize)
  <2>1. Blocks(MaxSize) \in Nat
    BY BlocksBegin, FileDataConstants
  <2> QED
    BY <2>1, TxFields, SMT
<1>2. i * BlockSize \in Nat /\ i * BlockSize + BlockSize <= MaxSize
  BY <1>1, BlockFits
<1>3. o \in Nat /\ o \in Offsets
  BY <1>2, FileDataConstants, SMT DEF Span, Offsets
<1>4. o - i * BlockSize \in 0..(BlockSize - 1)
      /\ o = i * BlockSize + (o - i * BlockSize)
  BY <1>2, FileDataConstants, SMT DEF Span
<1>5. o \div BlockSize = i /\ o % BlockSize = o - i * BlockSize
  BY <1>4, DivModOf
<1>6. Len(tx.blocks[i + 1]) \in Nat
  <2>1. i + 1 \in DOMAIN tx.blocks
    BY TxFields, SMT
  <2> QED
    BY <2>1, TxFields, SMT
<1>7. InBlock(tx, o) <=> o - i * BlockSize < Len(tx.blocks[i + 1])
  BY <1>5 DEF InBlock
<1>8. o - i * BlockSize < Len(tx.blocks[i + 1]) <=>
        o \in Span(i * BlockSize, Len(tx.blocks[i + 1]))
  <2> DEFINE ofst == i * BlockSize
             n == Len(tx.blocks[i + 1])
  <2>1. ofst \in Nat /\ o \in Nat /\ n \in Nat /\ ofst <= o
    BY <1>2, <1>3, <1>4, <1>6, FileDataConstants, SMT
  <2> HIDE DEF ofst, n
  <2>2. o - ofst < n <=> o \in Span(ofst, n)
    BY <2>1, SMT DEF Span
  <2> QED
    BY <2>2 DEF ofst, n
<1>9. InBlock(tx, o) /\ o < tx.size =>
        Content(tx)[o] = tx.blocks[i + 1][(o - i * BlockSize) + 1]
  BY <1>3, <1>5 DEF Content
<1> QED
  BY <1>2, <1>3, <1>7, <1>8, <1>9

(* The block that a loader is about to store.                              *)
LEMMA LoaderBlock ==
    ASSUME DataInv, NEW f \in Files, loader[f].pc = "store"
    PROVE  /\ loader[f].tx \in Tx /\ loader[f].todo \in Seq(BlockNumber)
           /\ loader[f].todo # <<>>
           /\ loader[f].target \in Files /\ files[loader[f].target] # None
           /\ files[f] # None
           /\ f <= loader[f].target
           /\ Head(loader[f].todo) \in Nat
           /\ Head(loader[f].todo) < Len(loader[f].tx.blocks)
           /\ LoadOffset(f) \in Nat /\ LoadOffset(f) + BlockSize <= MaxSize
           /\ LoadBlock(f) \in Seq(Byte) /\ Len(LoadBlock(f)) \in Nat
           /\ Len(LoadBlock(f)) <= BlockSize
           /\ LoaderSound(cacheType, loader[f], files[f], aux[f])
<1>1. loader[f] \in Loader /\ TypeOK
  BY DEF DataInv, TypeOK
<1>2. /\ loader[f].todo \in Seq(BlockNumber)
      /\ loader[f].target \in Files \cup {None}
  BY <1>1 DEF Loader
<1>3. LoaderAt(f)
  BY DEF DataInv, LoadersInv
<1>4. /\ LoaderSound(cacheType, loader[f], files[f], aux[f])
      /\ loader[f].target # None /\ files[loader[f].target] # None
      /\ f <= loader[f].target /\ files[f] # None
  BY <1>3 DEF LoaderAt
<1>5. loader[f].tx \in Tx /\ loader[f].todo # <<>>
  BY <1>4 DEF LoaderSound
<1>6. 1 \in DOMAIN loader[f].todo
  BY <1>2, <1>5, SMT
<1>7. Head(loader[f].todo) = loader[f].todo[1]
  BY <1>2, <1>5, SMT
<1>8. loader[f].todo[1] \in BlockNumber
  BY <1>2, <1>6, SMT
<1>9. Head(loader[f].todo) \in Nat /\ Head(loader[f].todo) < Blocks(MaxSize)
  <2>1. Blocks(MaxSize) \in Nat
    BY BlocksBegin, FileDataConstants
  <2> QED
    BY <1>7, <1>8, <2>1, SMT DEF BlockNumber
<1>10. Head(loader[f].todo) < Len(loader[f].tx.blocks)
  BY <1>4, <1>6, <1>7 DEF LoaderSound
<1>11. LoadOffset(f) \in Nat /\ LoadOffset(f) + BlockSize <= MaxSize
  BY <1>9, BlockFits DEF LoadOffset
<1>12. Head(loader[f].todo) + 1 \in DOMAIN loader[f].tx.blocks
  BY <1>5, <1>9, <1>10, TxFields, SMT
<1>13. LoadBlock(f) \in Seq(Byte) /\ Len(LoadBlock(f)) <= BlockSize
  BY <1>5, <1>12, TxFields DEF LoadBlock
<1> QED
  BY <1>2, <1>4, <1>5, <1>9, <1>10, <1>11, <1>13, SMT

(* A loader one block further.                                             *)
LEMMA NextLoadFields ==
    ASSUME TypeOK, NEW f \in Files, loader[f].todo # <<>>,
           loader' = NextLoad(f)
    PROVE  /\ loader' \in [Files -> Loader]
           /\ \A g \in Files \ {f} : loader'[g] = loader[g]
           /\ loader'[f].tx = loader[f].tx
           /\ loader'[f].todo = Tail(loader[f].todo)
           /\ loader'[f].pc =
                IF Len(loader[f].todo) = 1 THEN "done" ELSE "lookup"
<1>1. loader \in [Files -> Loader] /\ loader[f] \in Loader
  BY DEF TypeOK
<1>2. Tail(loader[f].todo) \in Seq(BlockNumber)
  BY <1>1, SMT DEF Loader
<1> DEFINE pc == IF Len(loader[f].todo) = 1 THEN "done" ELSE "lookup"
           rest == Tail(loader[f].todo)
<1>3. pc \in {"done", "lookup"}
  OBVIOUS
<1>4. loader' = [loader EXCEPT ![f] =
                    [loader[f] EXCEPT !.todo = rest, !.pc = pc]]
  BY <1>1 DEF NextLoad
<1> HIDE DEF pc, rest
<1>5. LET l == [loader[f] EXCEPT !.todo = rest, !.pc = pc] IN
      /\ l \in Loader /\ l.tx = loader[f].tx /\ l.todo = rest /\ l.pc = pc
  BY <1>1, <1>2, <1>3 DEF Loader, rest
<1> QED
  BY <1>1, <1>4, <1>5 DEF pc, rest

(* One block less to come: whatever the loader was still to bring has come *)
(* or is named, or is in one of the other blocks.                          *)
LEMMA AwaitsRest ==
    ASSUME NEW l \in Loader, NEW m, NEW o, l.todo # <<>>,
           m.tx = l.tx, m.todo = Tail(l.todo), Awaits(l, o)
    PROVE  \/ Awaits(m, o)
           \/ /\ InBlock(l.tx, o)
              /\ o \in Span(Head(l.todo) * BlockSize, BlockSize)
<1>1. l.todo \in Seq(BlockNumber)
  BY DEF Loader
<1>2. PICK k \in DOMAIN l.todo : o \in Span(l.todo[k] * BlockSize, BlockSize)
  BY DEF Awaits
<1>3. CASE k = 1
  <2>1. l.todo[1] = Head(l.todo)
    BY <1>1, SMT
  <2> QED
    BY <1>2, <1>3, <2>1 DEF Awaits
<1>4. CASE k # 1
  <2>1. k - 1 \in DOMAIN m.todo /\ m.todo[k - 1] = l.todo[k]
    BY <1>1, <1>4, SMT
  <2> QED
    BY <1>2, <2>1 DEF Awaits
<1> QED
  BY <1>3, <1>4

(* A loader that has stored a block still has what it needs for the        *)
(* others.                                                                 *)
LEMMA LoaderRest ==
    ASSUME NEW kind, NEW c, NEW a, NEW l \in Loader, NEW m, l.todo # <<>>,
           m.tx = l.tx, m.todo = Tail(l.todo),
           m.pc = IF Len(l.todo) = 1 THEN "done" ELSE "lookup",
           LoaderSound(kind, l, c, a)
    PROVE  LoaderSound(kind, m, c, a)
<1>1. l.todo \in Seq(BlockNumber)
  BY DEF Loader
<1>2. \A k \in DOMAIN m.todo :
         k + 1 \in DOMAIN l.todo /\ m.todo[k] = l.todo[k + 1]
  BY <1>1, SMT
<1>3. m.pc \in {"lookup", "store"} => m.todo # <<>>
  <2>1. Len(l.todo) \in Nat /\ Len(l.todo) # 0
    BY <1>1, SMT
  <2>2. Len(m.todo) = Len(l.todo) - 1
    BY <1>1, SMT
  <2>3. Len(l.todo) # 1 => Len(m.todo) # 0
    BY <2>1, <2>2, SMT
  <2>4. Len(<<>>) = 0
    OBVIOUS
  <2> QED
    BY <2>3, <2>4
<1> QED
  BY <1>2, <1>3 DEF LoaderSound

(* A block stored by a loader, wherever it came from: every byte of it is  *)
(* right or named as bad, and every byte that it should have brought is    *)
(* there or named as missed.                                               *)
LEMMA StoreStep ==
    ASSUME DataInv, NEW f \in Files, loader[f].pc = "store",
           Lock(loader[f].target),
           NEW buf \in Seq(Byte), Len(buf) <= BlockSize,
           NEW load \in Load, NEW bad, NEW missed \in SUBSET Nat,
           Ready(load) = Ready(files[loader[f].target].load)
                            \cup Span(LoadOffset(f), Len(buf)),
           Store(loader[f].target, LoadOffset(f), buf, load, bad, missed),
           \A o \in Span(LoadOffset(f), Len(buf)) :
              \/ o \in bad
              \/ /\ o < files[loader[f].target].size
                 /\ buf[o - LoadOffset(f) + 1]
                      = aux[loader[f].target].ideal[o],
           Span(LoadOffset(f), Len(LoadBlock(f)))
              \subseteq Span(LoadOffset(f), Len(buf)) \cup missed,
           loader' = NextLoad(f), reader' = reader, job' = job,
           patch' = patch, UNCHANGED fsVars
    PROVE  /\ FilesType' /\ FilesInv' /\ NewestOpen' /\ LoadersInv'
           /\ loader' \in [Files -> Loader]
           /\ ReadersType' /\ ReadersInv' /\ JobType' /\ JobInv'
           /\ PatchType' /\ PatchInv'
<1> DEFINE g == loader[f].target
           ofst == LoadOffset(f)
           c == files[g]
           a == aux[g]
           d == Stored(c, ofst, buf, load)
           b == AfterStore(c, a, ofst, Len(buf), bad, missed)
<1>1. /\ loader[f].tx \in Tx /\ loader[f].todo # <<>>
      /\ g \in Files /\ files[g] # None /\ files[f] # None /\ f <= g
      /\ Head(loader[f].todo) \in Nat
      /\ Head(loader[f].todo) < Len(loader[f].tx.blocks)
      /\ ofst \in Nat /\ ofst + BlockSize <= MaxSize
      /\ LoaderSound(cacheType, loader[f], files[f], aux[f])
  BY LoaderBlock
<1>2. TypeOK /\ loader[f] \in Loader
  BY DEF DataInv, TypeOK
<1>3. c \in Cache /\ a \in History /\ cacheType \in {"memory", "disk"}
  BY <1>1, <1>2, FileThere
<1>4. Sound(cacheType, c, a) /\ c.lock # "kept"
  BY <1>1 DEF DataInv, FilesInv, Lock, RLock
<1>5. ofst + Len(buf) <= MaxSize /\ Len(buf) \in Nat
  BY <1>1, FileDataConstants, SMT
<1>6. /\ Change(cacheType, c, a, d, b, {})
      /\ d.size = c.size
      /\ Ready(d.load) = Ready(c.load) \cup Span(ofst, Len(buf))
      /\ b.ideal = a.ideal
      /\ b.holes = (a.holes \ Span(ofst, Len(buf))) \cup missed
  <2>1. Accounted(c, a, ofst, buf, bad)
    BY DEF Accounted
  <2>2. c \in Cache /\ a \in History /\ ofst \in Nat
    BY <1>1, <1>3
  <2>3. buf \in Seq(Byte) /\ missed \in SUBSET Nat
        /\ ofst + Len(buf) <= MaxSize
        /\ load \in Load
        /\ Ready(load) = Ready(c.load) \cup Span(ofst, Len(buf))
    BY <1>5
  <2>4. cacheType \in {"memory", "disk"} /\ Sound(cacheType, c, a)
    BY <1>3, <1>4
  <2> HIDE DEF c, a, ofst
  <2>5. Storable(c, a, ofst, buf, load, bad, missed)
    BY <2>1, <2>2, <2>3, <2>4 DEF Storable
  <2>6. StoredRight(c, a, ofst, buf, missed, d, b)
    BY ONLY <2>5, StoreChange
  <2> QED
    BY <2>6 DEF StoredRight
<1>7. /\ files' = [files EXCEPT ![g] = d]
      /\ aux' = [aux EXCEPT ![g] = b]
  BY DEF Store
<1> HIDE DEF d, b, c, a
<1>8. /\ FilesType' /\ FilesInv' /\ NewestOpen'
      /\ ReadersType' /\ ReadersInv' /\ JobType' /\ JobInv'
      /\ Overtake(g, {}) => PatchType' /\ PatchInv'
      /\ \A h \in Files : loader'[h] = loader[h] => LoaderAt(h)'
      /\ files'[g] = d /\ aux'[g] = b
      /\ \A h \in Files \ {g} : files'[h] = files[h] /\ aux'[h] = aux[h]
      /\ \A h \in Files : files'[h] = None <=> files[h] = None
  <2>1. {} \in SUBSET Offsets
    OBVIOUS
  <2>2. d.size = files[g].size /\ b.ideal = aux[g].ideal
    BY <1>6 DEF c, a
  <2>3. Change(cacheType, files[g], aux[g], d, b, {})
    BY <1>6 DEF c, a
  <2> HIDE DEF g
  <2>4. Lock(g)
    BY DEF g
  <2> QED
    BY ONLY DataInv, <1>1, <1>7, <2>1, <2>2, <2>3, <2>4,
       job' = job, reader' = reader, UNCHANGED fsVars, LockedStep
<1>9. PatchType' /\ PatchInv'
  BY <1>1, <1>2, <1>8, OvertakeNothing
<1>10. /\ loader' \in [Files -> Loader]
       /\ \A h \in Files \ {f} : loader'[h] = loader[h]
       /\ loader'[f].tx = loader[f].tx
       /\ loader'[f].todo = Tail(loader[f].todo)
       /\ loader'[f].pc =
            IF Len(loader[f].todo) = 1 THEN "done" ELSE "lookup"
  BY <1>1, <1>2, NextLoadFields
<1>11. cacheType' = cacheType /\ open' = open
  BY DEF fsVars
<1>12. LoaderSound(cacheType, loader'[f], files'[f], aux'[f])
  <2>1. LoaderSound(cacheType, loader[f], files'[f], aux'[f])
    <3>1. CASE f = g
      <4>1. loader[f].tx.size \in Nat
        BY <1>1, TxFields
      <4>2. Change(cacheType, files[f], aux[f], d, b, {})
        BY <1>6, <3>1 DEF c, a
      <4>3. files[f] \in Cache
        BY <1>3, <3>1 DEF c
      <4>4. LoaderSound(cacheType, loader[f], d, b)
        BY <1>1, <4>1, <4>2, <4>3, LoaderKept
      <4> QED
        BY <1>8, <3>1, <4>4
    <3>2. CASE f # g
      BY <1>1, <1>8, <3>2
    <3> QED
      BY <3>1, <3>2
  <2> QED
    BY <1>1, <1>2, <1>10, <2>1, LoaderRest
<1>13. ASSUME open = f
       PROVE  Reach(loader'[f], files'[f], aux'[f])
  <2>1. f = g
    <3>1. g <= open
      BY <1>1, <1>13, NoneIsNot DEF DataInv, NewestOpen
    <3>2. f \in Nat /\ g \in Nat
      <4>1. f \in Files /\ g \in Files /\ Files \subseteq Nat
        BY <1>1, FileDataConstants
      <4> QED
        BY ONLY <4>1
    <3>3. f <= g
      BY <1>1
    <3>4. g <= f
      BY ONLY <1>13, <3>1
    <3> QED
      BY ONLY <3>2, <3>3, <3>4, SMT
  <2>2. Reach(loader[f], c, a)
    BY <1>13, <2>1 DEF DataInv, LoadersInv, LoaderAt, c, a
  <2>3. ASSUME NEW o \in Span(0, d.size)
        PROVE  o \in Ready(d.load) \cup b.holes \/ Awaits(loader'[f], o)
    <3>1. o \in Ready(c.load) \cup a.holes \/ Awaits(loader[f], o)
      BY <1>4, <1>6, <2>2 DEF Reach
    <3>2. CASE o \in Ready(c.load) \cup a.holes
      BY <1>6, <3>2
    <3>3. CASE InBlock(loader[f].tx, o) /\
               o \in Span(Head(loader[f].todo) * BlockSize, BlockSize)
      <4>1. o \in Span(ofst, Len(LoadBlock(f)))
        BY <1>1, <3>3, BlockContent DEF LoadOffset, LoadBlock
      <4> QED
        BY <1>6, <4>1
    <3> QED
      BY <1>1, <1>2, <1>10, <3>1, <3>2, <3>3, AwaitsRest
  <2> QED
    BY <1>8, <2>1, <2>3 DEF Reach
<1>14. LoaderAt(f)'
  <2>1. loader'[f].pc # "store" /\ files'[f] # None
    BY <1>1, <1>8, <1>10
  <2> QED
    BY <1>11, <1>12, <1>13, <2>1 DEF LoaderAt
<1>15. LoadersInv'
  BY <1>8, <1>10, <1>14 DEF LoadersInv
<1> QED
  BY <1>8, <1>9, <1>10, <1>15

(* An error page is a sequence of bytes.                                   *)
LEMMA ErrorPageTyped ==
    ASSUME NEW ofst \in Nat, NEW n \in Nat
    PROVE  ErrorPage(ofst, n) \in Seq(Byte) /\ Len(ErrorPage(ofst, n)) = n
<1>1. \A k \in 1..n : Junk(ofst + k - 1) \in Byte
  <2>1. \A k \in 1..n : ofst + k - 1 + 1 \in Nat
    BY SMT
  <2> QED
    BY <2>1 DEF Junk, Byte
<1> QED
  BY <1>1, SMT DEF ErrorPage

(* The loads of the two that download, with the range of the block.        *)
LEMMA WithRangeReady ==
    ASSUME NEW f, NEW n \in Nat, files[loader[f].target] \in Cache,
           LoadOffset(f) \in Nat
    PROVE  /\ WithRange(f, n) \in Load
           /\ Ready(WithRange(f, n)) =
                Ready(files[loader[f].target].load) \cup Span(LoadOffset(f), n)
<1> DEFINE load == files[loader[f].target].load
           ofst == LoadOffset(f)
           end == ofst + n
<1>1. load \in Load /\ ofst \in Nat /\ end \in Nat
  BY ReadyOf, SMT
<1> HIDE DEF load, ofst, end
<1>2. /\ addRange(load, ofst, end) \in Load
      /\ Ready(addRange(load, ofst, end)) = Ready(load) \cup ofst..(end - 1)
  BY ONLY <1>1, AddRangeReady
<1>3. ofst..(end - 1) = Span(ofst, n)
  BY <1>1 DEF Span, end
<1> QED
  BY <1>2, <1>3 DEF WithRange, load, ofst, end

LEMMA RepairedReady ==
    ASSUME NEW f, NEW ofst \in Nat, NEW n \in Nat, files[f] \in Cache
    PROVE  /\ Repaired(f, ofst, n) \in Load
           /\ Ready(Repaired(f, ofst, n)) =
                Ready(files[f].load) \cup Span(ofst, n)
<1> DEFINE load == files[f].load
           end == ofst + n
<1>1. load \in Load /\ end \in Nat
  BY ReadyOf, SMT
<1> HIDE DEF load, end
<1>2. /\ AddUnready(load, ofst, end) \in Load
      /\ Ready(AddUnready(load, ofst, end)) = Ready(load) \cup ofst..(end - 1)
  BY ONLY <1>1, ofst \in Nat, AddUnreadyReady
<1>3. ofst..(end - 1) = Span(ofst, n)
  BY <1>1 DEF Span, end
<1> QED
  BY <1>2, <1>3 DEF Repaired, load, end

(* LoaderStore keeps the invariant, for a block and for an error page.     *)
LEMMA LoaderStoreStep ==
    ASSUME DataInv, NEW f \in Files, LoaderStore(f)
    PROVE  DataInv'
<1> DEFINE g == loader[f].target
           ofst == LoadOffset(f)
           block == LoadBlock(f)
<1>1. /\ loader[f].pc = "store" /\ Lock(g) /\ loader' = NextLoad(f)
      /\ reader' = reader /\ job' = job /\ patch' = patch
      /\ UNCHANGED fsVars /\ crashed' = crashed
  BY DEF LoaderStore
<1>2. TypeOK
  BY DEF DataInv
<1>3. /\ loader[f].tx \in Tx
      /\ g \in Files /\ files[g] # None /\ files[f] # None
      /\ Head(loader[f].todo) \in Nat
      /\ Head(loader[f].todo) < Len(loader[f].tx.blocks)
      /\ ofst \in Nat /\ ofst + BlockSize <= MaxSize
      /\ block \in Seq(Byte) /\ Len(block) \in Nat /\ Len(block) <= BlockSize
      /\ LoaderSound(cacheType, loader[f], files[f], aux[f])
  BY <1>1, LoaderBlock
<1> DEFINE Rest == /\ FilesType' /\ FilesInv' /\ NewestOpen' /\ LoadersInv'
                   /\ loader' \in [Files -> Loader]
                   /\ ReadersType' /\ ReadersInv' /\ JobType' /\ JobInv'
                   /\ PatchType' /\ PatchInv'
<1>4. Rest /\ left' \in [Events -> Nat]
  <2> DEFINE len == Len(block)
  <2>0. \A n \in Nat :
          /\ WithRange(f, n) \in Load
          /\ Ready(WithRange(f, n)) = Ready(files[g].load) \cup Span(ofst, n)
    <3>1. files[g] \in Cache
      BY <1>2, <1>3, FileThere
    <3> HIDE DEF g, ofst
    <3>2. files[loader[f].target] \in Cache /\ LoadOffset(f) \in Nat
      BY <1>3, <3>1 DEF g, ofst
    <3> QED
      BY <3>2, WithRangeReady DEF g, ofst
  <2>1. CASE /\ Store(g, ofst, block, WithRange(f, len), Late(f, g), {})
             /\ UNCHANGED left
    <3>1. ASSUME NEW o \in Span(ofst, Len(block))
          PROVE  \/ o \in Late(f, g)
                 \/ /\ o < files[g].size
                    /\ block[o - ofst + 1] = aux[g].ideal[o]
      <4>1. o \in Span(ofst, BlockSize)
        BY <1>3, FileDataConstants, SMT DEF Span
      <4>2. /\ o \in Offsets /\ o \in Nat /\ InBlock(loader[f].tx, o)
            /\ o < loader[f].tx.size =>
                 Content(loader[f].tx)[o] = block[o - ofst + 1]
        BY <1>3, <4>1, BlockContent DEF LoadOffset, LoadBlock
      <4>3. CASE f = g /\ o \notin aux[f].touched
        <5>1. /\ o < loader[f].tx.size
              /\ aux[f].ideal[o] = Content(loader[f].tx)[o]
          BY <1>3, <4>2, <4>3 DEF LoaderSound
        <5>2. ~(files[f].size <= o)
          BY <1>3, <4>2, <4>3 DEF DataInv, FilesInv, Sound
        <5>3. files[f].size \in Nat
          BY <1>2, <1>3, FileThere, FileDataConstants, SMT DEF Cache
        <5>4. o < files[f].size
          BY <4>2, <5>2, <5>3, SMT
        <5> QED
          BY <4>2, <4>3, <5>1, <5>4
      <4> QED
        BY <4>2, <4>3 DEF Late
    <3>2. {} \in SUBSET Nat
      OBVIOUS
    <3>3. Span(ofst, Len(block)) \subseteq Span(ofst, Len(block)) \cup {}
      OBVIOUS
    <3>4. Rest
      <4> DEFINE load == WithRange(f, len)
      <4>1. load \in Load /\ Ready(load) = Ready(files[g].load)
                                            \cup Span(ofst, Len(block))
        BY <1>3, <2>0
      <4>2. Store(g, ofst, block, load, Late(f, g), {})
        BY <2>1
      <4> HIDE DEF load, block
      <4> QED
        BY <1>1, <1>3, <4>1, <4>2, <3>1, <3>2, <3>3, StoreStep DEF block
    <3> QED
      BY <1>2, <2>1, <3>4 DEF TypeOK
  <2>2. CASE /\ Spend("fault")
             /\ \E n \in 0..BlockSize :
                  Store(g, ofst, ErrorPage(ofst, n), WithRange(f, n),
                        Offsets, Span(ofst, len) \ Span(ofst, n))
    <3>1. PICK n \in 0..BlockSize :
             Store(g, ofst, ErrorPage(ofst, n), WithRange(f, n), Offsets,
                   Span(ofst, len) \ Span(ofst, n))
      BY <2>2
    <3> DEFINE page == ErrorPage(ofst, n)
               load == WithRange(f, n)
               missed == Span(ofst, Len(block)) \ Span(ofst, n)
    <3>2. n \in Nat /\ n <= BlockSize
      BY FileDataConstants, SMT
    <3>3. page \in Seq(Byte) /\ Len(page) = n
      BY <1>3, <3>2, ErrorPageTyped
    <3>4. \A o \in Span(ofst, Len(page)) : o \in Offsets
      BY <1>3, <3>2, <3>3, FileDataConstants, SMT DEF Span, Offsets
    <3>5. missed \in SUBSET Nat
      BY <1>3, SMT DEF Span
    <3>6. Span(ofst, Len(block)) \subseteq Span(ofst, Len(page)) \cup missed
      BY <3>3
    <3>8. load \in Load
          /\ Ready(load) = Ready(files[g].load) \cup Span(ofst, Len(page))
      BY <2>0, <3>2, <3>3
    <3>9. Store(g, ofst, page, load, Offsets, missed)
      BY <3>1
    <3> HIDE DEF page, missed, block, ofst, g, load
    <3>7. Rest
      BY <1>1, <3>9, <3>2, <3>3, <3>4, <3>5, <3>6, <3>8, StoreStep
         DEF missed, block, ofst, g
    <3> QED
      BY <1>2, <2>2, <3>7, SpendTyped DEF Events
  <2> QED
    BY <2>1, <2>2 DEF LoaderStore
<1>5. TypeOK'
  BY <1>1, <1>2, <1>4
     DEF TypeOK, FilesType, ReadersType, JobType, PatchType, fsVars
<1> QED
  BY <1>4, <1>5 DEF DataInv

-----------------------------------------------------------------------------
(* The other steps of a loader.                                            *)

(* LoaderLookup keeps the invariant: the file found is not older than the  *)
(* loader's own.                                                           *)
LEMMA LoaderLookupStep ==
    ASSUME DataInv, NEW f \in Files, LoaderLookup(f)
    PROVE  DataInv'
<1> DEFINE g == IF loader[f].moved THEN None ELSE open
           pc == IF g = None THEN "stopped" ELSE "store"
           l == [loader[f] EXCEPT !.target = g, !.pc = pc]
<1>1. /\ TypeOK /\ loader[f].pc = "lookup"
      /\ loader' = [loader EXCEPT ![f] = l]
      /\ UNCHANGED <<cacheType, db, posted, open, files, reader, job, patch,
                     crashed, left, aux>>
  BY DEF DataInv, TypeOK, LoaderLookup, fsVars
<1>2. loader[f] \in Loader /\ open \in Files \cup {None}
  BY <1>1 DEF TypeOK
<1>3. g \in Files \cup {None} /\ pc \in {"stopped", "store"}
  BY <1>2
<1>4. pc = "store" => g = open /\ g # None
  OBVIOUS
<1> HIDE DEF g, pc
<1>5. /\ l \in Loader /\ l.tx = loader[f].tx /\ l.todo = loader[f].todo
      /\ l.target = g /\ l.pc = pc
  BY <1>2, <1>3 DEF Loader
<1> HIDE DEF l
<1>6. /\ loader' \in [Files -> Loader] /\ loader'[f] = l
      /\ \A h \in Files \ {f} : loader'[h] = loader[h]
  BY <1>1, <1>5 DEF TypeOK
<1>7. LoaderAt(f)
  BY DEF DataInv, LoadersInv
<1>8. files[f] # None /\ LoaderSound(cacheType, loader[f], files[f], aux[f])
  BY <1>1, <1>7 DEF LoaderAt
<1>9. LoaderSound(cacheType, l, files[f], aux[f])
  BY <1>1, <1>5, <1>8 DEF LoaderSound
<1>10. open = f => Reach(l, files[f], aux[f])
  BY <1>1, <1>5, <1>7 DEF LoaderAt, Reach, Awaits
<1>11. pc = "store" => g # None /\ files[g] # None /\ f <= g
  BY <1>1, <1>4, <1>8 DEF TypeOK, DataInv, NewestOpen
<1>12. LoaderAt(f)'
  BY <1>1, <1>5, <1>6, <1>8, <1>9, <1>10, <1>11 DEF LoaderAt
<1>13. \A h \in Files \ {f} : LoaderAt(h)'
  BY <1>1, <1>6 DEF LoaderAt, DataInv, LoadersInv
<1>14. LoadersInv'
  BY <1>12, <1>13 DEF LoadersInv
<1>15. TypeOK'
  BY <1>1, <1>6 DEF TypeOK
<1> QED
  BY <1>1, <1>14, <1>15
     DEF DataInv, FilesInv, NewestOpen, ReadersInv, PatchInv, JobInv

(* LoaderFails keeps the invariant.                                        *)
LEMMA LoaderFailsStep ==
    ASSUME DataInv, NEW f \in Files, LoaderFails(f)
    PROVE  DataInv'
<1> DEFINE l == [loader[f] EXCEPT !.pc = "stopped"]
<1>1. /\ TypeOK /\ loader[f].pc = "store"
      /\ loader' = [loader EXCEPT ![f] = l]
      /\ UNCHANGED <<cacheType, db, posted, open, files, reader, job, patch,
                     crashed, aux>>
  BY DEF DataInv, TypeOK, LoaderFails, fsVars
<1>2. loader[f] \in Loader
  BY <1>1 DEF TypeOK
<1>3. l \in Loader /\ l.tx = loader[f].tx /\ l.todo = loader[f].todo
      /\ l.pc = "stopped"
  BY <1>2 DEF Loader
<1> HIDE DEF l
<1>4. /\ loader' \in [Files -> Loader] /\ loader'[f] = l
      /\ \A h \in Files \ {f} : loader'[h] = loader[h]
  BY <1>1, <1>3 DEF TypeOK
<1>5. files[f] # None /\ LoaderSound(cacheType, loader[f], files[f], aux[f])
  BY <1>1 DEF DataInv, LoadersInv, LoaderAt
<1>6. LoaderSound(cacheType, l, files[f], aux[f])
  BY <1>1, <1>3, <1>5 DEF LoaderSound
<1>7. LoaderAt(f)'
  BY <1>1, <1>3, <1>4, <1>5, <1>6 DEF LoaderAt
<1>8. \A h \in Files \ {f} : LoaderAt(h)'
  BY <1>1, <1>4 DEF LoaderAt, DataInv, LoadersInv
<1>9. LoadersInv'
  BY <1>7, <1>8 DEF LoadersInv
<1>10. left' \in [Events -> Nat]
  BY <1>1, SpendTyped DEF LoaderFails, Events
<1>11. TypeOK'
  BY <1>1, <1>4, <1>10 DEF TypeOK
<1> QED
  BY <1>1, <1>9, <1>11
     DEF DataInv, FilesInv, NewestOpen, ReadersInv, PatchInv, JobInv

(* LoaderPanics keeps the invariant.                                       *)
LEMMA LoaderPanicsStep ==
    ASSUME DataInv, NEW f \in Files, LoaderPanics(f)
    PROVE  DataInv'
<1>1. TypeOK
  BY DEF DataInv
<1>2. left' \in [Events -> Nat]
  BY <1>1, SpendTyped DEF LoaderPanics, Events, TypeOK
<1>3. /\ UNCHANGED <<cacheType, db, posted, open, files, loader, reader, job,
                     patch, aux>>
      /\ crashed' = TRUE
  BY DEF LoaderPanics, fsVars, goVars
<1>4. TypeOK'
  BY <1>1, <1>2, <1>3 DEF TypeOK
<1>5. LoadersInv'
  BY <1>3 DEF DataInv, LoadersInv, LoaderAt
<1> QED
  BY <1>3, <1>4, <1>5
     DEF DataInv, FilesInv, NewestOpen, ReadersInv, PatchInv, JobInv

-----------------------------------------------------------------------------
(* New files.                                                              *)

(* A new file is sound: none of its bytes is ready.                        *)
LEMMA NewFileSound ==
    ASSUME NEW kind, NEW size \in 0..MaxSize,
           NEW ideal \in [Offsets -> Byte], NEW holes \in SUBSET Nat,
           \A o \in Offsets : size <= o => ideal[o] = Zero
    PROVE  /\ NewFileData(size) \in Cache
           /\ NewAux(ideal, size, holes) \in History
           /\ Sound(kind, NewFileData(size), NewAux(ideal, size, holes))
<1> DEFINE c == NewFileData(size)
           a == NewAux(ideal, size, holes)
<1>1. size \in Nat /\ 0 \in Nat
  BY FileDataConstants, SMT
<1>2. c \in Cache
  <2>1. [o \in Offsets |-> Zero] \in [Offsets -> Byte]
    BY OffsetsNat
  <2> QED
    BY <1>1, <2>1, NewLoadReady DEF NewFileData, Cache
<1>3. a \in History
  BY DEF NewAux, History
<1>4. /\ c.size = size /\ c.len = size /\ Ready(c.load) = {}
      /\ \A o \in Offsets : c.data[o] = Zero
  BY NewLoadReady DEF NewFileData
<1>5. a.ideal = ideal /\ a.touched = {o \in Offsets : o >= size}
  BY DEF NewAux
<1>6. \A o \in Offsets : size <= o => o >= size
  BY <1>1, OffsetsNat, SMT
<1>7. size <= size
  BY <1>1, SMT
<1> HIDE DEF c, a
<1>8. Sound(kind, c, a)
  BY <1>4, <1>5, <1>6, <1>7 DEF Sound
<1> QED
  BY <1>2, <1>3, <1>8 DEF c, a

(* A file that Open or Mknod makes is the newest, and nobody works on it   *)
(* yet but its loader.                                                     *)
LEMMA NewFileStep ==
    ASSUME DataInv, open = None, NEW f \in Unused,
           NEW c \in Cache, NEW a \in History, NEW l \in Loader,
           Sound(cacheType, c, a),
           l.pc \in {"none", "lookup", "done"},
           l.pc # "none" => LoaderSound(cacheType, l, c, a),
           Reach(l, c, a),
           open' = f, files' = [files EXCEPT ![f] = c],
           aux' = [aux EXCEPT ![f] = a], loader' = [loader EXCEPT ![f] = l],
           UNCHANGED <<cacheType, db, posted, reader, job, patch, crashed,
                       left>>
    PROVE  DataInv'
<1>1. TypeOK /\ FilesType /\ ReadersType /\ JobType /\ PatchType
      /\ loader \in [Files -> Loader]
  BY TypeParts DEF DataInv
<1>2. f \in Files /\ files[f] = None /\ f # None
      /\ \A g \in Files : g < f => files[g] # None
  BY NoneIsNot DEF Unused
<1>3. /\ files'[f] = c /\ aux'[f] = a /\ loader'[f] = l
      /\ \A g \in Files \ {f} : /\ files'[g] = files[g] /\ aux'[g] = aux[g]
                                /\ loader'[g] = loader[g]
      /\ c # None /\ a # None
  BY <1>1, <1>2, NoneIsNot DEF FilesType
<1>4. FilesType'
  <2>1. /\ files' \in [Files -> Cache \cup {None}]
        /\ aux' \in [Files -> History \cup {None}]
    BY <1>1 DEF FilesType
  <2>2. \A g \in Files : /\ files'[g] = None <=> aux'[g] = None
                         /\ files'[g] # None => files'[g].size <= files'[g].len
    BY <1>1, <1>2, <1>3 DEF FilesType, Sound
  <2> QED
    BY <1>2, <1>3, <2>1, <2>2 DEF FilesType
<1>5. \A g \in Files : files[g] # None => files'[g] # None /\ g # f
  BY <1>2, <1>3
<1>6. ReadersType' /\ ReadersInv'
  <2>1. \A r \in Readers : reader[r].pc # "idle" =>
           /\ reader[r].file \in Files /\ reader[r].file # f
           /\ files'[reader[r].file] # None
    BY <1>1, <1>5 DEF ReadersType, Reader
  <2>2. ReadersType'
    BY <1>1, <2>1 DEF ReadersType
  <2>3. ASSUME NEW r \in Readers
        PROVE  ReaderSound(cacheType, reader[r], files[reader[r].file],
                           aux[reader[r].file])'
    <3>1. CASE reader[r].pc # "idle"
      BY <1>3, <2>1, <3>1 DEF DataInv, ReadersInv
    <3>2. CASE reader[r].pc = "idle"
      BY <3>2 DEF ReaderSound
    <3> QED
      BY <3>1, <3>2
  <2> QED
    BY <2>2, <2>3 DEF ReadersInv
<1>7. JobType' /\ JobInv'
  BY <1>1, <1>3, <1>5 DEF JobType, JobInv, Job, DataInv
<1>8. PatchType' /\ PatchInv'
  BY <1>1, <1>3, <1>5 DEF PatchType, PatchInv, Patch, DataInv
<1>9. FilesInv'
  BY <1>3 DEF FilesInv, DataInv
<1>10. NewestOpen'
  <2>1. ASSUME NEW g \in Files, NEW h \in Files, files'[g] # None, h < g
        PROVE  files'[h] # None
    <3>1. CASE g = f
      <4>1. h # f
        BY <2>1, <3>1, FileDataConstants, SMT
      <4> QED
        BY <1>2, <1>3, <2>1, <3>1, <4>1
    <3>2. CASE g # f
      BY <1>2, <1>3, <2>1, <3>2 DEF DataInv, NewestOpen
    <3> QED
      BY <3>1, <3>2
  <2>2. ASSUME NEW g \in Files, files'[g] # None
        PROVE  g <= f
    <3>1. CASE g # f
      <4>1. files[g] # None
        BY <1>3, <2>2, <3>1
      <4>2. ~(f < g)
        BY <1>2, <4>1 DEF DataInv, NewestOpen
      <4> QED
        BY <1>2, <4>2, FileDataConstants, SMT
    <3>2. CASE g = f
      BY <1>2, <3>2, FileDataConstants, SMT
    <3> QED
      BY <3>1, <3>2
  <2> QED
    BY <2>1, <2>2 DEF NewestOpen
<1>11. LoadersInv'
  <2>1. LoaderAt(f)'
    BY <1>3 DEF LoaderAt
  <2>2. ASSUME NEW g \in Files \ {f} PROVE LoaderAt(g)'
    <3>1. LoaderAt(g)
      BY DEF DataInv, LoadersInv
    <3>2. loader[g].target \in Files \cup {None}
      BY <1>1 DEF Loader
    <3> QED
      BY <1>3, <1>5, <3>1, <3>2 DEF LoaderAt
  <2> QED
    BY <2>1, <2>2 DEF LoadersInv
<1>12. loader' \in [Files -> Loader]
  BY <1>1
<1>13. TypeOK'
  BY <1>1, <1>4, <1>6, <1>7, <1>8, <1>12
     DEF TypeOK, FilesType, ReadersType, JobType, PatchType
<1> QED
  BY <1>6, <1>7, <1>8, <1>9, <1>10, <1>11, <1>13 DEF DataInv

(* The order of the loader names every block, and no other.                *)
LEMMA LoadOrderComplete ==
    ASSUME NEW n \in Nat
    PROVE  /\ LoadOrder(n) \in Seq(0..(n - 1)) /\ Len(LoadOrder(n)) = n
           /\ \A i \in 0..(n - 1) : \E k \in DOMAIN LoadOrder(n) :
                LoadOrder(n)[k] = i
<1> DEFINE at(k) == IF k = 1 THEN 0 ELSE IF k = 2 THEN n - 1 ELSE k - 2
<1>1. \A k \in 1..n : at(k) \in 0..(n - 1)
  BY SMT
<1>2. LoadOrder(n) = [k \in 1..n |-> at(k)]
  BY DEF LoadOrder
<1> HIDE DEF at
<1>3. LoadOrder(n) \in Seq(0..(n - 1)) /\ Len(LoadOrder(n)) = n
  BY <1>1, <1>2, SMT
<1>4. DOMAIN LoadOrder(n) = 1..n /\ \A k \in 1..n : LoadOrder(n)[k] = at(k)
  BY <1>2
<1>5. ASSUME NEW i \in 0..(n - 1)
      PROVE  \E k \in 1..n : at(k) = i
  <2>1. CASE i = 0
    <3>1. 1 \in 1..n /\ at(1) = 0
      BY SMT DEF at
    <3> QED
      BY <2>1, <3>1
  <2>2. CASE i # 0 /\ i = n - 1
    <3>1. 2 \in 1..n /\ at(2) = n - 1
      BY <2>2, SMT DEF at
    <3> QED
      BY <2>2, <3>1
  <2>3. CASE i # 0 /\ i # n - 1
    <3>1. i + 2 \in 1..n /\ at(i + 2) = i
      BY <2>3, SMT DEF at
    <3> QED
      BY <3>1
  <2> QED
    BY <2>1, <2>2, <2>3
<1> QED
  BY <1>3, <1>4, <1>5

(* Open keeps the invariant: the loader brings every byte that the         *)
(* transaction has, and the others are holes.                              *)
LEMMA OpenStep ==
    ASSUME DataInv, Open
    PROVE  DataInv'
<1>1. PICK f \in Unused :
        /\ open' = f
        /\ files' = [files EXCEPT ![f] = NewFileData(db.size)]
        /\ loader' = [loader EXCEPT ![f] =
            [pc |-> IF db.blocks = <<>> THEN "done" ELSE "lookup", tx |-> db,
             todo |-> LoadOrder(Len(db.blocks)), target |-> None,
             moved |-> FALSE]]
        /\ aux' = [aux EXCEPT ![f] = NewAux(Content(db), db.size,
                {o \in Offsets : o < db.size /\ ~InBlock(db, o)})]
  BY DEF Open
<1> DEFINE size == db.size
           n == Len(db.blocks)
           holes == {o \in Offsets : o < size /\ ~InBlock(db, o)}
           c == NewFileData(size)
           a == NewAux(Content(db), size, holes)
           pc == IF db.blocks = <<>> THEN "done" ELSE "lookup"
           l == [pc |-> pc, tx |-> db, todo |-> LoadOrder(n),
                 target |-> None, moved |-> FALSE]
<1>2. db \in Tx /\ open = None
  BY DEF DataInv, TypeOK, Open
<1>3. /\ size \in 0..MaxSize /\ size \in Nat /\ n \in Nat
      /\ n <= Blocks(MaxSize)
  BY <1>2, TxFields
<1>4. /\ Content(db) \in [Offsets -> Byte]
      /\ \A o \in Offsets : size <= o => Content(db)[o] = Zero
  BY <1>2, ContentTyped
<1>5. holes \in SUBSET Nat
  BY OffsetsNat
<1>6. c \in Cache /\ a \in History /\ Sound(cacheType, c, a)
  BY <1>3, <1>4, <1>5, NewFileSound
<1>7. /\ c.size = size /\ c.len = size /\ a.ideal = Content(db)
      /\ a.touched = {o \in Offsets : o >= size} /\ a.holes = holes
  BY DEF NewFileData, NewAux
<1>8. /\ LoadOrder(n) \in Seq(0..(n - 1)) /\ Len(LoadOrder(n)) = n
      /\ \A i \in 0..(n - 1) : \E k \in DOMAIN LoadOrder(n) :
           LoadOrder(n)[k] = i
  BY <1>3, LoadOrderComplete
<1>9. l \in Loader
  <2>1. 0..(n - 1) \subseteq BlockNumber
    <3>1. Blocks(MaxSize) \in Nat
      BY BlocksBegin, FileDataConstants
    <3> QED
      BY <1>3, <3>1, SMT DEF BlockNumber
  <2>2. LoadOrder(n) \in Seq(BlockNumber)
    BY <1>3, <1>8, <2>1, SMT
  <2> QED
    BY <1>2, <2>2 DEF Loader
<1>10. l.pc = pc /\ l.tx = db /\ l.todo = LoadOrder(n) /\ pc # "none"
       /\ pc \in {"none", "lookup", "done"}
  OBVIOUS
<1>11. pc \in {"lookup", "store"} => LoadOrder(n) # <<>>
  <2>1. pc \in {"lookup", "store"} => db.blocks # <<>>
    OBVIOUS
  <2>2. db.blocks # <<>> => n # 0
    BY <1>2, TxFields, SMT
  <2>3. n # 0 => LoadOrder(n) # <<>>
    BY <1>8
  <2> QED
    BY <2>1, <2>2, <2>3
<1> HIDE DEF l, pc, c, a, holes
<1>12. LoaderSound(cacheType, l, c, a)
  <2>1. \A k \in DOMAIN LoadOrder(n) : LoadOrder(n)[k] < n
    BY <1>3, <1>8, SMT
  <2>2. \A o \in Offsets \ a.touched : o < size
    BY <1>3, <1>7, OffsetsNat, SMT
  <2>3. size <= size
    BY <1>3, SMT
  <2> QED
    BY <1>2, <1>7, <1>10, <1>11, <2>1, <2>2, <2>3 DEF LoaderSound
<1>13. Reach(l, c, a)
  <2>1. ASSUME NEW o \in Span(0, c.size), o \notin a.holes
        PROVE  Awaits(l, o)
    <3>1. o \in Nat /\ o < size /\ o \in Offsets
      BY <1>3, <1>7, FileDataConstants, SMT DEF Span, Offsets
    <3>2. InBlock(db, o)
      BY <1>7, <2>1, <3>1 DEF holes
    <3>3. /\ o \div BlockSize \in Nat /\ o % BlockSize \in 0..(BlockSize - 1)
          /\ o = (o \div BlockSize) * BlockSize + (o % BlockSize)
      BY <3>1, DivMod
    <3>4. o \div BlockSize \in 0..(n - 1)
      BY <1>3, <3>2, <3>3, SMT DEF InBlock
    <3>5. o \in Span((o \div BlockSize) * BlockSize, BlockSize)
      BY <3>1, <3>3, FileDataConstants, SMT DEF Span
    <3> QED
      BY <1>8, <1>10, <3>2, <3>4, <3>5 DEF Awaits
  <2> QED
    BY <2>1 DEF Reach
<1>14. /\ open' = f /\ files' = [files EXCEPT ![f] = c]
       /\ aux' = [aux EXCEPT ![f] = a] /\ loader' = [loader EXCEPT ![f] = l]
       /\ UNCHANGED <<cacheType, db, posted, reader, job, patch, crashed,
                      left>>
  BY <1>1 DEF Open, c, a, l, pc, holes
<1> HIDE DEF size, n
<1> QED
  BY <1>2, <1>6, <1>9, <1>10, <1>12, <1>13, <1>14, NewFileStep

(* Mknod keeps the invariant.                                              *)
LEMMA MknodStep ==
    ASSUME DataInv, Mknod
    PROVE  DataInv'
<1> DEFINE zeros == [o \in Offsets |-> Zero]
           c == NewFileData(0)
           a == NewAux(zeros, 0, {})
<1>1. PICK f \in Unused :
        /\ open' = f
        /\ files' = [files EXCEPT ![f] = c]
        /\ loader' = [loader EXCEPT ![f] = NoLoader]
        /\ aux' = [aux EXCEPT ![f] = a]
  BY DEF Mknod
<1>2. /\ open = None
      /\ UNCHANGED <<cacheType, db, posted, reader, job, patch, crashed,
                     left>>
  BY DEF Mknod
<1>3. 0 \in 0..MaxSize
  BY FileDataConstants, SMT
<1>4. zeros \in [Offsets -> Byte] /\ \A o \in Offsets : zeros[o] = Zero
  BY OffsetsNat
<1>5. {} \in SUBSET Nat
  OBVIOUS
<1> HIDE DEF zeros
<1>6. c \in Cache /\ a \in History /\ Sound(cacheType, c, a)
  BY <1>3, <1>4, <1>5, NewFileSound
<1>7. NoLoader \in Loader /\ NoLoader.pc = "none"
  BY DEF NoLoader, Loader
<1>8. Reach(NoLoader, c, a)
  <2>1. c.size = 0
    BY DEF NewFileData
  <2>2. Span(0, 0) = {}
    BY SMT DEF Span
  <2> QED
    BY <2>1, <2>2 DEF Reach
<1> HIDE DEF c, a
<1> QED
  BY <1>1, <1>2, <1>6, <1>7, <1>8, NewFileStep

-----------------------------------------------------------------------------
(* Rename, Unlink and the process itself.                                  *)

(* Rename keeps the invariant.                                             *)
LEMMA RenameStep ==
    ASSUME DataInv, Rename
    PROVE  DataInv'
<1>1. /\ TypeOK /\ open \in Files /\ files[open] # None
      /\ UNCHANGED <<cacheType, db, posted, open, files, reader, patch,
                     crashed, aux>>
      /\ loader' = [loader EXCEPT ![open].moved = TRUE]
      /\ job' = IF job = None THEN None ELSE [job EXCEPT !.moved = TRUE]
  BY DEF DataInv, TypeOK, Rename, fsVars
<1>2. left' \in [Events -> Nat]
  BY <1>1, SpendTyped DEF Rename, Events
<1> DEFINE l == [loader[open] EXCEPT !.moved = TRUE]
<1>3. /\ l \in Loader /\ l.pc = loader[open].pc /\ l.tx = loader[open].tx
      /\ l.todo = loader[open].todo /\ l.target = loader[open].target
  BY <1>1 DEF TypeOK, Loader
<1>4. loader' = [loader EXCEPT ![open] = l]
  BY <1>1 DEF TypeOK
<1> HIDE DEF l
<1>5. /\ loader' \in [Files -> Loader] /\ loader'[open] = l
      /\ \A h \in Files \ {open} : loader'[h] = loader[h]
  BY <1>1, <1>3, <1>4 DEF TypeOK
<1>6. LoadersInv'
  <2>1. ASSUME NEW h \in Files PROVE LoaderAt(h)'
    <3>1. LoaderAt(h)
      BY DEF DataInv, LoadersInv
    <3>2. /\ loader'[h].pc = loader[h].pc /\ loader'[h].tx = loader[h].tx
          /\ loader'[h].todo = loader[h].todo
          /\ loader'[h].target = loader[h].target
      BY <1>3, <1>5
    <3> QED
      BY <1>1, <3>1, <3>2 DEF LoaderAt, LoaderSound, Reach, Awaits
  <2> QED
    BY <2>1 DEF LoadersInv
<1>7. JobType' /\ JobInv'
  <2>1. CASE job = None
    BY <1>1, <2>1 DEF JobType, JobInv
  <2>2. CASE job # None
    <3>1. job \in Job /\ job' = [job EXCEPT !.moved = TRUE]
      BY <1>1, <2>2 DEF TypeOK
    <3>2. /\ job' \in Job /\ job'.file = job.file /\ job'.pc = job.pc
          /\ job'.size = job.size /\ job'.idx = job.idx /\ job'.end = job.end
          /\ job'.n = job.n /\ job'.blocks = job.blocks
          /\ job'.torn = job.torn /\ job'.raced = job.raced
          /\ job'.bad = job.bad
      BY <3>1 DEF Job
    <3>3. JobType'
      BY <1>1, <2>2, <3>2 DEF TypeOK, JobType
    <3>4. JobInv
      BY DEF DataInv
    <3> QED
      BY <1>1, <2>2, <3>2, <3>3, <3>4
         DEF JobInv, JobShape, JobExact, Complete, Gathered
  <2> QED
    BY <2>1, <2>2
<1>8. TypeOK'
  BY <1>1, <1>2, <1>5, <1>7 DEF TypeOK, JobType
<1> QED
  BY <1>1, <1>6, <1>7, <1>8
     DEF DataInv, FilesInv, NewestOpen, ReadersInv, PatchInv

(* Unlink keeps the invariant: goroutines and Reads keep the file that     *)
(* they have found.                                                        *)
LEMMA UnlinkStep ==
    ASSUME DataInv, Unlink
    PROVE  DataInv'
<1>1. /\ TypeOK
      /\ open' = None /\ db' = None /\ posted' = None
      /\ UNCHANGED <<cacheType, files, loader, reader, job, patch, crashed,
                     aux>>
  BY DEF DataInv, Unlink, goVars
<1>2. left' \in [Events -> Nat]
  BY <1>1, SpendTyped DEF Unlink, Events
<1>3. TypeOK'
  BY <1>1, <1>2 DEF TypeOK
<1>4. \A f \in Files : f # None
  BY NoneIsNot
<1>5. LoadersInv'
  BY <1>1, <1>4 DEF DataInv, LoadersInv, LoaderAt
<1> QED
  BY <1>1, <1>3, <1>5
     DEF DataInv, FilesInv, NewestOpen, ReadersInv, PatchInv, JobInv

(* Restart keeps the invariant: nothing in memory is left.                 *)
LEMMA RestartStep ==
    ASSUME DataInv, Restart
    PROVE  DataInv'
<1>1. /\ NoLoader \in Loader /\ NoLoader.pc = "none"
      /\ IdleReader \in Reader /\ IdleReader.pc = "idle"
  BY FileDataConstants, SMT DEF NoLoader, Loader, IdleReader, Reader
<1>2. left' \in [Events -> Nat]
  BY SpendTyped DEF Restart, Events, DataInv
<1>3. /\ open' = None /\ files' = [f \in Files |-> None]
      /\ loader' = [f \in Files |-> NoLoader]
      /\ reader' = [r \in Readers |-> IdleReader]
      /\ job' = None /\ patch' = None
      /\ aux' = [f \in Files |-> None]
      /\ db' = posted /\ crashed' = FALSE
      /\ UNCHANGED <<cacheType, posted>>
  BY DEF Restart, Stopped
<1>4. TypeOK'
  BY <1>1, <1>2, <1>3 DEF DataInv, TypeOK
<1>5. LoadersInv'
  BY <1>1, <1>3, NoneIsNot DEF LoadersInv, LoaderAt
<1>6. ReadersInv'
  BY <1>1, <1>3 DEF ReadersInv, ReaderSound
<1> QED
  BY <1>3, <1>4, <1>5, <1>6
     DEF DataInv, FilesInv, NewestOpen, PatchInv, JobInv

(* The invariant holds when the client starts.                             *)
LEMMA DataInvInit == Init => DataInv
<1> SUFFICES ASSUME Init PROVE DataInv
  OBVIOUS
<1>1. /\ NoLoader \in Loader /\ NoLoader.pc = "none"
      /\ IdleReader \in Reader /\ IdleReader.pc = "idle"
  BY FileDataConstants, SMT DEF NoLoader, Loader, IdleReader, Reader
<1>2. TypeOK
  BY <1>1, FileDataConstants DEF Init, TypeOK
<1>3. LoadersInv
  BY <1>1, NoneIsNot DEF Init, LoadersInv, LoaderAt
<1>4. ReadersInv
  BY <1>1 DEF Init, ReadersInv, ReaderSound
<1> QED
  BY <1>2, <1>3, <1>4
     DEF Init, DataInv, FilesInv, NewestOpen, PatchInv, JobInv

-----------------------------------------------------------------------------
(* Steps that move the position of a file which others may share.          *)

(* A cache that differs from c at most in its position.                    *)
Moved(kind, c, a, d) ==
    /\ Change(kind, c, a, d, a, {})
    /\ d.size = c.size /\ d.load = c.load /\ d.len = c.len
    /\ d.data = c.data

(* Seek moves the position and nothing else.                               *)
LEMMA SeekMoves ==
    ASSUME NEW c \in Cache, NEW a \in History, NEW ofst \in Nat,
           Sound(cacheType, c, a)
    PROVE  /\ Moved(cacheType, c, a, Seek(c, ofst))
           /\ cacheType = "disk" => Seek(c, ofst).pos = ofst
<1>1. CASE cacheType = "disk"
  BY <1>1, MoveChange DEF Seek, Moved
<1>2. CASE cacheType # "disk"
  <2>1. [c EXCEPT !.pos = c.pos] = c /\ c.pos \in Nat
    BY DEF Cache
  <2> QED
    BY <1>2, <2>1, MoveChange DEF Seek, Moved
<1> QED
  BY <1>1, <1>2

(* Reading moves the position and nothing else.                            *)
LEMMA AdvanceMoves ==
    ASSUME NEW c \in Cache, NEW a \in History, NEW n \in Nat, NEW last,
           Sound(cacheType, c, a)
    PROVE  Moved(cacheType, c, a, Advance(c, n, last))
<1> DEFINE p == IF last \/ cacheType = "memory" THEN 0 ELSE c.pos + n
<1>1. p \in Nat
  <2>1. c.pos \in Nat /\ c.pos + n \in Nat /\ 0 \in Nat
    BY SMT DEF Cache
  <2> QED
    BY <2>1
<1>2. Advance(c, n, last) = [c EXCEPT !.pos = p]
  BY DEF Advance
<1> HIDE DEF p
<1> QED
  BY <1>1, <1>2, MoveChange DEF Moved

(* Those who share the lock are marked as raced, and lose nothing else.    *)
LEMMA RacedReader ==
    ASSUME NEW kind, NEW c, NEW a, NEW d, NEW x \in Reader,
           Moved(kind, c, a, d), ReaderSound(kind, x, c, a)
    PROVE  LET y == [x EXCEPT !.raced = TRUE] IN
           /\ y \in Reader /\ y.pc = x.pc /\ y.file = x.file /\ y.raced
           /\ y.ofst = x.ofst /\ y.len = x.len
           /\ ReaderSound(kind, y, d, a)
<1> DEFINE y == [x EXCEPT !.raced = TRUE]
<1>1. /\ y \in Reader /\ y.pc = x.pc /\ y.file = x.file /\ y.raced
      /\ y.ofst = x.ofst /\ y.len = x.len
  BY DEF Reader
<1> HIDE DEF y
<1>2. ReaderSound(kind, y, d, a)
  BY <1>1 DEF ReaderSound, Moved
<1> QED
  BY <1>1, <1>2 DEF y

(* An upload whose position has been moved is still sound, and is known to *)
(* have been raced.                                                        *)
LEMMA RacedJob ==
    ASSUME NEW kind, NEW c, NEW a, NEW d, NEW j \in Job, JobShape(j),
           Moved(kind, c, a, d), j.pc = "copy",
           ~j.torn => JobExact(kind, j, c, a)
    PROVE  LET k == [j EXCEPT !.raced = TRUE] IN
           /\ k \in Job /\ k.file = j.file /\ JobShape(k)
           /\ ~k.torn => JobExact(kind, k, d, a)
<1> DEFINE k == [j EXCEPT !.raced = TRUE]
<1>1. /\ k \in Job /\ k.file = j.file /\ k.pc = j.pc /\ k.raced
      /\ k.blocks = j.blocks /\ k.idx = j.idx /\ k.end = j.end /\ k.n = j.n
      /\ k.size = j.size /\ k.torn = j.torn
  BY DEF Job
<1> HIDE DEF k
<1>2. JobShape(k)
  BY <1>1 DEF JobShape
<1>3. ~k.torn => JobExact(kind, k, d, a)
  BY <1>1 DEF JobExact, Complete, Moved
<1> QED
  BY <1>1, <1>2, <1>3 DEF k

(* A step that only moves the position of a file: for everyone but its     *)
(* lock's other holders nothing has changed.                               *)
LEMMA MoveStep ==
    ASSUME DataInv, NEW f \in Files, files[f] # None, NEW d,
           Moved(cacheType, files[f], aux[f], d),
           files' = [files EXCEPT ![f] = d], aux' = aux, UNCHANGED fsVars
    PROVE  /\ FilesType' /\ FilesInv' /\ NewestOpen'
           /\ loader' = loader => LoadersInv'
           /\ patch' = patch => PatchType' /\ PatchInv'
           /\ files'[f] = d
           /\ \A g \in Files \ {f} : files'[g] = files[g]
           /\ \A g \in Files : files'[g] = None <=> files[g] = None
           /\ \A r \in Readers :
                /\ Race(f)[r] \in Reader
                /\ Race(f)[r].pc = reader[r].pc
                /\ Race(f)[r].file = reader[r].file
                /\ Race(f)[r].ofst = reader[r].ofst
                /\ Race(f)[r].len = reader[r].len
                /\ reader[r].pc # "idle" =>
                    /\ reader[r].file # None
                    /\ files'[reader[r].file] # None
                /\ reader[r].pc # "idle" =>
                    ReaderSound(cacheType, Race(f)[r], files'[reader[r].file],
                                aux[reader[r].file])
           /\ job' = RaceJob(f) => JobType' /\ JobInv'
<1>1. TypeOK /\ FilesType /\ ReadersType /\ JobType
  BY TypeParts DEF DataInv
<1>2. cacheType' = cacheType /\ open' = open
  BY DEF fsVars
<1>3. Change(cacheType, files[f], aux[f], d, aux[f], {})
  BY DEF Moved
<1>4. aux' = [aux EXCEPT ![f] = aux[f]]
  BY <1>1 DEF FilesType
<1>5. {} \in SUBSET Offsets
  OBVIOUS
<1>6. /\ files'[f] = d
      /\ \A g \in Files \ {f} : files'[g] = files[g] /\ aux'[g] = aux[g]
      /\ \A g \in Files : files'[g] = None <=> files[g] = None
      /\ FilesType' /\ FilesInv' /\ NewestOpen'
      /\ \A g \in Files : loader'[g] = loader[g] => LoaderAt(g)'
  <2>1. DataInv /\ files[f] # None /\ files' = [files EXCEPT ![f] = d]
    OBVIOUS
  <2> QED
    BY ONLY <1>2, <1>3, <1>4, <1>5, <2>1, f \in Files, OneFileChanges
<1>7. loader' = loader => LoadersInv'
  BY <1>6 DEF LoadersInv
<1>8. patch' = patch => PatchType' /\ PatchInv'
  <2>1. patch' = patch => Overtake(f, {})
    BY <1>1, OvertakeNothing
  <2>2. Change(cacheType, files[f], aux[f], files'[f], aux'[f], {})
    BY <1>3, <1>6
  <2>3. TypeOK /\ PatchInv /\ files[f] # None
    BY DEF DataInv
  <2> QED
    BY ONLY <1>2, <1>5, <1>6, <2>1, <2>2, <2>3, f \in Files, PatchOvertaken
<1>9. ASSUME NEW r \in Readers
      PROVE  /\ Race(f)[r] \in Reader
             /\ Race(f)[r].pc = reader[r].pc
             /\ Race(f)[r].file = reader[r].file
             /\ Race(f)[r].ofst = reader[r].ofst
             /\ Race(f)[r].len = reader[r].len
             /\ reader[r].pc # "idle" =>
                    /\ reader[r].file # None
                    /\ files'[reader[r].file] # None
             /\ reader[r].pc # "idle" =>
                    ReaderSound(cacheType, Race(f)[r], files'[reader[r].file],
                                aux[reader[r].file])
  <2>1. /\ reader[r] \in Reader
        /\ reader[r].pc # "idle" =>
             /\ reader[r].file \in Files /\ reader[r].file # None
             /\ files'[reader[r].file] # None
    BY <1>1, <1>6 DEF ReadersType, Reader
  <2>2. ReaderSound(cacheType, reader[r], files[reader[r].file],
                    aux[reader[r].file])
    BY DEF DataInv, ReadersInv
  <2>3. CASE r \in Sharing(f)
    <3>1. /\ Race(f)[r] = [reader[r] EXCEPT !.raced = TRUE]
          /\ reader[r].file = f
      BY <2>3 DEF Race, Sharing
    <3> QED
      BY <1>6, <2>1, <2>2, <3>1, RacedReader
  <2>4. CASE r \notin Sharing(f)
    <3>1. Race(f)[r] = reader[r]
      BY <2>4 DEF Race
    <3>2. CASE reader[r].file = f
      <4>1. reader[r].pc \notin {"copy", "panicked"}
        BY <2>4, <3>2 DEF Sharing
      <4> QED
        BY <2>1, <2>2, <3>1, <4>1 DEF ReaderSound
    <3>3. CASE reader[r].file # f
      BY <1>6, <2>1, <2>2, <3>1, <3>3
    <3> QED
      BY <3>2, <3>3
  <2> QED
    BY <2>3, <2>4
<1>10. ASSUME job' = RaceJob(f)
       PROVE  JobType' /\ JobInv'
  <2>1. CASE job = None
    BY <1>10, <2>1 DEF RaceJob, JobSharing, JobType, JobInv
  <2>2. CASE job # None
    <3>1. /\ job \in Job /\ job.file \in Files /\ files[job.file] # None
          /\ JobShape(job)
          /\ ~job.torn =>
               JobExact(cacheType, job, files[job.file], aux[job.file])
      BY <1>1, <2>2 DEF JobType, Job, DataInv, JobInv
    <3>2. CASE JobSharing(f)
      <4>1. /\ job' = [job EXCEPT !.raced = TRUE] /\ job.file = f
            /\ job.pc = "copy"
        BY <1>10, <3>2 DEF RaceJob, JobSharing
      <4>2. /\ job' \in Job /\ job'.file = f /\ JobShape(job')
            /\ ~job'.torn => JobExact(cacheType, job', d, aux[f])
        BY <3>1, <4>1, RacedJob
      <4> QED
        BY <1>2, <1>6, <4>2 DEF JobType, JobInv
    <3>3. CASE ~JobSharing(f)
      <4>1. job' = job
        BY <1>10, <3>3 DEF RaceJob
      <4>2. ~job.torn =>
              JobExact(cacheType, job, files'[job.file], aux[job.file])
        <5>1. CASE job.file = f
          <6>1. job.pc # "copy"
            BY <2>2, <3>3, <5>1 DEF JobSharing
          <6>2. d.size = files[f].size
            BY DEF Moved
          <6> QED
            BY <1>6, <3>1, <5>1, <6>1, <6>2, JobKept
        <5>2. CASE job.file # f
          BY <1>6, <3>1, <5>2
        <5> QED
          BY <5>1, <5>2
      <4> QED
        BY <1>2, <1>6, <3>1, <4>1, <4>2 DEF JobType, JobInv
    <3> QED
      BY <3>2, <3>3
  <2> QED
    BY <2>1, <2>2
<1> QED
  BY <1>6, <1>7, <1>8, <1>9, <1>10

-----------------------------------------------------------------------------
(* Steps that leave the files alone.                                       *)

(* The invariant holds after a step that only moves those who work on the  *)
(* files, when it holds for each of them.                                  *)
LEMMA AsideStep ==
    ASSUME DataInv, UNCHANGED <<cacheType, open, files, loader, aux>>,
           db' \in Tx \cup {None}, posted' \in Tx \cup {None},
           left' \in [Events -> Nat], crashed' \in BOOLEAN,
           \/ reader' = reader
           \/ ReadersType' /\ ReadersInv',
           \/ patch' = patch
           \/ PatchType' /\ PatchInv',
           \/ job' = job
           \/ JobType' /\ JobInv'
    PROVE  DataInv'
<1>1. TypeOK /\ ReadersType /\ JobType /\ PatchType
  BY TypeParts DEF DataInv
<1>2. ReadersType' /\ ReadersInv'
  BY <1>1 DEF DataInv, ReadersType, ReadersInv
<1>3. JobType' /\ JobInv'
  BY <1>1 DEF DataInv, JobType, JobInv
<1>4. PatchType' /\ PatchInv'
  BY <1>1 DEF DataInv, PatchType, PatchInv
<1>5. TypeOK'
  BY <1>1, <1>2, <1>3, <1>4 DEF TypeOK, ReadersType, JobType, PatchType
<1> QED
  BY <1>2, <1>3, <1>4, <1>5
     DEF DataInv, FilesInv, NewestOpen, LoadersInv, LoaderAt

-----------------------------------------------------------------------------
(* The upload.                                                             *)

(* An upload of the open file has gathered nothing yet.                    *)
LEMMA ReleaseStep ==
    ASSUME DataInv, Release
    PROVE  DataInv'
<1>1. /\ TypeOK /\ open \in Files /\ files[open] # None
      /\ UNCHANGED <<cacheType, db, posted, open, files, loader, reader, patch,
                     crashed, aux>>
      /\ job' = [pc |-> "count", file |-> open, size |-> files[open].size,
                 old |-> IF db = None THEN <<>> ELSE db.blocks, idx |-> 0,
                 end |-> 0, n |-> 0, blocks |-> <<>>, moved |-> FALSE,
                 torn |-> FALSE, raced |-> FALSE, bad |-> {}]
  BY DEF DataInv, TypeOK, Release, fsVars
<1>2. left' \in [Events -> Nat]
  BY <1>1, SpendTyped DEF Release, Events
<1>3. files[open].size \in 0..MaxSize
  BY <1>1, FileThere DEF Cache
<1>4. (IF db = None THEN <<>> ELSE db.blocks) \in Seq(Seq(Byte))
  <2>1. db # None => db.blocks \in Seq(Seq(Byte))
    BY <1>1, TxFields DEF TypeOK
  <2>2. <<>> \in Seq(Seq(Byte))
    OBVIOUS
  <2> QED
    BY <2>1, <2>2
<1>5. job' \in Job
  <2>1. 0 \in Nat /\ 0 \in 0..BlockSize /\ <<>> \in Seq(Seq(Byte))
    BY FileDataConstants, SMT
  <2> QED
    BY <1>1, <1>3, <1>4, <2>1 DEF Job
<1>6. JobType'
  BY <1>1, <1>5 DEF JobType
<1>7. JobShape(job')
  <2>1. Blocks(MaxSize) \in Nat
    BY BlocksBegin, FileDataConstants
  <2> QED
    BY <1>1, <2>1, SMT DEF JobShape
<1>8. JobInv'
  BY <1>1, <1>7 DEF JobInv, JobExact
<1> QED
  BY <1>1, <1>2, <1>6, <1>8, AsideStep DEF TypeOK

(* The upload counts the blocks of the file as it is now.                  *)
LEMMA UploadCountStep ==
    ASSUME DataInv, UploadCount
    PROVE  DataInv'
<1> DEFINE c == files[job.file]
           n == Blocks(c.size)
           pc == IF n = 0 THEN "tx" ELSE "seek"
<1>1. /\ TypeOK /\ job # None /\ job \in Job /\ job.file \in Files /\ c # None
      /\ job.pc = "count"
      /\ UNCHANGED <<cacheType, db, posted, open, files, loader, reader, patch,
                     crashed, left, aux>>
      /\ job' = [job EXCEPT !.end = n, !.pc = pc]
  BY DEF DataInv, TypeOK, UploadCount, fsVars, Job
<1>2. c.size \in 0..MaxSize /\ c.size \in Nat /\ c.size <= MaxSize
  <2>1. c.size \in 0..MaxSize
    BY <1>1, FileThere DEF Cache
  <2> QED
    BY <2>1, FileDataConstants, SMT
<1>3. n \in Nat /\ n <= Blocks(MaxSize) /\ Blocks(MaxSize) \in Nat
  BY <1>2, BlocksBegin, BlocksMonotone, FileDataConstants
<1>4. pc \in {"tx", "seek"} /\ (pc = "seek" => n # 0)
  OBVIOUS
<1> HIDE DEF n, pc
<1>5. /\ job' \in Job /\ job'.file = job.file /\ job'.pc = pc
      /\ job'.size = job.size /\ job'.idx = job.idx /\ job'.end = n
      /\ job'.blocks = job.blocks /\ job'.torn = job.torn
  BY <1>1, <1>3, <1>4 DEF Job
<1>6. JobType'
  BY <1>1, <1>5, NoneIsNot DEF JobType
<1>7. /\ JobShape(job)
      /\ ~job.torn => JobExact(cacheType, job, c, aux[job.file])
  BY <1>1 DEF DataInv, JobInv
<1>8. Len(job.blocks) = 0 /\ job.idx = 0 /\ job.blocks = <<>>
  <2>1. job.blocks \in Seq(Seq(Byte)) /\ job.idx = 0
    BY <1>1, <1>7 DEF Job, JobShape
  <2>2. Len(job.blocks) = 0
    BY <1>7, <2>1, SMT DEF JobShape
  <2> QED
    BY <2>1, <2>2, SMT
<1>9. JobShape(job')
  BY <1>3, <1>4, <1>5, <1>7, <1>8, SMT DEF JobShape
<1>10. ~job'.torn => JobExact(cacheType, job', c, aux[job.file])
  <2>1. DOMAIN job.blocks = {}
    BY <1>8
  <2>2. ~job.torn => job.size = c.size
    BY <1>1, <1>7 DEF JobExact
  <2> QED
    BY <1>4, <1>5, <1>8, <2>1, <2>2 DEF JobExact, Complete, Gathered, n
<1>11. JobInv'
  BY <1>1, <1>5, <1>9, <1>10 DEF JobInv
<1> QED
  BY <1>1, <1>6, <1>11, AsideStep DEF TypeOK

(* An upload that is through with its blocks changes no more than its pc.  *)
LEMMA JobEnds ==
    ASSUME NEW j \in Job, NEW pc \in {"insert", "clean"}, JobShape(j)
    PROVE  LET k == [j EXCEPT !.pc = pc] IN
           /\ k \in Job /\ k.file = j.file /\ k.pc = pc /\ JobShape(k)
<1> DEFINE k == [j EXCEPT !.pc = pc]
<1>1. /\ k \in Job /\ k.file = j.file /\ k.pc = pc
      /\ k.blocks = j.blocks /\ k.idx = j.idx /\ k.end = j.end
  BY DEF Job
<1> HIDE DEF k
<1>2. JobShape(k)
  BY <1>1 DEF JobShape
<1> QED
  BY <1>1, <1>2 DEF k

(* What an upload posts is a transaction.                                  *)
LEMMA JobTxTyped ==
    ASSUME job \in Job, JobShape(job)
    PROVE  JobTx \in Tx
BY DEF JobTx, Tx, Job, JobShape

(* UploadTx keeps the invariant, whether SendTx returns or fails.          *)
LEMMA UploadTxStep ==
    ASSUME DataInv, UploadTx
    PROVE  DataInv'
<1>1. /\ TypeOK /\ job # None /\ job \in Job /\ files[job.file] # None
      /\ JobShape(job)
      /\ UNCHANGED <<cacheType, db, open, files, loader, reader, patch,
                     crashed, aux>>
      /\ job' = [job EXCEPT !.pc = "insert"]
         \/ job' = [job EXCEPT !.pc = "clean"]
      /\ posted' \in {posted, After(posted)}
  BY DEF DataInv, TypeOK, JobInv, UploadTx
<1>2. left' \in [Events -> Nat]
  BY <1>1, SpendTyped DEF UploadTx, Events, TypeOK
<1>3. posted' \in Tx \cup {None}
  BY <1>1, JobTxTyped DEF After, TypeOK
<1>4. /\ job' \in Job /\ job'.file = job.file /\ JobShape(job')
      /\ job'.pc \in {"insert", "clean"}
  BY <1>1, JobEnds
<1>5. JobType' /\ JobInv'
  BY <1>1, <1>4, NoneIsNot DEF JobType, JobInv, JobExact
<1> QED
  BY <1>1, <1>2, <1>3, <1>5, AsideStep DEF TypeOK

(* UploadInsert keeps the invariant.                                       *)
LEMMA UploadInsertStep ==
    ASSUME DataInv, UploadInsert
    PROVE  DataInv'
<1>1. /\ TypeOK /\ job # None /\ job \in Job /\ files[job.file] # None
      /\ JobShape(job)
      /\ UNCHANGED <<cacheType, posted, open, files, loader, reader, patch,
                     crashed, left, aux>>
      /\ job' = [job EXCEPT !.pc = "clean"]
      /\ db' = After(db)
  BY DEF DataInv, TypeOK, JobInv, UploadInsert
<1>2. db' \in Tx \cup {None}
  BY <1>1, JobTxTyped DEF After, TypeOK
<1>3. /\ job' \in Job /\ job'.file = job.file /\ JobShape(job')
      /\ job'.pc = "clean"
  BY <1>1, JobEnds
<1>4. JobType' /\ JobInv'
  BY <1>1, <1>3, NoneIsNot DEF JobType, JobInv, JobExact
<1> QED
  BY <1>1, <1>2, <1>4, AsideStep DEF TypeOK

(* A step that changes neither the bytes of a file nor what is ready of it *)
(* keeps the invariant.                                                    *)
LEMMA SameFileStep ==
    ASSUME DataInv, NEW f \in Files, files[f] # None, NEW d \in Cache,
           d.size = files[f].size, d.load = files[f].load,
           d.data = files[f].data, d.len = files[f].len,
           d.pos = files[f].pos,
           d.lock # "kept" => files[f].lock # "kept",
           files' = [files EXCEPT ![f] = d],
           UNCHANGED <<cacheType, db, posted, open, loader, reader, patch,
                       crashed, aux>>,
           left' \in [Events -> Nat],
           job' = job \/ job' = None
    PROVE  DataInv'
<1>1. TypeOK /\ ReadersType /\ PatchType /\ FilesType /\ JobType
  BY TypeParts DEF DataInv
<1>2. /\ files'[f] = d /\ \A g \in Files \ {f} : files'[g] = files[g]
      /\ d # None
  BY <1>1, NoneIsNot DEF FilesType
<1>3. \A g \in Files :
        /\ files'[g] = None <=> files[g] = None
        /\ files'[g].size = files[g].size
        /\ files'[g].load = files[g].load
        /\ files'[g].data = files[g].data
        /\ files'[g].len = files[g].len
        /\ files'[g].pos = files[g].pos
        /\ files'[g].lock # "kept" => files[g].lock # "kept"
  BY <1>2
<1>4. files' \in [Files -> Cache \cup {None}]
  BY <1>1 DEF FilesType
<1>5. JobType' /\ JobInv'
  <2>1. CASE job' = None
    BY <2>1 DEF JobType, JobInv
  <2>2. CASE job' = job /\ job # None
    <3>1. job \in Job /\ job.file \in Files /\ files[job.file] # None
      BY <1>1, <2>2 DEF JobType, Job
    <3>2. JobType'
      BY <1>1, <1>3, <2>2, <3>1 DEF JobType
    <3>3. JobExact(cacheType, job, files[job.file], aux[job.file]) =>
            JobExact(cacheType, job, files'[job.file], aux[job.file])
      BY <1>3, <3>1 DEF JobExact, Complete
    <3> QED
      BY <2>2, <3>2, <3>3 DEF DataInv, JobInv
  <2> QED
    BY <2>1, <2>2
<1>6. TypeOK'
  BY <1>1, <1>3, <1>4, <1>5, NoneIsNot DEF TypeOK, Reader, Patch, JobType
<1>7. FilesInv' /\ NewestOpen'
  BY <1>1, <1>3 DEF DataInv, FilesInv, NewestOpen, Sound
<1>8. LoadersInv'
  <2>1. ASSUME NEW g \in Files PROVE LoaderAt(g)'
    <3>1. LoaderAt(g) /\ loader[g].target \in Files \cup {None}
      BY <1>1 DEF DataInv, LoadersInv, TypeOK, Loader
    <3> QED
      BY <1>3, <3>1 DEF LoaderAt, LoaderSound, Reach
  <2> QED
    BY <2>1 DEF LoadersInv
<1>9. ReadersInv'
  <2>1. ASSUME NEW r \in Readers
        PROVE  ReaderSound(cacheType, reader[r], files'[reader[r].file],
                           aux[reader[r].file])
    <3>1. ReaderSound(cacheType, reader[r], files[reader[r].file],
                      aux[reader[r].file])
      BY DEF DataInv, ReadersInv
    <3>2. reader[r].pc # "idle" => reader[r].file \in Files
      BY <1>1 DEF ReadersType, Reader
    <3> QED
      BY <1>3, <3>1, <3>2 DEF ReaderSound
  <2> QED
    BY <2>1 DEF ReadersInv
<1>10. PatchInv'
  <2>1. CASE patch # None
    <3>1. patch.file \in Files
      BY <1>1, <2>1 DEF PatchType, Patch
    <3> QED
      BY <1>3, <3>1 DEF DataInv, PatchInv, PatchSound
  <2>2. CASE patch = None
    BY <2>2 DEF PatchInv
  <2> QED
    BY <2>1, <2>2
<1> QED
  BY <1>5, <1>6, <1>7, <1>8, <1>9, <1>10 DEF DataInv

(* The file is no longer dirty, which none of its bytes shows.             *)
LEMMA UploadCleanStep ==
    ASSUME DataInv, UploadClean
    PROVE  DataInv'
<1> DEFINE f == job.file
           c == files[f]
           d == [c EXCEPT !.dirty = FALSE]
<1>1. /\ TypeOK /\ f \in Files /\ files[f] # None
      /\ UNCHANGED <<cacheType, db, posted, open, loader, reader, patch,
                     crashed, left, aux>>
      /\ job' = None
      /\ files' = [files EXCEPT ![f] = d]
  BY DEF DataInv, TypeOK, UploadClean, fsVars, Job
<1>2. c \in Cache
  BY <1>1, FileThere
<1>3. /\ d \in Cache /\ d.size = c.size /\ d.load = c.load
      /\ d.data = c.data /\ d.len = c.len /\ d.pos = c.pos
      /\ d.lock = c.lock
  BY <1>2 DEF Cache
<1>4. left' \in [Events -> Nat]
  BY <1>1 DEF TypeOK
<1> HIDE DEF d, f
<1> QED
  BY <1>1, <1>3, <1>4, SameFileStep

-----------------------------------------------------------------------------
(* Waiting behind a Read that has panicked, and the end of the process.    *)

(* Who begins to wait bars the lock and changes nothing else.              *)
LEMMA BarStep ==
    ASSUME DataInv, NEW f \in Files, files[f] # None, Bar(f),
           UNCHANGED <<fsVars, goVars, crashed, aux>>,
           left' \in [Events -> Nat]
    PROVE  DataInv'
<1> DEFINE c == files[f]
           d == [c EXCEPT !.lock = "barred"]
<1>1. TypeOK /\ c \in Cache
  BY FileThere DEF DataInv
<1>2. /\ d \in Cache /\ d.size = c.size /\ d.load = c.load
      /\ d.data = c.data /\ d.len = c.len /\ d.pos = c.pos
  BY <1>1 DEF Cache
<1>3. c.lock = "free" /\ files' = [files EXCEPT ![f] = d]
  BY DEF Bar, RLock
<1>4. "free" # "kept"
  OBVIOUS
<1>5. /\ UNCHANGED <<cacheType, db, posted, open, loader, reader, patch,
                     crashed, aux>>
      /\ job' = job
  BY DEF fsVars, goVars
<1> HIDE DEF d
<1> QED
  BY <1>2, <1>3, <1>4, <1>5, SameFileStep

(* A loader, a patch, and a Write or Truncate may be the one who waits.    *)
LEMMA WaitsStep ==
    ASSUME DataInv,
           (\E f \in Files : LoaderWaits(f)) \/ PatchWaits \/ WriterWaits
    PROVE  DataInv'
<1>1. TypeOK
  BY DEF DataInv
<1>2. ASSUME NEW f \in Files, LoaderWaits(f) PROVE DataInv'
  <2>1. loader[f].target \in Files /\ files[loader[f].target] # None
    BY <1>2, LoaderBlock DEF LoaderWaits
  <2>2. left' \in [Events -> Nat]
    BY <1>1, <1>2 DEF LoaderWaits, TypeOK
  <2> QED
    BY <1>2, <2>1, <2>2, BarStep DEF LoaderWaits
<1>3. CASE PatchWaits
  <2>1. patch.file \in Files /\ files[patch.file] # None
    BY <1>1, <1>3 DEF PatchWaits, TypeOK, Patch
  <2>2. left' \in [Events -> Nat]
    BY <1>1, <1>3 DEF PatchWaits, TypeOK
  <2> QED
    BY <1>3, <2>1, <2>2, BarStep DEF PatchWaits
<1>4. CASE WriterWaits
  <2>1. open \in Files /\ files[open] # None
    BY <1>1, <1>4 DEF WriterWaits, TypeOK
  <2>2. left' \in [Events -> Nat]
    BY <1>1, <1>4, SpendTyped DEF WriterWaits, Events
  <2> QED
    BY <1>4, <2>1, <2>2, BarStep DEF WriterWaits
<1> QED
  BY <1>2, <1>3, <1>4

(* Dying changes nothing that the next process will find.                  *)
LEMMA DyingStep ==
    ASSUME DataInv, (\E f \in Files : LoaderAborts(f)) \/ ApplyCutPanics
    PROVE  DataInv'
<1>1. TypeOK
  BY DEF DataInv
<1>2. left' \in [Events -> Nat]
  BY <1>1, SpendTyped DEF LoaderAborts, ApplyCutPanics, Events, TypeOK
<1>3. /\ UNCHANGED <<cacheType, db, posted, open, files, loader, reader, job,
                     patch, aux>>
      /\ crashed' \in BOOLEAN
  BY DEF LoaderAborts, ApplyCutPanics, fsVars, goVars
<1> QED
  BY <1>1, <1>2, <1>3, AsideStep DEF TypeOK

-----------------------------------------------------------------------------
(* Steps that share the lock of a file, and move its position.             *)

(* The rest of the invariant when Read or the upload moves the position.   *)
LEMMA MoveKeeps ==
    ASSUME DataInv, NEW f \in Files, files[f] # None, NEW d,
           Moved(cacheType, files[f], aux[f], d),
           files' = [files EXCEPT ![f] = d],
           UNCHANGED <<fsVars, loader, patch, crashed, aux>>,
           left' \in [Events -> Nat],
           reader' \in [Readers -> Reader],
           \A r \in Readers :
              \/ reader'[r] = Race(f)[r]
              \/ reader'[r].pc = "idle"
              \/ /\ reader'[r].file = f
                 /\ ReaderSound(cacheType, reader'[r], d, aux[f]),
           \/ job' = RaceJob(f)
           \/ /\ job' \in Job /\ job'.file = f /\ JobShape(job')
              /\ ~job'.torn => JobExact(cacheType, job', d, aux[f])
    PROVE  DataInv'
<1>1. /\ FilesType' /\ FilesInv' /\ NewestOpen' /\ LoadersInv'
      /\ PatchType' /\ PatchInv'
      /\ files'[f] = d
      /\ \A g \in Files : files'[g] = None <=> files[g] = None
      /\ \A r \in Readers :
                /\ Race(f)[r].pc = reader[r].pc
                /\ Race(f)[r].file = reader[r].file
                /\ reader[r].pc # "idle" =>
                    /\ reader[r].file # None
                    /\ files'[reader[r].file] # None
                /\ reader[r].pc # "idle" =>
                    ReaderSound(cacheType, Race(f)[r], files'[reader[r].file],
                                aux[reader[r].file])
      /\ job' = RaceJob(f) => JobType' /\ JobInv'
  <2>1. loader' = loader /\ patch' = patch /\ aux' = aux /\ UNCHANGED fsVars
    OBVIOUS
  <2> QED
    BY ONLY <2>1, DataInv, f \in Files, files[f] # None,
       Moved(cacheType, files[f], aux[f], d),
       files' = [files EXCEPT ![f] = d], MoveStep, ZenonT(60)
<1>2. /\ TypeOK
      /\ UNCHANGED <<cacheType, db, posted, open, loader, crashed, aux>>
  BY DEF DataInv, fsVars
<1>3. \A r \in Readers :
        /\ reader'[r].pc # "idle" =>
             reader'[r].file # None /\ files'[reader'[r].file] # None
        /\ ReaderSound(cacheType, reader'[r], files'[reader'[r].file],
                       aux[reader'[r].file])
  <2>1. f # None
    BY NoneIsNot
  <2> TAKE r \in Readers
  <2>2. CASE reader'[r].pc = "idle"
    BY <2>2 DEF ReaderSound
  <2>3. CASE reader'[r] = Race(f)[r] /\ reader'[r].pc # "idle"
    BY <1>1, <2>3
  <2>4. CASE /\ reader'[r].file = f
             /\ ReaderSound(cacheType, reader'[r], d, aux[f])
    BY <1>1, <2>1, <2>4
  <2> QED
    BY <2>2, <2>3, <2>4
<1>4. ReadersType' /\ ReadersInv'
  BY <1>2, <1>3 DEF ReadersType, ReadersInv
<1>5. JobType' /\ JobInv'
  <2>1. CASE /\ job' \in Job /\ job'.file = f /\ JobShape(job')
             /\ ~job'.torn => JobExact(cacheType, job', d, aux[f])
    BY <1>1, <1>2, <2>1 DEF JobType, JobInv
  <2> QED
    BY <1>1, <2>1
<1>6. TypeOK'
  BY <1>1, <1>2, <1>4, <1>5
     DEF TypeOK, FilesType, ReadersType, JobType, PatchType
<1> QED
  BY <1>1, <1>4, <1>5, <1>6 DEF DataInv

(* Race is a record of readers.                                            *)
LEMMA RaceTyped ==
    ASSUME TypeOK, NEW f \in Files
    PROVE  /\ Race(f) \in [Readers -> Reader]
           /\ DOMAIN Race(f) = Readers
<1>1. \A r \in Readers :
        /\ reader[r] \in Reader
        /\ [reader[r] EXCEPT !.raced = TRUE] \in Reader
  <2>1. TAKE r \in Readers
  <2>2. reader[r] \in Reader
    BY DEF TypeOK
  <2> QED
    BY ONLY <2>2 DEF Reader
<1>2. \A r \in Readers :
        (IF r \in Sharing(f) THEN [reader[r] EXCEPT !.raced = TRUE]
         ELSE reader[r]) \in Reader
  BY <1>1, Zenon
<1> QED
  BY <1>2, Zenon DEF Race

-----------------------------------------------------------------------------
(* The upload's two steps for each block.                                  *)

(* What the upload knows before it reads a block.                          *)
LEMMA JobThere ==
    ASSUME DataInv, job # None
    PROVE  /\ job \in Job /\ job.file \in Files /\ files[job.file] # None
           /\ job.idx \in Nat /\ job.end \in Nat /\ job.n \in Nat
           /\ job.size \in Nat /\ job.idx * BlockSize \in Nat
           /\ job.blocks \in Seq(Seq(Byte)) /\ Len(job.blocks) \in Nat
           /\ JobShape(job)
           /\ ~job.torn => JobExact(cacheType, job, files[job.file],
                                    aux[job.file])
           /\ job.pc \in {"seek", "copy"} =>
                job.idx * BlockSize + BlockSize <= MaxSize
<1>1. job \in Job /\ job.file \in Files /\ files[job.file] # None
  BY DEF DataInv, TypeOK, Job
<1>2. /\ job.idx \in Nat /\ job.end \in Nat /\ job.n \in Nat
      /\ job.size \in Nat /\ job.idx * BlockSize \in Nat
      /\ job.blocks \in Seq(Seq(Byte)) /\ Len(job.blocks) \in Nat
  BY <1>1, FileDataConstants, SMT DEF Job
<1>3. /\ JobShape(job)
      /\ ~job.torn => JobExact(cacheType, job, files[job.file],
                               aux[job.file])
  BY DEF DataInv, JobInv
<1>4. ASSUME job.pc \in {"seek", "copy"}
      PROVE  job.idx * BlockSize + BlockSize <= MaxSize
  <2>1. job.idx < job.end /\ job.end <= Blocks(MaxSize)
    BY <1>3, <1>4 DEF JobShape
  <2>2. Blocks(MaxSize) \in Nat
    BY BlocksBegin, FileDataConstants
  <2>3. job.idx < Blocks(MaxSize)
    BY <1>2, <2>1, <2>2, SMT
  <2> QED
    BY <1>2, <2>3, BlockFits
<1> QED
  BY <1>1, <1>2, <1>3, <1>4

(* One block further.                                                      *)
LEMMA NextBlockFields ==
    ASSUME NEW j \in Job
    PROVE  LET k == NextBlock(j) IN
           /\ k \in Job /\ k.file = j.file /\ k.size = j.size
           /\ k.idx = j.idx + 1 /\ k.end = j.end /\ k.n = 0
           /\ k.pc = IF j.idx + 1 = j.end THEN "tx" ELSE "seek"
           /\ k.blocks = j.blocks /\ k.torn = j.torn /\ k.raced = j.raced
           /\ k.bad = j.bad
<1> DEFINE i == j.idx + 1
           pc == IF j.idx + 1 = j.end THEN "tx" ELSE "seek"
<1>1. i \in Nat /\ 0 \in 0..BlockSize
  BY FileDataConstants, SMT DEF Job
<1>2. pc \in {"tx", "seek"}
  OBVIOUS
<1>3. NextBlock(j) = [j EXCEPT !.idx = i, !.n = 0, !.pc = pc]
  BY DEF NextBlock
<1> HIDE DEF i, pc
<1>4. LET k == [j EXCEPT !.idx = i, !.n = 0, !.pc = pc] IN
      /\ k \in Job /\ k.file = j.file /\ k.size = j.size
      /\ k.idx = i /\ k.end = j.end /\ k.n = 0 /\ k.pc = pc
      /\ k.blocks = j.blocks /\ k.torn = j.torn /\ k.raced = j.raced
      /\ k.bad = j.bad
  BY <1>1, <1>2 DEF Job
<1> QED
  BY <1>3, <1>4 DEF i, pc

(* The upload passes over a block beyond the end only when it was torn.    *)
(* An upload finds its file cut below the next block only if it was torn.  *)
LEMMA SkipTorn ==
    ASSUME DataInv, job # None, job.pc = "seek",
           job.idx * BlockSize > files[job.file].size
    PROVE  job.torn
<1> SUFFICES ASSUME ~job.torn PROVE FALSE
  OBVIOUS
<1>1. /\ job.idx \in Nat /\ job.size \in Nat /\ job.idx * BlockSize \in Nat
      /\ JobShape(job)
      /\ JobExact(cacheType, job, files[job.file], aux[job.file])
  BY JobThere
<1>2. job.size = files[job.file].size /\ job.end = Blocks(job.size)
  BY <1>1 DEF JobExact, Complete
<1>3. job.idx < job.end
  BY <1>1 DEF JobShape
<1>4. job.idx * BlockSize < job.size
  BY <1>1, <1>2, <1>3, BlocksBegin
<1> QED
  BY <1>1, <1>2, <1>4, SMT

(* UploadSeek keeps the invariant when it passes over a block.             *)
LEMMA UploadSkipStep ==
    ASSUME DataInv, job # None, job.pc = "seek",
           job.idx * BlockSize > files[job.file].size,
           job' = NextBlock(job),
           UNCHANGED <<fsVars, files, reader, loader, patch, crashed, left,
                       aux>>
    PROVE  DataInv'
<1> DEFINE c == files[job.file]
<1>1. /\ job \in Job /\ job.file \in Files /\ files[job.file] # None
      /\ job.idx \in Nat /\ job.end \in Nat /\ job.size \in Nat
      /\ job.idx * BlockSize \in Nat /\ Len(job.blocks) \in Nat
      /\ JobShape(job)
      /\ ~job.torn => JobExact(cacheType, job, c, aux[job.file])
  BY JobThere
<1>2. job.torn
  BY SkipTorn
<1>3. /\ job' \in Job /\ job'.file = job.file
      /\ job'.idx = job.idx + 1 /\ job'.end = job.end
      /\ job'.pc = IF job.idx + 1 = job.end THEN "tx" ELSE "seek"
      /\ job'.blocks = job.blocks /\ job'.torn = job.torn
  BY <1>1, NextBlockFields
<1>4. JobShape(job')
  <2>1. Len(job.blocks) <= job.idx + 1
    BY <1>1, SMT DEF JobShape
  <2>2. job'.pc \in {"seek", "copy"} =>
           job'.idx < job'.end /\ job'.end <= Blocks(MaxSize)
    BY <1>1, <1>3, SMT DEF JobShape
  <2>3. job'.pc # "count"
    BY <1>3
  <2> QED
    BY <1>1, <1>3, <2>1, <2>2, <2>3 DEF JobShape
<1>5. /\ TypeOK
      /\ UNCHANGED <<cacheType, db, posted, open, files, loader, reader,
                     patch, crashed, left, aux>>
  BY DEF DataInv, fsVars
<1>6. JobType' /\ JobInv'
  BY <1>1, <1>2, <1>3, <1>4, <1>5, NoneIsNot DEF JobType, JobInv
<1> QED
  BY <1>5, <1>6, AsideStep DEF TypeOK

(* UploadSeek keeps the invariant.                                         *)
LEMMA UploadSeekStep ==
    ASSUME DataInv, UploadSeek
    PROVE  DataInv'
<1> DEFINE f == job.file
           c == files[f]
           ofst == job.idx * BlockSize
           n == Min2(BlockSize, c.size - ofst)
           d == Seek(c, ofst)
<1>1. /\ job # None /\ job.pc = "seek"
      /\ UNCHANGED <<fsVars, loader, patch, crashed, left, aux>>
  BY DEF UploadSeek
<1>2. /\ job \in Job /\ job.file \in Files /\ files[job.file] # None
      /\ ofst \in Nat /\ JobShape(job)
      /\ ~job.torn => JobExact(cacheType, job, c, aux[f])
  BY <1>1, JobThere
<1>3. CASE /\ ofst > c.size
           /\ job' = NextBlock(job)
           /\ UNCHANGED <<files, reader>>
  BY <1>1, <1>3, UploadSkipStep
<1>4. CASE /\ ofst <= c.size
           /\ job' = [job EXCEPT !.pc = "copy", !.n = n]
           /\ files' = [files EXCEPT ![f] = d]
           /\ reader' = Race(f)
  <2>1. TypeOK /\ c \in Cache /\ aux[f] \in History
        /\ Sound(cacheType, c, aux[f])
    BY <1>2, FileThere DEF DataInv, FilesInv
  <2>2. /\ Moved(cacheType, c, aux[f], d)
        /\ cacheType = "disk" => d.pos = ofst
    BY <1>2, <2>1, SeekMoves
  <2>3. n \in 0..BlockSize
    <3>1. c.size \in Nat
      BY <2>1, FileDataConstants, SMT DEF Cache
    <3> QED
      BY <1>2, <1>4, <3>1, FileDataConstants, SMT DEF Min2
  <2>4. d.size = c.size
    BY <2>2 DEF Moved
  <2> HIDE DEF n, d
  <2>5. /\ job' \in Job /\ job'.file = f /\ job'.pc = "copy" /\ job'.n = n
        /\ job'.size = job.size /\ job'.idx = job.idx /\ job'.end = job.end
        /\ job'.blocks = job.blocks /\ job'.torn = job.torn
        /\ job'.raced = job.raced /\ job'.bad = job.bad
    BY <1>2, <1>4, <2>3 DEF Job
  <2>6. JobShape(job')
    BY <1>1, <1>2, <2>5 DEF JobShape
  <2>7. ASSUME ~job'.torn
        PROVE  JobExact(cacheType, job', d, aux[f])
    <3>1. Complete(job, c, aux[f])
      BY <1>1, <1>2, <2>5, <2>7 DEF JobExact
    <3>2. Complete(job', d, aux[f])
      BY <2>4, <2>5, <3>1 DEF Complete, Gathered
    <3>3. job'.n = Min2(BlockSize, job'.size - job'.idx * BlockSize)
      BY <2>5, <3>1 DEF Complete, n
    <3> QED
      BY <2>2, <2>5, <3>2, <3>3 DEF JobExact
  <2>8. reader' \in [Readers -> Reader]
        /\ \A r \in Readers : reader'[r] = Race(f)[r]
    BY <1>2, <1>4, <2>1, RaceTyped
  <2>9. left' \in [Events -> Nat]
    BY <1>1, <2>1 DEF TypeOK
  <2> HIDE DEF f, c, ofst
  <2> QED
    BY <1>1, <1>2, <1>4, <2>2, <2>5, <2>6, <2>7, <2>8, <2>9, MoveKeeps
       DEF f, c
<1> QED
  BY <1>1, <1>3, <1>4 DEF UploadSeek

(* What a read of n bytes returns: never more than there is; all of them,  *)
(* and the right ones, if the position is the one it has been moved to.    *)
LEMMA ReadRangeFields ==
    ASSUME NEW c \in Cache, NEW ofst \in Nat, NEW n \in Int,
           cacheType \in {"memory", "disk"}, n <= 0 \/ ofst + n <= MaxSize
    PROVE  LET got == ReadRange(c, ofst, n) IN
           /\ got \in Seq(Byte) /\ Len(got) \in Nat
           /\ /\ 0 <= n /\ ofst + n <= c.len
              /\ cacheType = "disk" => c.pos = ofst
              => /\ Len(got) = n
                 /\ \A k \in 1..n : got[k] = c.data[ofst + k - 1]
<1> DEFINE start == IF cacheType = "disk" THEN c.pos ELSE ofst
           m == Min2(n, c.len - start)
           e == Max2(0, m)
           got == ReadRange(c, ofst, n)
<1>1. /\ c.data \in [Offsets -> Byte] /\ c.pos \in Nat
      /\ c.len \in Nat /\ c.len <= MaxSize /\ MaxSize \in Nat
  BY FileDataConstants, SMT DEF Cache
<1>2. start \in Nat
  BY <1>1
<1>3. m \in Int /\ e \in Nat /\ 1..m = 1..e
  <2> HIDE DEF start
  <2>1. m \in Int
    BY <1>1, <1>2, SMT DEF Min2
  <2> HIDE DEF m
  <2> QED
    BY <2>1, SMT DEF Max2
<1>4. got = [k \in 1..e |-> c.data[start + k - 1]]
  BY <1>3 DEF ReadRange
<1>5. \A k \in 1..e : start + k - 1 \in Offsets
  <2>1. CASE cacheType = "disk"
    <3>1. start = c.pos
      BY <2>1
    <3> HIDE DEF start
    <3> QED
      BY <1>1, <1>2, <3>1, SMTT(60) DEF e, m, Max2, Min2, Offsets
  <2>2. CASE cacheType # "disk"
    <3>1. start = ofst
      BY <2>2
    <3> HIDE DEF start
    <3> QED
      BY <1>1, <1>2, <3>1, SMT DEF e, m, Max2, Min2, Offsets
  <2> QED
    BY <2>1, <2>2
<1>6. \A k \in 1..e : c.data[start + k - 1] \in Byte
  BY <1>1, <1>5
<1>7. ASSUME 0 <= n, ofst + n <= c.len, cacheType = "disk" => c.pos = ofst
      PROVE  e = n /\ start = ofst
  <2>1. start = ofst
    BY <1>7
  <2> HIDE DEF start
  <2> QED
    BY <1>1, <1>7, <2>1, SMT DEF e, m, Max2, Min2
<1> HIDE DEF start, m, e, got
<1>8. got \in Seq(Byte) /\ Len(got) = e
  BY <1>3, <1>4, <1>6, SMT
<1>9. \A k \in 1..e : got[k] = c.data[start + k - 1]
  BY <1>4
<1> QED
  BY <1>3, <1>7, <1>8, <1>9 DEF got

(* The block that the upload reads, as it adds it to what it has.          *)
CopyBuf(c, ofst, n) ==
    LET got == ReadRange(c, ofst, n) IN
    [k \in 1..n |-> IF k <= Len(got) THEN got[k] ELSE Zero]
CopyBad(c, a, ofst, n) ==
    {o \in Span(ofst, n) : o \notin Ready(c.load) \/ o \in a.spoilt}
Sent(j, c, a) ==
    [NextBlock(j) EXCEPT
        !.blocks = Append(@, CopyBuf(c, j.idx * BlockSize, j.n)),
        !.bad = @ \cup CopyBad(c, a, j.idx * BlockSize, j.n)]

(* The upload after a block has been sent, field by field.                 *)
LEMMA SentFields ==
    ASSUME NEW j \in Job, NEW c \in Cache, NEW a,
           cacheType \in {"memory", "disk"},
           j.idx * BlockSize + BlockSize <= MaxSize
    PROVE  LET k == Sent(j, c, a)
               buf == CopyBuf(c, j.idx * BlockSize, j.n) IN
           /\ buf \in Seq(Byte) /\ Len(buf) = j.n
           /\ k \in Job /\ k.file = j.file /\ k.size = j.size
           /\ k.idx = j.idx + 1 /\ k.end = j.end
           /\ k.pc = IF j.idx + 1 = j.end THEN "tx" ELSE "seek"
           /\ k.torn = j.torn /\ k.raced = j.raced
           /\ k.blocks = Append(j.blocks, buf)
           /\ k.bad = j.bad \cup CopyBad(c, a, j.idx * BlockSize, j.n)
<1> DEFINE ofst == j.idx * BlockSize
           n == j.n
           got == ReadRange(c, ofst, n)
           buf == CopyBuf(c, ofst, n)
           bad == CopyBad(c, a, ofst, n)
<1>1. /\ ofst \in Nat /\ n \in Nat /\ n <= BlockSize /\ ofst + n <= MaxSize
      /\ n \in Int
  BY FileDataConstants, SMT DEF Job
<1>2. got \in Seq(Byte) /\ Len(got) \in Nat
  BY <1>1, ReadRangeFields
<1>3. buf \in Seq(Byte) /\ Len(buf) = n
  <2>1. \A k \in 1..n : (IF k <= Len(got) THEN got[k] ELSE Zero) \in Byte
    <3>1. \A k \in 1..n : k <= Len(got) => k \in 1..Len(got)
      BY <1>1, <1>2, SMT
    <3>2. \A k \in 1..Len(got) : got[k] \in Byte
      BY <1>2, SMT
    <3> QED
      BY <3>1, <3>2, OffsetsNat
  <2>2. buf = [k \in 1..n |-> IF k <= Len(got) THEN got[k] ELSE Zero]
    BY DEF CopyBuf
  <2> HIDE DEF buf, got, n
  <2> QED
    BY <1>1, <2>1, <2>2, SMT
<1>4. bad \in SUBSET Nat
  BY <1>1, SMT DEF CopyBad, Span
<1> DEFINE next == NextBlock(j)
           blocks == Append(j.blocks, buf)
           all == j.bad \cup bad
<1>5. /\ next \in Job /\ next.file = j.file /\ next.size = j.size
      /\ next.idx = j.idx + 1 /\ next.end = j.end
      /\ next.pc = IF j.idx + 1 = j.end THEN "tx" ELSE "seek"
      /\ next.blocks = j.blocks /\ next.torn = j.torn /\ next.raced = j.raced
      /\ next.bad = j.bad
  BY NextBlockFields
<1>6. blocks \in Seq(Seq(Byte))
  <2>1. j.blocks \in Seq(Seq(Byte))
    BY DEF Job
  <2> HIDE DEF buf
  <2> QED
    BY <1>3, <2>1
<1>7. all \in SUBSET Nat
  BY <1>4 DEF Job
<1>8. Sent(j, c, a) = [next EXCEPT !.blocks = blocks, !.bad = all]
  BY <1>5 DEF Sent
<1> HIDE DEF next, blocks, all, buf, bad
<1>9. LET k == [next EXCEPT !.blocks = blocks, !.bad = all] IN
      /\ k \in Job /\ k.file = next.file /\ k.size = next.size
      /\ k.idx = next.idx /\ k.end = next.end
      /\ k.pc = next.pc /\ k.torn = next.torn /\ k.raced = next.raced
      /\ k.blocks = blocks /\ k.bad = all
  BY <1>5, <1>6, <1>7 DEF Job
<1> QED
  BY <1>3, <1>5, <1>8, <1>9 DEF blocks, all, buf, bad, ofst, n

(* A sound file's block is what the upload should send, or is known to be  *)
(* wrong.                                                                  *)
LEMMA SentShape ==
    ASSUME NEW j \in Job, NEW c \in Cache, NEW a,
           cacheType \in {"memory", "disk"},
           j.idx * BlockSize + BlockSize <= MaxSize,
           JobShape(j), j.pc = "copy"
    PROVE  JobShape(Sent(j, c, a))
<1> DEFINE k == Sent(j, c, a)
           buf == CopyBuf(c, j.idx * BlockSize, j.n)
<1>1. /\ k.idx = j.idx + 1 /\ k.end = j.end
      /\ k.pc = IF j.idx + 1 = j.end THEN "tx" ELSE "seek"
      /\ k.blocks = Append(j.blocks, buf) /\ buf \in Seq(Byte)
      /\ Len(buf) = j.n
  BY SentFields
<1>2. /\ j.blocks \in Seq(Seq(Byte)) /\ j.idx \in Nat /\ j.end \in Nat
      /\ j.n <= BlockSize /\ Blocks(MaxSize) \in Nat /\ Len(j.blocks) \in Nat
  BY BlocksBegin, FileDataConstants, SMT DEF Job
<1> HIDE DEF k, buf
<1>3. /\ Len(k.blocks) = Len(j.blocks) + 1
      /\ \A i \in DOMAIN k.blocks :
            \/ i \in DOMAIN j.blocks /\ k.blocks[i] = j.blocks[i]
            \/ k.blocks[i] = buf
  BY <1>1, <1>2
<1>4. /\ Len(j.blocks) <= j.idx /\ j.idx < j.end /\ j.end <= Blocks(MaxSize)
      /\ \A i \in DOMAIN j.blocks : Len(j.blocks[i]) <= BlockSize
  BY DEF JobShape
<1>5. /\ Len(k.blocks) <= k.idx /\ Len(k.blocks) <= Blocks(MaxSize)
      /\ k.pc = "seek" => k.idx < k.end /\ k.end <= Blocks(MaxSize)
  BY <1>1, <1>2, <1>3, <1>4, SMT
<1>6. \A i \in DOMAIN k.blocks : Len(k.blocks[i]) <= BlockSize
  BY <1>1, <1>2, <1>3, <1>4
<1>7. k.pc # "count" /\ k.pc # "copy"
  BY <1>1
<1>8. JobShape(k)
  BY <1>5, <1>6, <1>7 DEF JobShape
<1> QED
  BY <1>8 DEF k

(* An upload that had gathered the blocks before this one has gathered     *)
(* this one too.                                                           *)
LEMMA SentComplete ==
    ASSUME NEW j \in Job, NEW c \in Cache, NEW a \in History,
           cacheType \in {"memory", "disk"}, Sound(cacheType, c, a),
           j.idx * BlockSize + BlockSize <= MaxSize,
           JobExact(cacheType, j, c, a), j.pc = "copy"
    PROVE  Complete(Sent(j, c, a), c, a)
<1> DEFINE k == Sent(j, c, a)
           ofst == j.idx * BlockSize
           n == j.n
           buf == CopyBuf(c, ofst, n)
<1>1. /\ k.idx = j.idx + 1 /\ k.end = j.end /\ k.size = j.size
      /\ k.raced = j.raced
      /\ k.blocks = Append(j.blocks, buf)
      /\ k.bad = j.bad \cup CopyBad(c, a, ofst, n)
      /\ buf \in Seq(Byte) /\ Len(buf) = n
  BY SentFields
<1>2. /\ j.blocks \in Seq(Seq(Byte)) /\ j.idx \in Nat /\ ofst \in Nat
      /\ n \in Nat /\ j.size \in Nat /\ Len(j.blocks) \in Nat
      /\ BlockSize \in Nat /\ c.size \in Nat /\ c.len \in Nat
      /\ c.size <= MaxSize /\ n <= BlockSize
  BY FileDataConstants, SMT DEF Job, Cache
<1>3. Complete(j, c, a)
  BY DEF JobExact
<1>4. /\ n = Min2(BlockSize, j.size - ofst) /\ j.size = c.size
      /\ Len(j.blocks) = j.idx
  BY <1>3 DEF JobExact, Complete
<1> HIDE DEF k, buf, ofst, n
<1>5. /\ Len(k.blocks) = j.idx + 1
      /\ \A i \in DOMAIN k.blocks :
           \/ i \in DOMAIN j.blocks /\ k.blocks[i] = j.blocks[i]
           \/ i = j.idx + 1 /\ k.blocks[i] = buf
  <2>1. k.blocks = Append(j.blocks, buf) /\ buf \in Seq(Byte)
    BY <1>1
  <2>2. /\ Len(k.blocks) = Len(j.blocks) + 1
        /\ \A i \in DOMAIN k.blocks :
             \/ i \in DOMAIN j.blocks /\ k.blocks[i] = j.blocks[i]
             \/ i = Len(j.blocks) + 1 /\ k.blocks[i] = buf
    BY ONLY <1>2, <2>1, SMT
  <2> QED
    BY <1>4, <2>2
<1>6. \A i \in DOMAIN k.blocks :
        Len(k.blocks[i]) = Min2(BlockSize, k.size - (i - 1) * BlockSize)
  <2> TAKE i \in DOMAIN k.blocks
  <2>1. CASE i \in DOMAIN j.blocks /\ k.blocks[i] = j.blocks[i]
    BY <1>1, <1>3, <2>1 DEF Complete
  <2>2. CASE i = j.idx + 1 /\ k.blocks[i] = buf
    <3>1. i - 1 = j.idx
      BY <1>2, <2>2, SMT
    <3> QED
      BY <1>1, <1>4, <2>2, <3>1 DEF ofst
  <2> QED
    BY <1>5, <2>1, <2>2
<1>7. ASSUME ~k.raced
      PROVE  Gathered(k, a)
  <2>1. cacheType = "disk" => c.pos = ofst
    BY <1>1, <1>7 DEF JobExact, ofst
  <2>2. ofst + n <= c.size /\ ofst + n <= c.len /\ 0 <= n /\ n \in Int
        /\ ofst + n <= MaxSize
    <3>1. c.size <= c.len /\ n \in Int /\ n <= c.size - ofst
      BY <1>2, <1>4, MaxMin DEF Sound
    <3>2. MaxSize \in Nat
      BY FileDataConstants
    <3> QED
      BY ONLY <1>2, <3>1, <3>2, SMT
  <2>3. LET got == ReadRange(c, ofst, n) IN
        Len(got) = n /\ \A m \in 1..n : got[m] = c.data[ofst + m - 1]
    BY <1>2, <2>1, <2>2, ReadRangeFields
  <2>4. \A m \in 1..n : buf[m] = c.data[ofst + m - 1]
    <3> DEFINE got == ReadRange(c, ofst, n)
    <3>1. buf = [m \in 1..n |-> IF m <= Len(got) THEN got[m] ELSE Zero]
      BY DEF buf, CopyBuf
    <3>2. \A m \in 1..n : m <= n
      BY <1>2, SMT
    <3> QED
      BY <2>3, <3>1, <3>2
  <2>5. ASSUME NEW m \in 1..n
        PROVE  \/ buf[m] = a.ideal[ofst + m - 1]
               \/ ofst + m - 1 \in k.bad
    <3>1. ofst + m - 1 \in Span(ofst, n) /\ ofst + m - 1 < c.size
      BY <1>2, <2>2, SMT DEF Span
    <3>2. CASE ofst + m - 1 \in Ready(c.load)
      BY <1>1, <2>4, <3>1, <3>2 DEF Sound, CopyBad
    <3>3. CASE ofst + m - 1 \notin Ready(c.load)
      BY <1>1, <3>1, <3>3 DEF CopyBad
    <3> QED
      BY <3>2, <3>3
  <2>6. ASSUME NEW i \in DOMAIN k.blocks, NEW m \in DOMAIN k.blocks[i]
        PROVE  \/ k.blocks[i][m] = a.ideal[(i - 1) * BlockSize + m - 1]
               \/ (i - 1) * BlockSize + m - 1 \in k.bad
    <3>1. CASE i \in DOMAIN j.blocks /\ k.blocks[i] = j.blocks[i]
      BY <1>1, <1>3, <1>7, <2>6, <3>1 DEF Complete, Gathered
    <3>2. CASE i = j.idx + 1 /\ k.blocks[i] = buf
      <4>1. (i - 1) * BlockSize = ofst
        <5>1. i - 1 = j.idx
          BY <1>2, <3>2, SMT
        <5> QED
          BY <5>1 DEF ofst
      <4>2. m \in 1..n
        BY <1>1, <2>6, <3>2, SMT
      <4> QED
        BY <2>5, <3>2, <4>1, <4>2
    <3> QED
      BY <1>5, <3>1, <3>2
  <2> QED
    BY <2>6 DEF Gathered
<1>8. Complete(k, c, a)
  BY <1>1, <1>3, <1>5, <1>6, <1>7 DEF Complete
<1> QED
  BY <1>8 DEF k

(* UploadCopy keeps the invariant.                                         *)
LEMMA UploadCopyStep ==
    ASSUME DataInv, UploadCopy
    PROVE  DataInv'
<1> DEFINE f == job.file
           c == files[f]
           a == aux[f]
           ofst == job.idx * BlockSize
           got == ReadRange(c, ofst, job.n)
           d == Advance(c, Len(got), Sharing(f) = {})
<1>1. /\ job # None /\ job.pc = "copy" /\ reader' = Race(f)
      /\ UNCHANGED <<fsVars, loader, patch, crashed, aux>>
  BY DEF UploadCopy
<1>2. /\ job \in Job /\ f \in Files /\ files[f] # None
      /\ ofst \in Nat /\ JobShape(job) /\ job.n \in Nat
      /\ ofst + BlockSize <= MaxSize
      /\ ~job.torn => JobExact(cacheType, job, c, a)
  BY <1>1, JobThere
<1>3. TypeOK /\ c \in Cache /\ a \in History /\ Sound(cacheType, c, a)
      /\ cacheType \in {"memory", "disk"}
  BY <1>2, FileThere DEF DataInv, FilesInv
<1>4. job.n \in Int /\ ofst + job.n <= MaxSize
  BY <1>2, FileDataConstants, SMT DEF Job
<1>5. Len(got) \in Nat
  BY <1>2, <1>3, <1>4, ReadRangeFields, SMTT(30)
<1>6. Moved(cacheType, c, a, d)
  BY <1>3, <1>5, AdvanceMoves
<1>7. /\ \/ job' = Sent(job, c, a) /\ UNCHANGED left
         \/ Spend("fault") /\ job' = [job EXCEPT !.pc = "clean"]
      /\ files' = [files EXCEPT ![f] = d]
  <2>1. files' = [files EXCEPT ![f] = d]
    BY <1>2, <1>3 DEF UploadCopy, TypeOK
  <2>2. \/ job' = Sent(job, c, a) /\ UNCHANGED left
        \/ Spend("fault") /\ job' = [job EXCEPT !.pc = "clean"]
    BY DEF UploadCopy, Sent, CopyBuf, CopyBad
  <2> QED
    BY <2>1, <2>2
<1> HIDE DEF d, got
<1>8. left' \in [Events -> Nat]
  BY <1>3, <1>7, SpendTyped DEF TypeOK, Events
<1>9. /\ job' \in Job /\ job'.file = f /\ JobShape(job')
      /\ ~job'.torn => JobExact(cacheType, job', d, a)
  <2>1. CASE job' = Sent(job, c, a)
    <3>1. /\ job' \in Job /\ job'.file = f /\ job'.torn = job.torn
          /\ job'.pc \in {"tx", "seek"}
      BY <1>2, <1>3, <2>1, SentFields
    <3>2. JobShape(job')
      BY <1>1, <1>2, <1>3, <2>1, SentShape
    <3>3. ASSUME ~job'.torn
          PROVE  JobExact(cacheType, job', d, a)
      <4>1. Complete(job', c, a)
        BY <1>1, <1>2, <1>3, <2>1, <3>1, <3>3, SentComplete
      <4>2. d.size = c.size
        BY <1>6 DEF Moved
      <4>3. Complete(job', d, a)
        BY <4>1, <4>2 DEF Complete
      <4> QED
        BY <3>1, <4>3 DEF JobExact
    <3> QED
      BY <3>1, <3>2, <3>3
  <2>2. CASE job' = [job EXCEPT !.pc = "clean"]
    <3>1. job' \in Job /\ job'.file = f /\ JobShape(job') /\ job'.pc = "clean"
      BY <1>2, <2>2, JobEnds
    <3> QED
      BY <3>1 DEF JobExact
  <2> QED
    BY <1>7, <2>1, <2>2
<1>10. reader' \in [Readers -> Reader]
       /\ \A r \in Readers : reader'[r] = Race(f)[r]
  BY <1>1, <1>2, <1>3, RaceTyped
<1> HIDE DEF f, c, a, ofst
<1> QED
  BY <1>1, <1>2, <1>6, <1>7, <1>8, <1>9, <1>10, MoveKeeps DEF c, a

-----------------------------------------------------------------------------
(* Read.                                                                   *)

(* A set of naturals that is not empty has a least element.                *)
LEMMA LeastNat ==
    ASSUME NEW T \in SUBSET Nat, T # {}
    PROVE  \E n \in T : \A m \in T : n <= m
<1>1. PICK x \in T : \A y \in T : ~(<<y, x>> \in OpToRel(<, Nat))
  BY NatLessThanWellFounded, WFMin
<1>2. \A y \in T : ~(y < x)
  BY <1>1, Zenon DEF OpToRel
<1>3. \A y \in T : x <= y
  BY <1>2
<1> QED
  BY <1>3

(* The bytes that are ready from an offset on can be counted.              *)
LEMMA BytesReady ==
    ASSUME NEW ready \in SUBSET Nat, NEW ofst \in Nat,
           \A o \in ready : o < 2 * MaxSize
    PROVE  LET n == bytesReady(ready, ofst) IN
           /\ n \in Nat
           /\ Span(ofst, n) \subseteq ready /\ ofst + n \notin ready
<1> DEFINE T == {n \in Nat : ofst + n \notin ready}
<1>0. MaxSize \in Nat /\ 2 * MaxSize + 1 \in Nat
  BY FileDataConstants, SMT
<1>1. 2 * MaxSize \in T
  <2>1. 2 * MaxSize \in Nat /\ ofst + 2 * MaxSize \in Nat
        /\ ~(ofst + 2 * MaxSize < 2 * MaxSize)
    BY <1>0, SMT
  <2> QED
    BY <2>1
<1>2. PICK n \in T : \A m \in T : n <= m
  BY <1>1, LeastNat
<1>3. n \in 0..(2 * MaxSize + 1)
  <2>1. n \in Nat /\ n <= 2 * MaxSize
    BY <1>1, <1>2
  <2> QED
    BY <1>0, <2>1, SMT
<1>4. Span(ofst, n) \subseteq ready
  <2>1. SUFFICES ASSUME NEW o \in Span(ofst, n), o \notin ready
                 PROVE  FALSE
    OBVIOUS
  <2>2. o - ofst \in Nat /\ o - ofst < n /\ ofst + (o - ofst) = o
    BY <1>3, SMT DEF Span
  <2>3. o - ofst \in T
    BY <2>1, <2>2
  <2>4. n <= o - ofst
    BY <1>2, <2>3
  <2> QED
    BY <1>3, <2>2, <2>4, SMT
<1>5. ofst + n \notin ready
  BY <1>2
<1> DEFINE m == bytesReady(ready, ofst)
<1>6. /\ m \in 0..(2 * MaxSize + 1)
      /\ Span(ofst, m) \subseteq ready /\ ofst + m \notin ready
  BY <1>3, <1>4, <1>5, Zenon DEF bytesReady
<1>7. m \in Nat
  BY <1>0, <1>6, SMT
<1> QED
  BY <1>6, <1>7

(* ReadCall keeps the invariant.                                           *)
LEMMA ReadCallStep ==
    ASSUME DataInv, NEW r \in Readers, NEW x \in ReadExtents,
           ReadCall(r, x[1], x[2])
    PROVE  DataInv'
<1> DEFINE y == [pc |-> "poll", file |-> open, ofst |-> x[1], len |-> x[2],
                 retries |-> 0, raced |-> FALSE]
<1>1. /\ TypeOK /\ open \in Files /\ files[open] # None
      /\ UNCHANGED <<cacheType, db, posted, open, files, loader, job, patch,
                     crashed, aux>>
      /\ reader' = [reader EXCEPT ![r] = y]
  BY DEF DataInv, TypeOK, ReadCall, fsVars
<1>2. left' \in [Events -> Nat]
  BY <1>1, SpendTyped DEF ReadCall, Events
<1>3. x[1] \in Nat /\ x[2] \in Int /\ 0 < x[2] /\ 0 \in Nat
  BY FileDataConstants, SMT
<1>4. /\ y \in Reader /\ y.pc = "poll" /\ y.file = open /\ y.len = x[2]
  BY <1>1, <1>3 DEF Reader
<1> HIDE DEF y
<1>5. /\ reader' \in [Readers -> Reader] /\ reader'[r] = y
      /\ \A q \in Readers \ {r} : reader'[q] = reader[q]
  BY <1>1, <1>4 DEF TypeOK
<1>6. ReadersType'
  BY <1>1, <1>4, <1>5, NoneIsNot DEF TypeOK, ReadersType
<1>7. ReadersInv'
  <2>1. \A q \in Readers : ReaderSound(cacheType, reader'[q],
                               files[reader'[q].file], aux[reader'[q].file])
    BY <1>3, <1>4, <1>5 DEF DataInv, ReadersInv, ReaderSound
  <2> QED
    BY <1>1, <2>1 DEF ReadersInv
<1> QED
  BY <1>1, <1>2, <1>6, <1>7, AsideStep DEF TypeOK

(* What a Read that is under way rests on.                                 *)
LEMMA ReaderThere ==
    ASSUME DataInv, NEW r \in Readers, reader[r].pc # "idle"
    PROVE  /\ reader[r] \in Reader /\ reader[r].ofst \in Nat
           /\ reader[r].len \in Int
           /\ reader[r].file \in Files /\ files[reader[r].file] # None
           /\ files[reader[r].file] \in Cache
           /\ aux[reader[r].file] \in History
           /\ cacheType \in {"memory", "disk"}
           /\ Sound(cacheType, files[reader[r].file], aux[reader[r].file])
           /\ ReaderSound(cacheType, reader[r], files[reader[r].file],
                          aux[reader[r].file])
<1>1. TypeOK /\ reader[r] \in Reader /\ reader[r].file \in Files
      /\ files[reader[r].file] # None
  BY DEF DataInv, TypeOK, Reader
<1>2. /\ files[reader[r].file] \in Cache /\ aux[reader[r].file] \in History
      /\ cacheType \in {"memory", "disk"}
  BY <1>1, FileThere
<1>3. /\ Sound(cacheType, files[reader[r].file], aux[reader[r].file])
      /\ ReaderSound(cacheType, reader[r], files[reader[r].file],
                     aux[reader[r].file])
  BY <1>1 DEF DataInv, FilesInv, ReadersInv
<1> QED
  BY <1>1, <1>2, <1>3 DEF Reader

(* A Read takes no more than is ready, and no more than is in the file; a  *)
(* negative length comes from an offset beyond the end.                    *)
LEMMA PollSound ==
    ASSUME NEW c \in Cache, NEW a, NEW d, NEW x \in Reader, NEW y,
           cacheType \in {"memory", "disk"}, Sound(cacheType, c, a),
           Moved(cacheType, c, a, d), cacheType = "disk" => d.pos = x.ofst,
           0 < x.len, bytesReady(Ready(c.load), x.ofst) > 0,
           y.pc = "copy", y.ofst = x.ofst,
           y.len = Clipped(c, x.ofst,
                           Min2(bytesReady(Ready(c.load), x.ofst), x.len))
    PROVE  /\ y.len \in Int
           /\ ReaderSound(cacheType, y, d, a)
<1> DEFINE n == bytesReady(Ready(c.load), x.ofst)
           ofst == x.ofst
<1>1. /\ Ready(c.load) \in SUBSET Nat /\ ofst \in Nat /\ x.len \in Int
      /\ c.size \in Nat
  <2>1. ofst \in Nat /\ x.len \in Int /\ c.size \in Nat
    BY FileDataConstants, SMT DEF Cache, Reader
  <2> QED
    BY <2>1, ReadyOf
<1>2. n \in Nat /\ Span(ofst, n) \subseteq Ready(c.load)
  BY <1>1, BytesReady DEF Sound
<1>3. n > 0 /\ x.len > 0
  BY <1>1, SMT
<1>4. y.len = Min2(Min2(n, x.len), c.size - ofst)
  BY DEF Clipped
<1>5. d.size = c.size /\ Ready(d.load) = Ready(c.load)
  BY DEF Moved
<1> HIDE DEF n, ofst
<1>6. /\ y.len \in Int /\ y.len <= n /\ y.len <= c.size - ofst
      /\ y.len < 0 => c.size <= ofst
  BY <1>1, <1>2, <1>3, <1>4, SMT DEF Min2
<1>7. ASSUME y.len < 0 PROVE ofst \in a.over
  <2>1. ofst \in Span(ofst, n)
    BY <1>1, <1>2, <1>3, SMT DEF Span
  <2> QED
    BY <1>2, <1>6, <1>7, <2>1 DEF Sound
<1>8. ASSUME 0 <= y.len
      PROVE  /\ Span(ofst, y.len) \subseteq Ready(c.load)
             /\ ofst + y.len <= c.size
  <2>1. Span(ofst, y.len) \subseteq Span(ofst, n) /\ ofst + y.len <= c.size
    BY <1>1, <1>2, <1>6, SMT DEF Span
  <2> QED
    BY <1>2, <2>1
<1> QED
  BY <1>5, <1>6, <1>7, <1>8 DEF ReaderSound, ofst

(* ReadPoll keeps the invariant, whether it finds bytes or goes on         *)
(* waiting.                                                                *)
LEMMA ReadPollStep ==
    ASSUME DataInv, NEW r \in Readers, ReadPoll(r)
    PROVE  DataInv'
<1> DEFINE f == reader[r].file
           c == files[f]
           a == aux[f]
           x == reader[r]
           n == bytesReady(Ready(c.load), x.ofst)
           d == Seek(c, x.ofst)
<1>1. /\ x.pc = "poll" /\ TypeOK
      /\ UNCHANGED <<fsVars, loader, patch, crashed, left, aux>>
      /\ UNCHANGED <<cacheType, db, posted, open>>
  BY DEF ReadPoll, DataInv, fsVars
<1>2. /\ x \in Reader /\ x.ofst \in Nat /\ x.len \in Int
      /\ f \in Files /\ files[f] # None /\ c \in Cache /\ a \in History
      /\ cacheType \in {"memory", "disk"} /\ Sound(cacheType, c, a)
      /\ ReaderSound(cacheType, x, c, a)
  BY <1>1, ReaderThere
<1>3. 0 < x.len
  BY <1>1, <1>2 DEF ReaderSound
<1>4. CASE /\ n > 0
           /\ reader' = [Race(f) EXCEPT ![r].pc = "copy",
                ![r].len = Clipped(c, reader[r].ofst, Min2(n, @))]
           /\ job' = RaceJob(f)
           /\ files' = [files EXCEPT ![f] = d]
  <2>1. /\ Moved(cacheType, c, a, d)
        /\ cacheType = "disk" => d.pos = x.ofst
    BY <1>2, SeekMoves
  <2> DEFINE len == Clipped(c, x.ofst, Min2(n, x.len))
             y == [x EXCEPT !.pc = "copy", !.len = len]
  <2>2. Race(f) \in [Readers -> Reader] /\ Race(f)[r] = x
    <3>1. r \notin Sharing(f)
      BY <1>1 DEF Sharing
    <3> QED
      BY <1>1, <1>2, <3>1, RaceTyped DEF Race
  <2>3. reader' = [Race(f) EXCEPT ![r] = y]
    BY <1>4, <2>2
  <2> HIDE DEF len
  <2>4. y.pc = "copy" /\ y.ofst = x.ofst /\ y.file = f /\ y.len = len
    BY <1>2 DEF Reader
  <2>5. len \in Int /\ ReaderSound(cacheType, y, d, a)
    <3> HIDE DEF y, x, d, f, c, a
    <3>1. y.len = Clipped(c, x.ofst,
                          Min2(bytesReady(Ready(c.load), x.ofst), x.len))
      BY <2>4 DEF len
    <3>2. bytesReady(Ready(c.load), x.ofst) > 0
      BY <1>4
    <3> QED
      BY <1>2, <1>3, <2>1, <2>4, <3>1, <3>2, PollSound
  <2>6. y \in Reader
    BY <1>2, <2>5 DEF Reader
  <2> HIDE DEF y
  <2>7. /\ reader' \in [Readers -> Reader] /\ reader'[r] = y
        /\ \A q \in Readers \ {r} : reader'[q] = Race(f)[q]
    BY <2>2, <2>3, <2>6
  <2>8. \A q \in Readers :
              \/ reader'[q] = Race(f)[q]
              \/ reader'[q].pc = "idle"
              \/ /\ reader'[q].file = f
                 /\ ReaderSound(cacheType, reader'[q], d, aux[f])
    BY <2>4, <2>5, <2>7
  <2>9. left' \in [Events -> Nat]
    BY <1>1 DEF TypeOK
  <2> HIDE DEF d, n, f, c, a, x
  <2> QED
    BY <1>1, <1>2, <1>4, <2>1, <2>7, <2>8, <2>9, MoveKeeps DEF c, a
<1>5. CASE /\ n = 0
           /\ reader' = [reader EXCEPT ![r] =
                IF @.retries < MaxRetries THEN Again(@) ELSE IdleReader]
           /\ UNCHANGED <<job, files>>
  <2> DEFINE y == IF x.retries < MaxRetries THEN Again(x) ELSE IdleReader
  <2>1. reader' = [reader EXCEPT ![r] = y]
    BY <1>1, <1>5 DEF TypeOK
  <2>2. /\ Again(x) \in Reader /\ Again(x).pc = "poll"
        /\ Again(x).len = x.len /\ Again(x).file = f
    <3>1. x.retries + 1 \in Nat
      BY <1>2 DEF Reader
    <3> QED
      BY <1>1, <1>2, <3>1 DEF Again, Reader
  <2>3. IdleReader \in Reader /\ IdleReader.pc = "idle"
    BY SMT DEF IdleReader, Reader
  <2>4. /\ y \in Reader
        /\ y.pc = "idle" \/ (y.pc = "poll" /\ y.len = x.len /\ y.file = f)
    BY <2>2, <2>3
  <2> HIDE DEF y
  <2>5. /\ reader' \in [Readers -> Reader] /\ reader'[r] = y
        /\ \A q \in Readers \ {r} : reader'[q] = reader[q]
    BY <1>1, <2>1, <2>4 DEF TypeOK
  <2>6. ReadersType'
    BY <1>1, <1>2, <1>5, <2>4, <2>5, NoneIsNot DEF TypeOK, ReadersType
  <2>7. \A q \in Readers : ReaderSound(cacheType, reader'[q],
                               files[reader'[q].file], aux[reader'[q].file])
    <3> TAKE q \in Readers
    <3>1. CASE q = r
      BY <1>3, <2>4, <2>5, <3>1 DEF ReaderSound
    <3>2. CASE q # r
      BY <2>5, <3>2 DEF DataInv, ReadersInv
    <3> QED
      BY <3>1, <3>2
  <2>8. ReadersInv'
    BY <1>1, <1>5, <2>7 DEF ReadersInv
  <2> QED
    BY <1>1, <1>5, <2>6, <2>8, AsideStep DEF TypeOK
<1> QED
  BY <1>4, <1>5 DEF ReadPoll

(* ReadCopy keeps the invariant, whether it returns or panics.             *)
LEMMA ReadCopyStep ==
    ASSUME DataInv, NEW r \in Readers, ReadCopy(r)
    PROVE  DataInv'
<1> DEFINE f == reader[r].file
           c == files[f]
           a == aux[f]
           x == reader[r]
           last == Sharing(f) = {r} /\ ~JobSharing(f)
           d == Advance(c, Len(Returned(r)), last)
<1>1. /\ x.pc = "copy" /\ TypeOK
      /\ UNCHANGED <<fsVars, loader, patch, crashed, left, aux>>
      /\ UNCHANGED <<cacheType, db, posted, open>>
  BY DEF ReadCopy, DataInv, fsVars
<1>2. /\ x \in Reader /\ x.ofst \in Nat /\ x.len \in Int
      /\ f \in Files /\ files[f] # None /\ c \in Cache /\ a \in History
      /\ cacheType \in {"memory", "disk"} /\ Sound(cacheType, c, a)
      /\ ReaderSound(cacheType, x, c, a)
  BY <1>1, ReaderThere
<1>3. CASE /\ cacheType = "memory" /\ x.len < 0
           /\ reader' = [reader EXCEPT ![r].pc = "panicked"]
           /\ UNCHANGED <<files, job>>
  <2> DEFINE y == [x EXCEPT !.pc = "panicked"]
  <2>1. reader' = [reader EXCEPT ![r] = y]
    BY <1>3
  <2>2. /\ y \in Reader /\ y.pc = "panicked" /\ y.len = x.len /\ y.file = f
        /\ y.ofst = x.ofst
    BY <1>2 DEF Reader
  <2> HIDE DEF y
  <2>3. /\ reader' \in [Readers -> Reader] /\ reader'[r] = y
        /\ \A q \in Readers \ {r} : reader'[q] = reader[q]
    BY <1>1, <2>1, <2>2 DEF TypeOK
  <2>4. ReadersType'
    BY <1>1, <1>2, <1>3, <2>2, <2>3, NoneIsNot DEF TypeOK, ReadersType
  <2>5. \A q \in Readers : ReaderSound(cacheType, reader'[q],
                               files[reader'[q].file], aux[reader'[q].file])
    <3> TAKE q \in Readers
    <3>1. CASE q = r
      BY <1>1, <1>2, <1>3, <2>2, <2>3, <3>1 DEF ReaderSound
    <3>2. CASE q # r
      BY <2>3, <3>2 DEF DataInv, ReadersInv
    <3> QED
      BY <3>1, <3>2
  <2>6. ReadersInv'
    BY <1>1, <1>3, <2>5 DEF ReadersInv
  <2> QED
    BY <1>1, <1>3, <2>4, <2>6, AsideStep DEF TypeOK
<1>4. CASE /\ cacheType = "disk" \/ x.len >= 0
           /\ reader' = [Race(f) EXCEPT ![r] = IdleReader]
           /\ job' = RaceJob(f)
           /\ files' = [files EXCEPT ![f] = Advance(@, Len(Returned(r)), last)]
  <2>1. x.len <= 0 \/ x.ofst + x.len <= MaxSize
    <3>1. 0 <= x.len => x.ofst + x.len <= c.size
      BY <1>1, <1>2 DEF ReaderSound
    <3>2. c.size \in Nat /\ c.size <= MaxSize /\ MaxSize \in Nat
      BY <1>2, FileDataConstants, SMT DEF Cache
    <3> QED
      BY <1>2, <3>1, <3>2, SMT
  <2>2. Len(Returned(r)) \in Nat
    BY <1>2, <2>1, ReadRangeFields DEF Returned
  <2>3. Moved(cacheType, c, a, d)
    BY <1>2, <2>2, AdvanceMoves
  <2>4. files' = [files EXCEPT ![f] = d]
    BY <1>1, <1>2, <1>4 DEF TypeOK
  <2>5. IdleReader \in Reader /\ IdleReader.pc = "idle"
    BY SMT DEF IdleReader, Reader
  <2>6. Race(f) \in [Readers -> Reader]
    BY <1>1, <1>2, RaceTyped
  <2>7. /\ reader' \in [Readers -> Reader] /\ reader'[r] = IdleReader
        /\ \A q \in Readers \ {r} : reader'[q] = Race(f)[q]
    BY <1>4, <2>5, <2>6
  <2>8. \A q \in Readers :
              \/ reader'[q] = Race(f)[q]
              \/ reader'[q].pc = "idle"
              \/ /\ reader'[q].file = f
                 /\ ReaderSound(cacheType, reader'[q], d, aux[f])
    BY <2>5, <2>7
  <2>9. left' \in [Events -> Nat]
    BY <1>1 DEF TypeOK
  <2> HIDE DEF d, f, c, a, x, last
  <2> QED
    BY <1>1, <1>2, <1>4, <2>3, <2>4, <2>7, <2>8, <2>9, MoveKeeps DEF c, a
<1> QED
  BY <1>3, <1>4 DEF ReadCopy

-----------------------------------------------------------------------------
(* ApplyLiveTx.                                                            *)

(* ApplyLiveTx keeps the invariant.                                        *)
LEMMA ApplyLiveTxStep ==
    ASSUME DataInv, NEW tx \in RemoteTxs, ApplyLiveTx(tx)
    PROVE  DataInv'
<1>1. /\ TypeOK /\ tx \in Tx /\ db' = tx /\ posted' = tx
      /\ UNCHANGED <<cacheType, open, files, loader, reader, job, crashed,
                     aux>>
      /\ patch' = IF open = None THEN None
                  ELSE [pc |-> "cut", file |-> open, tx |-> tx, idx |-> 0,
                        n |-> 0, touched |-> {}]
  BY FileDataConstants DEF DataInv, ApplyLiveTx
<1>2. left' \in [Events -> Nat]
  BY <1>1, SpendTyped DEF ApplyLiveTx, Events
<1>3. CASE open = None
  BY <1>1, <1>2, <1>3, AsideStep DEF TypeOK, PatchType, PatchInv
<1>4. CASE open # None
  <2>1. open \in Files /\ files[open] # None /\ 0 \in Nat /\ 0 \in 0..BlockSize
    BY <1>1, <1>4, FileDataConstants, SMT DEF TypeOK
  <2>2. /\ patch' \in Patch /\ patch'.file = open
        /\ patch'.pc = "cut" /\ patch'.idx = 0
    BY <1>1, <1>4, <2>1 DEF Patch
  <2>3. PatchType' /\ PatchInv'
    BY <1>1, <2>1, <2>2 DEF PatchType, PatchInv, PatchSound
  <2> QED
    BY <1>1, <1>2, <2>3, AsideStep DEF TypeOK
<1> QED
  BY <1>3, <1>4

(* What the patch rests on.                                                *)
LEMMA PatchThere ==
    ASSUME DataInv, patch # None
    PROVE  LET f == patch.file IN
           /\ patch \in Patch /\ f \in Files /\ files[f] # None
           /\ patch.tx \in Tx /\ patch.idx \in Nat
           /\ patch.n \in 0..BlockSize /\ patch.n \in Nat
           /\ files[f] \in Cache /\ aux[f] \in History
           /\ cacheType \in {"memory", "disk"}
           /\ Sound(cacheType, files[f], aux[f])
           /\ PatchSound(cacheType, patch, files[f], aux[f])
<1>1. /\ TypeOK /\ patch \in Patch /\ patch.file \in Files
      /\ files[patch.file] # None
  BY DEF DataInv, TypeOK, Patch
<1>2. /\ files[patch.file] \in Cache /\ aux[patch.file] \in History
      /\ cacheType \in {"memory", "disk"}
  BY <1>1, FileThere
<1>3. /\ Sound(cacheType, files[patch.file], aux[patch.file])
      /\ PatchSound(cacheType, patch, files[patch.file], aux[patch.file])
  BY <1>1 DEF DataInv, FilesInv, PatchInv
<1>4. /\ patch.tx \in Tx /\ patch.idx \in Nat /\ patch.n \in 0..BlockSize
  BY <1>1 DEF Patch
<1>5. patch.n \in Nat
  BY <1>4, FileDataConstants, SMT
<1> QED
  BY <1>1, <1>2, <1>3, <1>4, <1>5

(* ApplyCut keeps the invariant: from here on the file should be the       *)
(* transaction.                                                            *)
LEMMA ApplyCutStep ==
    ASSUME DataInv, ApplyCut
    PROVE  DataInv'
<1> DEFINE f == patch.file
           tx == patch.tx
           c == files[f]
           a == aux[f]
           d == Replaced(c, tx.size)
           b == AfterReplace(c, a, tx)
<1>1. /\ patch # None /\ patch.pc = "cut" /\ Lock(f) /\ Tear(f) /\ TypeOK
      /\ UNCHANGED <<fsVars, loader, reader, crashed, left>>
      /\ UNCHANGED <<cacheType, db, posted, open>>
      /\ files' = [files EXCEPT ![f] = d]
      /\ aux' = [aux EXCEPT ![f] = b]
      /\ patch' = IF tx.blocks = <<>> THEN None
                  ELSE [patch EXCEPT !.pc = "compare", !.touched = {}]
  BY DEF ApplyCut, DataInv, fsVars
<1>2. /\ patch \in Patch /\ f \in Files /\ files[f] # None
      /\ tx \in Tx /\ c \in Cache /\ a \in History
      /\ cacheType \in {"memory", "disk"} /\ Sound(cacheType, c, a)
      /\ PatchSound(cacheType, patch, c, a)
  BY <1>1, PatchThere
<1>3. /\ Change(cacheType, c, a, d, b, Offsets)
      /\ d.size = tx.size /\ b.ideal = Content(tx)
  BY <1>2, ReplaceChange
<1> HIDE DEF d, b, f
<1>4. /\ FilesType' /\ FilesInv' /\ NewestOpen'
      /\ ReadersType' /\ ReadersInv' /\ JobType' /\ JobInv'
      /\ \A g \in Files : loader'[g] = loader[g] => LoaderAt(g)'
      /\ files'[f] = d /\ aux'[f] = b
      /\ \A g \in Files : files'[g] = None <=> files[g] = None
  <2>1. Offsets \in SUBSET Offsets
    OBVIOUS
  <2>2. Change(cacheType, files[f], aux[f], d, b, Offsets)
    BY <1>3
  <2>3. reader' = reader /\ UNCHANGED fsVars
    BY <1>1
  <2>4. /\ FilesType' /\ FilesInv' /\ NewestOpen'
        /\ ReadersType' /\ ReadersInv' /\ JobType' /\ JobInv'
    BY ONLY DataInv, <1>1, <1>2, <2>1, <2>2, <2>3, LockedStep, ZenonT(60)
  <2>5. \A g \in Files : loader'[g] = loader[g] => LoaderAt(g)'
    BY ONLY DataInv, <1>1, <1>2, <2>1, <2>2, <2>3, LockedStep, ZenonT(60)
  <2>6. /\ files'[f] = d /\ aux'[f] = b
        /\ \A g \in Files : files'[g] = None <=> files[g] = None
    <3>1. d # None
      BY <1>3, NoneIsNot DEF Change
    <3> QED
      BY <1>1, <1>2, <3>1 DEF TypeOK
  <2> QED
    BY <2>4, <2>5, <2>6
<1>5. PatchType' /\ PatchInv'
  <2>1. CASE tx.blocks = <<>>
    BY <1>1, <2>1 DEF PatchType, PatchInv
  <2>2. CASE tx.blocks # <<>>
    <3>1. /\ patch' \in Patch /\ patch'.file = f /\ patch'.pc = "compare"
          /\ patch'.tx = tx /\ patch'.idx = patch.idx /\ patch'.touched = {}
      BY <1>1, <1>2, <2>2 DEF Patch, f
    <3>2. patch.idx = 0
      BY <1>1, <1>2 DEF PatchSound
    <3>3. 0 < Len(tx.blocks)
      <4>1. tx.blocks \in Seq(Seq(Byte))
        BY <1>2, TxFields
      <4> QED
        BY <2>2, <4>1, SMT
    <3>4. PatchSound(cacheType, patch', d, b)
      BY <1>3, <3>1, <3>2, <3>3 DEF PatchSound
    <3> QED
      BY <1>1, <1>2, <1>4, <3>1, <3>4 DEF PatchType, PatchInv
  <2> QED
    BY <2>1, <2>2
<1>6. LoadersInv'
  BY <1>1, <1>4 DEF LoadersInv
<1>7. TypeOK'
  BY <1>1, <1>4, <1>5
     DEF TypeOK, FilesType, ReadersType, JobType, PatchType
<1> QED
  BY <1>4, <1>5, <1>6, <1>7 DEF DataInv

(* The patch goes on to the next block, of a file of the same size that    *)
(* should have the same bytes.                                             *)
LEMMA NextPatchSound ==
    ASSUME patch \in Patch, patch.pc \in {"compare", "patch"},
           NEW kind, NEW c, NEW a, NEW d, NEW b,
           PatchSound(kind, patch, c, a), d.size = c.size, b.ideal = a.ideal
    PROVE  \/ NextPatch = None
           \/ /\ NextPatch \in Patch /\ NextPatch.file = patch.file
              /\ PatchSound(kind, NextPatch, d, b)
<1>1. CASE patch.idx + 1 = Len(patch.tx.blocks)
  BY <1>1 DEF NextPatch
<1>2. CASE patch.idx + 1 # Len(patch.tx.blocks)
  <2> DEFINE i == patch.idx + 1
             q == [patch EXCEPT !.pc = "compare", !.idx = i, !.n = 0]
  <2>1. NextPatch = q
    BY <1>2 DEF NextPatch
  <2>2. i \in Nat /\ 0 \in 0..BlockSize
    BY FileDataConstants, SMT DEF Patch
  <2>3. i < Len(patch.tx.blocks)
    <3>1. patch.tx \in Tx /\ patch.idx \in Nat
      BY DEF Patch
    <3>2. Len(patch.tx.blocks) \in Nat
      BY <3>1, TxFields
    <3>3. patch.idx < Len(patch.tx.blocks)
      BY DEF PatchSound
    <3> QED
      BY <1>2, <3>1, <3>2, <3>3, SMT
  <2> HIDE DEF i
  <2>4. /\ q \in Patch /\ q.file = patch.file /\ q.pc = "compare" /\ q.idx = i
        /\ q.tx = patch.tx /\ q.touched = patch.touched
    BY <2>2 DEF Patch
  <2> HIDE DEF q
  <2>5. PatchSound(kind, q, d, b)
    BY <2>3, <2>4 DEF PatchSound
  <2> QED
    BY <2>1, <2>4, <2>5
<1> QED
  BY <1>1, <1>2

(* The block that the patch is at.                                         *)
LEMMA PatchBlock ==
    ASSUME NEW kind, NEW p \in Patch, NEW c, NEW a,
           PatchSound(kind, p, c, a), p.pc # "cut"
    PROVE  LET ofst == p.idx * BlockSize
               block == p.tx.blocks[p.idx + 1] IN
           /\ ofst \in Nat /\ ofst + BlockSize <= MaxSize
           /\ block \in Seq(Byte) /\ Len(block) \in Nat
           /\ Len(block) <= BlockSize
<1>1. p.tx \in Tx /\ p.idx \in Nat /\ p.idx < Len(p.tx.blocks)
  BY DEF Patch, PatchSound
<1>2. p.idx * BlockSize \in Nat /\ p.idx * BlockSize + BlockSize <= MaxSize
  BY <1>1, PatchBlockFits
<1>3. p.idx + 1 \in DOMAIN p.tx.blocks
  BY <1>1, TxFields, SMT
<1>4. /\ p.tx.blocks[p.idx + 1] \in Seq(Byte)
      /\ Len(p.tx.blocks[p.idx + 1]) <= BlockSize
  BY <1>1, <1>3, TxFields
<1>5. Len(p.tx.blocks[p.idx + 1]) \in Nat
  BY <1>4, SMT
<1> QED
  BY <1>2, <1>4, <1>5

(* An equal checksum: the bytes are those of the transaction, whatever has *)
(* been wrong about them before.                                           *)
LEMMA SameChange ==
    ASSUME NEW kind, NEW c \in Cache, NEW a \in History, Sound(kind, c, a),
           NEW good \in SUBSET Offsets,
           \A o \in good : o < c.size /\ c.data[o] = a.ideal[o]
    PROVE  LET b == [a EXCEPT !.spoilt = a.spoilt \ good] IN
           /\ Change(kind, c, a, c, b, {})
           /\ b.ideal = a.ideal
<1> DEFINE b == [a EXCEPT !.spoilt = a.spoilt \ good]
<1>1. /\ b \in History /\ b.ideal = a.ideal /\ b.touched = a.touched
      /\ b.spoilt = a.spoilt \ good /\ b.holes = a.holes /\ b.over = a.over
  BY DEF History
<1> HIDE DEF b
<1>2. c.size \in Nat /\ c.len \in Nat /\ \A o \in Offsets : o \in Nat
  BY FileDataConstants, SMT DEF Cache, Offsets
<1>3. \A o \in good : ~(c.size <= o)
  BY <1>2, SMT
<1>4. Sound(kind, c, b)
  BY <1>1, <1>3 DEF Sound
<1>5. \A o \in Span(0, c.size) : o < c.size
  BY <1>2, SMT DEF Span
<1>6. c.len <= c.len
  BY <1>2, SMT
<1>7. Change(kind, c, a, c, b, {})
  BY <1>1, <1>4, <1>5, <1>6 DEF Change
<1> QED
  BY <1>1, <1>7 DEF b

(* A step of the patch that changes f to d, with the history b, and keeps  *)
(* its size and the bytes that it should have.                             *)
PatchMove(f, d, b) ==
    /\ patch # None /\ patch.pc \in {"compare", "patch"}
    /\ f = patch.file /\ Lock(f)
    /\ Change(cacheType, files[f], aux[f], d, b, {})
    /\ d.size = files[f].size /\ b.ideal = aux[f].ideal
    /\ files' = [files EXCEPT ![f] = d] /\ aux' = [aux EXCEPT ![f] = b]
    /\ Tear(f) \/ job' = job
    /\ patch' = NextPatch
    /\ UNCHANGED <<fsVars, loader, reader, crashed>>
    /\ left' \in [Events -> Nat]

LEMMA PatchMoves ==
    ASSUME DataInv, NEW f \in Files, NEW d, NEW b, PatchMove(f, d, b)
    PROVE  DataInv'
<1>1. /\ patch # None /\ patch.pc \in {"compare", "patch"}
      /\ f = patch.file /\ Lock(f)
      /\ Change(cacheType, files[f], aux[f], d, b, {})
      /\ d.size = files[f].size /\ b.ideal = aux[f].ideal
      /\ files' = [files EXCEPT ![f] = d] /\ aux' = [aux EXCEPT ![f] = b]
      /\ Tear(f) \/ job' = job
      /\ patch' = NextPatch
      /\ UNCHANGED <<fsVars, loader, reader, crashed>>
      /\ left' \in [Events -> Nat]
  BY DEF PatchMove
<1>2. /\ patch \in Patch /\ patch.file = f /\ files[f] # None
      /\ PatchSound(cacheType, patch, files[f], aux[f])
  BY <1>1, PatchThere
<1>3. /\ TypeOK
      /\ UNCHANGED <<cacheType, db, posted, open, loader, reader, crashed>>
  BY <1>1 DEF DataInv, fsVars
<1>4. /\ FilesType' /\ FilesInv' /\ NewestOpen'
      /\ ReadersType' /\ ReadersInv' /\ JobType' /\ JobInv'
      /\ \A g \in Files : loader'[g] = loader[g] => LoaderAt(g)'
      /\ files'[f] = d /\ aux'[f] = b
      /\ \A g \in Files : files'[g] = None <=> files[g] = None
  <2>1. {} \in SUBSET Offsets
    OBVIOUS
  <2>2. /\ files[f] # None /\ reader' = reader /\ UNCHANGED fsVars
        /\ Lock(f) /\ Change(cacheType, files[f], aux[f], d, b, {})
        /\ files' = [files EXCEPT ![f] = d] /\ aux' = [aux EXCEPT ![f] = b]
        /\ \/ Tear(f)
           \/ /\ job' = job /\ d.size = files[f].size
              /\ b.ideal = aux[f].ideal
    BY <1>1, <1>2
  <2>3. /\ FilesType' /\ FilesInv' /\ NewestOpen'
        /\ ReadersType' /\ ReadersInv' /\ JobType' /\ JobInv'
    BY ONLY DataInv, f \in Files, <2>1, <2>2, LockedStep, ZenonT(60)
  <2>4. \A g \in Files : loader'[g] = loader[g] => LoaderAt(g)'
    BY ONLY DataInv, f \in Files, <2>1, <2>2, LockedStep, ZenonT(60)
  <2>5. /\ files'[f] = d /\ aux'[f] = b
        /\ \A g \in Files : files'[g] = None <=> files[g] = None
    <3>1. d # None
      BY <2>2, NoneIsNot DEF Change
    <3> QED
      BY <1>3, <2>2, <3>1 DEF TypeOK
  <2> QED
    BY <2>3, <2>4, <2>5
<1>5. PatchType' /\ PatchInv'
  <2>1. \/ NextPatch = None
        \/ /\ NextPatch \in Patch /\ NextPatch.file = f
           /\ PatchSound(cacheType, NextPatch, d, b)
    <3>1. /\ patch \in Patch /\ patch.pc \in {"compare", "patch"}
          /\ PatchSound(cacheType, patch, files[f], aux[f])
          /\ d.size = files[f].size /\ b.ideal = aux[f].ideal
          /\ f = patch.file
      BY <1>1, <1>2
    <3> QED
      BY ONLY <3>1, NextPatchSound
  <2> QED
    BY <1>1, <1>2, <1>3, <1>4, <2>1 DEF PatchType, PatchInv
<1>6. LoadersInv'
  BY <1>1, <1>3, <1>4 DEF LoadersInv
<1>7. TypeOK'
  BY <1>1, <1>3, <1>4, <1>5
     DEF TypeOK, FilesType, ReadersType, JobType, PatchType
<1> QED
  BY <1>4, <1>5, <1>6, <1>7 DEF DataInv

(* What is left of a block in the file.                                    *)
Brings(p, c, a, ofst, block) ==
    \A o \in Span(ofst, Len(block)) :
        o \notin p.touched /\ o < c.size => a.ideal[o] = block[o - ofst + 1]

(* All the bytes of the block that the patch is at.                        *)
LEMMA PatchBytes ==
    ASSUME NEW kind, NEW p \in Patch, NEW c \in Cache, NEW a,
           PatchSound(kind, p, c, a), p.pc # "cut"
    PROVE  Brings(p, c, a, p.idx * BlockSize, p.tx.blocks[p.idx + 1])
<1> DEFINE ofst == p.idx * BlockSize
           block == p.tx.blocks[p.idx + 1]
<1>1. p.tx \in Tx /\ p.idx \in Nat /\ p.idx < Len(p.tx.blocks)
  BY DEF Patch, PatchSound
<1>2. /\ ofst \in Nat /\ Len(block) \in Nat /\ Len(block) <= BlockSize
  BY PatchBlock
<1>3. SUFFICES ASSUME NEW o \in Span(ofst, Len(block)),
                      o \notin p.touched, o < c.size
               PROVE  a.ideal[o] = block[o - ofst + 1]
  BY DEF Brings
<1>4. o \in Span(ofst, BlockSize)
  <2> HIDE DEF ofst, block
  <2> QED
    BY <1>2, <1>3, FileDataConstants, SMT DEF Span
<1>5. /\ o \in Offsets
      /\ InBlock(p.tx, o) <=> o \in Span(ofst, Len(block))
      /\ InBlock(p.tx, o) /\ o < p.tx.size =>
             Content(p.tx)[o] = block[o - ofst + 1]
  BY <1>1, <1>4, BlockContent
<1>6. a.ideal[o] = Content(p.tx)[o] /\ o < p.tx.size
  BY <1>3, <1>5 DEF PatchSound
<1> QED
  BY <1>5, <1>6

(* ApplyCompare keeps the invariant: the bytes of an equal block are       *)
(* right, unless they have been touched.                                   *)
LEMMA ApplyCompareStep ==
    ASSUME DataInv, ApplyCompare
    PROVE  DataInv'
<1> DEFINE f == patch.file
           c == files[f]
           a == aux[f]
           ofst == patch.idx * BlockSize
           n == Min2(BlockSize, c.size - ofst)
           block == patch.tx.blocks[patch.idx + 1]
           good == Span(ofst, n) \ patch.touched
           same == /\ n = Len(block)
                   /\ \A k \in 1..n : c.data[ofst + k - 1] = block[k]
<1>1. /\ patch # None /\ patch.pc = "compare" /\ Lock(f) /\ TypeOK
      /\ UNCHANGED <<fsVars, files, loader, reader, job, crashed, left>>
      /\ UNCHANGED <<cacheType, db, posted, open>>
  BY DEF ApplyCompare, DataInv, fsVars
<1>2. /\ patch \in Patch /\ f \in Files /\ files[f] # None
      /\ c \in Cache /\ a \in History
      /\ cacheType \in {"memory", "disk"} /\ Sound(cacheType, c, a)
      /\ PatchSound(cacheType, patch, c, a)
  BY <1>1, PatchThere
<1>3. /\ ofst \in Nat /\ ofst + BlockSize <= MaxSize
      /\ block \in Seq(Byte) /\ Len(block) \in Nat
      /\ Len(block) <= BlockSize
  BY <1>1, <1>2, PatchBlock
<1>4. \A o \in Span(ofst, Len(block)) :
           o \notin patch.touched /\ o < c.size =>
               a.ideal[o] = block[o - ofst + 1]
  <2>1. Brings(patch, c, a, ofst, block)
    BY <1>1, <1>2, PatchBytes
  <2> QED
    BY <2>1 DEF Brings
<1>5. /\ c.size \in Nat /\ c.len \in Nat /\ BlockSize \in Nat
      /\ MaxSize \in Nat /\ c.size <= c.len
  BY <1>2, FileDataConstants, SMT DEF Cache, Sound
<1>6. left' \in [Events -> Nat]
  BY <1>1 DEF TypeOK
<1>7. CASE ofst >= c.size /\ patch' = None /\ UNCHANGED aux
  BY <1>1, <1>7, AsideStep DEF TypeOK, PatchType, PatchInv
<1>8. CASE /\ ofst < c.size /\ same
           /\ patch' = NextPatch
           /\ aux' = [aux EXCEPT ![f].spoilt = @ \ good]
  <2> DEFINE b == [a EXCEPT !.spoilt = a.spoilt \ good]
  <2>1. n \in Nat /\ n <= BlockSize /\ n <= c.size - ofst
    <3> HIDE DEF ofst, c
    <3>1. ofst \in Nat /\ c.size \in Nat /\ BlockSize \in Nat /\ ofst < c.size
      BY <1>3, <1>5, <1>8
    <3> QED
      BY ONLY <3>1, SMT DEF Min2
  <2>2. \A o \in Span(ofst, n) :
          /\ o \in Offsets /\ o < c.size /\ o - ofst + 1 \in 1..n
          /\ ofst + (o - ofst + 1) - 1 = o
    <3>1. TAKE o \in Span(ofst, n)
    <3> HIDE DEF ofst, n
    <3>2. o \in Nat /\ ofst <= o /\ o < ofst + n /\ ofst \in Nat
      BY <1>3, <2>1, SMT DEF Span
    <3>3. o < c.size /\ o < MaxSize
      BY <1>3, <1>5, <2>1, <3>2, SMT
    <3> QED
      BY <1>5, <2>1, <3>2, <3>3, SMT DEF Offsets
  <2>3. ASSUME NEW o \in good
        PROVE  o \in Offsets /\ o < c.size /\ c.data[o] = a.ideal[o]
    <3>1. o \in Span(ofst, n) /\ o \notin patch.touched
      BY <2>3
    <3>2. /\ o \in Offsets /\ o < c.size /\ o - ofst + 1 \in 1..n
          /\ ofst + (o - ofst + 1) - 1 = o
      BY <2>2, <3>1
    <3>3. c.data[ofst + (o - ofst + 1) - 1] = block[o - ofst + 1]
      BY <1>8, <3>2
    <3>4. a.ideal[o] = block[o - ofst + 1]
      BY <1>8, <1>4, <3>1, <3>2
    <3> QED
      BY <3>2, <3>3, <3>4
  <2>4. good \in SUBSET Offsets
    BY <2>3
  <2>5. aux' = [aux EXCEPT ![f] = b] /\ files' = [files EXCEPT ![f] = c]
    BY <1>1, <1>2, <1>8 DEF TypeOK
  <2>6. /\ Change(cacheType, c, a, c, b, {})
        /\ b.ideal = a.ideal
    <3> HIDE DEF good, c, a
    <3> QED
      BY <1>2, <2>3, <2>4, SameChange
  <2>7. /\ patch # None /\ patch.pc \in {"compare", "patch"}
        /\ f \in Files /\ f = patch.file /\ Lock(f) /\ job' = job
        /\ patch' = NextPatch /\ left' \in [Events -> Nat]
        /\ UNCHANGED <<fsVars, loader, reader, crashed>>
        /\ c.size = files[f].size /\ b.ideal = aux[f].ideal
        /\ Change(cacheType, files[f], aux[f], c, b, {})
        /\ files' = [files EXCEPT ![f] = c] /\ aux' = [aux EXCEPT ![f] = b]
    BY <1>1, <1>2, <1>6, <1>8, <2>5, <2>6
  <2> HIDE DEF b, c, f
  <2>8. f \in Files /\ PatchMove(f, c, b)
    BY <2>7 DEF PatchMove
  <2> QED
    BY ONLY DataInv, <2>8, PatchMoves
<1>9. CASE /\ ofst < c.size
           /\ patch' = [patch EXCEPT !.pc = "patch", !.n = n]
           /\ UNCHANGED aux
  <2>1. n \in 0..BlockSize /\ ofst + n <= c.size /\ ofst + n <= c.len
        /\ n \in Nat
    <3> HIDE DEF ofst, c
    <3>1. /\ ofst \in Nat /\ c.size \in Nat /\ c.len \in Nat
          /\ BlockSize \in Nat /\ ofst < c.size /\ c.size <= c.len
      BY <1>3, <1>5, <1>9
    <3> QED
      BY ONLY <3>1, SMT DEF Min2
  <2> HIDE DEF n
  <2>2. /\ patch' \in Patch /\ patch'.file = f /\ patch'.pc = "patch"
        /\ patch'.idx = patch.idx /\ patch'.n = n /\ patch'.tx = patch.tx
        /\ patch'.touched = patch.touched
    BY <1>2, <1>9, <2>1 DEF Patch
  <2>3. \A o \in Span(ofst, n) : ~(c.size <= o)
    <3> HIDE DEF ofst
    <3> QED
      BY <1>3, <1>5, <2>1, SMT DEF Span
  <2>4. PatchSound(cacheType, patch', c, a)
    BY <1>1, <1>2, <2>1, <2>2, <2>3 DEF PatchSound
  <2>5. PatchType' /\ PatchInv'
    BY <1>1, <1>2, <1>9, <2>2, <2>4 DEF PatchType, PatchInv
  <2> QED
    BY <1>1, <1>6, <1>9, <2>5, AsideStep DEF TypeOK
<1> QED
  BY <1>7, <1>8, <1>9 DEF ApplyCompare

(* ApplyPatch keeps the invariant, for a block and for an error page.      *)
LEMMA ApplyPatchStep ==
    ASSUME DataInv, ApplyPatch
    PROVE  DataInv'
<1> DEFINE f == patch.file
           c == files[f]
           a == aux[f]
           ofst == patch.idx * BlockSize
           block == patch.tx.blocks[patch.idx + 1]
           m == Min2(patch.n, Len(block))
           part == SubSeq(block, 1, m)
<1>1. /\ patch # None /\ patch.pc = "patch" /\ Lock(f) /\ TypeOK /\ Tear(f)
      /\ patch' = NextPatch
      /\ UNCHANGED <<fsVars, loader, reader, crashed>>
  BY DEF ApplyPatch, DataInv
<1>2. /\ patch \in Patch /\ f \in Files /\ files[f] # None
      /\ patch.n \in 0..BlockSize /\ patch.n \in Nat
      /\ c \in Cache /\ a \in History
      /\ cacheType \in {"memory", "disk"} /\ Sound(cacheType, c, a)
      /\ PatchSound(cacheType, patch, c, a)
  BY <1>1, PatchThere
<1>3. /\ ofst \in Nat /\ ofst + BlockSize <= MaxSize
      /\ block \in Seq(Byte) /\ Len(block) \in Nat
      /\ Len(block) <= BlockSize
  BY <1>1, <1>2, PatchBlock
<1>4. \A o \in Span(ofst, Len(block)) :
           o \notin patch.touched /\ o < c.size =>
               a.ideal[o] = block[o - ofst + 1]
  <2>1. Brings(patch, c, a, ofst, block)
    BY <1>1, <1>2, PatchBytes
  <2> QED
    BY <2>1 DEF Brings
<1>5. BlockSize \in Nat /\ c.size \in Nat
  BY <1>2, FileDataConstants, SMT DEF Cache
<1>6. m \in Nat /\ m <= patch.n /\ m <= Len(block) /\ m <= BlockSize
  <2> HIDE DEF block
  <2> QED
    BY <1>2, <1>3, SMT DEF Min2
<1>7. /\ part \in Seq(Byte) /\ Len(part) = m
      /\ \A k \in 1..m : part[k] = block[k]
  <2> HIDE DEF block, m
  <2> QED
    BY <1>3, <1>6
(* Both ways of storing a block in the file, with what is wrong about it.  *)
<1> DEFINE Stores(buf, bad) ==
             /\ buf \in Seq(Byte) /\ Len(buf) <= BlockSize
             /\ Accounted(c, a, ofst, buf, bad)
             /\ Store(f, ofst, buf, Repaired(f, ofst, Len(buf)), bad, {})
<1>8. ASSUME NEW buf, NEW bad, Stores(buf, bad), left' \in [Events -> Nat]
      PROVE  DataInv'
  <2> DEFINE load == Repaired(f, ofst, Len(buf))
             d == Stored(c, ofst, buf, load)
             b == AfterStore(c, a, ofst, Len(buf), bad, {})
  <2>1. /\ buf \in Seq(Byte) /\ Len(buf) <= BlockSize
        /\ Accounted(c, a, ofst, buf, bad)
        /\ Store(f, ofst, buf, load, bad, {})
    BY <1>8
  <2>7. /\ load \in Load
        /\ Ready(load) = Ready(c.load) \cup Span(ofst, Len(buf))
    <3>1. Len(buf) \in Nat /\ ofst \in Nat
      BY <1>3, <2>1, SMT
    <3> HIDE DEF ofst, f
    <3> QED
      BY <1>2, <3>1, RepairedReady
  <2>2. ofst + Len(buf) <= MaxSize
    <3>1. Len(buf) \in Nat
      BY <2>1, SMT
    <3> HIDE DEF ofst
    <3> QED
      BY <1>3, <1>5, <2>1, <3>1, FileDataConstants, SMT
  <2>3. /\ files' = [files EXCEPT ![f] = d]
        /\ aux' = [aux EXCEPT ![f] = b]
    BY <2>1 DEF Store
  <2>4. /\ Change(cacheType, c, a, d, b, {})
        /\ d.size = c.size /\ b.ideal = a.ideal
    <3>1. {} \in SUBSET Nat
      OBVIOUS
    <3> HIDE DEF c, a, ofst, load
    <3>2. Storable(c, a, ofst, buf, load, bad, {})
      BY <1>2, <1>3, <2>1, <2>2, <2>7, <3>1 DEF Storable
    <3>3. StoredRight(c, a, ofst, buf, {}, d, b)
      BY ONLY <3>2, StoreChange
    <3> QED
      BY <3>3 DEF StoredRight
  <2>5. /\ patch # None /\ patch.pc \in {"compare", "patch"}
        /\ f \in Files /\ f = patch.file /\ Lock(f) /\ Tear(f)
        /\ patch' = NextPatch /\ left' \in [Events -> Nat]
        /\ UNCHANGED <<fsVars, loader, reader, crashed>>
        /\ d.size = files[f].size /\ b.ideal = aux[f].ideal
        /\ Change(cacheType, files[f], aux[f], d, b, {})
        /\ files' = [files EXCEPT ![f] = d] /\ aux' = [aux EXCEPT ![f] = b]
    BY <1>1, <1>2, <1>8, <2>3, <2>4
  <2> HIDE DEF d, b, f
  <2>6. f \in Files /\ PatchMove(f, d, b)
    BY <2>5 DEF PatchMove
  <2> QED
    BY ONLY DataInv, <2>6, PatchMoves
<1>9. CASE /\ Store(f, ofst, part, Repaired(f, ofst, Len(part)),
                    patch.touched, {})
           /\ UNCHANGED left
  <2>1. ASSUME NEW o \in Span(ofst, m), o \notin patch.touched
        PROVE  o < c.size /\ part[o - ofst + 1] = a.ideal[o]
    <3>1. /\ o \in Span(ofst, patch.n) /\ o \in Span(ofst, Len(block))
          /\ o - ofst + 1 \in 1..m /\ o \in Nat
      <4> HIDE DEF ofst, m, block
      <4> QED
        BY <1>2, <1>3, <1>6, SMT DEF Span
    <3>2. ~(c.size <= o)
      BY <1>1, <1>2, <2>1, <3>1 DEF PatchSound
    <3>3. o < c.size
      BY <1>5, <3>1, <3>2, SMT
    <3> QED
      BY <1>7, <1>4, <2>1, <3>1, <3>3
  <2>2. Accounted(c, a, ofst, part, patch.touched)
    BY <1>7, <2>1 DEF Accounted
  <2>3. left' \in [Events -> Nat]
    BY <1>1, <1>9 DEF TypeOK
  <2>4. Stores(part, patch.touched)
    BY <1>6, <1>7, <1>9, <2>2
  <2> HIDE DEF Stores, part
  <2> QED
    BY <1>8, <2>3, <2>4
<1>10. CASE /\ Spend("fault")
           /\ \E n \in 0..patch.n :
                Store(f, ofst, ErrorPage(ofst, n), Repaired(f, ofst, n),
                      Offsets, {})
  <2>1. PICK n \in 0..patch.n :
           Store(f, ofst, ErrorPage(ofst, n), Repaired(f, ofst, n),
                 Offsets, {})
    BY <1>10
  <2>2. n \in Nat /\ n <= BlockSize
    BY <1>2, <1>5, SMT
  <2> DEFINE page == ErrorPage(ofst, n)
  <2>3. page \in Seq(Byte) /\ Len(page) = n
    BY <1>3, <2>2, ErrorPageTyped
  <2>4. \A o \in Span(ofst, Len(page)) : o \in Offsets
    <3> HIDE DEF ofst, page
    <3> QED
      BY <1>3, <1>5, <2>2, <2>3, FileDataConstants, SMT DEF Span, Offsets
  <2>5. Stores(page, Offsets)
    <3>1. Store(f, ofst, page, Repaired(f, ofst, Len(page)), Offsets, {})
      BY <2>1, <2>3
    <3> HIDE DEF page
    <3> QED
      BY <2>2, <2>3, <2>4, <3>1 DEF Accounted
  <2>6. left' \in [Events -> Nat]
    BY <1>1, <1>10, SpendTyped DEF Events
  <2> HIDE DEF Stores, page
  <2> QED
    BY <1>8, <2>5, <2>6
<1> QED
  BY <1>9, <1>10 DEF ApplyPatch

(* ApplyFails keeps the invariant.                                         *)
LEMMA ApplyFailsStep ==
    ASSUME DataInv, ApplyFails
    PROVE  DataInv'
<1>1. /\ TypeOK /\ patch' = None
      /\ UNCHANGED <<cacheType, db, posted, open, files, loader, reader, job,
                     crashed, aux>>
  BY DEF DataInv, ApplyFails, fsVars
<1>2. left' \in [Events -> Nat]
  BY <1>1, SpendTyped DEF ApplyFails, Events
<1> QED
  BY <1>1, <1>2, AsideStep DEF TypeOK, PatchType, PatchInv

-----------------------------------------------------------------------------
(* The invariant holds in every reachable state.                           *)

(* Every step keeps it.                                                    *)
LEMMA DataInvNext == DataInv /\ [Next]_vars => DataInv'
<1> SUFFICES ASSUME DataInv, [Next]_vars PROVE DataInv'
  OBVIOUS
<1>1. CASE Open \/ Mknod \/ Rename \/ Unlink \/ Release
  BY <1>1, OpenStep, MknodStep, RenameStep, UnlinkStep, ReleaseStep
<1>2. ASSUME NEW size \in Sizes, Truncate(size) \/ TruncatePanics(size)
      PROVE  DataInv'
  BY <1>2, TruncateStep, TruncatePanicsStep
<1>3. ASSUME NEW x \in WriteExtents, Write(x[1], x[2]) PROVE DataInv'
  BY <1>3, WriteStep
<1>4. ASSUME NEW r \in Readers, NEW x \in ReadExtents,
             ReadCall(r, x[1], x[2])
      PROVE  DataInv'
  BY <1>4, ReadCallStep
<1>5. ASSUME NEW tx \in RemoteTxs, ApplyLiveTx(tx) PROVE DataInv'
  BY <1>5, ApplyLiveTxStep
<1>6. ASSUME NEW f \in Files, Loading(f) PROVE DataInv'
  BY <1>6, DyingStep, LoaderLookupStep, LoaderStoreStep, LoaderPanicsStep,
     WaitsStep, LoaderFailsStep DEF Loading
<1>7. ASSUME NEW r \in Readers, Reading(r) PROVE DataInv'
  BY <1>7, ReadPollStep, ReadCopyStep DEF Reading
<1>8. CASE Uploading
  BY <1>8, UploadCountStep, UploadSeekStep, UploadCopyStep, UploadTxStep,
     UploadInsertStep, UploadCleanStep DEF Uploading
<1>9. CASE Patching
  BY <1>9, ApplyCutStep, DyingStep, ApplyCompareStep, ApplyPatchStep,
     WaitsStep, ApplyFailsStep DEF Patching
<1>10. CASE Restart
  BY <1>10, RestartStep
<1>11. CASE UNCHANGED vars
  <2>1. /\ TypeOK
        /\ UNCHANGED <<cacheType, db, posted, open, files, loader, reader,
                       job, patch, crashed, left, aux>>
    BY <1>11 DEF DataInv, vars
  <2> QED
    BY <2>1, AsideStep DEF TypeOK
<1>12. CASE WriterWaits
  BY <1>12, WaitsStep
<1> QED
  BY <1>1, <1>2, <1>3, <1>4, <1>5, <1>6, <1>7, <1>8, <1>9, <1>10, <1>11,
     <1>12 DEF Next, Callbacks, Background

(* The inductive invariant of the data plane.                              *)
THEOREM FileDataInductive == Spec => []DataInv
BY DataInvInit, DataInvNext, PTL DEF Spec

-----------------------------------------------------------------------------
(* The invariants that the runs check.                                     *)

(* The caches, their goroutines and the entries have their types, a patch  *)
(* does not write beyond the slice, and a Read whose length is negative    *)
(* began at an offset that was marked beyond the end.                      *)
THEOREM FileDataSafety == Spec => []FileDataInv
<1>1. DataInv => FileDataInv
  <2> SUFFICES ASSUME DataInv PROVE FileDataInv
    OBVIOUS
  <2>1. PatchInBounds
    <3> SUFFICES ASSUME patch # None, patch.pc = "patch"
                 PROVE  ~MayPanic(files[patch.file],
                                  patch.idx * BlockSize + patch.n)
      BY DEF PatchInBounds
    <3> DEFINE c == files[patch.file]
               end == patch.idx * BlockSize + patch.n
    <3>1. /\ patch \in Patch /\ c \in Cache
          /\ PatchSound(cacheType, patch, c, aux[patch.file])
      BY PatchThere
    <3>2. c.len \in Nat /\ end \in Nat
      BY <3>1, FileDataConstants, SMT DEF Cache, Patch
    <3>3. cacheType = "memory" => end <= c.len
      BY <3>1 DEF PatchSound
    <3> HIDE DEF end, c
    <3>4. ~MayPanic(c, end)
      BY <3>2, <3>3, SMT DEF MayPanic
    <3> QED
      BY <3>4 DEF end, c
  <2>2. NegativeReadNamed
    BY DEF DataInv, ReadersInv, ReaderSound, NegativeReadNamed
  <2> QED
    BY <2>1, <2>2 DEF FileDataInv, DataInv
<1> QED
  BY <1>1, FileDataInductive, PTL

(* A byte that load calls ready is the one that the writes, truncates and  *)
(* transactions have left there, or is named in spoilt.                    *)
THEOREM FileDataReadyTrue == Spec => []ReadyBytesTrue
<1>1. DataInv => ReadyBytesTrue
  <2> SUFFICES ASSUME DataInv, NEW f \in Files, files[f] # None,
                      NEW o \in Ready(files[f].load),
                      o \in Span(0, files[f].size)
               PROVE  \/ files[f].data[o] = aux[f].ideal[o]
                      \/ o \in aux[f].spoilt
    BY DEF ReadyBytesTrue
  <2>1. files[f] \in Cache /\ Sound(cacheType, files[f], aux[f])
    BY FileThere DEF DataInv, FilesInv
  <2>2. files[f].size \in Nat
    BY <2>1, FileDataConstants, SMT DEF Cache
  <2>3. o < files[f].size
    BY <2>2, SMT DEF Span
  <2> QED
    BY <2>1, <2>3 DEF Sound
<1> QED
  BY <1>1, FileDataInductive, PTL

(* Every byte in sight of the open file is ready, still comes, or is named *)
(* in holes, unless a Truncate that panicked has kept the file's lock or   *)
(* the loader has stopped.                                                 *)
THEOREM FileDataNothingMissing == Spec => []NothingMissing
<1>1. DataInv => NothingMissing
  <2> SUFFICES ASSUME DataInv, NEW f \in Files, open = f,
                      loader[f].pc # "stopped", files[f].lock # "kept",
                      NEW o \in Span(0, files[f].size)
               PROVE  o \in Ready(files[f].load) \cup aux[f].holes
                                \cup Awaited(f)
    BY DEF NothingMissing
  <2>1. o \in Ready(files[f].load) \cup aux[f].holes \/ Awaits(loader[f], o)
    BY DEF DataInv, LoadersInv, LoaderAt, Reach
  <2> QED
    BY <2>1 DEF Awaits, Awaited
<1> QED
  BY <1>1, FileDataInductive, PTL

(* A Read returns what it has found ready, all of it and in its place,     *)
(* unless the position of the file has been moved between its Seek and its *)
(* Read.                                                                   *)
THEOREM FileDataReadsTrue == Spec => []ReadsTrue
<1>1. DataInv => ReadsTrue
  <2> SUFFICES ASSUME DataInv, NEW r \in Readers,
                      reader[r].pc = "copy", reader[r].len >= 0,
                      ~reader[r].raced
               PROVE  /\ Len(Returned(r)) = reader[r].len
                      /\ \A k \in 1..reader[r].len :
                           LET o == reader[r].ofst + k - 1
                               g == aux[reader[r].file] IN
                           Returned(r)[k] = g.ideal[o] \/ o \in g.spoilt
    BY DEF ReadsTrue
  <2> DEFINE x == reader[r]
             c == files[x.file]
             a == aux[x.file]
  <2>1. /\ x.ofst \in Nat /\ x.len \in Int /\ c \in Cache
        /\ cacheType \in {"memory", "disk"}
        /\ Sound(cacheType, c, a) /\ ReaderSound(cacheType, x, c, a)
    BY ReaderThere
  <2> HIDE DEF x, c, a
  <2>2. x.pc = "copy" /\ 0 <= x.len /\ ~x.raced
    BY <2>1, SMT DEF x
  <2>3. /\ Span(x.ofst, x.len) \subseteq Ready(c.load)
        /\ x.ofst + x.len <= c.size
        /\ cacheType = "disk" => c.pos = x.ofst
    BY <2>1, <2>2 DEF ReaderSound
  <2>4. /\ c.size <= c.len /\ c.size <= MaxSize
        /\ c.size \in Nat /\ c.len \in Nat
    BY <2>1, FileDataConstants, SMT DEF Sound, Cache
  <2>5. x.ofst + x.len <= c.len /\ x.ofst + x.len <= MaxSize
    BY <2>1, <2>3, <2>4, FileDataConstants, SMT
  <2> DEFINE got == ReadRange(c, x.ofst, x.len)
  <2>6. /\ Len(got) = x.len
        /\ \A k \in 1..x.len : got[k] = c.data[x.ofst + k - 1]
    BY <2>1, <2>2, <2>3, <2>5, ReadRangeFields
  <2>7. Returned(r) = got
    BY DEF Returned, x, c
  <2>8. ASSUME NEW k \in 1..x.len
        PROVE  got[k] = a.ideal[x.ofst + k - 1]
               \/ x.ofst + k - 1 \in a.spoilt
    <3> DEFINE o == x.ofst + k - 1
    <3>1. o \in Span(x.ofst, x.len) /\ o < c.size
      BY <2>1, <2>3, <2>4, SMT DEF Span
    <3>2. got[k] = c.data[o]
      BY <2>6
    <3> HIDE DEF o, got
    <3>3. c.data[o] = a.ideal[o] \/ o \in a.spoilt
      BY <2>1, <2>3, <3>1 DEF Sound
    <3> QED
      BY <3>2, <3>3 DEF o
  <2> HIDE DEF got
  <2> QED
    BY <2>6, <2>7, <2>8 DEF x, a
<1> QED
  BY <1>1, FileDataInductive, PTL

-----------------------------------------------------------------------------
(* The steps that the runs check.                                          *)

(* The block of a sound transaction ends before the file does.             *)
LEMMA SoundBlockFits ==
    ASSUME NEW tx \in Tx, SoundTx(tx), NEW i \in Nat, i < Len(tx.blocks)
    PROVE  i * BlockSize + Len(tx.blocks[i + 1]) <= tx.size
<1>1. i + 1 \in DOMAIN tx.blocks /\ i + 1 - 1 = i
  BY TxFields, SMT
<1>2. Len(tx.blocks[i + 1]) = Min2(BlockSize, tx.size - i * BlockSize)
  BY <1>1 DEF SoundTx
<1>3. tx.size \in Nat /\ i * BlockSize \in Nat /\ BlockSize \in Nat
  BY TxFields, FileDataConstants, SMT
<1> DEFINE ofst == i * BlockSize
<1> HIDE DEF ofst
<1>4. Min2(BlockSize, tx.size - ofst) <= tx.size - ofst
      /\ Min2(BlockSize, tx.size - ofst) \in Int
  BY <1>3, SMT DEF ofst, Min2
<1> QED
  BY <1>2, <1>3, <1>4, SMT DEF ofst

(* The process dies only in a loader, on the block of another file, of a   *)
(* torn transaction or on an error page, or as it looks a map up that is   *)
(* being written; or in a patch that cuts a file whose ranges load cannot  *)
(* truncate.                                                               *)
THEOREM FileDataCrashNamed == Spec => CrashNamed
<1> DEFINE Loads == \E f \in Files : /\ loader[f].pc = "store"
                                     /\ \/ loader[f].target # f
                                        \/ ~SoundTx(loader[f].tx)
           Looks == \E f \in Files :
                      /\ loader[f].pc = "lookup"
                      /\ \E kind \in {"map", "rename", "unlink"} :
                            left'[kind] # left[kind]
           Cuts == /\ patch # None /\ patch.pc = "cut"
                   /\ patch.tx.size < files[patch.file].size
                   /\ IndexOut(files[patch.file].load, patch.tx.size)
           Named == ~crashed /\ crashed' =>
                      \/ left'["fault"] # left["fault"]
                      \/ Loads \/ Looks \/ Cuts
<1>1. DataInv /\ [Next]_vars => Named
  <2> SUFFICES ASSUME DataInv, [Next]_vars, ~crashed, crashed'
               PROVE  \/ left'["fault"] # left["fault"]
                      \/ Loads \/ Looks \/ Cuts
    OBVIOUS
  <2>1. \/ \E f \in Files : LoaderPanics(f) \/ LoaderAborts(f)
        \/ ApplyCutPanics
    BY DEF Next, Callbacks, Background, Loading, Reading, Uploading,
           Patching, Restart, vars, goVars, Open, Mknod, Rename, Unlink,
           Release, Truncate, TruncatePanics, Write, WriterWaits, ReadCall,
           ApplyLiveTx, LoaderLookup, LoaderStore, LoaderWaits, LoaderFails,
           ReadPoll, ReadCopy, UploadCount, UploadSeek, UploadCopy,
           UploadTx, UploadInsert, UploadClean, ApplyCut, ApplyCompare,
           ApplyPatch, PatchWaits, ApplyFails
  <2>2. ASSUME NEW f \in Files, LoaderPanics(f)
        PROVE  left'["fault"] # left["fault"] \/ Loads
    <3>1. CASE Spend("fault")
      BY <3>1, SpendTyped DEF DataInv, Events
    <3>2. CASE /\ MayPanic(files[loader[f].target],
                           LoadOffset(f) + Len(LoadBlock(f)))
               /\ loader[f].target = f /\ SoundTx(loader[f].tx)
      <4> DEFINE tx == loader[f].tx
                 i == Head(loader[f].todo)
      <4>1. /\ tx \in Tx /\ i \in Nat /\ i < Len(tx.blocks)
            /\ LoadOffset(f) \in Nat /\ Len(LoadBlock(f)) \in Nat
            /\ files[f] # None
            /\ LoaderSound(cacheType, loader[f], files[f], aux[f])
        BY <2>2, LoaderBlock DEF LoaderPanics
      <4>2. LoadOffset(f) = i * BlockSize /\ LoadBlock(f) = tx.blocks[i + 1]
        BY DEF LoadOffset, LoadBlock
      <4>3. LoadOffset(f) + Len(LoadBlock(f)) <= tx.size
        <5> HIDE DEF tx, i
        <5> QED
          BY <3>2, <4>1, <4>2, SoundBlockFits DEF tx
      <4>4. cacheType = "memory" => tx.size <= files[f].len
        BY <4>1 DEF LoaderSound
      <4>5. tx.size \in Nat /\ files[f].len \in Nat
        <5>1. files[f] \in Cache
          BY <4>1, FileThere DEF DataInv
        <5> QED
          BY <4>1, <5>1, TxFields, FileDataConstants, SMT DEF Cache
      <4>6. /\ cacheType = "memory"
            /\ LoadOffset(f) + Len(LoadBlock(f)) > files[f].len
        BY <3>2 DEF MayPanic
      <4> HIDE DEF tx, i
      <4> QED
        BY <4>1, <4>3, <4>4, <4>5, <4>6, SMT
    <3> QED
      BY <2>2, <3>1, <3>2 DEF LoaderPanics
  <2>3. ASSUME NEW f \in Files, LoaderAborts(f)
        PROVE  Looks
    <3>1. PICK kind \in {"map", "rename", "unlink"} : Spend(kind)
      BY <2>3 DEF LoaderAborts
    <3>2. left'[kind] # left[kind]
      BY <3>1, SpendTyped DEF DataInv, Events
    <3> QED
      BY <2>3, <3>2 DEF LoaderAborts
  <2>4. ASSUME ApplyCutPanics PROVE Cuts
    BY <2>4 DEF ApplyCutPanics
  <2> QED
    BY <2>1, <2>2, <2>3, <2>4
<1> QED
  BY <1>1, FileDataInductive, PTL DEF Spec, CrashNamed

(* An upload that has gathered every block, and all of them of the same    *)
(* file, has gathered the file.                                            *)
LEMMA CompleteTx ==
    ASSUME NEW j \in Job, NEW c, NEW a, JobShape(j), Complete(j, c, a),
           j.idx = j.end, ~j.raced,
           NEW tx, tx = [size |-> j.size, blocks |-> j.blocks]
    PROVE  /\ SoundTx(tx) /\ j.size = c.size
           /\ \A o \in Span(0, j.size) :
                Content(tx)[o] = a.ideal[o] \/ o \in j.bad
<1>1. /\ tx.size = j.size /\ tx.blocks = j.blocks
      /\ j.size = c.size /\ j.end = Blocks(j.size)
      /\ Len(j.blocks) = Blocks(j.size)
      /\ \A i \in DOMAIN j.blocks :
           Len(j.blocks[i]) = Min2(BlockSize, j.size - (i - 1) * BlockSize)
      /\ Gathered(j, a)
  BY DEF Complete
<1>2. /\ j.size \in Nat /\ j.size <= MaxSize /\ j.blocks \in Seq(Seq(Byte))
      /\ BlockSize \in Nat /\ MaxSize \in Nat
  BY FileDataConstants, SMT DEF Job
<1>3. SoundTx(tx)
  BY <1>1 DEF SoundTx
<1>4. ASSUME NEW o \in Span(0, j.size)
      PROVE  Content(tx)[o] = a.ideal[o] \/ o \in j.bad
  <2> DEFINE i == o \div BlockSize
             k == o % BlockSize
             ofst == i * BlockSize
  <2>1. o \in Nat /\ o < j.size /\ o \in Offsets
    BY <1>2, SMT DEF Span, Offsets
  <2>2. /\ i \in Nat /\ k \in 0..(BlockSize - 1) /\ k \in Nat
        /\ ofst \in Nat /\ o = ofst + k
    BY <1>2, <2>1, DivMod, SMT
  <2> HIDE DEF i, k
  <2>3. ofst < j.size
    <3> HIDE DEF ofst
    <3> QED
      BY <1>2, <2>1, <2>2, SMT
  <2>4. i < Blocks(j.size) /\ Blocks(j.size) \in Nat
    BY <1>2, <2>2, <2>3, BlocksBegin
  <2>5. i + 1 \in DOMAIN j.blocks /\ (i + 1) - 1 = i
    BY <1>1, <1>2, <2>2, <2>4, SMT
  <2>6. Len(j.blocks[i + 1]) = Min2(BlockSize, j.size - ofst)
    BY <1>1, <2>5
  <2>7. j.blocks[i + 1] \in Seq(Byte)
    BY <1>2, <2>5, SMT
  <2> HIDE DEF ofst
  <2>8. k < Len(j.blocks[i + 1])
    BY <1>2, <2>1, <2>2, <2>6, SMT DEF Min2
  <2>9. k + 1 \in DOMAIN j.blocks[i + 1] /\ ofst + (k + 1) - 1 = o
    BY <2>2, <2>7, <2>8, SMT
  <2>10. Content(tx)[o] = j.blocks[i + 1][k + 1]
    BY <1>1, <2>1, <2>4, <2>8 DEF Content, InBlock, i, k
  <2>11. j.blocks[i + 1][k + 1] = a.ideal[o] \/ o \in j.bad
    BY <1>1, <2>5, <2>9 DEF Gathered, ofst
  <2> QED
    BY <2>10, <2>11
<1> QED
  BY <1>1, <1>3, <1>4

(* Only the upload's own steps bring it to its transaction.                *)
LEMMA OthersKeepJobPc ==
    ASSUME DataInv, [Next]_vars, job # None, job' # None
    PROVE  \/ job'.pc = job.pc
           \/ Uploading
<1>1. job \in Job
  BY DEF DataInv, TypeOK
<1>2. \/ \E b \in BOOLEAN : \/ job' = [job EXCEPT !.torn = b]
                            \/ job' = [job EXCEPT !.moved = b]
                            \/ job' = [job EXCEPT !.raced = b]
      \/ job' = job \/ Uploading
  BY DEF Next, Callbacks, Background, Loading, Reading, Patching, Restart,
         Stopped, vars, goVars, Open, Mknod, Rename, Unlink, Release,
         Truncate, TruncatePanics, Write, WriterWaits, ReadCall,
         ApplyLiveTx, LoaderAborts, LoaderLookup, LoaderStore, LoaderPanics,
         LoaderWaits, LoaderFails, ReadPoll, ReadCopy, ApplyCut,
         ApplyCutPanics, ApplyCompare, ApplyPatch, PatchWaits, ApplyFails,
         Tear, RaceJob
<1>3. ASSUME NEW b \in BOOLEAN,
             \/ job' = [job EXCEPT !.torn = b]
             \/ job' = [job EXCEPT !.moved = b]
             \/ job' = [job EXCEPT !.raced = b]
      PROVE  job'.pc = job.pc
  <2>1. CASE job' = [job EXCEPT !.torn = b]
    BY <1>1, <2>1 DEF Job
  <2>2. CASE job' = [job EXCEPT !.moved = b]
    BY <1>1, <2>2 DEF Job
  <2>3. CASE job' = [job EXCEPT !.raced = b]
    BY <1>1, <2>3 DEF Job
  <2> QED
    BY <1>3, <2>1, <2>2, <2>3
<1> QED
  BY <1>2, <1>3

(* The transaction of an upload is the file as Release found it, with      *)
(* every byte that was ready and right, unless the file has changed since  *)
(* or the position of its temporary file was moved.                        *)
THEOREM FileDataUploadExact == Spec => UploadExact
<1> DEFINE Exact ==
             /\ job # None /\ job' # None
             /\ job.pc # "tx" /\ job'.pc = "tx"
             /\ ~job.torn /\ ~job'.raced
             => LET f == job.file IN
                /\ SoundTx(JobTx')
                /\ job'.size = files[f].size
                /\ \A o \in Span(0, job'.size) :
                     Content(JobTx')[o] = aux[f].ideal[o] \/ o \in job'.bad
<1>1. DataInv /\ [Next]_vars => Exact
  <2> SUFFICES ASSUME DataInv, [Next]_vars, job # None, job' # None,
                      job.pc # "tx", job'.pc = "tx", ~job.torn, ~job'.raced
               PROVE  /\ SoundTx(JobTx')
                      /\ job'.size = files[job.file].size
                      /\ \A o \in Span(0, job'.size) :
                           \/ Content(JobTx')[o] = aux[job.file].ideal[o]
                           \/ o \in job'.bad
    OBVIOUS
  <2> DEFINE c == files[job.file]
             a == aux[job.file]
  <2>1. /\ job \in Job /\ job.file \in Files /\ files[job.file] # None
        /\ JobShape(job) /\ JobExact(cacheType, job, c, a)
        /\ job.idx \in Nat /\ job.size \in Nat
        /\ job.pc = "copy" => job.idx * BlockSize + BlockSize <= MaxSize
        /\ job.blocks \in Seq(Seq(Byte))
    BY JobThere
  <2>2. /\ c \in Cache /\ a \in History /\ Sound(cacheType, c, a)
        /\ cacheType \in {"memory", "disk"}
    BY <2>1, FileThere DEF DataInv, FilesInv
  <2>3. Uploading
    BY OthersKeepJobPc
  <2>4. job' \in Job /\ JobShape(job')
    BY DataInvNext DEF DataInv, JobInv, TypeOK
  <2>5. Complete(job', c, a) /\ job'.idx = job'.end
    <3>1. CASE UploadCount
      <4> DEFINE n == Blocks(c.size)
      <4>1. /\ job.pc = "count"
            /\ job' = [job EXCEPT !.end = n,
                                  !.pc = IF n = 0 THEN "tx" ELSE "seek"]
        BY <3>1 DEF UploadCount
      <4> HIDE DEF n, c, a
      <4>2. /\ job'.pc = IF n = 0 THEN "tx" ELSE "seek"
            /\ job'.end = n /\ job'.size = job.size /\ job'.idx = job.idx
            /\ job'.blocks = job.blocks
        BY <2>1, <4>1 DEF Job
      <4>3. n = 0 /\ job.size = c.size /\ job.idx = 0 /\ Len(job.blocks) <= 0
        BY <2>1, <4>1, <4>2 DEF JobExact, JobShape
      <4>4. job.blocks = <<>> /\ Len(job.blocks) = 0 /\ DOMAIN job.blocks = {}
        BY <2>1, <4>3, SMT
      <4> QED
        BY <4>2, <4>3, <4>4 DEF Complete, Gathered, n
    <3>2. CASE UploadSeek
      <4>1. job.pc = "seek"
        BY <3>2 DEF UploadSeek
      <4>2. CASE job.idx * BlockSize > c.size
        BY <2>1, <4>1, <4>2, SkipTorn
      <4>3. CASE job' =
                   [job EXCEPT !.pc = "copy",
                      !.n = Min2(BlockSize, c.size - job.idx * BlockSize)]
        BY <2>1, <4>3 DEF Job
      <4> QED
        BY <3>2, <4>2, <4>3 DEF UploadSeek
    <3>3. CASE UploadCopy
      <4>1. /\ job.pc = "copy"
            /\ \/ job' = Sent(job, c, a)
               \/ job' = [job EXCEPT !.pc = "clean"]
        BY <3>3 DEF UploadCopy, Sent, CopyBuf, CopyBad
      <4> HIDE DEF c, a
      <4>2. job' = Sent(job, c, a)
        BY <2>1, <4>1 DEF Job
      <4>3. Complete(job', c, a)
        BY <2>1, <2>2, <4>1, <4>2, SentComplete
      <4>4. /\ job'.idx = job.idx + 1 /\ job'.end = job.end
            /\ job'.pc = IF job.idx + 1 = job.end THEN "tx" ELSE "seek"
        BY <2>1, <2>2, <4>1, <4>2, SentFields
      <4> QED
        BY <4>3, <4>4
    <3>4. CASE UploadTx \/ UploadInsert \/ UploadClean
      BY <2>1, <3>4 DEF UploadTx, UploadInsert, UploadClean, Job
    <3> QED
      BY <2>3, <3>1, <3>2, <3>3, <3>4 DEF Uploading
  <2> DEFINE tx == [size |-> job'.size, blocks |-> job'.blocks]
  <2>6. /\ SoundTx(tx) /\ job'.size = c.size
        /\ \A o \in Span(0, job'.size) :
             Content(tx)[o] = a.ideal[o] \/ o \in job'.bad
    <3>1. tx = [size |-> job'.size, blocks |-> job'.blocks]
      OBVIOUS
    <3> HIDE DEF tx, c, a
    <3> QED
      BY <2>4, <2>5, <3>1, CompleteTx
  <2>7. JobTx' = tx
    BY DEF JobTx
  <2> HIDE DEF tx
  <2> QED
    BY <2>6, <2>7
<1> QED
  BY <1>1, FileDataInductive, PTL DEF Spec, UploadExact

(* Only the Read itself, or the end of the process, makes it return.       *)
LEMMA OthersKeepPoll ==
    ASSUME DataInv, [Next]_vars, NEW r \in Readers,
           reader[r].pc = "poll", reader'[r].pc = "idle",
           left'["restart"] = left["restart"]
    PROVE  ReadPoll(r)
<1>1. reader \in [Readers -> Reader]
  BY DEF DataInv, TypeOK
<1>2. ~Restart
  BY SpendTyped DEF DataInv, Events, Restart
<1>3. reader' # reader
  OBVIOUS
<1>4. \A f : Race(f)[r] = reader[r]
  BY DEF Race, Sharing
<1>5. \/ \E q \in Readers, x \in ReadExtents : ReadCall(q, x[1], x[2])
      \/ \E q \in Readers : ReadPoll(q) \/ ReadCopy(q)
      \/ \E f : reader' = Race(f)
  BY <1>2, <1>3
     DEF Next, Callbacks, Background, Loading, Reading, Uploading, Patching,
         vars, goVars, Open, Mknod, Rename, Unlink, Release, Truncate,
         TruncatePanics, Write, WriterWaits, ApplyLiveTx, LoaderAborts,
         LoaderLookup, LoaderStore, LoaderPanics, LoaderWaits, LoaderFails,
         UploadCount, UploadSeek, UploadCopy, UploadTx, UploadInsert,
         UploadClean, ApplyCut, ApplyCutPanics, ApplyCompare, ApplyPatch,
         PatchWaits, ApplyFails
<1>6. ASSUME NEW q \in Readers, q # r,
             \/ \E x \in ReadExtents : ReadCall(q, x[1], x[2])
             \/ ReadPoll(q) \/ ReadCopy(q)
      PROVE  reader'[r] = reader[r]
  <2>1. /\ \A y : [reader EXCEPT ![q] = y][r] = reader[r]
        /\ \A f, y : [Race(f) EXCEPT ![q] = y][r] = reader[r]
    BY <1>1, <1>4, <1>6 DEF Race
  <2>2. \/ \E y : reader' = [reader EXCEPT ![q] = y]
        \/ \E f, y : reader' = [Race(f) EXCEPT ![q] = y]
    <3>1. CASE \E x \in ReadExtents : ReadCall(q, x[1], x[2])
      BY <3>1 DEF ReadCall
    <3>2. CASE ReadPoll(q)
      <4> DEFINE f == reader[q].file
                 y == [Race(f)[q] EXCEPT !.pc = "copy",
                        !.len = Clipped(files[f], reader[q].ofst,
                                   Min2(bytesReady(Ready(files[f].load),
                                                   reader[q].ofst), @))]
                 z == IF reader[q].retries < MaxRetries
                      THEN Again(reader[q]) ELSE IdleReader
      <4>1. \/ reader' = [Race(f) EXCEPT ![q] = y]
            \/ reader' = [reader EXCEPT ![q] = z]
        BY <1>1, <3>2 DEF ReadPoll, Race
      <4> QED
        BY <4>1
    <3>3. CASE ReadCopy(q)
      <4> DEFINE y == [reader[q] EXCEPT !.pc = "panicked"]
      <4>1. \/ reader' = [reader EXCEPT ![q] = y]
            \/ reader' = [Race(reader[q].file) EXCEPT ![q] = IdleReader]
        BY <3>3 DEF ReadCopy
      <4> QED
        BY <4>1
    <3> QED
      BY <1>6, <3>1, <3>2, <3>3
  <2> QED
    BY <2>1, <2>2
<1>7. ~ReadCopy(r) /\ \A x \in ReadExtents : ~ReadCall(r, x[1], x[2])
  BY DEF ReadCopy, ReadCall
<1> QED
  BY <1>4, <1>5, <1>6, <1>7

(* A Read that returns nothing has polled to the end, and the byte that it *)
(* asked for is beyond the end of the file, nobody fetches it, its loader  *)
(* has stopped or not come to it, or the file is not the one of its path   *)
(* any more.                                                               *)
THEOREM FileDataEmptyReadNamed == Spec => EmptyReadNamed
<1> DEFINE Reason(r) ==
             LET f == reader[r].file
                 o == reader[r].ofst IN
             /\ reader[r].retries >= MaxRetries
             /\ \/ files[f].size <= o
                \/ o \in aux[f].holes \cup Awaited(f)
                \/ loader[f].pc = "stopped"
                \/ open # f
           Named == \A r \in Readers :
                      reader[r].pc = "poll" /\ reader'[r].pc = "idle"
                      /\ left'["restart"] = left["restart"]
                      => Reason(r)
<1>1. DataInv /\ [Next]_vars => Named
  <2> SUFFICES ASSUME DataInv, [Next]_vars, NEW r \in Readers,
                      reader[r].pc = "poll", reader'[r].pc = "idle",
                      left'["restart"] = left["restart"]
               PROVE  Reason(r)
    OBVIOUS
  <2> DEFINE f == reader[r].file
             o == reader[r].ofst
             c == files[f]
             n == bytesReady(Ready(c.load), o)
  <2>1. ReadPoll(r)
    BY OthersKeepPoll
  <2>2. /\ reader[r] \in Reader /\ o \in Nat /\ f \in Files
        /\ c \in Cache /\ Sound(cacheType, c, aux[f])
    BY ReaderThere
  <2>3. n = 0 /\ ~(reader[r].retries < MaxRetries)
    <3>1. reader \in [Readers -> Reader]
      BY DEF DataInv, TypeOK
    <3>2. CASE n > 0
               /\ reader' = [Race(f) EXCEPT ![r].pc = "copy",
                     ![r].len = Clipped(c, o, Min2(n, @))]
      <4> DEFINE k == Clipped(c, o, Min2(n, reader[r].len))
      <4>1. Race(f)[r] = reader[r]
        BY DEF Race, Sharing
      <4>2. reader' = [Race(f) EXCEPT
                          ![r] = [reader[r] EXCEPT !.pc = "copy", !.len = k]]
        <5> DEFINE y == [Race(f)[r] EXCEPT !.pc = "copy",
                            !.len = Clipped(c, o, Min2(n, @))]
        <5>1. Race(f)[r].len = reader[r].len
          BY <4>1
        <5>2. y = [reader[r] EXCEPT !.pc = "copy", !.len = k]
          BY <4>1, <5>1
        <5>3. reader' = [Race(f) EXCEPT ![r] = y]
          BY <3>2
        <5> QED
          BY <5>2, <5>3
      <4> HIDE DEF k
      <4>3. reader'[r] = [reader[r] EXCEPT !.pc = "copy", !.len = k]
        BY <4>2 DEF Race
      <4> QED
        BY <2>2, <4>3 DEF Reader
    <3>3. CASE n = 0
               /\ reader' = [reader EXCEPT ![r] =
                     IF @.retries < MaxRetries THEN Again(@)
                     ELSE IdleReader]
      <4>1. CASE reader[r].retries < MaxRetries
        <5>1. reader'[r] = Again(reader[r])
          BY <3>1, <3>3, <4>1
        <5>2. reader'[r].pc = reader[r].pc
          BY <2>2, <5>1 DEF Again, Reader
        <5> QED
          BY <5>2
      <4> QED
        BY <3>3, <4>1
    <3> QED
      BY <2>1, <3>2, <3>3 DEF ReadPoll
  <2>4. reader[r].retries >= MaxRetries
    <3>1. reader[r].retries \in Nat /\ MaxRetries \in Nat
      BY <2>2, FileDataConstants DEF Reader
    <3> QED
      BY ONLY <2>3, <3>1, SMT
  <2>5. o \notin Ready(c.load)
    <3>1. Ready(c.load) \in SUBSET Nat
      BY <2>2, ReadyOf
    <3> HIDE DEF c, o
    <3>2. o + n \notin Ready(c.load)
      BY <2>2, <3>1, BytesReady DEF Sound
    <3>3. o + n = o
      BY <2>2, <2>3, SMT
    <3> QED
      BY <3>2, <3>3
  <2>6. ASSUME o < c.size, open = f, loader[f].pc # "stopped"
        PROVE  o \in aux[f].holes \cup Awaited(f)
    <3>1. c.lock # "kept"
      BY <2>1 DEF ReadPoll, RLock
    <3>2. Reach(loader[f], c, aux[f])
      BY <2>2, <2>6 DEF DataInv, LoadersInv, LoaderAt
    <3>3. o \in Span(0, c.size)
      <4>1. c.size \in Nat
        BY <2>2, FileDataConstants, SMT DEF Cache
      <4> HIDE DEF o, c
      <4> QED
        BY <2>2, <2>6, <4>1, SMT DEF Span
    <3> HIDE DEF o, c, f
    <3>4. o \in aux[f].holes \/ Awaits(loader[f], o)
      BY <2>5, <3>1, <3>2, <3>3 DEF Reach
    <3> QED
      BY <3>4 DEF Awaits, Awaited
  <2>7. o < c.size \/ c.size <= o
    <3>1. c.size \in Nat
      BY <2>2, FileDataConstants, SMT DEF Cache
    <3> HIDE DEF o, c
    <3> QED
      BY <2>2, <3>1, SMT
  <2> QED
    BY <2>4, <2>6, <2>7
<1> QED
  BY <1>1, FileDataInductive, PTL DEF Spec, EmptyReadNamed
=============================================================================


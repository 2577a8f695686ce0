------------------------------ MODULE FileData ------------------------------
(***************************************************************************)
(* The data plane of one path at one client: the FileData open under it    *)
(* with its cache (cache.go), the loader that Open starts, Read, Write and *)
(* Truncate, the block-wise upload of Release, and the block-wise patch of *)
(* ApplyLiveTx (fs.go).                                                    *)
(*                                                                         *)
(* A byte is a pair: who wrote it, and the offset it was written for.  A   *)
(* file id stands for the content of its block, which never changes, and   *)
(* equal contents for equal checksums.  file.load is its ranges without    *)
(* their order.  One upload and one patch run at a time; the flag syncing, *)
(* the order of transactions and other paths are Dsfs'.                    *)
(*                                                                         *)
(* Write, Truncate, the loader and the patch hold the file's lock when     *)
(* they change it: one step each.  Read and the upload share that lock and *)
(* read in two steps, since DiskCache first seeks and then reads at the    *)
(* position of the one os.File.  Callbacks find the file under fs.lock and *)
(* then use it; only Read, which polls, may outlive what it found.         *)
(***************************************************************************)
EXTENDS Integers, Sequences, FiniteSets

CONSTANTS
    BlockSize,     \* FileBlockSize
    MaxSize,       \* bound on the size of a file
    MaxRetries,    \* polls of a Read before it gives up
    Files,         \* FileData pointers, numbered as they are made
    Readers,       \* threads that may be in Read
    CacheTypes,    \* values of the flag -c
    StoredTxs,     \* what earlier sessions may have left at the path
    RemoteTxs,     \* what another client may post for the path
    ReadExtents,   \* <<offset, length>> of Reads
    WriteExtents,  \* <<offset, length>> of Writes
    Sizes,         \* arguments of Truncate
    Workloads,     \* how often each kind of event may happen
    None

Offsets == 0..(MaxSize - 1)
Byte == Nat \X Nat
Zero == <<0, 0>>
Junk(o) == <<0, o + 1>>       \* the body of an error page

(* Mutant: a partial last block is not counted.                            *)
FullBlocks(size) == size \div BlockSize

(* Transactions: a size and the contents of the blocks, none longer than   *)
(* BlockSize.                                                              *)
Blocks(size) == (size + BlockSize - 1) \div BlockSize
Tx == {tx \in [size : 0..MaxSize, blocks : Seq(Seq(Byte))] :
         /\ Len(tx.blocks) <= Blocks(MaxSize)
         /\ \A i \in DOMAIN tx.blocks : Len(tx.blocks[i]) <= BlockSize}

Ranges == SUBSET (Nat \X Nat)
Load == [ranges : Ranges, twice : Ranges]

(* lock is "kept" when a callback panicked with the write lock, "barred"   *)
(* when a writer waits for the read lock of a Read that panicked.          *)
Cache == [data : [Offsets -> Byte], size : 0..MaxSize, len : 0..MaxSize,
          pos : Nat, load : Load, dirty : BOOLEAN,
          lock : {"free", "barred", "kept"}]
History == [ideal : [Offsets -> Byte], touched : SUBSET Offsets,
            spoilt : SUBSET Nat, holes : SUBSET Nat, over : SUBSET Nat]

BlockNumber == 0..(Blocks(MaxSize) - 1)
Loader == [pc : {"none", "lookup", "store", "done", "stopped"},
           tx : Tx \cup {None}, todo : Seq(BlockNumber),
           target : Files \cup {None}, moved : BOOLEAN]
Reader == [pc : {"idle", "poll", "copy", "panicked"},
           file : Files \cup {None}, ofst : Nat, len : Int, retries : Nat,
           raced : BOOLEAN]
Job == [pc : {"count", "seek", "copy", "tx", "insert", "clean"},
        file : Files, size : 0..MaxSize, old : Seq(Seq(Byte)), idx : Nat,
        end : Nat, n : 0..BlockSize, blocks : Seq(Seq(Byte)),
        moved : BOOLEAN, torn : BOOLEAN, raced : BOOLEAN, bad : SUBSET Nat]
Patch == [pc : {"cut", "compare", "patch"}, file : Files, tx : Tx,
          idx : Nat, n : 0..BlockSize, touched : SUBSET Offsets]
Events == {"write", "truncate", "read", "release", "remote", "rename",
           "unlink", "map", "restart", "fault"}

ASSUME FileDataConstants ==
    /\ BlockSize \in Nat \ {0}
    /\ MaxSize \in Nat /\ MaxSize % BlockSize = 0
    /\ MaxRetries \in Nat
    /\ Files \subseteq Nat
    /\ CacheTypes \subseteq {"memory", "disk"}
    /\ StoredTxs \subseteq Tx \cup {None} /\ RemoteTxs \subseteq Tx
    /\ Sizes \subseteq 0..MaxSize
    /\ ReadExtents \subseteq Nat \X (Nat \ {0})
    /\ WriteExtents \subseteq Nat \X (Nat \ {0})
    /\ \A x \in WriteExtents : x[1] + x[2] <= MaxSize
    /\ Workloads \subseteq [Events -> Nat]
    /\ None \notin Files \cup Tx \cup Cache \cup History \cup Job \cup Patch

VARIABLES
    cacheType,  \* fs.cacheType
    db,         \* the transaction of the path, or None
    posted,     \* the last transaction of the path in the tx channel
    open,       \* fs.open[path], or None
    files,      \* the FileData objects with their caches
    loader,     \* loader[f]: the goroutine that the Open of f started
    reader,     \* reader[r]: a Read
    job,        \* the upload goroutine of Release, or None
    patch,      \* the ApplyLiveTx under way, or None
    crashed,    \* a goroutine has panicked or aborted: the process is gone
    left,       \* events that may still happen
    aux         \* history, per file: see below

vars == <<cacheType, db, posted, open, files, loader, reader, job, patch,
          crashed, left, aux>>
fsVars == <<cacheType, db, posted, open>>
goVars == <<loader, reader, job, patch>>

-----------------------------------------------------------------------------
Min2(a, b) == IF a < b THEN a ELSE b
Max2(a, b) == IF a > b THEN a ELSE b
Span(ofst, n) == ofst..(ofst + n - 1)

(* Mutant: the loop over the other blocks ends one early.                  *)
SkipsOne(n) == [k \in 1..Min2(n, 2) |-> IF k = 1 THEN 0 ELSE n - 1]

InBlock(tx, o) == /\ o \div BlockSize < Len(tx.blocks)
                  /\ o % BlockSize < Len(tx.blocks[(o \div BlockSize) + 1])
Content(tx) == [o \in Offsets |->
    IF o < tx.size /\ InBlock(tx, o)
    THEN tx.blocks[(o \div BlockSize) + 1][(o % BlockSize) + 1] ELSE Zero]
SoundTx(tx) ==
    /\ Len(tx.blocks) = Blocks(tx.size)
    /\ \A i \in DOMAIN tx.blocks :
        Len(tx.blocks[i]) = Min2(BlockSize, tx.size - (i - 1) * BlockSize)

(* The order of a loader: the first block, the last, the others.           *)
LoadOrder(n) ==
    [k \in 1..n |-> IF k = 1 THEN 0 ELSE IF k = 2 THEN n - 1 ELSE k - 2]

(* Mutant: a slice that grows again shows what it had.                     *)
KeepsHidden(c, size) ==
    IF cacheType = "disk" THEN {o \in Offsets : o >= size} ELSE {}

(* cache.go.  len is the length of the temporary file, or the capacity of  *)
(* the slice as far as the calls so far show it: what lies in size..len is *)
(* out of sight.  A file shrinks by losing its bytes; a slice by being     *)
(* re-sliced, and it is zeroed as it grows again.                          *)
Wiped(c, size) ==
    IF cacheType = "disk" THEN {o \in Offsets : o >= size}
    ELSE {o \in Offsets : c.size <= o /\ o < size}

(* A mutant: a slice is reallocated to the new size.                       *)
Reallocates(c, size) ==
    [c EXCEPT !.size = size,
              !.data = [o \in Offsets |->
                            IF o \in Wiped(c, size) THEN Zero ELSE c.data[o]],
              !.len = size]

CacheTruncate(c, size) ==
    [c EXCEPT !.size = size,
              !.data = [o \in Offsets |->
                            IF o \in Wiped(c, size) THEN Zero ELSE c.data[o]],
              !.len = IF cacheType = "disk" THEN size ELSE Max2(c.len, size)]

WriteRange(c, ofst, buf) ==
    [c EXCEPT !.data = [o \in Offsets |->
                            IF o \in Span(ofst, Len(buf))
                            THEN buf[o - ofst + 1] ELSE c.data[o]],
              !.len = IF buf = <<>> THEN c.len
                      ELSE Max2(c.len, ofst + Len(buf))]

(* c.data[start:end] may not reach beyond the capacity.                    *)
MayPanic(c, end) == cacheType = "memory" /\ end > c.len

(* n bytes from where the file's position is, or for a slice from ofst.    *)
ReadRange(c, ofst, n) ==
    LET start == IF cacheType = "disk" THEN c.pos ELSE ofst IN
    [k \in 1..Min2(n, c.len - start) |-> c.data[start + k - 1]]

(* load.go: the ranges <<start, end>> of the list, and which of them are   *)
(* in it more than once.                                                   *)
newLoad == [ranges |-> {}, twice |-> {}]
Ready(load) == UNION {x[1]..(x[2] - 1) : x \in load.ranges}

addRange(load, start, end) ==
    [ranges |-> load.ranges \cup {<<start, end>>},
     twice |-> load.twice \cup (load.ranges \cap {<<start, end>>})]

isReady(load, start, end) ==
    start \in Ready(load) /\ start..(end - 1) \subseteq Ready(load)

AddUnready(load, start, end) ==
    IF isReady(load, start, end) THEN load ELSE addRange(load, start, end)

(* Mutant: load.truncate keeps ranges that straddle the end.               *)
KeepsAll(load, end) == load

(* load.truncate, when it returns.                                         *)
CutTo(x, end) == <<x[1], Min2(x[2], end)>>
Trim(load, end) ==
    LET kept == {x \in load.ranges : x[1] < end}
        merged == {x \in kept : \E y \in kept \ {x} :
                                   CutTo(y, end) = CutTo(x, end)} IN
    [ranges |-> {CutTo(x, end) : x \in kept},
     twice |-> {CutTo(x, end) : x \in (kept \cap load.twice) \cup merged}]

(* It removes by moving the last range to the front, and then looks at     *)
(* where that was: a panic, in some order of the list, when one range lies *)
(* beyond the end and another reaches beyond it (Load has the loop).  In   *)
(* another order of the same ranges it returns, so both steps are there.   *)
Beyond(load, end) == {x \in load.ranges : x[1] >= end}
Across(load, end) == {x \in load.ranges : x[1] < end /\ end < x[2]}
IndexOut(load, end) ==
    \E x \in Beyond(load, end) :
        \/ x \in load.twice
        \/ (Beyond(load, end) \cup Across(load, end)) \ {x} # {}

(* What the panic leaves: some are removed, some are shortened.            *)
HalfTrimmed(load, end) ==
    {[ranges |-> (load.ranges \ (gone \cup cut))
                     \cup {CutTo(x, end) : x \in cut},
      twice |-> load.twice \ (gone \cup cut)] :
        gone \in SUBSET Beyond(load, end), cut \in SUBSET Across(load, end)}

NewFileData(size) ==
    [data |-> [o \in Offsets |-> Zero], size |-> size, len |-> size, pos |-> 0,
     load |-> newLoad, dirty |-> FALSE, lock |-> "free"]

(* The cache and its load after Truncate, after Write, after a downloaded  *)
(* block, which makes load of its load, and after the Truncate of a remote *)
(* transaction.                                                            *)
Truncated(c, size) ==
    [CacheTruncate(c, size) EXCEPT
        !.load = IF size < c.size THEN Trim(@, size)
                 ELSE addRange(@, c.size, c.size + size),
        !.dirty = TRUE]
Grown(c, end) == IF end > c.size THEN CacheTruncate(c, end) ELSE c
Written(c, ofst, buf) ==
    [WriteRange(Grown(c, ofst + Len(buf)), ofst, buf) EXCEPT
        !.load = AddUnready(@, ofst, ofst + Len(buf)), !.dirty = TRUE]
Stored(c, ofst, buf, load) ==
    [WriteRange(c, ofst, buf) EXCEPT !.load = load]
Replaced(c, size) ==
    [CacheTruncate(c, size) EXCEPT
        !.load = IF size < c.size THEN Trim(@, size) ELSE @]

-----------------------------------------------------------------------------
(* History.  ideal is the file as a byte array: what Write, Truncate, and  *)
(* a remote transaction make of it, zero beyond its size.  touched are the *)
(* offsets that are no longer, or never were, the loader's to fill.  The   *)
(* others name the defects of the code, where one has bitten:              *)
(*   spoilt  bytes put there by a late, failed or misdirected download;    *)
(*   holes   bytes below the end that nobody will fetch;                   *)
(*   over    offsets marked as ready beyond the end.                       *)
NewAux(ideal, size, holes) ==
    [ideal |-> ideal, touched |-> {o \in Offsets : o >= size},
     spoilt |-> {}, holes |-> holes, over |-> {}]

(* What cache.Truncate does to the bytes that are wrong.                   *)
Cleansed(c, a, size) == a.spoilt \ Wiped(c, size)

(* The offsets that Truncate and Write touch.                              *)
TouchedByTruncate(c, size) == {o \in Offsets : o >= Min2(c.size, size)}
TouchedByWrite(c, ofst, n) == Span(ofst, n) \cup c.size..(ofst + n - 1)

(* The history a of the cache c after the same four changes.  A stored     *)
(* block of n bytes is wrong at the offsets in bad, and leaves out those   *)
(* in missed.                                                              *)
AfterTruncate(c, a, size) ==
    [ideal |-> [o \in Offsets |-> IF o < size THEN a.ideal[o] ELSE Zero],
     touched |-> a.touched \cup TouchedByTruncate(c, size),
     spoilt |-> Cleansed(c, a, size),
     holes |-> a.holes \ TouchedByTruncate(c, size),
     over |-> IF size < c.size THEN {o \in a.over : o < size}
              ELSE a.over \cup (Span(c.size, size) \ Span(0, size))]
AfterWrite(c, a, ofst, buf) ==
    LET span == Span(ofst, Len(buf))
        end == ofst + Len(buf) IN
    [ideal |-> [o \in Offsets |->
        IF o \in span THEN buf[o - ofst + 1] ELSE a.ideal[o]],
     touched |-> a.touched \cup TouchedByWrite(c, ofst, Len(buf)),
     spoilt |-> (IF end > c.size THEN Cleansed(c, a, end) ELSE a.spoilt)
                    \ span,
     holes |-> (a.holes \cup c.size..(ofst - 1)) \ span,
     over |-> a.over]
AfterStore(c, a, ofst, n, bad, missed) ==
    LET span == Span(ofst, n) IN
    [a EXCEPT !.spoilt = (a.spoilt \ span) \cup (bad \cap span),
              !.holes = (a.holes \ span) \cup missed,
              !.over = a.over \cup {o \in span : o >= c.size}]
AfterReplace(c, a, tx) ==
    [ideal |-> Content(tx),
     touched |-> Offsets,
     spoilt |-> Cleansed(c, a, tx.size) \cup Span(0, tx.size),
     holes |-> {o \in a.holes : o < tx.size} \cup c.size..(tx.size - 1),
     over |-> IF tx.size < c.size THEN {o \in a.over : o < tx.size}
              ELSE a.over]

Spend(kind) == left[kind] > 0 /\ left' = [left EXCEPT ![kind] = @ - 1]

(* A change of f by anyone but its loader, at the offsets S.               *)
Tear(f) ==
    job' = IF job # None /\ job.file = f /\ job.pc \in {"count", "seek"}
           THEN [job EXCEPT !.torn = TRUE] ELSE job
Overtake(f, S) ==
    patch' = IF patch # None /\ patch.file = f
             THEN [patch EXCEPT !.touched = @ \cup S] ELSE patch

-----------------------------------------------------------------------------
(* The file's lock.  Lock waits for those who share it.  A Read that has   *)
(* panicked never gives it back, and who waits for that bars the way to    *)
(* everyone, since a sync.RWMutex is not shared while a writer waits; who  *)
(* waits for others delays them, which the order of steps covers.          *)
Sharing(f) == {r \in Readers : reader[r].file = f
                                /\ reader[r].pc \in {"copy", "panicked"}}
JobSharing(f) == job # None /\ job.file = f /\ job.pc = "copy"
RLock(f) == files[f].lock = "free"
Lock(f) == RLock(f) /\ Sharing(f) = {} /\ ~JobSharing(f)

LeftShared(f) ==
    \E r \in Readers : reader[r].file = f /\ reader[r].pc = "panicked"
Bar(f) ==
    /\ LeftShared(f) /\ RLock(f)
    /\ files' = [files EXCEPT ![f].lock = "barred"]

(* Seeking or reading moves the position under everyone else's feet.       *)
Race(f) == [r \in Readers |->
    IF r \in Sharing(f) THEN [reader[r] EXCEPT !.raced = TRUE] ELSE reader[r]]
RaceJob(f) ==
    IF JobSharing(f) THEN [job EXCEPT !.raced = TRUE] ELSE job

Seek(c, ofst) ==
    IF cacheType = "disk" THEN [c EXCEPT !.pos = ofst] ELSE c

(* The position matters only while someone is going to read there.         *)
Advance(c, n, last) ==
    [c EXCEPT !.pos = IF last \/ cacheType = "memory" THEN 0 ELSE @ + n]

-----------------------------------------------------------------------------
(* Opening, creating and removing the file.                                *)

Unused == {f \in Files : files[f] = None /\ \A g \in Files :
                g < f => files[g] # None}
NoLoader == [pc |-> "none", tx |-> None, todo |-> <<>>, target |-> None,
             moved |-> FALSE]

Open ==
    /\ open = None /\ db # None
    /\ \E f \in Unused :
        /\ open' = f
        /\ files' = [files EXCEPT ![f] = NewFileData(db.size)]
        /\ loader' = [loader EXCEPT ![f] =
            [pc |-> IF db.blocks = <<>> THEN "done" ELSE "lookup", tx |-> db,
             todo |-> LoadOrder(Len(db.blocks)), target |-> None,
             moved |-> FALSE]]
        /\ aux' = [aux EXCEPT ![f] = NewAux(Content(db), db.size,
                {o \in Offsets : o < db.size /\ ~InBlock(db, o)})]
    /\ UNCHANGED <<cacheType, db, posted, reader, job, patch, crashed, left>>

Mknod ==
    /\ open = None /\ db = None
    /\ \E f \in Unused :
        /\ open' = f
        /\ files' = [files EXCEPT ![f] = NewFileData(0)]
        /\ loader' = [loader EXCEPT ![f] = NoLoader]
        /\ aux' = [aux EXCEPT ![f] = NewAux([o \in Offsets |-> Zero], 0, {})]
    /\ UNCHANGED <<cacheType, db, posted, reader, job, patch, crashed, left>>

(* The model follows the file to its new name, and its entry with it (the  *)
(* steps of that are Dsfs').  Its loader and its upload still use the old  *)
(* name: the loader finds nothing there, the upload posts for it.          *)
Rename ==
    /\ Spend("rename")
    /\ open # None
    /\ loader' = [loader EXCEPT ![open].moved = TRUE]
    /\ job' = IF job = None THEN None ELSE [job EXCEPT !.moved = TRUE]
    /\ UNCHANGED <<fsVars, files, reader, patch, crashed, aux>>

(* Goroutines and Reads keep the FileData they have found.                 *)
Unlink ==
    /\ Spend("unlink")
    /\ open # None \/ db # None
    /\ open' = None /\ db' = None /\ posted' = None
    /\ UNCHANGED <<cacheType, files, goVars, crashed, aux>>

-----------------------------------------------------------------------------
(* The loader.  It looks fs.open[path] up for every block, without         *)
(* fs.lock, downloads, and then takes the lock of what it found.           *)

(* A map write under fs.lock at that moment, by a callback that opens,     *)
(* makes, renames or removes this file or another: Go stops the process.   *)
LoaderAborts(f) ==
    /\ loader[f].pc = "lookup"
    /\ \E kind \in {"map", "rename", "unlink"} : Spend(kind)
    /\ crashed' = TRUE
    /\ UNCHANGED <<fsVars, files, goVars, aux>>

LoaderLookup(f) ==
    LET g == IF loader[f].moved THEN None ELSE open IN
    /\ loader[f].pc = "lookup"
    /\ loader' = [loader EXCEPT ![f].target = g,
                    ![f].pc = IF g = None THEN "stopped" ELSE "store"]
    /\ UNCHANGED <<fsVars, files, reader, job, patch, crashed, left, aux>>

(* What getDataFile leaves in the buffer is the block or, since it does    *)
(* not look at the status, an error page of any length that fits.          *)
ErrorPage(ofst, n) == [k \in 1..n |-> Junk(ofst + k - 1)]

(* The download written to g at ofst and marked as ready, in load.         *)
Store(g, ofst, buf, load, bad, missed) ==
    /\ files' = [files EXCEPT ![g] = Stored(files[g], ofst, buf, load)]
    /\ aux' = [aux EXCEPT ![g] =
            AfterStore(files[g], aux[g], ofst, Len(buf), bad, missed)]

(* What the loader has still to bring.                                     *)
Awaited(f) ==
    UNION {Span(loader[f].todo[k] * BlockSize, BlockSize) :
            k \in DOMAIN loader[f].todo}

(* What a block overwrites that it should not.                             *)
Late(f, g) == IF f = g THEN aux[f].touched ELSE Offsets

NextLoad(f) ==
    [loader EXCEPT ![f].todo = Tail(@),
        ![f].pc = IF Len(loader[f].todo) = 1 THEN "done" ELSE "lookup"]

LoadOffset(f) == Head(loader[f].todo) * BlockSize
LoadBlock(f) == loader[f].tx.blocks[Head(loader[f].todo) + 1]

WithRange(f, n) ==
    addRange(files[loader[f].target].load, LoadOffset(f), LoadOffset(f) + n)

LoaderStore(f) ==
    LET g == loader[f].target
        ofst == LoadOffset(f)
        len == Len(LoadBlock(f)) IN
    /\ loader[f].pc = "store"
    /\ Lock(g)
    /\ \/ /\ Store(g, ofst, LoadBlock(f), WithRange(f, len), Late(f, g), {})
          /\ UNCHANGED left
       \/ /\ Spend("fault")
          /\ \E n \in 0..BlockSize :
                Store(g, ofst, ErrorPage(ofst, n), WithRange(f, n), Offsets,
                      Span(ofst, len) \ Span(ofst, n))
    /\ loader' = NextLoad(f)
    /\ UNCHANGED <<fsVars, reader, job, patch, crashed>>

(* The slice is too short for the block: a panic in a goroutine.           *)
LoaderPanics(f) ==
    LET c == files[loader[f].target] IN
    /\ loader[f].pc = "store"
    /\ Lock(loader[f].target)
    /\ \/ /\ MayPanic(c, LoadOffset(f) + Len(LoadBlock(f)))
          /\ UNCHANGED left
       \/ /\ Spend("fault")
          /\ MayPanic(c, LoadOffset(f) + BlockSize)
    /\ crashed' = TRUE
    /\ UNCHANGED <<fsVars, files, goVars, aux>>

LoaderWaits(f) ==
    /\ loader[f].pc = "store"
    /\ Bar(loader[f].target)
    /\ UNCHANGED <<fsVars, goVars, crashed, left, aux>>

LoaderFails(f) ==
    /\ loader[f].pc = "store"
    /\ Spend("fault")
    /\ loader' = [loader EXCEPT ![f].pc = "stopped"]
    /\ UNCHANGED <<fsVars, files, reader, job, patch, crashed, aux>>

-----------------------------------------------------------------------------
(* Truncate and Write.                                                     *)

Truncate(size) ==
    /\ Spend("truncate")
    /\ open # None
    /\ LET c == files[open] IN
        /\ Lock(open)
        /\ size # c.size
        /\ files' = [files EXCEPT ![open] = Truncated(c, size)]
        /\ aux' = [aux EXCEPT ![open] = AfterTruncate(c, aux[open], size)]
        /\ Overtake(open, TouchedByTruncate(c, size))
    /\ Tear(open)
    /\ UNCHANGED <<fsVars, loader, reader, crashed>>

(* The host turns the panic of load.truncate into an error; the lock stays *)
(* taken, and the size and the bytes are what they were.                   *)
TruncatePanics(size) ==
    /\ Spend("truncate")
    /\ open # None
    /\ Lock(open)
    /\ size < files[open].size /\ IndexOut(files[open].load, size)
    /\ \E load \in HalfTrimmed(files[open].load, size) :
         files' = [files EXCEPT ![open].load = load, ![open].lock = "kept"]
    /\ UNCHANGED <<fsVars, goVars, crashed, aux>>

NewBytes(ofst, n) == [k \in 1..n |-> <<left["write"], ofst + k - 1>>]

Write(ofst, n) ==
    /\ Spend("write")
    /\ open # None
    /\ LET c == files[open]
           buf == NewBytes(ofst, n) IN
        /\ Lock(open)
        /\ files' = [files EXCEPT ![open] = Written(c, ofst, buf)]
        /\ aux' = [aux EXCEPT ![open] = AfterWrite(c, aux[open], ofst, buf)]
        /\ Overtake(open, TouchedByWrite(c, ofst, n))
    /\ Tear(open)
    /\ UNCHANGED <<fsVars, loader, reader, crashed>>

(* A Write or Truncate that waits for a Read that panicked.                *)
WriterWaits ==
    /\ open # None
    /\ Spend("write") \/ Spend("truncate")
    /\ Bar(open)
    /\ UNCHANGED <<fsVars, goVars, crashed, aux>>

-----------------------------------------------------------------------------
(* Read: it polls for the first byte, and takes what is there.             *)

IdleReader == [pc |-> "idle", file |-> None, ofst |-> 0, len |-> 0,
               retries |-> 0, raced |-> FALSE]

ReadCall(r, ofst, n) ==
    /\ Spend("read")
    /\ reader[r].pc = "idle"
    /\ open # None
    /\ reader' = [reader EXCEPT ![r] =
            [pc |-> "poll", file |-> open, ofst |-> ofst, len |-> n,
             retries |-> 0, raced |-> FALSE]]
    /\ UNCHANGED <<fsVars, files, loader, job, patch, crashed, aux>>

(* Mutant: a range that begins at the offset is passed over.               *)
BeginsEarlier(ready, ofst) ==
    IF ofst = 0 \/ ofst - 1 \notin ready THEN 0
    ELSE CHOOSE n \in 0..(2 * MaxSize + 1) :
             Span(ofst, n) \subseteq ready /\ ofst + n \notin ready

bytesReady(ready, ofst) ==
    CHOOSE n \in 0..(2 * MaxSize + 1) :
        Span(ofst, n) \subseteq ready /\ ofst + n \notin ready

(* Mutants: the end of the file is forgotten; polls are not counted.       *)
Unclipped(c, ofst, n) == n
Forever(x) == x

Again(x) == [x EXCEPT !.retries = @ + 1]

(* The number of bytes a Read takes; negative beyond the end of the file.  *)
Clipped(c, ofst, n) == Min2(n, c.size - ofst)

ReadPoll(r) ==
    LET f == reader[r].file
        c == files[f]
        n == bytesReady(Ready(c.load), reader[r].ofst) IN
    /\ reader[r].pc = "poll"
    /\ RLock(f)
    /\ \/ /\ n > 0
          /\ reader' = [Race(f) EXCEPT ![r].pc = "copy",
                ![r].len = Clipped(c, reader[r].ofst, Min2(n, @))]
          /\ job' = RaceJob(f)
          /\ files' = [files EXCEPT ![f] = Seek(c, reader[r].ofst)]
       \/ /\ n = 0
          /\ reader' = [reader EXCEPT ![r] =
                IF @.retries < MaxRetries THEN Again(@) ELSE IdleReader]
          /\ UNCHANGED <<job, files>>
    /\ UNCHANGED <<fsVars, loader, patch, crashed, left, aux>>

(* The bytes that a Read at its last step hands to the kernel.             *)
Returned(r) ==
    ReadRange(files[reader[r].file], reader[r].ofst, reader[r].len)

(* c.data[ofst:ofst-1] panics; the host turns that into an error, but the  *)
(* read lock stays.  The file of a DiskCache just returns nothing.         *)
ReadCopy(r) ==
    LET f == reader[r].file IN
    /\ reader[r].pc = "copy"
    /\ \/ /\ cacheType = "memory" /\ reader[r].len < 0
          /\ reader' = [reader EXCEPT ![r].pc = "panicked"]
          /\ UNCHANGED <<files, job>>
       \/ /\ cacheType = "disk" \/ reader[r].len >= 0
          /\ reader' = [Race(f) EXCEPT ![r] = IdleReader]
          /\ job' = RaceJob(f)
          /\ files' = [files EXCEPT ![f] = Advance(@, Len(Returned(r)),
                Sharing(f) = {r} /\ ~JobSharing(f))]
    /\ UNCHANGED <<fsVars, loader, patch, crashed, left, aux>>

-----------------------------------------------------------------------------
(* Release and its upload: the size is taken now, the number of blocks     *)
(* when the goroutine runs, each block under its own RLock.                *)

Release ==
    /\ Spend("release")
    /\ open # None
    /\ files[open].dirty
    /\ job = None
    /\ job' = [pc |-> "count", file |-> open, size |-> files[open].size,
               old |-> IF db = None THEN <<>> ELSE db.blocks, idx |-> 0,
               end |-> 0, n |-> 0, blocks |-> <<>>, moved |-> FALSE,
               torn |-> FALSE, raced |-> FALSE, bad |-> {}]
    /\ UNCHANGED <<fsVars, files, loader, reader, patch, crashed, aux>>

UploadCount ==
    /\ job # None /\ job.pc = "count"
    /\ LET n == Blocks(files[job.file].size) IN
        job' = [job EXCEPT !.end = n, !.pc = IF n = 0 THEN "tx" ELSE "seek"]
    /\ UNCHANGED <<fsVars, files, loader, reader, patch, crashed, left, aux>>

NextBlock(j) ==
    [j EXCEPT !.idx = @ + 1, !.n = 0,
              !.pc = IF j.idx + 1 = j.end THEN "tx" ELSE "seek"]

UploadSeek ==
    /\ job # None /\ job.pc = "seek"
    /\ LET f == job.file
           c == files[f]
           ofst == job.idx * BlockSize IN
        /\ RLock(f)
        /\ \/ /\ ofst > c.size
              /\ job' = NextBlock(job)
              /\ UNCHANGED <<files, reader>>
           \/ /\ ofst <= c.size
              /\ job' = [job EXCEPT !.pc = "copy",
                                    !.n = Min2(BlockSize, c.size - ofst)]
              /\ files' = [files EXCEPT ![f] = Seek(c, ofst)]
              /\ reader' = Race(f)
    /\ UNCHANGED <<fsVars, loader, patch, crashed, left, aux>>

(* The buffer as ReadRange leaves it: what it did not fill is zero.  A     *)
(* block that the old transaction has is not sent again.                   *)
UploadCopy ==
    /\ job # None /\ job.pc = "copy"
    /\ LET f == job.file
           ofst == job.idx * BlockSize
           got == ReadRange(files[f], ofst, job.n)
           buf == [k \in 1..job.n |-> IF k <= Len(got) THEN got[k] ELSE Zero]
           bad == {o \in Span(ofst, job.n) :
                    \/ o \notin Ready(files[f].load)
                    \/ o \in aux[f].spoilt}
           known == /\ job.idx < Len(job.old)
                    /\ job.old[job.idx + 1] = buf
           sent == [NextBlock(job) EXCEPT !.blocks = Append(@, buf),
                                          !.bad = @ \cup bad] IN
        /\ \/ job' = sent /\ UNCHANGED left
           \/ /\ ~known
              /\ Spend("fault")
              /\ job' = [job EXCEPT !.pc = "clean"]
        /\ files' = [files EXCEPT ![f] = Advance(@, Len(got), Sharing(f) = {})]
        /\ reader' = Race(f)
    /\ UNCHANGED <<fsVars, loader, patch, crashed, aux>>

JobTx == [size |-> job.size, blocks |-> job.blocks]

(* What the path has afterwards; an upload from before a rename posts its  *)
(* transaction for another path.                                           *)
After(entry) == IF job.moved THEN entry ELSE JobTx

(* SendTx returns, or fails, in which case the message may be stored.      *)
UploadTx ==
    /\ job # None /\ job.pc = "tx"
    /\ \/ /\ posted' = After(posted)
          /\ job' = [job EXCEPT !.pc = "insert"]
          /\ UNCHANGED left
       \/ /\ Spend("fault")
          /\ posted' \in {posted, After(posted)}
          /\ job' = [job EXCEPT !.pc = "clean"]
    /\ UNCHANGED <<cacheType, db, open, files, loader, reader, patch, crashed,
                   aux>>

UploadInsert ==
    /\ job # None /\ job.pc = "insert"
    /\ db' = After(db)
    /\ job' = [job EXCEPT !.pc = "clean"]
    /\ UNCHANGED <<cacheType, posted, open, files, loader, reader, patch,
                   crashed, left, aux>>

UploadClean ==
    /\ job # None /\ job.pc = "clean"
    /\ files' = [files EXCEPT ![job.file].dirty = FALSE]
    /\ job' = None
    /\ UNCHANGED <<fsVars, loader, reader, patch, crashed, left, aux>>

-----------------------------------------------------------------------------
(* ApplyLiveTx: insert, cut, then block by block compare and patch.        *)

ApplyLiveTx(tx) ==
    /\ Spend("remote")
    /\ patch = None
    /\ db' = tx /\ posted' = tx
    /\ patch' = IF open = None THEN None
                ELSE [pc |-> "cut", file |-> open, tx |-> tx, idx |-> 0,
                      n |-> 0, touched |-> {}]
    /\ UNCHANGED <<cacheType, open, files, loader, reader, job, crashed, aux>>

ApplyCut ==
    /\ patch # None /\ patch.pc = "cut"
    /\ LET f == patch.file
           tx == patch.tx
           c == files[f] IN
        /\ Lock(f)
        /\ files' = [files EXCEPT ![f] = Replaced(c, tx.size)]
        /\ aux' = [aux EXCEPT ![f] = AfterReplace(c, aux[f], tx)]
        /\ Tear(f)
        /\ patch' = IF tx.blocks = <<>> THEN None
                    ELSE [patch EXCEPT !.pc = "compare", !.touched = {}]
    /\ UNCHANGED <<fsVars, loader, reader, crashed, left>>

(* The panic of load.truncate in a handler of discordgo.                   *)
ApplyCutPanics ==
    /\ patch # None /\ patch.pc = "cut"
    /\ LET c == files[patch.file] IN
        /\ Lock(patch.file)
        /\ patch.tx.size < c.size /\ IndexOut(c.load, patch.tx.size)
    /\ crashed' = TRUE
    /\ UNCHANGED <<fsVars, files, goVars, left, aux>>

PatchWaits ==
    /\ patch # None
    /\ Bar(patch.file)
    /\ UNCHANGED <<fsVars, goVars, crashed, left, aux>>

NextPatch == IF patch.idx + 1 = Len(patch.tx.blocks) THEN None
             ELSE [patch EXCEPT !.pc = "compare", !.idx = @ + 1, !.n = 0]

(* "file changed while upcoming change is applied", an equal checksum, or  *)
(* a block to be downloaded.                                               *)
ApplyCompare ==
    /\ patch # None /\ patch.pc = "compare"
    /\ LET f == patch.file
           c == files[f]
           ofst == patch.idx * BlockSize
           n == Min2(BlockSize, c.size - ofst)
           same == /\ n = Len(patch.tx.blocks[patch.idx + 1])
                   /\ \A k \in 1..n : c.data[ofst + k - 1]
                                       = patch.tx.blocks[patch.idx + 1][k]
       IN
        /\ Lock(f)
        /\ \/ ofst >= c.size /\ patch' = None /\ UNCHANGED aux
           \/ /\ ofst < c.size /\ same
              /\ patch' = NextPatch
              /\ aux' = [aux EXCEPT ![f].spoilt =
                            @ \ (Span(ofst, n) \ patch.touched)]
           \/ /\ ofst < c.size /\ ~same
              /\ patch' = [patch EXCEPT !.pc = "patch", !.n = n]
              /\ UNCHANGED aux
    /\ UNCHANGED <<fsVars, files, loader, reader, job, crashed, left>>

Repaired(f, ofst, n) == AddUnready(files[f].load, ofst, ofst + n)

ApplyPatch ==
    /\ patch # None /\ patch.pc = "patch"
    /\ LET f == patch.file
           ofst == patch.idx * BlockSize
           block == patch.tx.blocks[patch.idx + 1]
           buf == SubSeq(block, 1, Min2(patch.n, Len(block))) IN
        /\ Lock(f)
        /\ \/ /\ Store(f, ofst, buf, Repaired(f, ofst, Len(buf)),
                       patch.touched, {})
              /\ UNCHANGED left
           \/ /\ Spend("fault")
              /\ \E n \in 0..patch.n :
                    Store(f, ofst, ErrorPage(ofst, n), Repaired(f, ofst, n),
                          Offsets, {})
        /\ Tear(f)
    /\ patch' = NextPatch
    /\ UNCHANGED <<fsVars, loader, reader, crashed>>

ApplyFails ==
    /\ patch # None /\ patch.pc = "patch"
    /\ Spend("fault")
    /\ patch' = None
    /\ UNCHANGED <<fsVars, files, loader, reader, job, crashed, aux>>

-----------------------------------------------------------------------------
Stopped ==
    /\ open' = None
    /\ files' = [f \in Files |-> None]
    /\ loader' = [f \in Files |-> NoLoader]
    /\ reader' = [r \in Readers |-> IdleReader]
    /\ job' = None /\ patch' = None
    /\ aux' = [f \in Files |-> None]

(* The process stops, without waiting for anything, and starts again.      *)
Restart ==
    /\ Spend("restart")
    /\ Stopped
    /\ db' = posted
    /\ crashed' = FALSE
    /\ UNCHANGED <<cacheType, posted>>

Init ==
    /\ cacheType \in CacheTypes
    /\ db \in StoredTxs
    /\ posted = db
    /\ open = None
    /\ files = [f \in Files |-> None]
    /\ loader = [f \in Files |-> NoLoader]
    /\ reader = [r \in Readers |-> IdleReader]
    /\ job = None /\ patch = None
    /\ crashed = FALSE
    /\ left \in Workloads
    /\ aux = [f \in Files |-> None]

Callbacks ==
    \/ Open \/ Mknod \/ Rename \/ Unlink \/ Release
    \/ \E size \in Sizes : Truncate(size) \/ TruncatePanics(size)
    \/ \E x \in WriteExtents : Write(x[1], x[2])
    \/ \E r \in Readers, x \in ReadExtents : ReadCall(r, x[1], x[2])
    \/ WriterWaits
    \/ \E tx \in RemoteTxs : ApplyLiveTx(tx)

Loading(f) == \/ LoaderAborts(f) \/ LoaderLookup(f) \/ LoaderStore(f)
              \/ LoaderPanics(f) \/ LoaderWaits(f) \/ LoaderFails(f)
Reading(r) == ReadPoll(r) \/ ReadCopy(r)
Uploading == \/ UploadCount \/ UploadSeek \/ UploadCopy \/ UploadTx
             \/ UploadInsert \/ UploadClean
Patching == \/ ApplyCut \/ ApplyCutPanics \/ ApplyCompare \/ ApplyPatch
            \/ PatchWaits \/ ApplyFails

Background ==
    \/ \E f \in Files : Loading(f)
    \/ \E r \in Readers : Reading(r)
    \/ Uploading
    \/ Patching

Next == (~crashed /\ (Callbacks \/ Background)) \/ Restart

(* Goroutines and FUSE threads are scheduled, and downloads end.  Nobody   *)
(* has to call the file system.                                            *)
Spec == Init /\ [][Next]_vars /\ WF_vars(~crashed /\ Background)

-----------------------------------------------------------------------------
(* Properties.                                                             *)

(* The type invariant.  The visible part of a cache is part of its file or *)
(* of its slice, and nobody holds on to a file that is not there.          *)
TypeOK ==
    /\ cacheType \in CacheTypes
    /\ db \in Tx \cup {None} /\ posted \in Tx \cup {None}
    /\ open \in Files \cup {None}
    /\ open # None => files[open] # None
    /\ files \in [Files -> Cache \cup {None}]
    /\ aux \in [Files -> History \cup {None}]
    /\ \A f \in Files : /\ files[f] = None <=> aux[f] = None
                        /\ files[f] # None => files[f].size <= files[f].len
    /\ loader \in [Files -> Loader]
    /\ reader \in [Readers -> Reader]
    /\ \A r \in Readers : reader[r].pc # "idle" =>
            reader[r].file # None /\ files[reader[r].file] # None
    /\ job \in Job \cup {None}
    /\ job # None => files[job.file] # None
    /\ patch \in Patch \cup {None}
    /\ patch # None => files[patch.file] # None
    /\ crashed \in BOOLEAN
    /\ left \in [Events -> Nat]

(* A byte that load calls ready is the byte that the file should have      *)
(* there: what was written last or, where nothing was, what the            *)
(* transaction holds.  The excuse is in spoilt: a block that arrived after *)
(* the write or for another file of the same name, an error page, a patch  *)
(* that is not through.                                                    *)
ReadyBytesTrue ==
    \A f \in Files : files[f] # None =>
        \A o \in Ready(files[f].load) \cap Span(0, files[f].size) :
            \/ files[f].data[o] = aux[f].ideal[o]
            \/ o \in aux[f].spoilt

(* Every byte of the open file is ready or about to be loaded, so that no  *)
(* Read below the end gives up for good: whatever has been cut, grown and  *)
(* written meanwhile.  The excuses are the gap that a Write beyond the end *)
(* leaves, the rest of an error page, what a patch did not bring, a loader *)
(* that stopped at a failed download or lost the file to a rename, and a   *)
(* Truncate that panicked half way and kept the file locked.               *)
NothingMissing ==
    \A f \in Files :
        open = f /\ ~crashed /\ loader[f].pc # "stopped"
        /\ files[f].lock # "kept" =>
            Span(0, files[f].size) \subseteq
                Ready(files[f].load) \cup aux[f].holes \cup Awaited(f)

(* A Read that returns nothing, which is the end of the file to whoever    *)
(* asked, has polled as often as it may, and there is a reason: the file   *)
(* ends before its offset, the byte there is one that nobody will fetch,   *)
(* its loader has stopped or has not come to it in that time, or the file  *)
(* is no longer the one of its path.                                       *)
EmptyReadNamed ==
    [][\A r \in Readers :
        reader[r].pc = "poll" /\ reader'[r].pc = "idle"
        /\ left'["restart"] = left["restart"]
        => LET f == reader[r].file
               o == reader[r].ofst IN
           /\ reader[r].retries >= MaxRetries
           /\ \/ files[f].size <= o
              \/ o \in aux[f].holes \cup Awaited(f)
              \/ loader[f].pc = "stopped"
              \/ open # f]_vars

(* A Read returns as many bytes as it has found ready, and they are those  *)
(* of the file, unless another Read or the upload has moved the position   *)
(* of the temporary file between its Seek and its Read.                    *)
ReadsTrue ==
    \A r \in Readers :
        /\ reader[r].pc = "copy" /\ reader[r].len >= 0
        /\ ~reader[r].raced
        => /\ Len(Returned(r)) = reader[r].len
           /\ \A k \in 1..reader[r].len :
                LET o == reader[r].ofst + k - 1
                    g == aux[reader[r].file] IN
                Returned(r)[k] = g.ideal[o] \/ o \in g.spoilt

(* A Read with a negative length, which panics on a slice and keeps the    *)
(* file locked, began beyond the end, at an offset that a growing Truncate *)
(* or a download after a shrinking one had marked.                         *)
NegativeReadNamed ==
    \A r \in Readers :
        reader[r].pc \in {"copy", "panicked"} /\ reader[r].len < 0
            => reader[r].ofst \in aux[reader[r].file].over

(* The transaction that an upload is about to post has the size and the    *)
(* blocks of the file, and its bytes, unless the file changed between      *)
(* Release and the last block, the position moved, or a byte was not ready *)
(* or already wrong when its block was read.                               *)
UploadExact ==
    [][/\ job # None /\ job' # None
       /\ job.pc # "tx" /\ job'.pc = "tx"
       /\ ~job.torn /\ ~job'.raced
       => LET f == job.file IN
          /\ SoundTx(JobTx')
          /\ job'.size = files[f].size
          /\ \A o \in Span(0, job'.size) :
               Content(JobTx')[o] = aux[f].ideal[o] \/ o \in job'.bad]_vars

(* The process dies only in a loader whose block is for another file of    *)
(* the same name, whose transaction was torn (its size and its blocks are  *)
(* of different moments) or whose download was an error page; in a loader  *)
(* that looks a map up while a callback writes it; or in a patch that cuts *)
(* the file, when a range of it lies beyond the new end and another        *)
(* reaches beyond it.                                                      *)
CrashNamed ==
    [][~crashed /\ crashed' =>
        \/ left'["fault"] # left["fault"]
        \/ \E f \in Files : /\ loader[f].pc = "store"
                            /\ \/ loader[f].target # f
                               \/ ~SoundTx(loader[f].tx)
        \/ \E f \in Files : /\ loader[f].pc = "lookup"
                            /\ \E kind \in {"map", "rename", "unlink"} :
                                 left'[kind] # left[kind]
        \/ /\ patch # None /\ patch.pc = "cut"
           /\ patch.tx.size < files[patch.file].size
           /\ IndexOut(files[patch.file].load, patch.tx.size)]_vars

(* A patch never writes beyond the slice, though the file may have been    *)
(* cut since the block was measured.                                       *)
PatchInBounds ==
    patch # None /\ patch.pc = "patch" =>
        ~MayPanic(files[patch.file], patch.idx * BlockSize + patch.n)

(* The invariant of the caches and their calls.                            *)
FileDataInv == TypeOK /\ PatchInBounds /\ NegativeReadNamed

(* Nobody will be able to change f any more.                               *)
Stuck(f) == LeftShared(f) \/ ~RLock(f)

(* Every Read returns, and every loader, upload and patch ends, unless the *)
(* process is gone; but for those who want to write to a file that a Read  *)
(* has left locked by a panic, and for everyone who wants the lock that a  *)
(* Truncate has kept by a panic, or that a writer waits for behind such a  *)
(* Read.                                                                   *)
WorkEnds ==
    <>[](\/ crashed
         \/ /\ \A r \in Readers :
                \/ reader[r].pc \in {"idle", "panicked"}
                \/ reader[r].pc = "poll" /\ ~RLock(reader[r].file)
            /\ \A f \in Files :
                \/ loader[f].pc \in {"none", "done", "stopped"}
                \/ loader[f].pc = "store" /\ Stuck(loader[f].target)
            /\ \/ job = None
               \/ job.pc = "seek" /\ ~RLock(job.file)
            /\ patch = None \/ Stuck(patch.file))
=============================================================================

# A TLA+ development of dsfs

dsfs is a FUSE file system that keeps its files as attachments of Discord
messages. A `data` channel holds 8 MB blocks; a `tx` channel holds an
append-only log of JSON transactions (write or delete of a path). Every client
replays the log into memory when it starts, answers FUSE callbacks from memory,
uploads changed files in the background, and applies the transactions that
other clients post.

This directory holds TLA+ modules for the parts of dsfs that carry its logic,
TLC configurations that check them on small instances, and TLAPS proofs of the
properties that matter most for every instance. Line numbers are those of the
repository beside it.

## 1. The system

| Component | State | Operations | Hard because |
|---|---|---|---|
| **Writer** (`writer.go`) | two unbuffered queues, the batch, the item on hold | `SendTx`, `SendData`; the consumer's receive, timeout, post, answer | callers, consumer and timer race; a post may fail, or be stored and reported as failed |
| **Load** (`load.go`) | an unordered list of ranges | `addRange`, `truncate`, `isReady`, `bytesReady` | overlaps, an unstable sort that readers do in place at once, removal during iteration |
| **Dsfs** (`fs.go`) | the database, the open map, each `FileData` with `dirty` and `syncing` | the FUSE callbacks, the upload goroutine of `Release`, `ApplyLiveTx` | two levels of locks, `Rename` lets go in the middle, goroutines that outlive the callback, ignored errors |
| **File data** (`fs.go`, `cache.go`, `tx.go`) | the bytes in the cache, what is ready, the position of a temporary file | the loader of `Open`, `Read`, `Write`, `Truncate`, the blocks of an upload, the patches of `ApplyLiveTx` | each works block by block and lets go of the lock in between; downloads fail or bring an error page; panics keep a lock or end the process |
| **Database** (`db.go`) | path to transaction | `Get`, `Insert`, `Delete`, `Iterator` | MapDB iterates in a goroutine; prefix order is not the folder order |
| **Replication** (`tx.go`, `main.go`) | events not yet handled | `messageCreate`, `applyMessageTxs` | handlers run in any order, interleaved line by line; a batch may be skipped |
| **Start** (`main.go`, `db.go`) | the two channels, `dsfsReady` | `dg.Open`, `prepareChannels`, `setupDB`, the first event | clients that start at once, events between the last page and readiness |
| **Log** (`db.go`) | the `tx` channel and its pins | `setupDB`, paging, compaction | crashes and failed calls between post, pin and unpin; other clients post meanwhile |
| **FUSE host** (`fuse/host.go`, `host_cgo.go`, `fsop.go`) | handle table, `host.fuse`, the signal channel, worker threads | `Mount`, `Unmount`, Init, Destroy, one wrapper per operation | threads of libfuse, a signal goroutine and `Mount` itself tear down together |
| Option parser, platform bindings, flags | | | see section 7 |

How they interact. The kernel sends requests through libfuse to the host's
wrappers, which call the methods of Dsfs. Dsfs calls the writer, mostly from
goroutines whose result nobody reads. The writer posts to Discord; Discord
sends an event to every other client, whose handler changes that client's
database and open files under `fs.lock` and the file's lock. At start `setupDB`
reads the log from a pinned message on; with `-x` it also rewrites the log.

What makes each part correct:

* Writer: no caller is forgotten, order is kept, an answer names the caller's
  own attachment, but for one item a batch is within both limits, every call returns.
* Load: the list stands for a set of bytes, and the queries are exact; readers
  disturb each other only on a list nobody has sorted yet.
* Dsfs: no transaction is visible before its blocks; no two names share an open
  file; no error path blocks later flushes; a name is listed once; the database
  of every client is the log replayed, but for races and failures that can be
  named; clients converge; what is closed is saved, and no entry loses its
  folder, but for named causes.
* File data: a byte that is called ready is the right one, every byte becomes
  ready, a read and an upload take what is there, and a read that returns nothing
  has a reason; no panic but for named causes, and nobody waits for ever but for
  what a panic has left locked.
* Database: both are one map with an iterator to the callbacks that use them.
* Start: a mounted client has every message, but for named gaps.
* Log: a start point always exists; every start, also after a crash anywhere,
  finds the tree that the operations made; a start ends.
* Host: callbacks find their host; a signal never meets a closed channel; every
  request is answered; `Mount` returns; nothing implemented is refused.

`PROJECT.json` lists the hazards behind these, each at its line.

## 2. Modules

| Module | What it is |
|---|---|
| `Writer` | One queue: its callers, its consumer, and Discord as a list of messages |
| `WriterProofs` | Theorems about `Writer` |
| `LoadSpec` | Abstract: the set of bytes that are ready |
| `Load` | The range list and its readers; refines `LoadSpec` by the union of its ranges |
| `LoadProofs` | Theorems about `Load` |
| `Dsfs` | Clients, database, open map, uploads, log, live replication |
| `DsfsHistory` | `Dsfs` with three history variables, for what a single client may rely on |
| `DsfsProofs` | Theorems about `Dsfs` |
| `FileData` | The bytes of one path: caches, loader, reads, writes, upload, patch |
| `FileDataProofs` | Theorems about `FileData` |
| `DatabaseSpec` | Abstract: a map, and an iteration that gives each match once |
| `Database` | RadixDB's snapshot and MapDB's goroutine; refines `DatabaseSpec` |
| `DatabaseProofs` | Theorems about `Database` |
| `Join` | From `dg.Open` to `dsfsReady`, and the events meanwhile |
| `JoinProofs` | Theorems about `Join` |
| `TxLog` | `setupDB`: pins, pages, replay, compaction, crashes |
| `TxLogProofs` | Theorems about `TxLog` |
| `FuseHost` | The life of a mount, signals, dispatch and locks |
| `FuseHostProofs` | A theorem about `FuseHost` |
| `MC*` | Constants for TLC |

Composition. `Dsfs` contains the namespace, the uploads and the live log in one
module because their interleavings are the point. It takes the other modules'
results as given: a `SendTx` or `SendData` of `Dsfs` ends once, stored or
failed, which is what `Writer` shows of it; a restart of `Dsfs` replays the whole
log, which is what `TxLog` shows of `setupDB` without compaction; a callback of
`Dsfs` is one request of `FuseHost`; its emptiness test reads the map in one
step, which is what `Database` shows of an iteration. `FileData` takes one file
of `Dsfs` and opens its contents up; `ready` there is a set of offsets, which is
what `Load` shows of the list. `Join` composes the end of `TxLog`'s `setupDB` with
the event stream of `Dsfs`, with the steps of both made large.

### Writer

`caller[x]` follows one `sendToQueue` call. `Receive`, `Timeout`, `Send`,
`Reply` and `NextRound` are the loop of `processQueue`; the loop counter `i` and
`totalSize` are kept because they are what is wrong with the limits. The size of
an item is any number: `Rename` checks its two transactions without the newline
that joins them (`fs.go:339-345`), so an item may be too large for any message.
Discord refuses a message that is over its limits, and may store a message and
report an error.

### Load

`addRange` and `truncate` hold the file's write lock: functions from lists to
lists. The loops of `truncate`, `isReady` and `bytesReady` are recursive functions
of the iteration, so that they can be proved about. `truncate` works on a backing
array with a shrinking length, as Go's `range` does, and records an index out of
range. `isReady` and `bytesReady` run under the read lock, and first sort the array
in place: each reader makes its comparisons and swaps one by one (`Sort`), so
readers overlap.
A sort that writes while another reader is there is a data race; `raced` says so
and the array is not followed further. `slices.SortFunc` is an insertion sort up
to twelve elements.

### Dsfs

* A content is a *version*: 0 is empty, each write makes a new one, equal
  versions stand for equal checksums. A file has one block.
* A `FileData` pointer is the number of the callback that made it.
* One action per callback. `Write` and `Truncate` look the file up under
  `fs.lock` and change it under its own lock; since they change nothing else
  this is one step. `Rename` is two (`Rename`, `RenameCommit`) around the gap at
  `fs.go:327-347`. Callbacks that return an error change nothing and are left
  out, except the ones that fail after a change (a transaction that is too
  large, `Oversize`). The kernel's view holds: nothing is made or moved inside a
  regular file. `Getattr` and `Readdir` change nothing: they are the
  operators `Exists`, `IsRegular` and `Listing`.
* The upload is eight steps: check, mark, read, data, transaction, insert, and
  the two deferred calls. The size it posts is that of the file at `Release`
  (`fs.go:528`), the blocks are those of the file when the goroutine reads them
  (`fs.go:545-563`), and later blocks may be of a later content (`UploadTears`). A
  transaction that may be of no content is a version of its own, `Torn(j)`: where
  size and blocks are of two contents, where blocks may not be loaded (`loads`)
  and read as zeros, or where the position of the temporary file may have been
  moved (`CacheType`). Which bytes it has is the matter of `FileData`.
* `inbox[c]` is a set: handlers of different messages run in any order, and each
  transaction of a message is a step.
* `Restart` ends all goroutines of a client and replays the log.
* `tainted` is a history variable: the paths on which an operation began while
  another was under way, and those for which an update was lost to a failure.
* External, from how the code uses it: the kernel looks names up before it
  creates or renames, replaces like by like, and does not move a folder into
  itself; libfuse holds the tree locks of both paths during a rename.

`DsfsHistory` adds, for the folders, whether one went while something in it was
not in the database yet, or had come there since it was found empty
(`overlooked`); for the renames under way, whether an upload has inserted something
below the old name since the test (`entered`); and for the open files, whether one
of eight things has happened after which a clean file need not be saved
(`unsaved`): a write or truncation during an upload, an upload with the size of
another content, with blocks that are not loaded, or with the position moved, an
upload that failed, a rename of the file, a rename onto it, an upload inserted over
it. All are computed from a step's two states. Its properties are those of a client
that is alone.

### FileData

One path, its database entry, and the FileData objects it has had (a loader or a
Read keeps the one it found, so an unlinked one matters). Offsets are small, a
block is two bytes, and each byte is a value that names its write, so that a byte
in the wrong place is seen. Each acquisition of the file's lock is a step: a
loader looks the path up (`LoaderLookup`), then stores or fails; a `Read` polls and
takes the length under one read lock (`ReadPoll`, `ReadCopy`: two steps since
readers share it); an upload seeks and copies per block; `ApplyLiveTx` cuts, then
compares and patches per block. `cacheType` chooses between the slice, with what
a shrinking slice leaves hidden behind its end, and the temporary file, whose
position all holders of the read lock move. `aux` is history: the file as a byte
array (`ideal`), what is no longer the loader's to fill (`touched`), and the
offsets a named defect has reached (`spoilt`, `holes`, `over`). `left` bounds the
events of each kind.

The ranges of `load` are a set, with those that are in the list twice (`twice`),
since that is what decides whether `load.truncate` can index past the end:
`IndexOut` says when some order of the list makes it panic, `Trim` what it leaves
when it returns, `HalfTrimmed` when it does not. In `Truncate` (`fs.go:404`) the host
recovers that panic and the file's lock is kept (`TruncatePanics`); in
`ApplyLiveTx` (`fs.go:721`) it ends the process (`ApplyCutPanics`). A `Read` that
panics keeps its read lock; whoever then waits to write bars the lock to readers
(`Bar`), as `sync.RWMutex` does. `LoaderAborts` is the loader's lookup in `fs.open`,
without `fs.lock` (`fs.go:162`), at the moment a callback writes that map, which the
Go runtime answers by ending the process.

### Database

`kind` chooses the database. `Readdir` iterates whether or not its path has an entry,
`Rmdir` and `Rename` only if it has. RadixDB's iterator has the matches of the root
it was made from. MapDB's goroutine visits matches in any order and stands at a send
until the callback receives. `Other` is the early return of `Rmdir` and `Rename`,
after which `fs.lock` is free and the goroutine is not gone (`abandoned`). A write of
the map while a goroutine ranges over it may end the process (`crashed`), as the Go
runtime does when it notices.

### Join

A message is a position in a channel's log, and reading the log is one step.
What is kept is the order in `main`: the gateway is open before the channels are
listed, `LastPinTimestamp` is as old as that list (`anew`), `dsfsReady` comes last,
and an event handled before it does nothing. `prepareChannels` creates what it
did not find one channel at a time. Accounts are a parameter, since
`messageCreate` ignores messages of its own account.

### TxLog

One action per call of the Discord API in `setupDB`. A call that changes
something succeeds, fails without an effect, or fails after its effect; a
process may stop anywhere. The order in which Discord returns several pins is
left open. `copy` marks the messages of a compaction: the tree that the
operations made (`TreeAt`) is read from the others, and what earlier sessions
have left (`History`) counts as operations. Two history variables name
what can go wrong. `partial[c]`: this client has skipped an attachment it could
not fetch. `damaged`: a compaction has posted a copy that loses something (the
cases of `Loses`), a line is longer than the scanner reads, or a second root has
been pinned.

### FuseHost

`mount` follows `Mount` and its deferred calls in their order; `session` is what
libfuse does; `watcher` is the signal goroutine. A request is the method it runs
with the locks still to be taken. One file stands for all (requests on another
file do not wait for this one). `Read` shares the file's lock and lets go of it
between polls. A panic is modelled where the code can panic under a file's lock
without a deferred unlock (`Truncate` at `fs.go:404`, `Read` at `fs.go:460`): the
request is answered and the lock stays with nobody, shared or not as it was
(`Abandoned`). Which of the methods on a file may panic is a parameter. `failures`
remembers a panic, as it remembers a failed unmount. Requests wait for each other
here only by the locks somebody holds; that a writer who waits bars the lock to new
readers, which matters after a `Read` has panicked, is in `FileData`. External:
libfuse joins its workers before Destroy (`fuse_loop_mt`), `os/signal` drops a
signal when the channel is full.

## 3. Runs that pass

| Run | Instance | Shows |
|---|---|---|
| `writer` | 4 calls of sizes 1, 2, 2, 4; batches of 2 items and 3 bytes; 14,076 states | order, answers, no forgotten caller, every call returns; but for one item a batch is within both limits |
| `load` | offsets 0..4, up to 3 ranges, 2 readers; 58,013 states | both queries exact for every list and order of equal starts; where sorts may race; each call refines `LoadSpec` |
| `dsfs_tree` | 1 client with a disk cache, a folder `/a` with a saved file `/a/x`, `/ab`, 5 callbacks, 1 failure; 1,463,768 states | no stuck flag, `ls` agrees with `stat`, the causes of orphans and of unsaved files |
| `dsfs_clients` | 2 clients, 3 paths, one of them with transactions that are too large, 3 callbacks, 1 failure; 357,046 states | data before metadata, the causes of divergence, and convergence under live replication |
| `filedata` | files up to 6 bytes, blocks of 2, 2 objects, 2 readers, 17 workloads, both caches; 445,976 states | ready bytes are right, reads and uploads exact, the causes of an empty read and of the end of the process, what ends and what waits for ever |
| `join` | 2 clients, 2 starts, 3 posts, 1 lost event; 738,986 states | the same channels for all, the causes of a missed message |
| `database` | `/a`, `/a/x`, `/ab`, 2 iterations, 3 updates, both kinds; 422,645 states | one iterator specification for both, the causes of a leak and of a crash, every iteration ends |
| `txlog` | 1 client, 3 starts, 3 posts, pages of 2, any call failing; 1,714,223 states | a restart and a start find the tree unless a named cause has occurred |
| `txlog_clients` | 2 compacting clients on an empty channel, no failures; 60,272 states | the same, a start point exists, and every start ends |
| `fusehost` | 2 threads, 3 requests, 2 signals, a `Read` and a `Truncate` that panic, an unmount that fails; 137,386 states | all of the host's properties |

The type invariant of a module is part of the run's first invariant (`LoadInv`,
`FileDataInv`, `JoinInv`, `DatabaseInv`, `TxLogInv`, `HostInv`, each a conjunction of
named parts); those of `Writer` and `Dsfs` are proved.

Why the bounds are enough. Batches of two items and three bytes make every way of
ending a batch happen, with an item on hold and a full batch after it. Three ranges
are the fewest with one nested and one overlapping; truncate's defect needs two, and
a sort that races needs two readers and two ranges. In `Dsfs` an upload needs three
callbacks (create or open, write, release); with `/a` and `/a/x` there from the
start, five allow an upload and two operations against it, a removal and a rename of
the folder around it among them, and `/a`, `/a/x`, `/ab` are a folder, its child and
a sibling with the folder's name as a prefix. Each of the eight causes of
`CleanMeansSaved`, and `CameMeanwhile` of `OrphansNamed`, was removed in turn and
found to be needed, and `OrphansNamed` fails when `Rename` alone goes without its
test for an empty folder. One cause of an orphan needs more (a folder made under the
old name of a file that is being uploaded, with an entry in it, takes six without
`/a`): the theorem covers it. Three blocks give the loader a first, a last and a
middle one, two bytes a block a partial one; the workloads give each pair of a
loader, a read, a write, a truncation, an upload and a patch a behaviour of their
own, since all at once is out of reach. One truncation,
or one patch, of a file with two loaded ranges is what the panics of `load.truncate`
need, and a callback that writes
`fs.open` during a lookup (`map`) is what the abort of the loader needs. In `Join` a
first start, a second that overlaps it and a post between are three messages; each
excuse of `NothingSkipped` was removed in turn and found to be needed. Two iterations
allow an abandoned one and a second that meets it, and three updates change every
path between their steps. Pages of two with up to seven messages give an empty, a
short and a full last page, and a compaction buffer of three lines is both filled
exactly and overflowed. Two clients on an empty channel are what the race for the
first root needs. Two threads, one of them waiting, are enough for every order of two
locks.

All runs but `writer` stop where a bound is reached, so they say `CHECK_DEADLOCK
FALSE`. The system may also really stop: nobody is obliged to call a file system.

`DivergenceOnlyByRace` is the strongest thing that can be said of a design without
sequence numbers: it names every cause by which a client's database can differ from
the log. `RestartSafe` and `SetupGivesTree` do the same for the log itself,
`RequestsAnswered`, `MountReturns` and `SignalUnmounts` for the host, `OrphansNamed`
and `CleanMeansSaved` for one client's tree, `ReadyBytesTrue`, `NothingMissing`,
`EmptyReadNamed`, `CrashNamed` and `WorkEnds` for a file's bytes, `NothingSkipped`
and `ShowsLatest` for a start. An excuse is a set of named causes, each at its line
of code, so that a cause nobody thought of still violates the property.

## 4. Runs that end in a violation

Each checks what a comment or a doc of the repository says; the finding in
`PROJECT.json` quotes it.

| Run | The code |
|---|---|
| `load_truncate` | indexes past the end of the list it is shortening |
| `dsfs_close` | clears `dirty` after an upload that did not include the last write |

Other deviations met while modelling, each in the model and without a run of its
own:

* A batch is counted and measured without the item carried over, so it may exceed
  the limits of `common.go:8,11` by that item (`writer.go:47-54`).
  `BatchAtMostOneOver` is what holds, of the items and of their bytes.
* `Rename` checks the sizes of its two transactions but posts both as one item,
  joined by a newline (`fs.go:339-345`), so the item may be over the limit.
* The index out of range of `load.truncate` comes in most truncations of a list of
  two or more ranges. Under a callback (`fs.go:404`) the host recovers it: the file's
  lock is kept, some ranges are gone, the size is as it was, and whoever needs the
  lock waits for ever. Under `ApplyLiveTx` (`fs.go:721`) the process ends.
* A loader reads the map `fs.open` without `fs.lock` (`fs.go:162`); if a callback
  writes the map at that moment the Go runtime may end the process.
* A `Read` that panics (`fs.go:460`) keeps its read lock: the next writer waits for
  ever, and with it every reader that comes after.
* `syncing` is tested and set in two steps (`fs.go:536-540`), so two uploads of one
  file may run at once, which a comment denies (`fs.go:535`).
* The line on which the compaction buffer overflows is not copied
  (`db.go:272-285`): a cause of `damaged`.
* The files of a torn upload (size taken at `fs.go:528`, blocks counted at
  `fs.go:585`) make a later `Open` write beyond its slice in a goroutine, which
  ends the process (`fs.go:174`).
* A loader looks its path up for every block, without `fs.lock` (`fs.go:162`): it
  stops after a rename and fills the wrong file after an unlink and a creation.
* A block that arrives late overwrites what was written meanwhile (`fs.go:174`).
* An upload posts the zeros of blocks that are not loaded (`fs.go:563`).
* A growing `Truncate` marks `size` bytes from the old end instead of up to the new
  one (`fs.go:406`); a `Read` there has a negative length, and with the memory cache
  panics with the lock held.
* A `Write` beyond the end leaves a gap that never becomes ready (`fs.go:487-493`).
* `getDataFile` takes an error page for a block (`tx.go:31-36`).
* Readers of the temporary file move each other's position (`cache.go:72`).
* The memory cache zeroes what it regrows; the temporary file does, too, but shows
  what a `WriteRange` beyond its size has left.
* A file made and renamed over a saved one shows its own content until a restart,
  when the old entry comes back (`fs.go:299-302`); a rename whose transaction is too
  large moves the open file and nothing else (`fs.go:329-337`).
* Two first starts may create a channel twice, after which a client may write to
  one log and read from the other (`db.go:159`); a start that was too late for the
  list posts a second root (`db.go:188`).
* MapDB's iterator stays behind, blocked, after each `ENOTEMPTY`, and may read the
  map while it is written (`db.go:106`).
* `README.md` names `-c` for compaction; the flag is `-x` (`main.go:39`), and `-c` is
  the cache. It also says "make sure you are using a different token for each
  instance", which `tx.go:116` needs: the `account` of `Join`.
* An upload that ends after an `Unlink` inserts the file again (`fs.go:623`).
* Remote transactions change and drop open files (`tx.go:88`, `fs.go:718-763`),
  which a comment denies (`tx.go:121`).
* Transactions are posted from separate goroutines, so the log can hold two
  operations of one client in the wrong order (`fs.go:114`). With the other races
  this is a cause in `DivergenceOnlyByRace`.
* `Rmdir` removes a folder whose only file is still in memory, and refuses to
  remove `/a` while `/ab` exists (`fs.go:263`); `Rename` of a folder does the same
  (`fs.go:313`), and lets go of `fs.lock` between that test and its commit
  (`fs.go:327`, `fs.go:348`): an upload that inserts a file of the folder in between
  leaves it without its folder.
* A rename onto an open file leaves the old `FileData` open under the new name
  (`fs.go:321-325`).
* A restart can miss operations after: a compaction that skipped an attachment,
  that lost a line of an overflowing buffer, or that raced with a post (also one
  that then failed: its first chunks stay in the log); a line over 64 KB; two
  first starts that both pin a root. These are the causes of `damaged`.
* A panic that the host recovers leaves the file's lock held: the excuse of
  `RequestsAnswered` and `MountReturns`.
* A failed unmount is not tried again: the excuse of `SignalUnmounts`.
* `Unmount` tests `host.fuse` and uses it in two steps (`host.go:748-756`).

## 5. Fairness

* Writer: weak fairness of the consumer (a goroutine whose HTTP calls have a
  timeout), and strong fairness of receiving each offered item: waiters of a Go
  channel are served in order of arrival, and the timer cannot win every
  `select` against a waiting sender.
* FileData: weak fairness of the goroutines and calls under way together
  (`Background`, while the process lives): every step of one spends a bounded
  amount of work, so a fair scheduler is all that is needed. None of callbacks,
  remote transactions or restarts.
* Join: none. That a start ends is the matter of `TxLog`.
* Database: weak fairness of the callback that has `fs.lock` and of each goroutine.
* Dsfs: weak fairness of background steps: goroutines are scheduled, Discord
  answers or the call times out, events reach a connected client. No fairness
  of callbacks, failures or restarts.
* TxLog: weak fairness of `setupDB` for a process that has been started.
* FuseHost: weak fairness of `Mount`, of the session's callbacks, of the signal
  goroutine and of a worker in a method; strong fairness of acquiring a lock,
  since Go's mutexes hand over to a waiter that has waited 1 ms. The kernel, the
  user and signals owe nothing.

## 6. Proofs

All are checked by TLAPS without assumptions beyond the named `ASSUME`s on the
constants, which TLC evaluates on every run.

* `WriterTypeOK`, `WriterBatchBound`, `WriterFifo`, `WriterAnswers`,
  `WriterCallers`. The batch bound needs that within a round the batch holds at
  most the items counted plus the one carried over, so the invariant carries
  `i` against `Len(items)`. The theorem is about the number of items
  (`CountAtMostOneOver`); the bytes, a recursive sum, are only model-checked. The
  answers need that a message just posted is the
  batch being answered, and that the items of the pipeline are distinct and
  belong to waiting callers: an item is named once in `items` and `onhold`
  together.
* `DsfsTypeOK`: by cases on the actions, with the typing of each compound
  update (messages, jobs, renames) in lemmas.
* `DsfsDurableContent`. Not inductive as it stands: a rename posts and commits
  an entry read earlier, a handler applies lines delivered earlier, and an
  upload posts a version captured earlier. The invariant adds that the entries
  in `renaming` and `inbox`, the old version of each upload, and the version of
  each upload past its data step are durable; `stored` only grows.
* `DsfsOpenInjective`: needs that an open file's number is at most `ops`, so that
  the file a callback makes is new.
* `DsfsSyncingHeld`. A restart ends all uploads of one client: it must not end
  that of a file another client has open, so the invariant (`FlagInv`) adds that
  an upload belongs to the client that has its file open (`JobsOwn`). And a new
  goroutine or file must not take the number of an old one (`JobsPast`). It uses
  `OpenInjective`, or two paths could share a flag.
* `DsfsDivergenceOnlyByRace`. The invariant (`DivergenceInv`) follows the one
  update of an untainted path from its callback to every inbox. `Alone(p)`: it is
  in one place at a time, a goroutine with one entry for `p`, an upload, or the
  inboxes. `Agreed(p)`: what is on its way is what the log says, or will say once
  the goroutine has posted. `Due(c, p)`: a database that does not show the log yet
  has the update ahead of it. A step that breaks `Alone` begins while another
  update is under way, and that taints the path. `SendIds` tells goroutines apart.
* `DsfsReaddirAgrees` needs that the root is never an open file (`RootClosed`), or
  a listing of the root would hold itself, and that an entry's folder is a prefix
  of its path, which is assumed of paths (`DsfsConstants`).
* `DsfsCleanMeansSaved`, for `Clients = {c}`, with eight causes. The invariant
  (`KeptInv`) says of an open file that no cause has happened to: it is dirty, or its
  name shows its content (`Shows`), where a name that a rename is about to give an
  entry shows that one (`Coming`); each of its uploads works under the name it is
  open under, has captured its present content, and once it has inserted it the name
  shows it (`Carries`), which is what makes clearing `dirty` right; and nothing is
  renamed onto the name while an upload of it runs. That a rename is of a file the
  client has not kept open, onto no other's rename (`RenamesApart`), that no folder
  is open (`OpenRegular`) and that there is no mail (`NoMail`) come first
  (`SoleInv`). An upload whose transaction may be that of no content has met one of
  three of the causes at that step (`GatheredJob`, `TearsChanges`), which stays
  recorded (`TornKept`). The proof needs no clause for files with an upload under
  way, or with another update on its way: `CleanMeansSaved` has none.
* `DsfsOrphansNamed`, for `Clients = {c}`. The invariant (`FoldersInv`) says it of
  all that is there or to come: an entry, an open file, the new name of a rename,
  an upload that may still insert (`Present`). A callback makes something only in
  a folder that exists. A restart is where `DivergenceInv` is needed: unless an
  update of the folder or of something in it is on its way or tainted, the log
  says what the database says, and nothing changes there. That nothing lies under the
  old name of a rename that its test has passed holds until an upload inserts
  something there, and then the rename is in `entered` (`EnteredInv`): what the test
  of `Rename` itself misses must be hidden, so a `Rename` without the test is not
  excused.
* `FileDataSafety`, `FileDataReadyTrue`, `FileDataNothingMissing`,
  `FileDataReadsTrue`, `FileDataEmptyReadNamed`, `FileDataCrashNamed`,
  `FileDataUploadExact`. They hold
  together or not at all, because the parties share bytes that each of them
  checked earlier, under the lock, and uses later, under the lock again. The
  invariant (`DataInv`) has a part for each: a cache is sound (`FilesInv`); the
  open file is the newest, so that a loader that has stayed behind can only harm
  a file younger than its own (`NewestOpen`); what a loader still has to fetch, and
  what has been touched since it began (`LoadersInv`); the bytes a Read has counted
  are still ready, and the position of the temporary file is where it left it
  unless another holder of the read lock moved it (`ReadersInv`); which bytes a
  patch may no longer take from its transaction (`PatchInv`); that the blocks an
  upload has collected are the file's, unless it changed meanwhile (`JobInv`).
  A truncation that panics keeps all of this but for the ranges it has lost, which
  is why `NothingMissing` names the files whose lock is kept; a
  crash is a loader's store or lookup or a patch's cut, each shown to need its cause.
  The lemmas before it say field by field what each operation of a cache does.
* `LoadSafety`, `LoadRaceOnlyAtFirst`, `LoadImplementsSpec`. The queries are exact
  only on a sorted list, and the sort runs under the read lock. The invariant
  (`LoadInd`) says that until a race each reader's part of the list is sorted up to
  its place, that one reader at most has moved anything, and that a list which
  some reader has left is sorted (`Orderly`). `TruncateCuts`, `ReadyExact` and
  `BytesExact` are about loops over lists of any length: a loop's states form a
  function, and induction on the set of the naturals up to its end shows that
  each state is what the loop has to have computed so far.
* `DatabaseSafety`, `DatabaseImplementsSpec`. `DatabaseInv` does not say what the
  callback's iterator still has to give. `IterInv` does: the snapshot of RadixDB
  holds the rest (`RadixRest`), MapDB's goroutine has given what it visited but
  for the entry at the channel (`MapRest`), and the callback's iterator is the
  youngest (`Youngest`). Nothing is said of abandoned iterators, which is why
  their steps are stuttering steps of `DatabaseSpec`.
* `JoinSafety`, `JoinSkipsNothing`, `JoinShowsLatest`. A message is before the
  client's start point, on a page it has read (`PagesRead`), in the gap, or was
  sent to it as an event (`Heard`); that `messageCreate` applies in order keeps
  the last of the messages in the database (`InOrder`). What a client relies on
  when it finds a channel (one of each name, pins are start points, a log begins
  with one) is assumed of the channels earlier sessions have left
  (`JoinConstants`) and proved of every channel since, unless one was created
  twice (`Guild`).
* `FuseHostSafety`: `Mount`, the session and its workers end in a fixed order
  (`Lifetimes`), which is why a callback finds its host and a signal an open
  channel; and a request is under the method that `fsop.go` resolves for it
  (`Calls`), which is why only what is not implemented is refused.
* `TxLogStartPoint`: a client that is about to unpin has pinned a copy that is
  younger than what it unpins. So the youngest message among the pins is never
  unpinned. The invariant (`PinInv`) says that every message a client remembers
  exists (`Known`), that a copy is younger than the start it replaces
  (`CopyIsYounger`) and that the youngest pin stays (`YoungestStays`).

* `TxLogRestartSafe`, `TxLogSetup`, `TxLogSafety`. The invariant (`LogInd`) says
  more of a pin than that the next start finds the tree there: reading from it up
  to *any* later message gives the tree the operations up to that message made
  (`GoodStart`), since a start pages while others post. Each message keeps every
  pin good: an operation changes both trees alike, a copy says of every path
  in it what the tree is. That in turn is what `Setup` says of a client that
  compacts: its buffer, on an empty database, is the tree, and it is posted
  before anybody else has posted, or the log is `damaged`. Before the first pin
  there are root folders only (`RootOnly`), and from any of them a start is good.
  The lemmas on `Applied`, `Overlay` and `Concatenated` say that replaying
  messages one by one, at once, or as one buffer makes the same tree.

Induction over data. The library's induction theorems take an operator as a
parameter and cannot be used. What is used instead is that every non-empty set
of naturals has a least element, from which `InductionOnSet` follows, and from
that the existence and the invariants of loops (`LoopExists`, `LoopInvariant`).

Only model-checked: liveness under fairness (`EveryCallReturns`, `Converges`,
`WorkEnds`, `IterationEnds`, `StartEnds`, `RequestsAnswered`,
`MountReturns`, `SignalUnmounts`), which is out of the prover's reach. Every safety
property that a passing run checks is a theorem, but for the bytes of
`BatchAtMostOneOver`.

## 7. Not modelled

* Times (`Utimens`, `mtim`, `ctim`) and file sizes in listings: no property tells
  them apart.
* The option parser (sequential, unit-tested), C structure conversion, platform
  bindings, `Notify`, `Getcontext`, flags, logging, pprof: no state of their own.
* Data races on single words (`cache.Size()` in `Release` and `Readdir` and `dirty`
  are read without the file's lock; `Rename` sets `tx.Path` outside of `fs.lock`): a
  read gives the old or the new value. The races whose outcome is more than that
  are modelled: the sort of `Load`, the map of `Database`, the shared position of
  `FileData`, and the loader's read of `fs.open`, in `FileData` too. The bar that a
  waiting writer puts before readers is there only, not in `FuseHost`.
* The copies a compaction posts reach the other clients that are mounted, whose
  `messageCreate` applies them like any message. `TxLog` has the compacting client
  and the log, `Dsfs` the mounted clients and no compaction: what a copy that was
  overtaken by a newer operation does to a mounted client's database is in neither.
* Two uploads of one file at once are in `Dsfs`, not in `FileData`.

## 8. Plan

Done: all modules of section 2, and the proofs of section 6. Left: an abstract
replicated map that `Dsfs` implements where nothing is tainted.

-------------------------------- MODULE Dsfs --------------------------------
(***************************************************************************)
(* The control plane of dsfs: the namespace (db), the open map, background *)
(* uploads, the append-only transaction log in the tx channel, and the     *)
(* live replication of that log to the other clients (fs.go, tx.go).       *)
(*                                                                         *)
(* Contents are versions: 0 is the empty file, every write makes a new     *)
(* one, and equal versions stand for equal checksums.  Whose size and      *)
(* blocks a transaction has is kept; the bytes are FileData's, as are the  *)
(* panics that leave a file locked or end the process.  Batching in the    *)
(* queue of the writer is Writer's: here each SendTx or SendData call      *)
(* ends, at some moment, stored, or failed.                                *)
(*                                                                         *)
(* Each FUSE callback is one step, except Rename, which lets go of fs.lock *)
(* in its middle.  Most hold fs.lock throughout; Write and Truncate hold   *)
(* it only to look the FileData up and then take that file's own lock,     *)
(* but all they change after that is the FileData they found, so the two   *)
(* critical sections make one step.  A pointer to a FileData is named by   *)
(* the number of the operation that made it, and a goroutine by the number *)
(* of the operation that started it.                                       *)
(***************************************************************************)
EXTENDS Integers, Sequences, FiniteSets

CONSTANTS
    Clients,
    Paths, Root,   \* the paths in play and "/"
    Parent,        \* getDir of each path
    Ancestors,     \* the folders a path lies in
    StartsWith,    \* the paths whose string has this path as a prefix
    Oversize,      \* paths whose transactions exceed MaxDiscordFileSize
    Large,         \* paths whose rename does not fit in one attachment
    History,       \* the log earlier sessions have left
    CacheType,     \* the flag -c: "memory" or "disk"
    MaxOps,        \* bound on FUSE callbacks
    MaxFaults,     \* bound on network failures and crashes
    None

Ops == 1..MaxOps

(* What the upload j posts when it has not gathered one content.           *)
Torn(j) == -j

(* Contents: the empty file, one per write, one per half-applied download, *)
(* one per torn upload, and those of earlier sessions.                     *)
Versions == 0..(MaxOps + MaxFaults) \cup {Torn(j) : j \in Ops}
                \cup {History[k].entry.ver : k \in
                        {n \in DOMAIN History : History[n].entry # None}}
Entry == [type : {"file", "folder"}, ver : Versions]
Tx == [path : Paths, entry : Entry \cup {None}]

File(v) == [type |-> "file", ver |-> v]
Folder == [type |-> "folder", ver |-> 0]
WriteTx(p, e) == [path |-> p, entry |-> e]
DeleteTx(p) == [path |-> p, entry |-> None]

(* An upload goroutine of Release: where it stands and what it captured;   *)
(* size is the content whose size the transaction has, ver that of its     *)
(* blocks.                                                                 *)
Job == [pc : {"check", "mark", "read", "data", "tx", "insert", "dirty",
              "syncing"},
        client : Clients, path : Paths, file : Ops,
        old : Versions \cup {None}, size : Versions, ver : Versions]

ASSUME DsfsConstants ==
    /\ IsFiniteSet(Paths)
    /\ Root \in Paths
    /\ Parent \in [Paths -> Paths] /\ Parent[Root] = Root
    /\ Ancestors \in [Paths -> SUBSET Paths]
    /\ StartsWith \in [Paths -> SUBSET Paths]
    /\ \A p \in Paths : p \in StartsWith[p] /\ p \notin Ancestors[p]
    /\ \A p \in Paths \ {Root} : Parent[p] \in Ancestors[p]
    /\ \A p, q \in Paths : p \in Ancestors[q] => q \in StartsWith[p]
    /\ MaxOps \in Nat /\ MaxFaults \in Nat
    /\ CacheType \in {"memory", "disk"}
    /\ None \notin Entry \cup Ops \cup Versions
    /\ None \notin Job
    /\ History \in Seq(Tx)

VARIABLES
    db,        \* db[c][p]: the entry of p in client c's database, or None
    open,      \* open[c][p]: the FileData open under p, or None
    files,     \* the FileData objects
    jobs,      \* upload goroutines of Release
    sending,   \* go func() { fs.writer.SendTx(b) }() goroutines
    renaming,  \* Renames between their two critical sections
    log,       \* the transactions in the tx channel
    inbox,     \* inbox[c]: messages whose handler has not finished at c
    stored,    \* versions the data channel holds
    ops,       \* callbacks so far
    faults,    \* failures so far
    tainted    \* history: paths with racing updates or a lost one

vars == <<db, open, files, jobs, sending, renaming, log, inbox, stored, ops,
          faults, tainted>>
fsVars == <<db, open>>
goVars == <<jobs, sending, renaming>>
discordVars == <<log, inbox, stored>>

(* loads: it has a loader, which may not have brought every block yet, or  *)
(* never will, or brings one over a later write.                           *)
FileData == [ver : Versions, loads : BOOLEAN, dirty : BOOLEAN,
             syncing : BOOLEAN]
NewFile(v) == [ver |-> v, loads |-> v # 0, dirty |-> FALSE, syncing |-> FALSE]

(* applyMessageTxs on startup: the last transaction on a path decides.     *)
Touches(p) == {k \in DOMAIN log : log[k].path = p}
Replayed(p) == IF Touches(p) = {} THEN None
               ELSE log[CHOOSE k \in Touches(p) :
                            \A n \in Touches(p) : n <= k].entry

Init ==
    /\ log = History
    /\ db = [c \in Clients |-> [p \in Paths |-> Replayed(p)]]
    /\ open = [c \in Clients |-> [p \in Paths |-> None]]
    /\ files = [f \in Ops |-> NewFile(0)]
    /\ jobs = [j \in Ops |-> None]
    /\ sending = {}
    /\ renaming = {}
    /\ inbox = [c \in Clients |-> {}]
    /\ stored = {log[k].entry.ver : k \in
                    {n \in DOMAIN log : log[n].entry # None}}
    /\ ops = 0
    /\ faults = 0
    /\ tainted = {}

-----------------------------------------------------------------------------
(* What a callback sees, and what its environment guarantees.              *)

Exists(c, p) == open[c][p] # None \/ db[c][p] # None

(* Getattr: the open map hides the database.                               *)
IsRegular(c, p) == open[c][p] # None
                    \/ (db[c][p] # None /\ db[c][p].type = "file")
IsFolder(c, p) == Exists(c, p) /\ ~IsRegular(c, p)

(* A mutant: what is open is listed from the database too.                 *)
ListTwice(c, d) ==
    {<<p, "db">> : p \in {q \in StartsWith[d] \ {d} :
        db[c][q] # None /\ Parent[q] = d}}
    \cup {<<p, "open">> : p \in {q \in Paths :
        open[c][q] # None /\ Parent[q] = d}}

(* Readdir: the database without what is open, then the open map.          *)
Listing(c, d) ==
    {<<p, "db">> : p \in {q \in StartsWith[d] \ {d} :
        db[c][q] # None /\ open[c][q] = None /\ Parent[q] = d}}
    \cup {<<p, "open">> : p \in {q \in Paths :
        open[c][q] # None /\ Parent[q] = d}}

(* External: libfuse holds the tree lock of both paths during a Rename, so *)
(* no other callback of the client runs on, above or below them.           *)
Related(p, q) == p = q \/ p \in Ancestors[q] \/ q \in Ancestors[p]
TreeFree(c, p) ==
    \A r \in renaming : r.client = c =>
        ~Related(p, r.old) /\ ~Related(p, r.new)

Callback(c, p) ==
    /\ ops < MaxOps
    /\ ops' = ops + 1
    /\ p # Root
    /\ TreeFree(c, p)
    /\ UNCHANGED faults

Fault == faults < MaxFaults /\ faults' = faults + 1

(* Something on its way will still set the entry of p somewhere.           *)
Names(txs, p) == \E k \in DOMAIN txs : txs[k].path = p
Unsettled(p) ==
    \/ \E s \in sending : \E k \in DOMAIN s.msgs : Names(s.msgs[k], p)
    \/ \E r \in renaming : p \in {r.old, r.new}
    \/ \E j \in Ops : /\ jobs[j] # None
                      /\ jobs[j].path = p
                      /\ jobs[j].pc \notin {"dirty", "syncing"}
    \/ \E c \in Clients : \E m \in inbox[c] : Names(m.txs, p)

Begin(P) == tainted' = tainted \cup {p \in P : Unsettled(p)}

(* go func() { fs.writer.SendTx(b) }(), one message after the other.       *)
Spawn(c, msgs) ==
    sending' = sending \cup {[client |-> c, id |-> ops', msgs |-> msgs]}

(* The tail of Mkdir, Unlink and Rmdir: EACCES after the database changed. *)
SendSmall(c, t) ==
    \/ /\ t.path \in Oversize
       /\ tainted' = tainted \cup {t.path}
       /\ UNCHANGED sending
    \/ /\ t.path \notin Oversize
       /\ Begin({t.path})
       /\ Spawn(c, <<<<t>>>>)

-----------------------------------------------------------------------------
(* FUSE callbacks.  Those that return an error change nothing.             *)

(* External: the kernel looks a name up before it creates it, and creates  *)
(* nothing inside a regular file.                                          *)
Mknod(c, p) ==
    /\ Callback(c, p)
    /\ ~IsRegular(c, Parent[p])
    /\ open[c][p] = None
    /\ db[c][Parent[p]] # None
    /\ db[c][p] = None
    /\ open' = [open EXCEPT ![c][p] = ops']
    /\ files' = [files EXCEPT ![ops'] = NewFile(0)]
    /\ UNCHANGED <<db, goVars, discordVars, tainted>>

Mkdir(c, p) ==
    /\ Callback(c, p)
    /\ ~IsRegular(c, Parent[p])
    /\ open[c][p] = None
    /\ db[c][Parent[p]] # None
    /\ db[c][p] = None
    /\ db' = [db EXCEPT ![c][p] = Folder]
    /\ SendSmall(c, WriteTx(p, Folder))
    /\ UNCHANGED <<open, files, jobs, renaming, discordVars>>

Open(c, p) ==
    /\ Callback(c, p)
    /\ open[c][p] = None
    /\ db[c][p] # None
    /\ db[c][p].type = "file"
    /\ open' = [open EXCEPT ![c][p] = ops']
    /\ files' = [files EXCEPT ![ops'] = NewFile(db[c][p].ver)]
    /\ UNCHANGED <<db, goVars, discordVars, tainted>>

(* Only in memory: dropped.  In the database: deleted there, and in memory.*)
Unlink(c, p) ==
    /\ Callback(c, p)
    /\ IsRegular(c, p)
    /\ open' = [open EXCEPT ![c][p] = None]
    /\ \/ /\ db[c][p] = None
          /\ UNCHANGED <<db, sending, tainted>>
       \/ /\ db[c][p] # None
          /\ db[c][p].type = "file"
          /\ db' = [db EXCEPT ![c][p] = None]
          /\ SendSmall(c, DeleteTx(p))
    /\ UNCHANGED <<files, jobs, renaming, discordVars>>

(* A mutant: the folder is not looked into.                                *)
LooksAtNothing(c, p) == db[c][p] # None

(* The iterator of the database runs over keys with path as a prefix.      *)
SeemsEmpty(c, p) == \A q \in StartsWith[p] \ {p} : db[c][q] = None

Rmdir(c, p) ==
    /\ Callback(c, p)
    /\ IsFolder(c, p)
    /\ SeemsEmpty(c, p)
    /\ db' = [db EXCEPT ![c][p] = None]
    /\ SendSmall(c, DeleteTx(p))
    /\ UNCHANGED <<open, files, jobs, renaming, discordVars>>

(* Mutants of the pieces below.                                            *)
CopyOpen(c, p, q) == IF open[c][p] = None THEN open
                     ELSE [open EXCEPT ![c][q] = open[c][p]]
CommitForgetsOld(r) == [db EXCEPT ![r.client][r.new] = r.entry]

MoveOpen(c, p, q) ==
    IF open[c][p] = None THEN open
    ELSE [open EXCEPT ![c][q] = open[c][p], ![c][p] = None]

(* External: the kernel has looked both names up; it replaces like by      *)
(* like, and moves nothing into a file and no folder into itself.          *)
MayRename(c, p, q) ==
    /\ p # q /\ p \notin Ancestors[q] /\ q # Root
    /\ TreeFree(c, q)
    /\ Exists(c, p) /\ ~IsRegular(c, Parent[q])
    /\ Exists(c, q) => (IsFolder(c, p) <=> IsFolder(c, q))

RenameInMemory(c, p, q) ==
    /\ Callback(c, p)
    /\ MayRename(c, p, q)
    /\ db[c][Parent[q]] # None
    /\ db[c][p] = None
    /\ open' = MoveOpen(c, p, q)
    /\ UNCHANGED <<db, files, goVars, discordVars, tainted>>

RenameMessages(p, q, e) ==
    IF q \in Large THEN <<<<WriteTx(q, e)>>, <<DeleteTx(p)>>>>
    ELSE <<<<WriteTx(q, e), DeleteTx(p)>>>>

(* Up to the first Unlock, and the goroutine started after it.  An         *)
(* oversized transaction returns EACCES with the open file already moved.  *)
Rename(c, p, q) ==
    /\ Callback(c, p)
    /\ MayRename(c, p, q)
    /\ db[c][Parent[q]] # None
    /\ db[c][p] # None
    /\ \/ db[c][p].type = "folder" /\ SeemsEmpty(c, p) /\ UNCHANGED open
       \/ db[c][p].type = "file" /\ open' = MoveOpen(c, p, q)
    /\ \/ /\ {p, q} \cap Oversize # {}
          /\ UNCHANGED <<sending, renaming, tainted>>
       \/ /\ {p, q} \cap Oversize = {}
          /\ Begin({p, q})
          /\ Spawn(c, RenameMessages(p, q, db[c][p]))
          /\ renaming' = renaming \cup
                {[client |-> c, id |-> ops', old |-> p, new |-> q,
                  entry |-> db[c][p]]}
    /\ UNCHANGED <<db, files, jobs, discordVars>>

Committed(r) == [db EXCEPT ![r.client][r.new] = r.entry,
                           ![r.client][r.old] = None]

(* The second critical section of Rename.                                  *)
RenameCommit(r) ==
    /\ db' = Committed(r)
    /\ renaming' = renaming \ {r}
    /\ UNCHANGED <<open, files, jobs, sending, discordVars, ops, faults,
                   tainted>>

(* A mutant: a change that Release does not see.                           *)
StaysClean(f, v) == [files EXCEPT ![f].ver = v]

Written(f, v) == [files EXCEPT ![f].ver = v, ![f].dirty = TRUE]

Write(c, p) ==
    /\ Callback(c, p)
    /\ open[c][p] # None
    /\ files' = Written(open[c][p], ops')
    /\ UNCHANGED <<fsVars, goVars, discordVars, tainted>>

(* Truncating to the size the file has returns early.                      *)
Truncate(c, p) ==
    /\ Callback(c, p)
    /\ open[c][p] # None
    /\ \E v \in {0, ops'} \ {files[open[c][p]].ver} :
        files' = Written(open[c][p], v)
    /\ UNCHANGED <<fsVars, goVars, discordVars, tainted>>

(* A dirty file is uploaded in the background; the old transaction and the *)
(* size are read now, under fs.lock, the content later, without it.        *)
Release(c, p) ==
    /\ Callback(c, p)
    /\ open[c][p] # None
    /\ files[open[c][p]].dirty
    /\ jobs' = [jobs EXCEPT ![ops'] =
            [pc |-> "check", client |-> c, path |-> p, file |-> open[c][p],
             old |-> IF db[c][p] = None THEN None ELSE db[c][p].ver,
             size |-> files[open[c][p]].ver, ver |-> 0]]
    /\ Begin({p})
    /\ UNCHANGED <<fsVars, files, sending, renaming, discordVars>>

-----------------------------------------------------------------------------
(* The tx channel.                                                         *)

(* A message is stored and its MESSAGE_CREATE event goes to every other    *)
(* client, whose handlers run in goroutines of their own: in any order.    *)
Post(c, txs) ==
    /\ log' = log \o txs
    /\ inbox' = [d \in Clients |->
            IF d = c THEN inbox[d]
            ELSE inbox[d] \cup {[id |-> Len(log), txs |-> txs, new |-> TRUE]}]

PathsOf(txs) == {txs[k].path : k \in DOMAIN txs}

(* A mutant: a handler stops after the first transaction of its batch.     *)
OnlyFirst(m) == {}

Unsent(s) == IF Len(s.msgs) = 1 THEN {} ELSE {[s EXCEPT !.msgs = Tail(@)]}

(* A background SendTx returns; its error is ignored.  After an error the  *)
(* message may have been stored all the same.                              *)
SendTx(s) ==
    /\ sending' = (sending \ {s}) \cup Unsent(s)
    /\ \/ /\ Post(s.client, Head(s.msgs))
          /\ UNCHANGED <<faults, tainted>>
       \/ /\ Fault
          /\ tainted' = tainted \cup PathsOf(Head(s.msgs))
          /\ UNCHANGED <<log, inbox>>
    /\ UNCHANGED <<fsVars, files, jobs, renaming, stored, ops>>

-----------------------------------------------------------------------------
(* The upload goroutine of Release.                                        *)

At(j, pc) == jobs[j] # None /\ jobs[j].pc = pc
Goto(j, pc) == jobs' = [jobs EXCEPT ![j].pc = pc]

(* if file.syncing.Load() { return }                                       *)
UploadCheck(j) ==
    /\ At(j, "check")
    /\ \/ files[jobs[j].file].syncing /\ jobs' = [jobs EXCEPT ![j] = None]
       \/ ~files[jobs[j].file].syncing /\ Goto(j, "mark")
    /\ UNCHANGED <<fsVars, files, sending, renaming, discordVars, ops, faults,
                   tainted>>

(* file.syncing.Store(true): a second statement, not a compare-and-swap.   *)
UploadMark(j) ==
    /\ At(j, "mark")
    /\ files' = [files EXCEPT ![jobs[j].file].syncing = TRUE]
    /\ Goto(j, "read")
    /\ UNCHANGED <<fsVars, sending, renaming, discordVars, ops, faults,
                   tainted>>

(* Mutants: the data is not waited for; a failed upload skips the cleanup. *)
NeverSent(v, old) == FALSE
LeaveSyncing(j) == [jobs EXCEPT ![j] = None]

(* up: a block whose checksum the old transaction has is not sent again,   *)
(* and an empty file has no block.                                         *)
NeedsData(v, old) == v # 0 /\ v # old

(* The blocks are counted, and read one by one.  They are the file as it   *)
(* is now, with the size that it had when Release took it; if that was of  *)
(* another content, or if blocks are not loaded and read as zeros, the     *)
(* transaction may be that of no content, and is if one of the two is empty.*)
Gathered(j) ==
    LET f == files[jobs[j].file] IN
    {v \in {f.ver} : v = 0 <=> jobs[j].size = 0}
        \cup {v \in {Torn(j)} : f.ver # jobs[j].size \/ f.loads}

UploadRead(j) ==
    /\ At(j, "read")
    /\ \E v \in Gathered(j) :
        jobs' = [jobs EXCEPT ![j].ver = v,
                    ![j].pc = IF v = 0 THEN "tx" ELSE "data"]
    /\ UNCHANGED <<fsVars, files, sending, renaming, discordVars, ops, faults,
                   tainted>>

(* A later block is of a newer content; or a Read, which may have begun at *)
(* any time, or another upload moves the position of the temporary file    *)
(* between the upload's seek and its read.                                 *)
UploadTears(j) ==
    /\ At(j, "data")
    /\ files[jobs[j].file].ver # jobs[j].ver \/ CacheType = "disk"
    /\ jobs' = [jobs EXCEPT ![j].ver = Torn(j)]
    /\ UNCHANGED <<fsVars, files, sending, renaming, discordVars, ops, faults,
                   tainted>>

Abandoned(j) == [jobs EXCEPT ![j].pc = "dirty"]

UploadData(j) ==
    /\ At(j, "data")
    /\ \/ /\ stored' = stored \cup
                {v \in {jobs[j].ver} : NeedsData(v, jobs[j].old)}
          /\ Goto(j, "tx")
          /\ UNCHANGED faults
       \/ /\ NeedsData(jobs[j].ver, jobs[j].old)
          /\ Fault
          /\ jobs' = Abandoned(j)
          /\ UNCHANGED stored
    /\ UNCHANGED <<fsVars, files, sending, renaming, log, inbox, ops, tainted>>

(* The transaction is too large, or SendTx returns: stored, failed, or     *)
(* stored with the answer lost.                                            *)
UploadTx(j) ==
    /\ At(j, "tx")
    /\ LET t == WriteTx(jobs[j].path, File(jobs[j].ver)) IN
        \/ /\ t.path \in Oversize
           /\ jobs' = Abandoned(j)
           /\ UNCHANGED <<log, inbox, faults, tainted>>
        \/ /\ t.path \notin Oversize
           /\ Post(jobs[j].client, <<t>>)
           /\ Goto(j, "insert")
           /\ UNCHANGED <<faults, tainted>>
        \/ /\ t.path \notin Oversize
           /\ Fault
           /\ jobs' = Abandoned(j)
           /\ \/ UNCHANGED <<log, inbox, tainted>>
              \/ /\ Post(jobs[j].client, <<t>>)
                 /\ tainted' = tainted \cup {t.path}
    /\ UNCHANGED <<fsVars, files, sending, renaming, stored, ops>>

UploadInsert(j) ==
    /\ At(j, "insert")
    /\ db' = [db EXCEPT ![jobs[j].client][jobs[j].path] = File(jobs[j].ver)]
    /\ Goto(j, "dirty")
    /\ UNCHANGED <<open, files, sending, renaming, discordVars, ops, faults,
                   tainted>>

(* The deferred calls, last one first; they run on every way out.          *)
UploadClean(j) ==
    /\ At(j, "dirty")
    /\ files' = [files EXCEPT ![jobs[j].file].dirty = FALSE]
    /\ Goto(j, "syncing")
    /\ UNCHANGED <<fsVars, sending, renaming, discordVars, ops, faults,
                   tainted>>

UploadDone(j) ==
    /\ At(j, "syncing")
    /\ files' = [files EXCEPT ![jobs[j].file].syncing = FALSE]
    /\ jobs' = [jobs EXCEPT ![j] = None]
    /\ UNCHANGED <<fsVars, sending, renaming, discordVars, ops, faults,
                   tainted>>

Upload(j) ==
    \/ UploadCheck(j) \/ UploadMark(j) \/ UploadRead(j) \/ UploadData(j)
    \/ UploadTx(j) \/ UploadInsert(j) \/ UploadClean(j) \/ UploadDone(j)

-----------------------------------------------------------------------------
(* messageCreate and applyMessageTxs on a live client: each transaction of *)
(* a message is applied under its own acquisition of fs.lock.              *)

Unread(m) == IF Len(m.txs) = 1 THEN {}
             ELSE {[m EXCEPT !.txs = Tail(@), !.new = FALSE]}
Consume(c, m) == inbox' = [inbox EXCEPT ![c] = (@ \ {m}) \cup Unread(m)]

(* ApplyLiveTx: an open file is cut and patched to the new content, or, if *)
(* a download fails, left with part of it.  dirty stays as it is.          *)
ApplyLiveTx(c, m) ==
    LET t == Head(m.txs) IN
    /\ t.entry # None
    /\ Consume(c, m)
    /\ db' = [db EXCEPT ![c][t.path] = t.entry]
    /\ \/ /\ open[c][t.path] = None
          /\ UNCHANGED <<files, faults>>
       \/ /\ open[c][t.path] # None
          /\ files' = [files EXCEPT ![open[c][t.path]].ver = t.entry.ver]
          /\ UNCHANGED faults
       \/ /\ open[c][t.path] # None
          /\ Fault
          /\ files' = [files EXCEPT ![open[c][t.path]].ver =
                            MaxOps + faults']
    /\ UNCHANGED <<open, goVars, log, stored, ops, tainted>>

ApplyDelete(c, m) ==
    LET t == Head(m.txs) IN
    /\ t.entry = None
    /\ Consume(c, m)
    /\ db' = [db EXCEPT ![c][t.path] = None]
    /\ open' = [open EXCEPT ![c][t.path] = None]
    /\ UNCHANGED <<files, goVars, log, stored, ops, faults, tainted>>

(* "skipping tx batch": the attachment could not be fetched.               *)
SkipBatch(c, m) ==
    /\ m.new
    /\ Fault
    /\ inbox' = [inbox EXCEPT ![c] = @ \ {m}]
    /\ tainted' = tainted \cup PathsOf(m.txs)
    /\ UNCHANGED <<fsVars, files, goVars, log, stored, ops>>

Handle(c, m) == ApplyLiveTx(c, m) \/ ApplyDelete(c, m) \/ SkipBatch(c, m)

(* The process stops (an unmount does not wait for its goroutines either)  *)
(* and starts again: setupDB replays the log.                              *)
Restart(c) ==
    /\ Fault
    /\ db' = [db EXCEPT ![c] = [p \in Paths |-> Replayed(p)]]
    /\ open' = [open EXCEPT ![c] = [p \in Paths |-> None]]
    /\ jobs' = [j \in Ops |->
            IF jobs[j] # None /\ jobs[j].client = c THEN None ELSE jobs[j]]
    /\ sending' = {s \in sending : s.client # c}
    /\ renaming' = {r \in renaming : r.client # c}
    /\ inbox' = [inbox EXCEPT ![c] = {}]
    /\ UNCHANGED <<files, log, stored, ops, tainted>>

-----------------------------------------------------------------------------
Callbacks ==
    \E c \in Clients, p \in Paths :
        \/ Mknod(c, p) \/ Mkdir(c, p) \/ Open(c, p) \/ Unlink(c, p)
        \/ Rmdir(c, p) \/ Write(c, p) \/ Truncate(c, p) \/ Release(c, p)
        \/ \E q \in Paths : RenameInMemory(c, p, q) \/ Rename(c, p, q)

Background ==
    \/ \E s \in sending : SendTx(s)
    \/ \E r \in renaming : RenameCommit(r)
    \/ \E j \in Ops : Upload(j)
    \/ \E c \in Clients : \E m \in inbox[c] : Handle(c, m)

Next ==
    \/ Callbacks
    \/ Background
    \/ \E j \in Ops : UploadTears(j)
    \/ \E c \in Clients : Restart(c)

(* Goroutines are scheduled, Discord answers or its client times out, and  *)
(* events reach a connected client.  Nobody has to call the file system.   *)
Spec == Init /\ [][Next]_vars /\ WF_vars(Background)

-----------------------------------------------------------------------------
(* Properties that hold.                                                   *)

Batch == Seq(Tx) \ {<<>>}
Send == [client : Clients, id : Ops, msgs : Seq(Batch) \ {<<>>}]
Renaming == [client : Clients, id : Ops, old : Paths, new : Paths,
             entry : Entry]
Message == [id : Nat, txs : Batch, new : BOOLEAN]

(* The type invariant of the file system, its goroutines and the channels. *)
TypeOK ==
    /\ db \in [Clients -> [Paths -> Entry \cup {None}]]
    /\ open \in [Clients -> [Paths -> Ops \cup {None}]]
    /\ files \in [Ops -> FileData]
    /\ jobs \in [Ops -> Job \cup {None}]
    /\ sending \subseteq Send
    /\ renaming \subseteq Renaming
    /\ log \in Seq(Tx)
    /\ inbox \in [Clients -> SUBSET Message]
    /\ stored \subseteq Versions
    /\ ops \in 0..MaxOps
    /\ faults \in 0..MaxFaults
    /\ tainted \subseteq Paths

(* A FileData is open under one path of one client at a time: no sequence  *)
(* of creations, renames, remote deletes and restarts aliases two paths.   *)
OpenInjective ==
    \A c, d \in Clients : \A p, q \in Paths :
        open[c][p] # None /\ open[c][p] = open[d][q] => c = d /\ p = q

Durable(e, S) == e = None \/ e.ver = 0 \/ e.ver \in S
DurableBatch(b, S) == \A k \in DOMAIN b : Durable(b[k].entry, S)

(* Data before metadata: a transaction anyone can see, in the log, on its  *)
(* way, or in a database, refers to blocks the data channel holds, through *)
(* failed uploads, skipped blocks, renames and crashes.                    *)
DurableContent ==
    /\ DurableBatch(log, stored)
    /\ \A c \in Clients : \A p \in Paths : Durable(db[c][p], stored)
    /\ \A s \in sending : \A k \in DOMAIN s.msgs :
        DurableBatch(s.msgs[k], stored)

Uploading(f) == {j \in Ops : jobs[j] # None /\ jobs[j].file = f
                                /\ jobs[j].pc \notin {"check", "mark"}}

(* The syncing flag of a file some client has open is up only while an     *)
(* upload of it runs: no error path leaves a file that can never be        *)
(* flushed again.                                                          *)
SyncingHeld ==
    \A c \in Clients, p \in Paths :
        open[c][p] # None /\ files[open[c][p]].syncing =>
            Uploading(open[c][p]) # {}

(* Every client's database is the log replayed, at each path where nothing *)
(* is on its way, unless updates of that path overlapped in time or one of *)
(* them was lost to a failure: those are the only causes of divergence.    *)
DivergenceOnlyByRace ==
    \A p \in Paths : p \in tainted \/ Unsettled(p) \/
        \A c \in Clients : db[c][p] = Replayed(p)

(* ls shows each name that stat finds, once, and no other.                 *)
ReaddirAgreesWithGetattr ==
    \A c \in Clients, d \in Paths :
        LET listing == Listing(c, d)
            names == {l[1] : l \in listing}
        IN /\ names = {p \in Paths \ {Root} : Parent[p] = d /\ Exists(c, p)}
           /\ Cardinality(listing) = Cardinality(names)

(* The clients end up with the same tree: what is written reaches the log  *)
(* and every other client, wherever no race or failure disturbed it.       *)
Converges ==
    \A p \in Paths : <>[](p \in tainted \/
        \A c \in Clients : db[c][p] = Replayed(p))

-----------------------------------------------------------------------------
(* What the repository says of the program and the code does not do.       *)

Idle(f) == \A j \in Ops : jobs[j] = None \/ jobs[j].file # f

(* fs.go:504: "When a file is closed and is "dirty" (aka modified), the    *)
(* entire file is flushed in the background": without failures, a file     *)
(* that is not dirty and not being uploaded has its content in the         *)
(* database.                                                               *)
CloseFlushes ==
    \A c \in Clients, p \in Paths :
        LET f == open[c][p] IN
        f # None /\ faults = 0 =>
            \/ files[f].dirty \/ ~Idle(f) \/ files[f].ver = 0
            \/ Unsettled(p)
            \/ db[c][p] = File(files[f].ver)
=============================================================================

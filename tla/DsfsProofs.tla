----------------------------- MODULE DsfsProofs -----------------------------
(***************************************************************************)
(* Dsfs's safety for any clients, any tree of paths, any log left by       *)
(* earlier sessions and any number of operations and failures; and what    *)
(* its history variables say of a client that is alone.                    *)
(***************************************************************************)
EXTENDS DsfsHistory, FiniteSetTheorems, SequenceTheorems,
        WellFoundedInduction, TLAPS

(* A non-empty set of positions in a log has a last one.                   *)
LEMMA LastExists ==
    ASSUME NEW n \in Nat, NEW T, T \subseteq 1..n, T # {}
    PROVE  \E k \in T : \A m \in T : m <= k
<1> DEFINE U == {n - k : k \in T}
<1>1. \A k \in T : k \in 1..n /\ n - k \in Nat
  OBVIOUS
<1>2. U \subseteq Nat
  BY <1>1
<1>3. U # {}
  <2>1. PICK k : k \in T
    OBVIOUS
  <2>2. n - k \in U
    BY <2>1
  <2> QED BY <2>2
<1>4. PICK x \in U : \A y \in U : ~(<<y, x>> \in OpToRel(<, Nat))
  <2> HIDE DEF U
  <2> QED BY <1>2, <1>3, NatLessThanWellFounded, WFMin
<1>5. \A y \in U : ~(y < x)
  BY <1>2, <1>4, Zenon DEF OpToRel
<1>6. PICK k \in T : x = n - k
  OBVIOUS
<1>7. ASSUME NEW m \in T PROVE m <= k
  <2>1. ~(n - m < n - k)
    BY <1>5, <1>6
  <2> QED BY <1>1, <2>1
<1> QED BY <1>7

(* What a replay finds for a path is nothing or the entry of some          *)
(* transaction of the log.                                                 *)
LEMMA ReplayedFromLog ==
    ASSUME log \in Seq(Tx), NEW p
    PROVE  \/ Replayed(p) = None
           \/ \E k \in DOMAIN log : Replayed(p) = log[k].entry
<1>1. CASE Touches(p) = {}
  BY <1>1 DEF Replayed
<1>2. CASE Touches(p) # {}
  <2>1. Len(log) \in Nat /\ Touches(p) \subseteq 1..Len(log)
    BY LenProperties DEF Touches
  <2>2. \E k \in Touches(p) : \A n \in Touches(p) : n <= k
    BY <1>2, <2>1, LastExists
  <2>3. PICK k \in Touches(p) : Replayed(p) = log[k].entry
    BY <1>2, <2>2 DEF Replayed
  <2> QED BY <2>3 DEF Touches
<1> QED BY <1>1, <1>2

-----------------------------------------------------------------------------
(* Types.                                                                  *)

LEMMA VersionTypes ==
    /\ 0 \in Versions
    /\ \A n \in Ops : n \in Versions
    /\ \A n \in 1..MaxFaults : MaxOps + n \in Versions
    /\ \A j \in Ops : Torn(j) \in Versions
BY DsfsConstants DEF Versions, Ops

LEMMA EntryTypes ==
    /\ Folder \in Entry
    /\ \A v \in Versions : File(v) \in Entry
    /\ \A e \in Entry : e.ver \in Versions
    /\ \A p \in Paths, e \in Entry : WriteTx(p, e) \in Tx
    /\ \A p \in Paths : DeleteTx(p) \in Tx
    /\ \A t \in Tx : t.path \in Paths /\ t.entry \in Entry \cup {None}
BY VersionTypes DEF Folder, File, Entry, WriteTx, DeleteTx, Tx

(* Non-empty sequences over any set.                                       *)
LEMMA NonEmptySeqs ==
    ASSUME NEW S
    PROVE  /\ \A x \in S : <<x>> \in Seq(S) \ {<<>>}
           /\ \A x, y \in S : <<x, y>> \in Seq(S) \ {<<>>}
           /\ \A s \in Seq(S) \ {<<>>} :
                /\ Len(s) \in Nat \ {0}
                /\ Head(s) \in S
                /\ Len(s) # 1 => Tail(s) \in Seq(S) \ {<<>>}
                /\ \A k \in DOMAIN s : s[k] \in S
<1>1. \A x \in S : <<x>> \in Seq(S) \ {<<>>}
  OBVIOUS
<1>2. \A x, y \in S : <<x, y>> \in Seq(S) \ {<<>>}
  OBVIOUS
<1>3. ASSUME NEW s \in Seq(S) \ {<<>>}
      PROVE  /\ Len(s) \in Nat \ {0}
             /\ Head(s) \in S
             /\ Len(s) # 1 => Tail(s) \in Seq(S) \ {<<>>}
             /\ \A k \in DOMAIN s : s[k] \in S
  <2>1. Len(s) \in Nat \ {0}
    BY <1>3, EmptySeq
  <2>2. Head(s) \in S /\ Tail(s) \in Seq(S) /\ Len(Tail(s)) = Len(s) - 1
    BY <1>3, HeadTailProperties
  <2>3. Len(s) # 1 => Tail(s) # <<>>
    BY <2>1, <2>2
  <2>4. \A k \in DOMAIN s : s[k] \in S
    BY <1>3, LenProperties, ElementOfSeq
  <2> QED BY <2>1, <2>2, <2>3, <2>4
<1> QED BY <1>1, <1>2, <1>3


LEMMA InitType == Init => TypeOK
<1> SUFFICES ASSUME Init PROVE TypeOK
  OBVIOUS
<1>1. log \in Seq(Tx) /\ log = History
  BY DsfsConstants DEF Init
<1>2. \A p \in Paths : Replayed(p) \in Entry \cup {None}
  <2>1. \A k \in DOMAIN log : log[k].entry \in Entry \cup {None}
    BY <1>1, EntryTypes, LenProperties, ElementOfSeq
  <2> QED BY <1>1, <2>1, ReplayedFromLog
<1>3. stored \subseteq Versions
  BY <1>1 DEF Init, Versions
<1>4. \A v \in Versions : NewFile(v) \in FileData
  BY DEF NewFile, FileData
<1> QED BY <1>1, <1>2, <1>3, <1>4, VersionTypes, DsfsConstants DEF Init, TypeOK

(* The pieces the actions share keep their parts of the types.             *)
LEMMA SendSmallType ==
    ASSUME TypeOK, NEW c \in Clients, NEW t \in Tx, ops' \in Ops,
           SendSmall(c, t)
    PROVE  sending' \subseteq Send /\ tainted' \subseteq Paths
<1>1. tainted' \subseteq Paths
  BY EntryTypes DEF SendSmall, Begin, TypeOK
<1> DEFINE m == <<<<t>>>>
<1>2. m \in Seq(Batch) \ {<<>>}
  <2>1. <<t>> \in Batch
    BY NonEmptySeqs DEF Batch
  <2> QED BY <2>1, NonEmptySeqs
<1>3. sending' = sending \/ Spawn(c, m)
  BY DEF SendSmall
<1> HIDE DEF m
<1> QED BY <1>1, <1>2, <1>3 DEF Spawn, Send, TypeOK

LEMMA PostType ==
    ASSUME TypeOK, NEW c \in Clients, NEW b \in Batch, Post(c, b)
    PROVE  log' \in Seq(Tx) /\ inbox' \in [Clients -> SUBSET Message]
<1>1. log' \in Seq(Tx)
  BY ConcatProperties DEF Post, TypeOK, Batch
<1>2. [id |-> Len(log), txs |-> b, new |-> TRUE] \in Message
  BY LenProperties DEF TypeOK, Message
<1>3. \A d \in Clients : inbox[d] \subseteq Message
  BY DEF TypeOK
<1>4. inbox' \in [Clients -> SUBSET Message]
  BY <1>2, <1>3 DEF Post
<1> QED BY <1>1, <1>4

LEMMA CallbackType ==
    ASSUME TypeOK, NEW c \in Clients, NEW p \in Paths, Callback(c, p)
    PROVE  /\ ops' = ops + 1 /\ ops' \in Ops /\ ops' \in 0..MaxOps
           /\ faults' = faults
BY DsfsConstants DEF Callback, TypeOK, Ops

LEMMA WrittenType ==
    ASSUME TypeOK, NEW f \in Ops, NEW v \in Versions
    PROVE  Written(f, v) \in [Ops -> FileData]
BY DEF TypeOK, Written, FileData

LEMMA CallbacksType == TypeOK /\ Callbacks => TypeOK'
<1> SUFFICES ASSUME TypeOK, NEW c \in Clients, NEW p \in Paths,
                    \/ Mknod(c, p) \/ Mkdir(c, p) \/ Open(c, p) \/ Unlink(c, p)
                    \/ Rmdir(c, p) \/ Write(c, p) \/ Truncate(c, p)
                    \/ Release(c, p)
                    \/ \E q \in Paths : RenameInMemory(c, p, q) \/ Rename(c, p, q)
             PROVE  TypeOK'
  BY DEF Callbacks
<1> USE DEF fsVars, goVars, discordVars
<1>0. /\ db[c] \in [Paths -> Entry \cup {None}]
      /\ open[c] \in [Paths -> Ops \cup {None}]
      /\ \A v \in Versions : NewFile(v) \in FileData
  BY DEF TypeOK, NewFile, FileData
<1>1. CASE Mknod(c, p)
  BY <1>1, CallbackType, <1>0, VersionTypes DEF Mknod, TypeOK
<1>2. CASE Mkdir(c, p)
  <2>1. sending' \subseteq Send /\ tainted' \subseteq Paths
    BY <1>2, CallbackType, SendSmallType, EntryTypes DEF Mkdir
  <2> QED BY <1>2, <2>1, CallbackType, <1>0, EntryTypes DEF Mkdir, TypeOK
<1>3. CASE Open(c, p)
  <2>1. db[c][p].ver \in Versions
    BY <1>3, <1>0, EntryTypes DEF Open
  <2> QED BY <1>3, <2>1, CallbackType, <1>0 DEF Open, TypeOK
<1>4. CASE Unlink(c, p)
  <2>1. /\ db' \in [Clients -> [Paths -> Entry \cup {None}]]
        /\ sending' \subseteq Send /\ tainted' \subseteq Paths
    <3>1. CASE UNCHANGED <<db, sending, tainted>>
      BY <3>1 DEF TypeOK
    <3>2. CASE db' = [db EXCEPT ![c][p] = None] /\ SendSmall(c, DeleteTx(p))
      <4>1. sending' \subseteq Send /\ tainted' \subseteq Paths
        BY <1>4, <3>2, CallbackType, SendSmallType, EntryTypes DEF Unlink
      <4> QED BY <3>2, <4>1 DEF TypeOK
    <3> QED BY <1>4, <3>1, <3>2 DEF Unlink
  <2> QED BY <1>4, <2>1, CallbackType DEF Unlink, TypeOK
<1>5. CASE Rmdir(c, p)
  <2>1. sending' \subseteq Send /\ tainted' \subseteq Paths
    BY <1>5, CallbackType, SendSmallType, EntryTypes DEF Rmdir
  <2> QED BY <1>5, <2>1, CallbackType DEF Rmdir, TypeOK
<1>6. CASE Write(c, p)
  <2>1. open[c][p] \in Ops /\ ops' \in Versions
    BY <1>6, <1>0, CallbackType, VersionTypes DEF Write
  <2> QED BY <1>6, <2>1, CallbackType, WrittenType DEF Write, TypeOK
<1>7. CASE Truncate(c, p)
  <2>1. open[c][p] \in Ops /\ ops' \in Versions
    BY <1>7, <1>0, CallbackType, VersionTypes DEF Truncate
  <2>2. files' \in [Ops -> FileData]
    BY <1>7, <2>1, VersionTypes, WrittenType DEF Truncate
  <2> QED BY <1>7, <2>2, CallbackType DEF Truncate, TypeOK
<1>8. CASE Release(c, p)
  <2>1. open[c][p] \in Ops
    BY <1>8, <1>0 DEF Release
  <2>2. (IF db[c][p] = None THEN None ELSE db[c][p].ver)
            \in Versions \cup {None}
    BY <1>0, EntryTypes
  <2>s. files[open[c][p]].ver \in Versions
    BY <2>1 DEF TypeOK, FileData
  <2>3. jobs'[ops'] \in Job /\ jobs' = [jobs EXCEPT ![ops'] = jobs'[ops']]
    BY <1>8, <2>1, <2>2, <2>s, CallbackType, VersionTypes
    DEF Release, Job, TypeOK
  <2>4. jobs' \in [Ops -> Job \cup {None}]
    BY <1>8, <2>3, CallbackType DEF Release, TypeOK
  <2>5. tainted' \subseteq Paths
    BY <1>8 DEF Release, Begin, TypeOK
  <2> QED BY <1>8, <2>4, <2>5, CallbackType DEF Release, TypeOK
<1>m. ASSUME NEW q \in Paths
      PROVE  MoveOpen(c, p, q) \in [Clients -> [Paths -> Ops \cup {None}]]
  BY <1>0 DEF MoveOpen, TypeOK
<1>9. ASSUME NEW q \in Paths, RenameInMemory(c, p, q) PROVE TypeOK'
  BY <1>9, <1>m, CallbackType DEF RenameInMemory, TypeOK
<1>10. ASSUME NEW q \in Paths, Rename(c, p, q) PROVE TypeOK'
  <2>1. open' \in [Clients -> [Paths -> Ops \cup {None}]]
    BY <1>10, <1>m DEF Rename, TypeOK
  <2>2. db[c][p] \in Entry
    BY <1>10, <1>0 DEF Rename
  <2>3. RenameMessages(p, q, db[c][p]) \in Seq(Batch) \ {<<>>}
    <3>1. WriteTx(q, db[c][p]) \in Tx /\ DeleteTx(p) \in Tx
      BY <2>2, EntryTypes
    <3>2. /\ <<WriteTx(q, db[c][p])>> \in Batch /\ <<DeleteTx(p)>> \in Batch
          /\ <<WriteTx(q, db[c][p]), DeleteTx(p)>> \in Batch
      BY <3>1, NonEmptySeqs DEF Batch
    <3> QED BY <3>2, NonEmptySeqs DEF RenameMessages
  <2>4. CASE UNCHANGED <<sending, renaming, tainted>>
    BY <1>10, <2>1, <2>4, CallbackType DEF Rename, TypeOK
  <2>5. CASE /\ Begin({p, q}) /\ Spawn(c, RenameMessages(p, q, db[c][p]))
             /\ renaming' = renaming \cup
                    {[client |-> c, id |-> ops', old |-> p, new |-> q,
                      entry |-> db[c][p]]}
    <3>1. sending' \subseteq Send
      BY <1>10, <2>3, <2>5, CallbackType DEF Rename, Spawn, Send, TypeOK
    <3>2. renaming' \subseteq Renaming
      BY <1>10, <2>2, <2>5, CallbackType DEF Rename, Renaming, TypeOK
    <3>3. tainted' \subseteq Paths
      BY <2>5 DEF Begin, TypeOK
    <3> QED BY <1>10, <2>1, <3>1, <3>2, <3>3, CallbackType DEF Rename, TypeOK
  <2> QED BY <1>10, <2>4, <2>5 DEF Rename
<1> QED BY <1>1, <1>2, <1>3, <1>4, <1>5, <1>6, <1>7, <1>8, <1>9, <1>10

LEMMA FaultType ==
    ASSUME TypeOK, Fault
    PROVE  faults' \in 0..MaxFaults /\ faults' \in 1..MaxFaults
BY DsfsConstants DEF Fault, TypeOK

(* What an upload goroutine is, when there is one.                         *)
LEMMA JobTypes ==
    ASSUME TypeOK, NEW j \in Ops, NEW pc, At(j, pc)
    PROVE  /\ jobs[j] \in Job
           /\ jobs[j].file \in Ops /\ jobs[j].client \in Clients
           /\ jobs[j].path \in Paths /\ jobs[j].ver \in Versions
BY DEF TypeOK, At, Job

LEMMA GotoType ==
    ASSUME TypeOK, NEW j \in Ops, NEW v \in Versions, jobs[j] \in Job,
           NEW pc \in {"check", "mark", "read", "data", "tx", "insert",
                       "dirty", "syncing"}
    PROVE  /\ [jobs EXCEPT ![j].pc = pc] \in [Ops -> Job \cup {None}]
           /\ [jobs EXCEPT ![j].ver = v, ![j].pc = pc]
                \in [Ops -> Job \cup {None}]
<1>1. [jobs[j] EXCEPT !.pc = pc] \in Job
  BY DEF Job
<1>2. [jobs[j] EXCEPT !.ver = v, !.pc = pc] \in Job
  BY DEF Job
<1> QED BY <1>1, <1>2 DEF TypeOK

(* An upload gathers the content of its file, or that of no content.       *)
LEMMA GatheredType ==
    ASSUME TypeOK, NEW j \in Ops, jobs[j] \in Job
    PROVE  Gathered(j) \subseteq Versions
<1>1. jobs[j].file \in Ops /\ files[jobs[j].file].ver \in Versions
  BY DEF TypeOK, Job, FileData
<1> QED BY <1>1, VersionTypes DEF Gathered

LEMMA GatheredJob ==
    ASSUME TypeOK, NEW j \in Ops, UploadRead(j)
    PROVE  \E v \in Versions, pc \in {"data", "tx"} :
                jobs' = [jobs EXCEPT ![j].ver = v, ![j].pc = pc]
<1>1. Gathered(j) \subseteq Versions
  BY JobTypes, GatheredType DEF UploadRead
<1>2. PICK v \in Gathered(j) :
        jobs' = [jobs EXCEPT ![j].ver = v,
                    ![j].pc = IF v = 0 THEN "tx" ELSE "data"]
  BY DEF UploadRead
<1>3. (IF v = 0 THEN "tx" ELSE "data") \in {"data", "tx"}
  OBVIOUS
<1> QED BY <1>1, <1>2, <1>3

(* What a torn upload changes: what it will post, and nothing else.        *)
LEMMA TearsChanges ==
    ASSUME TypeOK, NEW j \in Ops, UploadTears(j)
    PROVE  /\ UNCHANGED <<fsVars, files, sending, renaming, discordVars, ops,
                          faults, tainted>>
           /\ jobs'[j] \in Job /\ jobs[j] # None /\ jobs'[j] # None
           /\ jobs[j].pc = "data" /\ jobs'[j].pc = "data"
           /\ jobs'[j].ver = Torn(j) /\ jobs'[j].old = jobs[j].old
           /\ jobs'[j].client = jobs[j].client
           /\ jobs'[j].path = jobs[j].path /\ jobs'[j].file = jobs[j].file
           /\ \A i \in Ops \ {j} : jobs'[i] = jobs[i]
           /\ jobs' \in [Ops -> Job \cup {None}]
<1>1. /\ jobs[j] \in Job /\ jobs \in [Ops -> Job \cup {None}]
      /\ Torn(j) \in Versions /\ jobs[j] # None /\ jobs[j].pc = "data"
  BY VersionTypes DEF UploadTears, At, TypeOK
<1> HIDE DEF Torn
<1>2. jobs'[j] = [jobs[j] EXCEPT !.ver = Torn(j)]
  BY <1>1 DEF UploadTears
<1>3. [jobs[j] EXCEPT !.ver = Torn(j)] \in Job
  BY <1>1 DEF Job
<1>4. jobs'[j] \in Job /\ jobs'[j] # None
  BY <1>2, <1>3, DsfsConstants DEF Job
<1>5. jobs' \in [Ops -> Job \cup {None}]
  BY <1>1, <1>2, <1>3 DEF UploadTears
<1>6. /\ jobs'[j].pc = "data" /\ jobs'[j].ver = Torn(j)
      /\ jobs'[j].old = jobs[j].old /\ jobs'[j].client = jobs[j].client
      /\ jobs'[j].path = jobs[j].path /\ jobs'[j].file = jobs[j].file
  BY <1>1, <1>2 DEF Job
<1>7. \A i \in Ops \ {j} : jobs'[i] = jobs[i]
  BY <1>1 DEF UploadTears
<1> QED BY <1>1, <1>4, <1>5, <1>6, <1>7 DEF UploadTears

LEMMA UploadType == \A j \in Ops : TypeOK /\ Upload(j) => TypeOK'
<1> SUFFICES ASSUME NEW j \in Ops, TypeOK, Upload(j) PROVE TypeOK'
  OBVIOUS
<1> USE DEF fsVars, discordVars, Goto
<1>1. CASE UploadCheck(j)
  <2>1. jobs[j] \in Job /\ jobs[j].ver \in Versions
    BY <1>1, JobTypes DEF UploadCheck
  <2>2. [jobs EXCEPT ![j].pc = "mark"] \in [Ops -> Job \cup {None}]
    BY <2>1, GotoType
  <2>3. [jobs EXCEPT ![j] = None] \in [Ops -> Job \cup {None}]
    BY DEF TypeOK
  <2>4. jobs' \in [Ops -> Job \cup {None}]
    BY <1>1, <2>2, <2>3 DEF UploadCheck
  <2> QED BY <1>1, <2>4 DEF UploadCheck, TypeOK
<1>2. CASE UploadMark(j)
  <2>1. jobs' \in [Ops -> Job \cup {None}]
    BY <1>2, JobTypes, GotoType DEF UploadMark
  <2>2. files' \in [Ops -> FileData]
    BY <1>2, JobTypes DEF UploadMark, TypeOK, FileData
  <2> QED BY <1>2, <2>1, <2>2 DEF UploadMark, TypeOK
<1>3. CASE UploadRead(j)
  <2>1. jobs[j] \in Job
    BY <1>3, JobTypes DEF UploadRead
  <2>2. PICK v \in Versions, pc \in {"data", "tx"} :
            jobs' = [jobs EXCEPT ![j].ver = v, ![j].pc = pc]
    BY <1>3, GatheredJob
  <2>3. jobs' \in [Ops -> Job \cup {None}]
    BY <2>1, <2>2, GotoType
  <2> QED BY <1>3, <2>3 DEF UploadRead, TypeOK
<1>4. CASE UploadData(j)
  <2>0. /\ [jobs EXCEPT ![j].pc = "tx"] \in [Ops -> Job \cup {None}]
        /\ [jobs EXCEPT ![j].pc = "dirty"] \in [Ops -> Job \cup {None}]
    BY <1>4, JobTypes, GotoType DEF UploadData
  <2>1. jobs' \in [Ops -> Job \cup {None}]
    BY <1>4, <2>0 DEF UploadData, Abandoned
  <2>2. stored' \subseteq Versions /\ faults' \in 0..MaxFaults
    BY <1>4, JobTypes, FaultType DEF UploadData, TypeOK
  <2> QED BY <1>4, <2>1, <2>2 DEF UploadData, TypeOK
<1>5. CASE UploadTx(j)
  <2> DEFINE t == WriteTx(jobs[j].path, File(jobs[j].ver))
  <2>1. t.path \in Paths /\ <<t>> \in Batch
    <3>1. t \in Tx
      BY <1>5, JobTypes, EntryTypes DEF UploadTx
    <3> QED BY <3>1, EntryTypes, NonEmptySeqs DEF Batch
  <2>0. /\ [jobs EXCEPT ![j].pc = "insert"] \in [Ops -> Job \cup {None}]
        /\ [jobs EXCEPT ![j].pc = "dirty"] \in [Ops -> Job \cup {None}]
    BY <1>5, JobTypes, GotoType DEF UploadTx
  <2>2. jobs' \in [Ops -> Job \cup {None}]
    BY <1>5, <2>0 DEF UploadTx, Abandoned
  <2>3. UNCHANGED <<log, inbox>> \/ Post(jobs[j].client, <<t>>)
    BY <1>5 DEF UploadTx
  <2>4. log' \in Seq(Tx) /\ inbox' \in [Clients -> SUBSET Message]
    BY <1>5, <2>1, <2>3, PostType, JobTypes DEF UploadTx, TypeOK
  <2>5. faults' \in 0..MaxFaults /\ tainted' \subseteq Paths
    BY <1>5, <2>1, FaultType DEF UploadTx, TypeOK
  <2> QED BY <1>5, <2>2, <2>4, <2>5 DEF UploadTx, TypeOK
<1>6. CASE UploadInsert(j)
  <2>1. jobs' \in [Ops -> Job \cup {None}]
    BY <1>6, JobTypes, GotoType DEF UploadInsert
  <2>2. db' \in [Clients -> [Paths -> Entry \cup {None}]]
    BY <1>6, JobTypes, EntryTypes DEF UploadInsert, TypeOK
  <2> QED BY <1>6, <2>1, <2>2 DEF UploadInsert, TypeOK
<1>7. CASE UploadClean(j)
  <2>1. jobs' \in [Ops -> Job \cup {None}]
    BY <1>7, JobTypes, GotoType DEF UploadClean
  <2>2. files' \in [Ops -> FileData]
    BY <1>7, JobTypes DEF UploadClean, TypeOK, FileData
  <2> QED BY <1>7, <2>1, <2>2 DEF UploadClean, TypeOK
<1>8. CASE UploadDone(j)
  <2>1. files' \in [Ops -> FileData]
    BY <1>8, JobTypes DEF UploadDone, TypeOK, FileData
  <2> QED BY <1>8, <2>1 DEF UploadDone, TypeOK
<1> QED BY <1>1, <1>2, <1>3, <1>4, <1>5, <1>6, <1>7, <1>8 DEF Upload

LEMMA MessageTypes ==
    ASSUME TypeOK, NEW c \in Clients, NEW m \in inbox[c]
    PROVE  /\ m \in Message /\ Head(m.txs) \in Tx
           /\ Unread(m) \subseteq Message
           /\ PathsOf(m.txs) \subseteq Paths
<1>1. m \in Message /\ m.txs \in Batch
  BY DEF TypeOK, Message
<1>2. /\ Head(m.txs) \in Tx
      /\ Len(m.txs) # 1 => Tail(m.txs) \in Batch
      /\ \A k \in DOMAIN m.txs : m.txs[k] \in Tx
  BY <1>1, NonEmptySeqs DEF Batch
<1>3. Unread(m) \subseteq Message
  BY <1>1, <1>2 DEF Unread, Message
<1>4. PathsOf(m.txs) \subseteq Paths
  BY <1>2, EntryTypes DEF PathsOf
<1> QED BY <1>1, <1>2, <1>3, <1>4

LEMMA HandleType ==
    \A c \in Clients : \A m \in inbox[c] : TypeOK /\ Handle(c, m) => TypeOK'
<1> SUFFICES ASSUME NEW c \in Clients, NEW m \in inbox[c], TypeOK, Handle(c, m)
             PROVE  TypeOK'
  OBVIOUS
<1> USE DEF fsVars, goVars
<1>0. Consume(c, m) => inbox' \in [Clients -> SUBSET Message]
  BY MessageTypes DEF Consume, TypeOK
<1>1. CASE ApplyLiveTx(c, m)
  <2> DEFINE t == Head(m.txs)
  <2>1. t.path \in Paths /\ t.entry \in Entry /\ t.entry.ver \in Versions
    BY <1>1, MessageTypes, EntryTypes DEF ApplyLiveTx
  <2>2. files' \in [Ops -> FileData] /\ faults' \in 0..MaxFaults
    <3>1. CASE UNCHANGED <<files, faults>>
      BY <3>1 DEF TypeOK
    <3>2. CASE open[c][t.path] # None
      <4>1. open[c][t.path] \in Ops
        BY <2>1, <3>2 DEF TypeOK
      <4>2. \A v \in Versions :
                [files EXCEPT ![open[c][t.path]].ver = v] \in [Ops -> FileData]
        BY <4>1 DEF TypeOK, FileData
      <4>3. CASE /\ files' = [files EXCEPT ![open[c][t.path]].ver = t.entry.ver]
                 /\ UNCHANGED faults
        BY <2>1, <4>2, <4>3 DEF TypeOK
      <4>4. CASE /\ Fault
                 /\ files' = [files EXCEPT ![open[c][t.path]].ver =
                                    MaxOps + faults']
        BY <4>2, <4>4, FaultType, VersionTypes
      <4> QED BY <1>1, <3>2, <4>3, <4>4 DEF ApplyLiveTx
    <3> QED BY <1>1, <3>1, <3>2 DEF ApplyLiveTx
  <2>3. db' \in [Clients -> [Paths -> Entry \cup {None}]]
    BY <1>1, <2>1 DEF ApplyLiveTx, TypeOK
  <2> QED BY <1>0, <1>1, <2>2, <2>3 DEF ApplyLiveTx, TypeOK
<1>2. CASE ApplyDelete(c, m)
  <2>1. Head(m.txs).path \in Paths
    BY MessageTypes, EntryTypes
  <2> QED BY <1>0, <1>2, <2>1 DEF ApplyDelete, TypeOK
<1>3. CASE SkipBatch(c, m)
  BY <1>3, MessageTypes, FaultType DEF SkipBatch, TypeOK
<1> QED BY <1>1, <1>2, <1>3 DEF Handle

LEMMA SendTypes ==
    ASSUME TypeOK, NEW s \in sending
    PROVE  /\ s.client \in Clients /\ Head(s.msgs) \in Batch
           /\ Unsent(s) \subseteq Send
           /\ PathsOf(Head(s.msgs)) \subseteq Paths
<1>1. s \in Send /\ s.client \in Clients /\ s.msgs \in Seq(Batch) \ {<<>>}
  BY DEF TypeOK, Send
<1>2. Head(s.msgs) \in Batch
        /\ (Len(s.msgs) # 1 => Tail(s.msgs) \in Seq(Batch) \ {<<>>})
  BY <1>1, NonEmptySeqs
<1>3. Unsent(s) \subseteq Send
  BY <1>1, <1>2 DEF Unsent, Send
<1>4. PathsOf(Head(s.msgs)) \subseteq Paths
  BY <1>2, NonEmptySeqs, EntryTypes DEF PathsOf, Batch
<1> QED BY <1>1, <1>2, <1>3, <1>4

LEMMA NextType == TypeOK /\ [Next]_vars => TypeOK'
<1> SUFFICES ASSUME TypeOK, [Next]_vars PROVE TypeOK'
  OBVIOUS
<1> USE DEF fsVars, goVars, discordVars
<1>1. CASE Callbacks
  BY <1>1, CallbacksType
<1>2. ASSUME NEW s \in sending, SendTx(s) PROVE TypeOK'
  <2>1. log' \in Seq(Tx) /\ inbox' \in [Clients -> SUBSET Message]
    BY <1>2, SendTypes, PostType DEF SendTx, TypeOK
  <2>2. sending' \subseteq Send
    BY <1>2, SendTypes DEF SendTx, TypeOK
  <2>3. faults' \in 0..MaxFaults /\ tainted' \subseteq Paths
    BY <1>2, SendTypes, FaultType DEF SendTx, TypeOK
  <2> QED BY <1>2, <2>1, <2>2, <2>3 DEF SendTx, TypeOK
<1>3. ASSUME NEW r \in renaming, RenameCommit(r) PROVE TypeOK'
  <2>1. /\ r.client \in Clients /\ r.old \in Paths /\ r.new \in Paths
        /\ r.entry \in Entry
    BY DEF TypeOK, Renaming
  <2>2. Committed(r) \in [Clients -> [Paths -> Entry \cup {None}]]
    BY <2>1 DEF Committed, TypeOK
  <2> QED BY <1>3, <2>2 DEF RenameCommit, TypeOK
<1>4. ASSUME NEW j \in Ops, Upload(j) PROVE TypeOK'
  BY <1>4, UploadType
<1>5. ASSUME NEW c \in Clients, NEW m \in inbox[c], Handle(c, m) PROVE TypeOK'
  BY <1>5, HandleType
<1>6. ASSUME NEW c \in Clients, Restart(c) PROVE TypeOK'
  <2>1. \A p \in Paths : Replayed(p) \in Entry \cup {None}
    <3>1. \A k \in DOMAIN log : log[k].entry \in Entry \cup {None}
      BY EntryTypes, LenProperties, ElementOfSeq DEF TypeOK
    <3> QED BY <3>1, ReplayedFromLog DEF TypeOK
  <2>2. /\ db' \in [Clients -> [Paths -> Entry \cup {None}]]
        /\ open' \in [Clients -> [Paths -> Ops \cup {None}]]
        /\ jobs' \in [Ops -> Job \cup {None}]
        /\ inbox' \in [Clients -> SUBSET Message]
    BY <1>6, <2>1 DEF Restart, TypeOK
  <2>3. faults' \in 0..MaxFaults
    BY <1>6, FaultType DEF Restart
  <2> QED BY <1>6, <2>2, <2>3 DEF Restart, TypeOK
<1>7. CASE UNCHANGED vars
  BY <1>7 DEF vars, TypeOK
<1>8. ASSUME NEW j \in Ops, UploadTears(j) PROVE TypeOK'
  BY <1>8, TearsChanges DEF TypeOK
<1> QED BY <1>1, <1>2, <1>3, <1>4, <1>5, <1>6, <1>7, <1>8
        DEF Next, Background

(* The types hold in every state of every instance.                        *)
THEOREM DsfsTypeOK == Spec => []TypeOK
<1> QED BY InitType, NextType, PTL DEF Spec

-----------------------------------------------------------------------------
(* Data before metadata.  What is about to become visible must be covered  *)
(* too: the entry a Rename carries over its gap, the messages other        *)
(* clients have yet to apply, the transaction an upload reuses blocks of,  *)
(* and the version of an upload that is past its data.                     *)

Covered(j) ==
    jobs[j] # None =>
        /\ jobs[j].old \in {None, 0} \cup stored
        /\ jobs[j].pc \in {"tx", "insert"} => jobs[j].ver \in {0} \cup stored

DurableInv ==
    /\ DurableContent
    /\ \A r \in renaming : Durable(r.entry, stored)
    /\ \A c \in Clients : \A m \in inbox[c] : DurableBatch(m.txs, stored)
    /\ \A j \in Ops : Covered(j)

LEMMA DurableSeqs ==
    /\ \A t, S : Durable(t.entry, S) => DurableBatch(<<t>>, S)
    /\ \A t, u, S : Durable(t.entry, S) /\ Durable(u.entry, S)
                        => DurableBatch(<<t, u>>, S)
    /\ \A b \in Batch : \A S : DurableBatch(b, S) =>
            Durable(Head(b).entry, S) /\ DurableBatch(Tail(b), S)
    /\ \A a, b \in Seq(Tx) : \A S : DurableBatch(a, S) /\ DurableBatch(b, S)
                        => DurableBatch(a \o b, S)
<1> USE DEF DurableBatch
<1>1. \A t, S : Durable(t.entry, S) => DurableBatch(<<t>>, S)
  OBVIOUS
<1>2. \A t, u, S : Durable(t.entry, S) /\ Durable(u.entry, S)
                        => DurableBatch(<<t, u>>, S)
  OBVIOUS
<1>3. ASSUME NEW b \in Batch, NEW S, DurableBatch(b, S)
      PROVE  Durable(Head(b).entry, S) /\ DurableBatch(Tail(b), S)
  <2>1. b \in Seq(Tx) /\ b # <<>> /\ Len(b) \in Nat /\ DOMAIN b = 1..Len(b)
    BY LenProperties DEF Batch
  <2>2. /\ Tail(b) \in Seq(Tx) /\ Len(Tail(b)) = Len(b) - 1
        /\ \A k \in 1..Len(Tail(b)) : Tail(b)[k] = b[k + 1]
        /\ DOMAIN Tail(b) = 1..Len(Tail(b))
    BY <2>1, HeadTailProperties, LenProperties
  <2>3. Head(b) = b[1] /\ 1 \in DOMAIN b
    BY <2>1
  <2> QED BY <1>3, <2>1, <2>2, <2>3
<1>4. ASSUME NEW a \in Seq(Tx), NEW b \in Seq(Tx), NEW S,
             DurableBatch(a, S), DurableBatch(b, S)
      PROVE  DurableBatch(a \o b, S)
  <2>1. /\ DOMAIN a = 1..Len(a) /\ DOMAIN b = 1..Len(b)
        /\ Len(a) \in Nat /\ Len(b) \in Nat
        /\ DOMAIN (a \o b) = 1..(Len(a) + Len(b))
        /\ \A k \in 1..(Len(a) + Len(b)) : (a \o b)[k] =
                IF k <= Len(a) THEN a[k] ELSE b[k - Len(a)]
    BY LenProperties, ConcatProperties
  <2> QED BY <1>4, <2>1
<1> QED BY <1>1, <1>2, <1>3, <1>4

(* Replay gives a client only what the log holds.                          *)
LEMMA ReplayedDurable ==
    ASSUME log \in Seq(Tx), DurableBatch(log, stored), NEW p
    PROVE  Durable(Replayed(p), stored)
BY ReplayedFromLog DEF DurableBatch, Durable

LEMMA InitDurable == Init => DurableInv
<1> SUFFICES ASSUME Init PROVE DurableInv
  OBVIOUS
<1>1. log \in Seq(Tx) /\ log = History
  BY DsfsConstants DEF Init
<1>2. DurableBatch(log, stored)
  BY DEF Init, DurableBatch, Durable
<1>3. \A c \in Clients : \A p \in Paths : Durable(db[c][p], stored)
  <2>1. \A c \in Clients : \A p \in Paths : db[c][p] = Replayed(p)
    BY DEF Init
  <2> QED BY <1>1, <1>2, <2>1, ReplayedDurable
<1>4. \A j \in Ops : Covered(j)
  BY DEF Init, Covered
<1> QED BY <1>2, <1>3, <1>4 DEF Init, DurableInv, DurableContent

SendsDurable == \A s \in sending : \A k \in DOMAIN s.msgs :
                    DurableBatch(s.msgs[k], stored)

LEMMA SpawnDurable ==
    ASSUME SendsDurable, stored' = stored, NEW c, NEW ms, Spawn(c, ms),
           \A k \in DOMAIN ms : DurableBatch(ms[k], stored)
    PROVE  SendsDurable'
BY DEF Spawn, SendsDurable

LEMMA SendSmallDurable ==
    ASSUME SendsDurable, stored' = stored, NEW c, NEW t, SendSmall(c, t),
           Durable(t.entry, stored)
    PROVE  SendsDurable'
<1>1. DurableBatch(<<t>>, stored)
  BY DurableSeqs
<1>2. CASE UNCHANGED sending
  BY <1>2 DEF SendsDurable
<1>3. CASE Spawn(c, <<<<t>>>>)
  <2> DEFINE ms == <<<<t>>>>
  <2>1. \A k \in DOMAIN ms : ms[k] = <<t>>
    OBVIOUS
  <2> HIDE DEF ms
  <2>2. \A k \in DOMAIN ms : DurableBatch(ms[k], stored)
    BY <1>1, <2>1
  <2>3. Spawn(c, ms)
    BY <1>3 DEF ms
  <2> QED BY <2>2, <2>3, SpawnDurable
<1> QED BY <1>2, <1>3 DEF SendSmall

LEMMA PostDurable ==
    ASSUME TypeOK, DurableInv, stored' = stored, NEW c \in Clients,
           NEW b \in Batch, Post(c, b), DurableBatch(b, stored)
    PROVE  /\ DurableBatch(log, stored)'
           /\ \A d \in Clients : \A m \in inbox'[d] :
                DurableBatch(m.txs, stored')
<1>1. DurableBatch(log \o b, stored)
  BY DurableSeqs DEF TypeOK, Batch, DurableInv, DurableContent
<1>2. log' = log \o b
  BY DEF Post
<1>3. ASSUME NEW d \in Clients, NEW m \in inbox'[d]
      PROVE  DurableBatch(m.txs, stored)
  <2>1. m \in inbox[d] \/ m = [id |-> Len(log), txs |-> b, new |-> TRUE]
    BY <1>3 DEF Post
  <2> QED BY <2>1 DEF DurableInv
<1> QED BY <1>1, <1>2, <1>3

LEMMA CallbacksDurable == TypeOK /\ DurableInv /\ Callbacks => DurableInv'
<1> SUFFICES ASSUME TypeOK, DurableInv, NEW c \in Clients, NEW p \in Paths,
                    \/ Mknod(c, p) \/ Mkdir(c, p) \/ Open(c, p) \/ Unlink(c, p)
                    \/ Rmdir(c, p) \/ Write(c, p) \/ Truncate(c, p)
                    \/ Release(c, p)
                    \/ \E q \in Paths : RenameInMemory(c, p, q) \/ Rename(c, p, q)
             PROVE  DurableInv'
  BY DEF Callbacks
<1> USE DEF fsVars, goVars, discordVars
<1>0. /\ Durable(None, stored) /\ Durable(Folder, stored)
      /\ SendsDurable
      /\ db \in [Clients -> [Paths -> Entry \cup {None}]]
      /\ Durable(db[c][p], stored)
  BY DEF Durable, Folder, DurableInv, DurableContent, SendsDurable, TypeOK
<1>1. CASE UNCHANGED <<db, sending, renaming, jobs, discordVars>>
  BY <1>1 DEF DurableInv, DurableContent, Covered
<1>2. ASSUME NEW e, Durable(e, stored), db' = [db EXCEPT ![c][p] = e],
             SendSmall(c, WriteTx(p, e)),
             UNCHANGED <<jobs, renaming, discordVars>>
      PROVE  DurableInv'
  <2>1. \A d \in Clients : \A q \in Paths : Durable(db'[d][q], stored)
    BY <1>0, <1>2 DEF DurableInv, DurableContent
  <2>2. SendsDurable'
    BY <1>0, <1>2, SendSmallDurable DEF WriteTx
  <2> QED BY <1>2, <2>1, <2>2
          DEF DurableInv, DurableContent, SendsDurable, Covered
<1>3. CASE Mknod(c, p) \/ Open(c, p) \/ Write(c, p) \/ Truncate(c, p)
  BY <1>1, <1>3 DEF Mknod, Open, Write, Truncate
<1>4. CASE Mkdir(c, p)
  BY <1>0, <1>2, <1>4 DEF Mkdir
<1>5. CASE Unlink(c, p) \/ Rmdir(c, p)
  <2>1. WriteTx(p, None) = DeleteTx(p)
    BY DEF WriteTx, DeleteTx
  <2> QED BY <1>0, <1>1, <1>2, <1>5, <2>1 DEF Unlink, Rmdir
<1>6. CASE Release(c, p)
  <2>1. ops' \in Ops
    BY <1>6, CallbackType DEF Release
  <2>2. /\ jobs'[ops'].old = IF db[c][p] = None THEN None ELSE db[c][p].ver
        /\ jobs'[ops'].pc = "check"
        /\ \A j \in Ops \ {ops'} : jobs'[j] = jobs[j]
    BY <1>6, <2>1 DEF Release, TypeOK
  <2>3. jobs'[ops'].old \in {None, 0} \cup stored
    BY <1>0, <2>2 DEF Durable
  <2>4. \A j \in Ops : Covered(j)'
    BY <1>6, <2>2, <2>3 DEF Release, Covered, DurableInv
  <2> QED BY <1>6, <2>4 DEF Release, DurableInv, DurableContent
<1>7. ASSUME NEW q \in Paths, RenameInMemory(c, p, q) PROVE DurableInv'
  BY <1>1, <1>7 DEF RenameInMemory
<1>8. ASSUME NEW q \in Paths, Rename(c, p, q) PROVE DurableInv'
  <2> DEFINE ms == RenameMessages(p, q, db[c][p])
  <2>1. \A k \in DOMAIN ms : DurableBatch(ms[k], stored)
    <3>1. /\ Durable(WriteTx(q, db[c][p]).entry, stored)
          /\ Durable(DeleteTx(p).entry, stored)
      BY <1>0 DEF WriteTx, DeleteTx
    <3>2. /\ DurableBatch(<<WriteTx(q, db[c][p])>>, stored)
          /\ DurableBatch(<<DeleteTx(p)>>, stored)
          /\ DurableBatch(<<WriteTx(q, db[c][p]), DeleteTx(p)>>, stored)
      BY <3>1, DurableSeqs
    <3> QED BY <3>2 DEF RenameMessages
  <2> HIDE DEF ms
  <2>2. CASE UNCHANGED <<sending, renaming, tainted>>
    BY <1>1, <1>8, <2>2 DEF Rename
  <2>3. CASE /\ Spawn(c, ms)
             /\ renaming' = renaming \cup
                    {[client |-> c, id |-> ops', old |-> p, new |-> q,
                      entry |-> db[c][p]]}
    <3>1. UNCHANGED <<db, jobs, discordVars>>
      BY <1>8 DEF Rename
    <3>2. SendsDurable'
      BY <1>0, <2>1, <2>3, <3>1, SpawnDurable
    <3>3. \A r \in renaming' : Durable(r.entry, stored)
      BY <1>0, <2>3 DEF DurableInv
    <3> QED BY <3>1, <3>2, <3>3
            DEF DurableInv, DurableContent, SendsDurable, Covered
  <2> QED BY <1>8, <2>2, <2>3 DEF Rename, ms
<1> QED BY <1>3, <1>4, <1>5, <1>6, <1>7, <1>8

LEMMA UploadDurable ==
    \A j \in Ops : TypeOK /\ DurableInv /\ Upload(j) => DurableInv'
<1> SUFFICES ASSUME NEW j \in Ops, TypeOK, DurableInv, Upload(j)
             PROVE  DurableInv'
  OBVIOUS
<1> USE DEF fsVars, discordVars, Goto
<1>0. /\ jobs \in [Ops -> Job \cup {None}] /\ jobs[j] \in Job
      /\ jobs[j].old \in {None, 0} \cup stored
  BY DEF TypeOK, Upload, UploadCheck, UploadMark, UploadRead, UploadData,
         UploadTx, UploadInsert, UploadClean, UploadDone, At, DurableInv,
         Covered
<1>j. ASSUME stored' = stored,
             \A i \in Ops \ {j} : jobs'[i] = jobs[i],
             jobs'[j] # None =>
                /\ jobs'[j].old = jobs[j].old
                /\ jobs'[j].pc \in {"tx", "insert"} =>
                        jobs'[j].ver \in {0} \cup stored
      PROVE  \A i \in Ops : Covered(i)'
  BY <1>0, <1>j DEF Covered, DurableInv
<1>1. CASE UploadCheck(j) \/ UploadMark(j) \/ UploadClean(j) \/ UploadDone(j)
  <2>1. /\ UNCHANGED <<db, sending, renaming, discordVars>>
        /\ \A i \in Ops \ {j} : jobs'[i] = jobs[i]
        /\ jobs'[j] # None => /\ jobs'[j].old = jobs[j].old
                              /\ jobs'[j].pc \notin {"tx", "insert"}
    BY <1>0, <1>1 DEF UploadCheck, UploadMark, UploadClean, UploadDone, Job
  <2>2. \A i \in Ops : Covered(i)'
    BY <1>j, <2>1
  <2> QED BY <2>1, <2>2 DEF DurableInv, DurableContent
<1>2. CASE UploadRead(j)
  <2>1. /\ UNCHANGED <<db, sending, renaming, discordVars>>
        /\ \A i \in Ops \ {j} : jobs'[i] = jobs[i]
        /\ jobs'[j].old = jobs[j].old
        /\ jobs'[j].pc = IF jobs'[j].ver = 0 THEN "tx" ELSE "data"
    BY <1>0, <1>2 DEF UploadRead, Job
  <2>4. \A i \in Ops : Covered(i)'
    BY <1>j, <2>1
  <2> QED BY <2>1, <2>4 DEF DurableInv, DurableContent
<1>3. CASE UploadData(j)
  <2>1. /\ UNCHANGED <<db, sending, renaming, log, inbox>>
        /\ stored \subseteq stored'
        /\ \A i \in Ops \ {j} : jobs'[i] = jobs[i]
        /\ jobs'[j].old = jobs[j].old /\ jobs'[j].ver = jobs[j].ver
    BY <1>0, <1>3 DEF UploadData, Abandoned, Job
  <2>e. jobs[j].ver \in Versions /\ None \notin Versions
    BY <1>0, DsfsConstants DEF Job
  <2>u. jobs'[j].pc \in {"tx", "insert"} =>
            jobs[j].ver \in {0} \cup stored'
    <3>1. CASE NeedsData(jobs[j].ver, jobs[j].old)
      BY <1>0, <1>3, <3>1 DEF UploadData, Abandoned, Job
    <3>2. CASE ~NeedsData(jobs[j].ver, jobs[j].old)
      BY <1>0, <2>1, <2>e, <3>2 DEF NeedsData
    <3> QED BY <3>1, <3>2
  <2>2. \A i \in Ops : Covered(i)'
    BY <1>0, <2>1, <2>u DEF Covered, DurableInv
  <2>3. \A e : Durable(e, stored) => Durable(e, stored')
    BY <2>1 DEF Durable
  <2>4. \A b : DurableBatch(b, stored) => DurableBatch(b, stored')
    BY <2>3 DEF DurableBatch
  <2> QED BY <2>1, <2>2, <2>3, <2>4 DEF DurableInv, DurableContent
<1>4. CASE UploadTx(j)
  <2> DEFINE t == WriteTx(jobs[j].path, File(jobs[j].ver))
  <2>1. /\ UNCHANGED <<db, sending, renaming, stored>>
        /\ \A i \in Ops \ {j} : jobs'[i] = jobs[i]
        /\ jobs'[j].old = jobs[j].old /\ jobs'[j].ver = jobs[j].ver
    BY <1>0, <1>4 DEF UploadTx, Abandoned, Job
  <2>2. jobs[j].ver \in {0} \cup stored
    BY <1>4 DEF UploadTx, At, DurableInv, Covered
  <2>3. \A i \in Ops : Covered(i)'
    BY <1>j, <2>1, <2>2
  <2>4. <<t>> \in Batch /\ DurableBatch(<<t>>, stored)
    <3>1. t \in Tx /\ Durable(t.entry, stored)
      BY <1>0, <2>2, EntryTypes DEF WriteTx, File, Durable, Job
    <3> QED BY <3>1, NonEmptySeqs, DurableSeqs DEF Batch
  <2>5. UNCHANGED <<log, inbox>> \/ Post(jobs[j].client, <<t>>)
    BY <1>4 DEF UploadTx
  <2>6. jobs[j].client \in Clients
    BY <1>0 DEF Job
  <2> HIDE DEF t
  <2>7. /\ DurableBatch(log, stored)'
        /\ \A d \in Clients : \A m \in inbox'[d] :
                DurableBatch(m.txs, stored')
    <3>1. CASE UNCHANGED <<log, inbox>>
      BY <2>1, <3>1 DEF DurableInv, DurableContent
    <3>2. CASE Post(jobs[j].client, <<t>>)
      BY <2>1, <2>4, <2>6, <3>2, PostDurable
    <3> QED BY <2>5, <3>1, <3>2
  <2> QED BY <2>1, <2>3, <2>7 DEF DurableInv, DurableContent
<1>5. CASE UploadInsert(j)
  <2>1. /\ UNCHANGED <<sending, renaming, discordVars>>
        /\ \A i \in Ops \ {j} : jobs'[i] = jobs[i]
        /\ jobs'[j].old = jobs[j].old
        /\ jobs'[j].pc = "dirty"
    BY <1>0, <1>5 DEF UploadInsert, Job
  <2>2. \A i \in Ops : Covered(i)'
    BY <1>j, <2>1
  <2>3. Durable(File(jobs[j].ver), stored)
    BY <1>5 DEF UploadInsert, At, DurableInv, Covered, File, Durable
  <2>4. \A d \in Clients : \A q \in Paths : Durable(db'[d][q], stored)
    BY <1>0, <1>5, <2>3
       DEF UploadInsert, DurableInv, DurableContent, TypeOK, Job
  <2> QED BY <2>1, <2>2, <2>4 DEF DurableInv, DurableContent
<1> QED BY <1>1, <1>2, <1>3, <1>4, <1>5 DEF Upload

LEMMA HandleDurable ==
    \A c \in Clients : \A m \in inbox[c] :
        TypeOK /\ DurableInv /\ Handle(c, m) => DurableInv'
<1> SUFFICES ASSUME NEW c \in Clients, NEW m \in inbox[c], TypeOK, DurableInv,
                    Handle(c, m)
             PROVE  DurableInv'
  OBVIOUS
<1> USE DEF fsVars, goVars
<1>1. m.txs \in Batch /\ Head(m.txs).path \in Paths
  BY MessageTypes, EntryTypes DEF Message
<1>2. Durable(Head(m.txs).entry, stored) /\ DurableBatch(Tail(m.txs), stored)
  BY <1>1, DurableSeqs DEF DurableInv
<1>3. UNCHANGED <<sending, renaming, jobs, log, stored>>
  BY DEF Handle, ApplyLiveTx, ApplyDelete, SkipBatch
<1>4. \A d \in Clients : \A n \in inbox'[d] : DurableBatch(n.txs, stored)
  <2>1. \A n \in Unread(m) : n.txs = Tail(m.txs)
    BY MessageTypes DEF Unread, Message
  <2>2. \A d \in Clients : inbox'[d] \subseteq inbox[d] \cup Unread(m)
    <3>1. \/ inbox' = [inbox EXCEPT ![c] = (inbox[c] \ {m}) \cup Unread(m)]
          \/ inbox' = [inbox EXCEPT ![c] = inbox[c] \ {m}]
      BY DEF Handle, ApplyLiveTx, ApplyDelete, SkipBatch, Consume
    <3> QED BY <3>1 DEF TypeOK
  <2> QED BY <1>2, <2>1, <2>2 DEF DurableInv
<1>5. \A d \in Clients : \A q \in Paths : Durable(db'[d][q], stored)
  <2>1. db' = db \/ db' = [db EXCEPT ![c][Head(m.txs).path] = Head(m.txs).entry]
    BY DEF Handle, ApplyLiveTx, ApplyDelete, SkipBatch
  <2> QED BY <1>1, <1>2, <2>1 DEF DurableInv, DurableContent, TypeOK
<1> QED BY <1>3, <1>4, <1>5 DEF DurableInv, DurableContent, Covered

LEMMA NextDurable == TypeOK /\ DurableInv /\ [Next]_vars => DurableInv'
<1> SUFFICES ASSUME TypeOK, DurableInv, [Next]_vars PROVE DurableInv'
  OBVIOUS
<1> USE DEF fsVars, goVars, discordVars
<1>1. CASE Callbacks
  BY <1>1, CallbacksDurable
<1>2. ASSUME NEW s \in sending, SendTx(s) PROVE DurableInv'
  <2>1. s.msgs \in Seq(Batch) \ {<<>>} /\ s \in Send
    BY DEF TypeOK, Send
  <2>2. /\ DOMAIN s.msgs = 1..Len(s.msgs) /\ Len(s.msgs) \in Nat \ {0}
        /\ Head(s.msgs) = s.msgs[1]
        /\ DOMAIN Tail(s.msgs) = 1..(Len(s.msgs) - 1)
        /\ \A k \in 1..(Len(s.msgs) - 1) : Tail(s.msgs)[k] = s.msgs[k + 1]
    BY <2>1, NonEmptySeqs, HeadTailProperties, LenProperties
  <2>3. \A k \in 1..Len(s.msgs) : DurableBatch(s.msgs[k], stored)
    BY <2>2 DEF DurableInv, DurableContent
  <2>4. /\ DurableBatch(Head(s.msgs), stored)
        /\ \A k \in DOMAIN Tail(s.msgs) : DurableBatch(Tail(s.msgs)[k], stored)
    BY <2>2, <2>3
  <2>5. UNCHANGED <<db, renaming, jobs, stored>>
    BY <1>2 DEF SendTx
  <2>6. \A u \in sending' : \A k \in DOMAIN u.msgs :
            DurableBatch(u.msgs[k], stored)
    <3>1. \A u \in Unsent(s) : u.msgs = Tail(s.msgs)
      BY <2>1 DEF Unsent, Send
    <3> QED BY <1>2, <2>4, <3>1 DEF SendTx, DurableInv, DurableContent
  <2>7. /\ DurableBatch(log, stored)'
        /\ \A d \in Clients : \A m \in inbox'[d] :
                DurableBatch(m.txs, stored')
    <3>1. CASE UNCHANGED <<log, inbox>>
      BY <2>5, <3>1 DEF DurableInv, DurableContent
    <3>2. CASE Post(s.client, Head(s.msgs))
      BY <2>4, <2>5, <3>2, SendTypes, PostDurable
    <3> QED BY <1>2, <3>1, <3>2 DEF SendTx
  <2> QED BY <2>5, <2>6, <2>7 DEF DurableInv, DurableContent, Covered
<1>3. ASSUME NEW r \in renaming, RenameCommit(r) PROVE DurableInv'
  <2>1. /\ UNCHANGED <<sending, jobs, discordVars>>
        /\ renaming' \subseteq renaming
        /\ db' = Committed(r)
    BY <1>3 DEF RenameCommit
  <2>2. Durable(r.entry, stored) /\ Durable(None, stored)
    BY DEF DurableInv, Durable
  <2>3. \A d \in Clients : \A q \in Paths : Durable(db'[d][q], stored)
    BY <2>1, <2>2
       DEF Committed, DurableInv, DurableContent, TypeOK, Renaming
  <2> QED BY <2>1, <2>3 DEF DurableInv, DurableContent, Covered
<1>4. ASSUME NEW j \in Ops, Upload(j) PROVE DurableInv'
  BY <1>4, UploadDurable
<1>5. ASSUME NEW c \in Clients, NEW m \in inbox[c], Handle(c, m)
      PROVE  DurableInv'
  BY <1>5, HandleDurable
<1>6. ASSUME NEW c \in Clients, Restart(c) PROVE DurableInv'
  <2>1. /\ UNCHANGED <<log, stored>>
        /\ sending' \subseteq sending /\ renaming' \subseteq renaming
        /\ \A d \in Clients : inbox'[d] \subseteq inbox[d]
        /\ \A j \in Ops : jobs'[j] = jobs[j] \/ jobs'[j] = None
    BY <1>6 DEF Restart, TypeOK
  <2>2. \A p \in Paths : Durable(Replayed(p), stored)
    BY ReplayedDurable DEF TypeOK, DurableInv, DurableContent
  <2>3. \A d \in Clients : \A q \in Paths : Durable(db'[d][q], stored)
    BY <1>6, <2>2 DEF Restart, DurableInv, DurableContent, TypeOK
  <2> QED BY <2>1, <2>3 DEF DurableInv, DurableContent, Covered
<1>7. CASE UNCHANGED vars
  BY <1>7 DEF vars, DurableInv, DurableContent, Covered
<1>8. ASSUME NEW j \in Ops, UploadTears(j) PROVE DurableInv'
  <2>1. \A i \in Ops : Covered(i)'
    BY <1>8, TearsChanges DEF DurableInv, Covered
  <2> QED BY <1>8, <2>1, TearsChanges DEF DurableInv, DurableContent
<1> QED BY <1>1, <1>2, <1>3, <1>4, <1>5, <1>6, <1>7, <1>8
        DEF Next, Background

(* A transaction is visible, anywhere, only when the blocks it names are   *)
(* in the data channel: no order of uploads, failures, renames, deliveries *)
(* and restarts makes a client refer to data that was never stored.        *)
THEOREM DsfsDurableContent == Spec => []DurableContent
<1>1. DurableInv => DurableContent
  BY DEF DurableInv
<1> QED BY <1>1, InitType, NextType, InitDurable, NextDurable, PTL DEF Spec

-----------------------------------------------------------------------------
(* One path per FileData.  Pointers are named by the operation that made   *)
(* them, so none in use is from the future.                                *)

OpenPast == \A c \in Clients : \A p \in Paths :
                open[c][p] # None => open[c][p] <= ops

LEMMA NextInjective ==
    TypeOK /\ OpenPast /\ OpenInjective /\ [Next]_vars
        => OpenPast' /\ OpenInjective'
<1> SUFFICES ASSUME TypeOK, OpenPast, OpenInjective, [Next]_vars
             PROVE  OpenPast' /\ OpenInjective'
  OBVIOUS
<1> USE DEF fsVars, goVars, discordVars
<1>t. /\ open \in [Clients -> [Paths -> Ops \cup {None}]]
      /\ ops \in Nat /\ \A f \in Ops : f \in Nat /\ f # None
  BY DsfsConstants DEF TypeOK, Ops
<1>1. CASE open' = open /\ (ops' = ops \/ ops' = ops + 1)
  BY <1>1, <1>t DEF OpenPast, OpenInjective
<1>2. ASSUME NEW c \in Clients, NEW p \in Paths, ops' = ops + 1, ops' \in Ops,
             open' = [open EXCEPT ![c][p] = ops']
      PROVE  OpenPast' /\ OpenInjective'
  <2>1. \A d \in Clients : \A q \in Paths : open'[d][q] =
            IF d = c /\ q = p THEN ops + 1 ELSE open[d][q]
    BY <1>2, <1>t
  <2>2. \A d \in Clients : \A q \in Paths : open[d][q] # ops + 1
    BY <1>t, <1>2 DEF OpenPast
  <2>3. OpenPast'
    <3>1. \A d \in Clients : \A q \in Paths :
                open[d][q] # None => open[d][q] <= ops + 1
      BY <1>t DEF OpenPast
    <3> QED BY <1>t, <1>2, <2>1, <3>1 DEF OpenPast
  <2>4. OpenInjective'
    BY <2>1, <2>2 DEF OpenInjective
  <2> QED BY <2>3, <2>4
<1>3. ASSUME NEW c \in Clients, NEW p \in Paths, NEW q \in Paths,
             ops' = ops + 1, p # q, open' = MoveOpen(c, p, q)
      PROVE  OpenPast' /\ OpenInjective'
  <2>1. CASE open[c][p] = None
    BY <1>1, <1>3, <2>1 DEF MoveOpen
  <2>2. CASE open[c][p] # None
    <3>1. \A d \in Clients : \A x \in Paths : open'[d][x] =
            IF d = c /\ x = q THEN open[c][p]
            ELSE IF d = c /\ x = p THEN None ELSE open[d][x]
      BY <1>t, <1>3, <2>2 DEF MoveOpen
    <3>2. OpenPast'
      <4>1. \A d \in Clients : \A x \in Paths :
                open[d][x] # None => open[d][x] <= ops + 1
        BY <1>t DEF OpenPast
      <4> QED BY <1>3, <3>1, <4>1 DEF OpenPast
    <3>3. OpenInjective'
      BY <3>1 DEF OpenInjective
    <3> QED BY <3>2, <3>3
  <2> QED BY <2>1, <2>2
<1>4. ASSUME ops' = ops \/ ops' = ops + 1,
             \A d \in Clients : \A q \in Paths :
                open'[d][q] = open[d][q] \/ open'[d][q] = None
      PROVE  OpenPast' /\ OpenInjective'
  BY <1>4, <1>t DEF OpenPast, OpenInjective
<1>5. CASE Callbacks
  <2> SUFFICES ASSUME NEW c \in Clients, NEW p \in Paths,
                    \/ Mknod(c, p) \/ Mkdir(c, p) \/ Open(c, p) \/ Unlink(c, p)
                    \/ Rmdir(c, p) \/ Write(c, p) \/ Truncate(c, p)
                    \/ Release(c, p)
                    \/ \E q \in Paths : RenameInMemory(c, p, q) \/ Rename(c, p, q)
               PROVE  OpenPast' /\ OpenInjective'
    BY <1>5 DEF Callbacks
  <2>0. ops' = ops + 1 /\ ops' \in Ops
    <3>1. Callback(c, p)
      BY DEF Mknod, Mkdir, Open, Unlink, Rmdir, Write, Truncate, Release,
             RenameInMemory, Rename
    <3> QED BY <3>1, CallbackType
  <2>1. CASE Mknod(c, p) \/ Open(c, p)
    BY <1>2, <2>0, <2>1 DEF Mknod, Open
  <2>2. CASE Mkdir(c, p) \/ Rmdir(c, p) \/ Write(c, p) \/ Truncate(c, p)
                \/ Release(c, p)
    BY <1>1, <2>0, <2>2 DEF Mkdir, Rmdir, Write, Truncate, Release
  <2>3. CASE Unlink(c, p)
    BY <1>4, <1>t, <2>0, <2>3 DEF Unlink
  <2>4. ASSUME NEW q \in Paths, RenameInMemory(c, p, q) \/ Rename(c, p, q)
        PROVE  OpenPast' /\ OpenInjective'
    <3>1. p # q /\ (open' = open \/ open' = MoveOpen(c, p, q))
      BY <2>4 DEF RenameInMemory, Rename, MayRename
    <3> QED BY <1>1, <1>3, <2>0, <3>1
  <2> QED BY <2>1, <2>2, <2>3, <2>4
<1>6. CASE Background
  <2>1. CASE \/ \E s \in sending : SendTx(s)
             \/ \E r \in renaming : RenameCommit(r)
             \/ \E j \in Ops : Upload(j)
    BY <1>1, <2>1 DEF SendTx, RenameCommit, Upload, UploadCheck, UploadMark,
          UploadRead, UploadData, UploadTx, UploadInsert, UploadClean,
          UploadDone
  <2>2. ASSUME NEW c \in Clients, NEW m \in inbox[c], Handle(c, m)
        PROVE  OpenPast' /\ OpenInjective'
    <3>1. \/ open' = open
          \/ open' = [open EXCEPT ![c][Head(m.txs).path] = None]
      BY <2>2 DEF Handle, ApplyLiveTx, ApplyDelete, SkipBatch
    <3>2. ops' = ops
      BY <2>2 DEF Handle, ApplyLiveTx, ApplyDelete, SkipBatch
    <3> QED BY <1>4, <1>t, <3>1, <3>2
  <2> QED BY <1>6, <2>1, <2>2 DEF Background
<1>7. ASSUME NEW c \in Clients, Restart(c) PROVE OpenPast' /\ OpenInjective'
  BY <1>4, <1>7, <1>t DEF Restart
<1>8. CASE UNCHANGED vars
  BY <1>1, <1>8 DEF vars
<1>9. CASE \E j \in Ops : UploadTears(j)
  BY <1>1, <1>9 DEF UploadTears
<1> QED BY <1>5, <1>6, <1>7, <1>8, <1>9 DEF Next

(* No two paths ever share a FileData, on one client or across clients.    *)
THEOREM DsfsOpenInjective == Spec => []OpenInjective
<1>1. Init => OpenPast /\ OpenInjective
  BY DEF Init, OpenPast, OpenInjective
<1> QED BY <1>1, InitType, NextType, NextInjective, PTL DEF Spec

-----------------------------------------------------------------------------
(* No flag without an upload.  SyncingHeld is not inductive: a restart ends*)
(* all uploads of one client and must not end the upload of a file that    *)
(* another has open (JobsOwn), and a new goroutine or FileData must not    *)
(* take the place of an old one (JobsPast).                                *)

JobsPast == \A j \in Ops : jobs[j] # None => j <= ops /\ jobs[j].file <= ops

JobsOwn ==
    \A j \in Ops, c \in Clients, p \in Paths :
        jobs[j] # None /\ open[c][p] # None /\ jobs[j].file = open[c][p]
            => jobs[j].client = c

FlagInv == JobsPast /\ JobsOwn /\ SyncingHeld

(* An upload that has set the flag of its file.                            *)
Marked(j) == jobs[j] # None /\ jobs[j].pc \notin {"check", "mark"}

LEMMA HeldByMarked ==
    SyncingHeld <=>
        \A c \in Clients, p \in Paths :
            open[c][p] # None /\ files[open[c][p]].syncing =>
                \E j \in Ops : Marked(j) /\ jobs[j].file = open[c][p]
BY DEF SyncingHeld, Uploading, Marked

LEMMA HeldByMarkedNext ==
    SyncingHeld' <=>
        \A c \in Clients, p \in Paths :
            open'[c][p] # None /\ files'[open'[c][p]].syncing =>
                \E j \in Ops : Marked(j)' /\ jobs'[j].file = open'[c][p]
BY DEF SyncingHeld, Uploading, Marked

LEMMA InitFlag == Init => FlagInv
BY DEF Init, FlagInv, JobsPast, JobsOwn, SyncingHeld

(* Steps that start, advance and end no upload: what is open was open.     *)
LEMMA StillFlag ==
    ASSUME TypeOK, FlagInv, ops' = ops \/ ops' = ops + 1, jobs' = jobs,
           \A f \in Ops : files'[f].syncing = files[f].syncing,
           \A c \in Clients, p \in Paths :
                open'[c][p] # None =>
                    \E q \in Paths : open[c][q] = open'[c][p]
    PROVE  FlagInv'
<1>1. JobsPast'
  <2>1. \A j \in Ops : jobs[j] # None => jobs[j].file \in Ops
    BY DEF TypeOK, Job
  <2>2. JobsPast /\ ops \in Int
    BY DsfsConstants DEF FlagInv, TypeOK
  <2>3. \A j \in Ops : j \in Int
    BY DEF Ops
  <2>4. \A j \in Ops : jobs[j] # None => j <= ops' /\ jobs[j].file <= ops'
    BY ONLY <2>1, <2>2, <2>3, ops' = ops \/ ops' = ops + 1 DEF JobsPast
  <2> QED BY <2>4 DEF JobsPast
<1>2. JobsOwn'
  BY DEF FlagInv, JobsOwn
<1>3. SyncingHeld'
  <2>1. \A c \in Clients, p \in Paths : open[c][p] # None => open[c][p] \in Ops
    BY DEF TypeOK
  <2>2. \A j \in Ops : Marked(j)' <=> Marked(j)
    BY DEF Marked
  <2> QED BY <2>1, <2>2, HeldByMarked, HeldByMarkedNext DEF FlagInv
<1> QED BY <1>1, <1>2, <1>3 DEF FlagInv

(* Mknod and Open: the new FileData is in no upload, and its flag is down. *)
LEMMA NewFileFlag ==
    ASSUME TypeOK, FlagInv, NEW c \in Clients, NEW p \in Paths, NEW v,
           ops' = ops + 1, ops' \in Ops, jobs' = jobs,
           open' = [open EXCEPT ![c][p] = ops'],
           files' = [files EXCEPT ![ops'] = NewFile(v)]
    PROVE  FlagInv'
<1>1. \A d \in Clients, q \in Paths : open'[d][q] =
            IF d = c /\ q = p THEN ops + 1 ELSE open[d][q]
  BY DEF TypeOK
<1>2. \A f \in Ops : files'[f].syncing = IF f = ops + 1 THEN FALSE
                                        ELSE files[f].syncing
  BY DEF TypeOK, NewFile
<1>3. /\ ops \in Nat
      /\ \A j \in Ops : j \in Nat
      /\ \A j \in Ops : jobs[j] # None =>
                jobs[j].file \in Ops /\ jobs[j].file # ops + 1
  <2>1. \A j \in Ops : jobs[j] # None => jobs[j].file \in Ops
    BY DEF TypeOK, Job
  <2>2. ops \in Nat /\ \A j \in Ops : j \in Nat
    BY DsfsConstants DEF TypeOK, Ops
  <2>3. \A j \in Ops : jobs[j] # None => jobs[j].file <= ops
    BY DEF FlagInv, JobsPast
  <2> QED BY <2>1, <2>2, <2>3
<1>4. JobsPast'
  BY <1>3 DEF FlagInv, JobsPast
<1>5. JobsOwn'
  BY <1>1, <1>3 DEF FlagInv, JobsOwn
<1>6. SyncingHeld'
  <2> SUFFICES ASSUME NEW d \in Clients, NEW q \in Paths,
                      open'[d][q] # None, files'[open'[d][q]].syncing
               PROVE  \E j \in Ops : Marked(j)' /\ jobs'[j].file = open'[d][q]
    BY HeldByMarkedNext
  <2>1. open'[d][q] \in Ops
    BY <1>1 DEF TypeOK
  <2>2. open'[d][q] # ops + 1 /\ files[open'[d][q]].syncing
    BY <1>2, <2>1
  <2>3. open[d][q] = open'[d][q]
    BY <1>1, <2>2
  <2>4. PICK j \in Ops : Marked(j) /\ jobs[j].file = open[d][q]
    BY <2>2, <2>3, HeldByMarked DEF FlagInv
  <2> QED BY <2>3, <2>4 DEF Marked
<1> QED BY <1>4, <1>5, <1>6 DEF FlagInv

(* A step of one upload: it may raise the flag of its own file if it goes  *)
(* on, and once it has it does not go away before the flag is down.        *)
LEMMA UploadFlag ==
    ASSUME TypeOK, FlagInv, NEW j \in Ops, jobs[j] # None,
           UNCHANGED <<open, ops>>,
           \A i \in Ops : i # j => jobs'[i] = jobs[i],
           jobs'[j] # None => jobs'[j].file = jobs[j].file
                                /\ jobs'[j].client = jobs[j].client,
           \A f \in Ops : files'[f].syncing =>
                \/ files[f].syncing
                \/ f = jobs[j].file /\ Marked(j)',
           Marked(j) => Marked(j)' \/ ~files'[jobs[j].file].syncing
    PROVE  FlagInv'
<1>1. JobsPast' /\ JobsOwn'
  BY DEF FlagInv, JobsPast, JobsOwn
<1>2. SyncingHeld'
  <2> SUFFICES ASSUME NEW c \in Clients, NEW p \in Paths,
                      open[c][p] # None, files'[open[c][p]].syncing
               PROVE  \E i \in Ops : Marked(i)' /\ jobs'[i].file = open[c][p]
    BY HeldByMarkedNext
  <2>1. open[c][p] \in Ops
    BY DEF TypeOK
  <2>2. CASE open[c][p] = jobs[j].file /\ Marked(j)'
    BY <2>2 DEF Marked
  <2>3. CASE files[open[c][p]].syncing
    <3>1. PICK i \in Ops : Marked(i) /\ jobs[i].file = open[c][p]
      BY <2>3, HeldByMarked DEF FlagInv
    <3>2. CASE i = j
      BY <3>1, <3>2 DEF Marked
    <3>3. CASE i # j
      BY <3>1, <3>3 DEF Marked
    <3> QED BY <3>2, <3>3
  <2> QED BY <2>1, <2>2, <2>3
<1> QED BY <1>1, <1>2 DEF FlagInv

(* Release: the goroutine belongs to the client that has the file open.    *)
LEMMA ReleaseFlag ==
    ASSUME TypeOK, OpenInjective, OpenPast, FlagInv,
           NEW c \in Clients, NEW p \in Paths, Release(c, p)
    PROVE  FlagInv'
<1>1. /\ ops' = ops + 1 /\ ops' \in Ops
      /\ open[c][p] # None /\ UNCHANGED <<open, files>>
  BY CallbackType DEF Release, fsVars
<1> DEFINE g == [pc |-> "check", client |-> c, path |-> p,
                 file |-> open[c][p],
                 old |-> IF db[c][p] = None THEN None ELSE db[c][p].ver,
                 size |-> files[open[c][p]].ver, ver |-> 0]
<1>2. /\ jobs' = [jobs EXCEPT ![ops'] = g]
      /\ g.pc = "check" /\ g.client = c /\ g.file = open[c][p]
  BY DEF Release
<1> HIDE DEF g
<1>3. \A j \in Ops : jobs'[j] = IF j = ops + 1 THEN g ELSE jobs[j]
  BY <1>1, <1>2 DEF TypeOK
<1>4. ops \in Nat /\ open[c][p] <= ops /\ \A j \in Ops : j \in Nat
  BY <1>1, DsfsConstants DEF OpenPast, TypeOK, Ops
<1>5. jobs[ops + 1] = None
  BY <1>1, <1>4 DEF FlagInv, JobsPast
<1>6. JobsPast'
  <2>1. \A j \in Ops : jobs[j] # None => jobs[j].file \in Nat
    BY <1>4 DEF TypeOK, Job
  <2>2. open[c][p] \in Nat
    <3>1. open[c][p] \in Ops
      BY <1>1 DEF TypeOK
    <3> QED BY <1>4, <3>1
  <2> SUFFICES ASSUME NEW j \in Ops, jobs'[j] # None
               PROVE  j <= ops' /\ jobs'[j].file <= ops'
    BY DEF JobsPast
  <2>3. CASE j = ops + 1
    BY <1>1, <1>2, <1>3, <1>4, <2>2, <2>3
  <2>4. CASE j # ops + 1
    <3>1. jobs[j] # None /\ jobs'[j] = jobs[j]
      BY <1>3, <2>4
    <3>2. j <= ops /\ jobs[j].file <= ops
      BY <3>1 DEF FlagInv, JobsPast
    <3> QED BY <1>1, <1>4, <2>1, <3>1, <3>2
  <2> QED BY <2>3, <2>4
<1>7. JobsOwn'
  BY <1>1, <1>2, <1>3 DEF FlagInv, JobsOwn, OpenInjective
<1>8. SyncingHeld'
  <2> SUFFICES ASSUME NEW d \in Clients, NEW q \in Paths,
                      open[d][q] # None, files[open[d][q]].syncing
               PROVE  \E j \in Ops : Marked(j)' /\ jobs'[j].file = open[d][q]
    BY <1>1, HeldByMarkedNext
  <2>1. PICK j \in Ops : Marked(j) /\ jobs[j].file = open[d][q]
    BY HeldByMarked DEF FlagInv
  <2> QED BY <1>3, <1>5, <2>1 DEF Marked
<1> QED BY <1>6, <1>7, <1>8 DEF FlagInv

(* A restart ends the uploads of the files it closes, and no others.       *)
LEMMA RestartFlag ==
    ASSUME TypeOK, FlagInv, NEW c \in Clients, Restart(c)
    PROVE  FlagInv'
<1>1. /\ \A d \in Clients, q \in Paths : open'[d][q] =
                IF d = c THEN None ELSE open[d][q]
      /\ \A j \in Ops : jobs'[j] =
                IF jobs[j] # None /\ jobs[j].client = c THEN None ELSE jobs[j]
      /\ files' = files /\ ops' = ops
  BY DEF Restart, TypeOK
<1>2. JobsPast' /\ JobsOwn'
  BY <1>1 DEF FlagInv, JobsPast, JobsOwn
<1>3. SyncingHeld'
  <2> SUFFICES ASSUME NEW d \in Clients, NEW q \in Paths,
                      open'[d][q] # None, files'[open'[d][q]].syncing
               PROVE  \E j \in Ops : Marked(j)' /\ jobs'[j].file = open'[d][q]
    BY HeldByMarkedNext
  <2>1. d # c /\ open'[d][q] = open[d][q] /\ files[open[d][q]].syncing
    BY <1>1
  <2>2. PICK j \in Ops : Marked(j) /\ jobs[j].file = open[d][q]
    BY <2>1, HeldByMarked DEF FlagInv
  <2>3. jobs[j].client # c
    BY <2>1, <2>2 DEF FlagInv, JobsOwn, Marked
  <2> QED BY <1>1, <2>1, <2>2, <2>3 DEF Marked
<1> QED BY <1>2, <1>3 DEF FlagInv

LEMMA CallbacksFlag ==
    ASSUME TypeOK, OpenPast, OpenInjective, FlagInv, Callbacks
    PROVE  FlagInv'
<1> USE DEF fsVars, goVars, discordVars
<1> SUFFICES ASSUME NEW c \in Clients, NEW p \in Paths,
                    \/ Mknod(c, p) \/ Mkdir(c, p) \/ Open(c, p) \/ Unlink(c, p)
                    \/ Rmdir(c, p) \/ Write(c, p) \/ Truncate(c, p)
                    \/ Release(c, p)
                    \/ \E q \in Paths : RenameInMemory(c, p, q) \/ Rename(c, p, q)
             PROVE  FlagInv'
  BY DEF Callbacks
<1>0. ops' = ops + 1 /\ ops' \in Ops
  <2>1. Callback(c, p)
    BY DEF Mknod, Mkdir, Open, Unlink, Rmdir, Write, Truncate, Release,
           RenameInMemory, Rename
  <2> QED BY <2>1, CallbackType
<1>1. CASE Mknod(c, p) \/ Open(c, p)
  BY <1>0, <1>1, NewFileFlag DEF Mknod, Open
<1>2. CASE Mkdir(c, p) \/ Rmdir(c, p)
  BY <1>0, <1>2, StillFlag DEF Mkdir, Rmdir
<1>3. CASE Write(c, p) \/ Truncate(c, p)
  <2>1. PICK f, v : files' = Written(f, v)
    BY <1>3 DEF Write, Truncate
  <2>2. \A g \in Ops : files'[g].syncing = files[g].syncing
    BY <2>1 DEF Written, TypeOK, FileData
  <2> QED BY <1>0, <1>3, <2>2, StillFlag DEF Write, Truncate
<1>4. CASE Unlink(c, p)
  <2>1. open' = [open EXCEPT ![c][p] = None] /\ jobs' = jobs /\ files' = files
    BY <1>4 DEF Unlink
  <2>2. \A d \in Clients, x \in Paths : open'[d][x] # None =>
            open'[d][x] = open[d][x]
    BY <2>1 DEF TypeOK
  <2> QED BY <1>0, <2>1, <2>2, StillFlag
<1>5. CASE Release(c, p)
  BY <1>5, ReleaseFlag
<1>6. ASSUME NEW q \in Paths, RenameInMemory(c, p, q) \/ Rename(c, p, q)
      PROVE  FlagInv'
  <2>1. /\ open' = open \/ open' = MoveOpen(c, p, q)
        /\ jobs' = jobs /\ files' = files
    BY <1>6 DEF RenameInMemory, Rename
  <2>2. \A d \in Clients, x \in Paths : open'[d][x] # None =>
            open'[d][x] \in {open[d][x], open[d][p]}
    BY <2>1 DEF MoveOpen, TypeOK
  <2> QED BY <1>0, <2>1, <2>2, StillFlag
<1> QED BY <1>1, <1>2, <1>3, <1>4, <1>5, <1>6

LEMMA Advances ==
    ASSUME TypeOK, NEW j \in Ops, jobs[j] \in Job, NEW v,
           NEW pc \in {"mark", "read", "data", "tx", "insert", "dirty", "syncing"},
           \/ jobs' = [jobs EXCEPT ![j].pc = pc]
           \/ /\ jobs' = [jobs EXCEPT ![j].ver = v, ![j].pc = pc]
              /\ v \in Versions
    PROVE  /\ \A i \in Ops : i # j => jobs'[i] = jobs[i]
           /\ jobs'[j] # None /\ jobs'[j].pc = pc
           /\ jobs'[j].file = jobs[j].file /\ jobs'[j].client = jobs[j].client
<1>1. \A i \in Ops : i # j => jobs'[i] = jobs[i]
  BY DEF TypeOK
<1>2. CASE jobs' = [jobs EXCEPT ![j].pc = pc]
  <2>1. jobs'[j] = [jobs[j] EXCEPT !.pc = pc]
    BY <1>2 DEF TypeOK
  <2>2. /\ [jobs[j] EXCEPT !.pc = pc] \in Job
        /\ jobs'[j].pc = pc /\ jobs'[j].file = jobs[j].file
        /\ jobs'[j].client = jobs[j].client
    BY <2>1 DEF Job
  <2> QED BY <1>1, <2>1, <2>2, DsfsConstants
<1>3. CASE jobs' = [jobs EXCEPT ![j].ver = v, ![j].pc = pc] /\ v \in Versions
  <2>1. jobs'[j] = [jobs[j] EXCEPT !.ver = v, !.pc = pc]
    BY <1>3 DEF TypeOK
  <2>2. [jobs[j] EXCEPT !.ver = v, !.pc = pc] \in Job
    <3>1. v \in Versions
      BY <1>3
    <3> QED BY <3>1 DEF Job
  <2>3. /\ jobs'[j].pc = pc /\ jobs'[j].file = jobs[j].file
        /\ jobs'[j].client = jobs[j].client
    BY <2>1 DEF Job
  <2> QED BY <1>1, <2>1, <2>2, <2>3, DsfsConstants
<1> QED BY <1>2, <1>3

LEMMA UploadStepFlag ==
    ASSUME TypeOK, FlagInv, NEW j \in Ops, Upload(j)
    PROVE  FlagInv'
<1> USE DEF fsVars, discordVars, Goto, At, Abandoned
<1>1. /\ jobs[j] # None /\ jobs[j] \in Job /\ jobs[j].file \in Ops
      /\ UNCHANGED <<open, ops>>
  BY DEF Upload, UploadCheck, UploadMark, UploadRead, UploadData, UploadTx,
         UploadInsert, UploadClean, UploadDone, TypeOK, Job
<1>2. CASE UploadCheck(j)
  <2>1. jobs'[j] = None \/ jobs'[j] = [jobs[j] EXCEPT !.pc = "mark"]
    BY <1>2 DEF UploadCheck, TypeOK
  <2>2. /\ \A i \in Ops : i # j => jobs'[i] = jobs[i]
        /\ files' = files /\ jobs[j].pc = "check"
    BY <1>2 DEF UploadCheck, TypeOK
  <2> QED BY <1>1, <2>1, <2>2, UploadFlag DEF Marked, Job
<1>3. CASE UploadMark(j)
  <2>1. /\ jobs'[j] = [jobs[j] EXCEPT !.pc = "read"] /\ jobs[j].pc = "mark"
        /\ \A i \in Ops : i # j => jobs'[i] = jobs[i]
        /\ jobs'[j] # None
    <3>1. /\ jobs[j] # None /\ jobs[j].pc = "mark"
          /\ jobs' = [jobs EXCEPT ![j].pc = "read"]
      BY <1>3 DEF UploadMark
    <3>2. DOMAIN jobs = Ops
      BY DEF TypeOK
    <3>3. /\ jobs'[j] = [jobs[j] EXCEPT !.pc = "read"]
          /\ \A i \in Ops : i # j => jobs'[i] = jobs[i]
      BY ONLY <3>1, <3>2, j \in Ops
    <3>4. [jobs[j] EXCEPT !.pc = "read"] \in Job
      BY <1>1 DEF Job
    <3>5. jobs'[j] # None
      BY <3>3, <3>4, DsfsConstants
    <3> QED BY <3>1, <3>3, <3>5
  <2>2. \A f \in Ops : files'[f].syncing =>
            files[f].syncing \/ f = jobs[j].file
    BY <1>1, <1>3 DEF UploadMark, TypeOK, FileData
  <2> QED BY <1>1, <2>1, <2>2, UploadFlag DEF Marked, Job
<1>4. CASE \/ UploadRead(j) \/ UploadData(j) \/ UploadTx(j) \/ UploadInsert(j)
           \/ UploadClean(j)
  <2> DEFINE Late == {"data", "tx", "insert", "dirty", "syncing"}
  <2>1. PICK pc \in Late, v \in Versions :
            \/ jobs' = [jobs EXCEPT ![j].pc = pc]
            \/ jobs' = [jobs EXCEPT ![j].ver = v, ![j].pc = pc]
    <3>1. CASE UploadRead(j)
      BY <3>1, GatheredJob
    <3>2. CASE UploadData(j) \/ UploadTx(j) \/ UploadInsert(j) \/ UploadClean(j)
      <4>1. \E pc \in Late : jobs' = [jobs EXCEPT ![j].pc = pc]
        BY <3>2 DEF UploadData, UploadTx, UploadInsert, UploadClean
      <4>2. \E v \in Versions : TRUE
        BY <1>1 DEF TypeOK, FileData
      <4> QED BY <4>1, <4>2
    <3> QED BY <1>4, <3>1, <3>2
  <2>2. /\ \A i \in Ops : i # j => jobs'[i] = jobs[i]
        /\ jobs'[j].file = jobs[j].file /\ jobs'[j].client = jobs[j].client
        /\ jobs'[j] # None /\ jobs'[j].pc \in Late
    <3>1. pc \in {"mark", "read", "data", "tx", "insert", "dirty", "syncing"}
      OBVIOUS
    <3>2. /\ \A i \in Ops : i # j => jobs'[i] = jobs[i]
          /\ jobs'[j] # None /\ jobs'[j].pc = pc
          /\ jobs'[j].file = jobs[j].file /\ jobs'[j].client = jobs[j].client
      BY <1>1, <2>1, <3>1, Advances, Zenon
    <3> QED BY <3>2
  <2>3. \A f \in Ops : files'[f].syncing = files[f].syncing
    <3>1. \/ files' = files
          \/ files' = [files EXCEPT ![jobs[j].file].dirty = FALSE]
      BY <1>4
      DEF UploadRead, UploadData, UploadTx, UploadInsert, UploadClean
    <3> SUFFICES ASSUME NEW f \in Ops
                 PROVE  files'[f].syncing = files[f].syncing
      OBVIOUS
    <3>2. files[f] \in FileData /\ f \in DOMAIN files
      BY DEF TypeOK
    <3>3. \/ files'[f] = files[f]
          \/ files'[f] = [files[f] EXCEPT !.dirty = FALSE]
      BY <3>1, <3>2
    <3> QED BY <3>2, <3>3 DEF FileData
  <2> QED BY <1>1, <2>2, <2>3, UploadFlag DEF Marked
<1>5. CASE UploadDone(j)
  <2>1. jobs'[j] = None /\ \A i \in Ops : i # j => jobs'[i] = jobs[i]
    BY <1>5 DEF UploadDone, TypeOK
  <2>2. /\ ~files'[jobs[j].file].syncing
        /\ \A f \in Ops : files'[f].syncing => files[f].syncing
    BY <1>1, <1>5 DEF UploadDone, TypeOK, FileData
  <2> QED BY <1>1, <2>1, <2>2, UploadFlag DEF Marked
<1> QED BY <1>2, <1>3, <1>4, <1>5 DEF Upload

LEMMA NextFlag ==
    TypeOK /\ OpenPast /\ OpenInjective /\ FlagInv /\ [Next]_vars => FlagInv'
<1> SUFFICES ASSUME TypeOK, OpenPast, OpenInjective, FlagInv, [Next]_vars
             PROVE  FlagInv'
  OBVIOUS
<1> USE DEF fsVars, goVars, discordVars
<1>1. CASE Callbacks
  BY <1>1, CallbacksFlag
<1>2. CASE \E s \in sending : SendTx(s)
  BY <1>2, StillFlag DEF SendTx
<1>3. CASE \E r \in renaming : RenameCommit(r)
  BY <1>3, StillFlag DEF RenameCommit
<1>4. CASE \E j \in Ops : Upload(j)
  BY <1>4, UploadStepFlag
<1>5. ASSUME NEW c \in Clients, NEW m \in inbox[c], Handle(c, m)
      PROVE  FlagInv'
  <2>1. /\ jobs' = jobs /\ ops' = ops
        /\ \/ open' = open
           \/ open' = [open EXCEPT ![c][Head(m.txs).path] = None]
        /\ \/ files' = files
           \/ \E f, v : files' = [files EXCEPT ![f].ver = v]
    BY <1>5 DEF Handle, ApplyLiveTx, ApplyDelete, SkipBatch
  <2>2. \A d \in Clients, x \in Paths : open'[d][x] # None =>
            open'[d][x] = open[d][x]
    BY <2>1 DEF TypeOK
  <2>3. ASSUME NEW g \in Ops PROVE files'[g].syncing = files[g].syncing
    <3>1. files[g] \in FileData
          /\ g \in DOMAIN files
      BY DEF TypeOK
    <3>2. ASSUME NEW f, NEW v, files' = [files EXCEPT ![f].ver = v]
          PROVE  files'[g] = files[g] \/ files'[g] = [files[g] EXCEPT !.ver = v]
      BY <3>1, <3>2
    <3>3. ASSUME NEW v PROVE [files[g] EXCEPT !.ver = v].syncing = files[g].syncing
      BY <3>1 DEF FileData
    <3> QED BY <2>1, <3>2, <3>3
  <2> QED BY <2>1, <2>2, <2>3, StillFlag
<1>6. ASSUME NEW c \in Clients, Restart(c) PROVE FlagInv'
  BY <1>6, RestartFlag
<1>7. CASE UNCHANGED vars
  BY <1>7, StillFlag DEF vars
<1>8. ASSUME NEW j \in Ops, UploadTears(j) PROVE FlagInv'
  <2>1. /\ UNCHANGED <<open, files, ops>>
        /\ jobs[j] # None /\ jobs'[j] # None
        /\ jobs[j].pc = "data" /\ jobs'[j].pc = "data"
        /\ jobs'[j].file = jobs[j].file /\ jobs'[j].client = jobs[j].client
        /\ \A i \in Ops : i # j => jobs'[i] = jobs[i]
    BY <1>8, TearsChanges
  <2> QED BY <2>1, UploadFlag DEF Marked
<1> QED BY <1>1, <1>2, <1>3, <1>4, <1>5, <1>6, <1>7, <1>8
        DEF Next, Background

(* No error path of an upload leaves syncing set on a file somebody has    *)
(* open: it is set only while an upload of the file is under way.          *)
THEOREM DsfsSyncingHeld == Spec => []SyncingHeld
<1>1. Init => OpenPast /\ OpenInjective
  BY DEF Init, OpenPast, OpenInjective
<1>2. FlagInv => SyncingHeld
  BY DEF FlagInv
<1> QED BY <1>1, <1>2, InitType, NextType, NextInjective, InitFlag, NextFlag,
           PTL DEF Spec

-----------------------------------------------------------------------------
(* Divergence.  What is on its way to a path p, apart from the state of    *)
(* the rest of the system: the entries that goroutines have still to post, *)
(* the renames and uploads that hold it, and the entries each client has   *)
(* still to apply.                                                         *)

ToPost(c, n, left, at, t) ==
    [client |-> c, id |-> n, left |-> left, at |-> at, entry |-> t.entry]
PostsOf(s, p) ==
    UNION {{ToPost(s.client, s.id, Len(s.msgs) - k, i, s.msgs[k][i]) :
                i \in {n \in DOMAIN s.msgs[k] : s.msgs[k][n].path = p}} :
           k \in DOMAIN s.msgs}
Posting(p) == UNION {PostsOf(s, p) : s \in sending}

RenamingOn(p) == {r \in renaming : p \in {r.old, r.new}}
RenamesTo(r, p) == IF p = r.old THEN None ELSE r.entry

UploadingTo(p) ==
    {j \in Ops : /\ jobs[j] # None /\ jobs[j].path = p
                 /\ jobs[j].pc \in {"check", "mark", "read", "data", "tx"}}
Inserting(p) ==
    {[job |-> j, client |-> jobs[j].client, entry |-> File(jobs[j].ver)] :
        j \in {i \in Ops : At(i, "insert") /\ jobs[i].path = p}}

EntriesOn(txs, p) ==
    {txs[k].entry : k \in {n \in DOMAIN txs : txs[n].path = p}}
Mail(c, p) == UNION {EntriesOn(m.txs, p) : m \in inbox[c]}

(* Nobody else is at work on a path that an update has to itself.          *)
Alone(p) ==
    /\ \A x, y \in Posting(p) : x = y
    /\ Posting(p) # {} =>
        /\ UploadingTo(p) = {} /\ Inserting(p) = {}
        /\ \A c \in Clients : Mail(c, p) = {}
    /\ RenamingOn(p) # {} => UploadingTo(p) = {} /\ Inserting(p) = {}
    /\ \A i, j \in UploadingTo(p) : i = j
    /\ \A x, y \in Inserting(p) : x = y
    /\ UploadingTo(p) # {} =>
        Inserting(p) = {} /\ \A c \in Clients : Mail(c, p) = {}

(* What is on its way agrees with the log, or with what will be posted.    *)
Agreed(p) ==
    /\ \A c \in Clients : \A e \in Mail(c, p) : e = Replayed(p)
    /\ \A r \in RenamingOn(p) : Posting(p) = {} => RenamesTo(r, p) = Replayed(p)
    /\ \A x \in Inserting(p) : x.entry = Replayed(p)
    /\ \A x \in Posting(p) :
        /\ RenamingOn(p) = {} => db[x.client][p] = x.entry
        /\ \A r \in RenamingOn(p) :
            r.client = x.client /\ RenamesTo(r, p) = x.entry

(* A database that differs from the log has the update ahead of it.        *)
Due(c, p) ==
    \/ db[c][p] = Replayed(p)
    \/ Mail(c, p) # {}
    \/ \E r \in RenamingOn(p) : r.client = c
    \/ \E x \in Inserting(p) : x.client = c
    \/ \E x \in Posting(p) : x.client = c

PathInv(p) == Alone(p) /\ Agreed(p) /\ \A c \in Clients : Due(c, p)

SendIds ==
    /\ \A s \in sending : s.id <= ops
    /\ \A s, t \in sending : s.id = t.id => s = t

DivergenceInv == SendIds /\ \A p \in Paths : p \in tainted \/ PathInv(p)

LEMMA PostsMembers ==
    ASSUME NEW s, NEW p, NEW x
    PROVE  x \in PostsOf(s, p) <=>
            \E k \in DOMAIN s.msgs : \E i \in DOMAIN s.msgs[k] :
                /\ s.msgs[k][i].path = p
                /\ x = ToPost(s.client, s.id, Len(s.msgs) - k, i, s.msgs[k][i])
BY DEF PostsOf

LEMMA ToPostFields ==
    ASSUME NEW c, NEW n, NEW left, NEW at, NEW t
    PROVE  /\ ToPost(c, n, left, at, t).client = c
           /\ ToPost(c, n, left, at, t).id = n
           /\ ToPost(c, n, left, at, t).left = left
           /\ ToPost(c, n, left, at, t).entry = t.entry
BY DEF ToPost

LEMMA PostingMembers ==
    ASSUME NEW p, NEW x
    PROVE  x \in Posting(p) <=> \E s \in sending : x \in PostsOf(s, p)
BY DEF Posting

(* A path is settled if and only if nothing is on its way to it.           *)
LEMMA SettledMeans ==
    ASSUME TypeOK, NEW p
    PROVE  Unsettled(p) <=>
            \/ Posting(p) # {}
            \/ RenamingOn(p) # {}
            \/ UploadingTo(p) # {}
            \/ Inserting(p) # {}
            \/ \E c \in Clients : Mail(c, p) # {}
<1>1. Posting(p) # {} <=>
        \E s \in sending : \E k \in DOMAIN s.msgs : Names(s.msgs[k], p)
  <2>1. ASSUME Posting(p) # {}
        PROVE  \E s \in sending : \E k \in DOMAIN s.msgs : Names(s.msgs[k], p)
    <3>1. PICK x : x \in Posting(p)
      BY <2>1
    <3>2. PICK s \in sending : x \in PostsOf(s, p)
      BY <3>1, PostingMembers
    <3> QED BY <3>2, PostsMembers DEF Names
  <2>2. ASSUME NEW s \in sending, NEW k \in DOMAIN s.msgs, Names(s.msgs[k], p)
        PROVE  Posting(p) # {}
    <3>1. PICK i \in DOMAIN s.msgs[k] : s.msgs[k][i].path = p
      BY <2>2 DEF Names
    <3>2. ToPost(s.client, s.id, Len(s.msgs) - k, i, s.msgs[k][i])
            \in PostsOf(s, p)
      BY <3>1, PostsMembers
    <3> QED BY <3>2, PostingMembers
  <2> QED BY <2>1, <2>2
<1>2. RenamingOn(p) # {} <=> \E r \in renaming : p \in {r.old, r.new}
  BY DEF RenamingOn
<1>3. UploadingTo(p) # {} \/ Inserting(p) # {} <=>
        \E j \in Ops : /\ jobs[j] # None /\ jobs[j].path = p
                       /\ jobs[j].pc \notin {"dirty", "syncing"}
  <2>1. \A j \in Ops : jobs[j] # None =>
            jobs[j].pc \in {"check", "mark", "read", "data", "tx", "insert",
                            "dirty", "syncing"}
    BY DEF TypeOK, Job
  <2> QED BY <2>1 DEF UploadingTo, Inserting, At
<1>4. \A c \in Clients : Mail(c, p) # {} <=>
            \E m \in inbox[c] : Names(m.txs, p)
  <2>1. ASSUME NEW txs PROVE EntriesOn(txs, p) # {} <=> Names(txs, p)
    BY DEF EntriesOn, Names
  <2>2. ASSUME NEW c
        PROVE  Mail(c, p) # {} <=> \E m \in inbox[c] : EntriesOn(m.txs, p) # {}
    BY DEF Mail
  <2> QED BY <2>1, <2>2
<1> QED BY <1>1, <1>2, <1>3, <1>4 DEF Unsettled

-----------------------------------------------------------------------------
(* How the pieces of the steps change what is on its way.                  *)

(* Nothing about p changes but that an upload may have given up.           *)
Still(p) ==
    /\ Posting(p)' = Posting(p)
    /\ RenamingOn(p)' = RenamingOn(p)
    /\ UploadingTo(p)' \subseteq UploadingTo(p)
    /\ Inserting(p)' = Inserting(p)
    /\ Replayed(p)' = Replayed(p)
    /\ \A c \in Clients : Mail(c, p)' = Mail(c, p) /\ db'[c][p] = db[c][p]

LEMMA PostingClients ==
    ASSUME TypeOK, NEW p
    PROVE  \A x \in Posting(p) : x.client \in Clients
<1> SUFFICES ASSUME NEW x \in Posting(p) PROVE x.client \in Clients
  OBVIOUS
<1>1. PICK s \in sending : x \in PostsOf(s, p)
  BY PostingMembers
<1> QED BY <1>1, PostsMembers, ToPostFields DEF TypeOK, Send

LEMMA StillKeeps ==
    ASSUME TypeOK, NEW p, PathInv(p), Still(p)
    PROVE  PathInv(p)'
<1>1. Alone(p)'
  BY DEF PathInv, Alone, Still
<1>2. \A r : RenamesTo(r, p)' = RenamesTo(r, p)
  BY DEF RenamesTo
<1>3. (\A x \in Posting(p) :
        /\ RenamingOn(p) = {} => db[x.client][p] = x.entry
        /\ \A r \in RenamingOn(p) :
            r.client = x.client /\ RenamesTo(r, p) = x.entry)'
  BY <1>2, PostingClients DEF PathInv, Agreed, Still
<1>4. Agreed(p)'
  BY <1>2, <1>3 DEF PathInv, Agreed, Still
<1>5. \A c \in Clients : Due(c, p)'
  BY DEF PathInv, Due, Still
<1> QED BY <1>1, <1>4, <1>5 DEF PathInv

LEMMA SilentStep ==
    ASSUME NEW p, UNCHANGED <<sending, renaming, jobs, inbox, log>>,
           \A c \in Clients : db'[c][p] = db[c][p]
    PROVE  Still(p)
<1>1. Replayed(p)' = Replayed(p)
  BY DEF Replayed, Touches
<1>2. Posting(p)' = Posting(p)
  BY DEF Posting, PostsOf
<1>3. UploadingTo(p)' = UploadingTo(p) /\ Inserting(p)' = Inserting(p)
  BY DEF UploadingTo, Inserting, At
<1> QED BY <1>1, <1>2, <1>3 DEF Still, RenamingOn, Mail

LEMMA SpawnPosting ==
    ASSUME NEW p, NEW c, NEW msgs, Spawn(c, msgs)
    PROVE  Posting(p)' = Posting(p) \cup
            PostsOf([client |-> c, id |-> ops', msgs |-> msgs], p)
<1>1. ASSUME NEW x
      PROVE  x \in Posting(p)' <=> \E s \in sending' : x \in PostsOf(s, p)
  BY DEF Posting
<1> QED BY <1>1, PostingMembers DEF Spawn

(* A goroutine with one transaction posts one entry.                       *)
LEMMA SmallPosts ==
    ASSUME NEW c, NEW n, NEW t, NEW p, NEW s,
           s = [client |-> c, id |-> n, msgs |-> <<<<t>>>>]
    PROVE  PostsOf(s, p) =
            IF t.path = p THEN {ToPost(c, n, 0, 1, t)} ELSE {}
<1>1. /\ \A k : k \in DOMAIN s.msgs <=> k = 1
      /\ \A i : i \in DOMAIN s.msgs[1] <=> i = 1
      /\ s.msgs[1][1] = t /\ s.client = c /\ s.id = n /\ Len(s.msgs) - 1 = 0
  OBVIOUS
<1>2. ASSUME NEW x
      PROVE  x \in PostsOf(s, p) <=> t.path = p /\ x = ToPost(c, n, 0, 1, t)
  <2>1. x \in PostsOf(s, p) <=>
            \E k \in DOMAIN s.msgs : \E i \in DOMAIN s.msgs[k] :
                /\ s.msgs[k][i].path = p
                /\ x = ToPost(s.client, s.id, Len(s.msgs) - k, i, s.msgs[k][i])
    BY PostsMembers
  <2> QED BY <1>1, <2>1
<1> QED BY <1>2

(* A Rename posts one entry on each of its names, in one message or two.   *)
LEMMA RenamePosts ==
    ASSUME NEW c, NEW n, NEW p, NEW q, p # q, NEW e, NEW z,
           NEW s, s = [client |-> c, id |-> n, msgs |-> RenameMessages(p, q, e)]
    PROVE  /\ z \notin {p, q} => PostsOf(s, z) = {}
           /\ z \in {p, q} =>
                \E x : /\ PostsOf(s, z) = {x} /\ x.client = c
                       /\ x.entry = IF z = p THEN None ELSE e
<1> DEFINE W == WriteTx(q, e)
           D == DeleteTx(p)
           rec(left, at, t) == ToPost(c, n, left, at, t)
<1>0. /\ W.path = q /\ W.entry = e /\ D.path = p /\ D.entry = None
      /\ s.client = c /\ s.id = n /\ s.msgs = RenameMessages(p, q, e)
  BY DEF WriteTx, DeleteTx
<1>1. \E l, m : \A x : x \in PostsOf(s, z) <=>
        \/ q = z /\ x = rec(l, 1, W)
        \/ p = z /\ x = rec(0, m, D)
  <2> DEFINE is(x, k, i) == /\ s.msgs[k][i].path = z
                            /\ x = rec(Len(s.msgs) - k, i, s.msgs[k][i])
  <2>0. \A x : x \in PostsOf(s, z) <=>
            \E k \in DOMAIN s.msgs : \E i \in DOMAIN s.msgs[k] : is(x, k, i)
    BY <1>0, PostsMembers
  <2>1. CASE q \in Large
    <3>1. s.msgs = <<<<W>>, <<D>>>>
      BY <1>0, <2>1 DEF RenameMessages
    <3>2. /\ \A k : k \in DOMAIN s.msgs <=> k = 1 \/ k = 2
          /\ \A i : i \in DOMAIN s.msgs[1] <=> i = 1
          /\ \A i : i \in DOMAIN s.msgs[2] <=> i = 1
          /\ s.msgs[1][1] = W /\ s.msgs[2][1] = D
          /\ Len(s.msgs) - 1 = 1 /\ Len(s.msgs) - 2 = 0
      <4> HIDE DEF W, D
      <4> QED BY <3>1
    <3>3. \A x : x \in PostsOf(s, z) <=> is(x, 1, 1) \/ is(x, 2, 1)
      <4> HIDE DEF W, D, is
      <4> QED BY <2>0, <3>2, Zenon
    <3>4. \A x : x \in PostsOf(s, z) <=>
            \/ q = z /\ x = rec(1, 1, W)
            \/ p = z /\ x = rec(0, 1, D)
      <4> HIDE DEF W, D
      <4> QED BY <1>0, <3>2, <3>3
    <3> QED BY <3>4
  <2>2. CASE q \notin Large
    <3>1. s.msgs = <<<<W, D>>>>
      BY <1>0, <2>2 DEF RenameMessages
    <3>2. /\ \A k : k \in DOMAIN s.msgs <=> k = 1
          /\ \A i : i \in DOMAIN s.msgs[1] <=> i = 1 \/ i = 2
          /\ s.msgs[1][1] = W /\ s.msgs[1][2] = D
          /\ Len(s.msgs) - 1 = 0
      <4> HIDE DEF W, D
      <4> QED BY <3>1
    <3>3. \A x : x \in PostsOf(s, z) <=> is(x, 1, 1) \/ is(x, 1, 2)
      <4> HIDE DEF W, D, is
      <4> QED BY <2>0, <3>2, Zenon
    <3>4. \A x : x \in PostsOf(s, z) <=>
            \/ q = z /\ x = rec(0, 1, W)
            \/ p = z /\ x = rec(0, 2, D)
      <4> HIDE DEF W, D
      <4> QED BY <1>0, <3>2, <3>3
    <3> QED BY <3>4
  <2> QED BY <2>1, <2>2
<1>2. PICK l, m : \A x : x \in PostsOf(s, z) <=>
        \/ q = z /\ x = rec(l, 1, W)
        \/ p = z /\ x = rec(0, m, D)
  BY <1>1
<1>3. CASE z \notin {p, q}
  BY <1>2, <1>3
<1>4. CASE z = p
  <2>1. PostsOf(s, z) = {rec(0, m, D)}
    BY <1>2, <1>4
  <2> QED BY <1>0, <1>4, <2>1, ToPostFields
<1>5. CASE z = q
  <2>1. PostsOf(s, z) = {rec(l, 1, W)}
    BY <1>2, <1>5
  <2> QED BY <1>0, <1>5, <2>1, ToPostFields
<1> QED BY <1>3, <1>4, <1>5

(* Once its first message is sent, a goroutine posts the rest.             *)
LEMMA SendParts ==
    ASSUME TypeOK, NEW s \in sending, NEW p, NEW x
    PROVE  /\ (\E t \in Unsent(s) : x \in PostsOf(t, p)) <=>
                x \in PostsOf(s, p) /\ x.left # Len(s.msgs) - 1
           /\ x \in PostsOf(s, p) /\ x.left = Len(s.msgs) - 1 =>
                x.entry \in EntriesOn(Head(s.msgs), p)
<1>1. /\ s \in Send /\ s.msgs \in Seq(Batch) /\ s.msgs # <<>>
      /\ Len(s.msgs) \in Nat \ {0} /\ DOMAIN s.msgs = 1..Len(s.msgs)
      /\ Head(s.msgs) = s.msgs[1]
  BY EmptySeq, LenProperties DEF TypeOK, Send
<1>2. /\ Tail(s.msgs) \in Seq(Batch) /\ Len(Tail(s.msgs)) = Len(s.msgs) - 1
      /\ DOMAIN Tail(s.msgs) = 1..(Len(s.msgs) - 1)
      /\ \A k \in 1..(Len(s.msgs) - 1) : Tail(s.msgs)[k] = s.msgs[k + 1]
  BY <1>1, HeadTailProperties, LenProperties
<1> DEFINE u == [s EXCEPT !.msgs = Tail(@)]
           rec(left, at, t) == ToPost(s.client, s.id, left, at, t)
<1>3. u.client = s.client /\ u.id = s.id /\ u.msgs = Tail(s.msgs)
  BY <1>1 DEF Send
<1>4. x \in PostsOf(s, p) <=>
        \E k \in 1..Len(s.msgs) : \E i \in DOMAIN s.msgs[k] :
            s.msgs[k][i].path = p /\ x = rec(Len(s.msgs) - k, i, s.msgs[k][i])
  BY <1>1, PostsMembers
<1>5. x \in PostsOf(u, p) <=>
        \E k \in 1..(Len(s.msgs) - 1) : \E i \in DOMAIN u.msgs[k] :
            u.msgs[k][i].path = p /\ x = rec(Len(u.msgs) - k, i, u.msgs[k][i])
  <2> HIDE DEF u
  <2>1. x \in PostsOf(u, p) <=>
            \E k \in DOMAIN u.msgs : \E i \in DOMAIN u.msgs[k] :
                /\ u.msgs[k][i].path = p
                /\ x = ToPost(u.client, u.id, Len(u.msgs) - k, i, u.msgs[k][i])
    BY PostsMembers
  <2>2. DOMAIN u.msgs = 1..(Len(s.msgs) - 1) /\ u.client = s.client /\ u.id = s.id
    BY <1>2, <1>3
  <2> QED BY <2>1, <2>2
<1>6. x \in PostsOf(u, p) <=>
        \E k \in 1..(Len(s.msgs) - 1) : \E i \in DOMAIN s.msgs[k + 1] :
            /\ s.msgs[k + 1][i].path = p
            /\ x = rec(Len(s.msgs) - 1 - k, i, s.msgs[k + 1][i])
  <2> HIDE DEF u, rec
  <2>1. DOMAIN u.msgs = 1..(Len(s.msgs) - 1)
        /\ Len(u.msgs) = Len(s.msgs) - 1
        /\ \A k \in 1..(Len(s.msgs) - 1) : u.msgs[k] = s.msgs[k + 1]
    BY <1>2, <1>3
  <2> QED BY ONLY <2>1, <1>5
<1>7. ASSUME NEW k \in 1..Len(s.msgs), NEW i \in DOMAIN s.msgs[k],
             s.msgs[k][i].path = p, x = rec(Len(s.msgs) - k, i, s.msgs[k][i]),
             x.left # Len(s.msgs) - 1
      PROVE  x \in PostsOf(u, p)
  <2>1. x.left = Len(s.msgs) - k
    BY <1>7, ToPostFields
  <2>2. k - 1 \in 1..(Len(s.msgs) - 1) /\ (k - 1) + 1 = k
    BY <1>1, <1>7, <2>1
  <2>3. Len(s.msgs) - 1 - (k - 1) = Len(s.msgs) - k
    BY <1>1
  <2> HIDE DEF u, rec
  <2> QED BY <1>6, <1>7, <2>2, <2>3
<1>8. ASSUME NEW k \in 1..(Len(s.msgs) - 1), NEW i \in DOMAIN s.msgs[k + 1],
             s.msgs[k + 1][i].path = p,
             x = rec(Len(s.msgs) - 1 - k, i, s.msgs[k + 1][i])
      PROVE  x \in PostsOf(s, p) /\ x.left # Len(s.msgs) - 1
  <2>1. x.left = Len(s.msgs) - 1 - k
    BY <1>8, ToPostFields
  <2>2. x.left # Len(s.msgs) - 1
    BY <1>1, <2>1
  <2>3. k + 1 \in 1..Len(s.msgs) /\ Len(s.msgs) - 1 - k = Len(s.msgs) - (k + 1)
    BY <1>1
  <2>4. x \in PostsOf(s, p)
    <3> HIDE DEF rec
    <3> QED BY <1>4, <1>8, <2>3
  <2> QED BY <2>2, <2>4
<1>9. x \in PostsOf(u, p) <=> x \in PostsOf(s, p) /\ x.left # Len(s.msgs) - 1
  <2> HIDE DEF u, rec
  <2> QED BY <1>4, <1>6, <1>7, <1>8
<1>10. (\E t \in Unsent(s) : x \in PostsOf(t, p)) <=> x \in PostsOf(u, p)
  <2>1. CASE Len(s.msgs) = 1
    <3>1. x \notin PostsOf(u, p)
      <4> HIDE DEF u, rec
      <4> QED BY <1>6, <2>1
    <3> QED BY <2>1, <3>1 DEF Unsent
  <2>2. CASE Len(s.msgs) # 1
    <3>1. Unsent(s) = {u}
      BY <2>2 DEF Unsent
    <3> HIDE DEF u
    <3> QED BY <3>1
  <2> QED BY <2>1, <2>2
<1>11. ASSUME x \in PostsOf(s, p), x.left = Len(s.msgs) - 1
       PROVE  x.entry \in EntriesOn(Head(s.msgs), p)
  <2>0. PICK k \in 1..Len(s.msgs) : \E i \in DOMAIN s.msgs[k] :
            s.msgs[k][i].path = p /\ x = rec(Len(s.msgs) - k, i, s.msgs[k][i])
    BY <1>4, <1>11
  <2>1. PICK i \in DOMAIN s.msgs[k] :
            s.msgs[k][i].path = p /\ x = rec(Len(s.msgs) - k, i, s.msgs[k][i])
    BY <2>0
  <2>2. x.left = Len(s.msgs) - k /\ x.entry = s.msgs[k][i].entry
    BY <2>1, ToPostFields
  <2>3. k = 1
    BY <1>1, <1>11, <2>1, <2>2
  <2> QED BY <1>1, <2>1, <2>2, <2>3 DEF EntriesOn
<1> QED BY <1>9, <1>10, <1>11

(* The entries of the message sent next are the first it has to post.      *)
LEMMA HeadPosts ==
    ASSUME TypeOK, NEW s \in sending, NEW p, NEW e \in EntriesOn(Head(s.msgs), p)
    PROVE  \E x \in PostsOf(s, p) : x.left = Len(s.msgs) - 1 /\ x.entry = e
<1>1. /\ s.msgs \in Seq(Batch) /\ s.msgs # <<>>
      /\ Len(s.msgs) \in Nat \ {0} /\ DOMAIN s.msgs = 1..Len(s.msgs)
      /\ Head(s.msgs) = s.msgs[1]
  BY EmptySeq, LenProperties DEF TypeOK, Send
<1>2. PICK i \in DOMAIN s.msgs[1] :
        s.msgs[1][i].path = p /\ e = s.msgs[1][i].entry
  BY <1>1 DEF EntriesOn
<1> DEFINE x == ToPost(s.client, s.id, Len(s.msgs) - 1, i, s.msgs[1][i])
<1>3. 1 \in DOMAIN s.msgs
  BY <1>1
<1>4. x \in PostsOf(s, p)
  <2>1. \E k \in DOMAIN s.msgs : \E n \in DOMAIN s.msgs[k] :
                /\ s.msgs[k][n].path = p
                /\ x = ToPost(s.client, s.id, Len(s.msgs) - k, n, s.msgs[k][n])
    BY <1>2, <1>3
  <2> QED BY <2>1, PostsMembers
<1> QED BY <1>2, <1>4, ToPostFields

(* What a replay finds after a message: its entry of the path, if it has   *)
(* one and only one, and what it found before otherwise.                   *)
LEMMA ReplayedAfter ==
    ASSUME TypeOK, NEW b \in Batch, log' = log \o b, NEW p
    PROVE  /\ EntriesOn(b, p) = {} => Replayed(p)' = Replayed(p)
           /\ \A e : EntriesOn(b, p) = {e} => Replayed(p)' = e
<1>1. /\ log \in Seq(Tx) /\ b \in Seq(Tx)
      /\ DOMAIN log = 1..Len(log) /\ DOMAIN b = 1..Len(b)
      /\ Len(log) \in Nat /\ Len(b) \in Nat
      /\ DOMAIN log' = 1..(Len(log) + Len(b))
      /\ \A k \in 1..(Len(log) + Len(b)) :
            log'[k] = IF k <= Len(log) THEN log[k] ELSE b[k - Len(log)]
  BY LenProperties, ConcatProperties DEF TypeOK, Batch
<1>2. \A k \in DOMAIN b : b[k].path = p => b[k].entry \in EntriesOn(b, p)
  BY DEF EntriesOn
<1>3. ASSUME EntriesOn(b, p) = {} PROVE Replayed(p)' = Replayed(p)
  <2>1. Touches(p)' = Touches(p)
    BY <1>1, <1>2, <1>3 DEF Touches
  <2>2. CASE Touches(p) = {}
    BY <2>1, <2>2 DEF Replayed
  <2>3. CASE Touches(p) # {}
    <3> DEFINE last == CHOOSE k \in Touches(p) : \A n \in Touches(p) : n <= k
    <3>1. Touches(p) \subseteq 1..Len(log)
      BY <1>1 DEF Touches
    <3>2. \E k \in Touches(p) : \A n \in Touches(p) : n <= k
      BY <1>1, <2>3, <3>1, LastExists
    <3>3. last \in 1..Len(log)
      <4>1. last \in Touches(p)
        BY <3>2
      <4> HIDE DEF last
      <4> QED BY <3>1, <4>1
    <3>4. Replayed(p) = log[last].entry /\ Replayed(p)' = log'[last].entry
      BY <2>1, <2>3 DEF Replayed
    <3> HIDE DEF last
    <3> QED BY <1>1, <3>3, <3>4
  <2> QED BY <2>2, <2>3
<1>4. ASSUME NEW e, EntriesOn(b, p) = {e} PROVE Replayed(p)' = e
  <2> DEFINE T == {k \in DOMAIN log' : log'[k].path = p}
             n == Len(log) + Len(b)
  <2>1. PICK k \in DOMAIN b : b[k].path = p
    BY <1>4 DEF EntriesOn
  <2>2. k + Len(log) \in T /\ k + Len(log) > Len(log)
    <3>1. /\ k + Len(log) \in 1..(Len(log) + Len(b))
          /\ ~(k + Len(log) <= Len(log)) /\ (k + Len(log)) - Len(log) = k
      BY <1>1
    <3> QED BY <1>1, <2>1, <3>1
  <2>3. n \in Nat /\ T \subseteq 1..n /\ T # {}
    BY <1>1, <2>2
  <2>4. \E last \in T : \A m \in T : m <= last
    <3> HIDE DEF T, n
    <3> QED BY <2>3, LastExists
  <2>5. Replayed(p)' = log'[CHOOSE last \in T : \A m \in T : m <= last].entry
    BY <2>3 DEF Replayed, Touches
  <2>6. PICK last \in T : /\ \A m \in T : m <= last
                          /\ Replayed(p)' = log'[last].entry
    <3> HIDE DEF T
    <3> QED BY <2>4, <2>5
  <2>7. last \in 1..n /\ last > Len(log) /\ log'[last].path = p
    BY <1>1, <2>2, <2>3, <2>6
  <2>8. last - Len(log) \in DOMAIN b /\ log'[last] = b[last - Len(log)]
    BY <1>1, <2>7
  <2> QED BY <1>2, <1>4, <2>6, <2>7, <2>8
<1> QED BY <1>3, <1>4

LEMMA PostMail ==
    ASSUME TypeOK, NEW c \in Clients, NEW b, Post(c, b), NEW p
    PROVE  \A d \in Clients : Mail(d, p)' =
            IF d = c THEN Mail(d, p) ELSE Mail(d, p) \cup EntriesOn(b, p)
<1> SUFFICES ASSUME NEW d \in Clients
             PROVE  Mail(d, p)' = IF d = c THEN Mail(d, p)
                                  ELSE Mail(d, p) \cup EntriesOn(b, p)
  OBVIOUS
<1> DEFINE m == [id |-> Len(log), txs |-> b, new |-> TRUE]
<1>1. inbox'[d] = IF d = c THEN inbox[d] ELSE inbox[d] \cup {m}
  BY DEF Post
<1>2. m.txs = b
  OBVIOUS
<1> HIDE DEF m
<1>3. ASSUME NEW e
      PROVE  /\ e \in Mail(d, p)' <=>
                    \E k \in inbox'[d] : e \in EntriesOn(k.txs, p)
             /\ e \in Mail(d, p) <=>
                    \E k \in inbox[d] : e \in EntriesOn(k.txs, p)
  BY DEF Mail
<1> QED BY <1>1, <1>2, <1>3

LEMMA ConsumeMail ==
    ASSUME TypeOK, NEW c \in Clients, NEW m \in inbox[c], Consume(c, m), NEW p
    PROVE  /\ \A d \in Clients \ {c} : Mail(d, p)' = Mail(d, p)
           /\ Mail(c, p)' \subseteq Mail(c, p)
           /\ Head(m.txs).path # p => Mail(c, p)' = Mail(c, p)
           /\ Head(m.txs).path = p => Head(m.txs).entry \in Mail(c, p)
<1>1. /\ inbox'[c] = (inbox[c] \ {m}) \cup Unread(m)
      /\ \A d \in Clients \ {c} : inbox'[d] = inbox[d]
  BY DEF Consume, TypeOK
<1>2. ASSUME NEW d, NEW e
      PROVE  /\ e \in Mail(d, p)' <=>
                    \E k \in inbox'[d] : e \in EntriesOn(k.txs, p)
             /\ e \in Mail(d, p) <=>
                    \E k \in inbox[d] : e \in EntriesOn(k.txs, p)
  BY DEF Mail
<1>3. \A d \in Clients \ {c} : Mail(d, p)' = Mail(d, p)
  BY <1>1, <1>2
<1>4. /\ m \in Message /\ m.txs \in Seq(Tx) /\ m.txs # <<>>
      /\ Len(m.txs) \in Nat \ {0} /\ DOMAIN m.txs = 1..Len(m.txs)
      /\ Head(m.txs) = m.txs[1]
  BY EmptySeq, LenProperties DEF TypeOK, Message, Batch
<1>5. /\ Len(Tail(m.txs)) = Len(m.txs) - 1
      /\ DOMAIN Tail(m.txs) = 1..(Len(m.txs) - 1)
      /\ \A k \in 1..(Len(m.txs) - 1) : Tail(m.txs)[k] = m.txs[k + 1]
  BY <1>4, HeadTailProperties, LenProperties
<1>6. ASSUME NEW e, NEW u \in Unread(m), e \in EntriesOn(u.txs, p)
      PROVE  e \in EntriesOn(m.txs, p)
  <2>1. u.txs = Tail(m.txs)
    BY <1>4 DEF Unread, Message
  <2>2. PICK k \in 1..(Len(m.txs) - 1) :
            Tail(m.txs)[k].path = p /\ e = Tail(m.txs)[k].entry
    BY <1>5, <1>6, <2>1 DEF EntriesOn
  <2>3. k + 1 \in DOMAIN m.txs
    BY <1>4
  <2> QED BY <1>5, <2>2, <2>3 DEF EntriesOn
<1>7. ASSUME Head(m.txs).path # p, NEW e \in EntriesOn(m.txs, p)
      PROVE  \E u \in Unread(m) : e \in EntriesOn(u.txs, p)
  <2>1. PICK k \in DOMAIN m.txs : m.txs[k].path = p /\ e = m.txs[k].entry
    BY DEF EntriesOn
  <2>2. k \in 1..Len(m.txs) /\ k # 1
    BY <1>4, <1>7, <2>1
  <2>3. k - 1 \in 1..(Len(m.txs) - 1) /\ (k - 1) + 1 = k
    BY <1>4, <2>2
  <2>4. e \in EntriesOn(Tail(m.txs), p)
    BY <1>5, <2>1, <2>3 DEF EntriesOn
  <2>5. Unread(m) = {[m EXCEPT !.txs = Tail(@), !.new = FALSE]}
    <3>1. Len(m.txs) # 1
      <4>1. ASSUME Len(m.txs) = 1 PROVE FALSE
        <5>1. k \in 1..1
          BY <2>2, <4>1
        <5> QED BY <2>2, <5>1
      <4> QED BY <4>1
    <3> QED BY <3>1 DEF Unread
  <2>6. [m EXCEPT !.txs = Tail(@), !.new = FALSE].txs = Tail(m.txs)
    BY <1>4 DEF Message
  <2> QED BY <2>4, <2>5, <2>6
<1>8. Mail(c, p)' \subseteq Mail(c, p)
  BY <1>1, <1>2, <1>6
<1>9. ASSUME Head(m.txs).path # p PROVE Mail(c, p) \subseteq Mail(c, p)'
  BY <1>1, <1>2, <1>7, <1>9
<1>10. ASSUME Head(m.txs).path = p PROVE Head(m.txs).entry \in Mail(c, p)
  <2>1. Head(m.txs).entry \in EntriesOn(m.txs, p)
    BY <1>4, <1>10 DEF EntriesOn
  <2> QED BY <1>2, <2>1
<1> QED BY <1>3, <1>8, <1>9, <1>10

-----------------------------------------------------------------------------
(* Every action keeps PathInv at the paths it does not taint.              *)

LEMMA SettledEmpty ==
    ASSUME TypeOK, NEW p \in Paths, NEW P, p \in P, Begin(P), p \notin tainted'
    PROVE  /\ Posting(p) = {} /\ RenamingOn(p) = {}
           /\ UploadingTo(p) = {} /\ Inserting(p) = {}
           /\ \A c \in Clients : Mail(c, p) = {}
<1>1. ~Unsettled(p)
  BY DEF Begin
<1> QED BY <1>1, SettledMeans

(* An update of a settled path has one entry to post, which the client has *)
(* in its database, or will have when its Rename commits.                  *)
LEMMA FreshUpdate ==
    ASSUME NEW p \in Paths, PathInv(p), NEW x, x.client \in Clients,
           Posting(p) = {}, RenamingOn(p) = {}, UploadingTo(p) = {},
           Inserting(p) = {}, \A c \in Clients : Mail(c, p) = {},
           Posting(p)' = {x}, UploadingTo(p)' = {}, Inserting(p)' = {},
           \A c \in Clients : Mail(c, p)' = {}, Replayed(p)' = Replayed(p),
           \A c \in Clients \ {x.client} : db'[c][p] = db[c][p],
           RenamingOn(p)' = {} => db'[x.client][p] = x.entry,
           \A r \in RenamingOn(p)' :
                r.client = x.client /\ RenamesTo(r, p) = x.entry
    PROVE  PathInv(p)'
<1>1. Alone(p)'
  BY DEF Alone
<1>2. \A r : RenamesTo(r, p)' = RenamesTo(r, p)
  BY DEF RenamesTo
<1>3. Agreed(p)'
  BY <1>2 DEF Agreed
<1>4. \A c \in Clients : Due(c, p)'
  BY DEF PathInv, Due
<1> QED BY <1>1, <1>3, <1>4 DEF PathInv

LEMMA SamePieces ==
    ASSUME NEW p
    PROVE  /\ UNCHANGED sending => Posting(p)' = Posting(p)
           /\ UNCHANGED renaming => RenamingOn(p)' = RenamingOn(p)
           /\ UNCHANGED jobs => /\ UploadingTo(p)' = UploadingTo(p)
                                /\ Inserting(p)' = Inserting(p)
           /\ UNCHANGED inbox => \A c : Mail(c, p)' = Mail(c, p)
           /\ UNCHANGED log => Replayed(p)' = Replayed(p)
<1>1. UNCHANGED log => Replayed(p)' = Replayed(p)
  BY DEF Replayed, Touches
<1>2. UNCHANGED sending => Posting(p)' = Posting(p)
  BY DEF Posting
<1>3. UNCHANGED jobs => /\ UploadingTo(p)' = UploadingTo(p)
                        /\ Inserting(p)' = Inserting(p)
  BY DEF UploadingTo, Inserting, At
<1> QED BY <1>1, <1>2, <1>3 DEF RenamingOn, Mail

LEMMA SmallUpdate ==
    ASSUME TypeOK, NEW c \in Clients, NEW q \in Paths, NEW e,
           db' = [db EXCEPT ![c][q] = e], SendSmall(c, WriteTx(q, e)),
           UNCHANGED <<jobs, renaming, discordVars>>,
           NEW p \in Paths, p \in tainted \/ PathInv(p)
    PROVE  p \in tainted' \/ PathInv(p)'
<1> USE DEF discordVars
<1> SUFFICES ASSUME p \notin tainted' PROVE PathInv(p)'
  OBVIOUS
<1>1. WriteTx(q, e).path = q /\ WriteTx(q, e).entry = e
  BY DEF WriteTx
<1>2. PathInv(p)
  BY DEF SendSmall, Begin
<1>3. /\ RenamingOn(p)' = RenamingOn(p) /\ UploadingTo(p)' = UploadingTo(p)
      /\ Inserting(p)' = Inserting(p) /\ Replayed(p)' = Replayed(p)
      /\ \A d : Mail(d, p)' = Mail(d, p)
  BY SamePieces
<1>4. \A d \in Clients : db'[d][p] = IF d = c /\ p = q THEN e ELSE db[d][p]
  BY DEF TypeOK
<1>5. CASE UNCHANGED sending /\ tainted' = tainted \cup {q}
  <2>1. p # q
    BY <1>5
  <2>2. Posting(p)' = Posting(p)
    BY <1>5, SamePieces
  <2> QED BY <1>2, <1>3, <1>4, <2>1, <2>2, StillKeeps DEF Still
<1>6. CASE Begin({q}) /\ Spawn(c, <<<<WriteTx(q, e)>>>>)
  <2> DEFINE x == ToPost(c, ops', 0, 1, WriteTx(q, e))
  <2>1. Posting(p)' = Posting(p) \cup IF q = p THEN {x} ELSE {}
    <3> DEFINE t == WriteTx(q, e)
               s == [client |-> c, id |-> ops', msgs |-> <<<<t>>>>]
    <3>1. PostsOf(s, p) = IF t.path = p THEN {ToPost(c, ops', 0, 1, t)} ELSE {}
      <4> HIDE DEF t
      <4> QED BY SmallPosts
    <3> QED BY <1>1, <1>6, <3>1, SpawnPosting
  <2>2. x.client = c /\ x.entry = e
    BY <1>1, ToPostFields
  <2> HIDE DEF x
  <2>3. CASE p # q
    BY <1>2, <1>3, <1>4, <2>1, <2>3, StillKeeps DEF Still
  <2>4. CASE p = q
    <3>1. /\ Posting(p) = {} /\ RenamingOn(p) = {}
          /\ UploadingTo(p) = {} /\ Inserting(p) = {}
          /\ \A d \in Clients : Mail(d, p) = {}
      BY <1>6, <2>4, SettledEmpty
    <3> QED BY <1>2, <1>3, <1>4, <2>1, <2>2, <2>4, <3>1, FreshUpdate
  <2> QED BY <2>3, <2>4
<1> QED BY <1>1, <1>5, <1>6 DEF SendSmall

LEMMA RenameUpdate ==
    ASSUME TypeOK, NEW c \in Clients, NEW q \in Paths, NEW z \in Paths,
           Rename(c, q, z), NEW p \in Paths, p \in tainted \/ PathInv(p)
    PROVE  p \in tainted' \/ PathInv(p)'
<1> USE DEF discordVars
<1> SUFFICES ASSUME p \notin tainted' PROVE PathInv(p)'
  OBVIOUS
<1>1. PathInv(p)
  BY DEF Rename, Begin
<1>2. /\ UploadingTo(p)' = UploadingTo(p)
      /\ Inserting(p)' = Inserting(p) /\ Replayed(p)' = Replayed(p)
      /\ \A d : Mail(d, p)' = Mail(d, p)
      /\ db' = db
  BY SamePieces DEF Rename
<1>3. CASE UNCHANGED <<sending, renaming>>
  BY <1>1, <1>2, <1>3, SamePieces, StillKeeps DEF Still
<1> DEFINE e == db[c][q]
           r == [client |-> c, id |-> ops', old |-> q, new |-> z, entry |-> e]
           s == [client |-> c, id |-> ops', msgs |-> RenameMessages(q, z, e)]
<1>4. CASE /\ Begin({q, z}) /\ Spawn(c, RenameMessages(q, z, e))
           /\ renaming' = renaming \cup {r}
  <2>1. Posting(p)' = Posting(p) \cup PostsOf(s, p)
    BY <1>4, SpawnPosting
  <2>2. /\ p \notin {q, z} => PostsOf(s, p) = {}
        /\ p \in {q, z} => \E x : /\ PostsOf(s, p) = {x} /\ x.client = c
                                  /\ x.entry = IF p = q THEN None ELSE e
    <3>1. q # z
      BY DEF Rename, MayRename
    <3> QED BY <3>1, RenamePosts
  <2>3. r.client = c /\ r.old = q /\ r.new = z /\ r.entry = e
    OBVIOUS
  <2>4. RenamingOn(p)' = RenamingOn(p) \cup IF p \in {q, z} THEN {r} ELSE {}
    <3> HIDE DEF r
    <3> QED BY <1>4, <2>3 DEF RenamingOn
  <2> HIDE DEF r, s, e
  <2>5. CASE p \notin {q, z}
    BY <1>1, <1>2, <2>1, <2>2, <2>4, <2>5, StillKeeps DEF Still
  <2>6. CASE p \in {q, z}
    <3>1. /\ Posting(p) = {} /\ RenamingOn(p) = {}
          /\ UploadingTo(p) = {} /\ Inserting(p) = {}
          /\ \A d \in Clients : Mail(d, p) = {}
      BY <1>4, <2>6, SettledEmpty
    <3>2. PICK x : /\ Posting(p)' = {x} /\ x.client = c
                   /\ x.entry = IF p = q THEN None ELSE e
      BY <2>1, <2>2, <2>6, <3>1
    <3>3. RenamingOn(p)' = {r} /\ RenamesTo(r, p) = x.entry
      BY <2>3, <2>4, <2>6, <3>1, <3>2 DEF RenamesTo
    <3> QED BY <1>1, <1>2, <2>3, <3>1, <3>2, <3>3, FreshUpdate
  <2> QED BY <2>5, <2>6
<1> QED BY <1>3, <1>4 DEF Rename

LEMMA ReleaseUpdate ==
    ASSUME TypeOK, JobsPast, NEW c \in Clients, NEW q \in Paths, Release(c, q),
           NEW p \in Paths, p \in tainted \/ PathInv(p)
    PROVE  p \in tainted' \/ PathInv(p)'
<1> USE DEF fsVars, discordVars
<1> SUFFICES ASSUME p \notin tainted' PROVE PathInv(p)'
  OBVIOUS
<1>1. PathInv(p)
  BY DEF Release, Begin
<1>2. /\ Posting(p)' = Posting(p) /\ RenamingOn(p)' = RenamingOn(p)
      /\ Replayed(p)' = Replayed(p)
      /\ \A d : Mail(d, p)' = Mail(d, p)
      /\ db' = db
  BY SamePieces DEF Release
<1>3. /\ ops' \in Ops /\ ops' = ops + 1
  BY CallbackType DEF Release
<1>4. jobs[ops'] = None
  BY <1>3 DEF JobsPast, TypeOK
<1>5. /\ \A j \in Ops \ {ops'} : jobs'[j] = jobs[j]
      /\ jobs'[ops'] # None => jobs'[ops'].pc = "check" /\ jobs'[ops'].path = q
  BY <1>3 DEF Release, TypeOK
<1>6. Inserting(p)' = Inserting(p)
  <2>1. \A j \in Ops : At(j, "insert")' <=> At(j, "insert") /\ j # ops'
    BY <1>3, <1>4, <1>5 DEF At
  <2> QED BY <1>4, <1>5, <2>1 DEF Inserting, At
<1>7. UploadingTo(p)' \subseteq UploadingTo(p) \cup IF p = q THEN {ops'} ELSE {}
  BY <1>5 DEF UploadingTo
<1>8. CASE p # q
  BY <1>1, <1>2, <1>6, <1>7, <1>8, StillKeeps DEF Still
<1>9. CASE p = q
  <2>1. /\ Posting(p) = {} /\ RenamingOn(p) = {}
        /\ UploadingTo(p) = {} /\ Inserting(p) = {}
        /\ \A d \in Clients : Mail(d, p) = {}
    BY <1>9, SettledEmpty DEF Release
  <2>2. Alone(p)'
    BY <1>2, <1>6, <1>7, <2>1 DEF Alone
  <2>3. Agreed(p)'
    BY <1>2, <1>6, <2>1 DEF Agreed
  <2>4. \A d \in Clients : Due(d, p)'
    BY <1>1, <1>2, <2>1 DEF PathInv, Due
  <2> QED BY <2>2, <2>3, <2>4 DEF PathInv
<1> QED BY <1>8, <1>9

LEMMA CallbacksDivergence ==
    ASSUME TypeOK, JobsPast, Callbacks,
           NEW p \in Paths, p \in tainted \/ PathInv(p)
    PROVE  p \in tainted' \/ PathInv(p)'
<1> USE DEF fsVars, goVars, discordVars
<1> SUFFICES ASSUME NEW c \in Clients, NEW q \in Paths,
                    \/ Mknod(c, q) \/ Mkdir(c, q) \/ Open(c, q) \/ Unlink(c, q)
                    \/ Rmdir(c, q) \/ Write(c, q) \/ Truncate(c, q)
                    \/ Release(c, q)
                    \/ \E z \in Paths : RenameInMemory(c, q, z) \/ Rename(c, q, z)
             PROVE  p \in tainted' \/ PathInv(p)'
  BY DEF Callbacks
<1>1. CASE UNCHANGED <<db, sending, renaming, jobs, inbox, log, tainted>>
  BY <1>1, SilentStep, StillKeeps
<1>2. CASE Mknod(c, q) \/ Open(c, q) \/ Write(c, q) \/ Truncate(c, q)
  BY <1>1, <1>2 DEF Mknod, Open, Write, Truncate
<1>3. CASE Mkdir(c, q)
  BY <1>3, SmallUpdate DEF Mkdir
<1>4. CASE Unlink(c, q) \/ Rmdir(c, q)
  <2>1. WriteTx(q, None) = DeleteTx(q)
    BY DEF WriteTx, DeleteTx
  <2> QED BY <1>1, <1>4, <2>1, SmallUpdate DEF Unlink, Rmdir
<1>5. CASE Release(c, q)
  BY <1>5, ReleaseUpdate
<1>6. ASSUME NEW z \in Paths, RenameInMemory(c, q, z)
      PROVE  p \in tainted' \/ PathInv(p)'
  BY <1>1, <1>6 DEF RenameInMemory
<1>7. ASSUME NEW z \in Paths, Rename(c, q, z)
      PROVE  p \in tainted' \/ PathInv(p)'
  BY <1>7, RenameUpdate
<1> QED BY <1>2, <1>3, <1>4, <1>5, <1>6, <1>7

(* A message is stored: the log has caught up with the client that sent    *)
(* it, and the others have it in their mail.                               *)
LEMMA SendKeeps ==
    ASSUME TypeOK, SendIds, NEW s \in sending, SendTx(s),
           NEW p \in Paths, p \in tainted \/ PathInv(p)
    PROVE  p \in tainted' \/ PathInv(p)'
<1> USE DEF fsVars
<1> SUFFICES ASSUME p \notin tainted' PROVE PathInv(p)'
  OBVIOUS
<1> DEFINE c == s.client
           b == Head(s.msgs)
           first(x) == x \in PostsOf(s, p) /\ x.left = Len(s.msgs) - 1
<1>0. c \in Clients /\ b \in Batch
  BY SendTypes
<1>1. PathInv(p)
  BY DEF SendTx
<1>2. /\ RenamingOn(p)' = RenamingOn(p) /\ UploadingTo(p)' = UploadingTo(p)
      /\ Inserting(p)' = Inserting(p) /\ db' = db
  BY SamePieces DEF SendTx
<1>3. \A x : x \in Posting(p)' <=>
        \/ \E t \in sending \ {s} : x \in PostsOf(t, p)
        \/ x \in PostsOf(s, p) /\ ~first(x)
  <2>1. \A x : x \in Posting(p)' <=> \E t \in sending' : x \in PostsOf(t, p)
    BY DEF Posting
  <2>2. \A x : (\E t \in Unsent(s) : x \in PostsOf(t, p)) <=>
                x \in PostsOf(s, p) /\ x.left # Len(s.msgs) - 1
    BY SendParts
  <2> QED BY <2>1, <2>2 DEF SendTx
<1>4. /\ EntriesOn(b, p) = {} => \A x : ~first(x)
      /\ \A x : first(x) => x.entry \in EntriesOn(b, p)
      /\ \A e \in EntriesOn(b, p) : \E x : first(x) /\ x.entry = e
  BY SendParts, HeadPosts
<1>5. \A x : x \in Posting(p) <=>
        (\E t \in sending \ {s} : x \in PostsOf(t, p)) \/ x \in PostsOf(s, p)
  BY PostingMembers
<1> HIDE DEF first
<1>6. CASE EntriesOn(b, p) = {}
  <2>1. Posting(p)' = Posting(p)
    BY <1>3, <1>4, <1>5, <1>6
  <2>2. /\ Replayed(p)' = Replayed(p)
        /\ \A d \in Clients : Mail(d, p)' = Mail(d, p)
    <3>1. CASE Post(c, b)
      <4>1. log' = log \o b
        BY <3>1 DEF Post
      <4>2. Replayed(p)' = Replayed(p)
        BY <1>0, <1>6, <4>1, ReplayedAfter
      <4> QED BY <1>0, <1>6, <3>1, <4>2, PostMail
    <3>2. CASE UNCHANGED <<log, inbox>>
      BY <3>2, SamePieces
    <3> QED BY <3>1, <3>2 DEF SendTx
  <2> QED BY <1>1, <1>2, <2>1, <2>2, StillKeeps DEF Still
<1>7. CASE EntriesOn(b, p) # {}
  <2>1. PICK x : first(x) /\ x.entry \in EntriesOn(b, p)
    BY <1>4, <1>7
  <2>2. \A y \in Posting(p) : y = x
    BY <1>1, <1>5, <2>1 DEF PathInv, Alone, first
  <2>3. EntriesOn(b, p) = {x.entry}
    BY <1>4, <1>5, <2>1, <2>2 DEF first
  <2>4. Posting(p)' = {}
    <3>1. ASSUME NEW t \in sending \ {s}, x \in PostsOf(t, p) PROVE FALSE
      <4>1. x.id = t.id /\ x.id = s.id
        BY <2>1, <3>1, PostsMembers, ToPostFields DEF first
      <4> QED BY <3>1, <4>1 DEF SendIds
    <3> QED BY <1>3, <1>5, <2>1, <2>2, <3>1
  <2>5. x \in Posting(p) /\ x.client = c
    BY <1>5, <2>1, PostsMembers, ToPostFields DEF first
  <2>6. Post(c, b)
    <3>1. PathsOf(b) \subseteq tainted' => p \in tainted'
      BY <1>7 DEF PathsOf, EntriesOn
    <3> QED BY <3>1 DEF SendTx
  <2>7. /\ Replayed(p)' = x.entry
        /\ \A d \in Clients : Mail(d, p)' =
                IF d = c THEN Mail(d, p) ELSE Mail(d, p) \cup {x.entry}
    <3>1. log' = log \o b
      BY <2>6 DEF Post
    <3>2. Replayed(p)' = x.entry
      BY <1>0, <2>3, <3>1, ReplayedAfter
    <3> QED BY <1>0, <2>3, <2>6, <3>2, PostMail
  <2>8. /\ UploadingTo(p) = {} /\ Inserting(p) = {}
        /\ \A d \in Clients : Mail(d, p) = {}
    BY <1>1, <2>5 DEF PathInv, Alone
  <2>9. Alone(p)'
    BY <1>2, <2>4, <2>8 DEF Alone
  <2>10. /\ RenamingOn(p) = {} => db[c][p] = x.entry
         /\ \A r \in RenamingOn(p) :
                r.client = c /\ RenamesTo(r, p) = x.entry
    BY <1>1, <2>5 DEF PathInv, Agreed
  <2>11. \A r : RenamesTo(r, p)' = RenamesTo(r, p)
    BY DEF RenamesTo
  <2>12. Agreed(p)'
    BY <1>2, <2>4, <2>7, <2>8, <2>10, <2>11 DEF Agreed
  <2>13. \A d \in Clients : Due(d, p)'
    BY <1>2, <2>7, <2>8, <2>10 DEF Due
  <2> QED BY <2>9, <2>12, <2>13 DEF PathInv
<1> QED BY <1>6, <1>7

(* The second half of a Rename gives its client what was, or will be,      *)
(* posted.                                                                 *)
LEMMA CommitKeeps ==
    ASSUME TypeOK, NEW r \in renaming, RenameCommit(r), NEW p \in Paths, PathInv(p)
    PROVE  PathInv(p)'
<1> USE DEF discordVars
<1>1. /\ Posting(p)' = Posting(p)
      /\ UploadingTo(p)' = UploadingTo(p) /\ Inserting(p)' = Inserting(p)
      /\ Replayed(p)' = Replayed(p) /\ \A d : Mail(d, p)' = Mail(d, p)
  BY SamePieces DEF RenameCommit
<1>2. /\ r.client \in Clients /\ r.old \in Paths /\ r.new \in Paths
  BY DEF TypeOK, Renaming
<1>3. \A d \in Clients : db'[d][p] =
        IF d = r.client /\ p \in {r.old, r.new} THEN RenamesTo(r, p)
        ELSE db[d][p]
  BY <1>2 DEF RenameCommit, Committed, RenamesTo, TypeOK
<1>4. RenamingOn(p)' = RenamingOn(p) \ {r}
  BY DEF RenameCommit, RenamingOn
<1>5. CASE p \notin {r.old, r.new}
  <2>1. r \notin RenamingOn(p)
    BY <1>5 DEF RenamingOn
  <2> QED BY <1>1, <1>3, <1>4, <1>5, <2>1, StillKeeps DEF Still
<1>6. CASE p \in {r.old, r.new}
  <2>1. r \in RenamingOn(p)
    BY <1>6 DEF RenamingOn
  <2>2. \A u : RenamesTo(u, p)' = RenamesTo(u, p)
    BY DEF RenamesTo
  <2>3. Alone(p)'
    BY <1>1, <1>4 DEF PathInv, Alone
  <2>4. (\A x \in Posting(p) :
            /\ RenamingOn(p) = {} => db[x.client][p] = x.entry
            /\ \A u \in RenamingOn(p) :
                u.client = x.client /\ RenamesTo(u, p) = x.entry)'
    <3> SUFFICES ASSUME NEW x \in Posting(p)
                 PROVE  /\ db'[x.client][p] = x.entry
                        /\ \A u \in RenamingOn(p)' :
                            u.client = x.client /\ RenamesTo(u, p) = x.entry
      BY <1>1, <2>2
    <3>1. \A u \in RenamingOn(p) :
                u.client = x.client /\ RenamesTo(u, p) = x.entry
      BY DEF PathInv, Agreed
    <3> QED BY <1>2, <1>3, <1>4, <1>6, <2>1, <3>1
  <2>5. Agreed(p)'
    BY <1>1, <1>4, <2>2, <2>4 DEF PathInv, Agreed
  <2>6. ASSUME NEW d \in Clients PROVE Due(d, p)'
    <3>1. CASE d # r.client
      BY <1>1, <1>3, <1>4, <3>1 DEF PathInv, Due
    <3>2. CASE d = r.client /\ Posting(p) = {}
      <4>1. RenamesTo(r, p) = Replayed(p)
        BY <2>1, <3>2 DEF PathInv, Agreed
      <4> QED BY <1>1, <1>3, <1>6, <3>2, <4>1 DEF Due
    <3>3. CASE d = r.client /\ Posting(p) # {}
      <4>1. PICK x : x \in Posting(p)
        BY <3>3
      <4>2. x.client = d
        BY <2>1, <3>3, <4>1 DEF PathInv, Agreed
      <4> QED BY <1>1, <4>1, <4>2 DEF Due
    <3> QED BY <3>1, <3>2, <3>3
  <2> QED BY <2>3, <2>5, <2>6 DEF PathInv
<1> QED BY <1>5, <1>6

LEMMA HandleKeeps ==
    ASSUME TypeOK, NEW c \in Clients, NEW m \in inbox[c], Handle(c, m),
           NEW p \in Paths, p \in tainted \/ PathInv(p)
    PROVE  p \in tainted' \/ PathInv(p)'
<1> USE DEF fsVars, goVars
<1> SUFFICES ASSUME p \notin tainted' PROVE PathInv(p)'
  OBVIOUS
<1>1. PathInv(p)
  BY DEF Handle, ApplyLiveTx, ApplyDelete, SkipBatch
<1>2. /\ Posting(p)' = Posting(p) /\ RenamingOn(p)' = RenamingOn(p)
      /\ UploadingTo(p)' = UploadingTo(p) /\ Inserting(p)' = Inserting(p)
      /\ Replayed(p)' = Replayed(p)
  BY SamePieces DEF Handle, ApplyLiveTx, ApplyDelete, SkipBatch
<1> DEFINE t == Head(m.txs)
<1>3. CASE Consume(c, m) /\ db' = [db EXCEPT ![c][t.path] = t.entry]
  <2>0. t.path \in Paths
    BY MessageTypes, EntryTypes
  <2>1. \A d \in Clients : db'[d][p] =
            IF d = c /\ p = t.path THEN t.entry ELSE db[d][p]
    BY <1>3, <2>0 DEF TypeOK
  <2>2. /\ \A d \in Clients \ {c} : Mail(d, p)' = Mail(d, p)
        /\ Mail(c, p)' \subseteq Mail(c, p)
        /\ t.path # p => Mail(c, p)' = Mail(c, p)
        /\ t.path = p => t.entry \in Mail(c, p)
    BY <1>3, ConsumeMail
  <2> HIDE DEF t
  <2>3. CASE t.path # p
    BY <1>1, <1>2, <2>1, <2>2, <2>3, StillKeeps DEF Still
  <2>4. CASE t.path = p
    <3>1. t.entry = Replayed(p) /\ Posting(p) = {} /\ UploadingTo(p) = {}
      BY <1>1, <2>2, <2>4 DEF PathInv, Agreed, Alone
    <3>2. Alone(p)'
      BY <1>1, <1>2, <3>1 DEF PathInv, Alone
    <3>3. \A r : RenamesTo(r, p)' = RenamesTo(r, p)
      BY DEF RenamesTo
    <3>4. Agreed(p)'
      BY <1>1, <1>2, <2>2, <3>1, <3>3 DEF PathInv, Agreed
    <3>5. \A d \in Clients : Due(d, p)'
      BY <1>1, <1>2, <2>1, <2>2, <2>4, <3>1 DEF PathInv, Due
    <3> QED BY <3>2, <3>4, <3>5 DEF PathInv
  <2> QED BY <2>3, <2>4
<1>4. CASE SkipBatch(c, m)
  <2>1. EntriesOn(m.txs, p) = {}
    BY <1>4 DEF SkipBatch, PathsOf, EntriesOn
  <2>2. \A d \in Clients : inbox'[d] = IF d = c THEN inbox[c] \ {m} ELSE inbox[d]
    BY <1>4 DEF SkipBatch, TypeOK
  <2>3. ASSUME NEW d \in Clients PROVE Mail(d, p)' = Mail(d, p)
    <3>1. \A e : /\ e \in Mail(d, p)' <=>
                        \E k \in inbox'[d] : e \in EntriesOn(k.txs, p)
                 /\ e \in Mail(d, p) <=>
                        \E k \in inbox[d] : e \in EntriesOn(k.txs, p)
      BY DEF Mail
    <3> QED BY <2>1, <2>2, <3>1
  <2>4. db' = db
    BY <1>4 DEF SkipBatch
  <2> QED BY <1>1, <1>2, <2>3, <2>4, StillKeeps DEF Still
<1>5. CASE ApplyLiveTx(c, m)
  BY <1>3, <1>5 DEF ApplyLiveTx
<1>6. CASE ApplyDelete(c, m)
  <2>1. db' = [db EXCEPT ![c][t.path] = t.entry] /\ Consume(c, m)
    BY <1>6 DEF ApplyDelete
  <2> QED BY <1>3, <2>1
<1> QED BY <1>4, <1>5, <1>6 DEF Handle

(* A restart drops what the client had on its way, all of a path or none,  *)
(* and takes its database from the log.                                    *)
LEMMA RestartKeeps ==
    ASSUME TypeOK, NEW c \in Clients, Restart(c), NEW p \in Paths, PathInv(p)
    PROVE  PathInv(p)'
<1>1. Posting(p)' = {x \in Posting(p) : x.client # c}
  <2>1. ASSUME NEW x
        PROVE  /\ x \in Posting(p)' <=> \E s \in sending' : x \in PostsOf(s, p)
               /\ \A s : x \in PostsOf(s, p) => x.client = s.client
    BY PostsMembers, ToPostFields DEF Posting
  <2> QED BY <2>1, PostingMembers DEF Restart
<1>2. RenamingOn(p)' = {r \in RenamingOn(p) : r.client # c}
  BY DEF Restart, RenamingOn
<1>3. \A j \in Ops : jobs'[j] = IF jobs[j] # None /\ jobs[j].client = c
                                THEN None ELSE jobs[j]
  BY DEF Restart
<1>4. UploadingTo(p)' \subseteq UploadingTo(p)
  BY <1>3 DEF UploadingTo
<1>5. Inserting(p)' = {x \in Inserting(p) : x.client # c}
  <2>1. \A j \in Ops : At(j, "insert")' <=>
            At(j, "insert") /\ jobs[j].client # c
    BY <1>3 DEF At
  <2>2. \A j \in Ops : At(j, "insert")' => jobs'[j] = jobs[j]
    BY <1>3, <2>1
  <2>3. ASSUME NEW x
        PROVE  /\ x \in Inserting(p)' <=>
                    \E j \in Ops : /\ At(j, "insert")' /\ jobs'[j].path = p
                                   /\ x = [job |-> j, client |-> jobs'[j].client,
                                           entry |-> File(jobs'[j].ver)]
               /\ x \in Inserting(p) <=>
                    \E j \in Ops : /\ At(j, "insert") /\ jobs[j].path = p
                                   /\ x = [job |-> j, client |-> jobs[j].client,
                                           entry |-> File(jobs[j].ver)]
    BY DEF Inserting
  <2>4. ASSUME NEW x \in Inserting(p)'
        PROVE  x \in Inserting(p) /\ x.client # c
    BY <2>1, <2>2, <2>3
  <2>5. ASSUME NEW x \in Inserting(p), x.client # c
        PROVE  x \in Inserting(p)'
    <3>1. PICK j \in Ops : /\ At(j, "insert") /\ jobs[j].path = p
                           /\ x = [job |-> j, client |-> jobs[j].client,
                                   entry |-> File(jobs[j].ver)]
      BY <2>3
    <3>2. jobs[j].client # c
      BY <2>5, <3>1
    <3> QED BY <2>1, <2>2, <2>3, <3>1, <3>2
  <2> QED BY <2>4, <2>5
<1>6. Replayed(p)' = Replayed(p)
  BY SamePieces DEF Restart
<1>7. \A d \in Clients : Mail(d, p)' = IF d = c THEN {} ELSE Mail(d, p)
  BY DEF Restart, Mail, TypeOK
<1>8. \A d \in Clients : db'[d][p] = IF d = c THEN Replayed(p) ELSE db[d][p]
  BY DEF Restart, TypeOK
<1>9. Alone(p)'
  BY <1>1, <1>2, <1>4, <1>5, <1>7 DEF PathInv, Alone
<1>10. \A r : RenamesTo(r, p)' = RenamesTo(r, p)
  BY DEF RenamesTo
<1>11. \A x \in Posting(p) : \A r \in RenamingOn(p) : r.client = x.client
  BY DEF PathInv, Agreed
<1>12. \A r \in RenamingOn(p)' : Posting(p)' = {} => RenamesTo(r, p) = Replayed(p)
  <2> SUFFICES ASSUME NEW r \in RenamingOn(p), r.client # c, Posting(p)' = {}
               PROVE  Posting(p) = {}
    BY <1>2 DEF PathInv, Agreed
  <2> QED BY <1>1, <1>11
<1>13. ASSUME NEW x \in Posting(p)'
       PROVE  /\ RenamingOn(p)' = {} => db'[x.client][p] = x.entry
              /\ \A r \in RenamingOn(p)' :
                    r.client = x.client /\ RenamesTo(r, p) = x.entry
  <2>1. x \in Posting(p) /\ x.client # c /\ x.client \in Clients
    BY <1>1, PostingClients
  <2>2. RenamingOn(p)' = {} => RenamingOn(p) = {}
    BY <1>2, <1>11, <2>1
  <2> QED BY <1>2, <1>8, <2>1, <2>2 DEF PathInv, Agreed
<1>14. Agreed(p)'
  BY <1>5, <1>6, <1>7, <1>10, <1>12, <1>13 DEF PathInv, Agreed
<1>15. \A d \in Clients : Due(d, p)'
  BY <1>1, <1>2, <1>5, <1>6, <1>7, <1>8 DEF PathInv, Due
<1> QED BY <1>9, <1>14, <1>15 DEF PathInv

(* An upload that only moves on among the points before its transaction,   *)
(* gives up, or ends.                                                      *)
LEMMA UploadMoves ==
    ASSUME TypeOK, NEW j \in Ops, jobs[j] # None, jobs[j].pc # "insert",
           \A i \in Ops : i # j => jobs'[i] = jobs[i],
           \/ jobs'[j] = None
           \/ /\ jobs'[j].path = jobs[j].path
              /\ jobs'[j].pc \in {"mark", "read", "data", "tx"}
              /\ jobs[j].pc \in {"check", "mark", "read", "data", "tx"}
           \/ jobs'[j].pc \in {"dirty", "syncing"},
           UNCHANGED <<db, sending, renaming, log, inbox>>,
           NEW p, PathInv(p)
    PROVE  PathInv(p)'
<1>1. /\ Posting(p)' = Posting(p) /\ RenamingOn(p)' = RenamingOn(p)
      /\ Replayed(p)' = Replayed(p) /\ \A c : Mail(c, p)' = Mail(c, p)
      /\ db' = db
  BY SamePieces
<1>2. UploadingTo(p)' \subseteq UploadingTo(p)
  BY DEF UploadingTo
<1>3. Inserting(p)' = Inserting(p)
  <2>1. \A i \in Ops : At(i, "insert")' <=> At(i, "insert")
    BY DEF At
  <2>2. \A i \in Ops : At(i, "insert") => jobs'[i] = jobs[i]
    BY DEF At
  <2> QED BY <2>1, <2>2 DEF Inserting
<1> QED BY <1>1, <1>2, <1>3, StillKeeps DEF Still

(* The transaction of an upload: like SendKeeps, but the database follows. *)
LEMMA UploadTxKeeps ==
    ASSUME TypeOK, NEW j \in Ops, UploadTx(j),
           NEW p \in Paths, p \in tainted \/ PathInv(p)
    PROVE  p \in tainted' \/ PathInv(p)'
<1> USE DEF fsVars
<1> SUFFICES ASSUME p \notin tainted' PROVE PathInv(p)'
  OBVIOUS
<1> DEFINE c == jobs[j].client
           q == jobs[j].path
           e == File(jobs[j].ver)
           b == <<WriteTx(q, e)>>
<1>1. PathInv(p)
  BY DEF UploadTx
<1>2. /\ jobs[j] # None /\ jobs[j] \in Job /\ jobs[j].pc = "tx"
      /\ c \in Clients /\ q \in Paths
  BY JobTypes DEF UploadTx, At
<1>3. b \in Batch /\ EntriesOn(b, p) = IF p = q THEN {e} ELSE {}
  <2>1. WriteTx(q, e) \in Tx /\ WriteTx(q, e).path = q /\ WriteTx(q, e).entry = e
    <3>1. WriteTx(q, e) \in Tx
      BY JobTypes, EntryTypes DEF UploadTx
    <3> QED BY <3>1 DEF WriteTx
  <2> DEFINE t == WriteTx(q, e)
  <2> HIDE DEF t
  <2>2. <<t>> \in Batch
    BY <2>1, NonEmptySeqs DEF Batch, t
  <2>3. EntriesOn(<<t>>, p) = IF p = t.path THEN {t.entry} ELSE {}
    BY DEF EntriesOn
  <2> QED BY <2>1, <2>2, <2>3 DEF t
<1>4. /\ Posting(p)' = Posting(p) /\ RenamingOn(p)' = RenamingOn(p)
      /\ db' = db
  BY SamePieces DEF UploadTx
<1>5. CASE jobs' = Abandoned(j) /\ UNCHANGED <<log, inbox>>
  <2>1. /\ jobs'[j].pc = "dirty"
        /\ \A i \in Ops : i # j => jobs'[i] = jobs[i]
    BY <1>2, <1>5 DEF Abandoned, TypeOK, Job
  <2> QED BY <1>1, <1>2, <2>1, <1>5, UploadMoves DEF UploadTx
<1>6. CASE Post(c, b) /\ (Goto(j, "insert") \/ (p # q /\ jobs' = Abandoned(j)))
  <2>0. PICK pc \in {"insert", "dirty"} :
            /\ jobs' = [jobs EXCEPT ![j].pc = pc]
            /\ p = q => pc = "insert"
    BY <1>6 DEF Goto, Abandoned
  <2>1. /\ jobs'[j] # None
        /\ jobs'[j].path = q /\ jobs'[j].client = c
        /\ File(jobs'[j].ver) = e
        /\ jobs'[j].pc = pc /\ (p = q => jobs'[j].pc = "insert")
        /\ \A i \in Ops : i # j => jobs'[i] = jobs[i]
    <3>1. /\ jobs'[j] = [jobs[j] EXCEPT !.pc = pc]
          /\ \A i \in Ops : i # j => jobs'[i] = jobs[i]
      BY <2>0 DEF TypeOK
    <3>2. jobs'[j] \in Job
      BY <1>2, <3>1 DEF Job
    <3>3. jobs'[j] # None
      BY <3>2, DsfsConstants
    <3> QED BY <1>2, <2>0, <3>1, <3>3 DEF Job
  <2>2. UploadingTo(p)' \subseteq UploadingTo(p) \ {j}
    BY <2>1 DEF UploadingTo
  <2>3. CASE p # q
    <3>1. Inserting(p)' = Inserting(p)
      <4>1. \A i \in Ops : At(i, "insert")' /\ jobs'[i].path = p <=>
                At(i, "insert") /\ jobs[i].path = p
        BY <1>2, <2>1, <2>3 DEF At
      <4>2. \A i \in Ops : At(i, "insert") /\ jobs[i].path = p =>
                jobs'[i] = jobs[i]
        BY <1>2, <2>1, <2>3 DEF At
      <4> QED BY <4>1, <4>2 DEF Inserting
    <3>2. Replayed(p)' = Replayed(p) /\ \A d \in Clients : Mail(d, p)' = Mail(d, p)
      <4>1. log' = log \o b
        BY <1>6 DEF Post
      <4>2. Replayed(p)' = Replayed(p)
        BY <1>3, <2>3, <4>1, ReplayedAfter
      <4>3. EntriesOn(b, p) = {} /\ c \in Clients
        BY <1>2, <1>3, <2>3 DEF Job
      <4> HIDE DEF b, c
      <4>4. \A d \in Clients : Mail(d, p)' = Mail(d, p)
        BY <1>3, <1>6, <4>3, PostMail
      <4> QED BY <4>2, <4>4
    <3> QED BY <1>1, <1>4, <2>2, <3>1, <3>2, StillKeeps DEF Still
  <2>4. CASE p = q
    <3>1. j \in UploadingTo(p)
      BY <1>2, <2>4 DEF UploadingTo
    <3>2. /\ Posting(p) = {} /\ RenamingOn(p) = {} /\ Inserting(p) = {}
          /\ \A d \in Clients : Mail(d, p) = {}
          /\ UploadingTo(p)' = {}
      BY <1>1, <2>2, <3>1 DEF PathInv, Alone
    <3>3. /\ Replayed(p)' = e
          /\ \A d \in Clients : Mail(d, p)' = IF d = c THEN {} ELSE {e}
      <4>1. log' = log \o b
        BY <1>6 DEF Post
      <4>2. Replayed(p)' = e
        BY <1>3, <2>4, <4>1, ReplayedAfter
      <4>3. \A d \in Clients : Mail(d, p)' =
                IF d = c THEN Mail(d, p) ELSE Mail(d, p) \cup EntriesOn(b, p)
        BY <1>2, <1>6, PostMail
      <4> HIDE DEF b, c, e
      <4> QED BY <1>3, <2>4, <3>2, <4>2, <4>3
    <3> DEFINE x == [job |-> j, client |-> c, entry |-> e]
    <3>4. Inserting(p)' = {x}
      <4>1. \A i \in Ops : At(i, "insert")' /\ jobs'[i].path = p <=> i = j
        BY <2>1, <2>4, <3>2 DEF Inserting, At
      <4>2. Inserting(p)' = {[job |-> j, client |-> jobs'[j].client,
                              entry |-> File(jobs'[j].ver)]}
        BY <4>1 DEF Inserting
      <4> QED BY <2>1, <4>2
    <3>5. x.client = c /\ x.entry = e
      OBVIOUS
    <3> HIDE DEF x, c, e
    <3>6. Alone(p)'
      BY <1>4, <3>2, <3>4 DEF Alone
    <3>7. Agreed(p)'
      BY <1>4, <3>2, <3>3, <3>4, <3>5 DEF Agreed
    <3>8. \A d \in Clients : Due(d, p)'
      BY <3>3, <3>4, <3>5 DEF Due
    <3> QED BY <3>6, <3>7, <3>8 DEF PathInv
  <2> QED BY <2>3, <2>4
<1>7. \/ jobs' = Abandoned(j) /\ UNCHANGED <<log, inbox>>
      \/ Post(c, b) /\ Goto(j, "insert")
      \/ Post(c, b) /\ jobs' = Abandoned(j) /\ tainted' = tainted \cup {q}
  <2>1. WriteTx(q, e).path = q
    BY DEF WriteTx
  <2> HIDE DEF q, e
  <2> QED BY <2>1 DEF UploadTx, q, e
<1>8. tainted' = tainted \cup {q} => p # q
  OBVIOUS
<1> HIDE DEF b, c, e, q
<1>9. CASE Post(c, b) /\ Goto(j, "insert")
  BY <1>6, <1>9
<1>10. CASE Post(c, b) /\ jobs' = Abandoned(j) /\ tainted' = tainted \cup {q}
  BY <1>6, <1>8, <1>10
<1> QED BY <1>5, <1>7, <1>9, <1>10, Zenon

LEMMA UploadKeeps ==
    ASSUME TypeOK, NEW j \in Ops, Upload(j),
           NEW p \in Paths, p \in tainted \/ PathInv(p)
    PROVE  p \in tainted' \/ PathInv(p)'
<1> USE DEF fsVars, discordVars, Goto
<1>1. CASE UploadTx(j)
  BY <1>1, UploadTxKeeps
<1>2. CASE ~UploadTx(j)
  <2> SUFFICES ASSUME p \notin tainted' PROVE PathInv(p)'
    OBVIOUS
  <2>1. PathInv(p)
    BY <1>2 DEF Upload, UploadCheck, UploadMark, UploadRead, UploadData,
                UploadInsert, UploadClean, UploadDone
  <2>2. jobs[j] # None /\ jobs[j] \in Job
    BY JobTypes DEF Upload, UploadCheck, UploadMark, UploadRead, UploadData,
                    UploadTx, UploadInsert, UploadClean, UploadDone, At, TypeOK
  <2>3. ASSUME NEW pc \in {"mark", "read", "data", "tx", "dirty", "syncing"},
               NEW v \in Versions,
               \/ jobs' = [jobs EXCEPT ![j].pc = pc]
               \/ jobs' = [jobs EXCEPT ![j].ver = v, ![j].pc = pc]
        PROVE  /\ \A i \in Ops : i # j => jobs'[i] = jobs[i]
               /\ jobs'[j].path = jobs[j].path /\ jobs'[j].pc = pc
    <3>1. /\ \A i \in Ops : i # j => jobs'[i] = jobs[i]
          /\ \/ jobs'[j] = [jobs[j] EXCEPT !.pc = pc]
             \/ jobs'[j] = [jobs[j] EXCEPT !.ver = v, !.pc = pc]
      BY <2>3 DEF TypeOK
    <3> QED BY <2>2, <3>1 DEF Job
  <2>4. jobs' = [jobs EXCEPT ![j] = None] =>
            jobs'[j] = None /\ \A i \in Ops : i # j => jobs'[i] = jobs[i]
    BY DEF TypeOK
  <2>5. 0 \in Versions
    BY VersionTypes
  <2>6. CASE UploadCheck(j) \/ UploadMark(j) \/ UploadDone(j) \/ UploadClean(j)
    BY <2>1, <2>2, <2>3, <2>4, <2>5, <2>6, UploadMoves
    DEF UploadCheck, UploadMark, UploadClean, UploadDone, At
  <2>7. CASE UploadRead(j)
    <3>1. PICK w \in Versions, next \in {"data", "tx"} :
            jobs' = [jobs EXCEPT ![j].ver = w, ![j].pc = next]
      BY <2>7, GatheredJob
    <3>3. /\ \A i \in Ops : i # j => jobs'[i] = jobs[i]
          /\ jobs'[j].path = jobs[j].path /\ jobs'[j].pc = next
      BY <2>3, <3>1
    <3> QED BY <2>1, <2>2, <2>7, <3>3, UploadMoves DEF UploadRead, At
  <2>8. CASE UploadData(j)
    <3>1. PICK pc \in {"tx", "dirty"} : jobs' = [jobs EXCEPT ![j].pc = pc]
      BY <2>8 DEF UploadData, Abandoned
    <3>2. /\ \A i \in Ops : i # j => jobs'[i] = jobs[i]
          /\ jobs'[j].path = jobs[j].path /\ jobs'[j].pc = pc
      BY <2>3, <2>5, <3>1
    <3> QED BY <2>1, <2>2, <2>8, <3>2, UploadMoves DEF UploadData, At
  <2>9. CASE UploadInsert(j)
    <3> DEFINE c == jobs[j].client
               e == File(jobs[j].ver)
               x == [job |-> j, client |-> c, entry |-> e]
    <3>1. /\ \A i \in Ops : i # j => jobs'[i] = jobs[i]
          /\ jobs'[j].pc = "dirty" /\ jobs[j].pc = "insert"
      BY <2>3, <2>5, <2>9 DEF UploadInsert, At
    <3>2. /\ UploadingTo(p)' \subseteq UploadingTo(p)
          /\ Inserting(p)' = {y \in Inserting(p) : y.job # j}
      <4>1. UploadingTo(p)' \subseteq UploadingTo(p)
        BY <3>1 DEF UploadingTo
      <4>2. \A i \in Ops : At(i, "insert")' <=> At(i, "insert") /\ i # j
        BY <3>1 DEF At
      <4>3. ASSUME NEW y
            PROVE  y \in Inserting(p)' <=> y \in Inserting(p) /\ y.job # j
        <5>1. y \in Inserting(p)' <=>
                \E i \in Ops : /\ At(i, "insert") /\ i # j /\ jobs[i].path = p
                               /\ y = [job |-> i, client |-> jobs[i].client,
                                       entry |-> File(jobs[i].ver)]
          BY <3>1, <4>2 DEF Inserting
        <5>2. y \in Inserting(p) <=>
                \E i \in Ops : /\ At(i, "insert") /\ jobs[i].path = p
                               /\ y = [job |-> i, client |-> jobs[i].client,
                                       entry |-> File(jobs[i].ver)]
          BY DEF Inserting
        <5>3. \A i : [job |-> i, client |-> jobs[i].client,
                      entry |-> File(jobs[i].ver)].job = i
          OBVIOUS
        <5> QED BY <5>1, <5>2, <5>3
      <4> QED BY <4>1, <4>3
    <3>3. /\ Posting(p)' = Posting(p) /\ RenamingOn(p)' = RenamingOn(p)
          /\ Replayed(p)' = Replayed(p) /\ \A d : Mail(d, p)' = Mail(d, p)
      BY <2>9, SamePieces DEF UploadInsert
    <3>4. \A d \in Clients : db'[d][p] =
            IF d = c /\ p = jobs[j].path THEN e ELSE db[d][p]
      <4>1. c \in Clients /\ jobs[j].path \in Paths
        BY <2>2 DEF Job
      <4> QED BY <2>9, <4>1 DEF UploadInsert, TypeOK
    <3>5. CASE p # jobs[j].path
      <4>1. \A y \in Inserting(p) : y.job # j
        BY <3>5 DEF Inserting
      <4> QED BY <2>1, <3>2, <3>3, <3>4, <3>5, <4>1, StillKeeps DEF Still
    <3>6. CASE p = jobs[j].path
      <4>1. x \in Inserting(p)
        BY <2>2, <3>1, <3>6 DEF Inserting, At
      <4>2. /\ e = Replayed(p) /\ Posting(p) = {} /\ RenamingOn(p) = {}
            /\ Inserting(p)' = {}
        BY <2>1, <3>2, <4>1 DEF PathInv, Alone, Agreed
      <4> HIDE DEF x, c, e
      <4>3. Alone(p)'
        BY <2>1, <3>2, <3>3, <4>2 DEF PathInv, Alone
      <4>4. Agreed(p)'
        BY <2>1, <3>3, <4>2 DEF PathInv, Agreed
      <4>5. \A d \in Clients : Due(d, p)'
        <5> SUFFICES ASSUME NEW d \in Clients, d # c PROVE Due(d, p)'
          BY <3>3, <3>4, <3>6, <4>2 DEF Due
        <5>1. \A y \in Inserting(p) : y.client = c
          BY <2>1, <4>1 DEF PathInv, Alone, x
        <5> QED BY <2>1, <3>3, <3>4, <4>2, <5>1 DEF PathInv, Due
      <4> QED BY <4>3, <4>4, <4>5 DEF PathInv
    <3> QED BY <3>5, <3>6
  <2> QED BY <1>2, <2>6, <2>7, <2>8, <2>9 DEF Upload
<1> QED BY <1>1, <1>2

(* Goroutines that post are told apart by the callback that started them.  *)
LEMMA NextSendIds == TypeOK /\ SendIds /\ [Next]_vars => SendIds'
<1> SUFFICES ASSUME TypeOK, SendIds, [Next]_vars PROVE SendIds'
  OBVIOUS
<1> USE DEF fsVars, goVars, discordVars
<1>1. CASE sending' \subseteq sending /\ (ops' = ops \/ ops' = ops + 1)
  BY <1>1 DEF SendIds, TypeOK, Send, Ops
<1>2. ASSUME NEW c, NEW msgs, Spawn(c, msgs), ops' = ops + 1 PROVE SendIds'
  BY <1>2 DEF Spawn, SendIds, TypeOK, Send, Ops
<1>3. CASE Callbacks
  <2> SUFFICES ASSUME NEW c \in Clients, NEW p \in Paths,
                    \/ Mknod(c, p) \/ Mkdir(c, p) \/ Open(c, p) \/ Unlink(c, p)
                    \/ Rmdir(c, p) \/ Write(c, p) \/ Truncate(c, p)
                    \/ Release(c, p)
                    \/ \E q \in Paths : RenameInMemory(c, p, q) \/ Rename(c, p, q)
               PROVE  SendIds'
    BY <1>3 DEF Callbacks
  <2>1. ops' = ops + 1
    BY DEF Mknod, Mkdir, Open, Unlink, Rmdir, Write, Truncate, Release,
           RenameInMemory, Rename, Callback
  <2>2. UNCHANGED sending \/ \E msgs : Spawn(c, msgs)
    BY DEF Mknod, Mkdir, Open, Unlink, Rmdir, Write, Truncate, Release,
           RenameInMemory, Rename, SendSmall
  <2> QED BY <1>1, <1>2, <2>1, <2>2
<1>4. ASSUME NEW s \in sending, SendTx(s) PROVE SendIds'
  <2>1. ops' = ops /\ sending' = (sending \ {s}) \cup Unsent(s)
    BY <1>4 DEF SendTx
  <2>2. \A t \in Unsent(s) : t.id = s.id /\ t = [s EXCEPT !.msgs = Tail(@)]
    BY DEF Unsent, TypeOK, Send
  <2> QED BY <2>1, <2>2 DEF SendIds
<1>5. CASE \E r \in renaming : RenameCommit(r)
  BY <1>1, <1>5 DEF RenameCommit
<1>6. CASE \E j \in Ops : Upload(j)
  BY <1>1, <1>6 DEF Upload, UploadCheck, UploadMark, UploadRead, UploadData,
                    UploadTx, UploadInsert, UploadClean, UploadDone
<1>7. CASE \E c \in Clients : \E m \in inbox[c] : Handle(c, m)
  BY <1>1, <1>7 DEF Handle, ApplyLiveTx, ApplyDelete, SkipBatch
<1>8. CASE \E c \in Clients : Restart(c)
  BY <1>1, <1>8 DEF Restart
<1>9. CASE UNCHANGED vars
  BY <1>1, <1>9 DEF vars
<1>10. CASE \E j \in Ops : UploadTears(j)
  BY <1>1, <1>10 DEF UploadTears
<1> QED BY <1>3, <1>4, <1>5, <1>6, <1>7, <1>8, <1>9, <1>10
        DEF Next, Background

LEMMA InitDivergence == Init => DivergenceInv
<1> SUFFICES ASSUME Init, NEW p \in Paths PROVE SendIds /\ PathInv(p)
  BY DEF DivergenceInv, SendIds, Init
<1>1. SendIds
  BY DEF Init, SendIds
<1>2. Posting(p) = {} /\ RenamingOn(p) = {}
  BY DEF Init, Posting, RenamingOn
<1>3. UploadingTo(p) = {} /\ Inserting(p) = {}
  BY DEF Init, UploadingTo, Inserting, At
<1>4. \A c \in Clients : Mail(c, p) = {}
  BY DEF Init, Mail
<1>5. \A c \in Clients : db[c][p] = Replayed(p)
  BY DEF Init
<1>6. Alone(p)
  BY <1>2, <1>3 DEF Alone
<1>7. Agreed(p)
  BY <1>2, <1>3, <1>4 DEF Agreed
<1>8. \A c \in Clients : Due(c, p)
  BY <1>5 DEF Due
<1> QED BY <1>1, <1>6, <1>7, <1>8 DEF PathInv

LEMMA NextDivergence ==
    TypeOK /\ FlagInv /\ DivergenceInv /\ [Next]_vars => DivergenceInv'
<1> SUFFICES ASSUME TypeOK, FlagInv, DivergenceInv, [Next]_vars,
                    NEW p \in Paths
             PROVE  SendIds' /\ (p \in tainted' \/ PathInv(p)')
  BY DsfsConstants DEF DivergenceInv
<1>0. JobsPast /\ SendIds /\ (p \in tainted \/ PathInv(p))
  BY DEF FlagInv, DivergenceInv
<1>1. SendIds'
  BY <1>0, NextSendIds
<1>2. CASE Callbacks
  BY <1>0, <1>1, <1>2, CallbacksDivergence
<1>3. CASE \E s \in sending : SendTx(s)
  BY <1>0, <1>1, <1>3, SendKeeps
<1>4. ASSUME NEW r \in renaming, RenameCommit(r)
      PROVE  p \in tainted' \/ PathInv(p)'
  <2>1. tainted' = tainted
    BY <1>4 DEF RenameCommit
  <2> QED BY <1>0, <1>4, <2>1, CommitKeeps
<1>5. CASE \E j \in Ops : Upload(j)
  BY <1>0, <1>1, <1>5, UploadKeeps
<1>6. CASE \E c \in Clients : \E m \in inbox[c] : Handle(c, m)
  BY <1>0, <1>1, <1>6, HandleKeeps
<1>7. ASSUME NEW c \in Clients, Restart(c)
      PROVE  p \in tainted' \/ PathInv(p)'
  <2>1. tainted' = tainted
    BY <1>7 DEF Restart
  <2> QED BY <1>0, <1>7, <2>1, RestartKeeps
<1>8. CASE UNCHANGED vars
  <2>1. UNCHANGED <<db, sending, renaming, jobs, inbox, log, tainted>>
    BY <1>8 DEF vars
  <2> QED BY <1>0, <1>1, <2>1, SilentStep, StillKeeps
<1>9. ASSUME NEW j \in Ops, UploadTears(j)
      PROVE  p \in tainted' \/ PathInv(p)'
  <2>1. /\ UNCHANGED <<db, sending, renaming, log, inbox, tainted>>
        /\ jobs[j] # None /\ jobs[j].pc = "data" /\ jobs'[j].pc = "data"
        /\ jobs'[j].path = jobs[j].path
        /\ \A i \in Ops : i # j => jobs'[i] = jobs[i]
    BY <1>9, TearsChanges DEF fsVars, discordVars
  <2> QED BY <1>0, <2>1, UploadMoves
<1> QED BY <1>1, <1>2, <1>3, <1>4, <1>5, <1>6, <1>7, <1>8, <1>9
        DEF Next, Background

(* A client's database differs from the replayed log only where something  *)
(* is on its way, an update overlapped another, or one was lost.           *)
THEOREM DsfsDivergenceOnlyByRace == Spec => []DivergenceOnlyByRace
<1>1. Init => OpenPast /\ OpenInjective
  BY DEF Init, OpenPast, OpenInjective
<1>2. TypeOK /\ DivergenceInv => DivergenceOnlyByRace
  <2> SUFFICES ASSUME TypeOK, DivergenceInv, NEW p \in Paths, p \notin tainted,
                      ~Unsettled(p), NEW c \in Clients
               PROVE  db[c][p] = Replayed(p)
    BY DEF DivergenceOnlyByRace
  <2>1. Due(c, p)
    BY DEF DivergenceInv, PathInv
  <2> QED BY <2>1, SettledMeans DEF Due
<1> QED BY <1>1, <1>2, InitType, NextType, NextInjective, InitFlag, NextFlag,
           InitDivergence, NextDivergence, PTL DEF Spec

-----------------------------------------------------------------------------
(* Readdir.                                                                *)

(* The root is a folder of the database and nothing else.                  *)
RootClosed == \A c \in Clients : open[c][Root] = None

LEMMA NextRootClosed == TypeOK /\ RootClosed /\ [Next]_vars => RootClosed'
<1> SUFFICES ASSUME TypeOK, RootClosed, [Next]_vars PROVE RootClosed'
  OBVIOUS
<1> USE DEF fsVars
<1>1. CASE UNCHANGED open
  BY <1>1 DEF RootClosed
<1>2. ASSUME NEW c \in Clients, NEW p \in Paths, NEW x,
             open' = [open EXCEPT ![c][p] = x], p = Root => x = None
      PROVE  RootClosed'
  BY <1>2, DsfsConstants DEF RootClosed, TypeOK
<1>3. ASSUME NEW c \in Clients, NEW p \in Paths, NEW q \in Paths, q # Root,
             open' = MoveOpen(c, p, q)
      PROVE  RootClosed'
  BY <1>3, DsfsConstants DEF RootClosed, TypeOK, MoveOpen
<1>4. ASSUME NEW c \in Clients, NEW p \in Paths,
                    \/ Mknod(c, p) \/ Mkdir(c, p) \/ Open(c, p) \/ Unlink(c, p)
                    \/ Rmdir(c, p) \/ Write(c, p) \/ Truncate(c, p)
                    \/ Release(c, p)
                    \/ \E q \in Paths : RenameInMemory(c, p, q) \/ Rename(c, p, q)
      PROVE  RootClosed'
  <2>1. p # Root
    BY <1>4 DEF Mknod, Mkdir, Open, Unlink, Rmdir, Write, Truncate, Release,
                RenameInMemory, Rename, Callback
  <2>2. CASE Mknod(c, p) \/ Open(c, p) \/ Unlink(c, p)
    BY <1>2, <2>1, <2>2 DEF Mknod, Open, Unlink
  <2>3. CASE Mkdir(c, p) \/ Rmdir(c, p) \/ Write(c, p) \/ Truncate(c, p)
             \/ Release(c, p)
    BY <1>1, <2>3 DEF Mkdir, Rmdir, Write, Truncate, Release
  <2>4. ASSUME NEW q \in Paths, RenameInMemory(c, p, q) \/ Rename(c, p, q)
        PROVE  RootClosed'
    BY <1>1, <1>3, <2>4 DEF RenameInMemory, Rename, MayRename
  <2> QED BY <1>4, <2>2, <2>3, <2>4
<1>5. CASE Callbacks
  BY <1>4, <1>5 DEF Callbacks
<1>6. ASSUME NEW c \in Clients, NEW m \in inbox[c], Handle(c, m)
      PROVE  RootClosed'
  <2>1. Head(m.txs).path \in Paths
    BY MessageTypes, EntryTypes
  <2> QED BY <1>1, <1>2, <1>6, <2>1
          DEF Handle, ApplyLiveTx, ApplyDelete, SkipBatch
<1>7. ASSUME NEW c \in Clients, Restart(c) PROVE RootClosed'
  BY <1>7, DsfsConstants DEF Restart, RootClosed, TypeOK
<1>8. CASE \/ \E s \in sending : SendTx(s)
           \/ \E r \in renaming : RenameCommit(r)
           \/ \E j \in Ops : Upload(j) \/ UploadTears(j)
           \/ UNCHANGED vars
  BY <1>1, <1>8 DEF SendTx, RenameCommit, Upload, UploadCheck, UploadMark,
        UploadRead, UploadTears, UploadData, UploadTx, UploadInsert,
        UploadClean, UploadDone, vars
<1> QED BY <1>5, <1>6, <1>7, <1>8 DEF Next, Background

(* What Readdir lists is what Getattr finds: names sorted by where the     *)
(* entry is kept.                                                          *)
LEMMA ListingExact ==
    ASSUME TypeOK, RootClosed, NEW c \in Clients, NEW d \in Paths
    PROVE  LET found == {p \in Paths \ {Root} : Parent[p] = d /\ Exists(c, p)}
           IN  Listing(c, d) = {<<p, IF open[c][p] = None THEN "db" ELSE "open">> :
                                    p \in found}
<1> DEFINE found == {p \in Paths \ {Root} : Parent[p] = d /\ Exists(c, p)}
           place(p) == IF open[c][p] = None THEN "db" ELSE "open"
<1>1. ASSUME NEW p \in Paths, Parent[p] = d
      PROVE  /\ p # Root => p \in StartsWith[d] \ {d}
             /\ p = Root => p = d
  BY <1>1, DsfsConstants
<1>2. open[c][Root] = None
  BY DEF RootClosed
<1>3. ASSUME NEW l \in Listing(c, d)
      PROVE  \E p \in found : l = <<p, place(p)>>
  <2>1. CASE \E p \in StartsWith[d] \ {d} :
                /\ db[c][p] # None /\ open[c][p] = None /\ Parent[p] = d
                /\ l = <<p, "db">>
    BY <1>1, <2>1, DsfsConstants DEF Exists
  <2>2. CASE \E p \in Paths : /\ open[c][p] # None /\ Parent[p] = d
                              /\ l = <<p, "open">>
    BY <1>2, <2>2 DEF Exists
  <2> QED BY <2>1, <2>2 DEF Listing
<1>4. ASSUME NEW p \in found PROVE <<p, place(p)>> \in Listing(c, d)
  BY <1>1 DEF Listing, Exists
<1> QED BY <1>3, <1>4

(* ls shows each name that stat finds, once, and no other.                 *)
THEOREM DsfsReaddirAgrees == Spec => []ReaddirAgreesWithGetattr
<1>1. Init => RootClosed
  BY DsfsConstants DEF Init, RootClosed
<1>2. TypeOK /\ RootClosed => ReaddirAgreesWithGetattr
  <2> SUFFICES ASSUME TypeOK, RootClosed, NEW c \in Clients, NEW d \in Paths
               PROVE  LET listing == Listing(c, d)
                          names == {l[1] : l \in listing}
                      IN /\ names = {p \in Paths \ {Root} :
                                        Parent[p] = d /\ Exists(c, p)}
                         /\ Cardinality(listing) = Cardinality(names)
    BY DEF ReaddirAgreesWithGetattr
  <2> DEFINE found == {p \in Paths \ {Root} : Parent[p] = d /\ Exists(c, p)}
             at(p) == <<p, IF open[c][p] = None THEN "db" ELSE "open">>
             f == [p \in found |-> at(p)]
  <2>1. Listing(c, d) = {at(p) : p \in found}
    BY ListingExact
  <2>2. {l[1] : l \in Listing(c, d)} = found
    <3>1. \A p : at(p)[1] = p
      OBVIOUS
    <3> HIDE DEF at, found
    <3> QED BY <2>1, <3>1
  <2>3. f \in Bijection(found, Listing(c, d))
    <3>1. \A p, q : at(p) = at(q) => p = q
      OBVIOUS
    <3> HIDE DEF at, found
    <3>2. f \in [found -> Listing(c, d)]
      BY <2>1
    <3> QED BY <2>1, <3>1, <3>2 DEF Bijection, Injection, Surjection, IsInjective
  <2>4. IsFiniteSet(found)
    BY DsfsConstants, FS_Subset
  <2>5. Cardinality(Listing(c, d)) = Cardinality(found)
    <3> HIDE DEF found, f
    <3> QED BY <2>3, <2>4, FS_Bijection DEF ExistsBijection
  <2> QED BY <2>2, <2>5
<1> QED BY <1>1, <1>2, InitType, NextType, NextRootClosed, PTL DEF Spec

-----------------------------------------------------------------------------
(* A client that is alone.                                                 *)

OneClient == \E c : Clients = {c}

(* No other client's message is on its way to it; what it has open is no   *)
(* folder, before and after a rename; and renames are of different paths,  *)
(* the old ones of which are not open any more.                            *)
NoMail == \A c \in Clients : inbox[c] = {}
OpenRegular ==
    \A c \in Clients, p \in Paths :
        open[c][p] # None /\ db[c][p] # None => db[c][p].type = "file"
RenamesApart ==
    \A r \in renaming :
        /\ r.old # r.new
        /\ open[r.client][r.old] = None
        /\ r.entry.type = "folder" => open[r.client][r.new] = None
        /\ \A s \in renaming : s # r => {r.old, r.new} \cap {s.old, s.new} = {}
SoleInv == OneClient /\ NoMail /\ OpenRegular /\ RenamesApart

(* What a step may open or insert, and which renames may be left over.     *)
LEMMA StillRegular ==
    ASSUME TypeOK, OpenRegular,
           \A d \in Clients, p \in Paths :
                open'[d][p] # None /\ db'[d][p] # None =>
                    \/ open[d][p] # None /\ db'[d][p] = db[d][p]
                    \/ db'[d][p].type = "file"
    PROVE  OpenRegular'
BY DEF OpenRegular

LEMMA StillApart ==
    ASSUME TypeOK, RenamesApart, renaming' \subseteq renaming,
           \A r \in renaming : /\ open[r.client][r.old] = None =>
                                    open'[r.client][r.old] = None
                               /\ open[r.client][r.new] = None =>
                                    open'[r.client][r.new] = None
    PROVE  RenamesApart'
BY DEF RenamesApart

(* A callback touches nothing that a rename under way has to do with.      *)
LEMMA CallbackApart ==
    ASSUME TypeOK, NEW c, Clients = {c}, NEW p \in Paths, TreeFree(c, p)
    PROVE  \A r \in renaming : r.client = c /\ r.old # p /\ r.new # p
<1>1. \A r \in renaming : r.client = c
  BY DEF TypeOK, Renaming
<1> QED BY <1>1 DEF TreeFree, Related

LEMMA MovedOpen ==
    ASSUME TypeOK, NEW c \in Clients, NEW p \in Paths, NEW q \in Paths, p # q,
           open' = MoveOpen(c, p, q)
    PROVE  /\ open[c][p] = None => open' = open
           /\ open[c][p] # None => /\ open'[c][q] = open[c][p]
                                   /\ open'[c][p] = None
           /\ \A z \in Paths \ {p, q} : open'[c][z] = open[c][z]
BY DEF MoveOpen, TypeOK

LEMMA RenameSole ==
    ASSUME TypeOK, NEW c, Clients = {c}, SoleInv, NEW p \in Paths,
           NEW q \in Paths, RenameInMemory(c, p, q) \/ Rename(c, p, q)
    PROVE  OpenRegular' /\ RenamesApart'
<1> USE DEF goVars
<1>1. /\ c \in Clients /\ p # q /\ TreeFree(c, p) /\ TreeFree(c, q)
      /\ OpenRegular /\ RenamesApart /\ UNCHANGED db
  BY DEF RenameInMemory, Rename, Callback, MayRename, SoleInv
<1>2. \A r \in renaming : /\ r.client = c
                          /\ r.old \notin {p, q} /\ r.new \notin {p, q}
  BY <1>1, CallbackApart
<1>3. /\ open[c][p] # None => db[c][p] = None \/ db[c][p].type = "file"
      /\ open[c][q] # None => db[c][q] = None \/ db[c][q].type = "file"
  BY <1>1 DEF OpenRegular
<1>4. db[c][p] # None => db[c][p] \in Entry
  BY <1>1 DEF TypeOK
<1>5. CASE UNCHANGED <<open, renaming>>
  BY <1>1, <1>5, StillRegular, StillApart
<1>6. CASE open' = MoveOpen(c, p, q) /\ open[c][p] # None
  <2>1. /\ open'[c][q] # None /\ open'[c][p] = None
        /\ \A z \in Paths \ {p, q} : open'[c][z] = open[c][z]
    BY <1>1, <1>6, MovedOpen
  <2>2. db[c][q] = None \/ db[c][q].type = "file"
    <3>1. IsRegular(c, p)
      BY <1>6 DEF IsRegular
    <3>2. Exists(c, q) => IsRegular(c, q)
      BY <3>1 DEF RenameInMemory, Rename, MayRename, IsFolder
    <3> QED BY <1>3, <3>2 DEF Exists, IsRegular
  <2>3. OpenRegular'
    BY <1>1, <2>1, <2>2, StillRegular
  <2>4. \A r \in renaming : r.old \in Paths /\ r.new \in Paths
    BY DEF TypeOK, Renaming
  <2>5. CASE UNCHANGED renaming
    BY <1>1, <1>2, <2>1, <2>3, <2>4, <2>5, StillApart
  <2>6. ASSUME NEW n, renaming' = renaming \cup
                    {[client |-> c, id |-> n, old |-> p, new |-> q,
                      entry |-> db[c][p]]},
               db[c][p] # None
        PROVE  RenamesApart'
    <3>1. db[c][p].type = "file"
      BY <1>3, <1>6, <2>6
    <3> QED BY <1>1, <1>2, <2>1, <2>4, <2>6, <3>1 DEF RenamesApart
  <2> QED BY <2>3, <2>5, <2>6 DEF RenameInMemory, Rename
<1>7. ASSUME NEW n, UNCHANGED open, renaming' = renaming \cup
                    {[client |-> c, id |-> n, old |-> p, new |-> q,
                      entry |-> db[c][p]]},
             open[c][p] = None, db[c][p].type = "folder" => open[c][q] = None
      PROVE  OpenRegular' /\ RenamesApart'
  <2>1. OpenRegular'
    BY <1>1, <1>7, StillRegular
  <2>2. RenamesApart'
    BY <1>1, <1>2, <1>7 DEF RenamesApart
  <2> QED BY <2>1, <2>2
<1>8. CASE RenameInMemory(c, p, q)
  <2>1. open[c][p] = None => UNCHANGED open
    BY <1>1, <1>8, MovedOpen DEF RenameInMemory
  <2> QED BY <1>5, <1>6, <1>8, <2>1 DEF RenameInMemory
<1>9. CASE Rename(c, p, q)
  <2>1. db[c][p] # None
    BY <1>9 DEF Rename
  <2>2. CASE open' = MoveOpen(c, p, q) /\ open[c][p] # None
    BY <1>6, <2>2
  <2>3. CASE UNCHANGED open /\ open[c][p] = None
    <3>1. db[c][p].type = "folder" => open[c][q] = None
      <4> SUFFICES ASSUME db[c][p].type = "folder", open[c][q] # None
                   PROVE  FALSE
        OBVIOUS
      <4>1. IsFolder(c, p)
        BY <2>1, <2>3 DEF IsFolder, Exists, IsRegular
      <4>2. Exists(c, q) /\ ~IsFolder(c, q)
        BY DEF Exists, IsFolder, IsRegular
      <4> QED BY <1>9, <4>1, <4>2 DEF Rename, MayRename
    <3>2. \/ UNCHANGED renaming
          \/ renaming' = renaming \cup
                    {[client |-> c, id |-> ops', old |-> p, new |-> q,
                      entry |-> db[c][p]]}
      BY <1>9 DEF Rename
    <3> QED BY <1>5, <1>7, <2>3, <3>1, <3>2
  <2>4. \/ open' = MoveOpen(c, p, q)
        \/ UNCHANGED open /\ open[c][p] = None
    <3>1. db[c][p].type = "folder" => open[c][p] = None
      BY <1>3, <2>1
    <3> QED BY <1>9, <3>1 DEF Rename
  <2>5. open' = MoveOpen(c, p, q) /\ open[c][p] = None => UNCHANGED open
    BY <1>1, MovedOpen
  <2> QED BY <2>2, <2>3, <2>4, <2>5
<1> QED BY <1>8, <1>9

LEMMA NextSole == TypeOK /\ SoleInv /\ [Next]_vars => SoleInv'
<1> SUFFICES ASSUME TypeOK, SoleInv, [Next]_vars PROVE SoleInv'
  OBVIOUS
<1> USE DEF fsVars, goVars, discordVars
<1>1. PICK c : Clients = {c}
  BY DEF SoleInv, OneClient
<1>2. OneClient'
  BY <1>1 DEF OneClient
<1>3. NoMail /\ OpenRegular /\ RenamesApart /\ inbox[c] = {}
  BY <1>1 DEF SoleInv, NoMail
<1>4. CASE Callbacks
  <2>2. PICK p \in Paths :
                    \/ Mknod(c, p) \/ Mkdir(c, p) \/ Open(c, p) \/ Unlink(c, p)
                    \/ Rmdir(c, p) \/ Write(c, p) \/ Truncate(c, p)
                    \/ Release(c, p)
                    \/ \E q \in Paths : RenameInMemory(c, p, q) \/ Rename(c, p, q)
    BY <1>1, <1>4 DEF Callbacks
  <2>3. \A r \in renaming : r.client = c /\ r.old # p /\ r.new # p
    <3>1. TreeFree(c, p)
      BY <2>2 DEF Mknod, Mkdir, Open, Unlink, Rmdir, Write, Truncate, Release,
                  RenameInMemory, Rename, Callback
    <3> QED BY <1>1, <3>1, CallbackApart
  <2>4. ASSUME NEW q \in Paths, RenameInMemory(c, p, q) \/ Rename(c, p, q)
        PROVE  OpenRegular' /\ RenamesApart'
    BY <1>1, <2>4, RenameSole
  <2>5. ASSUME \/ Mknod(c, p) \/ Mkdir(c, p) \/ Open(c, p) \/ Unlink(c, p)
               \/ Rmdir(c, p) \/ Write(c, p) \/ Truncate(c, p) \/ Release(c, p)
        PROVE  /\ renaming' = renaming
               /\ \A d \in Clients, z \in Paths \ {p} : open'[d][z] = open[d][z]
               /\ \A d \in Clients, z \in Paths \ {p} : db'[d][z] = db[d][z]
               /\ open'[c][p] # None =>
                    \/ open[c][p] # None /\ db'[c][p] = db[c][p]
                    \/ db'[c][p] = None \/ db'[c][p].type = "file"
    <3>1. CASE Mknod(c, p)
      BY <1>1, <3>1 DEF Mknod, TypeOK
    <3>2. CASE Mkdir(c, p)
      BY <1>1, <3>2 DEF Mkdir, TypeOK
    <3>3. CASE Open(c, p)
      BY <1>1, <3>3 DEF Open, TypeOK
    <3>4. CASE Unlink(c, p)
      BY <1>1, <3>4 DEF Unlink, TypeOK
    <3>5. CASE Rmdir(c, p)
      BY <1>1, <3>5 DEF Rmdir, IsFolder, IsRegular, TypeOK
    <3>6. CASE Write(c, p) \/ Truncate(c, p) \/ Release(c, p)
      BY <1>1, <3>6 DEF Write, Truncate, Release
    <3> QED BY <2>5, <3>1, <3>2, <3>3, <3>4, <3>5, <3>6
  <2>6. ASSUME \/ Mknod(c, p) \/ Mkdir(c, p) \/ Open(c, p) \/ Unlink(c, p)
               \/ Rmdir(c, p) \/ Write(c, p) \/ Truncate(c, p) \/ Release(c, p)
        PROVE  OpenRegular' /\ RenamesApart'
    <3>1. OpenRegular'
      BY <1>1, <1>3, <2>5, <2>6, StillRegular
    <3>2. \A r \in renaming : r.old \in Paths \ {p} /\ r.new \in Paths \ {p}
      BY <2>3 DEF TypeOK, Renaming
    <3>3. \A r \in renaming : /\ open'[r.client][r.old] = open[r.client][r.old]
                              /\ open'[r.client][r.new] = open[r.client][r.new]
      BY <1>1, <2>3, <2>5, <2>6, <3>2
    <3> QED BY <1>3, <2>5, <2>6, <3>1, <3>3, StillApart
  <2>7. NoMail'
    <3>1. UNCHANGED inbox
      BY <2>2 DEF Mknod, Mkdir, Open, Unlink, Rmdir, Write, Truncate, Release,
                  RenameInMemory, Rename
    <3> QED BY <1>3, <3>1 DEF NoMail
  <2> QED BY <1>2, <2>2, <2>4, <2>6, <2>7 DEF SoleInv
<1>5. ASSUME NEW d \in Clients, NEW b, Post(d, b) PROVE NoMail'
  BY <1>1, <1>3, <1>5 DEF Post, NoMail
<1>6. ASSUME NEW s \in sending, SendTx(s) PROVE SoleInv'
  <2>1. NoMail'
    BY <1>3, <1>5, <1>6, SendTypes DEF SendTx, NoMail
  <2>2. UNCHANGED <<db, open, renaming>>
    BY <1>6 DEF SendTx
  <2> QED BY <1>2, <1>3, <2>1, <2>2, StillRegular, StillApart DEF SoleInv
<1>7. ASSUME NEW r \in renaming, RenameCommit(r) PROVE SoleInv'
  <2>1. NoMail' /\ UNCHANGED open /\ renaming' \subseteq renaming
    BY <1>3, <1>7 DEF RenameCommit, NoMail
  <2>2. /\ r.client = c /\ r.old \in Paths /\ r.new \in Paths
        /\ r.entry \in Entry
    BY <1>1 DEF TypeOK, Renaming
  <2>3. /\ r.old # r.new /\ open[c][r.old] = None
        /\ r.entry.type = "folder" => open[c][r.new] = None
    BY <1>3, <2>2 DEF RenamesApart
  <2>4. \A z \in Paths : db'[c][z] = IF z = r.old THEN None
                                     ELSE IF z = r.new THEN r.entry
                                     ELSE db[c][z]
    BY <1>1, <1>7, <2>2, <2>3 DEF RenameCommit, Committed, TypeOK
  <2>5. OpenRegular'
    BY <1>1, <1>3, <2>1, <2>2, <2>3, <2>4, StillRegular DEF Entry
  <2> QED BY <1>2, <1>3, <2>1, <2>5, StillApart DEF SoleInv
<1>8. ASSUME NEW j \in Ops, Upload(j) PROVE SoleInv'
  <2>1. UNCHANGED <<open, renaming>>
    BY <1>8 DEF Upload, UploadCheck, UploadMark, UploadRead, UploadData,
                UploadTx, UploadInsert, UploadClean, UploadDone
  <2>2. NoMail'
    <3>1. CASE UploadTx(j)
      BY <1>3, <1>5, <3>1, JobTypes DEF UploadTx, NoMail
    <3> QED BY <1>3, <1>8, <3>1 DEF NoMail, Upload, UploadCheck, UploadMark,
                UploadRead, UploadData, UploadInsert, UploadClean, UploadDone
  <2>3. \A d \in Clients, z \in Paths :
            db'[d][z] = db[d][z] \/ db'[d][z].type = "file"
    <3>1. CASE UploadInsert(j)
      BY <3>1, JobTypes DEF UploadInsert, File, TypeOK
    <3> QED BY <1>8, <3>1 DEF Upload, UploadCheck, UploadMark,
                UploadRead, UploadData, UploadTx, UploadClean, UploadDone
  <2>4. OpenRegular'
    BY <1>3, <2>1, <2>3, StillRegular
  <2> QED BY <1>2, <1>3, <2>1, <2>2, <2>4, StillApart DEF SoleInv
<1>9. ASSUME NEW d \in Clients, NEW m \in inbox[d] PROVE SoleInv'
  BY <1>3, <1>9 DEF NoMail
<1>10. ASSUME NEW d \in Clients, Restart(d) PROVE SoleInv'
  <2>1. d = c /\ renaming' \subseteq renaming /\ inbox' = [inbox EXCEPT ![c] = {}]
    BY <1>1, <1>10 DEF Restart
  <2>2. \A z \in Paths : open'[c][z] = None
    BY <1>10, <2>1 DEF Restart, TypeOK
  <2>3. NoMail'
    BY <1>1, <2>1 DEF NoMail, TypeOK
  <2>4. \A r \in renaming : r.client = c /\ r.old \in Paths /\ r.new \in Paths
    BY <1>1 DEF TypeOK, Renaming
  <2>5. RenamesApart'
    BY <1>3, <2>1, <2>2, <2>4, StillApart
  <2>6. OpenRegular'
    BY <1>1, <2>2, <1>3, StillRegular
  <2> QED BY <1>2, <2>3, <2>5, <2>6 DEF SoleInv
<1>11. CASE UNCHANGED vars
  BY <1>2, <1>3, <1>11 DEF vars, SoleInv, NoMail, OpenRegular, RenamesApart
<1>12. CASE \E j \in Ops : UploadTears(j)
  BY <1>2, <1>3, <1>12
  DEF UploadTears, SoleInv, NoMail, OpenRegular, RenamesApart
<1> QED BY <1>4, <1>6, <1>7, <1>8, <1>9, <1>10, <1>11, <1>12
        DEF Next, Background

(* A file that none of the causes has happened to is still to be uploaded, *)
(* or its name shows it, now or once a rename has committed; and its       *)
(* uploads work under that name and carry its content.                     *)
JobsOf(f) == {j \in Ops : jobs[j] # None /\ jobs[j].file = f}
Arriving(p) == {r \in renaming : r.new = p}
Coming(c, p) == IF Arriving(p) = {} THEN {db[c][p]}
                ELSE {r.entry : r \in Arriving(p)}
Shows(c, p, v) == \A e \in Coming(c, p) : e = File(v) \/ (e = None /\ v = 0)

Carries(c, p, f, j) ==
    /\ jobs[j].path = p
    /\ jobs[j].pc \in {"data", "tx", "insert", "dirty"} =>
            jobs[j].ver = files[f].ver
    /\ jobs[j].pc = "dirty" => Shows(c, p, files[f].ver)
Kept(c, p, f) ==
    /\ files[f].dirty \/ Shows(c, p, files[f].ver)
    /\ \A j \in JobsOf(f) : Carries(c, p, f, j)
    /\ Arriving(p) # {} => JobsOf(f) = {}
KeptAt(c, p, f) == open[c][p] = f /\ f \notin unsaved => Kept(c, p, f)
KeptInv == \A c \in Clients, p \in Paths, f \in Ops : KeptAt(c, p, f)

(* What p is about to show depends on its entry and the renames onto it.   *)
LEMMA StillShows ==
    ASSUME NEW c, NEW p, db'[c][p] = db[c][p], Arriving(p)' = Arriving(p)
    PROVE  \A v : Shows(c, p, v) => Shows(c, p, v)'
<1>1. Coming(c, p)' = Coming(c, p)
  BY DEF Coming
<1> QED BY <1>1 DEF Shows

(* Steps of others, and those of its uploads that keep what they carry.    *)
LEMMA StillKept ==
    ASSUME NEW c, NEW p, NEW f, Kept(c, p, f),
           \A v : Shows(c, p, v) => Shows(c, p, v)',
           Arriving(p)' # {} => Arriving(p) # {},
           files'[f].ver = files[f].ver,
           files'[f].dirty \/ ~files[f].dirty \/ Shows(c, p, files[f].ver)',
           \A j \in Ops :
                \/ jobs'[j] = jobs[j] \/ jobs'[j] = None
                \/ jobs'[j].file # f
                \/ j \in JobsOf(f) /\ Carries(c, p, f, j)'
    PROVE  Kept(c, p, f)'
<1>1. files'[f].dirty \/ Shows(c, p, files[f].ver)'
  BY DEF Kept
<1>2. ASSUME NEW j \in JobsOf(f)' PROVE j \in JobsOf(f) /\ Carries(c, p, f, j)'
  <2>1. j \in Ops /\ jobs'[j] # None /\ jobs'[j].file = f
    BY DEF JobsOf
  <2>2. CASE jobs'[j] = jobs[j]
    <3>1. j \in JobsOf(f)
      BY <2>1, <2>2 DEF JobsOf
    <3>2. Carries(c, p, f, j)
      BY <3>1 DEF Kept
    <3> QED BY <2>2, <3>1, <3>2 DEF Carries
  <2> QED BY <2>1, <2>2
<1> QED BY <1>1, <1>2 DEF Kept

(* Nobody has read of, written to or named a file that is open only now.   *)
LEMMA NewKept ==
    ASSUME NEW c, NEW p, NEW f, Shows(c, p, files[f].ver)',
           JobsOf(f)' = {}
    PROVE  Kept(c, p, f)'
BY DEF Kept

LEMMA Uncaused ==
    ASSUME Record, NEW c \in Clients, NEW p \in Paths, NEW f \in Ops,
           open'[c][p] = f, f \notin unsaved'
    PROVE  /\ f \notin unsaved
           /\ ~OtherSize(f) /\ ~NotLoaded(f) /\ ~PositionMoved(f)
           /\ ~WrittenMeanwhile(f) /\ ~GivenUp(f) /\ ~MovedAlone(f)
           /\ ~LeftInPlace(f) /\ ~InsertedOver(f)
<1>1. f \in OpenFiles'
  BY DsfsConstants DEF OpenFiles
<1> QED BY <1>1 DEF Record

(* A path where the step changes nothing.                                  *)
LEMMA StillKeptAt ==
    ASSUME KeptInv, Record, NEW c \in Clients, NEW p \in Paths, NEW f \in Ops,
           open'[c][p] = open[c][p],
           open[c][p] = f =>
                /\ db'[c][p] = db[c][p] /\ Arriving(p)' = Arriving(p)
                /\ files'[f] = files[f]
                /\ \A j \in Ops : \/ jobs'[j] = jobs[j] \/ jobs'[j] = None
                                  \/ jobs'[j].file # f
    PROVE  KeptAt(c, p, f)'
<1> SUFFICES ASSUME open[c][p] = f, f \notin unsaved'
             PROVE  Kept(c, p, f)'
  BY DEF KeptAt
<1>1. Kept(c, p, f)
  BY Uncaused DEF KeptInv, KeptAt
<1>2. \A v : Shows(c, p, v) => Shows(c, p, v)'
  BY StillShows
<1> QED BY <1>1, <1>2, StillKept

LEMMA OpenedKept ==
    ASSUME TypeOK, OpenPast, JobsPast, KeptInv, Record,
           NEW c \in Clients, NEW q \in Paths, NEW g \in Ops,
           ops' = ops + 1, ops' = g, NEW v \in Versions,
           open' = [open EXCEPT ![c][q] = g],
           files' = [files EXCEPT ![g] = NewFile(v)],
           db[c][q] = File(v) \/ (db[c][q] = None /\ v = 0),
           UNCHANGED <<db, jobs, renaming>>, Arriving(q) = {},
           NEW p \in Paths, NEW f \in Ops
    PROVE  KeptAt(c, p, f)'
<1>1. CASE p = q
  <2>1. open'[c][p] = g /\ files'[g].ver = v
    BY <1>1 DEF TypeOK, NewFile
  <2>2. \A j \in Ops : jobs[j] # None => jobs[j].file # g
    BY DEF JobsPast, TypeOK, Ops, Job
  <2>3. JobsOf(g)' = {}
    BY <2>2 DEF JobsOf
  <2>4. Coming(c, p)' = {db[c][q]}
    BY <1>1 DEF Coming, Arriving
  <2>5. Shows(c, p, files[g].ver)'
    BY <2>1, <2>4 DEF Shows
  <2>6. Kept(c, p, g)'
    BY <2>3, <2>5, NewKept
  <2> QED BY <2>1, <2>6 DEF KeptAt
<1>2. CASE p # q
  <2>1. open'[c][p] = open[c][p]
    BY <1>2 DEF TypeOK
  <2>2. open[c][p] = f => f # g
    BY DsfsConstants DEF OpenPast, TypeOK, Ops
  <2>3. open[c][p] = f => files'[f] = files[f]
    BY <2>2 DEF TypeOK
  <2> QED BY <2>1, <2>3, StillKeptAt DEF Arriving
<1> QED BY <1>1, <1>2

LEMMA WrittenKept ==
    ASSUME TypeOK, OpenInjective, KeptInv, Record,
           NEW c \in Clients, NEW q \in Paths, NEW v \in Versions,
           open[c][q] # None, files' = Written(open[c][q], v),
           UNCHANGED <<db, open, jobs, renaming>>,
           NEW p \in Paths, NEW f \in Ops
    PROVE  KeptAt(c, p, f)'
<1>1. CASE open[c][q] = f
  <2> SUFFICES ASSUME open[c][p] = f, f \notin unsaved' PROVE Kept(c, p, f)'
    BY DEF KeptAt
  <2>1. Kept(c, p, f) /\ ~WrittenMeanwhile(f)
    BY Uncaused DEF KeptInv, KeptAt
  <2>2. files'[f].ver = v /\ files'[f].dirty
    BY <1>1 DEF Written, TypeOK, FileData
  <2>3. CASE v = files[f].ver
    <3>1. \A w : Shows(c, p, w) => Shows(c, p, w)'
      BY StillShows DEF Arriving
    <3> QED BY <2>1, <2>2, <2>3, <3>1, StillKept DEF Arriving
  <2>4. CASE v # files[f].ver
    <3>1. \A j \in JobsOf(f) : jobs[j].pc \notin {"data", "tx", "insert", "dirty"}
      BY <2>1, <2>2, <2>4 DEF WrittenMeanwhile, JobsOf
    <3>2. JobsOf(f)' = JobsOf(f) /\ Arriving(p)' = Arriving(p)
      BY DEF JobsOf, Arriving
    <3>3. \A j \in JobsOf(f)' : Carries(c, p, f, j)'
      BY <2>1, <3>1, <3>2 DEF Kept, Carries
    <3> QED BY <2>1, <2>2, <3>2, <3>3 DEF Kept
  <2> QED BY <2>3, <2>4
<1>2. CASE open[c][q] # f
  <2>1. files'[f] = files[f]
    BY <1>2 DEF Written, TypeOK
  <2> QED BY <2>1, StillKeptAt DEF Arriving
<1> QED BY <1>1, <1>2

LEMMA ReleasedKept ==
    ASSUME TypeOK, OpenInjective, JobsPast, KeptInv, Record,
           NEW c \in Clients, NEW q \in Paths, NEW n \in Ops,
           ops' = ops + 1, ops' = n, Release(c, q), Arriving(q) = {},
           NEW p \in Paths, NEW f \in Ops
    PROVE  KeptAt(c, p, f)'
<1> USE DEF fsVars
<1>1. /\ UNCHANGED <<db, open, files, renaming>> /\ jobs[n] = None
      /\ jobs'[n] # None /\ jobs'[n].file = open[c][q] /\ jobs'[n].path = q
      /\ jobs'[n].pc = "check" /\ \A j \in Ops \ {n} : jobs'[j] = jobs[j]
  <2>1. jobs[n] = None
    BY DEF JobsPast, TypeOK, Ops
  <2>2. open[c][q] \in Ops /\ db[c][q] \in Entry \cup {None}
    BY DEF Release, TypeOK
  <2>s. files[open[c][q]].ver \in Versions
    BY <2>2 DEF TypeOK, FileData
  <2>3. jobs'[n] \in Job
    BY <2>2, <2>s, EntryTypes, VersionTypes DEF Release, Job, TypeOK
  <2> QED BY <2>1, <2>3, DsfsConstants DEF Release, TypeOK
<1>2. CASE open[c][q] # f
  BY <1>1, <1>2, StillKeptAt DEF Arriving
<1>3. CASE open[c][q] = f
  <2> SUFFICES ASSUME open[c][p] = f, f \notin unsaved' PROVE Kept(c, p, f)'
    BY <1>1 DEF KeptAt
  <2>1. Kept(c, p, f)
    BY <1>1, Uncaused DEF KeptInv, KeptAt
  <2>2. p = q
    BY <1>3, DsfsConstants DEF OpenInjective
  <2>3. /\ \A v : Shows(c, p, v) => Shows(c, p, v)'
        /\ Arriving(p)' = {}
    BY <1>1, <2>2, StillShows DEF Arriving
  <2>4. ASSUME NEW j \in JobsOf(f)' PROVE Carries(c, p, f, j)'
    <3>1. CASE j = n
      BY <1>1, <2>2, <3>1 DEF Carries
    <3>2. CASE j # n
      <4>1. j \in JobsOf(f) /\ jobs'[j] = jobs[j]
        BY <1>1, <3>2 DEF JobsOf
      <4>2. Carries(c, p, f, j)
        BY <2>1, <4>1 DEF Kept
      <4> QED BY <1>1, <2>3, <4>1, <4>2 DEF Carries
    <3> QED BY <3>1, <3>2
  <2> QED BY <1>1, <2>1, <2>3, <2>4 DEF Kept
<1> QED BY <1>2, <1>3

(* A file that a rename has moved with all that there was of it.           *)
LEMMA MovedKept ==
    ASSUME TypeOK, OpenInjective, KeptInv, Record,
           NEW c \in Clients, NEW q \in Paths, NEW z \in Paths, q # z,
           open[c][q] # None, open' = MoveOpen(c, q, z),
           UNCHANGED <<db, files, jobs>>, Arriving(q) = {}, Arriving(z) = {},
           \A p \in Paths \ {z} : Arriving(p)' = Arriving(p),
           \/ UNCHANGED renaming
           \/ db[c][q] # None /\ Coming(c, z)' = {db[c][q]},
           NEW p \in Paths, NEW f \in Ops
    PROVE  KeptAt(c, p, f)'
<1>1. /\ open'[c][z] = open[c][q] /\ open'[c][q] = None
      /\ \A x \in Paths \ {q, z} : open'[c][x] = open[c][x]
  BY MovedOpen
<1>2. CASE p \notin {q, z}
  BY <1>1, <1>2, StillKeptAt
<1>3. CASE p = q
  BY <1>1, <1>3, DsfsConstants DEF KeptAt
<1>4. CASE p = z
  <2> SUFFICES ASSUME open[c][q] = f, f \notin unsaved' PROVE Kept(c, p, f)'
    BY <1>1, <1>4 DEF KeptAt
  <2>1. f \notin unsaved /\ ~MovedAlone(f)
    BY <1>1, Uncaused
  <2>2. Kept(c, q, f)
    BY <2>1 DEF KeptInv, KeptAt
  <2>3. open' # open
    BY <1>1
  <2>4. /\ Idle(f)
        /\ renaming' # renaming \/ (db[c][q] = None /\ db[c][z] = None)
    BY <1>1, <2>1, <2>3 DEF MovedAlone
  <2>5. JobsOf(f)' = {}
    BY <2>4 DEF Idle, JobsOf
  <2>6. ASSUME NEW v \in Versions, Shows(c, q, v) PROVE Shows(c, p, v)'
    <3>1. db[c][q] = File(v) \/ (db[c][q] = None /\ v = 0)
      BY <2>6 DEF Shows, Coming
    <3>2. CASE renaming' = renaming
      <4>1. Coming(c, p)' = {db[c][z]}
        BY <1>4, <3>2 DEF Coming, Arriving
      <4>2. db[c][q] = None /\ db[c][z] = None
        BY <2>4, <3>2
      <4>3. File(v) # None
        BY EntryTypes, DsfsConstants
      <4> QED BY <3>1, <4>1, <4>2, <4>3 DEF Shows
    <3>3. CASE renaming' # renaming
      <4>1. db[c][q] = File(v) /\ Coming(c, p)' = {db[c][q]}
        BY <1>4, <3>1, <3>3
      <4> QED BY <4>1 DEF Shows
    <3> QED BY <3>2, <3>3
  <2>7. files[f].ver \in Versions
    BY DEF TypeOK, FileData
  <2> QED BY <2>2, <2>5, <2>6, <2>7 DEF Kept
<1> QED BY <1>2, <1>3, <1>4

LEMMA RenamedKept ==
    ASSUME TypeOK, OpenInjective, NEW c, Clients = {c}, SoleInv, SoleInv',
           KeptInv, Record, NEW q \in Paths, NEW z \in Paths,
           RenameInMemory(c, q, z) \/ Rename(c, q, z),
           NEW p \in Paths, NEW f \in Ops
    PROVE  KeptAt(c, p, f)'
<1> USE DEF goVars
<1>1. /\ c \in Clients /\ q # z /\ UNCHANGED <<db, files, jobs>>
      /\ TreeFree(c, q) /\ TreeFree(c, z)
  BY DEF RenameInMemory, Rename, Callback, MayRename
<1>2. \A r \in renaming : /\ r.client = c /\ r.old # q /\ r.new # q
                          /\ r.old # z /\ r.new # z
  BY <1>1, CallbackApart
<1>3. Arriving(q) = {} /\ Arriving(z) = {}
  BY <1>2 DEF Arriving
<1>4. CASE UNCHANGED renaming
  <2>1. open' = open \/ open' = MoveOpen(c, q, z)
    BY DEF RenameInMemory, Rename
  <2>2. open[c][q] = None => UNCHANGED open
    BY <1>1, <2>1, MovedOpen
  <2>3. CASE UNCHANGED open
    BY <1>1, <1>4, <2>3, StillKeptAt DEF Arriving
  <2>4. \A x : Arriving(x)' = Arriving(x)
    BY <1>4 DEF Arriving
  <2> QED BY <1>1, <1>3, <1>4, <2>1, <2>2, <2>3, <2>4, MovedKept
<1>5. CASE renaming' # renaming
  <2>0. Rename(c, q, z)
    BY <1>5 DEF RenameInMemory
  <2> DEFINE r == [client |-> c, id |-> ops', old |-> q, new |-> z,
                   entry |-> db[c][q]]
  <2>1. PICK s : /\ renaming' = renaming \cup {s} /\ s.client = c
                 /\ s.old = q /\ s.new = z /\ s.entry = db[c][q]
    <3>1. renaming' = renaming \cup {r}
      BY <1>5, <2>0 DEF Rename
    <3>2. r.client = c /\ r.old = q /\ r.new = z /\ r.entry = db[c][q]
      OBVIOUS
    <3> HIDE DEF r
    <3> QED BY <3>1, <3>2
  <2>2. s \notin renaming /\ db[c][q] # None
    BY <1>2, <2>0, <2>1 DEF Rename
  <2>3. /\ Arriving(z)' = {s}
        /\ \A x \in Paths \ {z} : Arriving(x)' = Arriving(x)
    BY <1>3, <2>1 DEF Arriving
  <2>4. Coming(c, z)' = {db[c][q]}
    BY <2>1, <2>3 DEF Coming
  <2>5. \/ open' = MoveOpen(c, q, z)
        \/ UNCHANGED open /\ db[c][q].type = "folder"
    BY <2>0 DEF Rename
  <2>6. CASE open' = MoveOpen(c, q, z) /\ open[c][q] # None
    BY <1>1, <1>3, <2>2, <2>3, <2>4, <2>6, MovedKept
  <2>7. CASE UNCHANGED open
    <3>1. CASE p # z
      BY <1>1, <2>3, <2>7, <3>1, StillKeptAt
    <3>2. CASE p = z
      <4> SUFFICES ASSUME open[c][z] = f, f \notin unsaved' PROVE FALSE
        BY <2>7, <3>2 DEF KeptAt
      <4>1. open[c][q] = None
        <5>1. open'[c][q] = None
          BY <2>1 DEF SoleInv, RenamesApart
        <5> QED BY <2>7, <5>1
      <4>2. LeftInPlace(f)
        BY <2>1, <2>2, <4>1 DEF LeftInPlace
      <4>3. ~LeftInPlace(f)
        BY <1>1, <2>7, Uncaused
      <4> QED BY <4>2, <4>3
    <3> QED BY <3>1, <3>2
  <2>8. open[c][q] = None /\ open' = MoveOpen(c, q, z) => UNCHANGED open
    BY <1>1, MovedOpen
  <2> QED BY <2>5, <2>6, <2>7, <2>8
<1> QED BY <1>4, <1>5

LEMMA CommittedKept ==
    ASSUME TypeOK, NEW c, Clients = {c}, SoleInv, KeptInv, Record,
           NEW r \in renaming, RenameCommit(r),
           NEW p \in Paths, NEW f \in Ops
    PROVE  KeptAt(c, p, f)'
<1>1. /\ c \in Clients /\ UNCHANGED <<open, files, jobs>>
      /\ renaming' = renaming \ {r} /\ db' = Committed(r)
  BY DEF RenameCommit
<1>2. /\ r.client = c /\ r.old \in Paths /\ r.new \in Paths
  BY DEF TypeOK, Renaming
<1>3. /\ r.old # r.new /\ open[c][r.old] = None
      /\ \A s \in renaming : s # r => s.new # r.new
  BY <1>2 DEF SoleInv, RenamesApart
<1>4. \A z \in Paths : db'[c][z] = IF z = r.old THEN None
                                   ELSE IF z = r.new THEN r.entry
                                   ELSE db[c][z]
  BY <1>1, <1>2, <1>3 DEF Committed, TypeOK
<1> SUFFICES ASSUME open[c][p] = f, f \notin unsaved' PROVE Kept(c, p, f)'
  BY <1>1 DEF KeptAt
<1>5. Kept(c, p, f)
  BY <1>1, Uncaused DEF KeptInv, KeptAt
<1>6. p # r.old
  BY <1>3, DsfsConstants
<1>7. Coming(c, p)' = Coming(c, p) /\ Arriving(p)' \subseteq Arriving(p)
  <2>1. CASE p = r.new
    <3>1. Arriving(p) = {r} /\ Arriving(p)' = {}
      BY <1>1, <1>3, <2>1 DEF Arriving
    <3>2. Coming(c, p) = {r.entry}
      BY <3>1 DEF Coming
    <3>3. Coming(c, p)' = {r.entry}
      BY <1>3, <1>4, <2>1, <3>1 DEF Coming
    <3> QED BY <3>1, <3>2, <3>3
  <2>2. CASE p # r.new
    <3>1. Arriving(p)' = Arriving(p) /\ db'[c][p] = db[c][p]
      BY <1>1, <1>4, <1>6, <2>2 DEF Arriving
    <3> QED BY <3>1 DEF Coming
  <2> QED BY <2>1, <2>2
<1>8. \A v : Shows(c, p, v) => Shows(c, p, v)'
  BY <1>7 DEF Shows
<1> QED BY <1>1, <1>5, <1>7, <1>8, StillKept

(* An upload moves on: what its file shows and it carries stays right.     *)
LEMMA UploadMovesKept ==
    ASSUME TypeOK, KeptInv, Record, NEW c \in Clients, NEW j \in Ops,
           jobs[j] # None, UNCHANGED <<open, renaming>>,
           \A i \in Ops : i # j => jobs'[i] = jobs[i],
           NEW p \in Paths, NEW f \in Ops,
           open[c][p] = f /\ f \notin unsaved' /\ Kept(c, p, f) =>
                /\ files'[f].ver = files[f].ver
                /\ \A v : Shows(c, p, v) => Shows(c, p, v)'
                /\ \/ files'[f].dirty = files[f].dirty
                   \/ Shows(c, p, files[f].ver)'
                /\ jobs'[j] = None \/ jobs[j].file # f \/ Carries(c, p, f, j)',
           jobs'[j] # None => jobs'[j].file = jobs[j].file
    PROVE  KeptAt(c, p, f)'
<1> SUFFICES ASSUME open[c][p] = f, f \notin unsaved' PROVE Kept(c, p, f)'
  BY DEF KeptAt
<1>1. Kept(c, p, f)
  BY Uncaused DEF KeptInv, KeptAt
<1>2. files'[f].dirty \/ ~files[f].dirty \/ Shows(c, p, files[f].ver)'
  BY <1>1
<1>3. jobs'[j] = None \/ jobs'[j].file # f
        \/ (j \in JobsOf(f) /\ Carries(c, p, f, j)')
  BY <1>1 DEF JobsOf
<1>4. Arriving(p)' = Arriving(p)
  BY DEF Arriving
<1> QED BY <1>1, <1>2, <1>3, <1>4, StillKept

LEMMA UploadKept ==
    ASSUME TypeOK, KeptInv, Record, NEW c, Clients = {c}, NEW j \in Ops,
           Upload(j), NEW p \in Paths, NEW f \in Ops
    PROVE  KeptAt(c, p, f)'
<1> USE DEF fsVars, discordVars, Goto
<1>1. /\ jobs[j] \in Job /\ jobs[j] # None /\ jobs[j].file \in Ops
      /\ UNCHANGED <<open, renaming>> /\ c \in Clients
  <2>1. /\ jobs[j] # None
        /\ UNCHANGED <<open, renaming>>
    BY DEF Upload, UploadCheck, UploadMark, UploadRead, UploadData, UploadTx,
           UploadInsert, UploadClean, UploadDone, At
  <2> QED BY <2>1 DEF TypeOK, Job
<1>2. ASSUME UNCHANGED db, NEW v PROVE Shows(c, p, v) => Shows(c, p, v)'
  BY <1>1, <1>2, StillShows DEF Arriving
<1>3. \A i \in Ops : jobs[i] # None => jobs[i] \in Job
  BY DEF TypeOK
<1>4. CASE UploadCheck(j) \/ UploadMark(j) \/ UploadDone(j)
  <2>1. /\ UNCHANGED db /\ \A i \in Ops : i # j => jobs'[i] = jobs[i]
        /\ jobs'[j] # None => /\ jobs'[j].file = jobs[j].file
                              /\ jobs'[j].path = jobs[j].path
                              /\ jobs'[j].pc \in {"mark", "read"}
    BY <1>1, <1>4 DEF UploadCheck, UploadMark, UploadDone, TypeOK, Job
  <2>2. \A g \in Ops : /\ files'[g].ver = files[g].ver
                       /\ files'[g].dirty = files[g].dirty
    <3>1. CASE UploadMark(j)
      BY <1>1, <3>1 DEF UploadMark, TypeOK, FileData
    <3>2. CASE UploadDone(j)
      BY <1>1, <3>2 DEF UploadDone, TypeOK, FileData
    <3> QED BY <1>4, <3>1, <3>2 DEF UploadCheck
  <2>3. Kept(c, p, f) =>
            jobs'[j] = None \/ jobs[j].file # f \/ Carries(c, p, f, j)'
    BY <1>1, <2>1 DEF Kept, JobsOf, Carries
  <2> QED BY <1>1, <1>2, <2>1, <2>2, <2>3, UploadMovesKept
<1>5. CASE UploadRead(j)
  <2>1. PICK v \in Gathered(j) :
            jobs' = [jobs EXCEPT ![j].ver = v,
                        ![j].pc = IF v = 0 THEN "tx" ELSE "data"]
    BY <1>5 DEF UploadRead
  <2> DEFINE next == IF v = 0 THEN "tx" ELSE "data"
  <2>2. v \in Versions /\ next \in {"data", "tx"}
    BY <1>1, GatheredType
  <2>3. UNCHANGED <<db, files>> /\ jobs[j].pc = "read"
    BY <1>5 DEF UploadRead, At
  <2>4. /\ \A i \in Ops : i # j => jobs'[i] = jobs[i]
        /\ jobs'[j].file = jobs[j].file /\ jobs'[j].path = jobs[j].path
        /\ jobs'[j].ver = v /\ jobs'[j].pc = next
        /\ jobs'[j] # None
    <3>1. jobs' = [jobs EXCEPT ![j].ver = v, ![j].pc = next]
      BY <2>1
    <3> HIDE DEF next
    <3>2. jobs'[j] # None
      BY <1>1, <2>2, <3>1, Advances
    <3> QED BY <1>1, <2>2, <3>1, <3>2 DEF TypeOK, Job
  <2>5. CASE v = files[jobs[j].file].ver
    <3>1. Kept(c, p, f) => jobs[j].file # f \/ Carries(c, p, f, j)'
      BY <1>1, <2>2, <2>3, <2>4, <2>5 DEF Kept, JobsOf, Carries
    <3> QED BY <1>1, <1>2, <2>3, <2>4, <3>1, UploadMovesKept
  <2>6. CASE v # files[jobs[j].file].ver
    <3>1. /\ v = Torn(j)
          /\ \/ files[jobs[j].file].ver # jobs[j].size
             \/ files[jobs[j].file].loads
      BY <2>6 DEF Gathered
    <3>2. v # 0
      BY <3>1 DEF Torn, Ops
    <3>3. /\ jobs'[j].pc = "data" /\ jobs'[j].ver = Torn(j)
          /\ jobs'[j] # jobs[j]
      BY <2>3, <2>4, <3>1, <3>2
    <3>4. jobs[j].file = f => OtherSize(f) \/ NotLoaded(f)
      BY <1>1, <2>3, <2>4, <3>1, <3>3 DEF OtherSize, NotLoaded, Tears, At
    <3>5. open[c][p] = f /\ f \notin unsaved' => jobs[j].file # f
      BY <1>1, <3>4, Uncaused
    <3> QED BY <1>1, <1>2, <2>3, <2>4, <3>5, UploadMovesKept
  <2> QED BY <2>5, <2>6
<1>6. CASE UploadData(j) \/ UploadTx(j)
  <2>1. PICK pc \in {"tx", "insert", "dirty"} :
            jobs' = [jobs EXCEPT ![j].pc = pc] /\ jobs[j].pc # pc
    BY <1>6 DEF UploadData, UploadTx, Abandoned, At
  <2>2. UNCHANGED <<db, files>> /\ jobs[j].pc \in {"data", "tx"}
    BY <1>6 DEF UploadData, UploadTx, At
  <2>3. /\ jobs'[j] # None
        /\ \A i \in Ops : i # j => jobs'[i] = jobs[i]
        /\ jobs'[j].file = jobs[j].file /\ jobs'[j].path = jobs[j].path
        /\ jobs'[j].ver = jobs[j].ver /\ jobs'[j].pc = pc
    <3>1. jobs'[j] # None
      BY <1>1, <2>1, Advances
    <3> QED BY <1>1, <2>1, <3>1 DEF TypeOK, Job
  <2>4. ASSUME open[c][p] = f, f \notin unsaved', Kept(c, p, f), jobs[j].file = f
        PROVE  Carries(c, p, f, j)'
    <3>1. ~GivenUp(f)
      BY <1>1, <2>4, Uncaused
    <3>2. jobs' # jobs
      BY <2>1, <2>3
    <3>3. pc # "dirty"
      BY <1>1, <2>2, <2>3, <2>4, <3>1, <3>2 DEF GivenUp
    <3> QED BY <1>1, <2>2, <2>3, <2>4, <3>3 DEF Kept, JobsOf, Carries
  <2> QED BY <1>1, <1>2, <2>2, <2>3, <2>4, UploadMovesKept
<1>7. CASE UploadInsert(j)
  <2>1. /\ \A i \in Ops : i # j => jobs'[i] = jobs[i]
        /\ jobs'[j].file = jobs[j].file /\ jobs'[j].path = jobs[j].path
        /\ jobs'[j].ver = jobs[j].ver /\ jobs'[j].pc = "dirty"
        /\ jobs[j].pc = "insert" /\ UNCHANGED files
    BY <1>1, <1>7 DEF UploadInsert, At, TypeOK, Job
  <2>2. /\ jobs[j].client = c /\ jobs[j].path \in Paths
        /\ \A z \in Paths : db'[c][z] = IF z = jobs[j].path
                                        THEN File(jobs[j].ver) ELSE db[c][z]
    <3>1. jobs[j].client = c /\ jobs[j].path \in Paths
      BY <1>1 DEF Job
    <3> QED BY <1>7, <3>1 DEF UploadInsert, TypeOK
  <2>3. Arriving(p)' = Arriving(p)
    BY <1>1 DEF Arriving
  <2> SUFFICES ASSUME open[c][p] = f, f \notin unsaved' PROVE Kept(c, p, f)'
    BY <1>1 DEF KeptAt
  <2>4. Kept(c, p, f) /\ ~InsertedOver(f)
    BY <1>1, Uncaused DEF KeptInv, KeptAt
  <2>5. jobs' # jobs
    BY <2>1
  <2>6. CASE jobs[j].file = f
    <3>1. /\ p = jobs[j].path /\ jobs[j].ver = files[f].ver /\ Arriving(p) = {}
      BY <1>1, <2>1, <2>4, <2>6 DEF Kept, JobsOf, Carries
    <3>2. Coming(c, p)' = {File(files[f].ver)}
      BY <2>2, <2>3, <3>1 DEF Coming
    <3>3. Shows(c, p, files[f].ver)'
      BY <2>1, <3>2 DEF Shows
    <3>4. ASSUME NEW i \in JobsOf(f)' PROVE Carries(c, p, f, i)'
      <4>1. CASE i = j
        BY <2>1, <3>1, <3>3, <4>1 DEF Carries
      <4>2. CASE i # j
        <5>1. i \in JobsOf(f) /\ jobs'[i] = jobs[i]
          BY <2>1, <4>2 DEF JobsOf
        <5> QED BY <2>1, <2>4, <3>3, <5>1 DEF Kept, Carries
      <4> QED BY <4>1, <4>2
    <3> QED BY <2>3, <3>1, <3>3, <3>4 DEF Kept
  <2>7. CASE jobs[j].file # f
    <3>1. p # jobs[j].path
      BY <1>7, <2>1, <2>2, <2>4, <2>7 DEF InsertedOver, UploadInsert
    <3>2. db'[c][p] = db[c][p]
      BY <2>2, <3>1
    <3>3. \A i \in Ops : jobs'[i] = jobs[i] \/ jobs'[i].file # f
      BY <2>1, <2>7
    <3> QED BY <1>1, <2>1, <2>3, <2>4, <3>2, <3>3, StillShows, StillKept
  <2> QED BY <2>6, <2>7
<1>8. CASE UploadClean(j)
  <2>1. /\ \A i \in Ops : i # j => jobs'[i] = jobs[i]
        /\ jobs'[j].file = jobs[j].file /\ jobs'[j].path = jobs[j].path
        /\ jobs'[j].ver = jobs[j].ver /\ jobs'[j].pc = "syncing"
        /\ jobs[j].pc = "dirty" /\ UNCHANGED db
    BY <1>1, <1>8 DEF UploadClean, At, TypeOK, Job
  <2>2. \A g \in Ops : /\ files'[g].ver = files[g].ver
                       /\ g # jobs[j].file => files'[g].dirty = files[g].dirty
    BY <1>1, <1>8 DEF UploadClean, TypeOK, FileData
  <2>3. Kept(c, p, f) => jobs[j].file # f \/ Carries(c, p, f, j)'
    BY <1>1, <2>1 DEF Kept, JobsOf, Carries
  <2>4. Kept(c, p, f) /\ jobs[j].file = f => Shows(c, p, files[f].ver)
    BY <1>1, <2>1 DEF Kept, JobsOf, Carries
  <2>5. Shows(c, p, files[f].ver) => Shows(c, p, files[f].ver)'
    <3>1. Coming(c, p)' = Coming(c, p)
      BY <1>1, <2>1 DEF Coming, Arriving
    <3> QED BY <2>2, <3>1 DEF Shows
  <2> QED BY <1>1, <1>2, <2>1, <2>2, <2>3, <2>4, <2>5, UploadMovesKept
<1> QED BY <1>4, <1>5, <1>6, <1>7, <1>8 DEF Upload

(* An upload that is torn meets one of the causes, or carries what the     *)
(* file is no longer.                                                      *)
LEMMA TornKept ==
    ASSUME TypeOK, KeptInv, Record, NEW c \in Clients, NEW j \in Ops,
           UploadTears(j), NEW p \in Paths, NEW f \in Ops
    PROVE  KeptAt(c, p, f)'
<1>1. /\ UNCHANGED <<db, open, files, renaming>>
      /\ jobs[j] # None /\ jobs'[j] # None
      /\ jobs[j].pc = "data" /\ jobs'[j].pc = "data"
      /\ jobs'[j].ver = Torn(j) /\ jobs'[j].file = jobs[j].file
      /\ \A i \in Ops : i # j => jobs'[i] = jobs[i]
  BY TearsChanges DEF fsVars
<1>2. \A v : Shows(c, p, v) => Shows(c, p, v)'
  BY <1>1, StillShows DEF Arriving
<1>3. CASE jobs'[j] = jobs[j]
  BY <1>1, <1>3, StillKeptAt DEF Arriving
<1>4. CASE jobs'[j] # jobs[j]
  <2>1. ASSUME open[c][p] = f, f \notin unsaved', Kept(c, p, f)
        PROVE  jobs[j].file # f
    <3> SUFFICES ASSUME jobs[j].file = f PROVE FALSE
      OBVIOUS
    <3>1. jobs[j].ver = files[f].ver
      BY <1>1, <2>1 DEF Kept, JobsOf, Carries
    <3>2. CacheType = "disk"
      BY <3>1 DEF UploadTears
    <3>3. PositionMoved(f)
      BY <1>1, <1>4, <3>2 DEF PositionMoved, Tears, At
    <3> QED BY <1>1, <2>1, <3>3, Uncaused
  <2> QED BY <1>1, <1>2, <2>1, UploadMovesKept
<1> QED BY <1>3, <1>4

LEMMA CallbackKept ==
    ASSUME TypeOK, OpenPast, OpenInjective, JobsPast, NEW c, Clients = {c},
           SoleInv, SoleInv', KeptInv, Record, NEW q \in Paths,
           \/ Mknod(c, q) \/ Mkdir(c, q) \/ Open(c, q) \/ Unlink(c, q)
           \/ Rmdir(c, q) \/ Write(c, q) \/ Truncate(c, q) \/ Release(c, q)
           \/ \E z \in Paths : RenameInMemory(c, q, z) \/ Rename(c, q, z),
           NEW p \in Paths, NEW f \in Ops
    PROVE  KeptAt(c, p, f)'
<1> USE DEF fsVars, goVars, discordVars
<1>1. c \in Clients /\ Callback(c, q)
  BY DEF Mknod, Mkdir, Open, Unlink, Rmdir, Write, Truncate, Release,
         RenameInMemory, Rename
<1>2. PICK n \in Ops : ops' = n /\ ops' = ops + 1
  BY <1>1, CallbackType
<1>3. Arriving(q) = {}
  <2>1. TreeFree(c, q)
    BY <1>1 DEF Callback
  <2> QED BY <2>1, CallbackApart DEF Arriving
<1>4. ops' \in Versions /\ 0 \in Versions
  BY <1>2, VersionTypes
<1>5. CASE Mknod(c, q)
  <2>1. /\ open' = [open EXCEPT ![c][q] = n] /\ db[c][q] = None
        /\ files' = [files EXCEPT ![n] = NewFile(0)]
        /\ UNCHANGED <<db, jobs, renaming>>
    BY <1>2, <1>5 DEF Mknod
  <2> QED BY <1>1, <1>2, <1>3, <1>4, <2>1, OpenedKept
<1>6. CASE Open(c, q)
  <2> DEFINE v == db[c][q].ver
  <2>1. /\ open' = [open EXCEPT ![c][q] = n]
        /\ files' = [files EXCEPT ![n] = NewFile(v)]
        /\ UNCHANGED <<db, jobs, renaming>>
    BY <1>2, <1>6 DEF Open
  <2>2. db[c][q] = File(v) /\ v \in Versions
    BY <1>1, <1>6, EntryTypes DEF Open, TypeOK, Entry, File
  <2> HIDE DEF v
  <2> QED BY <1>1, <1>2, <1>3, <2>1, <2>2, OpenedKept
<1>7. CASE Mkdir(c, q) \/ Unlink(c, q) \/ Rmdir(c, q)
  <2>1. UNCHANGED <<files, jobs, renaming>>
    BY <1>7 DEF Mkdir, Unlink, Rmdir
  <2>2. /\ open'[c][q] = None
        /\ p # q => open'[c][p] = open[c][p] /\ db'[c][p] = db[c][p]
    BY <1>1, <1>7 DEF Mkdir, Unlink, Rmdir, IsFolder, IsRegular, TypeOK
  <2>3. p = q => KeptAt(c, p, f)'
    BY <2>2, DsfsConstants DEF KeptAt
  <2> QED BY <1>1, <2>1, <2>2, <2>3, StillKeptAt DEF Arriving
<1>8. CASE Write(c, q) \/ Truncate(c, q)
  <2>1. /\ open[c][q] # None /\ UNCHANGED <<db, open, jobs, renaming>>
        /\ \E v \in {0, ops'} : files' = Written(open[c][q], v)
    BY <1>8 DEF Write, Truncate
  <2> QED BY <1>1, <1>4, <2>1, WrittenKept
<1>9. CASE Release(c, q)
  BY <1>1, <1>2, <1>3, <1>9, ReleasedKept
<1>10. ASSUME NEW z \in Paths, RenameInMemory(c, q, z) \/ Rename(c, q, z)
       PROVE  KeptAt(c, p, f)'
  BY <1>10, RenamedKept
<1> QED BY <1>5, <1>6, <1>7, <1>8, <1>9, <1>10

LEMMA NextKept ==
    TypeOK /\ OpenPast /\ OpenInjective /\ JobsPast /\ SoleInv /\ SoleInv'
        /\ KeptInv /\ [Next /\ Record]_<<vars, historyVars>> => KeptInv'
<1> SUFFICES ASSUME TypeOK, OpenPast, OpenInjective, JobsPast, SoleInv, SoleInv',
                    KeptInv, [Next /\ Record]_<<vars, historyVars>>
             PROVE  KeptInv'
  OBVIOUS
<1> USE DEF fsVars, goVars, discordVars
<1>1. PICK c : Clients = {c}
  BY DEF SoleInv, OneClient
<1>2. CASE UNCHANGED <<vars, historyVars>>
  <2> SUFFICES ASSUME NEW d \in Clients, NEW p \in Paths, NEW f \in Ops,
                      open[d][p] = f, f \notin unsaved
               PROVE  Kept(d, p, f)'
    BY <1>2 DEF vars, historyVars, KeptInv, KeptAt
  <2>1. Kept(d, p, f) /\ UNCHANGED <<db, files, jobs, renaming>>
    BY <1>2 DEF vars, KeptInv, KeptAt
  <2>2. Arriving(p)' = Arriving(p)
    BY <2>1 DEF Arriving
  <2>3. \A v : Shows(d, p, v) => Shows(d, p, v)'
    BY <2>1, <2>2, StillShows
  <2> QED BY <2>1, <2>2, <2>3, StillKept
<1>3. ASSUME Next, Record, NEW p \in Paths, NEW f \in Ops
      PROVE  KeptAt(c, p, f)'
  <2>1. CASE Callbacks
    <3>1. PICK q \in Paths :
                \/ Mknod(c, q) \/ Mkdir(c, q) \/ Open(c, q) \/ Unlink(c, q)
                \/ Rmdir(c, q) \/ Write(c, q) \/ Truncate(c, q)
                \/ Release(c, q)
                \/ \E z \in Paths : RenameInMemory(c, q, z) \/ Rename(c, q, z)
      BY <1>1, <2>1 DEF Callbacks
    <3> QED BY <1>1, <1>3, <3>1, CallbackKept
  <2>2. ASSUME NEW s \in sending, SendTx(s) PROVE KeptAt(c, p, f)'
    BY <1>1, <1>3, <2>2, StillKeptAt DEF SendTx, Arriving
  <2>3. ASSUME NEW r \in renaming, RenameCommit(r) PROVE KeptAt(c, p, f)'
    BY <1>1, <1>3, <2>3, CommittedKept
  <2>4. ASSUME NEW j \in Ops, Upload(j) PROVE KeptAt(c, p, f)'
    BY <1>1, <1>3, <2>4, UploadKept
  <2>5. ASSUME NEW d \in Clients, NEW m \in inbox[d] PROVE FALSE
    BY <2>5 DEF SoleInv, NoMail
  <2>6. ASSUME NEW d \in Clients, Restart(d) PROVE KeptAt(c, p, f)'
    <3>1. open'[c][p] = None
      BY <1>1, <2>6 DEF Restart, TypeOK
    <3> QED BY <3>1, DsfsConstants DEF KeptAt
  <2>7. ASSUME NEW j \in Ops, UploadTears(j) PROVE KeptAt(c, p, f)'
    BY <1>1, <1>3, <2>7, TornKept
  <2> QED BY <1>3, <2>1, <2>2, <2>3, <2>4, <2>5, <2>6, <2>7
          DEF Next, Background
<1> QED BY <1>1, <1>2, <1>3 DEF KeptInv

(* A history changes no step of Dsfs.                                      *)
LEMMA HistorySteps ==
    [Next /\ Record]_<<vars, historyVars>> => [Next]_vars
BY DEF historyVars

LEMMA InitSole == OneClient /\ Init => SoleInv
BY DEF Init, SoleInv, NoMail, OpenRegular, RenamesApart

(* Nothing is open at the start.                                           *)
LEMMA InitKept == Init => KeptInv
BY DsfsConstants DEF Init, KeptInv, KeptAt

LEMMA KeptMeans == TypeOK /\ KeptInv => CleanMeansSaved
<1> SUFFICES ASSUME TypeOK, KeptInv, NEW c \in Clients, NEW p \in Paths,
                    NEW f, f = open[c][p], f # None, ~files[f].dirty,
                    f \notin unsaved, ~\E r \in renaming : r.new = p
             PROVE  \/ db[c][p] = File(files[f].ver)
                    \/ db[c][p] = None /\ files[f].ver = 0
  BY DEF CleanMeansSaved
<1>1. f \in Ops
  BY DEF TypeOK
<1>2. Shows(c, p, files[f].ver)
  BY <1>1 DEF KeptInv, KeptAt, Kept
<1>3. Coming(c, p) = {db[c][p]}
  BY DEF Coming, Arriving
<1> QED BY <1>2, <1>3 DEF Shows

(* A file of a client that is alone is dirty, saved, never written, about  *)
(* to be saved by a rename, or one of eight named causes has happened to   *)
(* it.                                                                     *)
THEOREM DsfsCleanMeansSaved == OneClient /\ SpecHistory => []CleanMeansSaved
<1>1. Init => OpenPast /\ OpenInjective
  BY DEF Init, OpenPast, OpenInjective
<1>2. FlagInv => JobsPast
  BY DEF FlagInv
<1>3. InitHistory => Init
  BY DEF InitHistory
<1> QED BY <1>1, <1>2, <1>3, InitType, NextType, NextInjective, InitFlag,
           NextFlag, InitSole, NextSole, InitKept, NextKept, KeptMeans,
           HistorySteps, PTL DEF SpecHistory

-----------------------------------------------------------------------------
(* Orphans.                                                                *)

(* What is there, in memory or still to come.                              *)
Present(c, p) ==
    \/ db[c][p] # None \/ open[c][p] # None \/ Arriving(p) # {}
    \/ \E j \in Ops : /\ jobs[j] # None /\ jobs[j].path = p
                      /\ jobs[j].pc \notin {"dirty", "syncing"}
Housed(c, p) ==
    Present(c, p) => HasFolder(db, c, Parent[p]) \/ Parent[p] \in overlooked
FoldersInv == \A c \in Clients, p \in Paths \ {Root} : Housed(c, p)

LEMMA ParentApart ==
    \A p \in Paths \ {Root} :
        /\ Parent[p] \in Paths /\ Parent[p] # p
        /\ p \in StartsWith[Parent[p]] \ {Parent[p]}
        /\ Parent[p] \in Folders /\ p \in Children(Parent[p])
BY DsfsConstants DEF Folders, Children

(* A step keeps everything under its folder when what it brings has the    *)
(* folder there, and the folder goes for one of the causes.                *)
LEMMA StillHoused ==
    ASSUME Record, NEW c \in Clients, NEW p \in Paths \ {Root}, Housed(c, p),
           Present(c, p)' /\ ~Present(c, p) => HasFolder(db', c, Parent[p]),
           Present(c, p)' /\ HasFolder(db, c, Parent[p])
             /\ ~HasFolder(db', c, Parent[p]) => Overlooked(Parent[p])
    PROVE  Housed(c, p)'
<1> SUFFICES ASSUME Present(c, p)', ~HasFolder(db', c, Parent[p])
             PROVE  Parent[p] \in overlooked'
  BY DEF Housed, HasFolder
<1>1. Parent[p] \in overlooked \/ Overlooked(Parent[p])
  BY DEF Housed
<1> QED BY <1>1, ParentApart DEF Record

(* A callback that makes something makes it in a folder.                   *)
LEMMA FolderThere ==
    ASSUME TypeOK, NEW c \in Clients, NEW d \in Paths, db[c][d] # None,
           ~IsRegular(c, d)
    PROVE  HasFolder(db, c, d)
BY DEF HasFolder, IsRegular, TypeOK, Entry

LEMMA CallbackHoused ==
    ASSUME TypeOK, JobsPast, NEW c, Clients = {c}, Record, NEW q \in Paths,
           \/ Mknod(c, q) \/ Mkdir(c, q) \/ Open(c, q) \/ Unlink(c, q)
           \/ Rmdir(c, q) \/ Write(c, q) \/ Truncate(c, q) \/ Release(c, q)
           \/ \E z \in Paths : RenameInMemory(c, q, z) \/ Rename(c, q, z),
           NEW p \in Paths \ {Root}, Housed(c, p)
    PROVE  Housed(c, p)'
<1> USE DEF fsVars, goVars, discordVars
<1>1. c \in Clients /\ q # Root
  BY DEF Mknod, Mkdir, Open, Unlink, Rmdir, Write, Truncate, Release,
         RenameInMemory, Rename, Callback
<1>2. CASE Mknod(c, q)
  <2>1. UNCHANGED <<db, jobs, renaming>> /\ HasFolder(db, c, Parent[q])
    BY <1>1, <1>2, FolderThere, ParentApart DEF Mknod
  <2>2. p # q => open'[c][p] = open[c][p]
    BY <1>1, <1>2 DEF Mknod, TypeOK
  <2> QED BY <1>1, <2>1, <2>2, StillHoused DEF Present, Arriving, HasFolder
<1>3. CASE Mkdir(c, q)
  <2>1. /\ UNCHANGED <<open, jobs, renaming>> /\ HasFolder(db, c, Parent[q])
        /\ db[c][q] = None
    BY <1>1, <1>3, FolderThere, ParentApart DEF Mkdir
  <2>2. \A z \in Paths \ {q} : db'[c][z] = db[c][z]
    BY <1>1, <1>3 DEF Mkdir, TypeOK
  <2>3. \A z \in Paths : HasFolder(db, c, z) => HasFolder(db', c, z)
    BY <2>1, <2>2 DEF HasFolder
  <2>4. p # q => (Present(c, p)' <=> Present(c, p))
    BY <2>1, <2>2 DEF Present, Arriving
  <2> QED BY <1>1, <2>1, <2>3, <2>4, StillHoused, ParentApart
<1>4. CASE Open(c, q)
  <2>1. UNCHANGED <<db, jobs, renaming>> /\ db[c][q] # None
    BY <1>4 DEF Open
  <2>2. p # q => open'[c][p] = open[c][p]
    BY <1>1, <1>4 DEF Open, TypeOK
  <2> QED BY <1>1, <2>1, <2>2, StillHoused DEF Present, Arriving, HasFolder
<1>5. CASE Unlink(c, q)
  <2>1. /\ UNCHANGED <<jobs, renaming>>
        /\ db[c][q] = None \/ db[c][q].type = "file"
        /\ \A z \in Paths \ {q} : db'[c][z] = db[c][z] /\ open'[c][z] = open[c][z]
        /\ db'[c][q] = None /\ open'[c][q] = None
    BY <1>1, <1>5 DEF Unlink, TypeOK
  <2>2. \A z \in Paths : HasFolder(db, c, z) => HasFolder(db', c, z)
    BY <2>1 DEF HasFolder
  <2>3. Present(c, p)' => Present(c, p)
    BY <2>1 DEF Present, Arriving
  <2> QED BY <1>1, <2>2, <2>3, StillHoused, ParentApart
<1>6. CASE Rmdir(c, q)
  <2>1. /\ UNCHANGED <<open, jobs, renaming>> /\ SeemsEmpty(c, q)
        /\ \A z \in Paths \ {q} : db'[c][z] = db[c][z]
        /\ db'[c][q] = None
    BY <1>1, <1>6 DEF Rmdir, TypeOK
  <2>2. Present(c, p)' => Present(c, p)
    BY <2>1 DEF Present, Arriving
  <2>3. ASSUME Present(c, p)', HasFolder(db, c, Parent[p]),
               ~HasFolder(db', c, Parent[p])
        PROVE  Overlooked(Parent[p])
    <3>1. Parent[p] = q /\ db' # db
      BY <2>1, <2>3, ParentApart DEF HasFolder
    <3>2. db[c][p] = None /\ db'[c][p] = None
      BY <2>1, <3>1, ParentApart DEF SeemsEmpty
    <3>3. open[c][p] # None \/ Unsettled(p)
      BY <2>1, <2>3, <3>2 DEF Present, Arriving, Unsettled
    <3>4. Hidden(c, q)
      BY <3>1, <3>3, ParentApart DEF Hidden
    <3> QED BY <1>1, <2>3, <3>1, <3>4 DEF Overlooked
  <2> QED BY <1>1, <2>2, <2>3, StillHoused
<1>7. CASE Write(c, q) \/ Truncate(c, q)
  <2>1. UNCHANGED <<db, open, jobs, renaming>>
    BY <1>7 DEF Write, Truncate
  <2> QED BY <1>1, <2>1, StillHoused DEF Present, Arriving, HasFolder
<1>8. CASE Release(c, q)
  <2>1. /\ UNCHANGED <<db, open, renaming>> /\ open[c][q] # None
        /\ ops' \in Ops /\ \A j \in Ops \ {ops'} : jobs'[j] = jobs[j]
        /\ jobs'[ops'].path = q
    BY <1>1, <1>8, CallbackType DEF Release, TypeOK
  <2>2. Present(c, p)' => Present(c, p)
    BY <2>1 DEF Present, Arriving
  <2> QED BY <1>1, <2>1, <2>2, StillHoused DEF HasFolder
<1>9. ASSUME NEW z \in Paths, RenameInMemory(c, q, z) \/ Rename(c, q, z)
      PROVE  Housed(c, p)'
  <2>1. /\ UNCHANGED <<db, jobs>> /\ q # z /\ z # Root
        /\ open' = open \/ open' = MoveOpen(c, q, z)
    BY <1>9 DEF RenameInMemory, Rename, MayRename
  <2>2. HasFolder(db, c, Parent[z])
    BY <1>1, <1>9, <2>1, FolderThere, ParentApart
    DEF RenameInMemory, Rename, MayRename
  <2>3. \A x \in Paths \ {z} : open'[c][x] # None => open[c][x] # None
    BY <1>1, <2>1, MovedOpen
  <2>4. \A r \in renaming' \ renaming : r.new = z
    BY <1>9 DEF RenameInMemory, Rename
  <2>5. p # z => (Present(c, p)' => Present(c, p))
    BY <2>1, <2>3, <2>4 DEF Present, Arriving
  <2> QED BY <1>1, <2>1, <2>2, <2>5, StillHoused DEF HasFolder
<1> QED BY <1>2, <1>3, <1>4, <1>5, <1>6, <1>7, <1>8, <1>9

(* A folder that is being renamed was empty when it was tested, and nothing*)
(* has come into it since, or the rename is among those that were entered. *)
EnteredInv ==
    \A r \in renaming : \A p \in Children(r.old) :
        HasFolder(db, r.client, r.old) /\ db[r.client][p] # None =>
            r \in entered

(* What a callback leaves alone while a rename is under way.               *)
LEMMA CallbackKeepsOld ==
    ASSUME TypeOK, NEW c, Clients = {c}, NEW q \in Paths,
           \/ Mknod(c, q) \/ Mkdir(c, q) \/ Open(c, q) \/ Unlink(c, q)
           \/ Rmdir(c, q) \/ Write(c, q) \/ Truncate(c, q) \/ Release(c, q)
           \/ \E z \in Paths : RenameInMemory(c, q, z) \/ Rename(c, q, z),
           NEW r \in renaming
    PROVE  r.client = c /\ db'[c][r.old] = db[c][r.old]
<1> USE DEF fsVars
<1>1. TreeFree(c, q)
  BY DEF Mknod, Mkdir, Open, Unlink, Rmdir, Write, Truncate, Release,
         RenameInMemory, Rename, Callback
<1>2. r.client = c /\ r.old # q /\ r.old \in Paths /\ c \in Clients
  BY <1>1, CallbackApart DEF TypeOK, Renaming
<1>3. \A z \in Paths \ {q} : db'[c][z] = db[c][z]
  <2>1. CASE Mknod(c, q) \/ Open(c, q) \/ Write(c, q) \/ Truncate(c, q)
             \/ Release(c, q)
             \/ \E z \in Paths : RenameInMemory(c, q, z) \/ Rename(c, q, z)
    BY <2>1 DEF Mknod, Open, Write, Truncate, Release, RenameInMemory, Rename
  <2>2. CASE Mkdir(c, q)
    BY <1>2, <2>2 DEF Mkdir, TypeOK
  <2>3. CASE Unlink(c, q)
    BY <1>2, <2>3 DEF Unlink, TypeOK
  <2>4. CASE Rmdir(c, q)
    BY <1>2, <2>4 DEF Rmdir, TypeOK
  <2> QED BY <2>1, <2>2, <2>3, <2>4
<1> QED BY <1>2, <1>3

(* Nor does anything else make a folder of the old name.                   *)
LEMMA OldStaysNoFolder ==
    ASSUME TypeOK, SoleInv, NEW c, Clients = {c}, Next,
           NEW r \in renaming, r \in renaming', HasFolder(db', c, r.old)
    PROVE  HasFolder(db, c, r.old)
<1> USE DEF fsVars, goVars
<1>1. c \in Clients /\ r.old \in Paths
  BY DEF TypeOK, Renaming
<1>2. CASE Callbacks
  <2>1. PICK q \in Paths :
           \/ Mknod(c, q) \/ Mkdir(c, q) \/ Open(c, q) \/ Unlink(c, q)
           \/ Rmdir(c, q) \/ Write(c, q) \/ Truncate(c, q) \/ Release(c, q)
           \/ \E z \in Paths : RenameInMemory(c, q, z) \/ Rename(c, q, z)
    BY <1>2 DEF Callbacks
  <2> QED BY <2>1, CallbackKeepsOld DEF HasFolder
<1>3. ASSUME NEW s \in sending, SendTx(s) PROVE HasFolder(db, c, r.old)
  BY <1>3 DEF SendTx, HasFolder
<1>4. ASSUME NEW s \in renaming, RenameCommit(s) PROVE HasFolder(db, c, r.old)
  <2>1. s # r /\ s.client = c
    BY <1>4 DEF RenameCommit, TypeOK, Renaming
  <2>2. r.old # s.old /\ r.old # s.new
    BY <2>1 DEF SoleInv, RenamesApart
  <2>3. db'[c][r.old] = db[c][r.old]
    BY <1>1, <1>4, <2>1, <2>2 DEF RenameCommit, Committed, TypeOK
  <2> QED BY <2>3 DEF HasFolder
<1>5. ASSUME NEW j \in Ops, Upload(j) PROVE HasFolder(db, c, r.old)
  <2>1. CASE UploadInsert(j)
    <3>1. jobs[j] \in Job /\ jobs[j].client = c
      BY <2>1 DEF UploadInsert, At, TypeOK, Job
    <3>2. db' = [db EXCEPT ![c][jobs[j].path] = File(jobs[j].ver)]
      BY <2>1, <3>1 DEF UploadInsert
    <3>3. db'[c][r.old] = db[c][r.old] \/ db'[c][r.old].type = "file"
      BY <1>1, <3>1, <3>2 DEF TypeOK, Job, File
    <3> QED BY <3>3 DEF HasFolder
  <2>2. CASE ~UploadInsert(j)
    BY <1>5, <2>2 DEF Upload, UploadCheck, UploadMark, UploadRead, UploadData,
                      UploadTx, UploadClean, UploadDone, HasFolder
  <2> QED BY <2>1, <2>2
<1>6. ASSUME NEW d \in Clients, NEW m \in inbox[d] PROVE FALSE
  BY <1>6 DEF SoleInv, NoMail
<1>7. ASSUME NEW j \in Ops, UploadTears(j) PROVE HasFolder(db, c, r.old)
  BY <1>7 DEF UploadTears, HasFolder
<1>8. ASSUME NEW d \in Clients, Restart(d) PROVE FALSE
  <2>1. r.client = d
    BY DEF TypeOK, Renaming
  <2> QED BY <1>8, <2>1 DEF Restart
<1> QED BY <1>2, <1>3, <1>4, <1>5, <1>6, <1>7, <1>8 DEF Next, Background

LEMMA NextEntered ==
    TypeOK /\ SoleInv /\ EnteredInv /\ [Next /\ Record]_<<vars, historyVars>>
        => EnteredInv'
<1> SUFFICES ASSUME TypeOK, SoleInv, EnteredInv, Next, Record,
                    NEW r \in renaming', NEW p \in Children(r.old),
                    HasFolder(db', r.client, r.old),
                    db'[r.client][p] # None
             PROVE  r \in entered'
  BY DEF EnteredInv, HasFolder, vars, historyVars
<1>1. PICK c : Clients = {c}
  BY DEF SoleInv, OneClient
<1>2. CASE r \notin renaming
  <2>1. PICK q \in Paths, z \in Paths : Rename(c, q, z)
    <3>1. CASE Callbacks
      BY <1>1, <1>2, <3>1
      DEF Callbacks, Mknod, Mkdir, Open, Unlink, Rmdir, Write, Truncate,
          Release, RenameInMemory, goVars
    <3>2. ~Background
      BY <1>2 DEF Background, SendTx, RenameCommit, Upload, UploadCheck,
                  UploadMark, UploadRead, UploadData, UploadTx, UploadInsert,
                  UploadClean, UploadDone, Handle, ApplyLiveTx, ApplyDelete,
                  SkipBatch, goVars
    <3>3. ~\E j \in Ops : UploadTears(j)
      BY <1>2 DEF UploadTears
    <3>4. ~\E d \in Clients : Restart(d)
      BY <1>2 DEF Restart
    <3> QED BY <3>1, <3>2, <3>3, <3>4 DEF Next
  <2>2. r.client = c /\ r.old = q /\ UNCHANGED db /\ q # Root
    BY <1>2, <2>1 DEF Rename, Callback
  <2>3. SeemsEmpty(c, q)
    BY <2>1, <2>2 DEF Rename, HasFolder
  <2>4. p \in StartsWith[q] \ {q}
    BY <2>2, ParentApart, DsfsConstants DEF Children
  <2> QED BY <2>2, <2>3, <2>4 DEF SeemsEmpty
<1>3. CASE r \in renaming
  <2>1. r.client = c
    BY <1>1, <1>3 DEF TypeOK, Renaming
  <2>2. HasFolder(db, c, r.old)
    BY <1>1, <1>3, <2>1, OldStaysNoFolder
  <2>3. r \in entered \/ db[c][p] = None
    BY <1>3, <2>1, <2>2 DEF EnteredInv
  <2>4. r \in entered \/ Enters(r)
    BY <2>1, <2>3 DEF Enters
  <2> QED BY <1>3, <2>4 DEF Record
<1> QED BY <1>2, <1>3

LEMMA CommitHoused ==
    ASSUME TypeOK, EnteredInv, NEW c, Clients = {c}, Record,
           NEW r \in renaming, RenameCommit(r), NEW p \in Paths \ {Root}, Housed(c, p)
    PROVE  Housed(c, p)'
<1>1. /\ UNCHANGED <<open, jobs, faults>> /\ renaming' = renaming \ {r}
  BY DEF RenameCommit
<1>2. /\ c \in Clients /\ r.client = c
      /\ r.old \in Paths /\ r.new \in Paths /\ r.entry \in Entry
  BY DEF TypeOK, Renaming
<1>3. /\ db'[c][r.new] = IF r.new = r.old THEN None ELSE r.entry
      /\ db'[c][r.old] = None
      /\ \A z \in Paths \ {r.old, r.new} : db'[c][z] = db[c][z]
  BY <1>2 DEF RenameCommit, Committed, TypeOK
<1>4. Present(c, p)' => Present(c, p)
  BY <1>1, <1>3 DEF Present, Arriving
<1>5. ASSUME Present(c, p)', HasFolder(db, c, Parent[p]),
             ~HasFolder(db', c, Parent[p])
      PROVE  Overlooked(Parent[p])
  <2>1. db' # db
    BY <1>5 DEF HasFolder
  <2>2. CASE Parent[p] = r.new /\ r.new # r.old
    BY <1>2, <1>3, <1>5, <2>1, <2>2, DsfsConstants DEF Overlooked
  <2>3. CASE Parent[p] = r.old
    <3>1. open[c][p] # None \/ Unsettled(p) => Hidden(c, Parent[p])
      BY ParentApart DEF Hidden
    <3>2. db[c][p] # None => CameMeanwhile(c, Parent[p])
      BY <1>1, <1>2, <1>5, <2>3, ParentApart DEF EnteredInv, CameMeanwhile
    <3>3. open[c][p] # None \/ Unsettled(p) \/ db[c][p] # None
      BY <1>1, <1>3, <1>5 DEF Present, Arriving, Unsettled
    <3> QED BY <1>2, <1>5, <2>1, <3>1, <3>2, <3>3 DEF Overlooked
  <2> QED BY <1>3, <1>5, <2>2, <2>3, ParentApart DEF HasFolder
<1> QED BY <1>2, <1>4, <1>5, StillHoused

LEMMA UploadHoused ==
    ASSUME TypeOK, NEW c, Clients = {c}, Record, NEW j \in Ops, Upload(j),
           NEW p \in Paths \ {Root}, Housed(c, p)
    PROVE  Housed(c, p)'
<1> USE DEF fsVars, discordVars, Goto
<1>1. /\ jobs[j] \in Job /\ jobs[j] # None /\ UNCHANGED <<open, renaming>>
      /\ c \in Clients
  <2>1. jobs[j] # None /\ UNCHANGED <<open, renaming>>
    BY DEF Upload, UploadCheck, UploadMark, UploadRead, UploadData, UploadTx,
           UploadInsert, UploadClean, UploadDone, At
  <2> QED BY <2>1 DEF TypeOK
<1>2. /\ \A i \in Ops : i # j => jobs'[i] = jobs[i]
      /\ jobs'[j] # None /\ jobs'[j].pc \notin {"dirty", "syncing"} =>
            /\ jobs'[j].path = jobs[j].path
            /\ jobs[j].pc \notin {"dirty", "syncing"}
  <2>1. CASE UploadCheck(j) \/ UploadMark(j) \/ UploadInsert(j)
             \/ UploadClean(j) \/ UploadDone(j)
    BY <1>1, <2>1 DEF UploadCheck, UploadMark, UploadInsert, UploadClean,
                      UploadDone, At, TypeOK, Job
  <2>2. CASE UploadRead(j)
    BY <1>1, <2>2 DEF UploadRead, At, TypeOK, Job
  <2>3. CASE UploadData(j) \/ UploadTx(j)
    BY <1>1, <2>3 DEF UploadData, UploadTx, Abandoned, At, TypeOK, Job
  <2> QED BY <2>1, <2>2, <2>3 DEF Upload
<1>3. CASE UNCHANGED db
  <2>1. Present(c, p)' => Present(c, p)
    BY <1>1, <1>2, <1>3 DEF Present, Arriving
  <2> QED BY <1>1, <1>3, <2>1, StillHoused DEF HasFolder
<1>4. CASE UploadInsert(j)
  <2> DEFINE q == jobs[j].path
  <2>1. /\ jobs[j].client = c /\ q \in Paths /\ jobs[j].pc = "insert"
        /\ jobs[j].ver \in Versions
    BY <1>1, <1>4 DEF Job, UploadInsert, At
  <2>2. /\ db'[c][q] = File(jobs[j].ver) /\ db'[c][q] # None
        /\ \A z \in Paths \ {q} : db'[c][z] = db[c][z]
    <3>1. File(jobs[j].ver) # None
      BY <2>1, EntryTypes, DsfsConstants
    <3> QED BY <1>4, <2>1, <3>1 DEF UploadInsert, TypeOK
  <2>3. Present(c, q)
    BY <1>1, <2>1 DEF Present
  <2>4. Present(c, p)' => Present(c, p)
    BY <1>1, <1>2, <2>2, <2>3 DEF Present, Arriving
  <2>5. ASSUME HasFolder(db, c, Parent[p]), ~HasFolder(db', c, Parent[p])
        PROVE  Overlooked(Parent[p])
    <3>1. db'[c][Parent[p]] # None /\ db' # db
      BY <2>2, <2>5, ParentApart DEF HasFolder
    <3> QED BY <1>1, <2>5, <3>1 DEF Overlooked
  <2> QED BY <1>1, <2>4, <2>5, StillHoused
<1> QED BY <1>3, <1>4 DEF Upload, UploadCheck, UploadMark, UploadRead,
                          UploadData, UploadTx, UploadClean, UploadDone

(* What a restart changes in a folder is what had not settled or was lost. *)
LEMMA RestartHoused ==
    ASSUME TypeOK, DivergenceInv, NEW c, Clients = {c}, Record, Restart(c),
           NEW p \in Paths \ {Root}, Housed(c, p)
    PROVE  Housed(c, p)'
<1>1. /\ c \in Clients /\ open'[c][p] = None /\ renaming' = {}
      /\ \A j \in Ops : jobs'[j] = None
      /\ \A z \in Paths : db'[c][z] = Replayed(z)
      /\ faults' # faults
  <2>1. \A r \in renaming : r.client = c
    BY DEF TypeOK, Renaming
  <2>2. \A j \in Ops : jobs[j] # None => jobs[j].client = c
    BY DEF TypeOK, Job
  <2> QED BY <2>1, <2>2 DEF Restart, Fault, TypeOK
<1>2. Present(c, p)' => db'[c][p] # None
  BY <1>1 DEF Present, Arriving
<1> DEFINE tidy == \A z \in {Parent[p]} \cup Children(Parent[p]) :
                        ~Unsettled(z) /\ z \notin tainted
<1>3. CASE tidy
  <2>1. \A z \in {p, Parent[p]} : db'[c][z] = db[c][z]
    <3> SUFFICES ASSUME NEW z \in {p, Parent[p]} PROVE db[c][z] = Replayed(z)
      BY <1>1, ParentApart
    <3>1. z \in Paths /\ ~Unsettled(z) /\ z \notin tainted
      BY <1>3, ParentApart
    <3>2. Due(c, z)
      BY <1>1, <3>1 DEF DivergenceInv, PathInv
    <3> QED BY <1>1, <3>1, <3>2, SettledMeans DEF Due
  <2>2. Present(c, p)' => Present(c, p)
    BY <1>2, <2>1 DEF Present
  <2> QED BY <1>1, <2>1, <2>2, StillHoused DEF HasFolder
<1>4. CASE ~tidy
  <2>1. CASE db' = db
    <3>1. Present(c, p)' => Present(c, p)
      BY <1>2, <2>1 DEF Present
    <3> QED BY <1>1, <2>1, <3>1, StillHoused
  <2>2. CASE db' # db
    <3>1. Overlooked(Parent[p])
      BY <1>1, <1>4, <2>2 DEF Overlooked
    <3>2. HasFolder(db', c, Parent[p]) \/ Parent[p] \in overlooked'
      BY <1>1, <3>1, ParentApart DEF Record
    <3> QED BY <3>2 DEF Housed, HasFolder
  <2> QED BY <2>1, <2>2
<1> QED BY <1>3, <1>4

LEMMA NextHoused ==
    TypeOK /\ JobsPast /\ SoleInv /\ DivergenceInv /\ EnteredInv
        /\ FoldersInv /\ [Next /\ Record]_<<vars, historyVars>> => FoldersInv'
<1> SUFFICES ASSUME TypeOK, JobsPast, SoleInv, DivergenceInv, EnteredInv,
                    FoldersInv, [Next /\ Record]_<<vars, historyVars>>
             PROVE  FoldersInv'
  OBVIOUS
<1> USE DEF fsVars, goVars
<1>1. PICK c : Clients = {c}
  BY DEF SoleInv, OneClient
<1>2. CASE UNCHANGED <<vars, historyVars>>
  BY <1>2 DEF vars, historyVars, FoldersInv, Housed, Present, Arriving,
              HasFolder
<1>3. ASSUME Next, Record, NEW p \in Paths \ {Root} PROVE Housed(c, p)'
  <2>1. Housed(c, p)
    BY <1>1 DEF FoldersInv
  <2>2. CASE Callbacks
    <3>1. PICK q \in Paths :
                \/ Mknod(c, q) \/ Mkdir(c, q) \/ Open(c, q) \/ Unlink(c, q)
                \/ Rmdir(c, q) \/ Write(c, q) \/ Truncate(c, q)
                \/ Release(c, q)
                \/ \E z \in Paths : RenameInMemory(c, q, z) \/ Rename(c, q, z)
      BY <1>1, <2>2 DEF Callbacks
    <3> QED BY <1>1, <1>3, <2>1, <3>1, CallbackHoused
  <2>3. ASSUME NEW s \in sending, SendTx(s) PROVE Housed(c, p)'
    <3>1. UNCHANGED <<db, open, jobs, renaming>>
      BY <2>3 DEF SendTx
    <3> QED BY <1>1, <1>3, <2>1, <3>1, StillHoused DEF Present, Arriving, HasFolder
  <2>4. ASSUME NEW r \in renaming, RenameCommit(r) PROVE Housed(c, p)'
    BY <1>1, <1>3, <2>1, <2>4, CommitHoused
  <2>5. ASSUME NEW j \in Ops, Upload(j) PROVE Housed(c, p)'
    BY <1>1, <1>3, <2>1, <2>5, UploadHoused
  <2>6. ASSUME NEW d \in Clients, NEW m \in inbox[d] PROVE FALSE
    BY <2>6 DEF SoleInv, NoMail
  <2>7. ASSUME NEW d \in Clients, Restart(d) PROVE Housed(c, p)'
    BY <1>1, <1>3, <2>1, <2>7, RestartHoused
  <2>8. ASSUME NEW j \in Ops, UploadTears(j) PROVE Housed(c, p)'
    <3>1. /\ UNCHANGED <<db, open, renaming>>
          /\ jobs[j] # None /\ jobs[j].pc = "data"
          /\ jobs'[j].path = jobs[j].path
          /\ \A i \in Ops : i # j => jobs'[i] = jobs[i]
      BY <2>8, TearsChanges
    <3>2. Present(c, p)' => Present(c, p)
      BY <3>1 DEF Present, Arriving
    <3> QED BY <1>1, <1>3, <2>1, <3>1, <3>2, StillHoused DEF HasFolder
  <2> QED BY <1>3, <2>2, <2>3, <2>4, <2>5, <2>6, <2>7, <2>8
          DEF Next, Background
<1> QED BY <1>1, <1>2, <1>3 DEF FoldersInv

LEMMA InitHoused == InitHistory => FoldersInv
<1> SUFFICES ASSUME InitHistory, NEW c \in Clients, NEW p \in Paths \ {Root},
                    Present(c, p), ~HasFolder(db, c, Parent[p])
             PROVE  Parent[p] \in overlooked
  BY DEF FoldersInv, Housed
<1>1. db[c][p] # None
  BY DEF InitHistory, Init, Present, Arriving
<1> QED BY <1>1, ParentApart DEF InitHistory

(* In a client that is alone an entry without its folder has a named cause.*)
THEOREM DsfsOrphansNamed == OneClient /\ SpecHistory => []OrphansNamed
<1>1. Init => OpenPast /\ OpenInjective
  BY DEF Init, OpenPast, OpenInjective
<1>2. FlagInv => JobsPast
  BY DEF FlagInv
<1>3. InitHistory => Init
  BY DEF InitHistory
<1>4. FoldersInv => OrphansNamed
  BY DEF FoldersInv, Housed, Present, OrphansNamed
<1>5. InitHistory => EnteredInv
  BY DEF InitHistory, Init, EnteredInv
<1> QED BY <1>1, <1>2, <1>3, <1>4, <1>5, NextEntered, InitType, NextType, NextInjective, InitFlag,
           NextFlag, InitDivergence, NextDivergence, InitSole, NextSole,
           InitHoused, NextHoused, HistorySteps, PTL DEF SpecHistory
=============================================================================

---------------------------- MODULE DsfsHistory -----------------------------
(***************************************************************************)
(* Dsfs with three history variables: which folders went while something in*)
(* them was not in the database, which renames something has come into     *)
(* since their test, and which open files differ from the database although*)
(* no write of theirs is outstanding.  Each is a set of named causes, read *)
(* off the steps of Dsfs.                                                  *)
(***************************************************************************)
EXTENDS Dsfs

VARIABLES
    overlooked,   \* folders that went with something hidden in them
    entered,      \* renames with something inserted under them meanwhile
    unsaved       \* open FileDatas that one of the causes has happened to

historyVars == <<overlooked, entered, unsaved>>

-----------------------------------------------------------------------------
Folders == {Parent[p] : p \in Paths}
Children(d) == {p \in Paths : Parent[p] = d}
OpenFiles == {open[c][p] : c \in Clients, p \in Paths} \ {None}

HasFolder(table, c, d) == table[c][d] # None /\ table[c][d].type = "folder"

(* A child that the test for an empty folder does not see: a file that is  *)
(* open only in memory, or an entry that is on its way (fs.go:263, 313).   *)
Hidden(c, d) ==
    \E p \in Children(d) : open[c][p] # None \/ Unsettled(p)

(* An upload has inserted a child since a Rename made that test, at its    *)
(* first acquisition of fs.lock, and before its second (fs.go:313, 348).   *)
Enters(r) == \E p \in Children(r.old) :
                db[r.client][p] = None /\ db'[r.client][p] # None
CameMeanwhile(c, d) ==
    /\ faults' = faults
    /\ \E r \in entered \ renaming' : r.client = c /\ r.old = d

(* A folder goes from the database while it has such a child; a late upload*)
(* puts a file in its place (fs.go:623); or a restart finds a log that does*)
(* not have, or not in order, all that was done to it or in it.            *)
Overlooked(d) ==
    /\ db' # db
    /\ \E c \in Clients :
        \/ /\ HasFolder(db, c, d) /\ ~HasFolder(db', c, d)
           /\ Hidden(c, d) \/ CameMeanwhile(c, d) \/ db'[c][d] # None
        \/ faults' # faults /\ \E p \in {d} \cup Children(d) :
                                    Unsettled(p) \/ p \in tainted

(* A write or a truncation behind the back of an upload, whose deferred    *)
(* call then clears dirty (fs.go:542).                                     *)
WrittenMeanwhile(f) ==
    /\ files'[f].ver # files[f].ver
    /\ \E j \in Ops : /\ jobs[j] # None /\ jobs[j].file = f
                      /\ jobs[j].pc \in {"data", "tx", "insert", "dirty"}

(* An upload whose transaction is that of no content: Release had taken    *)
(* the size of another content (fs.go:528), blocks were not loaded when it *)
(* read them (fs.go:563), or the position of the temporary file was moved  *)
(* under it (cache.go:72).                                                 *)
Tears(j, f) ==
    /\ jobs[j] # None /\ jobs[j].file = f
    /\ jobs'[j] # None /\ jobs'[j] # jobs[j]
    /\ jobs'[j].pc = "data" /\ jobs'[j].ver = Torn(j)
OtherSize(f) ==
    \E j \in Ops : /\ Tears(j, f) /\ At(j, "read")
                  /\ jobs[j].size # files[f].ver
NotLoaded(f) ==
    \E j \in Ops : Tears(j, f) /\ At(j, "read") /\ files[f].loads
PositionMoved(f) ==
    \E j \in Ops : Tears(j, f) /\ At(j, "data") /\ CacheType = "disk"

(* A failed upload clears it too.                                          *)
GivenUp(f) ==
    /\ jobs' # jobs
    /\ \E j \in Ops : /\ jobs[j] # None /\ jobs[j].file = f
                      /\ jobs[j].pc \in {"data", "tx"}
                      /\ jobs'[j] # None /\ jobs'[j].pc = "dirty"

(* A rename moves a file while its upload goes on under the old name, or   *)
(* moves it alone, where either name has an entry: the new one's stays if  *)
(* the file is in memory only (fs.go:299-302), and both stay when the      *)
(* transaction is too large (fs.go:329-337).                               *)
MovedAlone(f) ==
    /\ open' # open
    /\ \E c \in Clients, p, q \in Paths :
        /\ open[c][p] = f /\ open'[c][p] = None /\ open'[c][q] = f
        /\ \/ ~Idle(f)
           \/ renaming' = renaming /\ (db[c][p] # None \/ db[c][q] # None)

(* A rename of a file that is not open leaves the open file of the name it *)
(* replaces where it is (fs.go:321-325).                                   *)
LeftInPlace(f) ==
    \E r \in renaming' \ renaming :
        open[r.client][r.old] = None /\ open[r.client][r.new] = f

(* An upload inserts under a path that is another file's now (fs.go:623).  *)
InsertedOver(f) ==
    \E j \in Ops : /\ At(j, "insert") /\ jobs'[j] # jobs[j]
                  /\ jobs[j].file # f
                  /\ open[jobs[j].client][jobs[j].path] = f

(* A cause is forgotten with the folder's return and with the file.        *)
Record ==
    /\ overlooked' = {d \in Folders :
            /\ d \in overlooked \/ Overlooked(d)
            /\ \E c \in Clients : ~HasFolder(db', c, d)}
    /\ entered' = {r \in renaming \cap renaming' : r \in entered \/ Enters(r)}
    /\ unsaved' = {f \in OpenFiles' :
            \/ f \in unsaved
            \/ OtherSize(f) \/ NotLoaded(f) \/ PositionMoved(f)
            \/ WrittenMeanwhile(f) \/ GivenUp(f)
            \/ MovedAlone(f) \/ LeftInPlace(f) \/ InsertedOver(f)}

(* An orphan may also be what earlier sessions have left.                  *)
InitHistory ==
    /\ Init
    /\ overlooked = {d \in Folders :
            \E c \in Clients, p \in Children(d) \ {Root} :
                db[c][p] # None /\ ~HasFolder(db, c, d)}
    /\ entered = {}
    /\ unsaved = {}

SpecHistory ==
    InitHistory /\ [][Next /\ Record]_<<vars, historyVars>>

-----------------------------------------------------------------------------
(* Properties of a client that is alone.                                   *)

(* An entry of the database has its folder there, unless the folder was    *)
(* removed or renamed when the entry was only in memory or on its way,     *)
(* which is all that the prefix test of Rmdir and Rename misses, or was    *)
(* renamed while an upload inserted the entry between the test and the     *)
(* commit, or was replaced by the upload of a file that had its name       *)
(* before, or a restart found a log that was behind or out of order.       *)
OrphansNamed ==
    \A c \in Clients, p \in Paths \ {Root} :
        db[c][p] # None => \/ HasFolder(db, c, Parent[p])
                           \/ Parent[p] \in overlooked

(* A file that has no write outstanding has its content in the database,   *)
(* or was never written, or is about to: what close() promises (fs.go:504),*)
(* with every cause that breaks the promise named.                         *)
CleanMeansSaved ==
    \A c \in Clients, p \in Paths :
        LET f == open[c][p] IN
        f # None => \/ files[f].dirty \/ f \in unsaved
                    \/ db[c][p] = File(files[f].ver)
                    \/ db[c][p] = None /\ files[f].ver = 0
                    \/ \E r \in renaming : r.new = p
=============================================================================

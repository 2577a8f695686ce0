------------------------------ MODULE Database ------------------------------
(***************************************************************************)
(* The two databases of db.go and their iterators.  RadixDB iterates over  *)
(* an immutable root; MapDB ranges over its map in a goroutine that hands  *)
(* each match over on an unbuffered channel.  A callback that returns at   *)
(* the first other key leaves that goroutine behind, where fs.lock no      *)
(* longer keeps it apart from those who write the map.                     *)
(***************************************************************************)
EXTENDS Integers, FiniteSets

CONSTANTS
    Keys, Values, None,
    StartsWith,   \* the keys whose string has this key as a prefix
    Kinds,        \* which of "radix", "map" the program may be run with
    MaxIters,     \* bound on iterators
    MaxUpdates    \* bound on updates

ASSUME DatabaseConstants ==
    /\ None \notin Values
    /\ StartsWith \in [Keys -> SUBSET Keys]
    /\ \A k \in Keys : k \in StartsWith[k]
    /\ Kinds \subseteq {"radix", "map"}
    /\ MaxIters \in Nat /\ MaxUpdates \in Nat

VARIABLES
    table,      \* RadixDB.radix or MapDB.mapDB
    user,       \* the callback that iterates with fs.lock held, or Idle
    got,        \* what Next has returned to it
    kind,       \* -d: the database of this process
    iters,      \* the iterators made so far; the last one is the callback's
    updates,    \* updates so far
    abandoned,  \* history: the iterators whose callback returned early
    crashed     \* the goroutines whose reads ended the process

vars == <<table, user, got, kind, iters, updates, abandoned, crashed>>

D == INSTANCE DatabaseSpec

Idle == [op |-> "none"]
Table == [Keys -> Values \cup {None}]
Entry == [key : Keys, val : Values]
Snapshot == [left : SUBSET Entry]
Goroutine == [pc : {"scan", "send", "last", "gone"}, prefix : Keys,
              visited : SUBSET Keys, entry : Entry \cup {None}]

Init ==
    /\ table \in Table
    /\ user = Idle
    /\ got = {}
    /\ kind \in Kinds
    /\ iters = <<>>
    /\ updates = 0
    /\ abandoned = {}
    /\ crashed = {}

Running == crashed = {}
Last == Cardinality(DOMAIN iters)

(* Goroutines inside the range over the map.                               *)
Scanning == {i \in DOMAIN iters : kind = "map" /\ iters[i].pc = "scan"}

-----------------------------------------------------------------------------
Lock == user = Idle

(* db.Insert or db.Delete.  Where a goroutine is reading the map the Go    *)
(* runtime may notice the write and end the process, or it may not.        *)
Write(k, v) ==
    /\ table' = [table EXCEPT ![k] = v]
    /\ crashed' \in {{}, Scanning}

Update(k, v) ==
    /\ Running /\ Lock
    /\ updates < MaxUpdates
    /\ updates' = updates + 1
    /\ Write(k, v)
    /\ UNCHANGED <<user, got, kind, iters, abandoned>>

(* A mutant: a folder is no match for itself.                              *)
OnlyBelow(p) == StartsWith[p] \ {p}

HasPrefix(p) == StartsWith[p]

EntryOf(k) == [key |-> k, val |-> table[k]]
Matches(p) == {k \in HasPrefix(p) : table[k] # None}

(* RadixDB seeks in its root; MapDB starts a goroutine.                    *)
NewIterator(p) ==
    IF kind = "radix" THEN [left |-> {EntryOf(k) : k \in Matches(p)}]
    ELSE [pc |-> "scan", prefix |-> p, visited |-> {}, entry |-> None]

(* A callback takes fs.lock and calls fs.db.Iterator: Rmdir and Rename of  *)
(* a folder that they have found, and Readdir of any path.                 *)
Iterator(op, p) ==
    /\ Running /\ user = Idle
    /\ op = "Readdir" \/ table[p] # None
    /\ Last < MaxIters
    /\ user' = [op |-> op, path |-> p]
    /\ iters' = [i \in 1..(Last + 1) |->
                    IF i <= Last THEN iters[i] ELSE NewIterator(p)]
    /\ UNCHANGED <<table, got, kind, updates, abandoned, crashed>>

(* The goroutine goes on in its range: to a match it has not visited, in   *)
(* any order, or to the end.                                               *)
Scan(i) ==
    /\ Running
    /\ i \in Scanning
    /\ LET rest == Matches(iters[i].prefix) \ iters[i].visited IN
       \/ \E k \in rest :
            iters' = [iters EXCEPT ![i].pc = "send",
                                   ![i].entry = EntryOf(k),
                                   ![i].visited = @ \cup {k}]
       \/ /\ rest = {}
          /\ iters' = [iters EXCEPT ![i].pc = "last"]
    /\ UNCHANGED <<table, user, got, kind, updates, abandoned, crashed>>

(* A key of another entry makes Rmdir and Rename return.                   *)
Other == user.op # "Readdir" /\ \E e \in got : e.key # user.path

(* it.Next() of RadixDB.                                                   *)
NextRadix ==
    /\ Running /\ user # Idle /\ ~Other
    /\ kind = "radix"
    /\ \E e \in iters[Last].left :
        /\ iters' = [iters EXCEPT ![Last].left = @ \ {e}]
        /\ got' = got \cup {e}
    /\ UNCHANGED <<table, user, kind, updates, abandoned, crashed>>

(* it.Next() of MapDB: the goroutine's send meets the receiver.            *)
NextMap(i) ==
    /\ Running /\ user # Idle /\ ~Other
    /\ kind = "map"
    /\ i = Last /\ iters[i].pc = "send"
    /\ iters' = [iters EXCEPT ![i].pc = "scan"]
    /\ got' = got \cup {iters[i].entry}
    /\ UNCHANGED <<table, user, kind, updates, abandoned, crashed>>

(* Mutants: the end is never told; the callback stops after one entry.     *)
NeverTold == kind = "radix" /\ iters[Last].left = {}
AfterOne == got # {}

Drained == IF kind = "radix" THEN iters[Last].left = {}
           ELSE iters[Last].pc = "last"

(* The goroutine's last send has been received.                            *)
AfterSend(pc) == IF pc = "last" THEN "gone" ELSE pc

(* Next returns false: Rmdir deletes the folder, Rename goes on without    *)
(* the lock, Readdir has its listing.                                      *)
Finish ==
    /\ Running /\ user # Idle /\ ~Other
    /\ Drained
    /\ iters' = IF kind = "radix" THEN iters
                ELSE [iters EXCEPT ![Last].pc = AfterSend(@)]
    /\ \/ user.op # "Rmdir" /\ UNCHANGED <<table, crashed>>
       \/ user.op = "Rmdir" /\ Write(user.path, None)
    /\ user' = Idle /\ got' = {}
    /\ UNCHANGED <<kind, updates, abandoned>>

(* return -fuse.ENOTEMPTY, the iterator forgotten.                         *)
Leave ==
    /\ Running /\ user # Idle /\ Other
    /\ abandoned' = abandoned \cup {Last}
    /\ user' = Idle /\ got' = {}
    /\ UNCHANGED <<table, kind, iters, updates, crashed>>

Callback ==
    NextRadix \/ (\E i \in DOMAIN iters : NextMap(i)) \/ Finish \/ Leave

Next ==
    \/ \E k \in Keys, v \in Values \cup {None} : Update(k, v)
    \/ \E op \in {"Readdir", "Rmdir", "Rename"}, p \in Keys : Iterator(op, p)
    \/ \E i \in 1..MaxIters : Scan(i)
    \/ Callback

(* The callback's thread and the goroutines run.                           *)
Spec ==
    /\ Init /\ [][Next]_vars
    /\ WF_vars(Callback)
    /\ \A i \in 1..MaxIters : WF_vars(Scan(i))

-----------------------------------------------------------------------------
(* Properties.                                                             *)

(* The type invariant.  What could fail: nothing but what the database has *)
(* under the callback's prefix at this moment is ever returned to it.      *)
TypeOK ==
    /\ table \in Table
    /\ user = Idle \/ user \in [op : D!Callbacks, path : Keys]
    /\ IF user = Idle THEN got = {} ELSE got \subseteq D!Entries(user.path)
    /\ kind \in Kinds
    /\ DOMAIN iters = 1..Last /\ Last <= MaxIters
    /\ \A i \in DOMAIN iters :
        iters[i] \in IF kind = "radix" THEN Snapshot ELSE Goroutine
    /\ abandoned \subseteq DOMAIN iters
    /\ crashed \subseteq DOMAIN iters

(* Either database is one to its callbacks: an iteration gives what is     *)
(* there, each key once, and ends only when all was given, so that Rmdir   *)
(* deletes and Rename moves only a folder whose own key is alone under its *)
(* prefix; whatever abandoned goroutines do besides.                       *)
ImplementsDatabaseSpec == D!Spec

(* The process ends on a map that is read while it is written only with    *)
(* MapDB, and only by the goroutine of an Rmdir or Rename that returned    *)
(* ENOTEMPTY: all other reads are inside the critical section.             *)
CrashNamed == crashed # {} => kind = "map" /\ crashed \subseteq abandoned

(* A goroutine that outlives its callback is one of those.                 *)
LeakNamed ==
    kind = "map" => \A i \in DOMAIN iters :
        \/ iters[i].pc = "gone"
        \/ i \in abandoned
        \/ user # Idle /\ i = Last

(* The invariant of the database: its type, and what its goroutines may do.*)
DatabaseInv == TypeOK /\ CrashNamed /\ LeakNamed

(* An iteration ends, and fs.lock with it is released, although the        *)
(* callback waits on a channel with the lock held.                         *)
IterationEnds == user # Idle ~> (user = Idle \/ ~Running)
=============================================================================

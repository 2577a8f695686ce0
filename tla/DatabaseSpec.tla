---------------------------- MODULE DatabaseSpec ----------------------------
(***************************************************************************)
(* What the file system relies on in a DB (db.go): a function of keys, and *)
(* under fs.lock an iteration that gives each key with the prefix once,    *)
(* with the value it has, before it says that there are no more.           *)
(***************************************************************************)
EXTENDS Integers, FiniteSets

CONSTANTS
    Keys, Values, None,
    StartsWith    \* the keys whose string has this key as a prefix

Callbacks == {"Readdir", "Rmdir", "Rename"}
Idle == [op |-> "none"]

VARIABLES
    table,   \* the value of each key, or None
    user,    \* the callback that iterates with fs.lock held, or Idle
    got      \* the keys and values it has been given

vars == <<table, user, got>>

Table == [Keys -> Values \cup {None}]
Present(k) == table[k] # None

(* What there is under a prefix.                                           *)
Entries(p) ==
    {[key |-> k, val |-> table[k]] : k \in {q \in StartsWith[p] : Present(q)}}

Init == table \in Table /\ user = Idle /\ got = {}

(* Insert and Delete, by whoever has the lock.                             *)
Update(k, v) ==
    /\ user = Idle
    /\ table' = [table EXCEPT ![k] = v]
    /\ UNCHANGED <<user, got>>

(* Readdir lists any path, the others one that is there.                   *)
Begin(op, p) ==
    /\ user = Idle
    /\ op = "Readdir" \/ Present(p)
    /\ user' = [op |-> op, path |-> p]
    /\ got' = {}
    /\ UNCHANGED table

Give(e) ==
    /\ user # Idle
    /\ e \in Entries(user.path) \ got
    /\ got' = got \cup {e}
    /\ UNCHANGED <<table, user>>

(* Readdir reads on to the end; Rmdir and Rename only when the folder's own*)
(* key is all there is, and Rmdir then deletes it.                         *)
Finish ==
    /\ user # Idle
    /\ got = Entries(user.path)
    /\ \/ user.op # "Rmdir" /\ UNCHANGED table
       \/ user.op = "Rmdir" /\ table' = [table EXCEPT ![user.path] = None]
    /\ user' = Idle
    /\ got' = {}

(* ENOTEMPTY: another key was given.                                       *)
Abandon ==
    /\ user # Idle /\ user.op # "Readdir"
    /\ \E e \in got : e.key # user.path
    /\ user' = Idle
    /\ got' = {}
    /\ UNCHANGED table

Next ==
    \/ \E k \in Keys, v \in Values \cup {None} : Update(k, v)
    \/ \E op \in Callbacks, p \in Keys : Begin(op, p)
    \/ \E k \in Keys, v \in Values : Give([key |-> k, val |-> v])
    \/ Finish \/ Abandon

Spec == Init /\ [][Next]_vars
=============================================================================

--------------------------- MODULE DatabaseProofs ---------------------------
(***************************************************************************)
(* That either database is one map with an exact iterator to the callbacks *)
(* that use it, and that only abandoned goroutines outlive their callback  *)
(* or meet a write, for any keys, values and number of iterators.          *)
(*                                                                         *)
(* DatabaseInv is not inductive: it must be known what the iterator of the *)
(* callback still has to give.  That is what RadixRest and MapRest add.    *)
(* They hold because the callback has fs.lock, so that the table does not  *)
(* change while it iterates; nothing is said of abandoned iterators.       *)
(***************************************************************************)
EXTENDS Database, FiniteSetTheorems, TLAPS

Given(S) == {EntryOf(k) : k \in S}

(* RadixDB: the snapshot has what was not given.                           *)
RadixRest ==
    kind = "radix" /\ user # Idle =>
        /\ iters[Last].left \cup got = D!Entries(user.path)
        /\ iters[Last].left \cap got = {}

(* MapDB: the keys visited were given, but for the one at the send.        *)
MapRest ==
    kind = "map" /\ user # Idle =>
        LET it == iters[Last] IN
        /\ it.prefix = user.path
        /\ it.visited \subseteq Matches(user.path)
        /\ it.pc # "gone"
        /\ it.pc \in {"scan", "last"} => got = Given(it.visited)
        /\ it.pc = "last" => it.visited = Matches(user.path)
        /\ it.pc = "send" => \E k \in it.visited :
               it.entry = EntryOf(k) /\ got = Given(it.visited \ {k})

(* The callback's iterator is the youngest.                                *)
Youngest ==
    /\ Last \in Nat
    /\ user # Idle => Last \in DOMAIN iters /\ Last \notin abandoned
    /\ \A i \in abandoned : i \in DOMAIN iters

IterInv == DatabaseInv /\ RadixRest /\ MapRest /\ Youngest

-----------------------------------------------------------------------------
LEMMA EntriesAreMatches ==
    ASSUME NEW p
    PROVE  D!Entries(p) = Given(Matches(p))
  BY DEF D!Entries, D!Present, Given, Matches, HasPrefix, EntryOf

LEMMA EntryNamesKey ==
    ASSUME NEW k, NEW j, EntryOf(k) = EntryOf(j)
    PROVE  k = j
  BY DEF EntryOf

LEMMA MatchesAreKeys ==
    ASSUME TypeOK, NEW p \in Keys
    PROVE  /\ Matches(p) \subseteq Keys
           /\ \A k \in Matches(p) : EntryOf(k) \in Entry
           /\ \A k \in Matches(p) : table[k] \in Values
  BY DatabaseConstants DEF TypeOK, Table, Matches, HasPrefix, EntryOf, Entry

(* The type of the callback, as the cases need it.                         *)
LEMMA UserType ==
    ASSUME TypeOK, user # Idle
    PROVE  /\ user.op \in {"Readdir", "Rmdir", "Rename"}
           /\ user.path \in Keys
           /\ got \subseteq D!Entries(user.path)
  BY DEF TypeOK, D!Callbacks

-----------------------------------------------------------------------------
LEMMA InitIterInv == Init => IterInv
  <1> SUFFICES ASSUME Init PROVE IterInv
    OBVIOUS
  <1>1. DOMAIN iters = {} /\ DOMAIN iters = 1..0
    BY DEF Init
  <1>2. Last = 0
    BY <1>1, FS_EmptySet DEF Last
  <1>3. TypeOK
    BY <1>1, <1>2, DatabaseConstants DEF Init, TypeOK
  <1>4. QED
    BY <1>1, <1>2, <1>3 DEF Init, IterInv, DatabaseInv, CrashNamed, LeakNamed,
                      RadixRest, MapRest, Youngest

-----------------------------------------------------------------------------
(* Only abandoned goroutines range over the map outside a callback.        *)
LEMMA ScanningAbandoned ==
    ASSUME IterInv, user = Idle \/ iters[Last].pc = "last"
    PROVE  /\ Scanning \subseteq abandoned
           /\ Scanning \subseteq DOMAIN iters
           /\ Scanning # {} => kind = "map"
  BY DEF IterInv, DatabaseInv, LeakNamed, Scanning

LEMMA UpdateInv ==
    ASSUME IterInv, NEW k \in Keys, NEW v \in Values \cup {None}, Update(k, v)
    PROVE  IterInv'
  <1>1. user = Idle /\ user' = Idle
    BY DEF Update, Lock
  <1>2. crashed' \in {{}, Scanning}
    BY DEF Update, Write
  <1>3. /\ Scanning \subseteq abandoned /\ Scanning \subseteq DOMAIN iters
        /\ Scanning # {} => kind = "map"
    BY <1>1, ScanningAbandoned
  <1>4. Last' = Last
    BY DEF Update, Last
  <1>5. TypeOK'
    BY <1>1, <1>2, <1>3, <1>4
    DEF IterInv, DatabaseInv, TypeOK, Update, Write, Table
  <1>6. CrashNamed' /\ LeakNamed'
    BY <1>1, <1>2, <1>3, <1>4
    DEF IterInv, DatabaseInv, CrashNamed, LeakNamed, Update
  <1>7. RadixRest' /\ MapRest' /\ Youngest'
    BY <1>1, <1>4 DEF IterInv, RadixRest, MapRest, Youngest, Update
  <1>8. QED
    BY <1>5, <1>6, <1>7 DEF IterInv, DatabaseInv

LEMMA IteratorInv ==
    ASSUME IterInv, NEW op \in D!Callbacks, NEW p \in Keys, Iterator(op, p)
    PROVE  IterInv'
  <1> DEFINE n == Last
  <1>1. /\ n \in Nat /\ DOMAIN iters = 1..n /\ n < MaxIters
        /\ MaxIters \in Nat
    BY DatabaseConstants DEF IterInv, DatabaseInv, TypeOK, Youngest, Iterator
  <1>2. /\ DOMAIN iters' = 1..(n + 1)
        /\ \A i \in 1..n : iters'[i] = iters[i]
        /\ iters'[n + 1] = NewIterator(p)
    BY <1>1 DEF Iterator
  <1>3. Last' = n + 1
    BY <1>1, <1>2, FS_Interval DEF Last
  <1>4. /\ user = Idle /\ user' = [op |-> op, path |-> p] /\ user' # Idle
        /\ got = {} /\ got' = {}
        /\ UNCHANGED <<table, kind, updates, abandoned, crashed>>
    BY DEF Iterator, IterInv, DatabaseInv, TypeOK, D!Callbacks, Idle
  <1>5. /\ kind = "radix" =>
             /\ NewIterator(p) \in Snapshot
             /\ NewIterator(p).left = D!Entries(p)
        /\ kind # "radix" =>
             /\ NewIterator(p) \in Goroutine
             /\ NewIterator(p) =
                    [pc |-> "scan", prefix |-> p, visited |-> {}, entry |-> None]
    BY MatchesAreKeys, EntriesAreMatches
    DEF NewIterator, Snapshot, Goroutine, Given, IterInv, DatabaseInv
  <1>6. TypeOK'
    BY <1>1, <1>2, <1>3, <1>4, <1>5
    DEF IterInv, DatabaseInv, TypeOK
  <1>7. CrashNamed' /\ LeakNamed'
    BY <1>1, <1>2, <1>3, <1>4
    DEF IterInv, DatabaseInv, TypeOK, CrashNamed, LeakNamed
  <1>8. RadixRest'
    <2>1. D!Entries(p)' = D!Entries(p)
      BY <1>4 DEF D!Entries, D!Present
    <2>2. QED
      BY <1>2, <1>3, <1>4, <1>5, <2>1 DEF RadixRest
  <1>9. MapRest'
    BY <1>2, <1>3, <1>4, <1>5 DEF MapRest, Given
  <1>10. Youngest'
    BY <1>1, <1>2, <1>3, <1>4 DEF Youngest, IterInv
  <1>11. QED
    BY <1>6, <1>7, <1>8, <1>9, <1>10 DEF IterInv, DatabaseInv

-----------------------------------------------------------------------------
(* A goroutine's step: the youngest is the callback's, if there is one.    *)
LEMMA ScanInv ==
    ASSUME IterInv, NEW i \in 1..MaxIters, Scan(i)
    PROVE  IterInv'
  <1> DEFINE it == iters[i]
  <1>1. /\ kind = "map" /\ i \in DOMAIN iters /\ it.pc = "scan"
        /\ UNCHANGED <<table, user, got, kind, updates, abandoned, crashed>>
    BY DEF Scan, Scanning
  <1>2. it \in Goroutine
    BY <1>1 DEF IterInv, DatabaseInv, TypeOK
  <1>3. /\ DOMAIN iters' = DOMAIN iters /\ Last' = Last
        /\ \A j \in DOMAIN iters : j # i => iters'[j] = iters[j]
    BY DEF Scan, Last
  <1>4. /\ iters'[i] \in Goroutine
        /\ iters'[i].pc \in {"send", "last"}
        /\ iters'[i].prefix = it.prefix
    <2>1. CASE iters' = [iters EXCEPT ![i].pc = "last"]
      BY <1>1, <1>2, <2>1 DEF Goroutine
    <2>2. ASSUME NEW k \in Matches(it.prefix),
                 iters' = [iters EXCEPT ![i].pc = "send",
                                        ![i].entry = EntryOf(k),
                                        ![i].visited = @ \cup {k}]
          PROVE  <1>4!1 /\ <1>4!2 /\ <1>4!3
      <3>1. k \in Keys /\ EntryOf(k) \in Entry
        BY <1>2, MatchesAreKeys DEF IterInv, DatabaseInv, Goroutine
      <3>2. QED
        BY <1>1, <1>2, <2>2, <3>1 DEF Goroutine
    <2>3. QED
      BY <2>1, <2>2 DEF Scan
  <1>5. TypeOK'
    <2>1. user # Idle => D!Entries(user.path)' = D!Entries(user.path)
      BY <1>1 DEF D!Entries, D!Present
    <2>2. QED
      BY <1>1, <1>3, <1>4, <2>1 DEF IterInv, DatabaseInv, TypeOK
  <1>6. CrashNamed' /\ LeakNamed'
    BY <1>1, <1>3, <1>4 DEF IterInv, DatabaseInv, CrashNamed, LeakNamed
  <1>7. RadixRest'
    BY <1>1 DEF RadixRest
  <1>8. MapRest'
    <2> SUFFICES ASSUME user # Idle PROVE MapRest'
      BY <1>1 DEF MapRest
    <2> DEFINE M == Matches(user.path)
    <2>1. M' = M /\ \A S : Given(S)' = Given(S)
      BY <1>1 DEF Matches, HasPrefix, Given, EntryOf
    <2>2. CASE i # Last
      BY <1>1, <1>3, <2>1, <2>2
      DEF MapRest, IterInv, Youngest, EntryOf, Given, Matches, HasPrefix
    <2>3. CASE i = Last
      <3>1. /\ it.prefix = user.path /\ it.visited \subseteq M
            /\ got = Given(it.visited)
        BY <1>1, <2>3 DEF IterInv, MapRest
      <3>2. CASE /\ M \ it.visited = {}
                 /\ iters' = [iters EXCEPT ![i].pc = "last"]
        <4>1. /\ iters'[i].pc = "last" /\ iters'[i].visited = it.visited
              /\ iters'[i].prefix = it.prefix
          BY <1>1, <1>2, <3>2 DEF Goroutine
        <4>2. it.visited = M
          BY <3>1, <3>2
        <4>3. QED
          BY <1>1, <1>3, <2>1, <2>3, <3>1, <4>1, <4>2 DEF MapRest
      <3>3. CASE \E k \in M \ it.visited :
                 iters' = [iters EXCEPT ![i].pc = "send",
                                        ![i].entry = EntryOf(k),
                                        ![i].visited = @ \cup {k}]
        <4>1. PICK k \in M \ it.visited :
                 iters' = [iters EXCEPT ![i].pc = "send",
                                        ![i].entry = EntryOf(k),
                                        ![i].visited = @ \cup {k}]
          BY <3>3
        <4>2. /\ iters'[i].pc = "send" /\ iters'[i].entry = EntryOf(k)
              /\ iters'[i].visited = it.visited \cup {k}
              /\ iters'[i].prefix = it.prefix
          BY <1>1, <1>2, <4>1 DEF Goroutine
        <4>3. (it.visited \cup {k}) \ {k} = it.visited
          BY <4>1
        <4>4. /\ got = Given(iters'[i].visited \ {k})
              /\ k \in iters'[i].visited
              /\ iters'[i].visited \subseteq M
          BY <3>1, <4>1, <4>2, <4>3
        <4>5. QED
          BY <1>1, <1>3, <2>3, <3>1, <4>2, <4>4
          DEF MapRest, Given, EntryOf, Matches, HasPrefix
      <3>4. Matches(it.prefix) = M
        BY <3>1
      <3>5. QED
        BY <3>2, <3>3, <3>4 DEF Scan
    <2>4. QED
      BY <2>2, <2>3
  <1>9. Youngest'
    BY <1>1, <1>3 DEF IterInv, Youngest
  <1>10. QED
    BY <1>5, <1>6, <1>7, <1>8, <1>9 DEF IterInv, DatabaseInv

-----------------------------------------------------------------------------
(* The callback's steps.                                                   *)
LEMMA NextRadixInv ==
    ASSUME IterInv, NextRadix
    PROVE  IterInv'
  <1>1. PICK e \in iters[Last].left :
            /\ iters' = [iters EXCEPT ![Last].left = @ \ {e}]
            /\ got' = got \cup {e}
    BY DEF NextRadix
  <1>2. /\ kind = "radix" /\ user # Idle
        /\ UNCHANGED <<table, user, kind, updates, abandoned, crashed>>
    BY DEF NextRadix
  <1>3. Last \in DOMAIN iters /\ iters[Last] \in Snapshot
    BY <1>2 DEF IterInv, DatabaseInv, TypeOK, Youngest
  <1>4. /\ DOMAIN iters' = DOMAIN iters /\ Last' = Last
        /\ \A j \in DOMAIN iters : j # Last => iters'[j] = iters[j]
        /\ iters'[Last].left = iters[Last].left \ {e}
        /\ iters'[Last] \in Snapshot
    BY <1>1, <1>3 DEF Last, Snapshot
  <1>5. /\ D!Entries(user.path)' = D!Entries(user.path)
        /\ iters[Last].left \cup got = D!Entries(user.path)
        /\ iters[Last].left \cap got = {}
    BY <1>2 DEF D!Entries, D!Present, IterInv, RadixRest
  <1>6. TypeOK'
    BY <1>1, <1>2, <1>4, <1>5 DEF IterInv, DatabaseInv, TypeOK
  <1>7. CrashNamed' /\ LeakNamed'
    BY <1>2 DEF IterInv, DatabaseInv, CrashNamed, LeakNamed
  <1>8. RadixRest'
    BY <1>1, <1>2, <1>4, <1>5 DEF RadixRest
  <1>9. MapRest' /\ Youngest'
    BY <1>2, <1>4 DEF IterInv, MapRest, Youngest
  <1>10. QED
    BY <1>6, <1>7, <1>8, <1>9 DEF IterInv, DatabaseInv

LEMMA NextMapInv ==
    ASSUME IterInv, NextMap(Last)
    PROVE  IterInv'
  <1> DEFINE it == iters[Last]
  <1>1. /\ kind = "map" /\ user # Idle /\ it.pc = "send"
        /\ iters' = [iters EXCEPT ![Last].pc = "scan"]
        /\ got' = got \cup {it.entry}
        /\ UNCHANGED <<table, user, kind, updates, abandoned, crashed>>
    BY DEF NextMap
  <1>2. Last \in DOMAIN iters /\ it \in Goroutine
    BY <1>1 DEF IterInv, DatabaseInv, TypeOK, Youngest
  <1>3. /\ DOMAIN iters' = DOMAIN iters /\ Last' = Last
        /\ \A j \in DOMAIN iters : j # Last => iters'[j] = iters[j]
        /\ iters'[Last].pc = "scan" /\ iters'[Last].prefix = it.prefix
        /\ iters'[Last].visited = it.visited
        /\ iters'[Last] \in Goroutine
    BY <1>1, <1>2 DEF Last, Goroutine
  <1>4. /\ it.prefix = user.path /\ it.visited \subseteq Matches(user.path)
        /\ \E k \in it.visited :
               it.entry = EntryOf(k) /\ got = Given(it.visited \ {k})
    BY <1>1 DEF IterInv, MapRest
  <1>5. got' = Given(it.visited)
    BY <1>1, <1>4 DEF Given
  <1>6. /\ D!Entries(user.path)' = D!Entries(user.path)
        /\ got' \subseteq D!Entries(user.path)
    <2>1. Given(it.visited) \subseteq Given(Matches(user.path))
      BY <1>4 DEF Given
    <2>2. QED
      BY <1>1, <1>5, <2>1, EntriesAreMatches DEF D!Entries, D!Present
  <1>7. TypeOK'
    BY <1>1, <1>3, <1>6 DEF IterInv, DatabaseInv, TypeOK
  <1>8. CrashNamed' /\ LeakNamed'
    BY <1>1, <1>3 DEF IterInv, DatabaseInv, CrashNamed, LeakNamed
  <1>9. RadixRest' /\ Youngest'
    BY <1>1, <1>3 DEF IterInv, RadixRest, Youngest
  <1>10. MapRest'
    BY <1>1, <1>3, <1>4, <1>5
    DEF MapRest, Given, EntryOf, Matches, HasPrefix
  <1>11. QED
    BY <1>7, <1>8, <1>9, <1>10 DEF IterInv, DatabaseInv

LEMMA FinishInv ==
    ASSUME IterInv, Finish
    PROVE  IterInv'
  <1>1. /\ user # Idle /\ user' = Idle /\ got' = {} /\ Drained
        /\ iters' = IF kind = "radix" THEN iters
                    ELSE [iters EXCEPT ![Last].pc = AfterSend(@)]
        /\ UNCHANGED <<kind, updates, abandoned>>
    BY DEF Finish
  <1>2. kind = "radix" => Scanning = {}
    BY DEF Scanning
  <1>3. kind # "radix" => kind = "map" /\ iters[Last].pc = "last"
    BY <1>1, DatabaseConstants DEF Drained, IterInv, DatabaseInv, TypeOK
  <1>4. Last \in DOMAIN iters
    BY <1>1 DEF IterInv, Youngest
  <1>5. /\ DOMAIN iters' = DOMAIN iters /\ Last' = Last
        /\ \A j \in DOMAIN iters : j # Last => iters'[j] = iters[j]
        /\ kind = "radix" => iters' = iters
    BY <1>1 DEF Last
  <1>6. kind = "map" => iters'[Last].pc = "gone" /\ iters'[Last] \in Goroutine
    BY <1>1, <1>3, <1>4
    DEF AfterSend, Goroutine, IterInv, DatabaseInv, TypeOK
  <1>7. /\ table' \in Table
        /\ crashed' = crashed \/ crashed' = {} \/ crashed' = Scanning
    <2>1. user.op = "Rmdir" => user.path \in Keys
      BY <1>1, UserType DEF IterInv, DatabaseInv
    <2>2. CASE UNCHANGED <<table, crashed>>
      BY <2>2 DEF IterInv, DatabaseInv, TypeOK
    <2>3. CASE user.op = "Rmdir" /\ Write(user.path, None)
      BY <2>1, <2>3 DEF Write, Table, IterInv, DatabaseInv, TypeOK
    <2>4. QED
      BY <2>2, <2>3 DEF Finish
  <1>8. /\ Scanning \subseteq abandoned /\ Scanning \subseteq DOMAIN iters
        /\ Scanning # {} => kind = "map"
    BY <1>2, <1>3, ScanningAbandoned
  <1>9. TypeOK'
    BY <1>1, <1>3, <1>5, <1>6, <1>7, <1>8 DEF IterInv, DatabaseInv, TypeOK
  <1>10. CrashNamed'
    BY <1>1, <1>7, <1>8 DEF IterInv, DatabaseInv, CrashNamed
  <1>11. LeakNamed'
    BY <1>1, <1>5, <1>6 DEF IterInv, DatabaseInv, LeakNamed
  <1>12. RadixRest' /\ MapRest' /\ Youngest'
    BY <1>1, <1>5 DEF IterInv, RadixRest, MapRest, Youngest
  <1>13. QED
    BY <1>9, <1>10, <1>11, <1>12 DEF IterInv, DatabaseInv

LEMMA LeaveInv ==
    ASSUME IterInv, Leave
    PROVE  IterInv'
  <1>1. /\ user # Idle /\ user' = Idle /\ got' = {}
        /\ abandoned' = abandoned \cup {Last} /\ Last' = Last
        /\ UNCHANGED <<table, kind, iters, updates, crashed>>
    BY DEF Leave, Last
  <1>2. QED
    BY <1>1
    DEF IterInv, DatabaseInv, TypeOK, CrashNamed, LeakNamed,
        RadixRest, MapRest, Youngest

LEMMA StepIterInv == IterInv /\ [Next]_vars => IterInv'
  <1> SUFFICES ASSUME IterInv, [Next]_vars PROVE IterInv'
    OBVIOUS
  <1>1. CASE \E k \in Keys, v \in Values \cup {None} : Update(k, v)
    BY <1>1, UpdateInv
  <1>2. CASE \E op \in {"Readdir", "Rmdir", "Rename"}, p \in Keys :
                 Iterator(op, p)
    BY <1>2, IteratorInv DEF D!Callbacks
  <1>3. CASE \E i \in 1..MaxIters : Scan(i)
    BY <1>3, ScanInv
  <1>4. CASE NextRadix
    BY <1>4, NextRadixInv
  <1>5. CASE \E i \in DOMAIN iters : NextMap(i)
    BY <1>5, NextMapInv DEF NextMap
  <1>6. CASE Finish
    BY <1>6, FinishInv
  <1>7. CASE Leave
    BY <1>7, LeaveInv
  <1>8. CASE UNCHANGED vars
    BY <1>8
    DEF vars, IterInv, DatabaseInv, TypeOK, CrashNamed, LeakNamed, RadixRest,
        MapRest, Youngest, Last, D!Entries, D!Present, Matches, HasPrefix,
        Given, EntryOf
  <1>9. QED
    BY <1>1, <1>2, <1>3, <1>4, <1>5, <1>6, <1>7, <1>8 DEF Next, Callback

(* The database's own correctness: what a callback has been given is what  *)
(* is there, only an abandoned MapDB goroutine outlives its callback, and  *)
(* only such a one can end the process by reading a map that is written.   *)
THEOREM DatabaseSafety == Spec => []DatabaseInv
  <1>1. IterInv => DatabaseInv
    BY DEF IterInv
  <1>2. QED
    BY <1>1, InitIterInv, StepIterInv, PTL DEF Spec

-----------------------------------------------------------------------------
(* A step of either database is one of the map that the callbacks see, or  *)
(* nothing to it: the goroutines that were left behind are invisible.      *)
LEMMA StepImplements ==
    IterInv /\ [Next]_vars => [D!Next]_(D!vars)
  <1> SUFFICES ASSUME IterInv, [Next]_vars PROVE [D!Next]_(D!vars)
    OBVIOUS
  <1>1. ASSUME NEW k \in Keys, NEW v \in Values \cup {None}, Update(k, v)
        PROVE  D!Next
    BY <1>1 DEF Update, Lock, Write, Idle, D!Next, D!Update, D!Idle
  <1>2. ASSUME NEW op \in D!Callbacks, NEW p \in Keys, Iterator(op, p)
        PROVE  D!Next
    <2>1. D!Begin(op, p)
      BY <1>2 DEF Iterator, D!Begin, D!Present, D!Idle, Idle,
                  IterInv, DatabaseInv, TypeOK
    <2>2. QED
      BY <2>1 DEF D!Next
  <1>3. CASE \E i \in 1..MaxIters : Scan(i)
    BY <1>3 DEF Scan, D!vars
  <1>4. CASE NextRadix
    <2>1. PICK e \in iters[Last].left : got' = got \cup {e}
      BY <1>4 DEF NextRadix
    <2>2. user # Idle /\ UNCHANGED <<table, user>>
      BY <1>4 DEF NextRadix
    <2>3. e \in D!Entries(user.path) \ got
      BY <1>4, <2>1 DEF NextRadix, IterInv, RadixRest
    <2>4. e \in Given(Matches(user.path))
      BY <2>3, EntriesAreMatches
    <2>5. PICK k \in Matches(user.path) : e = EntryOf(k)
      BY <2>4 DEF Given
    <2>6. k \in Keys /\ table[k] \in Values
      BY <2>2, <2>5, UserType, MatchesAreKeys DEF IterInv, DatabaseInv
    <2>7. D!Give(e)
      BY <2>1, <2>2, <2>3 DEF D!Give, D!Idle, Idle
    <2>8. QED
      BY <2>5, <2>6, <2>7 DEF D!Next, EntryOf
  <1>5. CASE NextMap(Last)
    <2>1. /\ user # Idle /\ UNCHANGED <<table, user>>
          /\ got' = got \cup {iters[Last].entry}
      BY <1>5 DEF NextMap
    <2>2. PICK k \in iters[Last].visited :
              /\ iters[Last].entry = EntryOf(k)
              /\ got = Given(iters[Last].visited \ {k})
      BY <1>5 DEF NextMap, IterInv, MapRest
    <2>3. k \in Matches(user.path)
      BY <1>5, <2>2 DEF NextMap, IterInv, MapRest
    <2>4. EntryOf(k) \in D!Entries(user.path)
      BY <2>3, EntriesAreMatches DEF Given
    <2>5. EntryOf(k) \notin got
      BY <2>2, EntryNamesKey DEF Given
    <2>6. k \in Keys /\ table[k] \in Values
      BY <2>1, <2>3, UserType, MatchesAreKeys DEF IterInv, DatabaseInv
    <2>7. D!Give(EntryOf(k))
      BY <2>1, <2>2, <2>4, <2>5 DEF D!Give, D!Idle, Idle
    <2>8. QED
      BY <2>6, <2>7 DEF D!Next, EntryOf
  <1>6. CASE Finish
    <2>1. user # Idle /\ user' = Idle /\ got' = {} /\ Drained
      BY <1>6 DEF Finish
    <2>2. got = D!Entries(user.path)
      <3>1. CASE kind = "radix"
        BY <2>1, <3>1 DEF Drained, IterInv, RadixRest
      <3>2. CASE kind # "radix"
        <4>1. kind = "map" /\ iters[Last].pc = "last"
          BY <2>1, <3>2, DatabaseConstants
          DEF Drained, IterInv, DatabaseInv, TypeOK
        <4>2. got = Given(Matches(user.path))
          BY <2>1, <4>1 DEF IterInv, MapRest
        <4>3. QED
          BY <4>2, EntriesAreMatches
      <3>3. QED
        BY <3>1, <3>2
    <2>3. QED
      BY <1>6, <2>1, <2>2
      DEF Finish, Write, D!Next, D!Finish, D!Idle, Idle
  <1>7. CASE Leave
    <2>1. user.op # "Readdir" /\ \E e \in got : e.key # user.path
      BY <1>7 DEF Leave, Other
    <2>2. QED
      BY <1>7, <2>1 DEF Leave, D!Next, D!Abandon, D!Idle, Idle
  <1>8. CASE UNCHANGED vars
    BY <1>8 DEF vars, D!vars
  <1>9. QED
    BY <1>1, <1>2, <1>3, <1>4, <1>5, <1>6, <1>7, <1>8
    DEF Next, Callback, NextMap, D!Callbacks

(* Either database implements the map that the file system relies on: an   *)
(* iteration gives each match once and ends only when all were given.      *)
THEOREM DatabaseImplementsSpec == Spec => ImplementsDatabaseSpec
  <1>1. Init => D!Init
    BY DEF Init, D!Init, Table, D!Table, Idle, D!Idle
  <1>2. QED
    BY <1>1, InitIterInv, StepIterInv, StepImplements, PTL
    DEF Spec, ImplementsDatabaseSpec, D!Spec
=============================================================================

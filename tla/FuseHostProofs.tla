--------------------------- MODULE FuseHostProofs ---------------------------
(***************************************************************************)
(* That callbacks find their host, that no signal meets a closed channel   *)
(* and that nothing the file system implements is refused, for any number  *)
(* of threads, requests and signals.                                       *)
(*                                                                         *)
(* HostInv is not inductive: its parts hold because Mount, the session and *)
(* the workers end in a fixed order (Lifetimes), and because of how a      *)
(* request's method came about (Calls).                                    *)
(***************************************************************************)
EXTENDS FuseHost, TLAPS

(* Mount waits for the session, the session for its workers; os/signal may *)
(* send only within the session, and the channel is closed after it.       *)
Lifetimes ==
    /\ session = "none" <=> mount = "start"
    /\ session \in {"mounting", "init", "running", "ending", "destroy"} =>
           mount = "main" /\ inTable
    /\ registered => session \in {"running", "ending"}
    /\ sigc.closed => mount \in {"wait", "returned"}
    /\ \A t \in Threads : Running(t) => session \in {"running", "ending"}

(* Of a request under way: a thread that is in a critical section has one  *)
(* to leave, only an inherited method says ENOSYS, and only Create calls   *)
(* another method than its own.                                            *)
WellCalled(r) ==
    /\ r.in => r.todo # <<>>
    /\ r.errc = "ENOSYS" => r.method \in Inherited
    /\ \/ r.method = MethodOf(r.op)
       \/ r.op = "Create" /\ r.method \in {"Mknod", "Open"}

Calls == \A t \in Threads : Running(t) => WellCalled(thread[t])

LifeInv == HostInv /\ Lifetimes /\ Calls

Locks == {"fs", "file"}
Holder == [by : Threads \cup {None}, shared : BOOLEAN]
Record == [op : Requests, method : Methods, todo : Seq(Locks), in : BOOLEAN,
           errc : {"0", "ENOSYS", "error"}]

-----------------------------------------------------------------------------
LEMMA LocksOfType ==
    ASSUME NEW m \in Methods
    PROVE  LocksOf(m) \in Seq(Locks)
  <1> DEFINE n == IF m = "Read" THEN MaxRetries + 1 ELSE 1
  <1>1. n \in Nat
    BY FuseHostConstants
  <1>2. [k \in 1..n |-> "file"] \in Seq(Locks)
    BY <1>1 DEF Locks
  <1>3. <<"fs">> \in Seq(Locks) /\ <<"fs", "fs">> \in Seq(Locks)
        /\ <<>> \in Seq(Locks)
    BY DEF Locks
  <1>4. <<"fs">> \o [k \in 1..n |-> "file"] \in Seq(Locks)
    BY <1>2, <1>3
  <1>5. QED
    BY <1>3, <1>4 DEF LocksOf

LEMMA CallType ==
    ASSUME NEW op \in Requests, NEW m \in Methods,
           m = MethodOf(op) \/ (op = "Create" /\ m \in {"Mknod", "Open"})
    PROVE  Call(op, m) \in Record /\ WellCalled(Call(op, m))
  BY LocksOfType DEF Call, Record, WellCalled

LEMMA InitLife == Init => LifeInv
  <1> SUFFICES ASSUME Init PROVE LifeInv
    OBVIOUS
  <1>1. \A t \in Threads : ~Running(t)
    BY DEF Init, Running
  <1>2. /\ sigc \in [buffer : 0..1, closed : BOOLEAN] /\ ~sigc.closed
        /\ requests \in 0..MaxRequests /\ signals \in 0..MaxSignals
    BY FuseHostConstants DEF Init
  <1>3. {inTable, fuse, mntp, registered, crashed} \subseteq BOOLEAN
    BY DEF Init
  <1>4. TypeOK
    BY <1>2, <1>3 DEF Init, TypeOK
  <1>5. QED
    BY <1>1, <1>2, <1>4
    DEF Init, LifeInv, HostInv, HandleValid, NoSendOnClosed,
        RefusedOnlyUnsupported, Lifetimes, Calls

(* The type invariant names the record of a request.                       *)
LEMMA ThreadType ==
    ASSUME TypeOK, NEW t \in Threads, Running(t)
    PROVE  thread[t] \in Record
  BY DEF TypeOK, Running, Record, Locks, Holder

-----------------------------------------------------------------------------
(* The steps of Mount, of the session and of the signal goroutine.         *)
LEMMA MountLife ==
    ASSUME LifeInv, MountStep
    PROVE  LifeInv'
  <1> USE DEF LifeInv, HostInv, TypeOK, HandleValid, NoSendOnClosed,
              RefusedOnlyUnsupported, Lifetimes, Calls, Running, WellCalled,
              threadVars, historyVars, boundVars
  <1>1. CASE Mount
    BY <1>1 DEF Mount
  <1>2. CASE MainReturns
    BY <1>2 DEF MainReturns
  <1>3. CASE hostHandleDel
    BY <1>3 DEF hostHandleDel
  <1>4. CASE CloseSigc
    BY <1>4 DEF CloseSigc
  <1>5. CASE WaitDone
    BY <1>5 DEF WaitDone
  <1>6. QED
    BY <1>1, <1>2, <1>3, <1>4, <1>5 DEF MountStep

LEMMA SessionLife ==
    ASSUME LifeInv, SessionStep \/ MainFails \/ KernelUnmount
    PROVE  LifeInv'
  <1> USE DEF LifeInv, HostInv, TypeOK, HandleValid, NoSendOnClosed,
              RefusedOnlyUnsupported, Lifetimes, Calls, Running, WellCalled,
              threadVars, historyVars, boundVars
  <1>1. CASE InitFuse
    BY <1>1 DEF InitFuse
  <1>2. CASE InitNotify
    BY <1>2 DEF InitNotify
  <1>3. CASE DestroyStop
    BY <1>3 DEF DestroyStop
  <1>4. CASE DestroyFuse
    BY <1>4 DEF DestroyFuse
  <1>5. CASE MainFails
    BY <1>5 DEF MainFails
  <1>6. CASE KernelUnmount
    BY <1>6 DEF KernelUnmount
  <1>7. QED
    BY <1>1, <1>2, <1>3, <1>4, <1>5, <1>6 DEF SessionStep

LEMMA SignalLife ==
    ASSUME LifeInv, WatcherStep \/ Signal
    PROVE  LifeInv'
  <1> USE DEF LifeInv, HostInv, TypeOK, HandleValid, NoSendOnClosed,
              RefusedOnlyUnsupported, Lifetimes, Calls, Running, WellCalled,
              threadVars, historyVars, boundVars
  <1>1. CASE Receive
    BY <1>1 DEF Receive
  <1>2. CASE UnmountCheck
    BY <1>2 DEF UnmountCheck
  <1>3. CASE UnmountCall
    BY <1>3 DEF UnmountCall
  <1>4. CASE Signal
    BY <1>4, FuseHostConstants DEF Signal, Delivered
  <1>5. QED
    BY <1>1, <1>2, <1>3, <1>4 DEF WatcherStep

-----------------------------------------------------------------------------
(* The steps of a worker thread change its request, the locks, and what was*)
(* refused; a thread that stays idle or under way stays in the session.    *)
LEMMA WorkerLife ==
    ASSUME LifeInv, NEW t \in Threads, NEW r \in Record \cup {None},
           thread' = [thread EXCEPT ![t] = r],
           Running(t) \/ session = "running",
           r # None => WellCalled(r),
           lock' \in [Locks -> SUBSET Holder],
           refused' \subseteq Requests,
           RefusedOnlyUnsupported',
           failures' \subseteq {"panic", "unmount"},
           requests' \in 0..MaxRequests,
           UNCHANGED <<mount, session, inTable, fuse, mntp, registered, sigc,
                       watcher, crashed, signals>>
    PROVE  LifeInv'
  <1>1. /\ thread'[t] = r
        /\ \A u \in Threads : u # t => thread'[u] = thread[u]
        /\ thread' \in [Threads -> Record \cup {None}]
    BY DEF LifeInv, HostInv, TypeOK, Record, Locks, Holder
  <1>2. \A u \in Threads : Running(u)' => session \in {"running", "ending"}
    BY <1>1 DEF Running, LifeInv, Lifetimes
  <1>3. TypeOK'
    BY <1>1 DEF LifeInv, HostInv, TypeOK, Record, Locks, Holder
  <1>4. Lifetimes' /\ HandleValid'
    BY <1>2 DEF LifeInv, HostInv, Lifetimes, HandleValid
  <1>5. Calls'
    BY <1>1 DEF LifeInv, Calls, Running, WellCalled
  <1>6. QED
    BY <1>3, <1>4, <1>5 DEF LifeInv, HostInv, NoSendOnClosed

LEMMA RequestLife ==
    ASSUME LifeInv, NEW t \in Threads, NEW op \in Requests, Request(t, op)
    PROVE  LifeInv'
  <1> DEFINE r == Call(op, MethodOf(op))
  <1>1. MethodOf(op) \in Methods
    BY FuseHostConstants
  <1>2. r \in Record /\ WellCalled(r)
    BY <1>1, CallType
  <1>3. thread' = [thread EXCEPT ![t] = r] /\ session = "running"
    BY DEF Request
  <1>4. requests' \in 0..MaxRequests
    BY FuseHostConstants DEF Request, LifeInv, HostInv, TypeOK
  <1> HIDE DEF r
  <1>5. QED
    BY <1>2, <1>3, <1>4, WorkerLife
    DEF Request, historyVars, LifeInv, HostInv, TypeOK, Locks, Holder,
        RefusedOnlyUnsupported

LEMMA AcquireLife ==
    ASSUME LifeInv, NEW t \in Threads, Acquire(t)
    PROVE  LifeInv'
  <1> DEFINE r == [thread[t] EXCEPT !.in = TRUE]
  <1>1. Running(t) /\ thread[t] \in Record /\ WellCalled(thread[t])
    BY ThreadType DEF Acquire, LifeInv, HostInv, Calls
  <1>2. r \in Record /\ WellCalled(r)
    BY <1>1 DEF Record, WellCalled, Acquire
  <1>3. thread' = [thread EXCEPT ![t] = r]
    BY DEF Acquire
  <1>h. Hold(t) \in Holder
    BY DEF Hold, Shares, Holder
  <1>4. lock' \in [Locks -> SUBSET Holder]
    BY <1>h DEF Acquire, LifeInv, HostInv, TypeOK, Locks, Holder
  <1> HIDE DEF r
  <1>5. QED
    BY <1>1, <1>2, <1>3, <1>4, WorkerLife
    DEF Acquire, historyVars, boundVars, LifeInv, HostInv, TypeOK,
        RefusedOnlyUnsupported

LEMMA LeaveLife ==
    ASSUME LifeInv, NEW t \in Threads, NEW l \in Locks, Leave(t, l)
    PROVE  LifeInv'
  <1>1. Running(t) /\ thread[t] \in Record /\ WellCalled(thread[t])
    BY ThreadType DEF Leave, Holding, LifeInv, HostInv, Calls
  <1>2. thread[t].in /\ thread[t].todo # <<>>
    BY <1>1 DEF Leave, Holding, WellCalled
  <1>3. Tail(thread[t].todo) \in Seq(Locks) /\ <<>> \in Seq(Locks)
    BY <1>1, <1>2 DEF Record
  <1>4. PICK r \in Record :
            thread' = [thread EXCEPT ![t] = r] /\ WellCalled(r)
    <2>1. CASE thread' = [thread EXCEPT ![t].in = FALSE, ![t].todo = Tail(@)]
      <3> DEFINE q == [thread[t] EXCEPT !.in = FALSE, !.todo = Tail(@)]
      <3>1. q \in Record /\ WellCalled(q)
        BY <1>1, <1>3 DEF Record, WellCalled
      <3>2. QED
        BY <2>1, <3>1
    <2>2. CASE thread' = [thread EXCEPT ![t].in = FALSE, ![t].todo = <<>>]
      <3> DEFINE q == [thread[t] EXCEPT !.in = FALSE, !.todo = <<>>]
      <3>1. q \in Record /\ WellCalled(q)
        BY <1>1, <1>3 DEF Record, WellCalled
      <3>2. QED
        BY <2>2, <3>1
    <2>3. CASE thread' = [thread EXCEPT ![t].in = FALSE, ![t].todo = <<>>,
                                        ![t].errc = "error"]
      <3> DEFINE q == [thread[t] EXCEPT !.in = FALSE, !.todo = <<>>,
                                        !.errc = "error"]
      <3>1. q \in Record /\ WellCalled(q)
        BY <1>1, <1>3 DEF Record, WellCalled
      <3>2. QED
        BY <2>3, <3>1
    <2>4. QED
      BY <2>1, <2>2, <2>3 DEF Leave
  <1>5. lock' \in [Locks -> SUBSET Holder]
    BY DEF Leave, Unlocked, LifeInv, HostInv, TypeOK, Locks, Holder
  <1>6. QED
    BY <1>1, <1>4, <1>5, WorkerLife
    DEF Leave, historyVars, boundVars, LifeInv, HostInv, TypeOK,
        RefusedOnlyUnsupported

LEMMA PanicLife ==
    ASSUME LifeInv, NEW t \in Threads, Panic(t)
    PROVE  LifeInv'
  <1>1. Running(t) /\ thread' = [thread EXCEPT ![t] = None]
    BY DEF Panic, Holding
  <1>h. [Hold(t) EXCEPT !.by = None] \in Holder
    BY DEF Hold, Shares, Holder
  <1>l. lock' \in [Locks -> SUBSET Holder]
    BY <1>h DEF Panic, Abandoned, LifeInv, HostInv, TypeOK, Locks, Holder
  <1>2. QED
    BY <1>1, <1>l, WorkerLife
    DEF Panic, boundVars, LifeInv, HostInv, TypeOK, Locks, Holder,
        RefusedOnlyUnsupported

(* The only step that may refuse an operation.                             *)
LEMMA ReturnLife ==
    ASSUME LifeInv, NEW t \in Threads, Return(t)
    PROVE  LifeInv'
  <1> DEFINE r == thread[t]
             next == Fallback(r.op, r.method, r.errc)
  <1>1. Running(t) /\ r \in Record /\ WellCalled(r)
    BY ThreadType DEF Return, LifeInv, HostInv, Calls
  <1>2. CASE /\ next # None
             /\ thread' = [thread EXCEPT ![t] = Call(r.op, next)]
             /\ UNCHANGED refused
    <2>1. r.op = "Create" /\ next \in {"Mknod", "Open"}
      BY <1>2 DEF Fallback
    <2>2. next \in Methods
      BY <2>1 DEF Methods, UnderFsLock
    <2>3. r.op \in Requests
      BY <1>1 DEF Record
    <2> HIDE DEF next
    <2>4. Call(r.op, next) \in Record /\ WellCalled(Call(r.op, next))
      BY <2>1, <2>2, <2>3, CallType
    <2>5. QED
      BY <1>1, <1>2, <2>4, WorkerLife
      DEF Return, historyVars, boundVars, LifeInv, HostInv, TypeOK, Locks,
          Holder,
          RefusedOnlyUnsupported
  <1>3. CASE /\ next = None
             /\ thread' = [thread EXCEPT ![t] = None]
             /\ refused' = refused \cup
                    {op \in {r.op} : Answer(op, r.errc) = "ENOSYS"}
    <2>1. r.op \in Requests
      BY <1>1 DEF Record
    <2>2. ASSUME Answer(r.op, r.errc) = "ENOSYS"
          PROVE  r.op \in Inherited \ (Lenient \cup {"Create"})
      <3>1. r.errc = "ENOSYS" /\ r.op \notin Lenient
        BY <2>2 DEF Answer
      <3>2. r.method \in Inherited
        BY <1>1, <3>1 DEF WellCalled
      <3>3. r.method = MethodOf(r.op)
        BY <1>1, <3>2 DEF WellCalled, Inherited
      <3>4. r.op = r.method
        BY <3>2, <3>3 DEF MethodOf, Inherited
      <3>5. r.op # "Create"
        BY <1>3, <3>1, <3>4, FuseHostConstants
        DEF Fallback, Methods, UnderFsLock
      <3>6. QED
        BY <3>1, <3>2, <3>4, <3>5
    <2>3. refused' \subseteq Requests /\ RefusedOnlyUnsupported'
      BY <1>3, <2>1, <2>2 DEF LifeInv, HostInv, TypeOK, RefusedOnlyUnsupported
    <2>4. QED
      BY <1>1, <1>3, <2>3, WorkerLife
      DEF Return, historyVars, boundVars, LifeInv, HostInv, TypeOK, Locks,
          Holder
  <1>4. QED
    BY <1>2, <1>3 DEF Return

LEMMA StepLife == LifeInv /\ [Next]_vars => LifeInv'
  <1> SUFFICES ASSUME LifeInv, [Next]_vars PROVE LifeInv'
    OBVIOUS
  <1>1. CASE MountStep \/ SessionStep \/ WatcherStep
    BY <1>1, MountLife, SessionLife, SignalLife
  <1>2. CASE MainFails \/ KernelUnmount \/ Signal
    BY <1>2, SessionLife, SignalLife
  <1>3. ASSUME NEW t \in Threads, NEW op \in Requests, Request(t, op)
        PROVE  LifeInv'
    BY <1>3, RequestLife
  <1>4. ASSUME NEW t \in Threads, Acquire(t) \/ Work(t) PROVE LifeInv'
    BY <1>4, AcquireLife, LeaveLife, PanicLife, ReturnLife DEF Work, Locks
  <1>5. CASE UNCHANGED vars
    BY <1>5
    DEF vars, threadVars, historyVars, boundVars, LifeInv, HostInv, TypeOK,
        HandleValid, NoSendOnClosed, RefusedOnlyUnsupported, Lifetimes, Calls,
        Running, WellCalled
  <1>6. QED
    BY <1>1, <1>2, <1>3, <1>4, <1>5 DEF Next

(* The host's own correctness: hostHandleGet finds the host of every       *)
(* callback, a late signal is not sent on the closed channel, and an       *)
(* operation is refused only where nothing stands in for it.               *)
THEOREM FuseHostSafety == Spec => []HostInv
  <1>1. LifeInv => HostInv
    BY DEF LifeInv
  <1>2. QED
    BY <1>1, InitLife, StepLife, PTL DEF Spec
=============================================================================

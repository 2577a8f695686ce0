------------------------------ MODULE FuseHost ------------------------------
(***************************************************************************)
(* The FUSE host of fuse/host.go on a Unix system: the life of a mount     *)
(* (Mount, its deferred calls, Init and Destroy, the goroutine that turns a*)
(* signal into an unmount) and the dispatch of requests to the file system *)
(* by the worker threads of libfuse.                                       *)
(*                                                                         *)
(* Of a request the module keeps the methods it runs, the locks of Dsfs    *)
(* they take one after the other, and how they end; paths, buffers and the *)
(* conversion of structures are left out.                                  *)
(***************************************************************************)
EXTENDS Integers, Sequences, FiniteSets

CONSTANTS
    Threads,        \* worker threads of libfuse
    Requests,       \* the operations the kernel sends
    Panicking,      \* the methods that may panic while they hold a file's lock
    MaxRetries,     \* how often Read polls again
    UnmountFails,   \* whether umount2 and fusermount may fail
    MaxRequests,    \* bound on requests
    MaxSignals,     \* bound on SIGINT and SIGTERM
    None

VARIABLES
    mount,       \* where Mount stands
    session,     \* external: what libfuse is doing
    inTable,     \* the handle is in hostTable
    fuse,        \* host.fuse is not nil
    mntp,        \* host.mntp is not empty
    registered,  \* signal.Notify is in force
    sigc,        \* host.sigc: values in its buffer, and whether it is closed
    watcher,     \* the goroutine that waits for a signal
    thread,      \* what each worker thread is doing
    lock,        \* the holders of fs.lock and of a file's lock
    refused,     \* the operations some answer said are not implemented
    crashed,     \* a send on a closed channel
    failures,    \* history: the kinds of failure so far
    requests,    \* requests so far
    signals      \* signals so far

vars == <<mount, session, inTable, fuse, mntp, registered, sigc, watcher,
          thread, lock, refused, crashed, failures, requests, signals>>
threadVars == <<thread, lock, refused>>
boundVars == <<requests, signals>>
historyVars == <<crashed, failures>>

-----------------------------------------------------------------------------
(* The methods of the file system.                                         *)

(* Dsfs takes fs.lock; it takes the lock of the file (of one file: another *)
(* is not waited for) after letting go of fs.lock; Rename takes fs.lock    *)
(* twice; Read shares the file's lock and lets go of it between its polls. *)
UnderFsLock == {"Mknod", "Mkdir", "Open", "Unlink", "Rmdir", "Getattr",
                "Release", "Readdir"}
OnFile == {"Truncate", "Read", "Write"}
Lockless == {"Opendir", "Releasedir", "Statfs"}

(* FileSystemBase answers -ENOSYS.                                         *)
Inherited == {"Readlink", "Symlink", "Link", "Chmod", "Chown", "Flush",
              "Fsync", "Setxattr", "Getxattr", "Listxattr", "Removexattr",
              "Fsyncdir", "Access", "Create", "Utimens"}

Methods == UnderFsLock \cup OnFile \cup Lockless \cup Inherited \cup {"Rename"}

LocksOf(m) ==
    CASE m \in UnderFsLock -> <<"fs">>
      [] m \in OnFile -> <<"fs">> \o
            [k \in 1..(IF m = "Read" THEN MaxRetries + 1 ELSE 1) |-> "file"]
      [] m = "Rename" -> <<"fs", "fs">>
      [] OTHER -> <<>>

(* The method a wrapper calls first.                                       *)
MethodOf(op) == CASE op = "Ftruncate" -> "Truncate"
                  [] op = "Fgetattr" -> "Getattr"
                  [] OTHER -> op

(* hostCreate: Create, and if it is not implemented Mknod and then Open.   *)
Fallback(op, m, errc) ==
    CASE op = "Create" /\ m = "Create" /\ errc = "ENOSYS" -> "Mknod"
      [] op = "Create" /\ m = "Mknod" /\ errc = "0" -> "Open"
      [] OTHER -> None

(* What the wrapper answers: these four say that they did it.              *)
Lenient == {"Statfs", "Fsync", "Opendir", "Fsyncdir"}
Answer(op, errc) == IF errc = "ENOSYS" /\ op \in Lenient THEN "0" ELSE errc

ASSUME FuseHostConstants ==
    /\ {MethodOf(op) : op \in Requests} \subseteq Methods
    /\ Panicking \subseteq OnFile
    /\ MaxRetries \in Nat
    /\ UnmountFails \in BOOLEAN
    /\ MaxRequests \in Nat /\ MaxSignals \in Nat
    /\ None \notin Methods \cup Threads

Call(op, m) == [op |-> op, method |-> m, todo |-> LocksOf(m), in |-> FALSE,
                errc |-> IF m \in Inherited THEN "ENOSYS" ELSE "0"]

Init ==
    /\ mount = "start"
    /\ session = "none"
    /\ inTable = FALSE /\ fuse = FALSE /\ mntp = FALSE
    /\ registered = FALSE
    /\ sigc = [buffer |-> 0, closed |-> FALSE]
    /\ watcher = "none"
    /\ thread = [t \in Threads |-> None]
    /\ lock = [l \in {"fs", "file"} |-> {}]
    /\ refused = {}
    /\ crashed = FALSE
    /\ failures = {}
    /\ requests = 0 /\ signals = 0

-----------------------------------------------------------------------------
(* Mount.                                                                  *)

(* Everything up to the call of c_hostMount.                               *)
Mount ==
    /\ mount = "start"
    /\ mount' = "main"
    /\ mntp' = TRUE
    /\ watcher' = "receive"
    /\ inTable' = TRUE
    /\ session' = "mounting"
    /\ UNCHANGED <<fuse, registered, sigc, threadVars, historyVars, boundVars>>

(* External: fuse_main_real returns without mounting, or after Destroy.    *)
MainFails ==
    /\ session = "mounting"
    /\ session' = "over"
    /\ UNCHANGED <<mount, inTable, fuse, mntp, registered, sigc, watcher,
                   threadVars, historyVars, boundVars>>

MainReturns ==
    /\ mount = "main" /\ session = "over"
    /\ mount' = "delete"
    /\ UNCHANGED <<session, inTable, fuse, mntp, registered, sigc, watcher,
                   threadVars, historyVars, boundVars>>

(* The deferred calls, the last one first.                                 *)
hostHandleDel ==
    /\ mount = "delete"
    /\ mount' = "close"
    /\ inTable' = FALSE
    /\ UNCHANGED <<session, fuse, mntp, registered, sigc, watcher, threadVars,
                   historyVars, boundVars>>

(* Mutant: the channel is not closed.                                      *)
ForgetClose ==
    /\ mount = "close"
    /\ mount' = "wait"
    /\ UNCHANGED <<session, inTable, fuse, mntp, registered, sigc, watcher,
                   threadVars, historyVars, boundVars>>

CloseSigc ==
    /\ mount = "close"
    /\ mount' = "wait"
    /\ sigc' = [sigc EXCEPT !.closed = TRUE]
    /\ UNCHANGED <<session, inTable, fuse, mntp, registered, watcher,
                   threadVars, historyVars, boundVars>>

WaitDone ==
    /\ mount = "wait"
    /\ watcher = "done"
    /\ mount' = "returned"
    /\ mntp' = FALSE
    /\ UNCHANGED <<session, inTable, fuse, registered, sigc, watcher,
                   threadVars, historyVars, boundVars>>

-----------------------------------------------------------------------------
(* The callbacks at both ends of a session.                                *)

(* Mutant: host.fuse is not set.                                           *)
ForgetFuse ==
    /\ session = "mounting"
    /\ session' = "init"
    /\ UNCHANGED <<mount, inTable, fuse, mntp, registered, sigc, watcher,
                   threadVars, historyVars, boundVars>>

(* hostInit: host.fuse, and then signal.Notify.                            *)
InitFuse ==
    /\ session = "mounting"
    /\ session' = "init"
    /\ fuse' = TRUE
    /\ UNCHANGED <<mount, inTable, mntp, registered, sigc, watcher, threadVars,
                   historyVars, boundVars>>

InitNotify ==
    /\ session = "init"
    /\ session' = "running"
    /\ registered' = TRUE
    /\ UNCHANGED <<mount, inTable, fuse, mntp, sigc, watcher, threadVars,
                   historyVars, boundVars>>

(* External: someone else unmounts.                                        *)
KernelUnmount ==
    /\ session = "running"
    /\ session' = "ending"
    /\ UNCHANGED <<mount, inTable, fuse, mntp, registered, sigc, watcher,
                   threadVars, historyVars, boundVars>>

(* A mutant of hostDestroy: the handle is freed while workers run.         *)
FreeHandle ==
    /\ session = "ending"
    /\ session' = "destroy"
    /\ registered' = FALSE
    /\ inTable' = FALSE
    /\ UNCHANGED <<mount, fuse, mntp, sigc, watcher, threadVars, historyVars,
                   boundVars>>

(* hostDestroy, once the workers are gone: signal.Stop, then host.fuse.    *)
DestroyStop ==
    /\ session = "ending"
    /\ \A t \in Threads : thread[t] = None
    /\ session' = "destroy"
    /\ registered' = FALSE
    /\ UNCHANGED <<mount, inTable, fuse, mntp, sigc, watcher, threadVars,
                   historyVars, boundVars>>

DestroyFuse ==
    /\ session = "destroy"
    /\ session' = "over"
    /\ fuse' = FALSE
    /\ UNCHANGED <<mount, inTable, mntp, registered, sigc, watcher, threadVars,
                   historyVars, boundVars>>

-----------------------------------------------------------------------------
(* Signals.                                                                *)

(* os/signal sends without blocking: a full channel loses the signal.      *)
Delivered(s) == [s EXCEPT !.buffer = 1]

Signal ==
    /\ registered
    /\ signals < MaxSignals
    /\ signals' = signals + 1
    /\ crashed' = sigc.closed
    /\ sigc' = Delivered(sigc)
    /\ UNCHANGED <<mount, session, inTable, fuse, mntp, registered, watcher,
                   threadVars, failures, requests>>

(* _, ok := <-host.sigc: a buffered signal comes first, closed or not.     *)
Receive ==
    /\ watcher = "receive"
    /\ \/ /\ sigc.buffer = 1
          /\ sigc' = [sigc EXCEPT !.buffer = 0]
          /\ watcher' = "check"
       \/ /\ sigc.buffer = 0 /\ sigc.closed
          /\ watcher' = "done"
          /\ UNCHANGED sigc
    /\ UNCHANGED <<mount, session, inTable, fuse, mntp, registered, threadVars,
                   historyVars, boundVars>>

(* Unmount: host.fuse is tested, and then the mount point is unmounted.    *)
UnmountCheck ==
    /\ watcher = "check"
    /\ watcher' = IF fuse THEN "unmount" ELSE "done"
    /\ UNCHANGED <<mount, session, inTable, fuse, mntp, registered, sigc,
                   threadVars, historyVars, boundVars>>

UnmountCall ==
    /\ watcher = "unmount"
    /\ watcher' = "done"
    /\ \/ /\ session' = IF session = "running" /\ mntp THEN "ending"
                         ELSE session
          /\ UNCHANGED failures
       \/ /\ UnmountFails
          /\ failures' = failures \cup {"unmount"}
          /\ UNCHANGED session
    /\ UNCHANGED <<mount, inTable, fuse, mntp, registered, sigc, threadVars,
                   crashed, boundVars>>

-----------------------------------------------------------------------------
(* Requests.                                                               *)

Running(t) == thread[t] # None

(* A wrapper finds the host of its handle and calls a method.  The kernel  *)
(* does not send again what has been refused.                              *)
Request(t, op) ==
    /\ session = "running"
    /\ ~Running(t)
    /\ op \notin refused
    /\ requests < MaxRequests
    /\ requests' = requests + 1
    /\ thread' = [thread EXCEPT ![t] = Call(op, MethodOf(op))]
    /\ UNCHANGED <<mount, session, inTable, fuse, mntp, registered, sigc,
                   watcher, lock, refused, historyVars, signals>>

Shares(t) == thread[t].method = "Read" /\ Head(thread[t].todo) = "file"

(* Lock and RLock.  A reader may also have to wait for a writer that waits, *)
(* which FileData tells: here each can come first.                         *)
Hold(t) == [by |-> t, shared |-> Shares(t)]

Acquire(t) ==
    /\ Running(t)
    /\ ~thread[t].in
    /\ thread[t].todo # <<>>
    /\ LET l == Head(thread[t].todo) IN
        /\ \A h \in lock[l] : Shares(t) /\ h.shared
        /\ lock' = [lock EXCEPT ![l] = @ \cup {Hold(t)}]
    /\ thread' = [thread EXCEPT ![t].in = TRUE]
    /\ UNCHANGED <<mount, session, inTable, fuse, mntp, registered, sigc,
                   watcher, refused, historyVars, boundVars>>

Holding(t, l) == Running(t) /\ thread[t].in /\ Head(thread[t].todo) = l

(* Mutant: an error path that returns without unlocking.                   *)
ReturnLocked(t, l) == lock
Unlocked(t, l) == [lock EXCEPT ![l] = {h \in @ : h.by # t}]

(* A critical section ends: the method goes on, returns early (a Read that *)
(* found bytes), or returns an error.                                      *)
Leave(t, l) ==
    /\ Holding(t, l)
    /\ lock' = Unlocked(t, l)
    /\ \/ thread' = [thread EXCEPT ![t].in = FALSE, ![t].todo = Tail(@)]
       \/ /\ thread[t].method = "Read" /\ l = "file"
          /\ thread' = [thread EXCEPT ![t].in = FALSE, ![t].todo = <<>>]
       \/ thread' = [thread EXCEPT ![t].in = FALSE, ![t].todo = <<>>,
                                   ![t].errc = "error"]
    /\ UNCHANGED <<mount, session, inTable, fuse, mntp, registered, sigc,
                   watcher, refused, historyVars, boundVars>>

(* The unlock is not deferred: nobody is left to let go of the lock.       *)
Abandoned(t) ==
    [lock EXCEPT !["file"] = {h \in @ : h.by # t}
                                \cup {[Hold(t) EXCEPT !.by = None]}]

(* A panic: recoverAsErrno answers -EIO.                                   *)
Panic(t) ==
    /\ Holding(t, "file")
    /\ thread[t].method \in Panicking
    /\ thread' = [thread EXCEPT ![t] = None]
    /\ lock' = Abandoned(t)
    /\ failures' = failures \cup {"panic"}
    /\ UNCHANGED <<mount, session, inTable, fuse, mntp, registered, sigc,
                   watcher, refused, crashed, boundVars>>

(* The method has returned: hostCreate may call another, or it answers.    *)
Return(t) ==
    /\ Running(t)
    /\ thread[t].todo = <<>>
    /\ LET r == thread[t]
           next == Fallback(r.op, r.method, r.errc)
       IN \/ /\ next # None
             /\ thread' = [thread EXCEPT ![t] = Call(r.op, next)]
             /\ UNCHANGED refused
          \/ /\ next = None
             /\ thread' = [thread EXCEPT ![t] = None]
             /\ refused' = refused \cup
                    {op \in {r.op} : Answer(op, r.errc) = "ENOSYS"}
    /\ UNCHANGED <<mount, session, inTable, fuse, mntp, registered, sigc,
                   watcher, lock, historyVars, boundVars>>

-----------------------------------------------------------------------------
MountStep == Mount \/ MainReturns \/ hostHandleDel \/ CloseSigc \/ WaitDone
SessionStep == InitFuse \/ InitNotify \/ DestroyStop \/ DestroyFuse
WatcherStep == Receive \/ UnmountCheck \/ UnmountCall
Work(t) == Panic(t) \/ Return(t) \/ \E l \in {"fs", "file"} : Leave(t, l)

Next ==
    \/ MountStep \/ SessionStep \/ WatcherStep
    \/ MainFails \/ KernelUnmount \/ Signal
    \/ \E t \in Threads : \/ \E op \in Requests : Request(t, op)
                          \/ Acquire(t) \/ Work(t)

(* Goroutines and threads run; a Go mutex does not starve a waiter.  The   *)
(* kernel, the user and the signals owe nothing.                           *)
Spec ==
    /\ Init /\ [][Next]_vars
    /\ WF_vars(MountStep) /\ WF_vars(SessionStep) /\ WF_vars(WatcherStep)
    /\ \A t \in Threads : SF_vars(Acquire(t)) /\ WF_vars(Work(t))

-----------------------------------------------------------------------------
(* Properties.                                                             *)

(* The type invariant.  What could fail: host.sigc never holds more than   *)
(* the one signal it was made for.                                         *)
TypeOK ==
    /\ mount \in {"start", "main", "delete", "close", "wait", "returned"}
    /\ session \in {"none", "mounting", "init", "running", "ending",
                    "destroy", "over"}
    /\ watcher \in {"none", "receive", "check", "unmount", "done"}
    /\ {inTable, fuse, mntp, registered, crashed} \subseteq BOOLEAN
    /\ failures \subseteq {"panic", "unmount"}
    /\ sigc \in [buffer : 0..1, closed : BOOLEAN]
    /\ lock \in [{"fs", "file"} ->
                    SUBSET [by : Threads \cup {None}, shared : BOOLEAN]]
    /\ thread \in [Threads -> [op : Requests, method : Methods,
                        todo : Seq({"fs", "file"}), in : BOOLEAN,
                        errc : {"0", "ENOSYS", "error"}] \cup {None}]
    /\ refused \subseteq Requests
    /\ requests \in 0..MaxRequests /\ signals \in 0..MaxSignals

(* Every callback finds its host: hostHandleGet returns nil for none, from *)
(* Init to the end of Destroy, and for no request of a worker thread.      *)
HandleValid ==
    (session \in {"init", "running", "ending", "destroy"}
        \/ \E t \in Threads : Running(t)) => inTable

(* A signal, even one that arrives while Mount is on its way out, is never *)
(* sent on the closed channel, which would end the process.                *)
NoSendOnClosed == ~crashed

(* The kernel is told that something is not implemented only where nothing *)
(* stands in for it: Create has Mknod and Open, fsync and opendir need no  *)
(* method, and what Dsfs implements is never refused.                      *)
RefusedOnlyUnsupported ==
    \A op \in refused : op \in Inherited \ (Lenient \cup {"Create"})

(* The invariant of the host.                                              *)
HostInv == TypeOK /\ HandleValid /\ NoSendOnClosed /\ RefusedOnlyUnsupported

(* Every request is answered, whatever order the threads take the locks    *)
(* in, so that an unmount does not wait for ever for a worker.  Only a     *)
(* panic, which leaves the lock of its file held, can prevent it.          *)
RequestsAnswered ==
    \A t \in Threads : Running(t) ~> ~Running(t) \/ "panic" \in failures

(* Once the session ends, Mount returns: with or without a signal, its     *)
(* deferred calls do not wait for the goroutine that waits for them.       *)
MountReturns ==
    session \in {"ending", "over"} ~>
        mount = "returned" \/ "panic" \in failures

(* host.go:715: "So set things up to always unmount the file system": a    *)
(* signal the host has been sent ends the session, unless the one attempt  *)
(* to unmount fails.                                                       *)
SignalUnmounts ==
    sigc.buffer = 1 ~>
        session \in {"ending", "destroy", "over"} \/ "unmount" \in failures
=============================================================================

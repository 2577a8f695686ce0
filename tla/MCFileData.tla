----------------------------- MODULE MCFileData -----------------------------
(* Blocks of two bytes; the stored file has three blocks, the last partial. *)
EXTENDS FileData

Bytes(src, from, to) == [k \in 1..(to - from + 1) |-> <<src, from + k - 1>>]

MCStored == [size |-> 5,
    blocks |-> <<Bytes(11, 0, 1), Bytes(11, 2, 3), Bytes(11, 4, 4)>>]
MCStoredTxs == {None, MCStored}

(* Another client has changed the second block and dropped the third.      *)
MCRemoteTxs == {[size |-> 4, blocks |-> <<Bytes(11, 0, 1), Bytes(12, 2, 3)>>]}

MCReadExtents == {<<0, 2>>, <<3, 2>>, <<4, 2>>}
MCWriteExtents == {<<1, 2>>, <<5, 1>>}
MCSizes == {1, 3, 6}

(* Each workload is a set of events that may meet in one behaviour.        *)
Quiet == [write |-> 0, truncate |-> 0, read |-> 0, release |-> 0,
          remote |-> 0, rename |-> 0, unlink |-> 0, map |-> 0,
          restart |-> 0, fault |-> 0]
MCWorkloads == {
    [Quiet EXCEPT !.read = 1, !.write = 1, !.truncate = 1, !.fault = 1],
    [Quiet EXCEPT !.read = 1, !.truncate = 2],
    [Quiet EXCEPT !.read = 1, !.truncate = 1, !.release = 1],
    [Quiet EXCEPT !.write = 1, !.map = 1],
    [Quiet EXCEPT !.read = 2, !.write = 1],
    [Quiet EXCEPT !.read = 1, !.write = 1, !.release = 1],
    [Quiet EXCEPT !.read = 1, !.write = 1, !.unlink = 1],
    [Quiet EXCEPT !.read = 1, !.truncate = 1, !.remote = 1],
    [Quiet EXCEPT !.write = 1, !.truncate = 1, !.remote = 1],
    [Quiet EXCEPT !.write = 1, !.remote = 1, !.fault = 1],
    [Quiet EXCEPT !.write = 1, !.release = 1, !.remote = 1],
    [Quiet EXCEPT !.write = 1, !.release = 1, !.fault = 1],
    [Quiet EXCEPT !.write = 1, !.release = 1, !.unlink = 1],
    [Quiet EXCEPT !.write = 1, !.release = 1, !.rename = 1, !.restart = 1],
    [Quiet EXCEPT !.write = 1, !.truncate = 2],
    [Quiet EXCEPT !.write = 2, !.release = 1, !.restart = 1],
    [Quiet EXCEPT !.write = 1, !.truncate = 1, !.release = 1, !.restart = 1]}
=============================================================================

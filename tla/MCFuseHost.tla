----------------------------- MODULE MCFuseHost -----------------------------
(* FuseHost with requests of each shape: a method under both locks, one    *)
(* that shares the second and polls, one under one lock twice, two that    *)
(* are not implemented, and Create, which calls two under one lock.        *)
EXTENDS FuseHost

MCRequests == {"Read", "Ftruncate", "Rename", "Fsync", "Chmod", "Create"}
=============================================================================

----------------------------- MODULE MCDatabase -----------------------------
(* A folder, a file in it, and a file beside it whose name begins with the *)
(* folder's: "/a", "/a/x", "/ab".                                          *)
EXTENDS Database

MCStartsWith == [k \in Keys |-> IF k = "a" THEN Keys ELSE {k}]
=============================================================================

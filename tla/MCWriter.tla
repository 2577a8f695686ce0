------------------------------ MODULE MCWriter ------------------------------
(* Instances of Writer for TLC: four calls, batches of two items and       *)
(* three bytes, so that count, size, both and neither end a batch; the last*)
(* call is a Rename whose newline is one byte too many.                    *)
EXTENDS Writer, TLC

CONSTANTS x1, x2, x3, x4

MCItems == {x1, x2, x3, x4}
MCSize == x1 :> 1 @@ x2 :> 2 @@ x3 :> 2 @@ x4 :> 4
=============================================================================

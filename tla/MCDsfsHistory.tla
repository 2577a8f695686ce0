--------------------------- MODULE MCDsfsHistory ----------------------------
(* The instances of MCDsfs with the history variables.                     *)
EXTENDS MCDsfs, DsfsHistory
=============================================================================

------------------------------ MODULE MCTxLog -------------------------------
(* TxLog on two paths besides the root.  The attachments are a creation, a *)
(* new version, a deletion, a rename, which has two lines, and a file with *)
(* so many blocks that its line is too long for the scanner.               *)
EXTENDS TxLog

Line(p, e) == [path |-> p, entry |-> e]
MCPaths == {"/", "a", "b"}
MCEntries == {"v1", "v2", "long"}
MCBatches ==
    {<<Line("a", "v1")>>, <<Line("a", "v2")>>, <<Line("a", None)>>,
     <<Line("b", "v1"), Line("a", None)>>, <<Line("a", "long")>>}
FewBatches == {<<Line("a", "v1")>>, <<Line("b", "v1"), Line("a", None)>>}
MCLong == {"long"}
NoHistory == <<>>

(* A file created and deleted, then another: four messages, two pages.     *)
Session ==
    [k \in 1..4 |-> [copy |-> FALSE, lines |->
        <<(<<Line("/", "v1")>>), (<<Line("a", "v1")>>),
          (<<Line("a", None)>>), (<<Line("b", "v1")>>)>>[k]]]
=============================================================================

------------------------------- MODULE MCDsfs -------------------------------
(* Instances of Dsfs for TLC.  "/a" is a folder or a file, "/a/x" lies in  *)
(* it, and "/ab" does not but has its string as a prefix.                  *)
EXTENDS Dsfs, TLC

Small == {"/", "/a"}
Flat == {"/", "/a", "/b", "/ab"}
Tree == {"/", "/a", "/a/x", "/ab"}

MCParent == [p \in Paths |-> IF p = "/a/x" THEN "/a" ELSE "/"]
MCAncestors == [p \in Paths |->
    CASE p = "/" -> {} [] p = "/a/x" -> {"/", "/a"} [] OTHER -> {"/"}]
MCStartsWith == [p \in Paths |->
    CASE p = "/" -> Paths
      [] p = "/a" -> Paths \ {"/", "/b"}
      [] OTHER -> {p}]

NoPaths == {}
OnlyA == {"/a"}
OnlyAB == {"/ab"}

(* What earlier sessions have left in the tx channel.                      *)
Fresh == <<WriteTx("/", Folder)>>
AFolder == Fresh \o <<WriteTx("/a", Folder)>>
AFolderAFile == AFolder \o <<WriteTx("/a/x", File(90))>>
OneFile == Fresh \o <<WriteTx("/a", File(90))>>
=============================================================================

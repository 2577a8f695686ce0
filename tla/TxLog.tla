------------------------------- MODULE TxLog --------------------------------
(***************************************************************************)
(* The tx channel as a log: how setupDB (db.go) finds where to start, pages*)
(* through the messages, applies them, and optionally compacts the log by  *)
(* posting a copy of every line, pinning the copy and unpinning the old    *)
(* start.  Clients start, run, post and crash at any moment.               *)
(*                                                                         *)
(* A message is one attachment, a sequence of lines; every line has the    *)
(* same size.  What a mounted client does with its database is Dsfs's: here*)
(* it only posts.                                                          *)
(***************************************************************************)
EXTENDS Integers, Sequences, FiniteSets, SequencesExt

CONSTANTS
    Clients,
    Compacting,   \* the clients run with -x
    Paths, Root,
    Entries,      \* what a write transaction may say of a path
    Long,         \* the entries whose line exceeds a bufio.Scanner's buffer
    Batches,      \* the attachments file system operations post
    History,      \* the messages earlier sessions have left, the first pinned
    PageSize,     \* MaxDiscordMessageRequest
    ChunkLines,   \* MaxDiscordFileSize, in lines
    Faults,       \* which failures may happen: "call", "fetch"
    MaxStarts,    \* bound on process starts
    MaxPosts,     \* bound on attachments posted by mounted clients
    None

Tx == [path : Paths, entry : Entries \cup {None}]

(* A copy is what a compaction of one of the Clients posts; any other      *)
(* message counts as an operation, what History holds included.            *)
Message == [lines : Seq(Tx), copy : BOOLEAN]

ASSUME TxLogConstants ==
    /\ Root \in Paths
    /\ Compacting \subseteq Clients
    /\ Long \subseteq Entries /\ Entries \ Long # {}
    /\ None \notin Entries
    /\ Batches \subseteq Seq(Tx)
    /\ History \in Seq(Message)
    /\ \A k \in DOMAIN History : ~History[k].copy
    /\ PageSize \in Nat \ {0} /\ ChunkLines \in Nat \ {0}
    /\ MaxStarts \in Nat /\ MaxPosts \in Nat

VARIABLES
    channel,     \* the messages of the tx channel; a message's ID is its index
    pins,        \* the pinned messages
    everPinned,  \* txChannel.LastPinTimestamp is set
    pc,          \* where each client stands in main and setupDB
    pinned,      \* pinnedMsg of each client, 0 for nil
    upto,        \* the last of its messages
    db,          \* its database
    buffer,      \* its txBuffer
    first,       \* its firstMsg, 0 for nil
    partial,     \* history: it has skipped an attachment
    begun,       \* history: how many messages there were when it started
    damaged,     \* history: one of the causes in Loses has happened
    starts,      \* process starts so far
    posts        \* attachments posted by mounted clients so far

vars == <<channel, pins, everPinned, pc, pinned, upto, db, buffer, first,
          partial, begun, damaged, starts, posts>>
discordVars == <<channel, pins, everPinned>>
localVars == <<pinned, upto, db, buffer, first, partial, begun>>

(* applyMessageTxs reads a message line by line; Scan stops for good at a  *)
(* line that is too long.                                                  *)
Scanned(lines) ==
    LET long == {k \in DOMAIN lines : lines[k].entry \in Long} IN
    IF long = {} THEN lines ELSE SubSeq(lines, 1, Min(long) - 1)

TooLong(lines) == Scanned(lines) # lines

Fetched(ids) == [k \in ids |-> Scanned(channel[k].lines)]

(* The database after some messages, given as their lines by ID: the last  *)
(* line on a path decides.                                                 *)
On(lines, p) == {i \in DOMAIN lines : lines[i].path = p}
Applied(msgs) ==
    [p \in Paths |->
        LET touching == {k \in DOMAIN msgs : On(msgs[k], p) # {}}
            last == msgs[Max(touching)]
        IN IF touching = {} THEN None ELSE last[Max(On(last, p))].entry]

(* The buffer applyMessageTxs fills for the compaction, after the messages *)
(* up to the n-th.                                                         *)
Concatenated(msgs, n) ==
    LET text[k \in 0..n] ==
            IF k = 0 THEN <<>>
            ELSE text[k - 1] \o (IF k \in DOMAIN msgs THEN msgs[k] ELSE <<>>)
    IN text[n]

NewDB == [p \in Paths |-> None]
RootLine == [path |-> Root, entry |-> CHOOSE e \in Entries \ Long : TRUE]

Init ==
    /\ channel = History
    /\ pins = IF History = <<>> THEN {} ELSE {1}
    /\ everPinned = (History # <<>>)
    /\ pc = [c \in Clients |-> "off"]
    /\ pinned = [c \in Clients |-> 0]
    /\ upto = [c \in Clients |-> 0]
    /\ db = [c \in Clients |-> NewDB]
    /\ buffer = [c \in Clients |-> <<>>]
    /\ first = [c \in Clients |-> 0]
    /\ partial = [c \in Clients |-> FALSE]
    /\ begun = [c \in Clients |-> 0]
    /\ damaged = \E k \in DOMAIN History : TooLong(History[k].lines)
    /\ starts = 0
    /\ posts = 0

At(c, l) == pc[c] = l
Goto(c, l) == pc' = [pc EXCEPT ![c] = l]

(* The local variables of setupDB go out of scope.                         *)
Forget(c) ==
    /\ pinned' = [pinned EXCEPT ![c] = 0]
    /\ upto' = [upto EXCEPT ![c] = 0]
    /\ db' = [db EXCEPT ![c] = NewDB]
    /\ buffer' = [buffer EXCEPT ![c] = <<>>]
    /\ first' = [first EXCEPT ![c] = 0]
    /\ partial' = [partial EXCEPT ![c] = FALSE]
    /\ begun' = [begun EXCEPT ![c] = 0]
Exit(c) == Goto(c, "off") /\ Forget(c)

-----------------------------------------------------------------------------
(* main up to setupDB: the channel and its LastPinTimestamp are read.      *)
Start(c) ==
    /\ At(c, "off")
    /\ starts < MaxStarts
    /\ starts' = starts + 1
    /\ begun' = [begun EXCEPT ![c] = Len(channel)]
    /\ Goto(c, IF everPinned THEN "pins" ELSE "root")
    /\ UNCHANGED <<discordVars, pinned, upto, db, buffer, first, partial,
                   damaged, posts>>

(* The process ends, wherever it stands.                                   *)
Stop(c) ==
    /\ ~At(c, "off")
    /\ Exit(c)
    /\ UNCHANGED <<discordVars, damaged, starts, posts>>

Posted(lines, copy) == Append(channel, [lines |-> lines, copy |-> copy])

(* A call of the Discord API that changes something: its effect and the    *)
(* continuation, or an error, with the effect or without it.               *)
Call(effect, none, then, error) ==
    \/ effect /\ then
    \/ "call" \in Faults /\ error /\ (effect \/ none)

(* No pin yet: the root folder is posted, and its message pinned.          *)
SendRoot(c) ==
    /\ At(c, "root")
    /\ Call(channel' = Posted(<<RootLine>>, FALSE),
            UNCHANGED channel,
            /\ Goto(c, "pinroot")
            /\ pinned' = [pinned EXCEPT ![c] = Len(channel) + 1]
            /\ db' = [db EXCEPT ![c][Root] = RootLine.entry]
            /\ UNCHANGED <<upto, buffer, first, partial, begun>>,
            Exit(c))
    /\ UNCHANGED <<pins, everPinned, damaged, starts, posts>>

PinRoot(c) ==
    /\ At(c, "pinroot")
    /\ Call(/\ pins' = pins \cup {pinned[c]}
            /\ everPinned' = TRUE
            /\ damaged' = (damaged \/ pins # {}),
            UNCHANGED <<pins, everPinned, damaged>>,
            Goto(c, "done") /\ UNCHANGED localVars,
            Exit(c))
    /\ UNCHANGED <<channel, starts, posts>>

(* The last of the pinned messages; their order is Discord's.              *)
ReadPins(c) ==
    /\ At(c, "pins")
    /\ \/ (pins = {} \/ "call" \in Faults) /\ Exit(c)
       \/ /\ \E m \in pins : /\ pinned' = [pinned EXCEPT ![c] = m]
                             /\ upto' = [upto EXCEPT ![c] = m]
          /\ Goto(c, "page")
          /\ UNCHANGED <<db, buffer, first, partial, begun>>
    /\ UNCHANGED <<discordVars, damaged, starts, posts>>

(* Mutants: a full page is taken for the last; an empty page asks again.   *)
StopEarly(n) == TRUE
AskAgain(n) == FALSE

(* One request: the PageSize messages after the last one known, or fewer.  *)
NextPage(n) == Min({n + PageSize, Len(channel)})
LastPage(n) == NextPage(n) - n # PageSize

Page(c) ==
    /\ At(c, "page")
    /\ \/ "call" \in Faults /\ Exit(c)
       \/ /\ upto' = [upto EXCEPT ![c] = NextPage(@)]
          /\ Goto(c, IF LastPage(upto[c]) THEN "apply" ELSE "page")
          /\ UNCHANGED <<pinned, db, buffer, first, partial, begun>>
    /\ UNCHANGED <<discordVars, damaged, starts, posts>>

(* applyMessageTxs: "skipping tx batch" when an attachment is not fetched. *)
Apply(c) ==
    /\ At(c, "apply")
    /\ LET ids == pinned[c]..upto[c] IN
       \E skip \in IF "fetch" \in Faults THEN SUBSET ids ELSE {{}} :
            LET msgs == Fetched(ids \ skip)
                lines == IF c \in Compacting THEN Concatenated(msgs, upto[c])
                         ELSE <<>>
            IN /\ db' = [db EXCEPT ![c] = Applied(msgs)]
               /\ buffer' = [buffer EXCEPT ![c] = lines]
               /\ partial' = [partial EXCEPT ![c] = (skip # {})]
               /\ Goto(c, IF lines # <<>> THEN "compact" ELSE "done")
    /\ UNCHANGED <<discordVars, pinned, upto, first, begun, damaged, starts,
                   posts>>

(* Mutants: the last line of the buffer stays behind; the old start is     *)
(* unpinned before the new one is pinned.                                  *)
LoseLast(b) == SubSeq(b, 1, Len(b) - 1)
UnpinFirst(c) ==
    /\ At(c, "pin")
    /\ pins' = pins \ {pinned[c]}
    /\ Goto(c, "unpin")
    /\ UNCHANGED <<channel, everPinned, localVars, damaged, starts, posts>>

(* The lines that fit; the line that overflows is read and not appended.   *)
Chunk(b) == SubSeq(b, 1, Min({ChunkLines, Len(b)}))
AfterChunk(b) == SubSeq(b, ChunkLines + 2, Len(b))

(* What makes a compaction lose transactions: an attachment that could not *)
(* be fetched, a line that overflowed, or one that somebody else posted    *)
(* since the last page.  (Two more causes: a line that is too long for the *)
(* scanner, and a second root pinned over the first.)                      *)
Loses(c) == \/ partial[c]
            \/ Len(buffer[c]) > ChunkLines
            \/ Len(channel) # upto[c]

(* One ChannelFileSend of the compaction loop, or the one after it.        *)
Flush(c) ==
    /\ At(c, "compact")
    /\ Call(/\ channel' = Posted(Chunk(buffer[c]), TRUE)
            /\ damaged' = (damaged \/ Loses(c)),
            UNCHANGED <<channel, damaged>>,
            /\ buffer' = [buffer EXCEPT ![c] = AfterChunk(@)]
            /\ first' = [first EXCEPT ![c] =
                            IF @ = 0 THEN Len(channel) + 1 ELSE @]
            /\ Goto(c, IF AfterChunk(buffer[c]) = <<>> THEN "pin"
                       ELSE "compact"),
            Goto(c, "done") /\ UNCHANGED <<buffer, first>>)
    /\ UNCHANGED <<pins, everPinned, pinned, upto, db, partial, begun, starts,
                   posts>>

Pin(c) ==
    /\ At(c, "pin")
    /\ Call(pins' = pins \cup {first[c]} /\ everPinned' = TRUE,
            UNCHANGED <<pins, everPinned>>,
            Goto(c, "unpin"),
            Goto(c, "done"))
    /\ UNCHANGED <<channel, localVars, damaged, starts, posts>>

Unpin(c) ==
    /\ At(c, "unpin")
    /\ Call(pins' = pins \ {pinned[c]},
            UNCHANGED pins,
            Goto(c, "done"),
            Goto(c, "done"))
    /\ UNCHANGED <<channel, everPinned, localVars, damaged, starts, posts>>

(* setupDB returns; main builds the file system and mounts it.             *)
Mount(c) ==
    /\ At(c, "done")
    /\ Goto(c, "live")
    /\ Forget(c)
    /\ UNCHANGED <<discordVars, damaged, starts, posts>>

(* A file system operation of a mounted client.                            *)
SendTx(c) ==
    /\ At(c, "live")
    /\ posts < MaxPosts
    /\ posts' = posts + 1
    /\ \E lines \in Batches : /\ channel' = Posted(lines, FALSE)
                              /\ damaged' = (damaged \/ TooLong(lines))
    /\ UNCHANGED <<pins, everPinned, pc, localVars, starts>>

setupDB(c) ==
    \/ SendRoot(c) \/ PinRoot(c) \/ ReadPins(c) \/ Page(c) \/ Apply(c)
    \/ Flush(c) \/ Pin(c) \/ Unpin(c) \/ Mount(c)

Next == \E c \in Clients : Start(c) \/ Stop(c) \/ SendTx(c) \/ setupDB(c)

(* A started process runs, and Discord answers or the call times out.      *)
Spec == Init /\ [][Next]_vars /\ \A c \in Clients : WF_vars(setupDB(c))

-----------------------------------------------------------------------------
(* Properties.                                                             *)

PC == {"off", "root", "pinroot", "pins", "page", "apply", "compact", "pin",
       "unpin", "done", "live"}
Tree == [Paths -> Entries \cup {None}]

(* The type invariant.  What could fail: a start never remembers a message *)
(* that the channel does not have (the pages of setupDB).                  *)
TypeOK ==
    /\ channel \in Seq(Message)
    /\ pins \subseteq DOMAIN channel
    /\ everPinned \in BOOLEAN
    /\ pc \in [Clients -> PC]
    /\ pinned \in [Clients -> 0..Len(channel)]
    /\ upto \in [Clients -> 0..Len(channel)]
    /\ db \in [Clients -> Tree]
    /\ buffer \in [Clients -> Seq(Tx)]
    /\ first \in [Clients -> 0..Len(channel)]
    /\ partial \in [Clients -> BOOLEAN]
    /\ begun \in [Clients -> 0..Len(channel)]
    /\ damaged \in BOOLEAN
    /\ starts \in 0..MaxStarts
    /\ posts \in 0..MaxPosts

(* Once a start point has been pinned there is always one: no crash and no *)
(* failed call in the middle of a compaction, nor two compactions at once, *)
(* leaves a channel that setupDB refuses ("very weird").                   *)
StartPointExists == everPinned => pins # {}

(* What the operations posted up to message n make of the tree.            *)
TreeAt(n) ==
    Applied([k \in {i \in 1..n : ~channel[i].copy} |-> channel[k].lines])

ReplayFrom(m) == Applied(Fetched(m..Len(channel)))

(* Whatever pinned message the next start takes, it finds the tree that    *)
(* the operations made, at every moment: also between any two calls of a   *)
(* compaction, which is where a crash may leave the channel.  The causes   *)
(* named at Loses are all there is that can break it.                      *)
RestartSafe ==
    damaged \/ \A m \in pins : ReplayFrom(m) = TreeAt(Len(channel))

(* setupDB returns the tree as it was at some moment since it began: no    *)
(* message is missed between two pages or at the end of a full one, and    *)
(* what is posted while it reads, a compaction's copies too, is taken in   *)
(* order or not at all.  Only a damaged log or a skipped attachment gives  *)
(* another tree.                                                           *)
SetupGivesTree ==
    \A c \in Clients : pc[c] \in {"compact", "pin", "unpin", "done"} =>
        \/ damaged \/ partial[c]
        \/ \E n \in begun[c]..Len(channel) : db[c] = TreeAt(n)

(* The invariant of the log where calls fail: its type and every start.    *)
TxLogInv == TypeOK /\ SetupGivesTree

(* A start ends: the file system is mounted or the process has given up.   *)
StartEnds ==
    \A c \in Clients : ~At(c, "off") ~> At(c, "live") \/ At(c, "off")
=============================================================================

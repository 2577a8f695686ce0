------------------------------- MODULE Writer -------------------------------
(***************************************************************************)
(* The batching writer of writer.go.  Goroutines hand their data to one    *)
(* unbuffered queue and block on a private callback channel; a single      *)
(* consumer goroutine gathers a batch until it holds MaxDiscordFileCount   *)
(* new items, the next item would overflow MaxDiscordFileSize, or          *)
(* QueueTimeout fires; it posts the batch as one Discord message and       *)
(* answers every caller with the id of its own attachment, or the error.   *)
(*                                                                         *)
(* The module models one queue; setupWriter starts two of them (tx and     *)
(* data) that share nothing.  An element of Items is one sendToQueue call. *)
(***************************************************************************)
EXTENDS Integers, Sequences, FiniteSets

CONSTANTS
    Items,               \* sendToQueue calls
    Size,                \* len(item.data) of each
    MaxDiscordFileCount, \* attachments Discord takes in one message
    MaxDiscordFileSize   \* bytes Discord takes in one message

(* The callers check a transaction against MaxDiscordFileSize (fs.go:615), *)
(* and a data block has FileBlockSize < MaxDiscordFileSize bytes; but the  *)
(* two transactions of a Rename are checked without the newline that joins *)
(* them (fs.go:339-345), so that an item may be too large for any message. *)
ASSUME WriterConstants ==
    /\ MaxDiscordFileCount \in Nat \ {0}
    /\ MaxDiscordFileSize \in Nat
    /\ Size \in [Items -> Nat]

VARIABLES
    caller,    \* where each call stands: idle, offering, waiting, done
    result,    \* the QueueResult of each call that is done
    pc,        \* the consumer: collect, send or reply
    items,     \* the batch being gathered, posted or answered
    onhold,    \* the item that overflowed the batch
    i,         \* new items taken in this round
    totalSize, \* their bytes
    msg,       \* index in channel of the message just posted, 0 for an error
    next,      \* the next item of the batch to answer
    channel,   \* external: messages Discord stored, each the items it holds
    taken,     \* history: items in the order the consumer received them
    shipped    \* history: items in the order they went out in batches

vars == <<caller, result, pc, items, onhold, i, totalSize, msg, next,
          channel, taken, shipped>>

QueueResult == [err : BOOLEAN, msg : Nat, att : Nat]

Init ==
    /\ caller = [x \in Items |-> "idle"]
    /\ result = [x \in Items |-> [err |-> TRUE, msg |-> 0, att |-> 0]]
    /\ pc = "collect"
    /\ items = <<>>
    /\ onhold = <<>>
    /\ i = 0
    /\ totalSize = 0
    /\ msg = 0
    /\ next = 1
    /\ channel = <<>>
    /\ taken = <<>>
    /\ shipped = <<>>

(* sendToQueue: make the callback channel and block on queue <- item.      *)
sendToQueue(x) ==
    /\ caller[x] = "idle"
    /\ caller' = [caller EXCEPT ![x] = "offering"]
    /\ UNCHANGED <<result, pc, items, onhold, i, totalSize, msg, next,
                   channel, taken, shipped>>

(* The mutants of this module: an item that overflows is dropped, the item *)
(* on hold is forgotten or not cleared, every caller is named the first    *)
(* attachment, a failed post is not answered.                              *)
HoldNothing(x) == onhold
CarryNothing == <<>>
StillOnHold == onhold
FirstAttachment(k) == IF msg = 0 THEN [err |-> TRUE, msg |-> 0, att |-> 0]
                      ELSE [err |-> FALSE, msg |-> msg, att |-> 1]
UnblockOnSuccess(x) == IF msg = 0 THEN caller
                       ELSE [caller EXCEPT ![x] = "done"]

Hold(x) == Append(onhold, x)
BatchFull(n) == n >= MaxDiscordFileCount

(* case item := <-queue: one iteration of the gathering loop.              *)
Receive(x) ==
    /\ pc = "collect"
    /\ caller[x] = "offering"
    /\ caller' = [caller EXCEPT ![x] = "waiting"]
    /\ taken' = Append(taken, x)
    /\ i' = i + 1
    /\ totalSize' = totalSize + Size[x]
    /\ \/ /\ totalSize' > MaxDiscordFileSize
          /\ onhold' = Hold(x)
          /\ pc' = "send"
          /\ UNCHANGED items
       \/ /\ totalSize' <= MaxDiscordFileSize
          /\ items' = Append(items, x)
          /\ pc' = IF BatchFull(i') THEN "send" ELSE "collect"
          /\ UNCHANGED onhold
    /\ UNCHANGED <<result, msg, next, channel, shipped>>

(* case <-after: QueueTimeout fires, at any moment, and ends the round.    *)
Timeout ==
    /\ pc = "collect"
    /\ pc' = "send"
    /\ UNCHANGED <<caller, result, items, onhold, i, totalSize, msg, next,
                   channel, taken, shipped>>

BatchSize(s) ==
    LET sum[n \in 0..Len(s)] == IF n = 0 THEN 0 ELSE sum[n - 1] + Size[s[n]]
    IN  sum[Len(s)]

(* External: what Discord accepts as one message.                          *)
Acceptable(s) ==
    /\ Len(s) <= MaxDiscordFileCount
    /\ BatchSize(s) <= MaxDiscordFileSize

(* ChannelMessageSendComplex returns: the message is stored and named, or  *)
(* an error comes back, after which it may or may not have been stored.    *)
Send ==
    /\ pc = "send"
    /\ items # <<>>
    /\ shipped' = shipped \o items
    /\ pc' = "reply"
    /\ next' = 1
    /\ \/ /\ Acceptable(items)
          /\ channel' = Append(channel, items)
          /\ msg' \in {0, Len(channel')}
       \/ /\ UNCHANGED channel
          /\ msg' = 0
    /\ UNCHANGED <<caller, result, items, onhold, i, totalSize, taken>>

ResultFor(k) == IF msg = 0 THEN [err |-> TRUE, msg |-> 0, att |-> 0]
                ELSE [err |-> FALSE, msg |-> msg, att |-> k]
Unblock(x) == [caller EXCEPT ![x] = "done"]

(* items[i].channel <- QueueResult{...}; the caller is always receiving.   *)
Reply ==
    /\ pc = "reply"
    /\ next <= Len(items)
    /\ result' = [result EXCEPT ![items[next]] = ResultFor(next)]
    /\ caller' = Unblock(items[next])
    /\ next' = next + 1
    /\ UNCHANGED <<pc, items, onhold, i, totalSize, msg, channel, taken,
                   shipped>>

CarriedOver == onhold
NoneOnHold == <<>>

(* Back to the top of the loop: an empty batch is skipped, an answered one *)
(* is done with.  The item on hold opens the next batch, uncounted.        *)
NextRound ==
    /\ \/ pc = "send" /\ items = <<>>
       \/ pc = "reply" /\ next > Len(items)
    /\ items' = CarriedOver
    /\ onhold' = NoneOnHold
    /\ i' = 0
    /\ totalSize' = 0
    /\ pc' = "collect"
    /\ UNCHANGED <<caller, result, msg, next, channel, taken, shipped>>

processQueue ==
    \/ \E x \in Items : Receive(x)
    \/ Timeout
    \/ Send
    \/ Reply
    \/ NextRound

Next ==
    \/ \E x \in Items : sendToQueue(x)
    \/ processQueue

(* The consumer goroutine is scheduled by the Go runtime and every call it *)
(* makes returns: the HTTP client of discordgo has a timeout.  An offered  *)
(* item is received because the waiters of a Go channel are served in the  *)
(* order they arrived and the timer cannot win every select.               *)
Fairness ==
    /\ WF_vars(processQueue)
    /\ \A x \in Items : SF_vars(Receive(x))

Spec == Init /\ [][Next]_vars /\ Fairness

-----------------------------------------------------------------------------
(* Properties.                                                             *)

(* The type invariant.  Its one bound that could fail: processQueue never  *)
(* counts more than MaxDiscordFileCount new items in a round.              *)
TypeOK ==
    /\ caller \in [Items -> {"idle", "offering", "waiting", "done"}]
    /\ result \in [Items -> QueueResult]
    /\ pc \in {"collect", "send", "reply"}
    /\ items \in Seq(Items)
    /\ onhold \in Seq(Items)
    /\ i \in 0..MaxDiscordFileCount
    /\ totalSize \in Nat
    /\ msg \in Nat
    /\ next \in Nat \ {0}
    /\ channel \in Seq(Seq(Items))
    /\ taken \in Seq(Items)
    /\ shipped \in Seq(Items)

Gathered == IF pc = "reply" THEN <<>> ELSE items

(* Batches go out in the order the queue delivered their items, and an     *)
(* item put on hold neither overtakes nor is overtaken: the order of the   *)
(* transactions in the log is the order in which processQueue got them.    *)
FifoPipeline == taken = shipped \o Gathered \o onhold

Unanswered ==
    {items[k] : k \in (IF pc = "reply" THEN next..Len(items) ELSE DOMAIN items)}
        \cup {onhold[k] : k \in DOMAIN onhold}

(* A goroutine blocked on its callback is one the consumer still holds in  *)
(* the batch or on hold: no caller of sendToQueue is forgotten.            *)
NoCallerForgotten == {x \in Items : caller[x] = "waiting"} = Unanswered

(* The file id a caller gets names the attachment that carries its own     *)
(* data: a transaction never refers to another file's block.               *)
AnswerNamesOwnFile ==
    \A x \in Items :
        caller[x] = "done" /\ ~result[x].err =>
            /\ result[x].msg \in DOMAIN channel
            /\ result[x].att \in DOMAIN channel[result[x].msg]
            /\ channel[result[x].msg][result[x].att] = x

(* What the bounds of processQueue's loop really guarantee: but for one    *)
(* item carried over from onhold, which is not counted, a batch is within  *)
(* the limits of a message, in items and in bytes.                         *)
CountAtMostOneOver ==
    /\ Len(items) <= MaxDiscordFileCount + 1
    /\ Len(onhold) <= 1
BatchAtMostOneOver ==
    /\ CountAtMostOneOver
    /\ items # <<>> => BatchSize(Tail(items)) <= MaxDiscordFileSize

(* Every call of SendTx or SendData returns.                               *)
EveryCallReturns ==
    \A x \in Items : caller[x] = "offering" ~> caller[x] = "done"
=============================================================================

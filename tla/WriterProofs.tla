---------------------------- MODULE WriterProofs ----------------------------
(***************************************************************************)
(* Writer's safety properties for every set of calls, every size of theirs *)
(* and every limit of Discord's.                                           *)
(*                                                                         *)
(* The loop of processQueue keeps BatchBound: while it gathers, nothing is *)
(* on hold, the count has room, and the batch holds at most one item more  *)
(* than were counted.  With the types it is inductive, and the other       *)
(* properties build on it.                                                 *)
(***************************************************************************)
EXTENDS Writer, SequenceTheorems, TLAPS

BatchBound ==
    /\ pc = "collect" => /\ onhold = <<>>
                         /\ i < MaxDiscordFileCount
                         /\ Len(items) <= i + 1
    /\ Len(items) <= MaxDiscordFileCount + 1
    /\ Len(onhold) <= 1

(* Appending keeps a sequence a sequence over any set, sequences included.  *)
LEMMA AppendType ==
    ASSUME NEW S, NEW s \in Seq(S), NEW x \in S
    PROVE  /\ Append(s, x) \in Seq(S)
           /\ Len(Append(s, x)) = Len(s) + 1
           /\ \A k \in 1..Len(s) : Append(s, x)[k] = s[k]
           /\ Append(s, x)[Len(s) + 1] = x
BY AppendProperties

LEMMA InitBound == Init => TypeOK /\ BatchBound
BY WriterConstants DEF Init, TypeOK, BatchBound, QueueResult

LEMMA NextBound ==
    TypeOK /\ BatchBound /\ [Next]_vars => TypeOK' /\ BatchBound'
<1> SUFFICES ASSUME TypeOK, BatchBound, [Next]_vars
             PROVE  TypeOK' /\ BatchBound'
  OBVIOUS
<1> USE WriterConstants DEF TypeOK, BatchBound
<1>1. ASSUME NEW x \in Items, sendToQueue(x) PROVE TypeOK' /\ BatchBound'
  BY <1>1 DEF sendToQueue
<1>2. ASSUME NEW x \in Items, Receive(x) PROVE TypeOK' /\ BatchBound'
  <2>1. /\ caller' \in [Items -> {"idle", "offering", "waiting", "done"}]
        /\ taken' \in Seq(Items)
        /\ i' = i + 1 /\ i' \in 0..MaxDiscordFileCount
        /\ totalSize' \in Nat
        /\ UNCHANGED <<result, msg, next, channel, shipped>>
    BY <1>2 DEF Receive
  <2>2. CASE totalSize' > MaxDiscordFileSize
    <3>1. onhold' = <<x>> /\ pc' = "send" /\ items' = items
      BY <1>2, <2>1, <2>2 DEF Receive, Hold
    <3> QED BY <2>1, <3>1
  <2>3. CASE ~(totalSize' > MaxDiscordFileSize)
    <3>1. /\ items' = Append(items, x) /\ onhold' = onhold
          /\ pc' = IF BatchFull(i') THEN "send" ELSE "collect"
      BY <1>2, <2>1, <2>3 DEF Receive
    <3>2. pc = "collect"
      BY <1>2 DEF Receive
    <3> QED BY <2>1, <3>1, <3>2 DEF BatchFull
  <2> QED BY <2>2, <2>3
<1>3. CASE Timeout
  BY <1>3 DEF Timeout
<1>4. CASE Send
  <2>1. channel' \in Seq(Seq(Items)) /\ msg' \in Nat
    <3>1. CASE channel' = Append(channel, items) /\ msg' \in {0, Len(channel')}
      BY <3>1, AppendType, LenProperties
    <3>2. CASE channel' = channel /\ msg' = 0
      BY <3>2
    <3> QED BY <1>4, <3>1, <3>2 DEF Send
  <2>2. shipped' \in Seq(Items)
    BY <1>4, ConcatProperties DEF Send
  <2> QED BY <1>4, <2>1, <2>2 DEF Send
<1>5. CASE Reply
  <2>1. items[next] \in Items /\ next \in DOMAIN items
    BY <1>5, ElementOfSeq DEF Reply
  <2>2. ResultFor(next) \in QueueResult
    BY DEF ResultFor, QueueResult
  <2> QED BY <1>5, <2>1, <2>2 DEF Reply, Unblock
<1>6. CASE NextRound
  BY <1>6 DEF NextRound, CarriedOver, NoneOnHold
<1>7. CASE UNCHANGED vars
  BY <1>7 DEF vars
<1> QED BY <1>1, <1>2, <1>3, <1>4, <1>5, <1>6, <1>7 DEF Next, processQueue

(* The types of processQueue's variables hold in every state; in           *)
(* particular the loop counter never passes MaxDiscordFileCount.           *)
THEOREM WriterTypeOK == Spec => []TypeOK
<1> QED BY InitBound, NextBound, PTL DEF Spec

(* No batch exceeds the limit on attachments by more than the one item     *)
(* held back from the round before, and at most one item is held back.     *)
(* This is the first half of BatchAtMostOneOver; the bytes of a batch are  *)
(* a recursive sum, and that half is checked by TLC only.                  *)
THEOREM WriterBatchBound == Spec => []CountAtMostOneOver
<1>1. BatchBound => CountAtMostOneOver
  BY DEF BatchBound, CountAtMostOneOver
<1> QED BY <1>1, InitBound, NextBound, PTL DEF Spec

-----------------------------------------------------------------------------
(* Order.  Each step moves the boundary between shipped, gathered and held *)
(* items of the one sequence taken, or appends to its end.                 *)

LEMMA InitFifo == Init => FifoPipeline
BY DEF Init, FifoPipeline, Gathered

LEMMA NextFifo ==
    TypeOK /\ BatchBound /\ FifoPipeline /\ [Next]_vars => FifoPipeline'
<1> SUFFICES ASSUME TypeOK, BatchBound, FifoPipeline, [Next]_vars
             PROVE  FifoPipeline'
  OBVIOUS
<1>t. /\ items \in Seq(Items) /\ onhold \in Seq(Items)
      /\ shipped \in Seq(Items) /\ taken \in Seq(Items)
      /\ pc \in {"collect", "send", "reply"}
  BY DEF TypeOK
<1>e. \A s \in Seq(Items) : s \o <<>> = s /\ <<>> \o s = s
  BY ConcatEmptySeq
<1>c. shipped \o items \in Seq(Items)
  BY <1>t, ConcatProperties
<1>1. ASSUME NEW x \in Items, sendToQueue(x) PROVE FifoPipeline'
  BY <1>1 DEF sendToQueue, FifoPipeline, Gathered
<1>2. ASSUME NEW x \in Items, Receive(x) PROVE FifoPipeline'
  <2>1. onhold = <<>> /\ pc = "collect" /\ taken = shipped \o items
    BY <1>2, <1>t, <1>e, <1>c DEF Receive, BatchBound, FifoPipeline, Gathered
  <2>2. taken' = (shipped \o items) \o <<x>> /\ shipped' = shipped
    BY <1>2, <1>t, <1>c, <2>1, AppendIsConcat DEF Receive
  <2>3. CASE items' = items /\ onhold' = Hold(x) /\ pc' = "send"
    <3>1. onhold' = <<x>>
      BY <2>1, <2>3 DEF Hold
    <3> QED BY <2>2, <2>3, <3>1 DEF FifoPipeline, Gathered
  <2>4. CASE /\ items' = Append(items, x) /\ onhold' = onhold
             /\ pc' \in {"send", "collect"}
    <3>1. items' = items \o <<x>> /\ onhold' = <<>> /\ Gathered' = items'
      BY <1>t, <2>1, <2>4, AppendIsConcat DEF Gathered
    <3>2. shipped \o (items \o <<x>>) = (shipped \o items) \o <<x>>
      BY <1>t, ConcatAssociative
    <3>3. shipped \o (items \o <<x>>) \in Seq(Items)
      BY <1>t, ConcatProperties
    <3> QED BY <1>e, <2>2, <3>1, <3>2, <3>3 DEF FifoPipeline
  <2> QED BY <1>2, <2>3, <2>4 DEF Receive
<1>3. CASE Timeout
  BY <1>3 DEF Timeout, FifoPipeline, Gathered
<1>4. CASE Send
  <2>1. /\ taken = (shipped \o items) \o onhold
        /\ shipped' = shipped \o items /\ onhold' = onhold /\ taken' = taken
        /\ Gathered' = <<>>
    BY <1>4 DEF Send, FifoPipeline, Gathered
  <2> QED BY <1>e, <1>c, <2>1 DEF FifoPipeline
<1>5. CASE Reply
  BY <1>5 DEF Reply, FifoPipeline, Gathered
<1>6. CASE NextRound
  <2>1. /\ Gathered = <<>>
        /\ Gathered' = onhold /\ onhold' = <<>>
        /\ taken' = taken /\ shipped' = shipped
    BY <1>6 DEF NextRound, CarriedOver, NoneOnHold, Gathered
  <2>2. taken = shipped \o onhold
    BY <1>t, <1>e, <2>1 DEF FifoPipeline
  <2>3. shipped \o onhold \in Seq(Items)
    BY <1>t, ConcatProperties
  <2> QED BY <1>e, <2>1, <2>2, <2>3 DEF FifoPipeline
<1>7. CASE UNCHANGED vars
  BY <1>7 DEF vars, FifoPipeline, Gathered
<1> QED BY <1>1, <1>2, <1>3, <1>4, <1>5, <1>6, <1>7 DEF Next, processQueue

(* Items leave in the order processQueue received them, whatever overflows *)
(* and times out.                                                          *)
THEOREM WriterFifo == Spec => []FifoPipeline
<1> QED BY InitBound, NextBound, InitFifo, NextFifo, PTL DEF Spec

-----------------------------------------------------------------------------
(* Answers.  While a posted batch is answered, msg names its message.      *)

MsgNamesBatch ==
    pc = "reply" /\ msg # 0 => msg \in DOMAIN channel /\ channel[msg] = items

LEMMA InitAnswer == Init => MsgNamesBatch /\ AnswerNamesOwnFile
BY DEF Init, MsgNamesBatch, AnswerNamesOwnFile

LEMMA NextAnswer ==
    TypeOK /\ MsgNamesBatch /\ AnswerNamesOwnFile /\ [Next]_vars
        => MsgNamesBatch' /\ AnswerNamesOwnFile'
<1> SUFFICES ASSUME TypeOK, MsgNamesBatch, AnswerNamesOwnFile, [Next]_vars
             PROVE  MsgNamesBatch' /\ AnswerNamesOwnFile'
  OBVIOUS
<1> USE DEF MsgNamesBatch, AnswerNamesOwnFile
<1>t. /\ caller \in [Items -> {"idle", "offering", "waiting", "done"}]
      /\ result \in [Items -> QueueResult]
  BY DEF TypeOK
<1>1. ASSUME NEW x \in Items, sendToQueue(x)
      PROVE  MsgNamesBatch' /\ AnswerNamesOwnFile'
  BY <1>1, <1>t DEF sendToQueue
<1>2. ASSUME NEW x \in Items, Receive(x)
      PROVE  MsgNamesBatch' /\ AnswerNamesOwnFile'
  BY <1>2, <1>t DEF Receive
<1>3. CASE Timeout
  BY <1>3 DEF Timeout
<1>4. CASE Send
  <2>1. channel \in Seq(Seq(Items)) /\ items \in Seq(Items)
    BY DEF TypeOK
  <2>2. CASE channel' = Append(channel, items) /\ msg' \in {0, Len(channel')}
    <3>1. /\ Len(channel') = Len(channel) + 1
          /\ DOMAIN channel = 1..Len(channel)
          /\ DOMAIN channel' = 1..Len(channel')
          /\ Len(channel) \in Nat
      BY <2>1, <2>2, AppendType, LenProperties
    <3>2. /\ \A k \in DOMAIN channel : channel'[k] = channel[k]
          /\ channel'[Len(channel')] = items
      BY <2>1, <2>2, <3>1, AppendType
    <3>3. MsgNamesBatch'
      <4>1. items' = items /\ (msg' = 0 \/ msg' = Len(channel'))
        BY <1>4, <2>2 DEF Send
      <4>2. Len(channel') \in DOMAIN channel'
        BY <3>1
      <4> QED BY <3>2, <4>1, <4>2
    <3>4. AnswerNamesOwnFile'
      BY <1>4, <3>1, <3>2 DEF Send
    <3> QED BY <3>3, <3>4
  <2>3. CASE channel' = channel /\ msg' = 0
    BY <1>4, <2>3 DEF Send
  <2> QED BY <1>4, <2>2, <2>3 DEF Send
<1>5. CASE Reply
  <2>1. items[next] \in Items /\ next \in DOMAIN items
    BY <1>5, ElementOfSeq, LenProperties DEF Reply, TypeOK
  <2>2. /\ result' = [result EXCEPT ![items[next]] = ResultFor(next)]
        /\ UNCHANGED <<pc, items, msg, channel>>
        /\ pc = "reply"
    BY <1>5 DEF Reply
  <2>3. ASSUME NEW y \in Items, caller'[y] = "done", ~result'[y].err
        PROVE  /\ result'[y].msg \in DOMAIN channel
               /\ result'[y].att \in DOMAIN channel[result'[y].msg]
               /\ channel[result'[y].msg][result'[y].att] = y
    <3>1. CASE y = items[next]
      BY <1>t, <2>1, <2>2, <2>3, <3>1 DEF ResultFor
    <3>2. CASE y # items[next]
      BY <1>5, <1>t, <2>1, <2>2, <2>3, <3>2 DEF Reply, Unblock
    <3> QED BY <3>1, <3>2
  <2> QED BY <2>2, <2>3
<1>6. CASE NextRound
  BY <1>6 DEF NextRound, NoneOnHold
<1>7. CASE UNCHANGED vars
  BY <1>7 DEF vars
<1> QED BY <1>1, <1>2, <1>3, <1>4, <1>5, <1>6, <1>7 DEF Next, processQueue

(* A caller that is answered without an error gets the attachment that     *)
(* holds the data it gave to sendToQueue.                                  *)
THEOREM WriterAnswers == Spec => []AnswerNamesOwnFile
<1> QED BY InitBound, NextBound, InitAnswer, NextAnswer, PTL DEF Spec

-----------------------------------------------------------------------------
(* Callers.  No call is in the consumer's hands twice, so answering one    *)
(* position of the batch settles exactly one caller.                       *)

HeldOnce ==
    /\ \A k, l \in 1..Len(items) : items[k] = items[l] => k = l
    /\ \A k \in 1..Len(items), l \in 1..Len(onhold) : items[k] # onhold[l]

Open == IF pc = "reply" THEN next..Len(items) ELSE 1..Len(items)

CallerHeld ==
    \A x \in Items : caller[x] = "waiting" <=>
        \/ \E k \in Open : items[k] = x
        \/ \E l \in 1..Len(onhold) : onhold[l] = x

LEMMA InitCallers == Init => HeldOnce /\ CallerHeld
BY DEF Init, HeldOnce, CallerHeld, Open

LEMMA NextCallers ==
    TypeOK /\ BatchBound /\ HeldOnce /\ CallerHeld /\ [Next]_vars
        => HeldOnce' /\ CallerHeld'
<1> SUFFICES ASSUME TypeOK, BatchBound, HeldOnce, CallerHeld, [Next]_vars
             PROVE  HeldOnce' /\ CallerHeld'
  OBVIOUS
<1>t. /\ caller \in [Items -> {"idle", "offering", "waiting", "done"}]
      /\ items \in Seq(Items) /\ onhold \in Seq(Items)
      /\ Len(items) \in Nat /\ Len(onhold) \in Nat
      /\ \A k \in 1..Len(items) : items[k] \in Items
      /\ \A l \in 1..Len(onhold) : onhold[l] \in Items
      /\ next \in Nat \ {0}
  BY LenProperties, ElementOfSeq DEF TypeOK
<1>1. ASSUME NEW x \in Items, sendToQueue(x) PROVE HeldOnce' /\ CallerHeld'
  <2>1. UNCHANGED <<pc, items, onhold, next>>
    BY <1>1 DEF sendToQueue
  <2>2. \A y \in Items : caller'[y] = "waiting" <=> caller[y] = "waiting"
    BY <1>1, <1>t DEF sendToQueue
  <2> QED BY <2>1, <2>2 DEF HeldOnce, CallerHeld, Open
<1>2. ASSUME NEW x \in Items, Receive(x) PROVE HeldOnce' /\ CallerHeld'
  <2>1. /\ pc = "collect" /\ onhold = <<>> /\ Len(onhold) = 0
        /\ caller[x] = "offering"
        /\ \A y \in Items : caller'[y] = IF y = x THEN "waiting" ELSE caller[y]
    BY <1>2, <1>t DEF Receive, BatchBound
  <2>2. \A k \in 1..Len(items) : items[k] # x
    BY <1>t, <2>1 DEF CallerHeld, Open
  <2>3. CASE items' = items /\ onhold' = Hold(x) /\ pc' = "send"
    <3>1. Len(onhold') = 1 /\ onhold'[1] = x
      BY <2>1, <2>3 DEF Hold
    <3> QED BY <1>t, <2>1, <2>2, <2>3, <3>1 DEF HeldOnce, CallerHeld, Open
  <2>4. CASE /\ items' = Append(items, x) /\ onhold' = onhold
             /\ pc' \in {"send", "collect"}
    <3>1. /\ Len(items') = Len(items) + 1
          /\ \A k \in 1..Len(items) : items'[k] = items[k]
          /\ items'[Len(items) + 1] = x
      BY <1>t, <2>4, AppendType
    <3>2. HeldOnce'
      BY <1>t, <2>1, <2>2, <2>4, <3>1 DEF HeldOnce
    <3>3. CallerHeld'
      <4>0. 1..Len(items') = 1..Len(items) \cup {Len(items) + 1}
        BY <1>t, <3>1
      <4>1. \A y : (\E k \in 1..Len(items') : items'[k] = y) <=>
                    y = x \/ \E k \in 1..Len(items) : items[k] = y
        BY <3>1, <4>0, Zenon
      <4>2. Open' = 1..Len(items') /\ Open = 1..Len(items)
        BY <2>1, <2>4 DEF Open
      <4> QED BY <2>1, <2>4, <4>1, <4>2 DEF CallerHeld
    <3> QED BY <3>2, <3>3
  <2> QED BY <1>2, <2>3, <2>4 DEF Receive
<1>3. CASE Timeout
  BY <1>3 DEF Timeout, HeldOnce, CallerHeld, Open
<1>4. CASE Send
  BY <1>4 DEF Send, HeldOnce, CallerHeld, Open
<1>5. CASE Reply
  <2>1. /\ UNCHANGED <<items, onhold, pc>> /\ pc = "reply"
        /\ next' = next + 1 /\ next \in 1..Len(items)
        /\ \A y \in Items :
                caller'[y] = IF y = items[next] THEN "done" ELSE caller[y]
    BY <1>5, <1>t DEF Reply, Unblock
  <2>2. HeldOnce'
    BY <2>1 DEF HeldOnce
  <2>3. Open = {next} \cup Open' /\ Open \subseteq 1..Len(items)
            /\ next \notin Open'
    BY <1>t, <2>1 DEF Open
  <2>4. \A k \in Open' : items[k] # items[next]
    BY <1>t, <2>1, <2>3 DEF HeldOnce
  <2>5. \A l \in 1..Len(onhold) : onhold[l] # items[next]
    BY <1>t, <2>1 DEF HeldOnce
  <2>6. CallerHeld'
    BY <2>1, <2>3, <2>4, <2>5 DEF CallerHeld
  <2> QED BY <2>2, <2>6
<1>6. CASE NextRound
  <2>1. /\ items' = onhold /\ Len(onhold') = 0 /\ caller' = caller
        /\ pc' = "collect" /\ Open = {}
    BY <1>6, <1>t DEF NextRound, CarriedOver, NoneOnHold, Open
  <2>2. HeldOnce'
    BY <1>t, <2>1 DEF HeldOnce, BatchBound
  <2>3. CallerHeld'
    BY <1>t, <2>1 DEF CallerHeld, Open
  <2> QED BY <2>2, <2>3
<1>7. CASE UNCHANGED vars
  BY <1>7 DEF vars, HeldOnce, CallerHeld, Open
<1> QED BY <1>1, <1>2, <1>3, <1>4, <1>5, <1>6, <1>7 DEF Next, processQueue

(* The goroutines blocked on a callback are exactly those whose item the   *)
(* consumer has yet to answer.                                             *)
THEOREM WriterCallers == Spec => []NoCallerForgotten
<1>1. TypeOK /\ CallerHeld => NoCallerForgotten
  <2> SUFFICES ASSUME TypeOK, CallerHeld PROVE NoCallerForgotten
    OBVIOUS
  <2>1. /\ DOMAIN items = 1..Len(items) /\ DOMAIN onhold = 1..Len(onhold)
        /\ Len(items) \in Nat /\ next \in Nat \ {0}
        /\ \A k \in 1..Len(items) : items[k] \in Items
        /\ \A l \in 1..Len(onhold) : onhold[l] \in Items
    BY LenProperties, ElementOfSeq DEF TypeOK
  <2>2. Unanswered = {items[k] : k \in Open}
                        \cup {onhold[l] : l \in 1..Len(onhold)}
    BY <2>1 DEF Unanswered, Open
  <2>3. Open \subseteq 1..Len(items)
    BY <2>1 DEF Open
  <2> QED BY <2>1, <2>2, <2>3 DEF CallerHeld, NoCallerForgotten
<1> QED BY <1>1, InitBound, NextBound, InitCallers, NextCallers, PTL DEF Spec
=============================================================================

---------------------------- MODULE TxLogProofs -----------------------------
(***************************************************************************)
(* The invariants of the log, for every number of clients, page and chunk  *)
(* size, and whatever calls fail, in two arguments.                        *)
(*                                                                         *)
(* A channel once pinned always has a start point.  That is not inductive  *)
(* as it stands: an Unpin must not remove the last pin.  It does not       *)
(* because the youngest of the pins is younger than every message that     *)
(* some client is about to unpin: a client pins the first message of its   *)
(* own compaction before it unpins the one it started from, and that first *)
(* message was posted after it had read the pins.                          *)
(*                                                                         *)
(* A start finds the tree the operations made.  Every pin is a good start: *)
(* reading from it up to any later message gives the tree that the         *)
(* operations up to that message made, so a client may stop reading at any *)
(* message.  A message posted behind it keeps it one: an operation changes *)
(* both trees alike, and a copy says, of every path it has a line for,     *)
(* what the tree is.  The copy's first message is a good start of its own, *)
(* for an empty database with the copy on top is that tree.  While no      *)
(* message is pinned the channel holds root folders only.                  *)
(***************************************************************************)
EXTENDS TxLog, SequenceTheorems, TLAPS, WellFoundedInduction

IsSequence(s) == s \in Seq({s[k] : k \in DOMAIN s})

(* The variables the argument is about have their types.                   *)
PinTypes ==
    /\ IsSequence(channel)
    /\ pins \subseteq Nat
    /\ pc \in [Clients -> PC]
    /\ pinned \in [Clients -> Nat]
    /\ first \in [Clients -> Nat]

(* Every message a client or the channel refers to has been posted.        *)
Known ==
    /\ \A m \in pins : m <= Len(channel)
    /\ \A c \in Clients : pinned[c] <= Len(channel) /\ first[c] <= Len(channel)

(* A compaction's first message is younger than the start it replaces.     *)
CopyIsYounger ==
    \A c \in Clients :
        /\ first[c] # 0 => pinned[c] < first[c]
        /\ first[c] # 0 => pc[c] \in {"compact", "pin", "unpin", "done"}
        /\ pc[c] \in {"pin", "unpin"} => first[c] # 0

YoungestStays ==
    /\ \A c \in Clients : pc[c] = "unpin" => everPinned
    /\ everPinned => \E m \in pins :
        \A c \in Clients : pc[c] = "unpin" => pinned[c] < m

PinInv == PinTypes /\ Known /\ CopyIsYounger /\ YoungestStays

-----------------------------------------------------------------------------
LEMMA AppendIsSequence ==
    ASSUME NEW s, IsSequence(s), NEW x
    PROVE  /\ IsSequence(Append(s, x))
           /\ Len(Append(s, x)) = Len(s) + 1
           /\ Len(s) \in Nat
  <1> DEFINE S == {s[k] : k \in DOMAIN s} \cup {x}
  <1>1. s \in Seq(S)
    BY DEF IsSequence
  <1>2. Append(s, x) \in Seq(S) /\ Len(Append(s, x)) = Len(s) + 1
    BY <1>1
  <1> DEFINE t == Append(s, x)
             T == {t[k] : k \in DOMAIN t}
  <1>3. IsSequence(t)
    <2>1. t \in [1..Len(t) -> S] /\ Len(t) \in Nat /\ DOMAIN t = 1..Len(t)
      BY <1>2, LenProperties
    <2>2. t \in [1..Len(t) -> T]
      BY <2>1
    <2>3. t \in Seq(T)
      BY <2>1, <2>2, SeqDef
    <2> QED BY <2>3 DEF IsSequence
  <1> QED BY <1>1, <1>2, <1>3

LEMMA ChannelLength == PinTypes => Len(channel) \in Nat
  BY DEF PinTypes, PC, IsSequence

LEMMA Posting ==
    ASSUME PinTypes, NEW lines, NEW copy, channel' = Posted(lines, copy)
    PROVE  IsSequence(channel') /\ Len(channel') = Len(channel) + 1
  BY AppendIsSequence DEF PinTypes, PC, Posted

LEMMA PinInvInit == Init => PinInv
  <1> SUFFICES ASSUME Init PROVE PinInv
    OBVIOUS
  <1>1. IsSequence(channel)
    BY TxLogConstants DEF Init, IsSequence
  <1>2. History # <<>> => 1 <= Len(channel)
    BY TxLogConstants DEF Init
  <1>3. PinTypes
    BY <1>1 DEF Init, PinTypes, PC
  <1>4. Known
    BY <1>2, <1>3, ChannelLength DEF Init, Known
  <1>5. CopyIsYounger /\ YoungestStays
    BY DEF Init, CopyIsYounger, YoungestStays
  <1> QED BY <1>3, <1>4, <1>5 DEF PinInv

-----------------------------------------------------------------------------
(* Where a step of client c leaves it: at l, with pinnedMsg and firstMsg.  *)
Moves(c, l, p, f) ==
    /\ pc' = [pc EXCEPT ![c] = l]
    /\ pinned' = [pinned EXCEPT ![c] = p]
    /\ first' = [first EXCEPT ![c] = f]

Grows == IsSequence(channel') /\ Len(channel') >= Len(channel)

LEMMA ChannelGrows ==
    ASSUME PinTypes, NEW lines, NEW copy,
           channel' = Posted(lines, copy) \/ UNCHANGED channel
    PROVE  Grows /\ Len(channel) \in Nat /\ Len(channel') \in Nat
  BY Posting, ChannelLength DEF Grows, PinTypes

(* A client that moves without a change of its messages.                   *)
LEMMA GotoMoves ==
    ASSUME PinTypes, NEW c \in Clients, NEW l, Goto(c, l),
           UNCHANGED <<pinned, first>>
    PROVE  Moves(c, l, pinned[c], first[c])
  BY DEF PinTypes, Goto, Moves

LEMMA ExitMoves ==
    ASSUME NEW c \in Clients, Exit(c)
    PROVE  Moves(c, "off", 0, 0)
  BY DEF Exit, Forget, Goto, Moves

(* What every step of a client preserves but the choice of pins.           *)
LEMMA LocalStep ==
    ASSUME PinInv, NEW c \in Clients, NEW l \in PC,
           NEW p \in Nat, NEW f \in Nat,
           Moves(c, l, p, f), Grows,
           p <= Len(channel'), f <= Len(channel'),
           pins' \subseteq Nat, \A m \in pins' : m <= Len(channel'),
           f # 0 => p < f,
           f # 0 => l \in {"compact", "pin", "unpin", "done"},
           l \in {"pin", "unpin"} => f # 0
    PROVE  PinTypes' /\ Known' /\ CopyIsYounger'
  <1>1. PinTypes /\ Known /\ CopyIsYounger /\ Len(channel) \in Nat
    BY ChannelLength DEF PinInv
  <1>2. PinTypes'
    BY <1>1 DEF PinTypes, Moves, Grows
  <1>3. Len(channel') \in Nat /\ Len(channel') >= Len(channel)
    BY DEF Grows, IsSequence
  <1>4. Known'
    BY <1>1, <1>3 DEF Known, PinTypes, Moves
  <1>5. CopyIsYounger'
    BY <1>1 DEF CopyIsYounger, PinTypes, Moves
  <1> QED BY <1>2, <1>4, <1>5

(* A step that leaves the pins alone and does not lead to the unpinning.   *)
LEMMA QuietStep ==
    ASSUME PinInv, NEW c \in Clients, NEW l \in PC,
           NEW p \in Nat, NEW f \in Nat,
           Moves(c, l, p, f), Grows,
           p <= Len(channel'), f <= Len(channel'),
           UNCHANGED <<pins, everPinned>>,
           f # 0 => p < f,
           f # 0 => l \in {"compact", "pin", "done"},
           l # "unpin", l = "pin" => f # 0
    PROVE  PinInv'
  <1>1. PinTypes /\ Known /\ YoungestStays /\ Len(channel) \in Nat
    BY ChannelLength DEF PinInv
  <1>2. pins' \subseteq Nat /\ \A m \in pins' : m <= Len(channel')
    BY <1>1 DEF Known, PinTypes, Grows, IsSequence
  <1>3. PinTypes' /\ Known' /\ CopyIsYounger'
    BY <1>2, LocalStep
  <1>4. YoungestStays'
    BY <1>1 DEF YoungestStays, PinTypes, Moves
  <1> QED BY <1>3, <1>4 DEF PinInv

LEMMA PinInvStep == PinInv /\ [Next]_vars => PinInv'
  <1> SUFFICES ASSUME PinInv, [Next]_vars PROVE PinInv'
    OBVIOUS
  <1>0. PinTypes /\ Known /\ CopyIsYounger /\ YoungestStays
        /\ Len(channel) \in Nat /\ IsSequence(channel)
    BY ChannelLength DEF PinInv, PinTypes
  <1>a. ASSUME UNCHANGED channel PROVE Grows /\ Len(channel') \in Nat
    BY <1>0, <1>a DEF Grows
  <1>b. ASSUME NEW c \in Clients
        PROVE  /\ pinned[c] \in Nat /\ first[c] \in Nat
               /\ pinned[c] <= Len(channel) /\ first[c] <= Len(channel)
               /\ first[c] # 0 => pinned[c] < first[c]
               /\ first[c] # 0 => pc[c] \in {"compact", "pin", "unpin", "done"}
               /\ pc[c] \in {"pin", "unpin"} => first[c] # 0
    BY <1>0 DEF PinTypes, Known, CopyIsYounger
  <1>1. ASSUME NEW c \in Clients, Start(c) PROVE PinInv'
    <2>1. PICK l \in {"pins", "root"} : Goto(c, l)
      BY <1>1 DEF Start
    <2>2. /\ UNCHANGED <<pinned, first, channel, pins, everPinned>>
          /\ first[c] = 0
      BY <1>1, <1>b DEF Start, discordVars, At
    <2> QED BY <1>0, <1>a, <1>b, <2>1, <2>2, GotoMoves, QuietStep DEF PC
  <1>2. ASSUME NEW c \in Clients, Stop(c) PROVE PinInv'
    <2>1. Exit(c) /\ UNCHANGED <<channel, pins, everPinned>>
      BY <1>2 DEF Stop, discordVars
    <2> QED BY <1>0, <1>a, <2>1, ExitMoves, QuietStep DEF PC
  <1>3. ASSUME NEW c \in Clients, SendTx(c) PROVE PinInv'
    <2>1. Grows /\ Len(channel') \in Nat
      BY <1>0, <1>3, ChannelGrows DEF SendTx
    <2>2. UNCHANGED <<pins, everPinned, pc, pinned, first>>
      BY <1>3 DEF SendTx, localVars
    <2>3. /\ Moves(c, "live", pinned[c], first[c])
          /\ pc[c] = "live" /\ first[c] = 0
      BY <1>0, <1>3, <1>b, <2>2 DEF SendTx, At, Moves, PinTypes
    <2> QED BY <1>0, <1>b, <2>1, <2>2, <2>3, QuietStep DEF PC, Grows
  <1>4. ASSUME NEW c \in Clients, SendRoot(c) PROVE PinInv'
    <2>1. Grows /\ Len(channel') \in Nat
      BY <1>0, <1>4, ChannelGrows DEF SendRoot, Call
    <2>2. UNCHANGED <<pins, everPinned>> /\ first[c] = 0
      BY <1>4, <1>b DEF SendRoot, At
    <2>3. CASE Exit(c)
      BY <1>0, <2>1, <2>2, <2>3, ExitMoves, QuietStep DEF PC
    <2>4. CASE ~Exit(c)
      <3>1. /\ Goto(c, "pinroot")
            /\ pinned' = [pinned EXCEPT ![c] = Len(channel) + 1]
            /\ UNCHANGED first
            /\ channel' = Posted(<<RootLine>>, FALSE)
        BY <1>4, <2>4 DEF SendRoot, Call
      <3>2. Moves(c, "pinroot", Len(channel) + 1, 0)
        BY <1>0, <2>2, <3>1 DEF Moves, Goto, PinTypes
      <3>3. Len(channel') = Len(channel) + 1
        BY <1>0, <3>1, Posting
      <3> QED BY <1>0, <2>1, <2>2, <3>2, <3>3, QuietStep DEF PC
    <2> QED BY <2>3, <2>4
  <1>5. ASSUME NEW c \in Clients, PinRoot(c) PROVE PinInv'
    <2>1. UNCHANGED channel /\ Grows /\ first[c] = 0
      BY <1>a, <1>b, <1>5 DEF PinRoot, At
    <2>2. PICK l \in {"done", "off"}, p \in {0, pinned[c]} : Moves(c, l, p, 0)
      <3>1. CASE Exit(c)
        BY <3>1, ExitMoves
      <3>2. CASE Goto(c, "done") /\ UNCHANGED localVars
        BY <1>0, <2>1, <3>2, GotoMoves DEF localVars
      <3> QED BY <1>5, <3>1, <3>2 DEF PinRoot, Call
    <2>3. \/ pins' = pins \cup {pinned[c]} /\ everPinned' = TRUE
          \/ UNCHANGED <<pins, everPinned>>
      BY <1>5 DEF PinRoot, Call
    <2>4. pins \subseteq pins' /\ pins' \subseteq pins \cup {pinned[c]}
      BY <2>3
    <2>5. PinTypes' /\ Known' /\ CopyIsYounger'
      <3>1. pins' \subseteq Nat /\ \A m \in pins' : m <= Len(channel')
        BY <1>0, <1>b, <2>1, <2>4 DEF PinTypes, Known
      <3> QED BY <1>0, <1>b, <2>1, <2>2, <3>1, LocalStep DEF PC
    <2>6. \A d \in Clients : pc'[d] = "unpin" =>
                pc[d] = "unpin" /\ pinned'[d] = pinned[d]
      BY <1>0, <2>2 DEF Moves, PinTypes
    <2>7. CASE everPinned
      <3>1. everPinned'
        BY <2>3, <2>7
      <3> QED BY <2>4, <2>5, <2>6, <2>7, <3>1, <1>0 DEF PinInv, YoungestStays
    <2>8. CASE ~everPinned
      <3>1. \A d \in Clients : pc'[d] # "unpin"
        BY <1>0, <2>6, <2>8 DEF YoungestStays
      <3>2. everPinned' => pins' # {}
        BY <2>3, <2>8
      <3> QED BY <2>5, <3>1, <3>2 DEF PinInv, YoungestStays
    <2> QED BY <2>7, <2>8
  <1>6. ASSUME NEW c \in Clients, ReadPins(c) PROVE PinInv'
    <2>1. UNCHANGED <<channel, pins, everPinned>> /\ Grows /\ first[c] = 0
      BY <1>a, <1>b, <1>6 DEF ReadPins, At, discordVars
    <2>2. CASE Exit(c)
      BY <1>0, <2>1, <2>2, ExitMoves, QuietStep DEF PC
    <2>3. CASE ~Exit(c)
      <3>1. PICK m \in pins : pinned' = [pinned EXCEPT ![c] = m]
        BY <1>6, <2>3 DEF ReadPins
      <3>2. Moves(c, "page", m, 0) /\ m \in Nat /\ m <= Len(channel)
        BY <1>0, <1>6, <2>1, <2>3, <3>1
           DEF ReadPins, Goto, Moves, PinTypes, Known
      <3> QED BY <1>0, <2>1, <3>2, QuietStep DEF PC
    <2> QED BY <2>2, <2>3
  <1>7. ASSUME NEW c \in Clients, Page(c) PROVE PinInv'
    <2>1. UNCHANGED <<channel, pins, everPinned>> /\ Grows /\ first[c] = 0
      BY <1>a, <1>b, <1>7 DEF Page, At, discordVars
    <2>2. CASE Exit(c)
      BY <1>0, <2>1, <2>2, ExitMoves, QuietStep DEF PC
    <2>3. CASE ~Exit(c)
      <3>1. PICK l \in {"apply", "page"} :
                Goto(c, l) /\ UNCHANGED <<pinned, first>>
        BY <1>7, <2>3 DEF Page
      <3> QED BY <1>0, <1>b, <2>1, <3>1, GotoMoves, QuietStep DEF PC
    <2> QED BY <2>2, <2>3
  <1>8. ASSUME NEW c \in Clients, Apply(c) PROVE PinInv'
    <2>1. UNCHANGED <<channel, pins, everPinned>> /\ Grows /\ first[c] = 0
      BY <1>a, <1>b, <1>8 DEF Apply, At, discordVars
    <2>2. PICK l \in {"compact", "done"} : Goto(c, l)
      BY <1>8 DEF Apply
    <2>3. UNCHANGED <<pinned, first>>
      BY <1>8 DEF Apply
    <2> QED BY <1>0, <1>b, <2>1, <2>2, <2>3, GotoMoves, QuietStep DEF PC
  <1>9. ASSUME NEW c \in Clients, Flush(c) PROVE PinInv'
    <2>1. Grows /\ Len(channel') \in Nat
      BY <1>0, <1>9, ChannelGrows DEF Flush, Call
    <2>2. UNCHANGED <<pins, everPinned, pinned>> /\ pc[c] = "compact"
      BY <1>9 DEF Flush, At
    <2>3. CASE Goto(c, "done") /\ UNCHANGED first
      BY <1>0, <1>b, <2>1, <2>2, <2>3, GotoMoves, QuietStep DEF PC, Grows
    <2>4. CASE ~(Goto(c, "done") /\ UNCHANGED first)
      <3>1. /\ channel' = Posted(Chunk(buffer[c]), TRUE)
            /\ first' = [first EXCEPT ![c] =
                            IF @ = 0 THEN Len(channel) + 1 ELSE @]
        BY <1>9, <2>4 DEF Flush, Call
      <3>2. PICK l \in {"pin", "compact"} : Goto(c, l)
        BY <1>9, <2>4 DEF Flush, Call
      <3>3. Len(channel') = Len(channel) + 1
        BY <1>0, <3>1, Posting
      <3> DEFINE f == IF first[c] = 0 THEN Len(channel) + 1 ELSE first[c]
      <3>4. f # 0 /\ pinned[c] < f /\ f \in Nat /\ f <= Len(channel')
        BY <1>0, <1>b, <3>3
      <3>5. first' = [first EXCEPT ![c] = f]
        BY <3>1
      <3>6. pinned' = [pinned EXCEPT ![c] = pinned[c]]
        BY <1>0, <2>2 DEF PinTypes
      <3>7. Moves(c, l, pinned[c], f)
        BY <3>2, <3>5, <3>6 DEF Moves, Goto
      <3> HIDE DEF f
      <3> QED
        BY <1>0, <1>b, <2>1, <2>2, <3>2, <3>3, <3>4, <3>7, QuietStep DEF PC
    <2> QED BY <2>3, <2>4
  <1>10. ASSUME NEW c \in Clients, Pin(c) PROVE PinInv'
    <2>1. UNCHANGED <<channel, pinned, first>> /\ Grows /\ pc[c] = "pin"
      BY <1>a, <1>10 DEF Pin, At, localVars
    <2>2. CASE Goto(c, "unpin") /\ everPinned' = TRUE
               /\ pins' = pins \cup {first[c]}
      <3>1. Moves(c, "unpin", pinned[c], first[c])
        BY <1>0, <2>1, <2>2, GotoMoves
      <3>2. PinTypes' /\ Known' /\ CopyIsYounger'
        BY <1>0, <1>b, <2>1, <2>2, <3>1, LocalStep DEF PC, PinTypes, Known
      <3>3. \E m \in pins' : \A d \in Clients :
                pc'[d] = "unpin" => pinned'[d] < m
        <4>1. CASE \A d \in Clients : pc[d] = "unpin" => pinned[d] < first[c]
          BY <1>0, <1>b, <2>1, <2>2, <3>1, <4>1 DEF Moves, PinTypes
        <4>2. CASE \E d \in Clients :
                      pc[d] = "unpin" /\ ~(pinned[d] < first[c])
          <5>1. PICK d \in Clients : pc[d] = "unpin" /\ first[c] <= pinned[d]
            BY <1>b, <4>2
          <5>2. PICK m \in pins : \A e \in Clients :
                    pc[e] = "unpin" => pinned[e] < m
            BY <1>0, <5>1 DEF YoungestStays
          <5>3. first[c] < m /\ pinned[c] < m
            BY <1>0, <1>b, <2>1, <5>1, <5>2 DEF PinTypes
          <5> QED BY <1>0, <2>1, <2>2, <3>1, <5>2, <5>3 DEF Moves, PinTypes
        <4> QED BY <4>1, <4>2
      <3> QED BY <2>2, <3>2, <3>3 DEF PinInv, YoungestStays
    <2>3. CASE /\ Goto(c, "done")
               /\ \/ UNCHANGED <<pins, everPinned>>
                  \/ pins' = pins \cup {first[c]} /\ everPinned' = TRUE
      <3>1. Moves(c, "done", pinned[c], first[c])
        BY <1>0, <2>1, <2>3, GotoMoves
      <3>2. PinTypes' /\ Known' /\ CopyIsYounger'
        <4>1. /\ pins' \subseteq Nat
              /\ \A m \in pins' : m <= Len(channel')
          BY <1>0, <1>b, <2>1, <2>3 DEF PinTypes, Known, Grows
        <4>2. "done" \in PC /\ first[c] \in Nat /\ pinned[c] \in Nat
              /\ first[c] <= Len(channel') /\ pinned[c] <= Len(channel')
              /\ (first[c] # 0 => pinned[c] < first[c])
          BY <1>0, <1>b, <2>1 DEF PC, PinTypes, Known, CopyIsYounger, Grows
        <4> QED BY <1>0, <2>1, <3>1, <4>1, <4>2, LocalStep
      <3>3. \A d \in Clients : pc'[d] = "unpin" =>
                /\ pc[d] = "unpin"
                /\ \A m \in pins' : pinned[d] < m => pinned'[d] < m
        BY <1>0, <2>1, <3>1 DEF Moves, PinTypes
      <3>4. YoungestStays'
        <4>1. CASE everPinned
          <5>1. PICK m \in pins : \A d \in Clients :
                    pc[d] = "unpin" => pinned[d] < m
            BY <1>0, <4>1 DEF YoungestStays
          <5>2. m \in pins' /\ everPinned'
            BY <2>3, <4>1, <5>1
          <5> QED BY <3>3, <5>1, <5>2, Zenon DEF YoungestStays
        <4>2. CASE ~everPinned
          <5>1. \A d \in Clients : pc[d] # "unpin"
            BY <1>0, <4>2 DEF YoungestStays
          <5>2. everPinned' => first[c] \in pins'
            BY <2>3, <4>2
          <5> QED BY <3>3, <5>1, <5>2, Zenon DEF YoungestStays
        <4> QED BY <4>1, <4>2
      <3> QED BY <3>2, <3>4 DEF PinInv
    <2> QED BY <1>10, <2>2, <2>3 DEF Pin, Call
  <1>11. ASSUME NEW c \in Clients, Unpin(c) PROVE PinInv'
    <2>1. /\ UNCHANGED <<channel, pinned, first, everPinned>>
          /\ Grows /\ pc[c] = "unpin" /\ Goto(c, "done")
      BY <1>a, <1>11 DEF Unpin, Call, At, localVars
    <2>2. pins' = pins \/ pins' = pins \ {pinned[c]}
      BY <1>11 DEF Unpin, Call
    <2>3. Moves(c, "done", pinned[c], first[c])
      BY <1>0, <2>1, GotoMoves
    <2>4. PinTypes' /\ Known' /\ CopyIsYounger'
      BY <1>0, <1>b, <2>1, <2>2, <2>3, LocalStep DEF PC, PinTypes, Known
    <2>5. PICK m \in pins : \A d \in Clients : pc[d] = "unpin" => pinned[d] < m
      BY <1>0, <2>1 DEF YoungestStays
    <2>6. m \in pins'
      BY <1>0, <1>b, <2>1, <2>2, <2>5 DEF PinTypes
    <2>7. YoungestStays'
      BY <1>0, <2>1, <2>3, <2>5, <2>6 DEF YoungestStays, Moves, PinTypes
    <2> QED BY <2>4, <2>7 DEF PinInv
  <1>12. ASSUME NEW c \in Clients, Mount(c) PROVE PinInv'
    <2>1. UNCHANGED <<channel, pins, everPinned>> /\ Grows
      BY <1>a, <1>12 DEF Mount, discordVars
    <2>2. Moves(c, "live", 0, 0)
      BY <1>12 DEF Mount, Forget, Goto, Moves
    <2> QED BY <1>0, <2>1, <2>2, QuietStep DEF PC
  <1>13. CASE UNCHANGED vars
    BY <1>0, <1>13
       DEF vars, PinInv, PinTypes, Known, CopyIsYounger, YoungestStays
  <1> QED
    BY <1>1, <1>2, <1>3, <1>4, <1>5, <1>6, <1>7, <1>8, <1>9, <1>10, <1>11,
       <1>12, <1>13 DEF Next, setupDB

(* Once a start point has been pinned there is always one: setupDB never   *)
(* meets "pin timestamp found but no pins were found".                     *)
THEOREM TxLogStartPoint == Spec => []StartPointExists
  <1>1. PinInv => StartPointExists
    BY DEF PinInv, YoungestStays, StartPointExists
  <1> QED BY PinInvInit, PinInvStep, <1>1, PTL DEF Spec

-----------------------------------------------------------------------------
(* Induction on sets of naturals, and loops.                               *)

(* The naturals are well founded.                                          *)
LEMMA LeastElement ==
    ASSUME NEW T \in SUBSET Nat, T # {}
    PROVE  \E x \in T : \A y \in T : x <= y
<1> DEFINE R == OpToRel(<, Nat)
<1>1. IsWellFoundedOn(R, Nat)
  BY NatLessThanWellFounded, Zenon
<1>2. \A x, y \in Nat : y < x => <<y, x>> \in R
  BY Zenon DEF OpToRel
<1> HIDE DEF R
<1>3. PICK x \in T : \A y \in T : ~(<<y, x>> \in R)
  BY <1>1, WFMin
<1>4. ASSUME NEW y \in T
      PROVE  x <= y
  <2>1. x \in Nat /\ y \in Nat /\ ~(y < x)
    BY <1>2, <1>3
  <2> QED
    BY <2>1, SMT
<1> QED
  BY <1>4

(* Induction, for the set of the numbers that have the property.           *)
LEMMA InductionOnSet ==
    ASSUME NEW S, 0 \in S, \A n \in Nat : n \in S => n + 1 \in S
    PROVE  Nat \subseteq S
<1> DEFINE T == Nat \ S
<1>1. SUFFICES ASSUME T # {}
               PROVE  FALSE
  OBVIOUS
<1>2. PICK x \in T : \A y \in T : x <= y
  BY <1>1, LeastElement
<1>3. x \in Nat /\ x - 1 \in Nat /\ ~(x <= x - 1) /\ (x - 1) + 1 = x
  BY SMT
<1>4. x - 1 \in S
  BY <1>2, <1>3
<1> QED
  BY <1>3, <1>4

(* What a loop of L iterations that starts with b computes, where the k-th *)
(* iteration is the function step[k].                                      *)
Iterates(g, L, b, step) ==
    g = [k \in 0..L |-> IF k = 0 THEN b ELSE step[k][g[k - 1]]]

(* There is such a sequence of states, and each is of the loop's type.     *)
LEMMA LoopExists ==
    ASSUME NEW L \in Nat, NEW Y, NEW b \in Y,
           NEW step \in [1..L -> [Y -> Y]]
    PROVE  \E g \in [0..L -> Y] : Iterates(g, L, b, step)
<1> DEFINE F(g, n) == /\ g \in [0..n -> Y] /\ g[0] = b
                      /\ \A k \in 1..n : g[k] = step[k][g[k - 1]]
           S == {n \in Nat : n <= L => \E g : F(g, n)}
<1>1. 0 \in S
  <2>1. F([k \in 0..0 |-> b], 0)
    BY SMT
  <2> QED
    BY <2>1
<1>2. ASSUME NEW n \in Nat, n \in S
      PROVE  n + 1 \in S
  <2>1. SUFFICES ASSUME n + 1 <= L
                 PROVE  \E g : F(g, n + 1)
    OBVIOUS
  <2>2. n <= L /\ n \in 0..n /\ n + 1 \in 1..L
    BY <2>1, SMT
  <2>3. PICK g : F(g, n)
    BY <1>2, <2>2
  <2> DEFINE h == [k \in 0..(n + 1) |->
                     IF k = n + 1 THEN step[n + 1][g[n]] ELSE g[k]]
  <2>4. h \in [0..(n + 1) -> Y]
    <3>1. step[n + 1][g[n]] \in Y
      BY <2>2, <2>3
    <3>2. \A k \in 0..(n + 1) : k # n + 1 => k \in 0..n
      BY SMT
    <3> QED
      BY <2>3, <3>1, <3>2
  <2>5. h[0] = b
    BY <2>3, SMT
  <2>6. ASSUME NEW k \in 1..(n + 1)
        PROVE  h[k] = step[k][h[k - 1]]
    <3>1. CASE k = n + 1
      BY <3>1, SMT
    <3>2. CASE k # n + 1
      <4>1. /\ k \in 1..n /\ k \in 0..(n + 1)
            /\ k - 1 \in 0..(n + 1) /\ k - 1 # n + 1
        BY <3>2, SMT
      <4> QED
        BY <2>3, <3>2, <4>1
    <3> QED
      BY <3>1, <3>2
  <2> QED
    BY <2>4, <2>5, <2>6
<1> HIDE DEF S
<1>3. L \in S
  BY <1>1, <1>2, InductionOnSet
<1>4. PICK g : F(g, L)
  BY <1>3, SMT DEF S
<1>5. \A k \in 0..L : g[k] = IF k = 0 THEN b ELSE step[k][g[k - 1]]
  BY <1>4, SMT
<1>6. Iterates(g, L, b, step)
  BY <1>4, <1>5 DEF Iterates
<1> QED
  BY <1>4, <1>6

(* A loop whose k-th state lies in T[k], if the one before did.            *)
LEMMA LoopInvariant ==
    ASSUME NEW L \in Nat, NEW g, NEW T, g[0] \in T[0],
           \A k \in 1..L : g[k - 1] \in T[k - 1] => g[k] \in T[k]
    PROVE  \A k \in 0..L : g[k] \in T[k]
<1> DEFINE S == {n \in Nat : n <= L => g[n] \in T[n]}
<1>1. 0 \in S
  OBVIOUS
<1>2. ASSUME NEW n \in Nat, n \in S
      PROVE  n + 1 \in S
  <2>1. SUFFICES ASSUME n + 1 <= L
                 PROVE  g[n + 1] \in T[n + 1]
    OBVIOUS
  <2>2. n <= L /\ n + 1 \in 1..L /\ (n + 1) - 1 = n
    BY <2>1, SMT
  <2> QED
    BY <1>2, <2>2
<1> HIDE DEF S
<1>3. Nat \subseteq S
  BY <1>1, <1>2, InductionOnSet
<1>4. ASSUME NEW k \in 0..L
      PROVE  g[k] \in T[k]
  <2>1. k \in S /\ k <= L
    BY <1>3, SMT
  <2> QED
    BY <2>1 DEF S
<1> QED
  BY <1>4

-----------------------------------------------------------------------------
(* What a sequence of lines makes of a tree.                               *)

Says(lines, p) == lines[Max(On(lines, p))].entry
Overlay(tree, lines) ==
    [p \in Paths |-> IF On(lines, p) = {} THEN tree[p] ELSE Says(lines, p)]

LEMMA GreatestElement ==
    ASSUME NEW N \in Nat, NEW T, T \subseteq 0..N, T # {}
    PROVE  Max(T) \in T /\ \A y \in T : y <= Max(T)
<1> DEFINE U == {N - x : x \in T}
<1>1. U \in SUBSET Nat /\ U # {}
  <2>1. \A x \in T : N - x \in Nat
    OBVIOUS
  <2> QED
    BY <2>1
<1>2. PICK u \in U : \A y \in U : u <= y
  BY <1>1, LeastElement
<1>3. PICK x \in T : u = N - x
  OBVIOUS
<1>4. \A y \in T : x >= y
  <2>1. ASSUME NEW y \in T
        PROVE  x >= y
    <3>1. N - x <= N - y
      BY <1>2, <1>3
    <3> QED
      BY <3>1
  <2> QED
    BY <2>1
<1>5. \A y \in T : Max(T) \in T /\ Max(T) >= y
  BY <1>4, Zenon DEF Max
<1> QED
  BY <1>5

LEMMA GreatestIs ==
    ASSUME NEW T, T \subseteq Int, NEW x \in T, \A y \in T : y <= x
    PROVE  Max(T) = x
<1>1. \A y \in T : x >= y
  OBVIOUS
<1>2. Max(T) \in T /\ \A y \in T : Max(T) >= y
  BY <1>1, Zenon DEF Max
<1>3. Max(T) \in Int /\ x \in Int /\ Max(T) >= x /\ Max(T) <= x
  BY <1>2
<1> QED
  BY <1>3

(* The lines on a path, and the last of them.                              *)
LEMMA LinesOn ==
    ASSUME NEW lines \in Seq(Tx), NEW p
    PROVE  /\ On(lines, p) \subseteq 1..Len(lines)
           /\ On(lines, p) # {} =>
                /\ Max(On(lines, p)) \in On(lines, p)
                /\ \A i \in On(lines, p) : i <= Max(On(lines, p))
                /\ Says(lines, p) \in Entries \cup {None}
<1>1. On(lines, p) \subseteq 1..Len(lines) /\ Len(lines) \in Nat
  BY DEF On
<1>2. On(lines, p) \subseteq 0..Len(lines)
  BY <1>1
<1>3. ASSUME On(lines, p) # {}
      PROVE  /\ Max(On(lines, p)) \in On(lines, p)
             /\ \A i \in On(lines, p) : i <= Max(On(lines, p))
  BY <1>1, <1>2, <1>3, GreatestElement
<1>4. ASSUME On(lines, p) # {}
      PROVE  Says(lines, p) \in Entries \cup {None}
  <2>1. Max(On(lines, p)) \in 1..Len(lines)
    BY <1>1, <1>3, <1>4
  <2>2. lines[Max(On(lines, p))] \in Tx
    BY <2>1
  <2> QED
    BY <2>2 DEF Says, Tx
<1> QED
  BY <1>1, <1>3, <1>4

Trees == [Paths -> Entries \cup {None}]

LEMMA OverlayTyped ==
    ASSUME NEW tree \in Trees, NEW lines \in Seq(Tx)
    PROVE  Overlay(tree, lines) \in Trees
BY LinesOn DEF Overlay, Trees

LEMMA OverlayNothing ==
    ASSUME NEW tree \in Trees
    PROVE  Overlay(tree, <<>>) = tree
<1>1. \A p : On(<<>>, p) = {}
  BY DEF On
<1> QED
  BY <1>1 DEF Overlay, Trees

(* Lines that say of a tree what it is change nothing.                     *)
LEMMA OverlayAgain ==
    ASSUME NEW tree \in Trees, NEW lines, Overlay(NewDB, lines) = tree
    PROVE  Overlay(tree, lines) = tree
<1>1. \A p \in Paths : tree[p] = IF On(lines, p) = {} THEN NewDB[p]
                                 ELSE Says(lines, p)
  BY DEF Overlay
<1>2. \A p \in Paths : (IF On(lines, p) = {} THEN tree[p]
                        ELSE Says(lines, p)) = tree[p]
  BY <1>1
<1> QED
  BY <1>2 DEF Overlay, Trees

(* First the lines of a, then those of b.                                  *)
LEMMA OverlayConcat ==
    ASSUME NEW tree \in Trees, NEW a \in Seq(Tx), NEW b \in Seq(Tx)
    PROVE  Overlay(tree, a \o b) = Overlay(Overlay(tree, a), b)
<1> DEFINE ab == a \o b
<1>1. /\ ab \in Seq(Tx) /\ Len(ab) = Len(a) + Len(b)
      /\ Len(a) \in Nat /\ Len(b) \in Nat
      /\ \A i \in 1..(Len(a) + Len(b)) :
            ab[i] = IF i <= Len(a) THEN a[i] ELSE b[i - Len(a)]
      /\ DOMAIN ab = 1..Len(ab) /\ DOMAIN a = 1..Len(a)
      /\ DOMAIN b = 1..Len(b)
  BY ConcatProperties
<1> HIDE DEF ab
<1>2. ASSUME NEW p \in Paths
      PROVE  /\ On(b, p) = {} => On(ab, p) = On(a, p)
             /\ On(b, p) # {} => /\ On(ab, p) # {}
                                 /\ Says(ab, p) = Says(b, p)
             /\ On(a, p) # {} /\ On(b, p) = {} => Says(ab, p) = Says(a, p)
  <2>1. \A i \in 1..Len(a) : i \in On(ab, p) <=> i \in On(a, p)
    BY <1>1 DEF On
  <2>2. \A i \in 1..Len(b) : i + Len(a) \in On(ab, p) <=> i \in On(b, p)
    <3>1. ASSUME NEW i \in 1..Len(b)
          PROVE  i + Len(a) \in 1..Len(ab) /\ ab[i + Len(a)] = b[i]
      <4>1. /\ i + Len(a) \in 1..(Len(a) + Len(b))
            /\ ~(i + Len(a) <= Len(a)) /\ (i + Len(a)) - Len(a) = i
        BY <1>1
      <4> QED
        BY <1>1, <4>1
    <3> QED
      BY <1>1, <3>1 DEF On
  <2>3. /\ On(ab, p) \subseteq 1..(Len(a) + Len(b))
        /\ On(a, p) \subseteq 1..Len(a) /\ On(b, p) \subseteq 1..Len(b)
    BY <1>1 DEF On
  <2>4. ASSUME NEW i \in On(ab, p), ~(i <= Len(a))
        PROVE  i - Len(a) \in On(b, p)
    <3>1. i - Len(a) \in 1..Len(b) /\ (i - Len(a)) + Len(a) = i
      BY <1>1, <2>3, <2>4
    <3> QED
      BY <2>2, <3>1
  <2>5. ASSUME On(b, p) = {}
        PROVE  On(ab, p) = On(a, p)
    <3>1. \A i \in On(ab, p) : i \in 1..Len(a)
      BY <1>1, <2>3, <2>4, <2>5
    <3>2. \A i \in On(a, p) : i \in 1..Len(a)
      BY <2>3
    <3> QED
      BY <2>1, <3>1, <3>2
  <2>6. ASSUME On(b, p) # {}
        PROVE  On(ab, p) # {} /\ Says(ab, p) = Says(b, p)
    <3> DEFINE j == Max(On(b, p))
    <3>1. j \in On(b, p) /\ \A i \in On(b, p) : i <= j
      BY <2>6, LinesOn
    <3> HIDE DEF j
    <3>2. j \in 1..Len(b) /\ j + Len(a) \in On(ab, p)
      BY <2>2, <2>3, <3>1
    <3>3. \A i \in On(ab, p) : i <= j + Len(a)
      <4>1. ASSUME NEW i \in On(ab, p)
            PROVE  i <= j + Len(a)
        <5>1. CASE i <= Len(a)
          BY <1>1, <2>3, <3>2, <5>1
        <5>2. CASE ~(i <= Len(a))
          <6>1. i - Len(a) <= j
            BY <2>4, <3>1, <5>2
          <6> QED
            BY <1>1, <2>3, <3>2, <6>1
        <5> QED
          BY <5>1, <5>2
      <4> QED
        BY <4>1
    <3>4. Max(On(ab, p)) = j + Len(a)
      <4>1. On(ab, p) \subseteq Int
        BY <2>3
      <4> QED
        BY <3>2, <3>3, <4>1, GreatestIs
    <3>5. ab[j + Len(a)] = b[j]
      <4>1. /\ j + Len(a) \in 1..(Len(a) + Len(b))
            /\ ~(j + Len(a) <= Len(a)) /\ (j + Len(a)) - Len(a) = j
        BY <1>1, <3>2
      <4> QED
        BY <1>1, <4>1
    <3> QED
      BY <3>2, <3>4, <3>5 DEF Says, j
  <2>7. ASSUME On(a, p) # {}, On(b, p) = {}
        PROVE  Says(ab, p) = Says(a, p)
    <3> DEFINE j == Max(On(a, p))
    <3>1. j \in On(a, p)
      BY <2>7, LinesOn
    <3> HIDE DEF j
    <3>2. ab[j] = a[j]
      <4>1. j \in 1..(Len(a) + Len(b)) /\ j <= Len(a)
        BY <1>1, <2>3, <3>1
      <4> QED
        BY <1>1, <4>1
    <3> QED
      BY <2>5, <2>7, <3>2 DEF Says, j
  <2> QED
    BY <2>5, <2>6, <2>7
<1>3. \A p \in Paths : Overlay(tree, ab)[p] = Overlay(Overlay(tree, a), b)[p]
  <2>1. ASSUME NEW p \in Paths
        PROVE  (IF On(ab, p) = {} THEN tree[p] ELSE Says(ab, p)) =
               IF On(b, p) = {} THEN IF On(a, p) = {} THEN tree[p]
                                     ELSE Says(a, p)
               ELSE Says(b, p)
    BY <1>2
  <2> QED
    BY <2>1, Zenon DEF Overlay
<1> QED
  BY <1>3, Zenon DEF ab, Overlay

-----------------------------------------------------------------------------
(* What messages make of a tree: the last of them decides.                 *)

(* The lines of some of the first N messages, by ID.                       *)
Lines(N) == UNION {[D -> Seq(Tx)] : D \in SUBSET (1..N)}

LEMMA LinesDef ==
    ASSUME NEW N \in Nat, NEW D, D \subseteq 1..N,
           NEW msgs \in [D -> Seq(Tx)]
    PROVE  msgs \in Lines(N)
BY DEF Lines

LEMMA LinesAre ==
    ASSUME NEW N \in Nat, NEW msgs \in Lines(N)
    PROVE  /\ DOMAIN msgs \subseteq 1..N
           /\ \A k \in DOMAIN msgs : msgs[k] \in Seq(Tx)
           /\ msgs = [k \in DOMAIN msgs |-> msgs[k]]
<1>1. PICK D \in SUBSET (1..N) : msgs \in [D -> Seq(Tx)]
  BY DEF Lines
<1> QED
  BY <1>1

Touching(msgs, p) == {k \in DOMAIN msgs : On(msgs[k], p) # {}}

LEMMA AppliedAt ==
    ASSUME NEW msgs, NEW p \in Paths
    PROVE  Applied(msgs)[p] =
             IF Touching(msgs, p) = {} THEN None
             ELSE Says(msgs[Max(Touching(msgs, p))], p)
BY DEF Applied, Touching, Says

LEMMA AppliedTyped ==
    ASSUME NEW N \in Nat, NEW msgs \in Lines(N)
    PROVE  Applied(msgs) \in Trees
<1>1. ASSUME NEW p \in Paths
      PROVE  Applied(msgs)[p] \in Entries \cup {None}
  <2>1. CASE Touching(msgs, p) = {}
    BY <2>1, AppliedAt
  <2>2. CASE Touching(msgs, p) # {}
    <3>1. Touching(msgs, p) \subseteq 0..N
      BY LinesAre DEF Touching
    <3>2. Max(Touching(msgs, p)) \in Touching(msgs, p)
      BY <2>2, <3>1, GreatestElement
    <3>3. /\ msgs[Max(Touching(msgs, p))] \in Seq(Tx)
          /\ On(msgs[Max(Touching(msgs, p))], p) # {}
      BY <3>2, LinesAre DEF Touching
    <3> QED
      BY <2>2, <3>3, AppliedAt, LinesOn
  <2> QED
    BY <2>1, <2>2
<1>2. Applied(msgs) = [p \in Paths |-> Applied(msgs)[p]]
  BY DEF Applied
<1> QED
  BY <1>1, <1>2 DEF Trees

LEMMA AppliedNothing ==
    ASSUME NEW msgs, DOMAIN msgs = {}
    PROVE  Applied(msgs) = NewDB
BY DEF Applied, NewDB

(* The youngest message is applied after the others.                       *)
LEMMA AppliedLast ==
    ASSUME NEW N \in Nat, NEW msgs \in Lines(N), NEW n \in DOMAIN msgs,
           \A k \in DOMAIN msgs : k <= n
    PROVE  LET rest == [k \in DOMAIN msgs \ {n} |-> msgs[k]] IN
           Applied(msgs) = Overlay(Applied(rest), msgs[n])
<1> DEFINE rest == [k \in DOMAIN msgs \ {n} |-> msgs[k]]
<1>1. /\ DOMAIN rest = DOMAIN msgs \ {n}
      /\ \A k \in DOMAIN rest : rest[k] = msgs[k]
  OBVIOUS
<1>2. DOMAIN msgs \subseteq 1..N
  BY LinesAre
<1> HIDE DEF rest
<1>3. ASSUME NEW p \in Paths
      PROVE  Applied(msgs)[p] = IF On(msgs[n], p) = {} THEN Applied(rest)[p]
                                ELSE Says(msgs[n], p)
  <2>1. CASE On(msgs[n], p) # {}
    <3>1. /\ n \in Touching(msgs, p)
          /\ Touching(msgs, p) \subseteq Int
          /\ \A k \in Touching(msgs, p) : k <= n
      BY <1>2, <2>1 DEF Touching
    <3>2. Max(Touching(msgs, p)) = n
      BY <3>1, GreatestIs
    <3> QED
      BY <2>1, <3>1, <3>2, AppliedAt
  <2>2. CASE On(msgs[n], p) = {}
    <3>1. Touching(msgs, p) = Touching(rest, p)
      BY <1>1, <2>2 DEF Touching
    <3>2. CASE Touching(msgs, p) = {}
      BY <2>2, <3>1, <3>2, AppliedAt
    <3>3. CASE Touching(msgs, p) # {}
      <4>1. Touching(msgs, p) \subseteq 0..N
        BY <1>2 DEF Touching
      <4>2. Max(Touching(msgs, p)) \in Touching(rest, p)
        BY <3>1, <3>3, <4>1, GreatestElement
      <4>3. rest[Max(Touching(msgs, p))] = msgs[Max(Touching(msgs, p))]
        BY <1>1, <4>2 DEF Touching
      <4> QED
        BY <2>2, <3>1, <3>3, <4>3, AppliedAt
    <3> QED
      BY <3>2, <3>3
  <2> QED
    BY <2>1, <2>2
<1>4. Applied(msgs) = [p \in Paths |-> Applied(msgs)[p]]
  BY DEF Applied
<1>5. Applied(msgs) = Overlay(Applied(rest), msgs[n])
  BY <1>3, <1>4, Zenon DEF Overlay
<1> QED
  BY <1>5 DEF rest

-----------------------------------------------------------------------------
(* What is scanned, and what is copied.                                    *)

NoLong(lines) == \A i \in DOMAIN lines : lines[i].entry \notin Long

LEMMA ScannedTyped ==
    ASSUME NEW lines \in Seq(Tx)
    PROVE  /\ Scanned(lines) \in Seq(Tx)
           /\ NoLong(lines) => Scanned(lines) = lines
           /\ ~TooLong(lines) => NoLong(lines)
<1> DEFINE long == {k \in DOMAIN lines : lines[k].entry \in Long}
           i == Min(long)
<1>1. long \subseteq 1..Len(lines) /\ Len(lines) \in Nat
  OBVIOUS
<1>2. Scanned(lines) = IF long = {} THEN lines
                       ELSE SubSeq(lines, 1, i - 1)
  BY DEF Scanned
<1>3. NoLong(lines) <=> long = {}
  BY DEF NoLong
<1>4. ASSUME long # {}
      PROVE  i \in 1..Len(lines)
  <2>1. PICK x \in long : \A y \in long : x <= y
    <3>1. long \in SUBSET Nat
      BY <1>1
    <3> QED
      BY <1>4, <3>1, LeastElement
  <2>2. i \in long
    BY <2>1, Zenon DEF Min
  <2> QED
    BY <1>1, <2>2
<1> HIDE DEF long, i
<1>5. ASSUME long # {}
      PROVE  /\ SubSeq(lines, 1, i - 1) \in Seq(Tx)
             /\ Len(SubSeq(lines, 1, i - 1)) < Len(lines)
  <2>1. \A k \in 1..(i - 1) : lines[k] \in Tx
    BY <1>1, <1>4, <1>5
  <2>2. i - 1 \in Int /\ 1 \in Int
    BY <1>4, <1>5
  <2>3. /\ SubSeq(lines, 1, i - 1) \in Seq(Tx)
        /\ Len(SubSeq(lines, 1, i - 1)) =
             IF 1 <= i - 1 THEN i - 1 - 1 + 1 ELSE 0
    BY <2>1, <2>2, SubSeqProperties
  <2> QED
    BY <1>1, <1>4, <1>5, <2>3
<1>6. Scanned(lines) \in Seq(Tx)
  BY <1>2, <1>5
<1>7. ~TooLong(lines) => NoLong(lines)
  <2>1. ASSUME long # {}
        PROVE  Scanned(lines) # lines
    <3>1. Scanned(lines) = SubSeq(lines, 1, i - 1)
      BY <1>2, <2>1
    <3>2. Len(Scanned(lines)) < Len(lines)
      BY <1>5, <2>1, <3>1
    <3>3. ~(Len(lines) < Len(lines))
      BY <1>1
    <3> QED
      BY <3>2, <3>3
  <2> QED
    BY <1>3, <2>1 DEF TooLong
<1> QED
  BY <1>2, <1>3, <1>6, <1>7

LEMMA NoLongConcat ==
    ASSUME NEW a \in Seq(Tx), NEW b \in Seq(Tx), NoLong(a), NoLong(b)
    PROVE  NoLong(a \o b)
<1> DEFINE ab == a \o b
<1>1. /\ ab \in Seq(Tx) /\ Len(ab) = Len(a) + Len(b)
      /\ Len(a) \in Nat /\ Len(b) \in Nat
      /\ \A i \in 1..(Len(a) + Len(b)) :
            ab[i] = IF i <= Len(a) THEN a[i] ELSE b[i - Len(a)]
      /\ DOMAIN ab = 1..Len(ab) /\ DOMAIN a = 1..Len(a)
      /\ DOMAIN b = 1..Len(b)
  BY ConcatProperties
<1> HIDE DEF ab
<1>2. ASSUME NEW i \in DOMAIN ab
      PROVE  ab[i].entry \notin Long
  <2>1. CASE i <= Len(a)
    <3>1. i \in DOMAIN a /\ ab[i] = a[i]
      BY <1>1, <2>1
    <3> QED
      BY <3>1 DEF NoLong
  <2>2. CASE ~(i <= Len(a))
    <3>1. i - Len(a) \in DOMAIN b /\ ab[i] = b[i - Len(a)]
      BY <1>1, <2>2
    <3> QED
      BY <3>1 DEF NoLong
  <2> QED
    BY <2>1, <2>2
<1>3. NoLong(ab)
  BY <1>2 DEF NoLong
<1> QED
  BY <1>3 DEF ab

(* The k-th turn of the loop of applyMessageTxs.                           *)
Part(msgs, k) == IF k \in DOMAIN msgs THEN msgs[k] ELSE <<>>

(* The buffer is filled message by message.                                *)
LEMMA ConcatenatedLoop ==
    ASSUME NEW N \in Nat, NEW msgs \in Lines(N)
    PROVE  \E text \in [0..N -> Seq(Tx)] :
              /\ text[0] = <<>>
              /\ \A k \in 1..N : text[k] = text[k - 1] \o Part(msgs, k)
              /\ Concatenated(msgs, N) = text[N]
<1> DEFINE Y == Seq(Tx)
           step == [k \in 1..N |-> [s \in Y |-> s \o Part(msgs, k)]]
           P(g) == g = [k \in 0..N |->
                          IF k = 0 THEN <<>>
                          ELSE g[k - 1] \o (IF k \in DOMAIN msgs THEN msgs[k]
                                            ELSE <<>>)]
<1>1. ASSUME NEW k \in 1..N
      PROVE  Part(msgs, k) \in Y
  <2>1. <<>> \in Y
    OBVIOUS
  <2> QED
    BY <2>1, LinesAre DEF Part
<1>2. step \in [1..N -> [Y -> Y]]
  <2>1. ASSUME NEW k \in 1..N, NEW s \in Y
        PROVE  s \o Part(msgs, k) \in Y
    BY <1>1, ConcatProperties
  <2> QED
    BY <2>1
<1>3. <<>> \in Y
  OBVIOUS
<1>4. PICK g \in [0..N -> Y] : Iterates(g, N, <<>>, step)
  BY <1>2, <1>3, LoopExists
<1>5. ASSUME NEW k \in 1..N
      PROVE  step[k][g[k - 1]] = g[k - 1] \o Part(msgs, k)
  <2>1. g[k - 1] \in Y
    BY <1>4
  <2> QED
    BY <2>1
<1>6. \A k \in 0..N : g[k] = IF k = 0 THEN <<>>
                             ELSE step[k][g[k - 1]]
  BY <1>4 DEF Iterates
<1> HIDE DEF step, Y
<1>7. \A k \in 0..N : g[k] = IF k = 0 THEN <<>>
                             ELSE g[k - 1] \o Part(msgs, k)
  <2>1. \A k \in 0..N : k # 0 => k \in 1..N
    OBVIOUS
  <2> QED
    BY <1>5, <1>6, <2>1
<1>8. P(g)
  <2>1. g = [k \in 0..N |-> g[k]]
    BY <1>4
  <2> QED
    BY <1>7, <2>1, Zenon DEF Part
<1>9. P(CHOOSE h : P(h))
  BY <1>8, Zenon
<1> DEFINE t == CHOOSE h : P(h)
<1>10. Concatenated(msgs, N) = t[N]
  BY Zenon DEF Concatenated
<1> HIDE DEF t
<1>11. \A k \in 0..N : t[k] = IF k = 0 THEN <<>> ELSE t[k - 1] \o Part(msgs, k)
  BY <1>9, Zenon DEF t, Part
<1>12. DOMAIN t = 0..N /\ t = [k \in 0..N |-> t[k]]
  BY <1>9, Zenon DEF t
<1>13. t[0] = <<>> /\ \A k \in 1..N : t[k] = t[k - 1] \o Part(msgs, k)
  <2>1. ASSUME NEW k \in 1..N
        PROVE  t[k] = t[k - 1] \o Part(msgs, k)
    <3>1. k \in 0..N /\ k # 0
      OBVIOUS
    <3> QED
      BY <1>11, <3>1
  <2>2. 0 \in 0..N
    OBVIOUS
  <2> QED
    BY <1>11, <2>1, <2>2
<1>14. \A k \in 0..N : t[k] \in Seq(Tx)
  <2> DEFINE T == [k \in 0..N |-> Seq(Tx)]
  <2>1. t[0] \in T[0]
    BY <1>3, <1>13 DEF Y
  <2>2. ASSUME NEW k \in 1..N, t[k - 1] \in T[k - 1]
        PROVE  t[k] \in T[k]
    <3>1. k \in 0..N /\ k - 1 \in 0..N
      OBVIOUS
    <3>2. t[k - 1] \in Seq(Tx) /\ Part(msgs, k) \in Seq(Tx)
      BY <1>1, <2>2, <3>1 DEF Y
    <3>3. t[k] \in Seq(Tx)
      BY <1>13, <3>2, ConcatProperties
    <3> QED
      BY <3>1, <3>3
  <2> HIDE DEF T
  <2>3. \A k \in 0..N : t[k] \in T[k]
    BY <2>1, <2>2, LoopInvariant
  <2> QED
    BY <2>3 DEF T
<1>15. t \in [0..N -> Seq(Tx)]
  BY <1>12, <1>14
<1> QED
  BY <1>10, <1>13, <1>15

Upto(msgs, k) == [i \in {i \in DOMAIN msgs : i <= k} |-> msgs[i]]

LEMMA UptoIs ==
    ASSUME NEW N \in Nat, NEW msgs \in Lines(N)
    PROVE  /\ \A k \in 0..N : Upto(msgs, k) \in Lines(N)
           /\ DOMAIN Upto(msgs, 0) = {}
           /\ Upto(msgs, N) = msgs
           /\ \A k \in 1..N : k \notin DOMAIN msgs =>
                 Upto(msgs, k) = Upto(msgs, k - 1)
           /\ \A k \in 1..N : k \in DOMAIN msgs =>
                 Applied(Upto(msgs, k)) =
                   Overlay(Applied(Upto(msgs, k - 1)), msgs[k])
<1>1. /\ DOMAIN msgs \subseteq 1..N
      /\ \A k \in DOMAIN msgs : msgs[k] \in Seq(Tx)
      /\ msgs = [k \in DOMAIN msgs |-> msgs[k]]
  BY LinesAre
<1>2. ASSUME NEW k \in 0..N
      PROVE  Upto(msgs, k) \in Lines(N)
  <2> DEFINE D == {i \in DOMAIN msgs : i <= k}
  <2>1. D \subseteq 1..N
    BY <1>1
  <2>2. [i \in D |-> msgs[i]] \in [D -> Seq(Tx)]
    BY <1>1
  <2>3. [i \in D |-> msgs[i]] \in Lines(N)
    BY <2>1, <2>2, LinesDef
  <2> QED
    BY <2>3 DEF Upto
<1>3. DOMAIN Upto(msgs, 0) = {}
  <2>1. {i \in DOMAIN msgs : i <= 0} = {}
    BY <1>1
  <2> QED
    BY <2>1 DEF Upto
<1>4. Upto(msgs, N) = msgs
  <2>1. {i \in DOMAIN msgs : i <= N} = DOMAIN msgs
    <3>1. \A i \in DOMAIN msgs : i <= N
      BY <1>1
    <3> QED
      BY <3>1
  <2> QED
    BY <1>1, <2>1 DEF Upto
<1>5. ASSUME NEW k \in 1..N
      PROVE  {i \in DOMAIN msgs : i <= k - 1} =
               {i \in DOMAIN msgs : i <= k} \ {k}
  <2>1. \A i \in DOMAIN msgs : i <= k - 1 <=> i <= k /\ i # k
    BY <1>1
  <2> QED
    BY <2>1
<1>6. ASSUME NEW k \in 1..N, k \notin DOMAIN msgs
      PROVE  Upto(msgs, k) = Upto(msgs, k - 1)
  <2>1. {i \in DOMAIN msgs : i <= k - 1} = {i \in DOMAIN msgs : i <= k}
    BY <1>5, <1>6
  <2> QED
    BY <2>1 DEF Upto
<1>7. ASSUME NEW k \in 1..N, k \in DOMAIN msgs
      PROVE  Applied(Upto(msgs, k)) =
               Overlay(Applied(Upto(msgs, k - 1)), msgs[k])
  <2> DEFINE u == Upto(msgs, k)
  <2>1. u \in Lines(N) /\ DOMAIN u = {i \in DOMAIN msgs : i <= k}
    BY <1>2 DEF Upto
  <2>2. /\ k \in DOMAIN u /\ u[k] = msgs[k]
        /\ \A i \in DOMAIN u : i <= k /\ u[i] = msgs[i]
    BY <1>7 DEF Upto
  <2>3. [i \in DOMAIN u \ {k} |-> u[i]] = Upto(msgs, k - 1)
    <3>1. DOMAIN u \ {k} = {i \in DOMAIN msgs : i <= k - 1}
      BY <1>5, <2>1
    <3> HIDE DEF u
    <3> QED
      BY <2>2, <3>1 DEF Upto
  <2> HIDE DEF u
  <2>4. Applied(u) = Overlay(Applied([i \in DOMAIN u \ {k} |-> u[i]]), u[k])
    BY <2>1, <2>2, AppliedLast
  <2> QED
    BY <2>2, <2>3, <2>4 DEF u
<1> QED
  BY <1>2, <1>3, <1>4, <1>6, <1>7

(* A copy of the lines is worth the messages.                              *)
LEMMA ConcatenatedApplied ==
    ASSUME NEW N \in Nat, NEW msgs \in Lines(N)
    PROVE  /\ Concatenated(msgs, N) \in Seq(Tx)
           /\ Overlay(NewDB, Concatenated(msgs, N)) = Applied(msgs)
           /\ (\A k \in DOMAIN msgs : NoLong(msgs[k])) =>
                 NoLong(Concatenated(msgs, N))
<1>1. PICK text \in [0..N -> Seq(Tx)] :
         /\ text[0] = <<>>
         /\ \A k \in 1..N : text[k] = text[k - 1] \o Part(msgs, k)
         /\ Concatenated(msgs, N) = text[N]
  BY ConcatenatedLoop
<1>2. NewDB \in Trees /\ <<>> \in Seq(Tx) /\ N \in 0..N /\ 0 \in 0..N
  BY DEF NewDB, Trees
<1>3. ASSUME NEW k \in 1..N
      PROVE  /\ k - 1 \in 0..N /\ text[k - 1] \in Seq(Tx)
             /\ Part(msgs, k) \in Seq(Tx)
             /\ text[k] = text[k - 1] \o Part(msgs, k)
             /\ k \notin DOMAIN msgs => text[k] = text[k - 1]
  <2>1. k - 1 \in 0..N
    OBVIOUS
  <2>2. text[k - 1] \in Seq(Tx)
    BY <2>1
  <2>3. Part(msgs, k) \in Seq(Tx)
    BY <1>2, LinesAre DEF Part
  <2>4. ASSUME k \notin DOMAIN msgs
        PROVE  text[k] = text[k - 1]
    <3>1. Part(msgs, k) = <<>>
      BY <2>4 DEF Part
    <3> QED
      BY <1>1, <2>2, <3>1, ConcatEmptySeq
  <2> QED
    BY <1>1, <2>1, <2>2, <2>3, <2>4
<1>a. \A k \in 1..N : k \in DOMAIN msgs =>
        Applied(Upto(msgs, k)) = Overlay(Applied(Upto(msgs, k - 1)), msgs[k])
  BY UptoIs
<1>4. Overlay(NewDB, text[N]) = Applied(msgs)
  <2> DEFINE T == [k \in 0..N |-> {s \in Seq(Tx) :
                      Overlay(NewDB, s) = Applied(Upto(msgs, k))}]
  <2>1. text[0] \in T[0]
    <3>1. Overlay(NewDB, <<>>) = NewDB
      BY <1>2, OverlayNothing
    <3>2. Applied(Upto(msgs, 0)) = NewDB
      BY UptoIs, AppliedNothing
    <3> QED
      BY <1>1, <1>2, <3>1, <3>2
  <2>2. ASSUME NEW k \in 1..N, text[k - 1] \in T[k - 1]
        PROVE  text[k] \in T[k]
    <3>1. k \in 0..N /\ k - 1 \in 0..N
      OBVIOUS
    <3>2. Overlay(NewDB, text[k - 1]) = Applied(Upto(msgs, k - 1))
      BY <2>2, <3>1
    <3>3. Overlay(NewDB, text[k]) = Applied(Upto(msgs, k))
      <4>1. CASE k \in DOMAIN msgs
        <5>1. Part(msgs, k) = msgs[k]
          BY <4>1 DEF Part
        <5>2. Overlay(NewDB, text[k - 1] \o msgs[k]) =
                Overlay(Overlay(NewDB, text[k - 1]), msgs[k])
          BY <1>2, <1>3, <5>1, OverlayConcat
        <5>3. Applied(Upto(msgs, k)) =
                Overlay(Applied(Upto(msgs, k - 1)), msgs[k])
          BY <1>a, <4>1
        <5>4. text[k] = text[k - 1] \o msgs[k]
          BY <1>3, <5>1, Zenon
        <5> QED
          BY <3>2, <5>2, <5>3, <5>4, Zenon
      <4>2. CASE k \notin DOMAIN msgs
        <5>1. text[k] = text[k - 1]
          BY <1>3, <4>2
        <5>2. Upto(msgs, k) = Upto(msgs, k - 1)
          BY <4>2, UptoIs
        <5> QED
          BY <3>2, <5>1, <5>2
      <4> QED
        BY <4>1, <4>2
    <3>4. text[k] \in Seq(Tx)
      BY <3>1
    <3> QED
      BY <3>1, <3>3, <3>4
  <2> HIDE DEF T
  <2>3. \A k \in 0..N : text[k] \in T[k]
    BY <2>1, <2>2, LoopInvariant
  <2>4. text[N] \in T[N]
    BY <1>2, <2>3
  <2>5. Overlay(NewDB, text[N]) = Applied(Upto(msgs, N))
    BY <1>2, <2>4 DEF T
  <2> QED
    BY <2>5, UptoIs
<1>5. ASSUME \A k \in DOMAIN msgs : NoLong(msgs[k])
      PROVE  NoLong(text[N])
  <2> DEFINE T == [k \in 0..N |-> {s \in Seq(Tx) : NoLong(s)}]
  <2>1. NoLong(<<>>)
    BY DEF NoLong
  <2>2. text[0] \in T[0]
    BY <1>1, <1>2, <2>1
  <2>3. ASSUME NEW k \in 1..N, text[k - 1] \in T[k - 1]
        PROVE  text[k] \in T[k]
    <3>1. k \in 0..N /\ k - 1 \in 0..N
      OBVIOUS
    <3>2. NoLong(text[k - 1]) /\ text[k] \in Seq(Tx)
      BY <2>3, <3>1
    <3>3. NoLong(Part(msgs, k))
      BY <1>5, <2>1 DEF Part
    <3>4. NoLong(text[k])
      BY <1>3, <3>2, <3>3, NoLongConcat
    <3> QED
      BY <3>1, <3>2, <3>4
  <2> HIDE DEF T
  <2>4. \A k \in 0..N : text[k] \in T[k]
    BY <2>2, <2>3, LoopInvariant
  <2>5. text[N] \in T[N]
    BY <1>2, <2>4
  <2> QED
    BY <1>2, <2>5 DEF T
<1>6. text[N] \in Seq(Tx)
  BY <1>2
<1> QED
  BY <1>1, <1>4, <1>5, <1>6

-----------------------------------------------------------------------------
(* The log: the operations' tree, and what a start makes of the messages.  *)

Operations(ch, n) == [k \in {i \in 1..n : ~ch[i].copy} |-> ch[k].lines]
TreeOf(ch, n) == Applied(Operations(ch, n))

Readings(ch, m, n) == [k \in m..n |-> Scanned(ch[k].lines)]
ReplayOf(ch, m, n) == Applied(Readings(ch, m, n))

LEMMA MessageAt ==
    ASSUME NEW ch \in Seq(Message), NEW k \in 1..Len(ch)
    PROVE  /\ ch[k] \in Message /\ ch[k].lines \in Seq(Tx)
           /\ ch[k].copy \in BOOLEAN /\ Scanned(ch[k].lines) \in Seq(Tx)
<1>1. ch[k] \in Message
  OBVIOUS
<1>2. ch[k].lines \in Seq(Tx) /\ ch[k].copy \in BOOLEAN
  BY <1>1 DEF Message
<1> QED
  BY <1>1, <1>2, ScannedTyped

LEMMA LogTyped ==
    ASSUME NEW ch \in Seq(Message), NEW n \in 0..Len(ch)
    PROVE  /\ n \in Nat /\ Len(ch) \in Nat
           /\ Operations(ch, n) \in Lines(n) /\ TreeOf(ch, n) \in Trees
           /\ \A m \in Nat \ {0} : /\ Readings(ch, m, n) \in Lines(n)
                                   /\ ReplayOf(ch, m, n) \in Trees
<1>1. n \in Nat /\ Len(ch) \in Nat
  OBVIOUS
<1>2. Operations(ch, n) \in Lines(n)
  <2> DEFINE D == {i \in 1..n : ~ch[i].copy}
             f == [k \in D |-> ch[k].lines]
  <2>1. D \subseteq 1..n /\ \A k \in D : ch[k].lines \in Seq(Tx)
    BY <1>1, MessageAt
  <2> HIDE DEF D
  <2>2. f \in [D -> Seq(Tx)]
    BY <2>1
  <2>3. f \in Lines(n)
    BY <1>1, <2>1, <2>2, LinesDef
  <2> QED
    BY <2>3 DEF Operations, D
<1>3. ASSUME NEW m \in Nat \ {0}
      PROVE  Readings(ch, m, n) \in Lines(n)
  <2> DEFINE f == [k \in m..n |-> Scanned(ch[k].lines)]
  <2>1. m..n \subseteq 1..n
    BY <1>1
  <2>2. \A k \in m..n : Scanned(ch[k].lines) \in Seq(Tx)
    BY <1>1, MessageAt
  <2>3. f \in [m..n -> Seq(Tx)]
    BY <2>2
  <2>4. f \in Lines(n)
    BY <1>1, <2>1, <2>3, LinesDef
  <2> QED
    BY <2>4 DEF Readings
<1> QED
  BY <1>1, <1>2, <1>3, AppliedTyped DEF TreeOf, ReplayOf

(* A prefix of the log says what it said.                                  *)
Extends(ch, ch2) ==
    /\ ch \in Seq(Message) /\ ch2 \in Seq(Message) /\ Len(ch) <= Len(ch2)
    /\ \A k \in 1..Len(ch) : ch2[k] = ch[k]

LEMMA PrefixKept ==
    ASSUME NEW ch, NEW ch2, Extends(ch, ch2)
    PROVE  \A n \in 0..Len(ch) :
              /\ TreeOf(ch2, n) = TreeOf(ch, n)
              /\ \A m \in Nat \ {0} : ReplayOf(ch2, m, n) = ReplayOf(ch, m, n)
<1>1. ASSUME NEW n \in 0..Len(ch)
      PROVE  Operations(ch2, n) = Operations(ch, n)
  <2>1. \A k \in 1..n : ch2[k] = ch[k]
    BY DEF Extends
  <2>2. {i \in 1..n : ~ch2[i].copy} = {i \in 1..n : ~ch[i].copy}
    BY <2>1
  <2>3. \A k \in {i \in 1..n : ~ch2[i].copy} : ch2[k].lines = ch[k].lines
    BY <2>1
  <2> QED
    BY <2>2, <2>3 DEF Operations
<1>2. ASSUME NEW n \in 0..Len(ch), NEW m \in Nat \ {0}
      PROVE  Readings(ch2, m, n) = Readings(ch, m, n)
  <2>1. \A k \in m..n : ch2[k] = ch[k]
    BY DEF Extends
  <2> QED
    BY <2>1 DEF Readings
<1> QED
  BY <1>1, <1>2 DEF TreeOf, ReplayOf

(* The last message, for the tree and for a start.                         *)
LEMMA TreeOfLast ==
    ASSUME NEW ch \in Seq(Message), NEW n \in 1..Len(ch)
    PROVE  TreeOf(ch, n) = IF ch[n].copy THEN TreeOf(ch, n - 1)
                           ELSE Overlay(TreeOf(ch, n - 1), ch[n].lines)
<1>1. n - 1 \in 0..Len(ch) /\ n \in 0..Len(ch) /\ n \in Nat
  OBVIOUS
<1> DEFINE f == Operations(ch, n)
<1>2. f \in Lines(n) /\ DOMAIN f \subseteq 1..n
  BY <1>1, LogTyped, LinesAre
<1>3. {i \in 1..(n - 1) : ~ch[i].copy} = {i \in 1..n : ~ch[i].copy} \ {n}
  <2>1. \A i : i \in 1..(n - 1) <=> i \in 1..n /\ i # n
    OBVIOUS
  <2> QED
    BY <2>1
<1>4. DOMAIN f = {i \in 1..n : ~ch[i].copy}
      /\ \A k \in DOMAIN f : f[k] = ch[k].lines
  BY DEF Operations
<1>5. Operations(ch, n - 1) = [k \in DOMAIN f \ {n} |-> ch[k].lines]
  BY <1>3, <1>4 DEF Operations
<1>6. CASE ch[n].copy
  <2>1. DOMAIN f \ {n} = DOMAIN f
    BY <1>4, <1>6
  <2>2. Operations(ch, n - 1) = f
    BY <1>4, <1>5, <2>1 DEF Operations
  <2> QED
    BY <1>6, <2>2 DEF TreeOf
<1>7. CASE ~ch[n].copy
  <2>1. n \in DOMAIN f /\ f[n] = ch[n].lines
    BY <1>4, <1>7
  <2>2. \A k \in DOMAIN f : k <= n
    BY <1>2
  <2> HIDE DEF f
  <2>3. [k \in DOMAIN f \ {n} |-> f[k]] = Operations(ch, n - 1)
    BY <1>4, <1>5
  <2>4. Applied(f) = Overlay(Applied([k \in DOMAIN f \ {n} |-> f[k]]), f[n])
    BY <1>1, <1>2, <2>1, <2>2, AppliedLast
  <2> QED
    BY <1>7, <2>1, <2>3, <2>4 DEF TreeOf, f
<1> QED
  BY <1>6, <1>7

LEMMA ReplayOfLast ==
    ASSUME NEW ch \in Seq(Message), NEW n \in 1..Len(ch), NEW m \in 1..n
    PROVE  /\ ReplayOf(ch, m, n) =
                 Overlay(ReplayOf(ch, m, n - 1), Scanned(ch[n].lines))
           /\ ReplayOf(ch, n, n - 1) = NewDB
<1>1. n - 1 \in 0..Len(ch) /\ n \in 0..Len(ch) /\ n \in Nat /\ m \in Nat \ {0}
  OBVIOUS
<1> DEFINE f == Readings(ch, m, n)
<1>2. f \in Lines(n) /\ DOMAIN f = m..n
      /\ \A k \in m..n : f[k] = Scanned(ch[k].lines)
  BY <1>1, LogTyped DEF Readings
<1>3. m..(n - 1) = (m..n) \ {n}
  BY <1>1
<1>4. n \in DOMAIN f /\ \A k \in DOMAIN f : k <= n
  BY <1>1, <1>2
<1> HIDE DEF f
<1>5. [k \in DOMAIN f \ {n} |-> f[k]] = Readings(ch, m, n - 1)
  BY <1>2, <1>3 DEF Readings
<1>6. Applied(f) = Overlay(Applied([k \in DOMAIN f \ {n} |-> f[k]]), f[n])
  BY <1>1, <1>2, <1>4, AppliedLast
<1>7. DOMAIN Readings(ch, n, n - 1) = {}
  <2>1. n..(n - 1) = {}
    BY <1>1
  <2> QED
    BY <2>1 DEF Readings
<1>8. ReplayOf(ch, n, n - 1) = NewDB
  BY <1>7, AppliedNothing DEF ReplayOf
<1> QED
  BY <1>2, <1>4, <1>5, <1>6, <1>8 DEF ReplayOf, f

(* A start from message m finds the operations' tree, whichever message is *)
(* the last one it reads.                                                  *)
GoodStart(ch, m) ==
    /\ m \in DOMAIN ch
    /\ \A n \in m..Len(ch) : ReplayOf(ch, m, n) = TreeOf(ch, n)

RootMessage == [lines |-> <<RootLine>>, copy |-> FALSE]
RootTree == [NewDB EXCEPT ![Root] = RootLine.entry]

LEMMA AppendTo ==
    ASSUME NEW ch \in Seq(Message), NEW msg \in Message
    PROVE  LET ch2 == Append(ch, msg) IN
           /\ Extends(ch, ch2) /\ ch2 \in Seq(Message)
           /\ Len(ch) \in Nat /\ Len(ch2) = Len(ch) + 1
           /\ Len(ch2) \in DOMAIN ch2 /\ ch2[Len(ch2)] = msg
           /\ DOMAIN ch \subseteq DOMAIN ch2
<1> DEFINE ch2 == Append(ch, msg)
<1>1. /\ ch2 \in Seq(Message) /\ Len(ch2) = Len(ch) + 1
      /\ \A k \in 1..Len(ch) : ch2[k] = ch[k]
      /\ ch2[Len(ch) + 1] = msg
  BY AppendProperties
<1>2. /\ Len(ch) \in Nat /\ DOMAIN ch2 = 1..Len(ch2) /\ DOMAIN ch = 1..Len(ch)
  BY <1>1, LenProperties
<1> HIDE DEF ch2
<1>3. Extends(ch, ch2)
  BY <1>1, <1>2 DEF Extends
<1>4. Len(ch2) \in DOMAIN ch2 /\ DOMAIN ch \subseteq DOMAIN ch2
  BY <1>1, <1>2
<1> QED
  BY <1>1, <1>2, <1>3, <1>4 DEF ch2

(* What a message adds, to the operations' tree and to a replay.           *)
LEMMA AfterAppend ==
    ASSUME NEW ch \in Seq(Message), NEW msg \in Message, NoLong(msg.lines)
    PROVE  LET ch2 == Append(ch, msg)
               n == Len(ch) IN
           /\ TreeOf(ch2, n + 1) = IF msg.copy THEN TreeOf(ch, n)
                                   ELSE Overlay(TreeOf(ch, n), msg.lines)
           /\ \A m \in 1..n : ReplayOf(ch2, m, n + 1) =
                                Overlay(ReplayOf(ch, m, n), msg.lines)
           /\ ReplayOf(ch2, n + 1, n + 1) = Overlay(NewDB, msg.lines)
<1> DEFINE ch2 == Append(ch, msg)
           n == Len(ch)
<1>1. /\ Extends(ch, ch2) /\ ch2 \in Seq(Message) /\ n \in Nat
      /\ Len(ch2) = n + 1 /\ ch2[n + 1] = msg
  BY AppendTo
<1>2. n + 1 \in 1..Len(ch2) /\ (n + 1) - 1 = n /\ n \in 0..Len(ch)
      /\ n + 1 \in 1..(n + 1)
  BY <1>1
<1>3. msg.lines \in Seq(Tx) /\ Scanned(msg.lines) = msg.lines
  <2>1. msg.lines \in Seq(Tx)
    BY DEF Message
  <2> QED
    BY <2>1, ScannedTyped
<1> HIDE DEF ch2, n
<1>4. TreeOf(ch2, n) = TreeOf(ch, n)
      /\ \A m \in Nat \ {0} : ReplayOf(ch2, m, n) = ReplayOf(ch, m, n)
  BY <1>1, <1>2, PrefixKept
<1>5. TreeOf(ch2, n + 1) = IF msg.copy THEN TreeOf(ch, n)
                           ELSE Overlay(TreeOf(ch, n), msg.lines)
  BY <1>1, <1>2, <1>4, TreeOfLast
<1>6. ASSUME NEW m \in 1..(n + 1)
      PROVE  ReplayOf(ch2, m, n + 1) = Overlay(ReplayOf(ch2, m, n), msg.lines)
  BY <1>1, <1>2, <1>3, ReplayOfLast
<1>7. ReplayOf(ch2, n + 1, n) = NewDB
  BY <1>1, <1>2, ReplayOfLast
<1>8. ASSUME NEW m \in 1..n
      PROVE  ReplayOf(ch2, m, n + 1) = Overlay(ReplayOf(ch, m, n), msg.lines)
  <2>1. m \in 1..(n + 1) /\ m \in Nat \ {0}
    BY <1>1
  <2> QED
    BY <1>4, <1>6, <2>1
<1>9. ReplayOf(ch2, n + 1, n + 1) = Overlay(NewDB, msg.lines)
  BY <1>2, <1>6, <1>7
<1> QED
  BY <1>5, <1>8, <1>9 DEF ch2, n

(* A good start stays good: an operation is applied in its turn, and a     *)
(* copy says of the tree what it is.                                       *)
LEMMA GoodStays ==
    ASSUME NEW ch \in Seq(Message), NEW msg \in Message, NoLong(msg.lines),
           msg.copy => Overlay(NewDB, msg.lines) = TreeOf(ch, Len(ch))
    PROVE  /\ \A m : GoodStart(ch, m) => GoodStart(Append(ch, msg), m)
           /\ msg.copy => GoodStart(Append(ch, msg), Len(ch) + 1)
<1> DEFINE ch2 == Append(ch, msg)
           n == Len(ch)
<1>1. /\ Extends(ch, ch2) /\ ch2 \in Seq(Message) /\ n \in Nat
      /\ Len(ch2) = n + 1 /\ n + 1 \in DOMAIN ch2
      /\ DOMAIN ch = 1..n /\ DOMAIN ch \subseteq DOMAIN ch2
  BY AppendTo
<1>2. /\ TreeOf(ch2, n + 1) = IF msg.copy THEN TreeOf(ch, n)
                              ELSE Overlay(TreeOf(ch, n), msg.lines)
      /\ \A m \in 1..n : ReplayOf(ch2, m, n + 1) =
                           Overlay(ReplayOf(ch, m, n), msg.lines)
      /\ ReplayOf(ch2, n + 1, n + 1) = Overlay(NewDB, msg.lines)
  BY AfterAppend
<1>3. TreeOf(ch, n) \in Trees
  BY <1>1, LogTyped
<1>4. msg.copy => Overlay(NewDB, msg.lines) = TreeOf(ch, n)
  OBVIOUS
<1> HIDE DEF ch2, n
<1>5. msg.copy => Overlay(TreeOf(ch, n), msg.lines) = TreeOf(ch, n)
  BY <1>3, <1>4, OverlayAgain
<1>6. ASSUME NEW m, GoodStart(ch, m)
      PROVE  GoodStart(ch2, m)
  <2>1. m \in 1..n /\ m \in Nat \ {0} /\ m \in DOMAIN ch2
    BY <1>1, <1>6 DEF GoodStart
  <2>2. ReplayOf(ch, m, n) = TreeOf(ch, n)
    BY <1>1, <1>6, <2>1 DEF GoodStart, n
  <2>3. ReplayOf(ch2, m, n + 1) = TreeOf(ch2, n + 1)
    BY <1>2, <1>5, <2>1, <2>2
  <2>4. ASSUME NEW k \in m..(n + 1)
        PROVE  ReplayOf(ch2, m, k) = TreeOf(ch2, k)
    <3>1. CASE k = n + 1
      BY <2>3, <3>1
    <3>2. CASE k # n + 1
      <4>1. k \in m..n /\ k \in 0..n
        BY <1>1, <2>1, <3>2
      <4>2. ReplayOf(ch, m, k) = TreeOf(ch, k)
        BY <1>6, <4>1 DEF GoodStart, n
      <4>3. /\ TreeOf(ch2, k) = TreeOf(ch, k)
            /\ ReplayOf(ch2, m, k) = ReplayOf(ch, m, k)
        BY <1>1, <2>1, <4>1, PrefixKept DEF n
      <4> QED
        BY <4>2, <4>3
    <3> QED
      BY <3>1, <3>2
  <2> QED
    BY <1>1, <2>1, <2>4 DEF GoodStart
<1>7. ASSUME msg.copy
      PROVE  GoodStart(ch2, n + 1)
  <2>1. ReplayOf(ch2, n + 1, n + 1) = TreeOf(ch2, n + 1)
    BY <1>2, <1>4, <1>7
  <2>2. (n + 1)..(n + 1) = {n + 1}
    BY <1>1
  <2> QED
    BY <1>1, <2>1, <2>2 DEF GoodStart
<1> QED
  BY <1>6, <1>7 DEF ch2, n

(* The messages of operations only, from the first one.                    *)
LEMMA GoodHistory ==
    ASSUME NEW ch \in Seq(Message), ch # <<>>,
           \A k \in DOMAIN ch : ~ch[k].copy /\ NoLong(ch[k].lines)
    PROVE  GoodStart(ch, 1)
<1>1. Len(ch) \in Nat /\ DOMAIN ch = 1..Len(ch) /\ 1 \in DOMAIN ch
  OBVIOUS
<1>2. ASSUME NEW n \in 1..Len(ch)
      PROVE  Readings(ch, 1, n) = Operations(ch, n)
  <2>1. \A k \in 1..n : /\ k \in DOMAIN ch /\ ~ch[k].copy
                        /\ Scanned(ch[k].lines) = ch[k].lines
    <3>1. \A k \in 1..n : k \in 1..Len(ch)
      BY <1>1
    <3> QED
      BY <1>1, <3>1, MessageAt, ScannedTyped
  <2>2. {i \in 1..n : ~ch[i].copy} = 1..n
    BY <2>1
  <2> QED
    BY <2>1, <2>2 DEF Readings, Operations
<1> QED
  BY <1>1, <1>2 DEF GoodStart, ReplayOf, TreeOf

LEMMA RootIs ==
    /\ RootLine \in Tx /\ <<RootLine>> \in Seq(Tx) /\ RootMessage \in Message
    /\ NoLong(<<RootLine>>) /\ RootTree \in Trees /\ NewDB \in Trees
    /\ RootTree = Overlay(NewDB, <<RootLine>>)
    /\ RootTree = Overlay(RootTree, <<RootLine>>)
<1>1. PICK e \in Entries \ Long : e = RootLine.entry
  BY TxLogConstants DEF RootLine
<1>2. RootLine.path = Root /\ Root \in Paths
  BY TxLogConstants DEF RootLine
<1>3. RootLine \in Tx
  BY <1>1, <1>2 DEF RootLine, Tx
<1>4. <<RootLine>> \in Seq(Tx)
  BY <1>3
<1>5. RootMessage \in Message
  BY <1>4 DEF RootMessage, Message
<1>6. NoLong(<<RootLine>>)
  BY <1>1 DEF NoLong
<1>7. NewDB \in Trees
  BY DEF NewDB, Trees
<1>8. RootTree \in Trees
  BY <1>1, <1>2, <1>7 DEF RootTree, Trees
<1>9. ASSUME NEW p \in Paths
      PROVE  /\ p # Root => On(<<RootLine>>, p) = {}
             /\ p = Root => /\ On(<<RootLine>>, p) # {}
                            /\ Says(<<RootLine>>, p) = RootLine.entry
  <2>1. DOMAIN <<RootLine>> = {1} /\ <<RootLine>>[1] = RootLine
    OBVIOUS
  <2>2. p # Root => On(<<RootLine>>, p) = {}
    BY <1>2, <2>1 DEF On
  <2>3. ASSUME p = Root
        PROVE  On(<<RootLine>>, p) = {1}
    BY <1>2, <2>1, <2>3 DEF On
  <2>4. Max({1}) = 1
    BY GreatestIs
  <2> QED
    BY <2>1, <2>2, <2>3, <2>4 DEF Says
<1>10. ASSUME NEW p \in Paths
       PROVE  /\ RootTree[p] = Overlay(NewDB, <<RootLine>>)[p]
              /\ RootTree[p] = Overlay(RootTree, <<RootLine>>)[p]
  BY <1>2, <1>9 DEF RootTree, Overlay, NewDB
<1>11. /\ Overlay(NewDB, <<RootLine>>) \in Trees
       /\ Overlay(RootTree, <<RootLine>>) \in Trees
  BY <1>4, <1>7, <1>8, OverlayTyped
<1>12. /\ RootTree = Overlay(NewDB, <<RootLine>>)
       /\ RootTree = Overlay(RootTree, <<RootLine>>)
  BY <1>8, <1>10, <1>11 DEF Trees
<1> QED
  BY <1>3, <1>4, <1>5, <1>6, <1>7, <1>8, <1>12

-----------------------------------------------------------------------------
(* The inductive invariant.                                                *)

LogTypes ==
    /\ channel \in Seq(Message) /\ pins \subseteq DOMAIN channel
    /\ everPinned \in BOOLEAN /\ damaged \in BOOLEAN
    /\ starts \in 0..MaxStarts /\ posts \in 0..MaxPosts

Shaped ==
    /\ pc = [d \in Clients |-> pc[d]]
    /\ pinned = [d \in Clients |-> pinned[d]]
    /\ upto = [d \in Clients |-> upto[d]]
    /\ db = [d \in Clients |-> db[d]]
    /\ buffer = [d \in Clients |-> buffer[d]]
    /\ first = [d \in Clients |-> first[d]]
    /\ partial = [d \in Clients |-> partial[d]]
    /\ begun = [d \in Clients |-> begun[d]]

ClientTypes(c) ==
    /\ pc[c] \in PC
    /\ pinned[c] \in 0..Len(channel) /\ upto[c] \in 0..Len(channel)
    /\ first[c] \in 0..Len(channel) /\ begun[c] \in 0..Len(channel)
    /\ db[c] \in Trees /\ buffer[c] \in Seq(Tx) /\ partial[c] \in BOOLEAN

(* Until a message is pinned the channel holds root folders only, one of   *)
(* each client that has started.                                           *)
RootOnly ==
    ~everPinned =>
        /\ pins = {}
        /\ \A n \in 1..Len(channel) : TreeOf(channel, n) = RootTree
        /\ \A m \in DOMAIN channel : GoodStart(channel, m)
        /\ \A c \in Clients : pc[c] \in {"off", "root", "pinroot"}

(* Where a client stands in setupDB, whatever happened to the log.         *)
Position(c) ==
    /\ pc[c] \in {"off", "root"} => db[c] = NewDB
    /\ pc[c] = "pinroot" => db[c] = RootTree /\ pinned[c] \in DOMAIN channel
    /\ pc[c] \in {"page", "apply"} => pinned[c] \in 1..upto[c]
    /\ pc[c] = "apply" => begun[c] <= upto[c]

(* What a client has read, and what it has copied, is the tree.            *)
Setup(c) ==
    /\ pc[c] \in {"page", "apply"} => GoodStart(channel, pinned[c])
    /\ first[c] # 0 => GoodStart(channel, first[c])
    /\ pc[c] = "compact" /\ ~partial[c] =>
        /\ NoLong(buffer[c])
        /\ db[c] = TreeOf(channel, upto[c])
        /\ Overlay(NewDB, buffer[c]) = db[c]
    /\ pc[c] \in {"compact", "pin", "unpin", "done"} /\ ~partial[c] =>
        \E n \in begun[c]..Len(channel) : db[c] = TreeOf(channel, n)

Sound ==
    ~damaged => /\ \A k \in DOMAIN channel : NoLong(channel[k].lines)
                /\ \A m \in pins : GoodStart(channel, m)
                /\ \A c \in Clients : Setup(c)

LogInd ==
    TypeOK /\ PinInv /\ RootOnly /\ (\A c \in Clients : Position(c)) /\ Sound

LEMMA TypeParts ==
    TypeOK <=> LogTypes /\ Shaped /\ \A c \in Clients : ClientTypes(c)
<1>1. ASSUME TypeOK
      PROVE  LogTypes /\ Shaped /\ \A c \in Clients : ClientTypes(c)
  <2>1. LogTypes
    BY <1>1 DEF TypeOK, LogTypes
  <2>2. Shaped
    BY <1>1 DEF TypeOK, Shaped
  <2>3. \A c \in Clients : ClientTypes(c)
    BY <1>1 DEF TypeOK, ClientTypes, Trees, Tree
  <2> QED
    BY <2>1, <2>2, <2>3
<1>2. ASSUME LogTypes, Shaped, \A c \in Clients : ClientTypes(c)
      PROVE  TypeOK
  <2>1. /\ pc \in [Clients -> PC]
        /\ pinned \in [Clients -> 0..Len(channel)]
        /\ upto \in [Clients -> 0..Len(channel)]
        /\ db \in [Clients -> Trees]
        /\ buffer \in [Clients -> Seq(Tx)]
        /\ first \in [Clients -> 0..Len(channel)]
        /\ partial \in [Clients -> BOOLEAN]
        /\ begun \in [Clients -> 0..Len(channel)]
    BY <1>2 DEF Shaped, ClientTypes
  <2> QED
    BY <1>2, <2>1 DEF TypeOK, LogTypes, Trees, Tree
<1> QED
  BY <1>1, <1>2

LEMMA TypePartsNext ==
    ASSUME LogTypes', Shaped', \A c \in Clients : ClientTypes(c)'
    PROVE  TypeOK'
<1>1. /\ pc' \in [Clients -> PC]
      /\ pinned' \in [Clients -> 0..Len(channel')]
      /\ upto' \in [Clients -> 0..Len(channel')]
      /\ db' \in [Clients -> Trees]
      /\ buffer' \in [Clients -> Seq(Tx)]
      /\ first' \in [Clients -> 0..Len(channel')]
      /\ partial' \in [Clients -> BOOLEAN]
      /\ begun' \in [Clients -> 0..Len(channel')]
  BY DEF Shaped, ClientTypes
<1> QED
  BY <1>1 DEF TypeOK, LogTypes, Trees, Tree

(* What a step of one client does to the others and to the log.            *)
Same(d) ==
    /\ pc'[d] = pc[d] /\ pinned'[d] = pinned[d] /\ upto'[d] = upto[d]
    /\ db'[d] = db[d] /\ buffer'[d] = buffer[d] /\ first'[d] = first[d]
    /\ partial'[d] = partial[d] /\ begun'[d] = begun[d]

(* The log is as it was, or has one more message.                          *)
Kept(ch, ch2) ==
    /\ Extends(ch, ch2) /\ DOMAIN ch \subseteq DOMAIN ch2
    /\ Len(ch) \in Nat /\ Len(ch2) \in Nat

LEMMA LogKept ==
    ASSUME channel \in Seq(Message),
           \/ UNCHANGED channel
           \/ \E msg \in Message : channel' = Append(channel, msg)
    PROVE  Kept(channel, channel') /\ channel' \in Seq(Message)
<1>1. CASE UNCHANGED channel
  BY <1>1 DEF Kept, Extends
<1>2. CASE \E msg \in Message : channel' = Append(channel, msg)
  BY <1>2, AppendTo DEF Kept, Extends
<1> QED
  BY <1>1, <1>2

LEMMA OtherTypes ==
    ASSUME Kept(channel, channel'), NEW d \in Clients, Same(d), ClientTypes(d)
    PROVE  ClientTypes(d)'
BY DEF Kept, Extends, Same, ClientTypes

LEMMA OtherPosition ==
    ASSUME Kept(channel, channel'), NEW d \in Clients, Same(d), Position(d)
    PROVE  Position(d)'
BY DEF Kept, Same, Position

LEMMA OtherSetup ==
    ASSUME Kept(channel, channel'), NEW d \in Clients, Same(d), Setup(d),
           ClientTypes(d),
           \A m : GoodStart(channel, m) => GoodStart(channel', m)
    PROVE  Setup(d)'
<1>1. \A n \in 0..Len(channel) : TreeOf(channel', n) = TreeOf(channel, n)
  BY PrefixKept DEF Kept
<1>2. pc'[d] \in {"page", "apply"} => GoodStart(channel', pinned'[d])
  BY DEF Same, Setup
<1>3. first'[d] # 0 => GoodStart(channel', first'[d])
  BY DEF Same, Setup
<1>4. pc'[d] = "compact" /\ ~partial'[d] =>
        /\ NoLong(buffer'[d])
        /\ db'[d] = TreeOf(channel', upto'[d])
        /\ Overlay(NewDB, buffer'[d]) = db'[d]
  BY <1>1 DEF Same, Setup, ClientTypes
<1>5. ASSUME pc'[d] \in {"compact", "pin", "unpin", "done"}, ~partial'[d]
      PROVE  \E n \in begun'[d]..Len(channel') : db'[d] = TreeOf(channel', n)
  <2>1. PICK n \in begun[d]..Len(channel) : db[d] = TreeOf(channel, n)
    BY <1>5 DEF Same, Setup
  <2>2. n \in 0..Len(channel) /\ n \in begun'[d]..Len(channel')
    BY DEF Kept, Extends, Same, ClientTypes
  <2> QED
    BY <1>1, <2>1, <2>2 DEF Same
<1> QED
  BY <1>2, <1>3, <1>4, <1>5 DEF Setup

(* One step of one client, in parts.                                       *)
LEMMA ClientStep ==
    ASSUME LogInd, PinInv', NEW c \in Clients,
           \A d \in Clients \ {c} : Same(d), Shaped',
           Kept(channel, channel'), LogTypes', ClientTypes(c)', Position(c)',
           RootOnly',
           ~damaged' =>
                /\ ~damaged
                /\ \A k \in DOMAIN channel' : NoLong(channel'[k].lines)
                /\ \A m : GoodStart(channel, m) => GoodStart(channel', m)
                /\ \A m \in pins' : GoodStart(channel', m)
                /\ Setup(c)'
    PROVE  LogInd'
<1>1. /\ \A d \in Clients : ClientTypes(d) /\ Position(d)
      /\ ~damaged => \A d \in Clients : Setup(d)
  BY TypeParts DEF LogInd, Sound
<1>2. \A d \in Clients : ClientTypes(d)'
  BY <1>1, OtherTypes
<1>3. \A d \in Clients : Position(d)'
  BY <1>1, OtherPosition
<1>4. Sound'
  <2>1. ASSUME ~damaged'
        PROVE  \A d \in Clients : Setup(d)'
    BY <1>1, <2>1, OtherSetup
  <2> QED
    BY <2>1 DEF Sound
<1> QED
  BY <1>2, <1>3, <1>4, TypePartsNext DEF LogInd

-----------------------------------------------------------------------------
(* The steps.                                                              *)

LEMMA Parts ==
    ASSUME LogInd, NEW c \in Clients
    PROVE  /\ LogTypes /\ Shaped /\ ClientTypes(c) /\ Position(c)
           /\ RootOnly /\ Sound /\ PinInv /\ (~damaged => Setup(c))
           /\ Len(channel) \in Nat /\ DOMAIN channel = 1..Len(channel)
           /\ first[c] # 0 => pc[c] \in {"compact", "pin", "unpin", "done"}
           /\ pc[c] \in {"pin", "unpin"} => first[c] # 0
           /\ everPinned => pins # {}
<1>1. LogTypes /\ Shaped /\ ClientTypes(c)
  BY TypeParts DEF LogInd
<1>2. Position(c) /\ RootOnly /\ Sound /\ PinInv /\ (~damaged => Setup(c))
  BY DEF LogInd, Sound
<1>3. Len(channel) \in Nat /\ DOMAIN channel = 1..Len(channel)
  BY <1>1 DEF LogTypes
<1>4. /\ first[c] # 0 => pc[c] \in {"compact", "pin", "unpin", "done"}
      /\ pc[c] \in {"pin", "unpin"} => first[c] # 0
      /\ everPinned => pins # {}
  BY <1>2 DEF PinInv, CopyIsYounger, YoungestStays
<1> QED
  BY <1>1, <1>2, <1>3, <1>4

(* A step that leaves the log alone.                                       *)
LEMMA LocalInd ==
    ASSUME LogInd, PinInv', NEW c \in Clients,
           \A d \in Clients \ {c} : Same(d), Shaped',
           UNCHANGED <<discordVars, damaged, posts>>,
           starts' \in 0..MaxStarts,
           ClientTypes(c)', Position(c)',
           ~damaged => Setup(c)',
           everPinned \/ pc'[c] \in {"off", "root", "pinroot"}
    PROVE  LogInd'
<1>1. /\ LogTypes /\ RootOnly /\ Sound
  BY Parts
<1>2. LogTypes'
  BY <1>1 DEF LogTypes, discordVars
<1>3. Kept(channel, channel')
  BY <1>1, LogKept DEF LogTypes, discordVars
<1>4. RootOnly'
  <2>1. ASSUME ~everPinned'
        PROVE  \A d \in Clients : pc'[d] \in {"off", "root", "pinroot"}
    BY <1>1, <2>1 DEF RootOnly, discordVars, Same
  <2> QED
    BY <1>1, <2>1 DEF RootOnly, discordVars
<1>5. ~damaged' =>
        /\ ~damaged
        /\ \A k \in DOMAIN channel' : NoLong(channel'[k].lines)
        /\ \A m : GoodStart(channel, m) => GoodStart(channel', m)
        /\ \A m \in pins' : GoodStart(channel', m)
        /\ Setup(c)'
  BY <1>1 DEF Sound, discordVars
<1> QED
  BY <1>2, <1>3, <1>4, <1>5, ClientStep

(* A client that exits has nothing of its own left.                        *)
LEMMA ExitInd ==
    ASSUME LogInd, NEW c \in Clients, Exit(c), Len(channel') \in Nat
    PROVE  /\ \A d \in Clients \ {c} : Same(d)
           /\ Shaped' /\ ClientTypes(c)' /\ Position(c)' /\ Setup(c)'
           /\ pc'[c] = "off"
<1>1. Shaped
  BY Parts
<1>2. /\ \A d \in Clients \ {c} : Same(d)
      /\ Shaped'
  BY <1>1 DEF Exit, Forget, Goto, Shaped, Same
<1>3. /\ pc'[c] = "off" /\ pinned'[c] = 0 /\ upto'[c] = 0 /\ db'[c] = NewDB
      /\ buffer'[c] = <<>> /\ first'[c] = 0 /\ partial'[c] = FALSE
      /\ begun'[c] = 0
  BY <1>1 DEF Exit, Forget, Goto, Shaped
<1>4. ClientTypes(c)'
  <2>1. <<>> \in Seq(Tx) /\ NewDB \in Trees /\ 0 \in 0..Len(channel')
    BY RootIs
  <2> QED
    BY <1>3, <2>1, Zenon DEF ClientTypes, PC
<1>5. Position(c)' /\ Setup(c)'
  BY <1>3 DEF Position, Setup
<1> QED
  BY <1>2, <1>3, <1>4, <1>5

LEMMA StartInd ==
    ASSUME LogInd, PinInv', NEW c \in Clients, Start(c)
    PROVE  LogInd'
<1>1. /\ LogTypes /\ Shaped /\ ClientTypes(c) /\ Position(c) /\ first[c] = 0
      /\ pc[c] = "off" /\ Len(channel) \in Nat
  BY Parts DEF Start, At
<1> DEFINE l == IF everPinned THEN "pins" ELSE "root"
<1>2. /\ \A d \in Clients \ {c} : Same(d)
      /\ Shaped'
      /\ UNCHANGED <<pinned, upto, db, buffer, first, partial>>
      /\ pc'[c] = l /\ begun'[c] = Len(channel)
  BY <1>1 DEF Start, Goto, Shaped, Same
<1>3. UNCHANGED <<discordVars, damaged, posts>>
  BY DEF Start
<1>4. starts' \in 0..MaxStarts
  BY <1>1, TxLogConstants DEF Start, LogTypes
<1>5. ClientTypes(c)'
  BY <1>1, <1>2, <1>3 DEF ClientTypes, PC, discordVars
<1>6. Position(c)' /\ Setup(c)'
  BY <1>1, <1>2 DEF Position, Setup
<1> QED
  BY <1>2, <1>3, <1>4, <1>5, <1>6, LocalInd

LEMMA StopInd ==
    ASSUME LogInd, PinInv', NEW c \in Clients, Stop(c)
    PROVE  LogInd'
<1>1. /\ Exit(c) /\ UNCHANGED <<discordVars, damaged, posts, starts>>
      /\ LogTypes /\ Len(channel) \in Nat
  BY Parts DEF Stop
<1>2. Len(channel') \in Nat /\ starts' \in 0..MaxStarts
  BY <1>1 DEF discordVars, LogTypes
<1>3. UNCHANGED <<discordVars, damaged, posts>>
  BY <1>1
<1> QED
  BY <1>1, <1>2, <1>3, ExitInd, LocalInd

LEMMA ReadPinsInd ==
    ASSUME LogInd, PinInv', NEW c \in Clients, ReadPins(c)
    PROVE  LogInd'
<1>1. /\ LogTypes /\ Shaped /\ ClientTypes(c) /\ Position(c) /\ Sound
      /\ first[c] = 0 /\ pc[c] = "pins" /\ RootOnly
      /\ Len(channel) \in Nat /\ DOMAIN channel = 1..Len(channel)
  BY Parts DEF ReadPins, At
<1>2. UNCHANGED <<discordVars, damaged, posts>> /\ UNCHANGED starts
  BY DEF ReadPins
<1>3. everPinned /\ starts' \in 0..MaxStarts /\ Len(channel') \in Nat
  BY <1>1, <1>2 DEF RootOnly, LogTypes, discordVars
<1>4. CASE Exit(c)
  BY <1>2, <1>3, <1>4, ExitInd, LocalInd
<1>5. CASE ~Exit(c)
  <2>1. PICK m \in pins :
           /\ pinned' = [pinned EXCEPT ![c] = m]
           /\ upto' = [upto EXCEPT ![c] = m]
           /\ Goto(c, "page")
           /\ UNCHANGED <<db, buffer, first, partial, begun>>
    BY <1>5 DEF ReadPins
  <2>2. /\ \A d \in Clients \ {c} : Same(d)
        /\ Shaped'
        /\ pc'[c] = "page" /\ pinned'[c] = m /\ upto'[c] = m
        /\ UNCHANGED <<db, buffer, first, partial, begun>>
    BY <1>1, <2>1 DEF Goto, Shaped, Same
  <2>3. m \in 1..Len(channel) /\ channel' = channel
    BY <1>1, <1>2 DEF LogTypes, discordVars
  <2>4. ClientTypes(c)'
    BY <1>1, <2>2, <2>3 DEF ClientTypes, PC
  <2>5. Position(c)'
    BY <2>2, <2>3 DEF Position
  <2>6. ~damaged => Setup(c)'
    BY <1>1, <2>2, <2>3 DEF Sound, Setup
  <2> QED
    BY <1>2, <1>3, <2>2, <2>4, <2>5, <2>6, LocalInd
<1> QED
  BY <1>4, <1>5

LEMMA NextPageIs ==
    ASSUME Len(channel) \in Nat, NEW n \in 0..Len(channel)
    PROVE  /\ NextPage(n) \in n..Len(channel)
           /\ LastPage(n) => NextPage(n) = Len(channel)
<1> DEFINE a == n + PageSize
           S == {a, Len(channel)}
<1>1. a \in Nat /\ n <= a /\ PageSize \in Nat
  BY TxLogConstants
<1>2. PICK x \in S : \A y \in S : x <= y
  <2>1. S \in SUBSET Nat /\ S # {}
    BY <1>1
  <2> HIDE DEF S
  <2> QED
    BY <2>1, LeastElement
<1>3. NextPage(n) \in S /\ \A y \in S : NextPage(n) <= y
  BY <1>2, Zenon DEF NextPage, Min
<1>4. NextPage(n) <= a /\ NextPage(n) <= Len(channel)
      /\ (NextPage(n) = a \/ NextPage(n) = Len(channel))
  BY <1>3
<1> HIDE DEF a
<1>5. NextPage(n) \in n..Len(channel)
  BY <1>1, <1>4
<1>6. LastPage(n) => NextPage(n) = Len(channel)
  BY <1>1, <1>4 DEF LastPage, a
<1> QED
  BY <1>5, <1>6

LEMMA PageInd ==
    ASSUME LogInd, PinInv', NEW c \in Clients, Page(c)
    PROVE  LogInd'
<1>1. /\ LogTypes /\ Shaped /\ ClientTypes(c) /\ Position(c) /\ Sound
      /\ first[c] = 0 /\ pc[c] = "page" /\ RootOnly /\ (~damaged => Setup(c))
      /\ Len(channel) \in Nat /\ DOMAIN channel = 1..Len(channel)
  BY Parts DEF Page, At
<1>2. UNCHANGED <<discordVars, damaged, posts>> /\ UNCHANGED starts
  BY DEF Page
<1>3. everPinned /\ starts' \in 0..MaxStarts /\ Len(channel') \in Nat
  BY <1>1, <1>2 DEF RootOnly, LogTypes, discordVars
<1>4. CASE Exit(c)
  BY <1>2, <1>3, <1>4, ExitInd, LocalInd
<1>5. CASE ~Exit(c)
  <2> DEFINE n == upto[c]
             l == IF LastPage(n) THEN "apply" ELSE "page"
  <2>1. /\ upto' = [upto EXCEPT ![c] = NextPage(n)]
        /\ Goto(c, l)
        /\ UNCHANGED <<pinned, db, buffer, first, partial, begun>>
    BY <1>5 DEF Page
  <2>2. /\ \A d \in Clients \ {c} : Same(d)
        /\ Shaped'
        /\ pc'[c] = l /\ upto'[c] = NextPage(n)
        /\ UNCHANGED <<pinned, db, buffer, first, partial, begun>>
    BY <1>1, <2>1 DEF Goto, Shaped, Same
  <2>3. channel' = channel /\ n \in 0..Len(channel)
    BY <1>1, <1>2 DEF ClientTypes, discordVars
  <2>4. /\ NextPage(n) \in n..Len(channel)
        /\ LastPage(n) => NextPage(n) = Len(channel)
    BY <1>1, <2>3, NextPageIs
  <2>5. ClientTypes(c)'
    BY <1>1, <2>2, <2>3, <2>4 DEF ClientTypes, PC
  <2>6. Position(c)'
    BY <1>1, <2>2, <2>3, <2>4 DEF Position, ClientTypes
  <2>7. ~damaged => Setup(c)'
    BY <1>1, <2>2, <2>3 DEF Setup
  <2> QED
    BY <1>2, <1>3, <2>2, <2>5, <2>6, <2>7, LocalInd
<1> QED
  BY <1>4, <1>5

LEMMA MountInd ==
    ASSUME LogInd, PinInv', NEW c \in Clients, Mount(c)
    PROVE  LogInd'
<1>1. /\ LogTypes /\ Shaped /\ pc[c] = "done" /\ RootOnly
      /\ Len(channel) \in Nat
  BY Parts DEF Mount, At
<1>2. UNCHANGED <<discordVars, damaged, posts>> /\ UNCHANGED starts
  BY DEF Mount
<1>3. /\ everPinned /\ starts' \in 0..MaxStarts /\ channel' = channel
  BY <1>1, <1>2 DEF RootOnly, LogTypes, discordVars
<1>4. /\ \A d \in Clients \ {c} : Same(d)
      /\ Shaped'
  BY <1>1 DEF Mount, Forget, Goto, Shaped, Same
<1>5. /\ pc'[c] = "live" /\ pinned'[c] = 0 /\ upto'[c] = 0 /\ db'[c] = NewDB
      /\ buffer'[c] = <<>> /\ first'[c] = 0 /\ partial'[c] = FALSE
      /\ begun'[c] = 0
  BY <1>1 DEF Mount, Forget, Goto, Shaped
<1>6. ClientTypes(c)'
  <2>1. <<>> \in Seq(Tx) /\ NewDB \in Trees /\ 0 \in 0..Len(channel')
    BY <1>1, <1>3, RootIs
  <2> QED
    BY <1>5, <2>1, Zenon DEF ClientTypes, PC
<1>7. Position(c)' /\ Setup(c)'
  BY <1>5 DEF Position, Setup
<1> QED
  BY <1>2, <1>3, <1>4, <1>6, <1>7, LocalInd

LEMMA ApplyInd ==
    ASSUME LogInd, PinInv', NEW c \in Clients, Apply(c)
    PROVE  LogInd'
<1>1. /\ LogTypes /\ Shaped /\ ClientTypes(c) /\ Position(c) /\ Sound
      /\ first[c] = 0 /\ pc[c] = "apply" /\ RootOnly
      /\ (~damaged => Setup(c)) /\ channel \in Seq(Message)
      /\ Len(channel) \in Nat /\ DOMAIN channel = 1..Len(channel)
  BY Parts DEF Apply, At, LogTypes
<1>2. UNCHANGED <<discordVars, damaged, posts>> /\ UNCHANGED starts
  BY DEF Apply
<1>3. /\ everPinned /\ starts' \in 0..MaxStarts /\ channel' = channel
  BY <1>1, <1>2 DEF RootOnly, LogTypes, discordVars
<1> DEFINE ids == pinned[c]..upto[c]
<1>4. PICK skip \in SUBSET ids :
         LET msgs == Fetched(ids \ skip)
             lines == IF c \in Compacting THEN Concatenated(msgs, upto[c])
                      ELSE <<>>
         IN /\ db' = [db EXCEPT ![c] = Applied(msgs)]
            /\ buffer' = [buffer EXCEPT ![c] = lines]
            /\ partial' = [partial EXCEPT ![c] = (skip # {})]
            /\ Goto(c, IF lines # <<>> THEN "compact" ELSE "done")
  <2>1. (IF "fetch" \in Faults THEN SUBSET ids ELSE {{}}) \subseteq SUBSET ids
    OBVIOUS
  <2> QED
    BY <2>1, Zenon DEF Apply
<1> DEFINE N == upto[c]
           msgs == Fetched(ids \ skip)
           lines == IF c \in Compacting THEN Concatenated(msgs, N) ELSE <<>>
           l == IF lines # <<>> THEN "compact" ELSE "done"
<1>5. /\ db' = [db EXCEPT ![c] = Applied(msgs)]
      /\ buffer' = [buffer EXCEPT ![c] = lines]
      /\ partial' = [partial EXCEPT ![c] = (skip # {})]
      /\ Goto(c, l)
  BY <1>4, Zenon
<1>6. /\ N \in 1..Len(channel) /\ N \in Nat
      /\ pinned[c] \in 1..N /\ begun[c] <= N /\ begun[c] \in Nat
      /\ ids \subseteq 1..N
  BY <1>1 DEF ClientTypes, Position
<1>7. /\ msgs \in Lines(N)
      /\ msgs = [k \in ids \ skip |-> Scanned(channel[k].lines)]
  <2> DEFINE D == ids \ skip
             f == [k \in D |-> Scanned(channel[k].lines)]
  <2>1. D \subseteq 1..N
    BY <1>6
  <2>2. \A k \in D : Scanned(channel[k].lines) \in Seq(Tx)
    BY <1>1, <1>6, MessageAt
  <2> HIDE DEF D
  <2>3. f \in [D -> Seq(Tx)]
    BY <2>2
  <2>4. f \in Lines(N)
    BY <1>6, <2>1, <2>3, LinesDef
  <2> QED
    BY <2>4 DEF Fetched, D
<1> HIDE DEF msgs, N
<1>8. /\ Applied(msgs) \in Trees
      /\ Concatenated(msgs, N) \in Seq(Tx)
      /\ Overlay(NewDB, Concatenated(msgs, N)) = Applied(msgs)
      /\ (\A k \in DOMAIN msgs : NoLong(msgs[k])) =>
            NoLong(Concatenated(msgs, N))
  BY <1>6, <1>7, AppliedTyped, ConcatenatedApplied
<1>9. lines \in Seq(Tx)
  BY <1>8
<1>10. /\ l \in {"compact", "done"}
       /\ l = "compact" => lines = Concatenated(msgs, N)
  OBVIOUS
<1> HIDE DEF lines, l
<1>11. UNCHANGED <<pinned, upto, first, begun>>
  BY DEF Apply
<1>12. /\ \A d \in Clients \ {c} : Same(d)
       /\ Shaped'
       /\ pc'[c] = l /\ db'[c] = Applied(msgs) /\ buffer'[c] = lines
       /\ partial'[c] = (skip # {})
  BY <1>1, <1>5, <1>11 DEF Goto, Shaped, Same
<1>13. ClientTypes(c)'
  BY <1>1, <1>3, <1>8, <1>9, <1>10, <1>11, <1>12 DEF ClientTypes, PC
<1>14. Position(c)'
  BY <1>10, <1>12 DEF Position
<1>15. ASSUME ~damaged
       PROVE  Setup(c)'
  <2>1. GoodStart(channel, pinned[c]) /\ \A k \in 1..Len(channel) :
            NoLong(channel[k].lines)
    BY <1>1, <1>15 DEF Setup, Sound
  <2>2. ASSUME skip = {}
        PROVE  Applied(msgs) = TreeOf(channel, N)
    <3>1. msgs = Readings(channel, pinned[c], N)
      BY <1>7, <2>2 DEF Readings, N
    <3>2. N \in pinned[c]..Len(channel)
      BY <1>1, <1>6
    <3> QED
      BY <2>1, <3>1, <3>2 DEF GoodStart, ReplayOf
  <2>3. \A k \in DOMAIN msgs : NoLong(msgs[k])
    <3>1. ASSUME NEW k \in ids \ skip
          PROVE  NoLong(Scanned(channel[k].lines))
      <4>1. k \in 1..Len(channel)
        BY <1>1, <1>6
      <4>2. NoLong(channel[k].lines) /\ channel[k].lines \in Seq(Tx)
        BY <1>1, <2>1, <4>1, MessageAt
      <4> QED
        BY <4>2, ScannedTyped
    <3> QED
      BY <1>7, <3>1
  <2>4. N \in begun[c]..Len(channel)
    BY <1>1, <1>6
  <2>5. pc'[c] \in {"compact", "done"} /\ first'[c] = 0 /\ upto'[c] = N
        /\ begun'[c] = begun[c]
    BY <1>1, <1>10, <1>11, <1>12 DEF N
  <2>6. ASSUME ~partial'[c]
        PROVE  db'[c] = TreeOf(channel', N)
    BY <1>3, <1>12, <2>2, <2>6
  <2>7. ASSUME pc'[c] = "compact"
        PROVE  NoLong(buffer'[c]) /\ Overlay(NewDB, buffer'[c]) = db'[c]
    BY <1>8, <1>10, <1>12, <2>3, <2>7
  <2>8. ~partial'[c] =>
            \E n \in begun'[c]..Len(channel') : db'[c] = TreeOf(channel', n)
    BY <1>3, <2>4, <2>5, <2>6
  <2> QED
    BY <2>5, <2>6, <2>7, <2>8 DEF Setup
<1> QED
  BY <1>2, <1>3, <1>12, <1>13, <1>14, <1>15, LocalInd

(* A step that posts a message.                                            *)
LEMMA PostInd ==
    ASSUME LogInd, PinInv', NEW c \in Clients,
           \A d \in Clients \ {c} : Same(d), Shaped',
           NEW msg \in Message, channel' = Append(channel, msg),
           UNCHANGED <<pins, everPinned, starts>>,
           posts' \in 0..MaxPosts, damaged' \in BOOLEAN,
           ClientTypes(c)', Position(c)', RootOnly',
           ~damaged' =>
                /\ ~damaged /\ NoLong(msg.lines)
                /\ msg.copy => Overlay(NewDB, msg.lines) =
                                 TreeOf(channel, Len(channel))
                /\ Setup(c)'
    PROVE  LogInd'
<1>1. LogTypes /\ Sound /\ channel \in Seq(Message)
  BY Parts DEF LogTypes
<1>2. /\ Kept(channel, channel') /\ channel' \in Seq(Message)
      /\ Len(channel') = Len(channel) + 1 /\ Len(channel) \in Nat
      /\ DOMAIN channel \subseteq DOMAIN channel'
      /\ channel'[Len(channel')] = msg
      /\ \A k \in 1..Len(channel) : channel'[k] = channel[k]
  BY <1>1, LogKept, AppendTo DEF Extends
<1>3. LogTypes'
  BY <1>1, <1>2 DEF LogTypes
<1>4. ASSUME ~damaged'
      PROVE  /\ ~damaged
             /\ \A k \in DOMAIN channel' : NoLong(channel'[k].lines)
             /\ \A m : GoodStart(channel, m) => GoodStart(channel', m)
             /\ \A m \in pins' : GoodStart(channel', m)
             /\ Setup(c)'
  <2>1. \A m : GoodStart(channel, m) => GoodStart(channel', m)
    BY <1>1, <1>4, GoodStays
  <2>2. \A k \in DOMAIN channel' :
            \/ k = Len(channel')
            \/ k \in DOMAIN channel /\ k \in 1..Len(channel)
    BY <1>1, <1>2
  <2>3. \A k \in DOMAIN channel' : NoLong(channel'[k].lines)
    BY <1>1, <1>2, <1>4, <2>2 DEF Sound
  <2> QED
    BY <1>1, <1>4, <2>1, <2>3 DEF Sound
<1> QED
  BY <1>2, <1>3, <1>4, ClientStep

LEMMA SendTxInd ==
    ASSUME LogInd, PinInv', NEW c \in Clients, SendTx(c)
    PROVE  LogInd'
<1>1. /\ LogTypes /\ Shaped /\ ClientTypes(c) /\ first[c] = 0
      /\ pc[c] = "live" /\ RootOnly /\ channel \in Seq(Message)
      /\ Len(channel) \in Nat
  BY Parts DEF SendTx, At, LogTypes
<1>2. PICK lines \in Batches : /\ channel' = Posted(lines, FALSE)
                               /\ damaged' = (damaged \/ TooLong(lines))
  BY DEF SendTx
<1> DEFINE msg == [lines |-> lines, copy |-> FALSE]
<1>3. /\ lines \in Seq(Tx) /\ msg \in Message /\ msg.lines = lines
      /\ ~msg.copy /\ channel' = Append(channel, msg)
  BY <1>2, TxLogConstants DEF Posted, Message
<1> HIDE DEF msg
<1>4. UNCHANGED <<pins, everPinned, starts>>
      /\ UNCHANGED <<pc, pinned, upto, db, buffer, first, partial, begun>>
  BY DEF SendTx, localVars
<1>5. posts' \in 0..MaxPosts /\ damaged' \in BOOLEAN
  BY <1>1, <1>2, TxLogConstants DEF SendTx, LogTypes, TooLong
<1>6. Shaped' /\ \A d \in Clients : Same(d)
  BY <1>1, <1>4 DEF Shaped, Same
<1>7. Kept(channel, channel')
  BY <1>1, <1>3, LogKept
<1>8. ClientTypes(c)'
  BY <1>1, <1>6, <1>7, OtherTypes
<1>9. Position(c)' /\ Setup(c)'
  BY <1>1, <1>6 DEF Position, Setup, Same
<1>10. RootOnly'
  BY <1>1, <1>4 DEF RootOnly
<1>11. ~damaged' => ~damaged /\ NoLong(msg.lines)
  BY <1>2, <1>3, ScannedTyped
<1> QED
  BY <1>3, <1>4, <1>5, <1>6, <1>8, <1>9, <1>10, <1>11, PostInd

(* A root folder after root folders, or a message before any pin.          *)
LEMMA RootPosted ==
    ASSUME channel \in Seq(Message), RootOnly,
           channel' = Append(channel, RootMessage),
           UNCHANGED <<pins, everPinned>>,
           \A c \in Clients : pc'[c] \in {"off", "root", "pinroot"} \/
                              pc'[c] = pc[c]
    PROVE  RootOnly'
<1>1. SUFFICES ASSUME ~everPinned
               PROVE  RootOnly'
  BY DEF RootOnly
<1>2. /\ pins = {}
      /\ \A n \in 1..Len(channel) : TreeOf(channel, n) = RootTree
      /\ \A m \in DOMAIN channel : GoodStart(channel, m)
      /\ \A c \in Clients : pc[c] \in {"off", "root", "pinroot"}
  BY <1>1 DEF RootOnly
<1> DEFINE n == Len(channel)
<1>3. /\ RootMessage \in Message /\ NoLong(RootMessage.lines)
      /\ ~RootMessage.copy /\ RootMessage.lines = <<RootLine>>
  BY RootIs DEF RootMessage
<1>4. /\ Kept(channel, channel') /\ n \in Nat /\ Len(channel') = n + 1
      /\ DOMAIN channel' = 1..(n + 1) /\ DOMAIN channel = 1..n
      /\ n + 1 \in DOMAIN channel' /\ channel' \in Seq(Message)
  BY <1>3, AppendTo, LogKept
<1>5. /\ TreeOf(channel', n + 1) = Overlay(TreeOf(channel, n), <<RootLine>>)
      /\ ReplayOf(channel', n + 1, n + 1) = Overlay(NewDB, <<RootLine>>)
  BY <1>3, AfterAppend
<1> HIDE DEF n
<1>6. TreeOf(channel, n) \in {NewDB, RootTree}
  <2>1. CASE n = 0
    <3>1. DOMAIN Operations(channel, 0) = {}
      BY DEF Operations
    <3>2. TreeOf(channel, 0) = NewDB
      BY <3>1, AppliedNothing DEF TreeOf
    <3> QED
      BY <2>1, <3>2
  <2>2. CASE n # 0
    BY <1>2, <1>4, <2>2 DEF n
  <2> QED
    BY <2>1, <2>2
<1>7. TreeOf(channel', n + 1) = RootTree
  BY <1>5, <1>6, RootIs
<1>8. ASSUME NEW k \in 1..Len(channel')
      PROVE  TreeOf(channel', k) = RootTree
  <2>1. CASE k = n + 1
    BY <1>7, <2>1
  <2>2. CASE k # n + 1
    <3>1. k \in 1..n /\ k \in 0..Len(channel)
      BY <1>4, <2>2 DEF n
    <3>2. TreeOf(channel', k) = TreeOf(channel, k)
      BY <1>4, <3>1, PrefixKept DEF Kept
    <3> QED
      BY <1>2, <3>1, <3>2 DEF n
  <2> QED
    BY <2>1, <2>2
<1>9. ASSUME NEW m \in DOMAIN channel'
      PROVE  GoodStart(channel', m)
  <2>1. CASE m = n + 1
    <3>1. (n + 1)..Len(channel') = {n + 1}
      BY <1>4
    <3>2. ReplayOf(channel', n + 1, n + 1) = TreeOf(channel', n + 1)
      BY <1>5, <1>7, RootIs
    <3> QED
      BY <1>4, <2>1, <3>1, <3>2 DEF GoodStart
  <2>2. CASE m # n + 1
    <3>1. m \in DOMAIN channel
      BY <1>4, <2>2
    <3> QED
      BY <1>2, <1>3, <3>1, GoodStays
  <2> QED
    BY <2>1, <2>2
<1> QED
  BY <1>2, <1>8, <1>9 DEF RootOnly

LEMMA SendRootInd ==
    ASSUME LogInd, PinInv', NEW c \in Clients, SendRoot(c)
    PROVE  LogInd'
<1>1. /\ LogTypes /\ Shaped /\ ClientTypes(c) /\ Position(c) /\ first[c] = 0
      /\ pc[c] = "root" /\ RootOnly /\ channel \in Seq(Message)
      /\ Len(channel) \in Nat
  BY Parts DEF SendRoot, At, LogTypes
<1>2. /\ UNCHANGED <<pins, everPinned, starts>>
      /\ UNCHANGED damaged /\ UNCHANGED posts
  BY DEF SendRoot
<1>3. /\ posts' \in 0..MaxPosts /\ damaged' \in BOOLEAN
      /\ starts' \in 0..MaxStarts
  BY <1>1, <1>2 DEF LogTypes
<1>4. /\ RootMessage \in Message /\ NoLong(RootMessage.lines)
      /\ ~RootMessage.copy
      /\ Posted(<<RootLine>>, FALSE) = Append(channel, RootMessage)
  BY RootIs DEF RootMessage, Posted
<1>5. CASE Exit(c) /\ UNCHANGED channel
  <2>1. UNCHANGED <<discordVars, damaged, posts>> /\ Len(channel') \in Nat
    BY <1>1, <1>2, <1>5 DEF discordVars
  <2> QED
    BY <1>3, <1>5, <2>1, ExitInd, LocalInd
<1>6. CASE Exit(c) /\ channel' = Append(channel, RootMessage)
  <2>1. Len(channel') \in Nat
    BY <1>1, <1>4, <1>6, AppendTo
  <2>2. /\ \A d \in Clients \ {c} : Same(d)
        /\ Shaped' /\ ClientTypes(c)' /\ Position(c)' /\ Setup(c)'
        /\ pc'[c] = "off"
    BY <1>6, <2>1, ExitInd
  <2>3. RootOnly'
    <3>1. \A d \in Clients : pc'[d] \in {"off", "root", "pinroot"} \/
                             pc'[d] = pc[d]
      BY <2>2 DEF Same
    <3> QED
      BY <1>1, <1>2, <1>6, <3>1, RootPosted
  <2> QED
    BY <1>2, <1>3, <1>4, <1>6, <2>2, <2>3, PostInd
<1>7. CASE /\ channel' = Append(channel, RootMessage)
           /\ Goto(c, "pinroot")
           /\ pinned' = [pinned EXCEPT ![c] = Len(channel) + 1]
           /\ db' = [db EXCEPT ![c][Root] = RootLine.entry]
           /\ UNCHANGED <<upto, buffer, first, partial, begun>>
  <2>1. /\ Len(channel') = Len(channel) + 1
        /\ Len(channel) + 1 \in DOMAIN channel'
        /\ Kept(channel, channel')
    BY <1>1, <1>4, <1>7, AppendTo, LogKept
  <2>2. db[c] = NewDB /\ [db[c] EXCEPT ![Root] = RootLine.entry] = RootTree
    BY <1>1 DEF Position, RootTree
  <2>3. db' = [db EXCEPT ![c] = RootTree]
    BY <1>7, <2>2
  <2>4. /\ \A d \in Clients \ {c} : Same(d)
        /\ Shaped'
        /\ pc'[c] = "pinroot" /\ pinned'[c] = Len(channel) + 1
        /\ db'[c] = RootTree
        /\ UNCHANGED <<upto, buffer, first, partial, begun>>
    BY <1>1, <1>7, <2>3 DEF Goto, Shaped, Same
  <2>5. ClientTypes(c)'
    <3>1. /\ Len(channel) + 1 \in 0..Len(channel')
          /\ \A k \in 0..Len(channel) : k \in 0..Len(channel')
      BY <1>1, <2>1
    <3> QED
      BY <1>1, <2>4, <3>1, RootIs DEF ClientTypes, PC
  <2>6. Position(c)' /\ Setup(c)'
    BY <1>1, <2>1, <2>4 DEF Position, Setup
  <2>7. RootOnly'
    <3>1. \A d \in Clients : pc'[d] \in {"off", "root", "pinroot"} \/
                             pc'[d] = pc[d]
      BY <2>4 DEF Same
    <3> QED
      BY <1>1, <1>2, <1>7, <3>1, RootPosted
  <2> QED
    BY <1>2, <1>3, <1>4, <1>7, <2>4, <2>5, <2>6, <2>7, PostInd
<1> QED
  BY <1>4, <1>5, <1>6, <1>7 DEF SendRoot, Call

(* A step that pins or unpins.                                             *)
LEMMA PinsInd ==
    ASSUME LogInd, PinInv', NEW c \in Clients,
           \A d \in Clients \ {c} : Same(d), Shaped',
           UNCHANGED <<channel, starts, posts>>,
           pins' \subseteq DOMAIN channel, everPinned' = TRUE,
           damaged' \in BOOLEAN, ClientTypes(c)', Position(c)',
           ~damaged' => /\ ~damaged /\ \A m \in pins' : GoodStart(channel, m)
                        /\ Setup(c)'
    PROVE  LogInd'
<1>1. LogTypes /\ Sound
  BY Parts
<1>2. LogTypes'
  BY <1>1 DEF LogTypes
<1>3. Kept(channel, channel')
  BY <1>1, LogKept DEF LogTypes
<1>4. RootOnly'
  BY DEF RootOnly
<1>5. ~damaged' =>
        /\ ~damaged
        /\ \A k \in DOMAIN channel' : NoLong(channel'[k].lines)
        /\ \A m : GoodStart(channel, m) => GoodStart(channel', m)
        /\ \A m \in pins' : GoodStart(channel', m)
        /\ Setup(c)'
  BY <1>1 DEF Sound
<1> QED
  BY <1>2, <1>3, <1>4, <1>5, ClientStep

LEMMA PinRootInd ==
    ASSUME LogInd, PinInv', NEW c \in Clients, PinRoot(c)
    PROVE  LogInd'
<1>1. /\ LogTypes /\ Shaped /\ ClientTypes(c) /\ Position(c) /\ Sound
      /\ first[c] = 0 /\ pc[c] = "pinroot" /\ RootOnly
      /\ Len(channel) \in Nat /\ DOMAIN channel = 1..Len(channel)
      /\ everPinned => pins # {}
  BY Parts DEF PinRoot, At
<1>2. UNCHANGED channel /\ UNCHANGED <<channel, starts, posts>>
  BY DEF PinRoot
<1>3. /\ starts' \in 0..MaxStarts /\ Len(channel') \in Nat
      /\ pinned[c] \in DOMAIN channel /\ db[c] = RootTree
  BY <1>1, <1>2 DEF LogTypes, Position
<1> DEFINE Effect == /\ pins' = pins \cup {pinned[c]}
                     /\ everPinned' = TRUE
                     /\ damaged' = (damaged \/ pins # {})
<1>4. CASE Exit(c) /\ UNCHANGED <<pins, everPinned, damaged>>
  <2>1. UNCHANGED <<discordVars, damaged, posts>>
    BY <1>2, <1>4 DEF discordVars
  <2> QED
    BY <1>3, <1>4, <2>1, ExitInd, LocalInd
<1>5. ASSUME Effect
      PROVE  /\ pins' \subseteq DOMAIN channel /\ damaged' \in BOOLEAN
             /\ ~damaged' => /\ ~damaged /\ ~everPinned
                             /\ \A m \in pins' : GoodStart(channel, m)
  <2>1. pins' \subseteq DOMAIN channel /\ damaged' \in BOOLEAN
    BY <1>1, <1>3, <1>5 DEF LogTypes
  <2>2. ASSUME ~damaged'
        PROVE  ~damaged /\ ~everPinned /\ pins' = {pinned[c]}
    BY <1>1, <1>5, <2>2
  <2> QED
    BY <1>1, <1>3, <2>1, <2>2 DEF RootOnly
<1>6. CASE Exit(c) /\ Effect
  <2>1. /\ \A d \in Clients \ {c} : Same(d)
        /\ Shaped' /\ ClientTypes(c)' /\ Position(c)' /\ Setup(c)'
    BY <1>3, <1>6, ExitInd
  <2> QED
    BY <1>2, <1>5, <1>6, <2>1, PinsInd
<1>7. CASE Effect /\ Goto(c, "done") /\ UNCHANGED localVars
  <2>1. UNCHANGED <<pinned, upto, db, buffer, first, partial, begun>>
    BY <1>7 DEF localVars
  <2>2. /\ \A d \in Clients \ {c} : Same(d)
        /\ Shaped' /\ pc'[c] = "done"
    BY <1>1, <1>7, <2>1 DEF Goto, Shaped, Same
  <2>3. ClientTypes(c)' /\ Position(c)'
    BY <1>1, <1>2, <2>1, <2>2 DEF ClientTypes, Position, PC
  <2>4. ASSUME ~damaged'
        PROVE  Setup(c)'
    <3>1. ~everPinned /\ Len(channel) \in 1..Len(channel)
      BY <1>1, <1>3, <1>5, <1>7, <2>4
    <3>2. db[c] = TreeOf(channel, Len(channel))
      BY <1>1, <1>3, <3>1 DEF RootOnly
    <3>3. Len(channel) \in begun[c]..Len(channel)
      BY <1>1 DEF ClientTypes
    <3> QED
      BY <1>1, <1>2, <2>1, <2>2, <3>2, <3>3 DEF Setup
  <2> QED
    BY <1>2, <1>5, <1>7, <2>2, <2>3, <2>4, PinsInd
<1> QED
  BY <1>4, <1>6, <1>7 DEF PinRoot, Call

(* A client that only moves on, from "pin" or "unpin".                     *)
LEMMA MovesOn ==
    ASSUME LogInd, NEW c \in Clients, pc[c] \in {"compact", "pin", "unpin"},
           NEW l \in {"unpin", "done"}, Goto(c, l),
           UNCHANGED <<pinned, upto, db, buffer, first, partial, begun>>,
           UNCHANGED channel
    PROVE  /\ \A d \in Clients \ {c} : Same(d)
           /\ Shaped' /\ ClientTypes(c)' /\ Position(c)'
           /\ ~damaged => Setup(c)'
<1>1. Shaped /\ ClientTypes(c) /\ (~damaged => Setup(c))
  BY Parts
<1>2. /\ \A d \in Clients \ {c} : Same(d)
      /\ Shaped' /\ pc'[c] = l
  BY <1>1 DEF Goto, Shaped, Same
<1>3. ClientTypes(c)' /\ Position(c)'
  BY <1>1, <1>2 DEF ClientTypes, Position, PC
<1>4. ~damaged => Setup(c)'
  BY <1>1, <1>2 DEF Setup
<1> QED
  BY <1>2, <1>3, <1>4

LEMMA PinInd ==
    ASSUME LogInd, PinInv', NEW c \in Clients, Pin(c)
    PROVE  LogInd'
<1>1. /\ LogTypes /\ ClientTypes(c) /\ Sound /\ (~damaged => Setup(c))
      /\ first[c] # 0 /\ pc[c] = "pin" /\ RootOnly
      /\ Len(channel) \in Nat /\ DOMAIN channel = 1..Len(channel)
  BY Parts DEF Pin, At
<1>2. /\ UNCHANGED channel /\ UNCHANGED <<channel, starts, posts>>
      /\ UNCHANGED damaged
      /\ UNCHANGED <<pinned, upto, db, buffer, first, partial, begun>>
  BY DEF Pin, localVars
<1>3. everPinned /\ first[c] \in DOMAIN channel
  BY <1>1 DEF RootOnly, ClientTypes
<1>4. PICK l \in {"unpin", "done"} : Goto(c, l)
  BY DEF Pin, Call
<1>5. pins' \subseteq pins \cup {first[c]} /\ everPinned' = TRUE
  BY <1>1, <1>3 DEF Pin, Call, LogTypes
<1>6. /\ \A d \in Clients \ {c} : Same(d)
      /\ Shaped' /\ ClientTypes(c)' /\ Position(c)'
      /\ ~damaged => Setup(c)'
  BY <1>1, <1>2, <1>4, MovesOn
<1>7. pins' \subseteq DOMAIN channel /\ damaged' \in BOOLEAN
  BY <1>1, <1>2, <1>3, <1>5 DEF LogTypes
<1>8. ~damaged' => \A m \in pins' : GoodStart(channel, m)
  BY <1>1, <1>2, <1>5 DEF Sound, Setup
<1> QED
  BY <1>2, <1>5, <1>6, <1>7, <1>8, PinsInd

LEMMA UnpinInd ==
    ASSUME LogInd, PinInv', NEW c \in Clients, Unpin(c)
    PROVE  LogInd'
<1>1. /\ LogTypes /\ Sound /\ pc[c] = "unpin" /\ RootOnly
  BY Parts DEF Unpin, At
<1>2. /\ UNCHANGED channel /\ UNCHANGED <<channel, starts, posts>>
      /\ UNCHANGED damaged
      /\ UNCHANGED <<pinned, upto, db, buffer, first, partial, begun>>
  BY DEF Unpin, localVars
<1>3. everPinned /\ everPinned' = TRUE
  BY <1>1 DEF RootOnly, Unpin, LogTypes
<1>4. Goto(c, "done") /\ pins' \subseteq pins
  BY DEF Unpin, Call
<1>5. /\ \A d \in Clients \ {c} : Same(d)
      /\ Shaped' /\ ClientTypes(c)' /\ Position(c)'
      /\ ~damaged => Setup(c)'
  BY <1>1, <1>2, <1>4, MovesOn
<1>6. pins' \subseteq DOMAIN channel /\ damaged' \in BOOLEAN
  BY <1>1, <1>2, <1>4 DEF LogTypes
<1>7. ~damaged' => \A m \in pins' : GoodStart(channel, m)
  BY <1>1, <1>2, <1>4 DEF Sound
<1> QED
  BY <1>2, <1>3, <1>5, <1>6, <1>7, PinsInd

(* A chunk, and the lines after it.                                        *)
LEMMA ChunkIs ==
    ASSUME NEW b \in Seq(Tx)
    PROVE  /\ Chunk(b) \in Seq(Tx) /\ AfterChunk(b) \in Seq(Tx)
           /\ ~(Len(b) > ChunkLines) => Chunk(b) = b /\ AfterChunk(b) = <<>>
<1> DEFINE S == {ChunkLines, Len(b)}
           n == Min(S)
<1>0. \A i \in Nat : 1 <= i /\ i <= Len(b) => b[i] \in Tx
  OBVIOUS
<1>1. ChunkLines \in Nat /\ ChunkLines >= 1 /\ Len(b) \in Nat
  BY TxLogConstants
<1>2. PICK x \in S : \A y \in S : x <= y
  <2>1. S \in SUBSET Nat /\ S # {}
    BY <1>1
  <2> HIDE DEF S
  <2> QED
    BY <2>1, LeastElement
<1>3. n \in S /\ \A y \in S : n <= y
  BY <1>2, Zenon DEF Min
<1>4. n \in Nat /\ n <= Len(b) /\ n <= ChunkLines
      /\ (n = Len(b) \/ n = ChunkLines)
  BY <1>1, <1>3
<1>5. Chunk(b) = SubSeq(b, 1, n)
  BY DEF Chunk
<1> HIDE DEF n
<1>6. Chunk(b) \in Seq(Tx)
  <2>1. ASSUME NEW i \in 1..n
        PROVE  b[i] \in Tx
    <3>1. i \in Nat /\ 1 <= i /\ i <= Len(b)
      BY ONLY <1>1, <1>4, i \in 1..n
    <3> QED
      BY <1>0, <3>1
  <2>2. 1 \in Int /\ n \in Int
    BY <1>4
  <2> QED
    BY <1>5, <2>1, <2>2, SubSeqProperties
<1>7. /\ AfterChunk(b) \in Seq(Tx)
      /\ Len(AfterChunk(b)) = IF ChunkLines + 2 <= Len(b)
                              THEN Len(b) - (ChunkLines + 2) + 1 ELSE 0
  <2> DEFINE m == ChunkLines + 2
  <2>1. m \in Nat /\ m >= 1 /\ m \in Int /\ Len(b) \in Int
    BY ONLY <1>1
  <2> HIDE DEF m
  <2>2. ASSUME NEW i \in m..Len(b)
        PROVE  b[i] \in Tx
    <3>1. i \in Nat /\ 1 <= i /\ i <= Len(b)
      BY ONLY <1>1, <2>1, i \in m..Len(b)
    <3> QED
      BY <1>0, <3>1
  <2>3. /\ SubSeq(b, m, Len(b)) \in Seq(Tx)
        /\ Len(SubSeq(b, m, Len(b))) =
             IF m <= Len(b) THEN Len(b) - m + 1 ELSE 0
    BY <2>1, <2>2, SubSeqProperties
  <2> QED
    BY <2>3 DEF m, AfterChunk
<1>8. ASSUME ~(Len(b) > ChunkLines)
      PROVE  Chunk(b) = b /\ AfterChunk(b) = <<>>
  <2>1. n = Len(b) /\ ~(ChunkLines + 2 <= Len(b))
    BY ONLY <1>1, <1>4, <1>8
  <2>2. Chunk(b) = b
    BY <1>5, <2>1, SubSeqFull
  <2>3. AfterChunk(b) = <<>>
    BY <1>7, <2>1
  <2> QED
    BY <2>2, <2>3
<1> QED
  BY <1>6, <1>7, <1>8

LEMMA FlushInd ==
    ASSUME LogInd, PinInv', NEW c \in Clients, Flush(c)
    PROVE  LogInd'
<1>1. /\ LogTypes /\ Shaped /\ ClientTypes(c) /\ Position(c)
      /\ (~damaged => Setup(c)) /\ pc[c] = "compact" /\ RootOnly
      /\ channel \in Seq(Message)
      /\ Len(channel) \in Nat /\ DOMAIN channel = 1..Len(channel)
  BY Parts DEF Flush, At, LogTypes
<1>2. /\ UNCHANGED <<pins, everPinned, starts>> /\ UNCHANGED posts
      /\ UNCHANGED <<pinned, upto, db, partial, begun>>
  BY DEF Flush
<1>3. /\ starts' \in 0..MaxStarts /\ posts' \in 0..MaxPosts /\ everPinned
      /\ damaged \in BOOLEAN
  BY <1>1, <1>2 DEF RootOnly, LogTypes
<1> DEFINE b == buffer[c]
           msg == [lines |-> Chunk(b), copy |-> TRUE]
           f == IF first[c] = 0 THEN Len(channel) + 1 ELSE first[c]
           l == IF AfterChunk(b) = <<>> THEN "pin" ELSE "compact"
           Effect == /\ channel' = Append(channel, msg)
                     /\ damaged' = (damaged \/ Loses(c))
           NoEffect == UNCHANGED <<channel, damaged>>
           Then == /\ buffer' = [buffer EXCEPT ![c] = AfterChunk(b)]
                   /\ first' = [first EXCEPT ![c] = f]
                   /\ Goto(c, l)
           Error == Goto(c, "done") /\ UNCHANGED <<buffer, first>>
<1>4. \/ Effect /\ Then
      \/ Error /\ (Effect \/ NoEffect)
  BY DEF Flush, Call, Posted
<1>5. /\ b \in Seq(Tx) /\ Chunk(b) \in Seq(Tx) /\ AfterChunk(b) \in Seq(Tx)
      /\ ~(Len(b) > ChunkLines) => Chunk(b) = b /\ AfterChunk(b) = <<>>
  BY <1>1, ChunkIs DEF ClientTypes
<1>6. msg \in Message /\ msg.copy /\ msg.lines = Chunk(b)
  BY <1>5 DEF Message
<1>7. ASSUME Error
      PROVE  /\ UNCHANGED <<pinned, upto, db, buffer, first, partial, begun>>
             /\ \A d \in Clients \ {c} : Same(d)
             /\ Shaped' /\ pc'[c] = "done"
  <2>1. UNCHANGED <<pinned, upto, db, buffer, first, partial, begun>>
    BY <1>2, <1>7
  <2> QED
    BY <1>1, <1>7, <2>1 DEF Goto, Shaped, Same
<1>8. CASE Error /\ NoEffect
  <2>1. /\ UNCHANGED <<discordVars, damaged, posts>> /\ UNCHANGED channel
    BY <1>2, <1>8 DEF discordVars
  <2>2. /\ \A d \in Clients \ {c} : Same(d)
        /\ Shaped' /\ ClientTypes(c)' /\ Position(c)'
        /\ ~damaged => Setup(c)'
    BY <1>1, <1>7, <1>8, <2>1, MovesOn
  <2> QED
    BY <1>3, <2>1, <2>2, LocalInd
<1>9. ASSUME Effect
      PROVE  /\ damaged' \in BOOLEAN /\ Kept(channel, channel')
             /\ Len(channel') = Len(channel) + 1
             /\ ~damaged' =>
                   /\ ~damaged /\ ~partial[c] /\ NoLong(msg.lines)
                   /\ Overlay(NewDB, msg.lines) = TreeOf(channel, Len(channel))
                   /\ GoodStart(channel', Len(channel) + 1)
                   /\ \A m : GoodStart(channel, m) => GoodStart(channel', m)
                   /\ AfterChunk(b) = <<>>
                   /\ \E n \in begun[c]..Len(channel) :
                         db[c] = TreeOf(channel, n)
  <2>1. damaged' \in BOOLEAN /\ Kept(channel, channel')
    BY <1>1, <1>3, <1>6, <1>9, LogKept DEF Loses, ClientTypes
  <2>2. Len(channel') = Len(channel) + 1
    BY <1>1, <1>6, <1>9, AppendTo
  <2>3. ASSUME ~damaged'
        PROVE  /\ ~damaged /\ ~partial[c] /\ Chunk(b) = b
               /\ AfterChunk(b) = <<>>
               /\ upto[c] = Len(channel)
    BY <1>5, <1>9, <2>3 DEF Loses
  <2>4. ASSUME ~damaged'
        PROVE  /\ NoLong(msg.lines)
               /\ Overlay(NewDB, msg.lines) = TreeOf(channel, Len(channel))
               /\ \E n \in begun[c]..Len(channel) : db[c] = TreeOf(channel, n)
    BY <1>1, <1>6, <2>3, <2>4 DEF Setup
  <2>5. ASSUME ~damaged'
        PROVE  /\ GoodStart(channel', Len(channel) + 1)
               /\ \A m : GoodStart(channel, m) => GoodStart(channel', m)
    <3> HIDE DEF msg
    <3> QED
      BY <1>1, <1>6, <1>9, <2>4, <2>5, GoodStays
  <2> QED
    BY <2>1, <2>2, <2>3, <2>4, <2>5
<1> HIDE DEF msg, b
<1>10. ASSUME Effect, ~damaged'
       PROVE  \E n \in begun[c]..Len(channel') : db[c] = TreeOf(channel', n)
  <2>1. PICK n \in begun[c]..Len(channel) : db[c] = TreeOf(channel, n)
    BY <1>9, <1>10
  <2>2. n \in 0..Len(channel) /\ n \in begun[c]..Len(channel')
    BY <1>1, <1>9, <1>10 DEF ClientTypes
  <2>3. TreeOf(channel', n) = TreeOf(channel, n)
    BY <1>9, <1>10, <2>2, PrefixKept DEF Kept
  <2> QED
    BY <2>1, <2>2, <2>3
<1>11. RootOnly'
  BY <1>2, <1>3 DEF RootOnly
<1>12. CASE Error /\ Effect
  <2>1. ClientTypes(c)' /\ Position(c)'
    <3>1. \A k \in 0..Len(channel) : k \in 0..Len(channel')
      BY <1>1, <1>9, <1>12
    <3> QED
      BY <1>1, <1>7, <1>12, <3>1 DEF ClientTypes, Position, PC
  <2>2. ~damaged' => Setup(c)'
    BY <1>1, <1>7, <1>9, <1>10, <1>12 DEF Setup
  <2> QED
    BY <1>2, <1>3, <1>6, <1>7, <1>9, <1>11, <1>12, <2>1, <2>2, PostInd
<1>13. CASE Effect /\ Then
  <2>1. /\ \A d \in Clients \ {c} : Same(d)
        /\ Shaped' /\ pc'[c] = l /\ buffer'[c] = AfterChunk(b) /\ first'[c] = f
        /\ UNCHANGED <<pinned, upto, db, partial, begun>>
    BY <1>1, <1>2, <1>13 DEF Goto, Shaped, Same
  <2>2. ClientTypes(c)' /\ Position(c)'
    <3>1. /\ \A k \in 0..Len(channel) : k \in 0..Len(channel')
          /\ Len(channel) + 1 \in 0..Len(channel')
      BY <1>1, <1>9, <1>13
    <3>2. f \in 0..Len(channel') /\ l \in {"pin", "compact"}
      BY <1>1, <3>1 DEF ClientTypes
    <3> HIDE DEF f, l
    <3> QED
      BY <1>1, <1>5, <2>1, <3>1, <3>2 DEF ClientTypes, Position, PC
  <2>3. ASSUME ~damaged'
        PROVE  Setup(c)'
    <3>1. l = "pin" /\ GoodStart(channel', f)
      BY <1>1, <1>9, <1>13, <2>3 DEF Setup
    <3>2. \E n \in begun'[c]..Len(channel') : db'[c] = TreeOf(channel', n)
      BY <1>10, <1>13, <2>1, <2>3
    <3> QED
      BY <2>1, <3>1, <3>2 DEF Setup
  <2> QED
    BY <1>2, <1>3, <1>6, <1>9, <1>11, <1>13, <2>1, <2>2, <2>3, PostInd
<1> QED
  BY <1>4, <1>8, <1>12, <1>13

LEMMA LogIndInit == Init => LogInd
<1> SUFFICES ASSUME Init
             PROVE  LogInd
  OBVIOUS
<1>1. channel \in Seq(Message) /\ channel = History
  BY TxLogConstants DEF Init
<1>2. /\ Len(channel) \in Nat /\ DOMAIN channel = 1..Len(channel)
      /\ \A k \in DOMAIN channel : ~channel[k].copy
      /\ channel # <<>> => 1 \in DOMAIN channel
  BY <1>1, TxLogConstants
<1>3. /\ pins = IF channel = <<>> THEN {} ELSE {1}
      /\ everPinned = (channel # <<>>)
      /\ damaged = \E k \in DOMAIN channel : TooLong(channel[k].lines)
  BY <1>1 DEF Init
<1>4. LogTypes
  BY <1>1, <1>2, <1>3, TxLogConstants DEF Init, LogTypes
<1>5. ASSUME NEW c \in Clients
      PROVE  /\ pc[c] = "off" /\ pinned[c] = 0 /\ upto[c] = 0
             /\ db[c] = NewDB /\ buffer[c] = <<>> /\ first[c] = 0
             /\ partial[c] = FALSE /\ begun[c] = 0
  BY DEF Init
<1>6. Shaped
  BY DEF Init, Shaped
<1>7. ASSUME NEW c \in Clients
      PROVE  ClientTypes(c) /\ Position(c) /\ Setup(c)
  <2>1. <<>> \in Seq(Tx) /\ NewDB \in Trees /\ 0 \in 0..Len(channel)
    BY <1>2, RootIs
  <2>2. ClientTypes(c)
    BY <1>5, <2>1, Zenon DEF ClientTypes, PC
  <2> QED
    BY <1>5, <2>2 DEF Position, Setup
<1>8. RootOnly
  <2>1. CASE channel = <<>>
    <3>1. 1..Len(channel) = {}
      BY <2>1
    <3> QED
      BY <1>2, <1>3, <1>5, <2>1, <3>1 DEF RootOnly
  <2>2. CASE channel # <<>>
    BY <1>3, <2>2 DEF RootOnly
  <2> QED
    BY <2>1, <2>2
<1>9. Sound
  <2>1. ASSUME ~damaged
        PROVE  \A k \in DOMAIN channel : NoLong(channel[k].lines)
    BY <1>1, <1>2, <1>3, <2>1, MessageAt, ScannedTyped
  <2>2. ASSUME ~damaged, NEW m \in pins
        PROVE  GoodStart(channel, m)
    <3>1. m = 1 /\ channel # <<>>
      BY <1>3, <2>2
    <3> QED
      BY <1>1, <1>2, <2>1, <2>2, <3>1, GoodHistory
  <2> QED
    BY <1>7, <2>1, <2>2 DEF Sound
<1> QED
  BY <1>4, <1>6, <1>7, <1>8, <1>9, TypeParts, PinInvInit DEF LogInd

LEMMA LogIndStep == LogInd /\ [Next]_vars => LogInd'
<1> SUFFICES ASSUME LogInd, [Next]_vars
             PROVE  LogInd'
  OBVIOUS
<1>1. PinInv'
  BY PinInvStep DEF LogInd
<1>2. CASE Next
  BY <1>1, <1>2, StartInd, StopInd, SendTxInd, SendRootInd, PinRootInd,
     ReadPinsInd, PageInd, ApplyInd, FlushInd, PinInd, UnpinInd, MountInd
  DEF Next, setupDB
<1>3. CASE UNCHANGED vars
  <2>1. /\ UNCHANGED channel /\ UNCHANGED <<pins, everPinned, damaged>>
        /\ UNCHANGED <<pc, pinned, upto, db, buffer, first, partial, begun>>
        /\ UNCHANGED <<starts, posts>>
    BY <1>3 DEF vars
  <2>2. TypeOK'
    BY <2>1 DEF LogInd, TypeOK
  <2>3. RootOnly'
    BY <2>1 DEF LogInd, RootOnly
  <2>4. \A c \in Clients : Position(c)'
    BY <2>1 DEF LogInd, Position
  <2>5. Sound'
    BY <2>1 DEF LogInd, Sound, Setup
  <2> QED
    BY <1>1, <2>2, <2>3, <2>4, <2>5 DEF LogInd
<1> QED
  BY <1>2, <1>3

THEOREM TxLogInductive == Spec => []LogInd
BY LogIndInit, LogIndStep, PTL DEF Spec

(* Whatever pinned message the next start takes, between any two calls of  *)
(* a compaction and of anything else, it finds the tree that the           *)
(* operations made, unless one of the causes named at Loses has happened.  *)
THEOREM TxLogRestartSafe == Spec => []RestartSafe
<1>1. LogInd => RestartSafe
  <2> SUFFICES ASSUME LogInd, ~damaged, NEW m \in pins
               PROVE  ReplayFrom(m) = TreeAt(Len(channel))
    BY DEF RestartSafe
  <2>1. GoodStart(channel, m) /\ LogTypes
    BY TypeParts DEF LogInd, Sound
  <2>2. Len(channel) \in m..Len(channel)
    BY <2>1 DEF GoodStart, LogTypes
  <2>3. ReplayOf(channel, m, Len(channel)) = TreeOf(channel, Len(channel))
    BY <2>1, <2>2 DEF GoodStart
  <2> QED
    BY <2>3 DEF ReplayFrom, TreeAt, ReplayOf, TreeOf, Readings, Operations,
                Fetched
<1> QED
  BY <1>1, TxLogInductive, PTL

(* setupDB returns the tree as it was at some moment since it began.       *)
THEOREM TxLogSetup == Spec => []SetupGivesTree
<1>1. LogInd => SetupGivesTree
  <2> SUFFICES ASSUME LogInd, NEW c \in Clients, ~damaged, ~partial[c],
                      pc[c] \in {"compact", "pin", "unpin", "done"}
               PROVE  \E n \in begun[c]..Len(channel) : db[c] = TreeAt(n)
    BY DEF SetupGivesTree
  <2>1. \E n \in begun[c]..Len(channel) : db[c] = TreeOf(channel, n)
    BY DEF LogInd, Sound, Setup
  <2> QED
    BY <2>1 DEF TreeAt, TreeOf, Operations
<1> QED
  BY <1>1, TxLogInductive, PTL

(* The same, and the types: no start remembers a message that the channel  *)
(* does not have.                                                          *)
THEOREM TxLogSafety == Spec => []TxLogInv
<1>1. LogInd => TypeOK
  BY DEF LogInd
<1> QED
  BY <1>1, TxLogInductive, TxLogSetup, PTL DEF TxLogInv
=============================================================================

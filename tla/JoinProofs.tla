----------------------------- MODULE JoinProofs -----------------------------
(***************************************************************************)
(* That nothing falls between setupDB and messageCreate but what the code  *)
(* leaves in the gap, and that a client which has applied its messages in  *)
(* order shows the last, for any clients, accounts and channels found.     *)
(*                                                                         *)
(* Neither is inductive.  A message is before the client's start point,    *)
(* on a page it read (PagesRead), in the gap, or was sent as an event      *)
(* (Heard); and before a start point that is not the first message there   *)
(* is another one (PinsAreRoots).                                          *)
(***************************************************************************)
EXTENDS Join, TLAPS

Types ==
    /\ TypeOK
    /\ seen \in [Clients -> SUBSET Nat]
    /\ from \in [Clients -> Nat] /\ shows \in [Clients -> Nat]
    /\ upto \in [Clients -> Nat] /\ readyAt \in [Clients -> Nat]

(* What holds of the guild, whoever stopped in the middle of what.         *)
Guild ==
    /\ ~split => OneOfAName(channels)
    /\ \A k \in DOMAIN channels :
           channels[k].name = "tx" => PinsAreRoots(channels[k])

(* A channel is what its name says; after prepareChannels both are known.  *)
Found(c) ==
    /\ \A n \in Names : chosen[c][n] # 0 => channels[chosen[c][n]].name = n
    /\ Settled(c) => \A n \in Names : chosen[c][n] # 0

(* Before setupDB the database is empty.                                   *)
Fresh(c) ==
    ~Settled(c) => /\ seen[c] = {}
                   /\ from[c] = 0 /\ shows[c] = 0
                   /\ upto[c] = 0 /\ readyAt[c] = 0

(* setupDB has read the log from a start point to its last page.           *)
PagesRead(c) ==
    Settled(c) => /\ from[c] \in DOMAIN Log(c)
                  /\ Log(c)[from[c]].root
                  /\ from[c]..upto[c] \subseteq seen[c]

(* What was posted since the client is ready has reached it, is lost, or   *)
(* is its own account's.                                                   *)
Heard(c) ==
    /\ \A e \in events[c] : e.id \in DOMAIN channels[e.channel].log
    /\ pc[c] = "live" => \A id \in DOMAIN Log(c) :
        \/ id <= readyAt[c]
        \/ id \in seen[c]
        \/ [channel |-> Tx(c), id |-> id] \in events[c] \cup missed[c]
        \/ account[Log(c)[id].author] = account[c]

(* Applied in order, the last message applied is the youngest.             *)
InOrder(c) == late[c] \/ \A id \in seen[c] : id <= shows[c]

Client(c) ==
    Found(c) /\ Fresh(c) /\ PagesRead(c) /\ Heard(c) /\ InOrder(c)

JoinInd == Types /\ Guild /\ \A c \in Clients : Client(c)

-----------------------------------------------------------------------------
(* Types, but for what relates a client to its log.                        *)
Typed ==
    /\ account \in Accounts
    /\ channels \in Seq(Channel)
    /\ pc \in [Clients -> PC]
    /\ chosen \in [Clients -> [Names -> 0..Len(channels)]]
    /\ anew \in [Clients -> BOOLEAN]
    /\ events \in [Clients -> SUBSET Event]
    /\ missed \in [Clients -> SUBSET Event]
    /\ seen \in [Clients -> SUBSET Nat]
    /\ from \in [Clients -> Nat] /\ shows \in [Clients -> Nat]
    /\ upto \in [Clients -> Nat] /\ readyAt \in [Clients -> Nat]
    /\ late \in [Clients -> BOOLEAN] /\ split \in BOOLEAN

Taken(c) ==
    Tx(c) # 0 =>
        /\ seen[c] \subseteq DOMAIN Log(c)
        /\ {from[c], shows[c], upto[c], readyAt[c]} \subseteq 0..Len(Log(c))

LEMMA TypesParts == Types <=> Typed /\ \A c \in Clients : Taken(c)
  BY DEF Types, TypeOK, Typed, Taken

LEMMA InitInd == Init => JoinInd
  <1> SUFFICES ASSUME Init PROVE JoinInd
    OBVIOUS
  <1>1. channels \in Seq(Channel)
    BY JoinConstants DEF Init
  <1>2. \A c \in Clients : Tx(c) = 0
    BY DEF Init, Tx, NoChannel, Names
  <1>3. NoChannel \in [Names -> 0..Len(channels)]
    BY <1>1 DEF NoChannel
  <1>4. Types
    BY <1>1, <1>2, <1>3, TypesParts DEF Init, Typed, Taken, PC
  <1>5. Guild
    BY JoinConstants DEF Init, Guild
  <1>6. \A c \in Clients : Client(c)
    BY DEF Init, Client, Found, Fresh, PagesRead, Heard, InOrder, Settled,
           NoChannel
  <1>7. QED
    BY <1>4, <1>5, <1>6 DEF JoinInd

(* What a client that has its log may take of it.                          *)
LEMMA ChannelTypes ==
    ASSUME Types, NEW k \in DOMAIN channels
    PROVE  /\ channels[k].log \in Seq(Message) /\ channels[k].name \in Names
           /\ channels[k].pins \in SUBSET Nat
           /\ channels[k] = [name |-> channels[k].name,
                             log |-> channels[k].log,
                             pins |-> channels[k].pins]
           /\ k \in Nat \ {0} /\ Len(channels) \in Nat
           /\ DOMAIN channels = 1..Len(channels)
  <1>1. channels \in Seq(Channel)
    BY DEF Types, TypeOK
  <1>2. channels[k] \in Channel /\ k \in Nat \ {0} /\ Len(channels) \in Nat
        /\ DOMAIN channels = 1..Len(channels)
    BY <1>1
  <1>3. QED
    BY <1>2 DEF Channel

LEMMA ChosenTypes ==
    ASSUME Types, NEW c \in Clients
    PROVE  /\ chosen[c] \in [Names -> 0..Len(channels)]
           /\ Tx(c) \in 0..Len(channels) /\ Len(channels) \in Nat
           /\ DOMAIN channels = 1..Len(channels)
  BY DEF Types, TypeOK, Tx, Names

LEMMA LogTypes ==
    ASSUME Types, NEW c \in Clients, Tx(c) # 0
    PROVE  /\ Tx(c) \in DOMAIN channels
           /\ Log(c) \in Seq(Message) /\ Len(Log(c)) \in Nat
           /\ DOMAIN Log(c) = 1..Len(Log(c))
           /\ seen[c] \subseteq DOMAIN Log(c)
           /\ from[c] \in 0..Len(Log(c)) /\ shows[c] \in 0..Len(Log(c))
           /\ upto[c] \in 0..Len(Log(c)) /\ readyAt[c] \in 0..Len(Log(c))
  <1>1. Tx(c) \in DOMAIN channels
    BY ChosenTypes
  <1>2. Log(c) \in Seq(Message)
    BY <1>1, ChannelTypes DEF Log
  <1>3. QED
    BY <1>1, <1>2 DEF Types, TypeOK

LEMMA SettledTypes ==
    ASSUME Types, NEW c \in Clients, Settled(c), Found(c)
    PROVE  Tx(c) # 0 /\ Tx(c) \in DOMAIN channels
           /\ channels[Tx(c)].name = "tx"
  BY LogTypes DEF Found, Tx, Names

(* The inductive invariant says what the two properties say.               *)
LEMMA IndImplies == JoinInd => JoinInv /\ NothingSkipped /\ ShowsLatest
  <1> SUFFICES ASSUME JoinInd PROVE JoinInv /\ NothingSkipped /\ ShowsLatest
    OBVIOUS
  <1>1. SameChannels
    <2> SUFFICES ASSUME NEW c \in Clients, NEW d \in Clients, Settled(c),
                        Settled(d), ~split
                 PROVE  chosen[c] = chosen[d]
      BY DEF SameChannels
    <2>1. ASSUME NEW n \in Names PROVE chosen[c][n] = chosen[d][n]
      <3>1. /\ chosen[c][n] \in DOMAIN channels
            /\ chosen[d][n] \in DOMAIN channels
            /\ channels[chosen[c][n]].name = channels[chosen[d][n]].name
        BY ChosenTypes DEF JoinInd, Client, Found
      <3>2. QED
        BY <3>1 DEF JoinInd, Guild, OneOfAName
    <2>2. QED
      BY <2>1, ChosenTypes DEF JoinInd
  <1>2. NothingSkipped
    <2> SUFFICES ASSUME NEW c \in Clients, pc[c] = "live",
                        NEW id \in DOMAIN Log(c)
                 PROVE  \/ id \in seen[c]
                        \/ [channel |-> Tx(c), id |-> id] \in events[c]
                        \/ Excused(c, id)
      BY DEF NothingSkipped
    <2>1. /\ Client(c) /\ Settled(c) /\ Tx(c) \in DOMAIN channels
          /\ channels[Tx(c)].name = "tx"
          /\ Log(c) \in Seq(Message) /\ id \in Nat
          /\ from[c] \in Nat /\ upto[c] \in Nat /\ readyAt[c] \in Nat
      BY SettledTypes, LogTypes DEF JoinInd, Client, Settled
    <2>2. CASE id < from[c]
      <3>1. from[c] # 1 /\ 1 \in DOMAIN Log(c) /\ Log(c)[1].root
        BY <2>1, <2>2 DEF JoinInd, Guild, PinsAreRoots, Log, Client, PagesRead
      <3>2. StartedTwice(c)
        BY <3>1, <2>1 DEF StartedTwice, Client, PagesRead
      <3>3. QED
        BY <3>2, <2>2 DEF Excused
    <2>3. CASE from[c] <= id /\ id <= upto[c]
      BY <2>1, <2>3 DEF Client, PagesRead
    <2>4. CASE upto[c] < id /\ id <= readyAt[c]
      BY <2>4 DEF Excused
    <2>5. CASE readyAt[c] < id
      BY <2>1, <2>5 DEF Client, Heard, Excused
    <2>6. QED
      BY <2>1, <2>2, <2>3, <2>4, <2>5
  <1>3. ShowsLatest
    <2> SUFFICES ASSUME NEW c \in Clients, pc[c] = "live", ~late[c]
                 PROVE  \/ shows[c] = Len(Log(c))
                        \/ [channel |-> Tx(c), id |-> Len(Log(c))] \in events[c]
                        \/ /\ Excused(c, Len(Log(c)))
                           /\ Len(Log(c)) \notin seen[c]
      BY DEF ShowsLatest
    <2>1. /\ Client(c) /\ Settled(c) /\ Tx(c) \in DOMAIN channels
          /\ shows[c] \in 0..Len(Log(c)) /\ Log(c) \in Seq(Message)
      BY SettledTypes, LogTypes DEF JoinInd, Client, Settled
    <2>2. Len(Log(c)) \in DOMAIN Log(c)
      BY <2>1 DEF Client, PagesRead
    <2>3. CASE Len(Log(c)) \in seen[c]
      BY <2>1, <2>2, <2>3 DEF Client, InOrder
    <2>4. CASE Len(Log(c)) \notin seen[c]
      BY <2>2, <2>4, <1>2 DEF NothingSkipped
    <2>5. QED
      BY <2>3, <2>4
  <1>4. QED
    BY <1>1, <1>2, <1>3 DEF JoinInd, Types, JoinInv

-----------------------------------------------------------------------------
(* What an action does to the clients it is not about.                     *)

(* Channels are only created, logs only appended to.                       *)
Grows ==
    /\ channels' \in Seq(Channel)
    /\ DOMAIN channels \subseteq DOMAIN channels'
    /\ \A k \in DOMAIN channels :
        /\ channels'[k].name = channels[k].name
        /\ DOMAIN channels[k].log \subseteq DOMAIN channels'[k].log
        /\ \A i \in DOMAIN channels[k].log :
               channels'[k].log[i] = channels[k].log[i]

Same(d) ==
    /\ pc'[d] = pc[d] /\ chosen'[d] = chosen[d]
    /\ from'[d] = from[d] /\ seen'[d] = seen[d] /\ shows'[d] = shows[d]
    /\ upto'[d] = upto[d] /\ readyAt'[d] = readyAt[d] /\ late'[d] = late[d]

(* What is new to a client comes as an event, unless it is its own.        *)
Sent(d) ==
    /\ account' = account
    /\ \A e \in events'[d] :
          e \in events[d] \/ e.id \in DOMAIN channels'[e.channel].log
    /\ events[d] \cup missed[d] \subseteq events'[d] \cup missed'[d]
    /\ pc[d] = "live" => \A id \in DOMAIN channels'[Tx(d)].log :
          \/ id \in DOMAIN Log(d)
          \/ [channel |-> Tx(d), id |-> id] \in events'[d]
          \/ account[channels'[Tx(d)].log[id].author] = account[d]

LEMMA EventTypes ==
    ASSUME Types, NEW c \in Clients, NEW e \in events[c] \cup missed[c]
    PROVE  e = [channel |-> e.channel, id |-> e.id]
           /\ e.channel \in DOMAIN channels /\ e.id \in Nat
  BY DEF Types, TypeOK, Event

LEMMA OthersKeep ==
    ASSUME JoinInd, Grows, NEW d \in Clients, Same(d), Sent(d)
    PROVE  Client(d)' /\ Taken(d)'
  <1> USE DEF Same
  <1>1. Tx(d)' = Tx(d) /\ (Settled(d)' <=> Settled(d))
    BY DEF Tx, Settled
  <1>2. Types /\ Client(d) /\ chosen[d] \in [Names -> 0..Len(channels)]
        /\ DOMAIN channels = 1..Len(channels) /\ Len(channels) \in Nat
    BY ChosenTypes DEF JoinInd
  <1>3. ASSUME Tx(d) # 0
        PROVE  /\ Tx(d) \in DOMAIN channels /\ DOMAIN Log(d) = 1..Len(Log(d))
               /\ Log(d) = channels[Tx(d)].log /\ Len(Log(d)) \in Nat
               /\ Log(d)' = channels'[Tx(d)].log
               /\ DOMAIN Log(d) \subseteq DOMAIN Log(d)'
               /\ \A i \in DOMAIN Log(d) : Log(d)'[i] = Log(d)[i]
               /\ Len(Log(d))' \in Nat /\ Len(Log(d))' >= Len(Log(d))
    <2>1. Tx(d) \in DOMAIN channels /\ DOMAIN Log(d) = 1..Len(Log(d))
          /\ Log(d) = channels[Tx(d)].log /\ Len(Log(d)) \in Nat
          /\ Log(d)' = channels'[Tx(d)].log
      BY <1>1, <1>2, <1>3, LogTypes DEF Log
    <2>2. channels'[Tx(d)] \in Channel
      BY <2>1 DEF Grows
    <2>3. Log(d)' \in Seq(Message)
      BY <2>1, <2>2 DEF Channel
    <2>4. DOMAIN Log(d)' = 1..Len(Log(d)') /\ Len(Log(d)') \in Nat
      BY <2>3
    <2>5. DOMAIN Log(d) \subseteq DOMAIN Log(d)'
          /\ \A i \in DOMAIN Log(d) : Log(d)'[i] = Log(d)[i]
      BY <2>1 DEF Grows
    <2>6. Len(Log(d)') >= Len(Log(d))
      BY <2>1, <2>4, <2>5
    <2>7. QED
      BY <2>1, <2>4, <2>5, <2>6
  <1>4. Taken(d)'
    <2> SUFFICES ASSUME Tx(d) # 0
                 PROVE  /\ seen[d] \subseteq DOMAIN Log(d)'
                        /\ {from[d], shows[d], upto[d], readyAt[d]}
                              \subseteq 0..Len(Log(d)')
      BY <1>1 DEF Taken
    <2>1. QED
      BY <1>2, <1>3, LogTypes
  <1>5. Found(d)'
    BY <1>1, <1>2 DEF Client, Found, Grows
  <1>6. Fresh(d)' /\ InOrder(d)'
    BY <1>1, <1>2 DEF Client, Fresh, InOrder
  <1>7. PagesRead(d)'
    BY <1>1, <1>2, <1>3, SettledTypes DEF Client, PagesRead
  <1>8. Heard(d)'
    <2>1. ASSUME NEW e \in events'[d]
          PROVE  e.id \in DOMAIN channels'[e.channel].log
      BY <1>2, EventTypes DEF Sent, Client, Heard, Grows
    <2>2. ASSUME pc[d] = "live", NEW id \in DOMAIN Log(d)'
          PROVE  \/ id <= readyAt[d]
                 \/ id \in seen[d]
                 \/ [channel |-> Tx(d), id |-> id] \in events'[d] \cup missed'[d]
                 \/ account[Log(d)'[id].author] = account[d]
      <3>1. Tx(d) # 0
        BY <1>2, <2>2, SettledTypes DEF Client, Settled
      <3>2. CASE id \in DOMAIN Log(d)
        BY <1>2, <1>3, <2>2, <3>1, <3>2 DEF Client, Heard, Sent
      <3>3. CASE id \notin DOMAIN Log(d)
        BY <1>3, <2>2, <3>1, <3>3 DEF Sent
      <3>4. QED
        BY <3>2, <3>3
    <2>3. account' = account
      BY DEF Sent
    <2>4. QED
      BY <1>1, <2>1, <2>2, <2>3 DEF Heard
  <1>9. QED
    BY <1>4, <1>5, <1>6, <1>7, <1>8 DEF Client

LEMMA ActorStep ==
    ASSUME JoinInd, Grows, Guild', Typed', NEW c \in Clients, Client(c)',
           Taken(c)', \A d \in Clients \ {c} : Same(d) /\ Sent(d)
    PROVE  JoinInd'
  <1>1. \A d \in Clients : Client(d)' /\ Taken(d)'
    BY OthersKeep
  <1>2. (\A d \in Clients : Taken(d))' /\ (\A d \in Clients : Client(d))'
    BY <1>1
  <1>3. Types'
    BY <1>2 DEF Types, TypeOK, Typed, Taken
  <1>4. QED
    BY <1>2, <1>3 DEF JoinInd

LEMMA QuietStep ==
    ASSUME JoinInd, UNCHANGED channelVars
    PROVE  Grows /\ Guild' /\ account' = account /\ channels' = channels
           /\ \A d \in Clients : events'[d] = events[d]
                                /\ missed'[d] = missed[d] => Sent(d)
  <1>1. channels' = channels /\ account' = account /\ split' = split
    BY DEF channelVars
  <1>2. Grows
    BY <1>1 DEF JoinInd, Types, TypeOK, Grows
  <1>3. Guild'
    BY <1>1 DEF JoinInd, Guild
  <1>4. ASSUME NEW d \in Clients, events'[d] = events[d], missed'[d] = missed[d]
        PROVE  Sent(d)
    BY <1>1, <1>4 DEF Sent, Log
  <1>5. QED
    BY <1>1, <1>2, <1>3, <1>4

LEMMA IndParts ==
    ASSUME JoinInd
    PROVE  Types /\ Typed /\ Guild /\ \A c \in Clients : Client(c) /\ Taken(c)
  BY TypesParts DEF JoinInd

LEMMA ConnectInd ==
    ASSUME JoinInd, NEW c \in Clients, Connect(c)
    PROVE  JoinInd'
  <1> USE DEF Connect, Goto, channelVars, foundVars, setupVars, dbVars
  <1>1. Grows /\ Guild' /\ account' = account /\ channels' = channels
        /\ \A d \in Clients : Sent(d)
    BY QuietStep
  <1>2. Typed /\ Client(c) /\ Taken(c)
    BY IndParts
  <1>3. pc'[c] = "list" /\ \A d \in Clients \ {c} : Same(d)
    BY <1>2 DEF Typed, Same
  <1>4. Typed'
    BY <1>1, <1>2 DEF Typed, PC, Event
  <1>5. Client(c)' /\ Taken(c)'
    BY <1>1, <1>2, <1>3
    DEF Client, Found, Fresh, PagesRead, Heard, InOrder, Settled, Taken, Tx,
        Log
  <1>6. QED
    BY <1>1, <1>3, <1>4, <1>5, ActorStep

LEMMA ListInd ==
    ASSUME JoinInd, NEW c \in Clients, List(c)
    PROVE  JoinInd'
  <1> USE DEF Goto, Set, channelVars, setupVars, dbVars, counters
  <1>1. Grows /\ Guild' /\ account' = account /\ channels' = channels
        /\ \A d \in Clients : Sent(d)
    BY QuietStep DEF List
  <1>2. PICK found \in [Names -> DOMAIN channels \cup {0}] :
            /\ \A n \in Names : IF Named(n) = {} THEN found[n] = 0
                                ELSE found[n] \in Named(n)
            /\ chosen' = [chosen EXCEPT ![c] = found]
            /\ anew' = [anew EXCEPT ![c] = \/ found["tx"] = 0
                                          \/ channels[found["tx"]].pins = {}]
    BY DEF List
  <1>3. found \in [Names -> 0..Len(channels)]
    BY <1>2, ChosenTypes, IndParts
  <1>4. Typed /\ Client(c)
    BY IndParts
  <1>5. /\ chosen'[c] = found /\ pc[c] = "list" /\ pc'[c] = "prepare"
        /\ \A d \in Clients \ {c} : Same(d)
    BY <1>2, <1>4 DEF List, Typed, Same
  <1>6. Typed'
    <2>1. pc' \in [Clients -> PC] /\ anew' \in [Clients -> BOOLEAN]
      BY <1>2, <1>4 DEF List, Typed, PC
    <2>2. chosen' \in [Clients -> [Names -> 0..Len(channels)]]
      BY <1>2, <1>3, <1>4 DEF Typed
    <2>3. QED
      BY <1>1, <1>4, <2>1, <2>2 DEF List, Typed, Event
  <1>7. Found(c)'
    BY <1>1, <1>2, <1>5 DEF Found, Settled, Named
  <1>8. Fresh(c)' /\ PagesRead(c)' /\ InOrder(c)' /\ Heard(c)'
    BY <1>1, <1>4, <1>5
    DEF List, Client, Fresh, PagesRead, Heard, InOrder, Settled
  <1>9. Taken(c)'
    <2>1. ASSUME Tx(c)' # 0
          PROVE  Tx(c)' \in DOMAIN channels /\ Len(Log(c)') \in Nat
      <3>1. Tx(c)' \in DOMAIN channels
        BY <1>2, <1>5, <2>1 DEF Tx, Names
      <3>2. QED
        BY <1>1, <3>1, ChannelTypes, IndParts DEF Log
    <2>2. QED
      BY <1>4, <1>5, <2>1 DEF List, Client, Fresh, Settled, Taken
  <1>10. QED
    BY <1>1, <1>5, <1>6, <1>7, <1>8, <1>9, ActorStep DEF Client

LEMMA CreateInd ==
    ASSUME JoinInd, NEW c \in Clients, NEW n \in Names, Create(c, n)
    PROVE  JoinInd'
  <1> USE DEF Create, setupVars, dbVars, counters
  <1> DEFINE new == [name |-> n, log |-> <<>>, pins |-> {}]
  <1>1. Types /\ Typed /\ Client(c) /\ Taken(c) /\ Guild
    BY IndParts
  <1>2. /\ new \in Channel /\ channels \in Seq(Channel)
        /\ Len(channels) \in Nat /\ DOMAIN channels = 1..Len(channels)
    BY <1>1 DEF Typed, Channel
  <1>3. /\ channels' \in Seq(Channel) /\ Len(channels') = Len(channels) + 1
        /\ DOMAIN channels' = 1..Len(channels) + 1
        /\ \A k \in DOMAIN channels : channels'[k] = channels[k]
        /\ channels'[Len(channels) + 1] = new
    BY <1>2
  <1>4. Grows
    BY <1>2, <1>3 DEF Grows
  <1>5. Guild'
    <2>1. ASSUME ~split' PROVE OneOfAName(channels')
      <3>1. ~split /\ \A k \in DOMAIN channels : channels[k].name # n
        BY <2>1
      <3>2. QED
        BY <1>1, <1>2, <1>3, <3>1 DEF Guild, OneOfAName
    <2>2. PinsAreRoots(new)
      BY DEF PinsAreRoots
    <2>3. ASSUME NEW k \in DOMAIN channels', channels'[k].name = "tx"
          PROVE  PinsAreRoots(channels'[k])
      BY <1>1, <1>2, <1>3, <2>2, <2>3 DEF Guild
    <2>4. QED
      BY <2>1, <2>3 DEF Guild
  <1>6. /\ chosen'[c] = [chosen[c] EXCEPT ![n] = Len(channels) + 1]
        /\ \A d \in Clients \ {c} : Same(d)
    BY <1>1 DEF Typed, Same
  <1>7. ASSUME NEW d \in Clients \ {c} PROVE Sent(d)
    <2>1. pc[d] = "live" => Tx(d) \in DOMAIN channels
      BY IndParts, SettledTypes DEF Client, Settled
    <2>2. QED
      BY <1>1, <1>3, <2>1 DEF Sent, Log
  <1>8. Typed'
    <2>1. chosen' \in [Clients -> [Names -> 0..Len(channels')]]
      BY <1>1, <1>2, <1>3 DEF Typed
    <2>2. Event \subseteq Event'
      BY <1>2, <1>3 DEF Event
    <2>3. /\ events' \in [Clients -> SUBSET Event']
          /\ missed' \in [Clients -> SUBSET Event']
      BY <1>1, <2>2 DEF Typed
    <2>4. split' \in BOOLEAN /\ account' = account
      BY <1>1 DEF Typed
    <2>5. QED
      BY <1>1, <1>3, <2>1, <2>3, <2>4 DEF Typed
  <1>9. Found(c)'
    BY <1>1, <1>2, <1>3, <1>6, ChosenTypes DEF Client, Found, Settled
  <1>10. Fresh(c)' /\ PagesRead(c)' /\ InOrder(c)'
    BY <1>1 DEF Client, Fresh, PagesRead, InOrder, Settled
  <1>11. Heard(c)'
    <2>1. \A e \in events[c] : e.channel \in DOMAIN channels
      BY <1>1, EventTypes
    <2>2. QED
      BY <1>1, <1>3, <2>1 DEF Client, Heard
  <1>12. Taken(c)'
    <2>1. ASSUME Tx(c)' # 0
          PROVE  Len(channels'[Tx(c)'].log) \in Nat
      <3>1. Tx(c)' \in DOMAIN channels'
        BY <1>2, <1>3, <1>6, <2>1, ChosenTypes, <1>1 DEF Tx, Names
      <3>2. channels'[Tx(c)'] \in Channel
        BY <1>3, <3>1
      <3>3. channels'[Tx(c)'].log \in Seq(Message)
        BY <3>2 DEF Channel
      <3>4. QED
        BY <3>3
    <2>2. QED
      BY <1>1, <2>1 DEF Client, Fresh, Settled, Taken, Log
  <1>13. QED
    BY <1>4, <1>5, <1>6, <1>7, <1>8, <1>9, <1>10, <1>11, <1>12, ActorStep
    DEF Client

(* Mounting: nothing of the guild changes.                                 *)
LEMMA ReplayInd ==
    ASSUME JoinInd, NEW c \in Clients, Replay(c)
    PROVE  JoinInd'
  <1> USE DEF Goto, Set, channelVars, foundVars
  <1>1. Grows /\ Guild' /\ account' = account /\ channels' = channels
        /\ \A d \in Clients : Sent(d)
    BY QuietStep DEF Replay
  <1>2. Types /\ Typed /\ Client(c) /\ Taken(c) /\ Guild
    BY IndParts
  <1>3. PICK m \in Pins(c) : Holds(c, m, Len(Log(c)))
    BY DEF Replay, LastMessage
  <1>4. /\ Tx(c) # 0 /\ Tx(c) \in DOMAIN channels
        /\ channels[Tx(c)].name = "tx" /\ Found(c)
        /\ \A n \in Names : chosen[c][n] # 0
    <2>1. Tx(c) # 0 /\ Found(c) /\ \A n \in Names : chosen[c][n] # 0
      BY <1>2 DEF Replay, Tx, Names, Client
    <2>2. QED
      BY <1>2, <2>1, LogTypes DEF Found, Tx, Names
  <1>5. /\ Len(Log(c)) \in Nat /\ DOMAIN Log(c) = 1..Len(Log(c))
        /\ m \in 1..Len(Log(c)) /\ Log(c)[m].root
    BY <1>2, <1>3, <1>4, LogTypes DEF Guild, PinsAreRoots, Pins, Log
  <1>6. /\ pc[c] = "prepare" /\ pc' = [pc EXCEPT ![c] = "setup"]
        /\ from' = [from EXCEPT ![c] = m]
        /\ upto' = [upto EXCEPT ![c] = Len(Log(c))]
        /\ seen' = [seen EXCEPT ![c] = m..Len(Log(c))]
        /\ shows' = [shows EXCEPT ![c] = Len(Log(c))]
        /\ UNCHANGED <<chosen, anew, events, readyAt, missed, late, split>>
    BY <1>3 DEF Replay, Holds
  <1>7. /\ pc'[c] = "setup" /\ from'[c] = m /\ upto'[c] = Len(Log(c))
        /\ seen'[c] = m..Len(Log(c)) /\ shows'[c] = Len(Log(c))
        /\ \A d \in Clients \ {c} : Same(d)
    BY <1>2, <1>6 DEF Typed, Same
  <1>8. Typed'
    <2>1. m..Len(Log(c)) \subseteq Nat /\ m \in Nat /\ Len(Log(c)) \in Nat
      BY <1>5
    <2>2. /\ pc' \in [Clients -> PC]
          /\ seen' \in [Clients -> SUBSET Nat]
          /\ from' \in [Clients -> Nat] /\ shows' \in [Clients -> Nat]
          /\ upto' \in [Clients -> Nat]
      BY ONLY <1>2, <1>6, <2>1 DEF Typed, PC
    <2>3. QED
      BY ONLY <1>1, <1>2, <1>6, <2>2 DEF Typed, Event
  <1>9. Tx(c)' = Tx(c) /\ Log(c)' = Log(c)
    BY <1>1, <1>6 DEF Tx, Log
  <1>10. Found(c)' /\ Fresh(c)' /\ PagesRead(c)' /\ InOrder(c)'
    <2>1. Found(c)' /\ Fresh(c)' /\ PagesRead(c)'
      BY <1>1, <1>4, <1>5, <1>6, <1>7, <1>9
      DEF Found, Fresh, PagesRead, Settled
    <2>2. InOrder(c)'
      BY ONLY <1>5, <1>7 DEF InOrder
    <2>3. QED
      BY <2>1, <2>2
  <1>11. Heard(c)'
    BY <1>1, <1>2, <1>6, <1>7 DEF Client, Heard
  <1>12. Taken(c)'
    BY <1>2, <1>4, <1>5, <1>6, <1>7, <1>9, LogTypes DEF Taken
  <1>13. QED
    BY <1>1, <1>7, <1>8, <1>10, <1>11, <1>12, ActorStep DEF Client

LEMMA ReadyInd ==
    ASSUME JoinInd, NEW c \in Clients, Ready(c)
    PROVE  JoinInd'
  <1> USE DEF Ready, Goto, Set, channelVars, foundVars, setupVars, dbVars
  <1>1. Grows /\ Guild' /\ account' = account /\ channels' = channels
        /\ \A d \in Clients : Sent(d)
    BY QuietStep
  <1>2. Types /\ Typed /\ Client(c) /\ Taken(c) /\ Settled(c)
    BY IndParts DEF Settled
  <1>3. Tx(c) # 0 /\ Len(Log(c)) \in Nat /\ DOMAIN Log(c) = 1..Len(Log(c))
    BY <1>2, SettledTypes, LogTypes DEF Client
  <1>4. /\ pc'[c] = "live" /\ readyAt'[c] = Len(Log(c))
        /\ \A d \in Clients \ {c} : Same(d)
    BY <1>2 DEF Typed, Same
  <1>5. Typed'
    BY <1>1, <1>2, <1>3 DEF Typed, PC, Event
  <1>6. Tx(c)' = Tx(c) /\ Log(c)' = Log(c)
    BY <1>1 DEF Tx, Log
  <1>7. Client(c)' /\ Taken(c)'
    BY <1>1, <1>2, <1>3, <1>4, <1>6
    DEF Client, Found, Fresh, PagesRead, Heard, InOrder, Settled, Taken
  <1>8. QED
    BY <1>1, <1>4, <1>5, <1>7, ActorStep

-----------------------------------------------------------------------------
(* A message that is posted is at the end of its author's log, and every   *)
(* other connection is sent it.                                            *)
LEMMA PostGrows ==
    ASSUME JoinInd, NEW c \in Clients, NEW root \in BOOLEAN, Tx(c) # 0,
           root \/ Log(c) # <<>>, Post(c, root),
           UNCHANGED <<account, split, missed>>
    PROVE  /\ Grows /\ Guild' /\ Event \subseteq Event'
           /\ Len(channels') = Len(channels)
           /\ DOMAIN channels' = DOMAIN channels
           /\ events' \in [Clients -> SUBSET Event']
           /\ \A d \in Clients : Sent(d)
           /\ channels'[Tx(c)].log
                = Append(Log(c), [author |-> c, root |-> root])
           /\ channels'[Tx(c)].name = channels[Tx(c)].name
  <1> DEFINE post == [author |-> c, root |-> root]
             id == Len(Log(c)) + 1
             e == [channel |-> Tx(c), id |-> id]
  <1>1. Types /\ Typed /\ Guild /\ \A d \in Clients : Client(d)
    BY IndParts
  <1>2. /\ Tx(c) \in DOMAIN channels /\ Log(c) \in Seq(Message)
        /\ Log(c) = channels[Tx(c)].log
        /\ Len(Log(c)) \in Nat /\ DOMAIN Log(c) = 1..Len(Log(c))
        /\ channels \in Seq(Channel) /\ Tx(c) \in Nat
    BY <1>1, LogTypes, ChannelTypes DEF Log, Typed
  <1>3. post \in Message
    BY DEF Message
  <1>4. /\ Append(Log(c), post) \in Seq(Message)
        /\ DOMAIN Append(Log(c), post) = 1..id
        /\ \A i \in DOMAIN Log(c) : Append(Log(c), post)[i] = Log(c)[i]
        /\ Append(Log(c), post)[id] = post
    BY <1>2, <1>3
  <1>5. channels' = [channels EXCEPT ![Tx(c)] =
                        [channels[Tx(c)] EXCEPT !.log = Append(Log(c), post)]]
    BY <1>2 DEF Post
  <1>6. channels[Tx(c)] \in Channel
    BY <1>2
  <1>7. [channels[Tx(c)] EXCEPT !.log = Append(Log(c), post)] \in Channel
    BY <1>4, <1>6 DEF Channel
  <1>8. /\ channels' \in Seq(Channel) /\ Len(channels') = Len(channels)
        /\ DOMAIN channels' = DOMAIN channels
        /\ \A k \in DOMAIN channels : k # Tx(c) => channels'[k] = channels[k]
    BY <1>2, <1>5, <1>7
  <1>9. /\ channels'[Tx(c)].log = Append(Log(c), post)
        /\ channels'[Tx(c)].name = channels[Tx(c)].name
        /\ channels'[Tx(c)].pins = channels[Tx(c)].pins
    BY <1>2, <1>5, <1>6 DEF Channel
  <1>10. Grows
    <2>1. ASSUME NEW k \in DOMAIN channels
          PROVE  /\ channels'[k].name = channels[k].name
                 /\ DOMAIN channels[k].log \subseteq DOMAIN channels'[k].log
                 /\ \A i \in DOMAIN channels[k].log :
                        channels'[k].log[i] = channels[k].log[i]
      <3>1. CASE k = Tx(c)
        <4>1. channels[k].log = Log(c)
              /\ channels'[k].log = Append(Log(c), post)
          BY <1>2, <1>9, <3>1
        <4>2. DOMAIN Log(c) \subseteq DOMAIN Append(Log(c), post)
          BY <1>2, <1>4
        <4>3. QED
          BY <1>4, <1>9, <3>1, <4>1, <4>2
      <3>2. CASE k # Tx(c)
        BY <1>8, <3>2
      <3>3. QED
        BY <3>1, <3>2
    <2>2. QED
      BY <1>8, <2>1 DEF Grows
  <1>11. Guild'
    <2>1. ASSUME ~split' PROVE OneOfAName(channels')
      BY <1>1, <1>8, <1>9, <2>1 DEF Guild, OneOfAName
    <2>2. ASSUME channels[Tx(c)].name = "tx"
          PROVE  PinsAreRoots(channels'[Tx(c)])
      <3>1. PinsAreRoots(channels[Tx(c)])
        BY <1>1, <1>2, <2>2 DEF Guild
      <3>2. Append(Log(c), post)[1].root
        <4>1. CASE Log(c) = <<>>
          BY <1>4, <4>1
        <4>2. CASE Log(c) # <<>>
          BY <1>2, <1>4, <3>1, <4>2 DEF PinsAreRoots
        <4>3. QED
          BY <4>1, <4>2
      <3>3. QED
        BY <1>2, <1>4, <1>9, <3>1, <3>2 DEF PinsAreRoots
    <2>3. QED
      BY <1>1, <1>8, <1>9, <2>1, <2>2 DEF Guild
  <1>12. Event \subseteq Event' /\ e \in Event'
    BY <1>2, <1>8 DEF Event
  <1>13. \A d \in Clients : IF pc[d] # "off" /\ account[d] # account[c]
                           THEN events'[d] = events[d] \cup {e}
                           ELSE events'[d] = events[d]
    BY DEF Post, Hears
  <1>14. events' \in [Clients -> SUBSET Event']
    BY <1>1, <1>12 DEF Post, Typed
  <1>15. ASSUME NEW d \in Clients PROVE Sent(d)
    <2>1. e.id \in DOMAIN channels'[e.channel].log
      BY <1>2, <1>4, <1>9
    <2>2. \A f \in events'[d] :
             f \in events[d] \/ f.id \in DOMAIN channels'[f.channel].log
      BY <1>13, <2>1
    <2>3. events[d] \cup missed[d] \subseteq events'[d] \cup missed'[d]
      BY <1>13
    <2>4. ASSUME pc[d] = "live", NEW i \in DOMAIN channels'[Tx(d)].log
          PROVE  \/ i \in DOMAIN Log(d)
                 \/ [channel |-> Tx(d), id |-> i] \in events'[d]
                 \/ account[channels'[Tx(d)].log[i].author] = account[d]
      <3>1. Tx(d) \in DOMAIN channels
        BY <1>1, <2>4, SettledTypes DEF Client, Settled
      <3>2. CASE Tx(d) # Tx(c)
        BY <1>8, <2>4, <3>1, <3>2 DEF Log
      <3>3. CASE Tx(d) = Tx(c) /\ i # id
        BY <1>2, <1>4, <1>9, <2>4, <3>3 DEF Log
      <3>4. CASE Tx(d) = Tx(c) /\ i = id
        BY <1>4, <1>9, <1>13, <3>4, <2>4 DEF Log
      <3>5. QED
        BY <3>2, <3>3, <3>4
    <2>5. QED
      BY <2>2, <2>3, <2>4 DEF Sent
  <1>16. QED
    BY <1>8, <1>9, <1>10, <1>11, <1>12, <1>14, <1>15

LEMMA SendRootInd ==
    ASSUME JoinInd, NEW c \in Clients, SendRoot(c)
    PROVE  JoinInd'
  <1> USE DEF Goto, Set, foundVars
  <1> DEFINE id == Len(Log(c)) + 1
  <1>1. Types /\ Typed /\ Client(c) /\ Taken(c)
    BY IndParts
  <1>2. /\ Post(c, TRUE) /\ \A n \in Names : chosen[c][n] # 0
        /\ pc[c] = "prepare" /\ pc' = [pc EXCEPT ![c] = "pin"]
        /\ from' = [from EXCEPT ![c] = id]
        /\ upto' = [upto EXCEPT ![c] = id]
        /\ seen' = [seen EXCEPT ![c] = id..id]
        /\ shows' = [shows EXCEPT ![c] = id]
        /\ UNCHANGED <<account, chosen, anew, readyAt, missed, late, split>>
    BY DEF SendRoot, Holds
  <1>3. Tx(c) # 0 /\ Tx(c) \in DOMAIN channels
        /\ Len(Log(c)) \in Nat /\ Log(c) \in Seq(Message)
    BY <1>1, <1>2, LogTypes DEF Tx, Names
  <1>4. /\ Grows /\ Guild' /\ Event \subseteq Event'
        /\ Len(channels') = Len(channels) /\ DOMAIN channels' = DOMAIN channels
        /\ events' \in [Clients -> SUBSET Event']
        /\ \A d \in Clients : Sent(d)
        /\ channels'[Tx(c)].log = Append(Log(c), [author |-> c, root |-> TRUE])
    BY <1>2, <1>3, PostGrows
  <1>5. /\ Tx(c)' = Tx(c)
        /\ Log(c)' = Append(Log(c), [author |-> c, root |-> TRUE])
    BY <1>2, <1>4 DEF Tx, Log
  <1>6. /\ DOMAIN Log(c)' = 1..id /\ Len(Log(c)') = id /\ id \in Nat
        /\ Log(c)'[id].root
    BY <1>3, <1>5
  <1>7. /\ pc'[c] = "pin" /\ from'[c] = id /\ upto'[c] = id
        /\ seen'[c] = id..id /\ shows'[c] = id
        /\ \A d \in Clients \ {c} : Same(d)
    BY <1>1, <1>2 DEF Typed, Same
  <1>8. Typed'
    <2>1. channels' \in Seq(Channel) /\ missed' \in [Clients -> SUBSET Event']
      BY <1>1, <1>2, <1>4 DEF Grows, Typed
    <2>2. id..id \in SUBSET Nat
      BY <1>6
    <2>3. QED
      BY <1>1, <1>2, <1>4, <1>6, <2>1, <2>2 DEF Typed, PC
  <1>9. Found(c)'
    BY <1>1, <1>2, <1>4, ChosenTypes DEF Client, Found, Grows
  <1>10. PagesRead(c)' /\ Fresh(c)' /\ InOrder(c)'
    BY <1>6, <1>7 DEF PagesRead, Fresh, InOrder, Settled
  <1>11. Heard(c)'
    <2>1. ASSUME NEW e \in events'[c]
          PROVE  e.id \in DOMAIN channels'[e.channel].log
      BY <1>1, <1>4, EventTypes DEF Sent, Client, Heard, Grows
    <2>2. QED
      BY <1>7, <2>1 DEF Heard
  <1>12. Taken(c)'
    BY <1>1, <1>2, <1>3, <1>6, <1>7 DEF Client, Fresh, Settled, Taken
  <1>13. QED
    BY <1>4, <1>7, <1>8, <1>9, <1>10, <1>11, <1>12, ActorStep DEF Client

LEMMA SendTxInd ==
    ASSUME JoinInd, NEW c \in Clients, SendTx(c)
    PROVE  JoinInd'
  <1> USE DEF Set, foundVars, setupVars
  <1> DEFINE id == Len(Log(c)) + 1
  <1>1. Types /\ Typed /\ Client(c) /\ Taken(c) /\ Settled(c) /\ pc[c] = "live"
    BY IndParts DEF SendTx, Settled
  <1>2. Tx(c) # 0 /\ Tx(c) \in DOMAIN channels /\ Log(c) # <<>>
        /\ Len(Log(c)) \in Nat /\ Log(c) \in Seq(Message)
        /\ seen[c] \subseteq DOMAIN Log(c) /\ DOMAIN Log(c) = 1..Len(Log(c))
        /\ from[c] \in DOMAIN Log(c) /\ upto[c] \in 0..Len(Log(c))
        /\ readyAt[c] \in 0..Len(Log(c))
    BY <1>1, SettledTypes, LogTypes DEF Client, PagesRead
  <1>3. /\ Post(c, FALSE)
        /\ seen' = [seen EXCEPT ![c] = seen[c] \cup {id}]
        /\ shows' = [shows EXCEPT ![c] = id]
        /\ UNCHANGED <<account, pc, chosen, anew, from, upto, readyAt, missed,
                       late, split>>
    BY DEF SendTx
  <1>4. /\ Grows /\ Guild' /\ Event \subseteq Event'
        /\ Len(channels') = Len(channels) /\ DOMAIN channels' = DOMAIN channels
        /\ events' \in [Clients -> SUBSET Event']
        /\ \A d \in Clients : Sent(d)
        /\ channels'[Tx(c)].log = Append(Log(c), [author |-> c, root |-> FALSE])
    BY <1>2, <1>3, PostGrows
  <1>5. /\ Tx(c)' = Tx(c)
        /\ Log(c)' = Append(Log(c), [author |-> c, root |-> FALSE])
    BY <1>3, <1>4 DEF Tx, Log
  <1>6. /\ DOMAIN Log(c)' = 1..id /\ Len(Log(c)') = id /\ id \in Nat
        /\ \A i \in DOMAIN Log(c) : Log(c)'[i] = Log(c)[i]
    BY <1>2, <1>5
  <1>7. /\ seen'[c] = seen[c] \cup {id} /\ shows'[c] = id
        /\ \A d \in Clients \ {c} : Same(d)
    BY <1>1, <1>3 DEF Typed, Same
  <1>8. Typed'
    <2>1. channels' \in Seq(Channel) /\ missed' \in [Clients -> SUBSET Event']
      BY <1>1, <1>3, <1>4 DEF Grows, Typed
    <2>2. QED
      BY <1>1, <1>3, <1>4, <1>6, <2>1 DEF Typed
  <1>9. Found(c)'
    BY <1>1, <1>3, <1>4, ChosenTypes DEF Client, Found, Grows, Settled
  <1>10. PagesRead(c)' /\ Fresh(c)' /\ InOrder(c)'
    BY <1>1, <1>2, <1>3, <1>6, <1>7
    DEF Client, PagesRead, Fresh, InOrder, Settled
  <1>11. Heard(c)'
    <2>1. ASSUME NEW e \in events'[c]
          PROVE  e.id \in DOMAIN channels'[e.channel].log
      BY <1>1, <1>4, EventTypes DEF Sent, Client, Heard, Grows
    <2>2. ASSUME NEW i \in DOMAIN Log(c)'
          PROVE  \/ i <= readyAt[c]
                 \/ i \in seen'[c]
                 \/ [channel |-> Tx(c), id |-> i] \in events'[c] \cup missed'[c]
                 \/ account[Log(c)'[i].author] = account[c]
      <3>1. CASE i \in DOMAIN Log(c)
        BY <1>1, <1>3, <1>4, <1>6, <1>7, <3>1 DEF Client, Heard, Sent
      <3>2. CASE i = id
        BY <1>7, <3>2
      <3>3. QED
        BY <1>2, <1>6, <3>1, <3>2
    <2>3. QED
      BY <1>3, <1>5, <2>1, <2>2 DEF Heard
  <1>12. Taken(c)'
    BY <1>2, <1>3, <1>6, <1>7 DEF Taken
  <1>13. QED
    BY <1>4, <1>7, <1>8, <1>9, <1>10, <1>11, <1>12, ActorStep DEF Client

LEMMA PinRootInd ==
    ASSUME JoinInd, NEW c \in Clients, PinRoot(c)
    PROVE  JoinInd'
  <1> USE DEF PinRoot, Goto, foundVars, setupVars, dbVars
  <1> DEFINE pins == channels[Tx(c)].pins \cup {from[c]}
  <1>1. Types /\ Typed /\ Client(c) /\ Taken(c) /\ Settled(c) /\ Guild
    BY IndParts DEF Settled
  <1>2. /\ Tx(c) \in DOMAIN channels /\ Log(c) = channels[Tx(c)].log
        /\ from[c] \in DOMAIN Log(c) /\ Log(c)[from[c]].root
        /\ channels \in Seq(Channel) /\ channels[Tx(c)] \in Channel
        /\ from[c] \in Nat
    BY <1>1, SettledTypes DEF Client, PagesRead, Log, Typed
  <1>3. channels' = [channels EXCEPT ![Tx(c)] =
                        [channels[Tx(c)] EXCEPT !.pins = pins]]
    BY <1>2
  <1>4. /\ [channels[Tx(c)] EXCEPT !.pins = pins] \in Channel
        /\ channels'[Tx(c)] = [channels[Tx(c)] EXCEPT !.pins = pins]
    BY <1>2, <1>3 DEF Channel
  <1>5. /\ channels' \in Seq(Channel) /\ Len(channels') = Len(channels)
        /\ DOMAIN channels' = DOMAIN channels
        /\ \A k \in DOMAIN channels : k # Tx(c) => channels'[k] = channels[k]
    BY <1>2, <1>3, <1>4
  <1>6. /\ \A k \in DOMAIN channels :
              /\ channels'[k].log = channels[k].log
              /\ channels'[k].name = channels[k].name
        /\ channels'[Tx(c)].pins = pins
    BY <1>2, <1>4, <1>5 DEF Channel
  <1>7. Grows /\ Event' = Event
    BY <1>5, <1>6 DEF Grows, Event
  <1>8. Guild'
    <2>1. ASSUME NEW k \in DOMAIN channels, channels[k].name = "tx"
          PROVE  PinsAreRoots(channels'[k])
      BY <1>1, <1>2, <1>5, <1>6, <2>1 DEF Guild, PinsAreRoots
    <2>2. ASSUME ~split' PROVE OneOfAName(channels')
      BY <1>1, <1>5, <1>6, <2>2 DEF Guild, OneOfAName
    <2>3. QED
      BY <1>5, <1>6, <2>1, <2>2 DEF Guild
  <1>9. /\ pc'[c] = "setup" /\ account' = account /\ split' = split
        /\ \A d \in Clients \ {c} : Same(d)
    BY <1>1 DEF Typed, Same
  <1>10. ASSUME NEW d \in Clients PROVE Sent(d)
    <2>1. pc[d] = "live" => Tx(d) \in DOMAIN channels
      BY IndParts, SettledTypes DEF Client, Settled
    <2>2. QED
      BY <1>6, <1>9, <2>1 DEF Sent, Log
  <1>11. Typed'
    BY <1>1, <1>5, <1>7, <1>9 DEF Typed, PC
  <1>12. Tx(c)' = Tx(c) /\ Log(c)' = Log(c)
    BY <1>2, <1>6 DEF Tx, Log
  <1>13. Found(c)'
    BY <1>1, <1>6, ChosenTypes DEF Client, Found, Settled
  <1>14. Fresh(c)' /\ PagesRead(c)' /\ InOrder(c)' /\ Taken(c)'
    BY <1>1, <1>12, <1>9
    DEF Client, Fresh, PagesRead, InOrder, Taken, Settled
  <1>15. Heard(c)'
    <2>1. \A e \in events[c] : e.channel \in DOMAIN channels
      BY <1>1, EventTypes
    <2>2. QED
      BY <1>1, <1>6, <1>9, <2>1 DEF Client, Heard
  <1>16. QED
    BY <1>7, <1>8, <1>9, <1>10, <1>11, <1>13, <1>14, <1>15, ActorStep
    DEF Client

LEMMA MessageCreateInd ==
    ASSUME JoinInd, NEW c \in Clients, NEW e \in events[c],
           MessageCreate(c, e)
    PROVE  JoinInd'
  <1> USE DEF Handled, Set, channelVars, foundVars, setupVars
  <1>1. Types /\ Typed /\ Client(c) /\ Taken(c)
    BY IndParts
  <1>2. /\ e = [channel |-> e.channel, id |-> e.id]
        /\ e.channel \in DOMAIN channels /\ e.id \in Nat
        /\ e.id \in DOMAIN channels[e.channel].log
    BY <1>1, EventTypes DEF Client, Heard
  <1>3. /\ events' = [events EXCEPT ![c] = events[c] \ {e}]
        /\ UNCHANGED <<account, channels, split, pc, chosen, anew, from, upto,
                       readyAt, missed>>
    BY DEF MessageCreate
  <1>4. \/ /\ pc[c] = "live" /\ e.channel = Tx(c)
           /\ seen' = [seen EXCEPT ![c] = seen[c] \cup {e.id}]
           /\ shows' = [shows EXCEPT ![c] = e.id]
           /\ late' = [late EXCEPT ![c] = late[c] \/ e.id < shows[c]]
        \/ /\ pc[c] # "live" \/ e.channel # Tx(c)
           /\ seen' = seen /\ shows' = shows /\ late' = late
    BY DEF MessageCreate, Concerns, dbVars
  <1>5. Grows /\ Guild'
    BY <1>3, QuietStep
  <1>6. /\ events'[c] = events[c] \ {e}
        /\ \A d \in Clients \ {c} : Same(d)
    BY <1>1, <1>3, <1>4 DEF Typed, Same
  <1>7. ASSUME NEW d \in Clients \ {c} PROVE Sent(d)
    BY <1>1, <1>3, <1>7, QuietStep DEF Typed
  <1>8. Typed'
    <2>1. events' \in [Clients -> SUBSET Event] /\ Event' = Event
      BY <1>1, <1>3 DEF Typed, Event
    <2>2. (late[c] \/ e.id < shows[c]) \in BOOLEAN
      OBVIOUS
    <2>3. late' \in [Clients -> BOOLEAN]
      BY <1>1, <1>4, <2>2 DEF Typed
    <2>4. seen' \in [Clients -> SUBSET Nat] /\ shows' \in [Clients -> Nat]
      <3>1. \/ /\ seen' = [seen EXCEPT ![c] = seen[c] \cup {e.id}]
               /\ shows' = [shows EXCEPT ![c] = e.id]
            \/ seen' = seen /\ shows' = shows
        BY <1>4
      <3>2. seen \in [Clients -> SUBSET Nat] /\ shows \in [Clients -> Nat]
            /\ seen[c] \cup {e.id} \in SUBSET Nat /\ e.id \in Nat
        BY <1>1, <1>2 DEF Typed
      <3>3. QED
        BY <3>1, <3>2
    <2>5. QED
      BY <1>1, <1>3, <2>1, <2>3, <2>4 DEF Typed
  <1>9. Tx(c)' = Tx(c) /\ Log(c)' = Log(c)
    BY <1>3 DEF Tx, Log
  <1>10. Found(c)'
    BY <1>1, <1>3 DEF Client, Found, Settled
  <1>11. CASE /\ pc[c] = "live" /\ e.channel = Tx(c)
              /\ seen' = [seen EXCEPT ![c] = seen[c] \cup {e.id}]
              /\ shows' = [shows EXCEPT ![c] = e.id]
              /\ late' = [late EXCEPT ![c] = late[c] \/ e.id < shows[c]]
    <2>1. /\ seen'[c] = seen[c] \cup {e.id} /\ shows'[c] = e.id
          /\ late'[c] = (late[c] \/ e.id < shows[c])
      BY <1>1, <1>11 DEF Typed
    <2>2. Settled(c) /\ Tx(c) # 0
      BY <1>1, <1>11, SettledTypes DEF Settled, Client
    <2>3. /\ e.id \in DOMAIN Log(c) /\ Len(Log(c)) \in Nat
          /\ DOMAIN Log(c) = 1..Len(Log(c)) /\ seen[c] \subseteq DOMAIN Log(c)
          /\ shows[c] \in 0..Len(Log(c))
      BY <1>1, <1>2, <1>11, <2>2, LogTypes DEF Log
    <2>4. Fresh(c)' /\ PagesRead(c)' /\ Taken(c)'
      BY <1>1, <1>3, <1>9, <2>1, <2>2, <2>3
      DEF Client, Fresh, PagesRead, Taken, Settled
    <2>5. InOrder(c)'
      <3>1. CASE late[c] \/ e.id < shows[c]
        BY <2>1, <3>1 DEF InOrder
      <3>2. CASE ~late[c] /\ ~(e.id < shows[c])
        <4>1. \A id \in seen[c] : id <= shows[c] /\ id \in Nat
          BY <1>1, <2>3, <3>2 DEF Client, InOrder
        <4>2. \A id \in seen'[c] : id <= shows'[c]
          BY <1>2, <2>1, <2>3, <3>2, <4>1
        <4>3. QED
          BY <4>2 DEF InOrder
      <3>3. QED
        BY <3>1, <3>2
    <2>6. Heard(c)'
      BY <1>1, <1>2, <1>3, <1>6, <1>9, <2>1 DEF Client, Heard
    <2>7. QED
      BY <1>5, <1>6, <1>7, <1>8, <1>10, <2>4, <2>5, <2>6, ActorStep DEF Client
  <1>12. CASE /\ pc[c] # "live" \/ e.channel # Tx(c)
              /\ seen' = seen /\ shows' = shows /\ late' = late
    <2>1. Fresh(c)' /\ PagesRead(c)' /\ Taken(c)' /\ InOrder(c)'
      BY <1>1, <1>3, <1>9, <1>12
      DEF Client, Fresh, PagesRead, Taken, Settled, InOrder
    <2>2. Heard(c)'
      BY <1>1, <1>2, <1>3, <1>6, <1>9, <1>12 DEF Client, Heard
    <2>3. QED
      BY <1>5, <1>6, <1>7, <1>8, <1>10, <2>1, <2>2, ActorStep DEF Client
  <1>13. QED
    BY <1>4, <1>11, <1>12

LEMMA LoseInd ==
    ASSUME JoinInd, NEW c \in Clients, NEW e \in events[c], Lose(c, e)
    PROVE  JoinInd'
  <1> USE DEF Lose, channelVars, foundVars, setupVars, dbVars
  <1>1. Types /\ Typed /\ Client(c) /\ Taken(c)
    BY IndParts
  <1>2. Grows /\ Guild' /\ channels' = channels /\ account' = account
    BY QuietStep
  <1>3. /\ events'[c] = events[c] \ {e} /\ missed'[c] = missed[c] \cup {e}
        /\ \A d \in Clients \ {c} : Same(d)
    BY <1>1 DEF Typed, Same
  <1>4. ASSUME NEW d \in Clients \ {c} PROVE Sent(d)
    BY <1>1, <1>4, QuietStep DEF Typed
  <1>5. Typed'
    BY <1>1, <1>2 DEF Typed, Event
  <1>6. Client(c)' /\ Taken(c)'
    BY <1>1, <1>2, <1>3
    DEF Client, Found, Fresh, PagesRead, Heard, InOrder, Settled, Taken, Tx,
        Log
  <1>7. QED
    BY <1>2, <1>3, <1>4, <1>5, <1>6, ActorStep

LEMMA StopInd ==
    ASSUME JoinInd, NEW c \in Clients, Stop(c)
    PROVE  JoinInd'
  <1> USE DEF Stop, Goto, Set, channelVars, counters
  <1>1. Types /\ Typed /\ Client(c) /\ Len(channels) \in Nat
    BY IndParts, ChosenTypes
  <1>2. Grows /\ Guild' /\ channels' = channels /\ account' = account
    BY QuietStep
  <1>3. /\ pc'[c] = "off" /\ chosen'[c] = NoChannel /\ from'[c] = 0
        /\ upto'[c] = 0 /\ seen'[c] = {} /\ shows'[c] = 0
        /\ late'[c] = FALSE /\ readyAt'[c] = 0
        /\ events'[c] = {} /\ missed'[c] = {}
        /\ \A d \in Clients \ {c} : Same(d)
    BY <1>1 DEF Typed, Same
  <1>4. ASSUME NEW d \in Clients \ {c} PROVE Sent(d)
    BY <1>1, <1>4, QuietStep DEF Typed
  <1>5. Typed'
    <2>1. NoChannel \in [Names -> 0..Len(channels)]
      BY <1>1 DEF NoChannel
    <2>2. QED
      BY <1>1, <1>2, <2>1 DEF Typed, Event, PC
  <1>6. Client(c)' /\ Taken(c)'
    BY <1>3
    DEF Client, Found, Fresh, PagesRead, Heard, InOrder, Settled, Taken, Tx,
        NoChannel, Names
  <1>7. QED
    BY <1>2, <1>3, <1>4, <1>5, <1>6, ActorStep

LEMMA StepInd == JoinInd /\ [Next]_vars => JoinInd'
  <1> SUFFICES ASSUME JoinInd, [Next]_vars PROVE JoinInd'
    OBVIOUS
  <1>1. CASE Next
    <2>1. PICK c \in Clients :
            \/ Connect(c) \/ Main(c) \/ SendTx(c) \/ Gateway(c) \/ Stop(c)
            \/ \E e \in events[c] : Lose(c, e)
      BY <1>1 DEF Next
    <2>2. CASE Main(c)
      BY <2>2, ListInd, CreateInd, SendRootInd, PinRootInd, ReplayInd, ReadyInd
      DEF Main
    <2>3. CASE Gateway(c)
      BY <2>3, MessageCreateInd DEF Gateway
    <2>4. QED
      BY <2>1, <2>2, <2>3, ConnectInd, SendTxInd, StopInd, LoseInd
  <1>2. CASE UNCHANGED vars
    <2>1. Types' /\ Guild'
      <3>1. Types'
        BY <1>2 DEF vars, JoinInd, Types, TypeOK, Tx, Log, Event
      <3>2. Guild'
        BY <1>2 DEF vars, JoinInd, Guild
      <3>3. QED
        BY <3>1, <3>2
    <2>2. ASSUME NEW c \in Clients PROVE Client(c)'
      <3>1. Client(c)
        BY DEF JoinInd
      <3>2. QED
        BY <1>2, <3>1
        DEF vars, Client, Found, Fresh, PagesRead, Heard, InOrder, Settled,
            Tx, Log
    <2>3. QED
      BY <2>1, <2>2 DEF JoinInd
  <1>3. QED
    BY <1>1, <1>2

-----------------------------------------------------------------------------
(* The types, and that all clients use the same two channels unless two    *)
(* first starts overlapped and created one of them twice.                  *)
THEOREM JoinSafety == Spec => []JoinInv
  <1>1. QED
    BY InitInd, StepInd, IndImplies, PTL DEF Spec

(* A mounted client misses nothing but what it is excused for: between     *)
(* setupDB and messageCreate only the gap before dsfsReady loses messages. *)
THEOREM JoinSkipsNothing == Spec => []NothingSkipped
  <1>1. QED
    BY InitInd, StepInd, IndImplies, PTL DEF Spec

(* And what it shows is the last message, unless it was excused for that   *)
(* one, has still to handle it, or has applied messages out of order.      *)
THEOREM JoinShowsLatest == Spec => []ShowsLatest
  <1>1. QED
    BY InitInd, StepInd, IndImplies, PTL DEF Spec
=============================================================================

-------------------------------- MODULE Join --------------------------------
(***************************************************************************)
(* How a client joins: main connects to the gateway, prepareChannels finds *)
(* or creates the two channels, setupDB reads the log, and only then does  *)
(* dsfsReady let messageCreate handle the events that have been arriving   *)
(* since the connection was opened (main.go, db.go, tx.go).                *)
(*                                                                         *)
(* A message is a position of a channel's log, and a database is told by   *)
(* the messages that went into it.  Reading the log is one step, that of   *)
(* setupDB's last page: pages and compaction are TxLog's, and what a       *)
(* handler does to the database step by step is Dsfs's.                    *)
(***************************************************************************)
EXTENDS Integers, Sequences, FiniteSets

CONSTANTS
    Clients,
    Accounts,     \* the ways in which tokens may be given to the clients
    Guilds,       \* the channels that earlier sessions may have left
    MaxStarts,    \* bound on process starts
    MaxPosts,     \* bound on transactions of mounted clients
    MaxLost       \* bound on events lost to a broken connection

Names == {"data", "tx"}

Message == [author : Clients, root : BOOLEAN]
Channel == [name : Names, log : Seq(Message), pins : SUBSET Nat]

(* What a client relies on when it finds a channel: there is one of each   *)
(* name, what is pinned is a start point, and a log begins with one.       *)
OneOfAName(g) == \A j, k \in DOMAIN g : g[j].name = g[k].name => j = k
PinsAreRoots(ch) ==
    /\ \A i \in ch.pins : i \in DOMAIN ch.log /\ ch.log[i].root
    /\ ch.log # <<>> => ch.log[1].root

ASSUME JoinConstants ==
    /\ Guilds \subseteq Seq(Channel)
    /\ \A g \in Guilds : OneOfAName(g) /\ \A k \in DOMAIN g :
                            g[k].name = "tx" => PinsAreRoots(g[k])
    /\ Accounts \subseteq [Clients -> Nat]
    /\ MaxStarts \in Nat /\ MaxPosts \in Nat /\ MaxLost \in Nat

VARIABLES
    account,   \* whose token each client uses
    channels,  \* the channels of the guild: name, posts, pinned posts
    pc,        \* where each client stands in main
    chosen,    \* chosen[c][name]: its channel of that name, 0 for nil
    anew,      \* its channel object has no LastPinTimestamp
    from,      \* its pinnedMsg, 0 for nil
    seen,      \* the messages that have gone into its database
    shows,     \* the one of them that went into it last
    events,    \* events sent to it that no handler has taken
    upto,      \* history: the messages there were at its last page
    readyAt,   \* history: the messages there were when it became ready
    missed,    \* history: the events it lost with the connection
    late,      \* history: it has applied a message after a younger one
    split,     \* history: a channel was created twice
    starts, posts, losses

vars == <<account, channels, pc, chosen, anew, from, seen, shows, events,
          upto, readyAt, missed, late, split, starts, posts, losses>>
channelVars == <<account, channels, split>>
foundVars == <<chosen, anew>>
setupVars == <<from, upto>>
dbVars == <<seen, shows, late>>
counters == <<starts, posts, losses>>

NoChannel == [n \in Names |-> 0]

Init ==
    /\ account \in Accounts
    /\ channels \in Guilds
    /\ pc = [c \in Clients |-> "off"]
    /\ chosen = [c \in Clients |-> NoChannel]
    /\ anew = [c \in Clients |-> TRUE]
    /\ from = [c \in Clients |-> 0]
    /\ seen = [c \in Clients |-> {}]
    /\ shows = [c \in Clients |-> 0]
    /\ events = [c \in Clients |-> {}]
    /\ upto = [c \in Clients |-> 0]
    /\ readyAt = [c \in Clients |-> 0]
    /\ missed = [c \in Clients |-> {}]
    /\ late = [c \in Clients |-> FALSE]
    /\ split = FALSE
    /\ starts = 0 /\ posts = 0 /\ losses = 0

Tx(c) == chosen[c]["tx"]
Log(c) == channels[Tx(c)].log
Pins(c) == channels[Tx(c)].pins
Goto(c, l) == pc' = [pc EXCEPT ![c] = l]

(* The variable f with its value for c replaced.                           *)
Set(f, c, x) == [f EXCEPT ![c] = x]

-----------------------------------------------------------------------------
(* dg.Open: from here on the gateway sends events.                         *)
Connect(c) ==
    /\ pc[c] = "off"
    /\ starts < MaxStarts
    /\ starts' = starts + 1
    /\ Goto(c, "list")
    /\ UNCHANGED <<channelVars, foundVars, setupVars, dbVars, events, readyAt,
                   missed, posts, losses>>

(* Mutant: any channel will do.                                            *)
AnyName(n) == DOMAIN channels

Named(n) == {k \in DOMAIN channels : channels[k].name = n}

(* GuildChannels: of several channels with one name the last of the answer *)
(* is taken, whose order is Discord's.  LastPinTimestamp is that of the    *)
(* answer.                                                                 *)
List(c) ==
    /\ pc[c] = "list"
    /\ \E found \in [Names -> DOMAIN channels \cup {0}] :
        /\ \A n \in Names : IF Named(n) = {} THEN found[n] = 0
                            ELSE found[n] \in Named(n)
        /\ chosen' = Set(chosen, c, found)
        /\ anew' = Set(anew, c, \/ found["tx"] = 0
                                \/ channels[found["tx"]].pins = {})
    /\ Goto(c, "prepare")
    /\ UNCHANGED <<channelVars, setupVars, dbVars, events, readyAt, missed,
                   counters>>

(* The missing channels are created one by one, in the order of a Go map.  *)
Create(c, n) ==
    /\ pc[c] = "prepare"
    /\ chosen[c][n] = 0
    /\ channels' = Append(channels, [name |-> n, log |-> <<>>, pins |-> {}])
    /\ chosen' = [chosen EXCEPT ![c][n] = Len(channels) + 1]
    /\ split' = (split \/ \E k \in DOMAIN channels : channels[k].name = n)
    /\ UNCHANGED <<account, pc, anew, setupVars, dbVars, events, readyAt,
                   missed, counters>>

(* A message by c in its tx channel: every connection gets an event.  An   *)
(* event of the account's own message does nothing, whenever it is handled *)
(* (m.Author.ID == s.State.User.ID), and is left out.                      *)
Hears(d, c) == pc[d] # "off" /\ account[d] # account[c]

Post(c, root) ==
    LET id == Len(Log(c)) + 1 IN
    /\ channels' = [channels EXCEPT ![Tx(c)].log =
                        Append(@, [author |-> c, root |-> root])]
    /\ events' = [d \in Clients |->
                    IF Hears(d, c)
                    THEN events[d] \cup {[channel |-> Tx(c), id |-> id]}
                    ELSE events[d]]

(* A mutant: the last message of the page is forgotten.                    *)
OneShort(log) == Len(log) - 1

LastMessage(log) == Len(log)

(* setupDB returns with the messages m..n in the database.                 *)
Holds(c, m, n) ==
    /\ from' = Set(from, c, m)
    /\ seen' = Set(seen, c, m..n) /\ shows' = Set(shows, c, n)
    /\ UNCHANGED late

(* setupDB without a start point: it posts the root folder and pins it.    *)
SendRoot(c) ==
    /\ pc[c] = "prepare"
    /\ \A n \in Names : chosen[c][n] # 0
    /\ anew[c]
    /\ Post(c, TRUE)
    /\ Holds(c, Len(Log(c)) + 1, Len(Log(c)) + 1)
    /\ upto' = Set(upto, c, Len(Log(c)) + 1)
    /\ Goto(c, "pin")
    /\ UNCHANGED <<account, foundVars, readyAt, missed, split, counters>>

PinRoot(c) ==
    /\ pc[c] = "pin"
    /\ channels' = [channels EXCEPT ![Tx(c)].pins = @ \cup {from[c]}]
    /\ Goto(c, "setup")
    /\ UNCHANGED <<account, foundVars, setupVars, dbVars, events, readyAt,
                   missed, split, counters>>

(* setupDB with one: the log from a pinned message on.                     *)
Replay(c) ==
    /\ pc[c] = "prepare"
    /\ \A n \in Names : chosen[c][n] # 0
    /\ ~anew[c]
    /\ \E m \in Pins(c) : Holds(c, m, LastMessage(Log(c)))
    /\ upto' = Set(upto, c, Len(Log(c)))
    /\ Goto(c, "setup")
    /\ UNCHANGED <<channelVars, foundVars, events, readyAt, missed, counters>>

(* setupWriter, NewDsfs, dsfsReady.Store(true); the mount follows.         *)
Ready(c) ==
    /\ pc[c] = "setup"
    /\ readyAt' = Set(readyAt, c, Len(Log(c)))
    /\ Goto(c, "live")
    /\ UNCHANGED <<channelVars, foundVars, setupVars, dbVars, events, missed,
                   counters>>

(* An operation of a mounted client, which its own database has already.   *)
SendTx(c) ==
    /\ pc[c] = "live"
    /\ posts < MaxPosts
    /\ posts' = posts + 1
    /\ Post(c, FALSE)
    /\ seen' = [seen EXCEPT ![c] = @ \cup {Len(Log(c)) + 1}]
    /\ shows' = Set(shows, c, Len(Log(c)) + 1)
    /\ UNCHANGED <<account, pc, foundVars, setupVars, readyAt, missed, late,
                   split, starts, losses>>

(* A mutant: the wrong channel is listened to.                             *)
DataChannel(c, e) == e.channel = chosen[c]["data"]

(* messageCreate: not ready, or a message of another channel: ignored.     *)
Concerns(c, e) == e.channel = Tx(c)
Handled(c, e) == [events EXCEPT ![c] = @ \ {e}]

MessageCreate(c, e) ==
    /\ events' = Handled(c, e)
    /\ \/ /\ pc[c] = "live"
          /\ Concerns(c, e)
          /\ seen' = [seen EXCEPT ![c] = @ \cup {e.id}]
          /\ shows' = Set(shows, c, e.id)
          /\ late' = [late EXCEPT ![c] = @ \/ e.id < shows[c]]
       \/ /\ pc[c] # "live" \/ ~Concerns(c, e)
          /\ UNCHANGED dbVars
    /\ UNCHANGED <<channelVars, pc, foundVars, setupVars, readyAt, missed,
                   counters>>

(* The websocket breaks and is opened anew: nothing fetches what was sent  *)
(* in between.                                                             *)
Lose(c, e) ==
    /\ losses < MaxLost
    /\ losses' = losses + 1
    /\ events' = [events EXCEPT ![c] = @ \ {e}]
    /\ missed' = [missed EXCEPT ![c] = @ \cup {e}]
    /\ UNCHANGED <<channelVars, pc, foundVars, setupVars, dbVars, readyAt,
                   starts, posts>>

(* The process ends: unmounted, killed, or after a failed call.            *)
Stop(c) ==
    /\ pc[c] # "off"
    /\ Goto(c, "off")
    /\ chosen' = Set(chosen, c, NoChannel) /\ anew' = Set(anew, c, TRUE)
    /\ from' = Set(from, c, 0) /\ upto' = Set(upto, c, 0)
    /\ seen' = Set(seen, c, {}) /\ shows' = Set(shows, c, 0)
    /\ late' = Set(late, c, FALSE) /\ readyAt' = Set(readyAt, c, 0)
    /\ events' = Set(events, c, {}) /\ missed' = Set(missed, c, {})
    /\ UNCHANGED <<channelVars, counters>>

Main(c) ==
    \/ List(c) \/ (\E n \in Names : Create(c, n))
    \/ SendRoot(c) \/ PinRoot(c) \/ Replay(c) \/ Ready(c)
Gateway(c) == \E e \in events[c] : MessageCreate(c, e)

Next ==
    \E c \in Clients :
        \/ Connect(c) \/ Main(c) \/ SendTx(c) \/ Gateway(c) \/ Stop(c)
        \/ \E e \in events[c] : Lose(c, e)

Spec == Init /\ [][Next]_vars

-----------------------------------------------------------------------------
(* Properties.                                                             *)

PC == {"off", "list", "prepare", "pin", "setup", "live"}
Event == [channel : DOMAIN channels, id : Nat]

(* The type invariant.  What could fail: no client has a message that is   *)
(* not in its log.                                                         *)
TypeOK ==
    /\ account \in Accounts
    /\ channels \in Seq(Channel)
    /\ pc \in [Clients -> PC]
    /\ chosen \in [Clients -> [Names -> 0..Len(channels)]]
    /\ anew \in [Clients -> BOOLEAN]
    /\ events \in [Clients -> SUBSET Event]
    /\ missed \in [Clients -> SUBSET Event]
    /\ \A c \in Clients : Tx(c) # 0 =>
        /\ seen[c] \subseteq DOMAIN Log(c)
        /\ {from[c], shows[c], upto[c], readyAt[c]} \subseteq 0..Len(Log(c))
    /\ late \in [Clients -> BOOLEAN] /\ split \in BOOLEAN

Settled(c) == pc[c] \in {"pin", "setup", "live"}

(* All clients use the same two channels, whichever of them created which, *)
(* and whoever stopped between the two: unless two first starts overlapped *)
(* and a channel was created twice, after which a client may write to one  *)
(* log and read from the other.                                            *)
SameChannels ==
    \A c, d \in Clients : Settled(c) /\ Settled(d) => \/ split
                                                      \/ chosen[c] = chosen[d]

(* The invariant of the channels.                                          *)
JoinInv == TypeOK /\ SameChannels

(* A first start that overlapped another, or followed one that stopped     *)
(* before its pin, has started the log a second time.                      *)
StartedTwice(c) ==
    \E i, j \in DOMAIN Log(c) : i # j /\ Log(c)[i].root /\ Log(c)[j].root

(* Why a mounted client may never see a message: it was posted after the   *)
(* client's last page and before it was ready, the event was lost, the     *)
(* author uses the same account, or the client begins at the second of two *)
(* start points.                                                           *)
Excused(c, id) ==
    \/ upto[c] < id /\ id <= readyAt[c]
    \/ [channel |-> Tx(c), id |-> id] \in missed[c]
    \/ account[Log(c)[id].author] = account[c]
    \/ id < from[c] /\ StartedTwice(c)

(* A mounted client has every message of its log, but for those that have  *)
(* still to be handled, and those excused: nothing falls between setupDB   *)
(* and messageCreate but what is posted in the gap before dsfsReady.       *)
NothingSkipped ==
    \A c \in Clients : pc[c] = "live" => \A id \in DOMAIN Log(c) :
        \/ id \in seen[c]
        \/ [channel |-> Tx(c), id |-> id] \in events[c]
        \/ Excused(c, id)

(* And its database shows the last of them, unless that one was excused or *)
(* it has applied a message after a younger one: a handler that was        *)
(* overtaken, or the late event of a message that setupDB had read.        *)
ShowsLatest ==
    \A c \in Clients : pc[c] = "live" =>
        LET last == Len(Log(c)) IN
        \/ shows[c] = last
        \/ [channel |-> Tx(c), id |-> last] \in events[c]
        \/ Excused(c, last) /\ last \notin seen[c]
        \/ late[c]
=============================================================================

------------------------------- MODULE MCJoin -------------------------------
(* Two clients with a token each or with one token, on a guild without     *)
(* channels, with one of the two, with a log that was not pinned, and with *)
(* a log in use.                                                           *)
EXTENDS Join

MCAccounts == {[c \in Clients |-> c], [c \in Clients |-> 1]}

Empty(n) == [name |-> n, log |-> <<>>, pins |-> {}]
Begun(pinned) ==
    [name |-> "tx", log |-> <<[author |-> 1, root |-> TRUE]>>, pins |-> pinned]
MCGuilds == {<<>>, <<Empty("data")>>,
             <<Empty("data"), Begun({})>>, <<Empty("data"), Begun({1})>>}
=============================================================================

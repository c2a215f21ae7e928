--------------------------- MODULE Subscriptions ---------------------------
(***************************************************************************)
(* What a Subscription of the live feed promises the client that holds it, *)
(* with no mutex, no Broadcaster and no wake-up in sight                   *)
(* (include/broadcast.hpp, lines 16-84).  Blocks are numbered in the order *)
(* they are published:                                                     *)
(*                                                                         *)
(*   push  never waits: while the Subscription is open it takes in the     *)
(*         next block, and a full one loses its oldest and counts it;      *)
(*   next  hands out the oldest block there is, with the count, reports    *)
(*         the end once the Subscription is closed and drained, and waits  *)
(*         otherwise;                                                      *)
(*   close is final, and takes nothing away.                               *)
(*                                                                         *)
(* Broadcast.tla, the feed as it is coded, implements this module, and     *)
(* LiveFeed.tla uses it.                                                   *)
(***************************************************************************)
EXTENDS Naturals, Sequences

CONSTANTS
    Clients,   \* the holders of a Subscription, one each
    Capacity,  \* how many blocks a Subscription holds
    Nothing    \* stands for "no block"

VARIABLES
    known,   \* known[c]: the last block c was handed, or was too late for
    buffer,  \* buffer[c]: the blocks it was not handed yet, oldest first
    lagged,  \* lagged[c]: how many it has lost since
    open,    \* the clients whose Subscription is not closed
    client,  \* client[c]: what it is doing
    got      \* got[c]: what next() returned and c has yet to pass on

subvars == <<known, buffer, lagged, open, client, got>>

SubscriptionsTypeOK ==
    /\ known \in [Clients -> Nat]
    /\ buffer \in [Clients -> Seq(Nat)]
    /\ lagged \in [Clients -> Nat]
    /\ open \subseteq Clients
    /\ client \in [Clients -> {"none", "asking", "holding", "gone"}]
    /\ got \in [Clients -> [block : Nat, lagged : Nat] \cup {Nothing}]

Init ==
    /\ known = [c \in Clients |-> 0]
    /\ buffer = [c \in Clients |-> <<>>]
    /\ lagged = [c \in Clients |-> 0]
    /\ open = {}
    /\ client = [c \in Clients |-> "none"]
    /\ got = [c \in Clients |-> Nothing]

\* It is owed what is published from now on, and nothing that was before.
Subscribe(c) ==
    /\ client[c] = "none"
    /\ client' = [client EXCEPT ![c] = "asking"]
    /\ open' = open \cup {c}
    /\ known'[c] \in Nat
    /\ known' = [known EXCEPT ![c] = known'[c]]
    /\ UNCHANGED <<buffer, lagged, got>>

\* The number of the block that is next for c.
Newest(c) == known[c] + lagged[c] + Len(buffer[c])

TakeIn(c) ==
    /\ c \in open
    /\ Len(buffer[c]) < Capacity
    /\ buffer' = [buffer EXCEPT ![c] = Append(@, Newest(c) + 1)]
    /\ UNCHANGED <<known, lagged, open, client, got>>

LoseOldest(c) ==
    /\ c \in open
    /\ Len(buffer[c]) = Capacity
    /\ buffer' = [buffer EXCEPT ![c] = Append(Tail(@), Newest(c) + 1)]
    /\ lagged' = [lagged EXCEPT ![c] = @ + 1]
    /\ UNCHANGED <<known, open, client, got>>

HandOut(c) ==
    /\ client[c] = "asking"
    /\ buffer[c] # <<>>
    /\ got' = [got EXCEPT ![c] = [block |-> known[c] + lagged[c] + 1, lagged |-> lagged[c]]]
    /\ known' = [known EXCEPT ![c] = @ + lagged[c] + 1]
    /\ buffer' = [buffer EXCEPT ![c] = Tail(@)]
    /\ lagged' = [lagged EXCEPT ![c] = 0]
    /\ client' = [client EXCEPT ![c] = "holding"]
    /\ UNCHANGED open

\* The client passes on first that it lost blocks, then the block, and asks again: in one
\* step or in two.
PassOnLag(c) ==
    /\ client[c] = "holding"
    /\ got[c].lagged > 0
    /\ got' = [got EXCEPT ![c] = [block |-> @.block, lagged |-> 0]]
    /\ UNCHANGED <<known, buffer, lagged, open, client>>

AskAgain(c) ==
    /\ client[c] = "holding"
    /\ client' = [client EXCEPT ![c] = "asking"]
    /\ got' = [got EXCEPT ![c] = Nothing]
    /\ UNCHANGED <<known, buffer, lagged, open>>

\* It cannot pass on what it has, and does not come back.
GiveUp(c) ==
    /\ client[c] = "holding"
    /\ client' = [client EXCEPT ![c] = "gone"]
    /\ got' = [got EXCEPT ![c] = Nothing]
    /\ UNCHANGED <<known, buffer, lagged, open>>

Close(c) ==
    /\ open' = open \ {c}
    /\ UNCHANGED <<known, buffer, lagged, client, got>>

ReportEnd(c) ==
    /\ client[c] = "asking"
    /\ c \notin open
    /\ buffer[c] = <<>>
    /\ client' = [client EXCEPT ![c] = "gone"]
    /\ UNCHANGED <<known, buffer, lagged, open, got>>

Next ==
    \E c \in Clients :
        \/ Subscribe(c) \/ TakeIn(c) \/ LoseOldest(c) \/ Close(c)
        \/ HandOut(c) \/ PassOnLag(c) \/ AskAgain(c) \/ GiveUp(c) \/ ReportEnd(c)

SafeSpec == Init /\ [][Next]_subvars
=============================================================================

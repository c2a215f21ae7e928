----------------------------- MODULE MCWsServer -----------------------------
(* Instances of WsServer for TLC.                                          *)
EXTENDS WsServer

All(kinds) == [c \in Clients |-> kinds]

\* A client that stays, one that leaves, one that is refused, one that is refused and
\* vanishes or is late, and one that may do anything with the feed.
MCWorlds == {All({}), All({"leave"}), All({"refused"}), All({"refused", "vanish", "late"}),
             All(BehaviourKinds \ {"absent", "refused"})}

MCVanish == {All({"vanish"})}
=============================================================================

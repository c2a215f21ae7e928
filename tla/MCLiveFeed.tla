------------------------------ MODULE MCLiveFeed ------------------------------
(* Instances of LiveFeed for TLC.                                           *)
EXTENDS LiveFeed

\* All dashboards while nothing breaks, or those that read while connections do.
MCWorlds ==
    {[tabs |-> Tabs, breaks |-> 0], [tabs |-> Tabs \ Stalled, breaks |-> 2]}
===============================================================================

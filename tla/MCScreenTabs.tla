---------------------------- MODULE MCScreenTabs ----------------------------
(* ScreenTabs for TLC.                                                     *)
EXTENDS ScreenTabs, TLC

CONSTANTS
    MaxHistory,  \* bound: tabs a client's history remembers
    MaxWaiting   \* bound: tab switches that wait for pending tabs

Bounded ==
    /\ \A c \in DOMAIN screen.history : Len(screen.history[c]) <= MaxHistory
    /\ Cardinality(pending_tab_switches) <= MaxWaiting
=============================================================================

----------------------------- MODULE MCTabPanes -----------------------------
(* TabPanes for TLC.  Clients, terminals and plugins are each alike: what   *)
(* the code chooses by their numbers is any of them in TabPanes.           *)
EXTENDS TabPanes, TLC

Symmetry ==
    Permutations(Clients) \cup Permutations(Terminals) \cup Permutations(Plugins)

=============================================================================

------------------------------ MODULE MCPlugins ------------------------------
(* Plugins for TLC.                                                        *)
EXTENDS Plugins, TLC

Symmetry == Permutations(Clients) \cup Permutations(Ids) \cup Permutations(Sizes)

=============================================================================

-------------------------- MODULE MCTiledPaneGrid --------------------------
(* TiledPaneGrid for TLC.  Ids only tell panes apart.                      *)
EXTENDS TiledPaneGrid, TLC

Symmetry == Permutations(Ids)
McScreens == {[x |-> 23, y |-> 11], [x |-> 20, y |-> 12], [x |-> 2, y |-> 12]}

=============================================================================

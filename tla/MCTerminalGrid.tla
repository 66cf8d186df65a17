--------------------------- MODULE MCTerminalGrid ---------------------------
(* Programs, users and sizes to check the grid of a pane with.              *)
EXTENDS TerminalGrid

Ops(dos) == {[do |-> do] : do \in dos}
Go(x, y) == [do |-> "go", x |-> x, y |-> y]
SetRegion(top, bottom) == [do |-> "region", top |-> top, bottom |-> bottom]

Keys  == {"up", "down", "bottom", "top"}
Mouse == {"drag up", "drag down", "clear"}

(* a shell and full screen programs                                         *)
Shell ==
    [writes  |-> Ops({"newline", "return", "up", "right", "below", "all",
                      "alternate", "main", "save", "restore"}) \cup {Go(0, 0)},
     scrolls |-> Keys]

(* an editor that scrolls parts of the screen                               *)
Regions ==
    [writes  |-> Ops({"newline", "up", "no region", "delete", "insert",
                      "rotate up", "rotate down", "origin", "no origin"})
                     \cup {Go(0, 0), SetRegion(0, 0), SetRegion(1, 1), SetRegion(0, 1)},
     scrolls |-> Keys]

(* lines that are parted, rows that are too wide, resets                    *)
Rare ==
    [writes  |-> Ops({"newline", "line feed", "up", "forward", "line", "left",
                      "above", "delete character", "reverse", "scrollback", "reset"}),
     scrolls |-> Keys]

(* a program that draws in place                                            *)
Drawing ==
    [writes  |-> Ops({"newline", "down", "back", "columns",
                      "blank character", "insert character"}) \cup {Go(1,0)},
     scrolls |-> Keys]

(* a user with a mouse                                                      *)
Selecting ==
    [writes |-> Ops({"newline", "return"}) \cup {Go(1, 0)}, scrolls |-> Keys \cup Mouse]

AllSessions == {Shell, Drawing, Regions, Selecting, Rare}
Plain       == {[writes |-> Ops({"newline"}), scrolls |-> {"up", "bottom"}]}
Small       == {<<2, 2>>, <<3, 2>>, <<2, 3>>}
InitSmall       == <<2, 2>>
=============================================================================

------------------------------- MODULE PaneLife -------------------------------
(***************************************************************************)
(* What the server promises of the panes that show a command: a pane is    *)
(* held, or goes away, when its own process has ended or when the user     *)
(* asked for it, and for no other reason; a process that was started gets  *)
(* its pane, its end is shown, and what is run again starts.               *)
(*                                                                         *)
(* PtyTerminals is shown to implement this.                                *)
(***************************************************************************)
CONSTANT Opened    \* the panes asked for, one name for each request

VARIABLE life      \* of each, what the screen shows and how its process is

Shown     == {"none", "open", "held", "gone"}
Processes == {"none", "awaited", "running", "ended", "over"}
Lives     == Shown \X Processes

Unborn == <<"none", "none">>

Move(from, to) == from \X to

With(shown, process) == {<<shown, process>>}

(* A command that is not there has ended as soon as it is started.          *)
Launch ==
    UNION {Move(With(s, "awaited"), {<<s, "running">>, <<s, "ended">>}) : s \in Shown}
    \cup Move({Unborn}, {<<"none", "running">>, <<"none", "ended">>})

Show ==
    UNION {Move(With("none", p), With("open", p)) : p \in {"running", "ended"}}

ShowSuspended == Move({Unborn}, With("held", "none"))

End == UNION {Move(With(s, "running"), With(s, "ended")) : s \in Shown}

Hold  == Move(With("open", "ended"), With("held", "ended"))
Leave == Move(With("open", "ended"), With("gone", "over"))

Restart == Move({"held"} \X Processes, With("open", "awaited"))

(* The user closes the pane, or there was no room for it.                   *)
Dismiss == Move({a \in Lives : a[1] # "gone"}, With("gone", "over"))

Moves ==
    Launch \cup Show \cup ShowSuspended \cup End \cup Hold \cup Leave
      \cup Restart \cup Dismiss

(* A process without its pane, an end that is not shown, a command that is  *)
(* to run again                                                             *)
Owing ==
    {<<"none", "running">>, <<"none", "ended">>, <<"open", "ended">>}
      \cup (Shown \X {"awaited"})

Init == life = [p \in Opened |-> Unborn]

(* Several panes may change at once: a layout.                              *)
Next == \A p \in Opened : life'[p] = life[p] \/ <<life[p], life'[p]>> \in Moves

Liveness == \A p \in Opened : life[p] \in Owing ~> life[p] \notin Owing

Safety == Init /\ [][Next]_life

Spec == Safety /\ Liveness

=============================================================================

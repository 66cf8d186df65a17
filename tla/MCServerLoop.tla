---------------------------- MODULE MCServerLoop ----------------------------
(* Up to three connections for ServerLoop.                                 *)
EXTENDS ServerLoop, TLC

CONSTANTS c1, c2, c3

(* A session of the terminal, one client of which gives commands           *)
Plain ==
    [role |-> c1 :> "new" @@ c2 :> "attach" @@ c3 :> "probe", foreground |-> FALSE,
     slow |-> {}, busy |-> {c2}, tabsClose |-> FALSE, draws |-> FALSE,
     switches |-> 0]

(* Two clients, one of which may not keep up, and the last tab may be       *)
(* closed, or a client switched to another session                          *)
Closing ==
    [role |-> c1 :> "new" @@ c2 :> "attach" @@ c3 :> "nobody", foreground |-> FALSE,
     slow |-> {c2}, busy |-> {}, tabsClose |-> TRUE, draws |-> FALSE,
     switches |-> 0]

Switching == [Closing EXCEPT !.tabsClose = FALSE, !.switches = 1]

(* The client that may not keep up is resized, also after it was removed    *)
Resizing == [Closing EXCEPT !.tabsClose = FALSE, !.busy = {c2}]

(* The server of sshd, started by init_zellij_client: it is killed later,   *)
(* or draws for its client                                                  *)
Ssh ==
    [role |-> c1 :> "init" @@ c2 :> "ssh" @@ c3 :> "kill", foreground |-> TRUE,
     slow |-> {}, busy |-> {}, tabsClose |-> FALSE, draws |-> FALSE,
     switches |-> 0]

SshDrawing ==
    [Ssh EXCEPT !.role = c1 :> "init" @@ c2 :> "ssh" @@ c3 :> "nobody",
                !.draws = TRUE]

OrderlySettings == {Plain}
LeavingSettings == {Closing, Switching, Resizing, Ssh, SshDrawing}
=============================================================================

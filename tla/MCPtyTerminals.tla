---------------------------- MODULE MCPtyTerminals ----------------------------
(* PtyTerminals for TLC.                                                    *)
EXTENDS PtyTerminals

OneCommand == <<"command">>

=============================================================================

----------------------------- MODULE MCIpcQueue -----------------------------
(* Two clients with different projects and a command each; one of the        *)
(* commands is to be continued in the GUI. No command has a timeout.         *)
EXTENDS IpcQueueProperties, TLC

CONSTANTS c1, c2, p1, p2

MCConv == {c1, c2}
MCProject == (c1 :> p1) @@ (c2 :> p2)
MCCommands == (c1 :> 1) @@ (c2 :> 1)
MCPatient == MCConv
MCGui == {c1}
=============================================================================

---------------------------- MODULE MCDispatcher ----------------------------
(* Two scripts, two folders on the network and the mail server, for TLC.    *)
EXTENDS DispatcherProperties

CONSTANTS s1, s2, near, far

MCScript == {s1, s2}
MCLan == {near, far}
MCTransport == {near, far, Email}
MCMail == {Email}
MCRoute == [s \in {s1, s2} |-> IF s = s1 THEN {near, Email} ELSE {near, far, Email}]
OneFolder == [s \in {s1, s2} |-> IF s = s1 THEN {near} ELSE {near, Email}]
=============================================================================

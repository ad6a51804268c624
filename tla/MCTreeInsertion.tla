--------------------------- MODULE MCTreeInsertion ---------------------------
(* Trees of up to four scripts by three authors, for TLC.                    *)
EXTENDS TreeInsertion

Limit211 == <<2, 1, 1>>
=============================================================================

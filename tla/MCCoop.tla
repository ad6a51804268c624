------------------------------- MODULE MCCoop -------------------------------
(* Small projects for TLC: who checks in how many scripts, and which of them *)
(* may turn out unreadable.                                                  *)
EXTENDS CoopProperties

Limit12  == <<1, 2>>
Limit20  == <<2, 0>>
Limit31  == <<3, 1>>
Limit110 == <<1, 1, 0>>

OnlyOne == {<<1, 1>>}
=============================================================================

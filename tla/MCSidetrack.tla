---------------------------- MODULE MCSidetrack ----------------------------
(* A small project for TLC.                                                 *)
EXTENDS SidetrackProperties

CONSTANT s1

OneScript == {s1}
TwoMembers == {1, 2}
OneMember == {2}
AuthorFirst == [s \in Script |-> 1]
OnlyLast == [s \in Script |-> {2}]
TwoSizes == {1, 2}
PartsOf == [z \in TwoSizes |-> 2]
=============================================================================

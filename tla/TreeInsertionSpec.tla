-------------------------- MODULE TreeInsertionSpec --------------------------
(***************************************************************************)
(* What inserting scripts in a history promises: in one step a new script,  *)
(* or a chain of two placeholders, is put in its place in the tree.  In     *)
(* between the rest of the program may move the FIS marker to any executed  *)
(* and confirmed script of the trunk.                                       *)
(***************************************************************************)
EXTENDS HistoryTree

VARIABLE history

NewIds(h) == Script \ Ids(h.nodes)

(* An author never starts two branches from one script.                     *)
Attachable(h, id) ==
    {h.nodes[i].id : i \in {p \in DOMAIN h.nodes :
        \A j \in BranchHeads(h.nodes, p) : Author(h.nodes[j].id) # Author(id)}}

Single(id, pred, exe) == <<ScriptNode(id, pred, IF exe THEN {} ELSE {Author(id)}, exe)>>

Singles(h) ==
    UNION {{Single(id, pred, exe) : pred \in Attachable(h, id), exe \in BOOLEAN} :
              id \in NewIds(h)}

MissingPairs(h) ==
    UNION {{MissingChain(pred, ids) : pred \in Attachable(h, ids[1])} :
              ids \in {x \in NewIds(h) \X NewIds(h) : x[1] # x[2]}}

Chains(h) == Singles(h) \cup MissingPairs(h)

Settled(h) == {h.nodes[i].id : i \in {j \in DOMAIN h.nodes :
                                   Executed(h.nodes[j]) /\ Confirmed(h.nodes[j])}}

InsertedHistory == [nodes |-> <<ScriptNode(Root, NoId, {}, TRUE)>>, fis |-> Root]

InitSpec == history = InsertedHistory

InsertAtOnce ==
    \E chain \in Chains(history) : history' = InsertChain(history, chain[1].pred, chain)

MoveFis == \E id \in Settled(history) : history' = [history EXCEPT !.fis = id]

Spec == InitSpec /\ [][InsertAtOnce \/ MoveFis]_history

=============================================================================

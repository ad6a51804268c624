---------------------------- MODULE TreeInsertion ----------------------------
(***************************************************************************)
(* How the program finds the place of a new script: XTraverseTree walks the *)
(* array forward from the predecessor, once, and asks InsertGatherer at     *)
(* each node whether to go on.  The gatherer rejects the nodes it passes on *)
(* a trunk that lost, skips rejected branches that lose anyway, and keeps a *)
(* stack of branch points to notice when the walk leaves a branch.  A chain *)
(* of scripts is inserted one script at a time.                             *)
(***************************************************************************)
EXTENDS HistoryTree

VARIABLES
    nodes,     \* the array
    fis,       \* the First Interesting Script
    todo,      \* scripts still to insert
    pos,       \* position of the sequencer; 0 when nothing is being inserted
    walking,   \* the traversal has not stopped
    gatherer,  \* InsertGatherer
    before     \* the history before the insertion began (for the refinement)

vars == <<nodes, fis, todo, pos, walking, gatherer, before>>

Abstract == INSTANCE TreeInsertionSpec WITH
    history <- IF pos = 0 THEN [nodes |-> nodes, fis |-> fis] ELSE before

NewGatherer ==
    [parent |-> 0, makeBranchingPoint |-> FALSE, keepRejecting |-> FALSE,
     keepSkipping |-> FALSE, stack |-> <<>>]

Init ==
    /\ nodes = Abstract!InsertedHistory.nodes
    /\ fis = Root
    /\ todo = <<>>
    /\ pos = 0
    /\ walking = FALSE
    /\ gatherer = NewGatherer
    /\ before = Abstract!InsertedHistory

Begin(chain) ==
    /\ pos = 0
    /\ todo' = chain
    /\ pos' = FindIdx(nodes, chain[1].pred)
    /\ walking' = TRUE
    /\ gatherer' = NewGatherer
    /\ before' = [nodes |-> nodes, fis |-> fis]
    /\ UNCHANGED <<nodes, fis>>

SettleFis ==
    /\ pos = 0
    /\ \E id \in Abstract!Settled([nodes |-> nodes, fis |-> fis]) : fis' = id
    /\ UNCHANGED <<nodes, todo, pos, walking, gatherer, before>>

Current == nodes[pos]

Push(g, id) == [g EXCEPT !.stack = Append(@, id)]

(* Pop to the branch point id; leaving the original one's branch ends skipping. *)
DepthOf(g, id) == Greatest({k \in DOMAIN g.stack : g.stack[k] = id}, 0)

(* Variant: the walk goes on skipping behind the branch it skipped. *)
BackStillSkipping(g, id) == [g EXCEPT !.stack = SubSeq(@, 1, DepthOf(g, id))]

BackTo(g, id) ==
    [g EXCEPT !.stack = SubSeq(@, 1, DepthOf(g, id)),
              !.keepSkipping = @ /\ DepthOf(g, id) # 1]

(* Variant: branch points on the way are not remembered. *)
PassUnnoticed(g, n) == g

PassBranchPoint(g, n) == IF n.bp THEN Push(g, n.id) ELSE g

(* The rest of an iteration of XTraverseTree: the gatherer, now g, wants to  *)
(* go on and has left the array t.                                          *)
GoOn(g, t) ==
    LET g1     == PassBranchPoint(g, t[pos])
        atEnd  == pos = Len(t)
        leaves == ~atEnd /\ t[pos + 1].pred # t[pos].id
    IN  /\ nodes' = t
        /\ pos' = pos + 1
        /\ gatherer' = IF atEnd THEN BackTo(g1, NoId)
                       ELSE IF leaves THEN BackTo(g1, t[pos + 1].pred)
                       ELSE g1
        /\ walking' = (~atEnd /\ (leaves => DepthOf(g1, t[pos + 1].pred) # 0))
        /\ UNCHANGED <<fis, todo, before>>

RejectNode(t) == Replace(t, pos, [t[pos] EXCEPT !.rej = TRUE])

KeepSkipping ==
    /\ walking /\ gatherer.keepSkipping
    /\ GoOn(gatherer, nodes)

KeepRejecting ==
    /\ walking /\ gatherer.keepRejecting
    /\ GoOn(gatherer, RejectNode(nodes))

ProcessParent ==
    /\ walking /\ gatherer.parent = 0
    /\ GoOn([gatherer EXCEPT !.parent = pos, !.makeBranchingPoint = ~Current.bp], nodes)

(* The array and the gatherer at the head of a branch from the parent.       *)
MarkedNodes ==
    IF gatherer.makeBranchingPoint
      THEN Replace(nodes, gatherer.parent, [nodes[gatherer.parent] EXCEPT !.bp = TRUE])
      ELSE nodes

AtHead ==
    IF gatherer.makeBranchingPoint
      THEN Push([gatherer EXCEPT !.makeBranchingPoint = FALSE], nodes[gatherer.parent].id)
      ELSE gatherer

AtBranchHead ==
    /\ walking /\ gatherer.parent # 0
    /\ ~gatherer.keepSkipping /\ ~gatherer.keepRejecting

NewScriptLoses ==
    /\ AtBranchHead
    /\ HigherPriority(Current, Author(todo[1].id))
    /\ nodes' = MarkedNodes
    /\ gatherer' = AtHead
    /\ walking' = FALSE
    /\ UNCHANGED <<fis, todo, pos, before>>

BranchAlreadyLost ==
    /\ AtBranchHead
    /\ ~HigherPriority(Current, Author(todo[1].id))
    /\ Current.rej
    /\ GoOn([AtHead EXCEPT !.keepSkipping = TRUE], MarkedNodes)

NewScriptWins ==
    /\ AtBranchHead
    /\ ~HigherPriority(Current, Author(todo[1].id))
    /\ ~Current.rej
    /\ GoOn([AtHead EXCEPT !.keepRejecting = TRUE], RejectNode(MarkedNodes))

(* Put the script where the sequencer stopped.                               *)
Place ==
    LET atEnd == pos > Len(nodes)
        new   == [todo[1] EXCEPT !.rej = @ \/ ~atEnd]
        t     == SubSeq(nodes, 1, pos - 1) \o <<new>> \o SubSeq(nodes, pos, Len(nodes))
        last  == Greatest({j \in DOMAIN t : Executed(t[j]) /\ Confirmed(t[j])}, 0)
    IN  /\ pos # 0 /\ ~walking
        /\ nodes' = t
        /\ fis' = IF atEnd /\ gatherer.keepRejecting THEN t[last].id ELSE fis
        /\ todo' = Tail(todo)
        /\ pos' = IF Len(todo) = 1 THEN 0 ELSE FindIdx(t, todo[2].pred)
        /\ walking' = (Len(todo) > 1)
        /\ gatherer' = NewGatherer
        /\ UNCHANGED before

Next ==
    \/ \E chain \in Abstract!Chains([nodes |-> nodes, fis |-> fis]) : Begin(chain)
    \/ SettleFis
    \/ KeepSkipping
    \/ KeepRejecting
    \/ ProcessParent
    \/ NewScriptLoses
    \/ BranchAlreadyLost
    \/ NewScriptWins
    \/ Place

Spec == Init /\ [][Next]_vars

----------------------------------------------------------------------------

(***************************************************************************)
(* The one-pass walk with its three flags and its stack puts every script   *)
(* where the tree of branches requires, and rejects exactly the trunk that  *)
(* lost: each insertion, seen as one step, is an insertion of the abstract  *)
(* specification, which knows of branches and subtrees only.                *)
(***************************************************************************)
ImplementsInsertion == Abstract!Spec

(* The walk never passes the end of the array without noticing, and the     *)
(* scripts it has rejected when it stops are those that the new one beats:  *)
(* a branch is rejected only if the new script ends the array.              *)
RejectsOnlyWhenWinning ==
    pos # 0 /\ ~walking /\ gatherer.keepRejecting => pos = Len(nodes) + 1

=============================================================================

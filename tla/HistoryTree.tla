---------------------------- MODULE HistoryTree ----------------------------
(***************************************************************************)
(* The tree of set-change scripts that every project member keeps          *)
(* (History::SortedTree over an array of History::Node).  The array holds  *)
(* the tree in depth-first order: of the branches that leave one branch    *)
(* point the winning one, whose first script has the author with the       *)
(* smallest user id, comes last, so that the accepted trunk ends the array.*)
(*                                                                         *)
(* A history is a record with the array (nodes) and the First Interesting  *)
(* Script marker (fis), the confirmed script at which most searches stop.  *)
(* Nothing here is recursive: each search of the code is stated as the     *)
(* index it stops at.                                                      *)
(***************************************************************************)
EXTENDS Integers, Sequences, FiniteSets

CONSTANTS
    Member,     \* user ids of the voting members; a smaller id has priority
    Limit       \* bound: how many scripts each member may check in

ASSUME MemberAssumption == Member \subseteq Nat \ {0} /\ Limit \in [Member -> Nat]

NoId   == <<0, 0>>    \* gidInvalid
Root   == <<0, 1>>    \* the project creation marker every member starts from
Script == UNION {{m} \X (1 .. Limit[m]) : m \in Member}
Gid    == Script \cup {Root}

Author(id) == id[1]

User == Member \cup {Author(Root)}

Node == [id   : Gid, pred : Gid \cup {NoId},
         acks : SUBSET User,       \* users whose acknowledgment is awaited
         rej  : BOOLEAN, mis : BOOLEAN, exe : BOOLEAN, bp : BOOLEAN]

History == [nodes : Seq(Node), fis : Gid]

----------------------------------------------------------------------------
(* The states of a node *)

Rejected(n)     == ~n.exe /\ n.rej
Executed(n)     == n.exe /\ ~n.rej
ToBeRejected(n) == n.exe /\ n.rej
Candidate(n)    == ~n.exe /\ ~n.rej /\ ~n.mis
Confirmed(n)    == n.acks = {}

(***************************************************************************)
(* Node constructors: a script received or checked in, and the placeholder *)
(* of a script known only by its id from somebody's lineage, which awaits  *)
(* the make-reference of its author.                                       *)
(***************************************************************************)
ScriptNode(id, pred, acks, exe) ==
    [id |-> id, pred |-> pred, acks |-> acks,
     rej |-> FALSE, mis |-> FALSE, exe |-> exe, bp |-> FALSE]

MissingNode(id, pred) ==
    [ScriptNode(id, pred, {Author(id)}, FALSE) EXCEPT !.mis = TRUE]

----------------------------------------------------------------------------
(* Finding a node, its subtree and its predecessors *)

Ids(t) == {t[i].id : i \in DOMAIN t}

(* The indices in S from the first to the last, and the ids of their nodes.  *)
InOrder(S) == [k \in 1 .. Cardinality(S) |-> CHOOSE i \in S : Cardinality({j \in S : j <= i}) = k]

IdsAt(t, S) == [k \in 1 .. Cardinality(S) |-> t[InOrder(S)[k]].id]

FindIdx(t, id) ==
    IF \E i \in DOMAIN t : t[i].id = id
      THEN CHOOSE i \in DOMAIN t : t[i].id = id
      ELSE 0

FindNode(t, id) == t[FindIdx(t, id)]

Replace(t, i, n) == [j \in 1 .. Len(t) |-> IF j = i THEN n ELSE t[j]]

Least(S, none)    == IF S = {} THEN none ELSE CHOOSE i \in S : \A j \in S : i <= j
Greatest(S, none) == IF S = {} THEN none ELSE CHOOSE i \in S : \A j \in S : j <= i

(* Index just after the subtree of t[p]: the first later node whose          *)
(* predecessor is not in it.                                                *)
SubtreeEnd(t, p) ==
    Least({j \in p + 1 .. Len(t) : \A k \in p .. j - 1 : t[k].id # t[j].pred},
          Len(t) + 1)

Subtree(t, p) == p .. SubtreeEnd(t, p) - 1

BranchHeads(t, p) == {j \in Subtree(t, p) : t[j].pred = t[p].id}

Path(t, i) == {j \in 1 .. i : i \in Subtree(t, j)}

(* A missing script on the way from t[i] back to the first executed one.    *)
HasMissingPredecessors(t, i) ==
    \E j \in Path(t, i) :
        /\ t[j].mis
        /\ \A k \in Path(t, i) : k > j => ~Executed(t[k])

----------------------------------------------------------------------------
(* Inserting scripts *)

(* Variant: the script that came last wins. *)
LastComerWins(n, user) == FALSE

HigherPriority(n, user) == Author(n.id) < user

(***************************************************************************)
(* The branch head, among those that leave t[p], at which the search for   *)
(* the place of a script by user is decided: the first that beats the user *)
(* or is on the trunk.  0 when every branch is a rejected one of lower     *)
(* priority, or when t[p] is a leaf.                                       *)
(***************************************************************************)
DecidingHead(t, p, user) ==
    Least({h \in BranchHeads(t, p) : HigherPriority(t[h], user) \/ ~t[h].rej}, 0)

Wins(t, p, user) ==
    LET h == DecidingHead(t, p, user)
    IN  h # 0 /\ ~HigherPriority(t[h], user)

(* Variant: the new script always goes behind its siblings. *)
BehindSiblings(t, p, user) == SubtreeEnd(t, p)

InsertionIdx(t, p, user) ==
    LET h == DecidingHead(t, p, user)
    IN  IF h # 0 /\ HigherPriority(t[h], user) THEN h ELSE SubtreeEnd(t, p)

(* The parent becomes a branch point; the trunk that lost is rejected.      *)
PrepareBranch(t, p, user) ==
    [i \in 1 .. Len(t) |->
        [t[i] EXCEPT
            !.bp  = @ \/ (i = p /\ BranchHeads(t, p) # {}),
            !.rej = @ \/ (/\ Wins(t, p, user)
                          /\ i \in DecidingHead(t, p, user) .. SubtreeEnd(t, p) - 1)]]

(* A FIS marker that the new winner may have pushed off the trunk goes back *)
(* to the last executed confirmed script.                                   *)
RepairedFis(t, fis) ==
    LET i == Greatest({j \in DOMAIN t : Executed(t[j]) /\ Confirmed(t[j])}, 0)
    IN  IF i = 0 THEN fis ELSE t[i].id

(***************************************************************************)
(* chain is a sequence of new nodes, each the predecessor of the next; the *)
(* first one follows the script pred.  Each is inserted in its turn, and   *)
(* all but the first find their predecessor a leaf, so they stay together. *)
(***************************************************************************)
InsertChain(h, pred, chain) ==
    LET t    == h.nodes
        p    == FindIdx(t, pred)
        user == Author(chain[1].id)
        at   == InsertionIdx(t, p, user)
        t1   == PrepareBranch(t, p, user)
        atEnd == at = Len(t) + 1
        new  == [i \in 1 .. Len(chain) |-> [chain[i] EXCEPT !.rej = @ \/ ~atEnd]]
        t2   == SubSeq(t1, 1, at - 1) \o new \o SubSeq(t1, at, Len(t))
    IN  [nodes |-> t2,
         fis   |-> IF atEnd /\ Wins(t, p, user) THEN RepairedFis(t2, h.fis) ELSE h.fis]

InsertNewNode(h, n) == InsertChain(h, n.pred, <<n>>)

(* Variant: every bit of the placeholder is kept. *)
SubstituteAllBits(h, n) ==
    LET i == FindIdx(h.nodes, n.id)
    IN  [h EXCEPT !.nodes =
            Replace(@, i, [n EXCEPT !.rej = h.nodes[i].rej, !.bp = h.nodes[i].bp,
                                    !.mis = h.nodes[i].mis])]

(* A script takes the place of its placeholder and keeps its place's bits.   *)
SubstituteNode(h, n) ==
    LET i == FindIdx(h.nodes, n.id)
    IN  [h EXCEPT !.nodes =
            Replace(@, i, [n EXCEPT !.rej = h.nodes[i].rej, !.bp = h.nodes[i].bp])]

----------------------------------------------------------------------------
(* Confirming scripts *)

FisIdx(h) == FindIdx(h.nodes, h.fis)

(* Variant: a script not executed yet may become the marker. *)
IsConfirmedOnly(n) == Confirmed(n)

IsCandidateForFis(n) == Confirmed(n) /\ Executed(n)

NoMoreCandidatesForFis(n) ==
    \/ ~Confirmed(n) /\ ~Rejected(n)
    \/ n.mis
    \/ Candidate(n)
    \/ ToBeRejected(n)

AdvanceFis(h) ==
    LET t    == h.nodes
        from == FisIdx(h)
        stop == Least({j \in from + 1 .. Len(t) :
                          ~IsCandidateForFis(t[j]) /\ NoMoreCandidatesForFis(t[j])},
                      Len(t) + 1)
        best == Greatest({j \in from + 1 .. stop - 1 : IsCandidateForFis(t[j])}, 0)
    IN  IF best = 0 THEN h.fis ELSE t[best].id

(* Variant: everything after the confirmed script is confirmed too. *)
ConfirmAllNodes(h, i) ==
    LET h1 == [h EXCEPT !.nodes =
                  [j \in DOMAIN @ |-> IF j > FisIdx(h) THEN [@[j] EXCEPT !.acks = {}] ELSE @[j]]]
    IN  IF i >= FisIdx(h) THEN [h1 EXCEPT !.fis = AdvanceFis(h1)] ELSE h

(* Once t[i] is confirmed so is everything before it, in array order, back  *)
(* to the script confirmed before it; then the FIS marker may advance.      *)
ConfirmAllOlderNodes(h, i) ==
    LET t    == h.nodes
        last == Greatest({j \in FisIdx(h) .. i - 1 : Confirmed(t[j])}, FisIdx(h) - 1)
        h1   == [h EXCEPT !.nodes =
                    [j \in 1 .. Len(t) |->
                        IF j \in last + 1 .. i - 1 THEN [t[j] EXCEPT !.acks = {}] ELSE t[j]]]
    IN  IF i >= FisIdx(h) THEN [h1 EXCEPT !.fis = AdvanceFis(h1)] ELSE h

(* Variant: one acknowledgment counts for all. *)
AckFromAnyone(n, from) == [n EXCEPT !.acks = {}]

AckFrom(n, from) == [n EXCEPT !.acks = @ \ {from}]

(* One acknowledgment arrives; scripts before the FIS are not looked for.   *)
AcceptAck(h, id, from) ==
    LET i  == FindIdx(h.nodes, id)
        h1 == [h EXCEPT !.nodes = Replace(@, i, AckFrom(@[i], from))]
    IN  IF i = 0 \/ i < FisIdx(h) THEN h
        ELSE IF Confirmed(h1.nodes[i]) THEN ConfirmAllOlderNodes(h1, i)
        ELSE h1

----------------------------------------------------------------------------
(* Executing scripts *)

(* Variant: missing scripts are skipped. *)
NextCandidate(h) ==
    LET t == h.nodes
        i == Least({j \in FisIdx(h) .. Len(t) : Candidate(t[j])}, 0)
    IN  IF i # 0 THEN t[i].id ELSE NoId

(* The script to execute next: the first candidate after the FIS, unless an *)
(* unrejected missing script comes before it.                               *)
NextMarker(h) ==
    LET t == h.nodes
        i == Least({j \in FisIdx(h) .. Len(t) :
                       Candidate(t[j]) \/ (t[j].mis /\ ~Rejected(t[j]))}, 0)
    IN  IF i # 0 /\ Candidate(t[i]) THEN t[i].id ELSE NoId

(* Variant: only the last executed script is undone. *)
LastToBeRejected(h) ==
    LET t == h.nodes
    IN  {i \in DOMAIN t : i = Greatest({j \in DOMAIN t : ToBeRejected(t[j])}, 0)}

(* Scripts the next execution undoes, found from the end of the array back  *)
(* to the first executed script.                                            *)
ToBeRejectedScripts(h) ==
    LET t == h.nodes
    IN  {i \in DOMAIN t : ToBeRejected(t[i]) /\ \A j \in i + 1 .. Len(t) : ~Executed(t[j])}

(***************************************************************************)
(* Undo them, newest first.  Undoing a confirmed script confirms the older *)
(* ones; the last of these calls, for the oldest confirmed one, decides    *)
(* where the FIS marker ends up.                                           *)
(***************************************************************************)
UndoScripts(h, undo) ==
    LET t    == h.nodes
        from == FisIdx(h)
        Cleared(j) ==
            \E i \in undo : /\ Confirmed(t[i])
                            /\ from <= j /\ j < i
                            /\ \A k \in j .. i - 1 : ~Confirmed(t[k])
        After(S) == [j \in 1 .. Len(t) |->
                        [t[j] EXCEPT !.exe  = @ /\ j \notin S,
                                     !.acks = IF Cleared(j) THEN {} ELSE @]]
        oldest == Least({i \in undo : i >= from /\ (Confirmed(t[i]) \/ Cleared(i))}, 0)
        atLast == {i \in undo : i >= oldest}
    IN  [nodes |-> After(undo),
         fis   |-> IF oldest = 0 THEN h.fis
                   ELSE AdvanceFis([nodes |-> After(atLast), fis |-> h.fis])]

SetExecuted(h, id) ==
    LET undone == UndoScripts(h, ToBeRejectedScripts(h))
        i      == FindIdx(h.nodes, id)
    IN  [undone EXCEPT !.nodes = Replace(@, i, [@[i] EXCEPT !.exe = TRUE, !.rej = FALSE])]

ExecuteScript(h, id) ==
    LET h1 == SetExecuted(h, id)
        i  == FindIdx(h.nodes, id)
    IN  IF Confirmed(h1.nodes[i]) THEN ConfirmAllOlderNodes(h1, i) ELSE h1

SetMissing(h, id) ==
    LET i == FindIdx(h.nodes, id)
    IN  [h EXCEPT !.nodes = Replace(@, i, [@[i] EXCEPT !.mis = TRUE])]

(* Before a check-in the executed trunk is walked back to the last confirmed *)
(* script: each script must follow the one its predecessor id names.         *)
CheckCurrentLineage(h) ==
    LET t    == h.nodes
        last == Greatest({i \in FisIdx(h) .. Len(t) : Executed(t[i])}, 0)
        from == Greatest({i \in FisIdx(h) .. last - 1 : ~t[i].rej /\ Confirmed(t[i])}, FisIdx(h))
        walk == InOrder({i \in from .. last : ~t[i].rej})
    IN  last # 0 => \A k \in 2 .. Len(walk) : t[walk[k]].pred = t[walk[k - 1]].id

(* What comes after the last executed script, or all since the FIS.         *)
HasIncomingOrMissingScripts(h) ==
    LET t == h.nodes
    IN  \E i \in FisIdx(h) .. Len(t) :
            /\ Candidate(t[i]) \/ t[i].mis
            /\ \A j \in i + 1 .. Len(t) : ~Executed(t[j])

HasToBeRejectedScripts(h) ==
    \E i \in ToBeRejectedScripts(h) : i >= FisIdx(h)

----------------------------------------------------------------------------
(* Lineages *)

(* The accepted scripts since the last confirmed one, oldest first; this is *)
(* what acknowledgments carry.                                              *)
UnitLineage(h) ==
    LET t    == h.nodes
        from == Greatest({i \in FisIdx(h) .. Len(t) : ~t[i].rej /\ Confirmed(t[i])}, FisIdx(h))
    IN  IdsAt(t, {i \in DOMAIN t : i >= from /\ ~t[i].rej})

(* The scripts a check-in builds upon: those present in the files.          *)
MainSetLineage(h) ==
    LET t    == h.nodes
        from == Greatest({i \in FisIdx(h) .. Len(t) : t[i].exe /\ Confirmed(t[i])}, FisIdx(h))
    IN  IdsAt(t, {i \in DOMAIN t : i >= from /\ t[i].exe})

(* Position in the lineage lin of the first script recorded in t.           *)
FirstKnown(t, lin) == Least({k \in DOMAIN lin : lin[k] \in Ids(t)}, 0)

(* Variant: the walk forward stops at once. *)
MatchFirstOnly(t, lin) == FirstKnown(t, lin)

(* The lineage is matched from there with the array, walking both forward;  *)
(* this is the last position matched.                                       *)
LastMatched(t, lin) ==
    LET k == FirstKnown(t, lin)
    IN  Greatest({i \in k .. Len(lin) :
                    \A j \in k + 1 .. i :
                        FindIdx(t, lin[j]) > FindIdx(t, lin[j - 1])}, 0)

MatchedIds(t, lin) == {lin[j] : j \in FirstKnown(t, lin) + 1 .. LastMatched(t, lin)}

(* What follows in the lineage is missing here.                             *)
UnmatchedIds(t, lin) == SubSeq(lin, LastMatched(t, lin) + 1, Len(lin))

MissingChain(pred, ids) ==
    [i \in 1 .. Len(ids) |-> MissingNode(ids[i], IF i = 1 THEN pred ELSE ids[i - 1])]

InsertMissing(h, pred, ids) ==
    IF ids = <<>> THEN h ELSE InsertChain(h, pred, MissingChain(pred, ids))

(* Scripts of the subtree of t[i] that no missing script separates from it. *)
AckableFrom(t, i) ==
    {j \in Subtree(t, i) : \A k \in Path(t, j) : k >= i => ~t[k].mis}

=============================================================================

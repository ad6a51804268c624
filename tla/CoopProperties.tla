--------------------------- MODULE CoopProperties ---------------------------
(* What the members of a project may rely on while they exchange scripts.   *)
EXTENDS Coop

(* Every variable keeps its type, and ids stay within the bound on scripts.  *)
TypeOK ==
    /\ hist \in [Member -> History]
    /\ next \in [Member -> Gid \cup {NoId}]
    /\ disconnected \in [Member -> SUBSET Gid]
    /\ inbox \in [Member -> SUBSET Script]
    /\ recent \in [Member -> [Member -> Nat]]
    /\ \A m, a \in Member : recent[m][a] <= Limit[a]
    /\ header \in [Script -> Lineage]
    /\ outgoing \in [Member -> Script \cup {NoId}]
    /\ box \in [Member -> [must : SUBSET AckItem, can : SUBSET AckItem]]
    /\ net \subseteq Message

----------------------------------------------------------------------------
(* The shape of one member's tree *)

UniqueIds(t) == \A i, j \in DOMAIN t : t[i].id = t[j].id => i = j

DepthFirst(t) == \A i \in 2 .. Len(t) : \E p \in 1 .. i - 1 : i \in BranchHeads(t, p)

BranchOrder(t) ==
    \A p \in DOMAIN t :
        /\ t[p].bp <=> \E i, j \in BranchHeads(t, p) : i # j
        /\ \A i, j \in BranchHeads(t, p) : i < j => Author(t[j].id) < Author(t[i].id)

TrunkLast(t) == \A i \in DOMAIN t : ~t[i].rej <=> i \in Path(t, Len(t))

(***************************************************************************)
(* However scripts, lineages and check-ins interleave, the array stays a    *)
(* depth-first walk of a tree without repeated ids; the branches that leave *)
(* a script are in order of priority, the script is marked as a branch      *)
(* point exactly when there are two of them, and the scripts not rejected   *)
(* are exactly the branch that ends the array.  XInsertNewNode keeps this   *)
(* by local moves that never look at the whole tree.                        *)
(***************************************************************************)
TreeShape ==
    \A m \in Member :
        LET t == hist[m].nodes
        IN  UniqueIds(t) /\ DepthFirst(t) /\ BranchOrder(t) /\ TrunkLast(t)

(***************************************************************************)
(* The files of a member are those of one branch: the executed scripts are  *)
(* a script with all its predecessors, even while a losing branch still     *)
(* waits to be undone and its owner goes on checking in to it.              *)
(***************************************************************************)
ExecutedIsBranch ==
    \A m \in Member :
        LET t    == hist[m].nodes
            done == {i \in DOMAIN t : t[i].exe}
        IN  \E i \in done : done = Path(t, i)

(* The First Interesting Script, where most searches of the history stop,    *)
(* is never pushed off the executed and confirmed part of the trunk.        *)
FisIsSettled ==
    \A m \in Member :
        LET n == FindNode(hist[m].nodes, hist[m].fis)
        IN  FisIdx(hist[m]) # 0 /\ Executed(n) /\ Confirmed(n)

(* The cached id of the script to execute next is never stale: whatever      *)
(* handler ran last, it is what a fresh search would find.                  *)
NextMarkerFresh == \A m \in Member : next[m] = NextMarker(hist[m])

(***************************************************************************)
(* The script to execute next can be executed: all it is built upon is in   *)
(* the files already or is a missing rejected script (the assertion of      *)
(* XUpdateNextMarker, for the whole path and not only the predecessor).     *)
(***************************************************************************)
NextIsReady ==
    \A m \in Member :
        next[m] # NoId =>
            LET t == hist[m].nodes
                i == FindIdx(t, next[m])
            IN  i # 0 /\ Candidate(t[i]) /\ \A j \in Path(t, i) \ {i} : t[j].exe

----------------------------------------------------------------------------
(* Agreement between members *)

(***************************************************************************)
(* All members hang a script from the same predecessor, the one its author  *)
(* built it upon, also when they first heard of it as a missing script from *)
(* a third member's lineage.  XInsertIncomingScript asserts it.             *)
(***************************************************************************)
PredecessorsAgree ==
    \A m \in Member :
        \A i \in 2 .. Len(hist[m].nodes) :
            hist[m].nodes[i].pred = LastOf(header[hist[m].nodes[i].id])

SettledAt(m, id) ==
    \E i \in DOMAIN hist[m].nodes :
        /\ hist[m].nodes[i].id = id
        /\ Confirmed(hist[m].nodes[i])
        /\ Executed(hist[m].nodes[i])

AcceptedAt(m, id) ==
    \E i \in DOMAIN hist[m].nodes :
        hist[m].nodes[i].id = id /\ ~hist[m].nodes[i].rej

(* A script that is executed and confirmed at one member is in the history   *)
(* of every member, and no member has rejected it.                          *)
ConfirmedAgree ==
    \A m \in Member : \A id \in Gid :
        SettledAt(m, id) => \A p \in Member : AcceptedAt(p, id)

(***************************************************************************)
(* An accepted script of one's own that no longer awaits somebody's         *)
(* acknowledgment is in that somebody's history, be it as a placeholder:    *)
(* confirming in array order, which takes an acknowledgment of a script for *)
(* one of all older ones, never gets ahead of what the others have heard of. *)
(***************************************************************************)
AcknowledgedIsKnown ==
    \A m \in Member : \A i \in 2 .. Len(hist[m].nodes) :
        LET n == hist[m].nodes[i]
        IN  ~n.rej /\ Author(n.id) = m =>
                \A p \in Member \ ({m} \cup n.acks) : FindIdx(hist[p].nodes, n.id) # 0

(***************************************************************************)
(* "Inserted node has missing predecessors -- don't acknowledge it"         *)
(* (XInsertIncomingScript): who has acknowledged a script misses none of    *)
(* those it is built upon.                                                  *)
(***************************************************************************)
AcknowledgedHasNoGap ==
    \A m \in Member : \A i \in 2 .. Len(hist[m].nodes) :
        LET n == hist[m].nodes[i]
        IN  ~n.rej /\ Author(n.id) = m =>
                \A p \in Member \ ({m} \cup n.acks) :
                    LET t == hist[p].nodes
                    IN  \A j \in Path(t, FindIdx(t, n.id)) : ~t[j].mis

(***************************************************************************)
(* Mail is dropped as prehistoric when its script was "created before we    *)
(* have joined the project" (XCanUnpackScript) or names as missing a script *)
(* of the recipient's own making.  All scripts here are checked in after    *)
(* everybody has joined, "all scripts will be historic"                     *)
(* (PatchMembershipScripts), and without a restored backup nobody can lose  *)
(* own scripts, so no lineage in transit or in an inbox may be prehistoric. *)
(***************************************************************************)
MailNeverDropped ==
    \A m \in Member :
        /\ \A id \in Script :
              id \in inbox[m] \/ [type |-> "script", id |-> id, to |-> m] \in net
                  => ProcessLineage(m, Author(id), header[id]).status # "prehistoric"
        /\ \A msg \in net :
              msg.type = "ack" /\ msg.to = m
                  => ProcessLineage(m, msg.from, msg.lineage).status # "prehistoric"

----------------------------------------------------------------------------
(* When all mail has been delivered and processed *)

Delivered == net = {} /\ \A m \in Member : AtRest(m) /\ next[m] = NoId

Quiet == Delivered /\ \A m \in Member : inbox[m] = {}

PresentAt(m, id) ==
    \E i \in DOMAIN hist[m].nodes : hist[m].nodes[i].id = id /\ ~hist[m].nodes[i].mis

NothingLost ==
    \A m \in Member : \A id \in Script :
        header[id] # <<>> => PresentAt(m, id) \/ id \in inbox[m]

(***************************************************************************)
(* The members end up with the same tree whatever the order in which the    *)
(* mail reached each of them: same array, same branches rejected, same      *)
(* scripts executed.  Nothing but the user ids decides who wins, also when  *)
(* a member goes on checking in to a branch that has lost, unless a script  *)
(* was lost on the way.                                                     *)
(***************************************************************************)
Converged ==
    Quiet /\ NothingLost =>
        \A m, p \in Member :
            LET t == hist[m].nodes
                u == hist[p].nodes
            IN  /\ Len(t) = Len(u)
                /\ \A i \in DOMAIN t : /\ t[i].id = u[i].id /\ t[i].pred = u[i].pred /\ t[i].bp = u[i].bp
                                       /\ t[i].rej = u[i].rej /\ t[i].exe = u[i].exe

(* When all mail has been processed every accepted script is confirmed by    *)
(* everybody: no acknowledgment or make-reference was forgotten.            *)
AllConfirmed ==
    Quiet =>
        \A m \in Member : \A i \in DOMAIN hist[m].nodes :
            ~hist[m].nodes[i].rej => Confirmed(hist[m].nodes[i])

(***************************************************************************)
(* When every script has reached everybody, no reference from the future    *)
(* is left, and of the scripts that an inbox still holds one connects with  *)
(* the history, so that the rest can follow, even if acknowledgments were   *)
(* lost.                                                                    *)
(***************************************************************************)
NothingStranded ==
    Delivered /\ NothingLost =>
        \A m \in Member :
            /\ inbox[m] # {} => \E id \in inbox[m] :
                   ProcessLineage(m, Author(id), header[id]).status = "connected"
            /\ disconnected[m] = {}

----------------------------------------------------------------------------
(* Steps *)

(* A script once executed and confirmed stays so: it is never rejected and   *)
(* undone by a script that wins against it later.                           *)
ConfirmedStays ==
    [][\A m \in Member : \A id \in Gid : SettledAt(m, id) => SettledAt(m, id)']_vars

(***************************************************************************)
(* "Don't acknowledge rejected set script, because other project members    *)
(* still may have it as executed in their histories. We don't want this     *)
(* script to become confirmed and then rejected."  (XInsertIncomingScript)  *)
(***************************************************************************)
RejectedNotAcknowledged ==
    [][\A m \in Member : \A a \in box[m].must' \ box[m].must :
          ~a.ref => ~Rejected(FindNode(hist[m].nodes, a.id))']_vars

----------------------------------------------------------------------------
(* Progress *)

ExecutedOrRejectedAt(m, id) ==
    \E i \in DOMAIN hist[m].nodes :
        /\ hist[m].nodes[i].id = id
        /\ Executed(hist[m].nodes[i]) \/ Rejected(hist[m].nodes[i])

(***************************************************************************)
(* A script that a member has heard of who asks for what is missing, be it  *)
(* as a missing one or one that waits in the inbox, is in the end executed  *)
(* or rejected there, also when its author's program stopped before it was  *)
(* mailed and only a later script tells of it: it is asked for until it is  *)
(* resent.  Unreadable scripts are excepted.                                *)
(***************************************************************************)
EverybodyDecides ==
    \A m \in Requesting : \A id \in Script \ Corruptible :
        id \in MissingScripts(m) \cup inbox[m] ~> ExecutedOrRejectedAt(m, id)

=============================================================================

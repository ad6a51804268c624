-------------------------------- MODULE Coop --------------------------------
(***************************************************************************)
(* The voting members of one Code Co-op project exchange change scripts    *)
(* and acknowledgments by e-mail.  There is no server: each member keeps   *)
(* a History of all scripts (module HistoryTree), executes the accepted    *)
(* ones, and learns from the lineages in the mail what others have.        *)
(*                                                                         *)
(* Each action is one committed transaction of the program, or the mail a  *)
(* handler sends after its transaction has committed, so that a crash may  *)
(* fall between the two.                                                   *)
(***************************************************************************)
EXTENDS HistoryTree

CONSTANTS
    Redelivery,    \* may a delivered message stay in transit: subset of BOOLEAN
    Requesting,    \* members that ask for scripts they miss
    Crashing,      \* members whose program may stop before its mail is sent
    Corruptible,   \* scripts whose commands may turn out unreadable
    Newcomer       \* members that had checked in nothing before the project's root

ASSUME CoopAssumption ==
    /\ Redelivery \subseteq BOOLEAN /\ Requesting \subseteq Member
    /\ Crashing \subseteq Member /\ Corruptible \subseteq Script
    /\ Newcomer \subseteq Member

VARIABLES
    hist,          \* hist[m]: History of the set changes
    next,          \* next[m]: script to execute next, or NoId
    disconnected,  \* disconnected[m]: ids known only as references from the future
    inbox,         \* inbox[m]: scripts held until their lineage connects
    recent,        \* recent[m][a]: most recent script of a known to m (0: none)
    header,        \* header[s]: the lineage in the header of script s
    outgoing,      \* outgoing[m]: script committed but not yet broadcast
    box,           \* box[m]: acknowledgments collected by the handler at work
    net            \* messages in transit

vars == <<hist, next, disconnected, inbox, recent, header, outgoing, box, net>>

Everyone == 0      \* recipient of a broadcast acknowledgment: no member has this id

AckItem == [to : Member \cup {Everyone}, id : Gid, ref : BOOLEAN]

EmptyBox == [must |-> {}, can |-> {}]

Lineage == Seq(Gid)

Message ==
    [type : {"script"}, id : Script, to : Member]
    \cup [type : {"request"}, id : Gid, from : Member, to : Member]
    \cup [type : {"ack"}, id : Gid, ref : BOOLEAN, from : Member, to : Member,
          lineage : Lineage]

Ord(id) == id[2]

SeqToSet(s) == {s[i] : i \in DOMAIN s}

LastOf(lin) == IF lin = <<>> THEN NoId ELSE lin[Len(lin)]

----------------------------------------------------------------------------
(* Init: every member has unpacked the full sync of a new project.          *)

InitialHistory ==
    [nodes |-> <<ScriptNode(Root, NoId, {}, TRUE)>>, fis |-> Root]

Init ==
    /\ hist = [m \in Member |-> InitialHistory]
    /\ next = [m \in Member |-> NoId]
    /\ disconnected = [m \in Member |-> {}]
    /\ inbox = [m \in Member |-> {}]
    /\ recent = [m \in Member |-> [a \in Member |-> 0]]
    /\ header = [s \in Script |-> <<>>]
    /\ outgoing = [m \in Member |-> NoId]
    /\ box = [m \in Member |-> EmptyBox]
    /\ net = {}

----------------------------------------------------------------------------
(* Check-in *)

AtRest(m) == outgoing[m] = NoId /\ box[m] = EmptyBox

(* Incoming scripts must be executed first, except that the owner of a      *)
(* losing branch may go on checking in to it.                               *)
CanCheckIn(m) ==
    /\ CheckCurrentLineage(hist[m])
    /\ \/ ~HasIncomingOrMissingScripts(hist[m]) /\ inbox[m] = {}
       \/ HasIncomingOrMissingScripts(hist[m]) /\ HasToBeRejectedScripts(hist[m])

CheckIn(m) ==
    LET id  == <<m, recent[m][m] + 1>>
        lin == MainSetLineage(hist[m])
        h   == InsertNewNode(hist[m], ScriptNode(id, LastOf(lin), Member \ {m}, TRUE))
    IN  /\ AtRest(m)
        /\ CanCheckIn(m)
        /\ recent[m][m] < Limit[m]
        /\ hist' = [hist EXCEPT ![m] =
                IF Member = {m} THEN ConfirmAllOlderNodes(h, FindIdx(h.nodes, id)) ELSE h]
        /\ box' = [box EXCEPT ![m].must =
                @ \cup {a \in {[to |-> Everyone, id |-> id, ref |-> TRUE]} : Member = {m}}]
        /\ recent' = [recent EXCEPT ![m][m] = @ + 1]
        /\ header' = [header EXCEPT ![id] = lin]
        /\ outgoing' = [outgoing EXCEPT ![m] = id]
        /\ UNCHANGED <<next, disconnected, inbox, net>>

Broadcast(m) ==
    /\ outgoing[m] # NoId
    /\ net' = net \cup {[type |-> "script", id |-> outgoing[m], to |-> p] : p \in Member \ {m}}
    /\ outgoing' = [outgoing EXCEPT ![m] = NoId]
    /\ UNCHANGED <<hist, next, disconnected, inbox, recent, header, box>>

(* The program stops after a commit and before the mail was sent.           *)
Crash(m) ==
    /\ m \in Crashing
    /\ ~AtRest(m)
    /\ outgoing' = [outgoing EXCEPT ![m] = NoId]
    /\ box' = [box EXCEPT ![m] = EmptyBox]
    /\ UNCHANGED <<hist, next, disconnected, inbox, recent, header, net>>

----------------------------------------------------------------------------
(* Processing a lineage found in an incoming header *)

(* Nothing is from the future of a member never heard of.                    *)
FromFuture(m, id) ==
    /\ Author(id) \in Member
    /\ recent[m][Author(id)] # 0 \/ Author(id) \notin Newcomer
    /\ Ord(id) > recent[m][Author(id)]

(* An unknown script is taken for one from before m joined when no older     *)
(* script of its author is in the history.                                  *)
Prehistoric(m, id) ==
    LET t    == hist[m].nodes
        mine == {i \in DOMAIN t : Author(t[i].id) = Author(id)}
    IN  Author(id) \in Newcomer /\ \A i \in mine : i = Least(mine, 0) => Ord(id) < Ord(t[i].id)

(* A lineage that names as missing a script of this very member is bad;      *)
(* what comes before that script has been inserted.                         *)
GoodPart(m, ids) ==
    SubSeq(ids, 1, Least({i \in DOMAIN ids : Author(ids[i]) = m}, Len(ids) + 1) - 1)

(***************************************************************************)
(* What the lineage lin in a message from a member tells m.  It is          *)
(* disconnected when it starts in the future, and disconnected or taken for *)
(* prehistoric when none of it is known here.                               *)
(* Otherwise the unknown rest becomes a chain of missing scripts, a missing *)
(* script of m's own making the lineage prehistoric, and acknowledgments    *)
(* that the sender seems not to have got are repeated: as a make-reference  *)
(* when m is the author and the script is confirmed here.                   *)
(***************************************************************************)
Connects(m, lin) == ~FromFuture(m, lin[1]) /\ FirstKnown(hist[m].nodes, lin) # 0

ConnectedLineage(m, from, lin) ==
    LET t       == hist[m].nodes
        rest    == UnmatchedIds(t, lin)
        new     == GoodPart(m, rest)
        matched == MatchedIds(t, lin)
    IN  [status |-> IF new = rest THEN "connected" ELSE "prehistoric",
         hist   |-> InsertMissing(hist[m], lin[LastMatched(t, lin)], new),
         new    |-> SeqToSet(new),
         future |-> {},
         refs   |-> {[to |-> from, id |-> id, ref |-> TRUE] :
                        id \in {x \in matched : Author(x) = m /\ Confirmed(FindNode(t, x))}},
         acks   |-> {[to |-> Author(id), id |-> id, ref |-> FALSE] :
                        id \in {x \in matched : Author(x) # m /\ ~FindNode(t, x).mis}}]

LineageWithoutNews(m, status, future) ==
    [status |-> status, hist |-> hist[m], new |-> {}, future |-> future,
     refs |-> {}, acks |-> {}]

ProcessLineage(m, from, lin) ==
    IF lin = <<>> THEN LineageWithoutNews(m, "connected", {})
    ELSE IF Connects(m, lin) THEN ConnectedLineage(m, from, lin)
    ELSE IF ~FromFuture(m, lin[1]) /\ Prehistoric(m, lin[1])
      THEN LineageWithoutNews(m, "prehistoric", {})
    ELSE LineageWithoutNews(m, "disconnected", {lin[1]})

(* Variant: the ordinal expected next is recorded. *)
HeardNext(m, ids) ==
    [a \in Member |->
        Greatest({recent[m][a]} \cup {Ord(id) + 1 : id \in {x \in ids : Author(x) = a}}, 0)]

(* Ids of scripts heard of push the sender's most recent script forward.     *)
Heard(m, ids) ==
    [a \in Member |->
        Greatest({recent[m][a]} \cup {Ord(id) : id \in {x \in ids : Author(x) = a}}, 0)]

----------------------------------------------------------------------------
(* Unpacking an incoming script *)

Remaining(msg) == {IF keep THEN net ELSE net \ {msg} : keep \in Redelivery}

(* Variant: the predecessor is the first script of the lineage. *)
WithOldest(h, id) ==
    LET i == FindIdx(h.nodes, id)
        n == ScriptNode(id, header[id][1], {Author(id)}, FALSE)
    IN  IF i = 0 THEN InsertNewNode(h, n)
        ELSE IF h.nodes[i].mis THEN SubstituteNode(h, n)
        ELSE h

(* The history after the script itself is recorded.                         *)
WithScript(h, id) ==
    LET i    == FindIdx(h.nodes, id)
        acks == IF i # 0 /\ Confirmed(h.nodes[i]) THEN {} ELSE {Author(id)}
        n    == ScriptNode(id, LastOf(header[id]), acks, FALSE)
    IN  IF i = 0 THEN InsertNewNode(h, n)
        ELSE IF h.nodes[i].mis THEN SubstituteNode(h, n)
        ELSE h

(* Variant: a script that fills a gap is not acknowledged. *)
AcknowledgeNewOnly(h, h1, id) ==
    LET i1 == FindIdx(h1.nodes, id)
    IN  {x \in {id} \ Ids(h.nodes) :
            ~HasMissingPredecessors(h1.nodes, i1) /\ ~Rejected(h1.nodes[i1])}

(* The scripts that become known without a gap by recording id in h, giving *)
(* h1.  A rejected new script is not acknowledged.                          *)
ToAcknowledge(h, h1, id) ==
    LET i  == FindIdx(h.nodes, id)
        i1 == FindIdx(h1.nodes, id)
    IN  IF HasMissingPredecessors(h1.nodes, i1) THEN {}
        ELSE IF i = 0 THEN {id : j \in {k \in {i1} : ~Rejected(h1.nodes[k])}}
        ELSE IF h.nodes[i].mis THEN {h1.nodes[j].id : j \in AckableFrom(h1.nodes, i1)}
        ELSE {}

(* Variant: what was heard of is never forgotten. *)
RememberForever(ids, l, got) == ids \cup l.future

(* References from the future: remembered until the script or a lineage that *)
(* places it arrives.                                                        *)
StillDisconnected(ids, l, got) == (ids \cup l.future) \ (l.new \cup got)

(***************************************************************************)
(* The transaction that unpacks a message: l is what its lineage told,      *)
(* h1 the history it leaves, sent the acknowledgments to make, heard the id *)
(* in the header, settled the scripts recorded or dropped, held the scripts *)
(* kept in the inbox.                                                       *)
(***************************************************************************)
Unpack(m, l, h1, sent, heard, settled, held) ==
    LET must == box[m].must \cup l.refs \cup sent
    IN  /\ hist' = [hist EXCEPT ![m] = h1]
        /\ box' = [box EXCEPT ![m] = [must |-> must, can |-> @.can \cup (l.acks \ must)]]
        /\ inbox' = [inbox EXCEPT ![m] = held]
        /\ recent' = [recent EXCEPT ![m] = Heard(m, heard \cup l.new)]
        /\ disconnected' = [disconnected EXCEPT ![m] =
                               StillDisconnected(@, l, settled \cup held)]

(* A script from the future waits in the inbox; a prehistoric one is dropped. *)
Held(l, id) == {x \in {id} : l.status = "disconnected"}

(* With it go the scripts of the inbox that refer to it, and those that refer *)
(* to these.                                                                *)
Dropped(l, id, held) ==
    {x \in held :
        /\ l.status = "prehistoric"
        /\ \A S \in SUBSET held :
              (\A y \in held : header[y][1] \in S \cup {id} => y \in S) => x \in S}

UnpackScript(m, id) ==
    LET msg  == [type |-> "script", id |-> id, to |-> m]
        l    == ProcessLineage(m, Author(id), header[id])
        h1   == WithScript(l.hist, id)
        acks == {[to |-> Author(x), id |-> x, ref |-> FALSE] : x \in ToAcknowledge(l.hist, h1, id)}
        rest == inbox[m] \ {id}
    IN  /\ outgoing[m] = NoId
        /\ msg \in net \/ id \in inbox[m]
        /\ net' \in Remaining(msg)
        /\ IF l.status = "connected"
             THEN Unpack(m, l, h1, acks, {id}, {id}, rest)
             ELSE Unpack(m, l, l.hist, {}, Held(l, id), Dropped(l, id, rest),
                         (rest \ Dropped(l, id, rest)) \cup Held(l, id))
        /\ next' = [next EXCEPT ![m] = NextMarker(hist'[m])]
        /\ UNCHANGED <<header, outgoing>>

----------------------------------------------------------------------------
(* Control scripts *)

(* An acknowledgment or a make-reference.  The side lineage in its header    *)
(* is processed first, and the script to execute next looked up after that:  *)
(* accepting the acknowledgment does not look it up again.                   *)
UnpackAck(m, msg) ==
    LET l    == ProcessLineage(m, msg.from, msg.lineage)
        h1   == AcceptAck(l.hist, msg.id, msg.from)
        i    == FindIdx(h1.nodes, msg.id)
        refs == {a \in {[to |-> Everyone, id |-> msg.id, ref |-> TRUE]} :
                    /\ ~msg.ref /\ Author(msg.id) = m
                    /\ i >= FisIdx(l.hist) /\ Confirmed(h1.nodes[i])}
    IN  /\ outgoing[m] = NoId
        /\ msg \in net /\ msg.to = m
        /\ net' \in Remaining(msg)
        /\ Unpack(m, l, h1, refs, {}, {}, inbox[m])
        /\ next' = [next EXCEPT ![m] = NextMarker(l.hist)]
        /\ UNCHANGED <<header, outgoing>>

(* Variant: acknowledgments travel without a lineage. *)
NoSideLineage(lin) == <<>>

SideLineage(lin) == IF Len(lin) > 1 THEN lin ELSE <<>>

(* Mail what was collected.  An acknowledgment that need not be sent goes    *)
(* along with one that must, to the same recipient.                          *)
SendAcknowledgments(m) ==
    LET side  == SideLineage(UnitLineage(hist[m]))
        must  == {a \in box[m].must : a.to # m}
        also  == {a \in box[m].can : \E b \in must : b.to = a.to}
        To(a) == IF a.to = Everyone THEN Member \ {m} ELSE {a.to}
    IN  /\ outgoing[m] = NoId
        /\ box[m] # EmptyBox
        /\ net' = net \cup
              UNION {{[type |-> "ack", id |-> a.id, ref |-> a.ref, from |-> m, to |-> p,
                       lineage |-> side] : p \in To(a)} : a \in must \cup also}
        /\ box' = [box EXCEPT ![m] = EmptyBox]
        /\ UNCHANGED <<hist, next, disconnected, inbox, recent, header, outgoing>>

MissingScripts(m) ==
    {hist[m].nodes[i].id : i \in {j \in FisIdx(hist[m]) .. Len(hist[m].nodes) :
                                      hist[m].nodes[j].mis}}
    \cup disconnected[m]

RequestResend(m, id, p) ==
    /\ m \in Requesting
    /\ AtRest(m)
    /\ id \in MissingScripts(m)
    /\ net' = net \cup {[type |-> "request", id |-> id, from |-> m, to |-> p]}
    /\ net' # net
    /\ UNCHANGED <<hist, next, disconnected, inbox, recent, header, outgoing, box>>

AnswerResend(m, msg) ==
    LET i == FindIdx(hist[m].nodes, msg.id)
    IN  /\ outgoing[m] = NoId
        /\ msg \in net /\ msg.to = m
        /\ \E left \in Remaining(msg) :
              net' = left \cup
                     {s \in {[type |-> "script", id |-> msg.id, to |-> msg.from]} :
                         msg.id # Root /\ i # 0 /\ ~hist[m].nodes[i].mis}
        /\ UNCHANGED <<hist, next, disconnected, inbox, recent, header, outgoing, box>>

----------------------------------------------------------------------------
(* Executing the next script, or finding it corrupted *)

ExecuteNext(m) ==
    /\ AtRest(m)
    /\ next[m] # NoId
    /\ hist' = [hist EXCEPT ![m] = ExecuteScript(@, next[m])]
    /\ next' = [next EXCEPT ![m] = NextMarker(SetExecuted(hist[m], next[m]))]
    /\ UNCHANGED <<disconnected, inbox, recent, header, outgoing, box, net>>

(* Variant: the cached next script is not looked up again. *)
MarkMissingOnly(m) ==
    /\ AtRest(m)
    /\ next[m] \in Corruptible
    /\ hist' = [hist EXCEPT ![m] = SetMissing(@, next[m])]
    /\ UNCHANGED <<next, disconnected, inbox, recent, header, outgoing, box, net>>

MarkMissing(m) ==
    /\ AtRest(m)
    /\ next[m] \in Corruptible
    /\ hist' = [hist EXCEPT ![m] = SetMissing(@, next[m])]
    /\ next' = [next EXCEPT ![m] = NextMarker(hist'[m])]
    /\ UNCHANGED <<disconnected, inbox, recent, header, outgoing, box, net>>

----------------------------------------------------------------------------

UnpackAcks(m) == \E msg \in {x \in net : x.type = "ack"} : UnpackAck(m, msg)

AnswerRequests(m) == \E msg \in {x \in net : x.type = "request"} : AnswerResend(m, msg)

RequestMissing(m) ==
    \E p \in Member \ {m} : \E id \in MissingScripts(m) : RequestResend(m, id, p)

Next ==
    \E m \in Member :
        \/ CheckIn(m)
        \/ Broadcast(m)
        \/ Crash(m)
        \/ \E id \in Script : UnpackScript(m, id)
        \/ UnpackAcks(m)
        \/ SendAcknowledgments(m)
        \/ RequestMissing(m)
        \/ AnswerRequests(m)
        \/ ExecuteNext(m)
        \/ MarkMissing(m)

Spec == Init /\ [][Next]_vars

(***************************************************************************)
(* The mailbox is polled on a timer, the handler that unpacks mail also     *)
(* answers it, and members execute what arrives; resend requests are        *)
(* repeated on a timer.  Members need not check in anything.  This is weak  *)
(* fairness of Work and of RequestResend with conditions that imply that    *)
(* they are enabled, when delivered mail leaves the net.                    *)
(***************************************************************************)
Work(m) ==
    \/ Broadcast(m)
    \/ \E id \in Script : UnpackScript(m, id)
    \/ UnpackAcks(m)
    \/ SendAcknowledgments(m)
    \/ AnswerRequests(m)
    \/ ExecuteNext(m)

HasWork(m) ==
    \/ ~AtRest(m)
    \/ next[m] # NoId
    \/ \E msg \in net : msg.to = m
    \/ \E id \in inbox[m] : ProcessLineage(m, Author(id), header[id]).status = "connected"

(* Members are asked in turn, so that each is asked in the end.              *)
Misses(m, id, p) ==
    /\ AtRest(m) /\ m \in Requesting /\ id \in MissingScripts(m)
    /\ [type |-> "request", id |-> id, from |-> m, to |-> p] \notin net

Fairness ==
    /\ \A m \in Member : []<>~HasWork(m) \/ []<><<Work(m)>>_vars
    /\ \A m \in Requesting : \A p \in Member \ {m}, id \in Script :
          []<>~Misses(m, id, p) \/ []<><<RequestResend(m, id, p)>>_vars

FairSpec == Spec /\ Fairness

=============================================================================

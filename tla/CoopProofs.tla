----------------------------- MODULE CoopProofs -----------------------------
(***************************************************************************)
(* Every step of the exchange of scripts keeps the types of the state, so   *)
(* that the ids that circulate stay ids of scripts that were checked in.    *)
(* For that the First Interesting Script has to be in the history: searches *)
(* start at its index.  No step takes a script out of a history, and every  *)
(* step that moves the marker moves it to a script that is there.           *)
(*                                                                         *)
(* On these types rests the second invariant, the shape of all histories,   *)
(* for any members, limits and failures, and what follows from it:          *)
(* executable next scripts, agreement on predecessors, and convergence.     *)
(***************************************************************************)
EXTENDS CoopProperties, TreeShapeProofs

----------------------------------------------------------------------------
(* Processing a lineage *)

(* The author of a script checked in is a member.                            *)
LEMMA ScriptType ==
    ASSUME NEW id \in Script
    PROVE  /\ id \in Gid /\ Author(id) \in Member
           /\ id = <<Author(id), Ord(id)>> /\ Ord(id) \in 1 .. Limit[Author(id)]
  <1>1. PICK m \in Member : id \in {m} \X (1 .. Limit[m])
    BY DEF Script
  <1> QED
    BY <1>1 DEF Gid, Author, Ord

(* The next script of a member below its bound is a script.                  *)
LEMMA NewIdType ==
    ASSUME NEW m \in Member, NEW n \in Nat, n < Limit[m]
    PROVE  <<m, n + 1>> \in Script
  <1>1. Limit[m] \in Nat
    BY MemberAssumption
  <1>2. <<m, n + 1>> \in {m} \X (1 .. Limit[m])
    BY <1>1
  <1> QED
    BY <1>2 DEF Script

(* The last id of a lineage is an id, or none.                               *)
LEMMA LastOfType ==
    ASSUME NEW lin \in Seq(Gid)
    PROVE  LastOf(lin) \in Gid \cup {NoId}
  <1>1. Len(lin) \in Nat /\ \A i \in 1 .. Len(lin) : lin[i] \in Gid
    BY ArrayType
  <1>2. lin # <<>> => Len(lin) \in 1 .. Len(lin)
    BY <1>1, EmptySeq
  <1> QED
    BY <1>1, <1>2 DEF LastOf

(* The part of the missing scripts that can be inserted.                     *)
LEMMA GoodPartType ==
    ASSUME NEW m, NEW ids \in Seq(Gid)
    PROVE  GoodPart(m, ids) \in Seq(Gid)
  <1> DEFINE S == {i \in DOMAIN ids : Author(ids[i]) = m}
             k == Least(S, Len(ids) + 1)
  <1>1. Len(ids) \in Nat /\ DOMAIN ids = 1 .. Len(ids)
    BY ArrayType
  <1>2. S \in SUBSET Nat
    BY <1>1
  <1>3. (S = {} => k = Len(ids) + 1) /\ (S # {} => k \in S)
    BY <1>2, LeastIs
  <1>4. k \in 1 .. Len(ids) + 1
    BY <1>1, <1>3
  <1>5. GoodPart(m, ids) = SubSeq(ids, 1, k - 1)
    BY DEF GoodPart
  <1> HIDE DEF k
  <1>6. k - 1 \in 0 .. Len(ids)
    BY <1>1, <1>4
  <1> QED
    BY <1>5, <1>6, PartsType

(* What a lineage tells consists of a history, ids and acknowledgments.      *)
LineageResult ==
    [status : {"connected", "prehistoric", "disconnected"}, hist : History,
     new : SUBSET Gid, future : SUBSET Gid,
     refs : SUBSET AckItem, acks : SUBSET AckItem]

(* A connected lineage leaves a well-typed history that has lost nothing, and *)
(* asks for well-typed acknowledgments (XProcessUnitLineage).               *)
LEMMA ConnectedLineageType ==
    ASSUME TypeOK, NEW m \in Member, NEW from \in Member, NEW lin \in Seq(Gid),
           FirstKnown(hist[m].nodes, lin) # 0
    PROVE  /\ ConnectedLineage(m, from, lin) \in LineageResult
           /\ Keeps(hist[m], ConnectedLineage(m, from, lin).hist)
  <1> DEFINE t       == hist[m].nodes
             rest    == UnmatchedIds(t, lin)
             new     == GoodPart(m, rest)
             matched == MatchedIds(t, lin)
             refs    == {[to |-> from, id |-> id, ref |-> TRUE] :
                            id \in {x \in matched : Author(x) = m /\ Confirmed(FindNode(t, x))}}
             acks    == {[to |-> Author(id), id |-> id, ref |-> FALSE] :
                            id \in {x \in matched : Author(x) # m /\ ~FindNode(t, x).mis}}
             h       == InsertMissing(hist[m], lin[LastMatched(t, lin)], new)
             status  == IF new = rest THEN "connected" ELSE "prehistoric"
  <1>1. hist[m] \in History /\ t \in Seq(Node)
    BY DEF TypeOK, History
  <1>2. Len(lin) \in Nat /\ \A i \in 1 .. Len(lin) : lin[i] \in Gid
    BY ArrayType
  <1>3. /\ FirstKnown(t, lin) \in 0 .. Len(lin) /\ LastMatched(t, lin) \in 0 .. Len(lin)
        /\ FirstKnown(t, lin) <= LastMatched(t, lin)
    BY <1>1, LastMatchedType
  <1>4. LastMatched(t, lin) \in 1 .. Len(lin)
    BY <1>2, <1>3
  <1>5. rest \in Seq(Gid)
    BY <1>3, PartsType DEF UnmatchedIds
  <1>6. new \in Seq(Gid)
    BY <1>5, GoodPartType
  <1>7. matched \in SUBSET Gid
    BY <1>2, <1>3 DEF MatchedIds
  <1> HIDE DEF new, rest, matched, t
  <1>8. Keeps(hist[m], h) /\ h \in History
    BY <1>1, <1>2, <1>4, <1>6, InsertMissingKeeps DEF Keeps
  <1>9. refs \in SUBSET AckItem
    <2>1. ASSUME NEW id \in matched
          PROVE  [to |-> from, id |-> id, ref |-> TRUE] \in AckItem
      BY <1>7 DEF AckItem
    <2> QED
      BY <2>1
  <1>10. acks \in SUBSET AckItem
    <2>1. \A id \in matched : Author(id) \in Member \cup {Everyone} /\ id \in Gid
      BY <1>7, GidType DEF User, Author, Root, Everyone
    <2>2. ASSUME NEW id \in matched
          PROVE  [to |-> Author(id), id |-> id, ref |-> FALSE] \in AckItem
      BY <2>1 DEF AckItem
    <2> QED
      BY <2>2
  <1>11. SeqToSet(new) \in SUBSET Gid
    BY <1>6, ArrayType DEF SeqToSet
  <1>12. ConnectedLineage(m, from, lin) =
            [status |-> status, hist |-> h, new |-> SeqToSet(new), future |-> {},
             refs |-> refs, acks |-> acks]
    BY DEF ConnectedLineage, new, rest, matched, t
  <1>13. status \in {"connected", "prehistoric", "disconnected"}
    OBVIOUS
  <1> HIDE DEF h, refs, acks, status
  <1> QED
    BY <1>8, <1>9, <1>10, <1>11, <1>12, <1>13 DEF LineageResult

(* The same for any lineage, connected or not, in the header of a message.  *)
LEMMA ProcessLineageType ==
    ASSUME TypeOK, NEW m \in Member, NEW from \in Member, NEW lin \in Seq(Gid)
    PROVE  /\ ProcessLineage(m, from, lin) \in LineageResult
           /\ Keeps(hist[m], ProcessLineage(m, from, lin).hist)
  <1>1. \A status \in {"connected", "prehistoric", "disconnected"}, ids \in SUBSET Gid :
            /\ LineageWithoutNews(m, status, ids) \in LineageResult
            /\ Keeps(hist[m], LineageWithoutNews(m, status, ids).hist)
    BY KeepsNothingDone DEF TypeOK, LineageWithoutNews, LineageResult
  <1>2. CASE lin = <<>>
    BY <1>1, <1>2 DEF ProcessLineage
  <1>3. CASE lin # <<>> /\ Connects(m, lin)
    BY <1>3, ConnectedLineageType DEF ProcessLineage, Connects
  <1>4. CASE lin # <<>> /\ ~Connects(m, lin)
    <2>1. Len(lin) \in Nat \ {0} /\ \A i \in 1 .. Len(lin) : lin[i] \in Gid
      BY <1>4, ArrayType, EmptySeq
    <2>2. {lin[1]} \in SUBSET Gid
      BY <2>1
    <2> QED
      BY <1>1, <1>4, <2>2 DEF ProcessLineage
  <1> QED
    BY <1>2, <1>3, <1>4

(* Hearing of scripts keeps the most recent ordinals within the bound.       *)
LEMMA HeardType ==
    ASSUME TypeOK, NEW m \in Member, NEW ids \in SUBSET Gid
    PROVE  /\ Heard(m, ids) \in [Member -> Nat]
           /\ \A a \in Member : Heard(m, ids)[a] <= Limit[a]
  <1>1. ASSUME NEW a \in Member
        PROVE  Heard(m, ids)[a] \in 0 .. Limit[a]
    <2> DEFINE S == {recent[m][a]} \cup {Ord(id) : id \in {x \in ids : Author(x) = a}}
    <2>1. Limit[a] \in Nat
      BY MemberAssumption
    <2>2. recent[m][a] \in 0 .. Limit[a]
      BY <2>1 DEF TypeOK
    <2>3. \A id \in ids : Author(id) = a => Ord(id) \in 0 .. Limit[a]
      <3>1. \A id \in ids : Author(id) = a => Ord(id) \in 1 .. Limit[a]
        BY GidType DEF Ord
      <3> QED
        BY <2>1, <3>1
    <2>4. S \in SUBSET (0 .. Limit[a]) /\ S # {}
      BY <2>2, <2>3
    <2>5. Greatest(S, 0) \in S
      BY <2>1, <2>4, GreatestIs
    <2>6. Heard(m, ids)[a] = Greatest(S, 0)
      BY DEF Heard
    <2> HIDE DEF S
    <2> QED
      BY <2>4, <2>5, <2>6
  <1>2. \A a \in Member : Limit[a] \in Nat
    BY MemberAssumption
  <1>3. Heard(m, ids) = [a \in Member |-> Heard(m, ids)[a]]
    BY DEF Heard
  <1> HIDE DEF Heard
  <1>4. \A a \in Member : Heard(m, ids)[a] \in Nat /\ Heard(m, ids)[a] <= Limit[a]
    BY <1>1, <1>2
  <1> QED
    BY <1>3, <1>4

----------------------------------------------------------------------------
(* Unpacking *)

(* In this step no history loses a script or its FIS marker.                 *)
HistoriesKept == \A p \in Member : Keeps(hist[p], hist'[p])

(* The First Interesting Script is in the history.                           *)
FisRecorded == \A m \in Member : hist[m].fis \in Ids(hist[m].nodes)

(* An action that changes no history keeps every script.                    *)
LEMMA NoHistoryChanged ==
    ASSUME TypeOK, UNCHANGED hist
    PROVE  HistoriesKept
  BY KeepsNothingDone DEF HistoriesKept, TypeOK

(* An action that changes one member's history keeps every script if it keeps *)
(* that member's.                                                           *)
LEMMA OneHistoryChanged ==
    ASSUME TypeOK, NEW m \in Member, NEW h1, Keeps(hist[m], h1),
           hist' = [hist EXCEPT ![m] = h1]
    PROVE  HistoriesKept /\ hist' \in [Member -> History]
  <1>1. h1 \in History
    BY DEF Keeps
  <1>2. hist' \in [Member -> History]
    BY <1>1 DEF TypeOK
  <1>3. ASSUME NEW p \in Member PROVE Keeps(hist[p], hist'[p])
    <2>1. CASE p = m
      BY <2>1 DEF TypeOK
    <2>2. CASE p # m
      BY <2>2, KeepsNothingDone DEF TypeOK
    <2> QED
      BY <2>1, <2>2
  <1> QED
    BY <1>2, <1>3 DEF HistoriesKept

(* Recording a script loses none; where it filled a gap, it is found.        *)
LEMMA WithScriptType ==
    ASSUME TypeOK, NEW h \in History, NEW id \in Script
    PROVE  /\ Keeps(h, WithScript(h, id))
           /\ FindIdx(h.nodes, id) # 0 => FindIdx(WithScript(h, id).nodes, id) # 0
  <1> DEFINE i    == FindIdx(h.nodes, id)
             acks == IF i # 0 /\ Confirmed(h.nodes[i]) THEN {} ELSE {Author(id)}
             n    == ScriptNode(id, LastOf(header[id]), acks, FALSE)
  <1>1. h.nodes \in Seq(Node) /\ i \in 0 .. Len(h.nodes)
    BY FindIdxType DEF History
  <1>2. acks \in SUBSET User /\ id \in Gid
    BY ScriptType DEF User
  <1>3. LastOf(header[id]) \in Gid \cup {NoId}
    BY LastOfType DEF TypeOK, Lineage
  <1> HIDE DEF acks
  <1>4. n \in Node /\ n.id = id
    BY <1>2, <1>3, ScriptNodeType DEF ScriptNode
  <1>5. WithScript(h, id) = IF i = 0 THEN InsertNewNode(h, n)
                            ELSE IF h.nodes[i].mis THEN SubstituteNode(h, n)
                            ELSE h
    BY DEF WithScript, acks
  <1> HIDE DEF n
  <1>6. Keeps(h, WithScript(h, id))
    BY <1>4, <1>5, InsertNewNodeKeeps, SubstituteNodeKeeps, KeepsNothingDone
  <1>7. ASSUME i # 0, h.nodes[i].mis
        PROVE  id \in Ids(WithScript(h, id).nodes)
    <2> DEFINE m == [n EXCEPT !.rej = h.nodes[i].rej, !.bp = h.nodes[i].bp]
               u == Replace(h.nodes, i, m)
    <2>1. WithScript(h, id).nodes = u
      BY <1>4, <1>5, <1>7 DEF SubstituteNode, History
    <2>2. Len(h.nodes) \in Nat /\ i \in 1 .. Len(h.nodes)
      BY <1>1, <1>7, NodesType
    <2>3. i \in DOMAIN u /\ u[i] = m
      BY <2>2 DEF Replace
    <2>4. m.id = id
      BY <1>4 DEF Node
    <2> QED
      BY <2>1, <2>3, <2>4 DEF Ids
  <1>8. ASSUME i # 0, ~h.nodes[i].mis
        PROVE  FindIdx(WithScript(h, id).nodes, id) # 0
    BY <1>5, <1>8
  <1>9. WithScript(h, id).nodes \in Seq(Node)
    BY <1>6 DEF History, Keeps
  <1> QED
    BY <1>6, <1>7, <1>8, <1>9, FindIdxType

(* Only ids are acknowledged.                                                *)
LEMMA ToAcknowledgeType ==
    ASSUME TypeOK, NEW h \in History, NEW id \in Script
    PROVE  ToAcknowledge(h, WithScript(h, id), id) \in SUBSET Gid
  <1> DEFINE h1 == WithScript(h, id)
             t  == h1.nodes
             i  == FindIdx(h.nodes, id)
             i1 == FindIdx(t, id)
             New    == {id : j \in {k \in {i1} : ~Rejected(t[k])}}
             Filled == {t[j].id : j \in AckableFrom(t, i1)}
  <1>1. h1 \in History /\ (i # 0 => i1 # 0)
    BY WithScriptType DEF Keeps
  <1> HIDE DEF h1, i
  <1>2. t \in Seq(Node)
    BY <1>1 DEF History
  <1>3. Len(t) \in Nat /\ \A j \in 1 .. Len(t) : t[j].id \in Gid
    BY <1>2, NodesType
  <1>4. id \in Gid
    BY ScriptType
  <1>5. ASSUME i # 0
        PROVE  Filled \in SUBSET Gid
    <2>1. i1 \in 1 .. Len(t)
      BY <1>1, <1>2, <1>3, <1>5, FindIdxType
    <2>2. SubtreeEnd(t, i1) \in i1 + 1 .. Len(t) + 1
      BY <1>2, <1>3, <2>1, SubtreeEndType
    <2>3. \A j \in Subtree(t, i1) : j \in 1 .. Len(t)
      BY <1>3, <2>1, <2>2 DEF Subtree
    <2>4. \A j \in AckableFrom(t, i1) : j \in 1 .. Len(t)
      BY <2>3 DEF AckableFrom
    <2> QED
      BY <1>3, <2>4
  <1>6. New \in SUBSET Gid
    BY <1>4
  <1>7. ToAcknowledge(h, h1, id) =
            IF HasMissingPredecessors(t, i1) THEN {}
            ELSE IF i = 0 THEN New
            ELSE IF h.nodes[i].mis THEN Filled
            ELSE {}
    BY DEF ToAcknowledge, i
  <1> HIDE DEF New, Filled
  <1> QED
    BY <1>5, <1>6, <1>7 DEF h1

(* Mail that has been read leaves the net or stays there.                    *)
LEMMA RemainingType ==
    ASSUME TypeOK, NEW msg, NEW left \in Remaining(msg)
    PROVE  left \subseteq net /\ left \subseteq Message
  BY DEF Remaining, TypeOK

(* The transaction that unpacks a message keeps the types of what it changes. *)
LEMMA UnpackType ==
    ASSUME TypeOK, NEW m \in Member, NEW l \in LineageResult,
           NEW h1, Keeps(hist[m], h1), NEW sent \in SUBSET AckItem,
           NEW heard \in SUBSET Gid, NEW arrived \in SUBSET Gid, NEW held \in SUBSET Script,
           Unpack(m, l, h1, sent, heard, arrived, held)
    PROVE  /\ HistoriesKept /\ hist' \in [Member -> History]
           /\ disconnected' \in [Member -> SUBSET Gid]
           /\ inbox' \in [Member -> SUBSET Script]
           /\ recent' \in [Member -> [Member -> Nat]]
           /\ \A p, a \in Member : recent'[p][a] <= Limit[a]
           /\ box' \in [Member -> [must : SUBSET AckItem, can : SUBSET AckItem]]
  <1> USE DEF TypeOK
  <1>1. /\ l.new \in SUBSET Gid /\ l.future \in SUBSET Gid
        /\ l.refs \in SUBSET AckItem /\ l.acks \in SUBSET AckItem
    BY DEF LineageResult
  <1>2. HistoriesKept /\ hist' \in [Member -> History] /\ h1 \in History
    BY OneHistoryChanged DEF Unpack, Keeps
  <1>3. disconnected' \in [Member -> SUBSET Gid]
    <2>1. StillDisconnected(disconnected[m], l, arrived \cup held) \in SUBSET Gid
      BY <1>1 DEF StillDisconnected
    <2> QED
      BY <2>1 DEF Unpack
  <1>4. inbox' \in [Member -> SUBSET Script]
    BY DEF Unpack
  <1>5. /\ recent' \in [Member -> [Member -> Nat]]
        /\ \A p, a \in Member : recent'[p][a] <= Limit[a]
    <2>1. heard \cup l.new \in SUBSET Gid
      BY <1>1
    <2>2. /\ Heard(m, heard \cup l.new) \in [Member -> Nat]
          /\ \A a \in Member : Heard(m, heard \cup l.new)[a] <= Limit[a]
      BY <2>1, HeardType
    <2>3. recent' = [recent EXCEPT ![m] = Heard(m, heard \cup l.new)]
      BY DEF Unpack
    <2> QED
      BY <2>2, <2>3
  <1>6. box' \in [Member -> [must : SUBSET AckItem, can : SUBSET AckItem]]
    <2> DEFINE must == box[m].must \cup l.refs \cup sent
               can  == box[m].can \cup (l.acks \ must)
    <2>1. box[m] \in [must : SUBSET AckItem, can : SUBSET AckItem]
      OBVIOUS
    <2>2. must \in SUBSET AckItem /\ can \in SUBSET AckItem
      BY <1>1, <2>1
    <2>3. [must |-> must, can |-> can] \in [must : SUBSET AckItem, can : SUBSET AckItem]
      BY <2>2
    <2>4. box' = [box EXCEPT ![m] = [must |-> must, can |-> can]]
      BY DEF Unpack
    <2> QED
      BY <2>3, <2>4
  <1> QED
    BY <1>2, <1>3, <1>4, <1>5, <1>6

----------------------------------------------------------------------------
(* Steps *)

(* What a message of each kind carries.                                      *)
LEMMA MessageType ==
    ASSUME NEW msg \in Message
    PROVE  /\ msg.type = "ack" => /\ msg.id \in Gid /\ msg.from \in Member
                                  /\ msg.lineage \in Seq(Gid)
           /\ msg.type = "request" => msg.id \in Gid /\ msg.from \in Member
  BY DEF Message, Lineage

(* The initial state has the right types.                                    *)
LEMMA InitType == Init => TypeOK
  <1> SUFFICES ASSUME Init PROVE TypeOK
    OBVIOUS
  <1> USE DEF Init
  <1>1. Root \in Gid /\ {} \in SUBSET User
    BY DEF Gid
  <1>2. InitialHistory \in History
    <2>1. ScriptNode(Root, NoId, {}, TRUE) \in Node
      BY <1>1, ScriptNodeType
    <2>2. <<ScriptNode(Root, NoId, {}, TRUE)>> \in Seq(Node)
      BY <2>1, SingletonArray
    <2> QED
      BY <1>1, <2>2 DEF InitialHistory, History
  <1>3. hist \in [Member -> History] /\ next \in [Member -> Gid \cup {NoId}]
    BY <1>2
  <1>4. disconnected \in [Member -> SUBSET Gid] /\ inbox \in [Member -> SUBSET Script]
    OBVIOUS
  <1>5. /\ recent \in [Member -> [Member -> Nat]]
        /\ \A m, a \in Member : recent[m][a] <= Limit[a]
    <2>1. \A a \in Member : Limit[a] \in Nat
      BY MemberAssumption
    <2> QED
      BY <2>1
  <1>6. header \in [Script -> Lineage]
    BY DEF Lineage
  <1>7. outgoing \in [Member -> Script \cup {NoId}] /\ net \subseteq Message
    OBVIOUS
  <1>8. box \in [Member -> [must : SUBSET AckItem, can : SUBSET AckItem]]
    BY DEF EmptyBox
  <1> QED
    BY <1>3, <1>4, <1>5, <1>6, <1>7, <1>8 DEF TypeOK

(* Check-in keeps the types and every recorded script.                      *)
LEMMA CheckInType ==
    ASSUME TypeOK, NEW m \in Member, CheckIn(m)
    PROVE  TypeOK' /\ HistoriesKept
  <1> DEFINE id  == <<m, recent[m][m] + 1>>
             lin == MainSetLineage(hist[m])
             n   == ScriptNode(id, LastOf(lin), Member \ {m}, TRUE)
             h   == InsertNewNode(hist[m], n)
             h2  == IF Member = {m} THEN ConfirmAllOlderNodes(h, FindIdx(h.nodes, id)) ELSE h
             sent == {a \in {[to |-> Everyone, id |-> id, ref |-> TRUE]} : Member = {m}}
  <1>1. id \in Script /\ id \in Gid
    BY NewIdType, ScriptType DEF CheckIn, TypeOK
  <1>2. lin \in Seq(Gid)
    BY LineagesType DEF TypeOK
  <1> HIDE DEF lin
  <1>3. n \in Node
    <2>1. LastOf(lin) \in Gid \cup {NoId} /\ Member \ {m} \in SUBSET User
      BY <1>2, LastOfType DEF User
    <2> QED
      BY <1>1, <2>1, ScriptNodeType
  <1> HIDE DEF n
  <1>4. Keeps(hist[m], h2)
    <2>1. Keeps(hist[m], h) /\ h \in History
      BY <1>3, InsertNewNodeKeeps DEF TypeOK, Keeps
    <2>2. Keeps(hist[m], ConfirmAllOlderNodes(h, FindIdx(h.nodes, id)))
      BY <2>1, ConfirmAllOlderNodesKeeps, KeepsTransitive
    <2> QED
      BY <2>1, <2>2
  <1>5. hist' = [hist EXCEPT ![m] = h2]
    BY DEF CheckIn, n, lin
  <1> HIDE DEF h2
  <1>6. HistoriesKept /\ hist' \in [Member -> History]
    BY <1>4, <1>5, OneHistoryChanged
  <1>7. /\ recent' \in [Member -> [Member -> Nat]]
        /\ \A p, a \in Member : recent'[p][a] <= Limit[a]
    <2>1. recent' = [recent EXCEPT ![m][m] = recent[m][m] + 1]
      BY DEF CheckIn
    <2>2. recent[m][m] < Limit[m]
      BY DEF CheckIn
    <2>3. recent[m][m] \in Nat /\ Limit[m] \in Nat
      BY MemberAssumption DEF TypeOK
    <2>4. recent[m][m] + 1 <= Limit[m]
      BY <2>2, <2>3
    <2> QED
      BY <2>1, <2>3, <2>4 DEF TypeOK
  <1>8. header' \in [Script -> Lineage]
    BY <1>1, <1>2 DEF CheckIn, TypeOK, Lineage, lin
  <1>9. outgoing' \in [Member -> Script \cup {NoId}]
    BY <1>1 DEF CheckIn, TypeOK
  <1>10. box' \in [Member -> [must : SUBSET AckItem, can : SUBSET AckItem]]
    <2>1. box[m] \in [must : SUBSET AckItem, can : SUBSET AckItem]
      BY DEF TypeOK
    <2>2. sent \in SUBSET AckItem
      <3>1. [to |-> Everyone, id |-> id, ref |-> TRUE] \in AckItem
        BY <1>1 DEF AckItem
      <3> QED
        BY <3>1
    <2>3. box' = [box EXCEPT ![m] = [box[m] EXCEPT !.must = box[m].must \cup sent]]
      BY DEF CheckIn
    <2> HIDE DEF sent
    <2>4. [box[m] EXCEPT !.must = box[m].must \cup sent]
              \in [must : SUBSET AckItem, can : SUBSET AckItem]
      BY <2>1, <2>2
    <2> QED
      BY <2>3, <2>4 DEF TypeOK
  <1> QED
    BY <1>6, <1>7, <1>8, <1>9, <1>10 DEF CheckIn, TypeOK

(* Broadcasting and crashing keep the types: they only move or lose mail.   *)
LEMMA MailType ==
    ASSUME TypeOK, NEW m \in Member, Broadcast(m) \/ Crash(m)
    PROVE  TypeOK' /\ HistoriesKept
  <1>1. CASE Broadcast(m)
    <2>1. outgoing[m] \in Script
      BY <1>1 DEF Broadcast, TypeOK
    <2>2. ASSUME NEW p \in Member
          PROVE  [type |-> "script", id |-> outgoing[m], to |-> p] \in Message
      BY <2>1 DEF Message
    <2>3. net' \subseteq Message
      BY <1>1, <2>2 DEF Broadcast, TypeOK
    <2> QED
      BY <1>1, <2>3, NoHistoryChanged DEF Broadcast, TypeOK
  <1>2. CASE Crash(m)
    <2>1. EmptyBox \in [must : SUBSET AckItem, can : SUBSET AckItem]
      BY DEF EmptyBox
    <2> QED
      BY <1>2, <2>1, NoHistoryChanged DEF Crash, TypeOK
  <1> QED
    BY <1>1, <1>2

(* Unpacking a set script keeps the types and every recorded script.        *)
LEMMA UnpackScriptType ==
    ASSUME TypeOK, NEW m \in Member, NEW id \in Script, UnpackScript(m, id)
    PROVE  TypeOK' /\ HistoriesKept
  <1> DEFINE msg  == [type |-> "script", id |-> id, to |-> m]
             l    == ProcessLineage(m, Author(id), header[id])
             h1   == WithScript(l.hist, id)
             acks == {[to |-> Author(x), id |-> x, ref |-> FALSE] :
                         x \in ToAcknowledge(l.hist, h1, id)}
             rest == inbox[m] \ {id}
             drop == Dropped(l, id, rest)
  <1>1. id \in Gid /\ Author(id) \in Member
    BY ScriptType
  <1>2. l \in LineageResult /\ Keeps(hist[m], l.hist)
    BY <1>1, ProcessLineageType DEF TypeOK, Lineage
  <1> HIDE DEF l
  <1>3. l.hist \in History
    BY <1>2 DEF LineageResult
  <1>4. Keeps(hist[m], h1)
    BY <1>2, <1>3, WithScriptType, KeepsTransitive
  <1>5. acks \in SUBSET AckItem
    <2>1. ToAcknowledge(l.hist, h1, id) \in SUBSET Gid
      BY <1>3, ToAcknowledgeType
    <2> HIDE DEF h1
    <2>2. ASSUME NEW x \in ToAcknowledge(l.hist, h1, id)
          PROVE  [to |-> Author(x), id |-> x, ref |-> FALSE] \in AckItem
      <3>1. x \in Gid /\ Author(x) \in Member \cup {Everyone}
        BY <2>1, GidType DEF User, Author, Root, Everyone
      <3> QED
        BY <3>1 DEF AckItem
    <2> QED
      BY <2>2
  <1> HIDE DEF h1, acks
  <1>6. inbox[m] \in SUBSET Script /\ Held(l, id) \in SUBSET Script
    BY DEF Held, TypeOK
  <1>7. /\ {id} \in SUBSET Gid /\ {} \in SUBSET Gid /\ {} \in SUBSET AckItem
        /\ Held(l, id) \in SUBSET Gid
    BY <1>1 DEF Held
  <1>8. /\ rest \in SUBSET Script /\ (rest \ drop) \cup Held(l, id) \in SUBSET Script
        /\ drop \in SUBSET Gid
    <2>1. drop \subseteq rest /\ rest \subseteq Script
      BY <1>6 DEF Dropped
    <2> QED
      BY <1>6, <2>1, ScriptType
  <1>9. \/ Unpack(m, l, h1, acks, {id}, {id}, rest)
        \/ Unpack(m, l, l.hist, {}, Held(l, id), drop, (rest \ drop) \cup Held(l, id))
    BY DEF UnpackScript, l, h1, acks
  <1> HIDE DEF rest, drop
  <1>10. /\ HistoriesKept /\ hist' \in [Member -> History]
         /\ disconnected' \in [Member -> SUBSET Gid]
         /\ inbox' \in [Member -> SUBSET Script]
         /\ recent' \in [Member -> [Member -> Nat]]
         /\ \A p, a \in Member : recent'[p][a] <= Limit[a]
         /\ box' \in [Member -> [must : SUBSET AckItem, can : SUBSET AckItem]]
    <2>1. CASE Unpack(m, l, h1, acks, {id}, {id}, rest)
      BY <1>2, <1>4, <1>5, <1>7, <1>8, <2>1, UnpackType
    <2>2. CASE Unpack(m, l, l.hist, {}, Held(l, id), drop, (rest \ drop) \cup Held(l, id))
      BY <1>2, <1>3, <1>7, <1>8, <2>2, UnpackType
    <2> QED
      BY <1>9, <2>1, <2>2
  <1>11. net' \subseteq Message
    BY RemainingType DEF UnpackScript
  <1>12. header' = header /\ outgoing' = outgoing
    BY DEF UnpackScript
  <1>13. next' \in [Member -> Gid \cup {NoId}]
    <2>1. next' = [next EXCEPT ![m] = NextMarker(hist'[m])]
      BY DEF UnpackScript
    <2>2. NextMarker(hist'[m]) \in Gid \cup {NoId}
      BY <1>10, NextMarkerType
    <2> QED
      BY <2>1, <2>2 DEF TypeOK
  <1> QED
    BY <1>10, <1>11, <1>12, <1>13 DEF TypeOK

(* Unpacking an acknowledgment keeps the types and every recorded script.   *)
LEMMA UnpackAcksType ==
    ASSUME TypeOK, NEW m \in Member, UnpackAcks(m)
    PROVE  TypeOK' /\ HistoriesKept
  <1>1. PICK msg \in net : msg.type = "ack" /\ UnpackAck(m, msg)
    BY DEF UnpackAcks
  <1> DEFINE l    == ProcessLineage(m, msg.from, msg.lineage)
             h1   == AcceptAck(l.hist, msg.id, msg.from)
             i    == FindIdx(h1.nodes, msg.id)
             refs == {a \in {[to |-> Everyone, id |-> msg.id, ref |-> TRUE]} :
                         /\ ~msg.ref /\ Author(msg.id) = m
                         /\ i >= FisIdx(l.hist) /\ Confirmed(h1.nodes[i])}
  <1>2. msg.id \in Gid /\ msg.from \in Member /\ msg.lineage \in Seq(Gid)
    BY <1>1, MessageType DEF TypeOK
  <1>3. l \in LineageResult /\ Keeps(hist[m], l.hist)
    BY <1>2, ProcessLineageType
  <1> HIDE DEF l
  <1>4. Keeps(hist[m], h1)
    BY <1>3, AcceptAckKeeps, KeepsTransitive DEF LineageResult
  <1> HIDE DEF h1
  <1>5. refs \in SUBSET AckItem
    <2>1. [to |-> Everyone, id |-> msg.id, ref |-> TRUE] \in AckItem
      BY <1>2 DEF AckItem
    <2> QED
      BY <2>1
  <1>6. Unpack(m, l, h1, refs, {}, {}, inbox[m])
    BY <1>1 DEF UnpackAck, l, h1
  <1> HIDE DEF refs
  <1>7. inbox[m] \in SUBSET Script /\ {} \in SUBSET Gid
    BY DEF TypeOK
  <1>8. /\ HistoriesKept /\ hist' \in [Member -> History]
        /\ disconnected' \in [Member -> SUBSET Gid]
        /\ inbox' \in [Member -> SUBSET Script]
        /\ recent' \in [Member -> [Member -> Nat]]
        /\ \A p, a \in Member : recent'[p][a] <= Limit[a]
        /\ box' \in [Member -> [must : SUBSET AckItem, can : SUBSET AckItem]]
    BY <1>3, <1>4, <1>5, <1>6, <1>7, UnpackType
  <1>9. net' \subseteq Message
    BY <1>1, RemainingType DEF UnpackAck
  <1>10. header' = header /\ outgoing' = outgoing
    BY <1>1 DEF UnpackAck
  <1>11. next' \in [Member -> Gid \cup {NoId}]
    <2>1. next' = [next EXCEPT ![m] = NextMarker(l.hist)]
      BY <1>1 DEF UnpackAck, l
    <2>2. NextMarker(l.hist) \in Gid \cup {NoId}
      BY <1>3, NextMarkerType DEF LineageResult
    <2> QED
      BY <2>1, <2>2 DEF TypeOK
  <1> QED
    BY <1>8, <1>9, <1>10, <1>11 DEF TypeOK

(* The acknowledgments mailed are well-typed messages.                      *)
LEMMA SendAcknowledgmentsType ==
    ASSUME TypeOK, NEW m \in Member, SendAcknowledgments(m)
    PROVE  TypeOK' /\ HistoriesKept
  <1> DEFINE side  == SideLineage(UnitLineage(hist[m]))
             must  == {a \in box[m].must : a.to # m}
             also  == {a \in box[m].can : \E b \in must : b.to = a.to}
             To(a) == IF a.to = Everyone THEN Member \ {m} ELSE {a.to}
             Letter(a, p) == [type |-> "ack", id |-> a.id, ref |-> a.ref, from |-> m, to |-> p,
                              lineage |-> side]
             sent  == UNION {{Letter(a, p) : p \in To(a)} : a \in must \cup also}
  <1>1. side \in Lineage
    <2>1. UnitLineage(hist[m]) \in Seq(Gid)
      BY LineagesType DEF TypeOK
    <2> QED
      BY <2>1 DEF SideLineage, Lineage
  <1>2. must \cup also \in SUBSET AckItem
    BY DEF TypeOK
  <1> HIDE DEF side, must, also
  <1>3. ASSUME NEW a \in must \cup also, NEW p \in To(a)
        PROVE  Letter(a, p) \in Message
    <2>1. a.id \in Gid /\ a.ref \in BOOLEAN /\ p \in Member
      BY <1>2 DEF AckItem
    <2> QED
      BY <1>1, <2>1 DEF Message
  <1> HIDE DEF To, Letter
  <1>4. sent \subseteq Message
    BY <1>3
  <1>5. net' = net \cup sent
    BY DEF SendAcknowledgments, side, must, also, To, Letter
  <1> HIDE DEF sent
  <1>6. net' \subseteq Message
    BY <1>4, <1>5 DEF TypeOK
  <1>7. box' \in [Member -> [must : SUBSET AckItem, can : SUBSET AckItem]]
    <2>1. EmptyBox \in [must : SUBSET AckItem, can : SUBSET AckItem]
      BY DEF EmptyBox
    <2> QED
      BY <2>1 DEF SendAcknowledgments, TypeOK
  <1> QED
    BY <1>6, <1>7, NoHistoryChanged DEF SendAcknowledgments, TypeOK

(* A resend request is a well-typed message: only ids of scripts are missing. *)
LEMMA RequestMissingType ==
    ASSUME TypeOK, FisRecorded, NEW m \in Member, RequestMissing(m)
    PROVE  TypeOK' /\ HistoriesKept
  <1>1. PICK p \in Member, id \in MissingScripts(m) : RequestResend(m, id, p)
    BY DEF RequestMissing
  <1>2. id \in Gid
    <2>1. hist[m].nodes \in Seq(Node) /\ disconnected[m] \in SUBSET Gid
      BY DEF TypeOK, History
    <2>2. FisIdx(hist[m]) \in 0 .. Len(hist[m].nodes)
      BY <2>1, FindIdxType DEF FisIdx
    <2>3. /\ Len(hist[m].nodes) \in Nat
          /\ \A i \in 1 .. Len(hist[m].nodes) : hist[m].nodes[i].id \in Gid
      BY <2>1, NodesType
    <2>4. FisIdx(hist[m]) # 0
      BY <2>1, FindIdxType DEF FisIdx, FisRecorded
    <2>5. \A i \in FisIdx(hist[m]) .. Len(hist[m].nodes) : i \in 1 .. Len(hist[m].nodes)
      BY <2>2, <2>3, <2>4
    <2> QED
      BY <2>1, <2>3, <2>5 DEF MissingScripts
  <1>3. [type |-> "request", id |-> id, from |-> m, to |-> p] \in Message
    BY <1>2 DEF Message
  <1> QED
    BY <1>1, <1>3, NoHistoryChanged DEF RequestResend, TypeOK

(* The answer to a resend request is a well-typed message.                  *)
LEMMA AnswerRequestsType ==
    ASSUME TypeOK, NEW m \in Member, AnswerRequests(m)
    PROVE  TypeOK' /\ HistoriesKept
  <1>1. PICK msg \in net : msg.type = "request" /\ AnswerResend(m, msg)
    BY DEF AnswerRequests
  <1>2. msg.id \in Gid /\ msg.from \in Member
    BY <1>1, MessageType DEF TypeOK
  <1> DEFINE i    == FindIdx(hist[m].nodes, msg.id)
             sent == {s \in {[type |-> "script", id |-> msg.id, to |-> msg.from]} :
                         msg.id # Root /\ i # 0 /\ ~hist[m].nodes[i].mis}
  <1>3. sent \subseteq Message
    <2>1. msg.id # Root => msg.id \in Script
      BY <1>2, GidType
    <2>2. msg.id # Root => [type |-> "script", id |-> msg.id, to |-> msg.from] \in Message
      BY <1>2, <2>1 DEF Message
    <2> QED
      BY <2>2
  <1>4. PICK left \in Remaining(msg) : net' = left \cup sent
    BY <1>1 DEF AnswerResend
  <1> HIDE DEF sent
  <1>5. net' \subseteq Message
    BY <1>3, <1>4, RemainingType
  <1> QED
    BY <1>1, <1>5, NoHistoryChanged DEF AnswerResend, TypeOK

(* Executing a script, or marking it missing, keeps the types and every script. *)
LEMMA ExecutionType ==
    ASSUME TypeOK, NEW m \in Member, ExecuteNext(m) \/ MarkMissing(m)
    PROVE  TypeOK' /\ HistoriesKept
  <1>1. hist[m] \in History
    BY DEF TypeOK
  <1>2. CASE ExecuteNext(m)
    <2>1. /\ Keeps(hist[m], ExecuteScript(hist[m], next[m]))
          /\ NextMarker(SetExecuted(hist[m], next[m])) \in Gid \cup {NoId}
      BY <1>1, ExecuteScriptKeeps, NextMarkerType DEF Keeps
    <2>2. HistoriesKept /\ hist' \in [Member -> History]
      BY <1>2, <2>1, OneHistoryChanged DEF ExecuteNext
    <2> QED
      BY <1>2, <2>1, <2>2 DEF ExecuteNext, TypeOK
  <1>3. CASE MarkMissing(m)
    <2>1. /\ Keeps(hist[m], SetMissing(hist[m], next[m]))
          /\ hist' = [hist EXCEPT ![m] = SetMissing(hist[m], next[m])]
          /\ next' = [next EXCEPT ![m] = NextMarker(hist'[m])]
      BY <1>1, <1>3, SetMissingKeeps DEF MarkMissing
    <2>2. HistoriesKept /\ hist' \in [Member -> History]
      BY <2>1, OneHistoryChanged
    <2>3. NextMarker(hist'[m]) \in Gid \cup {NoId}
      BY <2>2, NextMarkerType
    <2> QED
      BY <1>3, <2>1, <2>2, <2>3 DEF MarkMissing, TypeOK
  <1> QED
    BY <1>2, <1>3

----------------------------------------------------------------------------
(* The first inductive invariant: types, and a marker that is found *)
IInv == TypeOK /\ FisRecorded

(* Every step keeps every script recorded in any history, and the marker's node. *)
LEMMA StepKeeps ==
    ASSUME IInv, [Next]_vars
    PROVE  TypeOK' /\ HistoriesKept
  <1> USE DEF IInv
  <1>1. CASE UNCHANGED vars
    BY <1>1, NoHistoryChanged DEF vars, TypeOK
  <1>2. ASSUME NEW m \in Member, CheckIn(m) PROVE TypeOK' /\ HistoriesKept
    BY <1>2, CheckInType
  <1>3. ASSUME NEW m \in Member, Broadcast(m) \/ Crash(m) PROVE TypeOK' /\ HistoriesKept
    BY <1>3, MailType
  <1>4. ASSUME NEW m \in Member, NEW id \in Script, UnpackScript(m, id)
        PROVE  TypeOK' /\ HistoriesKept
    BY <1>4, UnpackScriptType
  <1>5. ASSUME NEW m \in Member, UnpackAcks(m) PROVE TypeOK' /\ HistoriesKept
    BY <1>5, UnpackAcksType
  <1>6. ASSUME NEW m \in Member, SendAcknowledgments(m) PROVE TypeOK' /\ HistoriesKept
    BY <1>6, SendAcknowledgmentsType
  <1>7. ASSUME NEW m \in Member, RequestMissing(m) PROVE TypeOK' /\ HistoriesKept
    BY <1>7, RequestMissingType
  <1>8. ASSUME NEW m \in Member, AnswerRequests(m) PROVE TypeOK' /\ HistoriesKept
    BY <1>8, AnswerRequestsType
  <1>9. ASSUME NEW m \in Member, ExecuteNext(m) \/ MarkMissing(m)
        PROVE  TypeOK' /\ HistoriesKept
    BY <1>9, ExecutionType
  <1> QED
    BY <1>1, <1>2, <1>3, <1>4, <1>5, <1>6, <1>7, <1>8, <1>9 DEF Next

(* The invariant holds at first and is kept by every step.                   *)
LEMMA InitInv == Init => IInv
  <1> SUFFICES ASSUME Init PROVE FisRecorded
    BY InitType DEF IInv
  <1>1. \A m \in Member : hist[m] = InitialHistory
    BY DEF Init
  <1>2. InitialHistory.fis \in Ids(InitialHistory.nodes)
    BY DEF InitialHistory, Ids, ScriptNode
  <1> QED
    BY <1>1, <1>2 DEF FisRecorded

(* The invariant is inductive.                                              *)
LEMMA StepInv == IInv /\ [Next]_vars => IInv'
  <1> SUFFICES ASSUME IInv, [Next]_vars PROVE IInv'
    OBVIOUS
  <1>1. TypeOK' /\ HistoriesKept
    BY StepKeeps
  <1>2. FisRecorded'
    BY <1>1 DEF HistoriesKept, Keeps, FisRecorded, IInv
  <1> QED
    BY <1>1, <1>2 DEF IInv

(* Hence it holds in every reachable state.                                 *)
LEMMA InvHolds == Spec => []IInv
  BY InitInv, StepInv, PTL DEF Spec

(***************************************************************************)
(* The type invariant: whatever is lost, repeated, reordered or stopped,    *)
(* histories, lineages and mail name scripts that somebody has checked in   *)
(* within the bound, and nothing else.                                      *)
(***************************************************************************)
THEOREM TypeCorrect == Spec => []TypeOK
  <1>1. IInv => TypeOK
    BY DEF IInv
  <1> QED
    BY <1>1, InvHolds, PTL

(***************************************************************************)
(* The searches that start at the First Interesting Script always find it:  *)
(* it is in the history, although losing branches are rejected under it and *)
(* placeholders replaced.                                                   *)
(***************************************************************************)
THEOREM FisAlwaysFound == Spec => [](\A m \in Member : FisIdx(hist[m]) # 0)
  <1>1. ASSUME IInv PROVE \A m \in Member : FisIdx(hist[m]) # 0
    <2>1. \A m \in Member : hist[m].nodes \in Seq(Node) /\ hist[m].fis \in Ids(hist[m].nodes)
      BY <1>1 DEF IInv, TypeOK, History, FisRecorded
    <2> QED
      BY <2>1, FindIdxType DEF FisIdx
  <1> QED
    BY <1>1, InvHolds, PTL

(***************************************************************************)
(* No step takes a script out of a history: rejecting a branch, undoing it, *)
(* replacing a placeholder and finding a script unreadable keep its id, so  *)
(* that what a lineage has named once is never asked to be placed again.    *)
(***************************************************************************)
THEOREM NothingForgotten ==
    Spec => [][\A m \in Member : Ids(hist[m].nodes) \subseteq Ids(hist'[m].nodes)]_vars
  <1>1. ASSUME IInv, [Next]_vars
        PROVE  \A m \in Member : Ids(hist[m].nodes) \subseteq Ids(hist'[m].nodes)
    BY <1>1, StepKeeps DEF HistoriesKept, Keeps
  <1> QED
    BY <1>1, InvHolds, PTL DEF Spec

----------------------------------------------------------------------------
(* Handlers that read mail *)

(* LastOf, by the name used for histories.                                   *)
LEMMA LastIs == \A lin : LastOf(lin) = Last(lin)
  BY DEF LastOf, Last

(* The good part of a lineage is the part before the first own script.       *)
LEMMA GoodPartIs ==
    ASSUME NEW m, NEW ids \in Seq(Gid)
    PROVE  \E c \in 0 .. Len(ids) :
              /\ GoodPart(m, ids) = SubSeq(ids, 1, c)
              /\ \A k \in 1 .. c : Author(ids[k]) # m
  <1> DEFINE n == Len(ids)
             B == {i \in DOMAIN ids : Author(ids[i]) = m}
             g == Least(B, n + 1)
  <1>1. n \in Nat /\ DOMAIN ids = 1 .. n
    BY ArrayType
  <1>2. B \in SUBSET Nat /\ \A i \in B : i \in 1 .. n
    BY <1>1
  <1>3. (B = {} => g = n + 1) /\ (B # {} => g \in B /\ \A j \in B : g <= j)
    BY <1>2, LeastIs
  <1>4. GoodPart(m, ids) = SubSeq(ids, 1, g - 1)
    BY DEF GoodPart
  <1>5. \A k \in 1 .. n : Author(ids[k]) = m => k \in B
    BY <1>1
  <1> HIDE DEF B, g, n
  <1>6. g \in 1 .. n + 1
    <2>1. CASE B = {}
      BY <1>1, <1>3, <2>1
    <2>2. CASE B # {}
      <3>1. g \in 1 .. n
        BY <1>2, <1>3, <2>2
      <3> QED
        BY <1>1, <3>1
    <2> QED
      BY <2>1, <2>2
  <1>7. g - 1 \in 0 .. n
    BY <1>1, <1>6
  <1>8. ASSUME NEW k \in 1 .. g - 1 PROVE Author(ids[k]) # m
    <2>1. k \in 1 .. n /\ k < g /\ g \in Nat /\ k \in Nat
      BY <1>1, <1>6
    <2>2. k \notin B
      BY <1>3, <2>1
    <2> QED
      BY <1>5, <2>1, <2>2
  <1> QED
    BY <1>4, <1>7, <1>8 DEF n

(* A prefix, by places.                                                      *)
LEMMA PrefixIs ==
    ASSUME NEW lin \in Seq(Gid), NEW c \in 0 .. Len(lin)
    PROVE  LET s == SubSeq(lin, 1, c)
           IN  s \in Seq(Gid) /\ Len(s) = c /\ \A k \in 1 .. c : s[k] = lin[k]
  <1>1. Len(lin) \in Nat /\ \A k \in 1 .. Len(lin) : lin[k] \in Gid
    BY ArrayType
  <1>2. \A k \in 1 .. c : lin[k] \in Gid
    BY <1>1
  <1> QED
    BY <1>1, <1>2, SubSeqProperties

(* A suffix, by places.                                                      *)
LEMMA RestIs ==
    ASSUME NEW lin \in Seq(Gid), NEW L \in 1 .. Len(lin)
    PROVE  LET s == SubSeq(lin, L + 1, Len(lin))
           IN  s \in Seq(Gid) /\ Len(s) = Len(lin) - L /\ \A k \in 1 .. Len(lin) - L : s[k] = lin[L + k]
  <1>1. Len(lin) \in Nat /\ \A k \in 1 .. Len(lin) : lin[k] \in Gid
    BY ArrayType
  <1>2. \A k \in L + 1 .. Len(lin) : lin[k] \in Gid
    BY <1>1
  <1> QED
    BY <1>1, <1>2, SubSeqProperties

(***************************************************************************)
(* A lineage that connects names, after its last known script, scripts that *)
(* are new here and follow each other; as many as it is good for are        *)
(* inserted there.                                                          *)
(***************************************************************************)
LEMMA ConnectedNews ==
    ASSUME NEW m \in Member, Good(header, m, hist[m]),
           NEW from, NEW lin \in Seq(Gid), Linked(header, lin),
           FirstKnown(hist[m].nodes, lin) # 0
    PROVE  LET t   == hist[m].nodes
               L   == LastMatched(t, lin)
               new == GoodPart(m, UnmatchedIds(t, lin))
               l   == ConnectedLineage(m, from, lin)
           IN  /\ Len(lin) \in Nat /\ L \in 1 .. Len(lin) /\ lin[L] \in Ids(t)
               /\ new \in Seq(Gid) /\ Unheard(header, m, t, lin[L], new)
               /\ l.hist = InsertMissing(hist[m], lin[L], new) /\ l.new = Elements(new)
               /\ l.status = "connected" => \A j \in L + 1 .. Len(lin) : lin[j] \in Elements(new)
  <1> DEFINE t    == hist[m].nodes
             n    == Len(lin)
             L    == LastMatched(t, lin)
             rest == UnmatchedIds(t, lin)
             new  == GoodPart(m, rest)
             h2   == InsertMissing(hist[m], lin[L], new)
             l    == ConnectedLineage(m, from, lin)
  <1>1. Tree(t) /\ Known(header, t)
    BY DEF Good, Sound
  <1>2. /\ n \in Nat /\ L \in 1 .. n /\ lin[L] \in Ids(t)
        /\ \A j \in L + 1 .. n : lin[j] \notin Ids(t)
        /\ \A i, j \in L + 1 .. n : lin[i] = lin[j] => i = j
    BY <1>1, Matched
  <1>3. rest \in Seq(Gid) /\ Len(rest) = n - L /\ \A k \in 1 .. n - L : rest[k] = lin[L + k]
    BY <1>2, RestIs DEF UnmatchedIds
  <1>4. l.hist = h2 /\ l.new = SeqToSet(new) /\ (l.status = "connected" => new = rest)
    BY DEF ConnectedLineage
  <1>5. PICK c \in 0 .. Len(rest) :
            new = SubSeq(rest, 1, c) /\ \A k \in 1 .. c : Author(rest[k]) # m
    BY <1>3, GoodPartIs
  <1>6. new \in Seq(Gid) /\ Len(new) = c /\ \A k \in 1 .. c : new[k] = rest[k]
    BY <1>3, <1>5, PrefixIs
  <1>7. \A j \in 2 .. n : CheckedIn(header, lin[j]) /\ lin[j - 1] = Last(header[lin[j]])
    BY DEF Linked
  <1> HIDE DEF n, L, rest, new, l, h2, t
  <1>8. c \in Nat /\ c <= n - L
    BY <1>2, <1>3
  <1>9. \A k \in 1 .. c : /\ new[k] = lin[L + k] /\ L + k \in L + 1 .. n /\ L + k \in 2 .. n
                          /\ CheckedIn(header, lin[L + k])
                          /\ lin[(L + k) - 1] = Last(header[lin[L + k]])
    <2> SUFFICES ASSUME NEW k \in 1 .. c
                 PROVE  /\ new[k] = lin[L + k] /\ L + k \in L + 1 .. n /\ L + k \in 2 .. n
                        /\ CheckedIn(header, lin[L + k])
                        /\ lin[(L + k) - 1] = Last(header[lin[L + k]])
      OBVIOUS
    <2>1. L + k \in L + 1 .. n /\ L + k \in 2 .. n /\ k \in 1 .. n - L
      BY <1>2, <1>8
    <2> QED
      BY <1>3, <1>6, <1>7, <2>1
  <1>10. new # <<>> => CheckedIn(header, new[1]) /\ Last(header[new[1]]) = lin[L]
    <2> SUFFICES ASSUME new # <<>>
                 PROVE  CheckedIn(header, new[1]) /\ Last(header[new[1]]) = lin[L]
      OBVIOUS
    <2>1. 1 \in 1 .. c
      BY <1>6, <1>8, EmptySeq
    <2>2. (L + 1) - 1 = L
      BY <1>2
    <2> QED
      BY <1>9, <2>1, <2>2
  <1>11. \A k \in 2 .. Len(new) : CheckedIn(header, new[k]) /\ Last(header[new[k]]) = new[k - 1]
    <2> SUFFICES ASSUME NEW k \in 2 .. c
                 PROVE  CheckedIn(header, new[k]) /\ Last(header[new[k]]) = new[k - 1]
      BY <1>6
    <2>1. k \in 1 .. c /\ k - 1 \in 1 .. c /\ (L + k) - 1 = L + (k - 1)
      BY <1>2, <1>8
    <2> QED
      BY <1>9, <2>1
  <1>12. \A k \in 1 .. Len(new) : new[k] \notin Ids(t) /\ Author(new[k]) # m
    BY <1>2, <1>5, <1>6, <1>9
  <1>13. \A k, j \in 1 .. Len(new) : new[k] = new[j] => k = j
    <2> SUFFICES ASSUME NEW k \in 1 .. c, NEW j \in 1 .. c, new[k] = new[j] PROVE k = j
      BY <1>6
    <2>1. L + k \in L + 1 .. n /\ L + j \in L + 1 .. n /\ lin[L + k] = lin[L + j]
      BY <1>9
    <2>2. L + k = L + j
      BY <1>2, <2>1
    <2>3. L \in Nat /\ k \in Nat /\ j \in Nat
      BY <1>2, <1>8
    <2> QED
      BY <2>2, <2>3
  <1>14. Unheard(header, m, t, lin[L], new)
    BY <1>10, <1>11, <1>12, <1>13 DEF Unheard
  <1>15. ASSUME new = rest, NEW j \in L + 1 .. n PROVE lin[j] \in Elements(new)
    <2>0. c = n - L
      BY <1>3, <1>6, <1>15
    <2>1. j - L \in 1 .. c /\ L + (j - L) = j
      BY <1>2, <2>0
    <2>2. new[j - L] = lin[j]
      BY <1>9, <2>1
    <2> QED
      BY <1>6, <2>1, <2>2 DEF Elements
  <1>16. SeqToSet(new) = Elements(new)
    <2>1. DOMAIN new = 1 .. Len(new)
      BY <1>6, ArrayType
    <2> QED
      BY <2>1 DEF SeqToSet, Elements
  <1> QED
    BY <1>2, <1>4, <1>6, <1>14, <1>15, <1>16 DEF n, L, rest, new, l, h2, t

(***************************************************************************)
(* A lineage that connects keeps the history good and, if it is good        *)
(* itself, leaves its last script recorded.                                 *)
(***************************************************************************)
LEMMA ConnectedGood ==
    ASSUME OneBranch(header), NEW m \in Member, Good(header, m, hist[m]),
           NEW from, NEW lin \in Seq(Gid), Linked(header, lin),
           FirstKnown(hist[m].nodes, lin) # 0
    PROVE  LET l == ConnectedLineage(m, from, lin)
           IN  /\ Good(header, m, l.hist)
               /\ Ids(hist[m].nodes) \subseteq Ids(l.hist.nodes)
               /\ l.status = "connected" => Last(lin) \in Ids(l.hist.nodes)
  <1> DEFINE t   == hist[m].nodes
             L   == LastMatched(t, lin)
             new == GoodPart(m, UnmatchedIds(t, lin))
             l   == ConnectedLineage(m, from, lin)
  <1>1. /\ Len(lin) \in Nat /\ L \in 1 .. Len(lin) /\ lin[L] \in Ids(t)
        /\ new \in Seq(Gid) /\ Unheard(header, m, t, lin[L], new)
        /\ l.hist = InsertMissing(hist[m], lin[L], new) /\ l.new = Elements(new)
        /\ l.status = "connected" => \A j \in L + 1 .. Len(lin) : lin[j] \in Elements(new)
    BY ConnectedNews
  <1> HIDE DEF L, new, l, t
  <1>2. Good(header, m, l.hist) /\ Ids(l.hist.nodes) = Ids(t) \cup Elements(new)
    <2>1. Good(header, m, l.hist) /\ Gains(t, l.hist.nodes, new)
      BY <1>1, InsertMissingGood DEF t
    <2> QED
      BY <2>1 DEF Gains
  <1>3. ASSUME l.status = "connected" PROVE Last(lin) \in Ids(l.hist.nodes)
    <2>1. lin # <<>> /\ Last(lin) = lin[Len(lin)]
      BY <1>1 DEF Last
    <2>2. CASE Len(lin) = L
      BY <1>1, <1>2, <2>1, <2>2
    <2>3. CASE Len(lin) # L
      <3>1. Len(lin) \in L + 1 .. Len(lin)
        BY <1>1, <2>3
      <3> QED
        BY <1>1, <1>2, <1>3, <2>1, <3>1
    <2> QED
      BY <2>2, <2>3
  <1> QED
    BY <1>2, <1>3 DEF l, t

(* Any lineage keeps the history good.                                       *)
LEMMA ProcessGood ==
    ASSUME OneBranch(header), NEW m \in Member, Good(header, m, hist[m]),
           NEW from, NEW lin \in Seq(Gid), Linked(header, lin)
    PROVE  LET l == ProcessLineage(m, from, lin)
           IN  /\ Good(header, m, l.hist)
               /\ Ids(hist[m].nodes) \subseteq Ids(l.hist.nodes)
               /\ l.status = "connected" /\ lin # <<>> => Last(lin) \in Ids(l.hist.nodes)
  <1> DEFINE l == ProcessLineage(m, from, lin)
  <1>1. CASE lin # <<>> /\ Connects(m, lin)
    <2>1. FirstKnown(hist[m].nodes, lin) # 0
      BY <1>1 DEF Connects
    <2>2. l = ConnectedLineage(m, from, lin)
      BY <1>1 DEF ProcessLineage
    <2> HIDE DEF l
    <2>3. /\ Good(header, m, l.hist)
          /\ Ids(hist[m].nodes) \subseteq Ids(l.hist.nodes)
          /\ l.status = "connected" => Last(lin) \in Ids(l.hist.nodes)
      BY <2>1, <2>2, ConnectedGood
    <2> QED
      BY <2>3 DEF l
  <1>2. CASE ~(lin # <<>> /\ Connects(m, lin))
    <2>1. l.hist = hist[m] /\ (l.status = "connected" => lin = <<>>)
      BY <1>2 DEF ProcessLineage, LineageWithoutNews
    <2> QED
      BY <2>1
  <1> QED
    BY <1>1, <1>2

(* Recording the script itself keeps the history good.                       *)
LEMMA WithScriptGood ==
    ASSUME TypeOK, OneBranch(header), NEW m \in Member, NEW h, Good(header, m, h),
           NEW id \in Script, header[id] # <<>>, Last(header[id]) \in Ids(h.nodes),
           Author(id) = m => id \in Ids(h.nodes)
    PROVE  Good(header, m, WithScript(h, id))
  <1> DEFINE t    == h.nodes
             i    == FindIdx(t, id)
             acks == IF i # 0 /\ Confirmed(t[i]) THEN {} ELSE {Author(id)}
             n    == ScriptNode(id, LastOf(header[id]), acks, FALSE)
  <1>1. h \in History /\ Tree(t) /\ t \in Seq(Node)
    BY DEF Good, Sound, Tree
  <1>2. id \in Gid /\ Author(id) \in Member /\ CheckedIn(header, id)
    BY ScriptType DEF CheckedIn
  <1>3. header[id] \in Seq(Gid)
    BY DEF TypeOK, Lineage
  <1>4. acks \in SUBSET User
    BY <1>2 DEF User
  <1> HIDE DEF acks
  <1>5. n \in Node
    BY <1>2, <1>3, <1>4, LastOfType, ScriptNodeType
  <1>6. n.id = id /\ n.pred = Last(header[id]) /\ ~n.exe /\ ~n.rej /\ ~n.bp
    BY LastIs DEF ScriptNode
  <1>7. WithScript(h, id) = IF i = 0 THEN InsertNewNode(h, n)
                            ELSE IF t[i].mis THEN SubstituteNode(h, n) ELSE h
    BY DEF WithScript, acks
  <1> HIDE DEF n
  <1>8. i \in 0 .. Len(t) /\ (i # 0 => t[i].id = id) /\ (i = 0 <=> id \notin Ids(t))
    BY <1>1, FindIdxType
  <1>9. CASE i = 0
    <2>1. n.id \notin Ids(t) /\ Author(n.id) # m /\ n.pred \in Ids(t)
      BY <1>6, <1>8, <1>9
    <2>2. Good(header, m, InsertNewNode(h, n))
      BY <1>2, <1>5, <1>6, <2>1, ReceivedGood
    <2> QED
      BY <1>7, <1>9, <2>2
  <1>10. CASE i # 0 /\ t[i].mis
    <2>1. i \in 1 .. Len(t) /\ t[i].id = n.id
      BY <1>1, <1>6, <1>8, <1>10, NodesType
    <2>2. Good(header, m, SubstituteNode(h, n))
      BY <1>5, <1>6, <1>10, <2>1, SubstituteGood
    <2> QED
      BY <1>7, <1>10, <2>2
  <1>11. CASE i # 0 /\ ~t[i].mis
    BY <1>7, <1>11
  <1> QED
    BY <1>9, <1>10, <1>11

(* What was heard of is not forgotten.                                       *)
LEMMA HeardGrows ==
    ASSUME TypeOK, NEW m \in Member, NEW a \in Member, NEW ids \in SUBSET Gid
    PROVE  recent[m][a] <= Heard(m, ids)[a]
  <1> DEFINE S == {recent[m][a]} \cup {Ord(id) : id \in {x \in ids : Author(x) = a}}
  <1>1. recent[m][a] \in 0 .. Limit[a] /\ Limit[a] \in Nat
    BY MemberAssumption DEF TypeOK
  <1>2. ASSUME NEW id \in ids, Author(id) = a PROVE Ord(id) \in 0 .. Limit[a]
    BY <1>1, <1>2, GidType DEF Ord
  <1>3. S \in SUBSET (0 .. Limit[a])
    BY <1>1, <1>2
  <1>4. S # {} => Greatest(S, 0) \in S /\ \A j \in S : j <= Greatest(S, 0)
    BY <1>1, <1>3, GreatestIs
  <1>5. Heard(m, ids)[a] = Greatest(S, 0)
    BY DEF Heard
  <1> QED
    BY <1>4, <1>5

----------------------------------------------------------------------------
(* The second inductive invariant: the shape of the histories *)

(* All members' histories are good for the headers mailed so far.            *)
HistoriesGood == \A m \in Member : Good(header, m, hist[m])

(* A member's own scripts are recorded by it, and number the next one.       *)
OwnRecorded ==
    \A m \in Member : \A id \in Script :
        Author(id) = m /\ header[id] # <<>> =>
            id \in Ids(hist[m].nodes) /\ Ord(id) <= recent[m][m]

(* The lineages in headers are linked.                                       *)
HeadersLinked == \A id \in Script : Linked(header, header[id])

(* So are those that acknowledgments carry.                                  *)
AcksLinked == \A msg \in net : msg.type = "ack" => Linked(header, msg.lineage)

(***************************************************************************)
(* Scripts in transit, in an inbox or waiting to be mailed have been        *)
(* checked in.                                                              *)
(***************************************************************************)
MailCheckedIn ==
    /\ \A msg \in net : msg.type = "script" => header[msg.id] # <<>>
    /\ \A m \in Member : \A id \in inbox[m] : header[id] # <<>>
    /\ \A m \in Member : outgoing[m] # NoId => header[outgoing[m]] # <<>>

(***************************************************************************)
(* The inductive invariant. The histories alone are not inductive: a        *)
(* lineage read from the mail may be inserted only if it names real         *)
(* predecessors, so the mail is part of it; a chain may not get a sibling   *)
(* of its own author, so no member may ever have built twice upon the same  *)
(* script, which own scripts being done prevents.                           *)
(***************************************************************************)
ShapeInv ==
    /\ IInv /\ HistoriesGood /\ NextMarkerFresh /\ OwnRecorded
    /\ OneBranch(header) /\ HeadersLinked /\ AcksLinked /\ MailCheckedIn

(* The invariant holds at first.                                             *)
LEMMA InitShape == Init => ShapeInv
  <1> SUFFICES ASSUME Init PROVE ShapeInv
    OBVIOUS
  <1> DEFINE n == ScriptNode(Root, NoId, {}, TRUE)
             t == <<n>>
             h == InitialHistory
  <1>1. IInv
    BY InitInv
  <1>2. /\ \A m \in Member : hist[m] = h /\ next[m] = NoId /\ inbox[m] = {} /\ outgoing[m] = NoId
        /\ \A id \in Script : header[id] = <<>>
        /\ net = {}
    BY DEF Init
  <1>3. h.nodes = t /\ h.fis = Root /\ Len(t) = 1 /\ t[1] = n
    BY DEF InitialHistory
  <1>4. /\ n.id = Root /\ n.pred = NoId /\ n.acks = {} /\ ~n.rej /\ ~n.mis /\ n.exe /\ ~n.bp
        /\ Tree(t) /\ RootSettled(t) /\ Under(Parents(t), 1, 1)
        /\ [nodes |-> t, fis |-> Root] \in History
    BY RootAlone
  <1> HIDE DEF n
  <1>5. h \in History
    BY <1>4 DEF InitialHistory, n
  <1> HIDE DEF h, t
  <1>6. /\ 2 .. Len(t) = {} /\ 1 .. Len(t) = {1}
        /\ Len(t) \in Nat /\ Len(t) > 0
    BY <1>3
  <1>7. Done(t, 1)
    BY <1>3, <1>4, <1>6 DEF Done
  <1>8. Sound(h)
    <2>1. RootSettled(t) /\ MissingNotDone(t)
      BY <1>3, <1>4, <1>6 DEF RootSettled, MissingNotDone
    <2>2. SettledIn(t, Root)
      BY <1>3, <1>4, <1>6 DEF SettledIn, Executed, Confirmed
    <2> QED
      BY <1>3, <1>4, <1>5, <1>7, <2>1, <2>2 DEF Sound
  <1>9. \A m \in Member : Good(header, m, h)
    BY <1>3, <1>6, <1>8 DEF Good, Known, OwnDone
  <1>10. NextMarker(h) = NoId
    <2>1. Waiting(t) = {}
      BY <1>3, <1>4, <1>6 DEF Waiting
    <2>2. NextOf(t) = NoId
      BY <2>1, LeastIs DEF NextOf
    <2> QED
      BY <1>3, <1>8, <2>2, MarkerOf
  <1>11. OneBranch(header) /\ OwnRecorded /\ HeadersLinked
    <2>1. \A hdr : Linked(hdr, <<>>)
      BY DEF Linked
    <2> QED
      BY <1>2, <2>1 DEF OneBranch, CheckedIn, OwnRecorded, HeadersLinked
  <1> QED
    BY <1>1, <1>2, <1>9, <1>10, <1>11
       DEF ShapeInv, HistoriesGood, NextMarkerFresh, AcksLinked, MailCheckedIn

(***************************************************************************)
(* A step that changes no history and mails only what is checked in and     *)
(* linked keeps the invariant.                                              *)
(***************************************************************************)
LEMMA MailStep ==
    ASSUME ShapeInv, IInv', UNCHANGED <<hist, next, recent, header, inbox>>,
           \A msg \in net' : \/ msg \in net
                             \/ msg.type = "request"
                             \/ msg.type = "script" /\ header[msg.id] # <<>>
                             \/ msg.type = "ack" /\ Linked(header, msg.lineage),
           \A m \in Member : outgoing'[m] = outgoing[m] \/ outgoing'[m] = NoId
    PROVE  ShapeInv'
  <1>1. HistoriesGood' /\ NextMarkerFresh' /\ OwnRecorded' /\ OneBranch(header)' /\ HeadersLinked'
    BY DEF ShapeInv, HistoriesGood, NextMarkerFresh, OwnRecorded, HeadersLinked
  <1>2. AcksLinked'
    BY DEF ShapeInv, AcksLinked
  <1>3. MailCheckedIn'
    BY DEF ShapeInv, MailCheckedIn
  <1> QED
    BY <1>1, <1>2, <1>3 DEF ShapeInv

(* Broadcasting a script, or crashing before, keeps the invariant.           *)
LEMMA BroadcastShape ==
    ASSUME ShapeInv, IInv', NEW m \in Member, Broadcast(m) \/ Crash(m)
    PROVE  ShapeInv'
  <1>1. UNCHANGED <<hist, next, recent, header, inbox>>
    BY DEF Broadcast, Crash
  <1>2. outgoing' = [outgoing EXCEPT ![m] = NoId] /\ outgoing \in [Member -> Script \cup {NoId}]
    BY DEF Broadcast, Crash, ShapeInv, IInv, TypeOK
  <1>3. \A msg \in net' : msg \in net \/ (msg.type = "script" /\ header[msg.id] # <<>>)
    <2>1. CASE Broadcast(m)
      <3>1. header[outgoing[m]] # <<>>
        BY <2>1 DEF Broadcast, ShapeInv, MailCheckedIn
      <3> QED
        BY <2>1, <3>1 DEF Broadcast
    <2>2. CASE Crash(m)
      BY <2>2 DEF Crash
    <2> QED
      BY <2>1, <2>2
  <1> QED
    BY <1>1, <1>2, <1>3, MailStep

(* Mailing acknowledgments keeps the invariant.                              *)
LEMMA SendShape ==
    ASSUME ShapeInv, IInv', NEW m \in Member, SendAcknowledgments(m)
    PROVE  ShapeInv'
  <1> DEFINE side  == SideLineage(UnitLineage(hist[m]))
             must  == {a \in box[m].must : a.to # m}
             also  == {a \in box[m].can : \E b \in must : b.to = a.to}
             To(a) == IF a.to = Everyone THEN Member \ {m} ELSE {a.to}
             Letter(a, p) == [type |-> "ack", id |-> a.id, ref |-> a.ref, from |-> m, to |-> p,
                              lineage |-> side]
  <1>1. Linked(header, side)
    <2>1. Linked(header, UnitLineage(hist[m]))
      BY UnitLinked DEF ShapeInv, HistoriesGood, Good
    <2>2. Linked(header, <<>>)
      BY DEF Linked
    <2> QED
      BY <2>1, <2>2 DEF SideLineage
  <1>2. net' = net \cup UNION {{Letter(a, p) : p \in To(a)} : a \in must \cup also}
    BY DEF SendAcknowledgments
  <1>3. UNCHANGED <<hist, next, recent, header, inbox, outgoing>>
    BY DEF SendAcknowledgments
  <1> HIDE DEF side, must, also, To
  <1>4. \A a, p : Letter(a, p).type = "ack" /\ Letter(a, p).lineage = side
    OBVIOUS
  <1> HIDE DEF Letter
  <1>5. \A msg \in net' : msg \in net \/ (msg.type = "ack" /\ Linked(header, msg.lineage))
    BY <1>1, <1>2, <1>4
  <1> QED
    BY <1>3, <1>5, MailStep

(* Asking for a script keeps the invariant.                                  *)
LEMMA RequestShape ==
    ASSUME ShapeInv, IInv', NEW m \in Member, RequestMissing(m)
    PROVE  ShapeInv'
  <1>1. PICK p \in Member, id \in MissingScripts(m) : RequestResend(m, id, p)
    BY DEF RequestMissing
  <1>2. UNCHANGED <<hist, next, recent, header, inbox, outgoing>>
    BY <1>1 DEF RequestResend
  <1>3. \A msg \in net' : msg \in net \/ msg.type = "request"
    BY <1>1 DEF RequestResend
  <1> QED
    BY <1>2, <1>3, MailStep

(* Answering with a recorded script keeps the invariant.                     *)
LEMMA AnswerShape ==
    ASSUME ShapeInv, IInv', NEW m \in Member, AnswerRequests(m)
    PROVE  ShapeInv'
  <1>1. PICK msg \in net : msg.type = "request" /\ AnswerResend(m, msg)
    BY DEF AnswerRequests
  <1> DEFINE t == hist[m].nodes
             i == FindIdx(t, msg.id)
             sent == {s \in {[type |-> "script", id |-> msg.id, to |-> msg.from]} :
                         msg.id # Root /\ i # 0 /\ ~t[i].mis}
  <1>2. UNCHANGED <<hist, next, recent, header, inbox, outgoing>>
    BY <1>1 DEF AnswerResend
  <1>3. PICK left \in Remaining(msg) : net' = left \cup sent
    BY <1>1 DEF AnswerResend
  <1>4. left \subseteq net
    BY RemainingType DEF ShapeInv, IInv
  <1>5. ASSUME msg.id # Root, i # 0 PROVE header[msg.id] # <<>>
    <2>1. Tree(t) /\ Known(header, t) /\ t \in Seq(Node) /\ Shaped(t) /\ Len(t) \in Nat
      BY NodesType DEF ShapeInv, HistoriesGood, Good, Sound, Tree
    <2>2. i \in 1 .. Len(t) /\ t[i].id = msg.id
      BY <1>5, <2>1, FindIdxType
    <2>3. i # 1
      BY <1>5, <2>1, <2>2 DEF Shaped
    <2>4. i \in 2 .. Len(t)
      BY <2>1, <2>2, <2>3
    <2> QED
      BY <2>1, <2>2, <2>4 DEF Known, CheckedIn
  <1>6. \A s \in sent : s.type = "script" /\ header[s.id] # <<>>
    BY <1>5
  <1> HIDE DEF sent
  <1>7. \A s \in net' : s \in net \/ (s.type = "script" /\ header[s.id] # <<>>)
    BY <1>3, <1>4, <1>6
  <1> QED
    BY <1>2, <1>7, MailStep

(***************************************************************************)
(* A step that replaces a good history by a good one with all its scripts,  *)
(* and looks up the next script, keeps the invariant.                       *)
(***************************************************************************)
LEMMA HistoryStep ==
    ASSUME ShapeInv, IInv', NEW m \in Member, NEW h1, Good(header, m, h1),
           Ids(hist[m].nodes) \subseteq Ids(h1.nodes),
           hist' = [hist EXCEPT ![m] = h1], next' = [next EXCEPT ![m] = NextMarker(h1)],
           \A p \in Member : recent[p][p] <= recent'[p][p],
           header' = header, outgoing' = outgoing, net' \subseteq net,
           \A p \in Member : \A id \in inbox'[p] : header[id] # <<>>
    PROVE  ShapeInv'
  <1>1. TypeOK /\ TypeOK'
    BY DEF ShapeInv, IInv
  <1>2. /\ hist'[m] = h1 /\ \A p \in Member : p # m => hist'[p] = hist[p]
        /\ next'[m] = NextMarker(h1) /\ \A p \in Member : p # m => next'[p] = next[p]
    BY <1>1 DEF TypeOK
  <1>3. HistoriesGood'
    BY <1>2 DEF ShapeInv, HistoriesGood
  <1>4. NextMarkerFresh'
    BY <1>2 DEF ShapeInv, NextMarkerFresh
  <1>5. OwnRecorded'
    <2> SUFFICES ASSUME NEW p \in Member, NEW id \in Script, Author(id) = p, header[id] # <<>>
                 PROVE  id \in Ids(hist'[p].nodes) /\ Ord(id) <= recent'[p][p]
      BY DEF OwnRecorded
    <2>1. id \in Ids(hist[p].nodes) /\ Ord(id) <= recent[p][p]
      BY DEF ShapeInv, OwnRecorded
    <2>2. recent[p][p] \in Nat /\ recent'[p][p] \in Nat /\ Ord(id) \in Nat
      BY <1>1, ScriptType, MemberAssumption DEF TypeOK
    <2>3. Ord(id) <= recent'[p][p]
      BY <2>1, <2>2
    <2> QED
      BY <1>2, <2>1, <2>3
  <1>6. OneBranch(header)' /\ HeadersLinked' /\ AcksLinked'
    BY DEF ShapeInv, HeadersLinked, AcksLinked
  <1>7. MailCheckedIn'
    BY DEF ShapeInv, MailCheckedIn
  <1> QED
    BY <1>3, <1>4, <1>5, <1>6, <1>7 DEF ShapeInv

----------------------------------------------------------------------------
(* Steps that change a history *)

(* The cached next script, by the whole array.                               *)
LEMMA NextKnown ==
    ASSUME ShapeInv, NEW m \in Member
    PROVE  /\ Good(header, m, hist[m]) /\ Sound(hist[m])
           /\ next[m] = NextOf(hist[m].nodes)
  <1>1. Good(header, m, hist[m]) /\ Sound(hist[m]) /\ next[m] = NextMarker(hist[m])
    BY DEF ShapeInv, HistoriesGood, NextMarkerFresh, Good
  <1> QED
    BY <1>1, MarkerOf

(* Executing the next script keeps the invariant.                            *)
LEMMA ExecuteShape ==
    ASSUME ShapeInv, IInv', NEW m \in Member, ExecuteNext(m)
    PROVE  ShapeInv'
  <1> DEFINE h1 == ExecuteScript(hist[m], next[m])
  <1>1. Good(header, m, hist[m]) /\ next[m] = NextOf(hist[m].nodes) /\ next[m] # NoId
    BY NextKnown DEF ExecuteNext
  <1>2. /\ Good(header, m, h1) /\ Ids(h1.nodes) = Ids(hist[m].nodes)
        /\ NextMarker(SetExecuted(hist[m], next[m])) = NextOf(h1.nodes)
    BY <1>1, ExecuteScriptGood
  <1>3. hist' = [hist EXCEPT ![m] = h1]
    BY DEF ExecuteNext
  <1>4. next' = [next EXCEPT ![m] = NextMarker(SetExecuted(hist[m], next[m]))]
    BY DEF ExecuteNext
  <1> HIDE DEF h1
  <1>5. NextMarker(h1) = NextOf(h1.nodes)
    BY <1>2, MarkerOf DEF Good
  <1>6. UNCHANGED <<recent, header, outgoing, net, inbox>>
    BY DEF ExecuteNext
  <1>7. \A p \in Member : recent[p][p] <= recent'[p][p]
    BY <1>6 DEF ShapeInv, IInv, TypeOK
  <1>8. \A p \in Member : \A id \in inbox'[p] : header[id] # <<>>
    BY <1>6 DEF ShapeInv, MailCheckedIn
  <1> QED
    BY <1>2, <1>3, <1>4, <1>5, <1>6, <1>7, <1>8, HistoryStep

(* Marking it missing keeps the invariant.                                   *)
LEMMA MarkMissingShape ==
    ASSUME ShapeInv, IInv', NEW m \in Member, MarkMissing(m)
    PROVE  ShapeInv'
  <1> DEFINE h1 == SetMissing(hist[m], next[m])
  <1>1. Good(header, m, hist[m]) /\ next[m] = NextOf(hist[m].nodes)
    BY NextKnown
  <1>2. next[m] # NoId
    BY CoopAssumption, NoIdType DEF MarkMissing, Gid
  <1>3. Good(header, m, h1) /\ Ids(h1.nodes) = Ids(hist[m].nodes)
    BY <1>1, <1>2, SetMissingGood
  <1>4. hist' = [hist EXCEPT ![m] = h1]
    BY DEF MarkMissing
  <1> HIDE DEF h1
  <1>5. hist'[m] = h1
    BY <1>4 DEF ShapeInv, IInv, TypeOK
  <1>6. next' = [next EXCEPT ![m] = NextMarker(h1)]
    BY <1>5 DEF MarkMissing
  <1>7. UNCHANGED <<recent, header, outgoing, net, inbox>>
    BY DEF MarkMissing
  <1>8. \A p \in Member : recent[p][p] <= recent'[p][p]
    BY <1>7 DEF ShapeInv, IInv, TypeOK
  <1>9. \A p \in Member : \A id \in inbox'[p] : header[id] # <<>>
    BY <1>7 DEF ShapeInv, MailCheckedIn
  <1> QED
    BY <1>3, <1>4, <1>6, <1>7, <1>8, <1>9, HistoryStep

(* Unpacking keeps the invariant when it leaves a good history.              *)
LEMMA UnpackShape ==
    ASSUME ShapeInv, IInv', NEW m \in Member, NEW l \in LineageResult, NEW h1, NEW h0,
           NEW sent, NEW heard \in SUBSET Gid, NEW settled, NEW held,
           Unpack(m, l, h1, sent, heard, settled, held),
           Good(header, m, h1), Ids(hist[m].nodes) \subseteq Ids(h1.nodes),
           next' = [next EXCEPT ![m] = NextMarker(h0)], NextMarker(h0) = NextMarker(h1),
           UNCHANGED <<header, outgoing>>, net' \subseteq net,
           \A id \in held : header[id] # <<>>
    PROVE  ShapeInv'
  <1>1. hist' = [hist EXCEPT ![m] = h1]
    BY DEF Unpack
  <1>2. next' = [next EXCEPT ![m] = NextMarker(h1)]
    OBVIOUS
  <1>3. \A p \in Member : recent[p][p] <= recent'[p][p]
    <2>1. heard \cup l.new \in SUBSET Gid
      BY DEF LineageResult
    <2>2. recent' = [recent EXCEPT ![m] = Heard(m, heard \cup l.new)]
      BY DEF Unpack
    <2>3. TypeOK
      BY DEF ShapeInv, IInv
    <2>4. recent[m][m] <= Heard(m, heard \cup l.new)[m]
      BY <2>1, <2>3, HeardGrows
    <2>5. recent \in [Member -> [Member -> Nat]]
      BY <2>3 DEF TypeOK
    <2>6. \A p \in Member : recent'[p] = IF p = m THEN Heard(m, heard \cup l.new) ELSE recent[p]
      BY <2>2, <2>5
    <2>7. \A p \in Member : recent[p][p] \in Nat
      BY <2>5
    <2>8. recent'[m][m] = Heard(m, heard \cup l.new)[m]
      BY <2>6
    <2>9. ASSUME NEW p \in Member, p # m PROVE recent'[p][p] = recent[p][p]
      BY <2>6, <2>9
    <2> QED
      BY <2>4, <2>7, <2>8, <2>9
  <1>4. inbox' = [inbox EXCEPT ![m] = held] /\ inbox \in [Member -> SUBSET Script]
    BY DEF Unpack, ShapeInv, IInv, TypeOK
  <1>5. \A p \in Member : \A id \in inbox'[p] : header[id] # <<>>
    BY <1>4 DEF ShapeInv, MailCheckedIn
  <1> QED
    BY <1>1, <1>2, <1>3, <1>5, HistoryStep

(***************************************************************************)
(* Unpacking an acknowledgment keeps the invariant: the next script,        *)
(* looked up before it is accepted, is still right after.                   *)
(***************************************************************************)
LEMMA UnpackAcksShape ==
    ASSUME ShapeInv, IInv', NEW m \in Member, UnpackAcks(m)
    PROVE  ShapeInv'
  <1>1. PICK msg \in net : msg.type = "ack" /\ UnpackAck(m, msg)
    BY DEF UnpackAcks
  <1> DEFINE l    == ProcessLineage(m, msg.from, msg.lineage)
             h1   == AcceptAck(l.hist, msg.id, msg.from)
             i    == FindIdx(h1.nodes, msg.id)
             refs == {a \in {[to |-> Everyone, id |-> msg.id, ref |-> TRUE]} :
                         /\ ~msg.ref /\ Author(msg.id) = m
                         /\ i >= FisIdx(l.hist) /\ Confirmed(h1.nodes[i])}
  <1>2. TypeOK /\ OneBranch(header) /\ Good(header, m, hist[m])
    BY DEF ShapeInv, IInv, HistoriesGood
  <1>3. msg.id \in Gid /\ msg.from \in Member /\ msg.lineage \in Seq(Gid)
    BY <1>1, <1>2, MessageType DEF TypeOK
  <1>4. Linked(header, msg.lineage)
    BY <1>1 DEF ShapeInv, AcksLinked
  <1>5. l \in LineageResult
    BY <1>2, <1>3, ProcessLineageType
  <1>6. Good(header, m, l.hist) /\ Ids(hist[m].nodes) \subseteq Ids(l.hist.nodes)
    BY <1>2, <1>3, <1>4, ProcessGood
  <1>7. /\ Unpack(m, l, h1, refs, {}, {}, inbox[m])
        /\ net' \in Remaining(msg)
        /\ next' = [next EXCEPT ![m] = NextMarker(l.hist)]
        /\ UNCHANGED <<header, outgoing>>
    BY <1>1 DEF UnpackAck
  <1> HIDE DEF l
  <1>8. /\ Good(header, m, h1) /\ Ids(h1.nodes) = Ids(l.hist.nodes)
        /\ NextOf(h1.nodes) = NextOf(l.hist.nodes)
    BY <1>6, AcceptAckGood
  <1> HIDE DEF h1, refs
  <1>9. NextMarker(l.hist) = NextMarker(h1)
    BY <1>6, <1>8, MarkerOf DEF Good
  <1>10. net' \subseteq net
    BY <1>2, <1>7, RemainingType
  <1>11. \A id \in inbox[m] : header[id] # <<>>
    BY DEF ShapeInv, MailCheckedIn
  <1>12. {} \in SUBSET Gid /\ Ids(hist[m].nodes) \subseteq Ids(h1.nodes)
    BY <1>6, <1>8
  <1> QED
    BY <1>5, <1>7, <1>8, <1>9, <1>10, <1>11, <1>12, UnpackShape

(* Unpacking a script keeps the invariant, whatever its lineage tells.       *)
LEMMA UnpackScriptShape ==
    ASSUME ShapeInv, IInv', NEW m \in Member, NEW id \in Script, UnpackScript(m, id)
    PROVE  ShapeInv'
  <1> DEFINE msg  == [type |-> "script", id |-> id, to |-> m]
             l    == ProcessLineage(m, Author(id), header[id])
             h1   == WithScript(l.hist, id)
             acks == {[to |-> Author(x), id |-> x, ref |-> FALSE] :
                         x \in ToAcknowledge(l.hist, h1, id)}
             rest == inbox[m] \ {id}
             drop == Dropped(l, id, rest)
  <1>1. TypeOK /\ OneBranch(header) /\ Good(header, m, hist[m])
    BY DEF ShapeInv, IInv, HistoriesGood
  <1>2. id \in Gid /\ Author(id) \in Member /\ header[id] \in Seq(Gid)
    BY <1>1, ScriptType DEF TypeOK, Lineage
  <1>3. header[id] # <<>>
    <2>1. CASE msg \in net
      BY <2>1 DEF ShapeInv, MailCheckedIn
    <2>2. CASE id \in inbox[m]
      BY <2>2 DEF ShapeInv, MailCheckedIn
    <2> QED
      BY <2>1, <2>2 DEF UnpackScript
  <1>4. Linked(header, header[id])
    BY DEF ShapeInv, HeadersLinked
  <1>5. l \in LineageResult
    BY <1>1, <1>2, ProcessLineageType
  <1>6. /\ Good(header, m, l.hist) /\ Ids(hist[m].nodes) \subseteq Ids(l.hist.nodes)
        /\ l.status = "connected" => Last(header[id]) \in Ids(l.hist.nodes)
    BY <1>1, <1>2, <1>3, <1>4, ProcessGood
  <1>7. net' \subseteq net
    <2>1. net' \in Remaining(msg)
      BY DEF UnpackScript
    <2> QED
      BY <1>1, <2>1, RemainingType
  <1>8. UNCHANGED <<header, outgoing>> /\ next' = [next EXCEPT ![m] = NextMarker(hist'[m])]
    BY DEF UnpackScript
  <1>9. \A x \in inbox[m] : header[x] # <<>>
    BY DEF ShapeInv, MailCheckedIn
  <1>10. \/ l.status = "connected" /\ Unpack(m, l, h1, acks, {id}, {id}, rest)
         \/ Unpack(m, l, l.hist, {}, Held(l, id), drop, (rest \ drop) \cup Held(l, id))
    BY DEF UnpackScript
  <1> HIDE DEF l, msg, acks, drop
  <1>11. \A x \in rest \cup (rest \ drop) \cup Held(l, id) : header[x] # <<>>
    BY <1>3, <1>9 DEF Held
  <1> HIDE DEF rest
  <1>12. CASE l.status = "connected" /\ Unpack(m, l, h1, acks, {id}, {id}, rest)
    <2>1. Author(id) = m => id \in Ids(l.hist.nodes)
      BY <1>3, <1>6 DEF ShapeInv, OwnRecorded
    <2>2. Good(header, m, h1)
      BY <1>1, <1>3, <1>6, <1>12, <2>1, WithScriptGood
    <2>3. Ids(l.hist.nodes) \subseteq Ids(h1.nodes)
      BY <1>1, <1>5, WithScriptType DEF Keeps, LineageResult
    <2> HIDE DEF h1
    <2>4. hist'[m] = h1
      BY <1>1, <1>12 DEF Unpack, TypeOK
    <2>5. {id} \in SUBSET Gid /\ Ids(hist[m].nodes) \subseteq Ids(h1.nodes)
      BY <1>2, <1>6, <2>3
    <2> QED
      BY <1>5, <1>7, <1>8, <1>11, <1>12, <2>2, <2>4, <2>5, UnpackShape
  <1>13. CASE Unpack(m, l, l.hist, {}, Held(l, id), drop, (rest \ drop) \cup Held(l, id))
    <2>1. hist'[m] = l.hist
      BY <1>1, <1>13 DEF Unpack, TypeOK
    <2>2. Held(l, id) \in SUBSET Gid
      BY <1>2 DEF Held
    <2> DEFINE held == (rest \ drop) \cup Held(l, id)
    <2>3. \A x \in held : header[x] # <<>>
      BY <1>11
    <2>4. Unpack(m, l, l.hist, {}, Held(l, id), drop, held)
      BY <1>13
    <2> HIDE DEF held
    <2>5. next' = [next EXCEPT ![m] = NextMarker(l.hist)]
      BY <1>8, <2>1
    <2> QED
      BY <1>5, <1>6, <1>7, <1>8, <2>2, <2>3, <2>4, <2>5, UnpackShape
  <1> QED
    BY <1>10, <1>12, <1>13

(* hdr1 is hdr with the header of a new script.                              *)
HeaderAdded(hdr, hdr1, id) ==
    /\ id \in Script /\ hdr[id] = <<>>
    /\ \A x \in Script : x # id => hdr1[x] = hdr[x]

(* A new header takes nothing away from histories and lineages.              *)
LEMMA HeaderAddedGood ==
    ASSUME NEW hdr, NEW hdr1, NEW id, HeaderAdded(hdr, hdr1, id)
    PROVE  /\ \A m, h : Good(hdr, m, h) => Good(hdr1, m, h)
           /\ \A lin : Linked(hdr, lin) => Linked(hdr1, lin)
  <1>1. \A x : CheckedIn(hdr, x) => CheckedIn(hdr1, x) /\ hdr1[x] = hdr[x]
    BY DEF HeaderAdded, CheckedIn
  <1>2. \A m, h : Good(hdr, m, h) => Good(hdr1, m, h)
    BY <1>1 DEF Good, Known
  <1>3. \A lin : Linked(hdr, lin) => Linked(hdr1, lin)
    BY <1>1 DEF Linked
  <1> QED
    BY <1>2, <1>3

(* No own script hangs from the tip of the executed branch.                  *)
LEMMA NoSibling ==
    ASSUME NEW hdr, NEW m, NEW h, Good(hdr, m, h), NEW tip, Done(h.nodes, tip),
           NEW u \in Script, u \in Ids(h.nodes), Author(u) = m
    PROVE  Last(hdr[u]) # h.nodes[tip].id
  <1> DEFINE t == h.nodes
  <1>1. Tree(t) /\ t \in Seq(Node) /\ Shaped(t) /\ Known(hdr, t) /\ OwnDone(m, t)
    BY DEF Good, Sound, Tree
  <1>2. PICK i \in 1 .. Len(t) : t[i].id = u
    BY <1>1, IdsPlace
  <1>3. i # 1
    BY <1>1, <1>2, RootNotScript DEF Shaped
  <1>4. i \in 2 .. Len(t) /\ tip \in 1 .. Len(t)
    BY <1>1, <1>2, <1>3, Places DEF Done
  <1>5. t[i].pred = Last(hdr[u]) /\ ~Done(t, Parents(t)[i])
    BY <1>1, <1>2, <1>4 DEF Known, OwnDone
  <1>6. t[tip].id = t[i].pred => tip = Parents(t)[i]
    BY <1>1, <1>4, Places
  <1> QED
    BY <1>5, <1>6

(* A check-in keeps the invariant.                                           *)
LEMMA CheckInShape ==
    ASSUME ShapeInv, IInv', NEW m \in Member, CheckIn(m)
    PROVE  ShapeInv'
  <1> DEFINE h0  == hist[m]
             t   == h0.nodes
             id  == <<m, recent[m][m] + 1>>
             lin == MainSetLineage(h0)
             n   == ScriptNode(id, LastOf(lin), Member \ {m}, TRUE)
             h   == InsertNewNode(h0, n)
             h2  == IF Member = {m} THEN ConfirmAllOlderNodes(h, FindIdx(h.nodes, id)) ELSE h
  <1>1. TypeOK /\ Good(header, m, h0) /\ Sound(h0) /\ Known(header, t) /\ Tree(t)
        /\ next[m] = NextOf(t)
    BY NextKnown DEF ShapeInv, IInv, Good, Sound
  <1>2. PICK tip : Done(t, tip)
    BY <1>1 DEF Sound
  <1>3. recent[m][m] \in Nat /\ recent[m][m] < Limit[m]
    BY <1>1 DEF CheckIn, TypeOK
  <1>4. id \in Script /\ id \in Gid /\ Author(id) = m /\ Ord(id) = recent[m][m] + 1
    BY <1>3, NewIdType, ScriptType DEF Author, Ord
  <1>5. lin \in Seq(Gid) /\ lin # <<>> /\ Linked(header, lin) /\ Last(lin) = t[tip].id
    BY <1>1, <1>2, MainLineage
  <1>6. header' = [header EXCEPT ![id] = lin] /\ header \in [Script -> Lineage]
    BY <1>1 DEF CheckIn, TypeOK
  <1>7. recent' = [recent EXCEPT ![m][m] = recent[m][m] + 1]
    BY DEF CheckIn
  <1>8. outgoing' = [outgoing EXCEPT ![m] = id] /\ UNCHANGED <<next, inbox, net>>
    BY DEF CheckIn
  <1>9. hist' = [hist EXCEPT ![m] = h2]
    BY DEF CheckIn
  <1>10. ~HasIncomingOrMissingScripts(h0) \/ HasToBeRejectedScripts(h0)
    BY DEF CheckIn, CanCheckIn
  <1>11. n \in Node /\ n.id = id /\ n.pred = t[tip].id /\ n.exe /\ ~n.mis /\ ~n.rej /\ ~n.bp
    <2>1. LastOf(lin) \in Gid \cup {NoId} /\ Member \ {m} \in SUBSET User
      BY <1>5, LastOfType DEF User
    <2>2. n \in Node
      BY <1>4, <2>1, ScriptNodeType
    <2>3. LastOf(lin) = t[tip].id
      BY <1>5, LastIs
    <2> QED
      BY <2>2, <2>3 DEF ScriptNode
  <1> HIDE DEF lin, n, id
  <1>12. header[id] = <<>>
    BY <1>3, <1>4 DEF ShapeInv, OwnRecorded
  <1>13. header'[id] = lin /\ HeaderAdded(header, header', id)
    BY <1>4, <1>6, <1>12 DEF HeaderAdded
  <1>14. id \notin Ids(t)
    <2> SUFFICES ASSUME id \in Ids(t) PROVE FALSE
      OBVIOUS
    <2>1. PICK i \in 1 .. Len(t) : t[i].id = id
      BY <1>1, IdsPlace
    <2>2. Len(t) \in Nat /\ t[1].id = Root
      BY <1>1, Places DEF Tree, Shaped
    <2>3. i \in 2 .. Len(t)
      BY <1>4, <2>1, <2>2, RootNotScript
    <2> QED
      BY <1>1, <1>12, <2>1, <2>3 DEF Known, CheckedIn
  <1>15. Good(header', m, h0) /\ CheckedIn(header', id) /\ Last(header'[id]) = n.pred
    BY <1>1, <1>4, <1>5, <1>11, <1>13, HeaderAddedGood DEF CheckedIn
  <1>16. /\ Good(header', m, h) /\ Ids(h.nodes) = Ids(t) \cup {id}
         /\ NextOf(h.nodes) = NextOf(t)
    <2>1. /\ Author(n.id) = m /\ n.id \notin Ids(t) /\ CheckedIn(header', n.id)
          /\ Last(header'[n.id]) = n.pred
      BY <1>4, <1>11, <1>14, <1>15
    <2> HIDE DEF t
    <2>2. /\ Good(header', m, h) /\ Ids(h.nodes) = Ids(t) \cup {n.id}
          /\ NextOf(h.nodes) = NextOf(t)
      BY <1>2, <1>10, <1>11, <1>15, <2>1, CheckInGood DEF t
    <2> QED
      BY <1>11, <2>2
  <1> HIDE DEF h
  <1>17. /\ Good(header', m, h2) /\ Ids(h2.nodes) = Ids(t) \cup {id}
         /\ NextOf(h2.nodes) = NextOf(t)
    BY <1>16, ConfirmGood
  <1> HIDE DEF h2
  <1>18. hist'[m] = h2 /\ \A p \in Member : p # m => hist'[p] = hist[p]
    BY <1>1, <1>9 DEF TypeOK
  <1>19. HistoriesGood'
    <2>1. \A p \in Member : Good(header', p, hist[p])
      BY <1>13, HeaderAddedGood DEF ShapeInv, HistoriesGood
    <2> QED
      BY <1>17, <1>18, <2>1 DEF HistoriesGood
  <1>20. NextMarkerFresh'
    <2>1. NextMarker(h2) = next[m]
      BY <1>1, <1>17, MarkerOf DEF Good
    <2> QED
      BY <1>8, <1>18, <2>1 DEF ShapeInv, NextMarkerFresh
  <1>21. OwnRecorded'
    <2> SUFFICES ASSUME NEW p \in Member, NEW s \in Script, Author(s) = p, header'[s] # <<>>
                 PROVE  s \in Ids(hist'[p].nodes) /\ Ord(s) <= recent'[p][p]
      BY DEF OwnRecorded
    <2>1. recent \in [Member -> [Member -> Nat]]
      BY <1>1 DEF TypeOK
    <2>2. recent'[m][m] = recent[m][m] + 1
      BY <1>7, <2>1
    <2>3. CASE s = id
      BY <1>3, <1>4, <1>17, <1>18, <2>2, <2>3
    <2>4. CASE s # id
      <3>1. s \in Ids(hist[p].nodes) /\ Ord(s) <= recent[p][p]
        BY <1>6, <2>4 DEF ShapeInv, OwnRecorded
      <3>2. CASE p = m
        <4>1. Ord(s) \in Nat
          BY ScriptType, MemberAssumption
        <4>2. Ord(s) <= recent[m][m] + 1
          BY <1>3, <3>1, <3>2, <4>1
        <4> QED
          BY <1>17, <1>18, <2>2, <3>1, <3>2, <4>2
      <3>3. CASE p # m
        <4>1. recent'[p] = recent[p]
          BY <1>7, <2>1, <3>3
        <4> QED
          BY <1>18, <3>1, <3>3, <4>1
      <3> QED
        BY <3>2, <3>3
    <2> QED
      BY <2>3, <2>4
  <1>22. OneBranch(header')
    <2>1. ASSUME NEW u \in Script, u # id, header[u] # <<>>, Author(u) = m
          PROVE  Last(header[u]) # Last(lin)
      <3>1. u \in Ids(t)
        BY <2>1 DEF ShapeInv, OwnRecorded
      <3> QED
        BY <1>1, <1>2, <1>5, <2>1, <3>1, NoSibling
    <2>2. \A s \in Script : s # id => header'[s] = header[s]
      BY <1>6
    <2>3. OneBranch(header)
      BY DEF ShapeInv
    <2> QED
      BY <1>4, <1>13, <2>1, <2>2, <2>3 DEF OneBranch, CheckedIn
  <1>23. HeadersLinked' /\ AcksLinked'
    <2>1. \A s \in Script : Linked(header', header[s])
      BY <1>13, HeaderAddedGood DEF ShapeInv, HeadersLinked
    <2>2. Linked(header', lin)
      BY <1>5, <1>13, HeaderAddedGood
    <2>3. HeadersLinked'
      BY <1>6, <2>1, <2>2 DEF HeadersLinked
    <2>4. AcksLinked'
      BY <1>8, <1>13, HeaderAddedGood DEF ShapeInv, AcksLinked
    <2> QED
      BY <2>3, <2>4
  <1>24. MailCheckedIn'
    <2>1. \A s \in Script : header[s] # <<>> => header'[s] # <<>>
      BY <1>6, <1>12
    <2>2. ASSUME NEW msg \in net', msg.type = "script" PROVE header'[msg.id] # <<>>
      <3>1. msg \in net /\ header[msg.id] # <<>>
        BY <1>8, <2>2 DEF ShapeInv, MailCheckedIn
      <3>2. msg.id \in Script
        BY <1>1, <2>2, <3>1 DEF TypeOK, Message
      <3> QED
        BY <2>1, <3>1, <3>2
    <2>3. \A p \in Member : \A s \in inbox'[p] : header'[s] # <<>>
      BY <1>1, <1>8, <2>1 DEF ShapeInv, MailCheckedIn, TypeOK
    <2>4. \A p \in Member : outgoing'[p] # NoId => header'[outgoing'[p]] # <<>>
      BY <1>1, <1>5, <1>8, <1>13, <2>1 DEF ShapeInv, MailCheckedIn, TypeOK
    <2> QED
      BY <2>2, <2>3, <2>4 DEF MailCheckedIn
  <1> QED
    BY <1>19, <1>20, <1>21, <1>22, <1>23, <1>24 DEF ShapeInv

----------------------------------------------------------------------------
(* Every reachable state *)

(* The invariant is inductive.                                               *)
LEMMA StepShape == ShapeInv /\ [Next]_vars => ShapeInv'
  <1> SUFFICES ASSUME ShapeInv, [Next]_vars PROVE ShapeInv'
    OBVIOUS
  <1>1. IInv'
    BY StepInv DEF ShapeInv
  <1>2. CASE UNCHANGED vars
    BY <1>1, <1>2, MailStep DEF vars
  <1>3. ASSUME NEW m \in Member, CheckIn(m) PROVE ShapeInv'
    BY <1>1, <1>3, CheckInShape
  <1>4. ASSUME NEW m \in Member, Broadcast(m) \/ Crash(m) PROVE ShapeInv'
    BY <1>1, <1>4, BroadcastShape
  <1>5. ASSUME NEW m \in Member, NEW id \in Script, UnpackScript(m, id) PROVE ShapeInv'
    BY <1>1, <1>5, UnpackScriptShape
  <1>6. ASSUME NEW m \in Member, UnpackAcks(m) PROVE ShapeInv'
    BY <1>1, <1>6, UnpackAcksShape
  <1>7. ASSUME NEW m \in Member, SendAcknowledgments(m) PROVE ShapeInv'
    BY <1>1, <1>7, SendShape
  <1>8. ASSUME NEW m \in Member, RequestMissing(m) PROVE ShapeInv'
    BY <1>1, <1>8, RequestShape
  <1>9. ASSUME NEW m \in Member, AnswerRequests(m) PROVE ShapeInv'
    BY <1>1, <1>9, AnswerShape
  <1>10. ASSUME NEW m \in Member, ExecuteNext(m) PROVE ShapeInv'
    BY <1>1, <1>10, ExecuteShape
  <1>11. ASSUME NEW m \in Member, MarkMissing(m) PROVE ShapeInv'
    BY <1>1, <1>11, MarkMissingShape
  <1> QED
    BY <1>2, <1>3, <1>4, <1>5, <1>6, <1>7, <1>8, <1>9, <1>10, <1>11 DEF Next

(* Hence it holds in every reachable state.                                  *)
LEMMA ShapeHolds == Spec => []ShapeInv
  BY InitShape, StepShape, PTL DEF Spec

----------------------------------------------------------------------------
(* What the invariant says *)

(* The shape by parents is the shape by predecessor ids, subtrees and paths. *)
LEMMA TreeIsShaped ==
    ASSUME NEW t, Tree(t)
    PROVE  UniqueIds(t) /\ DepthFirst(t) /\ BranchOrder(t) /\ TrunkLast(t)
  <1> DEFINE n == Len(t)
             a == Parents(t)
  <1>1. t \in Seq(Node) /\ Shaped(t)
    BY DEF Tree
  <1>2. /\ n \in Nat /\ n > 0 /\ DOMAIN t = 1 .. n
        /\ \A i \in 2 .. n : a[i] \in 1 .. n /\ a[i] < i
    BY <1>1, Places
  <1>3. \A p \in 1 .. n : BranchHeads(t, p) = {j \in 2 .. n : a[j] = p}
    BY <1>1, HeadsOf
  <1>4. UniqueIds(t)
    BY <1>1, <1>2 DEF UniqueIds, Shaped
  <1>5. Path(t, n) = {j \in 1 .. n : Under(a, j, n)}
    BY <1>1, <1>2, PathOf
  <1>6. Ordered(t) /\ Marked(t) /\ Trunk(t)
    BY DEF Tree
  <1> HIDE DEF a, n
  <1>7. DepthFirst(t)
    <2>1. ASSUME NEW i \in 2 .. n PROVE \E p \in 1 .. i - 1 : i \in BranchHeads(t, p)
      <3>1. a[i] \in 1 .. n /\ a[i] \in 1 .. i - 1
        BY <1>2
      <3>2. i \in BranchHeads(t, a[i])
        BY <1>3, <3>1
      <3> QED
        BY <3>1, <3>2
    <2> QED
      BY <2>1 DEF DepthFirst, n
  <1>8. BranchOrder(t)
    <2>1. ASSUME NEW p \in 1 .. n
          PROVE  t[p].bp <=> \E i, j \in BranchHeads(t, p) : i # j
      BY <1>3, <1>6 DEF Marked, Branching, a, n
    <2>2. ASSUME NEW p \in 1 .. n, NEW i \in BranchHeads(t, p), NEW j \in BranchHeads(t, p), i < j
          PROVE  Author(t[j].id) < Author(t[i].id)
      BY <1>3, <1>6, <2>2 DEF Ordered, a, n
    <2> QED
      BY <1>2, <2>1, <2>2 DEF BranchOrder
  <1>9. TrunkLast(t)
    BY <1>2, <1>5, <1>6 DEF TrunkLast, Trunk, a, n
  <1> QED
    BY <1>4, <1>7, <1>8, <1>9

(* The invariant implies convergence.                                        *)
LEMMA ShapeConverged == ShapeInv => Converged
  <1> SUFFICES ASSUME ShapeInv, Quiet, NothingLost, NEW m \in Member, NEW p \in Member
               PROVE  LET t == hist[m].nodes
                          u == hist[p].nodes
                      IN  /\ Len(t) = Len(u)
                          /\ \A i \in DOMAIN t :
                                /\ t[i].id = u[i].id /\ t[i].pred = u[i].pred /\ t[i].bp = u[i].bp
                                /\ t[i].rej = u[i].rej /\ t[i].exe = u[i].exe
    BY DEF Converged
  <1>1. ASSUME NEW q \in Member
        PROVE  /\ Good(header, q, hist[q])
               /\ Ids(hist[q].nodes) = {Root} \cup {id \in Script : header[id] # <<>>}
               /\ \A i \in 1 .. Len(hist[q].nodes) : hist[q].nodes[i].exe = ~hist[q].nodes[i].rej
    <2>1. Good(header, q, hist[q]) /\ Sound(hist[q]) /\ NextOf(hist[q].nodes) = NoId
      BY NextKnown DEF Quiet, Delivered
    <2>2. DOMAIN hist[q].nodes = 1 .. Len(hist[q].nodes)
      BY <2>1, Places DEF Sound, Tree
    <2>3. \A id \in Script : header[id] # <<>> =>
              \E i \in 1 .. Len(hist[q].nodes) : hist[q].nodes[i].id = id /\ ~hist[q].nodes[i].mis
      BY <2>2 DEF Quiet, NothingLost, PresentAt
    <2>4. /\ Ids(hist[q].nodes) = {Root} \cup {id \in Script : header[id] # <<>>}
          /\ \A i \in 1 .. Len(hist[q].nodes) : ~hist[q].nodes[i].mis
      BY <2>1, <2>3, GoodScripts
    <2> QED
      BY <2>1, <2>4, NothingWaits
  <1> DEFINE t == hist[m].nodes
             u == hist[p].nodes
  <1>2. Tree(t) /\ Tree(u) /\ Known(header, t) /\ Known(header, u) /\ Ids(t) = Ids(u)
    BY <1>1 DEF Good, Sound
  <1>3. t \in Seq(Node) /\ Shaped(t) /\ u \in Seq(Node) /\ Shaped(u)
    BY <1>2 DEF Tree
  <1>4. /\ Len(t) \in Nat /\ Len(u) \in Nat /\ DOMAIN t = 1 .. Len(t)
        /\ t[1].id = Root /\ u[1].id = Root /\ t[1].pred = u[1].pred
    BY <1>3, Places DEF Shaped
  <1>5. ASSUME NEW i \in 1 .. Len(t), NEW j \in 1 .. Len(u), t[i].id = u[j].id
        PROVE  t[i].pred = u[j].pred
    <2>1. i = 1 <=> j = 1
      <3>1. 1 \in 1 .. Len(t) /\ 1 \in 1 .. Len(u)
        BY <1>4
      <3> QED
        BY <1>3, <1>4, <1>5, <3>1 DEF Shaped
    <2>2. CASE i = 1
      BY <1>4, <2>1, <2>2
    <2>3. CASE i # 1
      <3>1. i \in 2 .. Len(t) /\ j \in 2 .. Len(u)
        BY <1>4, <2>1, <2>3
      <3> QED
        BY <1>2, <1>5, <3>1 DEF Known
    <2> QED
      BY <2>2, <2>3
  <1>6. SameFamily(t, u)
    BY <1>2, <1>5 DEF SameFamily
  <1>7. Tree(t) /\ Tree(u) /\ SameFamily(t, u)
    BY <1>2, <1>6
  <1> HIDE DEF t, u
  <1>8. /\ Len(t) = Len(u)
        /\ \A i \in 1 .. Len(t) : /\ t[i].id = u[i].id /\ t[i].pred = u[i].pred
                                  /\ t[i].bp = u[i].bp /\ t[i].rej = u[i].rej
    BY <1>7, SameNodes
  <1>9. \A i \in 1 .. Len(t) : t[i].exe = u[i].exe
    <2>1. /\ \A i \in 1 .. Len(t) : t[i].exe = ~t[i].rej
          /\ \A i \in 1 .. Len(u) : u[i].exe = ~u[i].rej
      BY <1>1 DEF t, u
    <2> QED
      BY <1>8, <2>1
  <1> QED
    BY <1>4, <1>8, <1>9 DEF t, u

(* No lineage that connects here names a script of m's own as missing.       *)
LEMMA ConnectedFits ==
    ASSUME ShapeInv, NEW m \in Member, NEW from, NEW lin \in Seq(Gid), Linked(header, lin),
           FirstKnown(hist[m].nodes, lin) # 0
    PROVE  ConnectedLineage(m, from, lin).status = "connected"
  <1> DEFINE t    == hist[m].nodes
             L    == LastMatched(t, lin)
             rest == UnmatchedIds(t, lin)
  <1>1. Good(header, m, hist[m]) /\ Tree(t) /\ Known(header, t)
    BY DEF ShapeInv, HistoriesGood, Good, Sound
  <1>3. /\ Len(lin) \in Nat /\ L \in 1 .. Len(lin)
        /\ \A j \in L + 1 .. Len(lin) : lin[j] \notin Ids(t)
    BY <1>1, Matched
  <1>4. /\ rest \in Seq(Gid) /\ Len(rest) = Len(lin) - L
        /\ \A k \in 1 .. Len(lin) - L : rest[k] = lin[L + k]
    BY <1>3, RestIs DEF UnmatchedIds
  <1>5. PICK c \in 0 .. Len(rest) :
            GoodPart(m, rest) = SubSeq(rest, 1, c) /\ \A k \in 1 .. c : Author(rest[k]) # m
    BY <1>4, GoodPartIs
  <1> HIDE DEF L, rest
  <1>6. \A k \in 1 .. Len(rest) : Author(rest[k]) # m
    <2> SUFFICES ASSUME NEW k \in 1 .. Len(lin) - L, Author(rest[k]) = m PROVE FALSE
      BY <1>4
    <2>1. L + k \in 2 .. Len(lin) /\ L + k \in L + 1 .. Len(lin)
      BY <1>3
    <2>2. CheckedIn(header, lin[L + k]) /\ lin[L + k] \notin Ids(t)
      BY <1>3, <2>1 DEF Linked
    <2> QED
      BY <1>4, <2>2 DEF CheckedIn, ShapeInv, OwnRecorded
  <1>7. GoodPart(m, rest) = rest
    <2> DEFINE B == {k \in DOMAIN rest : Author(rest[k]) = m}
    <2>1. DOMAIN rest = 1 .. Len(rest) /\ Len(rest) \in Nat
      BY <1>4, ArrayType
    <2>2. B = {}
      BY <1>6, <2>1
    <2>3. Least(B, Len(rest) + 1) = Len(rest) + 1
      BY <2>2 DEF Least
    <2>4. GoodPart(m, rest) = SubSeq(rest, 1, (Len(rest) + 1) - 1)
      BY <2>3 DEF GoodPart
    <2>5. SubSeq(rest, 1, Len(rest)) = rest
      BY <1>4, <2>1
    <2> QED
      BY <2>1, <2>4, <2>5
  <1>8. ConnectedLineage(m, from, lin).status = "connected"
    BY <1>7 DEF ConnectedLineage, rest
  <1> QED
    BY <1>8

(* A linked lineage names no unknown script of the recipient's own.          *)
LEMMA LineageFits ==
    ASSUME Newcomer = {}, ShapeInv, NEW m \in Member, NEW from, NEW lin \in Seq(Gid),
           Linked(header, lin)
    PROVE  ProcessLineage(m, from, lin).status # "prehistoric"
  <1>1. ~Prehistoric(m, lin[1])
    BY DEF Prehistoric
  <1>2. CASE lin = <<>>
    BY <1>2 DEF ProcessLineage, LineageWithoutNews
  <1>3. CASE lin # <<>> /\ ~Connects(m, lin)
    BY <1>1, <1>3 DEF ProcessLineage, LineageWithoutNews
  <1>4. CASE lin # <<>> /\ Connects(m, lin)
    <2>1. FirstKnown(hist[m].nodes, lin) # 0
      BY <1>4 DEF Connects
    <2>2. ConnectedLineage(m, from, lin).status = "connected"
      BY <2>1, ConnectedFits
    <2> QED
      BY <1>4, <2>2 DEF ProcessLineage
  <1> QED
    BY <1>2, <1>3, <1>4

(***************************************************************************)
(* Whatever scripts, lineages and acknowledgments arrive in whatever        *)
(* order, lost or repeated, and whatever is checked in meanwhile, every     *)
(* member's array stays a depth-first walk of a tree with the branches in   *)
(* order of priority and the trunk at the end.                              *)
(***************************************************************************)
THEOREM ShapeOfHistories == Spec => []TreeShape
  <1>1. ShapeInv => TreeShape
    BY TreeIsShaped DEF ShapeInv, HistoriesGood, Good, Sound, TreeShape
  <1> QED
    BY <1>1, ShapeHolds, PTL

(***************************************************************************)
(* The files of every member are always those of one branch, also while     *)
(* scripts of a losing branch are still executed.                           *)
(***************************************************************************)
THEOREM FilesAreABranch == Spec => []ExecutedIsBranch
  <1>1. ShapeInv => ExecutedIsBranch
    BY SoundFiles DEF ShapeInv, HistoriesGood, Good, ExecutedIsBranch
  <1> QED
    BY <1>1, ShapeHolds, PTL

(***************************************************************************)
(* The First Interesting Script is executed and confirmed in every          *)
(* reachable state, for any kind of lost, repeated or resent mail.          *)
(***************************************************************************)
THEOREM FisStaysSettled == Spec => []FisIsSettled
  <1>1. ShapeInv => FisIsSettled
    BY SoundFis DEF ShapeInv, HistoriesGood, Good, FisIsSettled
  <1> QED
    BY <1>1, ShapeHolds, PTL

(***************************************************************************)
(* No handler leaves a stale next script behind, although accepting an      *)
(* acknowledgment does not look it up again.                                *)
(***************************************************************************)
THEOREM NextStaysFresh == Spec => []NextMarkerFresh
  <1>1. ShapeInv => NextMarkerFresh
    BY DEF ShapeInv
  <1> QED
    BY <1>1, ShapeHolds, PTL

(***************************************************************************)
(* The script to execute next always finds all it is built upon in the      *)
(* files, so the assertion of XUpdateNextMarker holds for the whole path.   *)
(***************************************************************************)
THEOREM NextAlwaysReady == Spec => []NextIsReady
  <1>1. ASSUME ShapeInv PROVE NextIsReady
    <2>1. \A m \in Member : Sound(hist[m]) /\ next[m] = NextOf(hist[m].nodes)
      BY <1>1, NextKnown
    <2> QED
      BY <2>1, SoundNext DEF NextIsReady
  <1> QED
    BY <1>1, ShapeHolds, PTL

(***************************************************************************)
(* All members hang every script from the predecessor its author built it   *)
(* upon, also those first heard of as missing (the assertion of             *)
(* XInsertIncomingScript).                                                  *)
(***************************************************************************)
THEOREM PredecessorsAlwaysAgree == Spec => []PredecessorsAgree
  <1>1. ShapeInv => PredecessorsAgree
    BY LastIs DEF ShapeInv, HistoriesGood, Good, Known, PredecessorsAgree
  <1> QED
    BY <1>1, ShapeHolds, PTL

(***************************************************************************)
(* Once all mail is processed and no script is lost, all members have the   *)
(* same array with the same branches rejected and the same scripts          *)
(* executed, whatever order the mail took: the tree is a function of the    *)
(* set of scripts, and the set is that of all scripts checked in.           *)
(***************************************************************************)
THEOREM MembersConverge == Spec => []Converged
  BY ShapeConverged, ShapeHolds, PTL

(***************************************************************************)
(* Among members that all had checked in something, or joined before        *)
(* anybody did, no mail is ever dropped as prehistoric: no lineage names    *)
(* an unknown script of its recipient.                                      *)
(***************************************************************************)
THEOREM MailIsKept == ASSUME Newcomer = {} PROVE Spec => []MailNeverDropped
  <1>1. ASSUME ShapeInv PROVE MailNeverDropped
    <2>1. TypeOK
      BY <1>1 DEF ShapeInv, IInv
    <2>2. ASSUME NEW m \in Member, NEW id \in Script
          PROVE  ProcessLineage(m, Author(id), header[id]).status # "prehistoric"
      <3>1. header[id] \in Seq(Gid) /\ Linked(header, header[id])
        BY <1>1, <2>1 DEF TypeOK, Lineage, ShapeInv, HeadersLinked
      <3> QED
        BY <1>1, <3>1, LineageFits
    <2>3. ASSUME NEW m \in Member, NEW msg \in net, msg.type = "ack"
          PROVE  ProcessLineage(m, msg.from, msg.lineage).status # "prehistoric"
      <3>1. msg.lineage \in Seq(Gid) /\ Linked(header, msg.lineage)
        BY <1>1, <2>1, <2>3, MessageType DEF TypeOK, ShapeInv, AcksLinked
      <3> QED
        BY <1>1, <3>1, LineageFits
    <2> QED
      BY <2>2, <2>3 DEF MailNeverDropped
  <1> QED
    BY <1>1, ShapeHolds, PTL

=============================================================================

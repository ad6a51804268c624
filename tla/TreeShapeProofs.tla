-------------------------- MODULE TreeShapeProofs ---------------------------
(***************************************************************************)
(* Proofs about one member's history, for every set of members and every    *)
(* number of scripts: where the searches stop and what types the operations *)
(* keep; that the array InsertChain keeps by local moves is always a        *)
(* depth-first walk of an ordered tree; and that what is executed,          *)
(* confirmed and next fits it. Most lemmas follow an operation of module    *)
(* HistoryTree. The handlers are put together in module CoopProofs.         *)
(***************************************************************************)
EXTENDS HistoryTree, SequenceTheorems, FiniteSetTheorems, WellFoundedInduction, TLAPS

----------------------------------------------------------------------------
(* Least and greatest indices *)

Below == {ss \in Nat \X Nat : ss[1] < ss[2]}

(* Every nonempty set of natural numbers has a least element.                *)
LEMMA LeastExists ==
    ASSUME NEW S \in SUBSET Nat, S # {}
    PROVE  \E i \in S : \A j \in S : i <= j
  <1>1. IsWellFoundedOn(Below, Nat)
    BY NatLessThanWellFounded DEF OpToRel, Below
  <1>2. PICK i \in S : \A j \in S : <<j, i>> \notin Below
    BY <1>1, WFMin
  <1>3. ASSUME NEW j \in S PROVE i <= j
    <2>1. i \in Nat /\ j \in Nat
      OBVIOUS
    <2>2. <<j, i>> \in Nat \X Nat /\ ~(j < i)
      BY <1>2, <2>1 DEF Below
    <2> QED
      BY <2>1, <2>2
  <1> QED
    BY <1>3

(* Every nonempty set of natural numbers with a bound has a greatest element. *)
LEMMA GreatestExists ==
    ASSUME NEW b \in Nat, NEW S \in SUBSET (0 .. b), S # {}
    PROVE  \E i \in S : \A j \in S : j <= i
  <1> DEFINE D == {b - i : i \in S}
  <1>0. \A i \in S : i \in 0 .. b
    OBVIOUS
  <1>1. D \in SUBSET Nat /\ D # {}
    <2>1. \A d \in D : d \in Nat
      BY <1>0
    <2>2. \E i : i \in S
      OBVIOUS
    <2> QED
      BY <2>1, <2>2
  <1>2. PICK d \in D : \A e \in D : d <= e
    BY <1>1, LeastExists
  <1>3. PICK i \in S : d = b - i
    BY <1>2
  <1>4. \A j \in S : b - i <= b - j
    BY <1>2, <1>3
  <1>5. \A j \in S : j <= i
    BY <1>0, <1>4
  <1> QED
    BY <1>5

(* Least returns the least element, or its default.                          *)
LEMMA LeastIs ==
    ASSUME NEW S \in SUBSET Nat, NEW none
    PROVE  /\ S = {} => Least(S, none) = none
           /\ S # {} => Least(S, none) \in S /\ \A j \in S : Least(S, none) <= j
  BY LeastExists DEF Least

(* Greatest returns the greatest element, or its default.                    *)
LEMMA GreatestIs ==
    ASSUME NEW b \in Nat, NEW S \in SUBSET (0 .. b), NEW none
    PROVE  /\ S = {} => Greatest(S, none) = none
           /\ S # {} => Greatest(S, none) \in S /\ \A j \in S : j <= Greatest(S, none)
  BY GreatestExists DEF Greatest

(* A finite set of indices has as many positions as elements: InOrder        *)
(* enumerates elements of the set.                                          *)
LEMMA InOrderType ==
    ASSUME NEW b \in Nat, NEW S \in SUBSET (0 .. b)
    PROVE  /\ Cardinality(S) \in Nat
           /\ InOrder(S) \in [1 .. Cardinality(S) -> S]
  <1> DEFINE UpTo(i) == {j \in S : j <= i}
  <1>1. IsFiniteSet(S) /\ Cardinality(S) \in Nat
    <2>1. IsFiniteSet(0 .. b)
      BY FS_Interval
    <2> QED
      BY <2>1, FS_Subset, FS_CardinalityType
  <1>2. \A i : IsFiniteSet(UpTo(i)) /\ Cardinality(UpTo(i)) \in Nat
    BY <1>1, FS_Subset, FS_CardinalityType
  <1>3. ASSUME NEW k \in 1 .. Cardinality(S)
        PROVE  \E i \in S : Cardinality(UpTo(i)) = k
    <2> DEFINE G == {i \in S : Cardinality(UpTo(i)) >= k}
    <2>1. G # {}
      <3>1. S # {}
        BY FS_EmptySet
      <3>2. PICK i \in S : \A j \in S : j <= i
        BY <3>1, GreatestExists
      <3>3. UpTo(i) = S
        BY <3>2
      <3> QED
        BY <3>3
    <2>2. PICK i \in G : \A j \in G : i <= j
      <3>1. \A j \in S : j \in Nat
        OBVIOUS
      <3>2. G \in SUBSET Nat
        BY <3>1
      <3> QED
        BY <2>1, <3>2, LeastExists
    <2> DEFINE R == UpTo(i) \ {i}
    <2>3. IsFiniteSet(R) /\ Cardinality(R) = Cardinality(UpTo(i)) - 1
      BY <1>2, FS_RemoveElement
    <2>4. Cardinality(R) < k
      <3>1. CASE R = {}
        BY <3>1, FS_EmptySet
      <3>2. CASE R # {}
        <4>1. R \in SUBSET (0 .. b)
          OBVIOUS
        <4>2. PICK r \in R : \A j \in R : j <= r
          BY <3>2, <4>1, GreatestExists
        <4>3. r \in S /\ r < i
          OBVIOUS
        <4>4. \A j \in S : j \in Nat
          OBVIOUS
        <4>5. \A j \in S : j <= r <=> (j <= i /\ j # i)
          BY <4>2, <4>3, <4>4
        <4>6. UpTo(r) = R
          BY <4>5
        <4>7. r \notin G
          BY <2>2, <4>3, <4>4
        <4>8. ~(Cardinality(UpTo(r)) >= k)
          BY <4>3, <4>7
        <4>9. Cardinality(UpTo(r)) \in Nat
          BY <1>2
        <4> HIDE DEF UpTo, R
        <4> QED
          BY <4>6, <4>8, <4>9
      <3> QED
        BY <3>1, <3>2
    <2>5. Cardinality(UpTo(i)) = k
      <3>1. Cardinality(UpTo(i)) \in Nat /\ Cardinality(UpTo(i)) >= k
        BY <1>2, <2>2
      <3> HIDE DEF UpTo, R
      <3> QED
        BY <2>3, <2>4, <3>1
    <2> QED
      BY <2>5
  <1>4. \A k \in 1 .. Cardinality(S) : InOrder(S)[k] \in S
    BY <1>3 DEF InOrder
  <1> QED
    BY <1>1, <1>4 DEF InOrder

----------------------------------------------------------------------------
(* Arrays of nodes *)

(* An array given by its nodes is an array of that length.                   *)
LEMMA FunctionIsArray ==
    ASSUME NEW S, NEW n \in Nat, NEW f \in [1 .. n -> S]
    PROVE  f \in Seq(S) /\ Len(f) = n
  <1>1. f \in Seq(S)
    BY SeqDef
  <1>2. f \in [1 .. Len(f) -> S] /\ Len(f) \in Nat
    BY <1>1, LenProperties
  <1>3. 1 .. n = 1 .. Len(f)
    BY <1>2
  <1> QED
    BY <1>1, <1>2, <1>3

(* The nodes of an array, by index.                                          *)
LEMMA ArrayType ==
    ASSUME NEW S, NEW t \in Seq(S)
    PROVE  /\ Len(t) \in Nat /\ DOMAIN t = 1 .. Len(t)
           /\ \A i \in 1 .. Len(t) : t[i] \in S
  BY LenProperties

(* The nodes of a history and their ids.                                     *)
LEMMA NodesType ==
    ASSUME NEW t \in Seq(Node)
    PROVE  /\ Len(t) \in Nat /\ DOMAIN t = 1 .. Len(t)
           /\ \A i \in 1 .. Len(t) : t[i] \in Node /\ t[i].id \in Gid
  <1>1. \A n \in Node : n.id \in Gid
    BY DEF Node
  <1> QED
    BY <1>1, ArrayType

(* The node constructors make nodes.                                         *)
LEMMA ScriptNodeType ==
    ASSUME NEW id \in Gid, NEW pred \in Gid \cup {NoId}, NEW acks \in SUBSET User,
           NEW exe \in BOOLEAN
    PROVE  ScriptNode(id, pred, acks, exe) \in Node
  BY DEF ScriptNode, Node

(* The author of a script is a member, or the project's creator.             *)
LEMMA GidType ==
    ASSUME NEW id \in Gid
    PROVE  /\ Author(id) \in User /\ id[2] \in Nat \ {0}
           /\ id # Root => id \in Script
           /\ Author(id) \in Member => id[2] \in 1 .. Limit[Author(id)]
  <1>1. CASE id = Root
    BY <1>1, MemberAssumption DEF Root, User, Author
  <1>2. CASE id \in Script
    <2>1. PICK m \in Member : id \in {m} \X (1 .. Limit[m])
      BY <1>2 DEF Script
    <2>2. Limit[m] \in Nat
      BY MemberAssumption
    <2> QED
      BY <1>2, <2>1, <2>2 DEF User, Author
  <1> QED
    BY <1>1, <1>2 DEF Gid

(* A missing script is a node like any other.                                *)
LEMMA MissingNodeType ==
    ASSUME NEW id \in Gid, NEW pred \in Gid \cup {NoId}
    PROVE  MissingNode(id, pred) \in Node
  <1>1. ScriptNode(id, pred, {Author(id)}, FALSE) \in Node
    BY GidType, ScriptNodeType
  <1> QED
    BY <1>1 DEF MissingNode, Node

(* A node is found at an index of the array, or at 0.                        *)
LEMMA FindIdxType ==
    ASSUME NEW t \in Seq(Node), NEW id
    PROVE  /\ FindIdx(t, id) \in 0 .. Len(t)
           /\ FindIdx(t, id) # 0 => t[FindIdx(t, id)].id = id
           /\ FindIdx(t, id) = 0 <=> id \notin Ids(t)
  BY ArrayType DEF FindIdx, Ids

(* Two arrays with the same scripts in the same places.                      *)
SameScripts(t, u) ==
    Len(u) = Len(t) /\ \A i \in 1 .. Len(t) : u[i].id = t[i].id

(* Two arrays with the same scripts at the same places have the same ids: what *)
(* the loops that only set and clear bits (XMarkExecuted, XAcceptAck) keep. *)
LEMMA SameScriptsIds ==
    ASSUME NEW t \in Seq(Node), NEW u \in Seq(Node), SameScripts(t, u)
    PROVE  Ids(u) = Ids(t)
  <1>1. DOMAIN t = 1 .. Len(t) /\ DOMAIN u = 1 .. Len(t)
    BY NodesType DEF SameScripts
  <1> QED
    BY <1>1 DEF Ids, SameScripts

(***************************************************************************)
(* What every operation on a history keeps: it stays a history, no script   *)
(* is lost from it, and a new FIS marker names a script it contains.        *)
(***************************************************************************)
Keeps(h, h1) ==
    /\ h1 \in History
    /\ Ids(h.nodes) \subseteq Ids(h1.nodes)
    /\ h1.fis = h.fis \/ h1.fis \in Ids(h1.nodes)

(* A handler that leaves the history alone keeps every script and the marker. *)
LEMMA KeepsNothingDone == ASSUME NEW h \in History PROVE Keeps(h, h)
  BY DEF Keeps

(* What two updates of the history each keep, one after the other keep too. *)
LEMMA KeepsTransitive ==
    ASSUME NEW h, NEW h1, NEW h2, Keeps(h, h1), Keeps(h1, h2)
    PROVE  Keeps(h, h2)
  BY DEF Keeps

(* A history with another array of the same scripts.                         *)
LEMMA KeepsWithNodes ==
    ASSUME NEW h \in History, NEW t \in Seq(Node), SameScripts(h.nodes, t)
    PROVE  Keeps(h, [h EXCEPT !.nodes = t])
  <1>1. [h EXCEPT !.nodes = t] \in History /\ h.nodes \in Seq(Node)
    BY DEF History
  <1>2. [h EXCEPT !.nodes = t].nodes = t /\ [h EXCEPT !.nodes = t].fis = h.fis
    BY DEF History
  <1> QED
    BY <1>1, <1>2, SameScriptsIds DEF Keeps

(* Replacing a node by one with its id leaves an array of the same scripts.  *)
LEMMA ReplaceType ==
    ASSUME NEW t \in Seq(Node), NEW i, NEW n,
           i \in 1 .. Len(t) => n \in Node /\ n.id = t[i].id
    PROVE  Replace(t, i, n) \in Seq(Node) /\ SameScripts(t, Replace(t, i, n))
  <1>1. Replace(t, i, n) \in [1 .. Len(t) -> Node]
    BY ArrayType DEF Replace
  <1>2. Replace(t, i, n) \in Seq(Node) /\ Len(Replace(t, i, n)) = Len(t)
    BY <1>1, ArrayType, FunctionIsArray
  <1>3. \A j \in 1 .. Len(t) : Replace(t, i, n)[j] = IF j = i THEN n ELSE t[j]
    BY DEF Replace
  <1> QED
    BY <1>2, <1>3 DEF SameScripts

(* The ids found at a set of indices form a sequence of ids.                 *)
LEMMA IdsAtType ==
    ASSUME NEW t \in Seq(Node), NEW S \in SUBSET (1 .. Len(t))
    PROVE  IdsAt(t, S) \in Seq(Gid)
  <1>1. Len(t) \in Nat /\ \A i \in 1 .. Len(t) : t[i].id \in Gid
    BY NodesType
  <1>2. S \in SUBSET (0 .. Len(t))
    BY <1>1
  <1>3. Cardinality(S) \in Nat /\ InOrder(S) \in [1 .. Cardinality(S) -> S]
    BY <1>1, <1>2, InOrderType
  <1>4. IdsAt(t, S) \in [1 .. Cardinality(S) -> Gid]
    BY <1>1, <1>3 DEF IdsAt
  <1> QED
    BY <1>3, <1>4, FunctionIsArray

----------------------------------------------------------------------------
(* Where a script is inserted *)

(* A subtree ends behind its root and no later than the array.               *)
LEMMA SubtreeEndType ==
    ASSUME NEW t \in Seq(Node), NEW p \in 0 .. Len(t)
    PROVE  SubtreeEnd(t, p) \in p + 1 .. Len(t) + 1
  <1> DEFINE S == {j \in p + 1 .. Len(t) : \A k \in p .. j - 1 : t[k].id # t[j].pred}
  <1>1. Len(t) \in Nat
    BY ArrayType
  <1>2. S \in SUBSET Nat
    BY <1>1
  <1>3. S # {} => Least(S, Len(t) + 1) \in S
    BY <1>2, LeastIs
  <1>4. S = {} => Least(S, Len(t) + 1) = Len(t) + 1
    BY <1>2, LeastIs
  <1>5. SubtreeEnd(t, p) = Least(S, Len(t) + 1)
    BY DEF SubtreeEnd
  <1>6. \A i \in S : i \in p + 1 .. Len(t) + 1
    BY <1>1
  <1>7. Len(t) + 1 \in p + 1 .. Len(t) + 1
    BY <1>1
  <1> HIDE DEF S
  <1>8. CASE S = {}
    BY <1>4, <1>5, <1>7, <1>8
  <1>9. CASE S # {}
    BY <1>3, <1>5, <1>6, <1>9
  <1> QED
    BY <1>8, <1>9

(* The deciding branch head is a node of the subtree, or there is none.      *)
LEMMA DecidingHeadType ==
    ASSUME NEW t \in Seq(Node), NEW p \in 0 .. Len(t), NEW user
    PROVE  DecidingHead(t, p, user) \in 0 .. Len(t)
  <1> DEFINE S == {h \in BranchHeads(t, p) : HigherPriority(t[h], user) \/ ~t[h].rej}
  <1>1. Len(t) \in Nat /\ SubtreeEnd(t, p) \in p + 1 .. Len(t) + 1
    BY ArrayType, SubtreeEndType
  <1>2. \A h \in S : h \in 0 .. Len(t)
    BY <1>1 DEF BranchHeads, Subtree
  <1>3. S \in SUBSET Nat
    BY <1>1, <1>2
  <1>4. S # {} => Least(S, 0) \in S
    BY <1>3, LeastIs
  <1>5. S = {} => Least(S, 0) = 0
    BY <1>3, LeastIs
  <1>6. DecidingHead(t, p, user) = Least(S, 0)
    BY DEF DecidingHead
  <1> HIDE DEF S
  <1> QED
    BY <1>1, <1>2, <1>4, <1>5, <1>6

(* A script is inserted at an index of the array or right behind it.         *)
LEMMA InsertionIdxType ==
    ASSUME NEW t \in Seq(Node), NEW p \in 0 .. Len(t), NEW user
    PROVE  InsertionIdx(t, p, user) \in 1 .. Len(t) + 1
  <1>1. Len(t) \in Nat
    BY ArrayType
  <1> QED
    BY <1>1, SubtreeEndType, DecidingHeadType DEF InsertionIdx

(* Preparing the branch only sets bits.                                      *)
LEMMA PrepareBranchType ==
    ASSUME NEW t \in Seq(Node), NEW p, NEW user
    PROVE  /\ PrepareBranch(t, p, user) \in Seq(Node)
           /\ SameScripts(t, PrepareBranch(t, p, user))
  <1>1. Len(t) \in Nat /\ \A i \in 1 .. Len(t) : t[i] \in Node
    BY ArrayType
  <1>2. \A n \in Node : \A b, r \in BOOLEAN :
            [n EXCEPT !.bp = b, !.rej = r] \in Node /\ [n EXCEPT !.bp = b, !.rej = r].id = n.id
    BY DEF Node
  <1>3. \A i \in 1 .. Len(t) : PrepareBranch(t, p, user)[i].id = t[i].id
    BY <1>1 DEF PrepareBranch, Node
  <1>4. PrepareBranch(t, p, user) \in [1 .. Len(t) -> Node]
    <2> DEFINE B(i) == i = p /\ BranchHeads(t, p) # {}
               R(i) == Wins(t, p, user) /\ i \in DecidingHead(t, p, user) .. SubtreeEnd(t, p) - 1
    <2>1. ASSUME NEW i \in 1 .. Len(t)
          PROVE  [t[i] EXCEPT !.bp = t[i].bp \/ B(i), !.rej = t[i].rej \/ R(i)] \in Node
      <3>1. t[i] \in Node
        BY <1>1
      <3>2. (t[i].bp \/ B(i)) \in BOOLEAN /\ (t[i].rej \/ R(i)) \in BOOLEAN
        BY Zenon
      <3> HIDE DEF B, R
      <3> QED
        BY <1>2, <3>1, <3>2
    <2>2. PrepareBranch(t, p, user) =
            [i \in 1 .. Len(t) |->
                [t[i] EXCEPT !.bp = t[i].bp \/ B(i), !.rej = t[i].rej \/ R(i)]]
      BY DEF PrepareBranch
    <2> HIDE DEF B, R
    <2> QED
      BY <2>1, <2>2
  <1>5. PrepareBranch(t, p, user) \in Seq(Node) /\ Len(PrepareBranch(t, p, user)) = Len(t)
    BY <1>1, <1>4, FunctionIsArray
  <1> QED
    BY <1>3, <1>5 DEF SameScripts

(* The repaired marker is the id of a script in the array, or the old one.   *)
LEMMA RepairedFisType ==
    ASSUME NEW t \in Seq(Node), NEW fis
    PROVE  RepairedFis(t, fis) \in Ids(t) \cup {fis}
  <1> DEFINE S == {j \in DOMAIN t : Executed(t[j]) /\ Confirmed(t[j])}
  <1>1. Len(t) \in Nat /\ DOMAIN t = 1 .. Len(t) /\ \A i \in 1 .. Len(t) : t[i].id \in Gid
    BY NodesType
  <1>2. S \in SUBSET (0 .. Len(t))
    BY <1>1
  <1>3. S # {} => Greatest(S, 0) \in S
    BY <1>1, <1>2, GreatestIs
  <1>4. S = {} => Greatest(S, 0) = 0
    BY <1>1, <1>2, GreatestIs
  <1> QED
    BY <1>1, <1>3, <1>4 DEF RepairedFis, Ids

(* Setting the rejected bit of a node leaves a node.                         *)
LEMMA SetRejType ==
    ASSUME NEW n \in Node, NEW b
    PROVE  [n EXCEPT !.rej = n.rej \/ b] \in Node
  <1>1. (n.rej \/ b) \in BOOLEAN
    BY Zenon
  <1>2. \A r \in BOOLEAN : [n EXCEPT !.rej = r] \in Node
    BY DEF Node
  <1> QED
    BY <1>1, <1>2

(* What a sequence put together from three parts contains.                   *)
LEMMA ThreeParts ==
    ASSUME NEW S, NEW u \in Seq(S), NEW v \in Seq(S), NEW w \in Seq(S)
    PROVE  /\ u \o v \o w \in Seq(S)
           /\ Len(u \o v \o w) = Len(u) + Len(v) + Len(w)
           /\ \A i \in 1 .. Len(u) : (u \o v \o w)[i] = u[i]
           /\ \A i \in 1 .. Len(w) : (u \o v \o w)[Len(u) + Len(v) + i] = w[i]
  <1> DEFINE x == u \o v
             s == x \o w
  <1>1. Len(u) \in Nat /\ Len(v) \in Nat /\ Len(w) \in Nat
    BY ArrayType
  <1>2. /\ x \in Seq(S) /\ Len(x) = Len(u) + Len(v)
        /\ \A i \in 1 .. Len(u) + Len(v) : x[i] = IF i <= Len(u) THEN u[i] ELSE v[i - Len(u)]
    BY ConcatProperties
  <1> HIDE DEF x
  <1>3. /\ s \in Seq(S) /\ Len(s) = Len(x) + Len(w)
        /\ \A i \in 1 .. Len(x) + Len(w) : s[i] = IF i <= Len(x) THEN x[i] ELSE w[i - Len(x)]
    <2>1. x \in Seq(S)
      BY <1>2
    <2> QED
      BY <2>1, ConcatProperties
  <1> HIDE DEF s
  <1>4. ASSUME NEW i \in 1 .. Len(u) PROVE s[i] = u[i]
    <2>1. i \in 1 .. Len(u) + Len(v) /\ i <= Len(u) /\ i <= Len(x) /\ i \in 1 .. Len(x) + Len(w)
      BY <1>1, <1>2
    <2> QED
      BY <1>2, <1>3, <2>1
  <1>5. ASSUME NEW i \in 1 .. Len(w) PROVE s[Len(u) + Len(v) + i] = w[i]
    <2> DEFINE k == Len(u) + Len(v) + i
    <2>1. k \in 1 .. Len(x) + Len(w) /\ ~(k <= Len(x)) /\ k - Len(x) = i
      BY <1>1, <1>2
    <2> HIDE DEF k
    <2>2. s[k] = w[i]
      BY <1>3, <2>1
    <2> QED
      BY <2>2 DEF k
  <1> QED
    BY <1>1, <1>2, <1>3, <1>4, <1>5 DEF s, x

(* Nodes inserted into an array leave all others in it.                      *)
LEMMA SpliceKeepsIds ==
    ASSUME NEW t \in Seq(Node), NEW at \in 1 .. Len(t) + 1, NEW new \in Seq(Node)
    PROVE  /\ SubSeq(t, 1, at - 1) \o new \o SubSeq(t, at, Len(t)) \in Seq(Node)
           /\ Ids(t) \subseteq Ids(SubSeq(t, 1, at - 1) \o new \o SubSeq(t, at, Len(t)))
  <1> DEFINE u == SubSeq(t, 1, at - 1)
             w == SubSeq(t, at, Len(t))
             s == u \o new \o w
  <1>1. Len(t) \in Nat /\ DOMAIN t = 1 .. Len(t) /\ \A i \in 1 .. Len(t) : t[i] \in Node
    BY NodesType
  <1>2. u \in Seq(Node) /\ Len(u) = at - 1 /\ \A i \in 1 .. at - 1 : u[i] = t[i]
    <2>1. \A i \in 1 .. at - 1 : t[i] \in Node
      BY <1>1
    <2> QED
      BY <1>1, <2>1, SubSeqProperties
  <1>3. /\ w \in Seq(Node) /\ Len(w) = Len(t) - at + 1
        /\ \A i \in 1 .. Len(t) - at + 1 : w[i] = t[at + i - 1]
    <2>1. \A i \in at .. Len(t) : t[i] \in Node
      BY <1>1
    <2> QED
      BY <1>1, <2>1, SubSeqProperties
  <1> HIDE DEF u, w
  <1>4. /\ s \in Seq(Node) /\ Len(s) = Len(u) + Len(new) + Len(w)
        /\ \A i \in 1 .. Len(u) : s[i] = u[i]
        /\ \A i \in 1 .. Len(w) : s[Len(u) + Len(new) + i] = w[i]
    <2>1. u \in Seq(Node) /\ w \in Seq(Node)
      BY <1>2, <1>3
    <2> QED
      BY <2>1, ThreeParts
  <1> HIDE DEF s
  <1>5. DOMAIN s = 1 .. Len(s) /\ Len(new) \in Nat
    BY <1>4, NodesType
  <1>6. ASSUME NEW i \in 1 .. Len(t)
        PROVE  \E k \in DOMAIN s : s[k] = t[i]
    <2>1. CASE i < at
      <3>1. i \in 1 .. Len(u) /\ i \in 1 .. at - 1 /\ i \in 1 .. Len(s)
        BY <1>1, <1>2, <1>3, <1>4, <1>5, <2>1
      <3> QED
        BY <1>2, <1>4, <1>5, <3>1
    <2>2. CASE i >= at
      <3> DEFINE j == i - at + 1
                 k == Len(u) + Len(new) + j
      <3>1. j \in 1 .. Len(w) /\ at + j - 1 = i /\ k \in 1 .. Len(s)
        BY <1>1, <1>2, <1>3, <1>4, <1>5, <2>2
      <3>2. w[j] = t[at + j - 1]
        BY <1>3, <3>1
      <3> HIDE DEF j
      <3>3. s[k] = w[j]
        BY <1>4, <3>1
      <3> QED
        BY <1>5, <3>1, <3>2, <3>3
    <2> QED
      BY <2>1, <2>2
  <1>7. Ids(t) \subseteq Ids(s)
    BY <1>1, <1>6 DEF Ids
  <1> QED
    BY <1>4, <1>7 DEF s, u, w

(* Inserting a chain of scripts loses none of the old ones.                  *)
LEMMA InsertChainKeeps ==
    ASSUME NEW h \in History, NEW pred, NEW chain \in Seq(Node)
    PROVE  Keeps(h, InsertChain(h, pred, chain))
  <1> DEFINE t    == h.nodes
             p    == FindIdx(t, pred)
             user == Author(chain[1].id)
             at   == InsertionIdx(t, p, user)
             t1   == PrepareBranch(t, p, user)
             atEnd == at = Len(t) + 1
             new  == [i \in 1 .. Len(chain) |-> [chain[i] EXCEPT !.rej = @ \/ ~atEnd]]
             t2   == SubSeq(t1, 1, at - 1) \o new \o SubSeq(t1, at, Len(t))
             fis2 == IF atEnd /\ Wins(t, p, user) THEN RepairedFis(t2, h.fis) ELSE h.fis
  <1>1. t \in Seq(Node) /\ h.fis \in Gid
    BY DEF History
  <1>2. Len(t) \in Nat /\ p \in 0 .. Len(t)
    BY <1>1, NodesType, FindIdxType
  <1>3. at \in 1 .. Len(t) + 1
    BY <1>1, <1>2, InsertionIdxType
  <1>4. t1 \in Seq(Node) /\ Len(t1) = Len(t) /\ Ids(t1) = Ids(t)
    BY <1>1, PrepareBranchType, SameScriptsIds DEF SameScripts
  <1>5. new \in Seq(Node)
    <2>1. Len(chain) \in Nat /\ \A i \in 1 .. Len(chain) : chain[i] \in Node
      BY NodesType
    <2>2. \A i \in 1 .. Len(chain) : [chain[i] EXCEPT !.rej = @ \/ ~atEnd] \in Node
      BY <2>1, SetRejType
    <2>3. new \in [1 .. Len(chain) -> Node]
      BY <2>2
    <2> HIDE DEF new
    <2> QED
      BY <2>1, <2>3, FunctionIsArray
  <1> HIDE DEF at, t1, new
  <1>6. t2 \in Seq(Node) /\ Ids(t) \subseteq Ids(t2)
    BY <1>3, <1>4, <1>5, SpliceKeepsIds
  <1> HIDE DEF t2
  <1>7. fis2 \in Ids(t2) \cup {h.fis}
    BY <1>6, RepairedFisType
  <1>8. Ids(t2) \subseteq Gid
    BY <1>6, NodesType DEF Ids
  <1>9. InsertChain(h, pred, chain) = [nodes |-> t2, fis |-> fis2]
    BY DEF InsertChain, at, t1, new, t2
  <1> HIDE DEF fis2
  <1> QED
    BY <1>1, <1>6, <1>7, <1>8, <1>9 DEF History, Keeps

(* A single node makes an array.                                             *)
LEMMA SingletonArray ==
    ASSUME NEW n \in Node
    PROVE  <<n>> \in Seq(Node)
  OBVIOUS

(* So does inserting a single script.                                        *)
LEMMA InsertNewNodeKeeps ==
    ASSUME NEW h \in History, NEW n \in Node
    PROVE  Keeps(h, InsertNewNode(h, n))
  <1>1. <<n>> \in Seq(Node)
    BY SingletonArray
  <1> QED
    BY <1>1, InsertChainKeeps DEF InsertNewNode

(* A script may take the place of its placeholder.                           *)
LEMMA SubstituteNodeKeeps ==
    ASSUME NEW h \in History, NEW n \in Node
    PROVE  Keeps(h, SubstituteNode(h, n))
  <1> DEFINE i == FindIdx(h.nodes, n.id)
             m == [n EXCEPT !.rej = h.nodes[i].rej, !.bp = h.nodes[i].bp]
  <1>1. h.nodes \in Seq(Node)
    BY DEF History
  <1>2. i \in 1 .. Len(h.nodes) => m \in Node /\ m.id = h.nodes[i].id
    <2>1. i \in 1 .. Len(h.nodes) => h.nodes[i] \in Node /\ h.nodes[i].id = n.id
      BY <1>1, NodesType, FindIdxType
    <2> HIDE DEF i
    <2> QED
      BY <2>1 DEF Node
  <1>3. Replace(h.nodes, i, m) \in Seq(Node) /\ SameScripts(h.nodes, Replace(h.nodes, i, m))
    BY <1>1, <1>2, ReplaceType
  <1> QED
    BY <1>3, KeepsWithNodes DEF SubstituteNode

----------------------------------------------------------------------------
(* Confirming and executing *)

(* Awaiting fewer acknowledgments, a node stays a node.                      *)
LEMMA AckTypes ==
    ASSUME NEW n \in Node
    PROVE  /\ [n EXCEPT !.acks = {}] \in Node /\ [n EXCEPT !.acks = {}].id = n.id
           /\ \A from : AckFrom(n, from) \in Node /\ AckFrom(n, from).id = n.id
  <1>1. n.acks \in SUBSET User
    BY DEF Node
  <1>2. \A S \in SUBSET User : [n EXCEPT !.acks = S] \in Node /\ [n EXCEPT !.acks = S].id = n.id
    BY DEF Node
  <1>3. \A from : n.acks \ {from} \in SUBSET User
    BY <1>1
  <1>4. {} \in SUBSET User
    OBVIOUS
  <1> QED
    BY <1>2, <1>3, <1>4 DEF AckFrom

(* The FIS marker advances to the id of a script of the history.             *)
LEMMA AdvanceFisType ==
    ASSUME NEW h \in History
    PROVE  AdvanceFis(h) \in Ids(h.nodes) \cup {h.fis}
  <1> DEFINE t    == h.nodes
             from == FisIdx(h)
             stop == Least({j \in from + 1 .. Len(t) :
                               ~IsCandidateForFis(t[j]) /\ NoMoreCandidatesForFis(t[j])},
                           Len(t) + 1)
             S    == {j \in from + 1 .. stop - 1 : IsCandidateForFis(t[j])}
             best == Greatest(S, 0)
  <1>1. t \in Seq(Node) /\ h.fis \in Gid
    BY DEF History
  <1>2. Len(t) \in Nat /\ \A i \in 1 .. Len(t) : t[i].id \in Ids(t)
    BY <1>1, NodesType DEF Ids
  <1>3. from \in 0 .. Len(t)
    BY <1>1, FindIdxType DEF FisIdx
  <1>4. stop \in from + 1 .. Len(t) + 1
    <2> DEFINE T == {j \in from + 1 .. Len(t) :
                        ~IsCandidateForFis(t[j]) /\ NoMoreCandidatesForFis(t[j])}
    <2>1. T \in SUBSET Nat
      BY <1>2, <1>3
    <2>2. stop = Least(T, Len(t) + 1)
      OBVIOUS
    <2>3. \A j \in T : j \in from + 1 .. Len(t) + 1
      BY <1>2, <1>3
    <2> HIDE DEF stop, from, T
    <2>4. (T = {} => stop = Len(t) + 1) /\ (T # {} => stop \in T)
      BY <2>1, <2>2, LeastIs
    <2> QED
      BY <1>2, <1>3, <2>3, <2>4
  <1> HIDE DEF from, stop
  <1>5. S \in SUBSET (1 .. Len(t)) /\ S \in SUBSET (0 .. Len(t))
    BY <1>2, <1>3, <1>4
  <1>6. (S = {} => best = 0) /\ (S # {} => best \in S)
    BY <1>2, <1>5, GreatestIs
  <1>7. best = 0 \/ best \in 1 .. Len(t)
    BY <1>5, <1>6
  <1>8. AdvanceFis(h) = IF best = 0 THEN h.fis ELSE t[best].id
    BY DEF AdvanceFis, from, stop
  <1> HIDE DEF best
  <1> QED
    BY <1>1, <1>2, <1>7, <1>8

(* Moving the FIS marker of a history keeps it a history.                    *)
LEMMA AdvanceFisKeeps ==
    ASSUME NEW h, NEW h1, Keeps(h, h1)
    PROVE  Keeps(h, [h1 EXCEPT !.fis = AdvanceFis(h1)])
  <1>1. h1 \in History /\ h1.nodes \in Seq(Node) /\ h1.fis \in Gid
    BY DEF Keeps, History
  <1>2. AdvanceFis(h1) \in Ids(h1.nodes) \cup {h1.fis}
    BY <1>1, AdvanceFisType
  <1>3. Ids(h1.nodes) \subseteq Gid
    BY <1>1, NodesType DEF Ids
  <1>4. /\ [h1 EXCEPT !.fis = AdvanceFis(h1)] \in History
        /\ [h1 EXCEPT !.fis = AdvanceFis(h1)].nodes = h1.nodes
        /\ [h1 EXCEPT !.fis = AdvanceFis(h1)].fis = AdvanceFis(h1)
    BY <1>1, <1>2, <1>3 DEF History
  <1> QED
    BY <1>2, <1>4 DEF Keeps

(* Confirming the older scripts.                                             *)
LEMMA ConfirmAllOlderNodesKeeps ==
    ASSUME NEW h \in History, NEW i
    PROVE  Keeps(h, ConfirmAllOlderNodes(h, i))
  <1> DEFINE t    == h.nodes
             last == Greatest({j \in FisIdx(h) .. i - 1 : Confirmed(t[j])}, FisIdx(h) - 1)
             t1   == [j \in 1 .. Len(t) |->
                         IF j \in last + 1 .. i - 1 THEN [t[j] EXCEPT !.acks = {}] ELSE t[j]]
             h1   == [h EXCEPT !.nodes = t1]
  <1>1. t \in Seq(Node)
    BY DEF History
  <1>2. Len(t) \in Nat /\ \A j \in 1 .. Len(t) : /\ t[j] \in Node
                                                /\ [t[j] EXCEPT !.acks = {}] \in Node
                                                /\ [t[j] EXCEPT !.acks = {}].id = t[j].id
    BY <1>1, NodesType, AckTypes
  <1> HIDE DEF last
  <1>3. t1 \in [1 .. Len(t) -> Node] /\ \A j \in 1 .. Len(t) : t1[j].id = t[j].id
    BY <1>2
  <1>4. t1 \in Seq(Node) /\ SameScripts(t, t1)
    <2> HIDE DEF t1
    <2> QED
      BY <1>2, <1>3, FunctionIsArray DEF SameScripts
  <1>5. Keeps(h, h1)
    BY <1>4, KeepsWithNodes
  <1>6. Keeps(h, [h1 EXCEPT !.fis = AdvanceFis(h1)])
    BY <1>5, AdvanceFisKeeps
  <1>7. ConfirmAllOlderNodes(h, i) \in {[h1 EXCEPT !.fis = AdvanceFis(h1)], h}
    BY DEF ConfirmAllOlderNodes, last
  <1> QED
    BY <1>6, <1>7, KeepsNothingDone

(* Accepting an acknowledgment.                                              *)
LEMMA AcceptAckKeeps ==
    ASSUME NEW h \in History, NEW id, NEW from
    PROVE  Keeps(h, AcceptAck(h, id, from))
  <1> DEFINE i  == FindIdx(h.nodes, id)
             t1 == Replace(h.nodes, i, AckFrom(h.nodes[i], from))
             h1 == [h EXCEPT !.nodes = t1]
  <1>1. h.nodes \in Seq(Node)
    BY DEF History
  <1>2. i \in 1 .. Len(h.nodes) =>
            AckFrom(h.nodes[i], from) \in Node /\ AckFrom(h.nodes[i], from).id = h.nodes[i].id
    BY <1>1, NodesType, AckTypes
  <1>3. t1 \in Seq(Node) /\ SameScripts(h.nodes, t1)
    BY <1>1, <1>2, ReplaceType
  <1>4. Keeps(h, h1)
    BY <1>3, KeepsWithNodes
  <1>5. Keeps(h, ConfirmAllOlderNodes(h1, i))
    BY <1>4, ConfirmAllOlderNodesKeeps, KeepsTransitive DEF Keeps
  <1>6. AcceptAck(h, id, from) \in {h, h1, ConfirmAllOlderNodes(h1, i)}
    BY DEF AcceptAck
  <1> QED
    BY <1>4, <1>5, <1>6, KeepsNothingDone

(* What is to be executed next is a script, or nothing.                      *)
LEMMA NextMarkerType ==
    ASSUME NEW h \in History
    PROVE  NextMarker(h) \in Gid \cup {NoId}
  <1> DEFINE t == h.nodes
             S == {j \in FisIdx(h) .. Len(t) : Candidate(t[j]) \/ (t[j].mis /\ ~Rejected(t[j]))}
             i == Least(S, 0)
  <1>1. t \in Seq(Node)
    BY DEF History
  <1>2. Len(t) \in Nat /\ \A j \in 1 .. Len(t) : t[j].id \in Gid
    BY <1>1, NodesType
  <1>3. FisIdx(h) \in 0 .. Len(t)
    BY <1>1, FindIdxType DEF FisIdx
  <1>4. S \in SUBSET Nat /\ S \in SUBSET (0 .. Len(t))
    BY <1>2, <1>3
  <1>5. i = 0 \/ i \in S
    BY <1>4, LeastIs
  <1>6. i = 0 \/ i \in 1 .. Len(t)
    <2>1. \A j \in S : j = 0 \/ j \in 1 .. Len(t)
      BY <1>2, <1>3
    <2> HIDE DEF S, i
    <2> QED
      BY <1>5, <2>1
  <1>7. NextMarker(h) = IF i # 0 /\ Candidate(t[i]) THEN t[i].id ELSE NoId
    BY DEF NextMarker
  <1> HIDE DEF i
  <1> QED
    BY <1>2, <1>6, <1>7

(* Undoing scripts.                                                          *)
LEMMA UndoScriptsKeeps ==
    ASSUME NEW h \in History, NEW undo
    PROVE  Keeps(h, UndoScripts(h, undo))
  <1> DEFINE t    == h.nodes
             from == FisIdx(h)
             Cleared(j) ==
                 \E i \in undo : /\ Confirmed(t[i])
                                 /\ from <= j /\ j < i
                                 /\ \A k \in j .. i - 1 : ~Confirmed(t[k])
             After(S) == [j \in 1 .. Len(t) |->
                             [t[j] EXCEPT !.exe  = @ /\ j \notin S,
                                          !.acks = IF Cleared(j) THEN {} ELSE @]]
             oldest == Least({i \in undo : i >= from /\ (Confirmed(t[i]) \/ Cleared(i))}, 0)
             atLast == {i \in undo : i >= oldest}
             h2     == [nodes |-> After(atLast), fis |-> h.fis]
             fis2   == IF oldest = 0 THEN h.fis ELSE AdvanceFis(h2)
  <1>1. t \in Seq(Node) /\ h.fis \in Gid
    BY DEF History
  <1>2. Len(t) \in Nat /\ \A j \in 1 .. Len(t) : t[j] \in Node
    BY <1>1, NodesType
  <1>3. ASSUME NEW n \in Node, NEW e, NEW c
        PROVE  /\ [n EXCEPT !.exe = n.exe /\ e, !.acks = IF c THEN {} ELSE n.acks] \in Node
               /\ [n EXCEPT !.exe = n.exe /\ e, !.acks = IF c THEN {} ELSE n.acks].id = n.id
    <2>1. (n.exe /\ e) \in BOOLEAN
      BY Zenon
    <2>2. (IF c THEN {} ELSE n.acks) \in SUBSET User
      BY DEF Node
    <2>3. \A x \in BOOLEAN, a \in SUBSET User :
              /\ [n EXCEPT !.exe = x, !.acks = a] \in Node
              /\ [n EXCEPT !.exe = x, !.acks = a].id = n.id
      BY DEF Node
    <2> QED
      BY <2>1, <2>2, <2>3
  <1>4. ASSUME NEW S
        PROVE  After(S) \in Seq(Node) /\ SameScripts(t, After(S))
    <2> DEFINE A(j) == [t[j] EXCEPT !.exe  = t[j].exe /\ j \notin S,
                                    !.acks = IF Cleared(j) THEN {} ELSE t[j].acks]
    <2>1. ASSUME NEW j \in 1 .. Len(t)
          PROVE  A(j) \in Node /\ A(j).id = t[j].id
      <3>1. t[j] \in Node
        BY <1>2
      <3> HIDE DEF Cleared
      <3> QED
        BY <1>3, <3>1
    <2>2. After(S) = [j \in 1 .. Len(t) |-> A(j)]
      OBVIOUS
    <2> HIDE DEF A, After
    <2>3. After(S) \in [1 .. Len(t) -> Node] /\ \A j \in 1 .. Len(t) : After(S)[j] = A(j)
      BY <2>1, <2>2
    <2>4. After(S) \in Seq(Node) /\ Len(After(S)) = Len(t)
      BY <1>2, <2>3, FunctionIsArray
    <2> QED
      BY <2>1, <2>3, <2>4 DEF SameScripts
  <1> HIDE DEF Cleared, After, oldest, atLast
  <1>5. After(atLast) \in Seq(Node) /\ Ids(After(atLast)) = Ids(t)
    BY <1>1, <1>4, SameScriptsIds
  <1>6. h2 \in History
    BY <1>1, <1>5 DEF History
  <1>7. fis2 \in Ids(t) \cup {h.fis}
    <2>1. AdvanceFis(h2) \in Ids(h2.nodes) \cup {h2.fis}
      BY <1>6, AdvanceFisType
    <2>2. h2.nodes = After(atLast) /\ h2.fis = h.fis
      OBVIOUS
    <2> HIDE DEF h2
    <2> QED
      BY <1>5, <2>1, <2>2
  <1>8. After(undo) \in Seq(Node) /\ Ids(After(undo)) = Ids(t) /\ Ids(t) \subseteq Gid
    BY <1>1, <1>4, SameScriptsIds, NodesType DEF Ids
  <1>9. UndoScripts(h, undo) = [nodes |-> After(undo), fis |-> fis2]
    BY DEF UndoScripts, Cleared, After, oldest, atLast
  <1> HIDE DEF fis2
  <1> QED
    BY <1>1, <1>7, <1>8, <1>9 DEF History, Keeps

(* Executing a script, with what it undoes and confirms.                     *)
LEMMA ExecuteScriptKeeps ==
    ASSUME NEW h \in History, NEW id
    PROVE  Keeps(h, SetExecuted(h, id)) /\ Keeps(h, ExecuteScript(h, id))
  <1> DEFINE u == UndoScripts(h, ToBeRejectedScripts(h))
             i == FindIdx(h.nodes, id)
             n == [u.nodes[i] EXCEPT !.exe = TRUE, !.rej = FALSE]
  <1>1. Keeps(h, u) /\ u \in History
    BY UndoScriptsKeeps DEF Keeps
  <1> HIDE DEF u
  <1>2. u.nodes \in Seq(Node)
    BY <1>1 DEF History
  <1>3. i \in 1 .. Len(u.nodes) => n \in Node /\ n.id = u.nodes[i].id
    <2>1. i \in 1 .. Len(u.nodes) => u.nodes[i] \in Node
      BY <1>2, NodesType
    <2> QED
      BY <2>1 DEF Node
  <1>4. Replace(u.nodes, i, n) \in Seq(Node) /\ SameScripts(u.nodes, Replace(u.nodes, i, n))
    BY <1>2, <1>3, ReplaceType
  <1>5. SetExecuted(h, id) = [u EXCEPT !.nodes = Replace(u.nodes, i, n)]
    BY DEF SetExecuted, u
  <1>6. Keeps(h, SetExecuted(h, id)) /\ SetExecuted(h, id) \in History
    <2>1. Keeps(u, SetExecuted(h, id))
      BY <1>1, <1>4, <1>5, KeepsWithNodes
    <2>2. Keeps(h, SetExecuted(h, id))
      BY <1>1, <2>1, KeepsTransitive
    <2> QED
      BY <2>2 DEF Keeps
  <1>7. Keeps(h, ConfirmAllOlderNodes(SetExecuted(h, id), i))
    BY <1>6, ConfirmAllOlderNodesKeeps, KeepsTransitive
  <1>8. ExecuteScript(h, id) \in {SetExecuted(h, id), ConfirmAllOlderNodes(SetExecuted(h, id), i)}
    BY DEF ExecuteScript
  <1> QED
    BY <1>6, <1>7, <1>8

(* Finding a script unreadable.                                              *)
LEMMA SetMissingKeeps ==
    ASSUME NEW h \in History, NEW id
    PROVE  Keeps(h, SetMissing(h, id))
  <1> DEFINE i == FindIdx(h.nodes, id)
             n == [h.nodes[i] EXCEPT !.mis = TRUE]
  <1>1. h.nodes \in Seq(Node)
    BY DEF History
  <1>2. i \in 1 .. Len(h.nodes) => n \in Node /\ n.id = h.nodes[i].id
    <2>1. i \in 1 .. Len(h.nodes) => h.nodes[i] \in Node
      BY <1>1, NodesType
    <2> QED
      BY <2>1 DEF Node
  <1>3. Replace(h.nodes, i, n) \in Seq(Node) /\ SameScripts(h.nodes, Replace(h.nodes, i, n))
    BY <1>1, <1>2, ReplaceType
  <1> QED
    BY <1>3, KeepsWithNodes DEF SetMissing

----------------------------------------------------------------------------
(* Lineages *)

(* The lineages taken from a history are sequences of ids.                   *)
LEMMA LineagesType ==
    ASSUME NEW h \in History
    PROVE  UnitLineage(h) \in Seq(Gid) /\ MainSetLineage(h) \in Seq(Gid)
  <1>1. h.nodes \in Seq(Node)
    BY DEF History
  <1>2. DOMAIN h.nodes = 1 .. Len(h.nodes)
    BY <1>1, NodesType
  <1>3. \A from : /\ {i \in DOMAIN h.nodes : i >= from /\ ~h.nodes[i].rej}
                        \in SUBSET (1 .. Len(h.nodes))
                  /\ {i \in DOMAIN h.nodes : i >= from /\ h.nodes[i].exe}
                        \in SUBSET (1 .. Len(h.nodes))
    BY <1>2
  <1> QED
    BY <1>1, <1>3, IdsAtType DEF UnitLineage, MainSetLineage

(* Matching a lineage with the array stops within the lineage, at or behind  *)
(* the first script that is known.                                          *)
LEMMA LastMatchedType ==
    ASSUME NEW t \in Seq(Node), NEW lin \in Seq(Gid)
    PROVE  /\ FirstKnown(t, lin) \in 0 .. Len(lin)
           /\ LastMatched(t, lin) \in 0 .. Len(lin)
           /\ FirstKnown(t, lin) <= LastMatched(t, lin)
  <1> DEFINE K == {k \in DOMAIN lin : lin[k] \in Ids(t)}
             k == FirstKnown(t, lin)
             S == {i \in k .. Len(lin) :
                     \A j \in k + 1 .. i : FindIdx(t, lin[j]) > FindIdx(t, lin[j - 1])}
  <1>1. Len(lin) \in Nat /\ DOMAIN lin = 1 .. Len(lin)
    BY ArrayType
  <1>2. k \in 0 .. Len(lin)
    <2>1. K \in SUBSET Nat
      BY <1>1
    <2>2. Least(K, 0) = 0 \/ Least(K, 0) \in K
      BY <2>1, LeastIs
    <2> QED
      BY <1>1, <2>2 DEF FirstKnown
  <1> HIDE DEF k
  <1>3. S \in SUBSET (0 .. Len(lin)) /\ k \in S
    BY <1>1, <1>2
  <1>4. Greatest(S, 0) \in S
    BY <1>1, <1>3, GreatestIs
  <1>5. LastMatched(t, lin) = Greatest(S, 0)
    BY DEF LastMatched, k
  <1> QED
    BY <1>1, <1>2, <1>4, <1>5 DEF k

(* A prefix of a sequence, and what follows it, are sequences.               *)
LEMMA PartsType ==
    ASSUME NEW S, NEW s \in Seq(S), NEW k \in 0 .. Len(s)
    PROVE  SubSeq(s, 1, k) \in Seq(S) /\ SubSeq(s, k + 1, Len(s)) \in Seq(S)
  <1>1. Len(s) \in Nat /\ \A i \in 1 .. Len(s) : s[i] \in S
    BY ArrayType
  <1>2. SubSeq(s, 1, k) \in Seq(S)
    BY <1>1, SubSeqProperties
  <1>3. SubSeq(s, k + 1, Len(s)) \in Seq(S)
    BY <1>1, SubSeqProperties
  <1> QED
    BY <1>2, <1>3

(* Inserting the missing scripts of a lineage.                               *)
LEMMA InsertMissingKeeps ==
    ASSUME NEW h \in History, NEW pred \in Gid, NEW ids \in Seq(Gid)
    PROVE  Keeps(h, InsertMissing(h, pred, ids))
  <1>1. Len(ids) \in Nat /\ \A i \in 1 .. Len(ids) : ids[i] \in Gid
    BY ArrayType
  <1>2. \A i \in 1 .. Len(ids) :
            MissingNode(ids[i], IF i = 1 THEN pred ELSE ids[i - 1]) \in Node
    <2>1. ASSUME NEW i \in 1 .. Len(ids)
          PROVE  (IF i = 1 THEN pred ELSE ids[i - 1]) \in Gid
      BY <1>1
    <2> QED
      BY <1>1, <2>1, MissingNodeType
  <1>3. MissingChain(pred, ids) \in [1 .. Len(ids) -> Node]
    BY <1>2 DEF MissingChain
  <1>4. MissingChain(pred, ids) \in Seq(Node)
    BY <1>1, <1>3, FunctionIsArray
  <1> QED
    BY <1>4, InsertChainKeeps, KeepsNothingDone DEF InsertMissing

----------------------------------------------------------------------------
(* Depth-first walks and the splicing of a chain into one *)

(***************************************************************************)
(* a gives each of the places 2 .. n of an array its parent, as a depth-    *)
(* first walk lists a tree: parents come first, and between a place and     *)
(* its parent nothing hangs from before that parent.                        *)
(***************************************************************************)
Preorder(a, n) ==
    /\ n \in Nat /\ n > 0 /\ a \in [2 .. n -> Nat]
    /\ \A i \in 2 .. n : 1 <= a[i] /\ a[i] < i
    /\ \A i \in 2 .. n : \A k \in 2 .. i - 1 : a[i] < k => a[i] <= a[k]

(***************************************************************************)
(* Place j is in the subtree of place p: nothing after p, up to j, hangs    *)
(* from before p.                                                           *)
(***************************************************************************)
Under(a, p, j) == p <= j /\ \A k \in p + 1 .. j : p <= a[k]

(* Where place x moves when c new places are put in front of place at.       *)
Shift(x, at, c) == IF x < at THEN x ELSE x + c

(* What the move keeps and what it leaves free, for the places 1 .. n.       *)
Spread(n, at, c) ==
    /\ \A x \in 1 .. n : Shift(x, at, c) \in 1 .. n + c /\ Shift(x, at, c) \notin at .. at + c - 1
    /\ \A x, y \in 1 .. n : x < y <=> Shift(x, at, c) < Shift(y, at, c)
    /\ \A i \in 1 .. n + c : i \in at .. at + c - 1 \/ \E x \in 1 .. n : i = Shift(x, at, c)
    /\ \A x \in 1 .. n : (x >= 2 <=> Shift(x, at, c) >= 2)
    /\ \A x, y \in 1 .. n : Shift(x, at, c) = Shift(y, at, c) => x = y

(***************************************************************************)
(* b is a with a chain of c places spliced in at place at, its first place  *)
(* hanging from p: at is in the subtree of p, or just after it, and no      *)
(* deeper.                                                                  *)
(***************************************************************************)
Spliced(a, n, b, p, at, c) ==
    /\ p \in 1 .. n /\ at \in p + 1 .. n + 1 /\ c \in Nat \ {0}
    /\ Under(a, p, at - 1) /\ (at <= n => a[at] <= p)
    /\ b \in [2 .. n + c -> Nat]
    /\ \A i \in 2 .. at - 1 : b[i] = a[i]
    /\ b[at] = p
    /\ \A i \in at + 1 .. at + c - 1 : b[i] = i - 1
    /\ \A i \in at .. n : b[i + c] = Shift(a[i], at, c)

(***************************************************************************)
(* The subtrees of a depth-first walk: each contains its root and lies in   *)
(* that of the root's parent, they nest, the subtree of the first place is  *)
(* everything, and two that share a place are comparable.                   *)
(***************************************************************************)
LEMMA UnderFacts ==
    ASSUME NEW a, NEW n, Preorder(a, n)
    PROVE  /\ \A i \in 1 .. n : Under(a, i, i)
           /\ \A i \in 1 .. n : Under(a, 1, i)
           /\ \A i \in 2 .. n : Under(a, a[i], i)
           /\ \A i, j, k \in 1 .. n : Under(a, i, j) /\ Under(a, j, k) => Under(a, i, k)
           /\ \A i, j, k \in 1 .. n : Under(a, i, k) /\ Under(a, j, k) /\ i <= j => Under(a, i, j)
           /\ \A i, j \in 1 .. n : Under(a, i, j) /\ i # j => Under(a, i, a[j])
  <1>1. \A i \in 1 .. n : Under(a, i, i)
    BY DEF Under, Preorder
  <1>2. \A i \in 1 .. n : Under(a, 1, i)
    BY DEF Under, Preorder
  <1>3. \A i \in 2 .. n : Under(a, a[i], i)
    BY DEF Under, Preorder
  <1>4. \A i, j, k \in 1 .. n : Under(a, i, j) /\ Under(a, j, k) => Under(a, i, k)
    BY DEF Under, Preorder
  <1>5. \A i, j, k \in 1 .. n : Under(a, i, k) /\ Under(a, j, k) /\ i <= j => Under(a, i, j)
    BY DEF Under, Preorder
  <1>6. \A i, j \in 1 .. n : Under(a, i, j) /\ i # j => Under(a, i, a[j])
    BY DEF Under, Preorder
  <1> QED
    BY <1>1, <1>2, <1>3, <1>4, <1>5, <1>6

(* The old places keep their parents, moved with them.                       *)
LEMMA SplicedOld ==
    ASSUME NEW a, NEW n, Preorder(a, n), NEW b, NEW p, NEW at, NEW c, Spliced(a, n, b, p, at, c)
    PROVE  \A i \in 2 .. n : b[Shift(i, at, c)] = Shift(a[i], at, c)
  BY DEF Preorder, Spliced, Shift

(***************************************************************************)
(* Moving places apart keeps their order and leaves exactly the new places  *)
(* free.                                                                    *)
(***************************************************************************)
LEMMA ShiftIndex ==
    ASSUME NEW n \in Nat, NEW at \in 2 .. n + 1, NEW c \in Nat \ {0}
    PROVE  Spread(n, at, c)
  <1>1. ASSUME NEW i \in 1 .. n + c, i \notin at .. at + c - 1
        PROVE  \E x \in 1 .. n : i = Shift(x, at, c)
    <2>1. CASE i < at
      BY <2>1 DEF Shift
    <2>2. CASE i >= at + c
      <3>1. i - c \in 1 .. n /\ i = Shift(i - c, at, c)
        BY <2>2 DEF Shift
      <3> QED
        BY <3>1
    <2> QED
      BY <1>1, <2>1, <2>2
  <1>2. \A x \in 1 .. n : Shift(x, at, c) \in 1 .. n + c /\ Shift(x, at, c) \notin at .. at + c - 1
    BY DEF Shift
  <1>3. \A x, y \in 1 .. n : x < y <=> Shift(x, at, c) < Shift(y, at, c)
    BY DEF Shift
  <1>4. \A x \in 1 .. n : (x >= 2 <=> Shift(x, at, c) >= 2)
    BY DEF Shift
  <1>5. \A x, y \in 1 .. n : Shift(x, at, c) = Shift(y, at, c) => x = y
    BY DEF Shift
  <1> QED
    BY <1>1, <1>2, <1>3, <1>4, <1>5 DEF Spread

(* The same for a splice.                                                    *)
LEMMA SplicedIndex ==
    ASSUME NEW a, NEW n, Preorder(a, n), NEW b, NEW p, NEW at, NEW c, Spliced(a, n, b, p, at, c)
    PROVE  Spread(n, at, c)
  <1>1. n \in Nat /\ at \in 2 .. n + 1 /\ c \in Nat \ {0}
    BY DEF Preorder, Spliced
  <1> QED
    BY <1>1, ShiftIndex

(* A splice keeps the walk depth-first.                                      *)
LEMMA SplicedPreorder ==
    ASSUME NEW a, NEW n, Preorder(a, n), NEW b, NEW p, NEW at, NEW c, Spliced(a, n, b, p, at, c)
    PROVE  Preorder(b, n + c)
  <1> DEFINE S(x) == Shift(x, at, c)
             New == at .. at + c - 1
  <1>0. n \in Nat /\ c \in Nat /\ at \in Nat /\ p \in Nat /\ c > 0 /\ n > 0 /\ p < at /\ 1 <= p
    BY DEF Preorder, Spliced
  <1>1. \A x \in 2 .. n : b[S(x)] = S(a[x]) /\ a[x] \in 1 .. n /\ a[x] < x
    <2>1. \A x \in 2 .. n : a[x] \in 1 .. n /\ a[x] < x
      BY DEF Preorder
    <2>2. \A x \in 2 .. n : b[S(x)] = S(a[x])
      BY SplicedOld
    <2> QED
      BY <2>1, <2>2
  <1>2. \A i \in New : i \in 2 .. n + c /\ b[i] = IF i = at THEN p ELSE i - 1
    BY DEF Preorder, Spliced
  <1>3. /\ \A x \in 1 .. n : S(x) \in 1 .. n + c /\ S(x) \notin New
        /\ \A x, y \in 1 .. n : x < y <=> S(x) < S(y)
        /\ \A i \in 1 .. n + c : i \in New \/ \E x \in 1 .. n : i = S(x)
        /\ \A x \in 1 .. n : (x >= 2 <=> S(x) >= 2)
    <2>1. Spread(n, at, c)
      BY SplicedIndex
    <2>2. \A x \in 1 .. n : S(x) \in 1 .. n + c /\ S(x) \notin New
      BY <2>1 DEF Spread
    <2>3. \A x, y \in 1 .. n : x < y <=> S(x) < S(y)
      BY <2>1 DEF Spread
    <2>4. \A i \in 1 .. n + c : i \in New \/ \E x \in 1 .. n : i = S(x)
      BY <2>1 DEF Spread
    <2>5. \A x \in 1 .. n : (x >= 2 <=> S(x) >= 2)
      BY <2>1 DEF Spread
    <2> HIDE DEF S, New
    <2> QED
      BY <2>2, <2>3, <2>4, <2>5
  <1>4. \A x \in at .. n : a[x] < at => a[x] <= p
    <2> SUFFICES ASSUME NEW x \in at .. n, a[x] < at PROVE a[x] <= p
      OBVIOUS
    <2>1. at \in 2 .. n /\ x \in 2 .. n /\ a[at] <= p
      BY <1>0 DEF Spliced
    <2>2. CASE x = at
      BY <2>1, <2>2
    <2>3. CASE x # at
      <3>1. at \in 2 .. x - 1
        BY <2>1, <2>3
      <3>2. a[x] <= a[at]
        BY <2>1, <3>1 DEF Preorder
      <3>3. a[x] \in Nat /\ a[at] \in Nat
        BY <2>1 DEF Preorder
      <3> QED
        BY <1>0, <2>1, <3>2, <3>3
    <2> QED
      BY <2>2, <2>3
  <1>5. \A x \in 1 .. n : S(x) = IF x < at THEN x ELSE x + c
    BY DEF Shift
  <1> HIDE DEF S
  <1>6. ASSUME NEW i \in 2 .. n + c PROVE 1 <= b[i] /\ b[i] < i
    <2>1. CASE i \in New
      BY <1>0, <1>2, <2>1
    <2>2. CASE i \notin New
      <3>1. PICK x \in 2 .. n : i = S(x)
        BY <1>0, <1>3, <2>2
      <3>2. b[i] = S(a[x]) /\ a[x] \in 1 .. n /\ x \in 1 .. n /\ a[x] < x
        BY <1>0, <1>1, <3>1
      <3> QED
        BY <1>3, <3>1, <3>2
    <2> QED
      BY <2>1, <2>2
  <1>7. ASSUME NEW i \in 2 .. n + c, NEW k \in 2 .. i - 1, b[i] < k
        PROVE  b[i] <= b[k]
    <2>1. CASE i \in New
      <3>1. i = at
        BY <1>0, <1>2, <1>7, <2>1
      <3> QED
        BY <3>1, <1>7 DEF Preorder, Spliced, Under
    <2>2. CASE i \notin New
      <3>1. PICK x \in 2 .. n : i = S(x)
        BY <1>0, <1>3, <2>2
      <3>2. CASE k \in New
        <4>1. x >= at /\ a[x] < at
          BY <1>0, <1>1, <1>5, <1>7, <3>1, <3>2
        <4>2. a[x] <= p /\ b[i] = a[x]
          BY <1>0, <1>1, <1>4, <1>5, <3>1, <4>1
        <4> QED
          BY <1>0, <1>1, <1>2, <3>2, <4>2
      <3>3. CASE k \notin New
        <4>1. PICK y \in 2 .. n : k = S(y)
          BY <1>0, <1>3, <3>3
        <4>2. y < x /\ a[x] < y
          BY <1>0, <1>1, <1>3, <1>7, <3>1, <4>1
        <4>3. a[x] <= a[y]
          BY <4>2 DEF Preorder
        <4> QED
          BY <1>0, <1>1, <1>5, <3>1, <4>1, <4>3
      <3> QED
        BY <3>2, <3>3
    <2> QED
      BY <2>1, <2>2
  <1>8. b \in [2 .. n + c -> Nat]
    BY DEF Spliced
  <1> QED
    BY <1>0, <1>6, <1>7, <1>8 DEF Preorder

(***************************************************************************)
(* A splice keeps the old subtrees; the chain comes under p and whatever p  *)
(* is under.                                                                *)
(***************************************************************************)
LEMMA SplicedUnder ==
    ASSUME NEW a, NEW n, Preorder(a, n), NEW b, NEW p, NEW at, NEW c, Spliced(a, n, b, p, at, c)
    PROVE  /\ \A x, y \in 1 .. n : Under(b, Shift(x, at, c), Shift(y, at, c)) <=> Under(a, x, y)
           /\ \A x \in 1 .. n, i \in at .. at + c - 1 :
                 /\ Under(b, Shift(x, at, c), i) <=> Under(a, x, p)
                 /\ ~Under(b, i, Shift(x, at, c))
           /\ \A i, k \in at .. at + c - 1 : Under(b, i, k) <=> i <= k
  <1> DEFINE S(x) == Shift(x, at, c)
             New == at .. at + c - 1
  <1>0. n \in Nat /\ c \in Nat /\ at \in Nat /\ p \in Nat /\ c > 0 /\ n > 0 /\ p < at /\ 1 <= p
    BY DEF Preorder, Spliced
  <1>1. \A x \in 2 .. n : b[S(x)] = S(a[x]) /\ a[x] \in 1 .. n /\ a[x] < x
    <2>1. \A x \in 2 .. n : a[x] \in 1 .. n /\ a[x] < x
      BY DEF Preorder
    <2>2. \A x \in 2 .. n : b[S(x)] = S(a[x])
      BY SplicedOld
    <2> QED
      BY <2>1, <2>2
  <1>2. \A i \in New : i \in 2 .. n + c /\ b[i] = IF i = at THEN p ELSE i - 1
    BY DEF Preorder, Spliced
  <1>3. /\ \A x \in 1 .. n : S(x) \in 1 .. n + c /\ S(x) \notin New
        /\ \A x, y \in 1 .. n : x < y <=> S(x) < S(y)
        /\ \A i \in 1 .. n + c : i \in New \/ \E x \in 1 .. n : i = S(x)
        /\ \A x \in 1 .. n : (x >= 2 <=> S(x) >= 2)
    <2>1. Spread(n, at, c)
      BY SplicedIndex
    <2>2. \A x \in 1 .. n : S(x) \in 1 .. n + c /\ S(x) \notin New
      BY <2>1 DEF Spread
    <2>3. \A x, y \in 1 .. n : x < y <=> S(x) < S(y)
      BY <2>1 DEF Spread
    <2>4. \A i \in 1 .. n + c : i \in New \/ \E x \in 1 .. n : i = S(x)
      BY <2>1 DEF Spread
    <2>5. \A x \in 1 .. n : (x >= 2 <=> S(x) >= 2)
      BY <2>1 DEF Spread
    <2> HIDE DEF S, New
    <2> QED
      BY <2>2, <2>3, <2>4, <2>5
  <1>4. \A x \in at .. n : a[x] < at => a[x] <= p
    <2> SUFFICES ASSUME NEW x \in at .. n, a[x] < at PROVE a[x] <= p
      OBVIOUS
    <2>1. at \in 2 .. n /\ x \in 2 .. n /\ a[at] <= p
      BY <1>0 DEF Spliced
    <2>2. CASE x = at
      BY <2>1, <2>2
    <2>3. CASE x # at
      <3>1. at \in 2 .. x - 1
        BY <2>1, <2>3
      <3>2. a[x] <= a[at]
        BY <2>1, <3>1 DEF Preorder
      <3>3. a[x] \in Nat /\ a[at] \in Nat
        BY <2>1 DEF Preorder
      <3> QED
        BY <1>0, <2>1, <3>2, <3>3
    <2> QED
      BY <2>2, <2>3
  <1>5. \A x \in 1 .. n : S(x) = IF x < at THEN x ELSE x + c
    BY DEF Shift
  <1>6. Under(a, p, at - 1) /\ (at <= n => a[at] <= p)
    BY DEF Spliced
  <1> HIDE DEF S
  <1>7. ASSUME NEW x \in 1 .. n, NEW y \in 1 .. n, Under(b, S(x), S(y)) PROVE Under(a, x, y)
    <2>1. x <= y
      <3>1. S(x) <= S(y) /\ S(x) \in Nat /\ S(y) \in Nat
        BY <1>0, <1>3, <1>7 DEF Under
      <3>2. ~(S(y) < S(x))
        BY <3>1
      <3>3. ~(y < x)
        BY <1>3, <3>2
      <3> QED
        BY <1>0, <3>3
    <2>2. ASSUME NEW k \in x + 1 .. y PROVE x <= a[k]
      <3>1. k \in 2 .. n /\ x < k /\ k <= y
        BY <1>0
      <3>2. a[k] \in 1 .. n /\ b[S(k)] = S(a[k])
        BY <1>1, <3>1
      <3>3. S(k) \in S(x) + 1 .. S(y)
        <4>1. S(x) < S(k) /\ ~(S(y) < S(k))
          BY <1>0, <1>3, <3>1
        <4>2. S(x) \in Nat /\ S(y) \in Nat /\ S(k) \in Nat
          BY <1>0, <1>3, <3>1
        <4> QED
          BY <4>1, <4>2
      <3>4. S(x) <= S(a[k])
        BY <1>7, <3>2, <3>3 DEF Under
      <3>5. S(x) \in Nat /\ S(a[k]) \in Nat
        BY <1>0, <1>3, <3>2
      <3>6. ~(a[k] < x)
        BY <1>3, <3>2, <3>4, <3>5
      <3> QED
        BY <1>0, <3>2, <3>6
    <2> QED
      BY <2>1, <2>2 DEF Under
  <1>8. ASSUME NEW x \in 1 .. n, NEW y \in 1 .. n, Under(a, x, y) PROVE Under(b, S(x), S(y))
    <2>1. S(x) <= S(y)
      BY <1>0, <1>3, <1>8 DEF Under
    <2>2. ASSUME NEW k \in S(x) + 1 .. S(y) PROVE S(x) <= b[k]
      <3>1. CASE k \in New
        <4>1. x < at /\ at <= y
          BY <1>0, <1>5, <2>2, <3>1
        <4>2. x <= p
          <5>1. at \in x + 1 .. y /\ at \in 2 .. n
            BY <1>0, <4>1
          <5>2. x <= a[at] /\ a[at] <= p /\ a[at] \in 1 .. n
            BY <1>1, <1>6, <1>8, <5>1 DEF Under
          <5> QED
            BY <1>0, <5>2
        <4> QED
          BY <1>0, <1>2, <1>5, <3>1, <4>1, <4>2
      <3>2. CASE k \notin New
        <4>1. PICK z \in 2 .. n : k = S(z)
          BY <1>0, <1>3, <2>2, <3>2
        <4>2. z \in x + 1 .. y
          BY <1>0, <1>3, <2>2, <4>1
        <4>3. x <= a[z]
          BY <1>8, <4>2 DEF Under
        <4> QED
          BY <1>0, <1>1, <1>5, <4>1, <4>3
      <3> QED
        BY <3>1, <3>2
    <2> QED
      BY <2>1, <2>2 DEF Under
  <1>9. ASSUME NEW x \in 1 .. n, NEW i \in New PROVE Under(b, S(x), i) <=> Under(a, x, p)
    <2>1. ASSUME Under(b, S(x), i) PROVE Under(a, x, p)
      <3>1. x < at /\ x <= i /\ S(x) = x
        BY <1>0, <1>5, <2>1 DEF Under
      <3>2. x <= b[at]
        BY <1>0, <2>1, <3>1 DEF Under
      <3>3. x <= p
        BY <1>0, <1>2, <3>2
      <3>4. ASSUME NEW k \in x + 1 .. p PROVE x <= a[k]
        <4>1. k \in 2 .. n /\ S(k) = k /\ b[k] = S(a[k]) /\ a[k] < k /\ a[k] \in 1 .. n
          <5>1. p <= n
            BY DEF Spliced
          <5>2. k \in 2 .. n /\ k < at
            BY <1>0, <5>1
          <5> QED
            BY <1>0, <1>1, <1>5, <5>2 DEF Preorder
        <4>2. x <= b[k]
          BY <1>0, <2>1, <3>1 DEF Under
        <4> QED
          BY <1>0, <1>5, <4>1, <4>2
      <3> QED
        BY <3>3, <3>4 DEF Under
    <2>2. ASSUME Under(a, x, p) PROVE Under(b, S(x), i)
      <3>1. x <= p /\ S(x) = x /\ x < at
        BY <1>0, <1>5, <2>2 DEF Under
      <3>2. ASSUME NEW k \in x + 1 .. i PROVE x <= b[k]
        <4>1. CASE k \in New
          BY <1>0, <1>2, <3>1, <4>1
        <4>2. CASE k \notin New
          <5>1. k \in 2 .. n /\ k < at /\ S(k) = k
            BY <1>0, <1>5, <4>2 DEF Spliced
          <5>2. x <= a[k]
            <6>1. CASE k <= p
              BY <2>2, <5>1, <6>1 DEF Under
            <6>2. CASE p < k
              <7>1. k \in p + 1 .. at - 1
                BY <1>0, <5>1, <6>2
              <7>2. p <= a[k]
                BY <1>6, <7>1 DEF Under
              <7> QED
                BY <1>0, <1>1, <3>1, <5>1, <7>2
            <6> QED
              BY <1>0, <5>1, <6>1, <6>2
          <5> QED
            BY <1>0, <1>1, <1>5, <5>1, <5>2
        <4> QED
          BY <4>1, <4>2
      <3> QED
        BY <1>0, <3>1, <3>2 DEF Under
    <2> QED
      BY <2>1, <2>2
  <1>10. ASSUME NEW x \in 1 .. n, NEW i \in New, Under(b, i, S(x)) PROVE FALSE
    <2>1. at <= x /\ i <= S(x)
      BY <1>0, <1>5, <1>10 DEF Under
    <2>2. at \in 2 .. n /\ a[at] <= p /\ S(at) = at + c /\ b[at + c] = S(a[at]) /\ a[at] \in 1 .. n
      BY <1>0, <1>1, <1>5, <1>6, <2>1
    <2>3. b[at + c] < at /\ b[at + c] \in Int
      BY <1>0, <1>5, <2>2
    <2>4. at + c \in i + 1 .. S(x)
      BY <1>0, <1>5, <2>1
    <2>5. i <= b[at + c]
      BY <1>10, <2>4 DEF Under
    <2> QED
      BY <1>0, <2>3, <2>5
  <1>11. \A i, k \in New : Under(b, i, k) <=> i <= k
    BY <1>0, <1>2 DEF Under
  <1> QED
    BY <1>7, <1>8, <1>9, <1>10, <1>11 DEF S

----------------------------------------------------------------------------
(* The array of a history as a walk *)

(* The parent of each place but the first in the array t.                    *)
Parents(t) == [i \in 2 .. Len(t) |-> FindIdx(t, t[i].pred)]

(***************************************************************************)
(* The array is a depth-first walk of a tree with distinct ids, rooted at   *)
(* the project's root.                                                      *)
(***************************************************************************)
Shaped(t) ==
    /\ Preorder(Parents(t), Len(t))
    /\ \A i, j \in 1 .. Len(t) : t[i].id = t[j].id => i = j
    /\ t[1].id = Root /\ t[1].pred = NoId

(* The invalid id is no script's.                                            *)
LEMMA NoIdType == NoId \notin Gid
  BY GidType DEF NoId

(* Authors are numbers.                                                      *)
LEMMA AuthorType ==
    ASSUME NEW id \in Gid
    PROVE  Author(id) \in Nat
  <1>1. User \subseteq Nat
    BY MemberAssumption DEF User, Author, Root
  <1> QED
    BY <1>1, GidType

(* In a shaped array an id and the place of its node determine each other.   *)
LEMMA Places ==
    ASSUME NEW t \in Seq(Node), Shaped(t)
    PROVE  /\ Len(t) \in Nat /\ Len(t) > 0 /\ DOMAIN t = 1 .. Len(t)
           /\ \A i \in 1 .. Len(t) : t[i].id \in Gid /\ t[i].id # NoId
           /\ \A i \in 1 .. Len(t) : FindIdx(t, t[i].id) = i
           /\ \A i \in 2 .. Len(t) : /\ Parents(t)[i] \in 1 .. Len(t) /\ Parents(t)[i] < i
                                     /\ t[Parents(t)[i]].id = t[i].pred
           /\ \A i \in 2 .. Len(t), k \in 1 .. Len(t) : t[k].id = t[i].pred <=> k = Parents(t)[i]
  <1>1. Len(t) \in Nat /\ Len(t) > 0 /\ DOMAIN t = 1 .. Len(t)
    BY NodesType DEF Shaped, Preorder
  <1>2. \A i \in 1 .. Len(t) : t[i].id \in Gid /\ t[i].id # NoId
    BY NodesType, NoIdType
  <1>3. ASSUME NEW i \in 1 .. Len(t) PROVE FindIdx(t, t[i].id) = i
    BY <1>1 DEF Shaped, FindIdx
  <1>4. ASSUME NEW i \in 2 .. Len(t)
        PROVE  Parents(t)[i] \in 1 .. Len(t) /\ Parents(t)[i] < i /\ t[Parents(t)[i]].id = t[i].pred
    <2>1. Parents(t)[i] \in Nat /\ 1 <= Parents(t)[i] /\ Parents(t)[i] < i
      BY DEF Shaped, Preorder
    <2>2. Parents(t)[i] = FindIdx(t, t[i].pred)
      BY DEF Parents
    <2>3. Parents(t)[i] \in 1 .. Len(t)
      BY <1>1, <2>1
    <2>4. FindIdx(t, t[i].pred) # 0
      BY <2>1, <2>2
    <2> QED
      BY <2>1, <2>2, <2>3, <2>4, FindIdxType
  <1>5. \A i \in 2 .. Len(t), k \in 1 .. Len(t) : t[k].id = t[i].pred <=> k = Parents(t)[i]
    BY <1>4 DEF Shaped
  <1> QED
    BY <1>1, <1>2, <1>3, <1>4, <1>5

(***************************************************************************)
(* The subtree that SubtreeEnd finds by predecessor ids is the subtree of   *)
(* the walk, and what follows it hangs from before its root.                *)
(***************************************************************************)
LEMMA SubtreeOf ==
    ASSUME NEW t \in Seq(Node), Shaped(t), NEW p \in 1 .. Len(t)
    PROVE  /\ SubtreeEnd(t, p) \in p + 1 .. Len(t) + 1
           /\ Under(Parents(t), p, SubtreeEnd(t, p) - 1)
           /\ SubtreeEnd(t, p) <= Len(t) => Parents(t)[SubtreeEnd(t, p)] < p
           /\ \A j \in 1 .. Len(t) : j \in Subtree(t, p) <=> Under(Parents(t), p, j)
           /\ Subtree(t, p) \subseteq 1 .. Len(t)
  <1> DEFINE a == Parents(t)
             n == Len(t)
             S == {j \in p + 1 .. Len(t) : \A k \in p .. j - 1 : t[k].id # t[j].pred}
             e == SubtreeEnd(t, p)
  <1>1. n \in Nat /\ \A i \in 2 .. n : a[i] \in 1 .. n /\ a[i] < i
    BY Places
  <1>2. \A j \in p + 1 .. n : (\A k \in p .. j - 1 : t[k].id # t[j].pred) <=> a[j] < p
    BY Places
  <1>3. S = {j \in p + 1 .. n : a[j] < p}
    BY <1>2
  <1>4. S \in SUBSET Nat
    BY <1>1
  <1>5. (S = {} => e = n + 1) /\ (S # {} => e \in S /\ \A j \in S : e <= j)
    BY <1>4, LeastIs DEF SubtreeEnd
  <1> HIDE DEF S, e, a
  <1>6. e \in p + 1 .. n + 1 /\ (e <= n => a[e] < p) /\ \A j \in p + 1 .. e - 1 : p <= a[j]
    <2>1. CASE S = {}
      BY <1>1, <1>3, <1>5, <2>1
    <2>2. CASE S # {}
      <3>1. e \in p + 1 .. n /\ a[e] < p
        BY <1>3, <1>5, <2>2
      <3>2. ASSUME NEW j \in p + 1 .. e - 1 PROVE p <= a[j]
        <4>1. j \in p + 1 .. n /\ j < e /\ j \in 2 .. n
          BY <1>1, <3>1
        <4>2. e \in Nat /\ j \in Nat
          BY <1>1, <3>1, <4>1
        <4>3. j \notin S
          BY <1>5, <2>2, <4>1, <4>2
        <4> QED
          BY <1>1, <1>3, <4>1, <4>3
      <3> QED
        BY <1>1, <3>1, <3>2
    <2> QED
      BY <2>1, <2>2
  <1>7. Under(a, p, e - 1)
    BY <1>1, <1>6 DEF Under
  <1>8. ASSUME NEW j \in 1 .. n PROVE j \in p .. e - 1 <=> Under(a, p, j)
    <2>1. ASSUME j \in p .. e - 1 PROVE Under(a, p, j)
      BY <1>1, <1>6, <2>1 DEF Under
    <2>2. ASSUME Under(a, p, j), j \notin p .. e - 1 PROVE FALSE
      <3>1. p <= j /\ e <= j
        BY <1>1, <1>6, <2>2 DEF Under
      <3>2. e \in p + 1 .. j
        BY <1>1, <1>6, <3>1
      <3>3. p <= a[e]
        BY <2>2, <3>2 DEF Under
      <3> QED
        BY <1>1, <1>6, <3>1, <3>3
    <2> QED
      BY <2>1, <2>2
  <1>9. Subtree(t, p) = p .. e - 1
    BY DEF Subtree, e
  <1> QED
    BY <1>1, <1>6, <1>7, <1>8, <1>9 DEF e, a

(* The branch heads of a node are its children.                              *)
LEMMA HeadsOf ==
    ASSUME NEW t \in Seq(Node), Shaped(t), NEW p \in 1 .. Len(t)
    PROVE  BranchHeads(t, p) = {j \in 2 .. Len(t) : Parents(t)[j] = p}
  <1>0. Len(t) \in Nat /\ Subtree(t, p) \subseteq 1 .. Len(t)
    BY Places, SubtreeOf
  <1>1. ASSUME NEW j \in 2 .. Len(t), Parents(t)[j] = p
        PROVE  j \in BranchHeads(t, p)
    <2>1. Under(Parents(t), p, j)
      BY <1>1, UnderFacts DEF Shaped
    <2>2. j \in Subtree(t, p)
      BY <1>0, <2>1, SubtreeOf
    <2> QED
      BY <1>1, <2>2, Places DEF BranchHeads
  <1>2. ASSUME NEW j \in BranchHeads(t, p)
        PROVE  j \in 2 .. Len(t) /\ Parents(t)[j] = p
    <2>1. j \in 1 .. Len(t) /\ t[j].pred = t[p].id
      BY <1>0, <1>2 DEF BranchHeads
    <2>2. j # 1
      BY <2>1, Places DEF Shaped
    <2>3. j \in 2 .. Len(t)
      BY <1>0, <2>1, <2>2
    <2> QED
      BY <2>1, <2>3, Places
  <1> QED
    BY <1>1, <1>2

(* The path to a node consists of the nodes it is under.                     *)
LEMMA PathOf ==
    ASSUME NEW t \in Seq(Node), Shaped(t), NEW i \in 1 .. Len(t)
    PROVE  Path(t, i) = {j \in 1 .. Len(t) : Under(Parents(t), j, i)}
  <1>0. Len(t) \in Nat
    BY Places
  <1>1. \A j \in 1 .. Len(t) : Under(Parents(t), j, i) => j <= i
    BY DEF Under
  <1>2. \A j \in 1 .. Len(t) : i \in Subtree(t, j) <=> Under(Parents(t), j, i)
    BY SubtreeOf
  <1> QED
    BY <1>0, <1>1, <1>2 DEF Path

----------------------------------------------------------------------------
(* The whole shape *)

(* Siblings come in order of priority, the smallest user id last.            *)
Ordered(t) ==
    \A i, j \in 2 .. Len(t) :
        Parents(t)[i] = Parents(t)[j] /\ i < j => Author(t[j].id) < Author(t[i].id)

(* Two different branches leave place p.                                     *)
Branching(t, p) == \E i, j \in 2 .. Len(t) : i # j /\ Parents(t)[i] = p /\ Parents(t)[j] = p

(* A node is marked as a branch point exactly when two branches leave it.    *)
Marked(t) == \A p \in 1 .. Len(t) : t[p].bp <=> Branching(t, p)

(* The nodes not rejected are those on the way to the last one.              *)
Trunk(t) == \A i \in 1 .. Len(t) : ~t[i].rej <=> Under(Parents(t), i, Len(t))

(* The shape of a history's array, by its parents.                           *)
Tree(t) == t \in Seq(Node) /\ Shaped(t) /\ Ordered(t) /\ Marked(t) /\ Trunk(t)

(* The way down from a node to one under it starts with one of its children. *)
LEMMA NextOnPath ==
    ASSUME NEW t \in Seq(Node), Shaped(t), NEW p \in 1 .. Len(t), NEW i \in 1 .. Len(t),
           Under(Parents(t), p, i), p # i
    PROVE  \E j \in 2 .. Len(t) : Parents(t)[j] = p /\ Under(Parents(t), j, i)
  <1> DEFINE a == Parents(t)
             S == {j \in p + 1 .. i : Under(a, j, i)}
  <1>1. Len(t) \in Nat /\ \A j \in 2 .. Len(t) : a[j] \in 1 .. Len(t) /\ a[j] < j
    BY Places
  <1>2. Preorder(a, Len(t))
    BY DEF Shaped
  <1>0. Under(a, p, i)
    OBVIOUS
  <1> HIDE DEF a
  <1>3. p < i /\ i \in S /\ S \in SUBSET Nat
    BY <1>0, <1>1, <1>2, UnderFacts DEF Under
  <1>4. PICK j \in S : \A k \in S : j <= k
    BY <1>3, LeastExists
  <1>5. j \in 2 .. Len(t) /\ j \in 1 .. Len(t) /\ Under(a, j, i) /\ j \in p + 1 .. i
    BY <1>1, <1>4
  <1>6. p <= a[j]
    BY <1>0, <1>5 DEF Under
  <1>7. Under(a, a[j], i) /\ a[j] \in 1 .. Len(t)
    BY <1>1, <1>2, <1>5, UnderFacts
  <1>8. a[j] \notin S
    BY <1>1, <1>4, <1>5
  <1>9. a[j] = p
    BY <1>1, <1>5, <1>6, <1>7, <1>8
  <1> QED
    BY <1>5, <1>9 DEF a

(***************************************************************************)
(* The branch head at which the search for a place is decided, and those    *)
(* it passes.                                                               *)
(***************************************************************************)
LEMMA DecidingHeadOf ==
    ASSUME NEW t \in Seq(Node), Shaped(t), NEW p \in 1 .. Len(t), NEW user
    PROVE  LET h == DecidingHead(t, p, user)
           IN  /\ h = 0 => \A j \in BranchHeads(t, p) : ~HigherPriority(t[j], user) /\ t[j].rej
               /\ h # 0 => /\ h \in BranchHeads(t, p)
                           /\ HigherPriority(t[h], user) \/ ~t[h].rej
                           /\ \A j \in BranchHeads(t, p) :
                                 j < h => ~HigherPriority(t[j], user) /\ t[j].rej
  <1> DEFINE S == {h \in BranchHeads(t, p) : HigherPriority(t[h], user) \/ ~t[h].rej}
  <1>1. BranchHeads(t, p) \subseteq 2 .. Len(t) /\ Len(t) \in Nat
    BY HeadsOf, Places
  <1>2. S \in SUBSET Nat /\ 0 \notin S
    BY <1>1
  <1>3. (S = {} => Least(S, 0) = 0) /\ (S # {} => Least(S, 0) \in S /\ \A j \in S : Least(S, 0) <= j)
    BY <1>2, LeastIs
  <1>4. DecidingHead(t, p, user) = Least(S, 0)
    BY DEF DecidingHead
  <1>5. \A j \in BranchHeads(t, p) : j \in S <=> HigherPriority(t[j], user) \/ ~t[j].rej
    OBVIOUS
  <1>6. S \subseteq BranchHeads(t, p)
    OBVIOUS
  <1> HIDE DEF S
  <1>7. CASE S = {}
    BY <1>2, <1>3, <1>4, <1>5, <1>7
  <1>8. CASE S # {}
    <2>1. Least(S, 0) \in BranchHeads(t, p) /\ Least(S, 0) # 0
      BY <1>2, <1>3, <1>6, <1>8
    <2>2. \A j \in BranchHeads(t, p) : j < Least(S, 0) => j \notin S
      BY <1>1, <1>3, <1>8, <2>1
    <2> QED
      BY <1>3, <1>4, <1>5, <1>8, <2>1, <2>2
  <1> QED
    BY <1>7, <1>8

(* Where a script by user goes among the branches that leave place p.        *)
Placed(t, p, user) ==
    LET a  == Parents(t)
        n  == Len(t)
        at == InsertionIdx(t, p, user)
        h  == DecidingHead(t, p, user)
    IN  /\ at \in p + 1 .. n + 1 /\ Under(a, p, at - 1) /\ (at <= n => a[at] <= p)
        /\ \A j \in 2 .. n : a[j] = p =>
              /\ j < at => user <= Author(t[j].id)
              /\ at <= j => Author(t[j].id) < user
        /\ Wins(t, p, user) => /\ at = n + 1 /\ SubtreeEnd(t, p) = n + 1
                               /\ h \in p + 1 .. n /\ a[h] = p /\ Under(a, h, n)
        /\ at = n + 1 /\ ~Wins(t, p, user) => p = n

(***************************************************************************)
(* The place found for a script is in the subtree of its predecessor or     *)
(* just after it, between the siblings it loses to and those it beats; it   *)
(* is the end of the array when the script wins or extends the trunk, and   *)
(* only then.                                                               *)
(***************************************************************************)
LEMMA InsertionPlace ==
    ASSUME NEW t, Tree(t), NEW p \in 1 .. Len(t), NEW user \in Nat
    PROVE  Placed(t, p, user)
  <1> DEFINE a  == Parents(t)
             n  == Len(t)
             at == InsertionIdx(t, p, user)
             h  == DecidingHead(t, p, user)
             e  == SubtreeEnd(t, p)
  <1>0. t \in Seq(Node) /\ Shaped(t) /\ Ordered(t) /\ Trunk(t) /\ Preorder(a, n)
    BY DEF Tree, Shaped
  <1>1. /\ n \in Nat /\ \A i \in 2 .. n : a[i] \in 1 .. n /\ a[i] < i
        /\ \A i \in 1 .. n : t[i].id \in Gid /\ Author(t[i].id) \in Nat
    BY <1>0, Places, AuthorType
  <1>2. BranchHeads(t, p) = {j \in 2 .. n : a[j] = p}
    BY <1>0, HeadsOf
  <1>3. e \in p + 1 .. n + 1 /\ Under(a, p, e - 1) /\ (e <= n => a[e] < p)
    BY <1>0, SubtreeOf
  <1>4. at = IF h # 0 /\ HigherPriority(t[h], user) THEN h ELSE e
    BY DEF InsertionIdx
  <1>5. Wins(t, p, user) <=> h # 0 /\ ~HigherPriority(t[h], user)
    BY DEF Wins
  <1>6. /\ h = 0 => \A j \in 2 .. n : a[j] = p => ~HigherPriority(t[j], user) /\ t[j].rej
        /\ h # 0 => /\ h \in 2 .. n /\ a[h] = p
                    /\ HigherPriority(t[h], user) \/ ~t[h].rej
                    /\ \A j \in 2 .. n : a[j] = p /\ j < h => ~HigherPriority(t[j], user) /\ t[j].rej
    BY <1>0, <1>2, DecidingHeadOf
  <1>7. \A j \in 1 .. n : HigherPriority(t[j], user) <=> Author(t[j].id) < user
    BY DEF HigherPriority
  <1>8. \A j \in 1 .. n : ~t[j].rej <=> Under(a, j, n)
    BY <1>0 DEF Trunk
  <1>9. \A j \in 2 .. n : a[j] = p => Under(a, p, j) /\ j <= e - 1
    <2> SUFFICES ASSUME NEW j \in 2 .. n, a[j] = p PROVE Under(a, p, j) /\ j <= e - 1
      OBVIOUS
    <2>1. Under(a, p, j)
      BY <1>0, UnderFacts
    <2>2. j \in Subtree(t, p)
      BY <1>0, <1>1, <2>1, SubtreeOf
    <2> QED
      BY <2>1, <2>2 DEF Subtree
  <1>10. \A i, j \in 2 .. n : a[i] = p /\ a[j] = p /\ i < j => Author(t[j].id) < Author(t[i].id)
    BY <1>0 DEF Ordered
  <1>11. n \in 1 .. n /\ p \in Nat
    BY <1>1
  <1> HIDE DEF a, h, at, e
  <1>12. CASE h # 0 /\ HigherPriority(t[h], user)
    <2>1. at = h /\ h \in 2 .. n /\ a[h] = p /\ h \in p + 1 .. n
      BY <1>1, <1>4, <1>6, <1>12
    <2>2. Under(a, p, at - 1)
      BY <1>1, <1>9, <2>1 DEF Under
    <2>3. ASSUME NEW j \in 2 .. n, a[j] = p
          PROVE  (j < at => user <= Author(t[j].id)) /\ (at <= j => Author(t[j].id) < user)
      BY <1>1, <1>6, <1>7, <1>10, <1>12, <2>1, <2>3
    <2> QED
      BY <1>1, <1>5, <1>12, <2>1, <2>2, <2>3 DEF a, h, at, e, Placed
  <1>13. CASE ~(h # 0 /\ HigherPriority(t[h], user))
    <2>1. at = e
      BY <1>4, <1>13
    <2>2. ASSUME h # 0
          PROVE  /\ h \in 2 .. n /\ a[h] = p /\ Under(a, h, n) /\ e = n + 1
                 /\ \A j \in 2 .. n : a[j] = p => j <= h
      <3>1. h \in 2 .. n /\ a[h] = p /\ Under(a, h, n)
        BY <1>6, <1>8, <1>13, <2>2
      <3>2. e = n + 1
        <4>1. Under(a, p, n)
          BY <1>0, <1>9, <1>11, <3>1, UnderFacts
        <4>2. n \in Subtree(t, p)
          BY <1>0, <1>11, <4>1, SubtreeOf DEF a
        <4>3. n <= e - 1
          BY <1>1, <1>3, <4>2 DEF Subtree, e
        <4>4. e \in Int /\ e <= n + 1 /\ n \in Int
          BY <1>1, <1>3, <1>11
        <4> HIDE DEF n
        <4> QED
          BY <4>3, <4>4
      <3>3. \A j \in 2 .. n : a[j] = p => j <= h
        BY <1>1, <3>1 DEF Under
      <3> QED
        BY <3>1, <3>2, <3>3
    <2>3. ASSUME NEW j \in 2 .. n, a[j] = p
          PROVE  user <= Author(t[j].id) /\ j < at
      <3>1. j < at
        BY <1>1, <1>3, <1>9, <2>1, <2>3
      <3>2. ~HigherPriority(t[j], user)
        <4>1. CASE h = 0
          BY <1>6, <2>3, <4>1
        <4>2. CASE h # 0
          BY <1>1, <1>6, <1>13, <2>2, <2>3, <4>2
        <4> QED
          BY <4>1, <4>2
      <3> QED
        BY <1>1, <1>7, <3>1, <3>2
    <2>4. Wins(t, p, user) => /\ at = n + 1 /\ e = n + 1
                              /\ h \in p + 1 .. n /\ a[h] = p /\ Under(a, h, n)
      BY <1>1, <1>5, <2>1, <2>2
    <2>5. ASSUME at = n + 1, ~Wins(t, p, user), p # n PROVE FALSE
      <3>1. h = 0
        BY <1>5, <1>13, <2>5
      <3>2. Under(a, p, n)
        BY <1>1, <1>3, <2>1, <2>5
      <3>3. PICK j \in 2 .. n : a[j] = p /\ Under(a, j, n)
        BY <1>0, <1>11, <2>5, <3>2, NextOnPath DEF a
      <3> QED
        BY <1>6, <1>8, <3>1, <3>3
    <2>6. at \in p + 1 .. n + 1 /\ Under(a, p, at - 1) /\ (at <= n => a[at] <= p)
      BY <1>1, <1>3, <1>11, <2>1
    <2> QED
      BY <1>1, <2>3, <2>4, <2>5, <2>6 DEF a, h, at, e, Placed
  <1> QED
    BY <1>12, <1>13

----------------------------------------------------------------------------
(* Inserting a chain grows the array *)

(* Inserting a sequence of nodes in an array, by places.                     *)
LEMMA SplicedArray ==
    ASSUME NEW t \in Seq(Node), NEW at \in 1 .. Len(t) + 1, NEW v \in Seq(Node)
    PROVE  LET s == SubSeq(t, 1, at - 1) \o v \o SubSeq(t, at, Len(t))
           IN  /\ s \in Seq(Node) /\ Len(s) = Len(t) + Len(v)
               /\ \A i \in 1 .. Len(t) : s[Shift(i, at, Len(v))] = t[i]
               /\ \A i \in at .. at + Len(v) - 1 : s[i] = v[i - at + 1]
  <1> DEFINE u == SubSeq(t, 1, at - 1)
             w == SubSeq(t, at, Len(t))
             x == u \o v
             s == x \o w
  <1>1. Len(t) \in Nat /\ Len(v) \in Nat /\ \A i \in 1 .. Len(t) : t[i] \in Node
    BY ArrayType
  <1>2. u \in Seq(Node) /\ Len(u) = at - 1 /\ \A i \in 1 .. at - 1 : u[i] = t[i]
    <2>1. \A i \in 1 .. at - 1 : t[i] \in Node
      BY <1>1
    <2> QED
      BY <1>1, <2>1, SubSeqProperties
  <1>3. /\ w \in Seq(Node) /\ Len(w) = Len(t) - at + 1
        /\ \A i \in 1 .. Len(t) - at + 1 : w[i] = t[at + i - 1]
    <2>1. \A i \in at .. Len(t) : t[i] \in Node
      BY <1>1
    <2> QED
      BY <1>1, <2>1, SubSeqProperties
  <1> HIDE DEF u, w
  <1>4. /\ x \in Seq(Node) /\ Len(x) = Len(u) + Len(v)
        /\ \A i \in 1 .. Len(u) + Len(v) : x[i] = IF i <= Len(u) THEN u[i] ELSE v[i - Len(u)]
    BY <1>2, ConcatProperties
  <1> HIDE DEF x
  <1>5. /\ s \in Seq(Node) /\ Len(s) = Len(x) + Len(w)
        /\ \A i \in 1 .. Len(x) + Len(w) : s[i] = IF i <= Len(x) THEN x[i] ELSE w[i - Len(x)]
    <2>1. x \in Seq(Node) /\ w \in Seq(Node)
      BY <1>3, <1>4
    <2> QED
      BY <2>1, ConcatProperties
  <1> HIDE DEF s
  <1>6. Len(s) = Len(t) + Len(v) /\ at \in Nat /\ at >= 1 /\ at <= Len(t) + 1
    BY <1>1, <1>2, <1>3, <1>4, <1>5
  <1>7. ASSUME NEW i \in 1 .. Len(t) PROVE s[Shift(i, at, Len(v))] = t[i]
    <2>1. CASE i < at
      <3>1. i \in 1 .. Len(x) + Len(w) /\ i <= Len(x) /\ i <= Len(u) /\ i \in 1 .. Len(u) + Len(v)
            /\ i \in 1 .. at - 1
        BY <1>1, <1>2, <1>3, <1>4, <1>6, <2>1
      <3>2. s[i] = t[i]
        BY <1>2, <1>4, <1>5, <3>1
      <3> QED
        BY <2>1, <3>2 DEF Shift
    <2>2. CASE ~(i < at)
      <3> DEFINE k == i + Len(v)
                 j == i - at + 1
      <3>1. k \in 1 .. Len(x) + Len(w) /\ ~(k <= Len(x)) /\ k - Len(x) = j
        BY <1>1, <1>2, <1>3, <1>4, <1>6, <2>2
      <3>2. j \in 1 .. Len(t) - at + 1 /\ at + j - 1 = i
        BY <1>1, <1>6, <2>2
      <3> HIDE DEF k, j
      <3>3. s[k] = w[j]
        BY <1>5, <3>1
      <3>4. w[j] = t[i]
        BY <1>3, <3>2
      <3> QED
        BY <2>2, <3>3, <3>4 DEF Shift, k
    <2> QED
      BY <2>1, <2>2
  <1>8. ASSUME NEW i \in at .. at + Len(v) - 1 PROVE s[i] = v[i - at + 1]
    <2>0. /\ Len(u) = at - 1 /\ Len(w) = Len(t) - at + 1 /\ Len(x) = Len(u) + Len(v)
          /\ at \in Nat /\ at >= 1 /\ at <= Len(t) + 1 /\ Len(t) \in Nat /\ Len(v) \in Nat
      BY <1>1, <1>2, <1>3, <1>4, <1>6
    <2>1. i \in 1 .. Len(x) + Len(w) /\ i <= Len(x) /\ ~(i <= Len(u)) /\ i \in 1 .. Len(u) + Len(v)
          /\ i - Len(u) = i - at + 1
      BY <2>0
    <2> QED
      BY <1>4, <1>5, <2>1
  <1> QED
    BY <1>5, <1>6, <1>7, <1>8 DEF s, x, u, w

(* PrepareBranch changes only the branch point and reject bits.              *)
LEMMA PreparedNodes ==
    ASSUME NEW t \in Seq(Node), NEW p, NEW user, NEW i \in 1 .. Len(t)
    PROVE  LET n == PrepareBranch(t, p, user)[i]
           IN  /\ n.id = t[i].id /\ n.pred = t[i].pred /\ n.acks = t[i].acks
               /\ n.mis = t[i].mis /\ n.exe = t[i].exe
               /\ n.bp <=> t[i].bp \/ (i = p /\ BranchHeads(t, p) # {})
               /\ n.rej <=> \/ t[i].rej
                            \/ /\ Wins(t, p, user)
                               /\ i \in DecidingHead(t, p, user) .. SubtreeEnd(t, p) - 1
  <1>1. t[i] \in Node
    BY ArrayType
  <1> DEFINE B == t[i].bp \/ (i = p /\ BranchHeads(t, p) # {})
             R == \/ t[i].rej
                  \/ /\ Wins(t, p, user)
                     /\ i \in DecidingHead(t, p, user) .. SubtreeEnd(t, p) - 1
  <1>2. PrepareBranch(t, p, user)[i] = [t[i] EXCEPT !.bp = B, !.rej = R]
    BY DEF PrepareBranch
  <1> HIDE DEF B, R
  <1>3. LET n == [t[i] EXCEPT !.bp = B, !.rej = R]
        IN  /\ n.id = t[i].id /\ n.pred = t[i].pred /\ n.acks = t[i].acks
            /\ n.mis = t[i].mis /\ n.exe = t[i].exe /\ n.bp = B /\ n.rej = R
    BY <1>1 DEF Node
  <1> QED
    BY <1>2, <1>3 DEF B, R

(***************************************************************************)
(* chain may be hung from the script pred of t: its ids are new and         *)
(* distinct, each node follows the one before it, and no sibling is by the  *)
(* author of its first script.                                              *)
(***************************************************************************)
Hangs(t, pred, chain) ==
    /\ chain \in Seq(Node) /\ Len(chain) > 0
    /\ chain[1].pred = pred /\ pred \in Ids(t)
    /\ \A k \in 2 .. Len(chain) : chain[k].pred = chain[k - 1].id
    /\ \A k \in 1 .. Len(chain) : chain[k].id \notin Ids(t) /\ ~chain[k].rej /\ ~chain[k].bp
    /\ \A k, l \in 1 .. Len(chain) : chain[k].id = chain[l].id => k = l
    /\ \A j \in 2 .. Len(t) : t[j].pred = pred => Author(t[j].id) # Author(chain[1].id)

(***************************************************************************)
(* t2 is t with chain inserted at the place at, below p, as InsertChain     *)
(* does it, node by node.                                                   *)
(***************************************************************************)
Grown(t, p, at, chain, t2) ==
    LET c == Len(chain)
        user == Author(chain[1].id)
        S(x) == Shift(x, at, c)
    IN  /\ t2 \in Seq(Node) /\ Len(t2) = Len(t) + c
        /\ p \in 1 .. Len(t) /\ at \in p + 1 .. Len(t) + 1
        /\ at = InsertionIdx(t, p, user)
        /\ \A i \in 1 .. Len(t) :
              LET n == t2[S(i)]
              IN  /\ n.id = t[i].id /\ n.pred = t[i].pred /\ n.acks = t[i].acks
                  /\ n.mis = t[i].mis /\ n.exe = t[i].exe
                  /\ n.bp <=> t[i].bp \/ (i = p /\ BranchHeads(t, p) # {})
                  /\ n.rej <=> \/ t[i].rej
                               \/ /\ Wins(t, p, user)
                                  /\ i \in DecidingHead(t, p, user) .. SubtreeEnd(t, p) - 1
        /\ \A i \in at .. at + c - 1 :
              LET n == t2[i]
                  k == i - at + 1
              IN  /\ n.id = chain[k].id /\ n.pred = chain[k].pred /\ n.acks = chain[k].acks
                  /\ n.mis = chain[k].mis /\ n.exe = chain[k].exe /\ n.bp = chain[k].bp
                  /\ n.rej <=> at # Len(t) + 1

(* InsertChain grows the array.                                              *)
LEMMA InsertChainGrows ==
    ASSUME NEW h \in History, Tree(h.nodes), NEW pred, NEW chain, Hangs(h.nodes, pred, chain)
    PROVE  LET t  == h.nodes
               p  == FindIdx(t, pred)
               user == Author(chain[1].id)
               at == InsertionIdx(t, p, user)
               h2 == InsertChain(h, pred, chain)
           IN  /\ Grown(t, p, at, chain, h2.nodes)
               /\ t[p].id = pred
               /\ h2.fis = IF at = Len(t) + 1 /\ Wins(t, p, user)
                             THEN RepairedFis(h2.nodes, h.fis) ELSE h.fis
  <1> DEFINE t    == h.nodes
             p    == FindIdx(t, pred)
             user == Author(chain[1].id)
             at   == InsertionIdx(t, p, user)
             t1   == PrepareBranch(t, p, user)
             atEnd == at = Len(t) + 1
             new  == [i \in 1 .. Len(chain) |-> [chain[i] EXCEPT !.rej = @ \/ ~atEnd]]
             t2   == SubSeq(t1, 1, at - 1) \o new \o SubSeq(t1, at, Len(t))
             fis2 == IF atEnd /\ Wins(t, p, user) THEN RepairedFis(t2, h.fis) ELSE h.fis
  <1>1. t \in Seq(Node) /\ Len(t) \in Nat
    BY ArrayType DEF History
  <1>2. p \in 1 .. Len(t) /\ t[p].id = pred
    BY <1>1, FindIdxType DEF Hangs
  <1>3. chain \in Seq(Node) /\ Len(chain) \in Nat /\ \A i \in 1 .. Len(chain) : chain[i] \in Node
    BY ArrayType DEF Hangs
  <1>4. user \in Nat
    <2>1. chain[1].id \in Gid
      BY <1>3 DEF Hangs, Node
    <2> QED
      BY <2>1, AuthorType
  <1>5. at \in p + 1 .. Len(t) + 1 /\ at \in 1 .. Len(t) + 1
    <2>1. Placed(t, p, user)
      BY <1>2, <1>4, InsertionPlace
    <2>2. at \in p + 1 .. Len(t) + 1
      BY <2>1 DEF Placed
    <2> QED
      BY <1>1, <1>2, <2>2
  <1>6. t1 \in Seq(Node) /\ Len(t1) = Len(t)
    BY <1>1, PrepareBranchType DEF SameScripts
  <1>7. /\ new \in Seq(Node) /\ Len(new) = Len(chain)
        /\ \A i \in 1 .. Len(chain) : new[i] = [chain[i] EXCEPT !.rej = chain[i].rej \/ ~atEnd]
    <2>1. \A i \in 1 .. Len(chain) : [chain[i] EXCEPT !.rej = @ \/ ~atEnd] \in Node
      BY <1>3, SetRejType
    <2>2. new \in [1 .. Len(chain) -> Node]
      BY <2>1
    <2>3. \A i \in 1 .. Len(chain) : new[i] = [chain[i] EXCEPT !.rej = chain[i].rej \/ ~atEnd]
      OBVIOUS
    <2> HIDE DEF new
    <2> QED
      BY <1>3, <2>2, <2>3, FunctionIsArray
  <1>8. \A i \in 1 .. Len(chain) :
            /\ new[i].id = chain[i].id /\ new[i].pred = chain[i].pred /\ new[i].acks = chain[i].acks
            /\ new[i].mis = chain[i].mis /\ new[i].exe = chain[i].exe /\ new[i].bp = chain[i].bp
            /\ new[i].rej <=> ~atEnd
    <2>1. \A n \in Node : \A r : /\ [n EXCEPT !.rej = r].id = n.id /\ [n EXCEPT !.rej = r].pred = n.pred
                                 /\ [n EXCEPT !.rej = r].acks = n.acks /\ [n EXCEPT !.rej = r].mis = n.mis
                                 /\ [n EXCEPT !.rej = r].exe = n.exe /\ [n EXCEPT !.rej = r].bp = n.bp
                                 /\ [n EXCEPT !.rej = r].rej = r
      BY DEF Node
    <2>2. ASSUME NEW i \in 1 .. Len(chain)
          PROVE  /\ new[i].id = chain[i].id /\ new[i].pred = chain[i].pred /\ new[i].acks = chain[i].acks
                 /\ new[i].mis = chain[i].mis /\ new[i].exe = chain[i].exe /\ new[i].bp = chain[i].bp
                 /\ new[i].rej = (chain[i].rej \/ ~atEnd)
      <3> DEFINE R == chain[i].rej \/ ~atEnd
      <3>1. chain[i] \in Node /\ new[i] = [chain[i] EXCEPT !.rej = R]
        BY <1>3, <1>7
      <3> HIDE DEF R, new
      <3>2. new[i].rej = R
        BY <2>1, <3>1
      <3> QED
        BY <2>1, <3>1, <3>2 DEF R
    <2>3. \A i \in 1 .. Len(chain) : ~chain[i].rej
      BY DEF Hangs
    <2> HIDE DEF new, atEnd
    <2> QED
      BY <2>2, <2>3
  <1>9. \A i \in 1 .. Len(t) :
              /\ t1[i].id = t[i].id /\ t1[i].pred = t[i].pred /\ t1[i].acks = t[i].acks
              /\ t1[i].mis = t[i].mis /\ t1[i].exe = t[i].exe
              /\ t1[i].bp <=> t[i].bp \/ (i = p /\ BranchHeads(t, p) # {})
              /\ t1[i].rej <=> \/ t[i].rej
                               \/ /\ Wins(t, p, user)
                                  /\ i \in DecidingHead(t, p, user) .. SubtreeEnd(t, p) - 1
    BY <1>1, PreparedNodes
  <1>10. InsertChain(h, pred, chain) = [nodes |-> t2, fis |-> fis2]
    BY DEF InsertChain
  <1> HIDE DEF t1, new, at, p
  <1>11. /\ t2 \in Seq(Node) /\ Len(t2) = Len(t) + Len(chain)
         /\ \A i \in 1 .. Len(t) : t2[Shift(i, at, Len(chain))] = t1[i]
         /\ \A i \in at .. at + Len(chain) - 1 : t2[i] = new[i - at + 1]
    <2> DEFINE s == SubSeq(t1, 1, at - 1) \o new \o SubSeq(t1, at, Len(t1))
    <2>1. at \in 1 .. Len(t1) + 1 /\ t1 \in Seq(Node) /\ new \in Seq(Node)
      BY <1>5, <1>6, <1>7
    <2>2. /\ s \in Seq(Node) /\ Len(s) = Len(t1) + Len(new)
          /\ \A i \in 1 .. Len(t1) : s[Shift(i, at, Len(new))] = t1[i]
          /\ \A i \in at .. at + Len(new) - 1 : s[i] = new[i - at + 1]
      BY <2>1, SplicedArray
    <2>3. s = t2
      BY <1>6
    <2> HIDE DEF s, t2
    <2> QED
      BY <1>6, <1>7, <2>2, <2>3
  <1>12. \A i \in at .. at + Len(chain) - 1 : i - at + 1 \in 1 .. Len(chain)
    BY <1>1, <1>3, <1>5
  <1> HIDE DEF t2
  <1>13. Grown(t, p, at, chain, t2)
    <2>1. at = InsertionIdx(t, p, user)
      BY DEF at
    <2>2. \A i \in at .. at + Len(chain) - 1 :
              LET n == t2[i]
                  k == i - at + 1
              IN  /\ n.id = chain[k].id /\ n.pred = chain[k].pred /\ n.acks = chain[k].acks
                  /\ n.mis = chain[k].mis /\ n.exe = chain[k].exe /\ n.bp = chain[k].bp
                  /\ n.rej <=> at # Len(t) + 1
      <3> SUFFICES ASSUME NEW i \in at .. at + Len(chain) - 1
                   PROVE  LET n == t2[i]
                              k == i - at + 1
                          IN  /\ n.id = chain[k].id /\ n.pred = chain[k].pred
                              /\ n.acks = chain[k].acks /\ n.mis = chain[k].mis
                              /\ n.exe = chain[k].exe /\ n.bp = chain[k].bp
                              /\ n.rej <=> at # Len(t) + 1
        OBVIOUS
      <3> DEFINE k == i - at + 1
      <3>1. k \in 1 .. Len(chain) /\ t2[i] = new[k]
        BY <1>11, <1>12
      <3> HIDE DEF k, t
      <3> QED
        BY <1>8, <3>1 DEF k
    <2>3. \A i \in 1 .. Len(t) :
              LET n == t2[Shift(i, at, Len(chain))]
              IN  /\ n.id = t[i].id /\ n.pred = t[i].pred /\ n.acks = t[i].acks
                  /\ n.mis = t[i].mis /\ n.exe = t[i].exe
                  /\ n.bp <=> t[i].bp \/ (i = p /\ BranchHeads(t, p) # {})
                  /\ n.rej <=> \/ t[i].rej
                               \/ /\ Wins(t, p, user)
                                  /\ i \in DecidingHead(t, p, user) .. SubtreeEnd(t, p) - 1
      BY <1>9, <1>11
    <2> HIDE DEF t, user
    <2> QED
      BY <1>2, <1>5, <1>11, <2>1, <2>2, <2>3 DEF Grown, t, user
  <1> QED
    BY <1>2, <1>10, <1>13 DEF p, at

(* A grown array is spliced, and shaped again.                               *)
LEMMA GrownParents ==
    ASSUME NEW t, Tree(t), NEW pred, NEW chain, Hangs(t, pred, chain),
           NEW p, NEW at, NEW t2, Grown(t, p, at, chain, t2), t[p].id = pred
    PROVE  /\ Spliced(Parents(t), Len(t), Parents(t2), p, at, Len(chain))
           /\ Shaped(t2)
  <1> DEFINE a == Parents(t)
             n == Len(t)
             c == Len(chain)
             b == Parents(t2)
             S(x) == Shift(x, at, c)
             New == at .. at + c - 1
             user == Author(chain[1].id)
  <1>0. t \in Seq(Node) /\ Shaped(t) /\ Preorder(a, n)
    BY DEF Tree, Shaped
  <1>1. /\ n \in Nat /\ n > 0 /\ \A i \in 2 .. n : a[i] \in 1 .. n /\ a[i] < i /\ t[a[i]].id = t[i].pred
        /\ \A i \in 1 .. n : t[i].id \in Ids(t)
    BY <1>0, Places DEF Ids
  <1>2. p \in 1 .. n /\ at \in p + 1 .. n + 1 /\ at \in 2 .. n + 1 /\ at \in Nat /\ p < at
    BY <1>1 DEF Grown
  <1>3. c \in Nat \ {0} /\ \A k \in 1 .. c : chain[k] \in Node
    BY ArrayType DEF Hangs
  <1>4. t2 \in Seq(Node) /\ Len(t2) = n + c
    BY DEF Grown
  <1>5. /\ \A x \in 1 .. n : S(x) \in 1 .. n + c /\ S(x) \notin New
        /\ \A x, y \in 1 .. n : x < y <=> S(x) < S(y)
        /\ \A i \in 1 .. n + c : i \in New \/ \E x \in 1 .. n : i = S(x)
        /\ \A x \in 1 .. n : (x >= 2 <=> S(x) >= 2)
        /\ \A x, y \in 1 .. n : S(x) = S(y) => x = y
    <2>1. Spread(n, at, c)
      BY <1>1, <1>2, <1>3, ShiftIndex
    <2> QED
      BY <2>1, Zenon DEF Spread
  <1>6. \A x \in 1 .. n : S(x) = IF x < at THEN x ELSE x + c
    BY DEF Shift
  <1>7. \A x \in 1 .. n : t2[S(x)].id = t[x].id /\ t2[S(x)].pred = t[x].pred
    BY DEF Grown
  <1>8. \A i \in New : i \in 2 .. n + c /\ i - at + 1 \in 1 .. c
    BY <1>1, <1>2, <1>3
  <1>9. \A i \in New : t2[i].id = chain[i - at + 1].id /\ t2[i].pred = chain[i - at + 1].pred
    BY DEF Grown
  <1>10. /\ chain[1].pred = pred /\ \A k \in 2 .. c : chain[k].pred = chain[k - 1].id
         /\ \A k \in 1 .. c : chain[k].id \notin Ids(t)
         /\ \A k, l \in 1 .. c : chain[k].id = chain[l].id => k = l
    BY DEF Hangs
  <1>11. user \in Nat
    <2>1. chain[1] \in Node
      BY <1>3
    <2>2. chain[1].id \in Gid
      BY <2>1 DEF Node
    <2> QED
      BY <2>2, AuthorType
  <1>12. Under(a, p, at - 1) /\ (at <= n => a[at] <= p)
    <2>1. at = InsertionIdx(t, p, user)
      BY DEF Grown
    <2>2. Placed(t, p, user)
      BY <1>2, <1>11, InsertionPlace
    <2> QED
      BY <2>1, <2>2 DEF Placed
  <1> HIDE DEF S, a
  <1>13. ASSUME NEW i \in 1 .. n + c, NEW j \in 1 .. n + c, t2[i].id = t2[j].id
         PROVE  i = j
    <2>1. CASE i \in New /\ j \in New
      <3> DEFINE k == i - at + 1
                 l == j - at + 1
      <3>1. k \in 1 .. c /\ l \in 1 .. c /\ chain[k].id = chain[l].id
        BY <1>8, <1>9, <1>13, <2>1
      <3>2. k = l
        BY <1>10, <3>1
      <3> QED
        BY <1>2, <3>2
    <2>2. CASE i \notin New /\ j \notin New
      <3>1. PICK x \in 1 .. n : i = S(x)
        BY <1>5, <2>2
      <3>2. PICK y \in 1 .. n : j = S(y)
        BY <1>5, <2>2
      <3>3. t[x].id = t[y].id
        BY <1>7, <1>13, <3>1, <3>2
      <3> QED
        BY <1>0, <3>1, <3>2, <3>3 DEF Shaped
    <2>3. ASSUME NEW y \in New, NEW z \in 1 .. n + c, z \notin New PROVE t2[y].id # t2[z].id
      <3>1. PICK x \in 1 .. n : z = S(x)
        BY <1>5, <2>3
      <3>2. t2[z].id \in Ids(t)
        BY <1>1, <1>7, <3>1
      <3>3. t2[y].id \notin Ids(t)
        BY <1>8, <1>9, <1>10
      <3> QED
        BY <3>2, <3>3
    <2> QED
      BY <1>13, <2>1, <2>2, <2>3
  <1>14. ASSUME NEW i \in 2 .. n + c, NEW j \in 1 .. n + c, t2[i].pred = t2[j].id
         PROVE  b[i] = j
    <2>1. DOMAIN t2 = 1 .. n + c
      BY <1>4, NodesType
    <2>2. FindIdx(t2, t2[i].pred) = j
      BY <1>13, <1>14, <2>1 DEF FindIdx
    <2> QED
      BY <1>4, <2>2 DEF Parents
  <1>15. b \in [2 .. n + c -> Nat]
    <2>1. ASSUME NEW i \in 2 .. n + c PROVE FindIdx(t2, t2[i].pred) \in Nat
      <3>1. FindIdx(t2, t2[i].pred) \in 0 .. Len(t2) /\ Len(t2) \in Nat
        BY <1>4, FindIdxType, NodesType
      <3> QED
        BY <3>1
    <2> QED
      BY <1>4, <2>1 DEF Parents
  <1>16. \A x \in 2 .. n : S(x) \in 2 .. n + c /\ b[S(x)] = S(a[x])
    <2> SUFFICES ASSUME NEW x \in 2 .. n PROVE S(x) \in 2 .. n + c /\ b[S(x)] = S(a[x])
      OBVIOUS
    <2>1. x \in 1 .. n /\ a[x] \in 1 .. n /\ t[a[x]].id = t[x].pred
      BY <1>1 DEF a
    <2>2. S(x) \in 2 .. n + c /\ S(a[x]) \in 1 .. n + c
      BY <1>5, <2>1
    <2>3. t2[S(x)].pred = t2[S(a[x])].id
      BY <1>7, <2>1
    <2> QED
      BY <1>14, <2>2, <2>3
  <1>17. b[at] = p
    <2>1. at \in New /\ p \in 1 .. n + c /\ S(p) = p
      BY <1>1, <1>2, <1>3, <1>6
    <2>2. t2[p].id = pred
      BY <1>2, <1>7, <2>1
    <2>3. t2[at].pred = pred
      <3>1. t2[at].pred = chain[at - at + 1].pred /\ at - at + 1 = 1
        BY <1>2, <1>9, <2>1
      <3> QED
        BY <1>10, <3>1
    <2> QED
      BY <1>8, <1>14, <2>1, <2>2, <2>3
  <1>18. ASSUME NEW i \in at + 1 .. at + c - 1 PROVE b[i] = i - 1
    <2>1. i \in New /\ i - 1 \in New /\ i - 1 \in 1 .. n + c
      BY <1>1, <1>2, <1>3
    <2> DEFINE k == i - at + 1
    <2>2. k \in 2 .. c /\ (i - 1) - at + 1 = k - 1
      BY <1>2, <1>3
    <2>3. t2[i].pred = chain[k].pred /\ t2[i - 1].id = chain[k - 1].id
      BY <1>9, <2>1, <2>2
    <2> HIDE DEF k
    <2>4. t2[i].pred = t2[i - 1].id
      BY <1>10, <2>2, <2>3
    <2> QED
      BY <1>8, <1>14, <2>1, <2>4
  <1>19. Spliced(a, n, b, p, at, c)
    <2>1. ASSUME NEW i \in 2 .. at - 1 PROVE b[i] = a[i]
      <3>1. i \in 2 .. n /\ i < at /\ S(i) = i /\ a[i] \in 1 .. n /\ a[i] < i
        BY <1>1, <1>2, <1>6 DEF a
      <3>2. a[i] < at
        BY <1>1, <1>2, <3>1
      <3> QED
        BY <1>6, <1>16, <3>1, <3>2
    <2>2. ASSUME NEW i \in at .. n PROVE b[i + c] = Shift(a[i], at, c)
      <3>1. i \in 2 .. n /\ S(i) = i + c
        BY <1>1, <1>2, <1>6
      <3> QED
        BY <1>16, <3>1 DEF S
    <2> HIDE DEF b, n, c
    <2> QED
      BY <1>2, <1>3, <1>12, <1>15, <1>17, <1>18, <2>1, <2>2 DEF Spliced
  <1>20. Preorder(b, n + c)
    BY <1>0, <1>19, SplicedPreorder DEF a
  <1>21. t2[1].id = Root /\ t2[1].pred = NoId
    <2>1. S(1) = 1 /\ 1 \in 1 .. n
      BY <1>1, <1>2, <1>6
    <2> QED
      BY <1>0, <1>7, <2>1 DEF Shaped
  <1> QED
    BY <1>4, <1>13, <1>19, <1>20, <1>21 DEF Shaped, a

(* The places and subtrees of a grown array, collected for what follows.     *)
LEMMA GrownPlaces ==
    ASSUME NEW t, Tree(t), NEW pred, NEW chain, Hangs(t, pred, chain),
           NEW p, NEW at, NEW t2, Grown(t, p, at, chain, t2), t[p].id = pred
    PROVE  LET a == Parents(t)
               n == Len(t)
               c == Len(chain)
               b == Parents(t2)
               S(x) == Shift(x, at, c)
               New == at .. at + c - 1
           IN  /\ n \in Nat /\ n > 0 /\ c \in Nat \ {0} /\ Len(t2) = n + c
               /\ p \in 1 .. n /\ at \in p + 1 .. n + 1
               /\ \A i \in 2 .. n : a[i] \in 1 .. n /\ a[i] < i
               /\ \A x \in 1 .. n : S(x) = IF x < at THEN x ELSE x + c
               /\ \A x \in 1 .. n : S(x) \in 1 .. n + c /\ S(x) \notin New
               /\ \A x, y \in 1 .. n : x < y <=> S(x) < S(y)
               /\ \A i \in 1 .. n + c : i \in New \/ \E x \in 1 .. n : i = S(x)
               /\ \A x \in 1 .. n : (x >= 2 <=> S(x) >= 2)
               /\ \A x, y \in 1 .. n : S(x) = S(y) => x = y
               /\ \A x \in 2 .. n : b[S(x)] = S(a[x])
               /\ \A i \in New : i \in 2 .. n + c /\ b[i] = IF i = at THEN p ELSE i - 1
               /\ \A x, y \in 1 .. n : Under(b, S(x), S(y)) <=> Under(a, x, y)
               /\ \A x \in 1 .. n, i \in New : (Under(b, S(x), i) <=> Under(a, x, p)) /\ ~Under(b, i, S(x))
               /\ \A i, k \in New : Under(b, i, k) <=> i <= k
  <1> DEFINE a == Parents(t)
             n == Len(t)
             c == Len(chain)
             b == Parents(t2)
             S(x) == Shift(x, at, c)
             New == at .. at + c - 1
  <1>0. t \in Seq(Node) /\ Shaped(t) /\ Preorder(a, n)
    BY DEF Tree, Shaped
  <1>1. Spliced(a, n, b, p, at, c)
    BY GrownParents
  <1>2. n \in Nat /\ n > 0 /\ c \in Nat \ {0} /\ Len(t2) = n + c /\ p \in 1 .. n /\ at \in p + 1 .. n + 1
    BY <1>0, <1>1 DEF Preorder, Spliced, Grown
  <1>3. \A i \in 2 .. n : a[i] \in 1 .. n /\ a[i] < i
    BY <1>0, Places
  <1>4. \A x \in 1 .. n : S(x) = IF x < at THEN x ELSE x + c
    BY DEF Shift
  <1>5. /\ \A x \in 1 .. n : S(x) \in 1 .. n + c /\ S(x) \notin New
        /\ \A x, y \in 1 .. n : x < y <=> S(x) < S(y)
        /\ \A i \in 1 .. n + c : i \in New \/ \E x \in 1 .. n : i = S(x)
        /\ \A x \in 1 .. n : (x >= 2 <=> S(x) >= 2)
        /\ \A x, y \in 1 .. n : S(x) = S(y) => x = y
    <2>1. Spread(n, at, c)
      BY <1>0, <1>1, SplicedIndex
    <2> QED
      BY <2>1, Zenon DEF Spread
  <1>6. \A x \in 2 .. n : b[S(x)] = S(a[x])
    BY <1>0, <1>1, SplicedOld
  <1>7. \A i \in New : i \in 2 .. n + c /\ b[i] = IF i = at THEN p ELSE i - 1
    BY <1>1, <1>2 DEF Spliced
  <1>8. /\ \A x, y \in 1 .. n : Under(b, S(x), S(y)) <=> Under(a, x, y)
        /\ \A x \in 1 .. n, i \in New : (Under(b, S(x), i) <=> Under(a, x, p)) /\ ~Under(b, i, S(x))
        /\ \A i, k \in New : Under(b, i, k) <=> i <= k
    BY <1>0, <1>1, SplicedUnder
  <1> QED
    BY <1>2, <1>3, <1>4, <1>5, <1>6, <1>7, <1>8

(***************************************************************************)
(* Inserting a chain keeps the order of siblings, the branch point marks    *)
(* and the trunk at the end of the array, although it looks at nothing but  *)
(* one branch point.                                                        *)
(***************************************************************************)
LEMMA GrownTree ==
    ASSUME NEW t, Tree(t), NEW pred, NEW chain, Hangs(t, pred, chain),
           NEW p, NEW at, NEW t2, Grown(t, p, at, chain, t2), t[p].id = pred
    PROVE  Tree(t2)
  <1> DEFINE a == Parents(t)
             n == Len(t)
             c == Len(chain)
             b == Parents(t2)
             S(x) == Shift(x, at, c)
             New == at .. at + c - 1
             user == Author(chain[1].id)
             wins == Wins(t, p, user)
             h == DecidingHead(t, p, user)
  <1>0. t \in Seq(Node) /\ Shaped(t) /\ Preorder(a, n) /\ Ordered(t) /\ Marked(t) /\ Trunk(t)
    BY DEF Tree, Shaped
  <1>1. /\ n \in Nat /\ n > 0 /\ c \in Nat \ {0} /\ Len(t2) = n + c
        /\ p \in 1 .. n /\ at \in p + 1 .. n + 1
        /\ \A i \in 2 .. n : a[i] \in 1 .. n /\ a[i] < i
        /\ \A x \in 1 .. n : S(x) = IF x < at THEN x ELSE x + c
    BY GrownPlaces
  <1>2. /\ \A x \in 1 .. n : S(x) \in 1 .. n + c /\ S(x) \notin New
        /\ \A x, y \in 1 .. n : x < y <=> S(x) < S(y)
        /\ \A i \in 1 .. n + c : i \in New \/ \E x \in 1 .. n : i = S(x)
        /\ \A x \in 1 .. n : (x >= 2 <=> S(x) >= 2)
        /\ \A x, y \in 1 .. n : S(x) = S(y) => x = y
    BY GrownPlaces
  <1>3. /\ \A x \in 2 .. n : b[S(x)] = S(a[x])
        /\ \A i \in New : i \in 2 .. n + c /\ b[i] = IF i = at THEN p ELSE i - 1
    BY GrownPlaces
  <1>4. /\ \A x, y \in 1 .. n : Under(b, S(x), S(y)) <=> Under(a, x, y)
        /\ \A x \in 1 .. n, i \in New : (Under(b, S(x), i) <=> Under(a, x, p)) /\ ~Under(b, i, S(x))
        /\ \A i, k \in New : Under(b, i, k) <=> i <= k
    BY GrownPlaces
  <1>5. user \in Nat
    <2>1. chain[1] \in Node
      BY ArrayType DEF Hangs
    <2>2. chain[1].id \in Gid
      BY <2>1 DEF Node
    <2> QED
      BY <2>2, AuthorType
  <1>6. at = InsertionIdx(t, p, user)
    BY DEF Grown
  <1>7. /\ \A j \in 2 .. n : a[j] = p => /\ j < at => user <= Author(t[j].id)
                                         /\ at <= j => Author(t[j].id) < user
        /\ wins => /\ at = n + 1 /\ SubtreeEnd(t, p) = n + 1
                   /\ h \in p + 1 .. n /\ a[h] = p /\ Under(a, h, n)
        /\ at = n + 1 /\ ~wins => p = n
    <2>1. Placed(t, p, user)
      BY <1>1, <1>5, InsertionPlace
    <2> QED
      BY <1>6, <2>1 DEF Placed
  <1>8. BranchHeads(t, p) = {j \in 2 .. n : a[j] = p}
    BY <1>0, <1>1, HeadsOf
  <1>9. \A i \in 1 .. n :
            /\ t2[S(i)].id = t[i].id
            /\ t2[S(i)].bp <=> t[i].bp \/ (i = p /\ BranchHeads(t, p) # {})
            /\ t2[S(i)].rej <=> t[i].rej \/ (wins /\ i \in h .. SubtreeEnd(t, p) - 1)
    BY DEF Grown
  <1>10. \A i \in New : ~t2[i].bp /\ (t2[i].rej <=> at # n + 1)
    <2> SUFFICES ASSUME NEW i \in New PROVE ~t2[i].bp /\ (t2[i].rej <=> at # n + 1)
      OBVIOUS
    <2> DEFINE k == i - at + 1
    <2>1. k \in 1 .. c
      BY <1>1
    <2>2. t2[i].bp = chain[k].bp /\ (t2[i].rej <=> at # n + 1)
      BY DEF Grown
    <2> HIDE DEF k
    <2> QED
      BY <2>1, <2>2 DEF Hangs
  <1>11. t2[at].id = chain[1].id /\ at \in New
    <2>1. at \in New /\ at - at + 1 = 1
      BY <1>1
    <2>2. t2[at].id = chain[at - at + 1].id
      BY <2>1 DEF Grown
    <2> QED
      BY <2>1, <2>2
  <1>12. \A j \in 2 .. n : a[j] = p => Author(t[j].id) # user
    <2>1. \A j \in 2 .. n : t[a[j]].id = t[j].pred
      BY <1>0, Places
    <2> QED
      BY <2>1 DEF Hangs
  <1>13. \A i \in 1 .. n : t[i].id \in Gid /\ Author(t[i].id) \in Nat
    BY <1>0, Places, AuthorType
  <1>14. S(p) = p /\ \A x \in 1 .. n : (S(x) = p <=> x = p)
    BY <1>1, <1>2
  <1> HIDE DEF S, a, b, n, c, wins, h, user
  <1>15. ASSUME NEW i \in 2 .. n + c, i \notin New PROVE \E x \in 2 .. n : i = S(x)
    <2>1. i \in 1 .. n + c /\ i >= 2
      BY <1>1
    <2>2. PICK x \in 1 .. n : i = S(x)
      BY <1>2, <1>15, <2>1
    <2>3. x >= 2
      BY <1>2, <2>1, <2>2
    <2>4. x \in 2 .. n
      BY <1>1, <2>3
    <2> QED
      BY <2>2, <2>4
  <1>16. Ordered(t2)
    <2> SUFFICES ASSUME NEW i \in 2 .. n + c, NEW j \in 2 .. n + c, b[i] = b[j], i < j
                 PROVE  Author(t2[j].id) < Author(t2[i].id)
      BY <1>1 DEF Ordered, b
    <2>1. CASE i \notin New /\ j \notin New
      <3>1. PICK x \in 2 .. n : i = S(x)
        BY <1>15, <2>1
      <3>2. PICK y \in 2 .. n : j = S(y)
        BY <1>15, <2>1
      <3>3. a[x] = a[y] /\ x < y
        <4>1. S(a[x]) = S(a[y]) /\ S(x) < S(y) /\ x \in 1 .. n /\ y \in 1 .. n
          BY <1>1, <1>3, <3>1, <3>2
        <4>2. a[x] \in 1 .. n /\ a[y] \in 1 .. n
          BY <1>1
        <4> QED
          BY <1>2, <4>1, <4>2
      <3>4. Author(t[y].id) < Author(t[x].id)
        BY <1>0, <3>3 DEF Ordered, a, n
      <3> QED
        BY <1>1, <1>9, <3>1, <3>2, <3>4
    <2>2. ASSUME NEW y \in 2 .. n, NEW k \in New, b[S(y)] = b[k]
          PROVE  k = at /\ a[y] = p
      <3>1. b[S(y)] = S(a[y]) /\ a[y] \in 1 .. n
        BY <1>1, <1>3
      <3>2. S(a[y]) \notin New
        BY <1>2, <3>1
      <3>3. k # at => k - 1 \in New
        BY <1>1
      <3>4. k = at
        BY <1>3, <2>2, <3>1, <3>2, <3>3
      <3>5. S(a[y]) = p
        BY <1>3, <2>2, <3>1, <3>4
      <3> QED
        BY <1>14, <3>1, <3>4, <3>5
    <2>3. CASE i \in New /\ j \notin New
      <3>1. PICK y \in 2 .. n : j = S(y)
        BY <1>15, <2>3
      <3>2. i = at /\ a[y] = p
        BY <2>2, <2>3, <3>1
      <3>3. at <= y
        BY <1>1, <3>1, <3>2
      <3>4. Author(t[y].id) < user
        BY <1>7, <3>2, <3>3
      <3> QED
        BY <1>1, <1>9, <1>11, <3>1, <3>2, <3>4 DEF user
    <2>4. CASE i \notin New /\ j \in New
      <3>1. PICK y \in 2 .. n : i = S(y)
        BY <1>15, <2>4
      <3>2. j = at /\ a[y] = p
        BY <2>2, <2>4, <3>1
      <3>3. y < at
        BY <1>1, <3>1, <3>2
      <3>4. user <= Author(t[y].id) /\ Author(t[y].id) # user /\ y \in 1 .. n
        BY <1>1, <1>7, <1>12, <3>2, <3>3
      <3>5. user < Author(t[y].id)
        BY <1>5, <1>13, <3>4
      <3> QED
        BY <1>9, <1>11, <3>1, <3>2, <3>4, <3>5 DEF user
    <2>5. CASE i \in New /\ j \in New
      BY <1>1, <1>3, <2>5
    <2> QED
      BY <2>1, <2>3, <2>4, <2>5
  <1>17. Marked(t2)
    <2> SUFFICES ASSUME NEW q \in 1 .. n + c
                 PROVE  t2[q].bp <=> Branching(t2, q)
      BY <1>1 DEF Marked
    <2>0. Branching(t2, q) <=> \E i, j \in 2 .. n + c : i # j /\ b[i] = q /\ b[j] = q
      BY <1>1 DEF Branching, b
    <2>1. CASE q \in New
      <3>1. \A i \in 2 .. n + c : b[i] = q => i = q + 1
        <4> SUFFICES ASSUME NEW i \in 2 .. n + c, b[i] = q PROVE i = q + 1
          OBVIOUS
        <4>1. CASE i \in New
          BY <1>1, <1>3, <2>1, <4>1
        <4>2. CASE i \notin New
          <5>1. PICK x \in 2 .. n : i = S(x)
            BY <1>15, <4>2
          <5>2. b[i] = S(a[x]) /\ a[x] \in 1 .. n
            BY <1>1, <1>3, <5>1
          <5> QED
            BY <1>2, <2>1, <5>2
        <4> QED
          BY <4>1, <4>2
      <3> QED
        BY <1>10, <2>0, <2>1, <3>1
    <2>2. CASE q \notin New
      <3>1. PICK x \in 1 .. n : q = S(x)
        BY <1>2, <2>2
      <3>2. t[x].bp <=> \E i, j \in 2 .. n : i # j /\ a[i] = x /\ a[j] = x
        BY <1>0 DEF Marked, Branching, a, n
      <3>3. \A y \in 2 .. n : S(y) \in 2 .. n + c /\ (b[S(y)] = q <=> a[y] = x)
        BY <1>1, <1>2, <1>3, <3>1
      <3>4. \A i \in New : b[i] = q <=> i = at /\ x = p
        <4> SUFFICES ASSUME NEW i \in New PROVE b[i] = q <=> i = at /\ x = p
          OBVIOUS
        <4>1. i # at => i - 1 \in New
          BY <1>1
        <4> QED
          BY <1>3, <1>14, <2>2, <3>1, <4>1
      <3>5. \A i \in 2 .. n + c : i \in New \/ \E y \in 2 .. n : i = S(y)
        BY <1>15
      <3>6. CASE x # p
        <4>1. Branching(t2, q) <=> \E i, j \in 2 .. n : i # j /\ a[i] = x /\ a[j] = x
          <5>1. ASSUME Branching(t2, q)
                PROVE  \E i, j \in 2 .. n : i # j /\ a[i] = x /\ a[j] = x
            BY <2>0, <3>3, <3>4, <3>5, <3>6, <5>1
          <5>2. ASSUME NEW i \in 2 .. n, NEW j \in 2 .. n, i # j, a[i] = x, a[j] = x
                PROVE  Branching(t2, q)
            <6>1. S(i) # S(j)
              BY <1>2, <5>2
            <6> QED
              BY <2>0, <3>3, <5>2, <6>1
          <5> QED
            BY <5>1, <5>2
        <4> QED
          BY <1>9, <3>1, <3>2, <3>6, <4>1
      <3>7. CASE x = p
        <4>1. Branching(t2, q) <=> \E j \in 2 .. n : a[j] = x
          <5>1. ASSUME Branching(t2, q)
                PROVE  \E j \in 2 .. n : a[j] = x
            BY <2>0, <3>3, <3>4, <3>5, <5>1
          <5>2. ASSUME NEW j \in 2 .. n, a[j] = x
                PROVE  Branching(t2, q)
            <6>1. S(j) # at /\ at \in 2 .. n + c /\ S(j) \in 2 .. n + c /\ b[at] = q /\ b[S(j)] = q
              BY <1>2, <1>3, <1>11, <3>3, <3>4, <3>7, <5>2
            <6> QED
              BY <2>0, <6>1
          <5> QED
            BY <5>1, <5>2
        <4>2. BranchHeads(t, p) # {} <=> \E j \in 2 .. n : a[j] = x
          BY <1>8, <3>7
        <4> QED
          BY <1>9, <3>1, <3>2, <3>7, <4>1, <4>2
      <3> QED
        BY <3>6, <3>7
    <2> QED
      BY <2>1, <2>2
  <1>18. Trunk(t2)
    <2> SUFFICES ASSUME NEW i \in 1 .. n + c
                 PROVE  ~t2[i].rej <=> Under(b, i, n + c)
      BY <1>1 DEF Trunk, b
    <2>0. /\ \A x \in 1 .. n : ~t[x].rej <=> Under(a, x, n)
          /\ n \in 1 .. n /\ Under(a, n, n)
          /\ \A x, y, z \in 1 .. n : Under(a, x, y) /\ Under(a, y, z) => Under(a, x, z)
          /\ \A x, y, z \in 1 .. n : Under(a, x, z) /\ Under(a, y, z) /\ x <= y => Under(a, x, y)
          /\ \A x, y \in 1 .. n : Under(a, x, y) /\ x # y => Under(a, x, a[y])
          /\ \A x \in 2 .. n : Under(a, a[x], x)
          /\ \A x, y \in 1 .. n : Under(a, x, y) => x <= y
      <3>1. \A x \in 1 .. n : ~t[x].rej <=> Under(a, x, n)
        BY <1>0 DEF Trunk, a, n
      <3>2. n \in 1 .. n
        BY <1>1
      <3>3. \A x, y \in 1 .. n : Under(a, x, y) => x <= y
        BY DEF Under
      <3>4. Preorder(a, n)
        BY <1>0
      <3> QED
        BY <3>1, <3>2, <3>3, <3>4, UnderFacts
    <2>1. CASE at = n + 1
      <3>1. n + c \in New
        BY <1>1, <2>1
      <3>2. CASE i \in New
        BY <1>1, <1>4, <1>10, <2>1, <3>1, <3>2
      <3>3. CASE i \notin New
        <4>1. PICK x \in 1 .. n : i = S(x)
          BY <1>2, <3>3
        <4>2. Under(b, i, n + c) <=> Under(a, x, p)
          BY <1>4, <3>1, <4>1
        <4>3. CASE wins
          <5>1. /\ SubtreeEnd(t, p) = n + 1 /\ h \in p + 1 .. n /\ h \in 2 .. n /\ h \in 1 .. n
                /\ a[h] = p /\ Under(a, h, n)
            BY <1>1, <1>7, <4>3
          <5>2. x \in h .. SubtreeEnd(t, p) - 1 <=> h <= x
            BY <1>1, <5>1
          <5>3. t2[i].rej <=> t[x].rej \/ h <= x
            BY <1>9, <4>1, <4>3, <5>2
          <5>4. ASSUME Under(a, x, n), ~(h <= x) PROVE Under(a, x, p)
            <6>1. x <= h /\ x # h
              BY <5>1, <5>4
            <6>2. Under(a, x, h)
              BY <2>0, <5>1, <5>4, <6>1
            <6> QED
              BY <2>0, <5>1, <6>1, <6>2
          <5>5. ASSUME Under(a, x, p) PROVE Under(a, x, n) /\ ~(h <= x)
            <6>1. x <= p
              BY <1>1, <2>0, <5>5
            <6>2. Under(a, p, h)
              BY <2>0, <5>1
            <6>3. Under(a, x, h) /\ Under(a, x, n)
              BY <1>1, <2>0, <5>1, <5>5, <6>2
            <6> QED
              BY <1>1, <5>1, <6>1, <6>3
          <5> QED
            BY <2>0, <4>2, <5>3, <5>4, <5>5
        <4>4. CASE ~wins
          BY <1>7, <1>9, <2>0, <2>1, <4>1, <4>2, <4>4
        <4> QED
          BY <4>3, <4>4
      <3> QED
        BY <3>2, <3>3
    <2>2. CASE at # n + 1
      <3>1. ~wins /\ S(n) = n + c
        BY <1>1, <1>7, <2>0, <2>2
      <3>2. CASE i \in New
        BY <1>4, <1>10, <2>0, <2>2, <3>1, <3>2
      <3>3. CASE i \notin New
        <4>1. PICK x \in 1 .. n : i = S(x)
          BY <1>2, <3>3
        <4>2. Under(b, i, n + c) <=> Under(a, x, n)
          BY <1>4, <2>0, <3>1, <4>1
        <4> QED
          BY <1>9, <2>0, <3>1, <4>1, <4>2
      <3> QED
        BY <3>2, <3>3
    <2> QED
      BY <2>1, <2>2
  <1>19. Shaped(t2) /\ t2 \in Seq(Node)
    <2>1. Shaped(t2)
      BY GrownParents
    <2> QED
      BY <2>1 DEF Grown
  <1> QED
    BY <1>16, <1>17, <1>18, <1>19 DEF Tree

----------------------------------------------------------------------------
(* Executed scripts and the First Interesting Script *)

(* The executed scripts are tip and those it is under.                       *)
Done(t, tip) ==
    tip \in 1 .. Len(t) /\ \A i \in 1 .. Len(t) : t[i].exe <=> Under(Parents(t), i, tip)

(* The project's root is executed, accepted, present and confirmed.          *)
RootSettled(t) == t[1].exe /\ ~t[1].rej /\ ~t[1].mis /\ t[1].acks = {}

(* A missing script is not executed.                                         *)
MissingNotDone(t) == \A i \in 1 .. Len(t) : t[i].mis => ~t[i].exe

(* The script id is executed, accepted and confirmed in t.                   *)
SettledIn(t, id) == \E f \in 1 .. Len(t) : t[f].id = id /\ Executed(t[f]) /\ Confirmed(t[f])

(***************************************************************************)
(* What holds of a member's history by itself: its shape, its files, and    *)
(* its First Interesting Script.                                            *)
(***************************************************************************)
Sound(h) ==
    /\ h \in History
    /\ Tree(h.nodes) /\ RootSettled(h.nodes) /\ MissingNotDone(h.nodes)
    /\ \E tip : Done(h.nodes, tip)
    /\ SettledIn(h.nodes, h.fis)

(* The history every member starts from: the root alone.                     *)
LEMMA RootAlone ==
    LET n == ScriptNode(Root, NoId, {}, TRUE)
        t == <<n>>
    IN  /\ n.id = Root /\ n.pred = NoId /\ n.acks = {} /\ ~n.rej /\ ~n.mis /\ n.exe /\ ~n.bp
        /\ n \in Node
        /\ Len(t) = 1 /\ t[1] = n
        /\ [nodes |-> t, fis |-> Root] \in History
        /\ Tree(t) /\ RootSettled(t) /\ Under(Parents(t), 1, 1)
  <1> DEFINE n == ScriptNode(Root, NoId, {}, TRUE)
             t == <<n>>
  <1>1. /\ n.id = Root /\ n.pred = NoId /\ n.acks = {} /\ ~n.rej /\ ~n.mis /\ n.exe /\ ~n.bp
        /\ n \in Node
    <2>1. Root \in Gid /\ NoId \in Gid \cup {NoId} /\ {} \in SUBSET User /\ TRUE \in BOOLEAN
      BY DEF Gid
    <2>2. n \in Node
      BY <2>1, ScriptNodeType
    <2> QED
      BY <2>2 DEF ScriptNode
  <1> HIDE DEF n
  <1>2. t \in Seq(Node) /\ Len(t) = 1 /\ t[1] = n
    BY <1>1, SingletonArray
  <1>3. [nodes |-> t, fis |-> Root] \in History
    BY <1>2 DEF History, Gid
  <1> HIDE DEF t
  <1>4. /\ 2 .. Len(t) = {} /\ 1 .. Len(t) = {1}
        /\ Len(t) \in Nat /\ Len(t) > 0
    BY <1>2
  <1>5. Shaped(t)
    <2>1. Parents(t) \in [2 .. Len(t) -> Nat]
      BY <1>4 DEF Parents
    <2>2. Preorder(Parents(t), Len(t))
      BY <1>4, <2>1 DEF Preorder
    <2> QED
      BY <1>1, <1>2, <1>4, <2>2 DEF Shaped
  <1>6. Under(Parents(t), 1, 1)
    BY DEF Under
  <1>7. Ordered(t) /\ Marked(t) /\ Trunk(t)
    BY <1>1, <1>2, <1>4, <1>6 DEF Ordered, Marked, Branching, Trunk
  <1>8. Tree(t) /\ RootSettled(t)
    BY <1>1, <1>2, <1>5, <1>7 DEF Tree, RootSettled
  <1> QED
    BY <1>1, <1>2, <1>3, <1>6, <1>8 DEF n, t

(* The tip of the executed branch is unique.                                 *)
LEMMA OneTip ==
    ASSUME NEW t, Tree(t), NEW tip, Done(t, tip), NEW other, Done(t, other)
    PROVE  tip = other
  <1>1. Len(t) \in Nat /\ Preorder(Parents(t), Len(t))
    BY DEF Tree, Shaped, Preorder
  <1>2. tip \in 1 .. Len(t) /\ other \in 1 .. Len(t)
    BY DEF Done
  <1>3. Under(Parents(t), tip, tip) /\ Under(Parents(t), other, other)
    BY <1>1, <1>2, UnderFacts
  <1>4. Under(Parents(t), tip, other) /\ Under(Parents(t), other, tip)
    BY <1>2, <1>3 DEF Done
  <1> QED
    BY <1>1, <1>2, <1>4 DEF Under

(* A repaired FIS marker is on a settled script.                             *)
LEMMA RepairedFisSettled ==
    ASSUME NEW t \in Seq(Node), Len(t) > 0, RootSettled(t), NEW fis
    PROVE  SettledIn(t, RepairedFis(t, fis))
  <1> DEFINE S == {j \in DOMAIN t : Executed(t[j]) /\ Confirmed(t[j])}
             i == Greatest(S, 0)
  <1>1. Len(t) \in Nat /\ DOMAIN t = 1 .. Len(t)
    BY NodesType
  <1>2. S \in SUBSET (0 .. Len(t))
    BY <1>1
  <1>3. 1 \in S
    BY <1>1 DEF RootSettled, Executed, Confirmed
  <1>4. i \in S
    BY <1>1, <1>2, <1>3, GreatestIs
  <1>5. i \in 1 .. Len(t) /\ Executed(t[i]) /\ Confirmed(t[i])
    BY <1>1, <1>4
  <1>6. RepairedFis(t, fis) = IF i = 0 THEN fis ELSE t[i].id
    BY DEF RepairedFis
  <1> HIDE DEF i, S
  <1>7. i # 0
    BY <1>1, <1>5
  <1> QED
    BY <1>5, <1>6, <1>7 DEF SettledIn

(***************************************************************************)
(* chain is one of scripts not executed, or the script of a check-in,       *)
(* which follows the tip of the executed branch.                            *)
(***************************************************************************)
Fits(t, p, chain) ==
    \/ \A k \in 1 .. Len(chain) : ~chain[k].exe
    \/ Len(chain) = 1 /\ chain[1].exe /\ ~chain[1].mis /\ Done(t, p)

(* After a chain was inserted the executed scripts are a branch again.       *)
LEMMA GrownDone ==
    ASSUME NEW t, Tree(t), NEW pred, NEW chain, Hangs(t, pred, chain),
           NEW p, NEW at, NEW t2, Grown(t, p, at, chain, t2), t[p].id = pred,
           Fits(t, p, chain), NEW tip, Done(t, tip)
    PROVE  Done(t2, IF chain[1].exe THEN at ELSE Shift(tip, at, Len(chain)))
  <1> DEFINE a == Parents(t)
             n == Len(t)
             c == Len(chain)
             b == Parents(t2)
             S(x) == Shift(x, at, c)
             New == at .. at + c - 1
  <1>1. /\ n \in Nat /\ n > 0 /\ c \in Nat \ {0} /\ Len(t2) = n + c
        /\ p \in 1 .. n /\ at \in p + 1 .. n + 1
    BY GrownPlaces
  <1>2. /\ \A x \in 1 .. n : S(x) \in 1 .. n + c /\ S(x) \notin New
        /\ \A i \in 1 .. n + c : i \in New \/ \E x \in 1 .. n : i = S(x)
    BY GrownPlaces
  <1>3. /\ \A x, y \in 1 .. n : Under(b, S(x), S(y)) <=> Under(a, x, y)
        /\ \A x \in 1 .. n, i \in New : (Under(b, S(x), i) <=> Under(a, x, p)) /\ ~Under(b, i, S(x))
        /\ \A i, k \in New : Under(b, i, k) <=> i <= k
    BY GrownPlaces
  <1>4. \A x \in 1 .. n : t2[S(x)].exe = t[x].exe
    BY DEF Grown
  <1>5. ASSUME NEW i \in New PROVE i - at + 1 \in 1 .. c /\ t2[i].exe = chain[i - at + 1].exe
    <2>1. i - at + 1 \in 1 .. c
      BY <1>1
    <2>2. t2[i].exe = chain[i - at + 1].exe
      BY DEF Grown
    <2> QED
      BY <2>1, <2>2
  <1>6. tip \in 1 .. n /\ \A x \in 1 .. n : t[x].exe <=> Under(a, x, tip)
    BY DEF Done
  <1>7. at \in New /\ at \in 1 .. n + c
    BY <1>1
  <1> HIDE DEF S, a, b, n, c
  <1>8. CASE \A k \in 1 .. c : ~chain[k].exe
    <2>1. ~chain[1].exe /\ \A i \in New : ~t2[i].exe
      BY <1>1, <1>5, <1>8
    <2>2. \A i \in 1 .. n + c : t2[i].exe <=> Under(b, i, S(tip))
      BY <1>2, <1>3, <1>4, <1>6, <2>1
    <2> QED
      BY <1>1, <1>2, <1>6, <2>1, <2>2 DEF Done, S, b, c
  <1>9. CASE ~\A k \in 1 .. c : ~chain[k].exe
    <2>1. c = 1 /\ chain[1].exe /\ Done(t, p)
      BY <1>9 DEF Fits, c
    <2>2. tip = p
      BY <2>1, OneTip
    <2>3. \A i \in New : i = at
      BY <1>1, <2>1
    <2>4. at - at + 1 = 1
      BY <1>1
    <2>5. t2[at].exe
      BY <1>5, <1>7, <2>1, <2>4
    <2>6. Under(b, at, at)
      BY <1>1, <1>3, <1>7
    <2>7. ASSUME NEW i \in 1 .. n + c PROVE t2[i].exe <=> Under(b, i, at)
      <3>1. CASE i \in New
        BY <2>3, <2>5, <2>6, <3>1
      <3>2. CASE i \notin New
        BY <1>2, <1>3, <1>4, <1>6, <1>7, <2>2, <3>2
      <3> QED
        BY <3>1, <3>2
    <2> QED
      BY <1>1, <1>7, <2>1, <2>7 DEF Done, b, c, n
  <1> QED
    BY <1>8, <1>9

(***************************************************************************)
(* Inserting keeps a history sound; the FIS marker stays on a settled       *)
(* script also when the new branch wins.                                    *)
(***************************************************************************)
LEMMA InsertChainSound ==
    ASSUME NEW h, Sound(h), NEW pred, NEW chain, Hangs(h.nodes, pred, chain),
           Fits(h.nodes, FindIdx(h.nodes, pred), chain)
    PROVE  Sound(InsertChain(h, pred, chain))
  <1> DEFINE t  == h.nodes
             h2 == InsertChain(h, pred, chain)
             t2 == h2.nodes
             p  == FindIdx(t, pred)
             user == Author(chain[1].id)
             at == InsertionIdx(t, p, user)
             c == Len(chain)
             S(x) == Shift(x, at, c)
             New == at .. at + c - 1
             n == Len(t)
             wins == Wins(t, p, user)
  <1>0. h \in History /\ Tree(t) /\ RootSettled(t) /\ MissingNotDone(t) /\ SettledIn(t, h.fis)
    BY DEF Sound
  <1>1. /\ Grown(t, p, at, chain, t2) /\ t[p].id = pred
        /\ h2.fis = IF at = n + 1 /\ wins THEN RepairedFis(t2, h.fis) ELSE h.fis
    BY <1>0, InsertChainGrows
  <1>11. Hangs(t, pred, chain) /\ at = InsertionIdx(t, p, user) /\ Fits(t, p, chain)
    OBVIOUS
  <1>12. h2 \in History
    <2>1. chain \in Seq(Node)
      BY DEF Hangs
    <2> QED
      BY <1>0, <2>1, InsertChainKeeps DEF Keeps
  <1> HIDE DEF at, p, h2
  <1>2. Tree(t2)
    BY <1>0, <1>1, <1>11, GrownTree
  <1>3. /\ n \in Nat /\ n > 0 /\ c \in Nat \ {0} /\ Len(t2) = n + c
        /\ p \in 1 .. n /\ at \in p + 1 .. n + 1
        /\ \A x \in 1 .. n : S(x) = IF x < at THEN x ELSE x + c
        /\ \A x \in 1 .. n : S(x) \in 1 .. n + c /\ S(x) \notin New
        /\ \A i \in 1 .. n + c : i \in New \/ \E x \in 1 .. n : i = S(x)
    <2>1. Tree(t) /\ Hangs(t, pred, chain) /\ Grown(t, p, at, chain, t2) /\ t[p].id = pred
      BY <1>0, <1>1, <1>11
    <2> HIDE DEF t, t2
    <2> QED
      BY <2>1, GrownPlaces
  <1>4. user \in Nat
    <2>1. chain[1] \in Node
      BY ArrayType DEF Hangs
    <2>2. chain[1].id \in Gid
      BY <2>1 DEF Node
    <2> QED
      BY <2>2, AuthorType
  <1>5. wins => /\ at = n + 1 /\ SubtreeEnd(t, p) = n + 1 /\ DecidingHead(t, p, user) \in p + 1 .. n
    <2>1. p \in 1 .. Len(t)
      BY <1>3
    <2>2. Placed(t, p, user)
      BY <1>0, <1>4, <2>1, InsertionPlace
    <2> QED
      BY <1>11, <2>2 DEF Placed
  <1>6. \A x \in 1 .. n :
            /\ t2[S(x)].id = t[x].id /\ t2[S(x)].acks = t[x].acks
            /\ t2[S(x)].mis = t[x].mis /\ t2[S(x)].exe = t[x].exe
            /\ t2[S(x)].rej <=> t[x].rej \/ (wins /\ x \in DecidingHead(t, p, user) .. SubtreeEnd(t, p) - 1)
    BY <1>1 DEF Grown
  <1>7. RootSettled(t2)
    <2>1. 1 \in 1 .. n /\ S(1) = 1
      BY <1>3
    <2>2. wins => ~(1 \in DecidingHead(t, p, user) .. SubtreeEnd(t, p) - 1)
      BY <1>3, <1>5
    <2> HIDE DEF S, t2
    <2> QED
      BY <1>0, <1>6, <2>1, <2>2 DEF RootSettled
  <1>8. MissingNotDone(t2)
    <2>1. ASSUME NEW i \in New PROVE t2[i].mis => ~t2[i].exe
      <3> DEFINE k == i - at + 1
      <3>1. k \in 1 .. c
        BY <1>3
      <3>2. t2[i].mis = chain[k].mis /\ t2[i].exe = chain[k].exe
        BY <1>1 DEF Grown
      <3>3. chain[k].exe => k = 1 /\ ~chain[1].mis
        BY <1>11, <3>1 DEF Fits
      <3> HIDE DEF k
      <3> QED
        BY <3>2, <3>3
    <2>2. \A x \in 1 .. n : t[x].mis => ~t[x].exe
      BY <1>0 DEF MissingNotDone
    <2>3. ASSUME NEW x \in 1 .. n PROVE t2[S(x)].mis => ~t2[S(x)].exe
      BY <1>6, <2>2
    <2> HIDE DEF S, t2, New
    <2> QED
      BY <1>3, <2>1, <2>3 DEF MissingNotDone
  <1>9. \E tip : Done(t2, tip)
    <2>1. PICK tip : Done(t, tip)
      BY DEF Sound
    <2> QED
      BY <1>0, <1>1, <1>11, <2>1, GrownDone
  <1>10. SettledIn(t2, h2.fis)
    <2>1. CASE wins
      <3>1. h2.fis = RepairedFis(t2, h.fis) /\ t2 \in Seq(Node) /\ Len(t2) > 0
        BY <1>1, <1>2, <1>3, <1>5, <2>1 DEF Tree
      <3> QED
        BY <1>7, <3>1, RepairedFisSettled
    <2>2. CASE ~wins
      <3>1. h2.fis = h.fis
        BY <1>1, <2>2
      <3>2. PICK f \in 1 .. n : t[f].id = h.fis /\ Executed(t[f]) /\ Confirmed(t[f])
        BY <1>0 DEF SettledIn
      <3>3. S(f) \in 1 .. Len(t2) /\ t2[S(f)].id = h.fis
        BY <1>3, <1>6, <3>2
      <3>4. Executed(t2[S(f)]) /\ Confirmed(t2[S(f)])
        BY <1>6, <2>2, <3>2 DEF Executed, Confirmed
      <3> QED
        BY <3>1, <3>3, <3>4 DEF SettledIn
    <2> QED
      BY <2>1, <2>2
  <1> QED
    BY <1>2, <1>7, <1>8, <1>9, <1>10, <1>12 DEF Sound, h2

----------------------------------------------------------------------------
(* Steps that keep the tree: confirming *)

(* u differs from t only in what is awaited, missing or executed.            *)
SameTree(t, u) ==
    /\ u \in Seq(Node) /\ Len(u) = Len(t)
    /\ \A i \in 1 .. Len(t) : /\ u[i].id = t[i].id /\ u[i].pred = t[i].pred
                              /\ u[i].bp = t[i].bp /\ u[i].rej = t[i].rej

(* Such changes keep the shape.                                              *)
LEMMA SameTreeTree ==
    ASSUME NEW t, Tree(t), NEW u, SameTree(t, u)
    PROVE  Tree(u) /\ Parents(u) = Parents(t) /\ Len(u) = Len(t)
  <1>1. t \in Seq(Node) /\ Shaped(t) /\ u \in Seq(Node) /\ Len(u) = Len(t)
    BY DEF Tree, SameTree
  <1>2. /\ Len(t) \in Nat /\ Len(t) > 0
        /\ \A i \in 2 .. Len(t) : Parents(t)[i] \in 1 .. Len(t) /\ t[Parents(t)[i]].id = t[i].pred
    BY <1>1, Places
  <1>3. \A i \in 1 .. Len(t) : /\ u[i].id = t[i].id /\ u[i].pred = t[i].pred
                               /\ u[i].bp = t[i].bp /\ u[i].rej = t[i].rej
    BY DEF SameTree
  <1>4. \A i, j \in 1 .. Len(t) : u[i].id = u[j].id => i = j
    BY <1>1, <1>3 DEF Shaped
  <1>5. ASSUME NEW i \in 2 .. Len(t) PROVE FindIdx(u, u[i].pred) = Parents(t)[i]
    <2>1. DOMAIN u = 1 .. Len(t)
      BY <1>1, NodesType
    <2>2. Parents(t)[i] \in 1 .. Len(t) /\ u[Parents(t)[i]].id = u[i].pred
      BY <1>2, <1>3
    <2> QED
      BY <1>4, <2>1, <2>2 DEF FindIdx
  <1>6. Parents(u) = Parents(t)
    <2>1. Parents(u) = [i \in 2 .. Len(t) |-> FindIdx(u, u[i].pred)]
      BY <1>1 DEF Parents
    <2>2. Parents(t) = [i \in 2 .. Len(t) |-> Parents(t)[i]]
      BY DEF Parents
    <2> QED
      BY <1>5, <2>1, <2>2
  <1>7. Shaped(u)
    <2>1. u[1].id = Root /\ u[1].pred = NoId
      BY <1>1, <1>2, <1>3 DEF Shaped
    <2> QED
      BY <1>1, <1>4, <1>6, <2>1 DEF Shaped
  <1>8. Ordered(u)
    <2>1. Ordered(t)
      BY DEF Tree
    <2> QED
      BY <1>1, <1>2, <1>3, <1>6, <2>1 DEF Ordered
  <1>9. Marked(u)
    <2>1. \A p : Branching(u, p) <=> Branching(t, p)
      BY <1>1, <1>6 DEF Branching
    <2> QED
      BY <1>1, <1>3, <2>1 DEF Marked, Tree
  <1>10. Trunk(u)
    BY <1>1, <1>3, <1>6 DEF Trunk, Tree
  <1> QED
    BY <1>1, <1>6, <1>7, <1>8, <1>9, <1>10 DEF Tree

(* u is t with fewer acknowledgments awaited.                                *)
AcksOnly(t, u) ==
    /\ u \in Seq(Node) /\ Len(u) = Len(t)
    /\ \A i \in 1 .. Len(t) : /\ u[i].id = t[i].id /\ u[i].pred = t[i].pred
                              /\ u[i].bp = t[i].bp /\ u[i].rej = t[i].rej
                              /\ u[i].mis = t[i].mis /\ u[i].exe = t[i].exe
                              /\ u[i].acks \subseteq t[i].acks

(* Awaiting nothing less is a case of it.                                    *)
LEMMA AcksOnlyRefl == ASSUME NEW t \in Seq(Node) PROVE AcksOnly(t, t)
  BY DEF AcksOnly

(* Such steps compose.                                                       *)
LEMMA AcksOnlyTrans ==
    ASSUME NEW t, NEW u, NEW v, AcksOnly(t, u), AcksOnly(u, v)
    PROVE  AcksOnly(t, v)
  BY DEF AcksOnly

(* A settled script stays settled.                                           *)
LEMMA AcksOnlySettled ==
    ASSUME NEW t, NEW u, AcksOnly(t, u), NEW id, SettledIn(t, id)
    PROVE  SettledIn(u, id)
  <1>1. PICK f \in 1 .. Len(t) : t[f].id = id /\ Executed(t[f]) /\ Confirmed(t[f])
    BY DEF SettledIn
  <1>2. f \in 1 .. Len(u) /\ u[f].id = id /\ Executed(u[f]) /\ Confirmed(u[f])
    BY <1>1 DEF AcksOnly, Executed, Confirmed
  <1> QED
    BY <1>2 DEF SettledIn

(* Fewer awaited acknowledgments keep a history sound.                       *)
LEMMA AcksOnlySound ==
    ASSUME NEW h, Sound(h), NEW h1 \in History, AcksOnly(h.nodes, h1.nodes),
           SettledIn(h1.nodes, h1.fis)
    PROVE  Sound(h1) /\ \A tip : Done(h.nodes, tip) => Done(h1.nodes, tip)
  <1> DEFINE t == h.nodes
             u == h1.nodes
  <1>1. SameTree(t, u)
    BY DEF AcksOnly, SameTree
  <1>2. Tree(t) /\ Tree(u) /\ Parents(u) = Parents(t) /\ Len(u) = Len(t)
    BY <1>1, SameTreeTree DEF Sound
  <1>3. \A i \in 1 .. Len(t) : /\ u[i].rej = t[i].rej /\ u[i].mis = t[i].mis /\ u[i].exe = t[i].exe
                               /\ u[i].acks \subseteq t[i].acks
    BY DEF AcksOnly
  <1>4. 1 \in 1 .. Len(t)
    BY <1>2 DEF Tree, Shaped, Preorder
  <1>5. RootSettled(u)
    BY <1>3, <1>4 DEF Sound, RootSettled
  <1>6. MissingNotDone(u)
    BY <1>2, <1>3 DEF Sound, MissingNotDone
  <1>7. \A tip : Done(t, tip) => Done(u, tip)
    BY <1>2, <1>3 DEF Done
  <1>8. \E tip : Done(u, tip)
    BY <1>7 DEF Sound
  <1> QED
    BY <1>2, <1>5, <1>6, <1>7, <1>8 DEF Sound

(* The marker advances to settled scripts only.                              *)
LEMMA AdvanceFisSettled ==
    ASSUME NEW h \in History
    PROVE  AdvanceFis(h) = h.fis \/ SettledIn(h.nodes, AdvanceFis(h))
  <1> DEFINE t    == h.nodes
             from == FisIdx(h)
             stop == Least({j \in from + 1 .. Len(t) :
                               ~IsCandidateForFis(t[j]) /\ NoMoreCandidatesForFis(t[j])},
                           Len(t) + 1)
             S    == {j \in from + 1 .. stop - 1 : IsCandidateForFis(t[j])}
             best == Greatest(S, 0)
  <1>1. t \in Seq(Node) /\ Len(t) \in Nat /\ from \in 0 .. Len(t)
    BY NodesType, FindIdxType DEF History, FisIdx
  <1>2. stop \in 1 .. Len(t) + 1
    <2> DEFINE Q == {j \in from + 1 .. Len(t) :
                         ~IsCandidateForFis(t[j]) /\ NoMoreCandidatesForFis(t[j])}
    <2>1. Q \in SUBSET Nat /\ \A j \in Q : j \in 1 .. Len(t) + 1
      BY <1>1
    <2>2. stop = Least(Q, Len(t) + 1)
      OBVIOUS
    <2>3. Len(t) + 1 \in 1 .. Len(t) + 1
      BY <1>1
    <2> HIDE DEF Q, stop, t
    <2>4. (Q = {} => stop = Len(t) + 1) /\ (Q # {} => stop \in Q)
      BY <2>1, <2>2, LeastIs
    <2> QED
      BY <2>1, <2>3, <2>4
  <1> HIDE DEF stop, from, t
  <1>3. \A j \in S : j \in 1 .. Len(t) /\ IsCandidateForFis(t[j])
    BY <1>1, <1>2
  <1>4. S \in SUBSET (0 .. Len(t))
    BY <1>1, <1>3
  <1>5. (S = {} => best = 0) /\ (S # {} => best \in S)
    BY <1>1, <1>4, GreatestIs
  <1>6. AdvanceFis(h) = IF best = 0 THEN h.fis ELSE t[best].id
    BY DEF AdvanceFis, from, stop, t
  <1> HIDE DEF best, S
  <1>7. CASE best = 0
    BY <1>6, <1>7
  <1>8. CASE best # 0
    <2>1. best \in 1 .. Len(t) /\ IsCandidateForFis(t[best])
      BY <1>3, <1>5, <1>8
    <2> QED
      BY <1>6, <1>8, <2>1 DEF IsCandidateForFis, SettledIn, t
  <1> QED
    BY <1>7, <1>8

(***************************************************************************)
(* Confirming older scripts only takes acknowledgments away and leaves the  *)
(* marker on a settled script.                                              *)
(***************************************************************************)
LEMMA ConfirmAcks ==
    ASSUME NEW h \in History, SettledIn(h.nodes, h.fis), NEW i
    PROVE  LET h1 == ConfirmAllOlderNodes(h, i)
           IN  /\ h1 \in History /\ AcksOnly(h.nodes, h1.nodes) /\ SettledIn(h1.nodes, h1.fis)
  <1> DEFINE t    == h.nodes
             last == Greatest({j \in FisIdx(h) .. i - 1 : Confirmed(t[j])}, FisIdx(h) - 1)
             u    == [j \in 1 .. Len(t) |->
                         IF j \in last + 1 .. i - 1 THEN [t[j] EXCEPT !.acks = {}] ELSE t[j]]
             h1   == [h EXCEPT !.nodes = u]
             h2   == ConfirmAllOlderNodes(h, i)
  <1>1. t \in Seq(Node) /\ Len(t) \in Nat /\ \A j \in 1 .. Len(t) : t[j] \in Node
    BY ArrayType DEF History
  <1>2. h2 \in History
    BY ConfirmAllOlderNodesKeeps DEF Keeps
  <1>3. h2 = IF i >= FisIdx(h) THEN [h1 EXCEPT !.fis = AdvanceFis(h1)] ELSE h
    BY DEF ConfirmAllOlderNodes
  <1>4. AcksOnly(t, u)
    <2>1. \A n \in Node : /\ [n EXCEPT !.acks = {}] \in Node
                          /\ [n EXCEPT !.acks = {}].id = n.id /\ [n EXCEPT !.acks = {}].pred = n.pred
                          /\ [n EXCEPT !.acks = {}].bp = n.bp /\ [n EXCEPT !.acks = {}].rej = n.rej
                          /\ [n EXCEPT !.acks = {}].mis = n.mis /\ [n EXCEPT !.acks = {}].exe = n.exe
                          /\ [n EXCEPT !.acks = {}].acks = {}
      BY AckTypes DEF Node
    <2> DEFINE N(j) == IF j \in last + 1 .. i - 1 THEN [t[j] EXCEPT !.acks = {}] ELSE t[j]
    <2>2. \A j \in 1 .. Len(t) : N(j) = t[j] \/ N(j) = [t[j] EXCEPT !.acks = {}]
      OBVIOUS
    <2>3. u = [j \in 1 .. Len(t) |-> N(j)]
      OBVIOUS
    <2> HIDE DEF N, u, t
    <2>4. ASSUME NEW j \in 1 .. Len(t)
          PROVE  /\ N(j) \in Node /\ N(j).id = t[j].id /\ N(j).pred = t[j].pred
                 /\ N(j).bp = t[j].bp /\ N(j).rej = t[j].rej
                 /\ N(j).mis = t[j].mis /\ N(j).exe = t[j].exe
                 /\ N(j).acks \subseteq t[j].acks
      <3>1. t[j] \in Node
        BY <1>1
      <3>2. CASE N(j) = t[j]
        BY <3>1, <3>2
      <3>3. CASE N(j) = [t[j] EXCEPT !.acks = {}]
        BY <2>1, <3>1, <3>3, Zenon
      <3> QED
        BY <2>2, <3>2, <3>3
    <2>5. u \in [1 .. Len(t) -> Node] /\ \A j \in 1 .. Len(t) : u[j] = N(j)
      BY <2>3, <2>4
    <2>6. u \in Seq(Node) /\ Len(u) = Len(t)
      BY <1>1, <2>5, FunctionIsArray
    <2> QED
      BY <2>4, <2>5, <2>6 DEF AcksOnly
  <1> HIDE DEF u, t
  <1>5. h1 \in History /\ h1.nodes = u /\ h1.fis = h.fis
    BY <1>4 DEF AcksOnly, History
  <1> HIDE DEF h1
  <1>6. SettledIn(u, h.fis)
    BY <1>4, AcksOnlySettled DEF t
  <1>7. CASE i >= FisIdx(h)
    <2>1. AdvanceFis(h1) = h.fis \/ SettledIn(u, AdvanceFis(h1))
      BY <1>5, AdvanceFisSettled
    <2>2. h2.nodes = u /\ h2.fis = AdvanceFis(h1)
      <3>1. h2 = [h1 EXCEPT !.fis = AdvanceFis(h1)]
        BY <1>3, <1>7
      <3> HIDE DEF h2
      <3> QED
        BY <1>5, <3>1 DEF History
    <2> QED
      BY <1>2, <1>4, <1>6, <2>1, <2>2 DEF t
  <1>8. CASE ~(i >= FisIdx(h))
    <2>1. h2 = h
      BY <1>3, <1>8
    <2> QED
      BY <1>1, <2>1, AcksOnlyRefl DEF t
  <1> QED
    BY <1>7, <1>8

(* So does accepting an acknowledgment.                                      *)
LEMMA AcceptAcks ==
    ASSUME NEW h \in History, SettledIn(h.nodes, h.fis), NEW id, NEW from
    PROVE  LET h1 == AcceptAck(h, id, from)
           IN  /\ h1 \in History /\ AcksOnly(h.nodes, h1.nodes) /\ SettledIn(h1.nodes, h1.fis)
  <1> DEFINE t  == h.nodes
             i  == FindIdx(t, id)
             u  == Replace(t, i, AckFrom(t[i], from))
             h1 == [h EXCEPT !.nodes = u]
             h2 == AcceptAck(h, id, from)
  <1>1. t \in Seq(Node) /\ Len(t) \in Nat /\ \A j \in 1 .. Len(t) : t[j] \in Node
    BY ArrayType DEF History
  <1>2. i \in 0 .. Len(t)
    BY <1>1, FindIdxType
  <1>3. h2 = IF i = 0 \/ i < FisIdx(h) THEN h
             ELSE IF Confirmed(h1.nodes[i]) THEN ConfirmAllOlderNodes(h1, i)
             ELSE h1
    BY DEF AcceptAck
  <1>4. ASSUME i # 0 PROVE AcksOnly(t, u)
    <2>1. i \in 1 .. Len(t) /\ t[i] \in Node
      BY <1>1, <1>2, <1>4
    <2> DEFINE n == AckFrom(t[i], from)
    <2>2. /\ n \in Node /\ n.id = t[i].id /\ n.pred = t[i].pred /\ n.bp = t[i].bp /\ n.rej = t[i].rej
          /\ n.mis = t[i].mis /\ n.exe = t[i].exe /\ n.acks \subseteq t[i].acks
      BY <2>1, AckTypes DEF AckFrom, Node
    <2> HIDE DEF n
    <2>3. u \in Seq(Node) /\ Len(u) = Len(t)
      BY <1>1, <2>2, ReplaceType DEF SameScripts, n
    <2>4. \A j \in 1 .. Len(t) : u[j] = IF j = i THEN n ELSE t[j]
      BY DEF Replace, n
    <2> HIDE DEF u, t, i
    <2> QED
      BY <2>2, <2>3, <2>4 DEF AcksOnly
  <1>5. CASE i = 0 \/ i < FisIdx(h)
    <2>1. h2 = h
      BY <1>3, <1>5
    <2> QED
      BY <1>1, <2>1, AcksOnlyRefl
  <1>6. CASE ~(i = 0 \/ i < FisIdx(h))
    <2>1. AcksOnly(t, u)
      BY <1>4, <1>6
    <2> HIDE DEF u, t
    <2>2. h1 \in History /\ h1.nodes = u /\ h1.fis = h.fis
      BY <2>1 DEF AcksOnly, History
    <2> HIDE DEF h1
    <2>3. SettledIn(h1.nodes, h1.fis)
      BY <2>1, <2>2, AcksOnlySettled DEF t
    <2>4. CASE Confirmed(h1.nodes[i])
      <3>1. h2 = ConfirmAllOlderNodes(h1, i)
        BY <1>3, <1>6, <2>4
      <3>2. h2 \in History /\ AcksOnly(h1.nodes, h2.nodes) /\ SettledIn(h2.nodes, h2.fis)
        BY <2>2, <2>3, <3>1, ConfirmAcks
      <3> QED
        BY <2>1, <2>2, <3>2, AcksOnlyTrans DEF t
    <2>5. CASE ~Confirmed(h1.nodes[i])
      <3>1. h2 = h1
        BY <1>3, <1>6, <2>5
      <3> QED
        BY <2>1, <2>2, <2>3, <3>1 DEF t
    <2> QED
      BY <2>4, <2>5
  <1> QED
    BY <1>5, <1>6

----------------------------------------------------------------------------
(* The script to execute next *)

(* The scripts that are neither executed nor rejected.                       *)
Waiting(t) == {j \in 1 .. Len(t) : ~t[j].exe /\ ~t[j].rej}

(***************************************************************************)
(* The script to execute next by the first waiting script of the whole      *)
(* array, wherever the marker is.                                           *)
(***************************************************************************)
NextOf(t) ==
    LET i == Least(Waiting(t), 0)
    IN  IF i # 0 /\ ~t[i].mis THEN t[i].id ELSE NoId

(* Trunk and executed branch are both paths.                                 *)
LEMMA TrunkAndFiles ==
    ASSUME NEW t, Tree(t), NEW tip, Done(t, tip)
    PROVE  LET a == Parents(t)
               n == Len(t)
           IN  /\ n \in Nat /\ n > 0 /\ tip \in 1 .. n
               /\ \A i \in 1 .. n : t[i].rej \in BOOLEAN /\ t[i].exe \in BOOLEAN /\ t[i].mis \in BOOLEAN
               /\ \A i \in 1 .. n : t[i].exe <=> Under(a, i, tip)
               /\ \A i \in 1 .. n : ~t[i].rej <=> Under(a, i, n)
               /\ \A i, j \in 1 .. n : i <= j /\ ~t[i].rej /\ ~t[j].rej => Under(a, i, j)
               /\ \A i, j \in 1 .. n : i <= j /\ t[i].exe /\ t[j].exe => Under(a, i, j)
               /\ \A i, j \in 1 .. n : Under(a, i, j) /\ ~t[j].rej => ~t[i].rej
               /\ \A i, j \in 1 .. n : Under(a, i, j) /\ t[j].exe => t[i].exe
               /\ \A i, j \in 1 .. n : Under(a, i, j) => i <= j
               /\ t[tip].exe /\ ~t[n].rej
  <1> DEFINE a == Parents(t)
             n == Len(t)
  <1>1. Preorder(a, n) /\ n \in Nat /\ n > 0 /\ tip \in 1 .. n /\ n \in 1 .. n
    BY DEF Tree, Shaped, Preorder, Done
  <1>2. \A i \in 1 .. n : t[i].rej \in BOOLEAN /\ t[i].exe \in BOOLEAN /\ t[i].mis \in BOOLEAN
    <2>1. \A i \in 1 .. n : t[i] \in Node
      BY ArrayType DEF Tree
    <2> QED
      BY <2>1 DEF Node
  <1>3. \A i \in 1 .. n : t[i].exe <=> Under(a, i, tip)
    BY DEF Done
  <1>4. \A i \in 1 .. n : ~t[i].rej <=> Under(a, i, n)
    BY DEF Tree, Trunk
  <1>5. \A i, j \in 1 .. n : Under(a, i, j) => i <= j
    BY DEF Under
  <1> HIDE DEF a, n
  <1>6. /\ \A i \in 1 .. n : Under(a, i, i)
        /\ \A i, j, k \in 1 .. n : Under(a, i, j) /\ Under(a, j, k) => Under(a, i, k)
        /\ \A i, j, k \in 1 .. n : Under(a, i, k) /\ Under(a, j, k) /\ i <= j => Under(a, i, j)
    BY <1>1, UnderFacts
  <1> QED
    BY <1>1, <1>2, <1>3, <1>4, <1>5, <1>6 DEF a, n

(***************************************************************************)
(* Searching from the marker finds what a search of the whole array finds:  *)
(* nothing waits before a settled script.                                   *)
(***************************************************************************)
LEMMA MarkerOf ==
    ASSUME NEW h, Sound(h)
    PROVE  NextMarker(h) = NextOf(h.nodes)
  <1> DEFINE t == h.nodes
             n == Len(t)
             a == Parents(t)
             S == {j \in FisIdx(h) .. Len(t) : Candidate(t[j]) \/ (t[j].mis /\ ~Rejected(t[j]))}
  <1>1. PICK tip : Done(t, tip)
    BY DEF Sound
  <1>2. PICK f \in 1 .. n : t[f].id = h.fis /\ Executed(t[f]) /\ Confirmed(t[f])
    BY DEF Sound, SettledIn
  <1>3. FisIdx(h) = f
    BY <1>2, Places DEF FisIdx, Sound, Tree
  <1>4. /\ n \in Nat /\ tip \in 1 .. n
        /\ \A i \in 1 .. n : t[i].rej \in BOOLEAN /\ t[i].exe \in BOOLEAN /\ t[i].mis \in BOOLEAN
        /\ \A i, j \in 1 .. n : i <= j /\ ~t[i].rej /\ ~t[j].rej => Under(a, i, j)
        /\ \A i, j \in 1 .. n : Under(a, i, j) /\ t[j].exe => t[i].exe
    BY <1>1, TrunkAndFiles DEF Sound
  <1>5. \A i \in 1 .. n : t[i].mis => ~t[i].exe
    BY DEF Sound, MissingNotDone
  <1>6. \A j \in 1 .. n : Candidate(t[j]) \/ (t[j].mis /\ ~Rejected(t[j])) <=> ~t[j].exe /\ ~t[j].rej
    BY <1>4, <1>5 DEF Candidate, Rejected
  <1>7. ASSUME NEW j \in 1 .. n, ~t[j].exe, ~t[j].rej PROVE f <= j
    <2>1. SUFFICES ASSUME j < f PROVE FALSE
      BY <1>2, <1>4
    <2>2. t[f].exe /\ ~t[f].rej
      BY <1>2 DEF Executed
    <2>3. Under(a, j, f)
      BY <1>2, <1>4, <1>7, <2>1, <2>2
    <2> QED
      BY <1>2, <1>4, <1>7, <2>2, <2>3
  <1>8. S = Waiting(t)
    BY <1>2, <1>3, <1>4, <1>6, <1>7 DEF Waiting
  <1>9. Waiting(t) \in SUBSET Nat /\ \A j \in Waiting(t) : Candidate(t[j]) <=> ~t[j].mis
    BY <1>4 DEF Waiting, Candidate
  <1>10. (Waiting(t) = {} => Least(Waiting(t), 0) = 0)
         /\ (Waiting(t) # {} => Least(Waiting(t), 0) \in Waiting(t))
    BY <1>9, LeastIs
  <1>11. NextMarker(h) = LET i == Least(S, 0) IN IF i # 0 /\ Candidate(t[i]) THEN t[i].id ELSE NoId
    BY DEF NextMarker
  <1> HIDE DEF S, t
  <1> QED
    BY <1>8, <1>9, <1>10, <1>11 DEF NextOf, t

(* The next script's predecessors are exactly the accepted executed scripts. *)
LEMMA NextFollows ==
    ASSUME NEW h, Sound(h), NextOf(h.nodes) # NoId
    PROVE  LET t == h.nodes
               a == Parents(t)
           IN  \E i \in 1 .. Len(t) :
                  /\ t[i].id = NextOf(t) /\ FindIdx(t, NextOf(t)) = i
                  /\ ~t[i].exe /\ ~t[i].rej /\ ~t[i].mis
                  /\ \A j \in 1 .. Len(t) :
                        Under(a, j, i) <=> j = i \/ (t[j].exe /\ ~t[j].rej)
  <1> DEFINE t == h.nodes
             n == Len(t)
             a == Parents(t)
             i == Least(Waiting(t), 0)
  <1>1. PICK tip : Done(t, tip)
    BY DEF Sound
  <1>2. /\ n \in Nat /\ tip \in 1 .. n
        /\ \A x \in 1 .. n : t[x].rej \in BOOLEAN /\ t[x].exe \in BOOLEAN /\ t[x].mis \in BOOLEAN
        /\ \A x, y \in 1 .. n : x <= y /\ ~t[x].rej /\ ~t[y].rej => Under(a, x, y)
        /\ \A x, y \in 1 .. n : Under(a, x, y) /\ ~t[y].rej => ~t[x].rej
        /\ \A x, y \in 1 .. n : Under(a, x, y) /\ t[y].exe => t[x].exe
        /\ \A x, y \in 1 .. n : Under(a, x, y) => x <= y
    BY <1>1, TrunkAndFiles DEF Sound
  <1>3. Waiting(t) \in SUBSET Nat
    BY <1>2 DEF Waiting
  <1>4. /\ Waiting(t) = {} => i = 0
        /\ Waiting(t) # {} => i \in Waiting(t) /\ \A j \in Waiting(t) : i <= j
    BY <1>3, LeastIs
  <1>5. i # 0 /\ ~t[i].mis /\ NextOf(t) = t[i].id
    BY DEF NextOf
  <1> HIDE DEF i, t
  <1>6. i \in 1 .. n /\ ~t[i].exe /\ ~t[i].rej /\ \A j \in 1 .. n : ~t[j].exe /\ ~t[j].rej => i <= j
    BY <1>4, <1>5 DEF Waiting
  <1>7. FindIdx(t, NextOf(t)) = i
    BY <1>5, <1>6, Places DEF Sound, Tree, t
  <1>8. ASSUME NEW j \in 1 .. n PROVE Under(a, j, i) <=> j = i \/ (t[j].exe /\ ~t[j].rej)
    <2>1. Under(a, i, i)
      BY <1>2, <1>6
    <2>2. ASSUME Under(a, j, i), j # i PROVE t[j].exe /\ ~t[j].rej
      BY <1>2, <1>6, <2>2
    <2>3. ASSUME t[j].exe, ~t[j].rej PROVE Under(a, j, i)
      <3>1. CASE j <= i
        BY <1>2, <1>6, <2>3, <3>1
      <3>2. CASE ~(j <= i)
        <4>1. Under(a, i, j)
          BY <1>2, <1>6, <2>3, <3>2
        <4> QED
          BY <1>2, <1>6, <2>3, <4>1
      <3> QED
        BY <3>1, <3>2
    <2> QED
      BY <2>1, <2>2, <2>3
  <1> QED
    BY <1>5, <1>6, <1>7, <1>8 DEF t

(* Acknowledgments do not change what is to be executed next.                *)
LEMMA AcksOnlyNext ==
    ASSUME NEW t \in Seq(Node), NEW u, AcksOnly(t, u)
    PROVE  NextOf(u) = NextOf(t)
  <1>1. Waiting(u) = Waiting(t)
    BY DEF AcksOnly, Waiting
  <1>2. Len(t) \in Nat
    BY ArrayType
  <1>3. Waiting(t) \in SUBSET Nat
    BY <1>2 DEF Waiting
  <1>4. LET i == Least(Waiting(t), 0) IN i = 0 \/ i \in 1 .. Len(t)
    <2>1. \A i \in Waiting(t) : i \in 1 .. Len(t)
      BY DEF Waiting
    <2> QED
      BY <1>3, <2>1, LeastIs
  <1> QED
    BY <1>1, <1>4 DEF AcksOnly, NextOf

----------------------------------------------------------------------------
(* Steps that keep the tree: executing, replacing, losing a script *)

(* Replacing a node by one with the same place and bits keeps the shape.     *)
LEMMA ReplacedTree ==
    ASSUME NEW h \in History, NEW i \in 1 .. Len(h.nodes), NEW n \in Node,
           n.id = h.nodes[i].id, n.pred = h.nodes[i].pred,
           n.bp = h.nodes[i].bp, n.rej = h.nodes[i].rej
    PROVE  LET u == Replace(h.nodes, i, n)
           IN  /\ SameTree(h.nodes, u) /\ u[i] = n
               /\ \A j \in 1 .. Len(h.nodes) : j # i => u[j] = h.nodes[j]
               /\ [h EXCEPT !.nodes = u] \in History
               /\ [h EXCEPT !.nodes = u].nodes = u /\ [h EXCEPT !.nodes = u].fis = h.fis
  <1> DEFINE t == h.nodes
             u == Replace(t, i, n)
  <1>1. t \in Seq(Node)
    BY DEF History
  <1>2. u \in Seq(Node) /\ Len(u) = Len(t)
    BY <1>1, ReplaceType DEF SameScripts
  <1>3. \A j \in 1 .. Len(t) : u[j] = IF j = i THEN n ELSE t[j]
    BY DEF Replace
  <1> HIDE DEF u
  <1>4. SameTree(t, u)
    BY <1>2, <1>3 DEF SameTree
  <1>5. /\ [h EXCEPT !.nodes = u] \in History
        /\ [h EXCEPT !.nodes = u].nodes = u /\ [h EXCEPT !.nodes = u].fis = h.fis
    BY <1>2 DEF History
  <1> QED
    BY <1>3, <1>4, <1>5 DEF u

(* Replacing a node that is not executed keeps a history sound.              *)
LEMMA ReplacedSound ==
    ASSUME NEW h, Sound(h), NEW i \in 1 .. Len(h.nodes), NEW n \in Node,
           n.id = h.nodes[i].id, n.pred = h.nodes[i].pred,
           n.bp = h.nodes[i].bp, n.rej = h.nodes[i].rej,
           ~h.nodes[i].exe, ~n.exe
    PROVE  LET h1 == [h EXCEPT !.nodes = Replace(h.nodes, i, n)]
           IN  /\ Sound(h1) /\ SameTree(h.nodes, h1.nodes)
               /\ h1.nodes[i] = n
               /\ \A j \in 1 .. Len(h.nodes) : j # i => h1.nodes[j] = h.nodes[j]
               /\ \A tip : Done(h.nodes, tip) <=> Done(h1.nodes, tip)
  <1> DEFINE t  == h.nodes
             u  == Replace(t, i, n)
             h1 == [h EXCEPT !.nodes = u]
  <1>0. h \in History /\ Tree(t)
    BY DEF Sound
  <1>1. /\ SameTree(t, u) /\ u[i] = n /\ \A j \in 1 .. Len(t) : j # i => u[j] = t[j]
        /\ h1 \in History /\ h1.nodes = u /\ h1.fis = h.fis
    BY <1>0, ReplacedTree
  <1> HIDE DEF u, h1
  <1>2. Tree(u) /\ Parents(u) = Parents(t) /\ Len(u) = Len(t)
    BY <1>0, <1>1, SameTreeTree
  <1>3. \A tip : Done(t, tip) <=> Done(u, tip)
    BY <1>1, <1>2 DEF Done
  <1>4. i # 1 /\ RootSettled(u)
    <2>1. t[1].exe /\ 1 \in 1 .. Len(t)
      BY <1>0 DEF Sound, RootSettled, Tree, Shaped, Preorder
    <2> QED
      BY <1>1, <2>1 DEF Sound, RootSettled
  <1>5. MissingNotDone(u)
    BY <1>1, <1>2 DEF Sound, MissingNotDone
  <1>6. SettledIn(u, h.fis)
    <2>1. PICK f \in 1 .. Len(t) : t[f].id = h.fis /\ Executed(t[f]) /\ Confirmed(t[f])
      BY DEF Sound, SettledIn
    <2>2. f # i
      BY <2>1 DEF Executed
    <2>3. u[f] = t[f]
      BY <1>1, <2>2
    <2> QED
      BY <1>2, <2>1, <2>3 DEF SettledIn
  <1>7. \E tip : Done(u, tip)
    BY <1>3 DEF Sound
  <1> QED
    BY <1>1, <1>2, <1>3, <1>4, <1>5, <1>6, <1>7 DEF Sound, h1, u

(* Finding the next script unreadable keeps a history sound.                 *)
LEMMA SetMissingSound ==
    ASSUME NEW h, Sound(h), NextOf(h.nodes) # NoId
    PROVE  LET h1 == SetMissing(h, NextOf(h.nodes))
           IN  /\ Sound(h1) /\ SameTree(h.nodes, h1.nodes)
               /\ \A j \in 1 .. Len(h.nodes) : h1.nodes[j].exe = h.nodes[j].exe
               /\ \A tip : Done(h.nodes, tip) <=> Done(h1.nodes, tip)
  <1> DEFINE t == h.nodes
  <1>1. PICK i \in 1 .. Len(t) : FindIdx(t, NextOf(t)) = i /\ ~t[i].exe
    BY NextFollows
  <1> DEFINE n == [t[i] EXCEPT !.mis = TRUE]
  <1>2. t[i] \in Node
    BY ArrayType DEF Sound, Tree
  <1>3. n \in Node /\ n.id = t[i].id /\ n.pred = t[i].pred /\ n.bp = t[i].bp /\ n.rej = t[i].rej
        /\ n.exe = t[i].exe
    BY <1>2 DEF Node
  <1>4. SetMissing(h, NextOf(t)) = [h EXCEPT !.nodes = Replace(t, i, n)]
    BY <1>1 DEF SetMissing
  <1> HIDE DEF n
  <1> QED
    BY <1>1, <1>3, <1>4, ReplacedSound

(* So does putting a script in the place of its placeholder.                 *)
LEMMA SubstituteSound ==
    ASSUME NEW h, Sound(h), NEW n \in Node, NEW i \in 1 .. Len(h.nodes),
           h.nodes[i].id = n.id, h.nodes[i].pred = n.pred, h.nodes[i].mis, ~n.exe
    PROVE  LET h1 == SubstituteNode(h, n)
           IN  /\ Sound(h1) /\ SameTree(h.nodes, h1.nodes)
               /\ \A j \in 1 .. Len(h.nodes) : h1.nodes[j].exe = h.nodes[j].exe
               /\ \A tip : Done(h.nodes, tip) <=> Done(h1.nodes, tip)
  <1> DEFINE t == h.nodes
             v == [n EXCEPT !.rej = t[i].rej, !.bp = t[i].bp]
  <1>1. t \in Seq(Node) /\ t[i] \in Node
    BY ArrayType DEF Sound, Tree
  <1>2. FindIdx(t, n.id) = i
    BY Places DEF Sound, Tree
  <1>3. ~t[i].exe
    BY DEF Sound, MissingNotDone
  <1>4. v \in Node /\ v.id = t[i].id /\ v.pred = t[i].pred /\ v.bp = t[i].bp /\ v.rej = t[i].rej
        /\ v.exe = n.exe
    <2>1. t[i].rej \in BOOLEAN /\ t[i].bp \in BOOLEAN
      BY <1>1 DEF Node
    <2>2. ASSUME NEW r \in BOOLEAN, NEW b \in BOOLEAN
          PROVE  LET w == [n EXCEPT !.rej = r, !.bp = b]
                 IN  /\ w \in Node /\ w.id = n.id /\ w.pred = n.pred
                     /\ w.bp = b /\ w.rej = r /\ w.exe = n.exe
      BY DEF Node
    <2> QED
      BY <2>1, <2>2
  <1>5. SubstituteNode(h, n) = [h EXCEPT !.nodes = Replace(t, i, v)]
    BY <1>2 DEF SubstituteNode
  <1> HIDE DEF v
  <1>6. ~v.exe /\ v.exe = t[i].exe
    BY <1>1, <1>3, <1>4 DEF Node
  <1> QED
    BY <1>3, <1>4, <1>5, <1>6, ReplacedSound

(***************************************************************************)
(* The scripts to undo, found from the end of the array, are all the        *)
(* rejected ones still executed.                                            *)
(***************************************************************************)
LEMMA UndoneScripts ==
    ASSUME NEW h, Sound(h)
    PROVE  ToBeRejectedScripts(h) = {i \in 1 .. Len(h.nodes) : h.nodes[i].exe /\ h.nodes[i].rej}
  <1> DEFINE t == h.nodes
             n == Len(t)
             a == Parents(t)
  <1>1. PICK tip : Done(t, tip)
    BY DEF Sound
  <1>2. /\ n \in Nat
        /\ \A x \in 1 .. n : t[x].rej \in BOOLEAN /\ t[x].exe \in BOOLEAN
        /\ \A x, y \in 1 .. n : x <= y /\ t[x].exe /\ t[y].exe => Under(a, x, y)
        /\ \A x, y \in 1 .. n : Under(a, x, y) /\ ~t[y].rej => ~t[x].rej
    BY <1>1, TrunkAndFiles DEF Sound
  <1>3. DOMAIN t = 1 .. n
    BY NodesType DEF Sound, Tree
  <1>4. ASSUME NEW i \in 1 .. n, t[i].exe, t[i].rej, NEW j \in i + 1 .. n
        PROVE  ~Executed(t[j])
    <2>1. j \in 1 .. n /\ i <= j
      BY <1>2
    <2> QED
      BY <1>2, <1>4, <2>1 DEF Executed
  <1> QED
    BY <1>3, <1>4 DEF ToBeRejectedScripts, ToBeRejected

(* Acknowledgments are as before, or no longer awaited by a script with a     *)
(* confirmed one behind it in the array.                                    *)
Overtaken(t, j) == ~Confirmed(t[j]) /\ \E i \in j + 1 .. Len(t) : Confirmed(t[i])

Overtakes(t, u) ==
    \A j \in 1 .. Len(t) :
        u[j].acks = t[j].acks \/ (Confirmed(u[j]) /\ Overtaken(t, j))

(***************************************************************************)
(* Undoing them leaves the accepted executed scripts, and the marker on a   *)
(* settled script.                                                          *)
(***************************************************************************)
LEMMA UndoScriptsFrame ==
    ASSUME NEW h, Sound(h)
    PROVE  LET t  == h.nodes
               h1 == UndoScripts(h, ToBeRejectedScripts(h))
               u  == h1.nodes
           IN  /\ h1 \in History /\ SameTree(t, u) /\ SettledIn(u, h1.fis)
               /\ \A j \in 1 .. Len(t) : /\ u[j].exe <=> t[j].exe /\ ~t[j].rej
                                         /\ u[j].mis = t[j].mis /\ u[j].acks \subseteq t[j].acks
               /\ Overtakes(t, u)
  <1> DEFINE t    == h.nodes
             undo == ToBeRejectedScripts(h)
             from == FisIdx(h)
             Cleared(j) ==
                 \E i \in undo : /\ Confirmed(t[i])
                                 /\ from <= j /\ j < i
                                 /\ \A k \in j .. i - 1 : ~Confirmed(t[k])
             After(S) == [j \in 1 .. Len(t) |->
                             [t[j] EXCEPT !.exe  = @ /\ j \notin S,
                                          !.acks = IF Cleared(j) THEN {} ELSE @]]
             oldest == Least({i \in undo : i >= from /\ (Confirmed(t[i]) \/ Cleared(i))}, 0)
             atLast == {i \in undo : i >= oldest}
             h2     == [nodes |-> After(atLast), fis |-> h.fis]
             fis2   == IF oldest = 0 THEN h.fis ELSE AdvanceFis(h2)
  <1>1. h \in History /\ t \in Seq(Node) /\ h.fis \in Gid
    BY DEF Sound, History
  <1>2. Len(t) \in Nat /\ \A j \in 1 .. Len(t) : t[j] \in Node
    BY <1>1, NodesType
  <1>4. ASSUME NEW S
        PROVE  /\ After(S) \in Seq(Node) /\ SameTree(t, After(S))
               /\ \A j \in 1 .. Len(t) : /\ After(S)[j].exe <=> t[j].exe /\ j \notin S
                                         /\ After(S)[j].mis = t[j].mis
                                         /\ After(S)[j].acks \subseteq t[j].acks
                                         /\ After(S)[j].acks = IF Cleared(j) THEN {} ELSE t[j].acks
    <2> DEFINE X(j) == t[j].exe /\ j \notin S
               C(j) == IF Cleared(j) THEN {} ELSE t[j].acks
               A(j) == [t[j] EXCEPT !.exe = X(j), !.acks = C(j)]
    <2>1. ASSUME NEW j \in 1 .. Len(t)
          PROVE  /\ A(j) \in Node /\ A(j).id = t[j].id /\ A(j).pred = t[j].pred /\ A(j).bp = t[j].bp
                 /\ A(j).rej = t[j].rej /\ A(j).mis = t[j].mis /\ A(j).acks \subseteq t[j].acks
                 /\ (A(j).exe <=> t[j].exe /\ j \notin S)
                 /\ A(j).acks = IF Cleared(j) THEN {} ELSE t[j].acks
      <3>1. t[j] \in Node
        BY <1>2
      <3>2. X(j) \in BOOLEAN
        BY Zenon
      <3>3. t[j].acks \in SUBSET User
        BY <3>1 DEF Node
      <3> HIDE DEF Cleared
      <3>4. C(j) \in SUBSET User /\ C(j) \subseteq t[j].acks
        BY <3>3
      <3> HIDE DEF X, C
      <3>5. /\ A(j) \in Node /\ A(j).id = t[j].id /\ A(j).pred = t[j].pred /\ A(j).bp = t[j].bp
            /\ A(j).rej = t[j].rej /\ A(j).mis = t[j].mis /\ A(j).acks = C(j) /\ A(j).exe = X(j)
        <4>1. PICK x \in BOOLEAN : x = X(j)
          BY <3>2
        <4>2. PICK c \in SUBSET User : c = C(j)
          BY <3>4
        <4>3. A(j) = [t[j] EXCEPT !.exe = x, !.acks = c]
          BY <4>1, <4>2
        <4> HIDE DEF A
        <4>4. /\ A(j) \in Node /\ A(j).id = t[j].id /\ A(j).pred = t[j].pred /\ A(j).bp = t[j].bp
              /\ A(j).rej = t[j].rej /\ A(j).mis = t[j].mis /\ A(j).acks = c /\ A(j).exe = x
          <5>1. LET w == [t[j] EXCEPT !.exe = x, !.acks = c]
                IN  /\ w \in Node /\ w.id = t[j].id /\ w.pred = t[j].pred /\ w.bp = t[j].bp
                    /\ w.rej = t[j].rej /\ w.mis = t[j].mis /\ w.acks = c /\ w.exe = x
            BY <3>1 DEF Node
          <5> QED
            BY <4>3, <5>1
        <4> QED
          BY <4>1, <4>2, <4>4
      <3> HIDE DEF A
      <3>6. A(j).exe <=> t[j].exe /\ j \notin S
        BY <3>5 DEF X
      <3>7. A(j).acks = IF Cleared(j) THEN {} ELSE t[j].acks
        BY <3>5 DEF C
      <3> QED
        BY <3>4, <3>5, <3>6, <3>7
    <2>2. After(S) = [j \in 1 .. Len(t) |-> A(j)]
      OBVIOUS
    <2> HIDE DEF A, After, Cleared
    <2>3. After(S) \in [1 .. Len(t) -> Node] /\ \A j \in 1 .. Len(t) : After(S)[j] = A(j)
      BY <2>1, <2>2
    <2>4. After(S) \in Seq(Node) /\ Len(After(S)) = Len(t)
      BY <1>2, <2>3, FunctionIsArray
    <2> QED
      BY <2>1, <2>3, <2>4 DEF SameTree
  <1>5. undo = {i \in 1 .. Len(t) : t[i].exe /\ t[i].rej}
    BY UndoneScripts
  <1>3. \A j \in 1 .. Len(t) : Cleared(j) => Overtaken(t, j)
    <2> SUFFICES ASSUME NEW j \in 1 .. Len(t), NEW i \in 1 .. Len(t), Confirmed(t[i]), j < i,
                        \A k \in j .. i - 1 : ~Confirmed(t[k])
                 PROVE  Overtaken(t, j)
      BY <1>5
    <2>1. j \in j .. i - 1 /\ i \in j + 1 .. Len(t)
      BY <1>2
    <2> QED
      BY <2>1 DEF Overtaken
  <1>6. UndoScripts(h, undo) = [nodes |-> After(undo), fis |-> fis2]
    BY DEF UndoScripts
  <1> HIDE DEF Cleared, After, oldest, atLast, undo, t
  <1>7. /\ SameTree(t, After(undo)) /\ After(undo) \in Seq(Node)
        /\ \A j \in 1 .. Len(t) : /\ After(undo)[j].exe <=> t[j].exe /\ ~t[j].rej
                                  /\ After(undo)[j].mis = t[j].mis
                                  /\ After(undo)[j].acks \subseteq t[j].acks
    BY <1>4, <1>5
  <1>13. Overtakes(t, After(undo))
    BY <1>3, <1>4 DEF Overtakes, Confirmed
  <1>8. SettledIn(After(undo), h.fis)
    <2>1. PICK f \in 1 .. Len(t) : t[f].id = h.fis /\ Executed(t[f]) /\ Confirmed(t[f])
      BY DEF Sound, SettledIn, t
    <2>2. Executed(After(undo)[f]) /\ Confirmed(After(undo)[f]) /\ After(undo)[f].id = h.fis
          /\ f \in 1 .. Len(After(undo))
      BY <1>7, <2>1 DEF Executed, Confirmed, SameTree
    <2> QED
      BY <2>2 DEF SettledIn
  <1>9. h2 \in History /\ h2.nodes = After(atLast) /\ h2.fis = h.fis
    BY <1>1, <1>4 DEF History
  <1>10. ASSUME NEW id, SettledIn(After(atLast), id) PROVE SettledIn(After(undo), id)
    <2>1. SameTree(t, After(atLast)) /\ SameTree(t, After(undo))
      BY <1>4
    <2>2. PICK f \in 1 .. Len(After(atLast)) :
              After(atLast)[f].id = id /\ Executed(After(atLast)[f]) /\ Confirmed(After(atLast)[f])
      BY <1>10 DEF SettledIn
    <2>3. f \in 1 .. Len(t) /\ f \in 1 .. Len(After(undo)) /\ t[f].id = id /\ After(undo)[f].id = id
          /\ After(atLast)[f].rej = t[f].rej /\ After(undo)[f].rej = t[f].rej
      BY <2>1, <2>2 DEF SameTree
    <2>4. t[f].exe /\ ~t[f].rej
      BY <1>4, <2>2, <2>3 DEF Executed
    <2>5. After(undo)[f].acks = After(atLast)[f].acks
      BY <1>4, <2>3
    <2>6. Executed(After(undo)[f]) /\ Confirmed(After(undo)[f])
      BY <1>7, <2>2, <2>3, <2>4, <2>5 DEF Executed, Confirmed
    <2> QED
      BY <2>3, <2>6 DEF SettledIn
  <1> HIDE DEF h2
  <1>11. SettledIn(After(undo), fis2)
    <2>1. AdvanceFis(h2) = h.fis \/ SettledIn(After(atLast), AdvanceFis(h2))
      BY <1>9, AdvanceFisSettled
    <2>2. CASE oldest = 0
      BY <1>8, <2>2
    <2>3. CASE oldest # 0
      BY <1>8, <1>10, <2>1, <2>3
    <2> QED
      BY <2>2, <2>3
  <1>12. UndoScripts(h, undo) \in History
    BY <1>1, UndoScriptsKeeps DEF Keeps
  <1> HIDE DEF fis2
  <1> QED
    BY <1>6, <1>7, <1>11, <1>12, <1>13 DEF undo, t

(***************************************************************************)
(* Executing the next script after undoing the rejected ones makes it the   *)
(* tip of the executed branch.                                              *)
(***************************************************************************)
LEMMA SetExecutedSound ==
    ASSUME NEW h, Sound(h), NextOf(h.nodes) # NoId
    PROVE  LET t  == h.nodes
               h1 == SetExecuted(h, NextOf(t))
               i  == FindIdx(t, NextOf(t))
           IN  /\ Sound(h1) /\ SameTree(t, h1.nodes)
               /\ i \in 1 .. Len(t) /\ ~t[i].exe /\ ~t[i].rej
               /\ Done(h1.nodes, i)
               /\ \A j \in 1 .. Len(t) : t[j].exe \/ t[j].rej => h1.nodes[j].exe \/ h1.nodes[j].rej
               /\ \A j \in 1 .. Len(t) : h1.nodes[j].mis = t[j].mis
               /\ Overtakes(t, h1.nodes)
  <1> DEFINE t  == h.nodes
             h2 == UndoScripts(h, ToBeRejectedScripts(h))
             u  == h2.nodes
             id == NextOf(t)
  <1>0. h \in History /\ Tree(t) /\ t \in Seq(Node) /\ Len(t) \in Nat /\ Len(t) > 0
    BY DEF Sound, Tree, Shaped, Preorder
  <1>1. PICK i \in 1 .. Len(t) :
            /\ FindIdx(t, id) = i /\ ~t[i].exe /\ ~t[i].rej /\ ~t[i].mis
            /\ \A j \in 1 .. Len(t) :
                  Under(Parents(t), j, i) <=> j = i \/ (t[j].exe /\ ~t[j].rej)
    BY NextFollows
  <1>2. /\ h2 \in History /\ SameTree(t, u) /\ SettledIn(u, h2.fis)
        /\ \A j \in 1 .. Len(t) : /\ u[j].exe <=> t[j].exe /\ ~t[j].rej
                                  /\ u[j].mis = t[j].mis /\ u[j].acks \subseteq t[j].acks
        /\ Overtakes(t, u)
    BY UndoScriptsFrame
  <1> DEFINE n  == [u[i] EXCEPT !.exe = TRUE, !.rej = FALSE]
             v  == Replace(u, i, n)
             h1 == [h2 EXCEPT !.nodes = v]
  <1>3. SetExecuted(h, id) = h1
    BY <1>1 DEF SetExecuted
  <1> HIDE DEF h2
  <1>4. i \in 1 .. Len(u) /\ Len(u) = Len(t) /\ u[i].rej = t[i].rej /\ u[i].mis = t[i].mis
    BY <1>2 DEF SameTree
  <1>5. u[i] \in Node /\ t[i] \in Node
    BY <1>0, <1>2, <1>4, ArrayType DEF SameTree
  <1>6. /\ n \in Node /\ n.id = u[i].id /\ n.pred = u[i].pred /\ n.bp = u[i].bp /\ n.rej = u[i].rej
        /\ n.exe /\ ~n.rej /\ n.mis = u[i].mis /\ n.acks = u[i].acks
    <2>1. t[i].rej = FALSE
      BY <1>1, <1>5 DEF Node
    <2> QED
      BY <1>4, <1>5, <2>1 DEF Node
  <1> HIDE DEF n
  <1>7. /\ SameTree(u, v) /\ v[i] = n /\ \A j \in 1 .. Len(u) : j # i => v[j] = u[j]
        /\ h1 \in History /\ h1.nodes = v /\ h1.fis = h2.fis
    BY <1>2, <1>4, <1>6, ReplacedTree
  <1> HIDE DEF v, h1
  <1>8. SameTree(t, v)
    BY <1>2, <1>7 DEF SameTree
  <1>9. Tree(v) /\ Parents(v) = Parents(t) /\ Len(v) = Len(t)
    BY <1>0, <1>8, SameTreeTree
  <1>10. \A j \in 1 .. Len(t) : v[j].exe <=> j = i \/ (t[j].exe /\ ~t[j].rej)
    BY <1>2, <1>4, <1>6, <1>7
  <1>11. Done(v, i)
    BY <1>1, <1>9, <1>10 DEF Done
  <1>12. \A j \in 1 .. Len(t) : v[j].rej = t[j].rej /\ v[j].mis = t[j].mis /\ v[j].acks \subseteq t[j].acks
    <2>1. \A j \in 1 .. Len(t) : v[j].rej = t[j].rej
      BY <1>8 DEF SameTree
    <2> QED
      BY <1>2, <1>4, <1>6, <1>7, <2>1
  <1>13. RootSettled(v)
    <2>1. 1 \in 1 .. Len(t) /\ t[1].exe /\ ~t[1].rej /\ ~t[1].mis /\ t[1].acks = {}
      BY <1>0 DEF Sound, RootSettled
    <2> QED
      BY <1>10, <1>12, <2>1 DEF RootSettled
  <1>14. MissingNotDone(v)
    <2>1. \A j \in 1 .. Len(t) : t[j].mis => ~t[j].exe
      BY DEF Sound, MissingNotDone
    <2> QED
      BY <1>1, <1>9, <1>10, <1>12, <2>1 DEF MissingNotDone
  <1>15. SettledIn(v, h2.fis)
    <2>1. PICK f \in 1 .. Len(u) : u[f].id = h2.fis /\ Executed(u[f]) /\ Confirmed(u[f])
      BY <1>2 DEF SettledIn
    <2>2. v[f].id = h2.fis /\ Executed(v[f]) /\ Confirmed(v[f])
      BY <1>6, <1>7, <2>1 DEF Executed, Confirmed
    <2> QED
      BY <1>4, <1>9, <2>1, <2>2 DEF SettledIn
  <1>16. Sound(h1)
    BY <1>7, <1>9, <1>11, <1>13, <1>14, <1>15 DEF Sound
  <1>17. \A j \in 1 .. Len(t) : t[j].exe \/ t[j].rej => v[j].exe \/ v[j].rej
    BY <1>10, <1>12
  <1>18. Overtakes(t, v)
    <2>1. \A j \in 1 .. Len(t) : v[j].acks = u[j].acks
      BY <1>4, <1>6, <1>7
    <2> QED
      BY <1>2, <2>1 DEF Overtakes, Confirmed
  <1> QED
    BY <1>1, <1>3, <1>7, <1>8, <1>11, <1>12, <1>16, <1>17, <1>18

(***************************************************************************)
(* The same with the confirmations that follow; the marker looked up in     *)
(* between is the one a fresh search would find.                            *)
(***************************************************************************)
LEMMA ExecuteScriptSound ==
    ASSUME NEW h, Sound(h), NextOf(h.nodes) # NoId
    PROVE  LET t  == h.nodes
               h1 == ExecuteScript(h, NextOf(t))
               i  == FindIdx(t, NextOf(t))
           IN  /\ Sound(h1) /\ SameTree(t, h1.nodes)
               /\ i \in 1 .. Len(t) /\ ~t[i].exe /\ ~t[i].rej
               /\ Done(h1.nodes, i)
               /\ \A j \in 1 .. Len(t) : t[j].exe \/ t[j].rej => h1.nodes[j].exe \/ h1.nodes[j].rej
               /\ NextMarker(SetExecuted(h, NextOf(t))) = NextOf(h1.nodes)
  <1> DEFINE t  == h.nodes
             i  == FindIdx(t, NextOf(t))
             h2 == SetExecuted(h, NextOf(t))
             h1 == ExecuteScript(h, NextOf(t))
  <1>1. /\ Sound(h2) /\ SameTree(t, h2.nodes)
        /\ i \in 1 .. Len(t) /\ ~t[i].exe /\ ~t[i].rej
        /\ Done(h2.nodes, i)
        /\ \A j \in 1 .. Len(t) : t[j].exe \/ t[j].rej => h2.nodes[j].exe \/ h2.nodes[j].rej
    BY SetExecutedSound
  <1>2. h1 = IF Confirmed(h2.nodes[i]) THEN ConfirmAllOlderNodes(h2, i) ELSE h2
    BY DEF ExecuteScript
  <1> HIDE DEF h1, h2, i
  <1>3. h2 \in History /\ SettledIn(h2.nodes, h2.fis) /\ h2.nodes \in Seq(Node)
    BY <1>1 DEF Sound, Tree
  <1>4. h1 \in History /\ AcksOnly(h2.nodes, h1.nodes) /\ SettledIn(h1.nodes, h1.fis)
    <2>1. CASE Confirmed(h2.nodes[i])
      BY <1>2, <1>3, <2>1, ConfirmAcks
    <2>2. CASE ~Confirmed(h2.nodes[i])
      BY <1>2, <1>3, <2>2, AcksOnlyRefl
    <2> QED
      BY <2>1, <2>2
  <1>5. Sound(h1) /\ \A tip : Done(h2.nodes, tip) => Done(h1.nodes, tip)
    BY <1>1, <1>4, AcksOnlySound
  <1>6. SameTree(t, h1.nodes)
    BY <1>1, <1>4 DEF SameTree, AcksOnly
  <1>7. \A j \in 1 .. Len(t) : t[j].exe \/ t[j].rej => h1.nodes[j].exe \/ h1.nodes[j].rej
    BY <1>1, <1>4 DEF SameTree, AcksOnly
  <1>8. NextMarker(h2) = NextOf(h1.nodes)
    BY <1>1, <1>3, <1>4, MarkerOf, AcksOnlyNext
  <1> QED
    BY <1>1, <1>5, <1>6, <1>7, <1>8 DEF h1, h2, i

----------------------------------------------------------------------------
(* Histories in agreement with the headers of scripts *)

(* hdr[id] is the lineage in the header of script id once it is checked in.  *)
CheckedIn(hdr, id) == id \in Script /\ hdr[id] # <<>>

(* The last id of a lineage: the predecessor of its script.                  *)
Last(lin) == IF lin = <<>> THEN NoId ELSE lin[Len(lin)]

(***************************************************************************)
(* The scripts of t have been checked in, and hang from the predecessors    *)
(* their headers name.                                                      *)
(***************************************************************************)
Known(hdr, t) ==
    \A i \in 2 .. Len(t) : CheckedIn(hdr, t[i].id) /\ t[i].pred = Last(hdr[t[i].id])

(***************************************************************************)
(* The member's own scripts and their predecessors are executed or          *)
(* rejected, and the tip of the executed branch has no own script behind    *)
(* it.                                                                      *)
(***************************************************************************)
OwnDone(m, t) ==
    \A i \in 2 .. Len(t) :
        Author(t[i].id) = m =>
            /\ t[i].exe \/ t[i].rej
            /\ t[Parents(t)[i]].exe \/ t[Parents(t)[i]].rej
            /\ ~Done(t, Parents(t)[i])

(* What holds of the history h of member m when the headers are hdr.         *)
Good(hdr, m, h) == Sound(h) /\ Known(hdr, h.nodes) /\ OwnDone(m, h.nodes)

(* A grown array holds the old ids and the chain's.                          *)
LEMMA GrownIds ==
    ASSUME NEW t, Tree(t), NEW pred, NEW chain, Hangs(t, pred, chain),
           NEW p, NEW at, NEW t2, Grown(t, p, at, chain, t2), t[p].id = pred
    PROVE  Ids(t2) = Ids(t) \cup {chain[k].id : k \in 1 .. Len(chain)}
  <1> DEFINE n == Len(t)
             c == Len(chain)
             S(x) == Shift(x, at, c)
             New == at .. at + c - 1
  <1>1. /\ n \in Nat /\ c \in Nat /\ at \in Nat /\ Len(t2) = n + c
        /\ \A x \in 1 .. n : S(x) \in 1 .. n + c
        /\ \A i \in 1 .. n + c : i \in New \/ \E x \in 1 .. n : i = S(x)
        /\ \A i \in New : i \in 1 .. n + c
    <2>1. \A i \in New : i \in 2 .. n + c
      BY GrownPlaces
    <2>2. /\ n \in Nat /\ c \in Nat /\ at \in p + 1 .. n + 1 /\ p \in 1 .. n /\ Len(t2) = n + c
          /\ \A x \in 1 .. n : S(x) \in 1 .. n + c
          /\ \A i \in 1 .. n + c : i \in New \/ \E x \in 1 .. n : i = S(x)
      BY GrownPlaces
    <2> HIDE DEF S
    <2> QED
      BY <2>1, <2>2
  <1>2. /\ \A x \in 1 .. n : t2[S(x)].id = t[x].id
        /\ \A i \in New : t2[i].id = chain[i - at + 1].id
        /\ DOMAIN t2 = 1 .. Len(t2) /\ DOMAIN t = 1 .. Len(t)
    <2>1. t2 \in Seq(Node) /\ t \in Seq(Node)
      BY DEF Grown, Tree
    <2> QED
      BY <2>1, NodesType DEF Grown
  <1> HIDE DEF S, n, c
  <1>3. ASSUME NEW i \in 1 .. n + c
        PROVE  t2[i].id \in Ids(t) \cup {chain[k].id : k \in 1 .. c}
    <2>1. CASE i \in New
      <3>1. i - at + 1 \in 1 .. c
        BY <1>1, <2>1
      <3> QED
        BY <1>2, <2>1, <3>1
    <2>2. ASSUME NEW x \in 1 .. n, i = S(x) PROVE t2[i].id \in Ids(t)
      BY <1>2, <2>2 DEF Ids, n
    <2> QED
      BY <1>1, <2>1, <2>2
  <1>4. ASSUME NEW x \in 1 .. n PROVE t[x].id \in Ids(t2)
    BY <1>1, <1>2 DEF Ids
  <1>5. ASSUME NEW k \in 1 .. c PROVE chain[k].id \in Ids(t2)
    <2>1. at + k - 1 \in New /\ (at + k - 1) - at + 1 = k
      BY <1>1
    <2>2. t2[at + k - 1].id = chain[k].id
      BY <1>2, <2>1
    <2> QED
      BY <1>1, <1>2, <2>1, <2>2 DEF Ids
  <1>6. Ids(t2) \subseteq Ids(t) \cup {chain[k].id : k \in 1 .. c}
    BY <1>1, <1>2, <1>3 DEF Ids
  <1>7. Ids(t) \subseteq Ids(t2)
    BY <1>2, <1>4 DEF Ids, n
  <1> QED
    BY <1>5, <1>6, <1>7 DEF c

(* Growing by checked-in scripts keeps the predecessors right.               *)
LEMMA GrownKnown ==
    ASSUME NEW t, Tree(t), NEW pred, NEW chain, Hangs(t, pred, chain),
           NEW p, NEW at, NEW t2, Grown(t, p, at, chain, t2), t[p].id = pred,
           NEW hdr, Known(hdr, t),
           \A k \in 1 .. Len(chain) :
              CheckedIn(hdr, chain[k].id) /\ chain[k].pred = Last(hdr[chain[k].id])
    PROVE  Known(hdr, t2)
  <1> DEFINE n == Len(t)
             c == Len(chain)
             S(x) == Shift(x, at, c)
             New == at .. at + c - 1
  <1>1. /\ n \in Nat /\ c \in Nat /\ at \in p + 1 .. n + 1 /\ p \in 1 .. n /\ Len(t2) = n + c
        /\ \A i \in 1 .. n + c : i \in New \/ \E x \in 1 .. n : i = S(x)
        /\ \A x \in 1 .. n : (x >= 2 <=> S(x) >= 2)
    BY GrownPlaces
  <1>2. /\ \A x \in 1 .. n : t2[S(x)].id = t[x].id /\ t2[S(x)].pred = t[x].pred
        /\ \A i \in New : t2[i].id = chain[i - at + 1].id /\ t2[i].pred = chain[i - at + 1].pred
    BY DEF Grown
  <1> HIDE DEF S
  <1>3. ASSUME NEW i \in 2 .. Len(t2)
        PROVE  CheckedIn(hdr, t2[i].id) /\ t2[i].pred = Last(hdr[t2[i].id])
    <2>0. i \in 1 .. n + c /\ i >= 2
      BY <1>1
    <2>1. CASE i \in New
      <3>1. i - at + 1 \in 1 .. c
        BY <1>1, <2>1
      <3> QED
        BY <1>2, <2>1, <3>1
    <2>2. ASSUME NEW x \in 1 .. n, i = S(x)
          PROVE  CheckedIn(hdr, t2[i].id) /\ t2[i].pred = Last(hdr[t2[i].id])
      <3>1. x \in 2 .. n
        BY <1>1, <2>0, <2>2
      <3> QED
        BY <1>2, <2>2, <3>1 DEF Known
    <2> QED
      BY <1>1, <2>0, <2>1, <2>2
  <1> QED
    BY <1>3 DEF Known

(***************************************************************************)
(* Growing by other members' scripts, or by a check-in, keeps own scripts   *)
(* done.                                                                    *)
(***************************************************************************)
LEMMA GrownOwn ==
    ASSUME NEW t, Tree(t), NEW pred, NEW chain, Hangs(t, pred, chain),
           NEW p, NEW at, NEW t2, Grown(t, p, at, chain, t2), t[p].id = pred,
           Fits(t, p, chain), NEW tip, Done(t, tip), NEW m, OwnDone(m, t),
           (\A k \in 1 .. Len(chain) : Author(chain[k].id) # m) \/ chain[1].exe
    PROVE  OwnDone(m, t2)
  <1> DEFINE n == Len(t)
             c == Len(chain)
             a == Parents(t)
             b == Parents(t2)
             S(x) == Shift(x, at, c)
             New == at .. at + c - 1
             tip2 == IF chain[1].exe THEN at ELSE S(tip)
  <1>1. /\ n \in Nat /\ c \in Nat \ {0} /\ at \in p + 1 .. n + 1 /\ p \in 1 .. n /\ Len(t2) = n + c
        /\ \A i \in 1 .. n + c : i \in New \/ \E x \in 1 .. n : i = S(x)
        /\ \A x \in 1 .. n : (x >= 2 <=> S(x) >= 2)
        /\ \A x \in 1 .. n : S(x) = IF x < at THEN x ELSE x + c
        /\ \A x \in 1 .. n : S(x) \notin New
        /\ \A x, y \in 1 .. n : S(x) = S(y) => x = y
        /\ \A x \in 2 .. n : b[S(x)] = S(a[x])
        /\ \A i \in New : b[i] = IF i = at THEN p ELSE i - 1
        /\ \A x \in 2 .. n : a[x] \in 1 .. n
    <2>1. /\ n \in Nat /\ c \in Nat \ {0} /\ at \in p + 1 .. n + 1 /\ p \in 1 .. n /\ Len(t2) = n + c
          /\ \A x \in 1 .. n : S(x) = IF x < at THEN x ELSE x + c
          /\ \A x \in 2 .. n : a[x] \in 1 .. n
      BY GrownPlaces
    <2>2. /\ \A i \in 1 .. n + c : i \in New \/ \E x \in 1 .. n : i = S(x)
          /\ \A x \in 1 .. n : (x >= 2 <=> S(x) >= 2)
          /\ \A x \in 1 .. n : S(x) \notin New
      BY GrownPlaces
    <2>3. /\ \A x, y \in 1 .. n : S(x) = S(y) => x = y
          /\ \A x \in 2 .. n : b[S(x)] = S(a[x])
          /\ \A i \in New : b[i] = IF i = at THEN p ELSE i - 1
      BY GrownPlaces
    <2> HIDE DEF S, New, a, b
    <2> QED
      BY <2>1, <2>2, <2>3
  <1>2. /\ \A x \in 1 .. n : /\ t2[S(x)].id = t[x].id /\ t2[S(x)].exe = t[x].exe
                             /\ t[x].rej => t2[S(x)].rej
        /\ \A i \in New : t2[i].id = chain[i - at + 1].id /\ t2[i].exe = chain[i - at + 1].exe
    BY DEF Grown
  <1>3. Done(t2, tip2) /\ Tree(t2)
    BY GrownDone, GrownTree
  <1>4. \A other : Done(t2, other) => other = tip2
    BY <1>3, OneTip
  <1>5. at \in New /\ at - at + 1 = 1 /\ tip \in 1 .. n
    BY <1>1 DEF Done
  <1>6. chain[1].exe => c = 1 /\ Done(t, p) /\ tip = p
    <2>1. 1 \in 1 .. c
      BY <1>1
    <2>2. chain[1].exe => c = 1 /\ Done(t, p)
      BY <2>1 DEF Fits
    <2> QED
      BY <2>2, OneTip
  <1> HIDE DEF S, a, b
  <1>7. ASSUME NEW i \in 2 .. Len(t2), Author(t2[i].id) = m
        PROVE  (t2[i].exe \/ t2[i].rej) /\ (t2[b[i]].exe \/ t2[b[i]].rej) /\ b[i] # tip2
    <2>0. i \in 1 .. n + c /\ i >= 2
      BY <1>1
    <2>1. CASE i \in New
      <3>1. i - at + 1 \in 1 .. c
        BY <1>1, <2>1
      <3>2. chain[1].exe
        BY <1>2, <1>7, <2>1, <3>1
      <3>3. i = at /\ p \in 1 .. n /\ p < at
        <4>1. c = 1 /\ i \in at .. at + c - 1 /\ at \in Int /\ p \in 1 .. n /\ p \in Int /\ p < at
          BY <1>1, <1>6, <2>1, <3>2
        <4> HIDE DEF c, n
        <4> QED
          BY <4>1
      <3>4. t2[at].exe
        BY <1>2, <1>5, <3>2
      <3>5. b[i] = p /\ S(p) = p
        BY <1>1, <2>1, <3>3
      <3>6. t[p].exe
        BY <1>6, <3>2, TrunkAndFiles
      <3>7. t2[p].exe
        BY <1>2, <3>3, <3>5, <3>6
      <3> QED
        BY <1>1, <3>2, <3>3, <3>4, <3>5, <3>7
    <2>2. ASSUME NEW x \in 1 .. n, i = S(x)
          PROVE  (t2[i].exe \/ t2[i].rej) /\ (t2[b[i]].exe \/ t2[b[i]].rej) /\ b[i] # tip2
      <3>1. x \in 2 .. n /\ Author(t[x].id) = m
        BY <1>1, <1>2, <1>7, <2>0, <2>2
      <3>2. (t[x].exe \/ t[x].rej) /\ (t[a[x]].exe \/ t[a[x]].rej) /\ ~Done(t, a[x])
        BY <3>1 DEF OwnDone, a
      <3>3. a[x] \in 1 .. n /\ b[i] = S(a[x])
        BY <1>1, <2>2, <3>1
      <3>4. S(a[x]) # tip2
        BY <1>1, <1>5, <3>2, <3>3
      <3> QED
        BY <1>2, <2>2, <3>1, <3>2, <3>3, <3>4
    <2> QED
      BY <1>1, <2>0, <2>1, <2>2
  <1> QED
    BY <1>4, <1>7 DEF OwnDone, b

(* The ids of a chain.                                                       *)
ChainIds(chain) == {chain[k].id : k \in 1 .. Len(chain)}

(***************************************************************************)
(* The chain's scripts are checked in and hang from the right               *)
(* predecessors; they are other members' or one being checked in.           *)
(***************************************************************************)
Genuine(hdr, m, chain) ==
    /\ \A k \in 1 .. Len(chain) :
          CheckedIn(hdr, chain[k].id) /\ chain[k].pred = Last(hdr[chain[k].id])
    /\ (\A k \in 1 .. Len(chain) : Author(chain[k].id) # m) \/ chain[1].exe

(* Inserting such a chain keeps a history good.                              *)
LEMMA InsertChainGood ==
    ASSUME NEW hdr, NEW m, NEW h, Good(hdr, m, h), NEW pred, NEW chain,
           Hangs(h.nodes, pred, chain), Fits(h.nodes, FindIdx(h.nodes, pred), chain),
           Genuine(hdr, m, chain)
    PROVE  LET h2 == InsertChain(h, pred, chain)
           IN  Good(hdr, m, h2) /\ Ids(h2.nodes) = Ids(h.nodes) \cup ChainIds(chain)
  <1> DEFINE t  == h.nodes
             p  == FindIdx(t, pred)
             user == Author(chain[1].id)
             at == InsertionIdx(t, p, user)
             h2 == InsertChain(h, pred, chain)
             t2 == h2.nodes
  <1>1. Sound(h) /\ Tree(t) /\ Known(hdr, t) /\ OwnDone(m, t) /\ h \in History
    BY DEF Good, Sound
  <1>2. PICK tip : Done(t, tip)
    BY <1>1 DEF Sound
  <1>3. Grown(t, p, at, chain, t2) /\ t[p].id = pred
    BY <1>1, InsertChainGrows
  <1>4. Sound(h2)
    BY <1>1, InsertChainSound
  <1>5. Hangs(t, pred, chain) /\ Fits(t, p, chain)
    OBVIOUS
  <1> HIDE DEF t, p, at, h2, t2
  <1>6. Known(hdr, t2)
    BY <1>1, <1>3, <1>5, GrownKnown DEF Genuine
  <1>7. OwnDone(m, t2)
    BY <1>1, <1>2, <1>3, <1>5, GrownOwn DEF Genuine
  <1>8. Ids(t2) = Ids(t) \cup ChainIds(chain)
    BY <1>1, <1>3, <1>5, GrownIds DEF ChainIds
  <1> QED
    BY <1>4, <1>6, <1>7, <1>8 DEF Good, t, h2, t2

(***************************************************************************)
(* So does a change of what is executed that keeps the tip or moves it to   *)
(* a waiting script.                                                        *)
(***************************************************************************)
LEMMA SameTreeGood ==
    ASSUME NEW hdr, NEW m, NEW h, Good(hdr, m, h), NEW h1, Sound(h1), SameTree(h.nodes, h1.nodes),
           \A j \in 1 .. Len(h.nodes) :
              h.nodes[j].exe \/ h.nodes[j].rej => h1.nodes[j].exe \/ h1.nodes[j].rej,
           \A tip : Done(h1.nodes, tip) =>
              Done(h.nodes, tip) \/ (~h.nodes[tip].exe /\ ~h.nodes[tip].rej)
    PROVE  Good(hdr, m, h1) /\ Ids(h1.nodes) = Ids(h.nodes)
  <1> DEFINE t == h.nodes
             u == h1.nodes
  <1>1. Tree(t) /\ SameTree(t, u) /\ Known(hdr, t) /\ OwnDone(m, t)
    BY DEF Good, Sound
  <1>2. Parents(u) = Parents(t) /\ Len(u) = Len(t) /\ Tree(u)
    BY <1>1, SameTreeTree
  <1>3. Len(t) \in Nat /\ DOMAIN t = 1 .. Len(t) /\ DOMAIN u = 1 .. Len(t)
    BY <1>1, <1>2, NodesType DEF Tree
  <1>4. \A i \in 1 .. Len(t) : u[i].id = t[i].id /\ u[i].pred = t[i].pred
    BY <1>1 DEF SameTree
  <1>5. \A i \in 2 .. Len(t) : i \in 1 .. Len(t) /\ Parents(t)[i] \in 1 .. Len(t)
    BY <1>1, <1>3, Places DEF Tree
  <1>6. Known(hdr, u)
    BY <1>1, <1>2, <1>4, <1>5 DEF Known
  <1>7. OwnDone(m, u)
    BY <1>1, <1>2, <1>4, <1>5 DEF OwnDone
  <1>8. Ids(u) = Ids(t)
    BY <1>3, <1>4 DEF Ids
  <1> QED
    BY <1>6, <1>7, <1>8 DEF Good

(* Fewer awaited acknowledgments keep a history good.                        *)
LEMMA AcksGood ==
    ASSUME NEW hdr, NEW m, NEW h, Good(hdr, m, h), NEW h1 \in History,
           AcksOnly(h.nodes, h1.nodes), SettledIn(h1.nodes, h1.fis)
    PROVE  /\ Good(hdr, m, h1) /\ Ids(h1.nodes) = Ids(h.nodes)
           /\ NextOf(h1.nodes) = NextOf(h.nodes)
  <1>1. Sound(h) /\ h \in History /\ h.nodes \in Seq(Node)
    BY DEF Good, Sound, Tree
  <1>2. Sound(h1) /\ \A tip : Done(h.nodes, tip) => Done(h1.nodes, tip)
    BY <1>1, AcksOnlySound
  <1>3. PICK tip : Done(h.nodes, tip)
    BY <1>1 DEF Sound
  <1>4. \A other : Done(h1.nodes, other) => Done(h.nodes, other)
    BY <1>2, <1>3, OneTip DEF Sound
  <1>5. SameTree(h.nodes, h1.nodes) /\ \A j \in 1 .. Len(h.nodes) : h1.nodes[j].exe = h.nodes[j].exe
    BY DEF AcksOnly, SameTree
  <1>6. \A j \in 1 .. Len(h.nodes) : h1.nodes[j].rej = h.nodes[j].rej
    BY <1>5 DEF SameTree
  <1>7. Good(hdr, m, h1) /\ Ids(h1.nodes) = Ids(h.nodes)
    BY <1>2, <1>4, <1>5, <1>6, SameTreeGood
  <1>8. NextOf(h1.nodes) = NextOf(h.nodes)
    BY <1>1, AcksOnlyNext
  <1> QED
    BY <1>7, <1>8

(***************************************************************************)
(* Accepting an acknowledgment keeps a history good, its scripts and the    *)
(* next one.                                                                *)
(***************************************************************************)
LEMMA AcceptAckGood ==
    ASSUME NEW hdr, NEW m, NEW h, Good(hdr, m, h), NEW id, NEW from
    PROVE  LET h1 == AcceptAck(h, id, from)
           IN  /\ Good(hdr, m, h1) /\ Ids(h1.nodes) = Ids(h.nodes)
               /\ NextOf(h1.nodes) = NextOf(h.nodes)
  <1>1. h \in History /\ SettledIn(h.nodes, h.fis)
    BY DEF Good, Sound
  <1> QED
    BY <1>1, AcceptAcks, AcksGood

(* So does confirming older scripts.                                         *)
LEMMA ConfirmGood ==
    ASSUME NEW hdr, NEW m, NEW h, Good(hdr, m, h), NEW i
    PROVE  LET h1 == ConfirmAllOlderNodes(h, i)
           IN  /\ Good(hdr, m, h1) /\ Ids(h1.nodes) = Ids(h.nodes)
               /\ NextOf(h1.nodes) = NextOf(h.nodes)
  <1>1. h \in History /\ SettledIn(h.nodes, h.fis)
    BY DEF Good, Sound
  <1> QED
    BY <1>1, ConfirmAcks, AcksGood

(* Finding the next script unreadable keeps a history good.                  *)
LEMMA SetMissingGood ==
    ASSUME NEW hdr, NEW m, NEW h, Good(hdr, m, h), NextOf(h.nodes) # NoId
    PROVE  LET h1 == SetMissing(h, NextOf(h.nodes))
           IN  Good(hdr, m, h1) /\ Ids(h1.nodes) = Ids(h.nodes)
  <1> DEFINE h1 == SetMissing(h, NextOf(h.nodes))
  <1>1. /\ Sound(h1) /\ SameTree(h.nodes, h1.nodes)
        /\ \A j \in 1 .. Len(h.nodes) : h1.nodes[j].exe = h.nodes[j].exe
        /\ \A tip : Done(h.nodes, tip) <=> Done(h1.nodes, tip)
    BY SetMissingSound DEF Good
  <1> HIDE DEF h1
  <1>2. \A j \in 1 .. Len(h.nodes) : h1.nodes[j].rej = h.nodes[j].rej
    BY <1>1 DEF SameTree
  <1>3. Good(hdr, m, h1) /\ Ids(h1.nodes) = Ids(h.nodes)
    BY <1>1, <1>2, SameTreeGood
  <1> QED
    BY <1>3 DEF h1

(* Executing the next script keeps a history good.                           *)
LEMMA ExecuteScriptGood ==
    ASSUME NEW hdr, NEW m, NEW h, Good(hdr, m, h), NextOf(h.nodes) # NoId
    PROVE  LET h1 == ExecuteScript(h, NextOf(h.nodes))
           IN  /\ Good(hdr, m, h1) /\ Ids(h1.nodes) = Ids(h.nodes)
               /\ NextMarker(SetExecuted(h, NextOf(h.nodes))) = NextOf(h1.nodes)
  <1> DEFINE t  == h.nodes
             h1 == ExecuteScript(h, NextOf(t))
             i  == FindIdx(t, NextOf(t))
  <1>1. /\ Sound(h1) /\ SameTree(t, h1.nodes)
        /\ i \in 1 .. Len(t) /\ ~t[i].exe /\ ~t[i].rej
        /\ Done(h1.nodes, i)
        /\ \A j \in 1 .. Len(t) : t[j].exe \/ t[j].rej => h1.nodes[j].exe \/ h1.nodes[j].rej
        /\ NextMarker(SetExecuted(h, NextOf(t))) = NextOf(h1.nodes)
    BY ExecuteScriptSound DEF Good
  <1> HIDE DEF h1, i
  <1>2. \A tip : Done(h1.nodes, tip) => tip = i
    BY <1>1, OneTip DEF Sound
  <1>3. Good(hdr, m, h1) /\ Ids(h1.nodes) = Ids(h.nodes)
    BY <1>1, <1>2, SameTreeGood
  <1> QED
    BY <1>1, <1>3 DEF h1

(* Filling a placeholder keeps a history good.                               *)
LEMMA SubstituteGood ==
    ASSUME NEW hdr, NEW m, NEW h, Good(hdr, m, h), NEW n \in Node, NEW i \in 1 .. Len(h.nodes),
           h.nodes[i].id = n.id, n.pred = Last(hdr[n.id]), h.nodes[i].mis, ~n.exe
    PROVE  LET h1 == SubstituteNode(h, n)
           IN  Good(hdr, m, h1) /\ Ids(h1.nodes) = Ids(h.nodes)
  <1> DEFINE t  == h.nodes
             h1 == SubstituteNode(h, n)
  <1>1. Sound(h) /\ Known(hdr, t) /\ t \in Seq(Node) /\ Len(t) \in Nat
    BY NodesType DEF Good, Sound, Tree
  <1>2. i # 1
    BY <1>1 DEF Sound, RootSettled
  <1>3. t[i].pred = n.pred
    BY <1>1, <1>2 DEF Known
  <1>4. /\ Sound(h1) /\ SameTree(t, h1.nodes)
        /\ \A j \in 1 .. Len(t) : h1.nodes[j].exe = t[j].exe
        /\ \A tip : Done(t, tip) <=> Done(h1.nodes, tip)
    BY <1>1, <1>3, SubstituteSound
  <1> HIDE DEF h1
  <1>5. \A j \in 1 .. Len(t) : h1.nodes[j].rej = t[j].rej
    BY <1>4 DEF SameTree
  <1>6. Good(hdr, m, h1) /\ Ids(h1.nodes) = Ids(h.nodes)
    BY <1>4, <1>5, SameTreeGood
  <1> QED
    BY <1>6 DEF h1

(* Each rank up to the size of a set is taken by one of its indices.         *)
LEMMA InOrderRank ==
    ASSUME NEW b \in Nat, NEW S \in SUBSET (0 .. b), NEW k \in 1 .. Cardinality(S)
    PROVE  \E i \in S : Cardinality({j \in S : j <= i}) = k
  <1> DEFINE UpTo(i) == {j \in S : j <= i}
  <1>1. IsFiniteSet(S) /\ Cardinality(S) \in Nat
    <2>1. IsFiniteSet(0 .. b)
      BY FS_Interval
    <2> QED
      BY <2>1, FS_Subset, FS_CardinalityType
  <1>2. \A i : IsFiniteSet(UpTo(i)) /\ Cardinality(UpTo(i)) \in Nat
    BY <1>1, FS_Subset, FS_CardinalityType
  <1> DEFINE G == {i \in S : Cardinality(UpTo(i)) >= k}
  <1>3. G # {}
    <2>1. S # {}
      BY FS_EmptySet
    <2>2. PICK i \in S : \A j \in S : j <= i
      BY <2>1, GreatestExists
    <2>3. UpTo(i) = S
      BY <2>2
    <2> QED
      BY <2>3
  <1>4. PICK i \in G : \A j \in G : i <= j
    <2>1. \A j \in S : j \in Nat
      OBVIOUS
    <2>2. G \in SUBSET Nat
      BY <2>1
    <2> QED
      BY <1>3, <2>2, LeastExists
  <1> DEFINE R == UpTo(i) \ {i}
  <1>5. IsFiniteSet(R) /\ Cardinality(R) = Cardinality(UpTo(i)) - 1
    BY <1>2, FS_RemoveElement
  <1>6. Cardinality(R) < k
    <2>1. CASE R = {}
      BY <2>1, FS_EmptySet
    <2>2. CASE R # {}
      <3>1. R \in SUBSET (0 .. b)
        OBVIOUS
      <3>2. PICK r \in R : \A j \in R : j <= r
        BY <2>2, <3>1, GreatestExists
      <3>3. r \in S /\ r < i
        OBVIOUS
      <3>4. \A j \in S : j \in Nat
        OBVIOUS
      <3>5. \A j \in S : j <= r <=> (j <= i /\ j # i)
        BY <3>2, <3>3, <3>4
      <3>6. UpTo(r) = R
        BY <3>5
      <3>7. r \notin G
        BY <1>4, <3>3, <3>4
      <3>8. ~(Cardinality(UpTo(r)) >= k)
        BY <3>3, <3>7
      <3>9. Cardinality(UpTo(r)) \in Nat
        BY <1>2
      <3> HIDE DEF UpTo, R
      <3> QED
        BY <3>6, <3>8, <3>9
    <2> QED
      BY <2>1, <2>2
  <1>7. Cardinality(UpTo(i)) = k
    <2>1. Cardinality(UpTo(i)) \in Nat /\ Cardinality(UpTo(i)) >= k
      BY <1>2, <1>4
    <2> HIDE DEF UpTo, R
    <2> QED
      BY <1>5, <1>6, <2>1
  <1> QED
    BY <1>7

(* InOrder lists a set of indices from the first to the last, none skipped.  *)
LEMMA Ranks ==
    ASSUME NEW b \in Nat, NEW S \in SUBSET (0 .. b)
    PROVE  LET w == InOrder(S)
               c == Cardinality(S)
           IN  /\ c \in Nat /\ w \in [1 .. c -> S] /\ (S # {} => c > 0)
               /\ \A i \in S : c > 0 /\ w[1] <= i /\ i <= w[c]
               /\ \A k \in 2 .. c : w[k - 1] < w[k] /\ \A i \in S : i < w[k] => i <= w[k - 1]
  <1> DEFINE UpTo(i) == {j \in S : j <= i}
             R(i) == Cardinality(UpTo(i))
             w == InOrder(S)
             c == Cardinality(S)
  <1>1. c \in Nat /\ w \in [1 .. c -> S]
    BY InOrderType
  <1>2. IsFiniteSet(S)
    <2>1. IsFiniteSet(0 .. b)
      BY FS_Interval
    <2> QED
      BY <2>1, FS_Subset
  <1>3. \A i : IsFiniteSet(UpTo(i)) /\ R(i) \in Nat /\ R(i) <= c
    <2> SUFFICES ASSUME NEW i PROVE IsFiniteSet(UpTo(i)) /\ R(i) \in Nat /\ R(i) <= c
      OBVIOUS
    <2>1. UpTo(i) \subseteq S
      OBVIOUS
    <2> HIDE DEF UpTo
    <2> QED
      BY <1>2, <2>1, FS_Subset, FS_CardinalityType
  <1>4. \A i \in S : i \in Nat
    OBVIOUS
  <1>5. ASSUME NEW i \in S, NEW j \in S, i < j PROVE R(i) < R(j)
    <2> DEFINE D == UpTo(j) \ {j}
    <2>0. i \in Nat /\ j \in Nat /\ j \in UpTo(j) /\ IsFiniteSet(UpTo(j))
      BY <1>3, <1>4
    <2>1. IsFiniteSet(D) /\ Cardinality(D) = R(j) - 1
      <3> HIDE DEF UpTo
      <3> QED
        BY <2>0, FS_RemoveElement
    <2>2. UpTo(i) \subseteq D
      <3>1. ASSUME NEW x \in UpTo(i) PROVE x \in D
        <4>1. x \in S /\ x \in Nat /\ x <= i
          BY <1>4
        <4>2. x <= j /\ x # j
          BY <1>5, <2>0, <4>1
        <4> QED
          BY <4>1, <4>2
      <3> QED
        BY <3>1
    <2> HIDE DEF UpTo, D
    <2>3. R(i) <= Cardinality(D)
      BY <2>1, <2>2, FS_Subset
    <2> HIDE DEF R
    <2> QED
      BY <1>3, <2>1, <2>3
  <1>6. ASSUME NEW i \in S PROVE R(i) >= 1
    <2>1. i \in UpTo(i)
      BY <1>4
    <2> HIDE DEF UpTo
    <2>2. R(i) # 0
      BY <1>3, <2>1, FS_EmptySet
    <2> HIDE DEF R
    <2> QED
      BY <1>3, <2>2
  <1>7. ASSUME NEW k \in 1 .. c PROVE w[k] \in S /\ R(w[k]) = k
    <2>1. \E i \in S : R(i) = k
      BY <1>1, <1>7, InOrderRank
    <2>2. w[k] = CHOOSE i \in S : Cardinality({j \in S : j <= i}) = k
      BY DEF InOrder
    <2> QED
      BY <2>1, <2>2
  <1> HIDE DEF UpTo, R, w, c
  <1>8. ASSUME NEW i \in S PROVE c > 0 /\ w[1] <= i /\ i <= w[c]
    <2>1. R(i) \in Nat /\ 1 <= R(i) /\ R(i) <= c
      BY <1>3, <1>6
    <2>2. 1 \in 1 .. c /\ c \in 1 .. c
      BY <1>1, <2>1
    <2>3. w[1] \in S /\ R(w[1]) = 1 /\ w[c] \in S /\ R(w[c]) = c
      BY <1>7, <2>2
    <2>4. i \in Nat /\ w[1] \in Nat /\ w[c] \in Nat
      BY <1>4, <2>3
    <2>5. ASSUME i < w[1] PROVE FALSE
      <3>1. R(i) < R(w[1])
        BY <1>5, <2>3, <2>5
      <3> QED
        BY <2>1, <2>3, <3>1
    <2>6. ASSUME w[c] < i PROVE FALSE
      <3>1. R(w[c]) < R(i)
        BY <1>5, <2>3, <2>6
      <3> QED
        BY <1>1, <2>1, <2>3, <3>1
    <2> QED
      BY <1>1, <2>1, <2>4, <2>5, <2>6
  <1>9. ASSUME NEW k \in 2 .. c
        PROVE  w[k - 1] < w[k] /\ \A i \in S : i < w[k] => i <= w[k - 1]
    <2>1. k \in 1 .. c /\ k - 1 \in 1 .. c /\ k \in Nat
      BY <1>1
    <2>2. w[k] \in S /\ R(w[k]) = k /\ w[k - 1] \in S /\ R(w[k - 1]) = k - 1
      BY <1>7, <2>1
    <2>3. w[k] # w[k - 1]
      BY <2>1, <2>2
    <2>4. ASSUME w[k] < w[k - 1] PROVE FALSE
      <3>1. R(w[k]) < R(w[k - 1])
        BY <1>5, <2>2, <2>4
      <3> QED
        BY <2>1, <2>2, <3>1
    <2>6. w[k] \in Nat /\ w[k - 1] \in Nat
      BY <1>4, <2>2
    <2>5. ASSUME NEW i \in S, i < w[k], w[k - 1] < i PROVE FALSE
      <3>1. R(w[k - 1]) < R(i) /\ R(i) < R(w[k]) /\ R(i) \in Nat
        BY <1>3, <1>5, <2>2, <2>5
      <3> QED
        BY <2>1, <2>2, <3>1
    <2> QED
      BY <1>4, <2>3, <2>4, <2>5, <2>6
  <1>10. S # {} => c > 0
    BY <1>8
  <1> QED
    BY <1>1, <1>8, <1>9, <1>10 DEF w, c

----------------------------------------------------------------------------
(* Lineages *)

(***************************************************************************)
(* Each script of the lineage after the first is checked in and names the   *)
(* one before it as its predecessor.                                        *)
(***************************************************************************)
Linked(hdr, lin) ==
    \A j \in 2 .. Len(lin) : CheckedIn(hdr, lin[j]) /\ lin[j - 1] = Last(hdr[lin[j]])

(***************************************************************************)
(* The ids on a path, in array order, are a linked lineage that ends with   *)
(* its tip.                                                                 *)
(***************************************************************************)
LEMMA BranchLineage ==
    ASSUME NEW t \in Seq(Node), Shaped(t), NEW from \in 1 .. Len(t), NEW tip \in 1 .. Len(t),
           Under(Parents(t), from, tip), NEW hdr, Known(hdr, t),
           NEW S, S = {i \in 1 .. Len(t) : i >= from /\ Under(Parents(t), i, tip)}
    PROVE  LET lin == IdsAt(t, S)
           IN  /\ lin \in Seq(Gid) /\ Len(lin) \in Nat /\ lin # <<>>
               /\ Last(lin) = t[tip].id
               /\ Linked(hdr, lin)
  <1> DEFINE a == Parents(t)
             n == Len(t)
             w == InOrder(S)
             c == Cardinality(S)
             lin == IdsAt(t, S)
  <1>1. /\ n \in Nat /\ \A i \in 2 .. n : a[i] \in 1 .. n /\ a[i] < i /\ t[a[i]].id = t[i].pred
        /\ Preorder(a, n)
    BY Places DEF Shaped
  <1>2. S \in SUBSET (0 .. n) /\ S \in SUBSET (1 .. n)
    BY <1>1
  <1>3. tip \in S /\ from \in S
    <2>1. from <= tip /\ tip >= from /\ from >= from
      BY <1>1 DEF Under
    <2>2. Under(a, tip, tip)
      BY <1>1, UnderFacts
    <2> QED
      BY <2>1, <2>2
  <1>4. \A i \in 1 .. n : i \in S <=> from <= i /\ Under(a, i, tip)
    BY <1>1
  <1>5. Under(a, from, tip)
    OBVIOUS
  <1> HIDE DEF a, n
  <1>6. /\ c \in Nat /\ w \in [1 .. c -> S] /\ c > 0
        /\ \A i \in S : w[1] <= i /\ i <= w[c]
        /\ \A k \in 2 .. c : w[k - 1] < w[k] /\ \A i \in S : i < w[k] => i <= w[k - 1]
    BY <1>1, <1>2, <1>3, Ranks
  <1>7. lin \in Seq(Gid)
    BY <1>2, IdsAtType DEF n
  <1>8. Len(lin) = c /\ \A k \in 1 .. c : lin[k] = t[w[k]].id
    <2>1. lin = [k \in 1 .. c |-> t[w[k]].id]
      BY DEF IdsAt
    <2>2. lin \in [1 .. Len(lin) -> Gid] /\ Len(lin) \in Nat
      BY <1>7, LenProperties
    <2> HIDE DEF lin, w, c
    <2>3. 1 .. Len(lin) = 1 .. c
      BY <2>1, <2>2
    <2> QED
      BY <1>6, <2>1, <2>2, <2>3
  <1> HIDE DEF lin, w, c
  <1>9. lin # <<>> /\ Last(lin) = t[tip].id
    <2>1. c \in 1 .. c /\ w[c] \in S
      BY <1>6
    <2>2. w[c] \in Nat /\ tip \in Nat /\ tip <= w[c] /\ w[c] \in 1 .. n
      BY <1>1, <1>2, <1>3, <1>6, <2>1
    <2>3. w[c] <= tip
      BY <1>4, <2>1, <2>2 DEF Under
    <2>4. w[c] = tip
      BY <2>2, <2>3
    <2>5. lin # <<>>
      BY <1>6, <1>7, <1>8, EmptySeq
    <2> QED
      BY <1>8, <2>1, <2>4, <2>5 DEF Last
  <1>10. ASSUME NEW k \in 2 .. c
         PROVE  w[k] \in 2 .. n /\ a[w[k]] = w[k - 1]
    <2>1. k \in 1 .. c /\ k - 1 \in 1 .. c
      BY <1>6
    <2> DEFINE x == w[k]
               y == w[k - 1]
    <2>2. x \in S /\ y \in S /\ x \in 1 .. n /\ y \in 1 .. n /\ y < x /\ x \in Nat /\ y \in Nat
      BY <1>1, <1>2, <1>6, <2>1
    <2>3. \A i \in S : i < x => i <= y
      BY <1>6
    <2> HIDE DEF x, y
    <2>4. x \in 2 .. n /\ a[x] \in 1 .. n /\ a[x] < x /\ a[x] \in Nat
      BY <1>1, <2>2
    <2>5. Under(a, x, tip) /\ Under(a, y, tip) /\ from <= x /\ from <= y /\ from \in 1 .. n
      BY <1>2, <1>3, <1>4, <2>2
    <2>6. Under(a, a[x], tip) /\ tip \in 1 .. n
      BY <1>1, <1>2, <1>3, <2>2, <2>4, <2>5, UnderFacts
    <2>7. Under(a, from, x) /\ Under(a, y, x)
      BY <1>1, <1>5, <2>2, <2>5, <2>6, UnderFacts
    <2>8. from <= a[x]
      <3>1. from \in Nat /\ from < x
        BY <1>1, <2>2, <2>5
      <3>2. x \in from + 1 .. x
        BY <2>2, <3>1
      <3> QED
        BY <2>7, <3>2 DEF Under
    <2>9. a[x] \in S
      BY <1>4, <2>4, <2>6, <2>8
    <2>10. a[x] <= y
      BY <2>3, <2>4, <2>9
    <2>11. y <= a[x]
      <3>1. x \in y + 1 .. x
        BY <2>2
      <3> QED
        BY <2>7, <3>1 DEF Under
    <2>12. a[x] = y
      BY <2>2, <2>4, <2>10, <2>11
    <2> QED
      BY <2>4, <2>12 DEF x, y
  <1>11. Linked(hdr, lin)
    <2> SUFFICES ASSUME NEW j \in 2 .. c
                 PROVE  CheckedIn(hdr, lin[j]) /\ lin[j - 1] = Last(hdr[lin[j]])
      BY <1>8 DEF Linked
    <2>1. j \in 1 .. c /\ j - 1 \in 1 .. c
      BY <1>6
    <2>2. w[j] \in 2 .. n /\ a[w[j]] = w[j - 1]
      BY <1>10
    <2>3. lin[j] = t[w[j]].id /\ lin[j - 1] = t[w[j]].pred
      BY <1>1, <1>8, <2>1, <2>2
    <2>4. CheckedIn(hdr, t[w[j]].id) /\ t[w[j]].pred = Last(hdr[t[w[j]].id])
      BY <2>2 DEF Known, n
    <2> QED
      BY <2>3, <2>4
  <1> QED
    BY <1>6, <1>7, <1>8, <1>9, <1>11 DEF lin

(***************************************************************************)
(* The lineage a check-in builds upon is linked and ends with the tip of    *)
(* the executed branch.                                                     *)
(***************************************************************************)
LEMMA MainLineage ==
    ASSUME NEW h, Sound(h), NEW hdr, Known(hdr, h.nodes), NEW tip, Done(h.nodes, tip)
    PROVE  LET lin == MainSetLineage(h)
           IN  /\ lin \in Seq(Gid) /\ lin # <<>> /\ Linked(hdr, lin)
               /\ Last(lin) = h.nodes[tip].id
  <1> DEFINE t == h.nodes
             n == Len(t)
             F == {i \in FisIdx(h) .. n : t[i].exe /\ Confirmed(t[i])}
             from == Greatest(F, FisIdx(h))
             S == {i \in DOMAIN t : i >= from /\ t[i].exe}
  <1>1. t \in Seq(Node) /\ Shaped(t) /\ DOMAIN t = 1 .. n /\ Tree(t)
    BY NodesType DEF Sound, Tree
  <1>2. /\ n \in Nat /\ tip \in 1 .. n /\ \A i \in 1 .. n : t[i].exe <=> Under(Parents(t), i, tip)
    BY <1>1, TrunkAndFiles
  <1>3. FisIdx(h) \in 1 .. n /\ t[FisIdx(h)].exe
    <2>1. PICK f \in 1 .. n : t[f].id = h.fis /\ Executed(t[f]) /\ Confirmed(t[f])
      BY DEF Sound, SettledIn
    <2>2. FisIdx(h) = f
      BY <1>1, <2>1, Places DEF FisIdx
    <2> QED
      BY <2>1, <2>2 DEF Executed
  <1> HIDE DEF t, n
  <1>4. from \in 1 .. n /\ t[from].exe
    <2>1. F \in SUBSET (0 .. n) /\ F \subseteq 1 .. n
      BY <1>2, <1>3
    <2>2. (F = {} => from = FisIdx(h)) /\ (F # {} => from \in F)
      BY <1>2, <2>1, GreatestIs
    <2>3. \A i \in F : i \in 1 .. n /\ t[i].exe
      BY <2>1
    <2> HIDE DEF F, from
    <2> QED
      BY <1>3, <2>2, <2>3
  <1>5. MainSetLineage(h) = IdsAt(t, S)
    BY DEF MainSetLineage, t, n
  <1> HIDE DEF from
  <1>6. S = {i \in 1 .. n : i >= from /\ Under(Parents(t), i, tip)}
    BY <1>1, <1>2
  <1> HIDE DEF S
  <1>7. Known(hdr, t) /\ Under(Parents(t), from, tip)
    BY <1>2, <1>4 DEF t
  <1>8. IdsAt(t, S) \in Seq(Gid) /\ IdsAt(t, S) # <<>> /\ Linked(hdr, IdsAt(t, S))
        /\ Last(IdsAt(t, S)) = t[tip].id
    BY <1>1, <1>2, <1>4, <1>6, <1>7, BranchLineage DEF n
  <1> QED
    BY <1>5, <1>8 DEF t

(* The lineage that acknowledgments carry is linked.                         *)
LEMMA UnitLinked ==
    ASSUME NEW h, Sound(h), NEW hdr, Known(hdr, h.nodes)
    PROVE  Linked(hdr, UnitLineage(h))
  <1> DEFINE t == h.nodes
             n == Len(t)
             F == {i \in FisIdx(h) .. n : ~t[i].rej /\ Confirmed(t[i])}
             from == Greatest(F, FisIdx(h))
             S == {i \in DOMAIN t : i >= from /\ ~t[i].rej}
  <1>1. t \in Seq(Node) /\ Shaped(t) /\ DOMAIN t = 1 .. n /\ Tree(t)
    BY NodesType DEF Sound, Tree
  <1>2. /\ n \in Nat /\ n \in 1 .. n /\ \A i \in 1 .. n : ~t[i].rej <=> Under(Parents(t), i, n)
    BY <1>1, Places DEF Tree, Trunk
  <1>3. FisIdx(h) \in 1 .. n /\ ~t[FisIdx(h)].rej
    <2>1. PICK f \in 1 .. n : t[f].id = h.fis /\ Executed(t[f]) /\ Confirmed(t[f])
      BY DEF Sound, SettledIn
    <2>2. FisIdx(h) = f
      BY <1>1, <2>1, Places DEF FisIdx
    <2> QED
      BY <2>1, <2>2 DEF Executed
  <1> HIDE DEF t, n
  <1>4. from \in 1 .. n /\ ~t[from].rej
    <2>1. F \in SUBSET (0 .. n) /\ F \subseteq 1 .. n
      BY <1>2, <1>3
    <2>2. (F = {} => from = FisIdx(h)) /\ (F # {} => from \in F)
      BY <1>2, <2>1, GreatestIs
    <2>3. \A i \in F : i \in 1 .. n /\ ~t[i].rej
      BY <2>1
    <2> HIDE DEF F, from
    <2> QED
      BY <1>3, <2>2, <2>3
  <1>5. UnitLineage(h) = IdsAt(t, S)
    BY DEF UnitLineage, t, n
  <1> HIDE DEF from
  <1>6. S = {i \in 1 .. n : i >= from /\ Under(Parents(t), i, n)}
    BY <1>1, <1>2
  <1> HIDE DEF S
  <1>7. Known(hdr, t) /\ Under(Parents(t), from, n)
    BY <1>2, <1>4 DEF t
  <1>8. Linked(hdr, IdsAt(t, S))
    BY <1>1, <1>2, <1>4, <1>6, <1>7, BranchLineage DEF n
  <1> QED
    BY <1>5, <1>8

(* No member checks in two scripts upon the same predecessor.                *)
OneBranch(hdr) ==
    \A s, u \in Script :
        s # u /\ CheckedIn(hdr, s) /\ CheckedIn(hdr, u) /\ Author(s) = Author(u)
            => Last(hdr[s]) # Last(hdr[u])

(* The root is no member's script.                                           *)
LEMMA RootNotScript == Root \notin Script
  <1> SUFFICES ASSUME NEW m \in Member, Root \in {m} \X (1 .. Limit[m]) PROVE FALSE
    BY DEF Script
  <1>1. m \in Nat \ {0}
    BY MemberAssumption
  <1> QED
    BY <1>1 DEF Root

(* An id of t has a place, and FindIdx finds it.                             *)
LEMMA IdsPlace ==
    ASSUME NEW t, Tree(t), NEW id
    PROVE  id \in Ids(t) <=> \E i \in 1 .. Len(t) : t[i].id = id /\ FindIdx(t, id) = i
  <1>1. t \in Seq(Node) /\ Shaped(t) /\ DOMAIN t = 1 .. Len(t)
    BY NodesType DEF Tree
  <1> QED
    BY <1>1, Places DEF Ids

(* A script's predecessor comes before it.                                   *)
LEMMA PredecessorPresent ==
    ASSUME NEW t, Tree(t), NEW hdr, Known(hdr, t), NEW id, id \in Ids(t), CheckedIn(hdr, id)
    PROVE  /\ Last(hdr[id]) \in Ids(t)
           /\ FindIdx(t, Last(hdr[id])) < FindIdx(t, id)
  <1>1. PICK i \in 1 .. Len(t) : t[i].id = id /\ FindIdx(t, id) = i
    BY IdsPlace
  <1>2. t \in Seq(Node) /\ Shaped(t) /\ Len(t) \in Nat
    BY Places DEF Tree
  <1>3. i # 1
    BY <1>1, <1>2, RootNotScript DEF Shaped, CheckedIn
  <1>4. i \in 2 .. Len(t)
    BY <1>1, <1>2, <1>3
  <1>5. t[i].pred = Last(hdr[id])
    BY <1>1, <1>4 DEF Known
  <1> DEFINE p == Parents(t)[i]
  <1>6. p \in 1 .. Len(t) /\ p < i /\ t[p].id = t[i].pred /\ FindIdx(t, t[p].id) = p
    BY <1>2, <1>4, Places
  <1> HIDE DEF p
  <1>7. Last(hdr[id]) \in Ids(t)
    BY <1>5, <1>6, IdsPlace
  <1> QED
    BY <1>1, <1>5, <1>6, <1>7

(***************************************************************************)
(* Matching a linked lineage stops at the last script that is known: all    *)
(* that follows is unknown, and nothing in it repeats.                      *)
(***************************************************************************)
LEMMA Matched ==
    ASSUME NEW t, Tree(t), NEW hdr, Known(hdr, t), NEW lin \in Seq(Gid), Linked(hdr, lin),
           FirstKnown(t, lin) # 0
    PROVE  LET L == LastMatched(t, lin)
           IN  /\ Len(lin) \in Nat /\ L \in 1 .. Len(lin) /\ lin[L] \in Ids(t)
               /\ \A j \in L + 1 .. Len(lin) : lin[j] \notin Ids(t)
               /\ \A i, j \in L + 1 .. Len(lin) : lin[i] = lin[j] => i = j
  <1> DEFINE n == Len(lin)
             K == {k \in DOMAIN lin : lin[k] \in Ids(t)}
             f == FirstKnown(t, lin)
             M == {i \in f .. n : \A j \in f + 1 .. i :
                                     FindIdx(t, lin[j]) > FindIdx(t, lin[j - 1])}
             L == LastMatched(t, lin)
  <1>1. t \in Seq(Node) /\ n \in Nat /\ DOMAIN lin = 1 .. n
    BY ArrayType DEF Tree
  <1>2. \A id : FindIdx(t, id) \in Nat /\ (FindIdx(t, id) = 0 <=> id \notin Ids(t))
    BY <1>1, FindIdxType, NodesType
  <1>3. f \in 1 .. n /\ lin[f] \in Ids(t)
    <2>1. K \in SUBSET Nat
      BY <1>1
    <2>2. (K = {} => Least(K, 0) = 0) /\ (K # {} => Least(K, 0) \in K)
      BY <2>1, LeastIs
    <2>3. f = Least(K, 0)
      BY DEF FirstKnown
    <2>4. f \in K
      BY <2>2, <2>3
    <2> HIDE DEF f
    <2> QED
      BY <1>1, <2>4
  <1> HIDE DEF K, n
  <1>4. L = Greatest(M, 0)
    BY DEF LastMatched, n
  <1> HIDE DEF f, L
  <1>5. f \in M /\ M \in SUBSET (0 .. n)
    BY <1>1, <1>3
  <1>6. L \in M /\ \A i \in M : i <= L
    BY <1>1, <1>4, <1>5, GreatestIs
  <1>7. /\ L \in f .. n /\ L \in 1 .. n
        /\ \A j \in f + 1 .. L : FindIdx(t, lin[j]) > FindIdx(t, lin[j - 1])
    BY <1>1, <1>3, <1>6
  <1>8. \A i \in f .. n : (\A j \in f + 1 .. i : FindIdx(t, lin[j]) > FindIdx(t, lin[j - 1]))
                             => i <= L
    BY <1>6
  <1> HIDE DEF M
  <1>9. lin[L] \in Ids(t)
    <2>1. CASE L = f
      BY <1>3, <2>1
    <2>2. CASE L # f
      <3>1. L \in f + 1 .. L
        BY <1>3, <1>7, <2>2
      <3>2. FindIdx(t, lin[L]) > FindIdx(t, lin[L - 1])
        BY <1>7, <3>1
      <3>3. FindIdx(t, lin[L]) # 0
        BY <1>2, <3>2
      <3> QED
        BY <1>2, <3>3
    <2> QED
      BY <2>1, <2>2
  <1>10. \A j \in L + 1 .. n : /\ j \in 2 .. n /\ j - 1 \in L .. n
                               /\ CheckedIn(hdr, lin[j]) /\ lin[j - 1] = Last(hdr[lin[j]])
    <2> SUFFICES ASSUME NEW j \in L + 1 .. n
                 PROVE  /\ j \in 2 .. n /\ j - 1 \in L .. n
                        /\ CheckedIn(hdr, lin[j]) /\ lin[j - 1] = Last(hdr[lin[j]])
      OBVIOUS
    <2>1. j \in 2 .. n /\ j - 1 \in L .. n
      BY <1>1, <1>7
    <2> QED
      BY <2>1 DEF Linked, n
  <1>11. L + 1 \in L + 1 .. n => lin[L + 1] \notin Ids(t)
    <2> SUFFICES ASSUME L + 1 \in L + 1 .. n, lin[L + 1] \in Ids(t) PROVE FALSE
      OBVIOUS
    <2>1. CheckedIn(hdr, lin[L + 1]) /\ lin[(L + 1) - 1] = Last(hdr[lin[L + 1]]) /\ (L + 1) - 1 = L
      BY <1>7, <1>10
    <2>2. FindIdx(t, lin[L]) < FindIdx(t, lin[L + 1])
      BY <2>1, PredecessorPresent
    <2>3. ASSUME NEW j \in f + 1 .. L + 1 PROVE FindIdx(t, lin[j]) > FindIdx(t, lin[j - 1])
      <3>1. CASE j = L + 1
        BY <1>2, <2>1, <2>2, <3>1
      <3>2. CASE j # L + 1
        <4>1. j \in f + 1 .. L
          BY <1>3, <1>7, <3>2
        <4> QED
          BY <1>7, <4>1
      <3> QED
        BY <3>1, <3>2
    <2>4. L + 1 \in f .. n
      BY <1>1, <1>3, <1>7
    <2>5. L + 1 <= L
      BY <1>8, <2>3, <2>4
    <2> QED
      BY <1>7, <2>5
  <1>12. \A j \in L + 1 .. n : lin[j] \notin Ids(t)
    <2> DEFINE B == {j \in L + 1 .. n : lin[j] \in Ids(t)}
    <2> SUFFICES ASSUME B # {} PROVE FALSE
      OBVIOUS
    <2>1. B \in SUBSET Nat
      BY <1>1, <1>7
    <2>2. PICK j \in B : \A i \in B : j <= i
      BY <2>1, LeastExists
    <2>3. j \in L + 1 .. n /\ lin[j] \in Ids(t)
      OBVIOUS
    <2>4. j # L + 1
      BY <1>11, <2>3
    <2>5. j - 1 \in L + 1 .. n /\ j - 1 < j
      BY <1>1, <1>7, <2>3, <2>4
    <2>6. lin[j - 1] \in Ids(t)
      BY <1>10, <2>3, PredecessorPresent
    <2>7. j - 1 \in B
      BY <2>5, <2>6
    <2>8. j <= j - 1
      BY <2>2, <2>7
    <2> QED
      BY <1>7, <2>3, <2>8
  <1>13. \A i, j \in L + 1 .. n : lin[i] = lin[j] => i = j
    <2> DEFINE B == {i \in L + 1 .. n : \E j \in i + 1 .. n : lin[i] = lin[j]}
    <2>1. B = {}
      <3> SUFFICES ASSUME B # {} PROVE FALSE
        OBVIOUS
      <3>1. B \in SUBSET Nat
        BY <1>1, <1>7
      <3>2. PICK i \in B : \A k \in B : i <= k
        BY <3>1, LeastExists
      <3>3. PICK j \in i + 1 .. n : lin[i] = lin[j]
        OBVIOUS
      <3>4. i \in L + 1 .. n /\ j \in L + 1 .. n /\ i \in Int /\ j \in Int /\ i + 1 <= j
        BY <1>1, <1>7, <3>2, <3>3
      <3>5. lin[i - 1] = lin[j - 1]
        BY <1>10, <3>3, <3>4
      <3>6. j - 1 \in L + 1 .. n
        BY <1>1, <1>7, <3>4
      <3>7. CASE i = L + 1
        <4>1. i - 1 = L
          BY <1>7, <3>7
        <4> QED
          BY <1>9, <1>12, <3>5, <3>6, <4>1
      <3>8. CASE i # L + 1
        <4>1. i - 1 \in L + 1 .. n /\ j - 1 \in (i - 1) + 1 .. n
          BY <1>1, <1>7, <3>4, <3>8
        <4>2. i - 1 \in B
          BY <3>5, <4>1
        <4>3. i <= i - 1
          BY <3>2, <4>2
        <4> QED
          BY <3>4, <4>3
      <3> QED
        BY <3>7, <3>8
    <2> SUFFICES ASSUME NEW i \in L + 1 .. n, NEW j \in L + 1 .. n, lin[i] = lin[j], i < j
                 PROVE  FALSE
      BY <1>1, <1>7
    <2>2. j \in i + 1 .. n
      BY <1>1, <1>7
    <2>3. i \in B
      BY <2>2
    <2> QED
      BY <2>1, <2>3
  <1> QED
    BY <1>1, <1>7, <1>9, <1>12, <1>13 DEF n, L

(* The bits of a placeholder.                                                *)
LEMMA MissingNodeFields ==
    ASSUME NEW id, NEW pred
    PROVE  LET n == MissingNode(id, pred)
           IN  /\ n.id = id /\ n.pred = pred /\ n.mis /\ ~n.exe /\ ~n.rej /\ ~n.bp
               /\ n.acks # {}
  BY DEF MissingNode, ScriptNode

(***************************************************************************)
(* The ids continue a lineage behind pred with scripts unknown to the       *)
(* history, none by its owner.                                              *)
(***************************************************************************)
Unheard(hdr, m, t, pred, ids) ==
    /\ ids # <<>> => CheckedIn(hdr, ids[1]) /\ Last(hdr[ids[1]]) = pred
    /\ \A k \in 2 .. Len(ids) : CheckedIn(hdr, ids[k]) /\ Last(hdr[ids[k]]) = ids[k - 1]
    /\ \A k \in 1 .. Len(ids) : ids[k] \notin Ids(t) /\ Author(ids[k]) # m
    /\ \A k, l \in 1 .. Len(ids) : ids[k] = ids[l] => k = l

(* The ids in a sequence.                                                    *)
Elements(ids) == {ids[k] : k \in 1 .. Len(ids)}

(* u holds what t held and ids.                                              *)
Gains(t, u, ids) == Ids(u) = Ids(t) \cup Elements(ids)

(* Placeholders for such ids form a chain that belongs there.                *)
LEMMA MissingChainHangs ==
    ASSUME NEW hdr, OneBranch(hdr), NEW m, NEW h, Good(hdr, m, h),
           NEW pred \in Ids(h.nodes), NEW ids \in Seq(Gid), Unheard(hdr, m, h.nodes, pred, ids),
           ids # <<>>
    PROVE  LET t == h.nodes
               chain == MissingChain(pred, ids)
           IN  /\ Hangs(t, pred, chain) /\ Fits(t, FindIdx(t, pred), chain) /\ Genuine(hdr, m, chain)
               /\ ChainIds(chain) = Elements(ids)
               /\ \A k \in 1 .. Len(chain) : Author(chain[k].id) # m /\ ~Confirmed(chain[k])
  <1> DEFINE t == h.nodes
             n == Len(ids)
             chain == MissingChain(pred, ids)
  <1>0. /\ ids # <<>> => CheckedIn(hdr, ids[1]) /\ Last(hdr[ids[1]]) = pred
        /\ \A k \in 2 .. n : CheckedIn(hdr, ids[k]) /\ Last(hdr[ids[k]]) = ids[k - 1]
        /\ \A k \in 1 .. n : ids[k] \notin Ids(t) /\ Author(ids[k]) # m
        /\ \A k, l \in 1 .. n : ids[k] = ids[l] => k = l
    BY DEF Unheard
  <1>1. n \in Nat /\ \A k \in 1 .. n : ids[k] \in Gid
    BY ArrayType
  <1>2. n > 0 /\ 1 \in 1 .. n
    BY <1>1, EmptySeq
  <1>4. Tree(t) /\ t \in Seq(Node) /\ Known(hdr, t) /\ Len(t) \in Nat
    BY NodesType DEF Good, Sound, Tree
  <1>5. pred \in Gid
    BY <1>4, IdsPlace, NodesType
  <1> DEFINE P(k) == IF k = 1 THEN pred ELSE ids[k - 1]
  <1>6. \A k \in 1 .. n : P(k) \in Gid
    BY <1>1, <1>5
  <1>7. chain = [k \in 1 .. n |-> MissingNode(ids[k], P(k))]
    BY DEF MissingChain
  <1> HIDE DEF n, P
  <1>8. chain \in Seq(Node) /\ Len(chain) = n
    <2>1. \A k \in 1 .. n : MissingNode(ids[k], P(k)) \in Node
      BY <1>1, <1>6, MissingNodeType
    <2> HIDE DEF chain
    <2>2. chain \in [1 .. n -> Node]
      BY <1>7, <2>1
    <2> QED
      BY <1>1, <2>2, FunctionIsArray
  <1>9. \A k \in 1 .. n : LET x == chain[k]
                          IN  /\ x.id = ids[k] /\ x.pred = P(k)
                              /\ ~x.exe /\ ~x.rej /\ ~x.bp /\ x.acks # {}
    BY <1>7, MissingNodeFields
  <1> HIDE DEF chain
  <1>10. P(1) = pred /\ \A k \in 2 .. n : P(k) = ids[k - 1] /\ k - 1 \in 1 .. n
    BY <1>1 DEF P
  <1>11. \A k \in 1 .. n : k = 1 \/ k \in 2 .. n
    BY <1>1
  <1>12. \A k \in 1 .. n : CheckedIn(hdr, ids[k]) /\ P(k) = Last(hdr[ids[k]])
    BY <1>0, <1>10, <1>11
  <1>13. \A j \in 2 .. Len(t) : t[j].pred = pred => Author(t[j].id) # Author(ids[1])
    <2> SUFFICES ASSUME NEW j \in 2 .. Len(t), t[j].pred = pred, Author(t[j].id) = Author(ids[1])
                 PROVE  FALSE
      OBVIOUS
    <2>1. CheckedIn(hdr, t[j].id) /\ Last(hdr[t[j].id]) = pred
      BY <1>4 DEF Known
    <2>2. CheckedIn(hdr, ids[1]) /\ Last(hdr[ids[1]]) = pred
      BY <1>2, <1>10, <1>12
    <2>3. t[j].id = ids[1]
      BY <2>1, <2>2 DEF OneBranch, CheckedIn
    <2>4. t[j].id \in Ids(t)
      <3>1. j \in 1 .. Len(t)
        BY <1>4
      <3> QED
        BY <1>4, <3>1, NodesType DEF Ids
    <2> QED
      BY <1>0, <1>2, <2>3, <2>4
  <1>14. Hangs(t, pred, chain)
    <2>1. chain[1].pred = pred /\ chain[1].id = ids[1]
      BY <1>2, <1>9, <1>10
    <2>2. \A k \in 2 .. n : chain[k].pred = chain[k - 1].id
      BY <1>1, <1>9, <1>10
    <2>3. \A k \in 1 .. n : chain[k].id \notin Ids(t) /\ ~chain[k].rej /\ ~chain[k].bp
      BY <1>0, <1>9
    <2>4. \A k, l \in 1 .. n : chain[k].id = chain[l].id => k = l
      BY <1>0, <1>9
    <2> QED
      BY <1>2, <1>8, <1>13, <2>1, <2>2, <2>3, <2>4 DEF Hangs
  <1>15. Fits(t, FindIdx(t, pred), chain)
    BY <1>8, <1>9 DEF Fits
  <1>16. Genuine(hdr, m, chain)
    <2>1. \A k \in 1 .. n : Author(ids[k]) # m
      BY <1>0
    <2> QED
      BY <1>8, <1>9, <1>12, <2>1 DEF Genuine
  <1>17. ChainIds(chain) = Elements(ids)
    BY <1>8, <1>9 DEF ChainIds, Elements, n
  <1>18. \A k \in 1 .. Len(chain) : Author(chain[k].id) # m /\ ~Confirmed(chain[k])
    BY <1>0, <1>8, <1>9 DEF Confirmed
  <1> QED
    BY <1>14, <1>15, <1>16, <1>17, <1>18 DEF chain

(* Inserting placeholders for such ids keeps a history good.                 *)
LEMMA InsertMissingGood ==
    ASSUME NEW hdr, OneBranch(hdr), NEW m, NEW h, Good(hdr, m, h),
           NEW pred \in Ids(h.nodes), NEW ids \in Seq(Gid), Unheard(hdr, m, h.nodes, pred, ids)
    PROVE  LET h2 == InsertMissing(h, pred, ids)
           IN  Good(hdr, m, h2) /\ Gains(h.nodes, h2.nodes, ids)
  <1> DEFINE chain == MissingChain(pred, ids)
             h2 == InsertChain(h, pred, chain)
  <1>1. CASE ids = <<>>
    <2>1. InsertMissing(h, pred, ids) = h
      BY <1>1 DEF InsertMissing
    <2>2. Elements(ids) = {}
      BY <1>1 DEF Elements
    <2> QED
      BY <2>1, <2>2 DEF Gains
  <1>2. CASE ids # <<>>
    <2>1. InsertMissing(h, pred, ids) = h2
      BY <1>2 DEF InsertMissing
    <2>2. /\ Hangs(h.nodes, pred, chain) /\ Fits(h.nodes, FindIdx(h.nodes, pred), chain)
          /\ Genuine(hdr, m, chain) /\ ChainIds(chain) = Elements(ids)
      BY <1>2, MissingChainHangs
    <2> HIDE DEF chain
    <2>3. Good(hdr, m, h2) /\ Ids(h2.nodes) = Ids(h.nodes) \cup ChainIds(chain)
      BY <2>2, InsertChainGood
    <2> HIDE DEF h2
    <2> QED
      BY <2>1, <2>2, <2>3 DEF Gains
  <1> QED
    BY <1>1, <1>2

----------------------------------------------------------------------------
(* Check-in and reception *)

(***************************************************************************)
(* A check-in that does not win changes nothing of what is to be executed   *)
(* next.                                                                    *)
(***************************************************************************)
LEMMA GrownNext ==
    ASSUME NEW t, Tree(t), NEW pred, NEW n, Hangs(t, pred, <<n>>),
           NEW p, NEW at, NEW t2, Grown(t, p, at, <<n>>, t2), t[p].id = pred,
           n.exe, ~Wins(t, p, Author(n.id))
    PROVE  NextOf(t2) = NextOf(t)
  <1> DEFINE k == Len(t)
             chain == <<n>>
             S(x) == Shift(x, at, Len(chain))
             W == Waiting(t)
             W2 == Waiting(t2)
  <1>0. /\ Len(chain) = 1 /\ chain[1] = n
        /\ Hangs(t, pred, chain) /\ Grown(t, p, at, chain, t2)
    OBVIOUS
  <1> HIDE DEF chain
  <1>1. /\ k \in Nat /\ at \in p + 1 .. k + 1 /\ p \in 1 .. k /\ Len(t2) = k + 1
        /\ \A x \in 1 .. k : S(x) = IF x < at THEN x ELSE x + 1
        /\ \A x \in 1 .. k : S(x) \in 1 .. k + 1
        /\ \A i \in 1 .. k + 1 : i \in at .. at + 1 - 1 \/ \E x \in 1 .. k : i = S(x)
        /\ \A x, y \in 1 .. k : x < y <=> S(x) < S(y)
    <2> DEFINE c == Len(chain)
    <2>1. Hangs(t, pred, chain) /\ Grown(t, p, at, chain, t2)
      BY <1>0
    <2>2. /\ k \in Nat /\ at \in p + 1 .. k + 1 /\ p \in 1 .. k /\ Len(t2) = k + c
          /\ \A x \in 1 .. k : S(x) = IF x < at THEN x ELSE x + c
          /\ \A x \in 1 .. k : S(x) \in 1 .. k + c
          /\ \A i \in 1 .. k + c : i \in at .. at + c - 1 \/ \E x \in 1 .. k : i = S(x)
          /\ \A x, y \in 1 .. k : x < y <=> S(x) < S(y)
      BY <2>1, GrownPlaces
    <2>3. c = 1
      BY <1>0
    <2> HIDE DEF c, S
    <2> QED
      BY <2>2, <2>3
  <1>2. /\ \A x \in 1 .. k : /\ t2[S(x)].id = t[x].id /\ t2[S(x)].exe = t[x].exe
                             /\ t2[S(x)].mis = t[x].mis
                             /\ t2[S(x)].rej <=> t[x].rej
        /\ \A i \in at .. at + 1 - 1 : t2[i].exe = chain[i - at + 1].exe
    BY <1>0 DEF Grown
  <1>3. at \in Nat /\ at .. at + 1 - 1 = {at} /\ at - at + 1 = 1
    BY <1>1
  <1>4. t2[at].exe
    BY <1>0, <1>2, <1>3
  <1> HIDE DEF S, k
  <1>5. \A x \in 1 .. k : S(x) \in W2 <=> x \in W
    BY <1>1, <1>2 DEF Waiting, k
  <1>6. \A i \in W2 : \E x \in W : i = S(x)
    <2> SUFFICES ASSUME NEW i \in W2 PROVE \E x \in W : i = S(x)
      OBVIOUS
    <2>1. i \in 1 .. k + 1 /\ i # at
      BY <1>1, <1>4 DEF Waiting
    <2>2. PICK x \in 1 .. k : i = S(x)
      BY <1>1, <1>3, <2>1
    <2> QED
      BY <1>5, <2>2
  <1>7. W \subseteq 1 .. k /\ W2 \subseteq 1 .. k + 1 /\ W \in SUBSET Nat /\ W2 \in SUBSET Nat
    <2>1. W \subseteq 1 .. k /\ W2 \subseteq 1 .. k + 1
      BY <1>1 DEF Waiting, k
    <2> QED
      BY <1>1, <2>1
  <1> HIDE DEF W, W2
  <1>8. CASE W = {}
    <2>1. W2 = {}
      BY <1>6, <1>8
    <2>2. Least(W, 0) = 0 /\ Least(W2, 0) = 0
      BY <1>7, <1>8, <2>1, LeastIs
    <2> QED
      BY <2>2 DEF NextOf, W, W2
  <1>9. CASE W # {}
    <2> DEFINE x == Least(W, 0)
               y == Least(W2, 0)
    <2>1. x \in W /\ \A j \in W : x <= j
      BY <1>7, <1>9, LeastIs
    <2>2. W2 # {}
      BY <1>5, <1>7, <2>1
    <2>3. y \in W2 /\ \A j \in W2 : y <= j
      BY <1>7, <2>2, LeastIs
    <2> HIDE DEF x, y
    <2>4. PICK z \in W : y = S(z)
      BY <1>6, <2>3
    <2>5. x \in 1 .. k /\ z \in 1 .. k /\ x <= z /\ x \in Nat /\ z \in Nat /\ S(x) \in W2
      BY <1>1, <1>5, <1>7, <2>1, <2>4
    <2>6. S(x) \in Nat /\ y \in Nat /\ y <= S(x)
      BY <1>7, <2>3, <2>5
    <2>7. ~(x < z)
      BY <1>1, <2>4, <2>5, <2>6
    <2>8. y = S(x) /\ x # 0 /\ y # 0
      BY <1>1, <1>7, <2>3, <2>4, <2>5, <2>7
    <2>9. NextOf(t) = IF x # 0 /\ ~t[x].mis THEN t[x].id ELSE NoId
      BY DEF NextOf, x, W
    <2>10. NextOf(t2) = IF y # 0 /\ ~t2[y].mis THEN t2[y].id ELSE NoId
      BY DEF NextOf, y, W2
    <2> QED
      BY <1>2, <2>5, <2>8, <2>9, <2>10
  <1> QED
    BY <1>8, <1>9

(***************************************************************************)
(* A check-in never wins against a trunk: it extends the trunk or the       *)
(* losing branch of its owner.                                              *)
(***************************************************************************)
LEMMA CheckInNeverWins ==
    ASSUME NEW h, Sound(h), NEW tip, Done(h.nodes, tip), NEW user \in Nat,
           ~HasIncomingOrMissingScripts(h) \/ HasToBeRejectedScripts(h)
    PROVE  ~Wins(h.nodes, tip, user)
  <1> DEFINE t == h.nodes
             n == Len(t)
             a == Parents(t)
             d == DecidingHead(t, tip, user)
  <1> SUFFICES ASSUME Wins(t, tip, user) PROVE FALSE
    OBVIOUS
  <1>1. Tree(t) /\ t \in Seq(Node) /\ Shaped(t)
    BY DEF Sound, Tree
  <1>2. /\ n \in Nat /\ tip \in 1 .. n
        /\ \A i \in 1 .. n : t[i].rej \in BOOLEAN /\ t[i].exe \in BOOLEAN /\ t[i].mis \in BOOLEAN
        /\ \A i \in 1 .. n : t[i].exe <=> Under(a, i, tip)
        /\ \A i \in 1 .. n : ~t[i].rej <=> Under(a, i, n)
        /\ \A i, j \in 1 .. n : Under(a, i, j) /\ ~t[j].rej => ~t[i].rej
        /\ \A i, j \in 1 .. n : Under(a, i, j) => i <= j
    BY <1>1, TrunkAndFiles
  <1>3. d \in tip + 1 .. n /\ a[d] = tip /\ Under(a, d, n)
    <2>1. Placed(t, tip, user)
      BY <1>1, <1>2, InsertionPlace
    <2> QED
      BY <2>1 DEF Placed
  <1>4. d \in 2 .. n /\ d \in 1 .. n /\ tip < d /\ Under(a, tip, d)
    <2>1. d \in 2 .. n /\ d \in 1 .. n /\ tip < d
      BY <1>2, <1>3
    <2>2. Preorder(a, n)
      BY <1>1 DEF Shaped
    <2> QED
      BY <1>3, <2>1, <2>2, UnderFacts
  <1>5. ~t[d].rej /\ ~t[d].exe /\ ~t[tip].rej
    <2>1. ~t[d].rej
      BY <1>2, <1>3, <1>4
    <2>2. ~Under(a, d, tip)
      BY <1>2, <1>4
    <2> QED
      BY <1>2, <1>4, <2>1, <2>2
  <1>6. HasIncomingOrMissingScripts(h)
    <2>1. PICK f \in 1 .. n : t[f].id = h.fis /\ Executed(t[f]) /\ Confirmed(t[f])
      BY DEF Sound, SettledIn
    <2>2. FisIdx(h) = f
      BY <1>1, <2>1, Places DEF FisIdx
    <2>3. f <= tip
      BY <1>2, <2>1 DEF Executed
    <2>4. d \in FisIdx(h) .. n
      BY <1>2, <1>4, <2>2, <2>3
    <2>5. Candidate(t[d]) \/ t[d].mis
      BY <1>5 DEF Candidate
    <2>6. ASSUME NEW j \in d + 1 .. n PROVE ~Executed(t[j])
      <3>1. j \in 1 .. n /\ ~(j <= tip)
        BY <1>2, <1>4
      <3> QED
        BY <1>2, <3>1 DEF Executed
    <2> QED
      BY <2>4, <2>5, <2>6 DEF HasIncomingOrMissingScripts
  <1>7. PICK i \in ToBeRejectedScripts(h) : i >= FisIdx(h)
    BY <1>6 DEF HasToBeRejectedScripts
  <1>8. i \in 1 .. n /\ t[i].exe /\ t[i].rej
    BY UndoneScripts
  <1> QED
    BY <1>2, <1>5, <1>8

(* A script checked in belongs behind the tip of the executed branch, and     *)
(* does not win.                                                            *)
LEMMA CheckInHangs ==
    ASSUME NEW hdr, NEW m \in Member, NEW h, Good(hdr, m, h),
           NEW tip, Done(h.nodes, tip), NEW n \in Node,
           n.pred = h.nodes[tip].id, n.id \notin Ids(h.nodes), Author(n.id) = m,
           n.exe, ~n.mis, ~n.rej, ~n.bp,
           CheckedIn(hdr, n.id), Last(hdr[n.id]) = n.pred,
           ~HasIncomingOrMissingScripts(h) \/ HasToBeRejectedScripts(h)
    PROVE  LET t == h.nodes
           IN  /\ Hangs(t, n.pred, <<n>>) /\ Fits(t, FindIdx(t, n.pred), <<n>>)
               /\ Genuine(hdr, m, <<n>>) /\ ChainIds(<<n>>) = {n.id}
               /\ FindIdx(t, n.pred) = tip /\ ~Wins(t, tip, Author(n.id))
  <1> DEFINE t == h.nodes
             chain == <<n>>
  <1>1. Sound(h) /\ Tree(t) /\ t \in Seq(Node) /\ Shaped(t) /\ OwnDone(m, t) /\ h \in History
    BY DEF Good, Sound, Tree
  <1>2. tip \in 1 .. Len(t) /\ FindIdx(t, n.pred) = tip /\ n.pred \in Ids(t)
    <2>1. tip \in 1 .. Len(t)
      BY DEF Done
    <2> QED
      BY <1>1, <2>1, Places, IdsPlace
  <1>3. chain \in Seq(Node) /\ Len(chain) = 1 /\ chain[1] = n
    BY SingletonArray
  <1>4. \A j \in 2 .. Len(t) : t[j].pred = n.pred => Author(t[j].id) # Author(n.id)
    <2> SUFFICES ASSUME NEW j \in 2 .. Len(t), t[j].pred = n.pred, Author(t[j].id) = m
                 PROVE  FALSE
      OBVIOUS
    <2>1. Parents(t)[j] = tip
      BY <1>1, <1>2, Places
    <2> QED
      BY <1>1, <2>1 DEF OwnDone
  <1> HIDE DEF chain
  <1>5. Hangs(t, n.pred, chain)
    <2>1. \A k \in 1 .. Len(chain) : k = 1
      BY <1>3
    <2>2. \A k \in 2 .. Len(chain) : chain[k].pred = chain[k - 1].id
      BY <1>3
    <2> QED
      BY <1>2, <1>3, <1>4, <2>1, <2>2 DEF Hangs
  <1>6. Fits(t, FindIdx(t, n.pred), chain)
    BY <1>2, <1>3 DEF Fits
  <1>7. Genuine(hdr, m, chain)
    <2>1. \A k \in 1 .. Len(chain) : k = 1
      BY <1>3
    <2> QED
      BY <1>3, <2>1 DEF Genuine
  <1>8. ChainIds(chain) = {n.id}
    BY <1>3 DEF ChainIds
  <1>9. Author(n.id) \in Nat
    BY MemberAssumption
  <1>10. ~Wins(t, tip, Author(n.id))
    BY <1>1, <1>9, CheckInNeverWins
  <1> QED
    BY <1>2, <1>5, <1>6, <1>7, <1>8, <1>10 DEF chain

(* A check-in keeps a history good and the next script.                      *)
LEMMA CheckInGood ==
    ASSUME NEW hdr, NEW m \in Member, NEW h, Good(hdr, m, h),
           NEW tip, Done(h.nodes, tip), NEW n \in Node,
           n.pred = h.nodes[tip].id, n.id \notin Ids(h.nodes), Author(n.id) = m,
           n.exe, ~n.mis, ~n.rej, ~n.bp,
           CheckedIn(hdr, n.id), Last(hdr[n.id]) = n.pred,
           ~HasIncomingOrMissingScripts(h) \/ HasToBeRejectedScripts(h)
    PROVE  LET h1 == InsertNewNode(h, n)
           IN  /\ Good(hdr, m, h1) /\ Ids(h1.nodes) = Ids(h.nodes) \cup {n.id}
               /\ NextOf(h1.nodes) = NextOf(h.nodes)
  <1> DEFINE t == h.nodes
             chain == <<n>>
             h1 == InsertChain(h, n.pred, chain)
             at == InsertionIdx(t, tip, Author(n.id))
             u == h1.nodes
  <1>1. /\ Hangs(t, n.pred, chain) /\ Fits(t, FindIdx(t, n.pred), chain) /\ Genuine(hdr, m, chain)
        /\ ChainIds(chain) = {n.id} /\ FindIdx(t, n.pred) = tip /\ ~Wins(t, tip, Author(n.id))
    BY CheckInHangs
  <1>2. h \in History /\ Tree(t)
    BY DEF Good, Sound
  <1>3. chain[1] = n
    BY SingletonArray
  <1>4. InsertNewNode(h, n) = h1
    BY DEF InsertNewNode
  <1> HIDE DEF chain
  <1>5. Good(hdr, m, h1) /\ Ids(h1.nodes) = Ids(t) \cup {n.id}
    <2>1. ChainIds(chain) = {n.id}
      BY <1>1
    <2>2. Good(hdr, m, h) /\ Hangs(h.nodes, n.pred, chain)
          /\ Fits(h.nodes, FindIdx(h.nodes, n.pred), chain) /\ Genuine(hdr, m, chain)
      BY <1>1
    <2> QED
      BY ONLY <2>1, <2>2, InsertChainGood
  <1>6. Grown(t, tip, at, chain, u) /\ t[tip].id = n.pred
    BY <1>1, <1>2, <1>3, InsertChainGrows
  <1>7. Grown(t, tip, at, <<n>>, u) /\ Hangs(t, n.pred, <<n>>)
    BY <1>1, <1>6 DEF chain
  <1> HIDE DEF u, at, t
  <1>8. NextOf(u) = NextOf(t)
    BY <1>1, <1>2, <1>6, <1>7, GrownNext DEF t
  <1> QED
    BY <1>4, <1>5, <1>8 DEF u, t

(* A script received whose predecessor is known belongs behind that.         *)
LEMMA ReceivedHangs ==
    ASSUME NEW hdr, OneBranch(hdr), NEW m, NEW h, Good(hdr, m, h), NEW n \in Node,
           n.pred \in Ids(h.nodes), n.id \notin Ids(h.nodes), Author(n.id) # m,
           ~n.exe, ~n.rej, ~n.bp, CheckedIn(hdr, n.id), Last(hdr[n.id]) = n.pred
    PROVE  LET t == h.nodes
           IN  /\ Hangs(t, n.pred, <<n>>) /\ Fits(t, FindIdx(t, n.pred), <<n>>)
               /\ Genuine(hdr, m, <<n>>) /\ ChainIds(<<n>>) = {n.id}
  <1> DEFINE t == h.nodes
             chain == <<n>>
  <1>1. Tree(t) /\ t \in Seq(Node) /\ Known(hdr, t) /\ Len(t) \in Nat
    BY NodesType DEF Good, Sound, Tree
  <1>3. chain \in Seq(Node) /\ Len(chain) = 1 /\ chain[1] = n
    BY SingletonArray
  <1>4. \A j \in 2 .. Len(t) : t[j].pred = n.pred => Author(t[j].id) # Author(n.id)
    <2> SUFFICES ASSUME NEW j \in 2 .. Len(t), t[j].pred = n.pred, Author(t[j].id) = Author(n.id)
                 PROVE  FALSE
      OBVIOUS
    <2>1. CheckedIn(hdr, t[j].id) /\ Last(hdr[t[j].id]) = n.pred
      BY <1>1 DEF Known
    <2>2. t[j].id = n.id
      BY <2>1 DEF OneBranch, CheckedIn
    <2>3. j \in 1 .. Len(t) /\ t[j].id \in Ids(t)
      BY <1>1, NodesType DEF Ids
    <2> QED
      BY <2>2, <2>3
  <1> HIDE DEF chain
  <1>5. Hangs(t, n.pred, chain)
    <2>1. \A k \in 1 .. Len(chain) : k = 1
      BY <1>3
    <2>2. \A k \in 2 .. Len(chain) : chain[k].pred = chain[k - 1].id
      BY <1>3
    <2> QED
      BY <1>3, <1>4, <2>1, <2>2 DEF Hangs
  <1>6. Fits(t, FindIdx(t, n.pred), chain)
    BY <1>3 DEF Fits
  <1>7. Genuine(hdr, m, chain)
    <2>1. \A k \in 1 .. Len(chain) : k = 1
      BY <1>3
    <2> QED
      BY <1>3, <2>1 DEF Genuine
  <1>8. ChainIds(chain) = {n.id}
    BY <1>3 DEF ChainIds
  <1> QED
    BY <1>5, <1>6, <1>7, <1>8 DEF chain

(* Inserting a received script keeps a history good.                         *)
LEMMA ReceivedGood ==
    ASSUME NEW hdr, OneBranch(hdr), NEW m, NEW h, Good(hdr, m, h), NEW n \in Node,
           n.pred \in Ids(h.nodes), n.id \notin Ids(h.nodes), Author(n.id) # m,
           ~n.exe, ~n.rej, ~n.bp, CheckedIn(hdr, n.id), Last(hdr[n.id]) = n.pred
    PROVE  LET h1 == InsertNewNode(h, n)
           IN  Good(hdr, m, h1) /\ Ids(h1.nodes) = Ids(h.nodes) \cup {n.id}
  <1> DEFINE chain == <<n>>
             h1 == InsertChain(h, n.pred, chain)
  <1>1. /\ Hangs(h.nodes, n.pred, chain) /\ Fits(h.nodes, FindIdx(h.nodes, n.pred), chain)
        /\ Genuine(hdr, m, chain) /\ ChainIds(chain) = {n.id}
    BY ReceivedHangs
  <1>2. InsertNewNode(h, n) = h1
    BY DEF InsertNewNode
  <1> HIDE DEF chain
  <1>3. Good(hdr, m, h1) /\ Ids(h1.nodes) = Ids(h.nodes) \cup {n.id}
    <2>1. ChainIds(chain) = {n.id}
      BY <1>1
    <2>2. Good(hdr, m, h) /\ Hangs(h.nodes, n.pred, chain)
          /\ Fits(h.nodes, FindIdx(h.nodes, n.pred), chain) /\ Genuine(hdr, m, chain)
      BY <1>1
    <2> QED
      BY ONLY <2>1, <2>2, InsertChainGood
  <1> QED
    BY <1>2, <1>3

----------------------------------------------------------------------------
(* What a sound history promises *)

(* The files of a sound history are those of one branch.                     *)
LEMMA SoundFiles ==
    ASSUME NEW h, Sound(h)
    PROVE  LET done == {i \in DOMAIN h.nodes : h.nodes[i].exe}
           IN  \E i \in done : done = Path(h.nodes, i)
  <1> DEFINE t == h.nodes
             done == {i \in DOMAIN t : t[i].exe}
  <1>1. t \in Seq(Node) /\ Shaped(t) /\ Tree(t)
    BY DEF Sound, Tree
  <1>2. PICK tip : Done(t, tip)
    BY DEF Sound
  <1>3. tip \in 1 .. Len(t) /\ \A i \in 1 .. Len(t) : t[i].exe <=> Under(Parents(t), i, tip)
    BY <1>2 DEF Done
  <1>4. t[tip].exe /\ DOMAIN t = 1 .. Len(t)
    BY <1>1, <1>2, TrunkAndFiles, Places
  <1>5. Path(t, tip) = {j \in 1 .. Len(t) : Under(Parents(t), j, tip)}
    BY <1>1, <1>3, PathOf
  <1>6. done = Path(t, tip)
    BY <1>3, <1>4, <1>5
  <1> QED
    BY <1>3, <1>4, <1>6

(* The First Interesting Script of a sound history is settled.               *)
LEMMA SoundFis ==
    ASSUME NEW h, Sound(h)
    PROVE  LET n == FindNode(h.nodes, h.fis)
           IN  FisIdx(h) # 0 /\ Executed(n) /\ Confirmed(n)
  <1> DEFINE t == h.nodes
  <1>1. t \in Seq(Node) /\ Shaped(t)
    BY DEF Sound, Tree
  <1>2. PICK f \in 1 .. Len(t) : t[f].id = h.fis /\ Executed(t[f]) /\ Confirmed(t[f])
    BY DEF Sound, SettledIn
  <1>3. FindIdx(t, h.fis) = f /\ f # 0
    BY <1>1, <1>2, Places
  <1> QED
    BY <1>2, <1>3 DEF FindNode, FisIdx

(* The next script of a sound history can be executed.                       *)
LEMMA SoundNext ==
    ASSUME NEW h, Sound(h), NextOf(h.nodes) # NoId
    PROVE  LET t == h.nodes
               i == FindIdx(t, NextOf(t))
           IN  i # 0 /\ Candidate(t[i]) /\ \A j \in Path(t, i) \ {i} : t[j].exe
  <1> DEFINE t == h.nodes
  <1>1. t \in Seq(Node) /\ Shaped(t)
    BY DEF Sound, Tree
  <1>2. PICK i \in 1 .. Len(t) :
            /\ FindIdx(t, NextOf(t)) = i
            /\ ~t[i].exe /\ ~t[i].rej /\ ~t[i].mis
            /\ \A j \in 1 .. Len(t) :
                  Under(Parents(t), j, i) <=> j = i \/ (t[j].exe /\ ~t[j].rej)
    BY NextFollows
  <1>3. Path(t, i) = {j \in 1 .. Len(t) : Under(Parents(t), j, i)}
    BY <1>1, PathOf
  <1>4. i # 0
    BY <1>1, <1>2, Places
  <1> QED
    BY <1>2, <1>3, <1>4 DEF Candidate

----------------------------------------------------------------------------
(* The array is a function of the scripts in it *)

(* t and u hold the same scripts with the same predecessors.                 *)
SameFamily(t, u) ==
    /\ Ids(t) = Ids(u)
    /\ \A i \in 1 .. Len(t), j \in 1 .. Len(u) : t[i].id = u[j].id => t[i].pred = u[j].pred

(* They agree before place i.                                                *)
SameUpTo(t, u, i) ==
    i \in 2 .. Len(t) /\ i \in 2 .. Len(u) /\ \A j \in 1 .. i - 1 : t[j].id = u[j].id

(* The ids at the places of t are its ids.                                   *)
LEMMA IdListed ==
    ASSUME NEW t, Tree(t), NEW i \in 1 .. Len(t)
    PROVE  t[i].id \in Ids(t)
  <1>1. DOMAIN t = 1 .. Len(t)
    BY Places DEF Tree
  <1> QED
    BY <1>1 DEF Ids

(***************************************************************************)
(* At the first place where two walks of the same tree might differ, the    *)
(* one does not go deeper than the other, nor to a sibling of lower         *)
(* priority.                                                                *)
(***************************************************************************)
LEMMA NextInWalk ==
    ASSUME NEW t, Tree(t), NEW u, Tree(u), SameFamily(t, u), NEW i, SameUpTo(t, u, i)
    PROVE  LET p == Parents(t)[i]
               q == Parents(u)[i]
           IN  /\ q <= p
               /\ p = q /\ t[i].id # u[i].id => Author(u[i].id) < Author(t[i].id)
  <1> DEFINE a == Parents(t)
             b == Parents(u)
             n == Len(t)
  <1>1. /\ t \in Seq(Node) /\ Shaped(t) /\ Ordered(t) /\ Preorder(a, n)
        /\ u \in Seq(Node) /\ Shaped(u)
    BY DEF Tree, Shaped
  <1>2. /\ n \in Nat /\ Len(u) \in Nat /\ i \in 2 .. n /\ i \in 2 .. Len(u)
        /\ \A j \in 1 .. i - 1 : t[j].id = u[j].id
    BY <1>1, Places DEF SameUpTo
  <1>3. /\ a[i] \in 1 .. n /\ a[i] < i
        /\ b[i] \in 1 .. Len(u) /\ b[i] < i /\ u[b[i]].id = u[i].pred
    BY <1>1, <1>2, Places
  <1>4. u[i].id \in Ids(t)
    <2>1. i \in 1 .. Len(u)
      BY <1>2
    <2> QED
      BY <2>1, IdListed DEF SameFamily
  <1>5. PICK k \in 1 .. n : t[k].id = u[i].id
    BY <1>4, IdsPlace
  <1>6. k >= i
    <2>1. ASSUME k < i PROVE FALSE
      <3>1. k \in 1 .. i - 1 /\ k \in 1 .. Len(u)
        BY <1>2, <2>1
      <3>2. u[k].id = u[i].id
        BY <1>2, <1>5, <3>1
      <3>3. k = i
        BY <1>1, <1>2, <3>1, <3>2 DEF Shaped
      <3> QED
        BY <1>2, <2>1, <3>3
    <2> QED
      BY <1>2, <2>1
  <1>7. a[k] = b[i]
    <2>1. t[k].pred = u[i].pred
      BY <1>2, <1>5 DEF SameFamily
    <2>2. b[i] \in 1 .. i - 1 /\ b[i] \in 1 .. n /\ k \in 2 .. n
      BY <1>2, <1>3, <1>6
    <2>3. t[b[i]].id = t[k].pred
      BY <1>2, <1>3, <2>1, <2>2
    <2> QED
      BY <1>1, <2>2, <2>3, Places
  <1> HIDE DEF a, b
  <1>8. ASSUME k # i PROVE i \in 2 .. k - 1 /\ k \in 2 .. n
    BY <1>2, <1>6, <1>8
  <1>9. b[i] <= a[i]
    <2>1. CASE k = i
      BY <1>2, <1>3, <1>7, <2>1
    <2>2. CASE k # i
      <3>1. i \in 2 .. k - 1 /\ k \in 2 .. n
        BY <1>8, <2>2
      <3>2. a[k] < i => a[k] <= a[i]
        BY <1>1, <3>1 DEF Preorder
      <3> QED
        BY <1>3, <1>7, <3>2
    <2> QED
      BY <2>1, <2>2
  <1>10. ASSUME a[i] = b[i], t[i].id # u[i].id PROVE Author(u[i].id) < Author(t[i].id)
    <2>1. k # i
      BY <1>5, <1>10
    <2>2. i \in 2 .. n /\ k \in 2 .. n /\ i < k
      BY <1>2, <1>6, <1>8, <2>1
    <2>3. Author(t[k].id) < Author(t[i].id)
      BY <1>1, <1>7, <1>10, <2>2 DEF Ordered, a
    <2> QED
      BY <1>5, <2>3
  <1> QED
    BY <1>9, <1>10 DEF a, b

(* So they do not differ there.                                              *)
LEMMA SameWalk ==
    ASSUME NEW t, Tree(t), NEW u, Tree(u), SameFamily(t, u), NEW i, SameUpTo(t, u, i)
    PROVE  t[i].id = u[i].id
  <1>1. SameFamily(u, t) /\ SameUpTo(u, t, i)
    BY DEF SameFamily, SameUpTo
  <1>2. /\ t \in Seq(Node) /\ Shaped(t) /\ u \in Seq(Node) /\ Shaped(u)
        /\ i \in 2 .. Len(t) /\ i \in 2 .. Len(u)
    BY DEF Tree, SameUpTo
  <1>3. /\ Parents(t)[i] \in Nat /\ Parents(u)[i] \in Nat
        /\ t[i].id \in Gid /\ u[i].id \in Gid
    <2>1. Len(t) \in Nat /\ Len(u) \in Nat /\ i \in 1 .. Len(t) /\ i \in 1 .. Len(u)
      BY <1>2, Places
    <2> QED
      BY <1>2, <2>1, Places
  <1>4. Parents(u)[i] <= Parents(t)[i] /\ Parents(t)[i] <= Parents(u)[i]
    BY <1>1, NextInWalk
  <1>5. Parents(t)[i] = Parents(u)[i]
    BY <1>3, <1>4
  <1>6. Author(t[i].id) \in Nat /\ Author(u[i].id) \in Nat
    BY <1>3, AuthorType
  <1>7. ASSUME t[i].id # u[i].id PROVE FALSE
    <2>1. Author(u[i].id) < Author(t[i].id) /\ Author(t[i].id) < Author(u[i].id)
      BY <1>1, <1>5, <1>7, NextInWalk
    <2> QED
      BY <1>6, <2>1
  <1> QED
    BY <1>7

(* Two walks of the same tree are the same.                                  *)
LEMMA SameArray ==
    ASSUME NEW t, Tree(t), NEW u, Tree(u), SameFamily(t, u)
    PROVE  Len(t) = Len(u) /\ \A i \in 1 .. Len(t) : t[i].id = u[i].id
  <1> DEFINE D == {i \in 1 .. Len(t) : i <= Len(u) /\ t[i].id # u[i].id}
             d == Least(D, 0)
  <1>1. /\ t \in Seq(Node) /\ Shaped(t) /\ u \in Seq(Node) /\ Shaped(u)
        /\ Len(t) \in Nat /\ Len(u) \in Nat /\ Len(t) > 0 /\ Len(u) > 0
        /\ t[1].id = u[1].id
    BY Places DEF Tree, Shaped
  <1>2. D = {}
    <2> SUFFICES ASSUME D # {} PROVE FALSE
      OBVIOUS
    <2>1. D \in SUBSET Nat
      BY <1>1
    <2>2. d \in D /\ \A j \in D : d <= j
      BY <2>1, LeastIs
    <2>3. d \in 1 .. Len(t) /\ d <= Len(u) /\ t[d].id # u[d].id
      BY <2>2
    <2>4. d # 1
      BY <1>1, <2>3
    <2>5. d \in 2 .. Len(t) /\ d \in 2 .. Len(u)
      BY <1>1, <2>3, <2>4
    <2>6. ASSUME NEW j \in 1 .. d - 1 PROVE t[j].id = u[j].id
      <3>1. j \in 1 .. Len(t) /\ j <= Len(u) /\ j < d /\ j \in Nat /\ d \in Nat
        BY <1>1, <2>5
      <3>2. j \notin D
        BY <2>2, <3>1
      <3> QED
        BY <3>1, <3>2
    <2>7. SameUpTo(t, u, d)
      BY <2>5, <2>6 DEF SameUpTo
    <2> QED
      BY <2>3, <2>7, SameWalk
  <1>3. \A i \in 1 .. Len(t) : i <= Len(u) => t[i].id = u[i].id
    BY <1>2
  <1> HIDE DEF D, d
  <1>4. ASSUME Len(t) < Len(u) PROVE FALSE
    <2> DEFINE k == Len(t) + 1
    <2>1. k \in 1 .. Len(u) /\ k \notin 1 .. Len(t)
      BY <1>1, <1>4
    <2>2. u[k].id \in Ids(t)
      BY <2>1, IdListed DEF SameFamily
    <2>3. PICK j \in 1 .. Len(t) : t[j].id = u[k].id
      BY <2>2, IdsPlace
    <2>4. j \in 1 .. Len(u) /\ u[j].id = u[k].id /\ j # k
      BY <1>1, <1>3, <1>4, <2>1, <2>3
    <2> QED
      BY <1>1, <2>1, <2>4 DEF Shaped
  <1>5. ASSUME Len(u) < Len(t) PROVE FALSE
    <2> DEFINE k == Len(u) + 1
    <2>1. k \in 1 .. Len(t) /\ k \notin 1 .. Len(u)
      BY <1>1, <1>5
    <2>2. t[k].id \in Ids(u)
      BY <2>1, IdListed DEF SameFamily
    <2>3. PICK j \in 1 .. Len(u) : u[j].id = t[k].id
      BY <2>2, IdsPlace
    <2>4. j \in 1 .. Len(t) /\ t[j].id = t[k].id /\ j # k
      BY <1>1, <1>3, <1>5, <2>1, <2>3
    <2> QED
      BY <1>1, <2>1, <2>4 DEF Shaped
  <1>6. Len(t) = Len(u)
    BY <1>1, <1>4, <1>5
  <1> QED
    BY <1>1, <1>3, <1>6

(***************************************************************************)
(* The order, the branch points and the rejected branches are functions of  *)
(* the set of scripts.                                                      *)
(***************************************************************************)
LEMMA SameNodes ==
    ASSUME NEW t, Tree(t), NEW u, Tree(u), SameFamily(t, u)
    PROVE  /\ Len(t) = Len(u) /\ Parents(t) = Parents(u)
           /\ \A i \in 1 .. Len(t) : /\ t[i].id = u[i].id /\ t[i].pred = u[i].pred
                                     /\ t[i].bp = u[i].bp /\ t[i].rej = u[i].rej
  <1> DEFINE n == Len(t)
  <1>1. /\ t \in Seq(Node) /\ Shaped(t) /\ u \in Seq(Node) /\ Shaped(u)
        /\ Marked(t) /\ Marked(u) /\ Trunk(t) /\ Trunk(u)
    BY DEF Tree
  <1>2. n = Len(u) /\ n \in Nat /\ \A i \in 1 .. n : t[i].id = u[i].id
    BY <1>1, SameArray, Places
  <1>3. \A i \in 1 .. n : t[i].pred = u[i].pred
    BY <1>2 DEF SameFamily
  <1>4. \A i \in 2 .. n : Parents(t)[i] = Parents(u)[i]
    <2> SUFFICES ASSUME NEW i \in 2 .. n PROVE Parents(t)[i] = Parents(u)[i]
      OBVIOUS
    <2> DEFINE p == Parents(t)[i]
    <2>1. p \in 1 .. n /\ t[p].id = t[i].pred /\ i \in 1 .. n
      BY <1>1, <1>2, Places
    <2>2. u[p].id = u[i].pred
      BY <1>2, <1>3, <2>1
    <2> QED
      BY <1>1, <1>2, <2>1, <2>2, Places
  <1>5. Parents(t) = Parents(u)
    BY <1>2, <1>4 DEF Parents
  <1>6. \A i \in 1 .. n : /\ t[i].bp \in BOOLEAN /\ t[i].rej \in BOOLEAN
                          /\ u[i].bp \in BOOLEAN /\ u[i].rej \in BOOLEAN
    <2>1. \A i \in 1 .. n : t[i] \in Node /\ u[i] \in Node
      BY <1>1, <1>2, NodesType
    <2> QED
      BY <2>1 DEF Node
  <1>7. \A i \in 1 .. n : (t[i].bp <=> u[i].bp) /\ (t[i].rej <=> u[i].rej)
    BY <1>1, <1>2, <1>5 DEF Marked, Branching, Trunk
  <1>8. \A i \in 1 .. n : t[i].bp = u[i].bp /\ t[i].rej = u[i].rej
    BY <1>6, <1>7
  <1> QED
    BY <1>2, <1>3, <1>5, <1>8

(***************************************************************************)
(* When nothing is missing or left to execute, exactly the trunk is         *)
(* executed.                                                                *)
(***************************************************************************)
LEMMA NothingWaits ==
    ASSUME NEW h, Sound(h), NextOf(h.nodes) = NoId, \A i \in 1 .. Len(h.nodes) : ~h.nodes[i].mis
    PROVE  \A i \in 1 .. Len(h.nodes) : h.nodes[i].exe = ~h.nodes[i].rej
  <1> DEFINE t == h.nodes
             n == Len(t)
             a == Parents(t)
             w == Least(Waiting(t), 0)
  <1>1. Tree(t) /\ t \in Seq(Node) /\ Shaped(t)
    BY DEF Sound, Tree
  <1>2. PICK tip : Done(t, tip)
    BY DEF Sound
  <1>3. /\ n \in Nat /\ n > 0 /\ tip \in 1 .. n
        /\ \A i \in 1 .. n : t[i].rej \in BOOLEAN /\ t[i].exe \in BOOLEAN
        /\ \A i \in 1 .. n : t[i].exe <=> Under(a, i, tip)
        /\ \A i \in 1 .. n : ~t[i].rej <=> Under(a, i, n)
        /\ \A i, j \in 1 .. n : Under(a, i, j) => i <= j
        /\ ~t[n].rej
    BY <1>1, <1>2, TrunkAndFiles
  <1>4. Waiting(t) = {}
    <2> SUFFICES ASSUME Waiting(t) # {} PROVE FALSE
      OBVIOUS
    <2>1. Waiting(t) \in SUBSET Nat
      BY <1>3 DEF Waiting
    <2>2. w \in Waiting(t)
      BY <2>1, LeastIs
    <2>3. w \in 1 .. n /\ w # 0
      BY <1>3, <2>2 DEF Waiting
    <2>4. NextOf(t) = t[w].id
      BY <2>3 DEF NextOf
    <2>5. t[w].id # NoId
      BY <1>1, <2>3, Places
    <2> QED
      BY <2>4, <2>5
  <1> HIDE DEF a
  <1>5. n \in 1 .. n /\ t[n].exe
    BY <1>3, <1>4 DEF Waiting
  <1>6. n <= tip
    BY <1>3, <1>5
  <1>7. tip = n
    BY <1>3, <1>6
  <1>8. \A i \in 1 .. n : t[i].exe <=> ~t[i].rej
    BY <1>3, <1>7
  <1> QED
    BY <1>3, <1>8

(***************************************************************************)
(* When no script is lost or missing a good history holds exactly what was  *)
(* checked in.                                                              *)
(***************************************************************************)
LEMMA GoodScripts ==
    ASSUME NEW hdr, NEW m, NEW h, Good(hdr, m, h),
           \A id \in Script : hdr[id] # <<>> =>
              \E i \in 1 .. Len(h.nodes) : h.nodes[i].id = id /\ ~h.nodes[i].mis
    PROVE  /\ Ids(h.nodes) = {Root} \cup {id \in Script : hdr[id] # <<>>}
           /\ \A i \in 1 .. Len(h.nodes) : ~h.nodes[i].mis
  <1> DEFINE t == h.nodes
  <1>1. Tree(t) /\ t \in Seq(Node) /\ Shaped(t) /\ Known(hdr, t) /\ RootSettled(t)
    BY DEF Good, Sound, Tree
  <1>2. Len(t) \in Nat /\ Len(t) > 0 /\ t[1].id = Root /\ DOMAIN t = 1 .. Len(t)
    BY <1>1, Places DEF Shaped
  <1>3. \A i \in 1 .. Len(t) : i = 1 \/ CheckedIn(hdr, t[i].id)
    BY <1>1, <1>2 DEF Known
  <1>4. \A i \in 1 .. Len(t) : ~t[i].mis
    <2> SUFFICES ASSUME NEW i \in 1 .. Len(t) PROVE ~t[i].mis
      OBVIOUS
    <2>1. CASE i = 1
      BY <1>1, <2>1 DEF RootSettled
    <2>2. CASE i # 1
      <3>1. CheckedIn(hdr, t[i].id)
        BY <1>3, <2>2
      <3>2. PICK k \in 1 .. Len(t) : t[k].id = t[i].id /\ ~t[k].mis
        BY <3>1 DEF CheckedIn
      <3>3. k = i
        BY <1>1, <3>2 DEF Shaped
      <3> QED
        BY <3>2, <3>3
    <2> QED
      BY <2>1, <2>2
  <1>5. Ids(t) \subseteq {Root} \cup {id \in Script : hdr[id] # <<>>}
    BY <1>2, <1>3 DEF Ids, CheckedIn
  <1>6. 1 \in 1 .. Len(t)
    BY <1>2
  <1>7. {Root} \cup {id \in Script : hdr[id] # <<>>} \subseteq Ids(t)
    BY <1>2, <1>6 DEF Ids
  <1> QED
    BY <1>4, <1>5, <1>7

=============================================================================

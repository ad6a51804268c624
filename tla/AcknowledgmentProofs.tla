------------------------ MODULE AcknowledgmentProofs ------------------------
(***************************************************************************)
(* Proofs about what the members may conclude from each other's             *)
(* acknowledgments: what one has confirmed, all have recorded and none      *)
(* rejects, now or later, although acknowledgments are lost, repeated and   *)
(* overtaken; and nobody is left waiting for what everybody has.            *)
(***************************************************************************)
EXTENDS CoopProofs

----------------------------------------------------------------------------
(* What a script is built upon, and what it loses against *)

(* A set of ids that has the predecessor of each of its scripts.             *)
Based(hdr, S) == \A y \in S : CheckedIn(hdr, y) => Last(hdr[y]) \in S

(* x is the script i or one that i is built upon.                            *)
Anc(hdr, x, i) == \A S \in SUBSET Gid : i \in S /\ Based(hdr, S) => x \in S

(* Of two scripts checked in after the same predecessor s has priority.      *)
Beats(hdr, s, a) ==
    /\ CheckedIn(hdr, s) /\ CheckedIn(hdr, a)
    /\ Last(hdr[s]) = Last(hdr[a]) /\ Author(s) < Author(a)

(* Where the scripts of S are known, x is on a branch that has lost.         *)
Loses(hdr, S, x) == \E s \in S, a \in Gid : Anc(hdr, a, x) /\ Beats(hdr, s, a)

(* A script counts among those it is built upon, and these are all that any  *)
(* of them is built upon.                                                   *)
LEMMA AncFacts ==
    ASSUME NEW hdr
    PROVE  /\ \A x : Anc(hdr, x, x)
           /\ \A x, y, z : Anc(hdr, x, y) /\ Anc(hdr, y, z) => Anc(hdr, x, z)
           /\ \A x : CheckedIn(hdr, x) => Anc(hdr, Last(hdr[x]), x)
  BY DEF Anc, Based

(* More scripts known, more lost.                                            *)
LEMMA LosesMore ==
    ASSUME NEW hdr, NEW S, NEW T, S \subseteq T, NEW x, Loses(hdr, S, x)
    PROVE  Loses(hdr, T, x)
  BY DEF Loses

(* What is built upon a lost script is lost.                                 *)
LEMMA LosesBelow ==
    ASSUME NEW hdr, NEW S, NEW x, NEW y, Loses(hdr, S, x), Anc(hdr, x, y)
    PROVE  Loses(hdr, S, y)
  <1>1. \A a : Anc(hdr, a, x) => Anc(hdr, a, y)
    BY AncFacts
  <1> QED
    BY <1>1 DEF Loses

(* The ids in a tree.                                                        *)
LEMMA IdsGid ==
    ASSUME NEW t, Tree(t)
    PROVE  /\ Ids(t) \in SUBSET Gid
           /\ \A i \in 1 .. Len(t) : t[i].id \in Ids(t)
           /\ \A id \in Ids(t) : \E i \in 1 .. Len(t) : t[i].id = id
  <1>1. DOMAIN t = 1 .. Len(t) /\ \A i \in 1 .. Len(t) : t[i].id \in Gid
    BY Places DEF Tree
  <1> QED
    BY <1>1 DEF Ids

(* A tree has all that its scripts are built upon.                           *)
LEMMA TreeBased ==
    ASSUME NEW t, Tree(t), NEW hdr, Known(hdr, t)
    PROVE  /\ Based(hdr, Ids(t))
           /\ \A x, i : i \in Ids(t) /\ Anc(hdr, x, i) => x \in Ids(t)
  <1>1. Based(hdr, Ids(t))
    BY PredecessorPresent DEF Based
  <1> QED
    BY <1>1, IdsGid DEF Anc

(* In a tree a script is built upon the nodes above it.                      *)
LEMMA AncUnder ==
    ASSUME NEW t, Tree(t), NEW hdr, Known(hdr, t), NEW k \in 1 .. Len(t), NEW j \in 1 .. Len(t)
    PROVE  Anc(hdr, t[k].id, t[j].id) <=> Under(Parents(t), k, j)
  <1> DEFINE a == Parents(t)
             n == Len(t)
  <1>1. t \in Seq(Node) /\ Shaped(t) /\ Preorder(a, n)
    BY DEF Tree, Shaped
  <1>2. /\ n \in Nat /\ n > 0
        /\ \A i \in 2 .. n : a[i] \in 1 .. n /\ a[i] < i /\ t[a[i]].id = t[i].pred
        /\ \A i, l \in 1 .. n : t[i].id = t[l].id => i = l
        /\ \A i \in 2 .. n : CheckedIn(hdr, t[i].id) /\ t[i].pred = Last(hdr[t[i].id])
        /\ t[1].id = Root
    BY <1>1, Places DEF Shaped, Known
  <1>3. \A i, l, r \in 1 .. n : Under(a, i, l) /\ Under(a, l, r) => Under(a, i, r)
    BY <1>1, UnderFacts
  <1>4. \A i \in 1 .. n : Under(a, i, i)
    BY <1>1, UnderFacts
  <1>5. \A i \in 2 .. n : Under(a, a[i], i)
    BY <1>1, UnderFacts
  <1>6. \A p, i \in 1 .. n : Under(a, p, i) /\ p # i => \E l \in 2 .. n : a[l] = p /\ Under(a, l, i)
    BY <1>1, NextOnPath
  <1> HIDE DEF a, n
  <1>7. ASSUME Anc(hdr, t[k].id, t[j].id)
        PROVE  Under(a, k, j)
    <2> DEFINE S == {t[i].id : i \in {l \in 1 .. n : Under(a, l, j)}}
    <2>1. S \in SUBSET Gid /\ t[j].id \in S
      BY <1>4, IdsGid DEF n
    <2>2. Based(hdr, S)
      <3> SUFFICES ASSUME NEW i \in 1 .. n, Under(a, i, j), CheckedIn(hdr, t[i].id)
                   PROVE  Last(hdr[t[i].id]) \in S
        BY DEF Based
      <3>1. i # 1
        BY <1>2, RootNotScript DEF CheckedIn
      <3>2. i \in 2 .. n
        BY <1>2, <3>1
      <3>3. Last(hdr[t[i].id]) = t[a[i]].id /\ a[i] \in 1 .. n /\ Under(a, a[i], i)
        BY <1>2, <1>5, <3>2
      <3>4. Under(a, a[i], j)
        BY <1>3, <3>3 DEF n
      <3> QED
        BY <3>3, <3>4
    <2>3. t[k].id \in S
      BY <1>7, <2>1, <2>2 DEF Anc
    <2> QED
      BY <1>2, <2>3 DEF n
  <1>8. ASSUME Under(a, k, j), ~Anc(hdr, t[k].id, t[j].id)
        PROVE  FALSE
    <2> DEFINE S == {l \in 1 .. n : Under(a, l, j) /\ ~Anc(hdr, t[l].id, t[j].id)}
               b == Greatest(S, 0)
    <2>1. k \in S /\ S \in SUBSET (0 .. n)
      BY <1>8 DEF n
    <2>2. b \in S /\ \A l \in S : l <= b
      BY <1>2, <2>1, GreatestIs
    <2> HIDE DEF b
    <2>3. b # j
      BY <2>2, AncFacts
    <2>4. PICK l \in 2 .. n : a[l] = b /\ Under(a, l, j)
      BY <1>6, <2>2, <2>3 DEF n
    <2>5. l \in 1 .. n /\ b < l
      BY <1>2, <2>4
    <2>6. Anc(hdr, t[l].id, t[j].id)
      BY <1>2, <2>2, <2>4, <2>5
    <2>7. CheckedIn(hdr, t[l].id) /\ t[b].id = Last(hdr[t[l].id])
      BY <1>2, <2>4
    <2>8. Anc(hdr, t[b].id, t[l].id)
      BY <2>7, AncFacts
    <2>9. Anc(hdr, t[b].id, t[j].id)
      BY <2>6, <2>8, AncFacts
    <2> QED
      BY <2>2, <2>9
  <1> QED
    BY <1>7, <1>8 DEF a

(***************************************************************************)
(* The branch a rejected script is on leaves the trunk at a script that     *)
(* loses against one on the trunk.                                          *)
(***************************************************************************)
LEMMA RejectedLoses ==
    ASSUME NEW t, Tree(t), NEW hdr, Known(hdr, t), NEW i \in 1 .. Len(t), t[i].rej
    PROVE  \E c, d \in 2 .. Len(t) :
              /\ Under(Parents(t), d, Len(t)) /\ Anc(hdr, t[c].id, t[i].id)
              /\ Beats(hdr, t[d].id, t[c].id)
  <1> DEFINE a == Parents(t)
             n == Len(t)
             S == {c \in 1 .. n : Under(a, c, i) /\ ~Under(a, c, n)}
             c == Least(S, 0)
  <1>1. t \in Seq(Node) /\ Shaped(t) /\ Preorder(a, n) /\ Ordered(t) /\ Trunk(t)
    BY DEF Tree, Shaped
  <1>2. /\ n \in Nat /\ n > 0
        /\ \A j \in 2 .. n : a[j] \in 1 .. n /\ a[j] < j /\ t[a[j]].id = t[j].pred
        /\ \A j \in 2 .. n : CheckedIn(hdr, t[j].id) /\ t[j].pred = Last(hdr[t[j].id])
    BY <1>1, Places DEF Known
  <1>3. \A j \in 1 .. n : Under(a, j, j) /\ Under(a, 1, j)
    BY <1>1, UnderFacts
  <1>4. \A j, l, r \in 1 .. n : Under(a, j, l) /\ Under(a, l, r) => Under(a, j, r)
    BY <1>1, UnderFacts
  <1>5. \A j \in 2 .. n : Under(a, a[j], j)
    BY <1>1, UnderFacts
  <1>6. \A p, j \in 1 .. n : Under(a, p, j) /\ p # j => \E l \in 2 .. n : a[l] = p /\ Under(a, l, j)
    BY <1>1, NextOnPath
  <1>7. ~Under(a, i, n)
    BY <1>1 DEF Trunk
  <1>8. \A j, l \in 2 .. n : a[j] = a[l] /\ j < l => Author(t[l].id) < Author(t[j].id)
    BY <1>1 DEF Ordered
  <1>9. Anc(hdr, t[c].id, t[i].id) <=> Under(a, c, i)
    <2>1. S \in SUBSET Nat /\ i \in S
      BY <1>3, <1>7
    <2>2. c \in S
      BY <2>1, LeastIs
    <2> QED
      BY <2>2, AncUnder
  <1> HIDE DEF a, n
  <1>10. S \in SUBSET Nat /\ i \in S
    BY <1>3, <1>7 DEF n
  <1>11. c \in S /\ \A j \in S : c <= j
    BY <1>10, LeastIs
  <1> HIDE DEF c
  <1>12. c \in 2 .. n
    <2>1. c # 1
      BY <1>2, <1>3, <1>11
    <2> QED
      BY <1>2, <1>11, <2>1
  <1>13. a[c] \in 1 .. n /\ a[c] < c /\ Under(a, a[c], c) /\ c \in 1 .. n
    BY <1>2, <1>5, <1>12
  <1>14. Under(a, a[c], i)
    BY <1>4, <1>11, <1>13 DEF n
  <1>15. Under(a, a[c], n)
    BY <1>2, <1>11, <1>13, <1>14
  <1>16. n \in 1 .. n /\ a[c] # n
    BY <1>2, <1>13
  <1>17. PICK d \in 2 .. n : a[d] = a[c] /\ Under(a, d, n)
    BY <1>6, <1>13, <1>15, <1>16
  <1>18. d # c /\ ~(d < c)
    <2>1. d # c
      BY <1>11, <1>17
    <2>2. ASSUME d < c PROVE FALSE
      <3>1. c \in d + 1 .. n
        BY <1>2, <1>12, <1>17, <2>2
      <3>2. d <= a[c]
        BY <1>17, <3>1 DEF Under
      <3>3. a[d] < d /\ a[d] \in Nat
        BY <1>2, <1>17
      <3> QED
        BY <1>17, <3>2, <3>3
    <2> QED
      BY <2>1, <2>2
  <1>19. Author(t[d].id) < Author(t[c].id)
    <2>1. c < d
      BY <1>2, <1>12, <1>17, <1>18
    <2> QED
      BY <1>8, <1>12, <1>17, <2>1
  <1>20. Last(hdr[t[d].id]) = Last(hdr[t[c].id])
    BY <1>2, <1>12, <1>17
  <1>21. Beats(hdr, t[d].id, t[c].id)
    BY <1>2, <1>12, <1>17, <1>19, <1>20 DEF Beats
  <1> QED
    BY <1>9, <1>11, <1>12, <1>17, <1>21 DEF a, n

(***************************************************************************)
(* What a history has rejected is what loses against a script it has: the   *)
(* rejected bits say nothing but the headers of the scripts recorded.       *)
(***************************************************************************)
LEMMA RejectedIsLost ==
    ASSUME NEW t, Tree(t), NEW hdr, Known(hdr, t), NEW i \in 1 .. Len(t)
    PROVE  t[i].rej <=> Loses(hdr, Ids(t), t[i].id)
  <1> DEFINE a == Parents(t)
             n == Len(t)
  <1>1. t \in Seq(Node) /\ Shaped(t) /\ Preorder(a, n) /\ Ordered(t) /\ Trunk(t)
    BY DEF Tree, Shaped
  <1>2. /\ n \in Nat /\ n > 0
        /\ \A j \in 2 .. n : a[j] \in 1 .. n /\ a[j] < j
        /\ \A j \in 2 .. n : CheckedIn(hdr, t[j].id) /\ t[j].pred = Last(hdr[t[j].id])
        /\ \A j \in 2 .. n, k \in 1 .. n : t[k].id = t[j].pred <=> k = a[j]
        /\ t[1].id = Root /\ \A j \in 1 .. n : t[j].id \in Gid
    BY <1>1, Places DEF Known, Shaped
  <1>3. ASSUME t[i].rej PROVE Loses(hdr, Ids(t), t[i].id)
    <2>1. PICK c, d \in 2 .. n : /\ Anc(hdr, t[c].id, t[i].id)
                                 /\ Beats(hdr, t[d].id, t[c].id)
      BY <1>3, RejectedLoses
    <2>2. c \in 1 .. n /\ d \in 1 .. n
      BY <1>2
    <2>3. t[d].id \in Ids(t) /\ t[c].id \in Gid
      BY <1>2, <2>2, IdsGid DEF n
    <2> QED
      BY <2>1, <2>3 DEF Loses
  <1>4. ASSUME Loses(hdr, Ids(t), t[i].id), ~t[i].rej PROVE FALSE
    <2>1. PICK s \in Ids(t), b \in Gid : Anc(hdr, b, t[i].id) /\ Beats(hdr, s, b)
      BY <1>4 DEF Loses
    <2>2. b \in Ids(t)
      BY <2>1, IdsGid, TreeBased
    <2>3. PICK c \in 1 .. n : t[c].id = b
      BY <2>2, IdsGid DEF n
    <2>4. PICK d \in 1 .. n : t[d].id = s
      BY <2>1, IdsGid DEF n
    <2>5. c # 1 /\ d # 1
      BY <1>2, <2>1, <2>3, <2>4, RootNotScript DEF Beats, CheckedIn
    <2>6. c \in 2 .. n /\ d \in 2 .. n
      BY <1>2, <2>5
    <2>7. t[c].pred = t[d].pred
      BY <1>2, <2>1, <2>3, <2>4, <2>6 DEF Beats
    <2>8. a[c] = a[d]
      <3>1. t[a[c]].id = t[c].pred /\ a[c] \in 1 .. n
        BY <1>1, <1>2, <2>6, Places
      <3> QED
        BY <1>2, <2>6, <2>7, <3>1
    <2>9. Author(t[d].id) < Author(t[c].id)
      BY <2>1, <2>3, <2>4 DEF Beats
    <2>10. Under(a, c, i)
      BY <2>1, <2>3, AncUnder
    <2>11. Under(a, i, n)
      BY <1>1, <1>4 DEF Trunk
    <2>12. Under(a, c, n)
      <3>1. \A j, l, r \in 1 .. n : Under(a, j, l) /\ Under(a, l, r) => Under(a, j, r)
        BY <1>1, UnderFacts
      <3> QED
        BY <1>2, <2>10, <2>11, <3>1
    <2>13. Author(t[d].id) \in Nat /\ Author(t[c].id) \in Nat
      BY <1>2, AuthorType
    <2>14. ~(d < c) /\ d # c
      BY <1>1, <2>6, <2>8, <2>9, <2>13 DEF Ordered
    <2> HIDE DEF a, n
    <2>15. d \in c + 1 .. n
      BY <1>2, <2>6, <2>14
    <2>16. c <= a[d]
      BY <2>12, <2>15 DEF Under
    <2> QED
      BY <1>2, <2>6, <2>8, <2>16
  <1> QED
    BY <1>3, <1>4

(* An accepted script is built upon all accepted scripts before it, and any   *)
(* script before a node in the array is built upon no later accepted one.   *)
LEMMA AcceptedBelow ==
    ASSUME NEW t, Tree(t), NEW hdr, Known(hdr, t), NEW i \in 1 .. Len(t), NEW k \in 1 .. Len(t),
           k <= i, ~t[k].rej
    PROVE  Anc(hdr, t[k].id, t[i].id)
  <1> DEFINE a == Parents(t)
             n == Len(t)
  <1>1. n \in Nat /\ Under(a, k, n)
    BY Places DEF Tree, Trunk
  <1>2. Under(a, k, i)
    BY <1>1 DEF Under
  <1> QED
    BY <1>2, AncUnder

----------------------------------------------------------------------------
(* What is confirmed, and what steps of one member keep of it *)

(* The accepted scripts before a confirmed one are confirmed, unless that is  *)
(* the one at but.                                                          *)
ConfirmedUpTo(t, but) ==
    \A i, j \in 1 .. Len(t) :
        j < i /\ i # but /\ ~t[j].rej /\ Confirmed(t[i]) => Confirmed(t[j])

(* No script of m's own making is missing at m.                              *)
OwnPresent(m, t) == \A i \in 1 .. Len(t) : Author(t[i].id) = m => ~t[i].mis

Tidy(m, t) == ConfirmedUpTo(t, 0) /\ OwnPresent(m, t)

(***************************************************************************)
(* From t to u, arrays of m before and after a step in which no             *)
(* acknowledgment arrives, nothing is forgotten: a rejected script stays    *)
(* rejected, an executed one is not undone unless rejected, a confirmed one *)
(* stays confirmed, m's own scripts lose no awaited acknowledgment unless   *)
(* they are confirmed with a later one, and no other accepted script gets   *)
(* confirmed.                                                               *)
(***************************************************************************)
Carried(m, t, u) ==
    /\ Ids(t) \subseteq Ids(u)
    /\ \A i \in 1 .. Len(t), j \in 1 .. Len(u) :
          t[i].id = u[j].id =>
              /\ t[i].rej => u[j].rej
              /\ t[i].exe => u[j].exe \/ u[j].rej
              /\ Confirmed(t[i]) => Confirmed(u[j])
              /\ Author(t[i].id) = m => Confirmed(u[j]) \/ t[i].acks \subseteq u[j].acks
    /\ \A j \in 1 .. Len(u) :
          ~u[j].rej /\ Confirmed(u[j]) =>
              \E i \in 1 .. Len(t) : t[i].id = u[j].id /\ Confirmed(t[i])

(* The only ids in an array are those of its nodes.                          *)
LEMMA IdsAre ==
    ASSUME NEW t \in Seq(Node)
    PROVE  \A id : id \in Ids(t) <=> \E i \in 1 .. Len(t) : t[i].id = id
  <1>1. DOMAIN t = 1 .. Len(t)
    BY ArrayType
  <1> QED
    BY <1>1 DEF Ids

(* Two such steps make one.                                                  *)
LEMMA CarriedTwice ==
    ASSUME NEW m, NEW t \in Seq(Node), NEW u \in Seq(Node), NEW v \in Seq(Node),
           Carried(m, t, u), Carried(m, u, v)
    PROVE  Carried(m, t, v)
  <1>1. Ids(t) \subseteq Ids(v)
    BY DEF Carried
  <1>2. ASSUME NEW i \in 1 .. Len(t)
        PROVE  \E k \in 1 .. Len(u) : u[k].id = t[i].id
    <2>1. t[i].id \in Ids(u)
      BY IdsAre DEF Carried
    <2> QED
      BY <2>1, IdsAre
  <1>3. ASSUME NEW j \in 1 .. Len(v), ~v[j].rej, Confirmed(v[j])
        PROVE  \E i \in 1 .. Len(t) : t[i].id = v[j].id /\ Confirmed(t[i])
    <2>1. PICK k \in 1 .. Len(u) : u[k].id = v[j].id /\ Confirmed(u[k])
      BY <1>3 DEF Carried
    <2>2. ~u[k].rej
      BY <1>3, <2>1 DEF Carried
    <2> QED
      BY <2>1, <2>2 DEF Carried
  <1>4. ASSUME NEW i \in 1 .. Len(t), NEW j \in 1 .. Len(v), t[i].id = v[j].id
        PROVE  /\ t[i].rej => v[j].rej
               /\ t[i].exe => v[j].exe \/ v[j].rej
               /\ Confirmed(t[i]) => Confirmed(v[j])
               /\ Author(t[i].id) = m => Confirmed(v[j]) \/ t[i].acks \subseteq v[j].acks
    <2>1. PICK k \in 1 .. Len(u) : u[k].id = t[i].id
      BY <1>2
    <2>2. /\ t[i].rej => u[k].rej
          /\ t[i].exe => u[k].exe \/ u[k].rej
          /\ Confirmed(t[i]) => Confirmed(u[k])
          /\ Author(t[i].id) = m => Confirmed(u[k]) \/ t[i].acks \subseteq u[k].acks
      BY <2>1 DEF Carried
    <2>3. /\ u[k].rej => v[j].rej
          /\ u[k].exe => v[j].exe \/ v[j].rej
          /\ Confirmed(u[k]) => Confirmed(v[j])
          /\ Author(u[k].id) = m => Confirmed(v[j]) \/ u[k].acks \subseteq v[j].acks
      BY <1>4, <2>1 DEF Carried
    <2> QED
      BY <2>1, <2>2, <2>3
  <1> QED
    BY <1>1, <1>3, <1>4 DEF Carried

(* A history that did not change carries all over.                           *)
LEMMA CarriedNothing ==
    ASSUME NEW hdr, NEW m, NEW h, Good(hdr, m, h)
    PROVE  Carried(m, h.nodes, h.nodes)
  <1>1. \A i, j \in 1 .. Len(h.nodes) : h.nodes[i].id = h.nodes[j].id => i = j
    BY DEF Good, Sound, Tree, Shaped
  <1> QED
    BY <1>1 DEF Carried

(* A step that keeps the tree and overtakes some acknowledgments.            *)
LEMMA SameTreeCarried ==
    ASSUME NEW m, NEW t, Tree(t), ConfirmedUpTo(t, 0), NEW u, SameTree(t, u), Overtakes(t, u),
           \A j \in 1 .. Len(t) : t[j].exe => u[j].exe \/ u[j].rej
    PROVE  Carried(m, t, u) /\ ConfirmedUpTo(u, 0)
  <1> DEFINE n == Len(t)
  <1>1. /\ n \in Nat /\ Len(u) = n /\ t \in Seq(Node) /\ u \in Seq(Node)
        /\ \A i \in 1 .. n : u[i].id = t[i].id /\ u[i].rej = t[i].rej
        /\ \A i, j \in 1 .. n : t[i].id = t[j].id => i = j
    BY Places DEF SameTree, Tree, Shaped
  <1>2. \A j \in 1 .. n : u[j].acks = t[j].acks \/ (Confirmed(u[j]) /\ Overtaken(t, j))
    BY DEF Overtakes
  <1>3. \A j \in 1 .. n : Confirmed(t[j]) => Confirmed(u[j])
    BY <1>2 DEF Confirmed
  <1> HIDE DEF n
  <1>4. \A j \in 1 .. n : Overtaken(t, j) => t[j].rej
    <2> SUFFICES ASSUME NEW j \in 1 .. n, NEW i \in j + 1 .. n, Confirmed(t[i]), ~Confirmed(t[j])
                 PROVE  t[j].rej
      BY DEF Overtaken, n
    <2>1. i \in 1 .. n /\ j < i /\ i # 0
      BY <1>1
    <2> QED
      BY <2>1 DEF ConfirmedUpTo, n
  <1>5. Ids(t) \subseteq Ids(u)
    BY <1>1, IdsAre DEF n
  <1>6. \A j \in 1 .. n : ~u[j].rej /\ Confirmed(u[j]) => Confirmed(t[j])
    BY <1>1, <1>2, <1>4 DEF Confirmed
  <1>7. Carried(m, t, u)
    <2>1. ASSUME NEW i \in 1 .. Len(t), NEW j \in 1 .. Len(u), t[i].id = u[j].id
          PROVE  /\ t[i].rej => u[j].rej
                 /\ t[i].exe => u[j].exe \/ u[j].rej
                 /\ Confirmed(t[i]) => Confirmed(u[j])
                 /\ Confirmed(u[j]) \/ t[i].acks \subseteq u[j].acks
      <3>1. i = j /\ i \in 1 .. n
        BY <1>1, <2>1 DEF n
      <3> QED
        BY <1>1, <1>2, <1>3, <3>1 DEF n
    <2>2. ASSUME NEW j \in 1 .. Len(u), ~u[j].rej, Confirmed(u[j])
          PROVE  \E i \in 1 .. Len(t) : t[i].id = u[j].id /\ Confirmed(t[i])
      BY <1>1, <1>6, <2>2 DEF n
    <2> QED
      BY <1>5, <2>1, <2>2 DEF Carried
  <1>8. ConfirmedUpTo(u, 0)
    <2> SUFFICES ASSUME NEW i \in 1 .. n, NEW j \in 1 .. n, j < i, ~u[j].rej, Confirmed(u[i])
                 PROVE  Confirmed(t[j])
      BY <1>1, <1>3 DEF ConfirmedUpTo
    <2>1. \E k \in 1 .. n : j < k /\ Confirmed(t[k])
      <3>1. CASE Confirmed(t[i])
        BY <3>1
      <3>2. CASE ~Confirmed(t[i])
        <4>1. Overtaken(t, i)
          BY <1>2, <3>2 DEF Confirmed
        <4>2. PICK k \in i + 1 .. n : Confirmed(t[k])
          BY <4>1 DEF Overtaken, n
        <4> QED
          BY <1>1, <4>2
      <3> QED
        BY <3>1, <3>2
    <2>2. ~t[j].rej
      BY <1>1
    <2>3. PICK k \in 1 .. n : j < k /\ Confirmed(t[k])
      BY <2>1
    <2>4. k # 0
      BY <1>1
    <2> QED
      BY <2>2, <2>3, <2>4 DEF ConfirmedUpTo, n
  <1> QED
    BY <1>7, <1>8

(* Confirming what is older touches only what comes before.                  *)
LEMMA ConfirmTidy ==
    ASSUME NEW h \in History, Tree(h.nodes), SettledIn(h.nodes, h.fis), NEW i \in 1 .. Len(h.nodes)
    PROVE  LET t == h.nodes
               u == ConfirmAllOlderNodes(h, i).nodes
           IN  /\ AcksOnly(t, u)
               /\ \A j \in 1 .. Len(t) : u[j].acks = t[j].acks \/ (Confirmed(u[j]) /\ j < i)
               /\ Confirmed(t[i]) /\ ConfirmedUpTo(t, i) /\ (i = FisIdx(h) => ConfirmedUpTo(t, 0))
                    => ConfirmedUpTo(u, 0)
  <1> DEFINE t    == h.nodes
             n    == Len(t)
             f    == FisIdx(h)
             S    == {j \in f .. i - 1 : Confirmed(t[j])}
             last == Greatest(S, f - 1)
             u    == ConfirmAllOlderNodes(h, i).nodes
  <1>1. t \in Seq(Node) /\ n \in Nat /\ n > 0 /\ Shaped(t)
    BY Places DEF Tree
  <1>2. AcksOnly(t, u)
    BY ConfirmAcks
  <1>3. Len(u) = n /\ \A j \in 1 .. n : u[j].rej = t[j].rej /\ u[j].acks \subseteq t[j].acks
    BY <1>2 DEF AcksOnly
  <1>4. f \in 1 .. n /\ Confirmed(t[f])
    <2>1. PICK g \in 1 .. n : t[g].id = h.fis /\ Confirmed(t[g])
      BY DEF SettledIn
    <2>2. f = g
      BY <1>1, <2>1, Places DEF FisIdx
    <2> QED
      BY <2>1, <2>2
  <1>5. \A j \in 1 .. n : u[j].acks = IF i >= f /\ j \in last + 1 .. i - 1 THEN {} ELSE t[j].acks
    <2> DEFINE N(j) == IF j \in last + 1 .. i - 1 THEN [t[j] EXCEPT !.acks = {}] ELSE t[j]
               h1 == [h EXCEPT !.nodes = [j \in 1 .. n |-> N(j)]]
    <2>1. ConfirmAllOlderNodes(h, i) = IF i >= f THEN [h1 EXCEPT !.fis = AdvanceFis(h1)] ELSE h
      BY DEF ConfirmAllOlderNodes
    <2>2. ASSUME NEW j \in 1 .. n
          PROVE  N(j).acks = IF j \in last + 1 .. i - 1 THEN {} ELSE t[j].acks
      <3>1. t[j] \in Node
        BY <1>1, NodesType
      <3>2. [t[j] EXCEPT !.acks = {}].acks = {}
        BY <3>1 DEF Node
      <3> QED
        BY <3>2
    <2>3. h1.nodes = [j \in 1 .. n |-> N(j)]
      BY DEF History
    <2> HIDE DEF N, h1, last
    <2>4. CASE i >= f
      <3>1. ConfirmAllOlderNodes(h, i).nodes = h1.nodes
        <4>1. h1 = [h EXCEPT !.nodes = [j \in 1 .. n |-> N(j)]]
          BY DEF h1
        <4>2. "nodes" \in DOMAIN h1
          BY <4>1 DEF History
        <4> QED
          BY <2>1, <2>4, <4>1 DEF History
      <3>2. \A j \in 1 .. n : u[j] = N(j)
        BY <2>3, <3>1
      <3> QED
        BY <2>2, <2>4, <3>2
    <2>5. CASE ~(i >= f)
      BY <2>1, <2>5
    <2> QED
      BY <2>4, <2>5
  <1> HIDE DEF u, t, n, f
  <1>6. \A j \in 1 .. n : Confirmed(t[j]) => Confirmed(u[j])
    BY <1>5 DEF Confirmed
  <1>7. \A j \in 1 .. n : u[j].acks = t[j].acks \/ (Confirmed(u[j]) /\ j < i)
    <2> HIDE DEF last
    <2> SUFFICES ASSUME NEW j \in 1 .. n, u[j].acks # t[j].acks
                 PROVE  u[j].acks = {} /\ j < i
      BY DEF Confirmed
    <2>1. j \in last + 1 .. i - 1 /\ u[j].acks = {}
      BY <1>5
    <2> QED
      BY <1>1, <2>1 DEF n, t
  <1>8. i \in 1 .. n
    BY DEF n, t
  <1>9. ASSUME Confirmed(t[i]), ConfirmedUpTo(t, i), i = f => ConfirmedUpTo(t, 0)
        PROVE  ConfirmedUpTo(u, 0)
    <2>1. ASSUME NEW k \in 1 .. n, NEW j \in 1 .. n, k # i \/ i = f, Confirmed(t[k]), j < k, ~t[j].rej
          PROVE  Confirmed(t[j])
      <3>1. k # 0
        BY <1>1
      <3> QED
        BY <1>9, <2>1, <3>1 DEF ConfirmedUpTo, n
    <2>2. S \in SUBSET (0 .. n)
      BY <1>1, <1>4, <1>8
    <2>3. /\ S = {} => last = f - 1
          /\ S # {} => last \in S /\ \A j \in S : j <= last
      BY <1>1, <2>2, GreatestIs
    <2> HIDE DEF last
    <2>4. ASSUME NEW j \in 1 .. n, j < i, ~t[j].rej
          PROVE  Confirmed(u[j])
      <3>1. CASE i < f
        BY <1>4, <1>6, <2>1, <2>4, <3>1
      <3>2. CASE i >= f /\ j \in last + 1 .. i - 1
        BY <1>5, <3>2 DEF Confirmed
      <3>3. CASE i = f
        BY <1>6, <1>8, <1>9, <2>1, <2>4, <3>3
      <3>4. CASE i > f /\ j \notin last + 1 .. i - 1
        <4>1. f \in S
          BY <1>1, <1>4, <1>8, <3>4
        <4>2. last \in 1 .. n /\ last # i /\ Confirmed(t[last]) /\ j <= last
          BY <1>1, <1>4, <1>8, <2>3, <2>4, <3>4, <4>1
        <4>3. CASE j = last
          BY <1>6, <4>2, <4>3
        <4>4. CASE j < last
          BY <1>6, <2>1, <2>4, <4>2, <4>4
        <4> QED
          BY <4>2, <4>3, <4>4
      <3> QED
        BY <1>1, <1>4, <1>8, <3>1, <3>2, <3>3, <3>4
    <2>5. ASSUME NEW k \in 1 .. n, NEW j \in 1 .. n, j < k, ~t[j].rej, Confirmed(u[k])
          PROVE  Confirmed(u[j])
      <3>1. CASE k <= i
        <4>1. j < i
          BY <1>8, <2>5, <3>1
        <4> QED
          BY <2>4, <2>5, <4>1
      <3>2. CASE k > i
        <4>1. Confirmed(t[k]) /\ k # i
          BY <1>7, <1>8, <2>5, <3>2 DEF Confirmed
        <4> QED
          BY <1>6, <2>1, <2>5, <4>1
      <3> QED
        BY <1>8, <3>1, <3>2
    <2> QED
      BY <1>3, <2>5 DEF ConfirmedUpTo
  <1> QED
    BY <1>2, <1>7, <1>9 DEF u, t, n, f

(***************************************************************************)
(* An acknowledgment of id by from takes from off those awaited by id; what *)
(* it confirms besides is older than id, and then id waited for nobody else. *)
(***************************************************************************)
Acknowledged(t, u, id, from) ==
    /\ AcksOnly(t, u)
    /\ \A j \in 1 .. Len(t) :
          Confirmed(u[j]) \/ t[j].acks \ (IF t[j].id = id THEN {from} ELSE {}) \subseteq u[j].acks
    /\ \A j \in 1 .. Len(t) :
          ~t[j].rej /\ Confirmed(u[j]) =>
              Confirmed(t[j]) \/ \E k \in j .. Len(t) : t[k].id = id /\ t[k].acks \subseteq {from}

(* Accepting an acknowledgment does this, and keeps the history tidy.        *)
LEMMA AcceptAckTidy ==
    ASSUME NEW h, Sound(h), NEW m, Tidy(m, h.nodes), NEW id, NEW from
    PROVE  LET u == AcceptAck(h, id, from).nodes
           IN  Acknowledged(h.nodes, u, id, from) /\ Tidy(m, u)
  <1> DEFINE t  == h.nodes
             n  == Len(t)
             i  == FindIdx(t, id)
             nd == AckFrom(t[i], from)
             v  == Replace(t, i, nd)
             h1 == [h EXCEPT !.nodes = v]
             h2 == AcceptAck(h, id, from)
             u  == h2.nodes
  <1>1. /\ h \in History /\ Tree(t) /\ t \in Seq(Node) /\ n \in Nat /\ Shaped(t)
        /\ SettledIn(t, h.fis)
    BY Places DEF Sound, Tree
  <1>2. h2 = IF i = 0 \/ i < FisIdx(h) THEN h
             ELSE IF Confirmed(h1.nodes[i]) THEN ConfirmAllOlderNodes(h1, i)
             ELSE h1
    BY DEF AcceptAck
  <1>3. AcksOnly(t, u)
    BY <1>1, AcceptAcks
  <1>4. OwnPresent(m, u)
    BY <1>3 DEF AcksOnly, OwnPresent, Tidy
  <1>5. CASE i = 0 \/ i < FisIdx(h)
    <2>1. u = t
      BY <1>2, <1>5
    <2> QED
      BY <1>1, <1>3, <2>1 DEF Acknowledged, Tidy
  <1>6. CASE ~(i = 0 \/ i < FisIdx(h))
    <2>1. i \in 1 .. n /\ t[i].id = id
      BY <1>1, <1>6, FindIdxType
    <2>2. t[i] \in Node
      BY <1>1, <2>1, NodesType
    <2>3. /\ nd \in Node /\ nd.id = t[i].id /\ nd.pred = t[i].pred /\ nd.bp = t[i].bp /\ nd.rej = t[i].rej
          /\ nd.mis = t[i].mis /\ nd.exe = t[i].exe /\ nd.acks = t[i].acks \ {from}
      BY <2>2, AckTypes DEF AckFrom, Node
    <2> HIDE DEF nd
    <2>4. /\ SameTree(t, v) /\ v[i] = nd /\ \A j \in 1 .. n : j # i => v[j] = t[j]
          /\ h1 \in History /\ h1.nodes = v /\ h1.fis = h.fis
      BY <1>1, <2>1, <2>3, ReplacedTree
    <2> HIDE DEF v, h1
    <2>5. Tree(v) /\ Len(v) = n /\ \A j \in 1 .. n : v[j].rej = t[j].rej /\ v[j].id = t[j].id
      BY <1>1, <2>4, SameTreeTree DEF SameTree
    <2>6. \A j \in 1 .. n : v[j].acks = t[j].acks \ (IF j = i THEN {from} ELSE {})
      BY <2>3, <2>4
    <2>7. \A j \in 1 .. n : t[j].id = id <=> j = i
      BY <1>1, <2>1 DEF Shaped
    <2>8. PICK f \in 1 .. n : t[f].id = h.fis /\ Executed(t[f]) /\ Confirmed(t[f])
      BY <1>1 DEF SettledIn
    <2>9. Confirmed(v[f]) /\ Executed(v[f]) /\ v[f].id = h.fis
      BY <2>3, <2>4, <2>6, <2>8 DEF Confirmed, Executed
    <2>10. SettledIn(h1.nodes, h1.fis)
      BY <2>4, <2>5, <2>9 DEF SettledIn
    <2>11. FisIdx(h1) = f
      BY <2>4, <2>5, <2>9, Places DEF FisIdx, Tree
    <2>12. \A j \in 1 .. n : Confirmed(t[j]) => Confirmed(v[j])
      BY <2>6 DEF Confirmed
    <2>13. ASSUME NEW k \in 1 .. n, NEW j \in 1 .. n, Confirmed(t[k]), j < k, ~t[j].rej
           PROVE  Confirmed(t[j])
      <3>1. k # 0
        BY <1>1
      <3> QED
        BY <2>13, <3>1 DEF ConfirmedUpTo, Tidy
    <2> HIDE DEF u, h2, i, t, n
    <2>14. ConfirmedUpTo(v, i)
      BY <2>5, <2>6, <2>12, <2>13 DEF ConfirmedUpTo, Confirmed
    <2>15. Confirmed(t[i]) \/ ~Confirmed(v[i]) => ConfirmedUpTo(v, 0)
      BY <2>5, <2>6, <2>12, <2>13 DEF ConfirmedUpTo, Confirmed
    <2>16. CASE Confirmed(v[i])
      <3>1. h2 = ConfirmAllOlderNodes(h1, i)
        BY <1>2, <1>6, <2>4, <2>16
      <3>2. /\ \A j \in 1 .. n : u[j].acks = v[j].acks \/ (Confirmed(u[j]) /\ j < i)
            /\ ConfirmedUpTo(u, 0)
        BY <2>1, <2>4, <2>5, <2>8, <2>10, <2>11, <2>14, <2>15, <2>16, <3>1, ConfirmTidy DEF u
      <3>3. t[i].acks \subseteq {from}
        BY <2>1, <2>6, <2>16 DEF Confirmed
      <3>4. ASSUME NEW j \in 1 .. n
            PROVE  Confirmed(u[j]) \/ t[j].acks \ (IF t[j].id = id THEN {from} ELSE {}) \subseteq u[j].acks
        BY <2>6, <2>7, <3>2
      <3>5. ASSUME NEW j \in 1 .. n, Confirmed(u[j]), ~Confirmed(t[j])
            PROVE  \E k \in j .. n : t[k].id = id /\ t[k].acks \subseteq {from}
        <4>1. j <= i
          BY <1>1, <2>1, <2>6, <3>2, <3>5 DEF Confirmed
        <4>2. i \in j .. n
          BY <1>1, <2>1, <4>1 DEF n, t
        <4> QED
          BY <2>1, <3>3, <4>2
      <3> QED
        BY <1>3, <1>4, <3>2, <3>4, <3>5 DEF Acknowledged, Tidy, t, n, u, h2
    <2>17. CASE ~Confirmed(v[i])
      <3>1. u = v
        BY <1>2, <1>6, <2>4, <2>17 DEF u
      <3>2. \A j \in 1 .. n : Confirmed(u[j]) => Confirmed(t[j])
        BY <2>6, <2>17, <3>1 DEF Confirmed
      <3>3. ASSUME NEW j \in 1 .. n
            PROVE  t[j].acks \ (IF t[j].id = id THEN {from} ELSE {}) \subseteq u[j].acks
        BY <2>6, <2>7, <3>1
      <3> QED
        BY <1>3, <1>4, <2>15, <2>17, <3>1, <3>2, <3>3 DEF Acknowledged, Tidy, t, n, u, h2
    <2> QED
      BY <2>16, <2>17 DEF u, t
  <1> QED
    BY <1>5, <1>6

(* Replacing a node that is not executed by one as confirmed as it is.       *)
LEMMA ReplacedTidy ==
    ASSUME NEW h, Sound(h), NEW m, Tidy(m, h.nodes), NEW i \in 1 .. Len(h.nodes), NEW n \in Node,
           n.id = h.nodes[i].id, n.pred = h.nodes[i].pred,
           n.bp = h.nodes[i].bp, n.rej = h.nodes[i].rej, ~h.nodes[i].exe, ~n.exe,
           Confirmed(n) <=> Confirmed(h.nodes[i]), Author(n.id) # m
    PROVE  LET u == [h EXCEPT !.nodes = Replace(h.nodes, i, n)].nodes
           IN  Tidy(m, u) /\ Carried(m, h.nodes, u)
  <1> DEFINE t == h.nodes
             c == Len(t)
             h1 == [h EXCEPT !.nodes = Replace(h.nodes, i, n)]
             u == h1.nodes
  <1>0. Tree(t) /\ t \in Seq(Node)
    BY DEF Sound, Tree
  <1>1. SameTree(t, u) /\ u[i] = n /\ \A j \in 1 .. c : j # i => u[j] = t[j]
    <2>1. /\ Sound(h1) /\ SameTree(h.nodes, h1.nodes)
          /\ h1.nodes[i] = n
          /\ \A j \in 1 .. Len(h.nodes) : j # i => h1.nodes[j] = h.nodes[j]
      BY ReplacedSound
    <2> QED
      BY <2>1
  <1> HIDE DEF u, h1
  <1>2. /\ Len(u) = c /\ \A j \in 1 .. c : u[j].id = t[j].id /\ u[j].rej = t[j].rej
        /\ u \in Seq(Node) /\ \A j, k \in 1 .. c : t[j].id = t[k].id => j = k
    BY <1>0, <1>1 DEF SameTree, Tree, Shaped
  <1>3. \A j \in 1 .. c : Confirmed(u[j]) <=> Confirmed(t[j])
    BY <1>1
  <1>4. Ids(t) \subseteq Ids(u)
    BY <1>0, <1>2, IdsAre
  <1>5. \A j \in 1 .. c : /\ t[j].exe => u[j].exe
                          /\ Author(t[j].id) = m => t[j].acks \subseteq u[j].acks /\ u[j].mis = t[j].mis
    BY <1>1, <1>2
  <1>6. Tidy(m, u)
    BY <1>2, <1>3, <1>5 DEF Tidy, ConfirmedUpTo, OwnPresent
  <1> HIDE DEF c, t
  <1>7. Carried(m, t, u)
    BY <1>2, <1>3, <1>4, <1>5 DEF Carried, c
  <1> QED
    BY <1>6, <1>7 DEF u, t, h1

(* Finding the next script unreadable.                                       *)
LEMMA SetMissingTidy ==
    ASSUME NEW hdr, NEW m, NEW h, Good(hdr, m, h), Tidy(m, h.nodes), NextOf(h.nodes) # NoId
    PROVE  LET u == SetMissing(h, NextOf(h.nodes)).nodes
           IN  Tidy(m, u) /\ Carried(m, h.nodes, u)
  <1> DEFINE t == h.nodes
  <1>1. PICK i \in 1 .. Len(t) : FindIdx(t, NextOf(t)) = i /\ ~t[i].exe /\ ~t[i].rej
    BY NextFollows DEF Good
  <1> DEFINE n == [t[i] EXCEPT !.mis = TRUE]
  <1>2. t[i] \in Node /\ Len(t) \in Nat
    BY ArrayType DEF Good, Sound, Tree
  <1>3. n \in Node /\ n.id = t[i].id /\ n.pred = t[i].pred /\ n.bp = t[i].bp /\ n.rej = t[i].rej
        /\ n.exe = t[i].exe /\ n.acks = t[i].acks
    BY <1>2 DEF Node
  <1>4. SetMissing(h, NextOf(t)) = [h EXCEPT !.nodes = Replace(t, i, n)]
    BY <1>1 DEF SetMissing
  <1>5. i # 1
    BY <1>1 DEF Good, Sound, RootSettled
  <1>6. Author(t[i].id) # m
    BY <1>1, <1>2, <1>5 DEF Good, OwnDone
  <1> HIDE DEF n
  <1>7. Sound(h) /\ (Confirmed(n) <=> Confirmed(t[i])) /\ Author(n.id) # m /\ ~n.exe
    BY <1>1, <1>3, <1>6 DEF Good, Confirmed
  <1> QED
    BY <1>1, <1>3, <1>4, <1>7, ReplacedTidy

(* Putting a script in the place of its placeholder.                         *)
LEMMA SubstituteTidy ==
    ASSUME NEW h, Sound(h), NEW m, Tidy(m, h.nodes), NEW n \in Node, NEW i \in 1 .. Len(h.nodes),
           h.nodes[i].id = n.id, h.nodes[i].pred = n.pred, h.nodes[i].mis, ~n.exe,
           Confirmed(n) <=> Confirmed(h.nodes[i])
    PROVE  LET u == SubstituteNode(h, n).nodes
           IN  Tidy(m, u) /\ Carried(m, h.nodes, u)
  <1> DEFINE t == h.nodes
             v == [n EXCEPT !.rej = t[i].rej, !.bp = t[i].bp]
  <1>1. t \in Seq(Node) /\ t[i] \in Node
    BY ArrayType DEF Sound, Tree
  <1>2. FindIdx(t, n.id) = i
    BY Places DEF Sound, Tree
  <1>3. ~t[i].exe
    BY DEF Sound, MissingNotDone
  <1>4. v \in Node /\ v.id = t[i].id /\ v.pred = t[i].pred /\ v.bp = t[i].bp /\ v.rej = t[i].rej
        /\ v.exe = n.exe /\ v.acks = n.acks
    <2>1. t[i].rej \in BOOLEAN /\ t[i].bp \in BOOLEAN
      BY <1>1 DEF Node
    <2>2. ASSUME NEW r \in BOOLEAN, NEW b \in BOOLEAN
          PROVE  LET w == [n EXCEPT !.rej = r, !.bp = b]
                 IN  /\ w \in Node /\ w.id = n.id /\ w.pred = n.pred
                     /\ w.bp = b /\ w.rej = r /\ w.exe = n.exe /\ w.acks = n.acks
      BY DEF Node
    <2> QED
      BY <2>1, <2>2
  <1>5. SubstituteNode(h, n) = [h EXCEPT !.nodes = Replace(t, i, v)]
    BY <1>2 DEF SubstituteNode
  <1>6. Author(t[i].id) # m
    BY DEF Tidy, OwnPresent
  <1> HIDE DEF v
  <1>7. ~v.exe /\ (Confirmed(v) <=> Confirmed(t[i]))
    BY <1>4 DEF Confirmed
  <1> QED
    BY <1>3, <1>4, <1>5, <1>6, <1>7, ReplacedTidy

(* Executing the next script.                                                *)
LEMMA ExecuteScriptTidy ==
    ASSUME NEW h, Sound(h), NEW m, Tidy(m, h.nodes), NextOf(h.nodes) # NoId
    PROVE  LET u == ExecuteScript(h, NextOf(h.nodes)).nodes
           IN  Tidy(m, u) /\ Carried(m, h.nodes, u)
  <1> DEFINE t  == h.nodes
             i  == FindIdx(t, NextOf(t))
             h2 == SetExecuted(h, NextOf(t))
             v  == h2.nodes
             h1 == ExecuteScript(h, NextOf(t))
             u  == h1.nodes
  <1>1. /\ Sound(h2) /\ SameTree(t, v)
        /\ i \in 1 .. Len(t)
        /\ \A j \in 1 .. Len(t) : t[j].exe \/ t[j].rej => v[j].exe \/ v[j].rej
        /\ \A j \in 1 .. Len(t) : v[j].mis = t[j].mis
        /\ Overtakes(t, v)
    BY SetExecutedSound
  <1>2. h1 = IF Confirmed(v[i]) THEN ConfirmAllOlderNodes(h2, i) ELSE h2
    BY DEF ExecuteScript
  <1>3. Tree(t) /\ t \in Seq(Node)
    BY DEF Sound, Tree
  <1> HIDE DEF i, h2, h1
  <1>4. Carried(m, t, v) /\ ConfirmedUpTo(v, 0)
    BY <1>1, <1>3, SameTreeCarried DEF Tidy
  <1>5. OwnPresent(m, v)
    BY <1>1 DEF OwnPresent, SameTree, Tidy
  <1>6. CASE ~Confirmed(v[i])
    BY <1>2, <1>4, <1>5, <1>6 DEF Tidy, h1
  <1>7. CASE Confirmed(v[i])
    <2>1. h2 \in History /\ Tree(v) /\ SettledIn(v, h2.fis) /\ Len(v) = Len(t) /\ v \in Seq(Node)
      BY <1>1 DEF Sound, SameTree
    <2>2. /\ AcksOnly(v, u)
          /\ \A j \in 1 .. Len(v) : u[j].acks = v[j].acks \/ (Confirmed(u[j]) /\ j < i)
      BY <1>1, <1>2, <1>7, <2>1, ConfirmTidy
    <2>3. SameTree(v, u) /\ OwnPresent(m, u) /\ \A j \in 1 .. Len(v) : u[j].exe = v[j].exe
      BY <1>5, <2>2 DEF AcksOnly, SameTree, OwnPresent
    <2>4. Overtakes(v, u)
      <3>1. ASSUME NEW j \in 1 .. Len(v), u[j].acks # v[j].acks
            PROVE  Confirmed(u[j]) /\ Overtaken(v, j)
        <4>1. Confirmed(u[j]) /\ j < i /\ ~Confirmed(v[j])
          BY <2>2, <3>1 DEF Confirmed
        <4>2. i \in j + 1 .. Len(v)
          <5>1. Len(v) \in Nat
            BY <2>1, ArrayType
          <5> QED
            BY <1>1, <2>1, <4>1, <5>1
        <4> QED
          BY <1>7, <4>1, <4>2 DEF Overtaken
      <3> QED
        BY <3>1 DEF Overtakes
    <2>5. Carried(m, v, u) /\ ConfirmedUpTo(u, 0)
      BY <1>4, <2>1, <2>3, <2>4, SameTreeCarried
    <2>6. Carried(m, t, u)
      BY <1>3, <1>4, <2>1, <2>3, <2>5, CarriedTwice DEF SameTree
    <2> QED
      BY <2>3, <2>5, <2>6 DEF Tidy, h1
  <1> QED
    BY <1>6, <1>7

(* Inserting scripts leaves those recorded before as they are, except that    *)
(* some get rejected.                                                       *)
Kept(t, u) ==
    /\ Ids(t) \subseteq Ids(u)
    /\ \A i \in 1 .. Len(t), j \in 1 .. Len(u) :
          t[i].id = u[j].id =>
              u[j].acks = t[i].acks /\ u[j].exe = t[i].exe /\ (t[i].rej => u[j].rej)

(* Inserting a chain does this, and keeps the history tidy when the chain    *)
(* names none of m's own scripts as missing.                                *)
LEMMA GrownTidy ==
    ASSUME NEW t, Tree(t), NEW pred, NEW chain, Hangs(t, pred, chain),
           NEW p, NEW at, NEW t2, Grown(t, p, at, chain, t2), t[p].id = pred,
           NEW m, Tidy(m, t), \A k \in 1 .. Len(chain) : Author(chain[k].id) = m => ~chain[k].mis
    PROVE  /\ Kept(t, t2) /\ OwnPresent(m, t2)
           /\ at \in 1 .. Len(t2) /\ t2[at].id = chain[1].id /\ t2[at].acks = chain[1].acks
           /\ Len(chain) = 1 => ConfirmedUpTo(t2, at)
           /\ ~Wins(t, p, Author(chain[1].id)) =>
                 \A i \in 1 .. Len(t), j \in 1 .. Len(t2) :
                    t[i].id = t2[j].id => t2[j].rej = t[i].rej
           /\ (\A k \in 1 .. Len(chain) : ~Confirmed(chain[k]))
                => Tidy(m, t2) /\ Carried(m, t, t2)
  <1> DEFINE n == Len(t)
             c == Len(chain)
             S(x) == Shift(x, at, c)
             New == at .. at + c - 1
  <1>1. /\ n \in Nat /\ c \in Nat \ {0} /\ Len(t2) = n + c
        /\ at \in 2 .. n + 1
        /\ \A x \in 1 .. n : S(x) = IF x < at THEN x ELSE x + c
        /\ \A x \in 1 .. n : S(x) \in 1 .. n + c
        /\ \A x, y \in 1 .. n : x < y <=> S(x) < S(y)
        /\ \A i \in 1 .. n + c : i \in New \/ \E x \in 1 .. n : i = S(x)
    <2>1. p \in 1 .. n /\ at \in p + 1 .. n + 1 /\ n \in Nat
      BY GrownPlaces
    <2>2. at \in 2 .. n + 1
      BY <2>1
    <2>3. c \in Nat \ {0} /\ Len(t2) = n + c
      BY GrownPlaces
    <2>4. \A x \in 1 .. n : S(x) = IF x < at THEN x ELSE x + c
      BY GrownPlaces
    <2>5. \A x \in 1 .. n : S(x) \in 1 .. n + c
      BY GrownPlaces
    <2>6. \A x, y \in 1 .. n : x < y <=> S(x) < S(y)
      BY GrownPlaces
    <2>7. \A i \in 1 .. n + c : i \in New \/ \E x \in 1 .. n : i = S(x)
      BY GrownPlaces
    <2> QED
      BY <2>1, <2>2, <2>3, <2>4, <2>5, <2>6, <2>7
  <1>2. \A x \in 1 .. n : /\ t2[S(x)].id = t[x].id /\ t2[S(x)].acks = t[x].acks
                          /\ t2[S(x)].mis = t[x].mis /\ t2[S(x)].exe = t[x].exe
                          /\ t[x].rej => t2[S(x)].rej
                          /\ ~Wins(t, p, Author(chain[1].id)) => (t2[S(x)].rej <=> t[x].rej)
    BY DEF Grown
  <1>3. \A i \in New : LET k == i - at + 1
                       IN  /\ t2[i].id = chain[k].id /\ t2[i].acks = chain[k].acks
                           /\ t2[i].mis = chain[k].mis /\ (t2[i].rej <=> at # n + 1)
    BY DEF Grown
  <1>4. \A i \in New : i - at + 1 \in 1 .. c
    BY <1>1
  <1>5. \A k \in 1 .. c : chain[k].id \notin Ids(t)
    BY DEF Hangs
  <1>6. t \in Seq(Node) /\ t2 \in Seq(Node) /\ \A x, y \in 1 .. n : t[x].id = t[y].id => x = y
    BY DEF Tree, Shaped, Grown
  <1>15. at \in 1 .. Len(t2) /\ t2[at].id = chain[1].id /\ t2[at].acks = chain[1].acks
    <2>1. at \in New /\ at - at + 1 = 1 /\ at \in 1 .. Len(t2)
      BY <1>1
    <2> HIDE DEF New
    <2> QED
      BY <1>3, <2>1
  <1> HIDE DEF n, c, S, New
  <1>16. ASSUME ~Wins(t, p, Author(chain[1].id)), NEW i \in 1 .. n, NEW j \in 1 .. Len(t2), j = S(i)
         PROVE  t2[j].rej = t[i].rej
    <2>1. t2[j].rej <=> t[i].rej
      BY <1>2, <1>16
    <2>2. t2[j].rej \in BOOLEAN /\ t[i].rej \in BOOLEAN
      <3>1. t2[j] \in Node /\ t[i] \in Node
        BY <1>6, <1>16, ArrayType DEF n
      <3> QED
        BY <3>1 DEF Node
    <2> QED
      BY <2>1, <2>2
  <1>7. \A i \in New : t2[i].id \notin Ids(t)
    BY <1>3, <1>4, <1>5
  <1>8. \A i \in 1 .. n, j \in 1 .. Len(t2) : t[i].id = t2[j].id => j = S(i)
    <2> SUFFICES ASSUME NEW i \in 1 .. n, NEW j \in 1 .. Len(t2), t[i].id = t2[j].id
                 PROVE  j = S(i)
      OBVIOUS
    <2>1. t[i].id \in Ids(t)
      BY <1>6, IdsAre DEF n
    <2>2. j \notin New
      BY <1>7, <2>1
    <2>3. PICK x \in 1 .. n : j = S(x)
      BY <1>1, <2>2
    <2> QED
      BY <1>2, <1>6, <2>3
  <1>9. Ids(t) \subseteq Ids(t2)
    <2>1. \A x \in 1 .. n : S(x) \in 1 .. Len(t2)
      BY <1>1
    <2> QED
      BY <1>2, <1>6, <2>1, IdsAre DEF n
  <1>10. Kept(t, t2)
    BY <1>2, <1>8, <1>9 DEF Kept, n
  <1>11. OwnPresent(m, t2)
    <2> SUFFICES ASSUME NEW j \in 1 .. Len(t2), Author(t2[j].id) = m
                 PROVE  ~t2[j].mis
      BY DEF OwnPresent
    <2>1. CASE j \in New
      BY <1>3, <1>4, <2>1 DEF c
    <2>2. CASE \E x \in 1 .. n : j = S(x)
      BY <1>2, <2>2 DEF Tidy, OwnPresent, n
    <2> QED
      BY <1>1, <2>1, <2>2
  <1>12. ASSUME NEW i \in 1 .. Len(t2), NEW j \in 1 .. Len(t2), j < i, i \notin New,
                ~t2[j].rej, Confirmed(t2[i])
         PROVE  Confirmed(t2[j])
    <2>1. PICK x \in 1 .. n : i = S(x)
      BY <1>1, <1>12
    <2>2. CASE j \in New
      <3>1. at = n + 1
        BY <1>3, <1>12, <2>2
      <3>2. i = x
        BY <1>1, <2>1, <3>1
      <3> QED
        BY <1>1, <1>12, <2>2, <3>1, <3>2 DEF New
    <2>3. CASE \E y \in 1 .. n : j = S(y)
      <3>1. PICK y \in 1 .. n : j = S(y)
        BY <2>3
      <3>2. y < x /\ x # 0
        BY <1>1, <1>12, <2>1, <3>1
      <3>4. ~t[y].rej /\ Confirmed(t[x])
        BY <1>2, <1>12, <2>1, <3>1 DEF Confirmed
      <3>3. Confirmed(t[y])
        BY <3>2, <3>4 DEF Tidy, ConfirmedUpTo, n
      <3> QED
        BY <1>2, <3>1, <3>3 DEF Confirmed
    <2> QED
      BY <1>1, <1>12, <2>2, <2>3
  <1>13. ASSUME c = 1 PROVE ConfirmedUpTo(t2, at)
    <2>1. \A i : i \in New => i = at
      BY <1>1, <1>13 DEF New
    <2> QED
      BY <1>12, <2>1 DEF ConfirmedUpTo
  <1>14. ASSUME \A k \in 1 .. c : ~Confirmed(chain[k])
         PROVE  ConfirmedUpTo(t2, 0) /\ Carried(m, t, t2)
    <2>1. \A i \in New : ~Confirmed(t2[i])
      BY <1>3, <1>4, <1>14 DEF Confirmed
    <2>2. ConfirmedUpTo(t2, 0)
      BY <1>12, <2>1 DEF ConfirmedUpTo
    <2>3. ASSUME NEW j \in 1 .. Len(t2), Confirmed(t2[j])
          PROVE  \E i \in 1 .. n : t[i].id = t2[j].id /\ Confirmed(t[i])
      <3>1. PICK x \in 1 .. n : j = S(x)
        BY <1>1, <2>1, <2>3
      <3> QED
        BY <1>2, <2>3, <3>1 DEF Confirmed
    <2> QED
      BY <1>10, <2>2, <2>3 DEF Carried, Kept, Confirmed, n
  <1> QED
    BY <1>8, <1>10, <1>11, <1>13, <1>14, <1>15, <1>16 DEF Tidy, c, n

(* Inserting a chain of scripts that await acknowledgments.                  *)
LEMMA InsertChainTidy ==
    ASSUME NEW h, Sound(h), NEW pred, NEW chain, Hangs(h.nodes, pred, chain), NEW m, Tidy(m, h.nodes),
           \A k \in 1 .. Len(chain) : Author(chain[k].id) # m /\ ~Confirmed(chain[k])
    PROVE  LET u == InsertChain(h, pred, chain).nodes
           IN  Tidy(m, u) /\ Carried(m, h.nodes, u)
  <1>1. h \in History /\ Tree(h.nodes)
    BY DEF Sound
  <1> QED
    BY <1>1, InsertChainGrows, GrownTidy

(* Inserting placeholders.                                                   *)
LEMMA InsertMissingTidy ==
    ASSUME NEW hdr, OneBranch(hdr), NEW m, NEW h, Good(hdr, m, h), Tidy(m, h.nodes),
           NEW pred \in Ids(h.nodes), NEW ids \in Seq(Gid), Unheard(hdr, m, h.nodes, pred, ids)
    PROVE  LET u == InsertMissing(h, pred, ids).nodes
           IN  Tidy(m, u) /\ Carried(m, h.nodes, u)
  <1> DEFINE chain == MissingChain(pred, ids)
  <1>1. CASE ids = <<>>
    <2>1. InsertMissing(h, pred, ids) = h
      BY <1>1 DEF InsertMissing
    <2> QED
      BY <2>1, CarriedNothing
  <1>2. CASE ids # <<>>
    <2>1. InsertMissing(h, pred, ids) = InsertChain(h, pred, chain)
      BY <1>2 DEF InsertMissing
    <2>2. /\ Hangs(h.nodes, pred, chain)
          /\ \A k \in 1 .. Len(chain) : Author(chain[k].id) # m /\ ~Confirmed(chain[k])
      BY <1>2, MissingChainHangs
    <2>3. Sound(h)
      BY DEF Good
    <2> HIDE DEF chain
    <2> QED
      BY <2>1, <2>2, <2>3, InsertChainTidy
  <1> QED
    BY <1>1, <1>2

(* Recording a received script.                                              *)
LEMMA ReceivedTidy ==
    ASSUME NEW hdr, OneBranch(hdr), NEW m, NEW h, Good(hdr, m, h), Tidy(m, h.nodes), NEW n \in Node,
           n.pred \in Ids(h.nodes), n.id \notin Ids(h.nodes), Author(n.id) # m,
           ~n.exe, ~n.rej, ~n.bp, CheckedIn(hdr, n.id), Last(hdr[n.id]) = n.pred, ~Confirmed(n)
    PROVE  LET u == InsertNewNode(h, n).nodes
           IN  Tidy(m, u) /\ Carried(m, h.nodes, u)
  <1> DEFINE chain == <<n>>
  <1>1. Hangs(h.nodes, n.pred, chain)
    BY ReceivedHangs
  <1>2. InsertNewNode(h, n) = InsertChain(h, n.pred, chain)
    BY DEF InsertNewNode
  <1>3. \A k \in 1 .. Len(chain) : Author(chain[k].id) # m /\ ~Confirmed(chain[k])
    <2>1. Len(chain) = 1 /\ chain[1] = n
      BY SingletonArray
    <2> HIDE DEF chain
    <2>2. \A k \in 1 .. Len(chain) : k = 1
      BY <2>1
    <2> QED
      BY <2>1, <2>2
  <1>4. Sound(h)
    BY DEF Good
  <1> HIDE DEF chain
  <1> QED
    BY <1>1, <1>2, <1>3, <1>4, InsertChainTidy

(***************************************************************************)
(* A check-in rejects nothing; the new script awaits what it was given, and *)
(* one that awaits nobody confirms all before it.                           *)
(***************************************************************************)
CheckedInFrame(m, t, u, n) ==
    /\ Tidy(m, u)
    /\ \A i \in 1 .. Len(t), j \in 1 .. Len(u) :
          t[i].id = u[j].id =>
              /\ u[j].rej = t[i].rej /\ u[j].exe = t[i].exe
              /\ Confirmed(t[i]) => Confirmed(u[j])
              /\ ~Confirmed(n) => u[j].acks = t[i].acks
    /\ ~Confirmed(n) => \A j \in 1 .. Len(u) : u[j].id = n.id => u[j].acks = n.acks

(* Recording the own new script n behind what is executed does this.         *)
LEMMA CheckInTidy ==
    ASSUME NEW hdr, NEW m \in Member, NEW h, Good(hdr, m, h), Tidy(m, h.nodes),
           NEW tip, Done(h.nodes, tip), NEW n \in Node,
           n.pred = h.nodes[tip].id, n.id \notin Ids(h.nodes), Author(n.id) = m,
           n.exe, ~n.mis, ~n.rej, ~n.bp,
           CheckedIn(hdr, n.id), Last(hdr[n.id]) = n.pred,
           ~HasIncomingOrMissingScripts(h) \/ HasToBeRejectedScripts(h)
    PROVE  LET h1 == InsertNewNode(h, n)
               h2 == IF Confirmed(n) THEN ConfirmAllOlderNodes(h1, FindIdx(h1.nodes, n.id)) ELSE h1
           IN  CheckedInFrame(m, h.nodes, h2.nodes, n)
  <1> DEFINE t == h.nodes
             chain == <<n>>
             h1 == InsertChain(h, n.pred, chain)
             at == InsertionIdx(t, tip, Author(n.id))
             v  == h1.nodes
             h2 == IF Confirmed(n) THEN ConfirmAllOlderNodes(h1, FindIdx(v, n.id)) ELSE h1
             u  == h2.nodes
  <1>1. /\ Hangs(t, n.pred, chain) /\ FindIdx(t, n.pred) = tip /\ ~Wins(t, tip, Author(n.id))
    BY CheckInHangs
  <1>2. h \in History /\ Tree(t) /\ SettledIn(t, h.fis)
    BY DEF Good, Sound
  <1>3. chain[1] = n /\ Len(chain) = 1
    BY SingletonArray
  <1>4. InsertNewNode(h, n) = h1
    BY DEF InsertNewNode
  <1>5. Good(hdr, m, h1)
    BY <1>4, CheckInGood
  <1>6. h1 \in History /\ Tree(v) /\ v \in Seq(Node) /\ Shaped(v) /\ SettledIn(v, h1.fis)
    BY <1>5 DEF Good, Sound, Tree
  <1> HIDE DEF chain
  <1>7. /\ Grown(t, tip, at, chain, v) /\ t[tip].id = n.pred
        /\ h1.fis = IF at = Len(t) + 1 /\ Wins(t, tip, Author(n.id))
                      THEN RepairedFis(v, h.fis) ELSE h.fis
    BY <1>1, <1>2, <1>3, InsertChainGrows
  <1> HIDE DEF h1, at, v, t
  <1>8. \A k \in 1 .. Len(chain) : k = 1
    BY <1>3
  <1>9. /\ Kept(t, v) /\ OwnPresent(m, v)
        /\ at \in 1 .. Len(v) /\ v[at].id = n.id /\ v[at].acks = n.acks
        /\ ConfirmedUpTo(v, at)
        /\ \A i \in 1 .. Len(t), j \in 1 .. Len(v) : t[i].id = v[j].id => v[j].rej = t[i].rej
        /\ ~Confirmed(n) => Tidy(m, v)
    <2>1. \A k \in 1 .. Len(chain) : Author(chain[k].id) = m => ~chain[k].mis
      BY <1>3, <1>8
    <2>2. ~Confirmed(n) => \A k \in 1 .. Len(chain) : ~Confirmed(chain[k])
      BY <1>3, <1>8
    <2>3. Tidy(m, t)
      BY DEF t
    <2>4. /\ Kept(t, v) /\ OwnPresent(m, v)
          /\ at \in 1 .. Len(v) /\ v[at].id = chain[1].id /\ v[at].acks = chain[1].acks
          /\ Len(chain) = 1 => ConfirmedUpTo(v, at)
          /\ ~Wins(t, tip, Author(chain[1].id)) =>
                 \A i \in 1 .. Len(t), j \in 1 .. Len(v) :
                    t[i].id = v[j].id => v[j].rej = t[i].rej
          /\ (\A k \in 1 .. Len(chain) : ~Confirmed(chain[k])) => Tidy(m, v)
      BY ONLY <1>1, <1>2, <1>7, <2>1, <2>3, GrownTidy
    <2> QED
      BY <1>1, <1>3, <2>2, <2>4
  <1>10. FindIdx(v, n.id) = at
    BY <1>6, <1>9, Places
  <1>11. \A j \in 1 .. Len(v) : v[j].id = n.id => j = at
    BY <1>6, <1>9 DEF Shaped
  <1>12. CASE ~Confirmed(n)
    <2>1. u = v
      BY <1>12 DEF v
    <2> HIDE DEF u, h2
    <2>2. \A i \in 1 .. Len(t), j \in 1 .. Len(v) : t[i].id = v[j].id =>
              v[j].rej = t[i].rej /\ v[j].exe = t[i].exe /\ v[j].acks = t[i].acks
      BY <1>9 DEF Kept
    <2>3. CheckedInFrame(m, t, u, n)
      BY <1>9, <1>11, <1>12, <2>1, <2>2 DEF CheckedInFrame, Confirmed
    <2> QED
      BY <1>4, <2>3 DEF u, h2, v, t
  <1>13. CASE Confirmed(n)
    <2>1. h2 = ConfirmAllOlderNodes(h1, at)
      BY <1>10, <1>13
    <2> HIDE DEF h2
    <2>2. at # FisIdx(h1)
      <3>1. h1.fis = h.fis
        BY <1>1, <1>7
      <3>2. PICK f \in 1 .. Len(t) : t[f].id = h.fis
        BY <1>2 DEF SettledIn
      <3>3. h1.fis \in Ids(t)
        BY <1>2, <3>1, <3>2, IdListed
      <3>4. h1.fis # n.id
        BY <3>3 DEF t
      <3>5. PICK g \in 1 .. Len(v) : v[g].id = h1.fis
        BY <1>6 DEF SettledIn
      <3>6. FisIdx(h1) = g
        BY <1>6, <3>5, Places DEF FisIdx, v
      <3> QED
        BY <1>9, <3>4, <3>5, <3>6
    <2>3. AcksOnly(v, u) /\ ConfirmedUpTo(u, 0)
      <3>1. Confirmed(v[at])
        BY <1>9, <1>13 DEF Confirmed
      <3> QED
        BY <1>6, <1>9, <2>1, <2>2, <3>1, ConfirmTidy DEF v
    <2> HIDE DEF u
    <2>4. Len(u) = Len(v) /\ \A j \in 1 .. Len(v) :
              /\ u[j].id = v[j].id /\ u[j].rej = v[j].rej /\ u[j].exe = v[j].exe
              /\ u[j].mis = v[j].mis /\ u[j].acks \subseteq v[j].acks
      BY <2>3 DEF AcksOnly
    <2>5. \A i \in 1 .. Len(t), j \in 1 .. Len(v) : t[i].id = v[j].id =>
              v[j].rej = t[i].rej /\ v[j].exe = t[i].exe /\ v[j].acks = t[i].acks
      BY <1>9 DEF Kept
    <2>6. Tidy(m, u)
      BY <1>9, <2>3, <2>4 DEF Tidy, OwnPresent
    <2>7. CheckedInFrame(m, t, u, n)
      BY <1>13, <2>4, <2>5, <2>6 DEF CheckedInFrame, Confirmed
    <2> QED
      BY <1>4, <2>7 DEF u, h2, v, t
  <1> QED
    BY <1>12, <1>13

----------------------------------------------------------------------------
(* What acknowledgments tell, for the histories H of the members, the       *)
(* headers hdr and the mail nt                                              *)

IdsOf(H, p) == Ids(H[p].nodes)

(* Everybody has recorded x and nobody knows a script that x loses against.  *)
Final(hdr, H, x) ==
    \A p \in Member : x \in IdsOf(H, p) /\ ~Loses(hdr, IdsOf(H, p), x)

(* Reading the lineage lin leaves x lost where the scripts of S are known.   *)
Shows(hdr, S, lin, x) ==
    Loses(hdr, S, x) \/ (lin # <<>> /\ lin[1] \in S /\ Loses(hdr, Elements(lin), x))

(* The histories are good ones, and authors have recorded what they made.    *)
Backed(hdr, H) ==
    /\ \A p \in Member : Good(hdr, p, H[p])
    /\ \A s \in Script : CheckedIn(hdr, s) => s \in IdsOf(H, Author(s))

(* Acknowledgments of script id by q in transit to its author.               *)
AcksBy(nt, id, q) == {b \in nt : b.type = "ack" /\ ~b.ref /\ b.id = id /\ b.from = q}

(* Who need not acknowledge m's script n any more has recorded it and all it *)
(* is built upon, except what m knows to be lost.                           *)
Recorded(hdr, H, m, n) ==
    \A p \in Member \ n.acks : \A x :
        Anc(hdr, x, n.id) => Loses(hdr, IdsOf(H, m), x) \/ x \in IdsOf(H, p)

(* If it is lost somewhere and m does not know yet, m awaits someone who      *)
(* does, and whose acknowledgments tell.                                     *)
LossAwaited(hdr, H, nt, m, n) ==
    \A x : /\ Anc(hdr, x, n.id) /\ ~Loses(hdr, IdsOf(H, m), x)
           /\ \E p \in Member : Loses(hdr, IdsOf(H, p), x)
        => \E q \in Member \cap n.acks :
              /\ Loses(hdr, IdsOf(H, q), x)
              /\ \A b \in AcksBy(nt, n.id, q) : Shows(hdr, IdsOf(H, m), b.lineage, x)

OwnAwaited(hdr, H, nt) ==
    \A m \in Member : \A i \in 1 .. Len(H[m].nodes) :
        Author(H[m].nodes[i].id) = m =>
            /\ Recorded(hdr, H, m, H[m].nodes[i])
            /\ LossAwaited(hdr, H, nt, m, H[m].nodes[i])

(* An acknowledgment goes to the author of a script its sender has recorded; *)
(* a make-reference comes from the author and is about what is final or what  *)
(* its lineage shows to be lost.                                             *)
AckTrue(hdr, H, b) ==
    /\ b.id \in Script /\ b.from \in Member /\ b.to \in Member
    /\ ~b.ref => b.id \in IdsOf(H, b.from) /\ b.to = Author(b.id)
    /\ b.ref => /\ b.from = Author(b.id) /\ b.id \in IdsOf(H, b.from)
                /\ \A x : Anc(hdr, x, b.id) =>
                      Final(hdr, H, x) \/ Shows(hdr, IdsOf(H, b.to), b.lineage, x)

AcksTrue(hdr, H, nt) == \A b \in nt : b.type = "ack" => AckTrue(hdr, H, b)

AllTidy(H) == \A m \in Member : Tidy(m, H[m].nodes)

(* What a member accepts and has confirmed is final.                         *)
ConfirmedFinal(hdr, H, m) ==
    \A i \in 1 .. Len(H[m].nodes) :
        ~H[m].nodes[i].rej /\ Confirmed(H[m].nodes[i]) => Final(hdr, H, H[m].nodes[i].id)

AllConfirmedFinal(hdr, H) == \A m \in Member : ConfirmedFinal(hdr, H, m)

Agreed(hdr, H, nt) ==
    /\ OwnAwaited(hdr, H, nt) /\ AcksTrue(hdr, H, nt)
    /\ AllTidy(H) /\ AllConfirmedFinal(hdr, H)

(* Facts about a good history.                                               *)
LEMMA BackedFacts ==
    ASSUME NEW hdr, NEW H, Backed(hdr, H), NEW p \in Member
    PROVE  /\ Sound(H[p]) /\ Tree(H[p].nodes) /\ Known(hdr, H[p].nodes)
           /\ \A x, y : y \in IdsOf(H, p) /\ Anc(hdr, x, y) => x \in IdsOf(H, p)
           /\ \A i \in 1 .. Len(H[p].nodes) :
                 /\ H[p].nodes[i].id \in IdsOf(H, p)
                 /\ H[p].nodes[i].rej <=> Loses(hdr, IdsOf(H, p), H[p].nodes[i].id)
           /\ \A x \in IdsOf(H, p) : \E i \in 1 .. Len(H[p].nodes) : H[p].nodes[i].id = x
  <1>1. Good(hdr, p, H[p])
    BY DEF Backed
  <1>2. Sound(H[p]) /\ Known(hdr, H[p].nodes)
    BY <1>1 DEF Good
  <1>3. Tree(H[p].nodes)
    BY <1>2 DEF Sound
  <1>4. \A i \in 1 .. Len(H[p].nodes) :
            H[p].nodes[i].rej <=> Loses(hdr, IdsOf(H, p), H[p].nodes[i].id)
    BY <1>2, <1>3, RejectedIsLost DEF IdsOf
  <1>5. \A x, y : y \in IdsOf(H, p) /\ Anc(hdr, x, y) => x \in IdsOf(H, p)
    BY <1>2, <1>3, TreeBased DEF IdsOf
  <1> QED
    BY <1>2, <1>3, <1>4, <1>5, IdsGid DEF IdsOf

(* Whatever a script loses against, its author knows.                        *)
LEMMA LostSomewhere ==
    ASSUME NEW hdr, NEW H, Backed(hdr, H), NEW S, NEW x, Loses(hdr, S, x)
    PROVE  \E p \in Member : Loses(hdr, IdsOf(H, p), x)
  <1>1. PICK s \in S, a \in Gid : Anc(hdr, a, x) /\ Beats(hdr, s, a)
    BY DEF Loses
  <1>2. s \in Script /\ CheckedIn(hdr, s)
    BY <1>1 DEF Beats, CheckedIn
  <1>3. Author(s) \in Member /\ s \in IdsOf(H, Author(s))
    BY <1>2, ScriptType DEF Backed
  <1> QED
    BY <1>1, <1>3 DEF Loses

(* What is final stays so when the histories grow.                           *)
LEMMA FinalStays ==
    ASSUME NEW hdr, NEW H, Backed(hdr, H), NEW H1,
           \A p \in Member : IdsOf(H, p) \subseteq IdsOf(H1, p),
           NEW x, Final(hdr, H, x)
    PROVE  Final(hdr, H1, x)
  <1>1. \A p \in Member : ~Loses(hdr, IdsOf(H1, p), x)
    BY LostSomewhere DEF Final
  <1> QED
    BY <1>1 DEF Final

(* Behind a confirmed script everything is final, unless it is lost.         *)
LEMMA BehindConfirmed ==
    ASSUME NEW hdr, NEW H, Backed(hdr, H), NEW m \in Member,
           Tidy(m, H[m].nodes), ConfirmedFinal(hdr, H, m),
           NEW i \in 1 .. Len(H[m].nodes), Confirmed(H[m].nodes[i]),
           NEW x, Anc(hdr, x, H[m].nodes[i].id)
    PROVE  Loses(hdr, IdsOf(H, m), x) \/ Final(hdr, H, x)
  <1> DEFINE t == H[m].nodes
  <1>1. Tree(t) /\ Known(hdr, t) /\ t \in Seq(Node)
    BY BackedFacts DEF Tree
  <1>2. x \in IdsOf(H, m)
    BY BackedFacts
  <1>3. PICK j \in 1 .. Len(t) : t[j].id = x
    BY <1>2, BackedFacts
  <1>4. Under(Parents(t), j, i)
    BY <1>1, <1>3, AncUnder
  <1>5. j <= i
    BY <1>4 DEF Under
  <1>6. t[j].rej => Loses(hdr, IdsOf(H, m), x)
    BY <1>3, BackedFacts
  <1>7. ASSUME ~t[j].rej PROVE Confirmed(t[j])
    <2>1. ConfirmedUpTo(t, 0)
      BY DEF Tidy
    <2>2. CASE j = i
      BY <2>2
    <2>3. CASE j # i
      <3>1. j < i /\ i # 0
        BY <1>5, <2>3
      <3> QED
        BY <1>7, <2>1, <3>1 DEF ConfirmedUpTo
    <2> QED
      BY <2>2, <2>3
  <1> QED
    BY <1>3, <1>6, <1>7 DEF ConfirmedFinal

(* Confirmed scripts await nobody.                                           *)
LEMMA ConfirmedAwaited ==
    ASSUME NEW hdr, NEW H, Backed(hdr, H), NEW m \in Member, NEW nt,
           Tidy(m, H[m].nodes), ConfirmedFinal(hdr, H, m),
           NEW i \in 1 .. Len(H[m].nodes), Confirmed(H[m].nodes[i])
    PROVE  /\ Recorded(hdr, H, m, H[m].nodes[i])
           /\ LossAwaited(hdr, H, nt, m, H[m].nodes[i])
  <1>1. \A x : Anc(hdr, x, H[m].nodes[i].id) => Loses(hdr, IdsOf(H, m), x) \/ Final(hdr, H, x)
    BY BehindConfirmed
  <1> QED
    BY <1>1 DEF Recorded, LossAwaited, Final

(* A lineage shows no less where more is known.                              *)
LEMMA ShowsMore ==
    ASSUME NEW hdr, NEW S, NEW T, S \subseteq T, NEW lin, NEW x, Shows(hdr, S, lin, x)
    PROVE  Shows(hdr, T, lin, x)
  BY LosesMore DEF Shows

(* What is awaited stays so while the histories grow and mail is read.       *)
LEMMA AwaitedGrows ==
    ASSUME NEW hdr, NEW H, Backed(hdr, H), NEW H1,
           \A p \in Member : IdsOf(H, p) \subseteq IdsOf(H1, p),
           NEW nt, NEW nt1, nt1 \subseteq nt, NEW m \in Member,
           NEW n, NEW n1, n1.id = n.id, n.acks \subseteq n1.acks,
           Recorded(hdr, H, m, n), LossAwaited(hdr, H, nt, m, n)
    PROVE  Recorded(hdr, H1, m, n1) /\ LossAwaited(hdr, H1, nt1, m, n1)
  <1>1. \A p \in Member : \A x : Loses(hdr, IdsOf(H, p), x) => Loses(hdr, IdsOf(H1, p), x)
    BY LosesMore
  <1>2. Recorded(hdr, H1, m, n1)
    BY <1>1 DEF Recorded
  <1>3. ASSUME NEW x, Anc(hdr, x, n1.id), ~Loses(hdr, IdsOf(H1, m), x),
               NEW r \in Member, Loses(hdr, IdsOf(H1, r), x)
        PROVE  \E q \in Member \cap n1.acks :
                  /\ Loses(hdr, IdsOf(H1, q), x)
                  /\ \A b \in AcksBy(nt1, n1.id, q) : Shows(hdr, IdsOf(H1, m), b.lineage, x)
    <2>1. \E p \in Member : Loses(hdr, IdsOf(H, p), x)
      BY <1>3, LostSomewhere
    <2>2. ~Loses(hdr, IdsOf(H, m), x)
      BY <1>1, <1>3
    <2>3. PICK q \in Member \cap n.acks :
              /\ Loses(hdr, IdsOf(H, q), x)
              /\ \A b \in AcksBy(nt, n.id, q) : Shows(hdr, IdsOf(H, m), b.lineage, x)
      BY <1>3, <2>1, <2>2 DEF LossAwaited
    <2>4. AcksBy(nt1, n1.id, q) \subseteq AcksBy(nt, n.id, q)
      BY DEF AcksBy
    <2>5. \A b \in AcksBy(nt1, n1.id, q) : Shows(hdr, IdsOf(H1, m), b.lineage, x)
      BY <2>3, <2>4, ShowsMore
    <2> QED
      BY <1>1, <2>3, <2>5
  <1>4. LossAwaited(hdr, H1, nt1, m, n1)
    BY <1>3 DEF LossAwaited
  <1> QED
    BY <1>2, <1>4

(* True acknowledgments stay so while the histories grow.                    *)
LEMMA AckTrueGrows ==
    ASSUME NEW hdr, NEW H, NEW H1,
           \A p \in Member : IdsOf(H, p) \subseteq IdsOf(H1, p),
           \A x : Final(hdr, H, x) => Final(hdr, H1, x),
           NEW b, AckTrue(hdr, H, b)
    PROVE  AckTrue(hdr, H1, b)
  <1>1. b.id \in Script /\ b.from \in Member /\ b.to \in Member
    BY DEF AckTrue
  <1>2. \A x : Shows(hdr, IdsOf(H, b.to), b.lineage, x) => Shows(hdr, IdsOf(H1, b.to), b.lineage, x)
    BY <1>1, ShowsMore
  <1> QED
    BY <1>1, <1>2 DEF AckTrue

(* An id recorded anywhere is recorded by its author.                        *)
LEMMA OwnKnown ==
    ASSUME NEW hdr, NEW H, Backed(hdr, H), NEW H1, Backed(hdr, H1), NEW m \in Member,
           NEW p \in Member, NEW x \in IdsOf(H1, p), Author(x) = m
    PROVE  x \in Script /\ CheckedIn(hdr, x) /\ x \in IdsOf(H, m)
  <1>1. Tree(H1[p].nodes) /\ Known(hdr, H1[p].nodes)
    BY BackedFacts
  <1>2. PICK i \in 1 .. Len(H1[p].nodes) : H1[p].nodes[i].id = x
    BY BackedFacts
  <1>3. H1[p].nodes[1].id = Root /\ Len(H1[p].nodes) \in Nat
    BY <1>1, Places DEF Tree, Shaped
  <1>4. Author(Root) = 0 /\ m # 0
    BY MemberAssumption DEF Author, Root
  <1>5. i \in 2 .. Len(H1[p].nodes)
    BY <1>2, <1>3, <1>4
  <1>6. CheckedIn(hdr, x)
    BY <1>1, <1>2, <1>5 DEF Known
  <1> QED
    BY <1>6 DEF Backed, CheckedIn

(***************************************************************************)
(* A step of m in which no acknowledgment arrives keeps what they tell.     *)
(***************************************************************************)
LEMMA CarriedAgreed ==
    ASSUME NEW hdr, NEW H, Backed(hdr, H), NEW nt, Agreed(hdr, H, nt), NEW m \in Member,
           NEW H1, Backed(hdr, H1), \A p \in Member \ {m} : H1[p] = H[p],
           Carried(m, H[m].nodes, H1[m].nodes), Tidy(m, H1[m].nodes), NEW nt1, nt1 \subseteq nt
    PROVE  Agreed(hdr, H1, nt1) /\ \A x : Final(hdr, H, x) => Final(hdr, H1, x)
  <1> DEFINE t == H[m].nodes
             u == H1[m].nodes
  <1>1. \A p \in Member : IdsOf(H, p) \subseteq IdsOf(H1, p)
    BY DEF Carried, IdsOf
  <1>2. \A x : Final(hdr, H, x) => Final(hdr, H1, x)
    BY <1>1, FinalStays
  <1>3. \A p \in Member : \A x : Loses(hdr, IdsOf(H, p), x) => Loses(hdr, IdsOf(H1, p), x)
    BY <1>1, LosesMore
  <1>4. \A x : (\E p \in Member : Loses(hdr, IdsOf(H1, p), x)) =>
                  \E p \in Member : Loses(hdr, IdsOf(H, p), x)
    BY LostSomewhere
  <1>5. AllTidy(H1)
    BY DEF Agreed, AllTidy
  <1>6. ConfirmedFinal(hdr, H1, m)
    <2> SUFFICES ASSUME NEW j \in 1 .. Len(u), ~u[j].rej, Confirmed(u[j])
                 PROVE  Final(hdr, H1, u[j].id)
      BY DEF ConfirmedFinal
    <2>1. PICK i \in 1 .. Len(t) : t[i].id = u[j].id /\ Confirmed(t[i])
      BY DEF Carried
    <2>2. ~t[i].rej
      BY <2>1 DEF Carried
    <2>3. Final(hdr, H, t[i].id)
      BY <2>1, <2>2 DEF Agreed, AllConfirmedFinal, ConfirmedFinal
    <2> QED
      BY <1>2, <2>1, <2>3
  <1>7. AllConfirmedFinal(hdr, H1)
    <2> SUFFICES ASSUME NEW p \in Member, p # m PROVE ConfirmedFinal(hdr, H1, p)
      BY <1>6 DEF AllConfirmedFinal
    <2>1. ConfirmedFinal(hdr, H, p) /\ H1[p] = H[p]
      BY DEF Agreed, AllConfirmedFinal
    <2> QED
      BY <1>2, <2>1 DEF ConfirmedFinal
  <1>9. AcksTrue(hdr, H1, nt1)
    BY <1>1, <1>2, AckTrueGrows DEF Agreed, AcksTrue
  <1>10. OwnAwaited(hdr, H1, nt1)
    <2> SUFFICES ASSUME NEW p \in Member, NEW j \in 1 .. Len(H1[p].nodes),
                        Author(H1[p].nodes[j].id) = p
                 PROVE  /\ Recorded(hdr, H1, p, H1[p].nodes[j])
                        /\ LossAwaited(hdr, H1, nt1, p, H1[p].nodes[j])
      BY DEF OwnAwaited
    <2>1. CASE Confirmed(H1[p].nodes[j])
      BY <1>5, <1>7, <2>1, ConfirmedAwaited DEF AllTidy, AllConfirmedFinal
    <2>2. CASE p # m
      <3>1. /\ Recorded(hdr, H, p, H1[p].nodes[j]) /\ LossAwaited(hdr, H, nt, p, H1[p].nodes[j])
        BY <2>2 DEF Agreed, OwnAwaited
      <3> QED
        BY <1>1, <3>1, AwaitedGrows
    <2>3. CASE p = m /\ ~Confirmed(H1[p].nodes[j])
      <3>1. PICK i \in 1 .. Len(t) : t[i].id = u[j].id
        <4>1. u[j].id \in IdsOf(H1, m)
          BY <2>3, BackedFacts
        <4>2. u[j].id \in IdsOf(H, m)
          BY <2>3, <4>1, OwnKnown
        <4>3. \A x \in IdsOf(H, m) : \E i \in 1 .. Len(t) : t[i].id = x
          BY BackedFacts
        <4> QED
          BY <4>2, <4>3
      <3>2. t[i].acks \subseteq u[j].acks
        BY <2>3, <3>1 DEF Carried
      <3>3. Recorded(hdr, H, m, t[i]) /\ LossAwaited(hdr, H, nt, m, t[i])
        BY <2>3, <3>1 DEF Agreed, OwnAwaited
      <3> HIDE DEF t, u
      <3>4. Recorded(hdr, H1, m, u[j]) /\ LossAwaited(hdr, H1, nt1, m, u[j])
        BY <1>1, <3>1, <3>2, <3>3, AwaitedGrows
      <3> QED
        BY <2>3, <3>4 DEF u
    <2> QED
      BY <2>1, <2>2, <2>3
  <1> QED
    BY <1>2, <1>5, <1>7, <1>9, <1>10 DEF Agreed

(***************************************************************************)
(* Accepting an acknowledgment that was in transit, after its lineage has   *)
(* been read, keeps what acknowledgments tell.                              *)
(***************************************************************************)
LEMMA AcceptedAgreed ==
    ASSUME NEW hdr, NEW H, Backed(hdr, H), NEW nt, Agreed(hdr, H, nt), NEW m \in Member,
           NEW H1, Backed(hdr, H1), \A p \in Member \ {m} : H1[p] = H[p],
           NEW msg \in nt, msg.type = "ack", msg.to = m,
           \A x : Anc(hdr, x, msg.id) /\ Shows(hdr, IdsOf(H, m), msg.lineage, x)
                     => Loses(hdr, IdsOf(H, m), x),
           Acknowledged(H[m].nodes, H1[m].nodes, msg.id, msg.from), Tidy(m, H1[m].nodes)
    PROVE  Agreed(hdr, H1, nt) /\ \A x : Final(hdr, H, x) => Final(hdr, H1, x)
  <1> DEFINE t == H[m].nodes
             u == H1[m].nodes
             id == msg.id
             from == msg.from
  <1>0. Tree(t) /\ Known(hdr, t) /\ t \in Seq(Node)
    BY BackedFacts DEF Tree
  <1>1. /\ Len(u) = Len(t) /\ \A i \in 1 .. Len(t) : u[i].id = t[i].id /\ u[i].rej = t[i].rej
                                                     /\ u[i].acks \subseteq t[i].acks
        /\ u \in Seq(Node)
    BY DEF Acknowledged, AcksOnly
  <1>2. \A p \in Member : IdsOf(H1, p) = IdsOf(H, p)
    <2>1. Ids(u) = Ids(t)
      <3>1. DOMAIN u = DOMAIN t /\ DOMAIN t = 1 .. Len(t)
        BY <1>0, <1>1, NodesType
      <3> QED
        BY <1>1, <3>1 DEF Ids
    <2> QED
      BY <2>1 DEF IdsOf
  <1>3. \A x : Final(hdr, H1, x) <=> Final(hdr, H, x)
    BY <1>2 DEF Final
  <1>4. AckTrue(hdr, H, msg) /\ from \in Member /\ id \in Script
    BY DEF Agreed, AcksTrue, AckTrue
  <1>5. AllTidy(H1)
    BY DEF Agreed, AllTidy
  <1>6. AcksTrue(hdr, H1, nt)
    <2>1. \A p \in Member : IdsOf(H, p) \subseteq IdsOf(H1, p)
      BY <1>2
    <2> QED
      BY <1>3, <2>1, AckTrueGrows DEF Agreed, AcksTrue
  <1>7. ASSUME msg.ref, NEW x, Anc(hdr, x, id)
        PROVE  Loses(hdr, IdsOf(H, m), x) \/ Final(hdr, H, x)
    BY <1>4, <1>7 DEF AckTrue
  <1>8. ASSUME ~msg.ref
        PROVE  Author(id) = m /\ \A x : Anc(hdr, x, id) => x \in IdsOf(H, from)
    <2>1. id \in IdsOf(H, from)
      BY <1>4, <1>8 DEF AckTrue
    <2> QED
      BY <1>4, <1>8, <2>1, BackedFacts DEF AckTrue
  <1>9. ASSUME ~msg.ref, NEW x, Anc(hdr, x, id), ~Loses(hdr, IdsOf(H, m), x)
        PROVE  msg \in AcksBy(nt, id, from) /\ ~Shows(hdr, IdsOf(H, m), msg.lineage, x)
    BY <1>9 DEF AcksBy
  <1> HIDE DEF t, u
  <1>10. ConfirmedFinal(hdr, H1, m)
    <2> SUFFICES ASSUME NEW j \in 1 .. Len(t), ~t[j].rej, Confirmed(u[j]), ~Final(hdr, H, t[j].id)
                 PROVE  FALSE
      BY <1>1, <1>3 DEF ConfirmedFinal, u
    <2>1. ~Confirmed(t[j])
      BY DEF Agreed, AllConfirmedFinal, ConfirmedFinal, t
    <2>2. PICK k \in j .. Len(t) : t[k].id = id /\ t[k].acks \subseteq {from}
      BY <2>1 DEF Acknowledged, t, u
    <2>3. k \in 1 .. Len(t) /\ j <= k
      BY <2>2
    <2>4. Anc(hdr, t[j].id, id)
      BY <1>0, <2>2, <2>3, AcceptedBelow
    <2>5. ~Loses(hdr, IdsOf(H, m), t[j].id)
      BY BackedFacts DEF t
    <2>6. ~msg.ref
      BY <1>7, <2>4, <2>5
    <2>7. Recorded(hdr, H, m, t[k]) /\ LossAwaited(hdr, H, nt, m, t[k])
      BY <1>8, <2>2, <2>3, <2>6 DEF Agreed, OwnAwaited, t
    <2>8. \A p \in Member : t[j].id \in IdsOf(H, p)
      BY <1>8, <2>2, <2>4, <2>5, <2>6, <2>7 DEF Recorded
    <2>9. ASSUME NEW p \in Member, Loses(hdr, IdsOf(H, p), t[j].id) PROVE FALSE
      <3>1. PICK q \in Member \cap t[k].acks :
                \A b \in AcksBy(nt, t[k].id, q) : Shows(hdr, IdsOf(H, m), b.lineage, t[j].id)
        BY <2>2, <2>4, <2>5, <2>7, <2>9 DEF LossAwaited
      <3>2. q = from
        BY <2>2
      <3> QED
        BY <1>9, <2>2, <2>4, <2>5, <2>6, <3>1, <3>2
    <2> QED
      BY <2>8, <2>9 DEF Final
  <1>11. AllConfirmedFinal(hdr, H1)
    <2> SUFFICES ASSUME NEW p \in Member, p # m PROVE ConfirmedFinal(hdr, H1, p)
      BY <1>10 DEF AllConfirmedFinal
    <2>1. ConfirmedFinal(hdr, H, p) /\ H1[p] = H[p]
      BY DEF Agreed, AllConfirmedFinal
    <2> QED
      BY <1>3, <2>1 DEF ConfirmedFinal
  <1>12. OwnAwaited(hdr, H1, nt)
    <2> SUFFICES ASSUME NEW p \in Member, NEW j \in 1 .. Len(H1[p].nodes),
                        Author(H1[p].nodes[j].id) = p
                 PROVE  /\ Recorded(hdr, H1, p, H1[p].nodes[j])
                        /\ LossAwaited(hdr, H1, nt, p, H1[p].nodes[j])
      BY DEF OwnAwaited
    <2>0. \A q \in Member : IdsOf(H, q) \subseteq IdsOf(H1, q)
      BY <1>2
    <2>1. CASE Confirmed(H1[p].nodes[j])
      BY <1>5, <1>11, <2>1, ConfirmedAwaited DEF AllTidy, AllConfirmedFinal
    <2>2. CASE p # m
      <3>1. /\ Recorded(hdr, H, p, H1[p].nodes[j]) /\ LossAwaited(hdr, H, nt, p, H1[p].nodes[j])
        BY <2>2 DEF Agreed, OwnAwaited
      <3> QED
        BY <2>0, <3>1, AwaitedGrows
    <2>3. CASE p = m /\ ~Confirmed(H1[p].nodes[j])
      <3>0. j \in 1 .. Len(t) /\ ~Confirmed(u[j]) /\ Author(t[j].id) = m
        BY <1>1, <2>3 DEF u
      <3>1. Recorded(hdr, H, m, t[j]) /\ LossAwaited(hdr, H, nt, m, t[j])
        BY <3>0 DEF Agreed, OwnAwaited, t
      <3>2. t[j].acks \ (IF t[j].id = id THEN {from} ELSE {}) \subseteq u[j].acks
        BY <3>0 DEF Acknowledged, t, u
      <3>3. CASE t[j].acks \subseteq u[j].acks
        <4>1. Recorded(hdr, H1, m, u[j]) /\ LossAwaited(hdr, H1, nt, m, u[j])
          BY <1>1, <2>0, <3>0, <3>1, <3>3, AwaitedGrows
        <4> QED
          BY <2>3, <4>1 DEF u
      <3>4. CASE t[j].id = id
        <4>1. \A q \in t[j].acks : q = from \/ q \in u[j].acks
          BY <3>2, <3>4
        <4>2. Recorded(hdr, H, m, u[j])
          <5> SUFFICES ASSUME NEW q \in Member \ u[j].acks, NEW x, Anc(hdr, x, id),
                              ~Loses(hdr, IdsOf(H, m), x)
                       PROVE  x \in IdsOf(H, q)
            BY <1>1, <3>0, <3>4 DEF Recorded
          <5>1. CASE msg.ref
            BY <1>7, <5>1 DEF Final
          <5>2. CASE ~msg.ref /\ q = from
            BY <1>8, <5>2
          <5>3. CASE q # from
            BY <3>1, <3>4, <4>1, <5>3 DEF Recorded
          <5> QED
            BY <5>1, <5>2, <5>3
        <4>3. LossAwaited(hdr, H, nt, m, u[j])
          <5> SUFFICES ASSUME NEW x, Anc(hdr, x, id), ~Loses(hdr, IdsOf(H, m), x),
                              NEW r \in Member, Loses(hdr, IdsOf(H, r), x)
                       PROVE  \E q \in Member \cap u[j].acks :
                                 /\ Loses(hdr, IdsOf(H, q), x)
                                 /\ \A b \in AcksBy(nt, id, q) :
                                       Shows(hdr, IdsOf(H, m), b.lineage, x)
            BY <1>1, <3>0, <3>4 DEF LossAwaited
          <5>1. ~msg.ref
            BY <1>7 DEF Final
          <5>2. PICK q \in Member \cap t[j].acks :
                    /\ Loses(hdr, IdsOf(H, q), x)
                    /\ \A b \in AcksBy(nt, id, q) : Shows(hdr, IdsOf(H, m), b.lineage, x)
            BY <3>1, <3>4 DEF LossAwaited
          <5>3. q # from
            BY <1>9, <5>1, <5>2
          <5> QED
            BY <4>1, <5>2, <5>3
        <4>4. Recorded(hdr, H1, m, u[j]) /\ LossAwaited(hdr, H1, nt, m, u[j])
          BY <2>0, <4>2, <4>3, AwaitedGrows
        <4> QED
          BY <2>3, <4>4 DEF u
      <3> QED
        BY <3>2, <3>3, <3>4
    <2> QED
      BY <2>1, <2>2, <2>3
  <1> QED
    BY <1>3, <1>5, <1>6, <1>11, <1>12 DEF Agreed

(* The enumeration of a set leaves nothing out.                              *)
LEMMA RanksCover ==
    ASSUME NEW n \in Nat, NEW S \in SUBSET (0 .. n), S # {}, NEW i \in S
    PROVE  \E k \in 1 .. Cardinality(S) : InOrder(S)[k] = i
  <1> DEFINE w == InOrder(S)
             c == Cardinality(S)
             B == {k \in 1 .. c : i <= w[k]}
             k == Least(B, 0)
  <1>1. /\ c \in Nat /\ w \in [1 .. c -> S] /\ c > 0
        /\ \A j \in S : w[1] <= j /\ j <= w[c]
        /\ \A l \in 2 .. c : w[l - 1] < w[l] /\ \A j \in S : j < w[l] => j <= w[l - 1]
    BY Ranks
  <1>2. \A l \in 1 .. c : w[l] \in Nat
    <2>1. \A j \in S : j \in Nat
      OBVIOUS
    <2> HIDE DEF w, c
    <2> QED
      BY <1>1, <2>1
  <1>3. i \in Nat
    OBVIOUS
  <1> HIDE DEF w, c
  <1>4. c \in B /\ B \in SUBSET Nat
    BY <1>1
  <1>5. k \in B /\ \A l \in B : k <= l
    BY <1>4, LeastIs
  <1> HIDE DEF k
  <1>6. k \in 1 .. c /\ i <= w[k]
    BY <1>5
  <1>7. CASE k = 1
    BY <1>1, <1>2, <1>3, <1>6, <1>7 DEF w, c
  <1>8. CASE k # 1
    <2>1. k \in 2 .. c /\ k - 1 \in 1 .. c /\ k - 1 < k
      BY <1>1, <1>6, <1>8
    <2>2. k - 1 \notin B
      BY <1>1, <1>5, <1>6, <2>1
    <2>3. ~(i <= w[k - 1])
      BY <2>1, <2>2
    <2>4. ~(i < w[k])
      BY <1>1, <2>1, <2>3
    <2>5. i = w[k]
      BY <1>2, <1>3, <1>6, <2>4
    <2> QED
      BY <1>6, <2>5 DEF w, c
  <1> QED
    BY <1>7, <1>8

(***************************************************************************)
(* The lineage acknowledgments carry starts at a confirmed accepted script  *)
(* and has all accepted scripts that come after it.                         *)
(***************************************************************************)
LEMMA UnitIs ==
    ASSUME NEW h, Sound(h)
    PROVE  LET t == h.nodes
               lin == UnitLineage(h)
           IN  \E from \in 1 .. Len(t) :
                  /\ ~t[from].rej /\ Confirmed(t[from])
                  /\ lin # <<>> /\ lin[1] = t[from].id
                  /\ \A i \in 1 .. Len(t) : i > from /\ ~t[i].rej =>
                        t[i].id \in Elements(lin) /\ Len(lin) > 1
  <1> DEFINE t == h.nodes
             n == Len(t)
             F == {i \in FisIdx(h) .. n : ~t[i].rej /\ Confirmed(t[i])}
             from == Greatest(F, FisIdx(h))
             S == {i \in DOMAIN t : i >= from /\ ~t[i].rej}
             w == InOrder(S)
             c == Cardinality(S)
             lin == IdsAt(t, S)
  <1>1. t \in Seq(Node) /\ Shaped(t) /\ DOMAIN t = 1 .. n /\ n \in Nat
    BY NodesType DEF Sound, Tree
  <1>2. UnitLineage(h) = lin
    BY DEF UnitLineage
  <1>3. FisIdx(h) \in 1 .. n /\ ~t[FisIdx(h)].rej /\ Confirmed(t[FisIdx(h)])
    <2>1. PICK f \in 1 .. n : t[f].id = h.fis /\ Executed(t[f]) /\ Confirmed(t[f])
      BY DEF Sound, SettledIn
    <2>2. FisIdx(h) = f
      BY <1>1, <2>1, Places DEF FisIdx
    <2> QED
      BY <2>1, <2>2 DEF Executed
  <1> HIDE DEF t, n
  <1>4. from \in 1 .. n /\ ~t[from].rej /\ Confirmed(t[from])
    <2>1. F \in SUBSET (0 .. n) /\ F \subseteq 1 .. n
      BY <1>1, <1>3
    <2>2. (F = {} => from = FisIdx(h)) /\ (F # {} => from \in F)
      BY <1>1, <2>1, GreatestIs
    <2>3. \A i \in F : i \in 1 .. n /\ ~t[i].rej /\ Confirmed(t[i])
      BY <2>1
    <2> HIDE DEF F, from
    <2> QED
      BY <1>3, <2>2, <2>3
  <1> HIDE DEF from
  <1>5. S \in SUBSET (0 .. n) /\ S \in SUBSET (1 .. n) /\ from \in S /\ \A i \in S : from <= i
    BY <1>1, <1>4
  <1>6. \A i \in 1 .. n : i > from /\ ~t[i].rej => i \in S
    BY <1>1, <1>4
  <1> HIDE DEF S
  <1>7. /\ c \in Nat /\ w \in [1 .. c -> S] /\ c > 0
        /\ \A i \in S : w[1] <= i /\ i <= w[c]
    BY <1>1, <1>5, Ranks
  <1>8. lin \in Seq(Gid)
    BY <1>1, <1>5, IdsAtType DEF n
  <1>9. Len(lin) = c /\ \A k \in 1 .. c : lin[k] = t[w[k]].id
    <2>1. lin = [k \in 1 .. c |-> t[w[k]].id]
      BY DEF IdsAt
    <2>2. lin \in [1 .. Len(lin) -> Gid] /\ Len(lin) \in Nat
      BY <1>8, LenProperties
    <2> HIDE DEF lin, w, c
    <2>3. 1 .. Len(lin) = 1 .. c
      BY <2>1, <2>2
    <2> QED
      BY <1>7, <2>1, <2>2, <2>3
  <1>10. \A i \in S : \E k \in 1 .. c : w[k] = i
    BY <1>1, <1>5, RanksCover
  <1> HIDE DEF lin, w, c
  <1>11. 1 \in 1 .. c /\ w[1] = from
    <2>1. 1 \in 1 .. c /\ w[1] \in S
      BY <1>7
    <2>2. w[1] \in 1 .. n /\ w[1] <= from /\ from <= w[1]
      BY <1>5, <1>7, <2>1
    <2>3. w[1] = from
      BY ONLY <1>1, <1>4, <2>2
    <2> QED
      BY <2>1, <2>3
  <1>12. lin # <<>> /\ lin[1] = t[from].id
    BY <1>7, <1>8, <1>9, <1>11, EmptySeq
  <1>13. ASSUME NEW i \in S PROVE t[i].id \in Elements(lin)
    BY <1>9, <1>10 DEF Elements
  <1>14. ASSUME NEW i \in S, i > from PROVE Len(lin) > 1
    <2>1. PICK k \in 1 .. c : w[k] = i
      BY <1>10
    <2>2. k # 1
      BY <1>1, <1>4, <1>5, <1>11, <1>14, <2>1
    <2> QED
      BY <1>7, <1>9, <2>1, <2>2
  <1> QED
    BY <1>2, <1>4, <1>6, <1>12, <1>13, <1>14 DEF t, n, lin

(***************************************************************************)
(* The lineage a member sends along shows whoever gets it what the member   *)
(* knows to be lost.                                                        *)
(***************************************************************************)
LEMMA SideShows ==
    ASSUME NEW hdr, NEW H, Backed(hdr, H), NEW m \in Member,
           Tidy(m, H[m].nodes), ConfirmedFinal(hdr, H, m),
           NEW x \in IdsOf(H, m), Loses(hdr, IdsOf(H, m), x), NEW p \in Member
    PROVE  Shows(hdr, IdsOf(H, p), SideLineage(UnitLineage(H[m])), x)
  <1> DEFINE t == H[m].nodes
             lin == UnitLineage(H[m])
  <1>1. Tree(t) /\ Known(hdr, t) /\ t \in Seq(Node) /\ Sound(H[m])
    BY BackedFacts DEF Tree
  <1>2. PICK i \in 1 .. Len(t) : t[i].id = x
    BY BackedFacts
  <1>3. t[i].rej
    BY <1>2, BackedFacts
  <1>4. PICK c, d \in 2 .. Len(t) :
            /\ Under(Parents(t), d, Len(t)) /\ Anc(hdr, t[c].id, t[i].id)
            /\ Beats(hdr, t[d].id, t[c].id)
    BY <1>1, <1>3, RejectedLoses
  <1>5. Len(t) \in Nat /\ d \in 1 .. Len(t) /\ c \in 1 .. Len(t) /\ t[c].id \in Gid /\ ~t[d].rej
    <2>1. Len(t) \in Nat /\ d \in 1 .. Len(t) /\ c \in 1 .. Len(t)
      BY <1>1, NodesType
    <2> QED
      BY <1>1, <1>4, <2>1, NodesType DEF Tree, Trunk
  <1>6. PICK from \in 1 .. Len(t) :
            /\ ~t[from].rej /\ Confirmed(t[from])
            /\ lin # <<>> /\ lin[1] = t[from].id
            /\ \A j \in 1 .. Len(t) : j > from /\ ~t[j].rej =>
                  t[j].id \in Elements(lin) /\ Len(lin) > 1
    BY <1>1, UnitIs
  <1>7. t[from].id \in IdsOf(H, p)
    BY <1>6 DEF ConfirmedFinal, Final
  <1> HIDE DEF t, lin
  <1>8. CASE d > from
    <2>1. t[d].id \in Elements(lin) /\ SideLineage(lin) = lin
      BY <1>5, <1>6, <1>8 DEF SideLineage
    <2>2. Loses(hdr, Elements(lin), x)
      BY <1>2, <1>4, <1>5, <2>1 DEF Loses
    <2> QED
      BY <1>6, <1>7, <2>1, <2>2 DEF Shows, lin
  <1>9. CASE ~(d > from)
    <2>1. Confirmed(t[d])
      <3>1. CASE d = from
        BY <1>6, <3>1
      <3>2. CASE d # from
        <4>1. d < from /\ from # 0
          BY <1>5, <1>9, <3>2
        <4> QED
          BY <1>5, <1>6, <4>1 DEF Tidy, ConfirmedUpTo, t
      <3> QED
        BY <3>1, <3>2
    <2>2. t[d].id \in IdsOf(H, p)
      BY <1>5, <2>1 DEF ConfirmedFinal, Final, t
    <2>3. Loses(hdr, IdsOf(H, p), x)
      BY <1>2, <1>4, <1>5, <2>2 DEF Loses
    <2> QED
      BY <2>3 DEF Shows
  <1> QED
    BY <1>8, <1>9

(***************************************************************************)
(* An acknowledgment as its sender mails it: of a script it has recorded,   *)
(* to the author, or of a confirmed script of its own, with the lineage of  *)
(* its accepted scripts.                                                    *)
(***************************************************************************)
NewAck(H, b) ==
    /\ b.id \in Script /\ b.from \in Member /\ b.to \in Member
    /\ b.id \in IdsOf(H, b.from)
    /\ b.lineage = SideLineage(UnitLineage(H[b.from]))
    /\ ~b.ref => b.to = Author(b.id)
    /\ b.ref => /\ b.from = Author(b.id)
                /\ \E i \in 1 .. Len(H[b.from].nodes) :
                      H[b.from].nodes[i].id = b.id /\ Confirmed(H[b.from].nodes[i])

(* Mailing such acknowledgments keeps what they tell.                        *)
LEMMA MailAgreed ==
    ASSUME NEW hdr, NEW H, Backed(hdr, H), NEW nt, Agreed(hdr, H, nt), NEW nt1,
           \A b \in nt1 : b \in nt \/ b.type # "ack" \/ NewAck(H, b)
    PROVE  Agreed(hdr, H, nt1)
  <1>1. \A m \in Member : Tidy(m, H[m].nodes) /\ ConfirmedFinal(hdr, H, m)
    BY DEF Agreed, AllTidy, AllConfirmedFinal
  <1>2. ASSUME NEW b, NewAck(H, b), NEW x, Anc(hdr, x, b.id), Loses(hdr, IdsOf(H, b.from), x),
               NEW p \in Member
        PROVE  Shows(hdr, IdsOf(H, p), b.lineage, x)
    <2>1. b.from \in Member /\ x \in IdsOf(H, b.from)
      BY <1>2, BackedFacts DEF NewAck
    <2>2. Shows(hdr, IdsOf(H, p), SideLineage(UnitLineage(H[b.from])), x)
      BY <1>1, <1>2, <2>1, SideShows
    <2> QED
      BY <1>2, <2>2 DEF NewAck
  <1>3. AcksTrue(hdr, H, nt1)
    <2> SUFFICES ASSUME NEW b \in nt1, b.type = "ack", b \notin nt PROVE AckTrue(hdr, H, b)
      BY DEF Agreed, AcksTrue
    <2>1. NewAck(H, b)
      OBVIOUS
    <2>2. ASSUME b.ref, NEW x, Anc(hdr, x, b.id)
          PROVE  Final(hdr, H, x) \/ Shows(hdr, IdsOf(H, b.to), b.lineage, x)
      <3>1. b.from \in Member /\ b.to \in Member
        BY <2>1 DEF NewAck
      <3>2. PICK i \in 1 .. Len(H[b.from].nodes) :
                H[b.from].nodes[i].id = b.id /\ Confirmed(H[b.from].nodes[i])
        BY <2>1, <2>2 DEF NewAck
      <3>3. Loses(hdr, IdsOf(H, b.from), x) \/ Final(hdr, H, x)
        BY <1>1, <2>2, <3>1, <3>2, BehindConfirmed
      <3> QED
        BY <1>2, <2>1, <2>2, <3>1, <3>3
    <2> QED
      BY <2>1, <2>2 DEF AckTrue, NewAck
  <1>4. OwnAwaited(hdr, H, nt1)
    <2> SUFFICES ASSUME NEW m \in Member, NEW i \in 1 .. Len(H[m].nodes),
                        Author(H[m].nodes[i].id) = m
                 PROVE  /\ Recorded(hdr, H, m, H[m].nodes[i])
                        /\ LossAwaited(hdr, H, nt1, m, H[m].nodes[i])
      BY DEF OwnAwaited
    <2> DEFINE n == H[m].nodes[i]
    <2>1. Recorded(hdr, H, m, n) /\ LossAwaited(hdr, H, nt, m, n)
      BY DEF Agreed, OwnAwaited
    <2> HIDE DEF n
    <2>2. ASSUME NEW x, Anc(hdr, x, n.id), ~Loses(hdr, IdsOf(H, m), x),
                 \E p \in Member : Loses(hdr, IdsOf(H, p), x)
          PROVE  \E q \in Member \cap n.acks :
                    /\ Loses(hdr, IdsOf(H, q), x)
                    /\ \A b \in AcksBy(nt1, n.id, q) : Shows(hdr, IdsOf(H, m), b.lineage, x)
      <3>1. PICK q \in Member \cap n.acks :
                /\ Loses(hdr, IdsOf(H, q), x)
                /\ \A b \in AcksBy(nt, n.id, q) : Shows(hdr, IdsOf(H, m), b.lineage, x)
        BY <2>1, <2>2 DEF LossAwaited
      <3>2. ASSUME NEW b \in AcksBy(nt1, n.id, q), b \notin nt
            PROVE  Shows(hdr, IdsOf(H, m), b.lineage, x)
        <4>1. NewAck(H, b) /\ b.id = n.id /\ b.from = q
          BY <3>2 DEF AcksBy
        <4> QED
          BY <1>2, <2>2, <3>1, <4>1
      <3>3. ASSUME NEW b \in AcksBy(nt1, n.id, q), b \in nt
            PROVE  b \in AcksBy(nt, n.id, q)
        BY <3>3 DEF AcksBy
      <3> QED
        BY <3>1, <3>2, <3>3
    <2>3. LossAwaited(hdr, H, nt1, m, n)
      BY <2>2 DEF LossAwaited
    <2> QED
      BY <2>1, <2>3 DEF n
  <1> QED
    BY <1>3, <1>4 DEF Agreed

(* The ids recorded anywhere, and with a new header nothing changes for them. *)
Old(hdr) == {Root} \cup {s \in Script : CheckedIn(hdr, s)}

(* What is recorded has been checked in.                                     *)
LEMMA RecordedIsOld ==
    ASSUME NEW hdr, NEW H, Backed(hdr, H)
    PROVE  /\ \A p \in Member : IdsOf(H, p) \subseteq Old(hdr)
           /\ Based(hdr, Old(hdr)) /\ Old(hdr) \in SUBSET Gid
  <1>1. ASSUME NEW p \in Member, NEW x \in IdsOf(H, p) PROVE x \in Old(hdr)
    <2>1. Tree(H[p].nodes) /\ Known(hdr, H[p].nodes)
      BY BackedFacts
    <2>2. PICK i \in 1 .. Len(H[p].nodes) : H[p].nodes[i].id = x
      BY <1>1, BackedFacts
    <2>3. H[p].nodes[1].id = Root /\ Len(H[p].nodes) \in Nat
      BY <2>1, Places DEF Tree, Shaped
    <2>4. CASE i = 1
      BY <2>2, <2>3, <2>4 DEF Old
    <2>5. CASE i # 1
      <3>1. i \in 2 .. Len(H[p].nodes)
        BY <2>2, <2>3, <2>5
      <3> QED
        BY <2>1, <2>2, <3>1 DEF Known, CheckedIn, Old
    <2> QED
      BY <2>4, <2>5
  <1>2. ASSUME NEW y \in Old(hdr), CheckedIn(hdr, y) PROVE Last(hdr[y]) \in Old(hdr)
    <2>1. y \in Script
      BY <1>2 DEF CheckedIn
    <2>2. Author(y) \in Member /\ y \in IdsOf(H, Author(y))
      BY <1>2, <2>1, ScriptType DEF Backed
    <2>3. Anc(hdr, Last(hdr[y]), y)
      BY <1>2, AncFacts
    <2>4. Last(hdr[y]) \in IdsOf(H, Author(y))
      BY <2>2, <2>3, BackedFacts
    <2> QED
      BY <1>1, <2>2, <2>4
  <1>3. Old(hdr) \in SUBSET Gid
    BY DEF Old, Gid
  <1> QED
    BY <1>1, <1>2, <1>3 DEF Based

(***************************************************************************)
(* A new header changes nothing about what older scripts are built upon,    *)
(* and what loses against what among them.                                  *)
(***************************************************************************)
LEMMA HeaderAddedAnc ==
    ASSUME NEW hdr, NEW hdr1, NEW s, HeaderAdded(hdr, hdr1, s),
           Based(hdr, Old(hdr)), NEW i \in Old(hdr), NEW x
    PROVE  /\ Anc(hdr1, x, i) <=> Anc(hdr, x, i)
           /\ Anc(hdr, x, i) => x \in Old(hdr)
  <1> DEFINE O == Old(hdr)
  <1>1. /\ O \in SUBSET Gid /\ s \notin O
        /\ \A y \in O : /\ CheckedIn(hdr1, y) <=> CheckedIn(hdr, y)
                        /\ CheckedIn(hdr, y) => hdr1[y] = hdr[y]
    BY RootNotScript DEF Old, Gid, HeaderAdded, CheckedIn
  <1> HIDE DEF O
  <1>2. Based(hdr, O) /\ i \in O
    BY DEF O
  <1>3. \A S \in SUBSET Gid : Based(hdr, S) => Based(hdr1, S \cap O) /\ S \cap O \in SUBSET Gid
    BY <1>1, <1>2 DEF Based
  <1>4. \A S \in SUBSET Gid : Based(hdr1, S) => Based(hdr, S \cap O) /\ S \cap O \in SUBSET Gid
    BY <1>1, <1>2 DEF Based
  <1>5. Anc(hdr, x, i) => Anc(hdr1, x, i)
    BY <1>2, <1>4 DEF Anc
  <1>6. Anc(hdr1, x, i) => Anc(hdr, x, i)
    BY <1>2, <1>3 DEF Anc
  <1>7. Anc(hdr, x, i) => x \in O
    BY <1>1, <1>2 DEF Anc
  <1> QED
    BY <1>5, <1>6, <1>7 DEF O

(* A new header makes no script lose but by the script it belongs to.        *)
LEMMA HeaderAddedLoses ==
    ASSUME NEW hdr, NEW hdr1, NEW s, HeaderAdded(hdr, hdr1, s),
           Based(hdr, Old(hdr)), NEW x \in Old(hdr), NEW S
    PROVE  /\ Loses(hdr, S, x) => Loses(hdr1, S, x)
           /\ Loses(hdr1, S, x) /\ s \notin S => Loses(hdr, S, x)
  <1>1. \A y : CheckedIn(hdr, y) => CheckedIn(hdr1, y) /\ hdr1[y] = hdr[y]
    BY DEF HeaderAdded, CheckedIn
  <1>2. \A y : CheckedIn(hdr1, y) /\ y # s => CheckedIn(hdr, y) /\ hdr1[y] = hdr[y]
    BY DEF HeaderAdded, CheckedIn
  <1>3. s \notin Old(hdr)
    BY RootNotScript DEF Old, HeaderAdded, CheckedIn
  <1>4. ASSUME Loses(hdr, S, x) PROVE Loses(hdr1, S, x)
    <2>1. PICK d \in S, a \in Gid : Anc(hdr, a, x) /\ Beats(hdr, d, a)
      BY <1>4 DEF Loses
    <2>2. Anc(hdr1, a, x)
      BY <2>1, HeaderAddedAnc
    <2>3. Beats(hdr1, d, a)
      BY <1>1, <2>1 DEF Beats
    <2> QED
      BY <2>2, <2>3 DEF Loses
  <1>5. ASSUME Loses(hdr1, S, x), s \notin S PROVE Loses(hdr, S, x)
    <2>1. PICK d \in S, a \in Gid : Anc(hdr1, a, x) /\ Beats(hdr1, d, a)
      BY <1>5 DEF Loses
    <2>2. Anc(hdr, a, x) /\ a \in Old(hdr)
      BY <2>1, HeaderAddedAnc
    <2>3. Beats(hdr, d, a)
      BY <1>2, <1>3, <1>5, <2>1, <2>2 DEF Beats
    <2> QED
      BY <2>2, <2>3 DEF Loses
  <1> QED
    BY <1>4, <1>5

(***************************************************************************)
(* A check-in by m keeps what acknowledgments tell: nothing that m has      *)
(* recorded is lost by it, and who acknowledged a script built upon what is  *)
(* lost by it has recorded that.                                            *)
(***************************************************************************)
LEMMA CheckedInAgreed ==
    ASSUME NEW hdr, NEW H, Backed(hdr, H), NEW nt, Agreed(hdr, H, nt), NEW m \in Member,
           NEW hdr1, NEW n, HeaderAdded(hdr, hdr1, n.id), n.acks = Member \ {m},
           NEW H1, Backed(hdr1, H1), \A p \in Member \ {m} : H1[p] = H[p],
           Ids(H1[m].nodes) = Ids(H[m].nodes) \cup {n.id},
           CheckedInFrame(m, H[m].nodes, H1[m].nodes, n)
    PROVE  Agreed(hdr1, H1, nt) /\ \A x : Final(hdr, H, x) => Final(hdr1, H1, x)
  <1> DEFINE t == H[m].nodes
             u == H1[m].nodes
             s == n.id
             O == Old(hdr)
             L(p, x)  == Loses(hdr, IdsOf(H, p), x)
             L1(p, x) == Loses(hdr1, IdsOf(H1, p), x)
  <1>1. IdsOf(H1, m) = IdsOf(H, m) \cup {s} /\ \A p \in Member \ {m} : IdsOf(H1, p) = IdsOf(H, p)
    BY DEF IdsOf
  <1>2. \A p \in Member : IdsOf(H, p) \subseteq IdsOf(H1, p)
    BY <1>1
  <1>3. /\ Based(hdr, O) /\ \A p \in Member : IdsOf(H, p) \subseteq O
        /\ s \notin O
    BY RecordedIsOld, RootNotScript DEF Old, HeaderAdded, CheckedIn
  <1>4. \A i \in O : \A x : (Anc(hdr1, x, i) <=> Anc(hdr, x, i)) /\ (Anc(hdr, x, i) => x \in O)
    BY <1>3, HeaderAddedAnc
  <1>5. \A x \in O : \A S : Loses(hdr, S, x) => Loses(hdr1, S, x)
    BY <1>3, HeaderAddedLoses
  <1>6. \A x \in O : \A S : Loses(hdr1, S, x) /\ s \notin S => Loses(hdr, S, x)
    BY <1>3, HeaderAddedLoses
  <1>7. ASSUME NEW p \in Member, NEW x \in O PROVE L(p, x) => L1(p, x)
    BY <1>2, <1>5, LosesMore
  <1>8. ASSUME NEW p \in Member, p # m, NEW x \in O PROVE L1(p, x) => L(p, x)
    BY <1>1, <1>3, <1>6, <1>8
  <1>9. ASSUME NEW x \in IdsOf(H, m) PROVE L1(m, x) => L(m, x)
    <2>1. PICK i \in 1 .. Len(t) : t[i].id = x
      BY BackedFacts
    <2>2. PICK j \in 1 .. Len(u) : u[j].id = x
      BY <1>1, BackedFacts
    <2>3. t[i].rej = u[j].rej
      BY <2>1, <2>2 DEF CheckedInFrame
    <2>4. u[j].rej <=> L1(m, x)
      BY <2>2, BackedFacts
    <2>5. t[i].rej <=> L(m, x)
      BY <2>1, BackedFacts
    <2> QED
      BY <2>3, <2>4, <2>5
  <1> HIDE DEF L, L1, t, u, s, O
  <1>10. ASSUME NEW x, Final(hdr, H, x) PROVE Final(hdr1, H1, x)
    <2>1. \A p \in Member : x \in IdsOf(H, p) /\ ~L(p, x)
      BY <1>10 DEF Final, L
    <2>2. x \in O
      BY <1>3, <2>1
    <2>3. \A p \in Member : x \in IdsOf(H1, p) /\ ~L1(p, x)
      BY <1>2, <1>8, <1>9, <2>1, <2>2
    <2> QED
      BY <2>3 DEF Final, L1
  <1>11. Tidy(m, u) /\ AllTidy(H1)
    <2>1. Tidy(m, u)
      BY DEF CheckedInFrame, u
    <2> QED
      BY <2>1 DEF Agreed, AllTidy, u
  <1>12. /\ \A i \in 1 .. Len(t), j \in 1 .. Len(u) :
                t[i].id = u[j].id => /\ u[j].rej = t[i].rej
                                     /\ ~Confirmed(n) => u[j].acks = t[i].acks
         /\ ~Confirmed(n) => \A j \in 1 .. Len(u) : u[j].id = s => u[j].acks = Member \ {m}
    BY DEF CheckedInFrame, t, u, s
  <1>13. ASSUME NEW p \in Member, p # m PROVE ~Confirmed(n)
    BY <1>13 DEF Confirmed
  <1>14. \A j \in 1 .. Len(u) : u[j].id = s \/ \E i \in 1 .. Len(t) : t[i].id = u[j].id
    <2>1. \A j \in 1 .. Len(u) : u[j].id \in IdsOf(H1, m)
      BY BackedFacts DEF u
    <2>2. \A x \in IdsOf(H, m) : \E i \in 1 .. Len(t) : t[i].id = x
      BY BackedFacts DEF t
    <2> QED
      BY <1>1, <2>1, <2>2
  <1>15. ConfirmedFinal(hdr1, H1, m)
    <2> SUFFICES ASSUME NEW j \in 1 .. Len(u), ~u[j].rej, Confirmed(u[j])
                 PROVE  Final(hdr1, H1, u[j].id)
      BY DEF ConfirmedFinal, u
    <2>1. CASE Member = {m}
      <3>1. u[j].id \in IdsOf(H1, m) /\ ~Loses(hdr1, IdsOf(H1, m), u[j].id)
        BY BackedFacts DEF u
      <3> QED
        BY <2>1, <3>1 DEF Final
    <2>2. CASE Member # {m}
      <3>1. ~Confirmed(n) /\ Member \ {m} # {}
        BY <1>13, <2>2
      <3>2. u[j].id # s
        BY <1>12, <3>1 DEF Confirmed
      <3>3. PICK i \in 1 .. Len(t) : t[i].id = u[j].id
        BY <1>14, <3>2
      <3>4. ~t[i].rej /\ Confirmed(t[i])
        BY <1>12, <3>1, <3>3 DEF Confirmed
      <3>5. Final(hdr, H, t[i].id)
        BY <3>4 DEF Agreed, AllConfirmedFinal, ConfirmedFinal, t
      <3> QED
        BY <1>10, <3>3, <3>5
    <2> QED
      BY <2>1, <2>2
  <1>16. AllConfirmedFinal(hdr1, H1)
    <2> SUFFICES ASSUME NEW p \in Member, p # m PROVE ConfirmedFinal(hdr1, H1, p)
      BY <1>15 DEF AllConfirmedFinal
    <2>1. ConfirmedFinal(hdr, H, p) /\ H1[p] = H[p]
      BY DEF Agreed, AllConfirmedFinal
    <2> QED
      BY <1>10, <2>1 DEF ConfirmedFinal
  <1>17. ASSUME NEW p \in Member, NEW lin, NEW x \in O, Shows(hdr, IdsOf(H, p), lin, x)
         PROVE  Shows(hdr1, IdsOf(H1, p), lin, x)
    <2>1. L(p, x) => L1(p, x)
      BY <1>7
    <2> QED
      BY <1>2, <1>5, <1>17, <2>1 DEF Shows, L, L1
  <1>18. AcksTrue(hdr1, H1, nt)
    <2> SUFFICES ASSUME NEW b \in nt, b.type = "ack", AckTrue(hdr, H, b) PROVE AckTrue(hdr1, H1, b)
      BY DEF Agreed, AcksTrue
    <2>1. b.id \in Script /\ b.from \in Member /\ b.to \in Member
      BY DEF AckTrue
    <2>2. b.id \in IdsOf(H, b.from)
      BY DEF AckTrue
    <2>3. b.id \in IdsOf(H1, b.from) /\ b.id \in O
      BY <1>2, <1>3, <2>1, <2>2
    <2>4. ASSUME b.ref, NEW x, Anc(hdr1, x, b.id)
          PROVE  Final(hdr1, H1, x) \/ Shows(hdr1, IdsOf(H1, b.to), b.lineage, x)
      <3>1. Anc(hdr, x, b.id) /\ x \in O
        BY <1>4, <2>3, <2>4
      <3>2. Final(hdr, H, x) \/ Shows(hdr, IdsOf(H, b.to), b.lineage, x)
        BY <2>4, <3>1 DEF AckTrue
      <3> QED
        BY <1>10, <1>17, <2>1, <3>1, <3>2
    <2> QED
      BY <2>1, <2>3, <2>4 DEF AckTrue
  <1>19. ASSUME NEW p \in Member, NEW j \in 1 .. Len(H1[p].nodes),
                Author(H1[p].nodes[j].id) = p, H1[p].nodes[j].id # s \/ p # m
         PROVE  \E i \in 1 .. Len(H[p].nodes) :
                   /\ H[p].nodes[i].id = H1[p].nodes[j].id
                   /\ Member # {m} => H[p].nodes[i].acks = H1[p].nodes[j].acks
                   /\ H[p].nodes[i].id \in IdsOf(H, p)
                   /\ Recorded(hdr, H, p, H[p].nodes[i]) /\ LossAwaited(hdr, H, nt, p, H[p].nodes[i])
    <2>1. PICK i \in 1 .. Len(H[p].nodes) :
              /\ H[p].nodes[i].id = H1[p].nodes[j].id
              /\ Member # {m} => H[p].nodes[i].acks = H1[p].nodes[j].acks
      <3>1. CASE p # m
        BY <3>1
      <3>2. CASE p = m
        <4>1. u[j].id # s /\ j \in 1 .. Len(u)
          BY <1>19, <3>2 DEF u
        <4>2. PICK i \in 1 .. Len(t) : t[i].id = u[j].id
          BY <1>14, <4>1
        <4>3. Member # {m} => t[i].acks = u[j].acks
          BY <1>12, <1>13, <4>1, <4>2
        <4> QED
          BY <3>2, <4>2, <4>3 DEF t, u
      <3> QED
        BY <3>1, <3>2
    <2>2. Recorded(hdr, H, p, H[p].nodes[i]) /\ LossAwaited(hdr, H, nt, p, H[p].nodes[i])
      BY <1>19, <2>1 DEF Agreed, OwnAwaited
    <2> QED
      BY <2>1, <2>2, BackedFacts
  <1>20. ASSUME NEW p \in Member, NEW j \in 1 .. Len(H1[p].nodes),
                Author(H1[p].nodes[j].id) = p
         PROVE  Recorded(hdr1, H1, p, H1[p].nodes[j])
    <2> SUFFICES ASSUME NEW q \in Member \ H1[p].nodes[j].acks, NEW x,
                        Anc(hdr1, x, H1[p].nodes[j].id), ~L1(p, x)
                 PROVE  x \in IdsOf(H1, q)
      BY DEF Recorded, L1
    <2>1. x \in IdsOf(H1, p)
      BY BackedFacts
    <2>2. CASE q = p
      BY <2>1, <2>2
    <2>3. CASE q # p /\ p = m /\ H1[p].nodes[j].id = s
      <3>1. ~Confirmed(n)
        BY <1>13, <2>3
      <3>2. u[j].acks = Member \ {m}
        BY <1>12, <2>3, <3>1 DEF u
      <3> QED
        BY <2>3, <3>2 DEF u
    <2>4. CASE q # p /\ ~(p = m /\ H1[p].nodes[j].id = s)
      <3>1. PICK i \in 1 .. Len(H[p].nodes) :
                   /\ H[p].nodes[i].id = H1[p].nodes[j].id
                   /\ Member # {m} => H[p].nodes[i].acks = H1[p].nodes[j].acks
                   /\ H[p].nodes[i].id \in IdsOf(H, p)
                   /\ Recorded(hdr, H, p, H[p].nodes[i])
        BY <1>19, <1>20, <2>4
      <3>2. q \in Member \ H[p].nodes[i].acks
        BY <2>4, <3>1
      <3>3. Anc(hdr, x, H[p].nodes[i].id) /\ x \in O
        BY <1>3, <1>4, <3>1
      <3>4. ~L(p, x)
        BY <1>7, <3>3
      <3>5. x \in IdsOf(H, q)
        BY <3>1, <3>2, <3>3, <3>4 DEF Recorded, L
      <3> QED
        BY <1>2, <3>5
    <2> QED
      BY <2>2, <2>3, <2>4
  <1>21. ASSUME NEW p \in Member, NEW j \in 1 .. Len(H1[p].nodes),
                Author(H1[p].nodes[j].id) = p
         PROVE  LossAwaited(hdr1, H1, nt, p, H1[p].nodes[j])
    <2> DEFINE n1 == H1[p].nodes[j]
    <2> SUFFICES ASSUME NEW x, Anc(hdr1, x, n1.id), ~L1(p, x),
                        NEW r \in Member, L1(r, x)
                 PROVE  \E q \in Member \cap n1.acks :
                           /\ L1(q, x)
                           /\ \A b \in AcksBy(nt, n1.id, q) : Shows(hdr1, IdsOf(H1, p), b.lineage, x)
      BY DEF LossAwaited, L1
    <2>0. r # p
      OBVIOUS
    <2>1. CASE p = m /\ n1.id = s
      <3>1. ~Confirmed(n)
        BY <1>13, <2>0, <2>1
      <3>2. n1.acks = Member \ {m}
        BY <1>12, <2>1, <3>1 DEF u
      <3>3. AcksBy(nt, s, r) = {}
        <4> SUFFICES ASSUME NEW b \in AcksBy(nt, s, r) PROVE FALSE
          OBVIOUS
        <4>1. b \in nt /\ b.type = "ack" /\ ~b.ref /\ b.id = s /\ b.from = r
          BY DEF AcksBy
        <4>2. s \in IdsOf(H, r)
          BY <4>1 DEF Agreed, AcksTrue, AckTrue
        <4> QED
          BY <1>3, <4>2
      <3> QED
        BY <2>0, <2>1, <3>2, <3>3
    <2>2. CASE ~(p = m /\ n1.id = s)
      <3>1. PICK i \in 1 .. Len(H[p].nodes) :
                   /\ H[p].nodes[i].id = n1.id
                   /\ Member # {m} => H[p].nodes[i].acks = n1.acks
                   /\ H[p].nodes[i].id \in IdsOf(H, p)
                   /\ Recorded(hdr, H, p, H[p].nodes[i]) /\ LossAwaited(hdr, H, nt, p, H[p].nodes[i])
        BY <1>19, <1>21, <2>2
      <3> DEFINE n0 == H[p].nodes[i]
      <3>2. n0.id = n1.id /\ n0.id \in IdsOf(H, p) /\ n0.acks = n1.acks
        BY <2>0, <3>1
      <3>3. Recorded(hdr, H, p, n0) /\ LossAwaited(hdr, H, nt, p, n0)
        BY <3>1
      <3> HIDE DEF n0, n1
      <3>4. Anc(hdr, x, n0.id) /\ x \in O
        BY <1>3, <1>4, <3>2
      <3>5. ~L(p, x)
        BY <1>7, <3>4
      <3>6. CASE \E q \in Member : L(q, x)
        <4>1. PICK q \in Member \cap n0.acks :
                  /\ L(q, x)
                  /\ \A b \in AcksBy(nt, n0.id, q) : Shows(hdr, IdsOf(H, p), b.lineage, x)
          BY <3>3, <3>4, <3>5, <3>6 DEF LossAwaited, L
        <4> QED
          BY <1>7, <1>17, <3>2, <3>4, <4>1
      <3>7. CASE \A q \in Member : ~L(q, x)
        <4>1. r = m /\ x \notin IdsOf(H, m)
          BY <1>8, <1>9, <3>4, <3>7
        <4>2. m \in n0.acks
          BY <3>3, <3>4, <3>5, <4>1 DEF Recorded, L
        <4>3. AcksBy(nt, n0.id, m) = {}
          <5> SUFFICES ASSUME NEW b \in AcksBy(nt, n0.id, m) PROVE FALSE
            OBVIOUS
          <5>1. b \in nt /\ b.type = "ack" /\ ~b.ref /\ b.id = n0.id /\ b.from = m
            BY DEF AcksBy
          <5>2. n0.id \in IdsOf(H, m)
            BY <5>1 DEF Agreed, AcksTrue, AckTrue
          <5> QED
            BY <3>4, <4>1, <5>2, BackedFacts
        <4> QED
          BY <3>2, <4>1, <4>2, <4>3
      <3> QED
        BY <3>6, <3>7 DEF n1
    <2> QED
      BY <2>1, <2>2
  <1> QED
    BY <1>10, <1>11, <1>16, <1>18, <1>20, <1>21 DEF Agreed, OwnAwaited

----------------------------------------------------------------------------
(* The third inductive invariant: what acknowledgments tell *)

(* An acknowledgment m collected, with the array t: of a script it has        *)
(* recorded, to the author, or of a confirmed one of its own.                *)
ItemTrue(m, t, a) ==
    /\ a.id \in Script /\ a.id \in Ids(t)
    /\ ~a.ref => a.to = Author(a.id)
    /\ a.ref => /\ Author(a.id) = m
                /\ Member = {m} \/ \E i \in 1 .. Len(t) : t[i].id = a.id /\ Confirmed(t[i])

BoxTrue ==
    \A m \in Member : \A a \in box[m].must \cup box[m].can : ItemTrue(m, hist[m].nodes, a)

(* The most recent script a member knows of an author is no older than any   *)
(* it has recorded.                                                          *)
HeardAll ==
    \A m \in Member : \A id \in Ids(hist[m].nodes) \cap Script : Ord(id) <= recent[m][Author(id)]

AckInv == ShapeInv /\ Agreed(header, hist, net) /\ BoxTrue /\ HeardAll

(* What a step may not take back: what is final, what is confirmed, and what  *)
(* is executed unless it is rejected.                                        *)
FinalKept == \A x : Final(header, hist, x) => Final(header', hist', x)

DoneKept(t, u) ==
    /\ Ids(t) \subseteq Ids(u)
    /\ \A i \in 1 .. Len(t), j \in 1 .. Len(u) :
          t[i].id = u[j].id => /\ Confirmed(t[i]) => Confirmed(u[j])
                               /\ t[i].exe => u[j].exe \/ u[j].rej

AllKept == FinalKept /\ \A p \in Member : DoneKept(hist[p].nodes, hist'[p].nodes)

(* The second invariant gives the histories that the third is about.         *)
LEMMA InvBacked == ShapeInv => Backed(header, hist)
  BY ScriptType DEF ShapeInv, HistoriesGood, OwnRecorded, Backed, CheckedIn, IdsOf

(* The same after a step.                                                    *)
LEMMA InvBackedNext ==
    ASSUME ShapeInv' PROVE Backed(header', hist')
  BY ScriptType DEF ShapeInv, HistoriesGood, OwnRecorded, Backed, CheckedIn, IdsOf

(* Nothing changes in a history that stays.                                  *)
LEMMA SameDone == ASSUME NEW t, Tree(t) PROVE DoneKept(t, t)
  BY Places DEF Tree, Shaped, DoneKept

(* What a carried history has done it still has.                             *)
LEMMA CarriedDone == ASSUME NEW m, NEW t, NEW u, Carried(m, t, u) PROVE DoneKept(t, u)
  BY DEF Carried, DoneKept

(* The other members' histories stay.                                        *)
LEMMA OthersKept ==
    ASSUME ShapeInv, FinalKept, NEW m \in Member, \A p \in Member \ {m} : hist'[p] = hist[p],
           DoneKept(hist[m].nodes, hist'[m].nodes)
    PROVE  AllKept
  <1>1. \A p \in Member : DoneKept(hist[p].nodes, hist[p].nodes)
    BY InvBacked, BackedFacts, SameDone
  <1> QED
    BY <1>1 DEF AllKept

(* A collected acknowledgment stays right.                                   *)
LEMMA ItemGrows ==
    ASSUME NEW m, NEW t \in Seq(Node), NEW u \in Seq(Node), DoneKept(t, u), NEW a, ItemTrue(m, t, a)
    PROVE  ItemTrue(m, u, a)
  <1>1. \A i \in 1 .. Len(t) : \E j \in 1 .. Len(u) : t[i].id = u[j].id
    BY IdsAre DEF DoneKept
  <1> QED
    BY <1>1 DEF ItemTrue, DoneKept

(* The invariant holds at first.                                             *)
LEMMA InitAck == Init => AckInv
  <1> SUFFICES ASSUME Init PROVE AckInv
    OBVIOUS
  <1>1. ShapeInv
    BY InitShape
  <1>2. Backed(header, hist)
    BY <1>1, InvBacked
  <1>3. /\ \A m \in Member : hist[m] = InitialHistory /\ box[m] = EmptyBox
        /\ net = {} /\ \A s \in Script : header[s] = <<>>
    BY DEF Init
  <1>4. ASSUME NEW m \in Member
        PROVE  LET t == hist[m].nodes
               IN  /\ Len(t) = 1 /\ t[1].id = Root /\ ~t[1].rej /\ ~t[1].mis
                   /\ IdsOf(hist, m) = {Root}
    <2>1. hist[m].nodes = InitialHistory.nodes
      BY <1>3
    <2>2. InitialHistory.nodes = <<ScriptNode(Root, NoId, {}, TRUE)>>
      BY DEF InitialHistory
    <2>3. hist[m].nodes = <<ScriptNode(Root, NoId, {}, TRUE)>>
      BY <2>1, <2>2
    <2> QED
      BY <2>3, <1>2, BackedFacts DEF ScriptNode, IdsOf, Ids
  <1>5. \A x, S : ~Loses(header, S, x)
    BY <1>3 DEF Loses, Beats, CheckedIn
  <1>6. Author(Root) = 0 /\ \A m \in Member : m # 0
    BY MemberAssumption DEF Author, Root
  <1>7. OwnAwaited(header, hist, net)
    BY <1>4, <1>6 DEF OwnAwaited
  <1>8. AllTidy(hist)
    BY <1>4 DEF AllTidy, Tidy, ConfirmedUpTo, OwnPresent
  <1>9. AllConfirmedFinal(header, hist)
    BY <1>4, <1>5 DEF AllConfirmedFinal, ConfirmedFinal, Final
  <1>10. BoxTrue /\ HeardAll
    BY <1>3, <1>4, RootNotScript DEF BoxTrue, HeardAll, EmptyBox, IdsOf
  <1> QED
    BY <1>1, <1>3, <1>7, <1>8, <1>9, <1>10 DEF AckInv, Agreed, AcksTrue

----------------------------------------------------------------------------
(* Steps that change no history *)

(* Mailing true acknowledgments, and emptying boxes, keeps the invariant.    *)
LEMMA MailAck ==
    ASSUME AckInv, ShapeInv', UNCHANGED <<hist, recent, header>>,
           \A b \in net' : b \in net \/ b.type # "ack" \/ NewAck(hist, b),
           \A p \in Member : box'[p] = box[p] \/ box'[p] = EmptyBox
    PROVE  AckInv' /\ AllKept
  <1>1. Backed(header, hist) /\ Agreed(header, hist, net)
    BY InvBacked DEF AckInv
  <1>2. Agreed(header, hist, net')
    BY <1>1, MailAgreed
  <1>3. Agreed(header, hist, net)'
    BY <1>2
  <1>4. BoxTrue'
    BY DEF AckInv, BoxTrue, EmptyBox
  <1>5. HeardAll'
    BY DEF AckInv, HeardAll
  <1>6. AllKept
    BY <1>1, BackedFacts, SameDone DEF AllKept, FinalKept
  <1> QED
    BY <1>3, <1>4, <1>5, <1>6 DEF AckInv

(* Broadcasting a script, or crashing, keeps the invariant.                  *)
LEMMA BroadcastAck ==
    ASSUME AckInv, ShapeInv', NEW m \in Member, Broadcast(m) \/ Crash(m)
    PROVE  AckInv' /\ AllKept
  <1>1. UNCHANGED <<hist, recent, header>>
    BY DEF Broadcast, Crash
  <1>2. \A b \in net' : b \in net \/ b.type # "ack"
    BY DEF Broadcast, Crash
  <1>3. box \in [Member -> [must : SUBSET AckItem, can : SUBSET AckItem]]
    BY DEF AckInv, ShapeInv, IInv, TypeOK
  <1>4. \A p \in Member : box'[p] = box[p] \/ box'[p] = EmptyBox
    BY <1>3 DEF Broadcast, Crash
  <1> QED
    BY <1>1, <1>2, <1>4, MailAck

(* What is mailed to others are acknowledgments of recorded scripts.         *)
LEMMA SentAcks ==
    ASSUME AckInv, NEW m \in Member, SendAcknowledgments(m)
    PROVE  \A b \in net' : b \in net \/ (NewAck(hist, b) /\ b.from # b.to)
  <1> DEFINE side  == SideLineage(UnitLineage(hist[m]))
             must  == {a \in box[m].must : a.to # m}
             also  == {a \in box[m].can : \E b \in must : b.to = a.to}
             To(a) == IF a.to = Everyone THEN Member \ {m} ELSE {a.to}
             Letter(a, p) == [type |-> "ack", id |-> a.id, ref |-> a.ref, from |-> m, to |-> p,
                              lineage |-> side]
  <1>2. net' = net \cup UNION {{Letter(a, p) : p \in To(a)} : a \in must \cup also}
    BY DEF SendAcknowledgments
  <1>3. box' = [box EXCEPT ![m] = EmptyBox]
        /\ box \in [Member -> [must : SUBSET AckItem, can : SUBSET AckItem]]
    BY DEF SendAcknowledgments, AckInv, ShapeInv, IInv, TypeOK
  <1>5. ASSUME NEW a \in must \cup also, NEW p \in To(a) 
        PROVE  LET b == Letter(a, p) IN NewAck(hist, b) /\ b.from # b.to
    <2>1. a \in box[m].must \cup box[m].can /\ a.to # m
      OBVIOUS
    <2>2. ItemTrue(m, hist[m].nodes, a)
      BY <2>1 DEF AckInv, BoxTrue
    <2>3. a \in AckItem
      BY <1>3, <2>1
    <2>4. a.to \in Member \cup {Everyone}
      BY <2>3 DEF AckItem
    <2>5. Everyone \notin Member
      BY MemberAssumption DEF Everyone
    <2>6. a.id \in Script /\ a.id \in Ids(hist[m].nodes) /\ Author(a.id) \in Member
      BY <2>2, ScriptType DEF ItemTrue
    <2>7. p \in Member /\ p # m /\ (a.to # Everyone => p = a.to)
      BY <2>1, <2>4
    <2>8. ~a.ref => p = Author(a.id)
      BY <2>2, <2>5, <2>6, <2>7 DEF ItemTrue
    <2>9. a.ref => Author(a.id) = m /\ \E i \in 1 .. Len(hist[m].nodes) :
                hist[m].nodes[i].id = a.id /\ Confirmed(hist[m].nodes[i])
      BY <2>2, <2>7 DEF ItemTrue
    <2> HIDE DEF side, must, also, To
    <2>10. LET b == Letter(a, p)
           IN  b.id = a.id /\ b.from = m /\ b.to = p /\ b.lineage = side /\ b.ref = a.ref
      OBVIOUS
    <2> HIDE DEF Letter
    <2> QED
      BY <2>6, <2>7, <2>8, <2>9, <2>10 DEF NewAck, IdsOf, side
  <1> HIDE DEF side, must, also, To, Letter
  <1> QED
    BY <1>2, <1>5

(* Mailing what was collected keeps the invariant.                           *)
LEMMA SendAck ==
    ASSUME AckInv, ShapeInv', NEW m \in Member, SendAcknowledgments(m)
    PROVE  AckInv' /\ AllKept
  <1>1. UNCHANGED <<hist, recent, header>>
    BY DEF SendAcknowledgments
  <1>2. box' = [box EXCEPT ![m] = EmptyBox]
        /\ box \in [Member -> [must : SUBSET AckItem, can : SUBSET AckItem]]
    BY DEF SendAcknowledgments, AckInv, ShapeInv, IInv, TypeOK
  <1>3. \A p \in Member : box'[p] = box[p] \/ box'[p] = EmptyBox
    BY <1>2
  <1> QED
    BY <1>1, <1>3, SentAcks, MailAck

(* Asking for a script keeps the invariant.                                  *)
LEMMA RequestAck ==
    ASSUME AckInv, ShapeInv', NEW m \in Member, RequestMissing(m)
    PROVE  AckInv' /\ AllKept
  <1>1. PICK p \in Member, id \in MissingScripts(m) : RequestResend(m, id, p)
    BY DEF RequestMissing
  <1>2. UNCHANGED <<hist, recent, header, box>>
    BY <1>1 DEF RequestResend
  <1>3. \A b \in net' : b \in net \/ b.type # "ack"
    BY <1>1 DEF RequestResend
  <1> QED
    BY <1>2, <1>3, MailAck

(* Answering with a script keeps the invariant.                              *)
LEMMA AnswerAck ==
    ASSUME AckInv, ShapeInv', NEW m \in Member, AnswerRequests(m)
    PROVE  AckInv' /\ AllKept
  <1>1. PICK msg \in net : AnswerResend(m, msg)
    BY DEF AnswerRequests
  <1>2. UNCHANGED <<hist, recent, header, box>>
    BY <1>1 DEF AnswerResend
  <1>3. TypeOK
    BY DEF AckInv, ShapeInv, IInv
  <1>4. PICK left \in Remaining(msg) :
            \A b \in net' : b \in left \/ b.type = "script"
    BY <1>1 DEF AnswerResend
  <1>5. left \subseteq net
    BY <1>3, RemainingType
  <1>6. \A b \in net' : b \in net \/ b.type # "ack"
    BY <1>4, <1>5
  <1> QED
    BY <1>2, <1>6, MailAck

----------------------------------------------------------------------------
(* Steps that change a history *)

(* A step of m in which no acknowledgment arrives keeps what they tell.      *)
LEMMA CarriedAck ==
    ASSUME AckInv, ShapeInv', NEW m \in Member, header' = header, net' \subseteq net,
           NEW h1, hist' = [hist EXCEPT ![m] = h1],
           Carried(m, hist[m].nodes, h1.nodes), Tidy(m, h1.nodes)
    PROVE  Agreed(header, hist, net)' /\ AllKept
  <1>1. Backed(header, hist) /\ Agreed(header, hist, net) /\ ShapeInv
    BY InvBacked DEF AckInv
  <1>2. Backed(header, hist')
    BY InvBackedNext
  <1>3. hist'[m] = h1 /\ \A p \in Member \ {m} : hist'[p] = hist[p]
    BY <1>1 DEF ShapeInv, IInv, TypeOK
  <1>4. Agreed(header, hist', net') /\ \A x : Final(header, hist, x) => Final(header, hist', x)
    BY <1>1, <1>2, <1>3, CarriedAgreed
  <1>5. Agreed(header, hist, net)' /\ FinalKept
    BY <1>4 DEF FinalKept
  <1>6. DoneKept(hist[m].nodes, hist'[m].nodes)
    BY <1>3, CarriedDone
  <1> QED
    BY <1>1, <1>3, <1>5, <1>6, OthersKept

(* Collected acknowledgments are right if the new ones are.                  *)
LEMMA BoxKept ==
    ASSUME AckInv, ShapeInv', AllKept,
           \A p \in Member : \A a \in box'[p].must \cup box'[p].can :
              a \in box[p].must \cup box[p].can \/ ItemTrue(p, hist'[p].nodes, a)
    PROVE  BoxTrue'
  <1> SUFFICES ASSUME NEW p \in Member, NEW a \in box[p].must \cup box[p].can
               PROVE  ItemTrue(p, hist'[p].nodes, a)
    BY DEF BoxTrue
  <1>1. ItemTrue(p, hist[p].nodes, a)
    BY DEF AckInv, BoxTrue
  <1>2. hist[p].nodes \in Seq(Node) /\ hist'[p].nodes \in Seq(Node)
    BY DEF AckInv, ShapeInv, IInv, TypeOK, History
  <1>3. DoneKept(hist[p].nodes, hist'[p].nodes)
    BY DEF AllKept
  <1> QED
    BY <1>1, <1>2, <1>3, ItemGrows

(* Executing a script, or marking it missing, keeps the invariant.           *)
LEMMA ExecutionAck ==
    ASSUME AckInv, ShapeInv', NEW m \in Member, ExecuteNext(m) \/ MarkMissing(m)
    PROVE  AckInv' /\ AllKept
  <1>1. ShapeInv /\ Tidy(m, hist[m].nodes)
    BY DEF AckInv, Agreed, AllTidy
  <1>2. Good(header, m, hist[m]) /\ Sound(hist[m]) /\ next[m] = NextOf(hist[m].nodes)
    BY <1>1, NextKnown
  <1>3. next[m] # NoId
    BY CoopAssumption, NoIdType DEF ExecuteNext, MarkMissing, Gid
  <1>4. UNCHANGED <<recent, header, net, box>>
    BY DEF ExecuteNext, MarkMissing
  <1>5. \E h1 : /\ hist' = [hist EXCEPT ![m] = h1] /\ Ids(h1.nodes) = Ids(hist[m].nodes)
                /\ Carried(m, hist[m].nodes, h1.nodes) /\ Tidy(m, h1.nodes)
    <2>1. CASE ExecuteNext(m)
      <3> DEFINE h1 == ExecuteScript(hist[m], next[m])
      <3>1. hist' = [hist EXCEPT ![m] = h1]
        BY <2>1 DEF ExecuteNext
      <3>2. Carried(m, hist[m].nodes, h1.nodes) /\ Tidy(m, h1.nodes)
        BY <1>1, <1>2, <1>3, ExecuteScriptTidy
      <3>3. Ids(h1.nodes) = Ids(hist[m].nodes)
        BY <1>2, <1>3, ExecuteScriptGood
      <3> QED
        BY <3>1, <3>2, <3>3
    <2>2. CASE MarkMissing(m)
      <3> DEFINE h1 == SetMissing(hist[m], next[m])
      <3>1. hist' = [hist EXCEPT ![m] = h1]
        BY <2>2 DEF MarkMissing
      <3>2. Carried(m, hist[m].nodes, h1.nodes) /\ Tidy(m, h1.nodes)
        BY <1>1, <1>2, <1>3, SetMissingTidy
      <3>3. Ids(h1.nodes) = Ids(hist[m].nodes)
        BY <1>2, <1>3, SetMissingGood
      <3> QED
        BY <3>1, <3>2, <3>3
    <2> QED
      BY <2>1, <2>2
  <1>6. PICK h1 : /\ hist' = [hist EXCEPT ![m] = h1] /\ Ids(h1.nodes) = Ids(hist[m].nodes)
                  /\ Carried(m, hist[m].nodes, h1.nodes) /\ Tidy(m, h1.nodes)
    BY <1>5
  <1>7. Agreed(header, hist, net)' /\ AllKept
    BY <1>4, <1>6, CarriedAck
  <1>8. BoxTrue'
    BY <1>4, <1>7, BoxKept
  <1>9. HeardAll'
    <2>1. \A p \in Member : Ids(hist'[p].nodes) = Ids(hist[p].nodes)
      BY <1>1, <1>6 DEF ShapeInv, IInv, TypeOK
    <2> QED
      BY <1>4, <2>1 DEF AckInv, HeardAll
  <1> QED
    BY <1>7, <1>8, <1>9 DEF AckInv

----------------------------------------------------------------------------
(* Reading a lineage, and recording a script *)

(* What a lineage tells is carried into the history, tidily.                 *)
LEMMA ProcessTidy ==
    ASSUME OneBranch(header), NEW m \in Member, Good(header, m, hist[m]), Tidy(m, hist[m].nodes),
           NEW from, NEW lin \in Seq(Gid), Linked(header, lin)
    PROVE  LET l == ProcessLineage(m, from, lin)
           IN  /\ Tidy(m, l.hist.nodes) /\ Carried(m, hist[m].nodes, l.hist.nodes)
               /\ Ids(l.hist.nodes) = Ids(hist[m].nodes) \cup l.new
  <1> DEFINE l == ProcessLineage(m, from, lin)
             t == hist[m].nodes
  <1>1. CASE lin # <<>> /\ Connects(m, lin)
    <2> DEFINE L   == LastMatched(t, lin)
               new == GoodPart(m, UnmatchedIds(t, lin))
    <2>1. FirstKnown(t, lin) # 0
      BY <1>1 DEF Connects
    <2>2. l = ConnectedLineage(m, from, lin)
      BY <1>1 DEF ProcessLineage
    <2> HIDE DEF l
    <2>3. /\ lin[L] \in Ids(t) /\ new \in Seq(Gid) /\ Unheard(header, m, t, lin[L], new)
          /\ l.hist = InsertMissing(hist[m], lin[L], new) /\ l.new = Elements(new)
      BY <2>1, <2>2, ConnectedNews
    <2> HIDE DEF L, new
    <2>4. Tidy(m, l.hist.nodes) /\ Carried(m, t, l.hist.nodes)
      BY <2>3, InsertMissingTidy
    <2>5. Gains(t, l.hist.nodes, new)
      BY <2>3, InsertMissingGood
    <2> QED
      BY <2>3, <2>4, <2>5 DEF Gains, l
  <1>2. CASE ~(lin # <<>> /\ Connects(m, lin))
    <2>1. l.hist = hist[m] /\ l.new = {}
      BY <1>2 DEF ProcessLineage, LineageWithoutNews
    <2>2. Carried(m, t, t)
      BY CarriedNothing
    <2> HIDE DEF l
    <2>3. Ids(l.hist.nodes) = Ids(t) \cup l.new
      BY <2>1
    <2> QED
      BY <2>1, <2>2, <2>3 DEF l
  <1> QED
    BY <1>1, <1>2

(* Up to its last known script all scripts of a lineage are known.           *)
LEMMA KnownBefore ==
    ASSUME NEW m \in Member, Good(header, m, hist[m]), NEW lin \in Seq(Gid), Linked(header, lin),
           FirstKnown(hist[m].nodes, lin) # 0
    PROVE  \A j \in 1 .. LastMatched(hist[m].nodes, lin) : lin[j] \in Ids(hist[m].nodes)
  <1> DEFINE t == hist[m].nodes
             L == LastMatched(t, lin)
             B == {j \in 1 .. L : lin[j] \notin Ids(t)}
             b == Greatest(B, 0)
  <1>1. Tree(t) /\ Known(header, t)
    BY DEF Good, Sound
  <1>2. Len(lin) \in Nat /\ L \in 1 .. Len(lin) /\ lin[L] \in Ids(t)
    BY <1>1, Matched
  <1> HIDE DEF t, L
  <1>3. ASSUME B # {} PROVE FALSE
    <2>1. L \in Nat /\ B \in SUBSET (0 .. L)
      BY <1>2
    <2>2. b \in B /\ \A j \in B : j <= b
      BY <1>3, <2>1, GreatestIs
    <2> HIDE DEF b
    <2>3. b \in 1 .. L /\ b # L
      BY <1>2, <2>2
    <2>4. b + 1 \in 2 .. L /\ b + 1 \in 2 .. Len(lin)
      BY <1>2, <2>3
    <2>5. ~(b + 1 <= b)
      BY <2>1, <2>3
    <2>6. lin[b + 1] \in Ids(t)
      BY <2>2, <2>4, <2>5
    <2>7. CheckedIn(header, lin[b + 1]) /\ lin[(b + 1) - 1] = Last(header[lin[b + 1]])
      BY <2>4 DEF Linked
    <2>8. (b + 1) - 1 = b
      BY <2>1, <2>3
    <2>9. lin[b] \in Ids(t)
      BY <1>1, <2>6, <2>7, <2>8, PredecessorPresent
    <2> QED
      BY <2>2, <2>9
  <1> QED
    BY <1>3 DEF t, L

(***************************************************************************)
(* If the first script of a lineage is recorded when the lineage has been   *)
(* read, so are all its scripts.                                            *)
(***************************************************************************)
LEMMA ProcessKnows ==
    ASSUME AckInv, NEW m \in Member, NEW from, NEW lin \in Seq(Gid), Linked(header, lin),
           lin # <<>>, lin[1] \in Ids(ProcessLineage(m, from, lin).hist.nodes)
    PROVE  Elements(lin) \subseteq Ids(ProcessLineage(m, from, lin).hist.nodes)
  <1> DEFINE l   == ProcessLineage(m, from, lin)
             t   == hist[m].nodes
             L   == LastMatched(t, lin)
             new == GoodPart(m, UnmatchedIds(t, lin))
             F   == {k \in DOMAIN lin : lin[k] \in Ids(t)}
  <1>1. ShapeInv /\ OneBranch(header) /\ Good(header, m, hist[m]) /\ Tidy(m, t)
    BY DEF AckInv, ShapeInv, HistoriesGood, Agreed, AllTidy
  <1>2. Ids(l.hist.nodes) = Ids(t) \cup l.new
    BY <1>1, ProcessTidy
  <1>3. Len(lin) \in Nat /\ Len(lin) > 0 /\ DOMAIN lin = 1 .. Len(lin)
        /\ \A k \in 1 .. Len(lin) : lin[k] \in Gid
    BY ArrayType, EmptySeq
  <1>4. FirstKnown(t, lin) # 0 => \A j \in 1 .. L : lin[j] \in Ids(t)
    BY <1>1, KnownBefore
  <1>5. FirstKnown(t, lin) # 0 => L \in 1 .. Len(lin)
    BY <1>1, ConnectedNews
  <1>6. lin[1] \in Ids(t)
    <2>1. CASE FirstKnown(t, lin) # 0
      <3>1. 1 \in 1 .. L
        BY <1>3, <1>5, <2>1
      <3> QED
        BY <1>4, <2>1, <3>1
    <2>2. CASE FirstKnown(t, lin) = 0
      <3>1. l.new = {}
        BY <2>2 DEF ProcessLineage, Connects, LineageWithoutNews
      <3> QED
        BY <1>2, <3>1
    <2> QED
      BY <2>1, <2>2
  <1>7. ASSUME Author(lin[1]) \in Member
        PROVE  Ord(lin[1]) <= recent[m][Author(lin[1])] /\ Ord(lin[1]) \in Nat
               /\ recent[m][Author(lin[1])] \in Nat
    <2>1. lin[1] \in Gid /\ lin[1] # Root
      BY <1>3, <1>7, MemberAssumption DEF Author, Root
    <2>2. lin[1] \in Script
      BY <2>1 DEF Gid
    <2>3. Ord(lin[1]) \in Nat
      BY <2>2, ScriptType, MemberAssumption
    <2>4. recent[m][Author(lin[1])] \in Nat
      BY <1>1, <1>7 DEF ShapeInv, IInv, TypeOK
    <2>5. Ord(lin[1]) <= recent[m][Author(lin[1])]
      BY <1>6, <2>2 DEF AckInv, HeardAll
    <2> QED
      BY <2>3, <2>4, <2>5
  <1>8. ~FromFuture(m, lin[1])
    BY <1>7 DEF FromFuture
  <1>9. FirstKnown(t, lin) # 0
    <2>1. 1 \in F /\ F \in SUBSET Nat
      BY <1>3, <1>6
    <2>2. Least(F, 0) \in F
      BY <2>1, LeastIs
    <2> QED
      BY <1>3, <2>2 DEF FirstKnown
  <1>10. l = ConnectedLineage(m, from, lin)
    BY <1>8, <1>9 DEF ProcessLineage, Connects
  <1>11. l.status = "connected"
    BY <1>1, <1>9, <1>10, ConnectedFits
  <1> HIDE DEF l
  <1>12. /\ l.new = Elements(new)
         /\ l.status = "connected" => \A j \in L + 1 .. Len(lin) : lin[j] \in Elements(new)
    BY <1>1, <1>9, <1>10, ConnectedNews
  <1> HIDE DEF L, new, F, t
  <1>13. ASSUME NEW j \in 1 .. Len(lin) PROVE lin[j] \in Ids(l.hist.nodes)
    <2>1. j \in 1 .. L \/ j \in L + 1 .. Len(lin)
      BY <1>3, <1>5, <1>9
    <2> QED
      BY <1>2, <1>4, <1>9, <1>11, <1>12, <2>1
  <1> QED
    BY <1>13 DEF Elements, l

(* Recording the script itself is tidy.                                      *)
LEMMA WithScriptTidy ==
    ASSUME TypeOK, OneBranch(header), NEW m \in Member, NEW h, Good(header, m, h), Tidy(m, h.nodes),
           NEW id \in Script, header[id] # <<>>, Last(header[id]) \in Ids(h.nodes),
           Author(id) = m => id \in Ids(h.nodes)
    PROVE  LET u == WithScript(h, id).nodes
           IN  /\ Tidy(m, u) /\ Carried(m, h.nodes, u)
               /\ Ids(u) = Ids(h.nodes) \cup {id}
  <1> DEFINE t    == h.nodes
             i    == FindIdx(t, id)
             acks == IF i # 0 /\ Confirmed(t[i]) THEN {} ELSE {Author(id)}
             n    == ScriptNode(id, LastOf(header[id]), acks, FALSE)
  <1>1. h \in History /\ Tree(t) /\ t \in Seq(Node) /\ Sound(h) /\ Known(header, t)
    BY DEF Good, Sound, Tree
  <1>2. id \in Gid /\ Author(id) \in Member /\ CheckedIn(header, id)
    BY ScriptType DEF CheckedIn
  <1>3. header[id] \in Seq(Gid)
    BY DEF TypeOK, Lineage
  <1>4. acks \in SUBSET User /\ (acks = {} <=> i # 0 /\ Confirmed(t[i]))
    BY <1>2 DEF User
  <1> HIDE DEF acks
  <1>5. n \in Node
    BY <1>2, <1>3, <1>4, LastOfType, ScriptNodeType
  <1>6. /\ n.id = id /\ n.pred = Last(header[id]) /\ ~n.exe /\ ~n.rej /\ ~n.bp
        /\ Confirmed(n) <=> acks = {}
    BY LastIs DEF ScriptNode, Confirmed
  <1>7. WithScript(h, id) = IF i = 0 THEN InsertNewNode(h, n)
                            ELSE IF t[i].mis THEN SubstituteNode(h, n) ELSE h
    BY DEF WithScript, acks
  <1> HIDE DEF n
  <1>8. i \in 0 .. Len(t) /\ (i # 0 => t[i].id = id) /\ (i = 0 <=> id \notin Ids(t))
    BY <1>1, FindIdxType
  <1>9. CASE i = 0
    <2>1. /\ n.id \notin Ids(t) /\ Author(n.id) # m /\ n.pred \in Ids(t) /\ ~Confirmed(n)
          /\ CheckedIn(header, n.id) /\ Last(header[n.id]) = n.pred
      BY <1>2, <1>4, <1>6, <1>8, <1>9
    <2> DEFINE h1 == InsertNewNode(h, n)
    <2>2. Tidy(m, h1.nodes) /\ Carried(m, t, h1.nodes)
      BY <1>5, <1>6, <2>1, ReceivedTidy
    <2>3. Ids(h1.nodes) = Ids(t) \cup {n.id}
      BY <1>5, <1>6, <2>1, ReceivedGood
    <2> HIDE DEF h1
    <2>4. WithScript(h, id) = h1
      BY <1>7, <1>9 DEF h1
    <2> QED
      BY <1>6, <2>2, <2>3, <2>4
  <1>10. CASE i # 0 /\ t[i].mis
    <2>1. i \in 1 .. Len(t) /\ t[i].id = n.id /\ Len(t) \in Nat
      BY <1>1, <1>6, <1>8, <1>10, NodesType
    <2>2. i # 1
      BY <1>1, <1>10 DEF Sound, RootSettled
    <2>3. t[i].pred = n.pred
      BY <1>1, <1>6, <2>1, <2>2 DEF Known
    <2>4. Confirmed(n) <=> Confirmed(t[i])
      BY <1>4, <1>6, <1>10
    <2> DEFINE h1 == SubstituteNode(h, n)
    <2>5. Tidy(m, h1.nodes) /\ Carried(m, t, h1.nodes)
      BY <1>1, <1>5, <1>6, <1>10, <2>1, <2>3, <2>4, SubstituteTidy
    <2>6. Ids(h1.nodes) = Ids(t)
      BY <1>5, <1>6, <1>10, <2>1, SubstituteGood
    <2> HIDE DEF h1
    <2>7. WithScript(h, id) = h1
      BY <1>7, <1>10 DEF h1
    <2>8. id \in Ids(t)
      BY <1>8, <1>10
    <2>9. Ids(h1.nodes) = Ids(t) \cup {id}
      BY <2>6, <2>8
    <2> QED
      BY <2>5, <2>7, <2>9
  <1>11. CASE i # 0 /\ ~t[i].mis
    <2>1. WithScript(h, id) = h
      BY <1>7, <1>11
    <2>2. Carried(m, t, t)
      BY CarriedNothing
    <2>3. Ids(t) = Ids(t) \cup {id}
      BY <1>8, <1>11
    <2> QED
      BY <2>1, <2>2, <2>3
  <1> QED
    BY <1>9, <1>10, <1>11

(* What has been heard of is not from the future any more.                   *)
LEMMA HeardCovers ==
    ASSUME TypeOK, NEW m \in Member, NEW ids \in SUBSET Gid, NEW id \in ids \cap Script
    PROVE  Ord(id) <= Heard(m, ids)[Author(id)]
  <1> DEFINE a == Author(id)
             S == {recent[m][a]} \cup {Ord(x) : x \in {y \in ids : Author(y) = a}}
  <1>0. a \in Member
    BY ScriptType
  <1> HIDE DEF a
  <1>1. recent[m][a] \in 0 .. Limit[a] /\ Limit[a] \in Nat
    BY <1>0, MemberAssumption DEF TypeOK
  <1>2. ASSUME NEW x \in ids, Author(x) = a PROVE Ord(x) \in 0 .. Limit[a]
    <2>1. Ord(x) \in 1 .. Limit[a]
      BY <1>0, <1>2, GidType DEF Ord
    <2> QED
      BY <1>1, <2>1
  <1>3. S \in SUBSET (0 .. Limit[a])
    BY <1>1, <1>2
  <1>4. Ord(id) \in S
    BY DEF a
  <1>5. \A j \in S : j <= Greatest(S, 0)
    BY <1>1, <1>3, <1>4, GreatestIs
  <1>6. Heard(m, ids)[a] = Greatest(S, 0)
    BY <1>0 DEF Heard
  <1> HIDE DEF S
  <1> QED
    BY <1>4, <1>5, <1>6 DEF a

(***************************************************************************)
(* Unpacking hears of every script it records.                              *)
(***************************************************************************)
LEMMA HeardKept ==
    ASSUME AckInv, ShapeInv', NEW m \in Member, NEW l \in LineageResult, NEW h1, NEW sent,
           NEW heard \in SUBSET Gid, NEW settled, NEW held,
           Unpack(m, l, h1, sent, heard, settled, held),
           Ids(h1.nodes) \subseteq Ids(hist[m].nodes) \cup l.new \cup heard
    PROVE  HeardAll'
  <1> DEFINE ids == heard \cup l.new
  <1>1. TypeOK /\ TypeOK'
    BY DEF AckInv, ShapeInv, IInv
  <1>2. ids \in SUBSET Gid
    BY DEF LineageResult
  <1>3. /\ hist'[m] = h1 /\ \A p \in Member : p # m => hist'[p] = hist[p]
        /\ recent'[m] = Heard(m, ids) /\ \A p \in Member : p # m => recent'[p] = recent[p]
    BY <1>1 DEF Unpack, TypeOK
  <1> HIDE DEF ids
  <1> SUFFICES ASSUME NEW p \in Member, NEW id \in Ids(hist'[p].nodes) \cap Script
               PROVE  Ord(id) <= recent'[p][Author(id)]
    BY DEF HeardAll
  <1>4. CASE p # m
    BY <1>3, <1>4 DEF AckInv, HeardAll
  <1>5. CASE p = m /\ id \in ids
    BY <1>1, <1>2, <1>3, <1>5, HeardCovers
  <1>6. CASE p = m /\ id \notin ids
    <2>1. id \in Ids(hist[m].nodes)
      BY <1>3, <1>6 DEF ids
    <2>2. Author(id) \in Member /\ Ord(id) \in Nat
      BY ScriptType, MemberAssumption
    <2>3. Ord(id) <= recent[m][Author(id)]
      BY <2>1 DEF AckInv, HeardAll
    <2>4. recent[m][Author(id)] <= Heard(m, ids)[Author(id)]
      BY <1>1, <1>2, <2>2, HeardGrows
    <2>5. recent[m][Author(id)] \in Nat /\ recent'[m][Author(id)] \in Nat
      BY <1>1, <2>2 DEF TypeOK
    <2>6. recent'[m][Author(id)] = Heard(m, ids)[Author(id)]
      BY <1>3
    <2>7. Ord(id) <= recent'[m][Author(id)]
      BY <2>2, <2>3, <2>4, <2>5, <2>6
    <2> QED
      BY <1>6, <2>7
  <1> QED
    BY <1>4, <1>5, <1>6

----------------------------------------------------------------------------
(* What unpacking collects *)

(* The acknowledgments that a lineage makes the recipient repeat are right.  *)
LEMMA LineageItems ==
    ASSUME ShapeInv, NEW m \in Member, NEW from, NEW lin \in Seq(Gid), Linked(header, lin)
    PROVE  LET l == ProcessLineage(m, from, lin)
           IN  \A a \in l.refs \cup l.acks : ItemTrue(m, hist[m].nodes, a)
  <1> DEFINE l == ProcessLineage(m, from, lin)
             t == hist[m].nodes
             k == FirstKnown(t, lin)
             L == LastMatched(t, lin)
             M == {i \in k .. Len(lin) : \A j \in k + 1 .. i :
                                            FindIdx(t, lin[j]) > FindIdx(t, lin[j - 1])}
  <1>1. Good(header, m, hist[m]) /\ Tree(t) /\ t \in Seq(Node)
    BY DEF ShapeInv, HistoriesGood, Good, Sound, Tree
  <1>2. Len(lin) \in Nat /\ DOMAIN lin = 1 .. Len(lin) /\ \A j \in 1 .. Len(lin) : lin[j] \in Gid
    BY ArrayType
  <1>3. CASE ~(lin # <<>> /\ Connects(m, lin))
    <2>1. l.refs = {} /\ l.acks = {}
      BY <1>3 DEF ProcessLineage, LineageWithoutNews
    <2> QED
      BY <2>1
  <1>4. CASE lin # <<>> /\ Connects(m, lin)
    <2>1. k # 0
      BY <1>4 DEF Connects
    <2>2. l = ConnectedLineage(m, from, lin)
      BY <1>4 DEF ProcessLineage
    <2>3. k \in 0 .. Len(lin) /\ L \in 0 .. Len(lin)
      BY <1>1, LastMatchedType
    <2>4. k \in 1 .. Len(lin)
      BY <1>2, <2>1, <2>3
    <2>5. L \in M
      <3>1. M \in SUBSET (0 .. Len(lin)) /\ k \in M
        BY <1>2, <2>4
      <3>2. Greatest(M, 0) \in M
        BY <1>2, <3>1, GreatestIs
      <3> QED
        BY <3>2 DEF LastMatched
    <2>6. ASSUME NEW j \in k + 1 .. L
          PROVE  lin[j] \in Script /\ lin[j] \in Ids(t)
      <3>1. j \in 2 .. Len(lin) /\ j - 1 \in 1 .. Len(lin)
        BY <1>2, <2>3, <2>4
      <3>2. lin[j] \in Script
        BY <3>1 DEF Linked, CheckedIn
      <3>3. FindIdx(t, lin[j]) > FindIdx(t, lin[j - 1])
        BY <2>5
      <3>4. /\ FindIdx(t, lin[j]) \in 0 .. Len(t) /\ FindIdx(t, lin[j - 1]) \in 0 .. Len(t)
            /\ FindIdx(t, lin[j]) = 0 <=> lin[j] \notin Ids(t)
        BY <1>1, FindIdxType
      <3>5. FindIdx(t, lin[j]) # 0
        BY <3>3, <3>4
      <3> QED
        BY <3>2, <3>4, <3>5
    <2>7. \A x \in MatchedIds(t, lin) : x \in Script /\ x \in Ids(t)
      BY <2>6 DEF MatchedIds
    <2>8. \A x \in MatchedIds(t, lin) :
              FindIdx(t, x) \in 1 .. Len(t) /\ t[FindIdx(t, x)].id = x
      <3> SUFFICES ASSUME NEW x \in MatchedIds(t, lin)
                   PROVE  FindIdx(t, x) \in 1 .. Len(t) /\ t[FindIdx(t, x)].id = x
        OBVIOUS
      <3>1. /\ FindIdx(t, x) \in 0 .. Len(t)
            /\ FindIdx(t, x) # 0 => t[FindIdx(t, x)].id = x
            /\ FindIdx(t, x) = 0 <=> x \notin Ids(t)
        BY <1>1, FindIdxType
      <3>2. Len(t) \in Nat
        BY <1>1, NodesType
      <3> QED
        BY <2>7, <3>1, <3>2
    <2> DEFINE R == {[to |-> from, id |-> id, ref |-> TRUE] :
                        id \in {x \in MatchedIds(t, lin) :
                                   Author(x) = m /\ Confirmed(FindNode(t, x))}}
               A == {[to |-> Author(id), id |-> id, ref |-> FALSE] :
                        id \in {x \in MatchedIds(t, lin) :
                                   Author(x) # m /\ ~FindNode(t, x).mis}}
    <2>9. l.refs = R /\ l.acks = A
      BY <2>2 DEF ConnectedLineage
    <2> HIDE DEF l, k, L, M
    <2>10. ASSUME NEW a \in R PROVE ItemTrue(m, t, a)
      <3>1. PICK x \in MatchedIds(t, lin) : /\ a = [to |-> from, id |-> x, ref |-> TRUE]
                                            /\ Author(x) = m /\ Confirmed(FindNode(t, x))
        OBVIOUS
      <3>2. a.id = x /\ a.ref
        BY <3>1
      <3>3. \E i \in 1 .. Len(t) : t[i].id = x /\ Confirmed(t[i])
        BY <2>8, <3>1 DEF FindNode
      <3> QED
        BY <2>7, <3>1, <3>2, <3>3 DEF ItemTrue
    <2>11. ASSUME NEW a \in A PROVE ItemTrue(m, t, a)
      <3>1. PICK x \in MatchedIds(t, lin) : a = [to |-> Author(x), id |-> x, ref |-> FALSE]
        OBVIOUS
      <3>2. a.id = x /\ ~a.ref /\ a.to = Author(x)
        BY <3>1
      <3> QED
        BY <2>7, <3>2 DEF ItemTrue
    <2> HIDE DEF R, A
    <2>12. \A a \in l.refs \cup l.acks : ItemTrue(m, t, a)
      BY <2>9, <2>10, <2>11
    <2> QED
      BY <2>12 DEF l
  <1> QED
    BY <1>3, <1>4

(* Only recorded scripts are acknowledged.                                   *)
LEMMA AcknowledgedRecorded ==
    ASSUME NEW m, NEW h1, Good(header, m, h1), NEW id \in Script, id \in Ids(h1.nodes), NEW h0,
           NEW x \in ToAcknowledge(h0, h1, id)
    PROVE  x \in Script /\ x \in Ids(h1.nodes)
  <1> DEFINE t  == h1.nodes
             i1 == FindIdx(t, id)
  <1>1. Tree(t) /\ t \in Seq(Node) /\ Known(header, t) /\ Shaped(t)
    BY DEF Good, Sound, Tree
  <1>2. Len(t) \in Nat /\ t[1].id = Root /\ \A j \in 1 .. Len(t) : t[j].id \in Ids(t)
    BY <1>1, Places, IdsGid DEF Shaped
  <1>3. i1 \in 0 .. Len(t) /\ i1 # 0 /\ t[i1].id = id
    BY <1>1, FindIdxType
  <1>4. i1 # 1
    BY <1>2, <1>3, RootNotScript
  <1>5. x = id \/ \E j \in AckableFrom(t, i1) : x = t[j].id
    BY DEF ToAcknowledge
  <1>6. ASSUME NEW j \in AckableFrom(t, i1) PROVE t[j].id \in Script /\ t[j].id \in Ids(t)
    <2>1. SubtreeEnd(t, i1) \in i1 + 1 .. Len(t) + 1
      BY <1>1, <1>3, SubtreeEndType
    <2>2. j \in i1 .. SubtreeEnd(t, i1) - 1
      BY DEF AckableFrom, Subtree
    <2> HIDE DEF i1
    <2>3. j \in 2 .. Len(t)
      BY <1>2, <1>3, <1>4, <2>1, <2>2
    <2> QED
      BY <1>1, <1>2, <2>3 DEF Known, CheckedIn
  <1> QED
    BY <1>5, <1>6

----------------------------------------------------------------------------
(* Steps that read mail *)

(* Unpacking keeps the invariant when nothing that acknowledgments tell is   *)
(* lost and the collected ones are right.                                   *)
LEMMA UnpackAckInv ==
    ASSUME AckInv, ShapeInv', AllKept, Agreed(header, hist, net)',
           NEW m \in Member, NEW l \in LineageResult, NEW h1, NEW sent,
           NEW heard \in SUBSET Gid, NEW settled, NEW held,
           Unpack(m, l, h1, sent, heard, settled, held),
           Ids(h1.nodes) \subseteq Ids(hist[m].nodes) \cup l.new \cup heard,
           \A a \in l.refs \cup l.acks : ItemTrue(m, hist[m].nodes, a),
           \A a \in sent : ItemTrue(m, h1.nodes, a)
    PROVE  AckInv'
  <1>1. HeardAll'
    BY HeardKept
  <1>2. TypeOK
    BY DEF AckInv, ShapeInv, IInv
  <1>3. hist'[m] = h1
    BY <1>2 DEF Unpack, TypeOK
  <1>4. \A a \in l.refs \cup l.acks : ItemTrue(m, h1.nodes, a)
    <2>1. hist[m].nodes \in Seq(Node) /\ hist'[m].nodes \in Seq(Node)
      BY DEF AckInv, ShapeInv, IInv, TypeOK, History
    <2>2. DoneKept(hist[m].nodes, hist'[m].nodes)
      BY DEF AllKept
    <2> QED
      BY <1>3, <2>1, <2>2, ItemGrows
  <1> DEFINE must == box[m].must \cup l.refs \cup sent
             new  == [must |-> must, can |-> box[m].can \cup (l.acks \ must)]
  <1>5. box' = [box EXCEPT ![m] = new]
    BY DEF Unpack
  <1>6. box'[m] = new /\ \A p \in Member : p # m => box'[p] = box[p]
    BY <1>2, <1>5 DEF TypeOK
  <1>7. \A a \in new.must \cup new.can :
            a \in box[m].must \cup box[m].can \/ a \in l.refs \cup l.acks \/ a \in sent
    OBVIOUS
  <1> HIDE DEF must, new
  <1>8. ASSUME NEW p \in Member, NEW a \in box'[p].must \cup box'[p].can
        PROVE  a \in box[p].must \cup box[p].can \/ ItemTrue(p, hist'[p].nodes, a)
    <2>1. CASE p # m
      BY <1>6, <1>8, <2>1
    <2>2. CASE p = m
      BY <1>3, <1>4, <1>6, <1>7, <1>8, <2>2
    <2> QED
      BY <2>1, <2>2
  <1>9. BoxTrue'
    BY <1>8, BoxKept
  <1> QED
    BY <1>1, <1>9 DEF AckInv

(* Unpacking a script keeps the invariant.                                   *)
LEMMA UnpackScriptAck ==
    ASSUME AckInv, ShapeInv', NEW m \in Member, NEW id \in Script, UnpackScript(m, id)
    PROVE  AckInv' /\ AllKept
  <1> DEFINE msg  == [type |-> "script", id |-> id, to |-> m]
             l    == ProcessLineage(m, Author(id), header[id])
             h1   == WithScript(l.hist, id)
             ToAck == ToAcknowledge(l.hist, h1, id)
             acks == {[to |-> Author(x), id |-> x, ref |-> FALSE] : x \in ToAck}
             rest == inbox[m] \ {id}
             drop == Dropped(l, id, rest)
  <1>1. TypeOK /\ OneBranch(header) /\ Good(header, m, hist[m]) /\ Tidy(m, hist[m].nodes) /\ ShapeInv
    BY DEF AckInv, ShapeInv, IInv, HistoriesGood, Agreed, AllTidy
  <1>2. id \in Gid /\ Author(id) \in Member /\ header[id] \in Seq(Gid)
    BY <1>1, ScriptType DEF TypeOK, Lineage
  <1>3. header[id] # <<>>
    <2>1. CASE msg \in net
      BY <1>1, <2>1 DEF ShapeInv, MailCheckedIn
    <2>2. CASE id \in inbox[m]
      BY <1>1, <2>2 DEF ShapeInv, MailCheckedIn
    <2> QED
      BY <2>1, <2>2 DEF UnpackScript
  <1>4. Linked(header, header[id])
    BY <1>1 DEF ShapeInv, HeadersLinked
  <1>5. l \in LineageResult
    BY <1>1, <1>2, ProcessLineageType
  <1>6. /\ Good(header, m, l.hist)
        /\ l.status = "connected" => Last(header[id]) \in Ids(l.hist.nodes)
    BY <1>1, <1>2, <1>3, <1>4, ProcessGood
  <1>7. /\ Tidy(m, l.hist.nodes) /\ Carried(m, hist[m].nodes, l.hist.nodes)
        /\ Ids(l.hist.nodes) = Ids(hist[m].nodes) \cup l.new
    BY <1>1, <1>2, <1>4, ProcessTidy
  <1>8. \A a \in l.refs \cup l.acks : ItemTrue(m, hist[m].nodes, a)
    BY <1>1, <1>2, <1>4, LineageItems
  <1>9. net' \subseteq net
    <2>1. net' \in Remaining(msg)
      BY DEF UnpackScript
    <2> QED
      BY <1>1, <2>1, RemainingType
  <1>10. header' = header
    BY DEF UnpackScript
  <1>11. \/ l.status = "connected" /\ Unpack(m, l, h1, acks, {id}, {id}, rest)
         \/ Unpack(m, l, l.hist, {}, Held(l, id), drop, (rest \ drop) \cup Held(l, id))
    BY DEF UnpackScript
  <1> HIDE DEF l, msg, acks, drop, rest, ToAck
  <1>12. CASE l.status = "connected" /\ Unpack(m, l, h1, acks, {id}, {id}, rest)
    <2>1. Author(id) = m => id \in Ids(l.hist.nodes)
      <3>1. Author(id) = m => id \in Ids(hist[m].nodes)
        BY <1>1, <1>3 DEF ShapeInv, OwnRecorded
      <3> QED
        BY <1>7, <3>1
    <2>2. Good(header, m, h1)
      BY <1>1, <1>3, <1>6, <1>12, <2>1, WithScriptGood
    <2>3. /\ Tidy(m, h1.nodes) /\ Carried(m, l.hist.nodes, h1.nodes)
          /\ Ids(h1.nodes) = Ids(l.hist.nodes) \cup {id}
      BY <1>1, <1>3, <1>6, <1>7, <1>12, <2>1, WithScriptTidy
    <2> HIDE DEF h1
    <2>4. hist[m].nodes \in Seq(Node) /\ l.hist.nodes \in Seq(Node) /\ h1.nodes \in Seq(Node)
      BY <1>1, <1>6, <2>2 DEF Good, Sound, Tree
    <2>5. Carried(m, hist[m].nodes, h1.nodes)
      BY <1>7, <2>3, <2>4, CarriedTwice
    <2>6. hist' = [hist EXCEPT ![m] = h1]
      BY <1>12 DEF Unpack
    <2>7. Agreed(header, hist, net)' /\ AllKept
      BY <1>9, <1>10, <2>3, <2>5, <2>6, CarriedAck
    <2>8. ASSUME NEW a \in acks PROVE ItemTrue(m, h1.nodes, a)
      <3>1. PICK x \in ToAck : a = [to |-> Author(x), id |-> x, ref |-> FALSE]
        BY DEF acks
      <3>2. a.id = x /\ ~a.ref /\ a.to = Author(x)
        BY <3>1
      <3>3. id \in Ids(h1.nodes)
        BY <2>3
      <3>4. x \in Script /\ x \in Ids(h1.nodes)
        BY <2>2, <3>3, AcknowledgedRecorded DEF ToAck
      <3> QED
        BY <3>2, <3>4 DEF ItemTrue
    <2>9. {id} \in SUBSET Gid /\ Ids(h1.nodes) \subseteq Ids(hist[m].nodes) \cup l.new \cup {id}
      BY <1>2, <1>7, <2>3
    <2>10. AckInv'
      BY <1>5, <1>8, <1>12, <2>7, <2>8, <2>9, UnpackAckInv
    <2> QED
      BY <2>7, <2>10
  <1>13. CASE Unpack(m, l, l.hist, {}, Held(l, id), drop, (rest \ drop) \cup Held(l, id))
    <2>1. hist' = [hist EXCEPT ![m] = l.hist]
      BY <1>13 DEF Unpack
    <2>2. Agreed(header, hist, net)' /\ AllKept
      BY <1>7, <1>9, <1>10, <2>1, CarriedAck
    <2>3. /\ Held(l, id) \in SUBSET Gid
          /\ Ids(l.hist.nodes) \subseteq Ids(hist[m].nodes) \cup l.new \cup Held(l, id)
      BY <1>2, <1>7 DEF Held
    <2>4. \A a \in {} : ItemTrue(m, l.hist.nodes, a)
      OBVIOUS
    <2>5. AckInv'
      BY <1>5, <1>8, <1>13, <2>2, <2>3, <2>4, UnpackAckInv
    <2> QED
      BY <2>2, <2>5
  <1> QED
    BY <1>11, <1>12, <1>13

(* What two steps keep they keep together.                                   *)
LEMMA DoneTwice ==
    ASSUME NEW t \in Seq(Node), NEW u \in Seq(Node), NEW v \in Seq(Node),
           DoneKept(t, u), DoneKept(u, v),
           \A i \in 1 .. Len(u), j \in 1 .. Len(v) : u[i].id = v[j].id /\ u[i].rej => v[j].rej
    PROVE  DoneKept(t, v)
  <1>1. Ids(t) \subseteq Ids(u) /\ Ids(u) \subseteq Ids(v)
    BY DEF DoneKept
  <1>2. ASSUME NEW i \in 1 .. Len(t), NEW j \in 1 .. Len(v), t[i].id = v[j].id
        PROVE  /\ Confirmed(t[i]) => Confirmed(v[j])
               /\ t[i].exe => v[j].exe \/ v[j].rej
    <2>1. t[i].id \in Ids(u)
      BY <1>1, IdsAre
    <2>2. PICK k \in 1 .. Len(u) : u[k].id = t[i].id
      BY <2>1, IdsAre
    <2> QED
      BY <1>2, <2>2 DEF DoneKept
  <1> QED
    BY <1>1, <1>2 DEF DoneKept

(* Unpacking an acknowledgment keeps the invariant.                          *)
LEMMA UnpackAcksAck ==
    ASSUME AckInv, ShapeInv', NEW m \in Member, UnpackAcks(m)
    PROVE  AckInv' /\ AllKept
  <1>1. PICK msg \in net : msg.type = "ack" /\ UnpackAck(m, msg)
    BY DEF UnpackAcks
  <1> DEFINE l    == ProcessLineage(m, msg.from, msg.lineage)
             h1   == AcceptAck(l.hist, msg.id, msg.from)
             i    == FindIdx(h1.nodes, msg.id)
             refs == {a \in {[to |-> Everyone, id |-> msg.id, ref |-> TRUE]} :
                         /\ ~msg.ref /\ Author(msg.id) = m
                         /\ i >= FisIdx(l.hist) /\ Confirmed(h1.nodes[i])}
             H1   == [hist EXCEPT ![m] = l.hist]
             t    == hist[m].nodes
  <1>2. /\ TypeOK /\ OneBranch(header) /\ Good(header, m, hist[m]) /\ Tidy(m, t) /\ ShapeInv
        /\ Backed(header, hist) /\ Agreed(header, hist, net)
    BY InvBacked DEF AckInv, ShapeInv, IInv, HistoriesGood, Agreed, AllTidy
  <1>3. msg.id \in Gid /\ msg.from \in Member /\ msg.lineage \in Seq(Gid)
    BY <1>1, <1>2, MessageType DEF TypeOK
  <1>4. Linked(header, msg.lineage)
    BY <1>1, <1>2 DEF ShapeInv, AcksLinked
  <1>5. l \in LineageResult
    BY <1>2, <1>3, ProcessLineageType
  <1>6. Good(header, m, l.hist)
    BY <1>2, <1>3, <1>4, ProcessGood
  <1>7. /\ Tidy(m, l.hist.nodes) /\ Carried(m, t, l.hist.nodes)
        /\ Ids(l.hist.nodes) = Ids(t) \cup l.new
    BY <1>2, <1>3, <1>4, ProcessTidy
  <1>8. \A a \in l.refs \cup l.acks : ItemTrue(m, t, a)
    BY <1>2, <1>3, <1>4, LineageItems
  <1>9. msg.lineage # <<>> /\ msg.lineage[1] \in Ids(l.hist.nodes)
            => Elements(msg.lineage) \subseteq Ids(l.hist.nodes)
    BY <1>3, <1>4, ProcessKnows
  <1>10. /\ Unpack(m, l, h1, refs, {}, {}, inbox[m])
         /\ net' \in Remaining(msg) /\ header' = header /\ msg.to = m
    BY <1>1 DEF UnpackAck
  <1> HIDE DEF l
  <1>11. Good(header, m, h1) /\ Ids(h1.nodes) = Ids(l.hist.nodes)
    BY <1>6, AcceptAckGood
  <1>12. Acknowledged(l.hist.nodes, h1.nodes, msg.id, msg.from) /\ Tidy(m, h1.nodes)
    BY <1>6, <1>7, AcceptAckTidy DEF Good
  <1> HIDE DEF h1
  <1>13. net' \subseteq net
    BY <1>2, <1>10, RemainingType
  <1>14. H1[m] = l.hist /\ \A p \in Member \ {m} : H1[p] = hist[p]
    BY <1>2 DEF TypeOK
  <1>15. hist'[m] = h1 /\ \A p \in Member \ {m} : hist'[p] = hist[p]
    BY <1>2, <1>10 DEF Unpack, TypeOK
  <1> HIDE DEF H1
  <1>16. Backed(header, H1)
    <2>1. \A p \in Member : IdsOf(hist, p) \subseteq IdsOf(H1, p)
      BY <1>7, <1>14 DEF IdsOf
    <2>2. \A p \in Member : Good(header, p, H1[p])
      BY <1>2, <1>6, <1>14 DEF Backed
    <2> QED
      BY <1>2, <2>1, <2>2, ScriptType DEF Backed
  <1>17. Backed(header, hist')
    BY <1>10, InvBackedNext
  <1>18. Agreed(header, H1, net) /\ \A x : Final(header, hist, x) => Final(header, H1, x)
    BY <1>2, <1>7, <1>14, <1>16, CarriedAgreed
  <1>19. ASSUME NEW x, Shows(header, IdsOf(H1, m), msg.lineage, x)
         PROVE  Loses(header, IdsOf(H1, m), x)
    BY <1>9, <1>14, <1>19, LosesMore DEF Shows, IdsOf
  <1>20. /\ Agreed(header, hist', net)
         /\ \A x : Final(header, H1, x) => Final(header, hist', x)
    <2>1. \A p \in Member \ {m} : hist'[p] = H1[p]
      BY <1>14, <1>15
    <2>2. Acknowledged(H1[m].nodes, hist'[m].nodes, msg.id, msg.from) /\ Tidy(m, hist'[m].nodes)
      BY <1>12, <1>14, <1>15
    <2> QED
      BY <1>1, <1>10, <1>16, <1>17, <1>18, <1>19, <2>1, <2>2, AcceptedAgreed
  <1>21. Agreed(header, hist', net')
    BY <1>13, <1>17, <1>20, MailAgreed
  <1>22. Agreed(header, hist, net)'
    BY <1>10, <1>21
  <1>23. AllKept
    <2>1. t \in Seq(Node) /\ l.hist.nodes \in Seq(Node) /\ h1.nodes \in Seq(Node)
      BY <1>2, <1>6, <1>11 DEF Good, Sound, Tree
    <2>2. DoneKept(t, l.hist.nodes)
      BY <1>7, CarriedDone
    <2>3. AcksOnly(l.hist.nodes, h1.nodes)
      BY <1>12 DEF Acknowledged
    <2>4. \A j, k \in 1 .. Len(l.hist.nodes) : l.hist.nodes[j].id = l.hist.nodes[k].id => j = k
      BY <1>6 DEF Good, Sound, Tree, Shaped
    <2>5. DoneKept(l.hist.nodes, h1.nodes)
      BY <1>11, <2>3, <2>4 DEF AcksOnly, DoneKept, Confirmed
    <2>6. \A j \in 1 .. Len(l.hist.nodes), k \in 1 .. Len(h1.nodes) :
              l.hist.nodes[j].id = h1.nodes[k].id /\ l.hist.nodes[j].rej => h1.nodes[k].rej
      BY <2>3, <2>4 DEF AcksOnly
    <2>7. DoneKept(t, h1.nodes)
      BY <2>1, <2>2, <2>5, <2>6, DoneTwice
    <2>8. FinalKept
      BY <1>10, <1>18, <1>20 DEF FinalKept
    <2> QED
      BY <1>2, <1>15, <2>7, <2>8, OthersKept
  <1>24. ASSUME NEW a \in refs PROVE ItemTrue(m, h1.nodes, a)
    <2>1. /\ a = [to |-> Everyone, id |-> msg.id, ref |-> TRUE]
          /\ ~msg.ref /\ Author(msg.id) = m /\ Confirmed(h1.nodes[i])
      OBVIOUS
    <2>2. a.id = msg.id /\ a.ref
      BY <2>1
    <2>3. AckTrue(header, hist, msg)
      BY <1>1, <1>2 DEF Agreed, AcksTrue
    <2>4. msg.id \in IdsOf(hist, msg.from)
      BY <2>1, <2>3 DEF AckTrue
    <2>5. msg.id \in Script /\ msg.id \in IdsOf(hist, m)
      BY <1>2, <1>3, <2>1, <2>4, OwnKnown
    <2>6. msg.id \in Ids(h1.nodes)
      BY <1>7, <1>11, <2>5 DEF IdsOf
    <2>7. h1.nodes \in Seq(Node)
      BY <1>11 DEF Good, Sound, Tree
    <2>8. i \in 1 .. Len(h1.nodes) /\ h1.nodes[i].id = msg.id
      <3>1. i \in 0 .. Len(h1.nodes) /\ i # 0 /\ h1.nodes[i].id = msg.id /\ Len(h1.nodes) \in Nat
        BY <2>6, <2>7, FindIdxType, NodesType
      <3> QED
        BY <3>1
    <2> HIDE DEF i
    <2> QED
      BY <2>1, <2>2, <2>5, <2>6, <2>8 DEF ItemTrue
  <1> HIDE DEF refs
  <1>25. {} \in SUBSET Gid /\ Ids(h1.nodes) \subseteq Ids(t) \cup l.new \cup {}
    BY <1>7, <1>11
  <1>26. AckInv'
    BY <1>5, <1>8, <1>10, <1>22, <1>23, <1>24, <1>25, UnpackAckInv
  <1> QED
    BY <1>23, <1>26

----------------------------------------------------------------------------
(* Check-in *)

(***************************************************************************)
(* A check-in keeps the invariant: its author awaits the acknowledgments of *)
(* all others, and it rejects nothing.  Only the new script is added.       *)
(***************************************************************************)
LEMMA CheckInAck ==
    ASSUME AckInv, ShapeInv', NEW m \in Member, CheckIn(m)
    PROVE  /\ AckInv' /\ AllKept
           /\ \E id \in Script : /\ HeaderAdded(header, header', id)
                                /\ \A p \in Member :
                                      Ids(hist'[p].nodes) \subseteq Ids(hist[p].nodes) \cup {id}
  <1> DEFINE h0  == hist[m]
             t   == h0.nodes
             id  == <<m, recent[m][m] + 1>>
             lin == MainSetLineage(h0)
             n   == ScriptNode(id, LastOf(lin), Member \ {m}, TRUE)
             h   == InsertNewNode(h0, n)
             h2  == IF Member = {m} THEN ConfirmAllOlderNodes(h, FindIdx(h.nodes, id)) ELSE h
             sent == {a \in {[to |-> Everyone, id |-> id, ref |-> TRUE]} : Member = {m}}
  <1>1. /\ TypeOK /\ Good(header, m, h0) /\ Sound(h0) /\ Known(header, t) /\ Tree(t) /\ ShapeInv
        /\ Tidy(m, t) /\ Backed(header, hist) /\ Agreed(header, hist, net)
    BY NextKnown, InvBacked DEF AckInv, ShapeInv, IInv, Good, Sound, Agreed, AllTidy
  <1>2. PICK tip : Done(t, tip)
    BY <1>1 DEF Sound
  <1>3. recent[m][m] \in Nat /\ recent[m][m] < Limit[m]
    BY <1>1 DEF CheckIn, TypeOK
  <1>4. id \in Script /\ id \in Gid /\ Author(id) = m /\ Ord(id) = recent[m][m] + 1
    BY <1>3, NewIdType, ScriptType DEF Author, Ord
  <1>5. lin \in Seq(Gid) /\ lin # <<>> /\ Linked(header, lin) /\ Last(lin) = t[tip].id
    BY <1>1, <1>2, MainLineage
  <1>6. header' = [header EXCEPT ![id] = lin] /\ header \in [Script -> Lineage]
    BY <1>1 DEF CheckIn, TypeOK
  <1>7. recent' = [recent EXCEPT ![m][m] = recent[m][m] + 1]
    BY DEF CheckIn
  <1>8. net' = net
    BY DEF CheckIn
  <1>9. hist' = [hist EXCEPT ![m] = h2]
    BY DEF CheckIn
  <1>10. ~HasIncomingOrMissingScripts(h0) \/ HasToBeRejectedScripts(h0)
    BY DEF CheckIn, CanCheckIn
  <1>11. box' = [box EXCEPT ![m].must = box[m].must \cup sent]
    BY DEF CheckIn
  <1>12. /\ n \in Node /\ n.id = id /\ n.pred = t[tip].id /\ n.exe /\ ~n.mis /\ ~n.rej /\ ~n.bp
         /\ n.acks = Member \ {m}
    <2>1. LastOf(lin) \in Gid \cup {NoId} /\ Member \ {m} \in SUBSET User
      BY <1>5, LastOfType DEF User
    <2>2. n \in Node
      BY <1>4, <2>1, ScriptNodeType
    <2>3. LastOf(lin) = t[tip].id
      BY <1>5, LastIs
    <2> QED
      BY <2>2, <2>3 DEF ScriptNode
  <1>13. Confirmed(n) <=> Member = {m}
    BY <1>12 DEF Confirmed
  <1> HIDE DEF lin, n, id
  <1>14. header[id] = <<>>
    BY <1>1, <1>3, <1>4 DEF ShapeInv, OwnRecorded
  <1>15. header'[id] = lin /\ HeaderAdded(header, header', id)
    BY <1>4, <1>6, <1>14 DEF HeaderAdded
  <1>16. id \notin Ids(t)
    <2> SUFFICES ASSUME id \in Ids(t) PROVE FALSE
      OBVIOUS
    <2>1. PICK i \in 1 .. Len(t) : t[i].id = id
      BY <1>1, IdsPlace
    <2>2. Len(t) \in Nat /\ t[1].id = Root
      BY <1>1, Places DEF Tree, Shaped
    <2>3. i \in 2 .. Len(t)
      BY <1>4, <2>1, <2>2, RootNotScript
    <2> QED
      BY <1>1, <1>14, <2>1, <2>3 DEF Known, CheckedIn
  <1>17. Good(header', m, h0) /\ CheckedIn(header', id) /\ Last(header'[id]) = n.pred
    BY <1>1, <1>4, <1>5, <1>12, <1>15, HeaderAddedGood DEF CheckedIn
  <1> HIDE DEF t
  <1>18. CheckedInFrame(m, t, h2.nodes, n) /\ Ids(h2.nodes) = Ids(t) \cup {id}
    <2> DEFINE h3 == IF Confirmed(n) THEN ConfirmAllOlderNodes(h, FindIdx(h.nodes, n.id)) ELSE h
    <2>0. /\ Author(n.id) = m /\ n.id \notin Ids(h0.nodes) /\ n.pred = h0.nodes[tip].id
          /\ Done(h0.nodes, tip) /\ Tidy(m, h0.nodes)
          /\ CheckedIn(header', n.id) /\ Last(header'[n.id]) = n.pred
      BY <1>1, <1>2, <1>4, <1>12, <1>16, <1>17 DEF t
    <2>1. CheckedInFrame(m, h0.nodes, h3.nodes, n)
      BY <1>10, <1>12, <1>17, <2>0, CheckInTidy
    <2>2. Good(header', m, h) /\ Ids(h.nodes) = Ids(h0.nodes) \cup {n.id}
      BY <1>10, <1>12, <1>17, <2>0, CheckInGood
    <2>3. h3 = h2
      BY <1>12, <1>13
    <2> HIDE DEF h, h3
    <2>4. Ids(h2.nodes) = Ids(h.nodes)
      BY <2>2, ConfirmGood
    <2> HIDE DEF h2
    <2> QED
      BY <1>12, <2>1, <2>2, <2>3, <2>4 DEF t
  <1> HIDE DEF h, h2
  <1>19. hist'[m] = h2 /\ \A p \in Member \ {m} : hist'[p] = hist[p]
    BY <1>1, <1>9 DEF TypeOK
  <1>20. Backed(header', hist')
    BY InvBackedNext
  <1>21. Agreed(header', hist', net) /\ \A x : Final(header, hist, x) => Final(header', hist', x)
    <2>1. CheckedInFrame(m, hist[m].nodes, hist'[m].nodes, n)
      BY <1>18, <1>19 DEF t
    <2>2. Ids(hist'[m].nodes) = Ids(hist[m].nodes) \cup {n.id}
      BY <1>12, <1>18, <1>19 DEF t
    <2>3. HeaderAdded(header, header', n.id)
      BY <1>12, <1>15
    <2> QED
      BY <1>1, <1>12, <1>19, <1>20, <2>1, <2>2, <2>3, CheckedInAgreed
  <1>22. Agreed(header, hist, net)' /\ FinalKept
    BY <1>8, <1>21 DEF FinalKept
  <1>23. DoneKept(t, h2.nodes)
    BY <1>18 DEF CheckedInFrame, DoneKept
  <1>24. AllKept
    BY <1>1, <1>19, <1>22, <1>23, OthersKept DEF t
  <1>25. BoxTrue'
    <2>1. \A a \in sent : ItemTrue(m, h2.nodes, a)
      <3> SUFFICES ASSUME NEW a \in sent PROVE ItemTrue(m, h2.nodes, a)
        OBVIOUS
      <3>1. a = [to |-> Everyone, id |-> id, ref |-> TRUE] /\ Member = {m}
        OBVIOUS
      <3>2. a.id = id /\ a.ref
        BY <3>1
      <3> QED
        BY <1>4, <1>18, <3>1, <3>2 DEF ItemTrue
    <2> HIDE DEF sent
    <2>2. box \in [Member -> [must : SUBSET AckItem, can : SUBSET AckItem]]
      BY <1>1 DEF TypeOK
    <2>3. /\ box'[m].must = box[m].must \cup sent /\ box'[m].can = box[m].can
          /\ \A p \in Member : p # m => box'[p] = box[p]
      BY <1>11, <2>2
    <2>4. ASSUME NEW p \in Member, NEW a \in box'[p].must \cup box'[p].can
          PROVE  a \in box[p].must \cup box[p].can \/ ItemTrue(p, hist'[p].nodes, a)
      <3>1. CASE p # m
        BY <2>3, <2>4, <3>1
      <3>2. CASE p = m
        BY <1>19, <2>1, <2>3, <2>4, <3>2
      <3> QED
        BY <3>1, <3>2
    <2> QED
      BY <1>24, <2>4, BoxKept
  <1>26. HeardAll'
    <2>1. recent \in [Member -> [Member -> Nat]]
      BY <1>1 DEF TypeOK
    <2>2. \A p, a \in Member : recent'[p][a] = IF p = m /\ a = m THEN recent[m][m] + 1 ELSE recent[p][a]
      BY <1>7, <2>1
    <2> SUFFICES ASSUME NEW p \in Member, NEW x \in Ids(hist'[p].nodes) \cap Script
                 PROVE  Ord(x) <= recent'[p][Author(x)]
      BY DEF HeardAll
    <2>3. Author(x) \in Member /\ Ord(x) \in Nat
      BY ScriptType, MemberAssumption
    <2>4. CASE p = m /\ x = id
      BY <1>3, <1>4, <2>2, <2>4
    <2>5. CASE ~(p = m /\ x = id)
      <3>1. x \in Ids(hist[p].nodes)
        BY <1>18, <1>19, <2>5 DEF t
      <3>2. Ord(x) <= recent[p][Author(x)]
        BY <3>1 DEF AckInv, HeardAll
      <3>3. recent[p][Author(x)] \in Nat
        BY <2>1, <2>3
      <3> QED
        BY <2>2, <2>3, <3>2, <3>3
    <2> QED
      BY <2>4, <2>5
  <1>27. \A p \in Member : Ids(hist'[p].nodes) \subseteq Ids(hist[p].nodes) \cup {id}
    BY <1>18, <1>19 DEF t
  <1> QED
    BY <1>4, <1>15, <1>22, <1>24, <1>25, <1>26, <1>27 DEF AckInv

----------------------------------------------------------------------------
(* Every reachable state *)

(* The invariant is inductive, and no step takes back what it says is final. *)
LEMMA StepAck == ASSUME AckInv, [Next]_vars PROVE AckInv' /\ AllKept
  <1>1. ShapeInv /\ ShapeInv'
    BY StepShape DEF AckInv
  <1>2. CASE UNCHANGED vars
    <2>1. UNCHANGED <<hist, recent, header, net, box>>
      BY <1>2 DEF vars
    <2> QED
      BY <1>1, <2>1, MailAck
  <1>3. ASSUME NEW m \in Member, CheckIn(m) PROVE AckInv' /\ AllKept
    BY <1>1, <1>3, CheckInAck
  <1>4. ASSUME NEW m \in Member, Broadcast(m) \/ Crash(m) PROVE AckInv' /\ AllKept
    BY <1>1, <1>4, BroadcastAck
  <1>5. ASSUME NEW m \in Member, NEW id \in Script, UnpackScript(m, id) PROVE AckInv' /\ AllKept
    BY <1>1, <1>5, UnpackScriptAck
  <1>6. ASSUME NEW m \in Member, UnpackAcks(m) PROVE AckInv' /\ AllKept
    BY <1>1, <1>6, UnpackAcksAck
  <1>7. ASSUME NEW m \in Member, SendAcknowledgments(m) PROVE AckInv' /\ AllKept
    BY <1>1, <1>7, SendAck
  <1>8. ASSUME NEW m \in Member, RequestMissing(m) PROVE AckInv' /\ AllKept
    BY <1>1, <1>8, RequestAck
  <1>9. ASSUME NEW m \in Member, AnswerRequests(m) PROVE AckInv' /\ AllKept
    BY <1>1, <1>9, AnswerAck
  <1>10. ASSUME NEW m \in Member, ExecuteNext(m) \/ MarkMissing(m) PROVE AckInv' /\ AllKept
    BY <1>1, <1>10, ExecutionAck
  <1> QED
    BY <1>2, <1>3, <1>4, <1>5, <1>6, <1>7, <1>8, <1>9, <1>10 DEF Next

(* Hence it holds in every reachable state.                                  *)
LEMMA AckHolds == Spec => []AckInv
  <1>1. AckInv /\ [Next]_vars => AckInv'
    BY StepAck
  <1> QED
    BY <1>1, InitAck, PTL DEF Spec

(***************************************************************************)
(* A script that one member has executed and confirmed is recorded and      *)
(* accepted by every member: whatever acknowledgments are lost, repeated,   *)
(* overtaken or taken for those of older scripts, nobody counts a script as *)
(* settled that somebody has rejected.                                      *)
(***************************************************************************)
THEOREM ConfirmedAlwaysAgree == Spec => []ConfirmedAgree
  <1>1. ASSUME AckInv PROVE ConfirmedAgree
    <2> SUFFICES ASSUME NEW m \in Member, NEW id \in Gid, SettledAt(m, id), NEW p \in Member
                 PROVE  AcceptedAt(p, id)
      BY DEF ConfirmedAgree
    <2>1. Backed(header, hist) /\ ConfirmedFinal(header, hist, m)
      BY <1>1, InvBacked DEF AckInv, Agreed, AllConfirmedFinal
    <2>2. \A q \in Member : DOMAIN hist[q].nodes = 1 .. Len(hist[q].nodes)
      BY <2>1, BackedFacts, Places DEF Tree
    <2>3. Final(header, hist, id)
      BY <2>1, <2>2 DEF SettledAt, Executed, ConfirmedFinal
    <2>4. \E j \in 1 .. Len(hist[p].nodes) :
              hist[p].nodes[j].id = id /\ ~hist[p].nodes[j].rej
      BY <2>1, <2>3, BackedFacts DEF Final
    <2> QED
      BY <2>2, <2>4 DEF AcceptedAt
  <1> QED
    BY <1>1, AckHolds, PTL

(***************************************************************************)
(* No step undoes a settled script or takes its confirmation back, because  *)
(* nothing that could win against it is known anywhere.                     *)
(***************************************************************************)
THEOREM ConfirmedForGood == Spec => ConfirmedStays
  <1>1. ASSUME AckInv, [Next]_vars
        PROVE  \A m \in Member : \A id \in Gid : SettledAt(m, id) => SettledAt(m, id)'
    <2> SUFFICES ASSUME NEW m \in Member, NEW id \in Gid, SettledAt(m, id)
                 PROVE  SettledAt(m, id)'
      OBVIOUS
    <2>1. AckInv' /\ AllKept
      BY <1>1, StepAck
    <2>2. /\ Backed(header, hist) /\ ConfirmedFinal(header, hist, m)
          /\ Backed(header', hist')
      BY <1>1, <2>1, InvBacked, InvBackedNext DEF AckInv, Agreed, AllConfirmedFinal
    <2>3. /\ DOMAIN hist[m].nodes = 1 .. Len(hist[m].nodes)
          /\ DOMAIN hist'[m].nodes = 1 .. Len(hist'[m].nodes)
      BY <2>2, BackedFacts, Places DEF Tree
    <2>4. PICK i \in 1 .. Len(hist[m].nodes) :
              /\ hist[m].nodes[i].id = id /\ Confirmed(hist[m].nodes[i])
              /\ hist[m].nodes[i].exe /\ ~hist[m].nodes[i].rej
      BY <2>3 DEF SettledAt, Executed
    <2>5. Final(header', hist', id)
      BY <2>1, <2>2, <2>4 DEF ConfirmedFinal, AllKept, FinalKept
    <2>6. PICK j \in 1 .. Len(hist'[m].nodes) :
              hist'[m].nodes[j].id = id /\ ~hist'[m].nodes[j].rej
      BY <2>2, <2>5, BackedFacts DEF Final
    <2>7. Confirmed(hist'[m].nodes[j]) /\ hist'[m].nodes[j].exe
      BY <2>1, <2>4, <2>6 DEF AllKept, DoneKept
    <2> QED
      BY <2>3, <2>6, <2>7 DEF SettledAt, Executed
  <1> QED
    BY <1>1, AckHolds, PTL DEF Spec, ConfirmedStays

(***************************************************************************)
(* Who need not acknowledge an accepted script any more has recorded it,    *)
(* also when its acknowledgment was that of a later script.                 *)
(***************************************************************************)
THEOREM AcknowledgedAlwaysKnown == Spec => []AcknowledgedIsKnown
  <1>1. ASSUME AckInv PROVE AcknowledgedIsKnown
    <2> SUFFICES ASSUME NEW m \in Member, NEW i \in 2 .. Len(hist[m].nodes),
                        ~hist[m].nodes[i].rej, Author(hist[m].nodes[i].id) = m,
                        NEW p \in Member \ ({m} \cup hist[m].nodes[i].acks)
                 PROVE  FindIdx(hist[p].nodes, hist[m].nodes[i].id) # 0
      BY DEF AcknowledgedIsKnown
    <2> DEFINE n == hist[m].nodes[i]
    <2>1. Backed(header, hist)
      BY <1>1, InvBacked DEF AckInv
    <2>2. hist[m].nodes \in Seq(Node) /\ hist[p].nodes \in Seq(Node)
      BY <2>1, BackedFacts DEF Tree
    <2>3. i \in 1 .. Len(hist[m].nodes)
      BY <2>2, NodesType
    <2>4. Recorded(header, hist, m, n)
      BY <1>1, <2>3 DEF AckInv, Agreed, OwnAwaited
    <2>5. ~Loses(header, IdsOf(hist, m), n.id)
      BY <2>1, <2>3, BackedFacts
    <2>6. n.id \in IdsOf(hist, p)
      BY <2>4, <2>5, AncFacts DEF Recorded
    <2> QED
      BY <2>2, <2>6, FindIdxType DEF IdsOf
  <1> QED
    BY <1>1, AckHolds, PTL

----------------------------------------------------------------------------
(* The fourth inductive invariant: what members wait for *)

(* The lineages that acknowledgments carry start with a script that has been  *)
(* checked in, or the root.                                                  *)
StartsOld ==
    \A b \in net : b.type = "ack" /\ b.lineage # <<>> => b.lineage[1] \in Old(header)

(***************************************************************************)
(* A member remembers as a reference from the future only what has been     *)
(* checked in and what it has neither recorded nor in its inbox.            *)
(***************************************************************************)
Pending ==
    \A m \in Member : \A x \in disconnected[m] :
        x \notin Ids(hist[m].nodes) /\ x \notin inbox[m] /\ CheckedIn(header, x)

(***************************************************************************)
(* A lineage does not connect because its first script is unknown, which    *)
(* HeardAll implies and the shape of the histories alone does not: else a   *)
(* recorded script could be remembered as one from the future.              *)
(***************************************************************************)
WaitInv == AckInv /\ StartsOld /\ Pending

(* All the lineage of a recorded script is recorded, in front of it.         *)
LEMMA StartInTree ==
    ASSUME NEW t, Tree(t), NEW hdr, Known(hdr, t), NEW id, id \in Ids(t), CheckedIn(hdr, id),
           hdr[id] \in Seq(Gid), Linked(hdr, hdr[id])
    PROVE  hdr[id][1] \in Ids(t) /\ FindIdx(t, hdr[id][1]) < FindIdx(t, id)
  <1> DEFINE lin   == hdr[id]
             Ok(j) == lin[j] \in Ids(t) /\ FindIdx(t, lin[j]) < FindIdx(t, id)
             B     == {j \in 1 .. Len(lin) : ~Ok(j)}
             b     == Greatest(B, 0)
  <1>1. lin # <<>> /\ Len(lin) \in Nat /\ Len(lin) > 0
    BY EmptySeq, ArrayType DEF CheckedIn
  <1>2. Last(lin) = lin[Len(lin)]
    BY <1>1 DEF Last
  <1>3. Ok(Len(lin))
    BY <1>2, PredecessorPresent
  <1>4. ASSUME NEW x \in Ids(t) PROVE FindIdx(t, x) \in Nat
    <2>1. FindIdx(t, x) \in 0 .. Len(t) /\ Len(t) \in Nat
      BY FindIdxType, NodesType DEF Tree
    <2> QED
      BY <2>1
  <1> HIDE DEF lin
  <1>5. ASSUME B # {} PROVE FALSE
    <2>1. B \in SUBSET (0 .. Len(lin))
      BY <1>1
    <2>2. b \in B /\ \A j \in B : j <= b
      BY <1>1, <1>5, <2>1, GreatestIs
    <2> HIDE DEF b
    <2>3. b \in 1 .. Len(lin) /\ ~Ok(b)
      BY <2>2
    <2>4. b # Len(lin)
      BY <1>3, <2>3
    <2> HIDE DEF Ok
    <2>5. b + 1 \in 2 .. Len(lin) /\ b + 1 \in 1 .. Len(lin) /\ ~(b + 1 <= b) /\ (b + 1) - 1 = b
      BY <1>1, <2>3, <2>4
    <2>6. Ok(b + 1)
      BY <2>2, <2>5
    <2>7. CheckedIn(hdr, lin[b + 1]) /\ lin[(b + 1) - 1] = Last(hdr[lin[b + 1]])
      BY <2>5 DEF Linked, lin
    <2>8. lin[b + 1] \in Ids(t) /\ FindIdx(t, lin[b + 1]) < FindIdx(t, id)
      BY <2>6 DEF Ok
    <2>9. lin[b] \in Ids(t) /\ FindIdx(t, lin[b]) < FindIdx(t, lin[b + 1])
      BY <2>5, <2>7, <2>8, PredecessorPresent
    <2>10. FindIdx(t, lin[b]) \in Nat /\ FindIdx(t, lin[b + 1]) \in Nat /\ FindIdx(t, id) \in Nat
      BY <1>4, <2>8, <2>9
    <2>11. FindIdx(t, lin[b]) < FindIdx(t, id)
      BY <2>8, <2>9, <2>10
    <2> QED
      BY <2>3, <2>9, <2>11 DEF Ok
  <1>6. Ok(1)
    <2>1. 1 \in 1 .. Len(lin)
      BY <1>1
    <2> HIDE DEF Ok
    <2> QED
      BY <1>5, <2>1
  <1> QED
    BY <1>6 DEF lin

(* The header of a script starts with a script that has been checked in.     *)
LEMMA HeaderStartsOld ==
    ASSUME ShapeInv, NEW id \in Script, header[id] # <<>>
    PROVE  /\ header[id] \in Seq(Gid) /\ Linked(header, header[id])
           /\ Author(id) \in Member
           /\ LET t == hist[Author(id)].nodes
              IN  /\ id \in Ids(t) /\ header[id][1] \in Ids(t)
                  /\ FindIdx(t, header[id][1]) < FindIdx(t, id)
           /\ header[id][1] \in Old(header)
  <1>1. Author(id) \in Member
    BY ScriptType
  <1> DEFINE a == Author(id)
             t == hist[a].nodes
  <1>2. id \in Ids(t)
    BY <1>1 DEF ShapeInv, OwnRecorded
  <1>3. Backed(header, hist)
    BY InvBacked
  <1>4. Tree(t) /\ Known(header, t)
    BY <1>1, <1>3, BackedFacts
  <1>5. header[id] \in Seq(Gid) /\ Linked(header, header[id])
    BY DEF ShapeInv, IInv, TypeOK, Lineage, HeadersLinked
  <1>6. CheckedIn(header, id)
    BY DEF CheckedIn
  <1>7. header[id][1] \in Ids(t) /\ FindIdx(t, header[id][1]) < FindIdx(t, id)
    BY <1>2, <1>4, <1>5, <1>6, StartInTree
  <1>8. header[id][1] \in Old(header)
    BY <1>1, <1>3, <1>7, RecordedIsOld DEF IdsOf
  <1> QED
    BY <1>1, <1>2, <1>5, <1>7, <1>8

(* A lineage whose first script is recorded connects.                        *)
LEMMA KnownStartConnects ==
    ASSUME AckInv, NEW m \in Member, NEW from, NEW lin \in Seq(Gid), Linked(header, lin),
           lin # <<>>, lin[1] \in Ids(hist[m].nodes)
    PROVE  ProcessLineage(m, from, lin).status = "connected"
  <1> DEFINE t == hist[m].nodes
             F == {k \in DOMAIN lin : lin[k] \in Ids(t)}
  <1>1. ShapeInv
    BY DEF AckInv
  <1>2. Len(lin) \in Nat /\ Len(lin) > 0 /\ DOMAIN lin = 1 .. Len(lin) /\ lin[1] \in Gid
    <2>1. Len(lin) \in Nat /\ Len(lin) > 0 /\ DOMAIN lin = 1 .. Len(lin)
          /\ \A k \in 1 .. Len(lin) : lin[k] \in Gid
      BY ArrayType, EmptySeq
    <2>2. 1 \in 1 .. Len(lin)
      BY <2>1
    <2> QED
      BY <2>1, <2>2
  <1>3. ASSUME Author(lin[1]) \in Member
        PROVE  ~(Ord(lin[1]) > recent[m][Author(lin[1])])
    <2>1. lin[1] # Root
      BY <1>3, MemberAssumption DEF Author, Root
    <2>2. lin[1] \in Script
      BY <1>2, <2>1 DEF Gid
    <2>3. Ord(lin[1]) \in Nat
      BY <2>2, ScriptType, MemberAssumption
    <2>4. recent[m][Author(lin[1])] \in Nat
      BY <1>1, <1>3 DEF ShapeInv, IInv, TypeOK
    <2>5. Ord(lin[1]) <= recent[m][Author(lin[1])]
      BY <2>2 DEF AckInv, HeardAll
    <2> QED
      BY <2>3, <2>4, <2>5
  <1>4. ~FromFuture(m, lin[1])
    BY <1>3 DEF FromFuture
  <1>5. FirstKnown(t, lin) # 0
    <2>1. 1 \in F /\ F \in SUBSET Nat
      BY <1>2
    <2>2. Least(F, 0) \in F
      BY <2>1, LeastIs
    <2> QED
      BY <1>2, <2>2 DEF FirstKnown
  <1>6. ProcessLineage(m, from, lin) = ConnectedLineage(m, from, lin)
    BY <1>4, <1>5 DEF ProcessLineage, Connects
  <1>7. ConnectedLineage(m, from, lin).status = "connected"
    BY <1>1, <1>5, ConnectedFits
  <1> QED
    BY <1>6, <1>7

(* What a lineage makes a member wait for has been checked in and is unknown. *)
LEMMA FutureIs ==
    ASSUME AckInv, NEW m \in Member, NEW from, NEW lin \in Seq(Gid), Linked(header, lin),
           lin # <<>> => lin[1] \in Old(header),
           NEW x \in ProcessLineage(m, from, lin).future
    PROVE  x \notin Ids(hist[m].nodes) /\ CheckedIn(header, x)
  <1> DEFINE l == ProcessLineage(m, from, lin)
  <1>1. lin # <<>> /\ x = lin[1] /\ l.status = "disconnected"
    BY DEF ProcessLineage, ConnectedLineage, LineageWithoutNews
  <1>2. x \notin Ids(hist[m].nodes)
    BY <1>1, KnownStartConnects
  <1>3. Root \in Ids(hist[m].nodes)
    <2>1. Tree(hist[m].nodes)
      BY InvBacked, BackedFacts DEF AckInv
    <2>2. hist[m].nodes[1].id = Root /\ 1 \in 1 .. Len(hist[m].nodes)
      BY <2>1, Places DEF Tree, Shaped
    <2> QED
      BY <2>1, <2>2, IdsAre DEF Tree
  <1> QED
    BY <1>1, <1>2, <1>3 DEF Old, CheckedIn

----------------------------------------------------------------------------
(* Steps *)

(* The invariant holds at first.                                             *)
LEMMA InitWait == Init => WaitInv
  <1> SUFFICES ASSUME Init PROVE WaitInv
    OBVIOUS
  <1>1. net = {} /\ \A m \in Member : disconnected[m] = {}
    BY DEF Init
  <1> QED
    BY <1>1, InitAck DEF WaitInv, StartsOld, Pending

(* Mail, and steps that record nothing new, keep what members wait for.      *)
LEMMA MailWait ==
    ASSUME WaitInv, AckInv', UNCHANGED <<header, disconnected, inbox>>,
           \A p \in Member : Ids(hist'[p].nodes) = Ids(hist[p].nodes),
           \A b \in net' : b \in net \/ b.type # "ack" \/ NewAck(hist, b)
    PROVE  WaitInv'
  <1>1. Backed(header, hist)
    BY InvBacked DEF WaitInv, AckInv
  <1>2. ASSUME NEW b \in net', NewAck(hist, b), b.lineage # <<>>
        PROVE  b.lineage[1] \in Old(header)
    <2>1. b.from \in Member /\ b.lineage = UnitLineage(hist[b.from])
      BY <1>2 DEF NewAck, SideLineage
    <2> DEFINE t == hist[b.from].nodes
    <2>2. Sound(hist[b.from]) /\ t \in Seq(Node)
      BY <1>1, <2>1, BackedFacts DEF Tree
    <2>3. PICK k \in 1 .. Len(t) : UnitLineage(hist[b.from])[1] = t[k].id
      BY <2>2, UnitIs
    <2>4. b.lineage[1] \in IdsOf(hist, b.from)
      BY <2>1, <2>2, <2>3, IdsAre DEF IdsOf
    <2> QED
      BY <1>1, <2>1, <2>4, RecordedIsOld
  <1>3. StartsOld'
    BY <1>2 DEF WaitInv, StartsOld
  <1>4. Pending'
    BY DEF WaitInv, Pending
  <1> QED
    BY <1>3, <1>4 DEF WaitInv

(***************************************************************************)
(* Unpacking keeps what members wait for: what it records, keeps in the     *)
(* inbox or turns into missing scripts is not waited for any more.          *)
(***************************************************************************)
LEMMA UnpackWait ==
    ASSUME WaitInv, AckInv', NEW m \in Member, NEW l, NEW h1, NEW sent,
           NEW heard, NEW settled, NEW held,
           Unpack(m, l, h1, sent, heard, settled, held),
           Ids(h1.nodes) \subseteq Ids(hist[m].nodes) \cup l.new \cup settled,
           \A x \in l.future : x \notin Ids(hist[m].nodes) /\ CheckedIn(header, x),
           header' = header, net' \subseteq net
    PROVE  WaitInv'
  <1>1. TypeOK
    BY DEF WaitInv, AckInv, ShapeInv, IInv
  <1>2. /\ hist'[m] = h1 /\ \A p \in Member : p # m => hist'[p] = hist[p]
        /\ inbox'[m] = held /\ \A p \in Member : p # m => inbox'[p] = inbox[p]
        /\ disconnected'[m] = StillDisconnected(disconnected[m], l, settled \cup held)
        /\ \A p \in Member : p # m => disconnected'[p] = disconnected[p]
    BY <1>1 DEF Unpack, TypeOK
  <1>3. Pending'
    <2> SUFFICES ASSUME NEW p \in Member, NEW x \in disconnected'[p]
                 PROVE  x \notin Ids(hist'[p].nodes) /\ x \notin inbox'[p] /\ CheckedIn(header, x)
      BY DEF Pending
    <2>1. CASE p # m
      BY <1>2, <2>1 DEF WaitInv, Pending
    <2>2. CASE p = m
      <3>1. /\ x \in disconnected[m] \cup l.future
            /\ x \notin l.new /\ x \notin settled /\ x \notin held
        BY <1>2, <2>2 DEF StillDisconnected
      <3>2. x \notin Ids(hist[m].nodes) /\ CheckedIn(header, x)
        BY <3>1 DEF WaitInv, Pending
      <3> QED
        BY <1>2, <2>2, <3>1, <3>2
    <2> QED
      BY <2>1, <2>2
  <1>4. StartsOld'
    BY DEF WaitInv, StartsOld
  <1> QED
    BY <1>3, <1>4 DEF WaitInv

(* Unpacking a script.                                                       *)
LEMMA UnpackScriptWait ==
    ASSUME WaitInv, AckInv', NEW m \in Member, NEW id \in Script, UnpackScript(m, id)
    PROVE  WaitInv'
  <1> DEFINE msg  == [type |-> "script", id |-> id, to |-> m]
             l    == ProcessLineage(m, Author(id), header[id])
             h1   == WithScript(l.hist, id)
             acks == {[to |-> Author(x), id |-> x, ref |-> FALSE] : x \in ToAcknowledge(l.hist, h1, id)}
             rest == inbox[m] \ {id}
             t    == hist[m].nodes
  <1>1. /\ AckInv /\ ShapeInv /\ TypeOK /\ OneBranch(header)
        /\ Good(header, m, hist[m]) /\ Tidy(m, t)
    BY DEF WaitInv, AckInv, ShapeInv, IInv, HistoriesGood, Agreed, AllTidy
  <1>2. msg \in net \/ id \in inbox[m]
    BY DEF UnpackScript
  <1>3. header[id] # <<>>
    <2>1. msg.type = "script" /\ msg.id = id
      OBVIOUS
    <2> HIDE DEF msg
    <2> QED
      BY <1>1, <1>2, <2>1 DEF ShapeInv, MailCheckedIn
  <1>4. /\ header[id] \in Seq(Gid) /\ Linked(header, header[id]) /\ Author(id) \in Member
        /\ header[id][1] \in Old(header)
    BY <1>1, <1>3, HeaderStartsOld
  <1>5. /\ Tidy(m, l.hist.nodes) /\ Ids(l.hist.nodes) = Ids(t) \cup l.new
    BY <1>1, <1>4, ProcessTidy
  <1>6. Good(header, m, l.hist) /\ Ids(t) \subseteq Ids(l.hist.nodes)
        /\ (l.status = "connected" => Last(header[id]) \in Ids(l.hist.nodes))
    BY <1>1, <1>3, <1>4, ProcessGood
  <1>7. \A x \in l.future : x \notin Ids(t) /\ CheckedIn(header, x)
    BY <1>1, <1>4, FutureIs
  <1>8. net' \in Remaining(msg) /\ header' = header
    BY DEF UnpackScript
  <1>9. net' \subseteq net
    BY <1>1, <1>8, RemainingType
  <1>10. IF l.status = "connected"
           THEN Unpack(m, l, h1, acks, {id}, {id}, rest)
           ELSE Unpack(m, l, l.hist, {}, Held(l, id), Dropped(l, id, rest),
                       (rest \ Dropped(l, id, rest)) \cup Held(l, id))
    BY DEF UnpackScript
  <1> HIDE DEF l, acks, rest, t
  <1>11. CASE l.status = "connected"
    <2>1. Author(id) = m => id \in Ids(l.hist.nodes)
      <3>1. Author(id) = m => id \in Ids(t)
        BY <1>1, <1>3 DEF ShapeInv, OwnRecorded, t
      <3> QED
        BY <1>6, <3>1
    <2>2. Ids(h1.nodes) = Ids(l.hist.nodes) \cup {id}
      BY <1>1, <1>3, <1>5, <1>6, <1>11, <2>1, WithScriptTidy
    <2> HIDE DEF h1
    <2>3. Ids(h1.nodes) \subseteq Ids(t) \cup l.new \cup {id}
      BY <1>5, <2>2
    <2> QED
      BY <1>7, <1>8, <1>9, <1>10, <1>11, <2>3, UnpackWait DEF t
  <1>12. CASE l.status # "connected"
    <2> DEFINE held == (rest \ Dropped(l, id, rest)) \cup Held(l, id)
               settled == Dropped(l, id, rest)
    <2>1. Unpack(m, l, l.hist, {}, Held(l, id), settled, held)
      BY <1>10, <1>12
    <2> HIDE DEF held, settled
    <2>2. Ids(l.hist.nodes) \subseteq Ids(t) \cup l.new \cup settled
      BY <1>5
    <2> QED
      BY <1>7, <1>8, <1>9, <2>1, <2>2, UnpackWait DEF t
  <1> QED
    BY <1>11, <1>12

(* Unpacking an acknowledgment.                                              *)
LEMMA UnpackAcksWait ==
    ASSUME WaitInv, AckInv', NEW m \in Member, UnpackAcks(m)
    PROVE  WaitInv'
  <1>1. PICK msg \in net : msg.type = "ack" /\ UnpackAck(m, msg)
    BY DEF UnpackAcks
  <1> DEFINE l    == ProcessLineage(m, msg.from, msg.lineage)
             h1   == AcceptAck(l.hist, msg.id, msg.from)
             i    == FindIdx(h1.nodes, msg.id)
             refs == {a \in {[to |-> Everyone, id |-> msg.id, ref |-> TRUE]} :
                        /\ ~msg.ref /\ Author(msg.id) = m
                        /\ i >= FisIdx(l.hist) /\ Confirmed(h1.nodes[i])}
             t    == hist[m].nodes
  <1>2. /\ AckInv /\ ShapeInv /\ TypeOK /\ OneBranch(header)
        /\ Good(header, m, hist[m]) /\ Tidy(m, t)
    BY DEF WaitInv, AckInv, ShapeInv, IInv, HistoriesGood, Agreed, AllTidy
  <1>3. msg.id \in Gid /\ msg.from \in Member /\ msg.lineage \in Seq(Gid)
    BY <1>1, <1>2, MessageType DEF TypeOK
  <1>4. Linked(header, msg.lineage) /\ (msg.lineage # <<>> => msg.lineage[1] \in Old(header))
    BY <1>1, <1>2 DEF ShapeInv, AcksLinked, WaitInv, StartsOld
  <1>5. /\ Tidy(m, l.hist.nodes) /\ Ids(l.hist.nodes) = Ids(t) \cup l.new
    BY <1>2, <1>3, <1>4, ProcessTidy
  <1>6. Good(header, m, l.hist)
    BY <1>2, <1>3, <1>4, ProcessGood
  <1>7. \A x \in l.future : x \notin Ids(t) /\ CheckedIn(header, x)
    BY <1>2, <1>3, <1>4, FutureIs
  <1>8. /\ Unpack(m, l, h1, refs, {}, {}, inbox[m])
        /\ net' \in Remaining(msg) /\ header' = header
    BY <1>1 DEF UnpackAck
  <1>9. net' \subseteq net
    BY <1>2, <1>8, RemainingType
  <1> HIDE DEF l, refs, t
  <1>10. Ids(h1.nodes) = Ids(l.hist.nodes)
    BY <1>6, AcceptAckGood
  <1> HIDE DEF h1
  <1>11. Ids(h1.nodes) \subseteq Ids(t) \cup l.new \cup {}
    BY <1>5, <1>10
  <1> QED
    BY <1>7, <1>8, <1>9, <1>11, UnpackWait DEF t

(* Executing a script, or marking it missing, records nothing new.           *)
LEMMA ExecutionIds ==
    ASSUME ShapeInv, NEW m \in Member, ExecuteNext(m) \/ MarkMissing(m)
    PROVE  \A p \in Member : Ids(hist'[p].nodes) = Ids(hist[p].nodes)
  <1>1. Good(header, m, hist[m]) /\ Sound(hist[m]) /\ next[m] = NextOf(hist[m].nodes)
    BY NextKnown
  <1>2. next[m] # NoId
    BY CoopAssumption, NoIdType DEF ExecuteNext, MarkMissing, Gid
  <1>3. \E h1 : hist' = [hist EXCEPT ![m] = h1] /\ Ids(h1.nodes) = Ids(hist[m].nodes)
    <2>1. CASE ExecuteNext(m)
      <3> DEFINE h1 == ExecuteScript(hist[m], next[m])
      <3>1. hist' = [hist EXCEPT ![m] = h1]
        BY <2>1 DEF ExecuteNext
      <3>2. Ids(h1.nodes) = Ids(hist[m].nodes)
        BY <1>1, <1>2, ExecuteScriptGood
      <3> QED
        BY <3>1, <3>2
    <2>2. CASE MarkMissing(m)
      <3> DEFINE h1 == SetMissing(hist[m], next[m])
      <3>1. hist' = [hist EXCEPT ![m] = h1]
        BY <2>2 DEF MarkMissing
      <3>2. Ids(h1.nodes) = Ids(hist[m].nodes)
        BY <1>1, <1>2, SetMissingGood
      <3> QED
        BY <3>1, <3>2
    <2> QED
      BY <2>1, <2>2
  <1> QED
    BY <1>3 DEF ShapeInv, IInv, TypeOK

(* A new script is waited for by nobody.                                     *)
LEMMA CheckInWait ==
    ASSUME WaitInv, ShapeInv', NEW m \in Member, CheckIn(m)
    PROVE  WaitInv'
  <1>1. AckInv' /\ \E id \in Script : /\ HeaderAdded(header, header', id)
                                      /\ \A p \in Member :
                                            Ids(hist'[p].nodes) \subseteq Ids(hist[p].nodes) \cup {id}
    BY CheckInAck DEF WaitInv
  <1>2. PICK id \in Script : /\ HeaderAdded(header, header', id)
                             /\ \A p \in Member :
                                   Ids(hist'[p].nodes) \subseteq Ids(hist[p].nodes) \cup {id}
    BY <1>1
  <1>3. disconnected' = disconnected /\ inbox' = inbox /\ net' = net
    BY DEF CheckIn
  <1>4. \A x : CheckedIn(header, x) => CheckedIn(header', x) /\ x # id
    BY <1>2 DEF HeaderAdded, CheckedIn
  <1>5. Old(header) \subseteq Old(header')
    BY <1>4 DEF Old
  <1>6. StartsOld'
    BY <1>3, <1>5 DEF WaitInv, StartsOld
  <1>7. Pending'
    <2> SUFFICES ASSUME NEW p \in Member, NEW x \in disconnected[p]
                 PROVE  x \notin Ids(hist'[p].nodes) /\ x \notin inbox[p] /\ CheckedIn(header', x)
      BY <1>3 DEF Pending
    <2>1. x \notin Ids(hist[p].nodes) /\ x \notin inbox[p] /\ CheckedIn(header, x)
      BY DEF WaitInv, Pending
    <2> QED
      BY <1>2, <1>4, <2>1
  <1> QED
    BY <1>1, <1>6, <1>7 DEF WaitInv

(* The invariant is inductive.                                               *)
LEMMA StepWait == ASSUME WaitInv, [Next]_vars PROVE WaitInv'
  <1>1. AckInv /\ ShapeInv /\ TypeOK
    BY DEF WaitInv, AckInv, ShapeInv, IInv
  <1>2. AckInv' /\ ShapeInv'
    BY <1>1, StepAck DEF AckInv
  <1>3. CASE UNCHANGED vars
    <2>1. UNCHANGED <<hist, header, disconnected, inbox, net>>
      BY <1>3 DEF vars
    <2> QED
      BY <1>2, <2>1, MailWait
  <1>4. ASSUME NEW m \in Member, CheckIn(m) PROVE WaitInv'
    BY <1>2, <1>4, CheckInWait
  <1>5. ASSUME NEW m \in Member, Broadcast(m) \/ Crash(m) PROVE WaitInv'
    <2>1. /\ UNCHANGED <<hist, header, disconnected, inbox>>
          /\ \A b \in net' : b \in net \/ b.type # "ack"
      BY <1>5 DEF Broadcast, Crash
    <2> QED
      BY <1>2, <2>1, MailWait
  <1>6. ASSUME NEW m \in Member, NEW id \in Script, UnpackScript(m, id) PROVE WaitInv'
    BY <1>2, <1>6, UnpackScriptWait
  <1>7. ASSUME NEW m \in Member, UnpackAcks(m) PROVE WaitInv'
    BY <1>2, <1>7, UnpackAcksWait
  <1>8. ASSUME NEW m \in Member, SendAcknowledgments(m) PROVE WaitInv'
    <2>1. UNCHANGED <<hist, header, disconnected, inbox>>
      BY <1>8 DEF SendAcknowledgments
    <2>2. \A b \in net' : b \in net \/ NewAck(hist, b)
      BY <1>1, <1>8, SentAcks
    <2> QED
      BY <1>2, <2>1, <2>2, MailWait
  <1>9. ASSUME NEW m \in Member, RequestMissing(m) PROVE WaitInv'
    <2>1. PICK p \in Member, id \in MissingScripts(m) : RequestResend(m, id, p)
      BY <1>9 DEF RequestMissing
    <2>2. /\ UNCHANGED <<hist, header, disconnected, inbox>>
          /\ \A b \in net' : b \in net \/ b.type # "ack"
      BY <2>1 DEF RequestResend
    <2> QED
      BY <1>2, <2>2, MailWait
  <1>10. ASSUME NEW m \in Member, AnswerRequests(m) PROVE WaitInv'
    <2>1. PICK msg \in net : AnswerResend(m, msg)
      BY <1>10 DEF AnswerRequests
    <2>2. UNCHANGED <<hist, header, disconnected, inbox>>
      BY <2>1 DEF AnswerResend
    <2>3. PICK left \in Remaining(msg) : \A b \in net' : b \in left \/ b.type = "script"
      BY <2>1 DEF AnswerResend
    <2>4. left \subseteq net
      BY <1>1, RemainingType
    <2>5. \A b \in net' : b \in net \/ b.type # "ack"
      BY <2>3, <2>4
    <2> QED
      BY <1>2, <2>2, <2>5, MailWait
  <1>11. ASSUME NEW m \in Member, ExecuteNext(m) \/ MarkMissing(m) PROVE WaitInv'
    <2>1. UNCHANGED <<header, disconnected, inbox, net>>
      BY <1>11 DEF ExecuteNext, MarkMissing
    <2>2. \A p \in Member : Ids(hist'[p].nodes) = Ids(hist[p].nodes)
      BY <1>1, <1>11, ExecutionIds
    <2> QED
      BY <1>2, <2>1, <2>2, MailWait
  <1> QED
    BY <1>3, <1>4, <1>5, <1>6, <1>7, <1>8, <1>9, <1>10, <1>11 DEF Next

(* Hence it holds in every reachable state.                                  *)
LEMMA WaitHolds == Spec => []WaitInv
  <1>1. WaitInv /\ [Next]_vars => WaitInv'
    BY StepWait
  <1> QED
    BY <1>1, InitWait, PTL DEF Spec

(***************************************************************************)
(* When every script is recorded by everybody or in its inbox, no reference *)
(* from the future is left, and if anything is in an inbox, some script of  *)
(* it connects: the scripts that wait do not wait for one another.  The     *)
(* oldest of them in the history of the author of one of them starts with a *)
(* script that is recorded already.                                         *)
(***************************************************************************)
THEOREM NobodyStranded == Spec => []NothingStranded
  <1>1. ASSUME WaitInv PROVE NothingStranded
    <2> SUFFICES ASSUME NothingLost, NEW m \in Member
                 PROVE  /\ inbox[m] # {} => \E id \in inbox[m] :
                              ProcessLineage(m, Author(id), header[id]).status = "connected"
                        /\ disconnected[m] = {}
      BY DEF NothingStranded
    <2> DEFINE I == Ids(hist[m].nodes)
    <2>1. AckInv /\ ShapeInv /\ Backed(header, hist)
      BY <1>1, InvBacked DEF WaitInv, AckInv
    <2>2. inbox[m] \subseteq Script /\ \A id \in inbox[m] : header[id] # <<>>
      BY <2>1 DEF ShapeInv, IInv, TypeOK, MailCheckedIn
    <2>3. ASSUME NEW x, CheckedIn(header, x), x \notin I PROVE x \in inbox[m]
      <3>1. x \in Script /\ header[x] # <<>>
        BY <2>3 DEF CheckedIn
      <3>2. ~PresentAt(m, x)
        BY <2>3 DEF PresentAt, Ids
      <3> QED
        BY <3>1, <3>2 DEF NothingLost
    <2>4. disconnected[m] = {}
      BY <1>1, <2>3 DEF WaitInv, Pending
    <2>5. Root \in I
      <3>1. Tree(hist[m].nodes)
        BY <2>1, BackedFacts
      <3>2. hist[m].nodes[1].id = Root /\ 1 \in 1 .. Len(hist[m].nodes)
        BY <3>1, Places DEF Tree, Shaped
      <3> QED
        BY <3>1, <3>2, IdsAre DEF Tree
    <2>6. ASSUME NEW x \in inbox[m],
                 \A id \in inbox[m] :
                    ProcessLineage(m, Author(id), header[id]).status # "connected"
          PROVE  FALSE
      <3> DEFINE t == hist[Author(x)].nodes
                 S == {i \in 1 .. Len(t) : t[i].id \in inbox[m]}
                 i == Least(S, 0)
                 y == header[t[i].id][1]
      <3>1. ASSUME NEW id \in inbox[m] PROVE header[id][1] \in inbox[m]
        <4>1. /\ header[id] \in Seq(Gid) /\ Linked(header, header[id]) /\ header[id] # <<>>
              /\ header[id][1] \in Old(header)
          BY <2>1, <2>2, HeaderStartsOld
        <4>2. header[id][1] \notin I
          BY <2>1, <2>6, <4>1, KnownStartConnects
        <4>3. CheckedIn(header, header[id][1])
          BY <2>5, <4>1, <4>2 DEF Old
        <4> QED
          BY <2>3, <4>2, <4>3
      <3>2. Author(x) \in Member /\ x \in Ids(t)
        BY <2>1, <2>2, HeaderStartsOld
      <3>3. Tree(t) /\ Known(header, t) /\ t \in Seq(Node) /\ Shaped(t) /\ Len(t) \in Nat
        BY <2>1, <3>2, BackedFacts, Places DEF Tree
      <3>4. i \in S /\ \A j \in S : i <= j
        <4>1. PICK k \in 1 .. Len(t) : t[k].id = x
          BY <3>2, <3>3, IdsAre
        <4>2. k \in S /\ S \in SUBSET Nat
          BY <3>3, <4>1
        <4> HIDE DEF S
        <4> QED
          BY <4>2, LeastIs
      <3> HIDE DEF i, t
      <3>5. i \in 1 .. Len(t) /\ t[i].id \in inbox[m]
        BY <3>4
      <3>6. FindIdx(t, t[i].id) = i /\ t[i].id \in Ids(t)
        BY <3>3, <3>5, Places, IdsAre
      <3>7. CheckedIn(header, t[i].id) /\ header[t[i].id] \in Seq(Gid)
            /\ Linked(header, header[t[i].id])
        BY <2>1, <2>2, <3>5, HeaderStartsOld DEF CheckedIn
      <3>8. y \in Ids(t) /\ FindIdx(t, y) < i
        BY <3>3, <3>6, <3>7, StartInTree
      <3>9. y \in inbox[m]
        BY <3>1, <3>5
      <3> HIDE DEF y
      <3>10. FindIdx(t, y) \in 1 .. Len(t) /\ t[FindIdx(t, y)].id = y
        <4>1. FindIdx(t, y) \in 0 .. Len(t) /\ FindIdx(t, y) # 0 /\ t[FindIdx(t, y)].id = y
          BY <3>3, <3>8, FindIdxType
        <4> QED
          BY <3>3, <4>1
      <3>11. FindIdx(t, y) \in S
        BY <3>9, <3>10
      <3> QED
        BY <3>3, <3>4, <3>5, <3>8, <3>10, <3>11
    <2> QED
      BY <2>4, <2>6
  <1> QED
    BY <1>1, WaitHolds, PTL

----------------------------------------------------------------------------
(* The fifth inductive invariant: what is on its way when nothing is lost *)

(* The scripts recorded with their commands, not as placeholders.            *)
Present(t) == {t[i].id : i \in {j \in 1 .. Len(t) : ~t[j].mis}}

(* In m's history a script of another member awaits its author at most, and  *)
(* m never awaits itself.                                                   *)
Awaits(m, t) ==
    \A i \in 1 .. Len(t) :
        t[i].acks \subseteq IF Author(t[i].id) = m THEN Member \ {m} ELSE {Author(t[i].id)}

(***************************************************************************)
(* What happens to m's history when no script turns out unreadable: those   *)
(* in S become present, and acknowledgments are only struck off.            *)
(***************************************************************************)
Advances(m, t, u, S) ==
    /\ Present(u) = Present(t) \cup S
    /\ \A i \in 1 .. Len(t), j \in 1 .. Len(u) : t[i].id = u[j].id => u[j].acks \subseteq t[i].acks
    /\ Awaits(m, u)

(* Two such changes together.                                                *)
LEMMA AdvancesTwice ==
    ASSUME NEW m, NEW t \in Seq(Node), NEW u \in Seq(Node), NEW v, Ids(t) \subseteq Ids(u),
           NEW S, NEW T, Advances(m, t, u, S), Advances(m, u, v, T)
    PROVE  Advances(m, t, v, S \cup T)
  <1>1. ASSUME NEW i \in 1 .. Len(t), NEW k \in 1 .. Len(v), t[i].id = v[k].id
        PROVE  v[k].acks \subseteq t[i].acks
    <2>1. t[i].id \in Ids(u)
      BY IdsAre
    <2>2. PICK j \in 1 .. Len(u) : u[j].id = t[i].id
      BY <2>1, IdsAre
    <2>3. u[j].acks \subseteq t[i].acks
      BY <2>2 DEF Advances
    <2>4. v[k].acks \subseteq u[j].acks
      BY <1>1, <2>2 DEF Advances
    <2> QED
      BY <2>3, <2>4
  <1>2. Present(v) = Present(t) \cup (S \cup T)
    BY DEF Advances
  <1> QED
    BY <1>1, <1>2 DEF Advances

(* Changes to one node after another, in place.                              *)
LEMMA SameTreeAdvances ==
    ASSUME NEW m, NEW t, Tree(t), Awaits(m, t), NEW u, Len(u) = Len(t),
           \A i \in 1 .. Len(t) : /\ u[i].id = t[i].id /\ u[i].mis = t[i].mis
                                  /\ u[i].acks \subseteq t[i].acks
    PROVE  Advances(m, t, u, {})
  <1>1. \A i, j \in 1 .. Len(t) : t[i].id = t[j].id => i = j
    BY DEF Tree, Shaped
  <1>2. Present(u) = Present(t) \cup {}
    BY DEF Present
  <1>3. Awaits(m, u)
    BY DEF Awaits
  <1>4. \A i \in 1 .. Len(t), j \in 1 .. Len(u) : t[i].id = u[j].id => u[j].acks \subseteq t[i].acks
    BY <1>1
  <1> QED
    BY <1>2, <1>3, <1>4 DEF Advances

(* A history that stays as it is.                                            *)
LEMMA AdvancesNothing ==
    ASSUME NEW m, NEW t, Tree(t), Awaits(m, t)
    PROVE  Advances(m, t, t, {})
  BY SameTreeAdvances

(* Acknowledgments only.                                                     *)
LEMMA AcksAdvance ==
    ASSUME NEW m, NEW t, Tree(t), Awaits(m, t), NEW u, AcksOnly(t, u)
    PROVE  Advances(m, t, u, {})
  <1>1. Len(u) = Len(t) /\ \A i \in 1 .. Len(t) : /\ u[i].id = t[i].id /\ u[i].mis = t[i].mis
                                                  /\ u[i].acks \subseteq t[i].acks
    BY DEF AcksOnly
  <1> QED
    BY <1>1, SameTreeAdvances

(* Inserting a chain: its scripts that are not missing become present.       *)
LEMMA GrownAdvances ==
    ASSUME NEW t, Tree(t), NEW pred, NEW chain, Hangs(t, pred, chain),
           NEW p, NEW at, NEW t2, Grown(t, p, at, chain, t2), t[p].id = pred,
           NEW m, Awaits(m, t), Awaits(m, chain)
    PROVE  Advances(m, t, t2, Present(chain))
  <1> DEFINE n == Len(t)
             c == Len(chain)
             S(x) == Shift(x, at, c)
             New == at .. at + c - 1
  <1>1. /\ n \in Nat /\ c \in Nat \ {0} /\ Len(t2) = n + c /\ at \in Int
    <2>1. p \in 1 .. n /\ at \in p + 1 .. n + 1 /\ n \in Nat
      BY GrownPlaces
    <2>2. c \in Nat \ {0} /\ Len(t2) = n + c
      BY GrownPlaces
    <2> QED
      BY <2>1, <2>2
  <1>2. \A x \in 1 .. n : S(x) \in 1 .. Len(t2)
    BY GrownPlaces
  <1>3. \A i \in 1 .. Len(t2) : i \in New \/ \E x \in 1 .. n : i = S(x)
    BY GrownPlaces
  <1>4. \A x \in 1 .. n : t2[S(x)].id = t[x].id /\ t2[S(x)].acks = t[x].acks /\ t2[S(x)].mis = t[x].mis
    BY DEF Grown
  <1>5. \A i \in New : LET k == i - at + 1
                       IN  t2[i].id = chain[k].id /\ t2[i].acks = chain[k].acks /\ t2[i].mis = chain[k].mis
    BY DEF Grown
  <1>6. \A i \in New : i - at + 1 \in 1 .. c
    BY <1>1
  <1>7. \A k \in 1 .. c : at + k - 1 \in New /\ (at + k - 1) - at + 1 = k /\ at + k - 1 \in 1 .. Len(t2)
    <2>1. at \in 1 .. n + 1
      <3>1. p \in 1 .. n /\ at \in p + 1 .. n + 1
        BY GrownPlaces
      <3> QED
        BY <1>1, <3>1
    <2> QED
      BY <1>1, <2>1
  <1>8. \A k \in 1 .. c : chain[k].id \notin Ids(t)
    BY DEF Hangs
  <1>9. t \in Seq(Node) /\ \A x, y \in 1 .. n : t[x].id = t[y].id => x = y
    BY DEF Tree, Shaped
  <1>10. \A x \in 1 .. n : t[x].id \in Ids(t)
    BY <1>9, IdsAre
  <1> HIDE DEF n, c, S, New
  <1>11. Present(t2) \subseteq Present(t) \cup Present(chain)
    <2> SUFFICES ASSUME NEW i \in 1 .. Len(t2), ~t2[i].mis
                 PROVE  t2[i].id \in Present(t) \cup Present(chain)
      BY DEF Present
    <2>1. CASE i \in New
      <3>1. i - at + 1 \in 1 .. Len(chain) /\ t2[i].id = chain[i - at + 1].id /\ ~chain[i - at + 1].mis
        BY <1>5, <1>6, <2>1 DEF c
      <3> QED
        BY <3>1 DEF Present
    <2>2. CASE \E x \in 1 .. n : i = S(x)
      <3>1. PICK x \in 1 .. n : i = S(x)
        BY <2>2
      <3>2. t2[i].id = t[x].id /\ ~t[x].mis /\ x \in 1 .. Len(t)
        BY <1>4, <3>1 DEF n
      <3> QED
        BY <3>2 DEF Present
    <2> QED
      BY <1>3, <2>1, <2>2
  <1>12. Present(t) \subseteq Present(t2)
    <2> SUFFICES ASSUME NEW x \in 1 .. Len(t), ~t[x].mis
                 PROVE  t[x].id \in Present(t2)
      BY DEF Present
    <2>1. S(x) \in 1 .. Len(t2) /\ t2[S(x)].id = t[x].id /\ ~t2[S(x)].mis
      BY <1>2, <1>4 DEF n
    <2> QED
      BY <2>1 DEF Present
  <1>13. Present(chain) \subseteq Present(t2)
    <2> SUFFICES ASSUME NEW k \in 1 .. Len(chain), ~chain[k].mis
                 PROVE  chain[k].id \in Present(t2)
      BY DEF Present
    <2> DEFINE i == at + k - 1
    <2>1. i \in New /\ i - at + 1 = k /\ i \in 1 .. Len(t2)
      BY <1>7 DEF c
    <2> HIDE DEF i
    <2>2. t2[i].id = chain[k].id /\ ~t2[i].mis
      BY <1>5, <2>1
    <2> QED
      BY <2>1, <2>2 DEF Present
  <1>14. ASSUME NEW x \in 1 .. n, NEW j \in 1 .. Len(t2), t[x].id = t2[j].id
         PROVE  t2[j].acks \subseteq t[x].acks
    <2>1. j \notin New
      BY <1>5, <1>6, <1>8, <1>10, <1>14
    <2>2. PICK y \in 1 .. n : j = S(y)
      BY <1>3, <2>1
    <2>3. y = x
      BY <1>4, <1>9, <1>14, <2>2
    <2> QED
      BY <1>4, <2>2, <2>3
  <1>15. Awaits(m, t2)
    <2> SUFFICES ASSUME NEW i \in 1 .. Len(t2)
                 PROVE  t2[i].acks \subseteq IF Author(t2[i].id) = m THEN Member \ {m}
                                             ELSE {Author(t2[i].id)}
      BY DEF Awaits
    <2>1. CASE i \in New
      <3>1. i - at + 1 \in 1 .. Len(chain) /\ t2[i].id = chain[i - at + 1].id
            /\ t2[i].acks = chain[i - at + 1].acks
        BY <1>5, <1>6, <2>1 DEF c
      <3> QED
        BY <3>1 DEF Awaits
    <2>2. CASE \E x \in 1 .. n : i = S(x)
      <3>1. PICK x \in 1 .. n : i = S(x)
        BY <2>2
      <3>2. t2[i].id = t[x].id /\ t2[i].acks = t[x].acks /\ x \in 1 .. Len(t)
        BY <1>4, <3>1 DEF n
      <3> QED
        BY <3>2 DEF Awaits
    <2> QED
      BY <1>3, <2>1, <2>2
  <1>16. Present(t2) = Present(t) \cup Present(chain)
    BY <1>11, <1>12, <1>13
  <1> QED
    BY <1>14, <1>15, <1>16 DEF Advances, n

(* Inserting placeholders makes none of them present.                        *)
LEMMA InsertMissingAdvances ==
    ASSUME NEW hdr, OneBranch(hdr), NEW m, NEW h, Good(hdr, m, h), Awaits(m, h.nodes),
           NEW pred \in Ids(h.nodes), NEW ids \in Seq(Gid), Unheard(hdr, m, h.nodes, pred, ids)
    PROVE  Advances(m, h.nodes, InsertMissing(h, pred, ids).nodes, {})
  <1> DEFINE chain == MissingChain(pred, ids)
             t == h.nodes
  <1>1. h \in History /\ Tree(t)
    BY DEF Good, Sound
  <1>2. CASE ids = <<>>
    <2>1. InsertMissing(h, pred, ids) = h
      BY <1>2 DEF InsertMissing
    <2> QED
      BY <1>1, <2>1, AdvancesNothing
  <1>3. CASE ids # <<>>
    <2>1. InsertMissing(h, pred, ids) = InsertChain(h, pred, chain)
      BY <1>3 DEF InsertMissing
    <2>2. Hangs(t, pred, chain) /\ \A k \in 1 .. Len(chain) : Author(chain[k].id) # m
      BY <1>3, MissingChainHangs
    <2>3. Len(chain) = Len(ids)
      BY ArrayType DEF MissingChain
    <2>4. \A k \in 1 .. Len(chain) : chain[k].mis /\ chain[k].acks = {Author(chain[k].id)}
      <3>1. ASSUME NEW k \in 1 .. Len(ids)
            PROVE  \E q : chain[k] = MissingNode(ids[k], q)
        BY DEF MissingChain
      <3>2. \A id, q : LET n == MissingNode(id, q) IN n.id = id /\ n.mis /\ n.acks = {Author(id)}
        BY DEF MissingNode, ScriptNode
      <3> HIDE DEF chain
      <3> QED
        BY <2>3, <3>1, <3>2
    <2> HIDE DEF chain
    <2>5. Present(chain) = {}
      BY <2>4 DEF Present
    <2>6. Awaits(m, chain)
      BY <2>2, <2>4 DEF Awaits
    <2>7. Advances(m, t, InsertChain(h, pred, chain).nodes, Present(chain))
      <3> DEFINE p  == FindIdx(t, pred)
                 at == InsertionIdx(t, p, Author(chain[1].id))
                 t2 == InsertChain(h, pred, chain).nodes
      <3>1. Grown(t, p, at, chain, t2) /\ t[p].id = pred
        BY <1>1, <2>2, InsertChainGrows
      <3> HIDE DEF p, at, t2
      <3>2. Advances(m, t, t2, Present(chain))
        BY <1>1, <2>2, <2>6, <3>1, GrownAdvances
      <3> QED
        BY <3>2 DEF t2
    <2> QED
      BY <2>1, <2>5, <2>7
  <1> QED
    BY <1>2, <1>3

(* Recording one new script.                                                 *)
LEMMA InsertNewAdvances ==
    ASSUME NEW h \in History, Tree(h.nodes), NEW n \in Node, Hangs(h.nodes, n.pred, <<n>>), ~n.mis,
           NEW m, Awaits(m, h.nodes),
           n.acks \subseteq IF Author(n.id) = m THEN Member \ {m} ELSE {Author(n.id)}
    PROVE  Advances(m, h.nodes, InsertNewNode(h, n).nodes, {n.id})
  <1> DEFINE t == h.nodes
             chain == <<n>>
             p  == FindIdx(t, n.pred)
             at == InsertionIdx(t, p, Author(chain[1].id))
             t2 == InsertChain(h, n.pred, chain).nodes
  <1>1. InsertNewNode(h, n) = InsertChain(h, n.pred, chain)
    BY DEF InsertNewNode
  <1>2. Hangs(t, n.pred, chain) /\ chain[1] = n /\ Len(chain) = 1
    OBVIOUS
  <1> HIDE DEF chain
  <1>3. \A k \in 1 .. Len(chain) : k = 1
    BY <1>2
  <1>4. Present(chain) = {n.id}
    <2>1. 1 \in 1 .. Len(chain)
      BY <1>2
    <2> QED
      BY <1>2, <1>3, <2>1 DEF Present
  <1>5. Awaits(m, chain)
    BY <1>2, <1>3 DEF Awaits
  <1>6. Grown(t, p, at, chain, t2) /\ t[p].id = n.pred
    BY <1>2, InsertChainGrows
  <1> HIDE DEF p, at, t2
  <1>7. Advances(m, t, t2, Present(chain))
    BY <1>2, <1>5, <1>6, GrownAdvances
  <1> QED
    BY <1>1, <1>4, <1>7 DEF t2

(* Processing a lineage.                                                     *)
LEMMA ProcessAdvances ==
    ASSUME OneBranch(header), NEW m \in Member, Good(header, m, hist[m]), Awaits(m, hist[m].nodes),
           NEW from, NEW lin \in Seq(Gid), Linked(header, lin)
    PROVE  Advances(m, hist[m].nodes, ProcessLineage(m, from, lin).hist.nodes, {})
  <1> DEFINE l == ProcessLineage(m, from, lin)
             t == hist[m].nodes
  <1>1. CASE lin # <<>> /\ Connects(m, lin)
    <2> DEFINE L   == LastMatched(t, lin)
               new == GoodPart(m, UnmatchedIds(t, lin))
    <2>1. FirstKnown(t, lin) # 0
      BY <1>1 DEF Connects
    <2>2. l = ConnectedLineage(m, from, lin)
      BY <1>1 DEF ProcessLineage
    <2> HIDE DEF l
    <2>3. /\ lin[L] \in Ids(t) /\ new \in Seq(Gid) /\ Unheard(header, m, t, lin[L], new)
          /\ l.hist = InsertMissing(hist[m], lin[L], new)
      BY <2>1, <2>2, ConnectedNews
    <2> HIDE DEF L, new
    <2> QED
      BY <2>3, InsertMissingAdvances DEF l
  <1>2. CASE ~(lin # <<>> /\ Connects(m, lin))
    <2>1. l.hist = hist[m]
      BY <1>2 DEF ProcessLineage, LineageWithoutNews
    <2>2. Tree(t)
      BY DEF Good, Sound
    <2> QED
      BY <2>1, <2>2, AdvancesNothing
  <1> QED
    BY <1>1, <1>2

(* A script that takes the place of its placeholder becomes present.         *)
LEMMA SubstituteAdvances ==
    ASSUME NEW h, Sound(h), NEW m, Awaits(m, h.nodes), NEW n \in Node, NEW i \in 1 .. Len(h.nodes),
           h.nodes[i].id = n.id, h.nodes[i].pred = n.pred, ~n.mis,
           n.acks \subseteq h.nodes[i].acks
    PROVE  Advances(m, h.nodes, SubstituteNode(h, n).nodes, {n.id})
  <1> DEFINE t == h.nodes
             v == [n EXCEPT !.rej = t[i].rej, !.bp = t[i].bp]
             u == Replace(t, i, v)
  <1>1. t \in Seq(Node) /\ t[i] \in Node /\ h \in History /\ \A x, y \in 1 .. Len(t) : t[x].id = t[y].id => x = y
    BY ArrayType DEF Sound, Tree, Shaped
  <1>2. FindIdx(t, n.id) = i
    BY Places DEF Sound, Tree
  <1>3. v \in Node /\ v.id = t[i].id /\ v.pred = t[i].pred /\ v.bp = t[i].bp /\ v.rej = t[i].rej
        /\ v.mis = n.mis /\ v.acks = n.acks
    <2>1. t[i].rej \in BOOLEAN /\ t[i].bp \in BOOLEAN
      BY <1>1 DEF Node
    <2>2. ASSUME NEW r \in BOOLEAN, NEW b \in BOOLEAN
          PROVE  LET w == [n EXCEPT !.rej = r, !.bp = b]
                 IN  /\ w \in Node /\ w.id = n.id /\ w.pred = n.pred
                     /\ w.bp = b /\ w.rej = r /\ w.mis = n.mis /\ w.acks = n.acks
      BY DEF Node
    <2> QED
      BY <2>1, <2>2
  <1>4. SubstituteNode(h, n) = [h EXCEPT !.nodes = u]
    BY <1>2 DEF SubstituteNode
  <1> HIDE DEF v
  <1>5. /\ SameTree(t, u) /\ u[i] = v /\ \A j \in 1 .. Len(t) : j # i => u[j] = t[j]
        /\ [h EXCEPT !.nodes = u].nodes = u
    BY <1>1, <1>3, ReplacedTree
  <1> HIDE DEF u
  <1>6. Len(u) = Len(t) /\ \A j \in 1 .. Len(t) : u[j].id = t[j].id /\ u[j].acks \subseteq t[j].acks
    BY <1>3, <1>5 DEF SameTree
  <1>7. Present(u) = Present(t) \cup {n.id}
    <2>1. ASSUME NEW j \in 1 .. Len(t)
          PROVE  ~u[j].mis <=> (~t[j].mis \/ j = i)
      BY <1>3, <1>5
    <2> QED
      BY <1>6, <2>1 DEF Present
  <1>8. Awaits(m, u)
    BY <1>6 DEF Awaits
  <1>9. Advances(m, t, u, {n.id})
    BY <1>1, <1>6, <1>7, <1>8 DEF Advances
  <1> QED
    BY <1>4, <1>5, <1>9

(* Recording a received script: afterwards it is present.                    *)
LEMMA WithScriptAdvances ==
    ASSUME TypeOK, OneBranch(header), NEW m \in Member, NEW h, Good(header, m, h), Awaits(m, h.nodes),
           OwnPresent(m, h.nodes),
           NEW id \in Script, header[id] # <<>>, Last(header[id]) \in Ids(h.nodes),
           Author(id) = m => id \in Ids(h.nodes)
    PROVE  Advances(m, h.nodes, WithScript(h, id).nodes, {id})
  <1> DEFINE t    == h.nodes
             i    == FindIdx(t, id)
             acks == IF i # 0 /\ Confirmed(t[i]) THEN {} ELSE {Author(id)}
             n    == ScriptNode(id, LastOf(header[id]), acks, FALSE)
  <1>1. h \in History /\ Tree(t) /\ t \in Seq(Node) /\ Sound(h) /\ Known(header, t)
    BY DEF Good, Sound, Tree
  <1>2. id \in Gid /\ Author(id) \in Member /\ CheckedIn(header, id)
    BY ScriptType DEF CheckedIn
  <1>3. header[id] \in Seq(Gid)
    BY DEF TypeOK, Lineage
  <1>4. acks \in SUBSET User /\ acks \subseteq {Author(id)} /\ (acks = {} <=> i # 0 /\ Confirmed(t[i]))
    BY <1>2 DEF User
  <1> HIDE DEF acks
  <1>5. n \in Node
    BY <1>2, <1>3, <1>4, LastOfType, ScriptNodeType
  <1>6. /\ n.id = id /\ n.pred = Last(header[id]) /\ ~n.exe /\ ~n.rej /\ ~n.bp /\ ~n.mis
        /\ n.acks = acks
    BY LastIs DEF ScriptNode
  <1>7. WithScript(h, id) = IF i = 0 THEN InsertNewNode(h, n)
                            ELSE IF t[i].mis THEN SubstituteNode(h, n) ELSE h
    BY DEF WithScript, acks
  <1> HIDE DEF n
  <1>8. i \in 0 .. Len(t) /\ (i # 0 => t[i].id = id) /\ (i = 0 <=> id \notin Ids(t))
    BY <1>1, FindIdxType
  <1>9. CASE i = 0
    <2>1. /\ n.id \notin Ids(t) /\ Author(n.id) # m /\ n.pred \in Ids(t)
          /\ CheckedIn(header, n.id) /\ Last(header[n.id]) = n.pred
      BY <1>2, <1>6, <1>8, <1>9
    <2>2. Hangs(t, n.pred, <<n>>)
      BY <1>5, <1>6, <2>1, ReceivedHangs
    <2>3. n.acks \subseteq IF Author(n.id) = m THEN Member \ {m} ELSE {Author(n.id)}
      BY <1>4, <1>6, <2>1
    <2>4. Advances(m, t, InsertNewNode(h, n).nodes, {n.id})
      BY <1>1, <1>5, <1>6, <2>2, <2>3, InsertNewAdvances
    <2> QED
      BY <1>6, <1>7, <1>9, <2>4
  <1>10. CASE i # 0 /\ t[i].mis
    <2>1. i \in 1 .. Len(t) /\ t[i].id = n.id /\ Len(t) \in Nat
      BY <1>1, <1>6, <1>8, <1>10, NodesType
    <2>2. i # 1
      BY <1>1, <1>10 DEF Sound, RootSettled
    <2>3. t[i].pred = n.pred
      BY <1>1, <1>6, <2>1, <2>2 DEF Known
    <2>4. Author(id) # m
      BY <1>6, <1>10, <2>1 DEF OwnPresent
    <2>5. n.acks \subseteq t[i].acks
      <3>1. t[i].acks \subseteq {Author(id)}
        BY <1>6, <2>1, <2>4 DEF Awaits
      <3> QED
        BY <1>4, <1>6, <1>10, <3>1 DEF Confirmed
    <2>6. Advances(m, t, SubstituteNode(h, n).nodes, {n.id})
      BY <1>1, <1>5, <1>6, <2>1, <2>3, <2>5, SubstituteAdvances
    <2> QED
      BY <1>6, <1>7, <1>10, <2>6
  <1>11. CASE i # 0 /\ ~t[i].mis
    <2>1. WithScript(h, id) = h
      BY <1>7, <1>11
    <2>2. Advances(m, t, t, {})
      BY <1>1, AdvancesNothing
    <2>3. id \in Present(t)
      <3>1. i \in 1 .. Len(t) /\ t[i].id = id
        BY <1>1, <1>8, <1>11, NodesType
      <3> QED
        BY <1>11, <3>1 DEF Present
    <2>4. Advances(m, t, t, {id})
      BY <2>2, <2>3 DEF Advances
    <2> QED
      BY <2>1, <2>4
  <1> QED
    BY <1>9, <1>10, <1>11

(* Executing the next script.                                                *)
LEMMA ExecuteAdvances ==
    ASSUME NEW h, Sound(h), NEW m, Awaits(m, h.nodes), NextOf(h.nodes) # NoId
    PROVE  Advances(m, h.nodes, ExecuteScript(h, NextOf(h.nodes)).nodes, {})
  <1> DEFINE t  == h.nodes
             i  == FindIdx(t, NextOf(t))
             h2 == SetExecuted(h, NextOf(t))
             v  == h2.nodes
             h1 == ExecuteScript(h, NextOf(t))
             u  == h1.nodes
  <1>1. /\ Sound(h2) /\ SameTree(t, v)
        /\ i \in 1 .. Len(t)
        /\ \A j \in 1 .. Len(t) : v[j].mis = t[j].mis
        /\ Overtakes(t, v)
    BY SetExecutedSound
  <1>2. h1 = IF Confirmed(v[i]) THEN ConfirmAllOlderNodes(h2, i) ELSE h2
    BY DEF ExecuteScript
  <1>3. Tree(t) /\ t \in Seq(Node) /\ h2 \in History /\ Tree(v) /\ v \in Seq(Node) /\ SettledIn(v, h2.fis)
    BY <1>1 DEF Sound, Tree
  <1> HIDE DEF i, h2, h1
  <1>4. Advances(m, t, v, {})
    <2>1. Len(v) = Len(t) /\ \A j \in 1 .. Len(t) : v[j].id = t[j].id
      BY <1>1 DEF SameTree
    <2>2. \A j \in 1 .. Len(t) : v[j].acks \subseteq t[j].acks
      BY <1>1 DEF Overtakes, Confirmed
    <2> QED
      BY <1>1, <1>3, <2>1, <2>2, SameTreeAdvances
  <1>5. CASE ~Confirmed(v[i])
    BY <1>2, <1>4, <1>5 DEF h1
  <1>6. CASE Confirmed(v[i])
    <2>1. AcksOnly(v, u)
      BY <1>2, <1>3, <1>6, ConfirmAcks
    <2>2. Advances(m, v, u, {})
      BY <1>3, <1>4, <2>1, AcksAdvance DEF Advances
    <2>3. u \in Seq(Node) /\ Ids(t) \subseteq Ids(v)
      BY <1>1, <1>3, <2>1, IdsAre DEF AcksOnly, SameTree
    <2>4. Advances(m, t, u, {} \cup {})
      BY <1>3, <1>4, <2>2, <2>3, AdvancesTwice
    <2> QED
      BY <2>4 DEF h1
  <1> QED
    BY <1>5, <1>6

(* Accepting an acknowledgment.                                              *)
LEMMA AcceptAdvances ==
    ASSUME NEW h, Sound(h), NEW m, Awaits(m, h.nodes), NEW id, NEW from
    PROVE  Advances(m, h.nodes, AcceptAck(h, id, from).nodes, {})
  <1>1. h \in History /\ SettledIn(h.nodes, h.fis) /\ Tree(h.nodes)
    BY DEF Sound
  <1>2. AcksOnly(h.nodes, AcceptAck(h, id, from).nodes)
    BY <1>1, AcceptAcks
  <1> QED
    BY <1>1, <1>2, AcksAdvance

(* Checking in.                                                              *)
LEMMA CheckInAdvances ==
    ASSUME NEW hdr, NEW m \in Member, NEW h, Good(hdr, m, h), Awaits(m, h.nodes),
           NEW tip, Done(h.nodes, tip), NEW n \in Node,
           n.pred = h.nodes[tip].id, n.id \notin Ids(h.nodes), Author(n.id) = m,
           n.exe, ~n.mis, ~n.rej, ~n.bp, n.acks = Member \ {m},
           CheckedIn(hdr, n.id), Last(hdr[n.id]) = n.pred,
           ~HasIncomingOrMissingScripts(h) \/ HasToBeRejectedScripts(h)
    PROVE  LET h1 == InsertNewNode(h, n)
               h2 == IF Confirmed(n) THEN ConfirmAllOlderNodes(h1, FindIdx(h1.nodes, n.id)) ELSE h1
           IN  Advances(m, h.nodes, h2.nodes, {n.id})
  <1> DEFINE t  == h.nodes
             h1 == InsertNewNode(h, n)
             v  == h1.nodes
             h2 == IF Confirmed(n) THEN ConfirmAllOlderNodes(h1, FindIdx(v, n.id)) ELSE h1
             u  == h2.nodes
  <1>1. Hangs(t, n.pred, <<n>>)
    BY CheckInHangs
  <1>2. h \in History /\ Tree(t) /\ t \in Seq(Node)
    BY DEF Good, Sound, Tree
  <1>3. Good(hdr, m, h1) /\ Ids(v) = Ids(t) \cup {n.id}
    BY CheckInGood
  <1>4. Advances(m, t, v, {n.id})
    BY <1>1, <1>2, InsertNewAdvances
  <1> HIDE DEF h1
  <1>5. h1 \in History /\ SettledIn(v, h1.fis) /\ Tree(v) /\ v \in Seq(Node)
    BY <1>3 DEF Good, Sound, Tree
  <1>6. CASE ~Confirmed(n)
    BY <1>4, <1>6 DEF h1
  <1>7. CASE Confirmed(n)
    <2>1. AcksOnly(v, u)
      BY <1>5, <1>7, ConfirmAcks
    <2> HIDE DEF u, h2, v
    <2>2. Advances(m, v, u, {}) /\ u \in Seq(Node)
      <3>1. Awaits(m, v)
        BY <1>4 DEF Advances
      <3>2. u \in Seq(Node)
        BY <2>1 DEF AcksOnly
      <3> QED
        BY <1>5, <2>1, <3>1, <3>2, AcksAdvance
    <2>3. Advances(m, t, u, {n.id} \cup {})
      BY <1>2, <1>3, <1>4, <1>5, <2>2, AdvancesTwice
    <2>4. {n.id} \cup {} = {n.id}
      OBVIOUS
    <2>5. Advances(m, t, u, {n.id})
      BY <2>3, <2>4
    <2> QED
      BY <2>5 DEF u, h2, v, h1
  <1> QED
    BY <1>6, <1>7

----------------------------------------------------------------------------
(* What is still on its way *)

(* The members' histories only learn, reject and strike off.                 *)
Moved(t, u) ==
    /\ Ids(t) \subseteq Ids(u)
    /\ \A i \in 1 .. Len(t), j \in 1 .. Len(u) :
          t[i].id = u[j].id => (t[i].rej => u[j].rej) /\ u[j].acks \subseteq t[i].acks

AllMoved(H, H1) == \A p \in Member : Moved(H[p].nodes, H1[p].nodes)

AwaitsAll(H) == \A m \in Member : Awaits(m, H[m].nodes)

(* A script checked in is at every other member, or on its way there.        *)
OnItsWay(hdr, H, ib, out, nt) ==
    \A s \in Script : \A p \in Member \ {Author(s)} :
        CheckedIn(hdr, s) =>
            \/ s \in Present(H[p].nodes) \/ s \in ib[p] \/ out[Author(s)] = s
            \/ [type |-> "script", id |-> s, to |-> p] \in nt

(* p has x and all it is built upon, and knows of nothing it loses against:  *)
(* then p owes its author an acknowledgment.                                *)
Owes(hdr, H, p, x) ==
    /\ CheckedIn(hdr, x) /\ p # Author(x)
    /\ \A y : Anc(hdr, y, x) => y \in Present(H[p].nodes)
    /\ ~Loses(hdr, IdsOf(H, p), x)

AckMailed(bx, nt, p, x) ==
    \/ [to |-> Author(x), id |-> x, ref |-> FALSE] \in bx[p].must
    \/ \E b \in nt : b.type = "ack" /\ ~b.ref /\ b.id = x /\ b.from = p

AckTaken(H, p, x) ==
    \A i \in 1 .. Len(H[Author(x)].nodes) :
        LET n == H[Author(x)].nodes[i]
        IN  n.id = x => n.rej \/ p \notin n.acks

AcksOwed(hdr, H, bx, nt) ==
    \A p \in Member, x \in Script :
        Owes(hdr, H, p, x) => AckMailed(bx, nt, p, x) \/ AckTaken(H, p, x)

ConfirmedAt(H, m, z) ==
    \E i \in 1 .. Len(H[m].nodes) :
        H[m].nodes[i].id = z /\ ~H[m].nodes[i].rej /\ Confirmed(H[m].nodes[i])

(* A make-reference for w is on its way to p.                                *)
RefMailed(bx, nt, w, p) ==
    \/ [to |-> Everyone, id |-> w, ref |-> TRUE] \in bx[Author(w)].must
    \/ \E b \in nt : b.type = "ack" /\ b.ref /\ b.id = w /\ b.to = p

(* ... and it will confirm z at p, because p has recorded w behind z.        *)
RefDue(hdr, H, bx, nt, p, z) ==
    \E w \in Script : /\ Anc(hdr, z, w) /\ w \in IdsOf(H, p) /\ p # Author(w)
                      /\ RefMailed(bx, nt, w, p)

RefsOwed(hdr, H, bx, nt) ==
    \A m, p \in Member : \A z :
        ConfirmedAt(H, m, z) => ConfirmedAt(H, p, z) \/ RefDue(hdr, H, bx, nt, p, z)

(* Who is no longer awaited by an own script not confirmed yet has recorded  *)
(* it, also when it was rejected meanwhile.                                 *)
OwnHeard(H) ==
    \A m \in Member : \A i \in 1 .. Len(H[m].nodes) :
        LET n == H[m].nodes[i]
        IN  Author(n.id) = m /\ ~Confirmed(n) =>
                \A p \in Member \ ({m} \cup n.acks) : n.id \in IdsOf(H, p)

ConfirmedIn(t, id) == \E i \in 1 .. Len(t) : t[i].id = id /\ Confirmed(t[i])

AcksSent(H, nt) ==
    \A b \in nt : b.type = "ack" =>
        b.from # b.to /\ (b.ref => ConfirmedIn(H[b.from].nodes, b.id))

(***************************************************************************)
(* The invariant when no program stops before its mail is sent, no script   *)
(* turns out unreadable, and none is taken for prehistoric.                 *)
(***************************************************************************)
Lossless ==
    /\ AckInv /\ AwaitsAll(hist)
    /\ OnItsWay(header, hist, inbox, outgoing, net)
    /\ AcksOwed(header, hist, box, net) /\ RefsOwed(header, hist, box, net)
    /\ OwnHeard(hist) /\ AcksSent(hist, net)

(* A change of one member's history moves it.                                *)
LEMMA CarriedMoved ==
    ASSUME NEW m, NEW t, NEW u, NEW S, Carried(m, t, u), Advances(m, t, u, S)
    PROVE  Moved(t, u)
  BY DEF Carried, Advances, Moved

(* A history that stays as it is.                                            *)
LEMMA SameMoved == ASSUME NEW t, Tree(t) PROVE Moved(t, t)
  BY DEF Moved, Tree, Shaped

(* An acknowledgment once taken stays taken.                                 *)
LEMMA TakenStays ==
    ASSUME NEW hdr, NEW H, Backed(hdr, H), NEW H1, AllMoved(H, H1),
           NEW p, NEW x \in Script, CheckedIn(hdr, x), AckTaken(H, p, x)
    PROVE  AckTaken(H1, p, x)
  <1> DEFINE a == Author(x)
             t == H[a].nodes
             u == H1[a].nodes
  <1>1. a \in Member /\ x \in IdsOf(H, a)
    BY ScriptType DEF Backed
  <1>2. PICK i \in 1 .. Len(t) : t[i].id = x
    BY <1>1, BackedFacts
  <1>3. Moved(t, u)
    BY <1>1 DEF AllMoved
  <1>4. t[i].rej \/ p \notin t[i].acks
    BY <1>2 DEF AckTaken
  <1> HIDE DEF t, u
  <1>5. \A j \in 1 .. Len(u) : u[j].id = x => u[j].rej \/ p \notin u[j].acks
    BY <1>2, <1>3, <1>4 DEF Moved
  <1> QED
    BY <1>5 DEF AckTaken, u, a

(* What is owed, from step to step.                                          *)
LEMMA OwedStep ==
    ASSUME NEW hdr, NEW H, Backed(hdr, H), NEW hdr1, NEW H1, AllMoved(H, H1),
           NEW bx, NEW nt, AcksOwed(hdr, H, bx, nt), NEW bx1, NEW nt1,
           \A p \in Member, x \in Script :
              Owes(hdr1, H1, p, x) => Owes(hdr, H, p, x) \/ AckMailed(bx1, nt1, p, x),
           \A p \in Member, x \in Script :
              AckMailed(bx, nt, p, x) /\ p # Author(x) =>
                 AckMailed(bx1, nt1, p, x) \/ AckTaken(H1, p, x)
    PROVE  AcksOwed(hdr1, H1, bx1, nt1)
  <1> SUFFICES ASSUME NEW p \in Member, NEW x \in Script, Owes(hdr1, H1, p, x),
                      ~AckMailed(bx1, nt1, p, x)
               PROVE  AckTaken(H1, p, x)
    BY DEF AcksOwed
  <1>1. Owes(hdr, H, p, x) /\ CheckedIn(hdr, x) /\ p # Author(x)
    BY DEF Owes
  <1>2. AckMailed(bx, nt, p, x) \/ AckTaken(H, p, x)
    BY <1>1 DEF AcksOwed
  <1> QED
    BY <1>1, <1>2, TakenStays

(* With the same scripts present nobody owes more.                           *)
LEMMA OwesNoMore ==
    ASSUME NEW hdr, NEW H, NEW H1, NEW p, NEW x, Owes(hdr, H1, p, x),
           Present(H1[p].nodes) \subseteq Present(H[p].nodes), IdsOf(H, p) \subseteq IdsOf(H1, p)
    PROVE  Owes(hdr, H, p, x)
  <1>1. ~Loses(hdr, IdsOf(H, p), x)
    BY LosesMore DEF Owes
  <1> QED
    BY <1>1 DEF Owes

(* A script once confirmed stays so.                                         *)
LEMMA ConfirmedAtStays ==
    ASSUME NEW hdr, NEW H, Backed(hdr, H), AllConfirmedFinal(hdr, H),
           NEW hdr1, NEW H1, Backed(hdr1, H1), AllMoved(H, H1),
           \A x : Final(hdr, H, x) => Final(hdr1, H1, x),
           NEW p \in Member, NEW z, ConfirmedAt(H, p, z)
    PROVE  ConfirmedAt(H1, p, z) /\ Final(hdr1, H1, z)
  <1> DEFINE t == H[p].nodes
             u == H1[p].nodes
  <1>1. PICK i \in 1 .. Len(t) : t[i].id = z /\ ~t[i].rej /\ Confirmed(t[i])
    BY DEF ConfirmedAt
  <1>2. Final(hdr1, H1, z)
    BY <1>1 DEF AllConfirmedFinal, ConfirmedFinal
  <1>3. z \in IdsOf(H1, p) /\ ~Loses(hdr1, IdsOf(H1, p), z)
    BY <1>2 DEF Final
  <1>4. PICK j \in 1 .. Len(u) : u[j].id = z
    BY <1>3, BackedFacts
  <1>5. ~u[j].rej
    BY <1>3, <1>4, BackedFacts
  <1>6. Moved(t, u)
    BY DEF AllMoved
  <1> HIDE DEF t, u
  <1>7. Confirmed(u[j])
    BY <1>1, <1>4, <1>6 DEF Moved, Confirmed
  <1> QED
    BY <1>2, <1>4, <1>5, <1>7 DEF ConfirmedAt, u

(* Nothing final is lost, and who is behind a recorded script stays there.   *)
FinalStill(hdr, H, hdr1, H1) ==
    /\ \A x : Final(hdr, H, x) => Final(hdr1, H1, x)
    /\ \A p \in Member : \A w \in IdsOf(H, p) : \A z : Anc(hdr, z, w) => Anc(hdr1, z, w)

(* What is newly confirmed somewhere is due to be confirmed everywhere.      *)
ConfirmsDue(hdr1, H, H1, bx1, nt1) ==
    \A m \in Member : \A z : ConfirmedAt(H1, m, z) =>
        \/ \E q \in Member : ConfirmedAt(H, q, z)
        \/ \A p \in Member : ConfirmedAt(H1, p, z) \/ RefDue(hdr1, H1, bx1, nt1, p, z)

(* A make-reference leaves the mail only by confirming what is due.          *)
RefsKept(hdr1, H, H1, bx, nt, bx1, nt1) ==
    \A w \in Script, p \in Member : RefMailed(bx, nt, w, p) /\ p # Author(w) =>
        \/ RefMailed(bx1, nt1, w, p)
        \/ \A z : Final(hdr1, H1, z) /\ Anc(hdr1, z, w) /\ w \in IdsOf(H, p)
                    => ConfirmedAt(H1, p, z)

(* References due, from step to step.                                        *)
LEMMA RefStep ==
    ASSUME NEW hdr, NEW H, Backed(hdr, H), AllConfirmedFinal(hdr, H),
           NEW hdr1, NEW H1, Backed(hdr1, H1), AllMoved(H, H1), FinalStill(hdr, H, hdr1, H1),
           NEW bx, NEW nt, RefsOwed(hdr, H, bx, nt), NEW bx1, NEW nt1,
           ConfirmsDue(hdr1, H, H1, bx1, nt1), RefsKept(hdr1, H, H1, bx, nt, bx1, nt1)
    PROVE  RefsOwed(hdr1, H1, bx1, nt1)
  <1> SUFFICES ASSUME NEW m \in Member, NEW p \in Member, NEW z, ConfirmedAt(H1, m, z),
                      ~ConfirmedAt(H1, p, z)
               PROVE  RefDue(hdr1, H1, bx1, nt1, p, z)
    BY DEF RefsOwed
  <1>1. CASE \E q \in Member : ConfirmedAt(H, q, z)
    <2>1. PICK q \in Member : ConfirmedAt(H, q, z)
      BY <1>1
    <2>2. Final(hdr1, H1, z)
      BY <2>1, ConfirmedAtStays DEF FinalStill
    <2>3. ~ConfirmedAt(H, p, z)
      BY ConfirmedAtStays DEF FinalStill
    <2>4. RefDue(hdr, H, bx, nt, p, z)
      BY <2>1, <2>3 DEF RefsOwed
    <2>5. PICK w \in Script : /\ Anc(hdr, z, w) /\ w \in IdsOf(H, p) /\ p # Author(w)
                              /\ RefMailed(bx, nt, w, p)
      BY <2>4 DEF RefDue
    <2>6. Anc(hdr1, z, w)
      BY <2>5 DEF FinalStill
    <2>7. RefMailed(bx1, nt1, w, p)
      BY <2>2, <2>3, <2>5, <2>6 DEF RefsKept
    <2>8. w \in IdsOf(H1, p)
      BY <2>5 DEF AllMoved, Moved, IdsOf
    <2> QED
      BY <2>5, <2>6, <2>7, <2>8 DEF RefDue
  <1>2. CASE ~\E q \in Member : ConfirmedAt(H, q, z)
    BY <1>2 DEF ConfirmsDue
  <1> QED
    BY <1>1, <1>2

(* Who has heard of own scripts, from step to step.                          *)
LEMMA HeardStep ==
    ASSUME NEW H, NEW H1, AllMoved(H, H1), OwnHeard(H),
           \A m \in Member : \A j \in 1 .. Len(H1[m].nodes) :
              LET n == H1[m].nodes[j]
              IN  Author(n.id) = m /\ ~Confirmed(n) =>
                     \A p \in Member \ ({m} \cup n.acks) :
                        \/ n.id \in IdsOf(H1, p)
                        \/ \E i \in 1 .. Len(H[m].nodes) : /\ H[m].nodes[i].id = n.id
                                                           /\ p \notin H[m].nodes[i].acks
    PROVE  OwnHeard(H1)
  <1> SUFFICES ASSUME NEW m \in Member, NEW j \in 1 .. Len(H1[m].nodes),
                      Author(H1[m].nodes[j].id) = m, ~Confirmed(H1[m].nodes[j]),
                      NEW p \in Member \ ({m} \cup H1[m].nodes[j].acks)
               PROVE  H1[m].nodes[j].id \in IdsOf(H1, p)
    BY DEF OwnHeard
  <1> DEFINE n == H1[m].nodes[j]
  <1>1. CASE n.id \in IdsOf(H1, p)
    BY <1>1
  <1>2. CASE n.id \notin IdsOf(H1, p)
    <2>1. PICK i \in 1 .. Len(H[m].nodes) : H[m].nodes[i].id = n.id /\ p \notin H[m].nodes[i].acks
      BY <1>2
    <2>2. n.acks \subseteq H[m].nodes[i].acks
      BY <2>1 DEF AllMoved, Moved
    <2>3. ~Confirmed(H[m].nodes[i])
      BY <2>2 DEF Confirmed
    <2>4. n.id \in IdsOf(H, p)
      BY <2>1, <2>3 DEF OwnHeard
    <2> QED
      BY <2>4 DEF AllMoved, Moved, IdsOf
  <1> QED
    BY <1>1, <1>2

(* What the mail tells, from step to step.                                   *)
LEMMA SentStep ==
    ASSUME NEW H, NEW H1, AllMoved(H, H1), \A p \in Member : H[p].nodes \in Seq(Node) /\ H1[p].nodes \in Seq(Node),
           NEW nt, AcksSent(H, nt), NEW nt1,
           \A b \in nt1 : b.type = "ack" =>
              \/ b \in nt /\ b.from \in Member
              \/ b.from # b.to /\ (b.ref => ConfirmedIn(H1[b.from].nodes, b.id))
    PROVE  AcksSent(H1, nt1)
  <1>1. ASSUME NEW p \in Member, NEW id, ConfirmedIn(H[p].nodes, id)
        PROVE  ConfirmedIn(H1[p].nodes, id)
    <2> DEFINE t == H[p].nodes
               u == H1[p].nodes
    <2>1. PICK i \in 1 .. Len(t) : t[i].id = id /\ Confirmed(t[i])
      BY <1>1 DEF ConfirmedIn
    <2>2. t \in Seq(Node) /\ u \in Seq(Node) /\ Moved(t, u)
      BY DEF AllMoved
    <2> HIDE DEF t, u
    <2>3. id \in Ids(u)
      BY <2>1, <2>2, IdsAre DEF Moved
    <2>4. PICK j \in 1 .. Len(u) : u[j].id = id
      BY <2>2, <2>3, IdsAre
    <2>5. Confirmed(u[j])
      BY <2>1, <2>2, <2>4 DEF Moved, Confirmed
    <2> QED
      BY <2>4, <2>5 DEF ConfirmedIn, u
  <1> SUFFICES ASSUME NEW b \in nt1, b.type = "ack"
               PROVE  b.from # b.to /\ (b.ref => ConfirmedIn(H1[b.from].nodes, b.id))
    BY DEF AcksSent
  <1>2. CASE b \in nt /\ b.from \in Member
    BY <1>1, <1>2 DEF AcksSent
  <1> QED
    BY <1>2

(* Own scripts heard of, when no acknowledgment arrives.                     *)
LEMMA CarriedHeard ==
    ASSUME NEW hdr, NEW H, Backed(hdr, H), OwnHeard(H), NEW m \in Member,
           NEW H1, Backed(hdr, H1), AllMoved(H, H1), \A p \in Member \ {m} : H1[p] = H[p],
           Carried(m, H[m].nodes, H1[m].nodes)
    PROVE  OwnHeard(H1)
  <1>1. ASSUME NEW q \in Member, NEW j \in 1 .. Len(H1[q].nodes),
               Author(H1[q].nodes[j].id) = q, ~Confirmed(H1[q].nodes[j]),
               NEW p \in Member \ ({q} \cup H1[q].nodes[j].acks)
        PROVE  \E i \in 1 .. Len(H[q].nodes) : /\ H[q].nodes[i].id = H1[q].nodes[j].id
                                               /\ p \notin H[q].nodes[i].acks
    <2>1. CASE q # m
      BY <1>1, <2>1
    <2>2. CASE q = m
      <3> DEFINE t == H[m].nodes
                 u == H1[m].nodes
      <3>1. u[j].id \in IdsOf(H1, m)
        BY <2>2, BackedFacts
      <3>2. u[j].id \in IdsOf(H, m)
        BY <1>1, <2>2, <3>1, OwnKnown
      <3> DEFINE x == u[j].id
      <3>7. \A y \in IdsOf(H, m) : \E i \in 1 .. Len(t) : t[i].id = y
        BY BackedFacts
      <3>8. x \in IdsOf(H, m)
        BY <3>2
      <3>3. PICK i \in 1 .. Len(t) : t[i].id = x
        BY <3>7, <3>8
      <3>4. Carried(m, t, u)
        OBVIOUS
      <3>5. j \in 1 .. Len(u) /\ Author(u[j].id) = m /\ ~Confirmed(u[j]) /\ p \notin u[j].acks
        BY <1>1, <2>2
      <3> HIDE DEF t, u
      <3>6. t[i].acks \subseteq u[j].acks
        BY <3>3, <3>4, <3>5 DEF Carried
      <3> QED
        BY <2>2, <3>3, <3>5, <3>6 DEF t, u
    <2> QED
      BY <2>1, <2>2
  <1> QED
    BY <1>1, HeardStep

(* Nothing collected or mailed gets lost unless it is taken from the mail.   *)
MustGrows(bx, bx1) == \A p \in Member : bx[p].must \subseteq bx1[p].must

AckGone(nt, nt1, p, x) ==
    \E b \in nt \ nt1 : b.type = "ack" /\ ~b.ref /\ b.id = x /\ b.from = p

LEMMA AckForgotten ==
    ASSUME NEW bx, NEW bx1, MustGrows(bx, bx1), NEW nt, NEW nt1,
           NEW p \in Member, NEW x \in Script, AckMailed(bx, nt, p, x)
    PROVE  AckMailed(bx1, nt1, p, x) \/ AckGone(nt, nt1, p, x)
  <1>1. CASE [to |-> Author(x), id |-> x, ref |-> FALSE] \in bx[p].must
    <2> DEFINE a == [to |-> Author(x), id |-> x, ref |-> FALSE]
    <2>1. a \in bx[p].must
      BY <1>1
    <2> HIDE DEF a
    <2>2. a \in bx1[p].must
      BY <2>1 DEF MustGrows
    <2> QED
      BY <2>2 DEF AckMailed, a
  <1>2. CASE \E b \in nt : b.type = "ack" /\ ~b.ref /\ b.id = x /\ b.from = p
    BY <1>2 DEF AckMailed, AckGone
  <1> QED
    BY <1>1, <1>2 DEF AckMailed

LEMMA RefForgotten ==
    ASSUME NEW bx, NEW bx1, \A p \in Member : bx[p].must \subseteq bx1[p].must, NEW nt, NEW nt1,
           NEW w \in Script, NEW p \in Member, RefMailed(bx, nt, w, p)
    PROVE  \/ RefMailed(bx1, nt1, w, p)
           \/ \E b \in nt \ nt1 : b.type = "ack" /\ b.ref /\ b.id = w /\ b.to = p
  <1>1. CASE [to |-> Everyone, id |-> w, ref |-> TRUE] \in bx[Author(w)].must
    <2> DEFINE a == [to |-> Everyone, id |-> w, ref |-> TRUE]
    <2>1. a \in bx[Author(w)].must /\ Author(w) \in Member
      BY <1>1, ScriptType
    <2> HIDE DEF a
    <2>2. a \in bx1[Author(w)].must
      BY <2>1
    <2> QED
      BY <2>2 DEF RefMailed, a
  <1>2. CASE \E b \in nt : b.type = "ack" /\ b.ref /\ b.id = w /\ b.to = p
    BY <1>2 DEF RefMailed
  <1> QED
    BY <1>1, <1>2 DEF RefMailed

(* No acknowledgment leaves the mail.                                        *)
StillMailed(bx, nt, bx1, nt1) ==
    /\ \A p \in Member, x \in Script : AckMailed(bx, nt, p, x) => AckMailed(bx1, nt1, p, x)
    /\ \A w \in Script, p \in Member : RefMailed(bx, nt, w, p) => RefMailed(bx1, nt1, w, p)

LEMMA NoAckLost ==
    ASSUME NEW bx, NEW bx1, \A p \in Member : bx[p].must \subseteq bx1[p].must, NEW nt, NEW nt1,
           \A b \in nt \ nt1 : b.type # "ack"
    PROVE  StillMailed(bx, nt, bx1, nt1)
  <1>1. ASSUME NEW p \in Member, NEW x \in Script, AckMailed(bx, nt, p, x)
        PROVE  AckMailed(bx1, nt1, p, x)
    <2>1. MustGrows(bx, bx1)
      BY DEF MustGrows
    <2>2. AckMailed(bx1, nt1, p, x) \/ AckGone(nt, nt1, p, x)
      BY <1>1, <2>1, AckForgotten
    <2>3. ~AckGone(nt, nt1, p, x)
      BY DEF AckGone
    <2> QED
      BY <2>2, <2>3
  <1>2. ASSUME NEW w \in Script, NEW p \in Member, RefMailed(bx, nt, w, p)
        PROVE  RefMailed(bx1, nt1, w, p)
    <2>1. \/ RefMailed(bx1, nt1, w, p)
          \/ \E b \in nt \ nt1 : b.type = "ack" /\ b.ref /\ b.id = w /\ b.to = p
      BY <1>2, RefForgotten
    <2> QED
      BY <2>1
  <1> QED
    BY <1>1, <1>2 DEF StillMailed

(* Steps that change no history.                                             *)
LEMMA MailLossless ==
    ASSUME Lossless, AckInv', UNCHANGED <<hist, header>>,
           OnItsWay(header, hist, inbox', outgoing', net'),
           \A p \in Member, x \in Script :
              AckMailed(box, net, p, x) /\ p # Author(x) => AckMailed(box', net', p, x),
           \A w \in Script, p \in Member :
              RefMailed(box, net, w, p) /\ p # Author(w) => RefMailed(box', net', w, p),
           \A b \in net' : b.type = "ack" => b \in net \/ (NewAck(hist, b) /\ b.from # b.to)
    PROVE  Lossless'
  <1>1. Backed(header, hist) /\ ShapeInv /\ AckInv /\ AllConfirmedFinal(header, hist)
    BY InvBacked DEF Lossless, AckInv, Agreed
  <1>2. AllMoved(hist, hist)
    BY <1>1, BackedFacts, SameMoved DEF AllMoved
  <1>3. AcksOwed(header, hist, box', net')
    <2>1. AcksOwed(header, hist, box, net)
      BY DEF Lossless
    <2> QED
      BY <1>1, <1>2, <2>1, OwedStep
  <1>4. RefsOwed(header, hist, box', net')
    <2>1. RefsOwed(header, hist, box, net)
      BY DEF Lossless
    <2>2. FinalStill(header, hist, header, hist)
      BY DEF FinalStill
    <2>3. ConfirmsDue(header, hist, hist, box', net')
      BY DEF ConfirmsDue
    <2>4. RefsKept(header, hist, hist, box, net, box', net')
      BY DEF RefsKept
    <2> QED
      BY <1>1, <1>2, <2>1, <2>2, <2>3, <2>4, RefStep
  <1>5. AcksSent(hist, net')
    <2>1. \A p \in Member : hist[p].nodes \in Seq(Node)
      BY <1>1, BackedFacts DEF Tree
    <2>2. AcksSent(hist, net) /\ \A b \in net : b.type = "ack" => b.from \in Member
      BY DEF Lossless, AckInv, Agreed, AcksTrue, AckTrue
    <2>3. ASSUME NEW b \in net', b.type = "ack"
          PROVE  \/ b \in net /\ b.from \in Member
                 \/ b.from # b.to /\ (b.ref => ConfirmedIn(hist[b.from].nodes, b.id))
      BY <2>2, <2>3 DEF NewAck, ConfirmedIn
    <2> QED
      BY <1>2, <2>1, <2>2, <2>3, SentStep
  <1> QED
    BY <1>3, <1>4, <1>5 DEF Lossless

(* Sending a new script.                                                     *)
LEMMA BroadcastLossless ==
    ASSUME Lossless, AckInv', NEW m \in Member, Broadcast(m)
    PROVE  Lossless'
  <1> DEFINE new == {[type |-> "script", id |-> outgoing[m], to |-> p] : p \in Member \ {m}}
  <1>1. /\ UNCHANGED <<hist, header, box, inbox>> /\ net' = net \cup new
        /\ outgoing' = [outgoing EXCEPT ![m] = NoId] /\ outgoing[m] # NoId
    BY DEF Broadcast
  <1>2. TypeOK
    BY DEF Lossless, AckInv, ShapeInv, IInv
  <1>3. \A a \in Member : a # m => outgoing'[a] = outgoing[a]
    BY <1>1, <1>2 DEF TypeOK
  <1>4. OnItsWay(header, hist, inbox', outgoing', net')
    <2> SUFFICES ASSUME NEW s \in Script, NEW p \in Member \ {Author(s)}, CheckedIn(header, s)
                 PROVE  \/ s \in Present(hist[p].nodes) \/ s \in inbox'[p] \/ outgoing'[Author(s)] = s
                        \/ [type |-> "script", id |-> s, to |-> p] \in net'
      BY DEF OnItsWay
    <2>1. \/ s \in Present(hist[p].nodes) \/ s \in inbox[p] \/ outgoing[Author(s)] = s
          \/ [type |-> "script", id |-> s, to |-> p] \in net
      BY DEF Lossless, OnItsWay
    <2>2. CASE outgoing[Author(s)] = s /\ Author(s) = m
      BY <1>1, <2>2
    <2>3. CASE ~(outgoing[Author(s)] = s /\ Author(s) = m)
      BY <1>1, <1>3, <2>1, <2>3, ScriptType
    <2> QED
      BY <2>2, <2>3
  <1>5. \A b \in net' : b.type = "ack" => b \in net
    BY <1>1
  <1> HIDE DEF new
  <1>6. \A b \in net \ net' : b.type # "ack"
    BY <1>1
  <1>7. \A p \in Member : box[p].must \subseteq box'[p].must
    BY <1>1
  <1>8. StillMailed(box, net, box', net')
    BY <1>6, <1>7, NoAckLost
  <1> QED
    BY <1>1, <1>4, <1>5, <1>8, MailLossless DEF StillMailed

(* A required acknowledgment is mailed to everybody it is for.               *)
LEMMA SentMail ==
    ASSUME NEW m \in Member, SendAcknowledgments(m), NEW a \in box[m].must, a.to # m,
           NEW p \in IF a.to = Everyone THEN Member \ {m} ELSE {a.to}
    PROVE  \E b \in net' : b.type = "ack" /\ b.id = a.id /\ b.ref = a.ref /\ b.from = m /\ b.to = p
  <1> DEFINE side  == SideLineage(UnitLineage(hist[m]))
             must  == {x \in box[m].must : x.to # m}
             also  == {x \in box[m].can : \E b \in must : b.to = x.to}
             To(x) == IF x.to = Everyone THEN Member \ {m} ELSE {x.to}
             Letter(x, q) == [type |-> "ack", id |-> x.id, ref |-> x.ref, from |-> m, to |-> q,
                              lineage |-> side]
  <1>1. net' = net \cup UNION {{Letter(x, q) : q \in To(x)} : x \in must \cup also}
    BY DEF SendAcknowledgments
  <1>2. a \in must \cup also /\ p \in To(a)
    OBVIOUS
  <1>3. LET b == Letter(a, p)
        IN  b.type = "ack" /\ b.id = a.id /\ b.ref = a.ref /\ b.from = m /\ b.to = p
    OBVIOUS
  <1> HIDE DEF must, also, To, Letter
  <1>4. Letter(a, p) \in net'
    BY <1>1, <1>2
  <1> QED
    BY <1>3, <1>4

(* Mailing what was collected.                                               *)
LEMMA SendLossless ==
    ASSUME Lossless, AckInv', NEW m \in Member, SendAcknowledgments(m)
    PROVE  Lossless'
  <1>1. /\ UNCHANGED <<hist, header, inbox, outgoing>> /\ net \subseteq net'
        /\ box' = [box EXCEPT ![m] = EmptyBox]
    BY DEF SendAcknowledgments
  <1>2. AckInv /\ TypeOK
    BY DEF Lossless, AckInv, ShapeInv, IInv
  <1>3. \A q \in Member : q # m => box'[q] = box[q]
    BY <1>1, <1>2 DEF TypeOK
  <1>4. OnItsWay(header, hist, inbox', outgoing', net')
    BY <1>1 DEF Lossless, OnItsWay
  <1>5. ASSUME NEW p \in Member, NEW x \in Script, AckMailed(box, net, p, x), p # Author(x)
        PROVE  AckMailed(box', net', p, x)
    <2> DEFINE a == [to |-> Author(x), id |-> x, ref |-> FALSE]
    <2>1. CASE p = m /\ a \in box[p].must
      <3>1. a.to = Author(x) /\ a.id = x /\ a.ref = FALSE /\ a.to # Everyone /\ a.to # m
        BY <1>5, <2>1, ScriptType, MemberAssumption DEF Everyone
      <3> HIDE DEF a
      <3>2. \E b \in net' : b.type = "ack" /\ b.id = a.id /\ b.ref = a.ref /\ b.from = m /\ b.to = a.to
        BY <2>1, <3>1, SentMail
      <3> QED
        BY <2>1, <3>1, <3>2 DEF AckMailed
    <2>2. CASE ~(p = m /\ a \in box[p].must)
      BY <1>1, <1>3, <1>5, <2>2 DEF AckMailed
    <2> QED
      BY <2>1, <2>2
  <1>6. ASSUME NEW w \in Script, NEW p \in Member, RefMailed(box, net, w, p), p # Author(w)
        PROVE  RefMailed(box', net', w, p)
    <2> DEFINE a == [to |-> Everyone, id |-> w, ref |-> TRUE]
    <2>1. CASE Author(w) = m /\ a \in box[m].must
      <3>1. a.to = Everyone /\ a.id = w /\ a.ref = TRUE /\ a.to # m
        BY MemberAssumption DEF Everyone
      <3> HIDE DEF a
      <3>2. \E b \in net' : b.type = "ack" /\ b.id = a.id /\ b.ref = a.ref /\ b.from = m /\ b.to = p
        BY <1>6, <2>1, <3>1, SentMail
      <3> QED
        BY <3>1, <3>2 DEF RefMailed
    <2>2. CASE ~(Author(w) = m /\ a \in box[m].must)
      BY <1>1, <1>3, <1>6, <2>2, ScriptType DEF RefMailed
    <2> QED
      BY <2>1, <2>2
  <1>7. \A b \in net' : b \in net \/ (NewAck(hist, b) /\ b.from # b.to)
    BY <1>2, SentAcks
  <1> QED
    BY <1>1, <1>4, <1>5, <1>6, <1>7, MailLossless

(* Asking for a script.                                                      *)
LEMMA RequestLossless ==
    ASSUME Lossless, AckInv', NEW m \in Member, RequestMissing(m)
    PROVE  Lossless'
  <1>1. PICK p \in Member, id \in MissingScripts(m) : RequestResend(m, id, p)
    BY DEF RequestMissing
  <1>2. UNCHANGED <<hist, header, box, inbox, outgoing>>
    BY <1>1 DEF RequestResend
  <1>3. net \subseteq net' /\ \A b \in net' : b \in net \/ b.type # "ack"
    BY <1>1 DEF RequestResend
  <1>4. OnItsWay(header, hist, inbox', outgoing', net')
    BY <1>2, <1>3 DEF Lossless, OnItsWay
  <1>5. \A b \in net \ net' : b.type # "ack"
    BY <1>3
  <1>7. \A q \in Member : box[q].must \subseteq box'[q].must
    BY <1>2
  <1>8. StillMailed(box, net, box', net')
    BY <1>5, <1>7, NoAckLost
  <1> QED
    BY <1>2, <1>3, <1>4, <1>8, MailLossless DEF StillMailed

(* Answering with a script: only the request leaves the mail.                *)
LEMMA AnswerLossless ==
    ASSUME Lossless, AckInv', NEW m \in Member, AnswerRequests(m)
    PROVE  Lossless'
  <1>1. PICK msg \in net : msg.type = "request" /\ AnswerResend(m, msg)
    BY DEF AnswerRequests
  <1>2. UNCHANGED <<hist, header, box, inbox, outgoing>>
    BY <1>1 DEF AnswerResend
  <1>3. TypeOK
    BY DEF Lossless, AckInv, ShapeInv, IInv
  <1>4. PICK left \in Remaining(msg) :
            left \subseteq net' /\ \A b \in net' : b \in left \/ b.type = "script"
    BY <1>1 DEF AnswerResend
  <1>5. left \subseteq net
    BY <1>3, <1>4, RemainingType
  <1>6. \A b \in net : b.type # "request" => b \in net'
    BY <1>1, <1>4 DEF Remaining
  <1>7. OnItsWay(header, hist, inbox', outgoing', net')
    BY <1>2, <1>6 DEF Lossless, OnItsWay
  <1>8. \A b \in net \ net' : b.type # "ack"
    BY <1>6
  <1>9. \A b \in net' : b.type = "ack" => b \in net
    BY <1>4, <1>5
  <1>10. \A p \in Member : box[p].must \subseteq box'[p].must
    BY <1>2
  <1>11. StillMailed(box, net, box', net')
    BY <1>8, <1>10, NoAckLost
  <1> QED
    BY <1>2, <1>7, <1>9, <1>11, MailLossless DEF StillMailed

(* The members' histories before and after one of them has changed.          *)
LEMMA OneMoved ==
    ASSUME Lossless, AckInv', header' = header, NEW m \in Member, NEW h1,
           hist' = [hist EXCEPT ![m] = h1],
           NEW S, Carried(m, hist[m].nodes, h1.nodes), Advances(m, hist[m].nodes, h1.nodes, S)
    PROVE  /\ Backed(header, hist) /\ Backed(header, hist') /\ AllConfirmedFinal(header, hist)
           /\ hist'[m] = h1 /\ \A p \in Member \ {m} : hist'[p] = hist[p]
           /\ AllMoved(hist, hist') /\ AwaitsAll(hist')
  <1>1. Backed(header, hist) /\ AckInv /\ TypeOK /\ AllConfirmedFinal(header, hist)
    BY InvBacked DEF Lossless, AckInv, Agreed, ShapeInv, IInv
  <1>2. Backed(header, hist')
    <2>1. ShapeInv'
      BY DEF AckInv
    <2>2. Backed(header', hist')
      BY <2>1, InvBackedNext
    <2> QED
      BY <2>2
  <1>3. hist'[m] = h1 /\ \A p \in Member \ {m} : hist'[p] = hist[p]
    BY <1>1 DEF TypeOK
  <1>4. AllMoved(hist, hist')
    <2>1. Moved(hist[m].nodes, hist'[m].nodes)
      BY <1>3, CarriedMoved
    <2>2. ASSUME NEW p \in Member \ {m} PROVE Moved(hist[p].nodes, hist'[p].nodes)
      <3>1. Tree(hist[p].nodes)
        BY <1>1, BackedFacts
      <3> QED
        BY <1>3, <3>1, SameMoved
    <2> QED
      BY <2>1, <2>2 DEF AllMoved
  <1>5. AwaitsAll(hist')
    BY <1>3 DEF AwaitsAll, Lossless, Advances
  <1> QED
    BY <1>1, <1>2, <1>3, <1>4, <1>5

(* Steps that change one history by what is received or executed.            *)
LEMMA AdvancedLossless ==
    ASSUME Lossless, AckInv', AllKept, header' = header, NEW m \in Member, NEW h1,
           hist' = [hist EXCEPT ![m] = h1],
           NEW S, Carried(m, hist[m].nodes, h1.nodes), Advances(m, hist[m].nodes, h1.nodes, S),
           OnItsWay(header, hist', inbox', outgoing', net'),
           \A x \in Script : Owes(header, hist', m, x) =>
              Owes(header, hist, m, x) \/ AckMailed(box', net', m, x),
           StillMailed(box, net, box', net'),
           \A b \in net' : b.type = "ack" => b \in net
    PROVE  Lossless'
  <1>1. /\ Backed(header, hist) /\ Backed(header, hist') /\ AllConfirmedFinal(header, hist)
        /\ hist'[m] = h1 /\ \A p \in Member \ {m} : hist'[p] = hist[p]
        /\ AllMoved(hist, hist') /\ AwaitsAll(hist')
    BY OneMoved
  <1>2. \A x : Final(header, hist, x) => Final(header, hist', x)
    BY DEF AllKept, FinalKept
  <1>3. AcksOwed(header, hist', box', net')
    <2>1. ASSUME NEW p \in Member, NEW x \in Script, Owes(header, hist', p, x)
          PROVE  Owes(header, hist, p, x) \/ AckMailed(box', net', p, x)
      <3>1. CASE p = m
        BY <2>1, <3>1
      <3>2. CASE p # m
        BY <1>1, <2>1, <3>2 DEF Owes, IdsOf
      <3> QED
        BY <3>1, <3>2
    <2>2. AcksOwed(header, hist, box, net)
      BY DEF Lossless
    <2>3. \A p \in Member, x \in Script :
              AckMailed(box, net, p, x) /\ p # Author(x) => AckMailed(box', net', p, x)
      BY DEF StillMailed
    <2> QED
      BY <1>1, <2>1, <2>2, <2>3, OwedStep
  <1>4. RefsOwed(header, hist', box', net')
    <2>1. ASSUME NEW q \in Member, NEW z, ConfirmedAt(hist', q, z)
          PROVE  \E r \in Member : ConfirmedAt(hist, r, z)
      <3>1. CASE q = m
        <4> DEFINE t == hist[m].nodes
                   u == h1.nodes
        <4>1. PICK j \in 1 .. Len(u) : u[j].id = z /\ ~u[j].rej /\ Confirmed(u[j])
          BY <1>1, <2>1, <3>1 DEF ConfirmedAt
        <4>2. Carried(m, t, u)
          OBVIOUS
        <4> HIDE DEF t, u
        <4>3. PICK i \in 1 .. Len(t) : t[i].id = u[j].id /\ Confirmed(t[i])
          BY <4>1, <4>2 DEF Carried
        <4>4. ~t[i].rej
          BY <4>1, <4>2, <4>3 DEF Carried
        <4>5. ConfirmedAt(hist, m, z)
          BY <4>1, <4>3, <4>4 DEF ConfirmedAt, t
        <4> QED
          BY <4>5
      <3>2. CASE q # m
        <4>1. ConfirmedAt(hist, q, z)
          BY <1>1, <2>1, <3>2 DEF ConfirmedAt
        <4> QED
          BY <4>1
      <3> QED
        BY <3>1, <3>2
    <2>2. RefsOwed(header, hist, box, net)
      BY DEF Lossless
    <2>3. \A w \in Script, p \in Member :
              RefMailed(box, net, w, p) /\ p # Author(w) => RefMailed(box', net', w, p)
      BY DEF StillMailed
    <2>4. ConfirmsDue(header, hist, hist', box', net')
      BY <2>1 DEF ConfirmsDue
    <2>5. RefsKept(header, hist, hist', box, net, box', net')
      BY <2>3 DEF RefsKept
    <2>6. FinalStill(header, hist, header, hist')
      BY <1>2 DEF FinalStill
    <2> QED
      BY <1>1, <2>2, <2>4, <2>5, <2>6, RefStep
  <1>5. OwnHeard(hist')
    <2>1. OwnHeard(hist) /\ Carried(m, hist[m].nodes, hist'[m].nodes)
      BY <1>1 DEF Lossless
    <2> QED
      BY <1>1, <2>1, CarriedHeard
  <1>6. AcksSent(hist', net')
    <2>1. \A p \in Member : hist[p].nodes \in Seq(Node) /\ hist'[p].nodes \in Seq(Node)
      BY <1>1, BackedFacts DEF Tree
    <2>2. AcksSent(hist, net) /\ \A b \in net : b.type = "ack" => b.from \in Member
      BY DEF Lossless, AckInv, Agreed, AcksTrue, AckTrue
    <2>3. \A b \in net' : b.type = "ack" =>
              \/ b \in net /\ b.from \in Member
              \/ b.from # b.to /\ (b.ref => ConfirmedIn(hist'[b.from].nodes, b.id))
      BY <2>2
    <2> QED
      BY <1>1, <2>1, <2>2, <2>3, SentStep
  <1> QED
    BY <1>1, <1>3, <1>4, <1>5, <1>6 DEF Lossless

(* Executing the next script; with no script unreadable none goes missing.   *)
LEMMA ExecutionLossless ==
    ASSUME Corruptible = {}, Lossless, AckInv', AllKept, NEW m \in Member,
           ExecuteNext(m) \/ MarkMissing(m)
    PROVE  Lossless'
  <1> DEFINE t  == hist[m].nodes
             h1 == ExecuteScript(hist[m], NextOf(t))
  <1>1. ExecuteNext(m)
    BY DEF MarkMissing
  <1>2. AckInv /\ ShapeInv /\ TypeOK /\ Good(header, m, hist[m]) /\ Tidy(m, t) /\ Awaits(m, t)
    BY DEF Lossless, AckInv, ShapeInv, IInv, HistoriesGood, Agreed, AllTidy, AwaitsAll
  <1>3. next[m] = NextOf(t) /\ NextOf(t) # NoId /\ hist' = [hist EXCEPT ![m] = h1]
    BY <1>1, <1>2, NextKnown DEF ExecuteNext
  <1>4. UNCHANGED <<inbox, header, outgoing, box, net>>
    BY <1>1 DEF ExecuteNext
  <1>5. Sound(hist[m])
    BY <1>2 DEF Good
  <1>6. Carried(m, t, h1.nodes)
    BY <1>2, <1>3, <1>5, ExecuteScriptTidy
  <1>7. Advances(m, t, h1.nodes, {})
    BY <1>2, <1>3, <1>5, ExecuteAdvances
  <1> HIDE DEF h1
  <1>8. /\ hist'[m] = h1 /\ \A p \in Member \ {m} : hist'[p] = hist[p]
        /\ AllMoved(hist, hist')
    BY <1>3, <1>4, <1>6, <1>7, OneMoved
  <1>9. \A p \in Member : Present(hist'[p].nodes) = Present(hist[p].nodes)
    BY <1>7, <1>8 DEF Advances
  <1>10. OnItsWay(header, hist', inbox', outgoing', net')
    BY <1>4, <1>9 DEF Lossless, OnItsWay
  <1>11. ASSUME NEW x \in Script, Owes(header, hist', m, x)
         PROVE  Owes(header, hist, m, x)
    <2>1. IdsOf(hist, m) \subseteq IdsOf(hist', m)
      BY <1>8 DEF AllMoved, Moved, IdsOf
    <2>2. Present(hist'[m].nodes) \subseteq Present(hist[m].nodes)
      BY <1>9
    <2> QED
      BY <1>11, <2>1, <2>2, OwesNoMore
  <1>12. StillMailed(box, net, box', net')
    BY <1>4 DEF StillMailed
  <1>13. \A b \in net' : b.type = "ack" => b \in net
    BY <1>4
  <1> QED
    BY <1>3, <1>4, <1>6, <1>7, <1>10, <1>11, <1>12, <1>13, AdvancedLossless

(* What becomes known without a gap with the script recorded is acknowledged. *)
LEMMA OwedIsAcknowledged ==
    ASSUME NEW hdr, NEW h, Tree(h.nodes), Known(hdr, h.nodes),
           NEW h1, Tree(h1.nodes), Known(hdr, h1.nodes),
           NEW id, Ids(h1.nodes) = Ids(h.nodes) \cup {id}, id \notin Present(h.nodes),
           NEW x, Anc(hdr, id, x), \A y : Anc(hdr, y, x) => y \in Present(h1.nodes),
           ~Loses(hdr, Ids(h1.nodes), x)
    PROVE  x \in ToAcknowledge(h, h1, id)
  <1> DEFINE v  == h.nodes
             u  == h1.nodes
             i  == FindIdx(v, id)
             i1 == FindIdx(u, id)
  <1>1. /\ v \in Seq(Node) /\ u \in Seq(Node) /\ Shaped(u) /\ Shaped(v)
        /\ Len(u) \in Nat /\ Len(v) \in Nat
    BY Places DEF Tree
  <1>2. x \in Present(u)
    BY AncFacts
  <1>3. PICK j \in 1 .. Len(u) : u[j].id = x /\ ~u[j].mis
    BY <1>2 DEF Present
  <1>4. i1 \in 1 .. Len(u) /\ u[i1].id = id
    <2>1. i1 \in 0 .. Len(u) /\ i1 # 0 /\ u[i1].id = id
      BY <1>1, FindIdxType
    <2> QED
      BY <1>1, <2>1
  <1>5. \A k, k1 \in 1 .. Len(u) : u[k].id = u[k1].id => k = k1
    BY <1>1, Places
  <1> HIDE DEF u, v, i1, i
  <1>6. Under(Parents(u), i1, j)
    <2>1. Anc(hdr, u[i1].id, u[j].id)
      BY <1>3, <1>4
    <2> QED
      BY <1>3, <1>4, <2>1, AncUnder DEF u
  <1>7. ASSUME NEW k \in 1 .. Len(u), Under(Parents(u), k, j)
        PROVE  ~u[k].mis
    <2>1. Anc(hdr, u[k].id, x)
      <3>1. Anc(hdr, u[k].id, u[j].id)
        BY <1>3, <1>7, AncUnder DEF u
      <3> QED
        BY <1>3, <3>1
    <2>2. u[k].id \in Present(u)
      BY <2>1 DEF u
    <2>3. PICK k1 \in 1 .. Len(u) : u[k1].id = u[k].id /\ ~u[k1].mis
      BY <2>2 DEF Present
    <2> QED
      BY <1>5, <2>3
  <1>8. Path(u, i1) = {k \in 1 .. Len(u) : Under(Parents(u), k, i1)}
        /\ Path(u, j) = {k \in 1 .. Len(u) : Under(Parents(u), k, j)}
    BY <1>1, <1>3, <1>4, PathOf
  <1>9. ~HasMissingPredecessors(u, i1)
    <2> SUFFICES ASSUME NEW k \in 1 .. Len(u), Under(Parents(u), k, i1) PROVE ~u[k].mis
      BY <1>8 DEF HasMissingPredecessors
    <2>1. Preorder(Parents(u), Len(u))
      BY <1>1 DEF Shaped
    <2>2. Under(Parents(u), k, j)
      BY <1>3, <1>4, <1>6, <2>1, UnderFacts
    <2> QED
      BY <1>7, <2>2
  <1>10. CASE i = 0
    <2>1. id \notin Ids(v)
      BY <1>1, <1>10, FindIdxType DEF i
    <2>2. x = id
      <3>1. x \in Ids(u)
        BY <1>1, <1>3, IdsAre
      <3>2. x \in Ids(v) => id \in Ids(v)
        BY TreeBased DEF v
      <3> QED
        BY <2>1, <3>1, <3>2 DEF u, v
    <2>3. ~u[i1].rej
      <3>1. u[i1].rej <=> Loses(hdr, Ids(u), u[i1].id)
        BY <1>4, RejectedIsLost DEF u
      <3> QED
        BY <1>4, <2>2, <3>1 DEF u
    <2>4. ~Rejected(u[i1])
      BY <2>3 DEF Rejected
    <2>5. ToAcknowledge(h, h1, id) = {id : k \in {q \in {i1} : ~Rejected(u[q])}}
      BY <1>9, <1>10 DEF ToAcknowledge, i, i1, u, v
    <2> QED
      BY <2>2, <2>4, <2>5
  <1>11. CASE i # 0
    <2>1. i \in 1 .. Len(v) /\ v[i].id = id
      <3>1. i \in 0 .. Len(v) /\ v[i].id = id
        BY <1>1, <1>11, FindIdxType DEF i
      <3> QED
        BY <1>1, <1>11, <3>1
    <2>2. v[i].mis
      BY <2>1 DEF Present, v
    <2>3. j \in Subtree(u, i1)
      BY <1>1, <1>3, <1>4, <1>6, SubtreeOf
    <2>4. j \in AckableFrom(u, i1)
      BY <1>7, <1>8, <2>3 DEF AckableFrom
    <2>5. ToAcknowledge(h, h1, id) = {u[k].id : k \in AckableFrom(u, i1)}
      BY <1>9, <1>11, <2>2 DEF ToAcknowledge, i, i1, u, v
    <2> QED
      BY <1>3, <2>4, <2>5
  <1> QED
    BY <1>10, <1>11

(* Unpacking changes the mailbox of m and collects more to acknowledge.      *)
LEMMA UnpackedBox ==
    ASSUME TypeOK, NEW m \in Member, NEW l, NEW h1, NEW sent, NEW heard, NEW settled, NEW held,
           Unpack(m, l, h1, sent, heard, settled, held)
    PROVE  /\ \A p \in Member : box[p].must \subseteq box'[p].must
           /\ l.refs \cup sent \subseteq box'[m].must
           /\ hist' = [hist EXCEPT ![m] = h1]
           /\ inbox'[m] = held /\ \A p \in Member : p # m => inbox'[p] = inbox[p]
  <1> DEFINE b == [must |-> box[m].must \cup l.refs \cup sent,
                   can  |-> box[m].can \cup (l.acks \ (box[m].must \cup l.refs \cup sent))]
  <1>1. box' = [box EXCEPT ![m] = b] /\ inbox' = [inbox EXCEPT ![m] = held]
        /\ hist' = [hist EXCEPT ![m] = h1]
    BY DEF Unpack
  <1>2. b.must = box[m].must \cup l.refs \cup sent
    OBVIOUS
  <1> HIDE DEF b
  <1>3. /\ box'[m] = b /\ \A p \in Member : p # m => box'[p] = box[p]
        /\ inbox'[m] = held /\ \A p \in Member : p # m => inbox'[p] = inbox[p]
    BY <1>1 DEF TypeOK
  <1>4. \A p \in Member : box[p].must \subseteq box'[p].must
    BY <1>2, <1>3
  <1>5. l.refs \cup sent \subseteq box'[m].must
    BY <1>2, <1>3
  <1> QED
    BY <1>1, <1>3, <1>4, <1>5

(* Unpacking a script: it becomes present, or is held in the inbox.          *)
LEMMA UnpackScriptLossless ==
    ASSUME Newcomer = {}, Lossless, AckInv', AllKept, NEW m \in Member, NEW id \in Script,
           UnpackScript(m, id)
    PROVE  Lossless'
  <1> DEFINE msg  == [type |-> "script", id |-> id, to |-> m]
             l    == ProcessLineage(m, Author(id), header[id])
             h1   == WithScript(l.hist, id)
             ToAck == ToAcknowledge(l.hist, h1, id)
             acks == {[to |-> Author(x), id |-> x, ref |-> FALSE] : x \in ToAck}
             rest == inbox[m] \ {id}
             drop == Dropped(l, id, rest)
             t    == hist[m].nodes
             v    == l.hist.nodes
  <1>1. /\ TypeOK /\ OneBranch(header) /\ Good(header, m, hist[m]) /\ Tidy(m, t) /\ ShapeInv
        /\ Awaits(m, t)
    BY DEF Lossless, AckInv, ShapeInv, IInv, HistoriesGood, Agreed, AllTidy, AwaitsAll
  <1>2. id \in Gid /\ Author(id) \in Member /\ header[id] \in Seq(Gid)
    BY <1>1, ScriptType DEF TypeOK, Lineage
  <1>3. header[id] # <<>>
    <2>1. msg.type = "script" /\ msg.id = id /\ (msg \in net \/ id \in inbox[m])
      BY DEF UnpackScript
    <2> HIDE DEF msg
    <2> QED
      BY <1>1, <2>1 DEF ShapeInv, MailCheckedIn
  <1>4. Linked(header, header[id])
    BY <1>1 DEF ShapeInv, HeadersLinked
  <1>5. l \in LineageResult /\ l.status # "prehistoric"
    BY <1>1, <1>2, <1>4, ProcessLineageType, LineageFits
  <1>6. /\ Good(header, m, l.hist)
        /\ l.status = "connected" => Last(header[id]) \in Ids(v)
    BY <1>1, <1>2, <1>3, <1>4, ProcessGood
  <1>7. Tidy(m, v) /\ Carried(m, t, v) /\ Ids(v) = Ids(t) \cup l.new
    BY <1>1, <1>2, <1>4, ProcessTidy
  <1>8. Advances(m, t, v, {})
    BY <1>1, <1>2, <1>4, ProcessAdvances
  <1>9. /\ net' = net \/ net' = net \ {msg}
        /\ header' = header /\ outgoing' = outgoing
    BY DEF UnpackScript, Remaining
  <1>10. IF l.status = "connected"
           THEN Unpack(m, l, h1, acks, {id}, {id}, rest)
           ELSE Unpack(m, l, l.hist, {}, Held(l, id), drop, (rest \ drop) \cup Held(l, id))
    BY DEF UnpackScript
  <1>11. /\ \A b \in net' : b \in net
         /\ \A b \in net : b # msg => b \in net'
         /\ msg.type = "script" /\ msg.id = id /\ msg.to = m
    BY <1>9
  <1> HIDE DEF l, msg, acks, rest, drop, ToAck
  <1>12. \A b \in net \ net' : b.type # "ack"
    BY <1>11
  <1>13. CASE l.status = "connected"
    <2>1. Author(id) = m => id \in Ids(v)
      <3>1. Author(id) = m => id \in Ids(t)
        BY <1>1, <1>3 DEF ShapeInv, OwnRecorded
      <3> QED
        BY <1>7, <3>1
    <2>2. Good(header, m, h1)
      BY <1>1, <1>3, <1>6, <1>13, <2>1, WithScriptGood
    <2>3. Carried(m, v, h1.nodes) /\ Ids(h1.nodes) = Ids(v) \cup {id}
      BY <1>1, <1>3, <1>6, <1>7, <1>13, <2>1, WithScriptTidy
    <2>4. Advances(m, v, h1.nodes, {id})
      <3>1. Awaits(m, v) /\ OwnPresent(m, v)
        BY <1>7, <1>8 DEF Advances, Tidy
      <3> QED
        BY <1>1, <1>3, <1>6, <1>13, <2>1, <3>1, WithScriptAdvances
    <2> HIDE DEF h1
    <2> DEFINE u == h1.nodes
    <2>5. /\ t \in Seq(Node) /\ v \in Seq(Node) /\ u \in Seq(Node)
          /\ Tree(v) /\ Known(header, v) /\ Tree(u) /\ Known(header, u)
      BY <1>1, <1>6, <2>2 DEF Good, Sound, Tree
    <2>6. Carried(m, t, u)
      BY <1>7, <2>3, <2>5, CarriedTwice
    <2>7. Advances(m, t, u, {id})
      <3>1. Advances(m, t, u, {} \cup {id})
        BY <1>7, <1>8, <2>4, <2>5, AdvancesTwice
      <3>2. {} \cup {id} = {id}
        OBVIOUS
      <3> QED
        BY <3>1, <3>2
    <2>8. Unpack(m, l, h1, acks, {id}, {id}, rest)
      BY <1>10, <1>13
    <2>9. /\ \A p \in Member : box[p].must \subseteq box'[p].must
          /\ l.refs \cup acks \subseteq box'[m].must
          /\ hist' = [hist EXCEPT ![m] = h1]
          /\ inbox'[m] = rest /\ \A p \in Member : p # m => inbox'[p] = inbox[p]
      BY <1>1, <2>8, UnpackedBox
    <2>10. hist'[m] = h1 /\ \A p \in Member \ {m} : hist'[p] = hist[p]
      BY <1>1, <2>9 DEF TypeOK
    <2>11. Present(u) = Present(t) \cup {id} /\ Present(v) = Present(t)
      BY <1>8, <2>7 DEF Advances
    <2> HIDE DEF t, v, u
    <2>12. OnItsWay(header, hist', inbox', outgoing', net')
      <3> SUFFICES ASSUME NEW s \in Script, NEW p \in Member \ {Author(s)}, CheckedIn(header, s)
                   PROVE  \/ s \in Present(hist'[p].nodes) \/ s \in inbox'[p]
                          \/ outgoing'[Author(s)] = s
                          \/ [type |-> "script", id |-> s, to |-> p] \in net'
        BY DEF OnItsWay
      <3> DEFINE b == [type |-> "script", id |-> s, to |-> p]
      <3>1. \/ s \in Present(hist[p].nodes) \/ s \in inbox[p] \/ outgoing[Author(s)] = s
            \/ b \in net
        BY DEF Lossless, OnItsWay
      <3>2. b.id = s /\ b.to = p
        OBVIOUS
      <3> HIDE DEF b
      <3>3. CASE p # m
        <4>1. b # msg
          BY <1>11, <3>2, <3>3
        <4> QED
          BY <1>9, <1>11, <2>9, <2>10, <3>1, <3>3, <4>1 DEF b
      <3>4. CASE p = m /\ s = id
        BY <2>10, <2>11, <3>4 DEF u
      <3>5. CASE p = m /\ s # id
        <4>1. b # msg
          BY <1>11, <3>2, <3>5
        <4>2. s \in inbox[m] => s \in inbox'[m]
          BY <2>9, <3>5 DEF rest
        <4>3. s \in Present(hist[p].nodes) => s \in Present(hist'[p].nodes)
          BY <2>10, <2>11, <3>5 DEF u, t
        <4>4. b \in net => b \in net'
          BY <1>11, <4>1
        <4> QED
          BY <1>9, <3>1, <3>5, <4>2, <4>3, <4>4 DEF b
      <3> QED
        BY <3>3, <3>4, <3>5
    <2>13. ASSUME NEW x \in Script, Owes(header, hist', m, x), ~Owes(header, hist, m, x)
           PROVE  AckMailed(box', net', m, x)
      <3>1. IdsOf(hist', m) = Ids(u) /\ IdsOf(hist, m) = Ids(t) /\ Ids(t) \subseteq Ids(u)
        BY <1>7, <2>3, <2>10 DEF IdsOf, u, t, v
      <3>2. /\ CheckedIn(header, x) /\ m # Author(x)
            /\ \A y : Anc(header, y, x) => y \in Present(u)
            /\ ~Loses(header, Ids(u), x)
        BY <2>10, <2>13, <3>1 DEF Owes, u
      <3>3. ~Loses(header, Ids(t), x)
        BY <3>1, <3>2, LosesMore
      <3>4. ~\A y : Anc(header, y, x) => y \in Present(t)
        BY <2>13, <3>1, <3>2, <3>3 DEF Owes, t
      <3>5. PICK y : Anc(header, y, x) /\ y \notin Present(t)
        BY <3>4
      <3>6. y = id
        BY <2>11, <3>2, <3>5
      <3>7. x \in ToAck
        <4>1. id \notin Present(v) /\ Anc(header, id, x) /\ Ids(u) = Ids(v) \cup {id}
          BY <2>3, <2>11, <3>5, <3>6 DEF u, v
        <4> QED
          BY <2>5, <3>2, <4>1, OwedIsAcknowledged DEF ToAck, u, v
      <3>8. [to |-> Author(x), id |-> x, ref |-> FALSE] \in acks
        BY <3>7 DEF acks
      <3> QED
        BY <2>9, <3>8 DEF AckMailed
    <2>14. StillMailed(box, net, box', net')
      BY <1>12, <2>9, NoAckLost
    <2>15. \A x \in Script : Owes(header, hist', m, x) =>
              Owes(header, hist, m, x) \/ AckMailed(box', net', m, x)
      BY <2>13
    <2> QED
      BY <1>9, <1>11, <2>6, <2>7, <2>9, <2>12, <2>14, <2>15, AdvancedLossless DEF u, t
  <1>14. CASE l.status # "connected"
    <2>1. l.status = "disconnected"
      BY <1>5, <1>14 DEF LineageResult
    <2>2. Held(l, id) = {id} /\ drop = {}
      BY <2>1 DEF Held, Dropped, drop
    <2> DEFINE held == (rest \ drop) \cup Held(l, id)
    <2>3. Unpack(m, l, l.hist, {}, Held(l, id), drop, held)
      BY <1>10, <1>14
    <2>4. inbox[m] \cup {id} \subseteq held
      BY <2>2 DEF rest
    <2> HIDE DEF held
    <2>5. /\ \A p \in Member : box[p].must \subseteq box'[p].must
          /\ hist' = [hist EXCEPT ![m] = l.hist]
          /\ inbox'[m] = held /\ \A p \in Member : p # m => inbox'[p] = inbox[p]
      BY <1>1, <2>3, UnpackedBox
    <2>6. hist'[m] = l.hist /\ \A p \in Member \ {m} : hist'[p] = hist[p]
      BY <1>1, <2>5 DEF TypeOK
    <2>7. \A p \in Member : Present(hist'[p].nodes) = Present(hist[p].nodes)
      BY <1>8, <2>6 DEF Advances
    <2>8. OnItsWay(header, hist', inbox', outgoing', net')
      <3> SUFFICES ASSUME NEW s \in Script, NEW p \in Member \ {Author(s)}, CheckedIn(header, s)
                   PROVE  \/ s \in Present(hist'[p].nodes) \/ s \in inbox'[p]
                          \/ outgoing'[Author(s)] = s
                          \/ [type |-> "script", id |-> s, to |-> p] \in net'
        BY DEF OnItsWay
      <3> DEFINE b == [type |-> "script", id |-> s, to |-> p]
      <3>1. \/ s \in Present(hist[p].nodes) \/ s \in inbox[p] \/ outgoing[Author(s)] = s
            \/ b \in net
        BY DEF Lossless, OnItsWay
      <3>2. b.id = s /\ b.to = p
        OBVIOUS
      <3> HIDE DEF b
      <3>3. s \in inbox[p] => s \in inbox'[p]
        BY <2>4, <2>5
      <3>4. CASE b = msg
        BY <1>11, <2>4, <2>5, <3>2, <3>4
      <3>5. CASE b # msg
        BY <1>9, <1>11, <2>7, <3>1, <3>3, <3>5 DEF b
      <3> QED
        BY <3>4, <3>5
    <2>9. ASSUME NEW x \in Script, Owes(header, hist', m, x)
          PROVE  Owes(header, hist, m, x)
      <3>1. IdsOf(hist, m) \subseteq IdsOf(hist', m)
        BY <1>7, <2>6 DEF IdsOf
      <3>2. Present(hist'[m].nodes) \subseteq Present(hist[m].nodes)
        BY <2>7
      <3> QED
        BY <2>9, <3>1, <3>2, OwesNoMore
    <2>10. StillMailed(box, net, box', net')
      BY <1>12, <2>5, NoAckLost
    <2> HIDE DEF t, v
    <2> QED
      BY <1>7, <1>8, <1>9, <1>11, <2>5, <2>8, <2>9, <2>10, AdvancedLossless DEF t, v
  <1> QED
    BY <1>13, <1>14

(***************************************************************************)
(* What accepting an acknowledgment or a make-reference does: from is no    *)
(* longer awaited; when nobody else was, something not before the script    *)
(* has become confirmed, and only so anything becomes confirmed anew.       *)
(***************************************************************************)
Accepting(h, u, id, from) ==
    LET t == h.nodes
    IN  /\ \A j \in 1 .. Len(t) : t[j].id = id => t[j].rej \/ from \notin u[j].acks
        /\ \A k \in 1 .. Len(t) : t[k].id = id /\ t[k].acks \subseteq {from} =>
              \E f \in k .. Len(t) : Confirmed(u[f])
        /\ \A j \in 1 .. Len(t) : ~t[j].rej /\ Confirmed(u[j]) /\ ~Confirmed(t[j]) =>
              \E k \in j .. Len(t) : /\ t[k].id = id /\ t[k].acks \subseteq {from}
                                     /\ FisIdx(h) <= k /\ Confirmed(u[k])

LEMMA AcceptAckDoes ==
    ASSUME NEW h, Sound(h), NEW m, Tidy(m, h.nodes), NEW id, NEW from
    PROVE  Accepting(h, AcceptAck(h, id, from).nodes, id, from)
  <1> DEFINE t  == h.nodes
             n  == Len(t)
             i  == FindIdx(t, id)
             nd == AckFrom(t[i], from)
             v  == Replace(t, i, nd)
             h1 == [h EXCEPT !.nodes = v]
             h2 == AcceptAck(h, id, from)
             u  == h2.nodes
  <1>1. /\ h \in History /\ Tree(t) /\ t \in Seq(Node) /\ n \in Nat /\ Shaped(t)
        /\ SettledIn(t, h.fis)
    BY Places DEF Sound, Tree
  <1>2. h2 = IF i = 0 \/ i < FisIdx(h) THEN h
             ELSE IF Confirmed(h1.nodes[i]) THEN ConfirmAllOlderNodes(h1, i)
             ELSE h1
    BY DEF AcceptAck
  <1>3. PICK f \in 1 .. n : t[f].id = h.fis /\ Executed(t[f]) /\ Confirmed(t[f])
    BY <1>1 DEF SettledIn
  <1>4. FisIdx(h) = f
    BY <1>1, <1>3, Places DEF FisIdx, Tree
  <1>5. \A j \in 1 .. n : t[j].id = id <=> j = i
    <2>1. \A j \in 1 .. n : FindIdx(t, t[j].id) = j
      BY <1>1, Places
    <2>2. i # 0 => t[i].id = id
      BY <1>1, FindIdxType
    <2> QED
      BY <1>1, <2>1, <2>2
  <1>6. Acknowledged(t, u, id, from)
    BY AcceptAckTidy
  <1>7. CASE i = 0 \/ i < FisIdx(h)
    <2>1. u = t
      BY <1>2, <1>7
    <2>2. ASSUME NEW j \in 1 .. n, t[j].id = id, ~t[j].rej PROVE Confirmed(t[j])
      <3>1. j < f /\ f # 0
        BY <1>1, <1>4, <1>5, <1>7, <2>2
      <3> QED
        BY <1>3, <2>2, <3>1 DEF Tidy, ConfirmedUpTo
    <2>3. ASSUME NEW k \in 1 .. n, t[k].id = id PROVE f \in k .. n
      BY <1>1, <1>4, <1>5, <1>7, <2>3
    <2> HIDE DEF t, n, u, i
    <2>4. \A j \in 1 .. n : t[j].id = id => t[j].rej \/ from \notin t[j].acks
      BY <2>2 DEF Confirmed
    <2>5. \A k \in 1 .. n : t[k].id = id => \E g \in k .. n : Confirmed(t[g])
      BY <1>3, <2>3
    <2> QED
      BY <2>1, <2>4, <2>5 DEF t, n, u, Accepting
  <1>8. CASE ~(i = 0 \/ i < FisIdx(h))
    <2>1. i \in 1 .. n /\ t[i].id = id /\ FisIdx(h) <= i
      <3>1. i \in 1 .. n /\ t[i].id = id
        BY <1>1, <1>8, FindIdxType
      <3> QED
        BY <1>4, <1>8, <3>1
    <2>2. t[i] \in Node
      BY <1>1, <2>1, NodesType
    <2>3. /\ nd \in Node /\ nd.id = t[i].id /\ nd.pred = t[i].pred /\ nd.bp = t[i].bp /\ nd.rej = t[i].rej
          /\ nd.mis = t[i].mis /\ nd.exe = t[i].exe /\ nd.acks = t[i].acks \ {from}
      BY <2>2, AckTypes DEF AckFrom, Node
    <2> HIDE DEF nd
    <2>4. /\ SameTree(t, v) /\ v[i] = nd /\ \A j \in 1 .. n : j # i => v[j] = t[j]
          /\ h1 \in History /\ h1.nodes = v /\ h1.fis = h.fis
      BY <1>1, <2>1, <2>3, ReplacedTree
    <2> HIDE DEF v, h1
    <2>5. Tree(v) /\ Len(v) = n /\ v \in Seq(Node)
      BY <1>1, <2>4, SameTreeTree DEF SameTree, Tree
    <2>6. v[i].acks = t[i].acks \ {from}
      BY <2>3, <2>4
    <2>7. Confirmed(v[f]) /\ Executed(v[f]) /\ v[f].id = h.fis
      BY <1>3, <2>3, <2>4, <2>6 DEF Confirmed, Executed
    <2>8. SettledIn(h1.nodes, h1.fis)
      BY <1>3, <2>4, <2>5, <2>7 DEF SettledIn
    <2>9. u[i].acks \subseteq v[i].acks
      <3>1. CASE h2 = h1
        BY <2>4, <3>1
      <3>2. CASE h2 = ConfirmAllOlderNodes(h1, i)
        <4>1. AcksOnly(h1.nodes, h2.nodes)
          BY <2>4, <2>8, <3>2, ConfirmAcks
        <4> QED
          BY <2>1, <2>4, <2>5, <4>1 DEF AcksOnly
      <3> QED
        BY <1>2, <1>8, <3>1, <3>2
    <2>10. from \notin u[i].acks /\ (t[i].acks \subseteq {from} => Confirmed(u[i]))
      BY <2>6, <2>9 DEF Confirmed
    <2>11. i \in i .. n
      BY <1>1, <2>1
    <2> HIDE DEF t, n, u, i
    <2>12. \A j \in 1 .. n : t[j].id = id => t[j].rej \/ from \notin u[j].acks
      BY <1>5, <2>10
    <2>13. \A k \in 1 .. n : t[k].id = id /\ t[k].acks \subseteq {from} =>
              \E g \in k .. n : Confirmed(u[g])
      BY <1>5, <2>10, <2>11
    <2>14. ASSUME NEW j \in 1 .. n, ~t[j].rej, Confirmed(u[j]), ~Confirmed(t[j])
           PROVE  \E k \in j .. n : /\ t[k].id = id /\ t[k].acks \subseteq {from}
                                    /\ FisIdx(h) <= k /\ Confirmed(u[k])
      <3>1. PICK k \in j .. n : t[k].id = id /\ t[k].acks \subseteq {from}
        BY <1>6, <2>14 DEF Acknowledged, n
      <3>2. k \in 1 .. n
        BY <3>1
      <3>3. k = i
        BY <1>5, <3>1, <3>2
      <3> QED
        BY <2>1, <2>10, <3>1, <3>3
    <2> QED
      BY <2>12, <2>13, <2>14 DEF t, n, u, Accepting
  <1> QED
    BY <1>7, <1>8

(* A script not lost is confirmed when one built upon it, or one after that, *)
(* is confirmed.                                                            *)
LEMMA ConfirmedBehind ==
    ASSUME NEW hdr, NEW H, Backed(hdr, H), NEW p \in Member, Tidy(p, H[p].nodes),
           NEW k \in 1 .. Len(H[p].nodes), NEW f \in k .. Len(H[p].nodes),
           Confirmed(H[p].nodes[f]),
           NEW z, z \in IdsOf(H, p), ~Loses(hdr, IdsOf(H, p), z), Anc(hdr, z, H[p].nodes[k].id)
    PROVE  ConfirmedAt(H, p, z)
  <1> DEFINE t == H[p].nodes
  <1>1. Tree(t) /\ Known(hdr, t) /\ t \in Seq(Node) /\ Shaped(t) /\ Len(t) \in Nat
    BY BackedFacts, Places DEF Tree
  <1>2. PICK j \in 1 .. Len(t) : t[j].id = z
    BY BackedFacts
  <1>3. ~t[j].rej
    BY <1>2, BackedFacts
  <1>4. Confirmed(t[f]) /\ ConfirmedUpTo(t, 0) /\ Anc(hdr, t[j].id, t[k].id)
        /\ k \in 1 .. Len(t) /\ f \in k .. Len(t)
    BY <1>2 DEF Tidy
  <1> HIDE DEF t
  <1>5. Under(Parents(t), j, k)
    BY <1>1, <1>2, <1>4, AncUnder
  <1>6. Path(t, k) = {i \in 1 .. Len(t) : Under(Parents(t), i, k)}
    BY <1>1, <1>4, PathOf
  <1>7. j \in 1 .. k
    BY <1>2, <1>5, <1>6 DEF Path
  <1>8. j <= f /\ f \in 1 .. Len(t) /\ f # 0
    BY <1>1, <1>4, <1>7
  <1>9. Confirmed(t[j])
    <2>1. CASE j = f
      BY <1>4, <2>1
    <2>2. CASE j < f
      BY <1>2, <1>3, <1>4, <1>8, <2>2 DEF ConfirmedUpTo
    <2> QED
      BY <1>8, <2>1, <2>2
  <1> QED
    BY <1>2, <1>3, <1>9 DEF ConfirmedAt, t

(* Unpacking an acknowledgment or a make-reference: its author strikes off   *)
(* who sent it, and what is confirmed here by it is confirmed or due to be   *)
(* confirmed everywhere.                                                    *)
LEMMA UnpackAcksLossless ==
    ASSUME Lossless, AckInv', AllKept, NEW m \in Member, UnpackAcks(m)
    PROVE  Lossless'
  <1>1. PICK msg \in net : msg.type = "ack" /\ UnpackAck(m, msg)
    BY DEF UnpackAcks
  <1> DEFINE l    == ProcessLineage(m, msg.from, msg.lineage)
             h1   == AcceptAck(l.hist, msg.id, msg.from)
             i    == FindIdx(h1.nodes, msg.id)
             refs == {a \in {[to |-> Everyone, id |-> msg.id, ref |-> TRUE]} :
                         /\ ~msg.ref /\ Author(msg.id) = m
                         /\ i >= FisIdx(l.hist) /\ Confirmed(h1.nodes[i])}
             H1   == [hist EXCEPT ![m] = l.hist]
             t    == hist[m].nodes
             v    == l.hist.nodes
             u    == h1.nodes
             id   == msg.id
             from == msg.from
  <1>2. /\ TypeOK /\ OneBranch(header) /\ Good(header, m, hist[m]) /\ Tidy(m, t) /\ ShapeInv
        /\ Backed(header, hist) /\ AllConfirmedFinal(header, hist) /\ AllTidy(hist)
        /\ AcksTrue(header, hist, net) /\ Awaits(m, t)
    BY InvBacked DEF Lossless, AckInv, ShapeInv, IInv, HistoriesGood, Agreed, AllTidy, AwaitsAll
  <1>3. id \in Gid /\ from \in Member /\ msg.lineage \in Seq(Gid)
    BY <1>1, <1>2, MessageType DEF TypeOK
  <1>4. Linked(header, msg.lineage)
    BY <1>1, <1>2 DEF ShapeInv, AcksLinked
  <1>5. Good(header, m, l.hist)
    BY <1>2, <1>3, <1>4, ProcessGood
  <1>6. Tidy(m, v) /\ Carried(m, t, v)
    BY <1>2, <1>3, <1>4, ProcessTidy
  <1>7. Advances(m, t, v, {})
    BY <1>2, <1>3, <1>4, ProcessAdvances
  <1>8. /\ Unpack(m, l, h1, refs, {}, {}, inbox[m])
        /\ (net' = net \/ net' = net \ {msg}) /\ header' = header /\ outgoing' = outgoing
        /\ msg.to = m
    BY <1>1 DEF UnpackAck, Remaining
  <1> HIDE DEF l
  <1>9. Good(header, m, h1) /\ Ids(u) = Ids(v)
    BY <1>5, AcceptAckGood
  <1>10. Acknowledged(v, u, id, from) /\ Tidy(m, u)
    BY <1>5, <1>6, AcceptAckTidy DEF Good
  <1>11. /\ \A j \in 1 .. Len(v) : v[j].id = id => v[j].rej \/ from \notin u[j].acks
         /\ \A k \in 1 .. Len(v) : v[k].id = id /\ v[k].acks \subseteq {from} =>
               \E f \in k .. Len(v) : Confirmed(u[f])
         /\ \A j \in 1 .. Len(v) : ~v[j].rej /\ Confirmed(u[j]) /\ ~Confirmed(v[j]) =>
               \E k \in j .. Len(v) : /\ v[k].id = id /\ v[k].acks \subseteq {from}
                                      /\ FisIdx(l.hist) <= k /\ Confirmed(u[k])
    <2>1. Sound(l.hist)
      BY <1>5 DEF Good
    <2>2. Accepting(l.hist, u, id, from)
      BY <1>6, <2>1, AcceptAckDoes
    <2> HIDE DEF u, h1
    <2> QED
      BY <2>2 DEF Accepting
  <1> HIDE DEF h1
  <1>12. /\ Tree(v) /\ Known(header, v) /\ v \in Seq(Node) /\ Shaped(v) /\ Len(v) \in Nat
         /\ Tree(u) /\ u \in Seq(Node) /\ t \in Seq(Node) /\ Tree(t)
    <2>1. Tree(v) /\ Known(header, v) /\ Tree(u) /\ Tree(t)
      BY <1>2, <1>5, <1>9 DEF Good, Sound
    <2> QED
      BY <2>1, Places DEF Tree
  <1>13. /\ AcksOnly(v, u) /\ Len(u) = Len(v)
         /\ \A j \in 1 .. Len(v) : u[j].id = v[j].id /\ u[j].rej = v[j].rej /\ u[j].acks \subseteq v[j].acks
    BY <1>10 DEF Acknowledged, AcksOnly
  <1>14. Advances(m, t, u, {})
    <2>1. Awaits(m, v) /\ Ids(t) \subseteq Ids(v)
      BY <1>6, <1>7 DEF Advances, Carried
    <2>2. Advances(m, v, u, {})
      BY <1>12, <1>13, <2>1, AcksAdvance
    <2>3. Advances(m, t, u, {} \cup {})
      BY <1>7, <1>12, <2>1, <2>2, AdvancesTwice
    <2>4. {} \cup {} = {}
      OBVIOUS
    <2> QED
      BY <2>3, <2>4
  <1>15. /\ \A p \in Member : box[p].must \subseteq box'[p].must
         /\ l.refs \cup refs \subseteq box'[m].must
         /\ hist' = [hist EXCEPT ![m] = h1]
         /\ inbox'[m] = inbox[m] /\ \A p \in Member : p # m => inbox'[p] = inbox[p]
    BY <1>2, <1>8, UnpackedBox
  <1>16. /\ H1[m] = l.hist /\ \A p \in Member \ {m} : H1[p] = hist[p]
         /\ hist'[m] = h1 /\ \A p \in Member \ {m} : hist'[p] = hist[p]
    BY <1>2, <1>15 DEF TypeOK
  <1> HIDE DEF H1
  <1>17. Backed(header, H1)
    <2>1. \A p \in Member : IdsOf(hist, p) \subseteq IdsOf(H1, p)
      BY <1>6, <1>16 DEF IdsOf, Carried
    <2>2. \A p \in Member : Good(header, p, H1[p])
      BY <1>2, <1>5, <1>16 DEF Backed
    <2> QED
      BY <1>2, <2>1, <2>2, ScriptType DEF Backed
  <1>18. Backed(header, hist') /\ AllTidy(hist') /\ AllConfirmedFinal(header, hist')
    <2>1. ShapeInv' /\ (AllTidy(hist))' /\ (AllConfirmedFinal(header, hist))'
      BY DEF AckInv, Agreed
    <2> QED
      BY <1>8, <2>1, InvBackedNext
  <1>19. \A b \in net : b = msg \/ b \in net'
    BY <1>8
  <1>20. \A b \in net' : b \in net
    BY <1>8
  <1>21. AckTrue(header, hist, msg) /\ from # m
    <2>1. msg.from # msg.to
      BY <1>1 DEF Lossless, AcksSent
    <2> QED
      BY <1>1, <1>2, <1>8, <2>1 DEF AcksTrue
  <1>22. id \in Script /\ id \in IdsOf(hist, from)
    BY <1>21 DEF AckTrue
  <1> HIDE DEF t, v, u, id, from
  <1>23. AllMoved(hist, H1) /\ AllMoved(H1, hist') /\ AllMoved(hist, hist')
    <2>1. Moved(t, v)
      BY <1>6, <1>7, CarriedMoved
    <2>2. \A j, k \in 1 .. Len(v) : v[j].id = v[k].id => j = k
      BY <1>12 DEF Shaped
    <2>3. Moved(v, u)
      BY <1>9, <1>13, <2>2 DEF Moved
    <2>4. Moved(t, u)
      <3>1. Ids(t) \subseteq Ids(u)
        BY <1>9, <2>1 DEF Moved
      <3>2. ASSUME NEW a \in 1 .. Len(t), NEW b \in 1 .. Len(u), t[a].id = u[b].id
            PROVE  (t[a].rej => u[b].rej) /\ u[b].acks \subseteq t[a].acks
        <4>1. b \in 1 .. Len(v) /\ v[b].id = u[b].id /\ u[b].rej = v[b].rej /\ u[b].acks \subseteq v[b].acks
          BY <1>13
        <4> QED
          BY <2>1, <3>2, <4>1 DEF Moved
      <3> QED
        BY <3>1, <3>2 DEF Moved
    <2>5. ASSUME NEW p \in Member \ {m} PROVE Moved(hist[p].nodes, hist[p].nodes)
      <3>1. Tree(hist[p].nodes)
        BY <1>2, BackedFacts
      <3> QED
        BY <3>1, SameMoved
    <2>6. H1[m].nodes = v /\ hist'[m].nodes = u /\ hist[m].nodes = t
      BY <1>16 DEF t, u, v
    <2> QED
      BY <1>16, <2>1, <2>3, <2>4, <2>5, <2>6 DEF AllMoved
  <1>24. \A p \in Member : /\ Present(hist'[p].nodes) = Present(hist[p].nodes)
                           /\ IdsOf(hist, p) \subseteq IdsOf(hist', p)
                           /\ IdsOf(hist', p) = IdsOf(H1, p)
    <2>1. H1[m].nodes = v /\ hist'[m].nodes = u /\ hist[m].nodes = t
      BY <1>16 DEF t, u, v
    <2>2. Present(u) = Present(t)
      BY <1>14 DEF Advances
    <2> QED
      BY <1>9, <1>16, <1>23, <2>1, <2>2 DEF AllMoved, Moved, IdsOf
  <1>25. AwaitsAll(hist')
    <2>1. Awaits(m, hist'[m].nodes)
      BY <1>14, <1>16 DEF Advances, u
    <2> QED
      BY <1>16, <2>1 DEF AwaitsAll, Lossless
  <1>26. OnItsWay(header, hist', inbox', outgoing', net')
    <2> SUFFICES ASSUME NEW s \in Script, NEW p \in Member \ {Author(s)}, CheckedIn(header, s)
                 PROVE  \/ s \in Present(hist'[p].nodes) \/ s \in inbox'[p]
                        \/ outgoing'[Author(s)] = s
                        \/ [type |-> "script", id |-> s, to |-> p] \in net'
      BY DEF OnItsWay
    <2> DEFINE b == [type |-> "script", id |-> s, to |-> p]
    <2>1. \/ s \in Present(hist[p].nodes) \/ s \in inbox[p] \/ outgoing[Author(s)] = s
          \/ b \in net
      BY DEF Lossless, OnItsWay
    <2>2. b.type = "script"
      OBVIOUS
    <2> HIDE DEF b
    <2>3. b \in net => b \in net'
      BY <1>1, <1>19, <2>2
    <2>4. inbox'[p] = inbox[p]
      BY <1>15
    <2> QED
      BY <1>8, <1>24, <2>1, <2>3, <2>4 DEF b
  <1>27. AcksOwed(header, hist', box', net')
    <2>1. ASSUME NEW p \in Member, NEW x \in Script, Owes(header, hist', p, x)
          PROVE  Owes(header, hist, p, x)
      BY <1>24, <2>1, OwesNoMore
    <2>6. MustGrows(box, box')
      BY <1>15 DEF MustGrows
    <2>7. ASSUME NEW p \in Member, NEW x \in Script, AckMailed(box, net, p, x)
          PROVE  AckMailed(box', net', p, x) \/ AckGone(net, net', p, x)
      <3>1. AckMailed(box, net, p, x)
        BY <2>7
      <3> QED
        BY <2>6, <3>1, AckForgotten
    <2>2. ASSUME NEW p \in Member, NEW x \in Script, AckMailed(box, net, p, x), p # Author(x)
          PROVE  AckMailed(box', net', p, x) \/ AckTaken(hist', p, x)
      <3>1. CASE AckMailed(box', net', p, x)
        BY <3>1
      <3>2. CASE ~AckMailed(box', net', p, x)
        <4>1. \E b \in net \ net' : b.type = "ack" /\ ~b.ref /\ b.id = x /\ b.from = p
          <5>1. AckMailed(box, net, p, x)
            BY <2>2
          <5> QED
            BY <2>7, <3>2, <5>1 DEF AckGone
        <4>2. ~msg.ref /\ id = x /\ from = p
          BY <1>19, <4>1 DEF id, from
        <4>3. Author(x) = m
          BY <1>8, <1>21, <4>2 DEF AckTrue, id
        <4>4. \A j \in 1 .. Len(u) : u[j].id = x => u[j].rej \/ p \notin u[j].acks
          BY <1>11, <1>13, <4>2
        <4>5. AckTaken(hist', p, x)
          BY <1>16, <4>3, <4>4 DEF AckTaken, u
        <4> QED
          BY <4>5
      <3> QED
        BY <3>1, <3>2
    <2>3. AcksOwed(header, hist, box, net)
      BY DEF Lossless
    <2>4. \A p \in Member, x \in Script :
              Owes(header, hist', p, x) => Owes(header, hist, p, x) \/ AckMailed(box', net', p, x)
      BY <2>1
    <2>5. \A p \in Member, x \in Script :
              AckMailed(box, net, p, x) /\ p # Author(x) =>
                 AckMailed(box', net', p, x) \/ AckTaken(hist', p, x)
      BY <2>2
    <2> QED
      BY <1>2, <1>23, <2>3, <2>4, <2>5, OwedStep
  <1>28. FinalStill(header, hist, header, hist')
    BY <1>8 DEF AllKept, FinalKept, FinalStill
  <1>29. RefsKept(header, hist, hist', box, net, box', net')
    <2> SUFFICES ASSUME NEW w \in Script, NEW p \in Member, RefMailed(box, net, w, p), p # Author(w),
                        ~RefMailed(box', net', w, p),
                        NEW z, Final(header, hist', z), Anc(header, z, w), w \in IdsOf(hist, p)
                 PROVE  ConfirmedAt(hist', p, z)
      BY DEF RefsKept
    <2>0. \A q \in Member : box[q].must \subseteq box'[q].must
      BY <1>15
    <2>1. \E b \in net \ net' : b.type = "ack" /\ b.ref /\ b.id = w /\ b.to = p
      BY <2>0, RefForgotten
    <2>2. msg.ref /\ id = w /\ p = m
      BY <1>8, <1>19, <2>1 DEF id
    <2>3. Author(w) = from
      BY <1>21, <2>2 DEF AckTrue, id, from
    <2>4. w \in IdsOf(H1, m)
      BY <1>23, <2>2 DEF AllMoved, Moved, IdsOf
    <2>5. H1[m].nodes = v /\ hist'[m].nodes = u
      BY <1>16 DEF v, u
    <2>6. PICK k \in 1 .. Len(v) : v[k].id = w
      BY <1>17, <2>4, <2>5, BackedFacts
    <2>7. Awaits(m, v)
      BY <1>7 DEF Advances
    <2>8. v[k].acks \subseteq {from}
      BY <1>21, <2>3, <2>6, <2>7 DEF Awaits, from
    <2>9. PICK f \in k .. Len(v) : Confirmed(u[f])
      BY <1>11, <2>2, <2>6, <2>8
    <2>10. /\ k \in 1 .. Len(hist'[m].nodes) /\ f \in k .. Len(hist'[m].nodes)
           /\ Confirmed(hist'[m].nodes[f]) /\ hist'[m].nodes[k].id = w
      BY <1>13, <2>5, <2>6, <2>9
    <2>11. Tidy(m, hist'[m].nodes) /\ z \in IdsOf(hist', m) /\ ~Loses(header, IdsOf(hist', m), z)
      BY <1>18 DEF AllTidy, Final
    <2>12. ConfirmedAt(hist', m, z)
      BY <1>18, <2>10, <2>11, ConfirmedBehind
    <2> QED
      BY <2>2, <2>12
  <1>30. OwnHeard(H1)
    <2>1. Carried(m, hist[m].nodes, H1[m].nodes) /\ OwnHeard(hist)
      BY <1>6, <1>16 DEF Lossless, t, v
    <2> QED
      BY <1>2, <1>16, <1>17, <1>23, <2>1, CarriedHeard
  <1>31. ConfirmsDue(header, hist, hist', box', net')
    <2> SUFFICES ASSUME NEW q \in Member, NEW z, ConfirmedAt(hist', q, z),
                        \A r \in Member : ~ConfirmedAt(hist, r, z), NEW p \in Member,
                        ~ConfirmedAt(hist', p, z)
                 PROVE  RefDue(header, hist', box', net', p, z)
      BY DEF ConfirmsDue
    <2>1. q = m
      BY <1>16 DEF ConfirmedAt
    <2>2. PICK j \in 1 .. Len(u) : u[j].id = z /\ ~u[j].rej /\ Confirmed(u[j])
      BY <1>16, <2>1 DEF ConfirmedAt, u
    <2>3. j \in 1 .. Len(v) /\ v[j].id = z /\ ~v[j].rej
      BY <1>13, <2>2
    <2>4. ~Confirmed(v[j])
      <3> SUFFICES ASSUME Confirmed(v[j]) PROVE FALSE
        OBVIOUS
      <3>1. PICK a \in 1 .. Len(t) : t[a].id = v[j].id /\ Confirmed(t[a])
        BY <1>6, <2>3 DEF Carried
      <3>2. ~t[a].rej
        BY <1>6, <2>3, <3>1 DEF Carried
      <3>3. ConfirmedAt(hist, m, z)
        BY <2>3, <3>1, <3>2 DEF ConfirmedAt, t
      <3> QED
        BY <3>3
    <2>5. PICK k \in j .. Len(v) : /\ v[k].id = id /\ v[k].acks \subseteq {from}
                                   /\ FisIdx(l.hist) <= k /\ Confirmed(u[k])
      BY <1>11, <2>2, <2>3, <2>4
    <2>6. k \in 1 .. Len(v) /\ j <= k /\ k # 0
      BY <1>12, <2>3, <2>5
    <2>7. Anc(header, z, id)
      BY <1>12, <2>3, <2>5, <2>6, AcceptedBelow
    <2>8. p # m
      BY <2>1
    <2>9. ~msg.ref
      <3> SUFFICES ASSUME msg.ref PROVE FALSE
        OBVIOUS
      <3>1. PICK a \in 1 .. Len(hist[from].nodes) :
                hist[from].nodes[a].id = id /\ Confirmed(hist[from].nodes[a])
        BY <1>1 DEF Lossless, AcksSent, ConfirmedIn, id, from
      <3>2. Final(header, hist', z)
        BY <1>16, <1>18, <2>2 DEF AllConfirmedFinal, ConfirmedFinal, u
      <3>3. from \in Member /\ IdsOf(hist, from) = IdsOf(hist', from)
        BY <1>3, <1>16, <1>21 DEF IdsOf, from
      <3>4. z \in IdsOf(hist, from) /\ ~Loses(header, IdsOf(hist, from), z)
        BY <3>2, <3>3 DEF Final
      <3>5. a \in a .. Len(hist[from].nodes)
        BY <3>1
      <3>6. Tidy(from, hist[from].nodes)
        BY <1>2, <3>3 DEF AllTidy
      <3>7. Anc(header, z, hist[from].nodes[a].id)
        BY <2>7, <3>1
      <3>8. ConfirmedAt(hist, from, z)
        BY <1>2, <3>1, <3>3, <3>4, <3>5, <3>6, <3>7, ConfirmedBehind
      <3> QED
        BY <3>3, <3>8
    <2>10. Author(id) = m
      BY <1>8, <1>21, <2>9 DEF AckTrue, id
    <2>11. id \in IdsOf(hist', p)
      <3>1. CASE p = from
        BY <1>22, <1>24, <3>1
      <3>2. CASE p # from
        <4>1. ~Confirmed(v[k])
          <5> SUFFICES ASSUME Confirmed(v[k]) PROVE FALSE
            OBVIOUS
          <5>1. j # k
            BY <2>4
          <5> QED
            BY <1>6, <1>12, <2>3, <2>4, <2>6, <5>1 DEF Tidy, ConfirmedUpTo
        <4>2. p \in Member \ ({m} \cup v[k].acks)
          BY <2>5, <2>8, <3>2
        <4>3. v[k].id \in IdsOf(H1, p)
          BY <1>16, <1>30, <2>5, <2>6, <2>10, <4>1, <4>2 DEF OwnHeard, v
        <4> QED
          BY <1>24, <2>5, <4>3
      <3> QED
        BY <3>1, <3>2
    <2>12. RefMailed(box', net', id, p)
      <3> DEFINE a == [to |-> Everyone, id |-> id, ref |-> TRUE]
      <3>1. k \in 1 .. Len(u) /\ u[k].id = id
        BY <1>13, <2>5, <2>6
      <3>2. FindIdx(u, id) = k
        BY <1>12, <3>1, Places DEF Tree
      <3>3. a \in refs
        BY <2>5, <2>9, <2>10, <3>2 DEF u, id
      <3> HIDE DEF refs
      <3> QED
        BY <1>15, <2>10, <3>3 DEF RefMailed
    <2> QED
      BY <1>22, <2>7, <2>8, <2>10, <2>11, <2>12 DEF RefDue
  <1>32. RefsOwed(header, hist', box', net')
    <2>1. RefsOwed(header, hist, box, net)
      BY DEF Lossless
    <2> QED
      BY <1>2, <1>18, <1>23, <1>28, <1>29, <1>31, <2>1, RefStep
  <1>33. OwnHeard(hist')
    <2>1. ASSUME NEW q \in Member, NEW j \in 1 .. Len(hist'[q].nodes),
                 Author(hist'[q].nodes[j].id) = q, ~Confirmed(hist'[q].nodes[j]),
                 NEW p \in Member \ ({q} \cup hist'[q].nodes[j].acks)
          PROVE  \/ hist'[q].nodes[j].id \in IdsOf(hist', p)
                 \/ \E a \in 1 .. Len(H1[q].nodes) : /\ H1[q].nodes[a].id = hist'[q].nodes[j].id
                                                     /\ p \notin H1[q].nodes[a].acks
      <3>1. CASE q # m
        <4>1. H1[q] = hist'[q]
          BY <1>16, <3>1
        <4> QED
          BY <2>1, <4>1
      <3>2. CASE q = m
        <4>1. H1[m].nodes = v /\ hist'[m].nodes = u
          BY <1>16 DEF v, u
        <4>2. j \in 1 .. Len(v) /\ v[j].id = u[j].id /\ ~Confirmed(u[j]) /\ p \notin u[j].acks
          BY <1>13, <2>1, <3>2, <4>1
        <4>3. v[j].acks \ (IF v[j].id = id THEN {from} ELSE {}) \subseteq u[j].acks
          BY <1>10, <4>2 DEF Acknowledged
        <4>4. CASE p \notin v[j].acks
          BY <3>2, <4>1, <4>2, <4>4
        <4>5. CASE p \in v[j].acks
          <5>1. v[j].id = id /\ p = from
            BY <4>2, <4>3, <4>5
          <5> QED
            BY <1>22, <1>24, <3>2, <4>1, <4>2, <5>1
        <4> QED
          BY <4>4, <4>5
      <3> QED
        BY <3>1, <3>2
    <2> QED
      BY <1>23, <1>30, <2>1, HeardStep
  <1>34. AcksSent(hist', net')
    <2>1. \A p \in Member : hist[p].nodes \in Seq(Node) /\ hist'[p].nodes \in Seq(Node)
      BY <1>2, <1>18, BackedFacts DEF Tree
    <2>2. AcksSent(hist, net) /\ \A b \in net : b.type = "ack" => b.from \in Member
      BY <1>2 DEF Lossless, AcksTrue, AckTrue
    <2>3. \A b \in net' : b.type = "ack" =>
              \/ b \in net /\ b.from \in Member
              \/ b.from # b.to /\ (b.ref => ConfirmedIn(hist'[b.from].nodes, b.id))
      BY <1>20, <2>2
    <2> QED
      BY <1>23, <2>1, <2>2, <2>3, SentStep
  <1> QED
    BY <1>8, <1>25, <1>26, <1>27, <1>32, <1>33, <1>34 DEF Lossless

(* Checking in n: what the history of its author becomes.                    *)
NewlyRecorded(hdr, H, hdr1, H1, m, n) ==
    /\ HeaderAdded(hdr, hdr1, n.id) /\ Author(n.id) = m /\ n.acks = Member \ {m}
    /\ \A p \in Member \ {m} : H1[p] = H[p]
    /\ Ids(H1[m].nodes) = Ids(H[m].nodes) \cup {n.id}
    /\ CheckedInFrame(m, H[m].nodes, H1[m].nodes, n)
    /\ Advances(m, H[m].nodes, H1[m].nodes, {n.id})

LEMMA CheckInRecords ==
    ASSUME ShapeInv, AckInv, AwaitsAll(hist), NEW m \in Member, CheckIn(m)
    PROVE  \E n : /\ NewlyRecorded(header, hist, header', hist', m, n)
                /\ outgoing' = [outgoing EXCEPT ![m] = n.id]
  <1> DEFINE h0  == hist[m]
             t   == h0.nodes
             id  == <<m, recent[m][m] + 1>>
             lin == MainSetLineage(h0)
             n   == ScriptNode(id, LastOf(lin), Member \ {m}, TRUE)
             h   == InsertNewNode(h0, n)
             h2  == IF Member = {m} THEN ConfirmAllOlderNodes(h, FindIdx(h.nodes, id)) ELSE h
  <1>1. /\ TypeOK /\ Good(header, m, h0) /\ Sound(h0) /\ Known(header, t) /\ Tree(t)
        /\ Tidy(m, t) /\ Backed(header, hist) /\ Awaits(m, t)
    BY NextKnown, InvBacked DEF AckInv, ShapeInv, IInv, Good, Sound, Agreed, AllTidy, AwaitsAll
  <1>2. PICK tip : Done(t, tip)
    BY <1>1 DEF Sound
  <1>3. recent[m][m] \in Nat /\ recent[m][m] < Limit[m]
    BY <1>1 DEF CheckIn, TypeOK
  <1>4. id \in Script /\ id \in Gid /\ Author(id) = m /\ Ord(id) = recent[m][m] + 1
    BY <1>3, NewIdType, ScriptType DEF Author, Ord
  <1>5. lin \in Seq(Gid) /\ lin # <<>> /\ Linked(header, lin) /\ Last(lin) = t[tip].id
    BY <1>1, <1>2, MainLineage
  <1>6. header' = [header EXCEPT ![id] = lin] /\ header \in [Script -> Lineage]
    BY <1>1 DEF CheckIn, TypeOK
  <1>7. outgoing' = [outgoing EXCEPT ![m] = id]
    BY DEF CheckIn
  <1>9. hist' = [hist EXCEPT ![m] = h2]
    BY DEF CheckIn
  <1>10. ~HasIncomingOrMissingScripts(h0) \/ HasToBeRejectedScripts(h0)
    BY DEF CheckIn, CanCheckIn
  <1>12. /\ n \in Node /\ n.id = id /\ n.pred = t[tip].id /\ n.exe /\ ~n.mis /\ ~n.rej /\ ~n.bp
         /\ n.acks = Member \ {m}
    <2>1. LastOf(lin) \in Gid \cup {NoId} /\ Member \ {m} \in SUBSET User
      BY <1>5, LastOfType DEF User
    <2>2. n \in Node
      BY <1>4, <2>1, ScriptNodeType
    <2>3. LastOf(lin) = t[tip].id
      BY <1>5, LastIs
    <2> QED
      BY <2>2, <2>3 DEF ScriptNode
  <1>13. Confirmed(n) <=> Member = {m}
    BY <1>12 DEF Confirmed
  <1> HIDE DEF lin, n, id
  <1>14. header[id] = <<>>
    BY <1>1, <1>3, <1>4 DEF ShapeInv, OwnRecorded
  <1>15. header'[id] = lin /\ HeaderAdded(header, header', id)
    BY <1>4, <1>6, <1>14 DEF HeaderAdded
  <1>16. id \notin Ids(t)
    <2> SUFFICES ASSUME id \in Ids(t) PROVE FALSE
      OBVIOUS
    <2>1. id \in Old(header)
      BY <1>1, RecordedIsOld DEF IdsOf
    <2> QED
      BY <1>4, <1>14, <2>1, RootNotScript DEF Old, CheckedIn
  <1>17. Good(header', m, h0) /\ CheckedIn(header', id) /\ Last(header'[id]) = n.pred
    BY <1>1, <1>4, <1>5, <1>12, <1>15, HeaderAddedGood DEF CheckedIn
  <1> HIDE DEF t
  <1>18. /\ CheckedInFrame(m, t, h2.nodes, n) /\ Ids(h2.nodes) = Ids(t) \cup {id}
         /\ Advances(m, t, h2.nodes, {id})
    <2> DEFINE h3 == IF Confirmed(n) THEN ConfirmAllOlderNodes(h, FindIdx(h.nodes, n.id)) ELSE h
    <2>0. /\ Author(n.id) = m /\ n.id \notin Ids(h0.nodes) /\ n.pred = h0.nodes[tip].id
          /\ Done(h0.nodes, tip) /\ Tidy(m, h0.nodes) /\ Awaits(m, h0.nodes)
          /\ CheckedIn(header', n.id) /\ Last(header'[n.id]) = n.pred
      BY <1>1, <1>2, <1>4, <1>12, <1>16, <1>17 DEF t
    <2>1. CheckedInFrame(m, h0.nodes, h3.nodes, n)
      BY <1>10, <1>12, <1>17, <2>0, CheckInTidy
    <2>5. Advances(m, h0.nodes, h3.nodes, {n.id})
      BY <1>10, <1>12, <1>17, <2>0, CheckInAdvances
    <2>2. Good(header', m, h) /\ Ids(h.nodes) = Ids(h0.nodes) \cup {n.id}
      BY <1>10, <1>12, <1>17, <2>0, CheckInGood
    <2>3. h3 = h2
      BY <1>12, <1>13
    <2> HIDE DEF h, h3
    <2>4. Ids(h2.nodes) = Ids(h.nodes)
      BY <2>2, ConfirmGood
    <2> HIDE DEF h2
    <2> QED
      BY <1>12, <2>1, <2>2, <2>3, <2>4, <2>5 DEF t
  <1> HIDE DEF h, h2
  <1>19. hist'[m] = h2 /\ \A p \in Member \ {m} : hist'[p] = hist[p]
    BY <1>1, <1>9 DEF TypeOK
  <1>20. NewlyRecorded(header, hist, header', hist', m, n)
    BY <1>4, <1>12, <1>15, <1>18, <1>19 DEF NewlyRecorded, t
  <1>21. outgoing' = [outgoing EXCEPT ![m] = n.id]
    BY <1>7, <1>12
  <1> QED
    BY <1>20, <1>21

(* Who has recorded what, when a script is checked in.                       *)
LEMMA RecordedFacts ==
    ASSUME NEW hdr, NEW H, Backed(hdr, H), NEW hdr1, NEW H1, Backed(hdr1, H1),
           NEW m \in Member, NEW n, NewlyRecorded(hdr, H, hdr1, H1, m, n)
    PROVE  /\ AllMoved(H, H1)
           /\ \A p \in Member : IdsOf(H, p) \subseteq IdsOf(H1, p)
           /\ \A p \in Member : n.id \notin IdsOf(H, p) /\ n.id \notin Present(H[p].nodes)
           /\ \A p \in Member : Present(H[p].nodes) \subseteq Present(H1[p].nodes)
           /\ Present(H1[m].nodes) = Present(H[m].nodes) \cup {n.id}
           /\ \A x : CheckedIn(hdr1, x) /\ x # n.id => CheckedIn(hdr, x)
  <1> DEFINE t == H[m].nodes
             u == H1[m].nodes
             s == n.id
  <1>1. /\ CheckedInFrame(m, t, u, n) /\ Advances(m, t, u, {s}) /\ Ids(u) = Ids(t) \cup {s}
        /\ HeaderAdded(hdr, hdr1, s)
    BY DEF NewlyRecorded
  <1>2. Moved(t, u)
    BY <1>1 DEF CheckedInFrame, Advances, Moved
  <1>3. \A p \in Member \ {m} : H1[p] = H[p]
    BY DEF NewlyRecorded
  <1>4. ASSUME NEW p \in Member PROVE Moved(H[p].nodes, H1[p].nodes)
    <2>1. CASE p = m
      BY <1>2, <2>1
    <2>2. CASE p # m
      <3>1. Tree(H[p].nodes)
        BY BackedFacts
      <3>2. H1[p] = H[p]
        BY <1>3, <2>2
      <3> QED
        BY <3>1, <3>2, SameMoved
    <2> QED
      BY <2>1, <2>2
  <1>5. ASSUME NEW p \in Member PROVE s \notin IdsOf(H, p) /\ s \notin Present(H[p].nodes)
    <2>1. IdsOf(H, p) \subseteq Old(hdr)
      BY RecordedIsOld
    <2>2. s \notin Old(hdr)
      BY <1>1, RootNotScript DEF Old, HeaderAdded, CheckedIn
    <2>3. \A i \in 1 .. Len(H[p].nodes) : H[p].nodes[i].id \in IdsOf(H, p)
      BY BackedFacts
    <2> QED
      BY <2>1, <2>2, <2>3 DEF Present
  <1>6. Present(u) = Present(t) \cup {s}
    BY <1>1 DEF Advances
  <1>7. \A x : CheckedIn(hdr1, x) /\ x # s => CheckedIn(hdr, x)
    BY <1>1 DEF HeaderAdded, CheckedIn
  <1>8. \A p \in Member : Present(H[p].nodes) \subseteq Present(H1[p].nodes)
    BY <1>3, <1>6
  <1>9. \A p \in Member : IdsOf(H, p) \subseteq IdsOf(H1, p)
    BY <1>4 DEF Moved, IdsOf
  <1> QED
    BY <1>4, <1>5, <1>6, <1>7, <1>8, <1>9 DEF AllMoved

(* Nobody owes more by it: the author has it, the others have not got it.    *)
LEMMA RecordedOwes ==
    ASSUME NEW hdr, NEW H, Backed(hdr, H), NEW hdr1, NEW H1, Backed(hdr1, H1),
           NEW m \in Member, NEW n, NewlyRecorded(hdr, H, hdr1, H1, m, n),
           NEW p \in Member, NEW x \in Script, Owes(hdr1, H1, p, x)
    PROVE  Owes(hdr, H, p, x)
  <1> DEFINE s == n.id
             S  == IdsOf(H, p)
             S1 == IdsOf(H1, p)
             P  == Present(H[p].nodes)
             P1 == Present(H1[p].nodes)
  <1>1. /\ CheckedIn(hdr1, x) /\ p # Author(x) /\ ~Loses(hdr1, S1, x)
        /\ \A y : Anc(hdr1, y, x) => y \in P1
    BY DEF Owes
  <1>2. /\ S \subseteq S1 /\ s \notin P
        /\ \A y : CheckedIn(hdr1, y) /\ y # s => CheckedIn(hdr, y)
    BY RecordedFacts
  <1>3. P1 \subseteq P \cup {s} /\ (p # m => P1 = P)
    <2>1. CASE p = m
      BY <2>1, RecordedFacts
    <2>2. CASE p # m
      BY <2>2 DEF NewlyRecorded
    <2> QED
      BY <2>1, <2>2
  <1>4. HeaderAdded(hdr, hdr1, s) /\ Author(s) = m
    BY DEF NewlyRecorded
  <1> HIDE DEF P, P1, S, S1, s
  <1>5. x # s
    <2> SUFFICES ASSUME x = s PROVE FALSE
      OBVIOUS
    <2>1. Anc(hdr1, s, x)
      BY AncFacts
    <2> QED
      BY <1>1, <1>2, <1>3, <1>4, <2>1
  <1>6. CheckedIn(hdr, x) /\ x \in Old(hdr)
    BY <1>1, <1>2, <1>5 DEF Old
  <1>7. Based(hdr, Old(hdr)) /\ s \notin Old(hdr)
    BY <1>4, RecordedIsOld, RootNotScript DEF Old, HeaderAdded, CheckedIn
  <1>8. ASSUME NEW y, Anc(hdr, y, x) PROVE y \in P
    <2>1. Anc(hdr1, y, x) /\ y \in Old(hdr)
      BY <1>4, <1>6, <1>7, <1>8, HeaderAddedAnc
    <2> QED
      BY <1>1, <1>3, <1>7, <2>1
  <1>9. ~Loses(hdr, S, x)
    <2> SUFFICES ASSUME Loses(hdr, S, x) PROVE FALSE
      OBVIOUS
    <2>1. Loses(hdr1, S, x)
      BY <1>4, <1>6, <1>7, HeaderAddedLoses
    <2> QED
      BY <1>1, <1>2, <2>1, LosesMore
  <1> QED
    BY <1>1, <1>6, <1>8, <1>9 DEF Owes, P, S

(* Nothing is confirmed by it unless nobody else is there.                   *)
LEMMA RecordedConfirms ==
    ASSUME NEW hdr, NEW H, Backed(hdr, H), NEW hdr1, NEW H1, Backed(hdr1, H1),
           NEW m \in Member, NEW n, NewlyRecorded(hdr, H, hdr1, H1, m, n), NEW bx1, NEW nt1
    PROVE  ConfirmsDue(hdr1, H, H1, bx1, nt1)
  <1> SUFFICES ASSUME NEW q \in Member, NEW z, ConfirmedAt(H1, q, z),
                      \A r \in Member : ~ConfirmedAt(H, r, z), NEW p \in Member,
                      ~ConfirmedAt(H1, p, z)
               PROVE  FALSE
    BY DEF ConfirmsDue
  <1> DEFINE t == H[m].nodes
             u == H1[m].nodes
  <1>1. q = m
    <2> SUFFICES ASSUME q # m PROVE FALSE
      OBVIOUS
    <2>1. H1[q] = H[q]
      BY DEF NewlyRecorded
    <2> QED
      BY <2>1 DEF ConfirmedAt
  <1>2. p # m
    BY <1>1
  <1>3. /\ n.acks = Member \ {m} /\ CheckedInFrame(m, t, u, n)
        /\ Ids(u) = Ids(t) \cup {n.id}
    BY DEF NewlyRecorded
  <1>4. ~Confirmed(n)
    BY <1>2, <1>3 DEF Confirmed
  <1>5. PICK j \in 1 .. Len(u) : u[j].id = z /\ ~u[j].rej /\ Confirmed(u[j])
    BY <1>1 DEF ConfirmedAt
  <1>6. u[j].id \in IdsOf(H1, m)
    BY BackedFacts
  <1>7. \A y \in IdsOf(H, m) : \E i \in 1 .. Len(t) : t[i].id = y
    BY BackedFacts
  <1>8. z # n.id
    BY <1>2, <1>3, <1>4, <1>5 DEF CheckedInFrame, Confirmed
  <1>9. PICK i \in 1 .. Len(t) : t[i].id = z
    BY <1>3, <1>5, <1>6, <1>7, <1>8 DEF IdsOf
  <1>10. ~t[i].rej /\ t[i].acks = u[j].acks
    BY <1>3, <1>4, <1>5, <1>9 DEF CheckedInFrame
  <1>11. ConfirmedAt(H, m, z)
    BY <1>5, <1>9, <1>10 DEF ConfirmedAt, Confirmed
  <1> QED
    BY <1>11

(* The author has not heard of it from anybody.                              *)
LEMMA RecordedHeard ==
    ASSUME NEW hdr, NEW H, Backed(hdr, H), NEW hdr1, NEW H1, Backed(hdr1, H1),
           NEW m \in Member, NEW n, NewlyRecorded(hdr, H, hdr1, H1, m, n), OwnHeard(H)
    PROVE  OwnHeard(H1)
  <1>1. ASSUME NEW q \in Member, NEW j \in 1 .. Len(H1[q].nodes),
               Author(H1[q].nodes[j].id) = q, ~Confirmed(H1[q].nodes[j]),
               NEW p \in Member \ ({q} \cup H1[q].nodes[j].acks)
        PROVE  \E i \in 1 .. Len(H[q].nodes) : /\ H[q].nodes[i].id = H1[q].nodes[j].id
                                               /\ p \notin H[q].nodes[i].acks
    <2>1. CASE q # m
      <3>1. H1[q] = H[q]
        BY <2>1 DEF NewlyRecorded
      <3> QED
        BY <1>1, <3>1
    <2>2. CASE q = m
      <3> DEFINE t == H[m].nodes
                 u == H1[m].nodes
      <3>1. /\ n.acks = Member \ {m} /\ CheckedInFrame(m, t, u, n)
            /\ Ids(u) = Ids(t) \cup {n.id}
        BY DEF NewlyRecorded
      <3>2. ~Confirmed(n)
        BY <1>1, <2>2, <3>1 DEF Confirmed
      <3>3. j \in 1 .. Len(u) /\ p \notin u[j].acks /\ p \in Member \ {m}
        BY <1>1, <2>2
      <3>4. u[j].id # n.id
        BY <3>1, <3>2, <3>3 DEF CheckedInFrame
      <3>5. u[j].id \in IdsOf(H1, m)
        BY <3>3, BackedFacts
      <3>6. \A y \in IdsOf(H, m) : \E i \in 1 .. Len(t) : t[i].id = y
        BY BackedFacts
      <3>7. u[j].id \in IdsOf(H, m)
        BY <3>1, <3>4, <3>5 DEF IdsOf
      <3>8. PICK i \in 1 .. Len(t) : t[i].id = u[j].id
        BY <3>6, <3>7
      <3>9. u[j].acks = t[i].acks
        BY <3>1, <3>2, <3>3, <3>8 DEF CheckedInFrame
      <3> QED
        BY <2>2, <3>3, <3>8, <3>9
    <2> QED
      BY <2>1, <2>2
  <1>2. AllMoved(H, H1)
    BY RecordedFacts
  <1> QED
    BY <1>1, <1>2, HeardStep

(* Checking in.                                                              *)
LEMMA CheckInLossless ==
    ASSUME Lossless, AckInv', AllKept, NEW m \in Member, CheckIn(m)
    PROVE  Lossless'
  <1>1. /\ ShapeInv /\ AckInv /\ TypeOK /\ Backed(header, hist) /\ AllConfirmedFinal(header, hist)
        /\ AwaitsAll(hist) /\ OwnHeard(hist) /\ AcksSent(hist, net)
        /\ AcksOwed(header, hist, box, net) /\ RefsOwed(header, hist, box, net)
        /\ OnItsWay(header, hist, inbox, outgoing, net)
        /\ AcksTrue(header, hist, net)
    BY InvBacked DEF Lossless, AckInv, ShapeInv, IInv, Agreed
  <1>2. PICK n : /\ NewlyRecorded(header, hist, header', hist', m, n)
                 /\ outgoing' = [outgoing EXCEPT ![m] = n.id]
    BY <1>1, CheckInRecords
  <1>3. Backed(header', hist')
    BY InvBackedNext DEF AckInv
  <1>4. net' = net /\ inbox' = inbox /\ outgoing[m] = NoId
    BY DEF CheckIn, AtRest
  <1>5. MustGrows(box, box')
    <2>1. box \in [Member -> [must : SUBSET AckItem, can : SUBSET AckItem]]
      BY <1>1 DEF TypeOK
    <2>2. PICK S : box' = [box EXCEPT ![m].must = box[m].must \cup S]
      BY DEF CheckIn
    <2> QED
      BY <2>1, <2>2 DEF MustGrows
  <1>6. StillMailed(box, net, box', net')
    <2>1. \A p \in Member : box[p].must \subseteq box'[p].must
      BY <1>5 DEF MustGrows
    <2>2. \A b \in net \ net' : b.type # "ack"
      BY <1>4
    <2> QED
      BY <2>1, <2>2, NoAckLost
  <1>7. /\ AllMoved(hist, hist')
        /\ \A p \in Member : IdsOf(hist, p) \subseteq IdsOf(hist', p)
        /\ \A p \in Member : Present(hist[p].nodes) \subseteq Present(hist'[p].nodes)
        /\ \A x : CheckedIn(header', x) /\ x # n.id => CheckedIn(header, x)
    BY <1>1, <1>2, <1>3, RecordedFacts
  <1>8. AwaitsAll(hist')
    <2>1. Awaits(m, hist'[m].nodes)
      BY <1>2 DEF NewlyRecorded, Advances
    <2> QED
      BY <1>1, <1>2, <2>1 DEF AwaitsAll, NewlyRecorded
  <1>9. OnItsWay(header', hist', inbox', outgoing', net')
    <2> SUFFICES ASSUME NEW s \in Script, NEW p \in Member \ {Author(s)}, CheckedIn(header', s)
                 PROVE  \/ s \in Present(hist'[p].nodes) \/ s \in inbox'[p]
                        \/ outgoing'[Author(s)] = s
                        \/ [type |-> "script", id |-> s, to |-> p] \in net'
      BY DEF OnItsWay
    <2>1. DOMAIN outgoing = Member /\ Author(s) \in Member
      BY <1>1, ScriptType DEF TypeOK
    <2>2. CASE s = n.id
      BY <1>2, <2>1, <2>2 DEF NewlyRecorded
    <2>3. CASE s # n.id
      <3> DEFINE b == [type |-> "script", id |-> s, to |-> p]
      <3>1. \/ s \in Present(hist[p].nodes) \/ s \in inbox[p] \/ outgoing[Author(s)] = s
            \/ b \in net
        BY <1>1, <1>7, <2>3 DEF OnItsWay
      <3> HIDE DEF b
      <3>2. NoId \notin Script
        <4>1. \A q \in Member : q # 0
          BY MemberAssumption
        <4>2. \A q \in Member : NoId \notin {q} \X (1 .. Limit[q])
          BY <4>1 DEF NoId
        <4> QED
          BY <4>2 DEF Script
      <3>3. outgoing[Author(s)] = s => outgoing'[Author(s)] = s
        BY <1>2, <1>4, <2>1, <3>2
      <3> QED
        BY <1>4, <1>7, <3>1, <3>3 DEF b
    <2> QED
      BY <2>2, <2>3
  <1>10. AcksOwed(header', hist', box', net')
    <2>1. ASSUME NEW p \in Member, NEW x \in Script, Owes(header', hist', p, x)
          PROVE  Owes(header, hist, p, x)
      BY <1>1, <1>2, <1>3, <2>1, RecordedOwes
    <2>2. ASSUME NEW p \in Member, NEW x \in Script, AckMailed(box, net, p, x), p # Author(x)
          PROVE  AckMailed(box', net', p, x)
      BY <1>6, <2>2 DEF StillMailed
    <2>3. \A p \in Member, x \in Script :
              Owes(header', hist', p, x) => Owes(header, hist, p, x) \/ AckMailed(box', net', p, x)
      BY <2>1
    <2>4. \A p \in Member, x \in Script :
              AckMailed(box, net, p, x) /\ p # Author(x) =>
                 AckMailed(box', net', p, x) \/ AckTaken(hist', p, x)
      BY <2>2
    <2> QED
      BY <1>1, <1>7, <2>3, <2>4, OwedStep
  <1>11. RefsOwed(header', hist', box', net')
    <2>1. ConfirmsDue(header', hist, hist', box', net')
      BY <1>1, <1>2, <1>3, RecordedConfirms
    <2>2. RefsKept(header', hist, hist', box, net, box', net')
      BY <1>6 DEF StillMailed, RefsKept
    <2>3. FinalStill(header, hist, header', hist')
      <3>1. \A p \in Member : IdsOf(hist, p) \subseteq Old(header)
        BY <1>1, RecordedIsOld
      <3>2. Based(header, Old(header)) /\ HeaderAdded(header, header', n.id)
        BY <1>1, <1>2, RecordedIsOld DEF NewlyRecorded
      <3>3. ASSUME NEW w \in Old(header), NEW z, Anc(header, z, w) PROVE Anc(header', z, w)
        BY <3>2, <3>3, HeaderAddedAnc
      <3> QED
        BY <3>1, <3>3 DEF AllKept, FinalKept, FinalStill
    <2> QED
      BY <1>1, <1>3, <1>7, <2>1, <2>2, <2>3, RefStep
  <1>12. OwnHeard(hist')
    BY <1>1, <1>2, <1>3, RecordedHeard
  <1>13. AcksSent(hist', net')
    <2>1. \A p \in Member : hist[p].nodes \in Seq(Node) /\ hist'[p].nodes \in Seq(Node)
      BY <1>1, <1>3, BackedFacts DEF Tree
    <2>2. \A b \in net : b.type = "ack" => b.from \in Member
      BY <1>1 DEF AcksTrue, AckTrue
    <2>3. \A b \in net' : b.type = "ack" =>
              \/ b \in net /\ b.from \in Member
              \/ b.from # b.to /\ (b.ref => ConfirmedIn(hist'[b.from].nodes, b.id))
      BY <1>4, <2>2
    <2> QED
      BY <1>1, <1>7, <2>1, <2>3, SentStep
  <1> QED
    BY <1>8, <1>9, <1>10, <1>11, <1>12, <1>13 DEF Lossless

(* Nothing is on its way in the beginning.                                   *)
LEMMA InitLossless == Init => Lossless
  <1> SUFFICES ASSUME Init PROVE Lossless
    OBVIOUS
  <1>1. AckInv
    BY InitAck
  <1>2. /\ \A m \in Member : hist[m] = InitialHistory
        /\ net = {} /\ \A s \in Script : header[s] = <<>>
    BY DEF Init
  <1>3. \A s : ~CheckedIn(header, s)
    BY <1>2 DEF CheckedIn
  <1>4. Backed(header, hist)
    BY <1>1, InvBacked DEF AckInv
  <1>5. ASSUME NEW m \in Member
        PROVE  /\ \A i \in 1 .. Len(hist[m].nodes) :
                     hist[m].nodes[i].acks = {} /\ hist[m].nodes[i].id = Root /\ ~hist[m].nodes[i].rej
               /\ Len(hist[m].nodes) = 1
    <2> DEFINE t == hist[m].nodes
    <2>1. Len(t) = 1
      BY <1>2 DEF InitialHistory
    <2>2. Sound(hist[m])
      BY <1>4, BackedFacts
    <2>3. RootSettled(t) /\ t[1].id = Root
      BY <2>2 DEF Sound, Tree, Shaped
    <2> QED
      BY <2>1, <2>3 DEF RootSettled
  <1>6. AwaitsAll(hist)
    BY <1>5 DEF AwaitsAll, Awaits
  <1>7. OnItsWay(header, hist, inbox, outgoing, net) /\ AcksOwed(header, hist, box, net)
    BY <1>3 DEF OnItsWay, AcksOwed, Owes
  <1>8. RefsOwed(header, hist, box, net)
    <2> SUFFICES ASSUME NEW m \in Member, NEW p \in Member, NEW z, ConfirmedAt(hist, m, z)
                 PROVE  ConfirmedAt(hist, p, z)
      BY DEF RefsOwed
    <2>1. hist[p] = hist[m]
      BY <1>2
    <2> QED
      BY <2>1 DEF ConfirmedAt
  <1>9. OwnHeard(hist)
    BY <1>5 DEF OwnHeard, Confirmed
  <1>10. AcksSent(hist, net)
    BY <1>2 DEF AcksSent
  <1> QED
    BY <1>1, <1>6, <1>7, <1>8, <1>9, <1>10 DEF Lossless

(* Every step keeps the invariant.                                           *)
LEMMA StepLossless ==
    ASSUME Crashing = {}, Corruptible = {}, Newcomer = {}, Lossless, [Next]_vars
    PROVE  Lossless'
  <1>1. AckInv' /\ AllKept
    BY StepAck DEF Lossless
  <1>2. CASE UNCHANGED vars
    <2>1. UNCHANGED <<hist, recent, header, net, box, inbox, outgoing>>
      BY <1>2 DEF vars
    <2> QED
      BY <1>1, <2>1 DEF Lossless
  <1>3. ASSUME NEW m \in Member, CheckIn(m) PROVE Lossless'
    BY <1>1, <1>3, CheckInLossless
  <1>4. ASSUME NEW m \in Member, Broadcast(m) PROVE Lossless'
    BY <1>1, <1>4, BroadcastLossless
  <1>5. ASSUME NEW m \in Member, Crash(m) PROVE Lossless'
    BY <1>5 DEF Crash
  <1>6. ASSUME NEW m \in Member, NEW id \in Script, UnpackScript(m, id) PROVE Lossless'
    BY <1>1, <1>6, UnpackScriptLossless
  <1>7. ASSUME NEW m \in Member, UnpackAcks(m) PROVE Lossless'
    BY <1>1, <1>7, UnpackAcksLossless
  <1>8. ASSUME NEW m \in Member, SendAcknowledgments(m) PROVE Lossless'
    BY <1>1, <1>8, SendLossless
  <1>9. ASSUME NEW m \in Member, RequestMissing(m) PROVE Lossless'
    BY <1>1, <1>9, RequestLossless
  <1>10. ASSUME NEW m \in Member, AnswerRequests(m) PROVE Lossless'
    BY <1>1, <1>10, AnswerLossless
  <1>11. ASSUME NEW m \in Member, ExecuteNext(m) \/ MarkMissing(m) PROVE Lossless'
    BY <1>1, <1>11, ExecutionLossless
  <1> QED
    BY <1>2, <1>3, <1>4, <1>5, <1>6, <1>7, <1>8, <1>9, <1>10, <1>11 DEF Next

(* Hence it holds in every reachable state.                                  *)
LEMMA LosslessHolds ==
    ASSUME Crashing = {}, Corruptible = {}, Newcomer = {} PROVE Spec => []Lossless
  <1>1. Lossless /\ [Next]_vars => Lossless'
    BY StepLossless
  <1> QED
    BY <1>1, InitLossless, PTL DEF Spec

(* When nothing is on its way everybody has everything.                      *)
LEMMA QuietPresent ==
    ASSUME Lossless, Quiet, NEW p \in Member
    PROVE  Present(hist[p].nodes) = Old(header) /\ IdsOf(hist, p) = Old(header)
  <1> DEFINE t == hist[p].nodes
  <1>1. /\ Backed(header, hist) /\ OnItsWay(header, hist, inbox, outgoing, net) /\ AllTidy(hist)
    BY InvBacked DEF Lossless, AckInv, Agreed
  <1>2. /\ net = {} /\ \A m \in Member : outgoing[m] = NoId /\ inbox[m] = {}
    BY DEF Quiet, Delivered, AtRest
  <1>3. NoId \notin Script
    BY NoIdType, ScriptType
  <1>4. IdsOf(hist, p) \subseteq Old(header)
    BY <1>1, RecordedIsOld
  <1>5. \A i \in 1 .. Len(t) : t[i].id \in IdsOf(hist, p)
    BY <1>1, BackedFacts
  <1>6. Present(t) \subseteq IdsOf(hist, p)
    BY <1>5 DEF Present
  <1>7. Sound(hist[p]) /\ Good(header, p, hist[p])
    BY <1>1, BackedFacts DEF Backed
  <1>8. Root \in Present(t)
    <2>1. RootSettled(t) /\ t[1].id = Root /\ Tree(t)
      BY <1>7 DEF Sound, Tree, Shaped
    <2>2. 1 \in 1 .. Len(t)
      BY <2>1, Places DEF Tree, Shaped
    <2> QED
      BY <2>1, <2>2 DEF RootSettled, Present
  <1>9. ASSUME NEW s \in Script, CheckedIn(header, s) PROVE s \in Present(t)
    <2>1. CASE Author(s) = p
      <3>1. s \in IdsOf(hist, p)
        BY <1>1, <1>9, <2>1 DEF Backed
      <3>2. PICK i \in 1 .. Len(t) : t[i].id = s
        BY <1>1, <3>1, BackedFacts
      <3>3. ~t[i].mis
        BY <1>1, <2>1, <3>2 DEF AllTidy, Tidy, OwnPresent
      <3> QED
        BY <3>2, <3>3 DEF Present
    <2>2. CASE Author(s) # p
      <3>1. Author(s) \in Member
        BY ScriptType
      <3>2. outgoing[Author(s)] # s /\ s \notin inbox[p]
        BY <1>2, <1>3, <3>1
      <3>3. [type |-> "script", id |-> s, to |-> p] \notin net
        BY <1>2
      <3> QED
        BY <1>1, <1>9, <2>2, <3>2, <3>3 DEF OnItsWay
    <2> QED
      BY <2>1, <2>2
  <1>10. Old(header) \subseteq Present(t)
    BY <1>8, <1>9 DEF Old
  <1> QED
    BY <1>4, <1>6, <1>10

(***************************************************************************)
(* When no program stops before its mail is sent, no script turns out       *)
(* unreadable and no member takes mail for prehistoric, then with all mail  *)
(* delivered and processed every script is confirmed that was not rejected, *)
(* with every member, although acknowledgments overtake scripts: each of    *)
(* them is taken by the author or on its way to it, and so is the           *)
(* make-reference of what is confirmed at one member and not at another.    *)
(***************************************************************************)
THEOREM NothingStaysUnconfirmed ==
    ASSUME Crashing = {}, Corruptible = {}, Newcomer = {} PROVE Spec => []AllConfirmed
  <1>1. ASSUME Lossless PROVE AllConfirmed
    <2> SUFFICES ASSUME Quiet, NEW m \in Member, NEW i \in DOMAIN hist[m].nodes, ~hist[m].nodes[i].rej
                 PROVE  Confirmed(hist[m].nodes[i])
      BY DEF AllConfirmed
    <2> DEFINE t == hist[m].nodes
               x == t[i].id
               a == Author(x)
               u == hist[a].nodes
    <2>1. /\ Backed(header, hist) /\ AcksOwed(header, hist, box, net) /\ RefsOwed(header, hist, box, net)
          /\ AwaitsAll(hist)
      BY <1>1, InvBacked DEF Lossless, AckInv
    <2>2. Sound(hist[m]) /\ Tree(t)
      BY <2>1, BackedFacts
    <2>3. i \in 1 .. Len(t) /\ t[1].id = Root /\ RootSettled(t)
          /\ \A j, k \in 1 .. Len(t) : t[j].id = t[k].id => j = k
      BY <2>2, Places DEF Sound, Tree, Shaped
    <2>4. x \in IdsOf(hist, m) /\ ~Loses(header, IdsOf(hist, m), x)
      BY <2>1, <2>3, BackedFacts
    <2>5. \A p \in Member : Present(hist[p].nodes) = Old(header) /\ IdsOf(hist, p) = Old(header)
      BY <1>1, QuietPresent
    <2>6. /\ net = {} /\ \A p \in Member : box[p].must = {}
      BY DEF Quiet, Delivered, AtRest, EmptyBox
    <2>7. CASE x = Root
      <3>1. i = 1
        BY <2>3, <2>7
      <3> QED
        BY <2>3, <3>1 DEF RootSettled, Confirmed
    <2>8. CASE x # Root
      <3>1. x \in Script /\ CheckedIn(header, x) /\ a \in Member
        BY <2>4, <2>5, <2>8, ScriptType DEF Old
      <3> HIDE DEF x, a
      <3>2. ASSUME NEW p \in Member, p # a PROVE AckTaken(hist, p, x)
        <4>1. \A y : Anc(header, y, x) => y \in Present(hist[p].nodes)
          BY <2>1, <2>4, <2>5, BackedFacts
        <4>2. ~Loses(header, IdsOf(hist, p), x)
          BY <2>4, <2>5
        <4>3. Owes(header, hist, p, x)
          BY <3>1, <3>2, <4>1, <4>2 DEF Owes, a
        <4>4. ~AckMailed(box, net, p, x)
          BY <2>6 DEF AckMailed
        <4> QED
          BY <2>1, <3>1, <4>3, <4>4 DEF AcksOwed
      <3>3. x \in IdsOf(hist, a) /\ ~Loses(header, IdsOf(hist, a), x)
        BY <2>4, <2>5, <3>1
      <3>4. PICK j \in 1 .. Len(u) : u[j].id = x
        BY <2>1, <3>1, <3>3, BackedFacts
      <3>5. ~u[j].rej
        BY <2>1, <3>1, <3>3, <3>4, BackedFacts
      <3>6. u[j].acks \subseteq Member \ {a}
        BY <2>1, <3>1, <3>4 DEF AwaitsAll, Awaits, a
      <3>7. \A p \in Member : p # a => p \notin u[j].acks
        BY <3>2, <3>4, <3>5 DEF AckTaken, a
      <3>8. ConfirmedAt(hist, a, x)
        BY <3>4, <3>5, <3>6, <3>7 DEF ConfirmedAt, Confirmed
      <3>9. ~RefDue(header, hist, box, net, m, x)
        BY <2>6, ScriptType DEF RefDue, RefMailed
      <3>10. ConfirmedAt(hist, m, x)
        BY <2>1, <3>1, <3>8, <3>9 DEF RefsOwed
      <3> QED
        BY <2>3, <3>10 DEF ConfirmedAt, x
    <2> QED
      BY <2>7, <2>8
  <1> QED
    BY <1>1, LosslessHolds, PTL

=============================================================================

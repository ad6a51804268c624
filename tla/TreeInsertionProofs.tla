------------------------ MODULE TreeInsertionProofs ------------------------
(***************************************************************************)
(* The walk that finds the place of a new script implements the insertion   *)
(* that knows of branches and subtrees only, in any tree of scripts.  The   *)
(* invariant says, for each way the gatherer can be going on, how much of   *)
(* the abstract insertion the walk has done and what its stack lists.       *)
(***************************************************************************)
EXTENDS TreeInsertion, TreeShapeProofs

----------------------------------------------------------------------------
(* The abstract specification computes with the same operators *)

(* The operators of a branch: its end, its heads, the one that decides.      *)
LEMMA SameBranches ==
    /\ \A t, p : Abstract!SubtreeEnd(t, p) = SubtreeEnd(t, p)
    /\ \A t, p : Abstract!BranchHeads(t, p) = BranchHeads(t, p)
    /\ \A t, p, u : Abstract!DecidingHead(t, p, u) = DecidingHead(t, p, u)
    /\ \A t, p, u : Abstract!Wins(t, p, u) = Wins(t, p, u)
  <1>1. \A t, p : Abstract!SubtreeEnd(t, p) = SubtreeEnd(t, p)
    BY DEF Abstract!SubtreeEnd, SubtreeEnd, Abstract!Least, Least
  <1>2. \A t, p : Abstract!BranchHeads(t, p) = BranchHeads(t, p)
    BY <1>1 DEF Abstract!BranchHeads, BranchHeads, Abstract!Subtree, Subtree
  <1>3. \A t, p, u : Abstract!DecidingHead(t, p, u) = DecidingHead(t, p, u)
    BY DEF Abstract!DecidingHead, DecidingHead, Abstract!HigherPriority, HigherPriority,
           Abstract!Author, Author, Abstract!Least, Least, Abstract!BranchHeads, BranchHeads,
           Abstract!Subtree, Subtree, Abstract!SubtreeEnd, SubtreeEnd
  <1>4. \A t, p, u : Abstract!Wins(t, p, u) = Wins(t, p, u)
    BY <1>3 DEF Abstract!Wins, Wins, Abstract!HigherPriority, HigherPriority,
                Abstract!Author, Author
  <1> QED
    BY <1>1, <1>2, <1>3, <1>4

(* The parts of an insertion.                                                *)
LEMMA SameParts ==
    /\ \A t, id : Abstract!FindIdx(t, id) = FindIdx(t, id)
    /\ \A t, p, u : Abstract!InsertionIdx(t, p, u) = InsertionIdx(t, p, u)
    /\ \A t, p, u : Abstract!PrepareBranch(t, p, u) = PrepareBranch(t, p, u)
    /\ \A t, f : Abstract!RepairedFis(t, f) = RepairedFis(t, f)
  <1>1. \A t, id : Abstract!FindIdx(t, id) = FindIdx(t, id)
    BY DEF Abstract!FindIdx, FindIdx
  <1>2. \A t, p, u : Abstract!InsertionIdx(t, p, u) = InsertionIdx(t, p, u)
    BY SameBranches DEF Abstract!InsertionIdx, InsertionIdx,
                        Abstract!HigherPriority, HigherPriority, Abstract!Author, Author
  <1>3. \A t, p, u : Abstract!PrepareBranch(t, p, u) = PrepareBranch(t, p, u)
    BY DEF Abstract!PrepareBranch, PrepareBranch, Abstract!Wins, Wins,
           Abstract!DecidingHead, DecidingHead, Abstract!HigherPriority, HigherPriority,
           Abstract!Author, Author, Abstract!Least, Least, Abstract!BranchHeads, BranchHeads,
           Abstract!Subtree, Subtree, Abstract!SubtreeEnd, SubtreeEnd
  <1>4. \A t, f : Abstract!RepairedFis(t, f) = RepairedFis(t, f)
    BY DEF Abstract!RepairedFis, RepairedFis, Abstract!Greatest, Greatest,
           Abstract!Executed, Executed, Abstract!Confirmed, Confirmed
  <1> QED
    BY <1>1, <1>2, <1>3, <1>4

(* The insertion of a chain.                                                 *)
LEMMA SameInsert ==
    ASSUME NEW h, NEW pred, NEW chain
    PROVE  Abstract!InsertChain(h, pred, chain) = InsertChain(h, pred, chain)
  <1> DEFINE t     == h.nodes
             p     == FindIdx(t, pred)
             user  == Author(chain[1].id)
             at    == InsertionIdx(t, p, user)
             t1    == PrepareBranch(t, p, user)
             atEnd == at = Len(t) + 1
             new   == [i \in 1 .. Len(chain) |-> [chain[i] EXCEPT !.rej = @ \/ ~atEnd]]
             t2    == SubSeq(t1, 1, at - 1) \o new \o SubSeq(t1, at, Len(t))
  <1>1. /\ Abstract!FindIdx(t, pred) = p /\ Abstract!Author(chain[1].id) = user
        /\ Abstract!InsertionIdx(t, p, user) = at /\ Abstract!PrepareBranch(t, p, user) = t1
        /\ Abstract!Wins(t, p, user) = Wins(t, p, user)
        /\ Abstract!RepairedFis(t2, h.fis) = RepairedFis(t2, h.fis)
    BY SameBranches, SameParts DEF Abstract!Author, Author
  <1>2. Abstract!InsertChain(h, pred, chain)
          = [nodes |-> t2,
             fis   |-> IF atEnd /\ Abstract!Wins(t, p, user)
                         THEN Abstract!RepairedFis(t2, h.fis) ELSE h.fis]
    <2> HIDE DEF user, p, t
    <2>1. Abstract!InsertChain(h, pred, chain) =
            LET tt   == h.nodes
                pp   == Abstract!FindIdx(tt, pred)
                us   == Abstract!Author(chain[1].id)
                att  == Abstract!InsertionIdx(tt, pp, us)
                tt1  == Abstract!PrepareBranch(tt, pp, us)
                end  == att = Len(tt) + 1
                neww == [i \in 1 .. Len(chain) |-> [chain[i] EXCEPT !.rej = @ \/ ~end]]
                tt2  == SubSeq(tt1, 1, att - 1) \o neww \o SubSeq(tt1, att, Len(tt))
            IN  [nodes |-> tt2,
                 fis   |-> IF end /\ Abstract!Wins(tt, pp, us)
                             THEN Abstract!RepairedFis(tt2, h.fis) ELSE h.fis]
      BY DEF Abstract!InsertChain
    <2> QED
      BY <1>1, <2>1 DEF t
  <1> QED
    BY <1>1, <1>2 DEF InsertChain

----------------------------------------------------------------------------
(* The walk, and the invariant *)

(* The stack q lists the ids of the nodes of W, in array order.              *)
Lists(t, W, q) ==
    /\ q \in Seq(Gid)
    /\ \A k \in 1 .. Len(q) : FindIdx(t, q[k]) \in W /\ q[k] = t[FindIdx(t, q[k])].id
    /\ \A x \in W : \E k \in 1 .. Len(q) : q[k] = t[x].id
    /\ \A k, l \in 1 .. Len(q) : k < l <=> FindIdx(t, q[k]) < FindIdx(t, q[l])

(* The branch points the walk from t[p] to t[x] has passed and not left; the *)
(* parent, once it has a branch beside the new one, is one.                  *)
OnWay(t, p, x) ==
    {y \in p .. x - 1 : (y = p \/ t[y].bp) /\ Under(Parents(t), y, x)}

(* w is t, its branch point p marked, the nodes from lo to hi rejected.       *)
Swept(t, p, lo, hi, w) ==
    /\ w \in Seq(Node) /\ Len(w) = Len(t)
    /\ \A i \in 1 .. Len(t) :
          /\ w[i].id = t[i].id /\ w[i].pred = t[i].pred /\ w[i].acks = t[i].acks
          /\ w[i].mis = t[i].mis /\ w[i].exe = t[i].exe
          /\ w[i].bp <=> t[i].bp \/ i = p
          /\ w[i].rej <=> t[i].rej \/ i \in lo .. hi

(* The branches from t[p] up to position j are rejected and lose to u.       *)
LostUpTo(t, p, u, j) ==
    \A i \in 2 .. Len(t) :
        Parents(t)[i] = p /\ i <= j => t[i].rej /\ ~HigherPriority(t[i], u)

(* The walk is strictly inside the subtree of the predecessor t[p].          *)
Inside(t, p) == pos \in p + 1 .. Len(t) /\ Under(Parents(t), p, pos)

(* The ways the walk from t[p] for a script of u can be going on: it is at the*)
(* predecessor;                                                              *)
AtParent(t, p) == walking /\ pos = p /\ nodes = t /\ gatherer = NewGatherer

(* The states of the gatherer.                                               *)
Gatherer == [parent : Nat, makeBranchingPoint : BOOLEAN, keepRejecting : BOOLEAN,
             keepSkipping : BOOLEAN, stack : Seq(Gid)]

(* The gatherer g has seen the parent p, and goes on in one of three ways.   *)
Going(g, p, marking, rejecting, skipping) ==
    /\ g \in Gatherer /\ g.parent = p
    /\ g.makeBranchingPoint <=> marking
    /\ g.keepRejecting <=> rejecting
    /\ g.keepSkipping <=> skipping

(* at the head of a branch, after branches that lost;                        *)
AtSibling(t, p, u) ==
    /\ walking /\ Inside(t, p) /\ Parents(t)[pos] = p /\ nodes = t
    /\ Going(gatherer, p, ~t[p].bp, FALSE, FALSE)
    /\ gatherer.stack = IF t[p].bp THEN <<t[p].id>> ELSE <<>>
    /\ LostUpTo(t, p, u, pos - 1)

(* inside a branch that lost;                                                *)
InLostBranch(t, p, u) ==
    /\ walking /\ Inside(t, p) /\ Parents(t)[pos] # p /\ Swept(t, p, 1, 0, nodes)
    /\ Going(gatherer, p, FALSE, FALSE, TRUE)
    /\ Lists(t, OnWay(t, p, pos), gatherer.stack)
    /\ LostUpTo(t, p, u, pos)

(* behind the head of the trunk that loses, rejecting;                       *)
OnOldTrunk(t, p, u) ==
    LET h == DecidingHead(t, p, u)
    IN  /\ walking /\ Inside(t, p) /\ Wins(t, p, u) /\ h < pos /\ Swept(t, p, h, pos - 1, nodes)
        /\ Going(gatherer, p, FALSE, TRUE, FALSE)
        /\ Lists(t, OnWay(t, p, pos), gatherer.stack)

(* at its end, at the place the abstract insertion computes.                 *)
Stopped(t, p, u) ==
    /\ ~walking /\ pos = InsertionIdx(t, p, u) /\ nodes = PrepareBranch(t, p, u)
    /\ gatherer.keepRejecting \in BOOLEAN /\ gatherer.keepRejecting = Wins(t, p, u)

Walk(t, p, u) ==
    \/ AtParent(t, p)
    \/ AtSibling(t, p, u)
    \/ InLostBranch(t, p, u)
    \/ OnOldTrunk(t, p, u)
    \/ Stopped(t, p, u)

(* A history a script can be inserted in, and a script it can take.          *)
Ready(h) == h \in History /\ Tree(h.nodes) /\ RootSettled(h.nodes)

Alone(h, n) == Hangs(h.nodes, n.pred, <<n>>)

(* Script n is on its way into the history h.                                *)
Inserting(h, n) ==
    /\ Ready(h) /\ Alone(h, n)
    /\ fis = h.fis
    /\ Walk(h.nodes, FindIdx(h.nodes, n.pred), Author(n.id))

(* Between two insertions; during the first script of a chain; the second.   *)
Resting == Ready([nodes |-> nodes, fis |-> fis]) /\ ~walking

AtFirst(chain) == todo = chain /\ Inserting(before, chain[1])

AtSecond(chain) ==
    /\ Len(chain) = 2 /\ todo = <<chain[2]>>
    /\ Inserting(InsertChain(before, chain[1].pred, <<chain[1]>>), chain[2])

UnderWay ==
    /\ Ready(before)
    /\ \E chain \in Abstract!Chains(before) : AtFirst(chain) \/ AtSecond(chain)

(* The inductive invariant.                                                  *)
InsertionInv == IF pos = 0 THEN Resting ELSE UnderWay

----------------------------------------------------------------------------
(* The stack of branch points *)

(* What the list of ids says of the places.                                  *)
LEMMA Listed ==
    ASSUME NEW t \in Seq(Node), Shaped(t), NEW W \in SUBSET (1 .. Len(t)), NEW q, Lists(t, W, q)
    PROVE  /\ Len(q) \in Nat /\ DOMAIN q = 1 .. Len(q)
           /\ \A k \in 1 .. Len(q) : q[k] \in Gid /\ FindIdx(t, q[k]) \in W
           /\ \A k \in 1 .. Len(q), x \in W : q[k] = t[x].id <=> FindIdx(t, q[k]) = x
           /\ \A x \in W : \E k \in 1 .. Len(q) : FindIdx(t, q[k]) = x
           /\ \A k, l \in 1 .. Len(q) : k < l <=> FindIdx(t, q[k]) < FindIdx(t, q[l])
  <1>1. Len(q) \in Nat /\ DOMAIN q = 1 .. Len(q) /\ \A k \in 1 .. Len(q) : q[k] \in Gid
    BY DEF Lists
  <1>2. \A k \in 1 .. Len(q) : FindIdx(t, q[k]) \in W /\ q[k] = t[FindIdx(t, q[k])].id
    BY DEF Lists
  <1>3. \A x \in W : x \in 1 .. Len(t) /\ FindIdx(t, t[x].id) = x
    BY Places
  <1>4. \A x \in W : \E k \in 1 .. Len(q) : q[k] = t[x].id
    BY DEF Lists
  <1>5. \A k, l \in 1 .. Len(q) : k < l <=> FindIdx(t, q[k]) < FindIdx(t, q[l])
    BY DEF Lists
  <1> QED
    BY <1>1, <1>2, <1>3, <1>4, <1>5

(* The empty stack, and the stack with one branch point.                     *)
LEMMA ListsFew ==
    ASSUME NEW t \in Seq(Node), Shaped(t)
    PROVE  /\ Lists(t, {}, <<>>)
           /\ \A p \in 1 .. Len(t) :
                 /\ Lists(t, {p}, <<t[p].id>>)
                 /\ \A q : Lists(t, {p}, q) => q = <<t[p].id>>
  <1>1. Lists(t, {}, <<>>)
    BY DEF Lists
  <1>2. ASSUME NEW p \in 1 .. Len(t)
        PROVE  Lists(t, {p}, <<t[p].id>>) /\ \A q : Lists(t, {p}, q) => q = <<t[p].id>>
    <2>1. t[p].id \in Gid /\ FindIdx(t, t[p].id) = p /\ p \in Nat
      BY Places
    <2> DEFINE s == <<t[p].id>>
    <2>2. s \in Seq(Gid) /\ Len(s) = 1 /\ s[1] = t[p].id
      BY <2>1
    <2> HIDE DEF s
    <2>3. \A k \in 1 .. Len(s) : k = 1
      BY <2>2
    <2>4. Lists(t, {p}, s)
      BY <2>1, <2>2, <2>3 DEF Lists
    <2>5. ASSUME NEW q, Lists(t, {p}, q) PROVE q = s
      <3>1. {p} \in SUBSET (1 .. Len(t))
        OBVIOUS
      <3>2. /\ Len(q) \in Nat
            /\ \A k \in 1 .. Len(q) : FindIdx(t, q[k]) = p /\ q[k] = t[p].id
            /\ \E k \in 1 .. Len(q) : FindIdx(t, q[k]) = p
            /\ \A k, l \in 1 .. Len(q) : k < l <=> FindIdx(t, q[k]) < FindIdx(t, q[l])
        <4>1. /\ Len(q) \in Nat
              /\ \A k \in 1 .. Len(q) : FindIdx(t, q[k]) \in {p}
              /\ \A x \in {p} : \E k \in 1 .. Len(q) : FindIdx(t, q[k]) = x
              /\ \A k, l \in 1 .. Len(q) : k < l <=> FindIdx(t, q[k]) < FindIdx(t, q[l])
          <5> DEFINE W == {p}
          <5>1. W \in SUBSET (1 .. Len(t)) /\ Lists(t, W, q)
            BY <2>5
          <5> HIDE DEF W
          <5>2. /\ Len(q) \in Nat /\ DOMAIN q = 1 .. Len(q)
                /\ \A k \in 1 .. Len(q) : q[k] \in Gid /\ FindIdx(t, q[k]) \in W
                /\ \A k \in 1 .. Len(q), x \in W : q[k] = t[x].id <=> FindIdx(t, q[k]) = x
                /\ \A x \in W : \E k \in 1 .. Len(q) : FindIdx(t, q[k]) = x
                /\ \A k, l \in 1 .. Len(q) : k < l <=> FindIdx(t, q[k]) < FindIdx(t, q[l])
            BY <5>1, Listed
          <5> QED
            BY <5>2 DEF W
        <4>2. \A k \in 1 .. Len(q) : q[k] = t[FindIdx(t, q[k])].id
          BY <2>5 DEF Lists
        <4> QED
          BY <4>1, <4>2
      <3>3. Len(q) = 1
        <4>1. ASSUME Len(q) > 1 PROVE FALSE
          <5>1. 1 \in 1 .. Len(q) /\ 2 \in 1 .. Len(q) /\ 1 < 2
            BY <3>2, <4>1
          <5>2. FindIdx(t, q[1]) = p /\ FindIdx(t, q[2]) = p
            BY <3>2, <5>1
          <5>3. FindIdx(t, q[1]) < FindIdx(t, q[2])
            BY <3>2, <5>1
          <5> QED
            BY <2>1, <5>2, <5>3
        <4>2. Len(q) \in Nat /\ ~(Len(q) > 1)
          BY <3>2, <4>1
        <4>3. Len(q) # 0
          BY <3>2
        <4>4. \A c \in Nat : ~(c > 1) /\ c # 0 => c = 1
          OBVIOUS
        <4> QED
          BY <4>2, <4>3, <4>4
      <3> QED
        <4>1. q \in Seq(Gid) /\ q[1] = t[p].id
          BY <2>5, <3>2, <3>3 DEF Lists
        <4>2. q \in [1 .. 1 -> Gid] /\ s \in [1 .. 1 -> Gid]
          <5>1. DOMAIN q = 1 .. 1 /\ DOMAIN s = 1 .. 1
            BY <2>2, <3>3, <4>1
          <5>2. q = [k \in 1 .. 1 |-> q[k]] /\ s = [k \in 1 .. 1 |-> s[k]]
            BY <2>2, <4>1, <5>1
          <5>3. q[1] \in Gid /\ s[1] \in Gid
            BY <2>1, <2>2, <4>1
          <5> QED
            BY <5>2, <5>3
        <4>3. \A k \in 1 .. 1 : q[k] = s[k]
          BY <2>2, <4>1
        <4>4. \A c \in Nat : ~(c > 1) /\ c # 0 => c = 1
          OBVIOUS
        <4> QED
          BY <4>2, <4>3, <4>4
    <2> QED
      BY <2>4, <2>5 DEF s
  <1> QED
    BY <1>1, <1>2

(* Pushing a branch point behind all of the stack.                           *)
LEMMA ListsPush ==
    ASSUME NEW t \in Seq(Node), Shaped(t), NEW W \in SUBSET (1 .. Len(t)), NEW q, Lists(t, W, q),
           NEW i \in 1 .. Len(t), \A x \in W : x < i
    PROVE  Lists(t, W \cup {i}, Append(q, t[i].id))
  <1> DEFINE c == Len(q)
             s == Append(q, t[i].id)
             F(k) == FindIdx(t, s[k])
  <1>1. t[i].id \in Gid /\ FindIdx(t, t[i].id) = i
    BY Places
  <1>2. q \in Seq(Gid) /\ c \in Nat
    BY DEF Lists
  <1>3. /\ s \in Seq(Gid) /\ Len(s) = c + 1 /\ s[c + 1] = t[i].id
        /\ \A k \in 1 .. c : s[k] = q[k]
    BY <1>1, <1>2
  <1>4. /\ \A k \in 1 .. c : F(k) \in W /\ s[k] = t[F(k)].id
        /\ \A x \in W : \E k \in 1 .. c : s[k] = t[x].id
        /\ \A k, l \in 1 .. c : k < l <=> F(k) < F(l)
    BY <1>3 DEF Lists
  <1>5. F(c + 1) = i /\ s[c + 1] = t[F(c + 1)].id
    BY <1>1, <1>3
  <1> HIDE DEF F, s, c
  <1>6. \A k \in 1 .. c + 1 : k \in 1 .. c \/ k = c + 1
    BY <1>2
  <1>7. \A k \in 1 .. c : k \in 1 .. c + 1 /\ F(k) < i /\ F(k) \in Nat /\ k \in Nat
    <2>1. \A x \in W : x \in Nat /\ x < i
      BY Places
    <2>2. \A k \in 1 .. c : F(k) \in Nat /\ F(k) < i
      BY <1>4, <2>1
    <2> QED
      BY <1>2, <2>2
  <1>8. \A k \in 1 .. c + 1 : F(k) \in W \cup {i} /\ s[k] = t[F(k)].id
    BY <1>4, <1>5, <1>6
  <1>9. \A x \in W \cup {i} : \E k \in 1 .. c + 1 : s[k] = t[x].id
    <2>1. c + 1 \in 1 .. c + 1
      BY <1>2
    <2> QED
      BY <1>4, <1>5, <1>7, <2>1
  <1>10. \A k, l \in 1 .. c + 1 : k < l <=> F(k) < F(l)
    <2> SUFFICES ASSUME NEW k \in 1 .. c + 1, NEW l \in 1 .. c + 1 PROVE k < l <=> F(k) < F(l)
      OBVIOUS
    <2>1. CASE k \in 1 .. c /\ l \in 1 .. c
      BY <1>4, <2>1
    <2>2. CASE k \in 1 .. c /\ l = c + 1
      BY <1>2, <1>5, <1>7, <2>2
    <2>3. CASE k = c + 1 /\ l \in 1 .. c
      BY <1>2, <1>5, <1>7, <2>3
    <2>4. CASE k = c + 1 /\ l = c + 1
      BY <1>2, <1>5, <2>4
    <2> QED
      BY <1>6, <2>1, <2>2, <2>3, <2>4
  <1> QED
    BY <1>3, <1>8, <1>9, <1>10 DEF Lists, F, s

(* Nothing of the stack is kept when it does not hold the id.                *)
LEMMA ListsMiss ==
    ASSUME NEW t \in Seq(Node), Shaped(t), NEW W \in SUBSET (1 .. Len(t)),
           NEW g, Lists(t, W, g.stack), NEW id, \A x \in W : t[x].id # id
    PROVE  DepthOf(g, id) = 0
  <1>1. \A k \in DOMAIN g.stack : g.stack[k] # id
    <2>1. DOMAIN g.stack = 1 .. Len(g.stack)
      BY Listed
    <2> QED
      BY <2>1 DEF Lists
  <1>2. {k \in DOMAIN g.stack : g.stack[k] = id} = {}
    BY <1>1
  <1> QED
    BY <1>2 DEF DepthOf, Greatest

(* Popping to a branch point that is there.                                  *)
LEMMA ListsBack ==
    ASSUME NEW t \in Seq(Node), Shaped(t), NEW W \in SUBSET (1 .. Len(t)),
           NEW g, Lists(t, W, g.stack), NEW y \in W
    PROVE  LET d == DepthOf(g, t[y].id)
           IN  /\ d \in 1 .. Len(g.stack)
               /\ d = 1 <=> \A x \in W : y <= x
               /\ Lists(t, {x \in W : x <= y}, SubSeq(g.stack, 1, d))
  <1> DEFINE q == g.stack
             c == Len(q)
             d == DepthOf(g, t[y].id)
             S == {k \in DOMAIN q : q[k] = t[y].id}
             F(k) == FindIdx(t, q[k])
             s == SubSeq(q, 1, d)
  <1>1. /\ c \in Nat /\ DOMAIN q = 1 .. c
        /\ \A k \in 1 .. c : q[k] \in Gid /\ F(k) \in W
        /\ \A k \in 1 .. c, x \in W : q[k] = t[x].id <=> F(k) = x
        /\ \A x \in W : \E k \in 1 .. c : F(k) = x
        /\ \A k, l \in 1 .. c : k < l <=> F(k) < F(l)
    BY Listed
  <1>2. PICK e \in 1 .. c : F(e) = y
    BY <1>1
  <1>3. \A k \in 1 .. c : F(k) = y => k = e
    <2> SUFFICES ASSUME NEW k \in 1 .. c, F(k) = y PROVE k = e
      OBVIOUS
    <2>1. ~(k < e) /\ ~(e < k)
      BY <1>1, <1>2
    <2> QED
      BY <1>1, <2>1
  <1>4. S = {e}
    BY <1>1, <1>2, <1>3
  <1>5. d = e
    <2>1. d = Greatest({e}, 0)
      BY <1>4 DEF DepthOf
    <2> QED
      BY <2>1 DEF Greatest
  <1>6. q \in Seq(Gid)
    BY DEF Lists
  <1>7. /\ s \in Seq(Gid) /\ Len(s) = d
        /\ \A k \in 1 .. d : k \in 1 .. c /\ s[k] = q[k]
    BY <1>1, <1>5, <1>6
  <1> HIDE DEF F, s, d, S, c, q
  <1>8. d = 1 <=> \A x \in W : y <= x
    <2>1. \A x \in W : x \in Nat
      BY Places
    <2>2. CASE d = 1
      <3>1. ASSUME NEW x \in W PROVE y <= x
        <4>1. PICK k \in 1 .. c : F(k) = x
          BY <1>1
        <4>2. ~(k < e)
          BY <1>1, <1>5, <2>2
        <4> QED
          BY <1>1, <1>2, <2>1, <4>1, <4>2
      <3> QED
        BY <2>2, <3>1
    <2>3. CASE d # 1
      <3>1. 1 \in 1 .. c /\ 1 < e
        BY <1>1, <1>5, <2>3
      <3>2. F(1) < F(e) /\ F(1) \in W
        BY <1>1, <3>1
      <3>3. F(1) \in Nat /\ F(e) = y /\ y \in Nat
        BY <1>2, <2>1, <3>2
      <3>4. ~(y <= F(1))
        BY <3>2, <3>3
      <3> QED
        BY <2>3, <3>2, <3>4
    <2> QED
      BY <2>2, <2>3
  <1>9. Lists(t, {x \in W : x <= y}, s)
    <2> DEFINE V == {x \in W : x <= y}
               G(k) == FindIdx(t, s[k])
    <2>1. \A k \in 1 .. d : k \in 1 .. c /\ G(k) = F(k) /\ k <= e /\ k \in Nat
      BY <1>1, <1>5, <1>7 DEF F
    <2>2. \A k \in 1 .. c : k <= e <=> F(k) <= y
      <3> SUFFICES ASSUME NEW k \in 1 .. c PROVE k <= e <=> F(k) <= y
        OBVIOUS
      <3>1. (e < k <=> y < F(k)) /\ F(k) \in Nat /\ y \in Nat /\ e \in Nat /\ k \in Nat
        <4>1. (e < k <=> F(e) < F(k)) /\ F(k) \in W
          BY <1>1
        <4>2. \A x \in W : x \in Nat
          BY Places
        <4>3. F(k) \in Nat /\ F(e) = y /\ y \in Nat
          BY <1>2, <4>1, <4>2
        <4>4. e \in Nat /\ k \in Nat
          BY <1>1
        <4> QED
          BY <4>1, <4>3, <4>4
      <3> QED
        BY <3>1
    <2>3. \A k \in 1 .. d : G(k) \in V
      BY <1>1, <2>1, <2>2
    <2>4. \A k \in 1 .. d : s[k] = t[G(k)].id
      BY <1>1, <1>7, <2>1 DEF F
    <2>5. \A x \in V : \E k \in 1 .. d : s[k] = t[x].id
      <3> SUFFICES ASSUME NEW x \in W, x <= y PROVE \E k \in 1 .. d : s[k] = t[x].id
        OBVIOUS
      <3>1. PICK k \in 1 .. c : F(k) = x
        BY <1>1
      <3>2. k \in 1 .. d
        BY <1>1, <1>5, <2>2, <3>1
      <3> QED
        BY <1>1, <1>7, <3>1, <3>2
    <2>6. \A k, l \in 1 .. d : k < l <=> G(k) < G(l)
      BY <1>1, <2>1
    <2> QED
      BY <1>7, <2>3, <2>4, <2>5, <2>6 DEF Lists
  <1> QED
    BY <1>5, <1>8, <1>9 DEF s, d, q, c

(* Where the array goes on behind position x in the subtree of p.            *)
LEMMA Onward ==
    ASSUME NEW t, Tree(t), NEW p \in 1 .. Len(t), NEW x \in p .. Len(t), Under(Parents(t), p, x)
    PROVE  LET a == Parents(t)
               n == Len(t)
           IN  /\ n \in Nat /\ p \in Nat /\ x \in Nat /\ x \in 1 .. n
               /\ x < n => a[x + 1] \in 1 .. x /\ (Under(a, p, x + 1) <=> p <= a[x + 1])
               /\ x = n \/ a[x + 1] < p => SubtreeEnd(t, p) = x + 1
  <1> DEFINE a == Parents(t)
             n == Len(t)
             e == SubtreeEnd(t, p)
  <1>1. t \in Seq(Node) /\ Shaped(t)
    BY DEF Tree
  <1>2. n \in Nat /\ \A i \in 2 .. n : a[i] \in 1 .. n /\ a[i] < i
    BY <1>1, Places
  <1>3. e \in p + 1 .. n + 1 /\ Under(a, p, e - 1) /\ (e <= n => a[e] < p)
    BY <1>1, SubtreeOf
  <1>4. p \in Nat /\ x \in Nat /\ x \in 1 .. n
    BY <1>2
  <1>5. Under(a, p, x)
    OBVIOUS
  <1> HIDE DEF a, n, e
  <1>6. ASSUME x < n
        PROVE  a[x + 1] \in 1 .. x /\ (Under(a, p, x + 1) <=> p <= a[x + 1])
    <2>1. x + 1 \in 2 .. n
      BY <1>2, <1>4, <1>6
    <2>2. a[x + 1] \in 1 .. n /\ a[x + 1] < x + 1
      BY <1>2, <2>1
    <2>3. a[x + 1] \in 1 .. x
      BY <1>2, <1>4, <2>2
    <2>4. \A k \in p + 1 .. x + 1 : k \in p + 1 .. x \/ k = x + 1
      BY <1>4
    <2>5. p <= x /\ x + 1 \in p + 1 .. x + 1
      BY <1>2, <1>4 DEF n
    <2> QED
      BY <1>4, <1>5, <2>3, <2>4, <2>5 DEF Under
  <1>7. ASSUME x = n \/ a[x + 1] < p PROVE e = x + 1
    <2>1. p <= x
      BY <1>4
    <2>2. ~(e <= x)
      <3>1. ASSUME e <= x PROVE FALSE
        <4>1. e \in p + 1 .. x /\ e <= n
          BY <1>2, <1>3, <1>4, <3>1
        <4>2. p <= a[e]
          BY <1>5, <4>1 DEF Under
        <4>3. e \in 2 .. n
          BY <1>2, <1>4, <4>1
        <4> QED
          BY <1>2, <1>3, <1>4, <4>1, <4>2, <4>3
      <3> QED
        BY <3>1
    <2>3. ~(e > x + 1)
      <3>1. ASSUME e > x + 1 PROVE FALSE
        <4>1. x + 1 \in p + 1 .. e - 1 /\ x + 1 \in 2 .. n
          BY <1>2, <1>3, <1>4, <2>1, <3>1
        <4>2. p <= a[x + 1] /\ x # n
          BY <1>2, <1>3, <1>4, <4>1 DEF Under
        <4> QED
          BY <1>2, <1>4, <1>7, <4>1, <4>2
      <3> QED
        BY <3>1
    <2> QED
      BY <1>2, <1>3, <1>4, <2>2, <2>3
  <1> QED
    BY <1>2, <1>4, <1>6, <1>7 DEF a, n, e

(* The branch points passed once the walk leaves t[x].                       *)
Passed(t, p, x) == OnWay(t, p, x) \cup (IF t[x].bp THEN {x} ELSE {})

(* The branch points on the way to the next position.                        *)
LEMMA WayOn ==
    ASSUME NEW t, Tree(t), NEW p \in 1 .. Len(t), NEW x \in p + 1 .. Len(t),
           Under(Parents(t), p, x)
    PROVE  LET a == Parents(t)
               n == Len(t)
               y == a[x + 1]
               W == Passed(t, p, x)
           IN  /\ W \in SUBSET (1 .. n) /\ OnWay(t, p, x) \in SUBSET (1 .. n)
               /\ \A z \in OnWay(t, p, x) : z < x
               /\ \A z \in W : p <= z
               /\ x < n /\ y = x => OnWay(t, p, x + 1) = W
               /\ x < n /\ p <= y /\ y < x => /\ y \in W
                                              /\ OnWay(t, p, x + 1) = {z \in W : z <= y}
                                              /\ (\A z \in W : y <= z) <=> y = p
  <1> DEFINE a == Parents(t)
             n == Len(t)
             y == a[x + 1]
             W == Passed(t, p, x)
             V == OnWay(t, p, x)
  <1>1. t \in Seq(Node) /\ Shaped(t) /\ Marked(t)
    BY DEF Tree
  <1>2. n \in Nat /\ p \in Nat /\ p > 0
    BY <1>1, Places
  <1>3. x \in Nat /\ x \in 1 .. n /\ x \in p .. n /\ p < x
    BY <1>2
  <1>4. /\ x < n => y \in 1 .. x /\ (Under(a, p, x + 1) <=> p <= y)
        /\ x = n \/ y < p => SubtreeEnd(t, p) = x + 1
    BY <1>3, Onward
  <1>5. Preorder(a, n)
    BY <1>1 DEF Shaped
  <1>6. V = {z \in p .. x - 1 : (z = p \/ t[z].bp) /\ Under(a, z, x)}
    BY DEF OnWay
  <1>7. W = V \cup (IF t[x].bp THEN {x} ELSE {})
    BY DEF Passed
  <1>8. OnWay(t, p, x + 1) = {z \in p .. x : (z = p \/ t[z].bp) /\ Under(a, z, x + 1)}
    <2>1. x + 1 - 1 = x
      BY <1>3
    <2> QED
      BY <2>1 DEF OnWay
  <1>9. Under(a, p, x)
    OBVIOUS
  <1>10. p \in V
    <2>1. p \in p .. x - 1
      BY <1>2, <1>3
    <2> QED
      BY <1>6, <1>9, <2>1
  <1>11. ASSUME x < n, y < x, p <= y PROVE y \in V
    <2>1. x + 1 \in 2 .. n /\ y \in 1 .. n /\ y \in p .. x - 1 /\ y \in Nat
      BY <1>2, <1>3, <1>4, <1>11
    <2>2. Under(a, y, x + 1)
      BY <1>5, <2>1, UnderFacts
    <2>3. Under(a, y, x)
      BY <1>3, <1>11, <2>1, <2>2 DEF Under
    <2>4. CASE y = p
      BY <1>10, <2>4
    <2>5. CASE y # p
      <3>1. y # x
        BY <1>3, <1>11, <2>1
      <3>2. PICK j \in 2 .. n : a[j] = y /\ Under(a, j, x)
        BY <1>1, <1>3, <2>1, <2>3, <3>1, NextOnPath
      <3>3. j # x + 1
        BY <1>3, <3>2 DEF Under
      <3>4. Branching(t, y)
        BY <2>1, <3>2, <3>3 DEF Branching
      <3>5. t[y].bp
        BY <1>1, <2>1, <3>4 DEF Marked
      <3> QED
        BY <1>6, <2>1, <2>3, <3>5
    <2> QED
      BY <2>4, <2>5
  <1> HIDE DEF y, W, V, a, n
  <1>12. ASSUME NEW z \in 1 .. x, x < n
         PROVE  Under(a, z, x + 1) <=> Under(a, z, x) /\ z <= y
    <2>1. \A k \in z + 1 .. x + 1 : k \in z + 1 .. x \/ k = x + 1
      BY <1>3
    <2>2. z <= x /\ x + 1 \in z + 1 .. x + 1 /\ \A k \in z + 1 .. x : k \in z + 1 .. x + 1
      BY <1>3
    <2> QED
      BY <1>3, <2>1, <2>2 DEF Under, y
  <1>13. W \in SUBSET (1 .. n) /\ V \in SUBSET (1 .. n)
    BY <1>2, <1>3, <1>6, <1>7
  <1>14. /\ \A z \in V : z < x /\ p <= z
         /\ \A z \in W : p <= z /\ z <= x
    BY <1>2, <1>3, <1>6, <1>7
  <1>15. Under(a, x, x)
    BY <1>3, <1>5, UnderFacts
  <1>16. \A z \in 1 .. x : z \in W <=> z \in p .. x /\ (z = p \/ t[z].bp) /\ Under(a, z, x)
    <2> SUFFICES ASSUME NEW z \in 1 .. x
                 PROVE  z \in W <=> z \in p .. x /\ (z = p \/ t[z].bp) /\ Under(a, z, x)
      OBVIOUS
    <2>1. CASE z = x
      BY <1>2, <1>3, <1>6, <1>7, <1>15, <2>1
    <2>2. CASE z # x
      BY <1>2, <1>3, <1>6, <1>7, <2>2
    <2> QED
      BY <2>1, <2>2
  <1>17. ASSUME x < n, y = x PROVE OnWay(t, p, x + 1) = W
    <2>1. \A z \in 1 .. x : z <= y
      BY <1>3, <1>17
    <2>2. ASSUME NEW z PROVE z \in OnWay(t, p, x + 1) <=> z \in W
      <3>1. z \in p .. x => z \in 1 .. x
        BY <1>2, <1>3
      <3>2. z \in W => z \in 1 .. x
        BY <1>2, <1>3, <1>13, <1>14
      <3> QED
        BY <1>8, <1>12, <1>16, <1>17, <2>1, <3>1, <3>2
    <2> QED
      BY <2>2
  <1>18. ASSUME x < n, p <= y, y < x
         PROVE  /\ y \in W
                /\ OnWay(t, p, x + 1) = {z \in W : z <= y}
                /\ (\A z \in W : y <= z) <=> y = p
    <2>1. y \in W /\ y \in Nat /\ p \in W
      BY <1>4, <1>7, <1>10, <1>11, <1>18
    <2>2. ASSUME NEW z PROVE z \in OnWay(t, p, x + 1) <=> z \in W /\ z <= y
      <3>1. z \in p .. x => z \in 1 .. x
        BY <1>2, <1>3
      <3>2. z \in W => z \in 1 .. x
        BY <1>2, <1>3, <1>13, <1>14
      <3> QED
        BY <1>8, <1>12, <1>16, <1>18, <3>1, <3>2
    <2>3. (\A z \in W : y <= z) <=> y = p
      BY <1>2, <1>14, <1>18, <2>1
    <2> QED
      BY <2>1, <2>2, <2>3
  <1> QED
    BY <1>13, <1>14, <1>17, <1>18 DEF y, W, V, a, n

----------------------------------------------------------------------------
(* One iteration of the traversal *)

(* What Push and BackTo do to the fields of the gatherer.                    *)
LEMMA PushFields ==
    ASSUME NEW g \in Gatherer, NEW id \in Gid
    PROVE  LET g1 == Push(g, id)
           IN  /\ g1 \in Gatherer /\ g1.parent = g.parent
               /\ g1.makeBranchingPoint = g.makeBranchingPoint
               /\ g1.keepRejecting = g.keepRejecting /\ g1.keepSkipping = g.keepSkipping
               /\ g1.stack = Append(g.stack, id)
  BY DEF Push, Gatherer

LEMMA BackFields ==
    ASSUME NEW g \in Gatherer, NEW id, SubSeq(g.stack, 1, DepthOf(g, id)) \in Seq(Gid)
    PROVE  LET g1 == BackTo(g, id)
               d == DepthOf(g, id)
           IN  /\ g1 \in Gatherer /\ g1.parent = g.parent
               /\ g1.makeBranchingPoint = g.makeBranchingPoint
               /\ g1.keepRejecting = g.keepRejecting
               /\ g1.keepSkipping <=> g.keepSkipping /\ d # 1
               /\ g1.stack = SubSeq(g.stack, 1, d)
  <1> DEFINE d == DepthOf(g, id)
             st == SubSeq(g.stack, 1, d)
             g1 == BackTo(g, id)
  <1>1. g1 = [g EXCEPT !.stack = st, !.keepSkipping = g.keepSkipping /\ d # 1]
    BY DEF BackTo
  <1>2. st \in Seq(Gid)
    OBVIOUS
  <1> HIDE DEF st, d, g1
  <1>3. PICK sk \in BOOLEAN : sk <=> g.keepSkipping /\ d # 1
    BY Zenon
  <1>4. g1 = [g EXCEPT !.stack = st, !.keepSkipping = sk]
    <2>1. (g.keepSkipping /\ d # 1) = sk
      BY <1>3 DEF Gatherer
    <2> QED
      BY <1>1, <2>1
  <1>5. /\ g1 \in Gatherer /\ g1.parent = g.parent
               /\ g1.makeBranchingPoint = g.makeBranchingPoint
               /\ g1.keepRejecting = g.keepRejecting
               /\ g1.stack = st
               /\ g1.keepSkipping = sk
    BY <1>2, <1>4 DEF Gatherer
  <1> QED BY <1>3, <1>5 DEF g1, d, st

(* w is t but for its bits.                                                  *)
SameLinks(t, w) ==
    /\ w \in Seq(Node) /\ Len(w) = Len(t)
    /\ \A i \in 1 .. Len(t) : w[i].id = t[i].id /\ w[i].pred = t[i].pred

(* The step leaves the subtree of t[p], and the walk ends; or it stays inside.*)
Leaves(t, p, rejecting) ==
    /\ pos + 1 = SubtreeEnd(t, p) /\ ~walking'
    /\ gatherer' \in Gatherer /\ (gatherer'.keepRejecting <=> rejecting)

Stays(t, p, rejecting, skipping) ==
    /\ walking' /\ Inside(t, p)'
    /\ Going(gatherer', p, FALSE, rejecting, skipping /\ Parents(t)[pos + 1] # p)
    /\ Lists(t, OnWay(t, p, pos + 1), gatherer'.stack)

(* One step of the walk inside the subtree of the parent.                    *)
LEMMA StepOn ==
    ASSUME NEW t, Tree(t), NEW p \in 1 .. Len(t), Inside(t, p),
           NEW w, SameLinks(t, w), w[pos].bp = t[pos].bp,
           NEW rejecting \in BOOLEAN, NEW skipping \in BOOLEAN,
           NEW g, Going(g, p, FALSE, rejecting, skipping), Lists(t, OnWay(t, p, pos), g.stack),
           GoOn(g, w)
    PROVE  /\ nodes' = w /\ pos' = pos + 1 /\ UNCHANGED <<fis, todo, before>>
           /\ Leaves(t, p, rejecting) \/ Stays(t, p, rejecting, skipping)
  <1> DEFINE a == Parents(t)
             n == Len(t)
             x == pos
             y == a[x + 1]
             g1 == PassBranchPoint(g, w[x])
             W == Passed(t, p, x)
  <1>1. t \in Seq(Node) /\ Shaped(t)
    BY DEF Tree
  <1>2. x \in p + 1 .. n /\ Under(a, p, x)
    BY DEF Inside
  <1>3. /\ n \in Nat /\ p \in Nat /\ x \in Nat /\ x \in 1 .. n /\ x \in p .. n /\ p < x
    BY <1>1, <1>2, Places
  <1>4. /\ x < n => y \in 1 .. x /\ (Under(a, p, x + 1) <=> p <= y)
        /\ x = n \/ y < p => SubtreeEnd(t, p) = x + 1
    BY <1>2, <1>3, Onward
  <1>5. /\ W \in SUBSET (1 .. n) /\ OnWay(t, p, x) \in SUBSET (1 .. n)
        /\ \A z \in OnWay(t, p, x) : z < x
        /\ \A z \in W : p <= z
        /\ x < n /\ y = x => OnWay(t, p, x + 1) = W
        /\ x < n /\ p <= y /\ y < x => /\ y \in W
                                       /\ OnWay(t, p, x + 1) = {z \in W : z <= y}
                                       /\ (\A z \in W : y <= z) <=> y = p
    BY <1>2, WayOn
  <1>6. /\ gatherer' = IF x = Len(w) THEN BackTo(g1, NoId)
                       ELSE IF w[x + 1].pred # w[x].id THEN BackTo(g1, w[x + 1].pred)
                       ELSE g1
        /\ walking' = (~(x = Len(w)) /\ (w[x + 1].pred # w[x].id => DepthOf(g1, w[x + 1].pred) # 0))
        /\ nodes' = w /\ pos' = x + 1 /\ UNCHANGED <<fis, todo, before>>
    BY DEF GoOn
  <1>7. Going(g1, p, FALSE, rejecting, skipping) /\ Lists(t, W, g1.stack)
    <2>1. w[x].id = t[x].id /\ w[x].bp = t[x].bp /\ t[x].id \in Gid
      BY <1>1, <1>3, Places DEF SameLinks
    <2>2. CASE t[x].bp
      <3>1. g1 = Push(g, t[x].id)
        BY <2>1, <2>2 DEF PassBranchPoint
      <3>2. g \in Gatherer
        BY DEF Going
      <3>3. Going(g1, p, FALSE, rejecting, skipping) /\ g1.stack = Append(g.stack, t[x].id)
        BY <2>1, <3>1, <3>2, PushFields DEF Going
      <3>4. W = OnWay(t, p, x) \cup {x}
        BY <2>2 DEF Passed
      <3>5. Lists(t, OnWay(t, p, x) \cup {x}, Append(g.stack, t[x].id))
        BY <1>1, <1>3, <1>5, ListsPush
      <3> QED
        BY <3>3, <3>4, <3>5
    <2>3. CASE ~t[x].bp
      <3>1. g1 = g
        BY <2>1, <2>3 DEF PassBranchPoint
      <3>2. W = OnWay(t, p, x)
        BY <2>3 DEF Passed
      <3> QED
        BY <3>1, <3>2
    <2> QED
      BY <2>2, <2>3
  <1>8. DEFINE atEnd == x = Len(w)
               leaves == ~atEnd /\ w[x + 1].pred # w[x].id
  <1>9. /\ nodes' = w /\ pos' = x + 1 /\ UNCHANGED <<fis, todo, before>>
        /\ gatherer' = IF atEnd THEN BackTo(g1, NoId)
                       ELSE IF leaves THEN BackTo(g1, w[x + 1].pred)
                       ELSE g1
        /\ walking' = (~atEnd /\ (leaves => DepthOf(g1, w[x + 1].pred) # 0))
    <2>1. leaves <=> ~(x = Len(w)) /\ w[x + 1].pred # w[x].id
      OBVIOUS
    <2> QED
      BY <1>6, <2>1
  <1>10. atEnd <=> x = n
    BY DEF SameLinks
  <1>11. x < n => /\ x + 1 \in 2 .. n /\ w[x + 1].pred = t[x + 1].pred /\ w[x].id = t[x].id
                  /\ t[y].id = t[x + 1].pred
                  /\ leaves <=> y # x
    <2> SUFFICES ASSUME x < n
                 PROVE  /\ x + 1 \in 2 .. n /\ w[x + 1].pred = t[x + 1].pred /\ w[x].id = t[x].id
                        /\ t[y].id = t[x + 1].pred
                        /\ leaves <=> y # x
      OBVIOUS
    <2>1. x + 1 \in 2 .. n /\ x + 1 \in 1 .. n
      BY <1>3
    <2>2. w[x + 1].pred = t[x + 1].pred /\ w[x].id = t[x].id
      BY <1>3, <2>1 DEF SameLinks
    <2>3. t[y].id = t[x + 1].pred /\ (t[x].id = t[x + 1].pred <=> x = y)
      BY <1>1, <1>3, <2>1, Places
    <2> QED
      BY <1>3, <1>10, <2>1, <2>2, <2>3
  <1>12. g1 \in Gatherer /\ g1.stack \in Seq(Gid)
    BY <1>7 DEF Going, Gatherer
  <1>13. ASSUME NEW id, DepthOf(g1, id) = 0
         PROVE  BackTo(g1, id) \in Gatherer /\ (BackTo(g1, id).keepRejecting <=> rejecting)
    <2>1. SubSeq(g1.stack, 1, DepthOf(g1, id)) \in Seq(Gid)
      BY <1>12, <1>13, PartsType
    <2> QED
      BY <1>7, <1>12, <2>1, BackFields DEF Going
  <1>14. Inside(t, p)' <=> x + 1 \in p + 1 .. n /\ Under(a, p, x + 1)
    BY <1>9 DEF Inside
  <1>15. x + 1 <= n => x + 1 \in p + 1 .. n /\ x < n
    BY <1>3
  <1> HIDE DEF atEnd, leaves, g1, W, y
  <1>16. CASE x = n
    <2>1. \A z \in W : t[z].id # NoId
      BY <1>1, <1>5, Places
    <2>2. DepthOf(g1, NoId) = 0
      BY <1>1, <1>5, <1>7, <2>1, ListsMiss
    <2>3. gatherer' = BackTo(g1, NoId) /\ ~walking'
      BY <1>9, <1>10, <1>16
    <2>4. gatherer' \in Gatherer /\ (gatherer'.keepRejecting <=> rejecting)
      BY <1>13, <2>2, <2>3
    <2> QED
      BY <1>4, <1>9, <1>16, <2>3, <2>4 DEF Leaves
  <1>17. CASE x < n /\ y = x
    <2>1. ~atEnd /\ ~leaves
      BY <1>3, <1>10, <1>11, <1>17
    <2>2. gatherer' = g1 /\ walking'
      BY <1>9, <2>1
    <2>3. Inside(t, p)'
      BY <1>3, <1>4, <1>14, <1>15, <1>17
    <2>4. y # p /\ OnWay(t, p, x + 1) = W
      BY <1>3, <1>5, <1>17
    <2>5. Going(gatherer', p, FALSE, rejecting, skipping /\ y # p)
      BY <1>7, <2>2, <2>4 DEF Going
    <2> QED
      BY <1>7, <1>9, <2>2, <2>3, <2>4, <2>5 DEF Stays, y
  <1>18. CASE x < n /\ y < x /\ p <= y
    <2>1. y \in W /\ OnWay(t, p, x + 1) = {z \in W : z <= y} /\ ((\A z \in W : y <= z) <=> y = p)
      BY <1>5, <1>18
    <2> DEFINE d == DepthOf(g1, t[y].id)
    <2>2. /\ d \in 1 .. Len(g1.stack) /\ (d = 1 <=> \A z \in W : y <= z)
          /\ Lists(t, {z \in W : z <= y}, SubSeq(g1.stack, 1, d))
      BY <1>1, <1>5, <1>7, <2>1, ListsBack
    <2>3. leaves /\ ~atEnd /\ w[x + 1].pred = t[y].id
      BY <1>3, <1>4, <1>10, <1>11, <1>18
    <2>4. d # 0
      <3>1. Len(g1.stack) \in Nat
        BY <1>1, <1>5, <1>7, Listed
      <3> QED
        BY <2>2, <3>1
    <2>5. gatherer' = BackTo(g1, t[y].id) /\ walking'
      BY <1>9, <2>3, <2>4
    <2>6. SubSeq(g1.stack, 1, d) \in Seq(Gid)
      BY <2>2 DEF Lists
    <2>7. /\ Going(gatherer', p, FALSE, rejecting, skipping /\ y # p)
          /\ gatherer'.stack = SubSeq(g1.stack, 1, d)
      BY <1>7, <1>12, <2>1, <2>2, <2>5, <2>6, BackFields DEF Going
    <2>8. Inside(t, p)'
      BY <1>3, <1>4, <1>14, <1>15, <1>18
    <2> QED
      BY <1>9, <2>1, <2>2, <2>5, <2>7, <2>8 DEF Stays, y
  <1>19. CASE x < n /\ y < p
    <2>1. leaves /\ ~atEnd /\ w[x + 1].pred = t[y].id /\ y \in 1 .. n
      BY <1>3, <1>4, <1>10, <1>11, <1>19
    <2>2. \A z \in W : t[z].id # t[y].id
      <3> SUFFICES ASSUME NEW z \in W, t[z].id = t[y].id PROVE FALSE
        OBVIOUS
      <3>1. z \in 1 .. n /\ p <= z
        BY <1>5
      <3>2. z = y
        BY <1>1, <2>1, <3>1, Places
      <3> QED
        BY <1>3, <1>19, <2>1, <3>1, <3>2
    <2>3. DepthOf(g1, t[y].id) = 0
      BY <1>1, <1>5, <1>7, <2>2, ListsMiss
    <2>4. gatherer' = BackTo(g1, t[y].id) /\ ~walking'
      BY <1>9, <2>1, <2>3
    <2>5. gatherer' \in Gatherer /\ (gatherer'.keepRejecting <=> rejecting)
      BY <1>13, <2>3, <2>4
    <2> QED
      BY <1>4, <1>9, <1>19, <2>4, <2>5 DEF Leaves
  <1>20. x = n \/ (x < n /\ y \in 1 .. x)
    BY <1>3, <1>4
  <1>21. y \in 1 .. x => y = x \/ (y < x /\ p <= y) \/ y < p
    BY <1>3
  <1>22. nodes' = w /\ pos' = x + 1 /\ UNCHANGED <<fis, todo, before>>
    BY <1>9
  <1>23. Leaves(t, p, rejecting) \/ Stays(t, p, rejecting, skipping)
    BY <1>16, <1>17, <1>18, <1>19, <1>20, <1>21
  <1> QED
    BY <1>22, <1>23

----------------------------------------------------------------------------
(* What the walk leaves behind *)

(* Arrays are equal when their nodes agree field by field.                   *)
LEMMA NodesEqual ==
    ASSUME NEW t \in Seq(Node), NEW w \in Seq(Node), Len(w) = Len(t),
           \A i \in 1 .. Len(t) :
              /\ w[i].id = t[i].id /\ w[i].pred = t[i].pred /\ w[i].acks = t[i].acks
              /\ w[i].mis = t[i].mis /\ w[i].exe = t[i].exe
              /\ w[i].bp <=> t[i].bp
              /\ w[i].rej <=> t[i].rej
    PROVE  w = t
  <1>1. /\ Len(t) \in Nat /\ DOMAIN t = 1 .. Len(t) /\ DOMAIN w = 1 .. Len(t)
        /\ \A i \in 1 .. Len(t) : t[i] \in Node /\ w[i] \in Node
    BY NodesType
  <1>2. ASSUME NEW m \in Node, NEW n \in Node,
               m.id = n.id, m.pred = n.pred, m.acks = n.acks, m.mis = n.mis, m.exe = n.exe,
               m.bp <=> n.bp, m.rej <=> n.rej
        PROVE  m = n
    <2>1. m.bp = n.bp /\ m.rej = n.rej
      BY <1>2 DEF Node
    <2> QED
      BY <1>2, <2>1 DEF Node
  <1>3. \A i \in 1 .. Len(t) : w[i] = t[i]
    BY <1>1, <1>2
  <1>4. t = [i \in 1 .. Len(t) |-> t[i]] /\ w = [i \in 1 .. Len(t) |-> w[i]]
    BY <1>1
  <1> QED
    BY <1>3, <1>4

(* A parent without branches is a leaf, and nothing is prepared there.       *)
LEMMA LeafParent ==
    ASSUME NEW t, Tree(t), NEW p \in 1 .. Len(t), SubtreeEnd(t, p) = p + 1, NEW u
    PROVE  /\ BranchHeads(t, p) = {} /\ ~Wins(t, p, u)
           /\ InsertionIdx(t, p, u) = p + 1
           /\ PrepareBranch(t, p, u) = t
  <1>1. t \in Seq(Node) /\ Shaped(t)
    BY DEF Tree
  <1>2. p \in Nat
    BY <1>1, Places
  <1>3. BranchHeads(t, p) = {}
    <2>1. Subtree(t, p) = {p}
      BY <1>2 DEF Subtree
    <2>2. t[p].pred # t[p].id
      <3>1. CASE p = 1
        BY <1>1, <3>1, Places DEF Shaped
      <3>2. CASE p # 1
        <4>1. p \in 2 .. Len(t)
          BY <1>1, <3>2, Places
        <4> QED
          BY <1>1, <4>1, Places
      <3> QED
        BY <3>1, <3>2
    <2> QED
      BY <2>1, <2>2 DEF BranchHeads
  <1>4. DecidingHead(t, p, u) = 0
    BY <1>3 DEF DecidingHead, Least
  <1>5. ~Wins(t, p, u) /\ InsertionIdx(t, p, u) = p + 1
    BY <1>4 DEF Wins, InsertionIdx
  <1>6. PrepareBranch(t, p, u) \in Seq(Node) /\ Len(PrepareBranch(t, p, u)) = Len(t)
    BY <1>1, PrepareBranchType DEF SameScripts
  <1>7. PrepareBranch(t, p, u) = t
    <2> DEFINE w == PrepareBranch(t, p, u)
    <2>1. \A i \in 1 .. Len(t) :
              /\ w[i].id = t[i].id /\ w[i].pred = t[i].pred /\ w[i].acks = t[i].acks
              /\ w[i].mis = t[i].mis /\ w[i].exe = t[i].exe
              /\ w[i].bp <=> t[i].bp
              /\ w[i].rej <=> t[i].rej
      BY <1>1, <1>3, <1>5, PreparedNodes
    <2> HIDE DEF w
    <2> QED
      BY <1>1, <1>6, <2>1, NodesEqual DEF w
  <1> QED
    BY <1>3, <1>5, <1>7

(* The array swept by a walk that has stopped is the prepared one.           *)
LEMMA SweptIsPrepared ==
    ASSUME NEW t, Tree(t), NEW p \in 1 .. Len(t), BranchHeads(t, p) # {}, NEW u,
           NEW lo \in Int, NEW hi \in Int, NEW w, Swept(t, p, lo, hi, w),
           IF Wins(t, p, u) THEN lo = DecidingHead(t, p, u) /\ hi = SubtreeEnd(t, p) - 1
                            ELSE hi < lo
    PROVE  w = PrepareBranch(t, p, u)
  <1> DEFINE v == PrepareBranch(t, p, u)
  <1>1. t \in Seq(Node)
    BY DEF Tree
  <1>2. v \in Seq(Node) /\ Len(v) = Len(t)
    BY <1>1, PrepareBranchType DEF SameScripts
  <1>3. w \in Seq(Node) /\ Len(w) = Len(v)
    BY <1>2 DEF Swept
  <1>4. ASSUME NEW i \in 1 .. Len(t)
        PROVE /\ w[i].id = v[i].id /\ w[i].pred = v[i].pred /\ w[i].acks = v[i].acks
              /\ w[i].mis = v[i].mis /\ w[i].exe = v[i].exe
              /\ w[i].bp <=> v[i].bp
              /\ w[i].rej <=> v[i].rej
    <2>1. /\ v[i].id = t[i].id /\ v[i].pred = t[i].pred /\ v[i].acks = t[i].acks
          /\ v[i].mis = t[i].mis /\ v[i].exe = t[i].exe
          /\ v[i].bp <=> t[i].bp \/ i = p
          /\ v[i].rej <=> \/ t[i].rej
                          \/ Wins(t, p, u) /\ i \in DecidingHead(t, p, u) .. SubtreeEnd(t, p) - 1
      BY <1>1, PreparedNodes
    <2>2. i \in lo .. hi <=> Wins(t, p, u) /\ i \in DecidingHead(t, p, u) .. SubtreeEnd(t, p) - 1
      <3>1. CASE Wins(t, p, u)
        BY <3>1
      <3>2. CASE ~Wins(t, p, u)
        <4>1. \A k \in lo .. hi : FALSE
          BY <3>2
        <4> QED
          BY <3>2, <4>1
      <3> QED
        BY <3>1, <3>2
    <2>3. /\ w[i].id = t[i].id /\ w[i].pred = t[i].pred /\ w[i].acks = t[i].acks
          /\ w[i].mis = t[i].mis /\ w[i].exe = t[i].exe
          /\ w[i].bp <=> t[i].bp \/ i = p
          /\ w[i].rej <=> t[i].rej \/ i \in lo .. hi
      BY DEF Swept
    <2> HIDE DEF v
    <2> QED
      BY <2>1, <2>2, <2>3
  <1> HIDE DEF v
  <1>5. w = v
    BY <1>2, <1>3, <1>4, NodesEqual
  <1> QED
    BY <1>5 DEF v

(* The first branch that is not lost decides.                                *)
LEMMA Decided ==
    ASSUME NEW t, Tree(t), NEW p \in 1 .. Len(t), NEW x \in p + 1 .. Len(t), Parents(t)[x] = p,
           NEW u, LostUpTo(t, p, u, x - 1), HigherPriority(t[x], u) \/ ~t[x].rej
    PROVE  DecidingHead(t, p, u) = x /\ x \in BranchHeads(t, p)
  <1> DEFINE h == DecidingHead(t, p, u)
  <1>1. t \in Seq(Node) /\ Shaped(t)
    BY DEF Tree
  <1>2. BranchHeads(t, p) = {j \in 2 .. Len(t) : Parents(t)[j] = p}
    BY <1>1, HeadsOf
  <1>3. p \in Nat /\ p > 0 /\ Len(t) \in Nat
    BY <1>1, Places
  <1>4. x \in BranchHeads(t, p) /\ x \in Nat
    BY <1>2, <1>3
  <1>5. /\ h = 0 => \A j \in BranchHeads(t, p) : ~HigherPriority(t[j], u) /\ t[j].rej
        /\ h # 0 => /\ h \in BranchHeads(t, p)
                    /\ HigherPriority(t[h], u) \/ ~t[h].rej
                    /\ \A j \in BranchHeads(t, p) :
                          j < h => ~HigherPriority(t[j], u) /\ t[j].rej
    BY <1>1, DecidingHeadOf
  <1> HIDE DEF h
  <1>6. h # 0 /\ h \in BranchHeads(t, p) /\ ~(x < h)
    BY <1>4, <1>5
  <1>7. h \in 2 .. Len(t) /\ Parents(t)[h] = p
    BY <1>2, <1>6
  <1>8. ~(h <= x - 1)
    BY <1>5, <1>6, <1>7 DEF LostUpTo
  <1>9. h = x
    BY <1>3, <1>4, <1>6, <1>7, <1>8
  <1> QED
    BY <1>4, <1>9 DEF h

(* When every branch is lost the new one goes behind them.                   *)
LEMMA AllLost ==
    ASSUME NEW t, Tree(t), NEW p \in 1 .. Len(t), NEW u,
           LostUpTo(t, p, u, SubtreeEnd(t, p) - 1)
    PROVE  ~Wins(t, p, u) /\ InsertionIdx(t, p, u) = SubtreeEnd(t, p)
  <1> DEFINE h == DecidingHead(t, p, u)
             e == SubtreeEnd(t, p)
  <1>1. t \in Seq(Node) /\ Shaped(t)
    BY DEF Tree
  <1>2. BranchHeads(t, p) = {j \in 2 .. Len(t) : Parents(t)[j] = p}
    BY <1>1, HeadsOf
  <1>3. p \in Nat /\ Len(t) \in Nat /\ e \in p + 1 .. Len(t) + 1
    BY <1>1, Places, SubtreeOf
  <1>4. h # 0 => h \in BranchHeads(t, p) /\ (HigherPriority(t[h], u) \/ ~t[h].rej)
    BY <1>1, DecidingHeadOf
  <1>5. BranchHeads(t, p) \subseteq p .. e - 1
    BY DEF BranchHeads, Subtree
  <1> HIDE DEF h, e
  <1>6. ASSUME h # 0 PROVE FALSE
    <2>1. h \in 2 .. Len(t) /\ Parents(t)[h] = p /\ h <= e - 1
      BY <1>2, <1>3, <1>4, <1>5, <1>6
    <2>2. t[h].rej /\ ~HigherPriority(t[h], u)
      BY <2>1 DEF LostUpTo, e
    <2> QED
      BY <1>4, <1>6, <2>2
  <1> QED
    BY <1>6 DEF Wins, InsertionIdx, h, e

----------------------------------------------------------------------------
(* Going on *)

(* A step goes on with the walk.                                             *)
Goes(t, p, u) == UNCHANGED <<fis, todo, before>> /\ pos' \in Nat \ {0} /\ Walk(t, p, u)'

(* A branch that was lost: the walk leaves the parent, comes to the next     *)
(* branch, or goes on skipping.                                              *)
LEMMA SkipOn ==
    ASSUME NEW t, Tree(t), NEW p \in 1 .. Len(t), NEW u, Inside(t, p),
           NEW w, Swept(t, p, 1, 0, w), LostUpTo(t, p, u, pos),
           nodes' = w, pos' = pos + 1, UNCHANGED <<fis, todo, before>>,
           Leaves(t, p, FALSE) \/ Stays(t, p, FALSE, TRUE)
    PROVE  Goes(t, p, u)
  <1> DEFINE a == Parents(t)
             n == Len(t)
             x == pos
  <1>1. t \in Seq(Node) /\ Shaped(t) /\ Marked(t)
    BY DEF Tree
  <1>2. n \in Nat /\ p \in Nat /\ x \in p + 1 .. n /\ Under(a, p, x)
    BY <1>1, Places DEF Inside
  <1>3. x \in Nat /\ x \in 1 .. n /\ x # p /\ x + 1 \in Nat \ {0}
    BY <1>2
  <1>4. PICK j \in 2 .. n : a[j] = p /\ Under(a, j, x)
    BY <1>1, <1>2, <1>3, NextOnPath
  <1>5. BranchHeads(t, p) # {} /\ j <= x
    BY <1>1, <1>4, HeadsOf DEF Under
  <1>6. CASE Leaves(t, p, FALSE)
    <2>1. SubtreeEnd(t, p) - 1 = x /\ x + 1 = SubtreeEnd(t, p)
      BY <1>3, <1>6 DEF Leaves
    <2>2. ~Wins(t, p, u) /\ InsertionIdx(t, p, u) = x + 1
      BY <2>1, AllLost
    <2>3. w = PrepareBranch(t, p, u)
      <3>1. 1 \in Int /\ 0 \in Int /\ 0 < 1
        OBVIOUS
      <3> QED
        BY <1>5, <2>2, <3>1, SweptIsPrepared
    <2>4. ~walking' /\ gatherer' \in Gatherer /\ ~gatherer'.keepRejecting
      BY <1>6 DEF Leaves
    <2>5. gatherer'.keepRejecting = FALSE
      BY <2>4 DEF Gatherer
    <2>6. Wins(t, p, u) = FALSE
      BY <2>2 DEF Wins
    <2>7. Stopped(t, p, u)'
      BY <2>2, <2>3, <2>4, <2>5, <2>6 DEF Stopped
    <2> QED
      BY <1>3, <2>7 DEF Goes, Walk
  <1>7. CASE Stays(t, p, FALSE, TRUE) /\ a[x + 1] = p
    <2>1. walking' /\ Inside(t, p)' /\ x + 1 \in 2 .. n
      BY <1>2, <1>3, <1>7 DEF Stays, Inside
    <2>2. t[p].bp
      <3>1. j # x + 1
        BY <1>2, <1>3, <1>4, <1>5
      <3>2. Branching(t, p)
        BY <1>4, <1>7, <2>1, <3>1 DEF Branching
      <3> QED
        BY <1>1, <3>2 DEF Marked
    <2>3. w = t
      <3>1. w \in Seq(Node) /\ Len(w) = Len(t)
        BY DEF Swept
      <3>2. \A i \in 1 .. Len(t) :
              /\ w[i].id = t[i].id /\ w[i].pred = t[i].pred /\ w[i].acks = t[i].acks
              /\ w[i].mis = t[i].mis /\ w[i].exe = t[i].exe
              /\ w[i].bp <=> t[i].bp
              /\ w[i].rej <=> t[i].rej
        <4>1. \A i \in 1 .. 0 : FALSE
          OBVIOUS
        <4> QED
          BY <2>2, <4>1 DEF Swept
      <3> QED
        BY <1>1, <3>1, <3>2, NodesEqual
    <2>4. OnWay(t, p, x + 1) = {p}
      <3>1. (x + 1) - 1 = x /\ Under(a, p, x + 1)
        BY <1>3, <2>1, <1>7 DEF Inside
      <3>2. \A z \in p .. x : Under(a, z, x + 1) => z = p
        <4>1. \A z \in p .. x : x + 1 \in z + 1 .. x + 1
          BY <1>2, <1>3
        <4> QED
          BY <1>2, <1>3, <1>7, <4>1 DEF Under
      <3>3. p \in p .. x
        BY <1>2, <1>3
      <3>4. (x + 1) - 1 = x
        BY <3>1
      <3> HIDE DEF x
      <3>5. OnWay(t, p, x + 1) = {z \in p .. (x + 1) - 1 : (z = p \/ t[z].bp) /\ Under(a, z, x + 1)}
        BY DEF OnWay
      <3> HIDE DEF a
      <3>6. \A z : z \in OnWay(t, p, x + 1) <=> z = p
        BY <3>1, <3>2, <3>3, <3>4, <3>5
      <3> QED
        BY <3>6
    <2>5. gatherer'.stack = <<t[p].id>>
      <3>1. Lists(t, {p}, gatherer'.stack)
        BY <1>7, <2>4 DEF Stays
      <3> QED
        BY <1>1, <3>1, ListsFew
    <2>6. Going(gatherer', p, ~t[p].bp, FALSE, FALSE)
      BY <1>7, <2>2 DEF Stays, Going
    <2>7. LostUpTo(t, p, u, pos' - 1)
      <3>1. pos' - 1 = pos
        BY <1>3
      <3> QED
        BY <3>1
    <2>8. AtSibling(t, p, u)'
      BY <1>7, <2>1, <2>2, <2>3, <2>5, <2>6, <2>7 DEF AtSibling
    <2> QED
      BY <1>3, <2>8 DEF Goes, Walk
  <1>8. CASE Stays(t, p, FALSE, TRUE) /\ a[x + 1] # p
    <2>1. walking' /\ Inside(t, p)' /\ Lists(t, OnWay(t, p, x + 1), gatherer'.stack)
      BY <1>8 DEF Stays
    <2>2. Going(gatherer', p, FALSE, FALSE, TRUE)
      BY <1>8 DEF Stays, Going
    <2>3. LostUpTo(t, p, u, x + 1)
      <3>1. \A i \in 2 .. n : a[i] = p /\ i <= x + 1 => i <= x
        BY <1>3, <1>8
      <3> QED
        BY <3>1 DEF LostUpTo
    <2>4. InLostBranch(t, p, u)'
      BY <1>8, <2>1, <2>2, <2>3 DEF InLostBranch
    <2> QED
      BY <1>3, <2>4 DEF Goes, Walk
  <1> QED
    BY <1>6, <1>7, <1>8

(* The old trunk: the walk goes on to its end, which is that of the array.   *)
LEMMA RejectOn ==
    ASSUME NEW t, Tree(t), NEW p \in 1 .. Len(t), NEW u, Inside(t, p), Wins(t, p, u),
           DecidingHead(t, p, u) \in BranchHeads(t, p), DecidingHead(t, p, u) <= pos,
           NEW w, Swept(t, p, DecidingHead(t, p, u), pos, w),
           nodes' = w, pos' = pos + 1, UNCHANGED <<fis, todo, before>>,
           Leaves(t, p, TRUE) \/ Stays(t, p, TRUE, FALSE)
    PROVE  Goes(t, p, u)
  <1> DEFINE n == Len(t)
             x == pos
             h == DecidingHead(t, p, u)
  <1>1. t \in Seq(Node) /\ Shaped(t)
    BY DEF Tree
  <1>2. n \in Nat /\ p \in Nat /\ x \in p + 1 .. n
    BY <1>1, Places DEF Inside
  <1>3. x \in Nat /\ x + 1 \in Nat \ {0} /\ (x + 1) - 1 = x
    BY <1>2
  <1>4. h \in Nat
    <2>1. BranchHeads(t, p) = {j \in 2 .. n : Parents(t)[j] = p}
      BY <1>1, HeadsOf
    <2> QED
      BY <2>1
  <1>5. CASE Leaves(t, p, TRUE)
    <2>1. x = SubtreeEnd(t, p) - 1 /\ x + 1 = SubtreeEnd(t, p)
      BY <1>3, <1>5 DEF Leaves
    <2>2. InsertionIdx(t, p, u) = x + 1
      BY <2>1 DEF Wins, InsertionIdx
    <2>3. w = PrepareBranch(t, p, u)
      <3>1. BranchHeads(t, p) # {} /\ h \in Int /\ x \in Int
        BY <1>3, <1>4
      <3> QED
        BY <2>1, <3>1, SweptIsPrepared
    <2>4. ~walking' /\ gatherer' \in Gatherer /\ gatherer'.keepRejecting
      BY <1>5 DEF Leaves
    <2>5. gatherer'.keepRejecting = TRUE
      BY <2>4 DEF Gatherer
    <2>6. Wins(t, p, u) = TRUE
      BY DEF Wins
    <2>7. Stopped(t, p, u)'
      BY <2>2, <2>3, <2>4, <2>5, <2>6 DEF Stopped
    <2> QED
      BY <1>3, <2>7 DEF Goes, Walk
  <1>6. CASE Stays(t, p, TRUE, FALSE)
    <2>1. walking' /\ Inside(t, p)' /\ Lists(t, OnWay(t, p, x + 1), gatherer'.stack)
      BY <1>6 DEF Stays
    <2>2. Going(gatherer', p, FALSE, TRUE, FALSE)
      BY <1>6 DEF Stays, Going
    <2>3. h < x + 1 /\ Swept(t, p, h, (x + 1) - 1, w)
      BY <1>3, <1>4
    <2>4. h < pos' /\ Swept(t, p, h, pos' - 1, nodes') /\ OnWay(t, p, pos') = OnWay(t, p, x + 1)
      <3>1. pos' = x + 1 /\ nodes' = w
        OBVIOUS
      <3> QED
        BY <2>3, <3>1
    <2> HIDE DEF h
    <2>5. OnOldTrunk(t, p, u)'
      BY <2>1, <2>2, <2>4 DEF OnOldTrunk, h
    <2> QED
      BY <1>3, <2>5 DEF Goes, Walk
  <1> QED
    BY <1>5, <1>6

(* Rejecting the node the walk is at.                                        *)
LEMMA SweepOn ==
    ASSUME NEW t, Tree(t), NEW p \in 1 .. Len(t), Inside(t, p),
           NEW lo \in 1 .. pos, NEW w, Swept(t, p, lo, pos - 1, w)
    PROVE  Swept(t, p, lo, pos, RejectNode(w))
  <1> DEFINE v == RejectNode(w)
             m == [w[pos] EXCEPT !.rej = TRUE]
  <1>1. Len(t) \in Nat /\ p \in Nat /\ pos \in p + 1 .. Len(t)
    BY Places DEF Tree, Inside
  <1>2. pos \in 1 .. Len(t) /\ pos \in Nat /\ lo \in Nat /\ lo <= pos
    BY <1>1
  <1>3. /\ w \in Seq(Node) /\ Len(w) = Len(t)
        /\ \A i \in 1 .. Len(t) :
              /\ w[i].id = t[i].id /\ w[i].pred = t[i].pred /\ w[i].acks = t[i].acks
              /\ w[i].mis = t[i].mis /\ w[i].exe = t[i].exe
              /\ w[i].bp <=> t[i].bp \/ i = p
              /\ w[i].rej <=> t[i].rej \/ i \in lo .. pos - 1
    BY DEF Swept
  <1>4. w[pos] \in Node
    BY <1>2, <1>3, NodesType
  <1>5. /\ m \in Node /\ m.id = w[pos].id /\ m.pred = w[pos].pred /\ m.acks = w[pos].acks
        /\ m.mis = w[pos].mis /\ m.exe = w[pos].exe /\ m.bp = w[pos].bp /\ m.rej
    BY <1>4 DEF Node
  <1>6. v = Replace(w, pos, m)
    BY DEF RejectNode
  <1> HIDE DEF m
  <1>7. v \in Seq(Node) /\ Len(v) = Len(t)
    BY <1>3, <1>5, <1>6, ReplaceType DEF SameScripts
  <1>8. \A i \in 1 .. Len(t) : v[i] = IF i = pos THEN m ELSE w[i]
    BY <1>3, <1>6 DEF Replace
  <1> HIDE DEF v
  <1>9. \A i \in 1 .. Len(t) : i \in lo .. pos <=> i = pos \/ i \in lo .. pos - 1
    BY <1>1, <1>2
  <1>10. ASSUME NEW i \in 1 .. Len(t)
         PROVE /\ v[i].id = t[i].id /\ v[i].pred = t[i].pred /\ v[i].acks = t[i].acks
               /\ v[i].mis = t[i].mis /\ v[i].exe = t[i].exe
               /\ v[i].bp <=> t[i].bp \/ i = p
               /\ v[i].rej <=> t[i].rej \/ i \in lo .. pos
    <2>1. CASE i = pos
      BY <1>3, <1>5, <1>8, <1>9, <2>1
    <2>2. CASE i # pos
      BY <1>3, <1>8, <1>9, <2>2
    <2> QED
      BY <2>1, <2>2
  <1>11. Swept(t, p, lo, pos, v)
    BY <1>7, <1>10 DEF Swept
  <1> QED
    BY <1>11 DEF v

----------------------------------------------------------------------------
(* Arriving at a branch head *)

(* A swept array has the links of the tree, and its branch points but for    *)
(* the parent.                                                               *)
LEMMA SweptLinks ==
    ASSUME NEW t \in Seq(Node), NEW p \in 1 .. Len(t), NEW lo, NEW hi, NEW w, Swept(t, p, lo, hi, w)
    PROVE  SameLinks(t, w) /\ \A i \in 1 .. Len(t) : i # p => w[i].bp = t[i].bp
  <1>1. \A i \in 1 .. Len(t) : t[i].bp \in BOOLEAN
    BY NodesType DEF Node
  <1>2. \A i \in 1 .. Len(t) : w[i].bp \in BOOLEAN
    BY NodesType DEF Node, Swept
  <1> QED
    BY <1>1, <1>2 DEF Swept, SameLinks

(* At a branch head the branches from the parent are those the walk passed.  *)
LEMMA OnlyParent ==
    ASSUME NEW t, Tree(t), NEW p \in 1 .. Len(t), NEW x \in p + 1 .. Len(t),
           Under(Parents(t), p, x), Parents(t)[x] = p
    PROVE  OnWay(t, p, x) = {p} /\ BranchHeads(t, p) # {}
  <1>1. t \in Seq(Node) /\ Shaped(t)
    BY DEF Tree
  <1>2. p \in Nat /\ Len(t) \in Nat /\ x \in Nat /\ p < x /\ p >= 1 /\ x <= Len(t)
    BY <1>1, Places
  <1>3. \A z \in p .. x - 1 : Under(Parents(t), z, x) => z = p
    <2>1. \A z \in p .. x - 1 : x \in z + 1 .. x
      BY <1>2
    <2> QED
      BY <1>2, <2>1 DEF Under
  <1>4. p \in p .. x - 1 /\ x \in 2 .. Len(t)
    BY <1>2
  <1>5. \A z : z \in OnWay(t, p, x) <=> z = p
    BY <1>3, <1>4 DEF OnWay
  <1>6. x \in BranchHeads(t, p)
    BY <1>1, <1>4, HeadsOf
  <1> QED
    BY <1>5, <1>6

(* What AtBranchHead hands on: the parent marked, and on the stack.          *)
LEMMA MarkFields ==
    ASSUME NEW g \in Gatherer
    PROVE  LET g1 == [g EXCEPT !.makeBranchingPoint = FALSE]
               g2 == [g EXCEPT !.keepSkipping = TRUE]
               g3 == [g EXCEPT !.keepRejecting = TRUE]
           IN  /\ g1 \in Gatherer /\ g1.parent = g.parent /\ ~g1.makeBranchingPoint
               /\ g1.keepRejecting = g.keepRejecting /\ g1.keepSkipping = g.keepSkipping
               /\ g1.stack = g.stack
               /\ g2 \in Gatherer /\ g2.parent = g.parent
               /\ g2.makeBranchingPoint = g.makeBranchingPoint
               /\ g2.keepRejecting = g.keepRejecting /\ g2.keepSkipping
               /\ g2.stack = g.stack
               /\ g3 \in Gatherer /\ g3.parent = g.parent
               /\ g3.makeBranchingPoint = g.makeBranchingPoint
               /\ g3.keepRejecting /\ g3.keepSkipping = g.keepSkipping
               /\ g3.stack = g.stack
  BY DEF Gatherer

(* At a branch head the parent is a marked branch point, and listed.         *)
LEMMA AtSiblingFacts ==
    ASSUME NEW t, Tree(t), NEW p \in 1 .. Len(t), NEW u, AtSibling(t, p, u)
    PROVE  /\ Inside(t, p) /\ pos \in 1 .. Len(t) /\ pos # p /\ pos \in Nat \ {0}
           /\ nodes = t /\ BranchHeads(t, p) # {}
           /\ Swept(t, p, 1, 0, MarkedNodes)
           /\ Going(AtHead, p, FALSE, FALSE, FALSE)
           /\ Lists(t, OnWay(t, p, pos), AtHead.stack)
  <1>1. t \in Seq(Node) /\ Shaped(t)
    BY DEF Tree
  <1>2. /\ Inside(t, p) /\ Parents(t)[pos] = p /\ nodes = t
        /\ Going(gatherer, p, ~t[p].bp, FALSE, FALSE)
        /\ gatherer.stack = IF t[p].bp THEN <<t[p].id>> ELSE <<>>
    BY DEF AtSibling
  <1>3. pos \in p + 1 .. Len(t) /\ Under(Parents(t), p, pos)
    BY <1>2 DEF Inside
  <1>4. pos \in 1 .. Len(t) /\ pos # p /\ pos \in Nat \ {0}
    BY <1>1, <1>3, Places
  <1>5. OnWay(t, p, pos) = {p} /\ BranchHeads(t, p) # {}
    BY <1>2, <1>3, OnlyParent
  <1>6. Swept(t, p, 1, 0, MarkedNodes)
    <2>1. \A i \in 1 .. 0 : FALSE
      OBVIOUS
    <2>2. CASE t[p].bp
      <3>1. MarkedNodes = t
        BY <1>2, <2>2 DEF MarkedNodes, Going
      <3> QED
        BY <1>1, <2>1, <2>2, <3>1 DEF Swept
    <2>3. CASE ~t[p].bp
      <3> DEFINE m == [t[p] EXCEPT !.bp = TRUE]
                 w == Replace(t, p, m)
      <3>1. MarkedNodes = w
        BY <1>2, <2>3 DEF MarkedNodes, Going
      <3>2. t[p] \in Node
        BY <1>1, NodesType
      <3>3. /\ m \in Node /\ m.id = t[p].id /\ m.pred = t[p].pred /\ m.acks = t[p].acks
            /\ m.mis = t[p].mis /\ m.exe = t[p].exe /\ m.rej = t[p].rej /\ m.bp
        BY <3>2 DEF Node
      <3> HIDE DEF m
      <3>4. w \in Seq(Node) /\ Len(w) = Len(t)
        BY <1>1, <3>3, ReplaceType DEF SameScripts
      <3>5. \A i \in 1 .. Len(t) : w[i] = IF i = p THEN m ELSE t[i]
        BY DEF Replace
      <3> HIDE DEF w
      <3>6. Swept(t, p, 1, 0, w)
        BY <2>1, <3>3, <3>4, <3>5 DEF Swept
      <3> QED
        BY <3>1, <3>6
    <2> QED
      BY <2>2, <2>3
  <1>7. Going(AtHead, p, FALSE, FALSE, FALSE) /\ Lists(t, {p}, AtHead.stack)
    <2>1. CASE t[p].bp
      <3>1. AtHead = gatherer
        BY <1>2, <2>1 DEF AtHead, Going
      <3> QED
        BY <1>1, <1>2, <2>1, <3>1, ListsFew DEF Going
    <2>2. CASE ~t[p].bp
      <3> DEFINE g1 == [gatherer EXCEPT !.makeBranchingPoint = FALSE]
      <3>1. AtHead = Push(g1, t[p].id)
        BY <1>2, <2>2 DEF AtHead, Going
      <3>2. gatherer \in Gatherer /\ gatherer.stack = <<>> /\ t[p].id \in Gid
        BY <1>1, <1>2, <2>2, Places DEF Going
      <3>3. /\ g1 \in Gatherer /\ g1.parent = gatherer.parent /\ ~g1.makeBranchingPoint
            /\ g1.keepRejecting = gatherer.keepRejecting
            /\ g1.keepSkipping = gatherer.keepSkipping /\ g1.stack = <<>>
        BY <3>2, MarkFields
      <3> HIDE DEF g1
      <3>4. Going(AtHead, p, FALSE, FALSE, FALSE) /\ AtHead.stack = Append(<<>>, t[p].id)
        BY <1>2, <3>1, <3>2, <3>3, PushFields DEF Going
      <3>5. Append(<<>>, t[p].id) = <<t[p].id>>
        OBVIOUS
      <3> QED
        BY <1>1, <3>4, <3>5, ListsFew
    <2> QED
      BY <2>1, <2>2
  <1> QED
    BY <1>2, <1>4, <1>5, <1>6, <1>7

----------------------------------------------------------------------------
(* One lemma for each action of the walk *)

(* ProcessParent goes on with the walk.                                      *)
LEMMA ParentStep ==
    ASSUME NEW t, Tree(t), NEW p \in 1 .. Len(t), NEW u, AtParent(t, p), ProcessParent
    PROVE  Goes(t, p, u)
  <1> DEFINE a == Parents(t)
             n == Len(t)
             g == [gatherer EXCEPT !.parent = pos, !.makeBranchingPoint = ~Current.bp]
             g1 == PassBranchPoint(g, t[p])
             W == IF t[p].bp THEN {p} ELSE {}
  <1>1. t \in Seq(Node) /\ Shaped(t)
    BY DEF Tree
  <1>2. n \in Nat /\ p \in Nat /\ p # 0 /\ p <= n
    BY <1>1, Places
  <1>3. walking /\ pos = p /\ nodes = t /\ gatherer = NewGatherer
    BY DEF AtParent
  <1>4. /\ g \in Gatherer /\ g.parent = p /\ (g.makeBranchingPoint <=> ~t[p].bp)
        /\ ~g.keepRejecting /\ ~g.keepSkipping /\ g.stack = <<>>
    <2>1. t[p].bp \in BOOLEAN
      BY <1>1, NodesType DEF Node
    <2>2. NewGatherer \in Gatherer /\ NewGatherer.stack = <<>>
          /\ ~NewGatherer.keepRejecting /\ ~NewGatherer.keepSkipping
      BY DEF NewGatherer, Gatherer
    <2>3. PICK b \in BOOLEAN : b = ~t[p].bp
      BY <2>1
    <2>4. g = [NewGatherer EXCEPT !.parent = p, !.makeBranchingPoint = b]
      BY <1>3, <2>3 DEF Current
    <2> HIDE DEF g
    <2>5. /\ g \in Gatherer /\ g.parent = p /\ g.makeBranchingPoint = b
          /\ g.keepRejecting = NewGatherer.keepRejecting
          /\ g.keepSkipping = NewGatherer.keepSkipping /\ g.stack = NewGatherer.stack
      BY <1>2, <2>2, <2>4 DEF Gatherer
    <2> QED
      BY <2>2, <2>3, <2>5
  <1>5. /\ gatherer' = IF p = Len(t) THEN BackTo(g1, NoId)
                       ELSE IF t[p + 1].pred # t[p].id THEN BackTo(g1, t[p + 1].pred)
                       ELSE g1
        /\ walking' = (~(p = Len(t)) /\ (t[p + 1].pred # t[p].id => DepthOf(g1, t[p + 1].pred) # 0))
        /\ nodes' = t /\ pos' = p + 1 /\ UNCHANGED <<fis, todo, before>>
    BY <1>3 DEF ProcessParent, GoOn
  <1> HIDE DEF g
  <1>6. /\ Going(g1, p, ~t[p].bp, FALSE, FALSE)
        /\ g1.stack = IF t[p].bp THEN <<t[p].id>> ELSE <<>>
        /\ Lists(t, W, g1.stack) /\ W \in SUBSET (1 .. n)
    <2>1. t[p].id \in Gid
      BY <1>1, Places
    <2>2. CASE t[p].bp
      <3>1. g1 = Push(g, t[p].id) /\ W = {p}
        BY <2>2 DEF PassBranchPoint
      <3>2. Going(g1, p, ~t[p].bp, FALSE, FALSE) /\ g1.stack = Append(<<>>, t[p].id)
        BY <1>4, <2>1, <3>1, PushFields DEF Going
      <3>3. Append(<<>>, t[p].id) = <<t[p].id>>
        OBVIOUS
      <3> QED
        BY <1>1, <2>2, <3>1, <3>2, <3>3, ListsFew
    <2>3. CASE ~t[p].bp
      <3>1. g1 = g /\ W = {}
        BY <2>3 DEF PassBranchPoint
      <3> QED
        BY <1>1, <1>4, <2>3, <3>1, ListsFew DEF Going
    <2> QED
      BY <2>2, <2>3
  <1>7. \A z \in W : z = p
    OBVIOUS
  <1>8. g1 \in Gatherer /\ g1.stack \in Seq(Gid) /\ ~g1.keepRejecting
    BY <1>6 DEF Going, Gatherer
  <1> HIDE DEF g1, W
  <1>9. p \in p .. n /\ Under(a, p, p)
    <2>1. Preorder(a, n)
      BY <1>1 DEF Shaped
    <2> QED
      BY <1>2, <2>1, UnderFacts
  <1>10. /\ p < n => a[p + 1] \in 1 .. p /\ (Under(a, p, p + 1) <=> p <= a[p + 1])
         /\ p = n \/ a[p + 1] < p => SubtreeEnd(t, p) = p + 1
    BY <1>9, Onward
  <1>11. ASSUME NEW id, DepthOf(g1, id) = 0
         PROVE  BackTo(g1, id) \in Gatherer /\ ~BackTo(g1, id).keepRejecting
    <2>1. SubSeq(g1.stack, 1, DepthOf(g1, id)) \in Seq(Gid)
      BY <1>8, <1>11, PartsType
    <2> QED
      BY <1>8, <2>1, BackFields
  <1>12. ASSUME ~walking', gatherer' \in Gatherer, ~gatherer'.keepRejecting,
                SubtreeEnd(t, p) = p + 1
         PROVE  Goes(t, p, u)
    <2>1. ~Wins(t, p, u) /\ InsertionIdx(t, p, u) = p + 1 /\ PrepareBranch(t, p, u) = t
      BY <1>12, LeafParent
    <2>2. gatherer'.keepRejecting = FALSE
      BY <1>12 DEF Gatherer
    <2>3. Wins(t, p, u) = FALSE
      BY <2>1 DEF Wins
    <2>4. Stopped(t, p, u)'
      BY <1>5, <1>12, <2>1, <2>2, <2>3 DEF Stopped
    <2> QED
      BY <1>2, <1>5, <2>4 DEF Goes, Walk
  <1>13. CASE p = n
    <2>1. \A z \in W : t[z].id # NoId
      BY <1>1, <1>7, Places
    <2>2. DepthOf(g1, NoId) = 0
      BY <1>1, <1>6, <2>1, ListsMiss
    <2>3. gatherer' = BackTo(g1, NoId) /\ ~walking'
      BY <1>5, <1>13
    <2> QED
      BY <1>10, <1>11, <1>12, <1>13, <2>2, <2>3
  <1>14. ASSUME p < n
         PROVE  /\ p + 1 \in 2 .. n /\ a[p + 1] \in 1 .. n /\ t[a[p + 1]].id = t[p + 1].pred
                /\ (t[p + 1].pred = t[p].id <=> a[p + 1] = p)
    <2>1. p + 1 \in 2 .. n
      BY <1>2, <1>14
    <2>2. t[p].id = t[p + 1].pred <=> p = a[p + 1]
      BY <1>1, <2>1, Places
    <2> QED
      BY <1>1, <2>1, <2>2, Places
  <1>15. CASE p < n /\ a[p + 1] # p
    <2>1. a[p + 1] < p
      BY <1>2, <1>10, <1>15
    <2>2. \A z \in W : t[z].id # t[p + 1].pred
      BY <1>7, <1>14, <1>15
    <2>3. DepthOf(g1, t[p + 1].pred) = 0
      BY <1>1, <1>6, <2>2, ListsMiss
    <2>4. gatherer' = BackTo(g1, t[p + 1].pred) /\ ~walking'
      <3>1. t[p + 1].pred # t[p].id /\ p # Len(t)
        BY <1>2, <1>14, <1>15
      <3> QED
        BY <1>5, <2>3, <3>1
    <2> QED
      BY <1>10, <1>11, <1>12, <2>1, <2>3, <2>4
  <1>16. CASE p < n /\ a[p + 1] = p
    <2>1. gatherer' = g1 /\ walking'
      <3>1. t[p + 1].pred = t[p].id /\ p # Len(t)
        BY <1>2, <1>14, <1>16
      <3> QED
        BY <1>5, <3>1
    <2>2. p + 1 \in p + 1 .. n /\ Under(a, p, p + 1)
      BY <1>2, <1>10, <1>16
    <2>3. Inside(t, p)'
      BY <1>5, <2>2 DEF Inside
    <2>4. LostUpTo(t, p, u, p)
      <3>1. \A i \in 2 .. n : a[i] = p => i > p
        BY <1>1, <1>2, Places
      <3> QED
        BY <1>2, <3>1 DEF LostUpTo
    <2>5. LostUpTo(t, p, u, pos' - 1)
      <3>1. pos' - 1 = p
        BY <1>2, <1>5
      <3> QED
        BY <2>4, <3>1
    <2>6. AtSibling(t, p, u)'
      BY <1>5, <1>6, <1>16, <2>1, <2>3, <2>5 DEF AtSibling
    <2> QED
      BY <1>2, <1>5, <2>6 DEF Goes, Walk
  <1> QED
    BY <1>2, <1>13, <1>15, <1>16

----------------------------------------------------------------------------
(* The steps of the walk *)

(* A branch from the parent that wins decides the place.                     *)
LEMMA LosesStep ==
    ASSUME NEW t, Tree(t), NEW p \in 1 .. Len(t), NEW u, AtSibling(t, p, u),
           u = Author(todo[1].id), NewScriptLoses
    PROVE  Goes(t, p, u)
  <1>1. /\ Inside(t, p) /\ pos \in 1 .. Len(t) /\ pos \in Nat \ {0} /\ nodes = t
        /\ BranchHeads(t, p) # {} /\ Swept(t, p, 1, 0, MarkedNodes)
        /\ Going(AtHead, p, FALSE, FALSE, FALSE)
    BY AtSiblingFacts
  <1>2. /\ HigherPriority(t[pos], u) /\ nodes' = MarkedNodes /\ gatherer' = AtHead
        /\ walking' = FALSE /\ UNCHANGED <<fis, todo, pos, before>>
    BY <1>1 DEF NewScriptLoses, Current
  <1>3. pos \in p + 1 .. Len(t) /\ Parents(t)[pos] = p /\ LostUpTo(t, p, u, pos - 1)
    BY DEF AtSibling, Inside
  <1>4. DecidingHead(t, p, u) = pos
    BY <1>2, <1>3, Decided
  <1>5. InsertionIdx(t, p, u) = pos /\ ~Wins(t, p, u)
    BY <1>1, <1>2, <1>4 DEF InsertionIdx, Wins
  <1>6. MarkedNodes = PrepareBranch(t, p, u)
    <2>1. 1 \in Int /\ 0 \in Int /\ 0 < 1
      OBVIOUS
    <2> QED
      BY <1>1, <1>5, <2>1, SweptIsPrepared
  <1>7. gatherer'.keepRejecting = FALSE
    BY <1>1, <1>2 DEF Going, Gatherer
  <1>8. Wins(t, p, u) = FALSE
    BY <1>5 DEF Wins
  <1>9. Stopped(t, p, u)'
    BY <1>2, <1>5, <1>6, <1>7, <1>8 DEF Stopped
  <1> QED
    BY <1>1, <1>2, <1>9 DEF Goes, Walk

(* So does skipping a branch that lost;                                      *)
LEMMA LostStep ==
    ASSUME NEW t, Tree(t), NEW p \in 1 .. Len(t), NEW u, AtSibling(t, p, u),
           u = Author(todo[1].id), BranchAlreadyLost
    PROVE  Goes(t, p, u)
  <1> DEFINE w == MarkedNodes
             g == [AtHead EXCEPT !.keepSkipping = TRUE]
  <1>1. /\ Inside(t, p) /\ pos \in 1 .. Len(t) /\ pos # p /\ pos \in Nat \ {0} /\ nodes = t
        /\ Swept(t, p, 1, 0, w) /\ Going(AtHead, p, FALSE, FALSE, FALSE)
        /\ Lists(t, OnWay(t, p, pos), AtHead.stack)
    BY AtSiblingFacts
  <1>2. ~HigherPriority(t[pos], u) /\ t[pos].rej /\ GoOn(g, w)
    BY <1>1 DEF BranchAlreadyLost, Current
  <1>3. Going(g, p, FALSE, FALSE, TRUE) /\ g.stack = AtHead.stack
    BY <1>1, MarkFields DEF Going
  <1>4. SameLinks(t, w) /\ w[pos].bp = t[pos].bp
    BY <1>1, SweptLinks DEF Tree
  <1> HIDE DEF w, g
  <1>5. /\ nodes' = w /\ pos' = pos + 1 /\ UNCHANGED <<fis, todo, before>>
        /\ Leaves(t, p, FALSE) \/ Stays(t, p, FALSE, TRUE)
    BY <1>1, <1>2, <1>3, <1>4, StepOn
  <1>6. LostUpTo(t, p, u, pos)
    <2>1. LostUpTo(t, p, u, pos - 1) /\ Len(t) \in Nat
      BY Places DEF AtSibling, Tree
    <2>2. \A i \in 2 .. Len(t) : i <= pos => i <= pos - 1 \/ i = pos
      BY <1>1, <2>1
    <2> QED
      BY <1>2, <2>1, <2>2 DEF LostUpTo
  <1> QED
    BY <1>1, <1>5, <1>6, SkipOn

(* starting to reject the old trunk;                                         *)
LEMMA WinsStep ==
    ASSUME NEW t, Tree(t), NEW p \in 1 .. Len(t), NEW u, AtSibling(t, p, u),
           u = Author(todo[1].id), NewScriptWins
    PROVE  Goes(t, p, u)
  <1> DEFINE v == MarkedNodes
             w == RejectNode(v)
             g == [AtHead EXCEPT !.keepRejecting = TRUE]
  <1>1. /\ Inside(t, p) /\ pos \in 1 .. Len(t) /\ pos # p /\ pos \in Nat \ {0} /\ nodes = t
        /\ Swept(t, p, 1, 0, v) /\ Going(AtHead, p, FALSE, FALSE, FALSE)
        /\ Lists(t, OnWay(t, p, pos), AtHead.stack)
    BY AtSiblingFacts
  <1>2. ~HigherPriority(t[pos], u) /\ ~t[pos].rej /\ GoOn(g, w)
    BY <1>1 DEF NewScriptWins, Current
  <1>3. Going(g, p, FALSE, TRUE, FALSE) /\ g.stack = AtHead.stack
    BY <1>1, MarkFields DEF Going
  <1> HIDE DEF v, g
  <1>4. pos \in p + 1 .. Len(t) /\ Parents(t)[pos] = p /\ LostUpTo(t, p, u, pos - 1)
    BY DEF AtSibling, Inside
  <1>5. DecidingHead(t, p, u) = pos /\ pos \in BranchHeads(t, p)
    BY <1>2, <1>4, Decided
  <1>6. Wins(t, p, u)
    BY <1>1, <1>2, <1>5 DEF Wins
  <1>7. Swept(t, p, pos, pos - 1, v)
    <2>1. \A i \in pos .. pos - 1 : FALSE
      BY <1>1
    <2>2. \A i \in 1 .. 0 : FALSE
      OBVIOUS
    <2> QED
      BY <1>1, <2>1, <2>2 DEF Swept
  <1>8. Swept(t, p, pos, pos, w)
    <2>1. pos \in 1 .. pos
      BY <1>1
    <2> QED
      BY <1>1, <1>7, <2>1, SweepOn
  <1>9. SameLinks(t, w) /\ w[pos].bp = t[pos].bp
    BY <1>1, <1>8, SweptLinks DEF Tree
  <1> HIDE DEF w
  <1>10. /\ nodes' = w /\ pos' = pos + 1 /\ UNCHANGED <<fis, todo, before>>
         /\ Leaves(t, p, TRUE) \/ Stays(t, p, TRUE, FALSE)
    BY <1>1, <1>2, <1>3, <1>9, StepOn
  <1>11. DecidingHead(t, p, u) <= pos
    BY <1>1, <1>5
  <1> QED
    BY <1>1, <1>5, <1>6, <1>8, <1>10, <1>11, RejectOn

(* skipping on;                                                              *)
LEMMA SkipStep ==
    ASSUME NEW t, Tree(t), NEW p \in 1 .. Len(t), NEW u, InLostBranch(t, p, u), KeepSkipping
    PROVE  Goes(t, p, u)
  <1>1. /\ Inside(t, p) /\ Parents(t)[pos] # p /\ Swept(t, p, 1, 0, nodes)
        /\ Going(gatherer, p, FALSE, FALSE, TRUE) /\ Lists(t, OnWay(t, p, pos), gatherer.stack)
        /\ LostUpTo(t, p, u, pos) /\ GoOn(gatherer, nodes)
    BY DEF InLostBranch, KeepSkipping
  <1>2. pos \in 1 .. Len(t) /\ pos # p
    BY <1>1, Places DEF Tree, Inside
  <1>3. SameLinks(t, nodes) /\ nodes[pos].bp = t[pos].bp
    BY <1>1, <1>2, SweptLinks DEF Tree
  <1>4. /\ nodes' = nodes /\ pos' = pos + 1 /\ UNCHANGED <<fis, todo, before>>
        /\ Leaves(t, p, FALSE) \/ Stays(t, p, FALSE, TRUE)
    BY <1>1, <1>3, StepOn
  <1> QED
    BY <1>1, <1>4, SkipOn

(* and rejecting on.                                                         *)
LEMMA RejectStep ==
    ASSUME NEW t, Tree(t), NEW p \in 1 .. Len(t), NEW u, OnOldTrunk(t, p, u), KeepRejecting
    PROVE  Goes(t, p, u)
  <1> DEFINE h == DecidingHead(t, p, u)
             w == RejectNode(nodes)
  <1>1. /\ Inside(t, p) /\ Wins(t, p, u) /\ h < pos /\ Swept(t, p, h, pos - 1, nodes)
        /\ Going(gatherer, p, FALSE, TRUE, FALSE) /\ Lists(t, OnWay(t, p, pos), gatherer.stack)
        /\ GoOn(gatherer, w)
    BY DEF OnOldTrunk, KeepRejecting
  <1>2. t \in Seq(Node) /\ Shaped(t)
    BY DEF Tree
  <1>3. pos \in 1 .. Len(t) /\ pos # p /\ pos \in Nat
    BY <1>1, <1>2, Places DEF Inside
  <1>4. h \in BranchHeads(t, p)
    BY <1>1, <1>2, DecidingHeadOf DEF Wins
  <1>5. h \in 2 .. Len(t)
    BY <1>2, <1>4, HeadsOf
  <1> HIDE DEF h
  <1>6. h \in 1 .. pos /\ h <= pos
    BY <1>1, <1>3, <1>5
  <1>7. Swept(t, p, h, pos, w)
    BY <1>1, <1>6, SweepOn
  <1>8. SameLinks(t, w) /\ w[pos].bp = t[pos].bp
    BY <1>2, <1>3, <1>7, SweptLinks
  <1> HIDE DEF w
  <1>9. /\ nodes' = w /\ pos' = pos + 1 /\ UNCHANGED <<fis, todo, before>>
        /\ Leaves(t, p, TRUE) \/ Stays(t, p, TRUE, FALSE)
    BY <1>1, <1>8, StepOn
  <1> QED
    BY <1>1, <1>4, <1>6, <1>7, <1>9, RejectOn DEF h

(* The actions of the walk.                                                  *)
WalkAction ==
    \/ KeepSkipping \/ KeepRejecting \/ ProcessParent
    \/ NewScriptLoses \/ BranchAlreadyLost \/ NewScriptWins

(* Whatever the walk does next, it stays on the walk.                        *)
LEMMA WalkStep ==
    ASSUME NEW t, Tree(t), NEW p \in 1 .. Len(t), NEW u, Walk(t, p, u),
           u = Author(todo[1].id), WalkAction
    PROVE  Goes(t, p, u)
  <1>1. walking
    BY DEF WalkAction, KeepSkipping, KeepRejecting, ProcessParent, NewScriptLoses,
           BranchAlreadyLost, NewScriptWins, AtBranchHead
  <1>2. p # 0
    BY Places DEF Tree
  <1>3. CASE AtParent(t, p)
    <2>1. gatherer.parent = 0 /\ ~gatherer.keepSkipping /\ ~gatherer.keepRejecting
      BY <1>3 DEF AtParent, NewGatherer
    <2>2. ProcessParent
      BY <2>1 DEF WalkAction, KeepSkipping, KeepRejecting, NewScriptLoses,
                  BranchAlreadyLost, NewScriptWins, AtBranchHead
    <2> QED
      BY <1>3, <2>2, ParentStep
  <1>4. CASE AtSibling(t, p, u)
    <2>1. gatherer.parent # 0 /\ ~gatherer.keepSkipping /\ ~gatherer.keepRejecting
      BY <1>2, <1>4 DEF AtSibling, Going
    <2>2. NewScriptLoses \/ BranchAlreadyLost \/ NewScriptWins
      BY <2>1 DEF WalkAction, KeepSkipping, KeepRejecting, ProcessParent
    <2> QED
      BY <1>4, <2>2, LosesStep, LostStep, WinsStep
  <1>5. CASE InLostBranch(t, p, u)
    <2>1. gatherer.parent # 0 /\ gatherer.keepSkipping /\ ~gatherer.keepRejecting
      BY <1>2, <1>5 DEF InLostBranch, Going
    <2>2. KeepSkipping
      BY <2>1 DEF WalkAction, KeepRejecting, ProcessParent, NewScriptLoses,
                  BranchAlreadyLost, NewScriptWins, AtBranchHead
    <2> QED
      BY <1>5, <2>2, SkipStep
  <1>6. CASE OnOldTrunk(t, p, u)
    <2>1. gatherer.parent # 0 /\ ~gatherer.keepSkipping /\ gatherer.keepRejecting
      BY <1>2, <1>6 DEF OnOldTrunk, Going
    <2>2. KeepRejecting
      BY <2>1 DEF WalkAction, KeepSkipping, ProcessParent, NewScriptLoses,
                  BranchAlreadyLost, NewScriptWins, AtBranchHead
    <2> QED
      BY <1>6, <2>2, RejectStep
  <1>7. ~Stopped(t, p, u)
    BY <1>1 DEF Stopped
  <1> QED
    BY <1>3, <1>4, <1>5, <1>6, <1>7 DEF Walk

----------------------------------------------------------------------------
(* Placing the script *)

(* Scripts can go on being inserted in what an insertion gives.              *)
LEMMA InsertReady ==
    ASSUME NEW h, Ready(h), NEW pred, NEW chain, Hangs(h.nodes, pred, chain)
    PROVE  Ready(InsertChain(h, pred, chain))
  <1> DEFINE t == h.nodes
             p == FindIdx(t, pred)
             user == Author(chain[1].id)
             at == InsertionIdx(t, p, user)
             t2 == InsertChain(h, pred, chain).nodes
  <1>1. h \in History /\ Tree(t) /\ RootSettled(t)
    BY DEF Ready
  <1>2. Grown(t, p, at, chain, t2) /\ t[p].id = pred
    BY <1>1, InsertChainGrows
  <1>3. InsertChain(h, pred, chain) \in History
    BY <1>1, InsertChainKeeps DEF Hangs, Keeps
  <1>4. Tree(t2)
    BY <1>1, <1>2, GrownTree
  <1>5. RootSettled(t2)
    <2>1. t \in Seq(Node) /\ Shaped(t)
      BY <1>1 DEF Tree
    <2>2. Len(t) \in Nat /\ 1 \in 1 .. Len(t)
      BY <2>1, Places
    <2>3. p \in 1 .. Len(t) /\ at \in p + 1 .. Len(t) + 1
      BY <1>2 DEF Grown
    <2>4. 1 < at
      BY <2>2, <2>3
    <2>5. Shift(1, at, Len(chain)) = 1
      BY <2>4 DEF Shift
    <2>6. ~(Wins(t, p, user) /\ 1 \in DecidingHead(t, p, user) .. SubtreeEnd(t, p) - 1)
      <3>1. BranchHeads(t, p) = {j \in 2 .. Len(t) : Parents(t)[j] = p}
        BY <2>1, <2>3, HeadsOf
      <3>2. DecidingHead(t, p, user) # 0 => DecidingHead(t, p, user) \in BranchHeads(t, p)
        BY <2>1, <2>3, DecidingHeadOf
      <3>3. Wins(t, p, user) => DecidingHead(t, p, user) # 0
        BY DEF Wins
      <3>4. Wins(t, p, user) => DecidingHead(t, p, user) \in 2 .. Len(t)
        BY <3>1, <3>2, <3>3
      <3> QED
        BY <3>4
    <2>7. LET n == t2[Shift(1, at, Len(chain))]
          IN  /\ n.id = t[1].id /\ n.pred = t[1].pred /\ n.acks = t[1].acks
              /\ n.mis = t[1].mis /\ n.exe = t[1].exe
              /\ n.bp <=> t[1].bp \/ (1 = p /\ BranchHeads(t, p) # {})
              /\ n.rej <=> \/ t[1].rej
                           \/ /\ Wins(t, p, user)
                              /\ 1 \in DecidingHead(t, p, user) .. SubtreeEnd(t, p) - 1
      <3> HIDE DEF t2, p, t, at
      <3> QED
        BY <1>2, <2>2 DEF Grown
    <2> HIDE DEF t2, p, t, at, user
    <2> QED
      BY <1>1, <2>5, <2>6, <2>7 DEF RootSettled
  <1> QED
    BY <1>3, <1>4, <1>5 DEF Ready

(* Placing the script where the walk stopped is inserting it.                *)
LEMMA PlacedIsInserted ==
    ASSUME NEW h, Ready(h), NEW n, Hangs(h.nodes, n.pred, <<n>>), fis = h.fis,
           Stopped(h.nodes, FindIdx(h.nodes, n.pred), Author(n.id)),
           Place, todo[1] = n
    PROVE  [nodes |-> nodes', fis |-> fis'] = InsertChain(h, n.pred, <<n>>)
  <1> DEFINE t == h.nodes
             p == FindIdx(t, n.pred)
             user == Author(n.id)
             at == InsertionIdx(t, p, user)
             t1 == PrepareBranch(t, p, user)
             atEnd == at = Len(t) + 1
             m == [n EXCEPT !.rej = @ \/ ~atEnd]
             new == [i \in 1 .. Len(<<n>>) |-> [<<n>>[i] EXCEPT !.rej = @ \/ ~atEnd]]
             t2 == SubSeq(t1, 1, at - 1) \o new \o SubSeq(t1, at, Len(t))
             h2 == InsertChain(h, n.pred, <<n>>)
             last == Greatest({j \in DOMAIN t2 : Executed(t2[j]) /\ Confirmed(t2[j])}, 0)
  <1>1. h \in History /\ Tree(t) /\ t \in Seq(Node) /\ Shaped(t) /\ n \in Node
    <2>1. <<n>> \in Seq(Node) /\ Len(<<n>>) > 0
      BY DEF Hangs
    <2> QED
      BY <2>1 DEF Ready, Tree
  <1>2. pos = at /\ nodes = t1 /\ gatherer.keepRejecting = Wins(t, p, user) /\ ~walking
    BY DEF Stopped
  <1>3. t1 \in Seq(Node) /\ Len(t1) = Len(t) /\ Len(t) \in Nat
    BY <1>1, PrepareBranchType, Places DEF SameScripts
  <1>4. Grown(t, p, at, <<n>>, h2.nodes)
    <2>1. Author(<<n>>[1].id) = user
      OBVIOUS
    <2> QED
      BY <1>1, <2>1, InsertChainGrows
  <1>5. h2 = [nodes |-> t2, fis |-> IF atEnd /\ Wins(t, p, user) THEN RepairedFis(t2, h.fis) ELSE h.fis]
    <2>1. Author(<<n>>[1].id) = user
      OBVIOUS
    <2> QED
      BY <2>1 DEF InsertChain
  <1>6. p \in 1 .. Len(t) /\ at \in p + 1 .. Len(t) + 1 /\ at \in Nat
    <2>1. p \in 1 .. Len(t) /\ at \in p + 1 .. Len(t) + 1
      BY <1>4 DEF Grown
    <2> QED
      BY <1>3, <2>1
  <1>7. new = <<m>>
    <2>1. new = [i \in 1 .. 1 |-> m]
      OBVIOUS
    <2> HIDE DEF m, new
    <2> QED
      BY <2>1
  <1>8. pos > Len(nodes) <=> atEnd
    BY <1>2, <1>3, <1>6
  <1>9. nodes' = t2
    <2>1. nodes' = SubSeq(nodes, 1, pos - 1) \o <<[todo[1] EXCEPT !.rej = @ \/ ~(pos > Len(nodes))]>>
                   \o SubSeq(nodes, pos, Len(nodes))
      BY DEF Place
    <2>2. [todo[1] EXCEPT !.rej = @ \/ ~(pos > Len(nodes))] = m
      BY <1>8
    <2> HIDE DEF m, new, t1, at, t
    <2> QED
      BY <1>2, <1>3, <1>7, <2>1, <2>2
  <1>10. Ready(h2)
    BY InsertReady
  <1>11. fis' = IF atEnd /\ Wins(t, p, user) THEN RepairedFis(t2, h.fis) ELSE h.fis
    <2>1. fis' = IF pos > Len(nodes) /\ gatherer.keepRejecting
                   THEN nodes'[Greatest({j \in DOMAIN nodes' :
                                           Executed(nodes'[j]) /\ Confirmed(nodes'[j])}, 0)].id
                   ELSE fis
      BY DEF Place
    <2>2. fis' = IF atEnd /\ Wins(t, p, user) THEN t2[last].id ELSE h.fis
      <3> HIDE DEF t2, atEnd
      <3> QED
        BY <1>2, <1>8, <1>9, <2>1
    <2>3. last # 0
      <3>1. h2.nodes = t2
        <4> HIDE DEF t2, h2
        <4> QED
          BY <1>5
      <3>2. t2 \in Seq(Node) /\ Shaped(t2) /\ RootSettled(t2)
        BY <1>10, <3>1 DEF Ready, Tree
      <3> HIDE DEF t2
      <3> DEFINE S == {j \in DOMAIN t2 : Executed(t2[j]) /\ Confirmed(t2[j])}
      <3>3. Len(t2) \in Nat /\ DOMAIN t2 = 1 .. Len(t2) /\ 1 \in 1 .. Len(t2)
        BY <3>2, Places
      <3>4. 1 \in S /\ S \in SUBSET (0 .. Len(t2))
        BY <3>2, <3>3 DEF RootSettled, Executed, Confirmed
      <3>5. last \in S
        BY <3>3, <3>4, GreatestIs
      <3> QED
        BY <3>3, <3>5
    <2>4. RepairedFis(t2, h.fis) = t2[last].id
      <3> HIDE DEF t2
      <3> QED
        BY <2>3 DEF RepairedFis
    <2> HIDE DEF t2, last
    <2> QED
      BY <2>2, <2>4
  <1> HIDE DEF t2, h2
  <1> QED
    BY <1>5, <1>9, <1>11 DEF h2

----------------------------------------------------------------------------
(* A chain of two *)

(* Just behind the place of a new script nothing follows it.                 *)
LEMMA NewIsLeaf ==
    ASSUME NEW t, Tree(t), NEW pred, NEW chain, Hangs(t, pred, chain),
           NEW p, NEW at, NEW t2, Grown(t, p, at, chain, t2), t[p].id = pred
    PROVE  Len(chain) = 1 =>
           /\ Tree(t2) /\ at \in 1 .. Len(t2) /\ Len(t2) = Len(t) + 1 /\ at \in Nat
           /\ t2[at].id = chain[1].id /\ FindIdx(t2, chain[1].id) = at
           /\ SubtreeEnd(t2, at) = at + 1
           /\ \A j \in 2 .. Len(t2) : t2[j].pred # chain[1].id
  <1> DEFINE b == Parents(t2)
             n == Len(t)
             m == Len(chain)
             S(x) == Shift(x, at, m)
             New == at .. at + m - 1
             c == chain[1]
  <1>1. Tree(t2) /\ t2 \in Seq(Node) /\ Shaped(t2)
    BY GrownTree DEF Tree
  <1>2. /\ n \in Nat /\ n > 0 /\ Len(t2) = n + m
        /\ p \in 1 .. n /\ at \in p + 1 .. n + 1
    BY GrownPlaces
  <1>3. \A i \in 1 .. n + m : i \in New \/ \E x \in 1 .. n : i = S(x)
    BY GrownPlaces
  <1>4. \A x \in 1 .. n, i \in New : ~Under(b, i, S(x))
    BY GrownPlaces
  <1> SUFFICES ASSUME m = 1
               PROVE  /\ Tree(t2) /\ at \in 1 .. Len(t2) /\ Len(t2) = Len(t) + 1 /\ at \in Nat
                      /\ t2[at].id = c.id /\ FindIdx(t2, c.id) = at
                      /\ SubtreeEnd(t2, at) = at + 1
                      /\ \A j \in 2 .. Len(t2) : t2[j].pred # c.id
    OBVIOUS
  <1>5. m = 1
    OBVIOUS
  <1>6. at \in Nat /\ at \in 1 .. n + 1 /\ at \in 2 .. n + 1 /\ at \in New /\ \A i \in New : i = at
    BY <1>5, <1>2
  <1>7. t2[at].id = c.id
    <2>1. LET k == at - at + 1 IN t2[at].id = chain[k].id
      BY <1>6 DEF Grown
    <2>2. at - at + 1 = 1
      BY <1>6
    <2> QED
      BY <1>5, <2>1, <2>2
  <1>8. FindIdx(t2, c.id) = at
    BY <1>5, <1>1, <1>2, <1>6, <1>7, Places
  <1> HIDE DEF New
  <1>9. \A i \in 1 .. n + 1 : i # at => ~Under(b, at, i)
    <2> SUFFICES ASSUME NEW i \in 1 .. n + 1, i # at PROVE ~Under(b, at, i)
      OBVIOUS
    <2>1. PICK x \in 1 .. n : i = S(x)
      BY <1>5, <1>3, <1>6
    <2> QED
      BY <1>4, <1>6, <2>1
  <1>10. SubtreeEnd(t2, at) = at + 1
    <2>1. at \in at .. Len(t2) /\ at \in 1 .. Len(t2)
      BY <1>5, <1>2, <1>6
    <2>2. Preorder(b, Len(t2))
      BY <1>1 DEF Shaped
    <2>3. Under(b, at, at)
      BY <2>1, <2>2, UnderFacts
    <2>4. /\ at < Len(t2) => b[at + 1] \in 1 .. at /\ (Under(b, at, at + 1) <=> at <= b[at + 1])
          /\ at = Len(t2) \/ b[at + 1] < at => SubtreeEnd(t2, at) = at + 1
      BY <1>1, <2>1, <2>3, Onward
    <2>5. at < Len(t2) => ~Under(b, at, at + 1)
      BY <1>5, <1>2, <1>6, <1>9
    <2> QED
      BY <1>5, <1>2, <1>6, <2>4, <2>5
  <1>11. \A j \in 2 .. Len(t2) : t2[j].pred # c.id
    <2> SUFFICES ASSUME NEW j \in 2 .. Len(t2), t2[j].pred = c.id PROVE FALSE
      OBVIOUS
    <2>1. b[j] = at /\ j \in 1 .. n + 1
      BY <1>5, <1>1, <1>2, <1>6, <1>7, Places
    <2>2. Preorder(b, Len(t2))
      BY <1>1 DEF Shaped
    <2>3. Under(b, at, j) /\ at < j
      BY <2>1, <2>2, UnderFacts DEF Preorder
    <2> QED
      BY <1>6, <1>9, <2>1, <2>3
  <1> QED
    BY <1>5, <1>1, <1>2, <1>6, <1>7, <1>8, <1>10, <1>11

(* Two scripts that follow one another may be inserted one after the other.  *)
Follows(h, c1, c2) ==
    /\ Hangs(h.nodes, c1.pred, <<c1, c2>>)
    /\ ~c2.exe

(* Each of them can be inserted alone when its turn comes.                   *)
LEMMA FollowsHang ==
    ASSUME NEW h, Ready(h), NEW c1, NEW c2, Follows(h, c1, c2)
    PROVE  /\ Hangs(h.nodes, c1.pred, <<c1>>)
           /\ Hangs(InsertChain(h, c1.pred, <<c1>>).nodes, c1.id, <<c2>>)
           /\ c2.pred = c1.id
  <1> DEFINE t == h.nodes
             p == FindIdx(t, c1.pred)
             at == InsertionIdx(t, p, Author(c1.id))
             t2 == InsertChain(h, c1.pred, <<c1>>).nodes
             ch == <<c1, c2>>
  <1>1. /\ Len(ch) = 2 /\ ch[1] = c1 /\ ch[2] = c2
        /\ 1 \in 1 .. Len(ch) /\ 2 \in 1 .. Len(ch) /\ 2 \in 2 .. Len(ch)
    OBVIOUS
  <1>2. /\ Len(<<c1>>) = 1 /\ <<c1>>[1] = c1
        /\ Len(<<c2>>) = 1 /\ <<c2>>[1] = c2
    OBVIOUS
  <1>3. Hangs(t, c1.pred, ch)
    BY DEF Follows
  <1> HIDE DEF ch
  <1>4. /\ c1 \in Node /\ c2 \in Node /\ c1.pred \in Ids(t) /\ c2.pred = c1.id
        /\ c1.id \notin Ids(t) /\ ~c1.rej /\ ~c1.bp
        /\ c2.id \notin Ids(t) /\ ~c2.rej /\ ~c2.bp
        /\ c1.id # c2.id
        /\ \A j \in 2 .. Len(t) : t[j].pred = c1.pred => Author(t[j].id) # Author(c1.id)
    <2>1. c1 \in Node /\ c2 \in Node
      BY <1>1, <1>3, NodesType DEF Hangs
    <2>2. c2.pred = c1.id
      <3>1. \A k \in 2 .. Len(ch) : ch[k].pred = ch[k - 1].id
        BY <1>3 DEF Hangs
      <3>2. ch[2].pred = ch[2 - 1].id /\ 2 - 1 = 1
        BY <1>1, <3>1
      <3> QED
        BY <1>1, <3>2
    <2>3. c1.id # c2.id
      <3>1. ch[1].id = ch[2].id => 1 = 2
        BY <1>1, <1>3 DEF Hangs
      <3> QED
        BY <1>1, <3>1
    <2> QED
      BY <1>1, <1>3, <2>1, <2>2, <2>3 DEF Hangs
  <1>5. <<c1>> \in Seq(Node) /\ <<c2>> \in Seq(Node)
    BY <1>4, SingletonArray
  <1>7. Hangs(t, c1.pred, <<c1>>)
    <2> DEFINE s == <<c1>>
    <2>1. s \in Seq(Node) /\ Len(s) = 1 /\ s[1] = c1
      BY <1>2, <1>5
    <2> HIDE DEF s
    <2>2. \A k \in 1 .. Len(s) : k = 1
      BY <2>1
    <2>3. \A k \in 2 .. Len(s) : FALSE
      BY <2>1
    <2>4. Hangs(t, c1.pred, s)
      <3> HIDE DEF t
      <3> QED
        BY <1>4, <2>1, <2>2, <2>3 DEF Hangs
    <2> QED
      BY <2>4 DEF s
  <1>8. h \in History /\ Tree(t)
    BY DEF Ready
  <1>9. Grown(t, p, at, <<c1>>, t2) /\ t[p].id = c1.pred
    BY <1>2, <1>7, <1>8, InsertChainGrows
  <1>10. Ids(t2) = Ids(t) \cup {<<c1>>[k].id : k \in 1 .. Len(<<c1>>)}
    BY <1>7, <1>8, <1>9, GrownIds
  <1>11. Ids(t2) = Ids(t) \cup {c1.id}
    <2>1. {<<c1>>[k].id : k \in 1 .. Len(<<c1>>)} = {c1.id}
      OBVIOUS
    <2> HIDE DEF t2, t
    <2> QED
      BY <1>10, <2>1
  <1>12. \A j \in 2 .. Len(t2) : t2[j].pred # c1.id
    BY <1>2, <1>7, <1>8, <1>9, NewIsLeaf
  <1>13. Hangs(t2, c1.id, <<c2>>)
    <2> DEFINE s == <<c2>>
    <2>1. s \in Seq(Node) /\ Len(s) = 1 /\ s[1] = c2
      BY <1>2, <1>5
    <2> HIDE DEF s
    <2>2. \A k \in 1 .. Len(s) : k = 1
      BY <2>1
    <2>3. \A k \in 2 .. Len(s) : FALSE
      BY <2>1
    <2>4. Hangs(t2, c1.id, s)
      <3> HIDE DEF t, t2
      <3> QED
        BY <1>4, <1>11, <1>12, <2>1, <2>2, <2>3 DEF Hangs
    <2> QED
      BY <2>4 DEF s
  <1> QED
    BY <1>4, <1>7, <1>13

(* Nodes that agree in every field; the node that came from t[i] when a chain was*)
(* inserted behind t[p]; a node of the chain.                                *)
SameNode(m, n) ==
    /\ m.id = n.id /\ m.pred = n.pred /\ m.acks = n.acks /\ m.mis = n.mis /\ m.exe = n.exe
    /\ m.bp <=> n.bp
    /\ m.rej <=> n.rej

OldNode(m, t, p, u, i) ==
    /\ m.id = t[i].id /\ m.pred = t[i].pred /\ m.acks = t[i].acks
    /\ m.mis = t[i].mis /\ m.exe = t[i].exe
    /\ m.bp <=> t[i].bp \/ (i = p /\ BranchHeads(t, p) # {})
    /\ m.rej <=> \/ t[i].rej
                 \/ Wins(t, p, u) /\ i \in DecidingHead(t, p, u) .. SubtreeEnd(t, p) - 1

NewNode(m, c, behind) ==
    /\ m.id = c.id /\ m.pred = c.pred /\ m.acks = c.acks /\ m.mis = c.mis /\ m.exe = c.exe
    /\ m.bp = c.bp
    /\ m.rej <=> ~behind

(* Grown, position by position.                                              *)
LEMMA GrownAt ==
    ASSUME NEW t \in Seq(Node), NEW p, NEW at, NEW chain, NEW t2, Grown(t, p, at, chain, t2)
    PROVE  LET u == Author(chain[1].id)
               n == Len(t)
               c == Len(chain)
           IN  /\ \A i \in 1 .. n : i < at => OldNode(t2[i], t, p, u, i)
               /\ \A i \in 1 .. n : at <= i => OldNode(t2[i + c], t, p, u, i)
               /\ \A i \in at .. at + c - 1 : NewNode(t2[i], chain[i - at + 1], at = n + 1)
  <1> DEFINE u == Author(chain[1].id)
             n == Len(t)
             c == Len(chain)
  <1>1. \A i \in 1 .. n : OldNode(t2[Shift(i, at, c)], t, p, u, i)
    BY DEF Grown, OldNode
  <1>2. \A i \in at .. at + c - 1 : NewNode(t2[i], chain[i - at + 1], at = n + 1)
    BY DEF Grown, NewNode
  <1>3. n \in Nat /\ at \in p + 1 .. n + 1 /\ p \in 1 .. n
    BY NodesType DEF Grown
  <1>4. \A i \in 1 .. n : (i < at => Shift(i, at, c) = i) /\ (at <= i => Shift(i, at, c) = i + c)
    BY <1>3 DEF Shift
  <1> HIDE DEF u, n, c
  <1> QED
    BY <1>1, <1>2, <1>4 DEF u, n, c

(* Inserting a chain of two is inserting one script after the other.         *)
LEMMA ChainSplits ==
    ASSUME NEW h, Ready(h), NEW c1, NEW c2, Follows(h, c1, c2)
    PROVE  InsertChain(InsertChain(h, c1.pred, <<c1>>), c1.id, <<c2>>)
             = InsertChain(h, c1.pred, <<c1, c2>>)
  <1> DEFINE one == <<c1>>
             two == <<c2>>
             ch == <<c1, c2>>
             t == h.nodes
             p == FindIdx(t, c1.pred)
             u == Author(c1.id)
             at == InsertionIdx(t, p, u)
             n == Len(t)
             h1 == InsertChain(h, c1.pred, one)
             t2 == h1.nodes
             h2 == InsertChain(h1, c1.id, two)
             T == h2.nodes
             h3 == InsertChain(h, c1.pred, ch)
             T3 == h3.nodes
  <1>1. /\ Len(one) = 1 /\ one[1] = c1 /\ Len(two) = 1 /\ two[1] = c2
        /\ Len(ch) = 2 /\ ch[1] = c1 /\ ch[2] = c2
    OBVIOUS
  <1>2. /\ Hangs(t, c1.pred, ch) /\ Hangs(t, c1.pred, one) /\ Hangs(t2, c1.id, two)
        /\ ~c2.exe
    BY FollowsHang DEF Follows
  <1> HIDE DEF one, two, ch
  <1>3. h \in History /\ Tree(t) /\ t \in Seq(Node)
    BY DEF Ready, Tree
  <1>4. Ready(h1) /\ h1 \in History /\ Tree(t2) /\ t2 \in Seq(Node)
    BY <1>2, InsertReady DEF Ready, Tree
  <1>5. /\ Grown(t, p, at, one, t2) /\ t[p].id = c1.pred
        /\ h1.fis = IF at = n + 1 /\ Wins(t, p, u) THEN RepairedFis(t2, h.fis) ELSE h.fis
    BY <1>1, <1>2, <1>3, InsertChainGrows
  <1>6. /\ Grown(t, p, at, ch, T3)
        /\ h3.fis = IF at = n + 1 /\ Wins(t, p, u) THEN RepairedFis(T3, h.fis) ELSE h.fis
    BY <1>1, <1>2, <1>3, InsertChainGrows
  <1>7. h2 \in History /\ h3 \in History /\ T \in Seq(Node) /\ T3 \in Seq(Node)
    <2>1. Ready(h2) /\ Ready(h3)
      BY <1>2, <1>4, InsertReady
    <2> QED
      BY <2>1 DEF Ready, Tree
  <1>8. n \in Nat /\ p \in 1 .. n /\ at \in p + 1 .. n + 1 /\ Len(t2) = n + 1 /\ Len(T3) = n + 2
    BY <1>1, <1>3, <1>5, <1>6, NodesType DEF Grown
  <1>9. at \in Nat /\ at \in 1 .. n + 1
    BY <1>8
  <1>10. FindIdx(t2, c1.id) = at /\ SubtreeEnd(t2, at) = at + 1 /\ at \in 1 .. Len(t2)
    BY <1>1, <1>2, <1>3, <1>5, NewIsLeaf
  <1> DEFINE u2 == Author(c2.id)
  <1>11. /\ BranchHeads(t2, at) = {} /\ ~Wins(t2, at, u2) /\ InsertionIdx(t2, at, u2) = at + 1
    BY <1>4, <1>10, LeafParent
  <1>12. Grown(t2, at, at + 1, two, T) /\ h2.fis = h1.fis
    <2>1. LET q == FindIdx(t2, c1.id)
              at2 == InsertionIdx(t2, q, Author(two[1].id))
          IN  /\ Grown(t2, q, at2, two, T)
              /\ h2.fis = IF at2 = Len(t2) + 1 /\ Wins(t2, q, Author(two[1].id))
                            THEN RepairedFis(T, h1.fis) ELSE h1.fis
      <3> HIDE DEF h2, h1, t2
      <3> QED
        BY <1>2, <1>4, InsertChainGrows DEF h2, T, t2
    <2> HIDE DEF T, h2, h1, t2
    <2> QED
      BY <1>1, <1>10, <1>11, <2>1
  <1>13. Len(T) = n + 2
    BY <1>1, <1>8, <1>12 DEF Grown
  <1> HIDE DEF h1, t2, h2, T, h3, T3, t, p, at, n
  <1>14. /\ \A i \in 1 .. n : i < at => OldNode(T3[i], t, p, u, i)
         /\ \A i \in 1 .. n : at <= i => OldNode(T3[i + 2], t, p, u, i)
         /\ NewNode(T3[at], c1, at = n + 1) /\ NewNode(T3[at + 1], c2, at = n + 1)
    <2>1. /\ \A i \in 1 .. n : i < at => OldNode(T3[i], t, p, u, i)
          /\ \A i \in 1 .. n : at <= i => OldNode(T3[i + 2], t, p, u, i)
          /\ \A i \in at .. at + 2 - 1 : NewNode(T3[i], ch[i - at + 1], at = n + 1)
      <3>1. LET v == Author(ch[1].id)
                c == Len(ch)
            IN  /\ \A i \in 1 .. Len(t) : i < at => OldNode(T3[i], t, p, v, i)
                /\ \A i \in 1 .. Len(t) : at <= i => OldNode(T3[i + c], t, p, v, i)
                /\ \A i \in at .. at + c - 1 : NewNode(T3[i], ch[i - at + 1], at = Len(t) + 1)
        BY <1>3, <1>6, GrownAt
      <3> QED
        BY <1>1, <1>8, <3>1 DEF n
    <2>2. at \in at .. at + 2 - 1 /\ at + 1 \in at .. at + 2 - 1 /\ at - at + 1 = 1
          /\ (at + 1) - at + 1 = 2
      BY <1>9
    <2>3. /\ NewNode(T3[at], ch[at - at + 1], at = n + 1)
          /\ NewNode(T3[at + 1], ch[(at + 1) - at + 1], at = n + 1)
      BY <2>1, <2>2
    <2> QED
      BY <1>1, <2>1, <2>2, <2>3
  <1>15. /\ \A i \in 1 .. n : i < at => OldNode(t2[i], t, p, u, i)
         /\ \A i \in 1 .. n : at <= i => OldNode(t2[i + 1], t, p, u, i)
         /\ NewNode(t2[at], c1, at = n + 1)
    <2>1. /\ \A i \in 1 .. n : i < at => OldNode(t2[i], t, p, u, i)
          /\ \A i \in 1 .. n : at <= i => OldNode(t2[i + 1], t, p, u, i)
          /\ \A i \in at .. at + 1 - 1 : NewNode(t2[i], one[i - at + 1], at = n + 1)
      <3>1. LET v == Author(one[1].id)
                c == Len(one)
            IN  /\ \A i \in 1 .. Len(t) : i < at => OldNode(t2[i], t, p, v, i)
                /\ \A i \in 1 .. Len(t) : at <= i => OldNode(t2[i + c], t, p, v, i)
                /\ \A i \in at .. at + c - 1 : NewNode(t2[i], one[i - at + 1], at = Len(t) + 1)
        BY <1>3, <1>5, GrownAt
      <3> QED
        BY <1>1, <1>8, <3>1 DEF n
    <2>2. at \in at .. at + 1 - 1 /\ at - at + 1 = 1
      BY <1>9
    <2>3. NewNode(t2[at], one[at - at + 1], at = n + 1)
      BY <2>1, <2>2
    <2> QED
      BY <1>1, <2>1, <2>2, <2>3
  <1>16. /\ \A i \in 1 .. n + 1 : i < at + 1 => SameNode(T[i], t2[i])
         /\ \A i \in 1 .. n + 1 : at + 1 <= i => SameNode(T[i + 1], t2[i])
         /\ NewNode(T[at + 1], c2, at = n + 1)
    <2>1. /\ \A i \in 1 .. n + 1 : i < at + 1 => OldNode(T[i], t2, at, u2, i)
          /\ \A i \in 1 .. n + 1 : at + 1 <= i => OldNode(T[i + 1], t2, at, u2, i)
          /\ \A i \in at + 1 .. (at + 1) + 1 - 1 : NewNode(T[i], two[i - (at + 1) + 1], at + 1 = (n + 1) + 1)
      <3>1. LET v == Author(two[1].id)
                c == Len(two)
            IN  /\ \A i \in 1 .. Len(t2) : i < (at + 1) => OldNode(T[i], t2, at, v, i)
                /\ \A i \in 1 .. Len(t2) : (at + 1) <= i => OldNode(T[i + c], t2, at, v, i)
                /\ \A i \in (at + 1) .. (at + 1) + c - 1 :
                      NewNode(T[i], two[i - (at + 1) + 1], at + 1 = Len(t2) + 1)
        BY <1>4, <1>12, GrownAt
      <3> QED
        BY <1>1, <1>8, <3>1 DEF u2
    <2>2. at + 1 \in at + 1 .. (at + 1) + 1 - 1 /\ (at + 1) - (at + 1) + 1 = 1
          /\ (at + 1 = (n + 1) + 1 <=> at = n + 1)
      BY <1>8, <1>9
    <2>3. NewNode(T[at + 1], two[(at + 1) - (at + 1) + 1], at + 1 = (n + 1) + 1)
      BY <2>1, <2>2
    <2>4. NewNode(T[at + 1], c2, at = n + 1)
      BY <1>1, <2>2, <2>3 DEF NewNode
    <2>5. \A i, m : OldNode(m, t2, at, u2, i) => SameNode(m, t2[i])
      BY <1>11 DEF OldNode, SameNode
    <2> QED
      BY <2>1, <2>4, <2>5
  <1>17. ASSUME NEW i \in 1 .. n + 2 PROVE SameNode(T3[i], T[i])
    <2>1. CASE i < at
      <3>1. i \in 1 .. n /\ i \in 1 .. n + 1 /\ i < at + 1
        BY <1>8, <1>9, <2>1
      <3> QED
        BY <1>14, <1>15, <1>16, <2>1, <3>1 DEF OldNode, SameNode
    <2>2. CASE i = at
      <3>1. i \in 1 .. n + 1 /\ i < at + 1
        BY <1>8, <1>9, <2>2
      <3>2. SameNode(T[at], t2[at])
        BY <1>16, <2>2, <3>1
      <3> QED
        BY <1>14, <1>15, <2>2, <3>2 DEF NewNode, SameNode
    <2>3. CASE i = at + 1
      BY <1>14, <1>16, <2>3 DEF NewNode, SameNode
    <2>4. CASE i > at + 1
      <3> DEFINE k == i - 2
      <3>1. k \in 1 .. n /\ at <= k /\ k + 2 = i /\ k + 1 \in 1 .. n + 1 /\ at + 1 <= k + 1
            /\ (k + 1) + 1 = i
        BY <1>8, <1>9, <2>4
      <3> HIDE DEF k
      <3>2. OldNode(T3[i], t, p, u, k) /\ OldNode(t2[k + 1], t, p, u, k)
        BY <1>14, <1>15, <3>1
      <3>3. SameNode(T[i], t2[k + 1])
        BY <1>16, <3>1
      <3> QED
        BY <3>2, <3>3 DEF OldNode, SameNode
    <2> QED
      BY <1>8, <1>9, <2>1, <2>2, <2>3, <2>4
  <1>18. T3 = T
    <2>1. Len(T3) = Len(T) /\ \A i \in 1 .. Len(T) : SameNode(T3[i], T[i])
      BY <1>8, <1>13, <1>17
    <2> QED
      BY <1>7, <2>1, NodesEqual DEF SameNode
  <1>19. ASSUME at = n + 1 PROVE RepairedFis(T3, h.fis) = RepairedFis(t2, h.fis)
    <2> DEFINE S3 == {j \in DOMAIN T3 : Executed(T3[j]) /\ Confirmed(T3[j])}
               S2 == {j \in DOMAIN t2 : Executed(t2[j]) /\ Confirmed(t2[j])}
    <2>1. DOMAIN T3 = 1 .. n + 2 /\ DOMAIN t2 = 1 .. n + 1
      BY <1>4, <1>7, <1>8, NodesType
    <2>2. \A j \in 1 .. n + 1 : SameNode(T3[j], t2[j])
      <3> SUFFICES ASSUME NEW j \in 1 .. n + 1 PROVE SameNode(T3[j], t2[j])
        OBVIOUS
      <3>1. j \in 1 .. n + 2 /\ j < at + 1
        BY <1>8, <1>19
      <3> QED
        BY <1>16, <1>18, <3>1
    <2>3. ~Executed(T3[n + 2])
      <3>1. n + 2 = at + 1
        BY <1>8, <1>19
      <3> QED
        BY <1>2, <1>14, <3>1 DEF NewNode, Executed
    <2>4. \A j : j \in S3 <=> j \in S2
      <3>1. \A j : j \in 1 .. n + 2 <=> j \in 1 .. n + 1 \/ j = n + 2
        BY <1>8
      <3>2. n + 2 \notin 1 .. n + 1
        BY <1>8
      <3>3. \A j \in 1 .. n + 1 : Executed(T3[j]) /\ Confirmed(T3[j]) <=> Executed(t2[j]) /\ Confirmed(t2[j])
        BY <2>2 DEF SameNode, Executed, Confirmed
      <3> QED
        BY <2>1, <2>3, <3>1, <3>2, <3>3
    <2>5. S3 = S2
      BY <2>4
    <2> DEFINE i == Greatest(S2, 0)
    <2>6. i # 0 => i \in 1 .. n + 1
      <3>1. S2 \in SUBSET (0 .. n + 1) /\ S2 \subseteq 1 .. n + 1 /\ n + 1 \in Nat
        BY <1>8, <2>1
      <3> HIDE DEF S2
      <3> QED
        BY <3>1, GreatestIs
    <2>7. i # 0 => T3[i].id = t2[i].id
      BY <2>2, <2>6 DEF SameNode
    <2>8. RepairedFis(T3, h.fis) = IF Greatest(S3, 0) = 0 THEN h.fis ELSE T3[Greatest(S3, 0)].id
      BY DEF RepairedFis
    <2>9. RepairedFis(t2, h.fis) = IF i = 0 THEN h.fis ELSE t2[i].id
      BY DEF RepairedFis
    <2> HIDE DEF S2, S3
    <2> QED
      BY <2>5, <2>7, <2>8, <2>9
  <1>20. h3.fis = h2.fis
    BY <1>5, <1>6, <1>12, <1>19
  <1>21. h2 = h3
    <2>1. h2.nodes = h3.nodes
      BY <1>18 DEF T, T3
    <2> QED
      BY <1>7, <1>20, <2>1 DEF History
  <1> QED
    BY <1>21 DEF h2, h3, h1, one, two, ch

----------------------------------------------------------------------------
(* The chains there are *)

(* A script that a new one may follow is listed, and no script of the same  *)
(* author follows it.                                                       *)
LEMMA Attached ==
    ASSUME NEW h, Ready(h), NEW id \in Script, NEW pred \in Abstract!Attachable(h, id)
    PROVE  /\ pred \in Gid /\ pred \in Ids(h.nodes)
           /\ \A j \in 2 .. Len(h.nodes) : h.nodes[j].pred = pred => Author(h.nodes[j].id) # Author(id)
  <1> DEFINE t == h.nodes
  <1>1. Tree(t) /\ t \in Seq(Node) /\ Shaped(t)
    BY DEF Ready, Tree
  <1>2. PICK i \in DOMAIN t :
          /\ pred = t[i].id
          /\ \A j \in BranchHeads(t, i) : Author(t[j].id) # Author(id)
    BY SameBranches DEF Abstract!Attachable, Abstract!Author, Author
  <1>3. i \in 1 .. Len(t)
    BY <1>1, <1>2, Places
  <1>4. t[i].id \in Gid /\ t[i].id \in Ids(t)
    BY <1>1, <1>3, Places, IdListed
  <1>5. ASSUME NEW j \in 2 .. Len(t), t[j].pred = pred
        PROVE  j \in BranchHeads(t, i)
    <2>1. t[i].id = t[j].pred
      BY <1>2, <1>5
    <2>2. i = Parents(t)[j]
      BY <1>1, <1>3, <2>1, Places
    <2> QED
      BY <1>1, <1>3, <2>2, HeadsOf
  <1> QED
    BY <1>2, <1>4, <1>5

(* The two kinds of chains.                                                  *)
LEMMA ChainKinds ==
    ASSUME NEW h, NEW chain \in Abstract!Chains(h)
    PROVE  \/ \E id \in Script \ Ids(h.nodes), exe \in BOOLEAN :
                \E pred \in Abstract!Attachable(h, id) :
                   chain = <<ScriptNode(id, pred, IF exe THEN {} ELSE {Author(id)}, exe)>>
           \/ \E ids \in (Script \ Ids(h.nodes)) \X (Script \ Ids(h.nodes)) :
                \E pred \in Abstract!Attachable(h, ids[1]) :
                   ids[1] # ids[2] /\ chain = MissingChain(pred, ids)
  <1>1. Abstract!NewIds(h) = Script \ Ids(h.nodes)
    BY DEF Abstract!NewIds, Abstract!Script, Abstract!Ids, Script, Ids
  <1>2. \A pred, ids : Abstract!MissingChain(pred, ids) = MissingChain(pred, ids)
    BY DEF Abstract!MissingChain, MissingChain, Abstract!MissingNode, MissingNode,
           Abstract!ScriptNode, ScriptNode, Abstract!Author, Author
  <1>3. \A id, pred, exe : Abstract!Single(id, pred, exe)
                             = <<ScriptNode(id, pred, IF exe THEN {} ELSE {Author(id)}, exe)>>
    BY DEF Abstract!Single, Abstract!ScriptNode, ScriptNode, Abstract!Author, Author
  <1>4. CASE chain \in Abstract!Singles(h)
    BY <1>1, <1>3, <1>4 DEF Abstract!Singles
  <1>5. CASE chain \in Abstract!MissingPairs(h)
    BY <1>1, <1>2, <1>5 DEF Abstract!MissingPairs
  <1> QED
    BY <1>4, <1>5 DEF Abstract!Chains

(* A chain is one script that hangs on the tree, or two.                     *)
LEMMA ChainOf ==
    ASSUME NEW h, Ready(h), NEW chain \in Abstract!Chains(h)
    PROVE  \/ Len(chain) = 1 /\ chain = <<chain[1]>> /\ Alone(h, chain[1])
           \/ Len(chain) = 2 /\ chain = <<chain[1], chain[2]>> /\ Follows(h, chain[1], chain[2])
  <1> DEFINE t == h.nodes
  <1>0. \A id \in Script : id \in Gid /\ Author(id) \in User
    BY GidType DEF Gid
  <1>1. ASSUME NEW id \in Script \ Ids(t), NEW exe \in BOOLEAN,
               NEW pred \in Abstract!Attachable(h, id),
               chain = <<ScriptNode(id, pred, IF exe THEN {} ELSE {Author(id)}, exe)>>
        PROVE  Len(chain) = 1 /\ chain = <<chain[1]>> /\ Alone(h, chain[1])
    <2> DEFINE acks == IF exe THEN {} ELSE {Author(id)}
               n == ScriptNode(id, pred, acks, exe)
    <2>1. /\ pred \in Gid /\ pred \in Ids(t)
          /\ \A j \in 2 .. Len(t) : t[j].pred = pred => Author(t[j].id) # Author(id)
      BY Attached
    <2>2. acks \in SUBSET User
      BY <1>0
    <2>3. n \in Node
      <3> HIDE DEF acks
      <3> QED
        BY <1>0, <2>1, <2>2, ScriptNodeType
    <2>4. n.id = id /\ n.pred = pred /\ ~n.rej /\ ~n.bp
      BY DEF ScriptNode
    <2> HIDE DEF n, acks
    <2>5. chain = <<n>>
      BY <1>1 DEF n, acks
    <2>6. Hangs(t, n.pred, <<n>>)
      <3>1. <<n>> \in Seq(Node) /\ Len(<<n>>) = 1 /\ <<n>>[1] = n
        BY <2>3
      <3> DEFINE s == <<n>>
      <3> HIDE DEF s
      <3>2. s \in Seq(Node) /\ Len(s) = 1 /\ s[1] = n
        BY <3>1 DEF s
      <3>3. 2 .. Len(s) = {} /\ \A k \in 1 .. Len(s) : k = 1
        BY <3>2
      <3>4. Hangs(t, n.pred, s)
        BY <2>1, <2>4, <3>2, <3>3 DEF Hangs
      <3> QED
        BY <3>4 DEF s
    <2>7. Len(chain) = 1 /\ chain[1] = n
      BY <2>5
    <2> QED
      BY <2>5, <2>6, <2>7 DEF Alone
  <1>2. ASSUME NEW ids \in (Script \ Ids(t)) \X (Script \ Ids(t)),
               NEW pred \in Abstract!Attachable(h, ids[1]), ids[1] # ids[2],
               chain = MissingChain(pred, ids)
        PROVE  Len(chain) = 2 /\ chain = <<chain[1], chain[2]>> /\ Follows(h, chain[1], chain[2])
    <2>1. ids[1] \in Script \ Ids(t) /\ ids[2] \in Script \ Ids(t) /\ Len(ids) = 2
      OBVIOUS
    <2>2. /\ pred \in Gid /\ pred \in Ids(t)
          /\ \A j \in 2 .. Len(t) : t[j].pred = pred => Author(t[j].id) # Author(ids[1])
      BY <2>1, Attached
    <2> DEFINE m == MissingNode(ids[1], pred)
               n == MissingNode(ids[2], ids[1])
               s == <<m, n>>
    <2>3. m \in Node /\ n \in Node
      BY <1>0, <2>1, <2>2, MissingNodeType
    <2>4. /\ m.id = ids[1] /\ m.pred = pred /\ ~m.rej /\ ~m.bp
          /\ n.id = ids[2] /\ n.pred = ids[1] /\ ~n.rej /\ ~n.bp /\ ~n.exe
      BY MissingNodeFields
    <2> HIDE DEF m, n
    <2>5. s \in Seq(Node) /\ Len(s) = 2 /\ s[1] = m /\ s[2] = n
      BY <2>3
    <2>6. chain = s
      <3>1. chain = [i \in 1 .. 2 |-> IF i = 1 THEN m ELSE n]
        <4>1. \A i \in 1 .. 2 : MissingNode(ids[i], IF i = 1 THEN pred ELSE ids[i - 1])
                                  = IF i = 1 THEN m ELSE n
          <5>1. 2 - 1 = 1 /\ \A i \in 1 .. 2 : i = 1 \/ i = 2
            OBVIOUS
          <5> QED
            BY <5>1 DEF m, n
        <4> QED
          BY <1>2, <2>1, <4>1 DEF MissingChain
      <3> QED
        BY <3>1
    <2> HIDE DEF s
    <2>7. Hangs(t, m.pred, s)
      <3>1. \A k \in 1 .. Len(s) : k = 1 \/ k = 2
        BY <2>5
      <3>2. \A k \in 2 .. Len(s) : k = 2 /\ k - 1 = 1
        BY <2>5
      <3>3. \A k \in 2 .. Len(s) : s[k].pred = s[k - 1].id
        BY <2>4, <2>5, <3>2
      <3>4. \A k \in 1 .. Len(s) : s[k].id \notin Ids(t) /\ ~s[k].rej /\ ~s[k].bp
        BY <2>1, <2>4, <2>5, <3>1
      <3>5. \A k, l \in 1 .. Len(s) : s[k].id = s[l].id => k = l
        BY <1>2, <2>4, <2>5, <3>1
      <3> QED
        BY <2>2, <2>4, <2>5, <3>3, <3>4, <3>5 DEF Hangs
    <2>8. Follows(h, m, n)
      BY <2>4, <2>7 DEF Follows, s
    <2>9. chain[1] = m /\ chain[2] = n /\ Len(chain) = 2
      BY <2>5, <2>6
    <2> QED
      BY <2>6, <2>8, <2>9 DEF s
  <1>3. CASE \E id \in Script \ Ids(t), exe \in BOOLEAN :
                \E pred \in Abstract!Attachable(h, id) :
                   chain = <<ScriptNode(id, pred, IF exe THEN {} ELSE {Author(id)}, exe)>>
    BY <1>1, <1>3
  <1>4. CASE \E ids \in (Script \ Ids(t)) \X (Script \ Ids(t)) :
                \E pred \in Abstract!Attachable(h, ids[1]) :
                   ids[1] # ids[2] /\ chain = MissingChain(pred, ids)
    BY <1>2, <1>4
  <1> QED
    BY <1>3, <1>4, ChainKinds

----------------------------------------------------------------------------
(* Starting and ending *)

(* The history every member starts from.                                     *)
LEMMA RootReady == Ready(Abstract!InsertedHistory)
  <1> DEFINE t == <<ScriptNode(Root, NoId, {}, TRUE)>>
             h == [nodes |-> t, fis |-> Root]
  <1>1. Abstract!InsertedHistory = h
    BY DEF Abstract!InsertedHistory, Abstract!ScriptNode, ScriptNode, Abstract!Root, Root,
           Abstract!NoId, NoId
  <1>2. h \in History /\ Tree(t) /\ RootSettled(t)
    BY RootAlone
  <1>3. h.nodes = t
    OBVIOUS
  <1> HIDE DEF t, h
  <1> QED
    BY <1>1, <1>2, <1>3 DEF Ready

(* The invariant holds at first.                                             *)
LEMMA InitHolds == Init => InsertionInv
  <1> SUFFICES ASSUME Init PROVE InsertionInv
    OBVIOUS
  <1>1. [nodes |-> nodes, fis |-> fis] = Abstract!InsertedHistory /\ pos = 0 /\ ~walking
    BY DEF Init, Abstract!InsertedHistory, Abstract!Root, Root
  <1> QED
    BY <1>1, RootReady DEF InsertionInv, Resting

(* A script that can be inserted has its predecessor's place.                *)
LEMMA ParentPlace ==
    ASSUME NEW h, Ready(h), NEW n, Alone(h, n)
    PROVE  FindIdx(h.nodes, n.pred) \in 1 .. Len(h.nodes) /\ Len(h.nodes) \in Nat
  <1>1. n.pred \in Ids(h.nodes)
    BY DEF Alone, Hangs
  <1>2. h.nodes \in Seq(Node)
    BY DEF Ready, Tree
  <1>3. FindIdx(h.nodes, n.pred) \in 0 .. Len(h.nodes) /\ FindIdx(h.nodes, n.pred) # 0
    BY <1>1, <1>2, FindIdxType
  <1> QED
    BY <1>2, <1>3

(* The walk for a script starts at its predecessor.                          *)
LEMMA WalkStarts ==
    ASSUME NEW h, Ready(h), NEW n, Alone(h, n), nodes' = h.nodes, fis' = h.fis,
           pos' = FindIdx(nodes', n.pred), walking', gatherer' = NewGatherer
    PROVE  Inserting(h, n)' /\ pos' # 0
  <1>1. FindIdx(h.nodes, n.pred) \in 1 .. Len(h.nodes)
    BY ParentPlace
  <1>2. AtParent(h.nodes, FindIdx(h.nodes, n.pred))'
    BY DEF AtParent, NewGatherer
  <1> QED
    BY <1>1, <1>2 DEF Inserting, Walk

(* A step of the walk goes on with it.                                       *)
LEMMA WalkGoesOn ==
    ASSUME NEW h, NEW n, Inserting(h, n), todo[1] = n, WalkAction
    PROVE  Inserting(h, n)' /\ pos' # 0 /\ UNCHANGED <<fis, todo, before>>
  <1> DEFINE t == h.nodes
             p == FindIdx(t, n.pred)
             u == Author(n.id)
  <1>1. Ready(h) /\ Alone(h, n) /\ fis = h.fis /\ Walk(t, p, u)
    BY DEF Inserting
  <1>2. Tree(t) /\ p \in 1 .. Len(t) /\ u = Author(todo[1].id)
    BY <1>1, ParentPlace DEF Ready
  <1> HIDE DEF p, u
  <1>3. Goes(t, p, u)
    BY <1>1, <1>2, WalkStep
  <1>4. UNCHANGED <<fis, todo, before>> /\ pos' \in Nat \ {0} /\ Walk(t, p, u)'
    BY <1>3 DEF Goes
  <1> QED
    BY <1>1, <1>4 DEF Inserting, p, u

(* The walk ends with the script in its place.                               *)
LEMMA WalkEnds ==
    ASSUME NEW h, NEW n, Inserting(h, n), todo[1] = n, Place
    PROVE  LET h1 == InsertChain(h, n.pred, <<n>>)
           IN  [nodes |-> nodes', fis |-> fis'] = h1 /\ Ready(h1)
  <1>1. Ready(h) /\ Alone(h, n) /\ fis = h.fis /\ ~walking
    BY DEF Inserting, Place
  <1>2. Stopped(h.nodes, FindIdx(h.nodes, n.pred), Author(n.id))
    BY <1>1 DEF Inserting, Walk, AtParent, AtSibling, InLostBranch, OnOldTrunk
  <1>3. Hangs(h.nodes, n.pred, <<n>>)
    BY <1>1 DEF Alone
  <1> QED
    BY <1>1, <1>2, <1>3, PlacedIsInserted, InsertReady

----------------------------------------------------------------------------
(* The insertion as a whole *)

(* The history of the abstract specification, and what its steps do.         *)
Shown == IF pos = 0 THEN [nodes |-> nodes, fis |-> fis] ELSE before

Grows(h, h1) == \E chain \in Abstract!Chains(h) : h1 = InsertChain(h, chain[1].pred, chain)

Moves(h, h1) == \E id \in Abstract!Settled(h) : h1 = [h EXCEPT !.fis = id]

Progress == Shown' = Shown \/ Grows(Shown, Shown') \/ Moves(Shown, Shown')

(* Begin starts the walk and shows nothing.                                  *)
LEMMA BeginStep ==
    ASSUME InsertionInv, NEW chain \in Abstract!Chains([nodes |-> nodes, fis |-> fis]), Begin(chain)
    PROVE  InsertionInv' /\ Progress
  <1> DEFINE b == [nodes |-> nodes, fis |-> fis]
  <1>1. pos = 0 /\ Ready(b)
    BY DEF Begin, InsertionInv, Resting
  <1>2. PICK h : h = b
    OBVIOUS
  <1>3. h.nodes = nodes /\ h.fis = fis
    BY <1>2
  <1>4. Ready(h) /\ chain \in Abstract!Chains(h)
    BY <1>1, <1>2
  <1> HIDE DEF b
  <1>5. Alone(h, chain[1])
    BY <1>4, ChainOf, FollowsHang DEF Follows, Alone
  <1>6. /\ nodes' = h.nodes /\ fis' = h.fis /\ pos' = FindIdx(nodes', chain[1].pred)
        /\ walking' /\ gatherer' = NewGatherer /\ todo' = chain
    BY <1>3 DEF Begin
  <1>7. before' = h
    BY <1>2 DEF Begin, b
  <1>8. Inserting(h, chain[1])' /\ pos' # 0
    BY <1>4, <1>5, <1>6, WalkStarts
  <1>9. AtFirst(chain)'
    BY <1>6, <1>7, <1>8 DEF AtFirst
  <1>10. UnderWay'
    BY <1>4, <1>7, <1>9 DEF UnderWay
  <1>11. Shown' = Shown
    BY <1>1, <1>2, <1>7, <1>8 DEF Shown, b
  <1> QED
    BY <1>8, <1>10, <1>11 DEF InsertionInv, Progress

(* SettleFis moves the marker.                                               *)
LEMMA SettleStep ==
    ASSUME InsertionInv, SettleFis
    PROVE  InsertionInv' /\ Progress
  <1> DEFINE b == [nodes |-> nodes, fis |-> fis]
             c == [nodes |-> nodes, fis |-> fis']
  <1>1. pos = 0 /\ pos' = 0 /\ nodes' = nodes /\ Ready(b) /\ ~walking'
    BY DEF SettleFis, InsertionInv, Resting
  <1>2. PICK id \in Abstract!Settled(b) : fis' = id
    BY DEF SettleFis
  <1>3. c = [b EXCEPT !.fis = id]
    BY <1>2
  <1>4. fis' \in Gid
    <2>1. nodes \in Seq(Node)
      BY <1>1 DEF Ready, Tree
    <2>2. \E i \in DOMAIN nodes : id = nodes[i].id
      BY <1>2 DEF Abstract!Settled
    <2> QED
      BY <1>2, <2>1, <2>2, NodesType
  <1>5. Ready(c)
    BY <1>1, <1>4 DEF Ready, History
  <1>6. Shown = b /\ Shown' = c
    BY <1>1 DEF Shown
  <1>7. Moves(Shown, Shown')
    BY <1>2, <1>3, <1>6 DEF Moves
  <1> QED
    BY <1>1, <1>5, <1>7 DEF InsertionInv, Resting, Progress

(* The walk shows nothing.                                                   *)
LEMMA WalkingStep ==
    ASSUME InsertionInv, WalkAction
    PROVE  InsertionInv' /\ Progress
  <1>1. walking
    BY DEF WalkAction, KeepSkipping, KeepRejecting, ProcessParent, NewScriptLoses,
           BranchAlreadyLost, NewScriptWins, AtBranchHead
  <1>2. pos # 0 /\ UnderWay
    BY <1>1 DEF InsertionInv, Resting
  <1>3. PICK b : b = before
    OBVIOUS
  <1>4. PICK chain \in Abstract!Chains(b) : AtFirst(chain) \/ AtSecond(chain)
    BY <1>2, <1>3 DEF UnderWay
  <1>5. Ready(b)
    BY <1>2, <1>3 DEF UnderWay
  <1>6. CASE AtFirst(chain)
    <2>1. todo = chain /\ todo[1] = chain[1] /\ Inserting(b, chain[1])
      BY <1>3, <1>6 DEF AtFirst
    <2>2. Inserting(b, chain[1])' /\ pos' # 0 /\ UNCHANGED <<fis, todo, before>>
      BY <2>1, WalkGoesOn
    <2>3. before' = b
      BY <1>3, <2>2
    <2>4. AtFirst(chain)'
      BY <2>1, <2>2, <2>3 DEF AtFirst
    <2> QED
      BY <1>2, <1>3, <1>4, <1>5, <2>2, <2>3, <2>4 DEF UnderWay, InsertionInv, Progress, Shown
  <1>7. CASE AtSecond(chain)
    <2>1. PICK h : h = InsertChain(b, chain[1].pred, <<chain[1]>>)
      OBVIOUS
    <2>2. Len(chain) = 2 /\ todo = <<chain[2]>> /\ Inserting(h, chain[2])
      BY <1>3, <1>7, <2>1 DEF AtSecond
    <2>3. todo[1] = chain[2]
      BY <2>2
    <2>4. Inserting(h, chain[2])' /\ pos' # 0 /\ UNCHANGED <<fis, todo, before>>
      BY <2>2, <2>3, WalkGoesOn
    <2>5. before' = b
      BY <1>3, <2>4
    <2>6. AtSecond(chain)'
      BY <2>1, <2>2, <2>4, <2>5 DEF AtSecond
    <2> QED
      BY <1>2, <1>3, <1>4, <1>5, <2>4, <2>5, <2>6 DEF UnderWay, InsertionInv, Progress, Shown
  <1> QED
    BY <1>4, <1>6, <1>7

(* Placing the last script of a chain shows the insertion.                   *)
LEMMA PlaceStep ==
    ASSUME InsertionInv, Place
    PROVE  InsertionInv' /\ Progress
  <1>1. pos # 0 /\ before' = before /\ todo' = Tail(todo) /\ gatherer' = NewGatherer
    BY DEF Place
  <1>2. /\ Len(todo) = 1 => pos' = 0
        /\ Len(todo) # 1 => pos' = FindIdx(nodes', todo[2].pred)
        /\ walking' <=> Len(todo) > 1
    BY DEF Place
  <1>3. UnderWay
    BY <1>1 DEF InsertionInv
  <1>4. PICK b : b = before
    OBVIOUS
  <1>5. PICK chain \in Abstract!Chains(b) : AtFirst(chain) \/ AtSecond(chain)
    BY <1>3, <1>4 DEF UnderWay
  <1>6. Ready(b) /\ Shown = b /\ before' = b
    BY <1>1, <1>3, <1>4 DEF UnderWay, Shown
  <1> DEFINE c1 == chain[1]
             c2 == chain[2]
             h1 == InsertChain(b, c1.pred, <<c1>>)
             now == [nodes |-> nodes', fis |-> fis']
  <1>7. \/ Len(chain) = 1 /\ chain = <<c1>> /\ Alone(b, c1)
        \/ Len(chain) = 2 /\ chain = <<c1, c2>> /\ Follows(b, c1, c2)
    BY <1>5, <1>6, ChainOf
  <1> HIDE DEF c1, c2
  <1>8. ASSUME NEW h, now = h, Ready(h), h = InsertChain(b, chain[1].pred, chain), Len(todo) = 1
        PROVE  InsertionInv' /\ Progress
    <2>1. pos' = 0 /\ ~walking'
      BY <1>2, <1>8
    <2>2. Resting'
      BY <1>8, <2>1 DEF Resting
    <2>3. Shown' = h
      BY <1>8, <2>1 DEF Shown
    <2>4. Grows(Shown, Shown')
      BY <1>5, <1>6, <1>8, <2>3 DEF Grows
    <2> QED
      BY <2>1, <2>2, <2>4 DEF InsertionInv, Progress
  <1>9. CASE AtFirst(chain) /\ Len(chain) = 1
    <2>1. todo = chain /\ todo[1] = c1 /\ Inserting(b, c1)
      BY <1>4, <1>9 DEF AtFirst, c1
    <2>2. now = h1 /\ Ready(h1)
      BY <2>1, WalkEnds
    <2>3. chain = <<c1>>
      BY <1>7, <1>9
    <2>4. h1 = InsertChain(b, chain[1].pred, chain)
      BY <2>3 DEF c1
    <2> HIDE DEF h1, now
    <2> QED
      BY <1>8, <1>9, <2>1, <2>2, <2>4
  <1>10. CASE AtFirst(chain) /\ Len(chain) = 2
    <2>1. todo = chain /\ todo[1] = c1 /\ todo[2] = c2 /\ Inserting(b, c1)
      BY <1>4, <1>10 DEF AtFirst, c1, c2
    <2>2. now = h1 /\ Ready(h1)
      BY <2>1, WalkEnds
    <2>3. chain = <<c1, c2>> /\ Follows(b, c1, c2)
      BY <1>7, <1>10
    <2>4. Alone(h1, c2)
      BY <1>6, <2>3, FollowsHang DEF Alone
    <2>5. PICK h : h = h1
      OBVIOUS
    <2>6. nodes' = h.nodes /\ fis' = h.fis
      BY <2>2, <2>5
    <2> HIDE DEF h1, now
    <2>7. pos' = FindIdx(nodes', c2.pred) /\ walking'
      <3>1. Len(todo) = 2
        BY <1>10, <2>1
      <3>2. walking'
        BY <1>2, <3>1
      <3>3. pos' = FindIdx(nodes', todo[2].pred)
        BY <1>2, <3>1
      <3> QED
        BY <2>1, <3>2, <3>3
    <2>8. Inserting(h, c2)' /\ pos' # 0
      BY <1>1, <2>2, <2>4, <2>5, <2>6, <2>7, WalkStarts
    <2>9. todo' = <<c2>>
      BY <1>1, <2>1, <2>3
    <2>10. AtSecond(chain)'
      BY <1>6, <1>10, <2>5, <2>8, <2>9 DEF AtSecond, h1, c1, c2
    <2>11. Shown' = b
      BY <1>6, <2>8 DEF Shown
    <2> QED
      BY <1>5, <1>6, <2>8, <2>10, <2>11 DEF InsertionInv, UnderWay, Progress
  <1>11. CASE AtSecond(chain)
    <2>1. todo = <<c2>> /\ Len(chain) = 2 /\ Inserting(h1, c2)
      BY <1>4, <1>11 DEF AtSecond, c1, c2
    <2>2. todo[1] = c2 /\ Len(todo) = 1
      BY <2>1
    <2> DEFINE h2 == InsertChain(h1, c2.pred, <<c2>>)
    <2> HIDE DEF h1
    <2>3. now = h2 /\ Ready(h2)
      BY <2>1, <2>2, WalkEnds
    <2>4. chain = <<c1, c2>> /\ Follows(b, c1, c2)
      BY <1>7, <2>1
    <2>5. c2.pred = c1.id
      BY <1>6, <2>4, FollowsHang
    <2>6. h2 = InsertChain(b, c1.pred, <<c1, c2>>)
      BY <1>6, <2>4, <2>5, ChainSplits DEF h1
    <2>7. h2 = InsertChain(b, chain[1].pred, chain)
      BY <2>4, <2>6 DEF c1
    <2> HIDE DEF h2, now
    <2> QED
      BY <1>8, <2>2, <2>3, <2>7
  <1> QED
    BY <1>5, <1>7, <1>9, <1>10, <1>11

(* Every step keeps the invariant and is a step of the abstract specification.*)
LEMMA NextHolds ==
    ASSUME InsertionInv, [Next]_vars
    PROVE  InsertionInv' /\ Progress
  <1>1. CASE UNCHANGED vars
    <2>1. Shown' = Shown
      BY <1>1 DEF vars, Shown
    <2>2. CASE pos = 0
      BY <1>1, <2>1, <2>2 DEF vars, InsertionInv, Resting, Progress
    <2>3. CASE pos # 0
      <3>1. PICK b : b = before
        OBVIOUS
      <3>2. PICK chain \in Abstract!Chains(b) : AtFirst(chain) \/ AtSecond(chain)
        BY <2>3, <3>1 DEF InsertionInv, UnderWay
      <3>3. ASSUME NEW h, NEW n, Inserting(h, n) PROVE Inserting(h, n)'
        <4>1. \A t, p, u : Walk(t, p, u) => Walk(t, p, u)'
          <5> SUFFICES ASSUME NEW t, NEW p, NEW u, Walk(t, p, u) PROVE Walk(t, p, u)'
            OBVIOUS
          <5>1. CASE AtParent(t, p)
            BY <1>1, <5>1 DEF vars, Walk, AtParent
          <5>2. CASE AtSibling(t, p, u)
            BY <1>1, <5>2 DEF vars, Walk, AtSibling, Inside
          <5>3. CASE InLostBranch(t, p, u)
            BY <1>1, <5>3 DEF vars, Walk, InLostBranch, Inside
          <5>4. CASE OnOldTrunk(t, p, u)
            BY <1>1, <5>4 DEF vars, Walk, OnOldTrunk, Inside
          <5>5. CASE Stopped(t, p, u)
            BY <1>1, <5>5 DEF vars, Walk, Stopped
          <5> QED
            BY <5>1, <5>2, <5>3, <5>4, <5>5 DEF Walk
        <4> QED
          BY <1>1, <3>3, <4>1 DEF vars, Inserting
      <3>4. AtFirst(chain)' \/ AtSecond(chain)'
        BY <1>1, <3>1, <3>2, <3>3 DEF vars, AtFirst, AtSecond
      <3> QED
        BY <1>1, <2>1, <2>3, <3>1, <3>2, <3>4 DEF vars, InsertionInv, UnderWay, Progress
    <2> QED
      BY <2>2, <2>3
  <1>2. ASSUME NEW chain \in Abstract!Chains([nodes |-> nodes, fis |-> fis]), Begin(chain)
        PROVE  InsertionInv' /\ Progress
    BY <1>2, BeginStep
  <1>3. CASE SettleFis
    BY <1>3, SettleStep
  <1>4. CASE WalkAction
    BY <1>4, WalkingStep
  <1>5. CASE Place
    BY <1>5, PlaceStep
  <1> QED
    BY <1>1, <1>2, <1>3, <1>4, <1>5 DEF Next, WalkAction

(* The walk for a new script is always where the abstract insertion, half done,*)
(* would have it (SortedTree::XInsertNode, InsertGatherer).                  *)
THEOREM InsertionInvariant == Spec => []InsertionInv
  <1>1. Init => InsertionInv
    BY InitHolds
  <1>2. InsertionInv /\ [Next]_vars => InsertionInv'
    BY NextHolds
  <1> QED
    BY <1>1, <1>2, PTL DEF Spec

(* The gatherer rejects a trunk only if the new script ends the array: no script*)
(* is rejected in favour of one that is itself rejected (InsertGatherer).    *)
THEOREM RejectsOnlyForAWinner == Spec => []RejectsOnlyWhenWinning
  <1>1. ASSUME InsertionInv, pos # 0, ~walking, gatherer.keepRejecting
        PROVE  pos = Len(nodes) + 1
    <2>1. PICK b : b = before
      OBVIOUS
    <2>2. PICK h, n : Inserting(h, n)
      BY <1>1 DEF InsertionInv, UnderWay, AtFirst, AtSecond
    <2> DEFINE t == h.nodes
               p == FindIdx(t, n.pred)
               u == Author(n.id)
    <2>3. Tree(t) /\ p \in 1 .. Len(t)
      BY <2>2, ParentPlace DEF Inserting, Ready
    <2>4. Stopped(t, p, u)
      BY <1>1, <2>2 DEF Inserting, Walk, AtParent, AtSibling, InLostBranch, OnOldTrunk
    <2>5. u \in Nat
      <3>1. Hangs(t, n.pred, <<n>>)
        BY <2>2 DEF Inserting, Alone
      <3>2. <<n>> \in Seq(Node) /\ Len(<<n>>) = 1
        BY <3>1 DEF Hangs
      <3>3. n \in Node
        BY <3>2
      <3> QED
        BY <3>3, AuthorType DEF Node
    <2> HIDE DEF p, u
    <2>6. Placed(t, p, u)
      BY <2>3, <2>5, InsertionPlace
    <2>7. pos = Len(t) + 1
      BY <1>1, <2>4, <2>6 DEF Stopped, Placed
    <2>8. Len(nodes) = Len(t)
      BY <2>3, <2>4, PrepareBranchType DEF Stopped, SameScripts, Tree
    <2> QED
      BY <2>7, <2>8
  <1>2. InsertionInv => RejectsOnlyWhenWinning
    BY <1>1 DEF RejectsOnlyWhenWinning
  <1> QED
    BY <1>2, InsertionInvariant, PTL

(* The one-pass walk implements the insertion in the tree of branches, chain by*)
(* chain (SortedTree::XInsertNode, XTraverseTree).                           *)
THEOREM WalkImplementsInsertion == Spec => ImplementsInsertion
  <1>1. Init => Abstract!InitSpec
    BY DEF Init, Abstract!InitSpec, Abstract!InsertedHistory, Abstract!Root, Root
  <1>2. ASSUME InsertionInv, [Next]_vars
        PROVE  [Abstract!InsertAtOnce \/ Abstract!MoveFis]_Shown
    BY <1>2, NextHolds, SameInsert
       DEF Progress, Grows, Moves, Shown, Abstract!InsertAtOnce, Abstract!MoveFis
  <1>3. InsertionInv /\ [Next]_vars
          => [Abstract!InsertAtOnce \/ Abstract!MoveFis]_(IF pos = 0
                                                            THEN [nodes |-> nodes, fis |-> fis]
                                                            ELSE before)
    BY <1>2 DEF Shown
  <1> QED
    BY <1>1, <1>3, InsertionInvariant, PTL DEF Spec, ImplementsInsertion, Abstract!Spec

=============================================================================

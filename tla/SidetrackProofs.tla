-------------------------- MODULE SidetrackProofs --------------------------
(***************************************************************************)
(* Proofs about the lists of missing scripts and of chunks: who is on them, *)
(* whom they ask, and that nothing that was received or acknowledged is     *)
(* lost when an attempt is aborted or the program stops.                    *)
(***************************************************************************)
EXTENDS SidetrackProperties, FiniteSetTheorems, WellFoundedInduction, TLAPS

(* The database is a record of three parts, and its lists are disjoint.     *)
IsRecord(d) == d = [history |-> d.history, missing |-> d.missing, chunks |-> d.chunks]

Good(d) == IsRecord(d) /\ Disjoint(d)

IInv == Good(db) /\ Good(saved)

(* Learning of scripts leaves the lists alone.                              *)
LEMMA HistoryOnly ==
    ASSUME NEW d, Good(d), NEW h
    PROVE  Good([d EXCEPT !.history = h])
    BY DEF Good, IsRecord, Disjoint

LEMMA MissingOnly ==
    ASSUME NEW d, Good(d), NEW m, DOMAIN m \subseteq DOMAIN d.missing
    PROVE  Good([d EXCEPT !.missing = m])
    BY DEF Good, IsRecord, Disjoint

LEMMA ChunksOnly ==
    ASSUME NEW d, Good(d), NEW c, DOMAIN c \subseteq DOMAIN d.chunks
    PROVE  Good([d EXCEPT !.chunks = c])
    BY DEF Good, IsRecord, Disjoint

LEMMA ListsGood ==
    ASSUME NEW d, NEW m, NEW c, DOMAIN m \cap DOMAIN c = {}
    PROVE  Good(WithLists(d, m, c))
    BY DEF Good, IsRecord, Disjoint, WithLists

LEMMA AddedDomain ==
    ASSUME NEW f, NEW x, NEW e
    PROVE  DOMAIN Added(f, x, e) = DOMAIN f \cup {x}
    BY DEF Added

LEMMA WithoutDomain ==
    ASSUME NEW f, NEW X
    PROVE  DOMAIN Without(f, X) = DOMAIN f \ X
    BY DEF Without

LEMMA SameDomain ==
    ASSUME NEW f
    PROVE  DOMAIN MakeDue(f) = DOMAIN f /\ DOMAIN Asked(f) = DOMAIN f
    BY DEF MakeDue, Asked

(* The first chunk moves a script from one list to the other (XAddChunk).   *)
LEMMA FirstChunkGood ==
    ASSUME NEW d, Good(d), NEW f
    PROVE  Good(FirstChunk(d, f))
<1> DEFINE c == Added(d.chunks, f.script, ChunkEntryOf(f))
           m == Without(d.missing, {f.script})
<1>1. DOMAIN m = DOMAIN d.missing \ {f.script} /\ DOMAIN c = DOMAIN d.chunks \cup {f.script}
  BY AddedDomain, WithoutDomain
<1>2. FirstChunk(d, f) = WithLists(d, m, c)
  BY DEF FirstChunk
<1> HIDE DEF m, c
<1>3. DOMAIN m \cap DOMAIN c = {}
  BY <1>1 DEF Good, Disjoint
<1> QED  BY <1>2, <1>3, ListsGood

LEMMA AfterChunkGood ==
    ASSUME NEW d, Good(d), NEW f, NEW count
    PROVE  Good(AfterChunk(d, f, count))
<1> DEFINE s == f.script
<1>1. CASE count # 1
  BY <1>1 DEF AfterChunk
<1>2. CASE count = 1 /\ s \notin Historic
  BY <1>2, HistoryOnly DEF AfterChunk
<1>3. CASE count = 1 /\ s \in Historic /\ s \in DOMAIN d.missing
  BY <1>3, MissingOnly, WithoutDomain DEF AfterChunk
<1>4. CASE count = 1 /\ s \in Historic /\ s \notin DOMAIN d.missing
  BY <1>4, ChunksOnly, WithoutDomain DEF AfterChunk
<1> QED  BY <1>1, <1>2, <1>3, <1>4

LEMMA AllDueGood ==
    ASSUME NEW d, Good(d)
    PROVE  Good(AllDue(d))
<1> DEFINE m == MakeDue(d.missing)
           c == MakeDue(d.chunks)
<1>1. DOMAIN m \cap DOMAIN c = {}
  BY SameDomain DEF Good, Disjoint
<1>2. AllDue(d) = WithLists(d, m, c)
  BY DEF AllDue
<1> HIDE DEF m, c
<1> QED  BY <1>1, <1>2, ListsGood

LEMMA UnpackChunkGood ==
    ASSUME IInv, NEW f, UnpackChunk(f)
    PROVE  Good(db') /\ saved' = saved
<1> DEFINE s == f.script
           isNew == s \notin DOMAIN db.chunks
           ignored == ~isNew /\ db.chunks[s].size # f.size
           received == IF isNew THEN {f.part}
                       ELSE IF ignored THEN db.chunks[s].received
                       ELSE db.chunks[s].received \cup {f.part}
           stored == IF isNew THEN FirstChunk(db, f)
                     ELSE [db EXCEPT !.chunks[s].received = received]
<1>1. Good(stored)
  <2>1. CASE isNew
    BY <2>1, FirstChunkGood DEF IInv
  <2>2. CASE ~isNew
    <3> DEFINE c == [db.chunks EXCEPT ![s].received = received]
    <3>1. stored = [db EXCEPT !.chunks = c]
      BY <2>2
    <3>2. DOMAIN c = DOMAIN db.chunks
      OBVIOUS
    <3> HIDE DEF c, received
    <3> QED  BY <3>1, <3>2, ChunksOnly DEF IInv
  <2> QED  BY <2>1, <2>2
<1>2. db' = AfterChunk(stored, f, Cardinality(received)) /\ saved' = saved
  BY DEF UnpackChunk
<1> HIDE DEF stored, received
<1> QED  BY <1>1, <1>2, AfterChunkGood

LEMMA ReconstructGood ==
    ASSUME IInv, NEW f, Reconstruct(f)
    PROVE  Good(db') /\ saved' = saved
<1> DEFINE s == f.script
           c == [db.chunks EXCEPT ![s] = Restarted(@)]
<1>1. saved' = saved /\ (db' = saved \/ db' = [db EXCEPT !.chunks[s] = Restarted(@)])
  BY DEF Reconstruct, Abort
<1>2. [db EXCEPT !.chunks[s] = Restarted(@)] = [db EXCEPT !.chunks = c] /\ DOMAIN c = DOMAIN db.chunks
  OBVIOUS
<1> HIDE DEF c
<1> QED  BY <1>1, <1>2, ChunksOnly DEF IInv

(* A script gets an entry for the whole only without one for its chunks.    *)
LEMMA ProcessMissingGood ==
    ASSUME IInv, ProcessMissingScripts
    PROVE  Good(db') /\ saved' = db'
<1> DEFINE listed == {s \in Script : IsMissing(s)}
           gone == DOMAIN db.chunks \ listed
           chunks == Without(db.chunks, gone)
           missing == [s \in listed \ DOMAIN chunks |->
                          IF s \in DOMAIN db.missing THEN db.missing[s] ELSE NewEntry(s)]
           m == Asked(missing)
           c == Asked(chunks)
<1>1. db' = WithLists(db, m, c) /\ saved' = db'
  BY DEF ProcessMissingScripts
<1>2. DOMAIN m \cap DOMAIN c = {}
  <2>1. DOMAIN missing \cap DOMAIN chunks = {}
    OBVIOUS
  <2> HIDE DEF missing, chunks
  <2> QED  BY <2>1, SameDomain
<1> HIDE DEF m, c
<1> QED  BY <1>1, <1>2, ListsGood DEF IInv

LEMMA GoodNext == IInv /\ [Next]_vars => IInv'
<1> SUFFICES ASSUME IInv, [Next]_vars
             PROVE  Good(db') /\ Good(saved')
  BY DEF IInv, Good, IsRecord, Disjoint
<1> USE DEF IInv
<1>1. ASSUME NEW f, UnpackScript(f)
      PROVE  Good(db') /\ Good(saved')
  <2> DEFINE h == [db.history EXCEPT ![f.script] = "recorded"]
  <2>1. saved' = saved /\ (db' = db \/ db' = [db EXCEPT !.history = h])
    BY <1>1 DEF UnpackScript
  <2> HIDE DEF h
  <2> QED  BY <2>1, HistoryOnly
<1>2. ASSUME NEW s, Learn(s)
      PROVE  Good(db') /\ Good(saved')
  <2> DEFINE h == [db.history EXCEPT ![s] = "missing"]
  <2>1. saved' = db' /\ db' = [db EXCEPT !.history = h]
    BY <1>2 DEF Learn
  <2> HIDE DEF h
  <2> QED  BY <2>1, HistoryOnly
<1>3. ASSUME NEW f, UnpackDamaged(f) \/ SkipShared(f)
      PROVE  Good(db') /\ Good(saved')
  BY <1>3 DEF UnpackDamaged, SkipShared, Abort
<1>4. ASSUME NEW f, UnpackChunk(f) \/ Reconstruct(f)
      PROVE  Good(db') /\ Good(saved')
  BY <1>4, UnpackChunkGood, ReconstructGood
<1>5. CASE ProcessMissingScripts
  BY <1>5, ProcessMissingGood
<1>6. CASE TimePasses
  BY <1>6, AllDueGood DEF TimePasses
<1>7. CASE ProcessMail \/ Commit \/ SendAcknowledgments \/ SendRequests \/ Stop \/ StopBeforeDelete
  BY <1>7 DEF ProcessMail, Commit, SendAcknowledgments, SendRequests, Stop, StopBeforeDelete
<1>8. ASSUME NEW s, Send(s) \/ Answer(s) \/ Join(s) \/ Leave(s)
      PROVE  Good(db') /\ Good(saved')
  BY <1>8 DEF Send, Answer, Join, Leave
<1>9. CASE UNCHANGED vars
  BY <1>9 DEF vars
<1> QED
  BY <1>1, <1>2, <1>3, <1>4, <1>5, <1>6, <1>7, <1>8, <1>9 DEF Next, Work

(***************************************************************************)
(* No script is on both lists: "Every script on the _missingChunk list is   *)
(* absent from the _missing list" (XAddChunk), in memory and on the disk,   *)
(* whatever arrives, is aborted or stopped.                                 *)
(***************************************************************************)
THEOREM NeverOnBothLists == Spec => []ListsDisjoint
<1>1. Init => IInv
  BY DEF Init, IInv, Good, IsRecord, Disjoint
<1>2. IInv => ListsDisjoint
  BY DEF IInv, Good, ListsDisjoint
<1> QED  BY <1>1, <1>2, GoodNext, PTL DEF Spec

----------------------------------------------------------------------------
(* What the entries of the lists are *)

(* One round of asking: nobody twice, and after nobody it is over.          *)
Round(q) ==
    /\ q \in Seq(Member \cup {Nobody})
    /\ \A i, j \in DOMAIN q : q[i] = q[j] => i = j
    /\ \A i \in DOMAIN q : q[i] = Nobody => i = Len(q)

(* What is on the list of missing scripts: a round of at least one.         *)
MissingGood(e) ==
    e \in [to : Seq(Member \cup {Nobody}), due : BOOLEAN] /\ Round(e.to) /\ e.to # <<>>

(* Some chunks are still to come.                                           *)
Incomplete(z, ps) == ps \subseteq Part(z) /\ ps # Part(z)

(* What is on the list of chunks: a round, and some of the chunks.          *)
ChunksGood(e) ==
    /\ e \in [to : Seq(Member \cup {Nobody}), due : BOOLEAN, size : Size, received : SUBSET Nat]
    /\ Round(e.to) /\ e.to # <<>>
    /\ Incomplete(e.size, e.received)

(* The lists of a database: chunks of scripts from before this member       *)
(* joined are never kept.                                                   *)
MissingOK(m) == DOMAIN m \subseteq Script /\ \A s \in DOMAIN m : MissingGood(m[s])

ChunksOK(c) ==
    /\ DOMAIN c \subseteq Script \ Historic
    /\ \A s \in DOMAIN c : ChunksGood(c[s])

DatabaseOK(d) ==
    /\ IsRecord(d)
    /\ d.history \in [Script -> {"unknown", "missing", "recorded"}]
    /\ MissingOK(d.missing) /\ ChunksOK(d.chunks)

(* Members are gone only once they were known.                              *)
MembersOK == dead \subseteq known /\ known \subseteq Member

----------------------------------------------------------------------------
(* Whom to ask *)

(* What has a member has a least one.                                       *)
LEMMA LeastIsOne ==
    ASSUME NEW S \in SUBSET Nat, S # {}
    PROVE  LeastOf(S) \in S
  <1> DEFINE less == OpToRel(<, Nat)
  <1>1. IsWellFoundedOn(less, Nat)
    BY NatLessThanWellFounded
  <1>2. \A m, n \in Nat : m < n => <<m, n>> \in less
    BY DEF OpToRel
  <1> HIDE DEF less
  <1>3. PICK n \in S : \A m \in S : ~(<<m, n>> \in less)
    BY <1>1, WFMin
  <1>4. ASSUME NEW m \in S PROVE n <= m
    <2>1. m \in Nat /\ n \in Nat /\ ~(m < n)
      BY <1>2, <1>3
    <2> QED
      BY <2>1
  <1> QED
    BY <1>4 DEF LeastOf

(* Someone is added who was not asked in this round, or nobody at its end.  *)
LEMMA SelectedOnce ==
    ASSUME MembersOK, NEW q, Round(q)
    PROVE  Round(SelectRecipient(q)) /\ SelectRecipient(q) # <<>>
  <1> DEFINE asked == IF q = <<>> \/ LastOf(q) = Nobody THEN <<>> ELSE q
             left == Candidates \ RangeOf(asked)
             x == IF left = {} THEN Nobody ELSE LeastOf(left)
  <1>1. SelectRecipient(q) = Append(asked, x)
    BY DEF SelectRecipient
  <1>2. asked \in Seq(Member \cup {Nobody}) /\ \A i, j \in DOMAIN asked : asked[i] = asked[j] => i = j
    BY DEF Round
  <1>3. \A i \in DOMAIN asked : asked[i] # Nobody
    BY DEF Round, LastOf
  <1>4. x \in Member \cup {Nobody} /\ \A i \in DOMAIN asked : asked[i] # x
    <2>1. CASE left = {}
      BY <1>3, <2>1
    <2>2. CASE left # {}
      <3>1. left \in SUBSET Nat /\ left \subseteq Member
        BY SidetrackAssumption DEF Candidates, MembersOK
      <3>2. LeastOf(left) \in left
        BY <2>2, <3>1, LeastIsOne
      <3>3. x \in left
        BY <2>2, <3>2
      <3>4. \A i \in DOMAIN asked : asked[i] \in RangeOf(asked)
        BY DEF RangeOf
      <3> QED
        BY <3>1, <3>3, <3>4
    <2> QED
      BY <2>1, <2>2
  <1> HIDE DEF asked, x, left
  <1> DEFINE r == Append(asked, x)
             n == Len(asked)
  <1>5. n \in Nat /\ DOMAIN asked = 1 .. n
    BY <1>2
  <1>6. r \in Seq(Member \cup {Nobody}) /\ Len(r) = n + 1 /\ DOMAIN r = 1 .. n + 1
        /\ r[n + 1] = x /\ \A i \in 1 .. n : r[i] = asked[i]
    BY <1>2, <1>4
  <1> HIDE DEF r, n
  <1>7. \A i, j \in DOMAIN r : r[i] = r[j] => i = j
    <2> SUFFICES ASSUME NEW i \in 1 .. n + 1, NEW j \in 1 .. n + 1, r[i] = r[j] PROVE i = j
      BY <1>6
    <2>1. CASE i \in 1 .. n /\ j \in 1 .. n
      BY <1>2, <1>5, <1>6, <2>1
    <2>2. CASE i = n + 1 /\ j \in 1 .. n
      BY <1>4, <1>5, <1>6, <2>2
    <2>3. CASE i \in 1 .. n /\ j = n + 1
      BY <1>4, <1>5, <1>6, <2>3
    <2> QED
      BY <1>5, <2>1, <2>2, <2>3
  <1>8. \A i \in DOMAIN r : r[i] = Nobody => i = Len(r)
    BY <1>3, <1>5, <1>6
  <1>9. r # <<>>
    BY <1>5, <1>6
  <1> QED
    BY <1>1, <1>6, <1>7, <1>8, <1>9 DEF Round, r

(* The author is asked first, or whoever is there.                          *)
LEMMA FirstOnce ==
    ASSUME MembersOK, NEW s
    PROVE  Round(FirstRecipients(s)) /\ FirstRecipients(s) # <<>>
  <1>1. CASE Author[s] \in known
    <2>1. Author[s] \in Member
      BY <1>1 DEF MembersOK
    <2> DEFINE q == <<Author[s]>>
    <2>2. q \in Seq(Member \cup {Nobody}) /\ Len(q) = 1 /\ q # <<>>
      BY <2>1
    <2>3. DOMAIN q = {1}
      BY <2>2
    <2> HIDE DEF q
    <2>4. Round(q) /\ q # <<>>
      BY <2>2, <2>3 DEF Round
    <2> QED
      BY <1>1, <2>4 DEF FirstRecipients, q
  <1>2. CASE Author[s] \notin known
    <2>1. Round(<<>>)
      BY DEF Round
    <2> QED
      BY <1>2, <2>1, SelectedOnce DEF FirstRecipients
  <1> QED
    BY <1>1, <1>2

(* The first one asked is a round of its own.                               *)
LEMMA RestartedOnce ==
    ASSUME NEW q, Round(q), q # <<>>
    PROVE  Round(SubSeq(q, 1, 1)) /\ SubSeq(q, 1, 1) # <<>>
  <1> DEFINE r == SubSeq(q, 1, 1)
  <1>1. q \in Seq(Member \cup {Nobody}) /\ Len(q) >= 1 /\ q[1] \in Member \cup {Nobody}
    BY DEF Round
  <1>2. r \in Seq(Member \cup {Nobody}) /\ Len(r) = 1
    BY <1>1
  <1>3. DOMAIN r = {1}
    BY <1>2
  <1> HIDE DEF r
  <1> QED
    BY <1>2, <1>3 DEF Round, r

----------------------------------------------------------------------------
(* What becomes of entries *)

LEMMA EntryUpdated ==
    ASSUME MembersOK, NEW e
    PROVE  /\ MissingGood(e) => MissingGood(Updated(e))
           /\ ChunksGood(e) => ChunksGood(Updated(e))
  <1> DEFINE q == SelectRecipient(e.to)
  <1>1. Round(e.to) => Round(q) /\ q # <<>> /\ q \in Seq(Member \cup {Nobody})
    BY SelectedOnce DEF Round
  <1>2. Updated(e) = [e EXCEPT !.to = q, !.due = FALSE]
    BY DEF Updated
  <1> HIDE DEF q
  <1>3. ASSUME MissingGood(e) PROVE MissingGood(Updated(e))
    BY <1>1, <1>2, <1>3 DEF MissingGood
  <1>4. ASSUME ChunksGood(e) PROVE ChunksGood(Updated(e))
    BY <1>1, <1>2, <1>4 DEF ChunksGood
  <1> QED
    BY <1>3, <1>4

(* So does the time that passes.                                            *)
LEMMA EntryDue ==
    ASSUME NEW e
    PROVE  /\ MissingGood(e) => MissingGood([e EXCEPT !.due = TRUE])
           /\ ChunksGood(e) => ChunksGood([e EXCEPT !.due = TRUE])
  BY DEF MissingGood, ChunksGood

(* A script has two chunks at least.                                        *)
LEMMA SomeParts ==
    ASSUME NEW z \in Size
    PROVE  1 \in Part(z) /\ 2 \in Part(z)
  <1>1. Parts[z] \in Nat \ {0, 1}
    BY SidetrackAssumption
  <1> DEFINE n == Parts[z]
  <1>2. n >= 2 /\ n \in Nat
    BY <1>1
  <1> HIDE DEF n
  <1> QED
    BY <1>2 DEF Part, n

(* An entry that starts again has no chunks.                                *)
LEMMA EntryRestarted ==
    ASSUME NEW e, ChunksGood(e)
    PROVE  ChunksGood(Restarted(e)) /\ Restarted(e).received = {}
  <1> DEFINE q == SubSeq(e.to, 1, 1)
  <1>1. Round(q) /\ q # <<>> /\ q \in Seq(Member \cup {Nobody})
    BY RestartedOnce DEF ChunksGood, Round
  <1>2. Restarted(e) = [e EXCEPT !.to = q, !.received = {}]
    BY DEF Restarted
  <1>3. e.size \in Size /\ 1 \in Part(e.size)
    BY SomeParts DEF ChunksGood
  <1> HIDE DEF q
  <1> QED
    BY <1>1, <1>2, <1>3 DEF ChunksGood, Incomplete

(* New entries are good.                                                    *)
LEMMA NewGood ==
    ASSUME MembersOK, NEW s
    PROVE  MissingGood(NewEntry(s))
  <1>1. Round(FirstRecipients(s)) /\ FirstRecipients(s) # <<>>
    BY FirstOnce
  <1> QED
    BY <1>1 DEF MissingGood, NewEntry, Round

(* So is the entry that the first chunk makes.                              *)
LEMMA FirstEntryGood ==
    ASSUME MembersOK, NEW f, f.size \in Size, f.part \in Part(f.size)
    PROVE  ChunksGood(ChunkEntryOf(f))
  <1> DEFINE q == FirstRecipients(f.script)
  <1>1. Round(q) /\ q # <<>> /\ q \in Seq(Member \cup {Nobody})
    BY FirstOnce DEF Round
  <1>2. Incomplete(f.size, {f.part})
    BY SomeParts DEF Incomplete
  <1>3. f.part \in Nat
    BY DEF Part
  <1> HIDE DEF q
  <1>4. ChunkEntryOf(f) = [to |-> q, due |-> FALSE, size |-> f.size, received |-> {f.part}]
    BY DEF ChunkEntryOf, q
  <1> QED
    BY <1>1, <1>2, <1>3, <1>4 DEF ChunksGood

----------------------------------------------------------------------------
(* What becomes of the lists *)

LEMMA ListsKept ==
    ASSUME NEW f, NEW X
    PROVE  /\ MissingOK(f) => MissingOK(Without(f, X))
           /\ ChunksOK(f) => ChunksOK(Without(f, X))
  BY DEF MissingOK, ChunksOK, Without

(* Those who are asked are asked once.                                      *)
LEMMA ListsAsked ==
    ASSUME MembersOK, NEW f
    PROVE  /\ MissingOK(f) => MissingOK(Asked(f))
           /\ ChunksOK(f) => ChunksOK(Asked(f))
  <1>1. DOMAIN Asked(f) = DOMAIN f
    BY DEF Asked
  <1>2. \A s \in DOMAIN f : Asked(f)[s] = f[s] \/ Asked(f)[s] = Updated(f[s])
    BY DEF Asked
  <1>3. ASSUME MissingOK(f) PROVE MissingOK(Asked(f))
    BY <1>1, <1>2, <1>3, EntryUpdated DEF MissingOK
  <1>4. ASSUME ChunksOK(f) PROVE ChunksOK(Asked(f))
    BY <1>1, <1>2, <1>4, EntryUpdated DEF ChunksOK
  <1> QED
    BY <1>3, <1>4

(* When time passes nobody is asked.                                        *)
LEMMA ListsDue ==
    ASSUME NEW f
    PROVE  /\ MissingOK(f) => MissingOK(MakeDue(f))
           /\ ChunksOK(f) => ChunksOK(MakeDue(f))
  <1>1. DOMAIN MakeDue(f) = DOMAIN f
    BY DEF MakeDue
  <1>2. \A s \in DOMAIN f : MakeDue(f)[s] = [f[s] EXCEPT !.due = TRUE]
    BY DEF MakeDue
  <1>3. ASSUME MissingOK(f) PROVE MissingOK(MakeDue(f))
    BY <1>1, <1>2, <1>3, EntryDue DEF MissingOK
  <1>4. ASSUME ChunksOK(f) PROVE ChunksOK(MakeDue(f))
    BY <1>1, <1>2, <1>4, EntryDue DEF ChunksOK
  <1> QED
    BY <1>3, <1>4

(* An entry may be replaced by a good one.                                  *)
LEMMA ChunksChanged ==
    ASSUME NEW c, ChunksOK(c), NEW s \in DOMAIN c, NEW e, ChunksGood(e)
    PROVE  ChunksOK([c EXCEPT ![s] = e])
  BY DEF ChunksOK

(* A good entry may come, of a script that is not historic.                 *)
LEMMA ChunksAdded ==
    ASSUME NEW c, ChunksOK(c), NEW s \in Script \ Historic, NEW e, ChunksGood(e)
    PROVE  ChunksOK(Added(c, s, e))
  BY DEF ChunksOK, Added

(* Good lists make a good database.                                         *)
LEMMA ListsOK ==
    ASSUME NEW d, DatabaseOK(d), NEW m, MissingOK(m), NEW c, ChunksOK(c)
    PROVE  DatabaseOK(WithLists(d, m, c))
  BY DEF DatabaseOK, IsRecord, WithLists

(* So does another history,                                                 *)
LEMMA OtherHistory ==
    ASSUME NEW d, DatabaseOK(d), NEW h \in [Script -> {"unknown", "missing", "recorded"}]
    PROVE  DatabaseOK([d EXCEPT !.history = h])
  BY DEF DatabaseOK, IsRecord

(* and another list of chunks.                                              *)
LEMMA OtherChunks ==
    ASSUME NEW d, DatabaseOK(d), NEW c, ChunksOK(c)
    PROVE  DatabaseOK([d EXCEPT !.chunks = c])
  BY DEF DatabaseOK, IsRecord

----------------------------------------------------------------------------
(* One chunk more *)

(* Files in the inbox: whole scripts, and parts that scripts have.          *)
Mail == {f \in File : IF f.size = Whole THEN f.part = Whole ELSE f.part \in Part(f.size)}

(***************************************************************************)
(* What XAddChunk leaves of the list of chunks: other scripts' entries, and *)
(* the one of this script, unless it is from before this member joined, as  *)
(* it was or with this chunk.                                               *)
(***************************************************************************)
SameEntry(s, d, e) == s \in DOMAIN d.chunks /\ e.size = d.chunks[s].size /\ e.received = d.chunks[s].received

WithChunk(f, d, e) ==
    /\ e.size = f.size
    /\ e.received = {f.part}
          \cup IF f.script \in DOMAIN d.chunks THEN d.chunks[f.script].received ELSE {}
    /\ f.script \in DOMAIN d.chunks => d.chunks[f.script].size = f.size

ChunkAdded(f, d, dd) ==
    /\ \A s \in Script \ {f.script} : s \in DOMAIN d.chunks <=> s \in DOMAIN dd.chunks
    /\ \A s \in DOMAIN dd.chunks \ {f.script} : dd.chunks[s] = d.chunks[s]
    /\ f.script \in DOMAIN dd.chunks <=> f.script \notin Historic
    /\ f.script \notin Historic =>
           \/ SameEntry(f.script, d, dd.chunks[f.script])
           \/ WithChunk(f, d, dd.chunks[f.script])
    /\ \A s \in Script : dd.history[s] = "recorded" <=> d.history[s] = "recorded"

(* AfterChunk touches the history only, unless the script is from before.   *)
LEMMA AfterRecent ==
    ASSUME NEW d, DatabaseOK(d), NEW f \in Mail, f.script \notin Historic, NEW count
    PROVE  LET a == AfterChunk(d, f, count)
           IN  /\ DatabaseOK(a) /\ a.chunks = d.chunks
               /\ \A s \in Script : a.history[s] = "recorded" <=> d.history[s] = "recorded"
  <1> DEFINE s == f.script
             h == [d.history EXCEPT ![s] = IF @ = "recorded" THEN @ ELSE "missing"]
  <1>1. CASE count # 1
    BY <1>1 DEF AfterChunk
  <1>2. CASE count = 1
    <2>1. AfterChunk(d, f, count) = [d EXCEPT !.history = h]
      BY <1>2 DEF AfterChunk
    <2>2. s \in Script /\ d.history \in [Script -> {"unknown", "missing", "recorded"}]
      BY DEF Mail, File, DatabaseOK
    <2>3. /\ h \in [Script -> {"unknown", "missing", "recorded"}]
          /\ \A x \in Script : h[x] = "recorded" <=> d.history[x] = "recorded"
      BY <2>2
    <2> HIDE DEF h
    <2>4. [d EXCEPT !.history = h].chunks = d.chunks /\ [d EXCEPT !.history = h].history = h
      BY DEF DatabaseOK, IsRecord
    <2> QED
      BY <2>1, <2>3, <2>4, OtherHistory
  <1> QED
    BY <1>1, <1>2

(* Of a script from before this member joined nothing is left.              *)
LEMMA AfterHistoric ==
    ASSUME MembersOK, NEW d, DatabaseOK(d), NEW f \in Mail, f.size \in Size, f.script \in Historic
    PROVE  LET a == AfterChunk(FirstChunk(d, f), f, 1)
           IN  /\ DatabaseOK(a) /\ a.history = d.history
               /\ DOMAIN a.chunks = DOMAIN d.chunks
               /\ \A s \in DOMAIN a.chunks : a.chunks[s] = d.chunks[s]
  <1> DEFINE s == f.script
             e == ChunkEntryOf(f)
             m == Without(d.missing, {s})
             c == Without(Added(d.chunks, s, e), {s})
  <1>1. s \notin DOMAIN m /\ s \notin DOMAIN d.chunks /\ MissingOK(m)
    BY ListsKept DEF Without, DatabaseOK, ChunksOK
  <1>2. FirstChunk(d, f) = WithLists(d, m, Added(d.chunks, s, e))
    BY DEF FirstChunk
  <1>3. AfterChunk(FirstChunk(d, f), f, 1) = WithLists(d, m, c)
    <2> HIDE DEF m, e
    <2> QED
      BY <1>1, <1>2 DEF AfterChunk, WithLists
  <1>4. DOMAIN c = DOMAIN d.chunks /\ \A x \in DOMAIN c : c[x] = d.chunks[x]
    <2> HIDE DEF e
    <2> QED
      BY <1>1 DEF Added, Without
  <1> HIDE DEF c, m
  <1>5. ChunksOK(c)
    BY <1>4 DEF DatabaseOK, ChunksOK
  <1> QED
    BY <1>1, <1>3, <1>4, <1>5, ListsOK DEF WithLists

(* XAddChunk: the list, and what becomes of the files.                      *)
LEMMA ChunkUnpacked ==
    ASSUME MembersOK, DatabaseOK(db), NEW f \in Mail, UnpackChunk(f)
    PROVE  /\ DatabaseOK(db') /\ ChunkAdded(f, db, db')
           /\ disk' = (IF f.script \in DOMAIN db.chunks /\ db.chunks[f.script].size # f.size
                       THEN disk ELSE StoredFiles(f))
                         \ (IF f.script \in Historic THEN FilesOf(f.script) \cup {f} ELSE {})
  <1> DEFINE s == f.script
             isNew == s \notin DOMAIN db.chunks
             ignored == ~isNew /\ db.chunks[s].size # f.size
             received == IF isNew THEN {f.part}
                         ELSE IF ignored THEN db.chunks[s].received
                         ELSE db.chunks[s].received \cup {f.part}
             count == Cardinality(received)
             stored == IF isNew THEN FirstChunk(db, f)
                       ELSE [db EXCEPT !.chunks[s].received = received]
  <1>1. /\ f.size # Whole /\ (ignored \/ received # Part(f.size))
        /\ db' = AfterChunk(stored, f, count)
        /\ disk' = (IF ignored THEN disk ELSE StoredFiles(f))
                       \ (IF s \in DOMAIN db'.chunks THEN {} ELSE FilesOf(s) \cup {f})
    BY DEF UnpackChunk
  <1>2. s \in Script /\ f.size \in Size /\ f.part \in Part(f.size) /\ f.part \in Nat
    BY <1>1 DEF Mail, File
  <1>3. CASE s \in Historic
    <2>1. isNew
      BY <1>3 DEF DatabaseOK, ChunksOK
    <2>2. db' = AfterChunk(FirstChunk(db, f), f, 1)
      BY <1>1, <2>1, FS_Singleton
    <2>3. /\ DatabaseOK(db') /\ db'.history = db.history
          /\ DOMAIN db'.chunks = DOMAIN db.chunks
          /\ \A x \in DOMAIN db'.chunks : db'.chunks[x] = db.chunks[x]
      BY <1>2, <1>3, <2>2, AfterHistoric
    <2>4. ChunkAdded(f, db, db')
      BY <1>3, <2>1, <2>3 DEF ChunkAdded
    <2> QED
      BY <1>1, <1>3, <2>1, <2>3, <2>4
  <1>4. CASE s \notin Historic /\ isNew
    <2> DEFINE e == ChunkEntryOf(f)
               c == Added(db.chunks, s, e)
               m == Without(db.missing, {s})
    <2>1. stored = WithLists(db, m, c)
      BY <1>4 DEF FirstChunk
    <2>2. ChunksGood(e) /\ e.size = f.size /\ e.received = {f.part}
      BY <1>2, FirstEntryGood DEF ChunkEntryOf
    <2> HIDE DEF e
    <2>3. ChunksOK(c) /\ MissingOK(m)
      BY <1>2, <1>4, <2>2, ChunksAdded, ListsKept DEF DatabaseOK
    <2>4. DOMAIN c = DOMAIN db.chunks \cup {s} /\ c[s] = e /\ \A x \in DOMAIN c \ {s} : c[x] = db.chunks[x]
      BY DEF Added
    <2> HIDE DEF c, m
    <2>5. DatabaseOK(stored)
      BY <2>1, <2>3, ListsOK
    <2>6. stored.chunks = c /\ stored.history = db.history
      BY <2>1 DEF WithLists
    <2> HIDE DEF stored, count
    <2>7. /\ DatabaseOK(db') /\ db'.chunks = c
          /\ \A x \in Script : db'.history[x] = "recorded" <=> db.history[x] = "recorded"
      BY <1>1, <1>4, <2>5, <2>6, AfterRecent
    <2>8. ChunkAdded(f, db, db')
      BY <1>2, <1>4, <2>2, <2>4, <2>7 DEF ChunkAdded, WithChunk
    <2> QED
      BY <1>1, <1>4, <2>4, <2>7, <2>8
  <1>5. CASE ~isNew
    <2> DEFINE e == [db.chunks[s] EXCEPT !.received = received]
               c == [db.chunks EXCEPT ![s] = e]
    <2>1. stored = [db EXCEPT !.chunks = c]
      BY <1>5
    <2>2. /\ ChunksGood(db.chunks[s]) /\ s \notin Historic /\ ChunksOK(db.chunks)
      BY <1>5 DEF DatabaseOK, ChunksOK
    <2>3. /\ e.size = db.chunks[s].size /\ e.received = received
      BY <2>2 DEF ChunksGood
    <2>4. Incomplete(db.chunks[s].size, received)
      BY <1>1, <1>2, <1>5, <2>2 DEF ChunksGood, Incomplete
    <2>5. received \in SUBSET Nat
      BY <1>2, <1>5, <2>2 DEF ChunksGood
    <2>51. ignored => received = db.chunks[s].received
      BY <1>5
    <2>52. ~ignored => received = db.chunks[s].received \cup {f.part} /\ db.chunks[s].size = f.size
      BY <1>5
    <2> HIDE DEF received
    <2>6. ChunksGood(e)
      BY <2>2, <2>4, <2>5 DEF ChunksGood
    <2> HIDE DEF e
    <2>7. ChunksOK(c) /\ DOMAIN c = DOMAIN db.chunks /\ c[s] = e
          /\ \A x \in DOMAIN c \ {s} : c[x] = db.chunks[x]
      BY <1>5, <2>2, <2>6, ChunksChanged
    <2> HIDE DEF c
    <2>8. DatabaseOK(stored) /\ stored.chunks = c /\ stored.history = db.history
      BY <2>1, <2>7, OtherChunks DEF DatabaseOK, IsRecord
    <2> HIDE DEF stored, count
    <2>9. /\ DatabaseOK(db') /\ db'.chunks = c
          /\ \A x \in Script : db'.history[x] = "recorded" <=> db.history[x] = "recorded"
      BY <1>1, <2>2, <2>8, AfterRecent
    <2>10. SameEntry(s, db, e) \/ WithChunk(f, db, e)
      BY <1>5, <2>3, <2>51, <2>52 DEF SameEntry, WithChunk
    <2>11. ChunkAdded(f, db, db')
      BY <1>2, <1>5, <2>2, <2>7, <2>9, <2>10 DEF ChunkAdded
    <2> QED
      BY <1>1, <1>5, <2>2, <2>7, <2>9, <2>11
  <1> QED
    BY <1>3, <1>4, <1>5

----------------------------------------------------------------------------
(* Types *)

Asking == [to : Member \cup {Nobody}, script : Script, size : {Whole} \cup Size, parts : SUBSET Nat]

RequestsOK == \A r \in requests \cup basket : r \in Asking /\ (r.size # Whole => r.parts \subseteq Part(r.size))

(* An attempt looks at files of the inbox.                                  *)
RoundOK ==
    /\ round \in [pc : {"idle", "unpacking", "acks", "missing", "sending"}, todo : SUBSET Mail,
                  skip : SUBSET Mail, deleted : SUBSET Mail, pending : BOOLEAN]
    /\ round.todo \subseteq inbox

(* The inductive invariant of the lists, and the types it needs.            *)
EntriesInv ==
    /\ DatabaseOK(db) /\ DatabaseOK(saved)
    /\ MembersOK /\ RequestsOK /\ RoundOK
    /\ inbox \subseteq Mail
    /\ disk \subseteq {f \in File : f.size # Whole}
    /\ box \subseteq Script /\ acked \subseteq Script /\ spoilt \subseteq Script

(* A new attempt looks at some of the inbox.                                *)
LEMMA AttemptOK ==
    ASSUME inbox' \subseteq Mail, NEW skip \in SUBSET Mail, round' = StartAttempt(skip)
    PROVE  RoundOK'
  BY DEF RoundOK, StartAttempt, Idle

(* An attempt goes on when a file is unpacked.                              *)
LEMMA UnpackedOK ==
    ASSUME RoundOK, inbox \subseteq inbox', NEW f \in round.todo, NEW pending \in BOOLEAN,
           Unpacked(f, pending)
    PROVE  RoundOK'
  BY DEF RoundOK, Unpacked

(* It starts again when it is aborted.                                      *)
LEMMA AbortOK ==
    ASSUME EntriesInv, NEW f \in round.todo, Abort(f)
    PROVE  RoundOK' /\ db' = saved /\ inbox' = inbox
  <1>1. round.skip \cup {f} \in SUBSET Mail
    BY DEF EntriesInv, RoundOK
  <1> QED
    BY <1>1, AttemptOK DEF Abort, EntriesInv

(* The forms of a script, and what is left of a damaged file, are mail.     *)
LEMMA WholeIsMail ==
    ASSUME NEW s \in Script
    PROVE  WholeFile(s) \in Mail
  BY DEF WholeFile, Mail, File, Whole

(* So are its chunks.                                                       *)
LEMMA ChunksAreMail ==
    ASSUME NEW s \in Script, NEW z \in Size, NEW ps \in SUBSET Part(z)
    PROVE  Chunks(s, z, ps) \subseteq Mail
  <1>1. \A p \in ps : p \in Nat /\ p \in Part(z)
    BY DEF Part
  <1>2. ASSUME NEW p \in ps
        PROVE  [script |-> s, size |-> z, part |-> p, ok |-> TRUE] \in Mail
    <2>1. z # Whole
      BY SidetrackAssumption
    <2> QED
      BY <1>1, <2>1 DEF Mail, File
  <1> QED
    BY <1>2 DEF Chunks

(* So is whatever its author sends.                                         *)
LEMMA FormsAreMail ==
    ASSUME NEW s \in Script, NEW sent \in Forms(s)
    PROVE  sent \subseteq Mail
  BY WholeIsMail, ChunksAreMail DEF Forms

(* So is what arrives of it, also when it was damaged.                      *)
LEMMA ArrivedIsMail ==
    ASSUME inbox \subseteq Mail, spoilt \subseteq Script, NEW sent \in SUBSET Mail, Arrive(sent)
    PROVE  inbox' \subseteq Mail /\ inbox \subseteq inbox' /\ spoilt' \subseteq Script
  <1>1. ASSUME NEW f \in Mail PROVE [f EXCEPT !.ok = FALSE] \in Mail /\ f.script \in Script
    BY DEF Mail, File
  <1> QED
    BY <1>1 DEF Arrive

(* Who is asked for what is missing is a member, and for chunks there are.  *)
LEMMA RequestTyped ==
    ASSUME MembersOK, NEW s \in Script, NEW z \in {Whole} \cup Size, NEW ps \in SUBSET Nat,
           z # Whole => ps \subseteq Part(z),
           NEW e, NEW r \in Request(s, z, ps, e)
    PROVE  r \in Asking /\ (r.size # Whole => r.parts \subseteq Part(r.size))
  <1>1. r = [to |-> LastOf(e.to), script |-> s, size |-> z, parts |-> ps] /\ IsSendable(e)
    BY DEF Request
  <1>2. LastOf(e.to) \in Member
    BY <1>1 DEF IsSendable, Candidates, MembersOK
  <1> QED
    BY <1>1, <1>2 DEF Asking

(* XProcessMissingScripts keeps the types.                                  *)
LEMMA ProcessMissingOK ==
    ASSUME EntriesInv, ProcessMissingScripts
    PROVE  EntriesInv'
  <1> DEFINE listed == {s \in Script : IsMissing(s)}
             gone == DOMAIN db.chunks \ listed
             chunks == Without(db.chunks, gone)
             missing == [s \in listed \ DOMAIN chunks |->
                            IF s \in DOMAIN db.missing THEN db.missing[s] ELSE NewEntry(s)]
  <1>1. ChunksOK(chunks)
    BY ListsKept DEF EntriesInv, DatabaseOK
  <1>2. MissingOK(missing)
    <2>1. DOMAIN missing \subseteq Script
      OBVIOUS
    <2>2. ASSUME NEW s \in DOMAIN missing PROVE MissingGood(missing[s])
      <3>1. missing[s] = IF s \in DOMAIN db.missing THEN db.missing[s] ELSE NewEntry(s)
        BY <2>2
      <3> HIDE DEF missing
      <3> QED
        BY <3>1, NewGood DEF EntriesInv, DatabaseOK, MissingOK
    <2> HIDE DEF missing
    <2> QED
      BY <2>1, <2>2 DEF MissingOK
  <1>3. /\ db' = WithLists(db, Asked(missing), Asked(chunks)) /\ saved' = db'
        /\ basket' = (UNION {Request(s, Whole, {}, missing[s]) : s \in DOMAIN missing})
              \cup (UNION {Request(s, chunks[s].size, Part(chunks[s].size) \ chunks[s].received,
                                   chunks[s]) : s \in DOMAIN chunks})
        /\ disk' \subseteq disk /\ round' \in {Idle, [Idle EXCEPT !.pc = "sending"]}
        /\ UNCHANGED <<inbox, box, acked, project, requests, spoilt>>
    BY DEF ProcessMissingScripts, Idle
  <1> HIDE DEF missing, chunks, gone, listed
  <1>4. DatabaseOK(db') /\ DatabaseOK(saved')
    <2>1. MissingOK(Asked(missing)) /\ ChunksOK(Asked(chunks))
      BY <1>1, <1>2, ListsAsked DEF EntriesInv
    <2> QED
      BY <1>3, <2>1, ListsOK DEF EntriesInv
  <1>5. RequestsOK'
    <2>1. ASSUME NEW s \in DOMAIN missing, NEW r \in Request(s, Whole, {}, missing[s])
          PROVE  r \in Asking /\ (r.size # Whole => r.parts \subseteq Part(r.size))
      <3>1. s \in Script
        BY <1>2 DEF MissingOK
      <3> QED
        BY <2>1, <3>1, RequestTyped DEF EntriesInv
    <2>2. ASSUME NEW s \in DOMAIN chunks,
                 NEW r \in Request(s, chunks[s].size, Part(chunks[s].size) \ chunks[s].received, chunks[s])
          PROVE  r \in Asking /\ (r.size # Whole => r.parts \subseteq Part(r.size))
      <3> DEFINE z == chunks[s].size
                 ps == Part(z) \ chunks[s].received
      <3>1. s \in Script /\ z \in Size
        BY <1>1 DEF ChunksOK, ChunksGood
      <3>2. ps \in SUBSET Nat /\ ps \subseteq Part(z)
        BY DEF Part
      <3>3. r \in Request(s, z, ps, chunks[s])
        BY <2>2
      <3> HIDE DEF z, ps
      <3> QED
        BY <3>1, <3>2, <3>3, RequestTyped DEF EntriesInv
    <2>3. ASSUME NEW r \in requests' \cup basket'
          PROVE  r \in Asking /\ (r.size # Whole => r.parts \subseteq Part(r.size))
      <3>1. CASE r \in requests
        BY <3>1 DEF EntriesInv, RequestsOK
      <3>2. CASE \E s \in DOMAIN missing : r \in Request(s, Whole, {}, missing[s])
        BY <2>1, <3>2
      <3>3. CASE \E s \in DOMAIN chunks :
                    r \in Request(s, chunks[s].size, Part(chunks[s].size) \ chunks[s].received, chunks[s])
        BY <2>2, <3>3
      <3> DEFINE A == {Request(s, Whole, {}, missing[s]) : s \in DOMAIN missing}
                 B == {Request(s, chunks[s].size, Part(chunks[s].size) \ chunks[s].received,
                               chunks[s]) : s \in DOMAIN chunks}
      <3>4. requests' = requests /\ basket' = (UNION A) \cup (UNION B)
        BY <1>3
      <3>5. \A X \in A : \E s \in DOMAIN missing : X = Request(s, Whole, {}, missing[s])
        OBVIOUS
      <3>6. \A X \in B : \E s \in DOMAIN chunks :
               X = Request(s, chunks[s].size, Part(chunks[s].size) \ chunks[s].received, chunks[s])
        OBVIOUS
      <3> HIDE DEF A, B
      <3>7. r \in requests \/ (\E X \in A : r \in X) \/ (\E X \in B : r \in X)
        BY <2>3, <3>4
      <3> QED
        BY <3>1, <3>2, <3>3, <3>5, <3>6, <3>7
    <2> QED
      BY <2>3 DEF RequestsOK
  <1>6. RoundOK'
    <2>1. CASE round' = Idle
      BY <2>1 DEF RoundOK, Idle
    <2>2. CASE round' = [Idle EXCEPT !.pc = "sending"]
      BY <2>2 DEF RoundOK, Idle
    <2> QED
      BY <1>3, <2>1, <2>2
  <1>7. inbox' \subseteq Mail /\ box' \subseteq Script /\ acked' \subseteq Script /\ spoilt' \subseteq Script
        /\ disk' \subseteq {f \in File : f.size # Whole} /\ MembersOK'
    BY <1>3 DEF EntriesInv, MembersOK, project
  <1> QED
    BY <1>4, <1>5, <1>6, <1>7 DEF EntriesInv

(* Unpacking a whole script keeps the types.                                *)
LEMMA UnpackScriptOK ==
    ASSUME EntriesInv, NEW f \in round.todo, UnpackScript(f)
    PROVE  EntriesInv'
  <1> DEFINE h == [db.history EXCEPT ![f.script] = "recorded"]
  <1>1. f \in Mail /\ f.script \in Script
    BY DEF EntriesInv, RoundOK, Mail, File
  <1>2. h \in [Script -> {"unknown", "missing", "recorded"}]
    BY DEF EntriesInv, DatabaseOK
  <1>3. db' = db \/ db' = [db EXCEPT !.history = h]
    BY DEF UnpackScript
  <1> HIDE DEF h
  <1>4. DatabaseOK(db')
    BY <1>2, <1>3, OtherHistory DEF EntriesInv
  <1>5. Unpacked(f, FALSE) /\ UNCHANGED <<saved, disk, inbox, acked, project, requests, basket, spoilt>>
        /\ box' \subseteq box \cup {f.script}
    BY DEF UnpackScript, world
  <1>6. RoundOK'
    BY <1>5, UnpackedOK DEF EntriesInv
  <1> QED
    BY <1>1, <1>4, <1>5, <1>6 DEF EntriesInv, MembersOK, RequestsOK, project

(* Unpacking a chunk keeps the types.                                       *)
LEMMA UnpackChunkOK ==
    ASSUME EntriesInv, NEW f \in round.todo, UnpackChunk(f)
    PROVE  EntriesInv'
  <1>1. f \in Mail /\ f \in File /\ f.size # Whole
    BY DEF EntriesInv, RoundOK, Mail, UnpackChunk
  <1>2. DatabaseOK(db') /\ disk' \subseteq StoredFiles(f) \cup disk
    BY <1>1, ChunkUnpacked DEF EntriesInv
  <1>3. disk' \subseteq {g \in File : g.size # Whole}
    BY <1>1, <1>2 DEF EntriesInv, StoredFiles
  <1>4. UNCHANGED <<saved, inbox, box, acked, project, requests, basket, spoilt>>
    BY DEF UnpackChunk, world
  <1>5. \E pending \in BOOLEAN : Unpacked(f, pending)
    BY DEF UnpackChunk
  <1>6. RoundOK'
    BY <1>4, <1>5, UnpackedOK DEF EntriesInv
  <1> QED
    BY <1>2, <1>3, <1>4, <1>6 DEF EntriesInv, MembersOK, RequestsOK, project

(* Putting a script together keeps the types.                               *)
LEMMA ReconstructOK ==
    ASSUME EntriesInv, NEW f \in round.todo, Reconstruct(f)
    PROVE  EntriesInv'
  <1> DEFINE s == f.script
             c == [db.chunks EXCEPT ![s] = Restarted(@)]
  <1>1. s \in Script /\ s \in DOMAIN db.chunks
    BY DEF EntriesInv, RoundOK, Mail, File, Reconstruct, IsLastChunk
  <1>2. ChunksOK(c)
    BY <1>1, EntryRestarted, ChunksChanged DEF EntriesInv, DatabaseOK, ChunksOK
  <1>3. /\ disk' \subseteq disk
        /\ UNCHANGED <<saved, box, acked, project, requests, basket, spoilt>>
        /\ \/ /\ inbox' = inbox \cup {WholeFile(s)}
              /\ db' = [db EXCEPT !.chunks = c]
              /\ Unpacked(f, TRUE)
           \/ Abort(f)
    BY DEF Reconstruct, world
  <1> HIDE DEF c
  <1>4. CASE Abort(f)
    BY <1>3, <1>4, AbortOK DEF EntriesInv, MembersOK, RequestsOK, project
  <1>5. CASE /\ inbox' = inbox \cup {WholeFile(s)}
             /\ db' = [db EXCEPT !.chunks = c]
             /\ Unpacked(f, TRUE)
    <2>1. DatabaseOK(db')
      BY <1>2, <1>5, OtherChunks DEF EntriesInv
    <2>2. inbox' \subseteq Mail
      BY <1>1, <1>5, WholeIsMail DEF EntriesInv
    <2>3. RoundOK'
      BY <1>5, UnpackedOK DEF EntriesInv
    <2> QED
      BY <1>3, <2>1, <2>2, <2>3 DEF EntriesInv, MembersOK, RequestsOK, project
  <1> QED
    BY <1>3, <1>4, <1>5

(* The time that passes keeps the types.                                    *)
LEMMA DueOK ==
    ASSUME NEW d, DatabaseOK(d)
    PROVE  DatabaseOK(AllDue(d))
  <1>1. MissingOK(MakeDue(d.missing)) /\ ChunksOK(MakeDue(d.chunks))
    BY ListsDue DEF DatabaseOK
  <1> QED
    BY <1>1, ListsOK DEF AllDue

(* Every step keeps the types.                                              *)
LEMMA EntriesNext == EntriesInv /\ [Next]_vars => EntriesInv'
  <1> SUFFICES ASSUME EntriesInv, [Next]_vars PROVE EntriesInv'
    OBVIOUS
  <1> USE DEF EntriesInv
  <1>1. CASE ProcessMail
    <2>1. inbox' = inbox /\ (round' = StartAttempt({}) \/ round' = [Idle EXCEPT !.pc = "missing"])
      BY <1>1 DEF ProcessMail
    <2>2. RoundOK'
      BY <2>1, AttemptOK DEF RoundOK, Idle
    <2> QED
      BY <1>1, <2>1, <2>2 DEF ProcessMail, MembersOK, RequestsOK, project, world
  <1>2. ASSUME NEW f \in round.todo, UnpackScript(f) PROVE EntriesInv'
    BY <1>2, UnpackScriptOK
  <1>3. ASSUME NEW f \in round.todo, UnpackDamaged(f) PROVE EntriesInv'
    BY <1>3, AbortOK DEF UnpackDamaged, MembersOK, RequestsOK, project, world
  <1>4. ASSUME NEW f \in round.todo, UnpackChunk(f) PROVE EntriesInv'
    BY <1>4, UnpackChunkOK
  <1>5. ASSUME NEW f \in round.todo, Reconstruct(f) PROVE EntriesInv'
    BY <1>5, ReconstructOK
  <1>6. CASE Commit
    <2>1. inbox' = inbox \ round.deleted
          /\ (round' = StartAttempt(round.skip) \/ round' = [Idle EXCEPT !.pc = "acks"])
      BY <1>6 DEF Commit
    <2>2. RoundOK'
      BY <2>1, AttemptOK DEF RoundOK, Idle
    <2> QED
      BY <1>6, <2>1, <2>2 DEF Commit, MembersOK, RequestsOK, project, world
  <1>7. CASE SendAcknowledgments
    <2>1. RoundOK'
      BY <1>7 DEF SendAcknowledgments, RoundOK, Idle
    <2> QED
      BY <1>7, <2>1 DEF SendAcknowledgments, MembersOK, RequestsOK, project, world
  <1>8. CASE ProcessMissingScripts
    BY <1>8, ProcessMissingOK
  <1>17. CASE SendRequests
    <2>1. RoundOK'
      BY <1>17 DEF SendRequests, RoundOK, Idle
    <2> QED
      BY <1>17, <2>1 DEF SendRequests, MembersOK, RequestsOK, project
  <1>9. ASSUME NEW f \in round.todo, SkipShared(f) PROVE EntriesInv'
    <2>1. RoundOK'
      BY <1>9 DEF SkipShared, RoundOK
    <2> QED
      BY <1>9, <2>1 DEF SkipShared, MembersOK, RequestsOK, project
  <1>10. CASE Stop \/ StopBeforeDelete
    <2>1. round' = Idle /\ inbox' = inbox
      BY <1>10 DEF Stop, StopBeforeDelete
    <2>2. RoundOK'
      BY <2>1 DEF RoundOK, Idle
    <2> QED
      BY <1>10, <2>1, <2>2 DEF Stop, StopBeforeDelete, MembersOK, RequestsOK, project
  <1>11. CASE TimePasses
    BY <1>11, DueOK DEF TimePasses, MembersOK, RequestsOK, RoundOK, project, world
  <1>12. ASSUME NEW s \in Script, Learn(s) PROVE EntriesInv'
    <2> DEFINE h == [db.history EXCEPT ![s] = "missing"]
    <2>1. h \in [Script -> {"unknown", "missing", "recorded"}]
      BY DEF DatabaseOK
    <2>2. db' = [db EXCEPT !.history = h] /\ saved' = db'
      BY <1>12 DEF Learn
    <2> HIDE DEF h
    <2>3. DatabaseOK(db')
      BY <2>1, <2>2, OtherHistory
    <2> QED
      BY <1>12, <2>2, <2>3 DEF Learn, MembersOK, RequestsOK, RoundOK, project, world
  <1>13. ASSUME NEW s \in Script, Send(s) PROVE EntriesInv'
    <2>1. inbox' \subseteq Mail /\ inbox \subseteq inbox' /\ spoilt' \subseteq Script
      BY <1>13, FormsAreMail, ArrivedIsMail DEF Send
    <2> QED
      BY <1>13, <2>1 DEF Send, MembersOK, RequestsOK, RoundOK, project
  <1>14. ASSUME NEW r \in requests, Answer(r) PROVE EntriesInv'
    <2>1. r \in Asking /\ (r.size # Whole => r.size \in Size /\ r.parts \in SUBSET Part(r.size))
      BY DEF RequestsOK, Asking
    <2>2. \A sent \in Forms(r.script) : sent \in SUBSET Mail
      BY <2>1, FormsAreMail DEF Asking
    <2>3. r.size # Whole => Chunks(r.script, r.size, r.parts) \in SUBSET Mail
      BY <2>1, ChunksAreMail DEF Asking
    <2>4. inbox' \subseteq Mail /\ inbox \subseteq inbox' /\ spoilt' \subseteq Script
      BY <1>14, <2>2, <2>3, ArrivedIsMail DEF Answer
    <2> QED
      BY <1>14, <2>4 DEF Answer, MembersOK, RequestsOK, RoundOK, project
  <1>15. ASSUME NEW m \in Member, Join(m) \/ Leave(m) PROVE EntriesInv'
    BY <1>15 DEF Join, Leave, MembersOK, RequestsOK, RoundOK, Candidates, world
  <1>16. CASE UNCHANGED vars
    BY <1>16 DEF vars, MembersOK, RequestsOK, RoundOK, project, world
  <1> QED
    BY <1>1, <1>2, <1>3, <1>4, <1>5, <1>6, <1>7, <1>8, <1>9, <1>10, <1>11, <1>12, <1>13,
       <1>14, <1>15, <1>16, <1>17 DEF Next, Work

(* They are right at first,                                                 *)
LEMMA EntriesInit == Init => EntriesInv
  <1> SUFFICES ASSUME Init PROVE EntriesInv
    OBVIOUS
  <1>1. MissingOK(<<>>) /\ ChunksOK(<<>>)
    BY DEF MissingOK, ChunksOK
  <1>2. DatabaseOK([history |-> [s \in Script |-> "unknown"], missing |-> <<>>, chunks |-> <<>>])
    BY <1>1 DEF DatabaseOK, IsRecord
  <1>3. RoundOK /\ MembersOK /\ RequestsOK
    BY SidetrackAssumption DEF Init, RoundOK, Idle, MembersOK, RequestsOK
  <1> QED
    BY <1>2, <1>3 DEF Init, EntriesInv

(* and ever after.                                                          *)
LEMMA EntriesAlways == Spec => []EntriesInv
  BY EntriesInit, EntriesNext, PTL DEF Spec

(***************************************************************************)
(* Type correctness.                                                        *)
(***************************************************************************)
THEOREM TypeCorrect == Spec => []TypeOK
  <1>1. EntriesInv => TypeOK
    <2> SUFFICES ASSUME EntriesInv PROVE TypeOK
      OBVIOUS
    <2>1. ASSUME NEW d, DatabaseOK(d) PROVE Database(d)
      <3>1. Seq(Member \cup {Nobody}) \subseteq Seq(Recipient)
        BY DEF Recipient
      <3>2. \A s \in DOMAIN d.missing : d.missing[s] \in MissingEntry
        BY <2>1, <3>1 DEF DatabaseOK, MissingOK, MissingGood, MissingEntry
      <3>3. \A s \in DOMAIN d.chunks : d.chunks[s] \in ChunkEntry
        BY <2>1, <3>1 DEF DatabaseOK, ChunksOK, ChunksGood, ChunkEntry
      <3> QED
        BY <2>1, <3>2, <3>3 DEF DatabaseOK, IsRecord, Database, MissingOK, ChunksOK
    <2>2. Mail \subseteq File
      BY DEF Mail
    <2> QED
      BY <2>1, <2>2 DEF TypeOK, EntriesInv, RoundOK, MembersOK
  <1> QED
    BY <1>1, EntriesAlways, PTL

(***************************************************************************)
(* In one round nobody is asked twice.                                      *)
(***************************************************************************)
THEOREM NobodyIsAskedTwice == Spec => []NobodyAskedTwice
  <1>1. EntriesInv => NobodyAskedTwice
    BY DEF EntriesInv, DatabaseOK, MissingOK, MissingGood, ChunksOK, ChunksGood, Round,
           NobodyAskedTwice, Recipients
  <1> QED
    BY <1>1, EntriesAlways, PTL

(***************************************************************************)
(* No entry has all its chunks.                                             *)
(***************************************************************************)
THEOREM SomethingIsAskedFor == Spec => []ChunksIncomplete
  <1>1. EntriesInv => ChunksIncomplete
    BY DEF EntriesInv, DatabaseOK, ChunksOK, ChunksGood, Incomplete, ChunksIncomplete
  <1> QED
    BY <1>1, EntriesAlways, PTL

----------------------------------------------------------------------------
(* What was received *)

Recorded(d, s) == d.history[s] = "recorded"

(* What need not be sent again.                                             *)
Held(s) == Recorded(saved, s) \/ WholeFile(s) \in inbox

(***************************************************************************)
(* What the transaction has recorded is still in the inbox unless it is     *)
(* committed, and files are deleted only when their scripts are recorded.   *)
(***************************************************************************)
HeldInv ==
    /\ \A s \in Script : Recorded(saved, s) => Recorded(db, s)
    /\ \A s \in Script : Recorded(db, s) => Held(s)
    /\ \A s \in box \cup acked : Held(s) /\ s \notin Historic
    /\ \A s \in Script \ Historic : WholeFile(s) \in round.deleted => Recorded(db, s)

(* The same scripts are recorded, on the disk or in the transaction.        *)
SavedAlike == \A s \in Script : Recorded(saved', s) <=> Recorded(saved, s)

DbAlike == \A s \in Script : Recorded(db', s) <=> Recorded(db, s)

(* When nothing is taken from the inbox, what is held stays so.             *)
LEMMA HeldOn ==
    ASSUME HeldInv, EntriesInv, inbox \subseteq inbox', SavedAlike, DbAlike,
           box' \cup acked' \subseteq box \cup acked,
           \A s \in Script \ Historic : WholeFile(s) \in round'.deleted =>
               WholeFile(s) \in round.deleted \/ Recorded(db, s)
    PROVE  HeldInv'
  <1>1. \A s \in Script : Held(s) => Held(s)'
    BY DEF Held, SavedAlike
  <1> QED
    BY <1>1 DEF HeldInv, SavedAlike, DbAlike, EntriesInv

(* An attempt that is aborted goes back to what is committed.               *)
LEMMA HeldAborted ==
    ASSUME HeldInv, EntriesInv, db' = saved, saved' = saved, inbox \subseteq inbox',
           box' \subseteq box, acked' = acked, round'.deleted = {}
    PROVE  HeldInv'
  <1>1. \A s \in Script : Held(s) => Held(s)'
    BY DEF Held
  <1>2. \A s \in Script : Recorded(db', s) => Held(s)'
    BY DEF Held
  <1> QED
    BY <1>1, <1>2 DEF HeldInv, EntriesInv

(* Committing makes what is recorded last, and may then delete files.       *)
LEMMA HeldCommitted ==
    ASSUME HeldInv, EntriesInv, saved' = db, db' = db, inbox \ round.deleted \subseteq inbox',
           box' \subseteq box, acked' = acked, round'.deleted = {}
    PROVE  HeldInv'
  <1>1. ASSUME NEW s \in Script \ Historic, Held(s) PROVE Held(s)'
    <2>1. CASE Recorded(saved, s)
      BY <2>1 DEF HeldInv, Held
    <2>2. CASE WholeFile(s) \in inbox /\ WholeFile(s) \in round.deleted
      BY <2>2 DEF HeldInv, Held
    <2>3. CASE WholeFile(s) \in inbox /\ WholeFile(s) \notin round.deleted
      BY <2>3 DEF HeldInv, Held
    <2> QED
      BY <1>1, <2>1, <2>2, <2>3 DEF Held
  <1>2. \A s \in Script : Recorded(db', s) => Held(s)'
    BY DEF Held
  <1> QED
    BY <1>1, <1>2 DEF HeldInv, EntriesInv

(* Other histories.                                                         *)
LEMMA NotRecorded ==
    ASSUME NEW d, DatabaseOK(d), NEW s \in Script
    PROVE  /\ d.history[s] # "recorded" =>
                \A x \in Script : Recorded([d EXCEPT !.history[s] = "missing"], x) <=> Recorded(d, x)
           /\ \A x \in Script : Recorded([d EXCEPT !.history[s] = "recorded"], x)
                                   <=> x = s \/ Recorded(d, x)
  <1>1. d.history \in [Script -> {"unknown", "missing", "recorded"}] /\ IsRecord(d)
    BY DEF DatabaseOK
  <1> DEFINE h == [d.history EXCEPT ![s] = "missing"]
             r == [d.history EXCEPT ![s] = "recorded"]
  <1>2. /\ [d EXCEPT !.history[s] = "missing"].history = h
        /\ [d EXCEPT !.history[s] = "recorded"].history = r
    BY <1>1 DEF IsRecord
  <1> QED
    BY <1>1, <1>2 DEF Recorded

(* The lists are not the history.                                           *)
LEMMA HistoryKept ==
    ASSUME NEW d, DatabaseOK(d)
    PROVE  /\ AllDue(d).history = d.history
           /\ \A s, e : [d EXCEPT !.chunks[s] = e].history = d.history
           /\ \A m, c : WithLists(d, m, c).history = d.history
  <1>1. IsRecord(d)
    BY DEF DatabaseOK
  <1>2. \A s, e : [d EXCEPT !.chunks[s] = e].history = d.history
    BY <1>1 DEF IsRecord
  <1> QED
    BY <1>2 DEF AllDue, WithLists

(* Every step keeps what is held.                                           *)
LEMMA HeldNext == EntriesInv /\ HeldInv /\ [Next]_vars => HeldInv'
  <1> SUFFICES ASSUME EntriesInv, HeldInv, [Next]_vars PROVE HeldInv'
    OBVIOUS
  <1>0. /\ DatabaseOK(db) /\ DatabaseOK(saved) /\ RoundOK
        /\ round.todo \subseteq inbox /\ inbox \subseteq Mail
    BY DEF EntriesInv, RoundOK
  <1>01. UNCHANGED saved => SavedAlike
    BY DEF SavedAlike
  <1>02. UNCHANGED db => DbAlike
    BY DEF DbAlike
  <1>1. CASE ProcessMail
    <2>1. UNCHANGED <<db, saved, inbox, box, acked>> /\ round'.deleted = {}
      BY <1>1 DEF ProcessMail, StartAttempt, Idle
    <2> QED
      BY <1>01, <1>02, <2>1, HeldOn
  <1>2. ASSUME NEW f \in round.todo, UnpackScript(f) PROVE HeldInv'
    <2>1. f = WholeFile(f.script) /\ f.script \in Script /\ f \in inbox
      BY <1>0, <1>2 DEF UnpackScript, WholeFile, Whole, Mail, File
    <2>2. UNCHANGED <<saved, inbox, acked>> /\ round'.deleted = round.deleted \cup {f}
      BY <1>0, <1>2 DEF UnpackScript, Unpacked, RoundOK
    <2>3. CASE f.script \in Historic
      <3>1. UNCHANGED <<db, box>>
        BY <1>2, <2>3 DEF UnpackScript
      <3>2. \A s \in Script \ Historic : WholeFile(s) # f
        BY <2>3 DEF WholeFile
      <3> QED
        BY <1>01, <1>02, <2>2, <3>1, <3>2, HeldOn
    <2>4. CASE f.script \notin Historic
      <3>1. db' = [db EXCEPT !.history[f.script] = "recorded"] /\ box' = box \cup {f.script}
        BY <1>2, <2>4 DEF UnpackScript
      <3>2. \A x \in Script : Recorded(db', x) <=> x = f.script \/ Recorded(db, x)
        BY <1>0, <2>1, <3>1, NotRecorded
      <3>3. \A s \in Script : Held(s)' <=> Held(s)
        BY <2>2 DEF Held
      <3>4. Held(f.script)
        BY <2>1 DEF Held
      <3>5. \A s \in Script : WholeFile(s) = f => s = f.script
        BY DEF WholeFile
      <3>6. box \subseteq Script /\ acked \subseteq Script
        BY DEF EntriesInv
      <3>7. \A s \in Script : Recorded(saved', s) => Recorded(db', s)
        BY <2>2, <3>2 DEF HeldInv
      <3>8. \A s \in Script : Recorded(db', s) => Held(s)'
        BY <3>2, <3>3, <3>4 DEF HeldInv
      <3>9. \A s \in box' \cup acked' : Held(s)' /\ s \notin Historic
        BY <2>1, <2>2, <2>4, <3>1, <3>3, <3>4, <3>6 DEF HeldInv
      <3>10. \A s \in Script \ Historic : WholeFile(s) \in round'.deleted => Recorded(db', s)
        BY <2>2, <3>2, <3>5 DEF HeldInv
      <3> QED
        BY <3>7, <3>8, <3>9, <3>10 DEF HeldInv
    <2> QED
      BY <2>3, <2>4
  <1>3. ASSUME NEW f \in round.todo, UnpackDamaged(f) PROVE HeldInv'
    <2>1. db' = saved /\ UNCHANGED <<saved, inbox, box, acked>> /\ round'.deleted = {}
      BY <1>3 DEF UnpackDamaged, Abort, StartAttempt, Idle
    <2> QED
      BY <2>1, HeldAborted
  <1>4. ASSUME NEW f \in round.todo, UnpackChunk(f) PROVE HeldInv'
    <2>1. ChunkAdded(f, db, db')
      BY <1>0, <1>4, ChunkUnpacked DEF EntriesInv
    <2>2. UNCHANGED <<saved, inbox, box, acked>> /\ round'.deleted = round.deleted \cup {f} /\ f.size # Whole
      BY <1>0, <1>4 DEF UnpackChunk, Unpacked, RoundOK
    <2>3. DbAlike
      BY <2>1 DEF ChunkAdded, DbAlike, Recorded
    <2>4. \A s : WholeFile(s) # f
      BY <2>2 DEF WholeFile
    <2> QED
      BY <1>01, <2>2, <2>3, <2>4, HeldOn
  <1>5. ASSUME NEW f \in round.todo, Reconstruct(f) PROVE HeldInv'
    <2>1. UNCHANGED <<saved, box, acked>> /\ f.size # Whole
      BY <1>5 DEF Reconstruct
    <2>2. CASE Abort(f)
      <3>1. db' = saved /\ inbox' = inbox /\ round'.deleted = {}
        BY <2>2 DEF Abort, StartAttempt, Idle
      <3> QED
        BY <2>1, <3>1, HeldAborted
    <2>3. CASE ~Abort(f)
      <3>1. /\ inbox \subseteq inbox'
            /\ db' = [db EXCEPT !.chunks[f.script] = Restarted(@)]
            /\ round'.deleted = round.deleted \cup {f}
        BY <1>0, <1>5, <2>3 DEF Reconstruct, Unpacked, RoundOK
      <3>2. DbAlike
        BY <1>0, <3>1, HistoryKept DEF DbAlike, Recorded
      <3>3. \A s : WholeFile(s) # f
        BY <2>1 DEF WholeFile
      <3> QED
        BY <1>01, <2>1, <3>1, <3>2, <3>3, HeldOn
    <2> QED
      BY <2>2, <2>3
  <1>6. CASE Commit
    <2>1. saved' = db /\ inbox' = inbox \ round.deleted /\ UNCHANGED <<db, box, acked>>
          /\ round'.deleted = {}
      BY <1>6 DEF Commit, StartAttempt, Idle
    <2> QED
      BY <2>1, HeldCommitted
  <1>7. CASE SendAcknowledgments
    <2>1. UNCHANGED <<db, saved, inbox>> /\ box' \cup acked' \subseteq box \cup acked
          /\ round'.deleted = {}
      BY <1>7 DEF SendAcknowledgments, Idle
    <2> QED
      BY <1>01, <1>02, <2>1, HeldOn
  <1>8. CASE ProcessMissingScripts
    <2>1. /\ db'.history = db.history /\ saved' = db'
          /\ UNCHANGED <<inbox, box, acked>> /\ round'.deleted = {}
      BY <1>8 DEF ProcessMissingScripts, WithLists, Idle
    <2>2. \A s \in Script : /\ Recorded(db', s) <=> Recorded(db, s)
                            /\ Recorded(saved', s) <=> Recorded(db, s)
                            /\ Held(s) => Held(s)'
      BY <2>1 DEF Recorded, Held, HeldInv
    <2> QED
      BY <2>1, <2>2 DEF HeldInv, Held, EntriesInv
  <1>18. CASE SendRequests
    <2>1. UNCHANGED <<db, saved, inbox, box, acked>> /\ round'.deleted = {}
      BY <1>18 DEF SendRequests, Idle
    <2> QED
      BY <1>01, <1>02, <2>1, HeldOn
  <1>9. ASSUME NEW f \in round.todo, SkipShared(f) PROVE HeldInv'
    <2>1. UNCHANGED <<db, saved, inbox, box, acked>> /\ round'.deleted = round.deleted
      BY <1>0, <1>9 DEF SkipShared, RoundOK
    <2> QED
      BY <1>01, <1>02, <2>1, HeldOn
  <1>10. CASE Stop
    <2>1. db' = saved /\ UNCHANGED <<saved, inbox, acked>> /\ box' = {} /\ round'.deleted = {}
      BY <1>10 DEF Stop, Idle
    <2> QED
      BY <2>1, HeldAborted
  <1>11. CASE StopBeforeDelete
    <2>1. saved' = db /\ UNCHANGED <<db, inbox, acked>> /\ box' = {} /\ round'.deleted = {}
      BY <1>11 DEF StopBeforeDelete, Idle
    <2> QED
      BY <2>1, HeldCommitted
  <1>12. CASE TimePasses
    <2>1. db' = AllDue(db) /\ saved' = AllDue(saved) /\ UNCHANGED <<inbox, round, box, acked>>
      BY <1>12 DEF TimePasses
    <2>2. DbAlike /\ SavedAlike
      BY <1>0, <2>1, HistoryKept DEF DbAlike, SavedAlike, Recorded
    <2> QED
      BY <2>1, <2>2, HeldOn
  <1>13. ASSUME NEW s \in Script, Learn(s) PROVE HeldInv'
    <2>1. /\ db.history[s] # "recorded" /\ db' = [db EXCEPT !.history[s] = "missing"] /\ saved' = db'
          /\ UNCHANGED <<inbox, round, box, acked>>
      BY <1>13 DEF Learn
    <2>2. \A x \in Script : Recorded(db', x) <=> Recorded(db, x)
      BY <1>0, <2>1, NotRecorded
    <2>3. \A x \in Script : /\ Recorded(saved', x) <=> Recorded(db, x)
                            /\ Held(x) => Held(x)'
      BY <2>1, <2>2 DEF Held, HeldInv
    <2> QED
      BY <2>1, <2>2, <2>3 DEF HeldInv, Held, EntriesInv
  <1>14. ASSUME NEW s \in Script, Send(s) PROVE HeldInv'
    <2>1. UNCHANGED <<db, saved, round, box, acked>> /\ inbox \subseteq inbox'
      BY <1>14 DEF Send, Arrive
    <2> QED
      BY <1>01, <1>02, <2>1, HeldOn
  <1>15. ASSUME NEW r \in requests, Answer(r) PROVE HeldInv'
    <2>1. UNCHANGED <<db, saved, round, box, acked>> /\ inbox \subseteq inbox'
      BY <1>15 DEF Answer, Arrive
    <2> QED
      BY <1>01, <1>02, <2>1, HeldOn
  <1>16. ASSUME NEW m \in Member, Join(m) \/ Leave(m) PROVE HeldInv'
    <2>1. UNCHANGED <<db, saved, inbox, round, box, acked>>
      BY <1>16 DEF Join, Leave
    <2> QED
      BY <1>01, <1>02, <2>1, HeldOn
  <1>17. CASE UNCHANGED vars
    <2>1. UNCHANGED <<db, saved, inbox, round, box, acked>>
      BY <1>17 DEF vars
    <2> QED
      BY <1>01, <1>02, <2>1, HeldOn
  <1> QED
    BY <1>1, <1>2, <1>3, <1>4, <1>5, <1>6, <1>7, <1>8, <1>9, <1>10, <1>11, <1>12, <1>13,
       <1>14, <1>15, <1>16, <1>17, <1>18 DEF Next, Work

(* Nothing is held at first.                                                *)
LEMMA HeldInit == Init => HeldInv
  BY DEF Init, HeldInv, Recorded, Idle

(***************************************************************************)
(* What was acknowledged is in the history that is committed, or still in   *)
(* the inbox, also when acknowledgments of an aborted attempt were sent.    *)
(***************************************************************************)
THEOREM AcknowledgedStays == Spec => []AcknowledgedIsKept
  <1>1. Init => HeldInv
    BY HeldInit
  <1>2. HeldInv => AcknowledgedIsKept
    BY DEF HeldInv, Held, Recorded, AcknowledgedIsKept
  <1> QED
    BY <1>1, <1>2, EntriesAlways, HeldNext, PTL DEF Spec

----------------------------------------------------------------------------
(* Chunks that are kept *)

ChunkFile(s, z, p) == [script |-> s, size |-> z, part |-> p, ok |-> TRUE]

(* The chunks of an entry are among the files.                              *)
Stored(s, e, files) == \A p \in e.received : ChunkFile(s, e.size, p) \in files

(* What a database says was received, these files and this inbox have, but  *)
(* for bad scripts.                                                         *)
KeptIn(d, files, mail, bad) ==
    \A s \in DOMAIN d.chunks \ bad :
        Stored(s, d.chunks[s], files) \/ Recorded(d, s) \/ WholeFile(s) \in mail

(* No chunk is damaged but those of scripts known to be spoilt.             *)
Undamaged == \A f \in inbox \cup disk : f.size # Whole /\ f.script \notin spoilt => f.ok

(***************************************************************************)
(* Chunks that are recorded as received are on the disk, unless the script  *)
(* is whole: in the transaction, and when it is aborted.  This is so for    *)
(* every script of which no chunk was damaged on its way.                   *)
(***************************************************************************)
KeptInv == KeptIn(db, disk, inbox, spoilt) /\ KeptIn(saved, disk, inbox, spoilt) /\ Undamaged

(* A database whose entries say no more is kept by files that hold no less. *)
LEMMA KeptOn ==
    ASSUME NEW bad, NEW d, NEW files, NEW mail, KeptIn(d, files, mail, bad), NEW dd, NEW files2,
           NEW mail2, mail \subseteq mail2,
           \A s \in DOMAIN dd.chunks \ bad :
               /\ s \in DOMAIN d.chunks
               /\ dd.chunks[s].received = {}
                  \/ (dd.chunks[s].received = d.chunks[s].received /\ dd.chunks[s].size = d.chunks[s].size)
               /\ Recorded(d, s) => Recorded(dd, s),
           \A s \in DOMAIN dd.chunks \ bad :
               WholeFile(s) \in mail2 \/ \A z, p : ChunkFile(s, z, p) \in files => ChunkFile(s, z, p) \in files2
    PROVE  KeptIn(dd, files2, mail2, bad)
  BY DEF KeptIn, Stored

(* As long as chunks are whole a stored one takes nobody's place.           *)
LEMMA StoredOver ==
    ASSUME EntriesInv, Undamaged, NEW f \in inbox, f.size # Whole, f.script \notin spoilt
    PROVE  f = ChunkFile(f.script, f.size, f.part) /\ disk \cup {f} \subseteq StoredFiles(f)
  <1>1. f \in File /\ f.ok
    BY DEF EntriesInv, Mail, Undamaged
  <1>2. ASSUME NEW g \in disk, SameChunk(f, g) PROVE g = f
    <2>1. g \in File /\ g.ok
      BY <1>2 DEF EntriesInv, Undamaged, SameChunk
    <2> QED
      BY <1>1, <1>2, <2>1 DEF File, SameChunk
  <1>3. f = ChunkFile(f.script, f.size, f.part)
    BY <1>1 DEF File, ChunkFile
  <1> QED
    BY <1>2, <1>3 DEF StoredFiles

(* A chunk that is stored is kept with those that were.                     *)
LEMMA KeptUnpacked ==
    ASSUME EntriesInv, KeptInv, NEW f \in round.todo, UnpackChunk(f)
    PROVE  KeptIn(db', disk', inbox', spoilt') /\ KeptIn(saved', disk', inbox', spoilt') /\ disk' \subseteq disk \cup {f}
  <1> DEFINE s == f.script
  <1>1. f \in inbox /\ f \in Mail /\ f.size # Whole /\ UNCHANGED <<saved, inbox, spoilt>>
    BY DEF EntriesInv, RoundOK, UnpackChunk, world
  <1>2. s \notin spoilt => f = ChunkFile(s, f.size, f.part) /\ disk \cup {f} \subseteq StoredFiles(f)
    BY <1>1, StoredOver DEF KeptInv
  <1>3. /\ DatabaseOK(db') /\ ChunkAdded(f, db, db')
        /\ disk' = (IF s \in DOMAIN db.chunks /\ db.chunks[s].size # f.size
                    THEN disk ELSE StoredFiles(f))
                      \ (IF s \in Historic THEN FilesOf(s) \cup {f} ELSE {})
    BY <1>1, ChunkUnpacked DEF EntriesInv
  <1>4. DOMAIN db'.chunks \subseteq Script \ Historic /\ DOMAIN saved.chunks \subseteq Script \ Historic
    BY <1>3 DEF EntriesInv, DatabaseOK, ChunksOK
  <1>5. StoredFiles(f) \subseteq disk \cup {f}
    BY DEF StoredFiles
  <1>6. ASSUME NEW x \in (Script \ Historic) \ spoilt, NEW z, NEW p, ChunkFile(x, z, p) \in disk
        PROVE  ChunkFile(x, z, p) \in disk'
    <2>0. ChunkFile(x, z, p) \in StoredFiles(f)
      <3>1. CASE x = s
        BY <1>2, <1>6, <3>1
      <3>2. CASE x # s
        <4>1. ~SameChunk(f, ChunkFile(x, z, p))
          BY <3>2 DEF SameChunk, ChunkFile
        <4> QED
          BY <1>6, <4>1 DEF StoredFiles
      <3> QED
        BY <3>1, <3>2
    <2>1. CASE s \notin Historic
      BY <1>3, <1>6, <2>0, <2>1
    <2>2. CASE s \in Historic
      <3>1. ChunkFile(x, z, p).script = x /\ x # s
        BY <2>2 DEF ChunkFile
      <3>2. ChunkFile(x, z, p) \notin FilesOf(s) /\ ChunkFile(x, z, p) # f
        BY <3>1 DEF FilesOf
      <3> QED
        BY <1>3, <1>6, <2>0, <3>2
    <2> QED
      BY <2>1, <2>2
  <1>7. KeptIn(saved', disk', inbox', spoilt')
    BY <1>1, <1>4, <1>6, KeptOn DEF KeptInv
  <1>8. ASSUME NEW x \in DOMAIN db'.chunks \ spoilt
        PROVE  Stored(x, db'.chunks[x], disk') \/ Recorded(db', x) \/ WholeFile(x) \in inbox'
    <2>1. x \in (Script \ Historic) \ spoilt /\ (Recorded(db', x) <=> Recorded(db, x))
      BY <1>3, <1>4 DEF ChunkAdded, Recorded
    <2>2. CASE x # s
      <3>1. x \in DOMAIN db.chunks /\ db'.chunks[x] = db.chunks[x]
        BY <1>3, <2>1, <2>2 DEF ChunkAdded
      <3> QED
        BY <1>1, <1>6, <2>1, <3>1 DEF KeptInv, KeptIn, Stored
    <2>3. CASE x = s
      <3>1. SameEntry(s, db, db'.chunks[s]) \/ WithChunk(f, db, db'.chunks[s])
        BY <1>3, <2>1, <2>3 DEF ChunkAdded
      <3>2. CASE SameEntry(s, db, db'.chunks[s])
        BY <1>1, <1>6, <2>1, <2>3, <3>2 DEF SameEntry, KeptInv, KeptIn, Stored
      <3>3. CASE WithChunk(f, db, db'.chunks[s])
        <4>1. ChunkFile(s, f.size, f.part) \in disk'
          BY <1>2, <1>3, <2>1, <2>3, <3>3 DEF WithChunk
        <4>2. CASE s \in DOMAIN db.chunks
          <5>1. Stored(s, db.chunks[s], disk) \/ Recorded(db, s) \/ WholeFile(s) \in inbox
            BY <2>3, <4>2 DEF KeptInv, KeptIn
          <5>2. db'.chunks[s].size = f.size /\ db.chunks[s].size = f.size
                /\ db'.chunks[s].received = {f.part} \cup db.chunks[s].received
            BY <3>3, <4>2 DEF WithChunk
          <5>3. Stored(s, db.chunks[s], disk) => Stored(s, db'.chunks[s], disk')
            BY <1>6, <2>1, <2>3, <4>1, <5>2 DEF Stored
          <5> QED
            BY <1>1, <2>1, <2>3, <5>1, <5>3
        <4>3. CASE s \notin DOMAIN db.chunks
          BY <2>3, <3>3, <4>1, <4>3 DEF WithChunk, Stored
        <4> QED
          BY <4>2, <4>3
      <3> QED
        BY <3>1, <3>2, <3>3
    <2> QED
      BY <2>2, <2>3
  <1> QED
    BY <1>1, <1>3, <1>5, <1>7, <1>8 DEF KeptIn

(***************************************************************************)
(* The chunks' files go when the script is whole.  Where they are not all   *)
(* readable although none was damaged, the script was put together before:  *)
(* it is in the inbox, or recorded.                                         *)
(***************************************************************************)
LEMMA KeptReconstructed ==
    ASSUME EntriesInv, HeldInv, KeptInv, NEW f \in round.todo, Reconstruct(f)
    PROVE  KeptIn(db', disk', inbox', spoilt') /\ KeptIn(saved', disk', inbox', spoilt')
  <1> DEFINE s == f.script
             e == db.chunks[s]
             readable == \A p \in Part(f.size) : [f EXCEPT !.part = p, !.ok = TRUE] \in StoredFiles(f)
  <1>1. /\ f \in inbox /\ f \in Mail /\ f.size # Whole /\ UNCHANGED <<saved, spoilt>>
        /\ s \in DOMAIN db.chunks /\ e.size = f.size /\ e.received \cup {f.part} = Part(f.size)
        /\ disk' = disk \ FilesOf(s) /\ s \in Script
    BY DEF EntriesInv, RoundOK, Reconstruct, IsLastChunk, Mail, File, world
  <1>2. s \notin spoilt => f = ChunkFile(s, f.size, f.part) /\ disk \cup {f} \subseteq StoredFiles(f)
    BY <1>1, StoredOver DEF KeptInv
  <1>3. ASSUME NEW x, x # s, NEW z, NEW p, ChunkFile(x, z, p) \in disk
        PROVE  ChunkFile(x, z, p) \in disk'
    <2>1. ChunkFile(x, z, p).script = x
      BY DEF ChunkFile
    <2> QED
      BY <1>1, <1>3, <2>1 DEF FilesOf
  <1>4. CASE readable
    <2>1. inbox' = inbox \cup {WholeFile(s)} /\ db' = [db EXCEPT !.chunks[s] = Restarted(@)]
      BY <1>4 DEF Reconstruct
    <2>2. KeptIn(saved', disk', inbox', spoilt')
      <3>1. \A x \in DOMAIN saved.chunks : WholeFile(x) \in inbox' \/
               \A z, p : ChunkFile(x, z, p) \in disk => ChunkFile(x, z, p) \in disk'
        BY <1>3, <2>1
      <3>2. inbox \subseteq inbox'
        BY <2>1
      <3> QED
        BY <1>1, <3>1, <3>2, KeptOn DEF KeptInv
    <2>3. KeptIn(db', disk', inbox', spoilt')
      <3>1. IsRecord(db) /\ ChunksGood(e)
        BY <1>1 DEF EntriesInv, DatabaseOK, ChunksOK
      <3>2. /\ DOMAIN db'.chunks = DOMAIN db.chunks /\ db'.history = db.history
            /\ \A x \in DOMAIN db.chunks \ {s} : db'.chunks[x] = db.chunks[x]
        BY <2>1, <3>1 DEF IsRecord
      <3>3. ASSUME NEW x \in DOMAIN db'.chunks \ spoilt
            PROVE  Stored(x, db'.chunks[x], disk') \/ Recorded(db', x) \/ WholeFile(x) \in inbox'
        <4>1. CASE x = s
          BY <2>1, <4>1
        <4>2. CASE x # s
          BY <1>3, <2>1, <3>2, <4>2 DEF KeptInv, KeptIn, Stored, Recorded
        <4> QED
          BY <4>1, <4>2
      <3> QED
        BY <1>1, <3>3 DEF KeptIn
    <2> QED
      BY <2>2, <2>3
  <1>5. CASE ~readable
    <2>1. db' = saved /\ inbox' = inbox
      BY <1>5 DEF Reconstruct, Abort
    <2>2. s \notin spoilt => ~Stored(s, e, disk)
      <3> SUFFICES ASSUME s \notin spoilt, Stored(s, e, disk), NEW p \in Part(f.size)
                   PROVE  [f EXCEPT !.part = p, !.ok = TRUE] \in StoredFiles(f)
        BY <1>5
      <3>1. [f EXCEPT !.part = p, !.ok = TRUE] = ChunkFile(s, f.size, p)
        <4> DEFINE g == [f EXCEPT !.part = p, !.ok = TRUE]
                   c == ChunkFile(s, f.size, p)
        <4>1. f \in File /\ p \in Nat
          BY <1>1 DEF Mail, Part
        <4>2. g \in File /\ g.script = s /\ g.size = f.size /\ g.part = p /\ g.ok = TRUE
          BY <4>1 DEF File
        <4>3. c \in File /\ c.script = s /\ c.size = f.size /\ c.part = p /\ c.ok = TRUE
          BY <4>1 DEF File, ChunkFile
        <4> HIDE DEF g, c
        <4>4. g = c
          BY <4>2, <4>3 DEF File
        <4> QED
          BY <4>4 DEF g, c
      <3>2. ChunkFile(s, f.size, p) \in disk \cup {f}
        BY <1>1, <1>2 DEF Stored
      <3> QED
        BY <1>2, <3>1, <3>2
    <2>3. s \notin spoilt => Held(s)
      BY <1>1, <2>2 DEF KeptInv, KeptIn, HeldInv, Held
    <2>4. ASSUME NEW x \in DOMAIN saved.chunks \ spoilt
          PROVE  Stored(x, saved.chunks[x], disk') \/ Recorded(saved, x) \/ WholeFile(x) \in inbox
      <3>1. CASE x = s
        BY <2>3, <3>1 DEF Held
      <3>2. CASE x # s
        BY <1>3, <3>2 DEF KeptInv, KeptIn, Stored
      <3> QED
        BY <3>1, <3>2
    <2> QED
      BY <1>1, <2>1, <2>4 DEF KeptIn
  <1> QED
    BY <1>4, <1>5

(* What is not listed any more goes from the list and from the disk.        *)
LEMMA KeptListed ==
    ASSUME EntriesInv, KeptInv, ProcessMissingScripts
    PROVE  KeptIn(db', disk', inbox', spoilt') /\ KeptIn(saved', disk', inbox', spoilt') /\ disk' \subseteq disk
  <1> DEFINE gone == DOMAIN db.chunks \ {s \in Script : IsMissing(s)}
             c == Asked(Without(db.chunks, gone))
  <1>1. /\ db'.chunks = c /\ db'.history = db.history /\ saved' = db' /\ UNCHANGED <<inbox, spoilt>>
        /\ disk' = disk \ UNION {FilesOf(s) : s \in gone}
    BY DEF ProcessMissingScripts, WithLists
  <1>2. ASSUME NEW s \in DOMAIN c
        PROVE  s \in DOMAIN db.chunks \ gone /\ c[s].size = db.chunks[s].size
               /\ c[s].received = db.chunks[s].received
    <2>1. s \in DOMAIN db.chunks \ gone /\ (c[s] = db.chunks[s] \/ c[s] = Updated(db.chunks[s]))
      BY DEF Asked, Without
    <2>2. ChunksGood(db.chunks[s])
      BY <2>1 DEF EntriesInv, DatabaseOK, ChunksOK
    <2>3. Updated(db.chunks[s]).size = db.chunks[s].size
          /\ Updated(db.chunks[s]).received = db.chunks[s].received
      BY <2>2 DEF ChunksGood, Updated
    <2> QED
      BY <2>1, <2>3
  <1>3. ASSUME NEW x, x \notin gone, NEW z, NEW p, ChunkFile(x, z, p) \in disk
        PROVE  ChunkFile(x, z, p) \in disk'
    <2>1. ChunkFile(x, z, p).script = x
      BY DEF ChunkFile
    <2>2. \A s \in gone : ChunkFile(x, z, p) \notin FilesOf(s)
      BY <1>3, <2>1 DEF FilesOf
    <2> HIDE DEF gone
    <2> QED
      BY <1>1, <1>3, <2>2
  <1> HIDE DEF c, gone
  <1>4. KeptIn(db', disk', inbox', spoilt')
    BY <1>1, <1>2, <1>3, KeptOn DEF KeptInv, Recorded
  <1> QED
    BY <1>1, <1>4

(* The time that passes keeps chunks.                                       *)
LEMMA DueKept ==
    ASSUME NEW d, DatabaseOK(d), KeptIn(d, disk, inbox, spoilt)
    PROVE  KeptIn(AllDue(d), disk, inbox, spoilt)
  <1>1. AllDue(d).chunks = MakeDue(d.chunks) /\ AllDue(d).history = d.history
    BY DEF AllDue, WithLists
  <1>2. ASSUME NEW s \in DOMAIN MakeDue(d.chunks)
        PROVE  /\ s \in DOMAIN d.chunks
               /\ MakeDue(d.chunks)[s].size = d.chunks[s].size
               /\ MakeDue(d.chunks)[s].received = d.chunks[s].received
    BY DEF MakeDue, DatabaseOK, ChunksOK, ChunksGood
  <1> QED
    BY <1>1, <1>2, KeptOn DEF Recorded

(* Chunks are sent undamaged,                                               *)
LEMMA OkChunks ==
    ASSUME NEW s, NEW z, NEW ps, NEW f \in Chunks(s, z, ps)
    PROVE  f.ok
  <1>1. PICK p \in ps : f = [script |-> s, size |-> z, part |-> p, ok |-> TRUE]
    BY DEF Chunks
  <1>2. f.ok = TRUE
    BY <1>1
  <1> QED
    BY <1>2

(* and arrive so, unless their script is spoilt.                            *)
LEMMA ArrivedUndamaged ==
    ASSUME Undamaged, NEW sent, \A f \in sent : f \in File /\ f.ok, Arrive(sent), disk' = disk
    PROVE  Undamaged' /\ spoilt \subseteq spoilt'
  <1>1. CASE inbox' \subseteq inbox \cup sent /\ spoilt' = spoilt
    BY <1>1 DEF Undamaged
  <1>2. ASSUME NEW f \in sent,
               inbox' = inbox \cup (sent \ {f}) \cup {[f EXCEPT !.ok = FALSE]},
               spoilt' = IF f.size = Whole THEN spoilt ELSE spoilt \cup {f.script}
        PROVE  Undamaged' /\ spoilt \subseteq spoilt'
    <2> DEFINE g == [f EXCEPT !.ok = FALSE]
    <2>1. g.size = f.size /\ g.script = f.script
      BY <1>2 DEF File
    <2> HIDE DEF g
    <2>2. g.size # Whole => g.script \in spoilt'
      BY <1>2, <2>1
    <2>3. inbox' = inbox \cup (sent \ {f}) \cup {g} /\ spoilt \subseteq spoilt'
      BY <1>2 DEF g
    <2> QED
      BY <2>2, <2>3 DEF Undamaged
  <1> QED
    BY <1>1, <1>2 DEF Arrive

(* Every step keeps the chunks.                                             *)
LEMMA KeptNext == EntriesInv /\ HeldInv /\ KeptInv /\ [Next]_vars => KeptInv'
  <1> SUFFICES ASSUME EntriesInv, HeldInv, KeptInv, [Next]_vars
               PROVE  KeptIn(db', disk', inbox', spoilt') /\ KeptIn(saved', disk', inbox', spoilt') /\ Undamaged'
    BY DEF KeptInv, KeptIn, Stored, Recorded
  <1> DEFINE Goal == KeptIn(db', disk', inbox', spoilt') /\ KeptIn(saved', disk', inbox', spoilt') /\ Undamaged'
  <1>0. /\ DatabaseOK(db) /\ DatabaseOK(saved) /\ round.todo \subseteq inbox
        /\ KeptIn(db, disk, inbox, spoilt) /\ KeptIn(saved, disk, inbox, spoilt) /\ Undamaged
    BY DEF EntriesInv, RoundOK, KeptInv
  <1>01. inbox \subseteq inbox' /\ spoilt \subseteq spoilt' /\ UNCHANGED <<db, saved, disk>>
         => KeptIn(db', disk', inbox', spoilt') /\ KeptIn(saved', disk', inbox', spoilt')
    BY <1>0 DEF KeptIn
  <1>02. inbox' \subseteq inbox /\ disk' \subseteq disk /\ spoilt' = spoilt => Undamaged'
    BY <1>0 DEF Undamaged
  <1>1. CASE ProcessMail \/ SendAcknowledgments \/ SendRequests
    BY <1>1, <1>01, <1>02 DEF ProcessMail, SendAcknowledgments, SendRequests, world
  <1>2. ASSUME NEW f \in round.todo, UnpackScript(f) PROVE Goal
    <2>1. UNCHANGED <<saved, disk, inbox, spoilt>>
          /\ (db' = db \/ db' = [db EXCEPT !.history[f.script] = "recorded"])
      BY <1>2 DEF UnpackScript, world
    <2>2. f.script \in Script
      BY <1>0 DEF EntriesInv, Mail, File
    <2>3. DatabaseOK(db) => [db EXCEPT !.history[f.script] = "recorded"].chunks = db.chunks
      BY DEF DatabaseOK, IsRecord
    <2>4. DOMAIN db.chunks \subseteq Script
      BY <1>0 DEF DatabaseOK, ChunksOK
    <2>5. \A s \in Script : Recorded(db, s) => Recorded(db', s)
      <3>1. \A s \in Script : Recorded(db, s) => Recorded([db EXCEPT !.history[f.script] = "recorded"], s)
        BY <1>0, <2>2, NotRecorded
      <3> QED
        BY <2>1, <3>1
    <2>6. db'.chunks = db.chunks
      BY <1>0, <2>1, <2>3
    <2>7. KeptIn(db', disk', inbox', spoilt')
      BY <1>0, <2>1, <2>4, <2>5, <2>6 DEF KeptIn
    <2> QED
      BY <1>0, <1>02, <2>1, <2>7
  <1>3. ASSUME NEW f \in round.todo, UnpackDamaged(f) PROVE Goal
    BY <1>0, <1>02, <1>3 DEF UnpackDamaged, Abort, world
  <1>4. ASSUME NEW f \in round.todo, UnpackChunk(f) PROVE Goal
    <2>1. disk' \subseteq disk \cup {f} /\ UNCHANGED <<inbox, spoilt>> /\ f \in inbox
      BY <1>0, <1>4, KeptUnpacked DEF UnpackChunk, world
    <2> QED
      BY <1>0, <1>4, <2>1, KeptUnpacked DEF Undamaged
  <1>5. ASSUME NEW f \in round.todo, Reconstruct(f) PROVE Goal
    <2>1. disk' \subseteq disk /\ inbox' \subseteq inbox \cup {WholeFile(f.script)} /\ spoilt' = spoilt
      BY <1>5 DEF Reconstruct, Abort, world
    <2>2. WholeFile(f.script).size = Whole
      BY DEF WholeFile
    <2> QED
      BY <1>0, <1>5, <2>1, <2>2, KeptReconstructed DEF Undamaged
  <1>6. CASE Commit
    <2>1. saved' = db /\ inbox' = inbox \ round.deleted /\ UNCHANGED <<db, disk, spoilt>>
      BY <1>6 DEF Commit, world
    <2>2. DOMAIN db.chunks \subseteq Script \ Historic
      BY <1>0 DEF DatabaseOK, ChunksOK
    <2>3. KeptIn(db, disk, inbox \ round.deleted, spoilt)
      BY <1>0, <2>2 DEF KeptIn, HeldInv
    <2> QED
      BY <1>02, <2>1, <2>3
  <1>7. CASE ProcessMissingScripts
    <2>1. UNCHANGED <<inbox, spoilt>>
      BY <1>7 DEF ProcessMissingScripts
    <2> QED
      BY <1>02, <1>7, <2>1, KeptListed
  <1>8. ASSUME NEW f \in round.todo, SkipShared(f) PROVE Goal
    BY <1>01, <1>02, <1>8 DEF SkipShared
  <1>9. CASE Stop \/ StopBeforeDelete
    BY <1>0, <1>02, <1>9 DEF Stop, StopBeforeDelete
  <1>10. CASE TimePasses
    <2>1. db' = AllDue(db) /\ saved' = AllDue(saved) /\ UNCHANGED <<inbox, disk, spoilt>>
      BY <1>10 DEF TimePasses, world
    <2> QED
      BY <1>0, <1>02, <2>1, DueKept
  <1>11. ASSUME NEW s \in Script, Learn(s) PROVE Goal
    <2>1. /\ db.history[s] # "recorded" /\ db' = [db EXCEPT !.history[s] = "missing"] /\ saved' = db'
          /\ UNCHANGED <<inbox, disk, spoilt>>
      BY <1>11 DEF Learn, world
    <2>2. db'.chunks = db.chunks
      BY <1>0, <2>1 DEF DatabaseOK, IsRecord
    <2>3. DOMAIN db.chunks \subseteq Script
      BY <1>0 DEF DatabaseOK, ChunksOK
    <2>4. \A x \in Script : Recorded(db', x) <=> Recorded(db, x)
      BY <1>0, <2>1, NotRecorded
    <2>5. KeptIn(db', disk', inbox', spoilt')
      BY <1>0, <2>1, <2>2, <2>3, <2>4 DEF KeptIn
    <2> QED
      BY <1>02, <2>1, <2>5
  <1>12. ASSUME NEW s \in Script, NEW sent \in Forms(s) PROVE \A f \in sent : f \in File /\ f.ok
    <2>1. sent \subseteq Mail
      BY <1>12, FormsAreMail
    <2>2. WholeFile(s).ok /\ \A z, ps : \A f \in Chunks(s, z, ps) : f.ok
      BY OkChunks DEF WholeFile
    <2>3. \A f \in sent : f.ok
      BY <1>12, <2>2 DEF Forms
    <2> QED
      BY <2>1, <2>3 DEF Mail
  <1>13. ASSUME NEW s \in Script, Send(s) PROVE Goal
    <2>1. inbox \subseteq inbox' /\ UNCHANGED <<db, saved, disk>>
      BY <1>13 DEF Send, Arrive
    <2>2. Undamaged' /\ spoilt \subseteq spoilt'
      BY <1>0, <1>12, <1>13, <2>1, ArrivedUndamaged DEF Send
    <2> QED
      BY <1>01, <2>1, <2>2
  <1>14. ASSUME NEW r \in requests, Answer(r) PROVE Goal
    <2>1. inbox \subseteq inbox' /\ UNCHANGED <<db, saved, disk>>
      BY <1>14 DEF Answer, Arrive
    <2>2. r \in Asking /\ (r.size # Whole => r.size \in Size /\ r.parts \in SUBSET Part(r.size))
      BY DEF EntriesInv, RequestsOK, Asking
    <2>3. r.size # Whole => \A f \in Chunks(r.script, r.size, r.parts) : f \in File /\ f.ok
      <3>1. r.size # Whole => Chunks(r.script, r.size, r.parts) \subseteq Mail
        BY <2>2, ChunksAreMail DEF Asking
      <3>2. \A f \in Chunks(r.script, r.size, r.parts) : f.ok
        BY OkChunks
      <3> QED
        BY <3>1, <3>2 DEF Mail
    <2>4. Undamaged' /\ spoilt \subseteq spoilt'
      <3>1. CASE r.to \notin Has[r.script]
        BY <1>02, <1>14, <2>1, <3>1 DEF Answer
      <3>2. CASE r.to \in Has[r.script] /\ r.size = Whole
        BY <1>0, <1>12, <1>14, <2>1, <2>2, <3>2, ArrivedUndamaged DEF Answer, Asking
      <3>3. CASE r.to \in Has[r.script] /\ r.size # Whole
        BY <1>0, <1>14, <2>1, <2>3, <3>3, ArrivedUndamaged DEF Answer
      <3> QED
        BY <3>1, <3>2, <3>3
    <2> QED
      BY <1>01, <2>1, <2>4
  <1>15. ASSUME NEW m \in Member, Join(m) \/ Leave(m) PROVE Goal
    BY <1>01, <1>02, <1>15 DEF Join, Leave, world
  <1>16. CASE UNCHANGED vars
    BY <1>01, <1>02, <1>16 DEF vars, world
  <1> QED
    BY <1>1, <1>2, <1>3, <1>4, <1>5, <1>6, <1>7, <1>8, <1>9, <1>10, <1>11, <1>13,
       <1>14, <1>15, <1>16 DEF Next, Work

(* No chunks are listed at first.                                           *)
LEMMA KeptInit == Init => KeptInv
  BY DEF Init, KeptInv, KeptIn, Undamaged

(***************************************************************************)
(* Chunks that are recorded as received are on the disk, or the whole       *)
(* script is in the inbox or in the history, unless a chunk of that script  *)
(* was damaged on its way.  (Then the chunks' files are deleted because one *)
(* of them cannot be read, although the abort that follows takes the list   *)
(* back to what it was.)                                                    *)
(***************************************************************************)
THEOREM ReceivedIsKept == Spec => []ChunksKept
  <1>1. Init => KeptInv
    BY KeptInit
  <1>2. EntriesInv /\ KeptInv => ChunksKept
    <2> SUFFICES ASSUME EntriesInv, KeptInv, NEW s \in DOMAIN saved.chunks \ spoilt
                 PROVE  \/ \A c \in Received(s) : \E g \in disk : SameChunk(c, g)
                        \/ WholeFile(s) \in inbox
                        \/ saved.history[s] = "recorded"
      BY DEF ChunksKept
    <2>1. ASSUME Stored(s, saved.chunks[s], disk), NEW c \in Received(s)
          PROVE  \E g \in disk : SameChunk(c, g)
      <3>1. c \in disk
        BY <2>1 DEF Received, Chunks, Stored, ChunkFile
      <3> QED
        BY <3>1 DEF SameChunk
    <2> QED
      BY <2>1 DEF KeptInv, KeptIn, Recorded
  <1>3. Init => HeldInv
    BY HeldInit
  <1> QED
    BY <1>1, <1>2, <1>3, EntriesAlways, HeldNext, KeptNext, PTL DEF Spec
=============================================================================

------------------------ MODULE SidetrackProperties ------------------------
(* What a member can rely on when scripts come late, in parts, or damaged.  *)
EXTENDS Sidetrack

Recipient == Member \cup {Nobody} \cup {Author[s] : s \in Script}

MissingEntry == [to : Seq(Recipient) \ {<<>>}, due : BOOLEAN]
ChunkEntry == [to : Seq(Recipient) \ {<<>>}, due : BOOLEAN, size : Size, received : SUBSET Nat]

Database(d) ==
    /\ d = [history |-> d.history, missing |-> d.missing, chunks |-> d.chunks]
    /\ d.history \in [Script -> {"unknown", "missing", "recorded"}]
    /\ DOMAIN d.missing \subseteq Script /\ DOMAIN d.chunks \subseteq Script
    /\ \A s \in DOMAIN d.missing : d.missing[s] \in MissingEntry
    /\ \A s \in DOMAIN d.chunks : d.chunks[s] \in ChunkEntry

(* The sidetrack, the files and the state of a round are well typed. *)
TypeOK ==
    /\ Database(db) /\ Database(saved)
    /\ disk \subseteq File /\ inbox \subseteq File
    /\ \A f \in disk : f.size # Whole
    /\ round.pc \in {"idle", "unpacking", "acks", "missing", "sending"}
    /\ round.todo \subseteq File /\ round.skip \subseteq File /\ round.deleted \subseteq File
    /\ box \subseteq Script /\ acked \subseteq Script /\ spoilt \subseteq Script
    /\ dead \subseteq known /\ known \subseteq Member

(***************************************************************************)
(* "Every script on the _missingChunk list is absent from the _missing      *)
(* list" (XAddChunk; also the postcondition of XProcessMissingScripts):     *)
(* each is asked for in one way.                                            *)
(***************************************************************************)
Disjoint(d) == DOMAIN d.missing \cap DOMAIN d.chunks = {}

ListsDisjoint == Disjoint(db) /\ Disjoint(saved)

Recipients(e) ==
    /\ e.to \in Seq(Member \cup {Nobody}) /\ e.to # <<>>
    /\ \A i, j \in DOMAIN e.to : e.to[i] = e.to[j] => i = j
    /\ \A i \in DOMAIN e.to : e.to[i] = Nobody => i = Len(e.to)

(***************************************************************************)
(* In one round nobody is asked twice, also when members join and leave in  *)
(* between, and a round that is over is not continued                       *)
(* (Missing::SelectRecipient).                                              *)
(***************************************************************************)
NobodyAskedTwice ==
    /\ \A s \in DOMAIN db.missing : Recipients(db.missing[s])
    /\ \A s \in DOMAIN db.chunks : Recipients(db.chunks[s])

(***************************************************************************)
(* An entry never has all its chunks: the last one makes it start again, or *)
(* is not recorded.  Otherwise it would ask for nothing, for ever.          *)
(***************************************************************************)
ChunksIncomplete ==
    \A d \in {db, saved} : \A s \in DOMAIN d.chunks :
        d.chunks[s].received \subseteq Part(d.chunks[s].size)
        /\ d.chunks[s].received # Part(d.chunks[s].size)

(***************************************************************************)
(* Whatever is aborted, and wherever the program stops: chunks that are     *)
(* recorded as received are on the disk, or the script is in the inbox.     *)
(* Scripts of which a chunk came damaged are excepted: the chunks' files    *)
(* are deleted when they cannot be put together, and the abort that follows *)
(* makes the list say again that they are there (MissingChunk::Reconstruct, *)
(* SafeChunks).                                                             *)
(***************************************************************************)
Received(s) == Chunks(s, saved.chunks[s].size, saved.chunks[s].received)

ChunksKept ==
    \A s \in DOMAIN saved.chunks \ spoilt :
        \/ \A c \in Received(s) : \E g \in disk : SameChunk(c, g)
        \/ WholeFile(s) \in inbox
        \/ saved.history[s] = "recorded"

(***************************************************************************)
(* "we already have this chunk" (XMakeChunkRequest): when no mail is being  *)
(* processed, chunks that are not asked for because they are recorded as    *)
(* received are on the disk.                                                *)
(***************************************************************************)
ReceivedAreStored ==
    round.pc = "idle" =>
        \A s \in DOMAIN saved.chunks : saved.history[s] = "missing" =>
            \A c \in Received(s) : \E g \in disk : SameChunk(c, g)

(***************************************************************************)
(* A script that was acknowledged is never lost, although acknowledgments   *)
(* of an attempt that was aborted are sent: it is in the history, or still  *)
(* in the inbox (AckBox, Model::UnpackScripts).                             *)
(***************************************************************************)
AcknowledgedIsKept ==
    \A s \in acked : saved.history[s] = "recorded" \/ WholeFile(s) \in inbox

(***************************************************************************)
(* A script that is missing is recorded in the end, as long as somebody who *)
(* has it is a member: all are asked in turn, again and again, and chunks   *)
(* of several sizes do not get in each other's way.  For a script of which  *)
(* a chunk came damaged this is not so (see ChunksKept): what is missing is *)
(* never asked for again.                                                   *)
(***************************************************************************)
EveryScriptArrives ==
    \A s \in Script :
        IsMissing(s) ~>
            (saved.history[s] = "recorded" \/ s \in spoilt \/ Has[s] \cap Candidates = {})
=============================================================================

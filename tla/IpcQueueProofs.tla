--------------------------- MODULE IpcQueueProofs ---------------------------
(* Proofs about the server's queue of conversations: who owns a              *)
(* conversation's object, for how long its request is kept, when the server  *)
(* may quit, and in which project a command is executed.                     *)
EXTENDS IpcQueueProperties, SequenceTheorems, TLAPS

Occurs(s, x) == \E i \in DOMAIN s : s[i] = x
Once(s, x) == \A i, j \in DOMAIN s : s[i] = x /\ s[j] = x => i = j

LEMMA AppendOccurs ==
  ASSUME NEW S, NEW s \in Seq(S), NEW x, NEW y \in S
  PROVE  Occurs(Append(s, y), x) <=> Occurs(s, x) \/ x = y
<1>1. Len(Append(s, y)) = Len(s) + 1 /\ Append(s, y)[Len(s) + 1] = y
  OBVIOUS
<1>2. \A i \in 1 .. Len(s) : Append(s, y)[i] = s[i]
  OBVIOUS
<1>3. DOMAIN s = 1 .. Len(s) /\ DOMAIN Append(s, y) = 1 .. Len(s) + 1 /\ Len(s) \in Nat
  OBVIOUS
<1> QED  BY <1>1, <1>2, <1>3 DEF Occurs

LEMMA AppendOnce ==
  ASSUME NEW S, NEW s \in Seq(S), NEW x, NEW y \in S,
         Once(s, x), x = y => ~Occurs(s, x)
  PROVE  Once(Append(s, y), x)
<1>1. Len(Append(s, y)) = Len(s) + 1 /\ Append(s, y)[Len(s) + 1] = y
  OBVIOUS
<1>2. \A i \in 1 .. Len(s) : Append(s, y)[i] = s[i]
  OBVIOUS
<1>3. DOMAIN s = 1 .. Len(s) /\ DOMAIN Append(s, y) = 1 .. Len(s) + 1 /\ Len(s) \in Nat
  OBVIOUS
<1> QED  BY <1>1, <1>2, <1>3 DEF Occurs, Once

LEMMA TailFacts ==
  ASSUME NEW S, NEW s \in Seq(S), s # <<>>
  PROVE  /\ Tail(s) \in Seq(S) /\ Head(s) \in S /\ Head(s) = s[1]
         /\ Len(s) \in Nat \ {0} /\ DOMAIN s = 1 .. Len(s)
         /\ DOMAIN Tail(s) = 1 .. Len(s) - 1
         /\ \A i \in 1 .. Len(s) - 1 : Tail(s)[i] = s[i + 1]
OBVIOUS

LEMMA TailOccurs ==
  ASSUME NEW S, NEW s \in Seq(S), s # <<>>, NEW x, Once(s, x)
  PROVE  /\ Occurs(Tail(s), x) <=> Occurs(s, x) /\ Head(s) # x
         /\ Once(Tail(s), x)
         /\ Occurs(s, Head(s))
<1>1. Once(Tail(s), x)
  BY TailFacts DEF Once
<1>2. Occurs(s, Head(s))
  BY TailFacts DEF Occurs
<1>3. ASSUME Occurs(Tail(s), x) PROVE Occurs(s, x) /\ Head(s) # x
  BY <1>3, TailFacts DEF Occurs, Once
<1>4. ASSUME Occurs(s, x), Head(s) # x PROVE Occurs(Tail(s), x)
  <2>1. PICK i \in DOMAIN s : s[i] = x
    BY <1>4 DEF Occurs
  <2>2. i # 1 /\ i - 1 \in 1 .. Len(s) - 1 /\ i = (i - 1) + 1
    BY <2>1, <1>4, TailFacts
  <2> QED  BY <2>1, <2>2, TailFacts DEF Occurs
<1> QED  BY <1>1, <1>2, <1>3, <1>4

-----------------------------------------------------------------------------
(* The inductive invariant *)

Running(c) == conv[c].at \notin {"none", "over"}

\* A conversation is in one place on its way to a thread: not invited, in a
\* message to the window, in the queue, taken from it, or made.
OnItsWay(c) ==
  /\ Once(window.messages, c)
  /\ Once(queue.waiting, c)
  /\ client[c].at = "idle" =>
       /\ ~Occurs(window.messages, c) /\ ~Occurs(queue.waiting, c)
       /\ queue.taken # c /\ thread[c] = "none"
  /\ Occurs(window.messages, c) =>
       ~Occurs(queue.waiting, c) /\ queue.taken # c /\ thread[c] = "none"
  /\ Occurs(queue.waiting, c) => queue.taken # c /\ thread[c] = "none"
  /\ queue.taken = c => thread[c] = "none"

\* Who owns the object of a conversation, by the state of its thread.
Owned(c) ==
  /\ thread[c] = "none" =>
       ~shared[c] /\ deletions[c] = 0 /\ conv[c].at = "none" /\ queue.active # c
  /\ thread[c] = "suspended" =>
       /\ deletions[c] = 0 /\ conv[c].at = "none" /\ queue.active = c
       /\ queue.at \in {"share", "resume"} /\ (shared[c] <=> queue.at = "resume")
  /\ thread[c] = "running" =>
       deletions[c] = 0 /\ Running(c) /\ (shared[c] <=> queue.active = c)
  /\ thread[c] \in {"released", "dead"} =>
       /\ conv[c].at = "over" /\ ~shared[c]
       /\ deletions[c] = IF queue.active = c THEN 0 ELSE 1

\* The data of its request are there until its thread has let go.
HasData(c) ==
  Occurs(queue.waiting, c) \/ queue.taken = c \/ queue.active = c \/ Running(c)
    => c \in queue.requests

\* A thread that runs on without the queue is the one that is asked about.
Watched(c) ==
  Running(c) /\ queue.active # c => queue.handle = c /\ queue.at \in {"check", "ended"}

\* The project stays the one the conversation is in.
Visited(c) ==
  StayInProject /\ Project[c] # None =>
    (queue.active = c \/ Running(c) \/ (queue.taken = c /\ queue.at = "create")
       => project = Project[c])

\* What the place of the queue's thread says of its members.
QueuePlace ==
  /\ queue.at \in {"share", "resume"} =>
       queue.active # None /\ thread[queue.active] = "suspended"
  /\ queue.at \in {"detach", "die", "flush", "join"} => queue.active # None
  /\ queue.at \in {"check", "next", "visit", "create", "report"} => queue.active = None
  /\ queue.at \in {"visit", "create"} <=> queue.taken # None
  /\ queue.active # None /\ queue.at \notin {"share", "resume"} =>
       queue.handle = queue.active

Idle ==
  /\ queue.idle =>
       /\ queue.waiting = <<>> /\ queue.taken = None /\ queue.active = None
       /\ \A c \in Conv : ~Running(c)
  /\ window.server = "quit" => queue.idle

Placed(c) == OnItsWay(c) /\ Owned(c) /\ HasData(c) /\ Watched(c) /\ Visited(c)

IInv == QueuePlace /\ Idle /\ \A c \in Conv : Placed(c)

-----------------------------------------------------------------------------
(* Types *)

LEMMA TypeInit == Init => TypeOK
<1> SUFFICES ASSUME Init PROVE TypeOK
  OBVIOUS
<1>1. ObjectTypeOK
  BY DEF Init, ObjectInit, ObjectTypeOK
<1>2. window \in WindowType
  BY DEF Init, WindowType
<1>3. queue \in QueueType
  BY DEF Init, QueueType, QueueAt, ConvOrNone
<1>4. conv \in [Conv -> ConvType] /\ shm \in [Conv -> ShmType] /\ client \in [Conv -> ClientType]
  BY DEF Init, ConvType, ConvAt, ShmType, ClientType
<1> QED  BY <1>1, <1>2, <1>3, <1>4 DEF TypeOK

LEMMA WindowPosts ==
  ASSUME window \in WindowType, NEW m \in Conv \cup {"terminate", "abort"}
  PROVE  [window EXCEPT !.messages = Append(@, m)] \in WindowType
BY DEF WindowType

LEMMA WindowHandled ==
  ASSUME window \in WindowType, NEW m, Message(m)
  PROVE  /\ Handled \in WindowType
         /\ Handled.server = window.server
         /\ Handled.messages = Tail(window.messages)
<1> DEFINE M == Conv \cup {"terminate", "abort"}
<1>1. window.messages \in Seq(M) /\ window.messages # <<>>
  BY DEF WindowType, Message
<1>2. Tail(window.messages) \in Seq(M)
  BY <1>1
<1> HIDE DEF M
<1> QED  BY <1>1, <1>2 DEF WindowType, Handled, M

LEMMA LetGoType ==
  ASSUME ObjectTypeOK, NEW c \in Conv, LetGo(c)
  PROVE  shared' \in [Conv -> BOOLEAN] /\ deletions' \in [Conv -> Nat]
<1>1. CASE shared[c]
  BY <1>1 DEF ObjectTypeOK, LetGo
<1>2. CASE ~shared[c]
  <2>1. deletions' = [deletions EXCEPT ![c] = @ + 1] /\ shared' = shared
    BY <1>2 DEF LetGo
  <2> QED  BY <2>1 DEF ObjectTypeOK
<1> QED  BY <1>1, <1>2

LEMMA ClientStepType ==
  ASSUME TypeOK, NEW c \in Conv, ClientStep(c)
  PROVE  TypeOK'
<1> USE DEF TypeOK
<1>1. CASE Invite(c)
  <2>1. window' \in WindowType
    BY <1>1, WindowPosts DEF Invite
  <2>2. shm' \in [Conv -> ShmType]
    BY <1>1 DEF Invite, ShmType
  <2>3. client' \in [Conv -> ClientType]
    BY <1>1 DEF Invite, ClientType
  <2> QED  BY <1>1, <2>1, <2>2, <2>3 DEF Invite, ObjectTypeOK, objectVars
<1>2. CASE EndInvitation(c)
  <2>1. shm' \in [Conv -> ShmType]
    BY <1>2, ZenonT(60) DEF EndInvitation, ShmType
  <2>2. client' \in [Conv -> ClientType]
    BY <1>2 DEF EndInvitation, ClientType
  <2> QED  BY <1>2, <2>1, <2>2 DEF EndInvitation, ObjectTypeOK, objectVars
<1>3. CASE Post(c)
  <2>1. shm' \in [Conv -> ShmType]
    <3> DEFINE last == client[c].sent + 1 = Commands[c]
    <3>1. last \in BOOLEAN
      OBVIOUS
    <3>2. shm' = [shm EXCEPT ![c].type = "cmd", ![c].server = TRUE, ![c].last = last]
      BY <1>3 DEF Post
    <3> HIDE DEF last
    <3> QED  BY <3>1, <3>2, ZenonT(60) DEF ShmType
  <2>2. client' \in [Conv -> ClientType]
    BY <1>3 DEF Post, ClientType
  <2> QED  BY <1>3, <2>1, <2>2 DEF Post, ObjectTypeOK, objectVars
<1>4. CASE EndCommand(c)
  <2>1. shm' \in [Conv -> ShmType]
    BY <1>4 DEF EndCommand, ShmType
  <2>2. client' \in [Conv -> ClientType]
    BY <1>4 DEF EndCommand, ClientType
  <2> QED  BY <1>4, <2>1, <2>2 DEF EndCommand, ObjectTypeOK, objectVars
<1> QED  BY <1>1, <1>2, <1>3, <1>4 DEF ClientStep

LEMMA WindowStepType ==
  ASSUME TypeOK, WindowStep
  PROVE  TypeOK'
<1> USE DEF TypeOK
<1>1. ASSUME NEW c \in Conv, OnInitiate(c) PROVE TypeOK'
  <2>1. window' \in WindowType
    BY <1>1, WindowHandled DEF OnInitiate, WindowType
  <2>2. queue' \in QueueType
    <3> DEFINE w == Append(queue.waiting, c)
               r == queue.requests \cup {c}
    <3>1. w \in Seq(Conv) /\ r \in SUBSET Conv
      BY <1>1 DEF QueueType
    <3>2. \/ queue' = queue
          \/ queue' = [queue EXCEPT !.waiting = w, !.requests = r, !.idle = FALSE, !.event = TRUE]
      BY <1>1 DEF OnInitiate
    <3> HIDE DEF w, r
    <3> QED  BY <3>1, <3>2 DEF QueueType
  <2> QED  BY <1>1, <2>1, <2>2 DEF OnInitiate, Handled, ObjectTypeOK, objectVars
<1>2. CASE OnTerminate
  <2>1. window' \in WindowType
    BY <1>2, WindowHandled DEF OnTerminate, QueueType, WindowType
  <2> QED  BY <1>2, <2>1 DEF OnTerminate, Handled, ObjectTypeOK, objectVars
<1>3. CASE OnAbort
  <2>1. window' \in WindowType
    BY <1>3, WindowHandled DEF OnAbort, WindowType
  <2> QED  BY <1>3, <2>1 DEF OnAbort, Handled, ObjectTypeOK, objectVars
<1>6. CASE OnBackup
  <2>1. window' \in WindowType
    BY <1>6 DEF OnBackup, WindowType
  <2> QED  BY <1>6, <2>1 DEF OnBackup, ObjectTypeOK, objectVars
<1>4. CASE OnKeepAlive
  <2>1. window' \in WindowType
    BY <1>4 DEF OnKeepAlive, WindowType
  <2> QED  BY <1>4, <2>1 DEF OnKeepAlive, ObjectTypeOK, objectVars
<1>5. CASE OnPendingMerge
  <2>1. window' \in WindowType
    BY <1>5 DEF OnPendingMerge, WindowType
  <2> QED  BY <1>5, <2>1 DEF OnPendingMerge, ObjectTypeOK, objectVars
<1> QED  BY <1>1, <1>2, <1>3, <1>4, <1>5, <1>6 DEF WindowStep

LEMMA QueueStepType ==
  ASSUME TypeOK, QueueStep
  PROVE  TypeOK'
<1> USE DEF TypeOK
<1>1. CASE Wait
  <2>1. queue' \in QueueType
    BY <1>1, ZenonT(60) DEF Wait, QueueType, QueueAt, ConvOrNone
  <2> QED  BY <1>1, <2>1 DEF Wait, ObjectTypeOK, objectVars
<1>2. CASE Detach
  <2>1. queue' \in QueueType
    BY <1>2 DEF Detach, QueueType, QueueAt, ConvOrNone
  <2>2. conv' \in [Conv -> ConvType]
    BY <1>2 DEF Detach, ConvType, ConvAt
  <2> QED  BY <1>2, <2>1, <2>2 DEF Detach, ObjectTypeOK, objectVars
<1>3. CASE MarkDying
  <2>1. queue' \in QueueType
    BY <1>3 DEF MarkDying, QueueType, QueueAt, ConvOrNone
  <2>2. ObjectTypeOK'
    BY <1>3 DEF MarkDying, Kill, ObjectTypeOK
  <2> QED  BY <1>3, <2>1, <2>2 DEF MarkDying, ObjectTypeOK, objectVars
<1>4. CASE FlushThread
  <2>1. queue' \in QueueType
    BY <1>4 DEF FlushThread, QueueType, QueueAt, ConvOrNone
  <2>2. shm' \in [Conv -> ShmType]
    BY <1>4 DEF FlushThread, ShmType
  <2> QED  BY <1>4, <2>1, <2>2 DEF FlushThread, ObjectTypeOK, objectVars
<1>5. CASE WaitForDeath
  <2>1. queue' \in QueueType
    BY <1>5 DEF WaitForDeath, QueueType, QueueAt, ConvOrNone
  <2> QED  BY <1>5, <2>1 DEF WaitForDeath, ObjectTypeOK, objectVars
<1>6. CASE Release
  <2>1. queue' \in QueueType
    BY <1>6 DEF Release, QueueType, QueueAt, ConvOrNone
  <2>2. ObjectTypeOK'
    <3>1. CASE queue.active = None
      BY <1>6, <3>1 DEF Release, ObjectTypeOK, objectVars
    <3>2. CASE queue.active # None
      <4>1. queue.active \in Conv
        BY <3>2 DEF QueueType, ConvOrNone
      <4> QED  BY <1>6, <3>2, <4>1, LetGoType DEF Release, ReleaseByHolder, ObjectTypeOK
    <3> QED  BY <3>1, <3>2
  <2> QED  BY <1>6, <2>1, <2>2 DEF Release, ObjectTypeOK, objectVars
<1>7. CASE Check
  <2>1. window' \in WindowType
    BY <1>7, WindowPosts DEF Check
  <2>2. queue' \in QueueType
    BY <1>7, ZenonT(60) DEF Check, QueueType, QueueAt, ConvOrNone
  <2> QED  BY <1>7, <2>1, <2>2 DEF Check, ObjectTypeOK, objectVars
<1>8. CASE TakeRequest
  <2>1. queue' \in QueueType
    <3>1. Tail(queue.waiting) \in Seq(Conv) /\ Head(queue.waiting) \in Conv
      BY <1>8, TailFacts DEF TakeRequest, QueueType
    <3> QED  BY <1>8, <3>1 DEF TakeRequest, QueueType, QueueAt, ConvOrNone
  <2> QED  BY <1>8, <2>1 DEF TakeRequest, ObjectTypeOK, objectVars
<1>9. CASE NoMoreRequests
  <2>1. queue' \in QueueType
    BY <1>9 DEF NoMoreRequests, QueueType, QueueAt, ConvOrNone
  <2> QED  BY <1>9, <2>1 DEF NoMoreRequests, ObjectTypeOK, objectVars
<1>10. CASE Report
  <2>1. window' \in WindowType
    BY <1>10, WindowPosts DEF Report
  <2>2. queue' \in QueueType
    BY <1>10 DEF Report, QueueType, QueueAt, ConvOrNone
  <2> QED  BY <1>10, <2>1, <2>2 DEF Report, ObjectTypeOK, objectVars
<1>11. CASE Visit
  <2>1. queue' \in QueueType
    BY <1>11 DEF Visit, QueueType, QueueAt, ConvOrNone
  <2> QED  BY <1>11, <2>1 DEF Visit, ObjectTypeOK, objectVars
<1>12. CASE FailVisit
  <2>1. queue' \in QueueType
    BY <1>12 DEF FailVisit, QueueType, QueueAt, ConvOrNone
  <2>2. shm' \in [Conv -> ShmType]
    BY <1>12 DEF FailVisit, ShmType
  <2> QED  BY <1>12, <2>1, <2>2 DEF FailVisit, ObjectTypeOK, objectVars
<1>13. CASE Create
  <2>1. queue' \in QueueType
    BY <1>13 DEF Create, QueueType, QueueAt, ConvOrNone
  <2>2. conv' \in [Conv -> ConvType]
    BY <1>13 DEF Create, ConvType, ConvAt
  <2>3. ObjectTypeOK'
    BY <1>13 DEF Create, NewObject, ObjectTypeOK
  <2> QED  BY <1>13, <2>1, <2>2, <2>3 DEF Create, ObjectTypeOK, objectVars
<1>14. CASE FailCreate
  <2>1. queue' \in QueueType
    BY <1>14 DEF FailCreate, QueueType, QueueAt, ConvOrNone
  <2> QED  BY <1>14, <2>1 DEF FailCreate, ObjectTypeOK, objectVars
<1>15. CASE Share
  <2>1. queue' \in QueueType
    BY <1>15 DEF Share, QueueType, QueueAt, ConvOrNone
  <2>2. ObjectTypeOK'
    BY <1>15 DEF Share, Acquire, ObjectTypeOK
  <2> QED  BY <1>15, <2>1, <2>2 DEF Share, ObjectTypeOK, objectVars
<1>16. CASE Start
  <2>1. queue' \in QueueType
    BY <1>16 DEF Start, QueueType, QueueAt, ConvOrNone
  <2>2. conv' \in [Conv -> ConvType]
    BY <1>16 DEF Start, ConvType, ConvAt
  <2>3. ObjectTypeOK'
    BY <1>16 DEF Start, Resume, ObjectTypeOK
  <2> QED  BY <1>16, <2>1, <2>2, <2>3 DEF Start, ObjectTypeOK, objectVars
<1> QED  BY <1>1, <1>2, <1>3, <1>4, <1>5, <1>6, <1>7, <1>8, <1>9, <1>10, <1>11, <1>12, <1>13, <1>14, <1>15, <1>16 DEF QueueStep

LEMMA ConvStepType ==
  ASSUME TypeOK, NEW c \in Conv, ConvStep(c)
  PROVE  TypeOK'
<1> USE DEF TypeOK
<1>1. CASE Greet(c)
  <2>1. conv' \in [Conv -> ConvType]
    BY <1>1 DEF Greet, Goes, ConvType, ConvAt
  <2>2. shm' \in [Conv -> ShmType]
    BY <1>1 DEF Greet, Goes, ShmType
  <2> QED  BY <1>1, <2>1, <2>2 DEF Greet, Goes, ObjectTypeOK, objectVars
<1>2. CASE Listen(c)
  <2>1. conv' \in [Conv -> ConvType]
    BY <1>2 DEF Listen, Goes, ConvType, ConvAt
  <2>2. shm' \in [Conv -> ShmType]
    BY <1>2 DEF Listen, Goes, ShmType
  <2> QED  BY <1>2, <2>1, <2>2 DEF Listen, Goes, ObjectTypeOK, objectVars
<1>3. CASE Execute(c)
  <2>1. conv' \in [Conv -> ConvType]
    <3> DEFINE gui == c \in Gui
    <3>1. gui \in BOOLEAN
      OBVIOUS
    <3>2. conv' = [conv EXCEPT ![c].at = "executing", ![c].gui = gui]
      BY <1>3 DEF Execute
    <3> HIDE DEF gui
    <3> QED  BY <3>1, <3>2 DEF ConvType, ConvAt
  <2> QED  BY <1>3, <2>1 DEF Execute, ObjectTypeOK, objectVars
<1>4. CASE Executed(c)
  <2>1. conv' \in [Conv -> ConvType]
    BY <1>4 DEF Executed, Goes, ConvType, ConvAt
  <2>2. shm' \in [Conv -> ShmType]
    BY <1>4 DEF Executed, Goes, ShmType
  <2> QED  BY <1>4, <2>1, <2>2 DEF Executed, Goes, ObjectTypeOK, objectVars
<1>5. CASE FailCommand(c)
  <2>1. conv' \in [Conv -> ConvType]
    BY <1>5 DEF FailCommand, Goes, ConvType, ConvAt
  <2>2. shm' \in [Conv -> ShmType]
    BY <1>5 DEF FailCommand, Goes, ShmType
  <2> QED  BY <1>5, <2>1, <2>2 DEF FailCommand, Goes, ObjectTypeOK, objectVars
<1>6. CASE LoseCommand(c)
  <2>1. conv' \in [Conv -> ConvType]
    BY <1>6 DEF LoseCommand, Goes, ConvType, ConvAt
  <2> QED  BY <1>6, <2>1 DEF LoseCommand, Goes, ObjectTypeOK, objectVars
<1>7. CASE WakeupClient(c)
  <2>1. conv' \in [Conv -> ConvType]
    BY <1>7 DEF WakeupClient, Goes, ConvType, ConvAt
  <2>2. shm' \in [Conv -> ShmType]
    BY <1>7 DEF WakeupClient, Goes, ShmType
  <2> QED  BY <1>7, <2>1, <2>2 DEF WakeupClient, Goes, ObjectTypeOK, objectVars
<1>8. CASE IsLast(c)
  <2>1. conv' \in [Conv -> ConvType]
    BY <1>8 DEF IsLast, Goes, ConvType, ConvAt
  <2> QED  BY <1>8, <2>1 DEF IsLast, Goes, ObjectTypeOK, objectVars
<1>9. CASE Finish(c)
  <2>1. queue' \in QueueType
    BY <1>9 DEF Finish, Goes, QueueType, QueueAt, ConvOrNone
  <2>2. conv' \in [Conv -> ConvType]
    BY <1>9 DEF Finish, Goes, ConvType, ConvAt
  <2> QED  BY <1>9, <2>1, <2>2 DEF Finish, Goes, ObjectTypeOK, objectVars
<1>10. CASE Notify(c)
  <2>1. queue' \in QueueType
    BY <1>10 DEF Notify, Goes, QueueType, QueueAt, ConvOrNone
  <2>2. conv' \in [Conv -> ConvType]
    BY <1>10 DEF Notify, Goes, ConvType, ConvAt
  <2> QED  BY <1>10, <2>1, <2>2 DEF Notify, Goes, ObjectTypeOK, objectVars
<1>11. CASE Leave(c)
  <2>1. conv' \in [Conv -> ConvType]
    BY <1>11 DEF Leave, Goes, ConvType, ConvAt
  <2>2. ObjectTypeOK'
    BY <1>11, LetGoType DEF Leave, ReleaseByThread, ObjectTypeOK
  <2> QED  BY <1>11, <2>1, <2>2 DEF Leave, Goes, ObjectTypeOK, objectVars
<1>12. CASE ThreadDies(c)
  <2>1. ObjectTypeOK'
    BY <1>12 DEF ThreadDies, ThreadEnds, ObjectTypeOK
  <2> QED  BY <1>12, <2>1 DEF ThreadDies, ObjectTypeOK, objectVars
<1> QED  BY <1>1, <1>2, <1>3, <1>4, <1>5, <1>6, <1>7, <1>8, <1>9, <1>10, <1>11, <1>12 DEF ConvStep

LEMMA TypeStep ==
  ASSUME TypeOK, [Next]_vars
  PROVE  TypeOK'
<1>1. CASE UNCHANGED vars
  BY <1>1 DEF vars, objectVars, TypeOK, ObjectTypeOK
<1>2. CASE Next
  BY <1>2, ClientStepType, WindowStepType, QueueStepType, ConvStepType DEF Next
<1> QED  BY <1>1, <1>2

-----------------------------------------------------------------------------
(* The steps that leave every conversation where it is *)

\* The places that are told apart by the invariant.
Told == {"check", "visit", "create", "share", "resume", "ended"}

Frame ==
  /\ \A c \in Conv : /\ Once(window'.messages, c)
                     /\ Occurs(window'.messages, c) => Occurs(window.messages, c)
                     /\ client'[c].at = "idle" => client[c].at = "idle"
                     /\ Running(c)' = Running(c)
                     /\ (conv'[c].at = "none") = (conv[c].at = "none")
  /\ window'.server = "quit" => window.server = "quit" \/ queue.idle
  /\ queue'.at = queue.at \/ {queue'.at, queue.at} \cap Told = {}
  /\ queue'.waiting = queue.waiting /\ queue'.taken = queue.taken
  /\ queue'.active = queue.active /\ queue'.handle = queue.handle
  /\ queue'.requests = queue.requests /\ queue'.idle = queue.idle
  /\ StayInProject => project' = project
  /\ thread' = thread /\ shared' = shared /\ deletions' = deletions

LEMMA FrameKeeps ==
  ASSUME TypeOK, IInv, Frame, QueuePlace'
  PROVE  IInv'
<1>1. ASSUME NEW c \in Conv PROVE OnItsWay(c)'
  BY <1>1 DEF Frame, IInv, Placed, OnItsWay
<1>2. ASSUME NEW c \in Conv PROVE Owned(c)'
  <2>1. thread'[c] = thread[c] /\ shared'[c] = shared[c] /\ deletions'[c] = deletions[c]
    BY DEF Frame
  <2>2. (conv'[c].at = "none") = (conv[c].at = "none") /\ Running(c)' = Running(c)
    BY <1>2 DEF Frame
  <2>3. (conv'[c].at = "over") = (conv[c].at = "over")
    BY <2>2 DEF Running
  <2>4. queue'.active = queue.active
    BY DEF Frame
  <2>5. Owned(c)
    BY <1>2 DEF IInv, Placed
  <2>6. \A x \in {"share", "resume"} : (queue'.at = x) = (queue.at = x)
    BY DEF Frame, Told
  <2> QED  BY <2>1, <2>2, <2>3, <2>4, <2>5, <2>6 DEF Owned
<1>3. ASSUME NEW c \in Conv PROVE HasData(c)'
  BY <1>3 DEF Frame, IInv, Placed, HasData
<1>4. ASSUME NEW c \in Conv PROVE Watched(c)'
  BY <1>4 DEF Frame, IInv, Placed, Watched, Told
<1>5. ASSUME NEW c \in Conv PROVE Visited(c)'
  BY <1>5 DEF Frame, IInv, Placed, Visited, Told
<1>6. Idle'
  BY DEF Frame, IInv, Idle
<1> QED  BY <1>1, <1>2, <1>3, <1>4, <1>5, <1>6 DEF IInv, Placed

\* Most steps leave the queue's members alone, but for its marks.
SameQueue ==
  /\ queue'.at = queue.at
  /\ queue'.waiting = queue.waiting /\ queue'.taken = queue.taken
  /\ queue'.active = queue.active /\ queue'.handle = queue.handle
  /\ queue'.requests = queue.requests /\ queue'.idle = queue.idle

LEMMA SameQueueKeeps ==
  ASSUME TypeOK, IInv, SameQueue, thread' = thread
  PROVE  QueuePlace'
BY DEF IInv, SameQueue, QueuePlace

\* A conversation's thread goes on.
LEMMA ThreadGoesOn ==
  ASSUME TypeOK, IInv, SameQueue, NEW c \in Conv, NEW r \in ConvType,
         conv' = [conv EXCEPT ![c] = r],
         conv[c].at \notin {"none", "over"}, r.at \notin {"none", "over"},
         UNCHANGED <<window, project, client, objectVars>>
  PROVE  IInv'
<1>1. ASSUME NEW d \in Conv
      PROVE  /\ Running(d)' = Running(d)
             /\ (conv'[d].at = "none") = (conv[d].at = "none")
  <2>1. CASE d = c
    BY <2>1 DEF TypeOK, Running
  <2>2. CASE d # c
    BY <2>2 DEF TypeOK, Running
  <2> QED  BY <2>1, <2>2
<1>2. UNCHANGED <<window, project, client, thread, shared, deletions>>
  BY DEF objectVars
<1>3. ASSUME NEW d \in Conv PROVE Once(window.messages, d)
  BY <1>3 DEF IInv, Placed, OnItsWay
<1>4. Frame
  BY <1>1, <1>2, <1>3 DEF Frame, SameQueue
<1> QED  BY <1>2, <1>4, FrameKeeps, SameQueueKeeps

LEMMA GoesOn ==
  ASSUME TypeOK, IInv, SameQueue, NEW c \in Conv, NEW from, NEW to \in ConvAt, Goes(c, from, to),
         from \notin {"none", "over"}, to \notin {"none", "over"},
         UNCHANGED <<window, project, client, objectVars>>
  PROVE  IInv'
<1> DEFINE r == [conv[c] EXCEPT !.at = to]
<1>1. r \in ConvType /\ r.at = to /\ conv' = [conv EXCEPT ![c] = r] /\ conv[c].at = from
  BY DEF TypeOK, ConvType, Goes
<1> HIDE DEF r
<1> QED  BY <1>1, ThreadGoesOn

\* The thread of a conversation lets go of the object.
LEMMA LeaveKeeps ==
  ASSUME TypeOK, IInv, NEW c \in Conv, Leave(c)
  PROVE  IInv'
<1>1. conv[c].at = "leave" /\ Running(c)
  BY DEF Leave, Goes, Running
<1>2. /\ thread[c] = "running" /\ deletions[c] = 0
      /\ shared[c] <=> queue.active = c
  BY <1>1 DEF IInv, Placed, Owned, Running, TypeOK, ObjectTypeOK
<1>3. UNCHANGED <<window, project, queue, shm, client>>
  BY DEF Leave
<1>4. /\ conv'[c].at = "over" /\ thread'[c] = "released"
      /\ \A d \in Conv \ {c} : conv'[d] = conv[d] /\ thread'[d] = thread[d]
  BY DEF Leave, Goes, ReleaseByThread, TypeOK, ObjectTypeOK, ConvType
<1>5. /\ \A d \in Conv \ {c} : shared'[d] = shared[d] /\ deletions'[d] = deletions[d]
      /\ ~shared'[c] /\ deletions'[c] = IF queue.active = c THEN 0 ELSE 1
  <2>1. CASE shared[c]
    BY <1>2, <2>1 DEF Leave, ReleaseByThread, LetGo, TypeOK, ObjectTypeOK
  <2>2. CASE ~shared[c]
    <3>1. deletions' = [deletions EXCEPT ![c] = @ + 1] /\ shared' = shared
      BY <2>2 DEF Leave, ReleaseByThread, LetGo
    <3> QED  BY <1>2, <2>2, <3>1 DEF TypeOK, ObjectTypeOK
  <2> QED  BY <2>1, <2>2
<1>6. ~Running(c)' /\ \A d \in Conv \ {c} : Running(d)' = Running(d)
  BY <1>4 DEF Running
<1>7. ASSUME NEW d \in Conv PROVE Placed(d)'
  <2>1. Placed(d)
    BY <1>7 DEF IInv
  <2>2. CASE d # c
    BY <1>3, <1>4, <1>5, <1>6, <2>1, <2>2
       DEF Placed, OnItsWay, Owned, HasData, Watched, Visited, Running
  <2>3. CASE d = c
    <3>1. OnItsWay(c)'
      BY <1>2, <1>3, <1>4, <2>1, <2>3 DEF Placed, OnItsWay
    <3>2. Owned(c)'
      BY <1>3, <1>4, <1>5 DEF Owned
    <3>3. HasData(c)' /\ Watched(c)' /\ Visited(c)'
      BY <1>1, <1>3, <1>6, <2>1, <2>3 DEF Placed, HasData, Watched, Visited
    <3> QED  BY <2>3, <3>1, <3>2, <3>3 DEF Placed
  <2> QED  BY <2>2, <2>3
<1>8. Idle'
  BY <1>3, <1>6 DEF IInv, Idle
<1>9. QueuePlace'
  <2>1. queue.active \in Conv /\ thread[queue.active] = "suspended" =>
          thread'[queue.active] = "suspended"
    BY <1>2, <1>4
  <2> QED  BY <1>3, <2>1 DEF IInv, QueuePlace, TypeOK, QueueType, ConvOrNone
<1> QED  BY <1>7, <1>8, <1>9 DEF IInv

LEMMA ThreadDiesKeeps ==
  ASSUME TypeOK, IInv, NEW c \in Conv, ThreadDies(c)
  PROVE  IInv'
<1>1. /\ UNCHANGED <<window, project, queue, conv, shm, client, shared, deletions>>
      /\ thread[c] = "released" /\ thread'[c] = "dead"
      /\ \A d \in Conv \ {c} : thread'[d] = thread[d]
  BY DEF ThreadDies, ThreadEnds, TypeOK, ObjectTypeOK
<1>2. ASSUME NEW d \in Conv PROVE Placed(d)'
  <2>1. Placed(d)
    BY <1>2 DEF IInv
  <2>2. Owned(d)'
    BY <1>1, <2>1 DEF Placed, Owned, Running
  <2>3. OnItsWay(d)'
    BY <1>1, <2>1 DEF Placed, OnItsWay
  <2> QED  BY <1>1, <2>1, <2>2, <2>3 DEF Placed, HasData, Watched, Visited, Running
<1>3. Idle' /\ QueuePlace'
  BY <1>1 DEF IInv, Idle, QueuePlace, Running, TypeOK, QueueType, ConvOrNone
<1> QED  BY <1>2, <1>3 DEF IInv

LEMMA ConvStepKeeps ==
  ASSUME TypeOK, IInv, NEW c \in Conv, ConvStep(c)
  PROVE  IInv'
<1>1. CASE Greet(c)
  BY <1>1, GoesOn DEF Greet, SameQueue, ConvAt
<1>2. CASE Listen(c)
  <2>1. PICK to \in {"leave", "lock", "wake"} : Goes(c, "listen", to)
    BY <1>2 DEF Listen
  <2> QED  BY <1>2, <2>1, GoesOn DEF Listen, SameQueue, ConvAt
<1>3. CASE Execute(c)
  <2> DEFINE r == [conv[c] EXCEPT !.at = "executing", !.gui = c \in Gui]
  <2>1. r.at = "executing" /\ conv' = [conv EXCEPT ![c] = r] /\ conv[c].at = "lock"
    BY <1>3 DEF Execute, TypeOK, ConvType
  <2>2. r \in ConvType
    BY <1>3, <2>1, ConvStepType DEF TypeOK
  <2> HIDE DEF r
  <2> QED  BY <1>3, <2>1, <2>2, ThreadGoesOn DEF Execute, SameQueue
<1>4. CASE Executed(c)
  BY <1>4, GoesOn DEF Executed, SameQueue, ConvAt
<1>5. CASE FailCommand(c)
  BY <1>5, GoesOn DEF FailCommand, SameQueue, ConvAt
<1>6. CASE LoseCommand(c)
  BY <1>6, GoesOn DEF LoseCommand, SameQueue, ConvAt
<1>7. CASE WakeupClient(c)
  BY <1>7, GoesOn DEF WakeupClient, SameQueue, ConvAt
<1>8. CASE IsLast(c)
  <2>1. PICK to \in {"finish", "listen"} : Goes(c, "last", to)
    BY <1>8 DEF IsLast
  <2> QED  BY <1>8, <2>1, GoesOn DEF IsLast, SameQueue, ConvAt
<1>9. CASE Finish(c)
  <2>1. PICK to \in {"notify", "leave"} : Goes(c, "finish", to)
    BY <1>9 DEF Finish
  <2>2. SameQueue
    BY <1>9 DEF Finish, SameQueue, TypeOK, QueueType
  <2> QED  BY <1>9, <2>1, <2>2, GoesOn DEF Finish, ConvAt
<1>10. CASE Notify(c)
  <2>1. SameQueue
    BY <1>10 DEF Notify, SameQueue, TypeOK, QueueType
  <2> QED  BY <1>10, <2>1, GoesOn DEF Notify, ConvAt
<1>11. CASE Leave(c)
  BY <1>11, LeaveKeeps
<1>12. CASE ThreadDies(c)
  BY <1>12, ThreadDiesKeeps
<1> QED  BY <1>1, <1>2, <1>3, <1>4, <1>5, <1>6, <1>7, <1>8, <1>9, <1>10, <1>11, <1>12
         DEF ConvStep

\* A client goes on, and was not idle.
LEMMA ClientGoesOn ==
  ASSUME TypeOK, IInv, UNCHANGED <<window, project, queue, conv, objectVars>>,
         \A d \in Conv : client'[d].at = "idle" => client[d].at = "idle"
  PROVE  IInv'
<1>1. UNCHANGED <<window, project, queue, conv, thread, shared, deletions>>
  BY DEF objectVars
<1>2. ASSUME NEW d \in Conv PROVE Once(window.messages, d) /\ Running(d)' = Running(d)
  BY <1>1, <1>2 DEF IInv, Placed, OnItsWay, Running
<1>3. Frame
  BY <1>1, <1>2 DEF Frame
<1> QED  BY <1>1, <1>3, FrameKeeps, SameQueueKeeps DEF SameQueue

LEMMA InviteKeeps ==
  ASSUME TypeOK, IInv, NEW c \in Conv, Invite(c)
  PROVE  IInv'
<1> DEFINE M == Conv \cup {"terminate", "abort"}
<1>1. /\ client[c].at = "idle" /\ client'[c].at = "invited"
      /\ \A d \in Conv \ {c} : client'[d] = client[d]
      /\ UNCHANGED <<project, queue, conv, thread, shared, deletions>>
      /\ window'.messages = Append(window.messages, c) /\ window'.server = window.server
  BY DEF Invite, objectVars, TypeOK, ClientType, WindowType
<1>2. window.messages \in Seq(M)
  BY DEF TypeOK, WindowType
<1>3. ASSUME NEW d \in Conv PROVE OnItsWay(d)'
  <2>1. OnItsWay(d) /\ OnItsWay(c)
    BY <1>3 DEF IInv, Placed
  <2>2. c \in M
    OBVIOUS
  <2> HIDE DEF M
  <2>3. Occurs(window'.messages, d) <=> Occurs(window.messages, d) \/ d = c
    BY <1>1, <1>2, <2>2, AppendOccurs
  <2>4. Once(window'.messages, d)
    BY <1>1, <1>2, <2>1, <2>2, AppendOnce DEF OnItsWay
  <2> QED  BY <1>1, <2>1, <2>3, <2>4 DEF OnItsWay
<1>4. ASSUME NEW d \in Conv PROVE Placed(d)'
  BY <1>1, <1>3, <1>4 DEF IInv, Placed, Owned, HasData, Watched, Visited, Running
<1>5. Idle' /\ QueuePlace'
  BY <1>1 DEF IInv, Idle, QueuePlace, Running
<1> QED  BY <1>4, <1>5 DEF IInv

LEMMA ClientStepKeeps ==
  ASSUME TypeOK, IInv, NEW c \in Conv, ClientStep(c)
  PROVE  IInv'
<1>1. CASE Invite(c)
  BY <1>1, InviteKeeps
<1>2. CASE EndInvitation(c)
  BY <1>2, ClientGoesOn DEF EndInvitation, TypeOK, ClientType
<1>3. CASE Post(c)
  BY <1>3, ClientGoesOn DEF Post, TypeOK, ClientType
<1>4. CASE EndCommand(c)
  BY <1>4, ClientGoesOn DEF EndCommand, TypeOK, ClientType
<1> QED  BY <1>1, <1>2, <1>3, <1>4 DEF ClientStep

-----------------------------------------------------------------------------
(* The window *)

\* The message that is handled is no longer there, the others are.
LEMMA MessagesLeft ==
  ASSUME TypeOK, IInv, NEW m, Message(m), NEW d \in Conv
  PROVE  /\ Once(Handled.messages, d)
         /\ Occurs(Handled.messages, d) <=> Occurs(window.messages, d) /\ d # m
         /\ Occurs(window.messages, m)
<1> DEFINE M == Conv \cup {"terminate", "abort"}
<1>1. window.messages \in Seq(M) /\ window.messages # <<>> /\ Head(window.messages) = m
  BY DEF TypeOK, WindowType, Message
<1>2. Once(window.messages, d)
  BY DEF IInv, Placed, OnItsWay
<1>3. Handled.messages = Tail(window.messages)
  BY WindowHandled DEF TypeOK
<1> HIDE DEF M
<1> QED  BY <1>1, <1>2, <1>3, TailOccurs

\* Only the window changes, and no message to it is new.
LEMMA WindowChanges ==
  ASSUME TypeOK, IInv, UNCHANGED <<queue, conv, client, objectVars>>,
         StayInProject => project' = project,
         \A d \in Conv : /\ Once(window'.messages, d)
                         /\ Occurs(window'.messages, d) => Occurs(window.messages, d),
         window'.server = "quit" => window.server = "quit" \/ queue.idle
  PROVE  IInv'
<1>1. UNCHANGED <<queue, conv, client, thread, shared, deletions>>
  BY DEF objectVars
<1>2. ASSUME NEW d \in Conv PROVE Running(d)' = Running(d)
  BY <1>1 DEF Running
<1>3. Frame
  BY <1>1, <1>2 DEF Frame
<1> QED  BY <1>1, <1>3, FrameKeeps, SameQueueKeeps DEF SameQueue

LEMMA OnInitiateKeeps ==
  ASSUME TypeOK, IInv, NEW c \in Conv, OnInitiate(c), window.server = "up"
  PROVE  IInv'
<1>1. /\ Handled \in WindowType /\ Handled.server = window.server
      /\ \A d \in Conv : /\ Once(Handled.messages, d)
                         /\ Occurs(Handled.messages, d) <=> Occurs(window.messages, d) /\ d # c
      /\ Occurs(window.messages, c)
  BY WindowHandled, MessagesLeft DEF OnInitiate, TypeOK
<1>2. UNCHANGED <<project, conv, client, thread, shared, deletions>>
  BY DEF OnInitiate, objectVars
<1>3. CASE UNCHANGED queue
  <2>1. window'.messages = Handled.messages /\ (window'.server = "quit" => window.server = "quit")
    BY <1>1, <1>3 DEF OnInitiate, WindowType
  <2>2. UNCHANGED <<project, queue, conv, client, objectVars>>
    BY <1>3 DEF OnInitiate
  <2>3. \A d \in Conv : /\ Once(window'.messages, d)
                        /\ Occurs(window'.messages, d) => Occurs(window.messages, d)
    BY <1>1, <2>1
  <2> QED  BY <2>1, <2>2, <2>3, WindowChanges
<1>4. CASE queue' # queue
  <2>1. /\ window' = Handled
        /\ queue'.waiting = Append(queue.waiting, c) /\ queue'.requests = queue.requests \cup {c}
        /\ queue'.idle = FALSE /\ queue'.at = queue.at /\ queue'.taken = queue.taken
        /\ queue'.active = queue.active /\ queue'.handle = queue.handle
    BY <1>4 DEF OnInitiate, TypeOK, QueueType
  <2>2. queue.waiting \in Seq(Conv)
    BY DEF TypeOK, QueueType
  <2>3. Idle'
    BY <1>1, <2>1 DEF Idle
  <2>4. ASSUME NEW d \in Conv PROVE OnItsWay(d)'
    <3>1. OnItsWay(d) /\ OnItsWay(c)
      BY <2>4 DEF IInv, Placed
    <3>2. Occurs(queue'.waiting, d) <=> Occurs(queue.waiting, d) \/ d = c
      BY <2>1, <2>2, AppendOccurs
    <3>3. Once(queue'.waiting, d)
      BY <1>1, <2>1, <2>2, <3>1, AppendOnce DEF OnItsWay
    <3> QED  BY <1>1, <1>2, <2>1, <3>1, <3>2, <3>3 DEF OnItsWay
  <2>5. ASSUME NEW d \in Conv PROVE HasData(d)'
    <3>1. Occurs(queue'.waiting, d) <=> Occurs(queue.waiting, d) \/ d = c
      BY <2>1, <2>2, AppendOccurs
    <3> QED  BY <1>2, <2>1, <3>1 DEF IInv, Placed, HasData, Running
  <2>6. ASSUME NEW d \in Conv PROVE Placed(d)'
    BY <1>2, <2>1, <2>4, <2>5, <2>6 DEF IInv, Placed, Owned, Watched, Visited, Running
  <2>7. QueuePlace'
    BY <1>2, <2>1 DEF IInv, QueuePlace
  <2> QED  BY <2>3, <2>6, <2>7 DEF IInv
<1> QED  BY <1>3, <1>4

LEMMA WindowStepKeeps ==
  ASSUME TypeOK, IInv, window.server = "up", WindowStep
  PROVE  IInv'
<1>1. ASSUME NEW c \in Conv, OnInitiate(c) PROVE IInv'
  BY <1>1, OnInitiateKeeps
<1>2. \A d \in Conv : Once(window.messages, d)
  BY DEF IInv, Placed, OnItsWay
<1>3. CASE OnTerminate
  <2>1. \A d \in Conv : /\ Once(Handled.messages, d)
                        /\ Occurs(Handled.messages, d) => Occurs(window.messages, d)
    BY <1>3, MessagesLeft DEF OnTerminate
  <2>2. window'.messages = Handled.messages /\ window'.server = "up"
    BY <1>3, WindowHandled DEF OnTerminate, TypeOK, WindowType
  <2>3. UNCHANGED <<project, queue, conv, client, objectVars>>
    BY <1>3 DEF OnTerminate
  <2> QED  BY <2>1, <2>2, <2>3, WindowChanges
<1>4. CASE OnAbort
  <2>1. \A d \in Conv : /\ Once(Handled.messages, d)
                        /\ Occurs(Handled.messages, d) => Occurs(window.messages, d)
    BY <1>4, MessagesLeft DEF OnAbort
  <2>2. window'.messages = Handled.messages /\ window'.server = "aborted"
    BY <1>4, WindowHandled DEF OnAbort, TypeOK, WindowType
  <2>3. UNCHANGED <<project, queue, conv, client, objectVars>>
    BY <1>4 DEF OnAbort
  <2> QED  BY <2>1, <2>2, <2>3, WindowChanges
<1>7. CASE OnBackup
  <2>1. window'.messages = window.messages /\ window'.server = "backup"
    BY <1>7 DEF OnBackup, TypeOK, WindowType
  <2>2. UNCHANGED <<project, queue, conv, client, objectVars>>
    BY <1>7 DEF OnBackup
  <2> QED  BY <1>2, <2>1, <2>2, WindowChanges
<1>5. CASE OnKeepAlive
  <2>1. window'.messages = window.messages /\ queue.idle
    BY <1>5 DEF OnKeepAlive, TypeOK, WindowType
  <2>2. UNCHANGED <<project, queue, conv, client, objectVars>>
    BY <1>5 DEF OnKeepAlive
  <2> QED  BY <1>2, <2>1, <2>2, WindowChanges
<1>6. CASE OnPendingMerge
  <2>1. window'.messages = window.messages /\ window'.server = "up"
    BY <1>6 DEF OnPendingMerge, TypeOK, WindowType
  <2>2. UNCHANGED <<queue, conv, client, objectVars>> /\ (StayInProject => project' = project)
    BY <1>6 DEF OnPendingMerge
  <2> QED  BY <1>2, <2>1, <2>2, WindowChanges
<1> QED  BY <1>1, <1>3, <1>4, <1>5, <1>6, <1>7 DEF WindowStep

-----------------------------------------------------------------------------
(* The queue's thread *)

\* A word is appended to the messages, no conversation.
LEMMA WordPosted ==
  ASSUME TypeOK, IInv, NEW w \in {"terminate", "abort"}, NEW d \in Conv
  PROVE  /\ Once(Append(window.messages, w), d)
         /\ Occurs(Append(window.messages, w), d) <=> Occurs(window.messages, d)
<1> DEFINE M == Conv \cup {"terminate", "abort"}
<1>1. window.messages \in Seq(M) /\ w \in M
  BY DEF TypeOK, WindowType
<1>2. Once(window.messages, d) /\ d # w
  BY IpcAssumption DEF IInv, Placed, OnItsWay
<1> HIDE DEF M
<1> QED  BY <1>1, <1>2, AppendOccurs, AppendOnce

\* The queue's thread goes on, and only its place and its marks change.
LEMMA QueueGoesOn ==
  ASSUME TypeOK, IInv, QueuePlace',
         \A d \in Conv : conv'[d].at = conv[d].at,
         \A d \in Conv : /\ Once(window'.messages, d)
                         /\ Occurs(window'.messages, d) => Occurs(window.messages, d),
         window'.server = window.server,
         queue'.waiting = queue.waiting, queue'.taken = queue.taken,
         queue'.active = queue.active, queue'.handle = queue.handle,
         queue'.requests = queue.requests, queue'.idle = queue.idle,
         {queue'.at, queue.at} \cap Told = {},
         UNCHANGED <<project, client, thread, shared, deletions>>
  PROVE  IInv'
<1>1. ASSUME NEW d \in Conv
      PROVE  Running(d)' = Running(d) /\ (conv'[d].at = "none") = (conv[d].at = "none")
  BY DEF Running
<1>2. Frame
  BY <1>1 DEF Frame
<1> QED  BY <1>2, FrameKeeps

LEMMA QueueMarks ==
  ASSUME TypeOK, IInv, Wait \/ Detach \/ MarkDying \/ FlushThread \/ WaitForDeath \/ Report
  PROVE  IInv'
<1> DEFINE Same ==
      /\ queue'.waiting = queue.waiting /\ queue'.taken = queue.taken
      /\ queue'.active = queue.active /\ queue'.handle = queue.handle
      /\ queue'.requests = queue.requests /\ queue'.idle = queue.idle
      /\ UNCHANGED <<project, client, thread, shared, deletions>>
      /\ \A d \in Conv : conv'[d].at = conv[d].at
<1>1. \A d \in Conv : Once(window.messages, d)
  BY DEF IInv, Placed, OnItsWay
<1>2. QueuePlace
  BY DEF IInv
<1>3. CASE Wait
  <2>1. Same /\ window' = window
    BY <1>3 DEF Wait, objectVars, TypeOK, QueueType
  <2>2. /\ queue.at = "wait" /\ queue'.at \in {"detach", "release", "next", "wait"}
        /\ queue'.at = "detach" => queue.active # None
        /\ queue'.at = "next" => queue.active = None
    BY <1>3 DEF Wait, TypeOK, QueueType
  <2>3. QueuePlace'
    BY <1>2, <2>1, <2>2 DEF QueuePlace
  <2>4. {queue'.at, queue.at} \cap Told = {}
    BY <2>2 DEF Told
  <2> QED  BY <1>1, <2>1, <2>3, <2>4, QueueGoesOn
<1>4. CASE Detach
  <2>1. Same /\ window' = window
    BY <1>4 DEF Detach, objectVars, TypeOK, QueueType, ConvType
  <2>2. queue.at = "detach" /\ queue'.at = "die"
    BY <1>4 DEF Detach, TypeOK, QueueType
  <2>3. QueuePlace'
    BY <1>2, <2>1, <2>2 DEF QueuePlace
  <2>4. {queue'.at, queue.at} \cap Told = {}
    BY <2>2 DEF Told
  <2> QED  BY <1>1, <2>1, <2>3, <2>4, QueueGoesOn
<1>5. CASE MarkDying
  <2>1. Same /\ window' = window
    BY <1>5 DEF MarkDying, Kill, TypeOK, QueueType
  <2>2. queue.at = "die" /\ queue'.at = "flush"
    BY <1>5 DEF MarkDying, TypeOK, QueueType
  <2>3. QueuePlace'
    BY <1>2, <2>1, <2>2 DEF QueuePlace
  <2>4. {queue'.at, queue.at} \cap Told = {}
    BY <2>2 DEF Told
  <2> QED  BY <1>1, <2>1, <2>3, <2>4, QueueGoesOn
<1>6. CASE FlushThread
  <2>1. Same /\ window' = window
    BY <1>6 DEF FlushThread, objectVars, TypeOK, QueueType
  <2>2. queue.at = "flush" /\ queue'.at = "join"
    BY <1>6 DEF FlushThread, TypeOK, QueueType
  <2>3. QueuePlace'
    BY <1>2, <2>1, <2>2 DEF QueuePlace
  <2>4. {queue'.at, queue.at} \cap Told = {}
    BY <2>2 DEF Told
  <2> QED  BY <1>1, <2>1, <2>3, <2>4, QueueGoesOn
<1>7. CASE WaitForDeath
  <2>1. Same /\ window' = window
    BY <1>7 DEF WaitForDeath, objectVars, TypeOK, QueueType
  <2>2. queue.at = "join" /\ queue'.at = "release"
    BY <1>7 DEF WaitForDeath, TypeOK, QueueType
  <2>3. QueuePlace'
    BY <1>2, <2>1, <2>2 DEF QueuePlace
  <2>4. {queue'.at, queue.at} \cap Told = {}
    BY <2>2 DEF Told
  <2> QED  BY <1>1, <2>1, <2>3, <2>4, QueueGoesOn
<1>8. CASE Report
  <2>1. Same
    BY <1>8 DEF Report, objectVars, TypeOK, QueueType
  <2>2. /\ queue.at = "report" /\ queue'.at = "wait"
        /\ window'.messages = Append(window.messages, "terminate")
        /\ window'.server = window.server
    BY <1>8 DEF Report, TypeOK, QueueType, WindowType
  <2>3. QueuePlace'
    BY <1>2, <2>1, <2>2 DEF QueuePlace
  <2>4. {queue'.at, queue.at} \cap Told = {}
    BY <2>2 DEF Told
  <2> QED  BY <2>1, <2>2, <2>3, <2>4, WordPosted, QueueGoesOn
<1> QED  BY <1>3, <1>4, <1>5, <1>6, <1>7, <1>8

LEMMA ReleaseKeeps ==
  ASSUME TypeOK, IInv, Release
  PROVE  IInv'
<1>1. /\ queue.at = "release" /\ queue'.at = "check" /\ queue'.active = None
      /\ queue'.waiting = queue.waiting /\ queue'.taken = queue.taken
      /\ queue'.handle = queue.handle /\ queue'.requests = queue.requests
      /\ queue'.idle = queue.idle
      /\ UNCHANGED <<window, project, conv, shm, client>>
  BY DEF Release, TypeOK, QueueType
<1>2. QueuePlace' /\ Idle'
  BY <1>1 DEF IInv, QueuePlace, Idle, Running
<1>3. thread' = thread
  BY DEF Release, ReleaseByHolder, objectVars
<1>4. ASSUME NEW d \in Conv PROVE OnItsWay(d)'
  BY <1>1, <1>4, <1>3 DEF IInv, Placed, OnItsWay
<1>5. ASSUME NEW d \in Conv, queue.active # d PROVE Placed(d)'
  <2>1. shared'[d] = shared[d] /\ deletions'[d] = deletions[d]
    BY <1>5 DEF Release, ReleaseByHolder, LetGo, objectVars, TypeOK, ObjectTypeOK
  <2>2. Placed(d) /\ ~Running(d) /\ d # None
    BY <1>1, <1>5, IpcAssumption DEF IInv, Placed, Watched
  <2> QED  BY <1>1, <1>4, <1>3, <1>5, <2>1, <2>2
              DEF Placed, Owned, HasData, Watched, Visited, Running
<1>6. ASSUME NEW d \in Conv, queue.active = d PROVE Placed(d)'
  <2>1. Placed(d) /\ d # None
    BY <1>6, IpcAssumption DEF IInv
  <2>2. thread[d] \in {"running", "released", "dead"} /\ LetGo(d)
    BY <1>1, <1>6, <2>1 DEF Placed, Owned, Release, ReleaseByHolder, TypeOK, ObjectTypeOK
  <2>3. CASE thread[d] = "running"
    <3>1. shared[d]
      BY <1>6, <2>1, <2>3 DEF Placed, Owned
    <3>2. ~shared'[d] /\ deletions'[d] = deletions[d]
      BY <2>2, <3>1 DEF LetGo, TypeOK, ObjectTypeOK
    <3>3. queue.handle = d
      BY <1>1, <1>6, <2>1 DEF IInv, QueuePlace
    <3> QED  BY <1>1, <1>4, <1>3, <1>6, <2>1, <2>3, <3>2, <3>3
                DEF Placed, Owned, HasData, Watched, Visited, Running
  <2>4. CASE thread[d] \in {"released", "dead"}
    <3>1. ~shared[d] /\ deletions[d] = 0 /\ conv[d].at = "over"
      BY <1>6, <2>1, <2>4 DEF Placed, Owned
    <3>2. deletions' = [deletions EXCEPT ![d] = @ + 1] /\ shared' = shared
      BY <2>2, <3>1 DEF LetGo
    <3>3. deletions'[d] = 1 /\ ~shared'[d]
      BY <3>1, <3>2 DEF TypeOK, ObjectTypeOK
    <3> QED  BY <1>1, <1>4, <1>3, <1>6, <2>1, <2>4, <3>1, <3>3
                DEF Placed, Owned, HasData, Watched, Visited, Running
  <2> QED  BY <2>2, <2>3, <2>4
<1> QED  BY <1>2, <1>5, <1>6 DEF IInv

\* When the thread is found dead no conversation goes on.
LEMMA CheckKeeps ==
  ASSUME TypeOK, IInv, window.server = "up", Check
  PROVE  IInv'
<1>1. PICK alive \in IF queue.handle = None THEN {FALSE} ELSE IsAlive(queue.handle) :
        /\ queue' = [queue EXCEPT !.at = IF alive THEN "ended" ELSE "next"]
        /\ window' = IF alive THEN [window EXCEPT !.messages = Append(@, "abort")] ELSE window
  BY DEF Check
<1>2. /\ queue.at = "check" /\ queue'.at = IF alive THEN "ended" ELSE "next"
      /\ queue'.waiting = queue.waiting /\ queue'.taken = queue.taken
      /\ queue'.active = queue.active /\ queue'.handle = queue.handle
      /\ queue'.requests = queue.requests /\ queue'.idle = queue.idle
      /\ UNCHANGED <<project, conv, shm, client, thread, shared, deletions>>
      /\ window'.server = "up"
  BY <1>1 DEF Check, objectVars, TypeOK, QueueType, WindowType
<1>3. queue.active = None
  BY <1>2 DEF IInv, QueuePlace
<1>4. ASSUME NEW d \in Conv, ~alive PROVE ~Running(d)
  <2>1. Placed(d) /\ d # None
    BY <1>4, IpcAssumption DEF IInv
  <2>2. CASE queue.handle # d
    BY <1>3, <2>1, <2>2 DEF Placed, Watched
  <2>3. CASE queue.handle = d /\ deletions[d] > 0
    BY <2>1, <2>3 DEF Placed, Owned, Running, TypeOK, ObjectTypeOK
  <2>4. CASE queue.handle = d /\ ~(deletions[d] > 0)
    <3>1. thread[d] \in {"none", "dead"}
      BY <1>1, <1>4, <2>1, <2>4 DEF IsAlive, ThreadAlive, TypeOK, ObjectTypeOK
    <3> QED  BY <2>1, <3>1 DEF Placed, Owned, Running
  <2> QED  BY <2>2, <2>3, <2>4
<1>5. ASSUME NEW d \in Conv
      PROVE  Once(window'.messages, d) /\ (Occurs(window'.messages, d) <=> Occurs(window.messages, d))
  <2>1. CASE alive
    BY <1>1, <2>1, WordPosted DEF TypeOK, WindowType
  <2>2. CASE ~alive
    BY <1>1, <2>2 DEF IInv, Placed, OnItsWay
  <2> QED  BY <2>1, <2>2
<1>6. ASSUME NEW d \in Conv PROVE Placed(d)'
  <2>1. Placed(d)
    BY <1>6 DEF IInv
  <2>2. OnItsWay(d)'
    BY <1>2, <1>5, <2>1 DEF Placed, OnItsWay
  <2>3. Owned(d)'
    BY <1>2, <2>1 DEF Placed, Owned, Running
  <2>4. HasData(d)' /\ Visited(d)' /\ Watched(d)'
    BY <1>2, <1>3, <1>4, <2>1 DEF Placed, HasData, Visited, Watched, Running
  <2> QED  BY <2>2, <2>3, <2>4 DEF Placed
<1>7. QueuePlace' /\ Idle'
  BY <1>2, <1>3 DEF IInv, QueuePlace, Idle, Running
<1> QED  BY <1>6, <1>7 DEF IInv

\* Nothing runs when the queue's thread is between two conversations.
LEMMA NothingRuns ==
  ASSUME TypeOK, IInv, queue.at \in {"next", "visit", "create", "report"}, NEW d \in Conv
  PROVE  ~Running(d) /\ queue.active = None /\ d # None
BY IpcAssumption DEF IInv, QueuePlace, Placed, Watched

LEMMA TakeRequestKeeps ==
  ASSUME TypeOK, IInv, window.server = "up", TakeRequest
  PROVE  IInv'
<1> DEFINE c == Head(queue.waiting)
<1>1. /\ queue.at = "next" /\ queue.waiting # <<>> /\ queue.waiting \in Seq(Conv)
      /\ queue'.at = (IF Project[c] = None THEN "create" ELSE "visit")
      /\ queue'.waiting = Tail(queue.waiting) /\ queue'.taken = c
      /\ queue'.active = queue.active /\ queue'.handle = queue.handle
      /\ queue'.requests = queue.requests /\ queue'.idle = queue.idle
      /\ UNCHANGED <<window, project, conv, client, thread, shared, deletions>>
  BY DEF TakeRequest, objectVars, TypeOK, QueueType
<1>2. c \in Conv /\ c # None
  BY <1>1, TailFacts, IpcAssumption
<1>3. ASSUME NEW d \in Conv
      PROVE  /\ Once(queue'.waiting, d)
             /\ Occurs(queue'.waiting, d) <=> Occurs(queue.waiting, d) /\ d # c
             /\ Occurs(queue.waiting, c)
  <2>1. Once(queue.waiting, d)
    BY <1>3 DEF IInv, Placed, OnItsWay
  <2> HIDE DEF c
  <2> QED  BY <1>1, <2>1, TailOccurs DEF c
<1> HIDE DEF c
<1>4. ASSUME NEW d \in Conv PROVE Placed(d)'
  <2>1. Placed(d) /\ ~Running(d) /\ queue.active = None /\ d # None
    BY <1>1, <1>4, NothingRuns DEF IInv
  <2>2. OnItsWay(d)'
    BY <1>1, <1>3, <2>1 DEF Placed, OnItsWay
  <2>3. Owned(d)'
    BY <1>1, <2>1 DEF Placed, Owned, Running
  <2>4. HasData(d)' /\ Watched(d)'
    BY <1>1, <1>3, <2>1 DEF Placed, HasData, Watched, Running
  <2>5. Visited(d)'
    BY <1>1, <2>1 DEF Visited, Running
  <2> QED  BY <2>2, <2>3, <2>4, <2>5 DEF Placed
<1>5. QueuePlace'
  <2>1. queue'.active = None
    BY <1>1, <1>2, NothingRuns
  <2> QED  BY <1>1, <1>2, <2>1 DEF QueuePlace
<1>6. Idle'
  BY <1>1 DEF IInv, Idle
<1> QED  BY <1>4, <1>5, <1>6 DEF IInv

LEMMA NoMoreRequestsKeeps ==
  ASSUME TypeOK, IInv, NoMoreRequests
  PROVE  IInv'
<1>1. /\ queue.at = "next" /\ queue.waiting = <<>> /\ queue'.at = "report"
      /\ queue'.waiting = queue.waiting /\ queue'.taken = queue.taken
      /\ queue'.active = queue.active /\ queue'.handle = queue.handle
      /\ queue'.requests = {} /\ queue'.idle = TRUE
      /\ UNCHANGED <<window, project, conv, client, thread, shared, deletions>>
  BY DEF NoMoreRequests, objectVars, TypeOK, QueueType
<1>2. queue.taken = None /\ queue.active = None
  BY <1>1 DEF IInv, QueuePlace
<1>3. ASSUME NEW d \in Conv PROVE Placed(d)'
  <2>1. Placed(d) /\ ~Running(d) /\ d # None /\ ~Occurs(queue.waiting, d)
    BY <1>1, <1>3, NothingRuns DEF IInv, Occurs
  <2> QED  BY <1>1, <1>2, <2>1
              DEF Placed, OnItsWay, Owned, HasData, Watched, Visited, Running
<1>4. QueuePlace'
  BY <1>1, <1>2 DEF IInv, QueuePlace
<1>5. Idle'
  BY <1>1, <1>2, NothingRuns DEF Idle, Running
<1> QED  BY <1>3, <1>4, <1>5 DEF IInv

LEMMA VisitKeeps ==
  ASSUME TypeOK, IInv, Visit
  PROVE  IInv'
<1>1. /\ queue.at = "visit" /\ queue'.at = "create" /\ project' = Project[queue.taken]
      /\ queue'.waiting = queue.waiting /\ queue'.taken = queue.taken
      /\ queue'.active = queue.active /\ queue'.handle = queue.handle
      /\ queue'.requests = queue.requests /\ queue'.idle = queue.idle
      /\ UNCHANGED <<window, conv, client, thread, shared, deletions>>
  BY DEF Visit, objectVars, TypeOK, QueueType
<1>2. ASSUME NEW d \in Conv PROVE Placed(d)'
  <2>1. Placed(d) /\ ~Running(d) /\ queue.active = None /\ d # None
    BY <1>1, <1>2, NothingRuns DEF IInv
  <2> QED  BY <1>1, <2>1 DEF Placed, OnItsWay, Owned, HasData, Watched, Visited, Running
<1>3. QueuePlace' /\ Idle'
  BY <1>1 DEF IInv, QueuePlace, Idle, Running
<1> QED  BY <1>2, <1>3 DEF IInv

LEMMA FailVisitKeeps ==
  ASSUME TypeOK, IInv, FailVisit
  PROVE  IInv'
<1>1. /\ queue.at = "visit" /\ queue'.at = "next" /\ queue'.taken = None
      /\ queue'.waiting = queue.waiting
      /\ queue'.active = queue.active /\ queue'.handle = queue.handle
      /\ queue'.requests = queue.requests /\ queue'.idle = queue.idle
      /\ UNCHANGED <<window, conv, client, thread, shared, deletions>>
  BY DEF FailVisit, objectVars, TypeOK, QueueType
<1>2. ASSUME NEW d \in Conv PROVE Placed(d)'
  <2>1. Placed(d) /\ ~Running(d) /\ queue.active = None /\ d # None
    BY <1>1, <1>2, NothingRuns DEF IInv
  <2> QED  BY <1>1, <2>1 DEF Placed, OnItsWay, Owned, HasData, Watched, Visited, Running
<1>3. QueuePlace' /\ Idle'
  BY <1>1 DEF IInv, QueuePlace, Idle, Running
<1> QED  BY <1>2, <1>3 DEF IInv

LEMMA FailCreateKeeps ==
  ASSUME TypeOK, IInv, FailCreate
  PROVE  IInv'
<1>1. /\ queue.at = "create" /\ queue'.at = "wait" /\ queue'.taken = None
      /\ queue'.waiting = queue.waiting
      /\ queue'.active = queue.active /\ queue'.handle = queue.handle
      /\ queue'.requests = queue.requests /\ queue'.idle = queue.idle
      /\ UNCHANGED <<window, project, conv, client, thread, shared, deletions>>
  BY DEF FailCreate, objectVars, TypeOK, QueueType
<1>2. ASSUME NEW d \in Conv PROVE Placed(d)'
  <2>1. Placed(d) /\ ~Running(d) /\ queue.active = None /\ d # None
    BY <1>1, <1>2, NothingRuns DEF IInv
  <2> QED  BY <1>1, <2>1 DEF Placed, OnItsWay, Owned, HasData, Watched, Visited, Running
<1>3. QueuePlace' /\ Idle'
  BY <1>1 DEF IInv, QueuePlace, Idle, Running
<1> QED  BY <1>2, <1>3 DEF IInv

LEMMA CreateKeeps ==
  ASSUME TypeOK, IInv, Create
  PROVE  IInv'
<1> DEFINE c == queue.taken
<1>1. /\ queue.at = "create" /\ queue'.at = "share" /\ queue'.taken = None /\ queue'.active = c
      /\ queue'.waiting = queue.waiting /\ queue'.handle = queue.handle
      /\ queue'.requests = queue.requests /\ queue'.idle = queue.idle
      /\ UNCHANGED <<window, project, client, shared, deletions>>
  BY DEF Create, NewObject, TypeOK, QueueType
<1>2. c \in Conv /\ c # None
  BY <1>1 DEF IInv, QueuePlace, TypeOK, QueueType, ConvOrNone
<1>3. /\ thread'[c] = "suspended" /\ \A d \in Conv \ {c} : thread'[d] = thread[d]
      /\ \A d \in Conv : conv'[d].at = conv[d].at
  BY <1>2 DEF Create, NewObject, TypeOK, ObjectTypeOK, ConvType
<1>4. thread[c] = "none" /\ ~Occurs(window.messages, c) /\ ~Occurs(queue.waiting, c)
      /\ client[c].at # "idle"
  BY <1>2 DEF IInv, Placed, OnItsWay
<1> HIDE DEF c
<1>5. ASSUME NEW d \in Conv PROVE Placed(d)'
  <2>1. Placed(d) /\ ~Running(d) /\ queue.active = None /\ d # None
    BY <1>1, <1>5, NothingRuns DEF IInv
  <2>2. OnItsWay(d)'
    BY <1>1, <1>3, <1>4, <2>1 DEF Placed, OnItsWay
  <2>3. Owned(d)'
    BY <1>1, <1>3, <1>4, <2>1 DEF Placed, Owned, Running
  <2>4. HasData(d)' /\ Watched(d)' /\ Visited(d)'
    BY <1>1, <1>3, <2>1 DEF Placed, HasData, Watched, Visited, Running, c
  <2> QED  BY <2>2, <2>3, <2>4 DEF Placed
<1>6. QueuePlace'
  BY <1>1, <1>2, <1>3 DEF QueuePlace
<1>7. Idle'
  BY <1>1, <1>2 DEF IInv, Idle, c
<1> QED  BY <1>5, <1>6, <1>7 DEF IInv

\* The conversation that is made, and nothing that runs.
LEMMA Made ==
  ASSUME TypeOK, IInv, queue.at \in {"share", "resume"}
  PROVE  /\ queue.active \in Conv /\ thread[queue.active] = "suspended"
         /\ queue.taken = None
         /\ \A d \in Conv : ~Running(d)
<1>1. queue.active # None /\ queue.active \in Conv /\ thread[queue.active] = "suspended"
      /\ queue.taken = None
  BY DEF IInv, QueuePlace, TypeOK, QueueType, ConvOrNone
<1>2. ASSUME NEW d \in Conv PROVE ~Running(d)
  <2>1. Placed(d)
    BY <1>2 DEF IInv
  <2> QED  BY <1>1, <2>1 DEF Placed, Watched, Owned, Running
<1> QED  BY <1>1, <1>2

LEMMA ShareKeeps ==
  ASSUME TypeOK, IInv, Share
  PROVE  IInv'
<1> DEFINE c == queue.active
<1>1. /\ queue.at = "share" /\ queue'.at = "resume" /\ queue'.taken = queue.taken
      /\ queue'.waiting = queue.waiting
      /\ queue'.active = queue.active /\ queue'.handle = queue.handle
      /\ queue'.requests = queue.requests /\ queue'.idle = queue.idle
      /\ UNCHANGED <<window, project, conv, client, thread, deletions>>
  BY DEF Share, Acquire, TypeOK, QueueType
<1>2. /\ c \in Conv /\ thread[c] = "suspended" /\ queue.taken = None
      /\ \A d \in Conv : ~Running(d)
  BY <1>1, Made
<1>3. shared'[c] /\ \A d \in Conv \ {c} : shared'[d] = shared[d]
  BY <1>2 DEF Share, Acquire, TypeOK, ObjectTypeOK
<1>4. ASSUME NEW d \in Conv PROVE Placed(d)'
  <2>1. Placed(d) /\ ~Running(d)
    BY <1>2, <1>4 DEF IInv
  <2>2. Owned(d)'
    BY <1>1, <1>2, <1>3, <2>1 DEF Placed, Owned, Running
  <2>3. OnItsWay(d)'
    BY <1>1, <2>1 DEF Placed, OnItsWay
  <2> QED  BY <1>1, <2>1, <2>2, <2>3 DEF Placed, HasData, Watched, Visited, Running
<1>5. QueuePlace' /\ Idle'
  BY <1>1 DEF IInv, QueuePlace, Idle, Running
<1> QED  BY <1>4, <1>5 DEF IInv

LEMMA StartKeeps ==
  ASSUME TypeOK, IInv, Start
  PROVE  IInv'
<1> DEFINE c == queue.active
<1>1. /\ queue.at = "resume" /\ queue'.at = "wait" /\ queue'.taken = queue.taken
      /\ queue'.waiting = queue.waiting /\ queue'.handle = c
      /\ queue'.active = queue.active
      /\ queue'.requests = queue.requests /\ queue'.idle = queue.idle
      /\ UNCHANGED <<window, project, client, shared, deletions>>
  BY DEF Start, Resume, TypeOK, QueueType
<1>2. /\ c \in Conv /\ thread[c] = "suspended" /\ queue.taken = None
      /\ \A d \in Conv : ~Running(d)
  BY <1>1, Made
<1>3. /\ thread'[c] = "running" /\ \A d \in Conv \ {c} : thread'[d] = thread[d]
      /\ conv'[c].at = "greet" /\ \A d \in Conv \ {c} : conv'[d].at = conv[d].at
  BY <1>2 DEF Start, Resume, TypeOK, ObjectTypeOK, ConvType
<1>4. ASSUME NEW d \in Conv PROVE Placed(d)'
  <2>1. Placed(d) /\ ~Running(d)
    BY <1>2, <1>4 DEF IInv
  <2>2. Owned(d)'
    BY <1>1, <1>2, <1>3, <2>1 DEF Placed, Owned, Running
  <2>3. OnItsWay(d)'
    BY <1>1, <1>2, <1>3, <2>1 DEF Placed, OnItsWay
  <2>4. CASE d = c
    BY <1>1, <2>1, <2>2, <2>3, <2>4 DEF Placed, HasData, Watched, Visited
  <2>5. CASE d # c
    BY <1>1, <1>3, <2>1, <2>2, <2>3, <2>5 DEF Placed, HasData, Watched, Visited, Running
  <2> QED  BY <2>4, <2>5
<1>5. QueuePlace'
  BY <1>1, <1>2 DEF QueuePlace
<1>6. Idle'
  <2>1. ~queue.idle
    BY <1>2, IpcAssumption DEF IInv, Idle
  <2> QED  BY <1>1, <2>1 DEF IInv, Idle
<1> QED  BY <1>4, <1>5, <1>6 DEF IInv

-----------------------------------------------------------------------------
(* The theorems *)

LEMMA InvInit == Init => IInv
<1> SUFFICES ASSUME Init PROVE IInv
  OBVIOUS
<1>1. /\ window.messages = <<>> /\ queue.waiting = <<>> /\ queue.taken = None
      /\ queue.active = None /\ queue.at = "wait" /\ window.server = "up"
      /\ \A d \in Conv : /\ d # None /\ conv[d].at = "none" /\ client[d].at = "idle"
                         /\ thread[d] = "none" /\ ~shared[d] /\ deletions[d] = 0
  BY IpcAssumption DEF Init, ObjectInit
<1>2. ASSUME NEW d \in Conv PROVE Placed(d)
  <2>1. Once(<<>>, d) /\ ~Occurs(<<>>, d)
    BY DEF Once, Occurs
  <2> QED  BY <1>1, <1>2, <2>1
              DEF Placed, OnItsWay, Owned, HasData, Watched, Visited, Running
<1>3. QueuePlace /\ Idle
  BY <1>1 DEF QueuePlace, Idle, Running
<1> QED  BY <1>2, <1>3 DEF IInv

LEMMA InvStep ==
  ASSUME TypeOK, IInv, [Next]_vars
  PROVE  IInv'
<1>1. CASE UNCHANGED vars
  BY <1>1 DEF vars, objectVars, IInv, QueuePlace, Idle, Placed, OnItsWay, Owned, HasData,
              Watched, Visited, Running
<1>2. ASSUME NEW c \in Conv, ClientStep(c) PROVE IInv'
  BY <1>2, ClientStepKeeps
<1>3. CASE window.server = "up" /\ WindowStep
  BY <1>3, WindowStepKeeps
<1>4. CASE window.server = "up" /\ QueueStep
  BY <1>4, QueueMarks, ReleaseKeeps, CheckKeeps, TakeRequestKeeps, NoMoreRequestsKeeps,
     VisitKeeps, FailVisitKeeps, CreateKeeps, FailCreateKeeps, ShareKeeps, StartKeeps
     DEF QueueStep
<1>5. ASSUME NEW c \in Conv, ConvStep(c) PROVE IInv'
  BY <1>5, ConvStepKeeps
<1> QED  BY <1>1, <1>2, <1>3, <1>4, <1>5 DEF Next

\* Every variable of the server and its clients keeps its type.
THEOREM TypeCorrect == Spec => []TypeOK
<1>1. TypeOK /\ [Next]_vars => TypeOK'
  BY TypeStep
<1> QED  BY TypeInit, <1>1, PTL DEF Spec

LEMMA Inductive == Spec => [](TypeOK /\ IInv)
<1>1. TypeOK /\ IInv /\ [Next]_vars => IInv'
  BY InvStep
<1> QED  BY InvInit, <1>1, TypeCorrect, PTL DEF Spec

(* The object of every conversation is deleted exactly once, after its       *)
(* thread and the queue have both let go of it (SharedByTwo).                *)
THEOREM ObjectsDeletedOnce == Spec => []DeletedOnce
<1>1. TypeOK /\ IInv => DeletedOnce
  <2> SUFFICES ASSUME TypeOK, IInv, NEW c \in Conv
               PROVE  /\ deletions[c] <= 1
                      /\ thread[c] \in {"suspended", "running"} \/ queue.active = c => deletions[c] = 0
                      /\ thread[c] \in {"released", "dead"} /\ queue.active # c => deletions[c] = 1
    BY DEF DeletedOnce
  <2>1. Owned(c) /\ thread[c] \in {"none", "suspended", "running", "released", "dead"}
    BY DEF IInv, Placed, TypeOK, ObjectTypeOK
  <2> QED  BY <2>1 DEF Owned
<1> QED  BY <1>1, Inductive, PTL

(* No conversation that goes on has its request deleted (RequestQueue).      *)
THEOREM RequestsKept == Spec => []DataKept
<1>1. IInv => DataKept
  BY DEF IInv, Placed, HasData, Running, DataKept
<1> QED  BY <1>1, Inductive, PTL

(* The keep-alive timer stops the server only when nothing runs and nothing   *)
(* waits (ServerCtrl::OnTimer); the backup message asks for neither.          *)
THEOREM QuitsOnlyIdle == Spec => []QuitsIdle
<1>1. IInv => QuitsIdle
  BY DEF IInv, Idle, Running, QuitsIdle
<1> QED  BY <1>1, Inductive, PTL

(* A server that stays in its projects executes every command in the project *)
(* the client named (NextConversation).                                      *)
THEOREM StayingExecutesThere == StayInProject => (Spec => []ExecutesInItsProject)
<1> SUFFICES ASSUME StayInProject PROVE Spec => []ExecutesInItsProject
  OBVIOUS
<1>1. IInv => ExecutesInItsProject
  BY DEF IInv, Placed, Visited, Running, ExecutesInItsProject
<1> QED  BY <1>1, Inductive, PTL
=============================================================================

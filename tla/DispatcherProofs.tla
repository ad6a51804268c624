-------------------------- MODULE DispatcherProofs --------------------------
(* Proofs about the Dispatcher's threads: the main thread and the work queue *)
(* agree on what is in progress, and a file is deleted only after it was     *)
(* copied.  As long as nothing is cleared, a busy copier is answered, unless *)
(* its thread swallowed an exception; and as long as nobody else deletes     *)
(* files and headers can be marked, no request is lost or obsolete and       *)
(* nothing is copied twice.                                                 *)
EXTENDS DispatcherProperties, FiniteSetTheorems, SequenceTheorems, TLAPS

(* The handle of s, one of the scripts to do, when they get their tickets.   *)
Place(s) == CHOOSE i \in DOMAIN SetToSeq(toDo) : SetToSeq(toDo)[i] = s
NewHandle(s) == lastHandle + Place(s)

LEMMA Order ==
  ASSUME NEW S, IsFiniteSet(S)
  PROVE  LET f == SetToSeq(S)
             At(s) == CHOOSE i \in DOMAIN f : f[i] = s
         IN  /\ Cardinality(S) \in Nat /\ Len(f) = Cardinality(S)
             /\ \A s \in S : At(s) \in 1 .. Len(f)
             /\ \A s, x \in S : At(s) = At(x) => s = x
<1> DEFINE n == Cardinality(S)
           f == SetToSeq(S)
<1>1. n \in Nat /\ ExistsBijection(1 .. n, S)
  BY FS_CardinalityType
<1>2. PICK g \in [1 .. n -> S] : IsInjective(g)
  BY <1>1 DEF ExistsBijection, Bijection, Injection
<1>3. f \in [1 .. n -> S] /\ IsInjective(f)
  BY <1>2 DEF SetToSeq
<1>4. IsFiniteSet(1 .. n) /\ Cardinality(1 .. n) = n
  BY <1>1, FS_Interval
<1>5. f \in Injection(1 .. n, S)
  BY <1>3 DEF Injection
<1>6. f \in Surjection(1 .. n, S)
  BY <1>4, <1>5, FS_Injection
<1>7. \A s \in S : \E i \in DOMAIN f : f[i] = s
  BY <1>6, <1>3 DEF Surjection
<1>8. f \in Seq(S) /\ Len(f) = n
  BY <1>1, <1>3
<1> HIDE DEF f, n
<1>9. DOMAIN f = 1 .. Len(f)
  BY <1>3, <1>8
<1>10. \A s \in S : LET i == CHOOSE i \in DOMAIN f : f[i] = s IN i \in DOMAIN f /\ f[i] = s
  BY <1>7
<1> QED  BY <1>1, <1>8, <1>9, <1>10 DEF f, n

-----------------------------------------------------------------------------
(* Types *)

Request == {"none", "untried", "tried", "delivered"}
TicketType == [req : [Transport -> Request], fwd : Int, mail : Int, error : BOOLEAN]
ChannelType == [event : BOOLEAN, lan : Seq(LanAnswer), mail : SUBSET MailAnswer,
                reset : BOOLEAN, clear : BOOLEAN]
WorkerType == [pc : {"waiting", "receiving", "handling", "emailing", "dead", "crashed"},
               work : BOOLEAN, lan : Seq(LanAnswer), mail : SUBSET MailAnswer,
               clear : BOOLEAN, new : SUBSET Script]

FileTypes ==
  /\ inbox \subseteq Script /\ quarantine \subseteq Script
  /\ known \subseteq Script /\ toDo \subseteq Script
  /\ finished \subseteq [script : Script, error : BOOLEAN, delivered : BOOLEAN]
  /\ stamped \in [Script -> SUBSET Transport]
  /\ main \in {"idle", "clearing"} /\ cleared \in BOOLEAN

ThreadTypes ==
  /\ channel \in ChannelType /\ worker \in WorkerType
  /\ Cardinality(channel.mail) < 2
  /\ budget \in [failures : Nat, clears : Nat]

TicketTypes ==
  /\ handle \in [Script -> 0 .. MaxHandle] /\ lastHandle \in 0 .. MaxHandle
  /\ ticket \in [Script -> TicketType]
  /\ copies \in [Script -> [Transport -> 0 .. 2]]

CopierTypes ==
  /\ lan \in [Lan -> Copier] /\ lanJob \in [Lan -> JobType]
  /\ mail \in [running : BOOLEAN, requests : SUBSET Handle, busy : BOOLEAN, clogged : BOOLEAN]
  /\ mailJob \in [posted : SUBSET JobType, mailing : SUBSET JobType, threw : BOOLEAN]
  /\ \A j \in mailJob.posted \cup mailJob.mailing : j.handle # NoHandle

\* Every script to do still gets a handle.
HandlesSuffice == lastHandle + Cardinality(toDo) <= MaxHandle

Types == FileTypes /\ ThreadTypes /\ TicketTypes /\ CopierTypes /\ HandlesSuffice

LEMMA Constants ==
  /\ IsFiniteSet(Script) /\ IsFiniteSet(Lan) /\ Email \notin Lan
  /\ Route \in [Script -> SUBSET Transport]
  /\ MaxHandle \in Nat /\ MaxFailures \in Nat /\ MaxClears \in Nat
  /\ \A L \in SUBSET Lan : IsFiniteSet(L) /\ Cardinality(L) \in Nat
  /\ \A S \in SUBSET Script : IsFiniteSet(S) /\ Cardinality(S) \in Nat
  /\ \A x : Cardinality({x}) = 1
  /\ Cardinality({}) = 0
  /\ \A S : Cardinality(S \cap {Email}) \in Nat
  /\ NoHandle = 0 /\ Transport = Lan \cup {Email} /\ Handle = 1 .. MaxHandle
  /\ NoJob \in JobType /\ NoJob.handle = NoHandle /\ [NoJob EXCEPT !.threw = TRUE] \in JobType
  /\ [NoJob EXCEPT !.threw = TRUE].handle = NoHandle /\ [NoJob EXCEPT !.threw = TRUE].threw
  /\ NoMailJob \in [posted : SUBSET JobType, mailing : SUBSET JobType, threw : BOOLEAN]
  /\ NoMailJob.posted = {} /\ NoMailJob.mailing = {}
  /\ Throwing \subseteq Transport /\ Unmarkable \subseteq Transport
  /\ NoTicket \in TicketType /\ \A t \in Transport : NoTicket.req[t] = "none"
  /\ NoCopier \in Copier /\ NewCopier \in Copier /\ ~NoCopier.busy /\ ~NewCopier.busy
  /\ NoCopier.requests = {} /\ NewCopier.requests = {}
<1>1. \A L \in SUBSET Lan : IsFiniteSet(L) /\ Cardinality(L) \in Nat
  BY DispatcherAssumption, FS_Subset, FS_CardinalityType
<1>2. \A S \in SUBSET Script : IsFiniteSet(S) /\ Cardinality(S) \in Nat
  BY DispatcherAssumption, FS_Subset, FS_CardinalityType
<1>3. (\A x : Cardinality({x}) = 1) /\ Cardinality({}) = 0
  BY FS_Singleton, FS_EmptySet
<1>4. ASSUME NEW S PROVE Cardinality(S \cap {Email}) \in Nat
  <2>1. CASE S \cap {Email} = {}
    <3>1. Cardinality(S \cap {Email}) = 0
      BY <2>1, <1>3, Zenon
    <3> QED  BY <3>1
  <2>2. CASE S \cap {Email} = {Email}
    <3>1. Cardinality(S \cap {Email}) = 1
      BY <2>2, <1>3, Zenon
    <3> QED  BY <3>1
  <2>3. S \cap {Email} = {} \/ S \cap {Email} = {Email}
    BY Zenon
  <2> QED  BY <2>1, <2>2, <2>3
<1>5. /\ NoJob \in JobType /\ NoJob.handle = NoHandle /\ [NoJob EXCEPT !.threw = TRUE] \in JobType
      /\ [NoJob EXCEPT !.threw = TRUE].handle = NoHandle /\ [NoJob EXCEPT !.threw = TRUE].threw
      /\ NoMailJob \in [posted : SUBSET JobType, mailing : SUBSET JobType, threw : BOOLEAN]
      /\ NoMailJob.posted = {} /\ NoMailJob.mailing = {}
  <2>1. (CHOOSE s \in Script : TRUE) \in Script /\ 0 \in 0 .. MaxHandle
    BY DispatcherAssumption
  <2>2. /\ NoJob \in JobType /\ NoJob.handle = NoHandle /\ [NoJob EXCEPT !.threw = TRUE] \in JobType
        /\ [NoJob EXCEPT !.threw = TRUE].handle = NoHandle /\ [NoJob EXCEPT !.threw = TRUE].threw
    <3> DEFINE x == CHOOSE s \in Script : TRUE
    <3>1. NoJob = [handle |-> 0, script |-> x, threw |-> FALSE] /\ x \in Script
      BY <2>1 DEF NoJob, NoHandle
    <3> HIDE DEF x
    <3> QED  BY <2>1, <3>1 DEF JobType, NoHandle
  <2>3. /\ NoMailJob \in [posted : SUBSET JobType, mailing : SUBSET JobType, threw : BOOLEAN]
        /\ NoMailJob.posted = {} /\ NoMailJob.mailing = {}
    BY DEF NoMailJob
  <2> QED  BY <2>2, <2>3
<1>6. NoTicket \in TicketType /\ \A t \in Transport : NoTicket.req[t] = "none"
  BY DEF NoTicket, TicketType, Request
<1>7. NoCopier \in Copier /\ NewCopier \in Copier /\ ~NoCopier.busy /\ ~NewCopier.busy
      /\ NoCopier.requests = {} /\ NewCopier.requests = {}
  BY DEF NoCopier, NewCopier, Copier
<1> QED  BY <1>1, <1>2, <1>3, <1>4, <1>5, <1>6, <1>7, DispatcherAssumption DEF NoHandle, Transport, Handle

LEMMA TypeInit == Init => Types
<1> SUFFICES ASSUME Init PROVE Types
  OBVIOUS
<1>1. FileTypes
  BY DEF Init, FileTypes
<1>2. ThreadTypes
  BY Constants DEF Init, ThreadTypes, ChannelType, WorkerType
<1>3. TicketTypes
  BY Constants DEF Init, TicketTypes
<1>4. CopierTypes
  BY Constants DEF Init, CopierTypes, NoMail
<1>5. HandlesSuffice
  BY Constants DEF Init, HandlesSuffice
<1> QED  BY <1>1, <1>2, <1>3, <1>4, <1>5 DEF Types


LEMMA MarkDoneTicket ==
  ASSUME NEW k \in TicketType, NEW u \in Transport, NEW ok \in BOOLEAN
  PROVE  /\ MarkDone(k, u, ok) \in TicketType
         /\ MarkDone(k, u, ok).error = k.error
         /\ \A t \in Transport : MarkDone(k, u, ok).req[t] =
               IF t # u THEN k.req[t]
               ELSE IF ok \/ k.req[t] = "delivered" THEN "delivered" ELSE "tried"
<1> DEFINE req == [k.req EXCEPT ![u] = IF ok \/ @ = "delivered" THEN "delivered" ELSE "tried"]
           Less(n) == IF n > LeastCount THEN n - 1 ELSE n
           m == IF u \in Lan THEN Less(k.fwd) ELSE k.fwd
           n == IF u = Email THEN Less(k.mail) ELSE k.mail
<1>1. req \in [Transport -> Request] /\ m \in Int /\ n \in Int
  BY DEF TicketType, Request, LeastCount
<1>2. MarkDone(k, u, ok) = [k EXCEPT !.req = req, !.fwd = m, !.mail = n]
  BY DEF MarkDone, TicketType
<1>3. \A t \in Transport : req[t] = IF t # u THEN k.req[t]
               ELSE IF ok \/ k.req[t] = "delivered" THEN "delivered" ELSE "tried"
  BY DEF TicketType
<1> HIDE DEF req, m, n
<1>4. MarkDone(k, u, ok) \in TicketType /\ MarkDone(k, u, ok).error = k.error
      /\ MarkDone(k, u, ok).req = req
  BY <1>1, <1>2 DEF TicketType
<1> QED  BY <1>3, <1>4

LEMMA RefreshedTicket ==
  ASSUME NEW k \in TicketType
  PROVE  /\ RefreshRequests(k) \in TicketType
         /\ \A t \in Transport : RefreshRequests(k).req[t] =
               IF k.req[t] = "tried" THEN "untried" ELSE k.req[t]
<1> DEFINE again == {t \in Transport : k.req[t] = "tried"}
           req == [t \in Transport |-> IF t \in again THEN "untried" ELSE k.req[t]]
           m == k.fwd + Cardinality(again \cap Lan)
           n == k.mail + Cardinality(again \cap {Email})
<1>1. Cardinality(again \cap Lan) \in Int /\ Cardinality(again \cap {Email}) \in Int
  <2>1. /\ \A L \in SUBSET Lan : Cardinality(L) \in Nat
        /\ \A S : Cardinality(S \cap {Email}) \in Nat
    BY Constants
  <2>2. again \cap Lan \in SUBSET Lan
    OBVIOUS
  <2>3. Cardinality(again \cap Lan) \in Nat /\ Cardinality(again \cap {Email}) \in Nat
    BY <2>1, <2>2, Zenon
  <2> QED  BY <2>3
<1>2. RefreshRequests(k) = [k EXCEPT !.req = req, !.fwd = m, !.mail = n]
  BY DEF RefreshRequests
<1>3. req \in [Transport -> Request] /\ m \in Int /\ n \in Int
  BY <1>1 DEF TicketType, Request
<1>4. \A t \in Transport : req[t] = IF k.req[t] = "tried" THEN "untried" ELSE k.req[t]
  OBVIOUS
<1> HIDE DEF req, m, n
<1>5. RefreshRequests(k) \in TicketType /\ RefreshRequests(k).req = req
  BY <1>2, <1>3 DEF TicketType
<1> QED  BY <1>4, <1>5

LEMMA FreshTicket ==
  ASSUME NEW s \in Script
  PROVE  /\ NewTicket(s) \in TicketType
         /\ \A t \in Transport : NewTicket(s).req[t] =
               IF t \in Route[s] \ stamped[s] THEN "untried" ELSE "none"
<1> DEFINE new == Route[s] \ stamped[s]
<1>1. Cardinality(new \cap Lan) \in Int /\ Cardinality(new \cap {Email}) \in Int
  BY Constants
<1> QED  BY <1>1 DEF NewTicket, TicketType, Request

LEMMA NewHandles ==
  ASSUME Types
  PROVE  /\ lastHandle + Len(SetToSeq(toDo)) \in lastHandle .. MaxHandle
         /\ \A s \in toDo : NewHandle(s) \in Handle /\ NewHandle(s) > lastHandle
                            /\ NewHandle(s) <= lastHandle + Len(SetToSeq(toDo))
         /\ \A s, x \in toDo : NewHandle(s) = NewHandle(x) => s = x
<1>1. IsFiniteSet(toDo)
  BY Constants DEF Types, FileTypes
<1>2. lastHandle + Cardinality(toDo) <= MaxHandle /\ lastHandle \in Nat /\ MaxHandle \in Nat
  BY Constants DEF Types, TicketTypes, HandlesSuffice
<1> DEFINE n == Len(SetToSeq(toDo))
<1>3. n = Cardinality(toDo) /\ n \in Nat
  BY <1>1, Order
<1>4. (\A s \in toDo : Place(s) \in 1 .. n) /\ \A s, x \in toDo : Place(s) = Place(x) => s = x
  BY <1>1, Order DEF Place
<1> HIDE DEF n
<1>5. \A s \in toDo : NewHandle(s) = lastHandle + Place(s)
  BY DEF NewHandle
<1>6. lastHandle + n \in lastHandle .. MaxHandle
  BY <1>2, <1>3
<1>7. ASSUME NEW s \in toDo
      PROVE  NewHandle(s) \in Handle /\ NewHandle(s) > lastHandle /\ NewHandle(s) <= lastHandle + n
  BY <1>7, <1>2, <1>3, <1>4, <1>5 DEF Handle
<1>8. ASSUME NEW s \in toDo, NEW x \in toDo, NewHandle(s) = NewHandle(x) PROVE s = x
  <2>1. Place(s) \in Nat /\ Place(x) \in Nat
    BY <1>4, <1>3
  <2>2. Place(s) = Place(x)
    BY <2>1, <1>8, <1>5, <1>2
  <2> QED  BY <2>2, <1>4
<1> QED  BY <1>6, <1>7, <1>8 DEF n

LEMMA TypesMain ==
  ASSUME Types, MainThread \/ Vanish
  PROVE  Types'
<1>1. CASE ProcessInbox
  <2>1. FileTypes' /\ ThreadTypes'
    BY <1>1 DEF ProcessInbox, Types, FileTypes, ThreadTypes, ChannelType
  <2>2. TicketTypes' /\ CopierTypes'
    BY <1>1 DEF ProcessInbox, Types, TicketTypes, CopierTypes, tickets, copiers
  <2>3. HandlesSuffice'
    BY <1>1 DEF ProcessInbox, HandlesSuffice, tickets
  <2> QED  BY <2>1, <2>2, <2>3 DEF Types
<1>2. CASE OnFinishScripts
  <2> DEFINE marked == {s \in {f.script : f \in finished} : Route[s] \subseteq stamped[s]}
             unmarked == {f.script : f \in {g \in finished : g.delivered}} \ marked
             failed == {f.script : f \in {g \in finished : g.error}}
  <2>3. PICK deleted \in SUBSET unmarked :
          /\ quarantine' = quarantine \cup failed \cup (unmarked \ deleted)
          /\ inbox' = inbox \ (marked \cup deleted)
          /\ \E forgotten \in SUBSET deleted : known' = known \ (marked \cup forgotten)
    BY <1>2 DEF OnFinishScripts
  <2>4. unmarked \subseteq Script /\ failed \subseteq Script
    BY DEF Types, FileTypes
  <2>5. inbox' \subseteq Script /\ quarantine' \subseteq Script /\ known' \subseteq Script
    <3> HIDE DEF marked, unmarked, failed
    <3> QED  BY <2>3, <2>4 DEF Types, FileTypes
  <2>1. FileTypes' /\ ThreadTypes'
    BY <1>2, <2>5 DEF OnFinishScripts, Types, FileTypes, ThreadTypes
  <2>2. TicketTypes' /\ CopierTypes' /\ HandlesSuffice'
    BY <1>2 DEF OnFinishScripts, Types, TicketTypes, CopierTypes, tickets, copiers, HandlesSuffice
  <2> QED  BY <2>1, <2>2 DEF Types
<1>3. CASE ClearState
  <2>3. budget' \in [failures : Nat, clears : Nat]
    BY <1>3 DEF ClearState, Types, ThreadTypes
  <2>4. channel' \in ChannelType /\ channel'.mail = channel.mail
    BY <1>3 DEF ClearState, Types, ThreadTypes, ChannelType
  <2>1. FileTypes' /\ ThreadTypes'
    BY <1>3, <2>3, <2>4 DEF ClearState, Types, FileTypes, ThreadTypes
  <2>2. TicketTypes' /\ CopierTypes' /\ HandlesSuffice'
    BY <1>3 DEF ClearState, Types, TicketTypes, CopierTypes, tickets, copiers, HandlesSuffice
  <2> QED  BY <2>1, <2>2 DEF Types
<1>4. CASE StateCleared
  <2>1. FileTypes' /\ ThreadTypes'
    BY <1>4 DEF StateCleared, Types, FileTypes, ThreadTypes, ChannelType
  <2>2. TicketTypes' /\ CopierTypes' /\ HandlesSuffice'
    BY <1>4 DEF StateCleared, Types, TicketTypes, CopierTypes, tickets, copiers, HandlesSuffice
  <2> QED  BY <2>1, <2>2 DEF Types
<1>5. CASE KeepAlive
  <2>4. channel' \in ChannelType /\ channel'.mail = {} /\ worker' \in WorkerType
    BY <1>5 DEF KeepAlive, ChannelType, WorkerType
  <2>5. FileTypes'
    BY <1>5 DEF KeepAlive, Types, FileTypes
  <2>1. FileTypes' /\ ThreadTypes'
    BY <1>5, <2>4, <2>5, Constants DEF KeepAlive, Types, ThreadTypes
  <2>6. handle' \in [Script -> 0 .. MaxHandle] /\ ticket' \in [Script -> TicketType]
    BY <1>5, Constants DEF KeepAlive
  <2>2. TicketTypes' /\ CopierTypes'
    BY <1>5, <2>6 DEF KeepAlive, Types, TicketTypes, CopierTypes, copiers
  <2>3. HandlesSuffice'
    BY <1>5, Constants DEF KeepAlive, Types, TicketTypes, HandlesSuffice
  <2> QED  BY <2>1, <2>2, <2>3 DEF Types
<1>6. CASE Vanish
  <2>1. FileTypes' /\ ThreadTypes'
    BY <1>6 DEF Vanish, Types, FileTypes, ThreadTypes
  <2>2. TicketTypes' /\ CopierTypes' /\ HandlesSuffice'
    BY <1>6 DEF Vanish, Types, TicketTypes, CopierTypes, tickets, copiers, HandlesSuffice
  <2> QED  BY <2>1, <2>2 DEF Types
<1> QED  BY <1>1, <1>2, <1>3, <1>4, <1>5, <1>6 DEF MainThread

LEMMA CopiedType ==
  ASSUME TicketTypes, NEW s \in Script, NEW t \in Transport
  PROVE  /\ Copied(s, t) \in [Script -> [Transport -> 0 .. 2]]
         /\ Copied(s, t)[s][t] > 0
         /\ \A x \in Script, u \in Transport : copies[x][u] > 0 => Copied(s, t)[x][u] > 0
<1>1. copies[s] \in [Transport -> 0 .. 2] /\ copies[s][t] \in 0 .. 2
  BY DEF TicketTypes
<1> DEFINE n == IF copies[s][t] < 2 THEN copies[s][t] + 1 ELSE copies[s][t]
<1>2. n \in 0 .. 2 /\ n > 0
  BY <1>1
<1>3. Copied(s, t) = [copies EXCEPT ![s] = [copies[s] EXCEPT ![t] = n]]
  BY DEF Copied
<1> HIDE DEF n
<1> QED  BY <1>1, <1>2, <1>3 DEF TicketTypes

LEMMA TypesLanCopy ==
  ASSUME Types, NEW t \in Lan, LanCopy(t)
  PROVE  Types'
<1>1. PICK ok \in BOOLEAN :
        /\ ~ok /\ lanJob[t].script \in inbox => budget.failures > 0
        /\ copies' = IF ok THEN Copied(lanJob[t].script, t) ELSE copies
        /\ budget' = IF ok \/ lanJob[t].script \notin inbox THEN budget
                     ELSE [budget EXCEPT !.failures = @ - 1]
        /\ channel' = [channel EXCEPT !.event = TRUE,
              !.lan = Append(@, [to |-> t, handle |-> lanJob[t].handle, ok |-> ok])]
  BY DEF LanCopy
<1>2. lanJob[t] \in JobType /\ lanJob[t].script \in Script /\ lanJob[t].handle \in Handle
  BY Constants DEF LanCopy, Types, CopierTypes, JobType
<1>3. [to |-> t, handle |-> lanJob[t].handle, ok |-> ok] \in LanAnswer
  BY <1>2 DEF LanAnswer
<1>11. Append(channel.lan, [to |-> t, handle |-> lanJob[t].handle, ok |-> ok]) \in Seq(LanAnswer)
  BY <1>3 DEF Types, ThreadTypes, ChannelType
<1>4. channel' \in ChannelType /\ channel'.mail = channel.mail
  BY <1>1, <1>11 DEF Types, ThreadTypes, ChannelType
<1>5. budget' \in [failures : Nat, clears : Nat]
  BY <1>1 DEF Types, ThreadTypes
<1>6. ThreadTypes'
  BY <1>4, <1>5 DEF LanCopy, Types, ThreadTypes
<1>7. FileTypes' /\ HandlesSuffice'
  BY DEF LanCopy, Types, FileTypes, HandlesSuffice, shared, tickets
<1>8. copies' \in [Script -> [Transport -> 0 .. 2]]
  BY <1>1, <1>2, CopiedType, Constants DEF Types, TicketTypes
<1>9. TicketTypes'
  BY <1>8 DEF LanCopy, Types, TicketTypes, tickets
<1>10. CopierTypes'
  BY Constants DEF LanCopy, Types, CopierTypes
<1> QED  BY <1>6, <1>7, <1>9, <1>10 DEF Types

\* What a batch of mail comes to.
LEMMA OutcomeType ==
  ASSUME NEW jobs \in SUBSET JobType, \A j \in jobs : j.handle # NoHandle, NEW o \in Outcome(jobs)
  PROVE  o \in MailAnswer /\ o.first \subseteq o.ok /\ o.ok \subseteq o.batch
         /\ o.batch = {j.handle : j \in jobs}
<1>1. {j.handle : j \in jobs} \subseteq Handle
  BY Constants DEF JobType
<1>2. {j.handle : j \in {i \in jobs : i.script \in inbox}} \subseteq {j.handle : j \in jobs}
  OBVIOUS
<1>3. o \in [batch : {{j.handle : j \in jobs}}, ok : SUBSET {j.handle : j \in {i \in jobs : i.script \in inbox}},
             first : SUBSET {j.handle : j \in {i \in jobs : i.script \in inbox}}, general : BOOLEAN]
      /\ o.first \subseteq o.ok
  BY DEF Outcome
<1>4. o.batch = {j.handle : j \in jobs} /\ o.ok \subseteq o.batch /\ o.first \subseteq o.batch
  BY <1>2, <1>3
<1>5. o \in MailAnswer
  BY <1>1, <1>3, <1>4 DEF MailAnswer
<1> QED  BY <1>3, <1>4, <1>5

LEMMA OneAnswer == Cardinality({}) < 2 /\ \A x : Cardinality({x}) < 2
<1>1. Cardinality({}) = 0
  BY Constants
<1>2. ASSUME NEW x PROVE Cardinality({x}) < 2
  <2>1. Cardinality({x}) = 1
    BY Constants
  <2> QED  BY <2>1
<1>3. Cardinality({}) < 2
  BY <1>1
<1> QED  BY <1>2, <1>3, Zenon

LEMMA TypesMail ==
  ASSUME Types, MailStart \/ MailBlacklisted \/ MailDone
  PROVE  Types'
<1>1. CASE MailStart
  <2>1. FileTypes' /\ ThreadTypes'
    BY <1>1 DEF MailStart, Types, FileTypes, ThreadTypes, shared
  <2>2. TicketTypes' /\ HandlesSuffice' /\ CopierTypes'
    BY <1>1 DEF MailStart, NoMailJob, Types, TicketTypes, HandlesSuffice, CopierTypes, tickets, shared
  <2> QED  BY <2>1, <2>2 DEF Types
<1>2. CASE MailBlacklisted
  <2>1. Nothing \in MailAnswer
    BY DEF Nothing, MailAnswer
  <2>2. channel' \in ChannelType /\ channel'.mail = {Nothing}
    BY <1>2, <2>1 DEF MailBlacklisted, PutMail, Types, ThreadTypes, ChannelType
  <2>3. budget' \in [failures : Nat, clears : Nat]
    BY <1>2 DEF MailBlacklisted, Types, ThreadTypes
  <2>4. FileTypes' /\ ThreadTypes'
    BY <1>2, <2>2, <2>3, OneAnswer DEF MailBlacklisted, Types, FileTypes, ThreadTypes, shared
  <2>5. TicketTypes' /\ HandlesSuffice' /\ CopierTypes'
    BY <1>2 DEF MailBlacklisted, Types, TicketTypes, HandlesSuffice, CopierTypes, tickets, shared, copiers
  <2> QED  BY <2>4, <2>5 DEF Types
<1>3. CASE MailDone
  <2> DEFINE jobs == mailJob.mailing
             Failure(o) == o.ok # {j.handle : j \in {i \in jobs : i.script \in inbox}}
             sent(o) == {j.script : j \in {i \in jobs : i.handle \in o.ok}}
  <2>1. PICK o \in Outcome(jobs) :
          /\ Failure(o) => budget.failures > 0
          /\ budget' = IF Failure(o) THEN [budget EXCEPT !.failures = @ - 1] ELSE budget
          /\ copies' = [s \in Script |-> IF s \in sent(o) THEN Copied(s, Email)[s] ELSE copies[s]]
          /\ PutMail(o)
    BY <1>3 DEF MailDone
  <2>2. jobs \in SUBSET JobType /\ \A j \in jobs : j.handle # NoHandle
    BY DEF Types, CopierTypes
  <2>3. o \in MailAnswer
    BY <2>2, OutcomeType
  <2> HIDE DEF Failure, sent
  <2>4. channel' \in ChannelType /\ channel'.mail = {o}
    BY <2>1, <2>3 DEF PutMail, Types, ThreadTypes, ChannelType
  <2>5. budget' \in [failures : Nat, clears : Nat]
    BY <2>1 DEF Types, ThreadTypes
  <2>6. FileTypes' /\ ThreadTypes'
    BY <1>3, <2>4, <2>5, OneAnswer DEF MailDone, Types, FileTypes, ThreadTypes, shared
  <2>7. ASSUME NEW s \in Script
        PROVE  Copied(s, Email)[s] \in [Transport -> 0 .. 2] /\ copies[s] \in [Transport -> 0 .. 2]
    <3>1. Email \in Transport
      BY Constants
    <3>2. Copied(s, Email) \in [Script -> [Transport -> 0 .. 2]]
      BY <3>1, CopiedType DEF Types
    <3> QED  BY <3>2 DEF Types, TicketTypes
  <2>8. copies' \in [Script -> [Transport -> 0 .. 2]]
    BY <2>1, <2>7
  <2>9. TicketTypes' /\ HandlesSuffice' /\ CopierTypes'
    BY <1>3, <2>8 DEF MailDone, Types, TicketTypes, HandlesSuffice, CopierTypes, tickets, shared
  <2> QED  BY <2>6, <2>9 DEF Types
<1> QED  BY <1>1, <1>2, <1>3

LEMMA TypesThrows ==
  ASSUME Types, MailThrows \/ \E t \in Lan : LanThrows(t)
  PROVE  Types'
<1>1. CASE MailThrows
  <2>1. budget' \in [failures : Nat, clears : Nat]
    BY <1>1 DEF MailThrows, Types, ThreadTypes
  <2>2. FileTypes' /\ ThreadTypes'
    BY <1>1, <2>1 DEF MailThrows, Types, FileTypes, ThreadTypes, shared
  <2>3. ASSUME NEW s \in Script
        PROVE  Copied(s, Email)[s] \in [Transport -> 0 .. 2] /\ copies[s] \in [Transport -> 0 .. 2]
    <3>1. Email \in Transport
      BY Constants
    <3>2. Copied(s, Email) \in [Script -> [Transport -> 0 .. 2]]
      BY <3>1, CopiedType DEF Types
    <3> QED  BY <3>2 DEF Types, TicketTypes
  <2>4. copies' \in [Script -> [Transport -> 0 .. 2]]
    BY <1>1, <2>3 DEF MailThrows
  <2>5. TicketTypes' /\ HandlesSuffice' /\ CopierTypes'
    BY <1>1, <2>4 DEF MailThrows, Types, TicketTypes, HandlesSuffice, CopierTypes, tickets, shared
  <2> QED  BY <2>2, <2>5 DEF Types
<1>2. CASE \E t \in Lan : LanThrows(t)
  <2>1. PICK t \in Lan : LanThrows(t)
    BY <1>2
  <2>2. budget' \in [failures : Nat, clears : Nat]
    BY <2>1 DEF LanThrows, Types, ThreadTypes
  <2>3. FileTypes' /\ ThreadTypes'
    BY <2>1, <2>2 DEF LanThrows, Types, FileTypes, ThreadTypes, shared
  <2>4. TicketTypes' /\ HandlesSuffice' /\ CopierTypes'
    BY <2>1, Constants DEF LanThrows, Types, TicketTypes, HandlesSuffice, CopierTypes, tickets, shared
  <2> QED  BY <2>3, <2>4 DEF Types
<1> QED  BY <1>1, <1>2

LEMMA TypesWaiting ==
  ASSUME Types, Wake \/ Receive \/ GoWaiting
  PROVE  Types'
<1>1. worker' \in WorkerType /\ channel' \in ChannelType /\ Cardinality(channel'.mail) < 2
  <2>1. CASE Wake
    BY <2>1 DEF Wake, Types, ThreadTypes, WorkerType, ChannelType
  <2>2. CASE Receive
    <3>4. channel \in ChannelType /\ <<>> \in Seq(LanAnswer) /\ {} \in SUBSET MailAnswer
          /\ channel' = [channel EXCEPT !.lan = <<>>, !.mail = {}, !.reset = FALSE, !.clear = FALSE]
      BY <2>2 DEF Receive, Types, ThreadTypes
    <3>1. channel'.mail = {} /\ channel' \in ChannelType
      BY <3>4 DEF ChannelType
    <3>2. Cardinality(channel'.mail) < 2
      BY <3>1, OneAnswer, Zenon
    <3>3. worker' \in WorkerType
      BY <2>2 DEF Receive, Types, ThreadTypes, WorkerType, ChannelType
    <3> QED  BY <3>1, <3>2, <3>3
  <2>3. CASE GoWaiting
    BY <2>3 DEF GoWaiting, Types, ThreadTypes, WorkerType, ChannelType
  <2> QED  BY <2>1, <2>2, <2>3
<1>2. UNCHANGED <<shared, main, tickets, copiers, copies, budget>>
  BY DEF Wake, Receive, GoWaiting
<1>3. FileTypes' /\ ThreadTypes'
  BY <1>1, <1>2 DEF Types, FileTypes, ThreadTypes, shared
<1>4. TicketTypes' /\ HandlesSuffice' /\ CopierTypes'
  BY <1>2 DEF Types, TicketTypes, HandlesSuffice, CopierTypes, tickets, copiers, shared
<1> QED  BY <1>3, <1>4 DEF Types

LEMMA TypesSettle ==
  ASSUME Types, NEW new \in [Script -> TicketType], NEW P \in SUBSET Script, NEW F \in SUBSET Script,
         SettleTickets(new, P, F), UNCHANGED <<main, copies>>
  PROVE  FileTypes' /\ TicketTypes' /\ HandlesSuffice'
<1>1. \A s \in Script : Delivered(new[s]) \subseteq Transport /\ new[s].error \in BOOLEAN
  BY DEF Delivered, TicketType
<1>5. stamped' \in [Script -> SUBSET Transport]
  <2>1. PICK lost \in [P -> SUBSET Unmarkable] :
          stamped' = [s \in Script |->
              IF s \in P THEN stamped[s] \cup (Delivered(new[s]) \ lost[s]) ELSE stamped[s]]
    BY DEF SettleTickets, Stamp
  <2> QED  BY <1>1, <2>1 DEF Types, FileTypes
<1>6. Finished(new, F) \subseteq [script : Script, error : BOOLEAN, delivered : BOOLEAN]
  <2> SUFFICES ASSUME NEW f \in Finished(new, F)
               PROVE  f \in [script : Script, error : BOOLEAN, delivered : BOOLEAN]
    OBVIOUS
  <2>1. PICK s \in F : f = [script |-> s, error |-> new[s].error, delivered |-> ~AreRequestsPending(new[s])]
    BY DEF Finished
  <2>2. s \in Script /\ AreRequestsPending(new[s]) \in BOOLEAN
    BY DEF AreRequestsPending
  <2> DEFINE pending == AreRequestsPending(new[s])
  <2> HIDE DEF pending
  <2>3. f = [script |-> s, error |-> new[s].error, delivered |-> ~pending]
    BY <2>1 DEF pending
  <2> QED  BY <1>1, <2>2, <2>3
<1>2. FileTypes'
  BY <1>5, <1>6 DEF SettleTickets, Types, FileTypes
<1>3. handle' \in [Script -> 0 .. MaxHandle] /\ ticket' \in [Script -> TicketType]
  <2>1. NoHandle \in 0 .. MaxHandle /\ NoTicket \in TicketType
    BY Constants
  <2> QED  BY <2>1 DEF SettleTickets, Types, TicketTypes
<1>4. TicketTypes' /\ HandlesSuffice'
  BY <1>3 DEF SettleTickets, Types, TicketTypes, HandlesSuffice
<1> QED  BY <1>2, <1>4

LEMMA JobOf ==
  ASSUME NEW h \in Handle, \E s \in Script : handle'[s] = h
  PROVE  /\ Job(h) \in JobType /\ Job(h).handle = h /\ h # NoHandle
         /\ handle'[Job(h).script] = h
<1>1. LET s == CHOOSE s \in Script : handle'[s] = h IN s \in Script /\ handle'[s] = h
  OBVIOUS
<1> QED  BY <1>1, Constants DEF Job, JobType

LEMMA LiveOf ==
  ASSUME NEW c, NEW h \in LiveRequests(c)
  PROVE  h \in c.requests /\ \E s \in Script : handle'[s] = h
BY DEF LiveRequests

LEMMA LanRequestDoneType ==
  ASSUME NEW c \in Copier, NEW h, NEW ok \in BOOLEAN
  PROVE  /\ LanRequestDone(c, h, ok) \in Copier
         /\ ~LanRequestDone(c, h, ok).busy
         /\ LanRequestDone(c, h, ok).requests \subseteq c.requests
BY DEF LanRequestDone, Copier

LEMMA TypesCopyNext ==
  ASSUME Types, NEW t \in Lan, NEW c \in Copier, worker.lan # <<>>, CopyNextScript(t, c)
  PROVE  CopierTypes' /\ worker' \in WorkerType
<1>0. worker \in WorkerType /\ Tail(worker.lan) \in Seq(LanAnswer)
  BY DEF Types, ThreadTypes, WorkerType
<1>1. CASE /\ lan' = [lan EXCEPT ![t] = Removed(c)]
           /\ worker' = [worker EXCEPT !.lan = Tail(@)]
           /\ UNCHANGED <<lanJob, mail, mailJob>>
  BY <1>0, <1>1, Constants DEF Types, CopierTypes, Removed, WorkerType
<1>2. CASE /\ \E h \in LiveRequests(c) :
                 /\ lan' = [lan EXCEPT ![t] = [c EXCEPT !.busy = TRUE]]
                 /\ lanJob' = [lanJob EXCEPT ![t] = Job(h)]
           /\ worker' = [worker EXCEPT !.lan = Tail(@)]
           /\ UNCHANGED <<mail, mailJob>>
  <2>1. PICK h \in LiveRequests(c) :
                 /\ lan' = [lan EXCEPT ![t] = [c EXCEPT !.busy = TRUE]]
                 /\ lanJob' = [lanJob EXCEPT ![t] = Job(h)]
    BY <1>2
  <2>2. h \in Handle /\ \E s \in Script : handle'[s] = h
    BY LiveOf DEF Copier
  <2>3. Job(h) \in JobType
    BY <2>2, JobOf
  <2>4. [c EXCEPT !.busy = TRUE] \in Copier
    BY DEF Copier
  <2>5. CopierTypes'
    BY <1>2, <2>1, <2>3, <2>4 DEF Types, CopierTypes
  <2> QED  BY <1>0, <1>2, <2>5 DEF WorkerType
<1>3. CASE Dies
  <2>1. CopierTypes'
    BY <1>3, Constants DEF Dies, CopierTypes, NoMail
  <2> QED  BY <1>0, <1>3, <2>1 DEF Dies, WorkerType
<1> QED  BY <1>1, <1>2, <1>3 DEF CopyNextScript

LEMMA TypesOnLan ==
  ASSUME Types, OnLanCopyDone
  PROVE  Types'
<1> DEFINE m == Head(worker.lan)
           c == LanRequestDone(lan[m.to], m.handle, m.ok)
           s == ScriptOf(m.handle)
           k == MarkDone(ticket[s], m.to, m.ok)
<1>1. m \in LanAnswer /\ worker.lan # <<>> /\ Tail(worker.lan) \in Seq(LanAnswer)
  BY DEF OnLanCopyDone, Types, ThreadTypes, WorkerType
<1>2. m.to \in Lan /\ m.handle \in Handle /\ m.ok \in BOOLEAN /\ m.to \in Transport
  BY <1>1, Constants DEF LanAnswer
<1>3. c \in Copier
  BY <1>2, LanRequestDoneType DEF Types, CopierTypes
<1>4. [worker EXCEPT !.lan = Tail(@)] \in WorkerType
  BY <1>1 DEF Types, ThreadTypes, WorkerType
<1>5. [lan EXCEPT ![m.to] = c] \in [Lan -> Copier]
  BY <1>3 DEF Types, CopierTypes
<1>6. CASE Live(m.handle)
  <2>1. s \in Script /\ handle[s] = m.handle
    BY <1>6 DEF Live, ScriptOf
  <2>2. k \in TicketType
    BY <1>2, <2>1, MarkDoneTicket DEF Types, TicketTypes
  <2> DEFINE new == [ticket EXCEPT ![s] = k]
             P == {x \in {s} : m.ok}
             F == {x \in {s} : m.ok /\ IsFinished(k)}
  <2>3. new \in [Script -> TicketType] /\ P \in SUBSET Script /\ F \in SUBSET Script
    BY <2>1, <2>2 DEF Types, TicketTypes
  <2>4. SettleTickets(new, P, F) /\ UNCHANGED <<main, copies>>
    BY <1>6 DEF OnLanCopyDone
  <2>5. IF c.clogged
        THEN /\ lan' = [lan EXCEPT ![m.to] = c]
             /\ worker' = [worker EXCEPT !.lan = Tail(@)]
             /\ UNCHANGED <<lanJob, mail, mailJob>>
        ELSE CopyNextScript(m.to, c)
    BY <1>6 DEF OnLanCopyDone
  <2> HIDE DEF m, c, s, k, new, P, F
  <2>6. FileTypes' /\ TicketTypes' /\ HandlesSuffice'
    BY <2>3, <2>4, TypesSettle
  <2>7. CopierTypes' /\ worker' \in WorkerType
    BY <2>5, <1>1, <1>2, <1>3, <1>4, <1>5, TypesCopyNext DEF Types, CopierTypes
  <2>8. ThreadTypes'
    BY <2>7 DEF OnLanCopyDone, Types, ThreadTypes
  <2> QED  BY <2>6, <2>7, <2>8 DEF Types
<1>7. CASE ~Live(m.handle)
  <2>1. lan' = [lan EXCEPT ![m.to] = c] /\ worker' = [worker EXCEPT !.lan = Tail(@)]
        /\ UNCHANGED <<shared, tickets, lanJob, mail, mailJob, main, channel, copies, budget>>
    BY <1>7 DEF OnLanCopyDone
  <2> HIDE DEF m, c
  <2>2. FileTypes' /\ TicketTypes' /\ HandlesSuffice'
    BY <2>1 DEF Types, FileTypes, TicketTypes, HandlesSuffice, shared, tickets
  <2>3. CopierTypes' /\ ThreadTypes'
    BY <2>1, <1>4, <1>5 DEF Types, CopierTypes, ThreadTypes
  <2> QED  BY <2>2, <2>3 DEF Types
<1> QED  BY <1>6, <1>7

MailType == [running : BOOLEAN, requests : SUBSET Handle, busy : BOOLEAN, clogged : BOOLEAN]

LEMMA MailRequestsDoneType ==
  ASSUME mail \in MailType, NEW m \in MailAnswer
  PROVE  MailRequestsDone(m) \in MailType
BY DEF MailRequestsDone, MailType, MailAnswer

\* What an answer about a batch does, in parts.
MailSettled(m) == {s \in Script : handle[s] \in m.batch}
MailTicket(m, s) ==
  MarkDone([ticket[s] EXCEPT !.error = @ \/ ~(m.general \/ handle[s] \in m.ok)], Email, handle[s] \in m.ok)
MailTickets(m) == [s \in Script |-> IF s \in MailSettled(m) THEN MailTicket(m, s) ELSE ticket[s]]
MailFinished(m) == {s \in MailSettled(m) : IsFinished(MailTicket(m, s))}
MailGoesOn(c) ==
  IF c.requests = {} \/ (~c.clogged /\ LiveRequests(c) = {})
  THEN RemoveMail
  ELSE /\ worker' = [worker EXCEPT !.mail = {}]
       /\ mail' = IF c.clogged THEN c ELSE [c EXCEPT !.requests = LiveRequests(c), !.busy = TRUE]
       /\ mailJob' = IF c.clogged THEN mailJob
                     ELSE [mailJob EXCEPT !.posted = {Job(h) : h \in LiveRequests(c)}]

LEMMA OnMail ==
  ASSUME OnEmailCopyDone
  PROVE  \E m \in worker.mail :
           /\ worker.pc = "handling" /\ worker.lan = <<>>
           /\ SettleTickets(MailTickets(m), MailSettled(m), MailFinished(m))
           /\ MailGoesOn(MailRequestsDone(m))
           /\ UNCHANGED <<main, channel, lan, lanJob, copies, budget>>
<1> DEFINE m == CHOOSE x \in worker.mail : TRUE
<1>1. m \in worker.mail
  BY DEF OnEmailCopyDone
<1>2. /\ worker.pc = "handling" /\ worker.lan = <<>>
      /\ SettleTickets(MailTickets(m), MailSettled(m), MailFinished(m))
      /\ MailGoesOn(MailRequestsDone(m))
      /\ UNCHANGED <<main, channel, lan, lanJob, copies, budget>>
  BY DEF OnEmailCopyDone, MailTickets, MailFinished, MailSettled, MailTicket, MailGoesOn
<1> HIDE DEF m
<1> QED  BY <1>1, <1>2

LEMMA MailTicketType ==
  ASSUME TicketTypes, NEW m \in MailAnswer, NEW s \in Script
  PROVE  /\ MailTicket(m, s) \in TicketType
         /\ \A t \in Lan : MailTicket(m, s).req[t] = ticket[s].req[t]
         /\ MailTicket(m, s).req[Email] =
               IF handle[s] \in m.ok \/ ticket[s].req[Email] = "delivered" THEN "delivered" ELSE "tried"
<1> DEFINE k == [ticket[s] EXCEPT !.error = @ \/ ~(m.general \/ handle[s] \in m.ok)]
<1>1. k \in TicketType /\ k.req = ticket[s].req
  BY DEF TicketTypes, TicketType, MailAnswer
<1>2. MailTicket(m, s) = MarkDone(k, Email, handle[s] \in m.ok)
  BY DEF MailTicket
<1>3. Email \in Transport /\ Lan \subseteq Transport /\ Email \notin Lan /\ (handle[s] \in m.ok) \in BOOLEAN
  BY Constants
<1> DEFINE ok == handle[s] \in m.ok
<1> HIDE DEF k, ok
<1>4. /\ MarkDone(k, Email, ok) \in TicketType
      /\ \A t \in Transport : MarkDone(k, Email, ok).req[t] =
            IF t # Email THEN k.req[t] ELSE IF ok \/ k.req[t] = "delivered" THEN "delivered" ELSE "tried"
  <2>1. ok \in BOOLEAN
    BY DEF ok
  <2> QED  BY <1>1, <1>3, <2>1, MarkDoneTicket
<1>5. MailTicket(m, s) = MarkDone(k, Email, ok)
  BY <1>2 DEF ok
<1>6. /\ MarkDone(k, Email, ok).req[Email] = IF ok \/ k.req[Email] = "delivered" THEN "delivered" ELSE "tried"
      /\ \A t \in Lan : MarkDone(k, Email, ok).req[t] = k.req[t]
  BY <1>3, <1>4
<1> QED  BY <1>1, <1>4, <1>5, <1>6 DEF ok

LEMMA TypesGoesOn ==
  ASSUME Types, NEW c \in MailType, MailGoesOn(c)
  PROVE  /\ worker' \in WorkerType /\ mail' \in MailType
         /\ mailJob' \in [posted : SUBSET JobType, mailing : SUBSET JobType, threw : BOOLEAN]
         /\ \A j \in mailJob'.posted \cup mailJob'.mailing : j.handle # NoHandle
<1> DEFINE live == LiveRequests(c)
           jobs == {Job(h) : h \in live}
<1>1. CASE c.requests = {} \/ (~c.clogged /\ live = {})
  <2>1. RemoveMail
    BY <1>1 DEF MailGoesOn
  <2> QED  BY <2>1 DEF RemoveMail, Types, CopierTypes, ThreadTypes, WorkerType, NoMail, MailType
<1>2. CASE ~(c.requests = {} \/ (~c.clogged /\ live = {}))
  <2>1. /\ worker' = [worker EXCEPT !.mail = {}]
        /\ mail' = IF c.clogged THEN c ELSE [c EXCEPT !.requests = live, !.busy = TRUE]
        /\ mailJob' = IF c.clogged THEN mailJob ELSE [mailJob EXCEPT !.posted = jobs]
    BY <1>2 DEF MailGoesOn
  <2>2. live \subseteq Handle /\ \A h \in live : \E s \in Script : handle'[s] = h
    BY DEF LiveRequests, MailType
  <2>3. jobs \subseteq JobType /\ \A j \in jobs : j.handle # NoHandle
    BY <2>2, JobOf
  <2> HIDE DEF live, jobs
  <2>4. worker' \in WorkerType
    BY <2>1 DEF Types, ThreadTypes, WorkerType
  <2>5. mail' \in MailType
    BY <2>1, <2>2 DEF MailType
  <2>6. mailJob \in [posted : SUBSET JobType, mailing : SUBSET JobType, threw : BOOLEAN]
        /\ \A j \in mailJob.posted \cup mailJob.mailing : j.handle # NoHandle
    BY DEF Types, CopierTypes
  <2>7. CASE c.clogged
    BY <2>1, <2>4, <2>5, <2>6, <2>7
  <2>8. CASE ~c.clogged
    BY <2>1, <2>3, <2>4, <2>5, <2>6, <2>8
  <2> QED  BY <2>7, <2>8
<1> QED  BY <1>1, <1>2

LEMMA TypesOnMail ==
  ASSUME Types, OnEmailCopyDone
  PROVE  Types'
<1>1. PICK m \in worker.mail :
        /\ SettleTickets(MailTickets(m), MailSettled(m), MailFinished(m))
        /\ MailGoesOn(MailRequestsDone(m))
        /\ UNCHANGED <<main, channel, lan, lanJob, copies, budget>>
  BY OnMail
<1>2. m \in MailAnswer
  BY DEF Types, ThreadTypes, WorkerType
<1>3. MailTickets(m) \in [Script -> TicketType] /\ MailSettled(m) \in SUBSET Script
      /\ MailFinished(m) \in SUBSET Script
  BY <1>2, MailTicketType DEF MailTickets, MailFinished, MailSettled, Types, TicketTypes
<1>4. FileTypes' /\ TicketTypes' /\ HandlesSuffice'
  BY <1>1, <1>3, TypesSettle
<1>5. MailRequestsDone(m) \in MailType
  BY <1>2, MailRequestsDoneType DEF Types, CopierTypes, MailType
<1>6. worker' \in WorkerType /\ mail' \in MailType
      /\ mailJob' \in [posted : SUBSET JobType, mailing : SUBSET JobType, threw : BOOLEAN]
      /\ \A j \in mailJob'.posted \cup mailJob'.mailing : j.handle # NoHandle
  BY <1>1, <1>5, TypesGoesOn
<1>7. ThreadTypes' /\ CopierTypes'
  BY <1>1, <1>6 DEF Types, ThreadTypes, CopierTypes, MailType
<1> QED  BY <1>4, <1>7 DEF Types

LEMMA TypesClear ==
  ASSUME Types, HandleClear
  PROVE  Types'
<1>1. channel' \in ChannelType /\ channel'.mail = channel.mail
  <2>1. channel \in ChannelType /\ <<>> \in Seq(LanAnswer) /\ channel' = [channel EXCEPT !.lan = <<>>]
    BY DEF HandleClear, Types, ThreadTypes
  <2> QED  BY <2>1 DEF ChannelType
<1>2. worker' \in WorkerType
  BY DEF HandleClear, Types, ThreadTypes, WorkerType
<1>3. FileTypes' /\ ThreadTypes'
  BY <1>1, <1>2 DEF HandleClear, Types, FileTypes, ThreadTypes
<1>9. NoHandle \in 0 .. MaxHandle /\ NoTicket \in TicketType
  BY Constants
<1>4. TicketTypes'
  BY <1>9 DEF HandleClear, Types, TicketTypes
<1>5. lan' \in [Lan -> Copier]
  BY Constants DEF HandleClear, Types, CopierTypes, Copier
<1>6. mail' \in MailType
  BY DEF HandleClear, Types, CopierTypes, NoMail, MailType
<1>7. CopierTypes'
  BY <1>5, <1>6 DEF HandleClear, Types, CopierTypes, MailType
<1>8. HandlesSuffice'
  BY Constants DEF HandleClear, Types, TicketTypes, HandlesSuffice
<1> QED  BY <1>3, <1>4, <1>7, <1>8 DEF Types

\* What StartForwarding does, in parts.
NewScripts == toDo \cap inbox
NewFor(t) == {NewHandle(s) : s \in {x \in NewScripts : NewTicket(x).req[t] = "untried"}}
Given(c, hs) ==
  IF hs = {} THEN c ELSE [(IF c.mapped THEN c ELSE NewCopier) EXCEPT !.requests = @ \cup hs]

LEMMA Forwarding ==
  ASSUME StartForwarding
  PROVE  /\ lastHandle' = lastHandle + Len(SetToSeq(toDo))
         /\ handle' = [s \in Script |-> IF s \in NewScripts THEN NewHandle(s) ELSE handle[s]]
         /\ ticket' = [s \in Script |-> IF s \in NewScripts THEN NewTicket(s) ELSE ticket[s]]
         /\ lan' = [t \in Lan |-> Given(UnclogLan(lan[t]), NewFor(t))]
         /\ \E pc \in {"crashed", "emailing"} : worker' = [worker EXCEPT !.new = NewScripts, !.pc = pc]
BY DEF StartForwarding, NewScripts, NewFor, Given, NewHandle, Place

LEMMA GivenType ==
  ASSUME NEW c \in Copier, NEW hs \in SUBSET Handle
  PROVE  Given(UnclogLan(c), hs) \in Copier /\ (Given(UnclogLan(c), hs).busy => c.busy)
BY Constants DEF Given, UnclogLan, NewCopier, NoCopier, Copier

\* Without scripts to do the handles given are enough.
LEMMA NoneLeft ==
  ASSUME NEW last \in Nat, NEW limit \in Nat, last <= limit, NEW left, left = 0
  PROVE  last + left <= limit
OBVIOUS

LEMMA TypesForward ==
  ASSUME Types, StartForwarding
  PROVE  Types'
<1>1. NewScripts \subseteq toDo /\ NewScripts \subseteq Script
  BY DEF NewScripts, Types, FileTypes
<1>2. \A s \in NewScripts : NewHandle(s) \in Handle
  BY <1>1, NewHandles
<1>3. \A t : NewFor(t) \subseteq Handle
  BY <1>2 DEF NewFor
<1>4. lan' \in [Lan -> Copier]
  BY <1>3, Forwarding, GivenType DEF Types, CopierTypes
<1>5. CopierTypes'
  BY <1>4 DEF StartForwarding, Types, CopierTypes
<1>6. worker' \in WorkerType
  BY <1>1, Forwarding DEF Types, ThreadTypes, WorkerType
<1>7. FileTypes' /\ ThreadTypes'
  BY <1>6 DEF StartForwarding, Types, FileTypes, ThreadTypes
<1>8. handle' \in [Script -> 0 .. MaxHandle]
  BY <1>1, <1>2, Forwarding, Constants DEF Types, TicketTypes
<1>9. ticket' \in [Script -> TicketType]
  BY <1>1, FreshTicket, Forwarding DEF Types, TicketTypes
<1>10. lastHandle' \in 0 .. MaxHandle
  <2>1. lastHandle' \in lastHandle .. MaxHandle /\ lastHandle \in Nat /\ MaxHandle \in Nat
    BY NewHandles, Forwarding, DispatcherAssumption DEF Types, TicketTypes
  <2> QED  BY <2>1
<1>11. TicketTypes'
  BY <1>8, <1>9, <1>10 DEF StartForwarding, Types, TicketTypes
<1>12. HandlesSuffice'
  <2>1. toDo' = {}
    BY DEF StartForwarding
  <2>2. Cardinality(toDo') = 0
    BY <2>1, Constants, Zenon
  <2>3. lastHandle' \in Nat /\ MaxHandle \in Nat /\ lastHandle' <= MaxHandle
    BY <1>10, DispatcherAssumption
  <2> QED  BY <2>2, <2>3, NoneLeft DEF HandlesSuffice
<1> QED  BY <1>5, <1>7, <1>11, <1>12 DEF Types

\* What StartCopying does, in parts.
Gone == ToMail \ inbox
MailRequests == mail.requests \cup {handle[s] : s \in ToMail \cap inbox}
MailPosted(live) ==
  \/ mail' = NoMail /\ live = {} /\ mailJob' = [mailJob EXCEPT !.posted = {Job(h) : h \in live}]
  \/ /\ \E b \in BOOLEAN, q \in {live, MailRequests} : \E r \in BOOLEAN :
           mail' = [mail EXCEPT !.running = r, !.requests = q, !.busy = b]
     /\ mailJob' \in {mailJob, [mailJob EXCEPT !.posted = {Job(h) : h \in live}]}

LEMMA Copying ==
  ASSUME Types, StartCopying
  PROVE  /\ worker.pc = "emailing" /\ worker' = [worker EXCEPT !.pc = "waiting", !.new = {}]
         /\ known' = known \ Gone
         /\ handle' = [s \in Script |-> IF s \in Gone THEN NoHandle ELSE handle[s]]
         /\ \/ ticket' = [s \in Script |-> IF s \in Gone THEN NoTicket ELSE RefreshRequests(ticket[s])]
            \/ ticket' = [s \in Script |-> IF s \in Gone THEN NoTicket ELSE ticket[s]]
         /\ \E ts \in SUBSET Idle : StartLan(ts)
         /\ MailPosted(LiveRequests([requests |-> MailRequests]))
<1> DEFINE gone == ToMail \ inbox
           posted == {handle[s] : s \in ToMail \cap inbox}
           requests == mail.requests \cup posted
           running == mail.running \/ posted # {}
           live == LiveRequests([requests |-> requests])
<1>1. /\ worker.pc = "emailing" /\ worker' = [worker EXCEPT !.pc = "waiting", !.new = {}]
      /\ known' = known \ gone
      /\ handle' = [s \in Script |-> IF s \in gone THEN NoHandle ELSE handle[s]]
  BY DEF StartCopying
<1>2. gone = Gone /\ requests = MailRequests
  BY DEF Gone, MailRequests
<1>3. mail \in MailType /\ running \in BOOLEAN
  BY DEF Types, CopierTypes, MailType
<1>4. CASE Obsolete = {}
  <2>1. StartLan(Idle)
    BY <1>4 DEF StartCopying
  <2>2. ticket' = [s \in Script |-> IF s \in gone THEN NoTicket ELSE RefreshRequests(ticket[s])]
    BY <1>4 DEF StartCopying
  <2>3. IF CanMail(running, requests)
        THEN /\ mail' = IF live = {} THEN NoMail
                        ELSE [mail EXCEPT !.running = TRUE, !.requests = live, !.busy = TRUE]
             /\ mailJob' = [mailJob EXCEPT !.posted = {Job(h) : h \in live}]
        ELSE /\ mail' = [mail EXCEPT !.running = running, !.requests = requests]
             /\ UNCHANGED mailJob
    BY <1>4 DEF StartCopying
  <2> HIDE DEF gone, posted, requests, running, live
  <2>4. [mail EXCEPT !.running = running, !.requests = requests]
          = [mail EXCEPT !.running = running, !.requests = requests, !.busy = mail.busy]
    BY <1>3 DEF MailType
  <2>5. mail.busy \in BOOLEAN
    BY <1>3 DEF MailType
  <2>6. MailPosted(live)
    BY <1>2, <1>3, <2>3, <2>4, <2>5 DEF MailPosted
  <2> QED  BY <1>1, <1>2, <2>1, <2>2, <2>6 DEF live
<1>5. CASE Obsolete # {}
  <2>1. \E ts \in SUBSET (Idle \ Obsolete) : StartLan(ts)
    BY <1>5 DEF StartCopying
  <2>2. ticket' = [s \in Script |-> IF s \in gone THEN NoTicket ELSE ticket[s]]
    BY <1>5 DEF StartCopying
  <2>3. mail' = [mail EXCEPT !.running = running, !.requests = requests] /\ UNCHANGED mailJob
    BY <1>5 DEF StartCopying
  <2> HIDE DEF gone, posted, requests, running, live
  <2>4. [mail EXCEPT !.running = running, !.requests = requests]
          = [mail EXCEPT !.running = running, !.requests = requests, !.busy = mail.busy]
    BY <1>3 DEF MailType
  <2>5. mail.busy \in BOOLEAN
    BY <1>3 DEF MailType
  <2>6. MailPosted(live)
    BY <1>2, <1>3, <2>3, <2>4, <2>5 DEF MailPosted
  <2> QED  BY <1>1, <1>2, <2>1, <2>2, <2>6 DEF live
<1> QED  BY <1>4, <1>5

LEMMA StartLanOne ==
  ASSUME Types, NEW ts \in SUBSET Lan, StartLan(ts), NEW t \in Lan
  PROVE  \/ lan'[t] = lan[t] /\ lanJob'[t] = lanJob[t]
         \/ t \in ts /\ lan'[t] = RemovedFromList(lan[t]) /\ lanJob'[t] = lanJob[t]
            /\ lan[t].requests = {}
         \/ /\ t \in ts /\ lan'[t] = [lan[t] EXCEPT !.busy = TRUE]
            /\ \E h \in LiveRequests(lan[t]) : lanJob'[t] = Job(h)
<1>1. PICK job \in [ts -> (UNION {LiveRequests(lan[u]) : u \in ts}) \cup {NoHandle}] :
        /\ \A u \in ts : IF lan[u].requests = {} THEN job[u] = NoHandle
                          ELSE job[u] \in LiveRequests(lan[u])
        /\ lan' = [u \in Lan |-> IF u \notin ts THEN lan[u]
                                 ELSE IF job[u] = NoHandle THEN RemovedFromList(lan[u])
                                 ELSE [lan[u] EXCEPT !.busy = TRUE]]
        /\ lanJob' = [u \in Lan |-> IF u \in ts /\ job[u] # NoHandle THEN Job(job[u]) ELSE lanJob[u]]
  BY DEF StartLan
<1>2. CASE t \notin ts
  BY <1>1, <1>2
<1>3. CASE t \in ts /\ job[t] = NoHandle
  <2>1. lan[t].requests \subseteq Handle /\ NoHandle \notin Handle
    BY Constants DEF Types, CopierTypes, Copier
  <2>2. lan[t].requests = {}
    BY <1>1, <1>3, <2>1, LiveOf
  <2> QED  BY <1>1, <1>3, <2>2
<1>4. CASE t \in ts /\ job[t] # NoHandle
  BY <1>1, <1>4
<1> QED  BY <1>2, <1>3, <1>4

LEMMA TypesCopying ==
  ASSUME Types, StartCopying
  PROVE  Types'
<1>1. PICK ts \in SUBSET Idle : StartLan(ts)
  BY Copying
<1>2. ts \subseteq Lan
  BY DEF Idle
<1>3. ASSUME NEW t \in Lan
      PROVE  lan'[t] \in Copier /\ lanJob'[t] \in JobType
  <2>1. lan[t] \in Copier /\ lanJob[t] \in JobType
    BY DEF Types, CopierTypes
  <2>2. [lan[t] EXCEPT !.busy = TRUE] \in Copier /\ RemovedFromList(lan[t]) \in Copier
    BY <2>1 DEF Copier, RemovedFromList, NoCopier
  <2>3. \A h \in LiveRequests(lan[t]) : Job(h) \in JobType
    BY <2>1, LiveOf, JobOf DEF Copier
  <2> QED  BY <1>1, <1>2, <2>1, <2>2, <2>3, StartLanOne
<1>4. lan' \in [Lan -> Copier] /\ lanJob' \in [Lan -> JobType]
  <2>1. lan' = [t \in Lan |-> lan'[t]] /\ lanJob' = [t \in Lan |-> lanJob'[t]]
    BY <1>1 DEF StartLan
  <2> QED  BY <1>3, <2>1
<1> DEFINE live == LiveRequests([requests |-> MailRequests])
           jobs == {Job(h) : h \in live}
<1>5. ASSUME NEW s \in ToMail PROVE s \in Script /\ handle[s] \in Handle
  BY Constants DEF ToMail, Types, ThreadTypes, WorkerType, TicketTypes
<1>6. MailRequests \subseteq Handle
  BY <1>5 DEF MailRequests, Types, CopierTypes
<1>7. live \subseteq Handle /\ \A h \in live : \E s \in Script : handle'[s] = h
  BY <1>6 DEF LiveRequests
<1>8. jobs \subseteq JobType /\ \A j \in jobs : j.handle # NoHandle
  BY <1>7, JobOf
<1>9. MailPosted(live)
  BY Copying
<1>10. mail \in MailType /\ mailJob \in [posted : SUBSET JobType, mailing : SUBSET JobType, threw : BOOLEAN]
       /\ \A j \in mailJob.posted \cup mailJob.mailing : j.handle # NoHandle
  BY DEF Types, CopierTypes, MailType
<1>11. mail' \in MailType
  <2> HIDE DEF live
  <2>1. \/ mail' = NoMail
        \/ \E b \in BOOLEAN, q \in {live, MailRequests} : \E r \in BOOLEAN :
              mail' = [mail EXCEPT !.running = r, !.requests = q, !.busy = b]
    BY <1>9 DEF MailPosted
  <2>2. live \subseteq Handle
    BY <1>7
  <2>3. CASE mail' = NoMail
    BY <2>3 DEF MailType, NoMail
  <2>4. ASSUME NEW b \in BOOLEAN, NEW q \in SUBSET Handle, NEW r \in BOOLEAN,
               mail' = [mail EXCEPT !.running = r, !.requests = q, !.busy = b]
        PROVE  mail' \in MailType
    BY <1>10, <2>4 DEF MailType
  <2> QED  BY <1>6, <2>1, <2>2, <2>3, <2>4
<1>12. mailJob' \in {mailJob, [mailJob EXCEPT !.posted = jobs]}
  BY <1>9 DEF MailPosted
<1> HIDE DEF live, jobs
<1>13. mailJob' \in [posted : SUBSET JobType, mailing : SUBSET JobType, threw : BOOLEAN]
       /\ \A j \in mailJob'.posted \cup mailJob'.mailing : j.handle # NoHandle
  BY <1>8, <1>10, <1>12
<1>14. CopierTypes'
  BY <1>4, <1>11, <1>13 DEF CopierTypes, MailType
<1>15. worker' \in WorkerType
  BY Copying DEF Types, ThreadTypes, WorkerType
<1>16. FileTypes' /\ ThreadTypes'
  BY <1>15, Copying DEF StartCopying, Types, FileTypes, ThreadTypes
<1>17. NoHandle \in 0 .. MaxHandle /\ NoTicket \in TicketType
       /\ \A s \in Script : ticket[s] \in TicketType /\ RefreshRequests(ticket[s]) \in TicketType
  BY Constants, RefreshedTicket DEF Types, TicketTypes
<1>18. handle' \in [Script -> 0 .. MaxHandle] /\ ticket' \in [Script -> TicketType]
  BY <1>17, Copying DEF Types, TicketTypes
<1>19. TicketTypes' /\ HandlesSuffice'
  BY <1>18 DEF StartCopying, Types, TicketTypes, HandlesSuffice
<1> QED  BY <1>14, <1>16, <1>19 DEF Types

LEMMA TypeStep == Types /\ [Next]_vars => Types'
<1> SUFFICES ASSUME Types, [Next]_vars PROVE Types'
  OBVIOUS
<1>1. CASE UNCHANGED vars
  <2>1. UNCHANGED <<shared, main, channel, worker, tickets, copiers, copies, budget>>
    BY <1>1 DEF vars
  <2>2. FileTypes' /\ ThreadTypes'
    BY <2>1 DEF Types, FileTypes, ThreadTypes, shared
  <2>3. TicketTypes' /\ HandlesSuffice' /\ CopierTypes'
    BY <2>1 DEF Types, TicketTypes, HandlesSuffice, CopierTypes, tickets, copiers, shared
  <2> QED  BY <2>2, <2>3 DEF Types
<1>2. CASE WorkQueue
  BY <1>2, TypesWaiting, TypesOnLan, TypesOnMail, TypesClear, TypesForward, TypesCopying DEF WorkQueue
<1>3. CASE MainThread \/ Vanish
  BY <1>3, TypesMain
<1>4. CASE MailCopier \/ MailBlacklisted
  BY <1>4, TypesMail DEF MailCopier
<1>5. CASE \E t \in Lan : LanCopy(t)
  BY <1>5, TypesLanCopy
<1>6. CASE MailThrows \/ \E t \in Lan : LanThrows(t)
  BY <1>6, TypesThrows
<1> QED  BY <1>1, <1>2, <1>3, <1>4, <1>5, <1>6 DEF Next

LEMMA Typed == Spec => []Types
BY TypeInit, TypeStep, PTL DEF Spec

(* The records of the main thread, the work queue and the copiers keep their *)
(* types, and handles do not run out (TypeOK).                               *)
THEOREM TypeCorrect == Spec => []TypeOK
<1>1. Types => TypeOK
  BY DEF Types, FileTypes, ThreadTypes, TicketTypes, CopierTypes, ChannelType, WorkerType,
         TicketType, Request, TypeOK
<1> QED  BY <1>1, Typed, PTL

-----------------------------------------------------------------------------
(* The inductive invariant.  A handle that a copier, a job or an answer names *)
(* was asked for, and what is said of a handle stays true: it is never given  *)
(* to another script, and what a script was asked or sent is not forgotten.   *)

Answers(q, h, t) == \E i \in DOMAIN q : q[i].handle = h /\ q[i].to = t
Oks(q, h, t) == \E i \in DOMAIN q : q[i].handle = h /\ q[i].to = t /\ q[i].ok

LanNamed(h, t) ==
  \/ h \in lan[t].requests \/ lanJob[t].handle = h
  \/ Answers(channel.lan, h, t) \/ Answers(worker.lan, h, t)
MailNamed(h) ==
  \/ h \in mail.requests
  \/ \E j \in mailJob.posted \cup mailJob.mailing : j.handle = h
  \/ \E m \in channel.mail \cup worker.mail : h \in m.batch

JobFor(h, s) ==
  \/ \E t \in Lan : lanJob[t].handle = h /\ lanJob[t].script = s
  \/ \E j \in mailJob.posted \cup mailJob.mailing : j.handle = h /\ j.script = s

LanSent(h, t) == Oks(channel.lan, h, t) \/ Oks(worker.lan, h, t)
MailSent(h) == \E m \in channel.mail \cup worker.mail : h \in m.ok

Asks(h, t) == h <= lastHandle /\ \A s \in Script : handle[s] = h => ticket[s].req[t] # "none"
Carries(h, s) == h <= lastHandle /\ \A x \in Script : handle[x] = h => x = s
Sent(h, t) == h <= lastHandle /\ \A s \in Script : handle[s] = h => copies[s][t] > 0

LanTrue(h, t) == (LanNamed(h, t) => Asks(h, t)) /\ (LanSent(h, t) => Sent(h, t))
MailTrue(h) == (MailNamed(h) => Asks(h, Email)) /\ (MailSent(h) => Sent(h, Email))
JobTrue(h, s) == JobFor(h, s) => Carries(h, s)

\* No two scripts have one handle.
Numbered ==
  /\ \A s \in Script : handle[s] <= lastHandle
  /\ \A s, x \in Script : handle[s] = handle[x] /\ handle[s] # NoHandle => s = x

Pending(k, t) == k.req[t] \in {"untried", "tried"}

\* A script in progress has requests pending, where it was not delivered.
InProgress(s) ==
  /\ handle[s] = NoHandle => \A t \in Transport : ticket[s].req[t] = "none"
  /\ handle[s] # NoHandle =>
    /\ \E t \in Transport : Pending(ticket[s], t)
    /\ \A t \in Transport : Pending(ticket[s], t) => t \in Route[s] \ stamped[s]

\* What is marked was copied, and what is not asked for need not be any more.
Marked(s) ==
  /\ \A t \in Transport : ticket[s].req[t] = "delivered" \/ t \in stamped[s] => copies[s][t] > 0
  /\ handle[s] # NoHandle => \A t \in Route[s] : ticket[s].req[t] = "none" => copies[s][t] > 0

\* A script that is finished and delivered was copied wherever it has to go.
Told ==
  \A f \in finished : f.delivered => \A t \in Route[f.script] : copies[f.script][t] > 0

Listed ==
  Alive => /\ KnownAgrees
           /\ \A s \in toDo : ~(Route[s] \subseteq stamped[s])

IInv ==
  /\ Numbered /\ Listed /\ Told
  /\ \A s \in Script : InProgress(s) /\ Marked(s)
  /\ \A h \in Handle : /\ MailTrue(h)
                       /\ \A t \in Lan : LanTrue(h, t)
                       /\ \A s \in Script : JobTrue(h, s)

LEMMA InvInit == Init => IInv
<1> SUFFICES ASSUME Init PROVE IInv
  OBVIOUS
<1>1. Numbered /\ Listed /\ Told
  BY Constants DEF Init, Numbered, Listed, KnownAgrees, Told
<1>2. ASSUME NEW s \in Script PROVE InProgress(s) /\ Marked(s)
  <2>1. \A t \in Transport : NoTicket.req[t] = "none"
    BY Constants
  <2> QED  BY <2>1 DEF Init, InProgress, Marked
<1>3. ASSUME NEW h \in Handle
      PROVE  MailTrue(h) /\ (\A t \in Lan : LanTrue(h, t)) /\ \A s \in Script : JobTrue(h, s)
  <2>1. h # NoHandle /\ NoJob.handle = NoHandle /\ NoCopier.requests = {}
    BY Constants
  <2>2. MailTrue(h)
    BY <2>1 DEF Init, MailTrue, MailNamed, MailSent, NoMail, NoMailJob
  <2>3. \A t \in Lan : LanTrue(h, t)
    BY <2>1 DEF Init, LanTrue, LanNamed, LanSent, Answers, Oks
  <2>4. \A s \in Script : JobTrue(h, s)
    BY <2>1 DEF Init, JobTrue, JobFor, NoMailJob
  <2> QED  BY <2>2, <2>3, <2>4
<1> QED  BY <1>1, <1>2, <1>3 DEF IInv

-----------------------------------------------------------------------------
(* Steps never take back what was said of a handle *)

Evolves ==
  /\ lastHandle <= lastHandle'
  /\ \A s \in Script :
       \/ handle'[s] = NoHandle \/ handle'[s] > lastHandle
       \/ handle'[s] = handle[s]
          /\ \A t \in Transport : ticket[s].req[t] # "none" => ticket'[s].req[t] # "none"
  /\ \A s \in Script, t \in Transport : copies[s][t] > 0 => copies'[s][t] > 0

LEMMA StillTrue ==
  ASSUME Types, Types', Evolves, NEW h \in Handle
  PROVE  /\ \A t \in Transport : Asks(h, t) => Asks(h, t)'
         /\ \A t \in Transport : Sent(h, t) => Sent(h, t)'
         /\ \A s \in Script : Carries(h, s) => Carries(h, s)'
<1>1. h \in Nat /\ h # NoHandle /\ lastHandle \in Nat /\ lastHandle' \in Nat
      /\ \A s \in Script : handle[s] \in Nat /\ handle'[s] \in Nat
  BY Constants DEF Types, TicketTypes
<1>2. ASSUME h <= lastHandle
      PROVE  h <= lastHandle'
             /\ \A s \in Script : handle'[s] = h => handle[s] = h
                  /\ \A t \in Transport : ticket[s].req[t] # "none" => ticket'[s].req[t] # "none"
  BY <1>1, <1>2 DEF Evolves
<1>3. ASSUME NEW t \in Transport, Asks(h, t) PROVE Asks(h, t)'
  BY <1>2, <1>3 DEF Asks
<1>4. ASSUME NEW t \in Transport, Sent(h, t) PROVE Sent(h, t)'
  BY <1>2, <1>4 DEF Sent, Evolves
<1>5. ASSUME NEW s \in Script, Carries(h, s) PROVE Carries(h, s)'
  BY <1>2, <1>5 DEF Carries
<1> QED  BY <1>3, <1>4, <1>5

LEMMA EvolvesSame ==
  ASSUME Types, UNCHANGED <<tickets, copies>>
  PROVE  Evolves
<1>1. lastHandle \in Nat
  BY DEF Types, TicketTypes
<1> QED  BY <1>1 DEF Evolves, tickets

LEMMA EvolvesNone ==
  ASSUME Types, UNCHANGED <<lastHandle, copies>>, \A s \in Script : handle'[s] = NoHandle
  PROVE  Evolves
<1>1. lastHandle \in Nat
  BY DEF Types, TicketTypes
<1> QED  BY <1>1 DEF Evolves

LEMMA EvolvesSettle ==
  ASSUME Types, NEW new, NEW P, NEW F, SettleTickets(new, P, F), UNCHANGED copies,
         \A s \in Script, t \in Transport : ticket[s].req[t] # "none" => new[s].req[t] # "none"
  PROVE  Evolves
<1>1. lastHandle \in Nat
  BY DEF Types, TicketTypes
<1> QED  BY <1>1 DEF Evolves, SettleTickets

LEMMA AnswersOf ==
  ASSUME NEW q \in Seq(LanAnswer), NEW m \in LanAnswer, NEW h, NEW t
  PROVE  /\ Answers(Append(q, m), h, t) <=> Answers(q, h, t) \/ (m.handle = h /\ m.to = t)
         /\ Oks(Append(q, m), h, t) <=> Oks(q, h, t) \/ (m.handle = h /\ m.to = t /\ m.ok)
<1>1. Len(Append(q, m)) = Len(q) + 1 /\ Append(q, m)[Len(q) + 1] = m
  OBVIOUS
<1>2. \A i \in 1 .. Len(q) : Append(q, m)[i] = q[i]
  OBVIOUS
<1>3. DOMAIN q = 1 .. Len(q) /\ DOMAIN Append(q, m) = 1 .. Len(q) + 1 /\ Len(q) \in Nat
  OBVIOUS
<1> QED  BY <1>1, <1>2, <1>3 DEF Answers, Oks

LEMMA AnswersRest ==
  ASSUME NEW q \in Seq(LanAnswer), q # <<>>
  PROVE  /\ \A h, t : Answers(Tail(q), h, t) => Answers(q, h, t)
         /\ \A h, t : Oks(Tail(q), h, t) => Oks(q, h, t)
         /\ Head(q) \in LanAnswer /\ Answers(q, Head(q).handle, Head(q).to)
         /\ Head(q).ok => Oks(q, Head(q).handle, Head(q).to)
<1>1. /\ Head(q) \in LanAnswer /\ Head(q) = q[1]
      /\ Len(q) \in Nat \ {0} /\ DOMAIN q = 1 .. Len(q) /\ DOMAIN Tail(q) = 1 .. Len(q) - 1
      /\ \A i \in 1 .. Len(q) - 1 : Tail(q)[i] = q[i + 1]
  OBVIOUS
<1>2. \A i \in DOMAIN Tail(q) : i + 1 \in DOMAIN q /\ Tail(q)[i] = q[i + 1]
  BY <1>1
<1>3. 1 \in DOMAIN q
  BY <1>1
<1> QED  BY <1>1, <1>2, <1>3 DEF Answers, Oks

-----------------------------------------------------------------------------
(* Names move from copiers to jobs and from jobs to answers *)

NamesFrom ==
  \A h \in Handle :
    /\ MailNamed(h)' => MailNamed(h) \/ Asks(h, Email)'
    /\ MailSent(h)' => MailSent(h) \/ Sent(h, Email)'
    /\ \A t \in Lan : /\ LanNamed(h, t)' => LanNamed(h, t) \/ Asks(h, t)'
                      /\ LanSent(h, t)' => LanSent(h, t) \/ Sent(h, t)'
    /\ \A s \in Script : JobFor(h, s)' => JobFor(h, s) \/ Carries(h, s)'

NamesTrue ==
  \A h \in Handle : /\ MailTrue(h)
                    /\ \A t \in Lan : LanTrue(h, t)
                    /\ \A s \in Script : JobTrue(h, s)

ScriptsTrue == Numbered /\ Told /\ \A s \in Script : InProgress(s) /\ Marked(s)

LEMMA NamesKept ==
  ASSUME Types, Types', IInv, Evolves, NamesFrom
  PROVE  NamesTrue'
<1> SUFFICES ASSUME NEW h \in Handle
             PROVE  MailTrue(h)' /\ (\A t \in Lan : LanTrue(h, t)') /\ \A s \in Script : JobTrue(h, s)'
  BY DEF NamesTrue
<1>1. MailTrue(h) /\ (\A t \in Lan : LanTrue(h, t)) /\ \A s \in Script : JobTrue(h, s)
  BY DEF IInv
<1>2. Email \in Transport /\ Lan \subseteq Transport
  BY Constants
<1>3. MailTrue(h)'
  BY <1>1, <1>2, StillTrue DEF NamesFrom, MailTrue
<1>4. ASSUME NEW t \in Lan PROVE LanTrue(h, t)'
  BY <1>1, <1>2, StillTrue DEF NamesFrom, LanTrue
<1>5. ASSUME NEW s \in Script PROVE JobTrue(h, s)'
  BY <1>1, StillTrue DEF NamesFrom, JobTrue
<1> QED  BY <1>3, <1>4, <1>5

LEMMA ScriptsSame ==
  ASSUME IInv, UNCHANGED <<tickets, copies, stamped>>, finished' \subseteq finished
  PROVE  ScriptsTrue'
<1>1. Numbered' /\ Told'
  BY DEF IInv, Numbered, Told, tickets
<1>2. ASSUME NEW s \in Script PROVE InProgress(s)' /\ Marked(s)'
  BY DEF IInv, InProgress, Marked, Pending, tickets
<1> QED  BY <1>1, <1>2 DEF ScriptsTrue

LEMMA ScriptsNone ==
  ASSUME Types, IInv, UNCHANGED <<lastHandle, copies, stamped>>, finished' \subseteq finished,
         \A s \in Script : handle'[s] = NoHandle /\ ticket'[s] = NoTicket
  PROVE  ScriptsTrue'
<1>1. Numbered' /\ Told'
  BY Constants DEF IInv, Numbered, Told, Types, TicketTypes
<1>2. ASSUME NEW s \in Script PROVE InProgress(s)' /\ Marked(s)'
  <2>1. Marked(s)
    BY DEF IInv
  <2>2. \A t \in Transport : NoTicket.req[t] = "none"
    BY Constants
  <2> QED  BY <2>1, <2>2 DEF InProgress, Marked
<1> QED  BY <1>1, <1>2 DEF ScriptsTrue

LEMMA ListedSame ==
  ASSUME Listed, UNCHANGED <<known, toDo, stamped, handle>>, inbox' \subseteq inbox, Alive' => Alive
  PROVE  Listed'
BY DEF Listed, KnownAgrees

LEMMA InvMain ==
  ASSUME Types, Types', IInv, ProcessInbox \/ OnFinishScripts \/ ClearState \/ StateCleared \/ Vanish
  PROVE  IInv'
<1>1. UNCHANGED <<tickets, copiers, copies, stamped, worker, channel.lan, channel.mail>>
  <2>1. channel \in ChannelType
    BY DEF Types, ThreadTypes
  <2> QED  BY <2>1 DEF ProcessInbox, OnFinishScripts, ClearState, StateCleared, Vanish, ChannelType
<1>2. NamesFrom
  BY <1>1 DEF NamesFrom, MailNamed, MailSent, LanNamed, LanSent, JobFor, copiers
<1>7. finished' \subseteq finished
  BY DEF ProcessInbox, OnFinishScripts, ClearState, StateCleared, Vanish
<1>3. NamesTrue' /\ ScriptsTrue'
  BY <1>1, <1>2, <1>7, EvolvesSame, NamesKept, ScriptsSame
<1>4. CASE ProcessInbox
  <2> DEFINE new == inbox \ (known \cup quarantine)
             done == {s \in new : Route[s] \subseteq stamped[s]}
  <2>1. Alive /\ known' = known \cup (new \ done) /\ toDo' = toDo \cup (new \ done)
        /\ inbox' = inbox \ done /\ UNCHANGED <<handle, stamped>>
    BY <1>4 DEF ProcessInbox, tickets
  <2>2. KnownAgrees /\ \A s \in toDo : ~(Route[s] \subseteq stamped[s])
    BY <2>1 DEF IInv, Listed
  <2>3. /\ known \subseteq toDo \cup {s \in Script : handle[s] # NoHandle}
        /\ (toDo \cup {s \in Script : handle[s] # NoHandle}) \cap inbox \subseteq known
        /\ \A s \in toDo : handle[s] = NoHandle
    BY <2>1, <2>2 DEF KnownAgrees
  <2>4. new \subseteq Script
    BY DEF Types, FileTypes
  <2>5. Listed'
    BY <2>1, <2>2, <2>3, <2>4 DEF Listed, KnownAgrees
  <2> QED  BY <1>3, <2>5 DEF IInv, NamesTrue, ScriptsTrue
<1>5. CASE OnFinishScripts
  <2> DEFINE marked == {s \in {f.script : f \in finished} : Route[s] \subseteq stamped[s]}
             unmarked == {f.script : f \in {g \in finished : g.delivered}} \ marked
  <2>1. PICK deleted \in SUBSET unmarked :
          /\ inbox' = inbox \ (marked \cup deleted)
          /\ \E forgotten \in SUBSET deleted : known' = known \ (marked \cup forgotten)
    BY <1>5 DEF OnFinishScripts
  <2>2. UNCHANGED <<handle, stamped, toDo, worker>>
    BY <1>5 DEF OnFinishScripts, tickets
  <2> HIDE DEF marked, unmarked
  <2>3. inbox' \subseteq inbox /\ known' \subseteq known /\ (known \ known') \cap inbox' = {}
    BY <2>1
  <2>4. Listed'
    BY <2>2, <2>3 DEF IInv, Listed, KnownAgrees, Alive
  <2> QED  BY <1>3, <2>4 DEF IInv, NamesTrue, ScriptsTrue
<1>6. CASE ClearState \/ StateCleared \/ Vanish
  <2>1. Listed'
    BY <1>6, <1>1, ListedSame DEF IInv, ClearState, StateCleared, Vanish, Alive, tickets
  <2> QED  BY <1>3, <2>1 DEF IInv, NamesTrue, ScriptsTrue
<1> QED  BY <1>4, <1>5, <1>6

LEMMA InvKeepAlive ==
  ASSUME Types, Types', IInv, KeepAlive
  PROVE  IInv'
<1>1. /\ UNCHANGED <<copiers, copies, lastHandle, stamped>> /\ known' = {} /\ toDo' = {} /\ finished' = {}
      /\ channel'.lan = <<>> /\ channel'.mail = {} /\ worker'.lan = <<>> /\ worker'.mail = {}
      /\ \A s \in Script : handle'[s] = NoHandle /\ ticket'[s] = NoTicket
  BY DEF KeepAlive
<1>2. NamesFrom
  BY <1>1 DEF NamesFrom, MailNamed, MailSent, LanNamed, LanSent, JobFor, copiers, Answers, Oks
<1>3. NamesTrue'
  BY <1>1, <1>2, EvolvesNone, NamesKept
<1>4. ScriptsTrue'
  BY <1>1, ScriptsNone
<1>5. Listed'
  BY <1>1 DEF Listed, KnownAgrees
<1> QED  BY <1>3, <1>4, <1>5 DEF IInv, NamesTrue, ScriptsTrue

LEMMA InvWaiting ==
  ASSUME Types, Types', IInv, Wake \/ Receive \/ GoWaiting
  PROVE  IInv'
<1>1. UNCHANGED <<shared, main, tickets, copiers, copies, budget>> /\ Alive
  <2>1. worker.pc \in {"waiting", "receiving", "handling"}
    BY DEF Wake, Receive, GoWaiting, Handled
  <2> QED  BY <2>1 DEF Wake, Receive, GoWaiting, Alive
<1>2. /\ \A q \in {channel'.lan, worker'.lan} : q \in {channel.lan, worker.lan, <<>>}
      /\ channel'.mail \cup worker'.mail \subseteq channel.mail \cup worker.mail
  <2>1. channel \in ChannelType /\ worker \in WorkerType
    BY DEF Types, ThreadTypes
  <2>2. CASE Wake
    BY <2>1, <2>2 DEF Wake, ChannelType, WorkerType
  <2>3. CASE Receive
    BY <2>1, <2>3 DEF Receive, ChannelType, WorkerType
  <2>4. CASE GoWaiting
    BY <2>1, <2>4 DEF GoWaiting, ChannelType, WorkerType
  <2> QED  BY <2>2, <2>3, <2>4
<1>3. NamesFrom
  BY <1>1, <1>2 DEF NamesFrom, MailNamed, MailSent, LanNamed, LanSent, JobFor, copiers, Answers, Oks
<1>4. NamesTrue' /\ ScriptsTrue'
  BY <1>1, <1>3, EvolvesSame, NamesKept, ScriptsSame DEF shared
<1>5. Listed'
  BY <1>1, ListedSame DEF IInv, shared, tickets
<1> QED  BY <1>4, <1>5 DEF IInv, NamesTrue, ScriptsTrue

LEMMA InvLanCopy ==
  ASSUME Types, Types', IInv, NEW t \in Lan, LanCopy(t)
  PROVE  IInv'
<1> DEFINE job == lanJob[t]
<1>1. PICK ok \in BOOLEAN :
        /\ copies' = IF ok THEN Copied(job.script, t) ELSE copies
        /\ channel' = [channel EXCEPT !.event = TRUE,
              !.lan = Append(@, [to |-> t, handle |-> job.handle, ok |-> ok])]
  BY DEF LanCopy
<1>2. /\ lanJob' = [lanJob EXCEPT ![t] = NoJob] /\ job.handle # NoHandle
      /\ UNCHANGED <<shared, main, worker, tickets, lan, mail, mailJob>>
  BY DEF LanCopy
<1>3. job.script \in Script /\ job.handle \in Handle /\ t \in Transport /\ NoJob.handle = NoHandle
  BY <1>2, Constants DEF Types, CopierTypes, JobType
<1> DEFINE m == [to |-> t, handle |-> job.handle, ok |-> ok]
<1>4. m \in LanAnswer /\ m.handle = job.handle /\ m.to = t /\ m.ok = ok
  BY <1>3 DEF LanAnswer
<1>5. channel.lan \in Seq(LanAnswer) /\ channel'.lan = Append(channel.lan, m) /\ channel'.mail = channel.mail
  BY <1>1 DEF Types, ThreadTypes, ChannelType
<1>6. \A s \in Script, u \in Transport : copies[s][u] > 0 => copies'[s][u] > 0
  BY <1>1, <1>3, CopiedType DEF Types
<1>7. Evolves
  <2>1. lastHandle \in Nat
    BY DEF Types, TicketTypes
  <2> QED  BY <1>2, <1>6, <2>1 DEF Evolves, tickets
<1>8. ok => copies'[job.script][t] > 0
  BY <1>1, <1>3, CopiedType DEF Types
<1>9. LanNamed(job.handle, t) /\ JobFor(job.handle, job.script)
  BY DEF LanNamed, JobFor
<1>10. Asks(job.handle, t) /\ Carries(job.handle, job.script)
  BY <1>3, <1>9 DEF IInv, LanTrue, JobTrue
<1>11. ASSUME NEW h \in Handle, h = job.handle, ok PROVE Sent(h, t)'
  BY <1>2, <1>8, <1>10, <1>11 DEF Sent, Carries, tickets
<1> HIDE DEF job, m
<1>12. NamesFrom
  <2> SUFFICES ASSUME NEW h \in Handle
               PROVE  /\ MailNamed(h)' => MailNamed(h)
                      /\ MailSent(h)' => MailSent(h)
                      /\ \A u \in Lan : /\ LanNamed(h, u)' => LanNamed(h, u)
                                        /\ LanSent(h, u)' => LanSent(h, u) \/ Sent(h, u)'
                      /\ \A s \in Script : JobFor(h, s)' => JobFor(h, s)
    BY DEF NamesFrom
  <2>1. (MailNamed(h)' => MailNamed(h)) /\ (MailSent(h)' => MailSent(h))
    BY <1>2, <1>5 DEF MailNamed, MailSent
  <2>2. \A u : /\ Answers(channel'.lan, h, u) <=> Answers(channel.lan, h, u) \/ (job.handle = h /\ u = t)
               /\ Oks(channel'.lan, h, u) <=> Oks(channel.lan, h, u) \/ (job.handle = h /\ u = t /\ ok)
    BY <1>4, <1>5, AnswersOf
  <2>3. h # NoHandle
    BY Constants
  <2>4. \A u \in Lan : lanJob'[u] = IF u = t THEN NoJob ELSE lanJob[u]
    BY <1>2 DEF Types, CopierTypes
  <2>5. ASSUME NEW u \in Lan PROVE LanNamed(h, u)' => LanNamed(h, u)
    BY <1>2, <1>3, <1>9, <2>2, <2>3, <2>4 DEF LanNamed
  <2>6. ASSUME NEW u \in Lan PROVE LanSent(h, u)' => LanSent(h, u) \/ Sent(h, u)'
    BY <1>2, <1>11, <2>2 DEF LanSent
  <2>7. ASSUME NEW s \in Script PROVE JobFor(h, s)' => JobFor(h, s)
    BY <1>2, <1>3, <2>3, <2>4 DEF JobFor
  <2> QED  BY <2>1, <2>5, <2>6, <2>7
<1>13. NamesTrue'
  BY <1>7, <1>12, NamesKept
<1>14. ScriptsTrue'
  <2>1. Numbered' /\ Told'
    BY <1>2, <1>6, Constants DEF IInv, Numbered, Told, Types, FileTypes, tickets, shared
  <2>2. ASSUME NEW s \in Script PROVE InProgress(s)' /\ Marked(s)'
    BY <1>2, <1>6, Constants DEF IInv, InProgress, Marked, Pending, tickets, shared
  <2> QED  BY <2>1, <2>2 DEF ScriptsTrue
<1>15. Listed'
  BY <1>2, ListedSame DEF IInv, shared, tickets, Alive
<1> QED  BY <1>13, <1>14, <1>15 DEF IInv, NamesTrue, ScriptsTrue

LEMMA InvMailThread ==
  ASSUME Types, Types', IInv, MailStart \/ MailBlacklisted
  PROVE  IInv'
<1>1. UNCHANGED <<shared, main, worker, tickets, lan, lanJob, mail, copies, channel.lan>>
  <2>1. channel \in ChannelType
    BY DEF Types, ThreadTypes
  <2>2. CASE MailStart
    BY <2>2 DEF MailStart
  <2>3. CASE MailBlacklisted
    BY <2>1, <2>3 DEF MailBlacklisted, PutMail, ChannelType, copiers
  <2> QED  BY <2>2, <2>3
<1>2. mailJob'.posted \cup mailJob'.mailing \subseteq mailJob.posted \cup mailJob.mailing
  BY DEF MailStart, NoMailJob, MailBlacklisted, copiers
<1>3. \A m \in channel'.mail : m \in channel.mail \/ (m.batch = {} /\ m.ok = {})
  <2>1. CASE MailStart
    BY <2>1 DEF MailStart
  <2>2. CASE MailBlacklisted
    <3>1. channel'.mail = {Nothing}
      BY <2>2 DEF MailBlacklisted, PutMail, Types, ThreadTypes, ChannelType
    <3> QED  BY <3>1 DEF Nothing
  <2> QED  BY <2>1, <2>2
<1>4. NamesFrom
  BY <1>1, <1>2, <1>3 DEF NamesFrom, MailNamed, MailSent, LanNamed, LanSent, JobFor
<1>5. NamesTrue' /\ ScriptsTrue'
  BY <1>1, <1>4, EvolvesSame, NamesKept, ScriptsSame DEF shared
<1>6. Listed'
  BY <1>1, ListedSame DEF IInv, shared, tickets, Alive
<1> QED  BY <1>5, <1>6 DEF IInv, NamesTrue, ScriptsTrue

LEMMA InvMailDone ==
  ASSUME Types, Types', IInv, MailDone
  PROVE  IInv'
<1> DEFINE jobs == mailJob.mailing
<1>1. PICK o \in Outcome(jobs) :
        /\ copies' = [s \in Script |-> IF s \in {j.script : j \in {i \in jobs : i.handle \in o.ok}}
                                       THEN Copied(s, Email)[s] ELSE copies[s]]
        /\ PutMail(o)
  BY DEF MailDone
<1>2. UNCHANGED <<shared, main, worker, tickets, lan, lanJob, mail>>
      /\ mailJob' = [mailJob EXCEPT !.mailing = {}]
  BY DEF MailDone
<1>3. jobs \in SUBSET JobType /\ (\A j \in jobs : j.handle # NoHandle) /\ Email \in Transport
  BY Constants DEF Types, CopierTypes
<1>4. o.ok \subseteq o.batch /\ o.batch = {j.handle : j \in jobs}
  BY <1>3, OutcomeType
<1>5. channel'.lan = channel.lan /\ channel'.mail = {o}
  BY <1>1 DEF PutMail, Types, ThreadTypes, ChannelType
<1>6. \A s \in Script : /\ Copied(s, Email)[s][Email] > 0
                        /\ \A t \in Transport : copies[s][t] > 0 => Copied(s, Email)[s][t] > 0
  BY <1>3, CopiedType DEF Types
<1>7. \A s \in Script, t \in Transport : copies[s][t] > 0 => copies'[s][t] > 0
  BY <1>1, <1>6
<1>8. Evolves
  <2>1. lastHandle \in Nat
    BY DEF Types, TicketTypes
  <2> QED  BY <1>2, <1>7, <2>1 DEF Evolves, tickets
<1>9. mailJob'.posted \cup mailJob'.mailing \subseteq mailJob.posted \cup mailJob.mailing
  BY <1>2 DEF Types, CopierTypes
<1>10. \A h \in o.batch : MailNamed(h)
  BY <1>4 DEF MailNamed
<1>11. ASSUME NEW h \in Handle, h \in o.ok PROVE Sent(h, Email)'
  <2>1. PICK j \in jobs : j.handle = h
    BY <1>4, <1>11
  <2>2. j.script \in Script /\ JobFor(h, j.script)
    BY <1>3, <2>1 DEF JobType, JobFor
  <2>3. Carries(h, j.script)
    BY <2>2 DEF IInv, JobTrue
  <2>4. j.script \in {i.script : i \in {x \in jobs : x.handle \in o.ok}}
    BY <1>11, <2>1
  <2>5. copies'[j.script][Email] > 0
    BY <1>1, <1>6, <2>2, <2>4
  <2> QED  BY <1>2, <2>3, <2>5 DEF Sent, Carries, tickets
<1>12. NamesFrom
  BY <1>2, <1>5, <1>9, <1>10, <1>11 DEF NamesFrom, MailNamed, MailSent, LanNamed, LanSent, JobFor
<1>13. NamesTrue'
  BY <1>8, <1>12, NamesKept
<1>14. ScriptsTrue'
  <2>1. Numbered' /\ Told'
    BY <1>2, <1>7, Constants DEF IInv, Numbered, Told, Types, FileTypes, tickets, shared
  <2>2. ASSUME NEW s \in Script PROVE InProgress(s)' /\ Marked(s)'
    BY <1>2, <1>7, Constants DEF IInv, InProgress, Marked, Pending, tickets, shared
  <2> QED  BY <2>1, <2>2 DEF ScriptsTrue
<1>15. Listed'
  BY <1>2, ListedSame DEF IInv, shared, tickets, Alive
<1> QED  BY <1>13, <1>14, <1>15 DEF IInv, NamesTrue, ScriptsTrue

LEMMA InvThrows ==
  ASSUME Types, Types', IInv, MailThrows \/ \E t \in Lan : LanThrows(t)
  PROVE  IInv'
<1>1. UNCHANGED <<shared, main, channel, worker, tickets, lan, mail>>
  BY DEF MailThrows, LanThrows
<1>2. mailJob'.posted \cup mailJob'.mailing \subseteq mailJob.posted \cup mailJob.mailing
  BY DEF MailThrows, LanThrows, Types, CopierTypes
<1>3. \A t \in Lan : lanJob'[t] = lanJob[t] \/ lanJob'[t].handle = NoHandle
  BY Constants DEF MailThrows, LanThrows, Types, CopierTypes
<1>4. \A s \in Script, t \in Transport : copies[s][t] > 0 => copies'[s][t] > 0
  <2>1. CASE MailThrows
    <3>1. Email \in Transport
      BY Constants
    <3>2. \A s \in Script, t \in Transport : copies[s][t] > 0 => Copied(s, Email)[s][t] > 0
      BY <3>1, CopiedType DEF Types
    <3>3. PICK sent : copies' = [s \in Script |->
                        IF s \in {j.script : j \in sent} THEN Copied(s, Email)[s] ELSE copies[s]]
      BY <2>1 DEF MailThrows
    <3> QED  BY <3>2, <3>3
  <2>2. CASE \E t \in Lan : LanThrows(t)
    BY <2>2 DEF LanThrows
  <2> QED  BY <2>1, <2>2
<1>5. Evolves
  <2>1. lastHandle \in Nat
    BY DEF Types, TicketTypes
  <2> QED  BY <1>1, <1>4, <2>1 DEF Evolves, tickets
<1>6. NamesFrom
  <2>1. \A h \in Handle : h # NoHandle
    BY Constants
  <2> QED  BY <1>1, <1>2, <1>3, <2>1 DEF NamesFrom, MailNamed, MailSent, LanNamed, LanSent, JobFor
<1>7. NamesTrue'
  BY <1>5, <1>6, NamesKept
<1>8. ScriptsTrue'
  <2>1. Numbered' /\ Told'
    BY <1>1, <1>4, Constants DEF IInv, Numbered, Told, Types, FileTypes, tickets, shared
  <2>2. ASSUME NEW s \in Script PROVE InProgress(s)' /\ Marked(s)'
    BY <1>1, <1>4, Constants DEF IInv, InProgress, Marked, Pending, tickets, shared
  <2> QED  BY <2>1, <2>2 DEF ScriptsTrue
<1>9. Listed'
  BY <1>1, ListedSame DEF IInv, shared, tickets, Alive
<1> QED  BY <1>7, <1>8, <1>9 DEF IInv, NamesTrue, ScriptsTrue

\* What is stamped when tickets make progress.
LEMMA Stamping ==
  ASSUME Types, NEW new, NEW P, Stamp(new, P), NEW s \in Script
  PROVE  /\ stamped[s] \subseteq stamped'[s] /\ stamped'[s] \subseteq stamped[s] \cup Delivered(new[s])
         /\ s \notin P => stamped'[s] = stamped[s]
         /\ s \in P /\ Unmarkable = {} => stamped'[s] = stamped[s] \cup Delivered(new[s])
<1>1. PICK lost \in [P -> SUBSET Unmarkable] :
        stamped' = [x \in Script |->
            IF x \in P THEN stamped[x] \cup (Delivered(new[x]) \ lost[x]) ELSE stamped[x]]
  BY DEF Stamp
<1> QED  BY <1>1

LEMMA InvSettle ==
  ASSUME Types, IInv, Alive, NEW new \in [Script -> TicketType],
         NEW P \in SUBSET Script, NEW F \in SUBSET Script,
         SettleTickets(new, P, F), UNCHANGED copies,
         \A s \in F : handle[s] # NoHandle,
         \A s \in Script : handle[s] = NoHandle => new[s] = ticket[s],
         \A s \in Script \ F : handle[s] # NoHandle => \E t \in Transport : Pending(new[s], t),
         \A s \in Script, t \in Transport : Pending(new[s], t) => Pending(ticket[s], t),
         \A s \in Script, t \in Transport : new[s].req[t] = "delivered" => copies[s][t] > 0,
         \A s \in Script, t \in Transport : ticket[s].req[t] # "none" => new[s].req[t] # "none"
  PROVE  ScriptsTrue' /\ Listed'
<1>1. \A s \in Script : /\ handle'[s] = IF s \in F THEN NoHandle ELSE handle[s]
                        /\ ticket'[s] = IF s \in F THEN NoTicket ELSE new[s]
                        /\ stamped'[s] \subseteq stamped[s] \cup Delivered(new[s])
  BY Stamping DEF SettleTickets
<1>2. known' = known \ F /\ toDo' = toDo /\ lastHandle' = lastHandle /\ inbox' = inbox
      /\ finished' = finished \cup Finished(new, F)
  BY DEF SettleTickets
<1>3. Numbered'
  BY <1>1, <1>2, Constants DEF IInv, Numbered, Types, TicketTypes
<1>4. ASSUME NEW s \in Script PROVE InProgress(s)' /\ Marked(s)'
  <2>1. InProgress(s) /\ Marked(s) /\ (\A t \in Transport : NoTicket.req[t] = "none")
    BY Constants DEF IInv
  <2>2. Marked(s)'
    <3>1. Route[s] \subseteq Transport
      BY Constants
    <3> QED  BY <1>1, <2>1, <3>1 DEF Marked, Delivered
  <2>3. InProgress(s)'
    BY <1>1, <2>1 DEF InProgress, Pending, Delivered
  <2> QED  BY <2>2, <2>3
<1>6. Told'
  <2> SUFFICES ASSUME NEW f \in finished', f.delivered, NEW t \in Route[f.script]
               PROVE  copies[f.script][t] > 0
    BY DEF Told
  <2>1. CASE f \in finished
    BY <2>1 DEF IInv, Told
  <2>2. CASE f \in Finished(new, F)
    <3>1. PICK s \in F : f = [script |-> s, error |-> new[s].error, delivered |-> ~AreRequestsPending(new[s])]
      BY <2>2 DEF Finished
    <3>2. f.script = s /\ ~AreRequestsPending(new[s]) /\ s \in Script /\ handle[s] # NoHandle
      BY <3>1
    <3>3. t \in Transport /\ t \in Route[s]
      BY <3>2, Constants
    <3>4. new[s].req[t] \in {"none", "delivered"}
      BY <3>2, <3>3 DEF AreRequestsPending, TicketType, Request
    <3>5. Marked(s)
      BY <3>2 DEF IInv
    <3> QED  BY <3>2, <3>3, <3>4, <3>5 DEF Marked
  <2> QED  BY <1>2, <2>1, <2>2
<1>5. Listed'
  <2>1. /\ known \subseteq toDo \cup {s \in Script : handle[s] # NoHandle}
        /\ (toDo \cup {s \in Script : handle[s] # NoHandle}) \cap inbox \subseteq known
        /\ (\A s \in toDo : handle[s] = NoHandle) /\ \A s \in toDo : ~(Route[s] \subseteq stamped[s])
    BY DEF IInv, Listed, KnownAgrees
  <2>2. toDo \subseteq Script
    BY DEF Types, FileTypes
  <2>3. ASSUME NEW s \in toDo PROVE ~(Route[s] \subseteq stamped'[s])
    <3>1. Delivered(new[s]) = {}
      BY <2>1, <2>2 DEF Delivered, IInv, InProgress
    <3> QED  BY <1>1, <2>1, <2>2, <3>1
  <2>4. /\ known' \subseteq toDo' \cup {s \in Script : handle'[s] # NoHandle}
        /\ (toDo' \cup {s \in Script : handle'[s] # NoHandle}) \cap inbox' \subseteq known'
        /\ \A s \in toDo' : handle'[s] = NoHandle
    BY <1>1, <1>2, <2>1, <2>2
  <2> QED  BY <1>2, <2>3, <2>4 DEF Listed, KnownAgrees
<1> QED  BY <1>3, <1>4, <1>5, <1>6 DEF ScriptsTrue

LEMMA JobCarries ==
  ASSUME Numbered', NEW h \in Handle, \E x \in Script : handle'[x] = h,
         NEW s \in Script, Job(h).script = s
  PROVE  Carries(h, s)'
<1>1. handle'[s] = h /\ h # NoHandle
  BY JobOf
<1> QED  BY <1>1 DEF Numbered, Carries

LEMMA NamesCopyNext ==
  ASSUME Types, Numbered', NEW t \in Lan, NEW c \in Copier, c.requests \subseteq lan[t].requests,
         worker.lan # <<>>, CopyNextScript(t, c), UNCHANGED channel
  PROVE  NamesFrom
<1>0. /\ worker.lan \in Seq(LanAnswer) /\ worker \in WorkerType
      /\ \A u \in Lan : lan[u].requests \subseteq Handle
  BY DEF Types, ThreadTypes, CopierTypes, WorkerType, Copier
<1> SUFFICES ASSUME NEW h \in Handle
             PROVE  /\ MailNamed(h)' => MailNamed(h)
                    /\ MailSent(h)' => MailSent(h)
                    /\ \A u \in Lan : /\ LanNamed(h, u)' => LanNamed(h, u)
                                      /\ LanSent(h, u)' => LanSent(h, u)
                    /\ \A s \in Script : JobFor(h, s)' => JobFor(h, s) \/ Carries(h, s)'
  BY DEF NamesFrom
<1>1. CASE /\ lan' = [lan EXCEPT ![t] = Removed(c)]
           /\ worker' = [worker EXCEPT !.lan = Tail(@)]
           /\ UNCHANGED <<lanJob, mail, mailJob>>
  <2>1. worker'.lan = Tail(worker.lan) /\ worker'.mail = worker.mail
        /\ \A u \in Lan : lan'[u].requests \subseteq lan[u].requests
    BY <1>0, <1>1, Constants DEF WorkerType, Removed, Types, CopierTypes
  <2>2. \A u : /\ Answers(worker'.lan, h, u) => Answers(worker.lan, h, u)
               /\ Oks(worker'.lan, h, u) => Oks(worker.lan, h, u)
    BY <1>0, <2>1, AnswersRest
  <2> QED  BY <1>1, <2>1, <2>2 DEF MailNamed, MailSent, LanNamed, LanSent, JobFor
<1>2. CASE /\ \E g \in LiveRequests(c) :
                 /\ lan' = [lan EXCEPT ![t] = [c EXCEPT !.busy = TRUE]]
                 /\ lanJob' = [lanJob EXCEPT ![t] = Job(g)]
           /\ worker' = [worker EXCEPT !.lan = Tail(@)]
           /\ UNCHANGED <<mail, mailJob>>
  <2>1. PICK g \in LiveRequests(c) :
                 /\ lan' = [lan EXCEPT ![t] = [c EXCEPT !.busy = TRUE]]
                 /\ lanJob' = [lanJob EXCEPT ![t] = Job(g)]
    BY <1>2
  <2>2. g \in Handle /\ (\E s \in Script : handle'[s] = g) /\ g \in lan[t].requests
    BY LiveOf DEF Copier
  <2>3. Job(g) \in JobType /\ Job(g).handle = g
    BY <2>2, JobOf
  <2>4. worker'.lan = Tail(worker.lan) /\ worker'.mail = worker.mail
        /\ \A u \in Lan : lan'[u].requests \subseteq lan[u].requests
    BY <1>0, <1>2, <2>1 DEF WorkerType, Copier, Types, CopierTypes
  <2>5. \A u : /\ Answers(worker'.lan, h, u) => Answers(worker.lan, h, u)
               /\ Oks(worker'.lan, h, u) => Oks(worker.lan, h, u)
    BY <1>0, <2>4, AnswersRest
  <2>6. \A u \in Lan : lanJob'[u] = IF u = t THEN Job(g) ELSE lanJob[u]
    BY <2>1 DEF Types, CopierTypes
  <2>7. ASSUME NEW u \in Lan
        PROVE  (LanNamed(h, u)' => LanNamed(h, u)) /\ (LanSent(h, u)' => LanSent(h, u))
    BY <2>2, <2>3, <2>4, <2>5, <2>6 DEF LanNamed, LanSent
  <2>8. ASSUME NEW s \in Script, JobFor(h, s)' PROVE JobFor(h, s) \/ Carries(h, s)'
    <3>1. CASE g = h /\ Job(g).script = s
      BY <2>2, <3>1, JobCarries
    <3>2. CASE ~(g = h /\ Job(g).script = s)
      BY <1>2, <2>3, <2>6, <2>8, <3>2 DEF JobFor
    <3> QED  BY <3>1, <3>2
  <2>9. (MailNamed(h)' => MailNamed(h)) /\ (MailSent(h)' => MailSent(h))
    BY <1>2, <2>4 DEF MailNamed, MailSent
  <2> QED  BY <2>7, <2>8, <2>9
<1>3. CASE Dies
  <2>1. /\ worker'.lan = worker.lan /\ worker'.mail = worker.mail
        /\ mail'.requests = {} /\ mailJob'.posted = {} /\ mailJob'.mailing = {}
        /\ \A u \in Lan : lan'[u].requests = {} /\ lanJob'[u].handle = NoHandle
    BY <1>0, <1>3, Constants DEF Dies, NoMail, WorkerType
  <2>2. h # NoHandle
    BY Constants
  <2> QED  BY <2>1, <2>2 DEF MailNamed, MailSent, LanNamed, LanSent, JobFor
<1> QED  BY <1>1, <1>2, <1>3 DEF CopyNextScript

\* What an answer about a copy does to the ticket of its script.
LanTicket(m) == MarkDone(ticket[ScriptOf(m.handle)], m.to, m.ok)
LanTickets(m) == [ticket EXCEPT ![ScriptOf(m.handle)] = LanTicket(m)]
LanFinished(m) == {x \in {ScriptOf(m.handle)} : m.ok /\ IsFinished(LanTicket(m))}

LanMarked(m) == {x \in {ScriptOf(m.handle)} : m.ok}

LEMMA LanTicketTrue ==
  ASSUME Types, IInv, NEW m \in LanAnswer, Live(m.handle),
         Answers(worker.lan, m.handle, m.to), m.ok => Oks(worker.lan, m.handle, m.to)
  PROVE  /\ LanTickets(m) \in [Script -> TicketType] /\ LanFinished(m) \in SUBSET Script
         /\ LanMarked(m) \in SUBSET Script
         /\ \A s \in LanFinished(m) : handle[s] # NoHandle
         /\ \A s \in Script : handle[s] = NoHandle => LanTickets(m)[s] = ticket[s]
         /\ \A s \in Script \ LanFinished(m) :
               handle[s] # NoHandle => \E t \in Transport : Pending(LanTickets(m)[s], t)
         /\ \A s \in Script, t \in Transport : Pending(LanTickets(m)[s], t) => Pending(ticket[s], t)
         /\ \A s \in Script, t \in Transport : LanTickets(m)[s].req[t] = "delivered" => copies[s][t] > 0
         /\ \A s \in Script, t \in Transport : ticket[s].req[t] # "none" => LanTickets(m)[s].req[t] # "none"
<1> DEFINE x == ScriptOf(m.handle)
           k == LanTicket(m)
<1>1. m.to \in Lan /\ m.to \in Transport /\ m.handle \in Handle /\ m.ok \in BOOLEAN
  BY Constants DEF LanAnswer
<1>2. x \in Script /\ handle[x] = m.handle /\ handle[x] # NoHandle
  BY <1>1, Constants DEF Live, ScriptOf
<1>3. /\ ticket[x] \in TicketType /\ k \in TicketType
      /\ \A t \in Transport : k.req[t] =
            IF t # m.to THEN ticket[x].req[t]
            ELSE IF m.ok \/ ticket[x].req[t] = "delivered" THEN "delivered" ELSE "tried"
  BY <1>1, <1>2, MarkDoneTicket DEF LanTicket, Types, TicketTypes
<1>4. ticket \in [Script -> TicketType] /\ LanTickets(m) = [ticket EXCEPT ![x] = k]
  BY DEF Types, TicketTypes, LanTickets
<1>5. LanFinished(m) = {s \in {x} : m.ok /\ IsFinished(k)}
  BY DEF LanFinished
<1>6. LanTrue(m.handle, m.to) /\ InProgress(x) /\ \A s \in Script : Marked(s) /\ InProgress(s)
  BY <1>1, <1>2 DEF IInv
<1>7. ticket[x].req[m.to] # "none"
  BY <1>2, <1>6 DEF LanTrue, LanNamed, Asks
<1>8. m.ok => copies[x][m.to] > 0
  BY <1>2, <1>6 DEF LanTrue, LanSent, Sent
<1>9. ticket[x].req \in [Transport -> Request]
  BY <1>3 DEF TicketType
<1>10. ~IsFinished(k) => \E t \in Transport : Pending(k, t)
  BY DEF IsFinished, AreRequestsPending, Pending
<1> HIDE DEF x, k
<1>11. \A t \in Transport : Pending(k, t) => Pending(ticket[x], t)
  BY <1>3, <1>7, <1>9, <1>1 DEF Pending, Request
<1>12. ~m.ok => \E t \in Transport : Pending(k, t)
  BY <1>2, <1>3, <1>6 DEF InProgress, Pending
<1>13. \A t \in Transport : k.req[t] = "delivered" => copies[x][t] > 0
  BY <1>2, <1>3, <1>6, <1>8 DEF Marked
<1>14. \A t \in Transport : ticket[x].req[t] # "none" => k.req[t] # "none"
  BY <1>3
<1>15. \A s \in Script : LanTickets(m)[s] = IF s = x THEN k ELSE ticket[s]
  BY <1>4, <1>2
<1>16. LanTickets(m) \in [Script -> TicketType]
  BY <1>2, <1>3, <1>4
<1>17. \A s \in Script \ LanFinished(m) :
         handle[s] # NoHandle => \E t \in Transport : Pending(LanTickets(m)[s], t)
  BY <1>5, <1>6, <1>10, <1>12, <1>15 DEF InProgress
<1>18. \A s \in Script, t \in Transport : LanTickets(m)[s].req[t] = "delivered" => copies[s][t] > 0
  BY <1>6, <1>13, <1>15 DEF Marked
<1>19. LanMarked(m) \in SUBSET Script
  BY <1>2 DEF LanMarked, x
<1> QED  BY <1>2, <1>5, <1>11, <1>14, <1>15, <1>16, <1>17, <1>18, <1>19

LEMMA InvOnLan ==
  ASSUME Types, Types', IInv, OnLanCopyDone
  PROVE  IInv'
<1> DEFINE m == Head(worker.lan)
           c == LanRequestDone(lan[m.to], m.handle, m.ok)
<1>1. /\ worker.lan \in Seq(LanAnswer) /\ worker.lan # <<>> /\ worker \in WorkerType
      /\ m \in LanAnswer /\ m.to \in Lan /\ m.handle \in Handle /\ m.ok \in BOOLEAN /\ Alive
  <2>1. worker \in WorkerType /\ worker.lan # <<>> /\ worker.pc = "handling"
    BY DEF OnLanCopyDone, Types, ThreadTypes
  <2>2. worker.lan \in Seq(LanAnswer) /\ Alive
    BY <2>1 DEF WorkerType, Alive
  <2>3. m \in LanAnswer
    BY <2>1, <2>2
  <2> HIDE DEF m
  <2> QED  BY <2>1, <2>2, <2>3 DEF LanAnswer
<1>2. Answers(worker.lan, m.handle, m.to) /\ (m.ok => Oks(worker.lan, m.handle, m.to))
  BY <1>1, AnswersRest
<1>3. c \in Copier /\ c.requests \subseteq lan[m.to].requests
  BY <1>1, LanRequestDoneType DEF Types, CopierTypes
<1>4. UNCHANGED <<main, channel, copies, budget>>
  BY DEF OnLanCopyDone
<1>5. ASSUME lan' = [lan EXCEPT ![m.to] = c], worker' = [worker EXCEPT !.lan = Tail(@)],
             UNCHANGED <<lanJob, mail, mailJob>>
      PROVE  NamesFrom
  <2> HIDE DEF m, c
  <2>1. worker'.lan = Tail(worker.lan) /\ worker'.mail = worker.mail
        /\ \A u \in Lan : lan'[u].requests \subseteq lan[u].requests
    BY <1>1, <1>3, <1>5 DEF WorkerType, Types, CopierTypes
  <2>2. \A h, u : /\ Answers(worker'.lan, h, u) => Answers(worker.lan, h, u)
                  /\ Oks(worker'.lan, h, u) => Oks(worker.lan, h, u)
    BY <1>1, <2>1, AnswersRest
  <2> QED  BY <1>4, <1>5, <2>1, <2>2 DEF NamesFrom, MailNamed, MailSent, LanNamed, LanSent, JobFor
<1>6. CASE Live(m.handle)
  <2>1. SettleTickets(LanTickets(m), LanMarked(m), LanFinished(m))
    BY <1>6 DEF OnLanCopyDone, LanTickets, LanMarked, LanFinished, LanTicket
  <2>2. IF c.clogged
        THEN /\ lan' = [lan EXCEPT ![m.to] = c]
             /\ worker' = [worker EXCEPT !.lan = Tail(@)]
             /\ UNCHANGED <<lanJob, mail, mailJob>>
        ELSE CopyNextScript(m.to, c)
    BY <1>6 DEF OnLanCopyDone
  <2> HIDE DEF m, c
  <2> DEFINE new == LanTickets(m)
             P == LanMarked(m)
             F == LanFinished(m)
  <2>3. /\ new \in [Script -> TicketType] /\ P \in SUBSET Script /\ F \in SUBSET Script
        /\ \A s \in F : handle[s] # NoHandle
        /\ \A s \in Script : handle[s] = NoHandle => new[s] = ticket[s]
        /\ \A s \in Script \ F : handle[s] # NoHandle => \E t \in Transport : Pending(new[s], t)
        /\ \A s \in Script, t \in Transport : Pending(new[s], t) => Pending(ticket[s], t)
        /\ \A s \in Script, t \in Transport : new[s].req[t] = "delivered" => copies[s][t] > 0
        /\ \A s \in Script, t \in Transport : ticket[s].req[t] # "none" => new[s].req[t] # "none"
    BY <1>1, <1>2, <1>6, LanTicketTrue
  <2> HIDE DEF new, P, F
  <2>4. SettleTickets(new, P, F) /\ UNCHANGED copies
    BY <2>1, <1>4 DEF new, P, F
  <2>5. ScriptsTrue' /\ Listed'
    BY <1>1, <2>3, <2>4, InvSettle
  <2>6. Evolves
    BY <2>3, <2>4, EvolvesSettle
  <2>7. NamesFrom
    BY <1>1, <1>3, <1>4, <1>5, <2>2, <2>5, NamesCopyNext DEF ScriptsTrue
  <2>8. NamesTrue'
    BY <2>6, <2>7, NamesKept
  <2> QED  BY <2>5, <2>8 DEF IInv, NamesTrue, ScriptsTrue
<1>7. CASE ~Live(m.handle)
  <2>1. lan' = [lan EXCEPT ![m.to] = c] /\ worker' = [worker EXCEPT !.lan = Tail(@)]
        /\ UNCHANGED <<shared, tickets, lanJob, mail, mailJob, main, channel, copies, budget>>
    BY <1>7 DEF OnLanCopyDone
  <2>2. NamesTrue' /\ ScriptsTrue'
    BY <1>5, <2>1, EvolvesSame, NamesKept, ScriptsSame DEF shared
  <2>3. Listed'
    BY <1>1, <2>1, ListedSame DEF IInv, shared, tickets
  <2> QED  BY <2>2, <2>3 DEF IInv, NamesTrue, ScriptsTrue
<1> QED  BY <1>6, <1>7

LEMMA MailTicketsTrue ==
  ASSUME Types, IInv, NEW m \in worker.mail
  PROVE  /\ MailTickets(m) \in [Script -> TicketType] /\ MailSettled(m) \in SUBSET Script
         /\ MailFinished(m) \in SUBSET Script
         /\ \A s \in MailFinished(m) : handle[s] # NoHandle
         /\ \A s \in Script : handle[s] = NoHandle => MailTickets(m)[s] = ticket[s]
         /\ \A s \in Script \ MailFinished(m) :
               handle[s] # NoHandle => \E t \in Transport : Pending(MailTickets(m)[s], t)
         /\ \A s \in Script, t \in Transport : Pending(MailTickets(m)[s], t) => Pending(ticket[s], t)
         /\ \A s \in Script, t \in Transport : MailTickets(m)[s].req[t] = "delivered" => copies[s][t] > 0
         /\ \A s \in Script, t \in Transport : ticket[s].req[t] # "none" => MailTickets(m)[s].req[t] # "none"
<1>1. m \in MailAnswer
  BY DEF Types, ThreadTypes, WorkerType
<1>2. m.batch \subseteq Handle /\ m.ok \subseteq Handle /\ NoHandle \notin Handle
  BY <1>1, Constants DEF MailAnswer
<1>3. Transport = Lan \cup {Email} /\ Email \notin Lan
  BY Constants
<1>4. ASSUME NEW s \in Script
      PROVE  /\ MailTicket(m, s) \in TicketType
             /\ \A t \in Transport : MailTicket(m, s).req[t] =
                   IF t # Email THEN ticket[s].req[t]
                   ELSE IF handle[s] \in m.ok \/ ticket[s].req[t] = "delivered" THEN "delivered" ELSE "tried"
  BY <1>1, <1>3, MailTicketType DEF Types
<1>5. ASSUME NEW s \in Script
      PROVE  InProgress(s) /\ Marked(s) /\ ticket[s] \in TicketType /\ ticket[s].req \in [Transport -> Request]
  BY DEF IInv, Types, TicketTypes, TicketType
<1>6. ASSUME NEW s \in Script, s \in MailSettled(m) PROVE ticket[s].req[Email] # "none"
  <2>1. handle[s] \in Handle /\ MailNamed(handle[s])
    BY <1>2, <1>6 DEF MailSettled, MailNamed
  <2>2. Asks(handle[s], Email)
    BY <2>1 DEF IInv, MailTrue
  <2> QED  BY <2>2 DEF Asks
<1>7. ASSUME NEW s \in Script, handle[s] \in m.ok PROVE copies[s][Email] > 0
  <2>1. handle[s] \in Handle /\ MailSent(handle[s])
    BY <1>2, <1>7 DEF MailSent
  <2>2. Sent(handle[s], Email)
    BY <2>1 DEF IInv, MailTrue
  <2> QED  BY <2>2 DEF Sent
<1>8. \A s \in Script : MailTickets(m)[s] = IF s \in MailSettled(m) THEN MailTicket(m, s) ELSE ticket[s]
  BY DEF MailTickets
<1>9. \A s \in MailSettled(m) : s \in Script /\ handle[s] # NoHandle
  BY <1>2 DEF MailSettled
<1>10. ASSUME NEW s \in Script \ MailFinished(m), handle[s] # NoHandle
       PROVE  \E t \in Transport : Pending(MailTickets(m)[s], t)
  <2>1. CASE s \in MailSettled(m)
    <3>1. ~IsFinished(MailTicket(m, s))
      BY <1>10, <2>1 DEF MailFinished
    <3> QED  BY <1>8, <2>1, <3>1 DEF IsFinished, AreRequestsPending, Pending
  <2>2. CASE s \notin MailSettled(m)
    BY <1>5, <1>8, <1>10, <2>2 DEF InProgress
  <2> QED  BY <2>1, <2>2
<1>11. ASSUME NEW s \in Script, NEW t \in Transport
       PROVE  /\ Pending(MailTickets(m)[s], t) => Pending(ticket[s], t)
              /\ MailTickets(m)[s].req[t] = "delivered" => copies[s][t] > 0
              /\ ticket[s].req[t] # "none" => MailTickets(m)[s].req[t] # "none"
  <2>1. CASE s \in MailSettled(m)
    <3>1. ticket[s].req[t] \in Request
      BY <1>5
    <3> QED  BY <1>4, <1>5, <1>6, <1>7, <1>8, <2>1, <3>1 DEF Pending, Request, Marked
  <2>2. CASE s \notin MailSettled(m)
    BY <1>5, <1>8, <2>2 DEF Marked
  <2> QED  BY <2>1, <2>2
<1>12. MailTickets(m) \in [Script -> TicketType]
  BY <1>4, <1>5 DEF MailTickets
<1>13. MailFinished(m) \subseteq MailSettled(m)
  BY DEF MailFinished
<1> QED  BY <1>8, <1>9, <1>10, <1>11, <1>12, <1>13

LEMMA NamesGoesOn ==
  ASSUME Types, Numbered', NEW c \in MailType, c.requests \subseteq mail.requests, MailGoesOn(c),
         UNCHANGED <<channel, lan, lanJob>>
  PROVE  NamesFrom
<1>0. /\ worker \in WorkerType /\ mail.requests \subseteq Handle
      /\ mailJob \in [posted : SUBSET JobType, mailing : SUBSET JobType, threw : BOOLEAN]
  BY DEF Types, ThreadTypes, CopierTypes
<1>1. worker'.lan = worker.lan /\ worker'.mail = {}
  BY <1>0 DEF MailGoesOn, RemoveMail, WorkerType
<1>2. mail'.requests \subseteq mail.requests
  <2>1. CASE RemoveMail
    BY <2>1 DEF RemoveMail, NoMail
  <2>2. CASE mail' = c
    BY <2>2
  <2>3. CASE mail' = [c EXCEPT !.requests = LiveRequests(c), !.busy = TRUE]
    <3>1. mail'.requests = LiveRequests(c)
      BY <2>3 DEF MailType
    <3> QED  BY <3>1, LiveOf
  <2> QED  BY <2>1, <2>2, <2>3 DEF MailGoesOn
<1>3. mailJob'.mailing = mailJob.mailing
      /\ mailJob'.posted \in {{}, mailJob.posted, {Job(h) : h \in LiveRequests(c)}}
  BY <1>0 DEF MailGoesOn, RemoveMail
<1>4. \A g \in LiveRequests(c) : g \in Handle /\ (\E s \in Script : handle'[s] = g) /\ g \in mail.requests
                                 /\ Job(g).handle = g
  BY <1>0, LiveOf, JobOf
<1> SUFFICES ASSUME NEW h \in Handle
             PROVE  /\ MailNamed(h)' => MailNamed(h)
                    /\ MailSent(h)' => MailSent(h)
                    /\ \A u \in Lan : /\ LanNamed(h, u)' => LanNamed(h, u)
                                      /\ LanSent(h, u)' => LanSent(h, u)
                    /\ \A s \in Script : JobFor(h, s)' => JobFor(h, s) \/ Carries(h, s)'
  BY DEF NamesFrom
<1>5. \A j \in mailJob'.posted \cup mailJob'.mailing :
         \/ j \in mailJob.posted \cup mailJob.mailing
         \/ \E g \in LiveRequests(c) : j = Job(g)
  BY <1>3
<1>6. MailNamed(h)' => MailNamed(h)
  BY <1>1, <1>2, <1>4, <1>5 DEF MailNamed
<1>7. (MailSent(h)' => MailSent(h))
      /\ \A u \in Lan : (LanNamed(h, u)' => LanNamed(h, u)) /\ (LanSent(h, u)' => LanSent(h, u))
  BY <1>1 DEF MailSent, LanNamed, LanSent
<1>8. ASSUME NEW s \in Script, JobFor(h, s)' PROVE JobFor(h, s) \/ Carries(h, s)'
  <2>1. CASE \E g \in LiveRequests(c) : Job(g).handle = h /\ Job(g).script = s
    BY <1>4, <2>1, JobCarries
  <2>2. CASE ~\E g \in LiveRequests(c) : Job(g).handle = h /\ Job(g).script = s
    BY <1>5, <1>8, <2>2 DEF JobFor
  <2> QED  BY <2>1, <2>2
<1> QED  BY <1>6, <1>7, <1>8

LEMMA InvOnMail ==
  ASSUME Types, Types', IInv, OnEmailCopyDone
  PROVE  IInv'
<1>1. PICK m \in worker.mail :
        /\ worker.pc = "handling" /\ worker.lan = <<>>
        /\ SettleTickets(MailTickets(m), MailSettled(m), MailFinished(m))
        /\ MailGoesOn(MailRequestsDone(m))
        /\ UNCHANGED <<main, channel, lan, lanJob, copies, budget>>
  BY OnMail
<1> DEFINE new == MailTickets(m)
           P == MailSettled(m)
           F == MailFinished(m)
           c == MailRequestsDone(m)
<1>2. /\ new \in [Script -> TicketType] /\ P \in SUBSET Script /\ F \in SUBSET Script
      /\ \A s \in F : handle[s] # NoHandle
      /\ \A s \in Script : handle[s] = NoHandle => new[s] = ticket[s]
      /\ \A s \in Script \ F : handle[s] # NoHandle => \E t \in Transport : Pending(new[s], t)
      /\ \A s \in Script, t \in Transport : Pending(new[s], t) => Pending(ticket[s], t)
      /\ \A s \in Script, t \in Transport : new[s].req[t] = "delivered" => copies[s][t] > 0
      /\ \A s \in Script, t \in Transport : ticket[s].req[t] # "none" => new[s].req[t] # "none"
  BY MailTicketsTrue
<1>3. mail \in MailType /\ m \in MailAnswer
  <2>1. mail \in MailType
    BY DEF Types, CopierTypes, MailType
  <2>2. m \in MailAnswer
    BY <1>1 DEF Types, ThreadTypes, WorkerType
  <2> QED  BY <2>1, <2>2
<1>4. c \in MailType /\ c.requests \subseteq mail.requests
  <2>1. c \in MailType
    BY <1>3, MailRequestsDoneType
  <2>2. c.requests \subseteq mail.requests
    BY <1>3 DEF MailRequestsDone, MailType
  <2> QED  BY <2>1, <2>2
<1>5. SettleTickets(new, P, F) /\ MailGoesOn(c) /\ UNCHANGED <<main, channel, lan, lanJob, copies, budget>>
  BY <1>1
<1> HIDE DEF new, P, F, c
<1>6. Alive
  BY <1>1 DEF Alive
<1>7. ScriptsTrue' /\ Listed'
  BY <1>2, <1>5, <1>6, InvSettle
<1>8. Evolves
  BY <1>2, <1>5, EvolvesSettle
<1>9. NamesFrom
  BY <1>4, <1>5, <1>7, NamesGoesOn DEF ScriptsTrue
<1>10. NamesTrue'
  BY <1>8, <1>9, NamesKept
<1> QED  BY <1>7, <1>10 DEF IInv, NamesTrue, ScriptsTrue

LEMMA InvClear ==
  ASSUME Types, Types', IInv, HandleClear
  PROVE  IInv'
<1>1. /\ UNCHANGED <<copies, lastHandle, stamped, finished, lanJob, mailJob>> /\ known' = {} /\ toDo' = {}
      /\ \A s \in Script : handle'[s] = NoHandle /\ ticket'[s] = NoTicket
  BY DEF HandleClear
<1>2. /\ channel'.lan = <<>> /\ channel'.mail = channel.mail
      /\ worker'.lan = worker.lan /\ worker'.mail = worker.mail
  BY DEF HandleClear, Types, ThreadTypes, ChannelType, WorkerType
<1>3. \A t \in Lan : lan'[t].requests \subseteq lan[t].requests
  BY Constants DEF HandleClear, Types, CopierTypes, Copier
<1>4. mail'.requests \subseteq mail.requests
  BY DEF HandleClear, Types, CopierTypes, NoMail
<1>5. NamesFrom
  BY <1>1, <1>2, <1>3, <1>4 DEF NamesFrom, MailNamed, MailSent, LanNamed, LanSent, JobFor, Answers, Oks
<1>6. NamesTrue'
  BY <1>1, <1>5, EvolvesNone, NamesKept
<1>7. ScriptsTrue'
  BY <1>1, ScriptsNone
<1>8. Listed'
  BY <1>1 DEF Listed, KnownAgrees
<1> QED  BY <1>6, <1>7, <1>8 DEF IInv, NamesTrue, ScriptsTrue

LEMMA InvForward ==
  ASSUME Types, Types', IInv, StartForwarding
  PROVE  IInv'
<1>1. /\ Alive /\ toDo' = {} /\ known' = known \ (toDo \ inbox)
      /\ UNCHANGED <<inbox, stamped, finished, copies, channel, lanJob, mailJob>>
  BY DEF StartForwarding, Handled, Alive
<1>2. KnownAgrees /\ \A s \in toDo : s \in Script /\ ~(Route[s] \subseteq stamped[s])
  BY <1>1 DEF IInv, Listed, Types, FileTypes
<1>3. NewScripts \subseteq toDo /\ NewScripts = toDo \cap inbox
  BY DEF NewScripts
<1>4. /\ lastHandle \in Nat /\ lastHandle' \in Nat /\ lastHandle <= lastHandle'
      /\ \A s \in NewScripts : NewHandle(s) \in Handle /\ NewHandle(s) \in Nat /\ NewHandle(s) # NoHandle
                               /\ NewHandle(s) > lastHandle /\ NewHandle(s) <= lastHandle'
      /\ \A s, x \in NewScripts : NewHandle(s) = NewHandle(x) => s = x
  <2>1. lastHandle \in Nat /\ lastHandle' \in Nat /\ lastHandle' = lastHandle + Len(SetToSeq(toDo))
    BY Forwarding, DispatcherAssumption DEF Types, TicketTypes
  <2>2. Handle \subseteq Nat \ {0} /\ NoHandle = 0
    BY DispatcherAssumption DEF Handle, NoHandle
  <2>3. lastHandle <= lastHandle'
    BY <2>1, NewHandles, DispatcherAssumption
  <2>4. ASSUME NEW s \in NewScripts
        PROVE  NewHandle(s) \in Handle /\ NewHandle(s) > lastHandle /\ NewHandle(s) <= lastHandle'
    BY <1>3, <2>1, NewHandles
  <2>5. ASSUME NEW s \in NewScripts, NEW x \in NewScripts, NewHandle(s) = NewHandle(x) PROVE s = x
    BY <1>3, <2>5, NewHandles
  <2> QED  BY <2>1, <2>2, <2>3, <2>4, <2>5
<1>5. \A s \in Script : /\ handle'[s] = IF s \in NewScripts THEN NewHandle(s) ELSE handle[s]
                        /\ ticket'[s] = IF s \in NewScripts THEN NewTicket(s) ELSE ticket[s]
  BY Forwarding
<1>6. \A s \in Script : handle[s] \in Nat /\ handle[s] <= lastHandle
  BY Constants DEF IInv, Numbered, Types, TicketTypes
<1>7. Evolves
  BY <1>1, <1>4, <1>5 DEF Evolves
<1>8. Numbered'
  <2>1. ASSUME NEW s \in Script PROVE handle'[s] <= lastHandle'
    BY <1>4, <1>5, <1>6
  <2>2. ASSUME NEW s \in Script, NEW x \in Script, handle'[s] = handle'[x], handle'[s] # NoHandle
        PROVE  s = x
    BY <1>4, <1>5, <1>6, <2>2 DEF IInv, Numbered
  <2> QED  BY <2>1, <2>2 DEF Numbered
<1>9. ASSUME NEW s \in Script PROVE InProgress(s)' /\ Marked(s)'
  <2>1. CASE s \in NewScripts
    <3>1. \A t \in Transport : NewTicket(s).req[t] = IF t \in Route[s] \ stamped[s] THEN "untried" ELSE "none"
      BY FreshTicket
    <3>2. PICK t \in Route[s] : t \notin stamped[s]
      BY <1>2, <1>3, <2>1
    <3>3. t \in Transport
      BY Constants
    <3>4. \A u \in Transport : Pending(NewTicket(s), u) <=> u \in Route[s] \ stamped[s]
      BY <3>1 DEF Pending
    <3>5. handle'[s] # NoHandle /\ ticket'[s] = NewTicket(s)
      BY <1>4, <1>5, <2>1
    <3>6. InProgress(s)'
      BY <1>1, <3>2, <3>3, <3>4, <3>5 DEF InProgress
    <3>8. Route[s] \subseteq Transport /\ Marked(s)
      BY Constants DEF IInv
    <3>7. Marked(s)'
      BY <1>1, <3>1, <3>5, <3>8 DEF Marked
    <3> QED  BY <3>6, <3>7
  <2>2. CASE s \notin NewScripts
    BY <1>1, <1>5, <2>2 DEF IInv, InProgress, Marked, Pending
  <2> QED  BY <2>1, <2>2
<1>16. Told'
  BY <1>1 DEF IInv, Told
<1>10. Listed'
  <2>1. /\ known \subseteq toDo \cup {s \in Script : handle[s] # NoHandle}
        /\ (toDo \cup {s \in Script : handle[s] # NoHandle}) \cap inbox \subseteq known
        /\ \A s \in toDo : handle[s] = NoHandle
    BY <1>1, <1>2 DEF KnownAgrees
  <2>2. /\ known' \subseteq {s \in Script : handle'[s] # NoHandle}
        /\ {s \in Script : handle'[s] # NoHandle} \cap inbox' \subseteq known'
    BY <1>1, <1>2, <1>3, <1>4, <1>5, <2>1
  <2> QED  BY <1>1, <2>2 DEF Listed, KnownAgrees
<1>11. /\ worker'.lan = worker.lan /\ worker'.mail = worker.mail
       /\ mail'.requests = mail.requests
  BY Forwarding DEF StartForwarding, Types, ThreadTypes, CopierTypes, WorkerType
<1>12. ASSUME NEW t \in Lan, NEW h \in lan'[t].requests PROVE h \in lan[t].requests \cup NewFor(t)
  <2>1. lan'[t] = Given(UnclogLan(lan[t]), NewFor(t)) /\ lan[t] \in Copier /\ NewCopier.requests = {}
    BY Forwarding, Constants DEF Types, CopierTypes
  <2>2. NewCopier \in Copier
    BY Constants
  <2> QED  BY <1>12, <2>1, <2>2 DEF Given, UnclogLan, Copier
<1>13. ASSUME NEW t \in Lan, NEW h \in Handle, h \in NewFor(t) PROVE Asks(h, t)'
  <2>1. PICK s \in NewScripts : NewTicket(s).req[t] = "untried" /\ h = NewHandle(s)
    BY <1>13 DEF NewFor
  <2>2. s \in Script /\ handle'[s] = h /\ ticket'[s] = NewTicket(s) /\ h <= lastHandle' /\ h # NoHandle
    BY <1>2, <1>3, <1>4, <1>5, <2>1
  <2> QED  BY <1>8, <2>1, <2>2 DEF Asks, Numbered
<1>14. NamesFrom
  BY <1>1, <1>11, <1>12, <1>13 DEF NamesFrom, MailNamed, MailSent, LanNamed, LanSent, JobFor
<1>15. NamesTrue'
  BY <1>7, <1>14, NamesKept
<1> QED  BY <1>8, <1>9, <1>10, <1>15, <1>16 DEF IInv, NamesTrue

LEMMA InvCopying ==
  ASSUME Types, Types', IInv, StartCopying
  PROVE  IInv'
<1>1. /\ Alive /\ UNCHANGED <<inbox, stamped, finished, copies, channel, toDo, lastHandle>>
      /\ known' = known \ Gone
  BY Copying DEF StartCopying, Alive
<1>2. ASSUME NEW s \in ToMail
      PROVE  s \in Script /\ handle[s] \in Handle /\ handle[s] # NoHandle /\ Asks(handle[s], Email)
  <2>1. s \in Script /\ handle[s] # NoHandle /\ ticket[s].req[Email] = "untried"
    BY DEF ToMail, Types, ThreadTypes, WorkerType
  <2>2. handle[s] \in Handle
    BY <2>1, Constants DEF Types, TicketTypes
  <2> QED  BY <2>1, <2>2 DEF IInv, Numbered, Asks
<1>3. \A s \in Script :
         /\ s \in Gone => handle'[s] = NoHandle /\ ticket'[s] = NoTicket
         /\ s \notin Gone => /\ handle'[s] = handle[s]
                             /\ ticket'[s] = ticket[s] \/ ticket'[s] = RefreshRequests(ticket[s])
  BY Copying
<1>4. \A s \in Script, t \in Transport :
         RefreshRequests(ticket[s]).req[t] = IF ticket[s].req[t] = "tried" THEN "untried" ELSE ticket[s].req[t]
  BY RefreshedTicket DEF Types, TicketTypes
<1>5. \A s \in Script, t \in Transport : NoTicket.req[t] = "none" /\ lastHandle \in Nat
  BY Constants DEF Types, TicketTypes
<1>6. Evolves
  <2>1. lastHandle \in Nat
    BY DEF Types, TicketTypes
  <2>2. ASSUME NEW s \in Script, s \notin Gone
        PROVE  \A t \in Transport : ticket[s].req[t] # "none" => ticket'[s].req[t] # "none"
    BY <1>3, <1>4, <2>2
  <2> QED  BY <1>1, <1>3, <2>1, <2>2 DEF Evolves
<1>7. Numbered'
  <2>1. \A s \in Script : handle'[s] \in {NoHandle, handle[s]}
    BY <1>3
  <2>2. \A s \in Script : handle[s] <= lastHandle /\ NoHandle <= lastHandle
    BY Constants DEF IInv, Numbered, Types, TicketTypes
  <2> QED  BY <1>1, <2>1, <2>2 DEF IInv, Numbered
<1>8. ASSUME NEW s \in Script PROVE InProgress(s)' /\ Marked(s)'
  <2>1. InProgress(s) /\ Marked(s)
    BY DEF IInv
  <2>2. \A t \in Transport : s \notin Gone =>
           /\ Pending(ticket'[s], t) <=> Pending(ticket[s], t)
           /\ ticket'[s].req[t] = "delivered" <=> ticket[s].req[t] = "delivered"
           /\ ticket'[s].req[t] = "none" <=> ticket[s].req[t] = "none"
    BY <1>3, <1>4 DEF Pending
  <2>3. s \in Gone => handle'[s] = NoHandle /\ \A t \in Transport : ticket'[s].req[t] = "none"
    BY <1>3, <1>5
  <2>4. InProgress(s)'
    BY <1>1, <1>3, <2>1, <2>2, <2>3 DEF InProgress
  <2>6. Route[s] \subseteq Transport
    BY Constants
  <2>5. Marked(s)'
    BY <1>1, <1>3, <2>1, <2>2, <2>3, <2>6 DEF Marked
  <2> QED  BY <2>4, <2>5
<1>27. Told'
  BY <1>1 DEF IInv, Told
<1>9. Listed'
  <2>1. /\ known \subseteq toDo \cup {s \in Script : handle[s] # NoHandle}
        /\ (toDo \cup {s \in Script : handle[s] # NoHandle}) \cap inbox \subseteq known
        /\ \A s \in toDo : handle[s] = NoHandle /\ ~(Route[s] \subseteq stamped[s]) /\ s \in Script
    BY <1>1 DEF IInv, Listed, KnownAgrees, Types, FileTypes
  <2>2. \A s \in Gone : s \in Script /\ handle[s] # NoHandle /\ s \notin inbox
    BY <1>2 DEF Gone
  <2>3. /\ known' \subseteq toDo \cup {s \in Script : handle'[s] # NoHandle}
        /\ (toDo \cup {s \in Script : handle'[s] # NoHandle}) \cap inbox' \subseteq known'
        /\ \A s \in toDo : handle'[s] = NoHandle
    BY <1>1, <1>3, <2>1, <2>2
  <2> QED  BY <1>1, <2>1, <2>3 DEF Listed, KnownAgrees
<1>10. worker'.lan = worker.lan /\ worker'.mail = worker.mail
  BY Copying DEF Types, ThreadTypes, WorkerType
<1> DEFINE live == LiveRequests([requests |-> MailRequests])
<1>11. live \subseteq MailRequests /\ \A g \in live : \E s \in Script : handle'[s] = g
  BY DEF LiveRequests
<1>12. MailPosted(live)
  BY Copying
<1>13. ASSUME NEW h \in Handle, h \in MailRequests PROVE h \in mail.requests \/ Asks(h, Email)
  BY <1>2, <1>13 DEF MailRequests
<1>14. MailRequests \subseteq Handle
  BY <1>2 DEF MailRequests, Types, CopierTypes
<1>15. mail'.requests \subseteq MailRequests
  <2> HIDE DEF live
  <2>1. mail' = NoMail \/ \E b \in BOOLEAN, q \in {live, MailRequests} : \E r \in BOOLEAN :
              mail' = [mail EXCEPT !.running = r, !.requests = q, !.busy = b]
    BY <1>12 DEF MailPosted
  <2>2. mail \in MailType
    BY DEF Types, CopierTypes, MailType
  <2>3. CASE mail' = NoMail
    BY <2>3 DEF NoMail
  <2>4. ASSUME NEW b \in BOOLEAN, NEW q \in {live, MailRequests}, NEW r \in BOOLEAN,
               mail' = [mail EXCEPT !.running = r, !.requests = q, !.busy = b]
        PROVE  mail'.requests \subseteq MailRequests
    <3>1. mail'.requests = q
      BY <2>2, <2>4 DEF MailType
    <3> QED  BY <1>11, <3>1
  <2> QED  BY <2>1, <2>3, <2>4
<1>16. \A j \in mailJob'.posted \cup mailJob'.mailing :
         j \in mailJob.posted \cup mailJob.mailing \/ \E g \in live : j = Job(g)
  <2> DEFINE jobs == {Job(g) : g \in live}
  <2>1. mailJob' \in {mailJob, [mailJob EXCEPT !.posted = jobs]}
    BY <1>12 DEF MailPosted
  <2>2. \A j \in jobs : \E g \in live : j = Job(g)
    OBVIOUS
  <2> HIDE DEF jobs, live
  <2>3. mailJob \in [posted : SUBSET JobType, mailing : SUBSET JobType, threw : BOOLEAN]
    BY DEF Types, CopierTypes
  <2> QED  BY <2>1, <2>2, <2>3
<1>17. \A g \in live : g \in Handle /\ g \in MailRequests /\ (\E s \in Script : handle'[s] = g) /\ Job(g).handle = g
  BY <1>11, <1>14, JobOf
<1> HIDE DEF live
<1>18. ASSUME NEW h \in Handle PROVE MailNamed(h)' => MailNamed(h) \/ Asks(h, Email)
  <2>1. ASSUME h \in MailRequests PROVE MailNamed(h) \/ Asks(h, Email)
    BY <1>13, <2>1 DEF MailNamed
  <2>2. ASSUME h \in mail'.requests PROVE MailNamed(h) \/ Asks(h, Email)
    BY <1>15, <2>1, <2>2
  <2>3. ASSUME NEW j \in mailJob'.posted \cup mailJob'.mailing, j.handle = h
        PROVE  MailNamed(h) \/ Asks(h, Email)
    BY <1>16, <1>17, <2>1, <2>3 DEF MailNamed
  <2>4. ASSUME NEW o \in channel'.mail \cup worker'.mail, h \in o.batch
        PROVE  MailNamed(h) \/ Asks(h, Email)
    BY <1>1, <1>10, <2>4 DEF MailNamed
  <2> QED  BY <2>2, <2>3, <2>4 DEF MailNamed
<1>19. PICK ts \in SUBSET Idle : StartLan(ts)
  BY Copying
<1>20. ASSUME NEW t \in Lan
       PROVE  /\ lan'[t].requests \subseteq lan[t].requests
              /\ \/ lanJob'[t] = lanJob[t]
                 \/ \E g \in LiveRequests(lan[t]) : lanJob'[t] = Job(g)
  <2>1. lan[t] \in Copier /\ ts \subseteq Lan
    BY DEF Types, CopierTypes, Idle
  <2>2. \/ lan'[t] = lan[t] /\ lanJob'[t] = lanJob[t]
        \/ lan'[t] = RemovedFromList(lan[t]) /\ lanJob'[t] = lanJob[t]
        \/ /\ lan'[t] = [lan[t] EXCEPT !.busy = TRUE]
           /\ \E h \in LiveRequests(lan[t]) : lanJob'[t] = Job(h)
    BY <1>19, <2>1, StartLanOne
  <2>3. RemovedFromList(lan[t]).requests = {}
    BY DEF RemovedFromList, NoCopier
  <2>4. [lan[t] EXCEPT !.busy = TRUE].requests = lan[t].requests
    BY <2>1 DEF Copier
  <2> QED  BY <2>2, <2>3, <2>4
<1>21. ASSUME NEW t \in Lan, NEW g \in LiveRequests(lan[t])
       PROVE  g \in Handle /\ (\E s \in Script : handle'[s] = g) /\ Job(g).handle = g /\ g \in lan[t].requests
  <2>1. lan[t].requests \subseteq Handle
    BY DEF Types, CopierTypes, Copier
  <2> QED  BY <2>1, LiveOf, JobOf
<1>22. ASSUME NEW h \in Handle, NEW t \in Lan PROVE LanNamed(h, t)' => LanNamed(h, t)
  BY <1>1, <1>10, <1>20, <1>21 DEF LanNamed
<1>23. ASSUME NEW h \in Handle, NEW s \in Script, JobFor(h, s)' PROVE JobFor(h, s) \/ Carries(h, s)'
  <2>1. CASE \E g \in Handle : (\E x \in Script : handle'[x] = g) /\ Job(g).handle = g
                               /\ Job(g).handle = h /\ Job(g).script = s
    BY <1>7, <2>1, JobCarries
  <2>2. CASE ~\E g \in Handle : (\E x \in Script : handle'[x] = g) /\ Job(g).handle = g
                                /\ Job(g).handle = h /\ Job(g).script = s
    <3>1. ASSUME NEW t \in Lan, lanJob'[t].handle = h, lanJob'[t].script = s PROVE JobFor(h, s)
      BY <1>20, <1>21, <2>2, <3>1 DEF JobFor
    <3>2. ASSUME NEW j \in mailJob'.posted \cup mailJob'.mailing, j.handle = h, j.script = s PROVE JobFor(h, s)
      BY <1>16, <1>17, <2>2, <3>2 DEF JobFor
    <3> QED  BY <1>23, <3>1, <3>2 DEF JobFor
  <2> QED  BY <2>1, <2>2
<1>24. ASSUME NEW h \in Handle, Asks(h, Email) PROVE Asks(h, Email)'
  BY <1>6, <1>24, StillTrue, Constants
<1>25. NamesFrom
  BY <1>1, <1>10, <1>18, <1>22, <1>23, <1>24 DEF NamesFrom, MailSent, LanSent
<1>26. NamesTrue'
  BY <1>6, <1>25, NamesKept
<1> QED  BY <1>7, <1>8, <1>9, <1>26, <1>27 DEF IInv, NamesTrue

LEMMA InvStep == Types /\ Types' /\ IInv /\ [Next]_vars => IInv'
<1> SUFFICES ASSUME Types, Types', IInv, [Next]_vars PROVE IInv'
  OBVIOUS
<1>1. CASE UNCHANGED vars
  <2>1. UNCHANGED <<shared, main, channel, worker, tickets, copiers, copies, budget>>
    BY <1>1 DEF vars
  <2>2. NamesFrom
    BY <2>1 DEF NamesFrom, MailNamed, MailSent, LanNamed, LanSent, JobFor, copiers
  <2>3. NamesTrue' /\ ScriptsTrue'
    BY <2>1, <2>2, EvolvesSame, NamesKept, ScriptsSame DEF shared
  <2>4. Listed'
    BY <2>1, ListedSame DEF IInv, shared, tickets, Alive
  <2> QED  BY <2>3, <2>4 DEF IInv, NamesTrue, ScriptsTrue
<1>2. CASE WorkQueue
  BY <1>2, InvWaiting, InvOnLan, InvOnMail, InvClear, InvForward, InvCopying DEF WorkQueue
<1>3. CASE MainThread \/ Vanish
  BY <1>3, InvMain, InvKeepAlive DEF MainThread
<1>4. CASE MailCopier \/ MailBlacklisted
  BY <1>4, InvMailThread, InvMailDone DEF MailCopier
<1>5. CASE \E t \in Lan : LanCopy(t)
  BY <1>5, InvLanCopy
<1>6. CASE MailThrows \/ \E t \in Lan : LanThrows(t)
  BY <1>6, InvThrows
<1> QED  BY <1>1, <1>2, <1>3, <1>4, <1>5, <1>6 DEF Next

LEMMA Inductive == Spec => [](Types /\ IInv)
<1>1. Types /\ IInv /\ [Next]_vars => IInv'
  BY TypeStep, InvStep
<1> QED  BY InvInit, <1>1, Typed, PTL DEF Spec

(* What the main thread takes for known is what the work queue still has     *)
(* (_knownScriptFiles).                                                      *)
THEOREM KnownAlwaysAgrees == Spec => []KnownAgrees
<1>1. IInv => KnownAgrees
  BY DEF IInv, Listed, KnownAgrees
<1> QED  BY <1>1, Inductive, PTL

(* No file is deleted that was not copied wherever it has to go              *)
(* (ProcessInbox, OnFinishScripts).                                          *)
THEOREM DeletedWasDelivered == Spec => DeletedIsDelivered
<1>1. ASSUME Types, IInv, Next
      PROVE  \A s \in inbox \ inbox' : Vanish \/ \A t \in Route[s] : copies[s][t] > 0
  <2> SUFFICES ASSUME NEW s \in inbox \ inbox', ~Vanish
               PROVE  \A t \in Route[s] : copies[s][t] > 0
    OBVIOUS
  <2>1. s \in Script /\ Marked(s) /\ Route[s] \subseteq Transport
    BY <1>1, Constants DEF IInv, Types, FileTypes
  <2>2. CASE ProcessInbox \/ OnFinishScripts
    <3>1. CASE Route[s] \subseteq stamped[s]
      BY <2>1, <3>1 DEF Marked
    <3>2. CASE \E f \in finished : f.delivered /\ f.script = s
      BY <1>1, <3>2 DEF IInv, Told
    <3>3. CASE OnFinishScripts
      <4> DEFINE marked == {x \in {f.script : f \in finished} : Route[x] \subseteq stamped[x]}
                 unmarked == {f.script : f \in {g \in finished : g.delivered}} \ marked
      <4>1. PICK deleted \in SUBSET unmarked : inbox' = inbox \ (marked \cup deleted)
        BY <3>3 DEF OnFinishScripts
      <4>2. s \in marked \/ s \in unmarked
        <5> HIDE DEF marked, unmarked
        <5> QED  BY <4>1
      <4> QED  BY <3>1, <3>2, <4>2
    <3>4. CASE ProcessInbox
      <4>1. Route[s] \subseteq stamped[s]
        BY <3>4 DEF ProcessInbox
      <4> QED  BY <3>1, <4>1
    <3> QED  BY <2>2, <3>3, <3>4
  <2>3. CASE ~(ProcessInbox \/ OnFinishScripts)
    <3>1. inbox' = inbox
      <4>1. CASE WorkQueue
        BY <4>1 DEF WorkQueue, Wake, Receive, OnLanCopyDone, OnEmailCopyDone, SettleTickets, HandleClear,
                    GoWaiting, StartForwarding, StartCopying, shared
      <4>2. CASE ClearState \/ StateCleared \/ KeepAlive
        BY <4>2 DEF ClearState, StateCleared, KeepAlive
      <4>3. CASE MailCopier \/ MailBlacklisted \/ MailThrows \/ \E t \in Lan : LanCopy(t) \/ LanThrows(t)
        BY <4>3 DEF MailCopier, MailStart, MailDone, MailBlacklisted, MailThrows, LanCopy, LanThrows, shared
      <4> QED  BY <1>1, <2>3, <4>1, <4>2, <4>3 DEF Next, MainThread
    <3> QED  BY <3>1
  <2> QED  BY <2>2, <2>3
<1>2. Types /\ IInv /\ [Next]_vars
        => [\A s \in inbox \ inbox' : Vanish \/ \A t \in Route[s] : copies[s][t] > 0]_vars
  BY <1>1
<1> QED  BY <1>2, Inductive, PTL DEF Spec, DeletedIsDelivered

-----------------------------------------------------------------------------
(* As long as nothing is cleared, no copier waits for a thread that waits,   *)
(* unless that thread swallowed an exception.                               *)

ToLan(q, t) == \E i \in DOMAIN q : q[i].to = t

Awaited(t) ==
  lan[t].busy => \/ lanJob[t].handle # NoHandle \/ lanJob[t].threw
                 \/ ToLan(channel.lan, t) \/ ToLan(worker.lan, t)

\* Nothing is cleared, answers are handled before the work queue waits, and a
\* thread that died left no copier.
Undisturbed ==
  /\ budget.clears = 0 /\ ~channel.clear /\ ~worker.clear
  /\ worker.pc \in {"waiting", "receiving", "emailing"} => worker.lan = <<>>
  /\ worker.pc = "dead" => \A t \in Lan : ~lan[t].busy

BusyInv == Undisturbed /\ \A t \in Lan : Awaited(t)

LEMMA ToLanOf ==
  ASSUME NEW q \in Seq(LanAnswer), NEW t
  PROVE  /\ \A m \in LanAnswer : ToLan(q, t) \/ m.to = t => ToLan(Append(q, m), t)
         /\ q # <<>> /\ ToLan(q, t) => ToLan(Tail(q), t) \/ Head(q).to = t
<1>1. ASSUME NEW m \in LanAnswer, ToLan(q, t) \/ m.to = t PROVE ToLan(Append(q, m), t)
  <2>1. Len(Append(q, m)) = Len(q) + 1 /\ Append(q, m)[Len(q) + 1] = m
    OBVIOUS
  <2>2. \A i \in 1 .. Len(q) : Append(q, m)[i] = q[i]
    OBVIOUS
  <2>3. DOMAIN q = 1 .. Len(q) /\ DOMAIN Append(q, m) = 1 .. Len(q) + 1 /\ Len(q) \in Nat
    OBVIOUS
  <2> QED  BY <1>1, <2>1, <2>2, <2>3 DEF ToLan
<1>2. ASSUME q # <<>>, ToLan(q, t) PROVE ToLan(Tail(q), t) \/ Head(q).to = t
  <2>1. /\ Head(q) = q[1] /\ Len(q) \in Nat \ {0} /\ DOMAIN q = 1 .. Len(q)
        /\ DOMAIN Tail(q) = 1 .. Len(q) - 1
        /\ \A i \in 1 .. Len(q) - 1 : Tail(q)[i] = q[i + 1]
    BY <1>2
  <2>2. PICK i \in DOMAIN q : q[i].to = t
    BY <1>2 DEF ToLan
  <2>3. CASE i = 1
    BY <2>1, <2>2, <2>3
  <2>4. CASE i # 1
    <3>1. i - 1 \in DOMAIN Tail(q) /\ Tail(q)[i - 1] = q[i]
      BY <2>1, <2>2, <2>4
    <3> QED  BY <2>2, <3>1 DEF ToLan
  <2> QED  BY <2>3, <2>4
<1> QED  BY <1>1, <1>2

LEMMA BusyInit == Init /\ MaxClears = 0 => BusyInv
BY Constants DEF Init, BusyInv, Undisturbed, Awaited

LEMMA BusyMain ==
  ASSUME Types, BusyInv, MainThread \/ Vanish \/ MailCopier \/ MailBlacklisted \/ MailThrows
  PROVE  BusyInv'
<1>1. channel \in ChannelType /\ budget \in [failures : Nat, clears : Nat]
  BY DEF Types, ThreadTypes
<1>2. CASE ProcessInbox \/ OnFinishScripts \/ StateCleared \/ Vanish
  <2>1. UNCHANGED <<budget, worker, lan, lanJob, channel.lan, channel.clear>>
    BY <1>1, <1>2 DEF ProcessInbox, OnFinishScripts, StateCleared, Vanish, ChannelType, copiers
  <2> QED  BY <2>1 DEF BusyInv, Undisturbed, Awaited
<1>3. CASE MailCopier \/ MailBlacklisted \/ MailThrows
  <2>1. UNCHANGED <<budget.clears, worker, lan, lanJob, channel.lan, channel.clear>>
    BY <1>1, <1>3 DEF MailCopier, MailStart, MailDone, MailBlacklisted, MailThrows, PutMail, ChannelType, copiers
  <2> QED  BY <2>1 DEF BusyInv, Undisturbed, Awaited
<1>4. CASE ClearState
  BY <1>4 DEF ClearState, BusyInv, Undisturbed
<1>5. CASE KeepAlive
  <2>1. /\ \A t \in Lan : ~lan[t].busy
        /\ UNCHANGED <<budget, lan, lanJob>> /\ ~channel'.clear /\ ~worker'.clear
        /\ worker'.pc = "waiting" /\ worker'.lan = <<>>
    BY <1>5 DEF KeepAlive, BusyInv, Undisturbed, copiers
  <2> QED  BY <2>1 DEF BusyInv, Undisturbed, Awaited
<1> QED  BY <1>2, <1>3, <1>4, <1>5 DEF MainThread

LEMMA BusyLanCopy ==
  ASSUME Types, BusyInv, NEW t \in Lan, LanCopy(t)
  PROVE  BusyInv'
<1>1. PICK ok \in BOOLEAN :
        channel' = [channel EXCEPT !.event = TRUE,
           !.lan = Append(@, [to |-> t, handle |-> lanJob[t].handle, ok |-> ok])]
  BY DEF LanCopy
<1> DEFINE m == [to |-> t, handle |-> lanJob[t].handle, ok |-> ok]
<1>2. m \in LanAnswer /\ m.to = t
  BY Constants DEF LanCopy, LanAnswer, Types, CopierTypes, JobType
<1>3. channel.lan \in Seq(LanAnswer) /\ channel'.lan = Append(channel.lan, m) /\ channel'.clear = channel.clear
  BY <1>1 DEF Types, ThreadTypes, ChannelType
<1> HIDE DEF m
<1>4. UNCHANGED <<worker, lan, budget.clears>> /\ \A u \in Lan : u # t => lanJob'[u] = lanJob[u]
  BY DEF LanCopy, Types, ThreadTypes, CopierTypes
<1>5. \A u : ToLan(channel.lan, u) \/ u = t => ToLan(channel'.lan, u)
  BY <1>2, <1>3, ToLanOf
<1> QED  BY <1>3, <1>4, <1>5 DEF BusyInv, Undisturbed, Awaited

LEMMA BusyThrows ==
  ASSUME Types, BusyInv, NEW t \in Lan, LanThrows(t)
  PROVE  BusyInv'
<1>1. UNCHANGED <<worker, lan, channel, budget.clears>>
  BY DEF LanThrows, Types, ThreadTypes
<1>2. \A u \in Lan : lanJob'[u] = IF u = t THEN [NoJob EXCEPT !.threw = TRUE] ELSE lanJob[u]
  BY DEF LanThrows, Types, CopierTypes
<1>3. [NoJob EXCEPT !.threw = TRUE].threw
  BY Constants
<1>4. ASSUME NEW u \in Lan PROVE Awaited(u)'
  BY <1>1, <1>2, <1>3 DEF BusyInv, Awaited
<1> QED  BY <1>1, <1>4 DEF BusyInv, Undisturbed

LEMMA BusyOnLan ==
  ASSUME Types, BusyInv, OnLanCopyDone
  PROVE  BusyInv'
<1> DEFINE m == Head(worker.lan)
           c == LanRequestDone(lan[m.to], m.handle, m.ok)
<1>1. worker \in WorkerType /\ worker.lan # <<>> /\ worker.pc = "handling"
      /\ UNCHANGED <<channel, budget>>
  BY DEF OnLanCopyDone, Types, ThreadTypes
<1>2. worker.lan \in Seq(LanAnswer) /\ m \in LanAnswer
  BY <1>1 DEF WorkerType
<1>3. m.to \in Lan /\ m.ok \in BOOLEAN
  BY <1>2 DEF LanAnswer
<1>4. c \in Copier /\ ~c.busy
  BY <1>3, LanRequestDoneType DEF Types, CopierTypes
<1>5. \/ lan' = [lan EXCEPT ![m.to] = c] /\ worker' = [worker EXCEPT !.lan = Tail(@)] /\ UNCHANGED lanJob
      \/ CopyNextScript(m.to, c)
  BY DEF OnLanCopyDone
<1>6. \A u : ToLan(worker.lan, u) => ToLan(Tail(worker.lan), u) \/ m.to = u
  BY <1>1, <1>2, ToLanOf
<1> HIDE DEF m, c
<1>7. ASSUME NEW d \in Copier, lan' = [lan EXCEPT ![m.to] = d], worker' = [worker EXCEPT !.lan = Tail(@)],
             \A u \in Lan : u # m.to => lanJob'[u] = lanJob[u],
             d.busy => lanJob'[m.to].handle # NoHandle
      PROVE  BusyInv'
  <2>1. worker'.pc = "handling" /\ worker'.clear = worker.clear /\ worker'.lan = Tail(worker.lan)
    BY <1>1, <1>7 DEF WorkerType
  <2>2. \A u \in Lan : lan'[u] = IF u = m.to THEN d ELSE lan[u]
    BY <1>7 DEF Types, CopierTypes
  <2>3. ASSUME NEW u \in Lan PROVE Awaited(u)'
    BY <1>1, <1>6, <1>7, <2>1, <2>2 DEF BusyInv, Awaited
  <2>4. Undisturbed'
    BY <1>1, <2>1 DEF BusyInv, Undisturbed
  <2> QED  BY <2>3, <2>4 DEF BusyInv
<1>8. CASE Dies
  <2>1. worker'.pc \in {"dead", "crashed"} /\ worker'.clear = worker.clear /\ \A t \in Lan : ~lan'[t].busy
    BY <1>1, <1>8, Constants DEF Dies, WorkerType
  <2> QED  BY <1>1, <2>1 DEF BusyInv, Undisturbed, Awaited
<1>9. CASE /\ \E h \in LiveRequests(c) :
                 /\ lan' = [lan EXCEPT ![m.to] = [c EXCEPT !.busy = TRUE]]
                 /\ lanJob' = [lanJob EXCEPT ![m.to] = Job(h)]
           /\ worker' = [worker EXCEPT !.lan = Tail(@)]
  <2>1. PICK h \in LiveRequests(c) : /\ lan' = [lan EXCEPT ![m.to] = [c EXCEPT !.busy = TRUE]]
                                     /\ lanJob' = [lanJob EXCEPT ![m.to] = Job(h)]
    BY <1>9
  <2>2. h \in Handle /\ \E s \in Script : handle'[s] = h
    BY <1>4, LiveOf DEF Copier
  <2>3. Job(h).handle # NoHandle
    BY <2>2, JobOf
  <2>4. [c EXCEPT !.busy = TRUE] \in Copier
    BY <1>4 DEF Copier
  <2>5. lanJob'[m.to] = Job(h) /\ \A u \in Lan : u # m.to => lanJob'[u] = lanJob[u]
    BY <1>3, <2>1 DEF Types, CopierTypes
  <2> QED  BY <1>7, <1>9, <2>1, <2>3, <2>4, <2>5
<1>10. CASE lan' = [lan EXCEPT ![m.to] = c] /\ worker' = [worker EXCEPT !.lan = Tail(@)] /\ UNCHANGED lanJob
  BY <1>4, <1>7, <1>10
<1>11. CASE lan' = [lan EXCEPT ![m.to] = Removed(c)] /\ worker' = [worker EXCEPT !.lan = Tail(@)]
            /\ UNCHANGED lanJob
  <2>1. Removed(c) \in Copier /\ ~Removed(c).busy
    BY Constants DEF Removed
  <2> QED  BY <1>7, <1>11, <2>1
<1> QED  BY <1>5, <1>8, <1>9, <1>10, <1>11 DEF CopyNextScript

LEMMA BusyQueue ==
  ASSUME Types, BusyInv, WorkQueue
  PROVE  BusyInv'
<1>1. worker \in WorkerType /\ channel \in ChannelType
  BY DEF Types, ThreadTypes
<1>2. CASE Wake
  <2>1. UNCHANGED <<lan, lanJob, channel.lan, channel.clear, worker.lan, worker.clear, budget>>
        /\ worker.pc = "waiting" /\ worker'.pc = "receiving"
    BY <1>1, <1>2 DEF Wake, WorkerType, ChannelType, copiers
  <2> QED  BY <2>1 DEF BusyInv, Undisturbed, Awaited
<1>3. CASE Receive
  <2>1. UNCHANGED <<lan, lanJob, budget>> /\ ~worker'.clear /\ ~channel'.clear
        /\ worker.lan = <<>> /\ worker'.lan = channel.lan /\ worker'.pc = "handling"
    BY <1>1, <1>3 DEF Receive, WorkerType, ChannelType, copiers, BusyInv, Undisturbed
  <2>2. \A t : ~ToLan(<<>>, t)
    BY DEF ToLan
  <2> QED  BY <2>1, <2>2 DEF BusyInv, Undisturbed, Awaited
<1>4. CASE GoWaiting
  <2>1. UNCHANGED <<lan, lanJob, channel, worker.lan, worker.clear, budget>>
        /\ worker.lan = <<>> /\ worker'.pc = "waiting"
    BY <1>1, <1>4 DEF GoWaiting, Handled, WorkerType, copiers
  <2> QED  BY <2>1 DEF BusyInv, Undisturbed, Awaited
<1>5. CASE OnEmailCopyDone
  <2>1. PICK m \in worker.mail :
          /\ worker.pc = "handling"
          /\ MailGoesOn(MailRequestsDone(m))
          /\ UNCHANGED <<main, channel, lan, lanJob, copies, budget>>
    BY <1>5, OnMail
  <2>2. worker'.lan = worker.lan /\ worker'.clear = worker.clear /\ worker'.pc \in {"handling", "crashed"}
    BY <1>1, <2>1 DEF MailGoesOn, RemoveMail, WorkerType
  <2> QED  BY <2>1, <2>2 DEF BusyInv, Undisturbed, Awaited
<1>6. CASE HandleClear
  BY <1>6 DEF HandleClear, BusyInv, Undisturbed
<1>7. CASE StartForwarding
  <2>1. UNCHANGED <<lanJob, channel, budget, worker.lan, worker.clear>>
        /\ worker.lan = <<>> /\ worker'.pc \in {"crashed", "emailing"}
    BY <1>1, <1>7, Forwarding DEF StartForwarding, Handled, WorkerType
  <2>2. ASSUME NEW t \in Lan PROVE lan'[t].busy => lan[t].busy
    <3>1. lan'[t] = Given(UnclogLan(lan[t]), NewFor(t)) /\ lan[t] \in Copier
      BY <1>7, Forwarding DEF Types, CopierTypes
    <3>2. NewFor(t) \in SUBSET Handle
      BY NewHandles DEF NewFor, NewScripts
    <3> QED  BY <3>1, <3>2, GivenType
  <2> QED  BY <2>1, <2>2 DEF BusyInv, Undisturbed, Awaited
<1>8. CASE StartCopying
  <2>1. worker'.lan = worker.lan /\ worker'.clear = worker.clear /\ worker'.pc = "waiting"
        /\ worker.pc = "emailing" /\ UNCHANGED <<channel, budget>>
    BY <1>1, <1>8, Copying DEF StartCopying, WorkerType
  <2>2. PICK ts \in SUBSET Idle : StartLan(ts)
    BY <1>8, Copying
  <2>3. ts \subseteq Lan
    BY DEF Idle
  <2>4. ASSUME NEW t \in Lan
        PROVE  lan'[t].busy => \/ lan'[t] = lan[t] /\ lanJob'[t] = lanJob[t]
                               \/ lanJob'[t].handle # NoHandle
    <3>1. ~RemovedFromList(lan[t]).busy
      BY DEF RemovedFromList, NoCopier
    <3>2. \A h \in LiveRequests(lan[t]) : Job(h).handle # NoHandle
      BY LiveOf, JobOf DEF Types, CopierTypes, Copier
    <3>3. \/ lan'[t] = lan[t] /\ lanJob'[t] = lanJob[t]
          \/ lan'[t] = RemovedFromList(lan[t])
          \/ \E h \in LiveRequests(lan[t]) : lanJob'[t] = Job(h)
      BY <2>2, <2>3, StartLanOne
    <3> QED  BY <3>1, <3>2, <3>3
  <2> QED  BY <2>1, <2>4 DEF BusyInv, Undisturbed, Awaited
<1> QED  BY <1>2, <1>3, <1>4, <1>5, <1>6, <1>7, <1>8, BusyOnLan DEF WorkQueue

LEMMA BusyStep == Types /\ BusyInv /\ [Next]_vars => BusyInv'
<1> SUFFICES ASSUME Types, BusyInv, [Next]_vars PROVE BusyInv'
  OBVIOUS
<1>1. CASE UNCHANGED vars
  BY <1>1 DEF vars, copiers, BusyInv, Undisturbed, Awaited
<1>2. CASE Next
  BY <1>2, BusyMain, BusyLanCopy, BusyThrows, BusyQueue DEF Next
<1> QED  BY <1>1, <1>2

(* A copier that is busy has a job or an answer on its way, whatever fails   *)
(* or vanishes, unless its thread swallowed an exception: as long as the     *)
(* state is not cleared, no other answer is lost (LanCopier, ActiveObject).  *)
THEOREM BusyGetsAnswered == MaxClears = 0 => (Spec => []BusyIsAnswered)
<1> SUFFICES ASSUME MaxClears = 0 PROVE Spec => []BusyIsAnswered
  OBVIOUS
<1>1. Init => BusyInv
  BY BusyInit
<1>2. BusyInv => BusyIsAnswered
  BY DEF BusyInv, Awaited, ToLan, BusyIsAnswered
<1> QED  BY <1>1, <1>2, BusyStep, Typed, PTL DEF Spec

-----------------------------------------------------------------------------
(* Where every header can be marked, a script in progress is marked for, or  *)
(* still waits for, every transport it has to take; one that was delivered   *)
(* is marked for all of them, so the main thread deletes it or leaves it.    *)
AllMarked ==
  /\ \A s \in Script : handle[s] # NoHandle =>
        \A t \in Route[s] : Pending(ticket[s], t) \/ t \in stamped[s]
  /\ \A f \in finished : f.delivered => Route[f.script] \subseteq stamped[f.script]

LEMMA MarkedSettle ==
  ASSUME Unmarkable = {}, Types, AllMarked, NEW new, NEW P \in SUBSET Script, NEW F \in SUBSET Script,
         SettleTickets(new, P, F), \A s \in F : handle[s] # NoHandle,
         \A s \in Script, t \in Transport : Pending(ticket[s], t) =>
            Pending(new[s], t) \/ (s \in P /\ t \in Delivered(new[s]))
  PROVE  AllMarked'
<1>1. /\ handle' = [s \in Script |-> IF s \in F THEN NoHandle ELSE handle[s]]
      /\ ticket' = [s \in Script |-> IF s \in F THEN NoTicket ELSE new[s]]
      /\ Stamp(new, P) /\ finished' = finished \cup Finished(new, F)
  BY DEF SettleTickets
<1>2. \A s \in Script : stamped[s] \subseteq stamped'[s] /\ (s \in P => Delivered(new[s]) \subseteq stamped'[s])
  BY <1>1, Stamping
<1>3. \A s \in Script : Route[s] \subseteq Transport
  BY Constants
<1>4. ASSUME NEW s \in Script, handle[s] # NoHandle, NEW t \in Route[s]
      PROVE  Pending(new[s], t) \/ t \in stamped'[s]
  <2>1. Pending(ticket[s], t) \/ t \in stamped[s]
    BY <1>4 DEF AllMarked
  <2> QED  BY <1>2, <1>3, <2>1
<1>5. ASSUME NEW s \in Script, handle'[s] # NoHandle, NEW t \in Route[s]
      PROVE  Pending(ticket'[s], t) \/ t \in stamped'[s]
  <2>1. handle'[s] = handle[s] /\ ticket'[s] = new[s]
    BY <1>1, <1>5
  <2> QED  BY <1>4, <1>5, <2>1
<1>6. ASSUME NEW f \in finished', f.delivered PROVE Route[f.script] \subseteq stamped'[f.script]
  <2>1. CASE f \in finished
    <3>1. f.script \in Script
      BY <2>1 DEF Types, FileTypes
    <3> QED  BY <1>2, <1>6, <2>1, <3>1 DEF AllMarked
  <2>2. CASE f \in Finished(new, F)
    <3>1. PICK s \in F : f = [script |-> s, error |-> new[s].error,
                              delivered |-> ~AreRequestsPending(new[s])]
      BY <2>2 DEF Finished
    <3> DEFINE d == ~AreRequestsPending(new[s])
               e == new[s].error
    <3>2. f = [script |-> s, error |-> e, delivered |-> d]
      BY <3>1
    <3> HIDE DEF d, e
    <3>3. f.script = s /\ d
      BY <1>6, <3>2
    <3>4. \A t \in Transport : ~Pending(new[s], t)
      BY <3>3 DEF d, AreRequestsPending, Pending
    <3> QED  BY <1>3, <1>4, <3>3, <3>4
  <2> QED  BY <1>1, <1>6, <2>1, <2>2
<1> QED  BY <1>5, <1>6 DEF AllMarked

LEMMA MarkedOnLan ==
  ASSUME Unmarkable = {}, Types, IInv, AllMarked, OnLanCopyDone
  PROVE  AllMarked'
<1> DEFINE m == Head(worker.lan)
<1>1. worker.lan \in Seq(LanAnswer) /\ worker.lan # <<>> /\ m \in LanAnswer
  BY DEF OnLanCopyDone, Types, ThreadTypes, WorkerType
<1>2. Answers(worker.lan, m.handle, m.to) /\ (m.ok => Oks(worker.lan, m.handle, m.to))
  BY <1>1, AnswersRest
<1>3. CASE Live(m.handle)
  <2>1. SettleTickets(LanTickets(m), LanMarked(m), LanFinished(m))
    BY <1>3 DEF OnLanCopyDone, LanTickets, LanMarked, LanFinished, LanTicket
  <2> HIDE DEF m
  <2>2. /\ LanMarked(m) \in SUBSET Script /\ LanFinished(m) \in SUBSET Script
        /\ \A s \in LanFinished(m) : handle[s] # NoHandle
    BY <1>1, <1>2, <1>3, LanTicketTrue
  <2> DEFINE x == ScriptOf(m.handle)
  <2>3. x \in Script /\ m.to \in Transport /\ m.ok \in BOOLEAN
    BY <1>1, <1>3, Constants DEF Live, ScriptOf, LanAnswer
  <2>4. ticket \in [Script -> TicketType] /\ LanTickets(m) = [ticket EXCEPT ![x] = LanTicket(m)]
    BY DEF Types, TicketTypes, LanTickets
  <2>5. \A t \in Transport : LanTicket(m).req[t] =
            IF t # m.to THEN ticket[x].req[t]
            ELSE IF m.ok \/ ticket[x].req[t] = "delivered" THEN "delivered" ELSE "tried"
    BY <2>3, <2>4, MarkDoneTicket DEF LanTicket
  <2>6. m.ok => x \in LanMarked(m)
    BY DEF LanMarked
  <2> HIDE DEF x
  <2>7. \A s \in Script : LanTickets(m)[s] = IF s = x THEN LanTicket(m) ELSE ticket[s]
    BY <2>3, <2>4
  <2>8. ASSUME NEW s \in Script, NEW t \in Transport, Pending(ticket[s], t)
        PROVE  Pending(LanTickets(m)[s], t) \/ (s \in LanMarked(m) /\ t \in Delivered(LanTickets(m)[s]))
    BY <2>3, <2>5, <2>6, <2>7, <2>8 DEF Pending, Delivered
  <2> QED  BY <2>1, <2>2, <2>8, MarkedSettle
<1>4. CASE ~Live(m.handle)
  <2>1. UNCHANGED <<shared, tickets>>
    BY <1>4 DEF OnLanCopyDone
  <2> QED  BY <2>1 DEF AllMarked, shared, tickets
<1> QED  BY <1>3, <1>4

LEMMA MarkedOnMail ==
  ASSUME Unmarkable = {}, Types, IInv, AllMarked, OnEmailCopyDone
  PROVE  AllMarked'
<1>1. PICK m \in worker.mail : SettleTickets(MailTickets(m), MailSettled(m), MailFinished(m))
  BY OnMail
<1>2. m \in MailAnswer
  BY DEF Types, ThreadTypes, WorkerType
<1>3. /\ MailSettled(m) \in SUBSET Script /\ MailFinished(m) \in SUBSET Script
      /\ \A s \in MailFinished(m) : handle[s] # NoHandle
  BY MailTicketsTrue
<1>4. \A s \in Script : MailTickets(m)[s] = IF s \in MailSettled(m) THEN MailTicket(m, s) ELSE ticket[s]
  BY DEF MailTickets
<1>5. ASSUME NEW s \in Script, NEW t \in Transport, Pending(ticket[s], t)
      PROVE  Pending(MailTickets(m)[s], t) \/ (s \in MailSettled(m) /\ t \in Delivered(MailTickets(m)[s]))
  <2>1. MailTicket(m, s).req[t] =
          IF t # Email THEN ticket[s].req[t]
          ELSE IF handle[s] \in m.ok \/ ticket[s].req[t] = "delivered" THEN "delivered" ELSE "tried"
    BY <1>2, MailTicketType, Constants DEF Types
  <2> QED  BY <1>4, <1>5, <2>1 DEF Pending, Delivered
<1> QED  BY <1>1, <1>3, <1>5, MarkedSettle

LEMMA MarkedStart ==
  ASSUME Types, AllMarked, StartForwarding \/ StartCopying
  PROVE  AllMarked'
<1>1. UNCHANGED <<stamped, finished>>
  BY DEF StartForwarding, StartCopying
<1>2. \A s \in Script : Route[s] \subseteq Transport
  BY Constants
<1>3. ASSUME NEW s \in Script, handle'[s] # NoHandle, NEW t \in Route[s]
      PROVE  Pending(ticket'[s], t) \/ t \in stamped[s]
  <2>1. CASE StartForwarding
    <3>1. /\ handle'[s] = IF s \in NewScripts THEN NewHandle(s) ELSE handle[s]
          /\ ticket'[s] = IF s \in NewScripts THEN NewTicket(s) ELSE ticket[s]
      BY <2>1, Forwarding
    <3>2. t \in stamped[s] \/ Pending(NewTicket(s), t)
      BY <1>2, FreshTicket DEF Pending
    <3> QED  BY <1>3, <3>1, <3>2 DEF AllMarked
  <2>2. CASE StartCopying
    <3>1. handle'[s] = handle[s] /\ (ticket'[s] = ticket[s] \/ ticket'[s] = RefreshRequests(ticket[s]))
      BY <1>3, <2>2, Copying
    <3>2. ticket[s] \in TicketType /\ t \in Transport
      BY <1>2 DEF Types, TicketTypes
    <3>3. Pending(ticket[s], t) => Pending(RefreshRequests(ticket[s]), t)
      BY <3>2, RefreshedTicket DEF Pending
    <3> QED  BY <1>3, <3>1, <3>3 DEF AllMarked
  <2> QED  BY <2>1, <2>2
<1> QED  BY <1>1, <1>3 DEF AllMarked

LEMMA MarkedStep == Unmarkable = {} /\ Types /\ IInv /\ AllMarked /\ [Next]_vars => AllMarked'
<1> SUFFICES ASSUME Unmarkable = {}, Types, IInv, AllMarked, [Next]_vars PROVE AllMarked'
  OBVIOUS
<1>1. CASE \/ ProcessInbox \/ ClearState \/ StateCleared \/ Vanish
           \/ MailCopier \/ MailBlacklisted \/ MailThrows
           \/ (\E t \in Lan : LanCopy(t) \/ LanThrows(t))
           \/ Wake \/ Receive \/ GoWaiting \/ UNCHANGED vars
  <2>1. UNCHANGED <<handle, ticket, stamped, finished>>
    BY <1>1 DEF ProcessInbox, ClearState, StateCleared, Vanish, MailCopier, MailStart, MailDone,
                MailBlacklisted, MailThrows, LanCopy, LanThrows, Wake, Receive, GoWaiting, vars, shared, tickets
  <2> QED  BY <2>1 DEF AllMarked
<1>2. CASE OnFinishScripts
  <2>1. finished' = {} /\ UNCHANGED <<handle, ticket, stamped>>
    BY <1>2 DEF OnFinishScripts, tickets
  <2> QED  BY <2>1 DEF AllMarked
<1>3. CASE HandleClear \/ KeepAlive
  <2>1. finished' \subseteq finished /\ stamped' = stamped /\ \A s \in Script : handle'[s] = NoHandle
    BY <1>3 DEF HandleClear, KeepAlive
  <2> QED  BY <2>1 DEF AllMarked
<1> QED  BY <1>1, <1>2, <1>3, MarkedOnLan, MarkedOnMail, MarkedStart DEF Next, MainThread, WorkQueue

LEMMA AlwaysMarked == Unmarkable = {} => (Spec => []AllMarked)
<1> SUFFICES ASSUME Unmarkable = {} PROVE Spec => []AllMarked
  OBVIOUS
<1>1. Init => AllMarked
  BY DEF Init, AllMarked
<1>2. Types /\ IInv /\ AllMarked /\ [Next]_vars => AllMarked'
  BY MarkedStep
<1> QED  BY <1>1, <1>2, Inductive, PTL DEF Spec

-----------------------------------------------------------------------------
(* Nothing cleared, nothing vanished: the copiers' lists                    *)

(* The copier of t was given h, or its answer about h was not handled yet.   *)
LanOut(h, t) ==
  lanJob[t].handle = h \/ Answers(channel.lan, h, t) \/ Answers(worker.lan, h, t)

Asked(h, t) == \E s \in Script : handle[s] = h /\ Pending(ticket[s], t)

OneTo(q) == \A i, j \in DOMAIN q : q[i].to = q[j].to => i = j

(* A copier has the handles of the scripts that still have to go there, and  *)
(* exists as long as there are any.                                         *)
Requested(t) ==
  /\ \A h \in Handle : h \in lan[t].requests <=> Asked(h, t)
  /\ lan[t].listed <=> lan[t].requests # {}
  /\ lan[t].mapped <=> lan[t].listed

(* A copier works on one of its requests at a time and reports it once; it   *)
(* is not clogged while it works, nor when the work queue starts it.        *)
OneAtATime(t) ==
  /\ \A h \in Handle : LanOut(h, t) => lan[t].busy /\ h \in lan[t].requests
  /\ lan[t].busy => lan[t].requests # {}
  /\ lan[t].busy \/ worker.pc = "emailing" => ~lan[t].clogged
  /\ lanJob[t].handle # NoHandle => ~ToLan(channel.lan, t) /\ ~ToLan(worker.lan, t)
  /\ ~(ToLan(channel.lan, t) /\ ToLan(worker.lan, t))

(* Nothing in progress lost its file, so the work queue never dies.          *)
Present ==
  /\ \A s \in Script : handle[s] # NoHandle => s \in inbox
  /\ worker.pc # "dead"

LanInv ==
  /\ Present
  /\ \A t \in Lan : Requested(t) /\ OneAtATime(t)
  /\ OneTo(channel.lan) /\ OneTo(worker.lan)

(* What is to be mailed waits in the copier's list, or will be put there.    *)
MailWaits(s) ==
  handle[s] # NoHandle /\ Pending(ticket[s], Email) =>
    \/ mail.running /\ handle[s] \in mail.requests
    \/ worker.pc = "emailing" /\ s \in worker.new

(* StartCopying finds no new script that was tried, and an answer agrees     *)
(* with itself.                                                             *)
MailInv ==
  /\ worker.pc # "crashed" => \A s \in Script : MailWaits(s)
  /\ worker.pc = "emailing" => \A s \in worker.new : ticket[s].req[Email] # "tried"
  /\ \A m \in channel.mail \cup worker.mail : m.first \subseteq m.ok /\ m.ok \subseteq m.batch

(* A copy to a folder is marked, or the copier's answer about it is still    *)
(* to be handled: then the script waits, and was not copied before.         *)
LanCopies ==
  \A s \in Script, t \in Lan :
    /\ copies[s][t] < 2
    /\ copies[s][t] > 0 => t \in stamped[s] \/ (handle[s] # NoHandle /\ LanSent(handle[s], t))

-----------------------------------------------------------------------------
(* Batches of mail that fail as a whole or not at all                       *)

Batches == channel.mail \cup worker.mail
MailJobs == mailJob.posted \cup mailJob.mailing

(* All of a batch was sent, or nothing.                                     *)
Whole(m) ==
  /\ m.batch # {}
  /\ \/ m.general /\ m.ok = {} /\ m.first = {}
     \/ ~m.general /\ m.ok = m.batch /\ m.first = m.batch

(* The copier's thread was given h, or its answer was not handled yet.       *)
MailOut(h) == (\E j \in MailJobs : j.handle = h) \/ \E m \in Batches : h \in m.batch

(* The mail copier's thread has one batch at a time, or its answer waits;    *)
(* the copier is busy meanwhile, and not clogged when it starts.            *)
OneBatch ==
  /\ mailJob.posted # {} => mailJob.mailing = {} /\ Batches = {}
  /\ mailJob.mailing # {} => Batches = {}
  /\ channel.mail # {} => worker.mail = {}
  /\ \A m, n \in Batches : m = n
  /\ mailJob.posted # {} \/ mailJob.mailing # {} \/ Batches # {} => mail.busy
  /\ mail.busy \/ worker.pc = "emailing" => ~mail.clogged
  /\ worker.pc \in {"waiting", "receiving", "emailing"} => worker.mail = {}
  /\ mailJob.threw => mail.busy /\ MailJobs = {} /\ Batches = {}

MailAsked ==
  /\ \A h \in mail.requests : Asked(h, Email)
  /\ \A h \in Handle : MailOut(h) => h \in mail.requests

(* The thread gave up, maybe after it mailed s: the copier, taken for busy,  *)
(* is never given s again.                                                  *)
MailLost(s) == mailJob.threw /\ Pending(ticket[s], Email)

(* As LanCopies.                                                            *)
MailCopies ==
  \A s \in Script :
    /\ copies[s][Email] < 2
    /\ copies[s][Email] > 0 =>
         Email \in stamped[s] \/ (handle[s] # NoHandle /\ (MailSent(handle[s]) \/ MailLost(s)))

(* With whole batches no ticket ever gets an error, so no script is finished *)
(* before it was mailed, and listed and mailed again.                       *)
BatchInv ==
  /\ \A s \in Script : ~ticket[s].error
  /\ \A m \in Batches : Whole(m)
  /\ OneBatch /\ MailAsked /\ MailCopies
-----------------------------------------------------------------------------
LEMMA QueueOf ==
  ASSUME NEW q \in Seq(LanAnswer), NEW m \in LanAnswer, OneTo(q), ~ToLan(q, m.to)
  PROVE  /\ OneTo(Append(q, m))
         /\ \A t : ToLan(Append(q, m), t) <=> ToLan(q, t) \/ m.to = t
<1>1. Len(Append(q, m)) = Len(q) + 1 /\ Append(q, m)[Len(q) + 1] = m
  OBVIOUS
<1>2. \A i \in 1 .. Len(q) : Append(q, m)[i] = q[i]
  OBVIOUS
<1>3. DOMAIN q = 1 .. Len(q) /\ DOMAIN Append(q, m) = 1 .. Len(q) + 1 /\ Len(q) \in Nat
  OBVIOUS
<1>4. \A i \in DOMAIN Append(q, m) : (i \in DOMAIN q /\ Append(q, m)[i] = q[i])
                                    \/ (i = Len(q) + 1 /\ Append(q, m)[i] = m)
  BY <1>1, <1>2, <1>3
<1>5. \A i \in DOMAIN q : i \in DOMAIN Append(q, m) /\ Append(q, m)[i] = q[i]
  BY <1>2, <1>3
<1>6. Len(q) + 1 \in DOMAIN Append(q, m)
  BY <1>3
<1>7. ASSUME NEW i \in DOMAIN Append(q, m), NEW j \in DOMAIN Append(q, m),
             Append(q, m)[i].to = Append(q, m)[j].to
      PROVE  i = j
  BY <1>4, <1>7 DEF OneTo, ToLan
<1>8. ASSUME NEW t PROVE ToLan(Append(q, m), t) <=> ToLan(q, t) \/ m.to = t
  BY <1>1, <1>4, <1>5, <1>6 DEF ToLan
<1> QED  BY <1>7, <1>8 DEF OneTo

LEMMA QueueRest ==
  ASSUME NEW q \in Seq(LanAnswer), q # <<>>, OneTo(q)
  PROVE  /\ OneTo(Tail(q)) /\ ~ToLan(Tail(q), Head(q).to) /\ ToLan(q, Head(q).to)
         /\ \A t : ToLan(Tail(q), t) => ToLan(q, t)
         /\ \A h, t : Answers(q, h, t) => Answers(Tail(q), h, t) \/ (h = Head(q).handle /\ t = Head(q).to)
         /\ \A h, t : Oks(q, h, t) =>
                  Oks(Tail(q), h, t) \/ (h = Head(q).handle /\ t = Head(q).to /\ Head(q).ok)
<1>1. /\ Head(q) \in LanAnswer /\ Head(q) = q[1]
      /\ Len(q) \in Nat \ {0} /\ DOMAIN q = 1 .. Len(q) /\ DOMAIN Tail(q) = 1 .. Len(q) - 1
      /\ \A i \in 1 .. Len(q) - 1 : Tail(q)[i] = q[i + 1]
  OBVIOUS
<1>2. \A i \in DOMAIN Tail(q) : i \in Int /\ i + 1 # 1 /\ i + 1 \in DOMAIN q /\ Tail(q)[i] = q[i + 1]
  BY <1>1
<1>3. \A i \in DOMAIN q : i = 1 \/ (i - 1 \in DOMAIN Tail(q) /\ Tail(q)[i - 1] = q[i])
  <2> SUFFICES ASSUME NEW i \in DOMAIN q, i # 1
               PROVE  i - 1 \in DOMAIN Tail(q) /\ Tail(q)[i - 1] = q[i]
    OBVIOUS
  <2>1. i \in Int /\ i - 1 \in 1 .. Len(q) - 1 /\ (i - 1) + 1 = i
    BY <1>1
  <2> QED  BY <1>1, <2>1
<1>4. 1 \in DOMAIN q
  BY <1>1
<1>5. ASSUME NEW i \in DOMAIN Tail(q), NEW j \in DOMAIN Tail(q), Tail(q)[i].to = Tail(q)[j].to
      PROVE  i = j
  <2>1. i + 1 = j + 1
    BY <1>2, <1>5 DEF OneTo
  <2> QED  BY <1>2, <2>1
<1>6. ~ToLan(Tail(q), Head(q).to)
  BY <1>1, <1>2, <1>4 DEF ToLan, OneTo
<1>7. ASSUME NEW t PROVE ToLan(Tail(q), t) => ToLan(q, t)
  BY <1>2 DEF ToLan
<1>8. ASSUME NEW h, NEW t
      PROVE  /\ Answers(q, h, t) => Answers(Tail(q), h, t) \/ (h = Head(q).handle /\ t = Head(q).to)
             /\ Oks(q, h, t) =>
                  Oks(Tail(q), h, t) \/ (h = Head(q).handle /\ t = Head(q).to /\ Head(q).ok)
  <2>1. Head(q) = q[1]
    BY <1>1
  <2>2. ASSUME Answers(q, h, t) PROVE Answers(Tail(q), h, t) \/ (h = Head(q).handle /\ t = Head(q).to)
    BY <1>3, <2>1, <2>2, Zenon DEF Answers
  <2>3. ASSUME Oks(q, h, t)
        PROVE  Oks(Tail(q), h, t) \/ (h = Head(q).handle /\ t = Head(q).to /\ Head(q).ok)
    BY <1>3, <2>1, <2>3, Zenon DEF Oks
  <2> QED  BY <2>2, <2>3
<1> QED  BY <1>1, <1>4, <1>5, <1>6, <1>7, <1>8 DEF OneTo, ToLan

LEMMA AnswersToLan ==
  ASSUME NEW q \in Seq(LanAnswer), NEW t
  PROVE  /\ \A h : Answers(q, h, t) => ToLan(q, t)
         /\ ToLan(q, t) => \E h \in Handle : Answers(q, h, t)
<1>1. \A i \in DOMAIN q : q[i].handle \in Handle
  <2>1. \A i \in DOMAIN q : q[i] \in LanAnswer
    OBVIOUS
  <2> QED  BY <2>1 DEF LanAnswer
<1> QED  BY <1>1 DEF Answers, ToLan

LEMMA LanSame ==
  ASSUME LanInv, UNCHANGED <<handle, ticket, lan, lanJob, channel.lan, worker.lan>>,
         worker'.pc # "dead", worker'.pc = "emailing" => worker.pc = "emailing",
         \A s \in Script : s \in inbox /\ handle[s] # NoHandle => s \in inbox'
  PROVE  LanInv'
<1>1. Present'
  BY DEF LanInv, Present
<1>2. \A t \in Lan, h \in Handle : (LanOut(h, t)' <=> LanOut(h, t)) /\ (Asked(h, t)' <=> Asked(h, t))
  BY DEF LanOut, Answers, Asked
<1>3. \A t \in Lan : (ToLan(channel.lan, t)' <=> ToLan(channel.lan, t)) /\ (ToLan(worker.lan, t)' <=> ToLan(worker.lan, t))
  BY DEF ToLan
<1>4. ASSUME NEW t \in Lan PROVE Requested(t)'
  BY <1>2 DEF LanInv, Requested
<1>5. ASSUME NEW t \in Lan PROVE OneAtATime(t)'
  BY <1>2, <1>3 DEF LanInv, OneAtATime
<1>6. OneTo(channel.lan)' /\ OneTo(worker.lan)'
  BY DEF LanInv, OneTo
<1> QED  BY <1>1, <1>4, <1>5, <1>6 DEF LanInv

(* The main thread deletes no file of a script in progress.                  *)
LEMMA InboxKept ==
  ASSUME Types, IInv, AllMarked, ProcessInbox \/ OnFinishScripts,
         NEW s \in Script, s \in inbox, handle[s] # NoHandle
  PROVE  s \in inbox'
<1>1. CASE ProcessInbox
  <2>1. s \in known
    BY <1>1 DEF ProcessInbox, IInv, Listed, KnownAgrees
  <2> QED  BY <1>1, <2>1 DEF ProcessInbox
<1>2. CASE OnFinishScripts
  <2> DEFINE marked == {x \in {f.script : f \in finished} : Route[x] \subseteq stamped[x]}
             unmarked == {f.script : f \in {g \in finished : g.delivered}} \ marked
  <2>1. ~(Route[s] \subseteq stamped[s])
    BY DEF IInv, InProgress
  <2>2. s \notin marked /\ s \notin unmarked
    BY <2>1 DEF AllMarked
  <2>3. PICK deleted \in SUBSET unmarked : inbox' = inbox \ (marked \cup deleted)
    BY <1>2 DEF OnFinishScripts
  <2> HIDE DEF marked, unmarked
  <2> QED  BY <2>2, <2>3
<1> QED  BY <1>1, <1>2

LEMMA LanMain ==
  ASSUME Types, IInv, AllMarked, BusyInv, LanInv,
         \/ ProcessInbox \/ OnFinishScripts \/ StateCleared
         \/ MailStart \/ MailBlacklisted \/ MailDone \/ MailThrows
  PROVE  LanInv'
<1>1. channel \in ChannelType
  BY DEF Types, ThreadTypes
<1>2. UNCHANGED <<handle, ticket, lan, lanJob, worker, channel.lan>>
  BY <1>1 DEF ProcessInbox, OnFinishScripts, StateCleared, MailStart, MailBlacklisted, MailDone, MailThrows,
              PutMail, ChannelType, tickets, copiers
<1>3. worker.pc # "dead"
  BY DEF LanInv, Present
<1>4. \A s \in Script : s \in inbox /\ handle[s] # NoHandle => s \in inbox'
  <2>1. CASE ProcessInbox \/ OnFinishScripts
    BY <2>1, InboxKept
  <2>2. CASE StateCleared \/ MailStart \/ MailBlacklisted \/ MailDone \/ MailThrows
    BY <2>2 DEF StateCleared, MailStart, MailBlacklisted, MailDone, MailThrows, shared
  <2> QED  BY <2>1, <2>2
<1> QED  BY <1>2, <1>3, <1>4, LanSame

LEMMA LanWaiting ==
  ASSUME Types, BusyInv, LanInv, Wake \/ Receive \/ GoWaiting
  PROVE  LanInv'
<1>1. channel \in ChannelType /\ worker \in WorkerType
  BY DEF Types, ThreadTypes
<1>2. CASE Wake \/ GoWaiting
  <2>1. UNCHANGED <<handle, ticket, lan, lanJob, channel.lan, worker.lan, inbox>>
        /\ worker'.pc \in {"receiving", "waiting"}
    BY <1>1, <1>2 DEF Wake, GoWaiting, ChannelType, WorkerType, tickets, copiers, shared
  <2> QED  BY <2>1, LanSame
<1>3. CASE Receive
  <2>1. UNCHANGED <<handle, ticket, lan, lanJob, inbox>> /\ worker.lan = <<>>
        /\ worker'.pc = "handling" /\ channel'.lan = <<>> /\ worker'.lan = channel.lan
    BY <1>1, <1>3 DEF Receive, ChannelType, WorkerType, tickets, copiers, shared, BusyInv, Undisturbed
  <2>2. \A h, t : ~Answers(<<>>, h, t) /\ ~ToLan(<<>>, t)
    BY DEF Answers, ToLan
  <2>3. \A t \in Lan, h \in Handle : (LanOut(h, t)' <=> LanOut(h, t)) /\ (Asked(h, t)' <=> Asked(h, t))
    BY <2>1, <2>2 DEF LanOut, Asked
  <2>4. Present'
    BY <2>1 DEF LanInv, Present
  <2>5. ASSUME NEW t \in Lan PROVE Requested(t)'
    BY <2>1, <2>3 DEF LanInv, Requested
  <2>6. ASSUME NEW t \in Lan PROVE OneAtATime(t)'
    BY <2>1, <2>2, <2>3 DEF LanInv, OneAtATime
  <2>7. OneTo(channel.lan)' /\ OneTo(worker.lan)'
    BY <2>1 DEF LanInv, OneTo
  <2> QED  BY <2>4, <2>5, <2>6, <2>7 DEF LanInv
<1> QED  BY <1>2, <1>3

LEMMA LanReports ==
  ASSUME Types, BusyInv, LanInv, NEW t \in Lan, LanCopy(t)
  PROVE  LanInv'
<1>1. PICK ok \in BOOLEAN :
        channel' = [channel EXCEPT !.event = TRUE,
           !.lan = Append(@, [to |-> t, handle |-> lanJob[t].handle, ok |-> ok])]
  BY DEF LanCopy
<1> DEFINE m == [to |-> t, handle |-> lanJob[t].handle, ok |-> ok]
<1>2. m \in LanAnswer /\ m.to = t /\ m.handle = lanJob[t].handle /\ m.handle # NoHandle
  BY Constants DEF LanCopy, LanAnswer, Types, CopierTypes, JobType
<1>3. channel.lan \in Seq(LanAnswer) /\ channel'.lan = Append(channel.lan, m)
  BY <1>1 DEF Types, ThreadTypes, ChannelType
<1> HIDE DEF m
<1>4. UNCHANGED <<worker, lan, inbox, handle, ticket>>
      /\ \A u \in Lan : IF u = t THEN lanJob'[u].handle = NoHandle ELSE lanJob'[u] = lanJob[u]
  BY Constants DEF LanCopy, Types, CopierTypes, shared, tickets
<1>5. ~ToLan(channel.lan, t) /\ ~ToLan(worker.lan, t)
  BY <1>2 DEF LanInv, OneAtATime
<1>6. /\ OneTo(channel'.lan)
      /\ \A u : ToLan(channel'.lan, u) <=> ToLan(channel.lan, u) \/ t = u
  BY <1>2, <1>3, <1>5, QueueOf DEF LanInv
<1>7. \A h, u : Answers(channel'.lan, h, u) <=> Answers(channel.lan, h, u) \/ (lanJob[t].handle = h /\ t = u)
  BY <1>2, <1>3, AnswersOf
<1>8. ASSUME NEW u \in Lan, NEW h \in Handle PROVE (LanOut(h, u)' <=> LanOut(h, u)) /\ (Asked(h, u)' <=> Asked(h, u))
  <2>1. h # NoHandle
    BY Constants
  <2> QED  BY <1>4, <1>7, <2>1 DEF LanOut, Asked
<1>9. Present'
  BY <1>4 DEF LanInv, Present
<1>10. ASSUME NEW u \in Lan PROVE Requested(u)'
  BY <1>4, <1>8 DEF LanInv, Requested
<1>11. ASSUME NEW u \in Lan PROVE OneAtATime(u)'
  BY <1>4, <1>5, <1>6, <1>8 DEF LanInv, OneAtATime
<1>12. OneTo(worker.lan)'
  BY <1>4 DEF LanInv
<1> QED  BY <1>6, <1>9, <1>10, <1>11, <1>12 DEF LanInv

LEMMA LanGivesUp ==
  ASSUME Types, LanInv, NEW t \in Lan, LanThrows(t)
  PROVE  LanInv'
<1>1. UNCHANGED <<worker, lan, inbox, handle, ticket, channel>>
  BY DEF LanThrows, shared, tickets
<1>2. \A u \in Lan : lanJob'[u] = lanJob[u] \/ lanJob'[u].handle = NoHandle
  BY Constants DEF LanThrows, Types, CopierTypes
<1>3. ASSUME NEW u \in Lan, NEW h \in Handle PROVE (LanOut(h, u)' => LanOut(h, u)) /\ (Asked(h, u)' <=> Asked(h, u))
  <2>1. h # NoHandle
    BY Constants
  <2> QED  BY <1>1, <1>2, <2>1 DEF LanOut, Asked
<1>4. Present'
  BY <1>1 DEF LanInv, Present
<1>5. ASSUME NEW u \in Lan PROVE Requested(u)'
  BY <1>1, <1>3 DEF LanInv, Requested
<1>6. ASSUME NEW u \in Lan PROVE OneAtATime(u)'
  BY <1>1, <1>2, <1>3 DEF LanInv, OneAtATime
<1>7. OneTo(channel.lan)' /\ OneTo(worker.lan)'
  BY <1>1 DEF LanInv
<1> QED  BY <1>4, <1>5, <1>6, <1>7 DEF LanInv

LEMMA FinishedNone ==
  ASSUME NEW k, IsFinished(k)
  PROVE  /\ \A t \in Lan : ~Pending(k, t)
         /\ ~k.error => \A t \in Transport : ~Pending(k, t)
BY DEF IsFinished, AreRequestsPending, AreForwardRequestsPending, Pending, Transport

LEMMA SettledAsked ==
  ASSUME NEW new, NEW P, NEW F, SettleTickets(new, P, F), NEW t \in Transport,
         \A s \in F : ~Pending(new[s], t), NEW h \in Handle
  PROVE  Asked(h, t)' <=> \E s \in Script : handle[s] = h /\ Pending(new[s], t)
<1>1. \A s \in Script : /\ handle'[s] = IF s \in F THEN NoHandle ELSE handle[s]
                        /\ ticket'[s] = IF s \in F THEN NoTicket ELSE new[s]
  BY DEF SettleTickets
<1>2. h # NoHandle
  BY Constants
<1>3. \A s \in Script : handle'[s] = h /\ Pending(ticket'[s], t) <=> handle[s] = h /\ Pending(new[s], t)
  BY <1>1, <1>2
<1> QED  BY <1>3 DEF Asked

LEMMA SettledPresent ==
  ASSUME Present, NEW new, NEW P, NEW F, SettleTickets(new, P, F), worker'.pc # "dead"
  PROVE  Present'
BY DEF Present, SettleTickets

(* The answer m is about a script in progress, which waits for it.           *)
Answered(m, s) ==
  /\ s \in Script /\ handle[s] = m.handle /\ Live(m.handle) /\ ScriptOf(m.handle) = s
  /\ Pending(ticket[s], m.to)
  /\ lan[m.to].busy /\ ~lan[m.to].clogged /\ m.handle \in lan[m.to].requests

LEMMA LanAnswered ==
  ASSUME Types, IInv, BusyInv, LanInv, NEW m \in LanAnswer, Answers(worker.lan, m.handle, m.to)
  PROVE  \E s \in Script : Answered(m, s)
<1>1. m.to \in Lan /\ m.handle \in Handle
  BY DEF LanAnswer
<1>2. LanOut(m.handle, m.to)
  BY DEF LanOut
<1>3. Requested(m.to) /\ OneAtATime(m.to)
  BY <1>1 DEF LanInv
<1>4. lan[m.to].busy /\ m.handle \in lan[m.to].requests /\ ~lan[m.to].clogged
  BY <1>1, <1>2, <1>3 DEF OneAtATime
<1>5. PICK s \in Script : handle[s] = m.handle /\ Pending(ticket[s], m.to)
  BY <1>1, <1>3, <1>4 DEF Requested, Asked
<1>6. Live(m.handle) /\ handle[s] # NoHandle
  BY <1>1, <1>5, Constants DEF Live
<1>7. ScriptOf(m.handle) \in Script /\ handle[ScriptOf(m.handle)] = m.handle
  BY <1>6 DEF Live, ScriptOf
<1>8. ScriptOf(m.handle) = s
  BY <1>5, <1>6, <1>7 DEF IInv, Numbered
<1> QED  BY <1>4, <1>5, <1>6, <1>8 DEF Answered

LEMMA LanTicketOf ==
  ASSUME Types, NEW m \in LanAnswer, NEW s, Answered(m, s)
  PROVE  /\ \A x \in Script, t \in Transport : LanTickets(m)[x].req[t] =
               IF x # s \/ t # m.to THEN ticket[x].req[t]
               ELSE IF m.ok THEN "delivered" ELSE "tried"
         /\ \A x \in Script : LanTickets(m)[x].error = ticket[x].error
         /\ \A x \in LanFinished(m) : x = s /\ m.ok /\ IsFinished(LanTickets(m)[s])
<1>1. m.to \in Lan /\ m.to \in Transport /\ m.ok \in BOOLEAN /\ s \in Script /\ ScriptOf(m.handle) = s
      /\ ticket \in [Script -> TicketType] /\ ticket[s].req[m.to] # "delivered"
  BY Constants DEF LanAnswer, Answered, Types, TicketTypes, Pending
<1>2. LanTicket(m) = MarkDone(ticket[s], m.to, m.ok)
  BY <1>1 DEF LanTicket
<1>3. LanTickets(m) = [ticket EXCEPT ![s] = LanTicket(m)]
  BY <1>1 DEF LanTickets
<1>4. /\ LanTicket(m).error = ticket[s].error
      /\ \A t \in Transport : LanTicket(m).req[t] =
            IF t # m.to THEN ticket[s].req[t] ELSE IF m.ok THEN "delivered" ELSE "tried"
  BY <1>1, <1>2, MarkDoneTicket
<1>5. \A x \in Script : LanTickets(m)[x] = IF x = s THEN LanTicket(m) ELSE ticket[x]
  BY <1>1, <1>3
<1>6. \A x \in LanFinished(m) : x = s /\ m.ok /\ IsFinished(LanTicket(m))
  BY <1>1 DEF LanFinished
<1> QED  BY <1>1, <1>4, <1>5, <1>6

(* What the copier of m.to does next.                                       *)
LanSettled(m) ==
  /\ \A t \in Lan \ {m.to} : lan'[t] = lan[t] /\ lanJob'[t] = lanJob[t]
  /\ lan'[m.to].requests = IF m.ok THEN lan[m.to].requests \ {m.handle} ELSE lan[m.to].requests
  /\ lan'[m.to].listed <=> lan'[m.to].requests # {}
  /\ lan'[m.to].mapped <=> lan'[m.to].listed
  /\ \/ ~lan'[m.to].busy /\ lanJob'[m.to].handle = NoHandle
     \/ lan'[m.to].busy /\ ~lan'[m.to].clogged /\ lanJob'[m.to].handle \in lan'[m.to].requests

LEMMA LanDone ==
  ASSUME Types, IInv, BusyInv, LanInv, OnLanCopyDone
  PROVE  \E m \in LanAnswer, s \in Script :
           /\ worker.lan \in Seq(LanAnswer) /\ worker.lan # <<>> /\ m = Head(worker.lan)
           /\ Answered(m, s)
           /\ SettleTickets(LanTickets(m), LanMarked(m), LanFinished(m))
           /\ worker.pc = "handling" /\ worker' = [worker EXCEPT !.lan = Tail(@)]
           /\ UNCHANGED <<main, channel, copies, budget, mail, mailJob>>
           /\ \A t \in Lan, h \in Handle :
                Asked(h, t)' <=> Asked(h, t) /\ ~(h = m.handle /\ t = m.to /\ m.ok)
           /\ LanSettled(m)
<1> DEFINE m == Head(worker.lan)
<1>1. /\ worker.lan \in Seq(LanAnswer) /\ worker.lan # <<>> /\ m \in LanAnswer /\ worker.pc = "handling"
      /\ UNCHANGED <<main, channel, copies, budget>>
  BY DEF OnLanCopyDone, Types, ThreadTypes, WorkerType
<1>2. m.to \in Lan /\ m.handle \in Handle /\ m.ok \in BOOLEAN /\ m.handle # NoHandle
  <2> HIDE DEF m
  <2> QED  BY <1>1, Constants DEF LanAnswer
<1>3. Answers(worker.lan, m.handle, m.to)
  BY <1>1, AnswersRest
<1>4. PICK s \in Script : Answered(m, s)
  BY <1>1, <1>3, LanAnswered
<1> DEFINE c == LanRequestDone(lan[m.to], m.handle, m.ok)
<1>5. /\ SettleTickets(LanTickets(m), LanMarked(m), LanFinished(m))
      /\ IF c.clogged
         THEN /\ lan' = [lan EXCEPT ![m.to] = c]
              /\ worker' = [worker EXCEPT !.lan = Tail(@)]
              /\ UNCHANGED <<lanJob, mail, mailJob>>
         ELSE CopyNextScript(m.to, c)
  BY <1>4 DEF OnLanCopyDone, LanTickets, LanMarked, LanFinished, LanTicket, Answered
<1>6. /\ lan \in [Lan -> Copier] /\ lanJob \in [Lan -> JobType] /\ lan[m.to] \in Copier
      /\ ~lan[m.to].clogged /\ m.handle \in lan[m.to].requests
      /\ lan[m.to].listed /\ lan[m.to].mapped
  BY <1>2, <1>4 DEF Types, CopierTypes, Answered, LanInv, Requested
<1>7. lanJob[m.to].handle = NoHandle
  <2>1. ToLan(worker.lan, m.to)
    BY <1>1, <1>3, AnswersToLan
  <2> QED  BY <1>2, <2>1 DEF LanInv, OneAtATime
<1> HIDE DEF m
<1>8. /\ c.clogged = ~m.ok /\ ~c.busy /\ c.listed /\ c.mapped /\ c \in Copier
      /\ c.requests = IF m.ok THEN lan[m.to].requests \ {m.handle} ELSE lan[m.to].requests
  BY <1>2, <1>6 DEF c, LanRequestDone, Copier
<1> HIDE DEF c
<1>9. ASSUME NEW t \in Lan, NEW h \in Handle
      PROVE  Asked(h, t)' <=> Asked(h, t) /\ ~(h = m.handle /\ t = m.to /\ m.ok)
  <2>1. /\ \A x \in Script, u \in Transport : LanTickets(m)[x].req[u] =
              IF x # s \/ u # m.to THEN ticket[x].req[u] ELSE IF m.ok THEN "delivered" ELSE "tried"
        /\ \A x \in LanFinished(m) : x = s /\ m.ok /\ IsFinished(LanTickets(m)[s])
    BY <1>1, <1>4, LanTicketOf
  <2>2. t \in Transport
    BY Constants
  <2>3. \A x \in LanFinished(m) : ~Pending(LanTickets(m)[x], t)
    BY <2>1, FinishedNone
  <2>4. Asked(h, t)' <=> \E x \in Script : handle[x] = h /\ Pending(LanTickets(m)[x], t)
    BY <1>5, <2>2, <2>3, SettledAsked
  <2>5. handle[s] = m.handle /\ Pending(ticket[s], m.to)
    BY <1>4 DEF Answered
  <2>6. \A x \in Script : Pending(LanTickets(m)[x], t) <=> Pending(ticket[x], t) /\ ~(x = s /\ t = m.to /\ m.ok)
    BY <1>2, <2>1, <2>2, <2>5 DEF Pending
  <2>7. \A x \in Script : handle[x] = h => (x = s <=> h = m.handle)
    BY <1>2, <2>5 DEF IInv, Numbered
  <2> QED  BY <2>4, <2>6, <2>7 DEF Asked
<1>10. worker' = [worker EXCEPT !.lan = Tail(@)] /\ UNCHANGED <<mail, mailJob>> /\ LanSettled(m)
  <2>1. CASE c.clogged
    <3>1. /\ lan' = [lan EXCEPT ![m.to] = c] /\ UNCHANGED <<lanJob, mail, mailJob>>
          /\ worker' = [worker EXCEPT !.lan = Tail(@)]
      BY <1>5, <2>1
    <3>2. lan'[m.to] = c /\ \A t \in Lan \ {m.to} : lan'[t] = lan[t]
      BY <1>2, <1>6, <3>1
    <3>3. c.requests # {}
      BY <1>6, <1>8, <2>1
    <3> QED  BY <1>7, <1>8, <3>1, <3>2, <3>3 DEF LanSettled
  <2>2. CASE ~c.clogged
    <3>1. CopyNextScript(m.to, c) /\ m.ok
      BY <1>2, <1>5, <1>8, <2>2
    <3>2. LiveRequests(c) = c.requests
      <4>1. ASSUME NEW h \in c.requests PROVE \E x \in Script : handle'[x] = h
        <5>1. h \in Handle /\ h \in lan[m.to].requests /\ h # m.handle
          BY <1>6, <1>8, <3>1 DEF Copier
        <5>4. PICK t \in Lan : t = m.to
          BY <1>2
        <5>2. Asked(h, t)
          BY <5>1, <5>4 DEF LanInv, Requested
        <5>3. Asked(h, t)'
          BY <1>9, <5>1, <5>2
        <5> QED  BY <5>3 DEF Asked
      <4> QED  BY <4>1 DEF LiveRequests
    <3>3. CASE c.requests = {} /\ lan' = [lan EXCEPT ![m.to] = Removed(c)]
               /\ worker' = [worker EXCEPT !.lan = Tail(@)] /\ UNCHANGED <<lanJob, mail, mailJob>>
      <4>1. lan'[m.to] = NoCopier /\ \A t \in Lan \ {m.to} : lan'[t] = lan[t]
        BY <1>2, <1>6, <3>3 DEF Removed
      <4>2. ~NoCopier.listed /\ ~NoCopier.mapped /\ ~NoCopier.busy /\ NoCopier.requests = {}
        BY DEF NoCopier
      <4> QED  BY <1>7, <1>8, <3>1, <3>3, <4>1, <4>2 DEF LanSettled
    <3>4. CASE /\ \E h \in LiveRequests(c) :
                     /\ lan' = [lan EXCEPT ![m.to] = [c EXCEPT !.busy = TRUE]]
                     /\ lanJob' = [lanJob EXCEPT ![m.to] = Job(h)]
               /\ worker' = [worker EXCEPT !.lan = Tail(@)] /\ UNCHANGED <<mail, mailJob>>
      <4>1. PICK h \in LiveRequests(c) :
                     /\ lan' = [lan EXCEPT ![m.to] = [c EXCEPT !.busy = TRUE]]
                     /\ lanJob' = [lanJob EXCEPT ![m.to] = Job(h)]
        BY <3>4
      <4>2. h \in c.requests /\ h \in Handle /\ \E x \in Script : handle'[x] = h
        BY <1>8, LiveOf DEF Copier
      <4>3. Job(h).handle = h
        BY <4>2, JobOf
      <4>4. lanJob'[m.to].handle = h /\ lan'[m.to] = [c EXCEPT !.busy = TRUE]
            /\ \A t \in Lan \ {m.to} : lan'[t] = lan[t] /\ lanJob'[t] = lanJob[t]
        BY <1>2, <1>6, <4>1, <4>3
      <4>5. lan'[m.to].busy /\ lan'[m.to].listed /\ lan'[m.to].mapped /\ ~lan'[m.to].clogged
            /\ lan'[m.to].requests = c.requests
        BY <1>8, <2>2, <4>4 DEF Copier
      <4> QED  BY <1>8, <3>4, <4>2, <4>4, <4>5 DEF LanSettled
    <3> QED  BY <3>1, <3>2, <3>3, <3>4 DEF CopyNextScript
  <2> QED  BY <2>1, <2>2
<1> QED  BY <1>1, <1>4, <1>5, <1>9, <1>10 DEF m

LEMMA LanOnLan ==
  ASSUME Types, IInv, BusyInv, LanInv, OnLanCopyDone
  PROVE  LanInv'
<1>1. PICK m \in LanAnswer, s \in Script :
           /\ worker.lan \in Seq(LanAnswer) /\ worker.lan # <<>> /\ m = Head(worker.lan)
           /\ Answered(m, s)
           /\ SettleTickets(LanTickets(m), LanMarked(m), LanFinished(m))
           /\ worker.pc = "handling" /\ worker' = [worker EXCEPT !.lan = Tail(@)]
           /\ UNCHANGED <<main, channel, copies, budget, mail, mailJob>>
           /\ \A t \in Lan, h \in Handle :
                Asked(h, t)' <=> Asked(h, t) /\ ~(h = m.handle /\ t = m.to /\ m.ok)
           /\ LanSettled(m)
  BY LanDone
<1>2. worker \in WorkerType /\ worker'.pc = "handling" /\ worker'.lan = Tail(worker.lan)
  BY <1>1 DEF Types, ThreadTypes, WorkerType
<1>3. /\ OneTo(worker'.lan) /\ ~ToLan(worker'.lan, m.to) /\ ToLan(worker.lan, m.to)
      /\ \A t : ToLan(worker'.lan, t) => ToLan(worker.lan, t)
      /\ \A h, t : Answers(worker'.lan, h, t) => Answers(worker.lan, h, t)
  BY <1>1, <1>2, QueueRest, AnswersRest DEF LanInv
<1>4. m.to \in Lan /\ m.handle \in Handle
  BY DEF LanAnswer
<1>5. ~ToLan(channel.lan, m.to) /\ \A h : ~Answers(channel.lan, h, m.to) /\ ~Answers(worker'.lan, h, m.to)
  BY <1>3, <1>4 DEF LanInv, OneAtATime, ToLan, Answers
<1>6. Present'
  BY <1>1, <1>2, SettledPresent DEF LanInv
<1>7. ASSUME NEW t \in Lan PROVE Requested(t)'
  <2>1. CASE t = m.to
    BY <1>1, <1>4, <2>1 DEF LanInv, Requested, LanSettled
  <2>2. CASE t # m.to
    BY <1>1, <2>2 DEF LanInv, Requested, LanSettled
  <2> QED  BY <2>1, <2>2
<1>8. ASSUME NEW t \in Lan PROVE OneAtATime(t)'
  <2>1. CASE t = m.to
    <3>1. \A h \in Handle : LanOut(h, t)' <=> lanJob'[t].handle = h
      BY <1>1, <1>5, <2>1 DEF LanOut
    <3>2. \A h \in Handle : h # NoHandle
      BY Constants
    <3>3. \A h \in Handle : LanOut(h, t)' => lan'[t].busy /\ h \in lan'[t].requests
      BY <1>1, <2>1, <3>1, <3>2 DEF LanSettled
    <3>4. lan'[t].busy => ~lan'[t].clogged
      BY <1>1, <2>1 DEF LanSettled
    <3>5. ~ToLan(channel'.lan, t) /\ ~ToLan(worker'.lan, t)
      BY <1>1, <1>3, <1>5, <2>1
    <3>6. lan'[t].busy => lan'[t].requests # {}
      BY <1>1, <2>1 DEF LanSettled
    <3> QED  BY <1>2, <3>3, <3>4, <3>5, <3>6 DEF OneAtATime
  <2>2. CASE t # m.to
    <3>1. lan'[t] = lan[t] /\ lanJob'[t] = lanJob[t] /\ channel'.lan = channel.lan
      BY <1>1, <2>2 DEF LanSettled
    <3>2. \A h \in Handle : LanOut(h, t)' => LanOut(h, t)
      BY <1>3, <3>1 DEF LanOut
    <3>3. OneAtATime(t)
      BY DEF LanInv
    <3> QED  BY <1>2, <1>3, <3>1, <3>2, <3>3 DEF OneAtATime
  <2> QED  BY <2>1, <2>2
<1>9. OneTo(channel.lan)'
  BY <1>1 DEF LanInv
<1> QED  BY <1>3, <1>6, <1>7, <1>8, <1>9 DEF LanInv

LEMMA LanOnMail ==
  ASSUME Types, IInv, BusyInv, LanInv, OnEmailCopyDone
  PROVE  LanInv'
<1>1. PICK m \in worker.mail :
           /\ worker.pc = "handling" /\ worker.lan = <<>>
           /\ SettleTickets(MailTickets(m), MailSettled(m), MailFinished(m))
           /\ MailGoesOn(MailRequestsDone(m))
           /\ UNCHANGED <<main, channel, lan, lanJob, copies, budget>>
  BY OnMail
<1>2. worker \in WorkerType /\ m \in MailAnswer
  BY DEF Types, ThreadTypes, WorkerType
<1>3. worker'.lan = worker.lan /\ worker'.pc \in {"handling", "crashed"}
  BY <1>1, <1>2 DEF MailGoesOn, RemoveMail, WorkerType
<1>4. ASSUME NEW s \in Script, NEW t \in Lan PROVE MailTickets(m)[s].req[t] = ticket[s].req[t]
  <2>1. MailTicket(m, s).req[t] = ticket[s].req[t]
    BY <1>2, MailTicketType DEF Types
  <2> QED  BY <2>1 DEF MailTickets
<1>5. ASSUME NEW s \in MailFinished(m), NEW t \in Lan PROVE ~Pending(MailTickets(m)[s], t)
  <2>1. s \in Script /\ MailTickets(m)[s] = MailTicket(m, s) /\ IsFinished(MailTicket(m, s))
    BY DEF MailFinished, MailSettled, MailTickets
  <2> QED  BY <2>1, FinishedNone
<1>6. ASSUME NEW t \in Lan, NEW h \in Handle PROVE Asked(h, t)' <=> Asked(h, t)
  <2>1. t \in Transport
    BY Constants
  <2>2. Asked(h, t)' <=> \E s \in Script : handle[s] = h /\ Pending(MailTickets(m)[s], t)
    BY <1>1, <1>5, <2>1, SettledAsked
  <2> QED  BY <1>4, <2>2 DEF Asked, Pending
<1>7. \A t \in Lan, h \in Handle : LanOut(h, t)' <=> LanOut(h, t)
  BY <1>1, <1>3 DEF LanOut, Answers
<1>8. \A t \in Lan : (ToLan(channel.lan, t)' <=> ToLan(channel.lan, t)) /\ (ToLan(worker.lan, t)' <=> ToLan(worker.lan, t))
  BY <1>1, <1>3 DEF ToLan
<1>9. Present'
  BY <1>1, <1>3, SettledPresent DEF LanInv
<1>10. ASSUME NEW t \in Lan PROVE Requested(t)'
  BY <1>1, <1>6 DEF LanInv, Requested
<1>11. ASSUME NEW t \in Lan PROVE OneAtATime(t)'
  BY <1>1, <1>3, <1>7, <1>8 DEF LanInv, OneAtATime
<1>12. OneTo(channel.lan)' /\ OneTo(worker.lan)'
  BY <1>1, <1>3 DEF LanInv, OneTo
<1> QED  BY <1>9, <1>10, <1>11, <1>12 DEF LanInv

LEMMA GivenRequests ==
  ASSUME NEW c \in Copier, NEW hs \in SUBSET Handle, c.listed <=> c.requests # {}, c.mapped <=> c.listed,
         c.busy => c.requests # {}
  PROVE  LET d == Given(UnclogLan(c), hs)
         IN  /\ d.requests = c.requests \cup hs /\ ~d.clogged /\ (d.busy <=> c.busy)
             /\ d.listed <=> d.requests # {}
             /\ d.mapped <=> d.listed
<1> DEFINE u == UnclogLan(c)
           d == Given(u, hs)
<1>1. u \in Copier /\ ~u.clogged /\ u.requests = c.requests /\ u.listed = c.listed /\ u.mapped = c.mapped
      /\ u.busy = c.busy
  BY DEF UnclogLan, Copier
<1>2. NewCopier \in Copier /\ NewCopier.listed /\ NewCopier.mapped /\ NewCopier.requests = {}
      /\ ~NewCopier.busy /\ ~NewCopier.clogged
  BY Constants DEF NewCopier, NoCopier
<1> HIDE DEF u
<1>3. CASE hs = {}
  BY <1>1, <1>3 DEF Given, u
<1>4. CASE hs # {} /\ c.mapped
  <2>1. d = [u EXCEPT !.requests = @ \cup hs]
    BY <1>1, <1>4 DEF Given
  <2>2. d.requests = u.requests \cup hs /\ d.clogged = u.clogged /\ d.listed = u.listed /\ d.mapped = u.mapped
        /\ d.busy = u.busy
    BY <1>1, <2>1 DEF Copier
  <2> QED  BY <1>1, <1>4, <2>2 DEF u
<1>5. CASE hs # {} /\ ~c.mapped
  <2>1. d = [NewCopier EXCEPT !.requests = @ \cup hs]
    BY <1>1, <1>5 DEF Given
  <2>2. d.requests = hs /\ d.clogged = NewCopier.clogged /\ d.listed = NewCopier.listed
        /\ d.mapped = NewCopier.mapped /\ d.busy = NewCopier.busy
    BY <1>2, <2>1 DEF Copier
  <2> QED  BY <1>2, <1>5, <2>2 DEF u
<1> QED  BY <1>3, <1>4, <1>5

(* New scripts have no handle yet.                                          *)
LEMMA NewUnnumbered ==
  ASSUME Types, IInv, StartForwarding, NEW s \in NewScripts
  PROVE  s \in Script /\ s \in inbox /\ handle[s] = NoHandle /\ NewHandle(s) \in Handle /\ NewHandle(s) # NoHandle
<1>1. Alive
  BY DEF StartForwarding, Handled, Alive
<1>2. s \in toDo /\ s \in inbox /\ s \in Script /\ handle[s] = NoHandle
  BY <1>1 DEF IInv, Listed, KnownAgrees, NewScripts, Types, FileTypes
<1>3. NewHandle(s) \in Handle
  BY <1>2, NewHandles
<1> QED  BY <1>2, <1>3, Constants

LEMMA ForwardAsked ==
  ASSUME Types, IInv, StartForwarding, NEW t \in Transport, NEW h \in Handle
  PROVE  Asked(h, t)' <=> Asked(h, t) \/ \E s \in NewScripts : NewHandle(s) = h /\ NewTicket(s).req[t] = "untried"
<1>1. \A s \in Script : /\ handle'[s] = IF s \in NewScripts THEN NewHandle(s) ELSE handle[s]
                        /\ ticket'[s] = IF s \in NewScripts THEN NewTicket(s) ELSE ticket[s]
  BY Forwarding
<1>2. \A s \in NewScripts : s \in Script /\ handle[s] = NoHandle
  BY NewUnnumbered
<1>3. \A s \in NewScripts : NewTicket(s).req[t] \in {"none", "untried"}
  BY <1>2, FreshTicket
<1>4. h # NoHandle
  BY Constants
<1>5. \A s \in NewScripts : Pending(NewTicket(s), t) <=> NewTicket(s).req[t] = "untried"
  BY <1>3 DEF Pending
<1> QED  BY <1>1, <1>2, <1>4, <1>5 DEF Asked

LEMMA LanForward ==
  ASSUME Types, IInv, BusyInv, LanInv, StartForwarding
  PROVE  LanInv'
<1>1. /\ worker'.lan = worker.lan /\ worker'.pc \in {"crashed", "emailing"} /\ worker'.new = NewScripts
      /\ UNCHANGED <<inbox, channel, lanJob>>
  BY Forwarding DEF StartForwarding, Types, ThreadTypes, WorkerType
<1>2. ASSUME NEW t \in Lan
      PROVE  /\ lan'[t].requests = lan[t].requests \cup NewFor(t) /\ ~lan'[t].clogged
             /\ lan'[t].busy <=> lan[t].busy
             /\ lan'[t].listed <=> lan'[t].requests # {}
             /\ lan'[t].mapped <=> lan'[t].listed
  <2>1. lan'[t] = Given(UnclogLan(lan[t]), NewFor(t)) /\ lan[t] \in Copier
    BY Forwarding DEF Types, CopierTypes
  <2>2. NewFor(t) \in SUBSET Handle
    BY NewUnnumbered DEF NewFor
  <2>3. (lan[t].listed <=> lan[t].requests # {}) /\ (lan[t].mapped <=> lan[t].listed)
    BY DEF LanInv, Requested
  <2>4. lan[t].busy => lan[t].requests # {}
    BY DEF LanInv, OneAtATime
  <2> QED  BY <2>1, <2>2, <2>3, <2>4, GivenRequests
<1>3. Present'
  <2>1. \A s \in Script : handle'[s] = IF s \in NewScripts THEN NewHandle(s) ELSE handle[s]
    BY Forwarding
  <2>2. \A s \in NewScripts : s \in inbox
    BY DEF NewScripts
  <2> QED  BY <1>1, <2>1, <2>2 DEF LanInv, Present
<1>4. ASSUME NEW t \in Lan PROVE Requested(t)'
  <2>1. t \in Transport
    BY Constants
  <2>2. \A h \in Handle : Asked(h, t)' <=> Asked(h, t) \/ h \in NewFor(t)
    BY <2>1, ForwardAsked DEF NewFor
  <2> QED  BY <1>2, <2>2 DEF LanInv, Requested
<1>5. ASSUME NEW t \in Lan PROVE OneAtATime(t)'
  <2>1. \A h \in Handle : LanOut(h, t)' <=> LanOut(h, t)
    BY <1>1 DEF LanOut
  <2> QED  BY <1>1, <1>2, <2>1 DEF LanInv, OneAtATime
<1> QED  BY <1>1, <1>3, <1>4, <1>5 DEF LanInv

(* When copying starts no file is missing, and no copier has an obsolete     *)
(* request.                                                                 *)
LEMMA AllCopying ==
  ASSUME Types, IInv, LanInv, StartCopying
  PROVE  /\ worker.pc = "emailing" /\ worker' = [worker EXCEPT !.pc = "waiting", !.new = {}]
         /\ Gone = {}
         /\ \A s \in Script : handle'[s] = handle[s] /\ ticket'[s] = RefreshRequests(ticket[s])
         /\ StartLan(Idle)
         /\ UNCHANGED <<inbox, stamped, channel, copies>>
         /\ LET running == mail.running \/ ToMail # {}
                live == LiveRequests([requests |-> MailRequests])
            IN  IF running /\ ~mail.busy /\ MailRequests # {}
                THEN /\ mail' = IF live = {} THEN NoMail
                                ELSE [mail EXCEPT !.running = TRUE, !.requests = live, !.busy = TRUE]
                     /\ mailJob' = [mailJob EXCEPT !.posted = {Job(h) : h \in live}]
                ELSE /\ mail' = [mail EXCEPT !.running = running, !.requests = MailRequests]
                     /\ UNCHANGED mailJob
<1>1. ToMail \subseteq inbox /\ ToMail \subseteq Script
  <2>1. worker.new \subseteq Script
    BY DEF Types, ThreadTypes, WorkerType
  <2> QED  BY <2>1 DEF ToMail, LanInv, Present
<1>2. Gone = {} /\ ToMail \cap inbox = ToMail
  BY <1>1 DEF Gone
<1>3. \A s \in Script : handle'[s] = handle[s]
  BY <1>2, Copying
<1>4. Obsolete = {}
  <2>1. ASSUME NEW t \in Lan, lan[t].requests # {} PROVE LiveRequests(lan[t]) # {}
    <3>1. PICK h \in lan[t].requests : h \in Handle
      BY <2>1 DEF Types, CopierTypes, Copier
    <3>2. Asked(h, t)
      BY <3>1 DEF LanInv, Requested
    <3> QED  BY <1>3, <3>1, <3>2 DEF Asked, LiveRequests
  <2> QED  BY <2>1 DEF Obsolete, Idle
<1>5. ({handle[s] : s \in ToMail} = {}) <=> (ToMail = {})
  BY Zenon
<1> QED  BY <1>2, <1>3, <1>4, <1>5 DEF StartCopying, CanMail, Gone, MailRequests

LEMMA RefreshedPending ==
  ASSUME Types, NEW s \in Script, NEW t \in Transport
  PROVE  /\ Pending(RefreshRequests(ticket[s]), t) <=> Pending(ticket[s], t)
         /\ RefreshRequests(ticket[s]).error = ticket[s].error
<1>1. ticket[s] \in TicketType
  BY DEF Types, TicketTypes
<1>2. RefreshRequests(ticket[s]).error = ticket[s].error
  BY <1>1 DEF RefreshRequests, TicketType
<1> QED  BY <1>1, <1>2, RefreshedTicket DEF Pending

LEMMA LanCopying ==
  ASSUME Types, IInv, BusyInv, LanInv, StartCopying
  PROVE  LanInv'
<1>1. /\ worker.pc = "emailing" /\ worker' = [worker EXCEPT !.pc = "waiting", !.new = {}]
      /\ \A s \in Script : handle'[s] = handle[s] /\ ticket'[s] = RefreshRequests(ticket[s])
      /\ StartLan(Idle)
      /\ UNCHANGED <<inbox, channel>>
  BY AllCopying
<1>2. worker'.pc = "waiting" /\ worker'.lan = worker.lan
  BY <1>1 DEF Types, ThreadTypes, WorkerType
<1>3. ASSUME NEW t \in Lan, NEW h \in Handle PROVE Asked(h, t)' <=> Asked(h, t)
  <2>1. t \in Transport
    BY Constants
  <2> QED  BY <1>1, <2>1, RefreshedPending DEF Asked
<1>4. Present'
  BY <1>1, <1>2 DEF LanInv, Present
<1>5. channel.lan \in Seq(LanAnswer) /\ worker.lan \in Seq(LanAnswer)
  BY DEF Types, ThreadTypes, ChannelType, WorkerType
<1>6. ASSUME NEW t \in Lan PROVE Requested(t)' /\ OneAtATime(t)'
  <2>1. Requested(t) /\ OneAtATime(t) /\ ~lan[t].clogged
    BY <1>1 DEF LanInv, OneAtATime
  <2>2. CASE lan'[t] = lan[t] /\ lanJob'[t] = lanJob[t]
    <3>1. \A h \in Handle : LanOut(h, t)' <=> LanOut(h, t)
      BY <1>1, <1>2, <2>2 DEF LanOut
    <3>2. Requested(t)'
      BY <1>3, <2>1, <2>2 DEF Requested
    <3> QED  BY <1>1, <1>2, <2>1, <2>2, <3>1, <3>2 DEF OneAtATime
  <2>3. CASE t \in Idle /\ lan'[t] = [lan[t] EXCEPT !.busy = TRUE] /\ \E h \in LiveRequests(lan[t]) : lanJob'[t] = Job(h)
    <3>1. PICK h \in LiveRequests(lan[t]) : lanJob'[t] = Job(h)
      BY <2>3
    <3>2. lan[t] \in Copier
      BY DEF Types, CopierTypes
    <3>3. h \in lan[t].requests /\ h \in Handle /\ lanJob'[t].handle = h
      BY <3>1, <3>2, LiveOf, JobOf DEF Copier
    <3>4. /\ lan'[t].busy /\ lan'[t].requests = lan[t].requests /\ lan'[t].clogged = lan[t].clogged
          /\ lan'[t].listed = lan[t].listed /\ lan'[t].mapped = lan[t].mapped
      BY <2>3, <3>2 DEF Copier
    <3>5. ~lan[t].busy
      BY <2>3 DEF Idle
    <3>6. \A x \in Handle : ~LanOut(x, t)
      BY <2>1, <3>5 DEF OneAtATime
    <3>7. ~ToLan(channel.lan, t) /\ ~ToLan(worker.lan, t)
      BY <1>5, <3>6, AnswersToLan DEF LanOut
    <3>8. \A x \in Handle : LanOut(x, t)' => x = h
      BY <1>1, <1>2, <3>3, <3>6 DEF LanOut
    <3>9. Requested(t)'
      BY <1>3, <2>1, <3>4 DEF Requested
    <3> QED  BY <1>1, <1>2, <2>1, <3>3, <3>4, <3>7, <3>8, <3>9 DEF OneAtATime
  <2>4. \/ lan'[t] = lan[t] /\ lanJob'[t] = lanJob[t]
        \/ t \in Idle /\ lan[t].requests = {}
        \/ t \in Idle /\ lan'[t] = [lan[t] EXCEPT !.busy = TRUE] /\ \E h \in LiveRequests(lan[t]) : lanJob'[t] = Job(h)
    <3>1. Idle \subseteq Lan
      BY DEF Idle
    <3> QED  BY <1>1, <3>1, StartLanOne
  <2>5. ~(t \in Idle /\ lan[t].requests = {})
    BY <2>1 DEF Idle, Requested
  <2> QED  BY <2>2, <2>3, <2>4, <2>5
<1>7. OneTo(channel.lan)' /\ OneTo(worker.lan)'
  BY <1>1, <1>2 DEF LanInv
<1> QED  BY <1>4, <1>6, <1>7 DEF LanInv

LEMMA LanInit == Init => LanInv
<1> SUFFICES ASSUME Init PROVE LanInv
  OBVIOUS
<1>1. \A s \in Script : handle[s] = NoHandle /\ ticket[s] = NoTicket
  BY DEF Init
<1>2. \A h \in Handle, t \in Lan : ~Asked(h, t)
  BY <1>1, Constants DEF Asked
<1>3. \A t \in Lan : lan[t] = NoCopier /\ lanJob[t] = NoJob
  BY DEF Init
<1>4. channel.lan = <<>> /\ worker.lan = <<>> /\ worker.pc = "waiting"
  BY DEF Init
<1>5. \A t : ~ToLan(<<>>, t) /\ \A h : ~Answers(<<>>, h, t)
  BY DEF ToLan, Answers
<1>6. OneTo(<<>>)
  BY DEF OneTo
<1>7. ASSUME NEW t \in Lan PROVE Requested(t)
  BY <1>2, <1>3 DEF Requested, NoCopier
<1>8. ASSUME NEW t \in Lan PROVE OneAtATime(t)
  <2>1. \A h \in Handle : ~LanOut(h, t)
    <3>1. \A h \in Handle : h # NoHandle
      BY Constants
    <3>2. NoJob.handle = NoHandle
      BY Constants
    <3> QED  BY <1>3, <1>4, <1>5, <3>1, <3>2 DEF LanOut
  <2> QED  BY <1>3, <1>4, <1>5, <2>1, Constants DEF OneAtATime, NoCopier
<1>9. Present
  BY <1>1, <1>4 DEF Present
<1> QED  BY <1>4, <1>6, <1>7, <1>8, <1>9 DEF LanInv

(* As long as nothing is cleared or vanishes, these are the steps.           *)
LEMMA CalmSteps ==
  ASSUME ~Vanishing, BusyInv, LanInv, Next
  PROVE  \/ ProcessInbox \/ OnFinishScripts \/ StateCleared
         \/ MailStart \/ MailBlacklisted \/ MailDone \/ MailThrows
         \/ Wake \/ Receive \/ GoWaiting
         \/ \E t \in Lan : LanCopy(t)
         \/ \E t \in Lan : LanThrows(t)
         \/ OnLanCopyDone \/ OnEmailCopyDone \/ StartForwarding \/ StartCopying
<1>1. ~ClearState /\ ~HandleClear
  BY DEF BusyInv, Undisturbed, ClearState, HandleClear
<1>2. ~KeepAlive
  BY DEF LanInv, Present, KeepAlive
<1>3. ~Vanish
  BY DEF Vanish
<1> QED  BY <1>1, <1>2, <1>3 DEF Next, MainThread, WorkQueue, MailCopier

LEMMA LanStep ==
  ASSUME ~Vanishing, Types, IInv, AllMarked, BusyInv, LanInv, [Next]_vars
  PROVE  LanInv'
<1>1. CASE Next
  BY <1>1, CalmSteps, LanMain, LanWaiting, LanReports, LanGivesUp, LanOnLan, LanOnMail, LanForward, LanCopying
<1>2. CASE UNCHANGED vars
  <2>1. UNCHANGED <<handle, ticket, lan, lanJob, channel, worker, inbox>>
    BY <1>2 DEF vars, shared, tickets, copiers
  <2>2. worker.pc # "dead"
    BY DEF LanInv, Present
  <2> QED  BY <2>1, <2>2, LanSame
<1> QED  BY <1>1, <1>2

-----------------------------------------------------------------------------
LEMMA MailInit == Init => MailInv
<1> SUFFICES ASSUME Init PROVE MailInv
  OBVIOUS
<1>1. \A s \in Script : handle[s] = NoHandle
  BY DEF Init
<1>2. worker.pc = "waiting" /\ channel.mail = {} /\ worker.mail = {}
  BY DEF Init
<1> QED  BY <1>1, <1>2 DEF MailInv, MailWaits

LEMMA MailSame ==
  ASSUME Types, MailInv,
         \/ MainThread \/ MailCopier \/ MailBlacklisted \/ MailThrows
         \/ Wake \/ Receive \/ GoWaiting \/ \E t \in Lan : LanCopy(t) \/ LanThrows(t),
         ~ClearState, ~KeepAlive
  PROVE  MailInv'
<1>1. channel \in ChannelType /\ worker \in WorkerType
  BY DEF Types, ThreadTypes
<1>2. /\ UNCHANGED <<handle, ticket, mail>>
      /\ worker'.new = worker.new
      /\ \/ worker'.pc = worker.pc
         \/ /\ worker.pc \in {"waiting", "receiving", "handling"}
            /\ worker'.pc \in {"waiting", "receiving", "handling"}
  <2>1. CASE ProcessInbox \/ OnFinishScripts \/ StateCleared
    BY <2>1 DEF ProcessInbox, OnFinishScripts, StateCleared, tickets, copiers
  <2>2. CASE MailStart \/ MailDone \/ MailBlacklisted \/ MailThrows
    BY <2>2 DEF MailStart, MailDone, MailBlacklisted, MailThrows, tickets, copiers
  <2>3. CASE \E t \in Lan : LanCopy(t) \/ LanThrows(t)
    BY <2>3 DEF LanCopy, LanThrows, tickets
  <2>4. CASE Wake
    BY <1>1, <2>4 DEF Wake, tickets, copiers, WorkerType
  <2>5. CASE Receive
    BY <1>1, <2>5 DEF Receive, tickets, copiers, WorkerType
  <2>6. CASE GoWaiting
    BY <1>1, <2>6 DEF GoWaiting, Handled, tickets, copiers, WorkerType
  <2> QED  BY <2>1, <2>2, <2>3, <2>4, <2>5, <2>6 DEF MainThread, MailCopier
<1>3. \A m \in channel'.mail \cup worker'.mail :
        m \in channel.mail \cup worker.mail \/ (m.first \subseteq m.ok /\ m.ok \subseteq m.batch)
  <2>1. CASE ProcessInbox \/ OnFinishScripts \/ StateCleared \/ MailStart \/ MailThrows
             \/ \E t \in Lan : LanCopy(t) \/ LanThrows(t)
    <3>1. channel'.mail = channel.mail /\ worker' = worker
      BY <1>1, <2>1 DEF ProcessInbox, OnFinishScripts, StateCleared, MailStart, MailThrows, LanCopy, LanThrows,
                        ChannelType
    <3> QED  BY <3>1
  <2>2. CASE Wake \/ Receive \/ GoWaiting
    BY <1>1, <2>2 DEF Wake, Receive, GoWaiting, ChannelType, WorkerType
  <2>3. CASE MailBlacklisted
    <3>1. channel'.mail = {Nothing} /\ worker' = worker
      BY <1>1, <2>3 DEF MailBlacklisted, PutMail, ChannelType
    <3> QED  BY <3>1 DEF Nothing
  <2>4. CASE MailDone
    <3>1. PICK o \in Outcome(mailJob.mailing) : channel'.mail = {o} /\ worker' = worker
      BY <1>1, <2>4 DEF MailDone, PutMail, ChannelType
    <3>2. mailJob.mailing \in SUBSET JobType /\ \A j \in mailJob.mailing : j.handle # NoHandle
      BY DEF Types, CopierTypes
    <3>3. o.first \subseteq o.ok /\ o.ok \subseteq o.batch
      BY <3>2, OutcomeType
    <3> QED  BY <3>1, <3>3
  <2> QED  BY <2>1, <2>2, <2>3, <2>4 DEF MainThread, MailCopier
<1>4. ASSUME NEW s \in Script, worker.pc # "crashed", MailWaits(s) PROVE MailWaits(s)'
  BY <1>2, <1>4 DEF MailWaits
<1>5. worker'.pc = "crashed" => worker.pc = "crashed"
  BY <1>2
<1>6. worker.pc = "crashed" => worker'.pc = "crashed"
  BY <1>2
<1> QED  BY <1>2, <1>3, <1>4, <1>5, <1>6 DEF MailInv

LEMMA MailOnLan ==
  ASSUME Types, IInv, BusyInv, LanInv, MailInv, OnLanCopyDone
  PROVE  MailInv'
<1>1. PICK m \in LanAnswer, s \in Script :
           /\ Answered(m, s)
           /\ SettleTickets(LanTickets(m), LanMarked(m), LanFinished(m))
           /\ worker.pc = "handling" /\ worker' = [worker EXCEPT !.lan = Tail(@)]
           /\ UNCHANGED <<main, channel, copies, budget, mail, mailJob>>
  BY LanDone
<1>2. worker'.pc = "handling" /\ worker'.mail = worker.mail
  BY <1>1 DEF Types, ThreadTypes, WorkerType
<1>3. m.to # Email /\ Email \in Transport
  BY Constants DEF LanAnswer
<1>4. \A x \in Script : LanTickets(m)[x].req[Email] = ticket[x].req[Email]
  BY <1>1, <1>3, LanTicketOf
<1>5. ASSUME NEW x \in Script PROVE MailWaits(x)'
  <2>1. handle'[x] # NoHandle => handle'[x] = handle[x] /\ ticket'[x] = LanTickets(m)[x]
    BY <1>1 DEF SettleTickets
  <2>2. MailWaits(x)
    BY <1>1 DEF MailInv
  <2> QED  BY <1>1, <1>2, <1>4, <2>1, <2>2 DEF MailWaits, Pending
<1> QED  BY <1>1, <1>2, <1>5 DEF MailInv

LEMMA MailOnMail ==
  ASSUME Types, IInv, MailInv, OnEmailCopyDone
  PROVE  MailInv'
<1>1. PICK m \in worker.mail :
           /\ worker.pc = "handling" /\ worker.lan = <<>>
           /\ SettleTickets(MailTickets(m), MailSettled(m), MailFinished(m))
           /\ MailGoesOn(MailRequestsDone(m))
           /\ UNCHANGED <<main, channel, lan, lanJob, copies, budget>>
  BY OnMail
<1>2. worker \in WorkerType /\ m \in MailAnswer /\ mail \in MailType
  BY DEF Types, ThreadTypes, WorkerType, CopierTypes, MailType
<1> DEFINE c == MailRequestsDone(m)
<1>3. c \in MailType /\ c.running = mail.running /\ \A h \in mail.requests : h \in c.requests \/ h \in m.first
  BY <1>2, MailRequestsDoneType DEF MailRequestsDone, MailType
<1> HIDE DEF c
<1>4. worker'.pc \in {"handling", "crashed"} /\ worker'.mail = {}
  BY <1>1, <1>2 DEF MailGoesOn, RemoveMail, WorkerType
<1>5. ASSUME NEW s \in Script, worker'.pc # "crashed", handle'[s] # NoHandle, Pending(ticket'[s], Email)
      PROVE  mail'.running /\ handle'[s] \in mail'.requests
  <2>1. handle'[s] = handle[s] /\ ticket'[s] = MailTickets(m)[s]
    BY <1>1, <1>5 DEF SettleTickets
  <2>2. MailTicket(m, s).req[Email] =
           IF handle[s] \in m.ok \/ ticket[s].req[Email] = "delivered" THEN "delivered" ELSE "tried"
    BY <1>2, MailTicketType DEF Types
  <2>3. m.first \subseteq m.ok /\ m.ok \subseteq m.batch
    BY DEF MailInv
  <2>4. handle[s] \notin m.ok /\ Pending(ticket[s], Email)
    <3>1. CASE handle[s] \in m.batch
      <4>1. MailTickets(m)[s] = MailTicket(m, s)
        BY <3>1 DEF MailTickets, MailSettled
      <4>2. MailTicket(m, s).req[Email] # "delivered"
        BY <1>5, <2>1, <4>1 DEF Pending
      <4>3. handle[s] \notin m.ok /\ ticket[s].req[Email] # "delivered"
        BY <2>2, <4>2
      <4>4. MailNamed(handle[s]) /\ handle[s] \in Handle
        BY <1>2, <3>1 DEF MailNamed, MailAnswer
      <4>5. ticket[s].req[Email] # "none"
        BY <4>4 DEF IInv, MailTrue, Asks
      <4>6. ticket[s].req[Email] \in Request
        BY Constants DEF Types, TicketTypes, TicketType
      <4> QED  BY <4>3, <4>5, <4>6 DEF Request, Pending
    <3>2. CASE handle[s] \notin m.batch
      <4>1. MailTickets(m)[s] = ticket[s]
        BY <3>2 DEF MailTickets, MailSettled
      <4> QED  BY <1>5, <2>1, <2>3, <3>2, <4>1
    <3> QED  BY <3>1, <3>2
  <2>5. mail.running /\ handle[s] \in mail.requests
    BY <1>1, <1>5, <2>1, <2>4 DEF MailInv, MailWaits
  <2>6. handle'[s] \in c.requests /\ handle'[s] \in LiveRequests(c)
    BY <1>3, <2>1, <2>3, <2>4, <2>5 DEF LiveRequests
  <2>7. mail' = IF c.clogged THEN c ELSE [c EXCEPT !.requests = LiveRequests(c), !.busy = TRUE]
    BY <1>1, <2>6 DEF MailGoesOn, c
  <2>8. mail'.running = c.running /\ mail'.requests \in {c.requests, LiveRequests(c)}
    BY <1>3, <2>7 DEF MailType
  <2> QED  BY <1>3, <2>5, <2>6, <2>8
<1>6. \A s \in Script : worker'.pc # "crashed" => MailWaits(s)'
  BY <1>5 DEF MailWaits
<1> QED  BY <1>1, <1>4, <1>6 DEF MailInv

LEMMA MailForward ==
  ASSUME Types, IInv, MailInv, StartForwarding
  PROVE  MailInv'
<1>1. /\ worker'.mail = worker.mail /\ worker'.pc \in {"crashed", "emailing"} /\ worker'.new = NewScripts
      /\ worker.pc = "handling"
      /\ UNCHANGED channel /\ mail'.running = mail.running /\ mail'.requests = mail.requests
  BY Forwarding DEF StartForwarding, Handled, Types, ThreadTypes, WorkerType, CopierTypes
<1>2. \A s \in Script : /\ handle'[s] = IF s \in NewScripts THEN NewHandle(s) ELSE handle[s]
                        /\ ticket'[s] = IF s \in NewScripts THEN NewTicket(s) ELSE ticket[s]
  BY Forwarding
<1>3. ASSUME NEW s \in NewScripts PROVE s \in Script /\ NewTicket(s).req[Email] # "tried"
  BY NewUnnumbered, FreshTicket, Constants
<1>4. ASSUME NEW s \in Script PROVE worker'.pc # "crashed" => MailWaits(s)'
  BY <1>1, <1>2 DEF MailInv, MailWaits
<1> QED  BY <1>1, <1>2, <1>3, <1>4 DEF MailInv

LEMMA MailCopying ==
  ASSUME Types, IInv, LanInv, MailInv, StartCopying
  PROVE  MailInv'
<1> DEFINE running == mail.running \/ ToMail # {}
           live == LiveRequests([requests |-> MailRequests])
<1>1. /\ worker.pc = "emailing" /\ worker' = [worker EXCEPT !.pc = "waiting", !.new = {}]
      /\ Gone = {}
      /\ \A s \in Script : handle'[s] = handle[s] /\ ticket'[s] = RefreshRequests(ticket[s])
      /\ UNCHANGED <<inbox, stamped, channel, copies>>
      /\ IF running /\ ~mail.busy /\ MailRequests # {}
         THEN mail' = IF live = {} THEN NoMail
                      ELSE [mail EXCEPT !.running = TRUE, !.requests = live, !.busy = TRUE]
         ELSE mail' = [mail EXCEPT !.running = running, !.requests = MailRequests]
  BY AllCopying
<1>2. worker'.pc = "waiting" /\ worker'.mail = worker.mail
  BY <1>1 DEF Types, ThreadTypes, WorkerType
<1>3. ASSUME NEW s \in Script, handle'[s] # NoHandle, Pending(ticket'[s], Email)
      PROVE  mail'.running /\ handle'[s] \in mail'.requests
  <2>1. handle[s] # NoHandle /\ Pending(ticket[s], Email) /\ handle'[s] = handle[s]
    BY <1>1, <1>3, RefreshedPending, Constants
  <2>2. (mail.running /\ handle[s] \in mail.requests) \/ s \in worker.new
    BY <1>1, <2>1 DEF MailInv, MailWaits
  <2>3. s \in worker.new => s \in ToMail
    BY <1>1, <2>1 DEF MailInv, ToMail, Pending
  <2>4. ToMail \subseteq inbox
    BY <1>1 DEF Gone
  <2>5. running /\ handle[s] \in MailRequests
    BY <2>2, <2>3, <2>4 DEF MailRequests
  <2>6. handle[s] \in live
    BY <2>1, <2>5 DEF LiveRequests
  <2>7. mail \in MailType
    BY DEF Types, CopierTypes, MailType
  <2>9. running = TRUE
    BY <2>5, <2>7 DEF MailType
  <2> HIDE DEF running, live
  <2>8. \/ mail' = [mail EXCEPT !.running = TRUE, !.requests = live, !.busy = TRUE]
        \/ mail' = [mail EXCEPT !.running = running, !.requests = MailRequests]
    BY <1>1, <2>6
  <2>10. mail'.running = TRUE /\ mail'.requests \in {live, MailRequests}
    BY <2>7, <2>8, <2>9 DEF MailType
  <2> QED  BY <2>1, <2>5, <2>6, <2>10
<1>4. \A s \in Script : MailWaits(s)'
  BY <1>3 DEF MailWaits
<1> QED  BY <1>1, <1>2, <1>4 DEF MailInv

LEMMA MailStep ==
  ASSUME ~Vanishing, Types, IInv, BusyInv, LanInv, MailInv, [Next]_vars
  PROVE  MailInv'
<1>1. CASE Next
  <2>1. ~ClearState /\ ~KeepAlive
    BY DEF BusyInv, Undisturbed, ClearState, LanInv, Present, KeepAlive
  <2>2. CASE OnLanCopyDone \/ OnEmailCopyDone \/ StartForwarding \/ StartCopying
    BY <2>2, MailOnLan, MailOnMail, MailForward, MailCopying
  <2> QED  BY <1>1, <2>1, <2>2, CalmSteps, MailSame DEF MainThread, MailCopier
<1>2. CASE UNCHANGED vars
  <2>1. UNCHANGED <<handle, ticket, mail, channel, worker>>
    BY <1>2 DEF vars, tickets, copiers
  <2> QED  BY <2>1 DEF MailInv, MailWaits
<1> QED  BY <1>1, <1>2

(* A script that a copier works on, or has just copied, still waits for it.  *)
LEMMA LanOutPending ==
  ASSUME Types, IInv, LanInv, NEW s \in Script, NEW t \in Lan, handle[s] # NoHandle, LanOut(handle[s], t)
  PROVE  Pending(ticket[s], t) /\ t \notin stamped[s]
<1>1. handle[s] \in Handle /\ t \in Transport
  BY Constants DEF Types, TicketTypes
<1>2. handle[s] \in lan[t].requests
  BY <1>1 DEF LanInv, OneAtATime
<1>3. Asked(handle[s], t)
  BY <1>1, <1>2 DEF LanInv, Requested
<1>4. PICK x \in Script : handle[x] = handle[s] /\ Pending(ticket[x], t)
  BY <1>3 DEF Asked
<1>5. x = s
  BY <1>4 DEF IInv, Numbered
<1>6. \A u \in Transport : Pending(ticket[s], u) => u \in Route[s] \ stamped[s]
  BY DEF IInv, InProgress
<1> QED  BY <1>1, <1>4, <1>5, <1>6

LEMMA SentIsOut == \A h, t : LanSent(h, t) => LanOut(h, t)
BY DEF LanSent, LanOut, Oks, Answers

LEMMA LanCopiesInit == Init => LanCopies
<1>1. \A t \in Lan : t \in Transport
  BY Constants
<1> QED  BY <1>1 DEF Init, LanCopies

LEMMA LanCopiesSame ==
  ASSUME Types, LanCopies, \A s \in Script, t \in Lan : copies'[s][t] = copies[s][t],
         \A s \in Script, t \in Lan, h \in Handle : handle[s] = h /\ LanSent(h, t) =>
            t \in stamped'[s] \/ (handle'[s] = h /\ LanSent(h, t)'),
         \A s \in Script : stamped[s] \subseteq stamped'[s]
  PROVE  LanCopies'
<1>1. ASSUME NEW s \in Script, NEW t \in Lan, copies'[s][t] > 0
      PROVE  t \in stamped'[s] \/ (handle'[s] # NoHandle /\ LanSent(handle[s], t)')
  <2>1. t \in stamped[s] \/ (handle[s] # NoHandle /\ LanSent(handle[s], t))
    BY <1>1 DEF LanCopies
  <2>2. CASE handle[s] # NoHandle /\ LanSent(handle[s], t)
    <3>1. PICK h \in Handle : handle[s] = h
      BY <2>2, Constants DEF Types, TicketTypes
    <3>2. LanSent(h, t) /\ h # NoHandle
      BY <2>2, <3>1
    <3>3. t \in stamped'[s] \/ (handle'[s] = h /\ LanSent(h, t)')
      BY <3>1, <3>2
    <3>4. handle'[s] = h => (LanSent(h, t)' <=> LanSent(handle[s], t)')
      OBVIOUS
    <3> QED  BY <3>2, <3>3, <3>4
  <2> QED  BY <2>1, <2>2
<1> QED  BY <1>1 DEF LanCopies

(* Steps of the main thread, of the mail copier and those between which the  *)
(* work queue waits.                                                        *)
LEMMA LanCopiesIdle ==
  ASSUME Types, BusyInv, LanCopies,
         \/ ProcessInbox \/ OnFinishScripts \/ StateCleared
         \/ MailStart \/ MailBlacklisted \/ MailDone \/ MailThrows \/ (\E t \in Lan : LanThrows(t))
         \/ Wake \/ Receive \/ GoWaiting \/ UNCHANGED vars
  PROVE  LanCopies'
<1>1. channel \in ChannelType /\ worker \in WorkerType
  BY DEF Types, ThreadTypes
<1>2. UNCHANGED <<stamped, handle>> /\ \A s \in Script, t \in Lan : copies'[s][t] = copies[s][t]
  <2>1. CASE \/ ProcessInbox \/ OnFinishScripts \/ StateCleared \/ MailStart \/ MailBlacklisted
             \/ (\E t \in Lan : LanThrows(t)) \/ Wake \/ Receive \/ GoWaiting \/ UNCHANGED vars
    BY <2>1 DEF ProcessInbox, OnFinishScripts, StateCleared, MailStart, MailBlacklisted, LanThrows, Wake,
                Receive, GoWaiting, shared, tickets, vars
  <2>2. CASE MailDone \/ MailThrows
    <3>1. UNCHANGED <<stamped, handle>>
          /\ \E sent : copies' = [s \in Script |-> IF s \in sent THEN Copied(s, Email)[s] ELSE copies[s]]
      BY <2>2 DEF MailDone, MailThrows, shared, tickets
    <3>2. PICK sent : copies' = [s \in Script |-> IF s \in sent THEN Copied(s, Email)[s] ELSE copies[s]]
      BY <3>1
    <3>3. ASSUME NEW s \in Script, NEW t \in Lan PROVE Copied(s, Email)[s][t] = copies[s][t]
      <4>1. t # Email /\ t \in Transport /\ copies \in [Script -> [Transport -> 0 .. 2]]
        BY Constants DEF Types, TicketTypes
      <4> QED  BY <4>1 DEF Copied
    <3>4. ASSUME NEW s \in Script, NEW t \in Lan PROVE copies'[s][t] = copies[s][t]
      BY <3>2, <3>3
    <3> QED  BY <3>1, <3>4
  <2> QED  BY <2>1, <2>2
<1>3. ASSUME NEW t \in Lan, NEW h \in Handle, LanSent(h, t) PROVE LanSent(h, t)'
  <2>1. CASE Receive
    <3>1. worker'.lan = channel.lan /\ worker.lan = <<>>
      BY <1>1, <2>1 DEF Receive, BusyInv, Undisturbed, WorkerType
    <3> QED  BY <1>3, <3>1 DEF LanSent, Oks
  <2>2. CASE \/ ProcessInbox \/ OnFinishScripts \/ StateCleared \/ MailStart \/ MailBlacklisted \/ MailDone
             \/ MailThrows \/ (\E u \in Lan : LanThrows(u)) \/ Wake \/ GoWaiting \/ UNCHANGED vars
    <3>1. channel'.lan = channel.lan /\ worker'.lan = worker.lan
      BY <1>1, <2>2 DEF ProcessInbox, OnFinishScripts, StateCleared, MailStart, MailBlacklisted, MailDone,
           MailThrows, LanThrows, PutMail, Wake, GoWaiting, ChannelType, WorkerType, vars
    <3> QED  BY <1>3, <3>1 DEF LanSent, Oks
  <2> QED  BY <2>1, <2>2
<1> QED  BY <1>2, <1>3, LanCopiesSame

LEMMA LanCopiesCopying ==
  ASSUME Types, IInv, LanInv, LanCopies, StartForwarding \/ StartCopying
  PROVE  LanCopies'
<1>1. UNCHANGED <<stamped, copies, channel>>
  BY DEF StartForwarding, StartCopying
<1>2. worker'.lan = worker.lan
  BY Forwarding, AllCopying DEF Types, ThreadTypes, WorkerType
<1>3. ASSUME NEW t \in Lan, NEW h \in Handle, LanSent(h, t) PROVE LanSent(h, t)'
  BY <1>1, <1>2, <1>3 DEF LanSent, Oks
<1>4. \A s \in Script, h \in Handle : handle[s] = h => handle'[s] = h
  <2>1. CASE StartForwarding
    BY <2>1, Forwarding, NewUnnumbered, Constants
  <2>2. CASE StartCopying
    BY <2>2, AllCopying
  <2> QED  BY <2>1, <2>2
<1> QED  BY <1>1, <1>3, <1>4, LanCopiesSame

LEMMA LanCopiesOnMail ==
  ASSUME Types, IInv, LanInv, LanCopies, OnEmailCopyDone
  PROVE  LanCopies'
<1>1. PICK m \in worker.mail :
           /\ worker.pc = "handling" /\ worker.lan = <<>>
           /\ SettleTickets(MailTickets(m), MailSettled(m), MailFinished(m))
           /\ MailGoesOn(MailRequestsDone(m))
           /\ UNCHANGED <<main, channel, lan, lanJob, copies, budget>>
  BY OnMail
<1>2. worker \in WorkerType /\ m \in MailAnswer
  BY DEF Types, ThreadTypes, WorkerType
<1>3. worker'.lan = worker.lan
  BY <1>1, <1>2 DEF MailGoesOn, RemoveMail, WorkerType
<1>4. ASSUME NEW s \in Script, NEW t \in Lan, NEW h \in Handle, handle[s] = h, LanSent(h, t)
      PROVE  handle'[s] = h /\ LanSent(h, t)'
  <2>1. Pending(ticket[s], t)
    <3>1. handle[s] # NoHandle /\ LanSent(handle[s], t)
      BY <1>4, Constants
    <3> QED  BY <3>1, SentIsOut, LanOutPending
  <2>2. s \notin MailFinished(m)
    <3>1. MailTicket(m, s).req[t] = ticket[s].req[t]
      BY <1>2, MailTicketType DEF Types
    <3>2. Pending(MailTicket(m, s), t)
      BY <2>1, <3>1 DEF Pending
    <3> QED  BY <3>2, FinishedNone DEF MailFinished
  <2>3. handle'[s] = h
    BY <1>1, <1>4, <2>2 DEF SettleTickets
  <2>4. LanSent(h, t)'
    BY <1>1, <1>3, <1>4 DEF LanSent, Oks
  <2> QED  BY <2>3, <2>4
<1>5. \A s \in Script : stamped[s] \subseteq stamped'[s]
  BY <1>1, Stamping DEF SettleTickets
<1> QED  BY <1>1, <1>4, <1>5, LanCopiesSame

LEMMA LanCopiesOnLan ==
  ASSUME Unmarkable = {}, Types, IInv, BusyInv, LanInv, LanCopies, OnLanCopyDone
  PROVE  LanCopies'
<1>1. PICK m \in LanAnswer, x \in Script :
           /\ worker.lan \in Seq(LanAnswer) /\ worker.lan # <<>> /\ m = Head(worker.lan)
           /\ Answered(m, x)
           /\ SettleTickets(LanTickets(m), LanMarked(m), LanFinished(m))
           /\ worker.pc = "handling" /\ worker' = [worker EXCEPT !.lan = Tail(@)]
           /\ UNCHANGED <<main, channel, copies, budget, mail, mailJob>>
  BY LanDone
<1>2. worker \in WorkerType /\ worker'.lan = Tail(worker.lan) /\ m.to \in Lan /\ m.to \in Transport
  BY <1>1, Constants DEF Types, ThreadTypes, WorkerType, LanAnswer
<1>3. \A h, t : Oks(worker.lan, h, t) => Oks(worker'.lan, h, t) \/ (h = m.handle /\ t = m.to /\ m.ok)
  BY <1>1, <1>2, QueueRest DEF LanInv
<1>4. /\ \A y \in Script, t \in Transport : LanTickets(m)[y].req[t] =
               IF y # x \/ t # m.to THEN ticket[y].req[t]
               ELSE IF m.ok THEN "delivered" ELSE "tried"
      /\ \A y \in LanFinished(m) : y = x /\ m.ok /\ IsFinished(LanTickets(m)[x])
  BY <1>1, LanTicketOf
<1>5. handle[x] = m.handle /\ m.handle # NoHandle
  BY <1>1, Constants DEF Answered, LanAnswer
<1>6. /\ \A s \in Script : stamped[s] \subseteq stamped'[s]
      /\ m.ok => Delivered(LanTickets(m)[x]) \subseteq stamped'[x]
  <2>1. m.ok => x \in LanMarked(m)
    BY <1>1 DEF LanMarked, Answered
  <2> QED  BY <1>1, <2>1, Stamping DEF SettleTickets
<1>7. ASSUME NEW s \in Script, NEW t \in Lan, NEW h \in Handle, handle[s] = h, LanSent(h, t)
      PROVE  t \in stamped'[s] \/ (handle'[s] = h /\ LanSent(h, t)')
  <2>1. CASE h = m.handle /\ t = m.to /\ m.ok
    <3>1. s = x
      BY <1>5, <1>7, <2>1 DEF IInv, Numbered
    <3>2. t \in Delivered(LanTickets(m)[s])
      BY <1>2, <1>4, <2>1, <3>1 DEF Delivered
    <3> QED  BY <1>6, <2>1, <3>1, <3>2
  <2>2. CASE ~(h = m.handle /\ t = m.to /\ m.ok)
    <3>1. LanSent(h, t)'
      BY <1>1, <1>3, <1>7, <2>2 DEF LanSent
    <3>2. handle[s] # NoHandle /\ LanSent(handle[s], t) /\ t \in Transport
      BY <1>7, Constants
    <3>3. Pending(ticket[s], t)
      BY <3>2, SentIsOut, LanOutPending
    <3>4. s \notin LanFinished(m)
      <4>1. SUFFICES ASSUME s \in LanFinished(m) PROVE FALSE
        OBVIOUS
      <4>2. s = x /\ m.ok /\ IsFinished(LanTickets(m)[x])
        BY <1>4, <4>1
      <4>3. t # m.to
        BY <1>5, <1>7, <2>2, <4>2
      <4>4. Pending(LanTickets(m)[x], t)
        BY <1>4, <3>2, <3>3, <4>2, <4>3 DEF Pending
      <4> QED  BY <4>2, <4>4, FinishedNone
    <3>5. handle'[s] = h
      BY <1>1, <1>7, <3>4 DEF SettleTickets
    <3> QED  BY <3>1, <3>5
  <2> QED  BY <2>1, <2>2
<1> QED  BY <1>1, <1>6, <1>7, LanCopiesSame

LEMMA LanCopiesOne ==
  ASSUME Types, IInv, LanInv, LanCopies, NEW t \in Lan, LanCopy(t)
  PROVE  LanCopies'
<1> DEFINE h == lanJob[t].handle
           x == lanJob[t].script
<1>1. PICK ok \in BOOLEAN :
        /\ channel' = [channel EXCEPT !.event = TRUE,
             !.lan = Append(@, [to |-> t, handle |-> h, ok |-> ok])]
        /\ copies' = IF ok THEN Copied(x, t) ELSE copies
  BY DEF LanCopy
<1> DEFINE m == [to |-> t, handle |-> h, ok |-> ok]
<1>2. m \in LanAnswer /\ m.to = t /\ m.handle = h /\ m.ok = ok /\ h # NoHandle /\ h \in Handle /\ x \in Script
  BY Constants DEF LanCopy, LanAnswer, Types, CopierTypes, JobType
<1>3. channel.lan \in Seq(LanAnswer) /\ channel'.lan = Append(channel.lan, m)
  BY <1>1 DEF Types, ThreadTypes, ChannelType
<1>4. UNCHANGED <<worker, handle, stamped>>
  BY DEF LanCopy, shared, tickets
<1>5. LanOut(h, t)
  BY DEF LanOut
<1>6. ~LanSent(h, t)
  <2>1. ~ToLan(channel.lan, t) /\ ~ToLan(worker.lan, t)
    BY <1>2 DEF LanInv, OneAtATime
  <2> QED  BY <2>1 DEF LanSent, Oks, ToLan
<1>7. handle[x] = h
  <2>1. Asked(h, t)
    BY <1>2, <1>5 DEF LanInv, OneAtATime, Requested
  <2>2. PICK y \in Script : handle[y] = h
    BY <2>1 DEF Asked
  <2>3. Carries(h, x)
    BY <1>2 DEF IInv, JobTrue, JobFor
  <2> QED  BY <2>2, <2>3 DEF Carries
<1> HIDE DEF h, x, m
<1>8. t \notin stamped[x]
  BY <1>2, <1>5, <1>7, LanOutPending
<1>9. copies \in [Script -> [Transport -> 0 .. 2]] /\ t \in Transport
  BY Constants DEF Types, TicketTypes
<1>10. copies[x][t] = 0
  <2>1. ~(copies[x][t] > 0)
    BY <1>2, <1>6, <1>7, <1>8 DEF LanCopies
  <2>2. copies[x][t] \in 0 .. 2
    BY <1>2, <1>9
  <2> QED  BY <2>1, <2>2
<1>11. ASSUME NEW s \in Script, NEW u \in Lan
       PROVE  copies'[s][u] = IF ok /\ s = x /\ u = t THEN 1 ELSE copies[s][u]
  <2>1. u \in Transport
    BY Constants
  <2>2. Copied(x, t)[s][u] = IF s = x /\ u = t THEN 1 ELSE copies[s][u]
    BY <1>2, <1>9, <1>10, <2>1 DEF Copied
  <2> QED  BY <1>1, <2>2
<1>12. \A g, u : Oks(channel'.lan, g, u) <=> Oks(channel.lan, g, u) \/ (h = g /\ t = u /\ ok)
  BY <1>2, <1>3, AnswersOf
<1>13. \A g, u : LanSent(g, u)' <=> LanSent(g, u) \/ (h = g /\ t = u /\ ok)
  BY <1>4, <1>12 DEF LanSent
<1>14. ASSUME NEW s \in Script, NEW u \in Lan
       PROVE  /\ copies'[s][u] < 2
              /\ copies'[s][u] > 0 => u \in stamped'[s] \/ (handle'[s] # NoHandle /\ LanSent(handle[s], u)')
  <2>1. CASE ok /\ s = x /\ u = t
    <3>1. handle'[s] = h
      BY <1>4, <1>7, <2>1
    <3>2. LanSent(handle[s], u)'
      BY <1>4, <1>7, <1>13, <2>1
    <3> QED  BY <1>2, <1>11, <2>1, <3>1, <3>2
  <2>2. CASE ~(ok /\ s = x /\ u = t)
    <3>1. copies'[s][u] = copies[s][u]
      BY <1>11, <2>2
    <3>2. LanSent(handle[s], u) => LanSent(handle[s], u)'
      BY <1>4, <1>13
    <3> QED  BY <1>4, <3>1, <3>2 DEF LanCopies
  <2> QED  BY <2>1, <2>2
<1> QED  BY <1>14 DEF LanCopies

LEMMA LanCopiesStep ==
  ASSUME ~Vanishing, Unmarkable = {}, Types, IInv, BusyInv, LanInv, LanCopies, [Next]_vars
  PROVE  LanCopies'
BY CalmSteps, LanCopiesIdle, LanCopiesCopying, LanCopiesOnMail, LanCopiesOnLan, LanCopiesOne

LEMMA BatchInit == Init => BatchInv
<1> SUFFICES ASSUME Init PROVE BatchInv
  OBVIOUS
<1>1. /\ channel.mail = {} /\ worker.mail = {} /\ worker.pc = "waiting"
      /\ mail = NoMail /\ mailJob.posted = {} /\ mailJob.mailing = {} /\ ~mailJob.threw
      /\ \A s \in Script : ticket[s] = NoTicket
      /\ copies = [s \in Script |-> [t \in Transport |-> 0]]
  BY DEF Init, NoMailJob
<1>2. Email \in Transport
  BY Constants
<1>3. ~NoTicket.error /\ ~NoMail.busy /\ ~NoMail.clogged /\ NoMail.requests = {}
  BY DEF NoTicket, NoMail
<1>4. MailCopies
  BY <1>1, <1>2 DEF MailCopies
<1>5. OneBatch
  BY <1>1, <1>3 DEF OneBatch, Batches
<1>6. MailAsked
  BY <1>1, <1>3 DEF MailAsked, MailOut, MailJobs, Batches
<1> QED  BY <1>1, <1>3, <1>4, <1>5, <1>6 DEF BatchInv, Batches

(* What was given to the mail copier still waits for it.                    *)
LEMMA MailOutPending ==
  ASSUME Types, IInv, MailAsked, NEW s \in Script, handle[s] # NoHandle,
         MailOut(handle[s]) \/ handle[s] \in mail.requests
  PROVE  Pending(ticket[s], Email) /\ Email \notin stamped[s]
<1>1. handle[s] \in Handle /\ Email \in Transport
  BY Constants DEF Types, TicketTypes
<1>2. Asked(handle[s], Email)
  BY <1>1 DEF MailAsked
<1>3. PICK x \in Script : handle[x] = handle[s] /\ Pending(ticket[x], Email)
  BY <1>2 DEF Asked
<1>4. x = s
  BY <1>3 DEF IInv, Numbered
<1>5. \A u \in Transport : Pending(ticket[s], u) => u \in Route[s] \ stamped[s]
  BY DEF IInv, InProgress
<1> QED  BY <1>1, <1>3, <1>4, <1>5

LEMMA MailSentIsOut ==
  ASSUME MailInv
  PROVE  \A h : MailSent(h) => MailOut(h)
BY DEF MailInv, MailSent, MailOut, Batches

LEMMA MailCopiesSame ==
  ASSUME Types, MailCopies, \A s \in Script : copies'[s][Email] = copies[s][Email],
         \A s \in Script, h \in Handle : handle[s] = h /\ MailSent(h) =>
            Email \in stamped'[s] \/ (handle'[s] = h /\ MailSent(h)'),
         \A s \in Script : handle[s] # NoHandle /\ MailLost(s) => handle'[s] # NoHandle /\ MailLost(s)',
         \A s \in Script : stamped[s] \subseteq stamped'[s]
  PROVE  MailCopies'
<1>1. ASSUME NEW s \in Script, copies'[s][Email] > 0
      PROVE  Email \in stamped'[s] \/ (handle'[s] # NoHandle /\ (MailSent(handle[s])' \/ MailLost(s)'))
  <2>1. Email \in stamped[s] \/ (handle[s] # NoHandle /\ (MailSent(handle[s]) \/ MailLost(s)))
    BY <1>1 DEF MailCopies
  <2>2. CASE handle[s] # NoHandle /\ MailSent(handle[s])
    <3>1. PICK h \in Handle : handle[s] = h
      BY <2>2, Constants DEF Types, TicketTypes
    <3>2. MailSent(h) /\ h # NoHandle
      BY <2>2, <3>1
    <3>3. Email \in stamped'[s] \/ (handle'[s] = h /\ MailSent(h)')
      BY <3>1, <3>2
    <3>4. handle'[s] = h => (MailSent(h)' <=> MailSent(handle[s])')
      OBVIOUS
    <3> QED  BY <3>2, <3>3, <3>4
  <2>3. CASE handle[s] # NoHandle /\ MailLost(s)
    BY <2>3
  <2> QED  BY <2>1, <2>2, <2>3
<1> QED  BY <1>1 DEF MailCopies

(* Steps that leave the mail copier and the answers alone.                   *)
LEMMA BatchSame ==
  ASSUME Types, BatchInv, UNCHANGED <<handle, ticket, mail, mailJob, stamped>>,
         \A s \in Script : copies'[s][Email] = copies[s][Email],
         Batches' = Batches, channel'.mail # {} => worker'.mail = {},
         worker'.pc \in {"waiting", "receiving", "emailing"} => worker'.mail = {},
         worker'.pc = "emailing" => worker.pc = "emailing"
  PROVE  BatchInv'
<1>1. \A h : MailSent(h)' <=> MailSent(h)
  BY DEF MailSent, Batches
<1>2. MailCopies'
  <2>1. \A s : MailLost(s)' <=> MailLost(s)
    BY DEF MailLost
  <2> QED  BY <1>1, <2>1, MailCopiesSame DEF BatchInv
<1>3. \A h : (MailOut(h)' <=> MailOut(h)) /\ (Asked(h, Email)' <=> Asked(h, Email))
  BY DEF MailOut, MailJobs, Asked
<1>4. MailAsked'
  BY <1>3 DEF BatchInv, MailAsked
<1>5. OneBatch'
  BY DEF BatchInv, OneBatch, MailJobs
<1> QED  BY <1>2, <1>4, <1>5 DEF BatchInv

LEMMA BatchIdle ==
  ASSUME Types, LanInv, BatchInv,
         \/ ProcessInbox \/ OnFinishScripts \/ StateCleared \/ Wake \/ Receive \/ GoWaiting
         \/ (\E t \in Lan : LanCopy(t) \/ LanThrows(t)) \/ UNCHANGED vars
  PROVE  BatchInv'
<1>1. channel \in ChannelType /\ worker \in WorkerType
  BY DEF Types, ThreadTypes
<1>2. CASE ProcessInbox \/ OnFinishScripts \/ StateCleared
  <2>1. UNCHANGED <<handle, ticket, mail, mailJob, stamped, copies, worker, channel.mail>>
    BY <1>1, <1>2 DEF ProcessInbox, OnFinishScripts, StateCleared, tickets, copiers, ChannelType
  <2> QED  BY <2>1, BatchSame DEF BatchInv, OneBatch, Batches
<1>3. CASE Wake \/ GoWaiting
  <2>1. UNCHANGED <<handle, ticket, mail, mailJob, stamped, copies, worker.mail, channel.mail>>
        /\ worker'.pc # "emailing" /\ (worker.pc \in {"waiting", "receiving"} \/ worker.mail = {})
    BY <1>1, <1>3 DEF Wake, GoWaiting, Handled, shared, tickets, copiers, ChannelType, WorkerType
  <2> QED  BY <2>1, BatchSame DEF BatchInv, OneBatch, Batches
<1>4. CASE Receive
  <2>1. UNCHANGED <<handle, ticket, mail, mailJob, stamped, copies>> /\ channel'.mail = {}
        /\ worker'.mail = channel.mail /\ worker'.pc = "handling" /\ worker.pc = "receiving"
    BY <1>1, <1>4 DEF Receive, shared, tickets, copiers, ChannelType, WorkerType
  <2>2. worker.mail = {}
    BY <2>1 DEF BatchInv, OneBatch
  <2> QED  BY <2>1, <2>2, BatchSame DEF Batches
<1>5. ASSUME NEW t \in Lan, LanCopy(t) PROVE BatchInv'
  <2>1. UNCHANGED <<handle, ticket, mail, mailJob, stamped, worker, channel.mail>>
        /\ (copies' = copies \/ \E x \in Script : copies' = Copied(x, t))
    BY <1>1, <1>5 DEF LanCopy, shared, tickets, ChannelType, Types, CopierTypes, JobType
  <2>2. ASSUME NEW x \in Script, NEW s \in Script PROVE Copied(x, t)[s][Email] = copies[s][Email]
    <3>1. t # Email /\ t \in Transport /\ Email \in Transport /\ copies \in [Script -> [Transport -> 0 .. 2]]
      BY Constants DEF Types, TicketTypes
    <3> QED  BY <3>1 DEF Copied
  <2>3. \A s \in Script : copies'[s][Email] = copies[s][Email]
    BY <2>1, <2>2
  <2> QED  BY <2>1, <2>3, BatchSame DEF BatchInv, OneBatch, Batches
<1>6. CASE UNCHANGED vars \/ \E t \in Lan : LanThrows(t)
  <2>1. UNCHANGED <<handle, ticket, mail, mailJob, stamped, copies, worker, channel>>
    BY <1>6 DEF vars, LanThrows, shared, tickets, copiers
  <2> QED  BY <2>1, BatchSame DEF BatchInv, OneBatch, Batches
<1> QED  BY <1>2, <1>3, <1>4, <1>5, <1>6

LEMMA BatchStart ==
  ASSUME Types, BatchInv, MailStart
  PROVE  BatchInv'
<1>1. /\ mailJob'.posted = {} /\ mailJob'.mailing = mailJob.posted /\ ~mailJob'.threw
      /\ mailJob.posted # {} /\ mailJob.mailing = {}
      /\ UNCHANGED <<handle, ticket, mail, stamped, copies, channel, worker>>
  BY DEF MailStart, NoMailJob, shared, tickets
<1>0. ~mailJob.threw
  BY <1>1 DEF BatchInv, OneBatch, MailJobs
<1>2. MailCopies'
  BY <1>0, <1>1, MailCopiesSame DEF BatchInv, MailSent, MailLost
<1>3. \A h : (MailOut(h)' <=> MailOut(h)) /\ (Asked(h, Email)' <=> Asked(h, Email))
  BY <1>1 DEF MailOut, MailJobs, Asked, Batches
<1>4. MailAsked'
  BY <1>1, <1>3 DEF BatchInv, MailAsked
<1>5. OneBatch'
  BY <1>1 DEF BatchInv, OneBatch, Batches
<1> QED  BY <1>1, <1>2, <1>4, <1>5 DEF BatchInv, Batches

(* A job of the mail copier is about a script in progress.                   *)
LEMMA MailJobPresent ==
  ASSUME Types, IInv, LanInv, BatchInv, NEW j \in MailJobs
  PROVE  /\ j.script \in Script /\ j.handle \in Handle /\ handle[j.script] = j.handle
         /\ j.script \in inbox /\ Email \notin stamped[j.script] /\ MailOut(j.handle)
<1>1. j \in JobType /\ j.handle # NoHandle
  BY DEF MailJobs, Types, CopierTypes
<1>2. j.script \in Script /\ j.handle \in Handle
  BY <1>1, Constants DEF JobType
<1>3. MailOut(j.handle)
  BY DEF MailOut
<1>4. Asked(j.handle, Email)
  BY <1>2, <1>3 DEF BatchInv, MailAsked
<1>5. PICK y \in Script : handle[y] = j.handle
  BY <1>4 DEF Asked
<1>6. Carries(j.handle, j.script)
  BY <1>2 DEF IInv, JobTrue, JobFor, MailJobs
<1>7. y = j.script
  BY <1>5, <1>6 DEF Carries
<1>8. j.script \in inbox
  BY <1>1, <1>2, <1>5, <1>7 DEF LanInv, Present
<1>9. Email \notin stamped[j.script]
  BY <1>1, <1>2, <1>3, <1>5, <1>7, MailOutPending DEF BatchInv
<1> QED  BY <1>2, <1>3, <1>5, <1>7, <1>8, <1>9

LEMMA BatchDone ==
  ASSUME MailResults \subseteq {"sent", "failed"}, Types, IInv, LanInv, MailInv, BatchInv, MailDone
  PROVE  BatchInv'
<1> DEFINE jobs == mailJob.mailing
           batch == {j.handle : j \in jobs}
<1>1. PICK o \in Outcome(jobs) :
        /\ copies' = [s \in Script |-> IF s \in {j.script : j \in {i \in jobs : i.handle \in o.ok}}
                                       THEN Copied(s, Email)[s] ELSE copies[s]]
        /\ PutMail(o)
  BY DEF MailDone
<1>2. /\ jobs # {} /\ UNCHANGED <<handle, ticket, mail, stamped, worker>>
      /\ mailJob'.mailing = {} /\ mailJob'.posted = mailJob.posted /\ mailJob'.threw = mailJob.threw
  BY DEF MailDone, shared, tickets, Types, CopierTypes
<1>3. channel'.mail = {o}
  BY <1>1 DEF PutMail, Types, ThreadTypes, ChannelType
<1>4. Batches = {} /\ mailJob.posted = {} /\ mail.busy /\ channel.mail = {} /\ worker.mail = {} /\ ~mailJob.threw
  BY <1>2 DEF BatchInv, OneBatch, Batches, MailJobs
<1>5. \A j \in jobs : /\ j.script \in Script /\ j.handle \in Handle /\ handle[j.script] = j.handle
                      /\ j.script \in inbox /\ Email \notin stamped[j.script] /\ MailOut(j.handle)
  BY MailJobPresent DEF MailJobs
<1>6. {i \in jobs : i.script \in inbox} = jobs
  BY <1>5
<1>7. /\ o.batch = batch /\ o.ok \subseteq batch /\ o.first \subseteq o.ok /\ o.general \in BOOLEAN
      /\ IF o.ok = batch THEN o.first = batch /\ ~o.general
         ELSE IF o.general THEN o.ok = {}
         ELSE IF o.first = o.ok THEN "stopped" \in MailResults
         ELSE "partly" \in MailResults
  BY <1>6 DEF Outcome
<1>8. Whole(o)
  <2>1. batch # {}
    BY <1>2
  <2>2. "stopped" \notin MailResults /\ "partly" \notin MailResults
    OBVIOUS
  <2> HIDE DEF batch
  <2> QED  BY <1>7, <2>1, <2>2 DEF Whole
<1>9. copies \in [Script -> [Transport -> 0 .. 2]] /\ Email \in Transport
  BY Constants DEF Types, TicketTypes
<1>10. ASSUME NEW s \in Script
       PROVE  /\ copies'[s][Email] < 2
              /\ copies'[s][Email] > 0 => Email \in stamped'[s] \/ (handle'[s] # NoHandle /\ MailSent(handle[s])')
  <2>1. \A h : ~MailSent(h)
    BY <1>4 DEF MailSent, Batches
  <2>2. copies[s][Email] < 2 /\ (copies[s][Email] > 0 => Email \in stamped[s])
    BY <1>4, <2>1 DEF BatchInv, MailCopies, MailLost
  <2>3. CASE \E j \in jobs : j.handle \in o.ok /\ s = j.script
    <3>1. PICK j \in jobs : j.handle \in o.ok /\ s = j.script
      BY <2>3
    <3>2. handle[s] = j.handle /\ Email \notin stamped[s] /\ handle[s] # NoHandle /\ handle[s] \in o.ok
      BY <1>5, <3>1, Constants
    <3>3. copies[s][Email] \in 0 .. 2
      BY <1>9
    <3>4. copies[s][Email] = 0
      BY <2>2, <3>2, <3>3
    <3>5. Copied(s, Email)[s][Email] = 1
      BY <1>9, <3>4 DEF Copied
    <3>6. copies'[s][Email] = 1
      BY <1>1, <3>1, <3>5
    <3>7. MailSent(handle[s])'
      BY <1>2, <1>3, <3>2 DEF MailSent
    <3> QED  BY <1>2, <3>2, <3>6, <3>7
  <2>4. CASE ~\E j \in jobs : j.handle \in o.ok /\ s = j.script
    <3>1. copies'[s] = copies[s]
      BY <1>1, <2>4
    <3> QED  BY <1>2, <2>2, <3>1
  <2> QED  BY <2>3, <2>4
<1>11. MailCopies'
  BY <1>10 DEF MailCopies
<1>12. Batches' = {o}
  BY <1>2, <1>3, <1>4 DEF Batches
<1>13. ASSUME NEW h, MailOut(h)' PROVE MailOut(h)
  <2>1. h \in batch
    BY <1>2, <1>4, <1>7, <1>12, <1>13 DEF MailOut, MailJobs
  <2> QED  BY <1>5, <2>1
<1>14. \A h : Asked(h, Email)' <=> Asked(h, Email)
  BY <1>2 DEF Asked
<1>15. MailAsked'
  BY <1>2, <1>13, <1>14 DEF BatchInv, MailAsked
<1>16. OneBatch'
  BY <1>2, <1>3, <1>4, <1>12 DEF BatchInv, OneBatch
<1> QED  BY <1>2, <1>8, <1>11, <1>12, <1>15, <1>16 DEF BatchInv

(* Scripts mailed before the thread gave up stay with the copier, which is   *)
(* taken for busy.                                                          *)
LEMMA BatchThrows ==
  ASSUME Types, IInv, LanInv, BatchInv, MailThrows
  PROVE  BatchInv'
<1> DEFINE jobs == mailJob.mailing
<1>1. PICK sent \in SUBSET jobs :
        copies' = [s \in Script |-> IF s \in {j.script : j \in sent} THEN Copied(s, Email)[s] ELSE copies[s]]
  BY DEF MailThrows
<1>2. /\ jobs # {} /\ UNCHANGED <<handle, ticket, mail, stamped, worker, channel>>
      /\ mailJob'.mailing = {} /\ mailJob'.posted = mailJob.posted /\ mailJob'.threw
  BY DEF MailThrows, shared, tickets, Types, CopierTypes
<1>3. Batches = {} /\ mailJob.posted = {} /\ mail.busy /\ ~mailJob.threw
  BY <1>2 DEF BatchInv, OneBatch, Batches, MailJobs
<1>4. Batches' = {} /\ MailJobs' = {}
  BY <1>2, <1>3 DEF Batches, MailJobs
<1>5. copies \in [Script -> [Transport -> 0 .. 2]] /\ Email \in Transport
  BY Constants DEF Types, TicketTypes
<1>6. ASSUME NEW s \in Script
      PROVE  /\ copies'[s][Email] < 2
             /\ copies'[s][Email] > 0 => Email \in stamped'[s] \/ (handle'[s] # NoHandle /\ MailLost(s)')
  <2>1. copies[s][Email] < 2 /\ (copies[s][Email] > 0 => Email \in stamped[s])
    BY <1>3 DEF BatchInv, MailCopies, MailSent, MailLost, Batches
  <2>2. CASE \E j \in sent : s = j.script
    <3>1. PICK j \in jobs : s = j.script /\ j \in sent
      BY <2>2
    <3>2. handle[s] \in Handle /\ Email \notin stamped[s] /\ MailOut(handle[s])
      BY <3>1, MailJobPresent DEF MailJobs
    <3>3. handle[s] # NoHandle /\ Pending(ticket[s], Email)
      BY <3>2, MailOutPending, Constants DEF BatchInv
    <3>4. copies[s][Email] \in 0 .. 2
      BY <1>5
    <3>5. copies[s][Email] = 0
      BY <2>1, <3>2, <3>4
    <3>6. Copied(s, Email)[s][Email] = 1
      BY <1>5, <3>5 DEF Copied
    <3>7. copies'[s][Email] = 1
      BY <1>1, <3>1, <3>6
    <3> QED  BY <1>2, <3>3, <3>7 DEF MailLost
  <2>3. CASE ~\E j \in sent : s = j.script
    <3>1. copies'[s] = copies[s]
      BY <1>1, <2>3
    <3> QED  BY <1>2, <2>1, <3>1
  <2> QED  BY <2>2, <2>3
<1>7. MailCopies'
  BY <1>6 DEF MailCopies
<1>8. MailAsked'
  BY <1>2, <1>4 DEF BatchInv, MailAsked, MailOut, Asked
<1>9. OneBatch'
  BY <1>2, <1>3, <1>4 DEF BatchInv, OneBatch, Batches, MailJobs
<1> QED  BY <1>2, <1>4, <1>7, <1>8, <1>9 DEF BatchInv

LEMMA BatchOnLan ==
  ASSUME Types, IInv, BusyInv, LanInv, MailInv, BatchInv, OnLanCopyDone
  PROVE  BatchInv'
<1>1. PICK m \in LanAnswer, x \in Script :
           /\ Answered(m, x)
           /\ SettleTickets(LanTickets(m), LanMarked(m), LanFinished(m))
           /\ worker.pc = "handling" /\ worker' = [worker EXCEPT !.lan = Tail(@)]
           /\ UNCHANGED <<main, channel, copies, budget, mail, mailJob>>
  BY LanDone
<1>2. worker'.pc = "handling" /\ worker'.mail = worker.mail
  BY <1>1 DEF Types, ThreadTypes, WorkerType
<1>3. m.to # Email /\ Email \in Transport
  BY Constants DEF LanAnswer
<1>4. /\ \A s \in Script : LanTickets(m)[s].req[Email] = ticket[s].req[Email]
                           /\ LanTickets(m)[s].error = ticket[s].error
      /\ \A s \in LanFinished(m) : s = x /\ IsFinished(LanTickets(m)[x])
  BY <1>1, <1>3, LanTicketOf
<1>5. \A s \in Script : /\ handle'[s] = IF s \in LanFinished(m) THEN NoHandle ELSE handle[s]
                        /\ ticket'[s] = IF s \in LanFinished(m) THEN NoTicket ELSE LanTickets(m)[s]
                        /\ stamped[s] \subseteq stamped'[s]
  BY <1>1, Stamping DEF SettleTickets
<1>6. \A s \in Script : ~ticket'[s].error
  BY <1>4, <1>5 DEF BatchInv, NoTicket
<1>7. \A s \in LanFinished(m) : ~Pending(LanTickets(m)[s], Email) /\ ~Pending(ticket[s], Email)
  BY <1>1, <1>3, <1>4, FinishedNone DEF BatchInv, Pending
<1>8. ASSUME NEW h \in Handle PROVE Asked(h, Email)' <=> Asked(h, Email)
  <2>1. Asked(h, Email)' <=> \E s \in Script : handle[s] = h /\ Pending(LanTickets(m)[s], Email)
    BY <1>1, <1>3, <1>7, SettledAsked
  <2> QED  BY <1>4, <2>1 DEF Asked, Pending
<1>9. Batches' = Batches /\ MailJobs' = MailJobs
  BY <1>1, <1>2 DEF Batches, MailJobs
<1>10. MailAsked'
  <2>1. mail.requests \subseteq Handle
    BY DEF Types, CopierTypes
  <2> QED  BY <1>1, <1>8, <1>9, <2>1 DEF BatchInv, MailAsked, MailOut
<1>11. OneBatch'
  BY <1>1, <1>2, <1>9 DEF BatchInv, OneBatch
<1>12. MailCopies'
  <2>1. ASSUME NEW s \in Script, NEW h \in Handle, handle[s] = h, MailSent(h)
        PROVE  handle'[s] = h /\ MailSent(h)'
    <3>1. handle[s] # NoHandle /\ MailOut(handle[s])
      BY <2>1, MailSentIsOut, Constants
    <3>2. Pending(ticket[s], Email)
      BY <3>1, MailOutPending DEF BatchInv
    <3>3. handle'[s] = h
      BY <1>5, <1>7, <2>1, <3>2
    <3>4. MailSent(h)'
      BY <1>1, <1>2, <2>1 DEF MailSent
    <3> QED  BY <3>3, <3>4
  <2>2. ASSUME NEW s \in Script, handle[s] # NoHandle, MailLost(s) PROVE handle'[s] # NoHandle /\ MailLost(s)'
    <3>1. s \notin LanFinished(m)
      BY <1>7, <2>2 DEF MailLost
    <3>2. handle'[s] = handle[s] /\ ticket'[s].req[Email] = ticket[s].req[Email]
      BY <1>4, <1>5, <3>1
    <3> QED  BY <1>1, <2>2, <3>2 DEF MailLost, Pending
  <2> QED  BY <1>1, <1>5, <2>1, <2>2, MailCopiesSame DEF BatchInv
<1> QED  BY <1>6, <1>9, <1>10, <1>11, <1>12 DEF BatchInv

LEMMA MailTicketError ==
  ASSUME Types, NEW m \in MailAnswer, NEW s \in Script, m.general \/ m.ok = m.batch, ~ticket[s].error,
         s \in MailSettled(m)
  PROVE  ~MailTicket(m, s).error
<1> DEFINE k == [ticket[s] EXCEPT !.error = @ \/ ~(m.general \/ handle[s] \in m.ok)]
<1>1. m.general \/ handle[s] \in m.ok
  BY DEF MailSettled
<1>2. ticket[s] \in TicketType
  BY DEF Types, TicketTypes
<1>3. k \in TicketType /\ ~k.error
  BY <1>1, <1>2 DEF TicketType
<1>4. Email \in Transport
  BY Constants
<1> HIDE DEF k
<1>5. \A ok \in BOOLEAN : ~MarkDone(k, Email, ok).error
  BY <1>3, <1>4, MarkDoneTicket
<1> DEFINE ok == handle[s] \in m.ok
<1>6. ok \in BOOLEAN /\ MailTicket(m, s) = MarkDone(k, Email, ok)
  BY DEF MailTicket, k
<1> HIDE DEF ok
<1> QED  BY <1>5, <1>6

(* The scripts of a batch are settled all, or wait all.                      *)
LEMMA BatchOnMail ==
  ASSUME Unmarkable = {}, Types, IInv, LanInv, MailInv, BatchInv, OnEmailCopyDone
  PROVE  BatchInv'
<1>1. PICK m \in worker.mail :
           /\ worker.pc = "handling" /\ worker.lan = <<>>
           /\ SettleTickets(MailTickets(m), MailSettled(m), MailFinished(m))
           /\ MailGoesOn(MailRequestsDone(m))
           /\ UNCHANGED <<main, channel, lan, lanJob, copies, budget>>
  BY OnMail
<1>2. worker \in WorkerType /\ m \in MailAnswer /\ mail \in MailType
  BY DEF Types, ThreadTypes, WorkerType, CopierTypes, MailType
<1>3. /\ Batches = {m} /\ channel.mail = {} /\ worker.mail = {m}
      /\ mailJob.posted = {} /\ mailJob.mailing = {} /\ ~mailJob.threw /\ mail.busy /\ ~mail.clogged /\ Whole(m)
  BY DEF BatchInv, OneBatch, Batches
<1> DEFINE c == MailRequestsDone(m)
<1>4. /\ c \in MailType /\ c.requests = mail.requests \ m.first /\ c.running = mail.running
      /\ (c.clogged <=> m.ok # m.batch) /\ ~c.busy
  <2>1. m.batch # {}
    BY <1>3 DEF Whole
  <2> QED  BY <1>2, <1>3, <2>1, MailRequestsDoneType DEF MailRequestsDone, MailType
<1> HIDE DEF c
<1>5. \/ ~c.clogged /\ ~m.general /\ m.ok = m.batch /\ m.first = m.batch
      \/ c.clogged /\ m.general /\ m.ok = {} /\ m.first = {} /\ m.batch # {}
  BY <1>3, <1>4 DEF Whole
<1>6. \A s \in Script : /\ handle'[s] = IF s \in MailFinished(m) THEN NoHandle ELSE handle[s]
                        /\ ticket'[s] = IF s \in MailFinished(m) THEN NoTicket ELSE MailTickets(m)[s]
                        /\ stamped[s] \subseteq stamped'[s]
                        /\ s \in MailSettled(m) => Delivered(MailTickets(m)[s]) \subseteq stamped'[s]
  BY <1>1, Stamping DEF SettleTickets
<1>7. ASSUME NEW s \in Script PROVE ~MailTickets(m)[s].error
  <2>1. CASE s \in MailSettled(m)
    <3>1. ~MailTicket(m, s).error
      BY <1>2, <1>5, <2>1, MailTicketError DEF BatchInv
    <3> QED  BY <2>1, <3>1 DEF MailTickets
  <2>2. CASE s \notin MailSettled(m)
    BY <2>2 DEF MailTickets, BatchInv
  <2> QED  BY <2>1, <2>2
<1>8. ASSUME NEW s \in MailFinished(m), NEW t \in Transport PROVE ~Pending(MailTickets(m)[s], t)
  <2>1. s \in Script /\ MailTickets(m)[s] = MailTicket(m, s) /\ IsFinished(MailTickets(m)[s])
    BY DEF MailFinished, MailSettled, MailTickets
  <2> QED  BY <1>7, <2>1, FinishedNone
<1>9. \A s \in Script : ~ticket'[s].error
  BY <1>6, <1>7 DEF NoTicket
<1>10. Email \in Transport
  BY Constants
<1>11. ASSUME NEW s \in Script
       PROVE  MailTickets(m)[s].req[Email] =
                IF handle[s] \notin m.batch THEN ticket[s].req[Email]
                ELSE IF handle[s] \in m.ok \/ ticket[s].req[Email] = "delivered" THEN "delivered" ELSE "tried"
  <2>1. MailTicket(m, s).req[Email] =
           IF handle[s] \in m.ok \/ ticket[s].req[Email] = "delivered" THEN "delivered" ELSE "tried"
    BY <1>2, MailTicketType DEF Types
  <2> QED  BY <2>1 DEF MailTickets, MailSettled
<1>12. ASSUME NEW h \in c.requests PROVE h \in Handle /\ Asked(h, Email)'
  <2>1. h \in mail.requests /\ h \notin m.first /\ h \in Handle
    BY <1>2, <1>4 DEF MailType
  <2>2. Asked(h, Email)
    BY <2>1 DEF BatchInv, MailAsked
  <2>3. PICK x \in Script : handle[x] = h /\ Pending(ticket[x], Email)
    BY <2>2 DEF Asked
  <2>4. Pending(MailTickets(m)[x], Email)
    BY <1>5, <1>11, <2>1, <2>3 DEF Pending
  <2>5. Asked(h, Email)' <=> \E s \in Script : handle[s] = h /\ Pending(MailTickets(m)[s], Email)
    BY <1>1, <1>8, <1>10, <2>1, SettledAsked
  <2> QED  BY <2>1, <2>3, <2>4, <2>5
<1>13. LiveRequests(c) = c.requests
  BY <1>12 DEF LiveRequests, Asked
<1>14. c.clogged => c.requests # {}
  <2>1. SUFFICES ASSUME c.clogged PROVE c.requests # {}
    OBVIOUS
  <2>2. PICK h \in m.batch : h \in Handle
    BY <1>2, <1>5, <2>1 DEF MailAnswer
  <2>3. MailOut(h)
    BY <2>2, <1>3 DEF MailOut
  <2>4. h \in mail.requests
    BY <2>2, <2>3 DEF BatchInv, MailAsked
  <2> QED  BY <1>4, <1>5, <2>1, <2>4
<1>15. /\ worker'.mail = {} /\ worker'.pc = "handling" /\ channel'.mail = {} /\ mailJob'.mailing = {} /\ ~mailJob'.threw
       /\ mail'.requests \subseteq c.requests
       /\ \/ ~mail'.busy /\ mailJob'.posted = {}
          \/ mail'.busy /\ ~mail'.clogged /\ mail'.requests = c.requests /\ mailJob'.posted = {Job(h) : h \in c.requests}
  <2>0. channel'.mail = {} /\ mailJob \in [posted : SUBSET JobType, mailing : SUBSET JobType, threw : BOOLEAN]
    BY <1>1, <1>3 DEF Types, CopierTypes
  <2>1. CASE c.requests = {}
    <3>1. mail' = NoMail /\ mailJob' = [mailJob EXCEPT !.posted = {}, !.threw = FALSE] /\ worker' = [worker EXCEPT !.mail = {}, !.pc = @]
      BY <1>1, <1>3, <2>1 DEF MailGoesOn, RemoveMail, c
    <3>2. mail'.requests = {} /\ ~mail'.busy
      BY <3>1 DEF NoMail
    <3>3. worker'.mail = {} /\ worker'.pc = "handling"
      BY <1>1, <1>2, <3>1 DEF WorkerType
    <3>4. mailJob'.posted = {} /\ mailJob'.mailing = {} /\ ~mailJob'.threw
      BY <1>3, <2>0, <3>1
    <3> QED  BY <2>0, <3>2, <3>3, <3>4
  <2>2. CASE c.requests # {}
    <3>1. /\ worker' = [worker EXCEPT !.mail = {}]
          /\ mail' = IF c.clogged THEN c ELSE [c EXCEPT !.requests = c.requests, !.busy = TRUE]
          /\ mailJob' = IF c.clogged THEN mailJob
                        ELSE [mailJob EXCEPT !.posted = {Job(h) : h \in c.requests}]
      BY <1>1, <1>13, <2>2 DEF MailGoesOn, c
    <3>2. worker'.mail = {} /\ worker'.pc = "handling"
      BY <1>1, <1>2, <3>1 DEF WorkerType
    <3>3. CASE c.clogged
      BY <1>3, <1>4, <2>0, <3>1, <3>2, <3>3
    <3>4. CASE ~c.clogged
      <4>1. mail'.busy /\ ~mail'.clogged /\ mail'.requests = c.requests
        BY <1>4, <3>1, <3>4 DEF MailType
      <4>2. mailJob'.posted = {Job(h) : h \in c.requests} /\ mailJob'.mailing = {} /\ ~mailJob'.threw
        BY <1>3, <2>0, <3>1, <3>4
      <4> QED  BY <2>0, <3>2, <4>1, <4>2
    <3> QED  BY <3>3, <3>4
  <2> QED  BY <2>1, <2>2
<1>16. Batches' = {}
  BY <1>15 DEF Batches
<1>17. ASSUME NEW h \in c.requests PROVE Job(h).handle = h
  BY <1>12, JobOf DEF Asked
<1>18. MailAsked'
  <2>1. ASSUME NEW h \in Handle, MailOut(h)' PROVE h \in mail'.requests
    <3>1. PICK j \in mailJob'.posted : j.handle = h
      BY <1>15, <1>16, <2>1 DEF MailOut, MailJobs
    <3> QED  BY <1>15, <1>17, <3>1
  <2> QED  BY <1>12, <1>15, <2>1 DEF MailAsked
<1>19. OneBatch'
  BY <1>15, <1>16 DEF OneBatch
<1>20. MailCopies'
  <2>1. ASSUME NEW s \in Script, NEW h \in Handle, handle[s] = h, MailSent(h) PROVE Email \in stamped'[s]
    <3>1. h \in m.ok
      BY <1>3, <2>1 DEF MailSent
    <3>2. h \in m.batch
      BY <1>3, <3>1 DEF Whole
    <3>3. Email \in Delivered(MailTickets(m)[s])
      BY <1>10, <1>11, <2>1, <3>1, <3>2 DEF Delivered
    <3>4. s \in MailSettled(m)
      BY <2>1, <3>2 DEF MailSettled
    <3> QED  BY <1>6, <3>3, <3>4
  <2> QED  BY <1>1, <1>3, <1>6, <2>1, MailCopiesSame DEF BatchInv, MailLost
<1> QED  BY <1>9, <1>16, <1>18, <1>19, <1>20 DEF BatchInv

LEMMA BatchForward ==
  ASSUME Types, IInv, BatchInv, StartForwarding
  PROVE  BatchInv'
<1>1. /\ worker'.mail = worker.mail /\ worker.mail = {} /\ worker'.pc \in {"crashed", "emailing"}
      /\ UNCHANGED <<channel, mailJob, stamped, copies>>
      /\ mail'.requests = mail.requests /\ mail'.busy = mail.busy /\ ~mail'.clogged
  BY Forwarding DEF StartForwarding, Handled, Types, ThreadTypes, WorkerType, CopierTypes
<1>2. \A s \in Script : /\ handle'[s] = IF s \in NewScripts THEN NewHandle(s) ELSE handle[s]
                        /\ ticket'[s] = IF s \in NewScripts THEN NewTicket(s) ELSE ticket[s]
  BY Forwarding
<1>3. \A s \in Script : ~ticket'[s].error
  <2>1. \A s : ~NewTicket(s).error
    BY DEF NewTicket
  <2> QED  BY <1>2, <2>1 DEF BatchInv
<1>4. Email \in Transport
  BY Constants
<1>5. \A h \in Handle : Asked(h, Email) => Asked(h, Email)'
  BY <1>4, ForwardAsked
<1>6. Batches' = Batches /\ MailJobs' = MailJobs
  BY <1>1 DEF Batches, MailJobs
<1>7. MailAsked'
  <2>1. mail.requests \subseteq Handle
    BY DEF Types, CopierTypes
  <2> QED  BY <1>1, <1>5, <1>6, <2>1 DEF BatchInv, MailAsked, MailOut
<1>8. OneBatch'
  BY <1>1, <1>6 DEF BatchInv, OneBatch
<1>9. MailCopies'
  <2>1. \A h : MailSent(h)' <=> MailSent(h)
    BY <1>1 DEF MailSent
  <2>2. \A s \in Script, h \in Handle : handle[s] = h => handle'[s] = h
    BY <1>2, NewUnnumbered, Constants
  <2>3. \A s \in Script : handle[s] # NoHandle => handle'[s] = handle[s] /\ ticket'[s] = ticket[s]
    BY <1>2, NewUnnumbered, Constants
  <2> QED  BY <1>1, <2>1, <2>2, <2>3, MailCopiesSame DEF BatchInv, MailLost
<1> QED  BY <1>3, <1>6, <1>7, <1>8, <1>9 DEF BatchInv

LEMMA BatchCopying ==
  ASSUME Types, IInv, LanInv, BatchInv, StartCopying
  PROVE  BatchInv'
<1> DEFINE running == mail.running \/ ToMail # {}
           live == LiveRequests([requests |-> MailRequests])
<1>1. /\ worker.pc = "emailing" /\ worker' = [worker EXCEPT !.pc = "waiting", !.new = {}]
      /\ Gone = {}
      /\ \A s \in Script : handle'[s] = handle[s] /\ ticket'[s] = RefreshRequests(ticket[s])
      /\ UNCHANGED <<inbox, stamped, channel, copies>>
      /\ IF running /\ ~mail.busy /\ MailRequests # {}
         THEN /\ mail' = IF live = {} THEN NoMail
                         ELSE [mail EXCEPT !.running = TRUE, !.requests = live, !.busy = TRUE]
              /\ mailJob' = [mailJob EXCEPT !.posted = {Job(h) : h \in live}]
         ELSE /\ mail' = [mail EXCEPT !.running = running, !.requests = MailRequests]
              /\ UNCHANGED mailJob
  BY AllCopying
<1>2. worker'.pc = "waiting" /\ worker'.mail = worker.mail
  BY <1>1 DEF Types, ThreadTypes, WorkerType
<1>3. Email \in Transport /\ mail \in MailType
      /\ mailJob \in [posted : SUBSET JobType, mailing : SUBSET JobType, threw : BOOLEAN]
  BY Constants DEF Types, CopierTypes, MailType
<1>4. ~mail.clogged /\ worker.mail = {}
  BY <1>1 DEF BatchInv, OneBatch
<1>5. \A s \in Script : ~ticket'[s].error
  BY <1>1, <1>3, RefreshedPending DEF BatchInv
<1>6. \A h : Asked(h, Email)' <=> Asked(h, Email)
  BY <1>1, <1>3, RefreshedPending DEF Asked
<1>7. ASSUME NEW h \in MailRequests PROVE h \in Handle /\ Asked(h, Email)' /\ \E s \in Script : handle'[s] = h
  <2>1. CASE h \in mail.requests
    <3>1. Asked(h, Email)
      BY <2>1 DEF BatchInv, MailAsked
    <3> QED  BY <1>1, <1>3, <1>6, <2>1, <3>1 DEF MailType, Asked
  <2>2. CASE h \notin mail.requests
    <3>1. PICK s \in ToMail : h = handle[s]
      BY <2>2 DEF MailRequests
    <3>2. s \in Script /\ handle[s] # NoHandle /\ ticket[s].req[Email] = "untried"
      BY DEF ToMail, Types, ThreadTypes, WorkerType
    <3>3. h \in Handle
      BY <3>1, <3>2, Constants DEF Types, TicketTypes
    <3>4. Asked(h, Email)
      BY <3>1, <3>2 DEF Asked, Pending
    <3> QED  BY <1>1, <1>6, <3>1, <3>2, <3>3, <3>4
  <2> QED  BY <2>1, <2>2
<1>8. live = MailRequests
  BY <1>7 DEF LiveRequests
<1>9. Batches' = Batches
  BY <1>1, <1>2 DEF Batches
<1> HIDE DEF live, running
<1>10. MailCopies'
  <2>1. \A h : MailSent(h)' <=> MailSent(h)
    BY <1>1, <1>2 DEF MailSent
  <2>2. mailJob.threw => mailJob' = mailJob
    BY <1>1 DEF BatchInv, OneBatch
  <2>3. \A s \in Script : MailLost(s) => MailLost(s)'
    BY <1>1, <1>3, <2>2, RefreshedPending DEF MailLost
  <2> QED  BY <1>1, <2>1, <2>3, MailCopiesSame DEF BatchInv
<1>11. CASE running /\ ~mail.busy /\ MailRequests # {}
  <2>1. mailJob.posted = {} /\ mailJob.mailing = {} /\ Batches = {} /\ ~mailJob.threw
    BY <1>11 DEF BatchInv, OneBatch
  <2>2. /\ mail' = [mail EXCEPT !.running = TRUE, !.requests = MailRequests, !.busy = TRUE]
        /\ mailJob' = [mailJob EXCEPT !.posted = {Job(h) : h \in MailRequests}]
    BY <1>1, <1>8, <1>11
  <2>3. mail'.requests = MailRequests /\ mail'.busy /\ ~mail'.clogged
    BY <1>3, <1>4, <2>2 DEF MailType
  <2>4. mailJob'.posted = {Job(h) : h \in MailRequests} /\ mailJob'.mailing = {} /\ ~mailJob'.threw
    BY <1>3, <2>1, <2>2
  <2>5. \A h \in MailRequests : Job(h).handle = h
    BY <1>7, JobOf
  <2>6. ASSUME NEW h \in Handle, MailOut(h)' PROVE h \in mail'.requests
    <3>1. PICK j \in mailJob'.posted : j.handle = h
      BY <1>9, <2>1, <2>4, <2>6 DEF MailOut, MailJobs
    <3> QED  BY <2>3, <2>4, <2>5, <3>1
  <2>7. MailAsked'
    BY <1>7, <2>3, <2>6 DEF MailAsked
  <2>8. OneBatch'
    BY <1>1, <1>2, <1>4, <1>9, <2>1, <2>3, <2>4 DEF BatchInv, OneBatch
  <2> QED  BY <1>5, <1>9, <1>10, <2>7, <2>8 DEF BatchInv
<1>12. CASE ~(running /\ ~mail.busy /\ MailRequests # {})
  <2>1. mail' = [mail EXCEPT !.running = running, !.requests = MailRequests] /\ mailJob' = mailJob
    BY <1>1, <1>12
  <2>2. mail'.requests = MailRequests /\ mail'.busy = mail.busy /\ ~mail'.clogged
    BY <1>3, <1>4, <2>1 DEF MailType
  <2>3. mail.requests \subseteq MailRequests
    BY DEF MailRequests
  <2>4. MailAsked'
    BY <1>7, <1>9, <2>1, <2>2, <2>3 DEF BatchInv, MailAsked, MailOut, MailJobs
  <2>5. OneBatch'
    BY <1>1, <1>2, <1>4, <1>9, <2>1, <2>2 DEF BatchInv, OneBatch, MailJobs
  <2> QED  BY <1>5, <1>9, <1>10, <2>4, <2>5 DEF BatchInv
<1> QED  BY <1>11, <1>12

LEMMA BatchStep ==
  ASSUME MailResults \subseteq {"sent", "failed"}, ~Vanishing, Unmarkable = {},
         Types, IInv, BusyInv, LanInv, MailInv, BatchInv, [Next]_vars
  PROVE  BatchInv'
<1>1. ~MailBlacklisted
  BY DEF MailBlacklisted
<1>2. CASE \/ ProcessInbox \/ OnFinishScripts \/ StateCleared \/ Wake \/ Receive \/ GoWaiting
           \/ (\E t \in Lan : LanCopy(t) \/ LanThrows(t)) \/ UNCHANGED vars
  BY <1>2, BatchIdle
<1>3. CASE MailStart
  BY <1>3, BatchStart
<1>4. CASE MailDone
  BY <1>4, BatchDone
<1>5. CASE OnLanCopyDone
  BY <1>5, BatchOnLan
<1>6. CASE OnEmailCopyDone
  BY <1>6, BatchOnMail
<1>7. CASE StartForwarding
  BY <1>7, BatchForward
<1>8. CASE StartCopying
  BY <1>8, BatchCopying
<1>9. CASE MailThrows
  BY <1>9, BatchThrows
<1>10. CASE Next
  BY <1>1, <1>2, <1>3, <1>4, <1>5, <1>6, <1>7, <1>8, <1>9, <1>10, CalmSteps
<1> QED  BY <1>2, <1>10

-----------------------------------------------------------------------------
(* Nothing is cleared, no other program deletes files, and headers can be    *)
(* marked.                                                                  *)
Quiet == MaxClears = 0 /\ ~Vanishing /\ Unmarkable = {}

LEMMA Calm == Quiet => (Spec => [](Types /\ IInv /\ BusyInv /\ LanInv /\ MailInv /\ LanCopies))
<1> SUFFICES ASSUME Quiet
             PROVE  Spec => [](Types /\ IInv /\ BusyInv /\ LanInv /\ MailInv /\ LanCopies)
  OBVIOUS
<1> USE DEF Quiet
<1>1. Init => BusyInv /\ LanInv /\ MailInv /\ LanCopies
  BY BusyInit, LanInit, MailInit, LanCopiesInit
<1>2. Types /\ IInv /\ AllMarked /\ BusyInv /\ LanInv /\ MailInv /\ LanCopies /\ [Next]_vars
        => BusyInv' /\ LanInv' /\ MailInv' /\ LanCopies'
  BY BusyStep, LanStep, MailStep, LanCopiesStep
<1>3. Spec => []AllMarked
  BY AlwaysMarked
<1> QED  BY <1>1, <1>2, <1>3, Inductive, PTL DEF Spec

(* A copier that is asked for its next script has one that is in progress    *)
(* (CopyNextScript, "obsolete handle"), as long as nothing is cleared, no     *)
(* other program deletes files, and headers can be marked.                  *)
THEOREM NeverObsolete == Quiet => (Spec => []NoObsoleteHandle)
<1> SUFFICES ASSUME Quiet PROVE Spec => []NoObsoleteHandle
  OBVIOUS
<1>1. Types /\ LanInv => NoObsoleteHandle
  BY DEF Types, CopierTypes, Copier, LanInv, Requested, Asked, Live, NoObsoleteHandle
<1> QED  BY <1>1, Calm, PTL

(* A script that still has to go somewhere is in the list of that copier,    *)
(* whatever copies failed: none is forgotten (TransferRequests, Distribute),  *)
(* under the same conditions.                                               *)
THEOREM PendingStaysQueued == Quiet => (Spec => []PendingIsQueued)
<1> SUFFICES ASSUME Quiet PROVE Spec => []PendingIsQueued
  OBVIOUS
<1>1. ASSUME Types, LanInv, MailInv PROVE PendingIsQueued
  <2> SUFFICES ASSUME Alive, NEW s \in Script, handle[s] # NoHandle
               PROVE  /\ \A t \in Lan : Pending(ticket[s], t) => lan[t].listed /\ handle[s] \in lan[t].requests
                      /\ Pending(ticket[s], Email) =>
                           \/ mail.running /\ handle[s] \in mail.requests
                           \/ worker.pc = "emailing" /\ s \in worker.new
    BY DEF PendingIsQueued, Pending
  <2>1. handle[s] \in Handle
    BY <1>1, Constants DEF Types, TicketTypes
  <2>2. ASSUME NEW t \in Lan, Pending(ticket[s], t) PROVE lan[t].listed /\ handle[s] \in lan[t].requests
    BY <1>1, <2>1, <2>2 DEF LanInv, Requested, Asked
  <2>3. MailWaits(s)
    BY <1>1 DEF MailInv, Alive
  <2> QED  BY <2>2, <2>3 DEF MailWaits
<1> QED  BY <1>1, Calm, PTL

(* A successful copy is not made again: not to a folder, and not by mail as   *)
(* long as a batch fails as a whole or not at all (OnCopyDone,               *)
(* MarkRequestDone, CopyNextScript, StartCopying), under the same conditions. *)
THEOREM NothingCopiedTwice ==
  Quiet /\ MailResults \subseteq {"sent", "failed"} => (Spec => []CopiedOnce)
<1> SUFFICES ASSUME Quiet, MailResults \subseteq {"sent", "failed"}
             PROVE  Spec => []CopiedOnce
  OBVIOUS
<1>1. Init => BatchInv
  BY BatchInit
<1>2. Types /\ IInv /\ BusyInv /\ LanInv /\ MailInv /\ BatchInv /\ [Next]_vars => BatchInv'
  BY BatchStep DEF Quiet
<1>3. LanCopies /\ BatchInv => CopiedOnce
  BY Constants DEF LanCopies, BatchInv, MailCopies, CopiedOnce
<1> QED  BY <1>1, <1>2, <1>3, Calm, PTL DEF Spec

=============================================================================

# A verification model of Code Co-op

Code Co-op is a version control system without a server. Every member of a
project keeps the whole history of the project and sends *scripts* (check-ins,
acknowledgments, resend requests) to the other members by e-mail. When two
members check in at once, all members must find out, each from the mail it
gets and in the order it gets it, which of the two check-ins wins, undo the
loser where it was executed, and know when nobody can change the outcome any
more. Within one member, the database and the project's files must change
together although the program may stop at any moment, and what is missing must
be asked for, whole or in parts, until it comes. On one computer, a dispatcher
copies scripts to folders and to the mail server with several threads, and a
server executes the commands of other programs, with several more. This
directory holds TLA+ models of these parts, TLC configurations that check them
on small instances, and proofs checked by TLAPS.

## Inventory

| part | state | operations | what is hard |
|---|---|---|---|
| History tree (`co-op/HistorySortedTree`, `HistoryNode`, `HistoryTraversal`) | array of nodes in depth-first order, FIS marker (First Interesting Script) | insert, substitute a missing script, match a lineage, confirm, undo | the winner depends on user ids only; one-pass insertion with flags and a stack |
| History database (`co-op/History`) | the set-change and the membership tree, disconnected list, next-script marker, logs | check-in, unpack a script, accept an acknowledgment, make lineages, mark executed or missing | caches that must follow the tree; scripts with gaps before them |
| Mailbox, Inbox (`co-op/Mailbox`, `MailboxHelper`, `Inbox`) | files in the inbox | unpack, hold, drop, retry | order of arrival; one transaction per round, corrupted files |
| Acknowledgments (`co-op/AckBox`, `CtrlScriptProcessor`) | must-send and can-send lists of one round | collect, send, execute control scripts | lost and repeated acknowledgments |
| Sidetrack (`co-op/Sidetrack`) | missing scripts and chunks with recipients and times | request, answer, collect chunks | timeouts, round robin, two lists that must not overlap |
| Execution (`co-op/Synch`, `Conflict`, `CmdExec`) | synch area | undo the losing branch, execute the next script | unreadable scripts, conflicts with local edits |
| Check-in (`co-op/SelExec`, `CheckIn`) | check-in area | guard, commit, broadcast | a stop between commit and broadcast |
| Member records (`co-op/ProjectDb`, `Common/MemberInfo`) | members, most recent and prehistoric script of each | update, test for the future and prehistory | newcomers, id limit |
| Membership tree (`co-op/HistoryPolicy`, `MembershipChange`, ...) | second tree, never undone | join, leave, change state, elect an administrator | changes the acknowledgment lists of the first tree |
| Transactions (`Serial/Transact`, `co-op/FileTrans`, `FileList`) | two data files, switch file, staging area | commit, redo, clean up | a stop between any two writes |
| Verification (`co-op/Visitor`, `Model::VerifyProject`) | areas on disk | redo or clear the staging area, repair | what a stop left behind |
| File states (`co-op/FileTransform`, `Common/FileState`) | the areas each file is in | check-out, check-in, synchronize, undo | long sequences of legal calls |
| Merging, Diff, Packer | none between calls | pure algorithms | boundaries |
| Inter-process communication (`co-op/IpcQueue`, `IpcConversation`, `ServerCtrl`; `SccDll/IpcConversation` for the client) | queue of invitations, one conversation at a time, a buffer and two events shared with each client | invite, visit a project, greet, execute commands, time out, kill, quit | three kinds of threads and another process; a conversation killed while it ends by itself; a client that gives up |
| Dispatcher (`Dispatcher/*`) | script tickets, copiers, channels between threads, marks in the files | route, copy to folders, mail in batches, retry, clear, quarantine | the main thread, the work queue's and one per copier; failures in part |
| Threads (`WinLib/Sys`) | shared objects, channels, stores for one item | own, start, kill, signal, wait | the last of two threads deletes the object |
| UI, Setup, CmdLine, Licenser, Email, Common | windows, files, registry | | outside the protocol |

Members interact by mail only. Inside one member, mail processing and user
commands run one at a time on the UI thread; each works in one transaction, and
mail about it is sent when the transaction has committed. Scripts pass between
the program and the dispatcher as files in two folders. In a program run as
server the commands of a conversation take the place of user commands; the lock
of the model keeps them apart from mail processing.

What makes the parts correct: all members agree on the tree and on the files
when the mail is delivered; what is confirmed is never undone; nothing is
taken for acknowledged of which somebody has not heard (the comments ask for more, that
nothing is acknowledged with a gap before it: see *Findings*); a lineage never makes a member drop or
misplace a script; caches (next script, FIS, disconnected list) are never
stale; every script is finally decided by everybody, and a missing one resent.
The dispatcher deletes no script that was not copied everywhere, forgets none, and
copies none twice. The server deletes nothing that a thread still uses, executes
each command in the project of its client, and leaves no client waiting. Where the code falls
short of this, *Findings* says so.

## Modules

* `HistoryTree` - the tree as a pure data structure: a record of the array of
  nodes and the FIS marker, and one operator per operation of
  `History::SortedTree` and of the parts of `History::Db` that work on one
  tree. The code's searches, walks forward or backward that stop at the first
  node with some property, are stated as the least or greatest index with that
  property. No recursion, so that it can be proved about.
* `Coop` - the members of one project and the mail between them. State per
  member: `hist`, `next` (`_nextScriptId`), `disconnected`
  (`_disconnectedScripts`), `inbox`, `recent` (`MemberInfo::_mostRecentScript`),
  `outgoing` (a check-in committed but not broadcast), `box` (`AckBox`).
  Global: `header` (the main lineage sent with a script) and `net`. One action
  per handler:

  | action | code |
  |---|---|
  | `CheckIn`, `Broadcast` | `Commander::IsInConflictWithMailbox`, `Model::ExecuteCheckin`, `Db::XAddCheckinScript` |
  | `UnpackScript` | `Mailbox::Db::XUnpackScript`, `History::Db::XProcessLineages`, `XInsertIncomingScript`, `Agent::XFinalize` |
  | `UnpackAcks` | `Agent::XFinalize`, `CtrlScriptProcessor::XExecuteScript`, `Db::XAcceptAck` |
  | `SendAcknowledgments` | `Model::SendAcknowledgments`, `AckBox::XSendAck`, `Db::XGetLineages` |
  | `RequestResend`, `AnswerRequests` | `Sidetrack::XProcessMissingScripts`, `CmdResendRequestExec::Do` |
  | `ExecuteNext`, `MarkMissing` | `Model::ExecuteSetScript`, `ExecuteSetChange`, `Db::XMarkUndone`, `XMarkExecuted`, `XMarkMissing` |
  | `Crash` | the program stops after a commit and before its mail |

* `CoopProperties` - what `Coop` should satisfy; `MCCoop` gives limits for TLC.
* `TreeInsertionSpec`, `TreeInsertion`, `MCTreeInsertion` - insertion as one
  step (the operator of `HistoryTree`), and as the code does it: `XTraverseTree`
  calling `InsertGatherer` node by node. The second refines the first.
* `ProjectData`, `Transaction` - one member's project on the disk: two data
  files and the switch that names the valid one (`data`, `switch`), the staging
  area and the project folder (`staging`, `project`: one content per file), and
  the program at work on them (`pc`, `quick`, `kind`, `loaded`, `change`); `owed`
  remembers, for the properties, what an interrupted transaction had staged. Every
  write to the disk is a step of its own, so that a stop can come between any two:

  | action | code |
  |---|---|
  | `Visit`, `Recover`, `EndRecovery` | `Model::ReadProjectDb`, `VerifyProject`, `StagingVerifier::Visit`, `StagingCleanup` |
  | `Begin`, `Execute` | `Transaction`, `Transformer` (what may happen to a file is in `CheckOut`, `UncheckOut`, `CheckIn`, `Synchronize`, `MergeContents`), `XPhysicalFile::CopyOverToProject` |
  | `Save`, `Saved`, `Flush` | `FileTransaction::PhaseOne`, `Transaction::Commit`, `SwitchFile::FlushState` |
  | `DeleteFile`, `MoveFile`, `Finish`, `Close` | `TransactionFileList::CommitOrDie`, `Transaction::CommitPhaseTwo`, `~Transaction` |
  | `Abort`, `CopyFails`, `SaveFails`, `Exit` | exceptions, `~TransactionFileList`, `~Transaction`, `ExitException` (`Fail`: with verification after a command, `MenuCommand`, without one where mail is processed, `DoRefreshMailbox`, and in the server) |
  | `Stop`, `StopStaging`, `StopCopying` | the program stops, possibly in the middle of copying a file |

* `ProjectStore` - what transactions promise: a database and the controlled
  files, which change in one step (`Commit`), and what may happen to checked-out
  files besides (`Edit`, `Relapse`: see *Findings*). `TransactionProperties` states that
  `Transaction` implements it, under this refinement mapping: the database is
  the data file that the switch names; a file is the staged one if it has to be
  copied, else the one in the folder. `MCTransaction` adds symmetry for TLC.
* `Sidetrack` - one member, the scripts it misses and the mail about them:
  `db` with the reduced history and the two lists of the sidetrack, `saved` (as
  last committed), `disk` (chunks' files, outside the transaction), `inbox`,
  `round` (where `ProcessMail` stands, which files it leaves out, which it is to
  delete), `box` and `acked`, `basket` (requests still to be sent) and `requests`,
  `known` and `dead` members; `spoilt` remembers of which scripts a chunk was damaged:

  | action | code |
  |---|---|
  | `ProcessMail`, `Commit`, `Abort`, `SkipShared` | `Model::ProcessMail`, `UnpackInbox`, `UnpackScripts` |
  | `UnpackScript`, `UnpackDamaged` | `Mailbox::Db::XUnpackScript`, and its exceptions |
  | `UnpackChunk`, `Reconstruct` | `Sidetrack::XAddChunk`, `XReconstruct` and `Missing` / `MissingChunk` |
  | `SendAcknowledgments` | `Model::SendAcknowledgments` |
  | `ProcessMissingScripts` | `Sidetrack::XProcessMissingScripts`, `Missing::SelectRecipient`, `XMakeChunkRequest` |
  | `SendRequests` | `ScriptBasket::SendScripts`, after the commit; a stop before it leaves members marked as asked who were not |
  | `Learn`, `Join`, `Leave`, `TimePasses` | what changes history, members and times from outside |
  | `Send`, `Answer` | the other members: `ScriptChunker`, `CmdResendRequestExec` |
  | `Stop`, `StopBeforeDelete` | the program stops, before or after the commit |

  `SidetrackProperties`, `MCSidetrack`.
* `Dispatcher` - the main thread, the work queue's thread and one thread for each
  copier. `known`, `toDo`, `finished`, `cleared` are `WorkQueue`'s members that the
  main thread shares; `channel` is what others put for the work queue; `handle`,
  `ticket` are the scripts in progress; `lan`, `mail` the copiers and `lanJob`,
  `mailJob` what their threads were given; `stamped` the marks in the files. One
  action per handler, or per stretch between two moments at which other threads
  are heard:

  | action | code |
  |---|---|
  | `ProcessInbox`, `OnFinishScripts`, `ClearState`, `StateCleared`, `KeepAlive` | `Dispatcher::Model`, `WorkQueue` called by the main thread |
  | `Wake`, `Receive`, `GoWaiting` | `WorkQueue::Run`, `Channel`, `SimpleStore` |
  | `OnLanCopyDone`, `OnEmailCopyDone` | `TransportManager::OnCopyDone`, `LanTransport`, `EmailTransport` |
  | `HandleClear` | `TransportManager::ClearState` |
  | `StartForwarding`, `StartCopying` | `WorkQueue::TransferRequests`, `TransportManager::Distribute`, `StartCopying` |
  | `LanCopy`, `MailStart`, `MailDone`, `MailBlacklisted` | the threads of the copiers |
  | `LanThrows`, `MailThrows` | an exception out of `DoCopy`, `DoEmail`, which `Run` swallows |
  | `Vanish` | somebody else deletes a file |

  `DispatcherProperties`, `MCDispatcher`.
* `ActiveObject` - `Win::ActiveObject`, `auto_active`, `SharedByTwo`: an object
  owned by its thread and by whoever started it. One step per access to what the
  two share. It has no behaviour of its own; `IpcQueue` extends it.
* `IpcQueue` - the server mode. `window` (messages and timers), `project` (which
  one the model is in), `queue` (`Queue`'s members and where its thread stands),
  and for each conversation `conv` (its thread), `shm` (shared buffer and events)
  and `client`:

  | action | code |
  |---|---|
  | `Invite`, `EndInvitation`, `Post`, `EndCommand` | `ClientConversation::FindServer`, `PostCmd` (`SccDll`) |
  | `OnInitiate`, `OnTerminate`, `OnAbort`, `OnBackup`, `OnKeepAlive`, `OnPendingMerge` | `ServerCtrl::OnRegisteredMessage`, `OnTimer`, `Queue::InitiateConv` |
  | `Wait`, `Check`, `Report` | `Queue::Run` |
  | `Detach`, `MarkDying`, `FlushThread`, `WaitForDeath`, `Release` | the queue lets go of a conversation: `ServerConversation::Detach`, `ActiveObject::Kill`, `auto_active::reset` |
  | `TakeRequest`, `NoMoreRequests`, `Visit`, `FailVisit`, `Create`, `FailCreate`, `Share`, `Start` | `Queue::NextConversation`, `Context::VisitProject`, `ActiveObject::StartThread` |
  | `Greet`, `Listen`, `Execute`, `Executed`, `FailCommand`, `LoseCommand`, `WakeupClient`, `IsLast` | `ServerConversation::Run`, `ExecuteCmd` |
  | `Finish`, `Notify`, `Leave`, `ThreadDies` | `Queue::OnFinishConv`, `ActiveObject::ThreadEntry` |

  `IpcQueueProperties`, `MCIpcQueue`.
* `TreeShapeProofs`, `TreeInsertionProofs`, `CoopProofs`, `AcknowledgmentProofs`,
  `TransactionProofs`, `SidetrackProofs`, `IpcQueueProofs`, `DispatcherProofs` - lemmas about
  the operators, inductive invariants, and theorems.

Definitions marked "Variant" are what a plausible mistake in the definition
after them would look like. No specification uses them; they serve to see that
each property can fail.

## Decisions

* *Root.* Every member starts with the full sync unpacked: one executed and
  confirmed script, the creation marker, whose author (user 0) does not vote.
* *Members* are a fixed set of voting members; a smaller user id wins.
* *Ids* are author and ordinal. Ordinals here count set changes only, since
  control scripts do not change what others record of the sender
  (`Mailbox.cpp:814`).
* *Mail* is a set. With `Redelivery = {TRUE}` a message read stays in transit:
  it can be lost (never read), repeated and overtaken. With `{FALSE}` each
  message is read once, in any order.
* *Acknowledgments.* A control script with several commands is sent as several
  messages with the same lineage, which allows more interleavings. Each side
  lineage is processed before its acknowledgment, as in `XUnpackScript`, and
  the next-script marker is looked up between the two.
* *Transactions.* Each message is unpacked in a transaction of its own. The
  code unpacks what it finds in the inbox in one; a stop in the middle then
  leaves the inbox as it was.
* *Newcomers.* `Newcomer` holds the members that had checked in nothing before
  the root. Their most recent and prehistoric markers start invalid
  (`History.cpp:1170-1243`): nothing is from their future until they are heard of, and an
  unknown lineage may be taken for prehistoric. Of other members old scripts are in
  everybody's history.
* *Crashes* lose the unsent broadcast or acknowledgments. `Coop` takes a
  transaction as one step; `Transaction` shows that it is. The two are not
  composed: what `Coop` keeps of a member is in the database of `Transaction`.
* *Files* in `Transaction` are their contents, one model value each, and
  `Partial` stands for what is left of an interrupted copy. A check sum is the
  content itself: two contents with one check sum are not considered. Renaming,
  folders, new files not yet checked in, and the areas other than project and
  staging are left out, so is an uncontrolled file in the way of a move.
* *The switch* is three bytes written at once, taken as atomic. A data file is
  unreadable while it is written.
* *The server* does transactions of both kinds in quick visits: unpacking mail is one with files
  (`Inbox.cpp:71`). `Overlapping` says whether files may be staged while an interrupted transaction waits to
  be redone; the code does not prevent it, and what happens then is a finding. With `FALSE`, as in
  `transactions` and the theorems, everything else may be done then, also transactions that stage nothing.
* *Failed transactions.* A command of the user's that fails is followed by a verification
  (`CoopCtrl.cpp:924-955`), mail that fails to be processed is not (`Commander.cpp:3378-3468`), nor is a command
  in the server. What a failed save leaves in the staging area may therefore be there when the next transaction
  begins. Files get there in one way only (`XPhysicalFile::CopyOverToProject`), which enters each on
  the list that `Abort` deletes: the other one, `XPhysicalFile::OverwriteInProject`, has no caller (that of
  `BuiltInMerger.cpp:56` is a function of `PhysicalFile`).
* *Resending.* In `Coop` whom to ask is a free choice; the code asks round robin, on
  a timer. `Sidetrack` models that, with the history reduced to whether a script is
  unknown, missing or recorded, which is all that the sidetrack asks of it.
* *Time.* No clock is modelled. In `Sidetrack` entries become due at any moment, all
  at once; in `IpcQueue` a timeout comes whenever the thread waits; in
  `Dispatcher` the work queue wakes by an event or without one.
* *Faults* of `Sidetrack` (files lost, damaged, held by another program, stops,
  members who leave) are taken from `Fault`, at most `MaxFaults` of them; those of
  `Dispatcher` (failed copies and batches, exceptions, refused addresses) at most
  `MaxFailures`. Without a bound nothing would have to arrive. Exceptions come from copiers in `Throwing`
  (`FileLocker.cpp:32`, `ActiveTransport.cpp:407`, `Processor.cpp:197`), marks in headers fail for
  transports in `Unmarkable`.
* *Routing* is left out of `Dispatcher`: each script comes with the transports it
  has to take (`Route`). What is delivered to projects on the same computer
  is not modelled. Which script a copier takes next is a free choice among
  those that wait for it (the code takes the smallest file).
* *Undefined behaviour.* A thread that answers to a store that is gone, or a handler
  that uses a deleted object, may crash the dispatcher or not (`"crashed"`).
  `IsAlive` asks a handle that may have been closed: any answer
  (`IpcQueue!WaitForDeath`). A null event of an invitation that was withdrawn: the
  server ends, or the exception leaves the handler and the invitation is dropped.
* *Commands* in `IpcQueue` succeed, fail with an error for the client, or end by an
  exception that nothing answers. Requests for data are taken as commands.
* *Locks.* The queue's lock is held over more than one step only while a
  conversation is made; `QueueFree` stands for it. The model's is held while a
  command is executed (`ModelFree`); a visit takes it and gives it back.
* *Left out of the actions of* `Coop`: chunks, packages, full sync, membership scripts,
  receivers and observers, defects, labels, archives, restored backups, import, the files and conflicts
  with them.
* If no executed and confirmed script is left when the FIS marker is repaired
  the code throws; the model keeps the marker. `FisIsSettled` says it does not happen.

## Runs and bounds

`tlc -config X.cfg M.tla`, where M is the MC module that the name of the
configuration begins with. `Limit<a><b>..` says how many scripts each member may
check in; the smaller user id wins.

| run | configuration | question | states |
|---|---|---|---|
| `losing_branches` | `MCCoopBranches` | Does the tree stay one, are caches fresh, does nothing confirmed change, is no mail dropped, is the FIS settled, do members converge and decide each script in the end, when the owner of a losing branch keeps checking in to it, his program may stop before it mails, the winning script may be unreadable, and its author asks for what he misses? | 235,264 |
| `unreliable_mail` | `MCCoopUnreliable` | Do records stay well typed, do members agree on what precedes a script, is only what is known acknowledged, and everything confirmed in the end, when mail is lost, repeated and reordered, and what is missing is asked for? | 120,651 |
| `gap_acknowledged` | `MCCoopGap` | A comment about scripts with missing predecessors, refuted (see Findings) | violation |
| `three_members` | `MCCoopThree` | Do all agree on what is confirmed, when two check in at once, either may stop before mailing, and two ask for what they hear of from others? | 250,285 |
| `tree_insertion` | `MCTreeInsertion` | Does the node by node traversal insert what the operator says, in every tree of up to four scripts? | 55,524 |
| `transactions` | `MCTransaction` | Do database and files change together, wherever the program stops, whatever fails, followed by a verification or not? | 800,061 |
| `interrupted_redo` | `MCTransactionServer` | A comment about redoing, refuted (see Findings) | violation |
| `chunks` | `MCSidetrack` | Does a script arrive, whole or in chunks of either size, and is nothing acknowledged that is lost, with one fault of any kind? | 707,725 |
| `dispatch` | `MCDispatcher` | Is everything delivered once, and does no thread wait for one that waits, when copies and batches fail, with an answer or by an exception? | 39,470 |
| `dispatch_clears` | `MCDispatcherClears` | The same threads when the state is cleared, files vanish, batches are sent in part, copiers throw and headers cannot be marked: is no script forgotten, none deleted too soon, the main thread never left waiting? | 1,420,966 |
| `conversations` | `MCIpcQueue` | Are conversations' objects and data deleted once and not too soon, whatever times out, and is every client woken? | 1,554,623 |
| `leaves_project` | `MCIpcQueueLeaves` | A comment about leaving the project, refuted (see Findings) | violation |

Why these bounds. In `MCCoop`, two members suffice for a conflict, and 1 + 2 scripts are the
least with which a losing branch is longer than the winning one, a script waits
in an inbox for another, and a lineage is of more than one script; both orders of user id
occur, since the member with the longer branch has the larger id in `losing_branches`
and, in `tree_insertion` (2 + 1 + 1 scripts of three members), the smaller. Two
scripts of one member (`unreliable_mail`) leave a gap when the second comes first, whose
acknowledgment must wait; as many messages as that may be taken or kept in transit, in every combination
(`Redelivery = {TRUE, FALSE}`). Chains of two missing scripts need three scripts of one member, which
are in `gap_acknowledged` and `tree_insertion`; without repeated mail all properties of `unreliable_mail` were
checked for them as well (634,929 states). Three members (`three_members`) are needed for an
acknowledgment list to shrink twice, and for one to hear of a script from
somebody who is not its author. That a script lost by a stop is decided in the end (`EverybodyDecides`) is
checked in `losing_branches`: its owner checks in a second one, whose lineage tells of the first, and which waits in
the other's inbox or leaves a placeholder there until that one has asked; a script that nobody mentions again is lost. Beyond that, dependents of a *dropped*
script (`RemoveDependents`) need 1 + 3 scripts and are too many states for a
short run. Each bound is a limit on how often members check in. Nothing else is capped:
`net`, the inbox and the boxes are sets over finitely many messages.

`transactions` has two files, which are the least with which one transaction
can leave a file half done while another file is finished, and two contents; four
commits let a file be added, checked out, checked in and changed by a script, with
a stop or a failure in each of these, and let a transaction that is interrupted
and redone follow one whose failure left something in the staging area. Files and contents are interchangeable, and all
properties of the run are safety properties, so symmetry is sound.

`chunks` has one script, since nothing in the sidetrack relates two scripts but
the loop over them; two parts of either size, so that a set of chunks of one size
can be complete while that of the other is not (with three parts of one size all properties
were checked as well: 1,527,121 states); one member who has the script from the
start and one who is its author and joins later, so that a round
is exhausted and begins again. One fault: after it all must recover, but for a damaged chunk, after which
only that script may be stuck (*Findings*). `Historic` is
empty here; two scripts, one of them historic, with whole scripts and one size of two chunks
were checked as well (1,440,017 states). A member who left does not return.

`dispatch` has a script for a folder and the server, and one for two folders and the
server, so that a copier has a queue and a batch has two scripts; three failures
let each of the three transports fail, or one of them three times, with an answer or by an exception. With clearing
the state space is much larger, so `dispatch_clears` has a folder less, one clear and
one failure; four tickets let both scripts be handed over again after it.
`LeastCount` bounds how far the count of a ticket can go down, and `copies` counts to two.

`conversations` has two clients with a command each, of different projects, one of them to
be continued in the GUI: one conversation may be timed out, killed or lost while
the other waits in the queue, and the server may be told at any moment to quit for a backup.

Deadlock checking is on for transactions. It is off elsewhere, where the
system may stop: members need not check in, all scripts may be delivered, all
clients may have ended.

## Fairness

*Protocol* (`Coop`). `FairSpec` assumes, for each member, that work is done when there is some, and
that missing scripts are asked for. The code schedules both by timer and
message: a change in the mailbox directory posts a message that ends in the
unpacking handler, a periodic timer repeats it while work is pending
(`co-op/CoopCtrl.cpp:503-528` and `:991`, `co-op/Inbox.cpp:87`), the handler sends
acknowledgments and answers before it returns, and missing scripts are asked for
after a delay that is checked each time the handler runs. `HasWork` and
`Misses` are stated as conditions on the state that imply that the action is
enabled, so `[]<>~HasWork(m) \/ []<><<Work(m)>>_vars` is weak fairness without
`ENABLED`. It is assumed of `Work` as a whole and not of each
message: fairness of every message would be a stronger assumption than the handlers need here, since with
`Redelivery = {FALSE}` each message taken leaves the mail, so none waits for
ever. Check-ins, crashes and unreadable scripts have no fairness.
Executing scripts is the member's decision in the code unless automatic
execution is on; the liveness runs are about members who do.

Liveness is not claimed with lost mail: a broadcast that is lost and that no
later lineage mentions is never heard of.

*Sidetrack.* `Work` is weakly fair as a whole, for the same reason, and so is
`TimePasses` (the age of an entry is tested in each call). Of the requests for a script to members who have it, one is answered in the
end: weak fairness for each script, of all answers to them together, since each answer is a handler of another program.
Nothing is assumed of members who have not got the script, nor of each request. Joining, leaving, sending for the first time and faults have
no fairness.

*Dispatcher.* Each thread goes on as long as it can: weak fairness of the work
queue's steps together, of each folder's copier, and of the mail copier. The
main thread is called again for changes of the folder, for messages and by
timers: weak fairness of `ProcessInbox` and `OnFinishScripts`, and of
`StateCleared`, for which it waits in a loop. Failures, exceptions, clears, vanishing files and
the restart of a dead thread (`KeepAlive`) have none.

*Conversations.* The queue's thread and each conversation's are scheduled, posted
messages are handled, and a client whose event is set runs: weak fairness of
`QueueStep`, of `ConvStep(c)`, of the window's messages, and of a woken client's
step. No client has to invite, post or give up, and no timer of the window has to
come; so `ClientsReturn` says that nobody needs his timeout.

## Proofs

`tlapm M.tla` for `TreeShapeProofs`, `TreeInsertionProofs`, `CoopProofs`, `AcknowledgmentProofs`,
`TransactionProofs`, `SidetrackProofs`, `IpcQueueProofs` and `DispatcherProofs`. One trap for those
who extend the modules: `tlapm` lets a prefix `UNION` or `SUBSET` reach over an infix operator after
it, TLC does not; the modules put it in parentheses where this matters.

### The protocol

Assumed of the
constants are `MemberAssumption` (user ids are non-zero naturals, limits
are naturals) and `CoopAssumption` (the sets that
say what may fail are subsets of the members, scripts or Booleans). So the
theorems hold for any number of members and scripts and any combination of
lost, repeated and reordered mail, crashes and unreadable scripts, but for two that say
in their statement which of these they exclude.

The first part of `TreeShapeProofs` proves of each operator of `HistoryTree` that it yields a
well typed history and `Keeps` the old one: no id in the tree before
it is absent after. `CoopProofs` uses them action by action. The inductive invariant is

    IInv == TypeOK /\ FisRecorded

`TypeOK` alone is not inductive: `MissingScripts`, `NextMarker` and the
acknowledgments search from the index of the FIS marker, and index 0 would put
the search outside the array. `FisRecorded` (the marker is the id of a node) keeps it in, and
is itself preserved because operations keep nodes and repair the marker only to
a node they found.

| theorem | statement | code |
|---|---|---|
| `TypeCorrect` | `Spec => []TypeOK` | all records and mail |
| `FisAlwaysFound` | `Spec => [](\A m \in Member : FisIdx(hist[m]) # 0)` | `SortedTree::GetFisIdx`, assertions that the FIS is found |
| `NothingForgotten` | no step removes a script or placeholder from a history | every operation of `History::Db` on the tree |

*The shape of the trees.* The rest of `TreeShapeProofs` and the second half of `CoopProofs` prove what the members'
histories look like. The first is about one tree. A depth-first array is described by the function from
each index to that of its predecessor (`Preorder`: it points backward, and two
nodes' ranges are nested or apart), and a path or a subtree by `Under`. That inserting a chain of nodes at
an index leaves such an array is a lemma about functions on numbers (`SplicedPreorder`, `SplicedUnder`);
`InsertionPlace` shows that the index that the code finds by looking at the branches of one node
only is right for the whole tree, and that the code rejects exactly the branch that loses. `Good`
is what holds of each history: a tree (`Tree`: unique ids, depth first, branches in order, the
branch points marked, the trunk last), the executed scripts a path, the marker
executed and confirmed (`Sound`), each node where its header says (`Known`), and the owner's scripts
executed or rejected, with none behind the executed tip (`OwnDone`: so two check-ins never fork). The second composes that with mail. The invariant is

    ShapeInv == IInv /\ HistoriesGood /\ NextMarkerFresh /\ OwnRecorded
                /\ OneBranch(header) /\ HeadersLinked /\ AcksLinked /\ MailCheckedIn

No part can be left out. Where a script hangs is known from a lineage, which may come from
anybody, so all lineages, sent with scripts (`HeadersLinked`) and with acknowledgments (`AcksLinked`),
name scripts in the order in which they were checked in on each other.
That no two branches of one author leave a script, without which order by
author is no order, needs `OneBranch` of the headers of all scripts, and that in turn that one's own scripts are
never forgotten (`OwnRecorded`). Mail and inboxes
hold only scripts that were checked in (`MailCheckedIn`). The marker of the next script is
stored by some handlers before the last change to the history, which turns out not to matter to it.

| theorem | statement | code |
|---|---|---|
| `ShapeOfHistories` | `Spec => []TreeShape` | `XInsertNewNode`, `XRejectBranch` and all that use them |
| `FilesAreABranch` | `Spec => []ExecutedIsBranch` | `XMarkExecuted`, `XMarkUndone`, `XAddCheckinScript` |
| `FisStaysSettled` | `Spec => []FisIsSettled` | the marker of the First Interesting Script |
| `NextStaysFresh` | `Spec => []NextMarkerFresh` | `XUpdateNextMarker`, `_nextScriptId` |
| `NextAlwaysReady` | `Spec => []NextIsReady` | its assertion |
| `PredecessorsAlwaysAgree` | `Spec => []PredecessorsAgree` | the assertion of `XInsertIncomingScript` |
| `MembersConverge` | `Spec => []Converged` | the same tree from the same scripts in any order |
| `MailIsKept` | `Spec => []MailNeverDropped`, if `Newcomer = {}` | `XCanUnpackScript`; false with newcomers (*Findings*) |

`MembersConverge` needs no induction of its own: an array that is `Good` is determined by the set of its ids and
the headers (predecessors, depth first, order by author), and so is what is rejected and,
when nothing is left to execute, what is executed.

*Acknowledgments.* `AcknowledgmentProofs` relates the histories of several members to the
acknowledgments in the mail and in the boxes. It speaks of the scripts and not of trees: `Anc(hdr, x, y)`
(*y* is built upon *x*, as the headers say), `Beats` (two scripts follow the same one, and the
author of the first has priority), `Loses(hdr, S, x)` (*S* has a script that beats *x* or something *x* is built
upon). What a `Good` history rejects is exactly what loses there (`RejectedLoses`). The invariant is

    AckInv == ShapeInv /\ Agreed(header, hist, net) /\ BoxTrue /\ HeardAll

where `Agreed` is the conjunction of

* `AllConfirmedFinal`: what a member has accepted and confirmed is `Final`, recorded by every
  member while nobody knows of a script it loses against. New scripts cannot break this: to beat it,
  one would have to follow a script that all have left behind.
* `OwnAwaited`: whoever need not acknowledge a member's script any more has recorded it, with all it
  is built upon, except what its author itself knows to be lost (`Recorded`); and if something it is
  built upon has lost somewhere and the author does not know it, it still awaits somebody
  who does, and whose acknowledgments in the mail show it by the side lineage (`LossAwaited`). This is the
  reason for the side lineage: without it two members may each confirm a branch of their own.
* `AcksTrue`: who sent an acknowledgment has recorded the script, and who sent a make-reference has it
  final, or its lineage shows what it lost against.
* `AllTidy`: what is confirmed is a prefix of the trunk (`ConfirmedUpTo`, so that an acknowledgment of a script may
  count for all older ones), and one's own scripts are never missing.

`BoxTrue` says the same of what is collected and not yet sent, and `HeardAll` that members know the number of
each script they have recorded. Acknowledgments are proved to be true when they are *collected*, but the
lineage is added when they are *sent*, in between the history may only gain executed scripts and nothing confirmed is
lost. `WaitInv` adds that side lineages start with a script that was checked in (`StartsOld`) and that
what a member waits for as a reference from the future is not recorded there (`Pending`). With that, the oldest of
the scripts an inbox holds connects.

| theorem | statement | code |
|---|---|---|
| `ConfirmedAlwaysAgree` | `Spec => []ConfirmedAgree` | `XAcceptAck`, `ConfirmAllOlderNodes`, `XProcessLineages` |
| `ConfirmedForGood` | `Spec => ConfirmedStays` | the same, `XRejectBranch`, `XMarkUndone` |
| `AcknowledgedAlwaysKnown` | `Spec => []AcknowledgedIsKnown` | what `ConfirmAllOlderNodes` takes for granted |
| `NobodyStranded` | `Spec => []NothingStranded` | the inbox, `_disconnectedScripts` |
| `NothingStaysUnconfirmed` | `Spec => []AllConfirmed`, if `Crashing`, `Corruptible` and `Newcomer` are empty | `AckBox::RememberAck`, `XAcceptAck`, `XProcessLineages` |

All but the last hold for any constants: with mail lost, repeated and reordered, members who stop before
they mail what they committed, unreadable scripts, newcomers, and members who acknowledge scripts with a gap before
them, as they do (*Findings*).

The last one needs that whatever is due gets sent and can be used. It is false when programs stop or scripts turn
out unreadable (`unreliable_mail` with `Crashing = {2}`, or with the first script in `Corruptible`, finds it in seconds):
an acknowledgment is sent once, so it is gone when the program stops between the commit and the mail, and what follows
a script that was marked as missing is not acknowledged. With newcomers `OnItsWay` below is false, because scripts are
deleted from the inbox (*Findings*); TLC found no counterexample to `AllConfirmed` itself among two newcomers with
three scripts, but this argument does not cover them. Mail may still be repeated and overtaken in any way; a message that is never read stays in `net`, and then
`AllConfirmed` says nothing. The invariant is

    Lossless == AckInv /\ AwaitsAll(hist) /\ OnItsWay(header, hist, inbox, outgoing, net)
                /\ AcksOwed(header, hist, box, net) /\ RefsOwed(header, hist, box, net)
                /\ OwnHeard(hist) /\ AcksSent(hist, net)

* `OnItsWay`: a script checked in is at each member, in its inbox or in the mail.
* `AcksOwed`: who has a script with all it is built upon, and knows of nothing it loses against (`Owes`), has its
  acknowledgment in the box or in the mail, or the author has taken it. This is where a script with a gap before
  it counts: it is owed by the step that fills the gap, together with those that waited for it.
* `RefsOwed`: what is confirmed at one member is so at another, or a make-reference on its way to that one names
  a script the other has recorded behind it. A make-reference can arrive first at somebody who does not know
  the script; `OwnHeard` and `AcksTrue` exclude that: who is no longer awaited has recorded it.
* `AwaitsAll`: nobody awaits anybody but the author, and the author not itself. `AcksSent`: a make-reference
  comes from somebody who has confirmed what it names.

With no mail left all members have the same scripts, so the same lose everywhere; the rest is owed by all,
taken by the author, confirmed there, and so everywhere.

*The insertion traversal.* The theorems above are about `InsertChain`, which finds the place of a script
from branches and subtrees. `TreeInsertionProofs` shows that the code's single walk, which sees one node at a
time, computes the same, in any tree (`MemberAssumption` is all that is assumed).

| theorem | statement | code |
|---|---|---|
| `InsertionInvariant` | `Spec => []InsertionInv` | `XTraverseTree`, `InsertGatherer` |
| `RejectsOnlyForAWinner` | `Spec => []RejectsOnlyWhenWinning` | `InsertGatherer::Reject`, `XInsertNode` |
| `WalkImplementsInsertion` | `Spec => ImplementsInsertion` | the whole of `XInsertNode`, for chains too |

`InsertionInv` relates every state of a walk from a node *p* to the array before it, and has one case for each way the
gatherer goes on (`Walk`): at *p*; at the head of a branch, when all before it lost (`AtSibling`); inside a
branch that lost (`InLostBranch`); behind the head that decides (`OnOldTrunk`); stopped, at the place and with
the array of the abstract insertion (`Stopped`). The array is the old one with an interval
rejected (`Swept`). What the flags alone do not tell, where a branch ends, is told by the stack: it lists exactly the
branch points that the walk has passed and not left (`OnWay`, `Lists`), so popping it to the predecessor of the next node fails
when the walk leaves the subtree of *p*, and leaves one entry when it comes back to *p* itself
(`WayOn`, `ListsBack`). For a chain, `ChainSplits` says that inserting two scripts in turn is inserting both at
once: the first is a leaf when the second comes. Every step but the last `Place` of a chain stutters.

### Transactions

Assumed are `DataAssumption` and `TransactionAssumption` (None and Partial are no
versions of a file, the bound on commits is a natural) and, in each theorem, `~Overlapping`: no transaction
stages files while an interrupted one waits to be redone, without which they do not hold
(`interrupted_redo`). Nothing is assumed of what the server does otherwise, of whether
failed transactions are followed by a verification, or of what they leave behind. The theorems are for any
files, versions and number of commits.

| theorem | statement | code |
|---|---|---|
| `TypeCorrect` | `Spec => []TypeOK` | files and memory |
| `AlwaysRecoverable` | `Spec => []Recoverable` | switch and staging area wherever the program stops |
| `NeverDiscards` | `Spec => NothingDiscarded` | `StagingVerifier` deletes no version that an interrupted transaction staged before it is copied |
| `Implementation` | `Spec => ImplementsStore` | database and files change together; leftovers may replace a checked-out file (`Relapse`) |

`Recoverable` is not inductive. The invariant `IInv` adds what each step relies on:
memory and disk agree (`MemoryAgrees`); a transaction with files is saved only when none waits to be redone, and one that
meets such a one has staged nothing (`Phases`); what a transaction intends is staged, or
already in the project (`AllPrepared`); what the transaction to be redone has staged is there, with the right check
sum, until it is in the project (`Owes`, for the files of `owed`); and each checked-in file is as
the database says or will be (`DiskSuffices`). That nothing else is in the staging area is not part of it, and
not true. Each conjunct is a lemma with one step per
action. The refinement splits `Next` in three: flushing the switch is the store's
`Commit`; an edit of the user's is its `Edit`, and redoing a transaction may be its `Relapse`, where
a leftover is copied; every other step stutters (`Stutter`).

### Missing scripts

`NeverOnBothLists`: `Spec => []ListsDisjoint`, for any scripts, members, sizes, numbers
of parts and faults. The invariant says of the database and of its committed
copy that they are records of three parts with disjoint lists (`Good`); an abort
restores the second from the first, which is why both are needed. Each
handler ends in one of a few operators on the lists, with a lemma each:
the first chunk moves a script between them (`FirstChunkGood`), and each
round keeps of the missing list what is not on the other (`ProcessMissingGood`).

| theorem | statement | code |
|---|---|---|
| `TypeCorrect` | `Spec => []TypeOK` | database, as committed, mail, requests |
| `NeverOnBothLists` | `Spec => []ListsDisjoint` | `_missingScripts`, `_missingChunks` |
| `NobodyIsAskedTwice` | `Spec => []NobodyAskedTwice` | `Missing::SelectRecipient` |
| `SomethingIsAskedFor` | `Spec => []ChunksIncomplete` | `MissingChunk::StoreChunk`, `XMakeChunkRequest` |
| `AcknowledgedStays` | `Spec => []AcknowledgedIsKept` | `Model::ProcessMail`: commit, delete files, acknowledge |
| `ReceivedIsKept` | `Spec => []ChunksKept`, which excepts scripts of which a chunk was damaged | `XAddChunk`, `XReconstruct`: lists in, files outside the transaction |

`EntriesInv` says of each entry, in `db` and in `saved`, that the members it names are different ones and
nobody is the last of them (`Round`), that it has parts and lacks one (`Incomplete`), and that no script from before joining is
on the list of chunks: its first chunk makes an entry, which the same step removes.
`HeldInv` says where a script that counts as recorded is kept: in the committed history, or in a file that is
still in the inbox because only a commit deletes it, and then only what the
attempt recorded. `KeptInv` says the same of chunks' files. The files are written and deleted at once and
the lists only at a commit, so it is about both databases with the
same files, and files may go only when the whole script is there. It says so of each script by itself: a
damaged chunk breaks it for its script (*Findings*), which is `spoilt` from then on, and for no other.

### Conversations

Assumed is `IpcAssumption` (clients, projects and words of the window are
different; each client has a command to post). The theorems are for any number of
clients, commands and projects.

| theorem | statement | code |
|---|---|---|
| `TypeCorrect` | `Spec => []TypeOK` | pointers point to conversations |
| `ObjectsDeletedOnce` | `Spec => []DeletedOnce` | `SharedByTwo`, `auto_active`, however kills and ends interleave |
| `RequestsKept` | `Spec => []DataKept` | the data of requests outlive the threads that use them |
| `QuitsOnlyIdle` | `Spec => []QuitsIdle` | `OnTimer` and `IsIdle`: the keep-alive timer; the backup message asks for neither |
| `StayingExecutesThere` | `StayInProject => (Spec => []ExecutesInItsProject)` | without the assumption it is false (`leaves_project`) |

The invariant is `TypeOK /\ IInv`, where `IInv` has a part about the queue's thread
(`QueuePlace`: which of its pointers are set where it stands), one about idleness
(`Idle`: an idle queue, or a server that its timer has stopped, has nothing waiting and nothing
active), and one for each conversation, `Placed(c)`. That says where a request is before it is a
conversation and that it is there once (`OnItsWay`, which makes a conversation begin at most
once); who owns the object (`Owned`: shared exactly while both do, deleted exactly when
neither does); that its data are kept (`HasData`); that a conversation going
on is the queue's active one or the one whose death the queue has just asked for
(`Watched`, the reason why `NoMoreRequests` may delete all data); and that its project was visited
and none since (`Visited`, under `StayInProject`). Steps of one conversation's thread leave the
others' parts alone (`ThreadGoesOn`), so the proof has one lemma per action of the
queue, and a few for all others.

### The dispatcher

Assumed is `DispatcherAssumption`: finitely many scripts and folders (the lists are
vectors in memory, and handles are counted), the mail server is none of the folders, limits are
naturals. Nothing is assumed of what fails, throws, vanishes, is cleared or cannot be marked, but where the
table says so; `Quiet` is that nothing is cleared or vanishes and all headers can be marked.

| theorem | statement | code |
|---|---|---|
| `TypeCorrect` | `Spec => []TypeOK` | the threads' records; handles suffice |
| `KnownAlwaysAgrees` | `Spec => []KnownAgrees` | `_knownScriptFiles`, `_toDoScriptFiles`, tickets, `_finishedScripts` |
| `DeletedWasDelivered` | `Spec => DeletedIsDelivered` | `OnFinishScripts`, `ProcessInbox` delete files |
| `BusyGetsAnswered` | `Spec => []BusyIsAnswered`, if nothing is cleared | a copier's `_busy` and its thread, unless that swallowed an exception |
| `NeverObsolete` | `Spec => []NoObsoleteHandle`, if `Quiet` | `ActiveTransport::CopyNextScript` throws otherwise |
| `PendingStaysQueued` | `Spec => []PendingIsQueued`, likewise | `TransferRequests`, `StartCopying`, clogged copiers |
| `NothingCopiedTwice` | `Spec => []CopiedOnce`, likewise, and batches of mail fail as a whole | `OnCopyDone`, `MarkRequestDone`, `RequestDone` |

`Types` strengthens `TypeOK` by what types need: a posted or running job names a
handle, and each script to do still gets one (`HandlesSuffice`).
`DeletedIsDelivered` needs to know that an answer is about the copy its handle was given for, even
when the state was cleared and the script listed again in between. The invariant `IInv` therefore
says that no two scripts have one handle and none is above the last one given
(`Numbered`); that what a copier lists, its job names or an answer reports was asked for: a handle
in progress has a request for that transport, and a handle that was dropped
is nobody's any more (`MailTrue`, `LanTrue`, `JobTrue`); that a script in progress has a
request pending, where it was not delivered before (`InProgress`); and that a request
delivered or a mark in the file stands for a copy (`Marked`). That handles are never reused
(`Evolves`) carries the second of these over every step. There is one lemma for each group of actions: main
thread, copiers, answers, new scripts, jobs given, clear and death.

`BusyGetsAnswered` has an invariant of its own, `BusyInv`: a busy copier has a job, an answer in
the channel or one in the hands of the work queue, or its thread threw, and the work queue never waits with answers in
its hands. With clears it is false (*Findings*).

The last three theorems rest on the converse of `MailTrue` and `LanTrue`: not only was all that a copier lists asked
for, all that is asked for is listed. `LanInv` says so of folders (`Requested`): a copier lists
exactly the handles whose tickets have a request pending for it, and exists as long as there are any. To
get through `OnLanCopyDone` it also needs that a copier works on one of its requests at a
time and reports it once (`OneAtATime`, `OneTo`: else a late answer would
free a busy copier), and that each script in progress has its file (`Present`: else `StartCopying` drops its
ticket and leaves the requests behind). `MailInv` says it of mail, where a new script's request is made
one step later. `LanCopies` and, for mail, `MailCopies` say that a copy made is marked in the file or still to be
reported.

What they assume cannot be dropped. A clear throws away answers; a file that vanishes leaves
obsolete requests; a script whose header could not be marked may be listed and sent again (*Findings*). Mail is sent twice after a batch that failed for some scripts
(`"partly"`: the copier forgets what was sent before the first failure only) or
met a refused address (`"blacklisted"`: its empty answer takes the place of another, or counts as success).
After one that stopped at some script (`"stopped"`) the scripts not sent have an error, so a ticket may be finished with its mail
still to go; before the main thread has it in quarantine, it may list the file again, and mail it while the old
request is still there. `BatchInv` excludes these: batches are whole, there is one at a time, no ticket has an error.

### Only model-checked

`InterruptedIsRedone`, which is false when files are staged over an interrupted transaction. `AnswerIsRead`, which is about
one channel only and left to TLC. All liveness (`EverybodyDecides`, `EveryScriptArrives`,
`EveryScriptSettles`, `ClearReturns`, `ClientsReturn`), which this prover does not reach.

## Findings

Three comments are refuted by a run.

* *An interrupted transaction may not be redone* (`interrupted_redo`). The
  comment at `Transact.cpp:247-249` promises it. The server's quick visits skip
  the cleanup, and a program that could not finish a transaction while it processed mail goes on, since the
  exception that should end it is caught (`Commander.cpp:3465`). A transaction with files stages its versions before
  `CommitPhaseOne` finds that another one has to be redone first, over those that were to be copied. These are
  gone then: the list deletes the new ones when the transaction fails, or the next full visit, which
  finds a wrong check sum. The project then differs from the database
  and must be repaired. As long as nothing is staged over an interrupted transaction the
  property holds (`transactions`, `Recoverable`).
* *A server may leave the project of the next command* (`leaves_project`). The
  comments at `CmdMain.cpp:76-78` and `IpcQueue.cpp:74` say that it leaves its
  project after a command, and visits the one a conversation names. The
  timer for leaving is set when the queue is idle and not killed by the next
  invitation (`ServerCtrl.cpp:134-149`, `:158-164`), and its handler does not ask
  whether the queue is idle. Between the visit of a project and the command's
  execution the lock of the model is free (`IpcConversation.cpp:29-35`), so
  the command may be executed in no project.
* *A script with a gap before it is acknowledged* (`gap_acknowledged`). The comments at
  `History.cpp:2319` and `:2368` say that it is not. When the lineage of a later message names a
  script, `HistorySortedTree.cpp:772-781` asks only whether the script itself is missing
  before it remembers an acknowledgment that can be sent, and `AckBox.cpp:86-92` sends it along with
  one that must. What members rely on still holds: what is confirmed is recorded
  everywhere, be it as a placeholder, and rejected nowhere (`AcknowledgedIsKnown`, `ConfirmedAgree`,
  `ConfirmedStays`). That the gap is filled in the end is then up to the sidetrack alone.

The following were met while modelling. Most can be seen by changing constants
of a configuration; the properties named are defined for that.

* *What a failed transaction leaves behind may replace a user's edits.* The list of files counts as committed
  before the database is saved (`FileList.cpp:61`), so staged files stay when saving fails. After a command the
  project is verified and they go; after mail processing they stay (`Commander.cpp:3465`). When a later transaction is
  interrupted and redone, the verifier finds them among its own (`Visitor.cpp:92-120`): one of a file that is checked in
  has the wrong check sum and is deleted with an error message, one of a file that is checked out since is
  copied over the user's version, since its check sum is not looked at. `ProjectStore!Relapse` is that step;
  without it in `Next`, `transactions` reports it.
* *An exception makes a copier useless.* `Run` catches what `DoCopy` and `DoEmail` throw and does nothing
  (`ActiveTransport.cpp:48-54`, `:224-229`); causes are `FileLocker.cpp:32`, `ActiveTransport.cpp:407`, `Processor.cpp:197`.
  No answer is put, the copier counts as busy, and its scripts wait until the program is started again.
  `BusyIsAnswered` and `EveryScriptSettles` except that (`threw`); without the exceptions `dispatch` reports it.
* *A header that cannot be marked.* The error is ignored (`TransportManager.cpp:368-372`). The script may then be put in
  quarantine although it was delivered, or be sent a second time when the file is found anew: `CopiedOnce`,
  with `Unmarkable <- MCMail` and `MaxHandle = 3` in `dispatch`.
* *A backup stops the server at once* (`ServerCtrl.cpp:188-192`; sent by `CoopBlocker.cpp:103`), whether or not requests wait
  or a conversation goes on: those clients wait for their timeout. `OnBackup` does that; `QuitsIdle` is about the
  keep-alive timer, which asks.
* *Rejected scripts are acknowledged* (`RejectedNotAcknowledged`, in the
  configuration of `losing_branches`). The comment at
  `History.cpp:2330-2334` says they are not. The code keeps to it for new scripts
  but not for those that were known to be missing (`:2342-2380`). In the model this is
  harmless: the lineage sent with the acknowledgment makes the author reject its
  branch before it confirms (`ConfirmedStays` holds).
* *Not all scripts of a newcomer are historic* (`MailNeverDropped`, with `Newcomer =
  {1, 2}`). With an invalid prehistoric marker, a lineage that connects nowhere counts as
  prehistoric (`History.cpp:1207`, `:2122-2146`), and a script of a losing branch that
  overtakes its predecessor is deleted from the inbox. The trees of the members then differ.
* *A copier's answer is lost when the state is cleared* (`BusyIsAnswered`, with `MaxClears
  = 1`). `ClearState` throws away the answers not yet received
  (`TransportManager.cpp:543`, `Channel.h:58-59`); the copier that gave one stays busy and
  takes no more scripts until the program is started again.
* *A file that vanishes between two tests leaves an obsolete request*
  (`NoObsoleteHandle`, with `Vanishing = TRUE`). Requests to copy are made (`TransportManager.cpp:281`)
  before the script is dropped because its file is gone (`:308`); a copier whose
  requests are all obsolete throws (`ActiveTransport.cpp:82`), which ends the work queue's thread.
* *A copier without work is erased from the list and not from the map*
  (`TransportManager.cpp:512`; `RemovedFromList`, `IsDangling`). A copier that was busy while the state
  was cleared has none when its thread has answered. The next script for its folder then
  uses a deleted object, which `dispatch_clears` takes for a crash (`StartForwarding`).
* *The counts of a ticket may differ from its requests* (`RequestsTally`, with `"partly"` in
  `MailResults`). After one failure in a batch the copier stays clogged and forgets
  none of the scripts mailed later (`ActiveTransport.cpp:489`), mails them again, and the count
  goes below zero (`ScriptInfo.h:238` asserts that it does not).
* *A damaged chunk leaves records without files.* When the whole script cannot be put together, its chunks' files are deleted and
  the transaction is aborted (`Sidetrack.cpp:567`, `:774-778`, `:787`): the chunks are
  still recorded as received, and not asked for again, so the script does not come unless it is sent whole. `ChunksKept` and
  `EveryScriptArrives` except these scripts (`spoilt`); `ReceivedAreStored` does not, and `chunks` would report it.
* *Whether a command was the last is read too late.* The conversation wakes its client
  and then reads the flag from the buffer, over which the client may have posted the next
  command (`IpcConversation.cpp:194-195`; a client keeps a conversation,
  `SccInterface.cpp:146`). It then ends with that command unanswered. `ClientsReturn` counts
  such a client as abandoned.
* *A withdrawn invitation.* `IsValid` uses the client's event without asking whether there is one
  (`co-op/IpcConversation.h:62`, `:92`); `OnInitiate` models both outcomes.
* *`IsAlive` may ask a closed handle.* A holder keeps a copy of the thread's handle, which the
  object's destructor closes (`Active.h:85-106`, `Thread.h:35-40`). `Check` takes any answer,
  so the server may give up although the conversation has ended in time.
* *An exception of another kind leaves a client without an answer*
  (`IpcConversation.cpp:213-220`); one without a timeout (`SetNoCommandTimeout`,
  `SccInterface.cpp:1587`) waits for ever. Also abandoned in `ClientsReturn`.
* *A request is lost when there is no thread for it* (`IpcQueue.cpp:100`, `:162`). Its client
  waits until its timeout.

## Plan

Done: the history tree, the insertion traversal, the protocol between
members, transactions, the sidetrack, the dispatcher's threads, and the
conversations of the server. Left, the most important first:

1. `Ledger`: what a project promises to its users, an append-only sequence of
   confirmed scripts of which each member has a prefix; `Coop` to refine it.
2. `Membership`: the second tree, joining and leaving and their effect
   on acknowledgment lists; composed with `Coop`.
3. `FileState`: the states of a file over check-out, check-in, synchronization,
   undo; property: no sequence of legal calls loses an edit.
4. `Transaction`: the in-memory arrays (`XArray`, `TransactableContainer`) with
   their commit and abort; composed with `Coop` as its store.
5. The GUI's use of the queue of conversations (`CoopCtrl.cpp:614-640`).

## Not modelled, and why

The components with status `not_modelled` in `PROJECT.json` give the reason one
by one: windows and dialogs, set-up, licences, e-mail transports and operating
system wrappers are input and output around the protocol; diffing, merging and
packing are large pure algorithms with reference definitions as complicated
as themselves; the rest is in the plan above. Most of the source's lines are of these kinds:
the models cover the parts where several programs, threads or transactions meet.

Of the parts that are modelled: in the server, the death of a client's process, the end of the queue
itself and of its process, the GUI mode, a keep-alive timeout of "never", data requests and buffers
too large for the first one; in the dispatcher, routing, forwarding to the hub, invitations and what
the user confirms; in the sidetrack, full sync scripts, packages and the clock; in the
protocol, what *Decisions* lists. The models are not composed with each other: `Coop` takes
a transaction as one step, which `Transaction` shows it to be, and chooses freely whom to ask, of
which what `Sidetrack` does is one choice.

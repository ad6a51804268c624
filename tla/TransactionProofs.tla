------------------------- MODULE TransactionProofs -------------------------
(***************************************************************************)
(* As long as no transaction stages files while an interrupted one waits to  *)
(* be redone, the two data files, the switch and the staging area implement  *)
(* a store whose database and files change together, whatever failed         *)
(* transactions leave in the staging area.                                   *)
(***************************************************************************)
EXTENDS TransactionProperties, TLAPS

Preparing == {"staging", "saving", "saved"}

Untouched(f) ==
    change[f].entry = loaded.entry[f] /\ change[f].stage = None /\ ~change[f].delete

(* What is in memory agrees with the disk. *)
MemoryAgrees ==
    /\ pc # "away" => loaded = Stored
    /\ pc \in Preparing => loaded.serial <= MaxCommits
    /\ pc = "saved" => data[Other(switch.valid)] = Changed
    /\ pc = "finishing" => \A f \in File : change[f].entry = loaded.entry[f]
    /\ pc \in {"recovering", "idle", "closing"} \/ (pc \in Preparing /\ kind = "plain")
          => \A f \in File : Untouched(f)

(* A transaction with files is saved only when none waits to be redone, and   *)
(* stages nothing before.                                                   *)
Phases ==
    /\ pc \in {"saving", "saved"} /\ kind = "file" => ~switch.redo
    /\ pc = "finishing" => switch.redo /\ kind = "file"
    /\ pc = "staging" /\ switch.redo => \A f \in File : change[f].stage = None

(* What a transaction intends can be completed. *)
Prepared(f) ==
    /\ change[f].stage # None => /\ staging[f] = change[f].stage
                                 /\ Controlled(change[f].entry)
    /\ CheckedIn(change[f].entry) =>
          IF change[f].stage = None
          THEN project[f] = change[f].entry.sum
          ELSE change[f].stage = change[f].entry.sum
    /\ change[f].delete => /\ ~CheckedIn(change[f].entry)
                           /\ Controlled(change[f].entry) => change[f].stage # None

AllPrepared ==
    /\ kind = "file" /\ (pc = "finishing" \/ (pc \in Preparing /\ ~switch.redo))
          => \A f \in File : Prepared(f)
    /\ kind = "file" /\ pc \in Preparing =>
          \A f \in File : change[f].entry = loaded.entry[f] => change[f].stage = None

(* What the transaction to be redone has staged is there until it is in the   *)
(* project.                                                                 *)
Owes ==
    /\ owed # {} => switch.redo
    /\ \A f \in owed :
          /\ Controlled(Stored.entry[f])
          /\ staging[f] # None =>
                /\ staging[f] # Partial
                /\ CheckedIn(Stored.entry[f]) => staging[f] = Stored.entry[f].sum
    /\ pc = "finishing" =>
          \A f \in File : /\ change[f].stage # None => f \in owed
                          /\ f \in owed /\ change[f].stage = None => staging[f] = None

(* What is on the disk suffices to recover. *)
DiskSuffices ==
    \A f \in File : CheckedIn(Stored.entry[f]) => Promised(f) = Stored.entry[f].sum

IInv ==
    /\ TypeOK
    /\ Stored \in Database
    /\ MemoryAgrees
    /\ Phases
    /\ AllPrepared
    /\ Owes
    /\ DiskSuffices

----------------------------------------------------------------------------
(* Types *)

LEMMA Types ==
    /\ NewDatabase \in Database
    /\ \A d \in Database : NoChange(d) \in [File -> Change]
    /\ Content \cup {None, Partial} = OnDisk
    /\ None \in OnDisk /\ Partial \in OnDisk /\ Content \subseteq OnDisk
<1>1. NoEntry \in Entry
  BY DEF NoEntry, Entry, Controlled
<1>2. NewDatabase \in Database
  BY <1>1, DataAssumption DEF NewDatabase, Database
<1>3. \A e \in Entry : Unchanged(e) \in Change
  BY DEF Unchanged, Change
<1>4. \A d \in Database : NoChange(d) \in [File -> Change]
  BY <1>3 DEF NoChange, Database
<1> QED
  BY <1>2, <1>4 DEF OnDisk

(* The new version of the database that a transaction prepares. *)
LEMMA ChangedType ==
    ASSUME loaded \in Database, change \in [File -> Change], loaded.serial <= MaxCommits
    PROVE  Changed \in Database
BY DataAssumption DEF Changed, Database, Change

(* Well-typed files and memory stay so. *)
LEMMA TypeStep == ASSUME IInv, [Next]_vars PROVE TypeOK'
<1> USE DEF TypeOK, Step, Kind, memory
<1>0. /\ TypeOK
      /\ pc # "away" => loaded = Stored
      /\ pc \in Preparing => loaded.serial <= MaxCommits
      /\ Stored \in Database
  BY DEF IInv, MemoryAgrees
<1>1. CASE Visit
  BY <1>0, <1>1, Types DEF Visit
<1>2. CASE EndRecovery
  BY <1>0, <1>2 DEF EndRecovery
<1>3. CASE Begin
  BY <1>0, <1>3, TransactionAssumption DEF Begin
<1>4. CASE Abort
  BY <1>0, <1>4, Types DEF Abort, Fail
<1>5. CASE Save
  BY <1>0, <1>5 DEF Save, Other
<1>6. CASE Saved
  BY <1>0, <1>6, ChangedType DEF Saved, Other, Preparing
<1>7. CASE SaveFails
  BY <1>0, <1>7, Types DEF SaveFails, Fail, Other
<1>8. CASE Flush
  BY <1>0, <1>8, ChangedType DEF Flush, Other, Preparing, Staged
<1>9. CASE Finish
  BY <1>0, <1>9 DEF Finish
<1>10. CASE Close
  BY <1>0, <1>10, Types DEF Close, Other
<1>11. CASE Stop
  BY <1>0, <1>11, Types DEF Stop, Gone
<1>12. CASE Exit
  BY <1>0, <1>12, Types DEF Exit, Gone, Other
<1>13. ASSUME NEW f \in File, Recover(f) PROVE TypeOK'
  BY <1>0, <1>13, Types DEF Recover
<1>14. ASSUME NEW f \in File, Edit(f) PROVE TypeOK'
  BY <1>0, <1>14, Types DEF Edit
<1>15. ASSUME NEW f \in File, Execute(f) PROVE TypeOK'
  BY <1>0, <1>15, Types DEF Execute, Change
<1>16. ASSUME NEW f \in File, DeleteFile(f) PROVE TypeOK'
  <2>1. [change[f] EXCEPT !.delete = FALSE] \in Change
    BY <1>0 DEF Change
  <2> QED
    BY <1>0, <1>16, <2>1, Types DEF DeleteFile
<1>17. ASSUME NEW f \in File, MoveFile(f) PROVE TypeOK'
  <2>1. CASE project[f] # staging[f]
    BY <1>0, <1>17, <2>1 DEF MoveFile
  <2>2. CASE project[f] = staging[f]
    <3>1. [change[f] EXCEPT !.stage = None] \in Change
      BY <1>0 DEF Change
    <3> QED
      BY <1>0, <1>17, <2>2, <3>1, Types DEF MoveFile
  <2> QED
    BY <2>1, <2>2
<1>18. ASSUME NEW f \in File, StopStaging(f) PROVE TypeOK'
  BY <1>0, <1>18, Types DEF StopStaging, Gone
<1>19. ASSUME NEW f \in File, StopCopying(f) PROVE TypeOK'
  BY <1>0, <1>19, Types DEF StopCopying, Gone
<1>20. ASSUME NEW f \in File, CopyFails(f) PROVE TypeOK'
  BY <1>0, <1>20, Types DEF CopyFails, Fail
<1>21. CASE UNCHANGED vars
  BY <1>0, <1>21 DEF vars
<1> QED
  BY <1>1, <1>2, <1>3, <1>4, <1>5, <1>6, <1>7, <1>8, <1>9, <1>10, <1>11, <1>12, <1>13,
     <1>14, <1>15, <1>16, <1>17, <1>18, <1>19, <1>20, <1>21 DEF Next, OnFile
----------------------------------------------------------------------------
(* The inductive invariant *)

(* What every command guarantees of its effect on a file. *)
LEMMA AllowedChange ==
    ASSUME NEW e \in Entry, NEW c \in Change, NEW current, Allowed(e, c, current)
    PROVE  /\ c.stage = None /\ c.entry.known => e.known
           /\ c.stage = None /\ Controlled(c.entry) => Controlled(e)
           /\ c.stage = None /\ CheckedIn(c.entry) => current = c.entry.sum
           /\ c.stage # None /\ CheckedIn(c.entry) => c.stage = c.entry.sum
           /\ c.stage # None => Controlled(c.entry)
           /\ c.delete => /\ ~CheckedIn(c.entry)
                          /\ Controlled(c.entry) => c.stage # None
           /\ c.entry # e
<1> USE DataAssumption DEF Entry, Change, Controlled, CheckedIn, Unchanged
<1>1. CASE CheckOut(e, c)
  BY <1>1 DEF CheckOut
<1>2. CASE UncheckOut(e, c)
  BY <1>2 DEF UncheckOut
<1>3. CASE CheckIn(e, c, current)
  BY <1>3 DEF CheckIn
<1>4. CASE Synchronize(e, c)
  BY <1>4 DEF Synchronize
<1>5. CASE MergeContents(e, c)
  BY <1>5 DEF MergeContents
<1> QED
  BY <1>1, <1>2, <1>3, <1>4, <1>5 DEF Allowed

(* The switch always names a database that can be read. *)
LEMMA StoredStep == ASSUME IInv, [Next]_vars PROVE (Stored \in Database)'
<1> USE DEF Stored, Other, TypeOK
<1>0. /\ Stored \in Database /\ TypeOK
      /\ pc = "saved" => data[Other(switch.valid)] = Changed
      /\ pc \in Preparing => loaded.serial <= MaxCommits
  BY DEF IInv, MemoryAgrees
<1>1. CASE Visit
  BY <1>0, <1>1 DEF Visit
<1>2. CASE EndRecovery
  BY <1>0, <1>2 DEF EndRecovery
<1>3. CASE Begin
  BY <1>0, <1>3 DEF Begin
<1>4. CASE Abort
  BY <1>0, <1>4 DEF Abort, Fail
<1>5. CASE Save
  BY <1>0, <1>5 DEF Save
<1>6. CASE Saved
  BY <1>0, <1>6 DEF Saved
<1>7. CASE SaveFails
  BY <1>0, <1>7 DEF SaveFails, Fail
<1>8. CASE Flush
  BY <1>0, <1>8, ChangedType DEF Flush, Preparing
<1>9. CASE Finish
  BY <1>0, <1>9 DEF Finish
<1>10. CASE Close
  BY <1>0, <1>10 DEF Close
<1>11. CASE Stop
  BY <1>0, <1>11 DEF Stop, Gone
<1>12. CASE Exit
  BY <1>0, <1>12 DEF Exit, Gone
<1>13. ASSUME NEW f \in File, Recover(f) PROVE (Stored \in Database)'
  BY <1>0, <1>13 DEF Recover
<1>14. ASSUME NEW f \in File, Edit(f) PROVE (Stored \in Database)'
  BY <1>0, <1>14 DEF Edit
<1>15. ASSUME NEW f \in File, Execute(f) PROVE (Stored \in Database)'
  BY <1>0, <1>15 DEF Execute
<1>16. ASSUME NEW f \in File, DeleteFile(f) PROVE (Stored \in Database)'
  BY <1>0, <1>16 DEF DeleteFile
<1>17. ASSUME NEW f \in File, MoveFile(f) PROVE (Stored \in Database)'
  BY <1>0, <1>17 DEF MoveFile
<1>18. ASSUME NEW f \in File, StopStaging(f) PROVE (Stored \in Database)'
  BY <1>0, <1>18 DEF StopStaging, Gone
<1>19. ASSUME NEW f \in File, StopCopying(f) PROVE (Stored \in Database)'
  BY <1>0, <1>19 DEF StopCopying, Gone
<1>20. ASSUME NEW f \in File, CopyFails(f) PROVE (Stored \in Database)'
  BY <1>0, <1>20 DEF CopyFails, Fail
<1>21. CASE UNCHANGED vars
  BY <1>0, <1>21 DEF vars
<1> QED
  BY <1>1, <1>2, <1>3, <1>4, <1>5, <1>6, <1>7, <1>8, <1>9, <1>10, <1>11, <1>12, <1>13,
     <1>14, <1>15, <1>16, <1>17, <1>18, <1>19, <1>20, <1>21 DEF Next, OnFile

(* What is in memory and on the disk still agree. *)
LEMMA MemoryStep == ASSUME IInv, [Next]_vars PROVE MemoryAgrees'
<1> USE DEF TypeOK, MemoryAgrees, Untouched, Preparing, memory, Stored, Other
<1>0. TypeOK /\ MemoryAgrees /\ Phases
  BY DEF IInv
<1>1. CASE Visit
  BY <1>0, <1>1 DEF Visit, NoChange, Unchanged
<1>2. CASE EndRecovery
  BY <1>0, <1>2 DEF EndRecovery
<1>3. CASE Begin
  BY <1>0, <1>3 DEF Begin, Database
<1>4. CASE Abort
  BY <1>0, <1>4 DEF Abort, Fail, NoChange, Unchanged
<1>5. CASE Save
  BY <1>0, <1>5 DEF Save
<1>6. CASE Saved
  BY <1>0, <1>6 DEF Saved, Changed
<1>7. CASE SaveFails
  BY <1>0, <1>7 DEF SaveFails, Fail, NoChange, Unchanged
<1>8. CASE Flush
  BY <1>0, <1>8 DEF Flush, Kind, Changed
<1>9. CASE Finish
  BY <1>0, <1>9 DEF Finish, Phases
<1>10. CASE Close
  BY <1>0, <1>10 DEF Close, NoChange, Unchanged
<1>11. CASE Stop
  BY <1>0, <1>11 DEF Stop, Gone
<1>12. CASE Exit
  <2>1. CASE Gone
    BY <1>0, <1>12, <2>1 DEF Exit, Gone
  <2>2. CASE pc' = "idle" /\ change' = NoChange(loaded) /\ UNCHANGED <<quick, kind, loaded, owed>>
    BY <1>0, <1>12, <2>2 DEF Exit, NoChange, Unchanged
  <2> QED
    BY <1>12, <2>1, <2>2 DEF Exit
<1>13. ASSUME NEW f \in File, Recover(f) PROVE MemoryAgrees'
  BY <1>0, <1>13 DEF Recover
<1>14. ASSUME NEW f \in File, Edit(f) PROVE MemoryAgrees'
  BY <1>0, <1>14 DEF Edit
<1>15. ASSUME NEW f \in File, Execute(f) PROVE MemoryAgrees'
  BY <1>0, <1>15 DEF Execute, Change
<1>16. ASSUME NEW f \in File, DeleteFile(f) PROVE MemoryAgrees'
  BY <1>0, <1>16 DEF DeleteFile, Change
<1>17. ASSUME NEW f \in File, MoveFile(f) PROVE MemoryAgrees'
  BY <1>0, <1>17 DEF MoveFile, Change
<1>18. ASSUME NEW f \in File, StopStaging(f) PROVE MemoryAgrees'
  BY <1>0, <1>18 DEF StopStaging, Gone
<1>19. ASSUME NEW f \in File, StopCopying(f) PROVE MemoryAgrees'
  BY <1>0, <1>19 DEF StopCopying, Gone
<1>20. ASSUME NEW f \in File, CopyFails(f) PROVE MemoryAgrees'
  BY <1>0, <1>20 DEF CopyFails, Fail, NoChange, Unchanged
<1>21. CASE UNCHANGED vars
  BY <1>0, <1>21 DEF vars, Changed
<1> QED
  BY <1>1, <1>2, <1>3, <1>4, <1>5, <1>6, <1>7, <1>8, <1>9, <1>10, <1>11, <1>12, <1>13,
     <1>14, <1>15, <1>16, <1>17, <1>18, <1>19, <1>20, <1>21 DEF Next, OnFile

(* A transaction with files goes on only when nothing waits to be redone. *)
LEMMA PhasesStep == ASSUME ~Overlapping, IInv, [Next]_vars PROVE Phases'
<1> USE DEF TypeOK, Phases, Preparing, memory, Kind
<1>0. TypeOK /\ MemoryAgrees /\ Phases
  BY DEF IInv
<1>1. CASE Visit
  BY <1>0, <1>1 DEF Visit
<1>2. CASE EndRecovery
  BY <1>0, <1>2 DEF EndRecovery
<1>3. CASE Begin
  BY <1>0, <1>3 DEF Begin, MemoryAgrees, Untouched, Unchanged
<1>4. CASE Abort
  BY <1>0, <1>4 DEF Abort, Fail
<1>5. CASE Save
  BY <1>0, <1>5 DEF Save
<1>6. CASE Saved
  BY <1>0, <1>6 DEF Saved
<1>7. CASE SaveFails
  BY <1>0, <1>7 DEF SaveFails, Fail
<1>8. CASE Flush
  BY <1>0, <1>8 DEF Flush
<1>9. CASE Finish
  BY <1>0, <1>9 DEF Finish
<1>10. CASE Close
  BY <1>0, <1>10 DEF Close
<1>11. CASE Stop
  BY <1>0, <1>11 DEF Stop, Gone
<1>12. CASE Exit
  BY <1>0, <1>12 DEF Exit, Gone
<1>13. ASSUME NEW f \in File, Recover(f) PROVE Phases'
  BY <1>0, <1>13 DEF Recover
<1>14. ASSUME NEW f \in File, Edit(f) PROVE Phases'
  BY <1>0, <1>14 DEF Edit
<1>15. ASSUME NEW f \in File, Execute(f) PROVE Phases'
  BY <1>0, <1>15 DEF Execute, CanStage, Change, Unchanged
<1>16. ASSUME NEW f \in File, DeleteFile(f) PROVE Phases'
  BY <1>0, <1>16 DEF DeleteFile
<1>17. ASSUME NEW f \in File, MoveFile(f) PROVE Phases'
  BY <1>0, <1>17 DEF MoveFile
<1>18. ASSUME NEW f \in File, StopStaging(f) PROVE Phases'
  BY <1>0, <1>18 DEF StopStaging, Gone
<1>19. ASSUME NEW f \in File, StopCopying(f) PROVE Phases'
  BY <1>0, <1>19 DEF StopCopying, Gone
<1>20. ASSUME NEW f \in File, CopyFails(f) PROVE Phases'
  BY <1>0, <1>20 DEF CopyFails, Fail
<1>21. CASE UNCHANGED vars
  BY <1>0, <1>21 DEF vars
<1> QED
  BY <1>1, <1>2, <1>3, <1>4, <1>5, <1>6, <1>7, <1>8, <1>9, <1>10, <1>11, <1>12, <1>13,
     <1>14, <1>15, <1>16, <1>17, <1>18, <1>19, <1>20, <1>21 DEF Next, OnFile

(* What a transaction with files intends is ready to be completed. *)
LEMMA PreparedStep == ASSUME ~Overlapping, IInv, [Next]_vars PROVE AllPrepared'
<1> USE DEF TypeOK, MemoryAgrees, Phases, AllPrepared, Prepared, Preparing, memory,
            Untouched, Kind
<1>0. TypeOK /\ MemoryAgrees /\ Phases /\ AllPrepared /\ DiskSuffices
  BY DEF IInv
<1>1. CASE Visit
  BY <1>0, <1>1 DEF Visit
<1>2. CASE EndRecovery
  BY <1>0, <1>2 DEF EndRecovery
<1>3. CASE Begin
  BY <1>0, <1>3 DEF Begin, DiskSuffices, Promised, ToRedo
<1>4. CASE Abort
  BY <1>0, <1>4 DEF Abort, Fail
<1>5. CASE Save
  BY <1>0, <1>5 DEF Save
<1>6. CASE Saved
  BY <1>0, <1>6 DEF Saved
<1>7. CASE SaveFails
  BY <1>0, <1>7 DEF SaveFails, Fail
<1>8. CASE Flush
  BY <1>0, <1>8 DEF Flush
<1>9. CASE Finish
  BY <1>0, <1>9 DEF Finish
<1>10. CASE Close
  BY <1>0, <1>10 DEF Close
<1>11. CASE Stop
  BY <1>0, <1>11 DEF Stop, Gone
<1>12. CASE Exit
  BY <1>0, <1>12 DEF Exit, Gone
<1>13. ASSUME NEW f \in File, Recover(f) PROVE AllPrepared'
  BY <1>0, <1>13 DEF Recover
<1>14. ASSUME NEW f \in File, Edit(f) PROVE AllPrepared'
  BY <1>0, <1>14 DEF Edit
<1>15. ASSUME NEW f \in File, Execute(f) PROVE AllPrepared'
  BY <1>0, <1>15, AllowedChange DEF Execute, Unchanged, Database
<1>16. ASSUME NEW f \in File, DeleteFile(f) PROVE AllPrepared'
  BY <1>0, <1>16 DEF DeleteFile, Change
<1>17. ASSUME NEW f \in File, MoveFile(f) PROVE AllPrepared'
  <2>1. kind = "file" /\ pc = "finishing" /\ pc' = pc /\ kind' = kind /\ Prepared(f)
    BY <1>0, <1>17 DEF MoveFile
  <2>2. \A g \in File : ~change[g].delete
    BY <1>17 DEF MoveFile
  <2>3. change[f].stage \in Content /\ staging[f] = change[f].stage
    BY <1>0, <1>17, <2>1 DEF MoveFile, Change
  <2>4. CASE project[f] # staging[f]
    BY <1>0, <1>17, <2>1, <2>3, <2>4, TransactionAssumption DEF MoveFile
  <2>5. CASE project[f] = staging[f]
    <3>1. /\ change'[f].entry = change[f].entry /\ change'[f].stage = None
          /\ ~change'[f].delete /\ project'[f] = change[f].stage
      BY <1>0, <1>17, <2>2, <2>3, <2>5 DEF MoveFile, Change
    <3>2. Prepared(f)'
      BY <2>1, <2>3, <3>1, DataAssumption, TransactionAssumption
    <3>3. \A g \in File \ {f} : Prepared(g)'
      BY <1>0, <1>17, <2>1, <2>5 DEF MoveFile
    <3> QED
      BY <2>1, <3>2, <3>3
  <2> QED
    BY <2>4, <2>5
<1>18. ASSUME NEW f \in File, StopStaging(f) PROVE AllPrepared'
  BY <1>0, <1>18 DEF StopStaging, Gone
<1>19. ASSUME NEW f \in File, StopCopying(f) PROVE AllPrepared'
  BY <1>0, <1>19 DEF StopCopying, Gone
<1>20. ASSUME NEW f \in File, CopyFails(f) PROVE AllPrepared'
  BY <1>0, <1>20 DEF CopyFails, Fail
<1>21. CASE UNCHANGED vars
  BY <1>0, <1>21 DEF vars
<1> QED
  BY <1>1, <1>2, <1>3, <1>4, <1>5, <1>6, <1>7, <1>8, <1>9, <1>10, <1>11, <1>12, <1>13,
     <1>14, <1>15, <1>16, <1>17, <1>18, <1>19, <1>20, <1>21 DEF Next, OnFile

(* What is owed stays until it is in the project. *)
LEMMA OwesStep == ASSUME ~Overlapping, IInv, [Next]_vars PROVE Owes'
<1> USE DEF Owes, memory
<1>0. /\ TypeOK /\ MemoryAgrees /\ Phases /\ AllPrepared /\ Owes
      /\ Stored \in Database
  BY DEF IInv
<1>1. CASE Visit \/ Begin \/ Save \/ Saved \/ SaveFails \/ Close \/ Stop \/ Exit \/ UNCHANGED vars
  <2>1. /\ switch' = switch /\ staging' = staging /\ owed' = owed
        /\ pc' = "finishing" => pc = "finishing" /\ change' = change
    BY <1>1 DEF Visit, Begin, Save, Saved, SaveFails, Fail, Close, Stop, Exit, Gone, vars
  <2>2. data' = data \/ \E d : data' = [data EXCEPT ![Other(switch.valid)] = d]
    BY <1>1 DEF Visit, Begin, Save, Saved, SaveFails, Close, Stop, Exit, vars
  <2>3. Stored' = Stored
    BY <1>0, <2>1, <2>2 DEF TypeOK, Stored, Other
  <2> QED
    BY <1>0, <2>1, <2>3
<1>2. CASE EndRecovery \/ Finish
  BY <1>2 DEF EndRecovery, Finish
<1>3. CASE Abort
  <2>1. Stored' = Stored /\ switch' = switch /\ owed' = owed /\ pc' # "finishing"
    BY <1>3 DEF Abort, Fail, Stored
  <2>2. owed = {} \/ staging' = staging
    BY <1>0, <1>3 DEF Abort, Phases, TypeOK
  <2> QED
    BY <1>0, <2>1, <2>2
<1>4. CASE Flush
  <2>1. /\ data' = data /\ staging' = staging /\ change' = change
        /\ switch'.valid = Other(switch.valid)
        /\ switch'.redo = (kind = "file" \/ switch.redo)
        /\ owed' = IF kind = "file" THEN Staged ELSE owed
        /\ pc' = "finishing" => kind = "file"
    BY <1>0, <1>4 DEF Flush, TypeOK
  <2>2. \A f \in File : Stored'.entry[f] = change[f].entry
    <3>1. Stored' = Changed
      BY <1>0, <1>4, <2>1 DEF Flush, MemoryAgrees, Stored
    <3> QED
      BY <3>1 DEF Changed
  <2>3. CASE kind = "plain"
    <3>1. switch'.redo = switch.redo /\ owed' = owed
      BY <1>0, <2>1, <2>3 DEF TypeOK
    <3>2. \A f \in File : Stored'.entry[f] = Stored.entry[f]
      BY <1>0, <1>4, <2>2, <2>3 DEF Flush, MemoryAgrees, Preparing, Untouched
    <3> QED
      BY <1>0, <2>1, <2>3, <3>1, <3>2 DEF TypeOK
  <2>4. CASE kind = "file"
    <3>1. \A f \in File : Prepared(f)
      BY <1>0, <1>4, <2>4 DEF Flush, Phases, Preparing, AllPrepared
    <3>2. \A f \in File : change[f].stage \in Content \cup {None}
      BY <1>0 DEF TypeOK, Change
    <3>3. owed' = Staged /\ switch'.redo
      BY <2>1, <2>4
    <3>4. \A f \in owed' : f \in File /\ change[f].stage # None
      BY <3>3 DEF Staged
    <3> QED
      BY <2>1, <2>2, <3>1, <3>2, <3>3, <3>4, DataAssumption DEF Prepared, Staged
  <2> QED
    BY <1>0, <2>3, <2>4 DEF TypeOK, Kind
<1>5. ASSUME NEW f \in File, Recover(f) PROVE Owes'
  <2>1. Stored' = Stored /\ switch' = switch /\ owed' = owed /\ pc' # "finishing"
    BY <1>5 DEF Recover, Stored
  <2>2. staging' = staging \/ staging' = [staging EXCEPT ![f] = None]
    BY <1>5 DEF Recover
  <2> QED
    BY <1>0, <2>1, <2>2 DEF TypeOK
<1>6. ASSUME NEW f \in File, Edit(f) \/ StopCopying(f) PROVE Owes'
  <2>1. /\ Stored' = Stored /\ switch' = switch /\ owed' = owed /\ staging' = staging
        /\ pc' # "finishing"
    BY <1>6 DEF Edit, StopCopying, Gone, Stored
  <2> QED
    BY <1>0, <2>1
<1>7. ASSUME NEW f \in File, Execute(f) \/ CopyFails(f) \/ StopStaging(f) PROVE Owes'
  <2>1. Stored' = Stored /\ switch' = switch /\ owed' = owed /\ pc' # "finishing"
    BY <1>7 DEF Execute, CopyFails, Fail, StopStaging, Gone, Stored
  <2>2. owed = {} \/ staging' = staging
    BY <1>0, <1>7 DEF Execute, CopyFails, StopStaging, CanStage, TypeOK
  <2> QED
    BY <1>0, <2>1, <2>2
<1>8. ASSUME NEW f \in File, DeleteFile(f) PROVE Owes'
  <2>1. /\ Stored' = Stored /\ switch' = switch /\ owed' = owed /\ staging' = staging
        /\ pc' = pc
    BY <1>8 DEF DeleteFile, Stored
  <2>2. \A g \in File : change'[g].stage = change[g].stage
    BY <1>0, <1>8 DEF DeleteFile, TypeOK, Change
  <2> QED
    BY <1>0, <2>1, <2>2
<1>9. ASSUME NEW f \in File, MoveFile(f) PROVE Owes'
  <2>1. Stored' = Stored /\ switch' = switch /\ owed' = owed /\ pc' = pc
    BY <1>9 DEF MoveFile, Stored
  <2>2. CASE project[f] # staging[f]
    BY <1>0, <1>9, <2>1, <2>2 DEF MoveFile
  <2>3. CASE project[f] = staging[f]
    <3>1. staging' = [staging EXCEPT ![f] = None] /\ change' = [change EXCEPT ![f].stage = None]
      BY <1>9, <2>3 DEF MoveFile
    <3>2. /\ change'[f].stage = None /\ staging'[f] = None
          /\ \A g \in File \ {f} : change'[g] = change[g] /\ staging'[g] = staging[g]
      BY <1>0, <3>1 DEF TypeOK, Change
    <3> QED
      BY <1>0, <2>1, <3>2 DEF TypeOK
  <2> QED
    BY <2>2, <2>3
<1> QED
  BY <1>1, <1>2, <1>3, <1>4, <1>5, <1>6, <1>7, <1>8, <1>9 DEF Next, OnFile

(* The disk always suffices to recover. *)
LEMMA DiskStep == ASSUME ~Overlapping, IInv, [Next]_vars PROVE DiskSuffices'
<1> USE DEF DiskSuffices, Promised, ToRedo, WrongCheckSum
<1>0. /\ TypeOK /\ MemoryAgrees /\ Phases /\ AllPrepared /\ Owes /\ DiskSuffices
      /\ Stored \in Database
  BY DEF IInv
<1>1. CASE Visit \/ Begin \/ Save \/ Saved \/ SaveFails \/ Close \/ Stop \/ Exit \/ UNCHANGED vars
  <2>1. switch' = switch /\ staging' = staging /\ project' = project
    BY <1>1 DEF Visit, Begin, Save, Saved, SaveFails, Fail, Close, Stop, Exit, vars
  <2>2. data' = data \/ \E d : data' = [data EXCEPT ![Other(switch.valid)] = d]
    BY <1>1 DEF Visit, Begin, Save, Saved, SaveFails, Close, Stop, Exit, vars
  <2>3. Stored' = Stored
    BY <1>0, <2>1, <2>2 DEF TypeOK, Stored, Other
  <2> QED
    BY <1>0, <2>1, <2>3
<1>2. CASE EndRecovery
  <2>1. Stored' = Stored /\ staging' = staging /\ project' = project /\ ~switch'.redo
    BY <1>0, <1>2 DEF EndRecovery, TypeOK, Stored
  <2>2. \A f \in File : Controlled(Stored.entry[f]) => staging[f] = None
    BY <1>0, <1>2 DEF EndRecovery, MemoryAgrees, Database, Entry
  <2> QED
    BY <1>0, <2>1, <2>2 DEF CheckedIn
<1>3. CASE Abort
  <2>1. Stored' = Stored /\ switch' = switch /\ project' = project
    BY <1>3 DEF Abort, Fail, Stored
  <2>2. ~switch.redo \/ staging' = staging
    BY <1>0, <1>3 DEF Abort, Phases, TypeOK
  <2> QED
    BY <1>0, <2>1, <2>2
<1>4. CASE Flush
  <2>1. /\ data' = data /\ staging' = staging /\ project' = project
        /\ switch'.valid = Other(switch.valid)
        /\ switch'.redo = (kind = "file" \/ switch.redo)
    BY <1>0, <1>4 DEF Flush, TypeOK
  <2>2. \A f \in File : Stored'.entry[f] = change[f].entry
    <3>1. Stored' = Changed
      BY <1>0, <1>4, <2>1 DEF Flush, MemoryAgrees, Stored
    <3> QED
      BY <3>1 DEF Changed
  <2>3. CASE kind = "plain"
    <3>1. switch'.redo = switch.redo
      BY <1>0, <2>1, <2>3 DEF TypeOK
    <3>2. \A f \in File : Stored'.entry[f] = Stored.entry[f]
      BY <1>0, <1>4, <2>2, <2>3 DEF Flush, MemoryAgrees, Preparing, Untouched
    <3> QED
      BY <1>0, <2>1, <3>1, <3>2
  <2>4. CASE kind = "file"
    <3> SUFFICES ASSUME NEW f \in File, CheckedIn(change[f].entry)
                 PROVE  Promised(f)' = change[f].entry.sum
      BY <2>2
    <3>1. Prepared(f)
      BY <1>0, <1>4, <2>4 DEF Flush, Phases, Preparing, AllPrepared
    <3>2. change[f].entry \in Entry /\ change[f].stage \in Content \cup {None}
      BY <1>0 DEF TypeOK, Change
    <3>3. Promised(f)' = IF staging[f] # None /\ staging[f] = change[f].entry.sum
                         THEN staging[f] ELSE project[f]
      BY <2>1, <2>2, <2>4
    <3> QED
      BY <3>1, <3>2, <3>3 DEF Prepared, Entry, CheckedIn
  <2> QED
    BY <1>0, <2>3, <2>4 DEF TypeOK, Kind
<1>5. CASE Finish
  <2>1. Stored' = Stored /\ project' = project /\ ~switch'.redo
    BY <1>0, <1>5 DEF Finish, TypeOK, Stored
  <2>2. \A f \in File : CheckedIn(Stored.entry[f]) => project[f] = Stored.entry[f].sum
    BY <1>0, <1>5 DEF Finish, MemoryAgrees, Phases, AllPrepared, Prepared
  <2> QED
    BY <2>1, <2>2
<1>6. ASSUME NEW f \in File, Recover(f) PROVE DiskSuffices'
  <2>1. Stored' = Stored /\ switch' = switch /\ loaded = Stored
    BY <1>0, <1>6 DEF Recover, Stored, MemoryAgrees
  <2>2. CASE ToRedo(Stored, f) /\ project[f] # staging[f]
    <3>1. project' = [project EXCEPT ![f] = staging[f]] /\ staging' = staging
      BY <1>6, <2>1, <2>2 DEF Recover
    <3> QED
      BY <1>0, <2>1, <2>2, <3>1 DEF TypeOK
  <2>3. CASE ~(ToRedo(Stored, f) /\ project[f] # staging[f])
    <3>1. staging' = [staging EXCEPT ![f] = None] /\ project' = project
      BY <1>6, <2>1, <2>3 DEF Recover
    <3> QED
      BY <1>0, <2>1, <2>3, <3>1 DEF TypeOK
  <2> QED
    BY <2>2, <2>3
<1>7. ASSUME NEW f \in File, Edit(f) PROVE DiskSuffices'
  <2>1. Stored' = Stored /\ switch' = switch /\ staging' = staging
    BY <1>7 DEF Edit, Stored
  <2>2. PICK c \in Content : project' = [project EXCEPT ![f] = c]
    BY <1>7 DEF Edit
  <2>3. ~CheckedIn(Stored.entry[f])
    BY <1>7 DEF Edit, CheckedIn
  <2> QED
    BY <1>0, <2>1, <2>2, <2>3 DEF TypeOK
<1>8. ASSUME NEW f \in File, Execute(f) \/ CopyFails(f) \/ StopStaging(f) PROVE DiskSuffices'
  <2>1. Stored' = Stored /\ switch' = switch /\ project' = project
    BY <1>8 DEF Execute, CopyFails, Fail, StopStaging, Stored
  <2>2. ~switch.redo \/ staging' = staging
    BY <1>0, <1>8 DEF Execute, CopyFails, StopStaging, CanStage, TypeOK
  <2> QED
    BY <1>0, <2>1, <2>2
<1>9. ASSUME NEW f \in File, DeleteFile(f) \/ MoveFile(f) \/ StopCopying(f) PROVE DiskSuffices'
  <2>1. Stored' = Stored /\ switch' = switch
    BY <1>9 DEF DeleteFile, MoveFile, StopCopying, Stored
  <2>2. pc = "finishing" => /\ Prepared(f) /\ switch.redo /\ change[f].entry = Stored.entry[f]
                            /\ change[f].stage \in Content \cup {None}
    BY <1>0 DEF MemoryAgrees, Phases, AllPrepared, TypeOK, Change
  <2>3. CASE DeleteFile(f)
    <3>1. project' = [project EXCEPT ![f] = None] /\ staging' = staging
      BY <2>3 DEF DeleteFile
    <3>2. pc = "finishing" /\ change[f].delete
      BY <2>3 DEF DeleteFile
    <3> QED
      BY <1>0, <2>1, <2>2, <3>1, <3>2 DEF TypeOK, Prepared
  <2>4. CASE MoveFile(f) /\ project[f] # staging[f]
    <3>1. project' = [project EXCEPT ![f] = staging[f]] /\ staging' = staging
      BY <2>4 DEF MoveFile
    <3>2. pc = "finishing" /\ change[f].stage # None
      BY <2>4 DEF MoveFile
    <3> QED
      BY <1>0, <2>1, <2>2, <3>1, <3>2 DEF TypeOK, Prepared
  <2>5. CASE MoveFile(f) /\ project[f] = staging[f]
    <3>1. project' = project /\ staging' = [staging EXCEPT ![f] = None]
      BY <2>5 DEF MoveFile
    <3>2. pc = "finishing" /\ change[f].stage # None
      BY <2>5 DEF MoveFile
    <3> QED
      BY <1>0, <2>1, <2>2, <2>5, <3>1, <3>2 DEF TypeOK, Prepared
  <2>6. CASE StopCopying(f)
    <3>1. project' = [project EXCEPT ![f] = Partial] /\ staging' = staging
      BY <2>6 DEF StopCopying
    <3>2. ToRedo(Stored, f)
      BY <1>0, <2>2, <2>6 DEF StopCopying, MemoryAgrees, Prepared
    <3> QED
      BY <1>0, <2>1, <3>1, <3>2 DEF TypeOK
  <2> QED
    BY <1>9, <2>3, <2>4, <2>5, <2>6
<1> QED
  BY <1>1, <1>2, <1>3, <1>4, <1>5, <1>6, <1>7, <1>8, <1>9 DEF Next, OnFile

(* Nothing is on the disk at first. *)
LEMMA InitHolds == Init => IInv
<1> SUFFICES ASSUME Init PROVE IInv
  OBVIOUS
<1>1. Stored = NewDatabase
  BY DEF Init, Stored
<1>2. TypeOK
  <2>1. data \in [{1, 2} -> Database \cup {Unreadable}]
    <3>1. data = [i \in {1, 2} |-> IF i = 1 THEN NewDatabase ELSE Unreadable]
      BY DEF Init
    <3> QED
      BY <3>1, Types
  <2> QED
    BY <2>1, Types DEF Init, TypeOK, Step, Kind
<1>3. DiskSuffices
  BY <1>1 DEF Init, DiskSuffices, NewDatabase, NoEntry, CheckedIn, Controlled
<1>4. MemoryAgrees /\ Phases /\ AllPrepared /\ Owes
  BY DEF Init, MemoryAgrees, Phases, AllPrepared, Owes, Preparing
<1> QED
  BY <1>1, <1>2, <1>3, <1>4, Types DEF IInv

LEMMA Inductive == ASSUME ~Overlapping, IInv, [Next]_vars PROVE IInv'
BY TypeStep, StoredStep, MemoryStep, PhasesStep, PreparedStep, OwesStep, DiskStep DEF IInv

LEMMA Invariance == ASSUME ~Overlapping PROVE Spec => []IInv
<1>1. IInv /\ [Next]_vars => IInv'
  BY Inductive
<1> QED
  BY InitHolds, <1>1, PTL DEF Spec

(* The files and the memory of the program stay well typed. *)
THEOREM TypeCorrect == ASSUME ~Overlapping PROVE Spec => []TypeOK
<1>1. IInv => TypeOK
  BY DEF IInv
<1> QED
  BY Invariance, <1>1, PTL

(***************************************************************************)
(* Wherever the program stops, the switch names a database that can be       *)
(* read, and each checked-in file is in the project or will be copied there  *)
(* (SwitchFile, Transaction, StagingVerifier): for any number of files,      *)
(* versions and transactions.                                               *)
(***************************************************************************)
THEOREM AlwaysRecoverable == ASSUME ~Overlapping PROVE Spec => []Recoverable
<1>1. IInv => Recoverable
  BY DEF IInv, DiskSuffices, Recoverable
<1> QED
  BY Invariance, <1>1, PTL

(***************************************************************************)
(* A file that an interrupted transaction had staged is deleted only when it *)
(* is in the project: it never has the wrong check sum, whatever failed      *)
(* transactions leave behind and wherever redoing it is interrupted.         *)
(***************************************************************************)
THEOREM NeverDiscards == ASSUME ~Overlapping PROVE Spec => NothingDiscarded
<1> DEFINE Kept == \A f \in owed : staging[f] # None /\ staging'[f] = None => project'[f] = staging[f]
<1>1. IInv /\ [Next]_vars => [Kept]_vars
  <2> SUFFICES ASSUME IInv, Next, NEW f \in owed, staging[f] # None, staging'[f] = None
               PROVE  project'[f] = staging[f]
    BY DEF vars
  <2>1. /\ TypeOK /\ Owes /\ Phases /\ f \in File /\ switch.redo
        /\ pc # "away" => loaded = Stored
    BY DEF IInv, MemoryAgrees, Owes, TypeOK
  <2>2. \A g \in File : ~Execute(g) /\ ~CopyFails(g)
    BY <2>1 DEF Execute, CopyFails, CanStage, TypeOK
  <2>3. ~Abort
    BY <2>1 DEF Abort, Phases, TypeOK
  <2>4. PICK g \in File : Recover(g) \/ MoveFile(g)
    BY <2>1, <2>2, <2>3 DEF Next, OnFile, Visit, EndRecovery, Begin, Save, Saved, SaveFails, Flush,
                Finish, Close, Stop, Exit, Edit, DeleteFile, StopStaging, StopCopying, CanStage, TypeOK
  <2>5. CASE Recover(g)
    <3>1. g = f
      BY <2>1, <2>5 DEF Recover, TypeOK
    <3>2. ToRedo(Stored, f)
      BY <2>1 DEF Owes, ToRedo, WrongCheckSum
    <3> QED
      BY <2>1, <2>5, <3>1, <3>2 DEF Recover, TypeOK
  <2>6. CASE MoveFile(g)
    BY <2>1, <2>6 DEF MoveFile, TypeOK
  <2> QED
    BY <2>4, <2>5, <2>6
<1> QED
  BY Invariance, <1>1, PTL DEF Spec, NothingDiscarded

----------------------------------------------------------------------------
(* Refinement *)

Work == [f \in File |-> IF Controlled(Stored.entry[f]) THEN Promised(f) ELSE None]

(* A file that is checked out meets what a failed transaction has staged for  *)
(* it.                                                                      *)
Mistaken(f) ==
    /\ Recover(f) \/ StopCopying(f)
    /\ Stored.entry[f].out /\ f \notin owed

(* Steps that change neither the database nor what the project will hold.    *)
LEMMA Stutter ==
    ASSUME ~Overlapping, IInv, Next, ~Flush, \A f \in File : ~Edit(f) /\ ~Mistaken(f)
    PROVE  /\ Stored' = Stored
           /\ \A f \in File : Controlled(Stored.entry[f]) => Promised(f)' = Promised(f)
<1> DEFINE Same == /\ Stored' = Stored
                   /\ \A f \in File : Controlled(Stored.entry[f]) => Promised(f)' = Promised(f)
<1> USE DEF TypeOK, Stored, Other, Promised, ToRedo, WrongCheckSum, memory
<1>0. TypeOK /\ MemoryAgrees /\ Phases /\ AllPrepared /\ Owes /\ DiskSuffices
      /\ Stored \in Database
  BY DEF IInv
<1>1. CASE Visit \/ Begin \/ Save \/ Saved \/ SaveFails \/ Close \/ Stop \/ Exit
  BY <1>0, <1>1 DEF Visit, Begin, Save, Saved, SaveFails, Fail, Close, Stop, Exit, Gone
<1>2. CASE EndRecovery
  BY <1>0, <1>2 DEF EndRecovery, MemoryAgrees, Database, Entry, Controlled
<1>3. CASE Abort
  BY <1>0, <1>3 DEF Abort, Fail, Phases
<1>4. CASE Finish
  <2>1. Stored' = Stored /\ project' = project /\ ~switch'.redo
    BY <1>0, <1>4 DEF Finish
  <2>2. \A f \in File : Controlled(Stored.entry[f]) => Promised(f) = project[f]
    BY <1>0, <1>4 DEF Finish, MemoryAgrees, Phases, AllPrepared, Prepared, Owes, DiskSuffices
  <2> QED
    BY <2>1, <2>2
<1>5. ASSUME NEW f \in File, Recover(f) PROVE Same
  <2>1. Stored' = Stored /\ switch' = switch /\ owed' = owed /\ loaded = Stored
    BY <1>0, <1>5 DEF Recover, MemoryAgrees
  <2>2. ASSUME Controlled(Stored.entry[f]) PROVE Promised(f)' = Promised(f)
    <3>1. CheckedIn(Stored.entry[f]) \/ f \in owed
      BY <1>5, <2>2 DEF Mistaken, CheckedIn
    <3>2. CASE ToRedo(Stored, f) /\ project[f] # staging[f]
      <4>1. staging' = staging
        BY <1>5, <2>1, <3>2 DEF Recover
      <4> QED
        BY <2>1, <3>1, <3>2, <4>1
    <3>3. CASE ~(ToRedo(Stored, f) /\ project[f] # staging[f])
      <4>1. staging' = [staging EXCEPT ![f] = None] /\ project' = project
        BY <1>5, <2>1, <3>3 DEF Recover
      <4>2. Promised(f) = project[f]
        BY <3>3
      <4>3. Promised(f)' = project[f]
        BY <1>0, <2>1, <4>1
      <4> QED
        BY <4>2, <4>3
    <3> QED
      BY <3>2, <3>3
  <2>3. ASSUME NEW g \in File, g # f PROVE Promised(g)' = Promised(g)
    <3>1. staging'[g] = staging[g] /\ project'[g] = project[g]
      BY <1>0, <1>5, <2>3 DEF Recover
    <3> QED
      BY <2>1, <3>1
  <2> QED
    BY <2>1, <2>2, <2>3
<1>6. ASSUME NEW f \in File, Execute(f) \/ CopyFails(f) PROVE Same
  <2>1. Stored' = Stored /\ switch' = switch /\ owed' = owed /\ project' = project
    BY <1>6 DEF Execute, CopyFails, Fail
  <2>2. ~switch.redo \/ staging' = staging
    BY <1>0, <1>6 DEF Execute, CopyFails, CanStage
  <2> QED
    BY <2>1, <2>2
<1>7. ASSUME NEW f \in File, DeleteFile(f) PROVE Same
  BY <1>0, <1>7 DEF DeleteFile, MemoryAgrees, Phases, AllPrepared, Prepared, Preparing, Owes
<1>8. ASSUME NEW f \in File, MoveFile(f) PROVE Same
  BY <1>0, <1>8 DEF MoveFile, MemoryAgrees, Phases, AllPrepared, Prepared, Preparing, Owes
<1>9. ASSUME NEW f \in File, StopStaging(f) PROVE Same
  BY <1>0, <1>9 DEF StopStaging, Gone, CanStage
<1>10. ASSUME NEW f \in File, StopCopying(f) PROVE Same
  <2>1. /\ Stored' = Stored /\ switch' = switch /\ owed' = owed /\ staging' = staging
        /\ loaded = Stored /\ project' = [project EXCEPT ![f] = Partial]
    BY <1>0, <1>10 DEF StopCopying, Gone, MemoryAgrees
  <2>2. Controlled(Stored.entry[f]) => CheckedIn(Stored.entry[f]) \/ f \in owed
    BY <1>10 DEF Mistaken, CheckedIn
  <2>3. ToRedo(Stored, f)
    BY <1>0, <1>10, <2>1 DEF StopCopying, MemoryAgrees, Phases, AllPrepared, Prepared, Owes
  <2>4. Controlled(Stored.entry[f]) => Promised(f)' = Promised(f)
    BY <2>1, <2>2, <2>3
  <2>5. \A g \in File \ {f} : Promised(g)' = Promised(g)
    BY <1>0, <2>1
  <2> QED
    BY <2>1, <2>4, <2>5
<1> QED
  BY <1>1, <1>2, <1>3, <1>4, <1>5, <1>6, <1>7, <1>8, <1>9, <1>10 DEF Next, OnFile

(* What a failed transaction has staged replaces a file that is checked out.  *)
LEMMA MistakeRelapses ==
    ASSUME IInv, NEW f \in File, Mistaken(f)
    PROVE  Store!Relapse \/ (Stored' = Stored /\ Work' = Work)
<1> USE DEF Promised, ToRedo, WrongCheckSum, Stored
<1>0. /\ TypeOK /\ Stored \in Database
      /\ pc # "away" => loaded = Stored
      /\ pc = "finishing" => \A g \in File : change[g].stage # None => g \in owed
  BY DEF IInv, MemoryAgrees, Owes
<1>1. /\ Stored' = Stored /\ switch' = switch /\ owed' = owed
      /\ Stored.entry[f].out /\ f \notin owed /\ pc = "recovering"
  BY <1>0 DEF Mistaken, Recover, StopCopying, Gone, memory
<1>2. Controlled(Stored.entry[f]) /\ ~CheckedIn(Stored.entry[f])
  BY <1>0, <1>1 DEF Database, Entry, CheckedIn
<1>3. \A g \in File \ {f} : project'[g] = project[g] /\ staging'[g] = staging[g]
  BY <1>0 DEF Mistaken, Recover, StopCopying, TypeOK
<1>4. \A g \in File \ {f} : Work'[g] = Work[g]
  BY <1>1, <1>3 DEF Work
<1>5. Work[f] = project[f] /\ Work'[f] = project'[f]
  BY <1>1, <1>2 DEF Work
<1>6. CASE project'[f] = project[f]
  BY <1>1, <1>4, <1>5, <1>6 DEF Work
<1>7. CASE project'[f] # project[f]
  <2>1. project'[f] \in Content \cup {Partial}
    BY <1>0, <1>1, <1>7 DEF Mistaken, Recover, StopCopying, TypeOK, OnDisk
  <2>2. Work' = [Work EXCEPT ![f] = project'[f]]
    BY <1>4, <1>5 DEF Work
  <2> QED
    BY <1>1, <2>1, <2>2 DEF Store!Relapse, Work
<1> QED
  BY <1>6, <1>7

(* Flushing the switch commits the store. *)
LEMMA FlushCommits ==
    ASSUME IInv, IInv', Flush
    PROVE  Store!Commit
<1> USE DEF Other, Promised, ToRedo, WrongCheckSum
<1>0. TypeOK /\ MemoryAgrees /\ Phases /\ AllPrepared /\ DiskSuffices /\ Stored \in Database
  BY DEF IInv
<1>1. pc = "saved" /\ loaded = Stored /\ Stored.serial <= MaxCommits
  BY <1>0 DEF Flush, MemoryAgrees, Preparing
<1>2. Stored' = Changed
  BY <1>0, <1>1 DEF Flush, TypeOK, MemoryAgrees, Stored
<1>3. /\ data' = data /\ staging' = staging /\ project' = project
      /\ switch'.redo = (kind = "file" \/ switch.redo)
      /\ owed' = IF kind = "file" THEN Staged ELSE owed
  BY <1>0 DEF Flush, TypeOK
<1>4. \A f \in File : Stored'.entry[f] = change[f].entry
  BY <1>2 DEF Changed
<1>5. Stored' \in {[serial |-> Stored.serial + 1, entry |-> e] : e \in [File -> Entry]}
  BY <1>0, <1>1, <1>2 DEF Changed, TypeOK, Change
<1>6. \A f \in File : Work'[f] \in Content \cup {None, Partial}
  BY DEF IInv, TypeOK, OnDisk, Work
<1>7. \A f \in File : /\ CheckedIn(Stored'.entry[f]) => Work'[f] = Stored'.entry[f].sum
                      /\ ~Controlled(Stored'.entry[f]) => Work'[f] = None
  BY DEF IInv, DiskSuffices, Work, CheckedIn
<1>8. ASSUME NEW f \in File, Stored'.entry[f] = Stored.entry[f]
      PROVE  Work'[f] = Work[f]
  <2>1. CASE kind = "plain"
    BY <1>0, <1>3, <1>8, <2>1 DEF Work, TypeOK
  <2>2. CASE kind = "file"
    <3>1. change[f].stage = None /\ ~switch.redo
      BY <1>0, <1>1, <1>4, <1>8, <2>2 DEF Phases, AllPrepared, Preparing
    <3>2. CASE CheckedIn(Stored.entry[f])
      <4>1. Work[f] = Stored.entry[f].sum
        BY <1>0, <3>2 DEF DiskSuffices, Work, CheckedIn
      <4> QED
        BY <1>7, <1>8, <3>2, <4>1
    <3>3. CASE ~CheckedIn(Stored.entry[f])
      <4>1. f \notin owed'
        BY <1>3, <2>2, <3>1 DEF Staged
      <4> QED
        BY <1>3, <1>8, <3>1, <3>3, <4>1 DEF Work
    <3> QED
      BY <3>2, <3>3
  <2> QED
    BY <1>0, <2>1, <2>2 DEF TypeOK, Kind
<1>9. Work' \in [File -> Content \cup {None, Partial}]
  BY <1>6 DEF Work
<1> QED
  BY <1>1, <1>5, <1>7, <1>8, <1>9
  DEF Store!Commit, Store!Faithful, Store!Entry, Store!CheckedIn, Store!Controlled,
      Work, Entry, CheckedIn, Controlled

(* An edit of the user's is one of the store's, unless a file that is to be   *)
(* redone hides it.                                                         *)
LEMMA EditEdits ==
    ASSUME IInv, NEW f \in File, Edit(f)
    PROVE  Store!Edit \/ (Stored' = Stored /\ Work' = Work)
<1> USE DEF Promised, ToRedo, WrongCheckSum, Stored
<1>0. TypeOK /\ Stored \in Database
  BY DEF IInv
<1>1. PICK c \in Content : project' = [project EXCEPT ![f] = c]
  BY DEF Edit
<1>2. /\ Stored.entry[f].out /\ Stored' = Stored
      /\ switch' = switch /\ staging' = staging
  BY DEF Edit
<1>3. Controlled(Stored.entry[f])
  BY <1>0, <1>2 DEF Database, Entry
<1>4. ~CheckedIn(Stored.entry[f]) /\ owed' = owed
  BY <1>2 DEF Edit, CheckedIn
<1>5. \A g \in File \ {f} : Work'[g] = Work[g]
  BY <1>0, <1>1, <1>2, <1>4 DEF Work, TypeOK
<1>6. CASE ToRedo(Stored, f) /\ f \in owed
  <2>1. Work'[f] = Work[f]
    BY <1>2, <1>3, <1>4, <1>6 DEF Work
  <2>2. Work' = [g \in File |-> Work'[g]] /\ Work = [g \in File |-> Work[g]]
    BY DEF Work
  <2> QED
    BY <1>2, <1>5, <2>1, <2>2
<1>7. CASE ~(ToRedo(Stored, f) /\ f \in owed)
  <2>1. Work'[f] = c
    BY <1>0, <1>1, <1>2, <1>3, <1>4, <1>7 DEF Work, TypeOK
  <2>2. Work' = [g \in File |-> Work'[g]] /\ Work = [g \in File |-> Work[g]]
    BY DEF Work
  <2>3. Work' = [Work EXCEPT ![f] = c]
    BY <1>5, <2>1, <2>2
  <2> QED
    BY <1>2, <2>3 DEF Store!Edit, Work
<1> QED
  BY <1>6, <1>7

(***************************************************************************)
(* The data files, the switch and the staging area implement a store whose   *)
(* database and files change together or not at all, and in which a file     *)
(* changes only with its entry or when the user edits it, or, when it is     *)
(* checked out, by what a failed transaction has left (Transaction,          *)
(* FileTransaction, TransactionFileList, StagingVerifier).                   *)
(***************************************************************************)
THEOREM Implementation == ASSUME ~Overlapping PROVE Spec => ImplementsStore
<1>1. Init => Store!Init
  BY DEF Init, Store!Init, Store!NewDatabase, Store!NoEntry, Stored, NewDatabase, NoEntry,
         Controlled
<1>2. IInv /\ IInv' /\ [Next]_vars => [Store!Next]_Store!vars
  <2> SUFFICES ASSUME IInv, IInv', [Next]_vars
               PROVE  Store!Next \/ (Stored' = Stored /\ Work' = Work)
    BY DEF Store!vars, Work
  <2>1. CASE Flush
    BY <2>1, FlushCommits DEF Store!Next
  <2>2. ASSUME NEW f \in File, Edit(f)
        PROVE  Store!Next \/ (Stored' = Stored /\ Work' = Work)
    BY <2>2, EditEdits DEF Store!Next
  <2>3. ASSUME NEW f \in File, Mistaken(f)
        PROVE  Store!Next \/ (Stored' = Stored /\ Work' = Work)
    BY <2>3, MistakeRelapses DEF Store!Next
  <2>4. CASE Next /\ ~Flush /\ \A f \in File : ~Edit(f) /\ ~Mistaken(f)
    BY <2>4, Stutter DEF Work
  <2>5. CASE UNCHANGED vars
    BY <2>5 DEF vars, Work, Stored, Promised, ToRedo, WrongCheckSum
  <2> QED
    BY <2>1, <2>2, <2>3, <2>4, <2>5
<1> QED
  BY Invariance, <1>1, <1>2, PTL DEF Spec, ImplementsStore, Store!Spec

=============================================================================

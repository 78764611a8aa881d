----------------------- MODULE IncrementalSave_proofs -----------------------
(***************************************************************************)
(* The file replacement of incremental_save is an atomic, durable write,   *)
(* for any number of saves, provided that callers ask for fsync wherever   *)
(* the machine may lose power.                                             *)
(***************************************************************************)
EXTENDS IncrementalSave, TLAPS

\* The application passes fsync: true to every save it starts.
FsyncWhereNeeded == PowerLoss => FsyncModes = {TRUE}

IInv == TypeOK /\ ReplacementInvariant

\* A file that survives a power loss whole is the file that was there.
LEMMA SurvivorOfWhole ==
    ASSUME NEW f \in Contents, NEW g \in Survivors(f)
    PROVE  /\ g \in Contents
           /\ g.v = f.v
           /\ Exists(g) <=> Exists(f)
           /\ (PowerLoss /\ (Exists(f) => Whole(f))) => g = f
BY DEF Contents, Survivors, Exists, Whole, NoFile

\* At start there is at most the one file found there, and it is whole.
LEMMA InitInvariant == FsyncWhereNeeded /\ Init => IInv
<1> SUFFICES ASSUME FsyncWhereNeeded, Init PROVE IInv
  OBVIOUS
<1>1. fsync \in BOOLEAN /\ fsync \in Modes
  BY ModesAssumption DEF Init, Modes
<1>2. target \in Contents /\ tmp \in Contents /\ bak \in Contents
  BY DEF Init, Contents, NoFile
<1>3. targetExisted \in BOOLEAN
  BY Zenon DEF Init
<1>7. writer \in Writers
  BY DEF Init
<1>6. ver \in Nat \ {0} /\ acked \in Nat
  BY DEF Init
<1>5. TypeOK
  BY <1>1, <1>2, <1>3, <1>6, <1>7, Zenon DEF Init, TypeOK
<1>4. ReplacementInvariant
  BY <1>1 DEF Init, ReplacementInvariant, NoFile, Exists, Whole, BackupIsOlder,
     OkMeansInstalled, Surviving
<1> QED
  BY <1>4, <1>5 DEF IInv

\* Who writes a path does not change, nor what that writer asks for.
LEMMA WriterStays ==
    ASSUME [Next]_vars
    PROVE  writer' = writer /\ Modes' = Modes
<1>1. writer' = writer
  <2>1. CASE Begin
    BY <2>1 DEF Begin
  <2>2. CASE Step
    BY <2>2 DEF Step, CreateTmp, WriteTmp, SyncTmp, DropBak, Stage, Commit, Rollback,
       Cleanup, Validate, Reopen, Withdraw, Restore, Discard, Finish, Return, Goto,
       Fail, FailStaging, StartReplacing
  <2>3. CASE Kill \/ LosePower
    BY <2>3 DEF Kill, LosePower, Die
  <2>4. CASE UNCHANGED vars
    BY <2>4 DEF vars
  <2> QED
    BY <2>1, <2>2, <2>3, <2>4 DEF Next
<1> QED
  BY <1>1 DEF Modes

\* Where power may be lost every write is synced.
LEMMA ModeNeeded ==
    ASSUME FsyncWhereNeeded, PowerLoss, fsync \in Modes
    PROVE  fsync = TRUE
BY DEF FsyncWhereNeeded, Modes

\* No file-system call, failure, kill or power loss breaks the invariant.
LEMMA NextInvariant == FsyncWhereNeeded /\ IInv /\ [Next]_vars => IInv'
<1> SUFFICES ASSUME FsyncWhereNeeded, IInv, [Next]_vars
             PROVE  IInv'
  OBVIOUS
<1>0. writer' = writer /\ Modes' = Modes
  BY WriterStays
<1> USE <1>0, ModesAssumption, WritersAssumption DEF FsyncWhereNeeded, IInv, TypeOK, ReplacementInvariant,
        Contents, NoFile, Exists, Whole, BackupIsOlder, OkMeansInstalled, Surviving
<1>1. CASE Begin
  <2>1. fsync' \in BOOLEAN /\ fsync' \in Modes'
    BY <1>1, <1>0, ModesAssumption DEF Begin, Modes
  <2> QED
    BY <1>1, <2>1 DEF Begin
<1>2. CASE CreateTmp
  BY <1>2 DEF CreateTmp, Goto, Return, Fail
<1>3. CASE WriteTmp
  <2>1. PowerLoss => fsync = TRUE
    BY ModeNeeded
  <2>2. fsync = TRUE \/ fsync = FALSE
    OBVIOUS
  <2>3. CASE fsync = TRUE
    <3>1. CASE Fail /\ UNCHANGED <<target, tmp, bak>>
      BY <1>3, <3>1 DEF WriteTmp, Return, Goto, Fail
    <3>2. CASE Goto("sync") /\ tmp' = [tmp EXCEPT !.st = "written"] /\ UNCHANGED <<target, bak>>
      BY <1>3, <3>2 DEF WriteTmp, Goto
    <3> QED
      BY <1>3, <2>3, <3>1, <3>2 DEF WriteTmp
  <2>4. CASE fsync = FALSE
    <3>1. CASE Fail /\ UNCHANGED <<target, tmp, bak>>
      BY <1>3, <3>1 DEF WriteTmp, Return, Goto, Fail
    <3>2. CASE StartReplacing /\ tmp' = [tmp EXCEPT !.st = "written"] /\ UNCHANGED <<target, bak>>
      <4>1. Whole(tmp') /\ tmp'.v = ver /\ tmp' \in Contents
        BY <1>3, <2>1, <2>4, <3>2 DEF WriteTmp
      <4>2. targetExisted' \in BOOLEAN
        BY <3>2 DEF StartReplacing
      <4> QED
        BY <1>3, <3>2, <4>1, <4>2 DEF WriteTmp, StartReplacing
    <3> QED
      BY <1>3, <2>4, <3>1, <3>2 DEF WriteTmp
  <2> QED
    BY <2>2, <2>3, <2>4
<1>4. CASE SyncTmp
  <2>1. CASE Fail /\ UNCHANGED tmp
    BY <1>4, <2>1 DEF SyncTmp, Return, Goto, Fail
  <2>2. CASE StartReplacing /\ tmp' = [tmp EXCEPT !.st = "synced"]
    <3>1. Whole(tmp') /\ tmp'.v = ver /\ tmp' \in Contents
      BY <1>4, <2>2 DEF SyncTmp
    <3>2. targetExisted' \in BOOLEAN
      BY <2>2 DEF StartReplacing
    <3> QED
      BY <1>4, <2>2, <3>1, <3>2 DEF SyncTmp, StartReplacing
  <2>3. CASE writer = "export" /\ Goto("validate") /\ tmp' = [tmp EXCEPT !.st = "synced"]
    <3>1. Whole(tmp') /\ tmp'.v = ver /\ tmp' \in Contents
      BY <1>4, <2>3 DEF SyncTmp
    <3> QED
      BY <1>4, <2>3, <3>1 DEF SyncTmp, Goto
  <2> QED
    BY <1>4, <2>1, <2>2, <2>3 DEF SyncTmp
<1>5. CASE DropBak
  <2>1. CASE bak' = NoFile /\ Goto("stage")
    BY <1>5, <2>1 DEF DropBak, Goto
  <2>2. CASE UNCHANGED bak /\ FailStaging
    BY <1>5, <2>2 DEF DropBak, Goto, Return, Fail, FailStaging
  <2> QED
    BY <1>5, <2>1, <2>2 DEF DropBak
<1>6. CASE Stage
  BY <1>6 DEF Stage, Goto, Return, Fail, FailStaging
<1>7. CASE Commit
  <2>1. CASE target' = tmp /\ tmp' = NoFile
    BY <1>7, <2>1 DEF Commit, Finish, Goto, Return
  <2>2. CASE UNCHANGED <<target, tmp>>
    <3>1. CASE targetExisted /\ Exists(bak) /\ Goto("rollback")
      BY <1>7, <2>2, <3>1 DEF Commit, Goto
    <3>2. CASE Fail
      BY <1>7, <2>2, <3>2 DEF Commit, Goto, Return, Fail
    <3> QED
      BY <1>7, <2>2, <3>1, <3>2 DEF Commit
  <2> QED
    BY <1>7, <2>1, <2>2 DEF Commit
<1>8. CASE Rollback
  BY <1>8 DEF Rollback, Return, Goto, Fail
<1>9. CASE Cleanup
  <2>1. CASE bak' = NoFile /\ Return("ok")
    BY <1>9, <2>1 DEF Cleanup, Return
  <2>2. CASE UNCHANGED bak
    BY <1>9, <2>2 DEF Cleanup, Return
  <2> QED
    BY <1>9, <2>1, <2>2 DEF Cleanup
<1>13. CASE Discard
  BY <1>13 DEF Discard, Return
<1>14. CASE Validate
  <2>2. CASE StartReplacing
    <3>1. targetExisted' \in BOOLEAN
      BY <2>2 DEF StartReplacing
    <3> QED
      BY <1>14, <2>2, <3>1 DEF Validate, StartReplacing, files
  <2>3. CASE Fail
    BY <1>14, <2>3 DEF Validate, Fail, Goto, Return, files
  <2> QED
    BY <1>14, <2>2, <2>3 DEF Validate
<1>15. CASE Reopen
  BY <1>15 DEF Reopen, Finish, Goto, Return, files
<1>16. CASE Withdraw
  <2>1. CASE target' = target
    BY <1>16, <2>1 DEF Withdraw, Goto, Return
  <2>2. CASE target' = NoFile
    <3>1. acked <= bak.v /\ bak.v < ver /\ writer = "export"
      BY <1>16 DEF Withdraw
    <3>2. target' \in Contents /\ ~Exists(target') /\ target'.v = 0 /\ tmp' = tmp /\ bak' = bak
      BY <1>16, <2>2 DEF Withdraw
    <3>3. Surviving' = bak
      BY <3>2 DEF Surviving
    <3>4. writer' = writer /\ ver' = ver /\ fsync' = fsync /\ targetExisted' = targetExisted
          /\ acked' = acked /\ pc' \in {"restore", "idle"} /\ result' # "ok"
          /\ (pc' # "idle" => result' = "none")
          /\ result' \in {"none", "ok", "err"}
          /\ (pc' = "restore" => targetExisted)
      BY <1>16, <2>2 DEF Withdraw, Goto, Return
    <3>5. TypeOK'
      <4>1. pc' \notin {"dropBak", "stage", "rollback", "cleanup"}
        BY <3>4
      <4> QED
        BY <3>2, <3>4, <4>1 DEF TypeOK
    <3>6. BackupIsOlder' /\ OkMeansInstalled' /\ acked' <= Surviving'.v
      BY <3>1, <3>2, <3>3, <3>4
    <3>7. fsync' \in Modes' /\ (Exists(bak) => Whole(bak)) /\ ver' \in Nat
      BY <3>4, <3>5
    <3>8. ReplacementInvariant'
      BY <3>1, <3>2, <3>4, <3>6, <3>7
    <3> QED
      BY <3>5, <3>8
  <2> QED
    BY <1>16, <2>1, <2>2 DEF Withdraw
<1>17. CASE Restore
  BY <1>17 DEF Restore, Return
<1>10. CASE Kill
  BY <1>10 DEF Kill, Die, files
<1>11. CASE LosePower
  <2>1. target' = target /\ bak' = bak
    BY <1>11, SurvivorOfWhole DEF LosePower
  <2>2. tmp' \in Contents
    BY <1>11, SurvivorOfWhole DEF LosePower
  <2> QED
    BY <1>11, <2>1, <2>2 DEF LosePower, Die
<1>12. CASE UNCHANGED vars
  BY <1>12 DEF vars
<1> QED
  BY <1>1, <1>2, <1>3, <1>4, <1>5, <1>6, <1>7, <1>8, <1>9, <1>10, <1>11, <1>12, <1>13,
     <1>14, <1>15, <1>16, <1>17
  DEF Next, Step

\* The replacement invariant, and type correctness, hold of every behaviour.
THEOREM ReplacementIsSound ==
    ASSUME FsyncWhereNeeded
    PROVE  Spec => [](TypeOK /\ ReplacementInvariant)
<1>1. Init => IInv
  BY InitInvariant
<1>2. IInv /\ [Next]_vars => IInv'
  BY NextInvariant
<1> QED
  BY <1>1, <1>2, PTL DEF Spec, IInv

\* The variables keep their types.
THEOREM SaveIsWellTyped ==
    ASSUME FsyncWhereNeeded
    PROVE  Spec => []TypeOK
BY ReplacementIsSound, PTL

\* Ok is only returned with the new version at the target path.
THEOREM OkIsHonest ==
    ASSUME FsyncWhereNeeded
    PROVE  Spec => []OkMeansInstalled
<1>1. ReplacementInvariant => OkMeansInstalled
  BY DEF ReplacementInvariant
<1> QED
  BY <1>1, ReplacementIsSound, PTL

\* Removing a backup beside a target never removes the newer of the two.
THEOREM BackupStaysOlder ==
    ASSUME FsyncWhereNeeded
    PROVE  Spec => []BackupIsOlder
<1>1. ReplacementInvariant => BackupIsOlder
  BY DEF ReplacementInvariant
<1> QED
  BY <1>1, ReplacementIsSound, PTL

\* The path the document is opened from never holds a partly written file.
THEOREM TargetIsNeverTorn ==
    ASSUME FsyncWhereNeeded
    PROVE  Spec => []TargetNeverTorn
<1>1. TypeOK /\ ReplacementInvariant => TargetNeverTorn
  BY DEF TypeOK, ReplacementInvariant, TargetNeverTorn, Contents, NoFile, Exists, Whole
<1> QED
  BY <1>1, ReplacementIsSound, PTL

\* The surviving copy is never torn, now and after a step.
LEMMA SurvivorIsReadable ==
    /\ IInv => Readable = Surviving.v
    /\ IInv' => Readable' = Surviving.v'
BY DEF IInv, TypeOK, ReplacementInvariant, Readable, Surviving, Contents, NoFile,
       Exists, Whole

\* One step of the replacement is a step, or a stutter, of the atomic write.
LEMMA StepSimulation ==
    FsyncWhereNeeded /\ IInv /\ [Next]_vars
        => [Durable!Next]_<<Readable, acked, writer = "export">>
<1> SUFFICES ASSUME FsyncWhereNeeded, IInv, [Next]_vars
             PROVE  [Durable!Next]_<<Readable, acked, writer = "export">>
  OBVIOUS
<1>0. /\ Readable = Surviving.v /\ Readable' = Surviving.v'
      /\ writer' = writer
  BY NextInvariant, SurvivorIsReadable, WriterStays
<1> USE <1>0, ModesAssumption, WritersAssumption DEF FsyncWhereNeeded, IInv, TypeOK, ReplacementInvariant,
        Contents, NoFile, Exists, Whole, BackupIsOlder, OkMeansInstalled, Surviving,
        Durable!Next, Durable!Replace, Durable!Acknowledge,
        Durable!Withdraw
<1>1. CASE Begin
  BY <1>1 DEF Begin
<1>2. CASE CreateTmp
  BY <1>2 DEF CreateTmp, Goto, Return, Fail
<1>3. CASE WriteTmp
  BY <1>3 DEF WriteTmp, Goto, Return, Fail, StartReplacing
<1>4. CASE SyncTmp
  BY <1>4 DEF SyncTmp, Return, Goto, Fail, StartReplacing
<1>5. CASE DropBak
  BY <1>5 DEF DropBak, Goto, Return, Fail, FailStaging
<1>6. CASE Stage
  BY <1>6 DEF Stage, Goto, Return, Fail, FailStaging
<1>7. CASE Commit
  BY <1>7 DEF Commit, Finish, Goto, Return, Fail
<1>8. CASE Rollback
  BY <1>8 DEF Rollback, Return, Goto, Fail
<1>9. CASE Cleanup
  BY <1>9 DEF Cleanup, Return
<1>13. CASE Discard
  BY <1>13 DEF Discard, Return
<1>14. CASE Validate
  BY <1>14 DEF Validate, Fail, Goto, Return, StartReplacing, files
<1>15. CASE Reopen
  BY <1>15 DEF Reopen, Finish, Goto, Return, files
<1>16. CASE Withdraw
  BY <1>16 DEF Withdraw, Goto, Return
<1>17. CASE Restore
  BY <1>17 DEF Restore, Return
<1>10. CASE Kill
  BY <1>10 DEF Kill, Die, files
<1>11. CASE LosePower
  <2>1. target' = target /\ bak' = bak
    BY <1>11, SurvivorOfWhole DEF LosePower
  <2> QED
    BY <1>11, <2>1 DEF LosePower, Die
<1>12. CASE UNCHANGED vars
  BY <1>12 DEF vars
<1> QED
  BY <1>1, <1>2, <1>3, <1>4, <1>5, <1>6, <1>7, <1>8, <1>9, <1>10, <1>11, <1>12, <1>13,
     <1>14, <1>15, <1>16, <1>17
  DEF Next, Step

\* incremental_save implements the atomic, durable write.
THEOREM SaveIsDurable ==
    ASSUME FsyncWhereNeeded
    PROVE  Spec => DurableSpec
<1>1. Init => Durable!Init
  BY DEF Init, Durable!Init, Readable, Surviving, Exists, NoFile
<1>2. IInv /\ [Next]_vars => [Durable!Next]_<<Readable, acked, writer = "export">>
  BY StepSimulation
<1>3. Spec => []IInv
  BY ReplacementIsSound DEF IInv
<1> QED
  BY <1>1, <1>2, <1>3, PTL DEF Spec, DurableSpec, Durable!Spec, Durable!vars
=============================================================================

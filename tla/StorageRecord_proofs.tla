------------------------ MODULE StorageRecord_proofs -------------------------
(***************************************************************************)
(* The two records StorageLifecycle keeps on the object: Status.Storage,   *)
(* and the storage ownership ID.  Neither is given up by accident as long  *)
(* as a reconcile starts from a copy with the operator's own writes in it, *)
(* an ID never by a reconcile that has seen one, and a bucket that is on   *)
(* record under Retain is not destroyed.                                   *)
(***************************************************************************)
EXTENDS StorageGuards_proofs

\* The points at which a reconcile has not touched Status.Storage yet, ...
Untouched == {"reconciling", "finalizer", "cleanup", "verify", "empty", "deleteBucket",
              "cleanupFailed", "removeFinalizer", "clearStatus"}

\* ... those at which it sets up a bucket, before it records one ...
Provisioning == {"ownershipID", "head", "create", "record"}

\* ... and those at which a record may just have been written.
Recorded == {"claim", "tag", "configure", "ready", "storageFailed", "children"}

\* The worker's copy of the status is the object's until the worker changes it,
\* and after that, if it is empty, so is the object's.  The informer's copy
\* matters as well, since a write that fails re-reads it (retryStatusUpdate).
RecordInv ==
    obj # Nil =>
       /\ pc \in Untouched =>
            app.status = obj.status /\ (cache # Nil => cache.status = obj.status)
       /\ pc \in Provisioning =>
            /\ app.status = obj.status
            /\ cache # Nil /\ cache.status = Nil => obj.status = Nil
       /\ pc \in Recorded => (app.status = Nil => obj.status = Nil)

\* Only a deletion ends by removing the finalizer, and then at once.
RetInv ==
    /\ pc \in Provisioning \cup Recorded \cup {"setFailed"} => ret # "deletion"
    /\ pc = "removeFinalizer" => ret = "deletion"

\* The worker generates an ID only for an object without one.
IDInv ==
    obj # Nil =>
       /\ pc \in {"reconciling", "finalizer"} => app.id = obj.id
       /\ pc = "ownershipID" => obj.id = 0

-----------------------------------------------------------------------------
(* What the writers of the object leave alone. *)

\* Status writes change nothing but the status and the conditions.
LEMMA WrittenFields ==
    ASSUME TypeInv, obj # Nil, NEW st, NEW c
    PROVE  /\ WithStatus(st).status = st
           /\ WithStatus(st).id = obj.id /\ WithStatus(st).del = obj.del
           /\ WithStatus(st).spec = obj.spec
           /\ WithConditions(c).status = IF base = obj THEN app.status ELSE obj.status
           /\ WithConditions(c).id = obj.id /\ WithConditions(c).del = obj.del
           /\ WithConditions(c).spec = obj.spec
<1>1. obj \in Object
  BY DEF TypeInv, TypeOK
<1> QED BY <1>1 DEF WithStatus, WithConditions, Object

\* The API server's other writers leave the status, and all but the annotation's
\* writer the ID, alone.
LEMMA EditedFields ==
    ASSUME TypeInv, obj # Nil
    PROVE  /\ [obj EXCEPT !.fin = TRUE].status = obj.status
           /\ [obj EXCEPT !.fin = TRUE].id = obj.id
           /\ [obj EXCEPT !.fin = TRUE].del = obj.del
           /\ [obj EXCEPT !.fin = TRUE].spec = obj.spec
           /\ [obj EXCEPT !.id = FreshID].status = obj.status
           /\ [obj EXCEPT !.id = FreshID].del = obj.del
           /\ [obj EXCEPT !.id = FreshID].spec = obj.spec
           /\ [obj EXCEPT !.del = TRUE, !.cond = "NotReady"].status = obj.status
           /\ [obj EXCEPT !.del = TRUE, !.cond = "NotReady"].id = obj.id
           /\ [obj EXCEPT !.del = TRUE, !.cond = "NotReady"].spec = obj.spec
           /\ \A s : /\ [obj EXCEPT !.spec = s, !.cond = "NotReady"].status = obj.status
                     /\ [obj EXCEPT !.spec = s, !.cond = "NotReady"].id = obj.id
                     /\ [obj EXCEPT !.spec = s, !.cond = "NotReady"].del = obj.del
                     /\ [obj EXCEPT !.spec = s, !.cond = "NotReady"].spec = s
<1>1. obj \in Object
  BY DEF TypeInv, TypeOK
<1> QED BY <1>1 DEF Object

\* A failed write leaves the status it wanted, or the informer's copy.
LEMMA FailedFields ==
    ASSUME TypeInv, pc # "idle", NEW st, FailedWrite(st)
    PROVE  \/ /\ app'.status = st /\ app'.id = app.id /\ app'.del = app.del
              /\ app'.spec = app.spec /\ app'.fin = app.fin /\ base' = base
           \/ obj # Nil /\ cache # Nil /\ app' = cache /\ base' = cache
<1>1. app \in Object
  BY DEF TypeInv, TypeOK, WorkerOK
<1>2. [app EXCEPT !.status = st].status = st /\ [app EXCEPT !.status = st].id = app.id
      /\ [app EXCEPT !.status = st].del = app.del /\ [app EXCEPT !.status = st].spec = app.spec
      /\ [app EXCEPT !.status = st].fin = app.fin
  BY <1>1 DEF Object
<1> QED BY <1>2 DEF FailedWrite

\* Both records name a bucket.
LEMMA RecordNotNil ==
    ASSUME TypeInv, app # Nil, app.spec # Nil
    PROVE  CreationRecord # Nil /\ ReadyStatus # Nil
<1>1. app \in Object /\ app.spec \in StorageSpec
  BY DEF TypeInv, TypeOK, Object
<1>2. now \in Nat /\ (app.status # Nil => app.status.at \in Nat)
  BY <1>1 DEF TypeInv, TypeOK, Object, StorageStatus
<1>3. CreationRecord \in StorageStatus /\ ReadyStatus \in StorageStatus
  BY <1>1, <1>2 DEF CreationRecord, ReadyStatus, StorageSpec, StorageStatus
<1> QED BY <1>3, NilAssumption

EnvironmentStep == CacheSync \/ OwnedEvent \/ UserStep \/ Tick \/ OutsideStep

\* The user, the informer, the clock and everybody else leave the worker, the
\* status and the ID alone.
LEMMA EnvironmentFields ==
    ASSUME TypeInv, EnvironmentStep
    PROVE  /\ UNCHANGED <<pc, app, base, mgr, ret, retained, madeAt>>
           /\ obj' # Nil => obj # Nil /\ obj'.status = obj.status /\ obj'.id = obj.id
           /\ cache' = cache \/ cache' = obj
           /\ cache' = obj => obj' = obj \/ cache' = cache
<1>1. CASE CacheSync
  BY <1>1 DEF CacheSync, worker, history
<1>2. CASE OwnedEvent \/ Tick \/ OutsideStep
  BY <1>2 DEF OwnedEvent, Tick, OutsideStep, OutsideDelete, OutsideCreate,
     WorkloadWrites, Outside, worker, api, history
<1>3. CASE UserStep
  <2>1. ASSUME NEW s, UserEdit(s)
        PROVE  obj # Nil /\ obj'.status = obj.status /\ obj'.id = obj.id
    BY <2>1, EditedFields DEF UserEdit
  <2>2. CASE UserDelete
    BY <2>2, EditedFields DEF UserDelete, worker, history
  <2> QED BY <1>3, <2>1, <2>2 DEF UserStep, UserEdit, worker, history
<1> QED BY <1>1, <1>2, <1>3 DEF EnvironmentStep

-----------------------------------------------------------------------------
(* The invariants. *)

RecordsInv == RecordInv /\ RetInv /\ IDInv

\* Status.Storage is empty and there is no ID at first.
LEMMA RecordsInit == Init => RecordsInv
BY DEF Init, RecordsInv, RecordInv, RetInv, IDInv, Untouched, Provisioning, Recorded

\* A reconcile that returns has nothing left to get wrong.
LEMMA RecordsReturn ==
    ASSUME pc' = "idle" PROVE RecordsInv'
BY DEF RecordsInv, RecordInv, RetInv, IDInv, Untouched, Provisioning, Recorded

\* So has one that ended in SetFailed's write.
LEMMA RecordsFailed ==
    ASSUME pc' = "setFailed", ret' # "deletion" PROVE RecordsInv'
BY DEF RecordsInv, RecordInv, RetInv, IDInv, Untouched, Provisioning, Recorded

\* Where the worker starts to provision, clean up or go on to the children, it
\* does so for what the copy at hand says.
LEMMA EnterPoints ==
    ASSUME NEW a, EnterStorage(a)
    PROVE  /\ pc' \in {"children", "cleanup", "ownershipID", "head"}
           /\ ret' # "deletion"
           /\ pc' = "ownershipID" => a.id = 0
BY DEF EnterStorage, StartProvisioning, Goto

\* The start of a reconcile: its copy has the object's status and ID.
LEMMA RecordsEntry ==
    ASSUME Lag # "any", TypeInv, RecordsInv, Get \/ SetReconciling \/ handleFinalizer
    PROVE  RecordsInv'
<1> USE DEF Goto
<1>1. CASE Get
  <2>1. CASE cache = Nil
    BY <1>1, <2>1, RecordsReturn DEF Get, worker
  <2>2. CASE cache # Nil
    <3>1. /\ pc' = "reconciling" /\ app' = cache /\ UNCHANGED <<obj, cache>>
          /\ obj # Nil => cache.status = obj.status /\ cache.id = obj.id
      BY <1>1, <2>2, EnvironmentAssumption DEF Get, OwnWritesSeen, LagChoices
    <3> QED BY <3>1 DEF RecordsInv, RecordInv, RetInv, IDInv, Untouched, Provisioning, Recorded
  <2> QED BY <2>1, <2>2
<1>2. CASE SetReconciling
  <2>1. CASE Return(TRUE)
    BY <2>1, RecordsReturn DEF Return
  <2>2. CASE ~Return(TRUE)
    <3>1. pc = "reconciling" /\ pc' = "finalizer" /\ UNCHANGED <<ret, cache>>
      BY <1>2, <2>2 DEF SetReconciling
    <3>2. obj' # Nil => obj # Nil /\ app'.status = obj'.status /\ app'.id = obj'.id
                        /\ obj'.status = obj.status
      <4>1. CASE UNCHANGED <<obj, app>>
        BY <3>1, <4>1 DEF RecordsInv, RecordInv, IDInv, Untouched
      <4>2. CASE UpdateStatus("Reconciling")
        BY <3>1, <4>2, WrittenFields DEF UpdateStatus, Store, RecordsInv, RecordInv, Untouched
      <4> QED BY <1>2, <2>2, <4>1, <4>2 DEF SetReconciling
    <3> QED BY <3>1, <3>2 DEF RecordsInv, RecordInv, RetInv, IDInv, Untouched, Provisioning, Recorded
  <2> QED BY <2>1, <2>2
<1>3. CASE handleFinalizer
  <2>1. pc = "finalizer" /\ cache' = cache
    BY <1>3 DEF handleFinalizer
  <2>2. CASE Return(TRUE) \/ Return(FALSE)
    BY <2>2, RecordsReturn DEF Return
  <2>3. CASE ret' = "deletion" /\ pc' \in {"removeFinalizer", "cleanup"} /\ UNCHANGED <<obj, app>>
    BY <2>1, <2>3 DEF RecordsInv, RecordInv, RetInv, IDInv, Untouched, Provisioning, Recorded
  <2>4. CASE EnterStorage(app) /\ UNCHANGED <<obj, app>>
    <3>1. obj # Nil => app.id = obj.id /\ app.status = obj.status
                       /\ (cache # Nil => cache.status = obj.status)
      BY <2>1 DEF RecordsInv, RecordInv, IDInv, Untouched
    <3> QED BY <2>1, <2>4, <3>1, EnterPoints
            DEF RecordsInv, RecordInv, RetInv, IDInv, Untouched, Provisioning, Recorded
  <2>5. CASE EnterStorage(obj) /\ AttachFinalizer
    <3>1. obj # Nil /\ app' = obj' /\ obj' = [obj EXCEPT !.fin = TRUE]
      BY <2>1, <2>5 DEF AttachFinalizer, Update, Store, TypeInv, WorkerOK
    <3>2. obj'.status = obj.status /\ obj'.id = obj.id
      BY <3>1, EditedFields
    <3> QED BY <2>1, <2>5, <3>1, <3>2, EnterPoints
            DEF RecordsInv, RecordInv, RetInv, IDInv, Untouched, Provisioning, Recorded
  <2> QED BY <1>3, <2>2, <2>3, <2>4, <2>5 DEF handleFinalizer
<1> QED BY <1>1, <1>2, <1>3

\* A cleanup writes back the status it found, until it clears it.
LEMMA RecordsCleanup ==
    ASSUME TypeInv, RecordsInv,
           \/ finalizeApplication \/ verifyOwnership \/ emptyBucket
           \/ deleteBucket \/ failStorageCleanup \/ removeFinalizer \/ clearStatus
    PROVE  RecordsInv'
<1> USE DEF Goto
<1>1. CASE finalizeApplication
  <2>1. pc = "cleanup" /\ UNCHANGED <<cache, ret>> /\ pc' \in {"verify", CleanupDone}
    BY <1>1 DEF finalizeApplication, BeginCleanup
  <2>2. obj' # Nil => obj # Nil /\ obj'.status = obj.status /\ app'.status = obj.status
    <3>1. obj # Nil => app.status = obj.status
      BY <2>1 DEF RecordsInv, RecordInv, Untouched
    <3> QED BY <1>1, <3>1, WrittenFields DEF finalizeApplication, CleanupStatusUpdate, BestEffort,
               RetryStatusUpdate, SnapshotStatusUpdate, Store, Writable
  <2> QED BY <2>1, <2>2 DEF CleanupDone, RecordsInv, RecordInv, RetInv, IDInv, Untouched,
             Provisioning, Recorded
<1>2. CASE verifyOwnership \/ emptyBucket \/ deleteBucket
  <2>1. /\ pc \in {"verify", "empty", "deleteBucket"} /\ UNCHANGED <<obj, cache, app, ret>>
        /\ pc' \in {"empty", "deleteBucket", "cleanupFailed", CleanupDone}
    BY <1>2 DEF verifyOwnership, emptyBucket, deleteBucket, api
  <2> QED BY <2>1 DEF CleanupDone, RecordsInv, RecordInv, RetInv, IDInv, Untouched,
             Provisioning, Recorded
<1>3. CASE failStorageCleanup
  BY <1>3, RecordsReturn, RecordsFailed DEF failStorageCleanup, Return
<1>4. CASE removeFinalizer
  BY <1>4, RecordsReturn DEF removeFinalizer, Return
<1>5. CASE clearStatus
  <2>1. pc = "clearStatus" /\ ret # "deletion" /\ cache' = cache
    BY <1>5 DEF clearStatus, TypeInv, WorkerOK
  <2>2. CASE pc' = "setFailed"
    BY <1>5, <2>1, <2>2, RecordsFailed DEF clearStatus, Return, StartProvisioning
  <2>3. CASE Return(TRUE)
    BY <2>3, RecordsReturn DEF Return
  <2>4. CASE pc' # "setFailed" /\ ~Return(TRUE)
    <3>1. obj # Nil /\ obj' = WithStatus(Nil) /\ app' = obj'
      BY <1>5, <2>4 DEF clearStatus, Writable
    <3>2. obj'.status = Nil /\ obj'.id = obj.id
      BY <3>1, WrittenFields
    <3>3. /\ pc' \in {"children", "ownershipID", "head"} /\ ret' # "deletion"
          /\ pc' = "ownershipID" => obj.id = 0
      BY <1>5, <2>4 DEF clearStatus, StartProvisioning
    <3> QED BY <3>1, <3>2, <3>3 DEF RecordsInv, RecordInv, RetInv, IDInv, Untouched,
               Provisioning, Recorded
  <2> QED BY <2>2, <2>3, <2>4
<1> QED BY <1>1, <1>2, <1>3, <1>4, <1>5

\* Provisioning writes nothing but a record, and an ID where there was none.
LEMMA RecordsProvision ==
    ASSUME TypeInv, RecordsInv,
           \/ ensureStorageOwnershipID \/ headBucket \/ CreateBucket \/ recordBucketCreated
           \/ claimOrVerifyOwnership \/ tagAsOwned \/ configureBucket
           \/ recordReady \/ storageFailed \/ SetReady \/ SetFailed
    PROVE  RecordsInv'
<1> USE DEF Goto
<1>1. CASE ensureStorageOwnershipID
  <2>1. pc = "ownershipID" /\ UNCHANGED <<cache, ret>> /\ pc' \in {"head", "setFailed"}
    BY <1>1 DEF ensureStorageOwnershipID
  <2>2. ret # "deletion"
    BY <2>1 DEF RecordsInv, RetInv, Provisioning
  <2>3. CASE pc' = "setFailed"
    BY <2>1, <2>2, <2>3, RecordsFailed
  <2>4. CASE pc' = "head"
    <3>1. obj # Nil /\ obj' = [obj EXCEPT !.id = FreshID] /\ app' = [app EXCEPT !.id = FreshID]
      BY <1>1, <2>4 DEF ensureStorageOwnershipID, PatchOwnershipID
    <3>2. app \in Object
      BY <2>1 DEF TypeInv, TypeOK, WorkerOK
    <3>3. obj'.status = obj.status /\ app'.status = app.status
      BY <3>1, <3>2, EditedFields DEF Object
    <3> QED BY <2>1, <2>2, <2>4, <3>1, <3>3 DEF RecordsInv, RecordInv, RetInv, IDInv, Untouched,
               Provisioning, Recorded
  <2> QED BY <2>1, <2>3, <2>4
<1>2. CASE headBucket \/ CreateBucket \/ claimOrVerifyOwnership \/ tagAsOwned \/ configureBucket
  <2>1. /\ UNCHANGED <<obj, cache, app, ret>>
        /\ \/ pc = "head" /\ pc' \in {"create", "claim", "storageFailed"}
           \/ pc = "create" /\ pc' \in {"record", "storageFailed"}
           \/ pc \in Recorded /\ pc' \in {"tag", "configure", "ready", "storageFailed"}
    BY <1>2 DEF headBucket, CreateBucket, claimOrVerifyOwnership, tagAsOwned, configureBucket, api,
       Recorded
  <2> QED BY <2>1 DEF RecordsInv, RecordInv, RetInv, IDInv, Untouched, Provisioning, Recorded
<1>3. CASE recordBucketCreated
  <2>1. pc = "record" /\ UNCHANGED <<cache, ret>> /\ pc' \in {"claim", "storageFailed"}
        /\ (obj' = Nil \/ obj' = app')
    BY <1>3 DEF recordBucketCreated, RetryStatusUpdate, Store
  <2> QED BY <2>1 DEF RecordsInv, RecordInv, RetInv, IDInv, Untouched, Provisioning, Recorded
<1>4. CASE recordReady
  <2>0. pc = "ready" /\ ret # "deletion"
    BY <1>4 DEF recordReady, RecordsInv, RetInv, Recorded
  <2>1. CASE RetryStatusUpdate(ReadyStatus) /\ pc' = "children" /\ UNCHANGED ret
    <3>1. app' = obj'
      BY <2>1 DEF RetryStatusUpdate, Store
    <3> QED BY <2>0, <2>1, <3>1 DEF RecordsInv, RecordInv, RetInv, IDInv, Untouched, Provisioning, Recorded
  <2> QED BY <1>4, <2>0, <2>1, RecordsReturn, RecordsFailed DEF recordReady, Return
<1>5. CASE storageFailed
  BY <1>5, RecordsFailed DEF storageFailed, RecordsInv, RetInv, Recorded
<1>6. CASE SetReady \/ SetFailed
  BY <1>6, RecordsReturn DEF SetReady, SetFailed, Return
<1> QED BY <1>1, <1>2, <1>3, <1>4, <1>5, <1>6

\* A failure may leave the worker with the informer's copy, but then the
\* reconcile ends, or the copy has the same status.
LEMMA RecordsFaults ==
    ASSUME TypeInv, RecordsInv, FaultStep
    PROVE  RecordsInv'
<1> USE DEF Goto
<1>1. CASE CallFailsOutright \/ Crash
  BY <1>1, RecordsReturn DEF CallFailsOutright, Crash, Return
<1>2. CASE BestEffortWriteFails
  <2>0. UNCHANGED <<obj, cache>>
    BY <1>2 DEF BestEffortWriteFails
  <2>1. CASE pc = "cleanup"
    <3>1. UNCHANGED ret /\ pc' \in {"verify", CleanupDone}
      BY <1>2, <2>1 DEF BestEffortWriteFails, BeginCleanup
    <3>2. obj # Nil => app.status = obj.status /\ (cache # Nil => cache.status = obj.status)
      BY <2>1 DEF RecordsInv, RecordInv, Untouched
    <3>3. obj # Nil => app'.status = obj.status
      <4>1. CASE UNCHANGED app
        BY <3>2, <4>1
      <4>2. CASE FailedWrite(app.status)
        BY <2>1, <3>2, <4>2, FailedFields
      <4> QED BY <1>2, <2>1, <4>1, <4>2 DEF BestEffortWriteFails
    <3> QED BY <2>0, <2>1, <3>1, <3>2, <3>3 DEF CleanupDone, RecordsInv, RecordInv, RetInv, IDInv,
               Untouched, Provisioning, Recorded
  <2>2. CASE pc = "cleanupFailed"
    BY <1>2, <2>2, RecordsReturn, RecordsFailed DEF BestEffortWriteFails, Return
  <2>3. CASE pc = "storageFailed"
    BY <1>2, <2>3, RecordsFailed DEF BestEffortWriteFails, RecordsInv, RetInv, Recorded
  <2> QED BY <1>2, <2>1, <2>2, <2>3 DEF BestEffortWriteFails
<1>3. CASE CloudCallFails
  <2>1. /\ UNCHANGED <<obj, cache, app, ret>>
        /\ \/ pc \in {"verify", "empty", "deleteBucket"} /\ pc' = "cleanupFailed"
           \/ pc \in {"head", "create", "claim", "tag", "configure"} /\ pc' = "storageFailed"
    BY <1>3 DEF CloudCallFails, api
  <2> QED BY <2>1 DEF RecordsInv, RecordInv, RetInv, IDInv, Untouched, Provisioning, Recorded
<1>4. CASE StatusWriteFails
  <2>1. CASE pc = "record"
    <3>1. pc' = "storageFailed" /\ FailedWrite(CreationRecord) /\ UNCHANGED <<obj, cache, ret>>
      BY <1>4, <2>1 DEF StatusWriteFails, api
    <3>2. CreationRecord # Nil
      <4>1. app # Nil /\ app.spec # Nil /\ app \in Object
        BY <2>1 DEF TypeInv, TypeOK, WorkerOK
      <4> QED BY <4>1, RecordNotNil
    <3>3. obj # Nil => (app'.status = Nil => obj.status = Nil)
      BY <2>1, <3>1, <3>2, FailedFields DEF RecordsInv, RecordInv, Provisioning
    <3> QED BY <2>1, <3>1, <3>3 DEF RecordsInv, RecordInv, RetInv, IDInv, Untouched,
               Provisioning, Recorded
  <2>2. CASE pc \in {"clearStatus", "ready"}
    <3>1. ret # "deletion"
      BY <2>2 DEF TypeInv, WorkerOK, RecordsInv, RetInv, Recorded
    <3> QED BY <1>4, <2>2, <3>1, RecordsFailed DEF StatusWriteFails
  <2> QED BY <1>4, <2>1, <2>2 DEF StatusWriteFails
<1>5. CASE DesiredStateFails
  <2>1. pc \in {"ownershipID", "children"} /\ ret # "deletion"
    BY <1>5 DEF DesiredStateFails, RecordsInv, RetInv, Provisioning, Recorded
  <2> QED BY <1>5, <2>1, RecordsReturn, RecordsFailed DEF DesiredStateFails, Return
<1> QED BY <1>1, <1>2, <1>3, <1>4, <1>5 DEF FaultStep

\* Every step preserves the invariants, if a reconcile starts from a copy with
\* the operator's own writes in it.
LEMMA RecordsStep ==
    ASSUME Lag # "any"
    PROVE  TypeInv /\ RecordsInv /\ [Next]_vars => RecordsInv'
<1> SUFFICES ASSUME TypeInv, RecordsInv, [Next]_vars PROVE RecordsInv'
  OBVIOUS
<1>1. CASE WorkerStep
  BY <1>1, RecordsEntry, RecordsCleanup, RecordsProvision DEF WorkerStep
<1>2. CASE FaultStep
  BY <1>2, RecordsFaults
<1>3. CASE EnvironmentStep
  <2> USE DEF RecordsInv, RecordInv, RetInv, IDInv
  <2> QED BY <1>3, EnvironmentFields
<1>4. CASE UNCHANGED vars
  BY <1>4 DEF vars, api, worker, RecordsInv, RecordInv, RetInv, IDInv
<1> QED BY <1>1, <1>2, <1>3, <1>4 DEF Next, EnvironmentStep

-----------------------------------------------------------------------------
(* What they are for. *)

\* An object that stays keeps its ID, but for a step of ensureStorageOwnershipID,
\* and its record, but for a status that the worker has in memory.
KeptStep ==
    obj # Nil /\ obj' # Nil =>
       /\ obj'.id = obj.id \/ pc = "ownershipID"
       /\ \/ obj'.status = obj.status
          \/ pc \in {"clearStatus", "record", "ready"}
          \/ obj'.status = app.status /\ (pc = "setFailed" => base = obj)
       /\ pc = "clearStatus" => obj'.status \in {obj.status, Nil}
       /\ pc = "record" => obj'.status \in {obj.status, CreationRecord}
       /\ pc = "ready" => \/ obj'.status = obj.status
                          \/ app.spec # Nil /\ obj'.status = ReadyStatus
       /\ pc = "idle" => obj'.status = obj.status

\* Every step is such a step.
LEMMA KeptSteps ==
    ASSUME TypeInv, [Next]_vars PROVE KeptStep
<1> SUFFICES ASSUME obj # Nil, obj' # Nil PROVE KeptStep
  BY DEF KeptStep
<1> USE DEF KeptStep
<1>1. ASSUME obj' = obj PROVE KeptStep
  BY <1>1
<1>2. ASSUME pc \notin {"idle", "clearStatus", "record", "ready", "setFailed"},
             obj' = WithStatus(app.status)
      PROVE  KeptStep
  BY <1>2, WrittenFields
<1>3. ASSUME NEW c, pc \notin {"idle", "clearStatus", "record", "ready"}, obj' = WithConditions(c)
      PROVE  KeptStep
  BY <1>3, WrittenFields
<1>4. ASSUME pc = "ownershipID", PatchOwnershipID PROVE KeptStep
  BY <1>4, EditedFields DEF PatchOwnershipID
<1>5. CASE Get \/ verifyOwnership \/ emptyBucket \/ deleteBucket \/ headBucket
           \/ CreateBucket \/ claimOrVerifyOwnership \/ tagAsOwned \/ configureBucket
  BY <1>1, <1>5 DEF Get, verifyOwnership, emptyBucket, deleteBucket, headBucket, CreateBucket,
     claimOrVerifyOwnership, tagAsOwned, configureBucket, api
<1>6. CASE SetReconciling
  BY <1>1, <1>3, <1>6 DEF SetReconciling, UpdateStatus, Store
<1>7. CASE handleFinalizer
  <2>1. CASE AttachFinalizer
    BY <1>7, <2>1, EditedFields DEF handleFinalizer, AttachFinalizer, Update, Store
  <2> QED BY <1>1, <1>7, <2>1 DEF handleFinalizer
<1>8. CASE finalizeApplication
  BY <1>1, <1>2, <1>8 DEF finalizeApplication, CleanupStatusUpdate, BestEffort,
     RetryStatusUpdate, SnapshotStatusUpdate, Store
<1>9. CASE failStorageCleanup
  BY <1>1, <1>2, <1>9 DEF failStorageCleanup, BestEffort, SnapshotStatusUpdate
<1>10. CASE removeFinalizer
  BY <1>1, <1>10 DEF removeFinalizer
<1>11. CASE clearStatus
  <2>1. pc = "clearStatus" /\ obj' = WithStatus(Nil)
    BY <1>11 DEF clearStatus
  <2> QED BY <2>1, WrittenFields
<1>12. CASE ensureStorageOwnershipID
  BY <1>1, <1>4, <1>12 DEF ensureStorageOwnershipID
<1>13. CASE recordBucketCreated
  <2>1. pc = "record" /\ obj' = WithStatus(CreationRecord)
    BY <1>13 DEF recordBucketCreated, RetryStatusUpdate, Store
  <2> QED BY <2>1, WrittenFields
<1>14. CASE recordReady
  <2>1. CASE app.spec # Nil /\ RetryStatusUpdate(ReadyStatus)
    <3>1. pc = "ready" /\ obj' = WithStatus(ReadyStatus)
      BY <1>14, <2>1 DEF recordReady, RetryStatusUpdate, Store
    <3> QED BY <2>1, <3>1, WrittenFields
  <2> QED BY <1>1, <1>14, <2>1 DEF recordReady
<1>15. CASE storageFailed
  BY <1>1, <1>2, <1>15 DEF storageFailed, FailedStatus, BestEffort, RetryStatusUpdate, Store
<1>16. CASE SetReady \/ SetFailed
  BY <1>1, <1>3, <1>16 DEF SetReady, SetFailed
<1>17. CASE FaultStep
  <2>1. CASE DesiredStateFails
    BY <1>1, <1>3, <1>4, <2>1 DEF DesiredStateFails
  <2> QED BY <1>1, <1>17, <2>1 DEF FaultStep, CallFailsOutright, BestEffortWriteFails,
             CloudCallFails, StatusWriteFails, Crash, api
<1>18. CASE EnvironmentStep
  <2>1. obj'.status = obj.status /\ obj'.id = obj.id /\ app' = app
    BY <1>18, EnvironmentFields
  <2> QED BY <2>1
<1>19. CASE UNCHANGED vars
  BY <1>1, <1>19 DEF vars, api
<1> QED BY <1>5, <1>6, <1>7, <1>8, <1>9, <1>10, <1>11, <1>12, <1>13, <1>14, <1>15, <1>16, <1>17,
           <1>18, <1>19 DEF Next, WorkerStep, EnvironmentStep

\* The spec changes only by the user's hand.
LEMMA SpecSteps ==
    ASSUME TypeInv, [Next]_vars, obj' # Nil
    PROVE  /\ obj # Nil
           /\ obj'.spec = obj.spec \/ \E s \in SpecChoices : UserEdit(s) /\ obj'.spec = s
<1>1. ASSUME obj' = obj PROVE obj # Nil /\ obj'.spec = obj.spec
  BY <1>1
<1>2. ASSUME obj # Nil, NEW st, NEW c, obj' = WithStatus(st) \/ obj' = WithConditions(c)
      PROVE  obj # Nil /\ obj'.spec = obj.spec
  BY <1>2, WrittenFields
<1>3. CASE WorkerStep /\ ~handleFinalizer /\ ~ensureStorageOwnershipID
  BY <1>1, <1>2, <1>3 DEF WorkerStep, Get, SetReconciling, finalizeApplication,
     verifyOwnership, emptyBucket, deleteBucket, failStorageCleanup, removeFinalizer, clearStatus,
     headBucket, CreateBucket, recordBucketCreated, claimOrVerifyOwnership, tagAsOwned,
     configureBucket, recordReady, storageFailed, SetReady, SetFailed, api, UpdateStatus, Store,
     CleanupStatusUpdate, BestEffort, RetryStatusUpdate, SnapshotStatusUpdate, Writable
<1>4. CASE handleFinalizer
  <2>1. CASE AttachFinalizer
    <3>1. obj # Nil /\ obj' = [obj EXCEPT !.fin = TRUE]
      BY <1>4, <2>1 DEF handleFinalizer, AttachFinalizer, Update, Store, TypeInv, WorkerOK
    <3> QED BY <3>1, EditedFields
  <2> QED BY <1>1, <1>4, <2>1 DEF handleFinalizer
<1>5. ASSUME PatchOwnershipID PROVE obj # Nil /\ obj'.spec = obj.spec
  BY <1>5, EditedFields DEF PatchOwnershipID
<1>6. CASE ensureStorageOwnershipID
  BY <1>1, <1>5, <1>6 DEF ensureStorageOwnershipID
<1>7. CASE FaultStep
  <2>1. CASE DesiredStateFails
    BY <1>1, <1>2, <1>5, <2>1 DEF DesiredStateFails
  <2> QED BY <1>1, <1>7, <2>1 DEF FaultStep, CallFailsOutright, BestEffortWriteFails,
             CloudCallFails, StatusWriteFails, Crash, api
<1>8. CASE CacheSync \/ OwnedEvent \/ Tick \/ OutsideStep
  BY <1>1, <1>8 DEF CacheSync, OwnedEvent, Tick, OutsideStep, OutsideDelete, OutsideCreate,
     WorkloadWrites, Outside, api
<1>9. CASE UserStep
  BY <1>9, EditedFields DEF UserStep, UserEdit, UserDelete
<1>10. CASE UNCHANGED vars
  BY <1>1, <1>10 DEF vars, api
<1> QED BY <1>3, <1>4, <1>6, <1>7, <1>8, <1>9, <1>10 DEF Next, WorkerStep

\* What a step does to the worker's copy: it goes, is what has just been stored
\* or the informer's, or gets another status or ID.
CopyKept ==
    \/ app' = Nil
    \/ app' = obj' /\ base' = obj'
    \/ /\ app' = cache /\ base' = cache /\ obj' = obj
       /\ pc \in {"idle", "cleanup", "record", "clearStatus", "ready", "storageFailed"}
       /\ pc = "idle" /\ Lag = "none" => cache = obj
    \/ /\ app # Nil /\ app' # Nil /\ base' = base
       /\ app'.del = app.del /\ app'.fin = app.fin /\ app'.spec = app.spec
       /\ \/ app'.status \in {app.status, Nil}
          \/ app.spec # Nil /\ pc = "record" /\ app'.status = CreationRecord
          \/ app.spec # Nil /\ pc = "ready" /\ app'.status = ReadyStatus

\* Every step is such a step.
LEMMA CopyKeptSteps ==
    ASSUME TypeInv, [Next]_vars PROVE CopyKept
<1> USE DEF CopyKept
<1>1. ASSUME UNCHANGED <<app, base>> PROVE CopyKept
  BY <1>1
<1>2. ASSUME app' = Nil PROVE CopyKept
  BY <1>2
<1>3. ASSUME NEW o, Store(o) PROVE CopyKept
  BY <1>3 DEF Store
<1>4. ASSUME NEW st, FailedWrite(st), UNCHANGED obj,
             pc \in {"cleanup", "record", "clearStatus", "ready", "storageFailed"},
             \/ st \in {app.status, Nil}
             \/ app.spec # Nil /\ pc = "record" /\ st = CreationRecord
             \/ app.spec # Nil /\ pc = "ready" /\ st = ReadyStatus
      PROVE  CopyKept
  <2>1. app \in Object
    BY <1>4 DEF TypeInv, TypeOK, WorkerOK
  <2>2. CASE app' = cache /\ base' = cache
    BY <1>4, <2>2
  <2>3. CASE app' = [app EXCEPT !.status = st] /\ base' = base
    <3>1. app'.del = app.del /\ app'.fin = app.fin /\ app'.spec = app.spec /\ app'.status = st
          /\ app'.cond = app.cond /\ app'.id = app.id
      BY <2>1, <2>3 DEF Object
    <3>2. CASE app' = Nil
      BY <3>2
    <3> QED BY <1>4, <2>1, <2>3, <3>1, <3>2, NilAssumption
  <2> QED BY <1>4, <2>2, <2>3 DEF FailedWrite
<1>5. CASE Get
  BY <1>1, <1>5 DEF Get, worker
<1>6. CASE SetReconciling \/ handleFinalizer
  BY <1>1, <1>2, <1>3, <1>6 DEF SetReconciling, handleFinalizer, UpdateStatus, AttachFinalizer,
     Update, Return
<1>7. CASE finalizeApplication \/ storageFailed
  BY <1>1, <1>3, <1>7 DEF finalizeApplication, storageFailed, CleanupStatusUpdate, BestEffort,
     RetryStatusUpdate, SnapshotStatusUpdate
<1>8. CASE verifyOwnership \/ emptyBucket \/ deleteBucket \/ headBucket
           \/ CreateBucket \/ claimOrVerifyOwnership \/ tagAsOwned \/ configureBucket
  BY <1>1, <1>8 DEF verifyOwnership, emptyBucket, deleteBucket, headBucket, CreateBucket,
     claimOrVerifyOwnership, tagAsOwned, configureBucket
<1>9. CASE failStorageCleanup \/ removeFinalizer
  BY <1>1, <1>2, <1>9 DEF failStorageCleanup, removeFinalizer, BestEffort, SnapshotStatusUpdate, Return
<1>10. CASE clearStatus
  BY <1>1, <1>2, <1>10 DEF clearStatus, Return
<1>11. CASE ensureStorageOwnershipID
  <2>1. app \in Object /\ base' = base
    BY <1>11 DEF ensureStorageOwnershipID, TypeInv, TypeOK, WorkerOK
  <2>2. CASE app' = [app EXCEPT !.id = FreshID]
    <3>1. app'.del = app.del /\ app'.fin = app.fin /\ app'.spec = app.spec /\ app'.status = app.status
      BY <2>1, <2>2 DEF Object
    <3> QED BY <1>2, <2>1, <3>1, NilAssumption
  <2> QED BY <1>1, <1>11, <2>2 DEF ensureStorageOwnershipID
<1>12. CASE recordBucketCreated \/ recordReady
  BY <1>1, <1>2, <1>3, <1>12 DEF recordBucketCreated, recordReady, RetryStatusUpdate, Return
<1>13. CASE SetReady \/ SetFailed
  BY <1>2, <1>13 DEF SetReady, SetFailed, Return
<1>14. CASE FaultStep
  <2>1. CASE CallFailsOutright \/ Crash \/ CloudCallFails
    BY <1>1, <1>2, <2>1 DEF CallFailsOutright, Crash, CloudCallFails, Return
  <2>2. CASE BestEffortWriteFails
    BY <1>1, <1>2, <1>4, <2>2 DEF BestEffortWriteFails, Return
  <2>3. CASE StatusWriteFails
    <3>1. UNCHANGED obj /\ pc \in {"record", "clearStatus", "ready"}
      BY <2>3 DEF StatusWriteFails, api
    <3>2. CASE pc = "record"
      BY <1>4, <2>3, <3>1, <3>2 DEF StatusWriteFails, TypeInv, WorkerOK
    <3>3. CASE pc = "ready"
      BY <1>4, <2>3, <3>1, <3>3 DEF StatusWriteFails
    <3>4. CASE pc = "clearStatus"
      BY <1>4, <2>3, <3>1, <3>4 DEF StatusWriteFails
    <3> QED BY <3>1, <3>2, <3>3, <3>4
  <2>4. CASE DesiredStateFails
    BY <1>1, <1>2, <2>4 DEF DesiredStateFails, Return
  <2> QED BY <1>14, <2>1, <2>2, <2>3, <2>4 DEF FaultStep
<1>15. CASE EnvironmentStep \/ UNCHANGED vars
  BY <1>1, <1>15, EnvironmentFields DEF vars, worker
<1> QED BY <1>5, <1>6, <1>7, <1>8, <1>9, <1>10, <1>11, <1>12, <1>13, <1>14, <1>15
        DEF Next, WorkerStep, EnvironmentStep

\* Every copy of the Application has a spec that the user has written.
SpecInv ==
    /\ obj # Nil => obj.spec \in SpecChoices
    /\ cache # Nil => cache.spec \in SpecChoices
    /\ app # Nil => app.spec \in SpecChoices

\* Specs come from the user.
LEMMA SpecInvStep ==
    ASSUME TypeInv, SpecInv, [Next]_vars PROVE SpecInv'
<1>1. (obj # Nil => obj.spec \in SpecChoices)'
  BY SpecSteps DEF SpecInv
<1>2. cache' = cache \/ (cache' = obj /\ obj' = obj)
  BY CacheSteps DEF vars, api
<1>3. (app # Nil => app.spec \in SpecChoices)'
  BY <1>1, CopyKeptSteps DEF CopyKept, SpecInv
<1> QED BY <1>1, <1>2, <1>3 DEF SpecInv

\* Where the bucket is that a spec or a status names.
At(s) == <<s.bucket, Resolved(s.region)>>

\* A manager for provisioning is made from the spec at hand, and both are kept.
LEMMA ManagerSteps ==
    ASSUME TypeInv, [Next]_vars, pc' \in Provisioning
    PROVE  \/ pc \in Provisioning /\ mgr' = mgr /\ app'.spec = app.spec
           \/ app' # Nil /\ app'.spec # Nil /\ mgr' = ManagerFor(app'.spec, Nil)
<1> USE DEF Goto
<1>0. app' # Nil
  BY TypeStep DEF TypeInv, WorkerOK, Provisioning
<1>1. ASSUME NEW a, EnterStorage(a)
      PROVE  a.spec # Nil /\ mgr' = ManagerFor(a.spec, Nil)
  BY <1>1 DEF EnterStorage, StartProvisioning, Provisioning
<1>2. CASE handleFinalizer
  <2>1. CASE EnterStorage(app) /\ app' = app
    BY <1>0, <1>1, <2>1
  <2>2. CASE EnterStorage(obj) /\ AttachFinalizer
    <3>1. obj # Nil /\ app' = [obj EXCEPT !.fin = TRUE]
      BY <1>2, <2>2 DEF handleFinalizer, AttachFinalizer, Update, Store, TypeInv, WorkerOK
    <3> QED BY <1>0, <1>1, <2>2, <3>1, EditedFields
  <2> QED BY <1>2, <2>1, <2>2 DEF handleFinalizer, Return, Provisioning
<1>3. CASE clearStatus
  <2>1. /\ obj # Nil /\ StartProvisioning(obj) /\ obj.spec # Nil /\ app' = WithStatus(Nil)
    BY <1>3 DEF clearStatus, Return, Provisioning, Writable, TypeInv, TypeOK, WorkerOK
  <2> QED BY <1>0, <2>1, WrittenFields DEF StartProvisioning
<1>4. CASE ensureStorageOwnershipID
  <2>1. app \in Object /\ pc = "ownershipID" /\ app' = [app EXCEPT !.id = FreshID] /\ mgr' = mgr
    BY <1>4 DEF ensureStorageOwnershipID, TypeInv, TypeOK, WorkerOK, Provisioning
  <2> QED BY <2>1 DEF Object, Provisioning
<1>5. CASE headBucket \/ CreateBucket
  BY <1>5 DEF headBucket, CreateBucket, Provisioning
<1>6. CASE WorkerStep /\ ~handleFinalizer /\ ~clearStatus /\ ~ensureStorageOwnershipID
           /\ ~headBucket /\ ~CreateBucket
  BY <1>6 DEF WorkerStep, Get, SetReconciling, finalizeApplication, BeginCleanup, CleanupDone,
     verifyOwnership, emptyBucket, deleteBucket, failStorageCleanup, removeFinalizer,
     recordBucketCreated, claimOrVerifyOwnership, tagAsOwned, configureBucket, recordReady,
     storageFailed, SetReady, SetFailed, worker, Return, Provisioning
<1>7. CASE FaultStep
  BY <1>7 DEF FaultStep, CallFailsOutright, BestEffortWriteFails, CloudCallFails, BeginCleanup,
     CleanupDone, StatusWriteFails, DesiredStateFails, Crash, Return, Provisioning
<1>8. CASE EnvironmentStep \/ UNCHANGED vars
  BY <1>8, EnvironmentFields DEF vars, worker
<1> QED BY <1>2, <1>3, <1>4, <1>5, <1>6, <1>7, <1>8 DEF Next, WorkerStep, EnvironmentStep

\* A bucket awaits its record only right after its creation.
LEMMA CreatedSteps ==
    ASSUME TypeInv, [Next]_vars, pc' = "record"
    PROVE  \/ pc = "record" /\ UNCHANGED <<mgr, madeAt, now>>
           \/ pc = "create" /\ Makes
<1> USE DEF Goto
<1>1. CASE CreateBucket
  BY <1>1 DEF CreateBucket, Makes, counters
<1>2. CASE WorkerStep /\ ~CreateBucket
  BY <1>2, EnterPoints DEF WorkerStep, Get, SetReconciling, handleFinalizer, finalizeApplication,
     BeginCleanup, CleanupDone, verifyOwnership, emptyBucket, deleteBucket, failStorageCleanup,
     removeFinalizer, clearStatus, ensureStorageOwnershipID, headBucket, recordBucketCreated,
     claimOrVerifyOwnership, tagAsOwned, configureBucket, recordReady, storageFailed, SetReady,
     SetFailed, worker, Return, StartProvisioning
<1>3. CASE FaultStep
  BY <1>3 DEF FaultStep, CallFailsOutright, BestEffortWriteFails, BeginCleanup, CleanupDone,
     CloudCallFails, StatusWriteFails, DesiredStateFails, Crash, Return
<1>4. CASE Tick
  BY <1>4 DEF Tick, worker
<1>5. CASE CacheSync \/ OwnedEvent \/ UserStep \/ OutsideStep \/ UNCHANGED vars
  BY <1>5 DEF CacheSync, OwnedEvent, UserStep, UserEdit, UserDelete, OutsideStep, OutsideDelete,
     OutsideCreate, WorkloadWrites, Outside, vars, worker, history, counters
<1> QED BY <1>1, <1>2, <1>3, <1>4, <1>5 DEF Next

\* How a cleanup goes on and how it ends.
LEMMA CleanupSteps ==
    ASSUME TypeInv, [Next]_vars
    PROVE  /\ pc' \in {"verify", "empty", "deleteBucket"} =>
                \/ pc \in {"verify", "empty", "deleteBucket"} /\ UNCHANGED <<mgr, ret>>
                \/ /\ pc = "cleanup" /\ ret' = ret
                   /\ mgr' = ManagerFor(CleanupTarget, app.status)
                   /\ CleanupTarget.policy # "Retain"
           /\ pc' \in {"removeFinalizer", "clearStatus"} =>
                \/ pc' = pc
                \/ pc = "finalizer" /\ pc' = "removeFinalizer" /\ app.fin /\ NothingToClean(app)
                \/ /\ pc = "cleanup" /\ pc' = CleanupDone /\ CleanupTarget.policy = "Retain"
                   /\ retained' = retained \cup {At(CleanupTarget)}
                \/ /\ pc = "deleteBucket" /\ pc' = CleanupDone /\ mgr' = mgr
                   /\ Lookup(mgr.bucket, mgr.region) # "elsewhere"
                   /\ cloud'[mgr.bucket][mgr.region] = Nil
<1> DEFINE On == pc' \in {"verify", "empty", "deleteBucket"} =>
                \/ pc \in {"verify", "empty", "deleteBucket"} /\ UNCHANGED <<mgr, ret>>
                \/ /\ pc = "cleanup" /\ ret' = ret
                   /\ mgr' = ManagerFor(CleanupTarget, app.status)
                   /\ CleanupTarget.policy # "Retain"
           Off == pc' \in {"removeFinalizer", "clearStatus"} =>
                \/ pc' = pc
                \/ pc = "finalizer" /\ pc' = "removeFinalizer" /\ app.fin /\ NothingToClean(app)
                \/ /\ pc = "cleanup" /\ pc' = CleanupDone /\ CleanupTarget.policy = "Retain"
                   /\ retained' = retained \cup {At(CleanupTarget)}
                \/ /\ pc = "deleteBucket" /\ pc' = CleanupDone /\ mgr' = mgr
                   /\ Lookup(mgr.bucket, mgr.region) # "elsewhere"
                   /\ cloud'[mgr.bucket][mgr.region] = Nil
<1> USE DEF Goto
<1>1. ASSUME pc = "cleanup", BeginCleanup, ret' = ret PROVE On /\ Off
  BY <1>1 DEF BeginCleanup, CleanupDone, At
<1>2. CASE handleFinalizer
  BY <1>2, EnterPoints DEF handleFinalizer, Return
<1>3. CASE finalizeApplication
  BY <1>1, <1>3 DEF finalizeApplication
<1>4. CASE verifyOwnership \/ emptyBucket
  BY <1>4 DEF verifyOwnership, emptyBucket
<1>5. CASE deleteBucket
  <2>1. mgr.bucket \in Buckets /\ mgr.region \in Regions /\ pc = "deleteBucket" /\ mgr' = mgr
    BY <1>5 DEF deleteBucket, TypeInv, TypeOK, WorkerOK, ManagerPoints, Manager
  <2>2. cloud \in [Buckets -> [Regions -> Bucket \cup {Nil}]]
    BY DEF TypeInv, TypeOK
  <2>3. CASE Lookup(mgr.bucket, mgr.region) = "absent" /\ cloud' = cloud /\ pc' = CleanupDone
    <3>1. cloud[mgr.bucket][mgr.region] = Nil
      BY <2>3 DEF Lookup
    <3> QED BY <2>1, <2>3, <3>1 DEF CleanupDone
  <2>4. CASE /\ SetBucket(Nil) /\ pc' = CleanupDone
             /\ Lookup(mgr.bucket, mgr.region) # "elsewhere"
    <3>1. cloud'[mgr.bucket][mgr.region] = Nil
      BY <2>1, <2>2, <2>4 DEF SetBucket
    <3> QED BY <2>1, <2>4, <3>1 DEF CleanupDone
  <2>5. CASE pc' = "cleanupFailed"
    BY <2>5
  <2> QED BY <1>5, <2>3, <2>4, <2>5 DEF deleteBucket
<1>6. CASE WorkerStep /\ ~handleFinalizer /\ ~finalizeApplication /\ ~verifyOwnership
           /\ ~emptyBucket /\ ~deleteBucket
  BY <1>6 DEF WorkerStep, Get, SetReconciling, failStorageCleanup, removeFinalizer, clearStatus,
     ensureStorageOwnershipID, headBucket, CreateBucket, recordBucketCreated,
     claimOrVerifyOwnership, tagAsOwned, configureBucket, recordReady, storageFailed, SetReady,
     SetFailed, worker, Return, StartProvisioning
<1>7. CASE FaultStep
  <2>1. CASE BestEffortWriteFails
    BY <1>1, <2>1 DEF BestEffortWriteFails, Return
  <2> QED BY <1>7, <2>1 DEF FaultStep, CallFailsOutright, CloudCallFails,
             StatusWriteFails, DesiredStateFails, Crash, Return
<1>8. CASE EnvironmentStep \/ UNCHANGED vars
  BY <1>8, EnvironmentFields DEF vars, worker
<1> QED BY <1>2, <1>3, <1>4, <1>5, <1>6, <1>7, <1>8 DEF Next, WorkerStep, EnvironmentStep

\* A record is given up only at the end of a cleanup, or by the last write of a
\* reconcile that could not clear it before.
LEMMA GivenUpSteps ==
    ASSUME TypeInv, RecordsInv, [Next]_vars,
           obj # Nil, obj' # Nil, obj.status # Nil, obj'.status = Nil
    PROVE  pc = "clearStatus" \/ (pc = "setFailed" /\ app.status = Nil /\ base = obj)
<1>1. KeptStep
  BY KeptSteps
<1>2. pc \in PCs /\ pc # "idle" /\ app # Nil
  BY <1>1 DEF KeptStep, TypeInv, TypeOK, WorkerOK
<1>3. app.spec # Nil => ReadyStatus # Nil /\ CreationRecord # Nil
  BY <1>2, RecordNotNil
<1>4. pc = "record" => app.spec # Nil
  BY DEF TypeInv, WorkerOK
<1>5. CASE pc \notin {"clearStatus", "setFailed"}
  BY <1>1, <1>2, <1>3, <1>4, <1>5
     DEF KeptStep, RecordsInv, RecordInv, PCs, Untouched, Provisioning, Recorded
<1> QED BY <1>1, <1>5 DEF KeptStep

\* Every step preserves RetInv, however old the informer's copy is.
LEMMA RetInvStep ==
    ASSUME TypeInv, RetInv, [Next]_vars PROVE RetInv'
<1> USE DEF RetInv, Provisioning, Recorded, Goto
<1>1. CASE handleFinalizer
  BY <1>1, EnterPoints DEF handleFinalizer, Return
<1>2. CASE finalizeApplication \/ verifyOwnership \/ emptyBucket \/ deleteBucket
           \/ failStorageCleanup \/ removeFinalizer
  BY <1>2 DEF finalizeApplication, BeginCleanup, CleanupDone, verifyOwnership, emptyBucket,
     deleteBucket, failStorageCleanup, removeFinalizer, Return
<1>3. CASE clearStatus
  <2>1. ret # "deletion"
    BY <1>3 DEF clearStatus, TypeInv, WorkerOK
  <2> QED BY <1>3, <2>1 DEF clearStatus, Return, StartProvisioning
<1>4. CASE WorkerStep /\ ~handleFinalizer /\ ~finalizeApplication /\ ~verifyOwnership
           /\ ~emptyBucket /\ ~deleteBucket /\ ~failStorageCleanup /\ ~removeFinalizer
           /\ ~clearStatus
  BY <1>4 DEF WorkerStep, Get, SetReconciling, ensureStorageOwnershipID, headBucket, CreateBucket,
     recordBucketCreated, claimOrVerifyOwnership, tagAsOwned, configureBucket, recordReady,
     storageFailed, SetReady, SetFailed, worker, Return
<1>5. CASE StatusWriteFails
  BY <1>5 DEF StatusWriteFails, TypeInv, WorkerOK
<1>6. CASE FaultStep /\ ~StatusWriteFails
  BY <1>6 DEF FaultStep, CallFailsOutright, BestEffortWriteFails, BeginCleanup, CleanupDone,
     CloudCallFails, DesiredStateFails, Crash, Return
<1>7. CASE EnvironmentStep \/ UNCHANGED vars
  BY <1>7, EnvironmentFields DEF vars, worker
<1> QED BY <1>1, <1>2, <1>3, <1>4, <1>5, <1>6, <1>7 DEF Next, WorkerStep, EnvironmentStep

\* The copy that made the worker generate an ID had none.
UnseenIDInv ==
    /\ pc \in {"reconciling", "finalizer"} => app = base
    /\ pc = "ownershipID" => base.id = 0

\* Every step preserves UnseenIDInv, however old the informer's copy is.
LEMMA UnseenIDStep ==
    ASSUME TypeInv, UnseenIDInv, [Next]_vars PROVE UnseenIDInv'
<1> USE DEF UnseenIDInv, Goto
<1>1. CASE Get \/ SetReconciling
  BY <1>1 DEF Get, SetReconciling, UpdateStatus, Store, Return, worker
<1>2. CASE handleFinalizer
  <2>1. CASE EnterStorage(app) /\ UNCHANGED <<app, base>>
    BY <1>2, <2>1, EnterPoints DEF handleFinalizer
  <2>2. CASE EnterStorage(obj) /\ AttachFinalizer
    <3>1. obj # Nil /\ base' = [obj EXCEPT !.fin = TRUE]
      BY <1>2, <2>2 DEF handleFinalizer, AttachFinalizer, Update, Store, TypeInv, WorkerOK
    <3> QED BY <2>2, <3>1, EditedFields, EnterPoints
  <2> QED BY <1>2, <2>1, <2>2 DEF handleFinalizer, Return
<1>3. CASE clearStatus
  <2>1. CASE pc' = "ownershipID"
    <3>1. obj # Nil /\ base' = WithStatus(Nil) /\ obj.id = 0
      BY <1>3, <2>1 DEF clearStatus, Return, StartProvisioning, Writable
    <3> QED BY <2>1, <3>1, WrittenFields
  <2> QED BY <1>3, <2>1 DEF clearStatus, Return, StartProvisioning
<1>4. CASE WorkerStep /\ ~Get /\ ~SetReconciling /\ ~handleFinalizer /\ ~clearStatus
  BY <1>4 DEF WorkerStep, finalizeApplication, BeginCleanup, CleanupDone, verifyOwnership,
     emptyBucket, deleteBucket, failStorageCleanup, removeFinalizer, ensureStorageOwnershipID,
     headBucket, CreateBucket, recordBucketCreated, claimOrVerifyOwnership, tagAsOwned,
     configureBucket, recordReady, storageFailed, SetReady, SetFailed, Return
<1>5. CASE FaultStep
  BY <1>5 DEF FaultStep, CallFailsOutright, BestEffortWriteFails, BeginCleanup, CleanupDone,
     CloudCallFails, StatusWriteFails, DesiredStateFails, Crash, Return
<1>6. CASE EnvironmentStep \/ UNCHANGED vars
  BY <1>6, EnvironmentFields DEF vars, worker
<1> QED BY <1>1, <1>2, <1>3, <1>4, <1>5, <1>6 DEF Next, WorkerStep, EnvironmentStep

\* However old the copies reconciles work on and whatever fails, the storage
\* ownership ID is replaced by no reconcile but one whose copy is from before
\* the first ID (ensureStorageOwnershipID).
THEOREM OwnershipIDNeverReplaced == Spec => IDReplacedOnlyByStale
<1>1. TypeInv /\ UnseenIDInv /\ [Next]_vars =>
        [obj # Nil /\ obj' # Nil /\ obj.id # 0 /\ obj'.id # obj.id
           => pc = "ownershipID" /\ base # obj /\ base.id = 0]_vars
  BY KeptSteps DEF KeptStep, UnseenIDInv
<1>2. Init => TypeInv /\ UnseenIDInv
  BY TypeInit DEF Init, UnseenIDInv
<1>3. TypeInv /\ UnseenIDInv /\ [Next]_vars => (TypeInv /\ UnseenIDInv)'
  BY TypeStep, UnseenIDStep
<1> QED BY <1>1, <1>2, <1>3, PTL DEF Spec, IDReplacedOnlyByStale

\* If no reconcile starts on a copy older than the operator's own last write, the
\* ID is never replaced at all, whatever fails between its patch and the end of
\* the reconcile.  The cached read does not guarantee the premise: a
\* patch that took effect unseen and a retry on an older copy make a second ID.
THEOREM OwnershipIDKept ==
    ASSUME Lag # "any"
    PROVE  Spec => OwnershipIDStable
<1>1. TypeInv /\ RecordsInv /\ [Next]_vars =>
        [obj # Nil /\ obj' # Nil /\ obj.id # 0 => obj'.id = obj.id]_vars
  BY KeptSteps DEF KeptStep, RecordsInv, IDInv
<1>2. Init => TypeInv /\ RecordsInv
  BY TypeInit, RecordsInit
<1>3. TypeInv /\ RecordsInv /\ [Next]_vars => (TypeInv /\ RecordsInv)'
  BY TypeStep, RecordsStep
<1> QED BY <1>1, <1>2, <1>3, PTL DEF Spec, OwnershipIDStable

\* If no reconcile starts on a copy older than the operator's own last write, the
\* record of a bucket is given up by a cleanup that ran to its end and by nothing
\* else: no failed write, no re-read copy and no crash loses it
\* (cleanupPreviousStorage, retryStatusUpdate).  The cached read does not
\* guarantee the premise.
THEOREM RecordNeverLost ==
    ASSUME Lag # "any"
    PROVE  Spec => StatusNotLost
<1>1. TypeInv /\ RecordsInv /\ [Next]_vars =>
        [obj # Nil /\ obj' # Nil /\ obj.status # Nil /\ obj'.status = Nil
           => pc \in {"clearStatus", "setFailed"} /\ ret # "deletion"]_vars
  <2> SUFFICES ASSUME TypeInv, RecordsInv, [Next]_vars,
                      obj # Nil, obj' # Nil, obj.status # Nil, obj'.status = Nil
               PROVE  pc \in {"clearStatus", "setFailed"} /\ ret # "deletion"
    OBVIOUS
  <2>1. pc \in {"clearStatus", "setFailed"}
    BY GivenUpSteps
  <2> QED BY <2>1 DEF TypeInv, WorkerOK, RecordsInv, RetInv
<1>2. Init => TypeInv /\ RecordsInv
  BY TypeInit, RecordsInit
<1>3. TypeInv /\ RecordsInv /\ [Next]_vars => (TypeInv /\ RecordsInv)'
  BY TypeStep, RecordsStep
<1> QED BY <1>1, <1>2, <1>3, PTL DEF Spec, StatusNotLost

-----------------------------------------------------------------------------
(* The policy on record. *)

InDefaultRegion == \A s \in SpecChoices \ {Nil} : Resolved(s.region) = DefaultRegion

\* A creation record, which has no region, is not taken for another bucket: names
\* are global, or every spec means the default region.
RegionClear == Provider = "AWS" \/ InDefaultRegion

\* The Application has been ready on the bucket under Retain.
KeptAt(b, r) == cloud[b][r] # Nil /\ cloud[b][r].kept

\* A spec or a record that lets a cleanup delete its bucket names none of those.
Spared(s) == s # Nil /\ s.policy # "Retain" => ~KeptAt(s.bucket, Resolved(s.region))

\* What a cleanup may start from: the object, and the copies that a reconcile
\* works on or may re-read until it has recorded the bucket ready.
RetainInv ==
    /\ obj # Nil => Spared(obj.spec) /\ Spared(obj.status)
    /\ app # Nil => Spared(app.spec) /\ Spared(app.status)
    /\ cache # Nil /\ pc \notin {"idle", "children", "setFailed"} =>
          Spared(cache.spec) /\ Spared(cache.status)
    /\ pc \in Provisioning => <<mgr.bucket, mgr.region>> = At(app.spec)
    /\ pc = "record" => ~KeptAt(mgr.bucket, DefaultRegion)
    /\ pc \in {"verify", "empty", "deleteBucket"} => ~KeptAt(mgr.bucket, mgr.region)

\* The one step that marks a bucket: it records the policy with it.
Marking ==
    /\ pc = "ready" /\ obj # Nil /\ app.spec # Nil /\ app.spec.policy = "Retain"
    /\ obj.spec = app.spec
    /\ obj' = WithStatus(ReadyStatus) /\ app' = obj' /\ pc' = "children"

\* Marking one bucket, or none, leaves the others as they are.
LEMMA MarkKeptEffect ==
    ASSUME TypeInv, NEW s \in StorageSpec, NEW k \in BOOLEAN, MarkKept(s, k),
           NEW b \in Buckets, NEW r \in Regions, KeptAt(b, r)'
    PROVE  \/ k /\ <<b, r>> = At(s)
           \/ KeptAt(b, r) /\ <<b, r>> # At(s)
<1>1. s.bucket \in Buckets /\ s.region \in Regions \cup {""}
  BY DEF StorageSpec
<1>2. Resolved(s.region) \in Regions
  BY <1>1, ResolvedType
<1> DEFINE old == cloud[s.bucket][Resolved(s.region)]
           new == IF old = Nil THEN Nil ELSE [old EXCEPT !.kept = k]
<1>3. cloud \in [Buckets -> [Regions -> Bucket \cup {Nil}]]
  BY DEF TypeInv, TypeOK
<1>4. old \in Bucket \cup {Nil}
  BY <1>1, <1>2, <1>3
<1>5. new # Nil => new.kept = k
  BY <1>4 DEF Bucket
<1>6. cloud' = [cloud EXCEPT ![s.bucket][Resolved(s.region)] = new]
  BY DEF MarkKept
<1> HIDE DEF new
<1>7. CASE <<b, r>> = At(s)
  <2>1. cloud'[b][r] = new
    BY <1>1, <1>2, <1>3, <1>6, <1>7 DEF At
  <2> QED BY <1>5, <1>7, <2>1 DEF KeptAt
<1>8. CASE <<b, r>> # At(s)
  <2>1. cloud'[b][r] = cloud[b][r]
    BY <1>1, <1>2, <1>3, <1>6, <1>8 DEF At
  <2> QED BY <1>8, <2>1 DEF KeptAt
<1> QED BY <1>7, <1>8

\* Replacing one bucket by none, or by one that is not marked anew, marks nothing.
LEMMA ReplaceMarksNothing ==
    ASSUME TypeInv, NEW b \in Buckets, NEW r \in Regions, NEW v,
           \/ v = Nil
           \/ v.kept = FALSE
           \/ cloud[b][r] # Nil /\ v.kept = cloud[b][r].kept,
           cloud' = [cloud EXCEPT ![b][r] = v],
           NEW b2 \in Buckets, NEW r2 \in Regions, KeptAt(b2, r2)'
    PROVE  KeptAt(b2, r2)
<1>1. cloud \in [Buckets -> [Regions -> Bucket \cup {Nil}]]
  BY DEF TypeInv, TypeOK
<1>2. CASE b2 = b /\ r2 = r
  BY <1>1, <1>2 DEF KeptAt
<1>3. CASE ~(b2 = b /\ r2 = r)
  BY <1>1, <1>3 DEF KeptAt
<1> QED BY <1>2, <1>3

\* Nothing else marks a bucket.
LEMMA MarkSteps ==
    ASSUME TypeInv, [Next]_vars, NEW b \in Buckets, NEW r \in Regions, KeptAt(b, r)'
    PROVE  KeptAt(b, r) \/ (Marking /\ <<b, r>> = At(app.spec))
<1> DEFINE Goal == KeptAt(b, r) \/ (Marking /\ <<b, r>> = At(app.spec))
<1>1. ASSUME UNCHANGED cloud PROVE Goal
  BY <1>1 DEF KeptAt
<1>2. ASSUME pc \in ManagerPoints, NEW v, SetBucket(v),
             v = Nil \/ v.kept = FALSE \/ (There # Nil /\ v.kept = There.kept)
      PROVE  Goal
  <2>1. mgr.bucket \in Buckets /\ mgr.region \in Regions
    BY <1>2 DEF TypeInv, TypeOK, WorkerOK, Manager
  <2> QED BY <1>2, <2>1, ReplaceMarksNothing DEF SetBucket, There
<1>3. ASSUME pc \in ManagerPoints, There # Nil
      PROVE  /\ Emptied(There).kept = There.kept
             /\ [There EXCEPT !.owner = "me"].kept = There.kept
             /\ \A full : [Emptied(There) EXCEPT !.full = full].kept = There.kept
  <2>1. There \in Bucket
    BY <1>3, ThereType
  <2> HIDE DEF There
  <2>2. Emptied(There) \in Bucket /\ Emptied(There).kept = There.kept
    BY <2>1 DEF Emptied, Bucket
  <2>3. \A full : [Emptied(There) EXCEPT !.full = full].kept = Emptied(There).kept
    BY <2>2 DEF Bucket
  <2>4. [There EXCEPT !.owner = "me"].kept = There.kept
    BY <2>1 DEF Bucket
  <2> QED BY <2>2, <2>3, <2>4
<1>4. CASE emptyBucket
  <2>1. pc = "empty" /\ (UNCHANGED cloud \/ (There # Nil /\ SetBucket(Emptied(There))))
    BY <1>4 DEF emptyBucket, Lookup, There
  <2> QED BY <1>1, <1>2, <1>3, <2>1 DEF ManagerPoints
<1>5. CASE deleteBucket
  BY <1>1, <1>2, <1>5 DEF deleteBucket, ManagerPoints
<1>6. CASE tagAsOwned
  <2>1. pc = "tag" /\ (UNCHANGED cloud \/ (There # Nil /\ PutOwner))
    BY <1>6 DEF tagAsOwned
  <2> QED BY <1>1, <1>2, <1>3, <2>1 DEF PutOwner, ManagerPoints
<1>7. CASE CreateBucket
  BY <1>1, <1>2, <1>7 DEF CreateBucket, MakeBucket, ManagerPoints
<1>8. CASE recordReady
  <2>1. CASE /\ app.spec # Nil /\ RetryStatusUpdate(ReadyStatus) /\ pc' = "children"
             /\ MarkKept(app.spec, app.spec.policy = "Retain" /\ obj.spec = app.spec)
    <3>1. app.spec \in StorageSpec
      BY <1>8, <2>1 DEF recordReady, TypeInv, TypeOK, WorkerOK, Object
    <3>2. (app.spec.policy = "Retain" /\ obj.spec = app.spec) \in BOOLEAN
      OBVIOUS
    <3>3. \/ /\ app.spec.policy = "Retain" /\ obj.spec = app.spec
             /\ <<b, r>> = At(app.spec)
          \/ KeptAt(b, r)
      BY <2>1, <3>1, <3>2, MarkKeptEffect
    <3> QED BY <1>8, <2>1, <3>3 DEF recordReady, RetryStatusUpdate, Writable, Store, Marking
  <2> QED BY <1>1, <1>8, <2>1 DEF recordReady, Goto
<1>9. CASE CloudCallFails
  <2>1. pc \in ManagerPoints /\ (UNCHANGED cloud \/ LateEffect)
    BY <1>9 DEF CloudCallFails, ManagerPoints
  <2>2. CASE LateEffect /\ pc # "create"
    <3>1. There # Nil
      BY <2>2 DEF LateEffect
    <3>2. CASE PutOwner
      BY <1>2, <1>3, <2>1, <3>1, <3>2 DEF PutOwner
    <3>3. ASSUME NEW full, SetBucket([Emptied(There) EXCEPT !.full = full]) PROVE Goal
      BY <1>2, <1>3, <2>1, <3>1, <3>3
    <3> QED BY <1>2, <2>1, <2>2, <3>2, <3>3 DEF LateEffect
  <2>3. CASE LateEffect /\ pc = "create"
    BY <1>2, <2>1, <2>3 DEF LateEffect, MakeBucket
  <2> QED BY <1>1, <2>1, <2>2, <2>3
<1>10. CASE UserStep
  <2>1. ASSUME NEW s \in SpecChoices, UserEdit(s) PROVE Goal
    <3>1. CASE s # Nil /\ MarkKept(s, FALSE)
      BY <3>1, SpecAssumption, MarkKeptEffect
    <3> QED BY <1>1, <2>1, <3>1 DEF UserEdit
  <2> QED BY <1>1, <1>10, <2>1 DEF UserStep, UserDelete
<1>11. CASE OutsideStep
  <2> PICK b2 \in Buckets, r2 \in Regions :
        OutsideDelete(b2, r2) \/ OutsideCreate(b2, r2) \/ WorkloadWrites(b2, r2)
    BY <1>11 DEF OutsideStep
  <2>1. CASE OutsideDelete(b2, r2)
    BY <2>1, ReplaceMarksNothing DEF OutsideDelete, Outside
  <2>2. CASE OutsideCreate(b2, r2)
    BY <2>2, ReplaceMarksNothing DEF OutsideCreate, Outside
  <2>3. CASE WorkloadWrites(b2, r2)
    <3>1. cloud[b2][r2] \in Bucket /\ cloud[b2][r2] # Nil
      BY <2>3 DEF WorkloadWrites, TypeInv, TypeOK
    <3>2. [cloud[b2][r2] EXCEPT !.full = TRUE].kept = cloud[b2][r2].kept
      BY <3>1 DEF Bucket
    <3> QED BY <2>3, <3>1, <3>2, ReplaceMarksNothing DEF WorkloadWrites, Outside
  <2> QED BY <2>1, <2>2, <2>3
<1>12. CASE WorkerStep /\ ~emptyBucket /\ ~deleteBucket /\ ~tagAsOwned /\ ~recordReady
            /\ ~CreateBucket
  BY <1>1, <1>12 DEF WorkerStep, Get, SetReconciling, handleFinalizer, finalizeApplication,
     verifyOwnership, failStorageCleanup, removeFinalizer, clearStatus, ensureStorageOwnershipID,
     headBucket, recordBucketCreated, claimOrVerifyOwnership, configureBucket, storageFailed,
     SetReady, SetFailed
<1>13. CASE FaultStep /\ ~CloudCallFails
  BY <1>1, <1>13 DEF FaultStep, CallFailsOutright, BestEffortWriteFails, StatusWriteFails,
     DesiredStateFails, Crash
<1>14. CASE CacheSync \/ OwnedEvent \/ Tick \/ UNCHANGED vars
  BY <1>1, <1>14 DEF CacheSync, OwnedEvent, Tick, vars
<1> QED BY <1>4, <1>5, <1>6, <1>7, <1>8, <1>9, <1>10, <1>11, <1>12, <1>13, <1>14
        DEF Next, WorkerStep

\* A reconcile starts from the informer's copy, and ends once it has got past the
\* record of a ready bucket or failed.
LEMMA ReconcileSteps ==
    ASSUME TypeInv, [Next]_vars
    PROVE  /\ pc = "idle" /\ Lag = "none" => pc' = "idle" \/ cache = obj
           /\ pc \in {"children", "setFailed"} => pc' \in {"idle", "children", "setFailed"}
<1> USE DEF Goto
<1>1. CASE WorkerStep
  BY <1>1 DEF WorkerStep, Get, SetReconciling, handleFinalizer, finalizeApplication,
     verifyOwnership, emptyBucket, deleteBucket, failStorageCleanup, removeFinalizer, clearStatus,
     ensureStorageOwnershipID, headBucket, CreateBucket, recordBucketCreated,
     claimOrVerifyOwnership, tagAsOwned, configureBucket, recordReady, storageFailed, SetReady,
     SetFailed, worker, Return
<1>2. CASE FaultStep
  BY <1>2 DEF FaultStep, CallFailsOutright, BestEffortWriteFails, CloudCallFails,
     StatusWriteFails, DesiredStateFails, Crash, Return
<1>3. CASE EnvironmentStep \/ UNCHANGED vars
  BY <1>3, EnvironmentFields DEF vars, worker
<1> QED BY <1>1, <1>2, <1>3 DEF Next, EnvironmentStep

\* At the moment a bucket awaits its creation record, no bucket that the record
\* could be taken to name is marked.
LEMMA CreatedUnmarked ==
    ASSUME TypeInv, SpecInv, RetainInv, RegionClear,
           pc = "create", Makes
    PROVE  ~KeptAt(mgr.bucket, DefaultRegion)'
<1>1. mgr.bucket \in Buckets /\ mgr.region \in Regions /\ mgr' = mgr /\ DefaultRegion \in Regions
  BY RegionAssumption DEF TypeInv, TypeOK, WorkerOK, ManagerPoints, Manager, Makes
<1>2. cloud \in [Buckets -> [Regions -> Bucket \cup {Nil}]]
  BY DEF TypeInv, TypeOK
<1> DEFINE made == [creator |-> "me", owner |-> "none", full |-> FALSE, kept |-> FALSE]
<1>3. cloud' = [cloud EXCEPT ![mgr.bucket][mgr.region] = made]
  BY DEF Makes, MakeBucket, SetBucket
<1>4. ~made.kept
  OBVIOUS
<1> HIDE DEF made
<1>5. CASE mgr.region = DefaultRegion
  <2>1. cloud'[mgr.bucket][DefaultRegion] = made
    BY <1>1, <1>2, <1>3, <1>5
  <2> QED BY <1>1, <1>4, <2>1 DEF KeptAt
<1>6. CASE mgr.region # DefaultRegion
  <2>1. Provider = "AWS"
    <3>1. app # Nil /\ app.spec # Nil /\ mgr.region = Resolved(app.spec.region)
      BY DEF TypeInv, WorkerOK, RetainInv, Provisioning, At
    <3> QED BY <1>6, <3>1 DEF SpecInv, RegionClear, InDefaultRegion
  <2>2. cloud[mgr.bucket][DefaultRegion] = Nil
    BY <1>1, <2>1 DEF Makes, Lookup
  <2>3. cloud'[mgr.bucket][DefaultRegion] = Nil
    BY <1>1, <1>2, <1>3, <1>6, <2>2
  <2> QED BY <1>1, <2>3 DEF KeptAt
<1> QED BY <1>5, <1>6

\* Every step keeps what a cleanup may delete apart from what is to survive.
LEMMA RetainInvStep ==
    ASSUME Lag = "none", RegionClear,
           TypeInv, TypeInv', SpecInv, RetainInv, [Next]_vars
    PROVE  RetainInv'
<1>1. CASE Marking
  <2>1. obj'.spec = obj.spec /\ obj'.status = ReadyStatus
    BY <1>1, WrittenFields DEF Marking
  <2>2. obj'.spec.policy = "Retain" /\ obj'.status.policy = "Retain"
    BY <1>1, <2>1 DEF Marking, ReadyStatus
  <2> QED BY <1>1, <2>2 DEF Marking, RetainInv, Spared, Provisioning
<1>2. CASE ~Marking
  <2> DEFINE KeptNext(b, r) == cloud'[b][r] # Nil /\ cloud'[b][r].kept
             SparedNext(s) ==
               s # Nil /\ s.policy # "Retain" => ~KeptNext(s.bucket, Resolved(s.region))
             Good(o) == o # Nil => SparedNext(o.spec) /\ SparedNext(o.status)
  <2>1. \A b \in Buckets, r \in Regions : KeptNext(b, r) => KeptAt(b, r)
    BY <1>2, MarkSteps DEF KeptAt
  <2>2. ASSUME NEW s \in StorageSpec \cup StorageStatus \cup {Nil}, Spared(s)
        PROVE  SparedNext(s)
    <3>1. s # Nil => s.bucket \in Buckets /\ s.region \in Regions \cup {""}
      BY DEF StorageSpec, StorageStatus
    <3>2. s # Nil => Resolved(s.region) \in Regions
      BY <3>1, ResolvedType
    <3> QED BY <2>1, <2>2, <3>1, <3>2 DEF Spared
  <2>3. ASSUME NEW o \in {obj, cache, app}, o # Nil, Spared(o.spec), Spared(o.status)
        PROVE  Good(o)
    <3>1. o.spec \in StorageSpec \cup {Nil} /\ o.status \in StorageStatus \cup {Nil}
      BY <2>3 DEF TypeInv, TypeOK, Object
    <3> HIDE DEF SparedNext
    <3> QED BY <2>2, <2>3, <3>1
  <2>4. SparedNext(Nil) /\ Good(obj) /\ Good(app)
    BY <2>3 DEF RetainInv
  <2>5. cache # Nil /\ pc \notin {"idle", "children", "setFailed"} => Good(cache)
    BY <2>3 DEF RetainInv
  <2>6. pc = "record" => SparedNext(CreationRecord)
    <3> SUFFICES ASSUME pc = "record" PROVE SparedNext(CreationRecord)
      OBVIOUS
    <3>1. mgr.bucket \in Buckets /\ DefaultRegion \in Regions
      BY RegionAssumption DEF TypeInv, TypeOK, WorkerOK, ManagerPoints, Manager
    <3>2. CreationRecord.bucket = mgr.bucket /\ Resolved(CreationRecord.region) = DefaultRegion
      BY DEF RetainInv, Provisioning, At, CreationRecord, Resolved
    <3>3. ~KeptAt(mgr.bucket, DefaultRegion)
      BY DEF RetainInv
    <3> QED BY <2>1, <3>1, <3>2, <3>3
  <2>7. app # Nil /\ app.spec # Nil => SparedNext(ReadyStatus)
    BY <2>4 DEF ReadyStatus
  <2>8. ASSUME NEW s \in SpecChoices, UserEdit(s) PROVE SparedNext(s)
    <3>1. CASE s # Nil /\ s.policy # "Retain"
      <4>1. s \in StorageSpec /\ s.policy = "Delete"
        BY <3>1, SpecAssumption DEF StorageSpec, Policies
      <4>2. MarkKept(s, FALSE)
        BY <2>8, <3>1, <4>1 DEF UserEdit
      <4>3. s.bucket \in Buckets /\ Resolved(s.region) \in Regions
        BY <4>1, ResolvedType DEF StorageSpec
      <4>4. ~KeptNext(s.bucket, Resolved(s.region))
        BY <4>1, <4>2, <4>3, MarkKeptEffect DEF KeptAt, At
      <4> QED BY <4>4
    <3> QED BY <3>1
  <2> HIDE DEF SparedNext
  <2>9. Good(obj')
    <3> SUFFICES ASSUME obj' # Nil PROVE Good(obj')
      OBVIOUS
    <3>1. obj # Nil /\ KeptStep
      BY SpecSteps, KeptSteps
    <3>2. SparedNext(obj'.spec)
      BY <2>4, <2>8, <3>1, SpecSteps
    <3>3. pc # "idle" => app # Nil
      BY DEF TypeInv, WorkerOK
    <3>4. SparedNext(obj'.status)
      BY <2>4, <2>6, <2>7, <3>1, <3>3 DEF KeptStep
    <3> QED BY <3>2, <3>4
  <2>10. Good(app')
    <3>1. CASE app' = cache
      <4>1. CASE pc = "idle"
        BY <2>4, <3>1, <4>1, CopyKeptSteps, <2>9 DEF CopyKept
      <4> QED BY <2>4, <2>5, <2>9, <3>1, <4>1, CopyKeptSteps DEF CopyKept
    <3> QED BY <2>4, <2>6, <2>7, <2>9, <3>1, CopyKeptSteps DEF CopyKept
  <2>11. cache' # Nil /\ pc' \notin {"idle", "children", "setFailed"} => Good(cache')
    <3>1. cache' = cache \/ (cache' = obj /\ obj' = obj)
      BY CacheSteps DEF vars, api
    <3>2. pc' \notin {"idle", "children", "setFailed"} =>
            pc \notin {"children", "setFailed"} /\ (pc = "idle" => cache = obj)
      BY ReconcileSteps
    <3> QED BY <2>4, <2>5, <2>9, <3>1, <3>2
  <2>12. pc' \in Provisioning => <<mgr'.bucket, mgr'.region>> = At(app'.spec)
    BY ManagerSteps DEF RetainInv, At, ManagerFor
  <2>13. pc' = "record" => ~KeptNext(mgr'.bucket, DefaultRegion)
    <3>1. CASE pc' = "record" /\ pc = "record" /\ mgr' = mgr
      <4>1. mgr.bucket \in Buckets /\ DefaultRegion \in Regions
        BY <3>1, RegionAssumption DEF TypeInv, TypeOK, WorkerOK, ManagerPoints, Manager
      <4> QED BY <2>1, <3>1, <4>1 DEF RetainInv
    <3>2. CASE pc = "create" /\ Makes
      BY <3>2, CreatedUnmarked DEF KeptAt
    <3> QED BY <3>1, <3>2, CreatedSteps
  <2>14. pc' \in {"verify", "empty", "deleteBucket"} => ~KeptNext(mgr'.bucket, mgr'.region)
    <3>1. CASE pc \in {"verify", "empty", "deleteBucket"} /\ mgr' = mgr
      <4>1. mgr.bucket \in Buckets /\ mgr.region \in Regions
        BY <3>1 DEF TypeInv, TypeOK, WorkerOK, ManagerPoints, Manager
      <4> QED BY <2>1, <3>1, <4>1 DEF RetainInv
    <3>2. CASE /\ pc = "cleanup" /\ mgr' = ManagerFor(CleanupTarget, app.status)
               /\ CleanupTarget.policy # "Retain"
      <4>1. app # Nil /\ CleanupTarget # Nil
        BY <3>2 DEF TypeInv, WorkerOK, CleanupTarget
      <4>2. SparedNext(CleanupTarget)
        BY <2>4, <4>1 DEF CleanupTarget
      <4>3. ~KeptNext(CleanupTarget.bucket, Resolved(CleanupTarget.region))
        BY <3>2, <4>1, <4>2 DEF SparedNext
      <4> QED BY <3>2, <4>3 DEF ManagerFor
    <3> QED BY <3>1, <3>2, CleanupSteps
  <2> QED BY <2>9, <2>10, <2>11, <2>12, <2>13, <2>14 DEF SparedNext, RetainInv, Spared, KeptAt
<1> QED BY <1>1, <1>2

\* At first there is no bucket, and no record of one.
LEMMA RetainInit == Init => SpecInv /\ RetainInv
<1> SUFFICES ASSUME Init PROVE SpecInv /\ RetainInv
  OBVIOUS
<1>1. PICK s \in SpecChoices :
        obj = [spec |-> s, status |-> Nil, fin |-> FALSE, del |-> FALSE,
               cond |-> "NotReady", id |-> 0]
  BY DEF Init
<1>2. obj.spec \in SpecChoices /\ obj.status = Nil /\ cache = obj /\ app = Nil /\ pc = "idle"
  BY <1>1 DEF Init
<1>3. s # Nil => s.bucket \in Buckets /\ Resolved(s.region) \in Regions
  BY SpecAssumption, ResolvedType DEF StorageSpec
<1>4. \A b \in Buckets, r \in Regions : cloud[b][r] = Nil
  BY DEF Init
<1>5. Spared(obj.spec) /\ Spared(obj.status)
  BY <1>1, <1>2, <1>3, <1>4 DEF Spared, KeptAt
<1> QED BY <1>2, <1>5 DEF SpecInv, RetainInv, Provisioning

\* A bucket the Application has been ready on under Retain outlives every
\* failure, crash and edit, unless the user asks for Delete.  Both premises are
\* needed: a stale copy may still have the creation record, which has no policy
\* and no region (SL_stale_retain), and at Akamai that record, read as naming the
\* default region, can be taken for another bucket (finalizeApplication,
\* storageSpecFromStatus).  The cached read does not guarantee the first one;
\* copies that miss the users' writes only are left to the model checker.
THEOREM RetainedIsSpared ==
    ASSUME Lag = "none", RegionClear
    PROVE  Spec => []RetainedSurvives
<1>1. Init => TypeInv /\ SpecInv /\ RetainInv
  BY TypeInit, RetainInit
<1>2. TypeInv /\ SpecInv /\ RetainInv /\ [Next]_vars => (TypeInv /\ SpecInv /\ RetainInv)'
  <2> SUFFICES ASSUME TypeInv, SpecInv, RetainInv, [Next]_vars
               PROVE  (TypeInv /\ SpecInv /\ RetainInv)'
    OBVIOUS
  <2>1. TypeInv'
    BY TypeStep
  <2> QED BY <2>1, SpecInvStep, RetainInvStep
<1>3. TypeInv /\ SpecInv /\ RetainInv => RetainedSurvives
  BY DEF RetainInv, RetainedSurvives, Destroying, There, KeptAt
<1> QED BY <1>1, <1>2, <1>3, PTL DEF Spec

=============================================================================

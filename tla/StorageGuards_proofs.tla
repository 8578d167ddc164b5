------------------------ MODULE StorageGuards_proofs ------------------------
(***************************************************************************)
(* The finalizer protocol of StorageLifecycle: a bucket never exists       *)
(* behind an object that could vanish without its cleanup.  The argument   *)
(* is about the one thing every writer of the object has in common: the    *)
(* finalizer, once stored, is only ever taken away together with the       *)
(* object.                                                                 *)
(***************************************************************************)
EXTENDS StorageLifecycle_proofs

\* The points before the finalizer is known to be stored.
EntryPoints == {"idle", "reconciling", "finalizer"}

Guarded == obj = Nil \/ obj.fin

\* FinalizerGuards is not inductive: CreateBucket would have to know that an
\* earlier step saw the finalizer.  It does, since a copy of the object, however
\* stale, shows the finalizer only if the object has it still.
GuardInv ==
    /\ FinalizerGuards
    /\ pc \notin EntryPoints => Guarded
    /\ app # Nil /\ app.fin => Guarded
    /\ cache # Nil /\ cache.fin => Guarded

\* If a reconcile starts on a copy with the operator's own writes in it, the
\* object also exists while the worker is past the finalizer, or holds a copy
\* that shows it.
AliveInv ==
    /\ pc \notin EntryPoints => obj # Nil
    /\ app # Nil /\ app.fin => obj # Nil

-----------------------------------------------------------------------------
(* What one step can do to the object, the worker's copy and the cloud. *)

\* Status writes leave the finalizer alone.
LEMMA WrittenFin ==
    ASSUME TypeInv, obj # Nil, NEW st, NEW c
    PROVE  WithStatus(st).fin = obj.fin /\ WithConditions(c).fin = obj.fin
<1>1. obj \in Object
  BY DEF TypeInv, TypeOK
<1> QED BY <1>1 DEF WithStatus, WithConditions, Object

ObjectStep ==
    \/ obj' = obj
    \/ obj # Nil /\ ~obj.fin /\ obj' = Nil
    \/ obj' = Nil /\ app' = Nil /\ pc' = "idle"
    \/ obj # Nil /\ obj'.fin = obj.fin /\ obj' \in Object
    \/ obj # Nil /\ obj'.fin = TRUE /\ obj' \in Object

\* Every step leaves the object alone, keeps or sets its finalizer, or removes
\* the object: at once when it has no finalizer, otherwise as the last thing
\* the worker does (removeFinalizer).
LEMMA ObjectSteps ==
    ASSUME TypeInv, Next PROVE ObjectStep
<1> USE DEF ObjectStep
<1>1. ASSUME obj # Nil, NEW st \in Statuses, NEW c \in Conditions, pc # "idle",
             obj' = WithStatus(st) \/ obj' = WithConditions(c)
      PROVE  ObjectStep
  BY <1>1, WrittenFin, WrittenType
<1>p. ASSUME PatchOwnershipID PROVE ObjectStep
  <2>1. obj # Nil /\ obj \in Object /\ obj' \in Object /\ obj' = [obj EXCEPT !.id = FreshID]
    BY <1>p, TypePatch DEF PatchOwnershipID
  <2>2. obj'.fin = obj.fin
    BY <2>1 DEF Object
  <2> QED BY <2>1, <2>2
<1>s. pc # "idle" => app.status \in Statuses
  BY DEF TypeInv, TypeOK, WorkerOK, Object, Statuses
<1>n. Nil \in Statuses /\ "Ready" \in Conditions /\ "NotReady" \in Conditions /\ "Reconciling" \in Conditions
  BY DEF Statuses, Conditions
<1>2. CASE Get \/ verifyOwnership \/ emptyBucket \/ deleteBucket \/ headBucket
           \/ CreateBucket \/ claimOrVerifyOwnership \/ tagAsOwned \/ configureBucket
  BY <1>2 DEF Get, verifyOwnership, emptyBucket, deleteBucket, headBucket, CreateBucket,
     claimOrVerifyOwnership, tagAsOwned, configureBucket, api
<1>3. CASE SetReconciling
  BY <1>1, <1>n, <1>3 DEF SetReconciling, UpdateStatus, Store
<1>4. CASE handleFinalizer
  <2>1. CASE AttachFinalizer
    <3>1. obj = base /\ obj' = [obj EXCEPT !.fin = TRUE] /\ pc = "finalizer"
      BY <1>4, <2>1 DEF AttachFinalizer, Update, Store, handleFinalizer
    <3>2. obj \in Object
      BY <3>1 DEF TypeInv, TypeOK, WorkerOK
    <3> QED BY <3>1, <3>2, NilAssumption DEF Object
  <2>2. CASE UNCHANGED obj
    BY <2>2
  <2> QED BY <1>4, <2>1, <2>2 DEF handleFinalizer
<1>5. CASE finalizeApplication
  <2>1. pc = "cleanup" /\ CleanupStatusUpdate
    BY <1>5 DEF finalizeApplication
  <2> QED BY <1>1, <1>n, <1>s, <2>1
          DEF CleanupStatusUpdate, BestEffort, RetryStatusUpdate, SnapshotStatusUpdate, Store, Writable
<1>6. CASE failStorageCleanup
  BY <1>1, <1>n, <1>s, <1>6 DEF failStorageCleanup, BestEffort, SnapshotStatusUpdate, Writable
<1>7. CASE removeFinalizer
  BY <1>7 DEF removeFinalizer, Return
<1>8. CASE clearStatus
  BY <1>1, <1>n, <1>8 DEF clearStatus, Writable
<1>8a. CASE ensureStorageOwnershipID
  BY <1>p, <1>8a DEF ensureStorageOwnershipID
<1>9. CASE recordBucketCreated
  <2>1. CreationRecord \in Statuses
    BY <1>9, RecordsType DEF recordBucketCreated, TypeInv, WorkerOK
  <2> QED BY <1>1, <1>n, <1>9, <2>1 DEF recordBucketCreated, RetryStatusUpdate, Store, Writable
<1>10. CASE recordReady
  <2>1. CASE app.spec # Nil /\ RetryStatusUpdate(ReadyStatus)
    <3>1. ReadyStatus \in Statuses
      BY <1>10, <2>1, RecordsType DEF recordReady, TypeInv, WorkerOK
    <3> QED BY <1>1, <1>n, <1>10, <2>1, <3>1 DEF recordReady, RetryStatusUpdate, Store, Writable
  <2> QED BY <1>10, <2>1 DEF recordReady
<1>11. CASE storageFailed
  BY <1>1, <1>n, <1>s, <1>11 DEF storageFailed, FailedStatus, BestEffort, RetryStatusUpdate, Store, Writable
<1>12. CASE SetReady \/ SetFailed
  BY <1>1, <1>n, <1>12 DEF SetReady, SetFailed
<1>13. CASE FaultStep
  <2>1. CASE DesiredStateFails
    BY <1>1, <1>n, <1>p, <2>1 DEF DesiredStateFails
  <2> QED BY <1>13, <2>1 DEF FaultStep, CallFailsOutright, BestEffortWriteFails, CloudCallFails,
             StatusWriteFails, Crash, api
<1>14. CASE CacheSync \/ OwnedEvent \/ Tick \/ OutsideStep
  BY <1>14 DEF CacheSync, OwnedEvent, Tick, OutsideStep, OutsideDelete, OutsideCreate,
     WorkloadWrites, Outside, api
<1>15. CASE UserStep
  <2>1. obj \in Object
    BY <1>15 DEF UserStep, UserEdit, UserDelete, TypeInv, TypeOK
  <2>2. ASSUME NEW s \in SpecChoices, UserEdit(s) PROVE ObjectStep
    <3>1. obj' = [obj EXCEPT !.spec = s, !.cond = "NotReady"] /\ obj # Nil
      BY <2>2 DEF UserEdit
    <3>2. obj'.fin = obj.fin /\ obj' \in Object
      BY <2>1, <3>1, SpecAssumption DEF Object, Conditions
    <3> QED BY <3>1, <3>2
  <2>3. CASE UserDelete
    <3>1. CASE obj.fin
      <4>1. obj' = [obj EXCEPT !.del = TRUE, !.cond = "NotReady"] /\ obj # Nil
        BY <2>3, <3>1 DEF UserDelete
      <4>2. obj'.fin = obj.fin /\ obj' \in Object
        BY <2>1, <4>1 DEF Object, Conditions
      <4> QED BY <4>1, <4>2
    <3>2. CASE ~obj.fin
      BY <2>3, <3>2 DEF UserDelete
    <3> QED BY <3>1, <3>2
  <2> QED BY <1>15, <2>2, <2>3 DEF UserStep
<1> QED BY <1>2, <1>3, <1>4, <1>5, <1>6, <1>7, <1>8, <1>8a, <1>9, <1>10, <1>11, <1>12, <1>13, <1>14, <1>15
        DEF Next, WorkerStep

CopyStep ==
    \/ app' = Nil
    \/ app' = obj'
    \/ app # Nil /\ app'.fin = app.fin
    \/ /\ app' = cache /\ obj' = obj
       /\ obj # Nil \/ Lag = "any" \/ cache = Nil \/ ~cache.fin

\* The worker's copy is dropped, replaced by what has just been stored, changed
\* in its status only, or re-read from the informer.
LEMMA CopySteps ==
    ASSUME TypeInv, Next PROVE CopyStep
<1> USE DEF CopyStep
<1>1. CASE Get
  BY <1>1, EnvironmentAssumption DEF Get, OwnWritesSeen, LagChoices, worker
<1>2. ASSUME UNCHANGED app PROVE CopyStep
  BY <1>2
<1>3. ASSUME Return(TRUE) \/ Return(FALSE) PROVE CopyStep
  BY <1>3 DEF Return
<1>4. CASE SetReconciling \/ handleFinalizer
  BY <1>2, <1>3, <1>4 DEF SetReconciling, handleFinalizer, UpdateStatus, AttachFinalizer, Update, Store
<1>5. CASE finalizeApplication \/ storageFailed
  BY <1>2, <1>5 DEF finalizeApplication, storageFailed, CleanupStatusUpdate, BestEffort,
     RetryStatusUpdate, SnapshotStatusUpdate, Store
<1>6. CASE verifyOwnership \/ emptyBucket \/ deleteBucket \/ headBucket
           \/ CreateBucket \/ claimOrVerifyOwnership \/ tagAsOwned \/ configureBucket
  BY <1>2, <1>6 DEF verifyOwnership, emptyBucket, deleteBucket, headBucket, CreateBucket,
     claimOrVerifyOwnership, tagAsOwned, configureBucket
<1>7. CASE failStorageCleanup \/ removeFinalizer
  BY <1>2, <1>3, <1>7 DEF failStorageCleanup, removeFinalizer, BestEffort, SnapshotStatusUpdate
<1>8. CASE clearStatus
  BY <1>2, <1>3, <1>8 DEF clearStatus
<1>8a. CASE ensureStorageOwnershipID
  <2>1. app \in Object
    BY <1>8a DEF ensureStorageOwnershipID, TypeInv, TypeOK, WorkerOK
  <2>2. CASE app' = [app EXCEPT !.id = FreshID]
    <3>1. app'.fin = app.fin
      BY <2>1, <2>2 DEF Object
    <3> QED BY <2>1, <3>1, NilAssumption
  <2> QED BY <1>2, <1>8a, <2>2 DEF ensureStorageOwnershipID
<1>9. CASE recordBucketCreated \/ recordReady
  BY <1>2, <1>3, <1>9 DEF recordBucketCreated, recordReady, RetryStatusUpdate, Store
<1>10. CASE SetReady \/ SetFailed
  BY <1>10 DEF SetReady, SetFailed, Return
<1>11. CASE FaultStep
  <2>1. ASSUME NEW st, FailedWrite(st), pc # "idle", UNCHANGED obj PROVE CopyStep
    <3>1. app \in Object
      BY <2>1 DEF TypeInv, TypeOK, WorkerOK
    <3>2. [app EXCEPT !.status = st].fin = app.fin
      BY <3>1 DEF Object
    <3> QED BY <2>1, <3>1, <3>2, NilAssumption DEF FailedWrite
  <2>2. CASE CallFailsOutright \/ Crash \/ CloudCallFails
    BY <1>2, <1>3, <2>2 DEF CallFailsOutright, Crash, CloudCallFails
  <2>3. CASE BestEffortWriteFails
    BY <1>2, <1>3, <2>1, <2>3 DEF BestEffortWriteFails
  <2>4. CASE StatusWriteFails
    BY <2>1, <2>4 DEF StatusWriteFails, api
  <2>5. CASE DesiredStateFails
    BY <1>2, <1>3, <2>5 DEF DesiredStateFails
  <2> QED BY <1>11, <2>2, <2>3, <2>4, <2>5 DEF FaultStep
<1>12. CASE CacheSync \/ OwnedEvent \/ Tick \/ OutsideStep \/ UserStep
  BY <1>12, <1>2 DEF CacheSync, OwnedEvent, Tick, OutsideStep, OutsideDelete, OutsideCreate,
     WorkloadWrites, Outside, UserStep, UserEdit, UserDelete, worker
<1> QED BY <1>1, <1>4, <1>5, <1>6, <1>7, <1>8, <1>8a, <1>9, <1>10, <1>11, <1>12 DEF Next, WorkerStep

PointStep ==
    pc' \notin EntryPoints =>
       \/ pc \notin EntryPoints
       \/ app # Nil /\ app.fin /\ obj' = obj
       \/ obj' # Nil /\ obj'.fin

\* The worker passes handleFinalizer only with the finalizer in its copy or
\* just stored.
LEMMA PointSteps ==
    ASSUME TypeInv, Next PROVE PointStep
<1> SUFFICES ASSUME pc' \notin EntryPoints, pc \in EntryPoints
             PROVE  \/ app # Nil /\ app.fin /\ obj' = obj
                    \/ obj' # Nil /\ obj'.fin
  BY DEF PointStep
<1>1. CASE Get \/ SetReconciling
  BY <1>1 DEF Get, SetReconciling, Goto, Return, worker, EntryPoints
<1>2. CASE handleFinalizer
  <2>1. pc = "finalizer" /\ app # Nil /\ base \in Object
    BY <1>2 DEF handleFinalizer, TypeInv, TypeOK, WorkerOK
  <2>2. CASE AttachFinalizer
    <3>1. obj \in Object /\ obj' = [obj EXCEPT !.fin = TRUE]
      BY <2>1, <2>2 DEF AttachFinalizer, Update, Store
    <3>2. obj' \in Object /\ obj'.fin
      BY <3>1 DEF Object
    <3> QED BY <3>2, NilAssumption
  <2>3. CASE Return(TRUE) \/ Return(FALSE)
    BY <2>3 DEF Return, EntryPoints
  <2> QED BY <1>2, <2>1, <2>2, <2>3 DEF handleFinalizer
<1>3. CASE WorkerStep /\ ~Get /\ ~SetReconciling /\ ~handleFinalizer
  BY <1>3 DEF WorkerStep, EntryPoints, finalizeApplication, verifyOwnership, emptyBucket,
     deleteBucket, failStorageCleanup, removeFinalizer, clearStatus, ensureStorageOwnershipID, headBucket,
     CreateBucket, recordBucketCreated, claimOrVerifyOwnership, tagAsOwned, configureBucket, recordReady,
     storageFailed, SetReady, SetFailed
<1>4. CASE FaultStep
  BY <1>4 DEF FaultStep, CallFailsOutright, BestEffortWriteFails, CloudCallFails,
     StatusWriteFails, DesiredStateFails, Crash, Return, EntryPoints
<1>5. CASE CacheSync \/ OwnedEvent \/ Tick \/ OutsideStep \/ UserStep
  BY <1>5 DEF CacheSync, OwnedEvent, Tick, OutsideStep, OutsideDelete, OutsideCreate,
     WorkloadWrites, Outside, UserStep, UserEdit, UserDelete, worker
<1> QED BY <1>1, <1>2, <1>3, <1>4, <1>5 DEF Next

\* Replacing one bucket by none, or by one of the same creator, makes nothing.
LEMMA ReplaceMakesNothing ==
    ASSUME TypeInv, NEW b \in Buckets, NEW r \in Regions, NEW v,
           v = Nil \/ v.creator = cloud[b][r].creator \/ v.creator = "other",
           cloud[b][r] # Nil \/ v = Nil \/ v.creator = "other",
           cloud' = [cloud EXCEPT ![b][r] = v],
           NEW b2 \in Buckets, NEW r2 \in Regions, Mine(b2, r2)'
    PROVE  Mine(b2, r2)
<1>1. cloud \in [Buckets -> [Regions -> Bucket \cup {Nil}]]
  BY DEF TypeInv, TypeOK
<1>2. CASE b2 = b /\ r2 = r
  BY <1>1, <1>2 DEF Mine
<1>3. CASE ~(b2 = b /\ r2 = r)
  BY <1>1, <1>3 DEF Mine
<1> QED BY <1>2, <1>3

\* The request of CreateBucket takes effect, and says so or seems to have failed.
Makes ==
    /\ Lookup(mgr.bucket, mgr.region) = "absent" /\ MakeBucket
    /\ pc' = "record" \/ (pc' = "storageFailed" /\ "create" \in FaultAt)
    /\ UNCHANGED <<api, app, base, mgr, ret, retained, now>>

\* Only CreateBucket makes a bucket of the operator's.
LEMMA CloudSteps ==
    ASSUME TypeInv, Next, NEW b \in Buckets, NEW r \in Regions, Mine(b, r)'
    PROVE  Mine(b, r) \/ (pc = "create" /\ Makes)
<1>1. ASSUME UNCHANGED cloud PROVE Mine(b, r)
  BY <1>1 DEF Mine
<1>2. ASSUME pc \in ManagerPoints, NEW v, SetBucket(v),
             v = Nil \/ (There # Nil /\ v.creator = There.creator)
      PROVE  Mine(b, r)
  <2>1. mgr.bucket \in Buckets /\ mgr.region \in Regions
    BY <1>2 DEF TypeInv, TypeOK, WorkerOK, Manager
  <2> QED BY <1>2, <2>1, ReplaceMakesNothing DEF SetBucket, There
<1>3. ASSUME pc \in ManagerPoints, There # Nil
      PROVE  /\ Emptied(There).creator = There.creator
             /\ [There EXCEPT !.owner = "me"].creator = There.creator
             /\ \A full : [Emptied(There) EXCEPT !.full = full].creator = There.creator
  <2>1. There \in Bucket
    BY <1>3, ThereType
  <2> HIDE DEF There
  <2>2. Emptied(There) \in Bucket /\ Emptied(There).creator = There.creator
    BY <2>1 DEF Emptied, Bucket
  <2>3. \A full : [Emptied(There) EXCEPT !.full = full].creator = Emptied(There).creator
    BY <2>2 DEF Bucket
  <2>4. [There EXCEPT !.owner = "me"].creator = There.creator
    BY <2>1 DEF Bucket
  <2> QED BY <2>2, <2>3, <2>4
<1>4. ASSUME NEW s \in StorageSpec, NEW k, MarkKept(s, k) PROVE Mine(b, r)
  <2>1. s.bucket \in Buckets /\ s.region \in Regions \cup {""}
    BY DEF StorageSpec
  <2>2. Resolved(s.region) \in Regions
    BY <2>1, ResolvedType
  <2> DEFINE old == cloud[s.bucket][Resolved(s.region)]
             new == IF old = Nil THEN Nil ELSE [old EXCEPT !.kept = k]
  <2>3. old \in Bucket \cup {Nil}
    BY <2>1, <2>2 DEF TypeInv, TypeOK
  <2>4. new = Nil \/ (old # Nil /\ new.creator = old.creator)
    BY <2>3 DEF Bucket
  <2>5. cloud' = [cloud EXCEPT ![s.bucket][Resolved(s.region)] = new]
    BY <1>4 DEF MarkKept
  <2> HIDE DEF new
  <2> QED BY <2>1, <2>2, <2>4, <2>5, ReplaceMakesNothing
<1>5. CASE emptyBucket
  <2>1. pc = "empty" /\ (UNCHANGED cloud \/ (There # Nil /\ SetBucket(Emptied(There))))
    BY <1>5 DEF emptyBucket, Lookup, There
  <2> QED BY <1>1, <1>2, <1>3, <2>1 DEF ManagerPoints
<1>6. CASE deleteBucket
  <2>1. pc = "deleteBucket" /\ (UNCHANGED cloud \/ SetBucket(Nil))
    BY <1>6 DEF deleteBucket
  <2> QED BY <1>1, <1>2, <2>1 DEF ManagerPoints
<1>7. CASE tagAsOwned
  <2>1. pc = "tag" /\ (UNCHANGED cloud \/ (There # Nil /\ PutOwner))
    BY <1>7 DEF tagAsOwned
  <2> QED BY <1>1, <1>2, <1>3, <2>1 DEF PutOwner, ManagerPoints
<1>8. CASE recordReady
  <2>1. CASE app.spec # Nil /\ MarkKept(app.spec, app.spec.policy = "Retain" /\ obj.spec = app.spec)
    <3>1. app.spec \in StorageSpec
      BY <1>8, <2>1 DEF recordReady, TypeInv, TypeOK, WorkerOK, Object
    <3> QED BY <1>4, <2>1, <3>1
  <2> QED BY <1>1, <1>8, <2>1 DEF recordReady
<1>9. CASE CloudCallFails
  <2>1. pc \in ManagerPoints /\ (UNCHANGED cloud \/ LateEffect)
    BY <1>9 DEF CloudCallFails, ManagerPoints
  <2>2. CASE LateEffect /\ pc # "create"
    <3>1. There # Nil
      BY <2>2 DEF LateEffect
    <3>2. CASE PutOwner
      BY <1>2, <1>3, <2>1, <3>1, <3>2 DEF PutOwner
    <3>3. CASE SetBucket(Nil)
      BY <1>2, <2>1, <3>3
    <3>4. ASSUME NEW full, SetBucket([Emptied(There) EXCEPT !.full = full]) PROVE Mine(b, r)
      BY <1>2, <1>3, <2>1, <3>1, <3>4
    <3> QED BY <2>2, <3>2, <3>3, <3>4 DEF LateEffect
  <2>3. CASE LateEffect /\ pc = "create"
    BY <1>9, <2>3 DEF LateEffect, CloudCallFails, Fault, Goto, Makes
  <2> QED BY <1>1, <2>1, <2>2, <2>3
<1>10. CASE UserStep
  <2>1. ASSUME NEW s \in SpecChoices, UserEdit(s) PROVE Mine(b, r)
    <3>1. CASE s # Nil /\ MarkKept(s, FALSE)
      BY <1>4, <3>1, SpecAssumption
    <3> QED BY <1>1, <2>1, <3>1 DEF UserEdit
  <2> QED BY <1>1, <1>10, <2>1 DEF UserStep, UserDelete
<1>11. CASE OutsideStep
  <2> PICK b2 \in Buckets, r2 \in Regions :
        OutsideDelete(b2, r2) \/ OutsideCreate(b2, r2) \/ WorkloadWrites(b2, r2)
    BY <1>11 DEF OutsideStep
  <2>1. CASE OutsideDelete(b2, r2)
    BY <2>1, ReplaceMakesNothing DEF OutsideDelete, Outside
  <2>2. CASE OutsideCreate(b2, r2)
    BY <2>2, ReplaceMakesNothing DEF OutsideCreate, Outside
  <2>3. CASE WorkloadWrites(b2, r2)
    <3>1. cloud[b2][r2] \in Bucket
      BY <2>3 DEF WorkloadWrites, TypeInv, TypeOK
    <3>2. [cloud[b2][r2] EXCEPT !.full = TRUE].creator = cloud[b2][r2].creator
      BY <3>1 DEF Bucket
    <3> QED BY <2>3, <3>2, ReplaceMakesNothing DEF WorkloadWrites, Outside
  <2> QED BY <2>1, <2>2, <2>3
<1>11a. CASE CreateBucket
  BY <1>1, <1>11a DEF CreateBucket, Goto, Makes, counters
<1>12. CASE WorkerStep /\ ~emptyBucket /\ ~deleteBucket /\ ~tagAsOwned /\ ~recordReady
            /\ ~CreateBucket
  BY <1>1, <1>12 DEF WorkerStep, Get, SetReconciling, handleFinalizer, finalizeApplication,
     verifyOwnership, failStorageCleanup, removeFinalizer, clearStatus, ensureStorageOwnershipID,
     headBucket, recordBucketCreated, claimOrVerifyOwnership, configureBucket, storageFailed,
     SetReady, SetFailed
<1>13. CASE FaultStep /\ ~CloudCallFails
  BY <1>1, <1>13 DEF FaultStep, CallFailsOutright, BestEffortWriteFails, StatusWriteFails,
     DesiredStateFails, Crash
<1>14. CASE CacheSync \/ OwnedEvent \/ Tick
  BY <1>1, <1>14 DEF CacheSync, OwnedEvent, Tick
<1> QED BY <1>5, <1>6, <1>7, <1>8, <1>9, <1>10, <1>11, <1>11a, <1>12, <1>13, <1>14
        DEF Next, WorkerStep

\* The informer's copy stays or becomes the object.
LEMMA CacheSteps ==
    ASSUME TypeInv, Next
    PROVE  cache' = cache \/ (cache' = obj /\ obj' = obj)
<1>1. CASE WorkerStep
  BY <1>1 DEF WorkerStep, Get, SetReconciling, handleFinalizer, finalizeApplication,
     verifyOwnership, emptyBucket, deleteBucket, failStorageCleanup, removeFinalizer, clearStatus,
     ensureStorageOwnershipID, headBucket, CreateBucket, recordBucketCreated, claimOrVerifyOwnership,
     tagAsOwned, configureBucket, recordReady, storageFailed, SetReady, SetFailed, api
<1>2. CASE FaultStep
  BY <1>2 DEF FaultStep, CallFailsOutright, BestEffortWriteFails, CloudCallFails, StatusWriteFails,
     DesiredStateFails, Crash, api
<1>3. CASE CacheSync \/ OwnedEvent \/ Tick \/ OutsideStep \/ UserStep
  BY <1>3 DEF CacheSync, OwnedEvent, Tick, OutsideStep, OutsideDelete, OutsideCreate,
     WorkloadWrites, Outside, UserStep, UserEdit, UserDelete, api
<1> QED BY <1>1, <1>2, <1>3 DEF Next

-----------------------------------------------------------------------------
(* The two invariants. *)

\* GuardInv holds at first: there is no bucket and no copy with the finalizer.
LEMMA GuardInit == Init => GuardInv
<1> SUFFICES ASSUME Init PROVE GuardInv
  OBVIOUS
<1>1. PICK s \in SpecChoices :
        obj = [spec |-> s, status |-> Nil, fin |-> FALSE, del |-> FALSE,
               cond |-> "NotReady", id |-> 0]
  BY DEF Init
<1>2. ~cache.fin /\ app = Nil /\ pc = "idle"
  BY <1>1 DEF Init
<1>3. \A b \in Buckets, r \in Regions : ~Mine(b, r)
  BY DEF Init, Mine
<1> QED BY <1>2, <1>3 DEF GuardInv, FinalizerGuards, EntryPoints

\* Every step preserves GuardInv.
LEMMA GuardStep == TypeInv /\ GuardInv /\ [Next]_vars => GuardInv'
<1> SUFFICES ASSUME TypeInv, GuardInv, [Next]_vars PROVE GuardInv'
  OBVIOUS
<1>1. CASE UNCHANGED vars
  BY <1>1 DEF vars, api, worker, GuardInv, FinalizerGuards, Guarded, EntryPoints, Mine
<1>2. CASE Next
  <2>1. Guarded => Guarded'
    BY <1>2, ObjectSteps DEF ObjectStep, Guarded
  <2>2. FinalizerGuards'
    <3> SUFFICES ASSUME NEW b \in Buckets, NEW r \in Regions, Mine(b, r)'
                 PROVE  Guarded'
      BY DEF FinalizerGuards, Guarded
    <3>1. Mine(b, r) \/ pc = "create"
      BY <1>2, CloudSteps
    <3> QED BY <2>1, <3>1 DEF GuardInv, FinalizerGuards, Guarded, EntryPoints
  <2>3. (pc \notin EntryPoints => Guarded)'
    BY <1>2, <2>1, PointSteps DEF PointStep, GuardInv, Guarded
  <2>4. (app # Nil /\ app.fin => Guarded)'
    BY <1>2, <2>1, CopySteps DEF CopyStep, GuardInv, Guarded
  <2>5. (cache # Nil /\ cache.fin => Guarded)'
    BY <1>2, <2>1, CacheSteps DEF GuardInv, Guarded
  <2> QED BY <2>2, <2>3, <2>4, <2>5 DEF GuardInv
<1> QED BY <1>1, <1>2

\* While a bucket of the Application's exists the object carries the finalizer
\* or is gone, however stale the copies reconciles work on, whatever fails and
\* wherever the operator crashes: handleFinalizer's order and its checked
\* Update are enough (handleFinalizer, ensureBucketExists).
THEOREM FinalizerGuardsBuckets == Spec => []FinalizerGuards
<1>1. TypeInv /\ GuardInv => FinalizerGuards
  BY DEF GuardInv
<1>2. Init => TypeInv /\ GuardInv
  BY TypeInit, GuardInit
<1>3. TypeInv /\ GuardInv /\ [Next]_vars => (TypeInv /\ GuardInv)'
  BY TypeStep, GuardStep
<1> QED BY <1>1, <1>2, <1>3, PTL DEF Spec

\* If a reconcile starts on a copy with the operator's own writes in it, every
\* step preserves AliveInv.
LEMMA AliveStep ==
    ASSUME Lag # "any"
    PROVE  TypeInv /\ GuardInv /\ AliveInv /\ [Next]_vars => AliveInv'
<1> SUFFICES ASSUME TypeInv, GuardInv, AliveInv, [Next]_vars PROVE AliveInv'
  OBVIOUS
<1>1. CASE UNCHANGED vars
  BY <1>1 DEF vars, api, worker, AliveInv, EntryPoints
<1>2. CASE Next
  <2>1. obj # Nil /\ obj.fin => obj' # Nil \/ (app' = Nil /\ pc' = "idle")
    BY <1>2, ObjectSteps, NilAssumption DEF ObjectStep
  <2>2. (pc \notin EntryPoints => obj # Nil)'
    BY <1>2, <2>1, PointSteps DEF PointStep, AliveInv, GuardInv, Guarded, EntryPoints
  <2>3. (app # Nil /\ app.fin => obj # Nil)'
    BY <1>2, <2>1, CopySteps DEF CopyStep, AliveInv, GuardInv, Guarded
  <2> QED BY <2>2, <2>3 DEF AliveInv
<1> QED BY <1>1, <1>2

\* If no reconcile starts on a copy older than the operator's own last write, a
\* bucket is only ever created for an Application that still exists and carries
\* the finalizer, also when the user deletes it before or during the reconcile.
\* The cached read does not guarantee the premise, and it is needed: a copy from
\* before the finalizer's removal hides that the object is gone.
THEOREM CreatesForTheLiving ==
    ASSUME Lag # "any"
    PROVE  Spec => []CreatesOnlyGuarded
<1>1. TypeInv /\ GuardInv /\ AliveInv => CreatesOnlyGuarded
  BY DEF GuardInv, AliveInv, Guarded, EntryPoints, CreatesOnlyGuarded
<1>2. Init => AliveInv
  BY DEF Init, AliveInv, EntryPoints
<1>3. Init => TypeInv /\ GuardInv /\ AliveInv
  BY <1>2, TypeInit, GuardInit
<1>4. TypeInv /\ GuardInv /\ AliveInv /\ [Next]_vars => (TypeInv /\ GuardInv /\ AliveInv)'
  BY TypeStep, GuardStep, AliveStep
<1> QED BY <1>1, <1>3, <1>4, PTL DEF Spec

=============================================================================

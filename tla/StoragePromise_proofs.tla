------------------------ MODULE StoragePromise_proofs ------------------------
(***************************************************************************)
(* StorageLifecycle implements StoragePromise, and so leaves no bucket     *)
(* behind when the Application goes; and the time it keeps of a creation   *)
(* is right.  None of this holds for every value of the constants: the     *)
(* premises below say where.                                               *)
(***************************************************************************)
EXTENDS StorageRecord_proofs

\* The user keeps to one bucket in one region, whether the region is spelt out or
\* not.  The webhook refuses a move, but not one by way of a removal, nor one from
\* an unset region to another than the default, and none of an Application that
\* is being deleted (validateStorageIdentityImmutable).
SamePlace == \A s, t \in SpecChoices \ {Nil} : At(s) = At(t)

\* The user never removes spec.storage, so that a deletion knows the bucket
\* whether it is on record or not; ...
NeverRemoved == Nil \notin SpecChoices

\* ... or the record does not fail: the operator gets from CreateBucket to the
\* end of recordBucketCreated, and the record is not taken for another bucket's.
AlwaysRecorded == FaultAt \cap {"create", "record"} = {} /\ RegionClear

HereSpecs == SpecChoices \ {Nil}

\* A deletion is not taken back: what the worker takes for one is one.
DelInv ==
    /\ app # Nil /\ app.del => obj = Nil \/ obj.del
    /\ cache # Nil /\ cache.del => obj = Nil \/ obj.del
    /\ ret = "deletion" => obj = Nil \/ obj.del
    /\ app # Nil => app.del = base.del /\ app.fin = base.fin

\* The operator makes buckets only where a spec says.
PlaceInv ==
    /\ \A b \in Buckets, r \in Regions : Mine(b, r) => \E s \in HereSpecs : <<b, r>> = At(s)
    /\ pc \in Provisioning => \E s \in HereSpecs : <<mgr.bucket, mgr.region>> = At(s)

\* A request for the bucket at p is about the one of that name in region r, or
\* refused: an S3 name is global.
Meets(p, b, r) == p[1] = b /\ (Provider = "AWS" \/ p[2] = r)

\* An S3 name is in use in one region at most.
GlobalNames ==
    Provider = "AWS" =>
       \A b \in Buckets : \A r1, r2 \in Regions :
          cloud[b][r1] # Nil /\ cloud[b][r2] # Nil => r1 = r2

OtherMineRetained(p) ==
    \A b \in Buckets, r \in Regions : Mine(b, r) => <<b, r>> \in retained \/ Meets(p, b, r)

\* A cleanup is after the only bucket that has to go, and at its end none has.
CleanupInv ==
    /\ pc \in {"verify", "empty", "deleteBucket"} /\ (ret = "deletion" \/ AlwaysRecorded) =>
          OtherMineRetained(<<mgr.bucket, mgr.region>>)
    /\ pc = "removeFinalizer" => AllMineRetained
    /\ pc = "clearStatus" /\ AlwaysRecorded => AllMineRetained

\* The record st is of the bucket of spec s; only one without a policy, which no
\* cleanup retains on, may be wrong about the region, where it does not matter.
RecordOf(st, s) ==
    \/ At(st) = At(s)
    \/ Provider = "AWS" /\ st.policy = "" /\ st.bucket = s.bucket

\* What is on record is where a spec says.
StatusPlaceInv ==
    \A o \in {obj, cache, app} :
       o # Nil /\ o.status # Nil => \E s \in HereSpecs : RecordOf(o.status, s)

\* Without a record there is no bucket but a retained one.  The worker may try to
\* clear the record once more after a failure, when the cleanup has been done.
MineRecorded ==
    /\ obj # Nil /\ obj.status = Nil /\ pc # "record" => AllMineRetained
    /\ obj # Nil /\ pc = "setFailed" /\ app.status = Nil /\ obj.status # Nil =>
          base.status = Nil \/ AllMineRetained

\* A record can be relied on: it does not fail, and a reconcile does not start on
\* a copy that misses it.
RecordsHold == AlwaysRecorded /\ Lag # "any"

PlacesInv == /\ SpecInv /\ DelInv /\ GlobalNames /\ PlaceInv /\ CleanupInv
             /\ Lag # "any" => NoOrphanAfterGone
             /\ AlwaysRecorded => StatusPlaceInv
             /\ RecordsHold => MineRecorded

-----------------------------------------------------------------------------
(* What one step can do. *)

\* What a step does to the object: how far the Application is changes only with
\* the finalizer, the deletion or the end of it, and nothing else does then.
PhaseStep ==
    \/ obj' = obj
    \/ obj # Nil /\ obj' # Nil /\ obj'.del = obj.del /\ obj'.fin = obj.fin
    \/ /\ pc = "finalizer" /\ ~app.del /\ ~app.fin /\ base = obj /\ obj # Nil
       /\ obj' # Nil /\ obj'.del = obj.del /\ obj'.fin = TRUE
       /\ UNCHANGED <<cloud, retained>>
    \/ /\ obj # Nil /\ obj.del = FALSE /\ obj.fin
       /\ obj' # Nil /\ obj'.del = TRUE /\ obj'.fin = obj.fin
       /\ UNCHANGED <<pc, app, base, ret, cloud, retained>>
    \/ /\ obj # Nil /\ obj.del = FALSE /\ ~obj.fin /\ obj' = Nil
       /\ UNCHANGED <<pc, app, base, ret, cloud, retained>>
    \/ /\ pc = "removeFinalizer" /\ base = obj /\ obj # Nil /\ obj' = Nil
       /\ pc' = "idle" /\ app' = Nil /\ ret' = "none" /\ UNCHANGED <<cloud, retained>>

\* Every step is such a step.
LEMMA PhaseSteps ==
    ASSUME TypeInv, [Next]_vars PROVE PhaseStep
<1> USE DEF PhaseStep
<1>1. ASSUME obj' = obj PROVE PhaseStep
  BY <1>1
<1>2. ASSUME obj # Nil, NEW st \in Statuses, NEW c \in Conditions, pc # "idle",
             obj' = WithStatus(st) \/ obj' = WithConditions(c)
      PROVE  PhaseStep
  BY <1>2, WrittenFin, WrittenFields, WrittenType, NilAssumption
<1>p. ASSUME PatchOwnershipID PROVE PhaseStep
  <2>1. obj # Nil /\ obj \in Object /\ obj' \in Object /\ obj' = [obj EXCEPT !.id = FreshID]
    BY <1>p, TypePatch DEF PatchOwnershipID
  <2>2. obj'.fin = obj.fin /\ obj'.del = obj.del
    BY <2>1 DEF Object
  <2> QED BY <2>1, <2>2, NilAssumption
<1>s. pc # "idle" => app.status \in Statuses
  BY DEF TypeInv, TypeOK, WorkerOK, Object, Statuses
<1>n. Nil \in Statuses /\ "Ready" \in Conditions /\ "NotReady" \in Conditions /\ "Reconciling" \in Conditions
  BY DEF Statuses, Conditions
<1>3. CASE Get \/ verifyOwnership \/ emptyBucket \/ deleteBucket \/ headBucket
           \/ CreateBucket \/ claimOrVerifyOwnership \/ tagAsOwned \/ configureBucket
  BY <1>1, <1>3 DEF Get, verifyOwnership, emptyBucket, deleteBucket, headBucket, CreateBucket,
     claimOrVerifyOwnership, tagAsOwned, configureBucket, api
<1>4. CASE SetReconciling
  BY <1>1, <1>2, <1>n, <1>4 DEF SetReconciling, UpdateStatus, Store
<1>5. CASE handleFinalizer
  <2>1. CASE ~app.del /\ ~app.fin /\ AttachFinalizer
    <3>1. obj = base /\ obj' = [obj EXCEPT !.fin = TRUE] /\ pc = "finalizer"
          /\ UNCHANGED <<cloud, retained>>
      BY <1>5, <2>1 DEF AttachFinalizer, Update, Store, handleFinalizer, history
    <3>2. obj \in Object
      BY <3>1 DEF TypeInv, TypeOK, WorkerOK
    <3>3. obj' \in Object /\ obj'.fin = TRUE /\ obj'.del = obj.del
      BY <3>1, <3>2 DEF Object
    <3> QED BY <2>1, <3>1, <3>2, <3>3, NilAssumption
  <2> QED BY <1>1, <1>5, <2>1 DEF handleFinalizer
<1>6. CASE finalizeApplication
  <2>1. pc = "cleanup" /\ CleanupStatusUpdate
    BY <1>6 DEF finalizeApplication
  <2> QED BY <1>1, <1>2, <1>n, <1>s, <2>1
          DEF CleanupStatusUpdate, BestEffort, RetryStatusUpdate, SnapshotStatusUpdate, Store, Writable
<1>7. CASE failStorageCleanup
  BY <1>1, <1>2, <1>n, <1>s, <1>7 DEF failStorageCleanup, BestEffort, SnapshotStatusUpdate, Writable
<1>8. CASE removeFinalizer
  BY <1>8 DEF removeFinalizer, Return, history, TypeInv, WorkerOK
<1>9. CASE clearStatus
  BY <1>1, <1>2, <1>n, <1>9 DEF clearStatus, Writable
<1>10. CASE ensureStorageOwnershipID
  BY <1>1, <1>p, <1>10 DEF ensureStorageOwnershipID
<1>11. CASE recordBucketCreated
  <2>1. CreationRecord \in Statuses
    BY <1>11, RecordsType DEF recordBucketCreated, TypeInv, WorkerOK
  <2> QED BY <1>1, <1>2, <1>n, <1>11, <2>1 DEF recordBucketCreated, RetryStatusUpdate, Store, Writable
<1>12. CASE recordReady
  <2>1. CASE app.spec # Nil /\ RetryStatusUpdate(ReadyStatus)
    <3>1. ReadyStatus \in Statuses
      BY <1>12, <2>1, RecordsType DEF recordReady, TypeInv, WorkerOK
    <3> QED BY <1>2, <1>n, <1>12, <2>1, <3>1 DEF recordReady, RetryStatusUpdate, Store, Writable
  <2> QED BY <1>1, <1>12, <2>1 DEF recordReady
<1>13. CASE storageFailed
  BY <1>1, <1>2, <1>n, <1>s, <1>13 DEF storageFailed, FailedStatus, BestEffort, RetryStatusUpdate, Store, Writable
<1>14. CASE SetReady \/ SetFailed
  BY <1>1, <1>2, <1>n, <1>14 DEF SetReady, SetFailed
<1>15. CASE FaultStep
  <2>1. CASE DesiredStateFails
    BY <1>1, <1>2, <1>n, <1>p, <2>1 DEF DesiredStateFails
  <2> QED BY <1>1, <1>15, <2>1 DEF FaultStep, CallFailsOutright, BestEffortWriteFails, CloudCallFails,
             StatusWriteFails, Crash, api
<1>16. CASE CacheSync \/ OwnedEvent \/ Tick \/ OutsideStep
  BY <1>1, <1>16 DEF CacheSync, OwnedEvent, Tick, OutsideStep, OutsideDelete, OutsideCreate,
     WorkloadWrites, Outside, api
<1>17. CASE UserStep
  <2>1. obj \in Object
    BY <1>17 DEF UserStep, UserEdit, UserDelete, TypeInv, TypeOK
  <2>2. ASSUME NEW s \in SpecChoices, UserEdit(s) PROVE PhaseStep
    <3>1. obj' = [obj EXCEPT !.spec = s, !.cond = "NotReady"] /\ obj # Nil
      BY <2>2 DEF UserEdit
    <3>2. obj'.fin = obj.fin /\ obj'.del = obj.del /\ obj' \in Object
      BY <2>1, <3>1, SpecAssumption DEF Object, Conditions
    <3> QED BY <3>1, <3>2, NilAssumption
  <2>3. CASE UserDelete
    <3>0. obj.del = FALSE /\ UNCHANGED <<pc, app, base, ret, cloud, retained>>
      BY <2>1, <2>3 DEF UserDelete, worker, history, Object
    <3>1. CASE obj.fin
      <4>1. obj' = [obj EXCEPT !.del = TRUE, !.cond = "NotReady"] /\ obj # Nil
        BY <2>3, <3>1 DEF UserDelete
      <4>2. obj'.fin = obj.fin /\ obj'.del = TRUE /\ obj' \in Object
        BY <2>1, <4>1 DEF Object, Conditions
      <4> QED BY <3>0, <3>1, <4>1, <4>2, NilAssumption
    <3>2. CASE ~obj.fin
      BY <2>3, <3>0, <3>2 DEF UserDelete
    <3> QED BY <3>1, <3>2
  <2> QED BY <1>17, <2>2, <2>3 DEF UserStep
<1>18. CASE UNCHANGED vars
  BY <1>1, <1>18 DEF vars, api
<1> QED BY <1>3, <1>4, <1>5, <1>6, <1>7, <1>8, <1>9, <1>10, <1>11, <1>12, <1>13, <1>14, <1>15,
           <1>16, <1>17, <1>18 DEF Next, WorkerStep

\* A cleanup is one for a deletion only where the worker's copy shows one.
LEMMA RetSteps ==
    ASSUME TypeInv, [Next]_vars, ret' = "deletion"
    PROVE  ret = "deletion" \/ (pc = "finalizer" /\ app # Nil /\ app.del /\ obj' = obj)
<1>1. CASE handleFinalizer
  <2>1. pc = "finalizer" /\ app # Nil
    BY <1>1 DEF handleFinalizer, TypeInv, WorkerOK
  <2> QED BY <1>1, <2>1, EnterPoints DEF handleFinalizer, Return
<1>2. CASE WorkerStep /\ ~handleFinalizer
  BY <1>2 DEF WorkerStep, Get, SetReconciling, finalizeApplication,
     verifyOwnership, emptyBucket, deleteBucket, failStorageCleanup, removeFinalizer, clearStatus,
     ensureStorageOwnershipID, headBucket, CreateBucket, recordBucketCreated,
     claimOrVerifyOwnership, tagAsOwned, configureBucket, recordReady, storageFailed, SetReady,
     SetFailed, worker, Return, StartProvisioning
<1>3. CASE FaultStep
  BY <1>3 DEF FaultStep, CallFailsOutright, BestEffortWriteFails, CloudCallFails,
     StatusWriteFails, DesiredStateFails, Crash, Return
<1>4. CASE EnvironmentStep \/ UNCHANGED vars
  BY <1>4, EnvironmentFields DEF vars, worker
<1> QED BY <1>1, <1>2, <1>3, <1>4 DEF Next, EnvironmentStep

\* Only a cleanup under Retain leaves a bucket behind, and touches none then.
LEMMA RetainedSteps ==
    ASSUME TypeInv, [Next]_vars
    PROVE  \/ retained' = retained
           \/ /\ pc = "cleanup" /\ cloud' = cloud /\ At(CleanupTarget) \in Buckets \X Regions
              /\ retained' = retained \cup {At(CleanupTarget)}
<1>1. ASSUME BeginCleanup, pc = "cleanup", UNCHANGED cloud
      PROVE  \/ retained' = retained
             \/ /\ pc = "cleanup" /\ cloud' = cloud /\ At(CleanupTarget) \in Buckets \X Regions
                /\ retained' = retained \cup {At(CleanupTarget)}
  BY <1>1, TargetType DEF BeginCleanup, At
<1>2. CASE WorkerStep
  BY <1>1, <1>2 DEF WorkerStep, Get, SetReconciling, handleFinalizer, finalizeApplication,
     verifyOwnership, emptyBucket, deleteBucket, failStorageCleanup, removeFinalizer, clearStatus,
     ensureStorageOwnershipID, headBucket, CreateBucket, recordBucketCreated,
     claimOrVerifyOwnership, tagAsOwned, configureBucket, recordReady, storageFailed, SetReady,
     SetFailed, history
<1>3. CASE FaultStep
  BY <1>1, <1>3 DEF FaultStep, CallFailsOutright, BestEffortWriteFails, CloudCallFails,
     StatusWriteFails, DesiredStateFails, Crash, history
<1>4. CASE EnvironmentStep \/ UNCHANGED vars
  BY <1>4, EnvironmentFields DEF vars, history
<1> QED BY <1>2, <1>3, <1>4 DEF Next, EnvironmentStep

\* A step touches one bucket at most.
LEMMA OneBucketSteps ==
    ASSUME TypeInv, [Next]_vars
    PROVE  \/ cloud' = cloud
           \/ \E b \in Buckets, r \in Regions : \E v : cloud' = [cloud EXCEPT ![b][r] = v]
<1> DEFINE One == \/ cloud' = cloud
                  \/ \E b \in Buckets, r \in Regions : \E v : cloud' = [cloud EXCEPT ![b][r] = v]
<1>1. ASSUME pc \in ManagerPoints, NEW v, SetBucket(v) PROVE One
  <2>1. mgr.bucket \in Buckets /\ mgr.region \in Regions
    BY <1>1 DEF TypeInv, TypeOK, WorkerOK, Manager
  <2> QED BY <1>1, <2>1 DEF SetBucket
<1>2. ASSUME NEW s \in StorageSpec, NEW k, MarkKept(s, k) PROVE One
  <2>1. s.bucket \in Buckets /\ s.region \in Regions \cup {""}
    BY DEF StorageSpec
  <2>2. Resolved(s.region) \in Regions
    BY <2>1, ResolvedType
  <2>3. \E v : cloud' = [cloud EXCEPT ![s.bucket][Resolved(s.region)] = v]
    BY <1>2, Zenon DEF MarkKept
  <2> QED BY <2>1, <2>2, <2>3
<1>3. CASE emptyBucket \/ deleteBucket
  BY <1>1, <1>3 DEF emptyBucket, deleteBucket, ManagerPoints
<1>4. CASE CreateBucket \/ tagAsOwned
  BY <1>1, <1>4 DEF CreateBucket, tagAsOwned, MakeBucket, PutOwner, ManagerPoints
<1>5. CASE recordReady
  <2>1. CASE app.spec # Nil /\ MarkKept(app.spec, app.spec.policy = "Retain" /\ obj.spec = app.spec)
    <3>1. app.spec \in StorageSpec
      BY <1>5, <2>1 DEF recordReady, TypeInv, TypeOK, WorkerOK, Object
    <3> QED BY <1>2, <2>1, <3>1
  <2> QED BY <1>5, <2>1 DEF recordReady
<1>6. CASE CloudCallFails
  <2>1. pc \in ManagerPoints /\ (UNCHANGED cloud \/ \E v : SetBucket(v))
    BY <1>6, Zenon DEF CloudCallFails, LateEffect, MakeBucket, PutOwner, ManagerPoints
  <2> QED BY <1>1, <2>1
<1>7. CASE UserStep
  <2>1. ASSUME NEW s \in SpecChoices, UserEdit(s) PROVE One
    <3>1. CASE s # Nil /\ MarkKept(s, FALSE)
      BY <1>2, <3>1, SpecAssumption
    <3> QED BY <2>1, <3>1 DEF UserEdit
  <2> QED BY <1>7, <2>1 DEF UserStep, UserDelete
<1>8. CASE OutsideStep
  BY <1>8 DEF OutsideStep, OutsideDelete, OutsideCreate, WorkloadWrites, Outside
<1>9. CASE WorkerStep /\ ~emptyBucket /\ ~deleteBucket /\ ~CreateBucket /\ ~tagAsOwned /\ ~recordReady
  BY <1>9 DEF WorkerStep, Get, SetReconciling, handleFinalizer, finalizeApplication,
     verifyOwnership, failStorageCleanup, removeFinalizer, clearStatus, ensureStorageOwnershipID,
     headBucket, recordBucketCreated, claimOrVerifyOwnership, configureBucket, storageFailed,
     SetReady, SetFailed
<1>10. CASE FaultStep /\ ~CloudCallFails
  BY <1>10 DEF FaultStep, CallFailsOutright, BestEffortWriteFails, StatusWriteFails,
     DesiredStateFails, Crash
<1>11. CASE CacheSync \/ OwnedEvent \/ Tick \/ UNCHANGED vars
  BY <1>11 DEF CacheSync, OwnedEvent, Tick, vars
<1> QED BY <1>3, <1>4, <1>5, <1>6, <1>7, <1>8, <1>9, <1>10, <1>11 DEF Next, WorkerStep

\* A bucket of the operator's is made at the manager's place and nowhere else.
LEMMA MineSteps ==
    ASSUME TypeInv, [Next]_vars, NEW b \in Buckets, NEW r \in Regions, Mine(b, r)'
    PROVE  \/ Mine(b, r)
           \/ pc = "create" /\ Makes /\ b = mgr.bucket /\ r = mgr.region
<1>1. CASE UNCHANGED vars
  BY <1>1 DEF vars, Mine
<1>2. CASE Next
  <2>1. Mine(b, r) \/ (pc = "create" /\ Makes)
    BY <1>2, CloudSteps
  <2>2. CASE pc = "create" /\ Makes /\ ~(b = mgr.bucket /\ r = mgr.region)
    <3>1. mgr.bucket \in Buckets /\ mgr.region \in Regions
      BY <2>2 DEF TypeInv, TypeOK, WorkerOK, ManagerPoints, Manager
    <3>2. cloud \in [Buckets -> [Regions -> Bucket \cup {Nil}]]
      BY DEF TypeInv, TypeOK
    <3>3. cloud'[b][r] = cloud[b][r]
      BY <2>2, <3>1, <3>2 DEF Makes, MakeBucket, SetBucket
    <3> QED BY <3>3 DEF Mine
  <2> QED BY <2>1, <2>2
<1> QED BY <1>1, <1>2

-----------------------------------------------------------------------------
(* The invariant, part by part. *)

\* Nothing is there at first.
LEMMA PlacesInit == Init => PlacesInv
<1> SUFFICES ASSUME Init PROVE PlacesInv
  OBVIOUS
<1>1. PICK s \in SpecChoices :
        obj = [spec |-> s, status |-> Nil, fin |-> FALSE, del |-> FALSE,
               cond |-> "NotReady", id |-> 0]
  BY DEF Init
<1>2. obj.spec = s /\ obj.status = Nil /\ ~obj.del /\ cache = obj /\ app = Nil /\ pc = "idle"
      /\ ret = "none"
  BY <1>1 DEF Init
<1>3. \A b \in Buckets, r \in Regions : ~Mine(b, r)
  BY DEF Init, Mine
<1>4. GlobalNames
  BY DEF Init, GlobalNames
<1>5. SpecInv /\ DelInv
  BY <1>2 DEF SpecInv, DelInv
<1>6. PlaceInv /\ NoOrphanAfterGone /\ CleanupInv
  BY <1>2, <1>3 DEF PlaceInv, NoOrphanAfterGone, AllMineRetained, CleanupInv, Provisioning
<1>7. StatusPlaceInv /\ MineRecorded
  BY <1>2, <1>3 DEF StatusPlaceInv, MineRecorded, AllMineRetained
<1> QED BY <1>4, <1>5, <1>6, <1>7 DEF PlacesInv

\* Deletions are final.
LEMMA DelInvStep ==
    ASSUME TypeInv, DelInv, [Next]_vars PROVE DelInv'
<1>1. obj = Nil \/ obj.del => obj' = Nil \/ obj'.del
  BY PhaseSteps DEF PhaseStep
<1>2. cache' = cache \/ (cache' = obj /\ obj' = obj)
  BY CacheSteps DEF vars, api
<1>3. (app # Nil /\ app.del => obj = Nil \/ obj.del)'
  BY <1>1, CopyKeptSteps DEF CopyKept, DelInv
<1>4. (cache # Nil /\ cache.del => obj = Nil \/ obj.del)'
  BY <1>1, <1>2 DEF DelInv
<1>5. (ret = "deletion" => obj = Nil \/ obj.del)'
  BY <1>1, RetSteps DEF DelInv
<1>6. (app # Nil => app.del = base.del /\ app.fin = base.fin)'
  BY CopyKeptSteps DEF CopyKept, DelInv
<1> QED BY <1>3, <1>4, <1>5, <1>6 DEF DelInv

\* Buckets are made where a spec says.
LEMMA PlaceInvStep ==
    ASSUME TypeInv, SpecInv, PlaceInv, [Next]_vars PROVE PlaceInv'
<1>1. ASSUME NEW b \in Buckets, NEW r \in Regions, Mine(b, r)'
      PROVE  \E s \in HereSpecs : <<b, r>> = At(s)
  BY <1>1, MineSteps DEF PlaceInv, Provisioning
<1>2. ASSUME pc' \in Provisioning
      PROVE  \E s \in HereSpecs : <<mgr'.bucket, mgr'.region>> = At(s)
  <2>1. CASE pc \in Provisioning /\ mgr' = mgr
    BY <2>1 DEF PlaceInv
  <2>2. CASE app' # Nil /\ app'.spec # Nil /\ mgr' = ManagerFor(app'.spec, Nil)
    <3>1. app'.spec \in HereSpecs
      BY <2>2, SpecInvStep DEF SpecInv, HereSpecs
    <3>2. <<mgr'.bucket, mgr'.region>> = At(app'.spec)
      BY <2>2 DEF ManagerFor, At
    <3> QED BY <3>1, <3>2
  <2> QED BY <1>2, <2>1, <2>2, ManagerSteps
<1> QED BY <1>1, <1>2 DEF PlaceInv

\* A bucket appears only under a name that is free.
LEMMA AppearSteps ==
    ASSUME TypeInv, [Next]_vars, NEW b \in Buckets, NEW r \in Regions, cloud'[b][r] # Nil
    PROVE  \/ cloud[b][r] # Nil
           \/ /\ Lookup(b, r) = "absent"
              /\ \A r2 \in Regions \ {r} : cloud'[b][r2] = cloud[b][r2]
<1> DEFINE Goal == \/ cloud[b][r] # Nil
                   \/ /\ Lookup(b, r) = "absent"
                      /\ \A r2 \in Regions \ {r} : cloud'[b][r2] = cloud[b][r2]
<1>1. ASSUME UNCHANGED cloud PROVE Goal
  BY <1>1
<1>2. ASSUME NEW b2 \in Buckets, NEW r2 \in Regions, NEW v,
             cloud' = [cloud EXCEPT ![b2][r2] = v],
             v = Nil \/ cloud[b2][r2] # Nil \/ Lookup(b2, r2) = "absent"
      PROVE  Goal
  <2>1. cloud \in [Buckets -> [Regions -> Bucket \cup {Nil}]]
    BY DEF TypeInv, TypeOK
  <2>2. CASE b2 = b /\ r2 = r
    BY <1>2, <2>1, <2>2
  <2>3. CASE ~(b2 = b /\ r2 = r)
    BY <1>2, <2>1, <2>3
  <2> QED BY <2>2, <2>3
<1>3. ASSUME pc \in ManagerPoints, NEW v, SetBucket(v),
             v = Nil \/ There # Nil \/ Lookup(mgr.bucket, mgr.region) = "absent"
      PROVE  Goal
  <2>1. mgr.bucket \in Buckets /\ mgr.region \in Regions
    BY <1>3 DEF TypeInv, TypeOK, WorkerOK, Manager
  <2> QED BY <1>2, <1>3, <2>1 DEF SetBucket, There
<1>4. ASSUME NEW s \in StorageSpec, NEW k, MarkKept(s, k) PROVE Goal
  <2>1. s.bucket \in Buckets /\ Resolved(s.region) \in Regions
    BY ResolvedType DEF StorageSpec
  <2> DEFINE old == cloud[s.bucket][Resolved(s.region)]
             new == IF old = Nil THEN Nil ELSE [old EXCEPT !.kept = k]
  <2>2. new = Nil \/ old # Nil
    OBVIOUS
  <2>3. cloud' = [cloud EXCEPT ![s.bucket][Resolved(s.region)] = new]
    BY <1>4 DEF MarkKept
  <2> HIDE DEF new
  <2> QED BY <1>2, <2>1, <2>2, <2>3
<1>5. CASE emptyBucket \/ deleteBucket \/ tagAsOwned
  <2>1. \/ UNCHANGED cloud
        \/ /\ pc \in ManagerPoints
           /\ SetBucket(Nil) \/ (There # Nil /\ (PutOwner \/ SetBucket(Emptied(There))))
    BY <1>5 DEF emptyBucket, deleteBucket, tagAsOwned, Lookup, There, ManagerPoints
  <2> QED BY <1>1, <1>3, <2>1 DEF PutOwner
<1>6. CASE CreateBucket
  BY <1>1, <1>3, <1>6 DEF CreateBucket, MakeBucket, ManagerPoints
<1>7. CASE recordReady
  <2>1. CASE app.spec # Nil /\ MarkKept(app.spec, app.spec.policy = "Retain" /\ obj.spec = app.spec)
    <3>1. app.spec \in StorageSpec
      BY <1>7, <2>1 DEF recordReady, TypeInv, TypeOK, WorkerOK, Object
    <3> QED BY <1>4, <2>1, <3>1
  <2> QED BY <1>1, <1>7, <2>1 DEF recordReady
<1>8. CASE CloudCallFails
  <2>1. pc \in ManagerPoints /\ (UNCHANGED cloud \/ LateEffect)
    BY <1>8 DEF CloudCallFails, ManagerPoints
  <2>2. ASSUME NEW full, There # Nil, SetBucket([Emptied(There) EXCEPT !.full = full]) PROVE Goal
    BY <1>3, <2>1, <2>2
  <2> QED BY <1>1, <1>3, <2>1, <2>2 DEF LateEffect, MakeBucket, PutOwner
<1>9. CASE UserStep
  <2>1. ASSUME NEW s \in SpecChoices, UserEdit(s) PROVE Goal
    <3>1. CASE s # Nil /\ MarkKept(s, FALSE)
      BY <1>4, <3>1, SpecAssumption
    <3> QED BY <1>1, <2>1, <3>1 DEF UserEdit
  <2> QED BY <1>1, <1>9, <2>1 DEF UserStep, UserDelete
<1>10. CASE OutsideStep
  <2> PICK b2 \in Buckets, r2 \in Regions :
        OutsideDelete(b2, r2) \/ OutsideCreate(b2, r2) \/ WorkloadWrites(b2, r2)
    BY <1>10 DEF OutsideStep
  <2>1. CASE OutsideDelete(b2, r2) \/ WorkloadWrites(b2, r2)
    BY <1>2, <2>1 DEF OutsideDelete, WorkloadWrites, Outside
  <2>2. CASE OutsideCreate(b2, r2)
    BY <1>2, <2>2 DEF OutsideCreate, Outside
  <2> QED BY <2>1, <2>2
<1>11. CASE WorkerStep /\ ~emptyBucket /\ ~deleteBucket /\ ~tagAsOwned /\ ~recordReady
            /\ ~CreateBucket
  BY <1>1, <1>11 DEF WorkerStep, Get, SetReconciling, handleFinalizer, finalizeApplication,
     verifyOwnership, failStorageCleanup, removeFinalizer, clearStatus, ensureStorageOwnershipID,
     headBucket, recordBucketCreated, claimOrVerifyOwnership, configureBucket, storageFailed,
     SetReady, SetFailed
<1>12. CASE FaultStep /\ ~CloudCallFails
  BY <1>1, <1>12 DEF FaultStep, CallFailsOutright, BestEffortWriteFails, StatusWriteFails,
     DesiredStateFails, Crash
<1>13. CASE CacheSync \/ OwnedEvent \/ Tick \/ UNCHANGED vars
  BY <1>1, <1>13 DEF CacheSync, OwnedEvent, Tick, vars
<1> QED BY <1>5, <1>6, <1>7, <1>8, <1>9, <1>10, <1>11, <1>12, <1>13 DEF Next

\* So an S3 name is never in use twice.
LEMMA GlobalNamesStep ==
    ASSUME TypeInv, GlobalNames, [Next]_vars PROVE GlobalNames'
<1> SUFFICES ASSUME Provider = "AWS", NEW b \in Buckets, NEW r1 \in Regions, NEW r2 \in Regions,
                    cloud'[b][r1] # Nil, cloud'[b][r2] # Nil, r1 # r2
             PROVE  FALSE
  BY DEF GlobalNames
<1>1. ASSUME NEW r \in Regions, NEW q \in Regions \ {r}, cloud'[b][q] # Nil, cloud[b][r] = Nil,
             cloud'[b][r] # Nil
      PROVE  FALSE
  BY <1>1, AppearSteps DEF Lookup
<1>2. cloud[b][r1] # Nil /\ cloud[b][r2] # Nil
  BY <1>1
<1> QED BY <1>2 DEF GlobalNames

\* All specs name the same place.
LEMMA OnePlace ==
    ASSUME SamePlace, NEW s \in HereSpecs, NEW t \in HereSpecs PROVE At(s) = At(t)
BY DEF SamePlace, HereSpecs

\* Unless one is just being made, buckets only become fewer; those left behind
\* under Retain only more.
LEMMA FewerSteps ==
    ASSUME TypeInv, [Next]_vars
    PROVE  /\ retained \subseteq retained'
           /\ pc # "create" => \A b \in Buckets, r \in Regions : Mine(b, r)' => Mine(b, r)
           /\ pc # "create" /\ AllMineRetained => AllMineRetained'
<1>1. retained \subseteq retained'
  BY RetainedSteps
<1>2. ASSUME pc # "create", NEW b \in Buckets, NEW r \in Regions, Mine(b, r)' PROVE Mine(b, r)
  BY <1>2, MineSteps
<1> QED BY <1>1, <1>2 DEF AllMineRetained

\* What is cleaned up is every bucket of the operator's, and what is left behind
\* under Retain is noted where it is.
LEMMA TargetPlace ==
    ASSUME TypeInv, SamePlace, SpecInv, PlaceInv, pc = "cleanup",
           \/ NeverRemoved /\ ret = "deletion"
           \/ StatusPlaceInv
    PROVE  /\ OtherMineRetained(At(CleanupTarget))
           /\ CleanupTarget.policy = "Retain" =>
                \A b \in Buckets, r \in Regions : Mine(b, r) => <<b, r>> = At(CleanupTarget)
<1>1. app # Nil
  BY DEF TypeInv, WorkerOK
<1>2. PICK s \in HereSpecs : RecordOf(CleanupTarget, s)
  <2>1. CASE ret = "deletion" /\ app.spec # Nil
    BY <1>1, <2>1 DEF CleanupTarget, SpecInv, HereSpecs, RecordOf
  <2>2. CASE ~(ret = "deletion" /\ app.spec # Nil)
    <3>1. CleanupTarget = app.status /\ app.status # Nil
      BY <2>2 DEF CleanupTarget, TypeInv, WorkerOK
    <3>2. StatusPlaceInv
      BY <1>1, <2>2 DEF NeverRemoved, SpecInv
    <3> QED BY <1>1, <3>1, <3>2 DEF StatusPlaceInv
  <2> QED BY <2>1, <2>2
<1>3. ASSUME NEW b \in Buckets, NEW r \in Regions, Mine(b, r) PROVE <<b, r>> = At(s)
  <2>1. PICK t \in HereSpecs : <<b, r>> = At(t)
    BY <1>3 DEF PlaceInv
  <2> QED BY <2>1, OnePlace
<1>4. OtherMineRetained(At(CleanupTarget))
  BY <1>2, <1>3 DEF OtherMineRetained, Meets, RecordOf, At
<1>5. CleanupTarget.policy = "Retain" => At(CleanupTarget) = At(s)
  BY <1>2 DEF RecordOf
<1> QED BY <1>3, <1>4, <1>5

\* A cleanup that is not refused has met the bucket where its manager is.
LEMMA MetHere ==
    ASSUME GlobalNames, NEW b \in Buckets, NEW r \in Regions, cloud[b][r] # Nil,
           mgr.bucket \in Buckets, mgr.region \in Regions,
           Meets(<<mgr.bucket, mgr.region>>, b, r),
           Lookup(mgr.bucket, mgr.region) # "elsewhere"
    PROVE  b = mgr.bucket /\ r = mgr.region
BY DEF Meets, Lookup, GlobalNames

\* The object goes before there is a bucket, or after a cleanup.
LEMMA GoneSteps ==
    ASSUME TypeInv, GuardInv, PlacesInv, [Next]_vars, obj # Nil, obj' = Nil
    PROVE  pc # "create" /\ AllMineRetained
<1>1. CASE ~obj.fin
  BY <1>1 DEF GuardInv, Guarded, EntryPoints, FinalizerGuards, AllMineRetained
<1>2. CASE obj.fin
  <2>1. pc = "removeFinalizer"
    BY <1>2, PhaseSteps DEF PhaseStep
  <2> QED BY <2>1 DEF PlacesInv, CleanupInv
<1> QED BY <1>1, <1>2

\* Once the object is gone nothing is made, unless on an old copy of it.
LEMMA NoOrphanStep ==
    ASSUME Lag # "any", TypeInv, GuardInv, AliveInv, PlacesInv, [Next]_vars
    PROVE  NoOrphanAfterGone'
<1> SUFFICES ASSUME obj' = Nil PROVE AllMineRetained'
  BY DEF NoOrphanAfterGone
<1>1. CASE obj = Nil
  <2>1. pc # "create" /\ AllMineRetained
    BY <1>1 DEF AliveInv, EntryPoints, PlacesInv, NoOrphanAfterGone
  <2> QED BY <2>1, FewerSteps
<1>2. CASE obj # Nil
  BY <1>2, GoneSteps, FewerSteps
<1> QED BY <1>1, <1>2

\* A cleanup ends with no bucket left but the retained ones.
LEMMA CleanupInvStep ==
    ASSUME TypeInv, RecordsHold => AliveInv /\ RecordsInv, PlacesInv, SamePlace,
           NeverRemoved \/ RecordsHold, [Next]_vars
    PROVE  CleanupInv'
<1>1. ASSUME pc = "cleanup", ret = "deletion" \/ AlwaysRecorded
      PROVE  /\ OtherMineRetained(At(CleanupTarget))
             /\ CleanupTarget.policy = "Retain" =>
                  \A b \in Buckets, r \in Regions : Mine(b, r) => <<b, r>> = At(CleanupTarget)
  BY <1>1, TargetPlace DEF PlacesInv, RecordsHold
<1>2. ASSUME pc' \in {"verify", "empty", "deleteBucket"}, ret' = "deletion" \/ AlwaysRecorded
      PROVE  OtherMineRetained(<<mgr.bucket, mgr.region>>)'
  <2>1. ASSUME NEW p, pc # "create", OtherMineRetained(p), p = <<mgr'.bucket, mgr'.region>>
        PROVE  OtherMineRetained(<<mgr.bucket, mgr.region>>)'
    BY <2>1, FewerSteps DEF OtherMineRetained
  <2>2. CASE pc \in {"verify", "empty", "deleteBucket"} /\ UNCHANGED <<mgr, ret>>
    BY <1>2, <2>1, <2>2 DEF PlacesInv, CleanupInv
  <2>3. CASE /\ pc = "cleanup" /\ ret' = ret
             /\ mgr' = ManagerFor(CleanupTarget, app.status)
    <3>1. At(CleanupTarget) = <<mgr'.bucket, mgr'.region>>
      BY <2>3 DEF ManagerFor, At
    <3> QED BY <1>1, <1>2, <2>1, <2>3, <3>1
  <2> QED BY <1>2, <2>2, <2>3, CleanupSteps
<1>3. ASSUME pc' \in {"removeFinalizer", "clearStatus"},
             pc' = "removeFinalizer" \/ AlwaysRecorded
      PROVE  AllMineRetained'
  <2>1. CASE pc' = pc
    BY <1>3, <2>1, FewerSteps DEF PlacesInv, CleanupInv
  <2>2. CASE pc = "finalizer" /\ app.fin /\ NothingToClean(app)
    <3>1. app # Nil /\ app.spec = Nil /\ app.status = Nil
      BY <2>2 DEF TypeInv, WorkerOK, NothingToClean
    <3>2. RecordsHold
      BY <3>1 DEF PlacesInv, SpecInv, NeverRemoved
    <3>3. obj # Nil /\ obj.status = Nil
      BY <2>2, <3>1, <3>2 DEF AliveInv, RecordsInv, RecordInv, Untouched
    <3>4. AllMineRetained
      BY <2>2, <3>2, <3>3 DEF PlacesInv, MineRecorded
    <3> QED BY <2>2, <3>4, FewerSteps
  <2>3. CASE /\ pc = "cleanup" /\ pc' = CleanupDone /\ CleanupTarget.policy = "Retain"
             /\ retained' = retained \cup {At(CleanupTarget)}
    <3>1. \A b \in Buckets, r \in Regions : Mine(b, r) => <<b, r>> = At(CleanupTarget)
      BY <1>1, <1>3, <2>3 DEF CleanupDone
    <3> QED BY <2>3, <3>1, FewerSteps DEF AllMineRetained
  <2>4. CASE /\ pc = "deleteBucket" /\ pc' = CleanupDone /\ mgr' = mgr
             /\ Lookup(mgr.bucket, mgr.region) # "elsewhere"
             /\ cloud'[mgr.bucket][mgr.region] = Nil
    <3>1. OtherMineRetained(<<mgr.bucket, mgr.region>>)
      BY <1>3, <2>4 DEF CleanupDone, PlacesInv, CleanupInv
    <3>2. ASSUME NEW b \in Buckets, NEW r \in Regions, Mine(b, r)'
          PROVE  <<b, r>> \in retained'
      <4>1. ~(b = mgr.bucket /\ r = mgr.region)
        BY <2>4, <3>2 DEF Mine
      <4>2. Mine(b, r) /\ retained \subseteq retained'
        BY <2>4, <3>2, FewerSteps
      <4>3. mgr.bucket \in Buckets /\ mgr.region \in Regions
        BY <2>4 DEF TypeInv, TypeOK, WorkerOK, ManagerPoints, Manager
      <4>4. ~Meets(<<mgr.bucket, mgr.region>>, b, r)
        BY <2>4, <4>1, <4>2, <4>3, MetHere DEF Mine, PlacesInv
      <4> QED BY <3>1, <4>2, <4>4 DEF OtherMineRetained
    <3> QED BY <3>2 DEF AllMineRetained
  <2> QED BY <1>3, <2>1, <2>2, <2>3, <2>4, CleanupSteps
<1> QED BY <1>2, <1>3 DEF CleanupInv, AlwaysRecorded, RegionClear, InDefaultRegion

\* Records are made where a spec says.
LEMMA StatusPlaceStep ==
    ASSUME TypeInv, SpecInv, AlwaysRecorded, StatusPlaceInv, [Next]_vars PROVE StatusPlaceInv'
<1> DEFINE Placed(o) == o # Nil /\ o.status # Nil => \E s \in HereSpecs : RecordOf(o.status, s)
<1>1. Placed(obj) /\ Placed(cache) /\ Placed(app)
  BY DEF StatusPlaceInv
<1>2. ASSUME app # Nil, app.spec # Nil
      PROVE  /\ \E s \in HereSpecs : RecordOf(CreationRecord, s)
             /\ \E s \in HereSpecs : RecordOf(ReadyStatus, s)
  <2>1. app.spec \in HereSpecs
    BY <1>2 DEF SpecInv, HereSpecs
  <2>2. Provider = "AWS" \/ Resolved(app.spec.region) = DefaultRegion
    BY <2>1 DEF AlwaysRecorded, RegionClear, InDefaultRegion, HereSpecs
  <2>3. RecordOf(CreationRecord, app.spec) /\ RecordOf(ReadyStatus, app.spec)
    BY <2>2 DEF RecordOf, At, CreationRecord, ReadyStatus, Resolved
  <2> QED BY <2>1, <2>3
<1>3. ASSUME obj' # Nil PROVE Placed(obj')
  <2>1. obj # Nil /\ KeptStep
    BY <1>3, SpecSteps, KeptSteps
  <2>2. pc # "idle" => app # Nil
    BY DEF TypeInv, WorkerOK
  <2>3. pc = "record" => app.spec # Nil
    BY DEF TypeInv, WorkerOK
  <2> QED BY <1>1, <1>2, <1>3, <2>1, <2>2, <2>3 DEF KeptStep
<1>4. Placed(app')
  BY <1>1, <1>2, <1>3, CopyKeptSteps DEF CopyKept
<1>5. Placed(cache')
  BY <1>1, <1>3, CacheSteps DEF vars, api
<1> QED BY <1>3, <1>4, <1>5 DEF StatusPlaceInv

\* Only a reconcile that could not clear the record ends with a copy without one
\* of an object that had one.
LEMMA FailedEmptySteps ==
    ASSUME TypeInv, RecordsInv, [Next]_vars, obj' # Nil, pc' = "setFailed",
           app'.status = Nil, obj'.status # Nil, base'.status # Nil
    PROVE  /\ obj # Nil
           /\ \/ pc = "clearStatus"
              \/ pc = "setFailed" /\ app.status = Nil /\ obj.status # Nil /\ base.status # Nil
<1> USE DEF Goto
<1>0. obj # Nil
  BY SpecSteps
<1>1. pc \in Untouched => app.status = obj.status
  BY <1>0 DEF RecordsInv, RecordInv
<1>2. pc \in Provisioning \cup Recorded => (app.status = Nil => obj.status = Nil)
  BY <1>0 DEF RecordsInv, RecordInv
<1>3. CASE failStorageCleanup
  BY <1>0, <1>1, <1>3, WrittenFields DEF failStorageCleanup, Untouched, BestEffort,
     SnapshotStatusUpdate, Return
<1>4. CASE storageFailed
  BY <1>0, <1>4 DEF storageFailed, BestEffort, RetryStatusUpdate, Store
<1>5. CASE WorkerStep /\ ~failStorageCleanup /\ ~storageFailed
  BY <1>0, <1>5, EnterPoints DEF WorkerStep, Get, SetReconciling, handleFinalizer,
     finalizeApplication, BeginCleanup, CleanupDone, verifyOwnership, emptyBucket, deleteBucket,
     removeFinalizer, clearStatus, ensureStorageOwnershipID, headBucket, CreateBucket,
     recordBucketCreated, claimOrVerifyOwnership, tagAsOwned, configureBucket, recordReady,
     SetReady, SetFailed, worker, Return, StartProvisioning
<1>6. CASE BestEffortWriteFails
  BY <1>0, <1>1, <1>2, <1>6, FailedFields DEF BestEffortWriteFails, BeginCleanup,
     CleanupDone, Return, Untouched, Recorded
<1>7. CASE StatusWriteFails
  <2>1. CASE pc = "ready"
    <3>1. ReadyStatus # Nil /\ FailedWrite(ReadyStatus)
      BY <1>7, <2>1, RecordNotNil DEF StatusWriteFails, TypeInv, WorkerOK
    <3> QED BY <2>1, <3>1, FailedFields
  <2> QED BY <1>0, <1>7, <2>1 DEF StatusWriteFails
<1>8. CASE DesiredStateFails
  BY <1>0, <1>2, <1>8, EditedFields DEF DesiredStateFails, PatchOwnershipID, Return,
     Provisioning, Recorded
<1>9. CASE CallFailsOutright \/ CloudCallFails \/ Crash
  BY <1>9 DEF CallFailsOutright, CloudCallFails, Crash, Return
<1>10. CASE EnvironmentStep \/ UNCHANGED vars
  BY <1>0, <1>10, EnvironmentFields DEF vars, worker, api
<1> QED BY <1>3, <1>4, <1>5, <1>6, <1>7, <1>8, <1>9, <1>10
        DEF Next, FaultStep, EnvironmentStep, WorkerStep

\* With the record made, an empty one says that there is no bucket.
LEMMA MineRecordedStep ==
    ASSUME TypeInv, AliveInv, GuardInv, RecordsInv, PlacesInv, RecordsHold, [Next]_vars
    PROVE  MineRecorded'
<1>a. MineRecorded /\ CleanupInv /\ AlwaysRecorded
  BY DEF PlacesInv, RecordsHold
<1>1. ASSUME obj' # Nil, obj'.status = Nil, pc' # "record" PROVE AllMineRetained'
  <2>0. obj # Nil /\ KeptStep
    BY <1>1, SpecSteps, KeptSteps
  <2>1. CASE pc = "create"
    <3>1. obj.status = Nil /\ AllMineRetained
      <4>1. app.status = obj.status /\ obj'.status \in {obj.status, app.status}
        BY <1>1, <2>0, <2>1 DEF RecordsInv, RecordInv, Provisioning, KeptStep
      <4> QED BY <1>1, <1>a, <2>0, <2>1, <4>1 DEF MineRecorded
    <3>2. ASSUME NEW b \in Buckets, NEW r \in Regions, Mine(b, r)' PROVE Mine(b, r)
      BY <1>1, <1>a, <2>1, <3>2, MineSteps DEF Makes, AlwaysRecorded
    <3> QED BY <3>1, <3>2, FewerSteps DEF AllMineRetained
  <2>2. CASE pc = "record"
    <3>1. recordBucketCreated
      <4>1. ~FaultStep
        BY <1>a, <2>2 DEF FaultStep, CallFailsOutright, BestEffortWriteFails, CloudCallFails,
           StatusWriteFails, DesiredStateFails, Crash, Fault, AlwaysRecorded
      <4>2. ~EnvironmentStep /\ ~UNCHANGED vars
        BY <1>1, <2>2, EnvironmentFields DEF vars, worker
      <4>3. WorkerStep
        BY <4>1, <4>2 DEF Next, EnvironmentStep
      <4> QED BY <2>2, <4>3 DEF WorkerStep, Get, SetReconciling, handleFinalizer,
                 finalizeApplication, verifyOwnership, emptyBucket, deleteBucket,
                 failStorageCleanup, removeFinalizer, clearStatus, ensureStorageOwnershipID,
                 headBucket, CreateBucket, claimOrVerifyOwnership, tagAsOwned, configureBucket,
                 recordReady, storageFailed, SetReady, SetFailed
    <3>2. obj' = WithStatus(CreationRecord)
      BY <2>0, <3>1 DEF recordBucketCreated, RetryStatusUpdate, Store
    <3>3. CreationRecord # Nil
      BY <2>2, RecordNotNil DEF TypeInv, WorkerOK
    <3> QED BY <1>1, <2>0, <3>2, <3>3, WrittenFields
  <2>3. CASE pc \notin {"create", "record"}
    <3>1. AllMineRetained
      BY <1>1, <1>a, <2>0, <2>3, GivenUpSteps DEF MineRecorded, CleanupInv
    <3> QED BY <2>3, <3>1, FewerSteps
  <2> QED BY <2>1, <2>2, <2>3
<1>2. ASSUME obj' # Nil, pc' = "setFailed", app'.status = Nil, obj'.status # Nil, base'.status # Nil
      PROVE  AllMineRetained'
  <2>1. AllMineRetained /\ pc # "create"
    BY <1>2, <1>a, FailedEmptySteps DEF MineRecorded, CleanupInv
  <2> QED BY <2>1, FewerSteps
<1> QED BY <1>1, <1>2 DEF MineRecorded

\* The user keeps to one place; and a deletion knows the bucket, from the spec or
\* from a record that can be relied on.
Premises == SamePlace /\ (NeverRemoved \/ RecordsHold)

StorageInv == /\ TypeInv /\ GuardInv /\ RetInv /\ PlacesInv
              /\ Lag # "any" => AliveInv /\ RecordsInv

\* The whole invariant holds at first.
LEMMA StorageInit == Init => StorageInv
<1>1. Init => AliveInv
  BY DEF Init, AliveInv, EntryPoints
<1> QED BY <1>1, TypeInit, GuardInit, RecordsInit, PlacesInit DEF StorageInv, RecordsInv

\* Every step preserves it.
LEMMA StorageStep ==
    ASSUME Premises
    PROVE  StorageInv /\ [Next]_vars => StorageInv'
<1> SUFFICES ASSUME StorageInv, [Next]_vars PROVE StorageInv'
  OBVIOUS
<1>1. /\ TypeInv /\ GuardInv /\ RetInv
      /\ PlacesInv /\ SpecInv /\ DelInv /\ GlobalNames /\ PlaceInv
      /\ Lag # "any" => AliveInv /\ RecordsInv
  BY DEF StorageInv, PlacesInv
<1>2. TypeInv' /\ GuardInv' /\ RetInv' /\ (Lag # "any" => AliveInv' /\ RecordsInv')
  BY <1>1, TypeStep, GuardStep, RetInvStep, AliveStep, RecordsStep
<1>3. SpecInv' /\ DelInv' /\ GlobalNames' /\ PlaceInv'
  BY <1>1, SpecInvStep, DelInvStep, GlobalNamesStep, PlaceInvStep
<1>4. CleanupInv'
  BY <1>1, CleanupInvStep DEF Premises, RecordsHold
<1>5. Lag # "any" => NoOrphanAfterGone'
  BY <1>1, NoOrphanStep
<1>6. ASSUME AlwaysRecorded PROVE StatusPlaceInv'
  BY <1>1, <1>6, StatusPlaceStep DEF PlacesInv
<1>7. ASSUME RecordsHold PROVE MineRecorded'
  BY <1>1, <1>7, MineRecordedStep DEF RecordsHold
<1> QED BY <1>2, <1>3, <1>4, <1>5, <1>6, <1>7
        DEF StorageInv, PlacesInv, RecordsHold, AlwaysRecorded, RegionClear, InDefaultRegion

-----------------------------------------------------------------------------
(* What it is for. *)

\* In the step that takes the Application away no bucket of its is left but those
\* left behind under Retain, whatever failed on the way, wherever the operator
\* crashed, and, where the user never removes spec.storage, however old the
\* copies were that reconciles worked on (finalizeApplication,
\* recordBucketCreated).
THEOREM NoBucketOrphaned ==
    ASSUME Premises
    PROVE  Spec => LeavesNoneBehind
<1>1. StorageInv /\ [Next]_vars => [obj # Nil /\ obj' = Nil => AllMineRetained]_vars
  BY GoneSteps DEF StorageInv
<1> QED BY <1>1, StorageInit, StorageStep, PTL DEF Spec, LeavesNoneBehind

\* And none comes after it, if no reconcile starts on a copy older than the
\* operator's own last write: one from before the finalizer's removal makes the
\* operator create the bucket once more, and the cached read does not exclude it.
THEOREM NoBucketAfterGone ==
    ASSUME Premises, Lag # "any"
    PROVE  Spec => []NoOrphanAfterGone
<1>1. StorageInv => NoOrphanAfterGone
  BY DEF StorageInv, PlacesInv
<1> QED BY <1>1, StorageInit, StorageStep, PTL DEF Spec

MinePlaces == {p \in Buckets \X Regions : Mine(p[1], p[2])}

\* A finalizer stands for the buckets, or has, and a reconcile missed its removal.
Standing == Guarded /\ (Lag # "any" => obj # Nil)

\* The set of the operator's buckets changes by one bucket at most, and grows
\* only behind the finalizer.
LEMMA MinePlacesSteps ==
    ASSUME StorageInv, [Next]_vars
    PROVE  \/ MinePlaces' = MinePlaces
           \/ \E p \in Buckets \X Regions :
                /\ p \notin MinePlaces /\ MinePlaces' = MinePlaces \cup {p}
                /\ Standing /\ obj' = obj /\ retained' = retained
           \/ \E p \in Buckets \X Regions :
                p \in MinePlaces /\ MinePlaces' = MinePlaces \ {p} /\ cloud' # cloud
<1>0. TypeInv /\ cloud \in [Buckets -> [Regions -> Bucket \cup {Nil}]]
  BY DEF StorageInv, TypeInv, TypeOK
<1>1. CASE cloud' = cloud
  BY <1>1 DEF MinePlaces, Mine
<1>2. ASSUME NEW b \in Buckets, NEW r \in Regions, NEW v, cloud' = [cloud EXCEPT ![b][r] = v],
             cloud' # cloud
      PROVE  \/ MinePlaces' = MinePlaces
             \/ \E p \in Buckets \X Regions :
                  /\ p \notin MinePlaces /\ MinePlaces' = MinePlaces \cup {p}
                  /\ Standing /\ obj' = obj /\ retained' = retained
             \/ \E p \in Buckets \X Regions :
                  p \in MinePlaces /\ MinePlaces' = MinePlaces \ {p} /\ cloud' # cloud
  <2>1. ASSUME NEW p \in Buckets \X Regions, p # <<b, r>>
        PROVE  Mine(p[1], p[2])' <=> Mine(p[1], p[2])
    <3>1. cloud'[p[1]][p[2]] = cloud[p[1]][p[2]]
      BY <1>0, <1>2, <2>1
    <3> QED BY <3>1 DEF Mine
  <2>2. <<b, r>> \in Buckets \X Regions /\ <<b, r>>[1] = b /\ <<b, r>>[2] = r
    OBVIOUS
  <2>3. CASE Mine(b, r) <=> Mine(b, r)'
    <3>1. MinePlaces' = MinePlaces
      BY <2>1, <2>2, <2>3 DEF MinePlaces
    <3> QED BY <3>1
  <2>4. CASE ~Mine(b, r) /\ Mine(b, r)'
    <3>1. pc = "create" /\ Makes
      BY <1>0, <2>4, MineSteps
    <3>2. Standing /\ obj' = obj /\ retained' = retained
      BY <3>1 DEF Makes, api, StorageInv, AliveInv, GuardInv, Standing, EntryPoints
    <3>3. <<b, r>> \notin MinePlaces /\ MinePlaces' = MinePlaces \cup {<<b, r>>}
      BY <2>1, <2>2, <2>4 DEF MinePlaces
    <3> QED BY <2>2, <3>2, <3>3
  <2>5. CASE Mine(b, r) /\ ~Mine(b, r)'
    <3>1. <<b, r>> \in MinePlaces /\ MinePlaces' = MinePlaces \ {<<b, r>>}
      BY <2>1, <2>2, <2>5 DEF MinePlaces
    <3> QED BY <1>2, <2>2, <3>1
  <2> QED BY <2>3, <2>4, <2>5
<1> QED BY <1>0, <1>1, <1>2, OneBucketSteps

\* Every step of the reconcile loop is a step of the promise, or none.
LEMMA PromiseStep ==
    ASSUME StorageInv, [Next]_vars
    PROVE  [Promise!Next]_(Promise!vars)
<1>0. TypeInv /\ DelInv /\ (obj # Nil => obj \in Object)
  BY DEF StorageInv, PlacesInv, TypeInv, TypeOK
<1> USE DEF Promise!Next, Promise!vars
<1>1. ASSUME UNCHANGED <<cloud, retained>> PROVE MinePlaces' = MinePlaces /\ retained' = retained
  BY <1>1 DEF MinePlaces, Mine
<1>2. CASE Phase' # Phase
  <2>1. CASE /\ pc = "finalizer" /\ ~app.del /\ ~app.fin /\ base = obj /\ obj # Nil
             /\ obj' # Nil /\ obj'.del = obj.del /\ obj'.fin = TRUE
             /\ UNCHANGED <<cloud, retained>>
    <3>1. ~obj.del /\ ~obj.fin
      BY <1>0, <2>1 DEF DelInv, TypeInv, WorkerOK
    <3>2. Phase = "fresh" /\ Phase' = "guarded"
      BY <2>1, <3>1 DEF Phase
    <3> QED BY <1>1, <2>1, <3>2 DEF Promise!Guard, MinePlaces
  <2>2. CASE /\ obj # Nil /\ obj.del = FALSE /\ obj.fin
             /\ obj' # Nil /\ obj'.del = TRUE /\ obj'.fin = obj.fin
             /\ UNCHANGED <<pc, app, base, ret, cloud, retained>>
    <3>1. Phase = "guarded" /\ Phase' = "deleting"
      BY <2>2 DEF Phase
    <3> QED BY <1>1, <2>2, <3>1 DEF Promise!Delete, MinePlaces
  <2>3. CASE /\ obj # Nil /\ obj.del = FALSE /\ ~obj.fin /\ obj' = Nil
             /\ UNCHANGED <<pc, app, base, ret, cloud, retained>>
    <3>1. Phase = "fresh" /\ Phase' = "gone"
      BY <2>3 DEF Phase
    <3> QED BY <1>1, <2>3, <3>1 DEF Promise!Delete, MinePlaces
  <2>4. CASE /\ pc = "removeFinalizer" /\ base = obj /\ obj # Nil /\ obj' = Nil
             /\ pc' = "idle" /\ app' = Nil /\ ret' = "none" /\ UNCHANGED <<cloud, retained>>
    <3>1. obj.del
      BY <1>0, <2>4 DEF StorageInv, RetInv, DelInv
    <3>2. Phase = "deleting" /\ Phase' = "gone"
      BY <2>4, <3>1 DEF Phase
    <3>3. MinePlaces \subseteq retained
      BY <2>4 DEF StorageInv, PlacesInv, CleanupInv, AllMineRetained, MinePlaces
    <3> QED BY <1>1, <2>4, <3>2, <3>3 DEF Promise!Finish, MinePlaces
  <2> QED BY <1>0, <1>2, <2>1, <2>2, <2>3, <2>4, PhaseSteps DEF PhaseStep, Phase
<1>3. CASE Phase' = Phase /\ retained' # retained
  <2>1. PICK p \in Buckets \X Regions :
          pc = "cleanup" /\ cloud' = cloud /\ retained' = retained \cup {p}
    BY <1>0, <1>3, RetainedSteps
  <2>2. Promise!Guarded
    BY <2>1 DEF Phase, StorageInv, AliveInv, GuardInv, Guarded, EntryPoints, Promise!Guarded
  <2>3. MinePlaces' = MinePlaces
    BY <2>1 DEF MinePlaces, Mine
  <2> QED BY <1>3, <2>1, <2>2, <2>3 DEF Promise!Keep, MinePlaces
<1>4. CASE Phase' = Phase /\ retained' = retained
  <2>1. CASE MinePlaces' = MinePlaces
    BY <1>4, <2>1 DEF MinePlaces
  <2>2. ASSUME NEW p \in Buckets \X Regions, p \notin MinePlaces,
               MinePlaces' = MinePlaces \cup {p}, Standing
        PROVE  Promise!Next
    <3>1. Promise!Guarded
      BY <2>2 DEF Phase, Standing, Guarded, Promise!Guarded
    <3> QED BY <1>4, <2>2, <3>1 DEF Promise!Create, MinePlaces
  <2>3. ASSUME NEW p \in Buckets \X Regions, p \in MinePlaces, MinePlaces' = MinePlaces \ {p}
        PROVE  Promise!Next
    BY <1>4, <2>3 DEF Promise!Remove, MinePlaces
  <2> QED BY <2>1, <2>2, <2>3, MinePlacesSteps
<1> QED BY <1>2, <1>3, <1>4

\* The reconcile loop implements what the storage promises: a bucket is made only
\* behind a finalizer, and the Application goes only when each of its buckets has
\* gone or was left behind on purpose, for every provider, any number of buckets
\* and any number of failures; and, where the user never removes spec.storage,
\* however old the copies are that reconciles work on, with Late for those that
\* miss the object's end (handleFinalizer, finalizeApplication).
THEOREM StorageImplementsPromise ==
    ASSUME Premises
    PROVE  Spec => ImplementsPromise
<1>1. Init => Promise!Init
  <2> SUFFICES ASSUME Init PROVE Promise!Init
    OBVIOUS
  <2>1. PICK s \in SpecChoices :
          obj = [spec |-> s, status |-> Nil, fin |-> FALSE, del |-> FALSE,
                 cond |-> "NotReady", id |-> 0]
    BY DEF Init
  <2>2. obj \in Object
    BY <2>1, SpecAssumption DEF Object, Conditions
  <2>3. Phase = "fresh"
    BY <2>1, <2>2, NilAssumption DEF Phase
  <2> QED BY <2>3 DEF Promise!Init, Init, Mine
<1>2. StorageInv /\ [Next]_vars => [Promise!Next]_(Promise!vars)
  BY PromiseStep
<1> QED BY <1>1, <1>2, StorageInit, StorageStep, PTL DEF Spec, ImplementsPromise, Promise!Spec

-----------------------------------------------------------------------------
(* When a bucket was made.  Status.Storage.CreatedAt opens the window in   *)
(* which an untagged bucket is taken for one's own, so it must not be      *)
(* later than the creation it stands for.                                  *)

\* The identity as it is spelt.  An edit that spells out the default region makes
\* reconcileStorage clean up first, which under Retain ends with a tagged bucket
\* and no record of it.
OneIdentity ==
    \A s, t \in SpecChoices \ {Nil} : s.bucket = t.bucket /\ s.region = t.region

\* One identity is one place.
LEMMA OneIdentityPlace == OneIdentity => SamePlace
BY DEF OneIdentity, SamePlace, At

\* The bucket carries the Application's tag or marker.
Owned(b, r) == cloud[b][r] # Nil /\ cloud[b][r].owner = "me"

NoneOwned == \A b \in Buckets, r \in Regions : ~Owned(b, r)

\* Points at which the tag is read and written.
Claiming == {"claim", "tag", "configure"}

\* A record that is right about the time, and names the bucket of the spec: a
\* finished reconcile's also its region, the creation record none, and no policy.
Fits(st) ==
    /\ \E s \in HereSpecs : /\ st.bucket = s.bucket
                            /\ st.region = s.region \/ (st.region = "" /\ st.policy = "")
    /\ st.at <= madeAt[st.bucket]

FitInv == \A o \in {obj, cache, app} : o # Nil /\ o.status # Nil => Fits(o.status)

TimeInv ==
    /\ \A b \in Buckets : madeAt[b] <= now
    /\ pc = "record" => madeAt[mgr.bucket] = now

\* A tag is written where a spec says, on a record that is still on the object.
OwnedInv ==
    /\ \A b \in Buckets, r \in Regions : Owned(b, r) => \E s \in HereSpecs : <<b, r>> = At(s)
    /\ pc \in Claiming => \E s \in HereSpecs : <<mgr.bucket, mgr.region>> = At(s)
    /\ pc \in Claiming \cup {"ready"} => app.status = obj.status
    /\ pc = "tag" => previouslyCreatedByUs(app.status)
    /\ pc \in {"configure", "ready"} => app.status # Nil

\* The record goes only after every tagged bucket has gone: CreatedAt would start
\* anew on a bucket that is found tagged and not on record.
UntaggedInv ==
    /\ pc = "cleanup" /\ ret # "deletion" => app.status.policy # "Retain"
    /\ pc \in {"verify", "empty", "deleteBucket"} /\ ret # "deletion" =>
          \E s \in HereSpecs : Meets(<<mgr.bucket, mgr.region>>, s.bucket, Resolved(s.region))
    /\ pc = "clearStatus" => NoneOwned
    /\ obj # Nil /\ obj.status = Nil => NoneOwned
    /\ obj # Nil /\ pc = "setFailed" /\ app.status = Nil /\ obj.status # Nil =>
          base.status = Nil \/ NoneOwned

CreationInv == FitInv /\ TimeInv /\ OwnedInv /\ UntaggedInv

\* Replacing one bucket by none, or by one that is not tagged anew, claims nothing.
LEMMA ReplaceClaimsNothing ==
    ASSUME TypeInv, NEW b \in Buckets, NEW r \in Regions, NEW v,
           \/ v = Nil
           \/ v.owner # "me"
           \/ cloud[b][r] # Nil /\ v.owner = cloud[b][r].owner,
           cloud' = [cloud EXCEPT ![b][r] = v],
           NEW b2 \in Buckets, NEW r2 \in Regions, Owned(b2, r2)'
    PROVE  Owned(b2, r2)
<1>1. cloud \in [Buckets -> [Regions -> Bucket \cup {Nil}]]
  BY DEF TypeInv, TypeOK
<1>2. CASE b2 = b /\ r2 = r
  BY <1>1, <1>2 DEF Owned
<1>3. CASE ~(b2 = b /\ r2 = r)
  BY <1>1, <1>3 DEF Owned
<1> QED BY <1>2, <1>3

\* Only tagAsOwned tags a bucket.
LEMMA OwnedSteps ==
    ASSUME TypeInv, [Next]_vars, NEW b \in Buckets, NEW r \in Regions, Owned(b, r)'
    PROVE  \/ Owned(b, r)
           \/ pc = "tag" /\ UNCHANGED <<obj, app, mgr>> /\ b = mgr.bucket /\ r = mgr.region
<1> DEFINE Goal == \/ Owned(b, r)
                   \/ pc = "tag" /\ UNCHANGED <<obj, app, mgr>> /\ b = mgr.bucket /\ r = mgr.region
<1>1. ASSUME UNCHANGED cloud PROVE Goal
  BY <1>1 DEF Owned
<1>2. ASSUME pc \in ManagerPoints, NEW v, SetBucket(v),
             v = Nil \/ v.owner # "me" \/ (There # Nil /\ v.owner = There.owner)
      PROVE  Goal
  <2>1. mgr.bucket \in Buckets /\ mgr.region \in Regions
    BY <1>2 DEF TypeInv, TypeOK, WorkerOK, Manager
  <2> QED BY <1>2, <2>1, ReplaceClaimsNothing DEF SetBucket, There
<1>3. ASSUME pc \in ManagerPoints, There # Nil
      PROVE  /\ Emptied(There).owner \in {There.owner, "none"}
             /\ \A full : [Emptied(There) EXCEPT !.full = full].owner \in {There.owner, "none"}
  <2>1. There \in Bucket
    BY <1>3, ThereType
  <2> HIDE DEF There
  <2>2. Emptied(There) \in Bucket /\ Emptied(There).owner \in {There.owner, "none"}
    BY <2>1 DEF Emptied, Bucket
  <2>3. \A full : [Emptied(There) EXCEPT !.full = full].owner = Emptied(There).owner
    BY <2>2 DEF Bucket
  <2> QED BY <2>2, <2>3
<1>4. ASSUME NEW s \in StorageSpec, NEW k, MarkKept(s, k) PROVE Goal
  <2>1. s.bucket \in Buckets /\ s.region \in Regions \cup {""}
    BY DEF StorageSpec
  <2>2. Resolved(s.region) \in Regions
    BY <2>1, ResolvedType
  <2> DEFINE old == cloud[s.bucket][Resolved(s.region)]
             new == IF old = Nil THEN Nil ELSE [old EXCEPT !.kept = k]
  <2>3. old \in Bucket \cup {Nil}
    BY <2>1, <2>2 DEF TypeInv, TypeOK
  <2>4. new = Nil \/ (old # Nil /\ new.owner = old.owner)
    BY <2>3 DEF Bucket
  <2>5. cloud' = [cloud EXCEPT ![s.bucket][Resolved(s.region)] = new]
    BY <1>4 DEF MarkKept
  <2> HIDE DEF new
  <2> QED BY <2>1, <2>2, <2>4, <2>5, ReplaceClaimsNothing
<1>5. ASSUME pc = "create", MakeBucket PROVE Goal
  BY <1>2, <1>5 DEF MakeBucket, ManagerPoints
<1>6. ASSUME pc = "tag", PutOwner, UNCHANGED <<obj, app, mgr>> PROVE Goal
  <2>1. mgr.bucket \in Buckets /\ mgr.region \in Regions
    BY <1>6 DEF TypeInv, TypeOK, WorkerOK, ManagerPoints, Manager
  <2>2. cloud \in [Buckets -> [Regions -> Bucket \cup {Nil}]]
    BY DEF TypeInv, TypeOK
  <2>3. CASE ~(b = mgr.bucket /\ r = mgr.region)
    <3>1. cloud'[b][r] = cloud[b][r]
      BY <1>6, <2>1, <2>2, <2>3 DEF PutOwner, SetBucket
    <3> QED BY <3>1 DEF Owned
  <2> QED BY <1>6, <2>3
<1>7. CASE emptyBucket
  <2>1. pc = "empty" /\ (UNCHANGED cloud \/ (There # Nil /\ SetBucket(Emptied(There))))
    BY <1>7 DEF emptyBucket, Lookup, There
  <2> QED BY <1>1, <1>2, <1>3, <2>1 DEF ManagerPoints
<1>8. CASE deleteBucket
  BY <1>1, <1>2, <1>8 DEF deleteBucket, ManagerPoints
<1>9. CASE tagAsOwned \/ CreateBucket
  BY <1>1, <1>5, <1>6, <1>9 DEF tagAsOwned, CreateBucket, api
<1>10. CASE recordReady
  <2>1. CASE app.spec # Nil /\ MarkKept(app.spec, app.spec.policy = "Retain" /\ obj.spec = app.spec)
    <3>1. app.spec \in StorageSpec
      BY <1>10, <2>1 DEF recordReady, TypeInv, TypeOK, WorkerOK, Object
    <3> QED BY <1>4, <2>1, <3>1
  <2> QED BY <1>1, <1>10, <2>1 DEF recordReady
<1>11. CASE CloudCallFails
  <2>1. /\ pc \in ManagerPoints /\ (UNCHANGED cloud \/ LateEffect)
        /\ UNCHANGED <<obj, app, mgr>>
    BY <1>11 DEF CloudCallFails, ManagerPoints, api
  <2>2. CASE LateEffect /\ pc \notin {"create", "tag"}
    <3>1. There # Nil
      BY <2>2 DEF LateEffect
    <3>2. ASSUME NEW full, SetBucket([Emptied(There) EXCEPT !.full = full]) PROVE Goal
      BY <1>2, <1>3, <2>1, <3>1, <3>2
    <3> QED BY <1>2, <2>1, <2>2, <3>2 DEF LateEffect
  <2>3. CASE LateEffect /\ pc \in {"create", "tag"}
    BY <1>5, <1>6, <2>1, <2>3 DEF LateEffect
  <2> QED BY <1>1, <2>1, <2>2, <2>3
<1>12. CASE UserStep
  <2>1. ASSUME NEW s \in SpecChoices, UserEdit(s) PROVE Goal
    <3>1. CASE s # Nil /\ MarkKept(s, FALSE)
      BY <1>4, <3>1, SpecAssumption
    <3> QED BY <1>1, <2>1, <3>1 DEF UserEdit
  <2> QED BY <1>1, <1>12, <2>1 DEF UserStep, UserDelete
<1>13. CASE OutsideStep
  <2> PICK b2 \in Buckets, r2 \in Regions :
        OutsideDelete(b2, r2) \/ OutsideCreate(b2, r2) \/ WorkloadWrites(b2, r2)
    BY <1>13 DEF OutsideStep
  <2>1. CASE OutsideDelete(b2, r2)
    BY <2>1, ReplaceClaimsNothing DEF OutsideDelete, Outside
  <2>2. CASE OutsideCreate(b2, r2)
    BY <2>2, ReplaceClaimsNothing DEF OutsideCreate, Outside
  <2>3. CASE WorkloadWrites(b2, r2)
    <3>1. cloud[b2][r2] \in Bucket /\ cloud[b2][r2] # Nil
      BY <2>3 DEF WorkloadWrites, TypeInv, TypeOK
    <3>2. [cloud[b2][r2] EXCEPT !.full = TRUE].owner = cloud[b2][r2].owner
      BY <3>1 DEF Bucket
    <3> QED BY <2>3, <3>1, <3>2, ReplaceClaimsNothing DEF WorkloadWrites, Outside
  <2> QED BY <2>1, <2>2, <2>3
<1>14. CASE WorkerStep /\ ~emptyBucket /\ ~deleteBucket /\ ~tagAsOwned /\ ~recordReady
            /\ ~CreateBucket
  BY <1>1, <1>14 DEF WorkerStep, Get, SetReconciling, handleFinalizer, finalizeApplication,
     verifyOwnership, failStorageCleanup, removeFinalizer, clearStatus, ensureStorageOwnershipID,
     headBucket, recordBucketCreated, claimOrVerifyOwnership, configureBucket, storageFailed,
     SetReady, SetFailed
<1>15. CASE FaultStep /\ ~CloudCallFails
  BY <1>1, <1>15 DEF FaultStep, CallFailsOutright, BestEffortWriteFails, StatusWriteFails,
     DesiredStateFails, Crash
<1>16. CASE CacheSync \/ OwnedEvent \/ Tick \/ UNCHANGED vars
  BY <1>1, <1>16 DEF CacheSync, OwnedEvent, Tick, vars
<1> QED BY <1>7, <1>8, <1>9, <1>10, <1>11, <1>12, <1>13, <1>14, <1>15, <1>16 DEF Next, WorkerStep

\* The clock stands still during a reconcile, and dates what it makes.
LEMMA TimeSteps ==
    ASSUME TypeInv, [Next]_vars
    PROVE  /\ now' = now \/ (pc = "idle" /\ pc' = "idle" /\ now' = now + 1)
           /\ \/ madeAt' = madeAt
              \/ pc = "create" /\ mgr' = mgr /\ madeAt' = [madeAt EXCEPT ![mgr.bucket] = now]
<1> USE DEF Goto
<1>1. CASE CreateBucket
  BY <1>1 DEF CreateBucket, MakeBucket, counters
<1>2. CASE WorkerStep /\ ~CreateBucket
  BY <1>2, EnterPoints DEF WorkerStep, Get, SetReconciling, handleFinalizer, finalizeApplication,
     BeginCleanup, CleanupDone, verifyOwnership, emptyBucket, deleteBucket, failStorageCleanup,
     removeFinalizer, clearStatus, ensureStorageOwnershipID, headBucket, recordBucketCreated,
     claimOrVerifyOwnership, tagAsOwned, configureBucket, recordReady, storageFailed, SetReady,
     SetFailed, worker, history, counters, Return, StartProvisioning
<1>3. CASE FaultStep
  BY <1>3 DEF FaultStep, CallFailsOutright, BestEffortWriteFails, BeginCleanup, CleanupDone,
     CloudCallFails, LateEffect, MakeBucket, StatusWriteFails, DesiredStateFails, Crash, Return,
     history
<1>4. CASE Tick
  BY <1>4 DEF Tick, worker, history
<1>5. CASE CacheSync \/ OwnedEvent \/ UserStep \/ OutsideStep \/ UNCHANGED vars
  BY <1>5 DEF CacheSync, OwnedEvent, UserStep, UserEdit, UserDelete, OutsideStep, OutsideDelete,
     OutsideCreate, WorkloadWrites, Outside, vars, worker, history, counters
<1> QED BY <1>1, <1>2, <1>3, <1>4, <1>5 DEF Next

\* How a claim goes on.
LEMMA ClaimSteps ==
    ASSUME TypeInv, [Next]_vars, pc' \in Claiming \cup {"ready"}
    PROVE  \/ /\ pc' = pc /\ UNCHANGED <<app, mgr>>
              /\ obj' # Nil => obj # Nil /\ obj'.status = obj.status
           \/ pc = "head" /\ pc' = "claim" /\ UNCHANGED <<obj, app, mgr>>
           \/ pc = "record" /\ pc' = "claim" /\ app' = obj' /\ mgr' = mgr
           \/ /\ pc = "claim" /\ pc' = "tag" /\ UNCHANGED <<obj, app, mgr>>
              /\ previouslyCreatedByUs(app.status) \/ Adopt
           \/ /\ pc = "claim" /\ pc' = "configure" /\ UNCHANGED <<obj, app, mgr>>
              /\ There # Nil /\ There.owner = "me"
           \/ pc = "tag" /\ pc' = "configure" /\ UNCHANGED <<obj, app, mgr>>
           \/ pc = "configure" /\ pc' = "ready" /\ UNCHANGED <<obj, app, mgr>>
<1> USE DEF Goto, Claiming
<1>1. CASE headBucket \/ claimOrVerifyOwnership \/ tagAsOwned \/ configureBucket
  BY <1>1 DEF headBucket, claimOrVerifyOwnership, tagAsOwned, configureBucket, api
<1>2. CASE recordBucketCreated
  BY <1>2 DEF recordBucketCreated, RetryStatusUpdate, Store
<1>3. CASE WorkerStep /\ ~headBucket /\ ~claimOrVerifyOwnership /\ ~tagAsOwned /\ ~configureBucket
           /\ ~recordBucketCreated
  BY <1>3, EnterPoints DEF WorkerStep, Get, SetReconciling, handleFinalizer, finalizeApplication,
     BeginCleanup, CleanupDone, verifyOwnership, emptyBucket, deleteBucket, failStorageCleanup,
     removeFinalizer, clearStatus, ensureStorageOwnershipID, CreateBucket, recordReady,
     storageFailed, SetReady, SetFailed, worker, Return, StartProvisioning
<1>4. CASE FaultStep
  BY <1>4 DEF FaultStep, CallFailsOutright, BestEffortWriteFails, BeginCleanup, CleanupDone,
     CloudCallFails, StatusWriteFails, DesiredStateFails, Crash, Return
<1>5. CASE EnvironmentStep \/ UNCHANGED vars
  BY <1>5, EnvironmentFields DEF vars, worker, api
<1> QED BY <1>1, <1>2, <1>3, <1>4, <1>5 DEF Next, WorkerStep, EnvironmentStep

\* How a cleanup of a live Application's storage begins.
LEMMA ReplaceSteps ==
    ASSUME TypeInv, [Next]_vars, pc' = "cleanup", ret' # "deletion"
    PROVE  \/ pc = "cleanup" /\ UNCHANGED <<app, ret>>
           \/ /\ app' # Nil /\ app'.status # Nil
              /\ app'.spec # Nil => ~SameIdentity(app'.spec, app'.status)
<1> USE DEF Goto
<1>1. CASE handleFinalizer
  <2>0. pc = "finalizer" /\ app # Nil /\ base # Nil
    BY <1>1 DEF handleFinalizer, TypeInv, WorkerOK
  <2>1. CASE EnterStorage(app) /\ app' = app
    BY <2>0, <2>1 DEF EnterStorage, StartProvisioning
  <2>2. CASE EnterStorage(obj) /\ AttachFinalizer
    <3>1. obj # Nil /\ obj \in Object /\ app' = [obj EXCEPT !.fin = TRUE]
      BY <2>0, <2>2 DEF AttachFinalizer, Update, Store, TypeInv, TypeOK
    <3>2. app'.status = obj.status /\ app'.spec = obj.spec /\ app' \in Object
      BY <3>1 DEF Object
    <3> QED BY <2>2, <3>1, <3>2, NilAssumption DEF EnterStorage, StartProvisioning
  <2> QED BY <1>1, <2>0, <2>1, <2>2 DEF handleFinalizer, Return
<1>2. CASE WorkerStep /\ ~handleFinalizer
  BY <1>2 DEF WorkerStep, Get, SetReconciling, finalizeApplication,
     BeginCleanup, CleanupDone, verifyOwnership, emptyBucket, deleteBucket, failStorageCleanup,
     removeFinalizer, clearStatus, ensureStorageOwnershipID, headBucket, CreateBucket,
     recordBucketCreated, claimOrVerifyOwnership, tagAsOwned, configureBucket, recordReady,
     storageFailed, SetReady, SetFailed, worker, Return, StartProvisioning
<1>3. CASE FaultStep
  BY <1>3 DEF FaultStep, CallFailsOutright, BestEffortWriteFails, BeginCleanup, CleanupDone,
     CloudCallFails, StatusWriteFails, DesiredStateFails, Crash, Return
<1>4. CASE EnvironmentStep \/ UNCHANGED vars
  BY <1>4, EnvironmentFields DEF vars, worker
<1> QED BY <1>1, <1>2, <1>3, <1>4 DEF Next, WorkerStep, EnvironmentStep

\* The clock is never behind what it has dated.
LEMMA TimeInvStep ==
    ASSUME TypeInv, TimeInv, [Next]_vars
    PROVE  TimeInv' /\ \A b \in Buckets : madeAt[b] <= madeAt'[b]
<1>1. madeAt \in [Buckets -> Nat] /\ now \in Nat
  BY DEF TypeInv, TypeOK
<1>2. pc = "create" => mgr.bucket \in Buckets
  BY DEF TypeInv, TypeOK, WorkerOK, ManagerPoints, Manager
<1>3. \A b \in Buckets : madeAt[b] <= madeAt'[b] /\ madeAt'[b] <= now'
  BY <1>1, <1>2, TimeSteps DEF TimeInv
<1>4. (pc = "record" => madeAt[mgr.bucket] = now)'
  BY <1>1, <1>2, TimeSteps, CreatedSteps DEF TimeInv, Makes, MakeBucket
<1> QED BY <1>3, <1>4 DEF TimeInv

\* Records are right about the time: the creation record dates the creation, and
\* a finished reconcile goes on with the date it found.
LEMMA FitInvStep ==
    ASSUME TypeInv, OneIdentity, SpecInv, PlaceInv, CreationInv, [Next]_vars
    PROVE  FitInv'
<1> DEFINE Right(st) ==
             /\ \E s \in HereSpecs :
                  /\ st.bucket = s.bucket
                  /\ st.region = s.region \/ (st.region = "" /\ st.policy = "")
             /\ st.at <= madeAt'[st.bucket]
           FitsNow(o) == o # Nil /\ o.status # Nil => Right(o.status)
<1>0. FitInv /\ TimeInv /\ OwnedInv
  BY DEF CreationInv
<1>1. ASSUME NEW st \in StorageStatus, Fits(st) PROVE Right(st)
  <2>1. st.bucket \in Buckets /\ st.at \in Nat
    BY DEF StorageStatus
  <2>2. madeAt[st.bucket] <= madeAt'[st.bucket] /\ madeAt[st.bucket] \in Nat
    BY <1>0, <2>1, TimeInvStep DEF TypeInv, TypeOK
  <2>3. madeAt'[st.bucket] \in Nat
    BY <2>1, TypeStep DEF TypeInv, TypeOK
  <2>4. st.at <= madeAt[st.bucket]
    BY <1>1 DEF Fits
  <2>5. st.at <= madeAt'[st.bucket]
    BY <2>1, <2>2, <2>3, <2>4
  <2> QED BY <1>1, <2>5 DEF Fits
<1>2. ASSUME NEW o \in {obj, cache, app} PROVE FitsNow(o)
  <2>1. o # Nil /\ o.status # Nil => o.status \in StorageStatus
    BY DEF TypeInv, TypeOK, Object
  <2> QED BY <1>0, <1>1, <2>1 DEF FitInv
<1>3. ASSUME app # Nil, app.spec # Nil, pc = "record" PROVE Right(CreationRecord)
  <2>1. PICK s \in HereSpecs : <<mgr.bucket, mgr.region>> = At(s)
    BY <1>3 DEF PlaceInv, Provisioning
  <2>2. app.spec \in HereSpecs /\ app.spec.bucket = mgr.bucket
    BY <1>3, <2>1 DEF SpecInv, HereSpecs, OneIdentity, At
  <2>3. madeAt[mgr.bucket] = now /\ mgr.bucket \in Buckets
    BY <1>0, <1>3 DEF TimeInv, TypeInv, TypeOK, WorkerOK, ManagerPoints, Manager
  <2>4. now <= madeAt'[mgr.bucket]
    BY <1>0, <2>3, TimeInvStep
  <2> QED BY <2>2, <2>4 DEF CreationRecord
<1>4. ASSUME app # Nil, app.spec # Nil, pc = "ready" PROVE Right(ReadyStatus)
  <2>1. app.status # Nil
    BY <1>0, <1>4 DEF OwnedInv
  <2>2. PICK s \in HereSpecs : app.status.bucket = s.bucket
    BY <1>0, <1>4, <2>1 DEF FitInv, Fits
  <2>3. app.spec \in HereSpecs /\ app.spec.bucket = app.status.bucket
    BY <1>4, <2>2 DEF SpecInv, HereSpecs, OneIdentity
  <2>4. app.status.at <= madeAt'[app.status.bucket]
    BY <1>2, <1>4, <2>1
  <2> QED BY <2>1, <2>3, <2>4 DEF ReadyStatus
<1>5. ASSUME obj' # Nil PROVE FitsNow(obj')
  <2>1. obj # Nil /\ KeptStep
    BY <1>5, SpecSteps, KeptSteps
  <2>2. pc # "idle" => app # Nil
    BY DEF TypeInv, WorkerOK
  <2>3. pc = "record" => app.spec # Nil
    BY DEF TypeInv, WorkerOK
  <2>4. FitsNow(obj) /\ (app # Nil => FitsNow(app))
    BY <1>2
  <2> HIDE DEF Right
  <2> QED BY <1>3, <1>4, <1>5, <2>1, <2>2, <2>3, <2>4 DEF KeptStep
<1>6. FitsNow(app')
  <2>1. FitsNow(cache) /\ FitsNow(app) /\ FitsNow(obj')
    BY <1>2, <1>5
  <2> HIDE DEF Right
  <2> QED BY <1>3, <1>4, <2>1, CopyKeptSteps DEF CopyKept
<1>7. FitsNow(cache')
  BY <1>2, CacheSteps DEF vars, api
<1> QED BY <1>5, <1>6, <1>7 DEF FitInv, Fits

\* Tags are written where a spec says, on a record.
LEMMA OwnedInvStep ==
    ASSUME ~Adopt, TypeInv, AliveInv, AliveInv', RecordsInv, PlaceInv, CreationInv, [Next]_vars
    PROVE  OwnedInv'
<1>0. OwnedInv /\ UntaggedInv
  BY DEF CreationInv
<1>1. ASSUME NEW b \in Buckets, NEW r \in Regions, Owned(b, r)'
      PROVE  \E s \in HereSpecs : <<b, r>> = At(s)
  BY <1>0, <1>1, OwnedSteps DEF OwnedInv, Claiming
<1>2. ASSUME pc' \in Claiming
      PROVE  \E s \in HereSpecs : <<mgr'.bucket, mgr'.region>> = At(s)
  BY <1>0, <1>2, ClaimSteps DEF OwnedInv, PlaceInv, Claiming, Provisioning
<1>3. ASSUME pc' \in Claiming \cup {"ready"} PROVE app'.status = obj'.status
  <2>1. pc \in Claiming \cup {"ready", "head", "record"}
    BY <1>3, ClaimSteps DEF Claiming
  <2>2. obj # Nil /\ obj' # Nil
    BY <1>3, <2>1 DEF AliveInv, EntryPoints, Claiming
  <2>3. app.status = obj.status
    BY <1>0, <2>1, <2>2 DEF OwnedInv, RecordsInv, RecordInv, Provisioning
  <2> QED BY <1>3, <2>2, <2>3, ClaimSteps
<1>4. ASSUME pc' = "tag" PROVE previouslyCreatedByUs(app.status)'
  <2>1. pc \in {"claim", "tag"} /\ UNCHANGED <<app, mgr>> /\ previouslyCreatedByUs(app.status)
    BY <1>0, <1>4, ClaimSteps DEF Claiming, OwnedInv
  <2>2. now' = now
    BY <2>1, TimeSteps
  <2> QED BY <2>1, <2>2 DEF previouslyCreatedByUs
<1>5. ASSUME pc' \in {"configure", "ready"} PROVE app'.status # Nil
  <2>1. CASE pc = "claim" /\ There # Nil /\ There.owner = "me" /\ UNCHANGED app
    <3>1. mgr.bucket \in Buckets /\ mgr.region \in Regions
      BY <2>1 DEF TypeInv, TypeOK, WorkerOK, ManagerPoints, Manager
    <3>2. ~NoneOwned
      BY <2>1, <3>1 DEF NoneOwned, Owned, There
    <3>3. obj # Nil /\ obj.status # Nil
      BY <1>0, <2>1, <3>2 DEF UntaggedInv, AliveInv, EntryPoints
    <3> QED BY <1>0, <2>1, <3>3 DEF OwnedInv, Claiming
  <2>2. CASE pc \in {"tag", "configure", "ready"} /\ UNCHANGED app
    BY <1>0, <2>2 DEF OwnedInv, previouslyCreatedByUs
  <2> QED BY <1>5, <2>1, <2>2, ClaimSteps DEF Claiming
<1> QED BY <1>1, <1>2, <1>3, <1>4, <1>5 DEF OwnedInv

\* The record goes only after every tagged bucket has gone.
LEMMA UntaggedInvStep ==
    ASSUME OneIdentity, NeverRemoved, RegionClear, TypeInv, RecordsInv, AliveInv,
           GlobalNames, SpecInv, SpecInv', FitInv', CreationInv, [Next]_vars
    PROVE  UntaggedInv'
<1>0. FitInv /\ OwnedInv /\ UntaggedInv
  BY DEF CreationInv
<1>a. ASSUME pc # "tag", NoneOwned PROVE NoneOwned'
  BY <1>a, OwnedSteps DEF NoneOwned
<1>1. ASSUME pc' = "cleanup", ret' # "deletion" PROVE app'.status.policy # "Retain"
  <2>1. CASE pc = "cleanup" /\ UNCHANGED <<app, ret>>
    BY <1>0, <1>1, <2>1 DEF UntaggedInv
  <2>2. CASE /\ app' # Nil /\ app'.status # Nil
             /\ app'.spec # Nil => ~SameIdentity(app'.spec, app'.status)
    <3>1. app'.spec \in HereSpecs
      BY <2>2 DEF SpecInv, NeverRemoved, HereSpecs
    <3>2. PICK s \in HereSpecs :
            /\ app'.status.bucket = s.bucket
            /\ \/ app'.status.region = s.region
               \/ app'.status.region = "" /\ app'.status.policy = ""
      BY <2>2 DEF FitInv, Fits
    <3>3. s.bucket = app'.spec.bucket /\ s.region = app'.spec.region /\ app'.spec # Nil
      BY <3>1, <3>2 DEF OneIdentity, HereSpecs
    <3> QED BY <2>2, <3>2, <3>3 DEF SameIdentity
  <2> QED BY <1>1, <2>1, <2>2, ReplaceSteps
<1>2. ASSUME pc' \in {"verify", "empty", "deleteBucket"}, ret' # "deletion"
      PROVE  \E s \in HereSpecs : Meets(<<mgr'.bucket, mgr'.region>>, s.bucket, Resolved(s.region))
  <2>1. CASE pc \in {"verify", "empty", "deleteBucket"} /\ UNCHANGED <<mgr, ret>>
    BY <1>0, <1>2, <2>1 DEF UntaggedInv
  <2>2. CASE /\ pc = "cleanup" /\ ret' = ret
             /\ mgr' = ManagerFor(CleanupTarget, app.status)
    <3>1. app # Nil /\ app.status # Nil /\ mgr' = ManagerFor(app.status, app.status)
      BY <1>2, <2>2 DEF TypeInv, WorkerOK, CleanupTarget
    <3>2. PICK s \in HereSpecs : /\ app.status.bucket = s.bucket
                                 /\ app.status.region \in {s.region, ""}
      BY <1>0, <3>1 DEF FitInv, Fits
    <3>3. Provider = "AWS" \/ Resolved(app.status.region) = Resolved(s.region)
      BY <3>2 DEF RegionClear, InDefaultRegion, HereSpecs, Resolved
    <3>4. Meets(<<mgr'.bucket, mgr'.region>>, s.bucket, Resolved(s.region))
      BY <3>1, <3>2, <3>3 DEF ManagerFor, Meets
    <3> QED BY <3>4
  <2> QED BY <1>2, <2>1, <2>2, CleanupSteps
<1>3. ASSUME pc' = "clearStatus" PROVE NoneOwned'
  <2>1. CASE pc' = pc
    BY <1>0, <1>3, <1>a, <2>1 DEF UntaggedInv
  <2>2. CASE pc = "cleanup" /\ pc' = CleanupDone /\ CleanupTarget.policy = "Retain"
    BY <1>0, <1>3, <2>2 DEF CleanupDone, CleanupTarget, UntaggedInv
  <2>3. CASE /\ pc = "deleteBucket" /\ pc' = CleanupDone /\ mgr' = mgr
             /\ Lookup(mgr.bucket, mgr.region) # "elsewhere"
             /\ cloud'[mgr.bucket][mgr.region] = Nil
    <3>1. PICK s \in HereSpecs : Meets(<<mgr.bucket, mgr.region>>, s.bucket, Resolved(s.region))
      BY <1>0, <1>3, <2>3 DEF CleanupDone, UntaggedInv
    <3>2. ASSUME NEW b \in Buckets, NEW r \in Regions, Owned(b, r)' PROVE FALSE
      <4>1. Owned(b, r)
        BY <2>3, <3>2, OwnedSteps
      <4>2. PICK t \in HereSpecs : <<b, r>> = At(t)
        BY <1>0, <4>1 DEF OwnedInv
      <4>3. Meets(<<mgr.bucket, mgr.region>>, b, r)
        BY <3>1, <4>2, OneIdentityPlace, OnePlace DEF At
      <4>4. mgr.bucket \in Buckets /\ mgr.region \in Regions
        BY <2>3 DEF TypeInv, TypeOK, WorkerOK, ManagerPoints, Manager
      <4>5. b = mgr.bucket /\ r = mgr.region
        BY <2>3, <4>1, <4>3, <4>4, MetHere DEF Owned
      <4> QED BY <2>3, <3>2, <4>5 DEF Owned
    <3> QED BY <3>2 DEF NoneOwned
  <2> QED BY <1>3, <2>1, <2>2, <2>3, CleanupSteps
<1>4. ASSUME obj' # Nil, obj'.status = Nil PROVE NoneOwned'
  <2>1. obj # Nil
    BY <1>4, SpecSteps
  <2>2. CASE obj.status = Nil
    <3>1. pc # "tag"
      BY <1>0, <2>2 DEF OwnedInv, Claiming, previouslyCreatedByUs
    <3> QED BY <1>0, <1>a, <2>1, <2>2, <3>1 DEF UntaggedInv
  <2>3. CASE obj.status # Nil
    <3>1. pc \in {"clearStatus", "setFailed"} /\ NoneOwned
      BY <1>0, <1>4, <2>1, <2>3, GivenUpSteps DEF UntaggedInv
    <3> QED BY <1>a, <3>1
  <2> QED BY <2>2, <2>3
<1>5. ASSUME obj' # Nil, pc' = "setFailed", app'.status = Nil, obj'.status # Nil, base'.status # Nil
      PROVE  NoneOwned'
  <2>1. pc \in {"clearStatus", "setFailed"} /\ NoneOwned
    BY <1>0, <1>5, FailedEmptySteps DEF UntaggedInv
  <2> QED BY <1>a, <2>1
<1> QED BY <1>1, <1>2, <1>3, <1>4, <1>5 DEF UntaggedInv

\* The premises under which CreatedAt is right: no reconcile starts on a copy
\* older than the operator's own last write, nobody asked for an adoption, the
\* user keeps to one bucket, spelt one way, and does not remove it, and a record
\* without a region is not taken for another bucket's.
CreationPremises ==
    Lag # "any" /\ ~Adopt /\ OneIdentity /\ NeverRemoved /\ RegionClear

DatedInv == StorageInv /\ CreationInv

\* Nothing is on record and nothing is tagged at first.
LEMMA DatedInit == Init => DatedInv
<1> SUFFICES ASSUME Init PROVE CreationInv
  BY StorageInit DEF DatedInv
<1>1. PICK s \in SpecChoices :
        obj = [spec |-> s, status |-> Nil, fin |-> FALSE, del |-> FALSE,
               cond |-> "NotReady", id |-> 0]
  BY DEF Init
<1>2. obj.status = Nil /\ cache = obj /\ app = Nil /\ pc = "idle"
  BY <1>1 DEF Init
<1>3. NoneOwned
  BY DEF Init, NoneOwned, Owned
<1>4. TimeInv
  BY DEF Init, TimeInv
<1> QED BY <1>2, <1>3, <1>4
        DEF CreationInv, FitInv, OwnedInv, UntaggedInv, NoneOwned, Claiming

\* Every step preserves it all.
LEMMA DatedStep ==
    ASSUME CreationPremises
    PROVE  DatedInv /\ [Next]_vars => DatedInv'
<1> SUFFICES ASSUME DatedInv, [Next]_vars PROVE DatedInv'
  OBVIOUS
<1>1. StorageInv /\ CreationInv /\ StorageInv'
  BY StorageStep, OneIdentityPlace DEF DatedInv, CreationPremises, Premises
<1>2. /\ TypeInv /\ AliveInv /\ RecordsInv /\ SpecInv /\ GlobalNames /\ PlaceInv /\ TimeInv
      /\ AliveInv' /\ SpecInv'
  BY <1>1 DEF StorageInv, PlacesInv, CreationInv, CreationPremises
<1>3. FitInv' /\ TimeInv'
  BY <1>1, <1>2, FitInvStep, TimeInvStep DEF CreationPremises
<1>4. OwnedInv' /\ UntaggedInv'
  BY <1>1, <1>2, <1>3, OwnedInvStep, UntaggedInvStep DEF CreationPremises
<1> QED BY <1>1, <1>3, <1>4 DEF DatedInv, CreationInv

\* CreatedAt is never later than the last creation of a bucket of that name: no
\* failure, and no reconcile that finds the bucket tagged, extends the window in
\* which an untagged bucket is taken for one's own (recordBucketCreated,
\* reconcileStorage's final status).  The cached read does not guarantee the
\* premise about copies, and it is needed: one without the record renews the time.
THEOREM CreatedAtIsHonest ==
    ASSUME CreationPremises
    PROVE  Spec => []CreatedAtHonest
<1>1. DatedInv => CreatedAtHonest
  BY DEF DatedInv, CreationInv, FitInv, Fits, CreatedAtHonest
<1> QED BY <1>1, DatedInit, DatedStep, PTL DEF Spec

\* A bucket somebody else made is tagged as one's own only if the operator has
\* created that name within the window: the claim rests on a CreatedAt that is
\* right, and so on the same premises (claimOrVerifyOwnership,
\* previouslyCreatedByUs).
THEOREM ClaimsRestOnCreation ==
    ASSUME CreationPremises
    PROVE  Spec => []ClaimsBackedByCreation
<1>1. ASSUME DatedInv PROVE ClaimsBackedByCreation
  <2> SUFFICES ASSUME pc = "tag" PROVE madeAt[mgr.bucket] = now
    BY DEF ClaimsBackedByCreation
  <2>1. TypeInv /\ FitInv /\ TimeInv /\ OwnedInv
    BY <1>1 DEF DatedInv, StorageInv, CreationInv
  <2>2. app # Nil /\ mgr.bucket \in Buckets /\ madeAt \in [Buckets -> Nat] /\ now \in Nat
    BY <2>1 DEF TypeInv, TypeOK, WorkerOK, ManagerPoints, Manager
  <2>3. app.status # Nil /\ app.status.bucket = mgr.bucket /\ app.status.at = now
    BY <2>1 DEF OwnedInv, previouslyCreatedByUs
  <2>4. now <= madeAt[mgr.bucket] /\ madeAt[mgr.bucket] <= now
    BY <2>1, <2>2, <2>3 DEF FitInv, Fits, TimeInv
  <2> QED BY <2>2, <2>4
<1>2. DatedInv => ClaimsBackedByCreation
  BY <1>1
<1> QED BY <1>2, DatedInit, DatedStep, PTL DEF Spec

=============================================================================

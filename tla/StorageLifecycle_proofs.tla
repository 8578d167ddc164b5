----------------------- MODULE StorageLifecycle_proofs -----------------------
(***************************************************************************)
(* Proofs about StorageLifecycle, for every provider, every set of buckets *)
(* and regions, and every bound.                                           *)
(***************************************************************************)
EXTENDS StorageLifecycle, TLAPS

\* Points at which a storage manager is in use.
ManagerPoints == {"verify", "empty", "deleteBucket", "ownershipID", "head", "create", "record",
                  "claim", "tag", "configure"}

\* What the worker holds at each point.  TypeOK alone is not inductive: its
\* steps dereference the in-memory copy, the manager and what they clean up.
WorkerOK ==
    /\ pc # "idle" => app # Nil /\ base # Nil
    /\ pc \in ManagerPoints => mgr # Nil
    /\ pc \in {"ownershipID", "head", "create", "record"} => app.spec # Nil
    /\ pc = "cleanup" =>
         /\ ret = "deletion" => app.spec # Nil \/ app.status # Nil
         /\ ret # "deletion" => app.status # Nil
    /\ pc \in {"cleanup", "verify", "empty", "deleteBucket", "clearStatus"} => ret # "none"
    /\ pc = "clearStatus" => ret # "deletion"

TypeInv == TypeOK /\ WorkerOK

Statuses == StorageStatus \cup {Nil}

CloudType == [Buckets -> [Regions -> Bucket \cup {Nil}]]

-----------------------------------------------------------------------------
(* What the helpers return. *)

\* An unset region resolves to one of the provider's regions.
LEMMA ResolvedType ==
    ASSUME NEW r \in Regions \cup {""}
    PROVE  Resolved(r) \in Regions
BY RegionAssumption DEF Resolved

\* A manager built from a spec or a status is well formed.
LEMMA ManagerType ==
    ASSUME NEW s \in StorageSpec \cup StorageStatus, NEW st \in Statuses
    PROVE  ManagerFor(s, st) \in Manager
<1>1. s.bucket \in Buckets /\ s.region \in Regions \cup {""}
  BY DEF StorageSpec, StorageStatus
<1>2. Resolved(s.region) \in Regions
  BY <1>1, ResolvedType
<1> QED BY <1>1, <1>2 DEF ManagerFor, Manager, Statuses

\* Replacing one bucket keeps the cloud well formed.
LEMMA CloudUpdate ==
    ASSUME NEW c \in CloudType, NEW b \in Buckets, NEW r \in Regions,
           NEW v \in Bucket \cup {Nil}
    PROVE  [c EXCEPT ![b][r] = v] \in CloudType
BY DEF CloudType

\* Replacing the status and the conditions keeps an object well formed.
LEMMA ObjectUpdate ==
    ASSUME NEW o \in Object, NEW st \in Statuses, NEW c \in Conditions
    PROVE  /\ [o EXCEPT !.status = st, !.cond = c] \in Object
           /\ [o EXCEPT !.cond = c] \in Object
           /\ [o EXCEPT !.status = st] \in Object
           /\ [o EXCEPT !.fin = TRUE] \in Object
           /\ \A i \in OwnershipIDs : [o EXCEPT !.id = i] \in Object
           /\ [o EXCEPT !.status = st, !.cond = c].spec = o.spec
           /\ [o EXCEPT !.cond = c].spec = o.spec
BY DEF Object, Statuses

\* Conditions stay conditions when they are stamped.
LEMMA StampType ==
    ASSUME NEW c \in Conditions PROVE Stamp(c) \in Conditions
BY DEF Stamp, Conditions

\* The two status writers store a well-formed object.
LEMMA WrittenType ==
    ASSUME TypeInv, pc # "idle", obj # Nil,
           NEW st \in Statuses, NEW c \in Conditions
    PROVE  /\ WithStatus(st) \in Object
           /\ WithStatus(st).spec = obj.spec
           /\ WithConditions(c) \in Object
           /\ WithConditions(c).spec = obj.spec
<1>1. obj \in Object /\ app \in Object
  BY DEF TypeInv, TypeOK, WorkerOK
<1>2. app.status \in Statuses /\ app.cond \in Conditions
  BY <1>1 DEF Object, Statuses
<1>3. Stamp(app.cond) \in Conditions /\ Stamp(c) \in Conditions
  BY <1>2, StampType
<1>4. WithStatus(st) \in Object /\ WithStatus(st).spec = obj.spec
  BY <1>1, <1>3, ObjectUpdate DEF WithStatus
<1>5. WithConditions(c) \in Object /\ WithConditions(c).spec = obj.spec
  BY <1>1, <1>2, <1>3, ObjectUpdate DEF WithConditions
<1> QED BY <1>4, <1>5

\* The records the worker writes are well-formed statuses.
LEMMA RecordsType ==
    ASSUME TypeInv, app # Nil, app.spec # Nil
    PROVE  CreationRecord \in Statuses /\ ReadyStatus \in Statuses
<1>1. app \in Object /\ app.spec \in StorageSpec /\ app.status \in Statuses
  BY DEF TypeInv, TypeOK, Object, Statuses
<1>2. app.status # Nil => app.status.at \in Nat
  BY <1>1 DEF Statuses, StorageStatus
<1>3. now \in Nat
  BY DEF TypeInv, TypeOK
<1> QED BY <1>1, <1>2, <1>3 DEF CreationRecord, ReadyStatus, Statuses, StorageSpec, StorageStatus, Policies

\* What a cleanup works on names a bucket and a region.
LEMMA TargetType ==
    ASSUME TypeInv, pc = "cleanup"
    PROVE  /\ CleanupTarget \in StorageSpec \cup StorageStatus
           /\ <<CleanupTarget.bucket, Resolved(CleanupTarget.region)>> \in Buckets \X Regions
           /\ ManagerFor(CleanupTarget, app.status) \in Manager
<1>1. app \in Object /\ app.spec \in StorageSpec \cup {Nil} /\ app.status \in Statuses
  BY DEF TypeInv, TypeOK, WorkerOK, Object, Statuses
<1>2. CleanupTarget \in StorageSpec \cup StorageStatus
  BY <1>1 DEF TypeInv, WorkerOK, CleanupTarget, Statuses
<1>3. CleanupTarget.bucket \in Buckets /\ CleanupTarget.region \in Regions \cup {""}
  BY <1>2 DEF StorageSpec, StorageStatus
<1>4. Resolved(CleanupTarget.region) \in Regions
  BY <1>3, ResolvedType
<1> QED BY <1>1, <1>2, <1>3, <1>4, ManagerType

\* A bucket the worker replaces is one of the provider's.
LEMMA SetBucketType ==
    ASSUME TypeInv, pc \in ManagerPoints, NEW v \in Bucket \cup {Nil}, SetBucket(v)
    PROVE  cloud' \in CloudType
<1>1. mgr \in Manager /\ cloud \in CloudType
  BY DEF TypeInv, TypeOK, WorkerOK, CloudType
<1>2. mgr.bucket \in Buckets /\ mgr.region \in Regions
  BY <1>1 DEF Manager
<1> QED BY <1>1, <1>2, CloudUpdate DEF SetBucket

\* So is the bucket it looks at.
LEMMA ThereType ==
    ASSUME TypeInv, pc \in ManagerPoints
    PROVE  There \in Bucket \cup {Nil}
<1>1. mgr \in Manager /\ cloud \in CloudType
  BY DEF TypeInv, TypeOK, WorkerOK, CloudType
<1>2. mgr.bucket \in Buckets /\ mgr.region \in Regions
  BY <1>1 DEF Manager
<1> QED BY <1>1, <1>2 DEF There, CloudType

\* Marking a bucket as kept changes nothing else about it.
LEMMA MarkKeptType ==
    ASSUME TypeInv, NEW s \in StorageSpec, NEW k \in BOOLEAN, MarkKept(s, k)
    PROVE  cloud' \in CloudType
<1>1. s.bucket \in Buckets /\ s.region \in Regions \cup {""}
  BY DEF StorageSpec
<1>2. Resolved(s.region) \in Regions
  BY <1>1, ResolvedType
<1> DEFINE old == cloud[s.bucket][Resolved(s.region)]
           new == IF old = Nil THEN Nil ELSE [old EXCEPT !.kept = k]
<1>3. cloud \in CloudType
  BY DEF TypeInv, TypeOK, CloudType
<1>4. old \in Bucket \cup {Nil}
  BY <1>1, <1>2, <1>3 DEF CloudType
<1>5. new \in Bucket \cup {Nil}
  BY <1>4 DEF Bucket
<1>6. cloud' = [cloud EXCEPT ![s.bucket][Resolved(s.region)] = new]
  BY DEF MarkKept
<1> HIDE DEF new, old
<1> QED BY <1>1, <1>2, <1>3, <1>5, <1>6, CloudUpdate

\* Reconcile's return leaves nothing in the worker's hands.
LEMMA ReturnOK ==
    ASSUME TypeInv, NEW requeue \in BOOLEAN, Return(requeue)
    PROVE  /\ pc' \in PCs /\ app' \in Object \cup {Nil} /\ base' \in Object \cup {Nil}
           /\ mgr' \in Manager \cup {Nil} /\ ret' \in {"none", "deletion", "removed", "replaced"}
           /\ queued' \in BOOLEAN
           /\ WorkerOK'
BY DEF TypeInv, TypeOK, Return, WorkerOK, PCs, ManagerPoints

-----------------------------------------------------------------------------
(* TypeInv is inductive. *)

\* Init establishes it.
LEMMA TypeInit == Init => TypeInv
<1> SUFFICES ASSUME Init PROVE TypeInv
  OBVIOUS
<1>1. PICK s \in SpecChoices :
        obj = [spec |-> s, status |-> Nil, fin |-> FALSE, del |-> FALSE,
               cond |-> "NotReady", id |-> 0]
  BY DEF Init
<1>2. s \in StorageSpec \cup {Nil}
  BY SpecAssumption
<1>3. obj \in Object
  BY <1>1, <1>2 DEF Object, Conditions
<1>4. cloud \in [Buckets -> [Regions -> Bucket \cup {Nil}]]
  BY DEF Init
<1>5. madeAt \in [Buckets -> Nat]
  BY DEF Init
<1> QED BY <1>3, <1>4, <1>5 DEF Init, TypeInv, TypeOK, WorkerOK, PCs, ManagerPoints

\* The steps up to the storage decision preserve it.
LEMMA TypeEntry ==
    ASSUME TypeInv, Get \/ SetReconciling \/ handleFinalizer
    PROVE  TypeInv'
<1>1. CASE Get
  BY <1>1 DEF TypeInv, TypeOK, WorkerOK, Get, worker, history, counters, Goto, PCs, ManagerPoints
<1>2. CASE SetReconciling
  <2> pc # "idle"
    BY <1>2 DEF SetReconciling
  <2> USE <1>2 DEF SetReconciling, history, counters
  <2>1. CASE Return(TRUE) /\ UNCHANGED obj
    BY <2>1, ReturnOK DEF TypeInv, TypeOK
  <2>2. CASE app.cond = "Reconciling" /\ UNCHANGED <<obj, app, base>> /\ Goto("finalizer")
             /\ UNCHANGED <<queued, mgr, ret>>
    BY <2>2 DEF TypeInv, TypeOK, WorkerOK, Goto, PCs, ManagerPoints
  <2>3. CASE UpdateStatus("Reconciling") /\ Goto("finalizer") /\ UNCHANGED <<queued, mgr, ret>>
    <3>1. obj # Nil /\ WithConditions("Reconciling") \in Object
      BY <2>3, WrittenType DEF UpdateStatus, Conditions, Statuses
    <3>2. obj' \in Object /\ app' = obj' /\ base' = obj'
      BY <2>3, <3>1 DEF UpdateStatus, Store
    <3> QED BY <2>3, <3>2, NilAssumption DEF TypeInv, TypeOK, WorkerOK, Goto, PCs, ManagerPoints
  <2> QED BY <2>1, <2>2, <2>3
<1>3. CASE handleFinalizer
  <2> USE <1>3 DEF history, counters
  <2> pc = "finalizer" /\ app \in Object /\ base \in Object /\ UNCHANGED <<cache, cloud, history, counters>>
    BY DEF handleFinalizer, TypeInv, TypeOK, WorkerOK
  <2>1. CASE /\ app.del /\ app.fin
             /\ IF NothingToClean(app) THEN Goto("removeFinalizer") ELSE Goto("cleanup")
             /\ ret' = "deletion" /\ UNCHANGED <<obj, queued, app, base, mgr>>
    BY <2>1 DEF TypeInv, TypeOK, WorkerOK, Goto, NothingToClean, PCs, ManagerPoints
  <2>2. CASE (Return(FALSE) \/ Return(TRUE)) /\ UNCHANGED obj
    BY <2>2, ReturnOK DEF TypeInv, TypeOK
  <2>3. ASSUME NEW a \in Object, EnterStorage(a), app' = a, base' \in Object,
               obj' \in Object \cup {Nil}, UNCHANGED queued
        PROVE  TypeInv'
    <3>1. a.spec \in StorageSpec \cup {Nil} /\ a.status \in Statuses
      BY DEF Object, Statuses
    <3>2. CASE a.spec = Nil
      BY <2>3, <3>1, <3>2, NilAssumption DEF EnterStorage, TypeInv, TypeOK, WorkerOK, Goto, PCs, ManagerPoints
    <3>3. CASE a.spec # Nil /\ a.status # Nil /\ ~SameIdentity(a.spec, a.status)
      BY <2>3, <3>1, <3>3, NilAssumption DEF EnterStorage, TypeInv, TypeOK, WorkerOK, Goto, PCs, ManagerPoints
    <3>4. CASE a.spec # Nil /\ ~(a.status # Nil /\ ~SameIdentity(a.spec, a.status))
      <4>1. ManagerFor(a.spec, Nil) \in Manager
        BY <3>1, <3>4, ManagerType DEF Statuses
      <4> HIDE DEF ManagerFor
      <4> QED BY <2>3, <3>1, <3>4, <4>1, NilAssumption
              DEF EnterStorage, StartProvisioning, TypeInv, TypeOK, WorkerOK, Goto, PCs, ManagerPoints
    <3> QED BY <3>2, <3>3, <3>4
  <2>4. CASE EnterStorage(app) /\ UNCHANGED <<obj, queued, app, base>>
    BY <2>3, <2>4 DEF TypeInv, TypeOK
  <2>5. CASE AttachFinalizer /\ EnterStorage(obj) /\ UNCHANGED queued
    <3>1. obj \in Object /\ obj' = [obj EXCEPT !.fin = TRUE] /\ app' = obj' /\ base' = obj'
      BY <2>5 DEF AttachFinalizer, Update, Store
    <3>2. obj' \in Object /\ obj'.spec = obj.spec /\ obj'.status = obj.status /\ obj'.id = obj.id
      BY <3>1 DEF Object
    <3>3. EnterStorage(obj')
      BY <2>5, <3>2 DEF EnterStorage, StartProvisioning, Goto
    <3> QED BY <2>3, <2>5, <3>1, <3>2, <3>3
  <2> QED BY <2>1, <2>2, <2>4, <2>5 DEF handleFinalizer
<1> QED BY <1>1, <1>2, <1>3

\* The policy decision leads to a well-formed manager or to the end.
LEMMA TypeBeginCleanup ==
    ASSUME TypeInv, pc = "cleanup", BeginCleanup, UNCHANGED ret,
           app' \in Object, base' \in Object
    PROVE  /\ pc' \in PCs /\ mgr' \in Manager \cup {Nil}
           /\ retained' \subseteq Buckets \X Regions
           /\ WorkerOK'
<1>1. /\ <<CleanupTarget.bucket, Resolved(CleanupTarget.region)>> \in Buckets \X Regions
      /\ ManagerFor(CleanupTarget, app.status) \in Manager
  BY TargetType
<1>2. mgr \in Manager \cup {Nil} /\ retained \subseteq Buckets \X Regions
  BY DEF TypeInv, TypeOK
<1> ret # "none"
  BY DEF TypeInv, WorkerOK
<1>3. CASE CleanupTarget.policy = "Retain"
  <2>1. /\ pc' \in {"removeFinalizer", "clearStatus"} /\ mgr' = mgr
        /\ pc' = "clearStatus" => ret # "deletion"
    BY <1>3 DEF BeginCleanup, Goto, CleanupDone
  <2>2. retained' \subseteq Buckets \X Regions
    BY <1>1, <1>2, <1>3 DEF BeginCleanup
  <2> QED BY <1>2, <2>1, <2>2, NilAssumption DEF WorkerOK, PCs, ManagerPoints
<1>4. CASE CleanupTarget.policy # "Retain"
  <2>1. pc' = "verify" /\ mgr' \in Manager /\ retained' = retained
    BY <1>1, <1>4 DEF BeginCleanup, Goto
  <2> QED BY <1>2, <2>1, NilAssumption DEF WorkerOK, PCs, ManagerPoints
<1> QED BY <1>3, <1>4

\* A retried status write leaves well-formed objects behind.
LEMMA TypeRetry ==
    ASSUME TypeInv, pc # "idle", NEW st \in Statuses, RetryStatusUpdate(st)
    PROVE  obj' \in Object /\ app' = obj' /\ base' = obj' /\ obj'.spec = obj.spec
<1>1. obj # Nil
  BY DEF RetryStatusUpdate, Writable
<1>2. WithStatus(st) \in Object /\ WithStatus(st).spec = obj.spec
  BY <1>1, WrittenType DEF Conditions
<1> QED BY <1>2 DEF RetryStatusUpdate, Store

\* So does a best-effort one, on the Application or on a snapshot of it.
LEMMA TypeBestEffort ==
    ASSUME TypeInv, pc # "idle",
           \/ BestEffort(RetryStatusUpdate(app.status))
           \/ BestEffort(SnapshotStatusUpdate(app.status))
    PROVE  obj' \in Object \cup {Nil} /\ app' \in Object /\ base' \in Object
<1>1. app \in Object /\ base \in Object /\ obj \in Object \cup {Nil}
  BY DEF TypeInv, TypeOK, WorkerOK
<1>2. app.status \in Statuses
  BY <1>1 DEF Object, Statuses
<1>3. CASE obj = Nil /\ UNCHANGED <<obj, app, base>>
  BY <1>1, <1>3
<1>4. CASE RetryStatusUpdate(app.status)
  BY <1>2, <1>4, TypeRetry
<1>5. CASE SnapshotStatusUpdate(app.status)
  <2>1. obj # Nil /\ obj' = WithStatus(app.status) /\ UNCHANGED <<app, base>>
    BY <1>5 DEF SnapshotStatusUpdate, Writable
  <2>2. WithStatus(app.status) \in Object
    BY <1>2, <2>1, WrittenType DEF Conditions
  <2> QED BY <1>1, <2>1, <2>2
<1> QED BY <1>3, <1>4, <1>5 DEF BestEffort

\* The cleanup steps preserve TypeInv.
LEMMA TypeCleanup ==
    ASSUME TypeInv,
           \/ finalizeApplication \/ verifyOwnership \/ emptyBucket
           \/ deleteBucket \/ failStorageCleanup \/ removeFinalizer \/ clearStatus
    PROVE  TypeInv'
<1>1. CASE finalizeApplication
  <2> USE <1>1 DEF counters
  <2>1. pc = "cleanup" /\ BeginCleanup /\ CleanupStatusUpdate
        /\ UNCHANGED <<cache, queued, ret, cloud, madeAt, counters>>
    BY DEF finalizeApplication
  <2>2. obj' \in Object \cup {Nil} /\ app' \in Object /\ base' \in Object
    <3>1. \/ BestEffort(RetryStatusUpdate(app.status))
          \/ BestEffort(SnapshotStatusUpdate(app.status))
      BY <2>1 DEF CleanupStatusUpdate, BestEffort
    <3> QED BY <2>1, <3>1, TypeBestEffort
  <2> QED BY <2>1, <2>2, TypeBeginCleanup DEF TypeInv, TypeOK
<1>2. CASE verifyOwnership
  <2>1. pc = "verify" /\ pc' \in {"empty", "deleteBucket", "cleanupFailed"}
        /\ UNCHANGED <<api, app, base, mgr, ret, cloud, history, counters>>
    BY <1>2 DEF verifyOwnership, Goto
  <2> QED BY <2>1 DEF TypeInv, TypeOK, WorkerOK, PCs, ManagerPoints, api, history, counters
<1>3. CASE emptyBucket
  <2>1. pc = "empty" /\ pc' \in {"deleteBucket", "cleanupFailed"}
        /\ UNCHANGED <<api, app, base, mgr, ret, history, counters>>
    BY <1>3 DEF emptyBucket, Goto
  <2>2. UNCHANGED cloud \/ (There # Nil /\ SetBucket(Emptied(There)))
    BY <1>3 DEF emptyBucket, Lookup, There
  <2>3. cloud' \in CloudType
    <3>1. CASE There # Nil /\ SetBucket(Emptied(There))
      <4>1. There \in Bucket
        BY <2>1, <3>1, ThereType DEF ManagerPoints
      <4> HIDE DEF There
      <4>2. Emptied(There) \in Bucket
        BY <4>1 DEF Emptied, Bucket
      <4> QED BY <2>1, <3>1, <4>2, SetBucketType DEF ManagerPoints
    <3> QED BY <2>2, <3>1 DEF CloudType, TypeInv, TypeOK
  <2> QED BY <2>1, <2>3 DEF TypeInv, TypeOK, WorkerOK, PCs, ManagerPoints, api, history, counters, CloudType
<1>4. CASE deleteBucket
  <2>1. pc = "deleteBucket" /\ pc' \in {"cleanupFailed", "removeFinalizer", "clearStatus"}
        /\ UNCHANGED <<api, app, base, mgr, ret, history, counters>>
        /\ (pc' = "clearStatus" => ret # "deletion")
    BY <1>4 DEF deleteBucket, Goto, CleanupDone
  <2>2. UNCHANGED cloud \/ SetBucket(Nil)
    BY <1>4 DEF deleteBucket
  <2>3. cloud' \in CloudType
    BY <2>1, <2>2, SetBucketType DEF CloudType, TypeInv, TypeOK, ManagerPoints
  <2> QED BY <2>1, <2>3 DEF TypeInv, TypeOK, WorkerOK, PCs, ManagerPoints, api, history, counters, CloudType
<1>5. CASE failStorageCleanup
  <2> USE <1>5 DEF history, counters
  <2>1. pc = "cleanupFailed" /\ app \in Object /\ app.status \in Statuses
        /\ UNCHANGED <<cache, cloud, history, counters>>
    BY DEF failStorageCleanup, TypeInv, TypeOK, WorkerOK, Object, Statuses
  <2>2. CASE /\ ret = "deletion" /\ Return(TRUE)
             /\ \/ Writable /\ obj' = WithStatus(app.status)
                \/ obj = Nil /\ UNCHANGED obj
    <3>1. obj' \in Object \cup {Nil}
      BY <2>1, <2>2, WrittenType DEF Writable, Conditions
    <3> QED BY <2>1, <2>2, <3>1, ReturnOK DEF TypeInv, TypeOK
  <2>3. CASE /\ ret # "deletion" /\ BestEffort(SnapshotStatusUpdate(app.status))
             /\ Goto("setFailed") /\ UNCHANGED <<queued, mgr, ret>>
    <3>1. obj' \in Object \cup {Nil} /\ app' \in Object /\ base' \in Object
      BY <2>1, <2>3, TypeBestEffort
    <3> QED BY <2>1, <2>3, <3>1, NilAssumption DEF TypeInv, TypeOK, WorkerOK, Goto, PCs, ManagerPoints
  <2> QED BY <2>2, <2>3 DEF failStorageCleanup
<1>6. CASE removeFinalizer
  <2>1. obj' \in Object \cup {Nil} /\ UNCHANGED <<cache, cloud, history, counters>>
        /\ (Return(TRUE) \/ Return(FALSE))
    BY <1>6 DEF removeFinalizer, TypeInv, TypeOK
  <2> QED BY <2>1, ReturnOK DEF TypeInv, TypeOK, history, counters
<1>7. CASE clearStatus
  <2> USE <1>7 DEF history, counters
  <2>1. pc = "clearStatus" /\ UNCHANGED <<cache, cloud, history, counters>>
    BY DEF clearStatus
  <2>2. CASE obj = Nil /\ Goto("setFailed") /\ UNCHANGED <<obj, queued, app, base, mgr, ret>>
    BY <2>1, <2>2 DEF TypeInv, TypeOK, WorkerOK, Goto, PCs, ManagerPoints
  <2>3. CASE Writable /\ obj' = WithStatus(Nil)
    <3>1. obj \in Object /\ obj' \in Object /\ obj'.spec = obj.spec
      BY <2>1, <2>3, WrittenType DEF Writable, Conditions, Statuses, TypeInv, TypeOK
    <3>2. CASE ret = "replaced" /\ obj.spec = Nil
      <4>1. Return(TRUE)
        BY <2>1, <2>3, <3>2 DEF clearStatus, Writable
      <4> QED BY <2>1, <3>1, <4>1, ReturnOK DEF TypeInv, TypeOK
    <3>3. CASE ~(ret = "replaced" /\ obj.spec = Nil)
      <4>1. app' = obj' /\ base' = obj' /\ ret' = "none" /\ UNCHANGED queued
            /\ IF ret = "removed" THEN Goto("children") /\ mgr' = Nil
               ELSE pc' \in {"ownershipID", "head"} /\ mgr' = ManagerFor(obj.spec, Nil)
        BY <2>1, <2>3, <3>3 DEF clearStatus, Writable, StartProvisioning, Goto
      <4>2. CASE ret = "removed"
        BY <2>1, <3>1, <4>1, <4>2, NilAssumption DEF TypeInv, TypeOK, WorkerOK, Goto, PCs, ManagerPoints
      <4>3. CASE ret # "removed"
        <5>1. obj.spec \in StorageSpec
          BY <2>1, <3>1, <3>3, <4>3 DEF Object, TypeInv, TypeOK, WorkerOK
        <5>2. ManagerFor(obj.spec, Nil) \in Manager
          BY <5>1, ManagerType DEF Statuses
        <5>3. obj'.spec # Nil
          BY <3>1, <5>1, NilAssumption
        <5> QED BY <2>1, <3>1, <4>1, <4>3, <5>2, <5>3, NilAssumption
                DEF TypeInv, TypeOK, WorkerOK, Goto, PCs, ManagerPoints
      <4> QED BY <4>2, <4>3
    <3> QED BY <3>2, <3>3
  <2> QED BY <2>2, <2>3 DEF clearStatus
<1> QED BY <1>1, <1>2, <1>3, <1>4, <1>5, <1>6, <1>7

\* A bucket that is made is well formed and dated.
LEMMA TypeMake ==
    ASSUME TypeInv, pc \in ManagerPoints, MakeBucket
    PROVE  cloud' \in CloudType /\ madeAt' \in [Buckets -> Nat]
<1>1. [creator |-> "me", owner |-> "none", full |-> FALSE, kept |-> FALSE] \in Bucket
  BY DEF Bucket
<1>2. cloud' \in CloudType
  BY <1>1, SetBucketType DEF MakeBucket
<1>3. madeAt' \in [Buckets -> Nat]
  BY DEF MakeBucket, TypeInv, TypeOK, WorkerOK, Manager
<1> QED BY <1>2, <1>3

\* Tagging keeps the cloud well formed.
LEMMA TypePutOwner ==
    ASSUME TypeInv, pc \in ManagerPoints, There # Nil, PutOwner
    PROVE  cloud' \in CloudType
<1>1. There \in Bucket
  BY ThereType
<1>2. SetBucket([There EXCEPT !.owner = "me"])
  BY DEF PutOwner
<1> HIDE DEF There
<1>3. [There EXCEPT !.owner = "me"] \in Bucket
  BY <1>1 DEF Bucket
<1> QED BY <1>2, <1>3, SetBucketType

\* Patching the ownership ID keeps the object well formed.
LEMMA TypePatch ==
    ASSUME TypeInv, PatchOwnershipID
    PROVE  obj \in Object /\ obj' \in Object /\ FreshID \in OwnershipIDs
<1>1. obj \in Object
  BY DEF PatchOwnershipID, TypeInv, TypeOK
<1>2. FreshID \in OwnershipIDs
  BY DEF FreshID, OwnershipIDs
<1> HIDE DEF FreshID
<1>3. [obj EXCEPT !.id = FreshID] \in Object
  BY <1>1, <1>2 DEF Object
<1> QED BY <1>1, <1>2, <1>3 DEF PatchOwnershipID

\* The provisioning steps preserve TypeInv.
LEMMA TypeProvision ==
    ASSUME TypeInv,
           \/ ensureStorageOwnershipID \/ headBucket \/ CreateBucket \/ recordBucketCreated
           \/ claimOrVerifyOwnership \/ tagAsOwned \/ configureBucket
           \/ recordReady \/ storageFailed \/ SetReady \/ SetFailed
    PROVE  TypeInv'
<1>0. CASE ensureStorageOwnershipID
  <2>1. pc = "ownershipID" /\ UNCHANGED <<cache, queued, base, mgr, ret, cloud, history, counters>>
    BY <1>0 DEF ensureStorageOwnershipID
  <2>2. app \in Object /\ app.spec # Nil
    BY <2>1 DEF TypeInv, TypeOK, WorkerOK
  <2>3. CASE PatchOwnershipID /\ app' = [app EXCEPT !.id = FreshID] /\ Goto("head")
    <3>1. obj' \in Object /\ FreshID \in OwnershipIDs
      BY <2>3, TypePatch
    <3>2. app' \in Object /\ app'.spec # Nil
      BY <2>2, <2>3, <3>1 DEF Object
    <3> QED BY <2>1, <2>3, <3>1, <3>2, NilAssumption
            DEF TypeInv, TypeOK, WorkerOK, Goto, PCs, ManagerPoints, history, counters
  <2>4. CASE UNCHANGED <<obj, app>> /\ Goto("setFailed")
    BY <2>1, <2>4 DEF TypeInv, TypeOK, WorkerOK, Goto, PCs, ManagerPoints, history, counters
  <2> QED BY <1>0, <2>3, <2>4 DEF ensureStorageOwnershipID
<1>1. CASE headBucket
  <2>1. pc = "head" /\ pc' \in {"claim", "create", "storageFailed"}
        /\ UNCHANGED <<api, app, base, mgr, ret, cloud, history, counters>>
    BY <1>1 DEF headBucket, Goto
  <2> QED BY <2>1 DEF TypeInv, TypeOK, WorkerOK, PCs, ManagerPoints, api, history, counters
<1>2. CASE CreateBucket
  <2>1. pc = "create" /\ UNCHANGED <<api, app, base, mgr, ret, retained, counters>>
        /\ pc' \in {"record", "storageFailed"}
        /\ (MakeBucket \/ UNCHANGED <<cloud, madeAt>>)
    BY <1>2 DEF CreateBucket, Goto
  <2>2. cloud' \in CloudType /\ madeAt' \in [Buckets -> Nat]
    BY <2>1, TypeMake DEF ManagerPoints, TypeInv, TypeOK, CloudType
  <2> QED BY <2>1, <2>2 DEF TypeInv, TypeOK, WorkerOK, PCs, ManagerPoints, api, counters, CloudType
<1>3. CASE recordBucketCreated
  <2>1. pc = "record" /\ UNCHANGED <<cache, queued, mgr, ret, cloud, history, counters>>
        /\ pc' \in {"claim", "storageFailed"}
        /\ (RetryStatusUpdate(CreationRecord) \/ UNCHANGED <<obj, app, base>>)
    BY <1>3 DEF recordBucketCreated, Goto
  <2>2. CreationRecord \in Statuses
    BY <2>1, RecordsType DEF TypeInv, WorkerOK
  <2>3. obj' \in Object \cup {Nil} /\ app' \in Object /\ base' \in Object
    BY <2>1, <2>2, TypeRetry DEF TypeInv, TypeOK, WorkerOK
  <2> QED BY <2>1, <2>3, NilAssumption DEF TypeInv, TypeOK, WorkerOK, PCs, ManagerPoints, history, counters
<1>4. CASE claimOrVerifyOwnership
  <2>1. pc = "claim" /\ pc' \in {"configure", "tag", "storageFailed"}
        /\ UNCHANGED <<api, app, base, mgr, ret, cloud, history, counters>>
    BY <1>4 DEF claimOrVerifyOwnership, Goto
  <2> QED BY <2>1 DEF TypeInv, TypeOK, WorkerOK, PCs, ManagerPoints, api, history, counters
<1>5. CASE tagAsOwned
  <2>1. pc = "tag" /\ pc' \in {"configure", "storageFailed"}
        /\ UNCHANGED <<api, app, base, mgr, ret, history, counters>>
        /\ (UNCHANGED cloud \/ (There # Nil /\ PutOwner))
    BY <1>5 DEF tagAsOwned, Goto
  <2>2. cloud' \in CloudType
    BY <2>1, TypePutOwner DEF ManagerPoints, TypeInv, TypeOK, CloudType
  <2> QED BY <2>1, <2>2 DEF TypeInv, TypeOK, WorkerOK, PCs, ManagerPoints, api, history, counters, CloudType
<1>6. CASE configureBucket
  <2>1. pc = "configure" /\ pc' \in {"ready", "storageFailed"}
        /\ UNCHANGED <<api, app, base, mgr, ret, cloud, history, counters>>
    BY <1>6 DEF configureBucket, Goto
  <2> QED BY <2>1 DEF TypeInv, TypeOK, WorkerOK, PCs, ManagerPoints, api, history, counters
<1>7. CASE recordReady
  <2> USE <1>7 DEF history, counters
  <2>1. pc = "ready" /\ app \in Object /\ UNCHANGED <<cache, history, counters>>
    BY DEF recordReady, TypeInv, TypeOK, WorkerOK
  <2>2. CASE Return(TRUE) /\ UNCHANGED <<obj, cloud>>
    BY <2>1, <2>2, ReturnOK DEF TypeInv, TypeOK
  <2>3. CASE /\ app.spec # Nil /\ RetryStatusUpdate(ReadyStatus)
             /\ MarkKept(app.spec, app.spec.policy = "Retain" /\ obj.spec = app.spec)
             /\ Goto("children") /\ mgr' = Nil /\ UNCHANGED <<queued, ret>>
    <3>1. ReadyStatus \in Statuses
      BY <2>1, <2>3, RecordsType, NilAssumption
    <3>2. obj' \in Object /\ app' = obj' /\ base' = obj'
      BY <2>1, <2>3, <3>1, TypeRetry
    <3>3. app.spec \in StorageSpec
      BY <2>1, <2>3 DEF Object
    <3>4. cloud' \in CloudType
      BY <2>3, <3>3, MarkKeptType
    <3> QED BY <2>1, <2>3, <3>2, <3>4, NilAssumption
            DEF TypeInv, TypeOK, WorkerOK, Goto, PCs, ManagerPoints, CloudType
  <2>4. CASE Goto("setFailed") /\ UNCHANGED <<obj, queued, app, base, mgr, ret, cloud>>
    BY <2>1, <2>4 DEF TypeInv, TypeOK, WorkerOK, Goto, PCs, ManagerPoints
  <2> QED BY <2>2, <2>3, <2>4 DEF recordReady
<1>8. CASE storageFailed
  <2>1. pc = "storageFailed" /\ pc' = "setFailed" /\ BestEffort(RetryStatusUpdate(app.status))
        /\ UNCHANGED <<cache, queued, mgr, ret, cloud, history, counters>>
    BY <1>8 DEF storageFailed, FailedStatus, Goto
  <2>2. obj' \in Object \cup {Nil} /\ app' \in Object /\ base' \in Object
    BY <2>1, TypeBestEffort
  <2> QED BY <2>1, <2>2, NilAssumption DEF TypeInv, TypeOK, WorkerOK, PCs, ManagerPoints, history, counters
<1>9. CASE SetReady
  <2>1. pc = "children" /\ UNCHANGED <<cache, cloud, history, counters>>
        /\ (Return(TRUE) \/ Return(FALSE))
        /\ ((obj # Nil /\ obj' = WithConditions("Ready")) \/ UNCHANGED obj)
    BY <1>9 DEF SetReady
  <2>2. obj' \in Object \cup {Nil}
    BY <2>1, WrittenType DEF TypeInv, TypeOK, Conditions, Statuses
  <2> QED BY <2>1, <2>2, ReturnOK DEF TypeInv, TypeOK, history, counters
<1>10. CASE SetFailed
  <2>1. pc = "setFailed" /\ UNCHANGED <<cache, cloud, history, counters>> /\ Return(TRUE)
        /\ ((obj # Nil /\ obj' = WithConditions("NotReady")) \/ UNCHANGED obj)
    BY <1>10 DEF SetFailed
  <2>2. obj' \in Object \cup {Nil}
    BY <2>1, WrittenType DEF TypeInv, TypeOK, Conditions, Statuses
  <2> QED BY <2>1, <2>2, ReturnOK DEF TypeInv, TypeOK, history, counters
<1> QED BY <1>0, <1>1, <1>2, <1>3, <1>4, <1>5, <1>6, <1>7, <1>8, <1>9, <1>10

\* A failed status write leaves a well-formed copy in memory.
LEMMA TypeFailedWrite ==
    ASSUME TypeInv, pc # "idle", NEW st \in Statuses, FailedWrite(st)
    PROVE  app' \in Object /\ base' \in Object
<1>1. app \in Object /\ base \in Object /\ cache \in Object \cup {Nil}
  BY DEF TypeInv, TypeOK, WorkerOK
<1>2. [app EXCEPT !.status = st] \in Object
  BY <1>1, ObjectUpdate DEF Object
<1> QED BY <1>1, <1>2 DEF FailedWrite

\* The late effect of a failed request keeps the cloud well formed.
LEMMA TypeLateEffect ==
    ASSUME TypeInv, pc \in ManagerPoints, LateEffect
    PROVE  cloud' \in CloudType /\ madeAt' \in [Buckets -> Nat]
<1>1. CASE MakeBucket
  BY <1>1, TypeMake
<1>2. CASE UNCHANGED madeAt /\ There # Nil /\ PutOwner
  BY <1>2, TypePutOwner DEF TypeInv, TypeOK
<1>3. CASE UNCHANGED madeAt /\ SetBucket(Nil)
  BY <1>3, SetBucketType DEF TypeInv, TypeOK
<1>4. ASSUME UNCHANGED madeAt, There # Nil, NEW full \in {There.full, FALSE},
             SetBucket([Emptied(There) EXCEPT !.full = full])
      PROVE  cloud' \in CloudType /\ madeAt' \in [Buckets -> Nat]
  <2>1. There \in Bucket
    BY <1>4, ThereType
  <2> HIDE DEF There
  <2>2. Emptied(There) \in Bucket /\ full \in BOOLEAN
    BY <2>1 DEF Emptied, Bucket
  <2>3. [Emptied(There) EXCEPT !.full = full] \in Bucket
    BY <2>2 DEF Bucket
  <2>4. cloud' \in CloudType
    BY <1>4, <2>3, SetBucketType
  <2> QED BY <1>4, <2>4 DEF TypeInv, TypeOK
<1> QED BY <1>1, <1>2, <1>3, <1>4 DEF LateEffect

\* The failures preserve TypeInv.
LEMMA TypeFaults ==
    ASSUME TypeInv, FaultStep
    PROVE  TypeInv'
<1>0. pc # "idle" /\ faults' \in Nat /\ app \in Object /\ base \in Object
  <2>1. Fault
    BY DEF FaultStep, CallFailsOutright, BestEffortWriteFails, CloudCallFails,
           StatusWriteFails, DesiredStateFails, Crash
  <2>2. pc # "idle"
    BY <2>1, EnvironmentAssumption DEF Fault
  <2> QED BY <2>1, <2>2 DEF Fault, TypeInv, TypeOK, WorkerOK
<1>a. app.status \in Statuses
  BY <1>0 DEF Object, Statuses
<1>1. CASE CallFailsOutright
  <2>1. Return(TRUE) /\ UNCHANGED <<obj, cache, cloud, history, now, edits, outside>>
    BY <1>1 DEF CallFailsOutright
  <2> QED BY <1>0, <2>1, ReturnOK DEF TypeInv, TypeOK, history
<1>2. CASE BestEffortWriteFails
  <2>1. UNCHANGED <<obj, cache, cloud, madeAt, now, edits, outside>>
    BY <1>2 DEF BestEffortWriteFails
  <2>2. CASE /\ pc = "cleanup" /\ BeginCleanup /\ UNCHANGED <<queued, ret>>
             /\ IF ret = "deletion" THEN FailedWrite(app.status)
                ELSE UNCHANGED <<app, base>>
    <3>1. app' \in Object /\ base' \in Object
      BY <1>0, <1>a, <2>2, TypeFailedWrite
    <3> QED BY <1>0, <2>1, <2>2, <3>1, TypeBeginCleanup DEF TypeInv, TypeOK
  <2>3. CASE Return(TRUE) /\ UNCHANGED retained
    BY <1>0, <2>1, <2>3, ReturnOK DEF TypeInv, TypeOK
  <2>4. CASE pc = "cleanupFailed" /\ Goto("setFailed") /\ UNCHANGED <<queued, app, base, mgr, ret, retained>>
    BY <1>0, <2>1, <2>4, NilAssumption DEF TypeInv, TypeOK, WorkerOK, Goto, PCs, ManagerPoints
  <2>5. CASE FailedWrite(app.status) /\ Goto("setFailed") /\ UNCHANGED <<queued, mgr, ret, retained>>
    <3>1. app' \in Object /\ base' \in Object
      BY <1>0, <1>a, <2>5, TypeFailedWrite
    <3> QED BY <1>0, <2>1, <2>5, <3>1, NilAssumption DEF TypeInv, TypeOK, WorkerOK, Goto, PCs, ManagerPoints
  <2> QED BY <1>2, <2>2, <2>3, <2>4, <2>5 DEF BestEffortWriteFails
<1>3. CASE CloudCallFails
  <2>1. /\ pc \in ManagerPoints /\ pc' \in {"cleanupFailed", "storageFailed"}
        /\ UNCHANGED <<cloud, madeAt>> \/ LateEffect
        /\ UNCHANGED <<api, app, base, mgr, ret, retained, now, edits, outside>>
    BY <1>3 DEF CloudCallFails, Goto, ManagerPoints
  <2>2. cloud' \in CloudType /\ madeAt' \in [Buckets -> Nat]
    BY <2>1, TypeLateEffect DEF TypeInv, TypeOK, CloudType
  <2> QED BY <1>0, <2>1, <2>2, NilAssumption DEF TypeInv, TypeOK, WorkerOK, PCs, ManagerPoints, api, CloudType
<1>4. CASE StatusWriteFails
  <2> DEFINE st == CASE pc = "record" -> CreationRecord [] pc = "ready" -> ReadyStatus [] OTHER -> Nil
  <2>1. /\ pc \in {"record", "clearStatus", "ready"} /\ (pc = "ready" => app.spec # Nil)
        /\ pc' \in {"storageFailed", "setFailed"} /\ FailedWrite(st)
        /\ UNCHANGED <<api, mgr, ret, cloud, history, now, edits, outside>>
    BY <1>4 DEF StatusWriteFails, Goto
  <2>2. st \in Statuses
    <3>1. CASE pc \in {"record", "ready"}
      BY <1>0, <2>1, <3>1, RecordsType DEF TypeInv, WorkerOK
    <3>2. CASE pc = "clearStatus"
      BY <3>2 DEF Statuses
    <3> QED BY <2>1, <3>1, <3>2
  <2> HIDE DEF st
  <2>3. app' \in Object /\ base' \in Object
    BY <1>0, <2>1, <2>2, TypeFailedWrite
  <2> QED BY <1>0, <2>1, <2>3, NilAssumption DEF TypeInv, TypeOK, WorkerOK, PCs, ManagerPoints, api, history
<1>5. CASE DesiredStateFails
  <2>1. UNCHANGED <<cache, cloud, history, now, edits, outside>>
    BY <1>5 DEF DesiredStateFails
  <2>2. CASE /\ UNCHANGED obj \/ PatchOwnershipID
             /\ Goto("setFailed") /\ UNCHANGED <<queued, app, base, mgr, ret>>
    <3>1. obj' \in Object \cup {Nil}
      BY <2>2, TypePatch DEF TypeInv, TypeOK
    <3> QED BY <1>0, <2>1, <2>2, <3>1, NilAssumption
            DEF TypeInv, TypeOK, WorkerOK, Goto, PCs, ManagerPoints, history
  <2>3. CASE obj # Nil /\ obj' = WithConditions("NotReady") /\ Return(TRUE)
    <3>1. obj' \in Object
      BY <1>0, <2>3, WrittenType DEF Conditions, Statuses
    <3> QED BY <1>0, <2>1, <2>3, <3>1, ReturnOK DEF TypeInv, TypeOK, history
  <2> QED BY <1>5, <2>2, <2>3 DEF DesiredStateFails
<1>6. CASE Crash
  BY <1>0, <1>6 DEF Crash, TypeInv, TypeOK, WorkerOK, PCs, ManagerPoints, history
<1> QED BY <1>1, <1>2, <1>3, <1>4, <1>5, <1>6 DEF FaultStep

\* The informer, the users, the clock and the others preserve TypeInv.
LEMMA TypeEnvironment ==
    ASSUME TypeInv, CacheSync \/ OwnedEvent \/ UserStep \/ Tick \/ OutsideStep
    PROVE  TypeInv'
<1>1. CASE CacheSync \/ OwnedEvent \/ Tick
  <2>1. /\ cache' \in Object \cup {Nil} /\ queued' \in BOOLEAN /\ now' \in Nat
        /\ UNCHANGED <<obj, worker, cloud, history, faults, edits, outside>>
    <3>1. CASE CacheSync
      <4>1. queued' \in BOOLEAN
        BY <3>1, Zenon DEF CacheSync
      <4> QED BY <3>1, <4>1 DEF CacheSync, TypeInv, TypeOK, counters
    <3>2. CASE OwnedEvent
      BY <3>2 DEF OwnedEvent, TypeInv, TypeOK, counters
    <3>3. CASE Tick
      BY <3>3 DEF Tick, TypeInv, TypeOK, api
    <3> QED BY <1>1, <3>1, <3>2, <3>3
  <2> QED BY <2>1 DEF TypeInv, TypeOK, WorkerOK, worker, history
<1>2. CASE UserStep
  <2>1. ASSUME NEW s \in SpecChoices, UserEdit(s) PROVE TypeInv'
    <3>1. s \in StorageSpec \cup {Nil} /\ obj \in Object
      BY <2>1, SpecAssumption DEF UserEdit, TypeInv, TypeOK
    <3>2. obj' \in Object
      BY <2>1, <3>1 DEF UserEdit, Object, Conditions
    <3>3. cloud' \in CloudType
      BY <2>1, <3>1, MarkKeptType DEF UserEdit, TypeInv, TypeOK, CloudType
    <3>4. edits' \in Nat /\ UNCHANGED <<cache, queued, worker, history, now, faults, outside>>
      BY <2>1 DEF UserEdit, TypeInv, TypeOK
    <3> QED BY <3>2, <3>3, <3>4 DEF TypeInv, TypeOK, WorkerOK, CloudType, worker, history
  <2>2. CASE UserDelete
    <3>1. obj \in Object
      BY <2>2 DEF UserDelete, TypeInv, TypeOK
    <3>2. obj' \in Object \cup {Nil}
      BY <2>2, <3>1 DEF UserDelete, Object, Conditions
    <3> QED BY <2>2, <3>2 DEF UserDelete, TypeInv, TypeOK, WorkerOK, worker, history, counters
  <2> QED BY <1>2, <2>1, <2>2 DEF UserStep
<1>3. CASE OutsideStep
  <2> PICK b \in Buckets, r \in Regions :
        OutsideDelete(b, r) \/ OutsideCreate(b, r) \/ WorkloadWrites(b, r)
    BY <1>3 DEF OutsideStep
  <2>0. cloud \in CloudType /\ cloud[b][r] \in Bucket \cup {Nil}
    BY DEF TypeInv, TypeOK, CloudType
  <2>1. ASSUME NEW move, NEW v \in Bucket \cup {Nil}, Outside(move, b, r, v) PROVE TypeInv'
    <3>1. cloud' \in CloudType
      BY <2>0, <2>1, CloudUpdate DEF Outside
    <3> QED BY <2>1, <3>1 DEF Outside, TypeInv, TypeOK, WorkerOK, CloudType, api, worker, history
  <2>2. CASE OutsideDelete(b, r)
    BY <2>1, <2>2 DEF OutsideDelete
  <2>3. CASE OutsideCreate(b, r)
    <3>1. PICK o \in {"none", "other"}, f \in BOOLEAN :
            Outside("create", b, r, [creator |-> "other", owner |-> o, full |-> f, kept |-> FALSE])
      BY <2>3 DEF OutsideCreate
    <3>2. [creator |-> "other", owner |-> o, full |-> f, kept |-> FALSE] \in Bucket
      BY DEF Bucket
    <3> QED BY <2>1, <3>1, <3>2
  <2>4. CASE WorkloadWrites(b, r)
    <3>1. cloud[b][r] \in Bucket /\ Outside("write", b, r, [cloud[b][r] EXCEPT !.full = TRUE])
      BY <2>0, <2>4 DEF WorkloadWrites
    <3>2. [cloud[b][r] EXCEPT !.full = TRUE] \in Bucket
      BY <3>1 DEF Bucket
    <3> QED BY <2>1, <3>1, <3>2
  <2> QED BY <2>2, <2>3, <2>4
<1> QED BY <1>1, <1>2, <1>3

\* Every step preserves TypeInv.
LEMMA TypeStep == TypeInv /\ [Next]_vars => TypeInv'
<1> SUFFICES ASSUME TypeInv, [Next]_vars PROVE TypeInv'
  OBVIOUS
<1>1. CASE WorkerStep
  BY <1>1, TypeEntry, TypeCleanup, TypeProvision DEF WorkerStep
<1>2. CASE FaultStep
  BY <1>2, TypeFaults
<1>3. CASE CacheSync \/ OwnedEvent \/ UserStep \/ Tick \/ OutsideStep
  BY <1>3, TypeEnvironment
<1>4. CASE UNCHANGED vars
  BY <1>4 DEF vars, api, worker, history, counters, TypeInv, TypeOK, WorkerOK
<1> QED BY <1>1, <1>2, <1>3, <1>4 DEF Next

\* The worker never dereferences a missing Application, manager or cleanup
\* target, and every variable keeps its type: the state the code's handlers
\* rely on when they are entered in the order Reconcile calls them.
THEOREM TypeInvariance == Spec => []TypeInv
BY TypeInit, TypeStep, PTL DEF Spec

\* In particular the type invariant holds, for every value of the constants.
THEOREM TypeCorrectness == Spec => []TypeOK
<1>1. TypeInv => TypeOK
  BY DEF TypeInv
<1> QED BY <1>1, TypeInvariance, PTL

=============================================================================

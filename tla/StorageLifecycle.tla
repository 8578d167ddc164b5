-------------------------- MODULE StorageLifecycle --------------------------
(***************************************************************************)
(* The storage life cycle of one Application: the reconcile worker of      *)
(* internal/controller, the API server's object and the informer's copy of *)
(* it, and the provider's buckets.  One step of the worker is one call: an *)
(* API write or a cloud request, with the local decisions that follow it.  *)
(* Between two calls the user edits or deletes the Application, the        *)
(* informer lags or catches up, a call fails, the operator crashes, the    *)
(* claim window runs out, or somebody else touches the buckets.            *)
(*                                                                         *)
(* Left to other modules: several Applications meeting at one bucket       *)
(* (BucketOwnership), and the credentials (IAM role, access key, Secret).  *)
(***************************************************************************)
EXTENDS Naturals, FiniteSets

CONSTANTS
    Provider,       \* "AWS" or "Akamai": spec.storage.provider
    Buckets,        \* bucket names
    Regions,        \* the provider's regions, never ""
    DefaultRegion,  \* what an unset region means to the managers
    SpecChoices,    \* values the user may write to spec.storage
    Adopt,          \* does the Application carry the adopt-bucket annotation?
    Lag,            \* what the copy a reconcile starts on may miss: LagChoices
    FaultAt,        \* program points at which a call may fail or the operator crash
    MaxFaults,      \* bound on failures and crashes
    MaxEdits,       \* bound on user edits
    OutsideMoves,   \* what others may do to the buckets: delete, create, write
    MaxOutside,     \* bound on changes others make to the buckets
    MaxNow,         \* bound on the clock; a tick is longer than the claim window
    Nil             \* absence: no object, no storage, no bucket

Policies == {"Retain", "Delete"}

StorageSpec == [bucket : Buckets, region : Regions \cup {""}, policy : Policies]

\* Status.Storage.  Every writer sets Created to true, so the field is left out.
StorageStatus == [bucket : Buckets, region : Regions \cup {""},
                  policy : Policies \cup {""}, at : Nat]

\* cond abstracts the Ready, Progressing and Degraded conditions: "Reconciling"
\* is exactly what SetReconciling would write for the present generation.
Conditions == {"Reconciling", "Ready", "NotReady"}

\* id is the storage ownership ID annotation, 0 while it is absent; two values
\* are enough to tell a fresh ID from the one it replaces.
OwnershipIDs == {1, 2}

Object == [spec : StorageSpec \cup {Nil}, status : StorageStatus \cup {Nil},
           fin : BOOLEAN, del : BOOLEAN, cond : Conditions, id : OwnershipIDs \cup {0}]

\* owner is the ownership tag (AWS) or marker object (Akamai).  creator and
\* kept are history: who made the bucket, and whether the Application has been
\* recorded ready on it under Retain without the user asking for Delete since.
Bucket == [creator : {"me", "other"}, owner : {"none", "me", "other"},
           full : BOOLEAN, kept : BOOLEAN]

\* A storage manager: its bucket, its resolved region, and the Status.Storage
\* of the snapshot a cleanup works on.
Manager == [bucket : Buckets, region : Regions, rec : StorageStatus \cup {Nil}]

PCs == {"idle", "reconciling", "finalizer", "cleanup", "verify", "empty",
        "deleteBucket", "cleanupFailed", "removeFinalizer", "clearStatus",
        "ownershipID", "head", "create", "record", "claim", "tag", "configure", "ready",
        "storageFailed", "children", "setFailed"}

\* Nothing; the users' latest writes; or any, the operator's own included.
LagChoices == {"none", "users", "any"}

ASSUME ProviderAssumption == Provider \in {"AWS", "Akamai"}
ASSUME RegionAssumption == DefaultRegion \in Regions /\ "" \notin Regions
ASSUME SpecAssumption == SpecChoices \subseteq StorageSpec \cup {Nil}
ASSUME EnvironmentAssumption ==
    /\ Adopt \in BOOLEAN /\ Lag \in LagChoices
    /\ FaultAt \subseteq PCs \ {"idle"}
    /\ OutsideMoves \subseteq {"delete", "create", "write"}
ASSUME BoundAssumption ==
    MaxFaults \in Nat /\ MaxEdits \in Nat /\ MaxOutside \in Nat /\ MaxNow \in Nat
ASSUME NilAssumption ==
    /\ Nil \notin StorageSpec /\ Nil \notin StorageStatus /\ Nil \notin Object
    /\ Nil \notin Bucket /\ Nil \notin Manager

VARIABLES
    obj,      \* the Application at the API server, or Nil once it is gone
    cache,    \* the informer's copy
    queued,   \* is the Application in the workqueue?
    pc,       \* the worker's next call
    app,      \* the worker's in-memory Application
    base,     \* the version of the object that app was read from
    mgr,      \* the storage manager in use, or Nil
    ret,      \* why a cleanup runs: "deletion", "removed", "replaced"
    cloud,    \* [bucket name -> [region -> Bucket or Nil]]
    retained, \* history: the buckets finalizeApplication left under Retain
    madeAt,   \* history: when the operator last created a bucket of that name
    now,      \* the clock, in claim windows
    faults, edits, outside

api == <<obj, cache, queued>>
worker == <<pc, app, base, mgr, ret>>
counters == <<now, faults, edits, outside>>
history == <<retained, madeAt>>
vars == <<api, worker, cloud, history, counters>>

TypeOK ==
    /\ obj \in Object \cup {Nil}
    /\ cache \in Object \cup {Nil}
    /\ queued \in BOOLEAN
    /\ pc \in PCs
    /\ app \in Object \cup {Nil}
    /\ base \in Object \cup {Nil}
    /\ mgr \in Manager \cup {Nil}
    /\ ret \in {"none", "deletion", "removed", "replaced"}
    /\ cloud \in [Buckets -> [Regions -> Bucket \cup {Nil}]]
    /\ retained \subseteq Buckets \X Regions
    /\ madeAt \in [Buckets -> Nat]
    /\ now \in Nat /\ faults \in Nat /\ edits \in Nat /\ outside \in Nat

Init ==
    /\ \E s \in SpecChoices :
         obj = [spec |-> s, status |-> Nil, fin |-> FALSE, del |-> FALSE,
                cond |-> "NotReady", id |-> 0]
    /\ cache = obj /\ queued = TRUE
    /\ pc = "idle" /\ app = Nil /\ base = Nil /\ mgr = Nil /\ ret = "none"
    /\ cloud = [b \in Buckets |-> [r \in Regions |-> Nil]]
    /\ retained = {} /\ madeAt = [b \in Buckets |-> 0]
    /\ now = 0 /\ faults = 0 /\ edits = 0 /\ outside = 0

-----------------------------------------------------------------------------
(* The provider. *)

\* Mutant: an unset region is handed to the provider as it is.
ResolvedMutant(r) == r

Resolved(r) == IF r = "" THEN DefaultRegion ELSE r

ManagerFor(storage, rec) ==
    [bucket |-> storage.bucket, region |-> Resolved(storage.region), rec |-> rec]

There == cloud[mgr.bucket][mgr.region]

\* AWS bucket names are global and a request to the wrong region is redirected;
\* an Akamai bucket is looked up, and created, per region.
Lookup(b, r) ==
    IF cloud[b][r] # Nil THEN "found"
    ELSE IF Provider = "AWS" /\ \E r2 \in Regions : cloud[b][r2] # Nil
         THEN "elsewhere" ELSE "absent"

SetBucket(v) == cloud' = [cloud EXCEPT ![mgr.bucket][mgr.region] = v]

\* The marker is an object of its bucket; a tag is not.
NonEmpty(b) == b.full \/ (Provider = "Akamai" /\ b.owner # "none")

previouslyCreatedByUs(st) == st # Nil /\ st.bucket = mgr.bucket /\ st.at = now

-----------------------------------------------------------------------------
(* Writing the Application.  A version conflict is base # obj: a writer    *)
(* that lost a race against edits that cancelled out would only re-read    *)
(* the same content.                                                       *)

Goto(next) == pc' = next

\* Mutant: an error or a resync interval does not bring the key back.
ReturnMutant(requeue) ==
    /\ pc' = "idle" /\ app' = Nil /\ base' = Nil /\ mgr' = Nil /\ ret' = "none"
    /\ queued' = queued

\* Reconcile returns; requeue says whether the workqueue gets the key back.
Return(requeue) ==
    /\ pc' = "idle" /\ app' = Nil /\ base' = Nil /\ mgr' = Nil /\ ret' = "none"
    /\ queued' = (queued \/ requeue)

\* Conditions carry the generation they were computed for.
Stamp(c) == IF app.spec = obj.spec /\ app.del = obj.del THEN c ELSE "NotReady"

Store(o) == obj' = o /\ app' = o /\ base' = o

\* retryStatusUpdate: the whole desired Status, over a copy re-read through the
\* informer when the first attempt conflicts; so a write after a conflict waits
\* for the informer to catch up.
Writable == obj # Nil /\ (base = obj \/ cache = obj)
WithStatus(st) == [obj EXCEPT !.status = st, !.cond = Stamp(app.cond)]

RetryStatusUpdate(st) == Writable /\ Store(WithStatus(st))

\* The same write made on cleanupPreviousStorage's snapshot leaves app alone.
SnapshotStatusUpdate(st) ==
    Writable /\ obj' = WithStatus(st) /\ UNCHANGED <<app, base>>

\* StatusManager.UpdateStatus: after a conflict only the conditions are put on
\* a copy read from the API server itself.
WithConditions(c) ==
    IF base = obj THEN [obj EXCEPT !.status = app.status, !.cond = c]
    ELSE [obj EXCEPT !.cond = Stamp(c)]

UpdateStatus(c) == obj # Nil /\ Store(WithConditions(c))

\* Client.Update: refused on any conflict.
Update(o) == base = obj /\ Store(o)

\* A write whose failure the code only logs.
BestEffort(write) == write \/ (obj = Nil /\ UNCHANGED <<obj, app, base>>)

-----------------------------------------------------------------------------
(* Reconcile, up to the storage decision. *)

\* The informer's copy shows what this operator wrote last: the status, the
\* finalizer and the ownership ID.  It may still miss what the user wrote.
OwnWritesSeen ==
    /\ obj # Nil /\ cache # Nil =>
          cache.status = obj.status /\ cache.fin = obj.fin /\ cache.id = obj.id
    /\ obj = Nil /\ cache # Nil => ~cache.fin

\* Reconcile reads the informer's copy and checks nothing about its age.
Get ==
    /\ pc = "idle" /\ queued
    /\ Lag = "none" => cache = obj
    /\ Lag = "users" => OwnWritesSeen
    /\ queued' = FALSE
    /\ IF cache = Nil THEN UNCHANGED worker
       ELSE /\ app' = cache /\ base' = cache /\ Goto("reconciling")
            /\ UNCHANGED <<mgr, ret>>
    /\ UNCHANGED <<obj, cache, cloud, history, counters>>

\* Writes only if the conditions change: then, and only then, it also replaces
\* a stale in-memory copy.
SetReconciling ==
    /\ pc = "reconciling"
    /\ \/ /\ IF app.cond = "Reconciling" THEN UNCHANGED <<obj, app, base>>
             ELSE UpdateStatus("Reconciling")
          /\ Goto("finalizer") /\ UNCHANGED <<queued, mgr, ret>>
       \/ obj = Nil /\ app.cond # "Reconciling" /\ Return(TRUE) /\ UNCHANGED obj
    /\ UNCHANGED <<cache, cloud, history, counters>>

SameIdentity(spec, st) == spec.bucket = st.bucket /\ spec.region = st.region

\* Mutant: every reconcile generates an ID.
StartProvisioningMutant(a) ==
    /\ Goto("ownershipID")
    /\ mgr' = ManagerFor(a.spec, Nil) /\ ret' = "none"

\* The annotation is only written where the copy at hand has none.
StartProvisioning(a) ==
    /\ Goto(IF a.id = 0 THEN "ownershipID" ELSE "head")
    /\ mgr' = ManagerFor(a.spec, Nil) /\ ret' = "none"

\* Mutant: removing spec.storage forgets the bucket the status still names.
EnterStorageMutant(a) ==
    IF a.spec = Nil THEN Goto("children") /\ ret' = "none" /\ mgr' = Nil
    ELSE StartProvisioning(a)

\* reconcileStorage, up to its first call.
EnterStorage(a) ==
    IF a.spec = Nil
    THEN /\ Goto(IF a.status = Nil THEN "children" ELSE "cleanup")
         /\ ret' = (IF a.status = Nil THEN "none" ELSE "removed")
         /\ mgr' = Nil
    ELSE IF a.status # Nil /\ ~SameIdentity(a.spec, a.status)
         THEN Goto("cleanup") /\ ret' = "replaced" /\ mgr' = Nil
         ELSE StartProvisioning(a)

\* Mutant: the finalizer is added in memory only.
AttachFinalizerMutant == Update(obj)

AttachFinalizer == Update([obj EXCEPT !.fin = TRUE])

\* Mutant: no record in the status is taken for no bucket.
NothingToCleanMutant(a) == a.spec = Nil \/ a.status = Nil

NothingToClean(a) == a.spec = Nil /\ a.status = Nil

handleFinalizer ==
    /\ pc = "finalizer"
    /\ \/ /\ app.del /\ app.fin
          /\ IF NothingToClean(app)
             THEN Goto("removeFinalizer") ELSE Goto("cleanup")
          /\ ret' = "deletion"
          /\ UNCHANGED <<obj, queued, app, base, mgr>>
       \/ app.del /\ ~app.fin /\ Return(FALSE) /\ UNCHANGED obj
       \/ /\ ~app.del /\ app.fin
          /\ EnterStorage(app) /\ UNCHANGED <<obj, queued, app, base>>
       \/ /\ ~app.del /\ ~app.fin /\ AttachFinalizer
          /\ EnterStorage(obj) /\ UNCHANGED queued
       \/ ~app.del /\ ~app.fin /\ base # obj /\ Return(TRUE) /\ UNCHANGED obj
    /\ UNCHANGED <<cache, cloud, history, counters>>

-----------------------------------------------------------------------------
(* finalizeApplication, cleanupPreviousStorage and the managers' cleanup.  *)

\* What is cleaned up: the spec for a deletion that still has one, otherwise
\* what storageSpecFromStatus rebuilds from the status.
CleanupTarget ==
    IF ret = "deletion" /\ app.spec # Nil THEN app.spec ELSE app.status

CleanupDone == IF ret = "deletion" THEN "removeFinalizer" ELSE "clearStatus"

\* A deletion writes the status of the Application itself, the other two
\* callers that of a throwaway copy.
CleanupStatusUpdate ==
    BestEffort(IF ret = "deletion" THEN RetryStatusUpdate(app.status)
               ELSE SnapshotStatusUpdate(app.status))

\* The policy decision and the manager, without the status write.
BeginCleanup ==
    IF CleanupTarget.policy = "Retain"
    THEN /\ retained' = retained \cup
                 {<<CleanupTarget.bucket, Resolved(CleanupTarget.region)>>}
         /\ Goto(CleanupDone) /\ UNCHANGED mgr
    ELSE /\ mgr' = ManagerFor(CleanupTarget, app.status)
         /\ Goto("verify") /\ UNCHANGED retained

finalizeApplication ==
    /\ pc = "cleanup"
    /\ CleanupStatusUpdate /\ BeginCleanup
    /\ UNCHANGED <<cache, queued, ret, cloud, madeAt, counters>>

CleanupAllowed ==
    \/ There.owner = "me"
    \/ There.owner = "none" /\ (previouslyCreatedByUs(mgr.rec) \/ Adopt)

\* A bucket that is not there needs no verification; S3 goes on to empty it
\* all the same, Akamai skips to the deletion.
verifyOwnership ==
    /\ pc = "verify"
    /\ CASE Lookup(mgr.bucket, mgr.region) = "absent" ->
               Goto(IF Provider = "AWS" THEN "empty" ELSE "deleteBucket")
         [] Lookup(mgr.bucket, mgr.region) = "elsewhere" -> Goto("cleanupFailed")
         [] OTHER -> Goto(IF CleanupAllowed THEN "empty" ELSE "cleanupFailed")
    /\ UNCHANGED <<api, app, base, mgr, ret, cloud, history, counters>>

\* Akamai's emptyBucket deletes the ownership marker with the other objects.
Emptied(b) ==
    [b EXCEPT !.full = FALSE, !.owner = IF Provider = "Akamai" THEN "none" ELSE @]

\* S3's listing of a bucket that is not there counts as empty, Akamai's is an error.
emptyBucket ==
    /\ pc = "empty"
    /\ CASE Lookup(mgr.bucket, mgr.region) = "absent" ->
               /\ Goto(IF Provider = "AWS" THEN "deleteBucket" ELSE "cleanupFailed")
               /\ UNCHANGED cloud
         [] Lookup(mgr.bucket, mgr.region) = "elsewhere" ->
               Goto("cleanupFailed") /\ UNCHANGED cloud
         [] OTHER -> Goto("deleteBucket") /\ SetBucket(Emptied(There))
    /\ UNCHANGED <<api, app, base, mgr, ret, history, counters>>

deleteBucket ==
    /\ pc = "deleteBucket"
    /\ CASE Lookup(mgr.bucket, mgr.region) = "absent" ->
               Goto(CleanupDone) /\ UNCHANGED cloud
         [] Lookup(mgr.bucket, mgr.region) = "elsewhere" ->
               Goto("cleanupFailed") /\ UNCHANGED cloud
         [] OTHER ->
               IF NonEmpty(There) THEN Goto("cleanupFailed") /\ UNCHANGED cloud
               ELSE Goto(CleanupDone) /\ SetBucket(Nil)
    /\ UNCHANGED <<api, app, base, mgr, ret, history, counters>>

\* A deletion's cleanup error leaves Reconcile at once; the others go through
\* ensureDesiredState's caller.
failStorageCleanup ==
    /\ pc = "cleanupFailed"
    /\ \/ /\ ret = "deletion" /\ Return(TRUE)
          /\ \/ Writable /\ obj' = WithStatus(app.status)
             \/ obj = Nil /\ UNCHANGED obj
       \/ /\ ret # "deletion" /\ BestEffort(SnapshotStatusUpdate(app.status))
          /\ Goto("setFailed") /\ UNCHANGED <<queued, mgr, ret>>
    /\ UNCHANGED <<cache, cloud, history, counters>>

removeFinalizer ==
    /\ pc = "removeFinalizer"
    /\ IF base = obj THEN obj' = Nil /\ Return(FALSE)
       ELSE UNCHANGED obj /\ Return(TRUE)
    /\ UNCHANGED <<cache, cloud, history, counters>>

\* The end of cleanupPreviousStorage.  The write re-reads the spec; if it has
\* been removed meanwhile, reconcileStorage dereferences nil and the recovered
\* panic ends the reconcile like an error.  ensureStorageOwnershipID comes in
\* between and finds its annotation: it is older than any status.
clearStatus ==
    /\ pc = "clearStatus"
    /\ \/ obj = Nil /\ Goto("setFailed") /\ UNCHANGED <<obj, queued, app, base, mgr, ret>>
       \/ /\ Writable /\ obj' = WithStatus(Nil)
          /\ IF ret = "replaced" /\ obj.spec = Nil THEN Return(TRUE)
             ELSE /\ app' = obj' /\ base' = obj'
                  /\ IF ret = "removed" THEN Goto("children") /\ ret' = "none" /\ mgr' = Nil
                     ELSE StartProvisioning(obj)
                  /\ UNCHANGED queued
    /\ UNCHANGED <<cache, cloud, history, counters>>

-----------------------------------------------------------------------------
(* The managers' ReconcileBucket and its callers.                          *)

FreshID == CHOOSE i \in OwnershipIDs : i # obj.id

\* A server-side apply of the annotation alone, which no version check guards:
\* the copy in memory gets the annotation, not the new version.  On an object
\* that is gone it fails validation, for want of a spec.
PatchOwnershipID == obj # Nil /\ obj' = [obj EXCEPT !.id = FreshID]

ensureStorageOwnershipID ==
    /\ pc = "ownershipID"
    /\ \/ PatchOwnershipID /\ app' = [app EXCEPT !.id = FreshID] /\ Goto("head")
       \/ obj = Nil /\ UNCHANGED <<obj, app>> /\ Goto("setFailed")
    /\ UNCHANGED <<cache, queued, base, mgr, ret, cloud, history, counters>>

headBucket ==
    /\ pc = "head"
    /\ Goto(CASE Lookup(mgr.bucket, mgr.region) = "found" -> "claim"
              [] Lookup(mgr.bucket, mgr.region) = "absent" -> "create"
              [] OTHER -> "storageFailed")
    /\ UNCHANGED <<api, app, base, mgr, ret, cloud, history, counters>>

MakeBucket ==
    /\ SetBucket([creator |-> "me", owner |-> "none", full |-> FALSE, kept |-> FALSE])
    /\ madeAt' = [madeAt EXCEPT ![mgr.bucket] = now]

CreateBucket ==
    /\ pc = "create"
    /\ IF Lookup(mgr.bucket, mgr.region) = "absent"
       THEN MakeBucket /\ Goto("record")
       ELSE UNCHANGED <<cloud, madeAt>> /\ Goto("storageFailed")
    /\ UNCHANGED <<api, app, base, mgr, ret, retained, counters>>

\* The recordCreated callback names the bucket and the time, and leaves the
\* region and the deletion policy unset.
CreationRecord == [bucket |-> app.spec.bucket, region |-> "", policy |-> "", at |-> now]

recordBucketCreated ==
    /\ pc = "record"
    /\ \/ RetryStatusUpdate(CreationRecord) /\ Goto("claim")
       \/ obj = Nil /\ Goto("storageFailed") /\ UNCHANGED <<obj, app, base>>
    /\ UNCHANGED <<cache, queued, mgr, ret, cloud, history, counters>>

\* Reading the tag or marker and deciding; an owner "other" is an Application
\* that still exists, which EvaluateBucketAdoption never lets go.
claimOrVerifyOwnership ==
    /\ pc = "claim"
    /\ IF There = Nil THEN Goto("storageFailed")
       ELSE Goto(CASE There.owner = "me" -> "configure"
                   [] There.owner = "none"
                      /\ (previouslyCreatedByUs(app.status) \/ Adopt) -> "tag"
                   [] OTHER -> "storageFailed")
    /\ UNCHANGED <<api, app, base, mgr, ret, cloud, history, counters>>

PutOwner == SetBucket([There EXCEPT !.owner = "me"])

tagAsOwned ==
    /\ pc = "tag"
    /\ IF There = Nil THEN Goto("storageFailed") /\ UNCHANGED cloud
       ELSE Goto("configure") /\ PutOwner
    /\ UNCHANGED <<api, app, base, mgr, ret, history, counters>>

\* S3 versioning, lifecycle and the IRSA role; nothing is left to call at Akamai.
configureBucket ==
    /\ pc = "configure"
    /\ Goto(IF Provider = "AWS" /\ There = Nil THEN "storageFailed" ELSE "ready")
    /\ UNCHANGED <<api, app, base, mgr, ret, cloud, history, counters>>

\* Mutant: the policy is left out, as it is in the creation record.
ReadyStatusNoPolicy ==
    [bucket |-> app.spec.bucket, region |-> app.spec.region, policy |-> "",
     at |-> IF app.status = Nil THEN now ELSE app.status.at]

\* Mutant: every reconcile renews CreatedAt.
ReadyStatusRenewed ==
    [bucket |-> app.spec.bucket, region |-> app.spec.region,
     policy |-> app.spec.policy, at |-> now]

\* The status of a finished reconcile is built from the spec as it stands now.
ReadyStatus ==
    [bucket |-> app.spec.bucket, region |-> app.spec.region,
     policy |-> app.spec.policy,
     at |-> IF app.status = Nil THEN now ELSE app.status.at]

\* History: the bucket a spec names is kept from now on, or no longer.
MarkKept(spec, keep) ==
    cloud' = [cloud EXCEPT ![spec.bucket][Resolved(spec.region)] =
                 IF @ = Nil THEN Nil ELSE [@ EXCEPT !.kept = keep]]

recordReady ==
    /\ pc = "ready"
    /\ \/ app.spec = Nil /\ Return(TRUE) /\ UNCHANGED <<obj, cloud>>
       \/ /\ app.spec # Nil /\ RetryStatusUpdate(ReadyStatus)
          /\ MarkKept(app.spec, app.spec.policy = "Retain" /\ obj.spec = app.spec)
          /\ Goto("children") /\ mgr' = Nil /\ UNCHANGED <<queued, ret>>
       \/ /\ app.spec # Nil /\ obj = Nil
          /\ Goto("setFailed") /\ UNCHANGED <<obj, queued, app, base, mgr, ret, cloud>>
    /\ UNCHANGED <<cache, history, counters>>

\* Mutant: a failed attempt resets Status.Storage.
FailedStatusMutant == Nil

\* SetNotReady and SetNotOwned change a condition, never Status.Storage.
FailedStatus == app.status

storageFailed ==
    /\ pc = "storageFailed"
    /\ BestEffort(RetryStatusUpdate(FailedStatus))
    /\ Goto("setFailed")
    /\ UNCHANGED <<cache, queued, mgr, ret, cloud, history, counters>>

\* The storage Secret, the other children and the readiness check; a settled
\* Application with storage comes back after the resync interval.
SetReady ==
    /\ pc = "children"
    /\ \/ /\ obj # Nil
          /\ obj' = WithConditions("Ready")
          /\ Return(obj.spec # Nil)
       \/ obj = Nil /\ UNCHANGED obj /\ Return(TRUE)
    /\ UNCHANGED <<cache, cloud, history, counters>>

SetFailed ==
    /\ pc = "setFailed"
    /\ \/ /\ obj # Nil
          /\ obj' = WithConditions("NotReady")
       \/ obj = Nil /\ UNCHANGED obj
    /\ Return(TRUE)
    /\ UNCHANGED <<cache, cloud, history, counters>>

-----------------------------------------------------------------------------
(* Failures: a call returns an error that is not a version conflict or,    *)
(* for a status write, five conflicts in a row; or the operator crashes.   *)

Fault == pc \in FaultAt /\ faults < MaxFaults /\ faults' = faults + 1

\* What a failed status write leaves in memory: the status it wanted, or the
\* informer's copy its last attempt re-read.
FailedWrite(st) ==
    \/ app' = [app EXCEPT !.status = st] /\ UNCHANGED base
    \/ obj # Nil /\ base # obj /\ cache # Nil /\ app' = cache /\ base' = cache

\* Errors that leave Reconcile without touching the conditions.
CallFailsOutright ==
    /\ pc \in {"reconciling", "finalizer", "removeFinalizer", "setFailed"}
    /\ pc = "reconciling" => app.cond # "Reconciling"
    /\ pc = "finalizer" => ~app.del /\ ~app.fin
    /\ Fault /\ Return(TRUE)
    /\ UNCHANGED <<obj, cache, cloud, history, now, edits, outside>>

\* A best-effort write is lost; the reconcile goes on.
BestEffortWriteFails ==
    /\ pc \in {"cleanup", "cleanupFailed", "storageFailed"} /\ Fault
    /\ \/ /\ pc = "cleanup" /\ BeginCleanup /\ UNCHANGED <<queued, ret>>
          /\ IF ret = "deletion" THEN FailedWrite(app.status)
             ELSE UNCHANGED <<app, base>>
       \/ /\ pc = "cleanupFailed" /\ ret = "deletion" /\ Return(TRUE)
          /\ UNCHANGED retained
       \/ /\ pc = "cleanupFailed" /\ ret # "deletion" /\ Goto("setFailed")
          /\ UNCHANGED <<queued, app, base, mgr, ret, retained>>
       \/ /\ pc = "storageFailed" /\ FailedWrite(app.status) /\ Goto("setFailed")
          /\ UNCHANGED <<queued, mgr, ret, retained>>
    /\ UNCHANGED <<obj, cache, cloud, madeAt, now, edits, outside>>

\* A request to the provider fails, and yet may have taken effect.  Emptying is
\* many requests: those that went through can have included the marker's.
LateEffect ==
    \/ /\ pc = "create" /\ Lookup(mgr.bucket, mgr.region) = "absent" /\ MakeBucket
    \/ /\ UNCHANGED madeAt
       /\ There # Nil
       /\ \/ pc = "tag" /\ PutOwner
          \/ pc = "empty" /\ \E full \in {There.full, FALSE} :
                SetBucket([Emptied(There) EXCEPT !.full = full])
          \/ pc = "deleteBucket" /\ ~NonEmpty(There) /\ SetBucket(Nil)

CloudCallFails ==
    /\ pc \in {"verify", "empty", "deleteBucket", "head", "create", "claim",
               "tag", "configure"}
    /\ Fault
    /\ Goto(IF pc \in {"verify", "empty", "deleteBucket"} THEN "cleanupFailed"
            ELSE "storageFailed")
    /\ UNCHANGED <<cloud, madeAt>> \/ LateEffect
    /\ UNCHANGED <<api, app, base, mgr, ret, retained, now, edits, outside>>

\* A status write that must succeed does not.
StatusWriteFails ==
    /\ pc \in {"record", "clearStatus", "ready"} /\ Fault
    /\ pc = "ready" => app.spec # Nil
    /\ Goto(IF pc = "record" THEN "storageFailed" ELSE "setFailed")
    /\ FailedWrite(CASE pc = "record" -> CreationRecord
                     [] pc = "ready" -> ReadyStatus
                     [] OTHER -> Nil)
    /\ UNCHANGED <<api, mgr, ret, cloud, history, now, edits, outside>>

\* The annotation cannot be patched, though the patch may have taken effect; a
\* child cannot be reconciled; or the Application is not ready yet.
DesiredStateFails ==
    /\ pc \in {"ownershipID", "children"} /\ Fault
    /\ \/ Goto("setFailed") /\ UNCHANGED <<obj, queued, app, base, mgr, ret>>
       \/ /\ pc = "ownershipID" /\ PatchOwnershipID
          /\ Goto("setFailed") /\ UNCHANGED <<queued, app, base, mgr, ret>>
       \/ /\ pc = "children"
          /\ obj # Nil /\ obj' = WithConditions("NotReady") /\ Return(TRUE)
    /\ UNCHANGED <<cache, cloud, history, now, edits, outside>>

\* A restarted operator lists every Application and queues it.
Crash ==
    /\ Fault
    /\ pc' = "idle" /\ app' = Nil /\ base' = Nil /\ mgr' = Nil /\ ret' = "none"
    /\ cache' = obj /\ queued' = TRUE
    /\ UNCHANGED <<obj, cloud, history, now, edits, outside>>

-----------------------------------------------------------------------------
(* The informer, the user, the clock, and everybody else.                  *)

\* applicationChangePredicate: a new generation, a deletion, or the object gone.
CacheSync ==
    /\ cache # obj
    /\ cache' = obj
    /\ queued' = (queued \/ obj = Nil \/ cache.spec # obj.spec \/ cache.del # obj.del)
    /\ UNCHANGED <<obj, worker, cloud, history, counters>>

\* A child object or a watched Secret changes.
OwnedEvent ==
    /\ ~queued /\ queued' = TRUE
    /\ UNCHANGED <<obj, cache, worker, cloud, history, counters>>

\* The webhook: an identity field may be set or cleared, never changed.
validateStorageIdentityImmutable(old, new) ==
    old # Nil /\ new # Nil =>
       /\ old.bucket = new.bucket
       /\ old.region = "" \/ new.region = "" \/ old.region = new.region

UserEdit(s) ==
    /\ obj # Nil /\ s # obj.spec /\ edits < MaxEdits
    /\ ~obj.del => validateStorageIdentityImmutable(obj.spec, s)
    /\ obj' = [obj EXCEPT !.spec = s, !.cond = "NotReady"]
    /\ IF s # Nil /\ s.policy = "Delete" THEN MarkKept(s, FALSE) ELSE UNCHANGED cloud
    /\ edits' = edits + 1
    /\ UNCHANGED <<cache, queued, worker, history, now, faults, outside>>

UserDelete ==
    /\ obj # Nil /\ ~obj.del
    /\ obj' = IF obj.fin THEN [obj EXCEPT !.del = TRUE, !.cond = "NotReady"] ELSE Nil
    /\ UNCHANGED <<cache, queued, worker, cloud, history, counters>>

\* More than bucketCreationClaimWindow passes: never within a reconcile, whose
\* cloud calls storageReconcileTimeout and finalizerCleanupTimeout cut short, nor
\* before the informer has seen the last write.
Tick ==
    /\ pc = "idle" /\ cache = obj /\ now < MaxNow /\ now' = now + 1
    /\ UNCHANGED <<api, worker, cloud, history, faults, edits, outside>>

Outside(move, b, r, v) ==
    /\ move \in OutsideMoves /\ outside < MaxOutside /\ outside' = outside + 1
    /\ cloud' = [cloud EXCEPT ![b][r] = v]
    /\ UNCHANGED <<api, worker, history, now, faults, edits>>

\* Drift: the bucket is deleted behind the operator's back.
OutsideDelete(b, r) == cloud[b][r] # Nil /\ Outside("delete", b, r, Nil)

\* Another party creates a bucket of that name, tagged as its own or not.
OutsideCreate(b, r) ==
    /\ Lookup(b, r) = "absent"
    /\ \E o \in {"none", "other"}, f \in BOOLEAN :
         Outside("create", b, r,
                 [creator |-> "other", owner |-> o, full |-> f, kept |-> FALSE])

\* The workload writes to its bucket, also while it is being deleted, when on
\* Akamai the marker is gone already.
WorkloadWrites(b, r) ==
    /\ cloud[b][r] # Nil /\ ~cloud[b][r].full
    /\ cloud[b][r].creator = "me" \/ cloud[b][r].owner = "me"
    /\ Outside("write", b, r, [cloud[b][r] EXCEPT !.full = TRUE])

-----------------------------------------------------------------------------

WorkerStep ==
    \/ Get \/ SetReconciling \/ handleFinalizer
    \/ finalizeApplication \/ verifyOwnership \/ emptyBucket \/ deleteBucket
    \/ failStorageCleanup \/ removeFinalizer \/ clearStatus
    \/ ensureStorageOwnershipID \/ headBucket \/ CreateBucket \/ recordBucketCreated
    \/ claimOrVerifyOwnership \/ tagAsOwned \/ configureBucket
    \/ recordReady \/ storageFailed \/ SetReady \/ SetFailed

FaultStep ==
    \/ CallFailsOutright \/ BestEffortWriteFails \/ CloudCallFails
    \/ StatusWriteFails \/ DesiredStateFails \/ Crash

UserStep == (\E s \in SpecChoices : UserEdit(s)) \/ UserDelete

OutsideStep == \E b \in Buckets, r \in Regions :
    OutsideDelete(b, r) \/ OutsideCreate(b, r) \/ WorkloadWrites(b, r)

Next == WorkerStep \/ FaultStep \/ CacheSync \/ OwnedEvent \/ UserStep \/ Tick \/ OutsideStep

Spec == Init /\ [][Next]_vars

\* The worker takes its next call and the informer catches up; nobody is
\* obliged to fail, edit, delete or interfere.
Fairness == WF_vars(WorkerStep) /\ WF_vars(CacheSync)

FairSpec == Spec /\ Fairness

-----------------------------------------------------------------------------
(* Properties. *)

Mine(b, r) == cloud[b][r] # Nil /\ cloud[b][r].creator = "me"

AllMineRetained ==
    \A b \in Buckets, r \in Regions : Mine(b, r) => <<b, r>> \in retained

\* While the object exists and one of its buckets does, the object carries the
\* finalizer, so it cannot vanish without the cleanup: handleFinalizer comes
\* before ensureDesiredState and its Update must have succeeded, and nothing
\* else takes the finalizer away, however stale the copy a reconcile works on.
FinalizerGuards ==
    (\E b \in Buckets, r \in Regions : Mine(b, r)) => obj = Nil \/ obj.fin

\* A bucket is created only for an Application that still exists and carries
\* the finalizer, also when it is deleted while the reconcile runs
\* (ensureBucketExists, CreateBucket).
CreatesOnlyGuarded == pc \in {"create", "record"} => obj # Nil /\ obj.fin

\* Once the object is gone, every bucket the operator ever made for it is gone
\* or was left behind on purpose, under Retain (finalizeApplication).
NoOrphanAfterGone == obj = Nil => AllMineRetained

Destroying == pc \in {"empty", "deleteBucket"} /\ There # Nil

\* However old the copy a reconcile works on: in the very step that takes the
\* object away, no bucket of it is left but the retained ones
\* (finalizeApplication, removeFinalizer).
LeavesNoneBehind == [][obj # Nil /\ obj' = Nil => AllMineRetained]_vars

\* A bucket the Application has been ready on under Retain is not emptied or
\* deleted, whatever fails or is edited, unless the user asks for Delete.
RetainedSurvives == Destroying => ~There.kept

\* CreatedAt is never later than the operator's last creation of a bucket of
\* that name: reconciling an owned bucket does not extend the claim window.
CreatedAtHonest ==
    obj # Nil /\ obj.status # Nil => obj.status.at <= madeAt[obj.status.bucket]

\* A bucket that somebody else made under a name the operator once used is
\* tagged as its own only if the operator created that name within the window.
ClaimsBackedByCreation ==
    pc = "tag" /\ There # Nil =>
       There.creator = "me" \/ Adopt \/ madeAt[mgr.bucket] = now

\* Status.Storage, once written, is given up by cleanupPreviousStorage only: no
\* failure of a later call erases the record of a bucket.
StatusNotLost ==
    [][obj # Nil /\ obj' # Nil /\ obj.status # Nil /\ obj'.status = Nil
         => pc \in {"clearStatus", "setFailed"} /\ ret # "deletion"]_vars

\* The storage ownership ID is generated once and never replaced: it has to
\* outlive the UID (ensureStorageOwnershipID).
OwnershipIDStable ==
    [][obj # Nil /\ obj' # Nil /\ obj.id # 0 => obj'.id = obj.id]_vars

\* However old the copy: an ID is replaced only by a reconcile whose copy is from
\* before the first ID, never by one that has seen any (ensureStorageOwnershipID).
IDReplacedOnlyByStale ==
    [][obj # Nil /\ obj' # Nil /\ obj.id # 0 /\ obj'.id # obj.id
         => pc = "ownershipID" /\ base # obj /\ base.id = 0]_vars

\* A deletion the API server has accepted completes.
DeletionCompletes == (obj # Nil /\ obj.del) ~> (obj = Nil)

\* An Application does not stay away from Ready for ever.
BecomesReady == []<>(obj = Nil \/ obj.cond = "Ready")

\* Removing spec.storage from a live Application is followed through: in the
\* end the status is clear and no bucket is left but the retained ones.
RemovalCompletes ==
    (obj # Nil /\ obj.spec = Nil)
       ~> (obj = Nil \/ obj.spec # Nil \/ (obj.status = Nil /\ AllMineRetained))

\* The Application's life, as StoragePromise tells it.
Phase ==
    IF obj = Nil THEN "gone"
    ELSE IF obj.del THEN "deleting" ELSE IF obj.fin THEN "guarded" ELSE "fresh"

Promise == INSTANCE StoragePromise WITH
    Places <- Buckets \X Regions,
    Late <- Lag = "any",
    phase <- Phase,
    mine <- {p \in Buckets \X Regions : Mine(p[1], p[2])},
    kept <- retained

\* Every step of the reconcile loop, whatever fails, is a step the storage
\* promises or none at all: the finalizer precedes every creation, its removal
\* comes after every bucket has gone or was left behind on purpose, and only a
\* reconcile that started on an old copy creates one after it (handleFinalizer,
\* finalizeApplication).
ImplementsPromise == Promise!Spec

=============================================================================

# forge-operator in TLA+

forge-operator is a Kubernetes operator.  For every `Application` object it
keeps a Deployment and its companions in the cluster and, if `spec.storage` is
set, a bucket at a cloud provider (S3 or Akamai Object Storage).  This directory
models the part that can lose data or leak money: the life cycle of that bucket,
who may call it his own, and the credentials that open it; and the part that
keeps the workload running: its child objects, the Ready condition and the watches
behind them.  All of it across an API server, informer caches, a cloud provider,
crashes, retries and a user who edits the object at any moment.

## Inventory

| part | state it keeps | operations | what makes it correct |
|---|---|---|---|
| reconcile loop (`application_controller.go`, `desiredstate.go`) | the workqueue key; an in-memory copy of the Application | `Reconcile`, `ensureDesiredState` | every error path brings the key back; a deletion completes; a live Application becomes Ready |
| finalizer (`finalizer.go`) | `metadata.finalizers` | `handleFinalizer`, `finalizeApplication`, `retainStorage`, `failStorageCleanup` | no bucket without a finalizer; no bucket left behind but a retained one |
| storage (`storage.go`, `storagestatus/`) | `status.storage`, the ownership ID annotation | `reconcileStorage`, `cleanupPreviousStorage`, `ensureStorageOwnershipID`, `retryStatusUpdate` | the record of a bucket is not lost; Retain is respected; the ownership ID is generated once |
| S3 manager (`s3/`) | bucket, tags | `ensureBucketExists`, `claimOrVerifyOwnership`, `tagAsOwned`, `CleanupBucket` | only a bucket of its own is claimed, emptied or deleted |
| AWS credentials (`s3/`, `serviceaccount.go`) | IAM role, ServiceAccount and its annotation | `ReconcileAppIRSA`, `reconcileServiceAccount`, `annotateServiceAccountWithIRSA`, `cleanupAppIRSA` | the role trusts the account the pods use; no role or account is left without a trace; the two applies of one reconcile do not undo each other for ever |
| Akamai manager (`akamaiobjstr/`) | bucket, marker object, access key | the same, `ensureAccessKey` | the same; key and secret belong together |
| status manager (`status/`) | the conditions | `SetReconciling`, `SetReady`, `SetFailed`, `UpdateStatus` | a conflict never overwrites newer data; conditions belong to their generation |
| ownership (`naming/naming.go`) | tags naming UID, namespace, ownership ID | `EvaluateBucketAdoption`, `ApplicationExistsWithUID` | at most one live Application owns a bucket |
| webhook (`internal/webhook`) | none | `Default`, `ValidateCreate`, `ValidateUpdate` | a storage identity does not change under a live Application |
| watches (`predicates.go`) | none | the predicates | no change that matters is filtered out, no self-inflicted loop |
| children (`deployment.go`, `service.go`, ...) | the owned objects | one `reconcile...` each | each converges to its desired state; nothing is left of a rename or a toggle; operator and HPA do not fight over `spec.replicas` |
| readiness (`status/computeReady.go`, ...) | none | `EvaluateComputeReadiness` | Ready says what is true of the children, once they are at rest |
| rate limiting (`ratelimit/`) | token buckets | `Wait`, `RampUp` | the ramp ends at the configured rate; not modelled |
| start-up, metrics, generated code, charts, Terraform | - | - | not modelled |

The parts interact through the Application object (the spec flows in, finalizer,
annotation and status flow out), through the informer's copy of it, which every
`Reconcile` starts from and which may be older than the operator's own last
write, and through the provider, whose requests may fail, take effect although
they fail, or meet a bucket that somebody else touched.  The hard behaviours are
listed with their lines under `hazards` in `PROJECT.json`.

## Modules

* `StorageLifecycle` - one Application and its buckets, both providers;
  `MCStorageLifecycle` has the values of its constants for TLC,
  `StorageLifecycle_proofs` its type correctness, `StorageGuards_proofs` the
  finalizer theorems and `StorageRecord_proofs` those about what the object keeps
  on record (the ownership ID, `Status.Storage`, the policy).
* `StoragePromise` - what the storage of one Application promises, without calls,
  copies or failures; `StorageLifecycle` implements it (`Promise`,
  `ImplementsPromise`), which `StoragePromise_proofs` proves, with the theorems on
  where buckets can be and when they were created.
* `BucketOwnership` - several Applications that name one bucket, both providers;
  `MCBucketOwnership`, `BucketOwnership_proofs`.
* `AccessKeys` - the Akamai access key and the storage Secret of one Application;
  its configurations instantiate it directly; `AccessKeys_proofs`.
* `IRSA` - the IAM role and the ServiceAccount of one Application on S3; `MCIRSA`,
  `IRSA_proofs`.
* `Workload` - the other children of one Application and its Ready condition;
  `MCWorkload`, `Workload_proofs`.

They look at the same reconcile from five sides.  Each keeps the requests
that its questions are about as steps of their own and merges the others: what
`StorageLifecycle` says in full about one Application's object (edits, conflicts,
stale copies) is not repeated in `BucketOwnership`, and what it says about the
bucket is not repeated in `AccessKeys` or `IRSA`.  `Workload` is about an Application
without storage, which no resync interval brings back: there every change has
to be noticed through a watch.

### StorageLifecycle: state

| variable | in the code |
|---|---|
| `obj` | the Application at the API server: `spec.storage`, `status.storage`, finalizer, deletion timestamp, conditions (three classes), ownership ID annotation; `Nil` once it is gone |
| `cache` | the informer's copy, read by `client.Get` |
| `queued` | the key in the workqueue |
| `pc`, `app`, `base`, `mgr`, `ret` | the worker: its next call, its in-memory Application, the version that was read as, the storage manager with the status of the snapshot it works on, and on whose behalf a cleanup runs |
| `cloud` | the provider: a bucket per name and region, with its ownership tag or marker, whether it has objects, who made it |
| `now` | time, in units of `bucketCreationClaimWindow` |
| `retained`, `madeAt`, the fields `creator` and `kept` | history, for the properties only |

A step of the worker is one call to the API server or the provider, with the
local decisions that follow it; everything else can happen between two calls.
The actions bear the names of the Go functions.  `CallFailsOutright`,
`BestEffortWriteFails`, `CloudCallFails`, `StatusWriteFails` and
`DesiredStateFails` are the error paths, told apart by what the code does next;
`LateEffect` is a request that failed for the caller and yet took effect;
`Crash` is a restart, after which the informer lists every Application.

Points worth knowing when comparing with the code:

* An optimistic-concurrency conflict is `base # obj`: versions are compared by
  content.  Edits that cancel out would cost one more re-read of equal content.
* `retryStatusUpdate` re-reads through the informer, so after a conflict its
  write waits until the cache shows the present object (`Writable`); it then
  writes the *whole* desired status.  `UpdateStatus` re-reads from the API server
  and writes only the conditions.
* The copy of `cleanupPreviousStorage` is a throwaway, so a status write made on
  it leaves `app` and `base` as they were (`SnapshotStatusUpdate`).
* The creation record (`CreationRecord`) has neither a region nor a policy.
* An unset region and the default region are different identities to
  `reconcileStorage` and the same region to the managers (`Resolved`).
* S3 names are global: a request to the wrong region is redirected
  (`"elsewhere"`).  Akamai buckets exist per region.
* Akamai's marker is an object, so emptying the bucket removes the proof of
  ownership; the workload may still write to the bucket until it is deleted.
  An Akamai bucket that is gone when it is to be emptied fails the attempt, an S3
  bucket does not.
* The copy that a reconcile starts on comes from the informer and its age is not
  checked (`Get`).  `Lag` says what it may miss: nothing (`"none"`), the users'
  latest writes (`"users"`: the copy shows what this operator wrote last,
  `OwnWritesSeen`), or anything (`"any"`, which is what the code allows).
* `spec.storage` can vanish between two calls of one reconcile; where the code
  then dereferences nil, controller-runtime recovers the panic and requeues.
* The children and the storage Secret are one step, after storage; a child that
  fails before storage (ConfigMap, ServiceAccount) ends the reconcile in the same
  `SetFailed`.  A requeue after the resync interval is an immediate one.

### BucketOwnership: state and actions

| variable | in the code |
|---|---|
| `listed` | the Applications in the informer's cache |
| `life`, `id`, `rec`, `ready` | per Application (one UID): its life, its ownership ID annotation, the creation record (none, within, beyond the claim window), its StorageReady condition |
| `pc`, `seen` | its reconcile: the next request, and the tag whose adoption it evaluates |
| `bucket`, `tag` | the bucket and its S3 tag or Akamai marker: UID, namespace, ownership ID |
| `holders` | history: who became ready on the bucket as it is |

* At most `Workers` Applications are reconciled at a time
  (`MaxConcurrentReconciles`, five by default).
* The tag is read (`claimOrVerifyOwnership`), the previous owner looked up
  (`EvaluateBucketAdoption`) and the tag written (`tagAsOwned`) in separate
  requests, and so are verification, emptying and deletion.
* A restored Application is a new UID that brings back the ownership ID of one
  that is gone (`UserCreate`).  Two existing Applications with the same ID, which
  a user could make by copying the annotation, are left out.
* Initially there may be a bucket of an operator from before namespaces and
  ownership IDs; its tag is backfilled.
* The list behind `ApplicationExistsWithUID` comes from the informer (`listed`):
  an Application that was just created or restored may be missing from it, and
  one that is gone may still be in it.  That an Application is reconciled only
  once the informer shows it, and so never tags a bucket before, is what makes
  this harmless with one worker.
* Whether a workload wrote to a bucket that is being deleted is not a variable:
  `deleteBucket` may fail when there is anybody who could have.
* A failed creation, tagging, emptying or deletion may have taken effect
  (`LateEffect`).  At `"ready"` it is a bucket configuration or the status write
  that fails; only some of these take the Ready flag away.

### AccessKeys: state and actions

| variable | in the code |
|---|---|
| `life`, `spec`, `status` | the Application; of a storage: bucket, Secret name, Retain or not |
| `keys` | the access keys at the provider with the Application's label |
| `secrets` | the storage Secrets, each a pair of halves |
| `bucket` | per name: absent, with this Application's marker, or somebody else's |
| `pc`, `job`, `app`, `mgr`, `found`, `creds` | the worker: next request, on whose behalf, its copy of the Application, the manager's, the key found by label, the `AccessKeyResult` |
| `lost` | history: did the last reconcile that had the present key to deal with give it up? Reset whenever a key is found or made |

* A key's ID stands for both halves.  The provider shows the access half in a
  listing and the secret half only in the answer to the creation.
* A key found by its label is paired with whatever secret half the storage Secret
  has (`listKeys`), which may be that of an earlier key.  Such a pair is refused
  (`Accepted`), and a refusal looks like a bucket that is not owned.
* Secrets are read live (`cmd/main.go` disables the cache for them).  A read that
  fails counts as an empty Secret, and a key without a secret half is deleted and
  made anew (`SecretReadFails`, `deleteUnusableKey`).
* Status writes refresh the worker's copy (`app`), so `spec.storage` may vanish
  in the middle; the creation record has neither the Secret's name nor the
  policy.
* Key IDs that nothing refers to any more are used again, so the state space is
  finite for any length of behaviour.
* `ensureBucketExists` is one step: head, creation, record and marker are
  `StorageLifecycle`'s subject, request by request.  What matters to the key is only
  whether the reconcile ends with an own bucket, a foreign one or an error.

### IRSA: state and actions

| variable | in the code |
|---|---|
| `obj`, `policy` | the Application: its ServiceAccount's name, whether the operator is to create it, whether there is a `spec.storage`; `status.storage` as nothing, the creation record, or the full status, which alone has the role's ARN and the policy |
| `pc`, `app`, `sub`, `irsaErr` | the worker: next call, its copy of the Application, the `serviceAccountName` of the manager it made, and whether this cleanup failed to delete the role |
| `accounts` | per name: no account, a user's, or one that the Application controls, without or with the `role-arn` annotation |
| `seen`, `events` | the accounts in the informer's list, and those with an event to come that passes `ownedContentChangedPredicate` |
| `role`, `bucket`, `uploads` | the IAM role with the account its trust policy names and its access policy; the bucket and its unfinished multipart uploads |
| `reported` | history: a Warning Event has told of a role left behind |

* The ServiceAccount is applied twice in a reconcile, before and after storage,
  under one field manager: what the first apply leaves out is removed
  (`Apply`, `CarriesRole`).
* A forced apply takes over a user's account of that name.  The change of owner
  is not a change the predicate lets pass (`Changed`).
* The manager keeps the account name of when it was made, while a status write
  refreshes the Application; so trust policy and annotation of one reconcile may
  belong to two specs (`sub`).
* `cleanupAppIRSA` runs first and its failure does not stop the cleanup; it becomes
  an Event once the bucket is gone (`deleteBucket`), or at once under Retain,
  where a manager that cannot be made is only logged (`RoleCleanupFails`).
* `abortMultipartUploads` aborts what one listing returns (`Page`), and S3 refuses
  to delete a bucket with unfinished uploads.
* Creating the bucket and recording it is one step here, the finalizer is on, and
  a reconcile starts from the Application as it is (`Get`); the questions these
  leave out are `StorageLifecycle`'s.
* `ReconcileRole` merges the read of the role with its creation or the update of its
  trust policy: nobody but this operator makes or changes the role, and one that
  others delete in between is an error and a retry, as in `CallFails`.

### Workload: state and actions

| variable | in the code |
|---|---|
| `spec`, `queued` | the Application's spec (ConfigMap, replicas, which optional children) and its key |
| `pc`, `app` | the worker: its next call and its copy of the spec |
| `kids` | Service, Deployment, Ingress, PDB and HPA at the API server; `up` says whether the status, for the present generation, counts as ready |
| `configs` | the ConfigMaps the Application controls |
| `seen`, `configsSeen`, `events` | the informers' copies, and the objects with an event to come that passes its predicate |
| `scalers` | the field managers that own the Deployment's `spec.replicas` |
| `ready` | the Ready condition |

* Children are read from informers in three places: the list of stale ConfigMaps,
  whether the Deployment exists (`DesiredReplicas`), and readiness
  (`EvaluateComputeReadiness`).  Everything else is a blind apply or delete.
* `ApplyReplicas` is server-side apply as far as one field goes: forced, shared
  by managers that set the same value, and reset to the default of 1 when its
  only manager stops applying it.
* A change of a Deployment's spec is a new generation, which no status covers.
* A PDB or HPA without a status counts as ready, an Ingress does not (`Fresh`).
* `EvaluateComputeReadiness` reads the children one after the other from the
  informers; here at one instant.  A copy that changes between two of these reads
  comes with an event that queues the key (`SyncChild`), so what a mixed reading
  makes of Ready is computed anew before anything is at rest.
* Stale ConfigMaps are deleted in one step, but a failure may leave any part of them.
* The readiness requeue after ten seconds is an immediate one, and so is the retry
  of a failed call.
* The pod template is reduced to the ConfigMap it mounts.  The webhook's rule that
  a mounted ConfigMap is not removed is met by every spec, since the name is
  taken from `spec.config`.

### StoragePromise and the refinement

The abstract state is the Application's `phase` (fresh, guarded by its finalizer,
deleting, gone), where the buckets are that the operator made for it (`mine`), and
where one was left under Retain (`kept`).  `Late` says whether a reconcile may miss
the Application's end and make or keep a bucket after it; it is true exactly where
copies of any age are read (`Lag = "any"`).  Its steps: the finalizer is stored, a
bucket is made, removed or kept, the user deletes, the finalizer is removed - the
last only when every bucket has gone or was kept, the first before any is made.
`StorageLifecycle` maps `phase` from the object (`Phase`), `mine` from the provider's
buckets by their creator, `kept` from `retained`; everything else (calls, copies,
conflicts, tags, time) stutters.

### Bounds

For `StorageLifecycle`:

| constant | value | why it is enough |
|---|---|---|
| `Buckets`, `Regions` | 1 name; 1 region (2 in the violation) | one Application manages one bucket at a time; a spec whose region is spelt out and a record without one are two identities in one region already |
| `MaxFaults` | 2 (0 in the violation) | one failure leaves a partial state, a second one hits the recovery from it |
| `MaxEdits` | 1 (0 in the violation) | one edit in the middle of what a failure left; two were checked for `RetainedSurvives`, see Findings |
| `MaxOutside` | 1 or 2 | 2: the bucket is deleted and its name taken |
| `Lag` | `"users"`; `"any"` in `SL_lag` and the violation | see below |
| `MaxNow` | 0 or 1 | one tick is more than the claim window |
| `OwnershipIDs` | 2 values | a fresh ID differs from the present one |

For `BucketOwnership`: three Applications in two namespaces with one grant (owner,
adopter next door, adopter abroad; where liveness is checked two Applications, of
which the one that may not adopt can be restored from the one that retains),
one or two workers (a race has two parties), one failure and one outside
deletion.  For `AccessKeys`: two buckets and two Secret names (a move and a
rename), four key IDs (a key, a Secret's halves and a new one), one failure, one
edit and one outside move; a failure together with a deleted key is what it takes
to pair the halves of two keys.

For `IRSA`: two account names (a rename), four specs (two names, a hand-over to the
user, no storage), a page of one upload and up to two of them (one more than a
page), one edit, one failure or crash, one outside move; two edits were checked
too (1.3 million states).  For `Workload`: two specs that differ in everything
(ConfigMap, HPA, Ingress), an HPA that wants two replicas where neither
`spec.replicas` nor the default will do, one edit and one mishap.  The PDB, which is
handled by the same code shape as the HPA, is never asked for there; `WL_seed`
has one.

`CHECK_DEADLOCK FALSE` is set because the system may rightly stop: the object is
gone, or an Application without storage is settled, as all of them are in
`Workload` (or, in `BucketOwnership`, every Application is).

### Runs

| run | shows |
|---|---|
| `SL_aws` | on S3: `TypeOK`; buckets are created only for an existing, guarded object (`CreatesOnlyGuarded`); none is orphaned when the object goes (`NoOrphanAfterGone`); `CreatedAt` never moves past the real creation (`CreatedAtHonest`) and so an untagged bucket that others made is claimed only within the window of a creation (`ClaimsBackedByCreation`); the record of a bucket survives failures (`StatusNotLost`); every step is one that `StoragePromise` allows, or none (`ImplementsPromise`) |
| `SL_akamai` | on Akamai, with a spec whose region is spelt out, so that after a failure the creation record counts as another identity and is cleaned up, while `spec.storage` may be edited or removed: `NoOrphanAfterGone`, `RetainedSurvives` (a bucket that was ready under Retain is not emptied or deleted) and the liveness properties `DeletionCompletes`, `BecomesReady`, `RemovalCompletes` |
| `SL_lag` | on S3, with copies of any age: `FinalizerGuards`; no bucket is left when the object goes (`LeavesNoneBehind`); an ownership ID is replaced only by a reconcile that has seen none (`IDReplacedOnlyByStale`); `ImplementsPromise`, with `Late` |
| `SL_stale_retain` | violation: `RetainedSurvives` with a lagging informer |
| `BO_serial` | on S3, one reconcile at a time: `TypeOK`; only the Application the tag names works with the bucket (`OneHolder`); a cleanup spares the data of others (`SparesOthers`); a tag is overwritten only when its Application is gone (`TakenFromTheGone`); a bucket leaves its namespace by a grant or its ownership ID (`AdoptionScoped`) |
| `BO_parallel` | on Akamai, two at a time, under fairness: a restored Application gets its bucket back (`RestoredReclaims`), and of two that are ready on one bucket, the one that the marker does not name learns of it (`DisputesEnd`) |
| `BO_takeover` | violation: `TakenFromTheGone` with two workers |
| `AK_akamai` | `TypeOK`; one key per label (`OneKey`); no Secret with halves of two keys (`SecretPairs`); no key outlives the Application unless the last reconcile that had it gave it up (`NoKeyLeft`); under fairness the storage Secret comes to hold a key that works (`CredentialsRecover`) and a deletion that needs the key completes (`FinalizeCompletes`) |
| `AK_transient` | violation: `GoodKeyKept` |
| `WL_children` | `TypeOK`; whenever nothing is under way the children are what the spec asks for (`QuietMatches`), Ready says of them what is true (`QuietReady`) and no ConfigMap is left of a rename (`QuietConfigMaps`); under fairness the Application becomes Ready for good with a replica count nobody fights over (`Settles`) |
| `WL_seed` | violation: `SeedKept` |
| `IR_aws` | `TypeOK`; under Delete no role outlives what tracks it without an Event (`NoRoleLost`); under fairness the role comes to trust the account the pods run under and that account names the role (`WorkloadGetsRole`), the applies leave the accounts alone in the end (`AccountsSettle`), an Application with storage controls one account and a gone one none (`NoOrphanAccount`), and a deletion completes although an attempt aborts a page of uploads at most (`DeletionCompletes`) |

The passing runs of `StorageLifecycle` but `SL_lag` set `Lag = "users"`: a reconcile
may start on a copy that misses edits and the deletion, but not what the operator
wrote last.  The code does not guarantee that: it reads the informer's cache and a
requeued key may be faster.  So these runs show what the code makes of failures,
crashes and edits apart from this one weakness; `SL_lag` shows what holds all the
same, and `SL_stale_retain` and the list under Findings what does not.

Fairness (`SL_akamai`): weak fairness of the
worker's next call (controller-runtime keeps its workers running and every call
has a timeout) and of the informer catching up.  Nothing obliges a call to fail,
a user to act or time to pass.  The liveness run leaves out failures at
`create` and `record` (`RecordedPoints`): a bucket that exists without a record is
by design treated as foreign until somebody adopts it.  It also stays within one
claim window (`MaxNow = 0`); the list under Findings says what happens beyond it.
`BO_parallel` assumes weak fairness of every reconcile's next request and strong
fairness of its start: the workqueue is a FIFO, so a key that keeps coming back
is served although all workers are busy now and then.  `AK_akamai` assumes weak
fairness of the worker: an error requeues the key, a success brings it back
after the resync interval.  `IR_aws` assumes the same, and weak fairness of the
informer and of the garbage collector; `WL_children` weak fairness of the worker, of
the informers, of the controllers that report a child's status (pods that can
start do start) and of the HPA controller bringing the Deployment into its range.
Nothing obliges an HPA to scale within its range or anything to break.

### Findings

Each has a violation run; the exact quotes are in `PROJECT.json`.

1. `SL_stale_retain`: without any failure, a reconcile that starts on the copy with
   the partial creation record, which has no region, deletes a bucket that is ready
   under `Retain`.
2. `BO_takeover`: adoption is evaluated and the tag overwritten in two requests; two
   adopters may both find the old owner gone, and the second takes the bucket from
   the first, which is already ready on it.  With two workers `OneHolder` and
   `SparesOthers` fail for the same reason, and `DisputesEnd` is what remains.
3. `AK_transient`: any failure to read the marker counts as a bucket that is not
   owned, while provisioning as in a cleanup, so one timeout deletes a working access
   key that a workload may be using.  `CredentialsRecover` says that the next
   reconcile makes up for it.
4. `WL_seed`: the second reconcile of an autoscaled Application leaves out
   `spec.replicas`, of which the operator is still the only owner, so the Deployment
   falls back to one replica until the HPA scales it up again.

Other constants show more of the same kinds.  Not kept as runs, for one run per
question, but easily brought back in a `.cfg`:

* Akamai, `DeletionCompletes`, `MaxNow = 1`, `FaultAt = {"deleteBucket"}`: the marker
  goes with the other objects, before the bucket.  One failed deletion more than an
  hour after the creation, and every retry refuses the bucket for want of a marker,
  although the status records its creation: the deletion is stuck.
* `OwnershipIDStable`, `Lag = "any"`, `FaultAt = {"ownershipID"}`, one fault and nothing
  else: the patch of the ownership ID takes effect but is answered with an error,
  the retry starts on a copy from before it, and a second ID replaces the first,
  which may be in a backup by then (`docs/authentication-and-storage.md:102` says
  "generated once and never regenerated").
* Akamai, a spec whose spelling of the region changes together with its policy from
  Retain to Delete (`S("b1", "", "Retain")`, `S("b1", "d", "Delete")`),
  `DeletionCompletes`: the bucket is left under Retain and its record cleared; a
  deletion that then fails in the middle has neither marker nor record to go by.
* S3 with two regions and a spec with an explicit, non-default one, `BecomesReady`,
  `FaultAt = {"tag"}`: the creation record has no region, so after one failed
  tagging every retry cleans up in the wrong region and fails.
* S3 with a spec of policy Retain that may be removed, one failure at `tag`: the
  creation record has no policy, and the removal deletes the bucket of an
  Application that only ever asked for Retain.
* Akamai with two regions, `RetainedSurvives` (`RetainAnywhere`): false for a region
  change under Retain with one crash.
* `Lag = "any"` in `SL_aws`: `StatusNotLost`, `CreatesOnlyGuarded`, `NoOrphanAfterGone`,
  `CreatedAtHonest` and `ClaimsBackedByCreation` are false; `SL_lag` has what remains.
* A second bucket to move to: an edit of a terminating Application, which the webhook
  does not validate, breaks `NoOrphanAfterGone`.
* `Adopt = TRUE`: `CreatedAtHonest` is false, because an adopted bucket is recorded as
  created.
* `BO_serial` with `Workers = 2`: `SparesOthers` is false, since ownership is verified
  some requests before the bucket is emptied and deleted.

In `AccessKeys`, any failure to read the storage Secret counts as a key without a
secret half (`obj_storage.go:383`): a key that the Secret holds is deleted and made
anew (`SecretReadFails`, `deleteUnusableKey`).  `CredentialsRecover` covers the
recovery.  A key made for a bucket of which there is no record stays behind if
the reconcile ends before its deferred deletion and `spec.storage` is then removed:
nobody has that key to deal with any more.  `NoKeyLeft` excepts this case and a
credential cleanup that failed and went on, and nothing else: a key that is found
again by its label is no longer `lost`.

The other way round, with more than the runs have: `RetainedSurvives` holds on S3
with two regions, two edits and two failures (`RetainAnywhere`, `Lag = "users"`), and
the liveness properties hold with a region that is left unset, on Akamai with either
policy, or spelt out by an edit under Delete on S3.

Reading the code for `IRSA` and `Workload` gave some further observations, which no
run states:

* `deleteStaleServiceAccounts` can miss an account that a forced apply took over
  from a user: the predicate ignores owner references, so if the Application has no
  storage and the account is renamed before the informer has caught up, nothing
  comes back to look (`NoOrphanAccount` is stated for Applications with storage).
* Stale accounts and ConfigMaps are deleted by name from an informer's list, without
  a precondition on the UID: an object of the same name that a user has made
  since goes too.
* Switching `serviceAccount.create` to false while keeping the name deletes the
  account that the pods go on using.
* Removing AWS storage leaves the annotation of the deleted role on the account:
  the apply comes before the cleanup, and nothing brings the Application back.
* A failure to make the manager in `cleanupRetainedStorageCredentials` is only logged,
  while the comment says that failures are surfaced as an Event; `NoRoleLost` is
  stated for Delete.  The creation record drops `credentialsSecretRef` as well.
* A renamed ConfigMap or ServiceAccount is deleted before the Deployment is
  repointed.
* Under Retain, a removal followed by the storage's return renews `CreatedAt`.

## Proofs

TLAPS checks the following for every value of the constants that satisfies the
named assumptions of the module.

`StorageLifecycle`:

* `TypeCorrectness`: `Spec => []TypeOK`.  `TypeOK` alone is not inductive: a step
  that builds a status from `app.spec` needs that there is an `app`, and a
  provider request that there is a manager.  `WorkerOK` says where the worker is
  entitled to them; `TypeInv == TypeOK /\ WorkerOK` is the inductive invariant
  (`TypeInvariance`).
* `FinalizerGuardsBuckets`: `Spec => []FinalizerGuards`, with copies of any age.  The
  strengthening (`GuardInv`) follows the finalizer through every copy: once the
  worker is past `handleFinalizer` on a live object, or any bucket of the
  operator's exists, the object has the finalizer or is gone, and no copy the
  worker could write back lacks it.
* `CreatesForTheLiving`: under `Lag # "any"`, `Spec => []CreatesOnlyGuarded`.  With a
  copy older than the finalizer's removal it is false: a reconcile may run for an
  object that is gone.
* `OwnershipIDNeverReplaced` (`IDReplacedOnlyByStale`), without a premise: the only step
  that replaces an ID is the patch of a reconcile whose copy is from before the
  first.  `UnseenIDInv` says that the worker at that point has a copy without an ID,
  however it came by it.  `OwnershipIDKept` (`OwnershipIDStable`), under
  `Lag # "any"`: the ID is never replaced at all.
* `RecordNeverLost` (`StatusNotLost`), under `Lag # "any"`.  The invariant
  (`RecordsInv`) relates the worker's copy to the object at each point of a
  reconcile: until the worker changes the status both have the same one, later an
  empty status in memory means an empty one on the object, and an ID is only
  generated for an object without one.  The informer's copy is part of it, since a
  write that fails re-reads it.
* `RetainedIsSpared` (`RetainedSurvives`), under `Lag = "none"` and `RegionClear`: on
  S3, or with specs that all mean the default region.  The invariant (`RetainInv`) says that no spec or
  status that a cleanup may start from (on the object, in memory, or in the informer's copy
  while a failed write may still re-read it) names a kept bucket without saying
  Retain.  The delicate moment is the creation record, which has no policy and no
  region: on S3, where names are global, the bucket just created is the only one it
  can be taken to name.  Copies that miss the users' writes only are left to TLC
  (`SL_akamai`); older ones are `SL_stale_retain`; on Akamai with a second region the
  property is false.
* `NoBucketOrphaned` (`LeavesNoneBehind`) and `StorageImplementsPromise`
  (`ImplementsPromise`), under `Premises`: one bucket in one region in all
  specs, whether that is spelt out or not (`SamePlace`); and either the user never removes
  `spec.storage` (`NeverRemoved`, as in `SL_aws` and `SL_lag`) or records hold
  (`RecordsHold`, as in `SL_akamai`): no failure separates a creation from its
  record, that record, which has no region, is not taken for another bucket's
  (`AlwaysRecorded`), and `Lag # "any"`.  So for an Application that keeps its storage
  both hold with copies of any age.  `StorageInv`
  adds to the invariants above that every bucket of the operator's is where a spec
  says (`PlaceInv`), that on a recorded Application a bucket implies a record
  (`MineRecorded`), that an S3 name is in use in one region at most (`GlobalNames`), so that
  a cleanup in the wrong region is refused or finds nothing to delete anywhere, and
  that a cleanup which is past its deletion, or past the
  decision to retain, has left nothing unaccounted for (`CleanupInv`).  For the
  refinement each step is then one of `StoragePromise` or a stutter: `phase` and
  `mine` never change in one step, `mine` by one bucket at a time, and it grows only
  behind the finalizer or, with `Late`, after the end.
* `NoBucketAfterGone` (`NoOrphanAfterGone`), under `Premises` and `Lag # "any"`: none is
  made after the end either.
* `CreatedAtIsHonest` (`CreatedAtHonest`) and `ClaimsRestOnCreation`
  (`ClaimsBackedByCreation`), under `CreationPremises`: `Lag # "any"`, no adoption, one
  bucket, spelt one way, that is not removed, and `RegionClear`.  The invariant (`DatedInv`) adds
  that every record, in whichever copy, dates from a creation (`FitInv`), and that
  no tagged bucket is ever without a record (`OwnedInv`, `UntaggedInv`), for else the
  next reconcile would date it anew.

`Lag # "any"` is a premise about the cache and not a property of the code: nothing
makes a reconcile wait until the informer shows the operator's own last write.  The
theorems that need it say what that waiting would buy; those without it
(`FinalizerGuardsBuckets`, `OwnershipIDNeverReplaced`, and for an Application that keeps
its storage `NoBucketOrphaned` and `StorageImplementsPromise`) hold of the code as it
is.

For each of these premises TLC has a counterexample without it (to `NoOrphanAfterGone`,
`RetainedSurvives` or `CreatedAtHonest`).  `Lag # "any"`: a stale copy
makes the worker create a bucket for an object that is gone, generate another ID,
write back an old status, or date a creation anew.  `SamePlace`: two edits with a removal in between, an edit
of a terminating Application, or setting a region other than the default where none was
set, move the Application to another bucket, although the webhook refuses a direct
move.  `NeverRemoved` or `RecordsHold`: after a crash between
`CreateBucket` and its record, removing the storage leaves nothing that names the
bucket.  For `CreatedAt`: an adopted bucket is recorded as created; one retained
by a removal, or by an edit that spells out the default region, is found tagged
afterwards without a record; and on Akamai a region-less record sends the cleanup to
another region than the bucket's, where there is nothing to delete.

The step lemmas (`ObjectSteps`, `CopySteps`, `PointSteps`, `CloudSteps`,
`CacheSteps`, `AppearSteps`, `KeptSteps`, `SpecSteps`, `CopyKeptSteps`, `ManagerSteps`, `CleanupSteps`,
`MarkSteps`) say once per kind of state what any step may do to it; the
theorems are then proved from those few facts.

`BucketOwnership`, for any Applications, namespaces, grants and either provider:

* `OwnershipTypes`: `Spec => []TypeOK`, for any number of workers.
* Under `Workers = 1`, `ExclusiveOwnership` (`OneHolder`), `CleanupSparesOthers`
  (`SparesOthers`), `NoTakeover` (`TakenFromTheGone`) and `ScopedAdoption`
  (`AdoptionScoped`).  The assumption is needed: `BO_takeover`.  The inductive
  invariant `Inv` says that one reconcile is under way (`Serial`) and so that what
  it learned still holds when it acts on it: whoever is about to tag may take the
  bucket (`TagOK`, with `EvaluateOK` a request earlier), whoever is about to be
  recorded ready is named by the tag (`ReadyOK`).  That an ownership ID proves
  identity rests on `IDsRooted`, `IDsUnique` and `TagID`: no two existing
  Applications have the same one, and a tag's is that of the UID it names.

`AccessKeys`, for any number of failures, edits and outside moves:

* `KeyTypes` (`TypeOK`), `LabelUnique` (`OneKey`), `SecretsConsistent` (`SecretPairs`) and `KeysCleanedUp`
  (`NoKeyLeft`), all from `KeyInvariance`.  `Inv` says what the worker knows:
  there is no key when it is about to create one (`CreateOK`); credentials past
  the ownership check are halves of one key (`CredsOK`), which is the reason why a
  wrong pair never reaches a Secret; and as long as a key exists that is not
  `lost`, there is a record of the storage it belongs to or a cleanup of it under
  way (`RecordOK`, `KeysTracked`, `KeysCleaned`).

`Workload`, for any specs, ConfigMap names and numbers of edits and mishaps:

* `WorkloadTypes` (`TypeOK`), `ChildrenMatch` (`QuietMatches`), `ConfigMapsMatch`
  (`QuietConfigMaps`) and `ReadyHonest` (`QuietReady`), all from `WorkloadInvariance`.
  `Inv` says that nothing wrong is forgotten: a child or ConfigMap that is not as the
  spec asks for, a lagging informer, a reconcile with an old spec and a Ready
  condition that is wrong each have a reason to be looked at again - the key is
  queued, an event is to come, or the reconcile under way has that step ahead of it
  (`ChildNoticed`, `ConfigNoticed`, `LagNoticed`, `OldSpecNoticed`, `ReadyNoticed`).

`IRSA`, for any accounts, page size and numbers of edits and failures:

* `IRSATypes` (`TypeOK`) and `RoleNeverLost` (`NoRoleLost`), from `IRSAInvariance`.  The
  status tracks the role: under Delete there is a record from before the role is
  created (`BucketRecorded`) until it is deleted or reported (`RoleRecorded`), and a
  cleanup that goes on without having deleted the role knows it (`CleanupOK`).

Every invariant and every action property of a passing run is stated by one of
these theorems, and so is the refinement.  Only model-checked are the liveness properties
(`DeletionCompletes` in both modules, `BecomesReady`, `RemovalCompletes`,
`RestoredReclaims`, `DisputesEnd`, `CredentialsRecover`, `FinalizeCompletes`, `Settles`,
`WorkloadGetsRole`, `AccountsSettle`, `NoOrphanAccount`): fairness and `ENABLED` are beyond the
prover.

## Not modelled

* Rate limiting: in every module a request may take any time, which covers the
  delays; what the limiters promise about rates needs real time.
* `CloudResourceName`: a cut name with a hash; that names stay distinct rests on the
  hash.
* The webhook's defaulting, its Secret checks and `validateConfigNotOrphaned`; of the
  API types the fields that no decision depends on (ports, probes, resources,
  security contexts, lifecycle rules).
* `findApplicationsForSecret`, which wakes Applications when a Secret they name
  changes; a retry makes up for it in the modules.
* Two Applications with the same ownership ID, made by copying the annotation.
* Error classes, Events other than the one in `IRSA`, metrics, traces, start-up,
  generated code, charts, Terraform.

`PROJECT.json` gives the reason for each component.

## Plan

What is left, in this order:

1. The `BucketOwnership` theorems that need less than `Workers = 1`, and
   `RetainedIsSpared` for copies that miss the users' writes.
2. The safety half of the liveness properties, as invariants: what a deletion or a
   removal has yet to do never grows.
3. The webhook's validation, with the Secret that it checks changing afterwards.

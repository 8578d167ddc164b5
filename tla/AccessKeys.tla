----------------------------- MODULE AccessKeys -----------------------------
(***************************************************************************)
(* The credentials of one Application on Akamai: an access key at the      *)
(* provider, found again only by its label, and the storage Secret in the  *)
(* cluster, which is the only place that keeps the key's secret half: the  *)
(* provider returns it once, when the key is created.                      *)
(*                                                                         *)
(* One step is one request.  Creating, marking and deleting the bucket,    *)
(* the informer and the conflicts of status writes are the subject of      *)
(* StorageLifecycle and are single steps here; Secrets are read from the   *)
(* API server, never from a cache.                                         *)
(***************************************************************************)
EXTENDS Naturals, FiniteSets

CONSTANTS
    Buckets,
    Names,        \* of storage Secrets
    DefaultName,  \* the one used where spec.storage.secretName is not known
    KeyIDs,       \* of access keys; those that nothing refers to are used again
    MaxFaults, MaxEdits, MaxOutside,
    Nil

\* spec.storage: bucket, secretName, and whether deletionPolicy is Retain.
\* Status.Storage records the same.
StorageSpec == [bucket : Buckets, name : Names, retain : BOOLEAN]

\* id stands for both halves of a key; bucket is what it gives access to.
Key == [id : KeyIDs, bucket : Buckets]

\* The two halves an AccessKeyResult or a storage Secret puts together.
Pair == [access : KeyIDs, secret : KeyIDs]

PCs == {"idle", "ensureBucket", "lookup", "list", "deleteKey", "createKey", "claim",
        "dropKey", "recordReady", "applySecret", "deleteStale", "empty", "cleanupKey",
        "retainKey", "deleteBucket", "clearStatus", "removeFinalizer"}

\* Why the manager is at work.
Jobs == {"provision", "replaced", "removed", "finalize"}

ASSUME NameAssumption == DefaultName \in Names
ASSUME BoundAssumption == MaxFaults \in Nat /\ MaxEdits \in Nat /\ MaxOutside \in Nat
ASSUME NilAssumption == Nil \notin StorageSpec \cup Key \cup Pair

VARIABLES
    life,      \* "live", "terminating" or "gone"
    spec,      \* spec.storage, or Nil
    status,    \* status.storage, or Nil
    bucket,    \* [Buckets -> "absent", "ours" or "other"], by the marker
    keys,      \* the access keys with the Application's label
    secrets,   \* [Names -> the storage Secret of that name, or Nil]
    pc, job,
    app,       \* spec.storage of the worker's copy of the Application
    mgr,       \* spec.storage of the manager
    found,     \* the key that was found by its label, or Nil
    creds,     \* the AccessKeyResult, or Nil
    lost,      \* history: did the last reconcile that had the key to deal with
               \* end without a record of the bucket, or fail to delete the key?
    faults, edits, outside

object == <<life, spec, status>>
cloud == <<bucket, keys>>
worker == <<pc, job, app, mgr, found, creds>>
bounds == <<faults, edits, outside>>
vars == <<object, cloud, secrets, worker, lost, bounds>>

TypeOK ==
    /\ life \in {"live", "terminating", "gone"}
    /\ spec \in StorageSpec \cup {Nil}
    /\ status \in StorageSpec \cup {Nil}
    /\ bucket \in [Buckets -> {"absent", "ours", "other"}]
    /\ keys \subseteq Key
    /\ secrets \in [Names -> Pair \cup {Nil}]
    /\ pc \in PCs /\ job \in Jobs
    /\ app \in StorageSpec \cup {Nil}
    /\ mgr \in StorageSpec \cup {Nil}
    /\ found \in Key \cup {Nil}
    /\ creds \in Pair \cup {Nil}
    /\ lost \in BOOLEAN
    /\ faults \in Nat /\ edits \in Nat /\ outside \in Nat

Init ==
    /\ life = "live" /\ spec \in StorageSpec /\ status = Nil
    /\ bucket = [b \in Buckets |-> "absent"] /\ keys = {}
    /\ secrets = [n \in Names |-> Nil]
    /\ pc = "idle" /\ job = "provision"
    /\ app = Nil /\ mgr = Nil /\ found = Nil /\ creds = Nil
    /\ lost = FALSE /\ faults = 0 /\ edits = 0 /\ outside = 0

-----------------------------------------------------------------------------

\* The Secret that is read back: a manager for provisioning shares its
\* Application with the reconcile, one for a cleanup has a copy of its own.
StorageSecret ==
    LET s == IF job = "provision" THEN app ELSE mgr
    IN  IF s = Nil THEN DefaultName ELSE s.name

recoverSecretKey == IF secrets[StorageSecret] = Nil THEN Nil ELSE secrets[StorageSecret].secret

\* Does the provider accept these credentials for the manager's bucket?
Accepted ==
    creds.access = creds.secret /\ [id |-> creds.access, bucket |-> mgr.bucket] \in keys

InUse ==
    {k.id : k \in keys} \cup {secrets[n].access : n \in {m \in Names : secrets[m] # Nil}}
      \cup {secrets[n].secret : n \in {m \in Names : secrets[m] # Nil}}

\* finalizeApplication on behalf of j, for storage s.
Finalize(j, s) ==
    pc' = (IF s.retain THEN "retainKey" ELSE "lookup") /\ job' = j /\ mgr' = s

\* Is the recorded storage, if any, that of the spec?
SameIdentity == IF status = Nil THEN TRUE ELSE status.bucket = spec.bucket

Reconcile ==
    /\ pc = "idle" /\ life # "gone"
    /\ \/ /\ life = "terminating" /\ spec # Nil
          /\ Finalize("finalize", spec)
       \/ /\ life = "terminating" /\ spec = Nil /\ status # Nil
          /\ Finalize("finalize", status)
       \/ /\ life = "terminating" /\ spec = Nil /\ status = Nil
          /\ pc' = "removeFinalizer" /\ job' = "finalize" /\ mgr' = Nil
       \/ /\ life = "live" /\ spec = Nil /\ status # Nil
          /\ Finalize("removed", status)
       \/ /\ life = "live" /\ spec = Nil /\ status = Nil
          /\ pc' = "deleteStale" /\ job' = "removed" /\ mgr' = Nil
       \/ /\ life = "live" /\ spec # Nil /\ ~SameIdentity
          /\ Finalize("replaced", status)
       \/ /\ life = "live" /\ spec # Nil /\ SameIdentity
          /\ pc' = "ensureBucket" /\ job' = "provision" /\ mgr' = spec
    /\ app' = spec
    /\ UNCHANGED <<object, cloud, secrets, found, creds, lost, bounds>>

\* Every reconcile ends like this; what it held in memory is gone.
Return == pc' = "idle" /\ found' = Nil /\ creds' = Nil /\ mgr' = Nil

-----------------------------------------------------------------------------
(* ReconcileBucket. *)

\* A bucket that is not there is created and recorded, without the Secret's name
\* and the policy; the status write brings the Application up to date, also for
\* the manager.
ensureBucketExists ==
    /\ pc = "ensureBucket" /\ pc' = "list"
    /\ IF bucket[mgr.bucket] = "absent"
       THEN /\ bucket' = [bucket EXCEPT ![mgr.bucket] = "ours"]
            /\ status' = [bucket |-> mgr.bucket, name |-> DefaultName, retain |-> FALSE]
            /\ app' = spec
       ELSE UNCHANGED <<bucket, status, app>>
    /\ UNCHANGED <<life, spec, keys, secrets, job, mgr, found, creds, lost, bounds>>

\* Mutant: a key whose secret half is unknown is left where it is.
UnusableMutant == "createKey"

Unusable == "deleteKey"

\* The head of ensureAccessKey: a key with the label is used with whatever
\* secret half the storage Secret has.
listKeys ==
    /\ pc = "list"
    /\ \/ /\ keys = {} /\ pc' = "createKey" /\ UNCHANGED <<found, creds, lost>>
       \/ \E k \in keys :
            /\ found' = k /\ lost' = FALSE
            /\ IF recoverSecretKey # Nil
               THEN pc' = "claim" /\ creds' = [access |-> k.id, secret |-> recoverSecretKey]
               ELSE pc' = Unusable /\ creds' = Nil
    /\ UNCHANGED <<object, cloud, secrets, job, app, mgr, bounds>>

\* Deleting a key that somebody else has deleted is an error.
deleteUnusableKey ==
    /\ pc = "deleteKey"
    /\ \/ found \in keys /\ keys' = keys \ {found} /\ pc' = "createKey" /\ UNCHANGED <<found, creds, mgr>>
       \/ found \notin keys /\ UNCHANGED keys /\ Return
    /\ UNCHANGED <<object, bucket, secrets, job, app, lost, bounds>>

NewKey(id) == keys' = keys \cup {[id |-> id, bucket |-> mgr.bucket]}

createKey ==
    /\ pc = "createKey" /\ InUse # KeyIDs
    /\ LET id == CHOOSE i \in KeyIDs : i \notin InUse
       IN  NewKey(id) /\ creds' = [access |-> id, secret |-> id]
    /\ pc' = "claim" /\ lost' = FALSE
    /\ UNCHANGED <<object, bucket, secrets, job, app, mgr, found, bounds>>

\* Mutant: an answer other than the marker is taken for a missing marker.
OwnsMutant == bucket[mgr.bucket] = "ours"

\* Credentials that are refused look like a bucket that is not owned.
Owns == Accepted /\ bucket[mgr.bucket] = "ours"

\* claimOrVerifyOwnership, and verifyOwnershipAndEmptyBucket in a cleanup.
claimOrVerifyOwnership ==
    /\ pc = "claim"
    /\ pc' = IF ~Owns THEN "dropKey" ELSE IF job = "provision" THEN "recordReady" ELSE "empty"
    /\ UNCHANGED <<object, cloud, secrets, job, app, mgr, found, creds, lost, bounds>>

\* Mutant: the key is looked up under a label it was not created with.
DeleteByLabelMutant == UNCHANGED keys

\* deleteApplicationAccessKey: the first key with the label, if there is one.
DeleteByLabel ==
    \/ keys = {} /\ UNCHANGED keys
    \/ \E k \in keys : keys' = keys \ {k}

\* Mutant: the key of a bucket that is not owned is kept for the next attempt.
DropMutant == UNCHANGED keys

Drop == DeleteByLabel

\* The deferred cleanup after ErrBucketNotOwned.
dropKey ==
    /\ pc = "dropKey" /\ Drop /\ Return
    /\ UNCHANGED <<object, bucket, secrets, job, app, lost, bounds>>

\* The status is built from the Application's storage, which must be there, and
\* its update brings the Application up to date.
recordReady ==
    /\ pc = "recordReady"
    /\ IF app = Nil
       THEN Return /\ UNCHANGED <<status, app>>
       ELSE /\ status' = app
            /\ app' = spec
            /\ pc' = IF spec = Nil THEN "deleteStale" ELSE "applySecret"
            /\ UNCHANGED <<found, creds, mgr>>
    /\ UNCHANGED <<life, spec, cloud, secrets, job, lost, bounds>>

\* Mutant: the secret half is only passed on by the reconcile that creates a key.
SecretDataMutant == IF creds = Nil \/ found = Nil THEN creds ELSE [access |-> creds.access]

\* desiredStorage: after a removal there are no credentials to pass on.
SecretData == creds

applySecret ==
    /\ pc = "applySecret"
    /\ secrets' = [secrets EXCEPT ![app.name] = SecretData]
    /\ pc' = "deleteStale"
    /\ UNCHANGED <<object, cloud, job, app, mgr, found, creds, lost, bounds>>

deleteStaleSecrets ==
    /\ pc = "deleteStale"
    /\ secrets' = [n \in Names |-> IF app # Nil /\ n = app.name THEN secrets[n] ELSE Nil]
    /\ Return
    /\ UNCHANGED <<object, cloud, job, app, lost, bounds>>

-----------------------------------------------------------------------------
(* DeleteBucket and CleanupCredentialsOnly. *)

lookupBucket ==
    /\ pc = "lookup"
    /\ pc' = IF bucket[mgr.bucket] = "absent" THEN "cleanupKey" ELSE "list"
    /\ UNCHANGED <<object, cloud, secrets, job, app, mgr, found, creds, lost, bounds>>

emptyBucket ==
    /\ pc = "empty" /\ pc' = "cleanupKey"
    /\ UNCHANGED <<object, cloud, secrets, job, app, mgr, found, creds, lost, bounds>>

\* The key goes even if it cannot be told whether it did; the rest goes on.
cleanupKey ==
    /\ pc = "cleanupKey" /\ DeleteByLabel /\ pc' = "deleteBucket"
    /\ UNCHANGED <<object, bucket, secrets, job, app, mgr, found, creds, lost, bounds>>

\* Where finalizeApplication returns to.
Cleaned == pc' = IF job = "finalize" THEN "removeFinalizer" ELSE "clearStatus"

\* cleanupRetainedStorageCredentials: the bucket stays.
retainKey ==
    /\ pc = "retainKey" /\ DeleteByLabel /\ Cleaned
    /\ UNCHANGED <<object, bucket, secrets, job, app, mgr, found, creds, lost, bounds>>

deleteBucket ==
    /\ pc = "deleteBucket" /\ Cleaned
    /\ bucket' = [bucket EXCEPT ![mgr.bucket] = "absent"]
    /\ UNCHANGED <<object, keys, secrets, job, app, mgr, found, creds, lost, bounds>>

\* cleanupPreviousStorage's last write brings the Application up to date; the
\* storage that replaces the old one must still be there.
clearStatus ==
    /\ pc = "clearStatus" /\ status' = Nil /\ app' = spec
    /\ \/ job = "replaced" /\ spec = Nil /\ Return /\ UNCHANGED job
       \/ /\ job = "replaced" /\ spec # Nil
          /\ pc' = "ensureBucket" /\ job' = "provision" /\ mgr' = spec
          /\ found' = Nil /\ creds' = Nil
       \/ /\ job = "removed"
          /\ pc' = IF spec = Nil THEN "deleteStale" ELSE "applySecret"
          /\ found' = Nil /\ creds' = Nil /\ UNCHANGED <<job, mgr>>
    /\ UNCHANGED <<life, spec, cloud, secrets, lost, bounds>>

\* The Secrets are garbage-collected with their owner.
removeFinalizer ==
    /\ pc = "removeFinalizer" /\ life' = "gone" /\ Return
    /\ secrets' = [n \in Names |-> Nil]
    /\ UNCHANGED <<spec, status, cloud, job, app, lost, bounds>>

-----------------------------------------------------------------------------
(* Failures, users, others. *)

\* A call fails, or the process ends before or after it.
CallFails ==
    /\ pc # "idle" /\ faults < MaxFaults /\ faults' = faults + 1
    /\ Return
    /\ lost' = (lost \/ (status = Nil /\ keys # {}))
    /\ UNCHANGED <<object, cloud, secrets, job, app, edits, outside>>

\* Whatever goes wrong when the marker is read becomes ErrBucketNotOwned.
ClaimFails ==
    /\ pc = "claim" /\ faults < MaxFaults /\ faults' = faults + 1
    /\ pc' = "dropKey"
    /\ UNCHANGED <<object, cloud, secrets, job, app, mgr, found, creds, lost, edits, outside>>

\* A storage Secret that cannot be read counts as one without a secret half.
SecretReadFails ==
    /\ pc = "list" /\ faults < MaxFaults /\ faults' = faults + 1
    /\ found' \in keys /\ creds' = Nil /\ pc' = Unusable /\ lost' = FALSE
    /\ UNCHANGED <<object, cloud, secrets, job, app, mgr, edits, outside>>

\* A cleanup of credentials that fails is logged.
KeyCleanupFails ==
    /\ faults < MaxFaults /\ faults' = faults + 1
    /\ \/ pc = "cleanupKey" /\ pc' = "deleteBucket"
       \/ pc = "retainKey" /\ Cleaned
    /\ lost' = (lost \/ keys # {})
    /\ UNCHANGED <<object, cloud, secrets, job, app, mgr, found, creds, edits, outside>>

\* The webhook lets the bucket change only by way of no storage at all; both
\* edits may be done before a reconcile notices, and an Application that is being
\* deleted is not validated.
UserEdit ==
    /\ life # "gone" /\ edits < MaxEdits /\ edits' = edits + 1
    /\ spec' \in (StorageSpec \cup {Nil}) \ {spec}
    /\ UNCHANGED <<life, status, cloud, secrets, worker, lost, faults, outside>>

UserDelete ==
    /\ life = "live" /\ life' = "terminating"
    /\ UNCHANGED <<spec, status, cloud, secrets, worker, lost, bounds>>

\* Somebody deletes the key or the Secret, or takes the bucket's name, whether the
\* Application has had the bucket or not.
Outside ==
    /\ outside < MaxOutside /\ outside' = outside + 1
    /\ \/ \E k \in keys : keys' = keys \ {k} /\ UNCHANGED <<secrets, bucket>>
       \/ \E n \in Names : /\ secrets[n] # Nil /\ secrets' = [secrets EXCEPT ![n] = Nil]
                           /\ UNCHANGED cloud
       \/ \E b \in Buckets : /\ bucket[b] # "other" /\ bucket' = [bucket EXCEPT ![b] = "other"]
                             /\ UNCHANGED <<secrets, keys>>
    /\ UNCHANGED <<object, worker, lost, faults, edits>>

-----------------------------------------------------------------------------

Work ==
    \/ Reconcile \/ ensureBucketExists \/ listKeys \/ deleteUnusableKey \/ createKey
    \/ claimOrVerifyOwnership \/ dropKey \/ recordReady \/ applySecret \/ deleteStaleSecrets
    \/ lookupBucket \/ emptyBucket \/ cleanupKey \/ retainKey \/ deleteBucket
    \/ clearStatus \/ removeFinalizer

Next ==
    \/ Work
    \/ CallFails \/ ClaimFails \/ SecretReadFails \/ KeyCleanupFails
    \/ UserEdit \/ UserDelete \/ Outside

Spec == Init /\ [][Next]_vars

\* A failed reconcile is retried and a successful one repeated after the resync
\* interval, so the worker always goes on.
FairSpec == Spec /\ WF_vars(Work)

-----------------------------------------------------------------------------
(* Properties. *)

\* At most one key bears the label: the lookups take the first one they meet, so
\* a second one would never be found (ensureAccessKey).
OneKey == \A k, l \in keys : k = l

\* The halves in a storage Secret belong together, although the access half is
\* found by label and the secret half read back from the Secret of an earlier
\* key (ensureAccessKey, reconcileStorageSecret).
SecretPairs == \A n \in Names : secrets[n] # Nil => secrets[n].access = secrets[n].secret

\* An Application that is gone leaves no key, unless the last reconcile that had
\* the key to deal with ended early with no record of the bucket in the status, or
\* failed to delete the key and went on.  Earlier failures excuse nothing: whoever
\* finds the key by its label takes it up again (ensureAccessKey, DeleteBucket,
\* CleanupCredentialsOnly).
NoKeyLeft == life = "gone" /\ keys # {} => lost

\* A key that opens the Application's own bucket is not discarded because of a
\* failed request (the deferred cleanup after ErrBucketNotOwned).
GoodKeyKept == [][pc = "dropKey" /\ keys' # keys => ~Owns]_vars

NoneTaken == \A b \in Buckets : bucket[b] # "other"

Works(s) ==
    /\ secrets[s.name] # Nil
    /\ secrets[s.name].access = secrets[s.name].secret
    /\ [id |-> secrets[s.name].access, bucket |-> s.bucket] \in keys

\* Whatever became of key and Secret, and whichever halves a retry puts together,
\* the storage Secret comes to hold a key that works (ReconcileBucket).
CredentialsRecover ==
    \A s \in StorageSpec :
       (life = "live" /\ spec = s /\ NoneTaken) ~> (life # "live" \/ spec # s \/ ~NoneTaken \/ Works(s))

\* A deletion that needs the key to empty the bucket completes, also if the
\* Secret holds another key's half (verifyOwnershipAndEmptyBucket).
FinalizeCompletes == (life = "terminating" /\ NoneTaken) ~> (life = "gone" \/ ~NoneTaken)

=============================================================================

-------------------------------- MODULE IRSA --------------------------------
(***************************************************************************)
(* The AWS side of an Application's credentials: the IAM role its pods     *)
(* assume, the ServiceAccount that carries the role's name and has to      *)
(* match its trust policy, and the cleanup of both with the bucket.  One   *)
(* step of the worker is one call; users rename, disable and remove things *)
(* in between, informers lag, calls fail, the operator crashes.            *)
(*                                                                         *)
(* The bucket is reduced to its existence and its unfinished uploads; its  *)
(* ownership, the finalizer and stale copies of the Application are the    *)
(* subject of StorageLifecycle.  Here the finalizer is on, creating the    *)
(* bucket and recording it is one step, and a reconcile starts from the    *)
(* Application as it is.                                                   *)
(***************************************************************************)
EXTENDS Naturals, FiniteSets

CONSTANTS
    Names,        \* names of ServiceAccounts
    SpecChoices,  \* what the user may write to the spec
    Page,         \* multipart uploads that one listing returns
    MaxUploads,   \* bound on unfinished uploads
    MaxEdits,     \* bound on user edits
    MaxFaults,    \* bound on failures and crashes
    MaxOutside,   \* bound on what others do to the bucket, role and accounts
    Nil           \* absence: no object, no role

\* name, create: serviceAccountNameFor and shouldCreateServiceAccount;
\* storage: is there a spec.storage?
ApplicationSpec == [name : Names, create : BOOLEAN, storage : BOOLEAN]

\* status: nothing in Status.Storage, the record of a creation, which has no
\* role ARN and no policy, or the full status of a finished reconcile.
Object == [spec : SpecChoices, del : BOOLEAN, status : {"none", "record", "ready"}]

\* trust: the account named in the trust policy; policy: is the bucket access
\* policy attached?
Role == [trust : Names, policy : BOOLEAN]

PCs == {"idle", "account", "staleAccounts", "bucket", "role", "rolePolicy", "annotate",
        "ready", "cleanup", "credentials", "abort", "deleteBucket", "finish", "rest"}

ASSUME SpecAssumption == SpecChoices \subseteq ApplicationSpec
ASSUME BoundAssumption ==
    /\ Page \in Nat \ {0}
    /\ MaxUploads \in Nat /\ MaxEdits \in Nat /\ MaxFaults \in Nat /\ MaxOutside \in Nat
ASSUME NilAssumption == Nil \notin Object /\ Nil \notin Role /\ Nil \notin Names

VARIABLES
    obj,        \* the Application at the API server, or Nil once it is gone
    policy,     \* spec.storage.deletionPolicy
    queued,     \* is the Application in the workqueue?
    pc, app,    \* the worker's next call and its copy of the Application
    sub,        \* the serviceAccountName of the storage manager in use
    irsaErr,    \* has this cleanup failed to delete the role?
    accounts,   \* [Names -> no account, a user's, or one the Application controls,
                \*  without or with the role's annotation]
    seen,       \* the accounts it controls as the informer lists them
    events,     \* accounts with an event to be delivered that passes the predicate
    role,       \* the IAM role, or Nil
    bucket,     \* is the bucket there?
    uploads,    \* its unfinished multipart uploads
    reported,   \* history: a Warning Event has told of a role left behind
    edits, faults, outside

api == <<obj, policy, queued>>
worker == <<pc, app, sub, irsaErr>>
accountState == <<accounts, seen, events>>
cloud == <<role, bucket, uploads>>
counters == <<edits, faults, outside>>
vars == <<api, worker, accountState, cloud, reported, counters>>

Controlled == {n \in Names : accounts[n] \in {"plain", "role"}}

\* The types, and that the worker has a copy of the Application and, where it
\* uses one, a storage manager throughout a reconcile (Reconcile).
TypeOK ==
    /\ (app = Nil) <=> (pc = "idle")
    /\ pc \in {"bucket", "role", "rolePolicy", "annotate", "ready"} => sub # Nil
    /\ obj \in Object \cup {Nil} /\ app \in Object \cup {Nil}
    /\ policy \in {"Delete", "Retain"}
    /\ queued \in BOOLEAN /\ irsaErr \in BOOLEAN /\ reported \in BOOLEAN
    /\ pc \in PCs
    /\ sub \in Names \cup {Nil}
    /\ accounts \in [Names -> {"absent", "user", "plain", "role"}]
    /\ seen \subseteq Names /\ events \subseteq Names
    /\ role \in Role \cup {Nil}
    /\ bucket \in BOOLEAN /\ uploads \in Nat
    /\ edits \in Nat /\ faults \in Nat /\ outside \in Nat

Init ==
    /\ \E s \in SpecChoices : obj = [spec |-> s, del |-> FALSE, status |-> "none"]
    /\ policy \in {"Delete", "Retain"} /\ queued = TRUE
    /\ pc = "idle" /\ app = Nil /\ sub = Nil /\ irsaErr = FALSE
    /\ accounts = [n \in Names |-> "absent"] /\ seen = {} /\ events = {}
    /\ role = Nil /\ bucket = FALSE /\ uploads = 0 /\ reported = FALSE
    /\ edits = 0 /\ faults = 0 /\ outside = 0

-----------------------------------------------------------------------------
(* Reconcile and the ServiceAccount. *)

Goto(next) == pc' = next /\ UNCHANGED <<app, sub, irsaErr, queued>>

Return(requeue) ==
    /\ pc' = "idle" /\ app' = Nil /\ sub' = Nil /\ irsaErr' = FALSE
    /\ queued' = (queued \/ requeue)

\* A status write also re-reads the spec into the copy at hand.
RetryStatusUpdate(st) ==
    /\ obj' = [obj EXCEPT !.status = st] /\ app' = obj'
    /\ UNCHANGED policy

\* Mutant: a key without an object is reconciled like the others.
GetMutant ==
    /\ pc = "idle" /\ queued
    /\ queued' = FALSE /\ app' = obj
    /\ pc' = IF obj # Nil /\ obj.del THEN "cleanup" ELSE "account"
    /\ UNCHANGED <<obj, policy, sub, irsaErr, accountState, cloud, reported, counters>>

\* A key without an object is dropped.
Get ==
    /\ pc = "idle" /\ queued
    /\ queued' = FALSE /\ app' = obj
    /\ pc' = IF obj = Nil THEN "idle" ELSE IF obj.del THEN "cleanup" ELSE "account"
    /\ UNCHANGED <<obj, policy, sub, irsaErr, accountState, cloud, reported, counters>>

\* ownedContentChangedPredicate, on accounts that have the Application as their
\* controller: created, deleted, or another annotation.
Changed(old, new) ==
    /\ {old, new} \cap {"plain", "role"} # {}
    /\ "absent" \in {old, new} \/ (old = "role") # (new = "role")

\* The accounts become a, and the watch has events of the changes.
PutAccounts(a) ==
    /\ accounts' = a
    /\ events' = events \cup
         {n \in Names : accounts[n] # a[n] /\ Changed(accounts[n], a[n])}
    /\ UNCHANGED seen

\* Server-side apply with force: a user's account of that name becomes the
\* Application's, and an annotation that is left out is removed.
Apply(n, annotated) ==
    PutAccounts([accounts EXCEPT ![n] = IF annotated THEN "role" ELSE "plain"])

\* Mutant: the first apply never carries the annotation.
CarriesRoleMutant == FALSE

\* desiredServiceAccount carries the role ARN of the status forward.
CarriesRole == app.status = "ready"

reconcileServiceAccount ==
    /\ pc = "account" /\ Goto("staleAccounts")
    /\ IF app.spec.create THEN Apply(app.spec.name, CarriesRole)
       ELSE UNCHANGED accountState
    /\ UNCHANGED <<obj, policy, cloud, reported, counters>>

\* Mutant: a user-managed account is none of the operator's business, and so is
\* the one it made before.
StaleMutant == IF app.spec.create THEN seen \ {app.spec.name} ELSE {}

\* What the informer lists, except the account in use.
Stale == IF app.spec.create THEN seen \ {app.spec.name} ELSE seen

\* Deleted by name.  Without storage to set up, reconcileStorage cleans up what
\* the status still names.
deleteStaleServiceAccounts ==
    /\ pc = "staleAccounts"
    /\ PutAccounts([n \in Names |-> IF n \in Stale THEN "absent" ELSE accounts[n]])
    /\ pc' = CASE app.spec.storage -> "bucket"
               [] app.status # "none" -> "cleanup"
               [] OTHER -> "rest"
    /\ sub' = IF app.spec.storage THEN app.spec.name ELSE Nil
    /\ UNCHANGED <<api, app, irsaErr, cloud, reported, counters>>

-----------------------------------------------------------------------------
(* ReconcileBucket and ReconcileAppIRSA. *)

\* recordCreated replaces the whole of Status.Storage.
ensureBucketExists ==
    /\ pc = "bucket" /\ pc' = "role" /\ bucket' = TRUE
    /\ IF bucket THEN UNCHANGED <<obj, policy, app>> ELSE RetryStatusUpdate("record")
    /\ UNCHANGED <<queued, sub, irsaErr, accountState, role, uploads, reported, counters>>

\* Mutant: a role that exists is left as it is.
TrustedMutant == IF role = Nil THEN [trust |-> sub, policy |-> FALSE] ELSE role

\* The role with the trust policy it gets, created or updated.
Trusted ==
    IF role = Nil THEN [trust |-> sub, policy |-> FALSE] ELSE [role EXCEPT !.trust = sub]

ReconcileRole ==
    /\ pc = "role" /\ Goto("rolePolicy")
    /\ role' = Trusted /\ reported' = FALSE
    /\ UNCHANGED <<obj, policy, accountState, bucket, uploads, counters>>

PutRolePolicy ==
    /\ pc = "rolePolicy"
    /\ IF role = Nil THEN Return(TRUE) /\ UNCHANGED role
       ELSE Goto("annotate") /\ role' = [role EXCEPT !.policy = TRUE]
    /\ UNCHANGED <<obj, policy, accountState, bucket, uploads, reported, counters>>

annotateServiceAccountWithIRSA ==
    /\ pc = "annotate" /\ Goto("ready")
    /\ IF app.spec.create THEN Apply(app.spec.name, TRUE) ELSE UNCHANGED accountState
    /\ UNCHANGED <<obj, policy, cloud, reported, counters>>

\* The full status; a spec whose storage is gone by now ends in a panic that the
\* controller recovers from as from an error.
SetStorageReady ==
    /\ pc = "ready"
    /\ IF app.spec.storage
       THEN pc' = "rest" /\ RetryStatusUpdate("ready") /\ UNCHANGED <<queued, sub, irsaErr>>
       ELSE Return(TRUE) /\ UNCHANGED <<obj, policy>>
    /\ UNCHANGED <<accountState, cloud, reported, counters>>

\* The other children and the Ready condition; an Application with storage comes
\* back after the resync interval.
Finish ==
    /\ pc = "rest" /\ Return(app.spec.storage)
    /\ UNCHANGED <<obj, policy, accountState, cloud, reported, counters>>

-----------------------------------------------------------------------------
(* finalizeApplication, for a deletion or for storage that was removed. *)

\* The spec's policy, or what the status says of it: a record says nothing,
\* which counts as Delete.
Retained ==
    /\ policy = "Retain"
    /\ (app.del /\ app.spec.storage) \/ app.status = "ready"

NothingToClean == ~app.spec.storage /\ app.status = "none"

finalizeApplication ==
    /\ pc = "cleanup"
    /\ Goto(IF NothingToClean THEN "finish" ELSE "credentials")
    /\ UNCHANGED <<obj, policy, accountState, cloud, reported, counters>>

\* Mutant: the role is deleted only where the status knows of it.
RoleDeletedMutant == app.status = "ready"

\* The role's name follows from the Application's: it is deleted whatever the
\* status says and whoever owns the bucket.
RoleDeleted == TRUE

\* cleanupAppIRSA, alone under Retain and else first of all.
cleanupAppIRSA ==
    /\ pc = "credentials" /\ Goto(IF Retained THEN "finish" ELSE "abort")
    /\ role' = IF RoleDeleted THEN Nil ELSE role
    /\ UNCHANGED <<obj, policy, accountState, bucket, uploads, reported, counters>>

\* Mutant: unfinished uploads are left to S3.
AbortedMutant == uploads

\* What is left after one listing's worth of uploads has been aborted.
Aborted == IF uploads > Page THEN uploads - Page ELSE 0

abortMultipartUploads ==
    /\ pc = "abort" /\ Goto("deleteBucket")
    /\ uploads' = Aborted
    /\ UNCHANGED <<obj, policy, accountState, role, bucket, reported, counters>>

\* S3 refuses while uploads are left; once the bucket is gone a role that could
\* not be deleted is reported.
deleteBucket ==
    /\ pc = "deleteBucket"
    /\ IF bucket /\ uploads > 0 THEN Return(TRUE) /\ UNCHANGED <<bucket, reported>>
       ELSE Goto("finish") /\ bucket' = FALSE /\ reported' = (reported \/ irsaErr)
    /\ UNCHANGED <<obj, policy, accountState, role, uploads, counters>>

\* The finalizer is removed, unless the Application has changed since; or the
\* status is cleared and the reconcile goes on.
FinishCleanup ==
    /\ pc = "finish"
    /\ \/ app.del /\ app = obj /\ obj' = Nil /\ Return(FALSE) /\ UNCHANGED policy
       \/ app.del /\ app # obj /\ Return(TRUE) /\ UNCHANGED <<obj, policy>>
       \/ /\ ~app.del /\ pc' = "rest" /\ RetryStatusUpdate("none")
          /\ UNCHANGED <<queued, sub, irsaErr>>
    /\ UNCHANGED <<accountState, cloud, reported, counters>>

-----------------------------------------------------------------------------
(* Failures. *)

Fault == faults < MaxFaults /\ faults' = faults + 1

\* An error that ends the reconcile; what the call had changed by then is as if
\* the next one had failed.
CallFails ==
    /\ pc \notin {"idle", "credentials"} /\ Fault /\ Return(TRUE)
    /\ UNCHANGED <<obj, policy, accountState, cloud, reported, edits, outside>>

\* The role, or the role after its policy, cannot be deleted.  That does not
\* stop the cleanup; under Retain it is reported at once, unless it was the
\* manager that could not be made.
RoleCleanupFails ==
    /\ pc = "credentials" /\ Fault
    /\ \/ UNCHANGED role
       \/ role # Nil /\ role' = [role EXCEPT !.policy = FALSE]
    /\ IF Retained
       THEN Goto("finish") /\ reported' \in {reported, TRUE}
       ELSE /\ pc' = "abort" /\ irsaErr' = TRUE /\ UNCHANGED <<app, sub, queued, reported>>
    /\ UNCHANGED <<obj, policy, accountState, bucket, uploads, edits, outside>>

\* Under Delete a manager that cannot be made is an error like the others.
ManagerFails ==
    /\ pc = "credentials" /\ ~Retained /\ Fault /\ Return(TRUE)
    /\ UNCHANGED <<obj, policy, accountState, cloud, reported, edits, outside>>

Crash ==
    /\ Fault
    /\ pc' = "idle" /\ app' = Nil /\ sub' = Nil /\ irsaErr' = FALSE
    /\ queued' = TRUE /\ seen' = Controlled /\ events' = {}
    /\ UNCHANGED <<obj, policy, accounts, cloud, reported, edits, outside>>

-----------------------------------------------------------------------------
(* The informer, the garbage collector, the user, and others. *)

SyncAccount(n) ==
    /\ n \in events \/ (n \in seen) # (n \in Controlled)
    /\ events' = events \ {n}
    /\ seen' = IF n \in Controlled THEN seen \cup {n} ELSE seen \ {n}
    /\ queued' = (queued \/ n \in events)
    /\ UNCHANGED <<obj, policy, worker, accounts, cloud, reported, counters>>

GarbageCollect(n) ==
    /\ obj = Nil /\ n \in Controlled
    /\ PutAccounts([accounts EXCEPT ![n] = "absent"])
    /\ UNCHANGED <<api, worker, cloud, reported, counters>>

UserEdit(s) ==
    /\ obj # Nil /\ s # obj.spec /\ edits < MaxEdits /\ edits' = edits + 1
    /\ obj' = [obj EXCEPT !.spec = s] /\ queued' = TRUE
    /\ UNCHANGED <<policy, worker, accountState, cloud, reported, faults, outside>>

UserDelete ==
    /\ obj # Nil /\ ~obj.del
    /\ obj' = [obj EXCEPT !.del = TRUE] /\ queued' = TRUE
    /\ UNCHANGED <<policy, worker, accountState, cloud, reported, counters>>

Outside == outside < MaxOutside /\ outside' = outside + 1

\* Somebody creates an account of their own, or deletes one.
OutsideAccount(n) ==
    /\ Outside
    /\ PutAccounts([accounts EXCEPT ![n] = IF @ = "absent" THEN "user" ELSE "absent"])
    /\ UNCHANGED <<api, worker, cloud, reported, edits, faults>>

\* Somebody deletes the role or the bucket.
OutsideCloud ==
    /\ Outside
    /\ \/ role # Nil /\ role' = Nil /\ UNCHANGED <<bucket, uploads>>
       \/ bucket /\ bucket' = FALSE /\ uploads' = 0 /\ UNCHANGED role
    /\ UNCHANGED <<api, worker, accountState, reported, edits, faults>>

\* The workload starts an upload and leaves it unfinished.
Upload ==
    /\ bucket /\ uploads < MaxUploads /\ Outside
    /\ uploads' \in (uploads + 1) .. MaxUploads
    /\ UNCHANGED <<api, worker, accountState, role, bucket, reported, edits, faults>>

-----------------------------------------------------------------------------

WorkerStep ==
    \/ Get \/ reconcileServiceAccount \/ deleteStaleServiceAccounts
    \/ ensureBucketExists \/ ReconcileRole \/ PutRolePolicy
    \/ annotateServiceAccountWithIRSA \/ SetStorageReady \/ Finish
    \/ finalizeApplication \/ cleanupAppIRSA \/ abortMultipartUploads
    \/ deleteBucket \/ FinishCleanup

FaultStep == CallFails \/ RoleCleanupFails \/ ManagerFails \/ Crash

OutsideStep == (\E n \in Names : OutsideAccount(n)) \/ OutsideCloud \/ Upload

Next ==
    \/ WorkerStep \/ FaultStep \/ OutsideStep \/ UserDelete
    \/ \E n \in Names : SyncAccount(n) \/ GarbageCollect(n)
    \/ \E s \in SpecChoices : UserEdit(s)

Spec == Init /\ [][Next]_vars

\* The worker takes its next call, the informer catches up and the garbage
\* collector collects.
FairSpec ==
    /\ Spec /\ WF_vars(WorkerStep)
    /\ \A n \in Names : WF_vars(SyncAccount(n)) /\ WF_vars(GarbageCollect(n))

-----------------------------------------------------------------------------
(* Properties. *)

\* Nothing tracks the role any more: the object is gone, or its storage is and
\* the status says so.
Untracked ==
    obj = Nil \/ (pc = "idle" /\ ~obj.spec.storage /\ obj.status = "none")

\* Under Delete no role outlives what tracks it without an Event that says so,
\* although a failure to delete it never stops the cleanup (CleanupBucket).
NoRoleLost == policy = "Delete" /\ Untracked /\ role # Nil => reported

\* In the end an Application with storage has a role that trusts the account its
\* pods run under and has access to the bucket, and the account, if it is the
\* operator's, names the role: also after renames, and with a manager whose
\* account name dates from before them (ReconcileAppIRSA).
WorkloadGetsRole ==
    <>[](obj # Nil /\ ~obj.del /\ obj.spec.storage =>
           /\ role = [trust |-> obj.spec.name, policy |-> TRUE]
           /\ obj.spec.create => accounts[obj.spec.name] = "role")

\* In the end reconciles leave the accounts alone: the two applies of one
\* reconcile, with the status in between, do not undo each other for ever
\* (desiredServiceAccount).
AccountsSettle == <>[][UNCHANGED accounts]_vars

\* In the end an Application with storage, which the resync brings back, controls
\* the account its spec asks for and no other, and one that is gone controls none:
\* nothing is left of a rename, a switch to a user-managed account or a deletion,
\* however old the list that is cleaned up by (deleteStaleServiceAccounts).
NoOrphanAccount ==
    <>[](IF obj = Nil THEN Controlled = {}
         ELSE obj.spec.storage /\ ~obj.del =>
                Controlled = IF obj.spec.create THEN {obj.spec.name} ELSE {})

\* A deletion completes, although one attempt aborts no more uploads than a
\* listing returns (abortMultipartUploads).
DeletionCompletes == (obj # Nil /\ obj.del) ~> obj = Nil

=============================================================================

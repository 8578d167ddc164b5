----------------------------- MODULE IRSA_proofs -----------------------------
(***************************************************************************)
(* For any accounts, page size and numbers of edits and failures: under    *)
(* Delete no role is left behind without a word.                           *)
(*                                                                         *)
(* The status is what keeps a role from being forgotten: it says that      *)
(* there is storage from before the role is created until after it is      *)
(* deleted or reported.                                                    *)
(***************************************************************************)
EXTENDS IRSA, TLAPS

\* The worker's copy of the status is never out of date, and what it reconciles
\* is there.
CopyOK == pc # "idle" => obj # Nil /\ app.status = obj.status

\* Some storage is on record in the Application's status.
OnRecord == obj # Nil /\ obj.status # "none"

\* A bucket is on record, and so is one whose role is being set up.
BucketRecorded ==
    bucket \/ pc \in {"role", "rolePolicy", "annotate", "ready"} => OnRecord

\* A role that nobody has been told of is on record.
RoleRecorded == role # Nil /\ ~reported => OnRecord

\* A cleanup that has not deleted the role knows it, and has said so by the time
\* it clears the record, when the bucket is gone too.
CleanupOK ==
    /\ pc \in {"abort", "deleteBucket"} /\ role # Nil => irsaErr
    /\ pc = "finish" => ~bucket /\ (role # Nil => reported)

Inv == TypeOK /\ CopyOK /\ (policy = "Delete" => BucketRecorded /\ RoleRecorded /\ CleanupOK)

\* A new spec, a deletion or another status leaves an Application one.
LEMMA ObjectType ==
    ASSUME TypeOK, obj # Nil
    PROVE  /\ obj \in Object /\ obj.spec \in SpecChoices /\ obj.del \in BOOLEAN
           /\ \A s \in SpecChoices : [obj EXCEPT !.spec = s] \in Object
           /\ [obj EXCEPT !.del = TRUE] \in Object
           /\ \A st \in {"none", "record", "ready"} : [obj EXCEPT !.status = st] \in Object
  <1>1. obj \in Object
    BY DEF TypeOK
  <1>. QED
    BY <1>1 DEF Object

\* The worker's copy is an Application.
LEMMA AppType ==
    ASSUME TypeOK, pc # "idle"
    PROVE  /\ app \in Object /\ app.spec \in SpecChoices /\ app.spec.name \in Names
           /\ app.status \in {"none", "record", "ready"}
  BY SpecAssumption DEF TypeOK, Object, ApplicationSpec

\* A role with another trust or access policy is a role.
LEMMA RoleType ==
    ASSUME TypeOK, role # Nil
    PROVE  /\ \A n \in Names : [role EXCEPT !.trust = n] \in Role
           /\ \A b \in BOOLEAN : [role EXCEPT !.policy = b] \in Role
  <1>1. role \in Role
    BY DEF TypeOK
  <1>. QED
    BY <1>1 DEF Role

\* A write to the accounts keeps their types.
LEMMA AccountsType ==
    ASSUME TypeOK, NEW a \in [Names -> {"absent", "user", "plain", "role"}], PutAccounts(a)
    PROVE  /\ accounts' \in [Names -> {"absent", "user", "plain", "role"}]
           /\ seen' \subseteq Names /\ events' \subseteq Names
  BY DEF TypeOK, PutAccounts

\* So does an apply of the worker's account.
LEMMA ApplyType ==
    ASSUME TypeOK, NEW n \in Names, NEW b, Apply(n, b)
    PROVE  /\ accounts' \in [Names -> {"absent", "user", "plain", "role"}]
           /\ seen' \subseteq Names /\ events' \subseteq Names
  <1>1. [accounts EXCEPT ![n] = IF b THEN "role" ELSE "plain"]
           \in [Names -> {"absent", "user", "plain", "role"}]
    BY DEF TypeOK
  <1>. QED
    BY <1>1, AccountsType DEF Apply

\* A status write leaves an Application in the object and in the copy.
LEMMA UpdateType ==
    ASSUME TypeOK, obj # Nil, NEW st \in {"none", "record", "ready"}, RetryStatusUpdate(st)
    PROVE  /\ obj' \in Object /\ app' = obj' /\ policy' = policy
           /\ obj' # Nil /\ obj'.status = st
  <1>1. obj' \in Object
    BY ObjectType DEF RetryStatusUpdate
  <1>. QED
    BY <1>1, ObjectType, NilAssumption DEF RetryStatusUpdate, Object

\* Init has an Application, and nothing of its own.
LEMMA InitInv == Init => Inv
  <1>. SUFFICES ASSUME Init PROVE Inv
    OBVIOUS
  <1>1. obj \in Object
    BY DEF Init, Object
  <1>2. TypeOK
    BY <1>1 DEF Init, TypeOK, PCs
  <1>. QED
    BY <1>2 DEF Init, Inv, CopyOK, BucketRecorded, RoleRecorded, CleanupOK

\* Every step of the worker, the informer, the user and the others keeps the
\* types, and the worker's copy of the status up to date.
LEMMA TypeStep == TypeOK /\ CopyOK /\ [Next]_vars => TypeOK' /\ CopyOK'
  <1>. SUFFICES ASSUME TypeOK, CopyOK, [Next]_vars PROVE TypeOK' /\ CopyOK'
    OBVIOUS
  <1>. USE DEF api, worker, accountState, cloud, counters
  <1>1. CASE Get
    BY <1>1 DEF Get, TypeOK, CopyOK, PCs
  <1>2. CASE reconcileServiceAccount
    <2>1. /\ accounts' \in [Names -> {"absent", "user", "plain", "role"}]
          /\ seen' \subseteq Names /\ events' \subseteq Names
      <3>1. CASE app.spec.create
        BY <1>2, <3>1, AppType, ApplyType DEF reconcileServiceAccount
      <3>2. CASE ~app.spec.create
        BY <1>2, <3>2 DEF reconcileServiceAccount, TypeOK
      <3>. QED
        BY <3>1, <3>2
    <2>. QED
      BY <1>2, <2>1 DEF reconcileServiceAccount, Goto, TypeOK, CopyOK, PCs
  <1>3. CASE deleteStaleServiceAccounts
    <2>1. [n \in Names |-> IF n \in Stale THEN "absent" ELSE accounts[n]]
             \in [Names -> {"absent", "user", "plain", "role"}]
      BY DEF TypeOK
    <2>2. /\ accounts' \in [Names -> {"absent", "user", "plain", "role"}]
          /\ seen' \subseteq Names /\ events' \subseteq Names
      BY <1>3, <2>1, AccountsType DEF deleteStaleServiceAccounts
    <2>3. /\ pc' \in {"bucket", "cleanup", "rest"}
          /\ pc' = "bucket" => sub' # Nil /\ sub' \in Names
          /\ sub' \in Names \cup {Nil}
      BY <1>3, AppType, NilAssumption DEF deleteStaleServiceAccounts, TypeOK
    <2>. QED
      BY <1>3, <2>2, <2>3 DEF deleteStaleServiceAccounts, TypeOK, CopyOK, PCs
  <1>4. CASE ensureBucketExists
    <2>1. CASE bucket
      BY <1>4, <2>1 DEF ensureBucketExists, TypeOK, CopyOK, PCs
    <2>2. CASE ~bucket
      <3>1. RetryStatusUpdate("record") /\ obj # Nil
        BY <1>4, <2>2 DEF ensureBucketExists, CopyOK
      <3>2. /\ obj' \in Object /\ app' = obj' /\ policy' = policy
            /\ obj' # Nil /\ obj'.status = "record"
        BY <3>1, UpdateType
      <3>. QED
        BY <1>4, <3>2 DEF ensureBucketExists, TypeOK, CopyOK, PCs
    <2>. QED
      BY <2>1, <2>2
  <1>5. CASE ReconcileRole
    <2>1. Trusted \in Role
      BY <1>5, RoleType DEF ReconcileRole, Trusted, TypeOK, Role
    <2>. QED
      BY <1>5, <2>1 DEF ReconcileRole, Goto, TypeOK, CopyOK, PCs
  <1>6. CASE PutRolePolicy
    BY <1>6, RoleType DEF PutRolePolicy, Goto, Return, TypeOK, CopyOK, PCs
  <1>7. CASE annotateServiceAccountWithIRSA
    <2>1. /\ accounts' \in [Names -> {"absent", "user", "plain", "role"}]
          /\ seen' \subseteq Names /\ events' \subseteq Names
      <3>1. CASE app.spec.create
        BY <1>7, <3>1, AppType, ApplyType DEF annotateServiceAccountWithIRSA
      <3>2. CASE ~app.spec.create
        BY <1>7, <3>2 DEF annotateServiceAccountWithIRSA, TypeOK
      <3>. QED
        BY <3>1, <3>2
    <2>. QED
      BY <1>7, <2>1 DEF annotateServiceAccountWithIRSA, Goto, TypeOK, CopyOK, PCs
  <1>8. CASE SetStorageReady
    <2>1. CASE ~app.spec.storage
      BY <1>8, <2>1 DEF SetStorageReady, Return, TypeOK, CopyOK, PCs
    <2>2. CASE app.spec.storage
      <3>1. RetryStatusUpdate("ready") /\ obj # Nil
        BY <1>8, <2>2 DEF SetStorageReady, CopyOK
      <3>2. /\ obj' \in Object /\ app' = obj' /\ policy' = policy
            /\ obj' # Nil /\ obj'.status = "ready"
        BY <3>1, UpdateType
      <3>. QED
        BY <1>8, <2>2, <3>2 DEF SetStorageReady, TypeOK, CopyOK, PCs
    <2>. QED
      BY <2>1, <2>2
  <1>9. CASE Finish
    <2>1. app.spec.storage \in BOOLEAN
      BY <1>9, AppType, SpecAssumption DEF Finish, ApplicationSpec
    <2>. QED
      BY <1>9, <2>1 DEF Finish, Return, TypeOK, CopyOK, PCs
  <1>10. CASE finalizeApplication \/ cleanupAppIRSA
    BY <1>10 DEF finalizeApplication, cleanupAppIRSA, Goto, TypeOK, CopyOK, PCs
  <1>11. CASE abortMultipartUploads
    <2>1. Aborted \in Nat
      BY BoundAssumption DEF Aborted, TypeOK
    <2>. QED
      BY <1>11, <2>1 DEF abortMultipartUploads, Goto, TypeOK, CopyOK, PCs
  <1>12. CASE deleteBucket
    BY <1>12 DEF deleteBucket, Goto, Return, TypeOK, CopyOK, PCs
  <1>13. CASE FinishCleanup
    <2>1. CASE app.del
      BY <1>13, <2>1 DEF FinishCleanup, Return, TypeOK, CopyOK, PCs
    <2>2. CASE ~app.del
      <3>1. RetryStatusUpdate("none") /\ obj # Nil
        BY <1>13, <2>2 DEF FinishCleanup, CopyOK
      <3>2. /\ obj' \in Object /\ app' = obj' /\ policy' = policy
            /\ obj' # Nil /\ obj'.status = "none"
        BY <3>1, UpdateType
      <3>. QED
        BY <1>13, <2>2, <3>2 DEF FinishCleanup, TypeOK, CopyOK, PCs
    <2>. QED
      BY <2>1, <2>2
  <1>14. CASE CallFails \/ ManagerFails
    <2>1. faults' \in Nat
      <3>1. Fault
        BY <1>14, Zenon DEF CallFails, ManagerFails
      <3>. QED
        BY <3>1 DEF Fault, TypeOK
    <2>. QED
      BY <1>14, <2>1 DEF CallFails, ManagerFails, Return, TypeOK, CopyOK, PCs
  <1>15. CASE RoleCleanupFails
    <2>1. faults' \in Nat
      BY <1>15 DEF RoleCleanupFails, Fault, TypeOK
    <2>2. role' \in Role \cup {Nil}
      BY <1>15, RoleType DEF RoleCleanupFails, TypeOK
    <2>3. pc = "credentials" /\ pc' \in {"finish", "abort"} /\ UNCHANGED <<app, sub, queued>>
      BY <1>15 DEF RoleCleanupFails, Goto
    <2>4. irsaErr' \in BOOLEAN /\ reported' \in BOOLEAN
      BY <1>15 DEF RoleCleanupFails, Goto, TypeOK
    <2>. QED
      BY <1>15, <2>1, <2>2, <2>3, <2>4 DEF RoleCleanupFails, TypeOK, CopyOK, PCs
  <1>16. CASE Crash
    <2>1. faults' \in Nat
      BY <1>16 DEF Crash, Fault, TypeOK
    <2>. QED
      BY <1>16, <2>1 DEF Crash, Controlled, TypeOK, CopyOK, PCs
  <1>17. ASSUME NEW n \in Names, SyncAccount(n)
         PROVE  TypeOK' /\ CopyOK'
    BY <1>17 DEF SyncAccount, TypeOK, CopyOK
  <1>18. ASSUME NEW n \in Names, GarbageCollect(n)
         PROVE  TypeOK' /\ CopyOK'
    <2>1. [accounts EXCEPT ![n] = "absent"] \in [Names -> {"absent", "user", "plain", "role"}]
      BY DEF TypeOK
    <2>. QED
      BY <1>18, <2>1, AccountsType DEF GarbageCollect, TypeOK, CopyOK
  <1>19. ASSUME NEW s \in SpecChoices, UserEdit(s)
         PROVE  TypeOK' /\ CopyOK'
    <2>1. obj # Nil /\ obj' = [obj EXCEPT !.spec = s]
      BY <1>19 DEF UserEdit
    <2>2. obj' \in Object /\ obj'.status = obj.status
      BY <2>1, ObjectType DEF Object
    <2>. QED
      BY <1>19, <2>2, NilAssumption DEF UserEdit, TypeOK, CopyOK
  <1>20. CASE UserDelete
    <2>1. obj # Nil /\ obj' = [obj EXCEPT !.del = TRUE]
      BY <1>20 DEF UserDelete
    <2>2. obj' \in Object /\ obj'.status = obj.status
      BY <2>1, ObjectType DEF Object
    <2>. QED
      BY <1>20, <2>2, NilAssumption DEF UserDelete, TypeOK, CopyOK
  <1>21. ASSUME NEW n \in Names, OutsideAccount(n)
         PROVE  TypeOK' /\ CopyOK'
    <2>1. [accounts EXCEPT ![n] = IF @ = "absent" THEN "user" ELSE "absent"]
             \in [Names -> {"absent", "user", "plain", "role"}]
      BY DEF TypeOK
    <2>2. outside' \in Nat
      BY <1>21 DEF OutsideAccount, Outside, TypeOK
    <2>. QED
      BY <1>21, <2>1, <2>2, AccountsType DEF OutsideAccount, TypeOK, CopyOK
  <1>22. CASE OutsideCloud
    <2>1. outside' \in Nat
      BY <1>22 DEF OutsideCloud, Outside, TypeOK
    <2>2. role' \in {role, Nil} /\ bucket' \in {bucket, FALSE} /\ uploads' \in {uploads, 0}
      BY <1>22, Zenon DEF OutsideCloud
    <2>3. role' \in Role \cup {Nil} /\ bucket' \in BOOLEAN
      BY <2>2 DEF TypeOK
    <2>4. uploads' \in Nat
      BY <2>2 DEF TypeOK
    <2>5. UNCHANGED <<api, worker, accountState, reported, edits, faults>>
      BY <1>22 DEF OutsideCloud
    <2>. QED
      BY <2>1, <2>3, <2>4, <2>5 DEF TypeOK, CopyOK
  <1>23. CASE Upload
    BY <1>23, BoundAssumption DEF Upload, Outside, TypeOK, CopyOK
  <1>24. CASE UNCHANGED vars
    BY <1>24 DEF vars, TypeOK, CopyOK
  <1>. QED
    BY <1>1, <1>2, <1>3, <1>4, <1>5, <1>6, <1>7, <1>8, <1>9, <1>10, <1>11, <1>12, <1>13,
       <1>14, <1>15, <1>16, <1>17, <1>18, <1>19, <1>20, <1>21, <1>22, <1>23, <1>24
       DEF Next, WorkerStep, FaultStep, OutsideStep

\* Under Delete the record outlives the bucket, and the role unless an Event has
\* told of it.
LEMMA RecordStep ==
    Inv /\ [Next]_vars /\ policy' = "Delete" => (BucketRecorded /\ RoleRecorded /\ CleanupOK)'
  <1>. SUFFICES ASSUME Inv, [Next]_vars, policy' = "Delete"
                PROVE  (BucketRecorded /\ RoleRecorded /\ CleanupOK)'
    OBVIOUS
  <1>. USE DEF api, worker, accountState, cloud, counters, BucketRecorded, RoleRecorded,
               CleanupOK, OnRecord
  <1>0. policy = "Delete" /\ policy' = policy
    BY DEF Next, WorkerStep, FaultStep, OutsideStep, Get, reconcileServiceAccount,
       deleteStaleServiceAccounts, ensureBucketExists, ReconcileRole, PutRolePolicy,
       annotateServiceAccountWithIRSA, SetStorageReady, Finish, finalizeApplication,
       cleanupAppIRSA, abortMultipartUploads, deleteBucket, FinishCleanup, CallFails,
       RoleCleanupFails, ManagerFails, Crash, OutsideAccount, OutsideCloud, Upload, UserDelete,
       SyncAccount, GarbageCollect, UserEdit, RetryStatusUpdate, vars
  <1>a. TypeOK /\ CopyOK /\ BucketRecorded /\ RoleRecorded /\ CleanupOK
    BY <1>0, Zenon DEF Inv
  <1>b. TypeOK' /\ CopyOK'
    BY <1>a, TypeStep
  <1>c. ~Retained
    BY <1>0 DEF Retained
  <1>1. CASE Get \/ Finish \/ CallFails \/ ManagerFails \/ Crash
    BY <1>1, <1>a DEF Get, Finish, CallFails, ManagerFails, Crash, Return
  <1>2. CASE reconcileServiceAccount \/ deleteStaleServiceAccounts
    BY <1>2, <1>a DEF reconcileServiceAccount, deleteStaleServiceAccounts, Goto
  <1>3. CASE ensureBucketExists
    <2>1. CASE bucket
      BY <1>3, <2>1, <1>a DEF ensureBucketExists
    <2>2. CASE ~bucket
      <3>1. RetryStatusUpdate("record") /\ obj # Nil
        BY <1>3, <2>2, <1>a DEF ensureBucketExists, CopyOK
      <3>2. obj' # Nil /\ obj'.status = "record"
        BY <3>1, <1>a, UpdateType
      <3>. QED
        BY <1>3, <3>2, <1>a DEF ensureBucketExists
    <2>. QED
      BY <2>1, <2>2
  <1>4. CASE ReconcileRole
    BY <1>4, <1>a DEF ReconcileRole, Goto
  <1>5. CASE PutRolePolicy
    BY <1>5, <1>a DEF PutRolePolicy, Goto, Return
  <1>6. CASE annotateServiceAccountWithIRSA
    BY <1>6, <1>a DEF annotateServiceAccountWithIRSA, Goto
  <1>7. CASE SetStorageReady
    <2>1. CASE ~app.spec.storage
      BY <1>7, <2>1, <1>a DEF SetStorageReady, Return
    <2>2. CASE app.spec.storage
      <3>1. RetryStatusUpdate("ready") /\ obj # Nil
        BY <1>7, <2>2, <1>a DEF SetStorageReady, CopyOK
      <3>2. obj' # Nil /\ obj'.status = "ready"
        BY <3>1, <1>a, UpdateType
      <3>. QED
        BY <1>7, <2>2, <3>2, <1>a DEF SetStorageReady
    <2>. QED
      BY <2>1, <2>2
  <1>8. CASE finalizeApplication
    BY <1>8, <1>a DEF finalizeApplication, Goto, NothingToClean, CopyOK
  <1>9. CASE cleanupAppIRSA
    BY <1>9, <1>a, <1>c DEF cleanupAppIRSA, Goto, RoleDeleted
  <1>10. CASE abortMultipartUploads
    BY <1>10, <1>a DEF abortMultipartUploads, Goto
  <1>11. CASE deleteBucket
    BY <1>11, <1>a DEF deleteBucket, Goto, Return
  <1>12. CASE FinishCleanup
    <2>1. pc = "finish" /\ pc' \in {"idle", "rest"} /\ UNCHANGED <<bucket, role, reported>>
      BY <1>12 DEF FinishCleanup, Return
    <2>. QED
      BY <2>1, <1>a
  <1>13. CASE RoleCleanupFails
    BY <1>13, <1>a, <1>c DEF RoleCleanupFails
  <1>14. ASSUME NEW n \in Names, SyncAccount(n) \/ GarbageCollect(n) \/ OutsideAccount(n)
         PROVE  UNCHANGED <<obj, pc, bucket, role, reported, irsaErr>>
    BY <1>14 DEF SyncAccount, GarbageCollect, OutsideAccount
  <1>15. ASSUME NEW s \in SpecChoices, UserEdit(s)
         PROVE  (BucketRecorded /\ RoleRecorded /\ CleanupOK)'
    <2>1. obj # Nil /\ obj' = [obj EXCEPT !.spec = s]
      BY <1>15 DEF UserEdit
    <2>2. obj' # Nil /\ obj'.status = obj.status
      BY <2>1, <1>a, ObjectType, NilAssumption DEF Object
    <2>. QED
      BY <1>15, <2>2, <1>a DEF UserEdit
  <1>16. CASE UserDelete
    <2>1. obj # Nil /\ obj' = [obj EXCEPT !.del = TRUE]
      BY <1>16 DEF UserDelete
    <2>2. obj' # Nil /\ obj'.status = obj.status
      BY <2>1, <1>a, ObjectType, NilAssumption DEF Object
    <2>. QED
      BY <1>16, <2>2, <1>a DEF UserDelete
  <1>17. CASE OutsideCloud
    BY <1>17, <1>a DEF OutsideCloud
  <1>18. CASE Upload
    BY <1>18, <1>a DEF Upload
  <1>19. ASSUME UNCHANGED <<obj, pc, bucket, role, reported, irsaErr>>
         PROVE  (BucketRecorded /\ RoleRecorded /\ CleanupOK)'
    BY <1>19, <1>a
  <1>20. CASE UNCHANGED vars
    BY <1>19, <1>20 DEF vars
  <1>. QED
    BY <1>1, <1>2, <1>3, <1>4, <1>5, <1>6, <1>7, <1>8, <1>9, <1>10, <1>11, <1>12, <1>13,
       <1>14, <1>15, <1>16, <1>17, <1>18, <1>19, <1>20
       DEF Next, WorkerStep, FaultStep, OutsideStep

\* The types, the worker's copy and the record hold for any accounts, page size
\* and bounds.
THEOREM IRSAInvariance == Spec => []Inv
  <1>1. Inv /\ [Next]_vars => Inv'
    BY TypeStep, RecordStep DEF Inv
  <1>. QED
    BY InitInv, <1>1, PTL DEF Spec

\* The worker has a copy of the Application, and a storage manager where it uses
\* one, throughout a reconcile (Reconcile).
THEOREM IRSATypes == Spec => []TypeOK
  <1>1. Inv => TypeOK
    BY DEF Inv
  <1>. QED
    BY <1>1, IRSAInvariance, PTL

\* Under Delete no role outlives what tracks it without an Event that says so,
\* however often calls fail, the operator crashes and the storage comes and goes
\* (CleanupBucket, cleanupAppIRSA).
THEOREM RoleNeverLost == Spec => []NoRoleLost
  <1>1. Inv => NoRoleLost
    BY DEF Inv, RoleRecorded, OnRecord, NoRoleLost, Untracked
  <1>. QED
    BY <1>1, IRSAInvariance, PTL
=============================================================================

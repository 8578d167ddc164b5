-------------------------- MODULE AccessKeys_proofs --------------------------
(***************************************************************************)
(* For any buckets, Secret names and numbers of failures, edits and        *)
(* outside deletions: one key per label, Secrets whose halves belong       *)
(* together, and no key left behind unless the last reconcile that had it  *)
(* to deal with gave it up.                                                *)
(***************************************************************************)
EXTENDS AccessKeys, TLAPS

\* The manager and the Application's storage are there where they are used.
MgrOK ==
    pc \in {"ensureBucket", "lookup", "list", "deleteKey", "createKey", "claim", "empty",
            "cleanupKey", "deleteBucket"} => mgr # Nil

AppOK == pc \in {"ensureBucket", "applySecret"} => app # Nil

\* A key is created only when no other one is left.
CreateOK ==
    /\ pc = "createKey" => keys = {}
    /\ pc = "deleteKey" => keys \subseteq {found}

\* Credentials that the provider has accepted belong together.
CredsOK ==
    /\ pc = "claim" => creds # Nil
    /\ pc = "recordReady" => creds # Nil /\ creds.access = creds.secret
    /\ pc = "applySecret" => creds = Nil \/ creds.access = creds.secret

\* The Application's storage goes away only with a status write, which leaves a
\* record of the bucket.
RecordOK ==
    job = "provision" /\ app = Nil
       /\ pc \in {"list", "deleteKey", "createKey", "claim", "recordReady"} => status # Nil

\* Without a record of the bucket, a key exists only while a reconcile uses it.
KeysTracked ==
    keys # {} /\ ~lost =>
       \/ status # Nil
       \/ pc \in {"deleteKey", "claim", "dropKey", "recordReady", "empty", "cleanupKey"}

\* Once the key is cleaned up, none is left.
KeysCleaned ==
    pc \in {"deleteBucket", "clearStatus", "removeFinalizer"} /\ ~lost => keys = {}

\* Nobody reconciles what is gone, and a reconcile for a cleanup is one until it
\* starts to provision.
JobOK ==
    /\ life = "gone" => pc = "idle"
    /\ pc \in {"ensureBucket", "recordReady"} => job = "provision"
    /\ pc = "lookup" => job # "provision"

Inv ==
    /\ TypeOK /\ MgrOK /\ AppOK /\ CreateOK /\ CredsOK /\ RecordOK
    /\ KeysTracked /\ KeysCleaned /\ JobOK
    /\ OneKey /\ SecretPairs /\ NoKeyLeft

\* The Application starts with nothing.
LEMMA InitInv == Init => Inv
  <1>. SUFFICES ASSUME Init PROVE Inv
    OBVIOUS
  <1>1. TypeOK
    BY DEF Init, TypeOK, PCs, Jobs
  <1>. QED
    BY <1>1 DEF Init, Inv, MgrOK, AppOK, CreateOK, CredsOK, RecordOK, KeysTracked,
       KeysCleaned, JobOK, OneKey, SecretPairs, NoKeyLeft

\* A new key's ID is one that nothing refers to.
LEMMA FreshID ==
    ASSUME TypeOK, InUse # KeyIDs
    PROVE  (CHOOSE i \in KeyIDs : i \notin InUse) \in KeyIDs
  <1>1. InUse \subseteq KeyIDs
    BY DEF InUse, TypeOK, Key, Pair
  <1>2. PICK i \in KeyIDs : i \notin InUse
    BY <1>1
  <1>. QED
    BY <1>2

\* The record of a creation is a complete status.
LEMMA CreationRecord ==
    ASSUME NEW b \in Buckets
    PROVE  /\ [bucket |-> b, name |-> DefaultName, retain |-> FALSE] \in StorageSpec
           /\ [bucket |-> b, name |-> DefaultName, retain |-> FALSE] # Nil
  <1>1. [bucket |-> b, name |-> DefaultName, retain |-> FALSE] \in StorageSpec
    BY NameAssumption, Zenon DEF StorageSpec
  <1>. QED
    BY <1>1, NilAssumption

\* Every step keeps the types; the worker has what it takes a field of.
LEMMA TypeStep == ASSUME Inv, [Next]_vars PROVE TypeOK'
  <1>. USE NameAssumption, NilAssumption
       DEF TypeOK, StorageSpec, Key, Pair, PCs, Jobs, object, cloud, worker, bounds
  <1>1. CASE Reconcile
    BY <1>1 DEF Inv, Reconcile, Finalize, SameIdentity
  <1>2. CASE ensureBucketExists
    <2>1. mgr.bucket \in Buckets
      BY <1>2 DEF Inv, MgrOK, ensureBucketExists
    <2>2. bucket' \in [Buckets -> {"absent", "ours", "other"}]
      BY <1>2, <2>1 DEF Inv, ensureBucketExists
    <2>3. status' \in StorageSpec \cup {Nil}
      <3>1. \/ status' = status
            \/ status' = [bucket |-> mgr.bucket, name |-> DefaultName, retain |-> FALSE]
        BY <1>2 DEF ensureBucketExists
      <3>. HIDE DEF StorageSpec
      <3>. QED
        BY <2>1, <3>1, CreationRecord DEF Inv
    <2>. QED
      BY <1>2, <2>2, <2>3 DEF Inv, ensureBucketExists
  <1>3. CASE listKeys
    <2>1. ASSUME recoverSecretKey # Nil  PROVE recoverSecretKey \in KeyIDs
      BY <2>1 DEF Inv, recoverSecretKey, StorageSecret
    <2>2. found' \in Key \cup {Nil} /\ pc' \in PCs /\ lost' \in BOOLEAN
      BY <1>3 DEF Inv, listKeys, Unusable
    <2>3. creds' \in Pair \cup {Nil}
      BY <1>3, <2>1 DEF Inv, listKeys
    <2>. QED
      BY <1>3, <2>2, <2>3 DEF Inv, listKeys
  <1>4. CASE deleteUnusableKey
    BY <1>4 DEF Inv, deleteUnusableKey, Return
  <1>5. CASE createKey
    <2>1. PICK i \in KeyIDs : NewKey(i) /\ creds' = [access |-> i, secret |-> i]
      BY <1>5, FreshID DEF Inv, createKey
    <2>2. mgr.bucket \in Buckets
      BY <1>5 DEF Inv, MgrOK, createKey
    <2>3. keys' \subseteq Key
      BY <2>1, <2>2 DEF Inv, NewKey
    <2>4. creds' \in Pair
      BY <2>1
    <2>5. /\ pc' = "claim" /\ lost' = FALSE
          /\ UNCHANGED <<object, bucket, secrets, job, app, mgr, found, bounds>>
      BY <1>5 DEF createKey
    <2>. HIDE DEF StorageSpec, Key, Pair
    <2>. QED
      BY <2>3, <2>4, <2>5 DEF Inv
  <1>6. CASE claimOrVerifyOwnership
    BY <1>6 DEF Inv, claimOrVerifyOwnership, Owns, Accepted
  <1>7. CASE dropKey
    BY <1>7 DEF Inv, dropKey, Drop, DeleteByLabel, Return
  <1>8. CASE recordReady
    BY <1>8 DEF Inv, recordReady, Return
  <1>9. CASE applySecret
    BY <1>9 DEF Inv, AppOK, applySecret, SecretData
  <1>10. CASE deleteStaleSecrets
    BY <1>10 DEF Inv, deleteStaleSecrets, Return
  <1>11. CASE lookupBucket
    BY <1>11 DEF Inv, lookupBucket
  <1>12. CASE emptyBucket
    BY <1>12 DEF Inv, emptyBucket
  <1>13. CASE cleanupKey
    BY <1>13 DEF Inv, cleanupKey, DeleteByLabel
  <1>14. CASE retainKey
    BY <1>14 DEF Inv, retainKey, DeleteByLabel, Cleaned
  <1>15. CASE deleteBucket
    BY <1>15 DEF Inv, MgrOK, deleteBucket, Cleaned
  <1>16. CASE clearStatus
    BY <1>16 DEF Inv, clearStatus, Return
  <1>17. CASE removeFinalizer
    BY <1>17 DEF Inv, removeFinalizer, Return
  <1>18. CASE CallFails
    BY <1>18 DEF Inv, CallFails, Return
  <1>19. CASE ClaimFails
    BY <1>19 DEF Inv, ClaimFails
  <1>20. CASE KeyCleanupFails
    BY <1>20 DEF Inv, KeyCleanupFails, Cleaned
  <1>21. CASE UserEdit
    BY <1>21 DEF Inv, UserEdit
  <1>22. CASE UserDelete
    BY <1>22 DEF Inv, UserDelete
  <1>23. CASE Outside
    BY <1>23 DEF Inv, Outside
  <1>24. CASE SecretReadFails
    <2>1. found' \in Key /\ pc' \in PCs /\ lost' \in BOOLEAN
      <3>. HIDE DEF Key
      <3>. QED
        BY <1>24 DEF Inv, SecretReadFails, Unusable
    <2>2. faults' \in Nat
      BY <1>24 DEF Inv, SecretReadFails
    <2>. QED
      BY <1>24, <2>1, <2>2 DEF Inv, SecretReadFails
  <1>25. CASE UNCHANGED vars
    BY <1>25 DEF Inv, vars
  <1>. QED
    BY <1>1, <1>2, <1>3, <1>4, <1>5, <1>6, <1>7, <1>8, <1>9, <1>10, <1>11,
       <1>12, <1>13, <1>14, <1>15, <1>16, <1>17, <1>18, <1>19, <1>20, <1>21,
       <1>22, <1>23, <1>24, <1>25 DEF Next, Work

\* The inductive step: one case per action; under it the parts of the invariant
\* about the worker, the keys, the credentials, and what is left behind.
LEMMA InvStep == ASSUME Inv, [Next]_vars PROVE Inv'
  <1>t. TypeOK'
    BY TypeStep
  <1>. USE DEF object, cloud, worker, bounds
  <1>1. CASE Reconcile
    <2>1. MgrOK' /\ AppOK' /\ JobOK'
      BY <1>t, <1>1 DEF Inv, Reconcile, Finalize, SameIdentity, MgrOK, AppOK,
         JobOK
    <2>2. CreateOK' /\ OneKey'
      BY <1>t, <1>1 DEF Inv, Reconcile, Finalize, SameIdentity, CreateOK, OneKey
    <2>3. CredsOK' /\ SecretPairs'
      BY <1>t, <1>1 DEF Inv, TypeOK, Pair, Reconcile, Finalize, SameIdentity,
         CredsOK, SecretPairs, AppOK
    <2>4. RecordOK' /\ KeysTracked' /\ KeysCleaned' /\ NoKeyLeft'
      BY <1>t, <1>1 DEF Inv, Reconcile, Finalize, SameIdentity, RecordOK,
         KeysTracked, KeysCleaned, NoKeyLeft, OneKey, CreateOK, JobOK, AppOK
    <2>. QED
      BY <1>t, <2>1, <2>2, <2>3, <2>4 DEF Inv
  <1>2. CASE ensureBucketExists
    <2>1. MgrOK' /\ AppOK' /\ JobOK'
      BY <1>t, <1>2 DEF Inv, ensureBucketExists, MgrOK, AppOK, JobOK
    <2>2. CreateOK' /\ OneKey'
      BY <1>t, <1>2 DEF Inv, ensureBucketExists, CreateOK, OneKey
    <2>3. CredsOK' /\ SecretPairs'
      BY <1>t, <1>2 DEF Inv, TypeOK, Pair, ensureBucketExists, CredsOK,
         SecretPairs, AppOK
    <2>4. RecordOK' /\ KeysTracked' /\ KeysCleaned' /\ NoKeyLeft'
      <3>0. mgr.bucket \in Buckets
        BY <1>2 DEF Inv, TypeOK, StorageSpec, MgrOK, ensureBucketExists
      <3>1. app' = Nil => status' # Nil
        BY <1>2, <3>0, CreationRecord DEF Inv, AppOK, ensureBucketExists
      <3>2. status # Nil => status' # Nil
        BY <1>2, <3>0, CreationRecord DEF ensureBucketExists
      <3>. QED
        BY <1>2, <3>1, <3>2 DEF Inv, ensureBucketExists, RecordOK, KeysTracked, KeysCleaned,
           NoKeyLeft, JobOK
    <2>. QED
      BY <1>t, <2>1, <2>2, <2>3, <2>4 DEF Inv
  <1>3. CASE listKeys
    <2>1. MgrOK' /\ AppOK' /\ JobOK'
      BY <1>t, <1>3 DEF Inv, listKeys, Unusable, recoverSecretKey,
         StorageSecret, MgrOK, AppOK, JobOK
    <2>2. CreateOK' /\ OneKey'
      BY <1>t, <1>3 DEF Inv, listKeys, Unusable, recoverSecretKey,
         StorageSecret, CreateOK, OneKey
    <2>3. CredsOK' /\ SecretPairs'
      <3>1. creds' # Nil \/ pc' # "claim"
        <4>1. CASE recoverSecretKey = Nil
          BY <1>3, <4>1 DEF listKeys, Unusable
        <4>2. CASE recoverSecretKey # Nil /\ keys # {}
          <5>1. PICK k \in keys : creds' = [access |-> k.id, secret |-> recoverSecretKey]
            BY <1>3, <4>2 DEF listKeys
          <5>2. recoverSecretKey \in KeyIDs
            BY <4>2, NameAssumption, NilAssumption
               DEF Inv, TypeOK, Pair, StorageSpec, recoverSecretKey, StorageSecret
          <5>3. creds' \in Pair
            BY <5>1, <5>2 DEF Inv, TypeOK, Key, Pair
          <5>. QED
            BY <5>3, NilAssumption
        <4>3. CASE keys = {}
          BY <1>3, <4>3 DEF listKeys
        <4>. QED
          BY <4>1, <4>2, <4>3
      <3>. QED
        BY <1>3, <3>1 DEF Inv, listKeys, Unusable, CredsOK, SecretPairs
    <2>4. RecordOK' /\ KeysTracked' /\ KeysCleaned' /\ NoKeyLeft'
      BY <1>t, <1>3 DEF Inv, listKeys, Unusable, recoverSecretKey,
         StorageSecret, RecordOK, KeysTracked, KeysCleaned, NoKeyLeft, OneKey,
         CreateOK, JobOK, AppOK
    <2>. QED
      BY <1>t, <2>1, <2>2, <2>3, <2>4 DEF Inv
  <1>4. CASE deleteUnusableKey
    <2>1. MgrOK' /\ AppOK' /\ JobOK'
      BY <1>t, <1>4 DEF Inv, deleteUnusableKey, Return, MgrOK, AppOK, JobOK
    <2>2. CreateOK' /\ OneKey'
      BY <1>t, <1>4 DEF Inv, deleteUnusableKey, Return, CreateOK, OneKey
    <2>3. CredsOK' /\ SecretPairs'
      BY <1>t, <1>4 DEF Inv, TypeOK, Pair, deleteUnusableKey, Return, CredsOK,
         SecretPairs, AppOK
    <2>4. RecordOK' /\ KeysTracked' /\ KeysCleaned' /\ NoKeyLeft'
      BY <1>t, <1>4 DEF Inv, deleteUnusableKey, Return, RecordOK, KeysTracked,
         KeysCleaned, NoKeyLeft, OneKey, CreateOK, JobOK, AppOK
    <2>. QED
      BY <1>t, <2>1, <2>2, <2>3, <2>4 DEF Inv
  <1>5. CASE createKey
    <2>1. MgrOK' /\ AppOK' /\ JobOK'
      BY <1>t, <1>5 DEF Inv, createKey, NewKey, MgrOK, AppOK, JobOK
    <2>2. CreateOK' /\ OneKey'
      BY <1>t, <1>5 DEF Inv, createKey, NewKey, CreateOK, OneKey
    <2>3. CredsOK' /\ SecretPairs'
      <3>1. PICK i \in KeyIDs : creds' = [access |-> i, secret |-> i]
        BY <1>5, FreshID DEF Inv, createKey
      <3>2. creds' \in Pair
        BY <3>1 DEF Pair
      <3>3. creds' # Nil
        BY <3>2, NilAssumption
      <3>. QED
        BY <1>5, <3>3 DEF Inv, createKey, CredsOK, SecretPairs
    <2>4. RecordOK' /\ KeysTracked' /\ KeysCleaned' /\ NoKeyLeft'
      BY <1>t, <1>5 DEF Inv, createKey, NewKey, RecordOK, KeysTracked,
         KeysCleaned, NoKeyLeft, OneKey, CreateOK, JobOK, AppOK
    <2>. QED
      BY <1>t, <2>1, <2>2, <2>3, <2>4 DEF Inv
  <1>6. CASE claimOrVerifyOwnership
    <2>1. MgrOK' /\ AppOK' /\ JobOK'
      BY <1>t, <1>6 DEF Inv, claimOrVerifyOwnership, Owns, Accepted, MgrOK,
         AppOK, JobOK
    <2>2. CreateOK' /\ OneKey'
      BY <1>t, <1>6 DEF Inv, claimOrVerifyOwnership, Owns, Accepted, CreateOK,
         OneKey
    <2>3. CredsOK' /\ SecretPairs'
      BY <1>t, <1>6 DEF Inv, TypeOK, Pair, claimOrVerifyOwnership, Owns,
         Accepted, CredsOK, SecretPairs, AppOK
    <2>4. RecordOK' /\ KeysTracked' /\ KeysCleaned' /\ NoKeyLeft'
      BY <1>t, <1>6 DEF Inv, claimOrVerifyOwnership, Owns, Accepted, RecordOK,
         KeysTracked, KeysCleaned, NoKeyLeft, OneKey, CreateOK, JobOK, AppOK
    <2>. QED
      BY <1>t, <2>1, <2>2, <2>3, <2>4 DEF Inv
  <1>7. CASE dropKey
    <2>1. MgrOK' /\ AppOK' /\ JobOK'
      BY <1>t, <1>7 DEF Inv, dropKey, Drop, DeleteByLabel, Return, MgrOK, AppOK,
         JobOK
    <2>2. CreateOK' /\ OneKey'
      BY <1>t, <1>7 DEF Inv, dropKey, Drop, DeleteByLabel, Return, CreateOK,
         OneKey
    <2>3. CredsOK' /\ SecretPairs'
      BY <1>t, <1>7 DEF Inv, TypeOK, Pair, dropKey, Drop, DeleteByLabel, Return,
         CredsOK, SecretPairs, AppOK
    <2>4. RecordOK' /\ KeysTracked' /\ KeysCleaned' /\ NoKeyLeft'
      BY <1>t, <1>7 DEF Inv, dropKey, Drop, DeleteByLabel, Return, RecordOK,
         KeysTracked, KeysCleaned, NoKeyLeft, OneKey, CreateOK, JobOK, AppOK
    <2>. QED
      BY <1>t, <2>1, <2>2, <2>3, <2>4 DEF Inv
  <1>8. CASE recordReady
    <2>1. MgrOK' /\ AppOK' /\ JobOK'
      BY <1>t, <1>8 DEF Inv, recordReady, Return, MgrOK, AppOK, JobOK
    <2>2. CreateOK' /\ OneKey'
      BY <1>t, <1>8 DEF Inv, recordReady, Return, CreateOK, OneKey
    <2>3. CredsOK' /\ SecretPairs'
      BY <1>t, <1>8 DEF Inv, TypeOK, Pair, recordReady, Return, CredsOK,
         SecretPairs, AppOK
    <2>4. RecordOK' /\ KeysTracked' /\ KeysCleaned' /\ NoKeyLeft'
      BY <1>t, <1>8 DEF Inv, recordReady, Return, RecordOK, KeysTracked,
         KeysCleaned, NoKeyLeft, OneKey, CreateOK, JobOK, AppOK
    <2>. QED
      BY <1>t, <2>1, <2>2, <2>3, <2>4 DEF Inv
  <1>9. CASE applySecret
    <2>1. MgrOK' /\ AppOK' /\ JobOK'
      BY <1>t, <1>9 DEF Inv, applySecret, SecretData, MgrOK, AppOK, JobOK
    <2>2. CreateOK' /\ OneKey'
      BY <1>t, <1>9 DEF Inv, applySecret, SecretData, CreateOK, OneKey
    <2>3. CredsOK' /\ SecretPairs'
      BY <1>t, <1>9 DEF Inv, TypeOK, Pair, applySecret, SecretData, CredsOK,
         SecretPairs, AppOK
    <2>4. RecordOK' /\ KeysTracked' /\ KeysCleaned' /\ NoKeyLeft'
      BY <1>t, <1>9 DEF Inv, applySecret, SecretData, RecordOK, KeysTracked,
         KeysCleaned, NoKeyLeft, OneKey, CreateOK, JobOK, AppOK
    <2>. QED
      BY <1>t, <2>1, <2>2, <2>3, <2>4 DEF Inv
  <1>10. CASE deleteStaleSecrets
    <2>1. MgrOK' /\ AppOK' /\ JobOK'
      BY <1>t, <1>10 DEF Inv, deleteStaleSecrets, Return, MgrOK, AppOK, JobOK
    <2>2. CreateOK' /\ OneKey'
      BY <1>t, <1>10 DEF Inv, deleteStaleSecrets, Return, CreateOK, OneKey
    <2>3. CredsOK' /\ SecretPairs'
      BY <1>t, <1>10 DEF Inv, TypeOK, Pair, deleteStaleSecrets, Return, CredsOK,
         SecretPairs, AppOK
    <2>4. RecordOK' /\ KeysTracked' /\ KeysCleaned' /\ NoKeyLeft'
      BY <1>t, <1>10 DEF Inv, deleteStaleSecrets, Return, RecordOK, KeysTracked,
         KeysCleaned, NoKeyLeft, OneKey, CreateOK, JobOK, AppOK
    <2>. QED
      BY <1>t, <2>1, <2>2, <2>3, <2>4 DEF Inv
  <1>11. CASE lookupBucket
    <2>1. MgrOK' /\ AppOK' /\ JobOK'
      BY <1>t, <1>11 DEF Inv, lookupBucket, MgrOK, AppOK, JobOK
    <2>2. CreateOK' /\ OneKey'
      BY <1>t, <1>11 DEF Inv, lookupBucket, CreateOK, OneKey
    <2>3. CredsOK' /\ SecretPairs'
      BY <1>t, <1>11 DEF Inv, TypeOK, Pair, lookupBucket, CredsOK, SecretPairs,
         AppOK
    <2>4. RecordOK' /\ KeysTracked' /\ KeysCleaned' /\ NoKeyLeft'
      BY <1>t, <1>11 DEF Inv, lookupBucket, RecordOK, KeysTracked, KeysCleaned,
         NoKeyLeft, OneKey, CreateOK, JobOK, AppOK
    <2>. QED
      BY <1>t, <2>1, <2>2, <2>3, <2>4 DEF Inv
  <1>12. CASE emptyBucket
    <2>1. MgrOK' /\ AppOK' /\ JobOK'
      BY <1>t, <1>12 DEF Inv, emptyBucket, MgrOK, AppOK, JobOK
    <2>2. CreateOK' /\ OneKey'
      BY <1>t, <1>12 DEF Inv, emptyBucket, CreateOK, OneKey
    <2>3. CredsOK' /\ SecretPairs'
      BY <1>t, <1>12 DEF Inv, TypeOK, Pair, emptyBucket, CredsOK, SecretPairs,
         AppOK
    <2>4. RecordOK' /\ KeysTracked' /\ KeysCleaned' /\ NoKeyLeft'
      BY <1>t, <1>12 DEF Inv, emptyBucket, RecordOK, KeysTracked, KeysCleaned,
         NoKeyLeft, OneKey, CreateOK, JobOK, AppOK
    <2>. QED
      BY <1>t, <2>1, <2>2, <2>3, <2>4 DEF Inv
  <1>13. CASE cleanupKey
    <2>1. MgrOK' /\ AppOK' /\ JobOK'
      BY <1>t, <1>13 DEF Inv, cleanupKey, DeleteByLabel, MgrOK, AppOK, JobOK
    <2>2. CreateOK' /\ OneKey'
      BY <1>t, <1>13 DEF Inv, cleanupKey, DeleteByLabel, CreateOK, OneKey
    <2>3. CredsOK' /\ SecretPairs'
      BY <1>t, <1>13 DEF Inv, TypeOK, Pair, cleanupKey, DeleteByLabel, CredsOK,
         SecretPairs, AppOK
    <2>4. RecordOK' /\ KeysTracked' /\ KeysCleaned' /\ NoKeyLeft'
      BY <1>t, <1>13 DEF Inv, cleanupKey, DeleteByLabel, RecordOK, KeysTracked,
         KeysCleaned, NoKeyLeft, OneKey, CreateOK, JobOK, AppOK
    <2>. QED
      BY <1>t, <2>1, <2>2, <2>3, <2>4 DEF Inv
  <1>14. CASE retainKey
    <2>1. MgrOK' /\ AppOK' /\ JobOK'
      BY <1>t, <1>14 DEF Inv, retainKey, DeleteByLabel, Cleaned, MgrOK, AppOK,
         JobOK
    <2>2. CreateOK' /\ OneKey'
      BY <1>t, <1>14 DEF Inv, retainKey, DeleteByLabel, Cleaned, CreateOK,
         OneKey
    <2>3. CredsOK' /\ SecretPairs'
      BY <1>t, <1>14 DEF Inv, TypeOK, Pair, retainKey, DeleteByLabel, Cleaned,
         CredsOK, SecretPairs, AppOK
    <2>4. RecordOK' /\ KeysTracked' /\ KeysCleaned' /\ NoKeyLeft'
      BY <1>t, <1>14 DEF Inv, retainKey, DeleteByLabel, Cleaned, RecordOK,
         KeysTracked, KeysCleaned, NoKeyLeft, OneKey, CreateOK, JobOK, AppOK
    <2>. QED
      BY <1>t, <2>1, <2>2, <2>3, <2>4 DEF Inv
  <1>15. CASE deleteBucket
    <2>1. MgrOK' /\ AppOK' /\ JobOK'
      BY <1>t, <1>15 DEF Inv, deleteBucket, Cleaned, MgrOK, AppOK, JobOK
    <2>2. CreateOK' /\ OneKey'
      BY <1>t, <1>15 DEF Inv, deleteBucket, Cleaned, CreateOK, OneKey
    <2>3. CredsOK' /\ SecretPairs'
      BY <1>t, <1>15 DEF Inv, TypeOK, Pair, deleteBucket, Cleaned, CredsOK,
         SecretPairs, AppOK
    <2>4. RecordOK' /\ KeysTracked' /\ KeysCleaned' /\ NoKeyLeft'
      BY <1>t, <1>15 DEF Inv, deleteBucket, Cleaned, RecordOK, KeysTracked,
         KeysCleaned, NoKeyLeft, OneKey, CreateOK, JobOK, AppOK
    <2>. QED
      BY <1>t, <2>1, <2>2, <2>3, <2>4 DEF Inv
  <1>16. CASE clearStatus
    <2>1. MgrOK' /\ AppOK' /\ JobOK'
      BY <1>t, <1>16 DEF Inv, clearStatus, Return, MgrOK, AppOK, JobOK
    <2>2. CreateOK' /\ OneKey'
      BY <1>t, <1>16 DEF Inv, clearStatus, Return, CreateOK, OneKey
    <2>3. CredsOK' /\ SecretPairs'
      BY <1>t, <1>16 DEF Inv, TypeOK, Pair, clearStatus, Return, CredsOK,
         SecretPairs, AppOK
    <2>4. RecordOK' /\ KeysTracked' /\ KeysCleaned' /\ NoKeyLeft'
      BY <1>t, <1>16 DEF Inv, clearStatus, Return, RecordOK, KeysTracked,
         KeysCleaned, NoKeyLeft, OneKey, CreateOK, JobOK, AppOK
    <2>. QED
      BY <1>t, <2>1, <2>2, <2>3, <2>4 DEF Inv
  <1>17. CASE removeFinalizer
    <2>1. MgrOK' /\ AppOK' /\ JobOK'
      BY <1>t, <1>17 DEF Inv, removeFinalizer, Return, MgrOK, AppOK, JobOK
    <2>2. CreateOK' /\ OneKey'
      BY <1>t, <1>17 DEF Inv, removeFinalizer, Return, CreateOK, OneKey
    <2>3. CredsOK' /\ SecretPairs'
      BY <1>t, <1>17 DEF Inv, TypeOK, Pair, removeFinalizer, Return, CredsOK,
         SecretPairs, AppOK
    <2>4. RecordOK' /\ KeysTracked' /\ KeysCleaned' /\ NoKeyLeft'
      BY <1>t, <1>17 DEF Inv, removeFinalizer, Return, RecordOK, KeysTracked,
         KeysCleaned, NoKeyLeft, OneKey, CreateOK, JobOK, AppOK
    <2>. QED
      BY <1>t, <2>1, <2>2, <2>3, <2>4 DEF Inv
  <1>18. CASE CallFails
    <2>1. MgrOK' /\ AppOK' /\ JobOK'
      BY <1>t, <1>18 DEF Inv, CallFails, Return, MgrOK, AppOK, JobOK
    <2>2. CreateOK' /\ OneKey'
      BY <1>t, <1>18 DEF Inv, CallFails, Return, CreateOK, OneKey
    <2>3. CredsOK' /\ SecretPairs'
      BY <1>t, <1>18 DEF Inv, TypeOK, Pair, CallFails, Return, CredsOK,
         SecretPairs, AppOK
    <2>4. RecordOK' /\ KeysTracked' /\ KeysCleaned' /\ NoKeyLeft'
      BY <1>t, <1>18 DEF Inv, CallFails, Return, RecordOK, KeysTracked,
         KeysCleaned, NoKeyLeft, OneKey, CreateOK, JobOK, AppOK
    <2>. QED
      BY <1>t, <2>1, <2>2, <2>3, <2>4 DEF Inv
  <1>19. CASE ClaimFails
    <2>1. MgrOK' /\ AppOK' /\ JobOK'
      BY <1>t, <1>19 DEF Inv, ClaimFails, MgrOK, AppOK, JobOK
    <2>2. CreateOK' /\ OneKey'
      BY <1>t, <1>19 DEF Inv, ClaimFails, CreateOK, OneKey
    <2>3. CredsOK' /\ SecretPairs'
      BY <1>t, <1>19 DEF Inv, TypeOK, Pair, ClaimFails, CredsOK, SecretPairs,
         AppOK
    <2>4. RecordOK' /\ KeysTracked' /\ KeysCleaned' /\ NoKeyLeft'
      BY <1>t, <1>19 DEF Inv, ClaimFails, RecordOK, KeysTracked, KeysCleaned,
         NoKeyLeft, OneKey, CreateOK, JobOK, AppOK
    <2>. QED
      BY <1>t, <2>1, <2>2, <2>3, <2>4 DEF Inv
  <1>20. CASE KeyCleanupFails
    <2>1. MgrOK' /\ AppOK' /\ JobOK'
      BY <1>t, <1>20 DEF Inv, KeyCleanupFails, Cleaned, MgrOK, AppOK, JobOK
    <2>2. CreateOK' /\ OneKey'
      BY <1>t, <1>20 DEF Inv, KeyCleanupFails, Cleaned, CreateOK, OneKey
    <2>3. CredsOK' /\ SecretPairs'
      BY <1>t, <1>20 DEF Inv, TypeOK, Pair, KeyCleanupFails, Cleaned, CredsOK,
         SecretPairs, AppOK
    <2>4. RecordOK' /\ KeysTracked' /\ KeysCleaned' /\ NoKeyLeft'
      BY <1>t, <1>20 DEF Inv, KeyCleanupFails, Cleaned, RecordOK, KeysTracked,
         KeysCleaned, NoKeyLeft, OneKey, CreateOK, JobOK, AppOK
    <2>. QED
      BY <1>t, <2>1, <2>2, <2>3, <2>4 DEF Inv
  <1>21. CASE UserEdit
    <2>1. MgrOK' /\ AppOK' /\ JobOK'
      BY <1>t, <1>21 DEF Inv, UserEdit, MgrOK, AppOK, JobOK
    <2>2. CreateOK' /\ OneKey'
      BY <1>t, <1>21 DEF Inv, UserEdit, CreateOK, OneKey
    <2>3. CredsOK' /\ SecretPairs'
      BY <1>t, <1>21 DEF Inv, TypeOK, Pair, UserEdit, CredsOK, SecretPairs,
         AppOK
    <2>4. RecordOK' /\ KeysTracked' /\ KeysCleaned' /\ NoKeyLeft'
      BY <1>t, <1>21 DEF Inv, UserEdit, RecordOK, KeysTracked, KeysCleaned,
         NoKeyLeft, OneKey, CreateOK, JobOK, AppOK
    <2>. QED
      BY <1>t, <2>1, <2>2, <2>3, <2>4 DEF Inv
  <1>22. CASE UserDelete
    <2>1. MgrOK' /\ AppOK' /\ JobOK'
      BY <1>t, <1>22 DEF Inv, UserDelete, MgrOK, AppOK, JobOK
    <2>2. CreateOK' /\ OneKey'
      BY <1>t, <1>22 DEF Inv, UserDelete, CreateOK, OneKey
    <2>3. CredsOK' /\ SecretPairs'
      BY <1>t, <1>22 DEF Inv, TypeOK, Pair, UserDelete, CredsOK, SecretPairs,
         AppOK
    <2>4. RecordOK' /\ KeysTracked' /\ KeysCleaned' /\ NoKeyLeft'
      BY <1>t, <1>22 DEF Inv, UserDelete, RecordOK, KeysTracked, KeysCleaned,
         NoKeyLeft, OneKey, CreateOK, JobOK, AppOK
    <2>. QED
      BY <1>t, <2>1, <2>2, <2>3, <2>4 DEF Inv
  <1>23. CASE Outside
    <2>1. MgrOK' /\ AppOK' /\ JobOK'
      BY <1>t, <1>23 DEF Inv, Outside, MgrOK, AppOK, JobOK
    <2>2. CreateOK' /\ OneKey'
      BY <1>t, <1>23 DEF Inv, Outside, CreateOK, OneKey
    <2>3. CredsOK' /\ SecretPairs'
      BY <1>t, <1>23 DEF Inv, TypeOK, Pair, Outside, CredsOK, SecretPairs, AppOK
    <2>4. RecordOK' /\ KeysTracked' /\ KeysCleaned' /\ NoKeyLeft'
      BY <1>t, <1>23 DEF Inv, Outside, RecordOK, KeysTracked, KeysCleaned,
         NoKeyLeft, OneKey, CreateOK, JobOK, AppOK
    <2>. QED
      BY <1>t, <2>1, <2>2, <2>3, <2>4 DEF Inv
  <1>24. CASE SecretReadFails
    <2>1. MgrOK' /\ AppOK' /\ JobOK'
      BY <1>t, <1>24 DEF Inv, SecretReadFails, Unusable, MgrOK, AppOK, JobOK
    <2>2. CreateOK' /\ OneKey'
      BY <1>t, <1>24 DEF Inv, SecretReadFails, Unusable, CreateOK, OneKey
    <2>3. CredsOK' /\ SecretPairs'
      BY <1>t, <1>24 DEF Inv, SecretReadFails, Unusable, CredsOK, SecretPairs
    <2>4. RecordOK' /\ KeysTracked' /\ KeysCleaned' /\ NoKeyLeft'
      BY <1>t, <1>24 DEF Inv, SecretReadFails, Unusable, RecordOK, KeysTracked,
         KeysCleaned, NoKeyLeft, JobOK
    <2>. QED
      BY <1>t, <2>1, <2>2, <2>3, <2>4 DEF Inv
  <1>25. CASE UNCHANGED vars
    BY <1>t, <1>25 DEF Inv, vars, MgrOK, AppOK, CreateOK, CredsOK, RecordOK,
       KeysTracked, KeysCleaned, JobOK, OneKey, SecretPairs, NoKeyLeft
  <1>. QED
    BY <1>1, <1>2, <1>3, <1>4, <1>5, <1>6, <1>7, <1>8, <1>9, <1>10, <1>11,
       <1>12, <1>13, <1>14, <1>15, <1>16, <1>17, <1>18, <1>19, <1>20, <1>21,
       <1>22, <1>23, <1>24, <1>25 DEF Next, Work

\* The invariant holds throughout.
THEOREM KeyInvariance == Spec => []Inv
  <1>1. Init => Inv
    BY InitInv
  <1>2. Inv /\ [Next]_vars => Inv'
    BY InvStep
  <1>. QED
    BY <1>1, <1>2, PTL DEF Spec

\* Every variable keeps its type, through any number of failures, edits and
\* outside deletions (ReconcileBucket, finalizeApplication).
THEOREM KeyTypes == Spec => []TypeOK
  <1>1. Inv => TypeOK
    BY DEF Inv
  <1>. QED
    BY <1>1, KeyInvariance, PTL

\* At most one access key bears the Application's label, whatever fails between
\* a listing, a deletion and a creation (ensureAccessKey).
THEOREM LabelUnique == Spec => []OneKey
  <1>1. Inv => OneKey
    BY DEF Inv
  <1>. QED
    BY <1>1, KeyInvariance, PTL

\* A storage Secret never holds halves of two different keys, although a retry
\* may put such halves together (ensureAccessKey, claimOrVerifyOwnership).
THEOREM SecretsConsistent == Spec => []SecretPairs
  <1>1. Inv => SecretPairs
    BY DEF Inv
  <1>. QED
    BY <1>1, KeyInvariance, PTL

\* No key outlives the Application, unless the last reconcile that had it to deal
\* with gave it up (DeleteBucket, CleanupCredentialsOnly).
THEOREM KeysCleanedUp == Spec => []NoKeyLeft
  <1>1. Inv => NoKeyLeft
    BY DEF Inv
  <1>. QED
    BY <1>1, KeyInvariance, PTL

==============================================================================

------------------------ MODULE BucketOwnership_proofs ------------------------
(***************************************************************************)
(* With one reconcile at a time, ownership of a bucket is exclusive: for   *)
(* any set of Applications, namespaces, adopters and grants, and for any   *)
(* number of failures, crashes, restores and outside deletions.            *)
(***************************************************************************)
EXTENDS BucketOwnership, FiniteSetTheorems, TLAPS

\* One Application at a time is being reconciled.
Serial == \A a, b \in Apps : pc[a] # "idle" /\ pc[b] # "idle" => a = b

\* A bucket that is not there has no tag and nobody's data.
NoBucket == bucket = "absent" => tag = Nil /\ holders = {}

\* An Application that was never created has left no trace.
Unborn ==
    \A a \in Apps : life[a] = "unborn" =>
       id[a] = Nil /\ pc[a] = "idle" /\ a \notin holders /\ (tag = Nil \/ tag.uid # a)

\* Whoever is being reconciled exists.
BusyExists == \A a \in Apps : pc[a] # "idle" => life[a] \in {"live", "terminating"}

\* An ownership ID is that of the Application it was generated for.
IDsRooted == \A a \in Apps : id[a] # Nil => id[id[a]] = id[a]

\* No two Applications that exist share an ownership ID.
IDsUnique ==
    \A a, b \in Apps : Exists(a) /\ Exists(b) /\ id[a] # Nil /\ id[a] = id[b] => a = b

\* The ID in the tag is the one of the Application the tag names.
TagID == tag # Nil => tag.id = Nil \/ tag.id = id[tag.uid]

\* While an adoption is evaluated, the tag that was read is still there, unless
\* the bucket is gone.
EvaluateOK ==
    \A a \in Apps : pc[a] = "evaluate" =>
       seen[a] # Nil /\ seen[a].uid # a /\ (tag = Nil \/ tag = seen[a])

\* The informer knows every Application that exists and is being reconciled, or
\* has the bucket: it has been reconciled before, and it leaves the list only
\* when it is gone.
Known ==
    \A a \in Apps : Exists(a) /\ (pc[a] # "idle" \/ (tag # Nil /\ tag.uid = a))
                     => a \in listed

\* May a write its tag over the one that is there?
MayTake(a) ==
    \/ tag = Nil
    \/ tag.uid = a
    \/ /\ ~Exists(tag.uid)
       /\ \/ tag.id = id[a]
          \/ tag.ns = NamespaceOf[a]
          \/ <<tag.ns, NamespaceOf[a]>> \in Grants

TagOK == \A a \in Apps : pc[a] = "tag" => MayTake(a)

ReadyOK == \A a \in Apps : pc[a] = "ready" /\ bucket = "present" => tag # Nil /\ tag.uid = a

Inv ==
    /\ TypeOK /\ Serial /\ NoBucket /\ Unborn /\ BusyExists /\ IDsRooted /\ IDsUnique
    /\ TagID /\ Known /\ EvaluateOK /\ TagOK /\ ReadyOK /\ OneHolder /\ SparesOthers

\* The first reconcile finds nobody's data, or that of the owner in the tag.
LEMMA InitInv == Init => Inv
  <1>. SUFFICES ASSUME Init PROVE Inv
    OBVIOUS
  <1>1. TypeOK
    BY AppsAssumption DEF Init, TypeOK, Lives, Records, PCs, Tag
  <1>2. Serial /\ NoBucket /\ BusyExists /\ IDsRooted /\ IDsUnique
    BY AppsAssumption DEF Init, Serial, NoBucket, BusyExists, IDsRooted, IDsUnique
  <1>3. EvaluateOK /\ TagOK /\ ReadyOK /\ SparesOthers
    BY DEF Init, EvaluateOK, TagOK, ReadyOK, SparesOthers
  <1>4. TagID /\ Unborn
    BY DEF Init, TagID, Unborn
  <1>6. Known
    BY DEF Init, Known, Exists
  <1>5. OneHolder
    <2>1. CASE holders = {}
      BY <2>1 DEF OneHolder
    <2>2. ASSUME NEW o \in Apps, holders = {o}, tag = [uid |-> o, ns |-> Nil, id |-> Nil]
          PROVE  OneHolder
      BY <1>1, <2>2, NilAssumption DEF OneHolder, TypeOK, Tag
    <2>. QED
      BY <2>1, <2>2 DEF Init
  <1>. QED
    BY <1>1, <1>2, <1>3, <1>4, <1>5, <1>6 DEF Inv

\* Every step keeps the types.
LEMMA TypeStep == ASSUME TypeOK, [Next]_vars PROVE TypeOK'
  <1>. USE AppsAssumption, NamespaceAssumption
       DEF TypeOK, Tag, Lives, Records, PCs, Step, objects, worker, provider
  <1>1. ASSUME NEW a \in Apps,
               \/ Reconcile(a) \/ Work(a) \/ CallFails(a)
               \/ UserCreate(a) \/ UserDelete(a) \/ Tick(a) \/ Inform(a)
        PROVE  TypeOK'
    <2>1. CASE Reconcile(a)
      BY <2>1 DEF Reconcile
    <2>2. CASE headBucket(a)
      BY <2>2 DEF headBucket
    <2>3. CASE CreateBucket(a)
      BY <2>3 DEF CreateBucket, MakeBucket
    <2>4. CASE recordBucketCreated(a)
      BY <2>4 DEF recordBucketCreated
    <2>5. CASE claimOrVerifyOwnership(a)
      BY <2>5 DEF claimOrVerifyOwnership, Claim
    <2>6. CASE EvaluateBucketAdoption(a)
      BY <2>6 DEF EvaluateBucketAdoption
    <2>7. CASE tagAsOwned(a)
      BY <2>7 DEF tagAsOwned, PutTag
    <2>8. CASE recordReady(a)
      BY <2>8 DEF recordReady, SetReady
    <2>9. CASE storageFailed(a)
      BY <2>9 DEF storageFailed, FailedReady
    <2>10. CASE verifyOwnership(a)
      BY <2>10 DEF verifyOwnership
    <2>11. CASE emptyBucket(a)
      BY <2>11 DEF emptyBucket, DestroyObjects
    <2>12. CASE deleteBucket(a)
      BY <2>12 DEF deleteBucket, RemoveBucket
    <2>13. CASE removeFinalizer(a)
      BY <2>13 DEF removeFinalizer
    <2>14. CASE CallFails(a)
      BY <2>14 DEF CallFails, LateEffect, SetReady, DestroyObjects,
         RemoveBucket, MakeBucket, PutTag
    <2>15. CASE UserCreate(a)
      BY <2>15 DEF UserCreate
    <2>16. CASE UserDelete(a)
      BY <2>16 DEF UserDelete
    <2>17. CASE Tick(a)
      BY <2>17 DEF Tick
    <2>18. CASE Inform(a)
      BY <2>18 DEF Inform
    <2>. QED
      BY <1>1, <2>1, <2>2, <2>3, <2>4, <2>5, <2>6, <2>7, <2>8,
         <2>9, <2>10, <2>11, <2>12, <2>13, <2>14, <2>15, <2>16, <2>17, <2>18 DEF Work
  <1>2. CASE Crash
    BY <1>2 DEF Crash
  <1>3. CASE OutsideDelete
    BY <1>3 DEF OutsideDelete
  <1>4. CASE UNCHANGED vars
    BY <1>4 DEF vars
  <1>. QED
    BY <1>1, <1>2, <1>3, <1>4 DEF Next

\* A reconcile starts only when no other one runs.
LEMMA AllIdle ==
    ASSUME Workers = 1, TypeOK, NEW a \in Apps, Reconcile(a)
    PROVE  \A b \in Apps : pc[b] = "idle"
  <1>. DEFINE Busy == {b \in Apps : pc[b] # "idle"}
  <1>1. IsFiniteSet(Busy)
    BY AppsAssumption, FS_Subset
  <1>2. Cardinality(Busy) \in Nat /\ Cardinality(Busy) < 1
    BY <1>1, FS_CardinalityType DEF Reconcile
  <1>3. Busy = {}
    BY <1>1, <1>2, FS_EmptySet
  <1>. QED
    BY <1>3

\* The inductive step: one case per action, and under it one step per conjunct
\* that the action can disturb; the first step collects those it cannot.
LEMMA InvStep ==
    ASSUME Workers = 1, Inv, [Next]_vars
    PROVE  Inv'
  <1>. USE AppsAssumption, NamespaceAssumption, NilAssumption
       DEF Exists
  <1>t. TypeOK'
    BY TypeStep DEF Inv
  <1>1. ASSUME NEW a \in Apps,
               \/ Reconcile(a) \/ Work(a) \/ CallFails(a)
               \/ UserCreate(a) \/ UserDelete(a) \/ Tick(a) \/ Inform(a)
        PROVE  Inv'
    <2>1. CASE Reconcile(a)
      <3>1. NoBucket'
        BY <2>1 DEF Inv, Reconcile, Step, objects, worker, provider, NoBucket
      <3>2. Serial'
        BY <1>t, <2>1, AllIdle DEF Inv, TypeOK, Reconcile, Step, Serial
      <3>3. Unborn'
        BY <1>t, <2>1 DEF Inv, TypeOK, Tag, Reconcile, Step, objects, worker,
           provider, Unborn, BusyExists, NoBucket, TagOK, MayTake
      <3>4. BusyExists'
        BY <1>t, <2>1 DEF Inv, TypeOK, Tag, Reconcile, Step, objects, worker,
           provider, BusyExists
      <3>5. IDsRooted'
        BY <1>t, <2>1 DEF Inv, TypeOK, Tag, Reconcile, Step, objects, worker,
           provider, IDsRooted, Unborn
      <3>6. IDsUnique'
        BY <1>t, <2>1 DEF Inv, TypeOK, Tag, Reconcile, Step, objects, worker,
           provider, IDsUnique, IDsRooted, Unborn
      <3>7. TagID'
        BY <1>t, <2>1 DEF Inv, TypeOK, Tag, Reconcile, Step, objects, worker,
           provider, TagID, NoBucket, Unborn, IDsRooted
      <3>8. Known'
        BY <1>t, <2>1 DEF Inv, TypeOK, Tag, Reconcile, Step, objects, worker,
           provider, Known, BusyExists, Unborn
      <3>9. EvaluateOK'
        BY <1>t, <2>1 DEF Inv, TypeOK, Tag, Reconcile, Step, objects, worker,
           provider, EvaluateOK, Serial, NoBucket
      <3>10. TagOK'
        BY <1>t, <2>1 DEF Inv, TypeOK, Tag, Reconcile, Step, objects, worker,
           provider, TagOK, EvaluateOK, Known, Serial, TagID, IDsUnique,
           BusyExists, Unborn, NoBucket, MayTake
      <3>11. ReadyOK'
        BY <1>t, <2>1 DEF Inv, TypeOK, Tag, Reconcile, Step, objects, worker,
           provider, ReadyOK, Serial, NoBucket
      <3>12. OneHolder'
        BY <1>t, <2>1 DEF Inv, TypeOK, Tag, Reconcile, Step, objects, worker,
           provider, OneHolder, TagOK, ReadyOK, NoBucket, Unborn, MayTake
      <3>13. SparesOthers'
        BY <1>t, <2>1 DEF Inv, TypeOK, Tag, Reconcile, Step, objects, worker,
           provider, SparesOthers, OneHolder, Serial, NoBucket
      <3>. QED
        BY <1>t, <3>1, <3>2, <3>3, <3>4, <3>5, <3>6, <3>7, <3>8, <3>9, <3>10,
           <3>11, <3>12, <3>13 DEF Inv
    <2>2. CASE headBucket(a)
      <3>1. NoBucket' /\ IDsRooted' /\ IDsUnique' /\ TagID' /\ OneHolder'
        BY <2>2 DEF Inv, headBucket, Step, objects, worker, provider,
           NoBucket, IDsRooted, IDsUnique, TagID, OneHolder
      <3>2. Serial'
        BY <1>t, <2>2 DEF Inv, TypeOK, Tag, headBucket, Step, objects, worker,
           provider, Serial
      <3>3. Unborn'
        BY <1>t, <2>2 DEF Inv, TypeOK, Tag, headBucket, Step, objects, worker,
           provider, Unborn, BusyExists, NoBucket, TagOK, MayTake
      <3>4. BusyExists'
        BY <1>t, <2>2 DEF Inv, TypeOK, Tag, headBucket, Step, objects, worker,
           provider, BusyExists
      <3>5. Known'
        BY <1>t, <2>2 DEF Inv, TypeOK, Tag, headBucket, Step, objects, worker,
           provider, Known, BusyExists, Unborn
      <3>6. EvaluateOK'
        BY <1>t, <2>2 DEF Inv, TypeOK, Tag, headBucket, Step, objects, worker,
           provider, EvaluateOK, Serial, NoBucket
      <3>7. TagOK'
        BY <1>t, <2>2 DEF Inv, TypeOK, Tag, headBucket, Step, objects, worker,
           provider, TagOK, EvaluateOK, Known, Serial, TagID, IDsUnique,
           BusyExists, Unborn, NoBucket, MayTake
      <3>8. ReadyOK'
        BY <1>t, <2>2 DEF Inv, TypeOK, Tag, headBucket, Step, objects, worker,
           provider, ReadyOK, Serial, NoBucket
      <3>9. SparesOthers'
        BY <1>t, <2>2 DEF Inv, TypeOK, Tag, headBucket, Step, objects, worker,
           provider, SparesOthers, OneHolder, Serial, NoBucket
      <3>. QED
        BY <1>t, <3>1, <3>2, <3>3, <3>4, <3>5, <3>6, <3>7, <3>8, <3>9 DEF Inv
    <2>3. CASE CreateBucket(a)
      <3>1. IDsRooted' /\ IDsUnique' /\ TagID' /\ OneHolder'
        BY <2>3 DEF Inv, CreateBucket, MakeBucket, Step, objects, worker,
           provider, IDsRooted, IDsUnique, TagID, OneHolder
      <3>2. Serial'
        BY <1>t, <2>3 DEF Inv, TypeOK, Tag, CreateBucket, MakeBucket, Step,
           objects, worker, provider, Serial
      <3>3. NoBucket'
        BY <1>t, <2>3 DEF Inv, TypeOK, Tag, CreateBucket, MakeBucket, Step,
           objects, worker, provider, NoBucket
      <3>4. Unborn'
        BY <1>t, <2>3 DEF Inv, TypeOK, Tag, CreateBucket, MakeBucket, Step,
           objects, worker, provider, Unborn, BusyExists, NoBucket, TagOK,
           MayTake
      <3>5. BusyExists'
        BY <1>t, <2>3 DEF Inv, TypeOK, Tag, CreateBucket, MakeBucket, Step,
           objects, worker, provider, BusyExists
      <3>6. Known'
        BY <1>t, <2>3 DEF Inv, TypeOK, Tag, CreateBucket, MakeBucket, Step,
           objects, worker, provider, Known, BusyExists, Unborn
      <3>7. EvaluateOK'
        BY <1>t, <2>3 DEF Inv, TypeOK, Tag, CreateBucket, MakeBucket, Step,
           objects, worker, provider, EvaluateOK, Serial, NoBucket
      <3>8. TagOK'
        BY <1>t, <2>3 DEF Inv, TypeOK, Tag, CreateBucket, MakeBucket, Step,
           objects, worker, provider, TagOK, EvaluateOK, Known, Serial, TagID,
           IDsUnique, BusyExists, Unborn, NoBucket, MayTake
      <3>9. ReadyOK'
        BY <1>t, <2>3 DEF Inv, TypeOK, Tag, CreateBucket, MakeBucket, Step,
           objects, worker, provider, ReadyOK, Serial, NoBucket
      <3>10. SparesOthers'
        BY <1>t, <2>3 DEF Inv, TypeOK, Tag, CreateBucket, MakeBucket, Step,
           objects, worker, provider, SparesOthers, OneHolder, Serial,
           NoBucket
      <3>. QED
        BY <1>t, <3>1, <3>2, <3>3, <3>4, <3>5, <3>6, <3>7, <3>8, <3>9, <3>10 DEF Inv
    <2>4. CASE recordBucketCreated(a)
      <3>1. NoBucket' /\ IDsRooted' /\ IDsUnique' /\ TagID' /\ OneHolder'
        BY <2>4 DEF Inv, recordBucketCreated, Step, objects, worker, provider,
           NoBucket, IDsRooted, IDsUnique, TagID, OneHolder
      <3>2. Serial'
        BY <1>t, <2>4 DEF Inv, TypeOK, Tag, recordBucketCreated, Step,
           objects, worker, provider, Serial
      <3>3. Unborn'
        BY <1>t, <2>4 DEF Inv, TypeOK, Tag, recordBucketCreated, Step,
           objects, worker, provider, Unborn, BusyExists, NoBucket, TagOK,
           MayTake
      <3>4. BusyExists'
        BY <1>t, <2>4 DEF Inv, TypeOK, Tag, recordBucketCreated, Step,
           objects, worker, provider, BusyExists
      <3>5. Known'
        BY <1>t, <2>4 DEF Inv, TypeOK, Tag, recordBucketCreated, Step,
           objects, worker, provider, Known, BusyExists, Unborn
      <3>6. EvaluateOK'
        BY <1>t, <2>4 DEF Inv, TypeOK, Tag, recordBucketCreated, Step,
           objects, worker, provider, EvaluateOK, Serial, NoBucket
      <3>7. TagOK'
        BY <1>t, <2>4 DEF Inv, TypeOK, Tag, recordBucketCreated, Step,
           objects, worker, provider, TagOK, EvaluateOK, Known, Serial, TagID,
           IDsUnique, BusyExists, Unborn, NoBucket, MayTake
      <3>8. ReadyOK'
        BY <1>t, <2>4 DEF Inv, TypeOK, Tag, recordBucketCreated, Step,
           objects, worker, provider, ReadyOK, Serial, NoBucket
      <3>9. SparesOthers'
        BY <1>t, <2>4 DEF Inv, TypeOK, Tag, recordBucketCreated, Step,
           objects, worker, provider, SparesOthers, OneHolder, Serial,
           NoBucket
      <3>. QED
        BY <1>t, <3>1, <3>2, <3>3, <3>4, <3>5, <3>6, <3>7, <3>8, <3>9 DEF Inv
    <2>5. CASE claimOrVerifyOwnership(a)
      <3>1. NoBucket' /\ IDsRooted' /\ IDsUnique' /\ TagID' /\ OneHolder'
        BY <2>5 DEF Inv, claimOrVerifyOwnership, Claim, Step, objects, worker,
           provider, NoBucket, IDsRooted, IDsUnique, TagID, OneHolder
      <3>2. Serial'
        BY <1>t, <2>5 DEF Inv, TypeOK, Tag, claimOrVerifyOwnership, Claim,
           Step, objects, worker, provider, Serial
      <3>3. Unborn'
        BY <1>t, <2>5 DEF Inv, TypeOK, Tag, claimOrVerifyOwnership, Claim,
           Step, objects, worker, provider, Unborn, BusyExists, NoBucket,
           TagOK, MayTake
      <3>4. BusyExists'
        BY <1>t, <2>5 DEF Inv, TypeOK, Tag, claimOrVerifyOwnership, Claim,
           Step, objects, worker, provider, BusyExists
      <3>5. Known'
        BY <1>t, <2>5 DEF Inv, TypeOK, Tag, claimOrVerifyOwnership, Claim,
           Step, objects, worker, provider, Known, BusyExists, Unborn
      <3>6. EvaluateOK'
        BY <1>t, <2>5 DEF Inv, TypeOK, Tag, claimOrVerifyOwnership, Claim,
           Step, objects, worker, provider, EvaluateOK, Serial, NoBucket
      <3>7. TagOK'
        BY <1>t, <2>5 DEF Inv, TypeOK, Tag, claimOrVerifyOwnership, Claim,
           Step, objects, worker, provider, TagOK, EvaluateOK, Known, Serial,
           TagID, IDsUnique, BusyExists, Unborn, NoBucket, MayTake
      <3>8. ReadyOK'
        BY <1>t, <2>5 DEF Inv, TypeOK, Tag, claimOrVerifyOwnership, Claim,
           Step, objects, worker, provider, ReadyOK, Serial, NoBucket
      <3>9. SparesOthers'
        BY <1>t, <2>5 DEF Inv, TypeOK, Tag, claimOrVerifyOwnership, Claim,
           Step, objects, worker, provider, SparesOthers, OneHolder, Serial,
           NoBucket
      <3>. QED
        BY <1>t, <3>1, <3>2, <3>3, <3>4, <3>5, <3>6, <3>7, <3>8, <3>9 DEF Inv
    <2>6. CASE EvaluateBucketAdoption(a)
      <3>1. NoBucket' /\ IDsRooted' /\ IDsUnique' /\ TagID' /\ OneHolder'
        BY <2>6 DEF Inv, EvaluateBucketAdoption, AdoptionAllowed,
           ApplicationExistsWithUID, CrossNamespaceAdoptionAllowed, Step,
           objects, worker, provider, NoBucket, IDsRooted, IDsUnique, TagID,
           OneHolder
      <3>2. Serial'
        BY <1>t, <2>6 DEF Inv, TypeOK, Tag, EvaluateBucketAdoption,
           AdoptionAllowed, ApplicationExistsWithUID,
           CrossNamespaceAdoptionAllowed, Step, objects, worker, provider,
           Serial
      <3>3. Unborn'
        BY <1>t, <2>6 DEF Inv, TypeOK, Tag, EvaluateBucketAdoption,
           AdoptionAllowed, ApplicationExistsWithUID,
           CrossNamespaceAdoptionAllowed, Step, objects, worker, provider,
           Unborn, BusyExists, NoBucket, TagOK, MayTake
      <3>4. BusyExists'
        BY <1>t, <2>6 DEF Inv, TypeOK, Tag, EvaluateBucketAdoption,
           AdoptionAllowed, ApplicationExistsWithUID,
           CrossNamespaceAdoptionAllowed, Step, objects, worker, provider,
           BusyExists
      <3>5. Known'
        BY <1>t, <2>6 DEF Inv, TypeOK, Tag, EvaluateBucketAdoption,
           AdoptionAllowed, ApplicationExistsWithUID,
           CrossNamespaceAdoptionAllowed, Step, objects, worker, provider,
           Known, BusyExists, Unborn
      <3>6. EvaluateOK'
        BY <1>t, <2>6 DEF Inv, TypeOK, Tag, EvaluateBucketAdoption,
           AdoptionAllowed, ApplicationExistsWithUID,
           CrossNamespaceAdoptionAllowed, Step, objects, worker, provider,
           EvaluateOK, Serial, NoBucket
      <3>7. TagOK'
        BY <1>t, <2>6 DEF Inv, TypeOK, Tag, EvaluateBucketAdoption,
           AdoptionAllowed, ApplicationExistsWithUID,
           CrossNamespaceAdoptionAllowed, Step, objects, worker, provider,
           TagOK, EvaluateOK, Known, Serial, TagID, IDsUnique, BusyExists,
           Unborn, NoBucket, MayTake
      <3>8. ReadyOK'
        BY <1>t, <2>6 DEF Inv, TypeOK, Tag, EvaluateBucketAdoption,
           AdoptionAllowed, ApplicationExistsWithUID,
           CrossNamespaceAdoptionAllowed, Step, objects, worker, provider,
           ReadyOK, Serial, NoBucket
      <3>9. SparesOthers'
        BY <1>t, <2>6 DEF Inv, TypeOK, Tag, EvaluateBucketAdoption,
           AdoptionAllowed, ApplicationExistsWithUID,
           CrossNamespaceAdoptionAllowed, Step, objects, worker, provider,
           SparesOthers, OneHolder, Serial, NoBucket
      <3>. QED
        BY <1>t, <3>1, <3>2, <3>3, <3>4, <3>5, <3>6, <3>7, <3>8, <3>9 DEF Inv
    <2>7. CASE tagAsOwned(a)
      <3>1. IDsRooted' /\ IDsUnique'
        BY <2>7 DEF Inv, tagAsOwned, PutTag, Step, objects, worker, provider,
           IDsRooted, IDsUnique
      <3>2. Serial'
        BY <1>t, <2>7 DEF Inv, TypeOK, Tag, tagAsOwned, PutTag, Step, objects,
           worker, provider, Serial
      <3>3. NoBucket'
        BY <1>t, <2>7 DEF Inv, TypeOK, Tag, tagAsOwned, PutTag, Step, objects,
           worker, provider, NoBucket
      <3>4. Unborn'
        BY <1>t, <2>7 DEF Inv, TypeOK, Tag, tagAsOwned, PutTag, Step, objects,
           worker, provider, Unborn, BusyExists, NoBucket, TagOK, MayTake
      <3>5. BusyExists'
        BY <1>t, <2>7 DEF Inv, TypeOK, Tag, tagAsOwned, PutTag, Step, objects,
           worker, provider, BusyExists
      <3>6. TagID'
        BY <1>t, <2>7 DEF Inv, TypeOK, Tag, tagAsOwned, PutTag, Step, objects,
           worker, provider, TagID, NoBucket, Unborn, IDsRooted
      <3>7. Known'
        BY <1>t, <2>7 DEF Inv, TypeOK, Tag, tagAsOwned, PutTag, Step, objects,
           worker, provider, Known, BusyExists, Unborn
      <3>8. EvaluateOK'
        BY <1>t, <2>7 DEF Inv, TypeOK, Tag, tagAsOwned, PutTag, Step, objects,
           worker, provider, EvaluateOK, Serial, NoBucket
      <3>9. TagOK'
        BY <1>t, <2>7 DEF Inv, TypeOK, Tag, tagAsOwned, PutTag, Step, objects,
           worker, provider, TagOK, EvaluateOK, Known, Serial, TagID,
           IDsUnique, BusyExists, Unborn, NoBucket, MayTake
      <3>10. ReadyOK'
        BY <1>t, <2>7 DEF Inv, TypeOK, Tag, tagAsOwned, PutTag, Step, objects,
           worker, provider, ReadyOK, Serial, NoBucket
      <3>11. OneHolder'
        <4>1. CASE UNCHANGED provider
          BY <2>7, <4>1 DEF Inv, tagAsOwned, objects, provider, OneHolder, Exists
        <4>2. CASE PutTag(a)
          <5>1. tag' # Nil /\ tag'.uid = a
            <6>1. tag'.uid = a /\ tag' \in Tag
              BY <4>2 DEF Inv, TypeOK, PutTag, Tag
            <6>. QED
              BY <6>1
          <5>2. pc[a] = "tag" /\ holders' = holders /\ life' = life
            BY <2>7, <4>2 DEF tagAsOwned, Step, PutTag, objects
          <5>3. ASSUME NEW h \in holders, Exists(h)
               PROVE  h = a
            BY <5>2, <5>3 DEF Inv, OneHolder, TagOK, MayTake, Exists
          <5>. QED
            BY <5>1, <5>2, <5>3 DEF OneHolder, Exists
        <4>. QED
          BY <2>7, <4>1, <4>2 DEF tagAsOwned
      <3>12. SparesOthers'
        BY <1>t, <2>7 DEF Inv, TypeOK, Tag, tagAsOwned, PutTag, Step, objects,
           worker, provider, SparesOthers, OneHolder, Serial, NoBucket
      <3>. QED
        BY <1>t, <3>1, <3>2, <3>3, <3>4, <3>5, <3>6, <3>7, <3>8, <3>9, <3>10,
           <3>11, <3>12 DEF Inv
    <2>8. CASE recordReady(a)
      <3>1. IDsRooted' /\ IDsUnique' /\ TagID'
        BY <2>8 DEF Inv, recordReady, SetReady, Step, objects, worker, provider,
           IDsRooted, IDsUnique, TagID
      <3>2. Serial'
        BY <1>t, <2>8 DEF Inv, TypeOK, Tag, recordReady, SetReady, Step, objects,
           worker, provider, Serial
      <3>3. NoBucket'
        BY <1>t, <2>8 DEF Inv, TypeOK, Tag, recordReady, SetReady, Step, objects,
           worker, provider, NoBucket
      <3>4. Unborn'
        BY <1>t, <2>8 DEF Inv, TypeOK, Tag, recordReady, SetReady, Step, objects,
           worker, provider, Unborn, BusyExists, NoBucket, TagOK, MayTake
      <3>5. BusyExists'
        BY <1>t, <2>8 DEF Inv, TypeOK, Tag, recordReady, SetReady, Step, objects,
           worker, provider, BusyExists
      <3>6. Known'
        BY <1>t, <2>8 DEF Inv, TypeOK, Tag, recordReady, SetReady, Step, objects,
           worker, provider, Known, BusyExists, Unborn
      <3>7. EvaluateOK'
        BY <1>t, <2>8 DEF Inv, TypeOK, Tag, recordReady, SetReady, Step, objects,
           worker, provider, EvaluateOK, Serial, NoBucket
      <3>8. TagOK'
        BY <1>t, <2>8 DEF Inv, TypeOK, Tag, recordReady, SetReady, Step, objects,
           worker, provider, TagOK, EvaluateOK, Known, Serial, TagID,
           IDsUnique, BusyExists, Unborn, NoBucket, MayTake
      <3>9. ReadyOK'
        BY <1>t, <2>8 DEF Inv, TypeOK, Tag, recordReady, SetReady, Step, objects,
           worker, provider, ReadyOK, Serial, NoBucket
      <3>10. OneHolder'
        BY <1>t, <2>8 DEF Inv, TypeOK, Tag, recordReady, SetReady, Step, objects,
           worker, provider, OneHolder, TagOK, ReadyOK, NoBucket, Unborn,
           MayTake
      <3>11. SparesOthers'
        BY <1>t, <2>8 DEF Inv, TypeOK, Tag, recordReady, SetReady, Step, objects,
           worker, provider, SparesOthers, OneHolder, Serial, NoBucket
      <3>. QED
        BY <1>t, <3>1, <3>2, <3>3, <3>4, <3>5, <3>6, <3>7, <3>8, <3>9, <3>10,
           <3>11 DEF Inv
    <2>9. CASE storageFailed(a)
      <3>1. NoBucket' /\ IDsRooted' /\ IDsUnique' /\ TagID' /\ OneHolder'
        BY <2>9 DEF Inv, storageFailed, Step, objects, worker, provider,
           NoBucket, IDsRooted, IDsUnique, TagID, OneHolder
      <3>2. Serial'
        BY <1>t, <2>9 DEF Inv, TypeOK, Tag, storageFailed, Step, objects,
           worker, provider, Serial
      <3>3. Unborn'
        BY <1>t, <2>9 DEF Inv, TypeOK, Tag, storageFailed, Step, objects,
           worker, provider, Unborn, BusyExists, NoBucket, TagOK, MayTake
      <3>4. BusyExists'
        BY <1>t, <2>9 DEF Inv, TypeOK, Tag, storageFailed, Step, objects,
           worker, provider, BusyExists
      <3>5. Known'
        BY <1>t, <2>9 DEF Inv, TypeOK, Tag, storageFailed, Step, objects,
           worker, provider, Known, BusyExists, Unborn
      <3>6. EvaluateOK'
        BY <1>t, <2>9 DEF Inv, TypeOK, Tag, storageFailed, Step, objects,
           worker, provider, EvaluateOK, Serial, NoBucket
      <3>7. TagOK'
        BY <1>t, <2>9 DEF Inv, TypeOK, Tag, storageFailed, Step, objects,
           worker, provider, TagOK, EvaluateOK, Known, Serial, TagID,
           IDsUnique, BusyExists, Unborn, NoBucket, MayTake
      <3>8. ReadyOK'
        BY <1>t, <2>9 DEF Inv, TypeOK, Tag, storageFailed, Step, objects,
           worker, provider, ReadyOK, Serial, NoBucket
      <3>9. SparesOthers'
        BY <1>t, <2>9 DEF Inv, TypeOK, Tag, storageFailed, Step, objects,
           worker, provider, SparesOthers, OneHolder, Serial, NoBucket
      <3>. QED
        BY <1>t, <3>1, <3>2, <3>3, <3>4, <3>5, <3>6, <3>7, <3>8, <3>9 DEF Inv
    <2>10. CASE verifyOwnership(a)
      <3>1. NoBucket' /\ IDsRooted' /\ IDsUnique' /\ TagID' /\ OneHolder'
        BY <2>10 DEF Inv, verifyOwnership, CleanupAllowed, Step, objects,
           worker, provider, NoBucket, IDsRooted, IDsUnique, TagID, OneHolder
      <3>2. Serial'
        BY <1>t, <2>10 DEF Inv, TypeOK, Tag, verifyOwnership, CleanupAllowed,
           Step, objects, worker, provider, Serial
      <3>3. Unborn'
        BY <1>t, <2>10 DEF Inv, TypeOK, Tag, verifyOwnership, CleanupAllowed,
           Step, objects, worker, provider, Unborn, BusyExists, NoBucket,
           TagOK, MayTake
      <3>4. BusyExists'
        BY <1>t, <2>10 DEF Inv, TypeOK, Tag, verifyOwnership, CleanupAllowed,
           Step, objects, worker, provider, BusyExists
      <3>5. Known'
        BY <1>t, <2>10 DEF Inv, TypeOK, Tag, verifyOwnership, CleanupAllowed,
           Step, objects, worker, provider, Known, BusyExists, Unborn
      <3>6. EvaluateOK'
        BY <1>t, <2>10 DEF Inv, TypeOK, Tag, verifyOwnership, CleanupAllowed,
           Step, objects, worker, provider, EvaluateOK, Serial, NoBucket
      <3>7. TagOK'
        BY <1>t, <2>10 DEF Inv, TypeOK, Tag, verifyOwnership, CleanupAllowed,
           Step, objects, worker, provider, TagOK, EvaluateOK, Known, Serial,
           TagID, IDsUnique, BusyExists, Unborn, NoBucket, MayTake
      <3>8. ReadyOK'
        BY <1>t, <2>10 DEF Inv, TypeOK, Tag, verifyOwnership, CleanupAllowed,
           Step, objects, worker, provider, ReadyOK, Serial, NoBucket
      <3>9. SparesOthers'
        BY <1>t, <2>10 DEF Inv, TypeOK, Tag, verifyOwnership, CleanupAllowed,
           Step, objects, worker, provider, SparesOthers, OneHolder, Serial,
           NoBucket
      <3>. QED
        BY <1>t, <3>1, <3>2, <3>3, <3>4, <3>5, <3>6, <3>7, <3>8, <3>9 DEF Inv
    <2>11. CASE emptyBucket(a)
      <3>1. IDsRooted' /\ IDsUnique'
        BY <2>11 DEF Inv, emptyBucket, DestroyObjects, Step, objects, worker, provider,
           IDsRooted, IDsUnique
      <3>2. Serial'
        BY <1>t, <2>11 DEF Inv, TypeOK, Tag, emptyBucket, DestroyObjects, Step, objects,
           worker, provider, Serial
      <3>3. NoBucket'
        BY <1>t, <2>11 DEF Inv, TypeOK, Tag, emptyBucket, DestroyObjects, Step, objects,
           worker, provider, NoBucket
      <3>4. Unborn'
        BY <1>t, <2>11 DEF Inv, TypeOK, Tag, emptyBucket, DestroyObjects, Step, objects,
           worker, provider, Unborn, BusyExists, NoBucket, TagOK, MayTake
      <3>5. BusyExists'
        BY <1>t, <2>11 DEF Inv, TypeOK, Tag, emptyBucket, DestroyObjects, Step, objects,
           worker, provider, BusyExists
      <3>6. TagID'
        BY <1>t, <2>11 DEF Inv, TypeOK, Tag, emptyBucket, DestroyObjects, Step, objects,
           worker, provider, TagID, NoBucket, Unborn, IDsRooted
      <3>7. Known'
        BY <1>t, <2>11 DEF Inv, TypeOK, Tag, emptyBucket, DestroyObjects, Step, objects,
           worker, provider, Known, BusyExists, Unborn
      <3>8. EvaluateOK'
        BY <1>t, <2>11 DEF Inv, TypeOK, Tag, emptyBucket, DestroyObjects, Step, objects,
           worker, provider, EvaluateOK, Serial, NoBucket
      <3>9. TagOK'
        BY <1>t, <2>11 DEF Inv, TypeOK, Tag, emptyBucket, DestroyObjects, Step, objects,
           worker, provider, TagOK, EvaluateOK, Known, Serial, TagID,
           IDsUnique, BusyExists, Unborn, NoBucket, MayTake
      <3>10. ReadyOK'
        BY <1>t, <2>11 DEF Inv, TypeOK, Tag, emptyBucket, DestroyObjects, Step, objects,
           worker, provider, ReadyOK, Serial, NoBucket
      <3>11. OneHolder'
        BY <1>t, <2>11 DEF Inv, TypeOK, Tag, emptyBucket, DestroyObjects, Step, objects,
           worker, provider, OneHolder, TagOK, ReadyOK, NoBucket, Unborn,
           MayTake
      <3>12. SparesOthers'
        BY <1>t, <2>11 DEF Inv, TypeOK, Tag, emptyBucket, DestroyObjects, Step, objects,
           worker, provider, SparesOthers, OneHolder, Serial, NoBucket
      <3>. QED
        BY <1>t, <3>1, <3>2, <3>3, <3>4, <3>5, <3>6, <3>7, <3>8, <3>9, <3>10,
           <3>11, <3>12 DEF Inv
    <2>12. CASE deleteBucket(a)
      <3>1. IDsRooted' /\ IDsUnique'
        BY <2>12 DEF Inv, deleteBucket, RemoveBucket, Step, objects, worker, provider,
           IDsRooted, IDsUnique
      <3>2. Serial'
        BY <1>t, <2>12 DEF Inv, TypeOK, Tag, deleteBucket, RemoveBucket, Step, objects,
           worker, provider, Serial
      <3>3. NoBucket'
        BY <1>t, <2>12 DEF Inv, TypeOK, Tag, deleteBucket, RemoveBucket, Step, objects,
           worker, provider, NoBucket
      <3>4. Unborn'
        BY <1>t, <2>12 DEF Inv, TypeOK, Tag, deleteBucket, RemoveBucket, Step, objects,
           worker, provider, Unborn, BusyExists, NoBucket, TagOK, MayTake
      <3>5. BusyExists'
        BY <1>t, <2>12 DEF Inv, TypeOK, Tag, deleteBucket, RemoveBucket, Step, objects,
           worker, provider, BusyExists
      <3>6. TagID'
        BY <1>t, <2>12 DEF Inv, TypeOK, Tag, deleteBucket, RemoveBucket, Step, objects,
           worker, provider, TagID, NoBucket, Unborn, IDsRooted
      <3>7. Known'
        BY <1>t, <2>12 DEF Inv, TypeOK, Tag, deleteBucket, RemoveBucket, Step, objects,
           worker, provider, Known, BusyExists, Unborn
      <3>8. EvaluateOK'
        BY <1>t, <2>12 DEF Inv, TypeOK, Tag, deleteBucket, RemoveBucket, Step, objects,
           worker, provider, EvaluateOK, Serial, NoBucket
      <3>9. TagOK'
        BY <1>t, <2>12 DEF Inv, TypeOK, Tag, deleteBucket, RemoveBucket, Step, objects,
           worker, provider, TagOK, EvaluateOK, Known, Serial, TagID,
           IDsUnique, BusyExists, Unborn, NoBucket, MayTake
      <3>10. ReadyOK'
        BY <1>t, <2>12 DEF Inv, TypeOK, Tag, deleteBucket, RemoveBucket, Step, objects,
           worker, provider, ReadyOK, Serial, NoBucket
      <3>11. OneHolder'
        BY <1>t, <2>12 DEF Inv, TypeOK, Tag, deleteBucket, RemoveBucket, Step, objects,
           worker, provider, OneHolder, TagOK, ReadyOK, NoBucket, Unborn,
           MayTake
      <3>12. SparesOthers'
        BY <1>t, <2>12 DEF Inv, TypeOK, Tag, deleteBucket, RemoveBucket, Step, objects,
           worker, provider, SparesOthers, OneHolder, Serial, NoBucket
      <3>. QED
        BY <1>t, <3>1, <3>2, <3>3, <3>4, <3>5, <3>6, <3>7, <3>8, <3>9, <3>10,
           <3>11, <3>12 DEF Inv
    <2>13. CASE removeFinalizer(a)
      <3>1. NoBucket' /\ IDsRooted' /\ TagID'
        BY <2>13 DEF Inv, removeFinalizer, Step, objects, worker, provider,
           NoBucket, IDsRooted, TagID
      <3>2. Serial'
        BY <1>t, <2>13 DEF Inv, TypeOK, Tag, removeFinalizer, Step, objects,
           worker, provider, Serial
      <3>3. Unborn'
        BY <1>t, <2>13 DEF Inv, TypeOK, Tag, removeFinalizer, Step, objects,
           worker, provider, Unborn, BusyExists, NoBucket, TagOK, MayTake
      <3>4. BusyExists'
        BY <1>t, <2>13 DEF Inv, TypeOK, Tag, removeFinalizer, Step, objects,
           worker, provider, BusyExists
      <3>5. IDsUnique'
        BY <1>t, <2>13 DEF Inv, TypeOK, Tag, removeFinalizer, Step, objects,
           worker, provider, IDsUnique, IDsRooted, Unborn
      <3>6. Known'
        BY <1>t, <2>13 DEF Inv, TypeOK, Tag, removeFinalizer, Step, objects,
           worker, provider, Known, BusyExists, Unborn
      <3>7. EvaluateOK'
        BY <1>t, <2>13 DEF Inv, TypeOK, Tag, removeFinalizer, Step, objects,
           worker, provider, EvaluateOK, Serial, NoBucket
      <3>8. TagOK'
        BY <1>t, <2>13 DEF Inv, TypeOK, Tag, removeFinalizer, Step, objects,
           worker, provider, TagOK, EvaluateOK, Known, Serial, TagID,
           IDsUnique, BusyExists, Unborn, NoBucket, MayTake
      <3>9. ReadyOK'
        BY <1>t, <2>13 DEF Inv, TypeOK, Tag, removeFinalizer, Step, objects,
           worker, provider, ReadyOK, Serial, NoBucket
      <3>10. OneHolder'
        BY <1>t, <2>13 DEF Inv, TypeOK, Tag, removeFinalizer, Step, objects,
           worker, provider, OneHolder, TagOK, ReadyOK, NoBucket, Unborn,
           MayTake
      <3>11. SparesOthers'
        BY <1>t, <2>13 DEF Inv, TypeOK, Tag, removeFinalizer, Step, objects,
           worker, provider, SparesOthers, OneHolder, Serial, NoBucket
      <3>. QED
        BY <1>t, <3>1, <3>2, <3>3, <3>4, <3>5, <3>6, <3>7, <3>8, <3>9, <3>10,
           <3>11 DEF Inv
    <2>14. CASE CallFails(a)
      <3>1. IDsRooted' /\ IDsUnique'
        BY <2>14 DEF Inv, CallFails, LateEffect, SetReady, DestroyObjects,
           RemoveBucket, MakeBucket, PutTag, objects, worker, provider, IDsRooted,
           IDsUnique
      <3>2. Serial'
        BY <1>t, <2>14 DEF Inv, TypeOK, Tag, CallFails, LateEffect, SetReady, DestroyObjects,
           RemoveBucket, MakeBucket, PutTag, objects, worker, provider, Serial
      <3>3. NoBucket'
        BY <1>t, <2>14 DEF Inv, TypeOK, Tag, CallFails, LateEffect, SetReady, DestroyObjects,
           RemoveBucket, MakeBucket, PutTag, objects, worker, provider, NoBucket
      <3>4. Unborn'
        BY <1>t, <2>14 DEF Inv, TypeOK, Tag, CallFails, LateEffect, SetReady, DestroyObjects,
           RemoveBucket, MakeBucket, PutTag, objects, worker, provider, Unborn,
           BusyExists, NoBucket, TagOK, MayTake
      <3>5. BusyExists'
        BY <1>t, <2>14 DEF Inv, TypeOK, Tag, CallFails, LateEffect, SetReady, DestroyObjects,
           RemoveBucket, MakeBucket, PutTag, objects, worker, provider, BusyExists
      <3>6. TagID'
        BY <1>t, <2>14 DEF Inv, TypeOK, Tag, CallFails, LateEffect, SetReady, DestroyObjects,
           RemoveBucket, MakeBucket, PutTag, objects, worker, provider, TagID,
           NoBucket, Unborn, IDsRooted
      <3>7. Known'
        BY <1>t, <2>14 DEF Inv, TypeOK, Tag, CallFails, LateEffect, SetReady, DestroyObjects,
           RemoveBucket, MakeBucket, PutTag, objects, worker, provider, Known,
           BusyExists, Unborn
      <3>8. EvaluateOK'
        BY <1>t, <2>14 DEF Inv, TypeOK, Tag, CallFails, LateEffect, SetReady, DestroyObjects,
           RemoveBucket, MakeBucket, PutTag, objects, worker, provider, EvaluateOK,
           Serial, NoBucket
      <3>9. TagOK'
        BY <1>t, <2>14 DEF Inv, TypeOK, Tag, CallFails, LateEffect, SetReady, DestroyObjects,
           RemoveBucket, MakeBucket, PutTag, objects, worker, provider, TagOK,
           EvaluateOK, Known, Serial, TagID, IDsUnique, BusyExists, Unborn, NoBucket,
           MayTake
      <3>10. ReadyOK'
        BY <1>t, <2>14 DEF Inv, TypeOK, Tag, CallFails, LateEffect, SetReady, DestroyObjects,
           RemoveBucket, MakeBucket, PutTag, objects, worker, provider, ReadyOK,
           Serial, NoBucket
      <3>11. OneHolder'
        <4>1. CASE UNCHANGED <<objects, provider>>
          BY <4>1 DEF Inv, objects, provider, OneHolder, Exists
        <4>2. CASE UNCHANGED objects /\ MakeBucket
          BY <4>2 DEF Inv, MakeBucket, objects, OneHolder, Exists
        <4>3. CASE UNCHANGED objects /\ pc[a] = "tag" /\ PutTag(a)
          <5>1. tag' # Nil /\ tag'.uid = a
            <6>1. tag'.uid = a /\ tag' \in Tag
              BY <4>3 DEF Inv, TypeOK, PutTag, Tag
            <6>. QED
              BY <6>1
          <5>2. holders' = holders /\ life' = life
            BY <4>3 DEF PutTag, objects
          <5>3. ASSUME NEW h \in holders, Exists(h)
               PROVE  h = a
            BY <4>3, <5>3 DEF Inv, OneHolder, TagOK, MayTake, Exists
          <5>. QED
            BY <5>1, <5>2, <5>3 DEF OneHolder, Exists
        <4>4. CASE holders' = {}
          BY <4>4 DEF OneHolder
        <4>5. CASE pc[a] = "ready" /\ SetReady(a)
          BY <4>5 DEF Inv, SetReady, OneHolder, ReadyOK, Exists
        <4>. QED
          BY <2>14, <4>1, <4>2, <4>3, <4>4, <4>5
             DEF CallFails, LateEffect, DestroyObjects, RemoveBucket
      <3>12. SparesOthers'
        BY <1>t, <2>14 DEF Inv, TypeOK, Tag, CallFails, LateEffect, SetReady, DestroyObjects,
           RemoveBucket, MakeBucket, PutTag, objects, worker, provider, SparesOthers,
           OneHolder, Serial, NoBucket
      <3>. QED
        BY <1>t, <3>1, <3>2, <3>3, <3>4, <3>5, <3>6, <3>7, <3>8, <3>9, <3>10,
           <3>11, <3>12 DEF Inv
    <2>15. CASE UserCreate(a)
      <3>1. Serial' /\ NoBucket' /\ EvaluateOK' /\ ReadyOK'
        BY <2>15 DEF Inv, UserCreate, objects, worker, provider, Serial,
           NoBucket, EvaluateOK, ReadyOK
      <3>2. Unborn'
        BY <1>t, <2>15 DEF Inv, TypeOK, Tag, UserCreate, objects, worker,
           provider, Unborn, BusyExists, NoBucket, TagOK, MayTake
      <3>3. BusyExists'
        BY <1>t, <2>15 DEF Inv, TypeOK, Tag, UserCreate, objects, worker,
           provider, BusyExists
      <3>4. IDsRooted'
        BY <1>t, <2>15 DEF Inv, TypeOK, Tag, UserCreate, objects, worker,
           provider, IDsRooted, Unborn
      <3>5. IDsUnique'
        BY <1>t, <2>15 DEF Inv, TypeOK, Tag, UserCreate, objects, worker,
           provider, IDsUnique, IDsRooted, Unborn
      <3>6. TagID'
        BY <1>t, <2>15 DEF Inv, TypeOK, Tag, UserCreate, objects, worker,
           provider, TagID, NoBucket, Unborn, IDsRooted
      <3>7. Known'
        BY <1>t, <2>15 DEF Inv, TypeOK, Tag, UserCreate, objects, worker,
           provider, Known, BusyExists, Unborn
      <3>8. TagOK'
        BY <1>t, <2>15 DEF Inv, TypeOK, Tag, UserCreate, objects, worker,
           provider, TagOK, EvaluateOK, Known, Serial, TagID, IDsUnique,
           BusyExists, Unborn, NoBucket, MayTake
      <3>9. OneHolder'
        BY <1>t, <2>15 DEF Inv, TypeOK, Tag, UserCreate, objects, worker,
           provider, OneHolder, TagOK, ReadyOK, NoBucket, Unborn, MayTake
      <3>10. SparesOthers'
        BY <1>t, <2>15 DEF Inv, TypeOK, UserCreate, worker, provider, SparesOthers, Unborn,
           Exists
      <3>. QED
        BY <1>t, <3>1, <3>2, <3>3, <3>4, <3>5, <3>6, <3>7, <3>8, <3>9, <3>10 DEF Inv
    <2>16. CASE UserDelete(a)
      <3>1. Serial' /\ NoBucket' /\ IDsRooted' /\ TagID' /\ EvaluateOK'
           /\ ReadyOK'
        BY <2>16 DEF Inv, UserDelete, objects, worker, provider, Serial,
           NoBucket, IDsRooted, TagID, EvaluateOK, ReadyOK
      <3>2. Unborn'
        BY <1>t, <2>16 DEF Inv, TypeOK, Tag, UserDelete, objects, worker,
           provider, Unborn, BusyExists, NoBucket, TagOK, MayTake
      <3>3. BusyExists'
        BY <1>t, <2>16 DEF Inv, TypeOK, Tag, UserDelete, objects, worker,
           provider, BusyExists
      <3>4. IDsUnique'
        BY <1>t, <2>16 DEF Inv, TypeOK, Tag, UserDelete, objects, worker,
           provider, IDsUnique, IDsRooted, Unborn
      <3>5. Known'
        BY <1>t, <2>16 DEF Inv, TypeOK, Tag, UserDelete, objects, worker,
           provider, Known, BusyExists, Unborn
      <3>6. TagOK'
        BY <1>t, <2>16 DEF Inv, TypeOK, Tag, UserDelete, objects, worker,
           provider, TagOK, EvaluateOK, Known, Serial, TagID, IDsUnique,
           BusyExists, Unborn, NoBucket, MayTake
      <3>7. OneHolder'
        BY <1>t, <2>16 DEF Inv, TypeOK, Tag, UserDelete, objects, worker,
           provider, OneHolder, TagOK, ReadyOK, NoBucket, Unborn, MayTake
      <3>8. SparesOthers'
        BY <1>t, <2>16 DEF Inv, TypeOK, Tag, UserDelete, objects, worker,
           provider, SparesOthers, OneHolder, Serial, NoBucket
      <3>. QED
        BY <1>t, <3>1, <3>2, <3>3, <3>4, <3>5, <3>6, <3>7, <3>8 DEF Inv
    <2>17. CASE Tick(a)
      <3>1. Serial' /\ NoBucket' /\ Unborn' /\ BusyExists' /\ IDsRooted'
           /\ IDsUnique' /\ TagID' /\ Known' /\ EvaluateOK' /\ TagOK'
           /\ ReadyOK' /\ OneHolder' /\ SparesOthers'
        BY <2>17 DEF Inv, Tick, objects, worker, provider, Serial, NoBucket,
           Unborn, BusyExists, IDsRooted, IDsUnique, TagID, Known, EvaluateOK,
           TagOK, ReadyOK, OneHolder, SparesOthers, MayTake
      <3>. QED
        BY <1>t, <3>1 DEF Inv
    <2>18. CASE Inform(a)
      <3>1. Serial' /\ NoBucket' /\ Unborn' /\ BusyExists' /\ IDsRooted'
           /\ IDsUnique' /\ TagID' /\ EvaluateOK' /\ TagOK' /\ ReadyOK'
           /\ OneHolder' /\ SparesOthers'
        BY <2>18 DEF Inv, Inform, objects, worker, provider, Serial, NoBucket,
           Unborn, BusyExists, IDsRooted, IDsUnique, TagID, EvaluateOK, TagOK,
           ReadyOK, OneHolder, SparesOthers, MayTake
      <3>2. Known'
        BY <1>t, <2>18 DEF Inv, TypeOK, Tag, Inform, objects, worker,
           provider, Known, BusyExists, Unborn
      <3>. QED
        BY <1>t, <3>1, <3>2 DEF Inv
    <2>. QED
      BY <1>1, <2>1, <2>2, <2>3, <2>4, <2>5, <2>6, <2>7, <2>8,
         <2>9, <2>10, <2>11, <2>12, <2>13, <2>14, <2>15, <2>16, <2>17, <2>18 DEF Work
  <1>2. CASE Crash
    <2>1. NoBucket' /\ IDsRooted' /\ IDsUnique' /\ TagID' /\ OneHolder'
      BY <1>2 DEF Inv, Crash, objects, worker, provider, NoBucket, IDsRooted,
         IDsUnique, TagID, OneHolder
    <2>2. Serial'
      BY <1>t, <1>2 DEF Inv, TypeOK, Tag, Crash, objects, worker, provider,
         Serial
    <2>3. Unborn'
      BY <1>t, <1>2 DEF Inv, TypeOK, Tag, Crash, objects, worker, provider,
         Unborn, BusyExists, NoBucket, TagOK, MayTake
    <2>4. BusyExists'
      BY <1>t, <1>2 DEF Inv, TypeOK, Tag, Crash, objects, worker, provider,
         BusyExists
    <2>5. Known'
      BY <1>t, <1>2 DEF Inv, TypeOK, Tag, Crash, objects, worker, provider,
         Known, BusyExists, Unborn
    <2>6. EvaluateOK'
      BY <1>t, <1>2 DEF Inv, TypeOK, Tag, Crash, objects, worker, provider,
         EvaluateOK, Serial, NoBucket
    <2>7. TagOK'
      BY <1>t, <1>2 DEF Inv, TypeOK, Tag, Crash, objects, worker, provider,
         TagOK, EvaluateOK, Known, Serial, TagID, IDsUnique, BusyExists,
         Unborn, NoBucket, MayTake
    <2>8. ReadyOK'
      BY <1>t, <1>2 DEF Inv, TypeOK, Tag, Crash, objects, worker, provider,
         ReadyOK, Serial, NoBucket
    <2>9. SparesOthers'
      BY <1>t, <1>2 DEF Inv, TypeOK, Tag, Crash, objects, worker, provider,
         SparesOthers, OneHolder, Serial, NoBucket
    <2>. QED
      BY <1>t, <2>1, <2>2, <2>3, <2>4, <2>5, <2>6, <2>7, <2>8, <2>9 DEF Inv
  <1>3. CASE OutsideDelete
    <2>1. Serial' /\ BusyExists' /\ IDsRooted' /\ IDsUnique'
      BY <1>3 DEF Inv, OutsideDelete, objects, worker, provider, Serial,
         BusyExists, IDsRooted, IDsUnique
    <2>2. NoBucket'
      BY <1>t, <1>3 DEF Inv, TypeOK, Tag, OutsideDelete, objects, worker,
         provider, NoBucket
    <2>3. Unborn'
      BY <1>t, <1>3 DEF Inv, TypeOK, Tag, OutsideDelete, objects, worker,
         provider, Unborn, BusyExists, NoBucket, TagOK, MayTake
    <2>4. TagID'
      BY <1>t, <1>3 DEF Inv, TypeOK, Tag, OutsideDelete, objects, worker,
         provider, TagID, NoBucket, Unborn, IDsRooted
    <2>5. Known'
      BY <1>t, <1>3 DEF Inv, TypeOK, Tag, OutsideDelete, objects, worker,
         provider, Known, BusyExists, Unborn
    <2>6. EvaluateOK'
      BY <1>t, <1>3 DEF Inv, TypeOK, Tag, OutsideDelete, objects, worker,
         provider, EvaluateOK, Serial, NoBucket
    <2>7. TagOK'
      BY <1>t, <1>3 DEF Inv, TypeOK, Tag, OutsideDelete, objects, worker,
         provider, TagOK, EvaluateOK, Known, Serial, TagID, IDsUnique,
         BusyExists, Unborn, NoBucket, MayTake
    <2>8. ReadyOK'
      BY <1>t, <1>3 DEF Inv, TypeOK, Tag, OutsideDelete, objects, worker,
         provider, ReadyOK, Serial, NoBucket
    <2>9. OneHolder'
      BY <1>t, <1>3 DEF Inv, TypeOK, Tag, OutsideDelete, objects, worker,
         provider, OneHolder, TagOK, ReadyOK, NoBucket, Unborn, MayTake
    <2>10. SparesOthers'
      BY <1>t, <1>3 DEF Inv, TypeOK, Tag, OutsideDelete, objects, worker,
         provider, SparesOthers, OneHolder, Serial, NoBucket
    <2>. QED
      BY <1>t, <2>1, <2>2, <2>3, <2>4, <2>5, <2>6, <2>7, <2>8, <2>9, <2>10 DEF Inv
  <1>4. CASE UNCHANGED vars
    BY <1>t, <1>4 DEF vars, objects, worker, provider, Inv, Serial, NoBucket,
         Unborn, BusyExists, IDsRooted, IDsUnique, TagID, Known, EvaluateOK,
         TagOK, ReadyOK, OneHolder, SparesOthers, MayTake
  <1>. QED
    BY <1>1, <1>2, <1>3, <1>4 DEF Next

\* Only an Application at its "tag" call writes a tag; every other step keeps the
\* tag or removes it.
LEMMA TagWriters ==
    ASSUME [Next]_vars
    PROVE  \/ tag' = tag
           \/ tag' = Nil
           \/ \E a \in Apps : pc[a] = "tag" /\ PutTag(a)
  <1>1. ASSUME NEW a \in Apps,
               \/ Reconcile(a) \/ Work(a) \/ UserCreate(a) \/ UserDelete(a)
               \/ Tick(a) \/ Inform(a)
        PROVE  tag' = tag \/ tag' = Nil \/ (pc[a] = "tag" /\ PutTag(a))
    BY <1>1 DEF Reconcile, Work, headBucket, CreateBucket, MakeBucket, recordBucketCreated,
         claimOrVerifyOwnership, EvaluateBucketAdoption, tagAsOwned, recordReady,
         SetReady, storageFailed, verifyOwnership, emptyBucket, DestroyObjects, deleteBucket,
         RemoveBucket, removeFinalizer, UserCreate, UserDelete, Tick, Inform, Step, provider
  <1>2. ASSUME NEW a \in Apps, CallFails(a)
        PROVE  tag' = tag \/ tag' = Nil \/ (pc[a] = "tag" /\ PutTag(a))
    BY <1>2 DEF CallFails, LateEffect, MakeBucket, DestroyObjects, RemoveBucket, SetReady,
         provider
  <1>3. CASE Crash \/ OutsideDelete \/ UNCHANGED vars
    BY <1>3 DEF Crash, OutsideDelete, vars, provider
  <1>. QED
    BY <1>1, <1>2, <1>3 DEF Next

\* In every behaviour with one worker the invariant holds throughout.
THEOREM SerialInvariance == ASSUME Workers = 1 PROVE Spec => []Inv
  <1>1. Init => Inv
    BY InitInv
  <1>2. Inv /\ [Next]_vars => Inv'
    BY InvStep
  <1>. QED
    BY <1>1, <1>2, PTL DEF Spec

\* The types hold whatever the number of workers.
THEOREM OwnershipTypes == Spec => []TypeOK
  <1>1. Init => TypeOK
    BY InitInv DEF Inv
  <1>2. TypeOK /\ [Next]_vars => TypeOK'
    BY TypeStep
  <1>. QED
    BY <1>1, <1>2, PTL DEF Spec

\* One reconcile at a time: of the Applications that exist, only the one the tag
\* names is ready on the bucket (claimOrVerifyOwnership).
THEOREM ExclusiveOwnership == ASSUME Workers = 1 PROVE Spec => []OneHolder
  <1>1. Inv => OneHolder
    BY DEF Inv
  <1>. QED
    BY <1>1, SerialInvariance, PTL

\* One reconcile at a time: a cleanup destroys nobody else's data
\* (verifyOwnership before emptying and deleting).
THEOREM CleanupSparesOthers == ASSUME Workers = 1 PROVE Spec => []SparesOthers
  <1>1. Inv => SparesOthers
    BY DEF Inv
  <1>. QED
    BY <1>1, SerialInvariance, PTL

\* One reconcile at a time: a tag is only written over that of an Application
\* that is gone (EvaluateBucketAdoption, reclaiming by ownership ID).
THEOREM NoTakeover == ASSUME Workers = 1 PROVE Spec => TakenFromTheGone
  <1>1. ASSUME Inv, Inv', [Next]_vars
        PROVE  [tag # Nil /\ tag' # Nil /\ tag'.uid # tag.uid
                  => ~Exists(tag.uid)]_vars
    <2>1. SUFFICES ASSUME tag # Nil, tag' # Nil, tag'.uid # tag.uid
                   PROVE  ~Exists(tag.uid)
      OBVIOUS
    <2>2. PICK a \in Apps : pc[a] = "tag" /\ PutTag(a)
      BY <1>1, <2>1, TagWriters
    <2>3. tag'.uid = a
      BY <2>2 DEF PutTag
    <2>. QED
      BY <1>1, <2>1, <2>2, <2>3 DEF Inv, TagOK, MayTake, Exists
  <1>. QED
    BY <1>1, SerialInvariance, PTL DEF Spec, TakenFromTheGone

\* One reconcile at a time: a bucket leaves its namespace only by that
\* namespace's grant or with its ownership ID.
THEOREM ScopedAdoption == ASSUME Workers = 1 PROVE Spec => AdoptionScoped
  <1>1. ASSUME Inv, Inv', [Next]_vars
        PROVE  [tag # Nil /\ tag' # Nil /\ tag'.uid # tag.uid
                  => \/ tag'.id = tag.id
                     \/ tag'.ns = tag.ns
                     \/ <<tag.ns, tag'.ns>> \in Grants]_vars
    BY <1>1, TagWriters DEF Inv, TagOK, MayTake, PutTag
  <1>. QED
    BY <1>1, SerialInvariance, PTL DEF Spec, AdoptionScoped

=============================================================================

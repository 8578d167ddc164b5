--------------------------- MODULE BucketOwnership ---------------------------
(***************************************************************************)
(* Several Applications that name one bucket.  Each is reconciled by a     *)
(* worker of its own, up to Workers at a time; one step is one request to  *)
(* the provider or the API server.  What keeps them apart is the ownership *)
(* tag (S3) or marker object (Akamai), which is read in one request and    *)
(* written in a later one.                                                 *)
(*                                                                         *)
(* An Application is one object with its UID; a restored Application is    *)
(* another one that carries the ownership ID of an earlier one.  The       *)
(* object's own life (edits, conflicts, stale copies) is left to           *)
(* StorageLifecycle.                                                       *)
(***************************************************************************)
EXTENDS Naturals, FiniteSets

CONSTANTS
    Apps,         \* Applications, by UID
    Namespaces,
    NamespaceOf,  \* [Apps -> Namespaces]
    Adopters,     \* Applications with the adopt-bucket annotation
    Deleters,     \* Applications with deletionPolicy Delete; the others retain
    Grants,       \* <<owner's namespace, adopter's namespace>> pairs that the
                  \* owner's namespace allows by annotation
    Workers,      \* MaxConcurrentReconciles
    Provider,     \* "AWS" or "Akamai"
    MaxFaults,    \* bound on failures and crashes
    MaxOutside,   \* bound on deletions behind the operator's back
    Nil           \* absence: no tag, no namespace, no ownership ID

\* ns and id are Nil in a tag that is older than these fields.  An ownership ID
\* is named after the Application it was generated for.
Tag == [uid : Apps, ns : Namespaces \cup {Nil}, id : Apps \cup {Nil}]

\* "new" has no finalizer yet; "gone" is for good, since UIDs are not reused.
Lives == {"unborn", "new", "live", "terminating", "gone"}

\* Status.Storage's creation record, within or beyond the claim window.
Records == {"none", "fresh", "old"}

PCs == {"idle", "head", "create", "record", "claim", "evaluate", "tag", "ready",
        "failed", "verify", "empty", "deleteBucket", "removeFinalizer"}

ASSUME AppsAssumption == IsFiniteSet(Apps) /\ Nil \notin Apps
ASSUME NamespaceAssumption ==
    NamespaceOf \in [Apps -> Namespaces] /\ Nil \notin Namespaces
ASSUME PolicyAssumption ==
    Adopters \subseteq Apps /\ Deleters \subseteq Apps
ASSUME GrantAssumption == Grants \subseteq Namespaces \X Namespaces
ASSUME WorkersAssumption == Workers \in Nat
ASSUME ProviderAssumption == Provider \in {"AWS", "Akamai"}
ASSUME BoundAssumption == MaxFaults \in Nat /\ MaxOutside \in Nat
ASSUME NilAssumption == Nil \notin Tag

VARIABLES
    life,     \* [Apps -> Lives]
    id,       \* [Apps -> ownership ID annotation or Nil]
    rec,      \* [Apps -> Records]
    ready,    \* the Applications whose StorageReady condition is true
    pc,       \* [Apps -> the next call of its reconcile]
    seen,     \* [Apps -> the tag whose adoption its reconcile evaluates, or Nil]
    bucket,   \* "absent" or "present" at the provider
    tag,      \* its ownership tag, or Nil
    holders,  \* history: the Applications that became ready on this bucket and
              \* whose data nobody has destroyed since
    listed,   \* the Applications in the informer's cache
    faults, outside

objects == <<life, id, rec, ready>>
worker == <<pc, seen>>
provider == <<bucket, tag, holders>>
vars == <<objects, worker, provider, listed, faults, outside>>

TypeOK ==
    /\ life \in [Apps -> Lives]
    /\ id \in [Apps -> Apps \cup {Nil}]
    /\ rec \in [Apps -> Records]
    /\ ready \subseteq Apps
    /\ pc \in [Apps -> PCs]
    /\ seen \in [Apps -> Tag \cup {Nil}]
    /\ bucket \in {"absent", "present"}
    /\ tag \in Tag \cup {Nil}
    /\ holders \subseteq Apps
    /\ listed \subseteq Apps
    /\ faults \in Nat /\ outside \in Nat

\* Either nothing is there yet, or an operator of before namespaces and
\* ownership IDs has left one Application with its bucket.
Init ==
    /\ id = [a \in Apps |-> Nil]
    /\ pc = [a \in Apps |-> "idle"] /\ seen = [a \in Apps |-> Nil]
    /\ faults = 0 /\ outside = 0
    /\ \/ /\ life = [a \in Apps |-> "unborn"]
          /\ rec = [a \in Apps |-> "none"] /\ ready = {}
          /\ bucket = "absent" /\ tag = Nil /\ holders = {} /\ listed = {}
       \/ \E o \in Apps :
            /\ life = [a \in Apps |-> IF a = o THEN "live" ELSE "unborn"]
            /\ rec = [a \in Apps |-> IF a = o THEN "old" ELSE "none"]
            /\ ready = {o}
            /\ bucket = "present" /\ tag = [uid |-> o, ns |-> Nil, id |-> Nil]
            /\ holders = {o} /\ listed = {o}

-----------------------------------------------------------------------------

Exists(a) == life[a] \in {"new", "live", "terminating"}

\* Mutant: an Application that is not ready is taken for gone.
ApplicationExistsWithUIDMutant(uid) == uid \in listed /\ uid \in ready

\* Lists the informer's Applications, which may miss a new one and still hold
\* one that is gone.
ApplicationExistsWithUID(uid) == uid \in listed

CrossNamespaceAdoptionAllowed(owner, adopting) == <<owner, adopting>> \in Grants

adoptBucketRequested(a) == a \in Adopters

previouslyCreatedByUs(a) == rec[a] = "fresh"

Step(a, from, to) == pc[a] = from /\ pc' = [pc EXCEPT ![a] = to]

\* A worker takes the key and Reconcile runs up to the manager's first call:
\* the finalizer and the ownership ID are in place then.
Reconcile(a) ==
    /\ Exists(a) /\ a \in listed
    /\ Cardinality({b \in Apps : pc[b] # "idle"}) < Workers
    /\ IF life[a] = "terminating"
       THEN /\ Step(a, "idle", IF a \in Deleters THEN "verify" ELSE "removeFinalizer")
            /\ UNCHANGED <<life, id>>
       ELSE /\ Step(a, "idle", "head")
            /\ life' = [life EXCEPT ![a] = "live"]
            /\ id' = [id EXCEPT ![a] = IF @ = Nil THEN a ELSE @]
    /\ UNCHANGED <<rec, ready, seen, provider, listed, faults, outside>>

headBucket(a) ==
    /\ Step(a, "head", IF bucket = "present" THEN "claim" ELSE "create")
    /\ UNCHANGED <<objects, seen, provider, listed, faults, outside>>

MakeBucket == bucket = "absent" /\ bucket' = "present" /\ UNCHANGED <<tag, holders>>

CreateBucket(a) ==
    /\ \/ MakeBucket /\ Step(a, "create", "record")
       \/ bucket = "present" /\ Step(a, "create", "failed") /\ UNCHANGED provider
    /\ UNCHANGED <<objects, seen, listed, faults, outside>>

recordBucketCreated(a) ==
    /\ Step(a, "record", "claim")
    /\ rec' = [rec EXCEPT ![a] = "fresh"]
    /\ UNCHANGED <<life, id, ready, seen, provider, listed, faults, outside>>

\* Mutant: a restored Application is not recognised by its ownership ID.
ClaimMutant(a) ==
    CASE bucket = "absent" -> "failed"
      [] bucket = "present" /\ tag = Nil ->
            IF previouslyCreatedByUs(a) \/ adoptBucketRequested(a) THEN "tag" ELSE "failed"
      [] bucket = "present" /\ tag # Nil /\ tag.uid = a ->
            IF tag.ns # NamespaceOf[a] \/ tag.id # id[a] THEN "tag" ELSE "ready"
      [] OTHER -> IF adoptBucketRequested(a) THEN "evaluate" ELSE "failed"

\* What becomes of a bucket whose tag has just been read: claim an untagged one
\* on the strength of the record or the annotation, keep (and backfill) one's
\* own, reclaim by ownership ID, or have the adoption evaluated.
Claim(a) ==
    CASE bucket = "absent" -> "failed"
      [] bucket = "present" /\ tag = Nil ->
            IF previouslyCreatedByUs(a) \/ adoptBucketRequested(a) THEN "tag" ELSE "failed"
      [] bucket = "present" /\ tag # Nil /\ tag.uid = a ->
            IF tag.ns # NamespaceOf[a] \/ tag.id # id[a] THEN "tag" ELSE "ready"
      [] OTHER ->
            IF id[a] # Nil /\ tag.id = id[a] THEN "tag"
            ELSE IF adoptBucketRequested(a) THEN "evaluate" ELSE "failed"

claimOrVerifyOwnership(a) ==
    /\ Step(a, "claim", Claim(a))
    /\ seen' = [seen EXCEPT ![a] = IF Claim(a) = "evaluate" THEN tag ELSE Nil]
    /\ UNCHANGED <<objects, provider, listed, faults, outside>>

\* Mutant: the annotation alone is taken as permission.
AdoptionAllowedMutant(a, owner) ==
    /\ owner.ns # Nil
    /\ owner.ns = NamespaceOf[a] \/ CrossNamespaceAdoptionAllowed(owner.ns, NamespaceOf[a])

\* Mutant: the namespace of the previous owner is not looked at.
AdoptionUnscopedMutant(a, owner) == ~ApplicationExistsWithUID(owner.uid)

\* A tag without a namespace belongs to nobody's reach.
AdoptionAllowed(a, owner) ==
    /\ ~ApplicationExistsWithUID(owner.uid)
    /\ owner.ns # Nil
    /\ owner.ns = NamespaceOf[a] \/ CrossNamespaceAdoptionAllowed(owner.ns, NamespaceOf[a])

EvaluateBucketAdoption(a) ==
    /\ Step(a, "evaluate", IF AdoptionAllowed(a, seen[a]) THEN "tag" ELSE "failed")
    /\ seen' = [seen EXCEPT ![a] = Nil]
    /\ UNCHANGED <<objects, provider, listed, faults, outside>>

\* Mutant: the tag is written in the layout that has no ownership ID.
PutTagMutant(a) ==
    /\ bucket = "present" /\ tag' = [uid |-> a, ns |-> NamespaceOf[a]]
    /\ UNCHANGED <<bucket, holders>>

PutTag(a) ==
    /\ bucket = "present" /\ tag' = [uid |-> a, ns |-> NamespaceOf[a], id |-> id[a]]
    /\ UNCHANGED <<bucket, holders>>

tagAsOwned(a) ==
    /\ \/ PutTag(a) /\ Step(a, "tag", "ready")
       \/ bucket = "absent" /\ Step(a, "tag", "failed") /\ UNCHANGED provider
    /\ UNCHANGED <<objects, seen, listed, faults, outside>>

\* The status at the end of a reconcile; an adopted bucket is recorded like a
\* created one.
SetReady(a) ==
    /\ ~(Provider = "AWS" /\ bucket = "absent")
    /\ rec' = [rec EXCEPT ![a] = IF @ = "none" THEN "fresh" ELSE @]
    /\ ready' = ready \cup {a}
    /\ holders' = IF bucket = "present" THEN holders \cup {a} ELSE holders
    /\ UNCHANGED <<life, id, bucket, tag>>

\* The rest of ReconcileBucket, which on S3 needs the bucket, and the status.
recordReady(a) ==
    /\ \/ SetReady(a) /\ Step(a, "ready", "idle")
       \/ /\ Provider = "AWS" /\ bucket = "absent"
          /\ Step(a, "ready", "failed") /\ UNCHANGED <<objects, provider>>
    /\ UNCHANGED <<seen, listed, faults, outside>>

\* Mutant: a bucket that is not the Application's keeps its StorageReady.
FailedReadyMutant(a) == ready

FailedReady(a) == ready \ {a}

\* SetNotReady, SetNotOwned and SetCleanupFailed.
storageFailed(a) ==
    /\ Step(a, "failed", "idle")
    /\ ready' = FailedReady(a)
    /\ UNCHANGED <<life, id, rec, seen, provider, listed, faults, outside>>

-----------------------------------------------------------------------------

\* Mutant: whoever is asked to delete a bucket and may adopt it, may delete it.
CleanupAllowedMutant(a) ==
    (tag # Nil /\ tag.uid = a) \/ previouslyCreatedByUs(a) \/ adoptBucketRequested(a)

CleanupAllowed(a) ==
    IF tag = Nil THEN previouslyCreatedByUs(a) \/ adoptBucketRequested(a) ELSE tag.uid = a

\* A bucket that is not there needs no verification; S3 goes on to empty it
\* all the same, Akamai skips to the deletion.
verifyOwnership(a) ==
    /\ Step(a, "verify",
            IF bucket = "absent" THEN IF Provider = "AWS" THEN "empty" ELSE "deleteBucket"
            ELSE IF CleanupAllowed(a) THEN "empty" ELSE "failed")
    /\ UNCHANGED <<objects, seen, provider, listed, faults, outside>>

\* The marker is one of the objects Akamai's emptyBucket deletes.
DestroyObjects ==
    /\ tag' = IF Provider = "Akamai" THEN Nil ELSE tag
    /\ holders' = {} /\ UNCHANGED bucket

\* S3 takes a bucket that is not there for an empty one.
emptyBucket(a) ==
    /\ \/ (bucket = "present" \/ Provider = "AWS") /\ DestroyObjects
          /\ Step(a, "empty", "deleteBucket")
       \/ /\ bucket = "absent" /\ Provider = "Akamai"
          /\ Step(a, "empty", "failed") /\ UNCHANGED provider
    /\ UNCHANGED <<objects, seen, listed, faults, outside>>

\* The bucket goes, or was gone; on Akamai a marker keeps it.
RemoveBucket ==
    /\ ~(Provider = "Akamai" /\ tag # Nil)
    /\ bucket' = "absent" /\ tag' = Nil /\ holders' = {}

\* A bucket with objects is not deleted: a marker, or what a workload has
\* written since.
deleteBucket(a) ==
    /\ \/ RemoveBucket /\ Step(a, "deleteBucket", "removeFinalizer")
       \/ /\ bucket = "present" /\ (holders # {} \/ (Provider = "Akamai" /\ tag # Nil))
          /\ Step(a, "deleteBucket", "failed") /\ UNCHANGED provider
    /\ UNCHANGED <<objects, seen, listed, faults, outside>>

removeFinalizer(a) ==
    /\ Step(a, "removeFinalizer", "idle")
    /\ life' = [life EXCEPT ![a] = "gone"]
    /\ rec' = [rec EXCEPT ![a] = "none"] /\ ready' = ready \ {a}
    /\ UNCHANGED <<id, seen, provider, listed, faults, outside>>

-----------------------------------------------------------------------------
(* Failures, users, time. *)

\* What a call whose answer is an error may have done all the same: emptying may
\* have got through the workload's objects before or after it met the marker.
LateEffect(a) ==
    \/ UNCHANGED provider
    \/ pc[a] = "create" /\ MakeBucket
    \/ pc[a] = "tag" /\ PutTag(a)
    \/ /\ pc[a] = "empty" /\ bucket = "present"
       /\ DestroyObjects \/ (holders' = {} /\ UNCHANGED <<bucket, tag>>)
    \/ pc[a] = "deleteBucket" /\ RemoveBucket

\* The failure of the last status write or of the finalizer's removal ends the
\* reconcile; any other goes into the status, S3's bucket configuration included.
CallFails(a) ==
    /\ faults < MaxFaults /\ faults' = faults + 1
    /\ \/ /\ pc[a] \notin {"idle", "failed", "removeFinalizer"}
          /\ pc[a] = "ready" => Provider = "AWS"
          /\ pc' = [pc EXCEPT ![a] = "failed"] /\ LateEffect(a) /\ UNCHANGED objects
       \/ /\ pc[a] \in {"ready", "removeFinalizer"}
          /\ pc' = [pc EXCEPT ![a] = "idle"]
          /\ \/ UNCHANGED <<objects, provider>>
             \/ pc[a] = "ready" /\ SetReady(a)
    /\ seen' = [seen EXCEPT ![a] = Nil]
    /\ UNCHANGED <<listed, outside>>

\* The restarted operator lists every Application before it reconciles one.
Crash ==
    /\ \E a \in Apps : pc[a] # "idle"
    /\ faults < MaxFaults /\ faults' = faults + 1
    /\ pc' = [a \in Apps |-> "idle"] /\ seen' = [a \in Apps |-> Nil]
    /\ listed' = {a \in Apps : Exists(a)}
    /\ UNCHANGED <<objects, provider, outside>>

\* A new Application, or one restored from the backup of one that is gone: its
\* ownership ID comes back, unless an Application that exists already has it.
UserCreate(a) ==
    /\ life[a] = "unborn"
    /\ life' = [life EXCEPT ![a] = "new"]
    /\ \/ UNCHANGED id
       \/ \E o \in Apps :
            /\ life[o] = "gone" /\ id[o] # Nil
            /\ \A b \in Apps : Exists(b) => id[b] # id[o]
            /\ id' = [id EXCEPT ![a] = id[o]]
    /\ UNCHANGED <<rec, ready, worker, provider, listed, faults, outside>>

UserDelete(a) ==
    /\ life[a] \in {"new", "live"}
    /\ life' = [life EXCEPT ![a] = IF @ = "new" THEN "gone" ELSE "terminating"]
    /\ UNCHANGED <<id, rec, ready, worker, provider, listed, faults, outside>>

\* bucketCreationClaimWindow is over; a reconcile is much shorter.
Tick(a) ==
    /\ rec[a] = "fresh" /\ pc[a] = "idle"
    /\ rec' = [rec EXCEPT ![a] = "old"]
    /\ UNCHANGED <<life, id, ready, worker, provider, listed, faults, outside>>

\* The informer hears of a new Application, or of one that is gone.
Inform(a) ==
    /\ listed' = IF Exists(a) THEN listed \cup {a} ELSE listed \ {a}
    /\ listed' # listed
    /\ UNCHANGED <<objects, worker, provider, faults, outside>>

\* The bucket is deleted behind the operator's back.
OutsideDelete ==
    /\ bucket = "present" /\ outside < MaxOutside /\ outside' = outside + 1
    /\ bucket' = "absent" /\ tag' = Nil /\ holders' = {}
    /\ UNCHANGED <<objects, worker, listed, faults>>

-----------------------------------------------------------------------------

Work(a) ==
    \/ headBucket(a) \/ CreateBucket(a) \/ recordBucketCreated(a)
    \/ claimOrVerifyOwnership(a) \/ EvaluateBucketAdoption(a) \/ tagAsOwned(a)
    \/ recordReady(a) \/ storageFailed(a)
    \/ verifyOwnership(a) \/ emptyBucket(a) \/ deleteBucket(a) \/ removeFinalizer(a)

Next ==
    \/ \E a \in Apps : \/ Reconcile(a) \/ Work(a) \/ CallFails(a)
                       \/ UserCreate(a) \/ UserDelete(a) \/ Tick(a) \/ Inform(a)
    \/ Crash \/ OutsideDelete

Spec == Init /\ [][Next]_vars

\* Calls return, and the workqueue serves its keys in turn: a key that keeps
\* coming back is taken although the workers are busy now and then.
FairSpec == Spec /\ \A a \in Apps : WF_vars(Work(a) \/ Inform(a)) /\ SF_vars(Reconcile(a))

-----------------------------------------------------------------------------
(* Properties. *)

\* Of the Applications that exist, only the one the tag names has become ready
\* on the bucket as it is: two never share one (claimOrVerifyOwnership).
OneHolder ==
    \A a \in holders : Exists(a) => tag # Nil /\ tag.uid = a

\* An Application that empties or deletes the bucket does not destroy the data
\* of another one that exists (verifyOwnership, CleanupBucket, DeleteBucket).
SparesOthers ==
    \A a \in Apps : pc[a] \in {"empty", "deleteBucket"} =>
       \A h \in holders : Exists(h) => h = a

\* A bucket is never taken away from an Application that exists: the previous
\* owner is gone when the tag is overwritten (EvaluateBucketAdoption).
TakenFromTheGone ==
    [][tag # Nil /\ tag' # Nil /\ tag'.uid # tag.uid
         => ~Exists(tag.uid)]_vars

\* A bucket changes its namespace only by a grant of the namespace it leaves,
\* or with the ownership ID that proves it is the same Application.
AdoptionScoped ==
    [][tag # Nil /\ tag' # Nil /\ tag'.uid # tag.uid
         => \/ tag'.id = tag.id
            \/ tag'.ns = tag.ns
            \/ <<tag.ns, tag'.ns>> \in Grants]_vars

\* A restored Application gets its bucket back by itself, as long as the bucket
\* bears its ownership ID: no annotation is needed (claimOrVerifyOwnership).
RestoredReclaims ==
    \A a \in Apps :
       (life[a] = "live" /\ tag # Nil /\ tag.id = id[a])
         ~> (life[a] # "live" \/ tag = Nil \/ tag.id # id[a]
               \/ (a \in ready /\ tag.uid = a))

\* If two Applications do come to be ready on one bucket, the one that the tag
\* does not name learns of it: its StorageReady does not stay true.
DisputesEnd ==
    \A a \in Apps :
       (a \in ready /\ tag # Nil /\ tag.uid # a) ~> (a \notin ready \/ tag = Nil \/ tag.uid = a)

=============================================================================

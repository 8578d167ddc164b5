--------------------------- MODULE StoragePromise ---------------------------
(***************************************************************************)
(* What the storage of one Application promises its cloud account, without *)
(* calls, copies or failures: a bucket appears only once a finalizer       *)
(* stands for it, and the Application goes only when each of its buckets   *)
(* has gone or was left behind on purpose.  StorageLifecycle implements it.*)
(***************************************************************************)

CONSTANTS
    Places,  \* where a bucket can be: its name and its region
    Late     \* may a reconcile still believe in an Application that is gone?

VARIABLES
    phase,  \* of the Application: "fresh", "guarded", "deleting", "gone"
    mine,   \* where the buckets are that the operator made for it
    kept    \* where a bucket was left under deletionPolicy Retain

vars == <<phase, mine, kept>>

Init == phase = "fresh" /\ mine = {} /\ kept = {}

\* The finalizer is stored, before anything is provisioned.
Guard == phase = "fresh" /\ phase' = "guarded" /\ UNCHANGED <<mine, kept>>

\* The user deletes the Application; without a finalizer it goes at once.
Delete ==
    /\ phase \in {"fresh", "guarded"}
    /\ phase' = IF phase = "fresh" THEN "gone" ELSE "deleting"
    /\ UNCHANGED <<mine, kept>>

\* A finalizer stands for the buckets, or has stood and a reconcile missed its
\* removal.
Guarded == phase \in {"guarded", "deleting"} \/ (Late /\ phase = "gone")

\* A bucket is made; a reconcile that is under way may still do so after the
\* user has asked for the deletion.
Create(p) ==
    /\ Guarded /\ p \notin mine
    /\ mine' = mine \cup {p} /\ UNCHANGED <<phase, kept>>

\* A bucket goes: the operator's cleanup, or somebody else.
Remove(p) == p \in mine /\ mine' = mine \ {p} /\ UNCHANGED <<phase, kept>>

\* A cleanup leaves the bucket to the user.
Keep(p) ==
    /\ Guarded
    /\ kept' = kept \cup {p} /\ UNCHANGED <<phase, mine>>

\* The finalizer is removed.
Finish ==
    /\ phase = "deleting" /\ mine \subseteq kept
    /\ phase' = "gone" /\ UNCHANGED <<mine, kept>>

Next == Guard \/ Delete \/ Finish \/ \E p \in Places : Create(p) \/ Remove(p) \/ Keep(p)

Spec == Init /\ [][Next]_vars

=============================================================================

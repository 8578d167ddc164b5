------------------------ MODULE MCStorageLifecycle ------------------------
(***************************************************************************)
(* Small instances of StorageLifecycle for TLC.  "d" is the region an      *)
(* unset region resolves to, "r" another one.                              *)
(***************************************************************************)
EXTENDS StorageLifecycle

S(b, r, p) == [bucket |-> b, region |-> r, policy |-> p]

\* Every call may fail, and the operator may crash at any of them.
AnyPoint == PCs \ {"idle"}

\* Every call but the two between which a bucket exists without a record of it.
RecordedPoints == AnyPoint \ {"create", "record"}

\* One bucket whose policy the user may change.
OneBucket == {S("b1", "", "Delete"), S("b1", "", "Retain")}

\* Storage that the user may add or remove.  Its region is spelt out, so the
\* creation record, which has none, counts as another identity in the same place.
SpeltOutBucket == {Nil, S("b1", "d", "Delete"), S("b1", "d", "Retain")}

\* Retain only: the region may be set, cleared, and, by way of Nil, changed.
RetainAnywhere ==
    {Nil, S("b1", "", "Retain"), S("b1", "d", "Retain"), S("b1", "r", "Retain")}

=============================================================================

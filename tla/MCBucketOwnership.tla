------------------------- MODULE MCBucketOwnership -------------------------
(***************************************************************************)
(* Small instances of BucketOwnership for TLC: up to three Applications in *)
(* two namespaces.  "a2", in the namespace of "a1", and "a3", in another   *)
(* one, may adopt; who deletes its bucket and who retains it differs from  *)
(* run to run.                                                             *)
(***************************************************************************)
EXTENDS BucketOwnership

\* Only n1 lets its buckets go, to n2.
OneGrant == {<<"n1", "n2">>}

Home == [a \in Apps |-> IF a = "a3" THEN "n2" ELSE "n1"]

=============================================================================

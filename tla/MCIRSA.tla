------------------------------- MODULE MCIRSA -------------------------------
(***************************************************************************)
(* Small instances of IRSA for TLC.                                        *)
(***************************************************************************)
EXTENDS IRSA

App(n, create, storage) == [name |-> n, create |-> create, storage |-> storage]

\* An account of the operator's, another name for it, the same one handed over
\* to the user, and no storage.
Switched == {App("n1", TRUE, TRUE), App("n2", TRUE, TRUE),
             App("n2", FALSE, TRUE), App("n1", TRUE, FALSE)}

=============================================================================

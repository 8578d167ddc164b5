----------------------------- MODULE MCWorkload -----------------------------
(***************************************************************************)
(* Small instances of Workload for TLC.  The HPA wants at least two        *)
(* replicas: neither spec.replicas nor the default of one will do for it.  *)
(***************************************************************************)
EXTENDS Workload

App(c, n, on) == [config |-> c, replicas |-> n, on |-> on]

\* Autoscaled, or exposed by an Ingress and not autoscaled, each with its own
\* ConfigMap.
Toggled == {App("c1", 1, {"HPA"}), App("c2", 1, {"Ingress"})}

\* One autoscaled Application that starts with three replicas.
Seeded == {App(Nil, 3, {"HPA", "PDB"})}

=============================================================================

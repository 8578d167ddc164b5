------------------------------ MODULE Workload ------------------------------
(***************************************************************************)
(* The child objects of one Application: ConfigMap, Service, Deployment,   *)
(* Ingress, PodDisruptionBudget and HorizontalPodAutoscaler, applied in    *)
(* turn by ensureDesiredState, and the Ready condition computed from the   *)
(* informers' copies of them.  One step of the worker is one call.  Around *)
(* it, the cluster's controllers roll out, scale and report, others edit   *)
(* or delete the children, informers lag, calls fail, the operator crashes.*)
(*                                                                         *)
(* The Application here exists and has no storage of its own: nothing      *)
(* comes back after a resync interval, so every change has to be noticed   *)
(* through a watch.                                                        *)
(***************************************************************************)
EXTENDS Naturals, FiniteSets

CONSTANTS
    SpecChoices,  \* what the user may write to the spec
    Configs,      \* names of ConfigMaps
    ScaleRange,   \* minReplicas..maxReplicas of the HorizontalPodAutoscaler
    MaxEdits,     \* bound on user edits
    MaxMishaps,   \* bound on failures, crashes and what others do to the children
    Nil           \* absence: no object, no ConfigMap

Optional == {"Ingress", "PDB", "HPA"}
Kinds == {"Service", "Deployment"} \cup Optional

\* config: the name of spec.config's ConfigMap; on: which optional children the
\* spec asks for.
ApplicationSpec == [config : Configs \cup {Nil}, replicas : Nat, on : SUBSET Optional]

\* up: does the object's status, for its present generation, count as ready?
Deployment == [config : Configs \cup {Nil}, replicas : Nat, up : BOOLEAN]
Child == [up : BOOLEAN]

PCs == {"idle", "configMap", "staleConfigMaps", "Service", "Deployment",
        "Ingress", "PDB", "HPA", "evaluate"}

ASSUME SpecAssumption == SpecChoices \subseteq ApplicationSpec
ASSUME RangeAssumption == ScaleRange \subseteq Nat /\ ScaleRange # {}
ASSUME BoundAssumption == MaxEdits \in Nat /\ MaxMishaps \in Nat
ASSUME NilAssumption == Nil \notin Configs /\ Nil \notin ApplicationSpec /\ Nil \notin Deployment
                        /\ Nil \notin Child

VARIABLES
    spec,        \* the Application's spec at the API server
    queued,      \* is the Application in the workqueue?
    pc, app,     \* the worker's next call and its copy of the spec, Nil when idle
    ready,       \* the Ready condition
    kids,        \* [Kinds -> the object at the API server, or Nil]
    seen,        \* [Kinds -> what the worker reads of the informer's copy]
    configs,     \* the ConfigMaps this Application controls
    configsSeen, \* the informer's copy
    events,      \* kinds with a watch event to be delivered that passes its predicate
    scalers,     \* the field managers that own the Deployment's spec.replicas
    edits, mishaps

worker == <<pc, app>>
cluster == <<kids, configs, scalers, events>>
informers == <<seen, configsSeen>>
counters == <<edits, mishaps>>
vars == <<spec, queued, worker, ready, cluster, informers, counters>>

\* The types, and that the worker has a copy of the spec throughout a reconcile
\* and none in between (Reconcile).
TypeOK ==
    /\ spec \in SpecChoices /\ app \in SpecChoices \cup {Nil}
    /\ (app = Nil) <=> (pc = "idle")
    /\ queued \in BOOLEAN /\ ready \in BOOLEAN
    /\ pc \in PCs
    /\ kids \in [Kinds -> Deployment \cup Child \cup {Nil}]
    /\ kids["Deployment"] \in Deployment \cup {Nil}
    /\ seen \in [Kinds -> Child \cup {Nil}]
    /\ configs \subseteq Configs /\ configsSeen \subseteq Configs
    /\ scalers \subseteq {"operator", "other"}
    /\ events \subseteq Kinds \cup {"ConfigMap"}
    /\ edits \in Nat /\ mishaps \in Nat

Init ==
    /\ spec \in SpecChoices /\ app = Nil
    /\ queued = TRUE /\ pc = "idle" /\ ready = FALSE
    /\ kids = [k \in Kinds |-> Nil] /\ seen = [k \in Kinds |-> Nil]
    /\ configs = {} /\ configsSeen = {} /\ scalers = {} /\ events = {}
    /\ edits = 0 /\ mishaps = 0

-----------------------------------------------------------------------------
(* Reconcile and ensureDesiredState. *)

\* What the worker reads of an informer's copy: is it there, is it ready?
View(o) == IF o = Nil THEN Nil ELSE [up |-> o.up]

\* Mutant: the status of an owned object is nobody's business.
ChangedMutant(k, old, new) ==
    \/ (old = Nil) # (new = Nil)
    \/ k = "Deployment" /\ old # Nil /\ new # Nil
       /\ (old.config # new.config \/ old.replicas # new.replicas)

\* Mutant: the end of an owned object is nobody's business.
ChangedDeleteMutant(k, old, new) == new # Nil /\ old # new

\* ownedStatusOrGenerationChangedPredicate, and for the Service, which has no
\* status here, ownedContentChangedPredicate; created and deleted objects pass.
Changed(k, old, new) == old # new

\* A write to the API server, and the watch event of a write that changes
\* what the predicates look at.
Put(k, o) ==
    /\ kids' = [kids EXCEPT ![k] = o]
    /\ events' = IF Changed(k, kids[k], o) THEN events \cup {k} ELSE events
    /\ UNCHANGED configs

\* Mutant: ConfigMaps are not watched.
ConfigChangedMutant(old, new) == FALSE

\* ownedContentChangedPredicate for ConfigMaps.
ConfigChanged(old, new) == old # new

PutConfigs(s) ==
    /\ configs' = s
    /\ events' = IF ConfigChanged(configs, s) THEN events \cup {"ConfigMap"} ELSE events
    /\ UNCHANGED <<kids, scalers>>

\* The key is taken; SetReconciling withdraws Ready.
Reconcile ==
    /\ pc = "idle" /\ queued
    /\ pc' = "configMap" /\ app' = spec
    /\ queued' = FALSE /\ ready' = FALSE
    /\ UNCHANGED <<spec, cluster, informers, counters>>

reconcileConfigMap ==
    /\ pc = "configMap" /\ pc' = "staleConfigMaps"
    /\ PutConfigs(configs \cup ({app.config} \ {Nil}))
    /\ UNCHANGED <<spec, queued, app, ready, informers, counters>>

\* Mutant: only a disabled ConfigMap is cleaned up, not a renamed one.
StaleMutant == IF app.config = Nil THEN configsSeen ELSE {}

\* The ConfigMaps to delete, as the informer lists them.
Stale == configsSeen \ {app.config}

deleteStaleConfigMaps ==
    /\ pc = "staleConfigMaps" /\ pc' = "Service"
    /\ PutConfigs(configs \ Stale)
    /\ UNCHANGED <<spec, queued, app, ready, informers, counters>>

\* A PDB or HPA without a status yet counts as ready, an Ingress without an
\* address does not.
Fresh(k) == [up |-> k # "Ingress"]

\* Applied if the spec asks for it, deleted if not.
ReconcileChild(k, next) ==
    /\ pc = k /\ pc' = next
    /\ Put(k, IF k \in Optional \ app.on THEN Nil
              ELSE IF kids[k] = Nil THEN Fresh(k) ELSE kids[k])
    /\ UNCHANGED <<spec, queued, app, ready, scalers, informers, counters>>

reconcileService == ReconcileChild("Service", "Deployment")
reconcileIngress == ReconcileChild("Ingress", "PDB")
reconcilePDB == ReconcileChild("PDB", "HPA")
reconcileHPA == ReconcileChild("HPA", "evaluate")

\* Mutant: spec.replicas is applied whether or not the HPA scales.
DesiredReplicasMutant == {app.replicas}

\* What the applied Deployment says of spec.replicas: a value, or nothing once
\* an HPA is asked for and the Deployment is there, as far as the informer knows.
DesiredReplicas ==
    IF "HPA" \notin app.on \/ seen["Deployment"] = Nil THEN {app.replicas} ELSE {}

\* A change of the spec is a new generation, which no status covers yet.
Respec(d, config, replicas) ==
    IF d # Nil /\ d.config = config /\ d.replicas = replicas THEN d
    ELSE [config |-> config, replicas |-> replicas, up |-> FALSE]

\* Server-side apply with force: an applied value is the operator's, shared
\* with whoever had set the same one; a field the operator no longer applies is
\* released, and falls back to the default of 1 if nobody else has set it.
ApplyReplicas(d) ==
    CASE DesiredReplicas # {} ->
           /\ Put("Deployment", Respec(d, app.config, app.replicas))
           /\ scalers' = {"operator"} \cup
                IF d # Nil /\ d.replicas = app.replicas THEN scalers ELSE {}
      [] DesiredReplicas = {} /\ d # Nil /\ scalers # {"operator"} ->
           /\ Put("Deployment", Respec(d, app.config, d.replicas))
           /\ scalers' = scalers \ {"operator"}
      [] OTHER ->
           /\ Put("Deployment", Respec(d, app.config, 1))
           /\ scalers' = {}

reconcileDeployment ==
    /\ pc = "Deployment" /\ pc' = "Ingress"
    /\ ApplyReplicas(kids["Deployment"])
    /\ UNCHANGED <<spec, queued, app, ready, informers, counters>>

\* The objects of o that an Application with spec s is judged by are ready.
Healthy(s, o) ==
    \A k \in {"Service", "Deployment"} \cup s.on : o[k] # Nil /\ o[k].up

\* Mutant: the copy outlives its reconcile.
DoneMutant == pc' = "idle" /\ UNCHANGED app

\* Reconcile returns.
Done == pc' = "idle" /\ app' = Nil

\* The informers' copies decide; an Application that is not ready comes back
\* after readinessRequeueInterval.
EvaluateComputeReadiness ==
    /\ pc = "evaluate" /\ Done
    /\ ready' = Healthy(app, seen)
    /\ queued' = (queued \/ ~ready')
    /\ UNCHANGED <<spec, cluster, informers, counters>>

Mishap == mishaps < MaxMishaps /\ mishaps' = mishaps + 1

\* A call fails: Reconcile returns the error and the key comes back.  The stale
\* ConfigMaps are deleted one by one, so that some may be gone by then; a call
\* that got through although its answer is an error is as if the next had failed.
CallFails ==
    /\ pc # "idle" /\ Mishap
    /\ Done /\ queued' = TRUE
    /\ \/ UNCHANGED cluster
       \/ pc = "staleConfigMaps" /\ \E gone \in SUBSET Stale : PutConfigs(configs \ gone)
    /\ UNCHANGED <<spec, ready, informers, edits>>

\* A restarted operator lists everything.
Crash ==
    /\ Mishap
    /\ Done /\ queued' = TRUE
    /\ seen' = [k \in Kinds |-> View(kids[k])] /\ configsSeen' = configs /\ events' = {}
    /\ UNCHANGED <<spec, ready, kids, configs, scalers, edits>>

-----------------------------------------------------------------------------
(* The watches. *)

\* The informer takes up what happened to an object; the events that pass the
\* predicate wake its Application.
SyncChild(k) ==
    /\ k \in events \/ seen[k] # View(kids[k])
    /\ events' = events \ {k}
    /\ seen' = [seen EXCEPT ![k] = View(kids[k])]
    /\ queued' = (queued \/ k \in events)
    /\ UNCHANGED <<spec, worker, ready, kids, configs, scalers, configsSeen, counters>>

SyncConfigMaps ==
    /\ "ConfigMap" \in events \/ configsSeen # configs
    /\ events' = events \ {"ConfigMap"}
    /\ configsSeen' = configs
    /\ queued' = (queued \/ "ConfigMap" \in events)
    /\ UNCHANGED <<spec, worker, ready, kids, configs, scalers, seen, counters>>

-----------------------------------------------------------------------------
(* The user, the cluster's controllers, and others. *)

UserEdit(s) ==
    /\ s # spec /\ edits < MaxEdits /\ edits' = edits + 1
    /\ spec' = s /\ queued' = TRUE
    /\ UNCHANGED <<worker, ready, cluster, informers, mishaps>>

\* The object's controller reports it ready; pods that mount a ConfigMap that
\* is not there do not start.
Rollout(k) ==
    /\ kids[k] # Nil /\ ~kids[k].up
    /\ k = "Deployment" => kids[k].config \in configs \cup {Nil}
    /\ Put(k, [kids[k] EXCEPT !.up = TRUE])
    /\ UNCHANGED <<spec, queued, worker, ready, scalers, informers, counters>>

\* Pods fail, an address is withdrawn, an HPA cannot scale.
Breaks(k) ==
    /\ Mishap /\ k # "Service" /\ kids[k] # Nil /\ kids[k].up
    /\ Put(k, [kids[k] EXCEPT !.up = FALSE])
    /\ UNCHANGED <<spec, queued, worker, ready, scalers, informers, edits>>

SetScale(r) ==
    /\ kids["Deployment"] # Nil /\ r # kids["Deployment"].replicas
    /\ Put("Deployment", Respec(kids["Deployment"], kids["Deployment"].config, r))
    /\ scalers' = {"other"}
    /\ UNCHANGED <<spec, queued, worker, ready, informers, edits>>

\* The HPA controller brings the Deployment into its range ...
HPABounds(r) ==
    /\ kids["HPA"] # Nil /\ kids["Deployment"] # Nil
    /\ kids["Deployment"].replicas \notin ScaleRange
    /\ SetScale(r) /\ UNCHANGED mishaps

\* ... and, as the load changes, moves it within.
HPAScales(r) == kids["HPA"] # Nil /\ Mishap /\ SetScale(r)

OutsideScale(r) == Mishap /\ SetScale(r)

OutsideDelete(k) ==
    /\ Mishap /\ kids[k] # Nil
    /\ Put(k, Nil)
    /\ scalers' = IF k = "Deployment" THEN {} ELSE scalers
    /\ UNCHANGED <<spec, queued, worker, ready, informers, edits>>

OutsideDeleteConfigMap ==
    /\ Mishap /\ \E c \in configs : PutConfigs(configs \ {c})
    /\ UNCHANGED <<spec, queued, worker, ready, informers, edits>>

-----------------------------------------------------------------------------

WorkerStep ==
    \/ Reconcile \/ reconcileConfigMap \/ deleteStaleConfigMaps
    \/ reconcileService \/ reconcileDeployment
    \/ reconcileIngress \/ reconcilePDB \/ reconcileHPA
    \/ EvaluateComputeReadiness

OutsideStep ==
    \/ \E k \in Kinds : Breaks(k) \/ OutsideDelete(k)
    \/ \E r \in ScaleRange : HPAScales(r) \/ OutsideScale(r)
    \/ OutsideDeleteConfigMap

Next ==
    \/ WorkerStep \/ CallFails \/ Crash \/ SyncConfigMaps \/ OutsideStep
    \/ \E k \in Kinds : SyncChild(k) \/ Rollout(k)
    \/ \E r \in ScaleRange : HPABounds(r)
    \/ \E s \in SpecChoices : UserEdit(s)

Spec == Init /\ [][Next]_vars

\* The worker takes its next call, the informers catch up, and the cluster's
\* controllers do their part.
FairSpec ==
    /\ Spec
    /\ WF_vars(WorkerStep) /\ WF_vars(SyncConfigMaps)
    /\ \A k \in Kinds : WF_vars(SyncChild(k)) /\ WF_vars(Rollout(k))
    /\ \A r \in ScaleRange : WF_vars(HPABounds(r))

-----------------------------------------------------------------------------
(* Properties. *)

\* Nothing is under way: no key, no reconcile, no event to come.
Quiet ==
    /\ pc = "idle" /\ ~queued /\ events = {}
    /\ configsSeen = configs /\ \A k \in Kinds : seen[k] = View(kids[k])

\* When nothing is under way the children are what the spec asks for: no toggle,
\* rename, drift or failed step is left unrepaired (ensureDesiredState).
QuietMatches ==
    Quiet =>
       /\ \A k \in Kinds : (kids[k] # Nil) <=> (k \notin Optional \ spec.on)
       /\ kids["Deployment"].config = spec.config
       /\ "HPA" \notin spec.on => kids["Deployment"].replicas = spec.replicas

\* When nothing is under way, Ready says of the children what is true of them:
\* the last change of a status was not missed (EvaluateComputeReadiness).
QuietReady == Quiet => ready = Healthy(spec, kids)

\* When nothing is under way, no ConfigMap is left of a rename or a removal and
\* the one that is mounted exists (deleteStaleConfigMaps).
QuietConfigMaps == Quiet => configs = {spec.config} \ {Nil}

\* In the end the Application is Ready and stays so, with the children its spec
\* asks for and a replica count nobody fights over.
Settles ==
    <>[](/\ ready /\ Healthy(spec, kids)
         /\ kids["Deployment"].replicas \in
              IF "HPA" \in spec.on THEN ScaleRange ELSE {spec.replicas})

\* spec.replicas seeds the Deployment of an autoscaled Application, and from
\* then on the operator leaves the count alone (desiredDeployment).
SeedKept ==
    [][pc = "Deployment" /\ "HPA" \in app.on /\ kids["Deployment"] # Nil
         => kids'["Deployment"].replicas = kids["Deployment"].replicas]_vars

=============================================================================

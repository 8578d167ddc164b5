-------------------------- MODULE Workload_proofs ----------------------------
(***************************************************************************)
(* For any specs, ConfigMap names and numbers of edits and mishaps: when   *)
(* nothing is under way, the children are what the spec asks for and Ready *)
(* says what is true of them.                                              *)
(*                                                                         *)
(* The argument is that nothing wrong is ever forgotten.  Whatever differs *)
(* from the spec has a cause to be looked at again: the key is queued, an  *)
(* event is to come, or the reconcile under way has not got there yet.     *)
(***************************************************************************)
EXTENDS Workload, TLAPS

\* What the informers have not taken up yet, they have an event for.
LagNoticed ==
    /\ \A k \in Kinds : seen[k] # View(kids[k]) => k \in events
    /\ configsSeen # configs => "ConfigMap" \in events

\* A reconcile that works with an old spec is followed by another.
OldSpecNoticed == pc # "idle" /\ app # spec => queued

\* The steps of ensureDesiredState up to the one that applies child k.
UpTo(k) ==
    {"configMap", "staleConfigMaps", "Service"} \cup
    CASE k = "Service" -> {}
      [] k = "Deployment" -> {"Deployment"}
      [] k = "Ingress" -> {"Deployment", "Ingress"}
      [] k = "PDB" -> {"Deployment", "Ingress", "PDB"}
      [] OTHER -> {"Deployment", "Ingress", "PDB", "HPA"}

\* Child k, if it is there, is as spec s asks for.
AsAsked(s, k, o) ==
    /\ (o # Nil) <=> (k \notin Optional \ s.on)
    /\ k = "Deployment" =>
          /\ o.config = s.config
          /\ "HPA" \notin s.on => o.replicas = s.replicas

\* A child that is not as the spec asks for will be applied again.
ChildNoticed ==
    \A k \in Kinds :
       AsAsked(spec, k, kids[k]) \/ queued \/ k \in events \/ pc \in UpTo(k)

\* So will a ConfigMap that is missing, and one too many will be deleted.
ConfigNoticed ==
    /\ {spec.config} \ {Nil} \subseteq configs
       \/ queued \/ "ConfigMap" \in events \/ pc = "configMap"
    /\ configs \subseteq {spec.config}
       \/ queued \/ "ConfigMap" \in events \/ pc \in {"configMap", "staleConfigMaps"}

\* A Ready condition that is wrong will be computed again.
ReadyNoticed ==
    ready = Healthy(spec, kids) \/ queued \/ events # {} \/ pc # "idle"

Inv ==
    /\ TypeOK /\ LagNoticed /\ OldSpecNoticed
    /\ ChildNoticed /\ ConfigNoticed /\ ReadyNoticed

\* The objects a child may be.
Object(k) == IF k = "Deployment" THEN Deployment \cup {Nil} ELSE Deployment \cup Child \cup {Nil}

\* A write to the API server keeps the types.
LEMMA PutType ==
    ASSUME TypeOK, NEW k \in Kinds, NEW o \in Object(k), Put(k, o)
    PROVE  /\ kids' \in [Kinds -> Deployment \cup Child \cup {Nil}]
           /\ kids'["Deployment"] \in Deployment \cup {Nil}
           /\ configs' \subseteq Configs
           /\ events' \subseteq Kinds \cup {"ConfigMap"}
  BY DEF TypeOK, Put, Object, Kinds

\* So does a write to the ConfigMaps.
LEMMA PutConfigsType ==
    ASSUME TypeOK, NEW s \in SUBSET Configs, PutConfigs(s)
    PROVE  /\ kids' = kids /\ scalers' = scalers
           /\ configs' \subseteq Configs
           /\ events' \subseteq Kinds \cup {"ConfigMap"}
  BY DEF TypeOK, PutConfigs

\* What the worker reads of an object is a child's status.
LEMMA ViewType ==
    ASSUME TypeOK, NEW k \in Kinds
    PROVE  View(kids[k]) \in Child \cup {Nil}
  <1>1. kids[k] \in Deployment \cup Child \cup {Nil}
    BY DEF TypeOK
  <1>. QED
    BY <1>1 DEF View, Deployment, Child

\* A status report leaves an object an object.
LEMMA ReportType ==
    ASSUME TypeOK, NEW k \in Kinds, kids[k] # Nil, NEW b \in BOOLEAN
    PROVE  [kids[k] EXCEPT !.up = b] \in Object(k)
  <1>1. CASE kids[k] \in Deployment
    BY <1>1 DEF Object, Deployment
  <1>2. CASE kids[k] \in Child /\ k # "Deployment"
    BY <1>2 DEF Object, Child
  <1>. QED
    BY <1>1, <1>2 DEF TypeOK

\* A Deployment with another config or another count is a Deployment.
LEMMA RespecType ==
    ASSUME NEW d \in Deployment \cup {Nil}, NEW c \in Configs \cup {Nil}, NEW n \in Nat
    PROVE  Respec(d, c, n) \in Deployment
  BY DEF Respec, Deployment

\* A new child is a child.
LEMMA FreshType ==
    ASSUME NEW k \in Kinds
    PROVE  Fresh(k) \in Child
  BY DEF Fresh, Child

\* The worker's copy of the spec is a spec.
LEMMA CopyType ==
    ASSUME TypeOK, pc # "idle"
    PROVE  /\ app \in SpecChoices
           /\ app.config \in Configs \cup {Nil} /\ app.replicas \in Nat /\ app.on \subseteq Optional
  BY SpecAssumption DEF TypeOK, ApplicationSpec

\* Every child but the Deployment is applied, deleted or left as it is.
LEMMA ChildType ==
    ASSUME TypeOK, NEW k \in Kinds \ {"Deployment"}
    PROVE  (IF k \in Optional \ app.on THEN Nil
            ELSE IF kids[k] = Nil THEN Fresh(k) ELSE kids[k]) \in Object(k)
  BY FreshType DEF TypeOK, Object

\* The Application starts with no children.
LEMMA InitType == Init => TypeOK
  <1>. SUFFICES ASSUME Init PROVE TypeOK
    OBVIOUS
  <1>1. spec # Nil
    BY SpecAssumption, NilAssumption DEF Init
  <1>. QED
    BY <1>1, BoundAssumption DEF Init, TypeOK, PCs, Kinds

\* Every step of the worker, the informers and the others keeps the types.
LEMMA TypeStep == TypeOK /\ [Next]_vars => TypeOK'
  <1>. SUFFICES ASSUME TypeOK, [Next]_vars PROVE TypeOK'
    OBVIOUS
  <1>. USE DEF worker, cluster, informers, counters
  <1>1. CASE Reconcile
    <2>1. spec # Nil
      BY SpecAssumption, NilAssumption DEF TypeOK
    <2>. QED
      BY <1>1, <2>1 DEF Reconcile, TypeOK, PCs
  <1>2. CASE reconcileConfigMap
    <2>1. configs \cup ({app.config} \ {Nil}) \in SUBSET Configs
      BY <1>2, CopyType DEF reconcileConfigMap, TypeOK
    <2>. QED
      BY <1>2, <2>1, PutConfigsType DEF reconcileConfigMap, TypeOK, PCs
  <1>3. CASE deleteStaleConfigMaps
    <2>1. configs \ Stale \in SUBSET Configs
      BY DEF TypeOK
    <2>. QED
      BY <1>3, <2>1, PutConfigsType DEF deleteStaleConfigMaps, TypeOK, PCs
  <1>4. ASSUME NEW k \in Kinds \ {"Deployment"}, NEW next \in PCs \ {"idle"},
               ReconcileChild(k, next)
        PROVE  TypeOK'
    BY <1>4, ChildType, PutType DEF ReconcileChild, TypeOK, Kinds, Optional
  <1>5. CASE reconcileDeployment
    <2>1. pc = "Deployment" /\ kids["Deployment"] \in Deployment \cup {Nil}
      BY <1>5 DEF reconcileDeployment, TypeOK
    <2>2. \E o \in Object("Deployment") : Put("Deployment", o)
      <3>1. kids["Deployment"] # Nil => kids["Deployment"].replicas \in Nat
        BY <2>1 DEF Deployment
      <3>. QED
        BY <1>5, <2>1, <3>1, RespecType, CopyType
           DEF reconcileDeployment, ApplyReplicas, Object
    <2>3. scalers' \subseteq {"operator", "other"}
      BY <1>5 DEF reconcileDeployment, ApplyReplicas, TypeOK
    <2>. QED
      BY <1>5, <2>2, <2>3, PutType DEF reconcileDeployment, TypeOK, PCs, Kinds
  <1>6. CASE EvaluateComputeReadiness
    BY <1>6 DEF EvaluateComputeReadiness, Done, TypeOK, PCs, Healthy
  <1>7. CASE CallFails
    <2>1. UNCHANGED cluster \/ \E s \in SUBSET Configs : PutConfigs(s)
      BY <1>7 DEF CallFails, TypeOK
    <2>2. pc' \in PCs /\ app' = Nil /\ pc' = "idle" /\ queued' \in BOOLEAN /\ mishaps' \in Nat
      BY <1>7 DEF CallFails, Done, Mishap, TypeOK, PCs
    <2>3. UNCHANGED <<spec, ready, informers, edits>>
      BY <1>7 DEF CallFails
    <2>4. CASE UNCHANGED cluster
      BY <2>2, <2>3, <2>4 DEF TypeOK
    <2>5. CASE \E s \in SUBSET Configs : PutConfigs(s)
      BY <2>2, <2>3, <2>5, PutConfigsType DEF TypeOK
    <2>. QED
      BY <2>1, <2>4, <2>5
  <1>8. CASE Crash
    BY <1>8, ViewType DEF Crash, Done, Mishap, TypeOK, PCs
  <1>9. ASSUME NEW k \in Kinds, SyncChild(k)
        PROVE  TypeOK'
    BY <1>9, ViewType DEF SyncChild, TypeOK
  <1>10. CASE SyncConfigMaps
    BY <1>10 DEF SyncConfigMaps, TypeOK
  <1>11. ASSUME NEW s \in SpecChoices, UserEdit(s)
         PROVE  TypeOK'
    BY <1>11 DEF UserEdit, TypeOK
  <1>12. ASSUME NEW k \in Kinds, Rollout(k) \/ Breaks(k)
         PROVE  TypeOK'
    <2>1. \E o \in Object(k) : Put(k, o)
      BY <1>12, ReportType DEF Rollout, Breaks
    <2>. QED
      BY <1>12, <2>1, PutType DEF Rollout, Breaks, Mishap, TypeOK
  <1>13. ASSUME NEW r \in ScaleRange, HPABounds(r) \/ HPAScales(r) \/ OutsideScale(r)
         PROVE  TypeOK'
    <2>1. SetScale(r) /\ mishaps' \in Nat
      BY <1>13 DEF HPABounds, HPAScales, OutsideScale, Mishap, TypeOK
    <2>2. kids["Deployment"] \in Deployment /\ kids["Deployment"].config \in Configs \cup {Nil}
      BY <2>1 DEF SetScale, TypeOK, Deployment
    <2>3. \E o \in Object("Deployment") : Put("Deployment", o)
      BY <2>1, <2>2, RespecType, RangeAssumption DEF SetScale, Object
    <2>. QED
      BY <2>1, <2>3, PutType DEF SetScale, TypeOK, Kinds
  <1>14. ASSUME NEW k \in Kinds, OutsideDelete(k)
         PROVE  TypeOK'
    <2>1. Put(k, Nil) /\ Nil \in Object(k)
      BY <1>14 DEF OutsideDelete, Object
    <2>2. mishaps' \in Nat
      BY <1>14 DEF OutsideDelete, Mishap, TypeOK
    <2>3. scalers' \in {{}, scalers}
      BY <1>14, Zenon DEF OutsideDelete
    <2>4. UNCHANGED <<spec, queued, worker, ready, informers, edits>>
      BY <1>14 DEF OutsideDelete
    <2>. QED
      BY <2>1, <2>2, <2>3, <2>4, PutType DEF TypeOK
  <1>15. CASE OutsideDeleteConfigMap
    <2>1. \E s \in SUBSET Configs : PutConfigs(s)
      BY <1>15 DEF OutsideDeleteConfigMap, TypeOK
    <2>2. mishaps' \in Nat
      BY <1>15 DEF OutsideDeleteConfigMap, Mishap, TypeOK
    <2>3. UNCHANGED <<spec, queued, worker, ready, informers, edits>>
      BY <1>15 DEF OutsideDeleteConfigMap
    <2>. QED
      BY <2>1, <2>2, <2>3, PutConfigsType DEF TypeOK
  <1>16. CASE UNCHANGED vars
    BY <1>16 DEF vars, TypeOK
  <1>17. CASE reconcileService \/ reconcileIngress \/ reconcilePDB \/ reconcileHPA
    BY <1>17, <1>4 DEF reconcileService, reconcileIngress, reconcilePDB, reconcileHPA, PCs,
       Kinds, Optional
  <1>. QED
    BY <1>1, <1>2, <1>3, <1>5, <1>6, <1>7, <1>8, <1>9, <1>10, <1>11, <1>12, <1>13, <1>14,
       <1>15, <1>16, <1>17 DEF Next, WorkerStep, OutsideStep

\* The informer's copy and the event of child k after a step: the event is still
\* to come, or the copy is new and the event has woken the Application, or
\* nothing happened.
EventKept(k) ==
    \/ k \in events'
    \/ seen'[k] = View(kids'[k]) /\ (k \in events => queued')
    \/ k \notin events /\ seen'[k] = seen[k]

\* The same for the ConfigMaps.
ConfigEventKept ==
    \/ "ConfigMap" \in events'
    \/ configsSeen' = configs' /\ ("ConfigMap" \in events => queued')
    \/ "ConfigMap" \notin events /\ configsSeen' = configsSeen

\* No step changes anything in secret.
Noticed ==
    /\ \A k \in Kinds : (kids'[k] = kids[k] \/ k \in events') /\ EventKept(k)
    /\ configs' = configs \/ "ConfigMap" \in events'
    /\ ConfigEventKept
    /\ spec' = spec \/ queued'
    /\ queued => queued' \/ (pc' = "configMap" /\ app' = spec')

\* A write to the API server is noticed (Owns, ownedStatusOrGenerationChangedPredicate).
LEMMA PutNoticed ==
    ASSUME TypeOK, NEW k \in Kinds, NEW o, Put(k, o),
           UNCHANGED <<spec, queued, seen, configsSeen>>
    PROVE  Noticed
  BY DEF TypeOK, Put, Changed, Noticed, EventKept, ConfigEventKept

\* So is one to the ConfigMaps (ownedContentChangedPredicate).
LEMMA PutConfigsNoticed ==
    ASSUME TypeOK, NEW s, PutConfigs(s), queued => queued',
           UNCHANGED <<spec, seen, configsSeen>>
    PROVE  Noticed
  BY DEF TypeOK, PutConfigs, ConfigChanged, Noticed, EventKept, ConfigEventKept

\* Every step is noticed.
LEMMA StepNoticed == TypeOK /\ [Next]_vars => Noticed
  <1>. SUFFICES ASSUME TypeOK, [Next]_vars PROVE Noticed
    OBVIOUS
  <1>. USE DEF worker, cluster, informers, counters
  <1>1. CASE Reconcile \/ EvaluateComputeReadiness
    BY <1>1 DEF Reconcile, EvaluateComputeReadiness, Noticed, EventKept, ConfigEventKept
  <1>2. CASE reconcileConfigMap \/ deleteStaleConfigMaps \/ OutsideDeleteConfigMap
    <2>1. \E s : PutConfigs(s)
      BY <1>2 DEF reconcileConfigMap, deleteStaleConfigMaps, OutsideDeleteConfigMap
    <2>2. UNCHANGED <<spec, seen, configsSeen>> /\ (queued => queued')
      BY <1>2 DEF reconcileConfigMap, deleteStaleConfigMaps, OutsideDeleteConfigMap
    <2>. QED
      BY <2>1, <2>2, PutConfigsNoticed
  <1>3. CASE reconcileService \/ reconcileIngress \/ reconcilePDB \/ reconcileHPA
    BY <1>3, PutNoticed DEF reconcileService, reconcileIngress, reconcilePDB, reconcileHPA,
       ReconcileChild, Kinds, Optional
  <1>4. CASE reconcileDeployment
    <2>1. \E o : Put("Deployment", o)
      BY <1>4 DEF reconcileDeployment, ApplyReplicas
    <2>. QED
      BY <1>4, <2>1, PutNoticed DEF reconcileDeployment, Kinds
  <1>5. CASE Crash
    BY <1>5 DEF Crash, Noticed, EventKept, ConfigEventKept, TypeOK
  <1>6. ASSUME NEW k \in Kinds, SyncChild(k)
        PROVE  Noticed
    <2>1. \A j \in Kinds : EventKept(j)
      BY <1>6 DEF SyncChild, EventKept, TypeOK
    <2>2. ConfigEventKept
      BY <1>6 DEF SyncChild, ConfigEventKept, Kinds, Optional
    <2>. QED
      BY <1>6, <2>1, <2>2 DEF SyncChild, Noticed
  <1>7. CASE SyncConfigMaps
    <2>1. \A j \in Kinds : EventKept(j)
      BY <1>7 DEF SyncConfigMaps, EventKept, Kinds, Optional
    <2>2. ConfigEventKept
      BY <1>7 DEF SyncConfigMaps, ConfigEventKept
    <2>. QED
      BY <1>7, <2>1, <2>2 DEF SyncConfigMaps, Noticed
  <1>8. ASSUME NEW s \in SpecChoices, UserEdit(s)
        PROVE  Noticed
    BY <1>8 DEF UserEdit, Noticed, EventKept, ConfigEventKept
  <1>9. ASSUME NEW k \in Kinds, Rollout(k) \/ Breaks(k) \/ OutsideDelete(k)
        PROVE  Noticed
    <2>1. \E o : Put(k, o)
      BY <1>9, Zenon DEF Rollout, Breaks, OutsideDelete
    <2>2. UNCHANGED <<spec, queued, seen, configsSeen>>
      BY <1>9 DEF Rollout, Breaks, OutsideDelete
    <2>. QED
      BY <2>1, <2>2, PutNoticed
  <1>10. ASSUME NEW r \in ScaleRange, HPABounds(r) \/ HPAScales(r) \/ OutsideScale(r)
         PROVE  Noticed
    BY <1>10, PutNoticed DEF HPABounds, HPAScales, OutsideScale, SetScale, Kinds
  <1>11. CASE UNCHANGED vars
    BY <1>11 DEF vars, Noticed, EventKept, ConfigEventKept
  <1>12. CASE CallFails
    <2>1. CASE UNCHANGED cluster
      BY <1>12, <2>1 DEF CallFails, Noticed, EventKept, ConfigEventKept
    <2>2. CASE \E gone \in SUBSET Stale : PutConfigs(configs \ gone)
      BY <1>12, <2>2, PutConfigsNoticed DEF CallFails
    <2>. QED
      BY <1>12, <2>1, <2>2 DEF CallFails
  <1>. QED
    BY <1>1, <1>2, <1>3, <1>4, <1>5, <1>6, <1>7, <1>8, <1>9, <1>10, <1>11, <1>12
       DEF Next, WorkerStep, OutsideStep

\* ensureDesiredState calls its steps in order; only a failure, which brings the
\* key back, leaves one out.
Order ==
    \/ pc' = pc /\ app' = app
    \/ pc' = "idle" /\ (queued' \/ pc = "evaluate")
    \/ pc = "idle" /\ pc' = "configMap" /\ app' = spec
    \/ app' = app /\ <<pc, pc'>> \in
         {<<"configMap", "staleConfigMaps">>, <<"staleConfigMaps", "Service">>,
          <<"Service", "Deployment">>, <<"Deployment", "Ingress">>, <<"Ingress", "PDB">>,
          <<"PDB", "HPA">>, <<"HPA", "evaluate">>}

\* What the step at pc leaves behind.
Applied ==
    /\ \A k \in Kinds : pc = k /\ pc' \notin {k, "idle"} => AsAsked(app, k, kids'[k])
    /\ pc = "configMap" /\ pc' \notin {"configMap", "idle"} => {app.config} \ {Nil} \subseteq configs'
    /\ pc = "staleConfigMaps" /\ pc' \notin {"staleConfigMaps", "idle"} =>
          /\ configs' = configs \ (configsSeen \ {app.config})
          /\ configsSeen' = configsSeen
    /\ pc = "evaluate" /\ pc' # "evaluate" =>
          queued' \/ (ready' = Healthy(app, seen) /\ UNCHANGED <<kids, seen>>)
    /\ pc' = "idle" /\ pc # "evaluate" => queued' \/ ready' = ready

\* A reconcile step applies what its copy of the spec asks for.
LEMMA ChildApplied ==
    ASSUME TypeOK, NEW k \in Kinds \ {"Deployment"}, NEW next, ReconcileChild(k, next)
    PROVE  AsAsked(app, k, kids'[k])
  <1>1. Fresh(k) # Nil
    BY FreshType, NilAssumption
  <1>. QED
    BY <1>1 DEF ReconcileChild, Put, AsAsked, TypeOK

\* The Deployment has the spec's config, and its count when no HPA is asked for
\* (desiredDeployment).
LEMMA DeploymentApplied ==
    ASSUME TypeOK, reconcileDeployment
    PROVE  AsAsked(app, "Deployment", kids'["Deployment"])
  <1>1. kids["Deployment"] \in Deployment \cup {Nil}
    BY DEF TypeOK
  <1>2. app.config \in Configs \cup {Nil} /\ app.replicas \in Nat
    BY CopyType DEF reconcileDeployment
  <1>3. PICK n \in Nat : /\ kids'["Deployment"] = Respec(kids["Deployment"], app.config, n)
                         /\ "HPA" \notin app.on => n = app.replicas
    <2>1. kids["Deployment"] # Nil => kids["Deployment"].replicas \in Nat
      BY <1>1 DEF Deployment
    <2>. QED
      BY <1>2, <2>1 DEF reconcileDeployment, ApplyReplicas, DesiredReplicas, Put, TypeOK, Kinds
  <1>4. Respec(kids["Deployment"], app.config, n).config = app.config
        /\ Respec(kids["Deployment"], app.config, n).replicas = n
    BY DEF Respec
  <1>5. kids'["Deployment"] # Nil
    BY <1>1, <1>2, <1>3, RespecType, NilAssumption
  <1>. QED
    BY <1>3, <1>4, <1>5 DEF AsAsked, Optional

\* Every step is one of ensureDesiredState's, or leaves the worker alone.
LEMMA WorkerSteps == TypeOK /\ [Next]_vars => Order /\ Applied
  <1>. SUFFICES ASSUME TypeOK, [Next]_vars PROVE Order /\ Applied
    OBVIOUS
  <1>. USE DEF worker, cluster, informers, counters
  <1>1. CASE Reconcile
    BY <1>1 DEF Reconcile, Order, Applied, Kinds, Optional
  <1>2. CASE reconcileConfigMap
    BY <1>2 DEF reconcileConfigMap, PutConfigs, Order, Applied, Kinds, Optional
  <1>3. CASE deleteStaleConfigMaps
    BY <1>3 DEF deleteStaleConfigMaps, PutConfigs, Stale, Order, Applied, Kinds, Optional
  <1>4. CASE reconcileService
    BY <1>4, ChildApplied DEF reconcileService, ReconcileChild, Order, Applied, Kinds, Optional
  <1>5. CASE reconcileIngress
    BY <1>5, ChildApplied DEF reconcileIngress, ReconcileChild, Order, Applied, Kinds, Optional
  <1>6. CASE reconcilePDB
    BY <1>6, ChildApplied DEF reconcilePDB, ReconcileChild, Order, Applied, Kinds, Optional
  <1>7. CASE reconcileHPA
    BY <1>7, ChildApplied DEF reconcileHPA, ReconcileChild, Order, Applied, Kinds, Optional
  <1>8. CASE reconcileDeployment
    BY <1>8, DeploymentApplied DEF reconcileDeployment, Order, Applied, Kinds, Optional
  <1>9. CASE EvaluateComputeReadiness
    BY <1>9 DEF EvaluateComputeReadiness, Done, Order, Applied, Kinds, Optional
  <1>10. CASE CallFails \/ Crash
    BY <1>10 DEF CallFails, Crash, Done, Order, Applied, Kinds, Optional
  <1>11. ASSUME UNCHANGED <<pc, app, ready>>
         PROVE  Order /\ Applied
    BY <1>11 DEF Order, Applied
  <1>12. ASSUME NEW k \in Kinds,
                SyncChild(k) \/ Rollout(k) \/ Breaks(k) \/ OutsideDelete(k)
         PROVE  UNCHANGED <<pc, app, ready>>
    BY <1>12 DEF SyncChild, Rollout, Breaks, OutsideDelete
  <1>13. ASSUME NEW r \in ScaleRange, HPABounds(r) \/ HPAScales(r) \/ OutsideScale(r)
         PROVE  UNCHANGED <<pc, app, ready>>
    BY <1>13 DEF HPABounds, HPAScales, OutsideScale, SetScale
  <1>14. ASSUME SyncConfigMaps \/ OutsideDeleteConfigMap \/ (\E s \in SpecChoices : UserEdit(s))
                \/ UNCHANGED vars
         PROVE  UNCHANGED <<pc, app, ready>>
    BY <1>14 DEF SyncConfigMaps, OutsideDeleteConfigMap, UserEdit, vars
  <1>. QED
    BY <1>1, <1>2, <1>3, <1>4, <1>5, <1>6, <1>7, <1>8, <1>9, <1>10, <1>11, <1>12, <1>13, <1>14
       DEF Next, WorkerStep, OutsideStep

\* Before the first reconcile everything is still to be done, and queued.
LEMMA InitInv == Init => Inv
  <1>. SUFFICES ASSUME Init PROVE Inv
    OBVIOUS
  <1>1. TypeOK
    BY InitType
  <1>. QED
    BY <1>1 DEF Init, Inv, LagNoticed, OldSpecNoticed, ChildNoticed, ConfigNoticed,
       ReadyNoticed, View

\* What the informers report of the children says whether they are healthy.
LEMMA ViewHealthy ==
    ASSUME TypeOK, NEW s \in SpecChoices, \A k \in Kinds : seen[k] = View(kids[k])
    PROVE  Healthy(s, seen) = Healthy(s, kids)
  <1>1. s.on \subseteq Optional
    BY SpecAssumption DEF ApplicationSpec
  <1>2. \A k \in Kinds : (seen[k] # Nil /\ seen[k].up) <=> (kids[k] # Nil /\ kids[k].up)
    <2>. SUFFICES ASSUME NEW k \in Kinds
                  PROVE  (seen[k] # Nil /\ seen[k].up) <=> (kids[k] # Nil /\ kids[k].up)
      OBVIOUS
    <2>1. CASE kids[k] = Nil
      BY <2>1 DEF View
    <2>2. CASE kids[k] # Nil
      <3>1. seen[k] = [up |-> kids[k].up] /\ kids[k].up \in BOOLEAN
        BY <2>2 DEF View, TypeOK, Deployment, Child
      <3>2. seen[k] # Nil
        BY <3>1, NilAssumption DEF Child
      <3>. QED
        BY <2>2, <3>1, <3>2
    <2>. QED
      BY <2>1, <2>2
  <1>3. {"Service", "Deployment"} \cup s.on \subseteq Kinds
    BY <1>1 DEF Kinds
  <1>. QED
    BY <1>2, <1>3 DEF Healthy

\* No step forgets what is wrong.
LEMMA InvStep == Inv /\ [Next]_vars => Inv'
  <1>. SUFFICES ASSUME Inv, [Next]_vars PROVE Inv'
    OBVIOUS
  <1>1. TypeOK /\ TypeOK'
    BY TypeStep DEF Inv
  <1>2. Noticed
    BY <1>1, StepNoticed
  <1>3. Order /\ Applied
    BY <1>1, WorkerSteps
  <1>4. LagNoticed'
    BY <1>2 DEF Inv, LagNoticed, Noticed, EventKept, ConfigEventKept
  <1>5. OldSpecNoticed'
    BY <1>2, <1>3 DEF Inv, OldSpecNoticed, Noticed, Order
  <1>6. ChildNoticed'
    <2>. SUFFICES ASSUME NEW k \in Kinds, ~queued', k \notin events', pc' \notin UpTo(k)
                  PROVE  AsAsked(spec', k, kids'[k])
      BY DEF ChildNoticed, UpTo
    <2>1. kids'[k] = kids[k] /\ spec' = spec /\ k \notin events
      BY <1>2 DEF Noticed, EventKept, Inv, LagNoticed
    <2>2. ~queued
      BY <1>2 DEF Noticed, UpTo
    <2>3. CASE pc \notin UpTo(k)
      BY <2>1, <2>2, <2>3 DEF Inv, ChildNoticed
    <2>4. CASE pc \in UpTo(k)
      <3>1. pc = k /\ pc' \notin {k, "idle"}
        BY <1>3, <2>4 DEF Order, UpTo, Kinds, Optional
      <3>2. app = spec
        BY <2>2, <2>4 DEF Inv, OldSpecNoticed, UpTo
      <3>. QED
        BY <1>3, <2>1, <3>1, <3>2 DEF Applied
    <2>. QED
      BY <2>3, <2>4
  <1>7. ConfigNoticed'
    <2>. SUFFICES ASSUME ~queued', "ConfigMap" \notin events', pc' # "configMap"
                  PROVE  /\ {spec'.config} \ {Nil} \subseteq configs'
                         /\ pc' # "staleConfigMaps" => configs' \subseteq {spec'.config}
      BY DEF ConfigNoticed
    <2>1. configs' = configs /\ spec' = spec /\ "ConfigMap" \notin events /\ ~queued
      BY <1>2 DEF Noticed, ConfigEventKept
    <2>2. pc # "idle" => app = spec
      BY <2>1 DEF Inv, OldSpecNoticed
    <2>3. {spec.config} \ {Nil} \subseteq configs'
      <3>1. CASE pc = "configMap"
        BY <1>3, <2>2, <3>1 DEF Applied, Order
      <3>. QED
        BY <2>1, <3>1 DEF Inv, ConfigNoticed
    <2>4. ASSUME pc' # "staleConfigMaps"
          PROVE  configs' \subseteq {spec.config}
      <3>1. CASE pc \notin {"configMap", "staleConfigMaps"}
        BY <2>1, <3>1 DEF Inv, ConfigNoticed
      <3>2. pc # "configMap"
        BY <1>3, <2>4 DEF Order
      <3>3. CASE pc = "staleConfigMaps"
        <4>1. configs' = configs \ (configsSeen \ {spec.config})
          BY <1>3, <2>2, <2>4, <3>3 DEF Applied, Order
        <4>2. configsSeen = configs
          BY <2>1 DEF Inv, LagNoticed
        <4>. QED
          BY <4>1, <4>2
      <3>. QED
        BY <3>1, <3>2, <3>3
    <2>. QED
      BY <2>1, <2>3, <2>4
  <1>8. ReadyNoticed'
    <2>. SUFFICES ASSUME ~queued', events' = {}, pc' = "idle"
                  PROVE  ready' = Healthy(spec', kids')
      BY DEF ReadyNoticed
    <2>1. spec' = spec /\ ~queued /\ \A k \in Kinds : kids'[k] = kids[k]
      BY <1>2 DEF Noticed
    <2>2. events = {}
      BY <1>1, <1>2 DEF Noticed, EventKept, ConfigEventKept, TypeOK
    <2>3. kids' = kids
      BY <1>1, <2>1 DEF TypeOK
    <2>4. CASE pc = "evaluate"
      <3>1. ready' = Healthy(spec, seen)
        BY <1>3, <2>1, <2>4 DEF Applied, Inv, OldSpecNoticed
      <3>2. Healthy(spec, seen) = Healthy(spec, kids)
        BY <1>1, <2>2, ViewHealthy DEF Inv, LagNoticed, TypeOK
      <3>. QED
        BY <2>1, <2>3, <3>1, <3>2
    <2>5. CASE pc # "evaluate"
      <3>1. pc = "idle" /\ ready' = ready
        BY <1>3, <2>5 DEF Order, Applied
      <3>. QED
        BY <2>1, <2>2, <2>3, <3>1 DEF Inv, ReadyNoticed
    <2>. QED
      BY <2>4, <2>5
  <1>. QED
    BY <1>1, <1>4, <1>5, <1>6, <1>7, <1>8 DEF Inv

\* The types hold for any specs, ConfigMaps, scales and bounds.
THEOREM WorkloadTypes == Spec => []TypeOK
  BY InitType, TypeStep, PTL DEF Spec

\* Whatever is wrong with the children or with Ready will be looked at again.
THEOREM WorkloadInvariance == Spec => []Inv
  BY InitInv, InvStep, PTL DEF Spec

\* When nothing is under way the children are what the spec asks for, whatever
\* was edited, deleted, scaled or failed before (ensureDesiredState, Owns).
THEOREM ChildrenMatch == Spec => []QuietMatches
  <1>1. Inv => QuietMatches
    <2>. SUFFICES ASSUME Inv, Quiet
                  PROVE  \A k \in Kinds : AsAsked(spec, k, kids[k])
      BY DEF QuietMatches, AsAsked, Kinds
    <2>. QED
      BY DEF Inv, ChildNoticed, Quiet, UpTo
  <1>. QED
    BY <1>1, WorkloadInvariance, PTL

\* When nothing is under way, exactly the ConfigMap the spec names is left, for
\* all that deleteStaleConfigMaps works from an informer's list.
THEOREM ConfigMapsMatch == Spec => []QuietConfigMaps
  <1>1. Inv => QuietConfigMaps
    BY NilAssumption DEF Inv, TypeOK, ConfigNoticed, Quiet, QuietConfigMaps
  <1>. QED
    BY <1>1, WorkloadInvariance, PTL

\* When nothing is under way Ready is true exactly of healthy children, for all
\* that EvaluateComputeReadiness reads the informers' copies.
THEOREM ReadyHonest == Spec => []QuietReady
  <1>1. Inv => QuietReady
    BY DEF Inv, ReadyNoticed, Quiet, QuietReady
  <1>. QED
    BY <1>1, WorkloadInvariance, PTL
=============================================================================

------------------------------ MODULE Observer ------------------------------
(***************************************************************************)
(* internal/observer: what the operator sees of a target in the cluster.   *)
(*                                                                         *)
(* The cluster is a record                                                 *)
(*   service   the port set of the target Service, or Nil               *)
(*   workload  the workload object with the target's name, or Nil       *)
(*   http      what each declared endpoint answers (see Compliance)        *)
(* A target is a record                                                    *)
(*   service   whether spec.target.serviceName is set                      *)
(*   ref       the kind of spec.target.workloadRef, or Nil when unset      *)
(* Names are abstracted away: the cluster holds the objects the target     *)
(* names, and an object of another kind is not found under that name.      *)
(***************************************************************************)
EXTENDS Naturals, Sequences

CONSTANT Nil   \* a nil pointer, an empty string, an object that is not found

Kinds == {"Deployment", "StatefulSet", "ReplicaSet", "Job", "CronJob"}

\* Pacto.IsReference: neither a service nor a workload is named.
IsReference(target) == ~target.service /\ target.ref = Nil

\* The kind half of Pacto.ResolvedWorkload; the name is the target's.
ResolvedWorkload(target) == IF target.ref # Nil THEN target.ref ELSE "Deployment"

\* A plausible slip: a StatefulSet's volumeClaimTemplates are ignored.
extractVolumesIgnoringTemplates(w) == w.volumes

\* The volume kinds a workload uses.  A StatefulSet's volumeClaimTemplates
\* are claims too, although its pod template lists no volume for them.
extractVolumes(w) ==
    w.volumes \cup IF w.kind = "StatefulSet" /\ w.claimTemplates THEN {"pvc"} ELSE {}

\* The initial delay of the first container's readiness probe, else of its
\* liveness probe, else nil.
extractProbeDelay(w) ==
    IF w.readinessDelay # Nil THEN w.readinessDelay ELSE w.livenessDelay

\* The fields of a snapshot whose workload was not found.
NoWorkload ==
    [deploymentStrategy |-> Nil, podManagementPolicy |-> Nil,
     terminationGracePeriod |-> Nil, containerImages |-> << >>,
     volumes |-> {}, healthProbeInitialDelay |-> Nil]

\* observeDeployment ... observeCronJob with extractPodTemplateInfo.
observeWorkload(w) ==
    [deploymentStrategy      |-> IF w.kind = "Deployment" THEN w.strategy ELSE Nil,
     podManagementPolicy     |-> IF w.kind = "StatefulSet" THEN w.policy ELSE Nil,
     terminationGracePeriod  |-> w.grace,
     containerImages         |-> w.images,
     volumes                 |-> extractVolumes(w),
     healthProbeInitialDelay |-> extractProbeDelay(w)]

\* Observe without an API error: a missing object is a fact, not an error.
\* The workload is read with the resolved kind, so an object of another kind
\* does not count.  Errors are the caller's business (PactoController).
Observe(target, cluster) ==
    LET kind  == ResolvedWorkload(target)
        found == cluster.workload # Nil /\ cluster.workload.kind = kind
        svc   == target.service /\ cluster.service # Nil
    IN  [serviceExists  |-> svc,
         servicePorts   |-> IF svc THEN cluster.service ELSE {},
         workloadExists |-> found,
         workloadKind   |-> kind,
         pod            |-> IF found THEN observeWorkload(cluster.workload)
                                     ELSE NoWorkload]
=============================================================================

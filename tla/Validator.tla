----------------------------- MODULE Validator ------------------------------
(***************************************************************************)
(* internal/validator: the pure comparison of a contract with a snapshot.  *)
(*                                                                         *)
(* A contract is a record                                                  *)
(*   ports     the ports its interfaces declare                            *)
(*   image     the declared image reference, or Nil                        *)
(*   runtime   the runtime section, or Nil; a record                       *)
(*     workload, stateType, durability, strategy, grace, healthDelay       *)
(*     health, metrics   the endpoint sections (see Compliance)            *)
(*   readiness the declared readiness (see Compliance)                     *)
(* An image reference is a record host, user, name, tag, digest, a missing *)
(* part being Nil: "nginx" has neither host nor user, "ghcr.io/a/b:1" has  *)
(* host, user, name and tag.                                               *)
(***************************************************************************)
EXTENDS Observer

Check(n, p, s) == [name |-> n, passed |-> p, severity |-> s]

\* ----- images -----------------------------------------------------------

\* A short Docker Hub name gets its host and, without a user, "library".  A
\* reference that names its host is left as it is.
normalizeImageRef(i) ==
    IF i.host # Nil THEN i
    ELSE [i EXCEPT !.host = "docker.io",
                   !.user = IF i.user = Nil THEN "library" ELSE i.user]

\* What imageMatches compares an untagged expectation with: everything from
\* the '@' on is cut when there is a digest, otherwise the tag is cut.
repositoryPart(i) == IF i.digest # Nil THEN [i EXCEPT !.digest = Nil]
                                       ELSE [i EXCEPT !.tag = Nil]

\* A tag that differs is tolerated although the contract pins one.
imageMatchesAnyTag(expected, actual) ==
    repositoryPart(normalizeImageRef(expected)) = repositoryPart(normalizeImageRef(actual))

imageMatches(expected, actual) ==
    LET e == normalizeImageRef(expected)
        a == normalizeImageRef(actual)
    IN  \/ e = a
        \/ e.tag = Nil /\ e.digest = Nil /\ e = repositoryPart(a)

\* ----- the checks -------------------------------------------------------

checkServiceExists(snap)  == Check("ServiceExists", snap.serviceExists, "error")
checkWorkloadExists(snap) == Check("WorkloadExists", snap.workloadExists, "error")

\* The comparison turned around: every observed port must be declared.
checkPortsReversed(c, snap) == Check("PortsValid", snap.servicePorts \subseteq c.ports, "error")

\* Unexpected ports are reported, and only a missing one fails the check.
checkPorts(c, snap) == Check("PortsValid", c.ports \subseteq snap.servicePorts, "error")

checkWorkloadType(c, snap) ==
    Check("WorkloadTypeMatch",
          snap.workloadKind \in
              CASE c.runtime.workload = "service"   -> {"Deployment", "StatefulSet"}
                [] c.runtime.workload = "job"       -> {"Job"}
                [] c.runtime.workload = "scheduled" -> {"CronJob"}
                [] OTHER                            -> {},
          "error")

\* Stateful contracts need a StatefulSet and, when persistent, a claim;
\* persistent hybrids need a claim; a stateless one must not have a claim,
\* and that failure alone is a warning.
checkStateModel(c, snap) ==
    LET state  == c.runtime.stateType
        hasPVC == "pvc" \in snap.pod.volumes
        unmet  == c.runtime.durability = "persistent" /\ ~hasPVC
        failed == CASE state = "stateful"  -> snap.workloadKind # "StatefulSet" \/ unmet
                    [] state = "stateless" -> hasPVC
                    [] state = "hybrid"    -> unmet
                    [] OTHER               -> FALSE
    IN  Check("StateModelMatch", ~failed,
              IF failed /\ state = "stateless" THEN "warning" ELSE "error")

\* A workload that has neither a strategy nor a policy is skipped as passed.
checkUpgradeStrategy(c, snap) ==
    LET actual == IF snap.pod.deploymentStrategy # Nil THEN snap.pod.deploymentStrategy
                                                       ELSE snap.pod.podManagementPolicy
        wanted == CASE c.runtime.strategy = "rolling"  -> "RollingUpdate"
                    [] c.runtime.strategy = "recreate" -> "Recreate"
                    [] c.runtime.strategy = "ordered"  -> "OrderedReady"
                    [] OTHER                           -> "unknown"
    IN  Check("UpgradeStrategyMatch", actual = Nil \/ actual = wanted, "warning")

checkGracefulShutdown(c, snap) ==
    Check("GracefulShutdownMatch", snap.pod.terminationGracePeriod = c.runtime.grace, "warning")

\* Only the first container is compared.
checkImage(c, snap) ==
    Check("ImageMatch",
          /\ snap.pod.containerImages # << >>
          /\ imageMatches(c.image, Head(snap.pod.containerImages)),
          "error")

checkHealthTiming(c, snap) ==
    Check("HealthTimingMatch",
          snap.pod.healthProbeInitialDelay = c.runtime.healthDelay, "warning")

\* Validate: which checks run at all depends on what the target names, on
\* what exists and on what the contract declares.
Validate(c, snap, hasService) ==
    LET runtime == snap.workloadExists /\ c.runtime # Nil
    IN  {checkWorkloadExists(snap)}
        \cup (IF hasService THEN {checkServiceExists(snap)} ELSE {})
        \cup (IF hasService /\ snap.serviceExists THEN {checkPorts(c, snap)} ELSE {})
        \cup (IF ~runtime THEN {} ELSE
                {checkWorkloadType(c, snap), checkStateModel(c, snap)}
                \cup (IF c.runtime.strategy # Nil THEN {checkUpgradeStrategy(c, snap)} ELSE {})
                \cup (IF c.runtime.grace # Nil THEN {checkGracefulShutdown(c, snap)} ELSE {})
                \cup (IF c.image # Nil THEN {checkImage(c, snap)} ELSE {})
                \cup (IF c.runtime.healthDelay # Nil THEN {checkHealthTiming(c, snap)} ELSE {}))
=============================================================================

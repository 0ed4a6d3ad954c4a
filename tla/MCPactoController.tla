------------------------- MODULE MCPactoController --------------------------
(***************************************************************************)
(* Instances of PactoController.                                           *)
(***************************************************************************)
EXTENDS PactoController

CONSTANT Repo   \* the one repository of the references

Latest == [repo |-> Repo, tag |-> FALSE, digest |-> FALSE]
Pinned == [repo |-> Repo, tag |-> TRUE, digest |-> TRUE]

Runtime == [workload |-> "service", stateType |-> "stateless", durability |-> "ephemeral",
            strategy |-> Nil, grace |-> Nil, healthDelay |-> Nil,
            health |-> "port", metrics |-> Nil]

\* Readiness that will lapse; one configuration.
Expiring == [ports |-> {80}, image |-> Nil, runtime |-> Runtime, readiness |-> "expiring",
             valid |-> TRUE, configs |-> {"db"}, overridden |-> {}]
\* No readiness section, no configuration.
Plain == [Expiring EXCEPT !.readiness = Nil, !.configs = {}]
\* Rejected by contract validation.
Invalid == [Plain EXCEPT !.valid = FALSE]

ToService == [service |-> TRUE, ref |-> Nil]
ToStatefulSet == [service |-> FALSE, ref |-> "StatefulSet"]
NoTarget == [service |-> FALSE, ref |-> Nil]

\* Overrides a configuration of Expiring; Plain has no such configuration.
Tuned == [oci |-> Latest, inline |-> Nil, pullSecret |-> FALSE,
          overrides |-> {"db"}, target |-> ToService]
\* The plain case: follow the latest tag, check a Service.
Serving == [Tuned EXCEPT !.overrides = {}]
\* Credentials from a Secret; reference only.
Private == [oci |-> Latest, inline |-> Nil, pullSecret |-> TRUE,
            overrides |-> {}, target |-> NoTarget]
\* The same, pinned by digest.
PrivateDigest == [Private EXCEPT !.oci = Pinned]
\* Inline contract, workload without a Service.
Inline == [oci |-> Nil, inline |-> Plain, pullSecret |-> FALSE,
           overrides |-> {}, target |-> ToStatefulSet]

Deployment == [kind |-> "Deployment", strategy |-> "RollingUpdate", policy |-> Nil,
               grace |-> 30, images |-> << >>, volumes |-> {}, claimTemplates |-> FALSE,
               readinessDelay |-> Nil, livenessDelay |-> Nil]
Up   == [reachable |-> TRUE, code |-> 200, body |-> TRUE]
Down == [reachable |-> FALSE, code |-> 0, body |-> FALSE]
Healthy == [service |-> {80}, workload |-> Deployment, http |-> [health |-> Up, metrics |-> Up]]
Ailing  == [Healthy EXCEPT !.http.health = Down]
Gone    == [Healthy EXCEPT !.service = Nil, !.workload = Nil]

ServingSpec   == {Serving}
DigestSpecs   == {Tuned, PrivateDigest, Inline}
TargetSpecs   == {Tuned, Private, Inline}
OneRef        == {Latest}
AllRefs       == {Latest, Pinned}
PlainContracts == {Plain, Invalid}
TwoContracts  == {Expiring, Plain}
OneCluster    == {Healthy}
TwoClusters   == {Healthy, Gone}
ProbeClusters == {Healthy, Ailing}
=============================================================================

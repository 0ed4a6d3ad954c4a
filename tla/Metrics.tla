------------------------------ MODULE Metrics -------------------------------
(***************************************************************************)
(* internal/metrics: the gauges of one Pacto and of the service its        *)
(* contract names.  A gauge is Nil until it is first recorded, and keeps   *)
(* its value until it is recorded again: nothing ever removes one.         *)
(*                                                                         *)
(* The status and readiness gauges carry the name of the Pacto, the        *)
(* validation gauges that of the service, which only a contract tells.     *)
(***************************************************************************)
EXTENDS Compliance

\* Nothing recorded yet: a new process.
NoGauges ==
    [status     |-> [s \in ContractStatuses |-> Nil],  \* pacto_contract_status
     compliance |-> Nil,                               \* ..._compliance_status
     errors     |-> Nil, warnings |-> Nil,             \* ..._validation_errors, _warnings
     results    |-> [t \in ConditionTypes |-> Nil],    \* ..._validation_result
     gate       |-> Nil]                               \* pacto_readiness_gate

bit(b) == IF b THEN 1 ELSE 0

RecordContractStatus(g, status) ==
    [g EXCEPT !.status = [s \in ContractStatuses |-> bit(s = status)]]

\* The mistake of leaving warnings out of the compliance gauge.
RecordErrorsOnly(g, checks) ==
    LET errors == {k \in FailedOf(checks) : k.severity = "error"}
    IN  [g EXCEPT !.compliance = bit(errors = {}),
                  !.errors = Cardinality(errors),
                  !.warnings = Cardinality(FailedOf(checks) \ errors)]

\* Failures are counted by severity; any failure at all clears the compliance
\* gauge.  The result gauge of a check that is not run this time stays.
RecordValidation(g, checks) ==
    LET errors == {k \in FailedOf(checks) : k.severity = "error"}
    IN  [g EXCEPT
           !.compliance = bit(FailedOf(checks) = {}),
           !.errors     = Cardinality(errors),
           !.warnings   = Cardinality(FailedOf(checks) \ errors),
           !.results    = [t \in ConditionTypes |->
                              IF \E k \in checks : k.name = t
                              THEN bit(\E k \in PassedOf(checks) : k.name = t)
                              ELSE @[t]]]

\* Called while readiness is evaluated; a contract without readiness leaves
\* the gauges of an earlier one alone.
RecordReadiness(g, s) == IF s.readiness = Nil THEN g ELSE [g EXCEPT !.gate = bit(s.readiness = "met")]

\* ----- what the reconciler records --------------------------------------

ContractValid(ok) == Check("ContractValid", ok, "error")

\* The end of failReconciliation.  Without a contract no service is known.
failMetrics(g, s, known) ==
    LET h == RecordContractStatus(g, s.contractStatus)
    IN  IF known THEN RecordValidation(h, {ContractValid(FALSE)}) ELSE h

\* The end of finishReconciliation.
finishMetrics(g, s, checks) ==
    RecordValidation(RecordContractStatus(g, s.contractStatus), checks)

\* The checks of a pass that could not observe the target.
unobservedChecks == {ContractValid(TRUE), Check("RuntimeObserved", FALSE, "error")}

\* allChecks of a pass that reached the runtime stage.
runtimeChecks(c, snap, hasService, http) ==
    {ContractValid(TRUE)} \cup Validate(c, snap, hasService)
    \cup (IF snap.serviceExists THEN probeChecks(c, http) ELSE {})
=============================================================================

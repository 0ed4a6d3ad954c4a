-------------------------- MODULE MCEventHandlers ---------------------------
(***************************************************************************)
(* Instances of EventHandlers.                                             *)
(***************************************************************************)
EXTENDS EventHandlers

ThreeObjects == {<<"Service", "a">>, <<"Workload", "b">>, <<"Secret", "s">>}

\* A Service, with credentials; a workload of another name.
Private  == [service |-> "a", workload |-> Nil, secret |-> "s"]
Workload == [service |-> Nil, workload |-> "b", secret |-> Nil]
TwoSpecs == {Private, Workload}
OneSpec  == {Private}
=============================================================================

---------------------------- MODULE MCDashboard -----------------------------
(***************************************************************************)
(* Instances of Dashboard.  A ClusterRoleBinding behaves as the Deployment *)
(* does, the other kinds as the ServiceAccount.                            *)
(***************************************************************************)
EXTENDS Dashboard

ThreeResources == <<"ServiceAccount", "Secret", "Deployment">>

V1 == [tag |-> "v1", digest |-> FALSE]
V2 == [tag |-> "v2", digest |-> FALSE]
Disabled == [enabled |-> FALSE, image |-> V1, resources |-> Nil, ociSecret |-> Nil,
             ociSecrets |-> << >>]
Plain == [Disabled EXCEPT !.enabled = TRUE]
WithSecret == [Plain EXCEPT !.ociSecret = "s1", !.image = V2]
\* Refused by Config.Validate.
Latest == [Plain EXCEPT !.image.tag = "latest"]

\* Credentials for one registry, and a Secret without a registry.
Usable == [docker |-> FALSE, auths |-> Nil, token |-> "t", username |-> Nil, password |-> Nil,
           registry |-> Host("ghcr.io")]
Unusable == [Usable EXCEPT !.registry = Nil]

AllConfigs == {Disabled, Plain, WithSecret, Latest}
TwoConfigs == {Disabled, Plain}
TwoSecrets == {Usable, Unusable}
OneSecret  == {Usable}
=============================================================================

--------------------------- MODULE CredentialUse ----------------------------
(***************************************************************************)
(* The two uses of internal/credentials: the controller resolves the pull  *)
(* secret of a Pacto for the reference it is about to pull, and the        *)
(* dashboard merges its source Secrets into one file.                      *)
(***************************************************************************)
EXTENDS Credentials

CONSTANTS
    PullSecrets,   \* what the name in pullSecretRef may yield; Nil: no Secret
    References,    \* the references to pull
    SourceLists,   \* the dashboard's Secrets, in the order of the configuration
    Hosts          \* the registries of interest, by their canonical names

\* Docker Hub's canonical name is index.docker.io; the records the code builds
\* are neither an empty value nor a failure.
ASSUME UseAssumption ==
    /\ "docker.io" \notin Hosts /\ Nil \notin References
    /\ \A l \in SourceLists : \A i \in DOMAIN l :
         [user |-> "_token", password |-> l[i].token] \notin {Nil, Bad}

VARIABLES
    sources,  \* the Secrets, in the order of the configuration
    ref,      \* the reference to pull, Nil when Secrets are merged
    auth,     \* what resolveOCIAuth returned, Nil before
    merged    \* what MergeToDockerConfigJSON returned, Nil before
vars == <<sources, ref, auth, merged>>

Init ==
    /\ auth = Nil /\ merged = Nil
    /\ \/ ref \in References /\ \E s \in PullSecrets : sources = <<s>>
       \/ ref = Nil /\ sources \in SourceLists

\* Step 3 of Reconcile.
Resolve ==
    /\ ref # Nil /\ auth = Nil
    /\ auth' \in resolveOCIAuth(sources[1], ref)
    /\ UNCHANGED <<sources, ref, merged>>

\* reconcileOCICredentials.
Merge ==
    /\ ref = Nil /\ merged = Nil
    /\ merged' \in MergeToDockerConfigJSON(sources)
    /\ UNCHANGED <<sources, ref, auth>>

Next == Resolve \/ Merge
Spec == Init /\ [][Next]_vars

\* ----- properties -------------------------------------------------------

SameRegistry(h, k) == h = k \/ {h, k} = {"docker.io", "index.docker.io"}

\* The entries of the pull secret for the registry the puller contacts.
Own == IF sources[1].auths = Nil THEN {}
       ELSE {a \in sources[1].auths : SameRegistry(a.key.host, contacted(ref))}

\* A pull with a dockerconfigjson Secret authenticates with the entry for the
\* registry it contacts, and fails exactly when there is none or the entry
\* holds no credentials, whichever way key and reference are spelled.  Two
\* things are excluded.  When several keys spell that registry, the property
\* asks for one of their entries and not for a certain one: the order of the
\* map decides (see ExactMatchFirst).  And an encoded reference is left out:
\* RegistryFromRef does not decode it, the loader does, and the entry used is
\* then Docker Hub's.
PullUsesItsRegistry ==
    auth # Nil /\ sources[1] # Nil /\ sources[1].docker /\ ~ref.encoded =>
        IF Own = {} THEN auth = Bad
        ELSE \E a \in Own : auth = entryToAuthConfig(a.entry)

\* A token is spelled as the password of user _token in the merged file.
AsBasic(c) == IF c # Bad /\ c.token # Nil THEN Basic("_token", c.token) ELSE c

\* The sources that name a registry.
Naming(h) ==
    {i \in DOMAIN sources :
        \E k \in IF sources[i].docker THEN {a.key : a \in sources[i].auths}
                 ELSE {sources[i].registry} : SameRegistry(k.host, h)}

\* The dashboard ends up with the credentials a Pacto's pull would use: what the
\* merged file holds for a host is what FromSecret answers for the last source
\* that names the host, be the entry usable or not.
MergeAgreesWithPull ==
    merged \notin {Nil, Bad} =>
      \A h \in Hosts :
        IF Naming(h) = {} THEN h \notin DOMAIN merged
        ELSE /\ h \in DOMAIN merged
             /\ \E i \in Naming(h) :
                  /\ \A j \in Naming(h) : j <= i
                  /\ \E c \in FromSecret(sources[i], Host(h)) :
                       entryToAuthConfig(merged[h]) = AsBasic(c)
\* ----- what the comments say and the code does not do -----------------------

\* resolve.go: an exact match of the host takes precedence over one with the
\* scheme stripped.  If the pull secret has a key spelled as the registry of
\* the reference is, the pull authenticates with that key's entry.
ExactMatchFirst ==
    auth # Nil /\ sources[1] # Nil /\ sources[1].docker /\ ~ref.encoded =>
        \A a \in Own : a.key = RegistryFromRef(ref) => auth = entryToAuthConfig(a.entry)
=============================================================================

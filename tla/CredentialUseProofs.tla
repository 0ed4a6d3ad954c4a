------------------------ MODULE CredentialUseProofs -------------------------
(***************************************************************************)
(* Theorems about CredentialUse, for all Secrets, references, registries   *)
(* and orders of a map.                                                    *)
(***************************************************************************)
EXTENDS CredentialUse, TLAPS

\* Nothing but the two calls assigns the results, and their inputs stay.
ResultsInv ==
    /\ auth # Nil => auth \in resolveOCIAuth(sources[1], ref)
    /\ merged # Nil => merged \in MergeToDockerConfigJSON(sources)
    /\ ref = Nil => sources \in SourceLists
    /\ merged # Nil => ref = Nil

\* What a step leaves in auth and merged is what the code computes from its inputs.
LEMMA ResultsInvariant == Spec => []ResultsInv
<1>1. Init => ResultsInv
  BY UseAssumption DEF Init, ResultsInv
<1>2. ResultsInv /\ [Next]_vars => ResultsInv'
  BY DEF ResultsInv, Next, Resolve, Merge, vars
<1> QED BY <1>1, <1>2, PTL DEF Spec

\* ----- one registry, several names --------------------------------------

\* normalizeRegistryHost decides whether a key names a registry.
LEMMA SameRegistryLemma ==
    ASSUME NEW r, NEW h, h # "docker.io"
    PROVE  SameRegistry(r.host, h) <=> normalizeRegistryHost(r) = h
BY DEF SameRegistry, normalizeRegistryHost, dockerHubHost

\* The host resolveOCIAuth looks up is the one the puller contacts, unless the
\* slashes of the reference are encoded.
LEMMA ContactedLemma ==
    ASSUME NEW r, ~r.encoded
    PROVE  /\ normalizeRegistryHost(RegistryFromRef(r)) = contacted(r)
           /\ contacted(r) # "docker.io"
BY DEF RegistryFromRef, contacted, normalizeRegistryHost, Host, dockerHubHost

\* ----- the pull ---------------------------------------------------------

\* The credentials of a pull are those of an entry for the registry it
\* contacts, or none, for every Secret and every reference that is not
\* encoded: fromDockerConfigJSON never falls back to another registry's entry.
\* With one key for the registry that determines them; with several, as
\* ExactMatchFirst shows, it does not.
THEOREM PullAlwaysUsesItsRegistry == Spec => []PullUsesItsRegistry
<1>1. ResultsInv => PullUsesItsRegistry
  <2> SUFFICES ASSUME ResultsInv, auth # Nil, sources[1] # Nil, sources[1].docker, ~ref.encoded
               PROVE  IF Own = {} THEN auth = Bad
                      ELSE \E a \in Own : auth = entryToAuthConfig(a.entry)
    BY DEF PullUsesItsRegistry
  <2> DEFINE s == sources[1]
             h == contacted(ref)
             entries == matchRegistry(s.auths, h)
  <2>1. auth \in fromDockerConfigJSON(s, h)
    BY ContactedLemma DEF ResultsInv, resolveOCIAuth, FromSecret
  <2>2. CASE s.auths = Nil
    BY <2>1, <2>2 DEF fromDockerConfigJSON, Own
  <2>3. CASE s.auths # Nil
    <3>1. Own = {a \in s.auths : normalizeRegistryHost(a.key) = h}
      BY <2>3, ContactedLemma, SameRegistryLemma DEF Own
    <3>2. entries = {a.entry : a \in Own}
      BY <3>1 DEF matchRegistry
    <3>3. auth \in IF entries = {} THEN {Bad} ELSE {entryToAuthConfig(e) : e \in entries}
      BY <2>1, <2>3 DEF fromDockerConfigJSON
    <3> HIDE DEF entries
    <3> QED BY <3>2, <3>3
  <2> QED BY <2>2, <2>3
<1> QED BY <1>1, ResultsInvariant, PTL

\* ----- the merge --------------------------------------------------------

\* A merge that succeeds keeps, for each host, an entry of the last Secret
\* that has one.
LEMMA MergedLemma ==
    ASSUME ResultsInv, merged \notin {Nil, Bad}
    PROVE  /\ \A i \in DOMAIN sources : mergeable(sources[i])
           /\ \A h : h \in DOMAIN merged <=> \E i \in DOMAIN sources : h \in HostsOf(sources[i])
           /\ \A h \in DOMAIN merged : \E i \in mergeLast(sources, h) :
                merged[h] \in entriesFor(sources[i], h)
<1> DEFINE hosts == UNION {HostsOf(sources[i]) : i \in DOMAIN sources}
           from(h) == UNION {entriesFor(sources[i], h) : i \in mergeLast(sources, h)}
<1>1. merged \in MergeToDockerConfigJSON(sources)
  BY DEF ResultsInv
<1>2. \A i \in DOMAIN sources : mergeable(sources[i])
  BY <1>1 DEF MergeToDockerConfigJSON
<1>3. merged \in {m \in [hosts -> UNION {from(h) : h \in hosts}] : \A h \in hosts : m[h] \in from(h)}
  BY <1>1, <1>2, Zenon DEF MergeToDockerConfigJSON
<1>4. DOMAIN merged = hosts /\ \A h \in hosts : merged[h] \in from(h)
  BY <1>3
<1> QED BY <1>2, <1>4

\* A source that can be merged names a registry exactly when it has a host
\* for it.
LEMMA NamingLemma ==
    ASSUME NEW h, h # "docker.io"
    PROVE  Naming(h) = {i \in DOMAIN sources : h \in HostsOf(sources[i])}
<1>1. ASSUME NEW i \in DOMAIN sources
      PROVE  i \in Naming(h) <=> h \in HostsOf(sources[i])
  <2>1. CASE sources[i].docker
    BY <2>1, SameRegistryLemma DEF Naming, HostsOf
  <2>2. CASE ~sources[i].docker
    BY <2>2, SameRegistryLemma DEF Naming, HostsOf
  <2> QED BY <2>1, <2>2
<1> QED BY <1>1 DEF Naming

\* The entry a Secret leaves for a host gives the credentials the Secret itself
\* gives for that host.
LEMMA EntryLemma ==
    ASSUME NEW s, mergeable(s), NEW h, h # "docker.io", NEW e \in entriesFor(s, h),
           [user |-> "_token", password |-> s.token] \notin {Nil, Bad}
    PROVE  \E c \in FromSecret(s, Host(h)) : entryToAuthConfig(e) = AsBasic(c)
<1>1. normalizeRegistryHost(Host(h)) = h
  BY DEF normalizeRegistryHost, Host
<1>2. CASE s.docker
  <2> DEFINE c == entryToAuthConfig(e)
  <2>1. e \in matchRegistry(s.auths, h) /\ s.auths # Nil
    BY <1>2 DEF entriesFor, mergeable
  <2>2. c \in FromSecret(s, Host(h))
    BY <1>1, <1>2, <2>1 DEF FromSecret, fromDockerConfigJSON
  <2>3. c = Bad \/ c.token = Nil
    BY DEF entryToAuthConfig, Basic
  <2>4. AsBasic(c) = c
    BY <2>3 DEF AsBasic
  <2> QED BY <2>2, <2>4
<1>3. CASE ~s.docker
  <2> DEFINE c == fromOpaque(s)
  <2>1. /\ c \in FromSecret(s, Host(h)) /\ c # Bad
        /\ e = [username |-> c.username, password |-> c.password, auth |-> encodeAuth(c)]
    BY <1>3 DEF FromSecret, entriesFor, mergeable
  <2>2. CASE s.token # Nil
    <3>1. c = Token(s.token)
      BY <2>2 DEF fromOpaque
    <3>2. /\ c.token = s.token /\ c.username = Nil
          /\ encodeAuth(c) = [user |-> "_token", password |-> s.token]
      BY <2>2, <3>1 DEF Token, encodeAuth
    <3> HIDE DEF c
    <3>3. entryToAuthConfig(e) = Basic("_token", s.token)
      BY <2>1, <3>2 DEF entryToAuthConfig
    <3>4. AsBasic(c) = Basic("_token", s.token)
      BY <2>1, <2>2, <3>2 DEF AsBasic
    <3> QED BY <2>1, <3>3, <3>4
  <2>3. CASE s.token = Nil
    <3>1. c = Basic(s.username, s.password) /\ s.username # Nil /\ s.password # Nil
      BY <2>1, <2>3 DEF fromOpaque
    <3>2. c.token = Nil /\ c.username = s.username /\ c.password = s.password
      BY <3>1 DEF Basic
    <3> HIDE DEF c
    <3>3. entryToAuthConfig(e) = Basic(s.username, s.password)
      BY <2>1, <3>1, <3>2 DEF entryToAuthConfig
    <3>4. AsBasic(c) = c
      BY <3>2 DEF AsBasic
    <3> QED BY <2>1, <3>1, <3>3, <3>4
  <2> QED BY <2>2, <2>3
<1> QED BY <1>2, <1>3

\* The dashboard's file holds, for every registry, the credentials a pull with
\* the last source naming it would use, and nothing for other registries: for
\* any number of sources in any order, with keys spelled in any way.
THEOREM MergeAlwaysAgreesWithPull == Spec => []MergeAgreesWithPull
<1>1. ResultsInv => MergeAgreesWithPull
  <2> SUFFICES ASSUME ResultsInv, merged \notin {Nil, Bad}, NEW h \in Hosts
               PROVE  IF Naming(h) = {} THEN h \notin DOMAIN merged
                      ELSE /\ h \in DOMAIN merged
                           /\ \E i \in Naming(h) :
                                /\ \A j \in Naming(h) : j <= i
                                /\ \E c \in FromSecret(sources[i], Host(h)) :
                                     entryToAuthConfig(merged[h]) = AsBasic(c)
    BY DEF MergeAgreesWithPull
  <2>1. h # "docker.io"
    BY UseAssumption
  <2>2. Naming(h) = {i \in DOMAIN sources : h \in HostsOf(sources[i])}
    BY <2>1, NamingLemma
  <2>3. CASE Naming(h) = {}
    BY <2>2, <2>3, MergedLemma
  <2>4. CASE Naming(h) # {}
    <3>1. h \in DOMAIN merged
      BY <2>2, <2>4, MergedLemma
    <3>2. PICK i \in mergeLast(sources, h) : merged[h] \in entriesFor(sources[i], h)
      BY <3>1, MergedLemma
    <3>3. i \in Naming(h) /\ \A j \in Naming(h) : j <= i
      BY <2>2, <3>2 DEF mergeLast
    <3>4. i \in DOMAIN sources /\ mergeable(sources[i])
      BY <3>2, MergedLemma DEF mergeLast
    <3>5. [user |-> "_token", password |-> sources[i].token] \notin {Nil, Bad}
      BY <3>4, UseAssumption DEF ResultsInv
    <3>6. \E c \in FromSecret(sources[i], Host(h)) : entryToAuthConfig(merged[h]) = AsBasic(c)
      BY <2>1, <3>2, <3>4, <3>5, EntryLemma
    <3> QED BY <2>4, <3>1, <3>3, <3>6
  <2> QED BY <2>3, <2>4
<1> QED BY <1>1, ResultsInvariant, PTL
=============================================================================

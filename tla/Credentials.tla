---------------------------- MODULE Credentials -----------------------------
(***************************************************************************)
(* internal/credentials: registry credentials out of Kubernetes Secrets.   *)
(*                                                                         *)
(* A Secret is a record                                                    *)
(*   docker    whether its type is kubernetes.io/dockerconfigjson          *)
(*   auths     its .dockerconfigjson: a set of records key, entry with     *)
(*             distinct keys, or Nil when the key is missing or malformed  *)
(*   token, username, password, registry   the keys of an opaque Secret    *)
(* A missing or empty value is Nil.  A registry is named by a record       *)
(* scheme, host, path ("https://ghcr.io/v2/" has all three).  An entry is  *)
(* a record username, password, auth; auth is what decoding it yields: Nil *)
(* when empty, Bad when it is no base64(user:password), or a record user,  *)
(* password.  Credentials are a record token, username, password.          *)
(*                                                                         *)
(* Go visits a map in no particular order: where the result depends on     *)
(* it, the operator returns the set of possible results.                   *)
(***************************************************************************)
EXTENDS Naturals, Sequences, FiniteSets

CONSTANTS
    Nil,
    Bad   \* an auth field that does not decode; the outcome of a failed call

dockerHubHost == "index.docker.io"

\* Hosts compared as they are spelled.
keepRegistryHost(r) == r.host

\* Scheme and path do not count, and Docker Hub has two names.
normalizeRegistryHost(r) == IF r.host = "docker.io" THEN dockerHubHost ELSE r.host

Basic(u, p) == [token |-> Nil, username |-> u, password |-> p]
Token(t) == [token |-> t, username |-> Nil, password |-> Nil]

\* The token wins over user name and password; half a pair is an error.
fromOpaque(secret) ==
    IF secret.token # Nil THEN Token(secret.token)
    ELSE IF secret.username # Nil /\ secret.password # Nil
    THEN Basic(secret.username, secret.password) ELSE Bad

\* Explicit fields win over the encoded pair.
entryToAuthConfig(entry) ==
    IF entry.username # Nil /\ entry.password # Nil
    THEN Basic(entry.username, entry.password)
    ELSE IF entry.auth \in {Nil, Bad} THEN Bad
    ELSE Basic(entry.auth.user, entry.auth.password)

\* The mistake of taking the only entry whatever it is for.
matchSoleEntry(auths, host) ==
    {a.entry : a \in {x \in auths : Cardinality(auths) = 1 \/ normalizeRegistryHost(x.key) = host}}

\* Any entry whose key means the host: the map's order decides between two.
matchRegistry(auths, host) ==
    {a.entry : a \in {x \in auths : normalizeRegistryHost(x.key) = host}}

fromDockerConfigJSON(secret, host) ==
    IF secret.auths = Nil THEN {Bad}
    ELSE LET entries == matchRegistry(secret.auths, host)
         IN  IF entries = {} THEN {Bad} ELSE {entryToAuthConfig(e) : e \in entries}

\* An opaque Secret serves every registry.
FromSecret(secret, registry) ==
    IF secret.docker THEN fromDockerConfigJSON(secret, normalizeRegistryHost(registry))
                     ELSE {fromOpaque(secret)}

\* A reference is a record first (what precedes the first slash, or Nil when
\* there is none), dotted (whether that holds a '.' or a ':') and encoded
\* (whether the slashes are spelled %2F).
Host(h) == [scheme |-> FALSE, host |-> h, path |-> FALSE]

\* The registry of a reference, which is not decoded first.
RegistryFromRef(ref) ==
    IF ref.first # Nil /\ ~ref.encoded /\ ref.dotted THEN Host(ref.first) ELSE Host(dockerHubHost)

\* resolveOCIAuth for the Secret a Pacto names; Nil when there is none.
resolveOCIAuth(secret, ref) ==
    IF secret = Nil THEN {Bad} ELSE FromSecret(secret, RegistryFromRef(ref))

\* The registry the puller contacts: the loader decodes the reference, and the
\* client takes an undotted first segment for a Docker Hub name.
contacted(ref) ==
    IF ref.first # Nil /\ ref.dotted THEN normalizeRegistryHost(Host(ref.first)) ELSE dockerHubHost

\* ----- the merge for the dashboard --------------------------------------

\* A token becomes the password of user _token.
encodeAuth(c) == IF c.token # Nil THEN [user |-> "_token", password |-> c.token]
                                  ELSE [user |-> c.username, password |-> c.password]

\* The hosts a Secret has something for.
HostsOf(secret) ==
    IF secret.docker THEN {normalizeRegistryHost(a.key) : a \in secret.auths}
                     ELSE {normalizeRegistryHost(secret.registry)}

mergeable(secret) ==
    IF secret.docker THEN secret.auths # Nil
                     ELSE secret.registry # Nil /\ fromOpaque(secret) # Bad

\* The entries a Secret may leave for a host in the merged map.
entriesFor(secret, host) ==
    IF secret.docker THEN matchRegistry(secret.auths, host)
    ELSE LET c == fromOpaque(secret)
         IN  {[username |-> c.username, password |-> c.password, auth |-> encodeAuth(c)]}

\* The mistake of keeping what is there.
mergeFirst(secrets, host) ==
    {i \in DOMAIN secrets : /\ host \in HostsOf(secrets[i])
                            /\ \A j \in DOMAIN secrets : host \in HostsOf(secrets[j]) => j >= i}

\* The Secret whose entry for a host survives: the loop assigns in the order
\* of the configuration, so that a later Secret overrides an earlier one.
mergeLast(secrets, host) ==
    {i \in DOMAIN secrets : /\ host \in HostsOf(secrets[i])
                            /\ \A j \in DOMAIN secrets : host \in HostsOf(secrets[j]) => j <= i}

\* MergeToDockerConfigJSON: a function from hosts to entries, one of several
\* when a Secret names a host twice; one Secret that cannot be merged fails
\* the whole.
MergeToDockerConfigJSON(secrets) ==
    IF \E i \in DOMAIN secrets : ~mergeable(secrets[i]) THEN {Bad}
    ELSE LET hosts == UNION {HostsOf(secrets[i]) : i \in DOMAIN secrets}
             from(h) == UNION {entriesFor(secrets[i], h) : i \in mergeLast(secrets, h)}
         IN  {m \in [hosts -> UNION {from(h) : h \in hosts}] : \A h \in hosts : m[h] \in from(h)}
=============================================================================

--------------------------- MODULE MCCredentials ----------------------------
(***************************************************************************)
(* CredentialUse over small Secrets.                                       *)
(***************************************************************************)
EXTENDS CredentialUse

Keys == {Host("ghcr.io"), [Host("ghcr.io") EXCEPT !.scheme = TRUE, !.path = TRUE],
         Host("docker.io"), [Host("index.docker.io") EXCEPT !.scheme = TRUE, !.path = TRUE]}

Owners == {"a", "b"}   \* whose credentials they are
Entry(u, p, e) == [username |-> u, password |-> p, auth |-> e]
Entries == {Entry(x, x, Nil) : x \in Owners}
           \cup {Entry(x, Nil, [user |-> "c", password |-> x]) : x \in Owners}
           \cup {Entry(Nil, Nil, Nil), Entry("a", Nil, Bad)}

Opaque == [docker : {FALSE}, auths : {Nil}, token : {Nil, "a", "b"}, username : {Nil, "a"},
           password : {Nil, "a", "b"}, registry : {Nil, Host("ghcr.io"), Host("docker.io")}]
Docker(auths) == [docker |-> TRUE, auths |-> auths, token |-> Nil, username |-> Nil,
                  password |-> Nil, registry |-> Nil]
Auth(k, e) == [key |-> k, entry |-> e]
DockerSecrets == {Docker(Nil), Docker({})} \cup {Docker({Auth(k, e)}) : k \in Keys, e \in Entries}
TwoEntries == {Docker({Auth(k, e), Auth(l, f)}) : k, l \in Keys, e, f \in Entries}
Pairs == {s \in TwoEntries : Cardinality({a.key : a \in s.auths}) = Cardinality(s.auths)}

\* ghcr.io/org/x, docker.io/org/x, org/x, x
MCReferences ==
    {r \in [first : {Nil, "ghcr.io", "docker.io", "org"}, dotted : BOOLEAN, encoded : BOOLEAN] :
        /\ r.dotted <=> r.first \in {"ghcr.io", "docker.io"}
        /\ r.encoded => r.first # Nil}

Simple == Opaque \cup DockerSecrets
MCPullSecrets == {Nil} \cup Simple \cup Pairs

\* One source or two; at most one of them has two entries.
Arrange(s, t, swap) == IF t = Nil THEN <<s>> ELSE IF swap THEN <<t, s>> ELSE <<s, t>>
MCSourceLists ==
    {Arrange(s, t, swap) : s \in Simple \cup Pairs, t \in Simple \cup {Nil}, swap \in BOOLEAN}
=============================================================================

----------------------------- MODULE MCEnvoyXds -----------------------------
EXTENDS EnvoyXds, TLC

IdRank == "id1" :> 1 @@ "id2" :> 2

\* strcase.ToKebab makes one name of two of the domains.
KebabOf == "a.b" :> "a-b" @@ "a-b" :> "a-b"

Inst(k, r, z) == [id |-> k, region |-> r, zone |-> z]
SomeInstances == {Inst(1, "eu", "1"), Inst(2, "eu", ""), Inst(3, "", "1")}

Rule(p, names) == [prefix |-> p, required |-> names]
Provider(n, r) == [name |-> n, remote |-> r,
                   local |-> [filename |-> "", inline |-> "keys"]]
Jwt == [kind |-> "jwtAuthn",
        providers |-> <<Provider("p", "uri"), Provider("q", None)>>,
        rules |-> <<Rule("/a", <<"p", "q">>), Rule("/", <<"p">>)>>]
Health == [kind |-> "healthCheck", path |-> "/h"]
Cors(e) == [kind |-> "cors", enable |-> e]
GrpcWeb(e) == [kind |-> "grpcWeb", enable |-> e]

Ingress(n, fs) == [kind |-> "ingress", name |-> n, port |-> 80, log |-> "",
                   xdsCluster |-> "xds", filters |-> fs]
Service(n, o) == [kind |-> "service", name |-> n, tls |-> o = "http2",
                  options |-> o, maxStreams |-> 1]
Set(cs, is) == [kind |-> "instances", clusters |-> cs,
                instances |-> {x \in SomeInstances : x.id \in is}]
Route(p, t) == [prefix |-> p, target |-> t]
Policy(d, c, rs) == [kind |-> "policy", ingress |-> "a", domain |-> d,
                     cors |-> c, routes |-> rs]

NodeSpecs == {
    Ingress("a", <<Cors(FALSE), Jwt, Health, GrpcWeb(TRUE)>>),
    Ingress("a", <<Cors(TRUE)>>), Service("a", "http2"), Service("", None),
    Set({"a"}, {1, 2}), Set({"a", "b"}, {2, 3}),
    Policy("a-b", [headers |-> <<"h">>],
           <<Route("/y", "s"), Route("/x", "s"), Route("/y", "s")>>),
    Policy("a.b", [headers |-> <<>>], <<Route("/x", "s"), Route("/z", "s")>>),
    [kind |-> "unknown"]}
=============================================================================

--------------------------- MODULE XdsResources ----------------------------
(***************************************************************************)
(* What the Envoy xDS provider makes of a networking node                  *)
(* (provider/envoy: envoy_resources.go, envoy_routes.go,                   *)
(* envoy_clusters.go).                                                     *)
(*                                                                         *)
(* Envoy's messages are records of the fields that come from the node; the *)
(* fields the code sets to fixed values are left out.                      *)
(***************************************************************************)
EXTENDS Integers, SequencesExt

CONSTANTS
    Ids,        \* resource ids
    Rank,       \* the order of sort.Strings on the ids
    Names,      \* names of ingresses and services
    Instances,  \* instances: [id, region, zone], "" for none
    Kebab,      \* strcase.ToKebab: function on the domains
    None

-----------------------------------------------------------------------------
(* fromHttpIngress *)

\* The key set of a provider: remote before local, a file before a string.
Jwks(p) ==
    IF p.remote # None THEN <<"remote", p.remote>>
    ELSE IF p.local = None THEN None
    ELSE IF p.local.filename # "" THEN <<"filename", p.local.filename>>
    ELSE IF p.local.inline # "" THEN <<"inline", p.local.inline>>
    ELSE <<"unset">>

\* Mutant of JwtRule: the first provider stands for all of them.
JwtRule_First(r) ==
    [prefix |-> r.prefix,
     requires |-> IF r.required # <<>>
                  THEN [type |-> "provider", names |-> {r.required[1]}]
                  ELSE [type |-> "any", names |-> {}]]

\* One required provider is named, any other number is a list of which any
\* will do.
JwtRule(r) ==
    [prefix |-> r.prefix,
     requires |-> IF Len(r.required) = 1
                  THEN [type |-> "provider", names |-> {r.required[1]}]
                  ELSE [type |-> "any", names |-> Range(r.required)]]

\* Of two providers with one name the later stays.
JwtAuthn(f) ==
    LET names == {p.name : p \in Range(f.providers)}
    IN  [kind |-> "jwtAuthn",
         providers |-> [n \in names |->
             Jwks(f.providers[SelectLastInSeq(f.providers,
                                              LAMBDA p : p.name = n)])],
         rules |-> [k \in DOMAIN f.rules |-> JwtRule(f.rules[k])]]

\* The HTTP filter a filter of the ingress becomes: none if it is not enabled.
HttpFilter(f) ==
    IF f.kind = "jwtAuthn" THEN <<JwtAuthn(f)>>
    ELSE IF f.kind = "healthCheck"
    THEN <<[kind |-> "healthCheck", path |-> f.path]>>
    ELSE IF f.enable THEN <<[kind |-> f.kind]>> ELSE <<>>

\* The filters in the order of the ingress, and the router.
HttpFilters(node) ==
    FlattenSeq([k \in DOMAIN node.filters |-> HttpFilter(node.filters[k])])
        \o <<[kind |-> "httpRouter"]>>

AccessLogs(node) == IF node.log = "" THEN <<>> ELSE <<node.log>>

\* The connection manager, which asks for its routes under the ingress name.
HttpConn(node) ==
    [statPrefix |-> node.name, accessLog |-> AccessLogs(node),
     httpFilters |-> HttpFilters(node), routeConfigName |-> node.name]

RouteConf(node) == [name |-> node.name, xdsCluster |-> node.xdsCluster]

Listener(node) ==
    [name |-> node.name, port |-> node.port, httpConn |-> HttpConn(node)]

-----------------------------------------------------------------------------
(* fromService *)

TransportSocket(node) == IF node.tls THEN "envoy.transport_sockets.tls" ELSE None

\* HttpProtocolOptions for the oneof; none if it is not set.  The conversion
\* of maxStreams to an unsigned number is the identity on its valid values.
ProtocolOptions(node) ==
    CASE node.options = "http1" -> [http |-> 1, maxConcurrentStreams |-> None]
      [] node.options = "http2" ->
             [http |-> 2, maxConcurrentStreams |-> node.maxStreams]
      [] node.options = None -> None

Cluster(node) ==
    [name |-> node.name, edsServiceName |-> node.name,
     transportSocket |-> TransportSocket(node),
     protocolOptions |-> ProtocolOptions(node)]

-----------------------------------------------------------------------------
(* clustersEndpoints: how often each instance was added to a cluster in the *)
(* batch, None for a cluster that no instance set has named.                *)

\* Mutant of AddEndpoints: the endpoints of the set replace those before it.
AddEndpoints_Replace(endpoints, node) ==
    [n \in Names |-> IF n \notin node.clusters THEN endpoints[n]
                     ELSE [x \in Instances |->
                              IF x \in node.instances THEN 1 ELSE 0]]

AddEndpoints(endpoints, node) ==
    LET before(n, x) == IF endpoints[n] = None THEN 0 ELSE endpoints[n][x]
    IN  [n \in Names |-> IF n \notin node.clusters THEN endpoints[n]
                         ELSE [x \in Instances |-> before(n, x) +
                                  (IF x \in node.instances THEN 1 ELSE 0)]]

\* The endpoints of each region and zone together, without a locality if the
\* region is empty.
ToLoadAssignment(cluster) ==
    LET present == {x \in Instances : cluster[x] > 0}
        at(x) == {y \in present : y.region = x.region /\ y.zone = x.zone}
    IN  {[locality |-> IF x.region = "" THEN None ELSE <<x.region, x.zone>>,
          lbEndpoints |-> [y \in at(x) |-> cluster[y]]] : x \in present}

-----------------------------------------------------------------------------
(* routing *)

VirtualHostName(p) == <<p.ingress, Kebab[p.domain]>>

\* hashRoute, as what is hashed, and toEnvoyRoute.
EnvoyRoute(route, p) ==
    [name |-> <<route, p.ingress, p.domain>>, prefix |-> route.prefix,
     cluster |-> route.target]

\* An empty message is no CORS policy.
makeCors(p) ==
    IF p.cors = None \/ (p.cors # None /\ \A f \in DOMAIN p.cors : p.cors[f] = <<>>)
    THEN None ELSE p.cors

\* A route with the name of an earlier one is left out.
AddRoutes(routes, p) ==
    FoldLeft(LAMBDA rs, r : IF EnvoyRoute(r, p) \in Range(rs) THEN rs
                            ELSE Append(rs, EnvoyRoute(r, p)),
             routes, p.routes)

sortStringKeys(ids) ==
    CHOOSE s \in [1..Cardinality(ids) -> ids] :
        \A a, b \in DOMAIN s : a < b => Rank[s[a]] < Rank[s[b]]

\* The first part of processChanges: the policies in the order of their ids;
\* the first one of a virtual host gives its domain and CORS policy.
VirtualHosts(resources) ==
    LET ids(n) == {i \in Ids : resources[i] # None /\
                               VirtualHostName(resources[i]) = n}
        host(n) ==
            LET order == sortStringKeys(ids(n))
                first == resources[order[1]]
            IN  [domains |-> <<first.domain>>, cors |-> makeCors(first),
                 routes |-> FoldLeft(LAMBDA rs, i : AddRoutes(rs, resources[i]),
                                     <<>>, order)]
    IN  [n \in {VirtualHostName(resources[i]) :
                    i \in {j \in Ids : resources[j] # None}} |-> host(n)]
=============================================================================

--------------------------- MODULE PolicySources ---------------------------
(***************************************************************************)
(* The sources of gateway policies and the calls matched against them      *)
(* (GatewayPolicy, HttpSource, GrpcSource; pkg/gateway/helpers.go).        *)
(*                                                                         *)
(* Of method names and paths only the prefix relation matters: PrefixesOf  *)
(* gives for each key the keys it starts with.                             *)
(***************************************************************************)
EXTENDS Naturals, FiniteSets

CONSTANTS
    Keys,         \* full gRPC method names and URL paths
    PrefixesOf,   \* the keys that are a prefix of a key, itself included
    Methods,      \* the HTTP methods a source can name
    Undefined,    \* HTTP_METHOD_UNDEFINED: any method
    None

ASSUME PrefixAssumption ==
    /\ PrefixesOf \in [Keys -> SUBSET Keys]
    /\ \A k \in Keys : k \in PrefixesOf[k]
    \* Of two prefixes of one key, one is a proper prefix of the other.
    /\ \A k \in Keys : \A a, b \in PrefixesOf[k] :
           a # b => (a \in PrefixesOf[b] <=> b \notin PrefixesOf[a])

ASSUME MethodAssumption == Undefined \notin Methods

\* What a matcher can be asked for below a path.
Slots == Methods \cup {Undefined}

\* The oneof of HttpSource and GrpcSource.  A gRPC source has no method.
Sources ==
    [kind : {"http"}, key : Keys, method : Slots, exact : BOOLEAN] \cup
    [kind : {"grpc"}, key : Keys, method : {Undefined}, exact : BOOLEAN]

\* A call: its full method name, or its path and method.  A method that
\* fromHttpMethodToProtomeshHttpMethod does not know becomes Undefined.
Requests ==
    [kind : {"http"}, key : Keys, method : Slots] \cup
    [kind : {"grpc"}, key : Keys, method : {Undefined}]

ASSUME NoneAssumption == None \notin Sources
=============================================================================

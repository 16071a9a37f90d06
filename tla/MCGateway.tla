----------------------------- MODULE MCGateway -----------------------------
EXTENDS Gateway, TLC

\* "/a" is a prefix of "/a/b".
PathPrefixes == "/a" :> {"/a"} @@ "/a/b" :> {"/a", "/a/b"}

Http(k, m, e) == [kind |-> "http", key |-> k, method |-> m, exact |-> e]
Grpc(k, e) == [kind |-> "grpc", key |-> k, method |-> Undefined, exact |-> e]
Lambda(s) == [source |-> s, handlers |-> {"aws_lambda"}]

PolicySpecs == {Lambda(s) : s \in {
    Http("/a", Undefined, FALSE), Http("/a/b", "GET", FALSE),
    Http("/a/b", Undefined, FALSE), Grpc("/a", TRUE)}} \cup
    {[source |-> None, handlers |-> {"unset"}]}

IdSymmetry == Permutations(Ids)
=============================================================================

---------------------------- MODULE PolicyTable ----------------------------
(***************************************************************************)
(* What the matchers of the gateway promise (pkg/gateway/matcher.go): a    *)
(* flat table with one entry for each policy source, changed one entry at  *)
(* a time, and for a call the entry that a longest-prefix match finds.     *)
(* Gateway shows that the nested tries implement it.                       *)
(***************************************************************************)
EXTENDS PolicySources

CONSTANT Policies   \* records with a field source

VARIABLE table   \* the policy at each source, or None

TableInit == table = [s \in Sources |-> None]

Route(p) == table' = [table EXCEPT ![p.source] = p]

Unroute(s) == table' = [table EXCEPT ![s] = None]

TableNext ==
    \/ \E p \in Policies : p.source \in Sources /\ Route(p)
    \/ \E s \in Sources : Unroute(s)

TableSpec == TableInit /\ [][TableNext]_table

At(r, exact, k, m) ==
    table[[kind |-> r.kind, key |-> k, method |-> m, exact |-> exact]]

\* The policy of the method itself goes before the one for any method.
Chosen(r, exact, k) ==
    IF At(r, exact, k, r.method) # None THEN At(r, exact, k, r.method)
    ELSE At(r, exact, k, Undefined)

\* Some policy of the request's kind is routed by the prefix k.
RoutedAt(r, k) ==
    \E s \in Sources :
        s.kind = r.kind /\ s.key = k /\ ~s.exact /\ table[s] # None

IsLongest(r, k) ==
    /\ k \in PrefixesOf[r.key] /\ RoutedAt(r, k)
    /\ \A j \in PrefixesOf[r.key] : RoutedAt(r, j) => j \in PrefixesOf[k]

\* The policy that should handle a request, if any.
Best(r) ==
    IF Chosen(r, TRUE, r.key) # None THEN Chosen(r, TRUE, r.key)
    ELSE IF \E k \in Keys : IsLongest(r, k)
    THEN Chosen(r, FALSE, CHOOSE k \in Keys : IsLongest(r, k))
    ELSE None
=============================================================================

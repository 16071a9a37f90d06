------------------------------ MODULE EnvoyXds ------------------------------
(***************************************************************************)
(* The Envoy xDS provider (provider/envoy/envoy_xds.go): the synchronizer  *)
(* hands over batches of updated and dropped resources, a batch is         *)
(* collected in a transaction, and AfterBatch applies it to one cache      *)
(* after the other while Envoy reads them.                                 *)
(*                                                                         *)
(* The caches are go-control-plane's LinearCache, modelled from its use:   *)
(* UpdateResources sets toUpdate, then removes toDelete.                   *)
(***************************************************************************)
EXTENDS XdsResources, FiniteSets

CONSTANTS
    Specs,     \* contents of resources, see kind
    PageSize,  \* resources of one response at most
    MaxChanges \* bound: resources of all responses

VARIABLES
    changes,      \* resources so far, for the bound
    pc,           \* the next step of the synchronizer's goroutine
    stored,       \* history: what the resource store holds
    pending,      \* the updated resources of the batch still to be handled
    gone,         \* the dropped resources of the batch still to be handled
    idName,       \* idName of the resourceMap entries
    clusterNames, \* instanceSetClusterNames.Map
    resources,    \* routing.resources
    virtualHosts, \* routing.virtualHosts
    toUpdate,     \* tx.operations[..].toUpdate
    toDelete,     \* tx.operations[..].toDelete
    endpoints,    \* tx.endpoints
    apply,        \* the types AfterBatch still has to apply
    cache,        \* what Envoy is served, by type
    left,         \* history: what a rename or a drop has left behind
    clash,        \* history: names given to two stored resources, or deleted
                  \* while a stored one has it
    lastBatch     \* history: instance sets of the last batch naming a cluster

tx == <<toUpdate, toDelete, endpoints, apply>>
history == <<left, clash, lastBatch>>
vars == <<changes, pc, stored, pending, gone, idName, clusterNames, resources,
          virtualHosts, tx, cache, history>>

Named == {"Listener", "Route", "Cluster"}
Types == Named \cup {"Endpoint", "VirtualHost"}

\* The types a resource is served under by its own name, and as what.
TypesOf(spec) ==
    {t \in Named : spec.kind = IF t = "Cluster" THEN "service" ELSE "ingress"}

Built(type, spec) ==
    IF type = "Listener" THEN Listener(spec)
    ELSE IF type = "Route" THEN RouteConf(spec)
    ELSE Cluster(spec)

IsSequence(s) == s \in Seq(Range(s))

ASSUME XdsAssumption ==
    /\ IsFiniteSet(Ids) /\ Ids \cap Names = {}   \* ids are UUIDs
    /\ Rank \in [Ids -> Nat] /\ IsInjective(Rank)
    /\ None \notin Specs /\ None \notin Names
    /\ None \notin [Instances -> Nat]
    /\ \A x \in Instances : None # <<x.region, x.zone>>
    /\ PageSize \in Nat /\ MaxChanges \in Nat

\* The oneofs of networking.proto and of a filter; "unset" is none of them, of
\* the types of a resource "other" is one OnUpdated skips, "unknown" one that
\* cannot be unmarshalled.
ASSUME SpecsAssumption == \A spec \in Specs :
    /\ spec.kind \in {"ingress", "service", "instances", "policy", "unset",
                      "other", "unknown"}
    /\ spec.kind \in {"ingress", "service"} => spec.name \in Names
    /\ spec.kind = "ingress" =>
           /\ IsSequence(spec.filters)
           /\ \A f \in Range(spec.filters) :
                  /\ f.kind \in {"jwtAuthn", "healthCheck", "grpcWeb", "cors"}
                  /\ f.kind = "jwtAuthn" =>
                         /\ IsSequence(f.rules)
                         /\ \A r \in Range(f.rules) : IsSequence(r.required)
    /\ spec.kind = "instances" =>
           spec.clusters \subseteq Names /\ spec.instances \subseteq Instances
    /\ spec.kind = "policy" => IsSequence(spec.routes)

\* Is a resource with this content served as type t under the name n?
Asks(spec, t, n) == spec # None /\ t \in TypesOf(spec) /\ spec.name = n

Empty == [n \in {} |-> None]

\* The map g with the entries of f set.
Over(f, g) == [n \in DOMAIN f \cup DOMAIN g |->
                  IF n \in DOMAIN f THEN f[n] ELSE g[n]]

\* Does the map hold what resources of a type become, by their names?
Serves(t, map) ==
    /\ DOMAIN map \subseteq Names
    /\ \A n \in DOMAIN map : \E spec \in Specs :
           t \in TypesOf(spec) /\ map[n] = Built(t, spec)

TypeOK ==
    /\ changes \in 0..MaxChanges
    /\ pc \in {"idle", "update", "drop", "apply", "crashed"}
    /\ stored \in [Ids -> Specs \cup {None}]
    /\ pending \in [Ids -> Specs \cup {None}]
    /\ gone \in SUBSET Ids
    /\ idName \in [Named -> [Ids -> Names \cup {None}]]
    /\ DOMAIN clusterNames \subseteq Names
    /\ resources \in [Ids -> {s \in Specs : s.kind = "policy"} \cup {None}]
    /\ DOMAIN toUpdate = Types /\ DOMAIN toDelete = Types /\ DOMAIN cache = Types
    /\ \A t \in Named : Serves(t, toUpdate[t]) /\ Serves(t, cache[t])
    /\ \A t \in Named : toDelete[t] \subseteq Names
    /\ apply \in SUBSET Types

Init ==
    /\ changes = 0 /\ pc = "idle" /\ apply = {} /\ gone = {}
    /\ stored = [i \in Ids |-> None] /\ pending = [i \in Ids |-> None]
    /\ idName = [t \in Named |-> [i \in Ids |-> None]]
    /\ clusterNames = Empty /\ virtualHosts = Empty
    /\ resources = [i \in Ids |-> None]
    /\ toUpdate = [t \in Types |-> Empty] /\ toDelete = [t \in Types |-> {}]
    /\ endpoints = [n \in Names |-> None]
    /\ cache = [t \in Types |-> Empty]
    /\ left = {} /\ clash = {} /\ lastBatch = [n \in Names |-> {}]

-----------------------------------------------------------------------------
\* A response of Watch and BeforeBatch: upd and drp are its UpdatedResources
\* and DroppedResources, again the ids put again after their drop.
BeforeBatch(upd, drp, again) ==
    LET naming(n) == {i \in Ids : upd[i] # None /\ upd[i].kind = "instances"
                                  /\ n \in upd[i].clusters}
        size == Cardinality({i \in Ids : upd[i] # None}) + Cardinality(drp)
    IN  /\ pc = "idle"
        /\ size \in 1..PageSize /\ changes + size <= MaxChanges
        /\ changes' = changes + size
        /\ again \subseteq {i \in drp : upd[i] # None /\ stored[i] # None}
        /\ \A i \in drp : stored[i] # None \/ upd[i] # None
        /\ pc' = "update" /\ pending' = upd /\ gone' = drp
        /\ toUpdate' = [t \in Types |-> Empty]
        /\ toDelete' = [t \in Types |-> {}]
        /\ endpoints' = [n \in Names |-> None]
        /\ stored' = [i \in Ids |-> IF i \in drp \ again THEN None
                                    ELSE IF upd[i] # None THEN upd[i]
                                    ELSE stored[i]]
        /\ lastBatch' = [n \in Names |-> IF naming(n) = {} THEN lastBatch[n]
                             ELSE {<<i, upd[i].instances>> : i \in naming(n)}]
        /\ UNCHANGED <<idName, clusterNames, resources, virtualHosts, apply,
                       cache, left, clash>>

\* envoyClusters.Add as it is called: the cluster is the key, the resource is
\* below it.
AddClusters(clusters, i) ==
    [n \in clusters \cup DOMAIN clusterNames |->
        (IF n \in DOMAIN clusterNames THEN clusterNames[n] ELSE {}) \cup
        (IF n \in clusters THEN {i} ELSE {})]

putPolicy(i, spec) ==
    IF spec.kind = "policy" THEN [resources EXCEPT ![i] = spec] ELSE resources

\* OnUpdated: an ingress is served under its name as a listener and as routes,
\* a service as a cluster.  A type that cannot be unmarshalled is an error, on
\* which the synchronizer panics; other types are skipped.
OnUpdated(i) ==
    LET spec == pending[i]
        types == TypesOf(spec)
        \* The name the resource had and has no more; a policy is known by its
        \* id alone.
        renamed == {<<t, idName[t][i]>> : t \in {u \in Named :
                       idName[u][i] # None /\
                       (u \in types => idName[u][i] # spec.name)}}
        policy == IF spec.kind # "policy" /\ resources[i] # None
                  THEN {<<"VirtualHost", i>>} ELSE {}
        load == IF spec.kind = "instances" THEN AddEndpoints(endpoints, spec)
                ELSE endpoints
        added(t) ==
            IF t \in types THEN [n \in {spec.name} |-> Built(t, spec)]
            ELSE IF t = "Endpoint" /\ spec.kind = "instances"
            THEN [n \in spec.clusters |-> ToLoadAssignment(load[n])]
            ELSE Empty
        given == {<<t, spec.name>> : t \in types} \cup {<<"VirtualHost", i>>}
        shared == {<<t, spec.name>> : t \in {u \in types :
                      \E j \in Ids \ {i} : Asks(stored[j], u, spec.name)}}
    IN  /\ pc = "update" /\ spec # None
        /\ pending' = [pending EXCEPT ![i] = None]
        /\ pc' = IF spec.kind = "unknown" THEN "crashed" ELSE "update"
        /\ idName' = [t \in Named |-> IF t \in types
                          THEN [idName[t] EXCEPT ![i] = spec.name]
                          ELSE idName[t]]
        /\ endpoints' = load
        /\ clusterNames' = IF spec.kind # "instances" THEN clusterNames
                           ELSE AddClusters(spec.clusters, i)
        /\ toUpdate' = [t \in Types |-> Over(added(t), toUpdate[t])]
        /\ resources' = putPolicy(i, spec)
        /\ left' = (left \cup renamed \cup policy) \
                       {<<t, spec.name>> : t \in types}
        /\ clash' = (clash \ given) \cup shared
        /\ UNCHANGED <<changes, stored, gone, virtualHosts, toDelete, apply,
                       cache, lastBatch>>

OnUpdated_done ==
    /\ pc = "update" /\ \A i \in Ids : pending[i] = None
    /\ pc' = "drop"
    /\ UNCHANGED <<changes, stored, pending, gone, idName, clusterNames,
                   resources, virtualHosts, tx, cache, history>>

\* Mutant of OnDropped: the name stays registered and is not deleted.
OnDropped_Forgets(i, reached) ==
    /\ pc = "drop" /\ i \in gone
    /\ gone' = gone \ {i}
    /\ resources' = [resources EXCEPT ![i] = None]
    /\ UNCHANGED <<changes, pc, stored, pending, idName, clusterNames,
                   virtualHosts, tx, cache, history>>

\* OnDropped: the map of types is walked in random order; at the endpoint type
\* the id is looked up among the clusters and, if it is not there, the walk
\* ends.  reached holds the types that came first.
OnDropped(i, reached) ==
    LET all == i \in DOMAIN clusterNames
        names(t) == IF t \in reached THEN {idName[t][i]} \ {None, ""} ELSE {}
        needed == {<<t, idName[t][i]>> : t \in {u \in Named :
                      \E n \in names(u), j \in Ids : Asks(stored[j], u, n)}}
        policy == IF stored[i] # None /\ "VirtualHost" \in reached
                  THEN {<<"VirtualHost", i>>} ELSE {}
    IN  /\ pc = "drop" /\ i \in gone
        /\ reached \subseteq Types \ {"Endpoint"}
        /\ all => reached = Types \ {"Endpoint"}
        /\ gone' = gone \ {i}
        /\ idName' = [t \in Named |-> IF t \in reached
                          THEN [idName[t] EXCEPT ![i] = None] ELSE idName[t]]
        /\ toDelete' = [t \in Types |-> toDelete[t] \cup
               (IF t \in Named THEN names(t)
                ELSE IF t = "Endpoint" /\ all THEN clusterNames[i] ELSE {})]
        /\ resources' = IF "VirtualHost" \in reached
                        THEN [resources EXCEPT ![i] = None] ELSE resources
        /\ left' = left \cup
               {<<t, idName[t][i]>> : t \in {u \in Named :
                    idName[u][i] # None /\ (u \in reached => idName[u][i] = "")}}
               \cup (IF resources'[i] = None THEN {} ELSE {<<"VirtualHost", i>>})
        /\ clash' = clash \cup needed \cup policy
        /\ UNCHANGED <<changes, pc, stored, pending, clusterNames,
                       virtualHosts, toUpdate, endpoints, apply, cache,
                       lastBatch>>

\* Mutant of Changed: the hosts that were there before are taken to be the same.
Changed_New(hosts, n) == n \notin DOMAIN virtualHosts

\* The second part of processChanges: is there another hash than before?
Changed(hosts, n) ==
    n \in DOMAIN virtualHosts => virtualHosts[n] # hosts[n]

\* AfterBatch up to the loop: processChanges and take give the operation on
\* the virtual hosts.
AfterBatch ==
    LET hosts == VirtualHosts(resources)
    IN  /\ pc = "drop" /\ gone = {}
        /\ pc' = "apply"
        /\ virtualHosts' = hosts
        /\ toUpdate' = [toUpdate EXCEPT !["VirtualHost"] =
               [n \in {m \in DOMAIN hosts : Changed(hosts, m)} |-> hosts[n]]]
        /\ toDelete' = [toDelete EXCEPT !["VirtualHost"] =
               DOMAIN virtualHosts \ DOMAIN hosts]
        /\ apply' = {t \in Types : toUpdate'[t] # Empty \/ toDelete'[t] # {}}
        /\ UNCHANGED <<changes, stored, pending, gone, idName, clusterNames,
                       resources, endpoints, cache, history>>

\* AfterBatch, one type, in any order.
UpdateResources(t) ==
    LET all == Over(toUpdate[t], cache[t])
    IN  /\ pc = "apply" /\ t \in apply
        /\ apply' = apply \ {t}
        /\ cache' = [cache EXCEPT ![t] =
               [n \in DOMAIN all \ toDelete[t] |-> all[n]]]
        /\ UNCHANGED <<changes, pc, stored, pending, gone, idName,
                       clusterNames, resources, virtualHosts, toUpdate,
                       toDelete, endpoints, history>>

\* The end of the batch.  The next one starts with another transaction, so this
\* one is cleared; what is not served any more is not left behind.
AfterBatch_end ==
    /\ pc = "apply" /\ apply = {}
    /\ pc' = "idle"
    /\ left' = {l \in left :
                   IF l[1] = "VirtualHost"
                   THEN resources[l[2]] \notin {None, stored[l[2]]}
                   ELSE l[2] \in DOMAIN cache[l[1]]}
    /\ toUpdate' = [t \in Types |-> Empty] /\ toDelete' = [t \in Types |-> {}]
    /\ endpoints' = [n \in Names |-> None]
    /\ UNCHANGED <<changes, stored, pending, gone, idName, clusterNames,
                   resources, virtualHosts, apply, cache, clash, lastBatch>>

Next ==
    \/ \E upd \in [Ids -> Specs \cup {None}], drp, again \in SUBSET Ids :
           BeforeBatch(upd, drp, again)
    \/ \E i \in Ids : \/ OnUpdated(i)
                      \/ \E reached \in SUBSET Types : OnDropped(i, reached)
    \/ OnUpdated_done \/ AfterBatch \/ AfterBatch_end
    \/ \E t \in Types : UpdateResources(t)

Spec == Init /\ [][Next]_vars

-----------------------------------------------------------------------------
\* Nothing is served that no stored resource asks for, and no routing policy is
\* in use that is not stored: except what a renamed resource, one of another
\* kind than before, one without a name, or a drop that ended early has left.
NoGhost ==
    /\ \A t \in Named : \A n \in DOMAIN cache[t] :
           \/ <<t, n>> \in left
           \/ \E i \in Ids : /\ stored[i] # None /\ t \in TypesOf(stored[i])
                             /\ stored[i].name = n
    /\ \A i \in Ids : \/ resources[i] \in {None, stored[i]}
                      \/ <<"VirtualHost", i>> \in left

\* Every stored ingress, service and routing policy is served as it is stored,
\* except under a name that was given to it while another stored resource had
\* it, or the other way around, or that was deleted while it had it.
StoredIsServed ==
    \A i \in {j \in Ids : stored[j] # None} :
        /\ \A t \in TypesOf(stored[i]) :
               \/ <<t, stored[i].name>> \in clash
               \/ /\ stored[i].name \in DOMAIN cache[t]
                  /\ cache[t][stored[i].name] = Built(t, stored[i])
        /\ stored[i].kind = "policy" =>
               resources[i] = stored[i] \/ <<"VirtualHost", i>> \in clash

\* Between batches Envoy is served what is stored, as OnUpdated, OnDropped and
\* AfterBatch of the provider keep it: nothing more and nothing less, except
\* what the two parts name.
ServedIsStored == pc = "idle" => NoGhost /\ StoredIsServed

\* Between batches the virtual hosts served are those of the policies in use:
\* each one's domain and CORS policy from its first policy, and the routes of
\* all its policies, each once, in the order of the policies.
VirtualHostsInStep ==
    pc = "idle" =>
        LET inUse == {i \in Ids : resources[i] # None}
            of(n) == {i \in inUse : VirtualHostName(resources[i]) = n}
            gives(i, r) == \E x \in Range(resources[i].routes) :
                               EnvoyRoute(x, resources[i]) = r
            least(ids) == CHOOSE i \in ids : \A j \in ids : Rank[i] <= Rank[j]
            first(n, r) == Rank[least({i \in of(n) : gives(i, r)})]
        IN  /\ DOMAIN cache["VirtualHost"] =
                   {VirtualHostName(resources[i]) : i \in inUse}
            /\ \A n \in DOMAIN cache["VirtualHost"] :
                   LET host == cache["VirtualHost"][n]
                   IN  /\ host.domains = <<resources[least(of(n))].domain>>
                       /\ host.cors = makeCors(resources[least(of(n))])
                       /\ \A i \in of(n) : \A x \in Range(resources[i].routes) :
                              EnvoyRoute(x, resources[i]) \in Range(host.routes)
                       /\ \A a, b \in DOMAIN host.routes : a < b =>
                              /\ host.routes[a] # host.routes[b]
                              /\ first(n, host.routes[a]) <=
                                     first(n, host.routes[b])

\* Between batches a cluster has the endpoints of all the instance sets of the
\* last batch that named it, an instance as often as sets hold it, and each one
\* in its own locality; those of earlier batches are gone.
EndpointsOfLastBatch ==
    pc = "idle" => \A n \in Names :
        /\ n \in DOMAIN cache["Endpoint"] <=> lastBatch[n] # {}
        /\ \A x \in Instances :
               LET sets == {s \in lastBatch[n] : x \in s[2]}
                   load == IF lastBatch[n] = {} THEN {} ELSE cache["Endpoint"][n]
                   groups == {g \in load : x \in DOMAIN g.lbEndpoints}
               IN  IF sets = {} THEN groups = {}
                   ELSE \E g \in groups :
                            /\ groups = {g}
                            /\ g.lbEndpoints[x] = Cardinality(sets)
                            /\ (g.locality = None) <=> (x.region = "")
                            /\ \A y \in DOMAIN g.lbEndpoints :
                                   <<x.region, x.zone>> = <<y.region, y.zone>>

\* Does a prefix cover a path?  Of the paths only "/" is above another.
Covers(prefix, path) == prefix \in {"/", path}

\* Is a request let through by the first of the rules that covers its path,
\* given the providers its token is valid for?
Admits(rules, names(_), path, valid) ==
    LET k == SelectInSeq(rules, LAMBDA r : Covers(r.prefix, path))
    IN  k # 0 => names(rules[k]) \cap valid # {}

\* A request gets to the router of a served listener exactly if every JWT filter
\* of the ingress finds its token valid for a provider that the rule for its
\* path requires, and it is not for the path of a health check.
IngressIsGuarded ==
    pc = "idle" => \A n \in DOMAIN cache["Listener"] :
        LET served == cache["Listener"][n].httpConn.httpFilters
            router == SelectInSeq(served, LAMBDA f : f.kind = "httpRouter")
        IN  \E spec \in Specs :
            /\ spec.kind = "ingress" /\ Listener(spec) = cache["Listener"][n]
            /\ LET jwt == {f \in Range(spec.filters) : f.kind = "jwtAuthn"}
                   tested == {f \in Range(spec.filters) : f.kind = "healthCheck"}
                   names == UNION {Range(r.required) :
                                r \in UNION {Range(f.rules) : f \in jwt}}
                   paths == {r.prefix : r \in UNION {Range(f.rules) : f \in jwt}}
                            \cup {f.path : f \in tested}
               IN  \A path \in paths, valid \in SUBSET names :
                   (\A k \in 1..(router - 1) :
                       /\ served[k].kind = "jwtAuthn" => Admits(served[k].rules,
                              LAMBDA r : r.requires.names, path, valid)
                       /\ served[k].kind = "healthCheck" => served[k].path # path)
                   <=> /\ \A f \in jwt : Admits(f.rules,
                              LAMBDA r : Range(r.required), path, valid)
                       /\ \A f \in tested : f.path # path
=============================================================================

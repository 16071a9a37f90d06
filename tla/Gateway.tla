------------------------------ MODULE Gateway ------------------------------
(***************************************************************************)
(* The gateway policies (pkg/gateway): the synchronizer hands over batches *)
(* of updated and dropped resources, AfterBatch changes the matchers one   *)
(* policy at a time, and calls are matched in between.                     *)
(*                                                                         *)
(* The tries are the RadixTree of go-app/structures, modelled from its use *)
(* here: Match finds a key, MatchLongest the longest key that is a prefix. *)
(* A policyMatcher below the root is a node: a policy for each HTTP method *)
(* and one for any method, which is also where a gRPC policy is kept.      *)
(***************************************************************************)
EXTENDS PolicySources

CONSTANTS
    Ids,      \* resource ids
    Specs,    \* contents of GatewayPolicy: a source or None, and handlers
    Foreign,  \* a spec of another type than GatewayPolicy
    PageSize  \* events of one response at most

VARIABLES
    pc,        \* the next step of the synchronizer's goroutine
    stored,    \* history: what the resource store holds
    active,    \* Gateway.active
    updated,   \* Gateway.updated: the policies still to be applied
    dropped,   \* Gateway.dropped: the ids still to be applied
    tries,     \* grpcMatcher and httpMatcher: an exact and a prefix trie each
    contested, \* history: sources shared by two policies and still in use
    vacated,   \* history: sources that an update has moved a policy away from
    missed     \* history: ids whose last change OnUpdated or OnDropped skips

vars == <<pc, stored, active, updated, dropped, tries, contested, vacated,
          missed>>

\* A policy as it is kept in the maps and tries, known by its resource.
PolicyOf(i, spec) ==
    [id |-> i, source |-> spec.source, handlers |-> spec.handlers]

Policies == {PolicyOf(i, spec) : i \in Ids, spec \in Specs}

Nodes == [Slots -> Policies \cup {None}]
EmptyNode == [m \in Slots |-> None]

ASSUME SpecsAssumption ==
    /\ \A spec \in Specs : spec.source \in Sources \cup {None}
    /\ Foreign # None /\ {Foreign, None} \cap Specs = {}
    /\ None \notin Policies /\ None \notin Nodes

TypeOK ==
    /\ pc \in {"idle", "drop", "update", "crashed"}
    /\ stored \in [Ids -> Specs \cup {Foreign, None}]
    /\ active \in [Ids -> Policies \cup {None}]
    /\ updated \in [Ids -> Specs \cup {None}]
    /\ dropped \in SUBSET Ids
    /\ tries \in [{"http", "grpc"} \X BOOLEAN -> [Keys -> Nodes \cup {None}]]
    /\ contested \in SUBSET Sources
    /\ vacated \in SUBSET Sources
    /\ missed \in SUBSET Ids

Init ==
    /\ pc = "idle"
    /\ stored = [i \in Ids |-> None]
    /\ active = [i \in Ids |-> None]
    /\ updated = [i \in Ids |-> None]
    /\ dropped = {}
    /\ tries = [t \in {"http", "grpc"} \X BOOLEAN |-> [k \in Keys |-> None]]
    /\ contested = {} /\ vacated = {} /\ missed = {}

-----------------------------------------------------------------------------
(* matcher.go *)

\* Mutant of insert: a path that is already in the trie gets a new node.
insert_NewNode(trie, p) ==
    [trie EXCEPT ![p.source.key] = [EmptyNode EXCEPT ![p.source.method] = p]]

\* policyMatcher.insert: a gRPC policy gets a node of its own, an HTTP policy
\* goes into the node of its path.
insert(trie, p) ==
    LET node == IF p.source.kind = "grpc" \/ trie[p.source.key] = None
                THEN EmptyNode ELSE trie[p.source.key]
    IN  [trie EXCEPT ![p.source.key] = [node EXCEPT ![p.source.method] = p]]

\* Mutant of drop: the entry for any method stays.
drop_KeepsAny(trie, p) ==
    IF trie[p.source.key] = None \/ p.source.method = Undefined THEN trie
    ELSE [trie EXCEPT ![p.source.key][p.source.method] = None]

\* policyMatcher.drop: whatever is kept for the source goes, and the node of a
\* path stays, even if it is empty.
drop(trie, p) ==
    CASE trie[p.source.key] = None -> trie
      [] p.source.kind = "grpc" -> [trie EXCEPT ![p.source.key] = None]
      [] OTHER -> [trie EXCEPT ![p.source.key][p.source.method] = None]

\* RadixTree.MatchLongest, as the key found.
Longest(trie, key, k) ==
    /\ k \in PrefixesOf[key] /\ trie[k] # None
    /\ \A j \in PrefixesOf[key] : trie[j] # None => j \in PrefixesOf[k]

\* The node Match or MatchLongest finds.
NodeFor(trie, exact, key) ==
    IF exact THEN trie[key]
    ELSE IF \E k \in Keys : Longest(trie, key, k)
    THEN trie[CHOOSE k \in Keys : Longest(trie, key, k)]
    ELSE None

\* Mutant of match: the policy for any method is not looked at.
match_MethodOnly(trie, exact, r) ==
    LET node == NodeFor(trie, exact, r.key)
    IN  IF node = None THEN None ELSE node[r.method]

\* policyMatcher.match: within the node, the method itself or any method.
match(trie, exact, r) ==
    LET node == NodeFor(trie, exact, r.key)
    IN  CASE node = None -> None
          [] node # None /\ node[r.method] # None -> node[r.method]
          [] OTHER -> node[Undefined]

\* sourceMatcher.matchPolicy, under one read lock.
matchPolicy(r) ==
    LET exact == match(tries[<<r.kind, TRUE>>], TRUE, r)
    IN  IF exact # None THEN exact ELSE match(tries[<<r.kind, FALSE>>], FALSE, r)

\* The tries read as a flat table.
Entry(s) ==
    LET node == tries[<<s.kind, s.exact>>][s.key]
    IN  IF node = None THEN None ELSE node[s.method]

\* sourceMatcher.addPolicy and dropPolicy; a policy without source is in no
\* trie.
addPolicy(p) ==
    IF p.source = None THEN tries
    ELSE [tries EXCEPT ![<<p.source.kind, p.source.exact>>] = insert(@, p)]

dropPolicy(p) ==
    IF p.source = None THEN tries
    ELSE [tries EXCEPT ![<<p.source.kind, p.source.exact>>] = drop(@, p)]

-----------------------------------------------------------------------------
(* gateway.go *)

\* A response of Watch: upd and drp are its UpdatedResources and
\* DroppedResources, again the ids that were put again after their drop.
\* BeforeBatch, OnUpdated and OnDropped only fill the maps of the batch;
\* a resource with another spec is skipped.
Batch(upd, drp, again) ==
    LET isPolicy(spec) == spec \notin {Foreign, None}
        told(i) == IF i \in again THEN stored[i]
                   ELSE IF upd[i] # None THEN upd[i] ELSE stored[i]
        put == {i \in Ids : isPolicy(upd[i])}
        gone == {i \in drp : isPolicy(told(i))}
    IN  /\ pc = "idle"
        /\ again \subseteq drp
        /\ Cardinality({i \in Ids : upd[i] # None}) + Cardinality(drp)
               \in 1..PageSize
        /\ \A i \in drp : told(i) # None
        /\ \A i \in again : upd[i] # None
        /\ pc' = "drop"
        /\ updated' = [i \in Ids |-> IF i \in put THEN upd[i] ELSE None]
        /\ dropped' = gone
        /\ stored' = [i \in Ids |-> IF i \in drp \ again THEN None
                                    ELSE IF upd[i] # None THEN upd[i]
                                    ELSE stored[i]]
        \* A policy that turned into something else, or that was created or
        \* changed and dropped in one page.
        /\ missed' = (missed \ (put \cup gone)) \cup
               {i \in Ids \ again : upd[i] = Foreign /\ isPolicy(stored[i])} \cup
               ((put \cap drp) \ again)
        /\ UNCHANGED <<active, tries, contested, vacated>>

\* Mutant of AfterBatch_drop: the policy is taken from the dropped resource's
\* matcher but stays active.
AfterBatch_drop_StaysActive(i) ==
    /\ pc = "drop" /\ i \in dropped
    /\ dropped' = dropped \ {i}
    /\ tries' = IF active[i] = None THEN tries ELSE dropPolicy(active[i])
    /\ UNCHANGED <<pc, stored, active, updated, contested, vacated, missed>>

\* AfterBatch, one dropped resource, in any order.
AfterBatch_drop(i) ==
    /\ pc = "drop" /\ i \in dropped
    /\ dropped' = dropped \ {i}
    /\ active' = [active EXCEPT ![i] = None]
    /\ tries' = IF active[i] = None THEN tries ELSE dropPolicy(active[i])
    /\ vacated' = IF active[i] = None THEN vacated
                  ELSE vacated \ {active[i].source}
    /\ UNCHANGED <<pc, stored, updated, contested, missed>>

AfterBatch_dropsDone ==
    /\ pc = "drop" /\ dropped = {}
    /\ pc' = "update"
    /\ UNCHANGED <<stored, active, updated, dropped, tries, contested, vacated,
                   missed>>

\* addPolicyToHandlerMap panics: getHandlerFromOneOf knows only AWS Lambda.
HandlerPanics(p) == "unset" \in p.handlers

\* AfterBatch, one updated resource, in any order.  The matcher is not told of
\* the policy it replaces.
AfterBatch_update(i) ==
    LET p == PolicyOf(i, updated[i])
    IN  /\ pc = "update" /\ updated[i] # None
        /\ updated' = [updated EXCEPT ![i] = None]
        /\ active' = [active EXCEPT ![i] = p]
        /\ tries' = addPolicy(p)
        /\ vacated' =
               (vacated \cup (IF active[i] = None THEN {}
                              ELSE {active[i].source} \ {None}))
                   \ {p.source}
        /\ pc' = IF HandlerPanics(p) THEN "crashed" ELSE "update"
        /\ UNCHANGED <<stored, dropped, contested, missed>>

\* The ids whose active policy has the source s.
Users(s) == {i \in Ids : active[i] # None /\ active[i].source = s}

\* The end of AfterBatch: ProcessPolicies of the lambda handler does nothing.
AfterBatch_end ==
    /\ pc = "update" /\ \A i \in Ids : updated[i] = None
    /\ pc' = "idle"
    /\ contested' = {s \in Sources :
           \/ \E i, j \in Users(s) : i # j
           \/ s \in contested /\ Users(s) # {}}
    /\ vacated' = {s \in vacated : Entry(s) # None}
    /\ UNCHANGED <<stored, active, updated, dropped, tries, missed>>

AfterBatch ==
    \/ \E i \in Ids : AfterBatch_drop(i) \/ AfterBatch_update(i)
    \/ AfterBatch_dropsDone \/ AfterBatch_end

Next ==
    \/ \E upd \in [Ids -> Specs \cup {Foreign, None}],
          drp, again \in SUBSET Ids : Batch(upd, drp, again)
    \/ AfterBatch

Spec == Init /\ [][Next]_vars

-----------------------------------------------------------------------------
Table == INSTANCE PolicyTable WITH table <- [s \in Sources |-> Entry(s)]

\* The nested tries implement the table: adding or dropping a policy changes
\* the entry of its own source and no other, at any moment of a batch.
ImplementsTable == Table!TableSpec

\* At every moment, also in the middle of a batch, a call is matched to the
\* policy of the longest routed prefix; only an HTTP call whose path meets a
\* node that drops have emptied may find no policy instead.
MatchIsBest ==
    \A r \in Requests :
        \/ matchPolicy(r) = Table!Best(r)
        \/ /\ r.kind = "http" /\ matchPolicy(r) = None
           /\ \E k \in PrefixesOf[r.key] : tries[<<"http", FALSE>>][k] = EmptyNode

\* An active policy is reached by its source, unless two active policies have
\* had that source: also a source that one resource hands over to another
\* within one batch.
ActiveIsRouted ==
    \A i \in Ids :
        active[i] # None /\ active[i].source \notin contested \cup {None} =>
            Entry(active[i].source) = active[i]

\* A policy in the matchers is active, unless an update has moved it away from
\* that source or two active policies have had it.
RoutedIsActive ==
    \A s \in Sources \ (contested \cup vacated) :
        Entry(s) # None => active[Entry(s).id] = Entry(s)

\* Between batches the matchers route by the active policies and by no other,
\* with these exceptions: addPolicy and dropPolicy are told of one source only.
MatchersInStep == pc = "idle" => ActiveIsRouted /\ RoutedIsActive

\* Between batches the active policies are those of the resource store, except
\* for resources whose last change is skipped.
InStepWithStore ==
    pc = "idle" => \A i \in Ids \ missed :
        active[i] = IF stored[i] \in {Foreign, None} THEN None
                    ELSE PolicyOf(i, stored[i])
=============================================================================

--------------------------- MODULE GatewayProofs ---------------------------
(***************************************************************************)
(* Proofs about the gateway policies, for any keys, methods, resources,    *)
(* policies and pages: the tries implement the table of sources, a call is *)
(* matched by the longest prefix, and between batches the matchers, the    *)
(* active policies and the resource store agree.                           *)
(***************************************************************************)
EXTENDS Gateway, TLAPS

-----------------------------------------------------------------------------
(* The inductive invariant *)

\* A policy is kept under its own source.
EntriesInPlace ==
    \A s \in Sources : Entry(s) # None =>
        Entry(s) \in Policies /\ Entry(s).source = s

\* A gRPC node is never empty: drop removes it as a whole.
GrpcNodesUsed ==
    \A exact \in BOOLEAN, k \in Keys :
        tries[<<"grpc", exact>>][k] # None =>
            tries[<<"grpc", exact>>][k][Undefined] # None

\* The maps of the batch are empty when they are done with.
BatchDone ==
    /\ pc = "idle" => \A i \in Ids : updated[i] = None
    /\ pc \in {"idle", "update"} => dropped = {}

\* The policy that a resource should have.
Wanted(i) ==
    IF stored[i] \in {Foreign, None} THEN None ELSE PolicyOf(i, stored[i])

\* A resource is in step, or what is left of the batch brings it in step.
BatchInStep ==
    \A i \in Ids \ missed :
        /\ updated[i] # None => stored[i] = updated[i]
        /\ updated[i] = None /\ i \in dropped => Wanted(i) = None
        /\ updated[i] = None /\ i \notin dropped => active[i] = Wanted(i)

\* Until the updates of a batch, a source that two policies have is contested.
SharedIsContested ==
    pc \in {"idle", "drop"} =>
        \A i, j \in Ids : \A s \in Sources \ contested :
            i \in Users(s) /\ j \in Users(s) => i = j

\* An active policy is reached by its source, or else one that this batch has
\* updated is: that one keeps its source until the end of the batch.
ReachedOrUpdated ==
    \A i \in Ids : \A s \in Sources \ contested :
        i \in Users(s) =>
            \E j \in Users(s) :
                /\ Entry(s) = active[j]
                /\ \/ j = i
                   \/ updated[j] = None /\ pc \in {"update", "crashed"}

\* What is routed and not left over by an update has a policy.
RoutedIsUsed ==
    \A s \in Sources \ vacated : Entry(s) # None => Users(s) # {}

GatewayInv ==
    /\ TypeOK /\ EntriesInPlace /\ GrpcNodesUsed /\ BatchDone /\ BatchInStep
    /\ SharedIsContested /\ ReachedOrUpdated /\ RoutedIsActive /\ RoutedIsUsed

-----------------------------------------------------------------------------
(* The operators of the matchers *)

Kinds == {"http", "grpc"}

\* A source is known by its four parts.
LEMMA SourceParts ==
    ASSUME NEW s \in Sources
    PROVE  /\ s.kind \in Kinds /\ s.key \in Keys
           /\ s.method \in Slots /\ s.exact \in BOOLEAN
           /\ s.kind = "grpc" => s.method = Undefined
           /\ s = [kind |-> s.kind, key |-> s.key, method |-> s.method,
                   exact |-> s.exact]
  BY DEF Sources, Slots, Kinds

\* A policy has the id of its resource and one source at most.
LEMMA PolicyParts ==
    /\ \A i \in Ids, spec \in Specs :
           /\ PolicyOf(i, spec) \in Policies
           /\ PolicyOf(i, spec).id = i
           /\ PolicyOf(i, spec).source = spec.source
    /\ \A p \in Policies : p.id \in Ids /\ p.source \in Sources \cup {None}
    /\ None \notin Policies /\ None \notin Nodes
  BY SpecsAssumption DEF Policies, PolicyOf

\* insert starts a node with no policy.
LEMMA EmptyNodeType == EmptyNode \in Nodes
  BY DEF EmptyNode, Nodes

\* A node is found or not, and it has an entry for each method.
LEMMA NodeType ==
    ASSUME TypeOK, NEW kind \in Kinds, NEW exact \in BOOLEAN, NEW k \in Keys
    PROVE  /\ tries[<<kind, exact>>] \in [Keys -> Nodes \cup {None}]
           /\ tries[<<kind, exact>>][k] \in Nodes \cup {None}
           /\ tries[<<kind, exact>>][k] # None =>
                  \A m \in Slots : tries[<<kind, exact>>][k][m]
                                       \in Policies \cup {None}
  <1>1. <<kind, exact>> \in {"http", "grpc"} \X BOOLEAN
    BY DEF Kinds
  <1>2. tries[<<kind, exact>>] \in [Keys -> Nodes \cup {None}]
    BY <1>1 DEF TypeOK
  <1>3. tries[<<kind, exact>>][k] \in Nodes \cup {None}
    BY <1>2
  <1> QED
    BY <1>2, <1>3 DEF Nodes

\* The entry of a source is a policy or nothing.
LEMMA EntryType ==
    ASSUME TypeOK, NEW s \in Sources
    PROVE  Entry(s) \in Policies \cup {None}
  <1>1. /\ s.kind \in Kinds /\ s.exact \in BOOLEAN
        /\ s.key \in Keys /\ s.method \in Slots
    BY SourceParts
  <1> QED
    BY <1>1, NodeType DEF Entry

\* insert fills the slot of the policy and no other; a gRPC node has just one.
LEMMA InsertNode ==
    ASSUME NEW trie \in [Keys -> Nodes \cup {None}],
           NEW p \in Policies, p.source \in Sources
    PROVE  /\ insert(trie, p) \in [Keys -> Nodes \cup {None}]
           /\ \A k \in Keys \ {p.source.key} : insert(trie, p)[k] = trie[k]
           /\ insert(trie, p)[p.source.key] # None
           /\ insert(trie, p)[p.source.key][p.source.method] = p
           /\ p.source.kind # "grpc" =>
                  \A m \in Slots \ {p.source.method} :
                      insert(trie, p)[p.source.key][m] =
                          IF trie[p.source.key] = None THEN None
                          ELSE trie[p.source.key][m]
  <1> DEFINE key == p.source.key
             mth == p.source.method
             node == IF p.source.kind = "grpc" \/ trie[key] = None
                     THEN EmptyNode ELSE trie[key]
             new == [node EXCEPT ![mth] = p]
  <1>1. key \in Keys /\ mth \in Slots
    BY SourceParts
  <1>2. node \in Nodes
    BY <1>1, EmptyNodeType
  <1>3. new \in Nodes /\ new[mth] = p
    BY <1>1, <1>2 DEF Nodes
  <1>4. \A m \in Slots \ {mth} : new[m] = node[m]
    BY <1>2 DEF Nodes
  <1>5. insert(trie, p) = [trie EXCEPT ![key] = new]
    BY DEF insert
  <1>6. \A m \in Slots : EmptyNode[m] = None
    BY DEF EmptyNode
  <1> HIDE DEF new
  <1>7. insert(trie, p) \in [Keys -> Nodes \cup {None}] /\ insert(trie, p)[key] = new
    BY <1>1, <1>3, <1>5
  <1>8. \A k \in Keys \ {key} : insert(trie, p)[k] = trie[k]
    BY <1>1, <1>3, <1>5
  <1>9. new # None
    BY <1>3, PolicyParts
  <1> QED
    BY <1>3, <1>4, <1>6, <1>7, <1>8, <1>9

\* drop empties the slot of the policy and no other.
LEMMA DropNode ==
    ASSUME NEW trie \in [Keys -> Nodes \cup {None}],
           NEW p \in Policies, p.source \in Sources
    PROVE  /\ drop(trie, p) \in [Keys -> Nodes \cup {None}]
           /\ \A k \in Keys \ {p.source.key} : drop(trie, p)[k] = trie[k]
           /\ p.source.kind = "grpc" => drop(trie, p)[p.source.key] = None
           /\ p.source.kind # "grpc" =>
                  /\ drop(trie, p)[p.source.key] = None
                         <=> trie[p.source.key] = None
                  /\ trie[p.source.key] # None =>
                     \A m \in Slots : drop(trie, p)[p.source.key][m] =
                         IF m = p.source.method THEN None
                         ELSE trie[p.source.key][m]
  <1> DEFINE key == p.source.key
             mth == p.source.method
  <1>1. key \in Keys /\ mth \in Slots
    BY SourceParts
  <1>2. CASE trie[key] = None
    BY <1>2, <1>1 DEF drop
  <1>3. CASE trie[key] # None /\ p.source.kind = "grpc"
    <2>1. drop(trie, p) = [trie EXCEPT ![key] = None]
      BY <1>3 DEF drop
    <2> QED
      BY <2>1, <1>1, <1>3
  <1>4. CASE trie[key] # None /\ p.source.kind # "grpc"
    <2> DEFINE new == [trie[key] EXCEPT ![mth] = None]
    <2>1. trie[key] \in Nodes
      BY <1>1, <1>4
    <2>2. new \in Nodes
      BY <2>1 DEF Nodes
    <2>3. \A m \in Slots : new[m] = IF m = mth THEN None ELSE trie[key][m]
      BY <2>1 DEF Nodes
    <2>4. drop(trie, p) = [trie EXCEPT ![key] = new]
      BY <1>4, <1>1 DEF drop
    <2> HIDE DEF new
    <2>5. drop(trie, p) \in [Keys -> Nodes \cup {None}] /\ drop(trie, p)[key] = new
      BY <1>1, <2>2, <2>4
    <2>6. \A k \in Keys \ {key} : drop(trie, p)[k] = trie[k]
      BY <1>1, <2>2, <2>4
    <2>7. new # None
      BY <2>2, PolicyParts
    <2> QED
      BY <1>4, <2>3, <2>5, <2>6, <2>7
  <1> QED
    BY <1>2, <1>3, <1>4

\* Adding a policy changes the entry of its source and no other.
LEMMA AddEntries ==
    ASSUME TypeOK, GrpcNodesUsed, NEW p \in Policies, p.source \in Sources,
           tries' = addPolicy(p)
    PROVE  /\ tries' \in [Kinds \X BOOLEAN -> [Keys -> Nodes \cup {None}]]
           /\ \A s \in Sources :
                  Entry(s)' = IF s = p.source THEN p ELSE Entry(s)
           /\ GrpcNodesUsed'
  <1> DEFINE t == <<p.source.kind, p.source.exact>>
             new == insert(tries[t], p)
  <1>1. /\ p.source.kind \in Kinds /\ p.source.exact \in BOOLEAN
        /\ p.source.key \in Keys /\ p.source.method \in Slots
        /\ p.source.kind = "grpc" => p.source.method = Undefined
    BY SourceParts
  <1>2. tries \in [Kinds \X BOOLEAN -> [Keys -> Nodes \cup {None}]]
    BY DEF TypeOK, Kinds
  <1>3. t \in Kinds \X BOOLEAN /\ tries[t] \in [Keys -> Nodes \cup {None}]
    BY <1>1, <1>2
  <1>4. tries' = [tries EXCEPT ![t] = new]
    BY NoneAssumption DEF addPolicy
  <1>5. /\ new \in [Keys -> Nodes \cup {None}]
        /\ \A k \in Keys \ {p.source.key} : new[k] = tries[t][k]
        /\ new[p.source.key] # None
        /\ new[p.source.key][p.source.method] = p
        /\ p.source.kind # "grpc" =>
               \A m \in Slots \ {p.source.method} :
                   new[p.source.key][m] =
                       IF tries[t][p.source.key] = None THEN None
                       ELSE tries[t][p.source.key][m]
    BY <1>3, InsertNode
  <1> HIDE DEF new
  <1>6. tries' \in [Kinds \X BOOLEAN -> [Keys -> Nodes \cup {None}]]
    BY <1>2, <1>3, <1>4, <1>5
  <1>7. /\ tries'[t] = new
        /\ \A u \in Kinds \X BOOLEAN : u # t => tries'[u] = tries[u]
    BY <1>2, <1>3, <1>4
  <1>8. ASSUME NEW s \in Sources
        PROVE  Entry(s)' = IF s = p.source THEN p ELSE Entry(s)
    <2>1. /\ s.kind \in Kinds /\ s.exact \in BOOLEAN
          /\ s.key \in Keys /\ s.method \in Slots
          /\ s.kind = "grpc" => s.method = Undefined
          /\ <<s.kind, s.exact>> \in Kinds \X BOOLEAN
      BY SourceParts
    <2>2. s = p.source <=> /\ <<s.kind, s.exact>> = t
                           /\ s.key = p.source.key
                           /\ s.method = p.source.method
      BY SourceParts, <2>1, <1>1
    <2> DEFINE u == <<s.kind, s.exact>>
    <2>3. Entry(s)' = IF tries'[u][s.key] = None THEN None
                      ELSE tries'[u][s.key][s.method]
      BY DEF Entry
    <2>4. Entry(s) = IF tries[u][s.key] = None THEN None
                     ELSE tries[u][s.key][s.method]
      BY DEF Entry
    <2>5. CASE u # t
      BY <2>1, <2>2, <2>3, <2>4, <2>5, <1>7
    <2>6. CASE u = t /\ s.key # p.source.key
      BY <2>1, <2>2, <2>3, <2>4, <2>6, <1>7, <1>5
    <2>7. CASE s = p.source
      BY <2>1, <2>2, <2>3, <2>7, <1>7, <1>5
    <2>8. CASE u = t /\ s.key = p.source.key /\ s.method # p.source.method
      <3>1. s.kind = p.source.kind
        BY <2>8
      <3>2. p.source.kind # "grpc"
        BY <2>1, <2>8, <3>1, <1>1
      <3>3. tries'[u][s.key] # None /\ s.method \in Slots \ {p.source.method}
        BY <2>1, <2>8, <1>7, <1>5
      <3>4. tries'[u][s.key][s.method] = Entry(s)
        BY <2>4, <2>8, <3>2, <3>3, <1>7, <1>5
      <3> QED
        BY <2>2, <2>3, <2>8, <3>3, <3>4
    <2> QED
      BY <2>2, <2>5, <2>6, <2>7, <2>8
  <1>9. GrpcNodesUsed'
    <2> SUFFICES ASSUME NEW exact \in BOOLEAN, NEW k \in Keys,
                        tries'[<<"grpc", exact>>][k] # None
                 PROVE  tries'[<<"grpc", exact>>][k][Undefined] # None
      BY DEF GrpcNodesUsed
    <2> DEFINE u == <<"grpc", exact>>
    <2>1. u \in Kinds \X BOOLEAN
      BY DEF Kinds
    <2>2. CASE u # t \/ k # p.source.key
      <3>1. tries'[u][k] = tries[u][k]
        BY <2>1, <2>2, <1>5, <1>7
      <3> QED
        BY <3>1 DEF GrpcNodesUsed
    <2>3. CASE u = t /\ k = p.source.key
      <3>1. p.source.kind = "grpc"
        BY <2>3
      <3>2. tries'[u][k][Undefined] = p
        BY <2>3, <3>1, <1>1, <1>5, <1>7
      <3> QED
        BY <3>2, PolicyParts
    <2> QED
      BY <2>2, <2>3
  <1> QED
    BY <1>6, <1>8, <1>9

\* Dropping a policy empties the entry of its source and leaves the others.
LEMMA DropEntries ==
    ASSUME TypeOK, GrpcNodesUsed, NEW p \in Policies, p.source \in Sources,
           tries' = dropPolicy(p)
    PROVE  /\ tries' \in [Kinds \X BOOLEAN -> [Keys -> Nodes \cup {None}]]
           /\ \A s \in Sources :
                  Entry(s)' = IF s = p.source THEN None ELSE Entry(s)
           /\ GrpcNodesUsed'
  <1> DEFINE t == <<p.source.kind, p.source.exact>>
             new == drop(tries[t], p)
  <1>1. /\ p.source.kind \in Kinds /\ p.source.exact \in BOOLEAN
        /\ p.source.key \in Keys /\ p.source.method \in Slots
        /\ p.source.kind = "grpc" => p.source.method = Undefined
    BY SourceParts
  <1>2. tries \in [Kinds \X BOOLEAN -> [Keys -> Nodes \cup {None}]]
    BY DEF TypeOK, Kinds
  <1>3. t \in Kinds \X BOOLEAN /\ tries[t] \in [Keys -> Nodes \cup {None}]
    BY <1>1, <1>2
  <1>4. tries' = [tries EXCEPT ![t] = new]
    BY NoneAssumption DEF dropPolicy
  <1>5. /\ new \in [Keys -> Nodes \cup {None}]
        /\ \A k \in Keys \ {p.source.key} : new[k] = tries[t][k]
        /\ p.source.kind = "grpc" => new[p.source.key] = None
        /\ p.source.kind # "grpc" =>
               /\ new[p.source.key] = None <=> tries[t][p.source.key] = None
               /\ tries[t][p.source.key] # None =>
                  \A m \in Slots : new[p.source.key][m] =
                      IF m = p.source.method THEN None
                      ELSE tries[t][p.source.key][m]
    BY <1>3, DropNode
  <1> HIDE DEF new
  <1>6. tries' \in [Kinds \X BOOLEAN -> [Keys -> Nodes \cup {None}]]
    BY <1>2, <1>3, <1>4, <1>5
  <1>7. /\ tries'[t] = new
        /\ \A u \in Kinds \X BOOLEAN : u # t => tries'[u] = tries[u]
    BY <1>2, <1>3, <1>4
  <1>8. ASSUME NEW s \in Sources
        PROVE  Entry(s)' = IF s = p.source THEN None ELSE Entry(s)
    <2>1. /\ s.kind \in Kinds /\ s.exact \in BOOLEAN
          /\ s.key \in Keys /\ s.method \in Slots
          /\ s.kind = "grpc" => s.method = Undefined
          /\ <<s.kind, s.exact>> \in Kinds \X BOOLEAN
      BY SourceParts
    <2>2. s = p.source <=> /\ <<s.kind, s.exact>> = t
                           /\ s.key = p.source.key
                           /\ s.method = p.source.method
      BY SourceParts, <2>1, <1>1
    <2> DEFINE u == <<s.kind, s.exact>>
    <2>3. Entry(s)' = IF tries'[u][s.key] = None THEN None
                      ELSE tries'[u][s.key][s.method]
      BY DEF Entry
    <2>4. Entry(s) = IF tries[u][s.key] = None THEN None
                     ELSE tries[u][s.key][s.method]
      BY DEF Entry
    <2>5. CASE u # t \/ s.key # p.source.key
      <3>1. tries'[u][s.key] = tries[u][s.key]
        BY <2>1, <2>5, <1>5, <1>7
      <3> QED
        BY <2>2, <2>3, <2>4, <2>5, <3>1
    <2>6. CASE u = t /\ s.key = p.source.key /\ s.kind = "grpc"
      <3>1. p.source.kind = "grpc" /\ s = p.source
        BY <2>1, <2>2, <2>6, <1>1
      <3> QED
        BY <2>3, <2>6, <3>1, <1>5, <1>7
    <2>7. CASE u = t /\ s.key = p.source.key /\ s.kind # "grpc"
      <3>1. p.source.kind # "grpc"
        BY <2>7
      <3> QED
        BY <2>1, <2>2, <2>3, <2>4, <2>7, <3>1, <1>5, <1>7
    <2> QED
      BY <2>5, <2>6, <2>7
  <1>9. GrpcNodesUsed'
    <2> SUFFICES ASSUME NEW exact \in BOOLEAN, NEW k \in Keys,
                        tries'[<<"grpc", exact>>][k] # None
                 PROVE  tries'[<<"grpc", exact>>][k][Undefined] # None
      BY DEF GrpcNodesUsed
    <2> DEFINE u == <<"grpc", exact>>
    <2>1. u \in Kinds \X BOOLEAN
      BY DEF Kinds
    <2>2. CASE u # t \/ k # p.source.key
      <3>1. tries'[u][k] = tries[u][k]
        BY <2>1, <2>2, <1>5, <1>7
      <3> QED
        BY <3>1 DEF GrpcNodesUsed
    <2>3. CASE u = t /\ k = p.source.key
      <3>1. p.source.kind = "grpc"
        BY <2>3
      <3> QED
        BY <2>3, <3>1, <1>5, <1>7
    <2> QED
      BY <2>2, <2>3
  <1> QED
    BY <1>6, <1>8, <1>9

-----------------------------------------------------------------------------
(* Each step keeps the invariant *)

\* The gateway starts with no policy at all.
LEMMA GatewayInit == Init => GatewayInv
  <1> SUFFICES ASSUME Init PROVE GatewayInv
    OBVIOUS
  <1>1. TypeOK
    BY DEF Init, TypeOK
  <1>2. ASSUME NEW s \in Sources
        PROVE  Entry(s) = None
    <2>1. s.key \in Keys /\ <<s.kind, s.exact>> \in {"http", "grpc"} \X BOOLEAN
      BY SourceParts DEF Kinds
    <2> QED
      BY <2>1 DEF Init, Entry
  <1>3. GrpcNodesUsed
    BY DEF Init, GrpcNodesUsed
  <1>4. \A s \in Sources : Users(s) = {}
    BY DEF Init, Users
  <1> QED
    BY <1>1, <1>2, <1>3, <1>4 DEF Init, GatewayInv, EntriesInPlace, BatchDone,
       BatchInStep, Wanted, SharedIsContested, ReachedOrUpdated,
       RoutedIsActive, RoutedIsUsed

\* What the invariant says of the matchers only depends on these variables.
LEMMA MatchersUnchanged ==
    ASSUME UNCHANGED <<active, tries>>
    PROVE  /\ \A s \in Sources : Entry(s)' = Entry(s)
           /\ \A s \in Sources : Users(s)' = Users(s)
           /\ EntriesInPlace => EntriesInPlace'
           /\ GrpcNodesUsed => GrpcNodesUsed'
  BY DEF Entry, Users, EntriesInPlace, GrpcNodesUsed

\* A batch changes the store and the maps; what it skips is in missed.
LEMMA BatchStep ==
    ASSUME GatewayInv, NEW upd \in [Ids -> Specs \cup {Foreign, None}],
           NEW drp \in SUBSET Ids, NEW again \in SUBSET Ids,
           Batch(upd, drp, again)
    PROVE  GatewayInv'
  <1>1. TypeOK'
    BY DEF GatewayInv, TypeOK, Batch
  <1>2. EntriesInPlace' /\ GrpcNodesUsed'
    BY MatchersUnchanged DEF Batch, GatewayInv
  <1>3. BatchDone'
    BY DEF Batch, BatchDone
  <1>4. BatchInStep'
    <2> SUFFICES ASSUME NEW i \in Ids, i \notin missed'
                 PROVE  /\ updated'[i] # None => stored'[i] = updated'[i]
                        /\ updated'[i] = None /\ i \in dropped' =>
                               Wanted(i)' = None
                        /\ updated'[i] = None /\ i \notin dropped' =>
                               active'[i] = Wanted(i)'
      BY DEF BatchInStep
    <2> DEFINE put == upd[i] \notin {Foreign, None}
               told == IF i \in again THEN stored[i]
                       ELSE IF upd[i] # None THEN upd[i] ELSE stored[i]
               gone == i \in drp /\ told \notin {Foreign, None}
    <2>1. /\ updated'[i] = IF put THEN upd[i] ELSE None
          /\ i \in dropped' <=> gone
          /\ stored'[i] = IF i \in drp \ again THEN None
                          ELSE IF upd[i] # None THEN upd[i] ELSE stored[i]
          /\ active'[i] = active[i]
          /\ again \subseteq drp /\ (i \in again => upd[i] # None)
      BY DEF Batch
    <2>2. /\ i \in missed => put \/ gone
          /\ ~(i \notin again /\ upd[i] = Foreign
               /\ stored[i] \notin {Foreign, None})
          /\ ~(put /\ i \in drp /\ i \notin again)
      BY DEF Batch
    <2>3. i \notin missed => active[i] = Wanted(i)
      BY DEF Batch, GatewayInv, BatchDone, BatchInStep
    <2>4. Wanted(i)' = IF stored'[i] \in {Foreign, None} THEN None
                       ELSE PolicyOf(i, stored'[i])
      BY DEF Wanted
    <2>5. upd[i] \in Specs \cup {Foreign, None} /\ Foreign # None
      BY SpecsAssumption
    <2>6. CASE put
      BY <2>1, <2>2, <2>6
    <2>7. CASE ~put /\ gone
      BY <2>1, <2>4, <2>5, <2>7
    <2>8. CASE ~put /\ ~gone
      <3>1. active'[i] = Wanted(i)
        BY <2>1, <2>2, <2>3, <2>8
      <3>2. Wanted(i)' = Wanted(i)
        BY <2>1, <2>2, <2>4, <2>5, <2>8 DEF Wanted
      <3> QED
        BY <2>1, <2>8, <3>1, <3>2
    <2> QED
      BY <2>6, <2>7, <2>8
  <1>5. SharedIsContested'
    BY MatchersUnchanged DEF Batch, GatewayInv, SharedIsContested
  <1>6. ReachedOrUpdated'
    BY MatchersUnchanged DEF Batch, GatewayInv, ReachedOrUpdated
  <1>7. RoutedIsActive' /\ RoutedIsUsed'
    BY MatchersUnchanged DEF Batch, GatewayInv, RoutedIsActive, RoutedIsUsed
  <1> QED
    BY <1>1, <1>2, <1>3, <1>4, <1>5, <1>6, <1>7 DEF GatewayInv

\* Dropping a resource takes its policy out of the matchers, and no other
\* policy of an uncontested source.
LEMMA DropStep ==
    ASSUME GatewayInv, NEW i \in Ids, AfterBatch_drop(i)
    PROVE  GatewayInv'
  <1> DEFINE gone(s) == active[i] # None /\ active[i].source = s
  <1>0. active \in [Ids -> Policies \cup {None}] /\ active' = [active EXCEPT ![i] = None]
    BY DEF GatewayInv, TypeOK, AfterBatch_drop
  <1>1. /\ tries' \in [Kinds \X BOOLEAN -> [Keys -> Nodes \cup {None}]]
        /\ \A s \in Sources : Entry(s)' = IF gone(s) THEN None ELSE Entry(s)
        /\ GrpcNodesUsed'
    <2>1. CASE active[i] = None \/ active[i].source = None
      <3>1. tries' = tries
        BY <2>1 DEF AfterBatch_drop, dropPolicy
      <3>2. \A s \in Sources : ~gone(s)
        BY <2>1, NoneAssumption
      <3> QED
        BY <3>1, <3>2 DEF GatewayInv, TypeOK, Kinds, Entry, GrpcNodesUsed
    <2>2. CASE active[i] # None /\ active[i].source # None
      <3>1. active[i] \in Policies /\ active[i].source \in Sources
        BY <2>2, <1>0, PolicyParts
      <3>2. tries' = dropPolicy(active[i])
        BY <2>2 DEF AfterBatch_drop
      <3> QED
        BY <2>2, <3>1, <3>2, DropEntries DEF GatewayInv
    <2> QED
      BY <2>1, <2>2
  <1>2. \A s \in Sources, k \in Ids : k \in Users(s)' <=> k \in Users(s) /\ k # i
    BY <1>0 DEF Users
  <1>3. \A s \in Sources : s \notin vacated' => s \notin vacated \/ gone(s)
    BY DEF AfterBatch_drop
  <1>4. \A s \in Sources : gone(s) <=> i \in Users(s)
    BY DEF Users
  <1>5. TypeOK'
    BY <1>1 DEF GatewayInv, TypeOK, AfterBatch_drop, Kinds
  <1>6. EntriesInPlace'
    BY <1>1 DEF GatewayInv, EntriesInPlace
  <1>7. BatchDone'
    BY DEF AfterBatch_drop, BatchDone, GatewayInv
  <1>8. BatchInStep'
    <2> SUFFICES ASSUME NEW k \in Ids, k \notin missed
                 PROVE  /\ updated[k] # None => stored[k] = updated[k]
                        /\ updated[k] = None /\ k \in dropped' =>
                               Wanted(k) = None
                        /\ updated[k] = None /\ k \notin dropped' =>
                               active'[k] = Wanted(k)
      BY DEF AfterBatch_drop, BatchInStep, Wanted
    <2> QED
      BY <1>0 DEF AfterBatch_drop, GatewayInv, BatchInStep
  <1>9. SharedIsContested'
    BY <1>2 DEF AfterBatch_drop, GatewayInv, SharedIsContested
  <1>10. ReachedOrUpdated'
    <2> SUFFICES ASSUME NEW k \in Ids, NEW s \in Sources, s \notin contested,
                        k \in Users(s)'
                 PROVE  Entry(s)' = active'[k]
      BY DEF ReachedOrUpdated, AfterBatch_drop
    <2>1. k \in Users(s) /\ k # i
      BY <1>2
    <2>2. Entry(s) = active[k]
      BY <2>1 DEF GatewayInv, ReachedOrUpdated, AfterBatch_drop
    <2>3. ~gone(s)
      BY <2>1, <1>4 DEF GatewayInv, SharedIsContested, AfterBatch_drop
    <2> QED
      BY <2>1, <2>2, <2>3, <1>0, <1>1
  <1>11. RoutedIsActive'
    <2> SUFFICES ASSUME NEW s \in Sources, s \notin contested', s \notin vacated',
                        Entry(s)' # None
                 PROVE  active'[Entry(s)'.id] = Entry(s)'
      BY DEF RoutedIsActive
    <2>1. ~gone(s) /\ Entry(s)' = Entry(s) /\ Entry(s) # None
      BY <1>1
    <2>2. s \notin contested /\ s \notin vacated
      BY <2>1, <1>3 DEF AfterBatch_drop
    <2>3. active[Entry(s).id] = Entry(s)
      BY <2>1, <2>2 DEF GatewayInv, RoutedIsActive
    <2>4. Entry(s) \in Policies /\ Entry(s).source = s
      BY <2>1 DEF GatewayInv, EntriesInPlace
    <2>5. Entry(s).id \in Ids /\ Entry(s).id # i
      BY <2>1, <2>3, <2>4, PolicyParts
    <2> QED
      BY <2>1, <2>3, <2>5, <1>0
  <1>12. RoutedIsUsed'
    <2> SUFFICES ASSUME NEW s \in Sources, s \notin vacated', Entry(s)' # None
                 PROVE  Users(s)' # {}
      BY DEF RoutedIsUsed
    <2>1. ~gone(s) /\ Entry(s) # None
      BY <1>1
    <2>2. PICK k \in Users(s) : TRUE
      BY <2>1, <1>3 DEF GatewayInv, RoutedIsUsed
    <2>3. k \in Ids
      BY DEF Users
    <2> QED
      BY <2>1, <2>2, <2>3, <1>2, <1>4
  <1> QED
    BY <1>1, <1>5, <1>6, <1>7, <1>8, <1>9, <1>10, <1>11, <1>12 DEF GatewayInv

\* Between the drops and the updates nothing changes.
LEMMA DropsDoneStep ==
    ASSUME GatewayInv, AfterBatch_dropsDone
    PROVE  GatewayInv'
  <1>1. EntriesInPlace' /\ GrpcNodesUsed'
    BY MatchersUnchanged DEF AfterBatch_dropsDone, GatewayInv
  <1>2. TypeOK' /\ BatchDone'
    BY DEF AfterBatch_dropsDone, GatewayInv, TypeOK, BatchDone
  <1>3. BatchInStep'
    BY DEF AfterBatch_dropsDone, GatewayInv, BatchInStep, Wanted
  <1>4. SharedIsContested' /\ ReachedOrUpdated'
    BY MatchersUnchanged DEF AfterBatch_dropsDone, GatewayInv,
       SharedIsContested, ReachedOrUpdated
  <1>5. RoutedIsActive' /\ RoutedIsUsed'
    BY MatchersUnchanged
       DEF AfterBatch_dropsDone, GatewayInv, RoutedIsActive, RoutedIsUsed
  <1> QED
    BY <1>1, <1>2, <1>3, <1>4, <1>5 DEF GatewayInv

\* Updating a resource routes its source to its policy; the source it had
\* before is left to vacated.
LEMMA UpdateStep ==
    ASSUME GatewayInv, NEW i \in Ids, AfterBatch_update(i)
    PROVE  GatewayInv'
  <1> DEFINE p == PolicyOf(i, updated[i])
  <1>1. updated[i] \in Specs /\ updated \in [Ids -> Specs \cup {None}]
    BY DEF GatewayInv, TypeOK, AfterBatch_update
  <1>2. /\ p \in Policies /\ p # None
        /\ p.id = i /\ p.source \in Sources \cup {None}
    BY <1>1, PolicyParts
  <1>3. /\ active \in [Ids -> Policies \cup {None}]
        /\ active' = [active EXCEPT ![i] = p]
        /\ tries' = addPolicy(p)
        /\ pc = "update" /\ pc' \in {"update", "crashed"}
        /\ UNCHANGED <<stored, dropped, contested, missed>>
        /\ updated' = [updated EXCEPT ![i] = None]
    BY DEF GatewayInv, TypeOK, AfterBatch_update
  <1>4. \A s \in Sources : s \notin vacated' =>
            s = p.source \/ (s \notin vacated /\ i \notin Users(s))
    BY NoneAssumption DEF AfterBatch_update, Users
  <1>5. vacated' \subseteq Sources
    <2>1. active[i] = None \/ active[i].source \in Sources \cup {None}
      BY <1>3, PolicyParts
    <2> QED
      BY <2>1 DEF AfterBatch_update, GatewayInv, TypeOK
  <1> HIDE DEF p
  <1>6. /\ tries' \in [Kinds \X BOOLEAN -> [Keys -> Nodes \cup {None}]]
        /\ \A s \in Sources : Entry(s)' = IF s = p.source THEN p ELSE Entry(s)
        /\ GrpcNodesUsed'
    <2>1. CASE p.source = None
      <3>1. tries' = tries /\ \A s \in Sources : s # p.source
        BY <2>1, <1>3, NoneAssumption DEF addPolicy
      <3> QED
        BY <3>1 DEF GatewayInv, TypeOK, Kinds, Entry, GrpcNodesUsed
    <2>2. CASE p.source # None
      <3>1. p.source \in Sources
        BY <2>2, <1>2
      <3> QED
        BY <3>1, <1>2, <1>3, AddEntries DEF GatewayInv
    <2> QED
      BY <2>1, <2>2
  <1>7. \A s \in Sources, k \in Ids :
            k \in Users(s)' <=> IF k = i THEN s = p.source ELSE k \in Users(s)
    BY <1>2, <1>3 DEF Users
  <1>8. TypeOK'
    BY <1>1, <1>2, <1>3, <1>5, <1>6 DEF GatewayInv, TypeOK, Kinds
  <1>9. EntriesInPlace'
    BY <1>2, <1>6 DEF GatewayInv, EntriesInPlace
  <1>10. BatchDone'
    BY <1>3 DEF BatchDone, GatewayInv
  <1>11. BatchInStep'
    <2> SUFFICES ASSUME NEW k \in Ids, k \notin missed
                 PROVE  /\ updated'[k] # None => stored[k] = updated'[k]
                        /\ updated'[k] = None /\ k \in dropped =>
                               Wanted(k) = None
                        /\ updated'[k] = None /\ k \notin dropped =>
                               active'[k] = Wanted(k)
      BY <1>3 DEF BatchInStep, Wanted
    <2>1. CASE k # i
      BY <2>1, <1>1, <1>3 DEF GatewayInv, BatchInStep
    <2>2. CASE k = i
      <3>1. stored[i] = updated[i] /\ dropped = {}
        BY <2>2, <1>1, <1>3, SpecsAssumption
           DEF GatewayInv, BatchInStep, BatchDone
      <3>2. Wanted(i) = p
        BY <3>1, <1>1, SpecsAssumption DEF Wanted, p
      <3> QED
        BY <2>2, <3>1, <3>2, <1>1, <1>3
    <2> QED
      BY <2>1, <2>2
  <1>12. SharedIsContested'
    BY <1>3 DEF SharedIsContested
  <1>13. ReachedOrUpdated'
    <2> SUFFICES ASSUME NEW k \in Ids, NEW s \in Sources, s \notin contested,
                        k \in Users(s)'
                 PROVE  \E j \in Users(s)' : /\ Entry(s)' = active'[j]
                                             /\ j = k \/ updated'[j] = None
      BY <1>3 DEF ReachedOrUpdated
    <2>1. CASE s = p.source
      BY <2>1, <1>1, <1>3, <1>6, <1>7
    <2>2. CASE s # p.source
      <3>1. k # i /\ k \in Users(s)
        BY <2>2, <1>7
      <3>2. PICK j \in Users(s) : /\ Entry(s) = active[j]
                                  /\ j = k \/ updated[j] = None
        BY <3>1 DEF GatewayInv, ReachedOrUpdated
      <3>3. j \in Ids /\ j # i
        BY <3>1, <3>2, <1>1, SpecsAssumption DEF Users
      <3> QED
        BY <2>2, <3>2, <3>3, <1>1, <1>3, <1>6, <1>7
    <2> QED
      BY <2>1, <2>2
  <1>14. RoutedIsActive'
    <2> SUFFICES ASSUME NEW s \in Sources, s \notin contested, s \notin vacated',
                        Entry(s)' # None
                 PROVE  active'[Entry(s)'.id] = Entry(s)'
      BY <1>3 DEF RoutedIsActive
    <2>1. CASE s = p.source
      BY <2>1, <1>2, <1>3, <1>6
    <2>2. CASE s # p.source
      <3>1. Entry(s)' = Entry(s) /\ Entry(s) # None
        BY <2>2, <1>6
      <3>2. s \notin vacated /\ i \notin Users(s)
        BY <2>2, <1>4
      <3>3. active[Entry(s).id] = Entry(s)
        BY <3>1, <3>2 DEF GatewayInv, RoutedIsActive
      <3>4. Entry(s) \in Policies /\ Entry(s).source = s
        BY <3>1 DEF GatewayInv, EntriesInPlace
      <3>5. Entry(s).id \in Ids /\ Entry(s).id # i
        BY <3>1, <3>2, <3>3, <3>4, PolicyParts DEF Users
      <3> QED
        BY <3>1, <3>3, <3>5, <1>3
    <2> QED
      BY <2>1, <2>2
  <1>15. RoutedIsUsed'
    <2> SUFFICES ASSUME NEW s \in Sources, s \notin vacated', Entry(s)' # None
                 PROVE  Users(s)' # {}
      BY DEF RoutedIsUsed
    <2>1. CASE s = p.source
      BY <2>1, <1>7
    <2>2. CASE s # p.source
      <3>1. Entry(s) # None /\ s \notin vacated /\ i \notin Users(s)
        BY <2>2, <1>4, <1>6
      <3>2. PICK k \in Users(s) : TRUE
        BY <3>1 DEF GatewayInv, RoutedIsUsed
      <3>3. k \in Ids /\ k # i
        BY <3>1 DEF Users
      <3> QED
        BY <3>2, <3>3, <1>7
    <2> QED
      BY <2>1, <2>2
  <1> QED
    BY <1>6, <1>8, <1>9, <1>10, <1>11, <1>12, <1>13, <1>14, <1>15
       DEF GatewayInv

\* At the end of a batch a source with two policies becomes contested, and
\* stops to be when it has none.
LEMMA EndStep ==
    ASSUME GatewayInv, AfterBatch_end
    PROVE  GatewayInv'
  <1>1. /\ \A s \in Sources : Entry(s)' = Entry(s) /\ Users(s)' = Users(s)
        /\ EntriesInPlace' /\ GrpcNodesUsed'
    BY MatchersUnchanged DEF AfterBatch_end, GatewayInv
  <1>2. TypeOK' /\ BatchDone'
    BY DEF AfterBatch_end, GatewayInv, TypeOK, BatchDone
  <1>3. BatchInStep'
    BY DEF AfterBatch_end, GatewayInv, BatchInStep, Wanted
  <1>4. \A s \in Sources \ contested' :
            /\ \A i, j \in Users(s) : i = j
            /\ s \in contested => Users(s) = {}
    BY DEF AfterBatch_end
  <1>5. SharedIsContested'
    BY <1>1, <1>4 DEF SharedIsContested
  <1>6. ReachedOrUpdated'
    <2> SUFFICES ASSUME NEW i \in Ids, NEW s \in Sources, s \notin contested',
                        i \in Users(s)
                 PROVE  Entry(s) = active[i]
      BY <1>1 DEF ReachedOrUpdated, AfterBatch_end
    <2>1. s \notin contested
      BY <1>4
    <2>2. PICK j \in Users(s) : Entry(s) = active[j]
      BY <2>1 DEF GatewayInv, ReachedOrUpdated
    <2> QED
      BY <2>2, <1>4
  <1>7. \A s \in Sources : s \notin vacated' /\ Entry(s) # None =>
            s \notin vacated
    BY DEF AfterBatch_end
  <1>8. RoutedIsUsed'
    BY <1>1, <1>7 DEF GatewayInv, RoutedIsUsed
  <1>9. RoutedIsActive'
    <2> SUFFICES ASSUME NEW s \in Sources, s \notin contested', s \notin vacated',
                        Entry(s) # None
                 PROVE  active[Entry(s).id] = Entry(s)
      BY <1>1 DEF RoutedIsActive, AfterBatch_end
    <2>1. s \notin vacated /\ Users(s) # {}
      BY <1>7 DEF GatewayInv, RoutedIsUsed
    <2> QED
      BY <2>1, <1>4 DEF GatewayInv, RoutedIsActive
  <1> QED
    BY <1>1, <1>2, <1>3, <1>5, <1>6, <1>8, <1>9 DEF GatewayInv

\* No step leaves the invariant.
LEMMA GatewayStep == GatewayInv /\ [Next]_vars => GatewayInv'
  <1> SUFFICES ASSUME GatewayInv, [Next]_vars PROVE GatewayInv'
    OBVIOUS
  <1>1. ASSUME NEW upd \in [Ids -> Specs \cup {Foreign, None}],
               NEW drp \in SUBSET Ids, NEW again \in SUBSET Ids,
               Batch(upd, drp, again)
        PROVE  GatewayInv'
    BY <1>1, BatchStep
  <1>2. ASSUME NEW i \in Ids, AfterBatch_drop(i) PROVE GatewayInv'
    BY <1>2, DropStep
  <1>3. ASSUME NEW i \in Ids, AfterBatch_update(i) PROVE GatewayInv'
    BY <1>3, UpdateStep
  <1>4. CASE AfterBatch_dropsDone
    BY <1>4, DropsDoneStep
  <1>5. CASE AfterBatch_end
    BY <1>5, EndStep
  <1>6. CASE UNCHANGED vars
    <2>1. EntriesInPlace' /\ GrpcNodesUsed'
      BY <1>6, MatchersUnchanged DEF vars, GatewayInv
    <2>2. TypeOK' /\ BatchDone' /\ BatchInStep'
      BY <1>6 DEF vars, GatewayInv, TypeOK, BatchDone, BatchInStep, Wanted
    <2>3. SharedIsContested' /\ ReachedOrUpdated' /\ RoutedIsActive'
          /\ RoutedIsUsed'
      BY <1>6, MatchersUnchanged DEF vars, GatewayInv, SharedIsContested,
         ReachedOrUpdated, RoutedIsActive, RoutedIsUsed
    <2> QED
      BY <2>1, <2>2, <2>3 DEF GatewayInv
  <1> QED
    BY <1>1, <1>2, <1>3, <1>4, <1>5, <1>6 DEF Next, AfterBatch

\* The invariant holds in every behaviour.
LEMMA GatewayInvCorrect == Spec => []GatewayInv
BY GatewayInit, GatewayStep, PTL DEF Spec

-----------------------------------------------------------------------------
(* The theorems *)

\* Every behaviour of the gateway is well typed: a node is never taken for a
\* policy, nor a policy for another resource's.
THEOREM GatewayTypeCorrect == Spec => []TypeOK
<1>1. GatewayInv => TypeOK
    BY DEF GatewayInv
<1> QED
    BY <1>1, GatewayInvCorrect, PTL

\* The table has the same sources.
LEMMA SameSources == Table!Sources = Sources
  BY DEF Table!Sources, Table!Slots, Sources, Slots

\* The tries seen as a table.
TableOf == [s \in Sources |-> Entry(s)]

\* A step of the gateway changes one entry of the table at most.
LEMMA StepImplementsTable ==
    GatewayInv /\ [Next]_vars => [Table!TableNext]_TableOf
  <1> SUFFICES ASSUME GatewayInv, [Next]_vars
               PROVE  Table!TableNext \/ TableOf' = TableOf
    OBVIOUS
  <1>1. ASSUME UNCHANGED tries PROVE TableOf' = TableOf
    BY <1>1 DEF TableOf, Entry
  <1>2. ASSUME NEW i \in Ids, AfterBatch_drop(i)
        PROVE  Table!TableNext \/ TableOf' = TableOf
    <2>1. CASE active[i] = None \/ active[i].source = None
      BY <2>1, <1>1, <1>2 DEF AfterBatch_drop, dropPolicy
    <2>2. CASE active[i] # None /\ active[i].source # None
      <3> DEFINE p == active[i]
      <3>1. p \in Policies /\ p.source \in Sources
        BY <2>2, PolicyParts DEF GatewayInv, TypeOK
      <3>2. tries' = dropPolicy(p)
        BY <2>2, <1>2 DEF AfterBatch_drop
      <3>3. \A s \in Sources :
                Entry(s)' = IF s = p.source THEN None ELSE Entry(s)
        BY <3>1, <3>2, DropEntries DEF GatewayInv
      <3>4. TableOf' = [TableOf EXCEPT ![p.source] = None]
        BY <3>3 DEF TableOf
      <3>5. Table!Unroute(p.source)
        BY <3>4 DEF Table!Unroute, TableOf
      <3> QED
        BY <3>1, <3>5, SameSources DEF Table!TableNext
    <2> QED
      BY <2>1, <2>2
  <1>3. ASSUME NEW i \in Ids, AfterBatch_update(i)
        PROVE  Table!TableNext \/ TableOf' = TableOf
    <2> DEFINE p == PolicyOf(i, updated[i])
    <2>1. p \in Policies /\ p.source \in Sources \cup {None}
      BY <1>3, PolicyParts DEF AfterBatch_update, GatewayInv, TypeOK
    <2>2. tries' = addPolicy(p)
      BY <1>3 DEF AfterBatch_update
    <2> HIDE DEF p
    <2>3. CASE p.source = None
      BY <2>2, <2>3, <1>1 DEF addPolicy
    <2>4. CASE p.source # None
      <3>1. p.source \in Sources
        BY <2>1, <2>4
      <3>2. \A s \in Sources :
                Entry(s)' = IF s = p.source THEN p ELSE Entry(s)
        BY <2>1, <2>2, <3>1, AddEntries DEF GatewayInv
      <3>3. TableOf' = [TableOf EXCEPT ![p.source] = p]
        BY <3>2 DEF TableOf
      <3>4. Table!Route(p)
        BY <3>3 DEF Table!Route, TableOf
      <3> QED
        BY <2>1, <3>1, <3>4, SameSources DEF Table!TableNext
    <2> QED
      BY <2>3, <2>4
  <1>4. CASE UNCHANGED tries
    BY <1>1, <1>4
  <1> QED
    BY <1>2, <1>3, <1>4
       DEF Next, AfterBatch, Batch, AfterBatch_dropsDone, AfterBatch_end, vars

\* The nested tries of policyMatcher implement the flat table of sources, at
\* every step of AfterBatch: insert and drop change the policy's own entry.
THEOREM GatewayImplementsTable == Spec => ImplementsTable
<1>1. Init => Table!TableInit
  <2> SUFFICES ASSUME Init PROVE Table!TableInit
    OBVIOUS
  <2>1. ASSUME NEW s \in Sources PROVE Entry(s) = None
    BY GatewayInit, NodeType, SourceParts DEF Init, Entry, Kinds
  <2> QED
    BY <2>1, SameSources DEF Table!TableInit
<1>2. GatewayInv /\ [Next]_vars =>
          [Table!TableNext]_([s \in Sources |-> Entry(s)])
    BY StepImplementsTable DEF TableOf
<1> QED
    BY <1>1, <1>2, GatewayInvCorrect, PTL
       DEF Spec, ImplementsTable, Table!TableSpec

\* Between batches the active policies are those of the resource store, except
\* for resources whose last change OnUpdated or OnDropped skips.
THEOREM GatewayInStepWithStore == Spec => []InStepWithStore
<1>1. GatewayInv => InStepWithStore
  <2> SUFFICES ASSUME GatewayInv, pc = "idle", NEW i \in Ids \ missed
               PROVE  active[i] = Wanted(i)
    BY DEF InStepWithStore, Wanted
  <2> QED
    BY DEF GatewayInv, BatchDone, BatchInStep
<1> QED
    BY <1>1, GatewayInvCorrect, PTL

\* Between batches the matchers route by the active policies and by no other,
\* for the sources that no two policies share and that no update has vacated.
THEOREM GatewayMatchersInStep == Spec => []MatchersInStep
<1>1. GatewayInv => MatchersInStep
  <2> SUFFICES ASSUME GatewayInv, pc = "idle",
                      NEW i \in Ids, active[i] # None,
                      active[i].source \notin contested \cup {None}
               PROVE  Entry(active[i].source) = active[i]
    BY DEF MatchersInStep, ActiveIsRouted, GatewayInv
  <2>1. active[i].source \in Sources
    BY PolicyParts DEF GatewayInv, TypeOK
  <2>2. i \in Users(active[i].source)
    BY DEF Users
  <2> QED
    BY <2>1, <2>2 DEF GatewayInv, ReachedOrUpdated
<1> QED
    BY <1>1, GatewayInvCorrect, PTL

-----------------------------------------------------------------------------
(* Matching a call *)

\* The node of a key in one of the tries.
NodeAt(kind, exact, k) == tries[<<kind, exact>>][k]

\* match within a node.
InNode(node, m) ==
    IF node = None THEN None
    ELSE IF node[m] # None THEN node[m] ELSE node[Undefined]

\* A call has a kind, a key and a method.
LEMMA RequestParts ==
    ASSUME NEW r \in Requests
    PROVE  /\ r.kind \in Kinds /\ r.key \in Keys /\ r.method \in Slots
           /\ r.kind = "grpc" => r.method = Undefined
           /\ \A exact \in BOOLEAN, k \in Keys, m \in {r.method, Undefined} :
                  [kind |-> r.kind, key |-> k, method |-> m, exact |-> exact]
                      \in Sources
  BY DEF Requests, Sources, Slots, Kinds

\* The table's choice between the two methods is the one of match.
LEMMA ChosenInNode ==
    ASSUME TypeOK, NEW r \in Requests, NEW exact \in BOOLEAN, NEW k \in Keys
    PROVE  Table!Chosen(r, exact, k) =
               InNode(NodeAt(r.kind, exact, k), r.method)
  <1> DEFINE node == NodeAt(r.kind, exact, k)
             src(m) == [kind |-> r.kind, key |-> k, method |-> m,
                        exact |-> exact]
  <1>1. ASSUME NEW m \in {r.method, Undefined}
        PROVE  Table!At(r, exact, k, m) = IF node = None THEN None ELSE node[m]
    <2>1. src(m) \in Sources
      BY RequestParts
    <2>2. Table!At(r, exact, k, m) = Entry(src(m))
      BY <2>1 DEF Table!At
    <2>3. /\ src(m).kind = r.kind /\ src(m).exact = exact
          /\ src(m).key = k /\ src(m).method = m
      OBVIOUS
    <2> QED
      BY <2>2, <2>3 DEF Entry, NodeAt
  <1> HIDE DEF node
  <1> QED
    BY <1>1 DEF Table!Chosen, InNode, node

\* Some policy is routed by a prefix if its node is not empty.
LEMMA RoutedAtNode ==
    ASSUME TypeOK, GrpcNodesUsed, NEW r \in Requests, NEW k \in Keys
    PROVE  Table!RoutedAt(r, k) <=>
               /\ NodeAt(r.kind, FALSE, k) # None
               /\ NodeAt(r.kind, FALSE, k) # EmptyNode
  <1> DEFINE node == NodeAt(r.kind, FALSE, k)
  <1>1. /\ r.kind \in Kinds /\ node \in Nodes \cup {None}
        /\ r.kind = "grpc" /\ node # None => node[Undefined] # None
    BY RequestParts, NodeType DEF NodeAt, GrpcNodesUsed
  <1>2. ASSUME Table!RoutedAt(r, k) PROVE node # None /\ node # EmptyNode
    <2>1. PICK s \in Sources : /\ s.kind = r.kind /\ s.key = k /\ ~s.exact
                               /\ Entry(s) # None
      BY <1>2, SameSources DEF Table!RoutedAt
    <2>2. s.exact = FALSE /\ s.method \in Slots
      BY <2>1, SourceParts
    <2>3. node # None /\ node[s.method] # None
      BY <2>1, <2>2 DEF Entry, NodeAt
    <2> QED
      BY <2>2, <2>3 DEF EmptyNode
  <1>3. ASSUME node # None, node # EmptyNode PROVE Table!RoutedAt(r, k)
    <2>1. PICK m \in Slots : /\ node[m] # None
                             /\ r.kind = "grpc" => m = Undefined
      <3>1. CASE r.kind = "grpc"
        BY <1>1, <1>3, <3>1 DEF Slots
      <3>2. CASE r.kind # "grpc"
        <4>1. node \in [Slots -> Policies \cup {None}]
          BY <1>1, <1>3 DEF Nodes
        <4>2. \E m \in Slots : node[m] # None
          BY <4>1, <1>3 DEF EmptyNode
        <4> QED
          BY <3>2, <4>2
      <3> QED
        BY <3>1, <3>2
    <2> DEFINE s == [kind |-> r.kind, key |-> k, method |-> m, exact |-> FALSE]
    <2>2. s \in Sources
      BY <2>1, <1>1 DEF Sources, Kinds
    <2>3. s.kind = r.kind /\ s.key = k /\ s.exact = FALSE /\ s.method = m
      OBVIOUS
    <2> HIDE DEF s
    <2>4. Entry(s) # None
      BY <2>1, <2>3, <1>3 DEF Entry, NodeAt
    <2> QED
      BY <2>2, <2>3, <2>4, SameSources DEF Table!RoutedAt
  <1> QED
    BY <1>2, <1>3

\* The longest prefix is one key: of two prefixes one is a proper prefix of
\* the other.
LEMMA LongestIsUnique ==
    ASSUME NEW key \in Keys, NEW a \in PrefixesOf[key], NEW b \in PrefixesOf[key],
           a \in PrefixesOf[b], b \in PrefixesOf[a]
    PROVE  a = b
  BY PrefixAssumption

\* What MatchLongest finds is the longest routed prefix, or a node that drops
\* have emptied.
LEMMA LongestMatch ==
    ASSUME TypeOK, GrpcNodesUsed, NEW r \in Requests,
           \A k \in PrefixesOf[r.key] :
               NodeAt(r.kind, FALSE, k) # EmptyNode
               \/ match(tries[<<r.kind, FALSE>>], FALSE, r) # None
    PROVE  match(tries[<<r.kind, FALSE>>], FALSE, r) =
               IF \E k \in Keys : Table!IsLongest(r, k)
               THEN Table!Chosen(r, FALSE, CHOOSE k \in Keys :
                                               Table!IsLongest(r, k))
               ELSE None
  <1> DEFINE trie == tries[<<r.kind, FALSE>>]
             node == NodeFor(trie, FALSE, r.key)
  <1>1. r.key \in Keys /\ PrefixesOf[r.key] \subseteq Keys /\ r.method \in Slots
    BY RequestParts, PrefixAssumption
  <1>2. \A k \in Keys : trie[k] = NodeAt(r.kind, FALSE, k)
    BY DEF NodeAt
  <1>3. match(trie, FALSE, r) = InNode(node, r.method)
    BY DEF match, InNode
  <1>4. CASE \E k \in Keys : Longest(trie, r.key, k)
    <2> DEFINE c == CHOOSE k \in Keys : Longest(trie, r.key, k)
    <2>1. c \in Keys /\ Longest(trie, r.key, c)
      BY <1>4
    <2>2. node = trie[c]
      BY <1>4 DEF NodeFor
    <2> HIDE DEF c
    <2>3. trie[c] # EmptyNode
      <3> SUFFICES ASSUME trie[c] = EmptyNode PROVE FALSE
        OBVIOUS
      <3>1. InNode(node, r.method) = None
        BY <2>2, <1>1 DEF InNode, EmptyNode, Slots
      <3>2. c \in PrefixesOf[r.key]
        BY <2>1 DEF Longest
      <3> QED
        BY <3>1, <3>2, <2>1, <1>2, <1>3
    <2>4. Table!RoutedAt(r, c)
      BY <2>1, <2>3, <1>2, RoutedAtNode DEF Longest
    <2>5. Table!IsLongest(r, c)
      BY <2>1, <2>4, <1>1, <1>2, RoutedAtNode DEF Longest, Table!IsLongest
    <2>6. ASSUME NEW d \in Keys, Table!IsLongest(r, d) PROVE d = c
      <3>1. /\ c \in PrefixesOf[r.key] /\ d \in PrefixesOf[r.key]
            /\ c \in PrefixesOf[d] /\ d \in PrefixesOf[c]
        BY <2>4, <2>5, <2>6 DEF Table!IsLongest
      <3> QED
        BY <3>1, <1>1, LongestIsUnique
    <2>7. (CHOOSE k \in Keys : Table!IsLongest(r, k)) = c
      BY <2>1, <2>5, <2>6
    <2>8. Table!Chosen(r, FALSE, c) = InNode(trie[c], r.method)
      BY <2>1, <1>2, ChosenInNode
    <2> QED
      BY <1>3, <2>1, <2>2, <2>5, <2>7, <2>8
  <1>5. CASE ~ \E k \in Keys : Longest(trie, r.key, k)
    <2>1. match(trie, FALSE, r) = None
      BY <1>3, <1>5 DEF NodeFor, InNode
    <2>2. \A k \in PrefixesOf[r.key] :
              Table!RoutedAt(r, k) <=> trie[k] # None
      BY <2>1, <1>1, <1>2, RoutedAtNode
    <2>3. ASSUME NEW k \in Keys, Table!IsLongest(r, k) PROVE FALSE
      BY <2>2, <2>3, <1>5 DEF Table!IsLongest, Longest
    <2> QED
      BY <2>1, <2>3
  <1> QED
    BY <1>4, <1>5

\* At every moment, also in the middle of a batch, a call is matched to the
\* policy of the longest routed prefix; only an HTTP call whose path meets a
\* node that drops have emptied may find no policy instead.
THEOREM GatewayMatchIsBest == Spec => []MatchIsBest
<1>1. GatewayInv => MatchIsBest
  <2> SUFFICES ASSUME GatewayInv, NEW r \in Requests
               PROVE  \/ matchPolicy(r) = Table!Best(r)
                      \/ /\ r.kind = "http" /\ matchPolicy(r) = None
                         /\ \E k \in PrefixesOf[r.key] :
                                tries[<<"http", FALSE>>][k] = EmptyNode
    BY DEF MatchIsBest
  <2> DEFINE prefix == match(tries[<<r.kind, FALSE>>], FALSE, r)
  <2>1. r.kind \in Kinds /\ r.key \in Keys /\ PrefixesOf[r.key] \subseteq Keys
    BY RequestParts, PrefixAssumption
  <2>2. match(tries[<<r.kind, TRUE>>], TRUE, r) = Table!Chosen(r, TRUE, r.key)
    <3>1. Table!Chosen(r, TRUE, r.key) =
              InNode(NodeAt(r.kind, TRUE, r.key), r.method)
      BY <2>1, ChosenInNode DEF GatewayInv
    <3> QED
      BY <3>1 DEF match, NodeFor, InNode, NodeAt
  <2>3. CASE \E k \in PrefixesOf[r.key] :
                 NodeAt(r.kind, FALSE, k) = EmptyNode /\ prefix = None
    <3>1. PICK k \in PrefixesOf[r.key] : NodeAt(r.kind, FALSE, k) = EmptyNode
      BY <2>3
    <3>2. r.kind = "http"
      <4> SUFFICES ASSUME r.kind = "grpc" PROVE FALSE
        BY <2>1 DEF Kinds
      <4>1. EmptyNode[Undefined] # None
        BY <2>1, <3>1, EmptyNodeType, PolicyParts
           DEF GatewayInv, GrpcNodesUsed, NodeAt
      <4> QED
        BY <4>1 DEF EmptyNode, Slots
    <3>3. CASE Table!Chosen(r, TRUE, r.key) # None
      BY <2>2, <3>3 DEF matchPolicy, Table!Best
    <3>4. CASE Table!Chosen(r, TRUE, r.key) = None
      BY <2>2, <2>3, <3>1, <3>2, <3>4 DEF matchPolicy, NodeAt
    <3> QED
      BY <3>3, <3>4
  <2>4. CASE ~ \E k \in PrefixesOf[r.key] :
                   NodeAt(r.kind, FALSE, k) = EmptyNode /\ prefix = None
    <3>1. prefix = IF \E k \in Keys : Table!IsLongest(r, k)
                   THEN Table!Chosen(r, FALSE, CHOOSE k \in Keys :
                                                   Table!IsLongest(r, k))
                   ELSE None
      BY <2>4, LongestMatch DEF GatewayInv
    <3> QED
      BY <2>2, <3>1 DEF matchPolicy, Table!Best
  <2> QED
    BY <2>3, <2>4
<1> QED
    BY <1>1, GatewayInvCorrect, PTL
=============================================================================

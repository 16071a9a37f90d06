--------------------------- MODULE EnvoyXdsProofs ---------------------------
(***************************************************************************)
(* Proofs about the Envoy xDS provider, for any resources, contents and    *)
(* pages: what Envoy is served between two batches is what is stored.      *)
(***************************************************************************)
EXTENDS EnvoyXds, FiniteSetTheorems, FunctionTheorems, SequenceTheorems,
        WellFoundedInduction, TLAPS

-----------------------------------------------------------------------------
(* Types *)

IsMap(f) == f = [n \in DOMAIN f |-> f[n]]

AreMaps ==
    \A t \in Types : IsMap(toUpdate[t]) /\ IsMap(cache[t])

\* The names of the resources and types are told apart.
LEMMA TypeNames ==
    /\ Named \subseteq Types
    /\ "Endpoint" \in Types \ Named /\ "VirtualHost" \in Types \ Named
BY DEF Named, Types

LEMMA TypesOfNamed ==
    ASSUME NEW spec \in Specs
    PROVE  /\ TypesOf(spec) \subseteq Named
           /\ TypesOf(spec) # {} => spec.name \in Names
           /\ spec.kind = "policy" => TypesOf(spec) = {}
BY SpecsAssumption DEF TypesOf, Named

LEMMA OverIs ==
    ASSUME NEW f, NEW g
    PROVE  /\ IsMap(Over(f, g))
           /\ DOMAIN Over(f, g) = DOMAIN f \cup DOMAIN g
           /\ \A n \in DOMAIN f : Over(f, g)[n] = f[n]
           /\ \A n \in DOMAIN g : n \notin DOMAIN f => Over(f, g)[n] = g[n]
BY DEF Over, IsMap

LEMMA ServesOver ==
    ASSUME NEW t, NEW f, NEW g, Serves(t, f), Serves(t, g)
    PROVE  Serves(t, Over(f, g))
<1>1. DOMAIN Over(f, g) \subseteq Names
    BY OverIs DEF Serves
<1>2. ASSUME NEW n \in DOMAIN Over(f, g)
      PROVE  \E spec \in Specs : t \in TypesOf(spec) /\ Over(f, g)[n] = Built(t, spec)
    <2>1. CASE n \in DOMAIN f
        <3>1. Over(f, g)[n] = f[n]
            BY <2>1 DEF Over
        <3> QED
            BY <2>1, <3>1 DEF Serves
    <2>2. CASE n \notin DOMAIN f
        <3>1. n \in DOMAIN g
            BY <1>2, <2>2 DEF Over
        <3>2. Over(f, g)[n] = g[n]
            BY <2>2, <3>1 DEF Over
        <3> QED
            BY <3>1, <3>2 DEF Serves
    <2> QED
        BY <2>1, <2>2
<1> QED
    BY <1>1, <1>2 DEF Serves

LEMMA ServesEmpty ==
    /\ DOMAIN Empty = {} /\ IsMap(Empty)
    /\ \A t : Serves(t, Empty)
BY DEF Empty, IsMap, Serves

\* What OnUpdated adds to the transaction for a type.
Added(t, spec, load) ==
    IF t \in TypesOf(spec) THEN [n \in {spec.name} |-> Built(t, spec)]
    ELSE IF t = "Endpoint" /\ spec.kind = "instances"
    THEN [n \in spec.clusters |-> ToLoadAssignment(load[n])]
    ELSE Empty

LEMMA AddedServes ==
    ASSUME NEW spec \in Specs, NEW load, NEW t \in Named
    PROVE  /\ Serves(t, Added(t, spec, load))
           /\ DOMAIN Added(t, spec, load) =
                  IF t \in TypesOf(spec) THEN {spec.name} ELSE {}
           /\ t \in TypesOf(spec) => Added(t, spec, load)[spec.name] = Built(t, spec)
<1>1. t # "Endpoint"
    BY DEF Named
<1>2. CASE t \in TypesOf(spec)
    <2>1. Added(t, spec, load) = [n \in {spec.name} |-> Built(t, spec)]
        BY <1>2 DEF Added
    <2> QED
        BY <1>2, <2>1, TypesOfNamed DEF Serves
<1>3. CASE t \notin TypesOf(spec)
    <2>1. Added(t, spec, load) = Empty
        BY <1>1, <1>3 DEF Added
    <2> QED
        BY <1>3, <2>1, ServesEmpty
<1> QED
    BY <1>2, <1>3

LEMMA XdsTypeStep == TypeOK /\ AreMaps /\ [Next]_vars => TypeOK' /\ AreMaps'
<1> SUFFICES ASSUME TypeOK, AreMaps, [Next]_vars PROVE TypeOK' /\ AreMaps'
    OBVIOUS
<1> USE TypeNames
<1>1. ASSUME NEW upd \in [Ids -> Specs \cup {None}], NEW drp \in SUBSET Ids,
             NEW again \in SUBSET Ids, BeforeBatch(upd, drp, again)
      PROVE  TypeOK' /\ AreMaps'
    <2>1. stored' \in [Ids -> Specs \cup {None}]
        BY <1>1 DEF BeforeBatch, TypeOK
    <2>2. \A t \in Named : Serves(t, Empty)
        BY DEF Serves, Empty
    <2>3. IsMap(Empty)
        BY DEF IsMap, Empty
    <2>4. \A t \in Types : toUpdate'[t] = Empty /\ toDelete'[t] = {}
        BY <1>1 DEF BeforeBatch
    <2>5. changes' \in 0..MaxChanges
        <3>1. changes' = changes + (Cardinality({i \in Ids : upd[i] # None}) + Cardinality(drp))
            BY <1>1 DEF BeforeBatch
        <3> QED
            BY <1>1 DEF BeforeBatch, TypeOK
    <2>6. DOMAIN toUpdate' = Types /\ DOMAIN toDelete' = Types
        BY <1>1 DEF BeforeBatch
    <2> QED
        BY <1>1, <2>1, <2>2, <2>3, <2>4, <2>5, <2>6 DEF BeforeBatch, TypeOK, AreMaps
<1>2. ASSUME NEW i \in Ids, OnUpdated(i)
      PROVE  TypeOK' /\ AreMaps'
    <2> DEFINE spec == pending[i]
               load == IF spec.kind = "instances" THEN AddEndpoints(endpoints, spec)
                       ELSE endpoints
    <2>1. spec \in Specs
        BY <1>2 DEF OnUpdated, TypeOK
    <2>2. toUpdate' = [t \in Types |-> Over(Added(t, spec, load), toUpdate[t])]
        BY <1>2, Zenon DEF OnUpdated, Added
    <2>3. \A t \in Named : Serves(t, toUpdate'[t])
        <3> SUFFICES ASSUME NEW t \in Named PROVE Serves(t, toUpdate'[t])
            OBVIOUS
        <3> HIDE DEF spec, load
        <3>1. Serves(t, Added(t, spec, load))
            BY <2>1, AddedServes
        <3> QED
            BY <2>2, <3>1, ServesOver DEF TypeOK
    <2>4. \A t \in Types : IsMap(toUpdate'[t])
        <3> HIDE DEF spec, load
        <3> QED
            BY <2>2, OverIs
    <2>5. idName' \in [Named -> [Ids -> Names \cup {None}]]
        BY <1>2, <2>1, TypesOfNamed DEF OnUpdated, TypeOK
    <2>6. DOMAIN clusterNames' \subseteq Names
        BY <1>2, <2>1, SpecsAssumption DEF OnUpdated, TypeOK, AddClusters
    <2>7. resources' \in [Ids -> {s \in Specs : s.kind = "policy"} \cup {None}]
        BY <1>2, <2>1 DEF OnUpdated, TypeOK, putPolicy
    <2>8. /\ changes' = changes /\ stored' = stored /\ gone' = gone
          /\ cache' = cache /\ toDelete' = toDelete /\ apply' = apply
          /\ pc' \in {"update", "crashed"}
          /\ pending' = [pending EXCEPT ![i] = None]
        BY <1>2 DEF OnUpdated
    <2>9. DOMAIN toUpdate' = Types
        BY <2>2
    <2> HIDE DEF spec, load
    <2> QED
        BY <2>3, <2>4, <2>5, <2>6, <2>7, <2>8, <2>9 DEF TypeOK, AreMaps
<1>3. CASE OnUpdated_done
    BY <1>3 DEF OnUpdated_done, tx, history, TypeOK, AreMaps
<1>4. ASSUME NEW i \in Ids, NEW reached \in SUBSET Types, OnDropped(i, reached)
      PROVE  TypeOK' /\ AreMaps'
    <2>1. \A t \in Named : idName[t][i] \in Names \cup {None}
        BY DEF TypeOK
    <2>2. \A t \in Named : toDelete'[t] \subseteq Names
        BY <1>4, <2>1 DEF OnDropped, TypeOK
    <2>3. DOMAIN toDelete' = Types
        BY <1>4 DEF OnDropped
    <2>4. idName' \in [Named -> [Ids -> Names \cup {None}]]
        BY <1>4 DEF OnDropped, TypeOK
    <2>5. resources' \in [Ids -> {s \in Specs : s.kind = "policy"} \cup {None}]
        BY <1>4 DEF OnDropped, TypeOK
    <2> QED
        BY <1>4, <2>2, <2>3, <2>4, <2>5 DEF OnDropped, TypeOK, AreMaps
<1>5. CASE AfterBatch
    <2>1. /\ DOMAIN toUpdate' = Types /\ DOMAIN toDelete' = Types
          /\ \A t \in Types \ {"VirtualHost"} :
                 toUpdate'[t] = toUpdate[t] /\ toDelete'[t] = toDelete[t]
          /\ IsMap(toUpdate'["VirtualHost"])
        BY <1>5 DEF AfterBatch, TypeOK, IsMap
    <2>2. /\ apply' \in SUBSET Types /\ pc' = "apply"
          /\ UNCHANGED <<changes, stored, pending, gone, idName, clusterNames,
                         resources, cache>>
        BY <1>5 DEF AfterBatch
    <2> QED
        BY <2>1, <2>2 DEF TypeOK, AreMaps
<1>6. ASSUME NEW t \in Types, UpdateResources(t)
      PROVE  TypeOK' /\ AreMaps'
    <2> DEFINE all == Over(toUpdate[t], cache[t])
    <2>1. cache' = [cache EXCEPT ![t] = [n \in DOMAIN all \ toDelete[t] |-> all[n]]]
        BY <1>6 DEF UpdateResources
    <2>2. t \in Named => Serves(t, all)
        BY ServesOver DEF TypeOK
    <2>3. t \in Named => Serves(t, [n \in DOMAIN all \ toDelete[t] |-> all[n]])
        BY <2>2 DEF Serves
    <2>4. IsMap([n \in DOMAIN all \ toDelete[t] |-> all[n]])
        BY DEF IsMap
    <2> HIDE DEF all
    <2>5. DOMAIN cache' = Types /\ \A u \in Types : u # t => cache'[u] = cache[u]
        BY <2>1 DEF TypeOK
    <2>6. cache'[t] = [n \in DOMAIN all \ toDelete[t] |-> all[n]]
        BY <2>1 DEF TypeOK
    <2> QED
        BY <1>6, <2>3, <2>4, <2>5, <2>6 DEF UpdateResources, history, TypeOK, AreMaps
<1>7. CASE AfterBatch_end
    <2>1. \A t \in Named : Serves(t, Empty)
        BY DEF Serves, Empty
    <2>2. IsMap(Empty)
        BY DEF IsMap, Empty
    <2>3. \A t \in Types : toUpdate'[t] = Empty /\ toDelete'[t] = {}
        BY <1>7 DEF AfterBatch_end
    <2>4. DOMAIN toUpdate' = Types /\ DOMAIN toDelete' = Types
        BY <1>7 DEF AfterBatch_end
    <2> QED
        BY <1>7, <2>1, <2>2, <2>3, <2>4 DEF AfterBatch_end, TypeOK, AreMaps
<1>8. CASE UNCHANGED vars
    BY <1>8 DEF vars, tx, history, TypeOK, AreMaps
<1> QED
    BY <1>1, <1>2, <1>3, <1>4, <1>5, <1>6, <1>7, <1>8 DEF Next

-----------------------------------------------------------------------------
(* Folds *)

\* Every set of numbers has a least one.
LEMMA LeastNumber ==
    ASSUME NEW S, S \subseteq Nat, S # {}
    PROVE  \E x \in S : \A y \in S : x <= y
<1> DEFINE R == {p \in Nat \X Nat : p[1] < p[2]}
<1>1. IsWellFoundedOn(R, Nat)
    BY NatLessThanWellFounded, Zenon DEF OpToRel
<1>2. PICK x \in S : \A y \in S : <<y, x>> \notin R
    <2> HIDE DEF R
    <2> QED
        BY <1>1, WFMin
<1>3. \A y \in S : ~(y < x)
    BY <1>2
<1> QED
    BY <1>3

LEMMA GreatestNumber ==
    ASSUME NEW n \in Nat, NEW s \in SUBSET (1..n), s # {}
    PROVE  Max(s) \in s /\ \A y \in s : y <= Max(s)
<1> DEFINE T == {n - y : y \in s}
<1>1. T \subseteq Nat /\ T # {}
    <2>1. \A y \in s : n - y \in Nat
        OBVIOUS
    <2> QED
        BY <2>1
<1>2. PICK z \in T : \A y \in T : z <= y
    <2> HIDE DEF T
    <2> QED
        BY <1>1, LeastNumber
<1>3. PICK x \in s : z = n - x
    BY <1>2
<1>4. \A y \in s : x >= y
    <2> TAKE y \in s
    <2>1. z <= n - y
        BY <1>2
    <2> QED
        BY <1>3, <2>1
<1>5. Max(s) \in s /\ \A y \in s : Max(s) >= y
    BY <1>4 DEF Max
<1> QED
    BY <1>5

\* The function of the sets of numbers that a fold is read off.
IsFold(it, n, base, step) ==
    \A s \in SUBSET (1..n) :
        it[s] = IF s = {} THEN base
                ELSE step[<<Max(s), it[s \ {Max(s)}]>>]

\* A fold has a value: the function that defines it exists.
LEMMA FoldExists ==
    ASSUME NEW n \in Nat, NEW S, NEW base \in S,
           NEW step \in [(1..n) \X S -> S]
    PROVE  \E it \in [SUBSET (1..n) -> S] : IsFold(it, n, base, step)
<1> DEFINE Fold(k, it) == it \in [SUBSET (1..k) -> S] /\ IsFold(it, k, base, step)
           T == {k \in 0..n : ~\E it : Fold(k, it)}
<1>1. 0 \notin T
    <2> DEFINE it == [s \in SUBSET (1..0) |-> base]
    <2>1. \A s \in SUBSET (1..0) : s = {}
        OBVIOUS
    <2>2. Fold(0, it)
        BY <2>1 DEF IsFold
    <2> HIDE DEF it, Fold
    <2> QED
        BY <2>2
<1>2. ASSUME NEW k \in 1..n, k - 1 \notin T
      PROVE  k \notin T
    <2>1. PICK old : Fold(k - 1, old)
        <3> HIDE DEF Fold
        <3> QED
            BY <1>2
    <2> DEFINE it == [s \in SUBSET (1..k) |->
                         IF k \in s THEN step[<<k, old[s \ {k}]>>] ELSE old[s]]
    <2>2. \A s \in SUBSET (1..k) : /\ s \ {k} \in SUBSET (1..(k - 1))
                                   /\ k \notin s => s \in SUBSET (1..(k - 1))
        OBVIOUS
    <2>3. it \in [SUBSET (1..k) -> S]
        BY <2>1, <2>2
    <2>4. IsFold(it, k, base, step)
        <3> SUFFICES ASSUME NEW s \in SUBSET (1..k)
                     PROVE  it[s] = IF s = {} THEN base
                                    ELSE step[<<Max(s), it[s \ {Max(s)}]>>]
            BY DEF IsFold
        <3>4. k \in Nat
            OBVIOUS
        <3>5. s # {} => Max(s) \in s /\ \A y \in s : y <= Max(s)
            BY <3>4, GreatestNumber
        <3>1. CASE k \in s
            <4>1. Max(s) \in 1..k /\ k <= Max(s)
                BY <3>1, <3>5
            <4>2. Max(s) = k
                BY <4>1
            <4>3. it[s \ {k}] = old[s \ {k}]
                BY <2>2
            <4> QED
                BY <3>1, <4>2, <4>3
        <3>2. CASE k \notin s /\ s # {}
            <4>1. Max(s) \in s
                BY <3>2, <3>5
            <4>2. s \in SUBSET (1..(k - 1))
                BY <2>2, <3>2
            <4>3. old[s] = step[<<Max(s), old[s \ {Max(s)}]>>]
                BY <2>1, <3>2, <4>2 DEF IsFold
            <4>4. it[s] = old[s] /\ it[s \ {Max(s)}] = old[s \ {Max(s)}]
                BY <3>2, <4>1
            <4> QED
                BY <3>2, <4>3, <4>4
        <3>3. CASE s = {}
            <4>1. old[s] = base
                BY <2>1, <2>2, <3>3 DEF IsFold
            <4> QED
                BY <3>3, <4>1
        <3> QED
            BY <3>1, <3>2, <3>3
    <2> HIDE DEF it
    <2>5. Fold(k, it)
        BY <2>3, <2>4
    <2> HIDE DEF Fold
    <2> QED
        BY <2>5
<1> HIDE DEF Fold
<1>3. T = {}
    <2> SUFFICES ASSUME T # {} PROVE FALSE
        OBVIOUS
    <2>1. T \subseteq Nat
        OBVIOUS
    <2>2. PICK k \in T : \A y \in T : k <= y
        <3> HIDE DEF T
        <3> QED
            BY <2>1, LeastNumber
    <2>3. k \in 1..n /\ k - 1 \notin T
        <3>1. k \in 0..n /\ k # 0
            BY <1>1
        <3> HIDE DEF T
        <3> QED
            BY <2>2, <3>1
    <2> HIDE DEF T
    <2> QED
        BY <1>2, <2>3
<1>4. \E it : Fold(n, it)
    BY <1>3
<1> QED
    BY <1>4 DEF Fold

\* The values of a fold after its first numbers.
Runs(it, n, base, step) ==
    /\ it[1..0] = base
    /\ \A k \in 1..n : it[1..k] = step[<<k, it[1..(k - 1)]>>]

\* A fold goes from the first number to the last.
LEMMA FoldRuns ==
    ASSUME NEW n \in Nat, NEW it, NEW base, NEW step, IsFold(it, n, base, step)
    PROVE  Runs(it, n, base, step)
<1>1. it[1..0] = base
    <2>1. 1..0 = {}
        OBVIOUS
    <2> QED
        BY <2>1 DEF IsFold
<1>2. ASSUME NEW k \in 1..n
      PROVE  it[1..k] = step[<<k, it[1..(k - 1)]>>]
    <2>1. 1..k \in SUBSET (1..n) /\ 1..k # {} /\ k \in 1..k
        OBVIOUS
    <2>2. Max(1..k) \in 1..k /\ \A y \in 1..k : y <= Max(1..k)
        BY <2>1, GreatestNumber
    <2>3. Max(1..k) = k
        BY <2>1, <2>2
    <2>4. (1..k) \ {k} = 1..(k - 1)
        OBVIOUS
    <2> QED
        BY <2>1, <2>3, <2>4 DEF IsFold
<1> QED
    BY <1>1, <1>2 DEF Runs

-----------------------------------------------------------------------------
(* The inductive invariant *)

\* What each phase of a batch has finished: the updates, the drops, the caches.
Phases ==
    /\ pc \in {"idle", "drop", "apply"} => \A i \in Ids : pending[i] = None
    /\ pc \in {"idle", "apply"} => gone = {}
    /\ pc \in {"idle", "update"} => \A t \in Named : toDelete[t] = {}
    /\ pc = "idle" => \A t \in Named : toUpdate[t] = Empty
    /\ pc = "apply" => \A t \in Named \ apply :
           /\ DOMAIN toUpdate[t] \ toDelete[t] \subseteq DOMAIN cache[t]
           /\ DOMAIN cache[t] \cap toDelete[t] = {}
           /\ \A n \in DOMAIN toUpdate[t] \ toDelete[t] :
                  cache[t][n] = toUpdate[t][n]
    /\ \A i \in Ids : pending[i] # None =>
           stored[i] = pending[i] \/ (stored[i] = None /\ i \in gone)

\* What will be served once the transaction is applied.
WillServe(t) == (DOMAIN toUpdate[t] \cup DOMAIN cache[t]) \ toDelete[t]

WillBe(t, n) == IF n \in DOMAIN toUpdate[t] THEN toUpdate[t][n] ELSE cache[t][n]

\* The resource is registered under a name that it has, or is still to be
\* handled in this batch.
Owns(i, t, n) ==
    /\ idName[t][i] = n
    /\ pending[i] # None \/ i \in gone \/ Asks(stored[i], t, n)

Owned ==
    \A t \in Named : \A n \in WillServe(t) :
        <<t, n>> \in left \/ \E i \in Ids : Owns(i, t, n)

Kept ==
    \A i \in Ids : \A t \in Named : \A n \in Names :
        Asks(stored[i], t, n) /\ pending[i] = None =>
            \/ <<t, n>> \in clash
            \/ n \in WillServe(t) /\ WillBe(t, n) = Built(t, stored[i])

Policies ==
    \A i \in Ids :
        /\ resources[i] # None =>
               \/ pending[i] # None \/ i \in gone
               \/ resources[i] = stored[i] \/ <<"VirtualHost", i>> \in left
        /\ stored[i] # None /\ stored[i].kind = "policy" /\ pending[i] = None =>
               resources[i] = stored[i] \/ <<"VirtualHost", i>> \in clash

XdsInv == TypeOK /\ AreMaps /\ Phases /\ Owned /\ Kept /\ Policies

-----------------------------------------------------------------------------
(* The steps of a batch *)

LEMMA BeforeBatchKeeps ==
    ASSUME XdsInv,
           NEW upd \in [Ids -> Specs \cup {None}], NEW drp \in SUBSET Ids,
           NEW again \in SUBSET Ids, BeforeBatch(upd, drp, again)
    PROVE  Phases' /\ Owned' /\ Kept' /\ Policies'
<1> USE TypeNames
<1>1. /\ pc = "idle" /\ pc' = "update" /\ pending' = upd /\ gone' = drp
      /\ \A t \in Named : toUpdate'[t] = Empty /\ toDelete'[t] = {}
      /\ \A i \in Ids : stored'[i] = IF i \in drp \ again THEN None
                                     ELSE IF upd[i] # None THEN upd[i]
                                     ELSE stored[i]
      /\ UNCHANGED <<idName, resources, cache, left, clash>>
    BY DEF BeforeBatch
<1>2. \A t \in Named : toUpdate[t] = Empty /\ toDelete[t] = {}
    BY <1>1 DEF XdsInv, Phases
<1>3. again \subseteq {i \in drp : upd[i] # None /\ stored[i] # None}
    BY DEF BeforeBatch
<1>4. Phases'
    <2>1. ASSUME NEW i \in Ids, upd[i] # None
          PROVE  stored'[i] = upd[i] \/ (stored'[i] = None /\ i \in drp)
        <3>1. stored'[i] = IF i \in drp \ again THEN None ELSE upd[i]
            BY <1>1, <2>1
        <3> QED
            BY <3>1
    <2> QED
        BY <1>1, <2>1 DEF Phases
<1>5. \A t \in Named : \A n : /\ WillServe(t)' = WillServe(t)
                              /\ WillBe(t, n)' = WillBe(t, n)
    BY <1>1, <1>2 DEF WillServe, WillBe
<1>6. \A i \in Ids : pending[i] = None /\ i \notin gone
    BY <1>1 DEF XdsInv, Phases
<1>7. \A i \in Ids : upd[i] # None \/ i \in drp \/ stored'[i] = stored[i]
    BY <1>1
<1>8. \A i \in Ids : upd[i] = None =>
          stored'[i] = stored[i] \/ stored'[i] = None
    BY <1>1
<1>9. \A i \in Ids, t \in Named : \A n : Owns(i, t, n) => Owns(i, t, n)'
    BY <1>1, <1>6, <1>7 DEF Owns
<1>10. Owned'
    BY <1>1, <1>5, <1>9 DEF XdsInv, Owned
<1>11. Kept'
    <2> SUFFICES ASSUME NEW i \in Ids, NEW t \in Named, NEW n \in Names,
                        Asks(stored'[i], t, n), upd[i] = None
                 PROVE  \/ <<t, n>> \in clash
                        \/ /\ n \in WillServe(t)
                           /\ WillBe(t, n) = Built(t, stored'[i])
        BY <1>1, <1>5 DEF Kept
    <2>1. stored'[i] = stored[i]
        BY <1>8 DEF Asks
    <2> QED
        BY <1>6, <2>1 DEF XdsInv, Kept
<1>12. Policies'
    <2> SUFFICES ASSUME NEW i \in Ids
                 PROVE  /\ resources[i] # None =>
                               \/ upd[i] # None \/ i \in drp
                               \/ resources[i] = stored'[i]
                               \/ <<"VirtualHost", i>> \in left
                        /\ /\ stored'[i] # None /\ stored'[i].kind = "policy"
                           /\ upd[i] = None
                           => \/ resources[i] = stored'[i]
                              \/ <<"VirtualHost", i>> \in clash
        BY <1>1 DEF Policies
    <2> QED
        BY <1>6, <1>7, <1>8 DEF XdsInv, Policies
<1> QED
    BY <1>4, <1>10, <1>11, <1>12

\* What OnUpdated does, one type at a time.
LEMMA UpdatedAt ==
    ASSUME TypeOK, NEW i \in Ids, OnUpdated(i), NEW t \in Named
    PROVE  /\ pending[i] \in Specs
           /\ DOMAIN toUpdate'[t] = DOMAIN toUpdate[t] \cup
                                    {n \in Names : Asks(pending[i], t, n)}
           /\ \A n : Asks(pending[i], t, n) =>
                  /\ n \in Names /\ idName'[t][i] = n
                  /\ toUpdate'[t][n] = Built(t, pending[i])
                  /\ <<t, n>> \notin left'
                  /\ \A j \in Ids \ {i} :
                         Asks(stored[j], t, n) => <<t, n>> \in clash'
           /\ \A n : ~Asks(pending[i], t, n) =>
                  /\ n \in DOMAIN toUpdate[t] => toUpdate'[t][n] = toUpdate[t][n]
                  /\ <<t, n>> \in left => <<t, n>> \in left'
                  /\ <<t, n>> \in clash => <<t, n>> \in clash'
                  /\ idName[t][i] = n /\ n # None => <<t, n>> \in left'
           /\ \A j \in Ids \ {i} : idName'[t][j] = idName[t][j]
<1> DEFINE spec == pending[i]
           mine == t \in TypesOf(spec)
           load == IF spec.kind = "instances" THEN AddEndpoints(endpoints, spec)
                   ELSE endpoints
<1> USE TypeNames
<1>1. spec \in Specs
    BY DEF OnUpdated, TypeOK
<1>2. mine => spec.name \in Names
    BY <1>1, TypesOfNamed
<1>3. toUpdate' = [u \in Types |-> Over(Added(u, spec, load), toUpdate[u])]
    BY Zenon DEF OnUpdated, Added
<1>4. toUpdate'[t] = Over(Added(t, spec, load), toUpdate[t])
    BY <1>3
<1>5. \A j \in Ids : idName'[t][j] =
          IF j = i /\ mine THEN spec.name ELSE idName[t][j]
    BY DEF OnUpdated, TypeOK
<1>6. left' = (left \cup
                  {<<u, idName[u][i]>> : u \in {v \in Named :
                       idName[v][i] # None /\
                       (v \in TypesOf(spec) => idName[v][i] # spec.name)}} \cup
                  (IF spec.kind # "policy" /\ resources[i] # None
                   THEN {<<"VirtualHost", i>>} ELSE {}))
               \ {<<u, spec.name>> : u \in TypesOf(spec)}
    BY DEF OnUpdated
<1>7. clash' = (clash \ ({<<u, spec.name>> : u \in TypesOf(spec)}
                         \cup {<<"VirtualHost", i>>}))
               \cup {<<u, spec.name>> : u \in {v \in TypesOf(spec) :
                         \E j \in Ids \ {i} : Asks(stored[j], v, spec.name)}}
    BY DEF OnUpdated
<1> HIDE DEF load
<1>8. /\ DOMAIN Added(t, spec, load) = IF mine THEN {spec.name} ELSE {}
      /\ mine => Added(t, spec, load)[spec.name] = Built(t, spec)
    BY <1>1, AddedServes
<1> HIDE DEF spec, mine
<1>9. /\ DOMAIN toUpdate'[t] = DOMAIN toUpdate[t] \cup
                               (IF mine THEN {spec.name} ELSE {})
      /\ mine => toUpdate'[t][spec.name] = Built(t, spec)
      /\ \A n \in DOMAIN toUpdate[t] :
             (mine /\ n = spec.name) \/ toUpdate'[t][n] = toUpdate[t][n]
    BY <1>4, <1>8 DEF Over
<1> DEFINE given == {<<u, spec.name>> : u \in TypesOf(spec)}
           renamed == {<<u, idName[u][i]>> : u \in {v \in Named :
                           idName[v][i] # None /\
                           (v \in TypesOf(spec) => idName[v][i] # spec.name)}}
           policy == IF spec.kind # "policy" /\ resources[i] # None
                     THEN {<<"VirtualHost", i>>} ELSE {}
<1>10. \A n : <<t, n>> \in given <=> mine /\ n = spec.name
    BY DEF mine
<1>12. ASSUME idName[t][i] # None, ~(mine /\ idName[t][i] = spec.name)
       PROVE  <<t, idName[t][i]>> \in renamed
    <2>1. t \in {v \in Named : idName[v][i] # None /\
                     (v \in TypesOf(spec) => idName[v][i] # spec.name)}
        BY <1>12 DEF mine
    <2> QED
        BY <2>1
<1>13. left' = (left \cup renamed \cup policy) \ given
    BY <1>6
<1> HIDE DEF given, renamed, policy
<1>14. mine => <<t, spec.name>> \notin left'
    BY <1>10, <1>13
<1>15. ASSUME NEW n, <<t, n>> \in left, ~(mine /\ n = spec.name)
       PROVE  <<t, n>> \in left'
    <2>1. <<t, n>> \notin given
        BY <1>10, <1>15
    <2> QED
        BY <1>13, <1>15, <2>1, Zenon
<1>16. \/ idName[t][i] = None
       \/ mine /\ idName[t][i] = spec.name
       \/ <<t, idName[t][i]>> \in left'
    <2> SUFFICES ASSUME <<t, idName[t][i]>> \in renamed,
                        <<t, idName[t][i]>> \notin given
                 PROVE  <<t, idName[t][i]>> \in left'
        BY <1>10, <1>12
    <2> QED
        BY <1>13, Zenon
<1>11. ASSUME NEW n, <<t, n>> \in clash, ~(mine /\ n = spec.name)
       PROVE  <<t, n>> \in clash'
    <2>1. <<t, n>> \notin given /\ t # "VirtualHost"
        BY <1>10, <1>11
    <2> QED
        BY <1>7, <1>11, <2>1 DEF given
<1>17. ASSUME mine, NEW j \in Ids \ {i}, Asks(stored[j], t, spec.name)
       PROVE  <<t, spec.name>> \in clash'
    BY <1>7, <1>17 DEF mine
<1>18. \A n : Asks(spec, t, n) <=> mine /\ n = spec.name
    BY <1>1, XdsAssumption DEF Asks, mine
<1>19. spec = pending[i]
    BY DEF spec
<1>20. DOMAIN toUpdate'[t] = DOMAIN toUpdate[t] \cup {n \in Names : Asks(spec, t, n)}
    BY <1>2, <1>9, <1>18
<1>21. ASSUME NEW n, Asks(spec, t, n)
       PROVE  /\ n \in Names /\ idName'[t][i] = n
              /\ toUpdate'[t][n] = Built(t, spec)
              /\ <<t, n>> \notin left'
              /\ \A j \in Ids \ {i} :
                     Asks(stored[j], t, n) => <<t, n>> \in clash'
    BY <1>2, <1>5, <1>9, <1>14, <1>17, <1>18, <1>21
<1>22. ASSUME NEW n, ~Asks(spec, t, n)
       PROVE  /\ n \in DOMAIN toUpdate[t] => toUpdate'[t][n] = toUpdate[t][n]
              /\ <<t, n>> \in left => <<t, n>> \in left'
              /\ <<t, n>> \in clash => <<t, n>> \in clash'
              /\ idName[t][i] = n /\ n # None => <<t, n>> \in left'
    BY <1>9, <1>11, <1>15, <1>16, <1>18, <1>22
<1>23. \A j \in Ids \ {i} : idName'[t][j] = idName[t][j]
    BY <1>5
<1> QED
    BY <1>1, <1>19, <1>20, <1>21, <1>22, <1>23

LEMMA OnUpdatedKeeps ==
    ASSUME XdsInv, NEW i \in Ids, OnUpdated(i)
    PROVE  Phases' /\ Owned' /\ Kept' /\ Policies'
<1> USE TypeNames
<1>1. /\ pc = "update" /\ pc' \in {"update", "crashed"}
      /\ pending[i] # None /\ pending' = [pending EXCEPT ![i] = None]
      /\ UNCHANGED <<stored, gone, toDelete, cache>>
    BY DEF OnUpdated
<1>2. pending'[i] = None /\ \A j \in Ids \ {i} : pending'[j] = pending[j]
    BY <1>1 DEF XdsInv, TypeOK
<1>3. stored[i] = pending[i] \/ (stored[i] = None /\ i \in gone)
    BY <1>1 DEF XdsInv, Phases
<1>4. \A t \in Named : toDelete[t] = {}
    BY <1>1 DEF XdsInv, Phases
<1>5. Phases'
    BY <1>1, <1>2 DEF XdsInv, Phases
<1>6. \A t \in Named :
          /\ WillServe(t) = DOMAIN toUpdate[t] \cup DOMAIN cache[t]
          /\ WillServe(t)' = DOMAIN toUpdate'[t] \cup DOMAIN cache[t]
    BY <1>1, <1>4 DEF WillServe
<1>7. \A t \in Named : \A n : ~Asks(pending[i], t, n) =>
          (n \in WillServe(t)' <=> n \in WillServe(t)) /\ WillBe(t, n)' = WillBe(t, n)
    <2> SUFFICES ASSUME NEW t \in Named, NEW n, ~Asks(pending[i], t, n)
                 PROVE  /\ n \in WillServe(t)' <=> n \in WillServe(t)
                        /\ WillBe(t, n)' = WillBe(t, n)
        OBVIOUS
    <2>2. DOMAIN toUpdate'[t] = DOMAIN toUpdate[t] \cup
                                {m \in Names : Asks(pending[i], t, m)}
        BY UpdatedAt DEF XdsInv
    <2>3. n \in DOMAIN toUpdate[t] => toUpdate'[t][n] = toUpdate[t][n]
        BY UpdatedAt DEF XdsInv
    <2>1. n \in DOMAIN toUpdate'[t] <=> n \in DOMAIN toUpdate[t]
        BY <2>2
    <2> QED
        BY <1>1, <1>6, <2>1, <2>3 DEF WillBe
<1>8. \A t \in Named : \A n : Asks(pending[i], t, n) =>
          n \in WillServe(t)' /\ WillBe(t, n)' = Built(t, pending[i])
    <2> SUFFICES ASSUME NEW t \in Named, NEW n, Asks(pending[i], t, n)
                 PROVE  n \in WillServe(t)' /\ WillBe(t, n)' = Built(t, pending[i])
        OBVIOUS
    <2>2. DOMAIN toUpdate'[t] = DOMAIN toUpdate[t] \cup
                                {m \in Names : Asks(pending[i], t, m)}
        BY UpdatedAt DEF XdsInv
    <2>3. n \in Names /\ toUpdate'[t][n] = Built(t, pending[i])
        BY UpdatedAt DEF XdsInv
    <2>1. n \in DOMAIN toUpdate'[t] /\ toUpdate'[t][n] = Built(t, pending[i])
        BY <2>2, <2>3
    <2> QED
        BY <1>6, <2>1 DEF WillBe
<1>9. Owned'
    <2> SUFFICES ASSUME NEW t \in Named, NEW n \in WillServe(t)'
                 PROVE  <<t, n>> \in left' \/ \E k \in Ids : Owns(k, t, n)'
        BY DEF Owned
    <2>1. CASE Asks(pending[i], t, n)
        <3>1. idName'[t][i] = n
            BY <2>1, UpdatedAt DEF XdsInv
        <3>2. i \in gone \/ Asks(stored[i], t, n)
            BY <1>3, <2>1
        <3> QED
            BY <1>1, <3>1, <3>2 DEF Owns
    <2>2. CASE ~Asks(pending[i], t, n)
        <3>1. n \in WillServe(t)
            BY <1>7, <2>2
        <3>2. n \in Names /\ n # None
            BY <1>6, <3>1, XdsAssumption DEF XdsInv, TypeOK, Serves
        <3>3. CASE <<t, n>> \in left
            BY <2>2, <3>3, UpdatedAt DEF XdsInv
        <3>4. ASSUME NEW k \in Ids, Owns(k, t, n)
              PROVE  <<t, n>> \in left' \/ Owns(k, t, n)'
            <4>1. CASE k = i
                BY <2>2, <3>2, <3>4, <4>1, UpdatedAt DEF XdsInv, Owns
            <4>2. CASE k # i
                <5>1. idName'[t][k] = idName[t][k]
                    BY <4>2, UpdatedAt DEF XdsInv
                <5> QED
                    BY <1>1, <1>2, <3>4, <4>2, <5>1 DEF Owns
            <4> QED
                BY <4>1, <4>2
        <3> QED
            BY <3>1, <3>3, <3>4 DEF XdsInv, Owned
    <2> QED
        BY <2>1, <2>2
<1>10. Kept'
    <2> SUFFICES ASSUME NEW j \in Ids, NEW t \in Named, NEW n \in Names,
                        Asks(stored[j], t, n), pending'[j] = None
                 PROVE  \/ <<t, n>> \in clash'
                        \/ /\ n \in WillServe(t)'
                           /\ WillBe(t, n)' = Built(t, stored[j])
        BY <1>1 DEF Kept
    <2>1. CASE j = i
        <3>1. stored[i] = pending[i]
            BY <1>3, <2>1 DEF Asks
        <3> QED
            BY <1>8, <2>1, <3>1
    <2>2. CASE j # i /\ Asks(pending[i], t, n)
        BY <2>2, UpdatedAt DEF XdsInv
    <2>3. CASE j # i /\ ~Asks(pending[i], t, n)
        <3>1. \/ <<t, n>> \in clash
              \/ n \in WillServe(t) /\ WillBe(t, n) = Built(t, stored[j])
            BY <1>2, <2>3 DEF XdsInv, Kept
        <3>2. <<t, n>> \in clash => <<t, n>> \in clash'
            BY <2>3, UpdatedAt DEF XdsInv
        <3> QED
            BY <1>7, <2>3, <3>1, <3>2
    <2> QED
        BY <2>1, <2>2, <2>3
<1>11. Policies'
    <2>1. \A j \in Ids : <<"VirtualHost", j>> \in left => <<"VirtualHost", j>> \in left'
        BY DEF OnUpdated, TypesOf
    <2>2. \A j \in Ids \ {i} :
              <<"VirtualHost", j>> \in clash => <<"VirtualHost", j>> \in clash'
        BY DEF OnUpdated, TypesOf
    <2>3. pending[i].kind # "policy" /\ resources[i] # None =>
              <<"VirtualHost", i>> \in left'
        BY DEF OnUpdated, TypesOf
    <2>4. \A j \in Ids : resources'[j] =
              IF j = i /\ pending[i].kind = "policy" THEN pending[i]
              ELSE resources[j]
        BY DEF OnUpdated, putPolicy, XdsInv, TypeOK
    <2> SUFFICES ASSUME NEW j \in Ids
                 PROVE  /\ resources'[j] # None =>
                               \/ pending'[j] # None \/ j \in gone
                               \/ resources'[j] = stored[j]
                               \/ <<"VirtualHost", j>> \in left'
                        /\ /\ stored[j] # None /\ stored[j].kind = "policy"
                           /\ pending'[j] = None
                           => \/ resources'[j] = stored[j]
                              \/ <<"VirtualHost", j>> \in clash'
        BY <1>1 DEF Policies
    <2>5. CASE j = i
        BY <1>3, <2>3, <2>4, <2>5
    <2>6. CASE j # i
        BY <1>2, <2>1, <2>2, <2>4, <2>6 DEF XdsInv, Policies
    <2> QED
        BY <2>5, <2>6
<1> QED
    BY <1>5, <1>9, <1>10, <1>11

\* What OnDropped does, one type at a time.
LEMMA DroppedAt ==
    ASSUME TypeOK, NEW i \in Ids, NEW reached \in SUBSET Types,
           OnDropped(i, reached), NEW t \in Named
    PROVE  /\ toDelete[t] \subseteq toDelete'[t]
           /\ \A n \in Names : idName[t][i] = n =>
                  n \in toDelete'[t] \/ <<t, n>> \in left'
           /\ \A n \in toDelete'[t] \ toDelete[t] : \A j \in Ids :
                  Asks(stored[j], t, n) => <<t, n>> \in clash'
           /\ left \subseteq left' /\ clash \subseteq clash'
           /\ \A j \in Ids \ {i} : idName'[t][j] = idName[t][j]
<1> USE TypeNames
<1>1. toDelete'[t] = toDelete[t] \cup
          (IF t \in reached THEN {idName[t][i]} \ {None, ""} ELSE {})
    BY DEF OnDropped
<1>2. \A n \in Names : t \in reached /\ idName[t][i] = n /\ n # "" =>
          n \in toDelete'[t]
    BY <1>1, XdsAssumption
<1>3. \A n \in Names : (t \in reached => n = "") /\ idName[t][i] = n =>
          <<t, n>> \in left'
    BY XdsAssumption DEF OnDropped
<1>4. ASSUME NEW n \in toDelete'[t] \ toDelete[t], NEW j \in Ids,
             Asks(stored[j], t, n)
      PROVE  <<t, n>> \in clash'
    <2>1. n = idName[t][i] /\ t \in reached /\ n \notin {None, ""}
        BY <1>1, <1>4
    <2>2. <<t, idName[t][i]>> \in clash'
        BY <1>4, <2>1 DEF OnDropped
    <2> QED
        BY <2>1, <2>2
<1>5. left \subseteq left' /\ clash \subseteq clash'
    BY DEF OnDropped
<1>6. \A j \in Ids \ {i} : idName'[t][j] = idName[t][j]
    BY DEF OnDropped, TypeOK
<1> QED
    BY <1>1, <1>2, <1>3, <1>4, <1>5, <1>6

LEMMA OnDroppedKeeps ==
    ASSUME XdsInv, NEW i \in Ids, NEW reached \in SUBSET Types,
           OnDropped(i, reached)
    PROVE  Phases' /\ Owned' /\ Kept' /\ Policies'
<1> USE TypeNames
<1>1. /\ pc = "drop" /\ pc' = "drop" /\ gone' = gone \ {i}
      /\ UNCHANGED <<stored, pending, toUpdate, cache>>
    BY DEF OnDropped
<1>2. Phases'
    BY <1>1 DEF XdsInv, Phases
<1>3. \A t \in Named : \A n : /\ WillBe(t, n)' = WillBe(t, n)
                              /\ n \in WillServe(t)' <=>
                                     n \in WillServe(t) /\ n \notin toDelete'[t]
    <2> SUFFICES ASSUME NEW t \in Named
                 PROVE  \A n : /\ WillBe(t, n)' = WillBe(t, n)
                               /\ n \in WillServe(t)' <=>
                                     n \in WillServe(t) /\ n \notin toDelete'[t]
        OBVIOUS
    <2>1. toDelete[t] \subseteq toDelete'[t]
        BY DroppedAt DEF XdsInv
    <2> QED
        BY <1>1, <2>1 DEF WillBe, WillServe
<1>4. Owned'
    <2> SUFFICES ASSUME NEW t \in Named, NEW n \in WillServe(t)'
                 PROVE  <<t, n>> \in left' \/ \E k \in Ids : Owns(k, t, n)'
        BY DEF Owned
    <2>1. n \in WillServe(t) /\ n \notin toDelete'[t]
        BY <1>3
    <2>2. n \in Names
        BY <2>1 DEF WillServe, XdsInv, TypeOK, Serves
    <2>3. <<t, n>> \in left => <<t, n>> \in left'
        BY DroppedAt DEF XdsInv
    <2>4. ASSUME NEW k \in Ids, Owns(k, t, n)
          PROVE  <<t, n>> \in left' \/ Owns(k, t, n)'
        <3>1. CASE k = i
            BY <2>1, <2>2, <2>4, <3>1, DroppedAt DEF XdsInv, Owns
        <3>2. CASE k # i
            <4>1. idName'[t][k] = idName[t][k]
                BY <3>2, DroppedAt DEF XdsInv
            <4> QED
                BY <1>1, <2>4, <3>2, <4>1 DEF Owns
        <3> QED
            BY <3>1, <3>2
    <2> QED
        BY <2>1, <2>3, <2>4 DEF XdsInv, Owned
<1>5. Kept'
    <2> SUFFICES ASSUME NEW j \in Ids, NEW t \in Named, NEW n \in Names,
                        Asks(stored[j], t, n), pending[j] = None
                 PROVE  \/ <<t, n>> \in clash'
                        \/ /\ n \in WillServe(t)'
                           /\ WillBe(t, n)' = Built(t, stored[j])
        BY <1>1 DEF Kept
    <2>1. \/ <<t, n>> \in clash
          \/ n \in WillServe(t) /\ WillBe(t, n) = Built(t, stored[j])
        BY DEF XdsInv, Kept
    <2>2. <<t, n>> \in clash => <<t, n>> \in clash'
        BY DroppedAt DEF XdsInv
    <2>3. n \in WillServe(t) /\ n \in toDelete'[t] => <<t, n>> \in clash'
        <3>1. n \in WillServe(t) => n \notin toDelete[t]
            BY DEF WillServe
        <3> QED
            BY <3>1, DroppedAt DEF XdsInv
    <2> QED
        BY <1>3, <2>1, <2>2, <2>3
<1>6. Policies'
    <2>1. left \subseteq left' /\ clash \subseteq clash'
        BY DEF OnDropped
    <2>2. resources'[i] # None => <<"VirtualHost", i>> \in left'
        BY DEF OnDropped
    <2>5. resources' = IF "VirtualHost" \in reached
                       THEN [resources EXCEPT ![i] = None] ELSE resources
        BY DEF OnDropped
    <2>3. \A j \in Ids : resources'[j] = resources[j] \/
              (j = i /\ "VirtualHost" \in reached)
        BY <2>5 DEF XdsInv, TypeOK
    <2>4. stored[i] # None /\ "VirtualHost" \in reached =>
              <<"VirtualHost", i>> \in clash'
        <3> SUFFICES ASSUME stored[i] # None, "VirtualHost" \in reached
                     PROVE  <<"VirtualHost", i>> \in clash'
            OBVIOUS
        <3> QED
            BY DEF OnDropped
    <2> SUFFICES ASSUME NEW j \in Ids
                 PROVE  /\ resources'[j] # None =>
                               \/ pending[j] # None \/ j \in gone'
                               \/ resources'[j] = stored[j]
                               \/ <<"VirtualHost", j>> \in left'
                        /\ /\ stored[j] # None /\ stored[j].kind = "policy"
                           /\ pending[j] = None
                           => \/ resources'[j] = stored[j]
                              \/ <<"VirtualHost", j>> \in clash'
        BY <1>1 DEF Policies
    <2> QED
        BY <1>1, <2>1, <2>2, <2>3, <2>4 DEF XdsInv, Policies
<1> QED
    BY <1>2, <1>4, <1>5, <1>6

\* The steps of a batch that only move on, and the caches.
LEMMA ApplyKeeps ==
    ASSUME XdsInv,
           \/ OnUpdated_done \/ AfterBatch \/ AfterBatch_end
           \/ \E t \in Types : UpdateResources(t)
    PROVE  Phases' /\ Owned' /\ Kept' /\ Policies'
<1> USE TypeNames
<1>1. CASE OnUpdated_done
    <2>1. /\ pc = "update" /\ pc' = "drop" /\ \A i \in Ids : pending[i] = None
          /\ UNCHANGED <<stored, pending, gone, idName, resources, cache,
                         toUpdate, toDelete, left, clash>>
        BY <1>1 DEF OnUpdated_done, tx, history
    <2>2. Phases'
        BY <2>1 DEF XdsInv, Phases
    <2>3. Owned' /\ Kept' /\ Policies'
        BY <2>1 DEF XdsInv, Owned, Kept, Policies, Owns, WillServe, WillBe
    <2> QED
        BY <2>2, <2>3
<1>2. CASE AfterBatch
    <2>1. /\ pc = "drop" /\ pc' = "apply" /\ gone = {}
          /\ \A t \in Named : toUpdate'[t] = toUpdate[t] /\ toDelete'[t] = toDelete[t]
          /\ apply' = {t \in Types : toUpdate'[t] # Empty \/ toDelete'[t] # {}}
          /\ UNCHANGED <<stored, pending, gone, idName, resources, cache,
                         left, clash>>
        BY <1>2 DEF AfterBatch, history, XdsInv, TypeOK
    <2>2. Phases'
        <3>1. \A t \in Named \ apply' : toUpdate'[t] = Empty /\ toDelete'[t] = {}
            BY <2>1
        <3> QED
            BY <2>1, <3>1, ServesEmpty DEF XdsInv, Phases
    <2>3. Owned' /\ Kept' /\ Policies'
        BY <2>1 DEF XdsInv, Owned, Kept, Policies, Owns, WillServe, WillBe
    <2> QED
        BY <2>2, <2>3
<1>3. CASE AfterBatch_end
    <2>1. /\ pc = "apply" /\ pc' = "idle" /\ apply = {}
          /\ \A t \in Named : toUpdate'[t] = Empty /\ toDelete'[t] = {}
          /\ left' = {l \in left :
                   IF l[1] = "VirtualHost"
                   THEN resources[l[2]] \notin {None, stored[l[2]]}
                   ELSE l[2] \in DOMAIN cache[l[1]]}
          /\ UNCHANGED <<stored, pending, gone, idName, resources, cache, clash>>
        BY <1>3 DEF AfterBatch_end
    <2>2. Phases'
        BY <2>1, ServesEmpty DEF XdsInv, Phases
    <2>3. \A t \in Named : WillServe(t)' = DOMAIN cache[t]
        BY <2>1, ServesEmpty DEF WillServe
    <2>4. \A t \in Named : WillServe(t) = DOMAIN cache[t]
        BY <2>1 DEF WillServe, XdsInv, Phases
    <2>5. \A t \in Named : \A n \in DOMAIN cache[t] : WillBe(t, n)' = WillBe(t, n)
        BY <2>1, ServesEmpty DEF WillBe, XdsInv, Phases
    <2>6. Owned'
        <3> SUFFICES ASSUME NEW t \in Named, NEW n \in DOMAIN cache[t]
                     PROVE  <<t, n>> \in left' \/ \E k \in Ids : Owns(k, t, n)'
            BY <2>3 DEF Owned
        <3>1. <<t, n>> \in left => <<t, n>> \in left'
            BY <2>1
        <3>2. \A k \in Ids : Owns(k, t, n) => Owns(k, t, n)'
            BY <2>1 DEF Owns
        <3> QED
            BY <2>4, <3>1, <3>2 DEF XdsInv, Owned
    <2>7. Kept'
        BY <2>1, <2>3, <2>4, <2>5 DEF XdsInv, Kept
    <2>8. Policies'
        <3>1. \A j \in Ids : resources[j] \in {None, stored[j]} \/
                  (<<"VirtualHost", j>> \in left => <<"VirtualHost", j>> \in left')
            BY <2>1
        <3> QED
            BY <2>1, <3>1 DEF XdsInv, Policies
    <2> QED
        BY <2>2, <2>6, <2>7, <2>8
<1>4. ASSUME NEW t \in Types, UpdateResources(t)
      PROVE  Phases' /\ Owned' /\ Kept' /\ Policies'
    <2> DEFINE all == Over(toUpdate[t], cache[t])
    <2>1. /\ pc = "apply" /\ pc' = "apply" /\ apply' = apply \ {t}
          /\ cache' = [cache EXCEPT ![t] =
                 [n \in DOMAIN all \ toDelete[t] |-> all[n]]]
          /\ UNCHANGED <<stored, pending, gone, idName, resources, toUpdate,
                         toDelete, left, clash>>
        BY <1>4 DEF UpdateResources, history
    <2>2. /\ cache'[t] = [n \in DOMAIN all \ toDelete[t] |-> all[n]]
          /\ \A u \in Types \ {t} : cache'[u] = cache[u]
        BY <2>1 DEF XdsInv, TypeOK
    <2>3. /\ DOMAIN cache'[t] = (DOMAIN toUpdate[t] \cup DOMAIN cache[t]) \ toDelete[t]
          /\ \A n \in DOMAIN cache'[t] :
                 cache'[t][n] = IF n \in DOMAIN toUpdate[t] THEN toUpdate[t][n]
                                ELSE cache[t][n]
        BY <2>2 DEF Over
    <2> HIDE DEF all
    <2>4. Phases'
        <3>1. \A u \in Named \ apply' :
                  /\ DOMAIN toUpdate[u] \ toDelete[u] \subseteq DOMAIN cache'[u]
                  /\ DOMAIN cache'[u] \cap toDelete[u] = {}
                  /\ \A n \in DOMAIN toUpdate[u] \ toDelete[u] :
                         cache'[u][n] = toUpdate[u][n]
            <4> SUFFICES ASSUME NEW u \in Named \ apply'
                         PROVE  /\ DOMAIN toUpdate[u] \ toDelete[u] \subseteq DOMAIN cache'[u]
                                /\ DOMAIN cache'[u] \cap toDelete[u] = {}
                                /\ \A n \in DOMAIN toUpdate[u] \ toDelete[u] :
                                       cache'[u][n] = toUpdate[u][n]
                OBVIOUS
            <4>1. CASE u = t
                BY <2>3, <4>1
            <4>2. CASE u # t
                <5>1. u \in Named \ apply /\ cache'[u] = cache[u]
                    BY <2>1, <2>2, <4>2
                <5> QED
                    BY <2>1, <5>1 DEF XdsInv, Phases
            <4> QED
                BY <4>1, <4>2
        <3>2. /\ gone = {} /\ \A i \in Ids : pending[i] = None
              /\ pc' = "apply"
            BY <2>1 DEF XdsInv, Phases
        <3>3. \A i \in Ids : pending[i] # None =>
                  stored[i] = pending[i] \/ (stored[i] = None /\ i \in gone)
            BY DEF XdsInv, Phases
        <3> QED
            <4>1. UNCHANGED <<stored, pending, gone, toUpdate, toDelete>>
                BY <2>1
            <4> QED
                BY <3>1, <3>2, <3>3, <4>1 DEF Phases
    <2>5. \A u \in Named : WillServe(u)' = WillServe(u)
        BY <2>1, <2>2, <2>3 DEF WillServe
    <2>6. \A u \in Named : \A n \in WillServe(u) : WillBe(u, n)' = WillBe(u, n)
        BY <2>1, <2>2, <2>3 DEF WillServe, WillBe
    <2>7. Owned' /\ Kept' /\ Policies'
        BY <2>1, <2>5, <2>6 DEF XdsInv, Owned, Kept, Policies, Owns
    <2> QED
        BY <2>4, <2>7
<1> QED
    BY <1>1, <1>2, <1>3, <1>4

LEMMA XdsInvStep == XdsInv /\ [Next]_vars => XdsInv'
<1> SUFFICES ASSUME XdsInv, [Next]_vars PROVE XdsInv'
    OBVIOUS
<1>1. TypeOK' /\ AreMaps'
    BY XdsTypeStep DEF XdsInv
<1>2. CASE UNCHANGED vars
    BY <1>1, <1>2 DEF vars, tx, history, XdsInv, Phases, Owned, Kept, Policies,
                      Owns, WillServe, WillBe
<1>3. CASE Next
    <2>1. Phases' /\ Owned' /\ Kept' /\ Policies'
        BY <1>3, BeforeBatchKeeps, OnUpdatedKeeps, OnDroppedKeeps, ApplyKeeps
           DEF Next
    <2> QED
        BY <1>1, <2>1 DEF XdsInv
<1> QED
    BY <1>2, <1>3

LEMMA XdsInvInit == Init => XdsInv
<1> SUFFICES ASSUME Init PROVE XdsInv
    OBVIOUS
<1> USE TypeNames, ServesEmpty
<1>1. TypeOK
    <2>1. /\ changes \in 0..MaxChanges /\ pc = "idle" /\ gone \in SUBSET Ids
          /\ stored \in [Ids -> Specs \cup {None}]
          /\ pending \in [Ids -> Specs \cup {None}]
          /\ apply \in SUBSET Types /\ DOMAIN clusterNames \subseteq Names
        BY XdsAssumption DEF Init
    <2>2. /\ idName \in [Named -> [Ids -> Names \cup {None}]]
          /\ resources \in [Ids -> {s \in Specs : s.kind = "policy"} \cup {None}]
        BY DEF Init
    <2>3. /\ DOMAIN toUpdate = Types /\ DOMAIN toDelete = Types
          /\ DOMAIN cache = Types
          /\ \A t \in Named : Serves(t, toUpdate[t]) /\ Serves(t, cache[t])
          /\ \A t \in Named : toDelete[t] \subseteq Names
        BY DEF Init
    <2> QED
        BY <2>1, <2>2, <2>3 DEF TypeOK
<1>2. AreMaps
    BY DEF Init, AreMaps
<1>3. Phases
    BY DEF Init, Phases
<1>4. Owned /\ Kept
    BY DEF Init, Owned, Kept, WillServe, Asks
<1>5. Policies
    BY DEF Init, Policies
<1> QED
    BY <1>1, <1>2, <1>3, <1>4, <1>5 DEF XdsInv

LEMMA XdsInvAlways == Spec => []XdsInv
BY XdsInvInit, XdsInvStep, PTL DEF Spec

-----------------------------------------------------------------------------
\* The state of the provider keeps its types, whatever the batches hold.
THEOREM XdsTypeCorrect == Spec => []TypeOK
BY XdsInvAlways, PTL DEF XdsInv

\* Between two batches Envoy is served what the resource store holds, as
\* OnUpdated, OnDropped and AfterBatch of the provider keep it, for any
\* resources and any batches: except for the names that left and clash tell.
THEOREM XdsServedIsStored == Spec => []ServedIsStored
<1>1. XdsInv => ServedIsStored
    <2> SUFFICES ASSUME XdsInv, pc = "idle" PROVE NoGhost /\ StoredIsServed
        BY DEF ServedIsStored
    <2> USE TypeNames
    <2>1. /\ \A i \in Ids : pending[i] = None /\ i \notin gone
          /\ \A t \in Named : toUpdate[t] = Empty /\ toDelete[t] = {}
        BY DEF XdsInv, Phases
    <2>2. \A t \in Named : /\ WillServe(t) = DOMAIN cache[t]
                           /\ \A n : WillBe(t, n) = cache[t][n]
        BY <2>1, ServesEmpty DEF WillServe, WillBe
    <2>3. \A t \in Named : \A n \in DOMAIN cache[t] :
              \/ <<t, n>> \in left
              \/ \E i \in Ids : Asks(stored[i], t, n)
        BY <2>1, <2>2 DEF XdsInv, Owned, Owns
    <2>4. NoGhost
        BY <2>1, <2>3 DEF NoGhost, Asks, XdsInv, Policies
    <2>5. ASSUME NEW i \in Ids, stored[i] # None, NEW t \in TypesOf(stored[i])
          PROVE  \/ <<t, stored[i].name>> \in clash
                 \/ /\ stored[i].name \in DOMAIN cache[t]
                    /\ cache[t][stored[i].name] = Built(t, stored[i])
        <3>1. stored[i] \in Specs
            BY <2>5 DEF XdsInv, TypeOK
        <3>2. t \in Named /\ stored[i].name \in Names
            BY <2>5, <3>1, TypesOfNamed
        <3>3. Asks(stored[i], t, stored[i].name)
            BY <2>5 DEF Asks
        <3> QED
            BY <2>1, <2>2, <3>2, <3>3 DEF XdsInv, Kept
    <2>6. StoredIsServed
        BY <2>1, <2>5 DEF StoredIsServed, XdsInv, Policies
    <2> QED
        BY <2>4, <2>6
<1> QED
    BY <1>1, XdsInvAlways, PTL

-----------------------------------------------------------------------------
(* The filters of a listener *)

\* FlattenSeq puts the sequences behind each other.
LEMMA Flattened ==
    ASSUME NEW X, NEW seqs \in Seq(Seq(X))
    PROVE  /\ FlattenSeq(seqs) \in Seq(X)
           /\ Range(FlattenSeq(seqs)) = UNION {Range(seqs[k]) : k \in DOMAIN seqs}
<1>1. CASE Len(seqs) = 0
    <2>1. seqs = <<>> /\ FlattenSeq(seqs) = seqs /\ DOMAIN seqs = {}
        BY <1>1 DEF FlattenSeq
    <2>2. Range(seqs) = {} /\ seqs \in Seq(X)
        BY <2>1 DEF Range
    <2>3. UNION {Range(seqs[k]) : k \in DOMAIN seqs} = {}
        BY <2>1
    <2> QED
        BY <2>1, <2>2, <2>3
<1>2. CASE Len(seqs) # 0
    <2>12. PICK n \in Nat : n = Len(seqs) /\ n # 0
        BY <1>2
    <2> DEFINE Is(g) == g = [i \in 1..n |-> IF i = 1 THEN seqs[i]
                                            ELSE g[i - 1] \o seqs[i]]
               f == CHOOSE g : Is(g)
    <2>1. n \in Nat \ {0} /\ DOMAIN seqs = 1..n /\ \A k \in 1..n : seqs[k] \in Seq(X)
        BY <2>12
    <2>2. FlattenSeq(seqs) = f[n]
        BY <1>2, <2>12, Zenon DEF FlattenSeq
    <2>3. PICK step \in [(1..n) \X Seq(X) -> Seq(X)] :
              \A k \in 1..n, s \in Seq(X) :
                  step[<<k, s>>] = IF k = 1 THEN seqs[k] ELSE s \o seqs[k]
        <3> DEFINE h == [q \in (1..n) \X Seq(X) |->
                            IF q[1] = 1 THEN seqs[q[1]] ELSE q[2] \o seqs[q[1]]]
        <3>1. h \in [(1..n) \X Seq(X) -> Seq(X)]
            BY <2>1
        <3>2. \A k \in 1..n, s \in Seq(X) :
                  h[<<k, s>>] = IF k = 1 THEN seqs[k] ELSE s \o seqs[k]
            OBVIOUS
        <3> HIDE DEF h
        <3> QED
            BY <3>1, <3>2
    <2>4. Is(f)
        <3>1. PICK it \in [SUBSET (1..n) -> Seq(X)] : Runs(it, n, <<>>, step)
            <4>1. <<>> \in Seq(X)
                OBVIOUS
            <4> QED
                BY <4>1, FoldExists, FoldRuns
        <3>2. \A k \in 1..n : it[1..k] = step[<<k, it[1..(k - 1)]>>]
            BY <3>1 DEF Runs
        <3> DEFINE h == [i \in 1..n |-> it[1..i]]
        <3>3. ASSUME NEW i \in 1..n
              PROVE  h[i] = IF i = 1 THEN seqs[i] ELSE h[i - 1] \o seqs[i]
            <4>1. it[1..(i - 1)] \in Seq(X)
                <5>1. 1..(i - 1) \in SUBSET (1..n)
                    BY <2>1
                <5> QED
                    BY <3>1, <5>1
            <4>2. step[<<i, it[1..(i - 1)]>>] =
                      IF i = 1 THEN seqs[i] ELSE it[1..(i - 1)] \o seqs[i]
                BY <2>3, <4>1
            <4>3. i # 1 => i - 1 \in 1..n
                BY <2>1
            <4> QED
                BY <3>2, <4>2, <4>3
        <3>4. Is(h)
            BY <3>3
        <3> HIDE DEF h, Is
        <3> QED
            BY <3>4
    <2> DEFINE Good(k) == /\ f[k] \in Seq(X)
                          /\ \A y : y \in Range(f[k]) <=>
                                        \E j \in 1..k : y \in Range(seqs[j])
               T == {k \in 1..n : ~Good(k)}
    <2> HIDE DEF f
    <2>5. \A k \in 1..n : f[k] = IF k = 1 THEN seqs[k] ELSE f[k - 1] \o seqs[k]
        BY <2>4, Zenon
    <2>6. 1 \notin T
        BY <2>1, <2>5
    <2>7. ASSUME NEW k \in 2..n, k - 1 \notin T
          PROVE  k \notin T
        <3>1. k - 1 \in 1..n /\ k \in 1..n /\ k # 1
            BY <2>1
        <3>2. f[k] = f[k - 1] \o seqs[k]
            BY <2>5, <3>1
        <3>3. Good(k - 1)
            BY <2>7, <3>1
        <3>4. seqs[k] \in Seq(X)
            BY <2>1, <3>1
        <3>5. f[k] \in Seq(X) /\ Range(f[k]) = Range(f[k - 1]) \cup Range(seqs[k])
            <4> DEFINE u == f[k - 1]
                       v == seqs[k]
            <4>1. u \in Seq(X) /\ v \in Seq(X)
                BY <3>3, <3>4
            <4> HIDE DEF u, v
            <4>2. u \o v \in Seq(X) /\ Range(u \o v) = Range(u) \cup Range(v)
                BY <4>1, RangeConcatenation
            <4> QED
                BY <3>2, <4>2 DEF u, v
        <3>6. 1..k = (1..(k - 1)) \cup {k}
            BY <2>1
        <3>7. \A y : (\E j \in 1..k : y \in Range(seqs[j])) <=>
                     \/ \E j \in 1..(k - 1) : y \in Range(seqs[j])
                     \/ y \in Range(seqs[k])
            BY <3>6
        <3>8. Good(k)
            BY <3>3, <3>5, <3>7
        <3> QED
            BY <3>8
    <2>8. T = {}
        <3> SUFFICES ASSUME T # {} PROVE FALSE
            OBVIOUS
        <3>1. T \subseteq Nat /\ T \subseteq 1..n
            BY <2>1
        <3> HIDE DEF T
        <3>2. PICK k \in T : \A y \in T : k <= y
            BY <3>1, LeastNumber
        <3>3. k \in 2..n /\ k - 1 \notin T
            BY <2>1, <2>6, <3>1, <3>2
        <3> QED
            BY <2>7, <3>3
    <2>9. n \in 1..n
        BY <2>1
    <2>10. Good(n)
        BY <2>8, <2>9
    <2>11. Range(f[n]) = UNION {Range(seqs[k]) : k \in DOMAIN seqs}
        BY <2>1, <2>10
    <2> QED
        BY <2>2, <2>10, <2>11
<1> QED
    BY <1>1, <1>2

\* What the HTTP filters of an ingress become, before the router.
LEMMA FiltersOf ==
    ASSUME NEW spec \in Specs, spec.kind = "ingress"
    PROVE  LET parts == [k \in DOMAIN spec.filters |-> HttpFilter(spec.filters[k])]
           IN  \E X : /\ FlattenSeq(parts) \in Seq(X)
                      /\ Range(FlattenSeq(parts)) =
                             UNION {Range(HttpFilter(f)) : f \in Range(spec.filters)}
<1> DEFINE parts == [k \in DOMAIN spec.filters |-> HttpFilter(spec.filters[k])]
           X == UNION {Range(HttpFilter(f)) : f \in Range(spec.filters)}
<1>1. spec.filters \in Seq(Range(spec.filters))
    BY SpecsAssumption DEF IsSequence
<1>2. \A f : \E n \in {0, 1} : \E e : HttpFilter(f) = IF n = 0 THEN <<>> ELSE <<e>>
    BY DEF HttpFilter
<1>3. \A f \in Range(spec.filters) : HttpFilter(f) \in Seq(X)
    <2> SUFFICES ASSUME NEW f \in Range(spec.filters)
                 PROVE  HttpFilter(f) \in Seq(X)
        OBVIOUS
    <2>1. Range(HttpFilter(f)) \subseteq X
        OBVIOUS
    <2> HIDE DEF X
    <2>4. PICK n \in {0, 1} :
              \E e : HttpFilter(f) = IF n = 0 THEN <<>> ELSE <<e>>
        BY <1>2
    <2>2. PICK e : HttpFilter(f) = IF n = 0 THEN <<>> ELSE <<e>>
        BY <2>4
    <2>3. n = 1 => e \in X
        BY <2>1, <2>2 DEF Range
    <2> QED
        BY <2>2, <2>3
<1>4. parts \in Seq(Seq(X))
    <2>1. \A k \in DOMAIN spec.filters : spec.filters[k] \in Range(spec.filters)
        BY DEF Range
    <2>2. PICK n \in Nat : DOMAIN spec.filters = 1..n
        BY <1>1
    <2> HIDE DEF X
    <2>3. \A k \in 1..n : parts[k] \in Seq(X)
        BY <1>3, <2>1, <2>2
    <2>4. parts \in [1..n -> Seq(X)]
        BY <2>2, <2>3
    <2> HIDE DEF parts
    <2> QED
        BY <2>4
<1>5. /\ FlattenSeq(parts) \in Seq(X)
      /\ Range(FlattenSeq(parts)) = UNION {Range(parts[k]) : k \in DOMAIN parts}
    <2> HIDE DEF parts, X
    <2> QED
        BY <1>4, Flattened
<1>6. UNION {Range(parts[k]) : k \in DOMAIN parts} = X
    <2>1. /\ DOMAIN parts = DOMAIN spec.filters
          /\ \A k \in DOMAIN spec.filters : parts[k] = HttpFilter(spec.filters[k])
        OBVIOUS
    <2>2. /\ \A k \in DOMAIN spec.filters : spec.filters[k] \in Range(spec.filters)
          /\ \A f \in Range(spec.filters) :
                 \E k \in DOMAIN spec.filters : f = spec.filters[k]
        BY DEF Range
    <2> HIDE DEF parts
    <2> QED
        BY <2>1, <2>2
<1> QED
    BY <1>5, <1>6

\* The router is the last filter, and the only one.
LEMMA RouterIsLast ==
    ASSUME NEW spec \in Specs, spec.kind = "ingress"
    PROVE  LET served == HttpFilters(spec)
               router == SelectInSeq(served, LAMBDA f : f.kind = "httpRouter")
           IN  {served[k] : k \in 1..(router - 1)} =
                   UNION {Range(HttpFilter(f)) : f \in Range(spec.filters)}
<1> DEFINE parts == [k \in DOMAIN spec.filters |-> HttpFilter(spec.filters[k])]
           before == FlattenSeq(parts)
           served == HttpFilters(spec)
           router == SelectInSeq(served, LAMBDA f : f.kind = "httpRouter")
           I == {k \in 1..Len(served) : served[k].kind = "httpRouter"}
<1>1. PICK X : /\ before \in Seq(X)
               /\ Range(before) =
                      UNION {Range(HttpFilter(f)) : f \in Range(spec.filters)}
    BY FiltersOf, Zenon
<1>2. served = before \o <<[kind |-> "httpRouter"]>>
    BY DEF HttpFilters
<1>3. \A f \in Range(spec.filters) : \A e \in Range(HttpFilter(f)) :
          e.kind # "httpRouter"
    <2> SUFFICES ASSUME NEW f \in Range(spec.filters), NEW e \in Range(HttpFilter(f))
                 PROVE  e.kind # "httpRouter"
        OBVIOUS
    <2>1. f.kind \in {"jwtAuthn", "healthCheck", "grpcWeb", "cors"}
        BY SpecsAssumption
    <2>2. CASE f.kind = "jwtAuthn"
        BY <2>2 DEF HttpFilter, Range, JwtAuthn
    <2>3. CASE f.kind = "healthCheck"
        BY <2>3 DEF HttpFilter, Range
    <2>4. CASE f.kind \in {"grpcWeb", "cors"}
        BY <2>4 DEF HttpFilter, Range
    <2> QED
        BY <2>1, <2>2, <2>3, <2>4
<1> HIDE DEF parts
<1>4. router = IF I # {} THEN Min(I) ELSE 0
    BY DEF SelectInSeq
<1> HIDE DEF before, served, router
<1>5. PICK n \in Nat : n = Len(before)
    BY <1>1
<1>6. /\ Len(served) = n + 1 /\ served[n + 1].kind = "httpRouter"
      /\ \A k \in 1..n : served[k] = before[k] /\ before[k] \in Range(before)
    BY <1>1, <1>2, <1>5 DEF Range
<1>7. I = {n + 1}
    BY <1>1, <1>3, <1>6
<1> HIDE DEF I
<1>8. router = n + 1
    BY <1>4, <1>7 DEF Min
<1>9. {served[k] : k \in 1..n} = Range(before)
    BY <1>1, <1>5, <1>6 DEF Range
<1>10. {served[k] : k \in 1..(router - 1)} = Range(before)
    BY <1>8, <1>9
<1> QED
    BY <1>1, <1>10 DEF served, router

\* A rule asks for the providers that the rule of the filter requires.
LEMMA RuleNames ==
    ASSUME NEW r, r.required \in Seq(Range(r.required))
    PROVE  /\ JwtRule(r).prefix = r.prefix
           /\ JwtRule(r).requires.names = Range(r.required)
<1>1. CASE Len(r.required) = 1
    <2>1. Range(r.required) = {r.required[1]}
        BY <1>1 DEF Range
    <2> QED
        BY <1>1, <2>1 DEF JwtRule
<1>2. CASE Len(r.required) # 1
    BY <1>2 DEF JwtRule
<1> QED
    BY <1>1, <1>2

\* The JWT filter lets through what the filter of the ingress lets through.
LEMMA SameRules ==
    ASSUME NEW f, IsSequence(f.rules),
           \A r \in Range(f.rules) : IsSequence(r.required), NEW path, NEW valid
    PROVE  Admits(JwtAuthn(f).rules, LAMBDA r : r.requires.names, path, valid) <=>
           Admits(f.rules, LAMBDA r : Range(r.required), path, valid)
<1> DEFINE rules == [k \in DOMAIN f.rules |-> JwtRule(f.rules[k])]
           I == {k \in 1..Len(rules) : Covers(rules[k].prefix, path)}
           J == {k \in 1..Len(f.rules) : Covers(f.rules[k].prefix, path)}
           a == IF I # {} THEN Min(I) ELSE 0
           b == IF J # {} THEN Min(J) ELSE 0
<1>1. JwtAuthn(f).rules = rules
    BY DEF JwtAuthn
<1>2. PICK n \in Nat : DOMAIN f.rules = 1..n /\ Len(f.rules) = n
    BY DEF IsSequence
<1>3. Len(rules) = n
    BY <1>2
<1>4. \A k \in 1..n : /\ rules[k].prefix = f.rules[k].prefix
                      /\ rules[k].requires.names = Range(f.rules[k].required)
    <2> SUFFICES ASSUME NEW k \in 1..n
                 PROVE  /\ rules[k].prefix = f.rules[k].prefix
                        /\ rules[k].requires.names = Range(f.rules[k].required)
        OBVIOUS
    <2>1. f.rules[k] \in Range(f.rules) /\ rules[k] = JwtRule(f.rules[k])
        BY <1>2 DEF Range
    <2> QED
        BY <2>1, RuleNames DEF IsSequence
<1> HIDE DEF rules
<1>5. I = J
    BY <1>2, <1>3, <1>4
<1>6. /\ Admits(rules, LAMBDA r : r.requires.names, path, valid) <=>
             (a # 0 => rules[a].requires.names \cap valid # {})
      /\ Admits(f.rules, LAMBDA r : Range(r.required), path, valid) <=>
             (b # 0 => Range(f.rules[b].required) \cap valid # {})
    BY DEF Admits, SelectInSeq
<1>7. a = b /\ (a # 0 => a \in 1..n)
    <2>1. J \subseteq 1..n
        BY <1>2
    <2> HIDE DEF J, I
    <2>2. J # {} => Min(J) \in J
        <3> SUFFICES ASSUME J # {} PROVE Min(J) \in J
            OBVIOUS
        <3>1. J \subseteq Nat
            BY <2>1
        <3>2. PICK x \in J : \A y \in J : x <= y
            BY <3>1, LeastNumber
        <3> QED
            BY <3>2 DEF Min
    <2> QED
        BY <1>5, <2>1, <2>2
<1> HIDE DEF a, b
<1> QED
    BY <1>1, <1>4, <1>6, <1>7

\* Does an HTTP filter let a request through?
Lets(e, path, valid) ==
    /\ e.kind = "jwtAuthn" =>
           Admits(e.rules, LAMBDA r : r.requires.names, path, valid)
    /\ e.kind = "healthCheck" => e.path # path

\* The HTTP filters let through what the filters of the ingress let through.
LEMMA SameFilters ==
    ASSUME NEW spec \in Specs, spec.kind = "ingress", NEW path, NEW valid
    PROVE  (\A e \in UNION {Range(HttpFilter(f)) : f \in Range(spec.filters)} :
               Lets(e, path, valid)) <=>
           \A f \in Range(spec.filters) :
               /\ f.kind = "jwtAuthn" =>
                      Admits(f.rules, LAMBDA r : Range(r.required), path, valid)
               /\ f.kind = "healthCheck" => f.path # path
<1>1. ASSUME NEW f \in Range(spec.filters), f.kind = "jwtAuthn"
      PROVE  (\A e \in Range(HttpFilter(f)) : Lets(e, path, valid)) <=>
             Admits(f.rules, LAMBDA r : Range(r.required), path, valid)
    <2>1. Range(HttpFilter(f)) = {JwtAuthn(f)}
        BY <1>1 DEF HttpFilter, Range
    <2>2. JwtAuthn(f).kind = "jwtAuthn"
        BY DEF JwtAuthn
    <2>3. IsSequence(f.rules) /\ \A r \in Range(f.rules) : IsSequence(r.required)
        BY <1>1, SpecsAssumption
    <2>4. Admits(JwtAuthn(f).rules, LAMBDA r : r.requires.names, path, valid) <=>
          Admits(f.rules, LAMBDA r : Range(r.required), path, valid)
        BY <2>3, SameRules
    <2>5. Lets(JwtAuthn(f), path, valid) <=>
          Admits(JwtAuthn(f).rules, LAMBDA r : r.requires.names, path, valid)
        BY <2>2 DEF Lets
    <2> QED
        BY <2>1, <2>4, <2>5
<1>2. ASSUME NEW f \in Range(spec.filters), f.kind = "healthCheck"
      PROVE  (\A e \in Range(HttpFilter(f)) : Lets(e, path, valid)) <=> f.path # path
    <2>1. Range(HttpFilter(f)) = {[kind |-> "healthCheck", path |-> f.path]}
        BY <1>2 DEF HttpFilter, Range
    <2> QED
        BY <2>1 DEF Lets
<1>3. ASSUME NEW f \in Range(spec.filters),
             f.kind \notin {"jwtAuthn", "healthCheck"}
      PROVE  \A e \in Range(HttpFilter(f)) : Lets(e, path, valid)
    <2>1. \A e \in Range(HttpFilter(f)) : e.kind = f.kind
        BY <1>3 DEF HttpFilter, Range
    <2> QED
        BY <1>3, <2>1 DEF Lets
<1> QED
    BY <1>1, <1>2, <1>3

\* A request gets to the router of a served listener exactly if every JWT filter
\* of its ingress lets it through and it is not for a health check, whatever
\* the filters of the ingress are: fromHttpIngress leaves none out and adds none.
THEOREM XdsIngressIsGuarded == Spec => []IngressIsGuarded
<1>1. ASSUME TypeOK, NEW n \in DOMAIN cache["Listener"]
      PROVE  \E spec \in Specs : /\ spec.kind = "ingress"
                                 /\ Listener(spec) = cache["Listener"][n]
    <2>1. "Listener" \in Named
        BY DEF Named
    <2>2. PICK spec \in Specs : /\ "Listener" \in TypesOf(spec)
                                /\ cache["Listener"][n] = Built("Listener", spec)
        BY <1>1, <2>1 DEF TypeOK, Serves
    <2> QED
        BY <2>2 DEF TypesOf, Built
<1>2. TypeOK => IngressIsGuarded
    <2> SUFFICES ASSUME TypeOK, NEW n \in DOMAIN cache["Listener"]
                 PROVE
            LET served == cache["Listener"][n].httpConn.httpFilters
                router == SelectInSeq(served, LAMBDA f : f.kind = "httpRouter")
            IN  \E spec \in Specs :
                /\ spec.kind = "ingress" /\ Listener(spec) = cache["Listener"][n]
                /\ LET jwt == {f \in Range(spec.filters) : f.kind = "jwtAuthn"}
                       tested == {f \in Range(spec.filters) : f.kind = "healthCheck"}
                       names == UNION {Range(r.required) :
                                    r \in UNION {Range(f.rules) : f \in jwt}}
                       paths == {r.prefix : r \in UNION {Range(f.rules) : f \in jwt}}
                                \cup {f.path : f \in tested}
                   IN  \A path \in paths, valid \in SUBSET names :
                       (\A k \in 1..(router - 1) :
                           /\ served[k].kind = "jwtAuthn" => Admits(served[k].rules,
                                  LAMBDA r : r.requires.names, path, valid)
                           /\ served[k].kind = "healthCheck" => served[k].path # path)
                       <=> /\ \A f \in jwt : Admits(f.rules,
                                  LAMBDA r : Range(r.required), path, valid)
                           /\ \A f \in tested : f.path # path
        BY Zenon DEF IngressIsGuarded
    <2> DEFINE served == cache["Listener"][n].httpConn.httpFilters
               router == SelectInSeq(served, LAMBDA f : f.kind = "httpRouter")
    <2>1. PICK spec \in Specs : /\ spec.kind = "ingress"
                                /\ Listener(spec) = cache["Listener"][n]
        BY <1>1
    <2>2. served = HttpFilters(spec)
        BY <2>1 DEF Listener, HttpConn
    <2>3. {served[k] : k \in 1..(router - 1)} =
              UNION {Range(HttpFilter(f)) : f \in Range(spec.filters)}
        BY <2>1, <2>2, RouterIsLast, Zenon
    <2> DEFINE jwt == {f \in Range(spec.filters) : f.kind = "jwtAuthn"}
               tested == {f \in Range(spec.filters) : f.kind = "healthCheck"}
               names == UNION {Range(r.required) :
                            r \in UNION {Range(f.rules) : f \in jwt}}
               paths == {r.prefix : r \in UNION {Range(f.rules) : f \in jwt}}
                        \cup {f.path : f \in tested}
    <2>4. ASSUME NEW path, NEW valid
          PROVE  (\A k \in 1..(router - 1) : Lets(served[k], path, valid)) <=>
                 /\ \A f \in jwt : Admits(f.rules,
                        LAMBDA r : Range(r.required), path, valid)
                 /\ \A f \in tested : f.path # path
        <3>1. (\A k \in 1..(router - 1) : Lets(served[k], path, valid)) <=>
              \A e \in {served[k] : k \in 1..(router - 1)} : Lets(e, path, valid)
            <4> HIDE DEF served, router
            <4> QED
                OBVIOUS
        <3> HIDE DEF served, router
        <3> QED
            BY <2>1, <2>3, <3>1, SameFilters
    <2>5. \A path \in paths, valid \in SUBSET names :
              (\A k \in 1..(router - 1) :
                  /\ served[k].kind = "jwtAuthn" => Admits(served[k].rules,
                         LAMBDA r : r.requires.names, path, valid)
                  /\ served[k].kind = "healthCheck" => served[k].path # path)
              <=> /\ \A f \in jwt : Admits(f.rules,
                         LAMBDA r : Range(r.required), path, valid)
                  /\ \A f \in tested : f.path # path
        BY <2>4, Zenon DEF Lets
    <2> QED
        BY <2>1, <2>5, Zenon
<1> QED
    BY <1>2, XdsTypeCorrect, PTL

-----------------------------------------------------------------------------
(* The virtual hosts *)

\* The ids in the order of their ranks.
Sorted(s, ids, n) ==
    /\ s \in [1..n -> ids]
    /\ \A a, b \in 1..n : a < b => Rank[s[a]] < Rank[s[b]]

\* A set of ids has one of lowest rank.
LEMMA LowestRank ==
    ASSUME NEW ids \in SUBSET Ids, ids # {}
    PROVE  \E i \in ids : \A j \in ids : /\ Rank[i] <= Rank[j]
                                         /\ j # i => Rank[i] < Rank[j]
<1> DEFINE T == {Rank[i] : i \in ids}
<1>1. \A i \in ids : Rank[i] \in Nat
    BY XdsAssumption
<1>2. T \subseteq Nat /\ T # {}
    BY <1>1
<1>3. PICK z \in T : \A y \in T : z <= y
    <2> HIDE DEF T
    <2> QED
        BY <1>2, LeastNumber
<1>4. PICK i \in ids : z = Rank[i]
    BY <1>3
<1>5. \A j \in ids : Rank[j] \in T
    OBVIOUS
<1>6. \A j \in ids : Rank[i] <= Rank[j]
    <2> HIDE DEF T
    <2> QED
        BY <1>3, <1>4, <1>5
<1>7. \A j \in ids : j # i => Rank[j] # Rank[i]
    BY XdsAssumption DEF IsInjective
<1> QED
    BY <1>1, <1>6, <1>7

\* The ids of a set can be sorted.
LEMMA CanBeSorted ==
    ASSUME NEW ids \in SUBSET Ids
    PROVE  \E s : Sorted(s, ids, Cardinality(ids))
<1> DEFINE T == {k \in Nat : \E c \in SUBSET Ids :
                     Cardinality(c) = k /\ ~\E s : Sorted(s, c, k)}
<1>1. \A c \in SUBSET Ids : IsFiniteSet(c) /\ Cardinality(c) \in Nat
    BY XdsAssumption, FS_Subset, FS_CardinalityType
<1>2. 0 \notin T
    <2> DEFINE e == [k \in 1..0 |-> None]
    <2>1. \A c : Sorted(e, c, 0)
        BY DEF Sorted
    <2> HIDE DEF e
    <2> QED
        BY <2>1
<1>3. ASSUME NEW n \in Nat, n # 0, n - 1 \notin T
      PROVE  n \notin T
    <2> SUFFICES ASSUME NEW c \in SUBSET Ids, Cardinality(c) = n
                 PROVE  \E s : Sorted(s, c, n)
        OBVIOUS
    <2>1. c # {}
        BY <1>3, FS_EmptySet
    <2>2. PICK i \in c : \A j \in c : j # i => Rank[i] < Rank[j]
        BY <2>1, LowestRank
    <2>3. c \ {i} \in SUBSET Ids /\ Cardinality(c \ {i}) = n - 1
        BY <1>1, FS_RemoveElement
    <2>4. n - 1 \in Nat
        BY <1>3
    <2>5. PICK s : Sorted(s, c \ {i}, n - 1)
        BY <1>3, <2>3, <2>4
    <2> DEFINE t == [k \in 1..n |-> IF k = 1 THEN i ELSE s[k - 1]]
    <2>6. ASSUME NEW k \in 1..n
          PROVE  /\ k = 1 => t[k] = i
                 /\ k # 1 => /\ k - 1 \in 1..(n - 1) /\ t[k] = s[k - 1]
                             /\ t[k] \in c \ {i}
        BY <2>5 DEF Sorted
    <2>7. t \in [1..n -> c]
        BY <2>6
    <2>8. ASSUME NEW a \in 1..n, NEW b \in 1..n, a < b
          PROVE  Rank[t[a]] < Rank[t[b]]
        <3>1. b # 1 /\ b - 1 \in 1..(n - 1)
            BY <2>8
        <3>2. CASE a = 1
            BY <2>2, <2>6, <3>1, <3>2
        <3>3. CASE a # 1
            <4>1. a - 1 \in 1..(n - 1) /\ a - 1 < b - 1
                BY <2>8, <3>3
            <4>2. t[a] = s[a - 1] /\ t[b] = s[b - 1]
                BY <3>1, <3>3
            <4> QED
                BY <2>5, <3>1, <4>1, <4>2 DEF Sorted
        <3> QED
            BY <3>2, <3>3
    <2> HIDE DEF t
    <2>9. Sorted(t, c, n)
        BY <2>7, <2>8 DEF Sorted
    <2> QED
        BY <2>9
<1>4. T = {}
    <2> SUFFICES ASSUME T # {} PROVE FALSE
        OBVIOUS
    <2>1. T \subseteq Nat
        OBVIOUS
    <2> HIDE DEF T
    <2>2. PICK k \in T : \A y \in T : k <= y
        BY <2>1, LeastNumber
    <2>3. k \in Nat /\ k # 0 /\ k - 1 \notin T
        BY <1>2, <2>1, <2>2
    <2> QED
        BY <1>3, <2>2, <2>3
<1> QED
    BY <1>1, <1>4

\* sort.Strings gives each id of the set once, the lowest first.
LEMMA SortedKeys ==
    ASSUME NEW ids \in SUBSET Ids
    PROVE  \E n \in Nat :
               /\ Sorted(sortStringKeys(ids), ids, n)
               /\ \A i \in ids : \E k \in 1..n : sortStringKeys(ids)[k] = i
<1> DEFINE s == sortStringKeys(ids)
<1>1. IsFiniteSet(ids) /\ Cardinality(ids) \in Nat
    BY XdsAssumption, FS_Subset, FS_CardinalityType
<1>2. PICK n \in Nat : n = Cardinality(ids)
    BY <1>1
<1>3. s \in [1..n -> ids] /\ \A a, b \in DOMAIN s : a < b => Rank[s[a]] < Rank[s[b]]
    <2>1. \E t \in [1..n -> ids] :
              \A a, b \in DOMAIN t : a < b => Rank[t[a]] < Rank[t[b]]
        <3>1. PICK t : Sorted(t, ids, n)
            BY <1>2, CanBeSorted
        <3>2. t \in [1..n -> ids] /\ DOMAIN t = 1..n
            BY <3>1 DEF Sorted
        <3>3. \A a, b \in DOMAIN t : a < b => Rank[t[a]] < Rank[t[b]]
            BY <3>1, <3>2 DEF Sorted
        <3> QED
            BY <3>2, <3>3
    <2>2. s = CHOOSE t \in [1..n -> ids] :
                  \A a, b \in DOMAIN t : a < b => Rank[t[a]] < Rank[t[b]]
        BY <1>2 DEF sortStringKeys
    <2> HIDE DEF s
    <2> QED
        BY <2>1, <2>2, Zenon
<1> HIDE DEF s
<1>4. Sorted(s, ids, n)
    BY <1>3 DEF Sorted
<1>5. \A a, b \in 1..n : s[a] = s[b] => a = b
    <2> SUFFICES ASSUME NEW a \in 1..n, NEW b \in 1..n, s[a] = s[b], a # b
                 PROVE  FALSE
        OBVIOUS
    <2>1. a < b \/ b < a
        OBVIOUS
    <2>2. Rank[s[a]] \in Nat
        BY <1>3, XdsAssumption
    <2> QED
        BY <1>4, <2>1, <2>2 DEF Sorted
<1>6. s \in Injection(1..n, ids)
    BY <1>3, <1>5, Fun_IsInj
<1>7. Cardinality(1..n) = n
    BY FS_Interval
<1>8. s \in Surjection(1..n, ids)
    BY <1>1, <1>2, <1>6, <1>7, FS_Injection
<1>9. \A i \in ids : \E k \in 1..n : s[k] = i
    BY <1>8, Fun_SurjectionProperties
<1> QED
    BY <1>4, <1>9 DEF s

\* The numbers up to one of them.
LEMMA UpTo ==
    ASSUME NEW n \in Nat, NEW k \in 1..n
    PROVE  /\ 1..k \in SUBSET (1..n) /\ 1..k # {}
           /\ Max(1..k) = k /\ (1..k) \ {k} = 1..(k - 1)
<1>1. 1..k \in SUBSET (1..n) /\ 1..k # {} /\ k \in 1..k
    OBVIOUS
<1>2. Max(1..k) \in 1..k /\ \A y \in 1..k : y <= Max(1..k)
    BY <1>1, GreatestNumber
<1>3. Max(1..k) = k
    BY <1>1, <1>2
<1>4. (1..k) \ {k} = 1..(k - 1)
    OBVIOUS
<1> QED
    BY <1>1, <1>3, <1>4

\* The routes with one more, unless it is there already.
WithRoute(rs, r) == IF r \in Range(rs) THEN rs ELSE Append(rs, r)

\* The routes after the first k of the policy's, for every k.
RouteRun(h, X, routes, p, n) ==
    /\ h \in [0..n -> Seq(X)]
    /\ h[0] = routes
    /\ \A k \in 1..n : h[k] = WithRoute(h[k - 1], EnvoyRoute(p.routes[k], p))

\* AddRoutes goes through the routes of the policy, one after the other.
LEMMA AddRoutesRuns ==
    ASSUME NEW X, NEW routes \in Seq(X), NEW p, NEW n \in Nat,
           DOMAIN p.routes = 1..n,
           \A k \in 1..n : EnvoyRoute(p.routes[k], p) \in X
    PROVE  \E h : RouteRun(h, X, routes, p, n) /\ AddRoutes(routes, p) = h[n]
<1> DEFINE Is(g) == g = [s \in SUBSET (1..n) |->
                            IF s = {} THEN routes
                            ELSE WithRoute(g[s \ {Max(s)}],
                                           EnvoyRoute(p.routes[Max(s)], p))]
           f == CHOOSE g : Is(g)
<1>1. AddRoutes(routes, p) = f[1..n]
    BY Zenon DEF AddRoutes, FoldLeft, MapThenFoldSet, WithRoute
<1>2. PICK step \in [(1..n) \X Seq(X) -> Seq(X)] :
          \A k \in 1..n, s \in Seq(X) :
              step[<<k, s>>] = WithRoute(s, EnvoyRoute(p.routes[k], p))
    <2> DEFINE h == [q \in (1..n) \X Seq(X) |->
                        WithRoute(q[2], EnvoyRoute(p.routes[q[1]], p))]
    <2>1. \A k \in 1..n, s \in Seq(X) :
              WithRoute(s, EnvoyRoute(p.routes[k], p)) \in Seq(X)
        BY DEF WithRoute
    <2>2. h \in [(1..n) \X Seq(X) -> Seq(X)]
        BY <2>1
    <2>3. \A k \in 1..n, s \in Seq(X) :
              h[<<k, s>>] = WithRoute(s, EnvoyRoute(p.routes[k], p))
        OBVIOUS
    <2> HIDE DEF h
    <2> QED
        BY <2>2, <2>3
<1>3. PICK it \in [SUBSET (1..n) -> Seq(X)] : IsFold(it, n, routes, step)
    BY FoldExists
<1>4. Is(it)
    <2>1. ASSUME NEW s \in SUBSET (1..n)
          PROVE  it[s] = IF s = {} THEN routes
                         ELSE WithRoute(it[s \ {Max(s)}],
                                        EnvoyRoute(p.routes[Max(s)], p))
        <3>1. CASE s = {}
            BY <1>3, <3>1 DEF IsFold
        <3>2. CASE s # {}
            <4>1. Max(s) \in 1..n
                BY <3>2, GreatestNumber
            <4>2. it[s \ {Max(s)}] \in Seq(X)
                OBVIOUS
            <4>3. it[s] = step[<<Max(s), it[s \ {Max(s)}]>>]
                BY <1>3, <3>2 DEF IsFold
            <4> QED
                BY <1>2, <3>2, <4>1, <4>2, <4>3
        <3> QED
            BY <3>1, <3>2
    <2> QED
        BY <2>1
<1>5. Is(f)
    <2> HIDE DEF Is
    <2> QED
        BY <1>4
<1> HIDE DEF f
<1>6. f[1..0] = routes
    <2>1. 1..0 = {} /\ {} \in SUBSET (1..n)
        OBVIOUS
    <2> QED
        BY <1>5, <2>1
<1>7. \A k \in 1..n : f[1..k] = WithRoute(f[1..(k - 1)], EnvoyRoute(p.routes[k], p))
    <2> TAKE k \in 1..n
    <2>1. /\ 1..k \in SUBSET (1..n) /\ 1..k # {}
          /\ Max(1..k) = k /\ (1..k) \ {k} = 1..(k - 1)
        BY UpTo
    <2> QED
        BY <1>5, <2>1
<1> DEFINE h == [k \in 0..n |-> f[1..k]]
           Bad == {k \in 0..n : h[k] \notin Seq(X)}
<1>8. /\ h[0] = routes /\ AddRoutes(routes, p) = h[n]
      /\ \A k \in 1..n : h[k] = WithRoute(h[k - 1], EnvoyRoute(p.routes[k], p))
    BY <1>1, <1>6, <1>7
<1>9. DOMAIN h = 0..n /\ h = [k \in 0..n |-> h[k]]
    OBVIOUS
<1> HIDE DEF h, Is
<1>10. Bad = {}
    <2> SUFFICES ASSUME Bad # {} PROVE FALSE
        OBVIOUS
    <2>1. Bad \subseteq Nat
        OBVIOUS
    <2>2. PICK k \in Bad : \A j \in Bad : k <= j
        <3> HIDE DEF Bad
        <3> QED
            BY <2>1, LeastNumber
    <2>3. k \in 1..n /\ k - 1 \in 0..n
        BY <1>8
    <2>4. k - 1 \notin Bad
        <3> HIDE DEF Bad
        <3> QED
            BY <2>2, <2>3
    <2>5. h[k - 1] \in Seq(X)
        BY <2>3, <2>4
    <2>6. h[k] = WithRoute(h[k - 1], EnvoyRoute(p.routes[k], p))
        BY <1>8, <2>3
    <2>7. \A u \in Seq(X), r \in X : WithRoute(u, r) \in Seq(X)
        BY DEF WithRoute
    <2>8. h[k] \in Seq(X)
        BY <2>3, <2>5, <2>6, <2>7
    <2> QED
        BY <2>8
<1>11. h \in [0..n -> Seq(X)]
    BY <1>9, <1>10
<1>12. RouteRun(h, X, routes, p, n)
    BY <1>8, <1>11 DEF RouteRun
<1> QED
    BY <1>8, <1>12

Once(s) == \A a, b \in DOMAIN s : a < b => s[a] # s[b]

\* The sequence t starts with s.
Starts(s, t) ==
    /\ Len(s) <= Len(t)
    /\ \A a \in 1..Len(s) : t[a] = s[a]

LEMMA OneMoreRoute ==
    ASSUME NEW X, NEW s \in Seq(X), NEW r \in X
    PROVE  LET t == WithRoute(s, r)
           IN  /\ t \in Seq(X) /\ Starts(s, t)
               /\ Range(t) = Range(s) \cup {r}
               /\ Once(s) => Once(t)
<1> DEFINE t == WithRoute(s, r)
<1>1. CASE r \in Range(s)
    <2>1. t = s
        BY <1>1 DEF WithRoute
    <2> QED
        BY <1>1, <2>1 DEF Starts
<1>2. CASE r \notin Range(s)
    <2>1. t = Append(s, r)
        BY <1>2 DEF WithRoute
    <2>2. PICK n \in Nat : n = Len(s)
        OBVIOUS
    <2>3. /\ t \in Seq(X) /\ DOMAIN t = 1..(n + 1) /\ Len(t) = n + 1
          /\ t[n + 1] = r /\ \A a \in 1..n : t[a] = s[a]
          /\ DOMAIN s = 1..n
        BY <2>1, <2>2
    <2> HIDE DEF t
    <2>4. \A a \in 1..n : s[a] # r
        BY <1>2, <2>3 DEF Range
    <2>5. Range(t) = Range(s) \cup {r}
        <3>1. \A y \in Range(t) : y \in Range(s) \cup {r}
            BY <2>3 DEF Range
        <3>2. \A y \in Range(s) \cup {r} : y \in Range(t)
            <4>1. \A a \in 1..n : a \in DOMAIN t
                BY <2>3
            <4>2. n + 1 \in DOMAIN t
                BY <2>3
            <4> QED
                BY <2>3, <4>1, <4>2 DEF Range
        <3> QED
            BY <3>1, <3>2
    <2>6. Once(s) => Once(t)
        <3> SUFFICES ASSUME Once(s), NEW a \in 1..(n + 1), NEW b \in 1..(n + 1), a < b
                     PROVE  t[a] # t[b]
            BY <2>3 DEF Once
        <3>1. CASE b = n + 1
            BY <2>3, <2>4, <3>1
        <3>2. CASE b # n + 1
            BY <2>3, <3>2 DEF Once
        <3> QED
            BY <3>1, <3>2
    <2> QED
        BY <2>2, <2>3, <2>5, <2>6 DEF Starts, t
<1> QED
    BY <1>1, <1>2

\* AddRoutes keeps the routes there are, and adds those of the policy, each once.
LEMMA AddRoutesIs ==
    ASSUME NEW X, NEW routes \in Seq(X), NEW p, NEW n \in Nat,
           DOMAIN p.routes = 1..n,
           \A k \in 1..n : EnvoyRoute(p.routes[k], p) \in X
    PROVE  LET t == AddRoutes(routes, p)
           IN  /\ t \in Seq(X) /\ Starts(routes, t)
               /\ Range(t) = Range(routes) \cup
                             {EnvoyRoute(p.routes[k], p) : k \in 1..n}
               /\ Once(routes) => Once(t)
<1>0. PICK h : RouteRun(h, X, routes, p, n) /\ AddRoutes(routes, p) = h[n]
    BY AddRoutesRuns
<1>1. /\ h \in [0..n -> Seq(X)]
      /\ h[0] = routes /\ AddRoutes(routes, p) = h[n]
      /\ \A k \in 1..n :
             h[k] = WithRoute(h[k - 1], EnvoyRoute(p.routes[k], p))
    BY <1>0 DEF RouteRun
<1> DEFINE Good(k) ==
               /\ Starts(routes, h[k])
               /\ \A y : y \in Range(h[k]) <=>
                      \/ y \in Range(routes)
                      \/ \E j \in 1..k : y = EnvoyRoute(p.routes[j], p)
               /\ Once(routes) => Once(h[k])
           Bad == {k \in 0..n : ~Good(k)}
<1>2. Good(0)
    BY <1>1 DEF Starts
<1>3. ASSUME NEW k \in 1..n, Good(k - 1)
      PROVE  Good(k)
    <2> DEFINE s == h[k - 1]
               t == h[k]
               r == EnvoyRoute(p.routes[k], p)
    <2>1. s \in Seq(X) /\ r \in X /\ t = WithRoute(s, r)
        <3>1. k - 1 \in 0..n
            OBVIOUS
        <3> QED
            BY <1>1, <3>1
    <2>2. Good(k - 1)
        BY <1>3
    <2>3. /\ Starts(routes, s)
          /\ \A y : y \in Range(s) <=>
                 \/ y \in Range(routes)
                 \/ \E j \in 1..(k - 1) : y = EnvoyRoute(p.routes[j], p)
          /\ Once(routes) => Once(s)
        BY <2>2
    <2> HIDE DEF s, t, r
    <2>4. /\ t \in Seq(X) /\ Starts(s, t)
          /\ Range(t) = Range(s) \cup {r}
          /\ Once(s) => Once(t)
        BY <2>1, OneMoreRoute
    <2>5. Starts(routes, t)
        <3>1. Len(routes) \in Nat /\ Len(s) \in Nat /\ Len(t) \in Nat
            BY <2>1, <2>4
        <3> QED
            BY <2>3, <2>4, <3>1 DEF Starts
    <2>6. 1..k = (1..(k - 1)) \cup {k}
        OBVIOUS
    <2>7. \A y : y \in Range(t) <=>
              \/ y \in Range(routes)
              \/ \E j \in 1..k : y = EnvoyRoute(p.routes[j], p)
        BY <2>3, <2>4, <2>6 DEF r
    <2>8. Good(k)
        BY <2>3, <2>4, <2>5, <2>7 DEF t
    <2> QED
        BY <2>8
<1> HIDE DEF Good
<1>4. Bad = {}
    <2> SUFFICES ASSUME Bad # {} PROVE FALSE
        OBVIOUS
    <2>1. Bad \subseteq Nat
        OBVIOUS
    <2>2. PICK k \in Bad : \A j \in Bad : k <= j
        <3> HIDE DEF Bad
        <3> QED
            BY <2>1, LeastNumber
    <2>3. k \in 1..n /\ k - 1 \in 0..n
        BY <1>2
    <2>4. k - 1 \notin Bad
        <3> HIDE DEF Bad
        <3> QED
            BY <2>2, <2>3
    <2> QED
        BY <1>3, <2>3, <2>4
<1>5. Good(n)
    BY <1>4
<1>6. h[n] \in Seq(X)
    BY <1>1
<1>7. Range(h[n]) = Range(routes) \cup {EnvoyRoute(p.routes[k], p) : k \in 1..n}
    BY <1>5 DEF Good
<1> QED
    BY <1>1, <1>5, <1>6, <1>7 DEF Good

\* The routes a policy gives to its virtual host.
Given(p) == {EnvoyRoute(p.routes[k], p) : k \in DOMAIN p.routes}

RoutesIn(p, X) == \E n \in Nat : DOMAIN p.routes = 1..n /\ Given(p) \subseteq X

LEMMA PolicyAdds ==
    ASSUME NEW X, NEW s \in Seq(X), NEW p, RoutesIn(p, X)
    PROVE  LET t == AddRoutes(s, p)
           IN  /\ t \in Seq(X) /\ Starts(s, t)
               /\ Range(t) = Range(s) \cup Given(p)
               /\ Once(s) => Once(t)
<1>1. PICK n \in Nat : DOMAIN p.routes = 1..n /\ Given(p) \subseteq X
    BY DEF RoutesIn
<1>2. Given(p) = {EnvoyRoute(p.routes[k], p) : k \in 1..n}
    BY <1>1 DEF Given
<1>3. \A k \in 1..n : EnvoyRoute(p.routes[k], p) \in X
    BY <1>1, <1>2
<1> QED
    BY <1>1, <1>2, <1>3, AddRoutesIs

\* The routes after the first k policies of the host, for every k.
HostRun(h, X, order, m) ==
    /\ h \in [0..m -> Seq(X)]
    /\ h[0] = <<>>
    /\ \A k \in 1..m : h[k] = AddRoutes(h[k - 1], resources[order[k]])

HostRoutes(order) ==
    FoldLeft(LAMBDA rs, i : AddRoutes(rs, resources[i]), <<>>, order)

\* VirtualHosts goes through the policies of the host, one after the other.
LEMMA HostRuns ==
    ASSUME NEW X, NEW order, NEW m \in Nat, DOMAIN order = 1..m,
           \A k \in 1..m : RoutesIn(resources[order[k]], X)
    PROVE  \E h : HostRun(h, X, order, m) /\ HostRoutes(order) = h[m]
<1> DEFINE Is(g) == g = [s \in SUBSET (1..m) |->
                            IF s = {} THEN <<>>
                            ELSE AddRoutes(g[s \ {Max(s)}],
                                           resources[order[Max(s)]])]
           f == CHOOSE g : Is(g)
<1>1. HostRoutes(order) = f[1..m]
    BY Zenon DEF HostRoutes, FoldLeft, MapThenFoldSet
<1>2. PICK step \in [(1..m) \X Seq(X) -> Seq(X)] :
          \A k \in 1..m, s \in Seq(X) :
              step[<<k, s>>] = AddRoutes(s, resources[order[k]])
    <2> DEFINE h == [q \in (1..m) \X Seq(X) |->
                        AddRoutes(q[2], resources[order[q[1]]])]
    <2>1. \A k \in 1..m, s \in Seq(X) : AddRoutes(s, resources[order[k]]) \in Seq(X)
        BY PolicyAdds
    <2>2. h \in [(1..m) \X Seq(X) -> Seq(X)]
        BY <2>1
    <2>3. \A k \in 1..m, s \in Seq(X) :
              h[<<k, s>>] = AddRoutes(s, resources[order[k]])
        OBVIOUS
    <2> HIDE DEF h
    <2> QED
        BY <2>2, <2>3
<1>3. <<>> \in Seq(X)
    OBVIOUS
<1>4. PICK it \in [SUBSET (1..m) -> Seq(X)] : IsFold(it, m, <<>>, step)
    BY <1>3, FoldExists
<1>5. Is(it)
    <2>1. ASSUME NEW s \in SUBSET (1..m)
          PROVE  it[s] = IF s = {} THEN <<>>
                         ELSE AddRoutes(it[s \ {Max(s)}], resources[order[Max(s)]])
        <3>1. CASE s = {}
            BY <1>4, <3>1 DEF IsFold
        <3>2. CASE s # {}
            <4>1. Max(s) \in 1..m
                BY <3>2, GreatestNumber
            <4>2. it[s \ {Max(s)}] \in Seq(X)
                OBVIOUS
            <4>3. it[s] = step[<<Max(s), it[s \ {Max(s)}]>>]
                BY <1>4, <3>2 DEF IsFold
            <4> QED
                BY <1>2, <3>2, <4>1, <4>2, <4>3
        <3> QED
            BY <3>1, <3>2
    <2> QED
        BY <2>1
<1>6. Is(f)
    <2> HIDE DEF Is
    <2> QED
        BY <1>5
<1> HIDE DEF f
<1>7. f[1..0] = <<>>
    <2>1. 1..0 = {} /\ {} \in SUBSET (1..m)
        OBVIOUS
    <2> QED
        BY <1>6, <2>1
<1>8. \A k \in 1..m : f[1..k] = AddRoutes(f[1..(k - 1)], resources[order[k]])
    <2> TAKE k \in 1..m
    <2>1. /\ 1..k \in SUBSET (1..m) /\ 1..k # {}
          /\ Max(1..k) = k /\ (1..k) \ {k} = 1..(k - 1)
        BY UpTo
    <2> QED
        BY <1>6, <2>1
<1> DEFINE h == [k \in 0..m |-> f[1..k]]
           Bad == {k \in 0..m : h[k] \notin Seq(X)}
<1>9. /\ h[0] = <<>> /\ HostRoutes(order) = h[m]
      /\ \A k \in 1..m : h[k] = AddRoutes(h[k - 1], resources[order[k]])
    BY <1>1, <1>7, <1>8
<1>10. h = [k \in 0..m |-> h[k]]
    OBVIOUS
<1> HIDE DEF h, Is
<1>11. Bad = {}
    <2> SUFFICES ASSUME Bad # {} PROVE FALSE
        OBVIOUS
    <2>1. Bad \subseteq Nat
        OBVIOUS
    <2>2. PICK k \in Bad : \A j \in Bad : k <= j
        <3> HIDE DEF Bad
        <3> QED
            BY <2>1, LeastNumber
    <2>3. k \in 1..m /\ k - 1 \in 0..m
        <3>1. h[0] \in Seq(X)
            BY <1>3, <1>9, Zenon
        <3>2. h[k] \notin Seq(X) /\ k \in 0..m
            OBVIOUS
        <3>3. k # 0
            BY <3>1, <3>2
        <3> QED
            BY <3>2, <3>3
    <2>4. k - 1 \notin Bad
        <3> HIDE DEF Bad
        <3> QED
            BY <2>2, <2>3
    <2>5. h[k - 1] \in Seq(X)
        BY <2>3, <2>4
    <2>6. h[k] = AddRoutes(h[k - 1], resources[order[k]])
        BY <1>9, <2>3
    <2>7. \A s \in Seq(X) : AddRoutes(s, resources[order[k]]) \in Seq(X)
        BY <2>3, PolicyAdds
    <2>8. h[k] \in Seq(X)
        BY <2>5, <2>6, <2>7
    <2> QED
        BY <2>8
<1>12. h \in [0..m -> Seq(X)]
    BY <1>10, <1>11
<1>13. HostRun(h, X, order, m)
    BY <1>9, <1>12 DEF HostRun
<1> QED
    BY <1>9, <1>13

\* A route comes from one of the first k policies; and what comes before a
\* route is not from a later policy than the route is.
FromFirst(s, order, k) ==
    /\ \A r : r \in Range(s) <=> \E j \in 1..k : r \in Given(resources[order[j]])
    /\ \A a, b \in DOMAIN s : \A j \in 1..k :
           a < b /\ s[b] \in Given(resources[order[j]]) =>
               \E l \in 1..j : s[a] \in Given(resources[order[l]])

LEMMA OneMorePolicy ==
    ASSUME NEW X, NEW s \in Seq(X), NEW order, NEW k \in Nat \ {0},
           RoutesIn(resources[order[k]], X), Once(s), FromFirst(s, order, k - 1)
    PROVE  LET t == AddRoutes(s, resources[order[k]])
           IN  Once(t) /\ FromFirst(t, order, k)
<1> DEFINE t == AddRoutes(s, resources[order[k]])
           G(j) == Given(resources[order[j]])
<1>1. /\ t \in Seq(X) /\ Starts(s, t) /\ Range(t) = Range(s) \cup G(k) /\ Once(t)
    BY PolicyAdds
<1>2. \A r : r \in Range(s) <=> \E j \in 1..(k - 1) : r \in G(j)
    BY DEF FromFirst
<1>3. \A a, b \in DOMAIN s : \A j \in 1..(k - 1) :
          a < b /\ s[b] \in G(j) => \E l \in 1..j : s[a] \in G(l)
    BY DEF FromFirst
<1> HIDE DEF t, G
<1>4. 1..k = 1..(k - 1) \cup {k}
    OBVIOUS
<1>5. \A r : r \in Range(t) <=> \E j \in 1..k : r \in G(j)
    BY <1>1, <1>2, <1>4
<1>6. ASSUME NEW a \in DOMAIN t, NEW b \in DOMAIN t, NEW j \in 1..k,
             a < b, t[b] \in G(j)
      PROVE  \E l \in 1..j : t[a] \in G(l)
    <2>1. CASE j = k
        <3>1. t[a] \in Range(t)
            BY DEF Range
        <3> QED
            BY <1>5, <2>1, <3>1
    <2>2. CASE j # k
        <3>1. j \in 1..(k - 1)
            BY <2>2
        <3>2. t[b] \in Range(s)
            BY <1>2, <1>6, <3>1
        <3>3. PICK c \in DOMAIN s : s[c] = t[b]
            BY <3>2 DEF Range
        <3>4. PICK n \in Nat : n = Len(s)
            OBVIOUS
        <3>5. PICK o \in Nat : o = Len(t)
            BY <1>1
        <3>6. DOMAIN s = 1..n /\ DOMAIN t = 1..o
            BY <1>1, <3>4, <3>5
        <3>7. n <= o /\ \A d \in 1..n : t[d] = s[d]
            BY <1>1, <3>4, <3>5 DEF Starts
        <3>8. t[c] = t[b] /\ c \in DOMAIN t
            BY <3>3, <3>6, <3>7
        <3>9. c = b
            <4>1. ~(c < b) /\ ~(b < c)
                BY <1>1, <3>8 DEF Once
            <4> QED
                BY <3>6, <3>8, <4>1
        <3>10. a \in DOMAIN s /\ b \in DOMAIN s /\ t[a] = s[a] /\ t[b] = s[b]
            BY <1>6, <3>3, <3>6, <3>7, <3>9
        <3> QED
            BY <1>3, <1>6, <3>1, <3>10
    <2> QED
        BY <2>1, <2>2
<1>7. FromFirst(t, order, k)
    BY <1>5, <1>6 DEF FromFirst, G
<1> QED
    BY <1>1, <1>7 DEF t

\* A virtual host has the routes of all its policies, each once, in the order of
\* the policies.
LEMMA HostRoutesAre ==
    ASSUME NEW X, NEW order, NEW m \in Nat, DOMAIN order = 1..m,
           \A k \in 1..m : RoutesIn(resources[order[k]], X)
    PROVE  /\ HostRoutes(order) \in Seq(X)
           /\ Once(HostRoutes(order)) /\ FromFirst(HostRoutes(order), order, m)
<1>1. PICK h : HostRun(h, X, order, m) /\ HostRoutes(order) = h[m]
    BY HostRuns
<1>2. /\ h \in [0..m -> Seq(X)] /\ h[0] = <<>>
      /\ \A k \in 1..m : h[k] = AddRoutes(h[k - 1], resources[order[k]])
    BY <1>1 DEF HostRun
<1> DEFINE Good(k) == Once(h[k]) /\ FromFirst(h[k], order, k)
           Bad == {k \in 0..m : ~Good(k)}
<1>3. Good(0)
    <2>1. DOMAIN <<>> = {} /\ Range(<<>>) = {}
        BY DEF Range
    <2>2. 1..0 = {}
        OBVIOUS
    <2> QED
        BY <1>2, <2>1, <2>2 DEF Once, FromFirst
<1>4. ASSUME NEW k \in 1..m, Good(k - 1)
      PROVE  Good(k)
    <2>1. k - 1 \in 0..m /\ k \in Nat \ {0}
        OBVIOUS
    <2>2. h[k - 1] \in Seq(X)
        BY <1>2, <2>1
    <2>3. Once(h[k - 1]) /\ FromFirst(h[k - 1], order, k - 1)
        BY <1>4
    <2>4. RoutesIn(resources[order[k]], X)
        OBVIOUS
    <2>5. LET t == AddRoutes(h[k - 1], resources[order[k]])
          IN  Once(t) /\ FromFirst(t, order, k)
        BY <2>1, <2>2, <2>3, <2>4, OneMorePolicy
    <2>6. h[k] = AddRoutes(h[k - 1], resources[order[k]])
        BY <1>2
    <2> QED
        BY <2>5, <2>6
<1> HIDE DEF Good
<1>5. Bad = {}
    <2> SUFFICES ASSUME Bad # {} PROVE FALSE
        OBVIOUS
    <2>1. Bad \subseteq Nat
        OBVIOUS
    <2>2. PICK k \in Bad : \A j \in Bad : k <= j
        <3> HIDE DEF Bad
        <3> QED
            BY <2>1, LeastNumber
    <2>3. k \in 1..m /\ k - 1 \in 0..m
        BY <1>3
    <2>4. k - 1 \notin Bad
        <3> HIDE DEF Bad
        <3> QED
            BY <2>2, <2>3
    <2> QED
        BY <1>4, <2>3, <2>4
<1>6. Good(m)
    BY <1>5
<1> QED
    BY <1>1, <1>2, <1>6 DEF Good

\* The policies in use, those of a virtual host, and the first of some.
InUse == {i \in Ids : resources[i] # None}
PoliciesOf(n) == {i \in InUse : VirtualHostName(resources[i]) = n}
Least(ids) == CHOOSE i \in ids : \A j \in ids : Rank[i] <= Rank[j]
Gives(i, r) == \E x \in Range(resources[i].routes) :
                   EnvoyRoute(x, resources[i]) = r
Giving(n, r) == {i \in PoliciesOf(n) : Gives(i, r)}

\* The virtual host n as it should be.
IsHost(n, host) ==
    /\ host.domains = <<resources[Least(PoliciesOf(n))].domain>>
    /\ host.cors = makeCors(resources[Least(PoliciesOf(n))])
    /\ \A i \in PoliciesOf(n) : \A x \in Range(resources[i].routes) :
           EnvoyRoute(x, resources[i]) \in Range(host.routes)
    /\ \A a, b \in DOMAIN host.routes : a < b =>
           /\ host.routes[a] # host.routes[b]
           /\ Rank[Least(Giving(n, host.routes[a]))] <=
                  Rank[Least(Giving(n, host.routes[b]))]

LEMMA GivesIs == \A i, r : Gives(i, r) <=> r \in Given(resources[i])
BY DEF Gives, Given, Range

LEMMA LeastIs ==
    ASSUME NEW ids \in SUBSET Ids, ids # {}
    PROVE  /\ Least(ids) \in ids
           /\ \A j \in ids : /\ Rank[Least(ids)] <= Rank[j]
                             /\ (\A i \in ids : Rank[j] <= Rank[i]) => Least(ids) = j
<1>1. \E i \in ids : \A j \in ids : Rank[i] <= Rank[j]
    BY LowestRank
<1>2. Least(ids) \in ids /\ \A j \in ids : Rank[Least(ids)] <= Rank[j]
    BY <1>1 DEF Least
<1>3. ASSUME NEW j \in ids, \A i \in ids : Rank[j] <= Rank[i]
      PROVE  Least(ids) = j
    <2>1. Least(ids) \in Ids /\ j \in Ids
        BY <1>2
    <2>2. Rank[Least(ids)] \in Nat /\ Rank[j] \in Nat
        BY <2>1, XdsAssumption
    <2>3. Rank[Least(ids)] = Rank[j]
        BY <1>2, <1>3, <2>2
    <2> QED
        BY <2>1, <2>3, XdsAssumption DEF IsInjective
<1> QED
    BY <1>2, <1>3

\* The host VirtualHosts makes.
Host(n) ==
    LET order == sortStringKeys(PoliciesOf(n))
        first == resources[order[1]]
    IN  [domains |-> <<first.domain>>, cors |-> makeCors(first),
         routes |-> HostRoutes(order)]

LEMMA HostsAre ==
    /\ DOMAIN VirtualHosts(resources) = {VirtualHostName(resources[i]) : i \in InUse}
    /\ \A n \in DOMAIN VirtualHosts(resources) :
           VirtualHosts(resources)[n] = Host(n)
    /\ IsMap(VirtualHosts(resources))
<1>1. VirtualHosts(resources) =
          [n \in {VirtualHostName(resources[i]) : i \in InUse} |-> Host(n)]
    <2>1. \A n : PoliciesOf(n) = {i \in Ids : resources[i] # None /\
                                   VirtualHostName(resources[i]) = n}
        BY DEF PoliciesOf, InUse
    <2> QED
        BY <2>1, Zenon DEF VirtualHosts, Host, HostRoutes, InUse
<1> QED
    BY <1>1 DEF IsMap

LEMMA HostIsRight ==
    ASSUME TypeOK, NEW n \in DOMAIN VirtualHosts(resources)
    PROVE  IsHost(n, VirtualHosts(resources)[n])
<1> DEFINE ids == PoliciesOf(n)
           order == sortStringKeys(ids)
           X == UNION {Given(resources[i]) : i \in ids}
           rs == HostRoutes(order)
<1>1. ids \in SUBSET Ids /\ ids # {}
    BY HostsAre DEF PoliciesOf, InUse
<1>2. \A i \in ids : RoutesIn(resources[i], X)
    <2> TAKE i \in ids
    <2>1. resources[i] # None /\ i \in Ids
        BY DEF PoliciesOf, InUse
    <2>2. resources[i] \in Specs /\ resources[i].kind = "policy"
        BY <2>1 DEF TypeOK
    <2>3. IsSequence(resources[i].routes)
        BY <2>2, SpecsAssumption
    <2>4. \E k \in Nat : DOMAIN resources[i].routes = 1..k
        BY <2>3 DEF IsSequence
    <2> QED
        BY <2>4 DEF RoutesIn
<1>3. PICK m \in Nat : /\ Sorted(order, ids, m)
                       /\ \A i \in ids : \E k \in 1..m : order[k] = i
    BY <1>1, SortedKeys
<1> HIDE DEF ids, order, X, rs
<1>4. order \in [1..m -> ids] /\ DOMAIN order = 1..m
    BY <1>3 DEF Sorted
<1>5. \A k \in 1..m : order[k] \in ids
    BY <1>4
<1>6. /\ rs \in Seq(X) /\ Once(rs) /\ FromFirst(rs, order, m)
    BY <1>2, <1>4, <1>5, HostRoutesAre DEF rs
<1>7. \A i \in ids : Rank[i] \in Nat
    BY <1>1, XdsAssumption
<1>8. \A j, k \in 1..m : j <= k => Rank[order[j]] <= Rank[order[k]]
    <2> SUFFICES ASSUME NEW j \in 1..m, NEW k \in 1..m, j <= k
                 PROVE  Rank[order[j]] <= Rank[order[k]]
        OBVIOUS
    <2>1. j = k \/ j < k
        OBVIOUS
    <2>2. Rank[order[j]] \in Nat /\ Rank[order[k]] \in Nat
        BY <1>5, <1>7
    <2> QED
        BY <1>3, <2>1, <2>2 DEF Sorted
<1>9. order[1] = Least(ids)
    <2>1. 1 \in 1..m
        BY <1>1, <1>3
    <2>2. \A i \in ids : Rank[order[1]] <= Rank[i]
        <3> TAKE i \in ids
        <3>1. PICK k \in 1..m : order[k] = i
            BY <1>3
        <3> QED
            BY <1>8, <2>1, <3>1
    <2> QED
        BY <1>1, <1>5, <2>1, <2>2, LeastIs
<1> DEFINE host == VirtualHosts(resources)[n]
<1>10. /\ host.domains = <<resources[Least(ids)].domain>>
       /\ host.cors = makeCors(resources[Least(ids)])
       /\ host.routes = rs
    <2>1. host = [domains |-> <<resources[order[1]].domain>>,
                  cors |-> makeCors(resources[order[1]]), routes |-> rs]
        BY HostsAre, Zenon DEF Host, ids, order, rs
    <2> HIDE DEF host
    <2> QED
        BY <1>9, <2>1
<1> HIDE DEF host
<1>11. ASSUME NEW i \in ids, NEW r \in Given(resources[i])
       PROVE  r \in Range(rs)
    <2>1. PICK k \in 1..m : order[k] = i
        BY <1>3
    <2> QED
        BY <1>6, <1>11, <2>1 DEF FromFirst
<1>12. \A r : Giving(n, r) = {i \in ids : r \in Given(resources[i])}
    BY GivesIs DEF Giving, ids
<1>13. ASSUME NEW a \in DOMAIN rs, NEW b \in DOMAIN rs, a < b
       PROVE  /\ rs[a] # rs[b]
              /\ Rank[Least(Giving(n, rs[a]))] <= Rank[Least(Giving(n, rs[b]))]
    <2> DEFINE A == Giving(n, rs[a])
               B == Giving(n, rs[b])
    <2>1. A \in SUBSET ids /\ B \in SUBSET ids
        BY <1>12
    <2>2. rs[b] \in Range(rs)
        BY DEF Range
    <2>3. PICK j0 \in 1..m : rs[b] \in Given(resources[order[j0]])
        BY <1>6, <2>2 DEF FromFirst
    <2>4. B # {}
        BY <1>5, <1>12, <2>3
    <2>5. Least(B) \in B /\ Least(B) \in ids
        BY <1>1, <2>1, <2>4, LeastIs
    <2>6. PICK j \in 1..m : order[j] = Least(B)
        BY <1>3, <2>5
    <2>7. rs[b] \in Given(resources[order[j]])
        BY <1>12, <2>5, <2>6
    <2>8. PICK l \in 1..j : rs[a] \in Given(resources[order[l]])
        BY <1>6, <1>13, <2>7 DEF FromFirst
    <2>9. l \in 1..m /\ l <= j
        OBVIOUS
    <2>10. order[l] \in A
        BY <1>5, <1>12, <2>8, <2>9
    <2>11. Rank[order[l]] <= Rank[Least(B)]
        BY <1>8, <2>6, <2>9
    <2>12. Least(A) \in A /\ Rank[Least(A)] <= Rank[order[l]]
        BY <1>1, <2>1, <2>10, LeastIs
    <2>13. /\ Rank[Least(A)] \in Nat /\ Rank[Least(B)] \in Nat
           /\ Rank[order[l]] \in Nat
        BY <1>5, <1>7, <2>1, <2>5, <2>9, <2>12
    <2>14. rs[a] # rs[b]
        BY <1>6, <1>13 DEF Once
    <2> HIDE DEF A, B
    <2>15. Rank[Least(A)] <= Rank[Least(B)]
        BY <2>11, <2>12, <2>13
    <2> QED
        BY <2>14, <2>15 DEF A, B
<1>14. \A i \in ids : \A x \in Range(resources[i].routes) :
           EnvoyRoute(x, resources[i]) \in Range(rs)
    BY <1>11 DEF Given, Range
<1>15. IsHost(n, host)
    BY <1>10, <1>13, <1>14 DEF IsHost, ids
<1> QED
    BY <1>15 DEF host
-----------------------------------------------------------------------------
\* What a cache holds after its update.
Applied(upd, del, map) ==
    [n \in DOMAIN Over(upd, map) \ del |-> Over(upd, map)[n]]

VhInv ==
    LET t == "VirtualHost"
    IN  /\ pc \in {"idle", "apply"} => virtualHosts = VirtualHosts(resources)
        /\ IF pc = "apply" /\ t \in apply
           THEN virtualHosts = Applied(toUpdate[t], toDelete[t], cache[t])
           ELSE virtualHosts = cache[t]
        /\ IsMap(virtualHosts)

LEMMA VhInvInit == Init => VhInv
<1> SUFFICES ASSUME Init PROVE VhInv
    OBVIOUS
<1>1. VirtualHosts(resources) = Empty
    <2>1. InUse = {}
        BY DEF Init, InUse
    <2>2. DOMAIN VirtualHosts(resources) = {} /\ IsMap(VirtualHosts(resources))
        BY <2>1, HostsAre
    <2> HIDE DEF VirtualHosts
    <2> QED
        BY <2>2 DEF IsMap, Empty
<1>2. "VirtualHost" \in Types
    BY TypeNames
<1> QED
    BY <1>1, <1>2 DEF Init, VhInv, IsMap, Empty

LEMMA VhInvStep == TypeOK /\ VhInv /\ [Next]_vars => VhInv'
<1> SUFFICES ASSUME TypeOK, VhInv, [Next]_vars PROVE VhInv'
    OBVIOUS
<1> DEFINE t == "VirtualHost"
<1>0. t \in Types
    BY TypeNames
<1>1. CASE UNCHANGED vars
    BY <1>1 DEF vars, tx, VhInv
<1>2. ASSUME NEW upd \in [Ids -> Specs \cup {None}], NEW drp \in SUBSET Ids,
             NEW again \in SUBSET Ids, BeforeBatch(upd, drp, again)
      PROVE  VhInv'
    BY <1>2 DEF BeforeBatch, VhInv
<1>3. ASSUME NEW i \in Ids, OnUpdated(i)
      PROVE  VhInv'
    BY <1>3 DEF OnUpdated, VhInv
<1>4. ASSUME NEW i \in Ids, NEW reached \in SUBSET Types, OnDropped(i, reached)
      PROVE  VhInv'
    BY <1>4 DEF OnDropped, VhInv
<1>5. CASE OnUpdated_done
    BY <1>5 DEF OnUpdated_done, tx, VhInv
<1>6. CASE AfterBatch
    <2> DEFINE hosts == VirtualHosts(resources)
               upd == [n \in {m \in DOMAIN hosts : Changed(hosts, m)} |-> hosts[n]]
               del == DOMAIN virtualHosts \ DOMAIN hosts
    <2>1. /\ pc = "drop" /\ pc' = "apply" /\ virtualHosts' = hosts
          /\ toUpdate' = [toUpdate EXCEPT ![t] = upd]
          /\ toDelete' = [toDelete EXCEPT ![t] = del]
          /\ apply' = {u \in Types : toUpdate'[u] # Empty \/ toDelete'[u] # {}}
          /\ cache' = cache /\ resources' = resources
        BY <1>6 DEF AfterBatch
    <2>2. IsMap(hosts)
        BY HostsAre
    <2>3. cache[t] = virtualHosts /\ IsMap(virtualHosts)
        BY <2>1 DEF VhInv
    <2>4. toUpdate'[t] = upd /\ toDelete'[t] = del
        BY <1>0, <2>1 DEF TypeOK
    <2>5. VirtualHosts(resources)' = hosts
        BY <2>1
    <2> HIDE DEF hosts
    <2>6. DOMAIN upd = {m \in DOMAIN hosts : Changed(hosts, m)}
        OBVIOUS
    <2>7. \A n \in DOMAIN hosts :
              n \in DOMAIN upd \/ (n \in DOMAIN virtualHosts
                                   /\ virtualHosts[n] = hosts[n])
        BY <2>6 DEF Changed
    <2>8. CASE t \in apply'
        <3>1. DOMAIN Over(upd, virtualHosts) \ del = DOMAIN hosts
            BY <2>6, <2>7 DEF Over
        <3>2. \A n \in DOMAIN hosts : Over(upd, virtualHosts)[n] = hosts[n]
            BY <2>6, <2>7 DEF Over
        <3>3. Applied(upd, del, virtualHosts) = hosts
            BY <2>2, <3>1, <3>2 DEF Applied, IsMap
        <3> QED
            BY <2>1, <2>2, <2>3, <2>4, <2>5, <2>8, <3>3 DEF VhInv
    <2>9. CASE t \notin apply'
        <3>1. upd = Empty /\ del = {}
            BY <1>0, <2>1, <2>4, <2>9
        <3>2. DOMAIN upd = {}
            BY <3>1 DEF Empty
        <3>3. hosts = virtualHosts
            BY <2>2, <2>3, <2>7, <3>1, <3>2 DEF IsMap
        <3> QED
            BY <2>1, <2>2, <2>3, <2>5, <2>9, <3>3 DEF VhInv
    <2> QED
        BY <2>8, <2>9
<1>7. ASSUME NEW u \in Types, UpdateResources(u)
      PROVE  VhInv'
    <2>1. /\ pc = "apply" /\ pc' = "apply" /\ u \in apply /\ apply' = apply \ {u}
          /\ cache' = [cache EXCEPT ![u] = Applied(toUpdate[u], toDelete[u], cache[u])]
          /\ toUpdate' = toUpdate /\ toDelete' = toDelete
          /\ virtualHosts' = virtualHosts /\ resources' = resources
        BY <1>7 DEF UpdateResources, Applied
    <2>2. CASE u = t
        <3>1. cache'[t] = Applied(toUpdate[t], toDelete[t], cache[t])
            BY <1>0, <2>1, <2>2 DEF TypeOK
        <3> QED
            BY <2>1, <2>2, <3>1 DEF VhInv
    <2>3. CASE u # t
        <3>1. cache'[t] = cache[t]
            BY <1>0, <2>1, <2>3 DEF TypeOK
        <3> QED
            BY <2>1, <2>3, <3>1 DEF VhInv
    <2> QED
        BY <2>2, <2>3
<1>8. CASE AfterBatch_end
    BY <1>8 DEF AfterBatch_end, VhInv
<1> QED
    BY <1>1, <1>2, <1>3, <1>4, <1>5, <1>6, <1>7, <1>8 DEF Next

\* Between two batches the virtual hosts Envoy is served are those of the
\* policies the provider has in use, as processChanges and AfterBatch make them,
\* for any policies, ids and orders of ids.
THEOREM XdsVirtualHostsInStep == Spec => []VirtualHostsInStep
<1>1. Spec => []VhInv
    BY VhInvInit, VhInvStep, XdsTypeCorrect, PTL DEF Spec
<1>2. TypeOK /\ VhInv => VirtualHostsInStep
    <2> SUFFICES ASSUME TypeOK, VhInv, pc = "idle"
                 PROVE  /\ DOMAIN cache["VirtualHost"] =
                               {VirtualHostName(resources[i]) : i \in InUse}
                        /\ \A n \in DOMAIN cache["VirtualHost"] :
                               IsHost(n, cache["VirtualHost"][n])
        BY Zenon DEF VirtualHostsInStep, IsHost, PoliciesOf, InUse, Least, Giving, Gives
    <2>1. cache["VirtualHost"] = VirtualHosts(resources)
        BY DEF VhInv
    <2> QED
        BY <2>1, HostsAre, HostIsRight
<1> QED
    BY <1>1, <1>2, XdsTypeCorrect, PTL

-----------------------------------------------------------------------------
(* Endpoints *)

\* The instance sets naming a cluster that are still to be handled, those of the
\* batch that have been, and whether there are any.
Naming(n) == {i \in Ids : pending[i] # None /\ pending[i].kind = "instances"
                          /\ n \in pending[i].clusters}
Done(n) == {s \in lastBatch[n] : s[1] \notin Naming(n)}
Touched(n) == Naming(n) # {} \/ endpoints[n] # None

\* How many of the sets hold an instance.
Times(sets) == [x \in Instances |-> Cardinality({s \in sets : x \in s[2]})]

\* The endpoints of the transaction are those of the sets handled so far.
Counted(n) ==
    /\ IsFiniteSet(lastBatch[n]) /\ lastBatch[n] \subseteq Ids \X SUBSET Instances
    /\ Touched(n) =>
           /\ \A i \in Naming(n) : <<i, pending[i].instances>> \in lastBatch[n]
           /\ \A s \in lastBatch[n] : s[1] \in Naming(n) =>
                  s = <<s[1], pending[s[1]].instances>>
           /\ Done(n) = {} => endpoints[n] = None
           /\ Done(n) # {} => endpoints[n] = Times(Done(n))

Prepared ==
    /\ DOMAIN toUpdate["Endpoint"] = {n \in Names : endpoints[n] # None}
    /\ \A n \in Names : endpoints[n] # None =>
           toUpdate["Endpoint"][n] = ToLoadAssignment(endpoints[n])
    /\ toDelete["Endpoint"] = {}

\* Is the cluster served with the sets of its last batch?
Right(n) ==
    /\ n \in DOMAIN cache["Endpoint"] <=> lastBatch[n] # {}
    /\ lastBatch[n] # {} =>
           cache["Endpoint"][n] = ToLoadAssignment(Times(lastBatch[n]))

EpInv ==
    /\ endpoints \in [Names -> {None} \cup [Instances -> Nat]]
    /\ \A n \in Names : Counted(n)
    /\ Prepared
    /\ pc = "idle" => \A n \in Names : endpoints[n] = None
    /\ \A n \in Names :
           ~Touched(n) \/ (pc = "apply" /\ "Endpoint" \notin apply) => Right(n)

LEMMA TimesType ==
    ASSUME NEW sets, IsFiniteSet(sets)
    PROVE  Times(sets) \in [Instances -> Nat] /\ Times(sets) # None
<1>1. \A x : IsFiniteSet({s \in sets : x \in s[2]})
    <2> TAKE x
    <2>1. {s \in sets : x \in s[2]} \in SUBSET sets
        OBVIOUS
    <2> QED
        BY <2>1, FS_Subset
<1>2. \A x : Cardinality({s \in sets : x \in s[2]}) \in Nat
    BY <1>1, FS_CardinalityType
<1> QED
    BY <1>2, XdsAssumption DEF Times

\* One more set counts for each of its instances.
LEMMA TimesOneMore ==
    ASSUME NEW sets, IsFiniteSet(sets), NEW new, new \notin sets
    PROVE  Times(sets \cup {new}) =
               [x \in Instances |-> Times(sets)[x] +
                                    (IF x \in new[2] THEN 1 ELSE 0)]
<1>1. \A x \in Instances : Cardinality({s \in sets \cup {new} : x \in s[2]}) =
          Cardinality({s \in sets : x \in s[2]}) + (IF x \in new[2] THEN 1 ELSE 0)
    <2> TAKE x \in Instances
    <2> DEFINE held == {s \in sets : x \in s[2]}
               now == {s \in sets \cup {new} : x \in s[2]}
    <2>1. IsFiniteSet(held) /\ new \notin held
        <3>1. held \in SUBSET sets
            OBVIOUS
        <3> QED
            BY <3>1, FS_Subset
    <2>2. Cardinality(held) \in Nat
        BY <2>1, FS_CardinalityType
    <2>3. CASE x \in new[2]
        <3>1. now = held \cup {new}
            BY <2>3
        <3> HIDE DEF held, now
        <3>2. Cardinality(now) = Cardinality(held) + 1
            BY <2>1, <3>1, FS_AddElement
        <3> QED
            BY <2>3, <3>2 DEF held, now
    <2>4. CASE x \notin new[2]
        <3>1. now = held
            BY <2>4
        <3> QED
            BY <2>2, <2>4, <3>1
    <2> QED
        BY <2>3, <2>4
<1> QED
    BY <1>1 DEF Times

LEMMA EpInit == Init => EpInv
<1> SUFFICES ASSUME Init PROVE EpInv
    OBVIOUS
<1>1. "Endpoint" \in Types
    BY TypeNames
<1>2. \A n \in Names : Naming(n) = {} /\ endpoints[n] = None /\ lastBatch[n] = {}
    BY DEF Init, Naming
<1>3. /\ cache["Endpoint"] = Empty /\ toUpdate["Endpoint"] = Empty
      /\ toDelete["Endpoint"] = {} /\ DOMAIN Empty = {}
    BY <1>1 DEF Init, Empty
<1>4. endpoints \in [Names -> {None} \cup [Instances -> Nat]]
    BY DEF Init
<1>5. \A n \in Names : Counted(n)
    BY <1>2, FS_EmptySet DEF Counted, Touched
<1>6. Prepared
    BY <1>2, <1>3 DEF Prepared
<1>7. \A n \in Names : Right(n)
    BY <1>2, <1>3 DEF Right
<1> QED
    BY <1>2, <1>4, <1>5, <1>6, <1>7 DEF EpInv

LEMMA EpBefore ==
    ASSUME XdsInv, EpInv, NEW upd \in [Ids -> Specs \cup {None}],
           NEW drp \in SUBSET Ids, NEW again \in SUBSET Ids,
           BeforeBatch(upd, drp, again)
    PROVE  EpInv'
<1> DEFINE naming(n) == {i \in Ids : upd[i] # None /\ upd[i].kind = "instances"
                                     /\ n \in upd[i].clusters}
<1>1. /\ pc = "idle" /\ pc' = "update" /\ pending' = upd /\ cache' = cache
      /\ toUpdate' = [t \in Types |-> Empty] /\ toDelete' = [t \in Types |-> {}]
      /\ endpoints' = [n \in Names |-> None]
      /\ lastBatch' = [n \in Names |-> IF naming(n) = {} THEN lastBatch[n]
                           ELSE {<<i, upd[i].instances>> : i \in naming(n)}]
    BY DEF BeforeBatch
<1>2. "Endpoint" \in Types
    BY TypeNames
<1>3. \A n : Naming(n)' = naming(n)
    BY <1>1 DEF Naming
<1>4. endpoints' \in [Names -> {None} \cup [Instances -> Nat]]
    BY <1>1
<1>5. Prepared'
    <2>1. toUpdate'["Endpoint"] = Empty /\ toDelete'["Endpoint"] = {}
        BY <1>1, <1>2
    <2>2. DOMAIN Empty = {}
        BY DEF Empty
    <2> QED
        BY <1>1, <2>1, <2>2 DEF Prepared
<1>6. \A n \in Names : ~Touched(n) /\ Right(n)
    <2>1. \A i \in Ids : pending[i] = None
        BY <1>1 DEF XdsInv, Phases
    <2>2. \A n \in Names : Naming(n) = {} /\ endpoints[n] = None
        BY <1>1, <2>1 DEF Naming, EpInv
    <2> QED
        BY <2>2 DEF EpInv, Touched
<1>7. ASSUME NEW n \in Names
      PROVE  Counted(n)' /\ (~Touched(n)' => Right(n)')
    <2>1. /\ endpoints'[n] = None /\ Naming(n)' = naming(n)
          /\ Touched(n)' = (naming(n) # {})
        BY <1>1, <1>3 DEF Touched
    <2>2. CASE naming(n) = {}
        <3>1. lastBatch'[n] = lastBatch[n]
            BY <1>1, <2>2
        <3> QED
            BY <1>1, <1>6, <2>1, <2>2, <3>1 DEF Counted, EpInv, Right
    <2>3. CASE naming(n) # {}
        <3>1. lastBatch'[n] = {<<i, upd[i].instances>> : i \in naming(n)}
            BY <1>1, <2>3
        <3>2. \A i \in naming(n) : upd[i] \in Specs /\ upd[i].kind = "instances"
            OBVIOUS
        <3>3. lastBatch'[n] \subseteq Ids \X SUBSET Instances
            BY <3>1, <3>2, SpecsAssumption
        <3>4. IsFiniteSet(lastBatch'[n])
            <4>1. naming(n) \in SUBSET Ids
                OBVIOUS
            <4>2. IsFiniteSet(naming(n))
                BY <4>1, XdsAssumption, FS_Subset
            <4> DEFINE f == [i \in naming(n) |-> <<i, upd[i].instances>>]
            <4>3. f \in Surjection(naming(n), lastBatch'[n])
                BY <3>1 DEF Surjection
            <4> HIDE DEF f, naming
            <4> QED
                BY <4>2, <4>3, FS_Surjection
        <3>5. \A s \in lastBatch'[n] : s[1] \in naming(n)
                                       /\ s = <<s[1], upd[s[1]].instances>>
            BY <3>1
        <3>6. \A i \in naming(n) : <<i, upd[i].instances>> \in lastBatch'[n]
            BY <3>1
        <3>7. Done(n)' = {}
            BY <2>1, <3>5 DEF Done
        <3>8. Counted(n)'
            BY <1>1, <2>1, <3>3, <3>4, <3>5, <3>6, <3>7 DEF Counted
        <3> QED
            BY <2>1, <2>3, <3>8
    <2> QED
        BY <2>2, <2>3
<1> QED
    BY <1>1, <1>4, <1>5, <1>7 DEF EpInv

LEMMA EpUpdated ==
    ASSUME XdsInv, EpInv, NEW i \in Ids, OnUpdated(i)
    PROVE  EpInv'
<1> DEFINE spec == pending[i]
           E == "Endpoint"
<1>1. E \in Types /\ E \notin Named
    BY TypeNames
<1>2. /\ pc = "update" /\ pc' \in {"update", "crashed"} /\ spec # None
      /\ pending' = [pending EXCEPT ![i] = None]
      /\ cache' = cache /\ lastBatch' = lastBatch /\ toDelete' = toDelete
    BY DEF OnUpdated
<1>3. spec \in Specs /\ pending \in [Ids -> Specs \cup {None}]
    BY <1>2 DEF XdsInv, TypeOK
<1>4. \A n : Right(n)' = Right(n)
    BY <1>2 DEF Right
<1>5. pc # "apply" /\ pc' # "apply" /\ pc' # "idle"
    BY <1>2
<1>6. \A n : Naming(n)' = Naming(n) \ {i}
    BY <1>2, <1>3 DEF Naming
<1>7. DOMAIN toUpdate = Types
    BY DEF XdsInv, TypeOK
<1>8. CASE spec.kind # "instances"
    <2>1. endpoints' = endpoints /\ toUpdate'[E] = Over(Empty, toUpdate[E])
        BY <1>1, <1>7, <1>8, TypesOfNamed, <1>3 DEF OnUpdated
    <2>2. toUpdate'[E] = toUpdate[E]
        <3>1. IsMap(toUpdate[E])
            BY <1>1 DEF XdsInv, AreMaps
        <3>2. DOMAIN Empty = {}
            BY DEF Empty
        <3> QED
            BY <2>1, <3>1, <3>2 DEF Over, IsMap
    <2>3. \A n : Naming(n)' = Naming(n)
        BY <1>6, <1>8 DEF Naming
    <2>4. \A j \in Ids : j # i => pending'[j] = pending[j]
        BY <1>2
    <2>5. \A n : i \notin Naming(n)
        BY <1>8 DEF Naming
    <2>6. \A n \in Names : Counted(n)' /\ Touched(n)' = Touched(n)
        <3> TAKE n \in Names
        <3>1. Done(n)' = Done(n) /\ Touched(n)' = Touched(n)
            BY <1>2, <2>1, <2>3 DEF Done, Touched
        <3>2. \A j \in Naming(n) : pending'[j] = pending[j]
            BY <2>4, <2>5 DEF Naming
        <3>3. Counted(n)
            BY DEF EpInv
        <3> QED
            BY <1>2, <2>1, <2>3, <3>1, <3>2, <3>3 DEF Counted
    <2>7. Prepared'
        BY <1>2, <2>1, <2>2 DEF Prepared, EpInv
    <2> QED
        BY <1>4, <1>5, <2>1, <2>6, <2>7 DEF EpInv
<1>9. CASE spec.kind = "instances"
    <2> DEFINE load == AddEndpoints(endpoints, spec)
               mine == <<i, spec.instances>>
    <2>1. spec.clusters \subseteq Names /\ spec.instances \subseteq Instances
        BY <1>3, <1>9, SpecsAssumption
    <2>2. /\ endpoints' = load
          /\ toUpdate'[E] = Over([n \in spec.clusters |-> ToLoadAssignment(load[n])],
                                 toUpdate[E])
        BY <1>1, <1>7, <1>9, TypesOfNamed, <1>3 DEF OnUpdated
    <2>3. ASSUME NEW n \in Names \ spec.clusters
          PROVE  /\ load[n] = endpoints[n] /\ Counted(n)'
                 /\ Touched(n)' = Touched(n)
        <3>1. load[n] = endpoints[n]
            BY DEF AddEndpoints
        <3>2. i \notin Naming(n)
            BY DEF Naming
        <3>3. Naming(n)' = Naming(n)
            BY <1>6, <3>2
        <3>4. Done(n)' = Done(n) /\ Touched(n)' = Touched(n)
            BY <1>2, <2>2, <3>1, <3>3 DEF Done, Touched
        <3>5. \A j \in Naming(n) : pending'[j] = pending[j]
            BY <1>2, <1>3, <3>2 DEF Naming
        <3>6. Counted(n)
            BY DEF EpInv
        <3> QED
            BY <1>2, <2>2, <3>1, <3>3, <3>4, <3>5, <3>6 DEF Counted
    <2>4. ASSUME NEW n \in spec.clusters
          PROVE  /\ load[n] \in [Instances -> Nat] /\ load[n] # None
                 /\ Counted(n)' /\ Touched(n)'
        <3>1. n \in Names /\ i \in Naming(n)
            BY <1>2, <1>9, <2>1 DEF Naming
        <3>2. Counted(n) /\ Touched(n)
            BY <3>1 DEF EpInv, Touched
        <3>3. /\ mine \in lastBatch[n]
              /\ \A s \in lastBatch[n] : s[1] = i => s = mine
            BY <3>1, <3>2 DEF Counted
        <3>4. Done(n)' = Done(n) \cup {mine} /\ mine \notin Done(n)
            <4>1. \A s \in lastBatch[n] : s[1] \notin Naming(n)' <=>
                      s[1] \notin Naming(n) \/ s = mine
                BY <1>6, <3>1, <3>3
            <4> QED
                BY <1>2, <3>1, <3>3, <4>1 DEF Done
        <3>5. IsFiniteSet(Done(n)) /\ IsFiniteSet(Done(n)')
            <4>1. Done(n) \in SUBSET lastBatch[n] /\ Done(n)' \in SUBSET lastBatch[n]
                BY <1>2 DEF Done
            <4> QED
                BY <3>2, <4>1, FS_Subset DEF Counted
        <3>6. load[n] = [x \in Instances |->
                            (IF endpoints[n] = None THEN 0 ELSE endpoints[n][x])
                            + (IF x \in spec.instances THEN 1 ELSE 0)]
            BY <3>1 DEF AddEndpoints
        <3>7. \A x \in Instances : Times(Done(n))[x] =
                  IF endpoints[n] = None THEN 0 ELSE endpoints[n][x]
            <4>1. CASE Done(n) = {}
                <5>1. \A x : {s \in {} : x \in s[2]} = {}
                    OBVIOUS
                <5>2. \A x \in Instances : Times({})[x] = 0
                    BY <5>1, FS_EmptySet DEF Times
                <5> QED
                    BY <3>2, <4>1, <5>2 DEF Counted
            <4>2. CASE Done(n) # {}
                <5>1. endpoints[n] = Times(Done(n)) /\ Times(Done(n)) # None
                    BY <3>2, <3>5, <4>2, TimesType DEF Counted
                <5> QED
                    BY <5>1
            <4> QED
                BY <4>1, <4>2
        <3>8. load[n] = Times(Done(n)')
            <4>1. Times(Done(n) \cup {mine}) =
                      [x \in Instances |-> Times(Done(n))[x] +
                                           (IF x \in mine[2] THEN 1 ELSE 0)]
                BY <3>4, <3>5, TimesOneMore
            <4>2. mine[2] = spec.instances
                OBVIOUS
            <4> HIDE DEF mine, load
            <4> QED
                BY <3>4, <3>6, <3>7, <4>1, <4>2
        <3>9. load[n] \in [Instances -> Nat] /\ load[n] # None
            BY <3>5, <3>8, TimesType
        <3>10. Touched(n)'
            BY <2>2, <3>9 DEF Touched
        <3>11. \A j \in Naming(n)' : pending'[j] = pending[j] /\ j \in Naming(n)
            BY <1>2, <1>3, <1>6 DEF Naming
        <3>12. Counted(n)'
            <4> HIDE DEF mine, load
            <4> QED
                BY <1>2, <1>6, <2>2, <3>2, <3>4, <3>8, <3>11 DEF Counted
        <3> QED
            BY <3>9, <3>10, <3>12
    <2>5. endpoints' \in [Names -> {None} \cup [Instances -> Nat]]
        <3>1. load = [n \in Names |-> load[n]]
            BY DEF AddEndpoints
        <3>2. \A n \in Names : load[n] \in {None} \cup [Instances -> Nat]
            BY <2>3, <2>4 DEF EpInv
        <3> HIDE DEF load
        <3> QED
            BY <2>2, <3>1, <3>2
    <2>6. Prepared'
        <3>1. /\ DOMAIN toUpdate[E] = {n \in Names : endpoints[n] # None}
              /\ \A n \in Names : endpoints[n] # None =>
                     toUpdate[E][n] = ToLoadAssignment(endpoints[n])
              /\ toDelete[E] = {}
            BY DEF EpInv, Prepared
        <3>2. DOMAIN toUpdate'[E] = {n \in Names : load[n] # None}
            <4> HIDE DEF load
            <4> QED
                <5>1. DOMAIN toUpdate'[E] = spec.clusters \cup DOMAIN toUpdate[E]
                    BY <2>2 DEF Over
                <5>2. \A n \in Names \ spec.clusters : load[n] = endpoints[n]
                    BY <2>3
                <5>3. \A n \in spec.clusters : load[n] # None
                    BY <2>4
                <5> HIDE DEF spec
                <5> QED
                    BY <2>1, <3>1, <5>1, <5>2, <5>3
        <3>3. \A n \in Names : load[n] # None =>
                  toUpdate'[E][n] = ToLoadAssignment(load[n])
            <4> TAKE n \in Names
            <4> HIDE DEF load
            <4>1. CASE n \in spec.clusters
                BY <2>2, <4>1 DEF Over
            <4>2. CASE n \notin spec.clusters
                BY <2>2, <2>3, <3>1, <4>2 DEF Over
            <4> QED
                BY <4>1, <4>2
        <3> QED
            BY <1>2, <2>2, <3>1, <3>2, <3>3 DEF Prepared
    <2> QED
        BY <1>4, <1>5, <2>3, <2>4, <2>5, <2>6 DEF EpInv
<1> QED
    BY <1>8, <1>9

LEMMA EpDropped ==
    ASSUME XdsInv, EpInv, NEW i \in Ids, NEW reached \in SUBSET Types,
           OnDropped(i, reached)
    PROVE  EpInv'
<1>1. i \notin DOMAIN clusterNames
    BY XdsAssumption DEF XdsInv, TypeOK
<1>2. "Endpoint" \in Types /\ "Endpoint" \notin Named
    BY TypeNames
<1>3. /\ pc = "drop" /\ pc' = pc
      /\ UNCHANGED <<pending, cache, lastBatch, toUpdate, endpoints, apply>>
      /\ toDelete'["Endpoint"] = toDelete["Endpoint"]
    BY <1>1, <1>2 DEF OnDropped
<1>4. \A n : /\ Counted(n)' = Counted(n) /\ Touched(n)' = Touched(n)
             /\ Right(n)' = Right(n)
    BY <1>3 DEF Counted, Done, Touched, Naming, Right
<1>5. Prepared' = Prepared
    BY <1>3 DEF Prepared
<1> QED
    BY <1>3, <1>4, <1>5 DEF EpInv

LEMMA EpApply ==
    ASSUME XdsInv, EpInv,
           OnUpdated_done \/ AfterBatch \/ (\E t \in Types : UpdateResources(t))
               \/ AfterBatch_end
    PROVE  EpInv'
<1> DEFINE E == "Endpoint"
<1>0. E \in Types /\ E # "VirtualHost"
    BY TypeNames
<1>1. CASE OnUpdated_done
    <2>1. /\ pc = "update" /\ pc' = "drop"
          /\ UNCHANGED <<pending, cache, lastBatch, toUpdate, toDelete, endpoints>>
        BY <1>1 DEF OnUpdated_done, tx, history
    <2> QED
        BY <2>1 DEF EpInv, Counted, Done, Touched, Naming, Prepared, Right
<1>2. CASE AfterBatch
    <2>1. /\ pc = "drop" /\ pc' = "apply"
          /\ UNCHANGED <<pending, cache, lastBatch, endpoints>>
          /\ toUpdate'[E] = toUpdate[E] /\ toDelete'[E] = toDelete[E]
          /\ apply' = {t \in Types : toUpdate'[t] # Empty \/ toDelete'[t] # {}}
        BY <1>0, <1>2 DEF AfterBatch, history, XdsInv, TypeOK
    <2>2. \A n : /\ Counted(n)' = Counted(n) /\ Touched(n)' = Touched(n)
                 /\ Right(n)' = Right(n) /\ Naming(n)' = Naming(n)
        BY <2>1 DEF Counted, Done, Touched, Naming, Right
    <2>3. \A n : Naming(n) = {}
        BY <2>1 DEF XdsInv, Phases, Naming
    <2>4. ASSUME E \notin apply', NEW n \in Names
          PROVE  ~Touched(n)
        <3>1. toUpdate[E] = Empty
            BY <1>0, <2>1, <2>4
        <3>2. DOMAIN toUpdate[E] = {}
            BY <3>1 DEF Empty
        <3> QED
            BY <2>3, <3>2 DEF Touched, EpInv, Prepared
    <2>5. Prepared'
        BY <2>1 DEF Prepared, EpInv
    <2> QED
        BY <2>1, <2>2, <2>4, <2>5 DEF EpInv
<1>3. ASSUME NEW t \in Types, UpdateResources(t)
      PROVE  EpInv'
    <2>1. /\ pc = "apply" /\ pc' = pc /\ t \in apply /\ apply' = apply \ {t}
          /\ UNCHANGED <<pending, lastBatch, toUpdate, toDelete, endpoints>>
          /\ cache' = [cache EXCEPT ![t] =
                 [n \in DOMAIN Over(toUpdate[t], cache[t]) \ toDelete[t] |->
                     Over(toUpdate[t], cache[t])[n]]]
        BY <1>3 DEF UpdateResources, history
    <2>2. /\ \A n : Counted(n)' = Counted(n) /\ Touched(n)' = Touched(n)
          /\ Prepared' = Prepared
        BY <2>1 DEF Counted, Done, Touched, Naming, Prepared
    <2>3. CASE t = E
        <3>1. \A n : Naming(n) = {}
            BY <2>1 DEF XdsInv, Phases, Naming
        <3>2. DOMAIN cache = Types
            BY DEF XdsInv, TypeOK
        <3>3. /\ DOMAIN cache'[E] = DOMAIN toUpdate[E] \cup DOMAIN cache[E]
              /\ \A n \in DOMAIN toUpdate[E] : cache'[E][n] = toUpdate[E][n]
              /\ \A n \in DOMAIN cache[E] : n \notin DOMAIN toUpdate[E] =>
                     cache'[E][n] = cache[E][n]
            <4>1. toDelete[E] = {}
                BY DEF EpInv, Prepared
            <4> QED
                BY <1>0, <2>1, <2>3, <3>2, <4>1 DEF Over
        <3>4. ASSUME NEW n \in Names
              PROVE  Right(n)'
            <4>1. n \in DOMAIN toUpdate[E] <=> endpoints[n] # None
                BY DEF EpInv, Prepared
            <4>2. CASE endpoints[n] = None
                <5>1. Right(n)
                    BY <3>1, <4>2 DEF EpInv, Touched
                <5> QED
                    BY <2>1, <3>3, <4>1, <4>2, <5>1 DEF Right
            <4>3. CASE endpoints[n] # None
                <5>1. Done(n) = lastBatch[n]
                    BY <3>1 DEF Done
                <5>2. Counted(n) /\ Touched(n)
                    BY <4>3 DEF EpInv, Touched
                <5>3. lastBatch[n] # {} /\ endpoints[n] = Times(lastBatch[n])
                    BY <4>3, <5>1, <5>2 DEF Counted
                <5>4. toUpdate[E][n] = ToLoadAssignment(Times(lastBatch[n]))
                    BY <4>3, <5>3 DEF EpInv, Prepared
                <5> QED
                    BY <2>1, <3>3, <4>1, <4>3, <5>3, <5>4 DEF Right
            <4> QED
                BY <4>2, <4>3
        <3> QED
            BY <2>1, <2>2, <3>4 DEF EpInv
    <2>4. CASE t # E
        <3>1. cache'[E] = cache[E] /\ (E \in apply' <=> E \in apply)
            BY <1>0, <2>1, <2>4
        <3>2. \A n : Right(n)' = Right(n)
            BY <2>1, <3>1 DEF Right
        <3> QED
            BY <2>1, <2>2, <3>1, <3>2 DEF EpInv
    <2> QED
        BY <2>3, <2>4
<1>4. CASE AfterBatch_end
    <2>1. /\ pc = "apply" /\ pc' = "idle" /\ apply = {} /\ apply' = apply
          /\ UNCHANGED <<pending, lastBatch, cache>>
          /\ toUpdate' = [t \in Types |-> Empty]
          /\ toDelete' = [t \in Types |-> {}]
          /\ endpoints' = [n \in Names |-> None]
        BY <1>4 DEF AfterBatch_end
    <2>2. \A n : Naming(n)' = {}
        BY <2>1 DEF XdsInv, Phases, Naming
    <2>3. \A n \in Names : ~Touched(n)' /\ Right(n)'
        BY <2>1, <2>2 DEF EpInv, Right, Touched
    <2>4. \A n \in Names : Counted(n)'
        BY <2>1, <2>3 DEF EpInv, Counted
    <2>5. Prepared'
        <3>1. DOMAIN Empty = {}
            BY DEF Empty
        <3>2. toUpdate'[E] = Empty /\ toDelete'[E] = {}
            BY <1>0, <2>1
        <3> QED
            BY <2>1, <3>1, <3>2 DEF Prepared
    <2>6. endpoints' \in [Names -> {None} \cup [Instances -> Nat]]
        BY <2>1
    <2> QED
        BY <2>1, <2>3, <2>4, <2>5, <2>6 DEF EpInv
<1> QED
    BY <1>1, <1>2, <1>3, <1>4

LEMMA EpStep == XdsInv /\ EpInv /\ [Next]_vars => EpInv'
<1> SUFFICES ASSUME XdsInv, EpInv, [Next]_vars PROVE EpInv'
    OBVIOUS
<1>1. CASE UNCHANGED vars
    <2>1. UNCHANGED <<pc, pending, toUpdate, toDelete, endpoints, apply, cache,
                      lastBatch>>
        BY <1>1 DEF vars, tx, history
    <2>2. \A n : /\ Counted(n)' = Counted(n) /\ Touched(n)' = Touched(n)
                 /\ Right(n)' = Right(n)
        BY <2>1 DEF Counted, Done, Touched, Naming, Right
    <2>3. Prepared' = Prepared
        BY <2>1 DEF Prepared
    <2> QED
        BY <2>1, <2>2, <2>3 DEF EpInv
<1>2. CASE Next
    BY <1>2, EpBefore, EpUpdated, EpDropped, EpApply DEF Next
<1> QED
    BY <1>1, <1>2

LEMMA EpInvAlways == Spec => []EpInv
BY EpInit, EpStep, XdsInvAlways, PTL DEF Spec

\* An instance is in one group, of its own locality, if it was added at all.
Grouped(load, x, times) ==
    LET groups == {g \in load : x \in DOMAIN g.lbEndpoints}
    IN  IF times = 0 THEN groups = {}
        ELSE \E g \in groups :
                 /\ groups = {g}
                 /\ g.lbEndpoints[x] = times
                 /\ (g.locality = None) <=> (x.region = "")
                 /\ \A y \in DOMAIN g.lbEndpoints :
                        <<x.region, x.zone>> = <<y.region, y.zone>>

\* ToLoadAssignment groups the instances by region and zone.
LEMMA LoadOf ==
    ASSUME NEW count \in [Instances -> Nat], NEW x \in Instances
    PROVE  Grouped(ToLoadAssignment(count), x, count[x])
<1> DEFINE present == {y \in Instances : count[y] > 0}
           at(z) == {y \in present : y.region = z.region /\ y.zone = z.zone}
           G(z) == [locality |-> IF z.region = "" THEN None ELSE <<z.region, z.zone>>,
                    lbEndpoints |-> [y \in at(z) |-> count[y]]]
           load == ToLoadAssignment(count)
           groups == {g \in load : x \in DOMAIN g.lbEndpoints}
<1>1. load = {G(z) : z \in present}
    BY Zenon DEF ToLoadAssignment
<1>2. \A z : /\ DOMAIN G(z).lbEndpoints = at(z)
             /\ \A y \in at(z) : G(z).lbEndpoints[y] = count[y]
             /\ G(z).locality = IF z.region = "" THEN None ELSE <<z.region, z.zone>>
    OBVIOUS
<1>3. \A z, y : y \in at(z) => G(z) = G(y) /\ y \in present
    <2> SUFFICES ASSUME NEW z, NEW y \in at(z) PROVE G(z) = G(y) /\ y \in present
        OBVIOUS
    <2>1. y.region = z.region /\ y.zone = z.zone /\ y \in present
        OBVIOUS
    <2>2. at(z) = at(y)
        BY <2>1
    <2> QED
        BY <2>1, <2>2
<1>4. \A z, y : y \in at(z) => <<z.region, z.zone>> = <<y.region, y.zone>>
    OBVIOUS
<1>5. x \in present => x \in at(x)
    OBVIOUS
<1>6. x \in present <=> count[x] # 0
    OBVIOUS
<1> HIDE DEF load, at, G, present
<1>7. CASE count[x] = 0
    <2>1. x \notin present
        BY <1>6, <1>7
    <2>2. \A z \in present : x \notin DOMAIN G(z).lbEndpoints
        BY <1>2, <1>3, <2>1
    <2>3. groups = {}
        BY <1>1, <2>2
    <2> HIDE DEF groups
    <2>4. Grouped(load, x, count[x])
        BY <1>7, <2>3 DEF Grouped, groups
    <2> QED
        BY <2>4 DEF load
<1>8. CASE count[x] # 0
    <2>1. G(x) \in groups
        BY <1>1, <1>2, <1>5, <1>6, <1>8
    <2>2. \A g \in groups : g = G(x)
        BY <1>1, <1>2, <1>3
    <2>3. groups = {G(x)}
        BY <2>1, <2>2
    <2>4. G(x).lbEndpoints[x] = count[x]
        BY <1>2, <1>5, <1>6, <1>8
    <2>5. (G(x).locality = None) <=> (x.region = "")
        BY <1>2, XdsAssumption
    <2>6. \A y \in DOMAIN G(x).lbEndpoints :
              <<x.region, x.zone>> = <<y.region, y.zone>>
        BY <1>2, <1>4
    <2> HIDE DEF groups
    <2>7. \E g \in groups :
              /\ groups = {g}
              /\ g.lbEndpoints[x] = count[x]
              /\ (g.locality = None) <=> (x.region = "")
              /\ \A y \in DOMAIN g.lbEndpoints :
                     <<x.region, x.zone>> = <<y.region, y.zone>>
        BY <2>1, <2>3, <2>4, <2>5, <2>6
    <2>8. Grouped(load, x, count[x])
        BY <1>8, <2>7 DEF Grouped, groups
    <2> QED
        BY <2>8 DEF load
<1> QED
    BY <1>7, <1>8

InItsLocality(n, x) ==
    LET sets == {s \in lastBatch[n] : x \in s[2]}
        load == IF lastBatch[n] = {} THEN {} ELSE cache["Endpoint"][n]
        groups == {g \in load : x \in DOMAIN g.lbEndpoints}
    IN  IF sets = {} THEN groups = {}
        ELSE \E g \in groups :
                 /\ groups = {g}
                 /\ g.lbEndpoints[x] = Cardinality(sets)
                 /\ (g.locality = None) <=> (x.region = "")
                 /\ \A y \in DOMAIN g.lbEndpoints :
                        <<x.region, x.zone>> = <<y.region, y.zone>>

\* Between two batches a cluster has the endpoints of all the instance sets of
\* the last batch that named it, as OnUpdated counts and groups them, for any
\* batches: each instance as often as the sets hold it, in its own locality.
THEOREM XdsEndpointsOfLastBatch == Spec => []EndpointsOfLastBatch
<1>1. XdsInv /\ EpInv => EndpointsOfLastBatch
    <2> SUFFICES ASSUME XdsInv, EpInv, pc = "idle", NEW n \in Names
                 PROVE  /\ n \in DOMAIN cache["Endpoint"] <=> lastBatch[n] # {}
                        /\ \A x \in Instances : InItsLocality(n, x)
        BY Zenon DEF EndpointsOfLastBatch, InItsLocality
    <2>1. \A i \in Ids : pending[i] = None
        BY DEF XdsInv, Phases
    <2>2. ~Touched(n)
        BY <2>1 DEF EpInv, Touched, Naming
    <2>3. Right(n) /\ IsFiniteSet(lastBatch[n])
        BY <2>2 DEF EpInv, Counted
    <2> DEFINE count == Times(lastBatch[n])
    <2>4. ASSUME NEW x \in Instances
          PROVE  InItsLocality(n, x)
        <3> DEFINE sets == {s \in lastBatch[n] : x \in s[2]}
        <3>1. count[x] = Cardinality(sets) /\ count \in [Instances -> Nat]
            BY <2>3, TimesType DEF Times
        <3>2. Cardinality(sets) = 0 <=> sets = {}
            <4>1. sets \in SUBSET lastBatch[n]
                OBVIOUS
            <4> QED
                BY <2>3, <4>1, FS_Subset, FS_EmptySet
        <3>3. CASE lastBatch[n] = {}
            BY <3>3 DEF InItsLocality
        <3>4. CASE lastBatch[n] # {}
            <4>1. cache["Endpoint"][n] = ToLoadAssignment(count)
                BY <2>3, <3>4 DEF Right
            <4> HIDE DEF count
            <4>2. Grouped(cache["Endpoint"][n], x, count[x])
                BY <3>1, <4>1, LoadOf
            <4> QED
                BY <3>1, <3>2, <3>4, <4>2, Zenon DEF InItsLocality, Grouped
        <3> QED
            BY <3>3, <3>4
    <2> QED
        BY <2>3, <2>4 DEF Right
<1> QED
    BY <1>1, XdsInvAlways, EpInvAlways, PTL
=============================================================================

--------------------------- MODULE ProcessProofs ---------------------------
(***************************************************************************)
(* Proofs about a protomesh process, for every configuration and any       *)
(* number of requests and faults: what backs a request, what is left after *)
(* main returns, and which certificate is served.                          *)
(***************************************************************************)
EXTENDS Process, SequenceTheorems, TLAPS

-----------------------------------------------------------------------------
(* The inductive invariant *)

\* What the deferred calls take away again.
Closable == {<<"conn", "temporal">>, <<"conn", "sql">>, <<"server", "http">>}

Calls == {"temporal.Close", "store.Stop", "gateway.Stop", "xds.Stop",
          "worker.Stop", "grpc.Start", "http.Stop"}

\* Some feature's Stop is still to be called or waits for ever.
SyncPending == \E f \in Synced : Features[f] \in Range(defers)

\* The deferred call that runs first is the one of the HTTP server.
HttpFirst == defers # <<>> /\ defers[1] = "http.Stop"

\* main passes every step on its way to WaitInterruption, and the HTTP server
\* is its last one.
StartedInOrder ==
    /\ mode \in {"running", "unwinding", "exited"} => step > Len(Program)
    /\ serve # "none" => step > Len(Program)

\* The HTTP server's stop is deferred last: no other call is above it.
HttpOnTop ==
    /\ serve = "none" => "http.Stop" \notin Range(defers)
    /\ defers # <<>> => "http.Stop" \notin Range(Tail(defers))

\* What a passed step has brought up and nothing closes stays.
StepsAreUp ==
    \A n \in 1..Len(Program) :
        n < step /\ Needs(Program[n]) =>
            Range(Parts(Program[n])) \ Closable \subseteq up

\* The database is open until main's deferred calls get to the store.
StoreIsOpen ==
    5 < step /\ Needs("store.Start") /\ config.postgres =>
        (mode \in {"starting", "running"} \/ HttpFirst =>
            <<"conn", "sql">> \in up)

\* The HTTP server is up, or its requests run, only with its stop to come.
ServerIsStopped ==
    /\ <<"server", "http">> \in up => HttpFirst /\ stopping = None
    /\ inFlight > 0 /\ ~forced => HttpFirst /\ stopping # "joining"
    /\ stopping # None => HttpFirst
    /\ serve \in {"running", "sending"} => HttpFirst

\* A feature whose stop is deferred has its goroutine.
SyncedIsUp ==
    \A f \in Synced : Features[f] \in Range(defers) => <<"sync", f>> \in up

\* Unless a step has panicked, a deferred call is left for whatever is up.
AllIsDeferred ==
    mode \notin {"panicking", "crashed"} => \A p \in up :
        \/ p[1] \in {"server", "service"}
        \/ p = <<"conn", "temporal">> /\ "temporal.Close" \in Range(defers)
        \/ p = <<"conn", "sql">> /\ "store.Stop" \in Range(defers)
        \/ SyncPending

ReturnsAtEnd == mode = "exited" => defers = <<>>

ProcessInv ==
    /\ TypeOK /\ defers \in Seq(Calls)
    /\ StartedInOrder /\ HttpOnTop /\ StepsAreUp /\ StoreIsOpen
    /\ ServerIsStopped /\ SyncedIsUp /\ AllIsDeferred /\ ReturnsAtEnd
    /\ CertificateMatchesKey

-----------------------------------------------------------------------------
(* What the steps of main bring up *)

\* The range of short sequences.
LEMMA RangeOfTuples ==
    /\ Range(<<>>) = {}
    /\ \A x : Range(<<x>>) = {x}
    /\ \A x, y : Range(<<x, y>>) = {x, y}
  BY DEF Range

\* main has ten steps.
LEMMA ProgramSteps ==
    /\ Len(Program) = 10
    /\ Program[1] = "aws.Initialize" /\ Program[2] = "gateway.Initialize"
    /\ Program[3] = "grpc.Initialize" /\ Program[4] = "temporal.Dial"
    /\ Program[5] = "store.Start" /\ Program[6] = "gateway.Start"
    /\ Program[7] = "xds.Start" /\ Program[8] = "worker.Start"
    /\ Program[9] = "grpc.Start" /\ Program[10] = "http.Start"
  BY DEF Program

\* One sequence after another.
LEMMA RangeOfJoin ==
    ASSUME NEW S, NEW s \in Seq(S), NEW t \in Seq(S)
    PROVE  s \o t \in Seq(S) /\ Range(s \o t) = Range(s) \cup Range(t)
  BY RangeConcatenation

\* The parts of a step that brings up two.
LEMMA RangeOfTwo ==
    ASSUME NEW p, NEW q
    PROVE  Range(<<p>> \o <<q>>) = {p, q}
  <1> DEFINE S == {p, q}
             a == <<p>>
             b == <<q>>
  <1>1. a \in Seq(S) /\ b \in Seq(S)
    OBVIOUS
  <1>2. Range(a) = {p} /\ Range(b) = {q}
    BY RangeOfTuples
  <1> HIDE DEF a, b, S
  <1>3. Range(a \o b) = Range(a) \cup Range(b)
    BY <1>1, RangeOfJoin
  <1> QED
    BY <1>2, <1>3 DEF a, b

\* The parts of a step that brings up one and then two.
LEMMA RangeOfOneAndTwo ==
    ASSUME NEW p, NEW q, NEW r
    PROVE  Range(<<p>> \o <<q, r>>) = {p, q, r}
  <1> DEFINE S == {p, q, r}
             a == <<p>>
             b == <<q, r>>
  <1>1. a \in Seq(S) /\ b \in Seq(S)
    OBVIOUS
  <1>2. Range(a) = {p} /\ Range(b) = {q, r}
    BY RangeOfTuples
  <1> HIDE DEF a, b, S
  <1>3. Range(a \o b) = Range(a) \cup Range(b)
    BY <1>1, RangeOfJoin
  <1> QED
    BY <1>2, <1>3 DEF a, b

\* The parts of a step that brings up two and then what t holds.
LEMMA RangeOfTwoAnd ==
    ASSUME NEW p, NEW q, NEW S, NEW t \in Seq(S)
    PROVE  Range((<<p>> \o <<q>>) \o t) = {p, q} \cup Range(t)
  <1> DEFINE T == S \cup {p, q}
             a == <<p>>
             b == <<q>>
  <1>1. a \in Seq(T) /\ b \in Seq(T) /\ t \in Seq(T)
    <2>1. t \in Seq(T)
      BY SeqMonotonic
    <2> QED
      BY <2>1
  <1>2. Range(a \o b) = {p, q}
    BY RangeOfTwo
  <1> HIDE DEF a, b, T
  <1> DEFINE ab == a \o b
  <1>3. ab \in Seq(T)
    BY <1>1, RangeOfJoin
  <1> HIDE DEF ab
  <1>4. Range(ab \o t) = Range(ab) \cup Range(t)
    BY <1>1, <1>3, RangeOfJoin
  <1> QED
    BY <1>2, <1>4 DEF ab, a, b

\* The parts of the steps that leave connections and goroutines behind.
LEMMA PartsOfSteps ==
    ASSUME config \in Configs
    PROVE  /\ Range(Parts("grpc.Initialize")) = {<<"server", "grpc">>}
           /\ Range(Parts("temporal.Dial")) = {<<"conn", "temporal">>}
           /\ Range(Parts("store.Start")) =
                  IF config.postgres
                  THEN {<<"conn", "sql">>, <<"service", "store">>} ELSE {}
           /\ Range(Parts("gateway.Start")) =
                  {<<"conn", "gateway">>, <<"sync", "gateway">>} \cup
                  (IF config.stream THEN {<<"listener", "redis">>} ELSE {})
           /\ Range(Parts("xds.Start")) =
                  {<<"conn", "xds">>, <<"service", "xds">>, <<"sync", "xds">>}
           /\ Range(Parts("worker.Start")) =
                  {<<"conn", "worker">>, <<"worker", "temporal">>,
                   <<"sync", "worker">>}
           /\ Range(Parts("grpc.Start")) =
                  IF config.reflection THEN {<<"service", "reflection">>}
                  ELSE {}
           /\ Range(Parts("http.Start")) = {<<"server", "http">>}
           /\ Parts("aws.Initialize") = <<>>
           /\ Parts("gateway.Initialize") = <<>>
  <1>1. Range(StoreStart) =
            IF config.postgres THEN {<<"conn", "sql">>, <<"service", "store">>}
            ELSE {}
    <2> DEFINE x == <<"conn", "sql">>
               y == <<"service", "store">>
    <2>1. StoreStart = IF config.postgres THEN <<x>> \o <<y>> ELSE <<>>
      BY DEF StoreStart, SqlClientStart, StoreInitialize
    <2> HIDE DEF x, y
    <2>2. Range(StoreStart) = IF config.postgres THEN {x, y} ELSE {}
      BY <2>1, RangeOfTwo, RangeOfTuples
    <2> QED
      BY <2>2 DEF x, y
  <1>2. Range(GatewayStart) =
            {<<"conn", "gateway">>, <<"sync", "gateway">>} \cup
            (IF config.stream THEN {<<"listener", "redis">>} ELSE {})
    <2> DEFINE x == <<"conn", "gateway">>
               y == <<"sync", "gateway">>
               z == <<"listener", "redis">>
    <2>1. GatewayStart = (<<x>> \o <<y>>) \o
                             (IF config.stream THEN <<z>> ELSE <<>>)
      BY DEF GatewayStart, GrpcClientStart, RedisListen
    <2> HIDE DEF x, y, z
    <2> DEFINE t == IF config.stream THEN <<z>> ELSE <<>>
    <2>2. GatewayStart = (<<x>> \o <<y>>) \o t
      BY <2>1
    <2>3. t \in Seq({z}) /\ Range(t) = IF config.stream THEN {z} ELSE {}
      <3>1. CASE config.stream
        BY <3>1, RangeOfTuples
      <3>2. CASE ~config.stream
        BY <3>2, RangeOfTuples
      <3> QED
        BY <3>1, <3>2
    <2> HIDE DEF t
    <2>4. Range((<<x>> \o <<y>>) \o t) = {x, y} \cup Range(t)
      BY <2>3, RangeOfTwoAnd
    <2>5. Range(GatewayStart) = {x, y} \cup (IF config.stream THEN {z} ELSE {})
      BY <2>2, <2>3, <2>4
    <2> QED
      BY <2>5 DEF x, y, z
  <1>3. Range(XdsStart) =
            {<<"conn", "xds">>, <<"service", "xds">>, <<"sync", "xds">>}
    <2> DEFINE x == <<"conn", "xds">>
               y == <<"service", "xds">>
               z == <<"sync", "xds">>
    <2>1. XdsStart = <<x>> \o <<y, z>>
      BY DEF XdsStart, GrpcClientStart
    <2> HIDE DEF x, y, z
    <2>2. Range(XdsStart) = {x, y, z}
      BY <2>1, RangeOfOneAndTwo
    <2> QED
      BY <2>2 DEF x, y, z
  <1>4. Range(WorkerStart) =
            {<<"conn", "worker">>, <<"worker", "temporal">>,
             <<"sync", "worker">>}
    <2> DEFINE x == <<"conn", "worker">>
               y == <<"worker", "temporal">>
               z == <<"sync", "worker">>
    <2>1. WorkerStart = (<<x>> \o <<y>>) \o <<z>>
      BY DEF WorkerStart, GrpcClientStart, TemporalWorkerStart
    <2> HIDE DEF x, y, z
    <2> DEFINE t == <<z>>
    <2>2. t \in Seq({z}) /\ Range(t) = {z}
      BY RangeOfTuples
    <2> HIDE DEF t
    <2>3. Range((<<x>> \o <<y>>) \o t) = {x, y} \cup Range(t)
      BY <2>2, RangeOfTwoAnd
    <2>4. Range(WorkerStart) = {x, y, z}
      BY <2>1, <2>2, <2>3 DEF t
    <2> QED
      BY <2>4 DEF x, y, z
  <1> QED
    BY <1>1, <1>2, <1>3, <1>4, RangeOfTuples
       DEF Parts, GrpcInitialize, GetTemporalClient, GrpcStart

\* What a step of main leaves behind has a deferred call, unless it is a server
\* or a service of one; only http.Start starts the HTTP server.
LEMMA StepFacts ==
    ASSUME config \in Configs, NEW s \in Range(Program)
    PROVE  /\ s # "http.Start" => <<"server", "http">> \notin Range(Parts(s))
           /\ \A p \in Range(Parts(s)) :
                  \/ p[1] \in {"server", "service"}
                  \/ p = <<"conn", "temporal">> /\ s = "temporal.Dial"
                  \/ p = <<"conn", "sql">> /\ s = "store.Start"
                  \/ s \in {"gateway.Start", "xds.Start", "worker.Start"}
           /\ s = "gateway.Start" => <<"sync", "gateway">> \in Range(Parts(s))
           /\ s = "xds.Start" => <<"sync", "xds">> \in Range(Parts(s))
           /\ s = "worker.Start" => <<"sync", "worker">> \in Range(Parts(s))
  <1>1. s \in {"aws.Initialize", "gateway.Initialize", "grpc.Initialize",
               "temporal.Dial", "store.Start", "gateway.Start", "xds.Start",
               "worker.Start", "grpc.Start", "http.Start"}
    BY DEF Range, Program
  <1>2. CASE s \in {"aws.Initialize", "gateway.Initialize"}
    BY <1>2, PartsOfSteps, RangeOfTuples
  <1>3. CASE s \in {"grpc.Initialize", "temporal.Dial", "http.Start"}
    BY <1>3, PartsOfSteps
  <1>4. CASE s \in {"store.Start", "grpc.Start"}
    BY <1>4, PartsOfSteps
  <1>5. CASE s = "gateway.Start"
    BY <1>5, PartsOfSteps
  <1>6. CASE s \in {"xds.Start", "worker.Start"}
    BY <1>6, PartsOfSteps
  <1> QED
    BY <1>1, <1>2, <1>3, <1>4, <1>5, <1>6

\* The start of a sequence of parts has no others.
LEMMA RangeOfStart ==
    ASSUME NEW S, NEW t \in Seq(S), NEW k \in Nat, k <= Len(t)
    PROVE  Range(SubSeq(t, 1, k)) \subseteq Range(t)
  <1>1. Len(t) \in Nat /\ Range(t) = {t[i] : i \in 1..Len(t)}
    BY RangeEquality
  <1>2. \A i \in 1..k : t[i] \in Range(t)
    BY <1>1
  <1>3. SubSeq(t, 1, k) \in Seq(Range(t))
    BY <1>2, SubSeqProperties
  <1> QED
    BY <1>3, RangeOfSeq

\* A step that brings up one part and another has two at least.
LEMMA LenOfTwoAnd ==
    ASSUME NEW p, NEW q, NEW S, NEW t \in Seq(S)
    PROVE  /\ (<<p>> \o <<q>>) \o t \in Seq(S \cup {p, q})
           /\ Len((<<p>> \o <<q>>) \o t) >= 2
  <1> DEFINE T == S \cup {p, q}
             a == <<p>>
             b == <<q>>
  <1>1. t \in Seq(T)
    BY SeqMonotonic
  <1>2. /\ a \in Seq(T) /\ b \in Seq(T)
        /\ Len(a) = 1 /\ Len(b) = 1 /\ Len(t) \in Nat
    OBVIOUS
  <1> HIDE DEF a, b, T
  <1> DEFINE ab == a \o b
  <1>3. ab \in Seq(T) /\ Len(ab) = Len(a) + Len(b)
    BY <1>2, ConcatProperties
  <1> HIDE DEF ab
  <1>4. ab \o t \in Seq(T) /\ Len(ab \o t) = Len(ab) + Len(t)
    BY <1>1, <1>3, ConcatProperties
  <1>5. ab \o t \in Seq(T) /\ Len(ab \o t) >= 2
    BY <1>2, <1>3, <1>4
  <1> QED
    BY <1>5 DEF ab, a, b, T

\* A panic leaves at most the parts of its step behind, and never the HTTP
\* server.
LEMMA PanicParts ==
    ASSUME config \in Configs, NEW s \in Range(Program), NEW k \in PanicsAfter(s)
    PROVE  <<"server", "http">> \notin Range(SubSeq(Parts(s), 1, k))
  <1>1. CASE k = 0
    <2>1. SubSeq(Parts(s), 1, k) = <<>>
      BY <1>1, SubSeqEmpty
    <2> QED
      BY <2>1, RangeOfTuples
  <1>2. CASE k # 0
    <2>1. \/ s = "store.Start" /\ config.postgres /\ k = 1
          \/ s = "gateway.Start" /\ config.stream /\ k = 2
          \/ s = "worker.Start" /\ k = 1
      BY <1>2 DEF PanicsAfter
    <2>2. \E S : /\ Parts(s) \in Seq(S)
                 /\ k \in Nat /\ k <= Len(Parts(s))
      <3>1. CASE s = "store.Start" /\ config.postgres /\ k = 1
        <4> DEFINE x == <<"conn", "sql">>
                   y == <<"service", "store">>
        <4>1. Parts(s) = <<x>> \o <<y>>
          BY <3>1 DEF Parts, StoreStart, SqlClientStart, StoreInitialize
        <4> HIDE DEF x, y
        <4> DEFINE a == <<x>>
                   b == <<y>>
                   T == {x, y}
        <4>2. a \in Seq(T) /\ b \in Seq(T) /\ Len(a) = 1 /\ Len(b) = 1
          OBVIOUS
        <4> HIDE DEF a, b, T
        <4>3. a \o b \in Seq(T) /\ Len(a \o b) = Len(a) + Len(b)
          BY <4>2, ConcatProperties
        <4>4. Parts(s) \in Seq(T) /\ k <= Len(Parts(s))
          BY <4>1, <4>2, <4>3, <3>1 DEF a, b
        <4> QED
          BY <4>4, <3>1
      <3>2. CASE s = "gateway.Start" /\ config.stream /\ k = 2
        <4> DEFINE x == <<"conn", "gateway">>
                   y == <<"sync", "gateway">>
                   z == <<"listener", "redis">>
                   t == <<z>>
        <4>1. Parts(s) = (<<x>> \o <<y>>) \o t
          BY <3>2 DEF Parts, GatewayStart, GrpcClientStart, RedisListen
        <4>2. t \in Seq({z})
          OBVIOUS
        <4> HIDE DEF x, y, z, t
        <4>3. /\ (<<x>> \o <<y>>) \o t \in Seq({z} \cup {x, y})
              /\ Len((<<x>> \o <<y>>) \o t) >= 2
          BY <4>2, LenOfTwoAnd
        <4> QED
          BY <4>1, <4>3, <3>2
      <3>3. CASE s = "worker.Start" /\ k = 1
        <4> DEFINE x == <<"conn", "worker">>
                   y == <<"worker", "temporal">>
                   z == <<"sync", "worker">>
                   t == <<z>>
        <4>1. Parts(s) = (<<x>> \o <<y>>) \o t
          BY <3>3 DEF Parts, WorkerStart, GrpcClientStart, TemporalWorkerStart
        <4>2. t \in Seq({z})
          OBVIOUS
        <4> HIDE DEF x, y, z, t
        <4>3. /\ (<<x>> \o <<y>>) \o t \in Seq({z} \cup {x, y})
              /\ Len((<<x>> \o <<y>>) \o t) >= 2
          BY <4>2, LenOfTwoAnd
        <4> DEFINE u == (<<x>> \o <<y>>) \o t
        <4>4. u \in Seq({z} \cup {x, y}) /\ Len(u) >= 2
          BY <4>3
        <4> HIDE DEF u
        <4>5. Len(u) \in Nat /\ 1 <= Len(u)
          BY <4>4
        <4> QED
          BY <4>1, <4>4, <4>5, <3>3 DEF u
      <3> QED
        BY <2>1, <3>1, <3>2, <3>3
    <2>3. Range(SubSeq(Parts(s), 1, k)) \subseteq Range(Parts(s))
      BY <2>2, RangeOfStart
    <2> QED
      BY <2>1, <2>3, StepFacts
  <1> QED
    BY <1>1, <1>2

-----------------------------------------------------------------------------
(* The stack of deferred calls *)

\* A deferred call is put first.
LEMMA PushCall ==
    ASSUME NEW d \in Seq(Calls), NEW c \in Calls
    PROVE  /\ <<c>> \o d \in Seq(Calls)
           /\ <<c>> \o d # <<>> /\ (<<c>> \o d)[1] = c
           /\ Tail(<<c>> \o d) = d
           /\ Range(<<c>> \o d) = {c} \cup Range(d)
  <1> DEFINE a == <<c>>
             e == a \o d
  <1>1. a \in Seq(Calls) /\ Len(a) = 1 /\ a[1] = c
    OBVIOUS
  <1>2. Range(a) = {c}
    BY RangeOfTuples
  <1> HIDE DEF a
  <1>3. /\ e \in Seq(Calls) /\ Len(e) = 1 + Len(d)
        /\ \A i \in 1..(1 + Len(d)) : e[i] = IF i <= 1 THEN a[i] ELSE d[i - 1]
    <2>1. /\ e \in Seq(Calls) /\ Len(e) = Len(a) + Len(d)
          /\ \A i \in 1..(Len(a) + Len(d)) :
                 e[i] = IF i <= Len(a) THEN a[i] ELSE d[i - Len(a)]
      BY <1>1, ConcatProperties
    <2> QED
      BY <1>1, <2>1
  <1>4. Range(e) = {c} \cup Range(d)
    BY <1>1, <1>2, RangeOfJoin
  <1> HIDE DEF e
  <1>5. e # <<>> /\ e[1] = c
    BY <1>1, <1>3
  <1>6. Tail(e) = d
    <2>1. Tail(e) \in Seq(Calls) /\ Len(Tail(e)) = Len(d)
      BY <1>3, <1>5
    <2>2. \A i \in 1..Len(d) : Tail(e)[i] = d[i]
      BY <1>3, <1>5, HeadTailProperties
    <2> QED
      BY <2>1, <2>2, SeqEqual
  <1>7. /\ e \in Seq(Calls) /\ e # <<>> /\ e[1] = c /\ Tail(e) = d
        /\ Range(e) = {c} \cup Range(d)
    BY <1>3, <1>4, <1>5, <1>6
  <1> QED
    BY <1>7 DEF e, a

\* A deferred call that returns makes way for the next one.
LEMMA PopCall ==
    ASSUME NEW d \in Seq(Calls), d # <<>>
    PROVE  /\ Tail(d) \in Seq(Calls)
           /\ Range(d) = {d[1]} \cup Range(Tail(d))
           /\ Tail(d) # <<>> => Range(Tail(Tail(d))) \subseteq Range(Tail(d))
           /\ Tail(d) # <<>> => Tail(d)[1] \in Range(Tail(d))
  <1>1. ASSUME NEW e \in Seq(Calls), e # <<>>
        PROVE  /\ Tail(e) \in Seq(Calls)
               /\ Range(e) = {e[1]} \cup Range(Tail(e))
    <2>1. /\ Tail(e) \in Seq(Calls) /\ Len(Tail(e)) = Len(e) - 1
          /\ \A i \in 1..Len(Tail(e)) : Tail(e)[i] = e[i + 1]
      BY <1>1, HeadTailProperties
    <2>2. Range(e) = {e[i] : i \in 1..Len(e)}
      BY <1>1, RangeEquality
    <2>3. Range(Tail(e)) = {Tail(e)[i] : i \in 1..Len(Tail(e))}
      BY <2>1, RangeEquality
    <2>4. Len(e) \in Nat /\ Len(e) >= 1
      BY <1>1
    <2>5. ASSUME NEW x \in Range(e) PROVE x \in {e[1]} \cup Range(Tail(e))
      <3>1. PICK i \in 1..Len(e) : x = e[i]
        BY <2>2
      <3>2. CASE i = 1
        BY <3>1, <3>2
      <3>3. CASE i # 1
        <4>1. i - 1 \in 1..Len(Tail(e)) /\ Tail(e)[i - 1] = e[i]
          BY <2>1, <2>4, <3>3
        <4> QED
          BY <2>3, <3>1, <4>1
      <3> QED
        BY <3>2, <3>3
    <2>6. ASSUME NEW x \in Range(Tail(e)) PROVE x \in Range(e)
      <3>1. PICK i \in 1..Len(Tail(e)) : x = Tail(e)[i]
        BY <2>3
      <3>2. i + 1 \in 1..Len(e) /\ x = e[i + 1]
        BY <2>1, <2>4, <3>1
      <3> QED
        BY <2>2, <3>2
    <2>7. e[1] \in Range(e)
      BY <2>2, <2>4
    <2> QED
      BY <2>1, <2>5, <2>6, <2>7
  <1>2. Tail(d) \in Seq(Calls) /\ Range(d) = {d[1]} \cup Range(Tail(d))
    BY <1>1
  <1>3. Tail(d) # <<>> => Range(Tail(d)) = {Tail(d)[1]} \cup Range(Tail(Tail(d)))
    BY <1>1, <1>2
  <1> QED
    BY <1>2, <1>3

\* What main defers after a step.
LEMMA DeferredFacts ==
    ASSUME NEW s \in Range(Program), NEW d \in Seq(Calls)
    PROVE  LET c == CASE s = "temporal.Dial" -> "temporal.Close"
                      [] s = "store.Start" -> "store.Stop"
                      [] s = "gateway.Start" -> "gateway.Stop"
                      [] s = "xds.Start" -> "xds.Stop"
                      [] s = "worker.Start" -> "worker.Stop"
                      [] s = "grpc.Start" -> "grpc.Start"
                      [] s = "http.Start" -> "http.Stop"
                      [] OTHER -> "none"
           IN  /\ Deferred(s) \o d \in Seq(Calls)
               /\ Range(Deferred(s) \o d) =
                      Range(d) \cup ({c} \ {"none"})
               /\ c # "none" => /\ Deferred(s) \o d # <<>>
                                /\ (Deferred(s) \o d)[1] = c
                                /\ Tail(Deferred(s) \o d) = d
               /\ c = "none" => Deferred(s) \o d = d
  <1>1. s \in {"aws.Initialize", "gateway.Initialize", "grpc.Initialize",
               "temporal.Dial", "store.Start", "gateway.Start", "xds.Start",
               "worker.Start", "grpc.Start", "http.Start"}
    BY DEF Range, Program
  <1>2. CASE s \in {"aws.Initialize", "gateway.Initialize", "grpc.Initialize"}
    <2>1. Deferred(s) = <<>>
      BY <1>2 DEF Deferred
    <2>2. <<>> \o d = d
      BY ConcatEmptySeq
    <2> QED
      BY <1>2, <2>1, <2>2
  <1>3. ASSUME NEW c \in Calls, Deferred(s) = <<c>>
        PROVE  /\ Deferred(s) \o d \in Seq(Calls)
               /\ Range(Deferred(s) \o d) = {c} \cup Range(d)
               /\ Deferred(s) \o d # <<>> /\ (Deferred(s) \o d)[1] = c
               /\ Tail(Deferred(s) \o d) = d
    BY <1>3, PushCall
  <1>4. CASE s = "temporal.Dial"
    BY <1>4, <1>3 DEF Deferred, Calls
  <1>5. CASE s = "store.Start"
    BY <1>5, <1>3 DEF Deferred, Calls
  <1>6. CASE s = "gateway.Start"
    BY <1>6, <1>3 DEF Deferred, Calls
  <1>7. CASE s = "xds.Start"
    BY <1>7, <1>3 DEF Deferred, Calls
  <1>8. CASE s = "worker.Start"
    BY <1>8, <1>3 DEF Deferred, Calls
  <1>9. CASE s = "grpc.Start"
    BY <1>9, <1>3 DEF Deferred, Calls
  <1>10. CASE s = "http.Start"
    BY <1>10, <1>3 DEF Deferred, Calls
  <1> QED
    BY <1>1, <1>2, <1>4, <1>5, <1>6, <1>7, <1>8, <1>9, <1>10

-----------------------------------------------------------------------------
(* Each step keeps the invariant *)

\* A process starts with nothing up and nothing deferred.
LEMMA ProcessInit == Init => ProcessInv
  <1> SUFFICES ASSUME Init PROVE ProcessInv
    OBVIOUS
  <1>1. TypeOK
    <2>1. MaxInFlight \in Nat /\ MaxFaults \in Nat
      BY ProcessAssumption
    <2>2. inFlight \in 0..MaxInFlight /\ faults \in 0..MaxFaults
      BY <2>1 DEF Init
    <2>3. step \in 1..(Len(Program) + 1)
      BY ProgramSteps DEF Init
    <2> QED
      BY <2>2, <2>3 DEF Init, TypeOK
  <1>2. defers \in Seq(Calls) /\ Range(defers) = {}
    BY RangeOfTuples DEF Init
  <1>3. StartedInOrder /\ HttpOnTop
    BY <1>2 DEF Init, StartedInOrder, HttpOnTop
  <1>4. StepsAreUp /\ StoreIsOpen /\ ServerIsStopped
    BY DEF Init, StepsAreUp, StoreIsOpen, ServerIsStopped
  <1>5. SyncedIsUp /\ AllIsDeferred /\ ReturnsAtEnd /\ CertificateMatchesKey
    BY <1>2 DEF Init, SyncedIsUp, AllIsDeferred, ReturnsAtEnd,
       CertificateMatchesKey
  <1> QED
    BY <1>1, <1>2, <1>3, <1>4, <1>5 DEF ProcessInv

\* The configuration does not change, nor what depends on it.
LEMMA SameConfig ==
    ASSUME UNCHANGED config
    PROVE  \A s : Needs(s)' = Needs(s) /\ Parts(s)' = Parts(s)
  BY DEF Needs, Parts, StoreStart, GatewayStart, RedisListen, GrpcStart

\* What the certificate depends on is set by Listen alone.
LEMMA SameCertificate ==
    ASSUME CertificateMatchesKey, UNCHANGED <<config, tls>>
    PROVE  CertificateMatchesKey'
  BY DEF CertificateMatchesKey

\* A step that is not needed is passed.
LEMMA SkipStep ==
    ASSUME ProcessInv, Skip
    PROVE  ProcessInv'
  <1> USE DEF Skip
  <1>1. TypeOK'
    BY ProgramSteps DEF ProcessInv, TypeOK
  <1>2. defers' \in Seq(Calls) /\ CertificateMatchesKey'
    BY SameCertificate DEF ProcessInv
  <1>3. StartedInOrder' /\ HttpOnTop'
    BY ProgramSteps DEF ProcessInv, TypeOK, StartedInOrder, HttpOnTop
  <1>4. StepsAreUp'
    <2> SUFFICES ASSUME NEW n \in 1..Len(Program), n < step', Needs(Program[n])
                 PROVE  Range(Parts(Program[n])) \ Closable \subseteq up
      BY SameConfig DEF StepsAreUp
    <2>1. n < step
      BY ProgramSteps DEF ProcessInv, TypeOK
    <2> QED
      BY <2>1 DEF ProcessInv, StepsAreUp
  <1>5. StoreIsOpen'
    BY SameConfig, ProgramSteps DEF ProcessInv, TypeOK, StoreIsOpen, HttpFirst
  <1>6. ServerIsStopped' /\ SyncedIsUp'
    BY DEF ProcessInv, ServerIsStopped, HttpFirst, SyncedIsUp
  <1>7. AllIsDeferred' /\ ReturnsAtEnd'
    BY DEF ProcessInv, AllIsDeferred, SyncPending, ReturnsAtEnd
  <1> QED
    BY <1>1, <1>2, <1>3, <1>4, <1>5, <1>6, <1>7 DEF ProcessInv

\* A step brings up its parts and defers their stop.
LEMMA StartStep ==
    ASSUME ProcessInv, NEW s \in Range(Program), Start(s)
    PROVE  ProcessInv'
  <1>1. /\ config \in Configs /\ mode = "starting" /\ step \in 1..10
        /\ Program[step] = s /\ Needs(s) /\ s # "http.Start"
        /\ step' = step + 1 /\ up' = up \cup Range(Parts(s))
        /\ defers' = Deferred(s) \o defers
        /\ UNCHANGED <<config, mode, stopping, cancelled, serve, tls, inFlight,
                       forced, faults>>
    BY ProgramSteps DEF Start, At, ProcessInv, TypeOK
  <1>2. step # 10 /\ serve = "none"
    BY <1>1, ProgramSteps DEF ProcessInv, StartedInOrder
  <1>3. /\ defers' \in Seq(Calls)
        /\ Range(defers) \subseteq Range(defers')
        /\ \A c \in Range(defers') \ Range(defers) :
               /\ c # "http.Stop"
               /\ c = "gateway.Stop" => s = "gateway.Start"
               /\ c = "xds.Stop" => s = "xds.Start"
               /\ c = "worker.Stop" => s = "worker.Start"
        /\ s = "temporal.Dial" => "temporal.Close" \in Range(defers')
        /\ s = "store.Start" => "store.Stop" \in Range(defers')
        /\ s = "gateway.Start" => "gateway.Stop" \in Range(defers')
        /\ s = "xds.Start" => "xds.Stop" \in Range(defers')
        /\ s = "worker.Start" => "worker.Stop" \in Range(defers')
    BY <1>1, DeferredFacts DEF ProcessInv
  <1>4. /\ "http.Stop" \notin Range(defers')
        /\ "http.Stop" \notin Range(defers)
    BY <1>2, <1>3 DEF ProcessInv, HttpOnTop
  <1>5. ~HttpFirst /\ ~HttpFirst'
    <2>1. \A d \in Seq(Calls) : d # <<>> => d[1] \in Range(d)
      BY PopCall
    <2> QED
      BY <2>1, <1>3, <1>4 DEF HttpFirst, ProcessInv
  <1>6. TypeOK'
    BY <1>1, <1>2, ProgramSteps DEF ProcessInv, TypeOK
  <1>7. StartedInOrder'
    BY <1>1, <1>2 DEF StartedInOrder
  <1>8. HttpOnTop'
    BY <1>3, <1>4, PopCall DEF HttpOnTop
  <1>9. StepsAreUp'
    <2> SUFFICES ASSUME NEW n \in 1..Len(Program), n < step', Needs(Program[n])
                 PROVE  Range(Parts(Program[n])) \ Closable \subseteq up'
      BY <1>1, SameConfig DEF StepsAreUp
    <2>1. CASE n = step
      BY <2>1, <1>1
    <2>2. CASE n < step
      BY <2>2, <1>1 DEF ProcessInv, StepsAreUp
    <2> QED
      BY <2>1, <2>2, <1>1, ProgramSteps
  <1>10. StoreIsOpen'
    <2> SUFFICES ASSUME 5 < step', Needs("store.Start"), config.postgres
                 PROVE  <<"conn", "sql">> \in up'
      BY <1>1, SameConfig DEF StoreIsOpen
    <2>1. CASE step = 5
      BY <2>1, <1>1, ProgramSteps, PartsOfSteps
    <2>2. CASE step > 5
      BY <2>2, <1>1 DEF ProcessInv, StoreIsOpen
    <2> QED
      BY <2>1, <2>2, <1>1
  <1>11. ServerIsStopped'
    BY <1>1, <1>2, <1>5, StepFacts DEF ProcessInv, ServerIsStopped
  <1>12. SyncedIsUp'
    <2> SUFFICES ASSUME NEW f \in Synced, Features[f] \in Range(defers')
                 PROVE  <<"sync", f>> \in up'
      BY DEF SyncedIsUp
    <2>1. CASE Features[f] \in Range(defers)
      BY <2>1, <1>1 DEF ProcessInv, SyncedIsUp
    <2>2. CASE Features[f] \notin Range(defers)
      BY <2>2, <1>1, <1>3, StepFacts DEF Synced, Features
    <2> QED
      BY <2>1, <2>2
  <1>13. AllIsDeferred'
    <2> SUFFICES ASSUME NEW p \in up'
                 PROVE  \/ p[1] \in {"server", "service"}
                        \/ /\ p = <<"conn", "temporal">>
                           /\ "temporal.Close" \in Range(defers')
                        \/ /\ p = <<"conn", "sql">>
                           /\ "store.Stop" \in Range(defers')
                        \/ SyncPending'
      BY DEF AllIsDeferred
    <2>1. SyncPending => SyncPending'
      BY <1>3 DEF SyncPending
    <2>2. CASE p \in up
      BY <2>1, <2>2, <1>1, <1>3 DEF ProcessInv, AllIsDeferred
    <2>3. CASE p \in Range(Parts(s))
      <3>1. s \in {"gateway.Start", "xds.Start", "worker.Start"} => SyncPending'
        BY <1>3 DEF SyncPending, Synced, Features
      <3> QED
        BY <2>3, <3>1, <1>1, <1>3, StepFacts
    <2> QED
      BY <2>2, <2>3, <1>1
  <1>14. ReturnsAtEnd' /\ CertificateMatchesKey'
    BY <1>1, SameCertificate DEF ReturnsAtEnd, ProcessInv
  <1> QED
    BY <1>3, <1>6, <1>7, <1>8, <1>9, <1>10, <1>11, <1>12, <1>13, <1>14
       DEF ProcessInv

\* After a panic only the calls deferred so far are run.
LEMMA PanicStep ==
    ASSUME ProcessInv, NEW s \in Range(Program), NEW k \in 0..2, Panic(s, k)
    PROVE  ProcessInv'
  <1>1. /\ config \in Configs /\ mode = "starting" /\ mode' = "panicking"
        /\ k \in PanicsAfter(s) /\ faults' = faults + 1 /\ faults < MaxFaults
        /\ up' = up \cup Range(SubSeq(Parts(s), 1, k))
        /\ UNCHANGED <<config, step, defers, stopping, cancelled, serve, tls,
                       inFlight, forced>>
    BY DEF Panic, At, ProcessInv, TypeOK
  <1>2. up \subseteq up' /\ (<<"server", "http">> \in up' =>
                                 <<"server", "http">> \in up)
    BY <1>1, PanicParts
  <1>3. TypeOK'
    BY <1>1, <1>2, ProcessAssumption DEF ProcessInv, TypeOK
  <1>4. StartedInOrder' /\ HttpOnTop' /\ AllIsDeferred' /\ ReturnsAtEnd'
    BY <1>1 DEF ProcessInv, StartedInOrder, HttpOnTop, AllIsDeferred,
       ReturnsAtEnd
  <1>5. StepsAreUp'
    BY <1>1, <1>2, SameConfig DEF ProcessInv, StepsAreUp
  <1>6. StoreIsOpen'
    BY <1>1, <1>2, SameConfig DEF ProcessInv, StoreIsOpen, HttpFirst
  <1>7. ServerIsStopped' /\ SyncedIsUp'
    BY <1>1, <1>2 DEF ProcessInv, ServerIsStopped, HttpFirst, SyncedIsUp
  <1>8. CertificateMatchesKey' /\ defers' \in Seq(Calls)
    BY <1>1, SameCertificate DEF ProcessInv
  <1> QED
    BY <1>3, <1>4, <1>5, <1>6, <1>7, <1>8 DEF ProcessInv

\* The certificate that the HTTP server builds is the one of its key, or comes
\* from a file.
LEMMA BuildMatches ==
    ASSUME NEW certsFile, NEW keysFile, NEW rootsFile
    PROVE  LET c == BuildConfig(certsFile, keysFile, rootsFile).certificate
           IN  \/ c.leaf = c.privateKey
               \/ /\ BuildCertificates(certsFile) # <<>>
                  /\ \/ BuildPrivateKeys(keysFile) = <<>>
                     \/ BuildPrivateKeys(keysFile)[1].key #
                            BuildCertificates(certsFile)[1].key
  <1> DEFINE certs == BuildCertificates(certsFile)
             keys == BuildPrivateKeys(keysFile)
             c == Build(certsFile, keysFile)
  <1>1. BuildConfig(certsFile, keysFile, rootsFile).certificate = c
    BY DEF BuildConfig
  <1>2. c.privateKey = IF keys # <<>> THEN keys[1].key ELSE Generated[1]
    BY DEF Build, BuildDefaultRSAPrivateKey
  <1>3. c.leaf = IF certs # <<>> THEN certs[1].key
                 ELSE IF keys # <<>> THEN keys[1].key ELSE Generated[1]
    BY DEF Build, BuildDefaultRSAPrivateKey, BuildDefaultCertificate
  <1> HIDE DEF certs, keys, c
  <1>4. \/ c.leaf = c.privateKey
        \/ certs # <<>> /\ (keys = <<>> \/ keys[1].key # certs[1].key)
    BY <1>2, <1>3
  <1> QED
    BY <1>1, <1>4 DEF certs, keys

\* HttpServer.Start, the last step of main.
LEMMA ListenStep ==
    ASSUME ProcessInv, Listen
    PROVE  ProcessInv'
  <1>1. /\ config \in Configs /\ mode = "starting" /\ step = 10 /\ step' = 11
        /\ Needs("http.Start") /\ serve = "none" /\ defers \in Seq(Calls)
        /\ UNCHANGED <<config, stopping, cancelled, inFlight, forced, faults>>
    <2>1. /\ mode = "starting" /\ step \in 1..10
          /\ Program[step] = "http.Start" /\ step' = step + 1
      BY ProgramSteps DEF Listen, At, ProcessInv, TypeOK
    <2>2. step = 10
      BY <2>1, ProgramSteps
    <2> QED
      BY <2>1, <2>2, ProgramSteps
         DEF Listen, ProcessInv, TypeOK, StartedInOrder
  <1>2. "http.Stop" \notin Range(defers) /\ ~HttpFirst
    <2>1. "http.Stop" \notin Range(defers)
      BY <1>1 DEF ProcessInv, HttpOnTop
    <2> QED
      BY <2>1, <1>1, PopCall DEF HttpFirst
  <1>3. inFlight > 0 => forced
    BY <1>2 DEF ProcessInv, ServerIsStopped
  <1>4. CASE mode' = "panicking" /\ UNCHANGED <<up, serve, tls, defers>>
    <2>1. TypeOK'
      BY <1>1, <1>4, ProgramSteps DEF ProcessInv, TypeOK
    <2>2. StartedInOrder' /\ HttpOnTop' /\ AllIsDeferred' /\ ReturnsAtEnd'
      BY <1>1, <1>4, ProgramSteps DEF ProcessInv, StartedInOrder, HttpOnTop,
         AllIsDeferred, ReturnsAtEnd
    <2>3. ~HttpFirst'
      BY <1>2, <1>4 DEF HttpFirst
    <2>4. StepsAreUp'
      <3> SUFFICES ASSUME NEW n \in 1..Len(Program), n < step', Needs(Program[n])
                   PROVE  Range(Parts(Program[n])) \ Closable \subseteq up
        BY <1>1, <1>4, SameConfig DEF StepsAreUp
      <3>1. CASE n < step
        BY <3>1 DEF ProcessInv, StepsAreUp
      <3>2. CASE n = 10
        BY <3>2, <1>1, ProgramSteps, PartsOfSteps DEF Closable
      <3> QED
        BY <3>1, <3>2, <1>1, ProgramSteps
    <2>5. StoreIsOpen'
      BY <2>3, <1>4 DEF StoreIsOpen
    <2>6. ServerIsStopped' /\ SyncedIsUp'
      BY <1>1, <1>2, <1>4 DEF ProcessInv, ServerIsStopped, SyncedIsUp, HttpFirst
    <2>7. CertificateMatchesKey' /\ defers' \in Seq(Calls)
      BY <1>1, <1>4, SameCertificate DEF ProcessInv
    <2> QED
      BY <2>1, <2>2, <2>4, <2>5, <2>6, <2>7 DEF ProcessInv
  <1>5. CASE /\ up' = up \cup Range(Parts("http.Start"))
             /\ serve' = "running" /\ mode' = mode
             /\ tls' = IF config.disableTls THEN [certificate |-> None] ELSE
                       BuildConfig(config.certsFile, config.keysFile,
                                   config.rootsFile)
             /\ defers' = Deferred("http.Start") \o defers
    <2>1. up' = up \cup {<<"server", "http">>}
      BY <1>1, <1>5, PartsOfSteps
    <2>2. /\ defers' \in Seq(Calls) /\ defers' # <<>>
          /\ defers'[1] = "http.Stop" /\ Tail(defers') = defers
          /\ Range(defers') = {"http.Stop"} \cup Range(defers)
      BY <1>1, <1>5, PushCall DEF Deferred, Calls
    <2>3. HttpFirst'
      BY <2>2 DEF HttpFirst
    <2>4. stopping = None /\ None # "joining"
      BY <1>2, ProcessAssumption DEF ProcessInv, ServerIsStopped
    <2>5. tls' # None
      BY <1>1, <1>5, ProcessAssumption
    <2>6. TypeOK'
      BY <1>1, <1>5, <2>1, <2>5, ProgramSteps DEF ProcessInv, TypeOK
    <2>7. StartedInOrder' /\ HttpOnTop' /\ ReturnsAtEnd'
      <3>1. StartedInOrder' /\ ReturnsAtEnd'
        BY <1>1, <1>5, ProgramSteps DEF StartedInOrder, ReturnsAtEnd
      <3>2. "http.Stop" \notin Range(Tail(defers'))
        BY <1>2, <2>2
      <3>3. HttpOnTop'
        BY <3>2, <1>5 DEF HttpOnTop
      <3> QED
        BY <3>1, <3>3
    <2>8. StepsAreUp'
      <3> SUFFICES ASSUME NEW n \in 1..Len(Program), n < step', Needs(Program[n])
                   PROVE  Range(Parts(Program[n])) \ Closable \subseteq up'
        BY <1>1, SameConfig DEF StepsAreUp
      <3>1. CASE n < step
        BY <3>1, <2>1 DEF ProcessInv, StepsAreUp
      <3>2. CASE n = 10
        BY <3>2, <1>1, ProgramSteps, PartsOfSteps DEF Closable
      <3> QED
        BY <3>1, <3>2, <1>1, ProgramSteps
    <2>9. StoreIsOpen'
      BY <1>1, <2>1, SameConfig DEF ProcessInv, StoreIsOpen
    <2>10. ServerIsStopped'
      BY <1>1, <2>3, <2>4 DEF ServerIsStopped
    <2>11. SyncedIsUp'
      BY <2>1, <2>2 DEF ProcessInv, SyncedIsUp, Synced, Features
    <2>12. AllIsDeferred'
      BY <1>1, <1>5, <2>1, <2>2 DEF ProcessInv, AllIsDeferred, SyncPending
    <2>13. CertificateMatchesKey'
      <3>1. CASE config.disableTls
        BY <3>1, <1>5 DEF CertificateMatchesKey
      <3>2. CASE ~config.disableTls
        BY <3>2, <1>1, <1>5, BuildMatches DEF CertificateMatchesKey
      <3> QED
        BY <3>1, <3>2
    <2> QED
      BY <2>2, <2>6, <2>7, <2>8, <2>9, <2>10, <2>11, <2>12, <2>13
         DEF ProcessInv
  <1> QED
    BY <1>4, <1>5 DEF Listen

\* The steps that leave alone what has been brought up and what is deferred.
LEMMA QuietStep ==
    ASSUME ProcessInv,
           UNCHANGED <<config, step, defers, up, tls>>,
           TypeOK',
           mode' # mode => /\ mode' \in {"running", "unwinding"} =>
                                  step > Len(Program) /\ mode \in {"starting", "running"}
                           /\ mode' \notin {"starting", "exited"},
           mode' = "running" => mode \in {"starting", "running"},
           serve' # serve => serve # "none" /\ serve' # "none",
           ServerIsStopped'
    PROVE  ProcessInv'
  <1>1. StartedInOrder'
    BY DEF ProcessInv, StartedInOrder
  <1>2. HttpOnTop'
    BY DEF ProcessInv, HttpOnTop
  <1>3. StepsAreUp'
    BY SameConfig DEF ProcessInv, StepsAreUp
  <1>4. StoreIsOpen'
    BY SameConfig DEF ProcessInv, TypeOK, StoreIsOpen, HttpFirst
  <1>5. SyncedIsUp' /\ ReturnsAtEnd'
    BY DEF ProcessInv, SyncedIsUp, ReturnsAtEnd
  <1>6. AllIsDeferred'
    BY DEF ProcessInv, TypeOK, AllIsDeferred, SyncPending
  <1>7. CertificateMatchesKey' /\ defers' \in Seq(Calls)
    BY SameCertificate DEF ProcessInv
  <1> QED
    BY <1>1, <1>2, <1>3, <1>4, <1>5, <1>6, <1>7 DEF ProcessInv

\* The steps of main and of requests that neither start nor stop a part.
LEMMA RunningStep ==
    ASSUME ProcessInv,
           \/ Started \/ Interrupt
           \/ Alive /\ (Request \/ Respond \/ ServeReturns)
           \/ Alive /\ \E f \in Synced : SyncEnds(f)
    PROVE  ProcessInv'
  <1>0. MaxInFlight \in Nat /\ MaxFaults \in Nat /\ None # "joining"
    BY ProcessAssumption
  <1>1. CASE Started
    <2>1. TypeOK'
      BY <1>0, <1>1 DEF ProcessInv, TypeOK, Started
    <2>2. ServerIsStopped'
      BY <1>1 DEF ProcessInv, ServerIsStopped, HttpFirst, Started
    <2> QED
      BY <1>1, <2>1, <2>2, QuietStep DEF Started
  <1>2. CASE Interrupt
    <2>1. TypeOK' /\ step > Len(Program)
      BY <1>2 DEF ProcessInv, TypeOK, StartedInOrder, Interrupt
    <2>2. ServerIsStopped'
      BY <1>2 DEF ProcessInv, ServerIsStopped, HttpFirst, Interrupt
    <2> QED
      BY <1>2, <2>1, <2>2, QuietStep DEF Interrupt
  <1>3. CASE Request
    <2>1. TypeOK'
      BY <1>0, <1>3 DEF ProcessInv, TypeOK, Request
    <2>2. ServerIsStopped'
      BY <1>0, <1>3 DEF ProcessInv, ServerIsStopped, HttpFirst, Request
    <2> QED
      BY <1>3, <2>1, <2>2, QuietStep DEF Request
  <1>4. CASE Respond
    <2>1. TypeOK'
      BY <1>0, <1>4 DEF ProcessInv, TypeOK, Respond
    <2>2. ServerIsStopped'
      BY <1>0, <1>4 DEF ProcessInv, TypeOK, ServerIsStopped, HttpFirst, Respond
    <2> QED
      BY <1>4, <2>1, <2>2, QuietStep DEF Respond
  <1>5. CASE ServeReturns
    <2>1. TypeOK'
      BY <1>5 DEF ProcessInv, TypeOK, ServeReturns
    <2>2. ServerIsStopped'
      BY <1>5 DEF ProcessInv, ServerIsStopped, HttpFirst, ServeReturns
    <2> QED
      BY <1>5, <2>1, <2>2, QuietStep DEF ServeReturns
  <1>6. ASSUME NEW f \in Synced, SyncEnds(f) PROVE ProcessInv'
    <2>1. TypeOK'
      BY <1>0, <1>6 DEF ProcessInv, TypeOK, SyncEnds
    <2>2. ServerIsStopped'
      BY <1>6 DEF ProcessInv, ServerIsStopped, HttpFirst, SyncEnds
    <2> QED
      BY <1>6, <2>1, <2>2, QuietStep DEF SyncEnds
  <1> QED
    BY <1>1, <1>2, <1>3, <1>4, <1>5, <1>6

\* A failed listener is closed, and its goroutine waits for the stop.
LEMMA ServeFailsStep ==
    ASSUME ProcessInv, ServeFails
    PROVE  ProcessInv'
  <1>1. /\ serve = "running" /\ serve' = "sending"
        /\ up' = up \ {<<"server", "http">>} /\ faults' = faults + 1
        /\ faults < MaxFaults /\ MaxFaults \in Nat
        /\ UNCHANGED <<config, mode, step, defers, stopping, cancelled, tls,
                       inFlight, forced>>
    BY ProcessAssumption DEF ServeFails
  <1>2. TypeOK'
    BY <1>1 DEF ProcessInv, TypeOK
  <1>3. StartedInOrder' /\ HttpOnTop' /\ ReturnsAtEnd'
    BY <1>1 DEF ProcessInv, StartedInOrder, HttpOnTop, ReturnsAtEnd
  <1>4. StepsAreUp' /\ StoreIsOpen'
    BY <1>1, SameConfig
       DEF ProcessInv, StepsAreUp, StoreIsOpen, HttpFirst, Closable
  <1>5. ServerIsStopped' /\ SyncedIsUp'
    BY <1>1 DEF ProcessInv, ServerIsStopped, HttpFirst, SyncedIsUp
  <1>6. AllIsDeferred'
    BY <1>1 DEF ProcessInv, AllIsDeferred, SyncPending
  <1>7. CertificateMatchesKey' /\ defers' \in Seq(Calls)
    BY <1>1, SameCertificate DEF ProcessInv
  <1> QED
    BY <1>2, <1>3, <1>4, <1>5, <1>6, <1>7 DEF ProcessInv

\* A deferred call that is not a feature's Stop returns.
LEMMA PopStep ==
    ASSUME ProcessInv, defers # <<>>, defers' = Tail(defers),
           UNCHANGED <<config, mode, step, tls, cancelled, inFlight, forced,
                       faults>>,
           stopping' = None, up' \subseteq up, up \ up' \subseteq Closable,
           defers[1] \notin {"gateway.Stop", "xds.Stop", "worker.Stop"},
           defers[1] = "temporal.Close" => <<"conn", "temporal">> \notin up',
           defers[1] = "store.Stop" => <<"conn", "sql">> \notin up',
           mode \in {"starting", "running"} => up' = up,
           <<"server", "http">> \notin up, inFlight > 0 => forced,
           serve' \in {"none", "done"}, serve' = "none" <=> serve = "none"
    PROVE  ProcessInv'
  <1>1. /\ defers' \in Seq(Calls)
        /\ Range(defers) = {defers[1]} \cup Range(defers')
        /\ defers' # <<>> => /\ Range(Tail(defers')) \subseteq Range(defers')
                             /\ defers'[1] \in Range(defers')
    BY PopCall DEF ProcessInv
  <1>2. "http.Stop" \notin Range(defers')
    BY DEF ProcessInv, HttpOnTop
  <1>3. ~HttpFirst'
    BY <1>1, <1>2 DEF HttpFirst
  <1>4. TypeOK'
    BY DEF ProcessInv, TypeOK, Closable
  <1>5. StartedInOrder' /\ HttpOnTop'
    BY <1>1, <1>2 DEF ProcessInv, StartedInOrder, HttpOnTop
  <1>6. StepsAreUp'
    BY SameConfig DEF ProcessInv, StepsAreUp
  <1>7. StoreIsOpen'
    BY <1>3, SameConfig DEF ProcessInv, StoreIsOpen
  <1>8. ServerIsStopped'
    BY DEF ServerIsStopped
  <1>9. SyncedIsUp'
    BY <1>1 DEF ProcessInv, SyncedIsUp, Closable
  <1>10. AllIsDeferred'
    <2>1. SyncPending => SyncPending'
      BY <1>1 DEF SyncPending, Synced, Features
    <2> QED
      BY <1>1, <2>1 DEF ProcessInv, AllIsDeferred
  <1>11. ReturnsAtEnd'
    BY DEF ProcessInv, ReturnsAtEnd
  <1>12. CertificateMatchesKey'
    BY SameCertificate DEF ProcessInv
  <1> QED
    BY <1>1, <1>4, <1>5, <1>6, <1>7, <1>8, <1>9, <1>10, <1>11, <1>12
       DEF ProcessInv

\* While a call other than the HTTP server's is first, that server is stopped.
LEMMA OtherCallFirst ==
    ASSUME ProcessInv, ~HttpFirst
    PROVE  /\ <<"server", "http">> \notin up /\ stopping = None
           /\ inFlight > 0 => forced
           /\ serve \in {"none", "done"}
  BY DEF ProcessInv, TypeOK, ServerIsStopped

\* temporalClient.Close and StoreInstance.Stop.
LEMMA CloseStep ==
    ASSUME ProcessInv,
           \/ Close("temporal.Close", <<"conn", "temporal">>)
           \/ Close("store.Stop", <<"conn", "sql">>)
    PROVE  ProcessInv'
  <1>1. PICK call, part :
            /\ Close(call, part)
            /\ \/ call = "temporal.Close" /\ part = <<"conn", "temporal">>
               \/ call = "store.Stop" /\ part = <<"conn", "sql">>
    OBVIOUS
  <1>2. /\ mode \in {"unwinding", "panicking"} /\ defers # <<>>
        /\ defers[1] = call /\ up' = up \ {part} /\ defers' = Tail(defers)
        /\ UNCHANGED <<config, mode, step, stopping, cancelled, serve, tls,
                       inFlight, forced, faults>>
    BY <1>1 DEF Close, Unwinding
  <1>3. ~HttpFirst /\ part \in Closable
    BY <1>1, <1>2 DEF HttpFirst, Closable
  <1> QED
    BY <1>1, <1>2, <1>3, OtherCallFirst, PopStep

\* GrpcServer.Start as a deferred call: it ends the process or returns.
LEMMA GrpcStartAgainStep ==
    ASSUME ProcessInv, GrpcStartAgain
    PROVE  ProcessInv'
  <1>1. /\ mode \in {"unwinding", "panicking"} /\ defers # <<>>
        /\ defers[1] = "grpc.Start"
        /\ UNCHANGED <<config, step, stopping, up, cancelled, serve, tls,
                       inFlight, forced, faults>>
    BY DEF GrpcStartAgain, Unwinding
  <1>2. ~HttpFirst
    BY <1>1 DEF HttpFirst
  <1>3. CASE mode' = "crashed" /\ UNCHANGED defers
    <2>1. TypeOK'
      BY <1>1, <1>3 DEF ProcessInv, TypeOK
    <2>2. ServerIsStopped'
      BY <1>1, <1>3 DEF ProcessInv, ServerIsStopped, HttpFirst
    <2> QED
      BY <1>1, <1>3, <2>1, <2>2, QuietStep
  <1>4. CASE defers' = Tail(defers) /\ UNCHANGED mode
    BY <1>1, <1>2, <1>4, OtherCallFirst, PopStep
  <1> QED
    BY <1>3, <1>4 DEF GrpcStartAgain

\* The Stop of a feature cancels the context of its goroutine and waits.
LEMMA CancelSyncStep ==
    ASSUME ProcessInv, NEW f \in Synced, CancelSync(f)
    PROVE  ProcessInv'
  <1>1. /\ defers # <<>> /\ defers[1] = Features[f]
        /\ cancelled' = cancelled \cup {f}
        /\ UNCHANGED <<config, mode, step, defers, stopping, up, serve, tls,
                       inFlight, forced, faults>>
    BY DEF CancelSync, Unwinding
  <1>2. Features[f] \in Range(defers)
    BY <1>1, PopCall DEF ProcessInv
  <1>3. <<"sync", f>> \in up
    BY <1>2 DEF ProcessInv, SyncedIsUp
  <1>4. TypeOK'
    BY <1>1, <1>3 DEF ProcessInv, TypeOK
  <1>5. ServerIsStopped'
    BY <1>1 DEF ProcessInv, ServerIsStopped, HttpFirst
  <1> QED
    BY <1>1, <1>4, <1>5, QuietStep

\* HttpServer.Stop closes the listener.
LEMMA HttpStopStep ==
    ASSUME ProcessInv, HttpStop
    PROVE  ProcessInv'
  <1>1. /\ mode \in {"unwinding", "panicking"} /\ stopping = None
        /\ defers # <<>> /\ defers[1] = "http.Stop"
        /\ stopping' = "draining" /\ up' = up \ {<<"server", "http">>}
        /\ UNCHANGED <<config, mode, step, defers, cancelled, serve, tls,
                       inFlight, forced, faults>>
    BY DEF HttpStop, Unwinding
  <1>2. TypeOK'
    BY <1>1 DEF ProcessInv, TypeOK
  <1>3. StartedInOrder' /\ HttpOnTop' /\ ReturnsAtEnd'
    BY <1>1 DEF ProcessInv, StartedInOrder, HttpOnTop, ReturnsAtEnd
  <1>4. StepsAreUp' /\ StoreIsOpen'
    BY <1>1, SameConfig
       DEF ProcessInv, StepsAreUp, StoreIsOpen, HttpFirst, Closable
  <1>5. ServerIsStopped' /\ SyncedIsUp'
    BY <1>1 DEF ProcessInv, ServerIsStopped, HttpFirst, SyncedIsUp
  <1>6. AllIsDeferred'
    BY <1>1 DEF ProcessInv, AllIsDeferred, SyncPending
  <1>7. CertificateMatchesKey' /\ defers' \in Seq(Calls)
    BY <1>1, SameCertificate DEF ProcessInv
  <1> QED
    BY <1>2, <1>3, <1>4, <1>5, <1>6, <1>7 DEF ProcessInv

\* Shutdown ends when no request is left, or Close ends it.
LEMMA ShutdownStep ==
    ASSUME ProcessInv, Drained \/ ShutdownTimeout
    PROVE  ProcessInv'
  <1>1. /\ stopping = "draining" /\ stopping' = "joining"
        /\ inFlight' > 0 => forced'
        /\ forced' \in BOOLEAN
        /\ UNCHANGED <<config, mode, step, defers, up, cancelled, serve, tls,
                       inFlight, faults>>
    <2>1. CASE Drained
      BY <2>1 DEF ProcessInv, TypeOK, Drained
    <2>2. CASE ShutdownTimeout
      BY <2>2 DEF ShutdownTimeout
    <2> QED
      BY <2>1, <2>2
  <1>2. stopping # None
    BY <1>1, ProcessAssumption
  <1>3. TypeOK'
    BY <1>1 DEF ProcessInv, TypeOK
  <1>4. ServerIsStopped'
    BY <1>1, <1>2 DEF ProcessInv, ServerIsStopped, HttpFirst
  <1> QED
    BY <1>1, <1>3, <1>4, QuietStep

\* HttpServer.Stop has received from its goroutine.
LEMMA JoinedStep ==
    ASSUME ProcessInv, Joined
    PROVE  ProcessInv'
  <1>1. /\ stopping = "joining" /\ serve = "sending" /\ serve' = "done"
        /\ stopping' = None /\ defers' = Tail(defers)
        /\ UNCHANGED <<config, mode, step, up, cancelled, tls, inFlight, forced,
                       faults>>
    BY DEF Joined
  <1>2. None # "joining"
    BY ProcessAssumption
  <1>3. /\ defers # <<>> /\ defers[1] = "http.Stop"
        /\ <<"server", "http">> \notin up
        /\ inFlight > 0 => forced
    BY <1>1, <1>2 DEF ProcessInv, TypeOK, ServerIsStopped, HttpFirst
  <1> QED
    BY <1>1, <1>3, PopStep

\* main returns, or its panic ends the process.
LEMMA ReturnStep ==
    ASSUME ProcessInv, Return
    PROVE  ProcessInv'
  <1>1. /\ mode \in {"unwinding", "panicking"} /\ defers = <<>>
        /\ mode' \in {"exited", "crashed"}
        /\ mode' = "exited" => mode = "unwinding"
        /\ UNCHANGED <<config, step, defers, stopping, up, cancelled, serve,
                       tls, inFlight, forced, faults>>
    BY DEF Return
  <1>2. TypeOK'
    BY <1>1 DEF ProcessInv, TypeOK
  <1>3. StartedInOrder' /\ HttpOnTop' /\ ReturnsAtEnd'
    BY <1>1 DEF ProcessInv, StartedInOrder, HttpOnTop, ReturnsAtEnd
  <1>4. StepsAreUp' /\ StoreIsOpen'
    BY <1>1, SameConfig DEF ProcessInv, StepsAreUp, StoreIsOpen, HttpFirst
  <1>5. ServerIsStopped' /\ SyncedIsUp'
    BY <1>1 DEF ProcessInv, ServerIsStopped, HttpFirst, SyncedIsUp
  <1>6. AllIsDeferred'
    BY <1>1 DEF ProcessInv, AllIsDeferred, SyncPending
  <1>7. CertificateMatchesKey' /\ defers' \in Seq(Calls)
    BY <1>1, SameCertificate DEF ProcessInv
  <1> QED
    BY <1>2, <1>3, <1>4, <1>5, <1>6, <1>7 DEF ProcessInv

\* Every step keeps the invariant.
LEMMA ProcessStep == ProcessInv /\ [Next]_vars => ProcessInv'
  <1> SUFFICES ASSUME ProcessInv, [Next]_vars PROVE ProcessInv'
    OBVIOUS
  <1>1. CASE Unwind
    BY <1>1, CloseStep, GrpcStartAgainStep, CancelSyncStep, HttpStopStep,
       ShutdownStep, JoinedStep, ReturnStep DEF Unwind
  <1>2. ASSUME NEW s \in Range(Program), Start(s) PROVE ProcessInv'
    BY <1>2, StartStep
  <1>3. ASSUME NEW s \in Range(Program), NEW k \in 0..2, Panic(s, k)
        PROVE  ProcessInv'
    BY <1>3, PanicStep
  <1>4. CASE Skip \/ Listen \/ Started \/ Interrupt
    BY <1>4, SkipStep, ListenStep, RunningStep
  <1>5. CASE \/ Alive /\ (Request \/ Respond \/ ServeReturns \/ ServeFails)
             \/ Alive /\ \E f \in Synced : SyncEnds(f)
    BY <1>5, RunningStep, ServeFailsStep
  <1>6. CASE UNCHANGED vars
    <2>1. TypeOK' /\ ServerIsStopped'
      BY <1>6 DEF ProcessInv, TypeOK, ServerIsStopped, HttpFirst, vars
    <2> QED
      BY <1>6, <2>1, QuietStep DEF vars, ProcessInv, TypeOK
  <1> QED
    BY <1>1, <1>2, <1>3, <1>4, <1>5, <1>6 DEF Next

\* The invariant holds of every process.
LEMMA ProcessInvCorrect == Spec => []ProcessInv
  BY ProcessInit, ProcessStep, PTL DEF Spec

-----------------------------------------------------------------------------
(* What the runs check *)

\* A process keeps its variables typed: no feature's context is cancelled whose
\* goroutine was not started, and there is a tls.Config exactly from the start
\* of the HTTP server's goroutine on.
THEOREM ProcessTypeCorrect == Spec => []TypeOK
  <1>1. ProcessInv => TypeOK
    BY DEF ProcessInv
  <1> QED
    BY <1>1, ProcessInvCorrect, PTL

\* While a request is handled every service of the enabled features is
\* registered and the database is open, through start, interruption and panic:
\* main starts the HTTP server last and defers its stop last, and only the
\* time-out of Shutdown lets a request outlive it.
THEOREM ProcessRequestsAreBacked == Spec => []RequestsAreBacked
  <1>1. ASSUME ProcessInv, inFlight > 0, ~forced,
               NEW s \in {"store.Start", "gateway.Start", "xds.Start",
                          "grpc.Start"},
               Needs(s)
        PROVE  Range(Parts(s)) \subseteq up
    <2>1. HttpFirst /\ "http.Stop" \in Range(defers)
      BY <1>1, PopCall DEF ProcessInv, ServerIsStopped, HttpFirst
    <2>2. step > 10 /\ config \in Configs
      BY <1>1, <2>1, ProgramSteps
         DEF ProcessInv, TypeOK, HttpOnTop, StartedInOrder
    <2>3. Range(Parts(s)) \ Closable \subseteq up
      <3>1. \E n \in 1..Len(Program) : Program[n] = s /\ n < step
        <4>1. step \in Nat
          BY <1>1, ProgramSteps DEF ProcessInv, TypeOK
        <4> QED
          BY <4>1, <2>2, ProgramSteps
      <3> QED
        BY <3>1, <1>1 DEF ProcessInv, StepsAreUp
    <2>4. CASE s = "store.Start"
      BY <1>1, <2>1, <2>2, <2>3, <2>4, PartsOfSteps
         DEF ProcessInv, TypeOK, StoreIsOpen, Closable
    <2>5. CASE s \in {"gateway.Start", "xds.Start", "grpc.Start"}
      <3>1. Range(Parts(s)) \cap Closable = {}
        BY <2>2, <2>5, PartsOfSteps DEF Closable
      <3> QED
        BY <2>3, <3>1
    <2> QED
      BY <2>4, <2>5
  <1>2. ProcessInv => RequestsAreBacked
    BY <1>1 DEF RequestsAreBacked
  <1> QED
    BY <1>2, ProcessInvCorrect, PTL

\* main returns only with its connections closed and no goroutine left: a
\* feature's Stop never returns, so a process with one does not get there.
THEOREM ProcessCleanExit == Spec => []CleanExit
  <1>1. ProcessInv => CleanExit
    <2> SUFFICES ASSUME ProcessInv, mode = "exited"
                 PROVE  /\ {p[1] : p \in up} \subseteq {"server", "service"}
                        /\ serve \in {"none", "done"}
      BY DEF CleanExit
    <2>1. defers = <<>> /\ Range(defers) = {}
      BY RangeOfTuples DEF ProcessInv, ReturnsAtEnd
    <2>2. \A p \in up : p[1] \in {"server", "service"}
      BY <2>1 DEF ProcessInv, AllIsDeferred, SyncPending
    <2>3. serve \in {"none", "done"}
      BY <2>1, OtherCallFirst DEF HttpFirst
    <2> QED
      BY <2>2, <2>3
  <1> QED
    BY <1>1, ProcessInvCorrect, PTL

\* The HTTP server's leaf certificate belongs to the key it is served with,
\* whatever the files hold, unless the certificates come from a file and their
\* key does not.
THEOREM ProcessCertificateMatchesKey == Spec => []CertificateMatchesKey
  <1>1. ProcessInv => CertificateMatchesKey
    BY DEF ProcessInv
  <1> QED
    BY <1>1, ProcessInvCorrect, PTL
=============================================================================

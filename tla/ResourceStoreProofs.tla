------------------------ MODULE ResourceStoreProofs ------------------------
(***************************************************************************)
(* Proofs about the resource store.  First the abstract store, for all     *)
(* constants: its type invariant, the invariants that hold also for        *)
(* overlapping calls, and those that hold when calls do not overlap.  Then *)
(* the handlers, for any number of concurrent calls: every statement of a  *)
(* transaction implements a step of ChangeLog, so what is proved of the    *)
(* two tables holds, and every version a call answers is logged.           *)
(***************************************************************************)
EXTENDS ResourceStore, TLAPS

-----------------------------------------------------------------------------
(* The abstract store *)

LEMMA ActiveEventType ==
    ASSUME NEW i \in Ids, NEW row \in Rows
    PROVE  ActiveEvent(i, row) \in Events
BY DEF ActiveEvent, Rows, Events

LEMMA LogTypeStep == LogTypeOK /\ [LogNext]_logVars => LogTypeOK'
<1> SUFFICES ASSUME LogTypeOK, [LogNext]_logVars PROVE LogTypeOK'
    OBVIOUS
<1>1. CASE LogTick
    BY <1>1, TimeAssumption DEF LogTick, LogTypeOK, Versions
<1>2. ASSUME NEW v \in Versions, NEW i \in Ids, NEW h \in Hashes,
             LogPut(v, i, h)
      PROVE  LogTypeOK'
    <2>1. [version |-> v, hash |-> h] \in Rows
        BY DEF Rows
    <2> QED
        BY <1>2, <2>1, ActiveEventType DEF LogPut, LogTypeOK
<1>3. ASSUME NEW v \in Versions, NEW gone \in SUBSET Ids,
             NEW logged \in SUBSET Ids, NEW told \in [logged -> Hashes],
             LogDrop(v, gone, told)
      PROVE  LogTypeOK'
    <2>1. \A i \in logged : DroppedEvent(v, i, told[i]) \in Events
        BY DEF DroppedEvent, Events
    <2> QED
        BY <1>3, <2>1 DEF LogDrop, LogTypeOK
<1>4. CASE UNCHANGED logVars
    BY <1>4 DEF logVars, LogTypeOK
<1> QED
    BY <1>1, <1>2, <1>3, <1>4 DEF LogNext

\* Every behaviour of the abstract store is well typed.
THEOREM LogTypeCorrect == LogSpec => []LogTypeOK
<1>1. LogInit => LogTypeOK
    BY TimeAssumption DEF LogInit, LogTypeOK, Versions
<1> QED
    BY <1>1, LogTypeStep, PTL DEF LogSpec

-----------------------------------------------------------------------------
(* What holds also when calls overlap *)

LogInv == CacheHasEvent /\ TombstonesHaveActive /\ EventKeysUnique

LEMMA LogInvStep ==
    LogTypeOK /\ LogInv /\ [LogNext]_logVars => LogInv'
<1> SUFFICES ASSUME LogTypeOK, LogInv, [LogNext]_logVars PROVE LogInv'
    OBVIOUS
<1> USE DEF LogInv
<1>1. CASE UNCHANGED <<cache, events>>
    BY <1>1 DEF CacheHasEvent, TombstonesHaveActive, EventKeysUnique, EventsOf
<1>2. ASSUME NEW v \in Versions, NEW i \in Ids, NEW h \in Hashes,
             LogPut(v, i, h)
      PROVE  LogInv'
    <2> DEFINE e == ActiveEvent(i, [version |-> v, hash |-> h])
    <2>1. events' = events \cup {e}
        BY <1>2 DEF LogPut
    <2>2. e.id = i /\ e.version = v /\ e.status = ACTIVE
        BY DEF ActiveEvent
    <2>3. CacheHasEvent'
        BY <1>2, <2>1 DEF CacheHasEvent, LogPut, LogTypeOK
    <2>4. TombstonesHaveActive'
        BY <2>1, <2>2 DEF TombstonesHaveActive, EventsOf, ACTIVE, DROPPED
    <2>5. EventKeysUnique'
        <3>1. \A f \in events : ~(f.version = v /\ f.id = i)
            BY <1>2 DEF LogPut, KeyFree, EventsOf
        <3> QED
            BY <2>1, <2>2, <3>1 DEF EventKeysUnique
    <2> QED
        BY <2>3, <2>4, <2>5
<1>3. ASSUME NEW v \in Versions, NEW gone \in SUBSET Ids,
             NEW logged \in SUBSET Ids, NEW told \in [logged -> Hashes],
             LogDrop(v, gone, told)
      PROVE  LogInv'
    <2> DEFINE new == {DroppedEvent(v, i, told[i]) : i \in logged}
    <2>1. events' = events \cup new
        BY <1>3 DEF LogDrop
    <2>2. \A e \in new : /\ e.id \in logged /\ e.version = v
                         /\ e = DroppedEvent(v, e.id, told[e.id])
                         /\ e.hash = told[e.id]
        BY DEF DroppedEvent
    <2>3. CacheHasEvent'
        BY <1>3, <2>1 DEF CacheHasEvent, LogDrop, LogTypeOK
    <2>4. TombstonesHaveActive'
        <3>1. \A e \in new : \E f \in EventsOf(e.id) :
                  f.status = ACTIVE /\ f.hash = e.hash
            BY <1>3, <2>2 DEF LogDrop
        <3> QED
            BY <2>1, <3>1 DEF TombstonesHaveActive, EventsOf
    <2>5. EventKeysUnique'
        <3>1. \A e \in new, f \in events : ~(f.version = v /\ f.id = e.id)
            BY <1>3, <2>2 DEF LogDrop, KeyFree, EventsOf
        <3> QED
            BY <2>1, <2>2, <3>1 DEF EventKeysUnique
    <2> QED
        BY <2>3, <2>4, <2>5
<1> QED
    BY <1>1, <1>2, <1>3 DEF LogNext, LogTick, logVars

\* The cache never holds a resource that no event announces, no DROPPED event
\* lacks the ACTIVE event of its content, and event keys are unique.
THEOREM LogIsConsistent == LogSpec => []LogInv
<1>1. LogInit => LogInv
    BY DEF LogInit, LogInv, CacheHasEvent, TombstonesHaveActive, EventKeysUnique
<1> QED
    BY <1>1, LogInvStep, LogTypeCorrect, PTL DEF LogSpec

-----------------------------------------------------------------------------
(* What holds when calls do not overlap *)

LEMMA LogAgreesStep ==
    ASSUME ~Overlapping
    PROVE  LogTypeOK /\ LogAgreesWithCache /\ [LogNext]_logVars
               => LogAgreesWithCache'
<1> SUFFICES ASSUME LogTypeOK, LogAgreesWithCache, [LogNext]_logVars
             PROVE  LogAgreesWithCache'
    OBVIOUS
<1>1. CASE UNCHANGED <<cache, events>>
    BY <1>1 DEF LogAgreesWithCache, EventsOf
<1>2. ASSUME NEW v \in Versions, NEW i \in Ids, NEW h \in Hashes,
             LogPut(v, i, h)
      PROVE  LogAgreesWithCache'
    <2> DEFINE row == [version |-> v, hash |-> h]
               e == ActiveEvent(i, row)
    <2>1. /\ events' = events \cup {e}
          /\ cache' = [cache EXCEPT ![i] = row]
          /\ \A f \in events : f.version <= v
        BY <1>2 DEF LogPut, Committable
    <2>2. e.id = i /\ e.version = v /\ row.version = v /\ row # None
        BY NoneAssumption DEF ActiveEvent, Rows
    <2>3. cache'[i] = row /\ \A j \in Ids \ {i} : cache'[j] = cache[j]
        BY <2>1 DEF LogTypeOK
    <2>4. EventsOf(i)' = EventsOf(i) \cup {e}
        BY <2>1, <2>2 DEF EventsOf
    <2>5. \A j \in Ids \ {i} : EventsOf(j)' = EventsOf(j)
        BY <2>1, <2>2 DEF EventsOf
    <2>6. \A f \in EventsOf(i)' : f.version <= v
        BY <2>1, <2>2, <2>4 DEF EventsOf, Versions
    <2> QED
        BY <2>2, <2>3, <2>5, <2>6 DEF LogAgreesWithCache
<1>3. ASSUME NEW v \in Versions, NEW gone \in SUBSET Ids,
             NEW logged \in SUBSET Ids, NEW told \in [logged -> Hashes],
             LogDrop(v, gone, told)
      PROVE  LogAgreesWithCache'
    <2> DEFINE new == {DroppedEvent(v, i, told[i]) : i \in gone}
    <2>1. /\ gone = logged
          /\ events' = events \cup new
          /\ cache' = [i \in Ids |-> IF i \in gone THEN None ELSE cache[i]]
          /\ \A f \in events : f.version <= v
        BY <1>3 DEF LogDrop, Committable
    <2>2. \A i \in gone : LET d == DroppedEvent(v, i, told[i])
                          IN  /\ d \in new /\ d.id = i
                              /\ d.version = v /\ d.status = DROPPED
        BY DEF DroppedEvent
    <2>3. \A e \in new : e.id \in gone /\ e.version = v
        BY DEF DroppedEvent
    <2>4. \A i \in gone : \A e \in EventsOf(i)' : \E d \in EventsOf(i)' :
              d.status = DROPPED /\ e.version <= d.version
        <3> SUFFICES ASSUME NEW i \in gone, NEW e \in EventsOf(i)'
                     PROVE  \E d \in EventsOf(i)' :
                                d.status = DROPPED /\ e.version <= d.version
            OBVIOUS
        <3> DEFINE d == DroppedEvent(v, i, told[i])
        <3>1. d \in EventsOf(i)' /\ d.status = DROPPED /\ d.version = v
            BY <2>1, <2>2 DEF EventsOf
        <3>2. e.version <= v
            BY <2>1, <2>3 DEF EventsOf, Versions
        <3> QED
            BY <3>1, <3>2
    <2>5. \A i \in Ids \ gone : EventsOf(i)' = EventsOf(i)
        BY <2>1, <2>3 DEF EventsOf
    <2> QED
        BY <2>1, <2>4, <2>5 DEF LogAgreesWithCache
<1> QED
    BY <1>1, <1>2, <1>3 DEF LogNext, LogTick, logVars

\* Calls that do not overlap leave a log whose newest event of each resource
\* agrees with the cache, also when several calls fall into one second.
THEOREM SerialLogAgrees ==
    ASSUME ~Overlapping
    PROVE  LogSpec => []LogAgreesWithCache
<1>1. LogInit => LogAgreesWithCache
    BY DEF LogInit, LogAgreesWithCache, EventsOf
<1> QED
    BY <1>1, LogAgreesStep, LogTypeCorrect, PTL DEF LogSpec

\* Calls that do not overlap never remove a resource without logging its drop.
THEOREM SerialDropsAreLogged ==
    ASSUME ~Overlapping
    PROVE  LogSpec => DropsAreLogged
<1> DEFINE Logged ==
        \A i \in Ids : cache[i] # None /\ cache'[i] = None =>
            \E e \in events' \ events : e.id = i /\ e.status = DROPPED
<1>1. LogTypeOK /\ [LogNext]_logVars => [Logged]_logVars
    <2> SUFFICES ASSUME LogTypeOK, [LogNext]_logVars,
                        NEW i \in Ids, cache[i] # None, cache'[i] = None
                 PROVE  \E e \in events' \ events :
                            e.id = i /\ e.status = DROPPED
        OBVIOUS
    <2>1. CASE UNCHANGED cache
        BY <2>1
    <2>2. ASSUME NEW v \in Versions, NEW j \in Ids, NEW h \in Hashes,
                 LogPut(v, j, h)
          PROVE  FALSE
        <3>1. [version |-> v, hash |-> h] # None
            BY NoneAssumption DEF Rows
        <3> QED
            BY <2>2, <3>1 DEF LogPut, LogTypeOK
    <2>3. ASSUME NEW v \in Versions, NEW gone \in SUBSET Ids,
                 NEW logged \in SUBSET Ids, NEW told \in [logged -> Hashes],
                 LogDrop(v, gone, told)
          PROVE  \E e \in events' \ events : e.id = i /\ e.status = DROPPED
        <3> DEFINE e == DroppedEvent(v, i, told[i])
        <3>1. i \in logged
            BY <2>3 DEF LogDrop
        <3>2. e \in events' /\ e.id = i /\ e.status = DROPPED /\ e.version = v
            BY <2>3, <3>1 DEF LogDrop, DroppedEvent
        <3>3. e \notin events
            BY <2>3, <3>1, <3>2 DEF LogDrop, KeyFree, EventsOf
        <3> QED
            BY <3>2, <3>3
    <2> QED
        BY <2>1, <2>2, <2>3 DEF LogNext, LogTick, logVars
<1> QED
    BY <1>1, LogTypeCorrect, PTL DEF LogSpec, DropsAreLogged

-----------------------------------------------------------------------------
(* The inductive invariant: what a transaction has written, by the statement *)
(* it is about to execute.                                                   *)

Current(w) == Head(todo[w])

Written(w) == [NoRows EXCEPT ![Current(w)] = answer[w]]

NewRow(w) == [version |-> ver[w], hash |-> hash[w]]

\* A Put before Commit: nothing to commit, either because the resource is as
\* the store already announced it or because the transaction is aborted, or the
\* row together with its event.
PutReady(w) ==
    /\ todo[w] # <<>> /\ Current(w) \in Ids /\ answer[w] \in Rows
    /\ \/ /\ rows[w] = NoRows /\ evs[w] = {}
          /\ failed[w] \/ ActiveEvent(Current(w), answer[w]) \in events
       \/ /\ rows[w] = Written(w)
          /\ evs[w] = {ActiveEvent(Current(w), answer[w])}
          /\ hash[w] \in Hashes /\ answer[w] = NewRow(w)

\* A Drop: only deletions, and DROPPED events of announced contents.
DropReady(w) ==
    /\ answer[w] = None
    /\ \A i \in Ids : rows[w][i] \in {Same, None}
    /\ \A e \in evs[w] :
           /\ e.status = DROPPED /\ e.version = ver[w]
           /\ \E f \in EventsOf(e.id) : f.status = ACTIVE /\ f.hash = e.hash

TxOK(w) ==
    /\ ver[w] <= now
    /\ pc[w] \in {"idle", "summary"} => answer[w] = None
    /\ pc[w] \in {"idle", "summary", "upsert"} =>
           rows[w] = NoRows /\ evs[w] = {}
    /\ pc[w] \in {"summary", "upsert", "insertActive"} =>
           todo[w] # <<>> /\ Current(w) \in Ids /\ hash[w] \in Hashes
    /\ pc[w] \in {"upsert", "insertActive"} => answer[w] = NewRow(w)
    /\ pc[w] = "insertActive" => rows[w] = Written(w) /\ evs[w] = {}
    /\ pc[w] \in {"insertDropped", "delete"} => todo[w] # <<>> /\ DropReady(w)
    /\ pc[w] = "delete" => Current(w) \in Ids
    /\ pc[w] = "commit" => PutReady(w) \/ DropReady(w)

\* The keys of pending events are free, and reserved.
SameKey(e, f) == e.version = f.version /\ e.id = f.id

KeysReserved ==
    \A w \in Writers : \A e \in evs[w] :
        /\ \A f \in events : ~SameKey(e, f)
        /\ \A u \in Writers : \A f \in evs[u] : SameKey(e, f) => u = w /\ e = f

\* The only running call: nothing changes between its statements, so a pending
\* drop has the event of every row it deletes.
SerialTx(w) ==
    /\ pc[w] # "idle" => \A e \in events : e.version <= ver[w]
    /\ DropReady(w) =>
           /\ \A e \in evs[w] :
                  /\ cache[e.id] # None /\ e.hash = cache[e.id].hash
                  /\ \/ rows[w][e.id] = None
                     \/ pc[w] = "delete" /\ e.id = Current(w)
           /\ \A i \in Ids : rows[w][i] = None => \E e \in evs[w] : e.id = i
           /\ pc[w] = "delete" /\ Visible(w, Current(w)) # None =>
                  \E e \in evs[w] : e.id = Current(w)

StoreInv ==
    /\ TypeOK
    /\ LogInv
    /\ AnswersAreLogged
    /\ \A e \in events : e.version <= now
    /\ \A w \in Writers : TxOK(w)
    /\ KeysReserved
    /\ Overlapping \/ \A w \in Writers : SerialTx(w)

-----------------------------------------------------------------------------
(* Lemmas that the cases of the induction share *)

\* A step of another handler leaves these alone.
Untouched(u) ==
    /\ pc'[u] = pc[u] /\ todo'[u] = todo[u] /\ hash'[u] = hash[u]
    /\ ver'[u] = ver[u] /\ answer'[u] = answer[u] /\ rows'[u] = rows[u]
    /\ evs'[u] = evs[u] /\ failed'[u] = failed[u]

LEMMA UntouchedTx ==
    ASSUME NEW u \in Writers, TypeOK, TypeOK', TxOK(u), Untouched(u),
           events \subseteq events', now <= now'
    PROVE  TxOK(u)'
<1>1. DropReady(u) => DropReady(u)'
    BY DEF DropReady, Untouched, EventsOf
<1>2. PutReady(u) => PutReady(u)'
    BY DEF PutReady, Untouched, Current, Written, NewRow
<1>3. ver[u] <= now => ver'[u] <= now'
    BY DEF TypeOK, LogTypeOK, Versions, Untouched
<1> QED
    BY <1>1, <1>2, <1>3 DEF TxOK, Untouched, Current, Written, NewRow

\* A step that answers nothing, or an error, and commits nothing.
LEMMA AnswersKept ==
    ASSUME NEW w \in Writers, TypeOK, AnswersAreLogged,
           events \subseteq events',
           \/ reply' = reply
           \/ \E r : reply' = [reply EXCEPT ![w] = r] /\ (r = None \/ r.row = None)
    PROVE  AnswersAreLogged'
<1> QED
    BY DEF AnswersAreLogged, TypeOK

LEMMA KeysKept ==
    ASSUME KeysReserved, events' = events,
           \A u \in Writers : evs'[u] \subseteq evs[u]
    PROVE  KeysReserved'
BY DEF KeysReserved

LEMMA KeyAdded ==
    ASSUME NEW w \in Writers, NEW e, TypeOK, KeysReserved, events' = events,
           evs' = [evs EXCEPT ![w] = @ \cup {e}],
           KeyHolders(w, e.version, e.id) = {}, ~KeyTaken(w, e.version, e.id)
    PROVE  KeysReserved'
<1>1. \A f \in events : ~SameKey(e, f) /\ ~SameKey(f, e)
    BY DEF KeyTaken, SameKey
<1>2. \A u \in Writers : \A f \in evs[u] : ~SameKey(e, f) /\ ~SameKey(f, e)
    BY DEF KeyTaken, KeyHolders, SameKey
<1>3. \A u \in Writers : evs'[u] = IF u = w THEN evs[w] \cup {e} ELSE evs[u]
    BY DEF TypeOK
<1> QED
    BY <1>1, <1>2, <1>3 DEF KeysReserved

\* With one goroutine there is no other.
LEMMA OnlyWriter ==
    ASSUME ~Overlapping, NEW u \in Writers, NEW w \in Writers
    PROVE  u = w
BY WritersAssumption

LEMMA NoRowsType == NoRows \in [Ids -> Rows \cup {None, Same}]
BY DEF NoRows

LEMMA RefusalType == \A c \in Codes : Refusal(c) \in Replies /\ Refusal(c).row = None
BY DEF Refusal, Replies, Codes

\* A handler that returns an error leaves the invariant.
LEMMA ErrorKeepsInv ==
    ASSUME NEW w \in Writers, NEW c \in Codes, StoreInv, ReturnError(w, c)
    PROVE  StoreInv'
<1> USE DEF StoreInv
<1>1. UNCHANGED <<cache, events, now>>
    BY DEF ReturnError, Return
<1>2. TypeOK'
    <2>1. 0 \in Versions
        BY TimeAssumption DEF Versions
    <2> QED
        BY <2>1, NoRowsType, RefusalType DEF ReturnError, Return, TypeOK, LogTypeOK, Steps
<1>3. LogInv'
    BY <1>1 DEF LogInv, CacheHasEvent, TombstonesHaveActive, EventKeysUnique, EventsOf
<1>4. AnswersAreLogged'
    BY <1>1, RefusalType, AnswersKept DEF ReturnError, Return
<1>5. ASSUME NEW u \in Writers PROVE TxOK(u)'
    <2>1. CASE u = w
        <3>1. pc'[w] = "idle" /\ answer'[w] = None /\ rows'[w] = NoRows /\ evs'[w] = {} /\ ver'[w] = 0
            BY DEF ReturnError, Return, TypeOK
        <3> QED
            BY <1>1, <2>1, <3>1 DEF TxOK, TypeOK, LogTypeOK, Versions, NoRows
    <2>2. CASE u # w
        <3>1. Untouched(u)
            BY <2>2 DEF ReturnError, Return, TypeOK, Untouched
        <3>2. now <= now'
            BY <1>1 DEF TypeOK, LogTypeOK, Versions
        <3> QED
            BY <3>1, <3>2, <1>1, <1>2, UntouchedTx
    <2> QED
        BY <2>1, <2>2
<1>6. KeysReserved'
    <2>1. \A u \in Writers : evs'[u] \subseteq evs[u]
        BY DEF ReturnError, Return, TypeOK
    <2> QED
        BY <1>1, <2>1, KeysKept
<1>7. ASSUME ~Overlapping, NEW u \in Writers PROVE SerialTx(u)'
    <2>1. u = w
        BY <1>7, OnlyWriter
    <2>2. pc'[w] = "idle" /\ rows'[w] = NoRows /\ evs'[w] = {}
        BY DEF ReturnError, Return, TypeOK
    <2>3. \A i \in Ids : rows'[w][i] # None
        BY <2>2, SameAssumption DEF NoRows
    <2> QED
        BY <2>1, <2>2, <2>3 DEF SerialTx
<1> QED
    BY <1>1, <1>2, <1>3, <1>4, <1>5, <1>6, <1>7

\* Postgres aborts the transaction of a Put.
LEMMA AbortKeepsInv ==
    ASSUME NEW w \in Writers, pc[w] \in {"upsert", "insertActive"},
           StoreInv, PutAborted(w)
    PROVE  StoreInv'
<1> USE DEF StoreInv
<1>1. UNCHANGED <<now, cache, events, todo, hash, ver, answer, reply>>
    BY DEF PutAborted
<1>2. /\ pc'[w] = "commit" /\ rows'[w] = NoRows /\ evs'[w] = {} /\ failed'[w]
      /\ \A u \in Writers \ {w} : Untouched(u)
    BY DEF PutAborted, TypeOK, Untouched
<1>3. TypeOK'
    BY NoRowsType DEF PutAborted, TypeOK, LogTypeOK, Steps
<1>4. LogInv'
    BY <1>1 DEF LogInv, CacheHasEvent, TombstonesHaveActive, EventKeysUnique, EventsOf
<1>5. AnswersAreLogged'
    BY <1>1 DEF AnswersAreLogged
<1>6. ASSUME NEW u \in Writers PROVE TxOK(u)'
    <2>1. CASE u = w
        <3>1. answer[w] \in Rows /\ todo[w] # <<>> /\ Current(w) \in Ids
            BY DEF TxOK, TypeOK, NewRow, Rows
        <3>2. PutReady(w)'
            BY <1>1, <1>2, <3>1 DEF PutReady, Current
        <3> QED
            BY <1>1, <1>2, <2>1, <3>2 DEF TxOK
    <2>2. CASE u # w
        <3>1. now <= now'
            BY <1>1 DEF TypeOK, LogTypeOK, Versions
        <3> QED
            BY <2>2, <3>1, <1>1, <1>2, <1>3, UntouchedTx
    <2> QED
        BY <2>1, <2>2
<1>7. KeysReserved'
    <2>1. \A u \in Writers : evs'[u] \subseteq evs[u]
        BY <1>2 DEF Untouched
    <2> QED
        BY <1>1, <2>1, KeysKept
<1>8. ASSUME ~Overlapping, NEW u \in Writers PROVE SerialTx(u)'
    <2>1. u = w
        BY <1>8, OnlyWriter
    <2>2. ~DropReady(w)'
        <3>1. answer[w] # None
            BY NoneAssumption DEF TxOK, NewRow, TypeOK, Rows
        <3> QED
            BY <1>1, <3>1 DEF DropReady
    <2> QED
        BY <1>1, <1>2, <1>8, <2>1, <2>2 DEF SerialTx
<1> QED
    BY <1>1, <1>3, <1>4, <1>5, <1>6, <1>7, <1>8

\* A statement of w that commits nothing concerns the transaction of w only.
LEMMA QuietStep ==
    ASSUME NEW w \in Writers, StoreInv, UNCHANGED <<now, cache, events>>,
           \A u \in Writers \ {w} : Untouched(u),
           TypeOK', TxOK(w)', AnswersAreLogged', KeysReserved',
           ~Overlapping => SerialTx(w)'
    PROVE  StoreInv'
<1> USE DEF StoreInv
<1>1. LogInv'
    BY DEF LogInv, CacheHasEvent, TombstonesHaveActive, EventKeysUnique, EventsOf
<1>2. ASSUME NEW u \in Writers PROVE TxOK(u)'
    <2>1. now <= now'
        BY DEF TypeOK, LogTypeOK, Versions
    <2> QED
        BY <2>1, UntouchedTx
<1>3. ~Overlapping => \A u \in Writers : SerialTx(u)'
    BY OnlyWriter
<1> QED
    BY <1>1, <1>2, <1>3

LEMMA BeginKeepsInv ==
    ASSUME NEW w \in Writers, NEW ids \in Seq(Ids \cup {BadId}),
           NEW h \in Hashes \cup {None}, NEW step \in Steps, StoreInv,
           Begin(w, ids, h, step),
           \/ /\ step = "summary"
              /\ ids # <<>> /\ Head(ids) \in Ids /\ h \in Hashes
           \/ step = "insertDropped" /\ ids # <<>>
           \/ step = "commit"
    PROVE  StoreInv'
<1> USE DEF StoreInv
<1>1. UNCHANGED <<now, cache, events, answer, rows, evs, failed>>
    BY DEF Begin
<1>2. /\ pc'[w] = step /\ todo'[w] = ids /\ hash'[w] = h /\ ver'[w] = now
      /\ pc[w] = "idle"
      /\ \A u \in Writers \ {w} : Untouched(u)
    BY DEF Begin, TypeOK, Untouched
<1>3. TypeOK'
    BY DEF Begin, TypeOK, LogTypeOK
<1>4. answer[w] = None /\ rows[w] = NoRows /\ evs[w] = {}
    BY <1>2 DEF TxOK
<1>5. DropReady(w)'
    BY <1>1, <1>4 DEF DropReady, NoRows
<1>6. TxOK(w)'
    BY <1>1, <1>2, <1>4, <1>5 DEF TxOK, Current, TypeOK, LogTypeOK, Versions
<1>7. AnswersAreLogged'
    BY <1>1, AnswersKept DEF Begin
<1>8. KeysReserved'
    BY <1>1, KeysKept
<1>9. SerialTx(w)'
    BY <1>1, <1>2, <1>4, SameAssumption DEF SerialTx, NoRows
<1> QED
    BY <1>1, <1>2, <1>3, <1>6, <1>7, <1>8, <1>9, QuietStep

LEMMA SummaryKeepsInv ==
    ASSUME NEW w \in Writers, StoreInv, PutSummary(w)
    PROVE  StoreInv'
<1> USE DEF StoreInv
<1> DEFINE row == cache[Current(w)]
           changed == row = None \/ row.hash # hash[w]
<1>1. /\ UNCHANGED <<now, cache, events, todo, hash, ver, rows, evs, failed, reply>>
      /\ pc[w] = "summary"
      /\ pc'[w] = IF changed THEN "upsert" ELSE "commit"
      /\ answer'[w] = IF changed THEN NewRow(w) ELSE row
      /\ \A u \in Writers \ {w} : Untouched(u)
    BY DEF PutSummary, TypeOK, Untouched, Current, NewRow
<1>2. /\ todo[w] # <<>> /\ Current(w) \in Ids /\ hash[w] \in Hashes
      /\ rows[w] = NoRows /\ evs[w] = {} /\ ver[w] <= now
    BY <1>1 DEF TxOK
<1>3. NewRow(w) \in Rows /\ row \in Rows \cup {None}
    BY <1>2 DEF NewRow, Rows, TypeOK, LogTypeOK
<1>4. TypeOK'
    <2>1. answer' \in [Writers -> Rows \cup {None}]
        BY <1>3 DEF PutSummary, TypeOK, Current, NewRow
    <2> QED
        BY <2>1 DEF PutSummary, TypeOK, LogTypeOK, Steps
<1>5. answer'[w] \in Rows
    BY <1>1, <1>3
<1>6. TxOK(w)'
    <2>1. CASE changed
        BY <1>1, <1>2, <2>1 DEF TxOK, Current, NewRow
    <2>2. CASE ~changed
        <3>1. ActiveEvent(Current(w), row) \in events
            BY <1>2, <2>2 DEF LogInv, CacheHasEvent
        <3>2. PutReady(w)'
            BY <1>1, <1>2, <1>5, <2>2, <3>1 DEF PutReady, Current
        <3> QED
            BY <1>1, <1>2, <2>2, <3>2 DEF TxOK
    <2> QED
        BY <2>1, <2>2
<1>7. AnswersAreLogged'
    BY <1>1 DEF AnswersAreLogged
<1>8. KeysReserved'
    BY <1>1, KeysKept
<1>9. ~Overlapping => SerialTx(w)'
    <2>1. ~DropReady(w)'
        BY <1>5, NoneAssumption DEF DropReady
    <2> QED
        BY <1>1, <2>1 DEF SerialTx
<1> QED
    BY <1>1, <1>4, <1>6, <1>7, <1>8, <1>9, QuietStep

LEMMA UpsertKeepsInv ==
    ASSUME NEW w \in Writers, StoreInv, PutUpsert(w)
    PROVE  StoreInv'
<1> USE DEF StoreInv
<1>1. /\ UNCHANGED <<now, cache, events, todo, hash, ver, answer, evs, failed, reply>>
      /\ pc[w] = "upsert" /\ pc'[w] = "insertActive"
      /\ rows' = [rows EXCEPT ![w][Current(w)] = answer[w]]
      /\ \A u \in Writers \ {w} : Untouched(u)
    BY DEF PutUpsert, TypeOK, Untouched, Current
<1>2. /\ todo[w] # <<>> /\ Current(w) \in Ids /\ hash[w] \in Hashes
      /\ rows[w] = NoRows /\ evs[w] = {} /\ ver[w] <= now
      /\ answer[w] = NewRow(w)
    BY <1>1 DEF TxOK
<1>3. answer[w] \in Rows
    BY <1>2 DEF NewRow, Rows, TypeOK
<1>4. rows'[w] = Written(w)
    BY <1>1, <1>2 DEF Written, TypeOK
<1>5. TypeOK'
    <2>1. rows' \in [Writers -> [Ids -> Rows \cup {None, Same}]]
        BY <1>1, <1>2, <1>3 DEF TypeOK
    <2> QED
        BY <2>1 DEF PutUpsert, TypeOK, LogTypeOK, Steps
<1>6. TxOK(w)'
    BY <1>1, <1>2, <1>4 DEF TxOK, Current, NewRow, Written
<1>7. AnswersAreLogged'
    BY <1>1 DEF AnswersAreLogged
<1>8. KeysReserved'
    BY <1>1, KeysKept
<1>9. ~Overlapping => SerialTx(w)'
    <2>1. ~DropReady(w)'
        BY <1>1, <1>3, NoneAssumption DEF DropReady
    <2> QED
        BY <1>1, <2>1 DEF SerialTx
<1> QED
    BY <1>1, <1>5, <1>6, <1>7, <1>8, <1>9, QuietStep

LEMMA InsertActiveKeepsInv ==
    ASSUME NEW w \in Writers, StoreInv, PutInsertActive(w)
    PROVE  StoreInv'
<1> USE DEF StoreInv
<1> DEFINE e == ActiveEvent(Current(w), answer[w])
<1>1. /\ todo[w] # <<>> /\ Current(w) \in Ids /\ hash[w] \in Hashes
      /\ rows[w] = Written(w) /\ evs[w] = {} /\ ver[w] <= now
      /\ answer[w] = NewRow(w) /\ pc[w] = "insertActive"
    BY DEF TxOK, PutInsertActive
<1>2. answer[w] \in Rows
    BY <1>1 DEF NewRow, Rows, TypeOK
<1>3. Visible(w, Current(w)) = answer[w]
    BY <1>1, <1>2, SameAssumption DEF Visible, Written, NoRows
<1>4. CASE PutAborted(w)
    BY <1>1, <1>4, AbortKeepsInv
<1>5. CASE ~PutAborted(w)
    <2>1. /\ UNCHANGED <<now, cache, events, todo, hash, ver, answer, rows, failed, reply>>
          /\ pc'[w] = "commit"
          /\ evs' = [evs EXCEPT ![w] = @ \cup {e}]
          /\ KeyHolders(w, answer[w].version, Current(w)) = {}
          /\ ~KeyTaken(w, answer[w].version, Current(w))
          /\ \A u \in Writers \ {w} : Untouched(u)
        BY <1>3, <1>5 DEF PutInsertActive, TypeOK, Untouched, Current
    <2>2. e \in Events /\ e.version = answer[w].version /\ e.id = Current(w)
        BY <1>1, <1>2, ActiveEventType DEF ActiveEvent
    <2>3. TypeOK'
        <3>1. pc' \in [Writers -> Steps]
            BY <1>5 DEF PutInsertActive, TypeOK, Steps
        <3>2. evs' \in [Writers -> SUBSET Events]
            BY <2>1, <2>2 DEF TypeOK
        <3> QED
            BY <2>1, <3>1, <3>2 DEF TypeOK, LogTypeOK
    <2>4. TxOK(w)'
        <3>1. evs'[w] = {e}
            BY <1>1, <2>1 DEF TypeOK
        <3>2. PutReady(w)'
            BY <1>1, <1>2, <2>1, <3>1 DEF PutReady, Current, Written, NewRow
        <3> QED
            BY <1>1, <2>1, <3>2 DEF TxOK
    <2>5. AnswersAreLogged'
        BY <2>1 DEF AnswersAreLogged
    <2>6. KeysReserved'
        BY <2>1, <2>2, KeyAdded
    <2>7. ~Overlapping => SerialTx(w)'
        <3>1. ~DropReady(w)'
            BY <2>1, <1>2, NoneAssumption DEF DropReady
        <3> QED
            BY <1>1, <2>1, <3>1 DEF SerialTx
    <2> QED
        BY <2>1, <2>3, <2>4, <2>5, <2>6, <2>7, QuietStep
<1> QED
    BY <1>4, <1>5

LEMMA DropInsertKeepsInv ==
    ASSUME NEW w \in Writers, StoreInv, DropInsert(w)
    PROVE  StoreInv'
<1> USE DEF StoreInv
<1> DEFINE row == Visible(w, Current(w))
           e == DroppedEvent(ver[w], Current(w), row.hash)
<1>1. /\ pc[w] = "insertDropped" /\ todo[w] # <<>> /\ DropReady(w)
      /\ ver[w] <= now /\ Current(w) # BadId
    BY DEF DropInsert, TxOK, Current
<1>2. Current(w) \in Ids
    BY <1>1 DEF Current, TypeOK
<1>3. row \in Rows \cup {None}
    BY <1>2 DEF Visible, TypeOK, LogTypeOK
<1>4. row # None => row = cache[Current(w)]
    BY <1>1, <1>2 DEF Visible, DropReady
<1>5. CASE ReturnError(w, "Error")
    BY <1>5, ErrorKeepsInv DEF Codes
<1>6. CASE row = None /\ ~ReturnError(w, "Error")
    <2>1. /\ UNCHANGED <<now, cache, events, todo, hash, ver, answer, rows, evs, failed, reply>>
          /\ pc'[w] = "delete"
          /\ \A u \in Writers \ {w} : Untouched(u)
        BY <1>6 DEF DropInsert, TypeOK, Untouched, Current
    <2>2. TypeOK'
        BY <1>6 DEF DropInsert, TypeOK, LogTypeOK, Steps, Current
    <2>3. DropReady(w)'
        BY <1>1, <2>1 DEF DropReady, EventsOf
    <2>4. TxOK(w)'
        BY <1>1, <1>2, <2>1, <2>3 DEF TxOK, Current
    <2>5. AnswersAreLogged' /\ KeysReserved'
        BY <2>1, KeysKept DEF AnswersAreLogged
    <2>6. ~Overlapping => SerialTx(w)'
        BY <1>1, <1>6, <2>1 DEF SerialTx, Visible, Current
    <2> QED
        BY <2>1, <2>2, <2>4, <2>5, <2>6, QuietStep
<1>7. CASE row # None /\ ~ReturnError(w, "Error")
    <2>1. /\ UNCHANGED <<now, cache, events, todo, hash, ver, answer, rows, failed, reply>>
          /\ pc'[w] = "delete"
          /\ evs' = [evs EXCEPT ![w] = @ \cup {e}]
          /\ KeyHolders(w, ver[w], Current(w)) = {}
          /\ ~KeyTaken(w, ver[w], Current(w))
          /\ \A u \in Writers \ {w} : Untouched(u)
        BY <1>7 DEF DropInsert, TypeOK, Untouched, Current
    <2>2. /\ e \in Events /\ e.version = ver[w] /\ e.id = Current(w)
          /\ e.status = DROPPED /\ e.hash = row.hash
        BY <1>2, <1>3, <1>7 DEF DroppedEvent, Events, Rows, TypeOK
    <2>3. TypeOK'
        <3>1. pc' \in [Writers -> Steps]
            BY <1>7 DEF DropInsert, TypeOK, Steps, Current
        <3>2. evs' \in [Writers -> SUBSET Events]
            BY <2>1, <2>2 DEF TypeOK
        <3> QED
            BY <2>1, <3>1, <3>2 DEF TypeOK, LogTypeOK
    <2>4. evs'[w] = evs[w] \cup {e}
        BY <2>1 DEF TypeOK
    <2>5. DropReady(w)'
        <3>1. LET f == ActiveEvent(Current(w), row)
              IN  f \in EventsOf(e.id) /\ f.status = ACTIVE /\ f.hash = e.hash
            BY <1>2, <1>4, <1>7, <2>2
               DEF LogInv, CacheHasEvent, ActiveEvent, EventsOf
        <3>2. \E f \in EventsOf(e.id) : f.status = ACTIVE /\ f.hash = e.hash
            BY <3>1
        <3> QED
            BY <1>1, <2>1, <2>2, <2>4, <3>2 DEF DropReady, EventsOf
    <2>6. TxOK(w)'
        BY <1>1, <1>2, <2>1, <2>5 DEF TxOK, Current
    <2>7. AnswersAreLogged' /\ KeysReserved'
        BY <2>1, <2>2, KeyAdded DEF AnswersAreLogged
    <2>8. ~Overlapping => SerialTx(w)'
        <3> SUFFICES ASSUME ~Overlapping PROVE SerialTx(w)'
            OBVIOUS
        <3>1. SerialTx(w)
            OBVIOUS
        <3>2. cache[e.id] # None /\ e.hash = cache[e.id].hash
            BY <1>4, <1>7, <2>2
        <3> QED
            BY <1>1, <2>1, <2>2, <2>4, <3>1, <3>2 DEF SerialTx, Current, Visible
    <2> QED
        BY <2>1, <2>3, <2>6, <2>7, <2>8, QuietStep
<1> QED
    BY <1>5, <1>6, <1>7

LEMMA DropDeleteKeepsInv ==
    ASSUME NEW w \in Writers, StoreInv, DropDelete(w)
    PROVE  StoreInv'
<1> USE DEF StoreInv
<1>1. /\ pc[w] = "delete" /\ todo[w] # <<>> /\ DropReady(w)
      /\ ver[w] <= now /\ Current(w) \in Ids
    BY DEF DropDelete, TxOK
<1>2. /\ UNCHANGED <<now, cache, events, hash, ver, answer, evs, failed, reply>>
      /\ todo' = [todo EXCEPT ![w] = Tail(todo[w])]
      /\ pc' = [pc EXCEPT ![w] = IF Tail(todo[w]) = <<>> THEN "commit" ELSE "insertDropped"]
      /\ rows' = IF Visible(w, Current(w)) = None
                 THEN rows ELSE [rows EXCEPT ![w][Current(w)] = None]
    BY DEF DropDelete, Current
<1>3. \A u \in Writers \ {w} : Untouched(u)
    BY <1>2 DEF TypeOK, Untouched
<1>4. /\ todo'[w] = Tail(todo[w])
      /\ pc'[w] = IF Tail(todo[w]) = <<>> THEN "commit" ELSE "insertDropped"
      /\ \A i \in Ids : rows'[w][i] =
             IF i = Current(w) /\ Visible(w, i) # None THEN None ELSE rows[w][i]
    BY <1>1, <1>2 DEF TypeOK
<1>5. TypeOK'
    <2>1. Tail(todo[w]) \in Seq(Ids \cup {BadId})
        BY <1>1 DEF TypeOK
    <2>2. rows' \in [Writers -> [Ids -> Rows \cup {None, Same}]]
        BY <1>1, <1>2 DEF TypeOK
    <2> QED
        BY <1>2, <2>1, <2>2 DEF TypeOK, LogTypeOK, Steps
<1>6. DropReady(w)'
    BY <1>1, <1>2, <1>4 DEF DropReady, EventsOf
<1>7. TxOK(w)'
    BY <1>1, <1>2, <1>4, <1>6 DEF TxOK
<1>8. AnswersAreLogged' /\ KeysReserved'
    BY <1>2, KeysKept DEF AnswersAreLogged
<1>9. ~Overlapping => SerialTx(w)'
    <2> SUFFICES ASSUME ~Overlapping PROVE SerialTx(w)'
        OBVIOUS
    <2>1. SerialTx(w)
        OBVIOUS
    <2>2. \A e \in evs[w] : rows'[w][e.id] = None
        <3> SUFFICES ASSUME NEW e \in evs[w] PROVE rows'[w][e.id] = None
            OBVIOUS
        <3>1. e.id \in Ids
            BY DEF TypeOK, Events
        <3>2. CASE e.id = Current(w)
            BY <1>1, <1>4, <2>1, <3>1, <3>2 DEF SerialTx, Visible, DropReady
        <3>3. CASE e.id # Current(w)
            BY <1>1, <1>4, <2>1, <3>1, <3>3 DEF SerialTx
        <3> QED
            BY <3>2, <3>3
    <2>3. \A i \in Ids : rows'[w][i] = None => \E e \in evs[w] : e.id = i
        BY <1>1, <1>4, <2>1 DEF SerialTx
    <2> QED
        BY <1>1, <1>2, <1>4, <2>1, <2>2, <2>3 DEF SerialTx
<1> QED
    BY <1>2, <1>3, <1>5, <1>7, <1>8, <1>9, QuietStep

LEMMA GetKeepsInv ==
    ASSUME NEW w \in Writers, NEW i \in Ids, StoreInv, Get(w, i)
    PROVE  StoreInv'
<1> USE DEF StoreInv
<1> DEFINE r == IF cache[i] = None THEN Refusal("Error")
                ELSE [code |-> "OK", id |-> i, row |-> cache[i]]
<1>1. /\ UNCHANGED <<now, cache, events, pc, todo, hash, ver, answer, rows, evs, failed>>
      /\ reply' = [reply EXCEPT ![w] = r]
    BY DEF Get
<1>2. r \in Replies
    BY RefusalType DEF Replies, Codes, TypeOK, LogTypeOK
<1>3. TypeOK'
    BY <1>1, <1>2 DEF TypeOK, LogTypeOK
<1>4. AnswersAreLogged'
    <2>1. r.row # None => ActiveEvent(r.id, r.row) \in events
        BY RefusalType DEF LogInv, CacheHasEvent, Codes
    <2> QED
        BY <1>1, <2>1 DEF AnswersAreLogged, TypeOK
<1>5. TxOK(w)'
    BY <1>1 DEF TxOK, PutReady, DropReady, Current, Written, NewRow, EventsOf
<1>6. KeysReserved'
    BY <1>1, KeysKept
<1>7. ~Overlapping => SerialTx(w)'
    BY <1>1 DEF SerialTx, DropReady, Visible, Current, EventsOf
<1>8. \A u \in Writers \ {w} : Untouched(u)
    BY <1>1 DEF Untouched
<1> QED
    BY <1>1, <1>3, <1>4, <1>5, <1>6, <1>7, <1>8, QuietStep

LEMMA TickKeepsInv ==
    ASSUME StoreInv, Tick
    PROVE  StoreInv'
<1> USE DEF StoreInv
<1>1. /\ UNCHANGED <<cache, events, pc, todo, hash, ver, answer, rows, evs, failed, reply>>
      /\ now' = now + 1 /\ now' \in Versions /\ now <= now'
    BY TimeAssumption DEF Tick, LogTick, TypeOK, LogTypeOK, Versions
<1>2. TypeOK'
    BY <1>1 DEF TypeOK, LogTypeOK
<1>3. LogInv' /\ AnswersAreLogged' /\ KeysReserved'
    BY <1>1, KeysKept DEF LogInv, CacheHasEvent, TombstonesHaveActive,
       EventKeysUnique, EventsOf, AnswersAreLogged
<1>4. ASSUME NEW u \in Writers PROVE TxOK(u)'
    <2>1. Untouched(u)
        BY <1>1 DEF Untouched
    <2> QED
        BY <1>1, <1>2, <2>1, UntouchedTx
<1>5. \A u \in Writers : SerialTx(u) => SerialTx(u)'
    BY <1>1 DEF SerialTx, DropReady, Visible, Current, EventsOf
<1>6. \A e \in events' : e.version <= now'
    BY <1>1 DEF TypeOK, LogTypeOK, Versions, Events
<1> QED
    BY <1>2, <1>3, <1>4, <1>5, <1>6

-----------------------------------------------------------------------------
(* Commit, and the refinement *)

\* What a transaction commits is a stutter, a LogPut or a LogDrop.
LEMMA CommitImplementsLog ==
    ASSUME NEW w \in Writers, StoreInv, Commit(w)
    PROVE  [LogNext]_logVars
<1> USE DEF StoreInv
<1>1. /\ pc[w] = "commit" /\ ~failed[w] /\ TxOK(w)
      /\ cache' = [i \in Ids |-> Visible(w, i)]
      /\ events' = events \cup evs[w]
      /\ UNCHANGED now
    BY DEF Commit, Return
<1>2. Committable(ver[w])
    BY <1>1 DEF Committable, TxOK, SerialTx
<1>3. \A e \in evs[w] : e.version = ver[w] => KeyFree(ver[w], e.id)
    BY DEF KeysReserved, SameKey, KeyFree, EventsOf
<1>4. CASE PutReady(w) /\ rows[w] = NoRows /\ evs[w] = {}
    <2>1. cache' = cache
        BY <1>1, <1>4 DEF Visible, NoRows, TypeOK, LogTypeOK
    <2> QED
        BY <1>1, <1>4, <2>1 DEF logVars
<1>5. CASE PutReady(w) /\ rows[w] = Written(w)
           /\ evs[w] = {ActiveEvent(Current(w), answer[w])}
           /\ hash[w] \in Hashes /\ answer[w] = NewRow(w)
    <2> DEFINE i == Current(w)
               e == ActiveEvent(i, answer[w])
    <2>1. i \in Ids /\ answer[w] \in Rows
        BY <1>5 DEF PutReady
    <2>2. e.version = ver[w] /\ e.id = i
        BY <1>5 DEF ActiveEvent, NewRow
    <2>3. KeyFree(ver[w], i)
        BY <1>3, <1>5, <2>2
    <2>4. cache' = [cache EXCEPT ![i] = NewRow(w)]
        BY <1>1, <1>5, <2>1, SameAssumption
           DEF Visible, Written, NoRows, TypeOK, LogTypeOK
    <2>5. LogPut(ver[w], i, hash[w])
        BY <1>1, <1>2, <1>5, <2>3, <2>4 DEF LogPut, NewRow
    <2>6. ver[w] \in Versions
        BY DEF TypeOK
    <2> QED
        BY <1>5, <2>1, <2>5, <2>6 DEF LogNext
<1>6. CASE DropReady(w)
    <2> DEFINE v == ver[w]
               gone == {i \in Ids : rows[w][i] = None /\ cache[i] # None}
               logged == {e.id : e \in evs[w]}
    <2>1. \A e, f \in evs[w] : e.id = f.id => e = f
        BY <1>6 DEF DropReady, KeysReserved, SameKey
    <2>2. evs[w] \subseteq Events
        BY DEF TypeOK
    <2>3. logged \in SUBSET Ids
        BY <2>2 DEF Events
    <2>4. PICK told \in [logged -> Hashes] : \A e \in evs[w] : told[e.id] = e.hash
        <3> DEFINE t == [i \in logged |-> (CHOOSE e \in evs[w] : e.id = i).hash]
        <3>1. ASSUME NEW e \in evs[w] PROVE t[e.id] = e.hash
            <4>1. (CHOOSE f \in evs[w] : f.id = e.id) = e
                BY <2>1
            <4> QED
                BY <4>1
        <3>2. \A i \in logged : t[i] \in Hashes
            BY <2>2, <3>1 DEF Events
        <3>3. t \in [logged -> Hashes]
            BY <3>2
        <3> QED
            BY <3>1, <3>3
    <2>5. events' = events \cup {DroppedEvent(v, i, told[i]) : i \in DOMAIN told}
        <3>1. \A e \in evs[w] : e = DroppedEvent(v, e.id, told[e.id])
            BY <1>6, <2>2, <2>4 DEF DropReady, DroppedEvent, Events
        <3>2. evs[w] = {DroppedEvent(v, i, told[i]) : i \in logged}
            BY <3>1
        <3> QED
            BY <1>1, <3>2
    <2>6. cache' = [i \in Ids |-> IF i \in gone THEN None ELSE cache[i]]
        <3>1. ASSUME NEW i \in Ids
              PROVE  Visible(w, i) = IF i \in gone THEN None ELSE cache[i]
            BY <1>6, SameAssumption DEF Visible, DropReady
        <3> QED
            BY <1>1, <3>1
    <2>7. \A i \in DOMAIN told :
              /\ KeyFree(v, i)
              /\ \E e \in EventsOf(i) : e.status = ACTIVE /\ e.hash = told[i]
        <3>1. ASSUME NEW e \in evs[w]
              PROVE  /\ KeyFree(v, e.id)
                     /\ \E f \in EventsOf(e.id) :
                            f.status = ACTIVE /\ f.hash = told[e.id]
            BY <1>3, <1>6, <2>4 DEF DropReady
        <3>2. DOMAIN told = logged
            OBVIOUS
        <3> QED
            BY <3>1, <3>2
    <2>8. ~Overlapping => /\ gone = DOMAIN told
                          /\ \A i \in gone : told[i] = cache[i].hash
        <3> SUFFICES ASSUME ~Overlapping
                     PROVE  /\ gone = logged
                            /\ \A i \in gone : told[i] = cache[i].hash
            OBVIOUS
        <3>1. SerialTx(w)
            OBVIOUS
        <3>2. \A e \in evs[w] : /\ e.id \in Ids /\ rows[w][e.id] = None
                                /\ cache[e.id] # None /\ e.hash = cache[e.id].hash
            BY <1>1, <1>6, <3>1, <2>2 DEF SerialTx, Events
        <3>3. \A i \in gone : i \in logged
            BY <1>6, <3>1 DEF SerialTx
        <3> QED
            BY <2>4, <3>2, <3>3
    <2>9. LogDrop(v, gone, told)
        BY <1>1, <1>2, <2>5, <2>6, <2>7, <2>8 DEF LogDrop
    <2>10. v \in Versions /\ gone \in SUBSET Ids
        BY DEF TypeOK
    <2>11. Overlapping \/ logged = gone
        <3>1. DOMAIN told = logged
            OBVIOUS
        <3> QED
            BY <2>8, <3>1
    <2> HIDE DEF gone, logged
    <2> QED
        BY <2>3, <2>4, <2>9, <2>10, <2>11 DEF LogNext
<1> QED
    BY <1>1, <1>4, <1>5, <1>6 DEF TxOK, PutReady

LEMMA CommitKeepsInv ==
    ASSUME NEW w \in Writers, StoreInv, Commit(w)
    PROVE  StoreInv'
<1> USE DEF StoreInv
<1>1. /\ pc[w] = "commit" /\ ~failed[w] /\ TxOK(w)
      /\ events' = events \cup evs[w] /\ UNCHANGED now
      /\ \/ Return(w, [code |-> "OK",
                       id |-> IF answer[w] = None THEN None ELSE Current(w),
                       row |-> answer[w]])
         \/ Return(w, Refusal("Error"))
    BY DEF Commit, Return, Current
<1>2. PICK r : Return(w, r) /\ (r.row # None => r.row = answer[w] /\ r.id = Current(w))
               /\ r \in Replies
    <2>1. answer[w] # None => Current(w) \in Ids
        BY <1>1 DEF TxOK, PutReady, DropReady
    <2>2. [code |-> "OK", id |-> IF answer[w] = None THEN None ELSE Current(w),
           row |-> answer[w]] \in Replies
        BY <2>1 DEF Replies, Codes, TypeOK
    <2> QED
        BY <1>1, <2>2, RefusalType DEF Codes
<1>3. /\ pc'[w] = "idle" /\ answer'[w] = None /\ rows'[w] = NoRows
      /\ evs'[w] = {} /\ ver'[w] = 0
      /\ \A u \in Writers \ {w} : Untouched(u)
    BY <1>2 DEF Return, TypeOK, Untouched
<1>4. [LogNext]_logVars
    BY CommitImplementsLog
<1>5. LogTypeOK' /\ LogInv'
    BY <1>4, LogTypeStep, LogInvStep DEF TypeOK
<1>6. TypeOK'
    <2>1. 0 \in Versions
        BY TimeAssumption DEF Versions
    <2> QED
        BY <1>2, <1>5, <2>1, NoRowsType DEF Return, TypeOK, Steps
<1>7. \A e \in events' : e.version <= now'
    <2>1. \A e \in evs[w] : e.version = ver[w]
        BY <1>1 DEF TxOK, PutReady, DropReady, ActiveEvent, NewRow
    <2> QED
        BY <1>1, <2>1 DEF TxOK
<1>8. AnswersAreLogged'
    <2>1. answer[w] # None => ActiveEvent(Current(w), answer[w]) \in events'
        BY <1>1 DEF TxOK, PutReady, DropReady
    <2>2. \A u \in Writers : reply'[u] = IF u = w THEN r ELSE reply[u]
        BY <1>2 DEF Return, TypeOK
    <2> QED
        BY <1>1, <1>2, <2>1, <2>2 DEF AnswersAreLogged
<1>9. ASSUME NEW u \in Writers PROVE TxOK(u)'
    <2>1. CASE u = w
        BY <1>1, <1>3, <2>1 DEF TxOK, TypeOK, LogTypeOK, Versions
    <2>2. CASE u # w
        <3>1. now <= now' /\ events \subseteq events'
            BY <1>1 DEF TypeOK, LogTypeOK, Versions
        <3> QED
            BY <1>3, <1>6, <2>2, <3>1, UntouchedTx
    <2> QED
        BY <2>1, <2>2
<1>10. KeysReserved'
    BY <1>1, <1>3 DEF KeysReserved, SameKey, Untouched
<1>11. ASSUME ~Overlapping, NEW u \in Writers PROVE SerialTx(u)'
    <2>1. u = w
        BY <1>11, OnlyWriter
    <2>2. \A i \in Ids : rows'[w][i] # None
        BY <1>3, SameAssumption DEF NoRows
    <2> QED
        BY <1>3, <2>1, <2>2 DEF SerialTx
<1> QED
    BY <1>5, <1>6, <1>7, <1>8, <1>9, <1>10, <1>11

LEMMA FailureKeepsInv ==
    ASSUME NEW w \in Writers, StoreInv, StatementFails(w)
    PROVE  StoreInv'
BY AbortKeepsInv, ErrorKeepsInv DEF StatementFails, Codes

LEMMA CallKeepsInv ==
    ASSUME NEW w \in Writers, StoreInv, Call(w)
    PROVE  StoreInv'
<1>1. ASSUME NEW i \in Ids, NEW h \in Hashes, PutBegin(w, i, h)
      PROVE  StoreInv'
    <2>1. <<i>> \in Seq(Ids \cup {BadId}) /\ <<i>> # <<>> /\ Head(<<i>>) = i
        OBVIOUS
    <2> QED
        BY <1>1, <2>1, BeginKeepsInv DEF PutBegin, Steps
<1>2. CASE PutInvalid(w)
    BY <1>2, ErrorKeepsInv DEF PutInvalid, Codes
<1>3. ASSUME NEW ids \in DropLists, DropBegin(w, ids) PROVE StoreInv'
    <2>1. ids \in Seq(Ids \cup {BadId})
        BY DropListsAssumption
    <2>2. CASE ids = <<>>
        BY <1>3, <2>1, <2>2, BeginKeepsInv DEF DropBegin, Steps
    <2>3. CASE ids # <<>>
        BY <1>3, <2>1, <2>3, BeginKeepsInv DEF DropBegin, Steps
    <2> QED
        BY <2>2, <2>3
<1>4. ASSUME NEW i \in Ids, Get(w, i) PROVE StoreInv'
    BY <1>4, GetKeepsInv
<1> QED
    BY <1>1, <1>2, <1>3, <1>4 DEF Call

LEMMA StatementKeepsInv ==
    ASSUME NEW w \in Writers, StoreInv, Statement(w)
    PROVE  StoreInv'
<1>1. CASE DropInvalid(w)
    BY <1>1, ErrorKeepsInv DEF DropInvalid, Codes
<1>2. CASE CommitFailed(w)
    BY <1>2, ErrorKeepsInv DEF CommitFailed, Codes
<1> QED
    BY <1>1, <1>2, SummaryKeepsInv, UpsertKeepsInv, InsertActiveKeepsInv,
       DropInsertKeepsInv, DropDeleteKeepsInv, CommitKeepsInv DEF Statement

LEMMA StoreInvInit == Init => StoreInv
<1> SUFFICES ASSUME Init PROVE StoreInv
    OBVIOUS
<1>1. TypeOK
    <2>1. <<>> \in Seq(Ids \cup {BadId}) /\ 0 \in Versions
        BY TimeAssumption DEF Versions
    <2> QED
        BY <2>1, NoRowsType DEF Init, LogInit, TypeOK, LogTypeOK, Steps
<1>2. LogInv
    BY DEF Init, LogInit, LogInv, CacheHasEvent, TombstonesHaveActive, EventKeysUnique
<1>3. \A w \in Writers : TxOK(w) /\ SerialTx(w)
    <2>1. \A i \in Ids : NoRows[i] # None
        BY SameAssumption DEF NoRows
    <2> QED
        BY <2>1 DEF Init, LogInit, TxOK, SerialTx
<1> QED
    BY <1>1, <1>2, <1>3 DEF StoreInv, Init, LogInit, AnswersAreLogged, KeysReserved

LEMMA StoreInvStep == StoreInv /\ [Next]_vars => StoreInv'
<1> SUFFICES ASSUME StoreInv, [Next]_vars PROVE StoreInv'
    OBVIOUS
<1>1. CASE UNCHANGED vars
    BY <1>1 DEF vars, StoreInv, TypeOK, LogTypeOK, LogInv, CacheHasEvent,
       TombstonesHaveActive, EventKeysUnique, EventsOf, AnswersAreLogged,
       TxOK, PutReady, DropReady, Current, Written, NewRow, KeysReserved,
       SerialTx, Visible
<1> QED
    BY <1>1, TickKeepsInv, CallKeepsInv, StatementKeepsInv, FailureKeepsInv
       DEF Next, DeadlockVictim

LEMMA StoreInvCorrect == Spec => []StoreInv
BY StoreInvInit, StoreInvStep, PTL DEF Spec

-----------------------------------------------------------------------------
(* One goroutine: what a Put has read still holds when it commits *)

\* A Put that writes nothing answers the row the store holds; one that writes
\* has found no row, or another content.
PutHolds(w) ==
    /\ pc[w] = "commit" /\ ~failed[w] /\ answer[w] # None /\ evs[w] = {} =>
           cache[Current(w)] = answer[w]
    /\ \/ pc[w] \in {"upsert", "insertActive"}
       \/ pc[w] = "commit" /\ answer[w] # None /\ evs[w] # {}
       => cache[Current(w)] = None \/ cache[Current(w)].hash # hash[w]

SerialInv ==
    /\ \A w \in Writers : PutHolds(w)
    /\ AnswersAreCurrent /\ NoRedundantEvent

LEMMA SerialInvInit == Init => SerialInv
BY DEF Init, LogInit, SerialInv, PutHolds, AnswersAreCurrent, NoRedundantEvent

\* A step that commits nothing and answers nothing new, or what the store holds.
LEMMA SerialQuietStep ==
    ASSUME ~Overlapping, NEW w \in Writers, TypeOK, SerialInv,
           UNCHANGED <<cache, events>>, PutHolds(w)',
           \/ reply' = reply
           \/ \E r : /\ reply' = [reply EXCEPT ![w] = r]
                     /\ r # None /\ r.row # None => cache[r.id] = r.row
    PROVE  SerialInv'
<1>1. \A u \in Writers : PutHolds(u)'
    BY OnlyWriter
<1>2. NoRedundantEvent'
    BY DEF SerialInv, NoRedundantEvent, EventsOf
<1>3. AnswersAreCurrent'
    <2>1. CASE reply' = reply
        BY <2>1 DEF SerialInv, AnswersAreCurrent
    <2>2. ASSUME NEW r, reply' = [reply EXCEPT ![w] = r],
                 r # None /\ r.row # None => cache[r.id] = r.row
          PROVE  AnswersAreCurrent'
        <3>1. \A u \in Writers : reply'[u] = IF u = w THEN r ELSE reply[u]
            BY <2>2 DEF TypeOK
        <3> QED
            BY <2>2, <3>1 DEF SerialInv, AnswersAreCurrent
    <2> QED
        BY <2>1, <2>2
<1> QED
    BY <1>1, <1>2, <1>3 DEF SerialInv

LEMMA SerialErrorStep ==
    ASSUME ~Overlapping, NEW w \in Writers, NEW c \in Codes, TypeOK, SerialInv,
           ReturnError(w, c)
    PROVE  SerialInv'
<1>1. PutHolds(w)'
    BY DEF ReturnError, Return, PutHolds, TypeOK
<1>2. Refusal(c).row = None
    BY RefusalType
<1>3. reply' = [reply EXCEPT ![w] = Refusal(c)] /\ UNCHANGED <<cache, events>>
    BY DEF ReturnError, Return
<1> QED
    BY <1>1, <1>2, <1>3, SerialQuietStep

LEMMA SerialAbortStep ==
    ASSUME ~Overlapping, NEW w \in Writers, TypeOK, SerialInv, PutAborted(w)
    PROVE  SerialInv'
<1>1. PutHolds(w)'
    BY DEF PutAborted, PutHolds, TypeOK
<1> QED
    BY <1>1, SerialQuietStep DEF PutAborted

LEMMA SerialCallStep ==
    ASSUME ~Overlapping, NEW w \in Writers, StoreInv, SerialInv, Call(w)
    PROVE  SerialInv'
<1>1. TypeOK /\ TxOK(w)
    BY DEF StoreInv
<1>2. ASSUME NEW ids, NEW h, NEW step, Begin(w, ids, h, step),
             step \in {"summary", "insertDropped", "commit"}
      PROVE  SerialInv'
    <2>1. answer'[w] = None /\ pc'[w] = step
        BY <1>1, <1>2 DEF Begin, TypeOK, TxOK
    <2>2. PutHolds(w)'
        BY <1>2, <2>1 DEF PutHolds
    <2>3. reply' = [reply EXCEPT ![w] = None] /\ UNCHANGED <<cache, events>>
        BY <1>2 DEF Begin
    <2> QED
        BY <1>1, <2>2, <2>3, SerialQuietStep
<1>3. CASE PutInvalid(w)
    BY <1>1, <1>3, SerialErrorStep DEF PutInvalid, Codes
<1>4. ASSUME NEW i \in Ids, Get(w, i) PROVE SerialInv'
    <2>1. PutHolds(w)'
        BY <1>4 DEF Get, PutHolds
    <2> DEFINE r == IF cache[i] = None THEN Refusal("Error")
                    ELSE [code |-> "OK", id |-> i, row |-> cache[i]]
    <2>2. r.row # None => cache[r.id] = r.row
        BY RefusalType DEF Codes
    <2>3. reply' = [reply EXCEPT ![w] = r] /\ UNCHANGED <<cache, events>>
        BY <1>4 DEF Get
    <2> HIDE DEF r
    <2> QED
        BY <1>1, <2>1, <2>2, <2>3, SerialQuietStep
<1> QED
    BY <1>2, <1>3, <1>4 DEF Call, PutBegin, DropBegin

LEMMA SerialStatementStep ==
    ASSUME ~Overlapping, NEW w \in Writers, StoreInv, SerialInv,
           Statement(w), ~Commit(w)
    PROVE  SerialInv'
<1>1. TypeOK /\ TxOK(w) /\ PutHolds(w)
    BY DEF StoreInv, SerialInv
<1>2. CASE PutSummary(w)
    <2>1. PutHolds(w)'
        BY <1>1, <1>2 DEF PutSummary, PutHolds, TypeOK, Current, TxOK
    <2> QED
        BY <1>1, <1>2, <2>1, SerialQuietStep DEF PutSummary
<1>3. CASE PutUpsert(w)
    <2>1. PutHolds(w)'
        BY <1>1, <1>3 DEF PutUpsert, PutHolds, TypeOK, Current
    <2> QED
        BY <1>1, <1>3, <2>1, SerialQuietStep DEF PutUpsert
<1>4. CASE PutInsertActive(w)
    <2>1. CASE PutAborted(w)
        BY <1>1, <2>1, SerialAbortStep
    <2>2. CASE ~PutAborted(w)
        <3>1. PICK e : /\ pc[w] = "insertActive"
                       /\ pc' = [pc EXCEPT ![w] = "commit"]
                       /\ evs' = [evs EXCEPT ![w] = @ \cup {e}]
                       /\ UNCHANGED <<now, cache, events, todo, hash, ver,
                                      answer, rows, failed, reply>>
            BY <1>4, <2>2 DEF PutInsertActive
        <3>2. pc'[w] = "commit" /\ evs'[w] # {}
            BY <1>1, <3>1 DEF TypeOK
        <3>3. PutHolds(w)'
            BY <1>1, <3>1, <3>2 DEF PutHolds, Current
        <3> QED
            BY <1>1, <3>1, <3>3, SerialQuietStep
    <2> QED
        BY <2>1, <2>2
<1>5. CASE DropInvalid(w)
    BY <1>1, <1>5, SerialErrorStep DEF DropInvalid, Codes
<1>6. CASE DropInsert(w)
    <2>1. CASE ReturnError(w, "Error")
        BY <1>1, <2>1, SerialErrorStep DEF Codes
    <2>2. CASE ~ReturnError(w, "Error")
        <3>1. pc' = [pc EXCEPT ![w] = "delete"] /\ UNCHANGED <<cache, events, reply>>
            BY <1>6, <2>2 DEF DropInsert
        <3>2. PutHolds(w)'
            BY <1>1, <3>1 DEF PutHolds, TypeOK
        <3> QED
            BY <1>1, <3>1, <3>2, SerialQuietStep
    <2> QED
        BY <2>1, <2>2
<1>7. CASE DropDelete(w)
    <2>1. /\ pc[w] = "delete" /\ answer' = answer
          /\ pc'[w] \in {"commit", "insertDropped"}
          /\ UNCHANGED <<cache, events, reply>>
        BY <1>1, <1>7 DEF DropDelete, TypeOK
    <2>2. answer[w] = None
        BY <1>1, <2>1 DEF TxOK, DropReady
    <2>3. PutHolds(w)'
        BY <2>1, <2>2 DEF PutHolds
    <2> QED
        BY <1>1, <2>1, <2>3, SerialQuietStep
<1>8. CASE CommitFailed(w)
    BY <1>1, <1>8, SerialErrorStep DEF CommitFailed, Codes
<1> QED
    BY <1>2, <1>3, <1>4, <1>5, <1>6, <1>7, <1>8 DEF Statement

LEMMA SerialFailureStep ==
    ASSUME ~Overlapping, NEW w \in Writers, StoreInv, SerialInv, StatementFails(w)
    PROVE  SerialInv'
<1>1. TypeOK
    BY DEF StoreInv
<1> QED
    BY <1>1, SerialAbortStep, SerialErrorStep DEF StatementFails, Codes

\* The row a Put commits differs from the row it replaces, whose event, or the
\* DROPPED event of the missing row, is newer than any older one with the same
\* content.
LEMMA SerialNoRedundantEvent ==
    ASSUME ~Overlapping, NEW w \in Writers, StoreInv, LogAgreesWithCache,
           SerialInv, Commit(w)
    PROVE  NoRedundantEvent'
<1> USE DEF StoreInv
<1>1. /\ pc[w] = "commit" /\ TxOK(w) /\ SerialTx(w) /\ PutHolds(w)
      /\ events' = events \cup evs[w]
    BY DEF Commit, SerialInv
<1>2. \A e \in events : e \in Events
    BY DEF TypeOK, LogTypeOK
<1>3. \A e \in evs[w] :
          /\ e \in Events /\ e.version = ver[w]
          /\ \A f \in events : f.id = e.id => f.version < e.version
    <2>1. \A e \in evs[w] : e \in Events /\ e.version = ver[w]
        BY <1>1 DEF TypeOK, TxOK, PutReady, DropReady, ActiveEvent, NewRow
    <2>2. \A e \in evs[w] : \A f \in events : f.id = e.id => f.version # e.version
        BY DEF KeysReserved, SameKey
    <2>3. \A f \in events : f.version <= ver[w]
        BY <1>1 DEF SerialTx
    <2> QED
        BY <1>2, <2>1, <2>2, <2>3 DEF Events, Versions
<1> SUFFICES ASSUME NEW e \in events', NEW f \in events',
                    e.status = ACTIVE, f.status = ACTIVE,
                    e.id = f.id, e.hash = f.hash, e.version < f.version
             PROVE  \E g \in EventsOf(e.id)' :
                        e.version < g.version /\ g.version < f.version
    BY DEF NoRedundantEvent, EventsOf
<1>4. CASE e \in events /\ f \in events
    BY <1>1, <1>4 DEF SerialInv, NoRedundantEvent, EventsOf
<1>5. CASE e \in evs[w]
    <2>1. f.version <= e.version
        BY <1>1, <1>2, <1>3, <1>5 DEF Events, Versions, SerialTx
    <2> QED
        BY <1>2, <1>3, <1>5, <2>1, <1>1 DEF Events, Versions
<1>6. CASE e \in events /\ f \in evs[w]
    <2> DEFINE i == Current(w)
    <2>1. ~DropReady(w)
        BY <1>6 DEF DropReady, ACTIVE, DROPPED
    <2>2. /\ answer[w] \in Rows /\ i \in Ids /\ answer[w] = NewRow(w)
          /\ evs[w] = {ActiveEvent(i, answer[w])}
        BY <1>1, <1>6, <2>1 DEF TxOK, PutReady
    <2>3. f.id = i /\ f.hash = hash[w]
        BY <1>6, <2>2 DEF ActiveEvent, NewRow
    <2>4. cache[i] = None \/ cache[i].hash # hash[w]
        BY <1>1, <1>6, <2>2, NoneAssumption DEF PutHolds
    <2>5. PICK g \in events : /\ g.id = i /\ e.version <= g.version
                              /\ g.status = DROPPED \/ g.hash # hash[w]
        <3>1. CASE cache[i] = None
            BY <1>6, <2>2, <2>3, <3>1 DEF LogAgreesWithCache, EventsOf
        <3>2. CASE cache[i] # None
            <4>1. ActiveEvent(i, cache[i]) \in events
                BY <2>2, <3>2 DEF LogInv, CacheHasEvent
            <4>2. e.version <= cache[i].version
                BY <1>6, <2>2, <2>3, <3>2 DEF LogAgreesWithCache, EventsOf
            <4> QED
                BY <4>1, <4>2, <3>2, <2>4 DEF ActiveEvent
        <3> QED
            BY <3>1, <3>2
    <2>6. e # g
        BY <2>3, <2>5 DEF ACTIVE, DROPPED
    <2>7. e.version # g.version
        BY <1>6, <2>3, <2>5, <2>6 DEF LogInv, EventKeysUnique
    <2>8. e.version < g.version
        BY <1>2, <1>6, <2>5, <2>7 DEF Events, Versions
    <2>9. g.version < f.version
        BY <1>3, <1>6, <2>3, <2>5
    <2> QED
        BY <1>1, <2>3, <2>5, <2>8, <2>9 DEF EventsOf
<1> QED
    BY <1>1, <1>4, <1>5, <1>6

LEMMA SerialCommitStep ==
    ASSUME ~Overlapping, NEW w \in Writers, StoreInv, LogAgreesWithCache,
           SerialInv, Commit(w)
    PROVE  SerialInv'
<1> USE DEF StoreInv
<1>1. /\ pc[w] = "commit" /\ ~failed[w] /\ TxOK(w) /\ PutHolds(w)
      /\ cache' = [i \in Ids |-> Visible(w, i)]
    BY DEF Commit, SerialInv
<1>2. PICK r : Return(w, r) /\ (r.row # None => r.row = answer[w] /\ r.id = Current(w))
    BY RefusalType DEF Commit, Current, Codes
<1>3. pc'[w] = "idle" /\ reply'[w] = r
    BY <1>2 DEF Return, TypeOK
<1>4. \A u \in Writers : PutHolds(u)'
    BY <1>3, OnlyWriter DEF PutHolds
<1>5. answer[w] # None => cache'[Current(w)] = answer[w]
    <2> SUFFICES ASSUME answer[w] # None PROVE cache'[Current(w)] = answer[w]
        OBVIOUS
    <2>1. PutReady(w)
        BY <1>1 DEF TxOK, DropReady
    <2>2. Current(w) \in Ids /\ answer[w] # Same
        BY <2>1, SameAssumption DEF PutReady
    <2>3. CASE rows[w] = NoRows /\ evs[w] = {}
        BY <1>1, <2>2, <2>3 DEF PutHolds, Visible, NoRows
    <2>4. CASE rows[w] = Written(w)
        <3>1. rows[w][Current(w)] = answer[w]
            BY <2>2, <2>4 DEF Written, NoRows
        <3> QED
            BY <1>1, <2>2, <3>1 DEF Visible
    <2> QED
        BY <2>1, <2>3, <2>4 DEF PutReady
<1>6. AnswersAreCurrent'
    <2> SUFFICES ASSUME NEW u \in Writers, reply'[u] # None, reply'[u].row # None
                 PROVE  cache'[reply'[u].id] = reply'[u].row
        BY DEF AnswersAreCurrent
    <2>1. u = w
        BY OnlyWriter
    <2> QED
        BY <1>2, <1>3, <1>5, <2>1
<1> QED
    BY <1>4, <1>6, SerialNoRedundantEvent DEF SerialInv

LEMMA SerialInvStep ==
    ASSUME ~Overlapping
    PROVE  StoreInv /\ LogAgreesWithCache /\ SerialInv /\ [Next]_vars => SerialInv'
<1> SUFFICES ASSUME StoreInv, LogAgreesWithCache, SerialInv, [Next]_vars
             PROVE  SerialInv'
    OBVIOUS
<1>1. CASE Tick \/ UNCHANGED vars
    <2>1. UNCHANGED <<cache, events, pc, todo, hash, answer, evs, failed, reply>>
        BY <1>1 DEF Tick, LogTick, vars
    <2> QED
        BY <2>1 DEF SerialInv, PutHolds, Current, AnswersAreCurrent,
           NoRedundantEvent, EventsOf
<1>2. ASSUME NEW w \in Writers, Statement(w) PROVE SerialInv'
    BY <1>2, SerialStatementStep, SerialCommitStep
<1> QED
    BY <1>1, <1>2, SerialCallStep, SerialFailureStep DEF Next, DeadlockVictim

-----------------------------------------------------------------------------
(* The theorems *)

\* Every behaviour of the handlers is well typed.
THEOREM StoreTypeCorrect == Spec => []TypeOK
<1>1. StoreInv => TypeOK
    BY DEF StoreInv
<1> QED
    BY <1>1, StoreInvCorrect, PTL

\* A statement that is not a Commit leaves the two tables alone.
LEMMA StepImplementsLog == StoreInv /\ [Next]_vars => [LogNext]_logVars
<1> SUFFICES ASSUME StoreInv, [Next]_vars PROVE [LogNext]_logVars
    OBVIOUS
<1>1. CASE Tick
    BY <1>1 DEF Tick, LogNext
<1>2. ASSUME NEW w \in Writers, Commit(w) PROVE [LogNext]_logVars
    BY <1>2, CommitImplementsLog
<1>3. ASSUME NEW w \in Writers, Call(w) PROVE UNCHANGED logVars
    BY <1>3 DEF Call, PutBegin, PutInvalid, DropBegin, Get, Begin, ReturnError, Return, logVars
<1>4. ASSUME NEW w \in Writers, StatementFails(w) PROVE UNCHANGED logVars
    BY <1>4 DEF StatementFails, PutAborted, ReturnError, Return, logVars
<1>5. ASSUME NEW w \in Writers, Statement(w), ~Commit(w) PROVE UNCHANGED logVars
    BY <1>5 DEF Statement, PutSummary, PutUpsert, PutInsertActive, PutAborted,
       DropInvalid, DropInsert, DropDelete, CommitFailed, ReturnError, Return, logVars
<1>6. CASE UNCHANGED vars
    BY <1>6 DEF vars, logVars
<1> QED
    BY <1>1, <1>2, <1>3, <1>4, <1>5, <1>6 DEF Next, DeadlockVictim

\* The handlers implement the abstract store, for any number of concurrent
\* calls: a call takes effect as a whole when it commits, or not at all.
THEOREM StoreImplementsChangeLog == Spec => ImplementsChangeLog
<1>1. Init => LogInit
    BY DEF Init
<1> QED
    BY <1>1, StepImplementsLog, StoreInvCorrect, PTL
       DEF Spec, ImplementsChangeLog, LogSpec

\* The cache never holds a resource that no event announces, although Put
\* ignores the errors of its statements.
THEOREM StoreCacheHasEvent == Spec => []CacheHasEvent
<1>1. LogInv => CacheHasEvent
    BY DEF LogInv
<1> QED
    BY <1>1, StoreImplementsChangeLog, LogIsConsistent, PTL DEF ImplementsChangeLog

\* A version that Put or Get answers is one an ACTIVE event announces.
THEOREM StoreAnswersAreLogged == Spec => []AnswersAreLogged
<1>1. StoreInv => AnswersAreLogged
    BY DEF StoreInv
<1> QED
    BY <1>1, StoreInvCorrect, PTL

\* With one goroutine, the log agrees with the cache.
THEOREM StoreSerialLogAgrees ==
    ASSUME ~Overlapping
    PROVE  Spec => []LogAgreesWithCache
BY StoreImplementsChangeLog, SerialLogAgrees, PTL DEF ImplementsChangeLog

\* With one goroutine, no resource leaves the cache without a DROPPED event.
THEOREM StoreSerialDropsAreLogged ==
    ASSUME ~Overlapping
    PROVE  Spec => DropsAreLogged
BY StoreImplementsChangeLog, SerialDropsAreLogged, PTL DEF ImplementsChangeLog

LEMMA SerialInvCorrect ==
    ASSUME ~Overlapping
    PROVE  Spec => []SerialInv
BY SerialInvInit, SerialInvStep, StoreInvCorrect, StoreSerialLogAgrees, PTL DEF Spec

\* With one goroutine, what Put or Get answered is what the store holds until
\* the next call: a Put that writes nothing answers the row it found, one that
\* writes answers the row it commits, and an aborted one answers no row.
THEOREM StoreSerialAnswersAreCurrent ==
    ASSUME ~Overlapping
    PROVE  Spec => []AnswersAreCurrent
<1>1. SerialInv => AnswersAreCurrent
    BY DEF SerialInv
<1> QED
    BY <1>1, SerialInvCorrect, PTL

\* With one goroutine, a repeated Put logs nothing: an event with the content of
\* an earlier one is logged only after another event of the resource.
THEOREM StoreSerialNoRedundantEvent ==
    ASSUME ~Overlapping
    PROVE  Spec => []NoRedundantEvent
<1>1. SerialInv => NoRedundantEvent
    BY DEF SerialInv
<1> QED
    BY <1>1, SerialInvCorrect, PTL
=============================================================================

---------------------------- MODULE WatchProofs ----------------------------
(***************************************************************************)
(* Proofs about one stream of Watch, for all constants and also when calls *)
(* of the store overlap: the cursor never passes an event above it that    *)
(* the stream has not sent, and events are sent in key order.              *)
(***************************************************************************)
EXTENDS Watch, ResourceStoreProofs, FiniteSetTheorems, WellFoundedInduction

\* The cursor is taken after the listing, and bounds what has been sent.
CursorInv ==
    /\ LogTypeOK
    /\ cursor \in Keys \cup {None}
    /\ sent \subseteq Events
    /\ wpc \in {"list", "max"} => cursor = None
    /\ wpc = "poll" => cursor \in Keys
    /\ cursor = None => sent = {}
    /\ cursor # None => \A e \in sent : ~Above(e)

LEMMA KeyType == \A e \in Events : Key(e) \in Keys
BY DEF Key, Events, Keys

\* The order of keys is total.
LEMMA KeyOrder ==
    /\ \A k, l, m \in Keys : Before(k, l) /\ Before(l, m) => Before(k, m)
    /\ \A k, l \in Keys : Before(k, l) => ~Before(l, k)
    /\ \A k, l \in Keys : ~Before(k, l) => k = l \/ Before(l, k)
    /\ \A k \in Keys : ~Before(k, k)
<1>1. \A k \in Keys : k.version \in Int /\ k.id \in Int
    <2>1. \A k \in Keys : k.version \in Versions
        BY DEF Keys
    <2>2. \A k \in Keys : k.id \in Ids
        BY DEF Keys
    <2>3. \A v \in Versions : v \in Int
        BY TimeAssumption DEF Versions
    <2>4. \A i \in Ids : i \in Int
        BY IdsAssumption
    <2> QED
        BY <2>1, <2>2, <2>3, <2>4
<1>2. \A k, l \in Keys : k.version = l.version /\ k.id = l.id => k = l
    BY DEF Keys
<1>3. \A k, l, m \in Keys : Before(k, l) /\ Before(l, m) => Before(k, m)
    BY <1>1 DEF Before
<1>4. \A k, l \in Keys : Before(k, l) => ~Before(l, k)
    BY <1>1 DEF Before
<1>5. \A k, l \in Keys : ~Before(k, l) => k = l \/ Before(l, k)
    BY <1>1, <1>2 DEF Before
<1>6. \A k \in Keys : ~Before(k, k)
    BY <1>1 DEF Before
<1> QED
    BY <1>3, <1>4, <1>5, <1>6

\* One page moves the cursor to the greatest event it sends, past nothing else.
LEMMA PollPage ==
    ASSUME CursorInv, Poll
    PROVE  \E page \in SUBSET Unsent :
               /\ SendPage(page) /\ sent' = sent \cup page
               /\ cursor' \in Keys
               /\ cursor' = cursor \/ Before(cursor, cursor')
               /\ \A e \in page : ~Before(cursor', Key(e))
               /\ \A e \in events : Above(e) /\ e \notin page =>
                      Before(cursor', Key(e))
<1>1. cursor \in Keys /\ events \subseteq Events
    BY DEF CursorInv, Poll, LogTypeOK
<1>2. PICK page \in SUBSET Unsent :
          /\ FirstEvents(page, Unsent, PageSize)
          /\ \/ page = {} /\ cursor' = cursor
             \/ \E e \in page : IsNewest(e, page) /\ cursor' = Key(e)
          /\ SendPage(page) /\ sent' = sent \cup page
    BY DEF Poll, SendPage
<1>3. \A e \in page, f \in Unsent \ page : Before(Key(e), Key(f))
    BY <1>2 DEF FirstEvents
<1>4. CASE page = {} /\ cursor' = cursor
    BY <1>1, <1>2, <1>4 DEF Above, Unsent
<1>5. CASE \E e \in page : IsNewest(e, page) /\ cursor' = Key(e)
    <2>1. PICK e \in page : IsNewest(e, page) /\ cursor' = Key(e)
        BY <1>5
    <2>2. cursor' \in Keys /\ Before(cursor, cursor')
        BY <1>1, <2>1, KeyType DEF Above, Unsent
    <2>3. \A f \in page : ~Before(cursor', Key(f))
        BY <1>1, <2>1, KeyType, KeyOrder DEF IsNewest, Unsent
    <2>4. \A f \in events : Above(f) /\ f \notin page => Before(cursor', Key(f))
        BY <1>3, <2>1 DEF Unsent
    <2> QED
        BY <1>2, <2>2, <2>3, <2>4
<1> QED
    BY <1>2, <1>4, <1>5

LEMMA CursorInvStep == CursorInv /\ [WatchNext]_watchVars => CursorInv'
<1> SUFFICES ASSUME CursorInv, [WatchNext]_watchVars PROVE CursorInv'
    OBVIOUS
<1> USE DEF CursorInv
<1>1. CASE Store
    <2>1. LogTypeOK'
        BY <1>1, LogTypeStep DEF Store, Observe
    <2> QED
        BY <1>1, <2>1 DEF Store, Observe, Above
<1>2. CASE List
    <2>1. wpc' \in {"list", "max"}
        BY <1>2 DEF List
    <2> QED
        BY <1>2, <2>1 DEF List, LogTypeOK, Above
<1>3. CASE MaxVersionIndex
    <2>1. cursor' \in Keys \cup {None}
        BY <1>3, KeyType DEF MaxVersionIndex, IsNewest, LogTypeOK
    <2> QED
        BY <1>3, <2>1 DEF MaxVersionIndex, LogTypeOK
<1>4. CASE Wake
    BY <1>4 DEF Wake, LogTypeOK, Above
<1>5. CASE Poll
    <2>1. PICK page \in SUBSET Unsent :
              /\ sent' = sent \cup page
              /\ cursor' \in Keys
              /\ cursor' = cursor \/ Before(cursor, cursor')
              /\ \A e \in page : ~Before(cursor', Key(e))
        BY <1>5, PollPage
    <2>2. cursor \in Keys /\ UNCHANGED <<now, cache, events>> /\ wpc' \in {"wait", "poll"}
        BY <1>5 DEF Poll, SendPage
    <2>3. LogTypeOK'
        BY <2>2 DEF LogTypeOK
    <2>4. sent' \subseteq Events
        BY <2>1 DEF LogTypeOK, Unsent
    <2>5. ASSUME NEW e \in sent PROVE ~Before(cursor', Key(e))
        <3>1. cursor # None => ~Before(cursor, Key(e))
            BY <2>2 DEF Above
        <3>2. CASE cursor = None
            BY <2>5, <3>2
        <3>3. CASE cursor # None
            BY <2>1, <2>2, <3>1, <3>3, KeyType, KeyOrder
        <3> QED
            BY <3>2, <3>3
    <2>6. \A e \in sent' : ~Above(e)'
        BY <2>1, <2>5 DEF Above, Unsent
    <2> QED
        <3>1. cursor' = None => sent' = {}
            BY <2>1, <2>2, <2>6, CursorAssumption
        <3> QED
            BY <2>1, <2>2, <2>3, <2>4, <2>6, <3>1
<1>6. CASE Fail
    BY <1>6 DEF Fail, LogTypeOK, Above
<1>7. CASE Restart
    BY <1>7 DEF Restart, LogTypeOK
<1>8. CASE UNCHANGED watchVars
    BY <1>8 DEF watchVars, LogTypeOK, Above
<1> QED
    BY <1>1, <1>2, <1>3, <1>4, <1>5, <1>6, <1>7, <1>8 DEF WatchNext, Stream

LEMMA CursorInvCorrect == WatchSpec => []CursorInv
<1>1. WatchInit => CursorInv
    BY TimeAssumption
       DEF WatchInit, LogInit, NewStream, CursorInv, LogTypeOK, Versions
<1> QED
    BY <1>1, CursorInvStep, PTL DEF WatchSpec

-----------------------------------------------------------------------------
(* What the client holds, when calls do not overlap *)

\* Before the first page of a listing, and as long as the store has no events,
\* the client holds nothing.
Blank ==
    \/ wpc = "list" /\ offset = 0
    \/ wpc = "wait" /\ cursor = None
    => \A i \in Ids : view[i] = None

\* However the next page breaks the ties, the rows it skips have been sent, but
\* for the gaps of the listing.
Listing ==
    wpc = "list" =>
        /\ \A i \in Ids \ unlisted : cache[i] = None => view[i] = None
        /\ \A S \in SUBSET Cached : FirstRows(S, Cached, offset) =>
               \A i \in S \ unlisted : view[i] = cache[i].hash

Listed == wpc = "max" => \A i \in Ids \ unlisted : InStep(i)

\* The events of i that the stream has left behind, and the newest of them.
Passed(i) == {e \in EventsOf(i) : ~Above(e)}

LastPassed(i, e) == e \in Passed(i) /\ \A f \in Passed(i) : f.version <= e.version

\* The client holds what the newest event behind the cursor says.
Replayed(i) ==
    /\ Passed(i) = {} => view[i] = None
    /\ \A e \in Passed(i) : LastPassed(i, e) =>
           view[i] = IF e.status = ACTIVE THEN e.hash ELSE None

Excepted == unlisted \cup Missed \cup crossed

WatchInv ==
    /\ WatchTypeOK
    /\ CursorInv
    /\ IsFiniteSet(Cached)
    /\ sent \subseteq events /\ watched \subseteq events
    /\ wpc \notin {"list", "done"} => offset = 0
    /\ events = {} => unlisted = {}
    /\ Blank /\ Listing /\ Listed
    /\ cursor # None => \A i \in Ids \ Excepted : Replayed(i)

-----------------------------------------------------------------------------
(* Lemmas about pages *)

LEMMA MinOfTwo ==
    ASSUME NEW a \in Nat, NEW b \in Nat
    PROVE  Min({a, b}) = IF a <= b THEN a ELSE b
<1>1. \E x \in {a, b} : \A y \in {a, b} : x <= y
    OBVIOUS
<1>2. Min({a, b}) \in {a, b} /\ \A y \in {a, b} : Min({a, b}) <= y
    BY <1>1 DEF Min
<1> QED
    BY <1>2

LEMMA PageSizes ==
    ASSUME NEW C, IsFiniteSet(C), NEW k \in Nat, NEW T, IsPage(T, C, k)
    PROVE  /\ IsFiniteSet(T) /\ T \subseteq C
           /\ Cardinality(T) \in Nat /\ Cardinality(C) \in Nat
           /\ Cardinality(T) = IF k <= Cardinality(C) THEN k ELSE Cardinality(C)
<1>1. T \in SUBSET C /\ Cardinality(T) = Min({k, Cardinality(C)})
    BY DEF IsPage
<1>2. IsFiniteSet(T) /\ Cardinality(T) \in Nat /\ Cardinality(C) \in Nat
    BY <1>1, FS_Subset, FS_CardinalityType
<1> QED
    BY <1>1, <1>2, MinOfTwo

\* The rows that a page leaves, and the rows up to the end of the page.
LEMMA PageEnd ==
    ASSUME NEW C, IsFiniteSet(C), NEW k \in Nat, NEW n \in Nat,
           NEW S, IsPage(S, C, k), NEW T, IsPage(T, C \ S, n)
    PROVE  /\ IsPage(S \cup T, C, k + n)
           /\ Cardinality(T) < n => S \cup T = C
<1>1. /\ IsFiniteSet(S) /\ S \subseteq C
      /\ Cardinality(S) \in Nat /\ Cardinality(C) \in Nat
      /\ Cardinality(S) = IF k <= Cardinality(C) THEN k ELSE Cardinality(C)
    BY PageSizes
<1>2. IsFiniteSet(C \ S)
    <2>1. C \ S \in SUBSET C
        OBVIOUS
    <2> QED
        BY <2>1, FS_Subset
<1>3. Cardinality(C \ S) = Cardinality(C) - Cardinality(S)
    <2>1. S \cup (C \ S) = C /\ S \cap (C \ S) = {}
        BY <1>1
    <2>2. Cardinality(S \cup (C \ S))
              = Cardinality(S) + Cardinality(C \ S) - Cardinality(S \cap (C \ S))
        BY <1>1, <1>2, FS_Union
    <2>3. Cardinality(C \ S) \in Nat
        BY <1>2, FS_CardinalityType
    <2> QED
        BY <1>1, <2>1, <2>2, <2>3, FS_EmptySet
<1>4. /\ IsFiniteSet(T) /\ T \subseteq C \ S
      /\ Cardinality(T) \in Nat /\ Cardinality(C \ S) \in Nat
      /\ Cardinality(T) = IF n <= Cardinality(C \ S) THEN n ELSE Cardinality(C \ S)
    BY <1>2, PageSizes
<1>5. Cardinality(S \cup T) = Cardinality(S) + Cardinality(T)
    <2>1. S \cap T = {}
        BY <1>4
    <2>2. Cardinality(S \cup T)
              = Cardinality(S) + Cardinality(T) - Cardinality(S \cap T)
        BY <1>1, <1>4, FS_Union
    <2> QED
        BY <1>1, <1>4, <2>1, <2>2, FS_EmptySet
<1>6. IsPage(S \cup T, C, k + n)
    <2>1. Cardinality(S \cup T)
              = IF k + n <= Cardinality(C) THEN k + n ELSE Cardinality(C)
        BY <1>1, <1>3, <1>4, <1>5
    <2>2. k + n \in Nat
        OBVIOUS
    <2>3. S \cup T \subseteq C
        BY <1>1, <1>4
    <2> QED
        BY <1>1, <2>1, <2>2, <2>3, MinOfTwo DEF IsPage
<1>7. Cardinality(T) < n => S \cup T = C
    <2> SUFFICES ASSUME Cardinality(T) < n PROVE S \cup T = C
        OBVIOUS
    <2>1. Cardinality(C \ S) = Cardinality(T) /\ T \in SUBSET (C \ S)
        BY <1>4
    <2>2. C \ S = T
        BY <1>2, <2>1, FS_Subset
    <2> QED
        BY <1>1, <2>2
<1> QED
    BY <1>6, <1>7

\* Two ways to begin the listing differ only in rows that tie.
LEMMA TiesOnly ==
    ASSUME NEW C, IsFiniteSet(C), NEW k \in Nat, NEW S, NEW T,
           FirstRows(S, C, k), FirstRows(T, C, k), NEW i \in S, i \notin T,
           \A j \in C : cache[j].version \in Int
    PROVE  \E j \in T : cache[j].version = cache[i].version
<1>1. /\ IsFiniteSet(S) /\ S \subseteq C /\ T \subseteq C
      /\ Cardinality(S) = Cardinality(T)
    BY PageSizes DEF FirstRows
<1>2. PICK j \in T : j \notin S
    <2> SUFFICES ASSUME T \in SUBSET S PROVE FALSE
        OBVIOUS
    <2>1. S = T
        BY <1>1, FS_Subset
    <2> QED
        BY <2>1
<1>3. cache[i].version <= cache[j].version /\ cache[j].version <= cache[i].version
    BY <1>1, <1>2 DEF FirstRows
<1> QED
    BY <1>1, <1>2, <1>3

-----------------------------------------------------------------------------
(* Lemmas about the store *)

\* A commit adds events, one for every resource it changes.
LEMMA SerialChange ==
    ASSUME ~Overlapping, LogTypeOK, LogNext
    PROVE  /\ events \subseteq events'
           /\ \A i \in Ids : cache'[i] # cache[i] =>
                  \E e \in events' \ events : e.id = i
           /\ IsFiniteSet(Cached) => IsFiniteSet(Cached')
<1>1. CASE LogTick
    BY <1>1 DEF LogTick, Cached
<1>2. ASSUME NEW v \in Versions, NEW i \in Ids, NEW h \in Hashes, LogPut(v, i, h)
      PROVE  /\ events \subseteq events'
             /\ \A j \in Ids : cache'[j] # cache[j] =>
                    \E e \in events' \ events : e.id = j
             /\ IsFiniteSet(Cached) => IsFiniteSet(Cached')
    <2> DEFINE row == [version |-> v, hash |-> h]
    <2>1. /\ cache' = [cache EXCEPT ![i] = row]
          /\ events' = events \cup {ActiveEvent(i, row)}
          /\ \A e \in EventsOf(i) : e.version # v
        BY <1>2 DEF LogPut, KeyFree
    <2>2. ActiveEvent(i, row).version = v /\ ActiveEvent(i, row).id = i
        BY DEF ActiveEvent
    <2>3. ActiveEvent(i, row) \notin events
        BY <2>1, <2>2 DEF EventsOf
    <2>4. \A j \in Ids : j # i => cache'[j] = cache[j]
        BY <2>1 DEF LogTypeOK
    <2>5. Cached' \in SUBSET (Cached \cup {i})
        BY <2>4 DEF Cached
    <2>6. IsFiniteSet(Cached) => IsFiniteSet(Cached')
        BY <2>5, FS_AddElement, FS_Subset
    <2> QED
        BY <2>1, <2>2, <2>3, <2>4, <2>6
<1>3. ASSUME NEW v \in Versions, NEW gone \in SUBSET Ids, NEW logged \in SUBSET Ids,
             NEW told \in [logged -> Hashes], LogDrop(v, gone, told)
      PROVE  /\ events \subseteq events'
             /\ \A j \in Ids : cache'[j] # cache[j] =>
                    \E e \in events' \ events : e.id = j
             /\ IsFiniteSet(Cached) => IsFiniteSet(Cached')
    <2>1. /\ cache' = [i \in Ids |-> IF i \in gone THEN None ELSE cache[i]]
          /\ events' = events \cup {DroppedEvent(v, i, told[i]) : i \in DOMAIN told}
          /\ gone = DOMAIN told
          /\ \A i \in DOMAIN told : KeyFree(v, i)
        BY <1>3 DEF LogDrop
    <2>2. ASSUME NEW i \in gone PROVE \E e \in events' \ events : e.id = i
        <3>1. DroppedEvent(v, i, told[i]).version = v
              /\ DroppedEvent(v, i, told[i]).id = i
            BY DEF DroppedEvent
        <3>2. DroppedEvent(v, i, told[i]) \notin events
            BY <2>1, <3>1 DEF KeyFree, EventsOf
        <3> QED
            BY <2>1, <3>1, <3>2
    <2>3. Cached' \in SUBSET Cached
        BY <2>1 DEF Cached
    <2>4. IsFiniteSet(Cached) => IsFiniteSet(Cached')
        BY <2>3, FS_Subset
    <2> QED
        BY <2>1, <2>2, <2>4
<1> QED
    BY <1>1, <1>2, <1>3 DEF LogNext

\* Replaying the whole log of a resource gives its cached content.
LEMMA NewestEvent ==
    ASSUME LogTypeOK, LogInv, LogAgreesWithCache, NEW i \in Ids
    PROVE  /\ EventsOf(i) = {} => cache[i] = None
           /\ \A e \in EventsOf(i) :
                  (\A f \in EventsOf(i) : f.version <= e.version) =>
                      IF cache[i] = None THEN e.status = DROPPED
                      ELSE e.status = ACTIVE /\ e.hash = cache[i].hash
<1>1. /\ cache[i] # None => ActiveEvent(i, cache[i]) \in EventsOf(i)
      /\ \A e \in EventsOf(i) : e \in Events
    BY DEF LogInv, CacheHasEvent, EventsOf, ActiveEvent, LogTypeOK
<1>2. \A e, f \in EventsOf(i) : e.version = f.version => e = f
    BY DEF LogInv, EventKeysUnique, EventsOf
<1>3. \A e \in EventsOf(i) : e.version \in Int
    BY <1>1, TimeAssumption DEF Events, Versions
<1> SUFFICES ASSUME NEW e \in EventsOf(i), \A f \in EventsOf(i) : f.version <= e.version
             PROVE  IF cache[i] = None THEN e.status = DROPPED
                    ELSE e.status = ACTIVE /\ e.hash = cache[i].hash
    BY <1>1
<1>4. CASE cache[i] = None
    <2>1. PICK d \in EventsOf(i) : d.status = DROPPED /\ e.version <= d.version
        BY <1>4 DEF LogAgreesWithCache
    <2>2. d = e
        BY <1>2, <1>3, <2>1
    <2> QED
        BY <1>4, <2>1, <2>2
<1>5. CASE cache[i] # None
    <2> DEFINE a == ActiveEvent(i, cache[i])
    <2>1. /\ a \in EventsOf(i) /\ a.version = cache[i].version
          /\ a.status = ACTIVE /\ a.hash = cache[i].hash
        BY <1>1, <1>5 DEF ActiveEvent
    <2>2. e.version <= cache[i].version
        BY <1>5 DEF LogAgreesWithCache
    <2> HIDE DEF a
    <2>3. e = a
        BY <1>2, <1>3, <2>1, <2>2
    <2> QED
        BY <1>5, <2>1, <2>3
<1> QED
    BY <1>4, <1>5

\* Among events there is a newest one.
LEMMA HasNewest ==
    ASSUME NEW E \in SUBSET Events, E # {}
    PROVE  \E e \in E : \A f \in E : f.version <= e.version
<1> DEFINE R == {p \in Nat \X Nat : p[1] < p[2]}
           S == {MaxTime - e.version : e \in E}
<1>1. IsWellFoundedOn(R, Nat)
    BY NatLessThanWellFounded, Zenon DEF OpToRel
<1>2. \A e \in E : e.version \in 0 .. MaxTime
    BY DEF Events, Versions
<1>3. S \subseteq Nat /\ S # {}
    BY <1>2, TimeAssumption
<1>4. PICK x \in S : \A y \in S : <<y, x>> \notin R
    <2> HIDE DEF R, S
    <2> QED
        BY <1>1, <1>3, WFMin
<1>5. PICK e \in E : x = MaxTime - e.version
    OBVIOUS
<1>6. ASSUME NEW f \in E PROVE f.version <= e.version
    <2>1. ~(MaxTime - f.version < MaxTime - e.version)
        BY <1>2, <1>3, <1>4, <1>5
    <2> QED
        BY <1>2, <2>1, TimeAssumption
<1> QED
    BY <1>6

-----------------------------------------------------------------------------
(* Type correctness *)

LEMMA ApplyType ==
    ASSUME NEW v \in [Ids -> Hashes \cup {None}], NEW page \in SUBSET Events
    PROVE  Apply(v, page) \in [Ids -> Hashes \cup {None}]
<1> SUFFICES ASSUME NEW i \in Ids PROVE Apply(v, page)[i] \in Hashes \cup {None}
    BY DEF Apply
<1> DEFINE E == {e \in page : e.id = i}
           c == CHOOSE e \in page : /\ e.id = i
                                    /\ \A f \in page : f.id = i => f.version <= e.version
<1>1. E # {} => c \in page
    <2> SUFFICES ASSUME E # {} PROVE c \in page
        OBVIOUS
    <2>1. \E e \in E : \A f \in E : f.version <= e.version
        <3>1. E \in SUBSET Events
            OBVIOUS
        <3> HIDE DEF E
        <3> QED
            BY <3>1, HasNewest
    <2> QED
        BY <2>1
<1>2. E # {} => c.hash \in Hashes
    BY <1>1 DEF Events
<1>3. Apply(v, page)[i] = IF \E e \in page : e.id = i /\ e.status = DROPPED THEN None
                          ELSE IF E # {} THEN c.hash ELSE v[i]
    BY DEF Apply
<1> HIDE DEF E, c
<1> QED
    BY <1>2, <1>3

LEMMA TypeStep ==
    WatchTypeOK /\ CursorInv /\ CursorInv' /\ [WatchNext]_watchVars => WatchTypeOK'
<1> SUFFICES ASSUME WatchTypeOK, CursorInv, CursorInv', [WatchNext]_watchVars
             PROVE  WatchTypeOK'
    OBVIOUS
<1> USE DEF WatchTypeOK
<1>1. LogTypeOK' /\ (cursor \in Keys \cup {None})' /\ (sent \in SUBSET Events)'
    BY DEF CursorInv
<1>2. CASE Store
    <2>1. events' \ events \subseteq Events
        BY <1>1 DEF LogTypeOK
    <2>2. {e.id : e \in events' \ events} \subseteq Ids
        BY <2>1 DEF Events
    <2>3. unlisted' \in SUBSET Ids /\ watched' \in SUBSET Events
        BY <1>2, <2>1, <2>2 DEF Store, Observe
    <2> QED
        BY <1>1, <1>2, <2>3 DEF Store, Observe
<1>3. CASE List
    <2>1. PICK skipped \in SUBSET Cached, page \in SUBSET Cached :
              /\ view' = [i \in Ids |->
                     IF i \in page THEN cache[i].hash ELSE view[i]]
              /\ wpc' \in {"max", "list"}
              /\ offset' = 0 \/ offset' = offset + PageSize
              /\ unlisted' = unlisted \cup Torn(skipped \cup page)
              /\ UNCHANGED <<watched, crossed>>
        BY <1>3 DEF List
    <2>2. \A i \in page : i \in Ids /\ cache[i] \in Rows
        BY DEF Cached, LogTypeOK
    <2>3. \A i \in page : cache[i].hash \in Hashes
        BY <2>2 DEF Rows
    <2>4. view' \in [Ids -> Hashes \cup {None}]
        BY <2>1, <2>3
    <2>5. Torn(skipped \cup page) \subseteq Ids
        BY DEF Torn, Cached
    <2>6. offset' \in Nat
        BY <2>1, PageSizeAssumption
    <2> QED
        BY <1>1, <2>1, <2>4, <2>5, <2>6 DEF Stages
<1>4. CASE MaxVersionIndex
    BY <1>1, <1>4 DEF MaxVersionIndex, Stages
<1>5. CASE Wake
    BY <1>1, <1>5 DEF Wake, Stages
<1>6. CASE Poll
    <2>1. PICK page \in SUBSET Unsent : SendPage(page)
        BY <1>6 DEF Poll
    <2>2. page \in SUBSET Events
        BY DEF Unsent, LogTypeOK
    <2>3. view' \in [Ids -> Hashes \cup {None}]
        BY <2>1, <2>2, ApplyType DEF SendPage
    <2>4. PutAfterDrop(page) \subseteq Ids
        BY <2>2 DEF PutAfterDrop, Events
    <2> QED
        BY <1>1, <2>1, <2>3, <2>4 DEF SendPage, Stages
<1>7. CASE Fail
    BY <1>1, <1>7 DEF Fail, Stages
<1>8. CASE Restart
    BY <1>1, <1>8 DEF Restart, Stages
<1>9. CASE UNCHANGED watchVars
    BY <1>1, <1>9 DEF watchVars
<1> QED
    BY <1>2, <1>3, <1>4, <1>5, <1>6, <1>7, <1>8, <1>9 DEF WatchNext, Stream

-----------------------------------------------------------------------------
(* The induction, one lemma per conjunct and action that can disturb it *)

\* A commit below the cursor is an exception, one above it changes nothing the
\* client should hold yet.
LEMMA StoreKeepsReplayed ==
    ASSUME ~Overlapping, WatchInv, Store, cursor # None,
           NEW i \in Ids \ Excepted', i \notin Excepted => Replayed(i)
    PROVE  Replayed(i)'
<1>1. /\ events \subseteq events' /\ watched' = watched \cup (events' \ events)
      /\ UNCHANGED <<cursor, view, sent, crossed>>
      /\ unlisted \subseteq unlisted'
    BY SerialChange DEF Store, Observe, WatchInv, WatchTypeOK
<1>2. \A e : Above(e)' <=> Above(e)
    BY <1>1 DEF Above
<1>3. i \notin Excepted
    BY <1>1, <1>2 DEF Excepted, Missed
<1>4. \A e \in events' \ events : e.id = i => Above(e)
    BY <1>1, <1>2 DEF Excepted, Missed, WatchInv
<1>5. Passed(i)' = Passed(i)
    BY <1>1, <1>2, <1>4 DEF Passed, EventsOf
<1> QED
    BY <1>1, <1>3, <1>5 DEF Replayed, LastPassed

\* The page of a poll brings the client to the newest event behind the new
\* cursor.
LEMMA PollKeepsReplayed ==
    ASSUME WatchInv, LogInv, Poll, NEW i \in Ids \ Excepted',
           i \notin Excepted => Replayed(i)
    PROVE  Replayed(i)'
<1>1. cursor \in Keys /\ events \subseteq Events /\ cursor # None
    BY CursorAssumption DEF WatchInv, CursorInv, Poll, LogTypeOK
<1>2. PICK page \in SUBSET Unsent :
          /\ SendPage(page)
          /\ cursor' \in Keys /\ (cursor' = cursor \/ Before(cursor, cursor'))
          /\ \A e \in page : ~Before(cursor', Key(e))
          /\ \A e \in events : Above(e) /\ e \notin page => Before(cursor', Key(e))
    BY PollPage DEF WatchInv
<1>3. /\ UNCHANGED <<events, watched, unlisted>> /\ sent' = sent \cup page
      /\ view' = Apply(view, page) /\ crossed' = crossed \cup PutAfterDrop(page)
    BY <1>2 DEF SendPage
<1>4. ASSUME NEW e \in events PROVE Above(e)' <=> Above(e) /\ e \notin page
    <2>1. Key(e) \in Keys
        BY <1>1, KeyType
    <2>2. Above(e)' => Above(e)
        BY <1>1, <1>2, <2>1, KeyOrder DEF Above
    <2> QED
        BY <1>2, <2>2 DEF Above
<1>5. i \notin Excepted
    <2>1. ASSUME NEW e \in watched \ sent, ~Above(e)
          PROVE  e \in watched' \ sent' /\ ~Above(e)'
        <3>1. e \in events
            BY DEF WatchInv
        <3> QED
            BY <1>3, <1>4, <2>1, <3>1 DEF Unsent
    <2> QED
        BY <1>3, <2>1 DEF Excepted, Missed
<1>6. Replayed(i)
    BY <1>5
<1>7. Passed(i)' = Passed(i) \cup {e \in page : e.id = i}
    BY <1>3, <1>4 DEF Passed, EventsOf, Unsent
<1>8. CASE \A e \in page : e.id # i
    <2>1. view'[i] = view[i]
        BY <1>3, <1>8 DEF Apply
    <2>2. Passed(i)' = Passed(i)
        BY <1>7, <1>8
    <2> QED
        BY <1>6, <2>1, <2>2 DEF Replayed, LastPassed
<1>9. CASE \E e \in page : e.id = i
    <2> SUFFICES ASSUME NEW e \in Passed(i)', LastPassed(i, e)'
                 PROVE  view'[i] = IF e.status = ACTIVE THEN e.hash ELSE None
        BY <1>7, <1>9 DEF Replayed
    <2>1. /\ e \in events /\ e.id = i
          /\ \A f \in page : f.id = i => f.version <= e.version
          /\ \A f \in page : f \in events /\ Above(f)
        BY <1>3, <1>7 DEF LastPassed, Passed, EventsOf, Unsent
    <2>2. e \in page
        <3> SUFFICES ASSUME e \notin page PROVE FALSE
            OBVIOUS
        <3>1. PICK f \in page : f.id = i
            BY <1>9
        <3>2. ~Above(e)
            BY <1>7 DEF Passed
        <3>3. Key(e) \in Keys /\ Key(f) \in Keys
            BY <1>1, <2>1, KeyType
        <3>4. Before(Key(e), Key(f))
            BY <1>1, <2>1, <3>2, <3>3, KeyOrder DEF Above
        <3>5. e.version \in Int /\ f.version \in Int /\ e.id \in Int
            BY <1>1, <2>1, IdsAssumption, TimeAssumption DEF Events, Versions
        <3> QED
            BY <2>1, <3>1, <3>4, <3>5 DEF Before, Key
    <2>3. CASE \E d \in page : d.id = i /\ d.status = DROPPED
        <3>1. view'[i] = None
            BY <1>3, <2>3 DEF Apply
        <3>2. e.status = ACTIVE => i \in PutAfterDrop(page)
            BY <2>1, <2>2, <2>3 DEF PutAfterDrop
        <3> QED
            BY <1>3, <3>1, <3>2 DEF Excepted
    <2>4. CASE ~\E d \in page : d.id = i /\ d.status = DROPPED
        <3> DEFINE c == CHOOSE f \in page :
                            /\ f.id = i
                            /\ \A g \in page : g.id = i => g.version <= f.version
        <3>1. c \in page /\ c.id = i /\ e.version <= c.version /\ c.version <= e.version
            BY <2>1, <2>2
        <3>2. view'[i] = c.hash
            BY <1>3, <2>2, <2>1, <2>4 DEF Apply
        <3> HIDE DEF c
        <3>3. c.version = e.version
            BY <1>1, <2>1, <3>1, TimeAssumption DEF Events, Versions
        <3>4. c = e
            BY <2>1, <3>1, <3>3 DEF LogInv, EventKeysUnique
        <3>5. e.status = ACTIVE
            BY <1>1, <2>1, <2>2, <2>4 DEF Events
        <3> QED
            BY <3>2, <3>4, <3>5
    <2> QED
        BY <2>3, <2>4
<1> QED
    BY <1>8, <1>9

\* A page of the listing is sent.
LEMMA ListKeepsListing ==
    ASSUME WatchInv, List
    PROVE  Blank' /\ Listing' /\ Listed'
<1>1. PICK skipped \in SUBSET Cached, page \in SUBSET Cached :
          /\ FirstRows(skipped, Cached, offset)
          /\ FirstRows(page, Cached \ skipped, PageSize)
          /\ view' = [i \in Ids |->
                 IF i \in page THEN cache[i].hash ELSE view[i]]
          /\ IF Cardinality(page) < PageSize
             THEN wpc' = "max" /\ offset' = 0
             ELSE wpc' = "list" /\ offset' = offset + PageSize
          /\ unlisted' = unlisted \cup Torn(skipped \cup page)
    BY DEF List
<1>2. wpc = "list" /\ UNCHANGED <<cache, events, cursor>> /\ Cached' = Cached
    BY DEF List, Cached
<1>3. /\ IsFiniteSet(Cached) /\ offset \in Nat /\ PageSize \in Nat /\ PageSize > 0
      /\ Listing /\ Cached \subseteq Ids
    BY PageSizeAssumption DEF WatchInv, WatchTypeOK, Cached
<1> DEFINE done == skipped \cup page
<1>4. /\ IsPage(done, Cached, offset + PageSize)
      /\ Cardinality(page) < PageSize => done = Cached
    <2>1. IsPage(skipped, Cached, offset) /\ IsPage(page, Cached \ skipped, PageSize)
        BY <1>1 DEF FirstRows
    <2> QED
        BY <1>3, <2>1, PageEnd
<1>5. FirstRows(done, Cached, offset + PageSize)
    BY <1>1, <1>4 DEF FirstRows
<1>6. \A i \in Ids \ unlisted' : cache[i] = None => view'[i] = None
    BY <1>1, <1>2, <1>3 DEF Listing, Cached
<1>7. \A i \in done \ unlisted' : view'[i] = cache[i].hash
    BY <1>1, <1>2, <1>3 DEF Listing
<1> HIDE DEF done
<1>8. Blank'
    BY <1>1, <1>2, <1>3 DEF Blank
<1>9. Listing'
    <2> SUFFICES ASSUME wpc' = "list", NEW S \in SUBSET Cached,
                        FirstRows(S, Cached, offset'), NEW i \in S \ unlisted'
                 PROVE  view'[i] = cache[i].hash
        BY <1>2, <1>6 DEF Listing, FirstRows
    <2>1. offset' = offset + PageSize /\ offset' \in Nat
        BY <1>1, <1>3
    <2>2. \A j \in Cached : cache[j].version \in Int
        <3>1. \A j \in Cached : cache[j] \in Rows
            BY DEF Cached, WatchInv, WatchTypeOK, LogTypeOK
        <3> QED
            BY <3>1, TimeAssumption DEF Rows, Versions
    <2>3. i \in done
        <3> SUFFICES ASSUME i \notin done PROVE FALSE
            OBVIOUS
        <3>1. \E j \in done : cache[j].version = cache[i].version
            BY <1>3, <1>5, <2>1, <2>2, TiesOnly
        <3>2. i \in Torn(done)
            BY <3>1 DEF Torn
        <3> QED
            BY <1>1, <3>2 DEF done
    <2> QED
        BY <1>7, <2>3
<1>10. Listed'
    <2> SUFFICES ASSUME wpc' = "max", NEW i \in Ids \ unlisted'
                 PROVE  view'[i] = IF cache[i] = None THEN None ELSE cache[i].hash
        BY <1>2 DEF Listed, InStep
    <2>1. done = Cached
        BY <1>1, <1>4
    <2>2. CASE cache[i] = None
        BY <1>6, <2>2
    <2>3. CASE cache[i] # None
        BY <1>7, <2>1, <2>3 DEF Cached
    <2> QED
        BY <2>2, <2>3
<1> QED
    BY <1>8, <1>9, <1>10

\* The listing is empty before its first page.
LEMMA NoRowsFirst ==
    ASSUME IsFiniteSet(Cached), NEW S, FirstRows(S, Cached, 0)
    PROVE  S = {}
BY PageSizes, FS_EmptySet DEF FirstRows

LEMMA StoreKeepsListing ==
    ASSUME ~Overlapping, WatchInv, Store
    PROVE  Blank' /\ Listing' /\ Listed'
<1> DEFINE new == events' \ events
<1>1. /\ \A i \in Ids : cache'[i] # cache[i] => \E e \in new : e.id = i
      /\ IsFiniteSet(Cached)'
    BY SerialChange DEF Store, Observe, WatchInv, WatchTypeOK
<1>2. /\ UNCHANGED <<wpc, offset, cursor, view>> /\ unlisted \subseteq unlisted'
      /\ wpc = "list" /\ offset > 0 /\ new # {} => Ids \subseteq unlisted'
      /\ wpc = "max" => {e.id : e \in new} \subseteq unlisted'
    BY DEF Store, Observe
<1>3. LogTypeOK /\ LogTypeOK' /\ offset \in Nat
    BY LogTypeStep DEF Store, Observe, WatchInv, WatchTypeOK
<1> HIDE DEF new
<1>4. Blank'
    BY <1>2 DEF WatchInv, Blank
<1>5. Listed'
    BY <1>1, <1>2 DEF WatchInv, Listed, InStep
<1>6. Listing'
    <2>1. CASE wpc # "list"
        BY <1>2, <2>1 DEF Listing
    <2>2. CASE wpc = "list" /\ offset = 0
        <3>1. \A S : FirstRows(S, Cached, offset)' => S = {}
            <4> SUFFICES ASSUME NEW S, FirstRows(S, Cached, offset)' PROVE S = {}
                OBVIOUS
            <4>1. IsPage(S, Cached', 0)
                BY <1>2, <2>2 DEF FirstRows
            <4> QED
                BY <1>1, <4>1, PageSizes, FS_EmptySet
        <3>2. \A i \in Ids : view'[i] = None
            BY <1>2, <2>2 DEF WatchInv, Blank
        <3> QED
            BY <3>1, <3>2 DEF Listing
    <2>3. CASE wpc = "list" /\ offset > 0 /\ new # {}
        <3>1. Cached' \subseteq Ids
            BY DEF Cached
        <3> QED
            BY <1>2, <2>3, <3>1 DEF Listing
    <2>4. CASE wpc = "list" /\ new = {}
        <3>1. cache' = cache
            BY <1>1, <1>3, <2>4 DEF LogTypeOK
        <3> QED
            BY <1>2, <3>1 DEF WatchInv, Listing, Cached, FirstRows
    <2> QED
        BY <1>3, <2>1, <2>2, <2>3, <2>4
<1> QED
    BY <1>4, <1>5, <1>6

\* The cursor is the newest event: what the listing has sent is what replaying
\* the log up to it gives.
LEMMA MaxTakesCursor ==
    ASSUME WatchInv, LogInv, LogAgreesWithCache, MaxVersionIndex
    PROVE  /\ Blank'
           /\ cursor' # None => \A i \in Ids \ Excepted' : Replayed(i)'
<1>1. /\ wpc = "max" /\ wpc' = "wait"
      /\ UNCHANGED <<cache, events, view, unlisted>>
      /\ \/ events = {} /\ cursor' = None
         \/ \E e \in events : IsNewest(e, events) /\ cursor' = Key(e)
    BY DEF MaxVersionIndex
<1>2. LogTypeOK /\ \A i \in Ids \ unlisted : InStep(i)
    BY <1>1 DEF WatchInv, WatchTypeOK, Listed
<1>3. CASE events = {} /\ cursor' = None
    <2>1. \A i \in Ids : cache[i] = None
        BY <1>3 DEF LogInv, CacheHasEvent
    <2>2. \A i \in Ids : view[i] = None
        BY <1>2, <1>3, <2>1 DEF WatchInv, InStep
    <2> QED
        BY <1>1, <1>3, <2>2 DEF Blank
<1>4. ASSUME NEW m \in events, IsNewest(m, events), cursor' = Key(m)
      PROVE  Blank' /\ \A i \in Ids \ Excepted' : Replayed(i)'
    <2>1. events \subseteq Events /\ Key(m) \in Keys
        BY <1>2, KeyType DEF LogTypeOK
    <2>2. cursor' # None
        BY <1>4, <2>1, CursorAssumption
    <2>3. ASSUME NEW e \in events PROVE ~Above(e)'
        BY <1>4, <2>1, KeyType, KeyOrder DEF Above, IsNewest
    <2>4. ASSUME NEW i \in Ids \ Excepted' PROVE Replayed(i)'
        <3>1. Passed(i)' = EventsOf(i)
            BY <1>1, <2>3 DEF Passed, EventsOf
        <3>2. InStep(i)
            BY <1>1, <1>2 DEF Excepted
        <3> QED
            BY <1>1, <1>2, <3>1, <3>2, NewestEvent
               DEF Replayed, LastPassed, InStep, ACTIVE, DROPPED
    <2> QED
        BY <1>1, <2>2, <2>4 DEF Blank
<1> QED
    BY <1>1, <1>3, <1>4

LEMMA WatchInvStep ==
    ASSUME ~Overlapping
    PROVE  WatchInv /\ LogInv /\ LogAgreesWithCache /\ [WatchNext]_watchVars => WatchInv'
<1> SUFFICES ASSUME WatchInv, LogInv, LogAgreesWithCache, [WatchNext]_watchVars
             PROVE  WatchInv'
    OBVIOUS
<1>1. CursorInv' /\ WatchTypeOK'
    BY CursorInvStep, TypeStep DEF WatchInv
<1>2. CASE Store
    <2>1. events \subseteq events' /\ IsFiniteSet(Cached)'
        BY <1>2, SerialChange DEF Store, Observe, WatchInv, WatchTypeOK
    <2>2. /\ UNCHANGED <<wpc, offset, cursor, sent>> /\ watched' \subseteq events'
          /\ events' = {} => unlisted' = {}
        BY <1>2, <2>1 DEF Store, Observe, WatchInv
    <2>3. ASSUME cursor # None, NEW i \in Ids \ Excepted' PROVE Replayed(i)'
        BY <1>2, <2>3, StoreKeepsReplayed DEF WatchInv
    <2> QED
        BY <1>1, <1>2, <2>1, <2>2, <2>3, StoreKeepsListing DEF WatchInv
<1>3. CASE List
    <2>1. /\ UNCHANGED <<cache, events, cursor, sent, watched>> /\ cursor = None
          /\ wpc' # "list" => offset' = 0
        BY <1>3 DEF List, WatchInv, CursorInv
    <2>2. events' = {} => unlisted' = {}
        <3>1. events = {} => Cached = {}
            BY DEF LogInv, CacheHasEvent, Cached
        <3> QED
            BY <1>3, <2>1, <3>1 DEF List, Torn, WatchInv
    <2> QED
        BY <1>1, <1>3, <2>1, <2>2, ListKeepsListing DEF WatchInv, Cached
<1>4. CASE MaxVersionIndex
    <2>1. /\ UNCHANGED <<cache, events, offset, sent, watched, unlisted>>
          /\ wpc = "max" /\ wpc' = "wait"
        BY <1>4 DEF MaxVersionIndex
    <2> QED
        BY <1>1, <1>4, <2>1, MaxTakesCursor DEF WatchInv, Cached, Listing, Listed
<1>5. CASE Wake
    <2>1. /\ UNCHANGED <<cache, events, offset, cursor, view, sent, watched,
                         unlisted, crossed>>
          /\ wpc = "wait" /\ wpc' = IF cursor = None THEN "list" ELSE "poll"
        BY <1>5 DEF Wake
    <2>2. IsFiniteSet(Cached) /\ offset = 0 /\ Cached' = Cached
        BY <2>1 DEF WatchInv, Cached
    <2>3. Blank'
        BY <2>1 DEF Blank, WatchInv
    <2>4. Listing'
        <3>1. \A S : FirstRows(S, Cached, offset)' => S = {}
            BY <2>1, <2>2, NoRowsFirst DEF FirstRows
        <3> QED
            BY <2>1, <3>1 DEF Listing, WatchInv, Blank
    <2>5. \A i \in Ids : Replayed(i)' <=> Replayed(i)
        BY <2>1 DEF Replayed, LastPassed, Passed, EventsOf, Above
    <2>6. Excepted' = Excepted
        BY <2>1 DEF Excepted, Missed, Above
    <2> QED
        BY <1>1, <2>1, <2>2, <2>3, <2>4, <2>5, <2>6 DEF WatchInv, Listed
<1>6. CASE Poll
    <2>1. PICK page \in SUBSET Unsent : SendPage(page)
        BY <1>6 DEF Poll
    <2>2. /\ UNCHANGED <<cache, events, offset, watched, unlisted>>
          /\ wpc = "poll" /\ wpc' \in {"wait", "poll"} /\ sent' \subseteq events'
        BY <1>6, <2>1 DEF Poll, SendPage, Unsent, WatchInv
    <2>3. cursor \in Keys /\ cursor' \in Keys
        BY <1>6, <2>2, PollPage DEF WatchInv, CursorInv
    <2>4. ASSUME NEW i \in Ids \ Excepted' PROVE Replayed(i)'
        BY <1>6, <2>3, PollKeepsReplayed, CursorAssumption DEF WatchInv
    <2> QED
        BY <1>1, <2>2, <2>3, <2>4, CursorAssumption
           DEF WatchInv, Cached, Blank, Listing, Listed
<1>7. CASE Fail
    <2>1. /\ UNCHANGED <<cache, events, offset, cursor, view, sent, watched,
                         unlisted, crossed>>
          /\ wpc' = "done"
        BY <1>7 DEF Fail
    <2>2. \A i \in Ids : Replayed(i)' <=> Replayed(i)
        BY <2>1 DEF Replayed, LastPassed, Passed, EventsOf, Above
    <2>3. Excepted' = Excepted
        BY <2>1 DEF Excepted, Missed, Above
    <2> QED
        BY <1>1, <2>1, <2>2, <2>3 DEF WatchInv, Cached, Blank, Listing, Listed
<1>8. CASE Restart
    <2>1. /\ UNCHANGED <<cache, events>> /\ wpc' = "list" /\ offset' = 0
          /\ cursor' = None /\ view' = [i \in Ids |-> None]
          /\ sent' = {} /\ watched' = {} /\ unlisted' = {}
        BY <1>8 DEF Restart
    <2>2. IsFiniteSet(Cached) /\ Cached' = Cached
        BY <2>1 DEF WatchInv, Cached
    <2>3. Listing'
        <3>1. \A S : FirstRows(S, Cached, offset)' => S = {}
            BY <2>1, <2>2, NoRowsFirst DEF FirstRows
        <3> QED
            BY <2>1, <3>1 DEF Listing
    <2> QED
        BY <1>1, <2>1, <2>2, <2>3 DEF WatchInv, Blank, Listed
<1>9. CASE UNCHANGED watchVars
    <2>1. UNCHANGED <<cache, events, offset, cursor, view, sent, watched,
                      unlisted, crossed, wpc>>
        BY <1>9 DEF watchVars
    <2>2. \A i \in Ids : Replayed(i)' <=> Replayed(i)
        BY <2>1 DEF Replayed, LastPassed, Passed, EventsOf, Above
    <2>3. Excepted' = Excepted
        BY <2>1 DEF Excepted, Missed, Above
    <2> QED
        BY <1>1, <2>1, <2>2, <2>3
           DEF WatchInv, Cached, Blank, Listing, Listed, FirstRows, InStep
<1> QED
    BY <1>2, <1>3, <1>4, <1>5, <1>6, <1>7, <1>8, <1>9 DEF WatchNext, Stream

-----------------------------------------------------------------------------
(* The theorems *)

\* Whatever the store commits between two pages and in whatever order, an event
\* that was above the cursor is not skipped.
THEOREM WatchSkipsNothing == WatchSpec => NoEventSkipped
<1> DEFINE Skip == cursor # None /\ cursor' # None =>
               \A e \in events : Above(e) /\ ~Before(cursor', Key(e)) =>
                   e \in sent'
<1>1. CursorInv /\ [WatchNext]_watchVars => [Skip]_watchVars
    <2> SUFFICES ASSUME CursorInv, [WatchNext]_watchVars, cursor # None, cursor' # None,
                        NEW e \in events, Above(e), ~Before(cursor', Key(e))
                 PROVE  e \in sent'
        OBVIOUS
    <2>1. CASE Poll
        BY <2>1, PollPage
    <2>2. cursor' # cursor
        BY DEF Above
    <2>3. wpc \notin {"list", "max"}
        BY DEF CursorInv
    <2> QED
        BY <2>1, <2>2, <2>3
           DEF WatchNext, Stream, Store, Observe, List, MaxVersionIndex, Wake,
               Fail, Restart, watchVars
<1> QED
    BY <1>1, CursorInvCorrect, PTL DEF WatchSpec, NoEventSkipped

\* A stream sends events in the order of their keys.
THEOREM WatchSendsInOrder == WatchSpec => SentInOrder
<1> DEFINE Ordered == sent \subseteq sent' =>
               \A e \in sent' \ sent, f \in sent : Before(Key(f), Key(e))
<1>1. CursorInv /\ [WatchNext]_watchVars => [Ordered]_watchVars
    <2> SUFFICES ASSUME CursorInv, [WatchNext]_watchVars, sent \subseteq sent',
                        NEW e \in sent' \ sent, NEW f \in sent
                 PROVE  Before(Key(f), Key(e))
        OBVIOUS
    <2>1. CASE Poll
        <3>1. e \in events /\ Above(e)
            BY <2>1, PollPage DEF Unsent
        <3>2. cursor \in Keys /\ cursor # None /\ ~Above(f)
            BY CursorAssumption DEF CursorInv
        <3>3. Key(e) \in Keys /\ Key(f) \in Keys
            BY <3>1, KeyType DEF CursorInv, LogTypeOK
        <3>4. Key(f) = cursor \/ Before(Key(f), cursor)
            BY <3>2, <3>3, KeyOrder DEF Above
        <3> QED
            BY <3>1, <3>2, <3>3, <3>4, KeyOrder DEF Above
    <2> QED
        BY <2>1
           DEF WatchNext, Stream, Store, Observe, List, MaxVersionIndex, Wake,
               Fail, Restart, watchVars
<1> QED
    BY <1>1, CursorInvCorrect, PTL DEF WatchSpec, SentInOrder

\* Once a stream has its cursor, no query moves it back and it is not lost, nor
\* does a poll move it without sending the event it moves to; a new stream
\* begins without one (listEventsParams in Watch).
CursorAdvances ==
    [][cursor # None /\ cursor' # cursor =>
           \/ wpc = "done" /\ cursor' = None /\ sent' = {}
           \/ /\ cursor' \in Keys /\ Before(cursor, cursor')
              /\ \E e \in sent' \ sent : cursor' = Key(e)]_watchVars

THEOREM WatchCursorAdvances == WatchSpec => CursorAdvances
<1> DEFINE Advances == cursor # None /\ cursor' # cursor =>
               \/ wpc = "done" /\ cursor' = None /\ sent' = {}
               \/ /\ cursor' \in Keys /\ Before(cursor, cursor')
                  /\ \E e \in sent' \ sent : cursor' = Key(e)
<1>1. CursorInv /\ [WatchNext]_watchVars => [Advances]_watchVars
    <2> SUFFICES ASSUME CursorInv, [WatchNext]_watchVars, cursor # None,
                        cursor' # cursor
                 PROVE  \/ wpc = "done" /\ cursor' = None /\ sent' = {}
                        \/ /\ cursor' \in Keys /\ Before(cursor, cursor')
                           /\ \E e \in sent' \ sent : cursor' = Key(e)
        OBVIOUS
    <2>1. CASE Poll
        <3>1. cursor' \in Keys /\ Before(cursor, cursor')
            BY <2>1, PollPage
        <3>2. PICK page \in SUBSET Unsent :
                  /\ sent' = sent \cup page
                  /\ \E e \in page : cursor' = Key(e)
            BY <2>1 DEF Poll, SendPage
        <3>3. \A e \in page : e \notin sent
            BY DEF CursorInv, Unsent
        <3> QED
            BY <3>1, <3>2, <3>3
    <2>2. CASE Restart
        BY <2>2 DEF Restart
    <2>3. wpc \notin {"list", "max"}
        BY DEF CursorInv
    <2> QED
        BY <2>1, <2>2, <2>3
           DEF WatchNext, Stream, Store, Observe, List, MaxVersionIndex, Wake,
               Fail, watchVars
<1> QED
    BY <1>1, CursorInvCorrect, PTL DEF WatchSpec, CursorAdvances

\* A stream's state is well typed: the page a poll sends has a newest event of
\* every resource, so the synchronizer applies a content or a drop.
THEOREM WatchTypeCorrect == WatchSpec => []WatchTypeOK
<1>1. WatchInit => WatchTypeOK
    BY TimeAssumption
       DEF WatchInit, LogInit, NewStream, WatchTypeOK, LogTypeOK, Versions, Stages
<1> QED
    BY <1>1, TypeStep, CursorInvCorrect, PTL DEF WatchSpec

\* A stream changes nothing of the store.
LEMMA WatchKeepsLog == WatchSpec => LogSpec
<1>1. WatchInit => LogInit
    BY DEF WatchInit
<1>2. [WatchNext]_watchVars => [LogNext]_logVars
    BY DEF WatchNext, Stream, Store, Observe, List, MaxVersionIndex, Wake,
           Poll, SendPage, Fail,
       Restart, watchVars, logVars
<1> QED
    BY <1>1, <1>2, PTL DEF WatchSpec, LogSpec

LEMMA WatchInvCorrect ==
    ASSUME ~Overlapping
    PROVE  WatchSpec => []WatchInv
<1>1. WatchInit => WatchInv
    <2> SUFFICES ASSUME WatchInit PROVE WatchInv
        OBVIOUS
    <2>1. WatchTypeOK /\ CursorInv
        BY TimeAssumption
           DEF WatchInit, LogInit, NewStream, WatchTypeOK, CursorInv, LogTypeOK,
               Versions, Stages
    <2>2. Cached = {}
        BY DEF WatchInit, LogInit, Cached
    <2> QED
        BY <2>1, <2>2, FS_EmptySet
           DEF WatchInit, LogInit, NewStream, WatchInv, Blank, Listing, Listed
<1> QED
    BY <1>1, WatchInvStep, WatchKeepsLog, LogIsConsistent, SerialLogAgrees, PTL
       DEF WatchSpec

\* When calls do not overlap, a client that has caught up is in step with the
\* store but for the exceptions the property names: listing by OFFSET, polling
\* by cursor and applying updates before drops lose nothing else.
THEOREM WatchCaughtUpInStep ==
    ASSUME ~Overlapping
    PROVE  WatchSpec => []CaughtUpInStep
<1>1. WatchInv /\ LogInv /\ LogAgreesWithCache => CaughtUpInStep
    <2> SUFFICES ASSUME WatchInv, LogInv, LogAgreesWithCache, CaughtUp,
                        NEW i \in Ids \ (unlisted \cup Missed \cup crossed)
                 PROVE  InStep(i)
        BY DEF CaughtUpInStep
    <2>1. Replayed(i) /\ LogTypeOK
        BY DEF WatchInv, WatchTypeOK, CaughtUp, Excepted
    <2>2. Passed(i) = EventsOf(i)
        BY DEF Passed, EventsOf, CaughtUp
    <2>3. CASE EventsOf(i) = {}
        BY <2>1, <2>2, <2>3, NewestEvent DEF Replayed, InStep
    <2>4. CASE EventsOf(i) # {}
        <3>1. EventsOf(i) \in SUBSET Events
            BY <2>1 DEF EventsOf, LogTypeOK
        <3>2. PICK e \in EventsOf(i) : \A f \in EventsOf(i) : f.version <= e.version
            BY <2>4, <3>1, HasNewest
        <3>3. view[i] = IF e.status = ACTIVE THEN e.hash ELSE None
            BY <2>1, <2>2, <3>2 DEF Replayed, LastPassed
        <3> QED
            BY <2>1, <3>2, <3>3, NewestEvent DEF InStep, ACTIVE, DROPPED
    <2> QED
        BY <2>3, <2>4
<1> QED
    BY <1>1, WatchInvCorrect, WatchKeepsLog, LogIsConsistent, SerialLogAgrees, PTL

-----------------------------------------------------------------------------
(* A stream beside the handlers of Put and Drop *)

handlerVars == <<pc, todo, hash, ver, answer, rows, evs, failed, reply>>

\* A statement of a handler, or a step of the stream.
ServedNext ==
    \/ Next /\ Observe
    \/ (Stream \/ Fail \/ Restart) /\ UNCHANGED handlerVars

ServedSpec == Init /\ NewStream /\ [][ServedNext]_<<vars, watchVars>>

\* The handlers go on as without the stream.
LEMMA ServedKeepsHandlers == ServedSpec => Spec
<1>1. Init /\ NewStream => Init
    OBVIOUS
<1>2. [ServedNext]_<<vars, watchVars>> => [Next]_vars
    BY DEF ServedNext, handlerVars, vars, watchVars, Stream, List, MaxVersionIndex,
           Wake, Poll, SendPage, Fail, Restart
<1> QED
    BY <1>1, <1>2, PTL DEF ServedSpec, Spec

\* A stream served while any number of Put and Drop transactions interleave,
\* statement by statement, sees the store only as ChangeLog has it: what is
\* proved of Watch holds of it.
THEOREM ServedImplementsWatch == ServedSpec => WatchSpec
<1>1. Init /\ NewStream => WatchInit
    BY DEF Init, WatchInit
<1>2. [LogNext]_logVars /\ [ServedNext]_<<vars, watchVars>> => [WatchNext]_watchVars
    <2> SUFFICES ASSUME [LogNext]_logVars, [ServedNext]_<<vars, watchVars>>
                 PROVE  [WatchNext]_watchVars
        OBVIOUS
    <2>1. CASE UNCHANGED <<vars, watchVars>>
        BY <2>1
    <2>2. CASE Next /\ Observe
        <3>1. CASE LogNext
            BY <2>2, <3>1 DEF WatchNext, Store
        <3>2. CASE UNCHANGED logVars
            <4>1. events' \ events = {} /\ UNCHANGED <<now, cache, events>>
                BY <3>2 DEF logVars
            <4>2. watched' = watched /\ unlisted' = unlisted
                BY <2>2, <4>1 DEF Observe
            <4> QED
                BY <2>2, <4>1, <4>2 DEF Observe, watchVars
        <3> QED
            BY <3>1, <3>2
    <2>3. CASE Stream \/ Fail \/ Restart
        BY <2>3 DEF WatchNext
    <2> QED
        BY <2>1, <2>2, <2>3 DEF ServedNext
<1>3. ServedSpec => [][LogNext]_logVars
    BY ServedKeepsHandlers, StoreImplementsChangeLog, PTL
       DEF ImplementsChangeLog, LogSpec
<1> QED
    BY <1>1, <1>2, <1>3, PTL DEF ServedSpec, WatchSpec

\* So a stream beside the handlers skips no event, sends them in order, and never
\* goes back.
THEOREM ServedSkipsNothing ==
    ServedSpec => NoEventSkipped /\ SentInOrder /\ CursorAdvances
BY ServedImplementsWatch, WatchSkipsNothing, WatchSendsInOrder, WatchCursorAdvances,
   PTL

\* And with one goroutine, a client that has caught up holds what Put and Drop
\* have left in the store.
THEOREM ServedCaughtUpInStep ==
    ASSUME ~Overlapping
    PROVE  ServedSpec => []CaughtUpInStep
BY ServedImplementsWatch, WatchCaughtUpInStep, PTL
=============================================================================

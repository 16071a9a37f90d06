------------------------------- MODULE Watch -------------------------------
(***************************************************************************)
(* ResourceStore.Watch (provider/postgres/resource_store.go): one stream,  *)
(* served while Put and Drop calls change the store (ChangeLog), and the   *)
(* copy of the namespace that the client's ResourceStoreSynchronizer       *)
(* (pkg/resource/resource.go) maintains from the responses.                *)
(*                                                                         *)
(* Every query is one action; the store may change between two of them.    *)
(* gRPC delivers the responses of a stream in order, so what the client    *)
(* holds once it has consumed them is updated when a response is sent.     *)
(***************************************************************************)
EXTENDS ChangeLog, FiniteSetsExt

CONSTANT PageSize   \* pageSize and MaxRows, 50 in the code

ASSUME PageSizeAssumption == PageSize \in Nat \ {0}

\* The primary keys of events, the values of a cursor.
Keys == [version : Versions, id : Ids]

ASSUME CursorAssumption == None \notin Keys

VARIABLES
    wpc,       \* the next query of the stream, or the timer it waits for
    offset,    \* RowsOffset of the next page of the listing
    cursor,    \* listEventsParams: key of the last event, None for nil
    view,      \* the content of each resource as the client has applied it
    sent,      \* history: the events this stream has sent
    watched,   \* history: the events committed since the cursor was taken
    unlisted,  \* history: the ids the listing may have missed
    crossed    \* history: the ids dropped and put again within one page

watchVars == <<now, cache, events, wpc, offset, cursor, view, sent, watched,
          unlisted, crossed>>

Key(e) == [version |-> e.version, id |-> e.id]

\* The order of (version_index, id), in SQL row comparison.
Before(k, l) ==
    \/ k.version < l.version
    \/ k.version = l.version /\ k.id < l.id

Above(e) == Before(cursor, Key(e))

IsNewest(e, S) == e \in S /\ \A f \in S \ {e} : Before(Key(f), Key(e))

Stages == {"list", "max", "wait", "poll", "done"}

WatchTypeOK ==
    /\ LogTypeOK
    /\ wpc \in Stages
    /\ offset \in Nat
    /\ cursor \in Keys \cup {None}
    /\ view \in [Ids -> Hashes \cup {None}]
    /\ sent \in SUBSET Events
    /\ watched \in SUBSET Events
    /\ unlisted \in SUBSET Ids
    /\ crossed \in SUBSET Ids

Cached == {i \in Ids : cache[i] # None}

\* A page has k elements if there are as many.
IsPage(page, S, k) ==
    page \subseteq S /\ Cardinality(page) = Min({k, Cardinality(S)})

\* ORDER BY version_index LIMIT k: ties are broken in any way.
FirstRows(page, S, k) ==
    /\ IsPage(page, S, k)
    /\ \A i \in page, j \in S \ page : cache[i].version <= cache[j].version

\* ORDER BY version_index, id LIMIT k
FirstEvents(page, S, k) ==
    /\ IsPage(page, S, k)
    /\ \A e \in page, f \in S \ page : Before(Key(e), Key(f))

NewStream ==
    /\ wpc = "list"
    /\ offset = 0
    /\ cursor = None
    /\ view = [i \in Ids |-> None]
    /\ sent = {}
    /\ watched = {}
    /\ unlisted = {}
    /\ crossed = {}

WatchInit == LogInit /\ NewStream

\* The rows left to list that tie with one of the rows listed so far.
Torn(listed) ==
    {i \in Cached \ listed : \E j \in listed : cache[j].version = cache[i].version}

\* ListResourcesCachedFromNamespace: one page of the cache, ordered by version
\* only, so that the next page may break the ties at its beginning in another way
\* than this one did at its end.  A short page ends the listing.
List ==
    /\ wpc = "list"
    /\ \E skipped, page \in SUBSET Cached :
           /\ FirstRows(skipped, Cached, offset)
           /\ FirstRows(page, Cached \ skipped, PageSize)
           /\ view' = [i \in Ids |->
                  IF i \in page THEN cache[i].hash ELSE view[i]]
           /\ IF Cardinality(page) < PageSize
              THEN wpc' = "max" /\ offset' = 0
              ELSE wpc' = "list" /\ offset' = offset + PageSize
           /\ unlisted' = unlisted \cup Torn(skipped \cup page)
    /\ UNCHANGED <<now, cache, events, cursor, sent, watched, crossed>>

\* MaxVersionIndexForNamespace: the stream goes on from the newest event, or
\* lists the cache again if there is none.
MaxVersionIndex ==
    /\ wpc = "max"
    /\ wpc' = "wait"
    /\ \/ events = {} /\ cursor' = None
       \/ \E e \in events : IsNewest(e, events) /\ cursor' = Key(e)
    /\ UNCHANGED <<now, cache, events, offset, view, sent, watched,
                   unlisted, crossed>>

\* Mutant of Wake: every interval lists the cache again.
Wake_Relists ==
    /\ wpc = "wait"
    /\ wpc' = "list"
    /\ UNCHANGED <<now, cache, events, offset, cursor, view, sent,
                   watched, unlisted, crossed>>

\* The watch interval is over.
Wake ==
    /\ wpc = "wait"
    /\ wpc' = IF cursor = None THEN "list" ELSE "poll"
    /\ UNCHANGED <<now, cache, events, offset, cursor, view, sent,
                   watched, unlisted, crossed>>

\* Mutant of Apply: DroppedResources are applied before UpdatedResources.
Apply_DropsFirst(v, page) ==
    [i \in Ids |->
        IF \E e \in page : e.id = i /\ e.status = ACTIVE
        THEN (CHOOSE e \in page :
                  /\ e.id = i /\ e.status = ACTIVE
                  /\ \A f \in page : f.id = i /\ f.status = ACTIVE =>
                         f.version <= e.version).hash
        ELSE IF \E e \in page : e.id = i THEN None
        ELSE v[i]]

\* The synchronizer applies UpdatedResources in order, then DroppedResources.
Apply(v, page) ==
    [i \in Ids |->
        IF \E e \in page : e.id = i /\ e.status = DROPPED THEN None
        ELSE IF \E e \in page : e.id = i
        THEN (CHOOSE e \in page :
                  /\ e.id = i
                  /\ \A f \in page : f.id = i => f.version <= e.version).hash
        ELSE v[i]]

\* The ids whose last event in the page re-creates what the page drops.
PutAfterDrop(page) ==
    {e.id : e \in {f \in page :
        /\ f.status = ACTIVE
        /\ \E d \in page : d.id = f.id /\ d.status = DROPPED
        /\ \A g \in page : g.id = f.id => g.version <= f.version}}

Unsent == {e \in events : Above(e)}

\* The response with the events of a page.
SendPage(page) ==
    /\ view' = Apply(view, page)
    /\ sent' = sent \cup page
    /\ crossed' = crossed \cup PutAfterDrop(page)
    /\ wpc' = IF Cardinality(page) < PageSize THEN "wait" ELSE "poll"
    /\ UNCHANGED <<now, cache, events, offset, watched, unlisted>>

\* Mutants of Poll: the cursor moves to the newest event of the log; the cursor
\* does not move.
Poll_JumpsToNewest ==
    /\ wpc = "poll"
    /\ \E page \in SUBSET Unsent :
           /\ FirstEvents(page, Unsent, PageSize)
           /\ \/ page = {} /\ cursor' = cursor
              \/ \E e \in events : IsNewest(e, events) /\ cursor' = Key(e)
           /\ SendPage(page)
Poll_KeepsCursor ==
    /\ wpc = "poll"
    /\ cursor' = cursor
    /\ \E page \in SUBSET Unsent :
           FirstEvents(page, Unsent, PageSize) /\ SendPage(page)

\* ListResourcesEventsFromNamespace: the events after the cursor, in key order.
\* A short page ends the iteration.
Poll ==
    /\ wpc = "poll"
    /\ \E page \in SUBSET Unsent :
           /\ FirstEvents(page, Unsent, PageSize)
           /\ \/ page = {} /\ cursor' = cursor
              \/ \E e \in page : IsNewest(e, page) /\ cursor' = Key(e)
           /\ SendPage(page)

\* A query or Send fails or the call's context is done: Watch returns, and the
\* synchronizer panics on the end of the stream.
Fail ==
    /\ wpc # "done"
    /\ wpc' = "done"
    /\ UNCHANGED <<now, cache, events, offset, cursor, view, sent,
                   watched, unlisted, crossed>>

\* The client's process is started again, with nothing, and opens a new stream.
Restart ==
    /\ wpc = "done"
    /\ wpc' = "list"
    /\ offset' = 0
    /\ cursor' = None
    /\ view' = [i \in Ids |-> None]
    /\ sent' = {}
    /\ watched' = {}
    /\ unlisted' = {}
    /\ crossed' = {}
    /\ UNCHANGED <<now, cache, events>>

Stream == List \/ MaxVersionIndex \/ Wake \/ Poll

\* What a change of the store is to the stream.  A commit between two pages of
\* the listing shifts the rows of the pages to come, whatever its id; one
\* between the listing and the cursor concerns its own ids.
Observe ==
    LET new == events' \ events
    IN  /\ watched' = IF cursor = None THEN watched ELSE watched \cup new
        /\ unlisted' = unlisted \cup
               CASE wpc = "list" /\ offset > 0 /\ new # {} -> Ids
                 [] wpc = "max" -> {e.id : e \in new}
                 [] OTHER -> {}
        /\ UNCHANGED <<wpc, offset, cursor, view, sent, crossed>>

\* A call of the store commits, or time passes.
Store == LogNext /\ Observe

WatchNext == Store \/ Stream \/ Fail \/ Restart

WatchSpec == WatchInit /\ [][WatchNext]_watchVars

\* The timer fires and queries are answered; nothing else need happen.
FairWatch == WatchSpec /\ WF_watchVars(Stream)

-----------------------------------------------------------------------------
\* The stream waits for the next interval and nothing above its cursor is left
\* to send.
CaughtUp == wpc = "wait" /\ cursor # None /\ \A e \in events : ~Above(e)

InStep(i) == view[i] = IF cache[i] = None THEN None ELSE cache[i].hash

\* The cursor only advances past events that the stream has sent: an event above
\* the cursor is never skipped, whatever is committed between two pages.
NoEventSkipped ==
    [][cursor # None /\ cursor' # None =>
           \A e \in events : Above(e) /\ ~Before(cursor', Key(e)) =>
               e \in sent']_watchVars

\* A stream sends events in the order of their keys.
SentInOrder ==
    [][sent \subseteq sent' =>
           \A e \in sent' \ sent, f \in sent : Before(Key(f), Key(e))]_watchVars

\* The ids of events committed behind the cursor, which no poll will return.
Missed == {e.id : e \in {f \in watched \ sent : ~Above(f)}}

\* When calls do not overlap, a stream that has caught up has brought the client
\* in step with the store, except for the ids that fell into a gap of the listing
\* (a change since its first page, a tie at the end of a page), and those whose
\* change was committed behind the cursor or re-created a resource within the
\* page that drops it.
CaughtUpInStep ==
    CaughtUp => \A i \in Ids \ (unlisted \cup Missed \cup crossed) : InStep(i)

\* An event above the cursor is sent in the end, unless the stream ends.
EventuallySent ==
    \A e \in Events :
        (wpc # "done" /\ cursor # None /\ e \in events /\ Above(e))
            ~> (e \in sent \/ wpc = "done")
=============================================================================

----------------------------- MODULE ChangeLog -----------------------------
(***************************************************************************)
(* The abstract resource store: what the other components may rely on.     *)
(* resource_cache and resource_events of one namespace change together, in *)
(* one atomic step per committed call, whatever the interleaving of the    *)
(* SQL statements (ResourceStore shows that the handlers implement this).  *)
(*                                                                         *)
(* A spec is abstracted to its hash (hashResource), a resource id to an    *)
(* integer (only the order of UUIDs matters), and time.Now().Unix() to the *)
(* clock `now'.  Every query of query.sql filters on the namespace, so     *)
(* namespaces are independent and one is enough.                           *)
(***************************************************************************)
EXTENDS Integers, FiniteSets

CONSTANTS
    Ids,          \* the resource ids, in UUID order
    Hashes,       \* the possible contents (name and spec) of a resource
    MaxTime,      \* bound: the clock stops here
    None,         \* no row
    Overlapping   \* whether calls may run concurrently

ASSUME IdsAssumption == Ids \subseteq Int

ASSUME TimeAssumption == MaxTime \in Nat

ASSUME OverlappingAssumption == Overlapping \in BOOLEAN

ACTIVE == "ACTIVE"
DROPPED == "DROPPED"

Versions == 0 .. MaxTime

\* A row of resource_cache, and a row of resource_events.
Rows == [version : Versions, hash : Hashes]
Events == [version : Versions, id : Ids, status : {ACTIVE, DROPPED},
           hash : Hashes]

ASSUME NoneAssumption == None \notin Rows /\ None \notin Hashes

VARIABLES
    now,      \* the second time.Now().Unix() returns
    cache,    \* resource_cache: a row or None for each id
    events    \* resource_events: a set of rows

logVars == <<now, cache, events>>

LogTypeOK ==
    /\ now \in Versions
    /\ cache \in [Ids -> Rows \cup {None}]
    /\ events \in SUBSET Events

ActiveEvent(i, row) ==
    [version |-> row.version, id |-> i, status |-> ACTIVE, hash |-> row.hash]

EventsOf(i) == {e \in events : e.id = i}

\* The version a call took from the clock may be committed now: calls that do
\* not overlap commit in the order in which they read the clock.
Committable(v) ==
    /\ v <= now
    /\ Overlapping \/ \A e \in events : e.version <= v

\* The primary key of resource_events.
KeyFree(v, i) == \A e \in EventsOf(i) : e.version # v

LogInit ==
    /\ now = 0
    /\ cache = [i \in Ids |-> None]
    /\ events = {}

\* The wall clock reaches the next second.
LogTick ==
    /\ now < MaxTime
    /\ now' = now + 1
    /\ UNCHANGED <<cache, events>>

\* A committed Put that changes the resource i.
LogPut(v, i, h) ==
    LET row == [version |-> v, hash |-> h]
    IN  /\ Committable(v)
        /\ KeyFree(v, i)
        /\ cache' = [cache EXCEPT ![i] = row]
        /\ events' = events \cup {ActiveEvent(i, row)}
        /\ UNCHANGED now

DroppedEvent(v, i, h) ==
    [version |-> v, id |-> i, status |-> DROPPED, hash |-> h]

\* A committed Drop removes the rows `gone' and logs a DROPPED event with the
\* content told[i] for each i in the domain of `told'.  A call that overlaps
\* with others removes rows it logged no event for, and logs events for rows
\* that another call has removed or changed meanwhile.
LogDrop(v, gone, told) ==
    /\ Committable(v)
    /\ \A i \in gone : cache[i] # None
    /\ \A i \in DOMAIN told :
           /\ KeyFree(v, i)
           /\ \E e \in EventsOf(i) : e.status = ACTIVE /\ e.hash = told[i]
    /\ Overlapping \/ /\ gone = DOMAIN told
                      /\ \A i \in gone : told[i] = cache[i].hash
    /\ cache' = [i \in Ids |-> IF i \in gone THEN None ELSE cache[i]]
    /\ events' = events \cup {DroppedEvent(v, i, told[i]) : i \in DOMAIN told}
    /\ UNCHANGED now

LogNext ==
    \/ LogTick
    \/ \E v \in Versions, i \in Ids, h \in Hashes : LogPut(v, i, h)
    \/ \E v \in Versions, gone \in SUBSET Ids, logged \in SUBSET Ids :
           /\ Overlapping \/ logged = gone
           /\ \E told \in [logged -> Hashes] : LogDrop(v, gone, told)

LogSpec == LogInit /\ [][LogNext]_logVars

-----------------------------------------------------------------------------
(* What holds also when calls overlap *)

\* Every cached resource has the event that announces it, with the same version
\* and content: Put never commits an upsert without its ACTIVE event, although
\* it ignores the errors of both statements.
CacheHasEvent ==
    \A i \in Ids : cache[i] # None => ActiveEvent(i, cache[i]) \in events

\* Drop logs a DROPPED event only for contents that an ACTIVE event announced,
\* and copies that content.
TombstonesHaveActive ==
    \A e \in events : e.status = DROPPED =>
        \E f \in EventsOf(e.id) : f.status = ACTIVE /\ f.hash = e.hash

\* No two events share the key (version, id) that Watch uses as its cursor.
EventKeysUnique ==
    \A e, f \in events : e.version = f.version /\ e.id = f.id => e = f

-----------------------------------------------------------------------------
(* What holds when they do not *)

\* The newest event of a resource tells whether it is in the cache: replaying
\* the log in key order gives resource_cache.
LogAgreesWithCache ==
    \A i \in Ids :
        IF cache[i] = None
        THEN \A e \in EventsOf(i) : \E d \in EventsOf(i) :
                 d.status = DROPPED /\ e.version <= d.version
        ELSE \A e \in EventsOf(i) : e.version <= cache[i].version

\* A resource leaves the cache only together with a DROPPED event for it, which
\* is what Watch needs to report the drop.
DropsAreLogged ==
    [][\A i \in Ids : cache[i] # None /\ cache'[i] = None =>
           \E e \in events' \ events : e.id = i /\ e.status = DROPPED]_logVars
=============================================================================

--------------------------- MODULE ResourceStore ---------------------------
(***************************************************************************)
(* The Put, Drop and Get handlers of the Postgres resource store           *)
(* (provider/postgres), run by concurrent gRPC calls on the tables         *)
(* resource_cache and resource_events of ChangeLog.                        *)
(*                                                                         *)
(* A handler is one SQL transaction at Postgres' default isolation, READ   *)
(* COMMITTED: each statement is one action that reads what is committed    *)
(* (and the transaction's own writes) at that moment, and a statement that *)
(* meets an uncommitted write of another transaction on the same key waits *)
(* for it.                                                                 *)
(***************************************************************************)
EXTENDS ChangeLog, Sequences

CONSTANTS
    Writers,     \* the goroutines serving Put, Drop and Get calls
    BadId,       \* an id that uuid.Parse rejects
    DropLists,   \* the lists of ids a Drop request may carry
    Same         \* "this transaction did not write the row"

ASSUME BadIdAssumption == BadId \notin Ids

ASSUME DropListsAssumption == DropLists \subseteq Seq(Ids \cup {BadId})

ASSUME SameAssumption == Same \notin Rows /\ Same # None

\* With one goroutine, calls do not overlap.
ASSUME WritersAssumption ==
    Overlapping = (\E u, w \in Writers : u # w)

VARIABLES
    pc,       \* the next statement of each handler
    todo,     \* the ids the request still has to treat, the current one first
    hash,     \* the content a Put request carries
    ver,      \* the versionIndex the handler took from the clock
    answer,   \* the row a Put writes or finds unchanged, and answers
    rows,     \* uncommitted cache rows of each transaction, Same if unwritten
    evs,      \* uncommitted events of each transaction
    failed,   \* Postgres has aborted the transaction, Commit will fail
    reply     \* the last reply of the handler

vars == <<now, cache, events, pc, todo, hash, ver, answer, rows, evs,
          failed, reply>>

Steps == {"idle", "summary", "upsert", "insertActive", "insertDropped",
          "delete", "commit"}

Codes == {"OK", "InvalidArgument", "Error"}

Replies == [code : Codes, id : Ids \cup {None},
            row : Rows \cup {None}]

TypeOK ==
    /\ LogTypeOK
    /\ pc \in [Writers -> Steps]
    /\ todo \in [Writers -> Seq(Ids \cup {BadId})]
    /\ hash \in [Writers -> Hashes \cup {None}]
    /\ ver \in [Writers -> Versions]
    /\ answer \in [Writers -> Rows \cup {None}]
    /\ rows \in [Writers -> [Ids -> Rows \cup {None, Same}]]
    /\ evs \in [Writers -> SUBSET Events]
    /\ failed \in [Writers -> BOOLEAN]
    /\ reply \in [Writers -> Replies \cup {None}]

NoRows == [i \in Ids |-> Same]

\* What a transaction of w reads from resource_cache: its own write, else the
\* committed row.
Visible(w, i) == IF rows[w][i] = Same THEN cache[i] ELSE rows[w][i]

\* Mutant of KeyHolders: the index does not wait for uncommitted entries.
KeyHolders_Committed(w, v, i) == {}

\* No other transaction holds the row lock of i, and none has an uncommitted
\* event with the primary key (v, i).
RowHolders(w, i) == {u \in Writers \ {w} : rows[u][i] # Same}
KeyHolders(w, v, i) ==
    {u \in Writers \ {w} : \E e \in evs[u] : e.version = v /\ e.id = i}

\* The primary key (v, i) of resource_events is taken.
KeyTaken(w, v, i) == \E e \in events \cup evs[w] : e.version = v /\ e.id = i

Init ==
    /\ LogInit
    /\ pc = [w \in Writers |-> "idle"]
    /\ todo = [w \in Writers |-> <<>>]
    /\ hash = [w \in Writers |-> None]
    /\ ver = [w \in Writers |-> 0]
    /\ answer = [w \in Writers |-> None]
    /\ rows = [w \in Writers |-> NoRows]
    /\ evs = [w \in Writers |-> {}]
    /\ failed = [w \in Writers |-> FALSE]
    /\ reply = [w \in Writers |-> None]

\* The wall clock reaches the next second.
Tick ==
    /\ LogTick
    /\ UNCHANGED <<pc, todo, hash, ver, answer, rows, evs, failed, reply>>

-----------------------------------------------------------------------------
(* The end of a handler: the reply r, and nothing left of its transaction. *)

Return(w, r) ==
    /\ reply' = [reply EXCEPT ![w] = r]
    /\ pc' = [pc EXCEPT ![w] = "idle"]
    /\ todo' = [todo EXCEPT ![w] = <<>>]
    /\ hash' = [hash EXCEPT ![w] = None]
    /\ ver' = [ver EXCEPT ![w] = 0]
    /\ answer' = [answer EXCEPT ![w] = None]
    /\ rows' = [rows EXCEPT ![w] = NoRows]
    /\ evs' = [evs EXCEPT ![w] = {}]
    /\ failed' = [failed EXCEPT ![w] = FALSE]
    /\ UNCHANGED now

Refusal(code) == [code |-> code, id |-> None, row |-> None]

\* The deferred tx.Rollback() of a handler that returns an error.
ReturnError(w, code) ==
    /\ Return(w, Refusal(code))
    /\ UNCHANGED <<cache, events>>

\* Mutant of Begin: the version is the second after the clock's.
Begin_RoundsUp(w, ids, h, step) ==
    /\ pc[w] = "idle"
    /\ pc' = [pc EXCEPT ![w] = step]
    /\ todo' = [todo EXCEPT ![w] = ids]
    /\ hash' = [hash EXCEPT ![w] = h]
    /\ ver' = [ver EXCEPT ![w] = now + 1]
    /\ reply' = [reply EXCEPT ![w] = None]
    /\ UNCHANGED <<now, cache, events, answer, rows, evs, failed>>

\* Begin, and the version of the request: the second the clock shows.
Begin(w, ids, h, step) ==
    /\ pc[w] = "idle"
    /\ pc' = [pc EXCEPT ![w] = step]
    /\ todo' = [todo EXCEPT ![w] = ids]
    /\ hash' = [hash EXCEPT ![w] = h]
    /\ ver' = [ver EXCEPT ![w] = now]
    /\ reply' = [reply EXCEPT ![w] = None]
    /\ UNCHANGED <<now, cache, events, answer, rows, evs, failed>>

-----------------------------------------------------------------------------
(* Put *)

PutBegin(w, i, h) == Begin(w, <<i>>, h, "summary")

PutInvalid(w) ==
    /\ pc[w] = "idle"
    /\ ReturnError(w, "InvalidArgument")

\* Mutants of PutSummary: an unchanged resource is answered with the version of
\* the call; the hash is not compared.
PutSummary_NewVersion(w) ==
    /\ pc[w] = "summary"
    /\ LET row == cache[Head(todo[w])]
       IN  pc' = [pc EXCEPT ![w] =
               IF row = None \/ row.hash # hash[w] THEN "upsert" ELSE "commit"]
    /\ answer' = [answer EXCEPT ![w] = [version |-> ver[w], hash |-> hash[w]]]
    /\ UNCHANGED <<now, cache, events, todo, hash, ver, rows, evs, failed,
                   reply>>
PutSummary_AlwaysWrites(w) ==
    /\ pc[w] = "summary"
    /\ pc' = [pc EXCEPT ![w] = "upsert"]
    /\ answer' = [answer EXCEPT ![w] = [version |-> ver[w], hash |-> hash[w]]]
    /\ UNCHANGED <<now, cache, events, todo, hash, ver, rows, evs, failed,
                   reply>>

\* GetResourceCacheSummary: an unchanged resource keeps its version and goes
\* straight to Commit.
PutSummary(w) ==
    /\ pc[w] = "summary"
    /\ LET row == cache[Head(todo[w])]
           changed == row = None \/ row.hash # hash[w]
       IN  /\ pc' = [pc EXCEPT ![w] = IF changed THEN "upsert" ELSE "commit"]
           /\ answer' = [answer EXCEPT ![w] =
                  IF changed THEN [version |-> ver[w], hash |-> hash[w]]
                             ELSE row]
    /\ UNCHANGED <<now, cache, events, todo, hash, ver, rows, evs, failed,
                   reply>>

\* UpsertResourceCache: waits for the row lock.
PutUpsert(w) ==
    /\ pc[w] = "upsert"
    /\ RowHolders(w, Head(todo[w])) = {}
    /\ pc' = [pc EXCEPT ![w] = "insertActive"]
    /\ rows' = [rows EXCEPT ![w][Head(todo[w])] = answer[w]]
    /\ UNCHANGED <<now, cache, events, todo, hash, ver, answer, evs, failed,
                   reply>>

\* Mutant of PutAborted: the statement fails alone, as without a transaction.
PutAborted_Ignored(w) ==
    /\ pc' = [pc EXCEPT ![w] = "commit"]
    /\ UNCHANGED <<now, cache, events, todo, hash, ver, answer, rows, evs,
                   failed, reply>>

\* A statement of Put fails.  The handler ignores the error and goes on to
\* Commit, but Postgres has aborted the transaction and dropped its writes.
PutAborted(w) ==
    /\ pc' = [pc EXCEPT ![w] = "commit"]
    /\ rows' = [rows EXCEPT ![w] = NoRows]
    /\ evs' = [evs EXCEPT ![w] = {}]
    /\ failed' = [failed EXCEPT ![w] = TRUE]
    /\ UNCHANGED <<now, cache, events, todo, hash, ver, answer, reply>>

\* InsertActiveResourceEvent: copies the row just written into the log; the
\* primary key may be taken by an event of the same resource and second.
PutInsertActive(w) ==
    LET i == Head(todo[w])
        row == Visible(w, i)
    IN  /\ pc[w] = "insertActive"
        /\ KeyHolders(w, row.version, i) = {}
        /\ \/ /\ KeyTaken(w, row.version, i)
              /\ PutAborted(w)
           \/ /\ ~KeyTaken(w, row.version, i)
              /\ pc' = [pc EXCEPT ![w] = "commit"]
              /\ evs' = [evs EXCEPT ![w] = @ \cup {ActiveEvent(i, row)}]
              /\ UNCHANGED <<now, cache, events, todo, hash, ver, answer,
                             rows, failed, reply>>

-----------------------------------------------------------------------------
(* Drop *)

DropBegin(w, ids) ==
    Begin(w, ids, None, IF ids = <<>> THEN "commit" ELSE "insertDropped")

DropInvalid(w) ==
    /\ pc[w] = "insertDropped"
    /\ Head(todo[w]) = BadId
    /\ ReturnError(w, "InvalidArgument")

\* Mutant of DropInsert: an event whose key is taken is skipped.
DropInsert_OnConflictDoNothing(w) ==
    LET i == Head(todo[w])
        row == Visible(w, i)
    IN  /\ pc[w] = "insertDropped"
        /\ i # BadId
        /\ pc' = [pc EXCEPT ![w] = "delete"]
        /\ evs' = [evs EXCEPT ![w] =
               IF row = None \/ KeyTaken(w, ver[w], i) THEN @
               ELSE @ \cup {DroppedEvent(ver[w], i, row.hash)}]
        /\ UNCHANGED <<now, cache, events, todo, hash, ver, answer, rows,
                       failed, reply>>

\* InsertDroppedResourceEvent: copies the cached row, if there is one, into the
\* log.  The SELECT takes no lock on the row.
DropInsert(w) ==
    LET i == Head(todo[w])
        row == Visible(w, i)
    IN  /\ pc[w] = "insertDropped"
        /\ i # BadId
        /\ \/ /\ row = None
              /\ pc' = [pc EXCEPT ![w] = "delete"]
              /\ UNCHANGED <<now, cache, events, todo, hash, ver, answer,
                             rows, evs, failed, reply>>
           \/ /\ row # None
              /\ KeyHolders(w, ver[w], i) = {}
              /\ KeyTaken(w, ver[w], i)
              /\ ReturnError(w, "Error")
           \/ /\ row # None
              /\ KeyHolders(w, ver[w], i) = {}
              /\ ~KeyTaken(w, ver[w], i)
              /\ pc' = [pc EXCEPT ![w] = "delete"]
              /\ evs' = [evs EXCEPT ![w] = @ \cup
                     {DroppedEvent(ver[w], i, row.hash)}]
              /\ UNCHANGED <<now, cache, events, todo, hash, ver, answer,
                             rows, failed, reply>>

\* Mutants of DropDelete: only the last id of the list is deleted; an id without
\* a row is tried again.
DropDelete_OnlyLast(w) ==
    LET i == Head(todo[w])
        rest == Tail(todo[w])
    IN  /\ pc[w] = "delete"
        /\ Visible(w, i) # None => RowHolders(w, i) = {}
        /\ rows' = IF rest # <<>> \/ Visible(w, i) = None
                   THEN rows ELSE [rows EXCEPT ![w][i] = None]
        /\ todo' = [todo EXCEPT ![w] = rest]
        /\ pc' = [pc EXCEPT ![w] =
               IF rest = <<>> THEN "commit" ELSE "insertDropped"]
        /\ UNCHANGED <<now, cache, events, hash, ver, answer, evs, failed,
                       reply>>

DropDelete_TriesAgain(w) ==
    LET i == Head(todo[w])
        rest == IF Visible(w, i) = None THEN todo[w] ELSE Tail(todo[w])
    IN  /\ pc[w] = "delete"
        /\ Visible(w, i) # None => RowHolders(w, i) = {}
        /\ rows' = IF Visible(w, i) = None
                   THEN rows ELSE [rows EXCEPT ![w][i] = None]
        /\ todo' = [todo EXCEPT ![w] = rest]
        /\ pc' = [pc EXCEPT ![w] =
               IF rest = <<>> THEN "commit" ELSE "insertDropped"]
        /\ UNCHANGED <<now, cache, events, hash, ver, answer, evs, failed,
                       reply>>

\* DropResourceCache: deletes whatever row is there now, after waiting for its
\* lock.  A row nobody has committed is not there, and nothing is locked.
DropDelete(w) ==
    LET i == Head(todo[w])
        rest == Tail(todo[w])
    IN  /\ pc[w] = "delete"
        /\ Visible(w, i) # None => RowHolders(w, i) = {}
        /\ rows' = IF Visible(w, i) = None
                   THEN rows ELSE [rows EXCEPT ![w][i] = None]
        /\ todo' = [todo EXCEPT ![w] = rest]
        /\ pc' = [pc EXCEPT ![w] =
               IF rest = <<>> THEN "commit" ELSE "insertDropped"]
        /\ UNCHANGED <<now, cache, events, hash, ver, answer, evs, failed,
                       reply>>

-----------------------------------------------------------------------------
(* The end of the transactions of Put and Drop *)

\* Commit of a transaction that Postgres has not aborted.  The reply may be
\* lost: the transaction is in, and the handler returns the driver's error.
Commit(w) ==
    /\ pc[w] = "commit"
    /\ ~failed[w]
    /\ cache' = [i \in Ids |-> Visible(w, i)]
    /\ events' = events \cup evs[w]
    /\ \/ Return(w, [code |-> "OK",
                     id |-> IF answer[w] = None THEN None ELSE Head(todo[w]),
                     row |-> answer[w]])
       \/ Return(w, Refusal("Error"))

\* Mutant of CommitFailed: the error of Commit is ignored.
CommitFailed_Ignored(w) ==
    /\ pc[w] = "commit"
    /\ failed[w]
    /\ Return(w, [code |-> "OK", id |-> Head(todo[w]), row |-> answer[w]])
    /\ UNCHANGED <<cache, events>>

\* Commit of an aborted transaction fails, and rolls it back.
CommitFailed(w) ==
    /\ pc[w] = "commit"
    /\ failed[w]
    /\ ReturnError(w, "Error")

\* A statement cannot be executed: the call's context is done, the connection
\* is lost, or Postgres picks the transaction to break a deadlock.
StatementFails(w) ==
    \/ /\ pc[w] \in {"upsert", "insertActive"}
       /\ PutAborted(w)
    \/ /\ pc[w] \in {"summary", "insertDropped", "delete", "commit"}
       /\ ReturnError(w, "Error")

\* Get: one query outside any transaction; no row is an error.
Get(w, i) ==
    /\ pc[w] = "idle"
    /\ reply' = [reply EXCEPT ![w] =
           IF cache[i] = None THEN Refusal("Error")
           ELSE [code |-> "OK", id |-> i, row |-> cache[i]]]
    /\ UNCHANGED <<now, cache, events, pc, todo, hash, ver, answer, rows, evs,
                   failed>>

-----------------------------------------------------------------------------
(* Postgres' deadlock detector *)

\* The transactions the next statement of w has to wait for.
WaitsFor(w) ==
    CASE pc[w] = "upsert" -> RowHolders(w, Head(todo[w]))
      [] pc[w] = "insertActive" -> KeyHolders(w, ver[w], Head(todo[w]))
      [] pc[w] = "insertDropped" /\ Head(todo[w]) # BadId ->
            IF Visible(w, Head(todo[w])) = None THEN {}
            ELSE KeyHolders(w, ver[w], Head(todo[w]))
      [] pc[w] = "delete" ->
            IF Visible(w, Head(todo[w])) = None THEN {}
            ELSE RowHolders(w, Head(todo[w]))
      [] OTHER -> {}

\* w is on a cycle of waiting transactions.
Deadlocked(w) ==
    \E n \in 1 .. Cardinality(Writers) : \E path \in [0 .. n -> Writers] :
        /\ path[0] = w
        /\ path[n] = w
        /\ \A k \in 0 .. n - 1 : path[k + 1] \in WaitsFor(path[k])

DeadlockVictim(w) == Deadlocked(w) /\ StatementFails(w)

-----------------------------------------------------------------------------
\* One step of the call w is serving.
Statement(w) ==
    \/ PutSummary(w)
    \/ PutUpsert(w)
    \/ PutInsertActive(w)
    \/ DropInvalid(w)
    \/ DropInsert(w)
    \/ DropDelete(w)
    \/ Commit(w)
    \/ CommitFailed(w)

\* A new call arrives at the idle goroutine w.
Call(w) ==
    \/ \E i \in Ids, h \in Hashes : PutBegin(w, i, h)
    \/ PutInvalid(w)
    \/ \E ids \in DropLists : DropBegin(w, ids)
    \/ \E i \in Ids : Get(w, i)

Next ==
    \/ Tick
    \/ \E w \in Writers :
           Call(w) \/ Statement(w) \/ StatementFails(w) \/ DeadlockVictim(w)

\* Postgres queues the transactions that wait for a lock, so a statement that is
\* free to run again and again is executed, and it breaks every deadlock.  Calls
\* need not arrive, and statements need not fail.
Fairness ==
    \A w \in Writers : SF_vars(Statement(w)) /\ WF_vars(DeadlockVictim(w))

Spec == Init /\ [][Next]_vars

FairSpec == Spec /\ Fairness

-----------------------------------------------------------------------------
(* Properties of any number of concurrent handlers, besides those of the log *)

\* The handlers implement the abstract store: every statement changes nothing
\* of the two tables or commits one whole call.
ImplementsChangeLog == LogSpec

\* A version that Put or Get answered, also for an unchanged resource, is the
\* version of an ACTIVE event of that resource with the content answered.
AnswersAreLogged ==
    \A w \in Writers :
        reply[w] # None /\ reply[w].row # None =>
            ActiveEvent(reply[w].id, reply[w].row) \in events

\* Every Put and Drop call returns, whatever the transactions wait for.
CallsReturn == \A w \in Writers : pc[w] # "idle" ~> pc[w] = "idle"

-----------------------------------------------------------------------------
(* Properties of handlers that do not overlap *)

\* What Put or Get answered is what the store holds until the next call.
AnswersAreCurrent ==
    \A w \in Writers :
        reply[w] # None /\ reply[w].row # None =>
            cache[reply[w].id] = reply[w].row

\* Repeating a Put, after a lost reply for instance, logs nothing: between two
\* ACTIVE events of a resource with the same content there is another event.
NoRedundantEvent ==
    \A e, f \in events :
        /\ e.status = ACTIVE /\ f.status = ACTIVE
        /\ e.id = f.id /\ e.hash = f.hash /\ e.version < f.version
        => \E g \in EventsOf(e.id) :
               e.version < g.version /\ g.version < f.version
=============================================================================

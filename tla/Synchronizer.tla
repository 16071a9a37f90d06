---------------------------- MODULE Synchronizer ----------------------------
(***************************************************************************)
(* ResourceStoreSynchronizer.Sync (pkg/resource/resource.go): a goroutine  *)
(* that receives the responses of Watch, and a loop that hands them to the *)
(* event handler of a component, with the stop of its context.             *)
(*                                                                         *)
(* The server is the Watch of the resource store, reduced to what it sends *)
(* (module Watch has the rest): the difference between what is stored and  *)
(* what it has sent, then EndOfList, for ever.                             *)
(***************************************************************************)
EXTENDS Naturals, FiniteSets

CONSTANTS
    Ids,         \* resource ids
    Specs,       \* specs of resources
    None,
    MaxChanges,  \* changes of the store
    MaxFaults    \* broken streams and failing calls

ASSUME SyncAssumption ==
    None \notin Specs /\ MaxChanges \in Nat /\ MaxFaults \in Nat

VARIABLES
    stored,     \* the resource store
    changes, faults,
    view,       \* what the open stream has been sent
    recv,       \* the receiving goroutine
    loop,       \* the select loop and the rest of its batch
    cancelled   \* ctx is done

syncVars == <<stored, changes, faults, view, recv, loop, cancelled>>

Contents == [Ids -> Specs \cup {None}]
Nothing == [i \in Ids |-> None]

\* The responses.
Batches == [kind : {"batch"}, upd : Contents, drp : SUBSET Ids]
EndOfList == [kind |-> "end"]

SyncTypeOK ==
    /\ stored \in Contents /\ view \in Contents
    /\ changes \in 0..MaxChanges /\ faults \in 0..MaxFaults
    /\ recv \in [pc : {"none", "recv", "offer", "fail", "closing", "closed"},
                 item : {None} \cup Batches \cup {EndOfList}]
    /\ recv.pc = "offer" => recv.item \in Batches \cup {EndOfList}
    /\ loop \in [pc : {"watch", "select", "update", "drop", "endOfPage",
                       "panicked"},
                 upd : Contents, drp : SUBSET Ids]
    /\ cancelled \in BOOLEAN

SyncInit ==
    /\ stored \in Contents   \* what was put before the process started
    /\ changes = 0 /\ faults = 0
    /\ view = Nothing
    /\ recv = [pc |-> "none", item |-> None]
    /\ loop = [pc |-> "watch", upd |-> Nothing, drp |-> {}]
    /\ cancelled = FALSE

-----------------------------------------------------------------------------
(* The server *)

Change(i, spec) ==
    /\ changes < MaxChanges /\ stored[i] # spec
    /\ stored' = [stored EXCEPT ![i] = spec]
    /\ changes' = changes + 1
    /\ UNCHANGED <<faults, view, recv, loop, cancelled>>

\* A page of what the client has not been told, or EndOfList.
Response ==
    IF view = stored THEN EndOfList
    ELSE [kind |-> "batch",
          upd |-> [i \in Ids |->
                      IF stored[i] = view[i] THEN None ELSE stored[i]],
          drp |-> {i \in Ids : stored[i] = None /\ view[i] # None}]

-----------------------------------------------------------------------------
(* The receiving goroutine *)

\* Recv, after the test of ctx.
Recv ==
    /\ recv.pc = "recv" /\ ~cancelled
    /\ recv' = [pc |-> "offer", item |-> Response]
    /\ view' = stored
    /\ UNCHANGED <<stored, changes, faults, loop, cancelled>>

\* The stream ends or breaks.
RecvFails ==
    /\ recv.pc = "recv" /\ faults < MaxFaults
    /\ recv' = [recv EXCEPT !.pc = "fail"]
    /\ faults' = faults + 1
    /\ UNCHANGED <<stored, changes, view, loop, cancelled>>

\* The test of ctx ends the goroutine, or Recv fails because ctx is done.
RecvCancelled ==
    /\ recv.pc = "recv" /\ cancelled
    /\ recv' \in {[recv EXCEPT !.pc = "closing"], [recv EXCEPT !.pc = "fail"]}
    /\ UNCHANGED <<stored, changes, faults, view, loop, cancelled>>

\* recvErrCh is closed, then listResCh.
CloseListResCh ==
    /\ recv.pc = "closing"
    /\ recv' = [recv EXCEPT !.pc = "closed"]
    /\ UNCHANGED <<stored, changes, faults, view, loop, cancelled>>

-----------------------------------------------------------------------------
(* The loop *)

\* Watch opens the stream.
OpenWatch ==
    /\ loop.pc = "watch"
    /\ loop' = [loop EXCEPT !.pc = "select"]
    /\ recv' = [recv EXCEPT !.pc = "recv"]
    /\ UNCHANGED <<stored, changes, faults, view, cancelled>>

\* The function returns an error, also nil, and log.Panic ends the process.
Panics == loop' = [loop EXCEPT !.pc = "panicked"]

\* Mutant of Take: the updates of a batch are left to the next one.
Take_DropsOnly ==
    /\ loop.pc = "select" /\ recv.pc = "offer"
    /\ loop' = IF recv.item = EndOfList THEN [loop EXCEPT !.pc = "endOfPage"]
               ELSE [loop EXCEPT !.pc = "drop", !.drp = recv.item.drp]
    /\ recv' = [pc |-> "recv", item |-> None]
    /\ UNCHANGED <<stored, changes, faults, view, cancelled>>

\* listResCh: EndOfList, or a batch, after BeforeBatch.
Take ==
    /\ loop.pc = "select" /\ recv.pc = "offer"
    /\ loop' = IF recv.item = EndOfList THEN [loop EXCEPT !.pc = "endOfPage"]
               ELSE [loop EXCEPT !.pc = "update", !.upd = recv.item.upd,
                                 !.drp = recv.item.drp]
    /\ recv' = [pc |-> "recv", item |-> None]
    /\ UNCHANGED <<stored, changes, faults, view, cancelled>>

\* Mutant of LoopEnds: only an error ends the loop.
LoopEnds_OnError ==
    /\ loop.pc = "select" /\ recv.pc = "fail"
    /\ recv' = [recv EXCEPT !.pc = "closing"]
    /\ Panics
    /\ UNCHANGED <<stored, changes, faults, view, cancelled>>

\* The other cases of the select: an error, a closed channel, ctx.  The closed
\* listResCh gives a nil response, which panics as well.
LoopEnds ==
    /\ loop.pc = "select"
    /\ \/ recv.pc = "fail" /\ recv' = [recv EXCEPT !.pc = "closing"]
       \/ (recv.pc \in {"closing", "closed"} \/ cancelled) /\ UNCHANGED recv
    /\ Panics
    /\ UNCHANGED <<stored, changes, faults, view, cancelled>>

\* The updated resources are done, and at last the batch: AfterBatch.
NextPart ==
    /\ \/ /\ loop.pc = "update" /\ loop.upd = Nothing
          /\ loop' = [loop EXCEPT !.pc = "drop"]
       \/ /\ loop.pc = "drop" /\ loop.drp = {}
          /\ loop' = [loop EXCEPT !.pc = "select"]
    /\ UNCHANGED <<stored, changes, faults, view, recv, cancelled>>

\* The component is stopped.
Cancel ==
    /\ ~cancelled /\ loop.pc # "panicked"
    /\ cancelled' = TRUE
    /\ UNCHANGED <<stored, changes, faults, view, recv, loop>>

\* The process is started again after a panic that was not its stop.
Restart ==
    /\ loop.pc = "panicked" /\ ~cancelled
    /\ view' = Nothing
    /\ recv' = [pc |-> "none", item |-> None]
    /\ loop' = [loop EXCEPT !.pc = "watch", !.upd = Nothing, !.drp = {}]
    /\ UNCHANGED <<stored, changes, faults, cancelled>>

SyncSteps ==
    /\ loop.pc # "panicked"
    /\ \/ Recv \/ RecvCancelled \/ CloseListResCh
       \/ OpenWatch \/ Take \/ LoopEnds \/ NextPart

SyncEnv ==
    /\ loop.pc # "panicked"
    /\ \/ \E i \in Ids, spec \in Specs \cup {None} : Change(i, spec)
       \/ RecvFails \/ Cancel

\* Everything sent has been handled.
Quiet ==
    loop.pc = "select" /\ recv.pc \in {"recv", "fail"}
=============================================================================

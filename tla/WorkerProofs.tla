---------------------------- MODULE WorkerProofs ----------------------------
(***************************************************************************)
(* Proofs about the worker and its synchronizer, for any resources,        *)
(* triggers and workflows: the triggers follow the resources the server    *)
(* has sent, a workflow runs only for a trigger, and one that runs is      *)
(* replaced only where its trigger asks for it.                            *)
(***************************************************************************)
EXTENDS Worker, TLAPS

-----------------------------------------------------------------------------
(* The inductive invariant *)

\* An id is updated or dropped by a batch, never both.
BatchesAreDisjoint ==
    /\ recv.pc = "offer" /\ recv.item # EndOfList =>
           \A i \in recv.item.drp : recv.item.upd[i] = None
    /\ loop.pc = "update" => \A i \in loop.drp : loop.upd[i] = None

\* The receiving goroutine starts with the stream.
StreamIsOpened == loop.pc = "watch" => recv.pc = "none"

\* What resource i becomes by what is left of the loop's batch.
AfterLoop(i) ==
    IF loop.pc = "update" /\ loop.upd[i] # None THEN loop.upd[i]
    ELSE IF loop.pc \in {"update", "drop"} /\ i \in loop.drp THEN None
    ELSE triggers[i]

\* And then by the response that the receiving goroutine offers.
AfterOffer(i) ==
    IF recv.pc # "offer" \/ recv.item = EndOfList THEN AfterLoop(i)
    ELSE IF recv.item.upd[i] # None THEN recv.item.upd[i]
    ELSE IF i \in recv.item.drp THEN None
    ELSE AfterLoop(i)

\* What is sent is handled, offered or in the loop's batch.
NothingLost ==
    loop.pc # "panicked" =>
        \A i \in Ids : view[i] # Foreign => AfterOffer(i) = view[i]

\* The loop is at the end of a page while triggers are left.
PageIsOpen ==
    /\ start # None => loop.pc = "endOfPage"
    /\ todo # {} => loop.pc \in {"endOfPage", "panicked"}
    /\ \A i \in todo : triggers[i] # None

\* What is about to be executed is a trigger, and it replaces a run only if the
\* trigger asks for it.
StartIsTriggered ==
    start # None =>
        /\ \E i \in Ids : triggers[i] = start.of
        /\ start.policy = "terminate" => start.of.ifRunning = "overlap"

\* A workflow runs for a trigger, or it is an orphan; a panic may leave more,
\* which the restart counts as orphans.
RunsAreTriggered ==
    loop.pc # "panicked" =>
        \A w \in Workflows \ orphans :
            wf[w] = "running" => \E i \in Ids : w \in Left(i)

WorkerInv ==
    /\ TypeOK /\ BatchesAreDisjoint /\ StreamIsOpened /\ NothingLost
    /\ PageIsOpen /\ StartIsTriggered /\ RunsAreTriggered

-----------------------------------------------------------------------------
(* The synchronizer's steps *)

\* Before the process starts nothing is sent and nothing is to do.
LEMMA WorkerInit == Init => WorkerInv
  <1> SUFFICES ASSUME Init PROVE WorkerInv
    OBVIOUS
  <1>1. Nothing \in Contents /\ Nothing \in [Ids -> Triggers \cup {Empty, None}]
    BY DEF Nothing, Contents
  <1>2. SyncTypeOK
    <2>1. 0 \in 0..MaxChanges /\ 0 \in 0..MaxFaults
      BY SyncAssumption
    <2>2. [pc |-> "none", item |-> None] \in
              [pc : {"none", "recv", "offer", "fail", "closing", "closed"},
               item : {None} \cup Batches \cup {EndOfList}]
      OBVIOUS
    <2>3. [pc |-> "watch", upd |-> Nothing, drp |-> {}] \in
              [pc : {"watch", "select", "update", "drop", "endOfPage",
                     "panicked"},
               upd : Contents, drp : SUBSET Ids]
      BY <1>1
    <2>4. recv.pc = "none"
      BY DEF Init, SyncInit
    <2> QED
      BY <1>1, <2>1, <2>2, <2>3, <2>4 DEF Init, SyncInit, SyncTypeOK
  <1>3. TypeOK
    BY <1>1, <1>2 DEF Init, TypeOK
  <1>4. /\ BatchesAreDisjoint /\ StreamIsOpened /\ PageIsOpen
        /\ StartIsTriggered /\ RunsAreTriggered
    BY DEF Init, SyncInit, BatchesAreDisjoint, StreamIsOpened, PageIsOpen,
       StartIsTriggered, RunsAreTriggered
  <1>5. NothingLost
    BY DEF Init, SyncInit, NothingLost, AfterOffer, AfterLoop, Nothing
  <1> QED
    BY <1>3, <1>4, <1>5 DEF WorkerInv

\* The synchronizer's own steps leave the worker alone, and the loop goes on to
\* its next part only between pages.
LEMMA SyncKeeps ==
    ASSUME WorkerInv, UNCHANGED workVars, loop.pc # "panicked",
           loop.pc = "endOfPage" => loop' = loop, SyncTypeOK'
    PROVE  TypeOK' /\ PageIsOpen' /\ StartIsTriggered' /\ RunsAreTriggered'
  <1>1. TypeOK'
    BY DEF WorkerInv, TypeOK, workVars
  <1>2. PageIsOpen'
    BY DEF WorkerInv, PageIsOpen, workVars
  <1>3. StartIsTriggered'
    BY DEF WorkerInv, StartIsTriggered, workVars
  <1>4. RunsAreTriggered'
    BY DEF WorkerInv, RunsAreTriggered, Left, workVars
  <1> QED
    BY <1>1, <1>2, <1>3, <1>4

\* A response updates or drops exactly the ids whose content the client has not
\* been told.
LEMMA ResponseDiffers ==
    ASSUME stored \in Contents, view \in Contents
    PROVE  /\ Response \in Batches \cup {EndOfList}
           /\ Response = EndOfList => view = stored
           /\ Response # EndOfList => \A i \in Ids :
                  /\ i \in Response.drp => Response.upd[i] = None
                  /\ stored[i] # view[i] =>
                         IF stored[i] = None
                         THEN Response.upd[i] = None /\ i \in Response.drp
                         ELSE Response.upd[i] = stored[i]
                  /\ stored[i] = view[i] =>
                         Response.upd[i] = None /\ i \notin Response.drp
  <1> DEFINE upd == [i \in Ids |->
                        IF stored[i] = view[i] THEN None ELSE stored[i]]
             drp == {i \in Ids : stored[i] = None /\ view[i] # None}
             batch == [kind |-> "batch", upd |-> upd, drp |-> drp]
  <1>1. upd \in Contents /\ drp \in SUBSET Ids
    BY DEF Contents
  <1>2. batch \in Batches /\ batch # EndOfList
    BY <1>1 DEF Batches, EndOfList
  <1>3. CASE view = stored
    BY <1>3 DEF Response
  <1>4. CASE view # stored
    <2>1. Response = batch
      BY <1>4 DEF Response
    <2>2. Response.upd = upd /\ Response.drp = drp
      BY <2>1
    <2>3. \A i \in Ids : upd[i] = IF stored[i] = view[i] THEN None
                                  ELSE stored[i]
      OBVIOUS
    <2> QED
      BY <1>2, <2>1, <2>2, <2>3
  <1> QED
    BY <1>3, <1>4

\* What is received is offered as a whole.
LEMMA RecvStep ==
    ASSUME WorkerInv, Recv, UNCHANGED workVars, loop.pc # "panicked"
    PROVE  WorkerInv'
  <1>1. /\ recv.pc = "recv" /\ recv'.pc = "offer" /\ recv'.item = Response
        /\ recv' = [pc |-> "offer", item |-> Response]
        /\ view' = stored
        /\ UNCHANGED <<stored, changes, faults, loop, cancelled, triggers>>
    BY DEF Recv, workVars
  <1>2. stored \in Contents /\ view \in Contents
    BY DEF WorkerInv, TypeOK, SyncTypeOK
  <1>3. SyncTypeOK'
    BY <1>1, <1>2, ResponseDiffers DEF WorkerInv, TypeOK, SyncTypeOK
  <1>4. BatchesAreDisjoint'
    <2>1. Response # EndOfList =>
              \A i \in Response.drp : i \in Ids /\ Response.upd[i] = None
      BY <1>2, ResponseDiffers DEF Batches
    <2> QED
      BY <1>1, <2>1 DEF WorkerInv, BatchesAreDisjoint
  <1>5. NothingLost'
    <2> SUFFICES ASSUME NEW i \in Ids, stored[i] # Foreign
                 PROVE  AfterOffer(i)' = stored[i]
      BY <1>1 DEF NothingLost
    <2>1. AfterLoop(i)' = AfterLoop(i)
      BY <1>1 DEF AfterLoop
    <2>2. view[i] # Foreign => AfterLoop(i) = view[i]
      BY <1>1 DEF WorkerInv, NothingLost, AfterOffer
    <2>3. CASE Response = EndOfList
      <3>1. view = stored
        BY <1>2, <2>3, ResponseDiffers
      <3> QED
        BY <1>1, <2>1, <2>2, <2>3, <3>1 DEF AfterOffer
    <2>4. CASE Response # EndOfList
      <3>1. AfterOffer(i)' =
                IF Response.upd[i] # None THEN Response.upd[i]
                ELSE IF i \in Response.drp THEN None ELSE AfterLoop(i)
        BY <1>1, <2>1, <2>4 DEF AfterOffer
      <3> QED
        BY <1>2, <2>2, <2>4, <3>1, ResponseDiffers
    <2> QED
      BY <2>3, <2>4
  <1>6. TypeOK' /\ PageIsOpen' /\ StartIsTriggered' /\ RunsAreTriggered'
    BY <1>1, <1>3, SyncKeeps
  <1>7. StreamIsOpened'
    BY <1>1 DEF WorkerInv, StreamIsOpened
  <1> QED
    BY <1>4, <1>5, <1>6, <1>7 DEF WorkerInv

\* The steps that change neither what is on its way nor what the loop does.
LEMMA IdleStep ==
    ASSUME WorkerInv, UNCHANGED workVars, loop.pc # "panicked",
           \/ RecvFails \/ RecvCancelled \/ CloseListResCh \/ OpenWatch \/ Cancel
           \/ \E i \in Ids, spec \in Specs \cup {None} : Change(i, spec)
    PROVE  WorkerInv'
  <1>1. /\ SyncTypeOK'
        /\ view' = view /\ loop'.upd = loop.upd /\ loop'.drp = loop.drp
        /\ loop.pc = "endOfPage" => loop' = loop
        /\ loop'.pc = loop.pc \/ (loop.pc = "watch" /\ loop'.pc = "select")
        /\ recv' = recv \/ (recv.pc # "offer" /\ recv'.pc # "offer")
        /\ loop'.pc # "watch" \/ recv' = recv
    <2>0. SyncTypeOK /\ (loop.pc = "watch" => recv.pc = "none")
      BY DEF WorkerInv, TypeOK, StreamIsOpened
    <2>1. CASE RecvFails
      BY <2>0, <2>1, SyncAssumption DEF SyncTypeOK, RecvFails
    <2>2. CASE RecvCancelled
      BY <2>0, <2>2 DEF SyncTypeOK, RecvCancelled
    <2>3. CASE CloseListResCh
      BY <2>0, <2>3 DEF SyncTypeOK, CloseListResCh
    <2>4. CASE OpenWatch
      BY <2>0, <2>4 DEF SyncTypeOK, OpenWatch
    <2>5. CASE Cancel
      BY <2>0, <2>5 DEF SyncTypeOK, Cancel
    <2>6. ASSUME NEW i \in Ids, NEW spec \in Specs \cup {None}, Change(i, spec)
          PROVE  /\ SyncTypeOK' /\ UNCHANGED <<view, loop, recv>>
      <3>1. stored' \in Contents
        BY <2>0, <2>6 DEF SyncTypeOK, Change, Contents
      <3>2. changes' \in 0..MaxChanges
        BY <2>0, <2>6, SyncAssumption DEF SyncTypeOK, Change
      <3> QED
        BY <2>0, <2>6, <3>1, <3>2 DEF SyncTypeOK, Change
    <2> QED
      BY <2>1, <2>2, <2>3, <2>4, <2>5, <2>6
  <1>2. BatchesAreDisjoint' /\ StreamIsOpened'
    BY <1>1 DEF WorkerInv, BatchesAreDisjoint, StreamIsOpened
  <1>3. NothingLost'
    <2>1. \A i \in Ids : AfterLoop(i)' = AfterLoop(i)
      BY <1>1 DEF AfterLoop, workVars
    <2>2. \A i \in Ids : AfterOffer(i)' = AfterOffer(i)
      BY <1>1, <2>1 DEF AfterOffer
    <2> QED
      BY <1>1, <2>2 DEF WorkerInv, NothingLost
  <1>4. TypeOK' /\ PageIsOpen' /\ StartIsTriggered' /\ RunsAreTriggered'
    BY <1>1, SyncKeeps
  <1> QED
    BY <1>2, <1>3, <1>4 DEF WorkerInv

\* A response goes from the channel into the loop, unchanged.
LEMMA TakeStep ==
    ASSUME WorkerInv, Take, UNCHANGED workVars
    PROVE  WorkerInv'
  <1>1. /\ SyncTypeOK /\ loop.pc = "select" /\ recv.pc = "offer"
        /\ recv.item \in Batches \cup {EndOfList}
        /\ recv' = [pc |-> "recv", item |-> None] /\ recv'.pc = "recv"
        /\ UNCHANGED <<stored, changes, faults, view, cancelled, triggers>>
    BY DEF Take, WorkerInv, TypeOK, SyncTypeOK, workVars
  <1>2. CASE recv.item = EndOfList
    <2>1. loop' = [loop EXCEPT !.pc = "endOfPage"] /\ loop'.pc = "endOfPage"
      BY <1>1, <1>2 DEF Take, SyncTypeOK
    <2>2. SyncTypeOK'
      BY <1>1, <2>1 DEF SyncTypeOK
    <2>3. BatchesAreDisjoint' /\ StreamIsOpened'
      BY <1>1, <2>1 DEF BatchesAreDisjoint, StreamIsOpened
    <2>4. NothingLost'
      BY <1>1, <1>2, <2>1 DEF WorkerInv, NothingLost, AfterOffer, AfterLoop
    <2>5. TypeOK' /\ PageIsOpen' /\ StartIsTriggered' /\ RunsAreTriggered'
      BY <1>1, <2>2, SyncKeeps
    <2> QED
      BY <2>3, <2>4, <2>5 DEF WorkerInv
  <1>3. CASE recv.item # EndOfList
    <2>1. /\ recv.item \in Batches /\ recv.item.upd \in Contents
          /\ recv.item.drp \in SUBSET Ids
      BY <1>1, <1>3 DEF Batches
    <2>2. /\ loop' = [loop EXCEPT !.pc = "update", !.upd = recv.item.upd,
                                  !.drp = recv.item.drp]
          /\ loop'.pc = "update" /\ loop'.upd = recv.item.upd
          /\ loop'.drp = recv.item.drp
      BY <1>1, <1>3 DEF Take, SyncTypeOK
    <2>3. SyncTypeOK'
      BY <1>1, <2>1, <2>2 DEF SyncTypeOK
    <2>4. BatchesAreDisjoint' /\ StreamIsOpened'
      BY <1>1, <1>3, <2>2 DEF WorkerInv, BatchesAreDisjoint, StreamIsOpened
    <2>5. NothingLost'
      <3>1. \A i \in Ids : AfterOffer(i)' = AfterOffer(i)
        BY <1>1, <1>3, <2>2 DEF AfterOffer, AfterLoop
      <3> QED
        BY <1>1, <3>1 DEF WorkerInv, NothingLost
    <2>6. TypeOK' /\ PageIsOpen' /\ StartIsTriggered' /\ RunsAreTriggered'
      BY <1>1, <2>3, SyncKeeps
    <2> QED
      BY <2>4, <2>5, <2>6 DEF WorkerInv
  <1> QED
    BY <1>2, <1>3

\* The loop ends with a panic.
LEMMA LoopEndsStep ==
    ASSUME WorkerInv, LoopEnds, UNCHANGED workVars
    PROVE  WorkerInv'
  <1>1. /\ SyncTypeOK /\ loop.pc = "select"
        /\ loop' = [loop EXCEPT !.pc = "panicked"]
        /\ recv' \in {recv, [recv EXCEPT !.pc = "closing"]}
        /\ UNCHANGED <<stored, changes, faults, view, cancelled, triggers>>
    BY DEF LoopEnds, Panics, WorkerInv, TypeOK, workVars
  <1>2. loop'.pc = "panicked" /\ (recv' = recv \/ recv'.pc = "closing")
    BY <1>1 DEF SyncTypeOK
  <1>3. SyncTypeOK'
    BY <1>1, <1>2 DEF SyncTypeOK
  <1>4. BatchesAreDisjoint' /\ StreamIsOpened' /\ NothingLost'
    BY <1>1, <1>2 DEF WorkerInv, BatchesAreDisjoint, StreamIsOpened, NothingLost
  <1>5. TypeOK' /\ PageIsOpen' /\ StartIsTriggered' /\ RunsAreTriggered'
    BY <1>1, <1>3, SyncKeeps
  <1> QED
    BY <1>4, <1>5 DEF WorkerInv

\* The loop goes on with the drops, and then with the select.
LEMMA NextPartStep ==
    ASSUME WorkerInv, NextPart, UNCHANGED workVars
    PROVE  WorkerInv'
  <1>1. /\ SyncTypeOK
        /\ \/ /\ loop.pc = "update" /\ loop.upd = Nothing
              /\ loop' = [loop EXCEPT !.pc = "drop"] /\ loop'.pc = "drop"
           \/ /\ loop.pc = "drop" /\ loop.drp = {}
              /\ loop' = [loop EXCEPT !.pc = "select"] /\ loop'.pc = "select"
        /\ loop'.upd = loop.upd /\ loop'.drp = loop.drp
        /\ UNCHANGED <<stored, changes, faults, view, recv, cancelled, triggers>>
    BY DEF NextPart, WorkerInv, TypeOK, SyncTypeOK, workVars
  <1>2. SyncTypeOK'
    BY <1>1 DEF SyncTypeOK
  <1>3. BatchesAreDisjoint' /\ StreamIsOpened'
    BY <1>1 DEF WorkerInv, BatchesAreDisjoint, StreamIsOpened
  <1>4. NothingLost'
    <2>1. \A i \in Ids : Nothing[i] = None
      BY DEF Nothing
    <2>2. \A i \in Ids : AfterLoop(i)' = AfterLoop(i)
      BY <1>1, <2>1 DEF AfterLoop
    <2>3. \A i \in Ids : AfterOffer(i)' = AfterOffer(i)
      BY <1>1, <2>2 DEF AfterOffer
    <2> QED
      BY <1>1, <2>3 DEF WorkerInv, NothingLost
  <1>5. TypeOK' /\ PageIsOpen' /\ StartIsTriggered' /\ RunsAreTriggered'
    BY <1>1, <1>2, SyncKeeps
  <1> QED
    BY <1>3, <1>4, <1>5 DEF WorkerInv

-----------------------------------------------------------------------------
(* The worker's steps *)

\* A step that ends in a panic of the loop needs to keep little.
LEMMA PanicsKeeps ==
    ASSUME WorkerInv, Panics, TypeOK', UNCHANGED <<recv, todo, start, cancelled>>,
           start = None, \A i \in todo : triggers'[i] = triggers[i]
    PROVE  WorkerInv'
  <1>1. loop'.pc = "panicked"
    BY DEF Panics, WorkerInv, TypeOK, SyncTypeOK
  <1>2. BatchesAreDisjoint' /\ StreamIsOpened' /\ NothingLost' /\ PageIsOpen'
    BY <1>1 DEF WorkerInv, BatchesAreDisjoint, StreamIsOpened, NothingLost,
       PageIsOpen
  <1>3. StartIsTriggered' /\ RunsAreTriggered'
    BY <1>1 DEF StartIsTriggered, RunsAreTriggered
  <1> QED
    BY <1>2, <1>3 DEF WorkerInv

\* Outside a page nothing is to be triggered.
LEMMA NoPage ==
    ASSUME WorkerInv, loop.pc \in {"watch", "select", "update", "drop"}
    PROVE  start = None /\ todo = {}
  BY DEF WorkerInv, PageIsOpen

\* The ids that a step does not touch keep their triggers and workflows.
LEMMA RunsKept ==
    ASSUME WorkerInv, loop.pc # "panicked", NEW i \in Ids,
           \A j \in Ids \ {i} : triggers'[j] = triggers[j],
           orphans \subseteq orphans', Left(i) \subseteq orphans',
           \A w \in Workflows : wf'[w] = "running" => wf[w] = "running"
    PROVE  RunsAreTriggered'
  <1> SUFFICES ASSUME NEW w \in Workflows \ orphans', wf'[w] = "running"
               PROVE  \E j \in Ids : w \in Left(j)'
    BY DEF RunsAreTriggered
  <1>1. PICK j \in Ids : w \in Left(j)
    BY DEF WorkerInv, RunsAreTriggered
  <1>2. j # i
    BY <1>1
  <1>3. Left(j)' = Left(j)
    BY <1>2 DEF Left
  <1> QED
    BY <1>1, <1>3

\* OnUpdated.
LEMMA OnUpdatedStep ==
    ASSUME WorkerInv, NEW i \in Ids, OnUpdated(i)
    PROVE  WorkerInv'
  <1>1. /\ TypeOK /\ SyncTypeOK /\ loop.pc = "update" /\ loop.upd[i] # None
        /\ loop.upd[i] \in Specs
        /\ UNCHANGED <<stored, changes, view, recv, cancelled, faults, todo,
                       start, wf, run>>
    BY DEF OnUpdated, SyncBut, WorkerInv, TypeOK, SyncTypeOK, Contents
  <1>2. start = None /\ todo = {}
    BY <1>1, NoPage
  <1>3. CASE loop.upd[i] = Unknown
    <2>1. Panics /\ UNCHANGED <<triggers, orphans>>
      BY <1>3 DEF OnUpdated
    <2>2. SyncTypeOK'
      BY <1>1, <2>1 DEF SyncTypeOK, Panics
    <2>3. TypeOK'
      BY <1>1, <2>1, <2>2 DEF TypeOK
    <2> QED
      BY <1>1, <1>2, <2>1, <2>3, PanicsKeeps
  <1>4. CASE loop.upd[i] # Unknown
    <2>1. /\ loop' = [loop EXCEPT !.upd[i] = None]
          /\ \/ loop.upd[i] = Foreign /\ UNCHANGED <<triggers, orphans>>
             \/ /\ loop.upd[i] # Foreign
                /\ triggers' = [triggers EXCEPT ![i] = loop.upd[i]]
                /\ orphans' = orphans \cup Left(i)
      BY <1>4 DEF OnUpdated
    <2>2. /\ loop'.pc = "update" /\ loop'.drp = loop.drp
          /\ loop'.upd = [loop.upd EXCEPT ![i] = None]
          /\ loop' = [pc |-> "update", upd |-> [loop.upd EXCEPT ![i] = None],
                      drp |-> loop.drp]
      BY <1>1, <2>1 DEF SyncTypeOK
    <2>3. loop'.upd \in Contents /\ loop.upd \in Contents
      BY <1>1, <2>2 DEF SyncTypeOK, Contents
    <2>4. \A j \in Ids : loop'.upd[j] = IF j = i THEN None ELSE loop.upd[j]
      BY <2>2, <2>3 DEF Contents
    <2>5. SyncTypeOK'
      BY <1>1, <2>2, <2>3 DEF SyncTypeOK
    <2>6. /\ triggers' \in [Ids -> Triggers \cup {Empty, None}]
          /\ \A j \in Ids \ {i} : triggers'[j] = triggers[j]
          /\ loop.upd[i] # Foreign => triggers'[i] = loop.upd[i]
      BY <1>1, <1>4, <2>1 DEF TypeOK, Triggers
    <2>7. Left(i) \subseteq Workflows
      BY DEF Left
    <2>8. TypeOK'
      BY <1>1, <2>1, <2>5, <2>6, <2>7 DEF TypeOK
    <2>9. BatchesAreDisjoint' /\ StreamIsOpened'
      <3>1. \A j \in loop.drp : j \in Ids
        BY <1>1 DEF SyncTypeOK
      <3> QED
        BY <1>1, <2>2, <2>4, <3>1
           DEF WorkerInv, BatchesAreDisjoint, StreamIsOpened
    <2>10. NothingLost'
      <3> SUFFICES ASSUME NEW j \in Ids, view[j] # Foreign
                   PROVE  AfterOffer(j)' = view[j]
        BY <1>1 DEF NothingLost
      <3>1. AfterOffer(j) = view[j]
        BY <1>1 DEF WorkerInv, NothingLost
      <3>2. AfterLoop(j)' = AfterLoop(j) \/ AfterLoop(j) = Foreign
        <4>1. CASE j = i
          <5>1. i \notin loop.drp
            BY <1>1 DEF WorkerInv, BatchesAreDisjoint
          <5> QED
            BY <1>1, <2>2, <2>4, <2>6, <4>1, <5>1 DEF AfterLoop
        <4>2. CASE j # i
          BY <1>1, <2>2, <2>4, <2>6, <4>2 DEF AfterLoop
        <4> QED
          BY <4>1, <4>2
      <3> QED
        BY <1>1, <3>1, <3>2 DEF AfterOffer
    <2>11. PageIsOpen' /\ StartIsTriggered'
      BY <1>1, <1>2 DEF PageIsOpen, StartIsTriggered
    <2>12. RunsAreTriggered'
      <3>1. CASE loop.upd[i] = Foreign
        BY <1>1, <2>1, <3>1 DEF WorkerInv, RunsAreTriggered, Left
      <3>2. CASE loop.upd[i] # Foreign
        BY <1>1, <2>1, <2>6, <3>2, RunsKept
      <3> QED
        BY <3>1, <3>2
    <2> QED
      BY <2>8, <2>9, <2>10, <2>11, <2>12 DEF WorkerInv
  <1> QED
    BY <1>3, <1>4

\* OnDropped: the trigger is gone, and its workflow stopped, an orphan, or the
\* process ends.
LEMMA OnDroppedStep ==
    ASSUME WorkerInv, NEW i \in Ids, OnDropped(i)
    PROVE  WorkerInv'
  <1>1. /\ TypeOK /\ SyncTypeOK /\ loop.pc = "drop" /\ i \in loop.drp
        /\ triggers' = [triggers EXCEPT ![i] = None]
        /\ triggers[i] \in Triggers \cup {Empty, None}
        /\ UNCHANGED <<stored, changes, view, recv, cancelled, todo, start,
                       run>>
    BY DEF OnDropped, SyncBut, WorkerInv, TypeOK
  <1>2. start = None /\ todo = {}
    BY <1>1, NoPage
  <1> DEFINE done == loop' = [loop EXCEPT !.drp = @ \ {i}]
             w == workflowIdFromTrigger(triggers[i])
  <1>3. /\ Left(i) \subseteq Workflows
        /\ triggers[i] \in {None, Empty} => Left(i) = {}
        /\ triggers[i] \notin {None, Empty} => Left(i) = {w} \cap Workflows
    BY DEF Left
  <1>4. /\ wf' \in [Workflows -> {"none", "running", "canceling", "completed",
                                  "failed"}]
        /\ orphans' \in {orphans, orphans \cup Left(i)}
        /\ faults' = faults \/ (faults < MaxFaults /\ faults' = faults + 1)
        /\ \A v \in Workflows : wf'[v] = "running" => wf[v] = "running"
        /\ \/ Panics
           \/ /\ done
              /\ Left(i) \subseteq orphans' \/ \A v \in Left(i) : wf'[v] # "running"
    <2>1. CASE triggers[i] = None
      BY <1>1, <1>3, <2>1 DEF OnDropped, TypeOK
    <2>2. CASE triggers[i] # None /\ triggers[i] = Empty
      BY <1>1, <1>3, <2>2 DEF OnDropped, TypeOK
    <2>3. CASE triggers[i] \notin {None, Empty}
      <3>1. CASE /\ w \in Workflows
                 /\ wf' = [wf EXCEPT ![w] = IF triggers[i].onDrop = "cancel"
                                            THEN "canceling" ELSE "failed"]
                 /\ done /\ UNCHANGED <<orphans, faults>>
        BY <1>1, <1>3, <2>3, <3>1 DEF TypeOK
      <3>2. CASE orphans' = orphans \cup Left(i) /\ done /\ UNCHANGED <<wf, faults>>
        BY <1>1, <3>2 DEF TypeOK
      <3>3. CASE Panics /\ UNCHANGED <<wf, orphans, faults>>
        BY <1>1, <3>3 DEF TypeOK
      <3>4. CASE Fault /\ Panics /\ UNCHANGED wf /\ orphans' = orphans \cup Left(i)
        BY <1>1, <3>4 DEF TypeOK, Fault
      <3> QED
        BY <2>3, <3>1, <3>2, <3>3, <3>4 DEF OnDropped
    <2> QED
      BY <2>1, <2>2, <2>3
  <1>5. /\ triggers' \in [Ids -> Triggers \cup {Empty, None}]
        /\ \A j \in Ids : triggers'[j] = IF j = i THEN None ELSE triggers[j]
        /\ orphans' \in SUBSET Workflows /\ faults' \in 0..MaxFaults
    BY <1>1, <1>3, <1>4, SyncAssumption DEF TypeOK, SyncTypeOK
  <1>6. CASE Panics
    <2>1. SyncTypeOK'
      BY <1>1, <1>5, <1>6 DEF SyncTypeOK, Panics
    <2>2. TypeOK'
      BY <1>1, <1>4, <1>5, <2>1 DEF TypeOK
    <2> QED
      BY <1>1, <1>2, <1>6, <2>2, PanicsKeeps
  <1>7. CASE /\ done
             /\ Left(i) \subseteq orphans' \/ \A v \in Left(i) : wf'[v] # "running"
    <2>1. /\ loop'.pc = "drop" /\ loop'.upd = loop.upd
          /\ loop'.drp = loop.drp \ {i}
      BY <1>1, <1>7 DEF SyncTypeOK
    <2>2. SyncTypeOK'
      BY <1>1, <1>5, <1>7, <2>1 DEF SyncTypeOK
    <2>3. TypeOK'
      BY <1>1, <1>4, <1>5, <2>2 DEF TypeOK
    <2>4. BatchesAreDisjoint' /\ StreamIsOpened'
      BY <1>1, <2>1 DEF WorkerInv, BatchesAreDisjoint, StreamIsOpened
    <2>5. NothingLost'
      <3>1. \A j \in Ids : AfterLoop(j)' = AfterLoop(j)
        BY <1>1, <1>5, <2>1 DEF AfterLoop
      <3>2. \A j \in Ids : AfterOffer(j)' = AfterOffer(j)
        BY <1>1, <3>1 DEF AfterOffer
      <3> QED
        BY <1>1, <3>2 DEF WorkerInv, NothingLost
    <2>6. PageIsOpen' /\ StartIsTriggered'
      BY <1>1, <1>2 DEF PageIsOpen, StartIsTriggered
    <2>7. RunsAreTriggered'
      <3> SUFFICES ASSUME NEW v \in Workflows \ orphans', wf'[v] = "running"
                   PROVE  \E j \in Ids : v \in Left(j)'
        BY DEF RunsAreTriggered
      <3>1. PICK j \in Ids : v \in Left(j)
        BY <1>1, <1>4 DEF WorkerInv, RunsAreTriggered
      <3>2. j # i
        BY <1>7, <3>1
      <3>3. Left(j)' = Left(j)
        BY <1>5, <3>2 DEF Left
      <3> QED
        BY <3>1, <3>3
    <2> QED
      BY <2>3, <2>4, <2>5, <2>6, <2>7 DEF WorkerInv
  <1> QED
    BY <1>4, <1>6, <1>7

\* A step within a page: the triggers stay, and the loop may go on.
LEMMA PageKeeps ==
    ASSUME WorkerInv, loop.pc = "endOfPage",
           UNCHANGED <<stored, changes, view, recv, cancelled, triggers, orphans>>,
           loop' \in {loop, [loop EXCEPT !.pc = "select"]},
           faults' = faults \/ (faults < MaxFaults /\ faults' = faults + 1)
    PROVE  /\ SyncTypeOK' /\ BatchesAreDisjoint' /\ StreamIsOpened'
           /\ NothingLost' /\ loop'.pc \in {"endOfPage", "select"}
           /\ loop' = [loop EXCEPT !.pc = "select"] => loop'.pc = "select"
  <1>1. /\ SyncTypeOK /\ loop'.pc \in {"endOfPage", "select"}
        /\ loop'.upd = loop.upd /\ loop'.drp = loop.drp
        /\ loop' = [loop EXCEPT !.pc = "select"] => loop'.pc = "select"
    BY DEF WorkerInv, TypeOK, SyncTypeOK
  <1>2. faults' \in 0..MaxFaults
    BY <1>1, SyncAssumption DEF SyncTypeOK
  <1>3. SyncTypeOK'
    BY <1>1, <1>2 DEF SyncTypeOK
  <1>4. BatchesAreDisjoint' /\ StreamIsOpened'
    BY <1>1 DEF WorkerInv, BatchesAreDisjoint, StreamIsOpened
  <1>5. NothingLost'
    <2>1. \A j \in Ids : AfterLoop(j)' = AfterLoop(j)
      BY <1>1 DEF AfterLoop
    <2>2. \A j \in Ids : AfterOffer(j)' = AfterOffer(j)
      BY <2>1 DEF AfterOffer
    <2> QED
      BY <2>2 DEF WorkerInv, NothingLost
  <1> QED
    BY <1>1, <1>3, <1>4, <1>5

\* OnEndOfPage.
LEMMA OnEndOfPageStep ==
    ASSUME WorkerInv, OnEndOfPage
    PROVE  WorkerInv'
  <1>1. /\ loop.pc = "endOfPage" /\ start = None
        /\ todo' = {i \in Ids : triggers[i] # None}
        /\ loop' = IF todo' = {} THEN [loop EXCEPT !.pc = "select"] ELSE loop
        /\ UNCHANGED <<stored, changes, view, recv, cancelled, faults, triggers,
                       start, wf, run, orphans>>
    BY DEF OnEndOfPage, SyncBut
  <1>2. /\ SyncTypeOK' /\ BatchesAreDisjoint' /\ StreamIsOpened'
        /\ NothingLost' /\ loop'.pc \in {"endOfPage", "select"}
    BY <1>1, PageKeeps
  <1>3. TypeOK'
    BY <1>1, <1>2 DEF WorkerInv, TypeOK
  <1>4. PageIsOpen' /\ StartIsTriggered'
    BY <1>1 DEF PageIsOpen, StartIsTriggered
  <1>5. RunsAreTriggered'
    BY <1>1 DEF WorkerInv, RunsAreTriggered, Left
  <1> QED
    BY <1>2, <1>3, <1>4, <1>5 DEF WorkerInv

\* Trigger: a policy that replaces a run comes from checkIfIsRunning alone.
LEMMA TriggerStep ==
    ASSUME WorkerInv, NEW i \in Ids, Trigger(i)
    PROVE  WorkerInv'
  <1>1. /\ TypeOK /\ SyncTypeOK /\ loop.pc = "endOfPage" /\ start = None
        /\ i \in todo /\ triggers[i] \in Triggers \cup {Empty}
        /\ UNCHANGED <<stored, changes, view, recv, cancelled, triggers, wf,
                       run, orphans>>
    BY DEF Trigger, SyncBut, WorkerInv, TypeOK, PageIsOpen
  <1>2. CASE triggers[i] = Empty
    <2>1. Panics /\ UNCHANGED <<todo, start, faults>>
      BY <1>2 DEF Trigger
    <2>2. SyncTypeOK'
      BY <1>1, <2>1 DEF SyncTypeOK, Panics
    <2>3. TypeOK'
      BY <1>1, <2>1, <2>2 DEF TypeOK
    <2> QED
      BY <1>1, <2>1, <2>3, PanicsKeeps
  <1>3. CASE triggers[i] # Empty
    <2> DEFINE t == triggers[i]
               opts == triggerToWorkflowStartOptions(t)
    <2>1. t \in Triggers
      BY <1>1, <1>3
    <2>2. /\ todo' = todo \ {i}
          /\ faults' = faults \/ (faults < MaxFaults /\ faults' = faults + 1)
          /\ \/ start' = None /\ loop' = IF todo \ {i} = {}
                                         THEN [loop EXCEPT !.pc = "select"]
                                         ELSE loop
             \/ start' \in {opts, checkIfIsRunning(opts)} /\ loop' = loop
      <3>1. CASE workflowIdFromTrigger(t) = Invalid \/ ~t.args
        BY <1>1, <1>3, <3>1 DEF Trigger, NextTrigger
      <3>2. CASE ~(workflowIdFromTrigger(t) = Invalid \/ ~t.args)
        BY <1>1, <1>3, <3>2 DEF Trigger, Fault
      <3> QED
        BY <3>1, <3>2
    <2>3. \A o \in {opts, checkIfIsRunning(opts)} :
              /\ o \in [of : Triggers, policy : {"failedOnly", "terminate"}]
              /\ o.of = t
              /\ o.policy = "terminate" => o.of.ifRunning = "overlap"
      BY <2>1 DEF triggerToWorkflowStartOptions, checkIfIsRunning
    <2>4. /\ SyncTypeOK' /\ BatchesAreDisjoint' /\ StreamIsOpened'
          /\ NothingLost' /\ loop'.pc \in {"endOfPage", "select"}
      BY <1>1, <2>2, PageKeeps
    <2>5. TypeOK'
      BY <1>1, <2>2, <2>3, <2>4 DEF TypeOK
    <2>6. PageIsOpen'
      BY <1>1, <2>2 DEF WorkerInv, PageIsOpen
    <2>7. StartIsTriggered'
      BY <1>1, <2>2, <2>3 DEF StartIsTriggered
    <2>8. RunsAreTriggered'
      BY <1>1 DEF WorkerInv, RunsAreTriggered, Left
    <2> QED
      BY <2>4, <2>5, <2>6, <2>7, <2>8 DEF WorkerInv
  <1> QED
    BY <1>2, <1>3

\* What ExecuteWorkflow does to Temporal: it starts the workflow of the trigger
\* or nothing, and it replaces a run only with the policy to terminate it.
LEMMA ExecuteFacts ==
    ASSUME TypeOK, ExecuteWorkflow
    PROVE  /\ wf' \in [Workflows -> {"none", "running", "canceling",
                                     "completed", "failed"}]
           /\ run' \in [Workflows -> {0, 1}]
           /\ \A w \in Workflows :
                  wf'[w] = "running" /\ wf[w] # "running" =>
                      w = workflowIdFromTrigger(start.of)
           /\ \A w \in Workflows :
                  IsRunning(w) /\ run'[w] # run[w] => start.policy = "terminate"
  <1> DEFINE v == workflowIdFromTrigger(start.of)
  <1>1. CASE UNCHANGED <<wf, run>>
    BY <1>1 DEF TypeOK
  <1>2. CASE /\ start.policy = "terminate" \/ wf[v] \in {"none", "failed"}
             /\ wf' = [wf EXCEPT ![v] = "running"]
             /\ run' = [run EXCEPT ![v] = IF IsRunning(v) THEN 1 - @ ELSE 0]
    <2>1. /\ run' \in [Workflows -> {0, 1}]
          /\ \A w \in Workflows : w # v => run'[w] = run[w]
      <3> DEFINE new == IF IsRunning(v) THEN 1 - run[v] ELSE 0
      <3>1. run' = [run EXCEPT ![v] = new] /\ run \in [Workflows -> {0, 1}]
        BY <1>2 DEF TypeOK
      <3>2. v \in Workflows => new \in {0, 1}
        BY <3>1
      <3> HIDE DEF new
      <3> QED
        BY <3>1, <3>2
    <2>2. /\ wf' \in [Workflows -> {"none", "running", "canceling",
                                    "completed", "failed"}]
          /\ \A w \in Workflows : w # v => wf'[w] = wf[w]
      BY <1>2 DEF TypeOK
    <2>3. \A w \in Workflows : IsRunning(w) /\ run'[w] # run[w] =>
                                   start.policy = "terminate"
      BY <1>2, <2>1 DEF IsRunning
    <2> QED
      BY <2>1, <2>2, <2>3
  <1> QED
    BY <1>1, <1>2 DEF ExecuteWorkflow, Execute

\* ExecuteWorkflow, and then the next trigger of the page.
LEMMA ExecuteWorkflowStep ==
    ASSUME WorkerInv, ExecuteWorkflow
    PROVE  WorkerInv'
  <1>1. /\ TypeOK /\ start # None /\ loop.pc = "endOfPage"
        /\ start' = None /\ todo' = todo
        /\ loop' = IF todo = {} THEN [loop EXCEPT !.pc = "select"] ELSE loop
        /\ faults' = faults \/ (faults < MaxFaults /\ faults' = faults + 1)
        /\ UNCHANGED <<stored, changes, view, recv, cancelled, triggers,
                       orphans>>
    BY DEF ExecuteWorkflow, SyncBut, NextTrigger, Fault, WorkerInv, PageIsOpen
  <1>2. /\ SyncTypeOK' /\ BatchesAreDisjoint' /\ StreamIsOpened'
        /\ NothingLost' /\ loop'.pc \in {"endOfPage", "select"}
    BY <1>1, PageKeeps
  <1>3. TypeOK'
    BY <1>1, <1>2, ExecuteFacts DEF TypeOK
  <1>4. PageIsOpen' /\ StartIsTriggered'
    BY <1>1 DEF WorkerInv, PageIsOpen, StartIsTriggered
  <1>5. RunsAreTriggered'
    <2> SUFFICES ASSUME NEW w \in Workflows \ orphans, wf'[w] = "running"
                 PROVE  \E j \in Ids : w \in Left(j)
      BY <1>1 DEF RunsAreTriggered, Left
    <2>1. CASE wf[w] = "running"
      BY <1>1, <2>1 DEF WorkerInv, RunsAreTriggered
    <2>2. CASE wf[w] # "running"
      <3>1. w = workflowIdFromTrigger(start.of)
        BY <1>1, <2>2, ExecuteFacts
      <3>2. PICK j \in Ids : triggers[j] = start.of
        BY <1>1 DEF WorkerInv, StartIsTriggered
      <3>3. start.of \in Triggers
        BY <1>1 DEF TypeOK
      <3>4. triggers[j] \notin {None, Empty}
        BY <3>2, <3>3, SyncAssumption DEF Triggers
      <3> QED
        BY <3>1, <3>2, <3>4 DEF Left
    <2> QED
      BY <2>1, <2>2
  <1> QED
    BY <1>2, <1>3, <1>4, <1>5 DEF WorkerInv

\* A new process starts from nothing, and what still runs is an orphan.
LEMMA WorkerRestartsStep ==
    ASSUME WorkerInv, WorkerRestarts
    PROVE  WorkerInv'
  <1> DEFINE lost == UNION {Left(i) : i \in Ids}
             runs == {w \in Workflows : IsRunning(w)}
  <1>0. orphans' = orphans \cup lost \cup runs
    BY DEF WorkerRestarts
  <1>1. /\ TypeOK /\ view' = Nothing
        /\ recv' = [pc |-> "none", item |-> None] /\ recv'.pc = "none"
        /\ loop' = [loop EXCEPT !.pc = "watch", !.upd = Nothing, !.drp = {}]
        /\ triggers' = Nothing /\ todo' = {} /\ start' = None
        /\ UNCHANGED <<stored, changes, faults, cancelled, wf, run>>
    BY DEF WorkerRestarts, Restart, WorkerInv
  <1>2. Nothing \in Contents /\ Nothing \in [Ids -> Triggers \cup {Empty, None}]
    BY DEF Nothing, Contents
  <1>3. /\ loop' = [pc |-> "watch", upd |-> Nothing, drp |-> {}]
        /\ loop'.pc = "watch"
    BY <1>1 DEF TypeOK, SyncTypeOK
  <1>4. SyncTypeOK'
    BY <1>1, <1>2, <1>3 DEF TypeOK, SyncTypeOK
  <1>5. /\ orphans' \in SUBSET Workflows
        /\ \A w \in Workflows : wf[w] = "running" => w \in orphans'
    <2>1. \A i \in Ids : Left(i) \subseteq Workflows
      BY DEF Left
    <2>2. lost \subseteq Workflows
      BY <2>1
    <2>3. /\ runs \subseteq Workflows
          /\ \A w \in Workflows : wf[w] = "running" => w \in runs
      BY DEF IsRunning
    <2> HIDE DEF lost, runs
    <2> QED
      BY <1>0, <1>1, <2>2, <2>3 DEF TypeOK
  <1>6. TypeOK'
    BY <1>1, <1>2, <1>4, <1>5 DEF TypeOK
  <1>7. /\ BatchesAreDisjoint' /\ StreamIsOpened' /\ PageIsOpen'
        /\ StartIsTriggered'
    BY <1>1, <1>3 DEF BatchesAreDisjoint, StreamIsOpened, PageIsOpen,
       StartIsTriggered
  <1>8. NothingLost'
    BY <1>1, <1>3 DEF NothingLost, AfterOffer, AfterLoop
  <1>9. RunsAreTriggered'
    BY <1>1, <1>5 DEF RunsAreTriggered
  <1> QED
    BY <1>6, <1>7, <1>8, <1>9 DEF WorkerInv

\* A workflow that ends, and a stuttering step.
LEMMA CompletesStep ==
    ASSUME WorkerInv,
           (\E w \in Workflows : Completes(w)) \/ UNCHANGED vars
    PROVE  WorkerInv'
  <1>1. /\ UNCHANGED <<syncVars, triggers, todo, start, orphans>>
        /\ wf' \in [Workflows -> {"none", "running", "canceling", "completed",
                                  "failed"}]
        /\ run' \in [Workflows -> {0, 1}]
        /\ \A w \in Workflows : wf'[w] = "running" => wf[w] = "running"
    <2>1. ASSUME NEW w \in Workflows, Completes(w)
          PROVE  /\ UNCHANGED <<syncVars, triggers, todo, start, orphans>>
                 /\ wf' \in [Workflows -> {"none", "running", "canceling",
                                           "completed", "failed"}]
                 /\ run' \in [Workflows -> {0, 1}]
                 /\ \A v \in Workflows : wf'[v] = "running" => wf[v] = "running"
      BY <2>1 DEF Completes, WorkerInv, TypeOK
    <2>2. CASE UNCHANGED vars
      BY <2>2 DEF vars, WorkerInv, TypeOK
    <2> QED
      BY <2>1, <2>2
  <1>2. SyncTypeOK'
    BY <1>1 DEF WorkerInv, TypeOK, SyncTypeOK, syncVars
  <1>3. TypeOK'
    BY <1>1, <1>2 DEF WorkerInv, TypeOK
  <1>4. BatchesAreDisjoint' /\ StreamIsOpened' /\ PageIsOpen'
    BY <1>1 DEF WorkerInv, BatchesAreDisjoint, StreamIsOpened, PageIsOpen,
       syncVars
  <1>5. NothingLost'
    BY <1>1 DEF WorkerInv, NothingLost, AfterOffer, AfterLoop, syncVars
  <1>6. StartIsTriggered'
    BY <1>1 DEF WorkerInv, StartIsTriggered
  <1>7. RunsAreTriggered'
    BY <1>1 DEF WorkerInv, RunsAreTriggered, Left, syncVars
  <1> QED
    BY <1>3, <1>4, <1>5, <1>6, <1>7 DEF WorkerInv

\* Every step keeps the invariant.
LEMMA WorkerStep == WorkerInv /\ [Next]_vars => WorkerInv'
  <1> SUFFICES ASSUME WorkerInv, [Next]_vars PROVE WorkerInv'
    OBVIOUS
  <1>1. CASE SyncSteps /\ UNCHANGED workVars
    BY <1>1, RecvStep, IdleStep, TakeStep, LoopEndsStep, NextPartStep
       DEF SyncSteps
  <1>2. CASE SyncEnv /\ UNCHANGED workVars
    BY <1>2, IdleStep DEF SyncEnv
  <1>3. CASE OnEndOfPage \/ ExecuteWorkflow \/ WorkerRestarts
    BY <1>3, OnEndOfPageStep, ExecuteWorkflowStep, WorkerRestartsStep
  <1>4. ASSUME NEW i \in Ids, Handles(i) PROVE WorkerInv'
    BY <1>4, OnUpdatedStep, OnDroppedStep, TriggerStep DEF Handles
  <1>5. CASE (\E w \in Workflows : Completes(w)) \/ UNCHANGED vars
    BY <1>5, CompletesStep
  <1> QED
    BY <1>1, <1>2, <1>3, <1>4, <1>5 DEF Next, Steps

\* The invariant holds of every worker.
LEMMA WorkerInvCorrect == Spec => []WorkerInv
  BY WorkerInit, WorkerStep, PTL DEF Spec

-----------------------------------------------------------------------------
(* What the run checks *)

\* The worker and its synchronizer keep their variables typed: only a response
\* is offered, and only a trigger is about to be executed.
THEOREM WorkerTypeCorrect == Spec => []TypeOK
  <1>1. WorkerInv => TypeOK
    BY DEF WorkerInv
  <1> QED
    BY <1>1, WorkerInvCorrect, PTL

\* When every response is handled, OnUpdated and OnDropped have brought the
\* triggers to what the server has sent, through broken streams, panics and
\* restarts, except for resources that turned into another type.
THEOREM WorkerTriggersInStep == Spec => []TriggersInStep
  <1>1. WorkerInv => TriggersInStep
    <2> SUFFICES ASSUME WorkerInv, Quiet, NEW i \in Ids, view[i] # Foreign
                 PROVE  triggers[i] = view[i]
      BY DEF TriggersInStep
    <2>1. loop.pc = "select" /\ recv.pc # "offer"
      BY DEF Quiet
    <2> QED
      BY <2>1 DEF WorkerInv, NothingLost, AfterOffer, AfterLoop
  <1> QED
    BY <1>1, WorkerInvCorrect, PTL

\* When every response is handled, a workflow runs only for a trigger that is
\* there, unless its trigger was changed, dropped with no action or lost with
\* its process: OnDropped stops the others or ends the process.
THEOREM WorkerOnlyTriggeredRuns == Spec => []OnlyTriggeredRuns
  <1>1. WorkerInv => OnlyTriggeredRuns
    BY DEF WorkerInv, RunsAreTriggered, OnlyTriggeredRuns, Quiet
  <1> QED
    BY <1>1, WorkerInvCorrect, PTL

\* ExecuteWorkflow replaces a running workflow only for a trigger that asks to
\* overlap it, although the workflow may start or end after checkIfIsRunning.
THEOREM WorkerRunningIsKept == Spec => RunningIsKept
  <1> DEFINE Kept == \A w \in Workflows :
                 IsRunning(w) /\ wf'[w] = "running" /\ run'[w] # run[w]
                     => start.of.ifRunning = "overlap"
  <1>1. ASSUME WorkerInv, [Next]_vars PROVE [Kept]_vars
    <2>1. CASE ExecuteWorkflow
      <3>1. start # None /\ TypeOK
        BY <1>1, <2>1 DEF ExecuteWorkflow, WorkerInv
      <3> QED
        BY <1>1, <2>1, <3>1, ExecuteFacts DEF WorkerInv, StartIsTriggered
    <2>2. ASSUME NEW v \in Workflows, Completes(v) PROVE Kept
      <3>1. \A w \in Workflows : wf'[w] = "running" => w # v
        BY <1>1, <2>2 DEF Completes, WorkerInv, TypeOK
      <3>2. \A w \in Workflows : w # v => run'[w] = run[w]
        BY <1>1, <2>2 DEF Completes, WorkerInv, TypeOK
      <3> QED
        BY <3>1, <3>2
    <2>3. CASE UNCHANGED run
      BY <2>3
    <2>4. CASE Steps
      <3>1. CASE SyncSteps /\ UNCHANGED workVars
        BY <2>3, <3>1 DEF workVars
      <3>2. CASE OnEndOfPage \/ WorkerRestarts
        BY <2>3, <3>2 DEF OnEndOfPage, WorkerRestarts
      <3>3. ASSUME NEW i \in Ids, Handles(i) PROVE UNCHANGED run
        BY <3>3 DEF Handles, OnUpdated, OnDropped, Trigger
      <3> QED
        BY <2>1, <2>3, <2>4, <3>1, <3>2, <3>3 DEF Steps
    <2>5. CASE SyncEnv /\ UNCHANGED workVars
      BY <2>3, <2>5 DEF workVars
    <2> QED
      BY <1>1, <2>2, <2>4, <2>5 DEF Next
  <1> QED
    BY <1>1, WorkerInvCorrect, PTL DEF Spec, RunningIsKept
=============================================================================
